-------------------------- MODULE EventDrafts_proofs --------------------------
(***************************************************************************)
(* Proofs about EventDrafts, for any windows, forms, texts and bounds: the *)
(* inductive invariant IInv, and from it that what a window is told was    *)
(* saved or submitted is so, that no save overwrites what its window had   *)
(* not seen, and that a draft or a form becomes one event.                 *)
(***************************************************************************)
EXTENDS EventDrafts, FiniteSetTheorems, TLAPS

-----------------------------------------------------------------------------
(* Windows, rows and calls *)

Modes   == {"editing", "retrying", "saving", "submitting", "posting", "saved", "done", "locked"}
Answers == {"none", "ok", "refused", "errors"}

LEMMA OpenedFacts ==
  ASSUME NEW v \in Opened
  PROVE  /\ v.mode \in Modes /\ v.goal \in {"save", "submit"} /\ v.id \in Ids
         /\ v.reopened \in BOOLEAN /\ v.form \in Form /\ v.version \in Nat
         /\ v.pending \in {NoSave} \cup Save /\ v.base \in Fields /\ v.call \in 0 .. MaxCalls
         /\ v.answer \in Answers /\ v.told \in Nat
         /\ v # Closed
<1>1. v.mode \in Modes
  BY DEF Opened, Modes
<1>2. v # Closed
  BY <1>1 DEF Closed, Modes
<1> QED
  BY <1>1, <1>2 DEF Opened, Answers

LEMMA FormFacts ==
  ASSUME NEW form \in Form
  PROVE  StoredForm(form) \in Fields
BY DEF StoredForm, Form, Fields

LEMMA SaveFacts ==
  ASSUME NEW p \in Save
  PROVE  p.operation \in 1 .. MaxOps /\ p.version \in Nat /\ p.form \in Form /\ p # NoSave
<1>1. p.operation \in 1 .. MaxOps /\ p.version \in Nat /\ p.form \in Form
  BY DEF Save
<1>2. NoSave.operation = 0
  BY DEF NoSave
<1> QED
  BY <1>1, <1>2, BoundsAssumption

LEMMA RowFacts ==
  ASSUME NEW row \in Row, row.status # "none"
  PROVE  /\ row.status \in {"Draft", "Submitted"} /\ row.fields \in Fields
         /\ row.version \in Nat /\ row.operation \in 0 .. MaxOps
BY DEF Row

LEMMA PutFacts ==
  ASSUME NEW m \in Put
  PROVE  /\ m.kind = "put" /\ m.call \in 1 .. MaxCalls /\ m.id \in Ids /\ m.save \in Save
         /\ m.base \in Fields
BY DEF Put

LEMMA PostFacts ==
  ASSUME NEW m \in Post
  PROVE  /\ m.kind \in {"submit", "post"} /\ m.call \in 1 .. MaxCalls /\ m.id \in Ids
         /\ m.version \in Nat /\ m.form \in Form
BY DEF Post

LEMMA IdleFacts ==
  ASSUME NEW v \in Opened, NEW mode \in Modes
  PROVE  LET u == Idle(v, mode)
         IN  /\ u \in Opened /\ u.mode = mode /\ u.answer = "none"
             /\ u.id = v.id /\ u.form = v.form /\ u.version = v.version
             /\ u.pending = v.pending /\ u.base = v.base
<1>1. 0 \in 0 .. MaxCalls
  BY BoundsAssumption
<1> QED
  BY <1>1 DEF Opened, Modes, Idle

LEMMA AnsweredFacts ==
  ASSUME NEW v \in Opened, NEW answer \in Answers, NEW n \in Nat, NEW u,
         u = [v EXCEPT !.answer = answer, !.told = n]
  PROVE  /\ u \in Opened /\ u.mode = v.mode /\ u.call = v.call /\ u.answer = answer
         /\ u.told = n /\ u.id = v.id /\ u.form = v.form /\ u.version = v.version
         /\ u.pending = v.pending /\ u.base = v.base
BY DEF Opened, Answers

(* The invariant speaks of the state only through these. *)
LEMMA TypeParts ==
  ASSUME TypeOK
  PROVE  /\ draft \in [Ids -> Row] /\ window \in [Windows -> {Closed} \cup Opened]
         /\ \A w \in Windows : window[w] = Closed \/ window[w] \in Opened
         /\ \A id \in Ids : draft[id] \in Row
         /\ \A m \in net : m \in Put \/ m \in Post
         /\ forms \in Nat /\ ops \in Nat /\ calls \in Nat /\ MaxCalls \in Nat
         /\ forms \in 0 .. MaxForms /\ ops \in 0 .. MaxOps /\ calls \in 0 .. MaxCalls
BY BoundsAssumption DEF TypeOK

LEMMA WaitingFacts ==
  ASSUME TypeOK, NEW w \in Windows
  PROVE  Waiting(w) => window[w] \in Opened /\ window[w] # Closed
BY TypeParts DEF Waiting, Closed

-----------------------------------------------------------------------------
(* Steps of a window *)

(* A window's beliefs are about the draft and the events, which stay. *)
LEMMA BeliefsStay ==
  ASSUME UNCHANGED <<draft, events>>
  PROVE  /\ \A v : WindowKnows(v)' <=> WindowKnows(v)
         /\ \A v : ToldTruly(v)' <=> ToldTruly(v)
         /\ \A m : CallKnows(m)' <=> CallKnows(m)
BY DEF WindowKnows, ToldTruly, CallKnows, Knows, HasEvent

(* A window step, seen from its window. *)
LEMMA SetFacts ==
  ASSUME TypeOK, NEW w \in Windows, NEW new \in {Closed} \cup Opened, Set(w, new)
  PROVE  /\ window'[w] = new /\ \A x \in Windows \ {w} : window'[x] = window[x]
         /\ window' \in [Windows -> {Closed} \cup Opened]
BY TypeParts DEF Set

(* The types after a step of a window. *)
LEMMA WindowTypes ==
  ASSUME IInv, NEW w \in Windows, NEW new \in {Closed} \cup Opened, Set(w, new),
         UNCHANGED <<draft, events>>, \A m \in net' : m \in Put \cup Post,
         forms' \in 0 .. MaxForms, forms <= forms',
         ops' \in 0 .. MaxOps, calls' \in 0 .. MaxCalls,
         new # Closed => /\ new.id <= forms'
                         /\ new.mode \in {"retrying", "saving"} => new.pending # NoSave
                         /\ WindowKnows(new)
  PROVE  TypeOK'
<1>1. TypeOK
  BY DEF IInv
<1>2. /\ window'[w] = new /\ \A x \in Windows \ {w} : window'[x] = window[x]
      /\ window' \in [Windows -> {Closed} \cup Opened]
  BY <1>1, SetFacts
<1>3. \A x \in Windows : window'[x] # Closed =>
        /\ window'[x].id <= forms'
        /\ window'[x].mode \in {"retrying", "saving"} => window'[x].pending # NoSave
        /\ draft'[window'[x].id].status = "none" => window'[x].version = 0
  <2> SUFFICES ASSUME NEW x \in Windows, window'[x] # Closed
               PROVE  /\ window'[x].id <= forms'
                      /\ window'[x].mode \in {"retrying", "saving"} => window'[x].pending # NoSave
                      /\ draft'[window'[x].id].status = "none" => window'[x].version = 0
    OBVIOUS
  <2>1. CASE x = w
    BY <1>2, <2>1 DEF WindowKnows, Knows
  <2>2. CASE x # w
    <3>1. window'[x] = window[x] /\ window[x] \in Opened
      BY <1>1, <1>2, <2>2, TypeParts
    <3>2. window[x].id \in Nat /\ window[x].id <= forms
      BY <1>1, <3>1, OpenedFacts DEF TypeOK, Ids
    <3> QED
      BY <1>1, <3>1, <3>2, TypeParts, BoundsAssumption DEF TypeOK
  <2> QED
    BY <2>1, <2>2
<1> QED
  BY <1>1, <1>2, <1>3 DEF TypeOK

(* What does not change with a window. *)
LEMMA ServerStays ==
  ASSUME IInv, UNCHANGED <<draft, events>>
  PROVE  VersionsCount' /\ OneEventPerKey' /\ SubmittedDraftIsItsEvent'
BY DEF IInv, VersionsCount, OneEventPerKey, SubmittedDraftIsItsEvent

LEMMA FormsGrow ==
  ASSUME TypeOK, forms' \in 0 .. MaxForms, forms <= forms'
  PROVE  /\ \A id \in Ids : id <= forms => id <= forms'
         /\ \A m \in net : m.id <= forms => m.id <= forms'
<1>1. forms \in Nat /\ forms' \in Nat
  BY TypeParts
<1>2. \A id \in Ids : id \in Nat
  BY BoundsAssumption DEF Ids
<1>3. \A m \in net : m.id \in Ids
  BY TypeParts, PutFacts, PostFacts
<1> QED
  BY <1>1, <1>2, <1>3

(* A window that waits for no call afterwards. *)
LEMMA QuietWindow ==
  ASSUME IInv, NEW w \in Windows, NEW new \in {Closed} \cup Opened, Set(w, new),
         UNCHANGED <<draft, events, net, ops, calls>>, forms' \in 0 .. MaxForms, forms <= forms',
         new # Closed => /\ new.id <= forms'
                         /\ new.mode \notin {"retrying", "saving", "submitting", "posting"}
                         /\ WindowKnows(new)
  PROVE  IInv'
<1>0. TypeOK
  BY DEF IInv
<1>1. /\ window'[w] = new /\ \A x \in Windows \ {w} : window'[x] = window[x]
      /\ window' \in [Windows -> {Closed} \cup Opened]
  BY <1>0, SetFacts
<1>2. TypeOK'
  BY <1>0, WindowTypes, TypeParts
<1>3. new.mode \notin {"retrying", "saving", "submitting", "posting"}
  BY DEF Closed
<1>4. new # Closed => ToldTruly(new)
  BY <1>3 DEF ToldTruly
<1>5. WindowsKnow'
  BY <1>1, <1>4, BeliefsStay DEF IInv, WindowsKnow
<1>6. CallsKnow'
  BY BeliefsStay DEF IInv, CallsKnow
<1>7. \A x \in Windows : Waiting(x)' => Waiting(x) /\ window'[x] = window[x]
  BY <1>1, <1>3 DEF Waiting
<1>8. CallsAreUnique'
  BY <1>7 DEF IInv, CallsAreUnique
<1>9. CallsAreAwaited'
  BY <1>7 DEF IInv, CallsAreAwaited, Awaited
<1>10. IdsAreDrawn'
  BY <1>0, TypeParts, FormsGrow DEF IInv, IdsAreDrawn
<1> QED
  BY <1>2, <1>5, <1>10, <1>6, <1>8, <1>9, ServerStays DEF IInv

(* A window that sends a call, and what the call and the window then know. *)
LEMMA SendStep ==
  ASSUME IInv, NEW w \in Windows, NEW v \in Opened, NEW mode \in Modes, NEW m,
         Send(w, v, mode, m), UNCHANGED <<draft, events, forms>>, ops' \in 0 .. MaxOps,
         m \in Put \/ m \in Post, m.call = calls + 1, m.id = v.id, CallKnows(m),
         v.id <= forms,
         mode \in {"retrying", "saving"} =>
           v.pending # NoSave /\ m.kind = "put" /\ m.save = v.pending,
         mode = "submitting" => m.kind = "submit",
         mode = "posting" => m.kind = "post",
         mode \in {"retrying", "saving", "submitting", "posting"},
         Knows(v.id, v.version, v.base),
         v.pending # NoSave => v.pending.version = v.version,
         mode = "saving" => v.pending.form = v.form,
         mode = "submitting" => v.version >= 1 /\ v.base = StoredForm(v.form)
  PROVE  IInv'
<1>0. TypeOK
  BY DEF IInv
<1>1. /\ calls < MaxCalls /\ calls' = calls + 1 /\ net' = net \cup {m}
      /\ Set(w, [v EXCEPT !.mode = mode, !.call = calls', !.answer = "none", !.told = 0])
  BY DEF Send
<1>2. calls \in Nat /\ calls' \in 0 .. MaxCalls
  BY <1>0, <1>1, TypeParts
<1>3. PICK c \in 0 .. MaxCalls : c = calls'
  BY <1>2
<1>u. PICK u : u = [v EXCEPT !.mode = mode, !.call = c, !.answer = "none", !.told = 0]
  OBVIOUS
<1>4. /\ u \in Opened /\ u.mode = mode /\ u.call = calls' /\ u.answer = "none"
      /\ u.id = v.id /\ u.form = v.form /\ u.version = v.version /\ u.pending = v.pending
      /\ u.base = v.base
  <2>1. /\ u \in Opened /\ u.mode = mode /\ u.call = c /\ u.answer = "none"
        /\ u.id = v.id /\ u.form = v.form /\ u.version = v.version /\ u.pending = v.pending
        /\ u.base = v.base
    BY <1>u DEF Opened, Modes
  <2> QED
    BY <1>3, <2>1
<1>5. u # Closed
  BY <1>4, OpenedFacts
<1>6. WindowKnows(u) /\ ToldTruly(u)
  BY <1>4 DEF WindowKnows, ToldTruly
<1>7. /\ window'[w] = u /\ \A x \in Windows \ {w} : window'[x] = window[x]
      /\ window' \in [Windows -> {Closed} \cup Opened]
  BY <1>0, <1>1, <1>3, <1>u, <1>4, SetFacts
<1>8. TypeOK'
  <2>1. Set(w, u) /\ u \in {Closed} \cup Opened
    BY <1>1, <1>3, <1>u, <1>4
  <2>2. \A k \in net' : k \in Put \cup Post
    BY <1>0, <1>1, TypeParts
  <2>3. u.id <= forms /\ (u.mode \in {"retrying", "saving"} => u.pending # NoSave)
    BY <1>4
  <2>4. forms' = forms /\ forms' \in 0 .. MaxForms /\ forms <= forms'
    BY <1>0, TypeParts
  <2> QED
    BY <1>2, <1>6, <2>1, <2>2, <2>3, <2>4, WindowTypes
<1>9. WindowsKnow'
  BY <1>6, <1>7, BeliefsStay DEF IInv, WindowsKnow
<1>10. CallsKnow'
  BY <1>1, BeliefsStay DEF IInv, CallsKnow
<1>11. /\ \A x \in Windows \ {w} : Waiting(x)' <=> Waiting(x)
       /\ Waiting(w)'
  BY <1>4, <1>7 DEF Waiting
<1>12. \A x \in Windows : Waiting(x) => window[x].call \in 1 .. calls
  BY DEF IInv, CallsAreUnique
<1>13. \A k \in net : k.call <= calls /\ k.call \in Nat
  <2>1. \A k \in net : k.call \in Nat
    BY <1>0, TypeParts, PutFacts, PostFacts
  <2> QED
    BY <2>1 DEF IInv, CallsAreUnique
<1>14. CallsAreUnique'
  <2>1. \A k \in net' : k.call <= calls'
    BY <1>1, <1>2, <1>13
  <2>2. \A k, n \in net' : k.call = n.call => k = n
    BY <1>1, <1>2, <1>13 DEF IInv, CallsAreUnique
  <2>3. \A x \in Windows : Waiting(x)' => window'[x].call \in 1 .. calls'
    BY <1>1, <1>2, <1>4, <1>7, <1>11, <1>12
  <2>4. \A x, y \in Windows :
          Waiting(x)' /\ Waiting(y)' /\ window'[x].call = window'[y].call => x = y
    BY <1>1, <1>2, <1>4, <1>7, <1>11, <1>12 DEF IInv, CallsAreUnique
  <2> QED
    BY <2>1, <2>2, <2>3, <2>4 DEF CallsAreUnique
<1>15. CallsAreAwaited'
  <2> SUFFICES ASSUME NEW x \in Windows, NEW k \in net',
                      Waiting(x)', window'[x].call = k.call
               PROVE  Awaited(window'[x], k)
    BY DEF CallsAreAwaited, Awaited
  <2>1. CASE x = w
    <3>1. k = m
      BY <1>1, <1>2, <1>4, <1>7, <1>13, <2>1
    <3> QED
      BY <1>4, <1>7, <2>1, <3>1 DEF Awaited
  <2>2. CASE x # w
    <3>1. k # m /\ Waiting(x) /\ window'[x] = window[x]
      BY <1>2, <1>7, <1>11, <1>12, <2>2
    <3> QED
      BY <1>1, <3>1 DEF IInv, CallsAreAwaited
  <2> QED
    BY <2>1, <2>2
<1>16. IdsAreDrawn'
  BY <1>1 DEF IInv, IdsAreDrawn
<1> QED
  BY <1>8, <1>9, <1>10, <1>14, <1>15, <1>16, ServerStays DEF IInv

(* The actions of a window that send nothing. *)
LEMMA OpenNewStep ==
  ASSUME IInv, NEW w \in Windows, OpenNew(w)
  PROVE  IInv'
<1>0. TypeOK
  BY DEF IInv
<1>1. forms' = forms + 1 /\ forms' \in Ids /\ forms' \in 0 .. MaxForms /\ forms <= forms'
  BY <1>0, TypeParts, BoundsAssumption DEF OpenNew, Ids
<1>2. PICK id \in Ids : id = forms'
  BY <1>1
<1>3. PICK new : new = Window(id, FALSE, "editing", NewForm, 0)
  OBVIOUS
<1>4. NewForm \in Form /\ StoredForm(NewForm) \in Fields
  BY TextsAssumption, DatesAssumption, FormFacts DEF NewForm, Form
<1>5. new \in Opened /\ new.mode = "editing" /\ new.id = id /\ new.version = 0
      /\ new.pending = NoSave /\ new.base = StoredForm(NewForm)
  BY <1>3, <1>4, BoundsAssumption DEF Window, Opened
<1>6. draft[id] \in Row
  BY <1>0, TypeParts
<1>7. WindowKnows(new)
  <2>1. Knows(id, 0, StoredForm(NewForm))
    BY <1>6, RowFacts DEF Knows, IInv, VersionsCount
  <2> QED
    BY <1>5, <2>1 DEF WindowKnows
<1>8. Set(w, new) /\ UNCHANGED <<draft, events, net, ops, calls>>
  BY <1>2, <1>3 DEF OpenNew
<1>9. new.id <= forms'
  BY <1>1, <1>2, <1>5
<1> QED
  BY <1>1, <1>5, <1>7, <1>8, <1>9, QuietWindow

LEMMA OpenDraftStep ==
  ASSUME IInv, NEW w \in Windows, NEW id \in Ids, OpenDraft(w, id)
  PROVE  IInv'
<1>0. TypeOK
  BY DEF IInv
<1>1. draft[id] \in Row /\ draft[id].status # "none"
  BY <1>0, TypeParts DEF OpenDraft
<1> DEFINE form == [text |-> draft[id].fields.text, dates |-> draft[id].fields.dates, web |-> FALSE]
           mode == IF draft[id].status = "Draft" THEN "editing" ELSE "locked"
<1>2. PICK new : new = Window(id, TRUE, mode, form, draft[id].version)
  OBVIOUS
<1>3. form \in Form /\ StoredForm(form) = draft[id].fields /\ StoredForm(form) \in Fields
  BY <1>1, RowFacts DEF Form, Fields, StoredForm
<1>4. draft[id].version \in Nat
  BY <1>1, RowFacts
<1>5. new \in Opened /\ new.mode \in {"editing", "locked"} /\ new.id = id
      /\ new.version = draft[id].version /\ new.pending = NoSave /\ new.base = draft[id].fields
  <2> HIDE DEF form
  <2> QED
    BY <1>2, <1>3, <1>4, BoundsAssumption DEF Window, Opened
<1>6. WindowKnows(new)
  <2>1. Knows(id, draft[id].version, draft[id].fields)
    BY <1>1, <1>4 DEF Knows
  <2> QED
    BY <1>5, <2>1 DEF WindowKnows
<1>7. Set(w, new) /\ UNCHANGED <<draft, events, net, forms, ops, calls>>
  BY <1>2 DEF OpenDraft
<1>8. new.id <= forms' /\ forms' \in 0 .. MaxForms /\ forms <= forms'
  BY <1>0, <1>1, <1>5, <1>7, TypeParts DEF IInv, IdsAreDrawn
<1> QED
  BY <1>5, <1>6, <1>7, <1>8, QuietWindow

LEMMA CloseStep ==
  ASSUME IInv, NEW w \in Windows, Close(w)
  PROVE  IInv'
<1>0. TypeOK
  BY DEF IInv
<1>1. Set(w, Closed) /\ UNCHANGED <<draft, events, net, forms, ops, calls>>
  BY DEF Close
<1>2. forms' \in 0 .. MaxForms /\ forms <= forms'
  BY <1>0, <1>1, TypeParts
<1> QED
  BY <1>1, <1>2, QuietWindow

(* What an open window is, and what it knows. *)
LEMMA OpenFacts ==
  ASSUME IInv, NEW w \in Windows, window[w].mode # "closed"
  PROVE  /\ window[w] \in Opened /\ window[w] # Closed /\ window[w].id <= forms
         /\ WindowKnows(window[w]) /\ ToldTruly(window[w])
<1>0. TypeOK
  BY DEF IInv
<1>1. window[w] # Closed
  BY DEF Closed
<1> QED
  BY <1>0, <1>1, TypeParts DEF TypeOK, IInv, WindowsKnow

LEMMA EditStep ==
  ASSUME IInv, NEW w \in Windows, Edit(w)
  PROVE  IInv'
<1>0. TypeOK
  BY DEF IInv
<1>1. window[w].mode = "editing"
  BY DEF Edit
<1>2. PICK form \in Form : Set(w, [window[w] EXCEPT !.form = form])
  BY FillingsAssumption DEF Edit, Form
<1>3. PICK v : v = window[w]
  OBVIOUS
<1>4. v \in Opened /\ v.id <= forms /\ WindowKnows(v) /\ v.mode = "editing"
  BY <1>1, <1>3, OpenFacts
<1>5. PICK new : new = [v EXCEPT !.form = form]
  OBVIOUS
<1>6. new \in Opened /\ new.mode = "editing" /\ new.id = v.id /\ new.version = v.version
      /\ new.pending = v.pending /\ new.base = v.base
  BY <1>4, <1>5 DEF Opened
<1>7. WindowKnows(new)
  BY <1>4, <1>6 DEF WindowKnows
<1>8. Set(w, new) /\ UNCHANGED <<draft, events, net, forms, ops, calls>>
  BY <1>2, <1>3, <1>5 DEF Edit
<1>9. new.id <= forms' /\ forms' \in 0 .. MaxForms /\ forms <= forms'
  BY <1>0, <1>4, <1>6, <1>8, TypeParts
<1> QED
  BY <1>6, <1>7, <1>8, <1>9, QuietWindow

(* A save or a submission that failed leaves the form to be edited. *)
LEMMA FailStep ==
  ASSUME IInv, NEW w \in Windows, NEW dropped \in BOOLEAN, Waiting(w), Fail(w, dropped),
         UNCHANGED <<draft, events, net, forms, ops, calls>>
  PROVE  IInv'
<1>0. TypeOK
  BY DEF IInv
<1>1. PICK v : v = window[w]
  OBVIOUS
<1>2. v \in Opened /\ v.id <= forms /\ WindowKnows(v)
  BY <1>1, OpenFacts DEF Waiting
<1>3. PICK u : u = Idle(v, "editing")
  OBVIOUS
<1>4. u \in Opened /\ u.mode = "editing" /\ u.id = v.id /\ u.version = v.version
      /\ u.pending = v.pending /\ u.base = v.base
  BY <1>2, <1>3, IdleFacts DEF Modes
<1>5. PICK new : new = [u EXCEPT !.pending = IF dropped THEN NoSave ELSE @]
  OBVIOUS
<1>6. new \in Opened /\ new.mode = "editing" /\ new.id = v.id /\ new.version = v.version
      /\ new.pending \in {NoSave, v.pending} /\ new.base = v.base
  BY <1>4, <1>5 DEF Opened
<1>7. WindowKnows(new)
  BY <1>2, <1>6 DEF WindowKnows
<1>8. Set(w, new)
  BY <1>1, <1>3, <1>5 DEF Fail
<1>9. new.id <= forms' /\ forms' \in 0 .. MaxForms /\ forms <= forms'
  BY <1>0, <1>2, <1>6, TypeParts
<1> QED
  BY <1>6, <1>7, <1>8, <1>9, QuietWindow

LEMMA SubmittedStep ==
  ASSUME IInv, NEW w \in Windows, Submitted(w)
  PROVE  IInv'
<1>0. TypeOK
  BY DEF IInv
<1>1. PICK v : v = window[w]
  OBVIOUS
<1>2. v \in Opened /\ v.id <= forms /\ WindowKnows(v) /\ ToldTruly(v)
      /\ v.mode \in {"submitting", "posting"} /\ v.answer = "ok"
  BY <1>1, OpenFacts DEF Submitted
<1>3. PICK new : new = Idle(v, "done")
  OBVIOUS
<1>4. new \in Opened /\ new.mode = "done" /\ new.id = v.id /\ new.version = v.version
      /\ new.pending = v.pending /\ new.base = v.base /\ new.form = v.form
  BY <1>2, <1>3, IdleFacts DEF Modes
<1>5. WindowKnows(new)
  BY <1>2, <1>4 DEF WindowKnows, ToldTruly
<1>6. Set(w, new) /\ UNCHANGED <<draft, events, net, forms, ops, calls>>
  BY <1>1, <1>3 DEF Submitted
<1>7. new.id <= forms' /\ forms' \in 0 .. MaxForms /\ forms <= forms'
  BY <1>0, <1>2, <1>4, <1>6, TypeParts
<1> QED
  BY <1>4, <1>5, <1>6, <1>7, QuietWindow

(* The four ways of sending a call. *)
LEMMA RetryStep ==
  ASSUME IInv, NEW w \in Windows, NEW v \in Opened, v.id <= forms, WindowKnows(v),
         v.pending # NoSave, SendPut(w, v, "retrying"), UNCHANGED <<draft, events, forms, ops>>
  PROVE  IInv'
<1>0. TypeOK
  BY DEF IInv
<1>1. calls + 1 \in 1 .. MaxCalls
  BY <1>0, TypeParts DEF SendPut, Send
<1>2. PICK c \in 1 .. MaxCalls : c = calls + 1
  BY <1>1
<1>3. PICK m : m = [kind |-> "put", call |-> c, id |-> v.id, save |-> v.pending, base |-> v.base]
  OBVIOUS
<1>4. v.id \in Ids /\ v.pending \in Save /\ v.base \in Fields
  BY OpenedFacts
<1>5. m \in Put /\ m.kind = "put" /\ m.call = c /\ m.id = v.id /\ m.save = v.pending
      /\ m.base = v.base
  BY <1>3, <1>4 DEF Put
<1>6. Send(w, v, "retrying", m)
  BY <1>2, <1>3 DEF SendPut
<1>7. CallKnows(m)
  BY <1>5 DEF WindowKnows, CallKnows
<1>8. ops' \in 0 .. MaxOps
  BY <1>0, TypeParts
<1>9. "retrying" \in Modes
  BY DEF Modes
<1> QED
  BY <1>2, <1>5, <1>6, <1>7, <1>8, <1>9, SendStep DEF WindowKnows

LEMMA SendFreshStep ==
  ASSUME IInv, NEW w \in Windows, NEW v \in Opened, v.id <= forms,
         Knows(v.id, v.version, v.base), SendFresh(w, v), UNCHANGED <<draft, events, forms>>
  PROVE  IInv'
<1>0. TypeOK
  BY DEF IInv
<1>1. calls + 1 \in 1 .. MaxCalls /\ ops + 1 \in 1 .. MaxOps /\ ops' = ops + 1
  BY <1>0, TypeParts, BoundsAssumption DEF SendFresh, SendPut, Send
<1>2. PICK c \in 1 .. MaxCalls : c = calls + 1
  BY <1>1
<1>3. PICK o \in 1 .. MaxOps : o = ops'
  BY <1>1
<1>4. PICK save : save = [operation |-> o, version |-> v.version, form |-> v.form]
  OBVIOUS
<1>5. v.id \in Ids /\ v.form \in Form /\ v.version \in Nat /\ v.base \in Fields
  BY OpenedFacts
<1>6. save \in Save /\ save.version = v.version /\ save.form = v.form /\ save # NoSave
  BY <1>4, <1>5, SaveFacts DEF Save
<1>7. PICK u : u = [v EXCEPT !.pending = save]
  OBVIOUS
<1>8. u \in Opened /\ u.id = v.id /\ u.form = v.form /\ u.version = v.version
      /\ u.pending = save /\ u.base = v.base
  BY <1>6, <1>7 DEF Opened
<1>9. PICK m : m = [kind |-> "put", call |-> c, id |-> u.id, save |-> u.pending, base |-> u.base]
  OBVIOUS
<1>10. m \in Put /\ m.kind = "put" /\ m.call = c /\ m.id = u.id /\ m.save = u.pending
       /\ m.base = u.base
  BY <1>5, <1>6, <1>8, <1>9 DEF Put
<1>11. Send(w, u, "saving", m)
  BY <1>2, <1>3, <1>4, <1>7, <1>9 DEF SendFresh, SendPut
<1>12. CallKnows(m)
  BY <1>6, <1>8, <1>10 DEF CallKnows
<1>13. "saving" \in Modes
  BY DEF Modes
<1>14. ops' \in 0 .. MaxOps
  BY <1>1, BoundsAssumption
<1> QED
  BY <1>2, <1>6, <1>8, <1>10, <1>11, <1>12, <1>13, <1>14, SendStep

LEMMA SendPostStep ==
  ASSUME IInv, NEW w \in Windows, NEW v \in Opened, v.id <= forms,
         Knows(v.id, v.version, v.base),
         v.pending # NoSave => v.pending.version = v.version,
         NEW kind \in {"submit", "post"}, SendPost(w, v, kind),
         kind = "submit" => v.version >= 1 /\ v.base = StoredForm(v.form),
         UNCHANGED <<draft, events, forms, ops>>
  PROVE  IInv'
<1>0. TypeOK
  BY DEF IInv
<1>1. calls + 1 \in 1 .. MaxCalls
  BY <1>0, TypeParts DEF SendPost, Send
<1>2. PICK c \in 1 .. MaxCalls : c = calls + 1
  BY <1>1
<1>3. PICK m : m = [kind |-> kind, call |-> c, id |-> v.id, version |-> v.version, form |-> v.form]
  OBVIOUS
<1>4. v.id \in Ids /\ v.version \in Nat /\ v.form \in Form
  BY OpenedFacts
<1>5. m \in Post /\ m.kind = kind /\ m.call = c /\ m.id = v.id /\ m.version = v.version
      /\ m.form = v.form
  BY <1>3, <1>4 DEF Post
<1>6. CallKnows(m)
  BY <1>5 DEF CallKnows
<1>7. PICK mode \in Modes : mode = IF kind = "post" THEN "posting" ELSE "submitting"
  BY DEF Modes
<1>8. Send(w, v, mode, m)
  BY <1>2, <1>3, <1>7 DEF SendPost
<1>9. ops' \in 0 .. MaxOps
  BY <1>0, TypeParts
<1> QED
  BY <1>2, <1>5, <1>6, <1>7, <1>8, <1>9, SendStep

LEMMA PersistStep ==
  ASSUME IInv, NEW w \in Windows, window[w].mode = "editing", NEW goal \in {"save", "submit"},
         PersistDraft(w, goal), UNCHANGED <<draft, events, forms>>
  PROVE  IInv'
<1>1. PICK v : v = [window[w] EXCEPT !.goal = goal]
  OBVIOUS
<1>2. PICK old : old = window[w]
  OBVIOUS
<1>3. old \in Opened /\ old.id <= forms /\ WindowKnows(old)
  BY <1>2, OpenFacts
<1>4. v \in Opened /\ v.mode = old.mode /\ v.id = old.id /\ v.form = old.form
      /\ v.version = old.version /\ v.pending = old.pending /\ v.base = old.base
  BY <1>1, <1>2, <1>3 DEF Opened
<1>5. WindowKnows(v)
  BY <1>3, <1>4 DEF WindowKnows
<1>6. \/ v.pending # NoSave /\ SendPut(w, v, "retrying") /\ UNCHANGED ops
      \/ v.pending = NoSave /\ SendFresh(w, v)
  BY <1>1 DEF PersistDraft
<1>7. CASE v.pending # NoSave /\ SendPut(w, v, "retrying") /\ UNCHANGED ops
  BY <1>3, <1>4, <1>5, <1>7, RetryStep
<1>8. CASE v.pending = NoSave /\ SendFresh(w, v)
  BY <1>3, <1>4, <1>5, <1>8, SendFreshStep DEF WindowKnows
<1> QED
  BY <1>6, <1>7, <1>8

LEMMA SaveDraftStep ==
  ASSUME IInv, NEW w \in Windows, SaveDraft(w)
  PROVE  IInv'
BY PersistStep DEF SaveDraft

LEMMA AdvanceStep ==
  ASSUME IInv, NEW w \in Windows, Advance(w)
  PROVE  IInv'
<1>1. window[w].mode = "editing" /\ UNCHANGED <<draft, events, forms>>
  BY DEF Advance
<1>2. CASE PersistDraft(w, "submit")
  BY <1>1, <1>2, PersistStep
<1>3. CASE SendPost(w, [window[w] EXCEPT !.goal = "submit"], "post") /\ UNCHANGED ops
  <2>1. PICK old : old = window[w]
    OBVIOUS
  <2>2. old \in Opened /\ old.id <= forms /\ WindowKnows(old)
    BY <1>1, <2>1, OpenFacts
  <2>3. PICK v : v = [old EXCEPT !.goal = "submit"]
    OBVIOUS
  <2>4. v \in Opened /\ v.id = old.id /\ v.version = old.version
        /\ v.pending = old.pending /\ v.base = old.base
    BY <2>2, <2>3 DEF Opened
  <2>5. SendPost(w, v, "post")
    BY <1>3, <2>1, <2>3
  <2> QED
    BY <1>1, <1>3, <2>2, <2>4, <2>5, SendPostStep DEF WindowKnows
<1> QED
  BY <1>2, <1>3 DEF Advance

(* The draft is saved: the window learns its version and goes on. *)
LEMMA SavedStep ==
  ASSUME IInv, NEW w \in Windows, Saved(w)
  PROVE  IInv'
<1>0. TypeOK
  BY DEF IInv
<1>1. PICK v : v = window[w]
  OBVIOUS
<1>2. v \in Opened /\ v.id <= forms /\ WindowKnows(v) /\ ToldTruly(v)
      /\ v.mode \in {"retrying", "saving"} /\ v.answer = "ok"
  BY <1>1, OpenFacts DEF Saved
<1>3. v.pending # NoSave
  BY <1>0, <1>1, <1>2, OpenedFacts DEF TypeOK
<1>4. v.pending \in Save /\ v.pending.form \in Form /\ v.told \in Nat
  BY <1>2, <1>3, OpenedFacts, SaveFacts
<1>5. PICK base \in Fields : base = StoredForm(v.pending.form)
  BY <1>4, FormFacts
<1>6. PICK now : now = [v EXCEPT !.version = v.told, !.pending = NoSave, !.base = base]
  OBVIOUS
<1>7. now \in Opened /\ now.id = v.id /\ now.form = v.form /\ now.version = v.told
      /\ now.pending = NoSave /\ now.base = base
  BY <1>2, <1>4, <1>6 DEF Opened
<1>8. now.version >= 1 /\ Knows(now.id, now.version, now.base)
  BY <1>2, <1>5, <1>7 DEF ToldTruly
<1>9. /\ UNCHANGED <<draft, events, forms>>
      /\ IF v.mode = "saving" \/ v.pending.form = v.form THEN Persisted(w, now)
         ELSE SendFresh(w, now)
  BY <1>1, <1>5, <1>6 DEF Saved
<1>10. CASE SendFresh(w, now)
  BY <1>2, <1>7, <1>8, <1>9, <1>10, SendFreshStep
<1>11. CASE (v.mode = "saving" \/ v.pending.form = v.form) /\ Persisted(w, now)
  <2>1. now.base = StoredForm(now.form)
    BY <1>2, <1>3, <1>5, <1>7, <1>11 DEF WindowKnows
  <2>2. CASE Set(w, Idle(now, "saved")) /\ UNCHANGED <<net, calls, ops>>
    <3>1. PICK new : new = Idle(now, "saved")
      OBVIOUS
    <3>2. new \in Opened /\ new.mode = "saved" /\ new.id = now.id /\ new.version = now.version
          /\ new.pending = now.pending /\ new.base = now.base /\ new.form = now.form
      BY <1>7, <3>1, IdleFacts DEF Modes
    <3>3. WindowKnows(new)
      BY <1>7, <1>8, <2>1, <3>2 DEF WindowKnows
    <3>4. new.id <= forms' /\ forms' \in 0 .. MaxForms /\ forms <= forms'
      BY <1>0, <1>2, <1>7, <1>9, <3>2, TypeParts
    <3> QED
      BY <1>9, <2>2, <3>1, <3>2, <3>3, <3>4, QuietWindow
  <2>3. CASE SendPost(w, now, "submit") /\ UNCHANGED ops
    BY <1>2, <1>7, <1>8, <1>9, <2>1, <2>3, SendPostStep
  <2> QED
    BY <1>11, <2>2, <2>3 DEF Persisted
<1> QED
  BY <1>9, <1>10, <1>11

LEMMA OfWindowStep ==
  ASSUME IInv, NEW w \in Windows, OfWindow(w)
  PROVE  IInv'
<1>1. CASE GiveUp(w)
  BY <1>1, FailStep DEF GiveUp
<1>2. CASE Refused(w)
  <2>1. (window[w].answer = "errors" /\ window[w].goal = "save") \in BOOLEAN
    OBVIOUS
  <2>2. PICK dropped \in BOOLEAN :
          dropped = (window[w].answer = "errors" /\ window[w].goal = "save")
    BY <2>1
  <2>3. Fail(w, dropped) /\ Waiting(w) /\ UNCHANGED <<draft, events, net, forms, ops, calls>>
    BY <1>2, <2>2, Zenon DEF Refused
  <2> QED
    BY <2>3, FailStep
<1> QED
  BY <1>1, <1>2, OpenNewStep, OpenDraftStep, CloseStep, EditStep, SaveDraftStep, AdvanceStep,
     SavedStep, SubmittedStep DEF OfWindow

-----------------------------------------------------------------------------
(* Steps of the server *)

(* How a draft may change: it is created, saved once more, or submitted. *)
Grows(id) ==
  \/ draft'[id] = draft[id]
  \/ /\ draft[id].status = "none" /\ draft'[id].status = "Draft" /\ draft'[id].version = 1
  \/ /\ draft[id].status = "Draft" /\ draft'[id].status = "Draft"
     /\ draft'[id].version = draft[id].version + 1
  \/ /\ draft[id].status = "Draft" /\ draft'[id].status = "Submitted"
     /\ draft'[id].version = draft[id].version + 1
     /\ draft'[id].fields = draft[id].fields

(* Whoever saw a draft is not contradicted by a newer version of it. *)
LEMMA KnowsStays ==
  ASSUME TypeOK, NEW id \in Ids, Grows(id), NEW n \in Nat, NEW fields, Knows(id, n, fields)
  PROVE  Knows(id, n, fields)'
<1>1. draft[id] \in Row
  BY TypeParts
<1>2. draft[id].status # "none" => draft[id].version \in Nat
  BY <1>1, RowFacts
<1>3. CASE draft'[id] = draft[id]
  BY <1>3 DEF Knows
<1>4. CASE /\ draft[id].status = "none" /\ draft'[id].status = "Draft" /\ draft'[id].version = 1
  BY <1>4 DEF Knows
<1>5. CASE /\ draft[id].status = "Draft" /\ draft'[id].status = "Draft"
           /\ draft'[id].version = draft[id].version + 1
  BY <1>2, <1>5 DEF Knows
<1>6. CASE /\ draft[id].status = "Draft" /\ draft'[id].status = "Submitted"
           /\ draft'[id].version = draft[id].version + 1
           /\ draft'[id].fields = draft[id].fields
  BY <1>2, <1>6 DEF Knows
<1> QED
  BY <1>3, <1>4, <1>5, <1>6 DEF Grows

(* What the answer makes of a window: only its answer is new. *)
LEMMA AnswerFacts ==
  ASSUME TypeOK, NEW m \in net, NEW a \in Answers, NEW n \in Nat, Answer(m, a, n), NEW w \in Windows
  PROVE  /\ window'[w] \in {Closed} \cup Opened
         /\ window[w] = Closed => window'[w] = Closed
         /\ window[w] # Closed =>
              /\ window'[w] \in Opened
              /\ window'[w].mode = window[w].mode /\ window'[w].call = window[w].call
              /\ window'[w].id = window[w].id /\ window'[w].form = window[w].form
              /\ window'[w].version = window[w].version
              /\ window'[w].pending = window[w].pending /\ window'[w].base = window[w].base
              /\ \/ /\ window'[w].answer = window[w].answer /\ window'[w].told = window[w].told
                 \/ /\ Waiting(w) /\ window[w].call = m.call
                    /\ window'[w].answer = a /\ window'[w].told = n
<1>1. PICK v : v = window[w]
  OBVIOUS
<1>2. v = Closed \/ v \in Opened
  BY <1>1, TypeParts
<1>3. PICK u : u = [v EXCEPT !.answer = a, !.told = n]
  OBVIOUS
<1>4. v # Closed => /\ u \in Opened /\ u.mode = v.mode /\ u.call = v.call /\ u.answer = a
                    /\ u.told = n /\ u.id = v.id /\ u.form = v.form /\ u.version = v.version
                    /\ u.pending = v.pending /\ u.base = v.base
  BY <1>2, <1>3 DEF Opened, Answers
<1>5. window'[w] = IF v # Closed /\ Waiting(w) /\ v.call = m.call THEN u ELSE v
  BY <1>1, <1>3 DEF Answer
<1> QED
  BY <1>1, <1>2, <1>4, <1>5

(* A call that is served: the draft grows, or nothing changes, and what the *)
(* window is told is so.                                                    *)
LEMMA ServedStep ==
  ASSUME IInv, NEW m \in net, NEW a \in Answers, NEW n \in Nat, Answer(m, a, n),
         UNCHANGED <<forms, ops, calls>>,
         draft' \in [Ids -> Row], Grows(m.id), \A id \in Ids \ {m.id} : draft'[id] = draft[id],
         events \subseteq events', \A ev \in events' : ev \in [key : Key, fields : Fields, web : BOOLEAN],
         VersionsCount', OneEventPerKey', SubmittedDraftIsItsEvent',
         a = "ok" /\ m.kind = "put" => n >= 1 /\ Knows(m.id, n, StoredForm(m.save.form))',
         a = "ok" /\ m.kind = "submit" => draft'[m.id].status = "Submitted",
         a = "ok" /\ m.kind = "post" => HasEvent([kind |-> "form", id |-> m.id])'
  PROVE  IInv'
<1>0. TypeOK
  BY DEF IInv
<1>1. net' = net \ {m}
  BY DEF Answer
<1>2. \A id \in Ids : Grows(id)
  BY DEF Grows
<1>3. m \in Put \/ m \in Post
  BY <1>0, TypeParts
<1>4. m.id \in Ids
  BY <1>3, PutFacts, PostFacts
<1>5. \A key : HasEvent(key) => HasEvent(key)'
  BY DEF HasEvent
<1>6. \A id \in Ids : draft[id].status = "Submitted" => draft'[id].status = "Submitted"
  BY <1>2 DEF Grows
<1>7. \A id \in Ids : \A k \in Nat : \A fields : Knows(id, k, fields) => Knows(id, k, fields)'
  BY <1>0, <1>2, KnowsStays
<1>8. ASSUME NEW w \in Windows, window'[w] # Closed
      PROVE  (WindowKnows(window[w]) /\ ToldTruly(window[w]))'
  <2>1. PICK v : v = window[w]
    OBVIOUS
  <2>2. PICK u : u = window'[w]
    OBVIOUS
  <2>3. v \in Opened /\ v # Closed
    BY <1>0, <1>8, <2>1, AnswerFacts, TypeParts
  <2>4. /\ u \in Opened /\ u.mode = v.mode /\ u.call = v.call
        /\ u.id = v.id /\ u.form = v.form /\ u.version = v.version
        /\ u.pending = v.pending /\ u.base = v.base
        /\ \/ u.answer = v.answer /\ u.told = v.told
           \/ Waiting(w) /\ v.call = m.call /\ u.answer = a /\ u.told = n
    BY <1>0, <2>1, <2>2, <2>3, AnswerFacts
  <2>5. WindowKnows(v) /\ ToldTruly(v)
    BY <2>1, <2>3 DEF IInv, WindowsKnow
  <2>6. v.id \in Ids /\ v.version \in Nat /\ v.told \in Nat
    BY <2>3, OpenedFacts
  <2>7. WindowKnows(u)'
    <3>1. Knows(u.id, u.version, u.base)'
      BY <1>7, <2>4, <2>5, <2>6 DEF WindowKnows
    <3>2. u.mode = "done" =>
            \/ draft'[u.id].status = "Submitted" /\ u.base = StoredForm(u.form)
            \/ HasEvent([kind |-> "form", id |-> u.id])'
      BY <1>5, <1>6, <2>4, <2>5, <2>6 DEF WindowKnows
    <3> QED
      BY <2>4, <2>5, <3>1, <3>2 DEF WindowKnows
  <2>8. ToldTruly(u)'
    <3>1. CASE u.answer = v.answer /\ u.told = v.told
      <4>1. u.answer = "ok" /\ u.mode \in {"retrying", "saving"} =>
              u.told >= 1 /\ Knows(u.id, u.told, StoredForm(u.pending.form))'
        BY <1>7, <2>4, <2>5, <2>6, <3>1 DEF ToldTruly
      <4>2. u.answer = "ok" /\ u.mode = "submitting" => draft'[u.id].status = "Submitted"
        BY <1>6, <2>4, <2>5, <2>6, <3>1 DEF ToldTruly
      <4>3. u.answer = "ok" /\ u.mode = "posting" => HasEvent([kind |-> "form", id |-> u.id])'
        BY <1>5, <2>4, <2>5, <2>6, <3>1 DEF ToldTruly
      <4> QED
        BY <4>1, <4>2, <4>3 DEF ToldTruly
    <3>2. CASE Waiting(w) /\ v.call = m.call /\ u.answer = a /\ u.told = n
      <4>1. Awaited(v, m)
        BY <2>1, <3>2 DEF IInv, CallsAreAwaited
      <4>2. u.answer = "ok" /\ u.mode \in {"retrying", "saving"} =>
              u.told >= 1 /\ Knows(u.id, u.told, StoredForm(u.pending.form))'
        BY <2>4, <3>2, <4>1 DEF Awaited
      <4>3. u.answer = "ok" /\ u.mode = "submitting" => draft'[u.id].status = "Submitted"
        BY <2>4, <3>2, <4>1 DEF Awaited
      <4>4. u.answer = "ok" /\ u.mode = "posting" => HasEvent([kind |-> "form", id |-> u.id])'
        BY <2>4, <3>2, <4>1 DEF Awaited
      <4> QED
        BY <4>2, <4>3, <4>4 DEF ToldTruly
    <3> QED
      BY <2>4, <3>1, <3>2
  <2> QED
    BY <2>2, <2>7, <2>8 DEF WindowKnows, ToldTruly, Knows, HasEvent
<1>9. WindowsKnow'
  BY <1>8 DEF WindowsKnow
<1>10. TypeOK'
  <2>1. window' \in [Windows -> {Closed} \cup Opened]
    <3>1. \A w \in Windows : window'[w] \in {Closed} \cup Opened
      BY <1>0, AnswerFacts
    <3>2. window' = [w \in Windows |-> window'[w]]
      BY DEF Answer
    <3> QED
      BY <3>1, <3>2
  <2>2. ASSUME NEW w \in Windows, window'[w] # Closed
        PROVE  /\ window'[w].id <= forms'
               /\ window'[w].mode \in {"retrying", "saving"} => window'[w].pending # NoSave
               /\ draft'[window'[w].id].status = "none" => window'[w].version = 0
    <3>1. window[w] # Closed /\ window'[w].id = window[w].id
          /\ window'[w].mode = window[w].mode /\ window'[w].pending = window[w].pending
      BY <1>0, <2>2, AnswerFacts
    <3>2. draft'[window'[w].id].status = "none" => window'[w].version = 0
      BY <1>8, <2>2 DEF WindowKnows, Knows
    <3> QED
      BY <1>0, <3>1, <3>2 DEF TypeOK
  <2> QED
    BY <1>0, <1>1, <2>1, <2>2 DEF TypeOK
<1>11. IdsAreDrawn'
  BY <1>1, <1>2 DEF IInv, IdsAreDrawn
<1>12. CallsKnow'
  <2> SUFFICES ASSUME NEW k \in net PROVE CallKnows(k)'
    BY <1>1 DEF CallsKnow
  <2>1. k \in Put \/ k \in Post
    BY <1>0, TypeParts
  <2>2. CallKnows(k)
    BY DEF IInv, CallsKnow
  <2>3. k.kind = "put" => Knows(k.id, k.save.version, k.base)'
    BY <1>7, <2>1, <2>2, PutFacts, PostFacts, SaveFacts DEF CallKnows
  <2>4. k.kind = "submit" => k.version >= 1 /\ Knows(k.id, k.version, StoredForm(k.form))'
    BY <1>7, <2>1, <2>2, PutFacts, PostFacts DEF CallKnows
  <2> QED
    BY <2>3, <2>4 DEF CallKnows
<1>13. \A w \in Windows : Waiting(w)' => Waiting(w) /\ window'[w].call = window[w].call
                          /\ window'[w].mode = window[w].mode /\ window'[w].id = window[w].id
                          /\ window'[w].pending = window[w].pending
  <2> SUFFICES ASSUME NEW w \in Windows, Waiting(w)'
               PROVE  /\ Waiting(w) /\ window'[w].call = window[w].call
                      /\ window'[w].mode = window[w].mode /\ window'[w].id = window[w].id
                      /\ window'[w].pending = window[w].pending
    OBVIOUS
  <2>1. window'[w] # Closed
    BY DEF Waiting, Closed
  <2> QED
    BY <1>0, <2>1, AnswerFacts DEF Waiting
<1>14. CallsAreUnique'
  BY <1>1, <1>13 DEF IInv, CallsAreUnique
<1>15. CallsAreAwaited'
  BY <1>1, <1>13 DEF IInv, CallsAreAwaited, Awaited
<1> QED
  BY <1>9, <1>10, <1>11, <1>12, <1>14, <1>15 DEF IInv

(* A call that is answered and changes nothing. *)
LEMMA AnsweredStep ==
  ASSUME IInv, NEW m \in net, NEW a \in Answers, NEW n \in Nat, Answer(m, a, n),
         UNCHANGED <<draft, events, forms, ops, calls>>,
         a = "ok" /\ m.kind = "put" => n >= 1 /\ Knows(m.id, n, StoredForm(m.save.form)),
         a = "ok" /\ m.kind = "submit" => draft[m.id].status = "Submitted",
         a = "ok" => m.kind # "post"
  PROVE  IInv'
<1>1. TypeOK
  BY DEF IInv
<1>2. draft' \in [Ids -> Row] /\ Grows(m.id)
  BY <1>1, TypeParts DEF Grows
<1>3. \A ev \in events' : ev \in [key : Key, fields : Fields, web : BOOLEAN]
  BY <1>1 DEF TypeOK
<1>4. a = "ok" /\ m.kind = "put" => n >= 1 /\ Knows(m.id, n, StoredForm(m.save.form))'
  BY DEF Knows
<1> QED
  BY <1>2, <1>3, <1>4, ServerStays, ServedStep

(* What a call is, once its kind is known. *)
LEMMA CallTypes ==
  ASSUME TypeOK, NEW m \in net
  PROVE  /\ m.id \in Ids /\ draft[m.id] \in Row
         /\ m.kind = "put" => m \in Put
         /\ m.kind \in {"submit", "post"} => m \in Post
<1>1. m \in Put \/ m \in Post
  BY TypeParts
<1> QED
  BY <1>1, TypeParts, PutFacts, PostFacts

LEMMA ServeSaveStep ==
  ASSUME IInv, NEW m \in net, ServeSave(m)
  PROVE  IInv'
<1>0. TypeOK
  BY DEF IInv
<1>1. m.kind = "put" /\ m \in Put /\ m.id \in Ids /\ m.save \in Save
  BY <1>0, CallTypes, PutFacts DEF ServeSave
<1>2. /\ m.save.version \in Nat /\ m.save.operation \in 0 .. MaxOps /\ m.save.form \in Form
      /\ StoredForm(m.save.form) \in Fields
  BY <1>1, SaveFacts, FormFacts, BoundsAssumption
<1>3. PICK n \in Nat : n = m.save.version + 1
  BY <1>2
<1>4. PICK new : new = [status |-> "Draft", fields |-> StoredForm(m.save.form), version |-> n,
                        operation |-> m.save.operation]
  OBVIOUS
<1>5. new \in Row /\ new.status = "Draft" /\ new.fields = StoredForm(m.save.form) /\ new.version = n
  BY <1>2, <1>4 DEF Row
<1>6. /\ draft' = [draft EXCEPT ![m.id] = new] /\ Answer(m, "ok", n)
      /\ UNCHANGED <<events, forms, ops, calls>>
  BY <1>3, <1>4, <1>5 DEF ServeSave
<1>7. /\ draft' \in [Ids -> Row] /\ draft'[m.id] = new
      /\ \A id \in Ids \ {m.id} : draft'[id] = draft[id]
  BY <1>0, <1>1, <1>5, <1>6, TypeParts
<1>8. /\ draft[m.id].status # "Submitted"
      /\ \/ draft[m.id].status = "none" /\ n = 1
         \/ draft[m.id].status = "Draft" /\ n = draft[m.id].version + 1
  BY <1>2, <1>3 DEF ServeSave
<1>9. Grows(m.id)
  BY <1>5, <1>7, <1>8 DEF Grows
<1>10. n >= 1
  BY <1>2, <1>3
<1>11. VersionsCount'
  BY <1>5, <1>7, <1>10 DEF IInv, VersionsCount
<1>12. SubmittedDraftIsItsEvent'
  <2> SUFFICES ASSUME NEW id \in Ids
               PROVE  LET of == {ev \in events : ev.key = [kind |-> "draft", id |-> id]}
                      IN  IF draft'[id].status = "Submitted"
                          THEN Cardinality(of) = 1 /\ \A ev \in of : ev.fields = draft'[id].fields
                          ELSE of = {}
    BY <1>6 DEF SubmittedDraftIsItsEvent
  <2>1. CASE id = m.id
    BY <1>5, <1>7, <1>8, <2>1 DEF IInv, SubmittedDraftIsItsEvent
  <2>2. CASE id # m.id
    BY <1>7, <2>2 DEF IInv, SubmittedDraftIsItsEvent
  <2> QED
    BY <2>1, <2>2
<1>13. OneEventPerKey' /\ events \subseteq events'
  BY <1>6 DEF IInv, OneEventPerKey
<1>14. \A ev \in events' : ev \in [key : Key, fields : Fields, web : BOOLEAN]
  BY <1>0, <1>6 DEF TypeOK
<1>15. Knows(m.id, n, StoredForm(m.save.form))'
  BY <1>5, <1>7 DEF Knows
<1>16. "ok" \in Answers
  BY DEF Answers
<1> QED
  BY <1>1, <1>6, <1>7, <1>9, <1>10, <1>11, <1>12, <1>13, <1>14, <1>15, <1>16, ServedStep

LEMMA ServeSaveAgainStep ==
  ASSUME IInv, NEW m \in net, ServeSaveAgain(m)
  PROVE  IInv'
<1>0. TypeOK
  BY DEF IInv
<1>1. m.id \in Ids /\ draft[m.id] \in Row /\ m.kind = "put" /\ draft[m.id].status = "Draft"
  BY <1>0, CallTypes DEF ServeSaveAgain
<1>2. PICK n \in Nat : n = draft[m.id].version
  BY <1>1, RowFacts
<1>3. n >= 1
  BY <1>1, <1>2 DEF IInv, VersionsCount
<1>4. Knows(m.id, n, StoredForm(m.save.form))
  BY <1>1, <1>2 DEF Knows, ServeSaveAgain
<1>5. Answer(m, "ok", n) /\ UNCHANGED <<draft, events, forms, ops, calls>>
  BY <1>2 DEF ServeSaveAgain
<1> QED
  BY <1>1, <1>3, <1>4, <1>5, AnsweredStep DEF Answers

LEMMA ServeSubmitAgainStep ==
  ASSUME IInv, NEW m \in net, ServeSubmitAgain(m)
  PROVE  IInv'
<1>0. TypeOK
  BY DEF IInv
<1>1. m.id \in Ids /\ draft[m.id] \in Row /\ m.kind = "submit" /\ draft[m.id].status = "Submitted"
  BY <1>0, CallTypes DEF ServeSubmitAgain
<1>2. PICK n \in Nat : n = draft[m.id].version
  BY <1>1, RowFacts
<1>3. Answer(m, "ok", n) /\ UNCHANGED <<draft, events, forms, ops, calls>>
  BY <1>2 DEF ServeSubmitAgain
<1> QED
  BY <1>1, <1>3, AnsweredStep DEF Answers

LEMMA RefusedStep ==
  ASSUME IInv, NEW m \in net, RefuseSave(m) \/ RefuseFields(m) \/ RefuseSubmit(m)
  PROVE  IInv'
<1>1. PICK a \in {"refused", "errors"} :
        Answer(m, a, 0) /\ UNCHANGED <<draft, events, forms, ops, calls>>
  BY DEF RefuseSave, RefuseFields, RefuseSubmit
<1>2. a \in Answers /\ a # "ok"
  BY DEF Answers
<1> QED
  BY <1>1, <1>2, AnsweredStep

(* Creating an event: it is there afterwards, and no other is lost or doubled. *)
LEMMA CreateFacts ==
  ASSUME IInv, NEW key \in Key, NEW fields \in Fields, NEW web \in BOOLEAN, Create(key, fields, web)
  PROVE  /\ events \subseteq events' /\ OneEventPerKey' /\ HasEvent(key)'
         /\ \A ev \in events' : ev \in [key : Key, fields : Fields, web : BOOLEAN]
         /\ \A ev \in events' : ev \in events \/ (ev.key = key /\ ev.fields = fields)
<1>1. PICK new : new = [key |-> key, fields |-> fields, web |-> web]
  OBVIOUS
<1>2. new \in [key : Key, fields : Fields, web : BOOLEAN] /\ new.key = key /\ new.fields = fields
  BY <1>1
<1>3. events' = IF \E ev \in events : ev.key = key THEN events ELSE events \cup {new}
  BY <1>1 DEF Create
<1>4. OneEventPerKey'
  BY <1>2, <1>3 DEF IInv, OneEventPerKey
<1>5. HasEvent(key)'
  BY <1>2, <1>3 DEF HasEvent
<1> QED
  BY <1>2, <1>3, <1>4, <1>5 DEF IInv, TypeOK

LEMMA ServePostStep ==
  ASSUME IInv, NEW m \in net, ServePost(m)
  PROVE  IInv'
<1>0. TypeOK
  BY DEF IInv
<1>1. m.kind = "post" /\ m \in Post /\ m.id \in Ids /\ m.form \in Form
  BY <1>0, CallTypes, PostFacts DEF ServePost
<1>2. PICK key : key = [kind |-> "form", id |-> m.id]
  OBVIOUS
<1>3. key \in Key /\ key.kind = "form"
  BY <1>1, <1>2 DEF Key
<1>4. PICK fields \in Fields : fields = StoredForm(m.form)
  BY <1>1, FormFacts
<1>5. PICK web \in BOOLEAN : web = m.form.web
  BY <1>1 DEF Form
<1>6. Create(key, fields, web) /\ Answer(m, "ok", 0) /\ UNCHANGED <<draft, forms, ops, calls>>
  BY <1>2, <1>4, <1>5 DEF ServePost
<1>7. /\ events \subseteq events' /\ OneEventPerKey' /\ HasEvent(key)'
      /\ \A ev \in events' : ev \in [key : Key, fields : Fields, web : BOOLEAN]
      /\ \A ev \in events' : ev \in events \/ (ev.key = key /\ ev.fields = fields)
  BY <1>3, <1>6, CreateFacts
<1>8. SubmittedDraftIsItsEvent'
  <2>1. \A id \in Ids : {ev \in events' : ev.key = [kind |-> "draft", id |-> id]}
                        = {ev \in events : ev.key = [kind |-> "draft", id |-> id]}
    BY <1>3, <1>7
  <2> QED
    BY <1>6, <2>1 DEF IInv, SubmittedDraftIsItsEvent
<1>9. VersionsCount' /\ Grows(m.id) /\ draft' \in [Ids -> Row]
  BY <1>0, <1>6, TypeParts DEF IInv, VersionsCount, Grows
<1>10. HasEvent([kind |-> "form", id |-> m.id])'
  BY <1>2, <1>7 DEF HasEvent
<1>11. "ok" \in Answers /\ 0 \in Nat
  BY DEF Answers
<1> QED
  BY <1>1, <1>6, <1>7, <1>8, <1>9, <1>10, <1>11, ServedStep

LEMMA ServeSubmitStep ==
  ASSUME IInv, NEW m \in net, ServeSubmit(m)
  PROVE  IInv'
<1>0. TypeOK
  BY DEF IInv
<1>1. m.kind = "submit" /\ m \in Post /\ m.id \in Ids /\ m.form \in Form
  BY <1>0, CallTypes, PostFacts DEF ServeSubmit
<1>2. PICK row \in Row : row = draft[m.id]
  BY <1>0, <1>1, TypeParts
<1>3. row.status = "Draft" /\ row.version = m.version /\ row.version >= 1
  BY <1>1, <1>2 DEF ServeSubmit, IInv, VersionsCount
<1>4. row.version \in Nat /\ row.fields \in Fields /\ row.operation \in 0 .. MaxOps
  BY <1>3, RowFacts
<1>5. row.fields = StoredForm(m.form)
  <2>1. CallKnows(m)
    BY DEF IInv, CallsKnow
  <2> QED
    BY <1>1, <1>2, <1>3, <2>1 DEF CallKnows, Knows
<1>6. PICK key : key = [kind |-> "draft", id |-> m.id]
  OBVIOUS
<1>7. key \in Key
  BY <1>1, <1>6 DEF Key
<1>8. row.fields = [text |-> row.fields.text, dates |-> m.form.dates]
  BY <1>5 DEF StoredForm
<1>9. PICK n \in Nat : n = row.version + 1
  BY <1>4
<1>10. PICK new : new = [row EXCEPT !.status = "Submitted", !.version = n]
  OBVIOUS
<1>11. new \in Row /\ new.status = "Submitted" /\ new.version = n /\ new.fields = row.fields
  BY <1>3, <1>4, <1>10 DEF Row
<1>12. draft' = [draft EXCEPT ![m.id] = new]
  BY <1>0, <1>1, <1>2, <1>9, <1>10, TypeParts DEF ServeSubmit
<1>13. /\ draft' \in [Ids -> Row] /\ draft'[m.id] = new
       /\ \A id \in Ids \ {m.id} : draft'[id] = draft[id]
  BY <1>0, <1>1, <1>11, <1>12, TypeParts
<1>14. Create(key, row.fields, FALSE) /\ Answer(m, "ok", n) /\ UNCHANGED <<forms, ops, calls>>
  BY <1>2, <1>6, <1>8, <1>9 DEF ServeSubmit
<1>15. PICK fields \in Fields : fields = row.fields
  BY <1>4
<1>16. Create(key, fields, FALSE)
  BY <1>14, <1>15
<1>17. /\ events \subseteq events' /\ OneEventPerKey' /\ HasEvent(key)'
       /\ \A ev \in events' : ev \in [key : Key, fields : Fields, web : BOOLEAN]
       /\ \A ev \in events' : ev \in events \/ (ev.key = key /\ ev.fields = fields)
  BY <1>7, <1>16, CreateFacts
<1>18. VersionsCount'
  BY <1>3, <1>4, <1>9, <1>11, <1>13 DEF IInv, VersionsCount
<1>19. SubmittedDraftIsItsEvent'
  <2> SUFFICES ASSUME NEW id \in Ids
               PROVE  LET of == {ev \in events' : ev.key = [kind |-> "draft", id |-> id]}
                      IN  IF draft'[id].status = "Submitted"
                          THEN Cardinality(of) = 1 /\ \A ev \in of : ev.fields = draft'[id].fields
                          ELSE of = {}
    BY DEF SubmittedDraftIsItsEvent
  <2>1. CASE id = m.id
    <3>1. {ev \in events : ev.key = key} = {}
      BY <1>1, <1>2, <1>3, <1>6 DEF IInv, SubmittedDraftIsItsEvent
    <3>2. PICK ev \in events' : ev.key = key
      BY <1>17 DEF HasEvent
    <3>3. {e \in events' : e.key = key} = {ev}
      BY <1>17, <3>2 DEF OneEventPerKey
    <3>4. Cardinality({ev}) = 1
      BY FS_Singleton
    <3>5. ev.fields = new.fields
      BY <1>11, <1>15, <1>17, <3>1, <3>2
    <3> QED
      BY <1>6, <1>11, <1>13, <2>1, <3>3, <3>4, <3>5
  <2>2. CASE id # m.id
    <3>1. [kind |-> "draft", id |-> id] # key
      BY <1>6, <2>2
    <3>2. {ev \in events' : ev.key = [kind |-> "draft", id |-> id]}
          = {ev \in events : ev.key = [kind |-> "draft", id |-> id]}
      BY <1>17, <3>1
    <3>3. draft'[id] = draft[id]
      BY <1>13, <2>2
    <3> QED
      BY <3>2, <3>3 DEF IInv, SubmittedDraftIsItsEvent
  <2> QED
    BY <2>1, <2>2
<1>20. Grows(m.id)
  BY <1>2, <1>3, <1>9, <1>11, <1>13 DEF Grows
<1>21. "ok" \in Answers
  BY DEF Answers
<1> QED
  BY <1>1, <1>11, <1>13, <1>14, <1>17, <1>18, <1>19, <1>20, <1>21, ServedStep

LEMMA OfServerStep ==
  ASSUME IInv, NEW m \in net, OfServer(m)
  PROVE  IInv'
BY ServeSaveStep, ServeSaveAgainStep, RefusedStep, ServeSubmitStep, ServeSubmitAgainStep,
   ServePostStep DEF OfServer

-----------------------------------------------------------------------------
(* The invariant, and what follows from it *)

LEMMA InitInvariant == Init => IInv
<1> SUFFICES ASSUME Init PROVE IInv
  OBVIOUS
<1>1. draft \in [Ids -> Row] /\ \A id \in Ids : draft[id].status = "none"
  BY DEF Init, Row
<1>2. \A w \in Windows : window[w] = Closed /\ ~Waiting(w)
  BY DEF Init, Waiting, Closed
<1>3. TypeOK
  BY <1>1, <1>2, BoundsAssumption DEF Init, TypeOK
<1>4. VersionsCount /\ IdsAreDrawn /\ OneEventPerKey /\ SubmittedDraftIsItsEvent
  BY <1>1 DEF Init, VersionsCount, IdsAreDrawn, OneEventPerKey, SubmittedDraftIsItsEvent
<1>5. WindowsKnow /\ CallsKnow /\ CallsAreUnique /\ CallsAreAwaited
  BY <1>2 DEF Init, WindowsKnow, CallsKnow, CallsAreUnique, CallsAreAwaited
<1> QED
  BY <1>3, <1>4, <1>5 DEF IInv

LEMMA StutterStep ==
  ASSUME IInv, UNCHANGED vars
  PROVE  IInv'
<1>1. UNCHANGED <<draft, events, window, net, forms, ops, calls>>
  BY DEF vars
<1>2. TypeOK'
  BY <1>1 DEF IInv, TypeOK
<1>3. IdsAreDrawn'
  BY <1>1 DEF IInv, IdsAreDrawn
<1>4. WindowsKnow' /\ CallsKnow'
  BY <1>1, BeliefsStay DEF IInv, WindowsKnow, CallsKnow
<1>5. CallsAreUnique' /\ CallsAreAwaited'
  BY <1>1 DEF IInv, CallsAreUnique, CallsAreAwaited, Awaited, Waiting
<1> QED
  BY <1>1, <1>2, <1>3, <1>4, <1>5, ServerStays DEF IInv

LEMMA StepInvariant == IInv /\ [Next]_vars => IInv'
BY OfWindowStep, OfServerStep, StutterStep DEF Next

(* In every reachable state the windows, the calls under way and the answers    *)
(* agree with the drafts and the events they speak of.                          *)
THEOREM Invariance == Spec => []IInv
BY InitInvariant, StepInvariant, PTL DEF Spec

(* Drafts, events, windows and calls have their types.                          *)
THEOREM TypeCorrect == Spec => []TypeOK
<1>1. IInv => TypeOK
  BY DEF IInv
<1> QED
  BY <1>1, Invariance, PTL

(* A submitted draft has one event, which says what the draft says.             *)
THEOREM SubmittedDraftHasItsEvent == Spec => []SubmittedDraftIsItsEvent
<1>1. IInv => SubmittedDraftIsItsEvent
  BY DEF IInv
<1> QED
  BY <1>1, Invariance, PTL

(* A window that shows "Draft Saved" tells the truth.                           *)
THEOREM SavedIsTrue == Spec => []SavedIsStored
<1>1. IInv => SavedIsStored
  <2> SUFFICES ASSUME IInv, NEW w \in Shows("saved")
               PROVE  /\ draft[window[w].id].status # "none"
                      /\ draft[window[w].id].version >= window[w].version
                      /\ draft[window[w].id].version = window[w].version =>
                           draft[window[w].id].fields = StoredForm(window[w].form)
    BY DEF SavedIsStored
  <2>1. w \in Windows /\ window[w].mode = "saved"
    BY DEF Shows
  <2>2. window[w] \in Opened /\ WindowKnows(window[w])
    BY <2>1, OpenFacts
  <2>3. window[w].version \in Nat
    BY <2>2, OpenedFacts
  <2> QED
    BY <2>1, <2>2, <2>3 DEF WindowKnows, Knows
<1> QED
  BY <1>1, Invariance, PTL

(* A new form becomes at most one event, however often it is posted.            *)
THEOREM FormBecomesOneEvent == Spec => []OneEventPerForm
<1>1. IInv => OneEventPerForm
  <2> SUFFICES ASSUME IInv, NEW id \in Ids
               PROVE  Cardinality({ev \in events : ev.key = [kind |-> "form", id |-> id]}) <= 1
    BY DEF OneEventPerForm
  <2> DEFINE of == {ev \in events : ev.key = [kind |-> "form", id |-> id]}
  <2>1. CASE of = {}
    BY <2>1, FS_EmptySet
  <2>2. CASE of # {}
    <3>1. PICK ev : of = {ev}
      BY <2>2 DEF IInv, OneEventPerKey
    <3> QED
      BY <3>1, FS_Singleton
  <2> QED
    BY <2>1, <2>2
<1> QED
  BY <1>1, Invariance, PTL

(* A window that is told its request was submitted has an event.                *)
THEOREM DoneIsSubmitted == Spec => []DoneMeansSubmitted
<1>1. IInv => DoneMeansSubmitted
  <2> SUFFICES ASSUME IInv, NEW w \in Shows("done")
               PROVE  \/ /\ draft[window[w].id].status = "Submitted"
                         /\ draft[window[w].id].version = window[w].version + 1 =>
                              draft[window[w].id].fields = StoredForm(window[w].form)
                      \/ \E ev \in events : ev.key = [kind |-> "form", id |-> window[w].id]
    BY DEF DoneMeansSubmitted
  <2>1. w \in Windows /\ window[w].mode = "done"
    BY DEF Shows
  <2>2. WindowKnows(window[w])
    BY <2>1, OpenFacts
  <2> QED
    BY <2>1, <2>2 DEF WindowKnows, Knows, HasEvent
<1> QED
  BY <1>1, Invariance, PTL

(* No save overwrites what its window had neither loaded nor been told of.      *)
THEOREM NoUpdateIsLost == Spec => NoLostUpdate
<1> DEFINE Seen(id) == draft[id].status = "Draft" /\ draft'[id].fields # draft[id].fields
                       => \E m \in net \ net' : m.kind = "put" /\ m.base = draft[id].fields
<1>1. IInv /\ [Next]_vars => \A id \in Ids : Seen(id)
  <2> SUFFICES ASSUME IInv, [Next]_vars, NEW id \in Ids, draft[id].status = "Draft",
                      draft'[id].fields # draft[id].fields
               PROVE  \E m \in net \ net' : m.kind = "put" /\ m.base = draft[id].fields
    OBVIOUS
  <2>0. TypeOK
    BY DEF IInv
  <2>1. draft' # draft
    OBVIOUS
  <2>2. \A w \in Windows : ~OfWindow(w)
    BY <2>1 DEF OfWindow, OpenNew, OpenDraft, Close, Edit, SaveDraft, Advance, GiveUp, Refused,
                Saved, Submitted
  <2>3. PICK m \in net : OfServer(m)
    BY <2>1, <2>2 DEF Next, vars
  <2>4. m.id \in Ids
    BY <2>0, CallTypes
  <2>5. CASE ServeSave(m)
    <3>1. draft' = [draft EXCEPT ![m.id] =
                      [status |-> "Draft", fields |-> StoredForm(m.save.form),
                       version |-> m.save.version + 1, operation |-> m.save.operation]]
      BY <2>5 DEF ServeSave
    <3>2. id = m.id
      BY <2>0, <3>1, TypeParts
    <3>3. m.kind = "put" /\ draft[id].version = m.save.version
      BY <2>5, <3>2 DEF ServeSave
    <3>4. m.base = draft[id].fields
      BY <3>2, <3>3 DEF IInv, CallsKnow, CallKnows, Knows
    <3>5. m \notin net'
      BY <2>5 DEF ServeSave, Answer
    <3> QED
      BY <3>3, <3>4, <3>5
  <2>6. CASE ServeSubmit(m)
    <3>1. draft' = [draft EXCEPT ![m.id].status = "Submitted", ![m.id].version = @ + 1]
      BY <2>6 DEF ServeSubmit
    <3>2. draft'[id].fields = draft[id].fields
      <4>1. draft \in [Ids -> Row] /\ draft[m.id].status = "Draft"
        BY <2>0, <2>6, TypeParts DEF ServeSubmit
      <4>2. CASE id # m.id
        BY <2>4, <3>1, <4>1, <4>2
      <4>3. CASE id = m.id
        <5>1. draft'[id] = [draft[id] EXCEPT !.status = "Submitted", !.version = @ + 1]
          BY <2>4, <3>1, <4>1, <4>3
        <5> QED
          BY <4>1, <4>3, <5>1 DEF Row
      <4> QED
        BY <4>2, <4>3
    <3> QED
      BY <3>2
  <2>7. ~ServeSaveAgain(m) /\ ~RefuseSave(m) /\ ~RefuseFields(m) /\ ~ServeSubmitAgain(m)
        /\ ~RefuseSubmit(m) /\ ~ServePost(m)
    BY <2>1 DEF ServeSaveAgain, RefuseSave, RefuseFields, ServeSubmitAgain, RefuseSubmit, ServePost
  <2> QED
    BY <2>3, <2>5, <2>6, <2>7 DEF OfServer
<1> QED
  BY <1>1, Invariance, PTL DEF Spec, NoLostUpdate
=============================================================================
