----------------------------- MODULE EventDrafts -----------------------------
(***************************************************************************)
(* An organiser's event request, from the form in a browser window to the  *)
(* row of a draft and to the event: saving, reopening and submitting it    *)
(* (frontend EventCreatePage.tsx and utils/api.ts, backend/src/event-drafts*)
(* and EventsService.create).                                              *)
(*                                                                         *)
(* A window sends one call at a time and gives up on it after 15 seconds;  *)
(* the call may still reach the server later, and the answer of a call it  *)
(* gave up on is lost. A save that was not answered stays pending and is   *)
(* sent again before anything newer. Every handler of the server is one    *)
(* transaction behind the lock of the draft's row, so it is one step.      *)
(*                                                                         *)
(* A form is its text (every field a draft stores but the dates), its      *)
(* dates and the choice to register through the website. Abstracted: the   *)
(* step of the form, attachments being read, sign-in and ownership, the    *)
(* list of drafts, and what becomes of the event afterwards.               *)
(***************************************************************************)
EXTENDS Integers, FiniteSets

CONSTANTS
  Windows,      \* browser windows of one organiser
  Texts,        \* contents of the form
  Blank,        \* the text of a new form
  Complete,     \* texts the form lets the organiser submit
  Unsupported,  \* texts the server refuses to save or to submit
  Dates,        \* planned dates
  FirstDates,   \* the dates of a new form
  Fillings,     \* bound: what the organiser may make of a form
  MaxForms,     \* bound: new forms opened
  MaxOps,       \* bound: saves, each with an operationId
  MaxCalls      \* bound: calls sent

ASSUME TextsAssumption ==
  Blank \in Texts /\ Complete \subseteq Texts \ {Blank} /\ Unsupported \subseteq Texts \ {Blank}
ASSUME DatesAssumption == FirstDates \in Dates
ASSUME FillingsAssumption == Fillings \subseteq [text : Texts, dates : Dates, web : BOOLEAN]
ASSUME BoundsAssumption == {MaxForms, MaxOps, MaxCalls} \subseteq Nat

VARIABLES
  draft,   \* event_drafts, by the id a new form draws
  events,  \* the events created, each with its submission_key
  window,  \* what each window shows and waits for
  net,     \* the calls that have not reached the server
  forms,   \* new forms opened so far
  ops,     \* operationIds drawn so far
  calls    \* calls sent so far

vars == <<draft, events, window, net, forms, ops, calls>>

-----------------------------------------------------------------------------
(* Types *)

Ids    == 1 .. MaxForms
Form   == [text : Texts, dates : Dates, web : BOOLEAN]
Fields == [text : Texts, dates : Dates]

(* A draft's key is its id; a new form has a key of its own beside its id. *)
Key == [kind : {"draft", "form"}, id : Ids]

Row == [status : {"none"}]
       \cup [status : {"Draft", "Submitted"}, fields : Fields, version : Nat,
             operation : 0 .. MaxOps]

NoSave == [operation |-> 0]
Save   == [operation : 1 .. MaxOps, version : Nat, form : Form]

Closed == [mode |-> "closed"]

(* base (auxiliary) is what the window was last told the draft holds. *)
Opened ==
  [mode : {"editing", "retrying", "saving", "submitting", "posting", "saved", "done", "locked"},
   goal : {"save", "submit"}, id : Ids, reopened : BOOLEAN, form : Form, version : Nat,
   pending : {NoSave} \cup Save, base : Fields, call : 0 .. MaxCalls,
   answer : {"none", "ok", "refused", "errors"}, told : Nat]

Put  == [kind : {"put"}, call : 1 .. MaxCalls, id : Ids, save : Save, base : Fields]
Post == [kind : {"submit", "post"}, call : 1 .. MaxCalls, id : Ids, version : Nat, form : Form]

TypeOK ==
  /\ draft \in [Ids -> Row]
  /\ \A ev \in events : ev \in [key : Key, fields : Fields, web : BOOLEAN]
  /\ window \in [Windows -> {Closed} \cup Opened]
  /\ \A m \in net : m \in Put \cup Post
  /\ forms \in 0 .. MaxForms /\ ops \in 0 .. MaxOps /\ calls \in 0 .. MaxCalls
  /\ \A w \in Windows : window[w] # Closed =>
       /\ window[w].id <= forms
       /\ window[w].mode \in {"retrying", "saving"} => window[w].pending # NoSave
       /\ draft[window[w].id].status = "none" => window[w].version = 0

-----------------------------------------------------------------------------
(* The window *)

StoredForm(form) == [text |-> form.text, dates |-> form.dates]

NewForm == [text |-> Blank, dates |-> FirstDates, web |-> FALSE]

Window(id, reopened, mode, form, version) ==
  [mode |-> mode, goal |-> "save", id |-> id, reopened |-> reopened, form |-> form,
   version |-> version, pending |-> NoSave, base |-> StoredForm(form), call |-> 0,
   answer |-> "none", told |-> 0]

Set(w, new) == window' = [window EXCEPT ![w] = new]

OpenNew(w) ==
  /\ window[w] = Closed
  /\ forms < MaxForms
  /\ forms' = forms + 1
  /\ Set(w, Window(forms', FALSE, "editing", NewForm, 0))
  /\ UNCHANGED <<draft, events, net, ops, calls>>

(* The stored fields lack the registration choice: it is off when reopened. *)
OpenDraft(w, id) ==
  LET row == draft[id]
  IN  /\ window[w] = Closed
      /\ row.status # "none"
      /\ Set(w, Window(id, TRUE, IF row.status = "Draft" THEN "editing" ELSE "locked",
                       [text |-> row.fields.text, dates |-> row.fields.dates, web |-> FALSE],
                       row.version))
      /\ UNCHANGED <<draft, events, net, forms, ops, calls>>

(* Leaving the page, whatever it waits for. *)
Close(w) ==
  /\ window[w] # Closed
  /\ Set(w, Closed)
  /\ UNCHANGED <<draft, events, net, forms, ops, calls>>

Edit(w) ==
  /\ window[w].mode = "editing"
  /\ \E form \in Fillings \ {window[w].form} : Set(w, [window[w] EXCEPT !.form = form])
  /\ UNCHANGED <<draft, events, net, forms, ops, calls>>

(* The window, taken as v so far, sends a call and waits for its answer. *)
Send(w, v, mode, m) ==
  /\ calls < MaxCalls
  /\ calls' = calls + 1
  /\ net' = net \cup {m}
  /\ Set(w, [v EXCEPT !.mode = mode, !.call = calls', !.answer = "none", !.told = 0])

SendPut(w, v, mode) ==
  Send(w, v, mode, [kind |-> "put", call |-> calls + 1, id |-> v.id, save |-> v.pending,
                    base |-> v.base])

SendPost(w, v, kind) ==
  Send(w, v, IF kind = "post" THEN "posting" ELSE "submitting",
       [kind |-> kind, call |-> calls + 1, id |-> v.id, version |-> v.version, form |-> v.form])

(* A faulty variant: the operation is sent, but not remembered. *)
SendUnrecorded(w, v) ==
  /\ ops < MaxOps
  /\ ops' = ops + 1
  /\ Send(w, v, "saving",
          [kind |-> "put", call |-> calls + 1, id |-> v.id, base |-> v.base,
           save |-> [operation |-> ops', version |-> v.version, form |-> v.form]])

(* A new operation for the form as it is. *)
SendFresh(w, v) ==
  /\ ops < MaxOps
  /\ ops' = ops + 1
  /\ SendPut(w, [v EXCEPT !.pending =
                   [operation |-> ops', version |-> v.version, form |-> v.form]], "saving")

(* persistDraft: the pending operation first, if there is one. *)
PersistDraft(w, goal) ==
  LET v == [window[w] EXCEPT !.goal = goal]
  IN  \/ v.pending # NoSave /\ SendPut(w, v, "retrying") /\ UNCHANGED ops
      \/ v.pending = NoSave /\ SendFresh(w, v)

SaveDraft(w) ==
  /\ window[w].mode = "editing"
  /\ PersistDraft(w, "save")
  /\ UNCHANGED <<draft, events, forms>>

(* A faulty variant: the form is submitted as the draft was last saved. *)
AdvanceUnsaved(w) ==
  LET v == window[w]
      isDraft == v.reopened \/ v.version > 0 \/ v.pending # NoSave
  IN  /\ v.mode = "editing"
      /\ v.form.text \in Complete
      /\ SendPost(w, [v EXCEPT !.goal = "submit"], IF isDraft THEN "submit" ELSE "post")
      /\ UNCHANGED <<draft, events, forms, ops>>

(* A draft is persisted before it is submitted; a form that was never saved *)
(* goes to the events directly.                                             *)
Advance(w) ==
  LET v == window[w]
      isDraft == v.reopened \/ v.version > 0 \/ v.pending # NoSave
  IN  /\ v.mode = "editing"
      /\ v.form.text \in Complete
      /\ IF isDraft THEN PersistDraft(w, "submit")
         ELSE SendPost(w, [v EXCEPT !.goal = "submit"], "post") /\ UNCHANGED ops
      /\ UNCHANGED <<draft, events, forms>>

Waiting(w) == window[w].mode \in {"retrying", "saving", "submitting", "posting"}

(* No call of the window is under way any more. *)
Idle(v, mode) ==
  [v EXCEPT !.mode = mode, !.goal = "save", !.call = 0, !.answer = "none", !.told = 0]

(* A failed call ends the save or the submission. Only saveDraft drops the *)
(* pending operation, and only when the server named the wrong fields.     *)
Fail(w, dropped) ==
  Set(w, [Idle(window[w], "editing") EXCEPT !.pending = IF dropped THEN NoSave ELSE @])

(* 15 seconds have passed. The call may be on its way, or answered too late. *)
GiveUp(w) ==
  /\ Waiting(w)
  /\ Fail(w, FALSE)
  /\ UNCHANGED <<draft, events, net, forms, ops, calls>>

Refused(w) ==
  /\ Waiting(w)
  /\ window[w].answer \in {"refused", "errors"}
  /\ Fail(w, window[w].answer = "errors" /\ window[w].goal = "save")
  /\ UNCHANGED <<draft, events, net, forms, ops, calls>>

(* The draft is persisted: the save ends with its dialog, a submission goes on. *)
Persisted(w, v) ==
  \/ /\ v.goal = "save"
     /\ Set(w, Idle(v, "saved"))
     /\ UNCHANGED <<net, calls, ops>>
  \/ /\ v.goal = "submit"
     /\ SendPost(w, v, "submit")
     /\ UNCHANGED ops

(* A faulty variant: a retried operation is taken for the newest edits. *)
SavedOld(w) ==
  LET v == window[w]
  IN  /\ v.mode \in {"retrying", "saving"}
      /\ v.answer = "ok"
      /\ Persisted(w, [v EXCEPT !.version = v.told, !.pending = NoSave,
                                !.base = StoredForm(v.pending.form)])
      /\ UNCHANGED <<draft, events, forms>>

Saved(w) ==
  LET v   == window[w]
      now == [v EXCEPT !.version = v.told, !.pending = NoSave,
                       !.base = StoredForm(v.pending.form)]
  IN  /\ v.mode \in {"retrying", "saving"}
      /\ v.answer = "ok"
      /\ IF v.mode = "saving" \/ v.pending.form = v.form THEN Persisted(w, now)
         ELSE SendFresh(w, now)
      /\ UNCHANGED <<draft, events, forms>>

Submitted(w) ==
  /\ window[w].mode \in {"submitting", "posting"}
  /\ window[w].answer = "ok"
  /\ Set(w, Idle(window[w], "done"))
  /\ UNCHANGED <<draft, events, net, forms, ops, calls>>

-----------------------------------------------------------------------------
(* The server *)

(* The answer reaches the window that still waits for this call. *)
Answer(m, answer, version) ==
  /\ net' = net \ {m}
  /\ window' = [w \in Windows |->
       IF window[w] # Closed /\ Waiting(w) /\ window[w].call = m.call
       THEN [window[w] EXCEPT !.answer = answer, !.told = version]
       ELSE window[w]]

(* A faulty variant: the version is not compared. *)
SaveAnyVersion(m) ==
  LET row == draft[m.id]
      new == [status |-> "Draft", fields |-> StoredForm(m.save.form),
              version |-> IF row.status = "none" THEN 1 ELSE row.version + 1,
              operation |-> m.save.operation]
  IN  /\ m.kind = "put"
      /\ m.save.form.text \notin Unsupported
      /\ row.status = "Draft" \/ (row.status = "none" /\ m.save.version = 0)
      /\ draft' = [draft EXCEPT ![m.id] = new]
      /\ Answer(m, "ok", new.version)
      /\ UNCHANGED <<events, forms, ops, calls>>

(* A row that is missing is inserted at version 0 in the same transaction. *)
ServeSave(m) ==
  LET row == draft[m.id]
      new == [status |-> "Draft", fields |-> StoredForm(m.save.form),
              version |-> m.save.version + 1, operation |-> m.save.operation]
  IN  /\ m.kind = "put"
      /\ m.save.form.text \notin Unsupported
      /\ \/ row.status = "none" /\ m.save.version = 0
         \/ /\ row.status = "Draft"
            /\ row.operation # m.save.operation
            /\ row.version = m.save.version
      /\ draft' = [draft EXCEPT ![m.id] = new]
      /\ Answer(m, "ok", new.version)
      /\ UNCHANGED <<events, forms, ops, calls>>

(* The operation that was applied last is answered again, without a trace. *)
ServeSaveAgain(m) ==
  /\ m.kind = "put"
  /\ draft[m.id].status = "Draft"
  /\ draft[m.id].operation = m.save.operation
  /\ draft[m.id].fields = StoredForm(m.save.form)
  /\ Answer(m, "ok", draft[m.id].version)
  /\ UNCHANGED <<draft, events, forms, ops, calls>>

(* The row is missing, submitted, or changed in another window. *)
RefuseSave(m) ==
  LET row == draft[m.id]
  IN  /\ m.kind = "put"
      /\ m.save.form.text \notin Unsupported
      /\ \/ row.status = "none" /\ m.save.version # 0
         \/ row.status = "Submitted"
         \/ /\ row.status = "Draft"
            /\ row.operation # m.save.operation
            /\ row.version # m.save.version
      /\ Answer(m, "refused", 0)
      /\ UNCHANGED <<draft, events, forms, ops, calls>>

(* validateDraft or validateEvent names the wrong fields. *)
RefuseFields(m) ==
  /\ IF m.kind = "put" THEN m.save.form.text \in Unsupported ELSE m.form.text \in Unsupported
  /\ Answer(m, "errors", 0)
  /\ UNCHANGED <<draft, events, forms, ops, calls>>

Create(key, fields, web) ==
  events' = IF \E ev \in events : ev.key = key THEN events
            ELSE events \cup {[key |-> key, fields |-> fields, web |-> web]}

(* A faulty variant: the version is not compared. *)
ServeSubmitAnyVersion(m) ==
  LET row == draft[m.id]
  IN  /\ m.kind = "submit"
      /\ m.form.text \notin Unsupported
      /\ row.status = "Draft"
      /\ Create([kind |-> "draft", id |-> m.id],
                [text |-> row.fields.text, dates |-> m.form.dates], FALSE)
      /\ draft' = [draft EXCEPT ![m.id].status = "Submitted", ![m.id].version = @ + 1]
      /\ Answer(m, "ok", row.version + 1)
      /\ UNCHANGED <<forms, ops, calls>>

(* The event takes the row's fields, but the dates from the call; the row has *)
(* no registration choice, and the event's is off.                            *)
ServeSubmit(m) ==
  LET row == draft[m.id]
  IN  /\ m.kind = "submit"
      /\ m.form.text \notin Unsupported
      /\ row.status = "Draft" /\ row.version = m.version
      /\ Create([kind |-> "draft", id |-> m.id],
                [text |-> row.fields.text, dates |-> m.form.dates], FALSE)
      /\ draft' = [draft EXCEPT ![m.id].status = "Submitted", ![m.id].version = @ + 1]
      /\ Answer(m, "ok", row.version + 1)
      /\ UNCHANGED <<forms, ops, calls>>

ServeSubmitAgain(m) ==
  /\ m.kind = "submit"
  /\ draft[m.id].status = "Submitted"
  /\ Answer(m, "ok", draft[m.id].version)
  /\ UNCHANGED <<draft, events, forms, ops, calls>>

RefuseSubmit(m) ==
  /\ m.kind = "submit"
  /\ draft[m.id].status = "Draft"
  /\ draft[m.id].version # m.version
  /\ Answer(m, "refused", 0)
  /\ UNCHANGED <<draft, events, forms, ops, calls>>

(* A faulty variant: no unique key stops a second event. *)
ServePostAgain(m) ==
  /\ m.kind = "post"
  /\ m.form.text \notin Unsupported
  /\ events' = events \cup {[key |-> [kind |-> "form", id |-> m.id],
                             fields |-> StoredForm(m.form), web |-> m.form.web]}
  /\ Answer(m, "ok", 0)
  /\ UNCHANGED <<draft, forms, ops, calls>>

(* One event per submission key: the first is returned again. *)
ServePost(m) ==
  /\ m.kind = "post"
  /\ m.form.text \notin Unsupported
  /\ Create([kind |-> "form", id |-> m.id], StoredForm(m.form), m.form.web)
  /\ Answer(m, "ok", 0)
  /\ UNCHANGED <<draft, forms, ops, calls>>

-----------------------------------------------------------------------------

Init ==
  /\ draft = [id \in Ids |-> [status |-> "none"]]
  /\ events = {}
  /\ window = [w \in Windows |-> Closed]
  /\ net = {}
  /\ forms = 0 /\ ops = 0 /\ calls = 0

OfWindow(w) ==
  \/ OpenNew(w) \/ (\E id \in Ids : OpenDraft(w, id)) \/ Close(w)
  \/ Edit(w) \/ SaveDraft(w) \/ Advance(w)
  \/ GiveUp(w) \/ Refused(w) \/ Saved(w) \/ Submitted(w)

OfServer(m) ==
  \/ ServeSave(m) \/ ServeSaveAgain(m) \/ RefuseSave(m) \/ RefuseFields(m)
  \/ ServeSubmit(m) \/ ServeSubmitAgain(m) \/ RefuseSubmit(m)
  \/ ServePost(m)

Next ==
  \/ \E w \in Windows : OfWindow(w)
  \/ \E m \in net : OfServer(m)

Spec == Init /\ [][Next]_vars

-----------------------------------------------------------------------------
(* What must hold *)

Shows(mode) == {w \in Windows : window[w].mode = mode}

(* A window that shows "Draft Saved" tells the truth: the draft holds what the  *)
(* form shows, unless another window has written it since. Retries of older     *)
(* operations, lost answers and late calls included.                            *)
SavedIsStored ==
  \A w \in Shows("saved") :
    LET v   == window[w]
        row == draft[v.id]
    IN  /\ row.status # "none" /\ row.version >= v.version
        /\ row.version = v.version => row.fields = StoredForm(v.form)

(* No save overwrites what its window had not seen: whatever the draft held     *)
(* before, the window had loaded it or been told that it was saved.             *)
NoLostUpdate ==
  [][\A id \in Ids :
       draft[id].status = "Draft" /\ draft'[id].fields # draft[id].fields
       => \E m \in net \ net' : m.kind = "put" /\ m.base = draft[id].fields]_vars

(* A draft is submitted once: it has one event, and the event says what the     *)
(* draft says, the dates included, which travel beside it.                      *)
SubmittedDraftIsItsEvent ==
  \A id \in Ids :
    LET of == {ev \in events : ev.key = [kind |-> "draft", id |-> id]}
    IN  IF draft[id].status = "Submitted"
        THEN Cardinality(of) = 1 /\ \A ev \in of : ev.fields = draft[id].fields
        ELSE of = {}

(* However often a new form is posted, edited and posted again, it becomes one  *)
(* event.                                                                       *)
OneEventPerForm ==
  \A id \in Ids : Cardinality({ev \in events : ev.key = [kind |-> "form", id |-> id]}) <= 1

(* A window that is told its request was submitted has an event. If no other    *)
(* window saved the draft in between, it is what the window shows. (If one did  *)
(* and submitted it, the later call is answered like a retry.)                  *)
DoneMeansSubmitted ==
  \A w \in Shows("done") :
    LET v   == window[w]
        row == draft[v.id]
    IN  \/ /\ row.status = "Submitted"
           /\ row.version = v.version + 1 => row.fields = StoredForm(v.form)
        \/ \E ev \in events : ev.key = [kind |-> "form", id |-> v.id]

-----------------------------------------------------------------------------
(* The inductive invariant *)

(* Whoever saw the draft at this version with these fields is not contradicted  *)
(* by it: it is newer, or still says so, at most submitted since.               *)
Knows(id, version, fields) ==
  LET row == draft[id]
  IN  IF row.status = "none" THEN version = 0
      ELSE /\ row.version >= version
           /\ row.version = version \/ (row.status = "Submitted" /\ row.version = version + 1)
              => row.fields = fields

VersionsCount ==
  \A id \in Ids : /\ draft[id].status = "Draft" => draft[id].version >= 1
                  /\ draft[id].status = "Submitted" => draft[id].version >= 2

(* Only a form that was opened has a draft or a call. *)
IdsAreDrawn ==
  /\ \A id \in Ids : draft[id].status # "none" => id <= forms
  /\ \A m \in net : m.id <= forms

OneEventPerKey == \A a, b \in events : a.key = b.key => a = b

HasEvent(key) == \E ev \in events : ev.key = key

(* What a window believes of its draft, of its pending save and of its form. *)
WindowKnows(v) ==
  /\ Knows(v.id, v.version, v.base)
  /\ v.pending # NoSave => v.pending.version = v.version
  /\ v.mode = "saving" => v.pending.form = v.form
  /\ v.mode \in {"saved", "submitting"} => v.version >= 1 /\ v.base = StoredForm(v.form)
  /\ v.mode = "done" => \/ draft[v.id].status = "Submitted" /\ v.base = StoredForm(v.form)
                        \/ HasEvent([kind |-> "form", id |-> v.id])

(* What an answer has told it. *)
ToldTruly(v) ==
  v.answer = "ok" =>
    /\ v.mode \in {"retrying", "saving"} =>
         v.told >= 1 /\ Knows(v.id, v.told, StoredForm(v.pending.form))
    /\ v.mode = "submitting" => draft[v.id].status = "Submitted"
    /\ v.mode = "posting" => HasEvent([kind |-> "form", id |-> v.id])

WindowsKnow == \A w \in Windows : window[w] # Closed => WindowKnows(window[w]) /\ ToldTruly(window[w])

CallKnows(m) ==
  /\ m.kind = "put" => Knows(m.id, m.save.version, m.base)
  /\ m.kind = "submit" => m.version >= 1 /\ Knows(m.id, m.version, StoredForm(m.form))

CallsKnow == \A m \in net : CallKnows(m)

(* No two calls under way have one number, nor do two windows wait for one. *)
CallsAreUnique ==
  /\ \A m \in net : m.call <= calls
  /\ \A m, n \in net : m.call = n.call => m = n
  /\ \A w \in Windows : Waiting(w) => window[w].call \in 1 .. calls
  /\ \A w, x \in Windows : Waiting(w) /\ Waiting(x) /\ window[w].call = window[x].call => w = x

(* A call that a window waits for is the one it sent. *)
Awaited(v, m) ==
  /\ v.id = m.id
  /\ v.mode \in {"retrying", "saving"} => m.kind = "put" /\ m.save = v.pending
  /\ v.mode = "submitting" => m.kind = "submit"
  /\ v.mode = "posting" => m.kind = "post"

CallsAreAwaited ==
  \A w \in Windows, m \in net : Waiting(w) /\ window[w].call = m.call => Awaited(window[w], m)

(* Checked and proved to be inductive. The promises follow from it. *)
IInv ==
  /\ TypeOK
  /\ VersionsCount
  /\ IdsAreDrawn
  /\ OneEventPerKey
  /\ SubmittedDraftIsItsEvent
  /\ WindowsKnow
  /\ CallsKnow
  /\ CallsAreUnique
  /\ CallsAreAwaited

-----------------------------------------------------------------------------
(* What a text of the page says *)

(* EventCreatePage.tsx:760, the dialog of a saved draft: "Your request is saved *)
(* as Draft and has not been submitted."                                        *)
SavedIsNotSubmitted ==
  \A w \in Shows("saved") : \A ev \in events : ev.key.id # window[w].id
=============================================================================
