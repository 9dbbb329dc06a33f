-------------------------- MODULE Assignment_proofs --------------------------
(***************************************************************************)
(* Proofs about Assignment, for any coordinators and bounds: the types,    *)
(* who is told of what, and that the Lead knows of every unavailable       *)
(* coordinator with an active event, if no save of theirs went astray.     *)
(***************************************************************************)
EXTENDS Assignment, TLAPS

-----------------------------------------------------------------------------
(* Type correctness *)

(* A step is that of one operation. *)
LEMMA Steps ==
  ASSUME Next
  PROVE  \/ \E c \in Coordinators : Assign(c)
         \/ \E shown, c \in Coordinators : Reassign(shown, c)
         \/ CommitMove
         \/ \E kind \in Requests : Ask(kind)
         \/ \E kind \in Requests : End(kind)
         \/ OpenThread
         \/ Reply
         \/ \E by \in {"organiser", "coordinator"} : Resolve(by)
         \/ \E n \in unread : Read(n)
         \/ \E to \in Status : Advance(to)
         \/ \E accepted \in BOOLEAN : Cancel(accepted)
         \/ \E k \in Calls, c \in Coordinators, to \in BOOLEAN : StartSave(k, c, to)
         \/ \E s \in saves : Update(s) \/ Count(s) \/ TellLead(s) \/ ClearLeadNotice(s)
         \/ \E s \in saves : SaveFails(s)
         \/ \E c \in lead : LeadReads(c)
BY DEF Next

LEMMA TypeStep == TypeOK /\ Next => TypeOK'
<1> SUFFICES ASSUME TypeOK, Next
             PROVE  TypeOK'
  OBVIOUS
<1> USE NoneAssumption, BoundsAssumption DEF TypeOK, event
<1>1. CASE \E c \in Coordinators : Assign(c)
  BY <1>1 DEF Assign, MoveTo
<1>2. CASE \E shown, c \in Coordinators : Reassign(shown, c)
  BY <1>2 DEF Reassign, MoveTo
<1>3. CASE CommitMove
  <2>1. unread' \subseteq Coordinators \X Kinds
    BY <1>3 DEF CommitMove, HandOver, Kinds
  <2>2. heard' \in [Requests -> SUBSET Coordinators]
    BY <1>3 DEF CommitMove, HandOver
  <2> QED
    BY <1>3, <2>1, <2>2 DEF CommitMove
<1>4. CASE \E kind \in Requests : Ask(kind)
  <2> PICK kind \in Requests : Ask(kind)
    BY <1>4
  <2>1. unread' \subseteq Coordinators \X Kinds
    BY DEF Ask, Tell, Kinds
  <2>2. heard' \in [Requests -> SUBSET Coordinators]
    BY DEF Ask
  <2> QED
    BY <2>1, <2>2 DEF Ask
<1>5. CASE \E kind \in Requests : End(kind)
  BY <1>5 DEF End
<1>6. CASE OpenThread
  BY <1>6 DEF OpenThread
<1>7. CASE Reply
  BY <1>7 DEF Reply, Tell, Recipient, Kinds
<1>8. CASE \E by \in {"organiser", "coordinator"} : Resolve(by)
  BY <1>8 DEF Resolve, Tell, Recipient, Kinds
<1>9. CASE \E n \in unread : Read(n)
  BY <1>9 DEF Read
<1>10. CASE \E to \in Status : Advance(to)
  BY <1>10 DEF Advance
<1>11. CASE \E accepted \in BOOLEAN : Cancel(accepted)
  BY <1>11 DEF Cancel, Status
<1>12. CASE \E k \in Calls, c \in Coordinators, to \in BOOLEAN : StartSave(k, c, to)
  BY <1>12 DEF StartSave, Save
<1>13. CASE \E s \in saves : Update(s) \/ Count(s) \/ TellLead(s) \/ ClearLeadNotice(s)
  <2> PICK s \in saves : Update(s) \/ Count(s) \/ TellLead(s) \/ ClearLeadNotice(s)
    BY <1>13
  <2>1. s \in Save
    OBVIOUS
  <2>2. \A next \in {"update", "count", "tell", "clear"} : Then(s, next) \subseteq Save
    BY <2>1 DEF Then, Save
  <2>3. saves' \subseteq Save
    BY <2>2 DEF Update, Count, TellLead, ClearLeadNotice, EndSave
  <2>4. s.of \in Coordinators /\ s.to \in BOOLEAN
    BY <2>1 DEF Save
  <2>5. CASE Update(s)
    BY <2>3, <2>4, <2>5 DEF Update
  <2>6. CASE Count(s)
    BY <2>3, <2>6 DEF Count, EndSave
  <2>7. CASE TellLead(s)
    BY <2>3, <2>4, <2>7 DEF TellLead, EndSave
  <2>8. CASE ClearLeadNotice(s)
    BY <2>3, <2>8 DEF ClearLeadNotice, EndSave
  <2> QED
    BY <2>5, <2>6, <2>7, <2>8
<1>14. CASE \E c \in lead : LeadReads(c)
  BY <1>14 DEF LeadReads
<1>15. CASE \E s \in saves : SaveFails(s)
  BY <1>15 DEF SaveFails, Save
<1> QED
  BY <1>1, <1>2, <1>3, <1>4, <1>5, <1>6, <1>7, <1>8, <1>9, <1>10, <1>11, <1>12, <1>13, <1>14,
     <1>15, Steps

LEMMA TypeInit == Init => TypeOK
BY NoneAssumption, BoundsAssumption DEF Init, TypeOK, Status

(* Every variable keeps its type. *)
THEOREM TypeCorrect == Spec => []TypeOK
<1>1. TypeOK /\ UNCHANGED vars => TypeOK'
  BY DEF TypeOK, vars
<1> QED
  BY <1>1, TypeInit, TypeStep, PTL DEF Spec

-----------------------------------------------------------------------------
(* Who is told of what *)

Answered == TypeOK /\ MoveIsAvailable /\ PendingIsTold /\ FormerIsNotAsked

LEMMA AnsweredInit == Init => Answered
BY TypeInit DEF Init, Answered, MoveIsAvailable, PendingIsTold, FormerIsNotAsked

(* The row of a coordinator is held from its check to the commit. *)
LEMMA MoveStep == TypeOK /\ MoveIsAvailable /\ Next => MoveIsAvailable'
<1> SUFFICES ASSUME TypeOK, MoveIsAvailable, Next
             PROVE  MoveIsAvailable'
  OBVIOUS
<1> USE DEF MoveIsAvailable, event
<1>1. CASE \E c \in Coordinators : Assign(c)
  BY <1>1 DEF Assign, MoveTo
<1>2. CASE \E shown, c \in Coordinators : Reassign(shown, c)
  BY <1>2 DEF Reassign, MoveTo
<1>3. CASE \E s \in saves : Update(s)
  <2> PICK s \in saves : Update(s)
    BY <1>3
  <2>1. move # s.of /\ move' = move /\ available' = [available EXCEPT ![s.of] = s.to]
    BY DEF Update, RowFree
  <2> QED
    BY <2>1 DEF TypeOK
<1>4. CASE ~(\E c \in Coordinators : Assign(c))
           /\ ~(\E shown, c \in Coordinators : Reassign(shown, c))
           /\ ~(\E s \in saves : Update(s))
  <2>1. available' = available /\ move' \in {move, None}
    BY <1>4, Steps DEF CommitMove, Ask, End, OpenThread, Reply, Resolve, Read, Advance,
       Cancel, StartSave, Count, TellLead, ClearLeadNotice, SaveFails, LeadReads
  <2> QED
    BY <2>1
<1> QED
  BY <1>1, <1>2, <1>3, <1>4

(* What is pending was asked of the coordinator, or passed on with the event. *)
LEMMA PendingStep == TypeOK /\ PendingIsTold /\ Next => PendingIsTold'
<1> SUFFICES ASSUME TypeOK, PendingIsTold, Next
             PROVE  PendingIsTold'
  OBVIOUS
<1> USE DEF PendingIsTold, event
<1>1. CASE CommitMove
  BY <1>1 DEF CommitMove, HandOver, TypeOK
<1>2. CASE \E kind \in Requests : Ask(kind)
  BY <1>2 DEF Ask, TypeOK
<1>3. CASE ~CommitMove /\ ~(\E kind \in Requests : Ask(kind))
  <2>1. owner' = owner /\ heard' = heard /\ pending' \subseteq pending
    BY <1>3, Steps DEF Assign, Reassign, MoveTo, End, OpenThread, Reply, Resolve, Read,
       Advance, Cancel, StartSave, Update, Count, TellLead, ClearLeadNotice, SaveFails, LeadReads
  <2> QED
    BY <2>1
<1> QED
  BY <1>1, <1>2, <1>3

(* A move takes back what the former coordinator has not read. *)
LEMMA FormerStep == TypeOK /\ FormerIsNotAsked /\ Next => FormerIsNotAsked'
<1> SUFFICES ASSUME TypeOK, FormerIsNotAsked, Next
             PROVE  FormerIsNotAsked'
  OBVIOUS
<1> USE DEF FormerIsNotAsked, event
<1>1. CASE CommitMove
  BY <1>1 DEF CommitMove, HandOver
<1>2. CASE ~CommitMove
  <2>1. owner' = owner
    BY <1>2, Steps DEF Assign, Reassign, MoveTo, Ask, End, OpenThread, Reply, Resolve, Read,
       Advance, Cancel, StartSave, Update, Count, TellLead, ClearLeadNotice, SaveFails, LeadReads
  <2>2. \/ unread' \subseteq unread
        \/ \E kind : unread' = unread \cup {<<owner, kind>>}
    BY <1>2, Steps DEF Assign, Reassign, MoveTo, Ask, End, OpenThread, Reply, Resolve, Read,
       Advance, Cancel, StartSave, Update, Count, TellLead, ClearLeadNotice, SaveFails, LeadReads,
       Tell, Recipient
  <2> QED
    BY <2>1, <2>2
<1> QED
  BY <1>1, <1>2

(* Who is told, and who is not, whatever becomes of the saves. *)
THEOREM AnsweredAlways == Spec => []Answered
<1>1. Answered /\ [Next]_vars => Answered'
  <2>1. Answered /\ Next => Answered'
    BY TypeStep, MoveStep, PendingStep, FormerStep DEF Answered
  <2>2. Answered /\ UNCHANGED vars => Answered'
    BY DEF Answered, TypeOK, MoveIsAvailable, PendingIsTold, FormerIsNotAsked, vars
  <2> QED
    BY <2>1, <2>2
<1> QED
  BY <1>1, AnsweredInit, PTL DEF Spec

(* The coordinator of an event was told of everything that is pending on it. *)
THEOREM PendingIsAlwaysTold == Spec => []PendingIsTold
<1>1. Answered => PendingIsTold
  BY DEF Answered
<1> QED
  BY <1>1, AnsweredAlways, PTL

(* A former coordinator is asked nothing about an event. *)
THEOREM FormerIsNeverAsked == Spec => []FormerIsNotAsked
<1>1. Answered => FormerIsNotAsked
  BY DEF Answered
<1> QED
  BY <1>1, AnsweredAlways, PTL

-----------------------------------------------------------------------------
(* The Lead *)

(* A save that goes on is the same save. *)
LEMMA ThenFacts ==
  ASSUME TypeOK, NEW s \in saves, NEW next \in {"count", "tell", "clear"}
  PROVE  \E n : /\ Then(s, next) = (saves \ {s}) \cup {n}
                /\ n.of = s.of /\ n.to = s.to /\ n.call = s.call /\ n.next = next
<1>1. s \in Save
  BY DEF TypeOK
<1>2. /\ Then(s, next) = (saves \ {s}) \cup {[s EXCEPT !.next = next]}
      /\ [s EXCEPT !.next = next].of = s.of
      /\ [s EXCEPT !.next = next].to = s.to
      /\ [s EXCEPT !.next = next].call = s.call
      /\ [s EXCEPT !.next = next].next = next
  BY <1>1 DEF Then, Save
<1> QED
  BY <1>2

(* What a step does to the saves under way. *)
LEMMA SaveMoves ==
  ASSUME TypeOK, Next
  PROVE  \/ saves' = saves /\ available' = available /\ astray' = astray
         \/ \E k \in Calls, c \in Coordinators, to \in BOOLEAN : StartSave(k, c, to)
         \/ \E s \in saves : Update(s)
         \/ \E s \in saves : \/ /\ Count(s) /\ Busy(s.of)
                                /\ saves' = Then(s, "tell") /\ astray' = astray
                             \/ /\ (Count(s) /\ ~Busy(s.of)) \/ TellLead(s) \/ ClearLeadNotice(s)
                                /\ EndSave(s)
         \/ \E s \in saves : SaveFails(s)
<1>1. CASE \E s \in saves : Count(s) \/ TellLead(s) \/ ClearLeadNotice(s)
  BY <1>1 DEF Count, TellLead, ClearLeadNotice
<1>2. CASE /\ ~(\E s \in saves : Update(s) \/ Count(s) \/ TellLead(s) \/ ClearLeadNotice(s))
           /\ ~(\E s \in saves : SaveFails(s))
           /\ ~(\E k \in Calls, c \in Coordinators, to \in BOOLEAN : StartSave(k, c, to))
  BY <1>2, Steps DEF event, Assign, Reassign, MoveTo, CommitMove, Ask, End, OpenThread, Reply,
     Resolve, Read, Advance, Cancel, LeadReads
<1> QED
  BY <1>1, <1>2

(* A call makes one save at a time, which ends with a word that fits it. *)
LEMMA WellFormedStep == TypeOK /\ SavesWellFormed /\ Next => SavesWellFormed'
<1> SUFFICES ASSUME TypeOK, SavesWellFormed, Next
             PROVE  SavesWellFormed'
  OBVIOUS
<1>1. CASE saves' \subseteq saves
  BY <1>1 DEF SavesWellFormed
<1>2. CASE \E k \in Calls, c \in Coordinators, to \in BOOLEAN : StartSave(k, c, to)
  BY <1>2 DEF StartSave, SavesWellFormed
<1>3. ASSUME NEW s \in saves, NEW next \in {"count", "tell", "clear"}, saves' = Then(s, next),
             next \in {"count", "tell"} => ~s.to, next = "clear" => s.to
      PROVE  SavesWellFormed'
  <2>1. PICK n : /\ saves' = (saves \ {s}) \cup {n}
                 /\ n.of = s.of /\ n.to = s.to /\ n.call = s.call /\ n.next = next
    BY <1>3, ThenFacts
  <2> QED
    BY <1>3, <2>1 DEF SavesWellFormed
<1>4. ASSUME NEW s \in saves, Update(s)
      PROVE  SavesWellFormed'
  BY <1>1, <1>3, <1>4 DEF Update
<1>5. ASSUME NEW s \in saves, Count(s), saves' = Then(s, "tell")
      PROVE  SavesWellFormed'
  BY <1>3, <1>5 DEF Count, SavesWellFormed
<1> QED
  BY <1>1, <1>2, <1>4, <1>5, SaveMoves DEF EndSave, SaveFails

(* Who is not astray after the end of a save has no other, and its value stands. *)
LEMMA EndFacts ==
  ASSUME SavesInOrder, NEW s \in saves, s.next # "update", EndSave(s), s.of \notin astray'
  PROVE  /\ \A t \in saves \ {s} : t.of # s.of
         /\ available[s.of] = s.to
BY DEF SavesInOrder, EndSave, Mended

(* Each save stays alone with its coordinator, and what it read stays true. *)
LEMMA SavesStep == TypeOK /\ SavesInOrder /\ Next => SavesInOrder'
<1> SUFFICES ASSUME TypeOK, SavesInOrder, Next
             PROVE  SavesInOrder'
  OBVIOUS
<1>1. CASE saves' = saves /\ available' = available /\ astray' = astray
  BY <1>1 DEF SavesInOrder
<1>2. ASSUME NEW k \in Calls, NEW c \in Coordinators, NEW to \in BOOLEAN, StartSave(k, c, to)
      PROVE  SavesInOrder'
  <2>1. PICK n : saves' = saves \cup {n} /\ n.of = c /\ n.was = available[c] /\ n.next = "update"
    <3> DEFINE m == [call |-> k, of |-> c, to |-> to, was |-> available[c], next |-> "update"]
    <3>1. saves' = saves \cup {m}
      BY <1>2 DEF StartSave
    <3>2. m.of = c /\ m.was = available[c] /\ m.next = "update"
      OBVIOUS
    <3> HIDE DEF m
    <3> QED
      BY <3>1, <3>2
  <2>2. available' = available /\ (c \notin astray' => Settled(c)) /\ astray \subseteq astray'
    BY <1>2 DEF StartSave
  <2> QED
    BY <2>1, <2>2 DEF SavesInOrder, Settled
<1>3. ASSUME NEW s \in saves, Update(s)
      PROVE  SavesInOrder'
  <2>1. /\ s.of \in Coordinators /\ s.to \in BOOLEAN /\ s.next = "update"
        /\ \A t \in saves : t.of \in Coordinators
    BY <1>3 DEF TypeOK, Save, Update
  <2>2. /\ available'[s.of] = s.to /\ astray' = astray
        /\ \A c \in Coordinators \ {s.of} : available'[c] = available[c]
    BY <1>3, <2>1 DEF Update, TypeOK
  <2>3. CASE saves' = saves \ {s}
    BY <2>1, <2>2, <2>3 DEF SavesInOrder
  <2>4. ASSUME NEW next \in {"count", "clear"}, saves' = Then(s, next)
        PROVE  SavesInOrder'
    <3>1. PICK n : /\ saves' = (saves \ {s}) \cup {n}
                   /\ n.of = s.of /\ n.to = s.to /\ n.next = next
      BY <2>4, ThenFacts
    <3>2. s.of \notin astray => \A t \in saves \ {s} : t.of # s.of
      BY DEF SavesInOrder
    <3> QED
      BY <2>1, <2>2, <2>4, <3>1, <3>2 DEF SavesInOrder
  <2> QED
    BY <1>3, <2>3, <2>4 DEF Update
<1>4. ASSUME NEW s \in saves, Count(s), saves' = Then(s, "tell"), astray' = astray
      PROVE  SavesInOrder'
  <2>1. PICK n : /\ saves' = (saves \ {s}) \cup {n}
                 /\ n.of = s.of /\ n.to = s.to /\ n.next = "tell"
    BY <1>4, ThenFacts
  <2>2. s.next = "count" /\ available' = available
    BY <1>4 DEF Count
  <2> QED
    BY <1>4, <2>1, <2>2 DEF SavesInOrder
<1>5. ASSUME NEW s \in saves, Count(s) \/ TellLead(s) \/ ClearLeadNotice(s), EndSave(s)
      PROVE  SavesInOrder'
  <2>1. available' = available /\ s.next # "update" /\ saves' = saves \ {s}
        /\ astray' \cup {s.of} = astray \cup {s.of}
    BY <1>5 DEF Count, TellLead, ClearLeadNotice, EndSave
  <2>2. s.of \notin astray' => \A t \in saves \ {s} : t.of # s.of
    BY <1>5, <2>1, EndFacts
  <2> QED
    BY <2>1, <2>2 DEF SavesInOrder
<1>6. ASSUME NEW s \in saves, SaveFails(s)
      PROVE  SavesInOrder'
  BY <1>6 DEF SaveFails, SavesInOrder
<1> QED
  BY <1>1, <1>2, <1>3, <1>4, <1>5, <1>6, SaveMoves

(* What the Lead is to know of one coordinator. *)
Knows(c) ==
  /\ c \in lead => \/ ~available[c]
                  \/ \E s \in saves : s.of = c /\ s.next = "clear"
  /\ ~available[c] /\ Busy(c) =>
       \/ c \in told
       \/ \E s \in saves : s.of = c /\ s.next \in {"count", "tell"}

(* A step that leaves a coordinator's saves and value alone tells no less. *)
LEMMA KnowsKept ==
  ASSUME NEW c \in Coordinators, Knows(c),
         available'[c] = available[c], Busy(c)' => Busy(c), c \in told => c \in told',
         c \in lead' => c \in lead,
         \A s \in saves : s.of = c /\ s.next # "update" => s \in saves'
  PROVE  Knows(c)'
BY DEF Knows

(* No statement of a save loses what the Lead is to be told. *)
LEMMA LeadStep ==
  ASSUME TypeOK, MoveIsAvailable, SavesWellFormed, SavesInOrder, LeadIsBeingTold, Next
  PROVE  LeadIsBeingTold'
<1> SUFFICES ASSUME NEW c \in Coordinators, c \notin astray'
             PROVE  Knows(c)'
  BY DEF LeadIsBeingTold, Knows
<1>0. c \notin astray => Knows(c)
  BY DEF LeadIsBeingTold, Knows
<1>1. ASSUME NEW s \in saves, Update(s)
      PROVE  Knows(c)'
  <2>1. /\ s.of \in Coordinators /\ s.to \in BOOLEAN /\ s.was \in BOOLEAN /\ s.next = "update"
    BY <1>1 DEF TypeOK, Save, Update
  <2>2. /\ available'[s.of] = s.to
        /\ \A d \in Coordinators \ {s.of} : available'[d] = available[d]
        /\ lead' = lead /\ owner' = owner /\ status' = status /\ astray' = astray
        /\ told \ {s.of} \subseteq told'
        /\ saves \ {s} \subseteq saves'
    BY <1>1, <2>1 DEF Update, TypeOK, event, Then
  <2>3. Knows(c)
    BY <1>0, <2>2
  <2>4. CASE c # s.of
    BY <2>1, <2>2, <2>3, <2>4, KnowsKept DEF Busy
  <2>5. CASE c = s.of
    <3>1. s.was = available[c] /\ (\A t \in saves \ {s} : t.of # c)
      BY <2>1, <2>2, <2>5 DEF SavesInOrder
    <3>2. CASE s.was = s.to
      <4>1. told' = told
        BY <1>1, <2>1, <2>5, <3>1, <3>2 DEF Update
      <4> QED
        BY <2>1, <2>2, <2>3, <2>5, <3>1, <3>2, <4>1, KnowsKept DEF Busy
    <3>3. CASE s.was /\ ~s.to
      <4>1. PICK n : saves' = (saves \ {s}) \cup {n} /\ n.of = s.of /\ n.next = "count"
        BY <1>1, <3>3, ThenFacts DEF Update
      <4> QED
        BY <2>2, <2>5, <3>3, <4>1 DEF Knows
    <3>4. CASE ~s.was /\ s.to
      <4>1. PICK n : saves' = (saves \ {s}) \cup {n} /\ n.of = s.of /\ n.next = "clear"
        BY <1>1, <3>4, ThenFacts DEF Update
      <4> QED
        BY <2>2, <2>5, <3>4, <4>1 DEF Knows
    <3> QED
      BY <2>1, <3>2, <3>3, <3>4
  <2> QED
    BY <2>4, <2>5
<1>2. ASSUME NEW s \in saves, Count(s), Busy(s.of), saves' = Then(s, "tell")
      PROVE  Knows(c)'
  <2>1. /\ s.next = "count" /\ lead' = lead /\ owner' = owner /\ status' = status
        /\ available' = available /\ told' = told /\ astray' = astray
    BY <1>2 DEF Count, event
  <2>2. PICK n : saves' = (saves \ {s}) \cup {n} /\ n.of = s.of /\ n.next = "tell"
    BY <1>2, ThenFacts
  <2>3. Knows(c)
    BY <1>0, <2>1
  <2> QED
    BY <2>1, <2>2, <2>3 DEF Knows, Busy
<1>3. ASSUME NEW s \in saves, EndSave(s),
             (Count(s) /\ ~Busy(s.of)) \/ TellLead(s) \/ ClearLeadNotice(s)
      PROVE  Knows(c)'
  <2>1. /\ s.next # "update" /\ owner' = owner /\ status' = status /\ available' = available
        /\ saves' = saves \ {s}
    BY <1>3 DEF Count, TellLead, ClearLeadNotice, EndSave, event
  <2>2. CASE c # s.of
    <3>1. c \notin astray /\ (c \in lead' => c \in lead) /\ (c \in told => c \in told')
      BY <1>3, <2>2 DEF Count, TellLead, ClearLeadNotice, EndSave
    <3> QED
      BY <1>0, <2>1, <2>2, <3>1, KnowsKept DEF Busy
  <2>3. CASE c = s.of
    <3>1. available[c] = s.to
      BY <1>3, <2>1, <2>3, EndFacts
    <3>2. CASE Count(s) /\ ~Busy(s.of)
      BY <2>1, <2>3, <3>1, <3>2 DEF Count, SavesWellFormed, Knows, Busy
    <3>3. CASE TellLead(s)
      BY <2>1, <2>3, <3>1, <3>3 DEF TellLead, SavesWellFormed, Knows
    <3>4. CASE ClearLeadNotice(s)
      BY <2>1, <2>3, <3>1, <3>4 DEF ClearLeadNotice, SavesWellFormed, Knows
    <3> QED
      BY <1>3, <3>2, <3>3, <3>4
  <2> QED
    BY <2>2, <2>3
<1>4. ASSUME NEW s \in saves, SaveFails(s)
      PROVE  Knows(c)'
  <2>1. /\ lead' = lead /\ owner' = owner /\ status' = status /\ available' = available
        /\ told' = told /\ saves' = saves \ {s} /\ astray \subseteq astray'
        /\ c = s.of => s.next = "update"
    BY <1>4 DEF SaveFails, event
  <2> QED
    BY <1>0, <2>1, KnowsKept DEF Busy
<1>5. CASE CommitMove
  <2>1. /\ available[owner'] /\ available' = available /\ saves' = saves /\ lead' = lead
        /\ told' = told /\ astray' = astray
    BY <1>5 DEF CommitMove, MoveIsAvailable
  <2> QED
    BY <1>0, <2>1 DEF Knows, Busy
<1>6. CASE /\ ~(\E s \in saves : Update(s) \/ Count(s) \/ TellLead(s) \/ ClearLeadNotice(s))
           /\ ~(\E s \in saves : SaveFails(s))
           /\ ~CommitMove
  <2>1. /\ owner' = owner /\ available' = available /\ told' = told
        /\ lead' \subseteq lead /\ saves \subseteq saves' /\ astray \subseteq astray'
    BY <1>6, Steps DEF Assign, Reassign, MoveTo, Ask, End, OpenThread, Reply, Resolve, Read,
       Advance, Cancel, StartSave, LeadReads, event
  <2>2. status' \in Active => status \in Active
    BY <1>6, Steps DEF Assign, Reassign, MoveTo, Ask, End, OpenThread, Reply, Resolve, Read,
       Advance, Moves, Cancel, StartSave, LeadReads, event, Active
  <2> QED
    BY <1>0, <2>1, <2>2, KnowsKept DEF Busy
<1> QED
  BY <1>1, <1>2, <1>3, <1>4, <1>5, <1>6 DEF Count, TellLead, ClearLeadNotice

(* The inductive invariant. *)
THEOREM Invariance == Spec => []IInv
<1>1. Init => IInv
  BY AnsweredInit
  DEF Answered, IInv, Init, SavesWellFormed, SavesInOrder, LeadIsBeingTold
<1>2. IInv /\ [Next]_vars => IInv'
  <2>1. IInv /\ Next => IInv'
    BY TypeStep, MoveStep, PendingStep, FormerStep, WellFormedStep, SavesStep, LeadStep DEF IInv
  <2>2. IInv /\ UNCHANGED vars => IInv'
    BY DEF IInv, TypeOK, MoveIsAvailable, SavesWellFormed, SavesInOrder, LeadIsBeingTold, Busy,
       PendingIsTold, FormerIsNotAsked, vars
  <2> QED
    BY <2>1, <2>2
<1> QED
  BY <1>1, <1>2, PTL DEF Spec

(* The Lead knows of every unavailable coordinator who has an active event,   *)
(* and is left no notice of an available one, once the saves are over and if  *)
(* none of them broke off or crossed another with none alone since.           *)
THEOREM LeadAlwaysKnows == Spec => []LeadKnows
<1>1. IInv => LeadKnows
  BY DEF IInv, LeadIsBeingTold, LeadKnows, Settled
<1> QED
  BY <1>1, Invariance, PTL
=============================================================================
