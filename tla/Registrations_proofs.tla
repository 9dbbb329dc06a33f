------------------------- MODULE Registrations_proofs -------------------------
(***************************************************************************)
(* Proofs about Registrations: the inductive invariant IInv, and from it   *)
(* the type invariant and the safety invariants, for any finite set of     *)
(* attendees, any number of handlers, any settings and any bounds.         *)
(***************************************************************************)
EXTENDS Registrations, FiniteSetTheorems, TLAPS

Rows == [Attendees -> RegRow]

(* No entry joins the list, and no row becomes Cancelled. *)
Quiet(r, r2) ==
  /\ \A a \in Waiting(r2) : a \in Waiting(r) /\ r2[a] = r[a]
  /\ InStatus(r2, "Cancelled") \subseteq InStatus(r, "Cancelled")

(* Nobody becomes active who was not. *)
NoNewcomer(r, r2) == Registered(r2) \cup Waiting(r2) \subseteq Registered(r) \cup Waiting(r)

(* The arrival order of the list of r, given the next sequence number and the time. *)
Orderly(r, n, t) ==
  /\ \A a \in Waiting(r) : r[a].seq < n /\ r[a].joinedAt <= t
  /\ \A a, b \in Waiting(r) :
       /\ a # b => r[a].seq # r[b].seq
       /\ r[a].seq < r[b].seq => r[a].joinedAt <= r[b].joinedAt

Told(r, who) == \A a \in Attendees \ {Organiser} : r[a].status = "Cancelled" => a \in who

-----------------------------------------------------------------------------
(* Rows and the sets of rows in one status *)

(* A row of any status is a row; only a waiting row has a place in the order. *)
LEMMA RowType ==
  ASSUME NEW status \in RowStatus
  PROVE  Row(status) \in RegRow /\ Row(status).status = status
BY BoundsAssumption DEF Row, RegRow, Time

(* The attendees in one status are finitely many, so they can be counted. *)
LEMMA StatusFinite ==
  ASSUME NEW r, NEW status
  PROVE  /\ IsFiniteSet(InStatus(r, status))
         /\ Cardinality(InStatus(r, status)) \in Nat
<1>1. InStatus(r, status) \subseteq Attendees
  BY DEF InStatus
<1>2. IsFiniteSet(InStatus(r, status))
  BY <1>1, AttendeesAssumption, FS_Subset
<1> QED
  BY <1>2, FS_CardinalityType

(* Settling removes the whole list or leaves every row alone. *)
LEMMA SettleFacts ==
  ASSUME NEW r \in Rows, NEW e, NEW now
  PROVE  /\ SettleLocked(r, e, now) \in Rows
         /\ Registered(SettleLocked(r, e, now)) = Registered(r)
         /\ Waiting(SettleLocked(r, e, now)) = {} \/ SettleLocked(r, e, now) = r
         /\ Quiet(r, SettleLocked(r, e, now))
         /\ NoNewcomer(r, SettleLocked(r, e, now))
         /\ \A a \in Attendees : a \notin Waiting(r) => SettleLocked(r, e, now)[a] = r[a]
<1>1. Row("Removed") \in RegRow /\ Row("Removed").status = "Removed"
  BY RowType DEF RowStatus
<1> QED
  BY <1>1 DEF SettleLocked, Rows, Registered, Waiting, InStatus, Quiet, NoNewcomer

(* A waiting list whose rows are all rows of an orderly list is orderly. *)
LEMMA QuietKeepsOrder ==
  ASSUME NEW r \in Rows, NEW r2 \in Rows, NEW n \in Nat, NEW t \in Nat, NEW t2 \in Nat,
         Quiet(r, r2), Orderly(r, n, t), t <= t2
  PROVE  Orderly(r2, n, t2)
<1>1. \A a \in Waiting(r) : r[a].joinedAt \in Nat /\ r[a].seq \in Nat
  BY BoundsAssumption DEF Rows, RegRow, Waiting, InStatus, Time
<1> QED
  BY <1>1 DEF Quiet, Orderly

(* Everyone cancelled was cancelled, and told, before. *)
LEMMA QuietKeepsTold ==
  ASSUME NEW r \in Rows, NEW r2 \in Rows, NEW who, Quiet(r, r2), Told(r, who)
  PROVE  Told(r2, who)
BY DEF Quiet, Told, InStatus

-----------------------------------------------------------------------------
(* Promotion *)

(* fillFreeSpots never exceeds the limit and leaves nobody waiting beside a    *)
(* free place.                                                                 *)
LEMMA FillFacts ==
  ASSUME NEW r \in Rows, NEW e, NEW now, NEW r2,
         e.capacity \in Nat,
         Taken(r) <= e.capacity,
         r2 \in FillFreeSpots(r, e, now)
  PROVE  /\ r2 \in Rows
         /\ Taken(r2) <= e.capacity
         /\ Waiting(r2) # {} => Taken(r2) >= e.capacity
         /\ Quiet(r, r2)
         /\ NoNewcomer(r, r2)
<1> DEFINE s == SettleLocked(r, e, now)
           n == Promotable(s, e)
<1>1. /\ s \in Rows
      /\ Registered(s) = Registered(r)
      /\ Quiet(r, s)
      /\ NoNewcomer(r, s)
  BY SettleFacts
<1>2. PICK P \in Earliest(s, n) :
        r2 = [a \in Attendees |-> IF a \in P THEN Row("Registered") ELSE s[a]]
  BY DEF FillFreeSpots
<1>3. P \subseteq Waiting(s) /\ Cardinality(P) = n
  BY <1>2 DEF Earliest
<1>4. Row("Registered") \in RegRow /\ Row("Registered").status = "Registered"
  BY RowType DEF RowStatus
<1>5. r2 \in Rows
  BY <1>1, <1>2, <1>4 DEF Rows
<1>6. /\ Registered(r2) = Registered(s) \cup P
      /\ Waiting(r2) = Waiting(s) \ P
      /\ InStatus(r2, "Cancelled") \subseteq InStatus(s, "Cancelled")
  BY <1>2, <1>3, <1>4 DEF Registered, Waiting, InStatus
<1>7. Registered(s) \cap P = {}
  BY <1>3 DEF Registered, Waiting, InStatus
<1>8. /\ IsFiniteSet(Registered(s)) /\ IsFiniteSet(Waiting(s))
      /\ Taken(s) \in Nat /\ Cardinality(Waiting(s)) \in Nat
  BY StatusFinite DEF Registered, Waiting, Taken
<1>9. IsFiniteSet(P) /\ (Cardinality(P) = Cardinality(Waiting(s)) => P = Waiting(s))
  BY <1>3, <1>8, FS_Subset
<1>10. Taken(r2) = Taken(s) + n
  <2>1. Cardinality(Registered(s) \cup P)
          = Cardinality(Registered(s)) + Cardinality(P) - Cardinality(Registered(s) \cap P)
    BY <1>8, <1>9, FS_Union
  <2>2. Cardinality(Registered(s) \cap P) = 0
    BY <1>7, FS_EmptySet
  <2>3. Cardinality(Registered(s)) \in Nat /\ Cardinality(P) \in Nat
    BY <1>8, <1>9, FS_CardinalityType DEF Taken
  <2> QED
    BY <2>1, <2>2, <2>3, <1>3, <1>6 DEF Taken
<1>11. Taken(s) = Taken(r)
  BY <1>1 DEF Taken
<1>12. Taken(r2) <= e.capacity
  BY <1>8, <1>10, <1>11 DEF Promotable
<1>13. Waiting(r2) # {} => Taken(r2) >= e.capacity
  <2> SUFFICES ASSUME Waiting(r2) # {} PROVE Taken(r2) >= e.capacity
    OBVIOUS
  <2>1. n # Cardinality(Waiting(s))
    BY <1>3, <1>6, <1>9
  <2> QED
    BY <2>1, <1>8, <1>10, <1>11 DEF Promotable
<1>14. Quiet(r, r2)
  <2>1. \A a \in Waiting(r2) : a \in Waiting(s) /\ r2[a] = s[a]
    BY <1>2, <1>6 DEF Waiting, InStatus
  <2> QED
    BY <2>1, <1>1, <1>6 DEF Quiet
<1>15. NoNewcomer(r, r2)
  BY <1>1, <1>3, <1>6 DEF NoNewcomer
<1> QED
  BY <1>5, <1>12, <1>13, <1>14, <1>15

(* Ending one active row frees at most its place and changes no other row. *)
LEMMA WithdrawnFacts ==
  ASSUME NEW r \in Rows, NEW a \in Attendees
  PROVE  LET w == [r EXCEPT ![a] = Row("Withdrawn")]
         IN  /\ w \in Rows
             /\ Quiet(r, w)
             /\ NoNewcomer(r, w)
             /\ Registered(w) = Registered(r) \ {a}
             /\ Waiting(w) = Waiting(r) \ {a}
<1>1. Row("Withdrawn") \in RegRow /\ Row("Withdrawn").status = "Withdrawn"
  BY RowType DEF RowStatus
<1> QED
  BY <1>1 DEF Rows, Quiet, NoNewcomer, Registered, Waiting, InStatus

-----------------------------------------------------------------------------
(* The counting part of the invariant *)

Sound(r, e) ==
  /\ Taken(r) <= e.capacity
  /\ Waiting(r) # {} => Taken(r) >= e.capacity
  /\ e.status = "Cancelled" => Registered(r) \cup Waiting(r) = {}

(* The invariant, as the parts the lemmas speak of. *)
LEMMA IInvParts ==
  IInv <=> TypeOK /\ Sound(regs, event) /\ Orderly(regs, nextSeq, clock) /\ Told(regs, notified)
BY DEF IInv, Sound, Orderly, Told, CapacityRespected, WaitingImpliesFull, CancelledEventIsEmpty,
       CancelledAreTold, ServedInOrderOfArrival, ArrivalsBehind

(* Settling keeps the count of places and removes the whole list or nothing. *)
LEMMA SettleSound ==
  ASSUME NEW r \in Rows, NEW e, NEW e2, NEW now, Sound(r, e)
  PROVE  Sound(SettleLocked(r, e2, now), e)
<1>1. /\ Registered(SettleLocked(r, e2, now)) = Registered(r)
      /\ Waiting(SettleLocked(r, e2, now)) = {} \/ SettleLocked(r, e2, now) = r
      /\ NoNewcomer(r, SettleLocked(r, e2, now))
  BY SettleFacts
<1> QED
  BY <1>1 DEF Sound, Taken, NoNewcomer

(* A step that adds nobody to the list and cancels no row keeps the order and  *)
(* the notices.                                                                *)
LEMMA QuietStep ==
  ASSUME IInv, TypeOK', Quiet(regs, regs'), nextSeq' = nextSeq, clock <= clock', notified' = notified
  PROVE  Orderly(regs', nextSeq', clock') /\ Told(regs', notified')
<1>1. /\ regs \in Rows /\ regs' \in Rows /\ nextSeq \in Nat /\ clock \in Nat /\ clock' \in Nat
  BY BoundsAssumption DEF IInv, TypeOK, Rows, Time
<1>2. Orderly(regs, nextSeq, clock) /\ Told(regs, notified)
  BY IInvParts
<1> QED
  BY <1>1, <1>2, QuietKeepsOrder, QuietKeepsTold

(* Quiet and NoNewcomer compose. *)
LEMMA Compose ==
  ASSUME NEW r1, NEW r2, NEW r3
  PROVE  /\ Quiet(r1, r2) /\ Quiet(r2, r3) => Quiet(r1, r3)
         /\ NoNewcomer(r1, r2) /\ NoNewcomer(r2, r3) => NoNewcomer(r1, r3)
BY DEF Quiet, NoNewcomer

(* What a withdrawal decides on is the list as it is or as settled. *)
LEMMA DecidedFacts ==
  ASSUME IInv, NEW q
  PROVE  /\ Decided(q) \in Rows
         /\ Sound(Decided(q), event)
         /\ Quiet(regs, Decided(q))
         /\ NoNewcomer(regs, Decided(q))
<1>1. regs \in Rows /\ Sound(regs, event)
  BY IInvParts DEF TypeOK, Rows
<1>2. Quiet(regs, regs) /\ NoNewcomer(regs, regs)
  BY DEF Quiet, NoNewcomer
<1> QED
  BY <1>1, <1>2, SettleFacts, SettleSound DEF Decided

-----------------------------------------------------------------------------

(* Initially nobody has a row. *)
LEMMA InitInvariant == Init => IInv
<1> SUFFICES ASSUME Init PROVE IInv
  OBVIOUS
<1>1. Row("None") \in RegRow /\ Row("None").status = "None"
  BY RowType DEF RowStatus
<1>2. TypeOK
  <2>1. clock \in Time /\ nextSeq \in 1 .. MaxJoins + 1
    BY BoundsAssumption DEF Init, Time
  <2>2. event \in EventRow
    <3>1. PICK s \in Starts, l \in Limits :
            event = [status |-> "Planning", start |-> s, enabled |-> FALSE, opens |-> NoTime,
                     closes |-> NoTime, capacity |-> l, version |-> 0]
      BY DEF Init
    <3>2. s \in Time /\ l \in 1 .. MaxCapacity /\ 0 \in 0 .. MaxSaves
      BY BoundsAssumption, InputsAssumption
    <3> QED
      BY <3>1, <3>2 DEF EventRow, EventStatus
  <2>3. regs \in [Attendees -> RegRow]
    BY <1>1 DEF Init
  <2>4. req \in [Handlers -> Request]
    BY DEF Init, Request, Reply
  <2> QED
    BY <2>1, <2>2, <2>3, <2>4 DEF Init, TypeOK
<1>3. Registered(regs) = {} /\ Waiting(regs) = {} /\ InStatus(regs, "Cancelled") = {}
  BY <1>1 DEF Init, Registered, Waiting, InStatus
<1>4. Taken(regs) = 0
  BY <1>3, FS_EmptySet DEF Taken
<1>5. Sound(regs, event)
  <2>1. event.capacity \in Nat
    BY <1>2, BoundsAssumption DEF TypeOK, EventRow
  <2> QED
    BY <1>3, <1>4, <2>1 DEF Sound, Init
<1>6. Orderly(regs, nextSeq, clock) /\ Told(regs, notified)
  BY <1>3 DEF Orderly, Told, InStatus
<1> QED
  BY <1>2, <1>5, <1>6, IInvParts

-----------------------------------------------------------------------------
(* Types, one action at a time *)

(* An answered request is a request. *)
LEMMA AnswerType ==
  ASSUME TypeOK, NEW h \in Handlers, NEW reply \in Reply, Answer(h, reply)
  PROVE  req' \in [Handlers -> Request]
BY DEF TypeOK, Answer, Request

(* What a settings request leaves behind is an event row. *)
LEMMA PatchedType ==
  ASSUME TypeOK, NEW p \in Patches, NEW confirmed,
         ValidSettings(Patched(event, p), p, confirmed)
  PROVE  /\ Patched(event, p) \in EventRow
         /\ Patched(event, p).status = event.status
         /\ Patched(event, p).version = event.version
         /\ Patched(event, p).capacity >= confirmed
<1>1. event \in EventRow /\ p \in Patch
  BY InputsAssumption DEF TypeOK
<1>2. Merge(event.enabled, p.enabled) \in BOOLEAN
  BY <1>1 DEF EventRow, Patch, Merge
<1>3. /\ Merge(event.opens, p.opens) \in Time \cup {NoTime}
      /\ Merge(event.closes, p.closes) \in Time \cup {NoTime}
  BY <1>1 DEF EventRow, Patch, Merge
<1>4. /\ Patched(event, p).capacity \in 1 .. MaxCapacity
      /\ Patched(event, p).capacity >= confirmed
  BY DEF ValidSettings
<1> QED
  BY <1>1, <1>2, <1>3, <1>4 DEF EventRow, Patched

(* What every step that adds nobody to the list has to show. *)
LEMMA Preserved ==
  ASSUME IInv, TypeOK', Sound(regs', event'), Quiet(regs, regs'),
         nextSeq' = nextSeq, clock <= clock', notified' = notified
  PROVE  IInv'
<1>1. Orderly(regs', nextSeq', clock') /\ Told(regs', notified')
  BY QuietStep
<1> QED
  BY <1>1 DEF IInv, Sound, Orderly, Told, CapacityRespected, WaitingImpliesFull, Taken,
     CancelledEventIsEmpty, CancelledAreTold, ServedInOrderOfArrival, ArrivalsBehind,
     Waiting, Registered, InStatus

-----------------------------------------------------------------------------
(* The steps, one lemma per action or per group of actions alike *)

(* A step that leaves the rows, the capacity and the list's counters alone. *)
LEMMA RowsKept ==
  ASSUME IInv, TypeOK', UNCHANGED <<regs, nextSeq, notified>>, clock <= clock',
         event'.capacity = event.capacity,
         event'.status = "Cancelled" => event.status = "Cancelled"
  PROVE  IInv'
<1>1. Quiet(regs, regs')
  BY DEF Quiet
<1>2. Sound(regs', event')
  BY IInvParts DEF Sound
<1> QED
  BY <1>1, <1>2, Preserved

(* The clock. *)
LEMMA TickStep == ASSUME IInv, Tick PROVE IInv'
<1>1. TypeOK' /\ clock <= clock'
  BY BoundsAssumption DEF IInv, Tick, TypeOK, Time
<1> QED
  BY <1>1, RowsKept DEF Tick

(* The life of the event around the registrations. *)
LEMMA LifeStep ==
  ASSUME IInv,
         \/ Confirm \/ Complete
         \/ \E s \in Starts : Reschedule(s)
         \/ \E c \in Coordinators : Reassign(c)
  PROVE  IInv'
<1>1. event \in EventRow /\ coordinator \in Coordinators /\ clock \in Int
  BY BoundsAssumption DEF IInv, TypeOK, Time
<1>2. CASE Confirm
  <2>1. /\ event' \in EventRow /\ event'.capacity = event.capacity
        /\ event'.status = "Confirmed"
    BY <1>1, <1>2 DEF Confirm, EventRow, EventStatus
  <2> QED
    BY <1>1, <1>2, <2>1, RowsKept DEF Confirm, IInv, TypeOK
<1>3. CASE Complete
  <2>1. /\ event' \in EventRow /\ event'.capacity = event.capacity
        /\ event'.status = "Completed"
    BY <1>1, <1>3 DEF Complete, EventRow, EventStatus
  <2> QED
    BY <1>1, <1>3, <2>1, RowsKept DEF Complete, IInv, TypeOK
<1>4. CASE \E s \in Starts : Reschedule(s)
  <2>1. PICK s \in Starts : Reschedule(s)
    BY <1>4
  <2>2. /\ event' \in EventRow /\ event'.capacity = event.capacity
        /\ event'.status = "Planning"
    BY <1>1, <2>1, InputsAssumption DEF Reschedule, EventRow, EventStatus
  <2> QED
    <3>1. UNCHANGED <<clock, coordinator, regs, nextSeq, notified, req>>
      BY <2>1 DEF Reschedule
    <3>2. TypeOK'
      BY <2>2, <3>1 DEF IInv, TypeOK
    <3> QED
      BY <1>1, <2>2, <3>1, <3>2, RowsKept
<1>5. CASE \E c \in Coordinators : Reassign(c)
  <2>1. PICK c \in Coordinators : Reassign(c)
    BY <1>5
  <2> QED
    BY <1>1, <2>1, RowsKept DEF Reassign, IInv, TypeOK
<1> QED
  BY <1>2, <1>3, <1>4, <1>5

(* What a handler reads before the lock. *)
LEMMA ReadStep ==
  ASSUME IInv, NEW h \in Handlers,
         \/ \E a \in Attendees : WithdrawRead(h, a)
         \/ FindMineRead(h) \/ SettingsRead(h) \/ CancelRead(h)
  PROVE  IInv'
<1>1. event \in EventRow /\ coordinator \in Coordinators /\ clock \in Time /\ clock \in Int
      /\ req \in [Handlers -> Request]
  BY BoundsAssumption DEF IInv, TypeOK, Time
<1>2. req' \in [Handlers -> Request]
  <2>1. CASE \E a \in Attendees : WithdrawRead(h, a)
    BY <1>1, <2>1 DEF WithdrawRead, Request, EventRow
  <2>2. CASE FindMineRead(h)
    BY <1>1, <2>2 DEF FindMineRead, Request
  <2>3. CASE SettingsRead(h)
    <3>1. event.version \in 0 .. MaxSaves - 1
      BY <1>1, <2>3, BoundsAssumption DEF SettingsRead, EventRow
    <3> QED
      BY <1>1, <2>3, <3>1 DEF SettingsRead, Request
  <2>4. CASE CancelRead(h)
    BY <1>1, <2>4 DEF CancelRead, Request
  <2> QED
    BY <2>1, <2>2, <2>3, <2>4
<1>3. UNCHANGED <<clock, event, coordinator, regs, nextSeq, notified>>
  BY DEF WithdrawRead, FindMineRead, SettingsRead, CancelRead
<1> QED
  BY <1>1, <1>2, <1>3, RowsKept DEF IInv, TypeOK

(* Answers that write nothing. *)
LEMMA AnsweredStep ==
  ASSUME IInv, NEW h \in Handlers,
         WithdrawTooLate(h) \/ SaveRefused(h) \/ CancelRefused(h) \/ Abort(h)
  PROVE  IInv'
<1>1. /\ UNCHANGED <<clock, event, coordinator, regs, nextSeq, notified>>
      /\ \E reply \in Reply : Answer(h, reply)
  BY DEF WithdrawTooLate, SaveRefused, CancelRefused, Abort, Reply
<1>2. req' \in [Handlers -> Request]
  BY <1>1, AnswerType DEF IInv
<1>3. clock \in Int
  BY BoundsAssumption DEF IInv, TypeOK, Time
<1> QED
  BY <1>1, <1>2, <1>3, RowsKept DEF IInv, TypeOK

(* Register counts the places behind the lock, so one more place fits. *)
LEMMA RegisterStep == ASSUME IInv, NEW a \in Attendees, Register(a) PROVE IInv'
<1>1. /\ regs \in Rows /\ event.capacity \in Nat /\ clock \in Nat
      /\ Sound(regs, event) /\ event.status = "Confirmed"
  BY IInvParts, BoundsAssumption DEF TypeOK, Rows, EventRow, Time, Register, RegistrationOpen
<1>2. Row("Registered") \in RegRow /\ Row("Registered").status = "Registered"
  BY RowType DEF RowStatus
<1>3. /\ regs' = [regs EXCEPT ![a] = Row("Registered")]
      /\ Taken(regs) < event.capacity
      /\ UNCHANGED <<clock, event, coordinator, nextSeq, notified, req>>
  BY DEF Register
<1>4. a \notin Registered(regs) /\ a \notin Waiting(regs)
  BY DEF Register, Registered, Waiting, InStatus
<1>5. /\ Registered(regs') = Registered(regs) \cup {a}
      /\ Waiting(regs') = Waiting(regs)
      /\ Quiet(regs, regs')
  BY <1>1, <1>2, <1>3, <1>4 DEF Rows, Quiet, Registered, Waiting, InStatus
<1>6. IsFiniteSet(Registered(regs)) /\ Taken(regs) \in Nat
  BY StatusFinite DEF Registered, Taken
<1>7. Taken(regs') = Taken(regs) + 1
  BY <1>4, <1>5, <1>6, FS_AddElement DEF Taken
<1>8. Sound(regs', event')
  <2>1. event' = event /\ Taken(regs) < event.capacity
    BY <1>3
  <2>2. Waiting(regs') = {}
    BY <2>1, <1>1, <1>5, <1>6 DEF Sound
  <2> QED
    BY <2>1, <2>2, <1>1, <1>6, <1>7 DEF Sound
<1>9. TypeOK'
  BY <1>2, <1>3 DEF IInv, TypeOK
<1> QED
  BY <1>1, <1>3, <1>5, <1>8, <1>9, Preserved

(* A list that registration is open for is not due. *)
LEMMA OpenIsNotDue ==
  ASSUME NEW e, NEW now \in Int, NEW r, RegistrationOpen(e, now),
         e.closes \in Time \cup {NoTime}
  PROVE  SettleLocked(r, e, now) = r
BY BoundsAssumption DEF RegistrationOpen, SettleLocked, DueWaitlist, Time

(* A join happens while every place is taken and goes behind all others: its   *)
(* number is the next of the sequence and its time is the present.             *)
LEMMA JoinStep == ASSUME IInv, NEW a \in Attendees, JoinWaitlist(a) PROVE IInv'
<1> DEFINE entry == [status |-> "Waitlisted", joinedAt |-> clock, seq |-> nextSeq]
<1>1. /\ regs \in Rows /\ event.capacity \in Nat /\ clock \in Time /\ clock \in Nat
      /\ nextSeq \in 1 .. MaxJoins + 1 /\ event.closes \in Time \cup {NoTime}
      /\ event.status = "Confirmed"
  BY BoundsAssumption DEF IInv, TypeOK, Rows, EventRow, Time, JoinWaitlist, RegistrationOpen
<1>2. Sound(regs, event) /\ Orderly(regs, nextSeq, clock) /\ Told(regs, notified)
  BY IInvParts
<1>3. SettleLocked(regs, event, clock) = regs
  BY <1>1, OpenIsNotDue DEF JoinWaitlist
<1>4. /\ regs' = [regs EXCEPT ![a] = entry]
      /\ regs[a].status \in {"None", "Withdrawn", "Removed", "Cancelled"}
      /\ Taken(regs) >= event.capacity
      /\ nextSeq <= MaxJoins /\ nextSeq' = nextSeq + 1
      /\ UNCHANGED <<clock, event, coordinator, notified, req>>
  BY <1>3 DEF JoinWaitlist
<1>5. entry \in RegRow
  BY <1>1, <1>4, BoundsAssumption DEF RegRow, RowStatus
<1>6. TypeOK'
  BY <1>1, <1>4, <1>5, BoundsAssumption DEF IInv, TypeOK
<1>7. /\ Registered(regs') = Registered(regs)
      /\ Waiting(regs') = Waiting(regs) \cup {a}
      /\ a \notin Waiting(regs)
      /\ InStatus(regs', "Cancelled") \subseteq InStatus(regs, "Cancelled")
  BY <1>1, <1>4 DEF Rows, Registered, Waiting, InStatus
<1>8. Sound(regs', event')
  BY <1>2, <1>1, <1>4, <1>7 DEF Sound, Taken
<1>9. Told(regs', notified')
  BY <1>2, <1>4, <1>7 DEF Told, InStatus
<1>10. Orderly(regs', nextSeq', clock')
  <2>1. \A b \in Waiting(regs) :
          /\ regs'[b] = regs[b]
          /\ regs[b].seq \in Nat /\ regs[b].joinedAt \in Nat
          /\ regs[b].seq < nextSeq /\ regs[b].joinedAt <= clock
    BY <1>1, <1>2, <1>4, <1>7, BoundsAssumption
       DEF Rows, RegRow, Time, Waiting, InStatus, Orderly
  <2>2. regs'[a].seq = nextSeq /\ regs'[a].joinedAt = clock
    BY <1>1, <1>4 DEF Rows
  <2>3. nextSeq \in Nat
    BY <1>1
  <2>4. \A b \in Waiting(regs') : regs'[b].seq < nextSeq' /\ regs'[b].joinedAt <= clock'
    <3>1. nextSeq' = nextSeq + 1 /\ clock' = clock /\ clock \in Nat
      BY <1>1, <1>4
    <3> QED
      BY <3>1, <1>7, <2>1, <2>2, <2>3
  <2>5. ASSUME NEW b \in Waiting(regs'), NEW c \in Waiting(regs')
        PROVE  /\ b # c => regs'[b].seq # regs'[c].seq
               /\ regs'[b].seq < regs'[c].seq => regs'[b].joinedAt <= regs'[c].joinedAt
    BY <1>1, <1>2, <1>7, <2>1, <2>2, <2>3 DEF Orderly
  <2> QED
    BY <2>4, <2>5 DEF Orderly
<1> QED
  BY <1>6, <1>8, <1>9, <1>10 DEF IInv, Sound, Orderly, Told, CapacityRespected,
     WaitingImpliesFull, Taken, CancelledEventIsEmpty, CancelledAreTold, ServedInOrderOfArrival,
     ArrivalsBehind, Waiting, Registered, InStatus

-----------------------------------------------------------------------------
(* Handlers behind the lock that write rows and nothing else of the event *)

(* What such a handler has to show of the rows it writes. *)
LEMMA RowsWritten ==
  ASSUME IInv, NEW h \in Handlers, NEW reply \in Reply, Answer(h, reply),
         UNCHANGED <<clock, event, coordinator, nextSeq, notified>>,
         regs' \in Rows, Quiet(regs, regs'), Sound(regs', event)
  PROVE  IInv'
<1>1. req' \in [Handlers -> Request] /\ clock \in Int
  BY AnswerType, BoundsAssumption DEF IInv, TypeOK, Time
<1>2. TypeOK'
  BY <1>1 DEF IInv, TypeOK, Rows
<1> QED
  BY <1>1, <1>2, Preserved DEF Sound

(* A refused withdrawal keeps the settled list. *)
LEMMA WithdrawRefusedStep == ASSUME IInv, NEW h \in Handlers, WithdrawRefused(h) PROVE IInv'
<1>1. regs' = Decided(req[h]) /\ UNCHANGED <<clock, event, coordinator, nextSeq, notified>>
  BY DEF WithdrawRefused
<1>2. PICK reply \in Reply : Answer(h, reply)
  BY DEF WithdrawRefused, Refusal, Reply
<1>3. regs' \in Rows /\ Sound(regs', event) /\ Quiet(regs, regs')
  BY <1>1, DecidedFacts
<1> QED
  BY <1>1, <1>2, <1>3, RowsWritten

(* The settle of a read is the settle of any other handler. *)
LEMMA SettleStep == ASSUME IInv, NEW h \in Handlers, SettleIfDue(h) PROVE IInv'
<1>1. /\ regs' = SettleLocked(regs, event, req[h].now)
      /\ Answer(h, "ok") /\ "ok" \in Reply
      /\ UNCHANGED <<clock, event, coordinator, nextSeq, notified>>
  BY DEF SettleIfDue, Reply
<1>2. regs \in Rows /\ Sound(regs, event)
  BY IInvParts DEF TypeOK, Rows
<1>3. regs' \in Rows /\ Sound(regs', event) /\ Quiet(regs, regs')
  BY <1>1, <1>2, SettleFacts, SettleSound
<1> QED
  BY <1>1, <1>3, RowsWritten

(* A waiting entry that leaves frees no place. *)
LEMMA LeaveStep == ASSUME IInv, NEW h \in Handlers, LeaveWaitlist(h) PROVE IInv'
<1> DEFINE d == Decided(req[h])
           a == req[h].who
<1>1. /\ regs' = [d EXCEPT ![a] = Row("Withdrawn")] /\ d[a].status = "Waitlisted"
      /\ Answer(h, "ok") /\ "ok" \in Reply /\ req[h].op = "withdraw"
      /\ UNCHANGED <<clock, event, coordinator, nextSeq, notified>>
  BY DEF LeaveWaitlist, Reply
<1>2. a \in Attendees
  BY <1>1 DEF IInv, TypeOK, Request
<1>3. d \in Rows /\ Sound(d, event) /\ Quiet(regs, d)
  BY DecidedFacts
<1>4. /\ regs' \in Rows /\ Quiet(d, regs') /\ NoNewcomer(d, regs')
      /\ Registered(regs') = Registered(d) \ {a} /\ Waiting(regs') = Waiting(d) \ {a}
  BY <1>1, <1>2, <1>3, WithdrawnFacts
<1>5. Registered(regs') = Registered(d)
  BY <1>1, <1>4 DEF Registered, InStatus
<1>6. Sound(regs', event)
  BY <1>3, <1>4, <1>5 DEF Sound, Taken, NoNewcomer
<1>7. Quiet(regs, regs')
  BY <1>3, <1>4, Compose
<1> QED
  BY <1>1, <1>4, <1>6, <1>7, RowsWritten

(* A registered attendee who leaves frees one place, which is handed on at once. *)
LEMMA ReleaseStep == ASSUME IInv, NEW h \in Handlers, ReleasePlace(h) PROVE IInv'
<1> DEFINE d == Decided(req[h])
           a == req[h].who
           w == [d EXCEPT ![a] = Row("Withdrawn")]
<1>1. /\ regs' \in FillFreeSpots(w, event, req[h].now)
      /\ Answer(h, "ok") /\ "ok" \in Reply /\ req[h].op = "withdraw"
      /\ UNCHANGED <<clock, event, coordinator, nextSeq, notified>>
  BY DEF ReleasePlace, Reply
<1>2. a \in Attendees /\ event.capacity \in Nat
  BY <1>1, BoundsAssumption DEF IInv, TypeOK, Request, EventRow
<1>3. d \in Rows /\ Sound(d, event) /\ Quiet(regs, d)
  BY DecidedFacts
<1>4. /\ w \in Rows /\ Quiet(d, w) /\ NoNewcomer(d, w)
      /\ Registered(w) = Registered(d) \ {a}
  BY <1>2, <1>3, WithdrawnFacts
<1>5. Taken(w) <= event.capacity
  <2>1. /\ IsFiniteSet(Registered(d)) /\ Taken(d) \in Nat /\ Taken(w) \in Nat
    BY StatusFinite DEF Registered, Taken
  <2>2. Taken(w) <= Taken(d)
    BY <1>4, <2>1, FS_Subset DEF Taken
  <2> QED
    BY <1>2, <1>3, <2>1, <2>2 DEF Sound
<1>6. /\ regs' \in Rows /\ Taken(regs') <= event.capacity
      /\ Waiting(regs') # {} => Taken(regs') >= event.capacity
      /\ Quiet(w, regs') /\ NoNewcomer(w, regs')
  BY <1>1, <1>2, <1>4, <1>5, FillFacts
<1>7. Sound(regs', event)
  BY <1>3, <1>4, <1>6 DEF Sound, NoNewcomer
<1>8. Quiet(regs, regs')
  BY <1>3, <1>4, <1>6, Compose
<1> QED
  BY <1>1, <1>6, <1>7, <1>8, RowsWritten

(* A save settles the list under the old settings and again under the new, and *)
(* fills the places that a larger capacity adds.                               *)
LEMMA SaveStep == ASSUME IInv, NEW h \in Handlers, SaveSettings(h) PROVE IInv'
<1> DEFINE old == SettleLocked(regs, event, clock)
<1>1. /\ req[h].op = "save" /\ Configurable(event) /\ req[h].version = event.version
      /\ Answer(h, "ok") /\ "ok" \in Reply
      /\ UNCHANGED <<clock, coordinator, nextSeq, notified>>
  BY DEF SaveSettings, Reply
<1>2. PICK p \in Patches :
        LET new == Patched(event, p)
            settled == SettleLocked(old, new, clock)
        IN  /\ ValidSettings(new, p, Taken(old))
            /\ event' = [new EXCEPT !.version = @ + 1]
            /\ IF new.capacity > event.capacity
               THEN regs' \in FillFreeSpots(settled, new, clock)
               ELSE regs' = settled
  BY DEF SaveSettings
<1> DEFINE new == Patched(event, p)
           settled == SettleLocked(old, new, clock)
<1> HIDE DEF new
<1>3. /\ new \in EventRow /\ new.status = event.status /\ new.version = event.version
      /\ new.capacity >= Taken(old)
  BY <1>2, PatchedType DEF new, IInv
<1>4. /\ regs \in Rows /\ Sound(regs, event) /\ event \in EventRow
      /\ event.capacity \in Nat /\ new.capacity \in Nat
  BY <1>3, IInvParts, BoundsAssumption DEF TypeOK, Rows, EventRow
<1>5. event' = [new EXCEPT !.version = @ + 1]
  BY <1>2 DEF new
<1>6. event' \in EventRow /\ event'.capacity = new.capacity /\ event'.status # "Cancelled"
  <2>1. req[h].version \in 0 .. MaxSaves - 1
    BY <1>1 DEF IInv, TypeOK, Request
  <2>2. event.version + 1 \in 0 .. MaxSaves
    BY <1>1, <2>1, BoundsAssumption
  <2> QED
    BY <1>1, <1>3, <1>5, <2>2 DEF EventRow, Configurable
<1>7. /\ old \in Rows /\ settled \in Rows
      /\ Quiet(regs, old) /\ Quiet(old, settled)
      /\ Registered(settled) = Registered(regs) /\ Registered(old) = Registered(regs)
      /\ Waiting(settled) = {} \/ settled = regs
  BY <1>4, SettleFacts DEF Quiet
<1>8. Quiet(regs, settled) /\ Taken(settled) = Taken(regs) /\ Taken(settled) <= new.capacity
  <2>1. Taken(old) = Taken(regs) /\ Taken(settled) = Taken(regs)
    BY <1>7 DEF Taken
  <2>2. Taken(regs) \in Nat
    BY StatusFinite DEF Taken, Registered
  <2> QED
    BY <1>3, <1>4, <1>7, <2>1, <2>2, Compose
<1>9. /\ regs' \in Rows /\ Quiet(regs, regs')
      /\ Taken(regs') <= new.capacity
      /\ Waiting(regs') # {} => Taken(regs') >= new.capacity
  <2>1. CASE new.capacity > event.capacity
    <3>1. regs' \in FillFreeSpots(settled, new, clock)
      BY <1>2, <2>1 DEF new
    <3>2. /\ regs' \in Rows /\ Quiet(settled, regs')
          /\ Taken(regs') <= new.capacity
          /\ Waiting(regs') # {} => Taken(regs') >= new.capacity
      BY <1>4, <1>7, <1>8, <3>1, FillFacts
    <3> QED
      BY <1>8, <3>2, Compose
  <2>2. CASE ~(new.capacity > event.capacity)
    <3>1. regs' = settled
      BY <1>2, <2>2 DEF new
    <3>2. Waiting(regs') # {} => Taken(regs') >= new.capacity
      <4>1. Taken(regs) \in Nat
        BY StatusFinite DEF Taken, Registered
      <4> QED
        BY <1>4, <1>7, <1>8, <2>2, <3>1, <4>1 DEF Sound
    <3> QED
      BY <1>7, <1>8, <3>1, <3>2
  <2> QED
    BY <2>1, <2>2
<1>10. req' \in [Handlers -> Request]
  BY <1>1, AnswerType DEF IInv
<1>11. TypeOK'
  BY <1>1, <1>6, <1>9, <1>10 DEF IInv, TypeOK, Rows
<1>12. clock <= clock'
  BY <1>1, BoundsAssumption DEF IInv, TypeOK, Time
<1>13. Sound(regs', event')
  BY <1>6, <1>9 DEF Sound
<1> QED
  BY <1>1, <1>9, <1>11, <1>12, <1>13, Preserved

(* A cancellation ends every active row and tells whoever it cancelled.        *)
LEMMA CancelInsideFacts ==
  ASSUME IInv, NEW now, NEW skipped \in SUBSET {Organiser}, CancelInside(now, skipped),
         UNCHANGED <<clock, coordinator, nextSeq>>, req' \in [Handlers -> Request]
  PROVE  IInv'
<1> DEFINE registered == CancelRows(regs, "Registered")
           settled == SettleLocked(registered, event, now)
<1>1. /\ event' = [event EXCEPT !.status = "Cancelled"]
      /\ regs' = CancelRows(settled, "Waitlisted")
      /\ notified' = notified \cup (({Organiser, coordinator} \cup Registered(regs)) \ skipped)
                        \cup Waiting(settled)
  BY DEF CancelInside
<1>2. /\ regs \in Rows /\ event \in EventRow /\ coordinator \in Coordinators
      /\ notified \subseteq Attendees \cup Coordinators \cup {Organiser}
      /\ Told(regs, notified) /\ event.capacity \in Nat
  BY IInvParts, BoundsAssumption DEF TypeOK, Rows, EventRow
<1>3. Row("Cancelled") \in RegRow /\ Row("Cancelled").status = "Cancelled"
  BY RowType DEF RowStatus
<1>4. /\ registered \in Rows
      /\ Registered(registered) = {}
      /\ InStatus(registered, "Cancelled") = InStatus(regs, "Cancelled") \cup Registered(regs)
  BY <1>2, <1>3 DEF CancelRows, Rows, Registered, InStatus
<1>5. /\ settled \in Rows /\ Registered(settled) = {} /\ Quiet(registered, settled)
  BY <1>4, SettleFacts
<1> HIDE DEF settled
<1>6. /\ regs' \in Rows /\ Registered(regs') = {} /\ Waiting(regs') = {}
      /\ InStatus(regs', "Cancelled") = InStatus(settled, "Cancelled") \cup Waiting(settled)
  BY <1>1, <1>3, <1>5 DEF CancelRows, Rows, Registered, Waiting, InStatus
<1>7. InStatus(regs', "Cancelled")
        \subseteq InStatus(regs, "Cancelled") \cup Registered(regs) \cup Waiting(settled)
  BY <1>4, <1>5, <1>6 DEF Quiet
<1>8. Told(regs', notified')
  BY <1>1, <1>2, <1>7 DEF Told, InStatus
<1>9. event' \in EventRow /\ event'.capacity = event.capacity
  BY <1>1, <1>2 DEF EventRow, EventStatus
<1>10. Sound(regs', event')
  <2>1. Taken(regs') = 0
    BY <1>6, FS_EmptySet DEF Taken
  <2> QED
    BY <1>2, <1>6, <1>9, <2>1 DEF Sound
<1>11. Orderly(regs', nextSeq', clock')
  BY <1>6 DEF Orderly
<1>12. TypeOK'
  <2>1. notified' \subseteq Attendees \cup Coordinators \cup {Organiser}
    BY <1>1, <1>2 DEF Registered, Waiting, InStatus
  <2>2. regs' \in [Attendees -> RegRow]
    BY <1>6 DEF Rows
  <2> QED
    BY <1>9, <2>1, <2>2 DEF IInv, TypeOK
<1> QED
  BY <1>8, <1>10, <1>11, <1>12 DEF IInv, Sound, Orderly, Told, CapacityRespected,
     WaitingImpliesFull, Taken, CancelledEventIsEmpty, CancelledAreTold, ServedInOrderOfArrival,
     ArrivalsBehind, Waiting, Registered, InStatus

(* Both ways to cancel. *)
LEMMA CancelStep ==
  ASSUME IInv, AcceptCancellationRequest \/ \E h \in Handlers : CancelEvent(h)
  PROVE  IInv'
<1>1. CASE AcceptCancellationRequest
  <2>1. /\ CancelInside(clock, {Organiser}) /\ UNCHANGED <<clock, coordinator, nextSeq, req>>
    BY <1>1 DEF AcceptCancellationRequest
  <2>2. req' \in [Handlers -> Request]
    BY <2>1 DEF IInv, TypeOK
  <2> QED
    BY <2>1, <2>2, CancelInsideFacts
<1>2. CASE \E h \in Handlers : CancelEvent(h)
  <2>1. PICK h \in Handlers : CancelEvent(h)
    BY <1>2
  <2>2. /\ CancelInside(req[h].now, {}) /\ Answer(h, "ok") /\ "ok" \in Reply
        /\ UNCHANGED <<clock, coordinator, nextSeq>>
    BY <2>1 DEF CancelEvent, Reply
  <2>3. req' \in [Handlers -> Request]
    BY <2>2, AnswerType DEF IInv
  <2> QED
    BY <2>2, <2>3, CancelInsideFacts
<1> QED
  BY <1>1, <1>2

-----------------------------------------------------------------------------
(* The theorems *)

(* Every step keeps the invariant. *)
LEMMA NextInvariant == IInv /\ [Next]_vars => IInv'
<1> SUFFICES ASSUME IInv, [Next]_vars PROVE IInv'
  OBVIOUS
<1>1. CASE Tick
  BY <1>1, TickStep
<1>2. CASE Confirm \/ Complete \/ (\E s \in Starts : Reschedule(s))
             \/ (\E c \in Coordinators : Reassign(c))
  BY <1>2, LifeStep
<1>3. CASE AcceptCancellationRequest \/ \E h \in Handlers : CancelEvent(h)
  BY <1>3, CancelStep
<1>4. ASSUME NEW a \in Attendees, Register(a) \/ JoinWaitlist(a) PROVE IInv'
  BY <1>4, RegisterStep, JoinStep
<1>5. ASSUME NEW h \in Handlers,
             \/ \E a \in Attendees : WithdrawRead(h, a)
             \/ FindMineRead(h) \/ SettingsRead(h) \/ CancelRead(h)
      PROVE  IInv'
  BY <1>5, ReadStep
<1>6. ASSUME NEW h \in Handlers,
             WithdrawTooLate(h) \/ SaveRefused(h) \/ CancelRefused(h) \/ Abort(h)
      PROVE  IInv'
  BY <1>6, AnsweredStep
<1>7. ASSUME NEW h \in Handlers,
             WithdrawRefused(h) \/ LeaveWaitlist(h) \/ ReleasePlace(h) \/ SettleIfDue(h)
      PROVE  IInv'
  BY <1>7, WithdrawRefusedStep, LeaveStep, ReleaseStep, SettleStep
<1>8. ASSUME NEW h \in Handlers, SaveSettings(h) PROVE IInv'
  BY <1>8, SaveStep
<1>9. CASE UNCHANGED vars
  BY <1>9 DEF vars, IInv, TypeOK, CapacityRespected, WaitingImpliesFull, CancelledEventIsEmpty,
     CancelledAreTold, ServedInOrderOfArrival, ArrivalsBehind, Taken, Registered, Waiting, InStatus
<1> QED
  BY <1>1, <1>2, <1>3, <1>4, <1>5, <1>6, <1>7, <1>8, <1>9 DEF Next, Locked, Withdraw

(* The inductive invariant holds in every reachable state. *)
THEOREM Invariance == Spec => []IInv
BY InitInvariant, NextInvariant, PTL DEF Spec

(* Every value the handlers store has the type of its column. *)
THEOREM TypeCorrect == Spec => []TypeOK
<1>1. IInv => TypeOK
  BY DEF IInv
<1> QED
  BY <1>1, Invariance, PTL

(* An event is never over-registered, whatever its settings go through. *)
THEOREM CapacityAlwaysRespected == Spec => []CapacityRespected
<1>1. IInv => CapacityRespected
  BY DEF IInv
<1> QED
  BY <1>1, Invariance, PTL

(* Nobody waits beside a free place. *)
THEOREM NobodyWaitsBesideAFreePlace == Spec => []WaitingImpliesFull
<1>1. IInv => WaitingImpliesFull
  BY DEF IInv
<1> QED
  BY <1>1, Invariance, PTL

(* The list is served in the order of arrival. *)
THEOREM OrderOfArrival == Spec => []ServedInOrderOfArrival
<1>1. IInv => ServedInOrderOfArrival
  BY DEF IInv
<1> QED
  BY <1>1, Invariance, PTL

(* A cancelled event keeps nobody, and no late handler brings anybody back. *)
THEOREM CancelledEventStaysEmpty == Spec => []CancelledEventIsEmpty
<1>1. IInv => CancelledEventIsEmpty
  BY DEF IInv
<1> QED
  BY <1>1, Invariance, PTL

(* Whoever the cancellation ended was told. *)
THEOREM EverybodyCancelledIsTold == Spec => []CancelledAreTold
<1>1. IInv => CancelledAreTold
  BY DEF IInv
<1> QED
  BY <1>1, Invariance, PTL

-----------------------------------------------------------------------------
(* Gone entries *)

(* Behind the lock, a handler that serves a withdrawal makes nobody active.    *)
LEMMA WithdrawNewcomers ==
  ASSUME IInv, NEW h \in Handlers, Withdraw(h) \/ SettleIfDue(h)
  PROVE  NoNewcomer(regs, regs')
<1> DEFINE d == Decided(req[h])
           a == req[h].who
           w == [d EXCEPT ![a] = Row("Withdrawn")]
<1>1. /\ d \in Rows /\ Sound(d, event) /\ NoNewcomer(regs, d) /\ regs \in Rows
      /\ event.capacity \in Nat
  BY DecidedFacts, BoundsAssumption DEF IInv, TypeOK, Rows, EventRow
<1>2. CASE WithdrawRefused(h)
  BY <1>1, <1>2 DEF WithdrawRefused
<1>3. CASE WithdrawTooLate(h)
  BY <1>3 DEF WithdrawTooLate, NoNewcomer
<1>4. CASE SettleIfDue(h)
  BY <1>1, <1>4, SettleFacts DEF SettleIfDue
<1>5. CASE LeaveWaitlist(h) \/ ReleasePlace(h)
  <2>1. req[h].op = "withdraw"
    BY <1>5 DEF LeaveWaitlist, ReleasePlace
  <2>2. a \in Attendees
    BY <2>1 DEF IInv, TypeOK, Request
  <2>3. /\ w \in Rows /\ NoNewcomer(d, w) /\ Registered(w) = Registered(d) \ {a}
    BY <1>1, <2>2, WithdrawnFacts
  <2>4. CASE LeaveWaitlist(h)
    BY <1>1, <2>3, <2>4, Compose DEF LeaveWaitlist
  <2>5. CASE ReleasePlace(h)
    <3>1. /\ IsFiniteSet(Registered(d)) /\ Taken(d) \in Nat /\ Taken(w) \in Nat
      BY StatusFinite DEF Registered, Taken
    <3>2. Taken(w) <= Taken(d)
      BY <2>3, <3>1, FS_Subset DEF Taken
    <3>3. Taken(w) <= event.capacity
      BY <1>1, <3>1, <3>2 DEF Sound
    <3>4. regs' \in FillFreeSpots(w, event, req[h].now)
      BY <2>5 DEF ReleasePlace
    <3>5. NoNewcomer(w, regs')
      BY <1>1, <2>3, <3>3, <3>4, FillFacts
    <3> QED
      BY <1>1, <2>3, <3>5, Compose
  <2> QED
    BY <1>5, <2>4, <2>5
<1> QED
  BY <1>2, <1>3, <1>4, <1>5 DEF Withdraw

(* A save, also one that opens the registration again, makes nobody active.    *)
LEMMA SaveNewcomers ==
  ASSUME IInv, NEW h \in Handlers, SaveSettings(h)
  PROVE  NoNewcomer(regs, regs')
<1> DEFINE old == SettleLocked(regs, event, clock)
<1>1. PICK p \in Patches :
        LET new == Patched(event, p)
            settled == SettleLocked(old, new, clock)
        IN  /\ ValidSettings(new, p, Taken(old))
            /\ IF new.capacity > event.capacity
               THEN regs' \in FillFreeSpots(settled, new, clock)
               ELSE regs' = settled
  BY DEF SaveSettings
<1> DEFINE new == Patched(event, p)
           settled == SettleLocked(old, new, clock)
<1> HIDE DEF new
<1>2. new \in EventRow /\ new.capacity >= Taken(old)
  BY <1>1, PatchedType DEF new, IInv
<1>3. regs \in Rows /\ new.capacity \in Nat
  BY <1>2, BoundsAssumption DEF IInv, TypeOK, Rows, EventRow
<1>4. /\ old \in Rows /\ settled \in Rows
      /\ NoNewcomer(regs, old) /\ NoNewcomer(old, settled)
      /\ Registered(settled) = Registered(old)
  BY <1>3, SettleFacts
<1>5. NoNewcomer(regs, settled)
  BY <1>4, Compose
<1>6. CASE regs' = settled
  BY <1>5, <1>6
<1>7. CASE regs' \in FillFreeSpots(settled, new, clock)
  <2>1. Taken(settled) <= new.capacity
    <3>1. Taken(old) \in Nat /\ Taken(settled) = Taken(old)
      BY <1>4, StatusFinite DEF Taken, Registered
    <3> QED
      BY <1>2, <1>3, <3>1
  <2>2. NoNewcomer(settled, regs')
    BY <1>3, <1>4, <1>7, <2>1, FillFacts
  <2> QED
    BY <1>5, <2>2, Compose
<1> QED
  BY <1>1, <1>6, <1>7 DEF new

(* After a cancellation nobody is active.                                      *)
LEMMA CancelNewcomers ==
  ASSUME IInv, NEW now, NEW skipped, CancelInside(now, skipped)
  PROVE  NoNewcomer(regs, regs')
<1> DEFINE registered == CancelRows(regs, "Registered")
           settled == SettleLocked(registered, event, now)
<1>1. regs \in Rows /\ regs' = CancelRows(settled, "Waitlisted")
  BY DEF CancelInside, IInv, TypeOK, Rows
<1>2. Row("Cancelled") \in RegRow /\ Row("Cancelled").status = "Cancelled"
  BY RowType DEF RowStatus
<1>3. registered \in Rows /\ Registered(registered) = {}
  BY <1>1, <1>2 DEF CancelRows, Rows, Registered, InStatus
<1>4. settled \in Rows /\ Registered(settled) = {}
  BY <1>3, SettleFacts
<1> HIDE DEF settled
<1>5. Registered(regs') = {} /\ Waiting(regs') = {}
  BY <1>1, <1>2, <1>4 DEF CancelRows, Rows, Registered, Waiting, InStatus
<1> QED
  BY <1>5 DEF NoNewcomer

(* Only a registration or a join of one's own, while registration is open,     *)
(* makes an entry active that was withdrawn, removed or cancelled.             *)
THEOREM GoneStaysGoneAlways == Spec => GoneStaysGone
<1> DEFINE Kept == \A a \in Attendees :
                     /\ regs[a].status \in {"Withdrawn", "Removed", "Cancelled"}
                     /\ regs'[a].status \in {"Registered", "Waitlisted"}
                     => RegistrationOpen(event, clock) /\ req' = req
<1>1. IInv /\ [Next]_vars => [Kept]_vars
  <2> SUFFICES ASSUME IInv, Next PROVE Kept
    OBVIOUS
  <2>1. CASE \E a \in Attendees : Register(a) \/ JoinWaitlist(a)
    BY <2>1 DEF Register, JoinWaitlist
  <2>2. ASSUME NoNewcomer(regs, regs') PROVE Kept
    BY <2>2 DEF NoNewcomer, Registered, Waiting, InStatus
  <2>3. ASSUME UNCHANGED regs PROVE NoNewcomer(regs, regs')
    BY <2>3 DEF NoNewcomer
  <2>4. CASE Tick \/ Confirm \/ Complete \/ (\E s \in Starts : Reschedule(s))
              \/ (\E c \in Coordinators : Reassign(c))
    BY <2>2, <2>3, <2>4 DEF Tick, Confirm, Complete, Reschedule, Reassign
  <2>5. CASE AcceptCancellationRequest
    BY <2>2, <2>5, CancelNewcomers DEF AcceptCancellationRequest
  <2>6. ASSUME NEW h \in Handlers,
               \/ \E a \in Attendees : WithdrawRead(h, a)
               \/ FindMineRead(h) \/ SettingsRead(h) \/ CancelRead(h)
               \/ SaveRefused(h) \/ CancelRefused(h) \/ Abort(h)
        PROVE  Kept
    BY <2>2, <2>3, <2>6 DEF WithdrawRead, FindMineRead, SettingsRead, CancelRead,
       SaveRefused, CancelRefused, Abort
  <2>7. ASSUME NEW h \in Handlers, Withdraw(h) \/ SettleIfDue(h) PROVE Kept
    BY <2>2, <2>7, WithdrawNewcomers
  <2>8. ASSUME NEW h \in Handlers, SaveSettings(h) PROVE Kept
    BY <2>2, <2>8, SaveNewcomers
  <2>9. ASSUME NEW h \in Handlers, CancelEvent(h) PROVE Kept
    BY <2>2, <2>9, CancelNewcomers DEF CancelEvent
  <2> QED
    BY <2>1, <2>4, <2>5, <2>6, <2>7, <2>8, <2>9 DEF Next, Locked
<1> QED
  BY <1>1, Invariance, PTL DEF Spec, GoneStaysGone

-----------------------------------------------------------------------------
(* Answers to withdrawals *)

(* An answer is given to one handler and leaves the others' requests alone. *)
LEMMA AnswerOne ==
  ASSUME IInv, NEW h \in Handlers, NEW k \in Handlers, NEW reply, Answer(k, reply),
         req'[h] # req[h]
  PROVE  k = h /\ req'[h].reply = reply
BY DEF Answer, IInv, TypeOK

(* A promotion leaves whoever is not waiting as they are. *)
LEMMA FillSpares ==
  ASSUME NEW r \in Rows, NEW e, NEW now, NEW r2 \in FillFreeSpots(r, e, now), NEW a \in Attendees,
         a \notin Waiting(r)
  PROVE  r2[a] = r[a]
<1> DEFINE s == SettleLocked(r, e, now)
<1>1. s[a] = r[a] /\ a \notin Waiting(s)
  BY SettleFacts DEF Quiet
<1>2. PICK P \in Earliest(s, Promotable(s, e)) :
        r2 = [b \in Attendees |-> IF b \in P THEN Row("Registered") ELSE s[b]]
  BY DEF FillFreeSpots
<1>3. a \notin P
  BY <1>1, <1>2 DEF Earliest
<1> QED
  BY <1>1, <1>2, <1>3

(* What a withdrawal decides on says of an active entry what its row says. *)
LEMMA DecidedTruly ==
  ASSUME IInv, NEW h \in Handlers, req[h].op = "withdraw"
  PROVE  LET a == req[h].who
             d == Decided(req[h])
         IN  /\ a \in Attendees /\ d \in Rows
             /\ d[a].status \in {"Registered", "Waitlisted"} => regs[a].status = d[a].status
             /\ d[a].status = "Withdrawn" => regs[a].status = "Withdrawn"
<1> DEFINE a == req[h].who
           s == SettleLocked(regs, event, req[h].now)
<1>1. a \in Attendees
  BY DEF IInv, TypeOK, Request
<1>2. regs \in Rows
  BY DEF IInv, TypeOK, Rows
<1>3. Row("Removed").status = "Removed"
  BY RowType DEF RowStatus
<1>4. s \in Rows /\ (s[a] = regs[a] \/ s[a].status = "Removed")
  <2>1. s[a] = regs[a] \/ s[a].status = "Removed"
    BY <1>1, <1>3 DEF SettleLocked
  <2> QED
    BY <1>2, <2>1, SettleFacts
<1>5. Decided(req[h]) \in {s, regs}
  BY DEF Decided
<1> QED
  BY <1>1, <1>2, <1>4, <1>5

(* A withdrawal is reported as done exactly when it ended an active row. *)
THEOREM WithdrawalAlwaysAnsweredTruly == Spec => WithdrawalAnsweredTruly
<1> DEFINE Truly(h) == req[h].op = "withdraw" /\ req'[h] # req[h]
                       => (req'[h].reply = "ok"
                            <=> /\ regs[req[h].who].status \in {"Registered", "Waitlisted"}
                                /\ regs'[req[h].who].status = "Withdrawn")
<1>1. IInv /\ [Next]_vars => \A h \in Handlers : Truly(h)
  <2> SUFFICES ASSUME IInv, [Next]_vars, NEW h \in Handlers,
                      req[h].op = "withdraw", req'[h] # req[h]
               PROVE  req'[h].reply = "ok"
                        <=> /\ regs[req[h].who].status \in {"Registered", "Waitlisted"}
                            /\ regs'[req[h].who].status = "Withdrawn"
    OBVIOUS
  <2> DEFINE a == req[h].who
             d == Decided(req[h])
  <2>1. /\ a \in Attendees /\ d \in Rows
        /\ d[a].status \in {"Registered", "Waitlisted"} => regs[a].status = d[a].status
        /\ d[a].status = "Withdrawn" => regs[a].status = "Withdrawn"
    BY DecidedTruly
  <2>2. Row("Withdrawn").status = "Withdrawn"
    BY RowType DEF RowStatus
  <2>3. req' # req
    OBVIOUS
  <2>4. CASE WithdrawRefused(h)
    <3>1. req'[h].reply # "ok"
      <4>1. req'[h].reply = Refusal(d[a].status, req[h])
        BY <2>4, AnswerOne DEF WithdrawRefused
      <4> QED
        BY <4>1 DEF Refusal
    <3>2. regs' = d
      BY <2>4 DEF WithdrawRefused
    <3> QED
      BY <2>1, <3>1, <3>2
  <2>5. CASE WithdrawTooLate(h) \/ Abort(h)
    <3>1. req'[h].reply # "ok" /\ regs' = regs
      BY <2>5, AnswerOne DEF WithdrawTooLate, Abort
    <3> QED
      BY <3>1
  <2>6. CASE LeaveWaitlist(h)
    <3>1. req'[h].reply = "ok"
      BY <2>6, AnswerOne DEF LeaveWaitlist
    <3>2. regs'[a].status = "Withdrawn"
      BY <2>1, <2>2, <2>6 DEF LeaveWaitlist, Rows
    <3>3. regs[a].status \in {"Registered", "Waitlisted"}
      BY <2>1, <2>6 DEF LeaveWaitlist
    <3> QED
      BY <3>1, <3>2, <3>3
  <2>7. CASE ReleasePlace(h)
    <3>1. req'[h].reply = "ok"
      BY <2>7, AnswerOne DEF ReleasePlace
    <3> DEFINE w == [d EXCEPT ![a] = Row("Withdrawn")]
    <3>2. w \in Rows /\ w[a].status = "Withdrawn" /\ a \notin Waiting(w)
      BY <2>1, <2>2, WithdrawnFacts DEF Rows
    <3>3. regs' \in FillFreeSpots(w, event, req[h].now)
      BY <2>7 DEF ReleasePlace
    <3> HIDE DEF w
    <3>4. regs'[a] = w[a]
      BY <2>1, <3>2, <3>3, FillSpares
    <3>5. regs[a].status \in {"Registered", "Waitlisted"}
      BY <2>1, <2>7 DEF ReleasePlace
    <3> QED
      BY <3>1, <3>2, <3>4, <3>5
  <2>8. \A k \in Handlers : k # h => ~(Withdraw(k) \/ SettleIfDue(k) \/ SaveSettings(k)
          \/ SaveRefused(k) \/ CancelEvent(k) \/ CancelRefused(k) \/ Abort(k))
    BY AnswerOne DEF Withdraw, WithdrawRefused, WithdrawTooLate, LeaveWaitlist, ReleasePlace,
       SettleIfDue, SaveSettings, SaveRefused, CancelEvent, CancelRefused, Abort
  <2>9. ~(SettleIfDue(h) \/ SaveSettings(h) \/ SaveRefused(h) \/ CancelEvent(h) \/ CancelRefused(h))
    BY DEF SettleIfDue, SaveSettings, SaveRefused, CancelEvent, CancelRefused
  <2>10. \A k \in Handlers : ~((\E b \in Attendees : WithdrawRead(k, b)) \/ FindMineRead(k)
           \/ SettingsRead(k) \/ CancelRead(k))
    <3> SUFFICES ASSUME NEW k \in Handlers,
                        (\E b \in Attendees : WithdrawRead(k, b)) \/ FindMineRead(k)
                          \/ SettingsRead(k) \/ CancelRead(k)
                 PROVE  FALSE
      OBVIOUS
    <3>1. Idle(k) /\ \E q : req' = [req EXCEPT ![k] = q]
      BY DEF WithdrawRead, FindMineRead, SettingsRead, CancelRead
    <3>2. k # h
      BY <3>1 DEF Idle
    <3> QED
      BY <3>1, <3>2 DEF IInv, TypeOK
  <2>11. ~(Tick \/ Confirm \/ Complete \/ AcceptCancellationRequest
           \/ (\E s \in Starts : Reschedule(s)) \/ (\E c \in Coordinators : Reassign(c))
           \/ (\E b \in Attendees : Register(b) \/ JoinWaitlist(b)))
    BY <2>3 DEF Tick, Confirm, Complete, AcceptCancellationRequest, Reschedule, Reassign, Register,
       JoinWaitlist
  <2> QED
    BY <2>3, <2>4, <2>5, <2>6, <2>7, <2>8, <2>9, <2>10, <2>11 DEF Next, Locked, Withdraw, vars
<1> QED
  BY <1>1, Invariance, PTL DEF Spec, WithdrawalAnsweredTruly
=============================================================================
