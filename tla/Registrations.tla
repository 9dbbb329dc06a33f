---------------------------- MODULE Registrations ----------------------------
(***************************************************************************)
(* The registrations of one event: direct registration, the waitlist,      *)
(* withdrawal with promotion, the lazy settling of a closed waitlist, the  *)
(* coordinator's registration settings, and the cancellation of the event  *)
(* (backend/src/registrations and backend/src/events/cancel).              *)
(*                                                                         *)
(* Every writer locks the event row (SELECT ... FOR UPDATE) and holds it   *)
(* to COMMIT, so the part of a handler behind that lock is one action. The *)
(* part in front of it is an action of its own: what a handler reads there *)
(* (a status, a start, a version, the time) is kept in req[h] and may be   *)
(* stale when the lock is granted.                                         *)
(*                                                                         *)
(* Abstracted: names, messages and who may call what; the form fields of a *)
(* registration; joined_at and waitlist_seq of a row that is not waiting   *)
(* (no query of the backend reads them); 'Approved' and 'Submitted' are    *)
(* folded into "Planning", which every guard below treats alike once the   *)
(* event can hold registrations.                                           *)
(***************************************************************************)
EXTENDS Integers, FiniteSets

CONSTANTS
  Attendees,      \* users who may register
  Organiser,      \* the submitting organiser
  Coordinators,   \* users the event may be assigned to; the set may meet Attendees
  Handlers,       \* backend requests in flight at one time
  Patches,        \* the settings a coordinator may send, a subset of Patch
  Starts,         \* the instants the event may start at
  Limits,         \* the registration limits an event may be submitted with
  NoTime,         \* a NULL timestamp
  Keep,           \* a field absent from a settings request
  MaxTime,        \* bound: the last instant of the clock
  MaxJoins,       \* bound: how often the waitlist sequence is drawn from
  MaxSaves,       \* bound: saves of the registration settings
  MaxCapacity     \* MAX_REGISTRATION_CAPACITY

Time == 0 .. MaxTime

Patch == [enabled  : BOOLEAN \cup {Keep},
          opens    : Time \cup {Keep},
          closes   : Time \cup {Keep},
          capacity : Nat \cup {Keep}]

ASSUME BoundsAssumption ==
  /\ MaxTime \in Nat /\ MaxJoins \in Nat /\ MaxSaves \in Nat
  /\ MaxCapacity \in Nat \ {0}
ASSUME AttendeesAssumption == IsFiniteSet(Attendees)
ASSUME CoordinatorsAssumption == Coordinators # {}
ASSUME NullAssumption ==
  /\ NoTime \notin Int
  /\ Keep \notin Int \cup BOOLEAN
ASSUME InputsAssumption ==
  Patches \subseteq Patch /\ Starts \subseteq Time /\ Limits \subseteq 1 .. MaxCapacity

VARIABLES
  clock,      \* the injected CLOCK, the same for every handler
  event,      \* the event row
  coordinator,\* events.coordinator_id
  regs,       \* event_registrations of the event, one row per attendee
  nextSeq,    \* event_registrations_waitlist_seq
  notified,   \* the recipients of an EventCancelled notification
  req         \* what each handler in flight read before its row lock

vars == <<clock, event, coordinator, regs, nextSeq, notified, req>>

-----------------------------------------------------------------------------
(* Types *)

EventStatus == {"Planning", "Confirmed", "Completed", "Cancelled"}
RowStatus   == {"None", "Registered", "Waitlisted", "Withdrawn", "Removed", "Cancelled"}
Reply       == {"none", "ok", "refused", "error", "EVENT_CANCELLED", "NOT_WITHDRAWABLE",
                "ALREADY_WITHDRAWN", "EVENT_ALREADY_OCCURRED"}

EventRow == [status : EventStatus, start : Time, enabled : BOOLEAN,
             opens : Time \cup {NoTime}, closes : Time \cup {NoTime},
             capacity : 1 .. MaxCapacity, version : 0 .. MaxSaves]

RegRow == [status : RowStatus, joinedAt : Time, seq : 0 .. MaxJoins]

Request ==
  [op : {"idle"}, reply : Reply]
  \cup [op : {"withdraw"}, who : Attendees, sawStatus : EventStatus, sawStart : Time, now : Time]
  \cup [op : {"settle"}, now : Time]
  \cup [op : {"cancel"}, now : Time, by : Coordinators]
  \cup [op : {"save"}, version : 0 .. MaxSaves - 1, by : Coordinators]

TypeOK ==
  /\ clock \in Time
  /\ event \in EventRow
  /\ coordinator \in Coordinators
  /\ regs \in [Attendees -> RegRow]
  /\ nextSeq \in 1 .. MaxJoins + 1
  /\ notified \subseteq Attendees \cup Coordinators \cup {Organiser}
  /\ req \in [Handlers -> Request]

-----------------------------------------------------------------------------
(* The registration window and the waitlist, as the SQL and the helpers read them *)

Row(status) == [status |-> status, joinedAt |-> 0, seq |-> 0]

InStatus(r, status) == {a \in Attendees : r[a].status = status}
Registered(r) == InStatus(r, "Registered")
Waiting(r)    == InStatus(r, "Waitlisted")
Taken(r)      == Cardinality(Registered(r))

(* Open at the opening instant, closed at the closing instant. *)
RegistrationOpen(e, now) ==
  /\ e.status = "Confirmed"
  /\ e.enabled
  /\ e.opens # NoTime => now >= e.opens
  /\ e.closes # NoTime => now < e.closes

(* The one predicate for a waitlist that is due to be removed. *)
DueWaitlist(e, now) == ~e.enabled \/ (e.closes # NoTime /\ now >= e.closes)

(* A faulty variant: a list that is no longer due is restored. *)
SettleLockedBothWays(r, e, now) ==
  [a \in Attendees |->
     IF DueWaitlist(e, now)
     THEN IF a \in Waiting(r) THEN Row("Removed") ELSE r[a]
     ELSE IF r[a].status = "Removed" THEN Row("Waitlisted") ELSE r[a]]

SettleLocked(r, e, now) ==
  IF DueWaitlist(e, now)
  THEN [a \in Attendees |-> IF a \in Waiting(r) THEN Row("Removed") ELSE r[a]]
  ELSE r

(* ORDER BY joined_at, waitlist_seq *)
Before(r, a, b) ==
  \/ r[a].joinedAt < r[b].joinedAt
  \/ r[a].joinedAt = r[b].joinedAt /\ r[a].seq < r[b].seq

(* A faulty variant: the newest entries first. *)
Latest(r, n) ==
  {P \in SUBSET Waiting(r) :
     /\ Cardinality(P) = n
     /\ \A a \in P, b \in Waiting(r) \ P : Before(r, b, a)}

(* The n earliest waiting entries (one set; none when n exceeds the list). *)
Earliest(r, n) ==
  {P \in SUBSET Waiting(r) :
     /\ Cardinality(P) = n
     /\ \A a \in P, b \in Waiting(r) \ P : Before(r, a, b)}

Promotable(r, e) ==
  LET free  == e.capacity - Taken(r)
      queue == Cardinality(Waiting(r))
  IN  IF free <= 0 THEN 0 ELSE IF free < queue THEN free ELSE queue

(* The rows after a promotion into the free places: a set with one element. *)
FillFreeSpots(r, e, now) ==
  LET s == SettleLocked(r, e, now)
  IN  {[a \in Attendees |-> IF a \in P THEN Row("Registered") ELSE s[a]] :
         P \in Earliest(s, Promotable(s, e))}

-----------------------------------------------------------------------------

Init ==
  /\ clock = 0
  /\ event \in {[status |-> "Planning", start |-> s, enabled |-> FALSE, opens |-> NoTime,
                 closes |-> NoTime, capacity |-> l, version |-> 0] : s \in Starts, l \in Limits}
  /\ coordinator \in Coordinators
  /\ regs = [a \in Attendees |-> Row("None")]
  /\ nextSeq = 1
  /\ notified = {}
  /\ req = [h \in Handlers |-> [op |-> "idle", reply |-> "none"]]

Idle(h) == req[h].op = "idle"
Answer(h, reply) == req' = [req EXCEPT ![h] = [op |-> "idle", reply |-> reply]]

Tick ==
  /\ clock < MaxTime
  /\ clock' = clock + 1
  /\ UNCHANGED <<event, coordinator, regs, nextSeq, notified, req>>

-----------------------------------------------------------------------------
(* Attendees: requests with nothing read before the event row lock *)

(* A faulty variant: the places are not counted again behind the lock. *)
RegisterUncounted(a) ==
  /\ RegistrationOpen(event, clock)
  /\ regs[a].status \in {"None", "Withdrawn", "Removed"}
  /\ regs' = [regs EXCEPT ![a] = Row("Registered")]
  /\ UNCHANGED <<clock, event, coordinator, nextSeq, notified, req>>

Register(a) ==
  /\ RegistrationOpen(event, clock)
  /\ regs[a].status \in {"None", "Withdrawn", "Removed"}
  /\ Taken(regs) < event.capacity
  /\ regs' = [regs EXCEPT ![a] = Row("Registered")]
  /\ UNCHANGED <<clock, event, coordinator, nextSeq, notified, req>>

(* A faulty variant: the number is not drawn from the sequence. *)
JoinWaitlistUnnumbered(a) ==
  /\ a \notin {Organiser, coordinator}
  /\ RegistrationOpen(event, clock)
  /\ regs[a].status \in {"None", "Withdrawn", "Removed", "Cancelled"}
  /\ Taken(regs) >= event.capacity
  /\ regs' = [regs EXCEPT ![a] = [status |-> "Waitlisted", joinedAt |-> clock, seq |-> nextSeq]]
  /\ UNCHANGED <<clock, event, coordinator, nextSeq, notified, req>>

JoinWaitlist(a) ==
  LET s == SettleLocked(regs, event, clock)
  IN  /\ a \notin {Organiser, coordinator}
      /\ RegistrationOpen(event, clock)
      /\ s[a].status \in {"None", "Withdrawn", "Removed", "Cancelled"}
      /\ Taken(s) >= event.capacity
      /\ nextSeq <= MaxJoins
      /\ regs' = [s EXCEPT ![a] = [status |-> "Waitlisted", joinedAt |-> clock, seq |-> nextSeq]]
      /\ nextSeq' = nextSeq + 1
      /\ UNCHANGED <<clock, event, coordinator, notified, req>>

-----------------------------------------------------------------------------
(* Withdrawal: the event status, the start and the time are read, then the *)
(* event row is locked                                                     *)

WithdrawRead(h, a) ==
  /\ Idle(h)
  /\ regs[a].status # "None"
  /\ req' = [req EXCEPT ![h] = [op |-> "withdraw", who |-> a, sawStatus |-> event.status,
                                sawStart |-> event.start, now |-> clock]]
  /\ UNCHANGED <<clock, event, coordinator, regs, nextSeq, notified>>

(* A waiting entry is settled before the decision. *)
Decided(q) ==
  IF regs[q.who].status = "Waitlisted" THEN SettleLocked(regs, event, q.now) ELSE regs

HasEventStarted(q) == q.now >= q.sawStart

(* A faulty variant: a repeated withdrawal is reported as done. *)
RefusalOfNone(status, q) == IF status = "Withdrawn" THEN "ok" ELSE "NOT_WITHDRAWABLE"

Refusal(status, q) ==
  CASE status = "Cancelled" /\ q.sawStatus = "Cancelled" -> "EVENT_CANCELLED"
    [] status = "Cancelled" /\ q.sawStatus # "Cancelled" -> "NOT_WITHDRAWABLE"
    [] status = "Removed" -> "NOT_WITHDRAWABLE"
    [] OTHER -> "ALREADY_WITHDRAWN"

(* The refusal is returned, so the transaction commits and the settle is kept. *)
WithdrawRefused(h) ==
  LET q == req[h]
      status == Decided(q)[q.who].status
  IN  /\ q.op = "withdraw"
      /\ status \notin {"Registered", "Waitlisted"}
      /\ regs' = Decided(q)
      /\ Answer(h, Refusal(status, q))
      /\ UNCHANGED <<clock, event, coordinator, nextSeq, notified>>

(* The refusal is thrown, so the transaction rolls back. *)
WithdrawTooLate(h) ==
  LET q == req[h]
  IN  /\ q.op = "withdraw"
      /\ Decided(q)[q.who].status \in {"Registered", "Waitlisted"}
      /\ HasEventStarted(q)
      /\ Answer(h, "EVENT_ALREADY_OCCURRED")
      /\ UNCHANGED <<clock, event, coordinator, regs, nextSeq, notified>>

LeaveWaitlist(h) ==
  LET q == req[h]
  IN  /\ q.op = "withdraw"
      /\ Decided(q)[q.who].status = "Waitlisted"
      /\ ~HasEventStarted(q)
      /\ regs' = [Decided(q) EXCEPT ![q.who] = Row("Withdrawn")]
      /\ Answer(h, "ok")
      /\ UNCHANGED <<clock, event, coordinator, nextSeq, notified>>

(* A faulty variant: the freed place is left for the next visitor. *)
ReleaseOnly(h) ==
  LET q == req[h]
  IN  /\ q.op = "withdraw"
      /\ Decided(q)[q.who].status = "Registered"
      /\ ~HasEventStarted(q)
      /\ regs' = [Decided(q) EXCEPT ![q.who] = Row("Withdrawn")]
      /\ Answer(h, "ok")
      /\ UNCHANGED <<clock, event, coordinator, nextSeq, notified>>

ReleasePlace(h) ==
  LET q == req[h]
  IN  /\ q.op = "withdraw"
      /\ Decided(q)[q.who].status = "Registered"
      /\ ~HasEventStarted(q)
      /\ regs' \in FillFreeSpots([Decided(q) EXCEPT ![q.who] = Row("Withdrawn")], event, q.now)
      /\ Answer(h, "ok")
      /\ UNCHANGED <<clock, event, coordinator, nextSeq, notified>>

Withdraw(h) == WithdrawRefused(h) \/ WithdrawTooLate(h) \/ LeaveWaitlist(h) \/ ReleasePlace(h)

-----------------------------------------------------------------------------
(* Reading one's own registration settles a list that is due *)

FindMineRead(h) ==
  /\ Idle(h)
  /\ event.status \in {"Confirmed", "Completed", "Cancelled"}
  /\ Waiting(regs) # {}
  /\ DueWaitlist(event, clock)
  /\ req' = [req EXCEPT ![h] = [op |-> "settle", now |-> clock]]
  /\ UNCHANGED <<clock, event, coordinator, regs, nextSeq, notified>>

SettleIfDue(h) ==
  /\ req[h].op = "settle"
  /\ regs' = SettleLocked(regs, event, req[h].now)
  /\ Answer(h, "ok")
  /\ UNCHANGED <<clock, event, coordinator, nextSeq, notified>>

-----------------------------------------------------------------------------
(* The coordinator's registration settings, saved against the version the form showed *)

SettingsRead(h) ==
  /\ Idle(h)
  /\ event.version < MaxSaves
  /\ req' = [req EXCEPT ![h] = [op |-> "save", version |-> event.version,
                                by |-> coordinator]]
  /\ UNCHANGED <<clock, event, coordinator, regs, nextSeq, notified>>

Merge(saved, sent) == IF sent = Keep THEN saved ELSE sent

(* A faulty variant: an absent closing time overwrites the saved one. *)
PatchedAll(e, p) ==
  [e EXCEPT !.enabled = Merge(@, p.enabled), !.opens = Merge(@, p.opens),
            !.closes = p.closes, !.capacity = Merge(@, p.capacity)]

Patched(e, p) ==
  [e EXCEPT !.enabled = Merge(@, p.enabled), !.opens = Merge(@, p.opens),
            !.closes = Merge(@, p.closes), !.capacity = Merge(@, p.capacity)]

(* validateRegistrationSettings, on the merged settings n and the request p *)
ValidSettings(n, p, confirmed) ==
  /\ n.capacity \in 1 .. MaxCapacity
  /\ p.opens # Keep \/ p.closes # Keep =>
       /\ n.opens # NoTime /\ n.closes # NoTime => n.closes > n.opens
       /\ n.closes # NoTime => n.closes <= n.start
  /\ n.enabled => n.opens # NoTime /\ n.closes # NoTime
  /\ n.capacity >= confirmed

Configurable(e) == e.status \in {"Planning", "Confirmed"}

(* A faulty variant: the places that a larger capacity adds are not filled. *)
SaveWithoutFill(h) ==
  /\ req[h].op = "save"
  /\ req[h].by = coordinator
  /\ Configurable(event)
  /\ req[h].version = event.version
  /\ \E p \in Patches :
       LET old == SettleLocked(regs, event, clock)
           new == Patched(event, p)
       IN  /\ ValidSettings(new, p, Taken(old))
           /\ event' = [new EXCEPT !.version = @ + 1]
           /\ regs' = SettleLocked(old, new, clock)
  /\ Answer(h, "ok")
  /\ UNCHANGED <<clock, coordinator, nextSeq, notified>>

SaveSettings(h) ==
  /\ req[h].op = "save"
  /\ req[h].by = coordinator
  /\ Configurable(event)
  /\ req[h].version = event.version
  /\ \E p \in Patches :
       LET old == SettleLocked(regs, event, clock)
           new == Patched(event, p)
           settled == SettleLocked(old, new, clock)
       IN  /\ ValidSettings(new, p, Taken(old))
           /\ event' = [new EXCEPT !.version = @ + 1]
           /\ IF new.capacity > event.capacity
              THEN regs' \in FillFreeSpots(settled, new, clock)
              ELSE regs' = settled
  /\ Answer(h, "ok")
  /\ UNCHANGED <<clock, coordinator, nextSeq, notified>>

(* Not configurable, a stale version or settings that are not valid: nothing is written. *)
SaveRefused(h) ==
  /\ req[h].op = "save"
  /\ \/ req[h].by # coordinator
     \/ ~Configurable(event)
     \/ req[h].version # event.version
     \/ \E p \in Patches :
          ~ValidSettings(Patched(event, p), p, Taken(SettleLocked(regs, event, clock)))
  /\ Answer(h, "refused")
  /\ UNCHANGED <<clock, event, coordinator, regs, nextSeq, notified>>

-----------------------------------------------------------------------------
(* Cancelling the event. The coordinator's own request reads the time      *)
(* before the lock; accepting the organiser's request reads it behind the  *)
(* lock and leaves the organiser's notice to the request's outcome.        *)

CancelRead(h) ==
  /\ Idle(h)
  /\ req' = [req EXCEPT ![h] = [op |-> "cancel", now |-> clock, by |-> coordinator]]
  /\ UNCHANGED <<clock, event, coordinator, regs, nextSeq, notified>>

Cancellable(e) == e.status \in {"Planning", "Confirmed"}

CancelRows(r, status) ==
  [a \in Attendees |-> IF a \in InStatus(r, status) THEN Row("Cancelled") ELSE r[a]]

(* A faulty variant: the waitlist is forgotten. *)
CancelRegistered(now, skipped) ==
  /\ event' = [event EXCEPT !.status = "Cancelled"]
  /\ regs' = CancelRows(regs, "Registered")
  /\ notified' = notified \cup (({Organiser, coordinator} \cup Registered(regs)) \ skipped)

(* A faulty variant: the recipients are read after the release. *)
CancelThenRead(now, skipped) ==
  /\ event' = [event EXCEPT !.status = "Cancelled"]
  /\ regs' = CancelRows(CancelRows(regs, "Registered"), "Waitlisted")
  /\ notified' = notified \cup ({Organiser, coordinator} \ skipped)

(* The registrations are released before the waitlist, which is settled first. *)
CancelInside(now, skipped) ==
  LET settled == SettleLocked(CancelRows(regs, "Registered"), event, now)
  IN  /\ event' = [event EXCEPT !.status = "Cancelled"]
      /\ regs' = CancelRows(settled, "Waitlisted")
      /\ notified' = notified \cup (({Organiser, coordinator} \cup Registered(regs)) \ skipped)
                        \cup Waiting(settled)

CancelEvent(h) ==
  /\ req[h].op = "cancel"
  /\ req[h].by = coordinator
  /\ Cancellable(event)
  /\ CancelInside(req[h].now, {})
  /\ Answer(h, "ok")
  /\ UNCHANGED <<clock, coordinator, nextSeq>>

(* A faulty variant: a request for an event that is no longer cancellable waits. *)
CancelUnanswered(h) ==
  /\ req[h].op = "cancel"
  /\ req[h].by # coordinator
  /\ Answer(h, "refused")
  /\ UNCHANGED <<clock, event, coordinator, regs, nextSeq, notified>>

CancelRefused(h) ==
  /\ req[h].op = "cancel"
  /\ req[h].by # coordinator \/ ~Cancellable(event)
  /\ Answer(h, "refused")
  /\ UNCHANGED <<clock, event, coordinator, regs, nextSeq, notified>>

(* Whether a cancellation request is pending is not modelled here. *)
AcceptCancellationRequest ==
  /\ Cancellable(event)
  /\ CancelInside(clock, {Organiser})
  /\ UNCHANGED <<clock, coordinator, nextSeq, req>>

-----------------------------------------------------------------------------
(* The rest of the event's life, as far as it touches the registrations *)

(* Whether the arrangements are ready is not modelled here. *)
Confirm ==
  /\ event.status = "Planning"
  /\ event' = [event EXCEPT !.status = "Confirmed"]
  /\ UNCHANGED <<clock, coordinator, regs, nextSeq, notified, req>>

(* The end of an event is some instant after its start. *)
Complete ==
  /\ event.status = "Confirmed"
  /\ clock > event.start
  /\ event' = [event EXCEPT !.status = "Completed"]
  /\ UNCHANGED <<clock, coordinator, regs, nextSeq, notified, req>>

(* An approved change request moves the start of an event that has not begun   *)
(* and sends a Confirmed one back to Planning; while the event is in Planning  *)
(* its coordinator moves it too, and a flagged move that is confirmed late may *)
(* name a start that has passed.                                               *)
Reschedule(s) ==
  /\ event.status = "Planning" \/ (event.status = "Confirmed" /\ clock < event.start /\ s > clock)
  /\ s # event.start
  /\ event' = [event EXCEPT !.start = s, !.status = "Planning"]
  /\ UNCHANGED <<clock, coordinator, regs, nextSeq, notified, req>>

(* The Lead reassigns the event. *)
Reassign(c) ==
  /\ event.status \in {"Planning", "Confirmed"}
  /\ c # coordinator
  /\ coordinator' = c
  /\ UNCHANGED <<clock, event, regs, nextSeq, notified, req>>

-----------------------------------------------------------------------------
(* A lock wait that times out, a lost connection or a server that stops rolls *)
(* the transaction back: the request fails and leaves no trace.               *)

Abort(h) ==
  /\ ~Idle(h)
  /\ Answer(h, "error")
  /\ UNCHANGED <<clock, event, coordinator, regs, nextSeq, notified>>

-----------------------------------------------------------------------------

Locked(h) ==
  \/ Withdraw(h) \/ SettleIfDue(h)
  \/ SaveSettings(h) \/ SaveRefused(h)
  \/ CancelEvent(h) \/ CancelRefused(h)

Next ==
  \/ Tick \/ Confirm \/ Complete \/ AcceptCancellationRequest
  \/ \E s \in Starts : Reschedule(s)
  \/ \E c \in Coordinators : Reassign(c)
  \/ \E a \in Attendees : Register(a) \/ JoinWaitlist(a)
  \/ \E h \in Handlers :
       \/ \E a \in Attendees : WithdrawRead(h, a)
       \/ FindMineRead(h) \/ SettingsRead(h) \/ CancelRead(h)
       \/ Locked(h) \/ Abort(h)

Spec == Init /\ [][Next]_vars

(* PostgreSQL grants the event row lock to every waiting transaction in the *)
(* end (no transaction of this module waits for a second lock while it has  *)
(* it), so a handler that asked for the lock gets to run behind it.         *)
Fairness == \A h \in Handlers : WF_vars(Locked(h))

FairSpec == Spec /\ Fairness
-----------------------------------------------------------------------------
(* What must hold *)

(* Registered attendees never exceed the event's registration limit, whatever  *)
(* registrations, promotions and capacity changes interleave (register,        *)
(* fillFreeSpots and update all count behind the event row lock).              *)
CapacityRespected == Taken(regs) <= event.capacity

(* Nobody waits while a place is free: every step that frees a place (a        *)
(* withdrawal, a larger capacity) hands it on before it commits.               *)
WaitingImpliesFull == Waiting(regs) # {} => Taken(regs) >= event.capacity

(* The order the list is served in (joined_at, then waitlist_seq) is total and *)
(* is the order of arrival: the clock of a join is read behind the row lock,   *)
(* so a later sequence number never carries an earlier time.                   *)
ServedInOrderOfArrival ==
  \A a, b \in Waiting(regs) :
    /\ a # b => regs[a].seq # regs[b].seq
    /\ regs[a].seq < regs[b].seq => regs[a].joinedAt <= regs[b].joinedAt

(* Once an event is cancelled nobody holds a place or waits for one, and no    *)
(* handler that was already in flight brings such a row back.                  *)
CancelledEventIsEmpty ==
  event.status = "Cancelled" => Registered(regs) \cup Waiting(regs) = {}

(* Whoever lost a place or a waiting entry to the cancellation got the         *)
(* EventCancelled notice (the organiser may get the request outcome instead).  *)
CancelledAreTold ==
  \A a \in Attendees \ {Organiser} : regs[a].status = "Cancelled" => a \in notified

(* An entry that was withdrawn, removed or cancelled comes back only through   *)
(* a registration or a join of its own while registration is open: no settle,  *)
(* promotion, reopening or late handler restores it.                           *)
GoneStaysGone ==
  [][\A a \in Attendees :
       /\ regs[a].status \in {"Withdrawn", "Removed", "Cancelled"}
       /\ regs'[a].status \in {"Registered", "Waitlisted"}
       => RegistrationOpen(event, clock) /\ req' = req]_vars

(* A withdrawal is reported as done exactly when it ended an active row: of    *)
(* several requests for one registration (a double click) one succeeds, the    *)
(* others are refused, and nobody else's withdrawal ends the row.              *)
WithdrawalAnsweredTruly ==
  [][\A h \in Handlers :
       req[h].op = "withdraw" /\ req'[h] # req[h]
       => (req'[h].reply = "ok"
             <=> /\ regs[req[h].who].status \in {"Registered", "Waitlisted"}
                 /\ regs'[req[h].who].status = "Withdrawn")]_vars

(* Every request that waits for the event row is answered.                     *)
EveryRequestAnswered ==
  \A h \in Handlers : req[h].op # "idle" ~> req[h].op = "idle"

(* A new entry joins behind all the others. *)
ArrivalsBehind ==
  \A a \in Waiting(regs) : regs[a].seq < nextSeq /\ regs[a].joinedAt <= clock

(* The inductive invariant of the proofs: the promises above, which hold each  *)
(* other up (a promotion keeps the limit only because nobody waits beside a    *)
(* free place before the withdrawal), with the types and the arrival counters. *)
IInv ==
  /\ TypeOK
  /\ CapacityRespected
  /\ WaitingImpliesFull
  /\ CancelledEventIsEmpty
  /\ CancelledAreTold
  /\ ServedInOrderOfArrival
  /\ ArrivalsBehind
=============================================================================
