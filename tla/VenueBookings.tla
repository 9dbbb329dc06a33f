----------------------------- MODULE VenueBookings -----------------------------
(***************************************************************************)
(* The bookings and tentative holds of one venue: the coordinators'        *)
(* requests, the Venue Staff decisions, the expiry of holds with their     *)
(* notices, unavailable periods, and the safety check that stands on the   *)
(* bookings and gates the confirmation of an event (backend/src/venues,    *)
(* backend/src/events/status, backend/src/events/safety-officer and the    *)
(* triggers of 003_functions_triggers.sql).                                *)
(*                                                                         *)
(* A request locks the venue, then the event; a decision locks the venue,  *)
(* then reads the event columns without a lock, waits for the booking row, *)
(* and writes: two steps here. Everything that holds the venue lock is     *)
(* therefore excluded while a decision is under way, and nothing else is:  *)
(* cancelling, releasing, expiring and removing a booking lock the event   *)
(* or the booking only. A decision reads the clock anew for each of its    *)
(* checks and for what it writes, each time at or after the one before.    *)
(*                                                                         *)
(* An event may book other venues too; those bookings are left out.        *)
(* Abstracted: names, texts and who may call what; capacity, facilities    *)
(* and layouts, which only warn; 'Approved' and 'Submitted' events, folded *)
(* into "Planning"; whether equipment and registration are ready, which is *)
(* left open; reassessment_required, which only picks a message; the       *)
(* outcomes 'changes_needed' and 'rejected' of a safety check, one         *)
(* "answered" here, and the feedback a coordinator ticks off.              *)
(***************************************************************************)
EXTENDS Integers, Sequences, FiniteSets

CONSTANTS
  Events,         \* events that may ask for the venue
  Ids,            \* bound: the identities of venue_bookings rows
  Servers,        \* backend processes, each with its expiry scheduler
  Slots,          \* the periods an event may be planned for
  Periods,        \* the periods the venue may be marked unavailable for
  Timings,        \* the setup and turnaround times the venue may have
  LeadTime,       \* 336 hours
  HoldLength,     \* 14 days, the same 336 hours
  ReminderWindow, \* 48 hours
  NoTime,         \* a NULL timestamp
  NoEvent,        \* the event of a row that does not exist
  MaxTime,        \* bound: the last instant of the clock
  MaxPeriods      \* bound: unavailable periods recorded

Time == 0 .. MaxTime
Period == [from : Nat, to : Nat]

ASSUME TimesAssumption ==
  /\ MaxTime \in Nat /\ MaxPeriods \in Nat
  /\ LeadTime \in Nat /\ HoldLength \in Nat /\ ReminderWindow \in Nat
  /\ HoldLength <= LeadTime
ASSUME PeriodsAssumption ==
  /\ Slots \subseteq {p \in Period : p.from < p.to}
  /\ Periods \subseteq {p \in Period : p.from < p.to}
ASSUME TimingsAssumption ==
  Timings \subseteq [setup : Nat, turnaround : Nat] /\ Timings # {}
ASSUME NullAssumption == NoTime \notin Int /\ NoEvent \notin Events

VARIABLES
  clock,     \* the injected CLOCK
  event,     \* the status and the planned period of each event
  safety,    \* event_safety_checks, with the rows its open feedback names
  timing,    \* setup_time_minutes and turnaround_time_minutes of the venue
  rows,      \* venue_bookings of the venue that belong to an event
  blocked,   \* venue_bookings of the venue with status 'blocked'
  decision,  \* the Venue Staff decision that holds the venue lock, and what it saw
  job,       \* the expiry scheduler of each process, and the time of its step
  told       \* the hold lifecycle notices written for each row

vars == <<clock, event, safety, timing, rows, blocked, decision, job, told>>

-----------------------------------------------------------------------------
(* Types *)

EventStatus == {"Planning", "Confirmed", "Completed", "Cancelled"}
RowStatus   == {"none", "pending", "approved", "rejected", "released", "cancelled",
                "expired", "removed"}
Notice      == {"reminder", "expired", "released", "converted"}

Row == [event : Events \cup {NoEvent}, slot : Period, kind : {"booking", "hold"},
        status : RowStatus, expires : Int \cup {NoTime}, reminded : BOOLEAN]

(* The CHECK constraints of the table on holds. *)
Allowed(r) ==
  /\ r.kind = "hold" /\ r.status = "approved" => r.expires # NoTime
  /\ r.status = "expired" => r.kind = "hold" /\ r.expires # NoTime

Decision ==
  [busy : {FALSE}]
  \cup [busy : {TRUE}, row : Ids, sawStatus : EventStatus, sawStart : Nat, since : Time]

Job == [step : {"idle"}] \cup [step : {"expire", "remind"}, now : Time]

TypeOK ==
  /\ clock \in Time
  /\ event \in [Events -> [status : EventStatus, slot : Slots]]
  /\ safety \in [Events -> [state : {"none", "pending", "approved", "answered"},
                            review : SUBSET Ids]]
  /\ timing \in Timings
  /\ rows \in [Ids -> Row] /\ \A b \in Ids : Allowed(rows[b])
  /\ blocked \subseteq Period
  /\ decision \in Decision
  /\ job \in [Servers -> Job]
  /\ told \in [Ids -> Seq(Notice)]

-----------------------------------------------------------------------------
(* What the queries of the repository select *)

Blank == [event |-> NoEvent, slot |-> [from |-> 0, to |-> 0], kind |-> "booking",
          status |-> "none", expires |-> NoTime, reminded |-> FALSE]

RowsOf(e) == {b \in Ids : rows[b].event = e}

Elapsed(r, now) == r.expires # NoTime /\ r.expires <= now

(* The row is a hold in force, whether or not it has run out by now. *)
Held(r) == r.kind = "hold" /\ r.status = "approved"

(* The row keeps the venue: a confirmed booking or a hold that still runs. *)
Firm(r, now) == r.status = "approved" /\ (r.kind = "booking" \/ ~Elapsed(r, now))

(* The row keeps its event from asking for the venue again. *)
Active(r, now) == r.status = "pending" \/ Firm(r, now)

(* Two bookings clash when their periods, widened by setup and turnaround, overlap. *)
Overlaps(p, q) ==
  /\ p.from - timing.setup < q.to + timing.turnaround
  /\ p.to + timing.turnaround > q.from - timing.setup

(* An unavailable period is not widened. *)
Unavailable(p) ==
  \E u \in blocked : u.from < p.to + timing.turnaround /\ u.to > p.from - timing.setup

PendingHold(b) == rows[b].kind = "hold" /\ rows[b].status = "pending"

Conflicts(b, p, now) ==
  \/ Unavailable(p)
  \/ \E c \in Ids \ {b} :
       /\ \/ Firm(rows[c], now)
          \/ rows[c].status = "pending" /\ rows[c].expires # NoTime /\ rows[c].expires > now
       /\ Overlaps(rows[c].slot, p)

-----------------------------------------------------------------------------
(* The safety check that stands on the bookings *)

NoCheck == [state |-> "none", review |-> {}]

(* Only a row that open feedback names may change without a reset. *)
Exempt(b) ==
  LET check == safety[rows[b].event]
  IN  check.state = "answered" /\ b \in check.review

(* A faulty variant: the trigger that resets the check is missing. *)
TouchNothing(B) == safety

(* The trigger on venue_bookings: an update of a row resets its event's check; an *)
(* insertion and a removal always do, a release never does.                       *)
Touch(B) ==
  [e \in Events |-> IF \E b \in B \cap RowsOf(e) : ~Exempt(b) THEN NoCheck ELSE safety[e]]

Booked(b) ==
  rows[b].status = "approved" /\ rows[b].kind = "booking" /\ ~Unavailable(rows[b].slot)

(* A rejected request is resolved by an available booking that covers its period. *)
Replaced(b) ==
  /\ rows[b].status = "rejected"
  /\ \E c \in RowsOf(rows[b].event) :
       /\ Booked(c)
       /\ rows[c].slot.from <= rows[b].slot.from /\ rows[c].slot.to >= rows[b].slot.to

Current(e) == {b \in RowsOf(e) : rows[b].status \notin {"released", "cancelled"}}

(* The checklist: something is booked and nothing else is open. *)
VenueConfirmed(e) ==
  LET open == {b \in Current(e) : ~Replaced(b)}
  IN  open # {} /\ \A b \in open : Booked(b)

(* Readiness: nothing is outstanding. A history of releases alone is not. *)
VenueReady(e) ==
  /\ Current(e) = {} =>
       /\ RowsOf(e) # {}
       /\ \A b \in RowsOf(e) : rows[b].status # "cancelled"
  /\ \A b \in Current(e) : Booked(b) \/ Replaced(b)

-----------------------------------------------------------------------------

Init ==
  /\ clock = 0
  /\ event \in [Events -> [status : {"Planning"}, slot : Slots]]
  /\ safety = [e \in Events |-> NoCheck]
  /\ timing \in Timings
  /\ rows = [b \in Ids |-> Blank]
  /\ blocked = {}
  /\ decision = [busy |-> FALSE]
  /\ job = [s \in Servers |-> [step |-> "idle"]]
  /\ told = [b \in Ids |-> << >>]

Tick ==
  /\ clock < MaxTime
  /\ clock' = clock + 1
  /\ UNCHANGED <<event, safety, timing, rows, blocked, decision, job, told>>

-----------------------------------------------------------------------------
(* Requests of the coordinator, behind the venue and the event lock. A request   *)
(* reads the clock for each of its checks; one reading stands for them, since    *)
(* what is live or clashes only gets less with time and the approval judges the  *)
(* lead time again.                                                              *)

BookingOpen(e) == event[e].status \in {"Planning", "Confirmed"}

Request(e, b, kind) ==
  /\ rows[b].status = "none"
  /\ rows' = [rows EXCEPT ![b] = [Blank EXCEPT !.event = e, !.slot = event[e].slot,
                                               !.kind = kind, !.status = "pending"]]
  /\ safety' = [safety EXCEPT ![e] = NoCheck]
  /\ UNCHANGED <<clock, event, timing, blocked, decision, job, told>>

SubmitBookingRequest(e, b) ==
  /\ ~decision.busy
  /\ BookingOpen(e)
  /\ \A c \in RowsOf(e) : ~Active(rows[c], clock)
  /\ ~Conflicts(b, event[e].slot, clock)
  /\ Request(e, b, "booking")

(* A faulty variant: an active request does not block a second one. *)
SubmitHoldAgain(e, b) ==
  /\ ~decision.busy
  /\ BookingOpen(e)
  /\ event[e].slot.from - timing.setup - clock >= LeadTime
  /\ ~Conflicts(b, event[e].slot, clock)
  /\ Request(e, b, "hold")

SubmitTentativeHoldRequest(e, b) ==
  /\ ~decision.busy
  /\ BookingOpen(e)
  /\ event[e].slot.from - timing.setup - clock >= LeadTime
  /\ \A c \in RowsOf(e) : ~Active(rows[c], clock)
  /\ ~Conflicts(b, event[e].slot, clock)
  /\ Request(e, b, "hold")

(* Locks the booking and the event, not the venue. *)
CancelCoordinatorBooking(b) ==
  /\ rows[b].status \in {"pending", "approved"}
  /\ event[rows[b].event].status # "Completed"
  /\ rows' = [rows EXCEPT ![b].status = "cancelled"]
  /\ safety' = Touch({b})
  /\ UNCHANGED <<clock, event, timing, blocked, decision, job, told>>

(* A rejected or unavailable request is deleted from an event in Planning. *)
RemoveVenueRequest(b) ==
  /\ rows[b].event # NoEvent
  /\ event[rows[b].event].status = "Planning"
  /\ rows[b].status = "rejected" \/ Unavailable(rows[b].slot)
  /\ rows' = [rows EXCEPT ![b] = [Blank EXCEPT !.status = "removed"]]
  /\ safety' = [safety EXCEPT ![rows[b].event] = NoCheck]
  /\ UNCHANGED <<clock, event, timing, blocked, decision, job, told>>

-----------------------------------------------------------------------------
(* Decisions of the Venue Staff *)

(* The venue lock is taken; the event columns are read before the row lock, and  *)
(* the readings of the clock follow: since is the earliest they can be.          *)
LockOwnedBooking(b) ==
  /\ ~decision.busy
  /\ rows[b].event # NoEvent
  /\ decision' = [busy |-> TRUE, row |-> b, sawStatus |-> event[rows[b].event].status,
                  sawStart |-> event[rows[b].event].slot.from, since |-> clock]
  /\ UNCHANGED <<clock, event, safety, timing, rows, blocked, job, told>>

Decide(b) == decision.busy /\ decision.row = b /\ decision' = [busy |-> FALSE]

(* The event starts late enough, by a reading of the clock. *)
InTime(b, now) ==
  rows[b].kind = "hold" => decision.sawStart - timing.setup - now >= LeadTime

(* A faulty variant: a request that was closed meanwhile is approved. *)
ApproveStale(b) ==
  /\ Decide(b)
  /\ decision.sawStatus # "Completed"
  /\ rows[b].status \in {"pending", "cancelled", "released"}
  /\ \E lead, query, write \in decision.since .. clock :
       /\ lead <= query /\ query <= write
       /\ InTime(b, lead)
       /\ ~Conflicts(b, rows[b].slot, query)
       /\ rows' = [rows EXCEPT ![b].status = "approved",
                               ![b].expires = IF rows[b].kind = "hold" THEN write + HoldLength ELSE @]
  /\ safety' = Touch({b})
  /\ UNCHANGED <<clock, event, timing, blocked, job, told>>

(* The lead time, the clashes and the expiry are judged by a reading each. What *)
(* the query found free stays free until the write: others need the venue lock. *)
ApproveVenueBooking(b) ==
  /\ Decide(b)
  /\ decision.sawStatus # "Completed"
  /\ rows[b].status = "pending"
  /\ \E lead, query, write \in decision.since .. clock :
       /\ lead <= query /\ query <= write
       /\ InTime(b, lead)
       /\ ~Conflicts(b, rows[b].slot, query)
       /\ rows' = [rows EXCEPT ![b].status = "approved",
                               ![b].expires = IF rows[b].kind = "hold" THEN write + HoldLength ELSE @]
  /\ safety' = Touch({b})
  /\ UNCHANGED <<clock, event, timing, blocked, job, told>>

RejectVenueBooking(b) ==
  /\ Decide(b)
  /\ decision.sawStatus # "Completed"
  /\ rows[b].status = "pending"
  /\ rows' = [rows EXCEPT ![b].status = "rejected"]
  /\ safety' = Touch({b})
  /\ UNCHANGED <<clock, event, timing, blocked, job, told>>

(* The notices go to the coordinator of an event that is not cancelled. *)
Tell(b, notice) ==
  told' = IF event[rows[b].event].status = "Cancelled" THEN told
          ELSE [told EXCEPT ![b] = Append(@, notice)]

(* A faulty variant: the authoritative expiry is not checked. *)
ConvertLate(b) ==
  /\ Decide(b)
  /\ decision.sawStatus # "Completed"
  /\ Held(rows[b])
  /\ rows' = [rows EXCEPT ![b].kind = "booking", ![b].expires = NoTime]
  /\ safety' = Touch({b})
  /\ Tell(b, "converted")
  /\ UNCHANGED <<clock, event, timing, blocked, job>>

(* The hold still ran at the one reading that the decision on it makes. *)
StillRuns(b) ==
  /\ Held(rows[b])
  /\ \E now \in decision.since .. clock : ~Elapsed(rows[b], now)

ConvertTentativeHold(b) ==
  /\ Decide(b)
  /\ decision.sawStatus # "Completed"
  /\ StillRuns(b)
  /\ rows' = [rows EXCEPT ![b].kind = "booking", ![b].expires = NoTime]
  /\ safety' = Touch({b})
  /\ Tell(b, "converted")
  /\ UNCHANGED <<clock, event, timing, blocked, job>>

(* A release leaves the safety check alone. *)
ReleaseTentativeHold(b) ==
  /\ Decide(b)
  /\ decision.sawStatus # "Completed"
  /\ StillRuns(b)
  /\ rows' = [rows EXCEPT ![b].status = "released"]
  /\ Tell(b, "released")
  /\ UNCHANGED <<clock, event, safety, timing, blocked, job>>

(* Any refusal, and any rollback, leaves no trace. *)
DecisionRefused ==
  /\ decision.busy
  /\ decision' = [busy |-> FALSE]
  /\ UNCHANGED <<clock, event, safety, timing, rows, blocked, job, told>>

-----------------------------------------------------------------------------
(* The venue itself *)

(* Pending holds are flagged for reassessment when the setup time changes. *)
UpdateVenue(t) ==
  /\ ~decision.busy
  /\ t # timing
  /\ timing' = t
  /\ safety' = IF t.setup = timing.setup THEN safety
               ELSE Touch({b \in Ids : PendingHold(b)})
  /\ UNCHANGED <<clock, event, rows, blocked, decision, job, told>>

MarkUnavailable(p) ==
  /\ ~decision.busy
  /\ p.to > clock
  /\ Cardinality(blocked) < MaxPeriods
  /\ blocked' = blocked \cup {p}
  /\ UNCHANGED <<clock, event, safety, timing, rows, decision, job, told>>

(* One statement, without the venue lock. *)
EndUnavailable(p) ==
  /\ p.from < clock /\ p.to > clock
  /\ blocked' = (blocked \ {p}) \cup {[p EXCEPT !.to = clock]}
  /\ UNCHANGED <<clock, event, safety, timing, rows, decision, job, told>>

-----------------------------------------------------------------------------
(* The scheduler of one process; its timer skips a tick while a run is under way *)

JobStart(s) ==
  /\ job[s].step = "idle"
  /\ job' = [job EXCEPT ![s] = [step |-> "expire", now |-> clock]]
  /\ UNCHANGED <<clock, event, safety, timing, rows, blocked, decision, told>>

TellAll(B, notice) ==
  told' = [b \in Ids |-> IF b \in B /\ event[rows[b].event].status # "Cancelled"
                         THEN Append(told[b], notice) ELSE told[b]]

Reminding(s) == job' = [job EXCEPT ![s] = [step |-> "remind", now |-> clock]]

(* A faulty variant: only holds that were reminded of are expired. *)
ExpireReminded(s) ==
  LET due == {b \in Ids : /\ Held(rows[b])
                          /\ rows[b].reminded
                          /\ Elapsed(rows[b], job[s].now)}
  IN  /\ job[s].step = "expire"
      /\ rows' = [b \in Ids |-> IF b \in due THEN [rows[b] EXCEPT !.status = "expired"]
                                ELSE rows[b]]
      /\ safety' = Touch(due)
      /\ TellAll(due, "expired")
      /\ Reminding(s)
      /\ UNCHANGED <<clock, event, timing, blocked, decision>>

(* The whole batch, with its notices, is one transaction. *)
ProcessExpiredTentativeHolds(s) ==
  LET due == {b \in Ids : /\ Held(rows[b])
                          /\ Elapsed(rows[b], job[s].now)}
  IN  /\ job[s].step = "expire"
      /\ rows' = [b \in Ids |-> IF b \in due THEN [rows[b] EXCEPT !.status = "expired"]
                                ELSE rows[b]]
      /\ safety' = Touch(due)
      /\ TellAll(due, "expired")
      /\ Reminding(s)
      /\ UNCHANGED <<clock, event, timing, blocked, decision>>

(* One notice that cannot be written rolls the whole batch back. *)
ExpiryFails(s) ==
  /\ job[s].step = "expire"
  /\ Reminding(s)
  /\ UNCHANGED <<clock, event, safety, timing, rows, blocked, decision, told>>

(* A faulty variant: a hold is reminded of in every run. *)
RemindAgain(s) ==
  LET due == {b \in Ids : /\ Held(rows[b])
                          /\ event[rows[b].event].status # "Cancelled"
                          /\ ~Elapsed(rows[b], job[s].now)
                          /\ rows[b].expires <= job[s].now + ReminderWindow}
  IN  /\ job[s].step = "remind"
      /\ rows' = [b \in Ids |-> IF b \in due THEN [rows[b] EXCEPT !.reminded = TRUE] ELSE rows[b]]
      /\ safety' = Touch(due)
      /\ TellAll(due, "reminder")
      /\ job' = [job EXCEPT ![s] = [step |-> "idle"]]
      /\ UNCHANGED <<clock, event, timing, blocked, decision>>

ProcessTentativeHoldReminders(s) ==
  LET due == {b \in Ids : /\ Held(rows[b])
                          /\ event[rows[b].event].status # "Cancelled"
                          /\ ~rows[b].reminded
                          /\ ~Elapsed(rows[b], job[s].now)
                          /\ rows[b].expires <= job[s].now + ReminderWindow}
  IN  /\ job[s].step = "remind"
      /\ rows' = [b \in Ids |-> IF b \in due THEN [rows[b] EXCEPT !.reminded = TRUE] ELSE rows[b]]
      /\ safety' = Touch(due)
      /\ TellAll(due, "reminder")
      /\ job' = [job EXCEPT ![s] = [step |-> "idle"]]
      /\ UNCHANGED <<clock, event, timing, blocked, decision>>

RemindersFail(s) ==
  /\ job[s].step = "remind"
  /\ job' = [job EXCEPT ![s] = [step |-> "idle"]]
  /\ UNCHANGED <<clock, event, safety, timing, rows, blocked, decision, told>>

-----------------------------------------------------------------------------
(* The events, behind their row lock *)

RequestSafetyCheck(e) ==
  /\ event[e].status = "Planning"
  /\ VenueConfirmed(e)
  /\ safety[e].state \in {"none", "answered"}
  /\ safety' = [safety EXCEPT ![e] = [state |-> "pending", review |-> {}]]
  /\ UNCHANGED <<clock, event, timing, rows, blocked, decision, job, told>>

Respondable(e) ==
  event[e].status = "Planning" /\ safety[e].state = "pending" /\ VenueConfirmed(e)

SafetyApproves(e) ==
  /\ Respondable(e)
  /\ safety' = [safety EXCEPT ![e].state = "approved"]
  /\ UNCHANGED <<clock, event, timing, rows, blocked, decision, job, told>>

(* The flagged bookings go back to the Venue Staff (all of them on a rejection, *)
(* none when only equipment is flagged). The feedback is stored first, so the   *)
(* trigger lets the change of these rows pass.                                  *)
SafetyAnswers(e) ==
  /\ Respondable(e)
  /\ \E B \in SUBSET {b \in RowsOf(e) : rows[b].status = "approved" /\ rows[b].kind = "booking"} :
       /\ safety' = [safety EXCEPT ![e] = [state |-> "answered", review |-> B]]
       /\ rows' = [b \in Ids |-> IF b \in B THEN [rows[b] EXCEPT !.status = "pending"] ELSE rows[b]]
  /\ UNCHANGED <<clock, event, timing, blocked, decision, job, told>>

(* A faulty variant: the safety check is not asked for. *)
ConfirmUnchecked(e) ==
  /\ event[e].status = "Planning"
  /\ VenueReady(e)
  /\ event' = [event EXCEPT ![e].status = "Confirmed"]
  /\ UNCHANGED <<clock, safety, timing, rows, blocked, decision, job, told>>

(* One step: the arrangements are read with shared locks on the rows, a new row *)
(* needs the event lock, and an unavailable period or a change of timing that   *)
(* takes a booking away tells its coordinator, a notice whose foreign key waits *)
(* for the event lock.                                                          *)
Confirm(e) ==
  /\ event[e].status = "Planning"
  /\ VenueReady(e)
  /\ safety[e].state = "approved"
  /\ event' = [event EXCEPT ![e].status = "Confirmed"]
  /\ UNCHANGED <<clock, safety, timing, rows, blocked, decision, job, told>>

Complete(e) ==
  /\ event[e].status = "Confirmed"
  /\ clock >= event[e].slot.to
  /\ event' = [event EXCEPT ![e].status = "Completed"]
  /\ UNCHANGED <<clock, safety, timing, rows, blocked, decision, job, told>>

(* A faulty variant: pending requests are not released. *)
CancelEventApproved(e) ==
  /\ event[e].status \in {"Planning", "Confirmed"}
  /\ event' = [event EXCEPT ![e].status = "Cancelled"]
  /\ rows' = [b \in Ids |-> IF b \in RowsOf(e) /\ rows[b].status = "approved"
                            THEN [rows[b] EXCEPT !.status = "released"] ELSE rows[b]]
  /\ UNCHANGED <<clock, safety, timing, blocked, decision, job, told>>

CancelEvent(e) ==
  /\ event[e].status \in {"Planning", "Confirmed"}
  /\ event' = [event EXCEPT ![e].status = "Cancelled"]
  /\ rows' = [b \in Ids |-> IF b \in RowsOf(e) /\ rows[b].status \in {"pending", "approved"}
                            THEN [rows[b] EXCEPT !.status = "released"] ELSE rows[b]]
  /\ UNCHANGED <<clock, safety, timing, blocked, decision, job, told>>

(* A detail changes while the event is planned, or by a change request, which *)
(* takes a confirmed event back to Planning unless it has begun.              *)
Changeable(e) ==
  \/ event[e].status = "Planning"
  \/ event[e].status = "Confirmed" /\ clock < event[e].slot.from

(* Another detail than the period; a request that asks for what the event already *)
(* is changes nothing, and the check stays.                                       *)
ChangeDetails(e) ==
  /\ Changeable(e)
  /\ event' = [event EXCEPT ![e].status = "Planning"]
  /\ safety' \in {safety, [safety EXCEPT ![e] = NoCheck]}
  /\ UNCHANGED <<clock, timing, rows, blocked, decision, job, told>>

(* The trigger on equipment_reservations. *)
EquipmentChanges(e) ==
  /\ event[e].status \in {"Planning", "Confirmed"}
  /\ safety' = [safety EXCEPT ![e] = NoCheck]
  /\ UNCHANGED <<clock, event, timing, rows, blocked, decision, job, told>>

(* A faulty variant: the pending holds of the old period stay. *)
RescheduleOnly(e, p) ==
  /\ Changeable(e)
  /\ p # event[e].slot
  /\ event' = [event EXCEPT ![e] = [status |-> "Planning", slot |-> p]]
  /\ safety' = [safety EXCEPT ![e] = NoCheck]
  /\ UNCHANGED <<clock, timing, rows, blocked, decision, job, told>>

(* The bookings keep the period they were made for; pending holds are cancelled. *)
Reschedule(e, p) ==
  /\ Changeable(e)
  /\ p # event[e].slot
  /\ event' = [event EXCEPT ![e] = [status |-> "Planning", slot |-> p]]
  /\ safety' = [safety EXCEPT ![e] = NoCheck]
  /\ rows' = [b \in Ids |->
                IF b \in RowsOf(e) /\ rows[b].kind = "hold" /\ rows[b].status = "pending"
                THEN [rows[b] EXCEPT !.status = "cancelled"] ELSE rows[b]]
  /\ UNCHANGED <<clock, timing, blocked, decision, job, told>>

-----------------------------------------------------------------------------

Scheduler(s) ==
  \/ JobStart(s)
  \/ ProcessExpiredTentativeHolds(s) \/ ExpiryFails(s)
  \/ ProcessTentativeHoldReminders(s) \/ RemindersFail(s)

OfRow(b) ==
  \/ CancelCoordinatorBooking(b) \/ RemoveVenueRequest(b)
  \/ LockOwnedBooking(b)
  \/ ApproveVenueBooking(b) \/ RejectVenueBooking(b)
  \/ ConvertTentativeHold(b) \/ ReleaseTentativeHold(b)
  \/ \E e \in Events : SubmitBookingRequest(e, b) \/ SubmitTentativeHoldRequest(e, b)

OfEvent(e) ==
  \/ RequestSafetyCheck(e) \/ SafetyApproves(e) \/ SafetyAnswers(e)
  \/ Confirm(e) \/ Complete(e) \/ CancelEvent(e)
  \/ ChangeDetails(e) \/ EquipmentChanges(e)
  \/ \E p \in Slots : Reschedule(e, p)

Next ==
  \/ Tick \/ DecisionRefused
  \/ \E b \in Ids : OfRow(b)
  \/ \E e \in Events : OfEvent(e)
  \/ \E t \in Timings : UpdateVenue(t)
  \/ \E p \in Periods : MarkUnavailable(p)
  \/ \E p \in blocked : EndUnavailable(p)
  \/ \E s \in Servers : Scheduler(s)

Spec == Init /\ [][Next]_vars

(* The timer of a process fires every minute and a started run goes on to its  *)
(* end. A batch that fails is tried again on the next tick, and not all of its *)
(* attempts fail: that is the strong fairness of the batch.                    *)
Fairness ==
  \A s \in Servers :
    /\ WF_vars(Scheduler(s))
    /\ SF_vars(ProcessExpiredTentativeHolds(s))

FairSpec == Spec /\ Fairness

-----------------------------------------------------------------------------
(* What must hold *)

Apart(p, q) == p.to <= q.from \/ q.to <= p.from

(* The venue is never promised twice: two rows that keep it, confirmed bookings *)
(* or running holds, are for periods apart. Approvals recheck the schedule      *)
(* behind the venue lock, and a hold that has run out cannot be converted back. *)
NoDoubleBooking ==
  \A b, c \in Ids :
    b # c /\ Firm(rows[b], clock) /\ Firm(rows[c], clock) => Apart(rows[b].slot, rows[c].slot)

(* An event has at most one live request for the venue, whatever of its older   *)
(* ones was rejected, cancelled, released, sent back for review or has run out. *)
OneActiveRequest ==
  \A b, c \in Ids :
    b # c /\ rows[b].event = rows[c].event /\ Active(rows[b], clock)
    => ~Active(rows[c], clock)

(* A cancelled event keeps no request alive, not even one that a decision had   *)
(* in hand when the cancellation released the bookings.                         *)
CancelledEventHoldsNothing ==
  \A b \in Ids :
    rows[b].event # NoEvent /\ event[rows[b].event].status = "Cancelled"
    => rows[b].status \notin {"pending", "approved"}

(* A hold runs into the period it is held for by no longer than the decision    *)
(* took that approved it, and is never prolonged nor moved: the lead time and   *)
(* the expiry are read apart, the lead time is judged by the start of the       *)
(* event, and a moved event takes its pending holds with it.                    *)
HoldEndsWithItsPeriod ==
  [][\A b \in Ids :
       Held(rows'[b]) =>
         IF Held(rows[b])
         THEN rows'[b].expires = rows[b].expires /\ rows'[b].slot = rows[b].slot
         ELSE rows'[b].expires - rows'[b].slot.from <= clock - decision.since]_vars

(* The coordinator is told of each hold's life once and truly: at most one      *)
(* reminder, then the one way it ended, and never of an end that did not occur. *)
ToldTruly ==
  \A b \in Ids :
    LET reminder == IF rows[b].reminded THEN <<"reminder">> ELSE << >>
    IN  \/ rows[b].status = "removed"
        \/ told[b] = reminder /\ rows[b].status # "expired"
        \/ told[b] = Append(reminder, "converted") /\ rows[b].kind = "booking"
        \/ /\ told[b] = Append(reminder, rows[b].status)
           /\ rows[b].kind = "hold" /\ rows[b].status \in {"expired", "released"}

(* A closed request stays closed: no decision, expiry or review revives it; an  *)
(* event in Planning may only remove it.                                        *)
ClosedStaysClosed ==
  [][\A b \in Ids :
       /\ rows[b].status \in {"rejected", "released", "cancelled", "expired"}
       /\ rows'[b] # rows[b]
       => rows'[b].status = "removed" /\ event[rows[b].event].status = "Planning"]_vars

(* A safety check that is asked for or approved covers the bookings in force,   *)
(* until the event is cancelled: the event has an approved booking, and every   *)
(* other request of it is closed or rejected.                                   *)
SafetyCoversTheBookings ==
  \A e \in Events :
    safety[e].state \in {"pending", "approved"} /\ event[e].status # "Cancelled" =>
      /\ \E b \in RowsOf(e) : rows[b].status = "approved" /\ rows[b].kind = "booking"
      /\ \A b \in Current(e) :
           \/ rows[b].status = "approved" /\ rows[b].kind = "booking"
           \/ rows[b].status = "rejected"

(* Nobody confirms an event without a venue: at the confirmation the event has  *)
(* an approved booking of a venue that is available for it, although readiness  *)
(* alone lets a history of released bookings pass.                              *)
ConfirmedWithVenue ==
  [][\A e \in Events :
       event[e].status # "Confirmed" /\ event'[e].status = "Confirmed"
       => \E b \in RowsOf(e) : Booked(b)]_vars

(* A hold that has run out is ended by the scheduler, if nobody ends it before  *)
(* and no decision that saw it running converts it.                             *)
ElapsedHoldIsEnded ==
  \A b \in Ids : Held(rows[b]) /\ Elapsed(rows[b], clock) ~> ~Held(rows[b])

-----------------------------------------------------------------------------
(* The inductive invariant *)

(* Only rows that are not there belong to no event, and nothing was told of a   *)
(* row that was never inserted.                                                 *)
RowsOwned ==
  \A b \in Ids :
    /\ rows[b].event = NoEvent <=> rows[b].status \in {"none", "removed"}
    /\ rows[b].status = "none" => told[b] = << >>

(* A pending hold asks for the period its event is planned for now, and the     *)
(* decision on it saw the start of that period.                                 *)
HoldsFollowTheirEvents ==
  /\ \A b \in Ids : PendingHold(b) => rows[b].slot = event[rows[b].event].slot
  /\ decision.busy /\ PendingHold(decision.row)
     => decision.sawStart = rows[decision.row].slot.from

(* A hold that ran when the decision on it began keeps its place until the      *)
(* decision ends, even if it runs out meanwhile: no other row took the venue or *)
(* its event's place, because both take the venue lock.                         *)
DecisionStands ==
  decision.busy =>
    /\ decision.since <= clock
    /\ Held(rows[decision.row]) /\ ~Elapsed(rows[decision.row], decision.since) =>
         \A c \in Ids \ {decision.row} :
           /\ Firm(rows[c], clock) => Apart(rows[c].slot, rows[decision.row].slot)
           /\ Active(rows[c], clock) => rows[c].event # rows[decision.row].event

(* Why the properties above hold together: each step needs several of them.     *)
IInv ==
  /\ TypeOK
  /\ RowsOwned
  /\ HoldsFollowTheirEvents
  /\ NoDoubleBooking
  /\ OneActiveRequest
  /\ CancelledEventHoldsNothing
  /\ DecisionStands
  /\ SafetyCoversTheBookings
  /\ ToldTruly

-----------------------------------------------------------------------------
(* What a comment of the repository says *)

(* venues.repository.ts:669: "a Completed event's venue bookings cannot be      *)
(* approved".                                                                   *)
CompletedIsNotApproved ==
  [][\A b \in Ids :
       rows[b].status = "pending" /\ rows'[b].status = "approved"
       => event[rows[b].event].status # "Completed"]_vars
=============================================================================
