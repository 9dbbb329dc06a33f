# A verification model of the event-management backend

The repository is an event-management system: organisers submit events, a Lead
assigns them to coordinators, coordinators book venues and equipment, obtain a
safety check and confirm the event, attendees register for it or join its
waitlist. The backend (`backend/src`, NestJS and PostgreSQL) holds the state;
the frontend presents it, with one exception: the page that creates a request
(`frontend/src/features/events/pages/create`) keeps a pending save and a
submission key of its own, which the backend relies on. This directory holds
TLA+ modules that model this logic, TLC configurations that check them on small
instances and TLAPS proofs for every value of the constants.

All paths below are relative to the repository's source tree.

## 1. The system

Every request is handled by a service method. The backend's state lives in
PostgreSQL only: a handler opens a transaction (`backend/src/database/database.service.ts`),
locks the rows it decides on (`SELECT ... FOR UPDATE`), reads, writes and
commits; an exception rolls back. Two requests therefore interleave at their
row locks. What a handler reads *before* its lock may be stale *behind* it,
which is where most of the hard behaviour is.

| Component | State it keeps | Operations | Interacts with |
|---|---|---|---|
| Registrations, waitlist (`registrations/`) | `event_registrations`, the waitlist sequence | register, joinWaitlist, withdraw with promotion, findMine with lazy settling | event row (lock, window, capacity), notifications |
| Registration settings (`registrations/settings/`) | window, limit, version on the event row | get, update | settles and fills the waitlist in its own transaction |
| Cancellation (`events/cancel/`) | event status | cancel, five releasers in a fixed order (venue, registration, waitlist, change request, equipment) | all components that hold something for an event |
| Cancellation requests (`events/cancellation-requests/`) | one request row per attempt | submit, withdraw, decide | accept runs the cancellation inside its transaction |
| Venue bookings and holds (`venues/repository/`) | `venue_bookings`, `venue_booking_requests` | submit booking or hold, approve, reject, convert, release, cancel | venue row lock, event row lock, timing triggers |
| Hold scheduler (`venues/tentative-hold-expiry.scheduler.ts`) | none of its own | expire, remind, every 60 s | races every hold operation |
| Venue records | `venues`, blocked periods | create, update, mark and end unavailability | bookings of the venue |
| Event status (`events/status/`) | event status, safety check, feedback | request a safety check, remove arrangements, resolve feedback, confirm, complete | readiness reads bookings, equipment, safety |
| Safety officer (`events/safety-officer/`) | safety check, feedback items | respond | sends bookings and reservations back to review |
| Change requests, review, planning (`events/change-requests`, `events/planning`) | `event_change_requests`, event fields | submit, withdraw, approve, deny, direct change | rescheduling affects bookings, equipment, safety check |
| Equipment (`equipment/`) | stock, requests, items, reservations | submit, update, reserve, cannot provide, stock changes | event row, stock rows |
| Lead assignment, availability | coordinator of an event, a flag per coordinator | assign, reassign, set availability | event row, user row |
| Drafts (`event-drafts/`) and the page that creates a request | a draft with version and operation id; in each window a form, a pending save, a submission key | save, submit, retry, reopen | creates one event per draft or form |
| Clarifications, completion records | messages, one record per event | add, resolve, save | event row lock |
| Triggers (`database/postgresql/init/003_functions_triggers.sql`) | none | invalidate a safety check, cancel pending holds, flag bookings | fire inside any of the transactions above |

### Hard behaviours

* **Stale reads**: times, statuses and versions read before a lock.
* **Races for a scarce thing**: the last place, a venue slot, the last unit.
* **Order**: first-come first-served promotion, notices written before the
  rows they are derived from change.
* **Timers**: holds expire and are reminded by a job that races its users;
  a closed waitlist is settled lazily by whoever looks.
* **Long legal sequences**: a rule checked at one step and broken by a later
  one elsewhere (a start moved in front of a saved close; a change that waits
  for review while another is applied).
* **Lost answers**: the page gives up on a call that may still arrive, and
  retries a save that may have been applied.
* **Statements on their own**: a save of an availability and the three queries
  that tell the Lead of it are not one transaction.
* **Lock order**: transactions that take event, venue, booking and stock rows in
  different orders.

`PROJECT.json` lists each one at its line under `hazards`, with the property
that would catch it or the reason why none does.

## 2. Modules

### The registrations of one event (built)

| Module | Role |
|---|---|
| `PlaceQueue` | What attendees are promised: a bounded set of holders and a first-come first-served queue (each person who waits, with those in front). No clock, no rows, no requests. |
| `Registrations` | The detailed model: registrations, waitlist, settings, cancellation, the life of the event as far as it touches them. |
| `RegistrationsRefinement` | The refinement mapping from rows to holders and queue (each waiting row, with those the promotion reads before it). |
| `MCRegistrations` | The instances for TLC. |
| `Registrations_proofs`, `RegistrationsRefinement_proofs` | The TLAPS proofs: the invariants and action properties; the refinement. |

State: `event` is the event row (status, start, window, limit, settings version),
`coordinator` the assigned coordinator, `regs` one row per attendee with its
status and, while it waits, `joined_at` and `waitlist_seq`; `nextSeq` is the
PostgreSQL sequence, `notified` the recipients of an `EventCancelled` notice,
`clock` the injected clock. `req[h]` is what handler `h` read before it asked
for the event row lock.

Granularity: the part of a handler behind the event row lock is one action,
because no other writer of these rows runs meanwhile. The part before it is an
action of its own where the handler reads something there that it uses later:

| Code | Before the lock | Behind the lock |
|---|---|---|
| `register`, `joinWaitlist` | nothing | `Register`, `JoinWaitlist` |
| `withdraw` | `WithdrawRead` (event status, start, time) | `WithdrawRefused`, `WithdrawTooLate`, `LeaveWaitlist`, `ReleasePlace` |
| `findMine` | `FindMineRead` (time, due list) | `SettleIfDue` |
| settings `get`, `update` | `SettingsRead` (version, caller) | `SaveSettings`, `SaveRefused` |
| `cancel` | `CancelRead` (time, caller) | `CancelEvent`, `CancelRefused` |
| `decide` (accept) | nothing used later | `AcceptCancellationRequest` |

`fillFreeSpots`, `settleLocked`, the two releasers and the notices are part of
the action that calls them. `Abort` is the failure of a request before its
commit: the transaction rolls back and leaves no trace. A refused withdrawal
*returns*, so its settle is committed; a late one *throws*, so it is not.

Abstracted: names, texts, form fields, role checks; `Approved` and `Submitted`
are folded into `Planning`, since every guard of these handlers treats them
alike. `Confirm` and `Reschedule` are environment steps here: the arrangements
are the subject of the next two modules, the change requests of `EventChanges`.

### The bookings of one venue (built)

| Module | Role |
|---|---|
| `VenueBookings` | Requests, holds, decisions, unavailable periods, the expiry scheduler, and the safety check that stands on the bookings and gates the confirmation of an event. |
| `MCVenueBookings` | The instances for TLC. |
| `VenueBookings_proofs` | The TLAPS proofs. |

State: `rows` are the `venue_bookings` rows of one venue that belong to events
(event, period, `request_kind`, status, `hold_expires_at`, whether
`hold_reminder_sent_at` is set), `blocked` its unavailable periods, `timing` its
setup and turnaround times; `event` is status and period of each event, `safety`
its safety check with the rows its open feedback names; `decision` is the Venue
Staff transaction under way, with what it saw of the event and the time its lock
was taken (`since`), `job` the step of each process's scheduler, `told` the hold
lifecycle notices of each row.

Granularity follows the locks:

| Code | Locks | Actions |
|---|---|---|
| `submitBookingRequest`, `submitTentativeHoldRequest` | venue, event | one step, excluded while a decision holds the venue |
| `approveVenueBooking`, `rejectVenueBooking`, `updateTentativeHold` | venue; then the event is read *unlocked*; then the booking | `LockOwnedBooking` (what was seen of the event), then `Approve...`, `Reject...`, `Convert...`, `Release...` or `DecisionRefused` |
| `cancelCoordinatorBooking` | booking and event | one step, may fall between the two steps of a decision |
| `update` of a venue, `markUnavailable` | venue | `UpdateVenue`, `MarkUnavailable` |
| `endUnavailable` | the period's row | `EndUnavailable` |
| the scheduler | the rows it updates | `JobStart` (time of the expiry), the expiry batch or its rollback (time of the reminders), the reminder batch or its rollback |
| `requestSafetyCheck`, `respond`, `confirm`, `complete`, `removeVenueRequest`, cancellation, changes | event, then shared locks on its rows | one step each |

An approval reads the clock for the lead time (`venues.repository.ts:677`), for
the conflicts (`:739`) and for the expiry (`:775`), with queries between: the step
takes three readings in this order from `since` to the time of the write. A
conversion or release takes one of these instants for its check of the expiry
(`:906`). A reading may come before the wait for the booking's row, which the code
takes first; that only adds behaviours. A submission reads the clock for each
check too; one reading stands for them, since what is live or clashes only gets
less with time and the approval judges the lead time again.

The triggers are part of the steps that fire them: `Touch` resets a safety check
when a row of its event changes, unless open feedback names the row;
`Reschedule` cancels the pending holds of the old period; `UpdateVenue` flags
pending holds when the setup time changes.

`Confirm` is one step although `confirm` reads the venue's availability without
the venue lock: a new row needs the event lock, the rows it reads are locked, and
the transaction that takes a booked period away writes a notice to the booking's
coordinator whose foreign key waits for the event lock, so it commits before the
read or after the confirmation.

Abstracted: an event may book several venues, the module follows one; capacity,
facilities and layouts only warn; `Approved` and `Submitted` are folded into
`Planning`; an event always has a coordinator; whether equipment and registration
are ready is left open (a nondeterministic gate would only remove steps) and
`EquipmentChanges` is the trigger of their rows; `changes_needed` and `rejected`
are one `"answered"`, the former for any set of bookings, the latter for all; the
feedback items a coordinator ticks off are left out.

### The equipment of the events

`EquipmentReservations` (instance `MCEquipment`, proofs in
`EquipmentReservations_proofs`) models the inventory, the
coordinators' requests with their lines, the decisions of Technical Support, and
what moves, cancellations and the safety check do to reservations.

State: `stock` is the `active_quantity` of each record (0 while it is not
available), `event` status and period, `request` the status of the event's one
request, `lines` its items in order, each with the status of the reservation
linked to it (`"none"` when it was removed) and its quantity as a set of unit
tokens, so that how many units some lines take is a cardinality, `noneNeeded` the confirmation that
no equipment is needed, `safety` the safety check with the lines its open
feedback names, `desk` the reservation under way.

| Code | Locks | Actions |
|---|---|---|
| `submit`, `update`, update after a safety answer | event | `Submit`, `UpdateRequest`, `UpdateSelected` |
| `reserve` | event, then the inventory rows, then a sum over overlapping events | `ReserveStart` (locks and sum), then `Reserve` or `ReserveRefused` |
| `markCannotProvide`, `removeEquipmentRequest`, `confirmNoEquipment` | event | one step each |
| updates of the inventory | the record's row | `UpdateEquipment`, which waits for a reservation that holds the row |
| `requestSafetyCheck`, `respond`, `confirm`, `complete`, cancellation, changes | event | one step each |

Between `ReserveStart` and `Reserve` the handlers of other events run, a second
reservation of other equipment and an update of another record among them.
`Touch` is the trigger on `equipment_reservations`; `Move` is
`rescheduleEquipment`, which keeps the reservations of an event that moves
within its period and releases those of one that moves out of it.

### The drafts of an organiser

`EventDrafts` (instance `MCEventDrafts`, proofs in `EventDrafts_proofs`) composes
the browser windows of one organiser with the server: the page's form, pending save, retry and dialogs
(`EventCreatePage.tsx`, `utils/api.ts`), the calls under way, and the handlers of
drafts and events (`drafts.service.ts`, `EventsService.create`).

State: `draft` is a row of `event_drafts` (fields, version, the operation applied
last), `events` the events with their `submission_key`, `window` what each window
shows and waits for, `net` the calls that have not reached the server. A window
sends one call at a time. `GiveUp` is the end of its 15 seconds: the call stays
in `net` and may be served at any later time, or its answer comes too late and is
lost. A call is served at most once and calls overtake each other. `Close` leaves
the page in whatever state. A handler holds the draft's row lock from its first
read and is one step.

A form is its text, its dates and the choice to register through the website,
because these travel differently: a draft stores text and dates, a submission
sends the dates beside the draft, and the choice is in no draft.

### The changes of one event

`EventChanges` (instance `MCEventChanges`, proofs in `EventChanges_proofs`) models one event from its submission to
its end with the three ways its details change: the coordinator's own update,
which applies at once or waits for review as flagged changes
(`event-planning.service.ts`), the organiser's change requests and their review,
and the cancellation, direct or requested. Every handler locks the event row
before it reads anything else and is one step. What is checked is the order in
which organiser, coordinator and clock take their steps.

State: `details` are the start and the end, the two fields that one check relates
and one update may change together; `flags` is the change of each field that
awaits review, with the decision on each booking it affects; `history` its
Applied rows; `requests` and `audit` the change requests and their audit rows;
`cancels` the cancellation requests. Which bookings a new time affects is any
choice of `Affected`, the same for both times of one update, as in
`updateEvent`, which assesses a move as one.

### Assignment, availability and who is told

`Assignment` (instance `MCAssignment`, proofs in `Assignment_proofs`) models who coordinates an event, the
availability of the coordinators, and the notices of what they have to act on.

| Code | Locks | Actions |
|---|---|---|
| `assign`, `reassign` | event; then the coordinator's row `FOR SHARE` until the commit | `Assign`, `Reassign` (check and lock), then `CommitMove` |
| change and cancellation requests, clarifications, reviews, cancellation | event | one step each |
| the save of an availability | none but its own row | `StartSave` (the snapshot of the statement), `Update`, then `Count`, `TellLead` or `ClearLeadNotice`, each committed on its own; `SaveFails` before any of them |
| `readNotification` | none | `Read`, `LeadReads` |

Nothing keeps the saves of one coordinator apart: a second tab, or the call after
one that the page gave up on (`api.ts:35`), puts two under way, so `StartSave`
asks for a free call and nothing else.

`heard`, `told` and `astray` are auxiliary: who was told of the latest request of
a kind, of which unavailable coordinators the Lead was told, and whose save
crossed another or broke off after its UPDATE without one that has come to its end
with no other under way since (`Mended`).

### Plan

Built, in this order: the registrations, the venue, their proofs; the equipment,
the drafts, the changes of one event, the assignment. Each models what the others
leave open as steps of the environment, so that a property that holds in one does
not depend on a discipline of another. Left:

* `VenueCalendar`: an abstract specification of `VenueBookings` (a calendar in
  which firm entries never overlap), with a refinement run and its proof.

A model of PostgreSQL's lock modes was considered and left out: the pairs of
transactions that can wait for each other are known (`PROJECT.json`, hazards), the
database ends each such wait by an error, and every module allows a transaction
to fail.

## 3. Runs

| Run | Instance | What it shows |
|---|---|---|
| `registrations` | 3 attendees, 2 requests in flight, 6 kinds of settings saves, limit 1 or 2, clock 0..2, 3 saves, 3 joins | The inductive invariant and its parts, no ended entry comes back by itself, every withdrawal is answered truly, and the rows implement `PlaceQueue`. |
| `registrations_answers` | the organiser, a coordinator who is an attendee too, starts 1 and 2, 2 requests, fair row lock | Every request is answered, a cancelled event is empty, everybody who lost a place was told. |
| `venue_bookings` | 2 events, 2 rows, adjacent periods, setup time 0 or 1, lead time 1, clock 0..1 | The venue is never promised twice, one live request per event, cancelled events hold nothing, closed requests stay closed. |
| `venue_safety` | 1 event, 2 rows, periods the clock passes, one unavailable period | The safety check covers the bookings in force, no confirmation without an available venue, a hold runs into its period by no more than its decision took, and the whole inductive invariant. |
| `venue_holds` | 1 event, 1 row, 2 schedulers, fair | The coordinator is told of a hold once and truly; a hold that ran out is ended. |
| `equipment` | 2 events, 1 with 3 periods (inward and outward moves), requests of one or two lines, stock 0..2 | Units are never promised twice, requested lines are in the queue, the safety check and a confirmed event keep their equipment, and the whole inductive invariant. |
| `drafts` | 2 windows, 1 form, 3 fillings, 2 saves, 5 calls | What a window was told is true, no update is lost, one event per draft and per form, and the inductive invariant. |
| `event_changes` | 3 instants, 2 bookings, 1 change request, 2 cancellation requests, 3 history rows | The schedule stays in order, the history is one chain, every request ends once, a confirmed event keeps its details, and the inductive invariant. |
| `assignment` | 2 coordinators, 2 moves, 2 requests or threads, 3 saves, 2 of them at a time, each of which may fail | What is pending was told, a former coordinator is asked nothing, the Lead knows who is unavailable unless a save went astray, and the inductive invariant. |
| `completed_approved`, `draft_dialog`, `lead_untold` | small instances | Each finds the counterexample of a finding below. |

Why the bounds are enough: three attendees are the least with a holder and two
who wait, so order and overtaking show; two requests are the least that race;
three saves allow open, shut and reopen (or a capacity change between); a clock
of three instants has before, at and after each window edge. The
limit of joins bounds the sequence, nothing else. No run of the registrations
turns deadlock checking off: aborts and reads are possible in every state.

For the venue, time is scaled: the lead time and the length of a hold are equal, as
in the code (336 hours), the reminder window is one instant. In `venue_bookings`
both are one instant and the periods start at 1 and 2, so the first can be held
from 0 only and the second from 0 or 1; a hold approved at 0 runs out at 1, before,
during or after a decision on it, and another can take its place. In the runs with
one event both are two instants and the clock goes to 3, behind the start of the
periods, so that decisions take time across several instants and events complete.
The second period lies right behind the first, apart without setup time and
clashing with one. Two rows are the least that clash, and a row is never reused, so
`Ids` bounds the requests made in one history. Two events with two rows cover both a clash between events and a second
request of one event. The runs without a scheduler may stop (all rows used,
clock at its bound, all events cancelled or completed) and say so; `venue_holds`
has schedulers that never stop and checks for deadlock.

For the equipment, one record suffices because different records meet only in
that a reservation locks several at once; a unit and two lines of one unit, with a
stock of 0 to 2, are the least where two events can each be served and not both.
The period of one event is moved inward and outward, into and out of the other's.

For the drafts, two saves are a save and its successor, or one in each window;
five calls are enough to lose the answer of a save, retry it, submit, and have a
late call of the other window behind it. One form is enough because forms share
nothing; a second window on the same draft is what competes. Texts are a complete
one, one the server refuses and the blank one.

For the changes, three instants are the least in which both times move and one
half, applied first, would end the event at its start. A request is never changed
after its end and at most one is pending, so one change request meets everything
it can meet; two cancellation requests allow a declined and an accepted one.
Three rows are a chain in one field beside a change of the other.

For the assignment, two moves are an assignment and a reassignment, so that there is
a former coordinator, and two requests cover a pending one beside a thread, two kinds, or one made
again. Three saves of which two are under way at a time are two that cross, or one
that breaks off, and a third that mends what they left. `LeadKnows` says nothing
of a coordinator who is `astray`. It could not: two saves that cross may leave a
notice of an available coordinator or none of an unavailable one, and a save that
breaks off leaves the Lead untold (`lead_untold`). What it says is that nothing
else does, in particular no assignment that crosses a save, and that one save
which comes to its end puts everything right again.

These four runs may stop, when bounds are used up and the event is over, and say
so.

Attendees and handlers are symmetric in the first run (no property there
distinguishes them), so are events and rows in
`venue_bookings`, windows in `drafts`, bookings in `event_changes`, coordinators and calls
in `assignment`; the runs with liveness or with named people use no symmetry.

### Fairness

`FairSpec` adds weak fairness of the part behind the lock, for each handler.
PostgreSQL queues the waiters of a row lock and a transaction of this module
waits for no second lock while it holds it, so it ends and the next waiter runs.
Nothing is assumed of users, of the clock or of new requests.

For the venue, `FairSpec` assumes that a scheduler whose timer fires goes on
(weak fairness of its steps) and that not every attempt at the expiry batch
fails (strong fairness of the batch, since failing attempts disable it between
two runs). The code states both: the timer in
`tentative-hold-expiry.scheduler.ts`, the retry in the comment of
`processExpiredTentativeHolds` (`venues.repository.ts:846`). Nothing is assumed
of the clock, the staff or the coordinators.

The other modules state no fairness and no liveness: each step of theirs waits
for a person, and nothing in the code makes one act. The one exception, the
statements after a save of an availability, may fail for good; the safety
properties `LeadKnows` and `AnsweredSaveIsTold` speak once they are over.

## 4. Proofs

`Registrations_proofs` proves, for all attendees, handlers, patches, starts and
bounds allowed by the named assumptions of `Registrations`:

* `Invariance`: `Spec => []IInv`, and from it `TypeCorrect`,
  `CapacityAlwaysRespected`, `NobodyWaitsBesideAFreePlace`, `OrderOfArrival`,
  `CancelledEventStaysEmpty`, `EverybodyCancelledIsTold`;
* `GoneStaysGoneAlways` and `WithdrawalAlwaysAnsweredTruly`: the action properties
  `GoneStaysGone` and `WithdrawalAnsweredTruly`.

The promises are not inductive one by one. That nobody waits beside a free
place needs the capacity to be respected (or a promotion could not stop in
time), the order of arrival needs `ArrivalsBehind` (every sequence number
drawn so far is below the next one and every join time is at most the clock),
and the notices need the cancelled event to be empty. `IInv` is their
conjunction with the types. The proof has one lemma per action or group of
alike actions; `FillFacts` carries the counting argument of the promotion over
finite cardinalities, and `Sound`, `Orderly` and `Told` are the parts of `IInv`
as predicates on rows, so that intermediate rows (settled, withdrawn, filled)
can be spoken of.

`RegistrationsRefinement_proofs` proves `ImplementsPlaceQueue`: the initial rows are
an initial queue, and each step of `Registrations` is a step of `PlaceQueue` or
leaves it alone. The step from one to the other is the promotion: the `k` earliest
entries it picks are those with fewer than `k` others in front (by counting down
the order of arrival, which `IInv` makes a total order), so `fillFreeSpots` is
`Serve`. Who leaves the list leaves it in order, a new entry is behind all others
because its sequence number is, and a request that settles a closed list is a
`Close`. A withdrawal settles first, or not, and fills then: `Release` allows both.
A save of the settings is a `Resize`; where it makes no more room, nobody waits
beside a free place, so nobody is served. The mapping needs `IInv` throughout:
without the capacity a promotion could be asked for a negative number of entries.

`VenueBookings_proofs` proves, for all events, rows, schedulers, periods, setup
times and bounds allowed by the named assumptions (of which `HoldLength <=
LeadTime` is the one about the code: 14 days and 336 hours):

* `Invariance`: `Spec => []IInv`, and from it `TypeCorrect`, `NeverBookedTwice`,
  `OneRequestAtATime`, `CancelledEventLetsGo`, `SafetyAlwaysCovers`,
  `AlwaysToldTruly`;
* `ClosedStaysClosedAlways`, `ConfirmedWithVenueAlways` and `HoldsEndInTime`, the
  action properties.

Here too the properties lean on each other. A hold runs into its period by no more
than its decision took only because the decision saw the start of the period the
row asks for (`HoldsFollowTheirEvents`, kept by the trigger that cancels the
pending holds of a moved event). A hold that runs out while a decision on it is
under way may still be converted, by the earlier reading; that it clashes with
nothing is `DecisionStands`: whoever else wants the venue or the event's place
needs the venue lock, which the decision has. A cancelled event holds nothing because the releaser misses no
row; the safety check covers the bookings because no row of its event changes
without a reset; and a confirmation finds a venue because of the safety check,
since readiness alone lets a history of released bookings pass. The proof sorts
the steps by what they do to the rows (`StepKinds`: a request is inserted, one is
approved, one converted, or each row is left alone, ended, removed, sent back or
marked as reminded, `Moves`), so that a part of the invariant is
proved against kinds of step and not against each action.

`EquipmentReservations_proofs` proves, for all events, equipment, periods and
lists of lines: `Invariance` (`Spec => []IInv`), and from it
`RequestedIsAlwaysPending`, `ConfirmedAlwaysKeepsIt`, `SafetyAlwaysCovers`; and
`StockIsNeverOverdrawn`, whose sums over the events add up because there are
finitely many (`EventsAssumption`). What
must hold of an event speaks of that event alone (`Good`), and a step changes one
event (`Same` of the others), so each action is one lemma about its own event.
The promises need one fact beside them, `DeskIsOpen`: between the two steps of a
reservation its event is neither confirmed nor completed and its request is still
pending, because the event row is locked; without it a `Reserve` could run on an
event that was confirmed meanwhile. A check that is pending or approved survives a
decision only when the trigger sees no row change, and then readiness is what it
was (`SameRows`). That stock is never overdrawn needs `DeskSawEnough`: what a
reservation counted at its locks is still enough when it writes. Others may give
units back in between, but none can take any of the equipment it wants or lower its
stock (`RowsAreLocked`). Units are tokens of their line, so the units held at
one moment are a union of disjoint sets, and a bound on a union over
overlapping events is kept by each kind of step (`Keeps`, `Stays`, `ReserveFits`).

`EventDrafts_proofs` proves, for any windows, forms, fillings, keys and bounds:
`Invariance`, `TypeCorrect`, `SubmittedDraftHasItsEvent`, `SavedIsTrue`,
`FormBecomesOneEvent`, `DoneIsSubmitted` and the action property `NoUpdateIsLost`.
What a window shows is true only if every call and every answer on its way is, so
`IInv` speaks of those too. Its core is `Knows`: who saw a draft at some version with
some fields is not contradicted by the draft, which is newer or still says so. It is
kept for the window (`WindowsKnow`, with `ToldTruly` for the answer a window has not
read yet) and for each call under way (`CallsKnow`), however late it is served: a
version that has been overtaken is refused, and one that has not is applied to the
fields its sender saw. `CallsAreUnique` and `CallsAreAwaited` tie an answer to the
window that waits for it, so that a late call of a window that gave up is never taken
for the answer to its next one; `IdsAreDrawn` keeps a new form apart from all of
these, `VersionsCount` a stored draft from none, and `OneEventPerKey` is the unique
index on the submission key.

`EventChanges_proofs` proves, for any instants, bookings and bounds: `Invariance`,
`ScheduleAlwaysInOrder`, `HistoryIsAlwaysAChain`, `RequestsAlwaysEndOnce`, and the
action property `ConfirmedDetailsAlwaysStand`. The order of the schedule is checked
by each handler on the merged details behind the lock, so it needs nothing else;
the chain needs that a field in review is not written by anything but its own
review, which is what the conflict checks of updates and approvals are for; the
audit needs that requests are numbered within `MaxRequests`.

`Assignment_proofs` proves, for any coordinators, calls and bounds, with saves that
cross and fail: `TypeCorrect`, `PendingIsAlwaysTold`, `FormerIsNeverAsked`,
`Invariance` and `LeadAlwaysKnows`. The first three need only the invariant
`Answered`, whose part `MoveIsAvailable` is the shared lock on the row of the
coordinator an event is moved to. For a coordinator who is not astray,
`SavesInOrder` relates the steps of a save to the row it has written, and
`LeadIsBeingTold` says that who is unavailable with an active event was reported
to the Lead or has a save under way that will do it; `SavesWellFormed`, which holds
of every save, is what lets a mended coordinator come back under both.

No run lists a `TypeOK`: it is the first conjunct of the `IInv` that the runs
check.

Only model-checked: liveness (`EveryRequestAnswered`, `ElapsedHoldIsEnded`), which is
beyond the prover, and everything the violation runs show. Each invariant and each
action property of the other runs is the subject of a theorem.

## 5. Findings

* `completed_approved`: a decision reads the event status without a lock, so a
  request of an event that completes meanwhile is approved.
* `draft_dialog`: a submission the page gave up on creates its event behind the
  dialog that says the request has not been submitted; submitting the draft then
  creates a second event.
* `lead_untold`: when a statement after the UPDATE of an availability fails, the
  coordinator is unavailable and the Lead untold, and the retry, which finds the
  value unchanged, is answered as saved and tells nobody.

### Seen while modelling

What the models show besides, without a run of its own. Registrations:

* `withdraw` takes its time before the lock and promotes by it
  (`registrations.service.ts:261`), so an entry can be promoted after
  registration has closed, which the comment of `fillFreeSpots`
  (`promotion.ts:14`) excludes; it also chooses its refusal by the status it read
  there (`:277`).
* An approved move of the start leaves the registration window alone
  (`change-request-review.service.ts:182`), so registration can be open after the
  start, which the settings form refuses (`registration-settings.validation.ts:130`).
* A reassignment can make a waiting attendee the coordinator
  (`lead-assignment.service.ts:250`), which joining the list excludes
  (`registrations.service.ts:144`).

Venue and equipment:

* A hold that was stored as expired stays among the arrangements
  (`readiness.ts:228`) and keeps its event from being confirmed whatever else is
  booked; no operation takes it away. `readiness.spec.ts:564` says both that a
  booking beside it is enough and that it is still listed as outstanding.
* An approval at exactly 336 hours sets the expiry by a later reading of the clock
  than it checked the lead time by (`venues.repository.ts:677`, `:775`), so a hold
  can run into its own period by what the decision took.
* After an event has moved, its approved bookings keep the period they were made
  for, and readiness does not compare the two.
* `reserve` does not ask whether the event was cancelled: a request that was
  pending then can be reserved afterwards (`equipment-requests.repository.ts:281`,
  against `cancelled-guard.ts:2`).
* A move out of the held period releases the reserved lines. When other lines
  await a decision at that moment, the reservation that follows decides those
  only: the request is Reserved and the event ready with the released lines
  beside it (`event-planning.repository.ts:431`).
* Renaming an inventory record separates it from the lines that name it.

Changes and cancellation:

* A whole flagged change can be applied after a booking of it was rejected
  (`event-planning.service.ts:327`), against
  `docs/test-cases/SPM-49_SPM-85_SPM-97_Test-Cases.md:201`.
* `closeChange` does not ask again whether the new start is in the future.
* A change that is flagged when the event is confirmed blocks a later change
  request of the same field and cannot be resolved, because resolving needs an
  event in Approved or Planning (`change-request-review.service.ts:80`).
* The pending cancellation request of an event that is rejected or cancelled
  directly is stored as pending for ever (`cancellation-request.status.ts:3`).
* `setFeedbackResolution` locks the safety check and not the event.

Drafts:

* A draft does not store the choice to register through the website: it is off
  when the draft is reopened and in the event a draft becomes
  (`drafts.service.ts:134`).
* An edit made after the answer of a submitted form was lost is lost itself:
  the retry is answered with the event as it was posted first.
* A submission that another window has overtaken is answered as a success
  (`drafts.service.ts:121`); a refused save stays pending in its window until the
  page is left, unless the server named the wrong fields and the user was saving.

Assignment:

* Two saves of one availability that cross can leave a notice of an available
  coordinator, or none of an unavailable one: the subquery of the second may have
  read a value older than the first one's commit, and the statements that follow
  run in either order.
* A second confirmation, after a change request took the event back, sends no
  second notice; a former coordinator keeps an unread notice of a safety response.

## 6. Not modelled

Authentication and roles (an external identity provider), formatting, validation
of form fields beyond the rules named in the modules, read-only views (queues,
history, reports, exports), the completion record (one row whose last write wins
by design), and the unscheduled close job and unused reopen hook, which nothing
calls. Of the frontend only the page that creates a request is modelled: the other
pages show what the backend answers and keep no state it relies on, so a model
of them would be a model of rendering. They are most of the repository's lines,
and with the tests, texts and types the reason why the modules speak of a small
part of them. `PROJECT.json` lists every component with its status.

Hazards without a property, each with its reason in `PROJECT.json`: the start moved
in front of a window and the attendee who becomes coordinator (the code lets both
happen and no line promises otherwise for the operation that does it), the expired
hold beside a booking (see above), the two waits that the database ends by an error (a lock
cycle of booking and event; a connection pool whose connections all wait for
another, `database.service.ts:30`), and the tick of a feedback item (no gate
reads it once the event has left Planning). The close job is no hazard of this
code, since nothing runs it. That a save of the registration settings with an old
version is refused (`registration-settings.service.ts:112`) is a guard of the model
and has no property of its own; what a save may do to the places and the list has.
