------------------------- MODULE VenueBookings_proofs -------------------------
(***************************************************************************)
(* Proofs about VenueBookings: the type invariant, the inductive invariant *)
(* IInv and what follows from it, for any events, any number of rows and   *)
(* servers, any periods, buffers and bounds.                               *)
(***************************************************************************)
EXTENDS VenueBookings, TLAPS

Checks == [Events -> [state : {"none", "pending", "approved", "answered"},
                      review : SUBSET Ids]]

-----------------------------------------------------------------------------
(* Rows, the periods and the trigger *)

(* A row that a request inserts, or that a removal leaves, is a row. *)
LEMMA RowType ==
  ASSUME NEW e \in Events, NEW p \in Period, NEW kind \in {"booking", "hold"}
  PROVE  /\ Blank \in Row /\ Allowed(Blank)
         /\ [Blank EXCEPT !.status = "removed"] \in Row
         /\ Allowed([Blank EXCEPT !.status = "removed"])
         /\ [Blank EXCEPT !.event = e, !.slot = p, !.kind = kind, !.status = "pending"] \in Row
         /\ Allowed([Blank EXCEPT !.event = e, !.slot = p, !.kind = kind, !.status = "pending"])
BY DEF Blank, Row, RowStatus, Allowed, Period

(* So is a row whose status alone changes, or that is marked as reminded. *)
LEMMA RowStays ==
  ASSUME NEW r \in Row, Allowed(r)
  PROVE  /\ \A st \in {"pending", "rejected", "released", "cancelled"} :
              [r EXCEPT !.status = st] \in Row /\ Allowed([r EXCEPT !.status = st])
         /\ [r EXCEPT !.reminded = TRUE] \in Row /\ Allowed([r EXCEPT !.reminded = TRUE])
<1>1. ASSUME NEW st \in {"pending", "rejected", "released", "cancelled"}
      PROVE  [r EXCEPT !.status = st] \in Row /\ Allowed([r EXCEPT !.status = st])
  <2>1. [r EXCEPT !.status = st] \in Row
    BY <1>1 DEF Row, RowStatus
  <2>2. [r EXCEPT !.status = st].status = st
    BY DEF Row
  <2> QED
    BY <2>1, <2>2 DEF Allowed
<1>2. [r EXCEPT !.reminded = TRUE] \in Row /\ Allowed([r EXCEPT !.reminded = TRUE])
  BY DEF Row, Allowed
<1> QED
  BY <1>1, <1>2

LEMMA RowsStay ==
  ASSUME TypeOK, NEW st \in {"pending", "rejected", "released", "cancelled"},
         rows' = [c \in Ids |-> rows'[c]],
         \A c \in Ids : \/ rows'[c] = rows[c]
                        \/ rows'[c] = [rows[c] EXCEPT !.status = st]
                        \/ rows'[c] = [rows[c] EXCEPT !.reminded = TRUE]
  PROVE  rows' \in [Ids -> Row] /\ \A c \in Ids : Allowed(rows'[c])
<1>1. ASSUME NEW c \in Ids
      PROVE  rows'[c] \in Row /\ Allowed(rows'[c])
  <2>1. PICK r : r = rows[c]
    OBVIOUS
  <2>2. r \in Row /\ Allowed(r)
    BY <2>1 DEF TypeOK
  <2>3. \/ rows'[c] = r
        \/ rows'[c] = [r EXCEPT !.status = st]
        \/ rows'[c] = [r EXCEPT !.reminded = TRUE]
    BY <2>1
  <2> QED
    BY <2>2, <2>3, RowStays
<1> QED
  BY <1>1

(* The trigger resets a check, or leaves it alone; one that is asked for or   *)
(* approved survives only if none of its event's rows has changed.            *)
LEMMA TouchFacts ==
  ASSUME safety \in Checks, NEW B
  PROVE  /\ Touch(B) \in Checks
         /\ \A e \in Events :
              \/ Touch(B)[e] = NoCheck
              \/ Touch(B)[e] = safety[e]
                 /\ (safety[e].state \in {"pending", "approved"} => B \cap RowsOf(e) = {})
<1>1. NoCheck \in [state : {"none", "pending", "approved", "answered"}, review : SUBSET Ids]
  BY DEF NoCheck
<1>2. \A e \in Events : \A b \in RowsOf(e) : Exempt(b) => safety[e].state = "answered"
  BY DEF Exempt, RowsOf
<1> QED
  BY <1>1, <1>2 DEF Touch, Checks, RowsOf

(* Periods that do not clash, with their buffers, are apart. *)
LEMMA NoClashApart ==
  ASSUME TypeOK, NEW p \in Period, NEW q \in Period, ~Overlaps(p, q)
  PROVE  Apart(p, q)
<1>1. timing.setup \in Nat /\ timing.turnaround \in Nat
  BY TimingsAssumption DEF TypeOK
<1> QED
  BY <1>1 DEF Overlaps, Apart, Period

-----------------------------------------------------------------------------
(* Type correctness *)

(* Every step keeps the types, and gives each hold the expiry the table asks for. *)
LEMMA TypeStep == TypeOK /\ Next => TypeOK'
<1> SUFFICES ASSUME TypeOK, Next
             PROVE  TypeOK'
  OBVIOUS
<1> USE TimesAssumption, PeriodsAssumption, TimingsAssumption
<1>0. /\ clock \in Time /\ clock \in Nat /\ safety \in Checks
      /\ rows \in [Ids -> Row] /\ \A b \in Ids : Allowed(rows[b])
      /\ event \in [Events -> [status : EventStatus, slot : Slots]]
      /\ Slots \subseteq Period
      /\ \A e \in Events : event[e].slot \in Period /\ event[e].slot.from \in Nat
                           /\ event[e].status \in EventStatus
  BY DEF TypeOK, Time, Checks, Period
<1>1. CASE Tick
  BY <1>1 DEF Tick, TypeOK, Time, Job
<1>2. ASSUME NEW b \in Ids, NEW e \in Events, NEW kind \in {"booking", "hold"}, Request(e, b, kind)
      PROVE  TypeOK'
  <2>1. rows' \in [Ids -> Row] /\ \A c \in Ids : Allowed(rows'[c])
    BY <1>0, <1>2, RowType DEF Request
  <2>2. safety' \in Checks
    BY <1>0, <1>2 DEF Request, NoCheck, Checks
  <2> QED
    BY <1>2, <2>1, <2>2 DEF Request, TypeOK, Checks
<1>3. ASSUME NEW b \in Ids, CancelCoordinatorBooking(b)
      PROVE  TypeOK'
  <2>1. rows' \in [Ids -> Row] /\ \A c \in Ids : Allowed(rows'[c])
    BY <1>0, <1>3 DEF CancelCoordinatorBooking, Row, RowStatus, Allowed
  <2>2. safety' \in Checks
    BY <1>0, <1>3, TouchFacts DEF CancelCoordinatorBooking
  <2> QED
    BY <1>3, <2>1, <2>2 DEF CancelCoordinatorBooking, TypeOK, Checks
<1>4. ASSUME NEW b \in Ids, RemoveVenueRequest(b)
      PROVE  TypeOK'
  <2>0. [Blank EXCEPT !.status = "removed"] \in Row /\ Allowed([Blank EXCEPT !.status = "removed"])
    BY DEF Blank, Row, RowStatus, Allowed, Period
  <2>1. rows' \in [Ids -> Row] /\ \A c \in Ids : Allowed(rows'[c])
    BY <1>0, <1>4, <2>0 DEF RemoveVenueRequest
  <2>2. safety' \in Checks
    BY <1>0, <1>4 DEF RemoveVenueRequest, NoCheck, Checks
  <2> QED
    BY <1>4, <2>1, <2>2 DEF RemoveVenueRequest, TypeOK, Checks
<1>5. ASSUME NEW b \in Ids, LockOwnedBooking(b)
      PROVE  TypeOK'
  <2>1. rows[b].event \in Events
    BY <1>0, <1>5 DEF LockOwnedBooking, Row
  <2>2. decision' \in Decision
    BY <1>0, <1>5, <2>1 DEF LockOwnedBooking, Decision
  <2> QED
    BY <1>5, <2>2 DEF LockOwnedBooking, TypeOK
<1>6. ASSUME NEW b \in Ids, ApproveVenueBooking(b)
      PROVE  TypeOK'
  <2>w. PICK write \in decision.since .. clock :
          rows' = [rows EXCEPT ![b].status = "approved",
                               ![b].expires = IF rows[b].kind = "hold" THEN write + HoldLength ELSE @]
    BY <1>6 DEF ApproveVenueBooking
  <2>v. write \in Int
    BY <2>w
  <2> DEFINE until == IF rows[b].kind = "hold" THEN write + HoldLength ELSE rows[b].expires
             row   == [rows[b] EXCEPT !.status = "approved", !.expires = until]
  <2>a. until \in Int \cup {NoTime} /\ (rows[b].kind = "hold" => until # NoTime)
    BY <1>0, <2>v, NullAssumption DEF Row
  <2>b. rows' = [rows EXCEPT ![b] = row]
    BY <1>0, <2>w DEF Row
  <2>c. row \in Row /\ Allowed(row)
    <3> HIDE DEF until
    <3>1. row \in Row
      BY <1>0, <2>a DEF Row, RowStatus
    <3>2. row.kind = rows[b].kind /\ row.status = "approved" /\ row.expires = until
      BY <1>0 DEF Row
    <3> QED
      BY <2>a, <3>1, <3>2 DEF Allowed
  <2>1. rows' \in [Ids -> Row] /\ \A c \in Ids : Allowed(rows'[c])
    <3> HIDE DEF row
    <3> QED
      BY <1>0, <2>b, <2>c
  <2>2. safety' \in Checks
    BY <1>0, <1>6, TouchFacts DEF ApproveVenueBooking
  <2> QED
    BY <1>6, <2>1, <2>2 DEF ApproveVenueBooking, Decide, Decision, TypeOK, Checks
<1>7. ASSUME NEW b \in Ids, RejectVenueBooking(b)
      PROVE  TypeOK'
  <2>1. rows' \in [Ids -> Row] /\ \A c \in Ids : Allowed(rows'[c])
    BY <1>0, <1>7 DEF RejectVenueBooking, Row, RowStatus, Allowed
  <2>2. safety' \in Checks
    BY <1>0, <1>7, TouchFacts DEF RejectVenueBooking
  <2> QED
    BY <1>7, <2>1, <2>2 DEF RejectVenueBooking, Decide, Decision, TypeOK, Checks
<1>8. ASSUME NEW b \in Ids, ConvertTentativeHold(b)
      PROVE  TypeOK'
  <2>1. rows' \in [Ids -> Row] /\ \A c \in Ids : Allowed(rows'[c])
    BY <1>0, <1>8 DEF ConvertTentativeHold, StillRuns, Held, Row, RowStatus, Allowed
  <2>2. safety' \in Checks
    BY <1>0, <1>8, TouchFacts DEF ConvertTentativeHold
  <2>3. told' \in [Ids -> Seq(Notice)]
    BY <1>8 DEF ConvertTentativeHold, Tell, Notice, TypeOK
  <2> QED
    BY <1>8, <2>1, <2>2, <2>3 DEF ConvertTentativeHold, Decide, Decision, TypeOK, Checks
<1>9. ASSUME NEW b \in Ids, ReleaseTentativeHold(b)
      PROVE  TypeOK'
  <2>1. rows' \in [Ids -> Row] /\ \A c \in Ids : Allowed(rows'[c])
    BY <1>0, <1>9 DEF ReleaseTentativeHold, Row, RowStatus, Allowed
  <2>3. told' \in [Ids -> Seq(Notice)]
    BY <1>9 DEF ReleaseTentativeHold, Tell, Notice, TypeOK
  <2> QED
    BY <1>9, <2>1, <2>3 DEF ReleaseTentativeHold, Decide, Decision, TypeOK
<1>10. CASE DecisionRefused
  BY <1>10 DEF DecisionRefused, Decision, TypeOK
<1>11. ASSUME NEW t \in Timings, UpdateVenue(t)
       PROVE  TypeOK'
  <2>1. safety' \in Checks
    BY <1>0, <1>11, TouchFacts DEF UpdateVenue
  <2> QED
    BY <1>11, <2>1 DEF UpdateVenue, TypeOK, Checks
<1>12. CASE \E p \in Periods : MarkUnavailable(p)
  BY <1>12 DEF MarkUnavailable, TypeOK
<1>13. ASSUME NEW p \in blocked, EndUnavailable(p)
       PROVE  TypeOK'
  <2>1. [p EXCEPT !.to = clock] \in Period
    BY <1>0, <1>13 DEF TypeOK, Period
  <2> QED
    BY <1>13, <2>1 DEF EndUnavailable, TypeOK
<1>14. ASSUME NEW s \in Servers, JobStart(s) \/ ExpiryFails(s) \/ RemindersFail(s)
       PROVE  TypeOK'
  <2>0. /\ [step |-> "expire", now |-> clock] \in Job
        /\ [step |-> "remind", now |-> clock] \in Job
        /\ [step |-> "idle"] \in Job
    BY <1>0 DEF Job
  <2>1. job' \in [Servers -> Job]
    BY <1>14, <2>0 DEF JobStart, ExpiryFails, RemindersFail, Reminding, TypeOK
  <2> QED
    BY <1>14, <2>1 DEF JobStart, ExpiryFails, RemindersFail, TypeOK
<1>15. ASSUME NEW s \in Servers, ProcessExpiredTentativeHolds(s)
       PROVE  TypeOK'
  <2>1. rows' \in [Ids -> Row] /\ \A c \in Ids : Allowed(rows'[c])
    BY <1>0, <1>15 DEF ProcessExpiredTentativeHolds, Held, Elapsed, Row, RowStatus, Allowed
  <2>2. safety' \in Checks
    BY <1>0, <1>15, TouchFacts DEF ProcessExpiredTentativeHolds
  <2>3. told' \in [Ids -> Seq(Notice)]
    BY <1>15 DEF ProcessExpiredTentativeHolds, TellAll, Notice, TypeOK
  <2>4. job' \in [Servers -> Job]
    BY <1>0, <1>15 DEF ProcessExpiredTentativeHolds, Reminding, Job, TypeOK
  <2> QED
    BY <1>15, <2>1, <2>2, <2>3, <2>4 DEF ProcessExpiredTentativeHolds, TypeOK, Checks
<1>16. ASSUME NEW s \in Servers, ProcessTentativeHoldReminders(s)
       PROVE  TypeOK'
  <2>1. rows' \in [Ids -> Row] /\ \A c \in Ids : Allowed(rows'[c])
    <3>1. \A c \in Ids : rows'[c] = rows[c] \/ rows'[c] = [rows[c] EXCEPT !.reminded = TRUE]
      BY <1>16 DEF ProcessTentativeHoldReminders
    <3>2. rows' = [c \in Ids |-> rows'[c]]
      BY <1>16 DEF ProcessTentativeHoldReminders
    <3> QED
      BY <3>1, <3>2, RowsStay
  <2>2. safety' \in Checks
    BY <1>0, <1>16, TouchFacts DEF ProcessTentativeHoldReminders
  <2>3. told' \in [Ids -> Seq(Notice)]
    BY <1>16 DEF ProcessTentativeHoldReminders, TellAll, Notice, TypeOK
  <2>4. job' \in [Servers -> Job]
    BY <1>16 DEF ProcessTentativeHoldReminders, Job, TypeOK
  <2> QED
    BY <1>16, <2>1, <2>2, <2>3, <2>4 DEF ProcessTentativeHoldReminders, TypeOK, Checks
<1>17. ASSUME NEW e \in Events, RequestSafetyCheck(e) \/ SafetyApproves(e)
       PROVE  TypeOK'
  <2>1. safety' \in Checks
    BY <1>0, <1>17 DEF RequestSafetyCheck, SafetyApproves, Checks
  <2> QED
    BY <1>17, <2>1 DEF RequestSafetyCheck, SafetyApproves, TypeOK, Checks
<1>18. ASSUME NEW e \in Events, SafetyAnswers(e)
       PROVE  TypeOK'
  <2>1. PICK B \in SUBSET {b \in RowsOf(e) : rows[b].status = "approved" /\ rows[b].kind = "booking"} :
          /\ safety' = [safety EXCEPT ![e] = [state |-> "answered", review |-> B]]
          /\ rows' = [b \in Ids |-> IF b \in B THEN [rows[b] EXCEPT !.status = "pending"]
                                    ELSE rows[b]]
    BY <1>18 DEF SafetyAnswers
  <2>2. rows' \in [Ids -> Row] /\ \A c \in Ids : Allowed(rows'[c])
    <3>1. \A c \in Ids : rows'[c] = rows[c] \/ rows'[c] = [rows[c] EXCEPT !.status = "pending"]
      BY <2>1
    <3>2. rows' = [c \in Ids |-> rows'[c]]
      BY <2>1
    <3> QED
      BY <3>1, <3>2, RowsStay
  <2>3. safety' \in Checks
    BY <1>0, <2>1 DEF Checks, RowsOf
  <2> QED
    BY <1>18, <2>2, <2>3 DEF SafetyAnswers, TypeOK, Checks
<1>19. ASSUME NEW e \in Events,
              Confirm(e) \/ Complete(e) \/ ChangeDetails(e) \/ EquipmentChanges(e)
       PROVE  TypeOK'
  <2>1. event' \in [Events -> [status : EventStatus, slot : Slots]]
    BY <1>0, <1>19 DEF Confirm, Complete, ChangeDetails, EquipmentChanges, EventStatus
  <2>2. safety' \in Checks
    BY <1>0, <1>19 DEF Confirm, Complete, ChangeDetails, EquipmentChanges, NoCheck, Checks
  <2> QED
    BY <1>19, <2>1, <2>2
    DEF Confirm, Complete, ChangeDetails, EquipmentChanges, TypeOK, Checks
<1>20. ASSUME NEW e \in Events, CancelEvent(e)
       PROVE  TypeOK'
  <2>1. rows' \in [Ids -> Row] /\ \A c \in Ids : Allowed(rows'[c])
    <3>1. \A c \in Ids : rows'[c] = rows[c] \/ rows'[c] = [rows[c] EXCEPT !.status = "released"]
      BY <1>20 DEF CancelEvent
    <3>2. rows' = [c \in Ids |-> rows'[c]]
      BY <1>20 DEF CancelEvent
    <3> QED
      BY <3>1, <3>2, RowsStay
  <2>2. event' \in [Events -> [status : EventStatus, slot : Slots]]
    BY <1>0, <1>20 DEF CancelEvent, EventStatus
  <2> QED
    BY <1>20, <2>1, <2>2 DEF CancelEvent, TypeOK
<1>21. ASSUME NEW e \in Events, NEW p \in Slots, Reschedule(e, p)
       PROVE  TypeOK'
  <2>1. rows' \in [Ids -> Row] /\ \A c \in Ids : Allowed(rows'[c])
    <3>1. \A c \in Ids : rows'[c] = rows[c] \/ rows'[c] = [rows[c] EXCEPT !.status = "cancelled"]
      BY <1>21 DEF Reschedule
    <3>2. rows' = [c \in Ids |-> rows'[c]]
      BY <1>21 DEF Reschedule
    <3> QED
      BY <3>1, <3>2, RowsStay
  <2>2. event' \in [Events -> [status : EventStatus, slot : Slots]]
    BY <1>0, <1>21 DEF Reschedule, EventStatus
  <2>3. safety' \in Checks
    BY <1>0, <1>21 DEF Reschedule, NoCheck, Checks
  <2> QED
    BY <1>21, <2>1, <2>2, <2>3 DEF Reschedule, TypeOK, Checks
<1>22. CASE \E b \in Ids : OfRow(b)
  BY <1>22, <1>2, <1>3, <1>4, <1>5, <1>6, <1>7, <1>8, <1>9
  DEF OfRow, SubmitBookingRequest, SubmitTentativeHoldRequest
<1>23. CASE \E e \in Events : OfEvent(e)
  BY <1>23, <1>17, <1>18, <1>19, <1>20, <1>21 DEF OfEvent
<1>24. CASE \E s \in Servers : Scheduler(s)
  BY <1>24, <1>14, <1>15, <1>16 DEF Scheduler
<1> QED
  BY <1>1, <1>10, <1>11, <1>12, <1>13, <1>22, <1>23, <1>24 DEF Next

(* The table starts empty, with every type right. *)
LEMMA TypeInit == Init => TypeOK
<1>1. ASSUME Init PROVE Blank \in Row /\ Allowed(Blank)
  BY DEF Blank, Row, RowStatus, Allowed, Period
<1> QED
  BY <1>1, TimesAssumption, TimingsAssumption
  DEF Init, TypeOK, Time, EventStatus, NoCheck, Decision, Job

(* Every variable keeps its type, and every row satisfies the constraints the *)
(* table has on holds.                                                        *)
THEOREM TypeCorrect == Spec => []TypeOK
<1>1. TypeOK /\ [Next]_vars => TypeOK'
  BY TypeStep DEF vars, TypeOK
<1> QED
  BY <1>1, TypeInit, PTL DEF Spec

-----------------------------------------------------------------------------
(* How a row moves *)

Ended(b, statuses) ==
  /\ rows[b].status \in {"pending", "approved"}
  /\ \E s \in statuses : rows'[b] = [rows[b] EXCEPT !.status = s]

Removed(b) ==
  /\ rows[b].event # NoEvent /\ event[rows[b].event].status = "Planning"
  /\ rows'[b] = [Blank EXCEPT !.status = "removed"]

Reviewed(b) ==
  /\ rows[b].kind = "booking" /\ rows[b].status = "approved"
  /\ rows'[b] = [rows[b] EXCEPT !.status = "pending"]

Reminded(b) ==
  /\ rows[b].kind = "hold" /\ rows[b].status = "approved"
  /\ rows'[b] = [rows[b] EXCEPT !.reminded = TRUE]

(* What a row may do in a step that neither inserts, approves nor converts one. *)
Moves(b) ==
  \/ rows'[b] = rows[b]
  \/ Ended(b, {"rejected", "released", "cancelled", "expired"})
  \/ Removed(b) \/ Reviewed(b) \/ Reminded(b)

Inserting == \E e \in Events, b \in Ids :
               SubmitBookingRequest(e, b) \/ SubmitTentativeHoldRequest(e, b)

Approving == \E b \in Ids : ApproveVenueBooking(b)

Converting == \E b \in Ids : ConvertTentativeHold(b)

(* The four kinds of steps. *)
LEMMA StepKinds ==
  ASSUME TypeOK, Next
  PROVE  Inserting \/ Approving \/ Converting \/ \A b \in Ids : Moves(b)
<1>0. rows \in [Ids -> Row]
  BY DEF TypeOK
<1>1. ASSUME UNCHANGED rows PROVE \A b \in Ids : Moves(b)
  BY <1>1 DEF Moves
<1>2. ASSUME NEW b \in Ids, CancelCoordinatorBooking(b) PROVE \A c \in Ids : Moves(c)
  BY <1>0, <1>2 DEF CancelCoordinatorBooking, Moves, Ended
<1>3. ASSUME NEW b \in Ids, RemoveVenueRequest(b) PROVE \A c \in Ids : Moves(c)
  BY <1>0, <1>3 DEF RemoveVenueRequest, Moves, Removed
<1>4. ASSUME NEW b \in Ids, RejectVenueBooking(b) PROVE \A c \in Ids : Moves(c)
  BY <1>0, <1>4 DEF RejectVenueBooking, Moves, Ended
<1>6. ASSUME NEW b \in Ids, ReleaseTentativeHold(b) PROVE \A c \in Ids : Moves(c)
  BY <1>0, <1>6 DEF ReleaseTentativeHold, StillRuns, Held, Moves, Ended
<1>7. ASSUME NEW s \in Servers, ProcessExpiredTentativeHolds(s) PROVE \A c \in Ids : Moves(c)
  BY <1>0, <1>7 DEF ProcessExpiredTentativeHolds, Held, Moves, Ended
<1>8. ASSUME NEW s \in Servers, ProcessTentativeHoldReminders(s) PROVE \A c \in Ids : Moves(c)
  BY <1>0, <1>8 DEF ProcessTentativeHoldReminders, Held, Moves, Reminded
<1>9. ASSUME NEW e \in Events, SafetyAnswers(e) PROVE \A c \in Ids : Moves(c)
  BY <1>0, <1>9 DEF SafetyAnswers, Moves, Reviewed
<1>10. ASSUME NEW e \in Events, CancelEvent(e) PROVE \A c \in Ids : Moves(c)
  BY <1>0, <1>10 DEF CancelEvent, Moves, Ended
<1>11. ASSUME NEW e \in Events, NEW p \in Slots, Reschedule(e, p) PROVE \A c \in Ids : Moves(c)
  BY <1>0, <1>11 DEF Reschedule, Moves, Ended
<1>12. CASE \E b \in Ids : OfRow(b)
  BY <1>12, <1>1, <1>2, <1>3, <1>4, <1>6
  DEF OfRow, LockOwnedBooking, Inserting, Approving, Converting
<1>13. CASE \E e \in Events : OfEvent(e)
  BY <1>13, <1>1, <1>9, <1>10, <1>11
  DEF OfEvent, RequestSafetyCheck, SafetyApproves, Confirm, Complete,
     ChangeDetails, EquipmentChanges
<1>14. CASE \E s \in Servers : Scheduler(s)
  BY <1>14, <1>1, <1>7, <1>8 DEF Scheduler, JobStart, ExpiryFails, RemindersFail
<1> QED
  BY <1>1, <1>12, <1>13, <1>14
  DEF Next, Tick, DecisionRefused, UpdateVenue, MarkUnavailable, EndUnavailable

(* The clock moves forward. *)
LEMMA ClockForward ==
  ASSUME TypeOK, Next
  PROVE  clock \in Nat /\ clock' \in Nat /\ clock <= clock'
<1>1. clock \in Nat
  BY TimesAssumption DEF TypeOK, Time
<1>2. clock' = clock \/ clock' = clock + 1
  BY DEF Next, Tick, DecisionRefused, UpdateVenue, MarkUnavailable, EndUnavailable, OfRow,
     OfEvent, Scheduler, CancelCoordinatorBooking, RemoveVenueRequest, LockOwnedBooking,
     ApproveVenueBooking, RejectVenueBooking, ConvertTentativeHold, ReleaseTentativeHold,
     SubmitBookingRequest, SubmitTentativeHoldRequest, Request, RequestSafetyCheck,
     SafetyApproves, SafetyAnswers, Confirm, Complete, ChangeDetails, EquipmentChanges,
     CancelEvent, Reschedule, JobStart,
     ProcessExpiredTentativeHolds, ExpiryFails, ProcessTentativeHoldReminders, RemindersFail
<1> QED
  BY <1>1, <1>2

(* A moving row keeps what it kept: it becomes neither live nor firm, and a   *)
(* live row stays with its event and its period.                              *)
LEMMA MovesKeep ==
  ASSUME TypeOK, Next, NEW b \in Ids, Moves(b)
  PROVE  /\ Active(rows'[b], clock') => /\ Active(rows[b], clock)
                                        /\ rows'[b].event = rows[b].event
                                        /\ rows'[b].slot = rows[b].slot
         /\ Firm(rows'[b], clock') => Firm(rows[b], clock)
<1>1. clock \in Nat /\ clock' \in Nat /\ clock <= clock'
  BY ClockForward
<1>2. rows[b] \in Row /\ (rows[b].expires # NoTime => rows[b].expires \in Int)
  BY DEF TypeOK, Row
<1>3. CASE rows'[b] = rows[b] \/ Reminded(b)
  BY <1>1, <1>2, <1>3 DEF Reminded, Active, Firm, Elapsed, Row
<1>4. CASE Ended(b, {"rejected", "released", "cancelled", "expired"}) \/ Removed(b)
  BY <1>2, <1>4 DEF Ended, Removed, Blank, Active, Firm, Row
<1>5. CASE Reviewed(b)
  BY <1>2, <1>5 DEF Reviewed, Active, Firm, Row
<1> QED
  BY <1>3, <1>4, <1>5 DEF Moves

-----------------------------------------------------------------------------
(* The parts of the inductive invariant, one at a time *)

(* A row that is a hold in force after a move was the same hold before. *)
LEMMA HeldKept ==
  ASSUME TypeOK, NEW b \in Ids, Moves(b), Held(rows'[b])
  PROVE  /\ Held(rows[b])
         /\ rows'[b].expires = rows[b].expires
         /\ rows'[b].slot = rows[b].slot /\ rows'[b].event = rows[b].event
<1>1. rows[b] \in Row
  BY DEF TypeOK
<1> QED
  BY <1>1 DEF Held, Moves, Ended, Removed, Reviewed, Reminded, Blank, Row

(* What an insertion, an approval and a conversion do to the rows. *)
Inserted(e, b) ==
  /\ \A c \in Ids : rows[c].event = e => ~Active(rows[c], clock)
  /\ BookingOpen(e) /\ ~decision.busy /\ rows[b].status = "none"
  /\ \A c \in Ids \ {b} : rows'[c] = rows[c]
  /\ rows'[b].event = e /\ rows'[b].status = "pending" /\ rows'[b].slot = event[e].slot
  /\ rows'[b].reminded = FALSE
  /\ safety' = [safety EXCEPT ![e] = NoCheck]
  /\ clock' = clock /\ event' = event /\ decision' = decision /\ told' = told

Approved(b) ==
  /\ rows[b].status = "pending"
  /\ \E query \in Int : query <= clock /\ ~Conflicts(b, rows[b].slot, query)
  /\ \A c \in Ids \ {b} : rows'[c] = rows[c]
  /\ rows'[b].event = rows[b].event /\ rows'[b].slot = rows[b].slot
  /\ rows'[b].kind = rows[b].kind /\ rows'[b].status = "approved"
  /\ rows'[b].reminded = rows[b].reminded
  /\ rows[b].kind = "hold" =>
       \E lead, write \in Int :
         /\ decision.since <= lead /\ write <= clock
         /\ InTime(b, lead) /\ rows'[b].expires = write + HoldLength
  /\ clock' = clock /\ event' = event /\ told' = told

Converted(b) ==
  /\ decision.busy /\ decision.row = b /\ ~decision'.busy
  /\ Held(rows[b]) /\ ~Elapsed(rows[b], decision.since)
  /\ \A c \in Ids \ {b} : rows'[c] = rows[c]
  /\ rows'[b].event = rows[b].event /\ rows'[b].slot = rows[b].slot
  /\ rows'[b].kind = "booking" /\ rows'[b].status = "approved"
  /\ clock' = clock /\ event' = event

(* What a decision under way has seen is of its type. *)
LEMMA DecisionTyped ==
  ASSUME TypeOK
  PROVE  /\ clock \in Nat
         /\ decision.busy => decision.row \in Ids /\ decision.since \in Nat
<1>1. clock \in Nat /\ Time \subseteq Nat
  BY TimesAssumption DEF TypeOK, Time
<1>2. CASE decision \in [busy : {FALSE}]
  BY <1>1, <1>2
<1>3. CASE decision \in [busy : {TRUE}, row : Ids, sawStatus : EventStatus, sawStart : Nat,
                         since : Time]
  BY <1>1, <1>3
<1> QED
  BY <1>2, <1>3 DEF TypeOK, Decision

(* An insertion adds one pending row of an event that had no live one. *)
LEMMA InsertFacts ==
  ASSUME TypeOK, Inserting
  PROVE  \E e \in Events, b \in Ids : Inserted(e, b)
<1>1. PICK e \in Events, b \in Ids :
         SubmitBookingRequest(e, b) \/ SubmitTentativeHoldRequest(e, b)
  BY DEF Inserting
<1>2. PICK kind \in {"booking", "hold"} : Request(e, b, kind)
  BY <1>1 DEF SubmitBookingRequest, SubmitTentativeHoldRequest
<1>3. /\ rows \in [Ids -> Row]
      /\ rows' = [rows EXCEPT ![b] = [Blank EXCEPT !.event = e, !.slot = event[e].slot,
                                                   !.kind = kind, !.status = "pending"]]
  BY <1>2 DEF Request, TypeOK
<1>4. /\ \A c \in Ids \ {b} : rows'[c] = rows[c]
      /\ rows'[b].event = e /\ rows'[b].status = "pending" /\ rows'[b].slot = event[e].slot
      /\ rows'[b].reminded = FALSE
  BY <1>3 DEF Blank
<1>5. \A c \in Ids : rows[c].event = e => ~Active(rows[c], clock)
  BY <1>1 DEF SubmitBookingRequest, SubmitTentativeHoldRequest, RowsOf
<1> QED
  BY <1>1, <1>2, <1>4, <1>5
  DEF SubmitBookingRequest, SubmitTentativeHoldRequest, Request, Inserted

(* An approval changes one pending row that clashes with no other. *)
LEMMA ApproveFacts ==
  ASSUME TypeOK, NEW b \in Ids, ApproveVenueBooking(b)
  PROVE  Approved(b)
<1>0. decision.busy
  BY DEF ApproveVenueBooking, Decide
<1>1. rows \in [Ids -> Row] /\ decision.since \in Int /\ clock \in Int
  BY <1>0, DecisionTyped DEF TypeOK
<1>2. PICK lead \in decision.since .. clock, query \in decision.since .. clock,
           write \in decision.since .. clock :
         /\ lead <= query /\ query <= write
         /\ InTime(b, lead) /\ ~Conflicts(b, rows[b].slot, query)
         /\ rows' = [rows EXCEPT ![b].status = "approved",
                      ![b].expires = IF rows[b].kind = "hold" THEN write + HoldLength ELSE @]
  BY DEF ApproveVenueBooking
<1>3. /\ lead \in Int /\ query \in Int /\ write \in Int
      /\ decision.since <= lead /\ query <= clock /\ write <= clock
  BY <1>1, <1>2
<1> DEFINE until == IF rows[b].kind = "hold" THEN write + HoldLength ELSE rows[b].expires
<1>4. rows' = [rows EXCEPT ![b] = [rows[b] EXCEPT !.status = "approved", !.expires = until]]
  BY <1>1, <1>2 DEF Row
<1>5. /\ \A c \in Ids \ {b} : rows'[c] = rows[c]
      /\ rows'[b] = [rows[b] EXCEPT !.status = "approved", !.expires = until]
  BY <1>1, <1>4
<1>6. /\ rows'[b].event = rows[b].event /\ rows'[b].slot = rows[b].slot
      /\ rows'[b].kind = rows[b].kind /\ rows'[b].status = "approved"
      /\ rows'[b].reminded = rows[b].reminded /\ rows'[b].expires = until
  <2> HIDE DEF until
  <2> QED
    BY <1>1, <1>5 DEF Row
<1>7. rows[b].kind = "hold" =>
        \E l, w \in Int : /\ decision.since <= l /\ w <= clock
                          /\ InTime(b, l) /\ rows'[b].expires = w + HoldLength
  BY <1>2, <1>3, <1>6
<1>8. \E q \in Int : q <= clock /\ ~Conflicts(b, rows[b].slot, q)
  BY <1>2, <1>3
<1> QED
  BY <1>5, <1>6, <1>7, <1>8 DEF ApproveVenueBooking, Approved

(* A conversion makes a hold a booking that ran when the decision on it began. *)
LEMMA ConvertFacts ==
  ASSUME TypeOK, NEW b \in Ids, ConvertTentativeHold(b)
  PROVE  Converted(b)
<1>1. /\ rows \in [Ids -> Row] /\ decision.since \in Int /\ clock \in Int
      /\ rows[b].expires \in Int \cup {NoTime}
  <2>1. decision.busy
    BY DEF ConvertTentativeHold, Decide
  <2> QED
    BY <2>1, DecisionTyped DEF TypeOK, Row
<1>2. Held(rows[b]) /\ ~Elapsed(rows[b], decision.since)
  BY <1>1 DEF ConvertTentativeHold, StillRuns, Elapsed
<1>3. /\ \A c \in Ids \ {b} : rows'[c] = rows[c]
      /\ rows'[b].event = rows[b].event /\ rows'[b].slot = rows[b].slot
      /\ rows'[b].kind = "booking" /\ rows'[b].status = rows[b].status
  BY <1>1 DEF ConvertTentativeHold, Row
<1> QED
  BY <1>2, <1>3 DEF ConvertTentativeHold, Decide, Held, Converted

(* Only a hold in force is written about. *)
LEMMA ToldInForce ==
  ASSUME TypeOK, Next, NEW b \in Ids
  PROVE  told'[b] = told[b] \/ rows[b].status = "approved"
<1>0. told \in [Ids -> Seq(Notice)]
  BY DEF TypeOK
<1>1. CASE \E c \in Ids : OfRow(c)
  <2>1. ASSUME NEW c \in Ids, ConvertTentativeHold(c) \/ ReleaseTentativeHold(c)
        PROVE  told'[b] = told[b] \/ rows[b].status = "approved"
    BY <1>0, <2>1 DEF ConvertTentativeHold, ReleaseTentativeHold, StillRuns, Held, Tell
  <2>2. ASSUME NEW c \in Ids, NEW e \in Events,
               SubmitBookingRequest(e, c) \/ SubmitTentativeHoldRequest(e, c)
        PROVE  told' = told
    BY <2>2 DEF SubmitBookingRequest, SubmitTentativeHoldRequest, Request
  <2> QED
    BY <1>1, <2>1, <2>2 DEF OfRow, CancelCoordinatorBooking, RemoveVenueRequest,
       LockOwnedBooking, ApproveVenueBooking, RejectVenueBooking
<1>2. CASE \E e \in Events : OfEvent(e)
  BY <1>2 DEF OfEvent, RequestSafetyCheck, SafetyApproves, SafetyAnswers, Confirm, Complete,
     ChangeDetails, EquipmentChanges, CancelEvent, Reschedule
<1>3. CASE \E s \in Servers : Scheduler(s)
  <2>1. ASSUME NEW s \in Servers,
               ProcessExpiredTentativeHolds(s) \/ ProcessTentativeHoldReminders(s)
        PROVE  told'[b] = told[b] \/ rows[b].status = "approved"
    BY <2>1 DEF ProcessExpiredTentativeHolds, ProcessTentativeHoldReminders, TellAll, Held
  <2> QED
    BY <1>3, <2>1 DEF Scheduler, JobStart, ExpiryFails, RemindersFail
<1> QED
  BY <1>1, <1>2, <1>3
  DEF Next, Tick, DecisionRefused, UpdateVenue, MarkUnavailable, EndUnavailable

(* A row belongs to an event from its insertion to its removal. *)
LEMMA OwnedStep ==
  ASSUME TypeOK, Next, RowsOwned
  PROVE  RowsOwned'
<1>0. rows \in [Ids -> Row]
  BY DEF TypeOK
<1> SUFFICES ASSUME NEW b \in Ids
             PROVE  /\ rows'[b].event = NoEvent <=> rows'[b].status \in {"none", "removed"}
                    /\ rows'[b].status = "none" => told'[b] = << >>
  BY DEF RowsOwned
<1>1. CASE Inserting
  <2>1. PICK e \in Events, a \in Ids : Inserted(e, a)
    BY <1>1, InsertFacts
  <2>2. rows'[a].event # NoEvent /\ rows'[a].status \notin {"none", "removed"}
    BY <2>1, NullAssumption DEF Inserted
  <2> QED
    BY <2>1, <2>2 DEF Inserted, RowsOwned
<1>2. CASE Approving
  BY <1>2, ApproveFacts DEF Approving, Approved, RowsOwned
<1>4. CASE Converting
  BY <1>4, ConvertFacts, ToldInForce DEF Converting, Converted, Held, RowsOwned
<1>3. CASE Moves(b)
  <2>1. rows'[b].event = NoEvent <=> rows'[b].status \in {"none", "removed"}
    BY <1>0, <1>3
    DEF RowsOwned, Moves, Ended, Removed, Reviewed, Reminded, Blank, Row
  <2>2. rows'[b].status = "none" => rows[b].status = "none"
    BY <1>0, <1>3 DEF Moves, Ended, Removed, Reviewed, Reminded, Blank, Row
  <2> QED
    BY <2>1, <2>2, ToldInForce DEF RowsOwned
<1> QED
  BY <1>1, <1>2, <1>3, <1>4, StepKinds

(* Only an approval makes a row firm, and it checks for clashes. *)
LEMMA DoubleBookingStep ==
  ASSUME TypeOK, Next, NoDoubleBooking, DecisionStands
  PROVE  NoDoubleBooking'
<1>0. \A b \in Ids : rows[b].slot \in Period
  BY DEF TypeOK, Row
<1> SUFFICES ASSUME NEW b \in Ids, NEW c \in Ids, b # c,
                    Firm(rows'[b], clock'), Firm(rows'[c], clock')
             PROVE  Apart(rows'[b].slot, rows'[c].slot)
  BY DEF NoDoubleBooking
<1>1. CASE Inserting
  <2>1. PICK e \in Events, a \in Ids : Inserted(e, a)
    BY <1>1, InsertFacts
  <2>2. ~Firm(rows'[a], clock') /\ clock' = clock /\ \A d \in Ids \ {a} : rows'[d] = rows[d]
    BY <2>1 DEF Inserted, Firm
  <2> QED
    BY <2>2 DEF NoDoubleBooking
<1>2. CASE Approving
  <2>1. PICK a \in Ids : ApproveVenueBooking(a)
    BY <1>2 DEF Approving
  <2>2. \A d \in Ids \ {a} : Firm(rows'[d], clock') => /\ Apart(rows'[d].slot, rows'[a].slot)
                                                      /\ Apart(rows'[a].slot, rows'[d].slot)
    <3>1. PICK query \in Int : query <= clock /\ ~Conflicts(a, rows[a].slot, query)
      BY <2>1, ApproveFacts DEF Approved
    <3>2. ASSUME NEW d \in Ids \ {a}, Firm(rows'[d], clock')
          PROVE  ~Overlaps(rows[d].slot, rows[a].slot) /\ rows'[d].slot = rows[d].slot
                 /\ rows'[a].slot = rows[a].slot
      <4>1. /\ rows'[d] = rows[d] /\ clock' = clock /\ rows'[a].slot = rows[a].slot
            /\ clock \in Int /\ rows[d].expires \in Int \cup {NoTime}
        BY <2>1, ApproveFacts, TimesAssumption DEF Approved, TypeOK, Time, Row
      <4>2. Firm(rows[d], query)
        BY <3>1, <3>2, <4>1 DEF Firm, Elapsed
      <4> QED
        BY <3>1, <4>1, <4>2 DEF Conflicts
    <3> QED
      BY <1>0, <3>2, NoClashApart DEF Apart
  <2>3. CASE b = a \/ c = a
    BY <2>2, <2>3
  <2>4. CASE b # a /\ c # a
    BY <2>1, <2>4, ApproveFacts DEF Approved, NoDoubleBooking
  <2> QED
    BY <2>3, <2>4
<1>4. CASE Converting
  <2>1. PICK a \in Ids : Converted(a)
    BY <1>4, ConvertFacts DEF Converting
  <2>2. \A d \in Ids \ {a} : Firm(rows'[d], clock') => /\ Apart(rows'[d].slot, rows'[a].slot)
                                                      /\ Apart(rows'[a].slot, rows'[d].slot)
    BY <2>1 DEF Converted, DecisionStands, Apart
  <2>3. CASE b = a \/ c = a
    BY <2>2, <2>3
  <2>4. CASE b # a /\ c # a
    BY <2>1, <2>4 DEF Converted, NoDoubleBooking
  <2> QED
    BY <2>3, <2>4
<1>3. CASE \A d \in Ids : Moves(d)
  <2>1. /\ Firm(rows[b], clock) /\ Firm(rows[c], clock)
        /\ rows'[b].slot = rows[b].slot /\ rows'[c].slot = rows[c].slot
    BY <1>3, MovesKeep DEF Active
  <2> QED
    BY <2>1 DEF NoDoubleBooking
<1> QED
  BY <1>1, <1>2, <1>3, <1>4, StepKinds

(* Only an insertion makes a row live, and it checks for live ones. *)
LEMMA OneActiveStep ==
  ASSUME TypeOK, Next, OneActiveRequest, DecisionStands
  PROVE  OneActiveRequest'
<1> SUFFICES ASSUME NEW b \in Ids, NEW c \in Ids, b # c, rows'[b].event = rows'[c].event,
                    Active(rows'[b], clock'), Active(rows'[c], clock')
             PROVE  FALSE
  BY DEF OneActiveRequest
<1>1. CASE Inserting
  <2>1. PICK e \in Events, a \in Ids : Inserted(e, a)
    BY <1>1, InsertFacts
  <2>2. CASE b = a \/ c = a
    BY <2>1, <2>2 DEF Inserted
  <2>3. CASE b # a /\ c # a
    BY <2>1, <2>3 DEF Inserted, OneActiveRequest
  <2> QED
    BY <2>2, <2>3
<1>2. CASE Approving
  BY <1>2, ApproveFacts DEF Approving, Approved, OneActiveRequest, Active
<1>4. CASE Converting
  <2>1. PICK a \in Ids : Converted(a)
    BY <1>4, ConvertFacts DEF Converting
  <2>2. \A d \in Ids \ {a} : Active(rows'[d], clock') => rows'[d].event # rows'[a].event
    BY <2>1 DEF Converted, DecisionStands
  <2>3. CASE b = a \/ c = a
    BY <2>2, <2>3
  <2>4. CASE b # a /\ c # a
    BY <2>1, <2>4 DEF Converted, OneActiveRequest
  <2> QED
    BY <2>3, <2>4
<1>3. CASE \A d \in Ids : Moves(d)
  <2>1. /\ Active(rows[b], clock) /\ Active(rows[c], clock)
        /\ rows'[b].event = rows[b].event /\ rows'[c].event = rows[c].event
    BY <1>3, MovesKeep
  <2> QED
    BY <2>1 DEF OneActiveRequest
<1> QED
  BY <1>1, <1>2, <1>3, <1>4, StepKinds

(* What a step does to an event, and to the decision under way. *)
LEMMA EventMoves ==
  ASSUME TypeOK, Next, NEW e \in Events
  PROVE  \/ event'[e] = event[e]
         \/ event'[e].slot = event[e].slot /\ event'[e].status # "Cancelled"
         \/ CancelEvent(e)
         \/ \E p \in Slots : Reschedule(e, p)
<1>0. event \in [Events -> [status : EventStatus, slot : Slots]]
  BY DEF TypeOK
<1>1. \/ event' = event
      \/ \E f \in Events : OfEvent(f)
  BY DEF Next, Tick, DecisionRefused, UpdateVenue, MarkUnavailable, EndUnavailable, OfRow,
     Scheduler, CancelCoordinatorBooking, RemoveVenueRequest, LockOwnedBooking,
     ApproveVenueBooking, RejectVenueBooking, ConvertTentativeHold, ReleaseTentativeHold,
     SubmitBookingRequest, SubmitTentativeHoldRequest, Request, JobStart,
     ProcessExpiredTentativeHolds, ExpiryFails, ProcessTentativeHoldReminders, RemindersFail
<1>2. ASSUME NEW f \in Events,
             \/ RequestSafetyCheck(f) \/ SafetyApproves(f) \/ SafetyAnswers(f)
             \/ EquipmentChanges(f)
      PROVE  event' = event
  BY <1>2 DEF RequestSafetyCheck, SafetyApproves, SafetyAnswers, EquipmentChanges
<1>3. ASSUME NEW f \in Events, Confirm(f) \/ Complete(f) \/ ChangeDetails(f)
      PROVE  \/ event'[e] = event[e]
             \/ event'[e].slot = event[e].slot /\ event'[e].status # "Cancelled"
  BY <1>0, <1>3 DEF Confirm, Complete, ChangeDetails
<1>4. ASSUME NEW f \in Events, CancelEvent(f)
      PROVE  event'[e] = event[e] \/ CancelEvent(e)
  BY <1>0, <1>4 DEF CancelEvent
<1>5. ASSUME NEW f \in Events, NEW p \in Slots, Reschedule(f, p)
      PROVE  event'[e] = event[e] \/ Reschedule(e, p)
  BY <1>0, <1>5 DEF Reschedule
<1> QED
  BY <1>1, <1>2, <1>3, <1>4, <1>5 DEF OfEvent

(* Only Confirm confirms. *)
LEMMA ConfirmMoves ==
  ASSUME TypeOK, Next, NEW e \in Events,
         event[e].status # "Confirmed", event'[e].status = "Confirmed"
  PROVE  Confirm(e)
<1>0. event \in [Events -> [status : EventStatus, slot : Slots]]
  BY DEF TypeOK
<1>1. PICK f \in Events : OfEvent(f)
  BY DEF Next, Tick, DecisionRefused, UpdateVenue, MarkUnavailable, EndUnavailable, OfRow,
     Scheduler, CancelCoordinatorBooking, RemoveVenueRequest, LockOwnedBooking,
     ApproveVenueBooking, RejectVenueBooking, ConvertTentativeHold, ReleaseTentativeHold,
     SubmitBookingRequest, SubmitTentativeHoldRequest, Request, JobStart,
     ProcessExpiredTentativeHolds, ExpiryFails, ProcessTentativeHoldReminders, RemindersFail
<1>2. ~RequestSafetyCheck(f) /\ ~SafetyApproves(f) /\ ~SafetyAnswers(f) /\ ~EquipmentChanges(f)
  BY DEF RequestSafetyCheck, SafetyApproves, SafetyAnswers, EquipmentChanges
<1>3. /\ ~Complete(f) /\ ~CancelEvent(f) /\ ~ChangeDetails(f)
      /\ \A p \in Slots : ~Reschedule(f, p)
  BY <1>0 DEF Complete, CancelEvent, ChangeDetails, Reschedule
<1>4. Confirm(f)
  BY <1>1, <1>2, <1>3 DEF OfEvent
<1> QED
  BY <1>0, <1>4 DEF Confirm

(* A step leaves the decision alone, ends it or begins one. *)
LEMMA DecisionMoves ==
  ASSUME Next
  PROVE  decision' = decision \/ ~decision'.busy \/ \E b \in Ids : LockOwnedBooking(b)
<1>1. CASE \E b \in Ids : OfRow(b)
  <2>1. ASSUME NEW b \in Ids, Decide(b) PROVE ~decision'.busy
    BY <2>1 DEF Decide
  <2>2. ASSUME NEW b \in Ids, NEW e \in Events,
               SubmitBookingRequest(e, b) \/ SubmitTentativeHoldRequest(e, b)
        PROVE  decision' = decision
    BY <2>2 DEF SubmitBookingRequest, SubmitTentativeHoldRequest, Request
  <2>3. ASSUME NEW b \in Ids, CancelCoordinatorBooking(b) \/ RemoveVenueRequest(b)
        PROVE  decision' = decision
    BY <2>3 DEF CancelCoordinatorBooking, RemoveVenueRequest
  <2> QED
    BY <1>1, <2>1, <2>2, <2>3 DEF OfRow, ApproveVenueBooking, RejectVenueBooking,
       ConvertTentativeHold, ReleaseTentativeHold
<1>2. CASE \E e \in Events : OfEvent(e)
  <2>1. PICK e \in Events : OfEvent(e)
    BY <1>2
  <2>2. CASE RequestSafetyCheck(e) \/ SafetyApproves(e) \/ SafetyAnswers(e)
    BY <2>2 DEF RequestSafetyCheck, SafetyApproves, SafetyAnswers
  <2>3. CASE \/ Confirm(e) \/ Complete(e) \/ CancelEvent(e)
             \/ ChangeDetails(e) \/ EquipmentChanges(e)
    BY <2>3 DEF Confirm, Complete, CancelEvent, ChangeDetails, EquipmentChanges
  <2>4. CASE \E p \in Slots : Reschedule(e, p)
    BY <2>4 DEF Reschedule
  <2> QED
    BY <2>1, <2>2, <2>3, <2>4 DEF OfEvent
<1>3. CASE \E s \in Servers : Scheduler(s)
  BY <1>3 DEF Scheduler, JobStart, ProcessExpiredTentativeHolds, ExpiryFails,
     ProcessTentativeHoldReminders, RemindersFail
<1>4. CASE Tick \/ DecisionRefused
  BY <1>4 DEF Tick, DecisionRefused
<1>5. CASE \/ \E t \in Timings : UpdateVenue(t)
           \/ \E p \in Periods : MarkUnavailable(p)
           \/ \E p \in blocked : EndUnavailable(p)
  BY <1>5 DEF UpdateVenue, MarkUnavailable, EndUnavailable
<1> QED
  BY <1>1, <1>2, <1>3, <1>4, <1>5 DEF Next

(* A cancelled event stays cancelled, and no row of it comes to life. *)
LEMMA CancelledStep ==
  ASSUME TypeOK, Next, RowsOwned, CancelledEventHoldsNothing
  PROVE  CancelledEventHoldsNothing'
<1>0. rows \in [Ids -> Row]
  BY DEF TypeOK
<1> SUFFICES ASSUME NEW b \in Ids, rows'[b].event # NoEvent,
                    event'[rows'[b].event].status = "Cancelled",
                    rows'[b].status \in {"pending", "approved"}
             PROVE  FALSE
  BY DEF CancelledEventHoldsNothing
<1>1. CASE Inserting
  <2>1. PICK e \in Events, a \in Ids : Inserted(e, a)
    BY <1>1, InsertFacts
  <2>2. event' = event /\ event[e].status # "Cancelled" /\ rows'[a].event = e
        /\ \A c \in Ids \ {a} : rows'[c] = rows[c]
    BY <2>1 DEF Inserted, BookingOpen
  <2> QED
    BY <2>2 DEF CancelledEventHoldsNothing
<1>2. CASE Approving
  BY <1>2, ApproveFacts DEF Approving, Approved, CancelledEventHoldsNothing
<1>4. CASE Converting
  BY <1>4, ConvertFacts DEF Converting, Converted, Held, CancelledEventHoldsNothing
<1>3. CASE Moves(b)
  <2> DEFINE e == rows[b].event
  <2>1. rows'[b].event = e /\ rows[b].status \in {"pending", "approved"}
    BY <1>0, <1>3 DEF Moves, Ended, Removed, Reviewed, Reminded, Blank, Row
  <2>2. e \in Events /\ event[e].status # "Cancelled"
    BY <1>0, <2>1 DEF Row, CancelledEventHoldsNothing
  <2>3. ~CancelEvent(e)
    BY <1>0, <2>1, <2>2 DEF CancelEvent, RowsOf, Row
  <2>4. ASSUME NEW p \in Slots, Reschedule(e, p) PROVE event'[e].status # "Cancelled"
    BY <2>2, <2>4 DEF Reschedule, TypeOK
  <2> QED
    BY <2>1, <2>2, <2>3, <2>4, EventMoves
<1> QED
  BY <1>1, <1>2, <1>3, <1>4, StepKinds

(* A row that is a pending hold after a move was the same one before. *)
LEMMA PendingHoldKept ==
  ASSUME TypeOK, NEW b \in Ids, Moves(b), PendingHold(b)'
  PROVE  rows'[b] = rows[b] /\ PendingHold(b)
<1>1. rows[b] \in Row
  BY DEF TypeOK
<1> QED
  BY <1>1 DEF PendingHold, Moves, Ended, Removed, Reviewed, Reminded, Blank, Row

(* A moved event takes its pending holds and the decisions on them along. *)
LEMMA FollowStep ==
  ASSUME TypeOK, Next, RowsOwned, HoldsFollowTheirEvents
  PROVE  HoldsFollowTheirEvents'
<1>0. rows \in [Ids -> Row] /\ (decision.busy => decision.row \in Ids)
      /\ event \in [Events -> [status : EventStatus, slot : Slots]]
  BY DEF TypeOK, Decision
<1>1. CASE Inserting
  <2>1. PICK e \in Events, a \in Ids : Inserted(e, a)
    BY <1>1, InsertFacts
  <2> QED
    BY <1>0, <2>1 DEF Inserted, PendingHold, HoldsFollowTheirEvents
<1>2. CASE Approving
  <2>1. PICK a \in Ids : ApproveVenueBooking(a) /\ Approved(a)
    BY <1>2, ApproveFacts DEF Approving
  <2>2. ~decision'.busy
    BY <2>1 DEF ApproveVenueBooking, Decide
  <2> QED
    BY <1>0, <2>1, <2>2 DEF Approved, PendingHold, HoldsFollowTheirEvents
<1>4. CASE Converting
  <2>1. PICK a \in Ids : Converted(a)
    BY <1>4, ConvertFacts DEF Converting
  <2> QED
    BY <1>0, <2>1 DEF Converted, PendingHold, HoldsFollowTheirEvents
<1>3. CASE \A b \in Ids : Moves(b)
  <2>1. ASSUME NEW b \in Ids, PendingHold(b)'
        PROVE  rows'[b].slot = event'[rows'[b].event].slot
    <3> DEFINE e == rows[b].event
    <3>1. rows'[b] = rows[b] /\ PendingHold(b) /\ rows[b].slot = event[e].slot
      BY <1>3, <2>1, PendingHoldKept DEF HoldsFollowTheirEvents
    <3>2. e \in Events
      BY <1>0, <3>1 DEF RowsOwned, PendingHold, Row
    <3>3. ASSUME CancelEvent(e) PROVE event'[e].slot = event[e].slot
      BY <1>0, <3>2, <3>3 DEF CancelEvent
    <3>4. ASSUME NEW p \in Slots, Reschedule(e, p) PROVE FALSE
      BY <1>0, <3>1, <3>4 DEF Reschedule, PendingHold, RowsOf, Row
    <3> QED
      BY <3>1, <3>2, <3>3, <3>4, EventMoves
  <2>2. ASSUME decision'.busy, PendingHold(decision.row)'
        PROVE  decision'.sawStart = rows'[decision'.row].slot.from
    <3>1. CASE decision' = decision
      BY <1>0, <1>3, <2>2, <3>1, PendingHoldKept DEF PendingHold, HoldsFollowTheirEvents
    <3>2. ASSUME NEW b \in Ids, LockOwnedBooking(b)
          PROVE  decision'.sawStart = rows'[decision'.row].slot.from
      BY <2>2, <3>2 DEF LockOwnedBooking, PendingHold, HoldsFollowTheirEvents
    <3> QED
      BY <2>2, <3>1, <3>2, DecisionMoves
  <2> QED
    BY <2>1, <2>2 DEF HoldsFollowTheirEvents
<1> QED
  BY <1>1, <1>2, <1>3, <1>4, StepKinds

(* While a decision is under way nothing takes what its hold has kept free. *)
LEMMA StandsStep ==
  ASSUME TypeOK, Next, NoDoubleBooking, OneActiveRequest, DecisionStands
  PROVE  DecisionStands'
<1>0. /\ rows \in [Ids -> Row] /\ clock \in Int /\ clock' \in Int /\ clock <= clock'
      /\ decision.busy => decision.row \in Ids /\ decision.since \in Int
  BY ClockForward, DecisionTyped DEF TypeOK
<1>1. CASE Inserting
  BY <1>1, InsertFacts DEF Inserted, DecisionStands
<1>2. CASE Approving \/ Converting
  <2>1. decision' = [busy |-> FALSE]
    BY <1>2 DEF Approving, Converting, ApproveVenueBooking, ConvertTentativeHold, Decide
  <2> QED
    BY <2>1 DEF DecisionStands
<1>3. ASSUME \A b \in Ids : Moves(b), decision' = decision, decision.busy
      PROVE  DecisionStands'
  <2> DEFINE h == decision.row
  <2>1. decision.since <= clock'
    BY <1>0, <1>3 DEF DecisionStands
  <2>2. ASSUME Held(rows'[h]), ~Elapsed(rows'[h], decision.since), NEW c \in Ids \ {h}
        PROVE  /\ Firm(rows'[c], clock') => Apart(rows'[c].slot, rows'[h].slot)
               /\ Active(rows'[c], clock') => rows'[c].event # rows'[h].event
    <3>1. h \in Ids
      BY <1>0, <1>3
    <3>2. /\ Held(rows[h]) /\ rows'[h].expires = rows[h].expires
          /\ rows'[h].slot = rows[h].slot /\ rows'[h].event = rows[h].event
      BY <1>3, <2>2, <3>1, HeldKept
    <3>3. ~Elapsed(rows[h], decision.since)
      BY <2>2, <3>2 DEF Elapsed
    <3>4. /\ Firm(rows[c], clock) => Apart(rows[c].slot, rows[h].slot)
          /\ Active(rows[c], clock) => rows[c].event # rows[h].event
      BY <1>3, <3>2, <3>3 DEF DecisionStands
    <3>5. /\ Firm(rows'[c], clock') => Firm(rows[c], clock) /\ rows'[c].slot = rows[c].slot
          /\ Active(rows'[c], clock') => Active(rows[c], clock) /\ rows'[c].event = rows[c].event
      BY <1>3, MovesKeep DEF Active
    <3> QED
      BY <3>2, <3>4, <3>5
  <2> QED
    BY <1>3, <2>1, <2>2 DEF DecisionStands
<1>4. ASSUME NEW b \in Ids, LockOwnedBooking(b)
      PROVE  DecisionStands'
  <2>1. /\ rows' = rows /\ clock' = clock
        /\ decision'.row = b /\ decision'.since = clock
    BY <1>4 DEF LockOwnedBooking
  <2>2. ASSUME Held(rows[b]), ~Elapsed(rows[b], clock), NEW c \in Ids \ {b}
        PROVE  /\ Firm(rows[c], clock) => Apart(rows[c].slot, rows[b].slot)
               /\ Active(rows[c], clock) => rows[c].event # rows[b].event
    <3>1. Firm(rows[b], clock) /\ Active(rows[b], clock)
      BY <2>2 DEF Held, Firm, Active
    <3> QED
      BY <3>1 DEF NoDoubleBooking, OneActiveRequest
  <2> QED
    BY <1>0, <2>1, <2>2 DEF DecisionStands
<1> QED
  BY <1>1, <1>2, <1>3, <1>4, StepKinds, DecisionMoves DEF DecisionStands

-----------------------------------------------------------------------------
(* The safety check and the bookings it covers *)

Asked(e) == safety[e].state \in {"pending", "approved"} /\ event[e].status # "Cancelled"

Covered(e) ==
  /\ \E b \in RowsOf(e) : rows[b].status = "approved" /\ rows[b].kind = "booking"
  /\ \A b \in Current(e) :
       \/ rows[b].status = "approved" /\ rows[b].kind = "booking"
       \/ rows[b].status = "rejected"

(* A check whose event keeps its rows covers them as before. *)
LEMMA CoverKept ==
  ASSUME NEW e \in Events, Covered(e),
         \A b \in Ids : rows[b].event = e \/ rows'[b].event = e => rows'[b] = rows[b]
  PROVE  Covered(e)'
BY DEF Covered, RowsOf, Current

(* A step whose changes of rows all pass the trigger keeps the cover. *)
LEMMA TouchKeepsCover ==
  ASSUME TypeOK, SafetyCoversTheBookings, NEW B, safety' = Touch(B), event' = event,
         \A b \in Ids : \/ rows'[b] = rows[b]
                        \/ b \in B /\ rows'[b].event \in {rows[b].event, NoEvent}
  PROVE  SafetyCoversTheBookings'
<1> SUFFICES ASSUME NEW e \in Events, Asked(e)'
             PROVE  Covered(e)'
  BY DEF SafetyCoversTheBookings, Asked, Covered
<1>1. safety'[e] = safety[e] /\ safety[e].state \in {"pending", "approved"} /\ B \cap RowsOf(e) = {}
  BY TouchFacts DEF TypeOK, Checks, Asked, NoCheck
<1>2. Covered(e)
  BY <1>1 DEF SafetyCoversTheBookings, Asked, Covered
<1>3. \A b \in Ids : rows[b].event = e \/ rows'[b].event = e => rows'[b] = rows[b]
  BY <1>1, NullAssumption DEF RowsOf
<1> QED
  BY <1>2, <1>3, CoverKept

(* A change of a booking resets the check that stood on it. *)
LEMMA SafetyStep ==
  ASSUME TypeOK, Next, SafetyCoversTheBookings
  PROVE  SafetyCoversTheBookings'
<1>0. /\ rows \in [Ids -> Row] /\ safety \in Checks
      /\ event \in [Events -> [status : EventStatus, slot : Slots]]
  BY DEF TypeOK, Checks
<1>1. ASSUME UNCHANGED <<event, safety, rows>> PROVE SafetyCoversTheBookings'
  BY <1>1 DEF SafetyCoversTheBookings, RowsOf, Current
<1>2. CASE Inserting
  <2>1. PICK f \in Events, a \in Ids : Inserted(f, a)
    BY <1>2, InsertFacts
  <2> SUFFICES ASSUME NEW e \in Events, Asked(e)'
               PROVE  Covered(e)'
    BY DEF SafetyCoversTheBookings, Asked, Covered
  <2>2. e # f
    BY <1>0, <2>1 DEF Inserted, Asked, NoCheck, Checks
  <2> QED
    BY <1>0, <2>1, <2>2 DEF Inserted, Asked, Covered, SafetyCoversTheBookings, RowsOf, Current
<1>3. ASSUME NEW b \in Ids, CancelCoordinatorBooking(b) PROVE SafetyCoversTheBookings'
  <2>1. \A c \in Ids : \/ rows'[c] = rows[c]
                       \/ c \in {b} /\ rows'[c].event \in {rows[c].event, NoEvent}
    BY <1>0, <1>3 DEF CancelCoordinatorBooking, Row
  <2> QED
    BY <1>3, <2>1, TouchKeepsCover DEF CancelCoordinatorBooking
<1>4. ASSUME NEW b \in Ids, RemoveVenueRequest(b) PROVE SafetyCoversTheBookings'
  <2> SUFFICES ASSUME NEW e \in Events, Asked(e)'
               PROVE  Covered(e)'
    BY DEF SafetyCoversTheBookings, Asked, Covered
  <2>1. rows[b].event # e /\ safety'[e] = safety[e] /\ event' = event
    BY <1>0, <1>4 DEF RemoveVenueRequest, Asked, NoCheck, Checks
  <2>2. Covered(e)
    BY <2>1 DEF SafetyCoversTheBookings, Asked, Covered
  <2>3. \A c \in Ids : rows[c].event = e \/ rows'[c].event = e => rows'[c] = rows[c]
    BY <1>0, <1>4, <2>1, NullAssumption DEF RemoveVenueRequest, Blank
  <2> QED
    BY <2>2, <2>3, CoverKept
<1>5. ASSUME NEW b \in Ids, ApproveVenueBooking(b) PROVE SafetyCoversTheBookings'
  <2>1. \A c \in Ids : \/ rows'[c] = rows[c]
                       \/ c \in {b} /\ rows'[c].event \in {rows[c].event, NoEvent}
    BY <1>5, ApproveFacts DEF Approved
  <2> QED
    BY <1>5, <2>1, TouchKeepsCover DEF ApproveVenueBooking
<1>6. ASSUME NEW b \in Ids, RejectVenueBooking(b) PROVE SafetyCoversTheBookings'
  <2>1. \A c \in Ids : \/ rows'[c] = rows[c]
                       \/ c \in {b} /\ rows'[c].event \in {rows[c].event, NoEvent}
    BY <1>0, <1>6 DEF RejectVenueBooking, Row
  <2> QED
    BY <1>6, <2>1, TouchKeepsCover DEF RejectVenueBooking
<1>7. ASSUME NEW b \in Ids, ConvertTentativeHold(b) PROVE SafetyCoversTheBookings'
  <2>1. \A c \in Ids : \/ rows'[c] = rows[c]
                       \/ c \in {b} /\ rows'[c].event \in {rows[c].event, NoEvent}
    BY <1>0, <1>7 DEF ConvertTentativeHold, Row
  <2> QED
    BY <1>7, <2>1, TouchKeepsCover DEF ConvertTentativeHold
<1>8. ASSUME NEW b \in Ids, ReleaseTentativeHold(b) PROVE SafetyCoversTheBookings'
  <2> SUFFICES ASSUME NEW e \in Events, Asked(e)'
               PROVE  Covered(e)'
    BY DEF SafetyCoversTheBookings, Asked, Covered
  <2>1. Covered(e)
    BY <1>8 DEF ReleaseTentativeHold, SafetyCoversTheBookings, Asked, Covered
  <2>2. rows[b].event # e
    BY <1>8, <2>1 DEF ReleaseTentativeHold, StillRuns, Held, Covered, Current, RowsOf
  <2>3. \A c \in Ids : rows[c].event = e \/ rows'[c].event = e => rows'[c] = rows[c]
    BY <1>0, <1>8, <2>2 DEF ReleaseTentativeHold, Row
  <2> QED
    BY <2>1, <2>3, CoverKept
<1>9. ASSUME NEW s \in Servers, ProcessExpiredTentativeHolds(s) PROVE SafetyCoversTheBookings'
  <2>1. PICK B : /\ safety' = Touch(B) /\ event' = event
                 /\ rows' = [b \in Ids |-> IF b \in B THEN [rows[b] EXCEPT !.status = "expired"]
                                           ELSE rows[b]]
    BY <1>9 DEF ProcessExpiredTentativeHolds
  <2>2. \A c \in Ids : \/ rows'[c] = rows[c]
                       \/ c \in B /\ rows'[c].event \in {rows[c].event, NoEvent}
    BY <1>0, <2>1 DEF Row
  <2> QED
    BY <2>1, <2>2, TouchKeepsCover
<1>10. ASSUME NEW s \in Servers, ProcessTentativeHoldReminders(s) PROVE SafetyCoversTheBookings'
  <2>1. PICK B : /\ safety' = Touch(B) /\ event' = event
                 /\ rows' = [b \in Ids |-> IF b \in B THEN [rows[b] EXCEPT !.reminded = TRUE]
                                           ELSE rows[b]]
    BY <1>10 DEF ProcessTentativeHoldReminders
  <2>2. \A c \in Ids : \/ rows'[c] = rows[c]
                       \/ c \in B /\ rows'[c].event \in {rows[c].event, NoEvent}
    BY <1>0, <2>1 DEF Row
  <2> QED
    BY <2>1, <2>2, TouchKeepsCover
<1>11. ASSUME NEW f \in Events, RequestSafetyCheck(f) PROVE SafetyCoversTheBookings'
  <2>1. rows' = rows /\ event' = event /\ \A e \in Events \ {f} : safety'[e] = safety[e]
    BY <1>0, <1>11 DEF RequestSafetyCheck, Checks
  <2>2. Covered(f)
    BY <1>11 DEF RequestSafetyCheck, VenueConfirmed, Covered, Current, Booked, Replaced, RowsOf
  <2> QED
    BY <2>1, <2>2 DEF SafetyCoversTheBookings, Covered, Current, RowsOf
<1>12. ASSUME NEW f \in Events, SafetyApproves(f) PROVE SafetyCoversTheBookings'
  BY <1>0, <1>12
  DEF SafetyApproves, Respondable, SafetyCoversTheBookings, Current, RowsOf, Checks
<1>13. ASSUME NEW f \in Events, SafetyAnswers(f) PROVE SafetyCoversTheBookings'
  <2>1. PICK B \in SUBSET {b \in RowsOf(f) : rows[b].status = "approved" /\ rows[b].kind = "booking"} :
          /\ safety' = [safety EXCEPT ![f] = [state |-> "answered", review |-> B]]
          /\ rows' = [b \in Ids |-> IF b \in B THEN [rows[b] EXCEPT !.status = "pending"]
                                    ELSE rows[b]]
          /\ event' = event
    BY <1>13 DEF SafetyAnswers
  <2> SUFFICES ASSUME NEW e \in Events, Asked(e)'
               PROVE  Covered(e)'
    BY DEF SafetyCoversTheBookings, Asked, Covered
  <2>2. e # f /\ safety'[e] = safety[e]
    BY <1>0, <2>1 DEF Asked, Checks
  <2>3. Covered(e)
    BY <2>1, <2>2 DEF SafetyCoversTheBookings, Asked, Covered
  <2>4. \A c \in Ids : rows[c].event = e \/ rows'[c].event = e => rows'[c] = rows[c]
    BY <1>0, <2>1, <2>2 DEF RowsOf, Row
  <2> QED
    BY <2>3, <2>4, CoverKept
<1>14. ASSUME NEW f \in Events,
              Confirm(f) \/ Complete(f) \/ ChangeDetails(f) \/ EquipmentChanges(f)
       PROVE  SafetyCoversTheBookings'
  <2>1. /\ rows' = rows
        /\ \A e \in Events : Asked(e)' => Asked(e)
    BY <1>0, <1>14 DEF Confirm, Complete, ChangeDetails, EquipmentChanges, Changeable, Asked,
       NoCheck, Checks
  <2> QED
    BY <2>1 DEF SafetyCoversTheBookings, Asked, Current, RowsOf
<1>15. ASSUME NEW f \in Events, CancelEvent(f) PROVE SafetyCoversTheBookings'
  <2> SUFFICES ASSUME NEW e \in Events, Asked(e)'
               PROVE  Covered(e)'
    BY DEF SafetyCoversTheBookings, Asked, Covered
  <2>1. e # f /\ event'[e] = event[e] /\ safety'[e] = safety[e]
    BY <1>0, <1>15 DEF CancelEvent, Asked
  <2>2. Covered(e)
    BY <2>1 DEF SafetyCoversTheBookings, Asked, Covered
  <2>3. \A c \in Ids : rows[c].event = e \/ rows'[c].event = e => rows'[c] = rows[c]
    BY <1>0, <1>15, <2>1 DEF CancelEvent, RowsOf, Row
  <2> QED
    BY <2>2, <2>3, CoverKept
<1>16. ASSUME NEW f \in Events, NEW p \in Slots, Reschedule(f, p) PROVE SafetyCoversTheBookings'
  <2> SUFFICES ASSUME NEW e \in Events, Asked(e)'
               PROVE  Covered(e)'
    BY DEF SafetyCoversTheBookings, Asked, Covered
  <2>1. e # f /\ event'[e] = event[e] /\ safety'[e] = safety[e]
    BY <1>0, <1>16 DEF Reschedule, Asked, NoCheck, Checks
  <2>2. Covered(e)
    BY <2>1 DEF SafetyCoversTheBookings, Asked, Covered
  <2>3. \A c \in Ids : rows[c].event = e \/ rows'[c].event = e => rows'[c] = rows[c]
    BY <1>0, <1>16, <2>1 DEF Reschedule, RowsOf, Row
  <2> QED
    BY <2>2, <2>3, CoverKept
<1>17. CASE \E b \in Ids : OfRow(b)
  BY <1>17, <1>1, <1>2, <1>3, <1>4, <1>5, <1>6, <1>7, <1>8
  DEF OfRow, LockOwnedBooking, Inserting
<1>18. CASE \E e \in Events : OfEvent(e)
  BY <1>18, <1>11, <1>12, <1>13, <1>14, <1>15, <1>16 DEF OfEvent
<1>19. CASE \E s \in Servers : Scheduler(s)
  BY <1>19, <1>1, <1>9, <1>10 DEF Scheduler, JobStart, ExpiryFails, RemindersFail
<1>20. ASSUME NEW t \in Timings, UpdateVenue(t) PROVE SafetyCoversTheBookings'
  BY <1>1, <1>20, TouchKeepsCover DEF UpdateVenue
<1> QED
  BY <1>1, <1>17, <1>18, <1>19, <1>20
  DEF Next, Tick, DecisionRefused, MarkUnavailable, EndUnavailable

-----------------------------------------------------------------------------
(* What the coordinator is told *)

Reminder(r) == IF r.reminded THEN <<"reminder">> ELSE << >>

Truly(r, t) ==
  \/ r.status = "removed"
  \/ t = Reminder(r) /\ r.status # "expired"
  \/ t = Append(Reminder(r), "converted") /\ r.kind = "booking"
  \/ /\ t = Append(Reminder(r), r.status)
     /\ r.kind = "hold" /\ r.status \in {"expired", "released"}

(* ToldTruly, one row at a time. *)
LEMMA TrulyTold == ToldTruly <=> \A b \in Ids : Truly(rows[b], told[b])
BY DEF ToldTruly, Truly, Reminder

(* A live hold was told of at most its reminder. *)
LEMMA HoldTold ==
  ASSUME NEW b \in Ids, Truly(rows[b], told[b]),
         rows[b].kind = "hold", rows[b].status \in {"pending", "approved"}
  PROVE  told[b] = Reminder(rows[b])
BY DEF Truly

(* A row that nobody is told about: told stays, and it does not expire. *)
LEMMA QuietTold ==
  ASSUME TypeOK, NEW b \in Ids, Truly(rows[b], told[b]), told'[b] = told[b],
         \/ rows'[b] = rows[b]
         \/ Ended(b, {"rejected", "released", "cancelled"})
         \/ Removed(b) \/ Reviewed(b)
  PROVE  Truly(rows'[b], told'[b])
<1>1. rows[b] \in Row /\ Allowed(rows[b])
  BY DEF TypeOK
<1>2. CASE Ended(b, {"rejected", "released", "cancelled"}) \/ Reviewed(b)
  <2>1. /\ Reminder(rows'[b]) = Reminder(rows[b]) /\ rows'[b].kind = rows[b].kind
        /\ rows[b].status \notin {"expired", "released"} /\ rows'[b].status # "expired"
        /\ rows[b].status # "removed"
    BY <1>1, <1>2 DEF Ended, Reviewed, Reminder, Row
  <2> QED
    BY <2>1 DEF Truly
<1>3. CASE Removed(b)
  BY <1>3 DEF Removed, Blank, Truly
<1> QED
  BY <1>2, <1>3

(* The notice of an end is written in the step that ends the hold. *)
LEMMA ToldStep ==
  ASSUME TypeOK, Next, RowsOwned, CancelledEventHoldsNothing, ToldTruly
  PROVE  ToldTruly'
<1>0. /\ rows \in [Ids -> Row] /\ told \in [Ids -> Seq(Notice)]
      /\ \A b \in Ids : Truly(rows[b], told[b])
      /\ \A b \in Ids : rows[b].status \in {"pending", "approved"}
                        => event[rows[b].event].status # "Cancelled"
  BY TrulyTold DEF TypeOK, RowsOwned, CancelledEventHoldsNothing
<1> SUFFICES \A b \in Ids : Truly(rows'[b], told'[b])
  BY DEF ToldTruly, Truly, Reminder
<1>1. ASSUME UNCHANGED <<rows, told>>
      PROVE  \A b \in Ids : Truly(rows'[b], told'[b])
  BY <1>0, <1>1
<1>2. CASE Inserting
  <2>1. PICK e \in Events, a \in Ids : Inserted(e, a)
    BY <1>2, InsertFacts
  <2>2. Truly(rows'[a], told'[a])
    BY <2>1 DEF Inserted, RowsOwned, Truly, Reminder
  <2> QED
    BY <1>0, <2>1, <2>2 DEF Inserted
<1>3. CASE Approving
  <2>1. PICK a \in Ids : Approved(a)
    BY <1>3, ApproveFacts DEF Approving
  <2>2. Truly(rows'[a], told'[a])
    BY <1>0, <2>1 DEF Approved, Truly, Reminder
  <2> QED
    BY <1>0, <2>1, <2>2 DEF Approved
<1>4. ASSUME NEW a \in Ids, CancelCoordinatorBooking(a) \/ RemoveVenueRequest(a)
                            \/ RejectVenueBooking(a)
      PROVE  \A b \in Ids : Truly(rows'[b], told'[b])
  <2>1. \A b \in Ids : \/ rows'[b] = rows[b]
                       \/ Ended(b, {"rejected", "released", "cancelled"}) \/ Removed(b)
    BY <1>0, <1>4
    DEF CancelCoordinatorBooking, RemoveVenueRequest, RejectVenueBooking, Ended, Removed
  <2> QED
    BY <1>0, <1>4, <2>1, QuietTold
    DEF CancelCoordinatorBooking, RemoveVenueRequest, RejectVenueBooking
<1>5. ASSUME NEW a \in Ids, ConvertTentativeHold(a)
      PROVE  \A b \in Ids : Truly(rows'[b], told'[b])
  <2>1. /\ told[a] = Reminder(rows[a])
        /\ told' = [told EXCEPT ![a] = Append(@, "converted")]
    BY <1>0, <1>5, HoldTold DEF ConvertTentativeHold, StillRuns, Held, Tell
  <2>2. rows'[a].kind = "booking" /\ Reminder(rows'[a]) = Reminder(rows[a])
    BY <1>0, <1>5 DEF ConvertTentativeHold, Reminder, Row
  <2>3. Truly(rows'[a], told'[a])
    BY <1>0, <2>1, <2>2 DEF Truly
  <2> QED
    BY <1>0, <1>5, <2>1, <2>3 DEF ConvertTentativeHold
<1>6. ASSUME NEW a \in Ids, ReleaseTentativeHold(a)
      PROVE  \A b \in Ids : Truly(rows'[b], told'[b])
  <2>1. /\ told[a] = Reminder(rows[a])
        /\ told' = [told EXCEPT ![a] = Append(@, "released")]
    BY <1>0, <1>6, HoldTold DEF ReleaseTentativeHold, StillRuns, Held, Tell
  <2>2. /\ rows'[a].kind = "hold" /\ rows'[a].status = "released"
        /\ Reminder(rows'[a]) = Reminder(rows[a])
    BY <1>0, <1>6 DEF ReleaseTentativeHold, StillRuns, Held, Reminder, Row
  <2>3. Truly(rows'[a], told'[a])
    BY <1>0, <2>1, <2>2 DEF Truly
  <2> QED
    BY <1>0, <1>6, <2>1, <2>3 DEF ReleaseTentativeHold
<1>7. ASSUME NEW s \in Servers, ProcessExpiredTentativeHolds(s), NEW b \in Ids
      PROVE  Truly(rows'[b], told'[b])
  <2> DEFINE due == {c \in Ids : /\ Held(rows[c])
                                 /\ Elapsed(rows[c], job[s].now)}
  <2>1. CASE b \in due
    <3>1. /\ told[b] = Reminder(rows[b]) /\ told'[b] = Append(told[b], "expired")
      BY <1>0, <1>7, <2>1, HoldTold DEF ProcessExpiredTentativeHolds, Held, TellAll
    <3>2. /\ rows'[b].kind = "hold" /\ rows'[b].status = "expired"
          /\ Reminder(rows'[b]) = Reminder(rows[b])
      BY <1>0, <1>7, <2>1 DEF ProcessExpiredTentativeHolds, Held, Reminder, Row
    <3> QED
      BY <3>1, <3>2 DEF Truly
  <2>2. CASE b \notin due
    BY <1>0, <1>7, <2>2 DEF ProcessExpiredTentativeHolds, TellAll
  <2> QED
    BY <2>1, <2>2
<1>8. ASSUME NEW s \in Servers, ProcessTentativeHoldReminders(s), NEW b \in Ids
      PROVE  Truly(rows'[b], told'[b])
  <2> DEFINE due == {c \in Ids : /\ Held(rows[c])
                                 /\ event[rows[c].event].status # "Cancelled"
                                 /\ ~rows[c].reminded
                                 /\ ~Elapsed(rows[c], job[s].now)
                                 /\ rows[c].expires <= job[s].now + ReminderWindow}
  <2>1. CASE b \in due
    <3>1. /\ told[b] = << >> /\ told'[b] = Append(told[b], "reminder")
      BY <1>0, <1>8, <2>1, HoldTold DEF ProcessTentativeHoldReminders, Held, TellAll, Reminder
    <3>2. told'[b] = <<"reminder">>
      BY <3>1
    <3>3. rows'[b].status = "approved" /\ Reminder(rows'[b]) = <<"reminder">>
      BY <1>0, <1>8, <2>1 DEF ProcessTentativeHoldReminders, Held, Reminder, Row
    <3> QED
      BY <3>2, <3>3 DEF Truly
  <2>2. CASE b \notin due
    BY <1>0, <1>8, <2>2 DEF ProcessTentativeHoldReminders, TellAll
  <2> QED
    BY <2>1, <2>2
<1>9. ASSUME NEW e \in Events, SafetyAnswers(e)
      PROVE  \A b \in Ids : Truly(rows'[b], told'[b])
  <2>1. \A b \in Ids : rows'[b] = rows[b] \/ Reviewed(b)
    BY <1>0, <1>9 DEF SafetyAnswers, Reviewed
  <2> QED
    BY <1>0, <1>9, <2>1, QuietTold DEF SafetyAnswers
<1>10. ASSUME NEW e \in Events, CancelEvent(e) \/ \E p \in Slots : Reschedule(e, p)
       PROVE  \A b \in Ids : Truly(rows'[b], told'[b])
  <2>1. \A b \in Ids : rows'[b] = rows[b] \/ Ended(b, {"rejected", "released", "cancelled"})
    BY <1>0, <1>10 DEF CancelEvent, Reschedule, Ended
  <2> QED
    BY <1>0, <1>10, <2>1, QuietTold DEF CancelEvent, Reschedule
<1>11. CASE \E b \in Ids : OfRow(b)
  BY <1>11, <1>1, <1>2, <1>3, <1>4, <1>5, <1>6 DEF OfRow, LockOwnedBooking, Inserting, Approving
<1>12. CASE \E e \in Events : OfEvent(e)
  BY <1>12, <1>1, <1>9, <1>10 DEF OfEvent, RequestSafetyCheck, SafetyApproves, Confirm, Complete,
     ChangeDetails, EquipmentChanges
<1>13. CASE \E s \in Servers : Scheduler(s)
  BY <1>13, <1>1, <1>7, <1>8 DEF Scheduler, JobStart, ExpiryFails, RemindersFail
<1> QED
  BY <1>1, <1>11, <1>12, <1>13
  DEF Next, Tick, DecisionRefused, UpdateVenue, MarkUnavailable, EndUnavailable

-----------------------------------------------------------------------------
(* The theorems *)

(* The nine parts of IInv hold at the start, and each step keeps them: every  *)
(* invariant below is one of its parts.                                       *)
THEOREM Invariance == Spec => []IInv
<1>1. Init => IInv
  <2> SUFFICES ASSUME Init PROVE IInv
    OBVIOUS
  <2>1. TypeOK
    BY TypeInit
  <2>2. /\ RowsOwned /\ HoldsFollowTheirEvents /\ NoDoubleBooking /\ OneActiveRequest
        /\ CancelledEventHoldsNothing /\ DecisionStands
    BY DEF Init, Blank, RowsOwned, HoldsFollowTheirEvents, PendingHold, NoDoubleBooking,
       OneActiveRequest, CancelledEventHoldsNothing, DecisionStands, Firm, Active
  <2>3. SafetyCoversTheBookings
    BY DEF Init, NoCheck, SafetyCoversTheBookings
  <2>4. ToldTruly
    BY DEF Init, Blank, ToldTruly
  <2> QED
    BY <2>1, <2>2, <2>3, <2>4 DEF IInv
<1>2. IInv /\ [Next]_vars => IInv'
  <2> SUFFICES ASSUME IInv, [Next]_vars PROVE IInv'
    OBVIOUS
  <2>1. CASE Next
    <3>1. TypeOK' /\ RowsOwned'
      BY <2>1, TypeStep, OwnedStep DEF IInv
    <3>2. /\ HoldsFollowTheirEvents' /\ NoDoubleBooking' /\ OneActiveRequest'
          /\ CancelledEventHoldsNothing' /\ DecisionStands'
      BY <2>1, FollowStep, DoubleBookingStep, OneActiveStep, CancelledStep, StandsStep
      DEF IInv
    <3>3. SafetyCoversTheBookings' /\ ToldTruly'
      BY <2>1, SafetyStep, ToldStep DEF IInv
    <3> QED
      BY <3>1, <3>2, <3>3 DEF IInv
  <2>2. CASE UNCHANGED vars
    <3>1. TypeOK' /\ RowsOwned' /\ HoldsFollowTheirEvents'
      BY <2>2 DEF vars, IInv, TypeOK, RowsOwned, HoldsFollowTheirEvents, PendingHold
    <3>2. NoDoubleBooking' /\ OneActiveRequest' /\ CancelledEventHoldsNothing'
      BY <2>2 DEF vars, IInv, NoDoubleBooking, OneActiveRequest, CancelledEventHoldsNothing
    <3>3. DecisionStands' /\ SafetyCoversTheBookings' /\ ToldTruly'
      BY <2>2 DEF vars, IInv, DecisionStands, SafetyCoversTheBookings, RowsOf, Current,
         ToldTruly
    <3> QED
      BY <3>1, <3>2, <3>3 DEF IInv
  <2> QED
    BY <2>1, <2>2
<1> QED
  BY <1>1, <1>2, PTL DEF Spec

(* The venue is never promised twice for periods that touch.                  *)
THEOREM NeverBookedTwice == Spec => []NoDoubleBooking
<1>1. IInv => NoDoubleBooking
  BY DEF IInv
<1> QED
  BY <1>1, Invariance, PTL

(* An event never has two live requests for the venue.                        *)
THEOREM OneRequestAtATime == Spec => []OneActiveRequest
<1>1. IInv => OneActiveRequest
  BY DEF IInv
<1> QED
  BY <1>1, Invariance, PTL

(* No request of a cancelled event is live, whatever was under way.           *)
THEOREM CancelledEventLetsGo == Spec => []CancelledEventHoldsNothing
<1>1. IInv => CancelledEventHoldsNothing
  BY DEF IInv
<1> QED
  BY <1>1, Invariance, PTL

(* A hold runs into its period by no longer than its approval took, and keeps *)
(* the expiry and the period it was approved with.                            *)
THEOREM HoldsEndInTime == Spec => HoldEndsWithItsPeriod
<1> DEFINE Step == \A b \in Ids :
              Held(rows'[b]) =>
                IF Held(rows[b])
                THEN rows'[b].expires = rows[b].expires /\ rows'[b].slot = rows[b].slot
                ELSE rows'[b].expires - rows'[b].slot.from <= clock - decision.since
<1>1. IInv /\ [Next]_vars => [Step]_vars
  <2> SUFFICES ASSUME IInv, Next, NEW b \in Ids, Held(rows'[b])
               PROVE  IF Held(rows[b])
                      THEN rows'[b].expires = rows[b].expires /\ rows'[b].slot = rows[b].slot
                      ELSE rows'[b].expires - rows'[b].slot.from <= clock - decision.since
    OBVIOUS
  <2>0. TypeOK /\ HoldsFollowTheirEvents
    BY DEF IInv
  <2>1. CASE Inserting
    BY <2>0, <2>1, InsertFacts DEF Inserted, Held
  <2>2. ASSUME NEW a \in Ids, ApproveVenueBooking(a)
        PROVE  IF Held(rows[b])
               THEN rows'[b].expires = rows[b].expires /\ rows'[b].slot = rows[b].slot
               ELSE rows'[b].expires - rows'[b].slot.from <= clock - decision.since
    <3>1. Approved(a) /\ decision.busy /\ decision.row = a
      BY <2>0, <2>2, ApproveFacts DEF ApproveVenueBooking, Decide
    <3>2. CASE b # a
      BY <3>1, <3>2 DEF Approved
    <3>3. CASE b = a
      <4>1. rows[b].status = "pending" /\ rows[b].kind = "hold" /\ rows'[b].slot = rows[b].slot
        BY <3>1, <3>3 DEF Approved, Held
      <4>2. decision.sawStart = rows[b].slot.from
        BY <2>0, <3>1, <3>3, <4>1 DEF PendingHold, HoldsFollowTheirEvents
      <4>3. PICK lead \in Int, write \in Int :
              /\ decision.since <= lead /\ write <= clock
              /\ InTime(b, lead) /\ rows'[b].expires = write + HoldLength
        BY <3>1, <3>3, <4>1 DEF Approved
      <4>4. /\ rows[b].slot.from \in Nat /\ timing.setup \in Nat /\ clock \in Nat
            /\ decision.since \in Nat
            /\ LeadTime \in Nat /\ HoldLength \in Nat /\ HoldLength <= LeadTime
        BY <2>0, <3>1, DecisionTyped, TimesAssumption, TimingsAssumption
        DEF TypeOK, Row, Period
      <4>5. rows[b].slot.from - timing.setup - lead >= LeadTime
        BY <4>1, <4>2, <4>3 DEF InTime
      <4>6. rows'[b].expires - rows'[b].slot.from <= clock - decision.since
        BY <4>1, <4>3, <4>4, <4>5
      <4> QED
        BY <4>1, <4>6 DEF Held
    <3> QED
      BY <3>2, <3>3
  <2>3. CASE Converting
    BY <2>0, <2>3, ConvertFacts DEF Converting, Converted, Held
  <2>4. CASE Moves(b)
    BY <2>0, <2>4, HeldKept
  <2> QED
    BY <2>0, <2>1, <2>2, <2>3, <2>4, StepKinds DEF Approving
<1> QED
  BY <1>1, Invariance, PTL DEF Spec, HoldEndsWithItsPeriod

(* A safety check in force covers the bookings of its event.                  *)
THEOREM SafetyAlwaysCovers == Spec => []SafetyCoversTheBookings
<1>1. IInv => SafetyCoversTheBookings
  BY DEF IInv
<1> QED
  BY <1>1, Invariance, PTL

(* The coordinator is told of a hold's reminder and its end once and truly.   *)
THEOREM AlwaysToldTruly == Spec => []ToldTruly
<1>1. IInv => ToldTruly
  BY DEF IInv
<1> QED
  BY <1>1, Invariance, PTL

(* No step revives a closed request.                                          *)
THEOREM ClosedStaysClosedAlways == Spec => ClosedStaysClosed
<1> DEFINE Step == \A b \in Ids :
              /\ rows[b].status \in {"rejected", "released", "cancelled", "expired"}
              /\ rows'[b] # rows[b]
              => rows'[b].status = "removed" /\ event[rows[b].event].status = "Planning"
<1>1. TypeOK /\ [Next]_vars => [Step]_vars
  <2> SUFFICES ASSUME TypeOK, Next PROVE Step
    OBVIOUS
  <2>1. CASE Inserting
    BY <2>1, InsertFacts DEF Inserted
  <2>2. CASE Approving
    BY <2>2, ApproveFacts DEF Approving, Approved
  <2>4. CASE Converting
    BY <2>4, ConvertFacts DEF Converting, Converted, Held
  <2>3. CASE \A b \in Ids : Moves(b)
    BY <2>3 DEF Moves, Ended, Removed, Reviewed, Reminded, Blank
  <2> QED
    BY <2>1, <2>2, <2>3, <2>4, StepKinds
<1> QED
  BY <1>1, TypeCorrect, PTL DEF Spec, ClosedStaysClosed

(* An event is confirmed only with an available booking.                      *)
THEOREM ConfirmedWithVenueAlways == Spec => ConfirmedWithVenue
<1> DEFINE Step == \A e \in Events :
              event[e].status # "Confirmed" /\ event'[e].status = "Confirmed"
              => \E b \in RowsOf(e) : Booked(b)
<1>1. IInv /\ [Next]_vars => [Step]_vars
  <2> SUFFICES ASSUME IInv, Next, NEW e \in Events,
                      event[e].status # "Confirmed", event'[e].status = "Confirmed"
               PROVE  \E b \in RowsOf(e) : Booked(b)
    OBVIOUS
  <2>1. VenueReady(e) /\ safety[e].state = "approved" /\ event[e].status = "Planning"
    BY ConfirmMoves DEF IInv, Confirm
  <2>2. PICK b \in RowsOf(e) : rows[b].status = "approved" /\ rows[b].kind = "booking"
    BY <2>1 DEF IInv, SafetyCoversTheBookings
  <2>3. Booked(b)
    BY <2>1, <2>2 DEF VenueReady, Current, RowsOf, Replaced
  <2> QED
    BY <2>2, <2>3
<1> QED
  BY <1>1, Invariance, PTL DEF Spec, ConfirmedWithVenue
===============================================================================
