---------------------------- MODULE EventChanges ----------------------------
(***************************************************************************)
(* One event from its submission to its end, and the three ways its        *)
(* details change: the coordinator's own update, part of which may wait    *)
(* for review as flagged changes (backend/src/events/planning), the        *)
(* organiser's change requests (backend/src/events/change-requests) and    *)
(* the cancellation, direct or requested (backend/src/events/cancel,       *)
(* backend/src/events/cancellation-requests).                              *)
(*                                                                         *)
(* Every handler locks the event row before it reads anything else, so a   *)
(* handler is one step; what can go wrong is the order in which the        *)
(* organiser, the coordinator and the clock take theirs.                   *)
(*                                                                         *)
(* The details are the two times, the fields that one check relates and    *)
(* one update may change together; the other fields are classified,        *)
(* flagged, resolved and recorded in the same way. Abstracted: which       *)
(* bookings a new time affects (any choice, the same for both times of one *)
(* update), who the coordinator is (Assignment), readiness and the safety  *)
(* check (VenueBookings), reasons, the re-check list, and the notices to   *)
(* the organiser.                                                          *)
(***************************************************************************)
EXTENDS Integers, Sequences, FiniteSets

CONSTANTS
  Bookings,    \* the event's active venue bookings
  Affected,    \* bound: the sets of them that a move may affect
  MaxTime,     \* the last instant
  MaxRequests, \* bound: change requests
  MaxCancels,  \* bound: cancellation requests
  MaxRows      \* bound: rows of the change history

ASSUME AffectedAssumption == Affected \subseteq SUBSET Bookings
ASSUME BoundsAssumption ==
  /\ MaxTime \in Nat \ {0}
  /\ MaxRequests \in Nat
  /\ MaxCancels \in Nat
  /\ MaxRows \in Nat

VARIABLES
  now,       \* the clock
  status,    \* events.status
  assigned,  \* events.coordinator_id is set
  details,   \* the event's start and end
  flags,     \* the change of each field that awaits review, or NoFlag
  history,   \* the Applied rows of each field, oldest first
  requests,  \* the change requests, oldest first
  audit,     \* event_change_request_audit: <<request, outcome>> rows
  cancels    \* the cancellation requests, oldest first

vars == <<now, status, assigned, details, flags, history, requests,
          audit, cancels>>

-----------------------------------------------------------------------------
(* Types *)

Fields == {"start", "end"}
Times  == 1 .. MaxTime

EventStatus   == {"Submitted", "Rejected", "Approved", "Planning",
                  "Confirmed", "Completed", "Cancelled"}
RequestStatus == {"Pending", "Approved", "Denied", "Withdrawn", "Closed"}
CancelStatus  == {"pending", "accepted", "declined"}
Decision      == {"Applied", "Rejected"}

Details == [Fields -> Times]

\* The proposed values: 0 for a field that is not part of the change.
Patch == [Fields -> 0 .. MaxTime]

\* A flagged change keeps, for each booking it affects, the decision on it.
Impacts == UNION {[S -> Decision \cup {"open"}] : S \in SUBSET Bookings}
NoFlag  == [pending |-> FALSE]
Flag    == [pending : {TRUE}, from : Times, to : Times, impacts : Impacts]

\* An Applied row of event_flagged_changes.
Row == [from : Times, to : Times]

TypeOK ==
  /\ now \in 0 .. MaxTime
  /\ status \in EventStatus
  /\ assigned \in BOOLEAN
  /\ details \in Details
  /\ flags \in [Fields -> Flag \cup {NoFlag}]
  /\ history \in [Fields -> Seq(Row)]
  /\ requests \in Seq([status : RequestStatus, patch : Patch])
  /\ audit \subseteq (1 .. MaxRequests) \X (RequestStatus \ {"Pending"})
  /\ cancels \in Seq(CancelStatus)

Init ==
  /\ now = 0
  /\ status = "Submitted"
  /\ assigned = FALSE
  /\ details \in {d \in Details : d["start"] < d["end"]}
  /\ flags = [f \in Fields |-> NoFlag]
  /\ history = [f \in Fields |-> << >>]
  /\ requests = << >>
  /\ audit = {}
  /\ cancels = << >>

-----------------------------------------------------------------------------
(* Helpers *)

Open        == {"Submitted", "Approved", "Planning", "Confirmed"}
Cancellable == {"Submitted", "Approved", "Planning", "Confirmed"}
Editable    == {"Approved", "Planning"}

\* The details with the patch's values in place of the stored ones.
Merged(patch) ==
  [f \in Fields |-> IF patch[f] = 0 THEN details[f] ELSE patch[f]]

\* checkMergedSchedule: the end stays after the start.
Ordered(d) == d["start"] < d["end"]

Changed(patch) == {f \in Fields : Merged(patch)[f] # details[f]}

\* validateEventUpdate: a start that is sent must be in the future, and an
\* end sent with it after it.
Valid(patch) ==
  /\ patch["start"] = 0 \/ patch["start"] > now
  /\ patch["start"] = 0 \/ patch["end"] = 0 \/ Ordered(patch)

Flagged == {f \in Fields : flags[f].pending}

Pending == {i \in DOMAIN requests : requests[i].status = "Pending"}

Asked == {i \in DOMAIN cancels : cancels[i] = "pending"}

\* The history with one more Applied row for each of the fields.
Recorded(fields, from, to) ==
  [f \in Fields |-> IF f \in fields
                    THEN Append(history[f], [from |-> from[f], to |-> to[f]])
                    ELSE history[f]]

RoomFor(n) == Len(history["start"]) + Len(history["end"]) + n <= MaxRows

-----------------------------------------------------------------------------
(* Assignment, review, and the statuses the other modules move             *)

\* The Lead assigns a coordinator; a reassignment leaves the event assigned.
Assign ==
  /\ status = "Submitted"
  /\ ~assigned
  /\ assigned' = TRUE
  /\ UNCHANGED <<now, status, details, flags, history, requests,
                 audit, cancels>>

\* approve and reject: the assigned coordinator's one-way decision.
Review(decision) ==
  /\ assigned
  /\ status = "Submitted"
  /\ status' = decision
  /\ UNCHANGED <<now, assigned, details, flags, history, requests,
                 audit, cancels>>

\* The first venue booking or equipment request of an Approved event starts
\* its planning.
StartPlanning ==
  /\ status = "Approved"
  /\ status' = "Planning"
  /\ UNCHANGED <<now, assigned, details, flags, history, requests,
                 audit, cancels>>

\* The readiness rules ask for bookings, equipment and the safety check.
\* They do not look at the flagged changes or at the requests.
Confirm ==
  /\ assigned
  /\ status = "Planning"
  /\ status' = "Confirmed"
  /\ UNCHANGED <<now, assigned, details, flags, history, requests,
                 audit, cancels>>

Complete ==
  /\ assigned
  /\ status = "Confirmed"
  /\ now >= details["end"]
  /\ status' = "Completed"
  /\ UNCHANGED <<now, assigned, details, flags, history, requests,
                 audit, cancels>>

-----------------------------------------------------------------------------
(* The coordinator's update and the review of what it flagged              *)

\* createFlaggedChange for each of the fields.
Flagging(fields, patch, affected) ==
  [f \in Fields |->
     IF f \in fields
     THEN [pending |-> TRUE, from |-> details[f], to |-> patch[f],
           impacts |-> [b \in affected |-> "open"]]
     ELSE flags[f]]

\* The checks of updateEvent, in the order it makes them.
MayUpdate(patch) ==
  /\ Valid(patch)
  /\ assigned
  /\ status \in Editable
  /\ Ordered(Merged(patch))
  /\ Changed(patch) # {}
  /\ Changed(patch) \cap Flagged = {}

\* No booking and no equipment is affected: the values apply at once.
UpdateNow(patch) ==
  /\ MayUpdate(patch)
  /\ RoomFor(Cardinality(Changed(patch)))
  /\ details' = Merged(patch)
  /\ history' = Recorded(Changed(patch), details, Merged(patch))
  /\ UNCHANGED <<now, status, assigned, flags, requests, audit,
                 cancels>>

(* Faulty variants of the next action: each time assessed on its own, so   *)
(* that one applies and the other waits; every time flagged, changed or    *)
(* not.                                                                    *)
UpdateHalves(patch, affected) ==
  /\ MayUpdate(patch)
  /\ status = "Planning"
  /\ RoomFor(1)
  /\ \E f \in Changed(patch) :
       /\ details' = [details EXCEPT ![f] = patch[f]]
       /\ history' = Recorded({f}, details, Merged(patch))
       /\ flags' = Flagging(Changed(patch) \ {f}, patch, affected)
  /\ UNCHANGED <<now, status, assigned, requests, audit, cancels>>
UpdateAllLater(patch, affected) ==
  /\ MayUpdate(patch)
  /\ status = "Planning"
  /\ flags' = Flagging(Fields, patch, affected)
  /\ UNCHANGED <<now, status, assigned, details, history, requests, audit,
                 cancels>>

\* Something is: the changed times wait for review together, because a move
\* is assessed as one. No booking affected means that equipment is.
UpdateLater(patch, affected) ==
  /\ MayUpdate(patch)
  /\ status = "Planning"
  /\ flags' = Flagging(Changed(patch), patch, affected)
  /\ UNCHANGED <<now, status, assigned, details, history, requests, audit,
                 cancels>>

\* The value a change of the field leaves behind.
Applied(f) == [details EXCEPT ![f] = flags[f].to]

\* closeChange: Applied writes the proposed value, if the merged schedule
\* still allows it; Rejected clears the assessment.
Close(f, outcome) ==
  /\ flags' = [flags EXCEPT ![f] = NoFlag]
  /\ IF outcome = "Applied"
     THEN /\ Ordered(Applied(f))
          /\ RoomFor(1)
          /\ details' = Applied(f)
          /\ history' = [history EXCEPT ![f] =
                           Append(@, [from |-> flags[f].from,
                                      to |-> flags[f].to])]
     ELSE UNCHANGED <<details, history>>
  /\ UNCHANGED <<now, status, assigned, requests, audit, cancels>>

MayResolve(f) ==
  /\ assigned
  /\ status \in Editable
  /\ flags[f].pending

\* resolveChange without a booking: the whole change.
ResolveChange(f, decision) ==
  /\ MayResolve(f)
  /\ Close(f, decision)

\* resolveChange for one booking. The last decision closes the change.
ResolveBooking(f, b, decision) ==
  /\ MayResolve(f)
  /\ b \in DOMAIN flags[f].impacts
  /\ flags[f].impacts[b] = "open"
  /\ LET decided == [flags[f].impacts EXCEPT ![b] = decision]
         left    == {c \in DOMAIN decided : decided[c] = "open"}
         agreed  == \A c \in DOMAIN decided : decided[c] = "Applied"
     IN  IF left # {}
         THEN /\ flags' = [flags EXCEPT ![f].impacts = decided]
              /\ UNCHANGED <<now, status, assigned, details, history,
                             requests, audit, cancels>>
         ELSE Close(f, IF agreed THEN "Applied" ELSE "Rejected")

-----------------------------------------------------------------------------
(* Change requests                                                         *)

\* create: one pending request, of the fields whose value differs.
RequestChange(patch) ==
  /\ Len(requests) < MaxRequests
  /\ Valid(patch)
  /\ status \in Open
  /\ now < details["start"]
  /\ Ordered(Merged(patch))
  /\ Changed(patch) # {}
  /\ Pending = {}
  /\ requests' = Append(requests,
       [status |-> "Pending",
        patch  |-> [f \in Fields |->
                      IF f \in Changed(patch) THEN patch[f] ELSE 0]])
  /\ UNCHANGED <<now, status, assigned, details, flags, history,
                 audit, cancels>>

\* The outcome of a request, with its audit row in the same transaction.
DecideRequest(i, outcome) ==
  /\ requests' = [requests EXCEPT ![i].status = outcome]
  /\ audit' = audit \cup {<<i, outcome>>}

\* withdraw: whatever the event's status.
Withdraw(i) ==
  /\ i \in Pending
  /\ DecideRequest(i, "Withdrawn")
  /\ UNCHANGED <<now, status, assigned, details, flags, history,
                 cancels>>

\* The values of an approved request are checked again, then applied.
ApplyRequest(i) ==
  LET patch == requests[i].patch
  IN  /\ assigned
      /\ i \in Pending
      /\ status \in Open
      /\ now < details["start"]
      /\ Valid(patch)
      /\ Ordered(Merged(patch))
      /\ RoomFor(Cardinality(Changed(patch)))
      /\ details' = Merged(patch)
      /\ history' = Recorded(Changed(patch), details, Merged(patch))
      /\ DecideRequest(i, "Approved")
      /\ UNCHANGED <<now, assigned, flags, cancels>>

NotInReview(i) ==
  {f \in Fields : requests[i].patch[f] # 0} \cap Flagged = {}

BackToPlanning ==
  status' = IF status = "Confirmed" THEN "Planning" ELSE status

(* Faulty variants of the next action: a change that awaits review is not  *)
(* in the way; a Confirmed event stays so.                                 *)
ApproveOverFlag(i) == ApplyRequest(i) /\ BackToPlanning
ApproveInPlace(i)  == NotInReview(i) /\ ApplyRequest(i) /\ UNCHANGED status

\* approve: no field of the request may await review, and a Confirmed event
\* has to be confirmed again.
ApproveRequest(i) ==
  /\ NotInReview(i)
  /\ ApplyRequest(i)
  /\ BackToPlanning

\* deny: also after the event has started, and on a Rejected event.
DenyRequest(i) ==
  /\ assigned
  /\ i \in Pending
  /\ status \notin {"Cancelled", "Completed"}
  /\ DecideRequest(i, "Denied")
  /\ UNCHANGED <<now, status, assigned, details, flags, history,
                 cancels>>

-----------------------------------------------------------------------------
(* Cancellation                                                            *)

(* A faulty variant: the pending change request stays open.               *)
CancelBeside ==
  /\ status \in Cancellable
  /\ status' = "Cancelled"
  /\ UNCHANGED <<now, assigned, details, flags, history, requests,
                 audit>>

\* cancelInside, with the release that closes a pending change request. The
\* flagged changes and the cancellation requests are left as they are.
CancelInside ==
  /\ status \in Cancellable
  /\ status' = "Cancelled"
  /\ requests' = [i \in DOMAIN requests |->
                    IF i \in Pending
                    THEN [requests[i] EXCEPT !.status = "Closed"]
                    ELSE requests[i]]
  /\ audit' = audit \cup (Pending \X {"Closed"})
  /\ UNCHANGED <<now, assigned, details, flags, history>>

\* The assigned coordinator cancels the event.
CancelEvent ==
  /\ assigned
  /\ CancelInside
  /\ UNCHANGED cancels

RequestCancellation ==
  /\ Len(cancels) < MaxCancels
  /\ status \in Cancellable
  /\ Asked = {}
  /\ cancels' = Append(cancels, "pending")
  /\ UNCHANGED <<now, status, assigned, details, flags, history,
                 requests, audit>>

AcceptCancellation(i) ==
  /\ assigned
  /\ i \in Asked
  /\ cancels' = [cancels EXCEPT ![i] = "accepted"]
  /\ CancelInside

DeclineCancellation(i) ==
  /\ assigned
  /\ i \in Asked
  /\ status \in Cancellable
  /\ cancels' = [cancels EXCEPT ![i] = "declined"]
  /\ UNCHANGED <<now, status, assigned, details, flags, history,
                 requests, audit>>

-----------------------------------------------------------------------------

Tick ==
  /\ now < MaxTime
  /\ now' = now + 1
  /\ UNCHANGED <<status, assigned, details, flags, history,
                 requests, audit, cancels>>

Next ==
  \/ Assign
  \/ \E d \in {"Approved", "Rejected"} : Review(d)
  \/ StartPlanning
  \/ Confirm
  \/ Complete
  \/ \E patch \in Patch : UpdateNow(patch)
  \/ \E patch \in Patch, affected \in Affected : UpdateLater(patch, affected)
  \/ \E f \in Fields, d \in Decision : ResolveChange(f, d)
  \/ \E f \in Fields, b \in Bookings, d \in Decision : ResolveBooking(f, b, d)
  \/ \E patch \in Patch : RequestChange(patch)
  \/ \E i \in DOMAIN requests : Withdraw(i)
  \/ \E i \in DOMAIN requests : ApproveRequest(i)
  \/ \E i \in DOMAIN requests : DenyRequest(i)
  \/ CancelEvent
  \/ RequestCancellation
  \/ \E i \in DOMAIN cancels : AcceptCancellation(i)
  \/ \E i \in DOMAIN cancels : DeclineCancellation(i)
  \/ Tick

Spec == Init /\ [][Next]_vars

-----------------------------------------------------------------------------
(* Properties                                                              *)

(* No order of updates, reviews and approvals makes the event end before   *)
(* it starts: the table's check never has to refuse what a handler wrote,  *)
(* though a move of both times may be applied in two halves.               *)
ScheduleInOrder == Ordered(details)

(* The change history tells one story for each field: every Applied row    *)
(* starts from the value the row before it left, the last one left the     *)
(* event's value, and a change that awaits review starts from that value   *)
(* ("so the pending change's original values stay unambiguous").           *)
HistoryIsAChain ==
  \A f \in Fields :
    /\ \A i \in 2 .. Len(history[f]) :
         history[f][i].from = history[f][i - 1].to
    /\ history[f] # << >> => history[f][Len(history[f])].to = details[f]
    /\ flags[f].pending => flags[f].from = details[f]

(* Each request ends once: whoever decides it first, organiser,            *)
(* coordinator or the cancellation, leaves the one audit row that says so, *)
(* a cancelled event has no request left to decide, and an accepted        *)
(* cancellation is one that happened.                                      *)
RequestsEndOnce ==
  /\ audit = {<<i, requests[i].status>> : i \in DOMAIN requests \ Pending}
  /\ status = "Cancelled" => Pending = {}
  /\ \A i \in DOMAIN cancels : cancels[i] = "accepted" => status = "Cancelled"

(* The details a Confirmed event was confirmed with stand: they change     *)
(* only by a request whose approval sends the event back to Planning.      *)
ConfirmedDetailsStand ==
  [][status = "Confirmed" /\ details' # details => status' = "Planning"]_vars

-----------------------------------------------------------------------------
(* The inductive invariant *)

(* Checked and proved to be inductive: the types, the bound that the       *)
(* numbers of the audit rows follow, and what must hold.                   *)
IInv ==
  /\ TypeOK
  /\ Len(requests) <= MaxRequests
  /\ ScheduleInOrder
  /\ HistoryIsAChain
  /\ RequestsEndOnce
=============================================================================
