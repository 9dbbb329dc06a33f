------------------------ MODULE EquipmentReservations ------------------------
(***************************************************************************)
(* The equipment of the events: the inventory of Technical Support, the    *)
(* coordinators' requests with their lines, the decisions on them, and     *)
(* what moves, cancellations and the safety check do to the reservations   *)
(* (backend/src/equipment, the equipment half of backend/src/events and    *)
(* the trigger on equipment_reservations).                                 *)
(*                                                                         *)
(* Every handler locks the event row first. A reservation then locks the   *)
(* inventory rows it draws on, adds up what overlapping events hold, and   *)
(* writes: two steps here, between which the handlers of other events run  *)
(* and only those that need the same inventory rows wait.                  *)
(*                                                                         *)
(* A line is an item of a request with the reservation linked to it (row,  *)
(* "none" when it was removed). Every statement that writes the name and   *)
(* quantity of one writes the other, so a line has them once.              *)
(* Abstracted: types, locations, reasons and the audit trail; 'Approved'   *)
(* events, folded into "Planning"; the free text that says whether an      *)
(* event needs equipment; whether venue and registration are ready, which  *)
(* is left open; the time at which an event is over; the outcomes          *)
(* 'changes_needed' and 'rejected', one "answered", and the resolution of  *)
(* the feedback items before the check is asked for again.                 *)
(***************************************************************************)
EXTENDS Integers, Sequences, FiniteSets

CONSTANTS
  Events,     \* events that may ask for equipment
  Names,      \* equipment names, unique in the inventory
  Slots,      \* the periods each event may be planned for
  Asks,       \* bound: the lists of lines submitted for each event
  MaxStock    \* bound: active units of one record

Period == [from : Nat, to : Nat]
Ask    == [name : Names, quantity : Nat \ {0}]

ASSUME EventsAssumption == IsFiniteSet(Events)
ASSUME SlotsAssumption ==
  \A e \in Events :
    Slots[e] # {} /\ \A p \in Slots[e] : p \in Period /\ p.from < p.to
ASSUME AsksAssumption ==
  \A e \in Events : \A ask \in Asks[e] : ask \in Seq(Ask) /\ ask # << >>
ASSUME StockAssumption == MaxStock \in Nat

VARIABLES
  stock,      \* the active_quantity of each name that is_available, else 0
  event,      \* the status and the planned period of each event
  noneNeeded, \* equipment_confirmed_at is set
  request,    \* the status of the event's equipment request, "none" before it
  lines,      \* its items, in item_order, each with its reservation's status
  safety,     \* the safety check, with the lines its open feedback names
  desk        \* the reservation under way for an event, and the units it saw taken

vars == <<stock, event, noneNeeded, request, lines, safety, desk>>

-----------------------------------------------------------------------------
(* Types *)

EventStatus   == {"Planning", "Confirmed", "Completed", "Cancelled"}
RequestStatus == {"none", "Pending Review", "Reserved", "Cannot Provide"}
RowStatus     == {"none", "Requested", "Reserved", "Unavailable", "Released"}

Line == [name : Names, quantity : Nat \ {0}, row : RowStatus]

(* The units that a reservation under way saw taken are a sum of quantities. *)
TypeOK ==
  /\ stock \in [Names -> 0 .. MaxStock]
  /\ event \in [Events -> [status : EventStatus, slot : Period]]
  /\ \A e \in Events : event[e].slot \in Slots[e]
  /\ noneNeeded \in [Events -> BOOLEAN]
  /\ request \in [Events -> RequestStatus]
  /\ lines \in [Events -> Seq(Line)]
  /\ safety \in [Events -> [state : {"none", "pending", "approved", "answered"},
                            review : SUBSET Nat]]
  /\ desk = [e \in Events |-> desk[e]]
  /\ \A e \in Events :
       /\ desk[e].busy \in BOOLEAN
       /\ request[e] = "none" <=> lines[e] = << >>
       /\ safety[e].review \subseteq DOMAIN lines[e]

-----------------------------------------------------------------------------
(* What the queries select *)

LinesWith(e, status) == {i \in DOMAIN lines[e] : lines[e][i].row = status}

(* The lines a decision is about: the requested ones, or all when none is. *)
Undecided(e) ==
  IF LinesWith(e, "Requested") # {} THEN LinesWith(e, "Requested") ELSE DOMAIN lines[e]

(* The units of a name that lines ask for, each named by its line: how many     *)
(* they are is the sum of the quantities.                                       *)
Units(e, I, n) ==
  UNION {{<<e, i, k>> : k \in 1 .. lines[e][i].quantity} : i \in {j \in I : lines[e][j].name = n}}

HeldBy(F, n) == UNION {Units(e, LinesWith(e, "Reserved"), n) : e \in F}

Wanted(e) == {lines[e][i].name : i \in Undecided(e)}

Overlaps(p, q) == p.from < q.to /\ p.to > q.from

(* The overlapping events whose units count. The event's own do only while some *)
(* of its lines are undecided and the others stay held.                         *)
Counted(e) == {f \in Events : /\ Overlaps(event[f].slot, event[e].slot)
                              /\ f # e \/ LinesWith(e, "Requested") # {}}

Taken(e, n) == Cardinality(HeldBy(Counted(e), n))

(* No reservation under way holds the lock. *)
EventFree(e) == ~desk[e].busy
RowFree(n)   == \A e \in Events : desk[e].busy => n \notin Wanted(e)

-----------------------------------------------------------------------------
(* The safety check that stands on the lines *)

NoCheck == [state |-> "none", review |-> {}]

(* A faulty variant: no row resets the check. *)
TouchNothing(e, I) == UNCHANGED safety

(* The trigger: a changed row resets the check, unless open feedback names it. *)
Touch(e, I) ==
  safety' = IF I = {} \/ (safety[e].state = "answered" /\ I \subseteq safety[e].review)
            THEN safety ELSE [safety EXCEPT ![e] = NoCheck]

Active(e) == {i \in DOMAIN lines[e] : lines[e][i].row \notin {"none", "Released"}}

(* The same rule in the checklist and in the readiness of an event. *)
EquipmentReady(e) ==
  /\ \A i \in Active(e) : lines[e][i].row = "Reserved"
  /\ Active(e) # {} \/ noneNeeded[e]

SetRows(e, I, status) ==
  lines' = [lines EXCEPT ![e] =
              [i \in DOMAIN @ |-> IF i \in I THEN [@[i] EXCEPT !.row = status] ELSE @[i]]]

-----------------------------------------------------------------------------

Init ==
  /\ stock \in [Names -> 0 .. MaxStock]
  /\ \E planned \in [Events -> UNION {Slots[e] : e \in Events}] :
       /\ \A e \in Events : planned[e] \in Slots[e]
       /\ event = [e \in Events |-> [status |-> "Planning", slot |-> planned[e]]]
  /\ noneNeeded = [e \in Events |-> FALSE]
  /\ request = [e \in Events |-> "none"]
  /\ lines = [e \in Events |-> << >>]
  /\ safety = [e \in Events |-> NoCheck]
  /\ desk = [e \in Events |-> [busy |-> FALSE]]

-----------------------------------------------------------------------------
(* The inventory, behind the row lock *)

(* Units are bought, repaired, taken into maintenance or retired, or the record *)
(* is made unavailable and available again, whatever is reserved.               *)
UpdateEquipment(n) ==
  /\ RowFree(n)
  /\ \E q \in (0 .. MaxStock) \ {stock[n]} : stock' = [stock EXCEPT ![n] = q]
  /\ UNCHANGED <<event, noneNeeded, request, lines, safety, desk>>

-----------------------------------------------------------------------------
(* The coordinator's request *)

Fresh(ask) ==
  [i \in DOMAIN ask |-> [name |-> ask[i].name, quantity |-> ask[i].quantity,
                         row |-> "Requested"]]

(* One request per event, ever. *)
Submit(e, ask) ==
  /\ EventFree(e)
  /\ event[e].status = "Planning"
  /\ request[e] = "none"
  /\ request' = [request EXCEPT ![e] = "Pending Review"]
  /\ lines' = [lines EXCEPT ![e] = Fresh(ask)]
  /\ Touch(e, DOMAIN ask)
  /\ UNCHANGED <<stock, event, noneNeeded, desk>>

(* Lines of the request that open feedback of the Safety Officer names. *)
Selected(e) == IF safety[e].state = "answered" THEN safety[e].review ELSE {}

(* Only the named lines may change; their rows are requested again. *)
UpdateSelected(e, ask) ==
  /\ EventFree(e)
  /\ event[e].status = "Planning"
  /\ Selected(e) # {}
  /\ DOMAIN ask = DOMAIN lines[e]
  /\ \A i \in DOMAIN ask \ Selected(e) :
       ask[i].name = lines[e][i].name /\ ask[i].quantity = lines[e][i].quantity
  /\ request' = [request EXCEPT ![e] = "Pending Review"]
  /\ lines' = [lines EXCEPT ![e] =
                 [i \in DOMAIN @ |-> IF i \in Selected(e) THEN Fresh(ask)[i] ELSE @[i]]]
  /\ UNCHANGED <<stock, event, noneNeeded, safety, desk>>

(* A faulty variant: the decision on the old lines stands. *)
UpdateDecided(e, ask) ==
  /\ EventFree(e)
  /\ event[e].status = "Planning"
  /\ request[e] # "none" /\ Selected(e) = {}
  /\ lines' = [lines EXCEPT ![e] = Fresh(ask)]
  /\ safety' = [safety EXCEPT ![e] = NoCheck]
  /\ UNCHANGED <<stock, event, noneNeeded, request, desk>>

(* A faulty variant: the named lines are replaced too, and stay named. *)
UpdateReviewed(e, ask) ==
  /\ EventFree(e)
  /\ event[e].status = "Planning"
  /\ request[e] # "none"
  /\ request' = [request EXCEPT ![e] = "Pending Review"]
  /\ lines' = [lines EXCEPT ![e] = Fresh(ask)]
  /\ safety' = [safety EXCEPT ![e] = IF @.state = "answered" THEN @ ELSE NoCheck]
  /\ UNCHANGED <<stock, event, noneNeeded, desk>>

(* The items are deleted, their reservations with them, and new ones requested. *)
UpdateRequest(e, ask) ==
  /\ EventFree(e)
  /\ event[e].status = "Planning"
  /\ request[e] # "none" /\ Selected(e) = {}
  /\ request' = [request EXCEPT ![e] = "Pending Review"]
  /\ lines' = [lines EXCEPT ![e] = Fresh(ask)]
  /\ safety' = [safety EXCEPT ![e] = NoCheck]
  /\ UNCHANGED <<stock, event, noneNeeded, desk>>

(* An unavailable reservation is deleted; its item stays. *)
RemoveEquipmentRequest(e, i) ==
  /\ EventFree(e)
  /\ event[e].status = "Planning"
  /\ lines[e][i].row = "Unavailable"
  /\ SetRows(e, {i}, "none")
  /\ safety' = [safety EXCEPT ![e] = NoCheck]
  /\ UNCHANGED <<stock, event, noneNeeded, request, desk>>

ConfirmNoEquipment(e) ==
  /\ EventFree(e)
  /\ event[e].status = "Planning"
  /\ Active(e) = {}
  /\ noneNeeded' = [noneNeeded EXCEPT ![e] = TRUE]
  /\ UNCHANGED <<stock, event, request, lines, safety, desk>>

-----------------------------------------------------------------------------
(* The decisions of Technical Support *)

(* A faulty variant: only completed events are closed to decisions. *)
DecidableConfirmed(e) ==
  /\ EventFree(e)
  /\ event[e].status # "Completed"
  /\ request[e] = "Pending Review"

Decidable(e) ==
  /\ EventFree(e)
  /\ event[e].status \notin {"Confirmed", "Completed"}
  /\ request[e] = "Pending Review"

(* A faulty variant: the inventory rows are read without a lock. *)
ReserveStartUnlocked(e) ==
  /\ Decidable(e)
  /\ desk' = [desk EXCEPT ![e] = [busy |-> TRUE, taken |-> [n \in Names |-> Taken(e, n)]]]
  /\ UNCHANGED <<stock, event, noneNeeded, request, lines, safety>>

(* The inventory rows are locked, then the units taken are added up. *)
ReserveStart(e) ==
  /\ Decidable(e)
  /\ \A n \in Wanted(e) : RowFree(n)
  /\ desk' = [desk EXCEPT ![e] = [busy |-> TRUE, taken |-> [n \in Names |-> Taken(e, n)]]]
  /\ UNCHANGED <<stock, event, noneNeeded, request, lines, safety>>

Done(e) == desk[e].busy /\ desk' = [desk EXCEPT ![e] = [busy |-> FALSE]]

(* Too few units are left, or the transaction fails: no trace. *)
ReserveRefused(e) ==
  /\ Done(e)
  /\ UNCHANGED <<stock, event, noneNeeded, request, lines, safety>>

(* A removed reservation of an undecided line is inserted again. *)
Reserve(e) ==
  LET decided == Undecided(e)
  IN  /\ Done(e)
      /\ \A n \in Wanted(e) : desk[e].taken[n] + Cardinality(Units(e, decided, n)) <= stock[n]
      /\ request' = [request EXCEPT ![e] = "Reserved"]
      /\ SetRows(e, decided, "Reserved")
      /\ Touch(e, decided \ LinesWith(e, "Reserved"))
      /\ UNCHANGED <<stock, event, noneNeeded>>

(* The requested lines are refused; when none is, the held ones are given up. *)
MarkCannotProvide(e) ==
  LET refused == IF LinesWith(e, "Requested") # {} THEN LinesWith(e, "Requested")
                 ELSE LinesWith(e, "Reserved")
  IN  /\ Decidable(e)
      /\ request' = [request EXCEPT ![e] = "Cannot Provide"]
      /\ SetRows(e, refused, "Unavailable")
      /\ Touch(e, refused)
      /\ UNCHANGED <<stock, event, noneNeeded, desk>>

-----------------------------------------------------------------------------
(* The events, behind their row lock *)

RequestSafetyCheck(e) ==
  /\ EventFree(e)
  /\ event[e].status = "Planning"
  /\ EquipmentReady(e)
  /\ safety[e].state \in {"none", "answered"}
  /\ safety' = [safety EXCEPT ![e] = [state |-> "pending", review |-> {}]]
  /\ UNCHANGED <<stock, event, noneNeeded, request, lines, desk>>

Respondable(e) ==
  /\ EventFree(e)
  /\ event[e].status = "Planning"
  /\ EquipmentReady(e)
  /\ safety[e].state = "pending"

SafetyApproves(e) ==
  /\ Respondable(e)
  /\ safety' = [safety EXCEPT ![e].state = "approved"]
  /\ UNCHANGED <<stock, event, noneNeeded, request, lines, desk>>

(* The flagged lines go back to Technical Support: all reserved ones on a       *)
(* rejection, none when only bookings are flagged. The feedback is stored first. *)
SafetyAnswers(e) ==
  /\ Respondable(e)
  /\ \E flagged \in SUBSET LinesWith(e, "Reserved") :
       /\ safety' = [safety EXCEPT ![e] = [state |-> "answered", review |-> flagged]]
       /\ SetRows(e, flagged, "Requested")
       /\ request' = IF flagged = {} THEN request
                     ELSE [request EXCEPT ![e] = "Pending Review"]
  /\ UNCHANGED <<stock, event, noneNeeded, desk>>

Confirm(e) ==
  /\ EventFree(e)
  /\ event[e].status = "Planning"
  /\ EquipmentReady(e)
  /\ safety[e].state = "approved"
  /\ event' = [event EXCEPT ![e].status = "Confirmed"]
  /\ UNCHANGED <<stock, noneNeeded, request, lines, safety, desk>>

Complete(e) ==
  /\ EventFree(e)
  /\ event[e].status = "Confirmed"
  /\ event' = [event EXCEPT ![e].status = "Completed"]
  /\ UNCHANGED <<stock, noneNeeded, request, lines, safety, desk>>

(* The rows are released; the request keeps its status. *)
CancelEvent(e) ==
  /\ EventFree(e)
  /\ event[e].status \in {"Planning", "Confirmed"}
  /\ event' = [event EXCEPT ![e].status = "Cancelled"]
  /\ SetRows(e, {i \in DOMAIN lines[e] : lines[e][i].row # "none"}, "Released")
  /\ UNCHANGED <<stock, noneNeeded, request, safety, desk>>

(* Planned events are edited; a change request takes a confirmed one back. *)
Changeable(e) == EventFree(e) /\ event[e].status \in {"Planning", "Confirmed"}

(* Another detail than the period, or one that leaves the check alone. *)
ChangeDetails(e) ==
  /\ Changeable(e)
  /\ event' = [event EXCEPT ![e].status = "Planning"]
  /\ safety' \in {safety, [safety EXCEPT ![e] = NoCheck]}
  /\ UNCHANGED <<stock, noneNeeded, request, lines, desk>>

(* The trigger on venue_bookings. *)
VenueChanges(e) ==
  /\ event[e].status \in {"Planning", "Confirmed"}
  /\ safety' = [safety EXCEPT ![e] = NoCheck]
  /\ UNCHANGED <<stock, event, noneNeeded, request, lines, desk>>

(* rescheduleEquipment: a reserved request is reviewed again; its lines stay held *)
(* when the event moves within its period, and are released otherwise.            *)
Move(e, p) ==
  LET old     == event[e].slot
      outside == p.from < old.from \/ p.to > old.to
  IN  /\ Changeable(e)
      /\ p # old
      /\ event' = [event EXCEPT ![e] = [status |-> "Planning", slot |-> p]]
      /\ safety' = [safety EXCEPT ![e] = NoCheck]
      /\ request' = IF request[e] = "Reserved" THEN [request EXCEPT ![e] = "Pending Review"]
                    ELSE request
      /\ SetRows(e, IF outside THEN LinesWith(e, "Reserved") ELSE {}, "Released")
      /\ UNCHANGED <<stock, noneNeeded, desk>>

-----------------------------------------------------------------------------

OfRequest(e) ==
  \/ \E ask \in Asks[e] : Submit(e, ask) \/ UpdateSelected(e, ask) \/ UpdateRequest(e, ask)
  \/ \E i \in DOMAIN lines[e] : RemoveEquipmentRequest(e, i)
  \/ ReserveStart(e) \/ ReserveRefused(e) \/ Reserve(e) \/ MarkCannotProvide(e)

OfEvent(e) ==
  \/ ConfirmNoEquipment(e)
  \/ RequestSafetyCheck(e) \/ SafetyApproves(e) \/ SafetyAnswers(e)
  \/ Confirm(e) \/ Complete(e) \/ CancelEvent(e)
  \/ ChangeDetails(e) \/ VenueChanges(e)
  \/ \E p \in Slots[e] : Move(e, p)

Next ==
  \/ \E n \in Names : UpdateEquipment(n)
  \/ \E e \in Events : OfRequest(e) \/ OfEvent(e)

Spec == Init /\ [][Next]_vars

-----------------------------------------------------------------------------
(* What must hold *)

At(t) == {e \in Events : event[e].slot.from <= t /\ t < event[e].slot.to}

Load(n, t) == Cardinality(HeldBy(At(t), n))

Instants == UNION {p.from .. p.to : p \in UNION {Slots[e] : e \in Events}}

(* Units are never promised twice: whenever the units of a name that are held   *)
(* for some instant grow in number, the inventory offers that many, whoever     *)
(* else reserves, moves an event or is reviewed again at the same time. (They   *)
(* may come to exceed it afterwards, when units are retired.)                   *)
StockNeverOverdrawn ==
  [][\A n \in Names, t \in Instants :
       Load(n, t)' > stock[n]' => Load(n, t)' <= Load(n, t)]_vars

(* Every line that waits for a decision is in the queue of Technical Support,   *)
(* which shows pending requests only.                                           *)
RequestedIsPending ==
  \A e \in Events : LinesWith(e, "Requested") # {} => request[e] = "Pending Review"

(* A confirmed event keeps the equipment it was confirmed with: no decision,    *)
(* update or review reaches its lines.                                          *)
ConfirmedKeepsItsEquipment ==
  \A e \in Events : event[e].status \in {"Confirmed", "Completed"} => EquipmentReady(e)

(* A safety check that is asked for or approved covers the equipment in force,  *)
(* until the event is cancelled.                                                *)
SafetyCoversTheEquipment ==
  \A e \in Events :
    safety[e].state \in {"pending", "approved"} /\ event[e].status # "Cancelled"
    => EquipmentReady(e)

-----------------------------------------------------------------------------
(* The inductive invariant *)

(* A reservation under way holds its event and its request where it found them. *)
DeskIsOpen ==
  \A e \in Events : desk[e].busy => /\ event[e].status \notin {"Confirmed", "Completed"}
                                   /\ request[e] = "Pending Review"

(* What a reservation under way counted may have been given back since, but no  *)
(* more of what it wants is taken,                                              *)
DeskSawEnough ==
  \A e \in Events : desk[e].busy =>
    /\ desk[e].taken \in [Names -> Nat]
    /\ \A n \in Wanted(e) : Taken(e, n) <= desk[e].taken[n]

(* because whoever else reserves at the same time wants other equipment.        *)
RowsAreLocked ==
  \A e, f \in Events : desk[e].busy /\ desk[f].busy /\ e # f => Wanted(e) \cap Wanted(f) = {}

(* Checked and proved to be inductive: the types, and what must hold. *)
IInv ==
  /\ TypeOK
  /\ DeskIsOpen
  /\ DeskSawEnough
  /\ RowsAreLocked
  /\ RequestedIsPending
  /\ ConfirmedKeepsItsEquipment
  /\ SafetyCoversTheEquipment
=============================================================================
