-------------------- MODULE EquipmentReservations_proofs --------------------
(***************************************************************************)
(* Proofs about EquipmentReservations, for any events, equipment, periods  *)
(* and requests: the inductive invariant IInv, and from it that what is    *)
(* requested is in the queue, that a safety check and a confirmation stand *)
(* on equipment that is in force, and that no unit is promised twice.      *)
(***************************************************************************)
EXTENDS EquipmentReservations, SequenceTheorems, FiniteSetTheorems, WellFoundedInduction, TLAPS

-----------------------------------------------------------------------------
(* Lines *)

LEMMA EmptyList ==
  ASSUME NEW S, NEW list \in Seq(S)
  PROVE  list = << >> <=> DOMAIN list = {}
<1>1. DOMAIN list = 1 .. Len(list) /\ Len(list) \in Nat
  OBVIOUS
<1>2. CASE list = << >>
  <2>1. Len(list) = 0
    BY <1>2
  <2> QED
    BY <1>1, <1>2, <2>1
<1>3. CASE list # << >>
  <2>1. Len(list) \in Nat \ {0}
    BY <1>3, EmptySeq
  <2>2. 1 \in DOMAIN list
    BY <1>1, <2>1
  <2> QED
    BY <1>3, <2>2
<1> QED
  BY <1>2, <1>3

LEMMA LineFacts ==
  ASSUME TypeOK, NEW e \in Events
  PROVE  /\ lines[e] \in Seq(Line) /\ Len(lines[e]) \in Nat
         /\ DOMAIN lines[e] = 1 .. Len(lines[e])
         /\ \A i \in DOMAIN lines[e] : lines[e][i] \in Line /\ lines[e][i].row \in RowStatus
         /\ lines[e] = << >> <=> DOMAIN lines[e] = {}
<1>1. lines[e] \in Seq(Line)
  BY DEF TypeOK
<1>2. DOMAIN lines[e] = 1 .. Len(lines[e]) /\ Len(lines[e]) \in Nat
  BY <1>1
<1>3. \A i \in DOMAIN lines[e] : lines[e][i] \in Line
  BY <1>1, <1>2, ElementOfSeq
<1>4. \A l \in Line : l.row \in RowStatus
  BY DEF Line
<1>5. lines[e] = << >> <=> DOMAIN lines[e] = {}
  BY <1>1, EmptyList
<1> QED
  BY <1>1, <1>2, <1>3, <1>4, <1>5

(* A function on the numbers of the lines is a list as long as they. *)
LEMMA LinesType ==
  ASSUME TypeOK, NEW e \in Events, NEW new \in [DOMAIN lines[e] -> Line]
  PROVE  new \in Seq(Line) /\ DOMAIN new = DOMAIN lines[e]
         /\ (new = << >> <=> lines[e] = << >>)
<1>1. DOMAIN lines[e] = 1 .. Len(lines[e]) /\ Len(lines[e]) \in Nat
  BY LineFacts
<1>2. new \in [1 .. Len(lines[e]) -> Line] /\ DOMAIN new = DOMAIN lines[e]
  BY <1>1
<1>3. new \in Seq(Line)
  BY <1>1, <1>2
<1>4. new = << >> <=> DOMAIN new = {}
  BY <1>3, EmptyList
<1> QED
  BY <1>2, <1>3, <1>4, LineFacts

(* A decision gives the chosen rows a status and leaves the rest alone. *)
LEMMA SetRowsFacts ==
  ASSUME TypeOK, NEW e \in Events, NEW I, NEW status \in RowStatus, SetRows(e, I, status)
  PROVE  /\ lines' \in [Events -> Seq(Line)]
         /\ \A f \in Events \ {e} : lines'[f] = lines[f]
         /\ DOMAIN lines'[e] = DOMAIN lines[e] /\ (lines'[e] = << >> <=> lines[e] = << >>)
         /\ \A i \in DOMAIN lines[e] :
              lines'[e][i].row = IF i \in I THEN status ELSE lines[e][i].row
<1> DEFINE new == [i \in DOMAIN lines[e] |->
                     IF i \in I THEN [lines[e][i] EXCEPT !.row = status] ELSE lines[e][i]]
<1>1. \A i \in DOMAIN lines[e] : /\ [lines[e][i] EXCEPT !.row = status] \in Line
                                 /\ [lines[e][i] EXCEPT !.row = status].row = status
                                 /\ lines[e][i] \in Line
  BY LineFacts DEF Line
<1>2. new \in [DOMAIN lines[e] -> Line]
  BY <1>1
<1>3. \A i \in DOMAIN lines[e] : new[i].row = IF i \in I THEN status ELSE lines[e][i].row
  BY <1>1
<1>4. lines' = [lines EXCEPT ![e] = new] /\ lines \in [Events -> Seq(Line)]
  BY DEF SetRows, TypeOK
<1> HIDE DEF new
<1>5. new \in Seq(Line) /\ DOMAIN new = DOMAIN lines[e] /\ (new = << >> <=> lines[e] = << >>)
  BY <1>2, LinesType
<1>6. lines'[e] = new /\ lines' \in [Events -> Seq(Line)]
      /\ \A f \in Events \ {e} : lines'[f] = lines[f]
  BY <1>4, <1>5
<1> QED
  BY <1>3, <1>5, <1>6

(* The lines of a request that is made or replaced are requested. *)
LEMMA FreshFacts ==
  ASSUME NEW e \in Events, NEW ask \in Asks[e]
  PROVE  /\ Fresh(ask) \in Seq(Line) /\ DOMAIN Fresh(ask) = DOMAIN ask
         /\ Fresh(ask) # << >> /\ DOMAIN ask # {} /\ DOMAIN ask \subseteq Nat
         /\ \A i \in DOMAIN ask : Fresh(ask)[i] \in Line /\ Fresh(ask)[i].row = "Requested"
<1>1. ask \in Seq(Ask) /\ ask # << >>
  BY AsksAssumption
<1>2. DOMAIN ask = 1 .. Len(ask) /\ Len(ask) \in Nat \ {0}
  BY <1>1, EmptySeq
<1>3. \A i \in DOMAIN ask : ask[i].name \in Names /\ ask[i].quantity \in Nat \ {0}
  <2>1. \A i \in DOMAIN ask : ask[i] \in Ask
    BY <1>1, <1>2, ElementOfSeq
  <2> QED
    BY <2>1 DEF Ask
<1>4. \A i \in DOMAIN ask : Fresh(ask)[i] \in Line /\ Fresh(ask)[i].row = "Requested"
  BY <1>3 DEF Fresh, Line, RowStatus
<1>5. Fresh(ask) \in [1 .. Len(ask) -> Line] /\ DOMAIN Fresh(ask) = DOMAIN ask
  BY <1>2, <1>4 DEF Fresh
<1>6. Fresh(ask) \in Seq(Line)
  BY <1>2, <1>5
<1>7. Fresh(ask) # << >>
  BY <1>2, <1>5, <1>6, EmptySeq
<1> QED
  BY <1>2, <1>4, <1>5, <1>6, <1>7

Checks == [Events -> [state : {"none", "pending", "approved", "answered"}, review : SUBSET Nat]]

(* The trigger resets a check of the event or leaves it alone; a check that   *)
(* is asked for or approved outlives no change of its event's rows.           *)
LEMMA TouchFacts ==
  ASSUME TypeOK, NEW e \in Events, NEW I, Touch(e, I)
  PROVE  /\ safety' \in Checks
         /\ \A f \in Events \ {e} : safety'[f] = safety[f]
         /\ \/ safety'[e] = NoCheck
            \/ safety'[e] = safety[e]
               /\ (safety[e].state \in {"pending", "approved"} => I = {})
<1>1. safety \in Checks
  BY DEF TypeOK, Checks
<1>2. NoCheck \in [state : {"none", "pending", "approved", "answered"}, review : SUBSET Nat]
  BY DEF NoCheck
<1>3. CASE safety' = [safety EXCEPT ![e] = NoCheck]
  BY <1>1, <1>2, <1>3 DEF Checks
<1>4. CASE safety' = safety /\ (I = {} \/ safety[e].state = "answered")
  BY <1>1, <1>4
<1> QED
  BY <1>3, <1>4 DEF Touch

-----------------------------------------------------------------------------
(* What must hold of one event, and what a step does to the others *)

Good(e) ==
  /\ desk[e].busy => /\ event[e].status \notin {"Confirmed", "Completed"}
                     /\ request[e] = "Pending Review"
  /\ LinesWith(e, "Requested") # {} => request[e] = "Pending Review"
  /\ event[e].status \in {"Confirmed", "Completed"} => EquipmentReady(e)
  /\ safety[e].state \in {"pending", "approved"} /\ event[e].status # "Cancelled"
     => EquipmentReady(e)

LEMMA Parts ==
  IInv <=> TypeOK /\ DeskSawEnough /\ RowsAreLocked /\ \A e \in Events : Good(e)
BY DEF IInv, Good, DeskIsOpen, RequestedIsPending, ConfirmedKeepsItsEquipment,
       SafetyCoversTheEquipment

Same(f) ==
  /\ event'[f] = event[f]
  /\ noneNeeded'[f] = noneNeeded[f]
  /\ request'[f] = request[f]
  /\ lines'[f] = lines[f]
  /\ safety'[f] = safety[f]
  /\ desk'[f] = desk[f]

LEMMA GoodStays ==
  ASSUME NEW f \in Events, Good(f), Same(f)
  PROVE  Good(f)'
BY DEF Good, Same, LinesWith, EquipmentReady, Active

States == [Events -> [status : EventStatus, slot : Period]]

(* A step that leaves the other events alone keeps the types if it keeps them *)
(* for its own.                                                               *)
LEMMA TypeHere ==
  ASSUME TypeOK, NEW e \in Events, \A f \in Events \ {e} : Same(f), stock' = stock,
         event' \in States, event'[e].slot \in Slots[e], noneNeeded' \in [Events -> BOOLEAN],
         request' \in [Events -> RequestStatus], lines' \in [Events -> Seq(Line)],
         safety' \in Checks, desk' = [f \in Events |-> desk'[f]], desk'[e].busy \in BOOLEAN,
         request'[e] = "none" <=> lines'[e] = << >>,
         safety'[e].review \subseteq DOMAIN lines'[e]
  PROVE  TypeOK'
<1>1. \A f \in Events \ {e} : /\ event'[f].slot \in Slots[f] /\ desk'[f].busy \in BOOLEAN
                              /\ request'[f] = "none" <=> lines'[f] = << >>
                              /\ safety'[f].review \subseteq DOMAIN lines'[f]
  BY DEF TypeOK, Same
<1> QED
  BY <1>1 DEF TypeOK, Checks, States

LEMMA TypeParts ==
  ASSUME TypeOK, NEW e \in Events
  PROVE  /\ event \in States /\ event[e].slot \in Slots[e] /\ event[e].status \in EventStatus
         /\ event[e].slot \in Period
         /\ noneNeeded \in [Events -> BOOLEAN] /\ request \in [Events -> RequestStatus]
         /\ lines \in [Events -> Seq(Line)] /\ safety \in Checks
         /\ safety[e].state \in {"none", "pending", "approved", "answered"}
         /\ safety[e].review \in SUBSET Nat
         /\ desk = [f \in Events |-> desk[f]] /\ desk[e].busy \in BOOLEAN
         /\ (request[e] = "none" <=> lines[e] = << >>)
         /\ safety[e].review \subseteq DOMAIN lines[e]
<1>1. event[e] \in [status : EventStatus, slot : Period]
  BY DEF TypeOK
<1>2. safety[e] \in [state : {"none", "pending", "approved", "answered"}, review : SUBSET Nat]
  BY DEF TypeOK
<1>3. event[e].status \in EventStatus /\ event[e].slot \in Period
  BY <1>1
<1>4. /\ safety[e].state \in {"none", "pending", "approved", "answered"}
      /\ safety[e].review \in SUBSET Nat
  BY <1>2
<1> QED
  BY <1>3, <1>4 DEF TypeOK, States, Checks

LEMMA ReadyStays ==
  ASSUME NEW e \in Events, lines'[e] = lines[e], noneNeeded[e] => noneNeeded'[e]
  PROVE  /\ EquipmentReady(e) => EquipmentReady(e)'
         /\ LinesWith(e, "Requested")' = LinesWith(e, "Requested")
BY DEF EquipmentReady, Active, LinesWith

-----------------------------------------------------------------------------
(* The steps that leave the lines alone *)

Quiet(e) ==
  \/ ConfirmNoEquipment(e) \/ ReserveStart(e) \/ ReserveRefused(e)
  \/ RequestSafetyCheck(e) \/ SafetyApproves(e) \/ Confirm(e) \/ Complete(e)
  \/ ChangeDetails(e) \/ VenueChanges(e)

LEMMA QuietStep ==
  ASSUME TypeOK, NEW e \in Events, Good(e), Quiet(e)
  PROVE  TypeOK' /\ Good(e)' /\ \A f \in Events \ {e} : Same(f)
<1>0. /\ event \in States /\ event[e].slot \in Slots[e] /\ event[e].status \in EventStatus
      /\ event[e].slot \in Period
      /\ noneNeeded \in [Events -> BOOLEAN] /\ request \in [Events -> RequestStatus]
      /\ lines \in [Events -> Seq(Line)] /\ safety \in Checks
      /\ safety[e].state \in {"none", "pending", "approved", "answered"}
      /\ safety[e].review \in SUBSET Nat
      /\ desk = [f \in Events |-> desk[f]] /\ desk[e].busy \in BOOLEAN
      /\ (request[e] = "none" <=> lines[e] = << >>)
      /\ safety[e].review \subseteq DOMAIN lines[e]
  BY TypeParts
<1>1. lines' = lines /\ request' = request /\ stock' = stock
  BY DEF Quiet, ConfirmNoEquipment, ReserveStart, ReserveRefused, RequestSafetyCheck,
         SafetyApproves, Confirm, Complete, ChangeDetails, VenueChanges
<1>2. noneNeeded' \in [Events -> BOOLEAN] /\ (noneNeeded[e] => noneNeeded'[e])
      /\ \A f \in Events \ {e} : noneNeeded'[f] = noneNeeded[f]
  BY <1>0 DEF Quiet, ConfirmNoEquipment, ReserveStart, ReserveRefused, RequestSafetyCheck,
         SafetyApproves, Confirm, Complete, ChangeDetails, VenueChanges
<1>3. /\ desk' = [f \in Events |-> desk'[f]] /\ desk'[e].busy \in BOOLEAN
      /\ \A f \in Events \ {e} : desk'[f] = desk[f]
      /\ desk'[e].busy => \/ desk[e].busy /\ event'[e].status = event[e].status
                          \/ /\ event'[e].status \notin {"Confirmed", "Completed"}
                             /\ request[e] = "Pending Review"
  <2>1. CASE ReserveStart(e)
    <3>1. desk' = [desk EXCEPT ![e] = [busy |-> TRUE, taken |-> [n \in Names |-> Taken(e, n)]]]
          /\ event' = event /\ event[e].status \notin {"Confirmed", "Completed"}
          /\ request[e] = "Pending Review"
      BY <2>1 DEF ReserveStart, Decidable
    <3> QED
      BY <1>0, <3>1
  <2>2. CASE ReserveRefused(e)
    BY <1>0, <2>2 DEF ReserveRefused, Done
  <2>3. CASE desk' = desk /\ ~desk[e].busy
    BY <1>0, <2>3
  <2>4. CASE VenueChanges(e)
    BY <1>0, <2>4 DEF VenueChanges
  <2> QED
    BY <2>1, <2>2, <2>3, <2>4
       DEF Quiet, EventFree, ConfirmNoEquipment, RequestSafetyCheck, SafetyApproves, Respondable,
           Confirm, Complete, ChangeDetails, Changeable
<1>4. \E st \in EventStatus :
        /\ event' = event \/ event' = [event EXCEPT ![e].status = st]
        /\ st = "Confirmed" => EquipmentReady(e)
        /\ st = "Completed" => event[e].status = "Confirmed"
        /\ st = "Cancelled" => event[e].status = "Cancelled"
        /\ event' # event => event[e].status # "Cancelled"
  BY DEF Quiet, ConfirmNoEquipment, ReserveStart, ReserveRefused, RequestSafetyCheck,
         SafetyApproves, Confirm, Complete, ChangeDetails, Changeable, VenueChanges, EventStatus
<1>5. /\ event' \in States /\ event'[e].slot \in Slots[e]
      /\ \A f \in Events \ {e} : event'[f] = event[f]
      /\ event'[e].status \in {"Confirmed", "Completed"} => EquipmentReady(e)
      /\ event[e].status = "Cancelled" => event'[e].status = "Cancelled"
  <2>1. CASE event' = event
    BY <1>0, <2>1 DEF Good
  <2>2. CASE event' # event
    <3>1. PICK st \in EventStatus :
            /\ event' = [event EXCEPT ![e].status = st]
            /\ st = "Confirmed" => EquipmentReady(e)
            /\ st = "Completed" => event[e].status = "Confirmed"
            /\ event[e].status # "Cancelled"
      BY <1>4, <2>2
    <3>2. event'[e].status = st /\ event'[e].slot = event[e].slot
          /\ \A f \in Events \ {e} : event'[f] = event[f]
      BY <1>0, <3>1 DEF States
    <3>3. event' \in States
      <4>1. PICK s : s = [event[e] EXCEPT !.status = st]
        OBVIOUS
      <4>2. event' = [event EXCEPT ![e] = s]
        BY <3>1, <4>1
      <4>3. s \in [status : EventStatus, slot : Period]
        BY <1>0, <3>1, <4>1 DEF States
      <4> QED
        BY <1>0, <4>2, <4>3 DEF States
    <3> QED
      BY <1>0, <3>1, <3>2, <3>3 DEF Good
  <2> QED
    BY <2>1, <2>2
<1>6. /\ safety' \in Checks /\ safety'[e].review \subseteq DOMAIN lines[e]
      /\ \A f \in Events \ {e} : safety'[f] = safety[f]
      /\ safety'[e].state \in {"pending", "approved"} =>
           EquipmentReady(e) \/ safety[e].state \in {"pending", "approved"}
  <2>1. CASE safety' = safety
    BY <1>0, <2>1
  <2>2. CASE safety' = [safety EXCEPT ![e] = NoCheck]
    <3>1. NoCheck \in [state : {"none", "pending", "approved", "answered"}, review : SUBSET Nat]
          /\ NoCheck.state = "none" /\ NoCheck.review = {}
      BY DEF NoCheck
    <3> QED
      BY <1>0, <2>2, <3>1 DEF Checks
  <2>3. CASE RequestSafetyCheck(e)
    BY <1>0, <2>3 DEF RequestSafetyCheck, Checks
  <2>4. CASE SafetyApproves(e)
    BY <1>0, <2>4 DEF SafetyApproves, Respondable, Checks
  <2> QED
    BY <2>1, <2>2, <2>3, <2>4
       DEF Quiet, ConfirmNoEquipment, ReserveStart, ReserveRefused, Confirm, Complete,
           ChangeDetails, VenueChanges
<1>7. TypeOK' /\ \A f \in Events \ {e} : Same(f)
  <2>1. \A f \in Events \ {e} : Same(f)
    BY <1>1, <1>2, <1>3, <1>5, <1>6 DEF Same
  <2> QED
    BY <1>0, <1>1, <1>2, <1>3, <1>5, <1>6, <2>1, TypeHere
<1>8. Good(e)'
  <2>1. EquipmentReady(e) => EquipmentReady(e)'
    BY <1>1, <1>2, ReadyStays
  <2>2. LinesWith(e, "Requested")' = LinesWith(e, "Requested")
    BY <1>1, <1>2, ReadyStays
  <2>3. \/ desk[e].busy /\ event'[e].status = event[e].status
        \/ event'[e].status \notin {"Confirmed", "Completed"} /\ request[e] = "Pending Review"
        \/ ~desk'[e].busy
    BY <1>3
  <2> QED
    BY <1>1, <1>5, <1>6, <2>1, <2>2, <2>3 DEF Good
<1> QED
  BY <1>7, <1>8

-----------------------------------------------------------------------------
(* The steps that change lines *)

(* Nothing that must hold stands on an open event with no check under way.    *)
LEMMA OpenIsGood ==
  ASSUME NEW e \in Events, event'[e].status \notin {"Confirmed", "Completed"}, ~desk'[e].busy,
         safety'[e].state \notin {"pending", "approved"} \/ event'[e].status = "Cancelled",
         LinesWith(e, "Requested")' # {} => request'[e] = "Pending Review"
  PROVE  Good(e)'
BY DEF Good

(* Rows are as they were: so is the readiness of the event. *)
LEMMA SameRows ==
  ASSUME NEW e \in Events, noneNeeded' = noneNeeded, DOMAIN lines'[e] = DOMAIN lines[e],
         \A i \in DOMAIN lines[e] : lines'[e][i].row = lines[e][i].row, EquipmentReady(e)
  PROVE  EquipmentReady(e)'
<1>1. Active(e)' = Active(e)
  BY DEF Active
<1>2. \A i \in Active(e) : i \in DOMAIN lines[e]
  BY DEF Active
<1> QED
  BY <1>1, <1>2 DEF EquipmentReady

(* What all steps on lines leave alone. *)
Apart(e) ==
  /\ stock' = stock /\ noneNeeded' = noneNeeded
  /\ \A f \in Events \ {e} : /\ event'[f] = event[f] /\ request'[f] = request[f]
                             /\ desk'[f] = desk[f] /\ safety'[f] = safety[f]
                             /\ lines'[f] = lines[f]

LEMMA ApartIsSame ==
  ASSUME NEW e \in Events, Apart(e)
  PROVE  \A f \in Events \ {e} : Same(f)
BY DEF Apart, Same

LEMMA ApartKeepsTypes ==
  ASSUME TypeOK, NEW e \in Events, Apart(e),
         event' \in States, event'[e].slot \in Slots[e], request' \in [Events -> RequestStatus],
         lines' \in [Events -> Seq(Line)], safety' \in Checks,
         desk' = [f \in Events |-> desk'[f]], desk'[e].busy \in BOOLEAN,
         request'[e] = "none" <=> lines'[e] = << >>,
         safety'[e].review \subseteq DOMAIN lines'[e]
  PROVE  TypeOK' /\ \A f \in Events \ {e} : Same(f)
<1>1. \A f \in Events \ {e} : Same(f)
  BY ApartIsSame
<1>2. stock' = stock /\ noneNeeded' \in [Events -> BOOLEAN]
  BY TypeParts DEF Apart
<1> QED
  BY <1>1, <1>2, TypeHere

(* A request that is made or replaced: whatever the check was, it is gone, or *)
(* it was none, or answered.                                                  *)
LEMMA FreshStep ==
  ASSUME TypeOK, NEW e \in Events, NEW ask \in Asks[e],
         event[e].status = "Planning", ~desk[e].busy,
         request' = [request EXCEPT ![e] = "Pending Review"],
         lines' = [lines EXCEPT ![e] = Fresh(ask)],
         UNCHANGED <<stock, event, noneNeeded, desk>>,
         safety' \in Checks, \A f \in Events \ {e} : safety'[f] = safety[f],
         safety'[e].state \notin {"pending", "approved"},
         safety'[e].review = {}
  PROVE  TypeOK' /\ Good(e)' /\ \A f \in Events \ {e} : Same(f)
<1>1. lines'[e] = Fresh(ask) /\ lines' \in [Events -> Seq(Line)] /\ lines'[e] # << >>
      /\ \A f \in Events \ {e} : lines'[f] = lines[f]
  BY FreshFacts, TypeParts
<1>2. request'[e] = "Pending Review" /\ request' \in [Events -> RequestStatus]
      /\ \A f \in Events \ {e} : request'[f] = request[f]
  BY TypeParts DEF RequestStatus
<1>3. Apart(e)
  BY <1>1, <1>2 DEF Apart
<1>4. TypeOK' /\ \A f \in Events \ {e} : Same(f)
  BY <1>1, <1>2, <1>3, TypeParts, ApartKeepsTypes
<1>5. Good(e)'
  BY <1>2, OpenIsGood
<1> QED
  BY <1>4, <1>5

LEMMA SubmitStep ==
  ASSUME TypeOK, NEW e \in Events, NEW ask \in Asks[e], Submit(e, ask)
  PROVE  TypeOK' /\ Good(e)' /\ \A f \in Events \ {e} : Same(f)
<1>1. safety[e].review = {}
  <2>1. lines[e] = << >>
    BY TypeParts DEF Submit
  <2>2. DOMAIN lines[e] = {}
    BY <2>1, LineFacts
  <2> QED
    BY <2>2, TypeParts
<1>2. DOMAIN ask # {}
  BY FreshFacts
<1>3. Touch(e, DOMAIN ask)
  BY DEF Submit
<1>4. /\ safety' \in Checks
      /\ \A f \in Events \ {e} : safety'[f] = safety[f]
      /\ \/ safety'[e] = NoCheck
         \/ safety'[e] = safety[e]
            /\ (safety[e].state \in {"pending", "approved"} => DOMAIN ask = {})
  BY <1>3, TouchFacts
<1>5. safety'[e].state \notin {"pending", "approved"} /\ safety'[e].review = {}
  BY <1>1, <1>2, <1>4 DEF NoCheck
<1>6. /\ event[e].status = "Planning" /\ ~desk[e].busy
      /\ request' = [request EXCEPT ![e] = "Pending Review"]
      /\ lines' = [lines EXCEPT ![e] = Fresh(ask)]
      /\ UNCHANGED <<stock, event, noneNeeded, desk>>
  BY DEF Submit, EventFree
<1> QED
  BY <1>4, <1>5, <1>6, FreshStep

(* The check is reset in every step below. *)
LEMMA ResetFacts ==
  ASSUME TypeOK, NEW e \in Events, safety' = [safety EXCEPT ![e] = NoCheck]
  PROVE  /\ safety' \in Checks /\ safety'[e].state = "none" /\ safety'[e].review = {}
         /\ \A f \in Events \ {e} : safety'[f] = safety[f]
<1>1. NoCheck \in [state : {"none", "pending", "approved", "answered"}, review : SUBSET Nat]
      /\ NoCheck.state = "none" /\ NoCheck.review = {}
  BY DEF NoCheck
<1>2. safety \in Checks
  BY TypeParts
<1> QED
  BY <1>1, <1>2 DEF Checks

LEMMA UpdateRequestStep ==
  ASSUME TypeOK, NEW e \in Events, NEW ask \in Asks[e], UpdateRequest(e, ask)
  PROVE  TypeOK' /\ Good(e)' /\ \A f \in Events \ {e} : Same(f)
<1>1. /\ event[e].status = "Planning" /\ ~desk[e].busy
      /\ request' = [request EXCEPT ![e] = "Pending Review"]
      /\ lines' = [lines EXCEPT ![e] = Fresh(ask)]
      /\ safety' = [safety EXCEPT ![e] = NoCheck]
      /\ UNCHANGED <<stock, event, noneNeeded, desk>>
  BY DEF UpdateRequest, EventFree
<1>2. /\ safety' \in Checks /\ safety'[e].state = "none" /\ safety'[e].review = {}
      /\ \A f \in Events \ {e} : safety'[f] = safety[f]
  BY <1>1, ResetFacts
<1> QED
  BY <1>1, <1>2, FreshStep

LEMMA UpdateSelectedStep ==
  ASSUME TypeOK, NEW e \in Events, NEW ask \in Asks[e], UpdateSelected(e, ask)
  PROVE  TypeOK' /\ Good(e)' /\ \A f \in Events \ {e} : Same(f)
<1> DEFINE new == [i \in DOMAIN lines[e] |->
                     IF i \in Selected(e) THEN Fresh(ask)[i] ELSE lines[e][i]]
<1>1. /\ event[e].status = "Planning" /\ DOMAIN ask = DOMAIN lines[e] /\ ~desk[e].busy
      /\ request' = [request EXCEPT ![e] = "Pending Review"]
      /\ lines' = [lines EXCEPT ![e] = new]
      /\ UNCHANGED <<stock, event, noneNeeded, safety, desk>>
      /\ safety[e].state = "answered"
  BY TypeParts DEF UpdateSelected, Selected, EventFree
<1>2. \A i \in DOMAIN lines[e] : Fresh(ask)[i] \in Line /\ lines[e][i] \in Line
  BY <1>1, FreshFacts, LineFacts
<1>3. new \in [DOMAIN lines[e] -> Line]
  BY <1>2
<1> HIDE DEF new
<1>4. new \in Seq(Line) /\ DOMAIN new = DOMAIN lines[e] /\ (new = << >> <=> lines[e] = << >>)
  BY <1>3, LinesType
<1>5. lines'[e] = new /\ lines' \in [Events -> Seq(Line)]
      /\ \A f \in Events \ {e} : lines'[f] = lines[f]
  BY <1>1, <1>4, TypeParts
<1>6. lines[e] # << >>
  <2>1. DOMAIN lines[e] # {}
    BY <1>1, FreshFacts
  <2> QED
    BY <2>1, LineFacts
<1>7. request'[e] = "Pending Review" /\ request' \in [Events -> RequestStatus]
      /\ \A f \in Events \ {e} : request'[f] = request[f]
  BY <1>1, TypeParts DEF RequestStatus
<1>8. Apart(e)
  BY <1>1, <1>5, <1>7 DEF Apart
<1>9. TypeOK' /\ \A f \in Events \ {e} : Same(f)
  BY <1>1, <1>4, <1>5, <1>6, <1>7, <1>8, TypeParts, ApartKeepsTypes
<1>10. Good(e)'
  BY <1>1, <1>7, OpenIsGood
<1> QED
  BY <1>9, <1>10

-----------------------------------------------------------------------------
(* The steps that give rows a status *)

(* What a step owes beside its rows, for the types and the other events. *)
LEMMA RowsStep ==
  ASSUME TypeOK, NEW e \in Events, NEW I, NEW status \in RowStatus, SetRows(e, I, status),
         UNCHANGED <<stock, noneNeeded>>,
         event' \in States, event'[e].slot \in Slots[e],
         \A f \in Events \ {e} : event'[f] = event[f],
         request' \in [Events -> RequestStatus], request'[e] = "none" <=> request[e] = "none",
         \A f \in Events \ {e} : request'[f] = request[f],
         safety' \in Checks, safety'[e].review \subseteq DOMAIN lines[e],
         \A f \in Events \ {e} : safety'[f] = safety[f],
         desk' = [f \in Events |-> desk'[f]], desk'[e].busy \in BOOLEAN,
         \A f \in Events \ {e} : desk'[f] = desk[f]
  PROVE  TypeOK' /\ \A f \in Events \ {e} : Same(f)
<1>1. /\ lines' \in [Events -> Seq(Line)]
      /\ \A f \in Events \ {e} : lines'[f] = lines[f]
      /\ DOMAIN lines'[e] = DOMAIN lines[e] /\ (lines'[e] = << >> <=> lines[e] = << >>)
  BY SetRowsFacts
<1>2. Apart(e)
  BY <1>1 DEF Apart
<1>3. request'[e] = "none" <=> lines'[e] = << >>
  BY <1>1, TypeParts
<1> QED
  BY <1>1, <1>2, <1>3, ApartKeepsTypes

(* Rows that get another status leave fewer requested, or none. *)
LEMMA FewerRequested ==
  ASSUME TypeOK, NEW e \in Events, NEW I, NEW status \in RowStatus \ {"Requested"},
         SetRows(e, I, status)
  PROVE  LinesWith(e, "Requested")' = LinesWith(e, "Requested") \ I
<1>1. /\ DOMAIN lines'[e] = DOMAIN lines[e]
      /\ \A i \in DOMAIN lines[e] :
           lines'[e][i].row = IF i \in I THEN status ELSE lines[e][i].row
  BY SetRowsFacts
<1>2. \A i \in DOMAIN lines[e] :
        lines'[e][i].row = "Requested" <=> lines[e][i].row = "Requested" /\ i \notin I
  BY <1>1
<1> QED
  BY <1>1, <1>2 DEF LinesWith

LEMMA RemoveStep ==
  ASSUME TypeOK, NEW e \in Events, Good(e), NEW i \in DOMAIN lines[e],
         RemoveEquipmentRequest(e, i)
  PROVE  TypeOK' /\ Good(e)' /\ \A f \in Events \ {e} : Same(f)
<1>1. /\ event[e].status = "Planning" /\ ~desk[e].busy /\ SetRows(e, {i}, "none")
      /\ safety' = [safety EXCEPT ![e] = NoCheck]
      /\ UNCHANGED <<stock, event, noneNeeded, request, desk>>
  BY DEF RemoveEquipmentRequest, EventFree
<1>2. /\ safety' \in Checks /\ safety'[e].state = "none" /\ safety'[e].review = {}
      /\ \A f \in Events \ {e} : safety'[f] = safety[f]
  BY <1>1, ResetFacts
<1>3. "none" \in RowStatus \ {"Requested"}
  BY DEF RowStatus
<1>4. TypeOK' /\ \A f \in Events \ {e} : Same(f)
  BY <1>1, <1>2, <1>3, TypeParts, RowsStep
<1>5. LinesWith(e, "Requested")' = LinesWith(e, "Requested") \ {i}
  BY <1>1, <1>3, FewerRequested
<1>6. Good(e)'
  BY <1>1, <1>2, <1>5, OpenIsGood DEF Good
<1> QED
  BY <1>4, <1>6

LEMMA MarkCannotProvideStep ==
  ASSUME TypeOK, NEW e \in Events, Good(e), MarkCannotProvide(e)
  PROVE  TypeOK' /\ Good(e)' /\ \A f \in Events \ {e} : Same(f)
<1>0. PICK refused : refused = IF LinesWith(e, "Requested") # {} THEN LinesWith(e, "Requested")
                                ELSE LinesWith(e, "Reserved")
  OBVIOUS
<1>1. /\ ~desk[e].busy /\ event[e].status \notin {"Confirmed", "Completed"}
      /\ request[e] = "Pending Review"
      /\ request' = [request EXCEPT ![e] = "Cannot Provide"]
      /\ SetRows(e, refused, "Unavailable") /\ Touch(e, refused)
      /\ UNCHANGED <<stock, event, noneNeeded, desk>>
  BY <1>0 DEF MarkCannotProvide, Decidable, EventFree
<1>2. LinesWith(e, "Requested") \subseteq refused
  BY <1>0
<1>3. /\ safety' \in Checks
      /\ \A f \in Events \ {e} : safety'[f] = safety[f]
      /\ \/ safety'[e] = NoCheck
         \/ safety'[e] = safety[e]
            /\ (safety[e].state \in {"pending", "approved"} => refused = {})
  BY <1>1, TouchFacts
<1>4. request'[e] = "Cannot Provide" /\ request' \in [Events -> RequestStatus]
      /\ \A f \in Events \ {e} : request'[f] = request[f]
  BY <1>1, TypeParts DEF RequestStatus
<1>5. "Unavailable" \in RowStatus \ {"Requested"}
  BY DEF RowStatus
<1>6. safety'[e].review \subseteq DOMAIN lines[e]
  BY <1>3, TypeParts DEF NoCheck
<1>7. TypeOK' /\ \A f \in Events \ {e} : Same(f)
  BY <1>1, <1>3, <1>4, <1>5, <1>6, TypeParts, RowsStep
<1>8. LinesWith(e, "Requested")' = {}
  <2>1. SetRows(e, refused, "Unavailable")
    BY <1>1
  <2>2. LinesWith(e, "Requested")' = LinesWith(e, "Requested") \ refused
    BY <1>5, <2>1, FewerRequested
  <2> QED
    BY <1>2, <2>2
<1>9. Good(e)'
  <2>1. CASE safety'[e].state \notin {"pending", "approved"}
    BY <1>1, <1>8, <2>1, OpenIsGood
  <2>2. CASE safety'[e].state \in {"pending", "approved"}
    <3>1. safety'[e] = safety[e] /\ refused = {}
      BY <1>3, <2>2 DEF NoCheck
    <3>2. /\ DOMAIN lines'[e] = DOMAIN lines[e]
          /\ \A i \in DOMAIN lines[e] : lines'[e][i].row = lines[e][i].row
      <4>1. SetRows(e, refused, "Unavailable") /\ "Unavailable" \in RowStatus
        BY <1>1, <1>5
      <4>2. /\ DOMAIN lines'[e] = DOMAIN lines[e]
            /\ \A i \in DOMAIN lines[e] :
                 lines'[e][i].row = IF i \in refused THEN "Unavailable" ELSE lines[e][i].row
        BY <4>1, SetRowsFacts
      <4> QED
        BY <3>1, <4>2
    <3>3. EquipmentReady(e) => EquipmentReady(e)'
      BY <1>1, <3>2, SameRows
    <3> QED
      BY <1>1, <1>8, <3>1, <3>3 DEF Good
  <2> QED
    BY <2>1, <2>2
<1> QED
  BY <1>7, <1>9

LEMMA ReserveStep ==
  ASSUME TypeOK, NEW e \in Events, Good(e), Reserve(e)
  PROVE  TypeOK' /\ Good(e)' /\ \A f \in Events \ {e} : Same(f)
<1>0. PICK decided : decided = Undecided(e)
  OBVIOUS
<1>1. /\ desk[e].busy /\ desk' = [desk EXCEPT ![e] = [busy |-> FALSE]]
      /\ request' = [request EXCEPT ![e] = "Reserved"]
      /\ SetRows(e, decided, "Reserved") /\ Touch(e, decided \ LinesWith(e, "Reserved"))
      /\ UNCHANGED <<stock, event, noneNeeded>>
  BY <1>0 DEF Reserve, Done
<1>2. LinesWith(e, "Requested") \subseteq decided
      /\ (LinesWith(e, "Requested") # {} \/ decided = DOMAIN lines[e])
  BY <1>0 DEF Undecided, LinesWith
<1>3. /\ safety' \in Checks
      /\ \A f \in Events \ {e} : safety'[f] = safety[f]
      /\ \/ safety'[e] = NoCheck
         \/ safety'[e] = safety[e]
            /\ (safety[e].state \in {"pending", "approved"}
                => decided \ LinesWith(e, "Reserved") = {})
  BY <1>1, TouchFacts
<1>4. request'[e] = "Reserved" /\ request' \in [Events -> RequestStatus]
      /\ \A f \in Events \ {e} : request'[f] = request[f]
  BY <1>1, TypeParts DEF RequestStatus
<1>5. "Reserved" \in RowStatus \ {"Requested"}
  BY DEF RowStatus
<1>6. safety'[e].review \subseteq DOMAIN lines[e]
  BY <1>3, TypeParts DEF NoCheck
<1>7. /\ desk' = [f \in Events |-> desk'[f]] /\ desk'[e].busy = FALSE
      /\ \A f \in Events \ {e} : desk'[f] = desk[f]
  BY <1>1, TypeParts
<1>8. /\ request[e] = "Pending Review" /\ event[e].status \notin {"Confirmed", "Completed"}
      /\ (EquipmentReady(e) \/ safety[e].state \notin {"pending", "approved"}
                            \/ event[e].status = "Cancelled")
  BY <1>1 DEF Good
<1>9. TypeOK' /\ \A f \in Events \ {e} : Same(f)
  BY <1>1, <1>3, <1>4, <1>5, <1>6, <1>7, <1>8, TypeParts, RowsStep
<1>10. LinesWith(e, "Requested")' = {}
  BY <1>1, <1>2, <1>5, FewerRequested
<1>11. Good(e)'
  <2>1. CASE safety'[e].state \notin {"pending", "approved"}
    BY <1>1, <1>7, <1>8, <1>10, <2>1, OpenIsGood
  <2>2. CASE safety'[e].state \in {"pending", "approved"}
    <3>1. safety'[e] = safety[e] /\ decided \ LinesWith(e, "Reserved") = {}
      BY <1>3, <2>2 DEF NoCheck
    <3>2. /\ DOMAIN lines'[e] = DOMAIN lines[e]
          /\ \A i \in DOMAIN lines[e] : lines'[e][i].row = lines[e][i].row
      <4>1. /\ DOMAIN lines'[e] = DOMAIN lines[e]
            /\ \A i \in DOMAIN lines[e] :
                 lines'[e][i].row = IF i \in decided THEN "Reserved" ELSE lines[e][i].row
        BY <1>1, <1>5, SetRowsFacts
      <4>2. \A i \in decided : lines[e][i].row = "Reserved"
        BY <3>1 DEF LinesWith
      <4> QED
        BY <4>1, <4>2
    <3>3. EquipmentReady(e) => EquipmentReady(e)'
      BY <1>1, <3>2, SameRows
    <3> QED
      BY <1>1, <1>7, <1>8, <1>10, <3>1, <3>3 DEF Good
  <2> QED
    BY <2>1, <2>2
<1> QED
  BY <1>9, <1>11

(* Whatever the Safety Officer flags goes back to the queue of its request. *)
LEMMA SafetyAnswersStep ==
  ASSUME TypeOK, NEW e \in Events, Good(e), SafetyAnswers(e)
  PROVE  TypeOK' /\ Good(e)' /\ \A f \in Events \ {e} : Same(f)
<1>1. PICK flagged \in SUBSET LinesWith(e, "Reserved") :
        /\ safety' = [safety EXCEPT ![e] = [state |-> "answered", review |-> flagged]]
        /\ SetRows(e, flagged, "Requested")
        /\ request' = IF flagged = {} THEN request
                      ELSE [request EXCEPT ![e] = "Pending Review"]
  BY DEF SafetyAnswers
<1>2. /\ ~desk[e].busy /\ event[e].status = "Planning"
      /\ UNCHANGED <<stock, event, noneNeeded, desk>>
  BY DEF SafetyAnswers, Respondable, EventFree
<1>3. flagged \subseteq DOMAIN lines[e] /\ flagged \in SUBSET Nat
  BY LineFacts DEF LinesWith
<1>4. /\ safety' \in Checks /\ safety'[e].state = "answered" /\ safety'[e].review = flagged
      /\ \A f \in Events \ {e} : safety'[f] = safety[f]
  BY <1>1, <1>3, TypeParts DEF Checks
<1>5. "Requested" \in RowStatus /\ "Pending Review" \in RequestStatus
  BY DEF RowStatus, RequestStatus
<1>6. /\ DOMAIN lines'[e] = DOMAIN lines[e] /\ (lines'[e] = << >> <=> lines[e] = << >>)
      /\ \A i \in DOMAIN lines[e] :
           lines'[e][i].row = IF i \in flagged THEN "Requested" ELSE lines[e][i].row
  BY <1>1, <1>5, SetRowsFacts
<1>7. flagged # {} => lines[e] # << >>
  BY <1>3, LineFacts
<1>8. /\ request' \in [Events -> RequestStatus]
      /\ \A f \in Events \ {e} : request'[f] = request[f]
      /\ request'[e] = "none" <=> request[e] = "none"
      /\ request'[e] = IF flagged = {} THEN request[e] ELSE "Pending Review"
  BY <1>1, <1>5, <1>7, TypeParts
<1>9. TypeOK' /\ \A f \in Events \ {e} : Same(f)
  BY <1>1, <1>2, <1>3, <1>4, <1>5, <1>8, TypeParts, RowsStep
<1>10. flagged = {} => LinesWith(e, "Requested")' = LinesWith(e, "Requested")
  BY <1>6 DEF LinesWith
<1>11. Good(e)'
  BY <1>2, <1>4, <1>8, <1>10, OpenIsGood DEF Good
<1> QED
  BY <1>9, <1>11

LEMMA CancelStep ==
  ASSUME TypeOK, NEW e \in Events, Good(e), CancelEvent(e)
  PROVE  TypeOK' /\ Good(e)' /\ \A f \in Events \ {e} : Same(f)
<1>0. PICK released : released = {i \in DOMAIN lines[e] : lines[e][i].row # "none"}
  OBVIOUS
<1>1. /\ ~desk[e].busy /\ SetRows(e, released, "Released")
      /\ event' = [event EXCEPT ![e].status = "Cancelled"]
      /\ UNCHANGED <<stock, noneNeeded, request, safety, desk>>
  BY <1>0 DEF CancelEvent, EventFree
<1>2. /\ event' \in States /\ event'[e].status = "Cancelled" /\ event'[e].slot = event[e].slot
      /\ \A f \in Events \ {e} : event'[f] = event[f]
  <2>1. "Cancelled" \in EventStatus
    BY DEF EventStatus
  <2> QED
    BY <1>1, <2>1, TypeParts DEF States
<1>3. "Released" \in RowStatus \ {"Requested"}
  BY DEF RowStatus
<1>4. TypeOK' /\ \A f \in Events \ {e} : Same(f)
  BY <1>1, <1>2, <1>3, TypeParts, RowsStep
<1>5. LinesWith(e, "Requested")' = LinesWith(e, "Requested") \ released
  BY <1>1, <1>3, FewerRequested
<1>6. LinesWith(e, "Requested") \subseteq released
  BY <1>0 DEF LinesWith
<1>7. Good(e)'
  BY <1>1, <1>2, <1>5, <1>6, OpenIsGood
<1> QED
  BY <1>4, <1>7

LEMMA MoveStep ==
  ASSUME TypeOK, NEW e \in Events, Good(e), NEW p \in Slots[e], Move(e, p)
  PROVE  TypeOK' /\ Good(e)' /\ \A f \in Events \ {e} : Same(f)
<1>1. PICK released :
        /\ ~desk[e].busy /\ SetRows(e, released, "Released")
        /\ event' = [event EXCEPT ![e] = [status |-> "Planning", slot |-> p]]
        /\ safety' = [safety EXCEPT ![e] = NoCheck]
        /\ request' = IF request[e] = "Reserved"
                      THEN [request EXCEPT ![e] = "Pending Review"] ELSE request
        /\ UNCHANGED <<stock, noneNeeded, desk>>
  BY DEF Move, Changeable, EventFree
<1>2. p \in Period /\ "Planning" \in EventStatus
  BY SlotsAssumption DEF EventStatus
<1>3. /\ event' \in States /\ event'[e].status = "Planning" /\ event'[e].slot = p
      /\ \A f \in Events \ {e} : event'[f] = event[f]
  BY <1>1, <1>2, TypeParts DEF States
<1>4. /\ safety' \in Checks /\ safety'[e].state = "none" /\ safety'[e].review = {}
      /\ \A f \in Events \ {e} : safety'[f] = safety[f]
  BY <1>1, ResetFacts
<1>5. "Released" \in RowStatus \ {"Requested"} /\ "Pending Review" \in RequestStatus
  BY DEF RowStatus, RequestStatus
<1>6. /\ request' \in [Events -> RequestStatus]
      /\ \A f \in Events \ {e} : request'[f] = request[f]
      /\ request'[e] = IF request[e] = "Reserved" THEN "Pending Review" ELSE request[e]
  BY <1>1, <1>5, TypeParts
<1>7. TypeOK' /\ \A f \in Events \ {e} : Same(f)
  BY <1>1, <1>3, <1>4, <1>5, <1>6, TypeParts, RowsStep
<1>8. LinesWith(e, "Requested")' = LinesWith(e, "Requested") \ released
  BY <1>1, <1>5, FewerRequested
<1>9. Good(e)'
  BY <1>1, <1>3, <1>4, <1>6, <1>8, OpenIsGood DEF Good
<1> QED
  BY <1>7, <1>9

-----------------------------------------------------------------------------
(* Units, and how many they are *)

(* A union of finitely many finite sets is finite: of the sets for which it is *)
(* not, a smallest one would owe it to any of its elements.                    *)
LEMMA FiniteUnion ==
  ASSUME NEW F, IsFiniteSet(F), NEW g, \A x \in F : IsFiniteSet(g[x])
  PROVE  IsFiniteSet(UNION {g[x] : x \in F})
<1> DEFINE Bad == {S \in FiniteSubsetsOf(F) : ~IsFiniteSet(UNION {g[x] : x \in S})}
<1> SUFFICES ASSUME ~IsFiniteSet(UNION {g[x] : x \in F}) PROVE FALSE
  OBVIOUS
<1>1. F \in Bad
  BY DEF FiniteSubsetsOf
<1>2. PICK S \in Bad : \A R \in Bad : <<R, S>> \notin StrictSubsetOrdering(F)
  <2>1. IsWellFoundedOn(StrictSubsetOrdering(F), FiniteSubsetsOf(F))
    BY FS_StrictSubsetOrderingWellFounded
  <2>2. Bad \subseteq FiniteSubsetsOf(F) /\ Bad # {}
    BY <1>1
  <2> HIDE DEF Bad
  <2> QED
    BY <2>1, <2>2, WFMin
<1>3. S \subseteq F /\ IsFiniteSet(S) /\ ~IsFiniteSet(UNION {g[x] : x \in S})
  BY <1>2 DEF FiniteSubsetsOf
<1>4. S # {}
  <2>1. UNION {g[x] : x \in {}} = {}
    OBVIOUS
  <2> QED
    BY <1>3, <2>1, FS_EmptySet
<1>5. PICK y \in S : TRUE
  BY <1>4
<1>6. PICK R : R = S \ {y}
  OBVIOUS
<1>7. R \in FiniteSubsetsOf(F) /\ <<R, S>> \in StrictSubsetOrdering(F)
  <2>1. R \subseteq F /\ R \subseteq S /\ R # S
    BY <1>3, <1>5, <1>6
  <2>2. IsFiniteSet(R)
    BY <1>3, <1>6, FS_RemoveElement
  <2>3. <<R, S>> \in (SUBSET F) \X (SUBSET F)
    BY <1>3, <2>1
  <2> QED
    BY <2>1, <2>2, <2>3 DEF FiniteSubsetsOf, StrictSubsetOrdering
<1>8. IsFiniteSet(UNION {g[x] : x \in R})
  BY <1>2, <1>7
<1>9. IsFiniteSet(g[y])
  BY <1>3, <1>5
<1>10. UNION {g[x] : x \in S} = (UNION {g[x] : x \in R}) \cup g[y]
  BY <1>5, <1>6
<1>11. IsFiniteSet((UNION {g[x] : x \in R}) \cup g[y])
  BY <1>8, <1>9, FS_Union
<1> QED
  BY <1>3, <1>10, <1>11

(* The units of one line are as many as it asks for. *)
LEMMA LineUnits ==
  ASSUME NEW e, NEW i, NEW q \in Nat
  PROVE  IsFiniteSet({<<e, i, k>> : k \in 1 .. q})
<1> DEFINE T == {<<e, i, k>> : k \in 1 .. q}
           f == [k \in 1 .. q |-> <<e, i, k>>]
<1>1. f \in Surjection(1 .. q, T)
  BY DEF Surjection
<1>2. IsFiniteSet(1 .. q)
  BY FS_Interval
<1> HIDE DEF f, T
<1>3. IsFiniteSet(T)
  BY <1>1, <1>2, FS_Surjection
<1> QED
  BY <1>3 DEF T

LEMMA UnitsFinite ==
  ASSUME TypeOK, NEW e \in Events, NEW I \in SUBSET DOMAIN lines[e], NEW n
  PROVE  IsFiniteSet(Units(e, I, n)) /\ Cardinality(Units(e, I, n)) \in Nat
<1>1. PICK J : J = {j \in I : lines[e][j].name = n}
  OBVIOUS
<1>2. IsFiniteSet(J)
  <2>1. IsFiniteSet(1 .. Len(lines[e]))
    BY LineFacts, FS_Interval
  <2>2. J \subseteq 1 .. Len(lines[e])
    BY <1>1, LineFacts
  <2> QED
    BY <2>1, <2>2, FS_Subset
<1>3. PICK g : g = [i \in J |-> {<<e, i, k>> : k \in 1 .. lines[e][i].quantity}]
  OBVIOUS
<1>4. \A i \in J : IsFiniteSet(g[i])
  <2> SUFFICES ASSUME NEW i \in J PROVE IsFiniteSet(g[i])
    OBVIOUS
  <2>1. lines[e][i].quantity \in Nat
    BY <1>1, LineFacts DEF Line
  <2>2. PICK q \in Nat : q = lines[e][i].quantity
    BY <2>1
  <2>3. g[i] = {<<e, i, k>> : k \in 1 .. q}
    BY <1>3, <2>2
  <2>4. IsFiniteSet({<<e, i, k>> : k \in 1 .. q})
    BY LineUnits
  <2> QED
    BY <2>3, <2>4
<1>5. Units(e, I, n) = UNION {g[i] : i \in J}
  BY <1>1, <1>3 DEF Units
<1>6. IsFiniteSet(Units(e, I, n))
  BY <1>2, <1>4, <1>5, FiniteUnion
<1> QED
  BY <1>6, FS_CardinalityType

LEMMA HeldFinite ==
  ASSUME TypeOK, NEW F \in SUBSET Events, NEW n
  PROVE  IsFiniteSet(HeldBy(F, n)) /\ Cardinality(HeldBy(F, n)) \in Nat
<1>1. IsFiniteSet(F)
  BY EventsAssumption, FS_Subset
<1>2. PICK g : g = [e \in F |-> Units(e, LinesWith(e, "Reserved"), n)]
  OBVIOUS
<1>3. \A e \in F : IsFiniteSet(g[e])
  BY <1>2, UnitsFinite DEF LinesWith
<1>4. HeldBy(F, n) = UNION {g[e] : e \in F}
  BY <1>2 DEF HeldBy
<1>5. IsFiniteSet(HeldBy(F, n))
  BY <1>1, <1>3, <1>4, FiniteUnion
<1> QED
  BY <1>5, FS_CardinalityType

-----------------------------------------------------------------------------
(* What an event holds, and the steps that give it back or leave it *)

Kept(f, n) == Units(f, LinesWith(f, "Reserved"), n)

Within(p, q) == q.from <= p.from /\ p.to <= q.to

(* The event holds nothing more, and for no longer.                           *)
Keeps(f, n) ==
  /\ Kept(f, n)' \subseteq Kept(f, n)
  /\ Kept(f, n)' # {} => Within(event'[f].slot, event[f].slot)

(* A reservation under way stays what it was.                                 *)
Stays(f) ==
  desk'[f].busy => /\ desk[f].busy /\ desk'[f] = desk[f] /\ lines'[f] = lines[f]
                   /\ event'[f].slot = event[f].slot

LEMMA SlotFacts ==
  ASSUME TypeOK, NEW f \in Events
  PROVE  event[f].slot.from \in Nat /\ event[f].slot.to \in Nat
<1>1. event[f].slot \in Period
  BY TypeParts
<1> QED
  BY <1>1 DEF Period

LEMMA KeptFewer ==
  ASSUME NEW e, NEW n,
         \A i \in LinesWith(e, "Reserved")' :
           /\ i \in LinesWith(e, "Reserved")
           /\ lines'[e][i].name = lines[e][i].name
           /\ lines'[e][i].quantity = lines[e][i].quantity
  PROVE  Kept(e, n)' \subseteq Kept(e, n)
<1> SUFFICES ASSUME NEW u, u \in Kept(e, n)' PROVE u \in Kept(e, n)
  OBVIOUS
<1>1. PICK i \in LinesWith(e, "Reserved")' :
        lines'[e][i].name = n /\ u \in {<<e, i, k>> : k \in 1 .. lines'[e][i].quantity}
  BY DEF Kept, Units
<1>2. i \in {j \in LinesWith(e, "Reserved") : lines[e][j].name = n}
      /\ u \in {<<e, i, k>> : k \in 1 .. lines[e][i].quantity}
  BY <1>1
<1> QED
  BY <1>2 DEF Kept, Units

LEMMA SameKeeps ==
  ASSUME TypeOK, NEW f \in Events, NEW n, lines'[f] = lines[f],
         event'[f].slot = event[f].slot
  PROVE  Keeps(f, n)
<1>1. Kept(f, n)' = Kept(f, n)
  BY DEF Kept, Units, LinesWith
<1>2. Within(event'[f].slot, event[f].slot)
  BY SlotFacts DEF Within
<1> QED
  BY <1>1, <1>2 DEF Keeps

(* Rows that get another status than "Reserved" are held no longer, and the   *)
(* others are what they were.                                                 *)
LEMMA RowsKeep ==
  ASSUME TypeOK, NEW e \in Events, NEW I, NEW status \in RowStatus \ {"Reserved"}, NEW n,
         SetRows(e, I, status)
  PROVE  /\ LinesWith(e, "Reserved")' = LinesWith(e, "Reserved") \ I
         /\ Kept(e, n)' \subseteq Kept(e, n)
<1>1. lines'[e] = [i \in DOMAIN lines[e] |->
                     IF i \in I THEN [lines[e][i] EXCEPT !.row = status] ELSE lines[e][i]]
  BY TypeParts DEF SetRows
<1>2. \A i \in DOMAIN lines[e] : i \in I => lines'[e][i].row = status
  BY SetRowsFacts
<1>3. LinesWith(e, "Reserved")' = LinesWith(e, "Reserved") \ I
  BY <1>1, <1>2 DEF LinesWith
<1>4. \A i \in LinesWith(e, "Reserved")' : /\ i \in LinesWith(e, "Reserved")
                                            /\ lines'[e][i] = lines[e][i]
  BY <1>1, <1>3 DEF LinesWith
<1> QED
  BY <1>3, <1>4, KeptFewer

(* Lines that are requested anew hold nothing. *)
LEMMA FreshKeeps ==
  ASSUME TypeOK, NEW e \in Events, NEW ask \in Asks[e], NEW n,
         lines' = [lines EXCEPT ![e] = Fresh(ask)]
  PROVE  Keeps(e, n)
<1>1. lines'[e] = Fresh(ask)
  BY TypeParts
<1>2. LinesWith(e, "Reserved")' = {}
  BY <1>1, FreshFacts DEF LinesWith
<1> QED
  BY <1>2 DEF Keeps, Kept, Units

LEMMA SelectedKeeps ==
  ASSUME TypeOK, NEW e \in Events, NEW ask \in Asks[e], NEW n, UpdateSelected(e, ask)
  PROVE  Keeps(e, n)
<1>1. /\ DOMAIN ask = DOMAIN lines[e] /\ event' = event
      /\ lines'[e] = [i \in DOMAIN lines[e] |->
                        IF i \in Selected(e) THEN Fresh(ask)[i] ELSE lines[e][i]]
  BY TypeParts DEF UpdateSelected
<1>2. \A i \in DOMAIN lines[e] : Fresh(ask)[i].row = "Requested"
  BY <1>1, FreshFacts
<1>3. \A i \in LinesWith(e, "Reserved")' : /\ i \in LinesWith(e, "Reserved")
                                            /\ lines'[e][i] = lines[e][i]
  BY <1>1, <1>2 DEF LinesWith
<1>4. Kept(e, n)' \subseteq Kept(e, n)
  BY <1>3, KeptFewer
<1>5. Within(event'[e].slot, event[e].slot)
  BY <1>1, SlotFacts DEF Within
<1> QED
  BY <1>4, <1>5 DEF Keeps

(* An event that moves out of its period gives back all it holds. *)
LEMMA MoveKeeps ==
  ASSUME TypeOK, NEW e \in Events, NEW p \in Slots[e], NEW n, Move(e, p)
  PROVE  Keeps(e, n)
<1>1. PICK outside \in BOOLEAN : outside <=> (p.from < event[e].slot.from \/ p.to > event[e].slot.to)
  OBVIOUS
<1>2. event'[e].slot = p
  BY TypeParts DEF Move, States
<1>3. SetRows(e, IF outside THEN LinesWith(e, "Reserved") ELSE {}, "Released")
  BY <1>1 DEF Move
<1>4. "Released" \in RowStatus \ {"Reserved"}
  BY DEF RowStatus
<1>5. PICK released : released = IF outside THEN LinesWith(e, "Reserved") ELSE {}
  OBVIOUS
<1>6. /\ LinesWith(e, "Reserved")' = LinesWith(e, "Reserved") \ released
      /\ Kept(e, n)' \subseteq Kept(e, n)
  BY <1>3, <1>4, <1>5, RowsKeep
<1>7. outside => Kept(e, n)' = {}
  BY <1>5, <1>6 DEF Kept, Units
<1>8. p.from \in Nat /\ p.to \in Nat
  BY SlotsAssumption DEF Period
<1>9. ~outside => Within(event'[e].slot, event[e].slot)
  <2>1. event[e].slot.from \in Nat /\ event[e].slot.to \in Nat
    BY SlotFacts
  <2>2. ~outside => event[e].slot.from <= p.from /\ p.to <= event[e].slot.to
    BY <1>1, <1>8, <2>1
  <2> QED
    BY <1>2, <2>2 DEF Within
<1> QED
  BY <1>6, <1>7, <1>9 DEF Keeps

-----------------------------------------------------------------------------
(* Every step, but for what reservations under way have seen *)

LEMMA EventStep ==
  ASSUME TypeOK, NEW e \in Events, Good(e), OfRequest(e) \/ OfEvent(e)
  PROVE  TypeOK' /\ Good(e)' /\ \A f \in Events \ {e} : Same(f)
<1>1. CASE Quiet(e)
  BY <1>1, QuietStep
<1>2. CASE \E ask \in Asks[e] : Submit(e, ask) \/ UpdateSelected(e, ask) \/ UpdateRequest(e, ask)
  BY <1>2, SubmitStep, UpdateSelectedStep, UpdateRequestStep
<1>3. CASE \E i \in DOMAIN lines[e] : RemoveEquipmentRequest(e, i)
  BY <1>3, RemoveStep
<1>4. CASE Reserve(e) \/ MarkCannotProvide(e)
  BY <1>4, ReserveStep, MarkCannotProvideStep
<1>5. CASE SafetyAnswers(e) \/ CancelEvent(e)
  BY <1>5, SafetyAnswersStep, CancelStep
<1>6. CASE \E p \in Slots[e] : Move(e, p)
  BY <1>6, MoveStep
<1> QED
  BY <1>1, <1>2, <1>3, <1>4, <1>5, <1>6 DEF OfRequest, OfEvent, Quiet

(* A step on an event is one that reserves, or takes nothing for any event.    *)
LEMMA KeepsStep ==
  ASSUME TypeOK, NEW e \in Events, Good(e), OfRequest(e) \/ OfEvent(e), ~Reserve(e),
         NEW f \in Events, NEW n
  PROVE  Keeps(f, n)
<1>1. CASE f # e
  <2>1. Same(f)
    BY <1>1, EventStep
  <2> QED
    BY <2>1, SameKeeps DEF Same
<1>2. ASSUME f = e, Quiet(e) PROVE Keeps(f, n)
  <2>1. lines' = lines
    BY <1>2 DEF Quiet, ConfirmNoEquipment, ReserveStart, ReserveRefused, RequestSafetyCheck,
                SafetyApproves, Confirm, Complete, ChangeDetails, VenueChanges
  <2>2. event' = event \/ \E st : event' = [event EXCEPT ![e].status = st]
    BY <1>2 DEF Quiet, ConfirmNoEquipment, ReserveStart, ReserveRefused, RequestSafetyCheck,
                SafetyApproves, Confirm, Complete, ChangeDetails, VenueChanges
  <2>3. event'[e].slot = event[e].slot
    <3>1. CASE event' = event
      BY <3>1
    <3>2. CASE event' # event
      <4>1. PICK st : event' = [event EXCEPT ![e].status = st]
        BY <2>2, <3>2
      <4> QED
        BY <4>1, TypeParts DEF States
    <3> QED
      BY <3>1, <3>2
  <2> QED
    BY <1>2, <2>1, <2>3, SameKeeps
<1>3. ASSUME f = e, NEW ask \in Asks[e], Submit(e, ask) \/ UpdateRequest(e, ask)
      PROVE  Keeps(f, n)
  BY <1>3, FreshKeeps DEF Submit, UpdateRequest
<1>4. ASSUME f = e, NEW ask \in Asks[e], UpdateSelected(e, ask) PROVE Keeps(f, n)
  BY <1>4, SelectedKeeps
<1>5. ASSUME f = e, NEW I, NEW status \in RowStatus \ {"Reserved"}, SetRows(e, I, status),
             event'[e].slot = event[e].slot
      PROVE  Keeps(f, n)
  <2>1. Kept(e, n)' \subseteq Kept(e, n)
    BY <1>5, RowsKeep
  <2>2. Within(event'[e].slot, event[e].slot)
    BY <1>5, SlotFacts DEF Within
  <2> QED
    BY <1>5, <2>1, <2>2 DEF Keeps
<1>6. {"none", "Unavailable", "Requested", "Released"} \subseteq RowStatus \ {"Reserved"}
  BY DEF RowStatus
<1>7. ASSUME f = e, NEW i, RemoveEquipmentRequest(e, i) PROVE Keeps(f, n)
  BY <1>5, <1>6, <1>7 DEF RemoveEquipmentRequest
<1>8. ASSUME f = e, MarkCannotProvide(e) PROVE Keeps(f, n)
  BY <1>5, <1>6, <1>8 DEF MarkCannotProvide
<1>9. ASSUME f = e, SafetyAnswers(e) PROVE Keeps(f, n)
  BY <1>5, <1>6, <1>9 DEF SafetyAnswers
<1>10. ASSUME f = e, CancelEvent(e) PROVE Keeps(f, n)
  <2>1. event'[e].slot = event[e].slot
    BY <1>10, TypeParts DEF CancelEvent, States
  <2> QED
    BY <1>5, <1>6, <1>10, <2>1 DEF CancelEvent
<1>11. ASSUME f = e, NEW p \in Slots[e], Move(e, p) PROVE Keeps(f, n)
  BY <1>11, MoveKeeps
<1> QED
  BY <1>1, <1>2, <1>3, <1>4, <1>7, <1>8, <1>9, <1>10, <1>11 DEF OfRequest, OfEvent, Quiet

(* Only a reservation that begins makes a desk busy, and a busy one is waited *)
(* for by whoever would change its event or its lines.                        *)
LEMMA StaysStep ==
  ASSUME TypeOK, NEW e \in Events, Good(e), OfRequest(e) \/ OfEvent(e), NEW f \in Events
  PROVE  Stays(f) \/ (f = e /\ ReserveStart(e))
<1>1. CASE f # e
  <2>1. Same(f)
    BY <1>1, EventStep
  <2> QED
    BY <2>1 DEF Same, Stays
<1>2. CASE desk' = desk /\ ~desk[e].busy /\ f = e
  BY <1>2 DEF Stays
<1>3. CASE f = e /\ (Reserve(e) \/ ReserveRefused(e))
  <2>1. desk' = [desk EXCEPT ![e] = [busy |-> FALSE]]
    BY <1>3 DEF Reserve, ReserveRefused, Done
  <2>2. desk'[e].busy = FALSE
    BY <2>1, TypeParts
  <2> QED
    BY <1>3, <2>2 DEF Stays
<1>4. CASE f = e /\ VenueChanges(e)
  BY <1>4 DEF VenueChanges, Stays
<1>5. CASE ReserveStart(e)
  BY <1>1, <1>5
<1> QED
  BY <1>1, <1>2, <1>3, <1>4, <1>5
     DEF OfRequest, OfEvent, EventFree, Submit, UpdateSelected, UpdateRequest,
         RemoveEquipmentRequest, MarkCannotProvide, Decidable, ConfirmNoEquipment,
         RequestSafetyCheck, SafetyApproves, SafetyAnswers, Respondable, Confirm, Complete,
         CancelEvent, ChangeDetails, Changeable, Move

-----------------------------------------------------------------------------
(* What a reservation adds *)

LEMMA ReserveAdds ==
  ASSUME TypeOK, NEW e \in Events, Reserve(e), NEW n
  PROVE  /\ event' = event
         /\ Kept(e, n)' \subseteq Kept(e, n) \cup Units(e, Undecided(e), n)
<1>1. PICK decided : decided = Undecided(e)
  OBVIOUS
<1>2. SetRows(e, decided, "Reserved") /\ event' = event
  BY <1>1 DEF Reserve
<1>3. lines'[e] = [i \in DOMAIN lines[e] |->
                     IF i \in decided THEN [lines[e][i] EXCEPT !.row = "Reserved"]
                     ELSE lines[e][i]]
  BY <1>2, TypeParts DEF SetRows
<1>4. \A i \in DOMAIN lines[e] : /\ lines'[e][i].name = lines[e][i].name
                                 /\ lines'[e][i].quantity = lines[e][i].quantity
  BY <1>3, LineFacts DEF Line
<1>5. \A i \in LinesWith(e, "Reserved")' :
        i \in DOMAIN lines[e] /\ (i \in decided \/ i \in LinesWith(e, "Reserved"))
  BY <1>3 DEF LinesWith
<1>6. ASSUME NEW u, u \in Kept(e, n)'
      PROVE  u \in Kept(e, n) \cup Units(e, Undecided(e), n)
  <2>1. PICK i \in LinesWith(e, "Reserved")' :
          lines'[e][i].name = n /\ u \in {<<e, i, k>> : k \in 1 .. lines'[e][i].quantity}
    BY <1>6 DEF Kept, Units
  <2>2. /\ i \in decided \/ i \in LinesWith(e, "Reserved")
        /\ lines[e][i].name = n /\ u \in {<<e, i, k>> : k \in 1 .. lines[e][i].quantity}
    BY <1>4, <1>5, <2>1
  <2>3. CASE i \in decided
    <3>1. i \in {j \in Undecided(e) : lines[e][j].name = n}
      BY <1>1, <2>2, <2>3
    <3> QED
      BY <2>2, <3>1 DEF Units
  <2>4. CASE i \in LinesWith(e, "Reserved")
    <3>1. i \in {j \in LinesWith(e, "Reserved") : lines[e][j].name = n}
      BY <2>2, <2>4
    <3> QED
      BY <2>2, <3>1 DEF Kept, Units
  <2> QED
    BY <2>2, <2>3, <2>4
<1> QED
  BY <1>2, <1>6

LEMMA ReserveElsewhere ==
  ASSUME TypeOK, NEW e \in Events, Good(e), Reserve(e), NEW n, n \notin Wanted(e),
         NEW f \in Events
  PROVE  Keeps(f, n)
<1>1. CASE f # e
  <2>1. Same(f)
    BY <1>1, ReserveStep
  <2> QED
    BY <2>1, SameKeeps DEF Same
<1>2. CASE f = e
  <2>1. Units(e, Undecided(e), n) = {}
    BY DEF Units, Wanted
  <2>2. Kept(e, n)' \subseteq Kept(e, n) /\ event' = event
    BY <2>1, ReserveAdds
  <2>3. Within(event'[e].slot, event[e].slot)
    BY <2>2, SlotFacts DEF Within
  <2> QED
    BY <1>2, <2>2, <2>3 DEF Keeps
<1> QED
  BY <1>1, <1>2

-----------------------------------------------------------------------------
(* How many are held *)

LEMMA Fewer ==
  ASSUME TypeOK, NEW F \in SUBSET Events, NEW n, NEW S \in SUBSET HeldBy(F, n)
  PROVE  IsFiniteSet(S) /\ Cardinality(S) \in Nat /\ Cardinality(S) <= Cardinality(HeldBy(F, n))
<1>1. IsFiniteSet(HeldBy(F, n))
  BY HeldFinite
<1>2. IsFiniteSet(S) /\ Cardinality(S) <= Cardinality(HeldBy(F, n))
  BY <1>1, FS_Subset
<1> QED
  BY <1>2, FS_CardinalityType

LEMMA SumBounds ==
  ASSUME NEW A, NEW B, IsFiniteSet(A), IsFiniteSet(B)
  PROVE  /\ IsFiniteSet(A \cup B) /\ Cardinality(A \cup B) \in Nat
         /\ Cardinality(A \cup B) <= Cardinality(A) + Cardinality(B)
<1>1. IsFiniteSet(A \cup B) /\ IsFiniteSet(A \cap B)
      /\ Cardinality(A \cup B) = Cardinality(A) + Cardinality(B) - Cardinality(A \cap B)
  BY FS_Union, FS_Intersection
<1>2. /\ Cardinality(A) \in Nat /\ Cardinality(B) \in Nat
      /\ Cardinality(A \cup B) \in Nat /\ Cardinality(A \cap B) \in Nat
  BY <1>1, FS_CardinalityType
<1> QED
  BY <1>1, <1>2

LEMMA CountedShrinks ==
  ASSUME TypeOK, TypeOK', NEW e \in Events, NEW n, \A f \in Events : Keeps(f, n),
         lines'[e] = lines[e], event'[e].slot = event[e].slot
  PROVE  Taken(e, n)' <= Taken(e, n) /\ Taken(e, n)' \in Nat
<1>1. ASSUME NEW u, u \in HeldBy(Counted(e), n)'
      PROVE  u \in HeldBy(Counted(e), n)
  <2>1. PICK f \in Events :
          /\ u \in Kept(f, n)' /\ Overlaps(event'[f].slot, event'[e].slot)
          /\ f # e \/ LinesWith(e, "Requested")' # {}
    BY <1>1 DEF HeldBy, Counted, Kept
  <2>2. u \in Kept(f, n) /\ Within(event'[f].slot, event[f].slot)
    BY <2>1 DEF Keeps
  <2>3. /\ event[e].slot.from \in Nat /\ event[e].slot.to \in Nat
        /\ event[f].slot.from \in Nat /\ event[f].slot.to \in Nat
    BY SlotFacts
  <2>4. event'[f].slot.from \in Nat /\ event'[f].slot.to \in Nat
    <3>1. event'[f].slot \in Slots[f]
      BY DEF TypeOK
    <3> QED
      BY <3>1, SlotsAssumption DEF Period
  <2>5. Overlaps(event[f].slot, event[e].slot)
    BY <2>1, <2>2, <2>3, <2>4 DEF Overlaps, Within
  <2>6. LinesWith(e, "Requested")' = LinesWith(e, "Requested")
    BY DEF LinesWith
  <2>7. f \in Counted(e)
    BY <2>1, <2>5, <2>6 DEF Counted
  <2> QED
    BY <2>2, <2>7 DEF HeldBy, Kept
<1>2. PICK S : S = HeldBy(Counted(e), n)'
  OBVIOUS
<1>3. PICK F : F = Counted(e)
  OBVIOUS
<1>4. S \in SUBSET HeldBy(F, n) /\ F \in SUBSET Events
  BY <1>1, <1>2, <1>3 DEF Counted
<1>5. Cardinality(S) <= Cardinality(HeldBy(F, n)) /\ Cardinality(S) \in Nat
  BY <1>4, Fewer
<1> QED
  BY <1>2, <1>3, <1>5 DEF Taken

LEMMA LoadShrinks ==
  ASSUME TypeOK, TypeOK', NEW t \in Nat, NEW n, \A f \in Events : Keeps(f, n)
  PROVE  Load(n, t)' <= Load(n, t)
<1>1. ASSUME NEW u, u \in HeldBy(At(t), n)'
      PROVE  u \in HeldBy(At(t), n)
  <2>1. PICK f \in Events : u \in Kept(f, n)' /\ event'[f].slot.from <= t
                            /\ t < event'[f].slot.to
    BY <1>1 DEF HeldBy, At, Kept
  <2>2. u \in Kept(f, n) /\ Within(event'[f].slot, event[f].slot)
    BY <2>1 DEF Keeps
  <2>3. event[f].slot.from \in Nat /\ event[f].slot.to \in Nat
    BY SlotFacts
  <2>4. event'[f].slot.from \in Nat /\ event'[f].slot.to \in Nat
    <3>1. event'[f].slot \in Slots[f]
      BY DEF TypeOK
    <3> QED
      BY <3>1, SlotsAssumption DEF Period
  <2>5. f \in At(t)
    BY <2>1, <2>2, <2>3, <2>4 DEF At, Within
  <2> QED
    BY <2>2, <2>5 DEF HeldBy, Kept
<1>2. PICK S : S = HeldBy(At(t), n)'
  OBVIOUS
<1>3. PICK F : F = At(t)
  OBVIOUS
<1>4. S \in SUBSET HeldBy(F, n) /\ F \in SUBSET Events
  BY <1>1, <1>2, <1>3 DEF At
<1>5. Cardinality(S) <= Cardinality(HeldBy(F, n))
  BY <1>4, Fewer
<1> QED
  BY <1>2, <1>3, <1>5 DEF Load

(* A reservation reaches what it counted and what it was asked for, no more.  *)
LEMMA ReserveFits ==
  ASSUME TypeOK, NEW e \in Events, Good(e), Reserve(e), NEW t \in Nat, NEW n \in Wanted(e),
         e \in At(t), desk[e].taken[n] \in Nat, Taken(e, n) <= desk[e].taken[n]
  PROVE  /\ Load(n, t)' <= desk[e].taken[n] + Cardinality(Units(e, Undecided(e), n))
         /\ Load(n, t)' \in Nat
<1>1. \A f \in Events \ {e} : Same(f)
  BY ReserveStep
<1>2. event' = event /\ Kept(e, n)' \subseteq Kept(e, n) \cup Units(e, Undecided(e), n)
  BY ReserveAdds
<1>3. ASSUME NEW f \in At(t) PROVE Overlaps(event[f].slot, event[e].slot)
  <2>1. /\ event[e].slot.from \in Nat /\ event[e].slot.to \in Nat
        /\ event[f].slot.from \in Nat /\ event[f].slot.to \in Nat
    BY SlotFacts DEF At
  <2> QED
    BY <2>1 DEF At, Overlaps
<1>4. ASSUME NEW u, u \in HeldBy(At(t), n)'
      PROVE  u \in HeldBy(Counted(e), n) \cup Units(e, Undecided(e), n)
  <2>1. PICK f \in Events : u \in Kept(f, n)' /\ f \in At(t)
    BY <1>2, <1>4 DEF HeldBy, At, Kept
  <2>2. CASE f # e
    <3>1. Kept(f, n)' = Kept(f, n)
      BY <1>1, <2>2 DEF Same, Kept, Units, LinesWith
    <3>2. f \in Counted(e)
      BY <1>3, <2>1, <2>2 DEF Counted
    <3> QED
      BY <2>1, <3>1, <3>2 DEF HeldBy, Kept
  <2>3. CASE f = e /\ LinesWith(e, "Requested") # {}
    <3>1. e \in Counted(e)
      BY <1>3, <2>3 DEF Counted
    <3>2. u \in Kept(e, n) \/ u \in Units(e, Undecided(e), n)
      BY <1>2, <2>1, <2>3
    <3> QED
      BY <3>1, <3>2 DEF HeldBy, Kept
  <2>4. CASE f = e /\ LinesWith(e, "Requested") = {}
    <3>1. LinesWith(e, "Reserved") \subseteq Undecided(e)
      BY <2>4 DEF Undecided, LinesWith
    <3>2. Kept(e, n) \subseteq Units(e, Undecided(e), n)
      BY <3>1 DEF Kept, Units
    <3> QED
      BY <1>2, <2>1, <2>4, <3>2
  <2> QED
    BY <2>2, <2>3, <2>4
<1>5. PICK S : S = HeldBy(At(t), n)'
  OBVIOUS
<1>6. PICK A : A = HeldBy(Counted(e), n)
  OBVIOUS
<1>7. PICK B : B = Units(e, Undecided(e), n)
  OBVIOUS
<1>8. IsFiniteSet(A) /\ Cardinality(A) \in Nat
  <2>1. Counted(e) \in SUBSET Events
    BY DEF Counted
  <2>2. PICK F \in SUBSET Events : F = Counted(e)
    BY <2>1
  <2>3. IsFiniteSet(HeldBy(F, n)) /\ Cardinality(HeldBy(F, n)) \in Nat
    BY HeldFinite
  <2> QED
    BY <1>6, <2>2, <2>3
<1>9. IsFiniteSet(B) /\ Cardinality(B) \in Nat
  <2>1. Undecided(e) \in SUBSET DOMAIN lines[e]
    BY DEF Undecided, LinesWith
  <2>2. PICK I \in SUBSET DOMAIN lines[e] : I = Undecided(e)
    BY <2>1
  <2>3. IsFiniteSet(Units(e, I, n)) /\ Cardinality(Units(e, I, n)) \in Nat
    BY UnitsFinite
  <2> QED
    BY <1>7, <2>2, <2>3
<1>10. IsFiniteSet(A \cup B) /\ Cardinality(A \cup B) <= Cardinality(A) + Cardinality(B)
       /\ Cardinality(A \cup B) \in Nat
  BY <1>8, <1>9, SumBounds
<1>11. S \subseteq A \cup B
  BY <1>4, <1>5, <1>6, <1>7
<1>12. Cardinality(S) <= Cardinality(A \cup B) /\ Cardinality(S) \in Nat
  BY <1>10, <1>11, FS_Subset, FS_CardinalityType
<1>13. Load(n, t)' = Cardinality(S) /\ Taken(e, n) = Cardinality(A)
  BY <1>5, <1>6 DEF Load, Taken
<1>14. Cardinality(A) <= desk[e].taken[n]
  BY <1>13
<1>15. PICK x \in Nat : x = desk[e].taken[n]
  OBVIOUS
<1>16. Cardinality(S) <= x + Cardinality(B)
  BY <1>8, <1>9, <1>10, <1>12, <1>14, <1>15
<1> QED
  BY <1>7, <1>12, <1>13, <1>15, <1>16

-----------------------------------------------------------------------------
(* What reservations under way have seen *)

LEMMA WantedFacts ==
  ASSUME TypeOK, NEW e \in Events
  PROVE  Wanted(e) \subseteq Names
<1>1. Undecided(e) \subseteq DOMAIN lines[e]
  BY DEF Undecided, LinesWith
<1>2. \A i \in DOMAIN lines[e] : lines[e][i].name \in Names
  BY LineFacts DEF Line
<1> QED
  BY <1>1, <1>2 DEF Wanted

LEMMA TakenType ==
  ASSUME TypeOK, NEW e \in Events, NEW n
  PROVE  Taken(e, n) \in Nat
<1>1. PICK F \in SUBSET Events : F = Counted(e)
  BY DEF Counted
<1>2. Cardinality(HeldBy(F, n)) \in Nat
  BY HeldFinite
<1> QED
  BY <1>1, <1>2 DEF Taken

LEMMA StartFacts ==
  ASSUME TypeOK, NEW e \in Events, ReserveStart(e)
  PROVE  /\ \A n \in Wanted(e) : RowFree(n)
         /\ UNCHANGED <<event, lines>> /\ ~desk[e].busy
         /\ desk'[e].taken = [n \in Names |-> Taken(e, n)]
<1>1. desk' = [desk EXCEPT ![e] = [busy |-> TRUE, taken |-> [n \in Names |-> Taken(e, n)]]]
  BY DEF ReserveStart
<1>2. PICK v : v = [busy |-> TRUE, taken |-> [n \in Names |-> Taken(e, n)]]
  OBVIOUS
<1>3. v.taken = [n \in Names |-> Taken(e, n)]
  BY <1>2
<1>4. desk'[e] = v
  BY <1>1, <1>2, TypeParts
<1> QED
  BY <1>3, <1>4 DEF ReserveStart, Decidable, EventFree

(* Two reservations never want the same equipment at once. *)
LEMMA LocksStep ==
  ASSUME IInv, NEW g \in Events, OfRequest(g) \/ OfEvent(g)
  PROVE  RowsAreLocked'
<1>1. TypeOK /\ Good(g) /\ RowsAreLocked
  BY Parts
<1> SUFFICES ASSUME NEW e \in Events, NEW f \in Events,
                    desk'[e].busy, desk'[f].busy, e # f
             PROVE  (Wanted(e) \cap Wanted(f))' = {}
  BY DEF RowsAreLocked
<1>2. \A h \in Events : lines'[h] = lines[h] => Wanted(h)' = Wanted(h)
  BY DEF Wanted, Undecided, LinesWith
<1>3. ASSUME NEW h \in Events, NEW k \in Events, Stays(h), Stays(k), h # k,
             desk'[h].busy, desk'[k].busy
      PROVE  Wanted(h)' \cap Wanted(k)' = {}
  <2>1. Wanted(h)' = Wanted(h) /\ Wanted(k)' = Wanted(k) /\ desk[h].busy /\ desk[k].busy
    BY <1>2, <1>3 DEF Stays
  <2> QED
    BY <1>1, <1>3, <2>1 DEF RowsAreLocked
<1>4. ASSUME NEW k \in Events, ReserveStart(g), Stays(k), k # g, desk'[k].busy
      PROVE  Wanted(g)' \cap Wanted(k)' = {}
  <2>1. desk[k].busy
    BY <1>4 DEF Stays
  <2>2. lines' = lines /\ \A n \in Wanted(g) : RowFree(n)
    BY <1>1, <1>4, StartFacts
  <2>3. Wanted(g)' = Wanted(g) /\ Wanted(k)' = Wanted(k)
    BY <1>2, <2>2
  <2>4. \A n \in Wanted(g) : n \notin Wanted(k)
    BY <2>1, <2>2 DEF RowFree
  <2> QED
    BY <2>3, <2>4
<1>5. /\ Stays(e) \/ (e = g /\ ReserveStart(g))
      /\ Stays(f) \/ (f = g /\ ReserveStart(g))
  BY <1>1, StaysStep
<1>6. CASE Stays(e) /\ Stays(f)
  BY <1>3, <1>6
<1>7. CASE e = g /\ ReserveStart(g) /\ Stays(f)
  BY <1>4, <1>7
<1>8. CASE f = g /\ ReserveStart(g) /\ Stays(e)
  BY <1>4, <1>8
<1> QED
  BY <1>5, <1>6, <1>7, <1>8

(* Nothing that a reservation under way wants is taken by anybody else. *)
LEMMA SawStep ==
  ASSUME IInv, NEW g \in Events, OfRequest(g) \/ OfEvent(g), TypeOK'
  PROVE  DeskSawEnough'
<1>1. TypeOK /\ Good(g) /\ RowsAreLocked /\ DeskSawEnough
  BY Parts
<1> SUFFICES ASSUME NEW e \in Events, desk'[e].busy
             PROVE  /\ desk'[e].taken \in [Names -> Nat]
                    /\ \A n \in Wanted(e)' : Taken(e, n)' <= desk'[e].taken[n]
  BY DEF DeskSawEnough
<1>2. lines'[e] = lines[e] => Wanted(e)' = Wanted(e)
  BY DEF Wanted, Undecided, LinesWith
<1>3. CASE e = g /\ ReserveStart(g)
  <2>1. event' = event /\ lines' = lines /\ desk'[e].taken = [n \in Names |-> Taken(e, n)]
    BY <1>1, <1>3, StartFacts
  <2>2. \A n : Taken(e, n)' = Taken(e, n)
    BY <2>1 DEF Taken, HeldBy, Counted, Units, LinesWith
  <2>3. \A n \in Names : Taken(e, n) \in Nat
    BY <1>1, TakenType
  <2>4. Wanted(e)' \subseteq Names
    BY <1>1, <1>2, <2>1, WantedFacts
  <2> QED
    BY <2>1, <2>2, <2>3, <2>4
<1>4. CASE Stays(e)
  <2>1. /\ desk[e].busy /\ desk'[e] = desk[e] /\ lines'[e] = lines[e]
        /\ event'[e].slot = event[e].slot
    BY <1>4 DEF Stays
  <2>2. desk[e].taken \in [Names -> Nat] /\ \A n \in Wanted(e) : Taken(e, n) <= desk[e].taken[n]
    BY <1>1, <2>1 DEF DeskSawEnough
  <2> SUFFICES ASSUME NEW n \in Wanted(e) PROVE Taken(e, n)' <= desk[e].taken[n]
    BY <1>2, <2>1, <2>2
  <2>3. \A f \in Events : Keeps(f, n)
    <3>1. CASE ~Reserve(g)
      BY <1>1, <3>1, KeepsStep
    <3>2. CASE Reserve(g)
      <4>1. desk[g].busy /\ desk'[g].busy = FALSE
        BY <1>1, <3>2, TypeParts DEF Reserve, Done
      <4>2. n \notin Wanted(g)
        BY <1>1, <2>1, <4>1 DEF RowsAreLocked
      <4> QED
        BY <1>1, <3>2, <4>2, ReserveElsewhere
    <3> QED
      BY <3>1, <3>2
  <2>4. Taken(e, n)' <= Taken(e, n) /\ Taken(e, n)' \in Nat
    BY <1>1, <2>1, <2>3, CountedShrinks
  <2>5. Taken(e, n) \in Nat /\ n \in Names
    BY <1>1, TakenType, WantedFacts
  <2>6. desk[e].taken[n] \in Nat /\ Taken(e, n) <= desk[e].taken[n]
    BY <2>2, <2>5
  <2> QED
    BY <2>4, <2>5, <2>6
<1> QED
  BY <1>1, <1>3, <1>4, StaysStep

(* What they saw stands on the events, the lines and the desks alone. *)
LEMMA SeenStays ==
  ASSUME DeskSawEnough, RowsAreLocked, UNCHANGED <<event, lines, desk>>
  PROVE  DeskSawEnough' /\ RowsAreLocked'
<1>1. \A e : Wanted(e)' = Wanted(e)
  BY DEF Wanted, Undecided, LinesWith
<1>2. \A e, n : Taken(e, n)' = Taken(e, n)
  BY DEF Taken, HeldBy, Counted, Units, LinesWith
<1> QED
  BY <1>1, <1>2 DEF DeskSawEnough, RowsAreLocked

LEMMA PartsNext ==
  ASSUME TypeOK', DeskSawEnough', RowsAreLocked', \A e \in Events : Good(e)'
  PROVE  IInv'
BY DEF IInv, Good, DeskIsOpen, RequestedIsPending, ConfirmedKeepsItsEquipment,
       SafetyCoversTheEquipment

LEMMA StockStep ==
  ASSUME IInv, NEW n \in Names, UpdateEquipment(n)
  PROVE  IInv'
<1>1. PICK q \in 0 .. MaxStock : stock' = [stock EXCEPT ![n] = q]
  BY DEF UpdateEquipment
<1>2. UNCHANGED <<event, noneNeeded, request, lines, safety, desk>>
  BY DEF UpdateEquipment
<1>3. stock' \in [Names -> 0 .. MaxStock]
  BY <1>1 DEF IInv, TypeOK
<1>4. TypeOK'
  BY <1>2, <1>3 DEF IInv, TypeOK
<1>5. \A f \in Events : Same(f) /\ Good(f)
  BY <1>2, Parts DEF Same
<1>6. \A f \in Events : Good(f)'
  BY <1>5, GoodStays
<1>7. DeskSawEnough' /\ RowsAreLocked'
  BY <1>2, Parts, SeenStays
<1> QED
  BY <1>4, <1>6, <1>7, PartsNext

LEMMA InitIsGood ==
  ASSUME Init
  PROVE  IInv
<1>1. PICK planned \in [Events -> UNION {Slots[e] : e \in Events}] :
        /\ \A e \in Events : planned[e] \in Slots[e]
        /\ event = [e \in Events |-> [status |-> "Planning", slot |-> planned[e]]]
  BY DEF Init
<1>2. \A e \in Events : planned[e] \in Period /\ planned[e] \in Slots[e]
  BY <1>1, SlotsAssumption
<1>3. \A e \in Events : event[e] \in [status : EventStatus, slot : Period]
                        /\ event[e].status = "Planning" /\ event[e].slot = planned[e]
  BY <1>1, <1>2 DEF EventStatus
<1>4. event \in [Events -> [status : EventStatus, slot : Period]]
  BY <1>1, <1>3
<1>5. \A e \in Events : /\ noneNeeded[e] = FALSE /\ request[e] = "none" /\ lines[e] = << >>
                        /\ safety[e] = NoCheck /\ desk[e].busy = FALSE
  BY DEF Init
<1>6. NoCheck \in [state : {"none", "pending", "approved", "answered"}, review : SUBSET Nat]
      /\ NoCheck.state = "none" /\ NoCheck.review = {}
  BY DEF NoCheck
<1>7. << >> \in Seq(Line) /\ DOMAIN << >> = {}
  BY EmptyList
<1>8. TypeOK
  <2>1. /\ stock \in [Names -> 0 .. MaxStock] /\ noneNeeded \in [Events -> BOOLEAN]
        /\ desk = [e \in Events |-> desk[e]]
    BY DEF Init
  <2>2. request \in [Events -> RequestStatus]
    BY DEF Init, RequestStatus
  <2>3. lines \in [Events -> Seq(Line)]
    BY <1>7 DEF Init
  <2>4. safety \in [Events -> [state : {"none", "pending", "approved", "answered"},
                               review : SUBSET Nat]]
    BY <1>6 DEF Init
  <2> QED
    BY <1>2, <1>3, <1>4, <1>5, <1>6, <2>1, <2>2, <2>3, <2>4 DEF TypeOK
<1>9. \A e \in Events : Good(e)
  BY <1>3, <1>5, <1>6, <1>7 DEF Good, LinesWith
<1>10. DeskSawEnough /\ RowsAreLocked
  BY <1>5 DEF DeskSawEnough, RowsAreLocked
<1> QED
  BY <1>8, <1>9, <1>10, Parts

(* The types, and what must hold of every event: any number of reservations,  *)
(* requests, moves and reviews, in any order.                                 *)
THEOREM Invariance == Spec => []IInv
<1>1. Init => IInv
  BY InitIsGood
<1>2. IInv /\ [Next]_vars => IInv'
  <2> SUFFICES ASSUME IInv, [Next]_vars PROVE IInv'
    OBVIOUS
  <2>1. CASE \E n \in Names : UpdateEquipment(n)
    BY <2>1, StockStep
  <2>2. CASE \E e \in Events : OfRequest(e) \/ OfEvent(e)
    <3>1. PICK e \in Events : OfRequest(e) \/ OfEvent(e)
      BY <2>2
    <3>2. TypeOK /\ \A f \in Events : Good(f)
      BY Parts
    <3>3. TypeOK' /\ Good(e)' /\ \A f \in Events \ {e} : Same(f)
      BY <3>1, <3>2, EventStep
    <3>4. \A f \in Events : Good(f)'
      BY <3>2, <3>3, GoodStays
    <3>5. RowsAreLocked' /\ DeskSawEnough'
      BY <3>1, <3>3, LocksStep, SawStep
    <3> QED
      BY <3>3, <3>4, <3>5, PartsNext
  <2>3. CASE UNCHANGED vars
    <3>1. TypeOK'
      BY <2>3 DEF vars, IInv, TypeOK
    <3>2. \A f \in Events : Good(f) /\ Same(f)
      BY <2>3, Parts DEF vars, Same
    <3>3. \A f \in Events : Good(f)'
      BY <3>2, GoodStays
    <3>4. DeskSawEnough' /\ RowsAreLocked'
      BY <2>3, Parts, SeenStays DEF vars
    <3> QED
      BY <3>1, <3>3, <3>4, PartsNext
  <2> QED
    BY <2>1, <2>2, <2>3 DEF Next
<1> QED
  BY <1>1, <1>2, PTL DEF Spec

(* No line waits for a decision outside the queue of Technical Support. *)
THEOREM RequestedIsAlwaysPending == Spec => []RequestedIsPending
BY Invariance, PTL DEF IInv

(* No decision, update or review takes equipment from a confirmed event. *)
THEOREM ConfirmedAlwaysKeepsIt == Spec => []ConfirmedKeepsItsEquipment
BY Invariance, PTL DEF IInv

(* A safety check is never asked for or approved over other equipment than    *)
(* the one in force.                                                          *)
THEOREM SafetyAlwaysCovers == Spec => []SafetyCoversTheEquipment
BY Invariance, PTL DEF IInv

-----------------------------------------------------------------------------
(* No unit is promised twice *)

LEMMA InstantsAreNumbers == Instants \subseteq Nat
BY SlotsAssumption DEF Instants, Period

LEMMA LoadType ==
  ASSUME TypeOK, NEW n, NEW t
  PROVE  Load(n, t) \in Nat
<1>1. PICK F \in SUBSET Events : F = At(t)
  BY DEF At
<1>2. Cardinality(HeldBy(F, n)) \in Nat
  BY HeldFinite
<1> QED
  BY <1>1, <1>2 DEF Load

(* Only a reservation adds to what is held at an instant, and then no more    *)
(* than the inventory has.                                                    *)
LEMMA LoadStep ==
  ASSUME IInv, IInv', [Next]_vars, NEW n \in Names, NEW t \in Nat, Load(n, t)' > stock[n]'
  PROVE  Load(n, t)' <= Load(n, t)
<1>1. TypeOK /\ TypeOK' /\ DeskSawEnough /\ \A e \in Events : Good(e)
  BY Parts DEF IInv
<1>2. CASE \A f \in Events : Keeps(f, n)
  BY <1>1, <1>2, LoadShrinks
<1>3. CASE \E m \in Names : UpdateEquipment(m)
  <2>1. event' = event /\ lines' = lines
    BY <1>3 DEF UpdateEquipment
  <2>2. \A f \in Events : Keeps(f, n)
    BY <1>1, <2>1, SameKeeps
  <2> QED
    BY <1>2, <2>2
<1>4. CASE UNCHANGED vars
  <2>1. event' = event /\ lines' = lines
    BY <1>4 DEF vars
  <2>2. \A f \in Events : Keeps(f, n)
    BY <1>1, <2>1, SameKeeps
  <2> QED
    BY <1>2, <2>2
<1>5. ASSUME NEW e \in Events, OfRequest(e) \/ OfEvent(e)
      PROVE  Load(n, t)' <= Load(n, t)
  <2>1. CASE ~Reserve(e)
    BY <1>1, <1>2, <1>5, <2>1, KeepsStep
  <2>2. CASE Reserve(e) /\ n \notin Wanted(e)
    BY <1>1, <1>2, <2>2, ReserveElsewhere
  <2>3. CASE Reserve(e) /\ n \in Wanted(e) /\ e \in At(t)
    <3>1. /\ desk[e].busy /\ stock' = stock
          /\ desk[e].taken[n] + Cardinality(Units(e, Undecided(e), n)) <= stock[n]
      BY <2>3 DEF Reserve, Done
    <3>2. desk[e].taken[n] \in Nat /\ Taken(e, n) <= desk[e].taken[n]
      BY <1>1, <2>3, <3>1 DEF DeskSawEnough
    <3>3. /\ Load(n, t)' <= desk[e].taken[n] + Cardinality(Units(e, Undecided(e), n))
          /\ Load(n, t)' \in Nat
      BY <1>1, <2>3, <3>2, ReserveFits
    <3>4. Cardinality(Units(e, Undecided(e), n)) \in Nat
      <4>1. PICK I \in SUBSET DOMAIN lines[e] : I = Undecided(e)
        BY DEF Undecided, LinesWith
      <4>2. Cardinality(Units(e, I, n)) \in Nat
        BY <1>1, UnitsFinite
      <4> QED
        BY <4>1, <4>2
    <3>5. stock[n] \in Nat
      BY <1>1, StockAssumption DEF TypeOK
    <3> QED
      BY <3>1, <3>2, <3>3, <3>4, <3>5
  <2>4. CASE Reserve(e) /\ e \notin At(t)
    <3>1. event' = event /\ \A f \in Events \ {e} : Same(f)
      BY <1>1, <2>4, ReserveStep DEF Reserve
    <3>2. At(t)' = At(t)
      BY <3>1 DEF At
    <3>3. \A f \in At(t) : Units(f, LinesWith(f, "Reserved"), n)' = Units(f, LinesWith(f, "Reserved"), n)
      BY <2>4, <3>1 DEF At, Same, Units, LinesWith
    <3>4. HeldBy(At(t), n)' = HeldBy(At(t), n)
      BY <3>2, <3>3 DEF HeldBy
    <3>5. Load(n, t)' = Load(n, t) /\ Load(n, t) \in Nat
      BY <1>1, <3>4, LoadType DEF Load
    <3> QED
      BY <3>5
  <2> QED
    BY <2>1, <2>2, <2>3, <2>4
<1> QED
  BY <1>3, <1>4, <1>5 DEF Next

(* The units held for an instant never grow beyond the stock: not by two      *)
(* reservations at once, nor by a move or a review in between.                *)
THEOREM StockIsNeverOverdrawn == Spec => StockNeverOverdrawn
<1>1. IInv /\ IInv' /\ [Next]_vars =>
        [\A n \in Names, t \in Instants :
           Load(n, t)' > stock[n]' => Load(n, t)' <= Load(n, t)]_vars
  BY LoadStep, InstantsAreNumbers
<1> QED
  BY <1>1, Invariance, PTL DEF Spec, StockNeverOverdrawn
=============================================================================
