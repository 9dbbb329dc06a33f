------------------------- MODULE EventChanges_proofs -------------------------
(***************************************************************************)
(* Proofs about EventChanges, for any bookings and bounds: the inductive   *)
(* invariant IInv and what follows from it, and that the details of a      *)
(* Confirmed event change only on its way back to Planning.                *)
(***************************************************************************)
EXTENDS EventChanges, SequenceTheorems, TLAPS

Request == [status : RequestStatus, patch : Patch]

-----------------------------------------------------------------------------
(* Details, flags and requests *)

(* The merged details are details. *)
LEMMA MergedType ==
  ASSUME TypeOK, NEW patch \in Patch
  PROVE  /\ Merged(patch) \in Details
         /\ \A f \in Changed(patch) : patch[f] \in Times /\ Merged(patch)[f] = patch[f]
BY BoundsAssumption DEF TypeOK, Merged, Changed, Patch, Details, Times, Fields

(* A flagged change of fields whose value differs is one. *)
LEMMA FlaggingType ==
  ASSUME TypeOK, NEW patch \in Patch, NEW affected \in Affected
  PROVE  Flagging(Changed(patch), patch, affected) \in [Fields -> Flag \cup {NoFlag}]
<1>1. [b \in affected |-> "open"] \in Impacts
  <2>1. affected \in SUBSET Bookings
    BY AffectedAssumption
  <2> QED
    BY <2>1 DEF Impacts
<1>2. \A f \in Changed(patch) : details[f] \in Times /\ patch[f] \in Times
  BY MergedType DEF TypeOK, Details, Changed
<1>3. flags \in [Fields -> Flag \cup {NoFlag}]
  BY DEF TypeOK
<1> QED
  BY <1>1, <1>2, <1>3 DEF Flagging, Flag

(* A chain of rows that ends in a value may be continued from it. *)
LEMMA ChainGrows ==
  ASSUME NEW rows \in Seq(Row), NEW row \in Row,
         \A i \in 2 .. Len(rows) : rows[i].from = rows[i - 1].to,
         rows # << >> => rows[Len(rows)].to = row.from
  PROVE  LET longer == Append(rows, row)
         IN  /\ longer \in Seq(Row) /\ longer # << >>
             /\ \A i \in 2 .. Len(longer) : longer[i].from = longer[i - 1].to
             /\ longer[Len(longer)] = row
<1> DEFINE longer == Append(rows, row)
<1>1. /\ longer \in Seq(Row) /\ longer # << >> /\ Len(longer) = Len(rows) + 1
      /\ \A i \in 1 .. Len(rows) : longer[i] = rows[i]
      /\ longer[Len(rows) + 1] = row /\ Len(rows) \in Nat
      /\ rows = << >> <=> Len(rows) = 0
  BY AppendProperties
<1> HIDE DEF longer
<1>2. ASSUME NEW i \in 2 .. Len(longer)
      PROVE  longer[i].from = longer[i - 1].to
  <2>1. i - 1 \in 1 .. Len(rows) /\ longer[i - 1] = rows[i - 1]
    BY <1>1
  <2>2. CASE i = Len(rows) + 1
    BY <1>1, <2>1, <2>2
  <2>3. CASE i \in 2 .. Len(rows)
    BY <1>1, <2>1, <2>3
  <2> QED
    BY <1>1, <2>2, <2>3
<1> QED
  BY <1>1, <1>2 DEF longer

(* The history grows by a row of each field. *)
LEMMA RecordedType ==
  ASSUME TypeOK, NEW S \in SUBSET Fields, NEW from \in Details, NEW to \in Details
  PROVE  Recorded(S, from, to) \in [Fields -> Seq(Row)]
<1>1. \A f \in Fields : [from |-> from[f], to |-> to[f]] \in Row
  BY DEF Details, Row
<1>2. history \in [Fields -> Seq(Row)]
  BY DEF TypeOK
<1>3. \A f \in Fields : Append(history[f], [from |-> from[f], to |-> to[f]]) \in Seq(Row)
  BY <1>1, <1>2, AppendProperties
<1> QED
  BY <1>1, <1>2, <1>3 DEF Recorded

(* Requests are numbered from 1. *)
LEMMA RequestFacts ==
  ASSUME TypeOK
  PROVE  /\ requests \in Seq(Request) /\ Len(requests) \in Nat
         /\ DOMAIN requests = 1 .. Len(requests)
         /\ \A i \in DOMAIN requests : requests[i] \in Request
                                       /\ requests[i].status \in RequestStatus
                                       /\ requests[i].patch \in Patch
<1>1. requests \in Seq(Request)
  BY DEF TypeOK, Request
<1>2. DOMAIN requests = 1 .. Len(requests) /\ Len(requests) \in Nat
  BY <1>1
<1>3. \A i \in DOMAIN requests : requests[i] \in Request
  BY <1>1, <1>2, ElementOfSeq
<1>4. \A r \in Request : r.status \in RequestStatus /\ r.patch \in Patch
  BY DEF Request
<1> QED
  BY <1>1, <1>2, <1>3, <1>4

(* A function on the numbers of the requests is a sequence as long as they. *)
LEMMA RequestsType ==
  ASSUME TypeOK, NEW new \in [DOMAIN requests -> Request]
  PROVE  new \in Seq(Request) /\ Len(new) = Len(requests) /\ DOMAIN new = DOMAIN requests
<1>1. DOMAIN requests = 1 .. Len(requests) /\ Len(requests) \in Nat
  BY RequestFacts
<1>2. new \in [1 .. Len(requests) -> Request]
  BY <1>1
<1>3. new \in Seq(Request)
  BY <1>1, <1>2
<1> QED
  BY <1>1, <1>2, <1>3

-----------------------------------------------------------------------------
(* The three kinds of step that write details, and the closing of requests *)

(* A change that applies to fields of which none awaits review leaves the     *)
(* schedule in order and the history a chain.                                 *)
LEMMA AppliedAtOnce ==
  ASSUME IInv, NEW patch \in Patch, Ordered(Merged(patch)),
         Changed(patch) \cap Flagged = {},
         details' = Merged(patch),
         history' = Recorded(Changed(patch), details, Merged(patch)),
         flags' = flags
  PROVE  /\ details' \in Details /\ history' \in [Fields -> Seq(Row)]
         /\ ScheduleInOrder' /\ HistoryIsAChain'
<1>1. /\ details \in Details /\ Merged(patch) \in Details
      /\ Changed(patch) \in SUBSET Fields /\ TypeOK
      /\ history \in [Fields -> Seq(Row)]
  BY MergedType DEF IInv, TypeOK, Changed
<1>2. /\ history' \in [Fields -> Seq(Row)]
      /\ \A f \in Changed(patch) :
           history'[f] = Append(history[f], [from |-> details[f], to |-> details'[f]])
      /\ \A f \in Fields \ Changed(patch) : history'[f] = history[f] /\ details'[f] = details[f]
      /\ \A f \in Fields : [from |-> details[f], to |-> details'[f]] \in Row
  <2>1. \A f \in Fields \ Changed(patch) : Merged(patch)[f] = details[f]
    BY DEF Changed
  <2>2. history' \in [Fields -> Seq(Row)]
    BY <1>1, RecordedType
  <2>3. /\ \A f \in Changed(patch) :
             history'[f] = Append(history[f], [from |-> details[f], to |-> Merged(patch)[f]])
        /\ \A f \in Fields \ Changed(patch) : history'[f] = history[f]
    BY <1>1 DEF Recorded
  <2>4. \A f \in Fields : [from |-> details[f], to |-> Merged(patch)[f]] \in Row
    BY <1>1 DEF Details, Row
  <2> QED
    BY <2>1, <2>2, <2>3, <2>4
<1>3. ScheduleInOrder'
  BY DEF ScheduleInOrder, Ordered
<1>4. ASSUME NEW f \in Fields
      PROVE  /\ \A i \in 2 .. Len(history'[f]) : history'[f][i].from = history'[f][i - 1].to
             /\ history'[f] # << >> => history'[f][Len(history'[f])].to = details'[f]
             /\ flags'[f].pending => flags'[f].from = details'[f]
  <2>1. CASE f \in Changed(patch)
    <3>1. /\ history[f] \in Seq(Row)
          /\ \A i \in 2 .. Len(history[f]) : history[f][i].from = history[f][i - 1].to
          /\ history[f] # << >> => history[f][Len(history[f])].to = details[f]
      BY <1>1 DEF IInv, HistoryIsAChain
    <3>2. ~flags[f].pending
      BY <2>1 DEF Flagged
    <3> DEFINE row == [from |-> details[f], to |-> details'[f]]
    <3>3. row \in Row /\ row.from = details[f] /\ row.to = details'[f]
          /\ history'[f] = Append(history[f], row)
      BY <1>2, <2>1
    <3> DEFINE old == history[f]
    <3>4. /\ old \in Seq(Row) /\ history'[f] = Append(old, row)
          /\ \A i \in 2 .. Len(old) : old[i].from = old[i - 1].to
          /\ old # << >> => old[Len(old)].to = row.from
      BY <3>1, <3>3
    <3> HIDE DEF row, old
    <3>5. /\ history'[f] # << >>
          /\ \A i \in 2 .. Len(history'[f]) : history'[f][i].from = history'[f][i - 1].to
          /\ history'[f][Len(history'[f])] = row
      BY <3>3, <3>4, ChainGrows
    <3> QED
      BY <3>2, <3>3, <3>5
  <2>2. CASE f \notin Changed(patch)
    BY <1>2, <2>2 DEF IInv, HistoryIsAChain
  <2> QED
    BY <2>1, <2>2
<1> QED
  BY <1>1, <1>2, <1>3, <1>4 DEF HistoryIsAChain

(* What the history and the schedule say: the parts of IInv about details. *)
Told == ScheduleInOrder /\ HistoryIsAChain

(* A review that ends applies its field, which continues the history because  *)
(* nothing else has changed the field meanwhile, or leaves it alone.          *)
LEMMA ReviewCloses ==
  ASSUME IInv, NEW f \in Fields, NEW outcome \in Decision, flags[f].pending,
         Close(f, outcome)
  PROVE  /\ details' \in Details /\ history' \in [Fields -> Seq(Row)]
         /\ flags' \in [Fields -> Flag \cup {NoFlag}] /\ Told'
<1>1. /\ TypeOK /\ details \in Details /\ history \in [Fields -> Seq(Row)]
      /\ flags \in [Fields -> Flag \cup {NoFlag}] /\ ScheduleInOrder /\ HistoryIsAChain
  BY DEF IInv, TypeOK
<1>2. flags[f] \in Flag /\ flags[f].from = details[f] /\ flags[f].to \in Times
  <2>1. flags[f] \in Flag
    <3>1. ~NoFlag.pending
      BY DEF NoFlag
    <3> QED
      BY <1>1, <3>1
  <2>2. flags[f].from = details[f]
    BY <1>1 DEF HistoryIsAChain
  <2> QED
    BY <2>1, <2>2 DEF Flag
<1>3. /\ flags' \in [Fields -> Flag \cup {NoFlag}]
      /\ ~flags'[f].pending /\ \A g \in Fields \ {f} : flags'[g] = flags[g]
  BY <1>1 DEF Close, NoFlag
<1>4. CASE outcome # "Applied"
  <2>1. details' = details /\ history' = history
    BY <1>4 DEF Close
  <2> QED
    BY <1>1, <1>3, <2>1 DEF Told, ScheduleInOrder, HistoryIsAChain
<1>5. CASE outcome = "Applied"
  <2> DEFINE row == [from |-> flags[f].from, to |-> flags[f].to]
             old == history[f]
  <2>1. /\ row \in Row /\ row.from = details[f] /\ row.to = flags[f].to
    BY <1>1, <1>2 DEF Row, Details
  <2>2. /\ details' = [details EXCEPT ![f] = flags[f].to] /\ Ordered(details')
        /\ history' = [history EXCEPT ![f] = Append(old, row)]
    BY <1>5 DEF Close, Applied
  <2>3. /\ old \in Seq(Row)
        /\ \A i \in 2 .. Len(old) : old[i].from = old[i - 1].to
        /\ old # << >> => old[Len(old)].to = row.from
    BY <1>1, <2>1 DEF HistoryIsAChain
  <2> HIDE DEF row, old
  <2>4. /\ history'[f] = Append(old, row) /\ details'[f] = row.to
        /\ \A g \in Fields \ {f} : history'[g] = history[g] /\ details'[g] = details[g]
    BY <1>1, <2>1, <2>2 DEF Details
  <2>5. /\ history'[f] \in Seq(Row) /\ history'[f] # << >>
        /\ \A i \in 2 .. Len(history'[f]) : history'[f][i].from = history'[f][i - 1].to
        /\ history'[f][Len(history'[f])] = row
    BY <2>1, <2>3, <2>4, ChainGrows
  <2>6. history' \in [Fields -> Seq(Row)]
    BY <1>1, <2>2, <2>4, <2>5
  <2>7. details' \in Details
    BY <1>1, <1>2, <2>2 DEF Details
  <2>8. HistoryIsAChain'
    <3>1. ASSUME NEW g \in Fields \ {f}
          PROVE  /\ \A i \in 2 .. Len(history'[g]) : history'[g][i].from = history'[g][i - 1].to
                 /\ history'[g] # << >> => history'[g][Len(history'[g])].to = details'[g]
                 /\ flags'[g].pending => flags'[g].from = details'[g]
      BY <1>1, <1>3, <2>4 DEF HistoryIsAChain
    <3> QED
      BY <1>3, <2>4, <2>5, <3>1 DEF HistoryIsAChain
  <2> QED
    BY <1>3, <2>2, <2>6, <2>7, <2>8 DEF Told, ScheduleInOrder
<1> QED
  BY <1>4, <1>5

(* Whatever happens to the details, the schedule stays in order and the       *)
(* history a chain.                                                           *)
LEMMA DetailsStep ==
  IInv /\ Next => /\ details' \in Details /\ history' \in [Fields -> Seq(Row)]
                  /\ flags' \in [Fields -> Flag \cup {NoFlag}] /\ Told'
<1> SUFFICES ASSUME IInv, Next
             PROVE  /\ details' \in Details /\ history' \in [Fields -> Seq(Row)]
                    /\ flags' \in [Fields -> Flag \cup {NoFlag}] /\ Told'
  OBVIOUS
<1>0. /\ TypeOK /\ details \in Details /\ history \in [Fields -> Seq(Row)]
      /\ flags \in [Fields -> Flag \cup {NoFlag}] /\ ScheduleInOrder /\ HistoryIsAChain
      /\ requests \in Seq(Request)
  BY DEF IInv, TypeOK, Request
<1>1. CASE \E patch \in Patch : UpdateNow(patch)
  BY <1>0, <1>1, AppliedAtOnce DEF UpdateNow, MayUpdate, Told
<1>2. CASE \E patch \in Patch, affected \in Affected : UpdateLater(patch, affected)
  <2> PICK patch \in Patch, affected \in Affected : UpdateLater(patch, affected)
    BY <1>2
  <2>1. /\ details' = details /\ history' = history
        /\ flags' = Flagging(Changed(patch), patch, affected)
    BY DEF UpdateLater
  <2>2. flags' \in [Fields -> Flag \cup {NoFlag}]
    BY <1>0, <2>1, FlaggingType
  <2>3. \A f \in Fields : flags'[f].pending => flags'[f].from = details[f]
    BY <1>0, <2>1 DEF Flagging, HistoryIsAChain
  <2>4. HistoryIsAChain'
    BY <1>0, <2>1, <2>3 DEF HistoryIsAChain
  <2> QED
    BY <1>0, <2>1, <2>2, <2>4 DEF Told, ScheduleInOrder
<1>3. CASE \E f \in Fields, d \in Decision : ResolveChange(f, d)
  BY <1>3, ReviewCloses DEF ResolveChange, MayResolve
<1>4. CASE \E f \in Fields, b \in Bookings, d \in Decision : ResolveBooking(f, b, d)
  <2> PICK f \in Fields, b \in Bookings, d \in Decision : ResolveBooking(f, b, d)
    BY <1>4
  <2>1. flags[f].pending
    BY DEF ResolveBooking, MayResolve
  <2> DEFINE decided == [flags[f].impacts EXCEPT ![b] = d]
  <2>2. CASE \E outcome \in Decision : Close(f, outcome)
    BY <2>1, <2>2, ReviewCloses
  <2>3. CASE /\ flags' = [flags EXCEPT ![f].impacts = decided]
             /\ details' = details /\ history' = history
    <3>1. flags[f] \in Flag
      <4>1. ~NoFlag.pending
        BY DEF NoFlag
      <4> QED
        BY <1>0, <2>1, <4>1
    <3>2. flags[f].impacts \in Impacts
      BY <3>1 DEF Flag
    <3>3. decided \in Impacts
      <4>1. PICK S \in SUBSET Bookings : flags[f].impacts \in [S -> Decision \cup {"open"}]
        BY <3>2 DEF Impacts
      <4>2. decided \in [S -> Decision \cup {"open"}]
        BY <4>1
      <4> QED
        BY <4>2 DEF Impacts
    <3> HIDE DEF decided
    <3>4. [flags[f] EXCEPT !.impacts = decided] \in Flag
      BY <3>1, <3>3 DEF Flag
    <3>5. /\ [flags[f] EXCEPT !.impacts = decided].from = flags[f].from
          /\ [flags[f] EXCEPT !.impacts = decided].pending = flags[f].pending
      BY <3>1 DEF Flag
    <3>6. flags' = [flags EXCEPT ![f] = [flags[f] EXCEPT !.impacts = decided]]
      BY <1>0, <2>3
    <3>7. /\ flags' \in [Fields -> Flag \cup {NoFlag}]
          /\ \A g \in Fields : flags'[g].pending = flags[g].pending
                               /\ (flags[g].pending => flags'[g].from = flags[g].from)
      BY <1>0, <3>4, <3>5, <3>6
    <3> QED
      BY <1>0, <2>3, <3>7 DEF Told, ScheduleInOrder, HistoryIsAChain
  <2> QED
    BY <2>2, <2>3 DEF ResolveBooking, Decision
<1>5. CASE \E i \in DOMAIN requests : ApproveRequest(i)
  <2> PICK i \in DOMAIN requests : ApproveRequest(i)
    BY <1>5
  <2> DEFINE patch == requests[i].patch
  <2>1. patch \in Patch
    BY <1>0, RequestFacts
  <2>2. /\ Ordered(Merged(patch)) /\ details' = Merged(patch)
        /\ history' = Recorded(Changed(patch), details, Merged(patch)) /\ flags' = flags
    BY DEF ApproveRequest, ApplyRequest
  <2>3. Changed(patch) \cap Flagged = {}
    <3>1. Changed(patch) \subseteq {f \in Fields : patch[f] # 0}
      BY DEF Changed, Merged
    <3> QED
      BY <3>1 DEF ApproveRequest, NotInReview
  <2> QED
    BY <1>0, <2>1, <2>2, <2>3, AppliedAtOnce DEF Told
<1>6. CASE /\ details' = details /\ history' = history /\ flags' = flags
  BY <1>0, <1>6 DEF Told, ScheduleInOrder, HistoryIsAChain
<1> QED
  BY <1>1, <1>2, <1>3, <1>4, <1>5, <1>6
     DEF Next, Assign, Review, StartPlanning, Confirm, Complete, RequestChange, Withdraw,
         DenyRequest, CancelEvent, CancelInside, RequestCancellation, AcceptCancellation,
         DeclineCancellation, Tick

-----------------------------------------------------------------------------
(* The requests and their ends *)

Ends == /\ requests \in Seq(Request) /\ Len(requests) <= MaxRequests
        /\ audit \subseteq (1 .. MaxRequests) \X (RequestStatus \ {"Pending"})
        /\ audit = {<<i, requests[i].status>> : i \in DOMAIN requests \ Pending}

(* A decision ends a pending request, once. *)
LEMMA Decides ==
  ASSUME TypeOK, Ends, NEW i \in Pending, NEW outcome \in RequestStatus \ {"Pending"},
         DecideRequest(i, outcome)
  PROVE  Ends' /\ Pending' = Pending \ {i}
<1>1. /\ i \in DOMAIN requests /\ requests[i] \in Request /\ requests[i].status = "Pending"
      /\ DOMAIN requests = 1 .. Len(requests) /\ Len(requests) \in Nat
      /\ \A k \in DOMAIN requests : requests[k] \in Request
  BY RequestFacts DEF Pending
<1> DEFINE r == [requests[i] EXCEPT !.status = outcome]
<1>2. r \in Request /\ r.status = outcome
  BY <1>1 DEF Request
<1>3. requests' = [requests EXCEPT ![i] = r] /\ audit' = audit \cup {<<i, outcome>>}
  BY <1>1 DEF DecideRequest
<1> HIDE DEF r
<1>4. /\ requests' \in [DOMAIN requests -> Request] /\ requests'[i].status = outcome
      /\ \A k \in DOMAIN requests \ {i} : requests'[k] = requests[k]
  <2>1. requests \in [DOMAIN requests -> Request]
    BY <1>1, RequestFacts
  <2> QED
    BY <1>1, <1>2, <1>3, <2>1
<1>5. /\ requests' \in Seq(Request) /\ Len(requests') = Len(requests)
      /\ DOMAIN requests' = DOMAIN requests
  BY <1>4, RequestsType
<1>6. Pending' = Pending \ {i}
  BY <1>1, <1>4, <1>5 DEF Pending
<1>7. audit' = {<<k, requests'[k].status>> : k \in DOMAIN requests' \ Pending'}
  <2>1. DOMAIN requests' \ Pending' = (DOMAIN requests \ Pending) \cup {i}
    BY <1>1, <1>5, <1>6
  <2>2. \A k \in DOMAIN requests \ Pending : requests'[k].status = requests[k].status
    BY <1>4 DEF Pending
  <2> QED
    BY <1>3, <1>4, <2>1, <2>2 DEF Ends
<1>8. i \in 1 .. MaxRequests
  BY <1>1, BoundsAssumption DEF Ends
<1> QED
  BY <1>3, <1>5, <1>6, <1>7, <1>8 DEF Ends

(* The cancellation ends whatever is pending, and leaves nothing to decide. *)
LEMMA CancellationEnds ==
  ASSUME TypeOK, Ends, CancelInside
  PROVE  Ends' /\ Pending' = {}
<1>1. /\ DOMAIN requests = 1 .. Len(requests) /\ Len(requests) \in Nat
      /\ \A k \in DOMAIN requests : requests[k] \in Request
      /\ Pending \subseteq DOMAIN requests
  BY RequestFacts DEF Pending
<1>2. \A k \in DOMAIN requests : /\ [requests[k] EXCEPT !.status = "Closed"] \in Request
                                 /\ [requests[k] EXCEPT !.status = "Closed"].status = "Closed"
  BY <1>1 DEF Request, RequestStatus
<1>3. /\ requests' = [k \in DOMAIN requests |->
                        IF k \in Pending THEN [requests[k] EXCEPT !.status = "Closed"]
                        ELSE requests[k]]
      /\ audit' = audit \cup (Pending \X {"Closed"})
  BY DEF CancelInside
<1>4. /\ requests' \in [DOMAIN requests -> Request]
      /\ \A k \in Pending : requests'[k].status = "Closed"
      /\ \A k \in DOMAIN requests \ Pending : requests'[k] = requests[k]
  BY <1>1, <1>2, <1>3
<1>5. /\ requests' \in Seq(Request) /\ Len(requests') = Len(requests)
      /\ DOMAIN requests' = DOMAIN requests
  BY <1>4, RequestsType
<1>6. Pending' = {}
  <2>1. \A k \in DOMAIN requests : requests'[k].status # "Pending"
    BY <1>4 DEF Pending
  <2> QED
    BY <1>5, <2>1 DEF Pending
<1>7. audit' = {<<k, requests'[k].status>> : k \in DOMAIN requests' \ Pending'}
  <2>1. DOMAIN requests' \ Pending' = (DOMAIN requests \ Pending) \cup Pending
    BY <1>1, <1>5, <1>6
  <2> QED
    BY <1>3, <1>4, <2>1 DEF Ends
<1>8. audit' \subseteq (1 .. MaxRequests) \X (RequestStatus \ {"Pending"})
  BY <1>1, <1>3, BoundsAssumption DEF Ends, RequestStatus
<1> QED
  BY <1>5, <1>6, <1>7, <1>8 DEF Ends

(* Every request ends once, and none outlives its event's cancellation.       *)
LEMMA EndsStep ==
  TypeOK /\ Ends /\ Next /\ (status = "Cancelled" => Pending = {})
  => Ends' /\ (status' = "Cancelled" => Pending' = {})
<1> SUFFICES ASSUME TypeOK, Ends, Next, status = "Cancelled" => Pending = {}
             PROVE  Ends' /\ (status' = "Cancelled" => Pending' = {})
  OBVIOUS
<1>1. CASE \E patch \in Patch : RequestChange(patch)
  <2> PICK patch \in Patch : RequestChange(patch)
    BY <1>1
  <2> DEFINE r == [status |-> "Pending",
                   patch  |-> [f \in Fields |-> IF f \in Changed(patch) THEN patch[f] ELSE 0]]
  <2>1. r \in Request /\ r.status = "Pending"
    <3>1. [f \in Fields |-> IF f \in Changed(patch) THEN patch[f] ELSE 0] \in Patch
      BY BoundsAssumption DEF Patch
    <3> QED
      BY <3>1 DEF Request, RequestStatus
  <2>2. /\ requests' = Append(requests, r) /\ audit' = audit /\ Pending = {}
        /\ Len(requests) < MaxRequests /\ status' = status /\ status \in Open
    BY DEF RequestChange
  <2> HIDE DEF r
  <2>3. /\ requests' \in Seq(Request) /\ Len(requests') = Len(requests) + 1
        /\ \A i \in 1 .. Len(requests) : requests'[i] = requests[i]
        /\ requests'[Len(requests) + 1] = r
        /\ DOMAIN requests = 1 .. Len(requests) /\ Len(requests) \in Nat
        /\ DOMAIN requests' = 1 .. (Len(requests) + 1)
    <3>1. DOMAIN requests = 1 .. Len(requests) /\ Len(requests) \in Nat
          /\ requests \in Seq(Request)
      BY RequestFacts
    <3>2. /\ requests' \in Seq(Request) /\ Len(requests') = Len(requests) + 1
          /\ \A i \in 1 .. Len(requests) : requests'[i] = requests[i]
          /\ requests'[Len(requests) + 1] = r
      BY <2>1, <2>2, <3>1, AppendProperties
    <3> QED
      BY <3>1, <3>2
  <2>4. Pending' = {Len(requests) + 1}
    BY <2>1, <2>2, <2>3 DEF Pending
  <2>5. audit' = {<<i, requests'[i].status>> : i \in DOMAIN requests' \ Pending'}
    <3>1. DOMAIN requests' \ Pending' = DOMAIN requests \ Pending
      BY <2>2, <2>3, <2>4
    <3> QED
      BY <2>2, <2>3, <3>1 DEF Ends
  <2>6. Len(requests') <= MaxRequests
    BY <2>2, <2>3, BoundsAssumption
  <2> QED
    BY <2>2, <2>3, <2>5, <2>6 DEF Ends, Open
<1>2. CASE \E i \in DOMAIN requests : Withdraw(i) \/ ApproveRequest(i) \/ DenyRequest(i)
  <2> PICK i \in DOMAIN requests : Withdraw(i) \/ ApproveRequest(i) \/ DenyRequest(i)
    BY <1>2
  <2>1. i \in Pending
    BY DEF Withdraw, ApproveRequest, ApplyRequest, DenyRequest
  <2>2. \E outcome \in RequestStatus \ {"Pending"} : DecideRequest(i, outcome)
    BY DEF Withdraw, ApproveRequest, ApplyRequest, DenyRequest, RequestStatus
  <2>3. status # "Cancelled" /\ status' # "Cancelled"
    BY <2>1 DEF Withdraw, ApproveRequest, ApplyRequest, BackToPlanning, DenyRequest
  <2> QED
    BY <2>1, <2>2, <2>3, Decides
<1>3. CASE CancelEvent \/ (\E i \in DOMAIN cancels : AcceptCancellation(i))
  BY <1>3, CancellationEnds DEF CancelEvent, AcceptCancellation
<1>4. CASE requests' = requests /\ audit' = audit /\ (status' = "Cancelled" => status = "Cancelled")
  BY <1>4 DEF Ends, Pending
<1> QED
  BY <1>1, <1>2, <1>3, <1>4
     DEF Next, Assign, Review, StartPlanning, Confirm, Complete, UpdateNow, UpdateLater,
         ResolveChange, ResolveBooking, Close, RequestCancellation, DeclineCancellation, Tick

(* What a cancellation request, the clock, the status and the coordinator say. *)
Accepted == \A i \in DOMAIN cancels : cancels[i] = "accepted" => status = "Cancelled"

LEMMA CancelsStep ==
  TypeOK /\ Accepted /\ Next => cancels' \in Seq(CancelStatus) /\ Accepted'
<1> SUFFICES ASSUME TypeOK, Accepted, Next
             PROVE  cancels' \in Seq(CancelStatus) /\ Accepted'
  OBVIOUS
<1>0. /\ cancels \in Seq(CancelStatus) /\ DOMAIN cancels = 1 .. Len(cancels)
      /\ Len(cancels) \in Nat
  BY DEF TypeOK
<1>1. CASE RequestCancellation
  <2>1. /\ cancels' = Append(cancels, "pending") /\ status' = status
        /\ "pending" \in CancelStatus
    BY <1>1 DEF RequestCancellation, CancelStatus
  <2>2. /\ cancels' \in Seq(CancelStatus) /\ Len(cancels') = Len(cancels) + 1
        /\ \A i \in 1 .. Len(cancels) : cancels'[i] = cancels[i]
        /\ cancels'[Len(cancels) + 1] = "pending"
    BY <1>0, <2>1, AppendProperties
  <2>3. DOMAIN cancels' = 1 .. (Len(cancels) + 1)
    BY <2>2
  <2> QED
    BY <1>0, <2>1, <2>2, <2>3 DEF Accepted
<1>2. CASE \E i \in DOMAIN cancels : AcceptCancellation(i)
  <2> PICK i \in DOMAIN cancels : AcceptCancellation(i)
    BY <1>2
  <2>1. cancels' = [cancels EXCEPT ![i] = "accepted"] /\ status' = "Cancelled"
    BY DEF AcceptCancellation, CancelInside
  <2>2. cancels' \in Seq(CancelStatus)
    BY <1>0, <2>1, ExceptSeq DEF CancelStatus
  <2> QED
    BY <2>1, <2>2 DEF Accepted
<1>3. CASE \E i \in DOMAIN cancels : DeclineCancellation(i)
  <2> PICK i \in DOMAIN cancels : DeclineCancellation(i)
    BY <1>3
  <2>1. cancels' = [cancels EXCEPT ![i] = "declined"] /\ status' = status
    BY DEF DeclineCancellation
  <2>2. cancels' \in Seq(CancelStatus)
    BY <1>0, <2>1, ExceptSeq DEF CancelStatus
  <2> QED
    BY <2>1, <2>2 DEF Accepted
<1>4. CASE cancels' = cancels /\ (status = "Cancelled" => status' = "Cancelled")
  BY <1>0, <1>4 DEF Accepted
<1> QED
  BY <1>1, <1>2, <1>3, <1>4
     DEF Next, Assign, Review, StartPlanning, Confirm, Complete, UpdateNow, MayUpdate,
         UpdateLater, ResolveChange, ResolveBooking, Close, RequestChange, Withdraw,
         ApproveRequest, ApplyRequest, BackToPlanning, DenyRequest, CancelEvent, CancelInside,
         Tick

LEMMA RestStep ==
  TypeOK /\ Next => now' \in 0 .. MaxTime /\ status' \in EventStatus /\ assigned' \in BOOLEAN
<1> SUFFICES ASSUME TypeOK, Next
             PROVE  now' \in 0 .. MaxTime /\ status' \in EventStatus /\ assigned' \in BOOLEAN
  OBVIOUS
<1>0. now \in 0 .. MaxTime /\ status \in EventStatus /\ assigned \in BOOLEAN
  BY DEF TypeOK
<1>1. CASE Tick
  BY <1>0, <1>1, BoundsAssumption DEF Tick
<1>2. CASE Assign \/ (\E d \in {"Approved", "Rejected"} : Review(d)) \/ StartPlanning
           \/ Confirm \/ Complete
  BY <1>0, <1>2 DEF EventStatus, Assign, Review, StartPlanning, Confirm, Complete
<1>3. CASE CancelEvent \/ (\E i \in DOMAIN cancels : AcceptCancellation(i))
  BY <1>0, <1>3 DEF EventStatus, CancelEvent, AcceptCancellation, CancelInside
<1>4. CASE \E i \in DOMAIN requests : ApproveRequest(i)
  BY <1>0, <1>4 DEF EventStatus, ApproveRequest, ApplyRequest, BackToPlanning
<1>5. CASE now' = now /\ status' = status /\ assigned' = assigned
  BY <1>0, <1>5
<1> QED
  BY <1>1, <1>2, <1>3, <1>4, <1>5
     DEF Next, UpdateNow, UpdateLater, ResolveChange, ResolveBooking, Close, RequestChange,
         Withdraw, DenyRequest, RequestCancellation, DeclineCancellation

-----------------------------------------------------------------------------
(* The theorems *)

LEMMA Parts == IInv <=> /\ TypeOK /\ Told /\ Ends /\ Accepted
                        /\ (status = "Cancelled" => Pending = {})
BY DEF IInv, TypeOK, Told, Ends, Accepted, RequestsEndOnce, Request

(* The inductive invariant holds for any bookings and bounds.                 *)
THEOREM Invariance == Spec => []IInv
<1>1. Init => IInv
  <2> SUFFICES ASSUME Init PROVE IInv
    OBVIOUS
  <2>1. /\ requests = << >> /\ cancels = << >> /\ audit = {} /\ history = [f \in Fields |-> << >>]
        /\ flags = [f \in Fields |-> NoFlag] /\ now = 0 /\ assigned = FALSE /\ status = "Submitted"
        /\ details \in Details /\ Ordered(details)
    BY DEF Init, Ordered
  <2>2. TypeOK
    <3>1. 0 \in 0 .. MaxTime
      BY BoundsAssumption
    <3>2. /\ flags \in [Fields -> Flag \cup {NoFlag}] /\ history \in [Fields -> Seq(Row)]
      BY <2>1, EmptySeq
    <3>3. /\ requests \in Seq([status : RequestStatus, patch : Patch])
          /\ cancels \in Seq(CancelStatus)
      BY <2>1, EmptySeq
    <3> QED
      BY <2>1, <3>1, <3>2, <3>3 DEF TypeOK, EventStatus
  <2>3. HistoryIsAChain
    BY <2>1 DEF HistoryIsAChain, NoFlag
  <2>4. Len(requests) <= MaxRequests /\ RequestsEndOnce
    BY <2>1, BoundsAssumption DEF RequestsEndOnce, Pending
  <2> QED
    BY <2>1, <2>2, <2>3, <2>4 DEF IInv, ScheduleInOrder
<1>2. IInv /\ [Next]_vars => IInv'
  <2>1. IInv /\ Next => IInv'
    <3> SUFFICES ASSUME IInv, Next PROVE IInv'
      OBVIOUS
    <3>1. /\ details' \in Details /\ history' \in [Fields -> Seq(Row)]
          /\ flags' \in [Fields -> Flag \cup {NoFlag}] /\ Told'
      BY DetailsStep
    <3>2. Ends' /\ (status' = "Cancelled" => Pending' = {})
      BY Parts, EndsStep
    <3>3. cancels' \in Seq(CancelStatus) /\ Accepted'
      BY Parts, CancelsStep
    <3>4. TypeOK'
      BY <3>1, <3>2, <3>3, RestStep DEF IInv, TypeOK, Ends, Request
    <3> QED
      BY <3>1, <3>2, <3>3, <3>4 DEF IInv, Told, Ends, Accepted, RequestsEndOnce
  <2>2. IInv /\ UNCHANGED vars => IInv'
    BY DEF IInv, TypeOK, ScheduleInOrder, HistoryIsAChain, RequestsEndOnce, Pending, vars
  <2> QED
    BY <2>1, <2>2
<1> QED
  BY <1>1, <1>2, PTL DEF Spec

(* No order of decisions makes the event end before it starts.                *)
THEOREM ScheduleAlwaysInOrder == Spec => []ScheduleInOrder
<1>1. IInv => ScheduleInOrder
  BY DEF IInv
<1> QED
  BY <1>1, Invariance, PTL

(* The change history of each field is one chain that ends in its value.      *)
THEOREM HistoryIsAlwaysAChain == Spec => []HistoryIsAChain
<1>1. IInv => HistoryIsAChain
  BY DEF IInv
<1> QED
  BY <1>1, Invariance, PTL

(* Every request ends once, and none is left on a cancelled event.            *)
THEOREM RequestsAlwaysEndOnce == Spec => []RequestsEndOnce
<1>1. IInv => RequestsEndOnce
  BY DEF IInv
<1> QED
  BY <1>1, Invariance, PTL

(* The details of a Confirmed event change only on its way back to Planning.  *)
THEOREM ConfirmedDetailsAlwaysStand == Spec => ConfirmedDetailsStand
<1> DEFINE Step == status = "Confirmed" /\ details' # details => status' = "Planning"
<1>1. [Next]_vars => [Step]_vars
  <2> SUFFICES ASSUME Next, status = "Confirmed", details' # details
               PROVE  status' = "Planning"
    OBVIOUS
  <2>1. \E i \in DOMAIN requests : ApproveRequest(i)
    BY DEF Next, Assign, Review, StartPlanning, Confirm, Complete, UpdateNow, MayUpdate,
       Editable, UpdateLater, ResolveChange, ResolveBooking, MayResolve, RequestChange, Withdraw,
       DenyRequest, CancelEvent, CancelInside, RequestCancellation, AcceptCancellation,
       DeclineCancellation, Tick
  <2> QED
    BY <2>1 DEF ApproveRequest, BackToPlanning
<1> QED
  BY <1>1, PTL DEF Spec, ConfirmedDetailsStand
=============================================================================
