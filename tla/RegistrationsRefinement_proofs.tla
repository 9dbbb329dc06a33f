-------------------- MODULE RegistrationsRefinement_proofs --------------------
(***************************************************************************)
(* The proof that Registrations implements PlaceQueue, for any attendees,  *)
(* handlers, settings and bounds: under the invariant IInv every handler   *)
(* is one step of the queue, or none.                                      *)
(***************************************************************************)
EXTENDS RegistrationsRefinement, Registrations_proofs

-----------------------------------------------------------------------------
(* The order of the list *)

(* The queue counts as the registrations do. *)
LEMMA SameCount ==
  ASSUME NEW S
  PROVE  Places!Cardinality(S) = Cardinality(S)
BY DEF Places!Cardinality, Cardinality

LEMMA OrderFacts ==
  ASSUME NEW r
  PROVE  DOMAIN InOrder(r) = Waiting(r)
         /\ \A a \in Waiting(r) : InOrder(r)[a] = {b \in Waiting(r) : Before(r, b, a)}
BY DEF InOrder

LEMMA NobodyInOrder ==
  ASSUME NEW r, Waiting(r) = {}
  PROVE  InOrder(r) = Places!Empty
BY DEF InOrder, Places!Empty

(* Who leaves the list leaves it in order. *)
LEMMA LeavesInOrder ==
  ASSUME NEW r, NEW r2, NEW S, Waiting(r2) = Waiting(r) \ S,
         \A a \in Waiting(r2) : r2[a] = r[a]
  PROVE  InOrder(r2) = Places!Without(InOrder(r), S)
<1>1. \A a, b \in Waiting(r2) : Before(r2, b, a) <=> Before(r, b, a)
  BY DEF Before
<1>2. \A a \in Waiting(r) \ S : InOrder(r)[a] \ S = {b \in Waiting(r2) : Before(r2, b, a)}
  BY <1>1, OrderFacts
<1>3. DOMAIN InOrder(r) \ S = Waiting(r2)
  BY OrderFacts
<1>4. Places!Without(InOrder(r), S) = [a \in Waiting(r2) |-> InOrder(r)[a] \ S]
  BY <1>3 DEF Places!Without
<1> QED
  BY <1>2, <1>4 DEF InOrder

(* Settling removes the whole list or nothing. *)
LEMMA SettledInOrder ==
  ASSUME NEW r \in Rows, NEW e, NEW now
  PROVE  InOrder(SettleLocked(r, e, now)) \in {InOrder(r), Places!Empty}
<1>1. Waiting(SettleLocked(r, e, now)) = {} \/ SettleLocked(r, e, now) = r
  BY SettleFacts
<1> QED
  BY <1>1, NobodyInOrder

(* Of two entries one is before the other, by its number and its time. *)
LEMMA TotalOrder ==
  ASSUME NEW r \in Rows, NEW n, NEW t, Orderly(r, n, t),
         NEW a \in Waiting(r), NEW b \in Waiting(r)
  PROVE  /\ ~(Before(r, a, b) /\ Before(r, b, a))
         /\ a # b => Before(r, a, b) \/ Before(r, b, a)
<1>1. /\ r[a].joinedAt \in Int /\ r[a].seq \in Int /\ r[b].joinedAt \in Int /\ r[b].seq \in Int
  BY BoundsAssumption DEF Rows, RegRow, Waiting, InStatus, Time
<1>2. /\ a # b => r[a].seq # r[b].seq
      /\ r[a].seq < r[b].seq => r[a].joinedAt <= r[b].joinedAt
      /\ r[b].seq < r[a].seq => r[b].joinedAt <= r[a].joinedAt
  BY DEF Orderly
<1> QED
  BY <1>1, <1>2 DEF Before

-----------------------------------------------------------------------------
(* Promotion *)

(* The earliest entries, as many as there are free places, are the entries     *)
(* with fewer in front than there are free places.                             *)
LEMMA EarliestAreServed ==
  ASSUME NEW r \in Rows, NEW n, NEW t, Orderly(r, n, t), NEW e, e.capacity \in Nat,
         NEW P \in Earliest(r, Promotable(r, e))
  PROVE  P = {a \in Waiting(r) : Cardinality(InOrder(r)[a]) < e.capacity - Taken(r)}
<1>1. PICK k : k = Promotable(r, e)
  OBVIOUS
<1>2. P \subseteq Waiting(r) /\ Cardinality(P) = k
      /\ \A a \in P, b \in Waiting(r) \ P : Before(r, a, b)
  BY <1>1 DEF Earliest
<1>3. /\ IsFiniteSet(Waiting(r)) /\ Cardinality(Waiting(r)) \in Nat /\ Taken(r) \in Nat
  BY StatusFinite DEF Waiting, Registered, Taken
<1>4. IsFiniteSet(P) /\ Cardinality(P) \in Nat /\ (Cardinality(P) = Cardinality(Waiting(r)) => P = Waiting(r))
  BY <1>2, <1>3, FS_Subset, FS_CardinalityType
<1>5. k \in Nat /\ k <= Cardinality(Waiting(r))
      /\ (k # 0 => k <= e.capacity - Taken(r))
      /\ (k < Cardinality(Waiting(r)) => k >= e.capacity - Taken(r))
  BY <1>1, <1>3 DEF Promotable
<1>6. ASSUME NEW a \in P
      PROVE  Cardinality(InOrder(r)[a]) < e.capacity - Taken(r)
  <2>1. InOrder(r)[a] \subseteq P \ {a}
    <3> SUFFICES ASSUME NEW b \in Waiting(r), Before(r, b, a) PROVE b \in P \ {a}
      BY <1>2, OrderFacts
    <3>1. b # a
      BY <1>2, TotalOrder
    <3>2. b \in P
      BY <1>2, TotalOrder
    <3> QED
      BY <3>1, <3>2
  <2>2. IsFiniteSet(P \ {a}) /\ Cardinality(P \ {a}) = k - 1
    BY <1>2, <1>4, FS_RemoveElement
  <2>3. Cardinality(InOrder(r)[a]) <= k - 1 /\ Cardinality(InOrder(r)[a]) \in Nat
    BY <2>1, <2>2, FS_Subset, FS_CardinalityType
  <2>4. k # 0
    BY <1>2, <1>4, FS_EmptySet
  <2> QED
    BY <1>3, <1>5, <2>3, <2>4
<1>7. ASSUME NEW a \in Waiting(r) \ P
      PROVE  ~(Cardinality(InOrder(r)[a]) < e.capacity - Taken(r))
  <2>1. P \subseteq InOrder(r)[a]
    BY <1>2, OrderFacts
  <2>2. InOrder(r)[a] \subseteq Waiting(r)
    BY OrderFacts
  <2>3. IsFiniteSet(InOrder(r)[a])
    BY <1>3, <2>2, FS_Subset
  <2>4. k <= Cardinality(InOrder(r)[a]) /\ Cardinality(InOrder(r)[a]) \in Nat
    BY <1>2, <2>1, <2>3, FS_Subset, FS_CardinalityType
  <2>5. k < Cardinality(Waiting(r))
    BY <1>2, <1>3, <1>4, <1>5
  <2> QED
    BY <1>3, <1>5, <2>4, <2>5
<1> QED
  BY <1>2, <1>6, <1>7

Served(q, c, taken) == {a \in DOMAIN q : Cardinality(q[a]) < c - taken}

(* fillFreeSpots serves the list, or what its close has left of it. *)
LEMMA FillServes ==
  ASSUME NEW r \in Rows, NEW n, NEW t, Orderly(r, n, t), n \in Nat, t \in Nat,
         NEW e, e.capacity \in Nat, NEW now, NEW r2 \in FillFreeSpots(r, e, now)
  PROVE  \E q \in {InOrder(r), Places!Empty} :
           /\ Registered(r2) = Registered(r) \cup Served(q, e.capacity, Taken(r))
           /\ InOrder(r2) = Places!Without(q, Served(q, e.capacity, Taken(r)))
<1>1. PICK s : s = SettleLocked(r, e, now)
  OBVIOUS
<1>2. s \in Rows /\ Registered(s) = Registered(r) /\ Taken(s) = Taken(r) /\ Quiet(r, s)
  BY <1>1, SettleFacts DEF Taken
<1>3. Orderly(s, n, t)
  BY <1>2, QuietKeepsOrder
<1>4. InOrder(s) \in {InOrder(r), Places!Empty}
  BY <1>1, SettledInOrder
<1>5. PICK P \in Earliest(s, Promotable(s, e)) :
        r2 = [a \in Attendees |-> IF a \in P THEN Row("Registered") ELSE s[a]]
  BY <1>1 DEF FillFreeSpots
<1>6. P = {a \in Waiting(s) : Cardinality(InOrder(s)[a]) < e.capacity - Taken(s)}
  BY <1>2, <1>3, EarliestAreServed
<1>7. P = Served(InOrder(s), e.capacity, Taken(r))
  BY <1>2, <1>6, OrderFacts DEF Served
<1>8. Row("Registered").status = "Registered"
  BY RowType DEF RowStatus
<1>9. /\ Registered(r2) = Registered(s) \cup P
      /\ Waiting(r2) = Waiting(s) \ P
      /\ \A a \in Waiting(r2) : r2[a] = s[a]
  BY <1>5, <1>6, <1>8 DEF Registered, Waiting, InStatus
<1>10. InOrder(r2) = Places!Without(InOrder(s), P)
  BY <1>9, LeavesInOrder
<1> QED
  BY <1>2, <1>4, <1>7, <1>9, <1>10

(* What serves the list is a Serve of the queue. *)
LEMMA ServeFacts ==
  ASSUME NEW H, NEW q, NEW c, event'.capacity = c,
         Registered(regs)' = H \cup Served(q, c, Cardinality(H)),
         InOrder(regs)' = Places!Without(q, Served(q, c, Cardinality(H)))
  PROVE  Places!Serve(H, q, c)
<1>1. Served(q, c, Cardinality(H))
        = {p \in DOMAIN q : Places!Cardinality(q[p]) < c - Places!Cardinality(H)}
  BY SameCount DEF Served
<1> QED
  BY <1>1 DEF Places!Serve

-----------------------------------------------------------------------------
(* One handler, one step of the queue or none *)

LEMMA InvariantFacts ==
  ASSUME IInv
  PROVE  /\ regs \in Rows /\ Sound(regs, event) /\ Orderly(regs, nextSeq, clock)
         /\ nextSeq \in Nat /\ clock \in Nat /\ clock \in Int /\ event.capacity \in Nat \ {0}
         /\ event.closes \in Time \cup {NoTime} /\ event \in EventRow
BY IInvParts, BoundsAssumption DEF TypeOK, Rows, EventRow, Time

(* Handlers that write no row and no limit. *)
LEMMA StaysPut ==
  ASSUME regs' = regs, event'.capacity = event.capacity
  PROVE  UNCHANGED Places!vars
BY DEF Places!vars, InOrder

LEMMA LifeIsSilent ==
  ASSUME IInv,
         \/ Tick \/ Confirm \/ Complete
         \/ \E s \in Starts : Reschedule(s)
         \/ \E c \in Coordinators : Reassign(c)
  PROVE  UNCHANGED Places!vars
<1>1. event \in EventRow
  BY InvariantFacts
<1>2. regs' = regs /\ event'.capacity = event.capacity
  BY <1>1 DEF Tick, Confirm, Complete, Reschedule, Reassign, EventRow
<1> QED
  BY <1>2, StaysPut

LEMMA ReadsAreSilent ==
  ASSUME NEW h \in Handlers,
         \/ \E a \in Attendees : WithdrawRead(h, a)
         \/ FindMineRead(h) \/ SettingsRead(h) \/ CancelRead(h)
         \/ WithdrawTooLate(h) \/ SaveRefused(h) \/ CancelRefused(h) \/ Abort(h)
  PROVE  UNCHANGED Places!vars
<1>1. regs' = regs /\ event' = event
  BY DEF WithdrawRead, FindMineRead, SettingsRead, CancelRead, WithdrawTooLate, SaveRefused,
         CancelRefused, Abort
<1> QED
  BY <1>1, StaysPut

LEMMA RegisterTakes ==
  ASSUME IInv, NEW a \in Attendees, Register(a)
  PROVE  Places!Take(a)
<1>1. /\ regs' = [regs EXCEPT ![a] = Row("Registered")] /\ event' = event
      /\ regs[a].status \in {"None", "Withdrawn", "Removed"}
      /\ Taken(regs) < event.capacity
  BY DEF Register
<1>2. regs \in Rows /\ Sound(regs, event) /\ event.capacity \in Nat
  BY InvariantFacts
<1>3. Waiting(regs) = {}
  <2>1. Taken(regs) \in Nat
    BY StatusFinite DEF Taken, Registered
  <2> QED
    BY <1>1, <1>2, <2>1 DEF Sound
<1>4. Row("Registered").status = "Registered"
  BY RowType DEF RowStatus
<1>5. PICK r2 : r2 = regs'
  OBVIOUS
<1>6. Registered(r2) = Registered(regs) \cup {a} /\ Waiting(r2) = {} /\ a \notin Registered(regs)
  BY <1>1, <1>2, <1>3, <1>4, <1>5 DEF Rows, Registered, Waiting, InStatus
<1>7. InOrder(regs) = Places!Empty /\ InOrder(r2) = Places!Empty
  BY <1>3, <1>6, NobodyInOrder
<1>8. Places!Cardinality(Registered(regs)) < event.capacity
  BY <1>1, SameCount DEF Taken
<1>9. /\ InOrder(regs)' = InOrder(regs) /\ event'.capacity = event.capacity
      /\ Registered(regs)' = Registered(regs) \cup {a}
  BY <1>1, <1>5, <1>6, <1>7
<1> QED
  BY <1>6, <1>7, <1>8, <1>9 DEF Places!Take

(* The number and the time of a join put it behind everybody. *)
LEMMA JoinEnqueues ==
  ASSUME IInv, NEW a \in Attendees, JoinWaitlist(a)
  PROVE  Places!Enqueue(a)
<1>1. /\ regs \in Rows /\ Sound(regs, event) /\ Orderly(regs, nextSeq, clock)
      /\ nextSeq \in Nat /\ clock \in Nat /\ clock \in Int /\ event.capacity \in Nat
      /\ event.closes \in Time \cup {NoTime}
  BY InvariantFacts
<1>2. SettleLocked(regs, event, clock) = regs
  BY <1>1, OpenIsNotDue DEF JoinWaitlist
<1>3. PICK entry : entry = [status |-> "Waitlisted", joinedAt |-> clock, seq |-> nextSeq]
  OBVIOUS
<1>4. /\ regs' = [regs EXCEPT ![a] = entry] /\ event' = event
      /\ regs[a].status \in {"None", "Withdrawn", "Removed", "Cancelled"}
      /\ Taken(regs) >= event.capacity
  BY <1>2, <1>3 DEF JoinWaitlist
<1>5. PICK r2 : r2 = regs'
  OBVIOUS
<1>6. r2[a] = entry /\ \A b \in Attendees \ {a} : r2[b] = regs[b]
  BY <1>1, <1>4, <1>5 DEF Rows
<1>7. /\ Registered(r2) = Registered(regs) /\ Waiting(r2) = Waiting(regs) \cup {a}
      /\ a \notin Registered(regs) \cup Waiting(regs)
  BY <1>3, <1>4, <1>6 DEF Registered, Waiting, InStatus
<1>8. \A b \in Waiting(regs) : /\ regs[b].joinedAt \in Int /\ regs[b].seq \in Int
                              /\ regs[b].seq < nextSeq /\ regs[b].joinedAt <= clock
  BY <1>1, BoundsAssumption DEF Rows, RegRow, Waiting, InStatus, Time, Orderly
<1>9. \A b \in Waiting(regs) : r2[b] = regs[b]
  BY <1>6, <1>7 DEF Waiting, InStatus
<1>10. \A b \in Waiting(regs) : Before(r2, b, a) /\ ~Before(r2, a, b)
  BY <1>1, <1>3, <1>6, <1>8, <1>9 DEF Before
<1>11. ~Before(r2, a, a)
  BY <1>1, <1>3, <1>6 DEF Before
<1>12. \A b, c \in Waiting(regs) : Before(r2, b, c) <=> Before(regs, b, c)
  BY <1>9 DEF Before
<1>13. InOrder(r2)[a] = Waiting(regs)
  BY <1>7, <1>10, <1>11, OrderFacts
<1>14. \A b \in Waiting(regs) : InOrder(r2)[b] = InOrder(regs)[b]
  BY <1>7, <1>10, <1>12, OrderFacts
<1>15. InOrder(r2) = [x \in DOMAIN InOrder(regs) \cup {a} |->
                        IF x = a THEN DOMAIN InOrder(regs) ELSE InOrder(regs)[x]]
  <2>1. DOMAIN InOrder(regs) \cup {a} = Waiting(r2) /\ DOMAIN InOrder(regs) = Waiting(regs)
    BY <1>7, OrderFacts
  <2>2. InOrder(r2) = [x \in Waiting(r2) |-> InOrder(r2)[x]]
    BY DEF InOrder
  <2>3. \A x \in Waiting(r2) : InOrder(r2)[x] = IF x = a THEN Waiting(regs) ELSE InOrder(regs)[x]
    BY <1>7, <1>13, <1>14
  <2> QED
    BY <2>1, <2>2, <2>3
<1>16. Cardinality(Registered(regs)) = event.capacity
  <2>1. Taken(regs) \in Nat
    BY StatusFinite DEF Taken, Registered
  <2> QED
    BY <1>1, <1>4, <2>1 DEF Sound, Taken
<1>17. /\ a \notin Registered(regs) \cup DOMAIN InOrder(regs)
       /\ Places!Cardinality(Registered(regs)) = event.capacity
  BY <1>7, <1>16, OrderFacts, SameCount
<1>18. /\ Registered(regs)' = Registered(regs) /\ event'.capacity = event.capacity
       /\ InOrder(regs)' = InOrder(r2)
  BY <1>4, <1>5, <1>7
<1> QED
  BY <1>15, <1>17, <1>18 DEF Places!Enqueue

(* A list that is settled is closed, or stands. *)
LEMMA SettleCloses ==
  ASSUME IInv, NEW now, regs' \in {regs, SettleLocked(regs, event, now)}, event' = event
  PROVE  Places!Close \/ UNCHANGED Places!vars
<1>1. CASE regs' = regs
  BY <1>1, StaysPut
<1>2. CASE regs' = SettleLocked(regs, event, now)
  <2>1. regs \in Rows
    BY InvariantFacts
  <2>2. PICK s : s = SettleLocked(regs, event, now)
    OBVIOUS
  <2>3. Registered(s) = Registered(regs) /\ InOrder(s) \in {InOrder(regs), Places!Empty}
    BY <2>1, <2>2, SettleFacts, SettledInOrder
  <2> QED
    BY <1>2, <2>2, <2>3 DEF Places!Close, Places!vars
<1> QED
  BY <1>1, <1>2

(* Whoever withdraws from the list leaves the others in their order. *)
LEMMA WithdrawLeaves ==
  ASSUME IInv, NEW h \in Handlers, LeaveWaitlist(h)
  PROVE  Places!Leave(req[h].who)
<1>1. PICK a \in Attendees, d \in Rows : a = req[h].who /\ d = Decided(req[h])
  BY DecidedTruly DEF LeaveWaitlist
<1>2. /\ regs' = [d EXCEPT ![a] = Row("Withdrawn")] /\ d[a].status = "Waitlisted"
      /\ event' = event
  BY <1>1 DEF LeaveWaitlist
<1>3. d = regs
  <2>1. regs[a].status = "Waitlisted" /\ regs \in Rows
    BY <1>1, <1>2, DecidedTruly, InvariantFacts DEF LeaveWaitlist
  <2>2. d \in {regs, SettleLocked(regs, event, req[h].now)}
    BY <1>1 DEF Decided
  <2>3. a \in Waiting(d)
    BY <1>2 DEF Waiting, InStatus
  <2> QED
    BY <2>1, <2>2, <2>3, SettleFacts
<1>4. PICK r2 : r2 = [regs EXCEPT ![a] = Row("Withdrawn")]
  OBVIOUS
<1>5. /\ Registered(r2) = Registered(regs) \ {a} /\ Waiting(r2) = Waiting(regs) \ {a}
      /\ Quiet(regs, r2)
  BY <1>1, <1>3, <1>4, WithdrawnFacts
<1>6. a \in Waiting(regs) /\ a \notin Registered(regs)
  BY <1>2, <1>3 DEF Waiting, Registered, InStatus
<1>7. InOrder(r2) = Places!Without(InOrder(regs), {a})
  BY <1>5, LeavesInOrder DEF Quiet
<1>8. regs' = r2
  BY <1>2, <1>3, <1>4
<1>9. /\ Registered(regs)' = Registered(regs) /\ event'.capacity = event.capacity
      /\ InOrder(regs)' = InOrder(r2)
  BY <1>2, <1>5, <1>6, <1>8
<1>10. a \in DOMAIN InOrder(regs)
  BY <1>6, OrderFacts
<1> QED
  BY <1>1, <1>7, <1>9, <1>10 DEF Places!Leave

(* A place that is given up goes to the head of the list. *)
LEMMA WithdrawReleases ==
  ASSUME IInv, NEW h \in Handlers, ReleasePlace(h)
  PROVE  Places!Release(req[h].who)
<1>1. PICK a \in Attendees, d \in Rows : a = req[h].who /\ d = Decided(req[h])
  BY DecidedTruly DEF ReleasePlace
<1>2. /\ regs \in Rows /\ Orderly(regs, nextSeq, clock) /\ nextSeq \in Nat /\ clock \in Nat
      /\ event.capacity \in Nat /\ d[a].status = "Registered" /\ event' = event
  BY <1>1, InvariantFacts DEF ReleasePlace
<1>3. d = regs /\ regs[a].status = "Registered"
  <2>1. regs[a].status = "Registered"
    BY <1>1, <1>2, DecidedTruly DEF ReleasePlace
  <2> QED
    BY <1>1, <2>1 DEF Decided
<1>4. PICK w : w = [regs EXCEPT ![a] = Row("Withdrawn")]
  OBVIOUS
<1>5. /\ w \in Rows /\ Quiet(regs, w)
      /\ Registered(w) = Registered(regs) \ {a} /\ Waiting(w) = Waiting(regs) \ {a}
  BY <1>2, <1>4, WithdrawnFacts
<1>6. a \in Registered(regs) /\ Waiting(w) = Waiting(regs)
  BY <1>3, <1>5 DEF Registered, Waiting, InStatus
<1>7. InOrder(w) = InOrder(regs)
  <2>1. \A b \in Waiting(regs) : w[b] = regs[b]
    BY <1>5, <1>6 DEF Quiet
  <2> QED
    BY <1>6, <2>1 DEF InOrder, Before
<1>8. PICK r2 \in FillFreeSpots(w, event, req[h].now) : r2 = regs'
  BY <1>1, <1>3, <1>4 DEF ReleasePlace
<1>9. Orderly(w, nextSeq, clock)
  BY <1>2, <1>5, QuietKeepsOrder
<1>10. PICK q \in {InOrder(w), Places!Empty} :
         /\ Registered(r2) = Registered(w) \cup Served(q, event.capacity, Taken(w))
         /\ InOrder(r2) = Places!Without(q, Served(q, event.capacity, Taken(w)))
  BY <1>2, <1>5, <1>9, FillServes
<1>11. Places!Serve(Registered(regs) \ {a}, q, event.capacity)
  <2>1. PICK H : H = Registered(regs) \ {a}
    OBVIOUS
  <2>2. /\ Registered(regs)' = H \cup Served(q, event.capacity, Cardinality(H))
        /\ InOrder(regs)' = Places!Without(q, Served(q, event.capacity, Cardinality(H)))
    BY <1>5, <1>8, <1>10, <2>1 DEF Taken
  <2> QED
    BY <1>2, <2>1, <2>2, ServeFacts
<1> QED
  BY <1>1, <1>6, <1>7, <1>10, <1>11 DEF Places!Release

(* Settings that are saved resize the event and serve the list if there is     *)
(* room: without more room nobody waits beside a free place already.           *)
LEMMA SaveResizes ==
  ASSUME IInv, NEW h \in Handlers, SaveSettings(h)
  PROVE  Places!Resize
<1>1. /\ regs \in Rows /\ Sound(regs, event) /\ Orderly(regs, nextSeq, clock)
      /\ nextSeq \in Nat /\ clock \in Nat /\ event.capacity \in Nat /\ event \in EventRow
  BY InvariantFacts
<1>2. PICK p, old, new, settled :
        /\ p \in Patches
        /\ old = SettleLocked(regs, event, clock) /\ new = Patched(event, p)
        /\ settled = SettleLocked(old, new, clock)
        /\ ValidSettings(new, p, Taken(old))
        /\ event' = [new EXCEPT !.version = @ + 1]
        /\ IF new.capacity > event.capacity
           THEN regs' \in FillFreeSpots(settled, new, clock)
           ELSE regs' = settled
  BY DEF SaveSettings
<1>3. new \in EventRow /\ new.capacity >= Taken(old)
  BY <1>2, PatchedType DEF IInv
<1>4. event'.capacity = new.capacity /\ new.capacity \in Nat \ {0}
  BY <1>2, <1>3, BoundsAssumption DEF EventRow
<1>5. /\ old \in Rows /\ settled \in Rows /\ Quiet(regs, settled)
      /\ Registered(settled) = Registered(regs) /\ Registered(old) = Registered(regs)
      /\ Waiting(settled) = {} \/ settled = regs
  <2>1. /\ old \in Rows /\ Registered(old) = Registered(regs) /\ Quiet(regs, old)
        /\ Waiting(old) = {} \/ old = regs
    BY <1>1, <1>2, SettleFacts
  <2>2. /\ settled \in Rows /\ Registered(settled) = Registered(old) /\ Quiet(old, settled)
        /\ Waiting(settled) = {} \/ settled = old
    BY <1>2, <2>1, SettleFacts
  <2> QED
    BY <2>1, <2>2, Compose
<1>6. Taken(settled) = Taken(regs) /\ Taken(old) = Taken(regs) /\ Taken(regs) \in Nat
  BY <1>5, StatusFinite DEF Taken, Registered
<1>7. InOrder(settled) \in {InOrder(regs), Places!Empty}
  BY <1>5, NobodyInOrder
<1>8. PICK r2 : r2 = regs'
  OBVIOUS
<1>9. \E q \in {InOrder(regs), Places!Empty} :
        /\ Registered(r2) = Registered(regs) \cup Served(q, new.capacity, Taken(regs))
        /\ InOrder(r2) = Places!Without(q, Served(q, new.capacity, Taken(regs)))
  <2>1. CASE new.capacity > event.capacity
    <3>1. r2 \in FillFreeSpots(settled, new, clock)
      BY <1>2, <1>8, <2>1
    <3>2. Orderly(settled, nextSeq, clock)
      BY <1>1, <1>5, QuietKeepsOrder
    <3>3. PICK q \in {InOrder(settled), Places!Empty} :
            /\ Registered(r2) = Registered(settled) \cup Served(q, new.capacity, Taken(settled))
            /\ InOrder(r2) = Places!Without(q, Served(q, new.capacity, Taken(settled)))
      BY <1>1, <1>4, <1>5, <3>1, <3>2, FillServes
    <3> QED
      BY <1>5, <1>6, <1>7, <3>3
  <2>2. CASE ~(new.capacity > event.capacity)
    <3>1. r2 = settled
      BY <1>2, <1>8, <2>2
    <3>2. Served(InOrder(settled), new.capacity, Taken(regs)) = {}
      <4> SUFFICES ASSUME NEW a \in Waiting(settled)
                   PROVE  ~(Cardinality(InOrder(settled)[a]) < new.capacity - Taken(regs))
        BY OrderFacts DEF Served
      <4>1. Taken(regs) >= event.capacity
        BY <1>1, <1>5 DEF Sound
      <4>2. InOrder(settled)[a] \subseteq Waiting(settled) /\ IsFiniteSet(Waiting(settled))
        BY OrderFacts, StatusFinite DEF Waiting
      <4>3. Cardinality(InOrder(settled)[a]) \in Nat
        BY <4>2, FS_Subset, FS_CardinalityType
      <4> QED
        BY <1>1, <1>4, <1>6, <2>2, <4>1, <4>3
    <3>3. InOrder(settled) = Places!Without(InOrder(settled), {})
      BY LeavesInOrder
    <3> QED
      BY <1>5, <1>7, <3>1, <3>2, <3>3
  <2> QED
    BY <2>1, <2>2
<1>10. PICK q \in {InOrder(regs), Places!Empty} :
         /\ Registered(r2) = Registered(regs) \cup Served(q, new.capacity, Taken(regs))
         /\ InOrder(r2) = Places!Without(q, Served(q, new.capacity, Taken(regs)))
  BY <1>9
<1>11. Places!Serve(Registered(regs), q, event'.capacity)
  <2>1. PICK H, c : H = Registered(regs) /\ c = event'.capacity
    OBVIOUS
  <2>2. /\ Registered(regs)' = H \cup Served(q, c, Cardinality(H))
        /\ InOrder(regs)' = Places!Without(q, Served(q, c, Cardinality(H)))
    BY <1>4, <1>8, <1>10, <2>1 DEF Taken
  <2> QED
    BY <2>1, <2>2, ServeFacts
<1>12. event'.capacity >= Cardinality(Registered(regs))
  BY <1>3, <1>4, <1>6 DEF Taken
<1>13. event'.capacity \in Nat \ {0}
       /\ event'.capacity >= Places!Cardinality(Registered(regs))
  BY <1>4, <1>12, SameCount
<1> QED
  BY <1>10, <1>11, <1>13 DEF Places!Resize

LEMMA CancelCallsOff ==
  ASSUME IInv, NEW now, NEW skipped, CancelInside(now, skipped)
  PROVE  Places!CallOff
<1>1. PICK registered, settled :
        /\ registered = CancelRows(regs, "Registered")
        /\ settled = SettleLocked(registered, event, now)
        /\ event' = [event EXCEPT !.status = "Cancelled"]
        /\ regs' = CancelRows(settled, "Waitlisted")
  BY DEF CancelInside
<1>2. regs \in Rows /\ event \in EventRow
  BY InvariantFacts
<1>3. Row("Cancelled") \in RegRow /\ Row("Cancelled").status = "Cancelled"
  BY RowType DEF RowStatus
<1>4. registered \in Rows /\ Registered(registered) = {}
  BY <1>1, <1>2, <1>3 DEF CancelRows, Rows, Registered, InStatus
<1>5. settled \in Rows /\ Registered(settled) = {}
  BY <1>1, <1>4, SettleFacts
<1>6. PICK r2 : r2 = regs'
  OBVIOUS
<1>7. Registered(r2) = {} /\ Waiting(r2) = {}
  BY <1>1, <1>3, <1>5, <1>6 DEF CancelRows, Rows, Registered, Waiting, InStatus
<1>8. InOrder(r2) = Places!Empty
  BY <1>7, NobodyInOrder
<1>9. event'.capacity = event.capacity
  BY <1>1, <1>2 DEF EventRow
<1> QED
  BY <1>6, <1>7, <1>8, <1>9 DEF Places!CallOff

-----------------------------------------------------------------------------
(* The refinement *)

LEMMA InitImplements == Init => Places!Init
<1> SUFFICES ASSUME Init PROVE Places!Init
  OBVIOUS
<1>1. Row("None").status = "None"
  BY RowType DEF RowStatus
<1>2. Registered(regs) = {} /\ Waiting(regs) = {}
  BY <1>1 DEF Init, Registered, Waiting, InStatus
<1>3. event.capacity \in Nat \ {0}
  BY InputsAssumption, BoundsAssumption DEF Init
<1> QED
  BY <1>2, <1>3, NobodyInOrder DEF Places!Init

LEMMA StepImplements ==
  ASSUME IInv, [Next]_vars
  PROVE  [Places!Next]_Places!vars
<1>1. CASE UNCHANGED vars
  BY <1>1, StaysPut DEF vars
<1>2. CASE \/ Tick \/ Confirm \/ Complete
           \/ (\E s \in Starts : Reschedule(s)) \/ (\E c \in Coordinators : Reassign(c))
  BY <1>2, LifeIsSilent
<1>3. CASE AcceptCancellationRequest
  BY <1>3, CancelCallsOff DEF AcceptCancellationRequest, Places!Next
<1>4. CASE \E a \in Attendees : Register(a) \/ JoinWaitlist(a)
  BY <1>4, RegisterTakes, JoinEnqueues DEF Places!Next
<1>5. ASSUME NEW h \in Handlers,
             \/ \E a \in Attendees : WithdrawRead(h, a)
             \/ FindMineRead(h) \/ SettingsRead(h) \/ CancelRead(h)
             \/ WithdrawTooLate(h) \/ SaveRefused(h) \/ CancelRefused(h) \/ Abort(h)
      PROVE  [Places!Next]_Places!vars
  BY <1>5, ReadsAreSilent
<1>6. ASSUME NEW h \in Handlers, WithdrawRefused(h) \/ SettleIfDue(h)
      PROVE  [Places!Next]_Places!vars
  <2>1. regs' \in {regs, SettleLocked(regs, event, req[h].now)} /\ event' = event
    BY <1>6 DEF WithdrawRefused, SettleIfDue, Decided
  <2> QED
    BY <2>1, SettleCloses DEF Places!Next
<1>7. ASSUME NEW h \in Handlers, LeaveWaitlist(h) \/ ReleasePlace(h)
      PROVE  [Places!Next]_Places!vars
  <2>1. req[h].who \in Attendees
    BY <1>7, DecidedTruly DEF LeaveWaitlist, ReleasePlace
  <2> QED
    BY <1>7, <2>1, WithdrawLeaves, WithdrawReleases DEF Places!Next
<1>8. ASSUME NEW h \in Handlers, SaveSettings(h) PROVE [Places!Next]_Places!vars
  BY <1>8, SaveResizes DEF Places!Next
<1>9. ASSUME NEW h \in Handlers, CancelEvent(h) PROVE [Places!Next]_Places!vars
  BY <1>9, CancelCallsOff DEF CancelEvent, Places!Next
<1> QED
  BY <1>1, <1>2, <1>3, <1>4, <1>5, <1>6, <1>7, <1>8, <1>9 DEF Next, Locked, Withdraw

(* The rows and the locks of the backend keep the promise of PlaceQueue:       *)
(* nobody is overtaken, nobody queues beside a free place, and a freed place   *)
(* goes to the head of the queue in the step that frees it.                    *)
THEOREM ImplementsPlaceQueue == Spec => KeepsThePromise
BY InitImplements, StepImplements, Invariance, PTL DEF Spec, KeepsThePromise
=============================================================================
