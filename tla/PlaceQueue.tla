------------------------------ MODULE PlaceQueue ------------------------------
(***************************************************************************)
(* What attendees are promised about the places of one event, with no      *)
(* clock, no database row and no request in flight: a bounded set of       *)
(* holders and a first-come first-served queue behind it.                  *)
(*                                                                         *)
(*  - nobody takes a place directly while somebody waits;                  *)
(*  - nobody queues while a place is free;                                 *)
(*  - a free place goes to the head of the queue in the very step that     *)
(*    frees it, and never to anyone else;                                  *)
(*  - the queue is emptied as a whole when registration closes, and the    *)
(*    holders lose their places only by withdrawing or when the event is   *)
(*    called off.                                                          *)
(***************************************************************************)
EXTENDS Integers, FiniteSets

CONSTANT People

VARIABLES
  holders,   \* the people who hold a place
  queue,     \* for each person who waits, the people in front
  capacity   \* the number of places

vars == <<holders, queue, capacity>>

Empty == [p \in {} |-> {}]

(* Those who leave a queue leave it for the people behind them, too. *)
Without(q, S) == [p \in DOMAIN q \ S |-> q[p] \ S]

-----------------------------------------------------------------------------

Init ==
  /\ holders = {}
  /\ queue = Empty
  /\ capacity \in Nat \ {0}

(* Hands the free places of c to those with the fewest people in front. *)
Serve(H, q, c) ==
  LET served == {p \in DOMAIN q : Cardinality(q[p]) < c - Cardinality(H)}
  IN  /\ holders' = H \cup served
      /\ queue' = Without(q, served)
      /\ capacity' = c

Take(p) ==
  /\ p \notin holders
  /\ queue = Empty
  /\ Cardinality(holders) < capacity
  /\ holders' = holders \cup {p}
  /\ UNCHANGED <<queue, capacity>>

Enqueue(p) ==
  /\ p \notin holders \cup DOMAIN queue
  /\ Cardinality(holders) = capacity
  /\ queue' = [x \in DOMAIN queue \cup {p} |-> IF x = p THEN DOMAIN queue ELSE queue[x]]
  /\ UNCHANGED <<holders, capacity>>

Leave(p) ==
  /\ p \in DOMAIN queue
  /\ queue' = Without(queue, {p})
  /\ UNCHANGED <<holders, capacity>>

(* The queue either stands or was emptied by the close that this step notices. *)
Release(p) ==
  /\ p \in holders
  /\ \E q \in {queue, Empty} : Serve(holders \ {p}, q, capacity)

Close ==
  /\ queue' = Empty
  /\ UNCHANGED <<holders, capacity>>

Resize ==
  /\ capacity' \in Nat \ {0}
  /\ capacity' >= Cardinality(holders)
  /\ \E q \in {queue, Empty} : Serve(holders, q, capacity')

CallOff ==
  /\ holders' = {}
  /\ queue' = Empty
  /\ UNCHANGED capacity

Next ==
  \/ \E p \in People : Take(p) \/ Enqueue(p) \/ Leave(p) \/ Release(p)
  \/ Resize
  \/ Close
  \/ CallOff

Spec == Init /\ [][Next]_vars
=============================================================================
