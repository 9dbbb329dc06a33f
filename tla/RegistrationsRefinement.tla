----------------------- MODULE RegistrationsRefinement -----------------------
(***************************************************************************)
(* The registrations of one event implement PlaceQueue: the holders are    *)
(* the Registered rows, the queue is the Waitlisted rows, each behind      *)
(* those that the promotion reads before it, and the capacity is the       *)
(* registration limit.                                                     *)
(***************************************************************************)
EXTENDS Registrations

(* Each waiting entry, with those in front of it. *)
InOrder(r) == [a \in Waiting(r) |-> {b \in Waiting(r) : Before(r, b, a)}]

Places == INSTANCE PlaceQueue WITH
  People   <- Attendees,
  holders  <- Registered(regs),
  queue    <- InOrder(regs),
  capacity <- event.capacity

(* The rows and the locks of the backend keep the promise made to attendees:   *)
(* nobody is overtaken, nobody queues beside a free place, every freed place   *)
(* goes to the head of the queue in the step that frees it.                    *)
KeepsThePromise == Places!Init /\ [][Places!Next]_Places!vars
=============================================================================
