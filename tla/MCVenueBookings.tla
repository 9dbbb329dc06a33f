---------------------------- MODULE MCVenueBookings ----------------------------
(***************************************************************************)
(* Small instances of VenueBookings. Time is scaled: the lead time and the *)
(* length of a hold, equal in the code, are one instant or two.            *)
(***************************************************************************)
EXTENDS VenueBookings, TLC

(* A period and the one right behind it, for a lead time of one instant. *)
MCAdjacent == {[from |-> 1, to |-> 2], [from |-> 2, to |-> 3]}
MCOne      == {[from |-> 3, to |-> 4]}

(* Periods that end while the clock runs, so that events complete. *)
MCEarly    == {[from |-> 2, to |-> 3], [from |-> 3, to |-> 4]}

(* Unavailable over the early periods; ended early, it leaves them free. *)
MCUnavailable == {[from |-> 1, to |-> 4]}

(* Without buffers, and with a setup time that makes adjacent periods clash. *)
MCTight   == {[setup |-> 0, turnaround |-> 0]}
MCTimings == MCTight \cup {[setup |-> 1, turnaround |-> 0]}

Symmetry == Permutations(Ids) \cup Permutations(Events)
===============================================================================
