---------------------------- MODULE MCAssignment ----------------------------
(* Three moves are enough for an event to come back to a coordinator it    *)
(* was taken from, and two requests for one of each kind, one with a       *)
(* thread beside it or one made again. Three saves, of which two at a      *)
(* time, let a coordinator leave and return while the other leaves, let    *)
(* two saves of one coordinator cross or one break off, and let the next   *)
(* put it right.                                                           *)
EXTENDS Assignment, TLC

MCSymmetry == Permutations(Coordinators) \cup Permutations(Calls)
=============================================================================
