-------------------------- MODULE MCEventChanges --------------------------
(* Three instants are enough for a move of both times in which one half,   *)
(* applied first, would end the event at its start, in either direction,   *)
(* and for a start that passes while its change awaits review. Two         *)
(* bookings, which are alike, are affected together and decided apart; no  *)
(* booking affected stands for equipment alone. Three rows are a chain of  *)
(* one time beside a change of the other.                                  *)
EXTENDS EventChanges, TLC

CONSTANTS b1, b2

MCBookings == {b1, b2}
MCAffected == {{}, MCBookings}
MCSymmetry == Permutations(MCBookings)
===========================================================================
