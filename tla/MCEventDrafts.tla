---------------------------- MODULE MCEventDrafts ----------------------------
(***************************************************************************)
(* Small instances of EventDrafts.                                         *)
(***************************************************************************)
EXTENDS EventDrafts, TLC

CONSTANTS full, odd

(* Two complete forms that differ in their dates and in the registration      *)
(* choice, and one the server refuses.                                        *)
MCFillings == {[text |-> full, dates |-> 1, web |-> FALSE],
               [text |-> full, dates |-> 2, web |-> TRUE],
               [text |-> odd, dates |-> 1, web |-> FALSE]}

MCSymmetry == Permutations(Windows)
=============================================================================
