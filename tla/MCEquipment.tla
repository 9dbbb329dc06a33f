----------------------------- MODULE MCEquipment -----------------------------
(***************************************************************************)
(* A small instance of EquipmentReservations: one event with every kind of *)
(* move and of request, beside one that keeps its period and asks for one  *)
(* line.                                                                   *)
(***************************************************************************)
EXTENDS EquipmentReservations

CONSTANTS fair, talk

MCEvents == {fair, talk}

(* A period, its first half and its second half: moves inward and outward. *)
MCSlots == [e \in MCEvents |->
              IF e = fair THEN {[from |-> 1, to |-> 3], [from |-> 1, to |-> 2], [from |-> 2, to |-> 3]}
              ELSE {[from |-> 2, to |-> 3]}]

One == [name |-> CHOOSE n \in Names : TRUE, quantity |-> 1]

(* One line of one unit, or two. *)
MCAsks == [e \in MCEvents |-> IF e = fair THEN {<<One>>, <<One, One>>} ELSE {<<One>>}]
=============================================================================
