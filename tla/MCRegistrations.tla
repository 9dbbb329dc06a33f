--------------------------- MODULE MCRegistrations ---------------------------
(* Registrations on small instances. *)
EXTENDS RegistrationsRefinement, TLC

Sent(enabled, opens, closes, capacity) ==
  [enabled |-> enabled, opens |-> opens, closes |-> closes, capacity |-> capacity]

(* Open until the start or until 1, extend to the start, switch off, and one *)
(* place more or fewer. Each is what one save of the form sends.              *)
OpenPatch   == Sent(TRUE, 0, 2, Keep)
ShutPatch   == Sent(Keep, Keep, 1, Keep)
ExtendPatch == Sent(Keep, Keep, 2, Keep)
OffPatch    == Sent(FALSE, Keep, Keep, Keep)
MorePatch   == Sent(Keep, Keep, Keep, 2)
FewerPatch  == Sent(Keep, Keep, Keep, 1)

MCPatches   == {OpenPatch, ShutPatch, ExtendPatch, OffPatch, MorePatch, FewerPatch}
AnswerPatches == {OpenPatch, OffPatch}

Symmetry == Permutations(Attendees) \cup Permutations(Handlers)
=============================================================================
