CONSTANTS
  Coordinators = {c1, c2}
  None = None
  MaxMoves = 2
  MaxAsked = 2
  MaxSaves = 3
  Calls = {k1, k2}
SYMMETRY MCSymmetry
SPECIFICATION Spec
INVARIANTS IInv PendingIsTold FormerIsNotAsked LeadKnows
CHECK_DEADLOCK FALSE
