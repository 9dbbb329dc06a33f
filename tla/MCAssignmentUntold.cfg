CONSTANTS
  Coordinators = {c1}
  None = None
  MaxMoves = 1
  MaxAsked = 0
  MaxSaves = 2
  Calls = {k1, k2}
SPECIFICATION Spec
PROPERTIES AnsweredSaveIsTold
CHECK_DEADLOCK FALSE
