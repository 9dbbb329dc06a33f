SPECIFICATION Spec
CONSTANTS
  Attendees = {a1, a2, a3}
  Organiser = org
  Coordinators = {coord}
  Handlers = {h1, h2}
  Patches <- MCPatches
  Starts = {2}
  Limits = {1}
  NoTime = NoTime
  Keep = Keep
  MaxTime = 2
  MaxJoins = 3
  MaxSaves = 3
  MaxCapacity = 2
SYMMETRY Symmetry
INVARIANTS IInv CapacityRespected WaitingImpliesFull ServedInOrderOfArrival
PROPERTIES GoneStaysGone WithdrawalAnsweredTruly KeepsThePromise
