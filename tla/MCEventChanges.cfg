SPECIFICATION Spec
CONSTANTS
  b1 = b1
  b2 = b2
  Bookings <- MCBookings
  Affected <- MCAffected
  MaxTime = 3
  MaxRequests = 1
  MaxCancels = 2
  MaxRows = 3
SYMMETRY MCSymmetry
INVARIANTS IInv ScheduleInOrder HistoryIsAChain RequestsEndOnce
PROPERTIES ConfirmedDetailsStand
CHECK_DEADLOCK FALSE
