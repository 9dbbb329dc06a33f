SPECIFICATION Spec
CONSTANTS
  Events = {e1, e2}
  Ids = {b1, b2}
  Servers = {}
  Slots <- MCAdjacent
  Periods <- MCUnavailable
  Timings <- MCTimings
  LeadTime = 1
  HoldLength = 1
  ReminderWindow = 1
  NoTime = NoTime
  NoEvent = NoEvent
  MaxTime = 1
  MaxPeriods = 0
INVARIANTS NoDoubleBooking OneActiveRequest CancelledEventHoldsNothing
PROPERTIES ClosedStaysClosed
SYMMETRY Symmetry
CHECK_DEADLOCK FALSE
