SPECIFICATION Spec
CONSTANTS
  Events = {e1}
  Ids = {b1, b2}
  Servers = {}
  Slots <- MCEarly
  Periods <- MCUnavailable
  Timings <- MCTimings
  LeadTime = 2
  HoldLength = 2
  ReminderWindow = 1
  NoTime = NoTime
  NoEvent = NoEvent
  MaxTime = 3
  MaxPeriods = 1
INVARIANTS SafetyCoversTheBookings IInv
PROPERTIES ConfirmedWithVenue HoldEndsWithItsPeriod
CHECK_DEADLOCK FALSE
