SPECIFICATION Spec
CONSTANTS
  Events = {e1}
  Ids = {b1, b2}
  Servers = {}
  Slots <- MCEarly
  Periods <- MCUnavailable
  Timings <- MCTight
  LeadTime = 2
  HoldLength = 2
  ReminderWindow = 1
  NoTime = NoTime
  NoEvent = NoEvent
  MaxTime = 3
  MaxPeriods = 0
PROPERTIES CompletedIsNotApproved
CHECK_DEADLOCK FALSE
