SPECIFICATION FairSpec
CONSTANTS
  Events = {e1}
  Ids = {b1}
  Servers = {s1, s2}
  Slots <- MCOne
  Periods <- MCUnavailable
  Timings <- MCTight
  LeadTime = 2
  HoldLength = 2
  ReminderWindow = 1
  NoTime = NoTime
  NoEvent = NoEvent
  MaxTime = 3
  MaxPeriods = 0
INVARIANTS ToldTruly
PROPERTIES ElapsedHoldIsEnded
