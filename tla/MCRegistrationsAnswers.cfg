SPECIFICATION FairSpec
CONSTANTS
  Attendees = {a1, a2}
  Organiser = org
  Coordinators = {a1, coord}
  Handlers = {h1, h2}
  Patches <- AnswerPatches
  Starts = {1, 2}
  Limits = {1}
  NoTime = NoTime
  Keep = Keep
  MaxTime = 2
  MaxJoins = 1
  MaxSaves = 1
  MaxCapacity = 1
INVARIANTS CancelledEventIsEmpty CancelledAreTold
PROPERTIES EveryRequestAnswered
