SPECIFICATION Spec
CONSTANTS
  Heats <- MCHeats
  Room = 20
  Margin = 1
  Fallback = 18
  Fresh = 1
  Active = 1
  Trial = 2
  RampMax = 2
  PerDegree = 1
  MaxClock = 6
  MaxCrashes = 1
  MaxTasks = 2
  LastReport = 2
PROPERTIES OneTrial
CHECK_DEADLOCK FALSE
