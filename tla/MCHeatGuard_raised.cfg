SPECIFICATION Spec
CONSTANTS
  Heats <- MCHeats
  Room = 20
  Margin = 1
  Fallback = 18
  Fresh = 1
  Active = 1
  Trial = 1
  RampMax = 2
  PerDegree = 1
  MaxClock = 4
  MaxCrashes = 0
  MaxTasks = 2
  LastReport = 2
PROPERTIES NeverRaised
CHECK_DEADLOCK FALSE
