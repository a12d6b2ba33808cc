SPECIFICATION FairSpec
CONSTANTS
  Target = {t1}
  Duration = 2
  StartupFaults = FALSE
  MaxClock = 3
  MaxChanges = 3
  MaxRestarts = 2
INVARIANTS OwnedIsAllowed GateHolds OverrideKept RecordsSettle
PROPERTIES OverrideEnds
CHECK_DEADLOCK FALSE
