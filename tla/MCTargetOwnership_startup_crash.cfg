SPECIFICATION Spec
CONSTANTS
  Target = {t1}
  Duration = 2
  StartupFaults = TRUE
  MaxClock = 3
  MaxChanges = 3
  MaxRestarts = 2
INVARIANTS OverrideKept
CHECK_DEADLOCK FALSE
