SPECIFICATION FairSpec
CONSTANTS
  Task = {t1, t2}
  Val = {v1, v2}
  NoVal = NoVal
  Kinds <- ClockedAndNot
  HardInterval = 1
  OrdinaryInterval = 3
  AckWindow = 2
  ServiceLimit = 1
  IntentLife = 20
  MaxAttempts = 2
  MaxLag = 0
  Drains = TRUE
  Disturbances = {"device", "write_fails", "unload", "service_event"}
  MaxClock = 3
  MaxCommands = 2
  MaxDisturbances = 1
INVARIANTS OneDispatchAtATime JournalCoversPending
PROPERTIES SubmitsEnd 
CHECK_DEADLOCK FALSE
