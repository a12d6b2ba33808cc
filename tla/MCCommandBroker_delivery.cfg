SPECIFICATION Spec
CONSTANTS
  Task = {t1}
  Val = {v1, v2}
  NoVal = NoVal
  Kinds <- OneKind
  HardInterval = 1
  OrdinaryInterval = 3
  AckWindow = 2
  ServiceLimit = 1
  IntentLife = 20
  MaxAttempts = 2
  MaxLag = 0
  Drains = FALSE
  Disturbances = {"device", "call_fails", "readiness", "ownership", "resume", "input"}
  MaxClock = 8
  MaxCommands = 3
  MaxDisturbances = 1
INVARIANTS TypeOK AcknowledgedIsGoal BudgetRespected CallsAccountedFor
PROPERTIES CallsPermitted DispatchesSpaced
SYMMETRY ValueSymmetry
CHECK_DEADLOCK FALSE
