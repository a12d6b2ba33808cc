SPECIFICATION Spec
CONSTANTS
  Task = {t1, t2, t3}
  Val = {v1, v2}
  NoVal = NoVal
  Kinds <- OneKind
  HardInterval = 1
  OrdinaryInterval = 3
  AckWindow = 2
  ServiceLimit = 1
  IntentLife = 20
  MaxAttempts = 2
  MaxLag = 0
  Drains = FALSE
  Disturbances = {"device"}
  MaxClock = 3
  MaxCommands = 3
  MaxDisturbances = 1
PROPERTIES OnePending
SYMMETRY Symmetry
CHECK_DEADLOCK FALSE
