SPECIFICATION Spec
CONSTANTS
  Task = {t1}
  Val = {v1, v2}
  NoVal = NoVal
  Kinds <- OneKind
  HardInterval = 1
  OrdinaryInterval = 3
  AckWindow = 2
  ServiceLimit = 1
  IntentLife = 20
  MaxAttempts = 2
  MaxLag = 0
  Drains = FALSE
  Disturbances = {"device"}
  MaxClock = 3
  MaxCommands = 2
  MaxDisturbances = 2
PROPERTIES UserChangesAlwaysRespected
SYMMETRY ValueSymmetry
CHECK_DEADLOCK FALSE
