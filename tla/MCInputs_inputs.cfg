SPECIFICATION InputsSpec
CONSTANTS
  NoReading = NoReading
  Reading <- MCReading
  JumpLimit = 3
  JumpWindow = 3
  Consistency = 1
  Freshness = 4
  QuarantineSpan = 2
  RecoverySpan = 1
  SourceClock = 6
  MaxReports = 5
  Never = Never
  Window = 3
  MaxTick = 9
  Humidity = {TRUE, FALSE}
  Coolers = 2
  FreshSpan = 1
  SafetyDelay = 2
  NoTimer = NoTimer
  MaxMoment = 4
  MaxRoomReports = 1
  MaxRuns = 2
  MaxSwitches = 1
  NoTime = NoTime
  RawDelta <- MCRawDelta
  Outlier = 2
  Bound = 1
  Warmup = 2
  MinReports = 3
  Modes = {"monitoring", "both"}
  MaxMinute = 6
  Nothing = Nothing
  DayLen = 3
  Hold = 2
  BootHold = 1
  Lookback = 1
  MaxHour = 5
  MaxOutdoorReports = 2
  MaxCollectorStarts = 2
  MaxSaveFaults = 1
  NoTarget = NoTarget
  NoRoot = NoRoot
  Fine = Fine
  Degree = 4
  Plants <- MCPlants
  Configurations <- MCConfigurations
  UserChoices <- MCChoices
  Worlds <- MCWorlds
  HoldSpan = 1
  Slew = 1
  MaxQuarters = 2
  MaxInputs = 2
  MaxSaveErrors = 1
INVARIANTS InputsTypeOK CoverageEarned UnsavedAwaited SilenceNoticed FallbackEarned
PROPERTIES JumpsConfirmed RecoveryEarned SafetyOnlyInSilence InfluenceEarned NoChatter RangesOrdered
CHECK_DEADLOCK FALSE
