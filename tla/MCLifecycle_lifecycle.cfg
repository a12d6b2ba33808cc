SPECIFICATION LifeSpec
CONSTANTS
  Zone = {z1, z2}
  NoJob = NoJob
  Permits = 1
  Quiet = 1
  Longest = 2
  MaxClock = 3
  MaxWorld <- MCMaxWorld
  MaxRestarts = 1
  NoCommand = NoCommand
  MaxOps = 2
  MaxQueue = 2
  MaxFaults = 1
  MaxStarts = 2
  Household = {e1, e2}
  Climate = {c1, c2}
  Unleased = Unleased
  MaxLeaseSteps = 6
  NoTime = NoTime
  BoostSpan = 2
  PreheatSpan = 1
  OccupancyHold = 1
  MaxMinutes = 2
  MaxChoices = 2
  MaxStops = 1
  MaxSaves = 2
INVARIANTS LifeTypeOK PostponementBounded OpenCommandFound LeaseKept BoundedModes RapidOnce
PROPERTIES ZoneKeepsPromise StoreKeepsPromise
CHECK_DEADLOCK FALSE
