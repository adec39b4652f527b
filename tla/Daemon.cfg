SPECIFICATION Spec
CONSTANTS
  Servers <- MCServers
  MaxBatch = 2
  ShutdownWait = 1
  Grace = 2
  MaxCycles = 4
  MaxFaults = 2
INVARIANTS
  TypeOK
  EndsInOrder
  SleepMatchesStreak
PROPERTIES
  EventuallyEnds
CHECK_DEADLOCK FALSE
