SPECIFICATION Spec
CONSTANTS
  Shares <- MCShares
  Sizings <- MCSizings
  MinSize = 2
  Pages = 2
  MaxCycles = 2
  MaxFaults = 0
  MaxOps = 0
INVARIANT IndexedOnce
CHECK_DEADLOCK FALSE
