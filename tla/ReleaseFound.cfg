SPECIFICATION Spec
CONSTANTS
  MovieSize = 2
  MinEpisodes = 2
  MaxNames = 2
  Shares <- MCShares
  Pages <- MCPages
  Segments = {"s1"}
  BatchSize = 4
  MaxClock = 2
  MaxOps = 1
  Unsteady = {1}
  MaxRebuilds = 2
  MaxExports = 1
  MaxFaults = 1
INVARIANT
  FoundAfterRebuild
CHECK_DEADLOCK FALSE
