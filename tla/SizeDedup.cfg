SPECIFICATION Spec
CONSTANTS
  Shares <- MCShares
  Sizings <- MCSizings
  MinSize = 2
  Pages = 2
  MaxCycles = 2
  MaxFaults = 1
  MaxOps = 2
INVARIANTS
  TypeOK
  KeepsACopy
  DuplicateOfItsSize
  DuplicateIndexesNothing
  DedupeComplete
  HolesHaveCauses
CHECK_DEADLOCK FALSE
