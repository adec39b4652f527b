SPECIFICATION Spec
CONSTANTS
  Shares <- MCShares
  Pages <- MCPages
  FolderPages <- MCFolderPages
  QuarantineAt = 2
  GiveUp = 2
  MaxFaults = 1
  MaxOps = 2
INVARIANTS
  TypeOK
  CompletedIsIndexed
  CheckpointBacked
  NoOrphanFiles
  StatusMatchesFailures
PROPERTIES
  EventuallyDecided
