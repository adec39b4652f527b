SPECIFICATION Spec
CONSTANTS
  Dirs <- MCDirs
  Media <- MCMedia
  Root = "0"
  Pages <- MCPages
  Level <- MCLevel
  RetryCount = 1
  BigShare = TRUE
  MayWithhold = TRUE
  MaxFaults = 2
PROPERTY ReactivationRefetches
