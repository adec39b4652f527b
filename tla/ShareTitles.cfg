SPECIFICATION Spec
CONSTANTS
  Keys <- MCKeys
  Imported <- MCImported
  TitleOn115 <- MCTitleOn115
  NewTitles <- MCNewTitles
  Requests = {r1}
  MaxOps = 2
  MaxFaults = 1
INVARIANTS
  TypeOK
  DedupeIdempotent
PROPERTIES
  EventuallyDistinct
