SPECIFICATION Spec
CONSTANTS
  Factor = 3
  Drives <- AB
  Selectable <- AB
  NumRecords = 3
  Data = {x, y, junk}
  Junk = junk
  Outcomes <- AnyOutcome
  Sequential = TRUE
  CountBound = 8
SYMMETRY Contents
INVARIANTS
  OnlyConsecutive
  PendingFits
  CacheIsOnCard
