SPECIFICATION Spec
CONSTANTS
  Factor = 4
  Drives <- A
  Selectable <- A
  NumRecords = 4
  Data = {x, y, junk}
  Junk = junk
  Outcomes <- Succeeds
  Sequential = FALSE
  CountBound = 8
SYMMETRY Contents
INVARIANT OnlyConsecutive
