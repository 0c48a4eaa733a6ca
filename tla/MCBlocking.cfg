SPECIFICATION Spec
CONSTANTS
  Factor = 3
  Drives <- A
  Selectable <- AB
  NumRecords = 6
  Data = {x, y, junk}
  Junk = junk
  Outcomes <- Succeeds
  Sequential = TRUE
  CountBound = 8
SYMMETRY Contents
PROPERTY ReadsBack
