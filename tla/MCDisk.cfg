SPECIFICATION Spec
CONSTANTS
  INT_QUEUE_SIZE = 3
  Drives <- TwoDrives
  Sectors <- OneSector
  Data = {x, y}
CONSTRAINT CrossedSucceeds
INVARIANTS
  SuccessIsTransfer
  NeverRejected
  ErrorIsReported
PROPERTIES
  SeldskFindsIdle
  DiskCallsReturn
