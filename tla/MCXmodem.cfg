SPECIFICATION Spec
CONSTANTS
  Blocks = 5
  SeqMod = 3
  MAX_RETRY = 3
  LineSize = 2
  Faults = 5
INVARIANTS
  TypeOK
  ReceivedInOrder
  SuccessIsComplete
PROPERTIES
  ReceiverEnds
  SenderEnds
CHECK_DEADLOCK FALSE
