SPECIFICATION Spec
CONSTANTS
  INT_QUEUE_SIZE = 8
  Vectors <- MCVectors
INVARIANTS
  TypeOK
  LineMirrorsQueue
  VectorIsHead
  AckIsAnswered
PROPERTIES
  FifoOrder
  EveryVectorDelivered
