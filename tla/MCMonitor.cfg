SPECIFICATION MonitorSpec
CONSTANTS
  INT_QUEUE_SIZE = 4
  Vectors <- MCVectors
PROPERTY QueuedVectorServed
