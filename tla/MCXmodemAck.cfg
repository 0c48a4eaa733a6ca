SPECIFICATION Spec
CONSTANTS
  Blocks = 2
  SeqMod = 2
  MAX_RETRY = 2
  LineSize = 2
  Faults = 1
PROPERTY GivesUp
CHECK_DEADLOCK FALSE
