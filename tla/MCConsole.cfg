SPECIFICATION Spec
CONSTANTS
  INT_QUEUE_SIZE = 3
  RX1_BUF_SIZE = 2
  TX1_BUF_SIZE = 4
  CONOUT_LIMIT = 2
  Typed <- TwoChars
  Printed <- TwoChars
CONSTRAINT PrintsInTurn
INVARIANTS
  OutputNeverLost
  ConinHasChar
PROPERTIES
  ConoutReturns
  ConinReturns
  ScreenOrder
  KeyOrder
