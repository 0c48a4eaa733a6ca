SPECIFICATION MSpec
CONSTANTS
  MaxDepth = 2
  Commands <- Copies
  N = 8
  INTERNAL = 3
  SHADOW = 4
  Buf = 1
  Block = 2
  Digit = 2
  NumBP = 2
  Top = 7
  RST = 3
  Addresses <- Breakpoints
  Lines <- Typed
  Packets <- APacket
  Files <- AFile
  Noise = {1}
  EepromSize = 7
  TestSize = 2
  TestMargin = 2
CONSTRAINT KnownMemory
INVARIANTS
  BusHeld
  BusFree
  SpinIsServed
  MemoryIsProgram
  TableIsAsked
  BreakIsReported
