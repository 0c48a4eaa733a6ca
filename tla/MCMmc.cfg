SPECIFICATION Spec
CONSTANTS
  Kinds = {"SDv2B", "SDv1", "MMC"}
  MaxCount = 2
  Long = 2
  Short = 1
INVARIANTS
  ReadyIsInitialised
  SuccessIsComplete
PROPERTIES
  BootEnds
  TransferEnds
CHECK_DEADLOCK FALSE
