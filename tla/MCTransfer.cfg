SPECIFICATION Spec
CONSTANTS
  csize = 1
  n_fatent = 9
  n_fats = 2
  EPS = 4
  EPD = 4
  volbase = 1
  dirbase = 2
  SS = 2
  Junk = 9
  NULL = NULL
  Drives <- TwoDrives
  Formatted <- Card
  Units <- Bits
  Buffers <- OneBuffer
  Requests <- SomeRequests
  MaxUnit = 5
  MaxAccess = 6
  MaxTroubles = 1
  Safely = TRUE
  file_open <- f_open
  file_close <- f_close
  file_read <- f_read
  file_write <- f_write
  file_lseek <- f_lseek
  file_sync <- f_sync
  file_mount <- f_mount
INVARIANTS
  ChainsSound
  PromisesKept
  ReadsTrue
  SelectRecovers
