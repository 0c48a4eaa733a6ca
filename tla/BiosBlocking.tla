---------------------------- MODULE BiosBlocking ----------------------------
(***************************************************************************)
(* Blocking and deblocking in bios.asm: CP/M reads and writes records of   *)
(* 128 bytes, the card has blocks of four.  One buffer, DMABUF, serves as  *)
(* read cache and as the place where deferred writes gather.  The calls    *)
(* come one at a time, and each waits for its transfers, so a call is one  *)
(* step here; BiosDisk has the steps of a transfer.                        *)
(***************************************************************************)
EXTENDS Integers, FiniteSets

CONSTANTS Factor,        \* records in a block: 4
          Drives,        \* the drives there are: 0 .. NUM_OF_DISKS - 1
          Selectable,    \* the drive numbers callers pass to SELDSK
          NumRecords,    \* records in an image, a multiple of Factor
          Data,          \* contents of a record
          Junk,          \* what lies behind DMABUF in memory
          Outcomes,      \* may transfers succeed and fail: a subset of BOOLEAN
          Sequential,    \* callers write the record after the last while one waits
          CountBound     \* TLC's bound for WRT_COUNT, which is a byte

ASSUME BlockingAssumption ==
  /\ Factor \in Nat \ {0} /\ NumRecords \in Nat \ {0} /\ NumRecords % Factor = 0
  /\ 0 \in Drives /\ Drives \subseteq Nat /\ Selectable \subseteq Nat
  /\ Junk \in Data /\ Outcomes \subseteq BOOLEAN /\ Sequential \in BOOLEAN
  /\ CountBound \in 1 .. 255

VARIABLES image,              \* the records on the card, per drive
          cfd,                \* the drive selected in the AVR
          DMABUF,
          IS_RD_CACHED, CACHE_SECTOR_NO,
          IS_WRT_PENDING, WRT_COUNT, WRT_OFFSET, WRT_SECTOR_NO,
          CURRENT_SECTOR_NO,  \* the record of the last call, TRACK * SPT + SECTOR
          dma,                \* what is at DMA_ADRS after a read
          ret                 \* the last call and what it returned

cacheVars == <<IS_RD_CACHED, CACHE_SECTOR_NO>>
wrtVars == <<IS_WRT_PENDING, WRT_COUNT, WRT_OFFSET, WRT_SECTOR_NO>>
vars == <<image, cfd, DMABUF, cacheVars, wrtVars, CURRENT_SECTOR_NO, dma, ret>>

Records == 0 .. NumRecords - 1
Slots == 0 .. Factor - 1
Block(r) == r - (r % Factor)

Init == /\ image \in [Drives -> [Records -> Data \ {Junk}]]
        /\ cfd = 0
        /\ DMABUF = [i \in Slots |-> Junk]
        /\ IS_RD_CACHED = FALSE /\ CACHE_SECTOR_NO = 0
        /\ IS_WRT_PENDING = FALSE /\ WRT_COUNT = 0
        /\ WRT_OFFSET = 0 /\ WRT_SECTOR_NO = 0
        /\ CURRENT_SECTOR_NO = 0 /\ dma = Junk /\ ret = "none"
-----------------------------------------------------------------------------
(* The AVR writes count records from slot offset on to record r on.        *)
Written(buf, r, offset, count) ==
  [image EXCEPT ![cfd] =
    [s \in Records |->
       IF s \in r .. r + count - 1
       THEN LET slot == offset + s - r
            IN IF slot \in Slots THEN buf[slot] ELSE Junk
       ELSE image[cfd][s]]]

INIT_WRT_PENDING == IS_WRT_PENDING' = FALSE /\ WRT_COUNT' = 0

(* DO_WRITE: the pending state is cleared, then the records are written; a *)
(* write that fails may or may not have reached the card.                  *)
DO_WRITE(buf, r, offset, count, ok) ==
  /\ INIT_WRT_PENDING
  /\ \/ image' = Written(buf, r, offset, count)
     \/ ~ok /\ image' = image

(* Mutant: what is pending is cleared without being written.               *)
WRITE_FLUSH_Forgets == /\ INIT_WRT_PENDING /\ image' = image
                       /\ UNCHANGED <<WRT_OFFSET, WRT_SECTOR_NO>>

(* Its callers drop what it returns.                                       *)
WRITE_FLUSH == /\ IF IS_WRT_PENDING
                  THEN \E ok \in Outcomes :
                         DO_WRITE(DMABUF, WRT_SECTOR_NO, WRT_OFFSET, WRT_COUNT, ok)
                  ELSE UNCHANGED <<IS_WRT_PENDING, WRT_COUNT, image>>
               /\ UNCHANGED <<WRT_OFFSET, WRT_SECTOR_NO>>

Hit(r) == IS_RD_CACHED /\ CACHE_SECTOR_NO = Block(r)

(* A hit copies the record; a miss reads its block first.                  *)
READ_SUB(r) ==
  IF Hit(r)
  THEN dma' = DMABUF[r % Factor] /\ ret' = "read" /\ UNCHANGED <<cacheVars, DMABUF>>
  ELSE \E ok \in Outcomes :
         /\ IS_RD_CACHED' = ok
         /\ IF ok
            THEN /\ DMABUF' = [i \in Slots |-> image'[cfd][Block(r) + i]]
                 /\ dma' = DMABUF'[r % Factor]
                 /\ CACHE_SECTOR_NO' = Block(r) /\ ret' = "read"
            ELSE UNCHANGED <<DMABUF, dma, CACHE_SECTOR_NO>> /\ ret' = "read error"

READ(r) == /\ WRITE_FLUSH
           /\ READ_SUB(r)
           /\ CURRENT_SECTOR_NO' = r /\ UNCHANGED cfd

(* Mutant: the read cache is not cleared.                                  *)
WRITE_start_KeepsCache == UNCHANGED cacheVars

WRITE_start == IS_RD_CACHED' = FALSE /\ UNCHANGED CACHE_SECTOR_NO

(* Mutants: the start of a run is never saved; saved again by each of its  *)
(* records; saved with the sector number for the slot.                     *)
WritePosition_Stale(r) == <<WRT_SECTOR_NO, WRT_OFFSET>>
WritePosition_Last(r) == <<r, r % Factor>>
WritePosition_NoSlot(r) == IF IS_WRT_PENDING THEN <<WRT_SECTOR_NO, WRT_OFFSET>>
                                             ELSE <<r, r>>

(* Where the next DO_WRITE starts: the first record since the last one.    *)
WritePosition(r) == IF IS_WRT_PENDING THEN <<WRT_SECTOR_NO, WRT_OFFSET>>
                                      ELSE <<r, r % Factor>>

(* WRITE_SUB.  The record goes to its slot; the last slot of a block and   *)
(* the code C = 1 write at once, everything else is deferred.              *)
WRITE(r, data, C) ==
  LET slot == r % Factor
      first == WritePosition(r)
      count == (WRT_COUNT + 1) % 256
  IN /\ WRITE_start
     /\ DMABUF' = [DMABUF EXCEPT ![slot] = data]
     /\ WRT_SECTOR_NO' = first[1] /\ WRT_OFFSET' = first[2]
     /\ IF slot = Factor - 1 \/ C = 1
        THEN \E ok \in Outcomes :
               /\ DO_WRITE(DMABUF', first[1], first[2], count, ok)
               /\ ret' = IF ok THEN "write" ELSE "write error"
        ELSE /\ IS_WRT_PENDING' = TRUE /\ WRT_COUNT' = count
             /\ image' = image /\ ret' = "write"
     /\ CURRENT_SECTOR_NO' = r /\ UNCHANGED <<cfd, dma>>

(* The caller goes on where the pending run ends.                          *)
MayWrite(r) == Sequential /\ IS_WRT_PENDING => r = WRT_SECTOR_NO + WRT_COUNT

(* SELDSK: a number beyond the last drive leaves the cache as it is; an    *)
(* image that is not open is found after the cache was cleared.  Both      *)
(* errors select drive A:.                                                 *)
SELDSK(d) ==
  /\ WRITE_FLUSH
  /\ IF d \notin Drives
     THEN cfd' = 0 /\ ret' = "select error" /\ UNCHANGED cacheVars
     ELSE /\ IS_RD_CACHED' = FALSE /\ UNCHANGED CACHE_SECTOR_NO
          /\ \E open \in Outcomes :
               /\ cfd' = IF open THEN d ELSE 0
               /\ ret' = IF open THEN "select" ELSE "select error"
  /\ UNCHANGED <<DMABUF, CURRENT_SECTOR_NO, dma>>

(* WBOOT, and BOOT: cache and pending writes are forgotten, drive A: is    *)
(* selected and CCP and BDOS are read to their own place.                  *)
WBOOT == /\ IS_RD_CACHED' = FALSE /\ INIT_WRT_PENDING
         /\ cfd' = 0 /\ ret' = "none"
         /\ UNCHANGED <<image, DMABUF, CACHE_SECTOR_NO, WRT_OFFSET, WRT_SECTOR_NO,
                        CURRENT_SECTOR_NO, dma>>

Next == \/ \E r \in Records : READ(r)
        \/ \E r \in Records, data \in Data \ {Junk}, C \in 0 .. 2 :
             MayWrite(r) /\ WRT_COUNT < CountBound /\ WRITE(r, data, C)
        \/ \E d \in Selectable : SELDSK(d)
        \/ WBOOT
Spec == Init /\ [][Next]_vars
-----------------------------------------------------------------------------
TypeOK == /\ image \in [Drives -> [Records -> Data]] /\ cfd \in Drives
          /\ DMABUF \in [Slots -> Data] /\ dma \in Data
          /\ IS_RD_CACHED \in BOOLEAN /\ CACHE_SECTOR_NO \in Records
          /\ IS_WRT_PENDING \in BOOLEAN /\ WRT_COUNT \in 0 .. 255
          /\ WRT_OFFSET \in Slots /\ WRT_SECTOR_NO \in Records
          /\ CURRENT_SECTOR_NO \in Records
          /\ ret \in {"none", "read", "read error", "write", "write error",
                      "select", "select error"}

(* Only consecutive records gather in DMABUF: a record whose write was     *)
(* deferred is one of those the next DO_WRITE will write.                  *)
OnlyConsecutive == IS_WRT_PENDING /\ ret = "write" =>
  CURRENT_SECTOR_NO \in WRT_SECTOR_NO .. WRT_SECTOR_NO + WRT_COUNT - 1

(* They fit in the buffer, at the slots of their sector numbers.           *)
PendingFits == IS_WRT_PENDING =>
  /\ WRT_COUNT > 0 /\ WRT_OFFSET + WRT_COUNT < Factor
  /\ WRT_OFFSET = WRT_SECTOR_NO % Factor

(* A cached block is a block of the selected drive as it is on the card.   *)
CacheIsOnCard == IS_RD_CACHED => \A i \in Slots :
  DMABUF[i] = image[cfd][CACHE_SECTOR_NO + i]

(* The records as a program sees them: the card, and over it what waits.   *)
Seen == [d \in Drives |-> [r \in Records |->
  IF /\ d = cfd /\ IS_WRT_PENDING
     /\ r \in WRT_SECTOR_NO .. WRT_SECTOR_NO + WRT_COUNT - 1
  THEN DMABUF[r % Factor] ELSE image[d][r]]]

Cpm == INSTANCE CpmDisk WITH records <- Seen, durable <- image, drive <- cfd
ReadsBack == Cpm!Spec
=============================================================================
