------------------------- MODULE BiosBlockingProofs -------------------------
(***************************************************************************)
(* Proofs about the blocking and deblocking of the BIOS, for every number  *)
(* of records in a block and in an image.  BufferInv is what DMABUF and    *)
(* its flags mean whoever calls; RunInv is what a run of deferred records  *)
(* is when callers are sequential; then CpmDisk is implemented, call by    *)
(* call.                                                                   *)
(***************************************************************************)
EXTENDS BiosBlocking, TLAPS

(* The cache holds whole blocks, and waiting records and a cached block    *)
(* are never in DMABUF together.                                           *)
CacheAligned == CACHE_SECTOR_NO % Factor = 0
OneUse == IS_WRT_PENDING => ~IS_RD_CACHED
CountCleared == ~IS_WRT_PENDING => WRT_COUNT = 0

(* What is cached is a block of some drive as it is on the card.  It is    *)
(* one of the selected drive if callers select existing drives only: the   *)
(* error path of SELDSK does not clear the cache.                          *)
CacheIsOnSome == IS_RD_CACHED => \E d \in Drives : \A i \in Slots :
  DMABUF[i] = image[d][CACHE_SECTOR_NO + i]
ExistingOnly == Selectable \subseteq Drives \/ Drives = {0}

BufferInv == /\ TypeOK /\ CacheAligned /\ OneUse /\ CountCleared /\ CacheIsOnSome
             /\ ExistingOnly => CacheIsOnCard

RunInv == PendingFits /\ OnlyConsecutive
-----------------------------------------------------------------------------
LEMMA Constants == /\ Factor \in Nat \ {0} /\ NumRecords \in Nat \ {0}
                   /\ 0 \in Drives /\ Junk \in Data
BY BlockingAssumption

(* Slots and blocks, without the modulus.                                  *)
LEMMA SlotValue ==
  ASSUME NEW r \in Nat
  PROVE  /\ r % Factor \in 0 .. Factor - 1
         /\ r \div Factor \in Nat /\ r = Factor * (r \div Factor) + (r % Factor)
BY BlockingAssumption, SMT

LEMMA SlotUnique ==
  ASSUME NEW q \in Int, NEW m \in 0 .. Factor - 1
  PROVE  (Factor * q + m) % Factor = m
BY BlockingAssumption, SMTT(30)

(* The records behind r have the slots behind its own, up to the last.     *)
LEMMA SlotShift ==
  ASSUME NEW r \in Nat, NEW k \in Nat, (r % Factor) + k < Factor
  PROVE  (r + k) % Factor = (r % Factor) + k
<1> DEFINE q == r \div Factor
           m == (r % Factor) + k
<1>1. q \in Nat /\ r = Factor * q + (r % Factor) /\ r % Factor \in 0 .. Factor - 1
  BY SlotValue
<1>2. r + k = Factor * q + m /\ m \in 0 .. Factor - 1
  BY <1>1, BlockingAssumption
<1>3. (Factor * q + m) % Factor = m
  BY <1>1, <1>2, SlotUnique
<1> QED
  BY <1>2, <1>3

LEMMA BlockFits ==
  ASSUME NEW F \in Nat \ {0}, NEW n \in Nat, n % F = 0, NEW r \in Nat, r < n
  PROVE  (r - (r % F)) % F = 0 /\ r - (r % F) \in Nat /\ (r - (r % F)) + F <= n
BY SMTT(30)

(* The block of a record is aligned and lies in the image with it.         *)
LEMMA BlockInImage ==
  ASSUME NEW r \in Records
  PROVE  /\ Block(r) \in Records /\ Block(r) % Factor = 0
         /\ \A i \in Slots : Block(r) + i \in Records
         /\ r % Factor \in Slots /\ r = Block(r) + (r % Factor)
<1>1. r \in Nat /\ r < NumRecords
  BY BlockingAssumption DEF Records
<1>2. /\ (r - (r % Factor)) % Factor = 0 /\ r - (r % Factor) \in Nat
      /\ (r - (r % Factor)) + Factor <= NumRecords
  BY <1>1, BlockFits, BlockingAssumption
<1>3. r % Factor \in 0 .. Factor - 1
  BY <1>1, SlotValue
<1> QED
  BY <1>1, <1>2, <1>3, BlockingAssumption DEF Block, Records, Slots
-----------------------------------------------------------------------------
LEMMA InitBuffer == Init => BufferInv
<1> SUFFICES ASSUME Init PROVE BufferInv
  OBVIOUS
<1>1. 0 \in Records /\ 0 \in Slots /\ 0 \in 0 .. 255
  BY Constants DEF Records, Slots
<1>2. 0 % Factor = 0
  BY Constants, SMT
<1>3. image \in [Drives -> [Records -> Data]] /\ cfd \in Drives
  BY Constants DEF Init
<1>4. DMABUF \in [Slots -> Data] /\ dma \in Data
  BY Constants DEF Init
<1>5. TypeOK
  BY <1>1, <1>3, <1>4, Zenon DEF Init, TypeOK
<1> QED
  BY <1>2, <1>5 DEF Init, BufferInv, CacheAligned, OneUse, CountCleared,
                    CacheIsOnSome, CacheIsOnCard

(* What the AVR writes is a card full of records again.                    *)
LEMMA WrittenType ==
  ASSUME TypeOK, NEW buf \in [Slots -> Data], NEW r, NEW offset, NEW count
  PROVE  Written(buf, r, offset, count) \in [Drives -> [Records -> Data]]
<1> DEFINE new == [s \in Records |->
                     IF s \in r .. r + count - 1
                     THEN LET slot == offset + s - r
                          IN IF slot \in Slots THEN buf[slot] ELSE Junk
                     ELSE image[cfd][s]]
<1>1. \A s \in Records : image[cfd][s] \in Data
  BY DEF TypeOK
<1>2. new \in [Records -> Data]
  BY <1>1, Constants
<1> HIDE DEF new
<1>3. [image EXCEPT ![cfd] = new] \in [Drives -> [Records -> Data]]
  BY <1>2 DEF TypeOK
<1> QED
  BY <1>3 DEF Written, new

(* A flush leaves nothing pending, and changes the card only if something  *)
(* was.                                                                    *)
LEMMA FlushBuffer ==
  ASSUME BufferInv, WRITE_FLUSH
  PROVE  /\ IS_WRT_PENDING' = FALSE /\ WRT_COUNT' = 0
         /\ image' \in [Drives -> [Records -> Data]]
         /\ UNCHANGED <<WRT_OFFSET, WRT_SECTOR_NO>>
         /\ ~IS_WRT_PENDING => image' = image
<1>1. /\ DMABUF \in [Slots -> Data] /\ WRT_SECTOR_NO \in Records
      /\ image \in [Drives -> [Records -> Data]]
  BY DEF BufferInv, TypeOK
<1>2. Written(DMABUF, WRT_SECTOR_NO, WRT_OFFSET, WRT_COUNT)
        \in [Drives -> [Records -> Data]]
  BY <1>1, WrittenType DEF BufferInv
<1> QED
  BY <1>1, <1>2 DEF WRITE_FLUSH, DO_WRITE, INIT_WRT_PENDING, BufferInv, TypeOK,
                    CountCleared

LEMMA ReadBuffer ==
  ASSUME BufferInv, NEW r \in Records, READ(r)
  PROVE  BufferInv'
<1>1. /\ IS_WRT_PENDING' = FALSE /\ WRT_COUNT' = 0
      /\ image' \in [Drives -> [Records -> Data]]
      /\ UNCHANGED <<WRT_OFFSET, WRT_SECTOR_NO, cfd>> /\ CURRENT_SECTOR_NO' = r
      /\ ~IS_WRT_PENDING => image' = image
  BY FlushBuffer DEF READ
<1>2. /\ Block(r) \in Records /\ Block(r) % Factor = 0 /\ r % Factor \in Slots
      /\ \A i \in Slots : Block(r) + i \in Records
  BY BlockInImage
<1>3. 0 \in 0 .. 255 /\ TypeOK /\ READ_SUB(r)
  BY DEF BufferInv, READ
<1>4. CASE Hit(r)
  <2>1. /\ dma' = DMABUF[r % Factor] /\ ret' = "read"
        /\ UNCHANGED <<IS_RD_CACHED, CACHE_SECTOR_NO, DMABUF>>
    BY <1>3, <1>4 DEF READ_SUB, cacheVars
  <2>2. image' = image
    BY <1>1, <1>4 DEF Hit, BufferInv, OneUse
  <2>3. dma' \in Data
    BY <1>2, <1>3, <2>1 DEF TypeOK
  <2>4. TypeOK'
    BY <1>1, <1>3, <2>1, <2>3, Zenon DEF TypeOK
  <2> QED
    BY <1>1, <2>1, <2>2, <2>4
       DEF BufferInv, CacheAligned, OneUse, CountCleared, CacheIsOnSome, CacheIsOnCard
<1>5. CASE ~Hit(r)
  <2>1. PICK ok \in Outcomes :
          /\ IS_RD_CACHED' = ok
          /\ IF ok
             THEN /\ DMABUF' = [i \in Slots |-> image'[cfd][Block(r) + i]]
                  /\ dma' = DMABUF'[r % Factor]
                  /\ CACHE_SECTOR_NO' = Block(r) /\ ret' = "read"
             ELSE UNCHANGED <<DMABUF, dma, CACHE_SECTOR_NO>> /\ ret' = "read error"
    BY <1>3, <1>5 DEF READ_SUB
  <2>2. ok \in BOOLEAN
    BY BlockingAssumption, Zenon
  <2>3. CASE ok = TRUE
    <3>1. /\ IS_RD_CACHED' = TRUE /\ CACHE_SECTOR_NO' = Block(r) /\ ret' = "read"
          /\ DMABUF' = [i \in Slots |-> image'[cfd][Block(r) + i]]
          /\ dma' = DMABUF'[r % Factor]
      BY <2>1, <2>3
    <3>2. \A i \in Slots : image'[cfd][Block(r) + i] \in Data
      BY <1>1, <1>2, <1>3 DEF TypeOK
    <3>3. DMABUF' \in [Slots -> Data] /\ dma' \in Data
      BY <1>2, <3>1, <3>2
    <3>4. TypeOK'
      BY <1>1, <1>2, <1>3, <3>1, <3>3, Zenon DEF TypeOK
    <3>5. CacheIsOnCard' /\ CacheIsOnSome'
      BY <1>1, <3>1, <3>4 DEF CacheIsOnCard, CacheIsOnSome, TypeOK
    <3> QED
      BY <1>1, <1>2, <3>1, <3>4, <3>5
         DEF BufferInv, CacheAligned, OneUse, CountCleared
  <2>4. CASE ok = FALSE
    <3>1. /\ IS_RD_CACHED' = FALSE /\ ret' = "read error"
          /\ UNCHANGED <<DMABUF, dma, CACHE_SECTOR_NO>>
      BY <2>1, <2>4
    <3>2. TypeOK'
      BY <1>1, <1>3, <3>1, Zenon DEF TypeOK
    <3> QED
      BY <1>1, <3>1, <3>2
         DEF BufferInv, CacheAligned, OneUse, CountCleared, CacheIsOnSome, CacheIsOnCard
  <2> QED
    BY <2>2, <2>3, <2>4
<1> QED
  BY <1>4, <1>5

LEMMA WriteBuffer ==
  ASSUME BufferInv, NEW r \in Records, NEW data \in Data, NEW C,
         WRT_COUNT < CountBound, WRITE(r, data, C)
  PROVE  BufferInv'
<1> DEFINE slot == r % Factor
           first == WritePosition(r)
           count == (WRT_COUNT + 1) % 256
<1>1. /\ IS_RD_CACHED' = FALSE /\ UNCHANGED <<CACHE_SECTOR_NO, cfd, dma>>
      /\ CURRENT_SECTOR_NO' = r /\ DMABUF' = [DMABUF EXCEPT ![slot] = data]
      /\ WRT_SECTOR_NO' = first[1] /\ WRT_OFFSET' = first[2]
  BY DEF WRITE, WRITE_start
<1>2. TypeOK /\ slot \in Slots
  BY BlockInImage DEF BufferInv
<1>3. DMABUF' \in [Slots -> Data]
  BY <1>1, <1>2 DEF TypeOK
<1>4. first[1] \in Records /\ first[2] \in Slots
  BY <1>2 DEF TypeOK, WritePosition
<1>5. count \in 0 .. 255 /\ 0 \in 0 .. 255
  <2>1. WRT_COUNT \in 0 .. 255
    BY <1>2 DEF TypeOK
  <2> QED
    BY <2>1
<1>6. /\ ret' \in {"write", "write error"}
      /\ image' \in [Drives -> [Records -> Data]]
      /\ \/ IS_WRT_PENDING' = FALSE /\ WRT_COUNT' = 0
         \/ IS_WRT_PENDING' = TRUE /\ WRT_COUNT' = count
  <2>1. CASE slot = Factor - 1 \/ C = 1
    <3>1. PICK ok \in Outcomes :
            /\ DO_WRITE(DMABUF', first[1], first[2], count, ok)
            /\ ret' = IF ok THEN "write" ELSE "write error"
      BY <2>1 DEF WRITE
    <3>2. Written(DMABUF', first[1], first[2], count)
            \in [Drives -> [Records -> Data]]
      BY <1>2, <1>3, WrittenType
    <3> QED
      BY <1>2, <3>1, <3>2 DEF DO_WRITE, INIT_WRT_PENDING, TypeOK
  <2>2. CASE ~(slot = Factor - 1 \/ C = 1)
    BY <1>2, <2>2 DEF WRITE, TypeOK
  <2> QED
    BY <2>1, <2>2
<1>7. TypeOK'
  <2> HIDE DEF first, count, slot
  <2>1. /\ CACHE_SECTOR_NO \in Records /\ cfd \in Drives /\ dma \in Data
        /\ r \in Records
    BY <1>2 DEF TypeOK
  <2> QED
    BY <1>1, <1>3, <1>4, <1>5, <1>6, <2>1, Zenon DEF TypeOK
<1> QED
  BY <1>1, <1>6, <1>7
     DEF BufferInv, CacheAligned, OneUse, CountCleared, CacheIsOnSome, CacheIsOnCard

LEMMA SelectBuffer ==
  ASSUME BufferInv, NEW d \in Selectable, SELDSK(d)
  PROVE  BufferInv'
<1>1. /\ IS_WRT_PENDING' = FALSE /\ WRT_COUNT' = 0
      /\ image' \in [Drives -> [Records -> Data]]
      /\ UNCHANGED <<WRT_OFFSET, WRT_SECTOR_NO, DMABUF, CURRENT_SECTOR_NO, dma>>
      /\ ~IS_WRT_PENDING => image' = image
  BY FlushBuffer DEF SELDSK
<1>2. 0 \in 0 .. 255 /\ 0 \in Drives /\ TypeOK
  BY Constants DEF BufferInv
<1>3. CASE d \notin Drives
  <2>1. /\ cfd' = 0 /\ ret' = "select error"
        /\ UNCHANGED <<IS_RD_CACHED, CACHE_SECTOR_NO>>
    BY <1>3 DEF SELDSK, cacheVars
  <2>2. TypeOK'
    BY <1>1, <1>2, <2>1, Zenon DEF TypeOK
  <2>3. IS_RD_CACHED => image' = image
    BY <1>1 DEF BufferInv, OneUse
  <2>4. ExistingOnly => cfd = 0
    BY <1>2, <1>3 DEF ExistingOnly, TypeOK
  <2> QED
    BY <1>1, <2>1, <2>2, <2>3, <2>4
       DEF BufferInv, CacheAligned, OneUse, CountCleared, CacheIsOnSome, CacheIsOnCard
<1>4. CASE d \in Drives
  <2>1. /\ IS_RD_CACHED' = FALSE /\ UNCHANGED CACHE_SECTOR_NO
        /\ cfd' \in {d, 0} /\ ret' \in {"select", "select error"}
    BY <1>4 DEF SELDSK
  <2>2. TypeOK'
    BY <1>1, <1>2, <1>4, <2>1, Zenon DEF TypeOK
  <2> QED
    BY <1>1, <2>1, <2>2
       DEF BufferInv, CacheAligned, OneUse, CountCleared, CacheIsOnSome, CacheIsOnCard
<1> QED
  BY <1>3, <1>4

LEMMA WarmBootBuffer == BufferInv /\ WBOOT => BufferInv'
<1> SUFFICES ASSUME BufferInv, WBOOT PROVE BufferInv'
  OBVIOUS
<1>1. /\ IS_RD_CACHED' = FALSE /\ IS_WRT_PENDING' = FALSE /\ WRT_COUNT' = 0
      /\ cfd' = 0 /\ ret' = "none"
      /\ UNCHANGED <<image, DMABUF, CACHE_SECTOR_NO, WRT_OFFSET, WRT_SECTOR_NO,
                     CURRENT_SECTOR_NO, dma>>
  BY DEF WBOOT, INIT_WRT_PENDING
<1>2. 0 \in 0 .. 255 /\ 0 \in Drives /\ TypeOK
  BY Constants DEF BufferInv
<1>3. TypeOK'
  BY <1>1, <1>2, Zenon DEF TypeOK
<1> QED
  BY <1>1, <1>3
     DEF BufferInv, CacheAligned, OneUse, CountCleared, CacheIsOnSome, CacheIsOnCard

(* What DMABUF and its flags mean holds whoever calls, and however         *)
(* transfers fail.                                                         *)
THEOREM BufferInvariance == Spec => []BufferInv
<1>1. BufferInv /\ [Next]_vars => BufferInv'
  <2> SUFFICES ASSUME BufferInv, [Next]_vars PROVE BufferInv'
    OBVIOUS
  <2>1. CASE \E r \in Records : READ(r)
    BY <2>1, ReadBuffer
  <2>2. CASE \E r \in Records, data \in Data \ {Junk}, C \in 0 .. 2 :
               MayWrite(r) /\ WRT_COUNT < CountBound /\ WRITE(r, data, C)
    BY <2>2, WriteBuffer
  <2>3. CASE \E d \in Selectable : SELDSK(d)
    BY <2>3, SelectBuffer
  <2>4. CASE WBOOT
    BY <2>4, WarmBootBuffer
  <2>5. CASE UNCHANGED vars
    BY <2>5 DEF vars, cacheVars, wrtVars, BufferInv, TypeOK, CacheAligned, OneUse,
                CountCleared, CacheIsOnSome, CacheIsOnCard
  <2> QED
    BY <2>1, <2>2, <2>3, <2>4, <2>5 DEF Next
<1> QED
  BY <1>1, InitBuffer, PTL DEF Spec

(* No count leaves its byte, no record its image, no slot the buffer.      *)
THEOREM TypeCorrect == Spec => []TypeOK
BY BufferInvariance, PTL DEF BufferInv

(* However transfers fail, a cached block is a block of the selected drive *)
(* as it is on the card (READ_SUB, WRITE_SUB, SELDSK).                     *)
THEOREM CacheCoherent ==
  ASSUME ExistingOnly
  PROVE  Spec => []CacheIsOnCard
<1>1. BufferInv => CacheIsOnCard
  BY DEF BufferInv
<1> QED
  BY <1>1, BufferInvariance, PTL
-----------------------------------------------------------------------------
(* The run that a sequential caller's next record belongs to: it begins at *)
(* its own slot, has no gap and ends with this record.                     *)
LEMMA NextRun ==
  ASSUME Sequential, BufferInv, RunInv, NEW r \in Records,
         MayWrite(r), WRT_COUNT < CountBound
  PROVE  /\ (WRT_COUNT + 1) % 256 = WRT_COUNT + 1 /\ WRT_COUNT \in Nat
         /\ WritePosition(r)[1] \in Records
         /\ WritePosition(r)[2] = WritePosition(r)[1] % Factor
         /\ WritePosition(r)[2] + WRT_COUNT = r % Factor
         /\ WritePosition(r)[1] + WRT_COUNT = r
<1>1. /\ WRT_COUNT \in 0 .. 255 /\ WRT_SECTOR_NO \in Records /\ WRT_OFFSET \in Slots
      /\ CountBound \in 1 .. 255
  BY BlockingAssumption DEF BufferInv, TypeOK
<1>2. (WRT_COUNT + 1) % 256 = WRT_COUNT + 1
  BY <1>1
<1>3. r \in Nat /\ r % Factor \in Slots /\ Slots \subseteq Nat
  BY BlockInImage, Constants DEF Records, Slots
<1>4. CASE IS_WRT_PENDING
  <2>1. r = WRT_SECTOR_NO + WRT_COUNT
    BY <1>4 DEF MayWrite
  <2>2. WRT_OFFSET + WRT_COUNT < Factor /\ WRT_OFFSET = WRT_SECTOR_NO % Factor
    BY <1>4 DEF RunInv, PendingFits
  <2>3. r % Factor = WRT_OFFSET + WRT_COUNT
    <3>1. WRT_SECTOR_NO \in Nat /\ WRT_COUNT \in Nat
      BY <1>1, Constants DEF Records
    <3> QED
      BY <2>1, <2>2, <3>1, SlotShift
  <2> QED
    BY <1>1, <1>2, <1>4, <2>1, <2>2, <2>3 DEF WritePosition
<1>5. CASE ~IS_WRT_PENDING
  <2>1. WRT_COUNT = 0
    BY <1>5 DEF BufferInv, CountCleared
  <2>2. WritePosition(r)[1] = r /\ WritePosition(r)[2] = r % Factor
    BY <1>5 DEF WritePosition
  <2>3. r % Factor \in Nat
    BY <1>3
  <2> QED
    BY <1>2, <1>3, <2>1, <2>2, <2>3
<1> QED
  BY <1>4, <1>5

(* Within a run, slots follow each other as the records do.                *)
LEMMA RunSlot ==
  ASSUME NEW f \in Records, NEW n \in Nat, (f % Factor) + n <= Factor,
         NEW s \in Records, s \in f .. f + n - 1
  PROVE  s % Factor = (f % Factor) + s - f /\ s % Factor \in Slots
<1>1. f \in Nat /\ s \in Nat /\ s - f \in Nat /\ f % Factor \in 0 .. Factor - 1
  BY SlotValue, Constants DEF Records
<1>2. (f % Factor) + (s - f) < Factor
  BY <1>1, Constants
<1>3. (f + (s - f)) % Factor = (f % Factor) + (s - f)
  BY <1>1, <1>2, SlotShift
<1>4. f + (s - f) = s
  BY <1>1
<1> QED
  BY <1>1, <1>2, <1>3, <1>4, Constants DEF Slots

(* A run that does not reach the last slot has room for one more.          *)
LEMMA OneMore ==
  ASSUME NEW o \in 0 .. Factor - 1, NEW n \in Nat, NEW slot \in 0 .. Factor - 1,
         o + n = slot, slot # Factor - 1
  PROVE  o + (n + 1) < Factor /\ n + 1 > 0
<1>1. Factor \in Nat
  BY Constants
<1> QED
  BY <1>1

LEMMA RunStep ==
  ASSUME Sequential, BufferInv, RunInv, [Next]_vars
  PROVE  RunInv'
<1>1. CASE \E r \in Records : READ(r)
  <2>1. IS_WRT_PENDING' = FALSE
    BY <1>1, FlushBuffer DEF READ
  <2> QED
    BY <2>1 DEF RunInv, PendingFits, OnlyConsecutive
<1>2. ASSUME NEW r \in Records, NEW data \in Data \ {Junk}, NEW C \in 0 .. 2,
             MayWrite(r), WRT_COUNT < CountBound, WRITE(r, data, C)
      PROVE  RunInv'
  <2> DEFINE first == WritePosition(r)
  <2>1. /\ (WRT_COUNT + 1) % 256 = WRT_COUNT + 1 /\ WRT_COUNT \in Nat
        /\ first[1] \in Records /\ first[2] = first[1] % Factor
        /\ first[2] + WRT_COUNT = r % Factor /\ first[1] + WRT_COUNT = r
    BY <1>2, NextRun
  <2>2. /\ WRT_SECTOR_NO' = first[1] /\ WRT_OFFSET' = first[2]
        /\ CURRENT_SECTOR_NO' = r
    BY <1>2 DEF WRITE
  <2>3. CASE r % Factor = Factor - 1 \/ C = 1
    <3>1. IS_WRT_PENDING' = FALSE
      BY <1>2, <2>3 DEF WRITE, DO_WRITE, INIT_WRT_PENDING
    <3> QED
      BY <3>1 DEF RunInv, PendingFits, OnlyConsecutive
  <2>4. CASE ~(r % Factor = Factor - 1 \/ C = 1)
    <3>1. IS_WRT_PENDING' = TRUE /\ WRT_COUNT' = WRT_COUNT + 1
      BY <1>2, <2>1, <2>4 DEF WRITE
    <3>2. r % Factor \in 0 .. Factor - 1 /\ r \in Nat
      BY SlotValue, Constants DEF Records
    <3>3. first[1] \in Nat
      BY <2>1, Constants DEF Records
    <3> HIDE DEF first
    <3>4. WRT_OFFSET' = WRT_SECTOR_NO' % Factor
      BY <2>1, <2>2
    <3>5. WRT_OFFSET' + WRT_COUNT' < Factor /\ WRT_COUNT' > 0
      <4>1. first[2] + (WRT_COUNT + 1) < Factor /\ WRT_COUNT + 1 > 0
        BY <2>1, <2>4, <3>2, <3>3, SlotValue, OneMore
      <4> QED
        BY <2>2, <3>1, <4>1, Zenon
    <3>6. CURRENT_SECTOR_NO' \in WRT_SECTOR_NO' .. WRT_SECTOR_NO' + WRT_COUNT' - 1
      <4>1. WRT_COUNT \in Nat /\ first[1] + WRT_COUNT = r
        BY <2>1
      <4> QED
        BY <2>2, <3>1, <3>3, <4>1
    <3> QED
      BY <3>4, <3>5, <3>6 DEF RunInv, PendingFits, OnlyConsecutive
  <2> QED
    BY <2>3, <2>4
<1>3. CASE \E d \in Selectable : SELDSK(d)
  <2>1. IS_WRT_PENDING' = FALSE
    BY <1>3, FlushBuffer DEF SELDSK
  <2> QED
    BY <2>1 DEF RunInv, PendingFits, OnlyConsecutive
<1>4. CASE WBOOT
  BY <1>4 DEF WBOOT, INIT_WRT_PENDING, RunInv, PendingFits, OnlyConsecutive
<1>5. CASE UNCHANGED vars
  BY <1>5 DEF vars, cacheVars, wrtVars, RunInv, PendingFits, OnlyConsecutive
<1> QED
  BY <1>1, <1>2, <1>3, <1>4, <1>5 DEF Next

(* What waits in DMABUF is a run of records.                               *)
THEOREM RunInvariance ==
  ASSUME Sequential
  PROVE  Spec => []RunInv
<1>1. Init => RunInv
  BY DEF Init, RunInv, PendingFits, OnlyConsecutive
<1>2. BufferInv /\ RunInv /\ [Next]_vars => RunInv'
  BY RunStep
<1> QED
  BY <1>1, <1>2, BufferInvariance, PTL DEF Spec

(* The deferred records of a sequential caller lie in DMABUF at the slots  *)
(* of their numbers, with room for the next (WRITE_SUB).                   *)
THEOREM PendingFitsAlways ==
  ASSUME Sequential
  PROVE  Spec => []PendingFits
<1>1. RunInv => PendingFits
  BY DEF RunInv
<1> QED
  BY <1>1, RunInvariance, PTL

(* A record whose write was deferred is in the run that will be written.   *)
THEOREM NoGaps ==
  ASSUME Sequential
  PROVE  Spec => []OnlyConsecutive
<1>1. RunInv => OnlyConsecutive
  BY DEF RunInv
<1> QED
  BY <1>1, RunInvariance, PTL
-----------------------------------------------------------------------------
(* What programs see, and what a call makes of it.                         *)
LEMMA SeenType == BufferInv => Seen \in [Drives -> [Records -> Data]]
<1> SUFFICES ASSUME BufferInv, NEW d \in Drives, NEW r \in Records
             PROVE  /\ DMABUF[r % Factor] \in Data
                    /\ image[d][r] \in Data
  BY DEF Seen
<1> QED
  BY BlockInImage DEF BufferInv, TypeOK

LEMMA SeenIsImage == BufferInv /\ ~IS_WRT_PENDING => Seen = image
BY DEF Seen, BufferInv, TypeOK

(* The image with a run of records over it, each from its slot in buf.     *)
Overlaid(buf, f, n) == [d \in Drives |-> [s \in Records |->
  IF d = cfd /\ s \in f .. f + n - 1 THEN buf[s % Factor] ELSE image[d][s]]]

(* To write a run from its slots on is to write each record from its slot. *)
LEMMA WrittenRun ==
  ASSUME TypeOK, NEW buf, NEW f \in Records, NEW n \in Nat, (f % Factor) + n <= Factor
  PROVE  Written(buf, f, f % Factor, n) = Overlaid(buf, f, n)
<1> DEFINE old(s) == IF s \in f .. f + n - 1
                     THEN LET slot == (f % Factor) + s - f
                          IN IF slot \in Slots THEN buf[slot] ELSE Junk
                     ELSE image[cfd][s]
           new(d, s) == IF d = cfd /\ s \in f .. f + n - 1 THEN buf[s % Factor]
                                                          ELSE image[d][s]
<1>1. ASSUME NEW s \in Records
      PROVE  old(s) = new(cfd, s)
  BY RunSlot
<1>2. image \in [Drives -> [Records -> Data]] /\ cfd \in Drives
  BY DEF TypeOK
<1>3. ASSUME NEW d \in Drives, d # cfd
      PROVE  [s \in Records |-> new(d, s)] = image[d]
  BY <1>2, <1>3
<1>4. [s \in Records |-> old(s)] = [s \in Records |-> new(cfd, s)]
  BY <1>1
<1>5. Written(buf, f, f % Factor, n) = [image EXCEPT ![cfd] = [s \in Records |-> old(s)]]
  BY DEF Written
<1> HIDE DEF old, new
<1>6. [image EXCEPT ![cfd] = [s \in Records |-> old(s)]]
        = [d \in Drives |-> [s \in Records |-> new(d, s)]]
  BY <1>2, <1>3, <1>4
<1> QED
  BY <1>5, <1>6, Zenon DEF new, Overlaid

(* A flush that succeeds makes durable what programs see, and nothing else *)
(* changes for them.                                                       *)
LEMMA FlushSaves ==
  ASSUME FALSE \notin Outcomes, BufferInv, RunInv, WRITE_FLUSH, BufferInv'
  PROVE  image' = Seen /\ Seen' = Seen
<1>1. IS_WRT_PENDING' = FALSE
  BY FlushBuffer
<1>2. Seen' = image'
  BY <1>1 DEF Seen, BufferInv, TypeOK
<1>3. CASE ~IS_WRT_PENDING
  BY <1>2, <1>3, FlushBuffer, SeenIsImage
<1>4. CASE IS_WRT_PENDING
  <2>1. image' = Written(DMABUF, WRT_SECTOR_NO, WRT_OFFSET, WRT_COUNT)
    <3>1. PICK ok \in Outcomes :
            DO_WRITE(DMABUF, WRT_SECTOR_NO, WRT_OFFSET, WRT_COUNT, ok)
      BY <1>4 DEF WRITE_FLUSH
    <3>2. ok = TRUE
      BY BlockingAssumption, Zenon
    <3> QED
      BY <3>1, <3>2, Zenon DEF DO_WRITE
  <2> TypeOK
    BY DEF BufferInv
  <2>2. /\ WRT_SECTOR_NO \in Records /\ WRT_COUNT \in Nat
        /\ WRT_OFFSET \in 0 .. Factor - 1
    <3>1. WRT_SECTOR_NO \in Records /\ WRT_COUNT \in 0 .. 255 /\ WRT_OFFSET \in Slots
      BY Zenon DEF TypeOK
    <3>2. WRT_COUNT \in Nat
      BY <3>1
    <3> QED
      BY <3>1, <3>2, Zenon DEF Slots
  <2>3. WRT_OFFSET = WRT_SECTOR_NO % Factor /\ WRT_OFFSET + WRT_COUNT < Factor
    BY <1>4 DEF RunInv, PendingFits
  <2>4. (WRT_SECTOR_NO % Factor) + WRT_COUNT <= Factor
    <3>1. WRT_OFFSET + WRT_COUNT <= Factor
      BY <2>2, <2>3, Constants
    <3> QED
      BY <2>3, <3>1, Zenon
  <2>5. Written(DMABUF, WRT_SECTOR_NO, WRT_SECTOR_NO % Factor, WRT_COUNT)
          = Overlaid(DMABUF, WRT_SECTOR_NO, WRT_COUNT)
    BY <2>2, <2>4, WrittenRun
  <2>6. image' = Seen
    BY <1>4, <2>1, <2>3, <2>5, Zenon DEF Seen, Overlaid
  <2> QED
    BY <1>2, <2>6
<1> QED
  BY <1>3, <1>4

(* READ is Read: the record programs see comes back, whether from DMABUF   *)
(* or from the card.                                                       *)
LEMMA ReadIsRead ==
  ASSUME FALSE \notin Outcomes, ExistingOnly, BufferInv, RunInv, BufferInv',
         NEW r \in Records, READ(r)
  PROVE  Cpm!Read(r)
<1>1. image' = Seen /\ Seen' = Seen /\ UNCHANGED cfd
  BY FlushSaves DEF READ
<1>2. r % Factor \in Slots /\ r = Block(r) + (r % Factor)
  BY BlockInImage
<1>3. CASE Hit(r)
  <2>1. dma' = DMABUF[r % Factor]
    BY <1>3 DEF READ, READ_SUB
  <2>2. CACHE_SECTOR_NO = Block(r) /\ CacheIsOnCard /\ IS_RD_CACHED /\ ~IS_WRT_PENDING
    BY <1>3 DEF Hit, BufferInv, OneUse
  <2>3. DMABUF[r % Factor] = image[cfd][Block(r) + (r % Factor)]
    BY <1>2, <2>2 DEF CacheIsOnCard
  <2>4. dma' = Seen[cfd][r]
    BY <1>2, <2>1, <2>2, <2>3, SeenIsImage, Zenon
  <2> QED
    BY <1>1, <2>4 DEF Cpm!Read
<1>4. CASE ~Hit(r)
  <2>1. /\ DMABUF' = [i \in Slots |-> image'[cfd][Block(r) + i]]
        /\ dma' = DMABUF'[r % Factor]
    BY <1>4, BlockingAssumption, Zenon DEF READ, READ_SUB
  <2>2. dma' = image'[cfd][Block(r) + (r % Factor)]
    BY <1>2, <2>1, Zenon
  <2>3. dma' = Seen[cfd][r]
    BY <1>1, <1>2, <2>2, Zenon
  <2> QED
    BY <1>1, <2>3 DEF Cpm!Read
<1> QED
  BY <1>3, <1>4

(* WRITE is Write: the one record changes for programs, and the card keeps *)
(* what it has or gets all they see.                                       *)
LEMMA WriteIsWrite ==
  ASSUME Sequential, FALSE \notin Outcomes, BufferInv, RunInv, BufferInv',
         NEW r \in Records, NEW data \in Data, NEW C,
         MayWrite(r), WRT_COUNT < CountBound, WRITE(r, data, C)
  PROVE  Cpm!Write(r, data)
<1> DEFINE f == WritePosition(r)[1]
           n == WRT_COUNT + 1
           new == Overlaid(DMABUF', f, n)
<1>1. /\ (WRT_COUNT + 1) % 256 = n /\ WRT_COUNT \in Nat /\ f \in Records
      /\ WritePosition(r)[2] = f % Factor
      /\ (f % Factor) + WRT_COUNT = r % Factor /\ f + WRT_COUNT = r
  BY NextRun
<1>2. r % Factor \in 0 .. Factor - 1 /\ r % Factor \in Slots /\ r \in Nat /\ f \in Nat
  BY <1>1, BlockInImage, SlotValue, Constants DEF Records
<1>3. TypeOK /\ UNCHANGED <<cfd, dma>> /\ DMABUF' = [DMABUF EXCEPT ![r % Factor] = data]
  BY DEF WRITE, BufferInv
<1>4. (f % Factor) + n <= Factor /\ n \in Nat
  <2> DEFINE slot == r % Factor
             offset == f % Factor
  <2>1. slot \in 0 .. Factor - 1 /\ offset + WRT_COUNT = slot /\ WRT_COUNT \in Nat
    BY <1>1, <1>2
  <2>2. offset \in 0 .. Factor - 1
    BY <1>2, SlotValue
  <2> HIDE DEF slot, offset
  <2>3. offset + n <= Factor /\ n \in Nat
    BY <2>1, <2>2, Constants
  <2> QED
    BY <2>3 DEF offset
(* The record goes to its own slot, and the others of the run stay.        *)
<1>5. new = [Seen EXCEPT ![cfd][r] = data]
  <2>1. ASSUME NEW s \in Records
        PROVE  new[cfd][s] = IF s = r THEN data ELSE Seen[cfd][s]
    <3>1. new[cfd][s] = IF s \in f .. f + n - 1 THEN DMABUF'[s % Factor] ELSE image[cfd][s]
      <4>1. cfd \in Drives
        BY <1>3, Zenon DEF TypeOK
      <4> QED
        BY <4>1 DEF Overlaid
    <3>2. Seen[cfd][s] = IF /\ IS_WRT_PENDING
                            /\ s \in WRT_SECTOR_NO .. WRT_SECTOR_NO + WRT_COUNT - 1
                         THEN DMABUF[s % Factor] ELSE image[cfd][s]
      BY <1>3, Zenon DEF TypeOK, Seen
    <3> HIDE DEF new
    <3>3. s \in Nat
      BY Constants DEF Records
    <3>4. CASE s = r
      <4>1. s \in f .. f + n - 1
        BY <1>1, <1>2, <3>4
      <4>2. DMABUF'[r % Factor] = data
        BY <1>2, <1>3, Zenon DEF TypeOK
      <4> QED
        BY <3>1, <3>4, <4>1, <4>2, Zenon
    <3>5. CASE s # r /\ s \in f .. f + n - 1
      <4>1. s \in f .. f + WRT_COUNT - 1 /\ WRT_COUNT # 0
        BY <1>1, <1>2, <3>3, <3>5
      <4>2. IS_WRT_PENDING /\ f = WRT_SECTOR_NO
        <5>1. IS_WRT_PENDING
          BY <4>1, Zenon DEF BufferInv, CountCleared
        <5> QED
          BY <5>1 DEF WritePosition
      <4>3. s % Factor # r % Factor /\ s % Factor \in Slots
        <5>1. s % Factor \in Slots
          BY BlockInImage
        <5>2. s % Factor = (f % Factor) + s - f
          BY <1>1, <1>4, <3>5, RunSlot
        <5>3. (f % Factor) + s - f # (f % Factor) + WRT_COUNT
          <6>1. f % Factor \in Nat
            BY <1>2, SlotValue
          <6> QED
            BY <1>1, <1>2, <3>3, <3>5, <6>1
        <5> QED
          BY <1>1, <5>1, <5>2, <5>3, Zenon
      <4>4. DMABUF'[s % Factor] = DMABUF[s % Factor]
        BY <1>3, <4>3, Zenon DEF TypeOK
      <4> QED
        BY <3>1, <3>2, <3>5, <4>1, <4>2, <4>4, Zenon
    <3>6. CASE s \notin f .. f + n - 1
      <4>1. s \notin f .. f + WRT_COUNT - 1 /\ s # r
        BY <1>1, <1>2, <3>3, <3>6
      <4>2. IS_WRT_PENDING => f = WRT_SECTOR_NO
        BY DEF WritePosition
      <4> QED
        BY <3>1, <3>2, <3>6, <4>1, <4>2, Zenon
    <3> QED
      BY <3>4, <3>5, <3>6
  <2>2. ASSUME NEW d \in Drives, d # cfd, NEW s \in Records
        PROVE  new[d][s] = Seen[d][s]
    BY <2>2 DEF Seen, Overlaid
  <2>3. new = [d \in Drives |-> [s \in Records |-> new[d][s]]]
    BY DEF Overlaid
  <2>4. Seen \in [Drives -> [Records -> Data]] /\ cfd \in Drives
    BY <1>3, SeenType, Zenon DEF TypeOK
  <2> HIDE DEF new
  <2>5. [Seen EXCEPT ![cfd][r] = data]
          = [d \in Drives |-> [s \in Records |->
               IF d = cfd /\ s = r THEN data ELSE Seen[d][s]]]
    BY <2>4
  <2>6. ASSUME NEW d \in Drives, NEW s \in Records
        PROVE  new[d][s] = IF d = cfd /\ s = r THEN data ELSE Seen[d][s]
    BY <2>1, <2>2, Zenon
  <2> QED
    BY <2>3, <2>5, <2>6, Zenon
<1>6. CASE r % Factor = Factor - 1 \/ C = 1
  <2>1. IS_WRT_PENDING' = FALSE
    BY <1>6, Zenon DEF WRITE, DO_WRITE, INIT_WRT_PENDING
  <2>2. image' = Written(DMABUF', f, f % Factor, n)
    <3>1. PICK ok \in Outcomes : DO_WRITE(DMABUF', f, f % Factor, n, ok)
      BY <1>1, <1>6, Zenon DEF WRITE
    <3>2. ok = TRUE
      BY BlockingAssumption, Zenon
    <3> QED
      BY <3>1, <3>2, Zenon DEF DO_WRITE
  <2>3. image' = new
    BY <1>1, <1>3, <1>4, <2>2, WrittenRun
  <2>4. Seen' = image'
    BY <2>1 DEF Seen, BufferInv, TypeOK
  <2> QED
    BY <1>3, <1>5, <2>3, <2>4, Zenon DEF Cpm!Write
<1>7. CASE ~(r % Factor = Factor - 1 \/ C = 1)
  <2>1. /\ IS_WRT_PENDING' = TRUE /\ WRT_COUNT' = n /\ image' = image
        /\ WRT_SECTOR_NO' = f
    BY <1>1, <1>7, Zenon DEF WRITE
  <2>2. Seen' = new
    BY <1>3, <2>1 DEF Seen, Overlaid
  <2> QED
    BY <1>3, <1>5, <2>1, <2>2, Zenon DEF Cpm!Write
<1> QED
  BY <1>6, <1>7

LEMMA SelectIsSelect ==
  ASSUME FALSE \notin Outcomes, BufferInv, RunInv, BufferInv',
         NEW d \in Selectable, SELDSK(d)
  PROVE  Cpm!Select(cfd') /\ cfd' \in Drives
<1>1. image' = Seen /\ Seen' = Seen /\ dma' = dma
  BY FlushSaves DEF SELDSK
<1>2. cfd' \in Drives
  BY DEF BufferInv, TypeOK
<1> QED
  BY <1>1, <1>2 DEF Cpm!Select

(* A warm boot forgets the writes that wait: programs see the card again.  *)
LEMMA WarmBootForgets ==
  ASSUME BufferInv', WBOOT
  PROVE  Cpm!WarmBoot(0)
<1>1. ~IS_WRT_PENDING' /\ UNCHANGED <<image, dma>> /\ cfd' = 0
  BY DEF WBOOT, INIT_WRT_PENDING
<1>2. Seen' = image'
  BY <1>1 DEF Seen, BufferInv, TypeOK
<1> QED
  BY <1>1, <1>2 DEF Cpm!WarmBoot

LEMMA InitIsInit == Init => Cpm!Init
<1> SUFFICES ASSUME Init
             PROVE  Cpm!Init
  OBVIOUS
<1>1. TypeOK /\ Seen = image
  BY InitBuffer, SeenIsImage DEF Init, BufferInv
<1> QED
  BY <1>1 DEF Cpm!Init, TypeOK

LEMMA StepIsStep ==
  ASSUME Sequential, FALSE \notin Outcomes, ExistingOnly,
         BufferInv, RunInv, BufferInv', [Next]_vars
  PROVE  [Cpm!Next]_<<Seen, image, cfd, dma>>
<1>1. ASSUME NEW r \in Records, READ(r)
      PROVE  Cpm!Next
  BY <1>1, ReadIsRead DEF Cpm!Next
<1>2. ASSUME NEW r \in Records, NEW data \in Data \ {Junk}, NEW C \in 0 .. 2,
             MayWrite(r), WRT_COUNT < CountBound, WRITE(r, data, C)
      PROVE  Cpm!Next
  BY <1>2, WriteIsWrite DEF Cpm!Next
<1>3. ASSUME NEW d \in Selectable, SELDSK(d)
      PROVE  Cpm!Next
  BY <1>3, SelectIsSelect DEF Cpm!Next
<1>4. ASSUME WBOOT
      PROVE  Cpm!Next
  BY <1>4, WarmBootForgets, Constants DEF Cpm!Next
<1>5. CASE UNCHANGED vars
  BY <1>5 DEF vars, cacheVars, wrtVars, Seen
<1> QED
  BY <1>1, <1>2, <1>3, <1>4, <1>5 DEF Next

(* The disk that bios.asm makes of the card is CpmDisk: records read back  *)
(* as written, and what READ, SELDSK or an immediate write returns from is *)
(* on the card.  Callers write runs and select drives that exist, and no   *)
(* transfer fails.                                                         *)
THEOREM Refinement ==
  ASSUME Sequential, FALSE \notin Outcomes, ExistingOnly
  PROVE  Spec => ReadsBack
<1>1. Init => Cpm!Init
  BY InitIsInit
<1>2. BufferInv /\ RunInv /\ BufferInv' /\ [Next]_vars
        => [Cpm!Next]_<<Seen, image, cfd, dma>>
  BY StepIsStep
<1> QED
  BY <1>1, <1>2, BufferInvariance, RunInvariance, PTL DEF Spec, ReadsBack, Cpm!Spec
=============================================================================
