------------------------- MODULE BiosConsoleProofs -------------------------
(***************************************************************************)
(* Proofs about the console, for every size of its buffers and of the      *)
(* interrupt queue.  First the ring buffer of xconsoleio.c is a queue;     *)
(* then the invariant says what a wake-up that is under way, or its flag,  *)
(* means to CONOUT and CONIN, however late it comes.                       *)
(***************************************************************************)
EXTENDS BiosConsole, SequenceTheorems, TLAPS

(* A wake-up is under way from its device to its flag.                     *)
Kept(v) == \E i \in 1 .. Len(pending) : pending[i] = v
UnderWay(v) == Kept(v) \/ (serving /\ bus = v)
InputVector == Vector(CONIN_INT)
OutputVector == Vector(CONOUT_INT)

(* Both calls test and clear with interrupts off, and wait with them on.   *)
MainLine == /\ pc \in {"conout", "conin"} => ~iff /\ ~serving
            /\ pc \in {"conout", "conout1", "conout2"} => c \in Printed
            /\ pc \in {"conout1", "conout2", "conin1", "conin2"} => iff \/ serving

(* A wake-up whose character is gone is a wake-up of before a reset, and   *)
(* it comes before the program calls CONIN.                                *)
InputWaits ==
  /\ UnderWay(InputVector) /\ cb_rx1.count = 0 => pc = "program" /\ (iff \/ serving)
  /\ pc = "conin1" /\ flag[InputVector] => cb_rx1.count > 0
  /\ pc = "conin2" => cb_rx1.count > 0

(* Up to half the buffer is ever used, and a wake-up finds less.           *)
OutputDrains ==
  /\ cb_tx1.count <= CONOUT_LIMIT
  /\ UnderWay(OutputVector) => cb_tx1.count < CONOUT_LIMIT
  /\ pc = "conout1" /\ flag[OutputVector] => cb_tx1.count < CONOUT_LIMIT
  /\ pc = "conout2" => cb_tx1.count < CONOUT_LIMIT

IInv == TypeOK /\ MainLine /\ InputWaits /\ OutputDrains
-----------------------------------------------------------------------------
(* The ring buffer is a queue.  A place in it, without the modulus.        *)
At(S, h, k) == (h + k) % S

LEMMA AtValue ==
  ASSUME NEW S \in Nat \ {0}, NEW h \in 0 .. S - 1, NEW k \in 0 .. S
  PROVE  At(S, h, k) = (IF h + k < S THEN h + k ELSE h + k - S) /\ At(S, h, k) \in 0 .. S - 1
BY SMTT(20) DEF At

(* The place behind n characters is free unless they fill the buffer, and  *)
(* moving the head by one shifts the numbering of the places by one.       *)
LEMMA AtSteps ==
  ASSUME NEW S \in Nat \ {0}, NEW h \in 0 .. S - 1, NEW n \in 0 .. S
  PROVE  /\ n < S => At(S, At(S, h, n), 1) = At(S, h, n + 1)
         /\ n < S => \A k \in 0 .. n - 1 : At(S, h, k) # At(S, h, n)
         /\ \A k \in 1 .. n : At(S, At(S, h, 1), k - 1) = At(S, h, k)
         /\ At(S, h, 0) = h
<1>1. 0 \in 0 .. S /\ 1 \in 0 .. S
  OBVIOUS
<1>2. PICK t \in 0 .. S - 1 : t = At(S, h, n) /\ t = (IF h + n < S THEN h + n ELSE h + n - S)
  BY AtValue
<1>3. PICK next \in 0 .. S - 1 : /\ next = At(S, h, 1)
                                 /\ next = (IF h + 1 < S THEN h + 1 ELSE h + 1 - S)
  BY <1>1, AtValue
<1>4. n < S => At(S, t, 1) = At(S, h, n + 1)
  <2> SUFFICES ASSUME n < S
               PROVE  At(S, t, 1) = At(S, h, n + 1)
    OBVIOUS
  <2>1. At(S, t, 1) = IF t + 1 < S THEN t + 1 ELSE t + 1 - S
    BY <1>1, AtValue
  <2>2. At(S, h, n + 1) = IF h + (n + 1) < S THEN h + (n + 1) ELSE h + (n + 1) - S
    <3>1. n + 1 \in 0 .. S
      OBVIOUS
    <3> QED
      BY <3>1, AtValue
  <2> QED
    BY <1>2, <2>1, <2>2
<1>5. ASSUME n < S, NEW k \in 0 .. n - 1
      PROVE  At(S, h, k) # t
  <2>1. k \in 0 .. S
    OBVIOUS
  <2>2. At(S, h, k) = IF h + k < S THEN h + k ELSE h + k - S
    BY <2>1, AtValue
  <2> QED
    BY <1>2, <1>5, <2>2
<1>6. ASSUME NEW k \in 1 .. n
      PROVE  At(S, next, k - 1) = At(S, h, k)
  <2>1. k \in 0 .. S /\ k - 1 \in 0 .. S
    OBVIOUS
  <2>2. At(S, h, k) = IF h + k < S THEN h + k ELSE h + k - S
    BY <2>1, AtValue
  <2>3. At(S, next, k - 1) = IF next + (k - 1) < S THEN next + (k - 1) ELSE next + (k - 1) - S
    BY <2>1, AtValue
  <2> QED
    BY <1>3, <2>2, <2>3
<1>7. At(S, h, 0) = h
  BY <1>1, AtValue
<1> QED
  BY <1>2, <1>3, <1>4, <1>5, <1>6, <1>7

(* The fields of a buffer, and its contents as a sequence.                 *)
LEMMA BufferFields ==
  ASSUME NEW S \in Nat \ {0}, NEW Data, NEW cb, BufferOK(cb, S, Data)
  PROVE  /\ cb.size = S /\ cb.buffer \in [0 .. S - 1 -> Data]
         /\ cb.head \in 0 .. S - 1 /\ cb.tail \in 0 .. S - 1 /\ cb.count \in 0 .. S
         /\ cb.tail = At(S, cb.head, cb.count)
BY Zenon DEF BufferOK, At

LEMMA ContentsType ==
  ASSUME NEW S \in Nat \ {0}, NEW Data, NEW cb, BufferOK(cb, S, Data)
  PROVE  /\ Contents(cb) \in Seq(Data) /\ Len(Contents(cb)) = cb.count
         /\ cb.count \in Nat
         /\ \A i \in 1 .. cb.count : Contents(cb)[i] = cb.buffer[At(S, cb.head, i - 1)]
<1> DEFINE e(i) == cb.buffer[At(S, cb.head, i - 1)]
<1>1. /\ cb.size = S /\ cb.buffer \in [0 .. S - 1 -> Data] /\ cb.head \in 0 .. S - 1
      /\ cb.count \in 0 .. S /\ cb.count \in Nat
  BY BufferFields
<1>2. ASSUME NEW i \in 1 .. cb.count
      PROVE  e(i) \in Data
  <2>1. i - 1 \in 0 .. S
    BY <1>1
  <2>2. At(S, cb.head, i - 1) \in 0 .. S - 1
    BY <1>1, <2>1, AtValue
  <2> QED
    BY <1>1, <2>1, <2>2
<1>3. Contents(cb) = [i \in 1 .. cb.count |-> e(i)]
  BY <1>1, Zenon DEF Contents, At
<1> HIDE DEF e
<1>4. Contents(cb) \in Seq(Data)
  BY <1>1, <1>2, <1>3, IsASeq
<1>5. Len(Contents(cb)) = cb.count
  BY <1>1, <1>3, <1>4, LenProperties
<1> QED
  BY <1>1, <1>3, <1>4, <1>5 DEF e

(* Storing a character appends it, unless the buffer is full.              *)
LEMMA EnqueueAppends ==
  ASSUME NEW S \in Nat \ {0}, NEW Data, NEW cb, BufferOK(cb, S, Data),
         NEW data \in Data, ~Full(cb)
  PROVE  /\ BufferOK(x_enqueue(cb, data), S, Data)
         /\ x_enqueue(cb, data).count = cb.count + 1 /\ cb.count < S
         /\ Contents(x_enqueue(cb, data)) = Append(Contents(cb), data)
<1> DEFINE after == x_enqueue(cb, data)
           h == cb.head
           n == cb.count
<1>1. /\ cb.size = S /\ cb.buffer \in [0 .. S - 1 -> Data] /\ h \in 0 .. S - 1
      /\ cb.tail \in 0 .. S - 1 /\ n \in 0 .. S /\ cb.tail = At(S, h, n)
  BY BufferFields
<1>2. n < S /\ n \in Nat
  BY <1>1 DEF Full
<1>3. /\ after.buffer = [cb.buffer EXCEPT ![cb.tail] = data] /\ after.size = S
      /\ after.head = h /\ after.tail = At(S, cb.tail, 1) /\ after.count = n + 1
      /\ after = [buffer |-> after.buffer, size |-> S, head |-> h,
                  tail |-> after.tail, count |-> n + 1]
  BY <1>1, Zenon DEF x_enqueue, BufferOK, At
<1>4. after.buffer \in [0 .. S - 1 -> Data]
  BY <1>1, <1>3
<1>5. /\ At(S, cb.tail, 1) = At(S, h, n + 1)
      /\ \A k \in 0 .. n - 1 : At(S, h, k) # cb.tail
  BY <1>1, <1>2, AtSteps
<1>6. /\ after.tail = At(S, h, n + 1) /\ after.tail \in 0 .. S - 1
      /\ n + 1 \in 0 .. S
  <2>1. n + 1 \in 0 .. S
    BY <1>1, <1>2
  <2>2. At(S, h, n + 1) \in 0 .. S - 1
    BY <1>1, <2>1, AtValue
  <2> QED
    BY <1>3, <1>5, <2>1, <2>2
<1>7. BufferOK(after, S, Data)
  BY <1>1, <1>3, <1>4, <1>6, Zenon DEF BufferOK, At
<1> HIDE DEF after
<1>8. /\ Contents(cb) \in Seq(Data) /\ Len(Contents(cb)) = n
      /\ \A i \in 1 .. n : Contents(cb)[i] = cb.buffer[At(S, h, i - 1)]
  BY <1>1, ContentsType
<1>9. /\ Contents(after) \in Seq(Data) /\ Len(Contents(after)) = n + 1
      /\ \A i \in 1 .. n + 1 : Contents(after)[i] = after.buffer[At(S, h, i - 1)]
  <2>1. /\ Contents(after) \in Seq(Data) /\ Len(Contents(after)) = after.count
        /\ \A i \in 1 .. after.count :
             Contents(after)[i] = after.buffer[At(S, after.head, i - 1)]
    BY <1>7, ContentsType
  <2> QED
    BY <1>3, <2>1, Zenon
<1>10. /\ Append(Contents(cb), data) \in Seq(Data)
       /\ Len(Append(Contents(cb), data)) = n + 1
       /\ \A i \in 1 .. n : Append(Contents(cb), data)[i] = Contents(cb)[i]
       /\ Append(Contents(cb), data)[n + 1] = data
  BY <1>8, AppendProperties
<1>11. ASSUME NEW i \in 1 .. n
       PROVE  Contents(after)[i] = Contents(cb)[i]
  <2>1. i - 1 \in 0 .. S /\ i \in 1 .. n + 1
    BY <1>1, <1>2
  <2>2. i - 1 \in 0 .. n - 1
    BY <1>2
  <2>3. At(S, h, i - 1) \in 0 .. S - 1 /\ At(S, h, i - 1) # cb.tail
    BY <1>1, <1>5, <2>1, <2>2, AtValue
  <2> QED
    BY <1>1, <1>3, <1>8, <1>9, <2>1, <2>3
<1>12. Contents(after)[n + 1] = data
  <2>1. (n + 1) - 1 = n /\ n + 1 \in 1 .. n + 1
    BY <1>1, <1>2
  <2>2. Contents(after)[n + 1] = after.buffer[At(S, h, n)]
    BY <1>9, <2>1
  <2> QED
    BY <1>1, <1>3, <2>2
<1>13. Contents(after) = Append(Contents(cb), data)
  <2>1. \A i \in 1 .. n + 1 : Contents(after)[i] = Append(Contents(cb), data)[i]
    BY <1>2, <1>10, <1>11, <1>12
  <2> QED
    BY <1>9, <1>10, <2>1, SeqEqual
<1> QED
  BY <1>2, <1>3, <1>7, <1>13 DEF after

(* Taking one takes the oldest.                                            *)
LEMMA DequeueTakes ==
  ASSUME NEW S \in Nat \ {0}, NEW Data, NEW cb, BufferOK(cb, S, Data), cb.count > 0
  PROVE  /\ BufferOK(x_dequeue(cb), S, Data)
         /\ x_dequeue(cb).count = cb.count - 1 /\ x_dequeue_data(cb) \in Data
         /\ Contents(cb) # <<>> /\ x_dequeue_data(cb) = Head(Contents(cb))
         /\ Contents(x_dequeue(cb)) = Tail(Contents(cb))
<1> DEFINE after == x_dequeue(cb)
           h == cb.head
           n == cb.count
<1>1. /\ cb.size = S /\ cb.buffer \in [0 .. S - 1 -> Data] /\ h \in 0 .. S - 1
      /\ cb.tail \in 0 .. S - 1 /\ n \in 1 .. S /\ cb.tail = At(S, h, n) /\ n # 0
  BY BufferFields
<1>2. /\ after.buffer = cb.buffer /\ after.size = S
      /\ after.head = At(S, h, 1) /\ after.tail = cb.tail /\ after.count = n - 1
      /\ after = [buffer |-> cb.buffer, size |-> S, head |-> after.head,
                  tail |-> cb.tail, count |-> n - 1]
  BY <1>1, Zenon DEF x_dequeue, BufferOK, At
<1>3. after.head \in 0 .. S - 1 /\ n - 1 \in 0 .. S
  <2>1. 1 \in 0 .. S /\ n - 1 \in 0 .. S
    BY <1>1
  <2> QED
    BY <1>1, <1>2, <2>1, AtValue
<1>4. ASSUME NEW k \in 1 .. n
      PROVE  At(S, after.head, k - 1) = At(S, h, k)
  <2>1. n \in 0 .. S
    BY <1>1
  <2> QED
    BY <1>1, <1>2, <2>1, AtSteps
<1>5. cb.tail = At(S, after.head, n - 1)
  BY <1>1, <1>4
<1>6. BufferOK(after, S, Data)
  BY <1>1, <1>2, <1>3, <1>5, Zenon DEF BufferOK, At
<1> HIDE DEF after
<1>7. /\ Contents(cb) \in Seq(Data) /\ Len(Contents(cb)) = n
      /\ \A i \in 1 .. n : Contents(cb)[i] = cb.buffer[At(S, h, i - 1)]
  BY <1>1, ContentsType
<1>8. /\ Contents(after) \in Seq(Data) /\ Len(Contents(after)) = n - 1
      /\ \A i \in 1 .. n - 1 : Contents(after)[i] = after.buffer[At(S, after.head, i - 1)]
  BY <1>2, <1>6, ContentsType
<1>9. /\ Contents(cb) # <<>> /\ Tail(Contents(cb)) \in Seq(Data)
      /\ Len(Tail(Contents(cb))) = n - 1
      /\ \A i \in 1 .. n - 1 : Tail(Contents(cb))[i] = Contents(cb)[i + 1]
  BY <1>1, <1>7, EmptySeq, HeadTailProperties
<1>10. ASSUME NEW i \in 1 .. n - 1
       PROVE  Contents(after)[i] = Contents(cb)[i + 1]
  <2>1. i \in 1 .. n /\ i + 1 \in 1 .. n /\ (i + 1) - 1 = i
    BY <1>1
  <2>2. At(S, after.head, i - 1) = At(S, h, i)
    BY <1>4, <2>1
  <2>3. Contents(cb)[i + 1] = cb.buffer[At(S, h, (i + 1) - 1)]
    BY <1>7, <2>1, Zenon
  <2> QED
    BY <1>2, <1>8, <2>1, <2>2, <2>3, Zenon
<1>11. Contents(after) = Tail(Contents(cb))
  BY <1>8, <1>9, <1>10, SeqEqual
<1>12. x_dequeue_data(cb) = Head(Contents(cb)) /\ x_dequeue_data(cb) \in Data
  <2>1. 1 - 1 = 0 /\ At(S, h, 0) = h /\ 1 \in 1 .. n
    <3>1. n \in 0 .. S /\ 1 \in 1 .. n
      BY <1>1
    <3> QED
      BY <1>1, <3>1, AtSteps
  <2>2. Contents(cb)[1] = cb.buffer[h]
    BY <1>1, <1>7, <2>1
  <2> QED
    BY <1>1, <1>7, <1>9, <2>2 DEF x_dequeue_data
<1> QED
  BY <1>2, <1>6, <1>9, <1>11, <1>12 DEF after

LEMMA SetIndices ==
  ASSUME NEW B, NEW S, NEW H, NEW T, NEW N, NEW x \in H, NEW y \in T, NEW z \in N,
         NEW cb \in [buffer : B, size : S, head : H, tail : T, count : N]
  PROVE  LET after == [cb EXCEPT !.head = x, !.tail = y, !.count = z]
         IN  /\ after \in [buffer : B, size : S, head : H, tail : T, count : N]
             /\ after.head = x /\ after.tail = y /\ after.count = z
OBVIOUS

(* Flushing empties it.                                                    *)
LEMMA FlushEmpties ==
  ASSUME NEW S \in Nat \ {0}, NEW Data, NEW cb, BufferOK(cb, S, Data)
  PROVE  /\ BufferOK(x_flush(cb), S, Data) /\ x_flush(cb).count = 0
         /\ Contents(x_flush(cb)) = <<>>
<1> DEFINE after == x_flush(cb)
<1>1. /\ cb.size = S /\ cb.buffer \in [0 .. S - 1 -> Data] /\ 0 \in 0 .. S - 1
      /\ 0 \in 0 .. S
  BY BufferFields
<1>2. /\ after \in [buffer : [0 .. S - 1 -> Data], size : {S}, head : 0 .. S - 1,
                    tail : 0 .. S - 1, count : 0 .. S]
      /\ after.head = 0 /\ after.tail = 0 /\ after.count = 0
  <2>1. cb \in [buffer : [0 .. S - 1 -> Data], size : {S}, head : 0 .. S - 1,
                tail : 0 .. S - 1, count : 0 .. S]
    BY Zenon DEF BufferOK
  <2> QED
    BY <1>1, <2>1, SetIndices DEF x_flush
<1>3. At(S, 0, 0) = 0
  BY <1>1, AtSteps
<1>4. BufferOK(after, S, Data) /\ after.count = 0
  BY <1>1, <1>2, <1>3, Zenon DEF BufferOK, At
<1> HIDE DEF after
<1>5. Contents(after) = <<>>
  BY <1>4, ContentsType, EmptySeq
<1> QED
  BY <1>4, <1>5 DEF after
-----------------------------------------------------------------------------
LEMMA Sizes == /\ RX1_BUF_SIZE \in Nat \ {0} /\ RX1_BUF_SIZE < 256
               /\ TX1_BUF_SIZE \in Nat \ {0} /\ TX1_BUF_SIZE < 256
               /\ CONOUT_LIMIT \in Nat /\ 0 < CONOUT_LIMIT /\ CONOUT_LIMIT < TX1_BUF_SIZE
BY SizesAssumption

LEMMA Vectors == /\ InputVector = 6 /\ OutputVector = 4
                 /\ InputVector \in FlaggedVectors /\ OutputVector \in FlaggedVectors
                 /\ CONIN_INT < Disabled /\ CONOUT_INT < Disabled /\ ~(Disabled < Disabled)
BY DEF InputVector, OutputVector, Vector, FlaggedVectors, DSKRD, DSKWR, CONIN_INT,
       CONOUT_INT, Disabled

(* The count a port gives is the count: it fits the byte.                  *)
LEMMA Counts ==
  ASSUME TypeOK
  PROVE  /\ cb_rx1.count \in Nat /\ cb_rx1.count <= RX1_BUF_SIZE /\ cb_rx1.size = RX1_BUF_SIZE
         /\ cb_tx1.count \in Nat /\ cb_tx1.count <= TX1_BUF_SIZE /\ cb_tx1.size = TX1_BUF_SIZE
         /\ IN_01_CONIN_GetStatus = cb_rx1.count
         /\ IN_06_CONOUT_GetStatus = cb_tx1.count
<1>1. /\ cb_rx1.count \in 0 .. RX1_BUF_SIZE /\ cb_rx1.size = RX1_BUF_SIZE
      /\ cb_tx1.count \in 0 .. TX1_BUF_SIZE /\ cb_tx1.size = TX1_BUF_SIZE
  BY Sizes, BufferFields DEF TypeOK
<1>2. \A n \in 0 .. 255 : n % 256 = n
  OBVIOUS
<1>3. cb_rx1.count \in 0 .. 255 /\ cb_tx1.count \in 0 .. 255
  BY <1>1, Sizes
<1> QED
  BY <1>1, <1>2, <1>3, Sizes DEF IN_01_CONIN_GetStatus, IN_06_CONOUT_GetStatus

(* What a notification adds to the queue, and an acknowledge takes from it. *)
LEMMA NotifyKept ==
  ASSUME IntTypeOK, NEW level \in {CONIN_INT, CONOUT_INT, Disabled}, Notify(level)
  PROVE  /\ pending' \in Seq(FlaggedVectors) /\ Len(pending') < INT_QUEUE_SIZE
         /\ bus' = bus /\ refused' \in BOOLEAN
         /\ \A v : Kept(v)' => Kept(v) \/ (level # Disabled /\ v = Vector(level))
<1>1. CASE UNCHANGED <<pending, bus>> /\ refused' \in BOOLEAN
  BY <1>1 DEF IntTypeOK, Kept
<1>2. CASE level # Disabled /\ Queue!Accept(Vector(level)) /\ refused' = refused
  <2>1. /\ pending' = Append(pending, Vector(level)) /\ Len(pending) < INT_QUEUE_SIZE - 1
        /\ bus' = bus
    BY <1>2 DEF Queue!Accept
  <2>2. Vector(level) \in FlaggedVectors
    BY <1>2 DEF FlaggedVectors
  <2>3. /\ pending' \in Seq(FlaggedVectors) /\ Len(pending') = Len(pending) + 1
        /\ pending'[Len(pending) + 1] = Vector(level)
        /\ \A i \in 1 .. Len(pending) : pending'[i] = pending[i]
        /\ Len(pending) \in Nat
    BY <2>1, <2>2 DEF IntTypeOK
  <2>4. Len(pending') < INT_QUEUE_SIZE
    BY <2>1, <2>3, IntQueueAssumption
  <2>5. ASSUME NEW v, Kept(v)'
        PROVE  Kept(v) \/ v = Vector(level)
    BY <2>3, <2>5 DEF Kept
  <2> QED
    BY <1>2, <2>1, <2>3, <2>4, <2>5 DEF IntTypeOK
<1>3. \/ UNCHANGED <<pending, bus>> /\ refused' \in BOOLEAN
      \/ level # Disabled /\ Queue!Accept(Vector(level)) /\ refused' = refused
  <2>1. level < Disabled => level # Disabled
    BY DEF Disabled
  <2> QED
    BY <2>1, Zenon DEF Notify, Queue!Refuse, Queue!fifoVars, IntTypeOK
<1> QED
  BY <1>1, <1>2, <1>3

LEMMA TakeKept ==
  ASSUME IntTypeOK, Queue!Take
  PROVE  /\ pending' \in Seq(FlaggedVectors) /\ Len(pending') < INT_QUEUE_SIZE
         /\ bus' \in FlaggedVectors
         /\ \A v : Kept(v)' \/ v = bus' => Kept(v)
<1>1. /\ pending # <<>> /\ bus' = Head(pending) /\ pending' = Tail(pending)
  BY DEF Queue!Take
<1>2. /\ Len(pending) \in Nat \ {0} /\ bus' = pending[1] /\ bus' \in FlaggedVectors
      /\ pending' \in Seq(FlaggedVectors) /\ Len(pending') = Len(pending) - 1
      /\ \A i \in 1 .. Len(pending) - 1 : pending'[i] = pending[i + 1]
  BY <1>1 DEF IntTypeOK
<1>3. Len(pending') < INT_QUEUE_SIZE
  BY <1>2, IntQueueAssumption DEF IntTypeOK
<1>4. ASSUME NEW v, Kept(v)'
      PROVE  Kept(v)
  BY <1>2, <1>4 DEF Kept
<1>5. ASSUME NEW v, v = bus'
      PROVE  Kept(v)
  BY <1>2, <1>5 DEF Kept
<1> QED
  BY <1>2, <1>3, <1>4, <1>5

(* While the main line runs with interrupts on, no wake-up is under way.   *)
LEMMA NoneUnderWay == MainRuns /\ iff => ~serving /\ \A v : ~UnderWay(v)
<1> SUFFICES ASSUME MainRuns, iff
             PROVE  ~serving /\ \A v : ~UnderWay(v)
  OBVIOUS
<1>1. ~serving /\ pending = <<>>
  BY DEF MainRuns
<1>2. \A v : ~Kept(v)
  BY <1>1 DEF Kept
<1> QED
  BY <1>1, <1>2 DEF UnderWay
-----------------------------------------------------------------------------
LEMMA InitIInv == Init => IInv
<1> SUFFICES ASSUME Init
             PROVE  IInv
  OBVIOUS
<1>1. pending = <<>> /\ bus = 0 /\ serving = FALSE /\ flag = [v \in FlaggedVectors |-> FALSE]
  BY DEF Init, IntInit, Queue!FifoInit
<1>2. IntTypeOK
  <2>1. pending \in Seq(FlaggedVectors)
    BY <1>1
  <2>2. Len(pending) = 0
    BY <1>1
  <2>3. Len(pending) < INT_QUEUE_SIZE
    BY <2>2, IntQueueAssumption
  <2>4. bus \in FlaggedVectors
    BY <1>1 DEF FlaggedVectors, Vector, DSKRD
  <2>5. refused \in BOOLEAN /\ iff \in BOOLEAN /\ serving \in BOOLEAN
    BY Zenon DEF Init, IntInit
  <2>6. flag \in [FlaggedVectors -> BOOLEAN]
    BY <1>1
  <2> QED
    BY <2>1, <2>3, <2>4, <2>5, <2>6, Zenon DEF IntTypeOK
<1>3. ASSUME NEW S \in Nat \ {0}, NEW Data
      PROVE  LET cb == initConsoleBuffer(S)
             IN  BufferOK(cb, S, Data \cup {NUL}) /\ cb.count = 0
  <2>1. 0 \in 0 .. S - 1 /\ 0 \in 0 .. S /\ At(S, 0, 0) = 0
    BY AtSteps
  <2> QED
    BY <2>1, Zenon DEF initConsoleBuffer, BufferOK, At
<1>4. /\ BufferOK(cb_rx1, RX1_BUF_SIZE, Typed \cup {NUL})
      /\ BufferOK(cb_tx1, TX1_BUF_SIZE, Printed \cup {NUL})
      /\ cb_tx1.count = 0
  BY <1>3, Sizes DEF Init
<1>5. \A v : ~UnderWay(v)
  BY <1>1 DEF UnderWay, Kept
<1>6. TypeOK
  BY <1>2, <1>4, Zenon DEF Init, TypeOK
<1>7. pc = "reset"
  BY DEF Init
<1> QED
  BY <1>4, <1>5, <1>6, <1>7, Sizes DEF IInv, MainLine, InputWaits, OutputDrains
-----------------------------------------------------------------------------
(* The two devices.                                                        *)
LEMMA ReceiveIInv ==
  ASSUME IInv, NEW data \in Typed, Enqueue_RX1_Buf(data)
  PROVE  IInv'
<1>1. /\ IntTypeOK /\ z80_int_num_rx1 \in {CONIN_INT, CONOUT_INT, Disabled}
      /\ BufferOK(cb_rx1, RX1_BUF_SIZE, Typed \cup {NUL})
      /\ cb_rx1' = x_enqueue(cb_rx1, data)
      /\ UNCHANGED <<cb_tx1, z80_int_num_rx1, z80_int_num_tx1, mainVars, sent,
                     iff, serving, flag>>
  BY DEF IInv, TypeOK, Enqueue_RX1_Buf
<1>2. CASE Full(cb_rx1)
  <2>1. cb_rx1' = cb_rx1 /\ UNCHANGED <<pending, bus, refused>>
    BY <1>1, <1>2 DEF Enqueue_RX1_Buf, x_enqueue
  <2> QED
    BY <1>1, <2>1
       DEF IInv, TypeOK, IntTypeOK, mainVars, MainLine, InputWaits, OutputDrains, UnderWay,
           Kept, MainRuns
<1>3. CASE ~Full(cb_rx1)
  <2>1. Notify(z80_int_num_rx1)
    BY <1>3 DEF Enqueue_RX1_Buf
  <2>2. /\ pending' \in Seq(FlaggedVectors) /\ Len(pending') < INT_QUEUE_SIZE
        /\ bus' = bus /\ refused' \in BOOLEAN
        /\ Kept(OutputVector)' =>
             Kept(OutputVector) \/ ( /\ z80_int_num_rx1 # Disabled
                                    /\ OutputVector = Vector(z80_int_num_rx1) )
    BY <1>1, <2>1, NotifyKept
  <2>3. Kept(OutputVector)' => Kept(OutputVector)
    BY <2>2, Vectors DEF IInv, TypeOK, InputVector
  <2>4. BufferOK(cb_rx1', RX1_BUF_SIZE, Typed \cup {NUL}) /\ cb_rx1'.count > 0
    <3>1. data \in Typed \cup {NUL}
      OBVIOUS
    <3>2. BufferOK(cb_rx1', RX1_BUF_SIZE, Typed \cup {NUL}) /\ cb_rx1'.count = cb_rx1.count + 1
      BY <1>1, <1>3, <3>1, Sizes, EnqueueAppends
    <3>3. cb_rx1.count \in Nat
      BY Counts DEF IInv
    <3> QED
      BY <3>2, <3>3
  <2>5. IntTypeOK'
    BY <1>1, <2>2, Zenon DEF IntTypeOK
  <2>6. TypeOK'
    BY <1>1, <2>4, <2>5, Zenon DEF IInv, TypeOK, mainVars
  <2>7. MainLine'
    BY <1>1 DEF IInv, MainLine, mainVars
  <2>8. InputWaits'
    BY <2>4 DEF InputWaits
  <2>9. UnderWay(OutputVector)' => UnderWay(OutputVector)
    BY <1>1, <2>2, <2>3, Zenon DEF UnderWay, OutputVector
  <2>10. OutputDrains'
    BY <1>1, <2>9, Zenon DEF IInv, OutputDrains, mainVars, OutputVector
  <2> QED
    BY <2>6, <2>7, <2>8, <2>10 DEF IInv
<1> QED
  BY <1>2, <1>3

LEMMA TransmitIInv == ASSUME IInv, Transmit_TX1_Buf PROVE IInv'
<1>1. /\ IntTypeOK /\ z80_int_num_tx1 \in {CONIN_INT, CONOUT_INT, Disabled}
      /\ BufferOK(cb_tx1, TX1_BUF_SIZE, Printed \cup {NUL})
      /\ cb_tx1.count > 0 /\ cb_tx1' = x_dequeue(cb_tx1)
      /\ sent' = x_dequeue_data(cb_tx1)
      /\ UNCHANGED <<cb_rx1, z80_int_num_rx1, z80_int_num_tx1, mainVars,
                     iff, serving, flag>>
  BY DEF IInv, TypeOK, Transmit_TX1_Buf
<1>2. /\ BufferOK(cb_tx1', TX1_BUF_SIZE, Printed \cup {NUL})
      /\ cb_tx1'.count = cb_tx1.count - 1 /\ sent' \in Printed \cup {NUL}
  BY <1>1, Sizes, DequeueTakes
<1>3. /\ pending' \in Seq(FlaggedVectors) /\ Len(pending') < INT_QUEUE_SIZE
      /\ bus' = bus /\ refused' \in BOOLEAN
      /\ Kept(InputVector)' => Kept(InputVector)
  <2>1. CASE Notify(z80_int_num_tx1)
    <3>1. /\ pending' \in Seq(FlaggedVectors) /\ Len(pending') < INT_QUEUE_SIZE
          /\ bus' = bus /\ refused' \in BOOLEAN
          /\ Kept(InputVector)' =>
               Kept(InputVector) \/ ( /\ z80_int_num_tx1 # Disabled
                                     /\ InputVector = Vector(z80_int_num_tx1) )
      BY <1>1, <2>1, NotifyKept
    <3> QED
      BY <3>1, Vectors DEF IInv, TypeOK, OutputVector
  <2>2. CASE UNCHANGED <<pending, bus, refused>>
    BY <1>1, <2>2 DEF IntTypeOK, Kept
  <2> QED
    BY <2>1, <2>2 DEF Transmit_TX1_Buf
<1>4. IntTypeOK'
  BY <1>1, <1>3, Zenon DEF IntTypeOK
<1>5. TypeOK'
  BY <1>1, <1>2, <1>4, Zenon DEF IInv, TypeOK, mainVars
<1>6. MainLine'
  BY <1>1 DEF IInv, MainLine, mainVars
<1>7. UnderWay(InputVector)' => UnderWay(InputVector)
  BY <1>1, <1>3, Zenon DEF UnderWay, InputVector
<1>8. InputWaits'
  BY <1>1, <1>7, Zenon DEF IInv, InputWaits, mainVars, InputVector
<1>9. cb_tx1'.count < CONOUT_LIMIT
  <2>1. /\ cb_tx1.count \in Nat /\ cb_tx1.count <= CONOUT_LIMIT /\ CONOUT_LIMIT \in Nat
    BY Counts, Sizes DEF IInv, OutputDrains
  <2> QED
    BY <1>2, <2>1
<1>10. OutputDrains'
  <2>1. \A n \in Nat : n < CONOUT_LIMIT => n <= CONOUT_LIMIT
    BY Sizes
  <2>2. cb_tx1'.count \in Nat
    BY <1>1, <1>2, Counts DEF IInv
  <2> QED
    BY <1>9, <2>1, <2>2 DEF OutputDrains
<1> QED
  BY <1>5, <1>6, <1>8, <1>10 DEF IInv

(* The Z80 takes an interrupt and returns from it.                         *)
LEMMA AcknowledgeIInv ==
  ASSUME IInv, Z80_acknowledge, UNCHANGED <<conVars, mainVars, sent>>
  PROVE  IInv'
<1>1. /\ Queue!Take /\ ~serving /\ iff /\ serving' = TRUE /\ iff' = FALSE
      /\ UNCHANGED <<refused, flag>> /\ IntTypeOK
  BY DEF Z80_acknowledge, IInv, TypeOK
<1>2. /\ pending' \in Seq(FlaggedVectors) /\ Len(pending') < INT_QUEUE_SIZE
      /\ bus' \in FlaggedVectors
      /\ \A v : Kept(v)' \/ v = bus' => Kept(v)
  BY <1>1, TakeKept
<1>3. IntTypeOK'
  BY <1>1, <1>2, Zenon DEF IntTypeOK
<1>4. TypeOK'
  BY <1>3, Zenon DEF IInv, TypeOK, conVars, mainVars
<1>5. \A v : UnderWay(v)' => UnderWay(v)
  BY <1>1, <1>2 DEF UnderWay
<1>6. pc' = pc /\ c' = c /\ cb_rx1' = cb_rx1 /\ cb_tx1' = cb_tx1
  BY DEF conVars, mainVars
<1>7. UnderWay(InputVector)' => UnderWay(InputVector)
  BY <1>5, Zenon DEF InputVector
<1>8. UnderWay(OutputVector)' => UnderWay(OutputVector)
  BY <1>5, Zenon DEF OutputVector
<1>9. MainLine'
  BY <1>1, <1>6 DEF IInv, MainLine
<1>10. InputWaits'
  BY <1>1, <1>6, <1>7, Zenon DEF IInv, InputWaits, InputVector
<1>11. OutputDrains'
  BY <1>1, <1>6, <1>8, Zenon DEF IInv, OutputDrains, OutputVector
<1> QED
  BY <1>4, <1>9, <1>10, <1>11 DEF IInv

LEMMA IsrIInv ==
  ASSUME IInv, Z80_isr, UNCHANGED <<conVars, mainVars, sent>>
  PROVE  IInv'
<1>1. /\ serving = TRUE /\ serving' = FALSE /\ iff' = TRUE
      /\ flag' = [flag EXCEPT ![bus] = TRUE]
      /\ UNCHANGED <<pending, bus, refused>> /\ IntTypeOK
  BY DEF Z80_isr, IInv, TypeOK, IntTypeOK
<1>2. /\ flag' \in [FlaggedVectors -> BOOLEAN]
      /\ \A v \in FlaggedVectors : flag'[v] => flag[v] \/ v = bus
  BY <1>1, Zenon DEF IntTypeOK
<1>3. IntTypeOK'
  BY <1>1, <1>2, Zenon DEF IntTypeOK
<1>4. TypeOK'
  BY <1>3, Zenon DEF IInv, TypeOK, conVars, mainVars
<1>5. pc' = pc /\ c' = c /\ cb_rx1' = cb_rx1 /\ cb_tx1' = cb_tx1
  BY DEF conVars, mainVars
<1>6. /\ UnderWay(InputVector)' => UnderWay(InputVector)
      /\ flag'[InputVector] => flag[InputVector] \/ UnderWay(InputVector)
  BY <1>1, <1>2, Vectors, Zenon DEF UnderWay, Kept, InputVector
<1>7. /\ UnderWay(OutputVector)' => UnderWay(OutputVector)
      /\ flag'[OutputVector] => flag[OutputVector] \/ UnderWay(OutputVector)
  BY <1>1, <1>2, Vectors, Zenon DEF UnderWay, Kept, OutputVector
<1>8. MainLine'
  BY <1>1, <1>5 DEF IInv, MainLine
<1>9. InputWaits'
  <2>1. cb_rx1.count = 0 \/ cb_rx1.count > 0
    BY Counts DEF IInv
  <2>2. (flag[InputVector])' = flag'[InputVector]
    BY DEF InputVector
  <2>3. "conin1" # "program"
    OBVIOUS
  <2> QED
    BY <1>1, <1>5, <1>6, <2>1, <2>2, <2>3, Zenon DEF IInv, InputWaits, InputVector
<1>10. OutputDrains'
  BY <1>1, <1>5, <1>7, Zenon DEF IInv, OutputDrains, OutputVector
<1> QED
  BY <1>4, <1>8, <1>9, <1>10 DEF IInv
-----------------------------------------------------------------------------
(* The main line.  Its steps leave the queue alone and run no routine.     *)
QueueStays == UNCHANGED <<pending, bus, refused, serving>>

LEMMA StaysUnderWay ==
  ASSUME QueueStays
  PROVE  /\ UnderWay(InputVector)' <=> UnderWay(InputVector)
         /\ UnderWay(OutputVector)' <=> UnderWay(OutputVector)
BY Zenon DEF QueueStays, UnderWay, Kept, InputVector, OutputVector

LEMMA ProgramIInv == ASSUME IInv, Program PROVE IInv'
<1>1. /\ pc = "program" /\ MainRuns /\ ~serving /\ QueueStays
      /\ UNCHANGED <<flag, cb_rx1, cb_tx1, z80_int_num_rx1, z80_int_num_tx1, got, sent>>
  BY DEF Program, ProgramDI, ProgramEI, CallCONIN, CallCONOUT, MainRuns, QueueStays,
         conVars, mainVars
<1>2. /\ iff' \in BOOLEAN /\ c' \in Printed \cup {NUL}
      /\ \/ pc' = "program"
         \/ pc' = "conin" /\ ~iff'
         \/ pc' = "conout" /\ ~iff' /\ c' \in Printed
  BY DEF Program, ProgramDI, ProgramEI, CallCONIN, CallCONOUT, mainVars, IInv, TypeOK
<1>3. IntTypeOK'
  <2>1. IntTypeOK
    BY DEF IInv, TypeOK
  <2> QED
    BY <1>1, <1>2, <2>1, Zenon DEF IntTypeOK, QueueStays
<1>4. TypeOK'
  <2>1. pc' \in {"reset", "program", "conout", "conout1", "conout2",
                 "conin", "conin1", "conin2"}
    BY <1>2
  <2> QED
    BY <1>1, <1>2, <1>3, <2>1, Zenon DEF IInv, TypeOK
<1>5. MainLine'
  BY <1>1, <1>2 DEF MainLine, QueueStays
<1>6. ~(UnderWay(InputVector) /\ cb_rx1.count = 0)
  <2>1. UnderWay(InputVector) => ~iff
    BY <1>1, NoneUnderWay
  <2> QED
    BY <1>1, <2>1 DEF IInv, InputWaits
<1>7. /\ UnderWay(InputVector)' <=> UnderWay(InputVector)
      /\ UnderWay(OutputVector)' <=> UnderWay(OutputVector)
  BY <1>1, StaysUnderWay
<1>8. InputWaits'
  BY <1>1, <1>2, <1>6, <1>7 DEF InputWaits
<1>9. OutputDrains'
  BY <1>1, <1>2, <1>7 DEF IInv, OutputDrains
<1> QED
  BY <1>4, <1>5, <1>8, <1>9 DEF IInv

(* CONOUT.                                                                 *)
LEMMA ConoutIInv ==
  ASSUME IInv, CONOUT_check \/ CONOUT_wait
  PROVE  IInv'
<1>1. /\ QueueStays /\ ~serving
      /\ UNCHANGED <<cb_rx1, cb_tx1, z80_int_num_rx1, z80_int_num_tx1, got, sent, c>>
  BY DEF CONOUT_check, CONOUT_wait, MainRuns, QueueStays, conVars, intVars, IInv, MainLine
<1>2. /\ iff' = TRUE /\ flag' \in [FlaggedVectors -> BOOLEAN] /\ c \in Printed
      /\ \/ pc' = "conout1" /\ ~flag'[OutputVector]
         \/ pc' = "conout2" /\ cb_tx1.count < CONOUT_LIMIT
  <2>1. flag \in [FlaggedVectors -> BOOLEAN]
    BY DEF IInv, TypeOK, IntTypeOK
  <2>2. CASE CONOUT_wait
    BY <2>1, <2>2, <1>1, Vectors
       DEF CONOUT_wait, IInv, MainLine, OutputDrains, intVars, OutputVector
  <2>3. CASE CONOUT_check /\ cb_tx1.count >= CONOUT_LIMIT
    <3>1. flag' = [flag EXCEPT ![OutputVector] = FALSE] /\ pc' = "conout1" /\ iff' = TRUE
      BY <2>3, Counts DEF CONOUT_check, OutputVector, IInv
    <3>2. flag' \in [FlaggedVectors -> BOOLEAN] /\ ~flag'[OutputVector]
      BY <2>1, <3>1, Vectors, Zenon
    <3> QED
      BY <2>3, <3>1, <3>2 DEF CONOUT_check, IInv, MainLine
  <2>4. CASE CONOUT_check /\ ~(cb_tx1.count >= CONOUT_LIMIT)
    <3>1. pc' = "conout2" /\ flag' = flag /\ iff' = TRUE
      BY <2>4, Counts DEF CONOUT_check, IInv
    <3>2. cb_tx1.count < CONOUT_LIMIT
      BY <2>4, Counts, Sizes DEF IInv
    <3> QED
      BY <2>1, <2>4, <3>1, <3>2 DEF CONOUT_check, IInv, MainLine
  <2> QED
    BY <2>2, <2>3, <2>4
<1>3. IntTypeOK'
  <2>1. IntTypeOK
    BY DEF IInv, TypeOK
  <2> QED
    BY <1>1, <1>2, <2>1, Zenon DEF IntTypeOK, QueueStays
<1>4. TypeOK'
  <2>1. pc' \in {"reset", "program", "conout", "conout1", "conout2",
                 "conin", "conin1", "conin2"}
    BY <1>2
  <2> QED
    BY <1>1, <1>2, <1>3, <2>1, Zenon DEF IInv, TypeOK
<1>5. MainLine'
  BY <1>1, <1>2 DEF MainLine, QueueStays
<1>6. /\ UnderWay(InputVector)' <=> UnderWay(InputVector)
      /\ UnderWay(OutputVector)' <=> UnderWay(OutputVector)
  BY <1>1, StaysUnderWay
<1>7. pc # "program"
  BY DEF CONOUT_check, CONOUT_wait
<1>8. InputWaits'
  BY <1>1, <1>2, <1>6, <1>7 DEF IInv, InputWaits
<1>9. OutputDrains'
  BY <1>1, <1>2, <1>6, Zenon DEF IInv, OutputDrains, OutputVector
<1> QED
  BY <1>4, <1>5, <1>8, <1>9 DEF IInv

LEMMA ConoutPutIInv == ASSUME IInv, CONOUT_put PROVE IInv'
<1>1. /\ pc = "conout2" /\ MainRuns /\ pc' = "program" /\ cb_tx1' = x_enqueue(cb_tx1, c)
      /\ UNCHANGED <<intVars, cb_rx1, z80_int_num_rx1, z80_int_num_tx1, c, got, sent>>
      /\ cb_tx1.count < CONOUT_LIMIT /\ c \in Printed /\ (iff \/ serving)
  BY DEF CONOUT_put, OUT_05_CONOUT, IInv, OutputDrains, MainLine
<1>2. \A v : ~UnderWay(v)
  BY <1>1, NoneUnderWay DEF MainRuns
<1>3. /\ cb_tx1.count \in Nat /\ CONOUT_LIMIT \in Nat /\ TX1_BUF_SIZE \in Nat \ {0}
      /\ BufferOK(cb_tx1, TX1_BUF_SIZE, Printed \cup {NUL}) /\ ~Full(cb_tx1)
  <2>1. /\ cb_tx1.count \in Nat /\ CONOUT_LIMIT \in Nat /\ TX1_BUF_SIZE \in Nat \ {0}
        /\ cb_tx1.size = TX1_BUF_SIZE /\ CONOUT_LIMIT < TX1_BUF_SIZE
    BY Counts, Sizes DEF IInv
  <2>2. cb_tx1.count # TX1_BUF_SIZE
    BY <1>1, <2>1
  <2> QED
    BY <2>1, <2>2 DEF Full, IInv, TypeOK
<1>4. /\ BufferOK(cb_tx1', TX1_BUF_SIZE, Printed \cup {NUL})
      /\ cb_tx1'.count = cb_tx1.count + 1
  <2>1. c \in Printed \cup {NUL}
    BY <1>1
  <2> QED
    BY <1>1, <1>3, <2>1, EnqueueAppends
<1>5. cb_tx1'.count <= CONOUT_LIMIT
  BY <1>1, <1>3, <1>4
<1>6. TypeOK'
  BY <1>1, <1>4, Zenon DEF IInv, TypeOK, IntTypeOK, intVars
<1>7. \A v : ~UnderWay(v)'
  BY <1>1, <1>2, Zenon DEF intVars, UnderWay, Kept
<1>8. MainLine' /\ InputWaits'
  BY <1>1, <1>7, Zenon DEF MainLine, InputWaits, InputVector
<1>9. OutputDrains'
  BY <1>1, <1>5, <1>7, Zenon DEF OutputDrains, OutputVector
<1> QED
  BY <1>6, <1>8, <1>9 DEF IInv

(* CONIN.                                                                  *)
LEMMA ConinIInv ==
  ASSUME IInv, CONIN_check \/ CONIN_wait
  PROVE  IInv'
<1>1. /\ QueueStays /\ ~serving
      /\ UNCHANGED <<cb_rx1, cb_tx1, z80_int_num_rx1, z80_int_num_tx1, got, sent, c>>
  BY DEF CONIN_check, CONIN_wait, MainRuns, QueueStays, conVars, intVars, IInv, MainLine
<1>2. /\ iff' = TRUE /\ flag' \in [FlaggedVectors -> BOOLEAN]
      /\ \/ pc' = "conin1" /\ ~flag'[InputVector]
         \/ pc' = "conin2" /\ cb_rx1.count > 0
  <2>1. flag \in [FlaggedVectors -> BOOLEAN]
    BY DEF IInv, TypeOK, IntTypeOK
  <2>2. CASE CONIN_wait
    BY <2>1, <2>2, <1>1, Vectors
       DEF CONIN_wait, IInv, MainLine, InputWaits, intVars, InputVector
  <2>3. CASE CONIN_check
    <3>1. /\ flag' = [flag EXCEPT ![InputVector] = FALSE] /\ iff' = TRUE
          /\ pc' = IF cb_rx1.count # 0 THEN "conin2" ELSE "conin1"
      BY <2>3, Counts DEF CONIN_check, InputVector, IInv
    <3>2. flag' \in [FlaggedVectors -> BOOLEAN] /\ ~flag'[InputVector]
      BY <2>1, <3>1, Vectors, Zenon
    <3>3. cb_rx1.count # 0 => cb_rx1.count > 0
      BY Counts DEF IInv
    <3> QED
      BY <3>1, <3>2, <3>3
  <2> QED
    BY <2>2, <2>3
<1>3. IntTypeOK'
  <2>1. IntTypeOK
    BY DEF IInv, TypeOK
  <2> QED
    BY <1>1, <1>2, <2>1, Zenon DEF IntTypeOK, QueueStays
<1>4. TypeOK'
  <2>1. pc' \in {"reset", "program", "conout", "conout1", "conout2",
                 "conin", "conin1", "conin2"}
    BY <1>2
  <2> QED
    BY <1>1, <1>2, <1>3, <2>1, Zenon DEF IInv, TypeOK
<1>5. MainLine'
  BY <1>1, <1>2 DEF MainLine, QueueStays
<1>6. /\ UnderWay(InputVector)' <=> UnderWay(InputVector)
      /\ UnderWay(OutputVector)' <=> UnderWay(OutputVector)
  BY <1>1, StaysUnderWay
<1>7. pc # "program"
  BY DEF CONIN_check, CONIN_wait
<1>8. InputWaits'
  BY <1>1, <1>2, <1>6, <1>7 DEF IInv, InputWaits
<1>9. OutputDrains'
  BY <1>1, <1>2, <1>6 DEF IInv, OutputDrains
<1> QED
  BY <1>4, <1>5, <1>8, <1>9 DEF IInv

LEMMA ConinGetIInv == ASSUME IInv, CONIN_get PROVE IInv'
<1>1. /\ pc = "conin2" /\ MainRuns /\ pc' = "program"
      /\ got' = x_dequeue_data(cb_rx1) /\ cb_rx1' = x_dequeue(cb_rx1)
      /\ UNCHANGED <<intVars, cb_tx1, z80_int_num_rx1, z80_int_num_tx1, c, sent>>
      /\ cb_rx1.count > 0 /\ (iff \/ serving)
      /\ BufferOK(cb_rx1, RX1_BUF_SIZE, Typed \cup {NUL})
  BY DEF CONIN_get, IN_00_CONIN, IInv, InputWaits, MainLine, TypeOK
<1>2. \A v : ~UnderWay(v)
  BY <1>1, NoneUnderWay DEF MainRuns
<1>3. /\ BufferOK(cb_rx1', RX1_BUF_SIZE, Typed \cup {NUL}) /\ got' \in Typed \cup {NUL}
  BY <1>1, Sizes, DequeueTakes
<1>4. TypeOK'
  BY <1>1, <1>3, Zenon DEF IInv, TypeOK, IntTypeOK, intVars
<1>5. \A v : ~UnderWay(v)'
  BY <1>1, <1>2, Zenon DEF intVars, UnderWay, Kept
<1>6. MainLine' /\ InputWaits'
  BY <1>1, <1>5, Zenon DEF MainLine, InputWaits, InputVector
<1>7. OutputDrains'
  BY <1>1, <1>5, Zenon DEF IInv, OutputDrains, OutputVector
<1> QED
  BY <1>4, <1>6, <1>7 DEF IInv

(* A reset empties the buffers and leaves the wake-ups under way.          *)
LEMMA BootIInv == ASSUME IInv, BOOT PROVE IInv'
<1>1. /\ cb_rx1' = x_flush(cb_rx1) /\ cb_tx1' = x_flush(cb_tx1)
      /\ z80_int_num_rx1' = CONIN_INT /\ z80_int_num_tx1' = CONOUT_INT
      /\ iff' = TRUE /\ serving' = FALSE /\ pc' = "program"
      /\ UNCHANGED <<pending, bus, refused, flag, c, got, sent>>
  BY DEF BOOT, OUT_SetIntLevel, OUT_Flush
<1>2. /\ BufferOK(cb_rx1', RX1_BUF_SIZE, Typed \cup {NUL})
      /\ BufferOK(cb_tx1', TX1_BUF_SIZE, Printed \cup {NUL}) /\ cb_tx1'.count = 0
  BY <1>1, Sizes, FlushEmpties DEF IInv, TypeOK
<1>3. TypeOK'
  BY <1>1, <1>2, Zenon DEF IInv, TypeOK, IntTypeOK
<1>4. MainLine' /\ InputWaits'
  BY <1>1, Zenon DEF MainLine, InputWaits
<1>5. OutputDrains'
  BY <1>1, <1>2, Sizes DEF OutputDrains
<1> QED
  BY <1>3, <1>4, <1>5 DEF IInv

LEMMA StutterIInv == ASSUME IInv, UNCHANGED vars PROVE IInv'
BY DEF vars, intVars, conVars, mainVars, IInv, TypeOK, IntTypeOK, MainLine, InputWaits,
       OutputDrains, UnderWay, Kept

LEMMA StepIInv == IInv /\ [Next]_vars => IInv'
<1> SUFFICES ASSUME IInv, [Next]_vars
             PROVE  IInv'
  OBVIOUS
<1>1. CASE Avr
  BY <1>1, ReceiveIInv, TransmitIInv DEF Avr
<1>2. CASE Interrupts
  BY <1>2, AcknowledgeIInv, IsrIInv DEF Interrupts
<1>3. CASE Program
  BY <1>3, ProgramIInv
<1>4. CASE Bios
  BY <1>4, ConoutIInv, ConoutPutIInv, ConinIInv, ConinGetIInv DEF Bios
<1>5. CASE BOOT
  BY <1>5, BootIInv
<1>6. CASE UNCHANGED vars
  BY <1>6, StutterIInv
<1> QED
  BY <1>1, <1>2, <1>3, <1>4, <1>5, <1>6 DEF Next

(* The inductive invariant holds in every state of the console, whatever   *)
(* the sizes of its buffers and of the interrupt queue, the characters     *)
(* typed and printed and the moments of resets.                            *)
THEOREM Invariance == Safety => []IInv
BY InitIInv, StepIInv, PTL DEF Safety

(* CONOUT never loses a character: when it gets to its OUT there is room   *)
(* in the buffer of em_consoleio.c.  A wake-up that comes late finds the   *)
(* buffer no fuller than when it was raised, since CONOUT puts a character *)
(* only with no wake-up under way; so at most half the buffer is in use.   *)
THEOREM NothingLost == Safety => []OutputNeverLost
<1>1. IInv => OutputNeverLost
  <2> SUFFICES ASSUME IInv, pc = "conout2"
               PROVE  ~Full(cb_tx1)
    BY DEF OutputNeverLost
  <2>1. /\ cb_tx1.count < CONOUT_LIMIT /\ cb_tx1.count \in Nat /\ CONOUT_LIMIT \in Nat
        /\ CONOUT_LIMIT < TX1_BUF_SIZE /\ TX1_BUF_SIZE \in Nat /\ cb_tx1.size = TX1_BUF_SIZE
    BY Counts, Sizes DEF IInv, OutputDrains
  <2> QED
    BY <2>1 DEF Full
<1> QED
  BY <1>1, Invariance, PTL

(* CONIN never returns the NUL of an empty buffer for a character: a       *)
(* wake-up whose character a flush took away is over before the program    *)
(* can call CONIN, and CONIN forgets its flag.                             *)
THEOREM CharIsThere == Safety => []ConinHasChar
<1>1. IInv => ConinHasChar
  BY DEF IInv, InputWaits, ConinHasChar
<1> QED
  BY <1>1, Invariance, PTL
-----------------------------------------------------------------------------
(* The two buffers as the queues the terminal sees.                        *)
LEMMA ContentsStay ==
  /\ UNCHANGED <<cb_rx1, got>> => UNCHANGED Keyboard!fifoVars
  /\ UNCHANGED <<cb_tx1, sent>> => UNCHANGED Screen!fifoVars
BY DEF Keyboard!fifoVars, Screen!fifoVars

LEMMA KeyStep ==
  IInv /\ [Next]_vars => [Keyboard!FifoNext \/ Keyboard!Clear]_(Keyboard!fifoVars)
<1> SUFFICES ASSUME IInv, [Next]_vars
             PROVE  \/ Keyboard!FifoNext \/ Keyboard!Clear
                    \/ UNCHANGED Keyboard!fifoVars
  OBVIOUS
<1>1. BufferOK(cb_rx1, RX1_BUF_SIZE, Typed \cup {NUL}) /\ RX1_BUF_SIZE \in Nat \ {0}
  BY Sizes DEF IInv, TypeOK
<1>2. ASSUME NEW data \in Typed, Enqueue_RX1_Buf(data)
      PROVE  Keyboard!FifoNext \/ UNCHANGED <<cb_rx1, got>>
  <2>1. cb_rx1' = x_enqueue(cb_rx1, data) /\ got' = got
    BY <1>2 DEF Enqueue_RX1_Buf, mainVars
  <2>2. CASE Full(cb_rx1)
    BY <2>1, <2>2 DEF x_enqueue
  <2>3. CASE ~Full(cb_rx1)
    <3>1. data \in Typed \cup {NUL}
      OBVIOUS
    <3>2. /\ Contents(cb_rx1') = Append(Contents(cb_rx1), data) /\ cb_rx1.count < RX1_BUF_SIZE
      BY <1>1, <2>1, <2>3, <3>1, EnqueueAppends
    <3>3. Len(Contents(cb_rx1)) = cb_rx1.count
      BY <1>1, ContentsType
    <3>4. Keyboard!Accept(data)
      BY <2>1, <3>2, <3>3 DEF Keyboard!Accept
    <3> QED
      BY <3>4 DEF Keyboard!FifoNext
  <2> QED
    BY <2>2, <2>3
<1>3. CASE CONIN_get
  <2>1. /\ got' = x_dequeue_data(cb_rx1) /\ cb_rx1' = x_dequeue(cb_rx1) /\ cb_rx1.count > 0
    BY <1>3 DEF CONIN_get, IN_00_CONIN, IInv, InputWaits
  <2>2. /\ Contents(cb_rx1) # <<>> /\ x_dequeue_data(cb_rx1) = Head(Contents(cb_rx1))
        /\ Contents(x_dequeue(cb_rx1)) = Tail(Contents(cb_rx1))
    BY <1>1, <2>1, DequeueTakes
  <2> QED
    BY <2>1, <2>2 DEF Keyboard!FifoNext, Keyboard!Take
<1>4. CASE BOOT
  <2>1. cb_rx1' = x_flush(cb_rx1) /\ got' = got
    BY <1>4 DEF BOOT, OUT_Flush
  <2> QED
    BY <1>1, <2>1, FlushEmpties DEF Keyboard!Clear
<1>5. ASSUME \/ Transmit_TX1_Buf \/ Interrupts \/ Program \/ CONOUT_check \/ CONOUT_wait
             \/ CONOUT_put \/ CONIN_check \/ CONIN_wait \/ UNCHANGED vars
      PROVE  UNCHANGED <<cb_rx1, got>>
  BY <1>5
     DEF Transmit_TX1_Buf, Interrupts, Program, ProgramDI, ProgramEI, CallCONIN, CallCONOUT,
         CONOUT_check, CONOUT_wait, CONOUT_put, CONIN_check, CONIN_wait, vars, conVars, mainVars
<1> QED
  BY <1>2, <1>3, <1>4, <1>5, ContentsStay DEF Next, Avr, Bios

LEMMA ScreenStep ==
  IInv /\ [Next]_vars => [Screen!FifoNext \/ Screen!Clear]_(Screen!fifoVars)
<1> SUFFICES ASSUME IInv, [Next]_vars
             PROVE  \/ Screen!FifoNext \/ Screen!Clear
                    \/ UNCHANGED Screen!fifoVars
  OBVIOUS
<1>1. BufferOK(cb_tx1, TX1_BUF_SIZE, Printed \cup {NUL}) /\ TX1_BUF_SIZE \in Nat \ {0}
  BY Sizes DEF IInv, TypeOK
<1>2. CASE CONOUT_put
  <2>1. cb_tx1' = x_enqueue(cb_tx1, c) /\ sent' = sent /\ c \in Printed
    BY <1>2 DEF CONOUT_put, OUT_05_CONOUT, IInv, MainLine
  <2>2. CASE Full(cb_tx1)
    BY <2>1, <2>2 DEF x_enqueue, Screen!fifoVars
  <2>3. CASE ~Full(cb_tx1)
    <3>1. c \in Printed \cup {NUL}
      BY <2>1
    <3>2. /\ Contents(cb_tx1') = Append(Contents(cb_tx1), c) /\ cb_tx1.count < TX1_BUF_SIZE
      BY <1>1, <2>1, <2>3, <3>1, EnqueueAppends
    <3>3. Len(Contents(cb_tx1)) = cb_tx1.count
      BY <1>1, ContentsType
    <3>4. Screen!Accept(c)
      BY <2>1, <3>2, <3>3 DEF Screen!Accept
    <3> QED
      BY <2>1, <3>4 DEF Screen!FifoNext
  <2> QED
    BY <2>2, <2>3
<1>3. CASE Transmit_TX1_Buf
  <2>1. /\ sent' = x_dequeue_data(cb_tx1) /\ cb_tx1' = x_dequeue(cb_tx1) /\ cb_tx1.count > 0
    BY <1>3 DEF Transmit_TX1_Buf
  <2>2. /\ Contents(cb_tx1) # <<>> /\ x_dequeue_data(cb_tx1) = Head(Contents(cb_tx1))
        /\ Contents(x_dequeue(cb_tx1)) = Tail(Contents(cb_tx1))
    BY <1>1, <2>1, DequeueTakes
  <2> QED
    BY <2>1, <2>2 DEF Screen!FifoNext, Screen!Take
<1>4. CASE BOOT
  <2>1. cb_tx1' = x_flush(cb_tx1) /\ sent' = sent
    BY <1>4 DEF BOOT, OUT_Flush
  <2> QED
    BY <1>1, <2>1, FlushEmpties DEF Screen!Clear
<1>5. ASSUME NEW data \in Typed, Enqueue_RX1_Buf(data)
      PROVE  UNCHANGED <<cb_tx1, sent>>
  BY <1>5 DEF Enqueue_RX1_Buf
<1>6. ASSUME \/ Interrupts \/ Program \/ CONOUT_check \/ CONOUT_wait \/ CONIN_get
             \/ CONIN_check \/ CONIN_wait \/ UNCHANGED vars
      PROVE  UNCHANGED <<cb_tx1, sent>>
  BY <1>6
     DEF Interrupts, Program, ProgramDI, ProgramEI, CallCONIN, CallCONOUT, CONOUT_check,
         CONOUT_wait, CONIN_get, CONIN_check, CONIN_wait, vars, conVars, mainVars
<1> QED
  BY <1>2, <1>3, <1>4, <1>5, <1>6, ContentsStay DEF Next, Avr, Bios

LEMMA InitQueues == Init => Keyboard!FifoInit /\ Screen!FifoInit
<1> SUFFICES ASSUME Init
             PROVE  Contents(cb_rx1) = <<>> /\ Contents(cb_tx1) = <<>>
  BY DEF Keyboard!FifoInit, Screen!FifoInit
<1>1. cb_rx1.count = 0 /\ cb_tx1.count = 0
  BY DEF Init, initConsoleBuffer
<1>2. TypeOK
  BY InitIInv DEF IInv
<1> QED
  BY <1>1, <1>2, Sizes, ContentsType, EmptySeq DEF TypeOK

(* Characters come to the programs in the order they were typed, each      *)
(* once; a character is lost only to a full buffer or to the flush of a    *)
(* reset.                                                                  *)
THEOREM TypedInOrder == Safety => KeyOrder
<1>1. Safety => Keyboard!FifoInit
  BY InitQueues DEF Safety
<1>2. Safety => [][Keyboard!FifoNext \/ Keyboard!Clear]_(Keyboard!fifoVars)
  BY KeyStep, Invariance, PTL DEF Safety
<1> QED
  BY <1>1, <1>2 DEF KeyOrder, Keyboard!ClearableSafety

(* Characters leave for the terminal in the order of the CONOUT calls,     *)
(* each once; only the flush of a reset takes one away.                    *)
THEOREM PrintedInOrder == Safety => ScreenOrder
<1>1. Safety => Screen!FifoInit
  BY InitQueues DEF Safety
<1>2. Safety => [][Screen!FifoNext \/ Screen!Clear]_(Screen!fifoVars)
  BY ScreenStep, Invariance, PTL DEF Safety
<1> QED
  BY <1>1, <1>2 DEF ScreenOrder, Screen!ClearableSafety
=============================================================================
