--------------------------- MODULE Z80ExtIntProofs ---------------------------
(***************************************************************************)
(* Proofs about the interrupt path for every queue size from three up and  *)
(* every set of vectors.  The index arithmetic comes first; then the       *)
(* inductive invariant IInv, one step per action; then the step simulation *)
(* that makes the ring buffer a FIFO.                                      *)
(***************************************************************************)
EXTENDS Z80ExtInt, SequenceTheorems, TLAPS

(* Advancing an index stays inside the ring and moves it.                  *)
LEMMA Next1Type ==
  ASSUME NEW i \in Slots
  PROVE  Next1(i) \in Slots /\ Next1(i) = (IF i = INT_QUEUE_SIZE - 1 THEN 0 ELSE i + 1)
BY QueueSizeAssumption, SMTT(20) DEF Slots, Next1

(* The number of entries between two indices, without the modulus.         *)
LEMMA CountValue ==
  ASSUME NEW h \in Slots, NEW t \in Slots
  PROVE  /\ CountOf(h, t) = (IF t >= h THEN t - h ELSE t - h + INT_QUEUE_SIZE)
         /\ CountOf(h, t) \in 0 .. INT_QUEUE_SIZE - 1
         /\ CountOf(h, t) = 0 <=> h = t
BY QueueSizeAssumption, SMTT(20) DEF Slots, CountOf

(* Storing an entry adds one to the count, and the test for a full ring is *)
(* a count of one less than its size.                                      *)
LEMMA CountEnqueue ==
  ASSUME NEW h \in Slots, NEW t \in Slots
  PROVE  /\ Next1(t) = h <=> CountOf(h, t) = INT_QUEUE_SIZE - 1
         /\ Next1(t) # h => CountOf(h, Next1(t)) = CountOf(h, t) + 1
<1>1. Next1(t) \in Slots /\ Next1(t) = (IF t = INT_QUEUE_SIZE - 1 THEN 0 ELSE t + 1)
  BY Next1Type
<1>2. CountOf(h, t) = (IF t >= h THEN t - h ELSE t - h + INT_QUEUE_SIZE)
  BY CountValue
<1>3. CountOf(h, Next1(t)) = (IF Next1(t) >= h THEN Next1(t) - h
                                               ELSE Next1(t) - h + INT_QUEUE_SIZE)
  BY <1>1, CountValue
<1> QED
  BY <1>1, <1>2, <1>3, QueueSizeAssumption, SMTT(20) DEF Slots

(* Removing one takes one off.                                             *)
LEMMA CountDequeue ==
  ASSUME NEW h \in Slots, NEW t \in Slots, h # t
  PROVE  CountOf(Next1(h), t) = CountOf(h, t) - 1
<1>1. Next1(h) \in Slots /\ Next1(h) = (IF h = INT_QUEUE_SIZE - 1 THEN 0 ELSE h + 1)
  BY Next1Type
<1>2. CountOf(h, t) = (IF t >= h THEN t - h ELSE t - h + INT_QUEUE_SIZE)
  BY CountValue
<1>3. CountOf(Next1(h), t) = (IF t >= Next1(h) THEN t - Next1(h)
                                               ELSE t - Next1(h) + INT_QUEUE_SIZE)
  BY <1>1, CountValue
<1> QED
  BY <1>1, <1>2, <1>3, QueueSizeAssumption, SMTT(20) DEF Slots
-----------------------------------------------------------------------------
(* The inductive invariant holds before the first device is initialised.   *)
LEMMA InitIInv == Init => IInv
<1> SUFFICES ASSUME Init PROVE IInv
  OBVIOUS
<1>1. 0 \in Slots
  BY QueueSizeAssumption DEF Slots
<1>2. Count = 0
  BY <1>1, CountValue DEF Init, Count
<1>3. int_queue \in [Slots -> Vectors]
  BY VectorsAssumption DEF Init
<1>4. TypeOK
  BY <1>1, <1>3, VectorsAssumption DEF Init, TypeOK
<1>5. ~(Count > 0)
  BY <1>2
<1> QED
  BY <1>4, <1>5 DEF Init, IInv, LineMirrorsQueue, VectorIsHead, AckIsAnswered

(* One call of Z80_EXTINT_enqueue, whoever makes it.                       *)
LEMMA EnqueueIInv ==
  ASSUME IInv, NEW v \in Vectors, DeviceRaises(v)
  PROVE  IInv'
<1> USE DEF IInv, TypeOK
<1> DEFINE next == Next1(int_queue_tail)
           h == int_queue_head
           t == int_queue_tail
<1>1. /\ int4 # "released" /\ h' = h
      /\ UNCHANGED <<bus, int4, z80, iff>>
  BY DEF DeviceRaises, Z80_EXTINT_enqueue
<1>2. next \in Slots
  BY Next1Type
<1>3. CASE next = h
  <2>1. CountOf(h, t) = INT_QUEUE_SIZE - 1 /\ CountOf(h, t) # 1
    BY <1>3, CountEnqueue, QueueSizeAssumption
  <2>2. /\ UNCHANGED <<int_queue, int_queue_tail, z80_int_vector>>
        /\ intLow' = intLow
    BY <1>3, <2>1 DEF DeviceRaises, Z80_EXTINT_enqueue
  <2>3. Count' = Count
    BY <1>1, <2>2 DEF Count
  <2> QED
    BY <1>1, <2>2, <2>3 DEF LineMirrorsQueue, VectorIsHead, AckIsAnswered
<1>4. CASE next # h
  <2>1. CountOf(h, next) = CountOf(h, t) + 1
    BY <1>4, CountEnqueue
  <2>2. /\ int_queue' = [int_queue EXCEPT ![t] = v]
        /\ t' = next
        /\ z80_int_vector' = IF CountOf(h, next) = 1 THEN v ELSE z80_int_vector
        /\ intLow' = (intLow \/ CountOf(h, next) = 1)
    BY <1>4 DEF DeviceRaises, Z80_EXTINT_enqueue
  <2>3. Count' = Count + 1 /\ Count \in Nat /\ (Count = 0 <=> h = t)
    BY <1>1, <2>1, <2>2, CountValue, QueueSizeAssumption DEF Count
  <2>4. TypeOK'
    BY <1>1, <1>2, <2>2
  <2>5. LineMirrorsQueue'
    <3>1. Count' > 0 /\ (CountOf(h, next) = 1 <=> ~(Count > 0))
      BY <2>1, <2>3 DEF Count
    <3>2. intLow <=> Count > 0
      BY <1>1 DEF LineMirrorsQueue
    <3> QED
      BY <1>1, <2>2, <3>1, <3>2, Zenon DEF LineMirrorsQueue
  <2>6. VectorIsHead'
    <3>1. CASE Count = 0
      BY <1>1, <2>1, <2>2, <2>3, <3>1 DEF Count, VectorIsHead
    <3>2. CASE Count # 0
      <4>1. z80_int_vector' = z80_int_vector /\ int_queue'[h] = int_queue[h]
        BY <2>1, <2>2, <2>3, <3>2 DEF Count
      <4> QED
        BY <1>1, <4>1, <2>3, <3>2 DEF VectorIsHead
    <3> QED
      BY <3>1, <3>2
  <2>7. AckIsAnswered'
    BY <1>1, <2>2 DEF AckIsAnswered
  <2> QED
    BY <2>4, <2>5, <2>6, <2>7
<1> QED
  BY <1>3, <1>4

(* The two halves of INT4.                                                 *)
LEMMA ReleaseIInv == IInv /\ INT4_release => IInv'
<1> SUFFICES ASSUME IInv, INT4_release PROVE IInv'
  OBVIOUS
<1>1. Count' = Count
  BY DEF INT4_release, queueVars, Count
<1> QED
  BY <1>1 DEF INT4_release, queueVars, IInv, TypeOK, LineMirrorsQueue,
              VectorIsHead, AckIsAnswered

LEMMA DequeueIInv == IInv /\ INT4_dequeue => IInv'
<1> SUFFICES ASSUME IInv, INT4_dequeue PROVE IInv'
  OBVIOUS
<1> USE DEF IInv, TypeOK
<1> DEFINE h == int_queue_head
           t == int_queue_tail
<1>1. Count > 0 /\ ~intLow /\ int4 = "released"
  BY DEF INT4_dequeue, LineMirrorsQueue
<1>2. h # t /\ Count \in Nat
  BY <1>1, CountValue, QueueSizeAssumption DEF Count
<1>3. /\ h' = Next1(h) /\ Next1(h) \in Slots
      /\ int4' = "off"
      /\ UNCHANGED <<int_queue, int_queue_tail, bus, z80, iff>>
      /\ z80_int_vector' = IF Next1(h) # t THEN int_queue[Next1(h)] ELSE z80_int_vector
      /\ intLow' = (Next1(h) # t)
  BY <1>1, <1>2, Next1Type DEF INT4_dequeue
<1>4. Count' = Count - 1 /\ (Count' = 0 <=> Next1(h) = t)
  BY <1>2, <1>3, CountDequeue, CountValue DEF Count
<1>5. z80_int_vector' \in Vectors
  BY <1>3
<1>6. Count' > 0 <=> Next1(h) # t
  BY <1>1, <1>2, <1>4
<1>7. TypeOK'
  BY <1>3, <1>5, Zenon
<1>8. LineMirrorsQueue'
  BY <1>3, <1>6, Zenon DEF LineMirrorsQueue
<1>9. VectorIsHead'
  BY <1>3, <1>6 DEF VectorIsHead
<1>10. AckIsAnswered'
  BY <1>1, <1>3 DEF AckIsAnswered
<1> QED
  BY <1>7, <1>8, <1>9, <1>10

(* What the Z80 does, and the reset.                                       *)
LEMMA Z80IInv == IInv /\ (Z80Step \/ Z80_RESET) => IInv'
<1> SUFFICES ASSUME IInv, Z80Step \/ Z80_RESET PROVE IInv'
  OBVIOUS
<1>1. Count' = Count
  BY DEF Z80Step, Z80_accept, Z80_EI, Z80_DI, Z80_RESET, queueVars, Count
<1> USE DEF IInv, TypeOK, LineMirrorsQueue, VectorIsHead, AckIsAnswered, queueVars
<1>2. CASE Z80_accept
  BY <1>1, <1>2 DEF Z80_accept
<1>3. CASE Z80_EI
  BY <1>1, <1>3 DEF Z80_EI
<1>4. CASE Z80_DI
  BY <1>1, <1>4 DEF Z80_DI
<1>5. CASE Z80_RESET
  BY <1>1, <1>5 DEF Z80_RESET
<1> QED
  BY <1>2, <1>3, <1>4, <1>5 DEF Z80Step

(* The line, the vector and the handshake stay in step with the queue in   *)
(* every behaviour, for every queue size and whatever the Z80 does.        *)
THEOREM Invariance == Safety => []IInv
<1>1. IInv /\ [Next]_vars => IInv'
  <2> SUFFICES ASSUME IInv, [Next]_vars PROVE IInv'
    OBVIOUS
  <2>1. CASE UNCHANGED vars
    <3>1. Count' = Count
      BY <2>1 DEF vars, queueVars, Count
    <3> QED
      BY <2>1, <3>1 DEF vars, queueVars, IInv, TypeOK, LineMirrorsQueue,
                        VectorIsHead, AckIsAnswered
  <2>2. CASE AvrStep
    BY <2>2, EnqueueIInv, ReleaseIInv, DequeueIInv DEF AvrStep
  <2>3. CASE Z80Step \/ Z80_RESET
    BY <2>3, Z80IInv
  <2> QED
    BY <2>1, <2>2, <2>3 DEF Next
<1> QED
  BY <1>1, InitIInv, PTL DEF Safety

(* The indices never leave the ring and the vectors are those of devices.  *)
THEOREM TypeCorrect == Safety => []TypeOK
<1>1. IInv => TypeOK
  BY DEF IInv
<1> QED
  BY <1>1, Invariance, PTL

(* /INT is low exactly while an entry waits to be delivered.               *)
THEOREM LineIsMirror == Safety => []LineMirrorsQueue
<1>1. IInv => LineMirrorsQueue
  BY DEF IInv
<1> QED
  BY <1>1, Invariance, PTL

(* While an entry waits, z80_int_vector, the byte INT4 is about to put on  *)
(* the bus, is the entry at the head: an entry queued behind another does  *)
(* not overtake it, and a dequeue loads the next one.                      *)
THEOREM HeadIsSent == Safety => []VectorIsHead
<1>1. IInv => VectorIsHead
  BY DEF IInv
<1> QED
  BY <1>1, Invariance, PTL

(* No acknowledge without an assertion, no Z80 left in /WAIT.              *)
THEOREM Acknowledged == Safety => []AckIsAnswered
<1>1. IInv => AckIsAnswered
  BY DEF IInv
<1> QED
  BY <1>1, Invariance, PTL
-----------------------------------------------------------------------------
(* The k-th slot after the head, without the modulus: the slots in use     *)
(* stop short of the tail, and the first free one is the tail.             *)
LEMMA SlotValue ==
  ASSUME NEW h \in Slots, NEW k \in Slots
  PROVE  (h + k) % INT_QUEUE_SIZE = (IF h + k < INT_QUEUE_SIZE THEN h + k
                                     ELSE h + k - INT_QUEUE_SIZE)
BY QueueSizeAssumption, SMTT(20) DEF Slots

LEMMA SlotsInUse ==
  ASSUME NEW h \in Slots, NEW t \in Slots
  PROVE  /\ (h + CountOf(h, t)) % INT_QUEUE_SIZE = t
         /\ \A k \in 0 .. CountOf(h, t) - 1 : (h + k) % INT_QUEUE_SIZE # t
<1>1. /\ CountOf(h, t) = (IF t >= h THEN t - h ELSE t - h + INT_QUEUE_SIZE)
      /\ CountOf(h, t) \in Slots
  BY CountValue DEF Slots
<1>2. (h + CountOf(h, t)) % INT_QUEUE_SIZE = t
  <2> DEFINE c == CountOf(h, t)
  <2>1. (h + c) % INT_QUEUE_SIZE = (IF h + c < INT_QUEUE_SIZE THEN h + c
                                    ELSE h + c - INT_QUEUE_SIZE)
    BY <1>1, SlotValue
  <2> QED
    BY <1>1, <2>1, QueueSizeAssumption DEF Slots
<1>3. ASSUME NEW k \in 0 .. CountOf(h, t) - 1
      PROVE  (h + k) % INT_QUEUE_SIZE # t
  <2>1. k \in Slots
    BY <1>1, QueueSizeAssumption DEF Slots
  <2>2. (h + k) % INT_QUEUE_SIZE = (IF h + k < INT_QUEUE_SIZE THEN h + k
                                    ELSE h + k - INT_QUEUE_SIZE)
    BY <2>1, SlotValue
  <2> QED
    BY <1>1, <2>1, <2>2, QueueSizeAssumption DEF Slots
<1> QED
  BY <1>2, <1>3

(* Moving the head on by one shifts the numbering of the slots by one.     *)
LEMMA SlotShift ==
  ASSUME NEW h \in Slots, NEW k \in Slots, k # 0
  PROVE  (Next1(h) + (k - 1)) % INT_QUEUE_SIZE = (h + k) % INT_QUEUE_SIZE
<1>1. /\ Next1(h) \in Slots
      /\ Next1(h) = (IF h = INT_QUEUE_SIZE - 1 THEN 0 ELSE h + 1)
  BY Next1Type
<1>2. k - 1 \in Slots
  BY QueueSizeAssumption DEF Slots
<1>3. (Next1(h) + (k - 1)) % INT_QUEUE_SIZE
        = (IF Next1(h) + (k - 1) < INT_QUEUE_SIZE THEN Next1(h) + (k - 1)
           ELSE Next1(h) + (k - 1) - INT_QUEUE_SIZE)
  BY <1>1, <1>2, SlotValue
<1>4. (h + k) % INT_QUEUE_SIZE = (IF h + k < INT_QUEUE_SIZE THEN h + k
                                  ELSE h + k - INT_QUEUE_SIZE)
  BY SlotValue
<1> QED
  BY <1>1, <1>3, <1>4, QueueSizeAssumption DEF Slots

(* Pending is a sequence of vectors whose length is the number of entries  *)
(* not yet delivered.                                                      *)
LEMMA PendingType ==
  ASSUME IInv
  PROVE  /\ Count \in 0 .. INT_QUEUE_SIZE - 1
         /\ Pending \in Seq(Vectors)
         /\ Len(Pending) = IF int4 = "released" THEN Count - 1 ELSE Count
<1> USE DEF IInv, TypeOK
<1>1. Count \in 0 .. INT_QUEUE_SIZE - 1
  BY CountValue DEF Count
<1>2. ASSUME NEW k \in Slots PROVE Entry(k) \in Vectors
  <2>1. (int_queue_head + k) % INT_QUEUE_SIZE \in Slots
    BY SlotValue, QueueSizeAssumption DEF Slots
  <2> QED
    BY <2>1 DEF Entry
<1>3. CASE int4 = "released"
  <2>1. Count - 1 \in Nat
    BY <1>1, <1>3, QueueSizeAssumption DEF LineMirrorsQueue
  <2>2. \A i \in 1 .. Count - 1 : i \in Slots
    BY <1>1, QueueSizeAssumption DEF Slots
  <2>3. \A i \in 1 .. Count - 1 : Entry(i) \in Vectors
    BY <1>2, <2>2
  <2>4. Pending = [i \in 1 .. Count - 1 |-> Entry(i)]
    BY <1>3 DEF Pending
  <2>5. Pending \in Seq(Vectors) /\ Len(Pending) = Count - 1
    BY <2>1, <2>3, <2>4, IsASeq, LenProperties
  <2> QED
    BY <1>1, <1>3, <2>5
<1>4. CASE int4 # "released"
  <2>1. Count \in Nat
    BY <1>1, QueueSizeAssumption
  <2>2. \A i \in 1 .. Count : i - 1 \in Slots
    BY <1>1, QueueSizeAssumption DEF Slots
  <2>3. \A i \in 1 .. Count : Entry(i - 1) \in Vectors
    BY <1>2, <2>2
  <2>4. Pending = [i \in 1 .. Count |-> Entry(i - 1)]
    BY <1>4 DEF Pending
  <2>5. Pending \in Seq(Vectors) /\ Len(Pending) = Count
    BY <2>1, <2>3, <2>4, IsASeq, LenProperties
  <2> QED
    BY <1>1, <1>4, <2>5
<1> QED
  BY <1>3, <1>4

(* Entering the queue is appending to Pending.                             *)
LEMMA EnqueueAppends ==
  ASSUME IInv, NEW v \in Vectors, DeviceRaises(v)
  PROVE  Fifo!Accept(v) \/ UNCHANGED <<Pending, bus>>
<1> USE DEF IInv, TypeOK
<1> DEFINE next == Next1(int_queue_tail)
           h == int_queue_head
           t == int_queue_tail
<1>1. /\ int4 # "released" /\ int4' = int4
      /\ h' = h /\ bus' = bus
  BY DEF DeviceRaises, Z80_EXTINT_enqueue
<1>2. Pending = [i \in 1 .. Count |-> Entry(i - 1)]
  BY <1>1 DEF Pending
<1>3. Pending' = [i \in 1 .. Count' |-> Entry(i - 1)']
  BY <1>1 DEF Pending
<1>4. CASE next = h
  <2>1. UNCHANGED <<int_queue, int_queue_tail>>
    BY <1>4 DEF DeviceRaises, Z80_EXTINT_enqueue
  <2> QED
    BY <1>1, <2>1 DEF Pending, Count, Entry
<1>5. CASE next # h
  <2>1. int_queue' = [int_queue EXCEPT ![t] = v] /\ t' = next
    BY <1>5 DEF DeviceRaises, Z80_EXTINT_enqueue
  <2>2. Count' = Count + 1 /\ Count < INT_QUEUE_SIZE - 1 /\ Count \in Nat
    BY <1>1, <1>5, <2>1, CountEnqueue, CountValue, PendingType, QueueSizeAssumption DEF Count
  <2>3. Pending \in Seq(Vectors) /\ Len(Pending) = Count
    BY <1>1, PendingType
  <2>4. ASSUME NEW i \in 1 .. Count PROVE Pending'[i] = Pending[i]
    <3>1. i - 1 \in 0 .. Count - 1 /\ i \in 1 .. Count'
      BY <2>2
    <3>2. (h + (i - 1)) % INT_QUEUE_SIZE # t
      BY <3>1, SlotsInUse DEF Count
    <3>3. Entry(i - 1)' = Entry(i - 1)
      BY <1>1, <2>1, <3>2 DEF Entry
    <3> QED
      BY <1>2, <1>3, <3>1, <3>3
  <2>5. Pending'[Count + 1] = v
    <3>1. PICK k \in Nat : k = Count
      BY <2>2
    <3>2. (h + k) % INT_QUEUE_SIZE = t
      BY <3>1, SlotsInUse DEF Count
    <3>3. Entry(k)' = v
      BY <1>1, <2>1, <3>2 DEF Entry
    <3>4. k + 1 \in 1 .. Count' /\ (k + 1) - 1 = k
      BY <2>2, <3>1
    <3>5. Pending'[k + 1] = Entry(k)'
      BY <1>3, <3>4
    <3> QED
      BY <3>1, <3>3, <3>5
  <2>6. Pending' = Append(Pending, v)
    <3>1. /\ Append(Pending, v) \in Seq(Vectors) /\ Len(Append(Pending, v)) = Count + 1
          /\ \A i \in 1 .. Count : Append(Pending, v)[i] = Pending[i]
          /\ Append(Pending, v)[Count + 1] = v
      BY <2>3, AppendProperties
    <3>2. DOMAIN Pending' = 1 .. Count + 1
      BY <1>3, <2>2
    <3>3. Pending' = [i \in 1 .. Count + 1 |-> Pending'[i]]
      BY <1>3, <2>2
    <3>4. Append(Pending, v) = [i \in 1 .. Count + 1 |-> Append(Pending, v)[i]]
      BY <3>1, LenProperties
    <3>5. \A i \in 1 .. Count + 1 : Pending'[i] = Append(Pending, v)[i]
      BY <2>2, <2>4, <2>5, <3>1
    <3> QED
      BY <3>3, <3>4, <3>5
  <2> QED
    BY <1>1, <2>2, <2>3, <2>6 DEF Fifo!Accept
<1> QED
  BY <1>4, <1>5

(* Releasing the Z80 takes the head of Pending away and puts it on the     *)
(* bus: this half of INT4 is the abstract acknowledge.                     *)
LEMMA ReleaseAcknowledges == IInv /\ INT4_release => Fifo!Take
<1> SUFFICES ASSUME IInv, INT4_release PROVE Fifo!Take
  OBVIOUS
<1> USE DEF IInv, TypeOK
<1>1. Count > 0
  BY DEF INT4_release, LineMirrorsQueue, AckIsAnswered
<1>2. /\ Pending \in Seq(Vectors) /\ Len(Pending) = Count
      /\ Count \in Nat
  BY PendingType, QueueSizeAssumption DEF INT4_release
<1>3. Pending = [i \in 1 .. Count |-> Entry(i - 1)]
  BY DEF INT4_release, Pending
<1>4. Pending' = [i \in 1 .. Count - 1 |-> Entry(i)]
  BY DEF INT4_release, Pending, Count, Entry, queueVars
<1>5. Pending # <<>>
  BY <1>1, <1>2, EmptySeq
<1>6. bus' = Head(Pending)
  <2>1. (int_queue_head + 0) % INT_QUEUE_SIZE = int_queue_head
    <3>1. int_queue_head \in Slots
      OBVIOUS
    <3> QED
      BY <3>1, QueueSizeAssumption, SMTT(20) DEF Slots
  <2>2. Pending[1] = Entry(0)
    BY <1>1, <1>2, <1>3
  <2>3. Entry(0) = z80_int_vector
    BY <1>1, <2>1 DEF VectorIsHead, Entry
  <2> QED
    BY <1>2, <1>5, <2>2, <2>3 DEF INT4_release
<1>7. Pending' = Tail(Pending)
  <2>1. /\ Tail(Pending) \in Seq(Vectors) /\ Len(Tail(Pending)) = Count - 1
        /\ \A i \in 1 .. Count - 1 : Tail(Pending)[i] = Pending[i + 1]
    BY <1>2, <1>5, HeadTailProperties
  <2>2. Tail(Pending) = [i \in 1 .. Count - 1 |-> Tail(Pending)[i]]
    BY <2>1, LenProperties
  <2>3. ASSUME NEW i \in 1 .. Count - 1 PROVE Entry(i) = Tail(Pending)[i]
    <3>1. i + 1 \in 1 .. Count /\ (i + 1) - 1 = i
      BY <1>2
    <3>2. Pending[i + 1] = Entry((i + 1) - 1)
      BY <1>3, <3>1
    <3> QED
      BY <2>1, <3>1, <3>2
  <2> QED
    BY <1>4, <2>2, <2>3
<1> QED
  BY <1>5, <1>6, <1>7 DEF Fifo!Take

(* Advancing the head afterwards is invisible.                             *)
LEMMA DequeueStutters == IInv /\ INT4_dequeue => UNCHANGED <<Pending, bus>>
<1> SUFFICES ASSUME IInv, INT4_dequeue PROVE UNCHANGED <<Pending, bus>>
  OBVIOUS
<1> USE DEF IInv, TypeOK
<1> DEFINE h == int_queue_head
           t == int_queue_tail
<1>1. Count > 0 /\ int4 = "released"
  BY DEF INT4_dequeue, LineMirrorsQueue
<1>2. h # t /\ Count \in 0 .. INT_QUEUE_SIZE - 1
  BY <1>1, CountValue, QueueSizeAssumption DEF Count
<1>3. h' = Next1(h) /\ int4' = "off" /\ UNCHANGED <<int_queue, int_queue_tail, bus>>
  BY <1>1, <1>2 DEF INT4_dequeue
<1>4. Count' = Count - 1
  BY <1>2, <1>3, CountDequeue DEF Count
<1>5. Pending = [i \in 1 .. Count - 1 |-> Entry(i)]
  BY <1>1 DEF Pending
<1>6. Pending' = [i \in 1 .. Count - 1 |-> Entry(i - 1)']
  BY <1>3, <1>4 DEF Pending
<1>7. ASSUME NEW i \in 1 .. Count - 1 PROVE Entry(i - 1)' = Entry(i)
  <2>1. i \in Slots /\ i # 0
    BY <1>2, QueueSizeAssumption DEF Slots
  <2>2. (Next1(h) + (i - 1)) % INT_QUEUE_SIZE = (h + i) % INT_QUEUE_SIZE
    BY <2>1, SlotShift
  <2> QED
    BY <1>3, <2>2 DEF Entry
<1> QED
  BY <1>3, <1>5, <1>6, <1>7

(* Neither the Z80 nor a reset touches what is pending.                    *)
LEMMA Z80Stutters == IInv /\ (Z80Step \/ Z80_RESET) => UNCHANGED <<Pending, bus>>
<1> SUFFICES ASSUME IInv, Z80Step \/ Z80_RESET PROVE UNCHANGED <<Pending, bus>>
  OBVIOUS
<1>1. UNCHANGED <<queueVars, bus>>
  BY DEF Z80Step, Z80_accept, Z80_EI, Z80_DI, Z80_RESET
<1>2. int4' = "released" <=> int4 = "released"
  BY DEF Z80Step, Z80_accept, Z80_EI, Z80_DI, Z80_RESET, IInv, LineMirrorsQueue
<1> QED
  BY <1>1, <1>2 DEF Pending, Count, Entry, queueVars

(* The ring buffer, the line and the two halves of INT4 are a FIFO that    *)
(* loses nothing it accepted, for every queue size: FifoOrder.             *)
THEOREM Refinement == Safety => FifoOrder
<1>1. Init => Fifo!FifoInit
  <2> SUFFICES ASSUME Init PROVE Fifo!FifoInit
    OBVIOUS
  <2>1. IInv
    BY InitIInv
  <2>2. Count = 0
    BY QueueSizeAssumption, CountValue DEF Init, Count, Slots
  <2>3. Pending \in Seq(Vectors) /\ Len(Pending) = 0
    BY <2>1, <2>2, PendingType DEF Init
  <2> QED
    BY <2>3, EmptySeq, VectorsAssumption DEF Init, Fifo!FifoInit
<1>2. IInv /\ [Next]_vars => [Fifo!FifoNext]_(Fifo!fifoVars)
  <2> SUFFICES ASSUME IInv, [Next]_vars
               PROVE  Fifo!FifoNext \/ UNCHANGED <<Pending, bus>>
    BY DEF Fifo!fifoVars
  <2>1. CASE UNCHANGED vars
    BY <2>1 DEF vars, queueVars, Pending, Count, Entry
  <2>2. CASE AvrStep
    <3>1. CASE \E v \in Vectors : DeviceRaises(v)
      BY <3>1, EnqueueAppends DEF Fifo!FifoNext
    <3>2. CASE INT4_release
      BY <3>2, ReleaseAcknowledges DEF Fifo!FifoNext
    <3>3. CASE INT4_dequeue
      BY <3>3, DequeueStutters
    <3> QED
      BY <2>2, <3>1, <3>2, <3>3 DEF AvrStep
  <2>3. CASE Z80Step \/ Z80_RESET
    BY <2>3, Z80Stutters
  <2> QED
    BY <2>1, <2>2, <2>3 DEF Next
<1> QED
  BY <1>1, <1>2, Invariance, PTL DEF Safety, FifoOrder, Fifo!FifoSafety
=============================================================================
