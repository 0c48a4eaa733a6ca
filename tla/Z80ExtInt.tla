------------------------------ MODULE Z80ExtInt ------------------------------
(***************************************************************************)
(* The interrupt path of the board: the vector queue of z80io.c, the /INT  *)
(* line (PORTD4), and the acknowledge cycle, in which the Z80 is held in   *)
(* /WAIT until the INT4 handler of isr.c has put a vector on its bus.      *)
(*                                                                         *)
(* Two processors move independently.  On the AVR every handler that       *)
(* touches the queue runs with interrupts off, so a call of                *)
(* Z80_EXTINT_enqueue is one step; INT4 is two, because it lets the Z80 go *)
(* before it advances the queue.  The Z80 may take any number of steps     *)
(* between the two.                                                        *)
(***************************************************************************)
EXTENDS Integers, Sequences

CONSTANTS INT_QUEUE_SIZE,   \* slots of the ring buffer (8 in z80io.c)
          Vectors           \* the vectors the devices are set up with

(* A ring of two slots would let a refused vector overwrite the one at the *)
(* head: the queue holds one entry when it is full, and one entry is what  *)
(* makes enqueue load z80_int_vector.                                      *)
ASSUME QueueSizeAssumption == INT_QUEUE_SIZE \in Nat /\ INT_QUEUE_SIZE >= 3
(* 0 is what the C start-up code leaves in the queue and in the vector.    *)
ASSUME VectorsAssumption == 0 \in Vectors

VARIABLES int_queue,        \* the ring buffer
          int_queue_head, int_queue_tail,
          z80_int_vector,   \* the vector INT4 will put on the bus
          intLow,           \* /INT (PORTD4) is low
          bus,              \* the vector of the last acknowledge cycle
          int4,             \* INT4 on the AVR: "off", "raised", "released"
          z80,              \* the Z80: "run", or "ack" while held in /WAIT
          iff               \* its interrupt enable flip-flop

queueVars == <<int_queue, int_queue_head, int_queue_tail, z80_int_vector>>
vars == <<queueVars, intLow, bus, int4, z80, iff>>

(* Mutant: the index is not wrapped.                                       *)
Next1_NoWrap(i) == i + 1

Slots == 0 .. INT_QUEUE_SIZE - 1
Next1(i) == (i + 1) % INT_QUEUE_SIZE
CountOf(head, tail) == (tail - head + INT_QUEUE_SIZE) % INT_QUEUE_SIZE
Count == CountOf(int_queue_head, int_queue_tail)

Init == /\ int_queue = [i \in Slots |-> 0]
        /\ int_queue_head = 0 /\ int_queue_tail = 0
        /\ z80_int_vector = 0
        /\ intLow = FALSE
        /\ bus = 0
        /\ int4 = "off"
        /\ z80 = "run"
        /\ iff = FALSE
-----------------------------------------------------------------------------
(* Mutant: the vector is loaded at every call (one vector variable shared  *)
(* by all devices, as before the queue was introduced).                    *)
Enqueue_LoadsAlways(v) ==
  LET next == Next1(int_queue_tail)
      fits == next # int_queue_head
  IN /\ int_queue' = IF fits THEN [int_queue EXCEPT ![int_queue_tail] = v]
                             ELSE int_queue
     /\ int_queue_tail' = IF fits THEN next ELSE int_queue_tail
     /\ z80_int_vector' = v
     /\ intLow' = TRUE
     /\ UNCHANGED int_queue_head

(* Mutant: the count is taken before the entry is added.                   *)
Enqueue_CountsEarly(v) ==
  LET next == Next1(int_queue_tail)
      fits == next # int_queue_head
  IN /\ int_queue' = IF fits THEN [int_queue EXCEPT ![int_queue_tail] = v]
                             ELSE int_queue
     /\ int_queue_tail' = IF fits THEN next ELSE int_queue_tail
     /\ z80_int_vector' = IF Count = 1 THEN v ELSE z80_int_vector
     /\ intLow' = (intLow \/ Count = 1)
     /\ UNCHANGED int_queue_head

(* Devices: a vector enters the queue.  A full queue drops it without a    *)
(* trace.  /INT goes low only when the vector is the only one, for then    *)
(* the line is high; otherwise INT4 will lower it when its turn comes.     *)
Z80_EXTINT_enqueue(v) ==
  LET next == Next1(int_queue_tail)
      fits == next # int_queue_head
      tail == IF fits THEN next ELSE int_queue_tail
      only == CountOf(int_queue_head, tail) = 1
  IN /\ int_queue' = IF fits THEN [int_queue EXCEPT ![int_queue_tail] = v]
                             ELSE int_queue
     /\ int_queue_tail' = tail
     /\ z80_int_vector' = IF only THEN v ELSE z80_int_vector
     /\ intLow' = (intLow \/ only)
     /\ UNCHANGED int_queue_head

(* Mutant: the pulse on /CLRWAIT is missing.                               *)
Release_KeepsWait == /\ int4 = "raised"
                     /\ int4' = "released"
                     /\ bus' = z80_int_vector
                     /\ intLow' = FALSE
                     /\ UNCHANGED <<queueVars, z80, iff>>

(* INT4, up to the pulse that ends the /WAIT: the vector goes on the bus   *)
(* and /INT returns to high.  A Z80 that was reset meanwhile is no longer  *)
(* there to read it.                                                       *)
INT4_release == /\ int4 = "raised"
                /\ int4' = "released"
                /\ bus' = z80_int_vector
                /\ intLow' = FALSE
                /\ z80' = "run"
                /\ UNCHANGED <<queueVars, iff>>

(* Mutant: the vector variable keeps the entry just delivered.             *)
Dequeue_KeepsVector ==
  LET head == Next1(int_queue_head)
  IN /\ int4 = "released" /\ int4' = "off"
     /\ int_queue_head' = head
     /\ intLow' = (intLow \/ head # int_queue_tail)
     /\ UNCHANGED <<int_queue, int_queue_tail, z80_int_vector, bus, z80, iff>>

(* Mutant: /INT is left high although entries remain.                      *)
Dequeue_LeavesHigh ==
  LET head == Next1(int_queue_head)
  IN /\ int4 = "released" /\ int4' = "off"
     /\ int_queue_head' = head
     /\ z80_int_vector' = IF head # int_queue_tail THEN int_queue[head]
                                                   ELSE z80_int_vector
     /\ UNCHANGED <<int_queue, int_queue_tail, intLow, bus, z80, iff>>

(* INT4, the rest: Z80_EXTINT_dequeue, then /INT low again for the next.   *)
INT4_dequeue ==
  LET empty == int_queue_head = int_queue_tail
      head  == IF empty THEN int_queue_head ELSE Next1(int_queue_head)
      more  == ~empty /\ head # int_queue_tail
  IN /\ int4 = "released"
     /\ int4' = "off"
     /\ int_queue_head' = head
     /\ z80_int_vector' = IF more THEN int_queue[head] ELSE z80_int_vector
     /\ intLow' = (intLow \/ more)
     /\ UNCHANGED <<int_queue, int_queue_tail, bus, z80, iff>>

(* Some handler of the AVR raises a vector.  None runs inside INT4.        *)
DeviceRaises(v) == /\ int4 # "released"
                   /\ Z80_EXTINT_enqueue(v)
                   /\ UNCHANGED <<bus, int4, z80, iff>>
-----------------------------------------------------------------------------
(* The Z80 ends an instruction with interrupts enabled and /INT low: the   *)
(* acknowledge cycle clears its flip-flop, starts /WAIT and latches INT4.  *)
Z80_accept == /\ z80 = "run" /\ iff /\ intLow
              /\ z80' = "ack" /\ iff' = FALSE /\ int4' = "raised"
              /\ UNCHANGED <<queueVars, intLow, bus>>

(* EI and DI of the program.  The reset pulse lasts 10 ms, far longer than *)
(* a latched INT4 takes, so after a reset EI finds INT4 served.            *)
Z80_EI == /\ z80 = "run" /\ ~iff /\ int4 # "raised"
          /\ iff' = TRUE
          /\ UNCHANGED <<queueVars, intLow, bus, int4, z80>>

Z80_DI == /\ z80 = "run" /\ iff
          /\ iff' = FALSE
          /\ UNCHANGED <<queueVars, intLow, bus, int4, z80>>

(* The monitor resets the Z80.  Nothing flushes the queue or lifts /INT.   *)
Z80_RESET == /\ int4 # "released"
             /\ z80' = "run" /\ iff' = FALSE
             /\ UNCHANGED <<queueVars, intLow, bus, int4>>

AvrStep == (\E v \in Vectors : DeviceRaises(v)) \/ INT4_release \/ INT4_dequeue
Z80Step == Z80_accept \/ Z80_EI \/ Z80_DI
Next == AvrStep \/ Z80Step \/ Z80_RESET

Safety == Init /\ [][Next]_vars

(* INT4 is served once latched.  The program does not stay in a DI section *)
(* for ever, and an instruction sooner or later ends with interrupts on    *)
(* and /INT low, however often DI or a reset comes first.                  *)
Fairness == /\ WF_vars(INT4_release) /\ WF_vars(INT4_dequeue)
            /\ WF_vars(Z80_EI) /\ SF_vars(Z80_accept)
Spec == Safety /\ Fairness
-----------------------------------------------------------------------------
(* Types: both indices stay inside the ring and every vector is one that   *)
(* some device was set up with.                                            *)
TypeOK == /\ int_queue \in [Slots -> Vectors]
          /\ int_queue_head \in Slots /\ int_queue_tail \in Slots
          /\ z80_int_vector \in Vectors /\ bus \in Vectors
          /\ intLow \in BOOLEAN /\ iff \in BOOLEAN
          /\ int4 \in {"off", "raised", "released"}
          /\ z80 \in {"run", "ack"}

(* enqueue asserts /INT for the first entry alone and INT4 for each later  *)
(* one.  Together they never leave an entry behind a line that nobody will *)
(* pull again, and never keep the line low over an empty queue.            *)
LineMirrorsQueue == IF int4 = "released" THEN ~intLow /\ Count > 0
                                         ELSE intLow <=> Count > 0

(* z80_int_vector is a copy of the head entry, refreshed by two different  *)
(* functions; whenever an entry is still to be delivered it is that entry. *)
VectorIsHead == Count > 0 => z80_int_vector = int_queue[int_queue_head]

(* INT4 is only ever raised by an acknowledge of an asserted line, so the  *)
(* Z80 never reads a vector nobody raised; a Z80 in /WAIT has its INT4     *)
(* pending, so that someone will let it go.                                *)
AckIsAnswered == /\ int4 = "raised" => intLow
                 /\ z80 = "ack" => int4 = "raised"

IInv == TypeOK /\ LineMirrorsQueue /\ VectorIsHead /\ AckIsAnswered
-----------------------------------------------------------------------------
(* The entries not yet put on the bus, oldest first.  Between the two      *)
(* halves of INT4 the head entry has been delivered but is still stored.   *)
Entry(i) == int_queue[(int_queue_head + i) % INT_QUEUE_SIZE]
Pending == IF int4 = "released" THEN [i \in 1 .. Count - 1 |-> Entry(i)]
                                ELSE [i \in 1 .. Count |-> Entry(i - 1)]

Fifo == INSTANCE BoundedFifo
  WITH kept <- Pending, last <- bus, Items <- Vectors, Capacity <- INT_QUEUE_SIZE - 1

(* The path is a FIFO: an accepted vector reaches the bus at most once and *)
(* in its order, and only a full queue refuses one.                        *)
FifoOrder == Fifo!FifoSafety

(* No accepted vector is left behind: while one is pending, acknowledge    *)
(* cycles keep coming.  A line left high over a non-empty queue would end  *)
(* all interrupts of the machine.                                          *)
EveryVectorDelivered == Fifo!FifoLive
=============================================================================
