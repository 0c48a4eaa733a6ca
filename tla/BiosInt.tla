------------------------------- MODULE BiosInt -------------------------------
(***************************************************************************)
(* The Z80 running under the BIOS of bios.asm, as far as interrupts go:    *)
(* its interrupt enable flip-flop, the service routines ISR_00 to ISR_04   *)
(* and the flags they leave for the main line.  The interrupt path of the  *)
(* board is the bounded FIFO that Z80ExtInt is proved to implement, with   *)
(* /INT low while the FIFO holds a vector.                                 *)
(***************************************************************************)
EXTENDS Integers, Sequences

CONSTANT INT_QUEUE_SIZE      \* 8 in z80io.c

ASSUME IntQueueAssumption == INT_QUEUE_SIZE \in Nat /\ INT_QUEUE_SIZE >= 2

VARIABLES pending,    \* the vectors waiting for their acknowledge cycle
          bus,        \* the vector of the last one
          refused,    \* a full queue has dropped a vector
          iff,        \* interrupts are enabled
          serving,    \* the routine of vector bus is running
          flag        \* IS_READ_DONE, IS_WRITE_DONE, IS_CONOUT_FREE, IS_CONIN_QUEUING

intVars == <<pending, bus, refused, iff, serving, flag>>

(* The levels BOOT hands to the devices, and the vector of a level.        *)
DSKRD == 0
DSKWR == 1
CONOUT_INT == 2
CONIN_INT == 3
Disabled == 128
Vector(level) == 2 * level
FlaggedVectors == {Vector(l) : l \in {DSKRD, DSKWR, CONOUT_INT, CONIN_INT}}

Queue == INSTANCE BoundedFifo
  WITH kept <- pending, last <- bus, Items <- FlaggedVectors,
       Capacity <- INT_QUEUE_SIZE - 1

IntInit == /\ Queue!FifoInit /\ bus = 0
           /\ refused = FALSE /\ iff = FALSE /\ serving = FALSE
           /\ flag = [v \in FlaggedVectors |-> FALSE]

(* Mutant: the vector is stored though the queue is full.                  *)
Notify_Overruns(level) ==
  IF level < Disabled
  THEN /\ pending' = Append(pending, Vector(level))
       /\ UNCHANGED <<bus, refused>>
  ELSE UNCHANGED <<pending, bus, refused>>

(* A device whose level is below 128 raises its vector.                    *)
Notify(level) ==
  IF level < Disabled
  THEN \/ Queue!Accept(Vector(level)) /\ refused' = refused
       \/ Queue!Refuse /\ refused' = TRUE
  ELSE UNCHANGED <<pending, bus, refused>>

(* The acknowledge cycle, at the end of any instruction of the main line.  *)
Z80_acknowledge == /\ ~serving /\ iff
                   /\ Queue!Take
                   /\ serving' = TRUE /\ iff' = FALSE
                   /\ UNCHANGED <<refused, flag>>

(* The service routine: set the flag, EI, RETI.                            *)
Z80_isr == /\ serving /\ serving' = FALSE
           /\ iff' = TRUE
           /\ flag' = [flag EXCEPT ![bus] = TRUE]
           /\ UNCHANGED <<pending, bus, refused>>

(* The main line executes while no routine runs and no interrupt is due:   *)
(* with interrupts on and /INT low the next step is the acknowledge.       *)
MainRuns == ~serving /\ ~(iff /\ pending # <<>>)

IntTypeOK == /\ pending \in Seq(FlaggedVectors) /\ Len(pending) < INT_QUEUE_SIZE
             /\ bus \in FlaggedVectors
             /\ refused \in BOOLEAN /\ iff \in BOOLEAN /\ serving \in BOOLEAN
             /\ flag \in [FlaggedVectors -> BOOLEAN]
=============================================================================
