--------------------------- MODULE ExtMemBusProofs ---------------------------
(* The bus is held by whoever copies, but for a command whose request a     *)
(* transfer has withdrawn, for every depth of Timer2's handlers and every   *)
(* set of commands.                                                         *)
EXTENDS ExtMemBus, SequenceTheorems, TLAPS

\* SRE is set; in the middle of a transfer; not robbed of what attach set.
Owns(i) == pc[i] \in {"enter", "copy", "leave", "detach"}
Busy(i) == pc[i] \in BusPcs \cup {"next"}
Unrobbed(i) == i = 0 => ~withdrawn

(* The parts of the inductive invariant. *)
Kinds ==
  /\ pc[0] \in MainPcs \cup BusPcs
  /\ \A i \in 1 .. top : pc[i] \in TimerPcs \cup BusPcs
  /\ pc[0] \in BusPcs => todo # <<>>
  /\ withdrawn => OnBus(0)

\* Only one handler got past in_progress; those above it are about to return.
OneBusy ==
  \A i \in 1 .. top : Busy(i) =>
    /\ in_progress
    /\ \A j \in i + 1 .. top : pc[j] = "entry"

\* What is set belongs to someone, and everybody has it but those robbed.
Wires ==
  /\ \A i \in 0 .. top : OnBus(i) /\ Unrobbed(i) => busreq
  /\ \A i \in 0 .. top : Owns(i) /\ Unrobbed(i) => sre /\ Acked
  /\ \A i \in 1 .. top : pc[i] = "release" /\ OnBus(0) => withdrawn
  /\ busreq => \E i \in 0 .. top : OnBus(i)
  /\ sre => \E i \in 0 .. top : Owns(i)
  /\ z80 = "reset" => pc[0] = "pulse"

WindowOpen == shadow <=> Shut(0) /\ Head(todo) = "shadow"

InterruptsOn ==
  /\ \A i \in Depths : sreg[i] = TRUE
  /\ ien \/ (top > 0 /\ Shut(top))

IInv == TypeOK /\ Kinds /\ OneBusy /\ Wires /\ WindowOpen /\ InterruptsOn
-----------------------------------------------------------------------------
(* The invariant holds at the start. *)
LEMMA InitInv == Init => IInv
<1> SUFFICES ASSUME Init PROVE IInv
  OBVIOUS
<1> USE DepthAssumption DEF Init, Depths, MainPcs, TimerPcs, BusPcs, Pcs
<1>1. <<>> \in Seq(Places) /\ 0 \in Depths
  BY SMT
<1>4. TypeOK
  BY <1>1 DEF TypeOK
<1>2. Kinds /\ OneBusy /\ WindowOpen /\ InterruptsOn
  BY DEF Kinds, OneBusy, WindowOpen, InterruptsOn, Shut
<1>3. Wires
  BY DEF Wires, OnBus, Owns
<1> QED
  BY <1>2, <1>3, <1>4 DEF IInv

LEMMA StartIoInv ==
  ASSUME IInv, StartIo
  PROVE  IInv'
<1> USE DepthAssumption, CommandsAssumption
     DEF IInv, TypeOK, StartIo, At, Goto, lines, MainPcs, TimerPcs, BusPcs,
         Pcs, Depths, Kinds, OnBus, Owns, Busy, Shut, Unrobbed
<1>1. TypeOK'
  BY SMTT(30)
<1>2. Kinds'
  BY SMTT(30) DEF Kinds
<1>3. OneBusy'
  BY SMTT(30) DEF OneBusy
<1>4. Wires'
  BY SMTT(30) DEF Wires, OneBusy, Acked
<1>5. WindowOpen'
  BY SMTT(30) DEF WindowOpen
<1>6. InterruptsOn'
  BY SMTT(30) DEF InterruptsOn
<1> QED
  BY <1>1, <1>2, <1>3, <1>4, <1>5, <1>6

LEMMA GrantInv ==
  ASSUME IInv, Grant
  PROVE  IInv'
<1> USE DepthAssumption, CommandsAssumption
     DEF IInv, TypeOK, Grant, At, Goto, lines, MainPcs, TimerPcs, BusPcs,
         Pcs, Depths, Kinds, OnBus, Owns, Busy, Shut, Unrobbed
<1>1. TypeOK'
  BY SMTT(30)
<1>2. Kinds'
  BY SMTT(30) DEF Kinds
<1>3. OneBusy'
  BY SMTT(30) DEF OneBusy
<1>4. Wires'
  BY SMTT(30) DEF Wires, OneBusy, Acked
<1>5. WindowOpen'
  BY SMTT(30) DEF WindowOpen
<1>6. InterruptsOn'
  BY SMTT(30) DEF InterruptsOn
<1> QED
  BY <1>1, <1>2, <1>3, <1>4, <1>5, <1>6

LEMMA TakeBackInv ==
  ASSUME IInv, TakeBack
  PROVE  IInv'
<1> USE DepthAssumption, CommandsAssumption
     DEF IInv, TypeOK, TakeBack, At, Goto, lines, MainPcs, TimerPcs, BusPcs,
         Pcs, Depths, Kinds, OnBus, Owns, Busy, Shut, Unrobbed
<1>1. TypeOK'
  BY SMTT(30)
<1>2. Kinds'
  BY SMTT(30) DEF Kinds
<1>3. OneBusy'
  BY SMTT(30) DEF OneBusy
<1>4. Wires'
  BY SMTT(30) DEF Wires, OneBusy, Acked
<1>5. WindowOpen'
  BY SMTT(30) DEF WindowOpen
<1>6. InterruptsOn'
  BY SMTT(30) DEF InterruptsOn
<1> QED
  BY <1>1, <1>2, <1>3, <1>4, <1>5, <1>6

LEMMA IoInterruptInv ==
  ASSUME IInv, IoInterrupt
  PROVE  IInv'
<1> USE DepthAssumption, CommandsAssumption
     DEF IInv, TypeOK, IoInterrupt, At, Goto, lines, MainPcs, TimerPcs, BusPcs,
         Pcs, Depths, Kinds, OnBus, Owns, Busy, Shut, Unrobbed
<1>1. TypeOK'
  BY SMTT(30)
<1>2. Kinds'
  BY SMTT(30) DEF Kinds
<1>3. OneBusy'
  BY SMTT(30) DEF OneBusy
<1>4. Wires'
  BY SMTT(30) DEF Wires, OneBusy, Acked
<1>5. WindowOpen'
  BY SMTT(30) DEF WindowOpen
<1>6. InterruptsOn'
  BY SMTT(30) DEF InterruptsOn
<1> QED
  BY <1>1, <1>2, <1>3, <1>4, <1>5, <1>6

LEMMA Timer2InterruptInv ==
  ASSUME IInv, Timer2Interrupt
  PROVE  IInv'
<1> USE DepthAssumption, CommandsAssumption
     DEF IInv, TypeOK, Timer2Interrupt, At, Goto, lines, MainPcs, TimerPcs, BusPcs,
         Pcs, Depths, Kinds, OnBus, Owns, Busy, Shut, Unrobbed
<1>1. TypeOK'
  BY SMTT(30)
<1>2. Kinds'
  BY SMTT(30) DEF Kinds
<1>3. OneBusy'
  BY SMTT(30) DEF OneBusy
<1>4. Wires'
  BY SMTT(30) DEF Wires, OneBusy, Acked
<1>5. WindowOpen'
  BY SMTT(30) DEF WindowOpen
<1>6. InterruptsOn'
  BY SMTT(30) DEF InterruptsOn
<1> QED
  BY <1>1, <1>2, <1>3, <1>4, <1>5, <1>6

LEMMA Z80_BUSREQInv ==
  ASSUME IInv, Z80_BUSREQ
  PROVE  IInv'
<1> USE DepthAssumption, CommandsAssumption
     DEF IInv, TypeOK, Z80_BUSREQ, At, Goto, lines, MainPcs, TimerPcs, BusPcs,
         Pcs, Depths, Kinds, OnBus, Owns, Busy, Shut, Unrobbed
<1>1. TypeOK'
  BY SMTT(30)
<1>2. Kinds'
  BY SMTT(30) DEF Kinds
<1>3. OneBusy'
  BY SMTT(30) DEF OneBusy
<1>4. Wires'
  BY SMTT(30) DEF Wires, OneBusy, Acked
<1>5. WindowOpen'
  BY SMTT(30) DEF WindowOpen
<1>6. InterruptsOn'
  BY SMTT(30) DEF InterruptsOn
<1> QED
  BY <1>1, <1>2, <1>3, <1>4, <1>5, <1>6

LEMMA ExtMem_attachInv ==
  ASSUME IInv, ExtMem_attach
  PROVE  IInv'
<1> USE DepthAssumption, CommandsAssumption
     DEF IInv, TypeOK, ExtMem_attach, At, Goto, lines, MainPcs, TimerPcs, BusPcs,
         Pcs, Depths, Kinds, OnBus, Owns, Busy, Shut, Unrobbed
<1>1. TypeOK'
  BY SMTT(30)
<1>2. Kinds'
  BY SMTT(30) DEF Kinds
<1>3. OneBusy'
  BY SMTT(30) DEF OneBusy
<1>4. Wires'
  BY SMTT(30) DEF Wires, OneBusy, Acked
<1>5. WindowOpen'
  BY SMTT(30) DEF WindowOpen
<1>6. InterruptsOn'
  BY SMTT(30) DEF InterruptsOn
<1> QED
  BY <1>1, <1>2, <1>3, <1>4, <1>5, <1>6

LEMMA EnterInv ==
  ASSUME IInv, Enter
  PROVE  IInv'
<1> USE DepthAssumption, CommandsAssumption
     DEF IInv, TypeOK, Enter, At, Goto, lines, MainPcs, TimerPcs, BusPcs,
         Pcs, Depths, Kinds, OnBus, Owns, Busy, Shut, Unrobbed
<1>0. ien = TRUE
  BY SMT DEF InterruptsOn
<1>a. /\ top = 0 => /\ shadow' = (Head(todo) = "shadow") /\ sreg' = sreg /\ ien' = TRUE
      /\ top # 0 => /\ shadow' = shadow /\ sreg' = [sreg EXCEPT ![top] = TRUE] /\ ien' = FALSE
  BY <1>0, Zenon
<1>b. \A i \in Depths : sreg'[i] = TRUE
  BY <1>a, SMT DEF InterruptsOn
<1>1. TypeOK'
  BY <1>0, <1>a, <1>b, SMTT(30) DEF InterruptsOn
<1>2. Kinds'
  BY SMTT(30) DEF Kinds
<1>3. OneBusy'
  BY SMTT(30) DEF OneBusy
<1>4. Wires'
  BY SMTT(30) DEF Wires, OneBusy, Acked
<1>5. WindowOpen'
  BY <1>0, <1>a, <1>b, SMTT(30) DEF WindowOpen
<1>6. InterruptsOn'
  BY <1>0, <1>a, <1>b, SMTT(30) DEF InterruptsOn
<1> QED
  BY <1>1, <1>2, <1>3, <1>4, <1>5, <1>6

LEMMA MemcpyInv ==
  ASSUME IInv, Memcpy
  PROVE  IInv'
<1> USE DepthAssumption, CommandsAssumption
     DEF IInv, TypeOK, Memcpy, At, Goto, lines, MainPcs, TimerPcs, BusPcs,
         Pcs, Depths, Kinds, OnBus, Owns, Busy, Shut, Unrobbed
<1>1. TypeOK'
  BY SMTT(30)
<1>2. Kinds'
  BY SMTT(30) DEF Kinds
<1>3. OneBusy'
  BY SMTT(30) DEF OneBusy
<1>4. Wires'
  BY SMTT(30) DEF Wires, OneBusy, Acked
<1>5. WindowOpen'
  BY SMTT(30) DEF WindowOpen
<1>6. InterruptsOn'
  BY SMTT(30) DEF InterruptsOn
<1> QED
  BY <1>1, <1>2, <1>3, <1>4, <1>5, <1>6

LEMMA LeaveInv ==
  ASSUME IInv, Leave
  PROVE  IInv'
<1> USE DepthAssumption, CommandsAssumption
     DEF IInv, TypeOK, Leave, MoreCopies, At, Goto, lines, MainPcs, TimerPcs, BusPcs,
         Pcs, Depths, Kinds, OnBus, Owns, Busy, Shut, Unrobbed
<1>a. todo' \in Seq(Places)
  <2>1. todo \in Seq(Places)
    OBVIOUS
  <2>2. CASE MoreCopies
    <3>1. todo # <<>> /\ todo' = Tail(todo)
      BY <2>1, <2>2, SMT
    <3> QED
      BY <2>1, <3>1, HeadTailProperties
  <2> QED
    BY <2>1, <2>2
<1>b. sreg[top] = TRUE
  BY SMT DEF InterruptsOn
<1>c. ien' \in BOOLEAN /\ shadow' \in BOOLEAN
  BY <1>b, Zenon
<1>1. TypeOK'
  BY <1>a, <1>c, SMTT(30)
<1>2. Kinds'
  BY SMTT(30) DEF Kinds
<1>3. OneBusy'
  BY SMTT(30) DEF OneBusy
<1>4. Wires'
  BY SMTT(30) DEF Wires, OneBusy, Acked
<1>5. WindowOpen'
  BY SMTT(30) DEF WindowOpen
<1>6. InterruptsOn'
  BY SMTT(30) DEF InterruptsOn
<1> QED
  BY <1>1, <1>2, <1>3, <1>4, <1>5, <1>6

LEMMA ExtMem_detachInv ==
  ASSUME IInv, ExtMem_detach
  PROVE  IInv'
<1> USE DepthAssumption, CommandsAssumption
     DEF IInv, TypeOK, ExtMem_detach, At, Goto, lines, MainPcs, TimerPcs, BusPcs,
         Pcs, Depths, Kinds, OnBus, Owns, Busy, Shut, Unrobbed
<1>1. TypeOK'
  <2>1. pc' \in [Depths -> Pcs] /\ top' \in Depths
    BY SMT
  <2> QED
    BY <2>1, Zenon
<1>2. Kinds'
  BY SMTT(30) DEF Kinds
<1>3. OneBusy'
  BY SMTT(30) DEF OneBusy
<1>4. Wires'
  BY SMTT(30) DEF Wires, OneBusy, Acked
<1>5. WindowOpen'
  BY SMTT(30) DEF WindowOpen
<1>6. InterruptsOn'
  BY SMTT(30) DEF InterruptsOn
<1> QED
  BY <1>1, <1>2, <1>3, <1>4, <1>5, <1>6

LEMMA ReleaseInv ==
  ASSUME IInv, Release
  PROVE  IInv'
<1> USE DepthAssumption, CommandsAssumption
     DEF IInv, TypeOK, Release, At, Goto, lines, MainPcs, TimerPcs, BusPcs,
         Pcs, Depths, Kinds, OnBus, Owns, Busy, Shut, Unrobbed
<1>1. TypeOK'
  <2>1. pc' \in [Depths -> Pcs] /\ top' \in Depths
    BY SMT
  <2> QED
    BY <2>1, Zenon
<1>2. Kinds'
  BY SMTT(30) DEF Kinds
<1>3. OneBusy'
  BY SMTT(30) DEF OneBusy
<1>4. Wires'
  BY SMTT(30) DEF Wires, OneBusy, Acked
<1>5. WindowOpen'
  BY SMTT(30) DEF WindowOpen
<1>6. InterruptsOn'
  BY SMTT(30) DEF InterruptsOn
<1> QED
  BY <1>1, <1>2, <1>3, <1>4, <1>5, <1>6

LEMMA CheckProgressInv ==
  ASSUME IInv, CheckProgress
  PROVE  IInv'
<1> USE DepthAssumption, CommandsAssumption
     DEF IInv, TypeOK, CheckProgress, Return, At, Goto, lines, MainPcs, TimerPcs, BusPcs,
         Pcs, Depths, Kinds, OnBus, Owns, Busy, Shut, Unrobbed
<1>1. TypeOK'
  BY SMTT(30)
<1>2. Kinds'
  BY SMTT(30) DEF Kinds
<1>3. OneBusy'
  BY SMTT(30) DEF OneBusy
<1>4. Wires'
  BY SMTT(30) DEF Wires, OneBusy, Acked
<1>5. WindowOpen'
  BY SMTT(30) DEF WindowOpen
<1>6. InterruptsOn'
  BY SMTT(30) DEF InterruptsOn
<1> QED
  BY <1>1, <1>2, <1>3, <1>4, <1>5, <1>6

LEMMA SetProgressInv ==
  ASSUME IInv, SetProgress
  PROVE  IInv'
<1> USE DepthAssumption, CommandsAssumption
     DEF IInv, TypeOK, SetProgress, At, Goto, lines, MainPcs, TimerPcs, BusPcs,
         Pcs, Depths, Kinds, OnBus, Owns, Busy, Shut, Unrobbed
<1>1. TypeOK'
  BY SMTT(30)
<1>2. Kinds'
  BY SMTT(30) DEF Kinds
<1>3. OneBusy'
  BY SMTT(30) DEF OneBusy
<1>4. Wires'
  BY SMTT(30) DEF Wires, OneBusy, Acked
<1>5. WindowOpen'
  BY SMTT(30) DEF WindowOpen
<1>6. InterruptsOn'
  BY SMTT(30) DEF InterruptsOn
<1> QED
  BY <1>1, <1>2, <1>3, <1>4, <1>5, <1>6

LEMMA TransferInv ==
  ASSUME IInv, Transfer
  PROVE  IInv'
<1> USE DepthAssumption, CommandsAssumption
     DEF IInv, TypeOK, Transfer, At, Goto, lines, MainPcs, TimerPcs, BusPcs,
         Pcs, Depths, Kinds, OnBus, Owns, Busy, Shut, Unrobbed
<1>1. TypeOK'
  BY SMTT(30)
<1>2. Kinds'
  BY SMTT(30) DEF Kinds
<1>3. OneBusy'
  BY SMTT(30) DEF OneBusy
<1>4. Wires'
  BY SMTT(30) DEF Wires, OneBusy, Acked
<1>5. WindowOpen'
  BY SMTT(30) DEF WindowOpen
<1>6. InterruptsOn'
  BY SMTT(30) DEF InterruptsOn
<1> QED
  BY <1>1, <1>2, <1>3, <1>4, <1>5, <1>6

LEMMA ClearProgressInv ==
  ASSUME IInv, ClearProgress
  PROVE  IInv'
<1> USE DepthAssumption, CommandsAssumption
     DEF IInv, TypeOK, ClearProgress, Return, At, Goto, lines, MainPcs, TimerPcs, BusPcs,
         Pcs, Depths, Kinds, OnBus, Owns, Busy, Shut, Unrobbed
<1>1. TypeOK'
  <2>1. pc' \in [Depths -> Pcs] /\ top' \in Depths
    BY SMT
  <2> QED
    BY <2>1, Zenon
<1>2. Kinds'
  BY SMTT(30) DEF Kinds
<1>3. OneBusy'
  BY SMTT(30) DEF OneBusy
<1>4. Wires'
  BY SMTT(30) DEF Wires, OneBusy, Acked
<1>5. WindowOpen'
  BY SMTT(30) DEF WindowOpen
<1>6. InterruptsOn'
  BY SMTT(30) DEF InterruptsOn
<1> QED
  BY <1>1, <1>2, <1>3, <1>4, <1>5, <1>6

LEMMA CommandInv ==
  ASSUME IInv, Command
  PROVE  IInv'
<1> USE DepthAssumption, CommandsAssumption
     DEF IInv, TypeOK, Command, At, Goto, lines, MainPcs, TimerPcs, BusPcs,
         Pcs, Depths, Kinds, OnBus, Owns, Busy, Shut, Unrobbed
<1>1. TypeOK'
  BY SMTT(30)
<1>2. Kinds'
  BY SMTT(30) DEF Kinds
<1>3. OneBusy'
  BY SMTT(30) DEF OneBusy
<1>4. Wires'
  BY SMTT(30) DEF Wires, OneBusy, Acked
<1>5. WindowOpen'
  BY SMTT(30) DEF WindowOpen
<1>6. InterruptsOn'
  BY SMTT(30) DEF InterruptsOn
<1> QED
  BY <1>1, <1>2, <1>3, <1>4, <1>5, <1>6

LEMMA Z80_RESETInv ==
  ASSUME IInv, Z80_RESET
  PROVE  IInv'
<1> USE DepthAssumption, CommandsAssumption
     DEF IInv, TypeOK, Z80_RESET, At, Goto, lines, MainPcs, TimerPcs, BusPcs,
         Pcs, Depths, Kinds, OnBus, Owns, Busy, Shut, Unrobbed
<1>1. TypeOK'
  BY SMTT(30)
<1>2. Kinds'
  BY SMTT(30) DEF Kinds
<1>3. OneBusy'
  BY SMTT(30) DEF OneBusy
<1>4. Wires'
  BY SMTT(30) DEF Wires, OneBusy, Acked
<1>5. WindowOpen'
  BY SMTT(30) DEF WindowOpen
<1>6. InterruptsOn'
  BY SMTT(30) DEF InterruptsOn
<1> QED
  BY <1>1, <1>2, <1>3, <1>4, <1>5, <1>6

LEMMA EndResetInv ==
  ASSUME IInv, EndReset
  PROVE  IInv'
<1> USE DepthAssumption, CommandsAssumption
     DEF IInv, TypeOK, EndReset, At, Goto, lines, MainPcs, TimerPcs, BusPcs,
         Pcs, Depths, Kinds, OnBus, Owns, Busy, Shut, Unrobbed
<1>1. TypeOK'
  BY SMTT(30)
<1>2. Kinds'
  BY SMTT(30) DEF Kinds
<1>3. OneBusy'
  BY SMTT(30) DEF OneBusy
<1>4. Wires'
  BY SMTT(30) DEF Wires, OneBusy, Acked
<1>5. WindowOpen'
  BY SMTT(30) DEF WindowOpen
<1>6. InterruptsOn'
  BY SMTT(30) DEF InterruptsOn
<1> QED
  BY <1>1, <1>2, <1>3, <1>4, <1>5, <1>6
-----------------------------------------------------------------------------
(* The invariant for every reachable state: transfers come at any time. *)
LEMMA StepInv ==
  ASSUME IInv, [Next]_vars
  PROVE  IInv'
<1>1. CASE Z80
  BY <1>1, StartIoInv, GrantInv, TakeBackInv, IoInterruptInv DEF Z80
<1>2. CASE Timer2Interrupt
  BY <1>2, Timer2InterruptInv
<1>3. CASE BusStep
  BY <1>3, Z80_BUSREQInv, ExtMem_attachInv, EnterInv, MemcpyInv, LeaveInv,
     ExtMem_detachInv, ReleaseInv DEF BusStep
<1>4. CASE Handler
  BY <1>4, CheckProgressInv, SetProgressInv, TransferInv, ClearProgressInv DEF Handler
<1>5. CASE Monitor
  BY <1>5, CommandInv, Z80_RESETInv, EndResetInv DEF Monitor
<1>6. CASE UNCHANGED vars
  BY <1>6 DEF vars, IInv, TypeOK, Kinds, OneBusy, Busy, OnBus, Unrobbed, Wires, Owns, Acked,
     WindowOpen, Shut, InterruptsOn
<1> QED
  BY <1>1, <1>2, <1>3, <1>4, <1>5, <1>6 DEF Next

(* Nothing is set that belongs to nobody, and everybody between attach and  *)
(* detach has what attach set, but a command robbed by a transfer.          *)
THEOREM Invariance == Spec => []IInv
<1>1. Init => IInv
  BY InitInv
<1>2. IInv /\ [Next]_vars => IInv'
  BY StepInv
<1> QED
  BY <1>1, <1>2, PTL DEF Spec

(* Every line, flag and program counter stays in its type. *)
THEOREM TypeCorrect == Spec => []TypeOK
<1>1. IInv => TypeOK
  BY DEF IInv
<1> QED
  BY <1>1, Invariance, PTL

LEMMA InvHeld == IInv => BusHeld
<1> SUFFICES ASSUME IInv, NEW i \in 0 .. top, pc[i] = "copy"
             PROVE  /\ (i = 0 /\ withdrawn) \/ (sre /\ Acked)
                    /\ shadow <=> Shut(0) /\ Head(todo) = "shadow"
  BY DEF BusHeld
<1>1. Owns(i)
  BY DEF Owns
<1>2. CASE Unrobbed(i)
  BY <1>1, <1>2 DEF IInv, Wires, WindowOpen
<1>3. CASE ~Unrobbed(i)
  BY <1>3 DEF IInv, Unrobbed, WindowOpen
<1> QED
  BY <1>2, <1>3

(* Whoever copies has the memory, with the window as the command has it;    *)
(* a command that has not was robbed by a transfer.                         *)
THEOREM CopiesHoldTheBus == Spec => []BusHeld
  BY InvHeld, Invariance, PTL

LEMMA InvFree == IInv => BusFree
<1> SUFFICES ASSUME IInv, \A i \in 0 .. top : ~OnBus(i)
             PROVE  ~busreq /\ ~sre /\ ~shadow
  BY DEF BusFree
<1>1. ~busreq
  BY DEF IInv, Wires
<1>2. ~sre
  BY DEF IInv, Wires, Owns, OnBus, BusPcs
<1>3. ~OnBus(0)
  BY SMT DEF IInv, TypeOK, Depths
<1>4. ~shadow
  BY <1>3 DEF IInv, WindowOpen, Shut, OnBus, BusPcs
<1> QED
  BY <1>1, <1>2, <1>4

(* When nobody uses it, the bus is the Z80's again, however commands and    *)
(* transfers met on it.                                                     *)
THEOREM BusIsReturned == Spec => []BusFree
  BY InvFree, Invariance, PTL

LEMMA InvSpin == IInv => SpinIsServed
<1> SUFFICES ASSUME IInv, At("spin"), ~(top = 0 /\ withdrawn)
             PROVE  busreq /\ ien
  BY DEF SpinIsServed
<1>1. top \in 0 .. top /\ OnBus(top) /\ ~Shut(top) /\ Unrobbed(top)
  BY SMT DEF IInv, TypeOK, Depths, At, OnBus, BusPcs, Shut, Unrobbed
<1> QED
  BY <1>1 DEF IInv, Wires, InterruptsOn

(* Nobody polls /BUSACK with interrupts off while the Z80 waits for one, and *)
(* only a robbed command without a request.                                  *)
THEOREM PollersAreServed == Spec => []SpinIsServed
  BY InvSpin, Invariance, PTL
=============================================================================
