----------------------------- MODULE ExtMemBus -----------------------------
(* The memory bus the Z80 and the AVR share: ExtMem_attach/detach and the   *)
(* shadow window of z80io.c, as the monitor's commands (the main program)   *)
(* and the disk transfers (Timer2's handler) use them.  The AVR is a stack  *)
(* of activations: pc[0] is where the main program stands, pc[i] for        *)
(* 0 < i <= top a handler of Timer2 that interrupted it and the ones below, *)
(* and only the activation top executes.                                    *)
EXTENDS Integers, Sequences

CONSTANTS
  MaxDepth,   \* bound: handlers of Timer2 inside each other
  Commands    \* the copies a command makes: sequences of Places

\* Under the AVR's internal RAM, or above it.
Places == {"shadow", "real"}

ASSUME DepthAssumption == MaxDepth \in Nat \ {0}
ASSUME CommandsAssumption == Commands \subseteq Seq(Places) \ {<<>>}

VARIABLES
  z80,         \* "run", "wait" (an IN or OUT is held in /WAIT), "reset"
  busreq,      \* /BUSREQ is low
  granted,     \* the Z80 left the bus to the AVR
  sre,         \* MCUCR.SRE: external memory is enabled
  shadow,      \* XMCRB: the window on the memory hidden by internal RAM is open
  ien,         \* the I flag of SREG
  in_progress, \* Timer2's static flag
  top, pc,
  todo,        \* the main program's copies still to make
  sreg,        \* the I flag a transfer has saved
  withdrawn    \* history: a transfer's detach has taken from the command under
               \* it what its attach set; attach and detach do not nest

vars == <<z80, busreq, granted, sre, shadow, ien, in_progress, top, pc, todo, sreg,
          withdrawn>>
lines == <<z80, busreq, granted, sre, shadow>>

MainPcs == {"idle", "pulse"}
TimerPcs == {"entry", "set", "next"}
\* Inside ExtMem_attach .. ExtMem_detach; "attach" has not asked yet.
BusPcs == {"attach", "spin", "enter", "copy", "leave", "detach", "release"}
Pcs == MainPcs \cup TimerPcs \cup BusPcs
Depths == 0 .. MaxDepth

\* What Z80_BUSREQ polls: the board joins /BUSACK and /RESET (external).
Acked == granted \/ z80 = "reset"

At(q) == pc[top] = q
Goto(q) == pc' = [pc EXCEPT ![top] = q]
OnBus(i) == pc[i] \in BusPcs \ {"attach"}
\* Between the opening of the window, or cli, and its end.
Shut(i) == pc[i] \in {"copy", "leave"}

TypeOK ==
  /\ z80 \in {"run", "wait", "reset"}
  /\ busreq \in BOOLEAN /\ granted \in BOOLEAN
  /\ sre \in BOOLEAN /\ shadow \in BOOLEAN
  /\ ien \in BOOLEAN /\ in_progress \in BOOLEAN
  /\ top \in Depths
  /\ pc \in [Depths -> Pcs]
  /\ todo \in Seq(Places) /\ sreg \in [Depths -> BOOLEAN]
  /\ withdrawn \in BOOLEAN

Init ==
  /\ z80 = "run"
  /\ busreq = FALSE /\ granted = FALSE
  /\ sre = FALSE /\ shadow = FALSE
  /\ ien = TRUE /\ in_progress = FALSE
  /\ top = 0
  /\ pc = [i \in Depths |-> "idle"]
  /\ todo = <<>> /\ sreg = [i \in Depths |-> TRUE]
  /\ withdrawn = FALSE
-----------------------------------------------------------------------------
(* The Z80.  It looks at /BUSREQ before each machine cycle, so it starts no *)
(* IN or OUT while the bus is asked of it; one held in /WAIT keeps the bus. *)
StartIo ==
  /\ z80 = "run" /\ ~busreq /\ ~granted
  /\ z80' = "wait"
  /\ UNCHANGED <<busreq, granted, sre, shadow, ien, in_progress, top, pc, todo, sreg, withdrawn>>

Grant ==
  /\ z80 = "run" /\ busreq /\ ~granted
  /\ granted' = TRUE
  /\ UNCHANGED <<z80, busreq, sre, shadow, ien, in_progress, top, pc, todo, sreg, withdrawn>>

TakeBack ==
  /\ granted /\ ~busreq
  /\ granted' = FALSE
  /\ UNCHANGED <<z80, busreq, sre, shadow, ien, in_progress, top, pc, todo, sreg, withdrawn>>

(* INT0 and INT1 run with interrupts off from the edge to the end of /WAIT, *)
(* and leave the bus alone.                                                 *)
IoInterrupt ==
  /\ ien /\ z80 = "wait"
  /\ z80' = "run"
  /\ UNCHANGED <<busreq, granted, sre, shadow, ien, in_progress, top, pc, todo, sreg, withdrawn>>

(* ISR_NOBLOCK: the handler sets I before anything else. *)
Timer2Interrupt ==
  /\ ien /\ top < MaxDepth
  /\ top' = top + 1
  /\ pc' = [pc EXCEPT ![top + 1] = "entry"]
  /\ UNCHANGED <<lines, ien, in_progress, todo, sreg, withdrawn>>
-----------------------------------------------------------------------------
(* ExtMem_attach, ExtMem_map, memcpy, ExtMem_unmap, ExtMem_detach. *)
\* Mutant: the transfer disables interrupts before it asks for the bus.
Z80_BUSREQ_Cli ==
  /\ At("attach")
  /\ busreq' = TRUE
  /\ ien' = (ien /\ top = 0)
  /\ Goto("spin")
  /\ UNCHANGED <<z80, granted, sre, shadow, in_progress, top, todo, sreg, withdrawn>>

Z80_BUSREQ ==
  /\ At("attach")
  /\ busreq' = TRUE
  /\ Goto("spin")
  /\ UNCHANGED <<z80, granted, sre, shadow, ien, in_progress, top, todo, sreg, withdrawn>>

\* The poll of /BUSACK ends, and SRE is set.
ExtMem_attach ==
  /\ At("spin") /\ Acked
  /\ sre' = TRUE
  /\ Goto("enter")
  /\ UNCHANGED <<z80, busreq, granted, shadow, ien, in_progress, top, todo, sreg, withdrawn>>

\* The monitor opens the window when the bytes are under the internal RAM; a
\* transfer saves SREG and disables interrupts.
Enter ==
  /\ At("enter")
  /\ IF top = 0
       THEN shadow' = (Head(todo) = "shadow") /\ UNCHANGED <<ien, sreg>>
       ELSE ien' = FALSE /\ sreg' = [sreg EXCEPT ![top] = ien] /\ shadow' = shadow
  /\ Goto("copy")
  /\ UNCHANGED <<z80, busreq, granted, sre, in_progress, top, todo, withdrawn>>

Memcpy ==
  /\ At("copy")
  /\ Goto("leave")
  /\ UNCHANGED <<lines, ien, in_progress, top, todo, sreg, withdrawn>>

MoreCopies == top = 0 /\ Len(todo) > 1

\* Mutant: ExtMem_unmap is missing before the bytes past the internal RAM.
Leave_Mapped ==
  /\ At("leave")
  /\ ien' = (IF top = 0 THEN ien ELSE sreg[top])
  /\ IF MoreCopies THEN Goto("enter") /\ todo' = Tail(todo)
                   ELSE Goto("detach") /\ todo' = todo
  /\ UNCHANGED <<z80, busreq, granted, sre, shadow, in_progress, top, sreg, withdrawn>>

Leave ==
  /\ At("leave")
  /\ IF top = 0 THEN shadow' = FALSE /\ ien' = ien
                ELSE shadow' = shadow /\ ien' = sreg[top]
  /\ IF MoreCopies THEN Goto("enter") /\ todo' = Tail(todo)
                   ELSE Goto("detach") /\ todo' = todo
  /\ UNCHANGED <<z80, busreq, granted, sre, in_progress, top, sreg, withdrawn>>

ExtMem_detach ==
  /\ At("detach")
  /\ sre' = FALSE
  /\ withdrawn' = (withdrawn \/ (top > 0 /\ OnBus(0)))
  /\ Goto("release")
  /\ UNCHANGED <<z80, busreq, granted, shadow, ien, in_progress, top, todo, sreg>>

Release ==
  /\ At("release")
  /\ busreq' = FALSE
  /\ withdrawn' = (IF top = 0 THEN FALSE ELSE withdrawn)
  /\ Goto(IF top = 0 THEN "idle" ELSE "next")
  /\ UNCHANGED <<z80, granted, sre, shadow, ien, in_progress, top, todo, sreg>>
-----------------------------------------------------------------------------
(* Timer2's handler: if (in_progress) return; in_progress = true; a block   *)
(* of the disk transfer at a time; in_progress = false.                     *)
Return ==
  /\ top' = top - 1
  /\ pc' = [pc EXCEPT ![top] = "idle"]

\* Mutant: the handler does not look at in_progress.
CheckProgress_Always ==
  /\ At("entry")
  /\ Goto("set") /\ top' = top
  /\ UNCHANGED <<lines, ien, in_progress, todo, sreg, withdrawn>>

CheckProgress ==
  /\ At("entry")
  /\ IF in_progress THEN Return ELSE Goto("set") /\ top' = top
  /\ UNCHANGED <<lines, ien, in_progress, todo, sreg, withdrawn>>

SetProgress ==
  /\ At("set")
  /\ in_progress' = TRUE
  /\ Goto("next")
  /\ UNCHANGED <<lines, ien, top, todo, sreg, withdrawn>>

\* Whatever the command it has interrupted is about.
Transfer ==
  /\ At("next")
  /\ Goto("attach")
  /\ UNCHANGED <<lines, ien, in_progress, top, todo, sreg, withdrawn>>

ClearProgress ==
  /\ At("next")
  /\ in_progress' = FALSE
  /\ Return
  /\ UNCHANGED <<lines, ien, todo, sreg, withdrawn>>

(* The monitor: a command that copies, or the Z80's reset pulse. *)
Command ==
  /\ At("idle")
  /\ todo' \in Commands
  /\ Goto("attach")
  /\ UNCHANGED <<lines, ien, in_progress, top, sreg, withdrawn>>

Z80_RESET ==
  /\ At("idle")
  /\ z80' = "reset" /\ sre' = FALSE /\ busreq' = FALSE /\ granted' = FALSE
  /\ Goto("pulse")
  /\ UNCHANGED <<shadow, ien, in_progress, top, todo, sreg, withdrawn>>

EndReset ==
  /\ At("pulse")
  /\ z80' = "run"
  /\ Goto("idle")
  /\ UNCHANGED <<busreq, granted, sre, shadow, ien, in_progress, top, todo, sreg, withdrawn>>
-----------------------------------------------------------------------------
BusStep ==
  \/ Z80_BUSREQ \/ ExtMem_attach \/ Enter \/ Memcpy \/ Leave
  \/ ExtMem_detach \/ Release
Handler == CheckProgress \/ SetProgress \/ Transfer \/ ClearProgress
Monitor == Command \/ Z80_RESET \/ EndReset
Z80 == StartIo \/ Grant \/ TakeBack \/ IoInterrupt

Next == Z80 \/ Timer2Interrupt \/ BusStep \/ Handler \/ Monitor

Spec == Init /\ [][Next]_vars
-----------------------------------------------------------------------------
(* Whoever is copying has the memory: the Z80 is off the bus and external   *)
(* memory is enabled.  A transfer always has it; a command has it unless a   *)
(* transfer came in between, which switches both off when it leaves.  The    *)
(* window is open exactly while the command copies below the internal RAM,   *)
(* for a transfer that comes then as well (z80io.c:38-65, em_diskio.c:346).  *)
BusHeld ==
  \A i \in 0 .. top : pc[i] = "copy" =>
    /\ (i = 0 /\ withdrawn) \/ (sre /\ Acked)
    /\ shadow <=> Shut(0) /\ Head(todo) = "shadow"

(* The bus is given back: when nobody is between attach and detach, /BUSREQ *)
(* is high, external memory is disabled and the window is shut, or port C   *)
(* and port A would stay driven against the Z80, in whatever order commands *)
(* and transfers left it (z80io.c:47-65).                                   *)
BusFree ==
  (\A i \in 0 .. top : ~OnBus(i)) => ~busreq /\ ~sre /\ ~shadow

(* Whoever polls /BUSACK is given the bus: its request stands, and a Z80    *)
(* held in /WAIT, which cannot answer, will be let go by its interrupt.     *)
(* The poll has no limit (z80io.c:74-82).  The exception is a command whose *)
(* request a transfer's detach has withdrawn: it polls with none out.       *)
SpinIsServed ==
  At("spin") /\ ~Acked =>
    \/ top = 0 /\ withdrawn
    \/ busreq /\ (z80 = "wait" => ien)
=============================================================================
