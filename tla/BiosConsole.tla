----------------------------- MODULE BiosConsole -----------------------------
(***************************************************************************)
(* Console input and output, from the BIOS calls CONIN and CONOUT on the   *)
(* Z80 (bios.asm), through the emulated device (em_consoleio.c) and its    *)
(* two ring buffers, to the UART of the terminal.  Three actors meet here: *)
(* the main line of the Z80, the receive interrupt of the UART and the     *)
(* periodic Timer0 handler, which sends; the last two wake the first       *)
(* through the interrupt queue.                                            *)
(***************************************************************************)
EXTENDS BiosInt, ConsoleBuffer

CONSTANTS RX1_BUF_SIZE, TX1_BUF_SIZE,   \* 64 and 128 in em_consoleio.c
          CONOUT_LIMIT,                 \* the count at which CONOUT waits (64)
          Typed,                        \* characters the user may type
          Printed                       \* characters programs may print

(* The ports give sizes and counts in a byte.  The limit is half the       *)
(* buffer, as the BIOS was written for.                                    *)
ASSUME SizesAssumption == /\ RX1_BUF_SIZE \in 1 .. 255
                          /\ TX1_BUF_SIZE \in 1 .. 255 /\ TX1_BUF_SIZE % 4 = 0
                          /\ CONOUT_LIMIT = TX1_BUF_SIZE \div 2

VARIABLES cb_rx1, cb_tx1, z80_int_num_rx1, z80_int_num_tx1,
          pc,       \* where the main line of the Z80 is
          c,        \* register C: the character to print
          got,      \* the character CONIN returned last
          sent      \* the character Timer0 took last

conVars == <<cb_rx1, cb_tx1, z80_int_num_rx1, z80_int_num_tx1>>
mainVars == <<pc, c, got>>
vars == <<intVars, conVars, mainVars, sent>>

Init == /\ IntInit
        /\ cb_rx1 = initConsoleBuffer(RX1_BUF_SIZE)
        /\ cb_tx1 = initConsoleBuffer(TX1_BUF_SIZE)
        /\ z80_int_num_rx1 = Disabled /\ z80_int_num_tx1 = Disabled
        /\ pc = "reset" /\ c = NUL /\ got = NUL /\ sent = NUL
-----------------------------------------------------------------------------
(* Mutant: the Z80 is told only when the buffer is full.                   *)
Enqueue_RX1_Buf_WhenFull(data) ==
  /\ cb_rx1' = x_enqueue(cb_rx1, data)
  /\ IF cb_rx1.count + 1 = RX1_BUF_SIZE
     THEN Notify(z80_int_num_rx1) ELSE UNCHANGED <<pending, bus, refused>>
  /\ UNCHANGED <<cb_tx1, z80_int_num_rx1, z80_int_num_tx1, mainVars, sent,
                 iff, serving, flag>>

(* The UART receives: the character is stored and the Z80 told, unless the *)
(* buffer is full.                                                         *)
Enqueue_RX1_Buf(data) ==
  /\ cb_rx1' = x_enqueue(cb_rx1, data)
  /\ IF Full(cb_rx1) THEN UNCHANGED <<pending, bus, refused>>
                     ELSE Notify(z80_int_num_rx1)
  /\ UNCHANGED <<cb_tx1, z80_int_num_rx1, z80_int_num_tx1, mainVars, sent,
                 iff, serving, flag>>

(* Mutant: only the half-way mark wakes the Z80, and it is half the size.  *)
WakesAt_HalfOnly(count, size) == count = size \div 2

(* The counts at which the Z80 is told that the output buffer drains.      *)
WakesAt(count, size) == count \in {0, size \div 4, size \div 2 - 1}

(* Timer0 finds the UART free and sends a character.  A NUL is taken from  *)
(* the buffer too, but neither sent nor counted as progress.               *)
Transmit_TX1_Buf ==
  /\ cb_tx1.count > 0
  /\ cb_tx1' = x_dequeue(cb_tx1)
  /\ sent' = x_dequeue_data(cb_tx1)
  /\ IF sent' # NUL /\ WakesAt(cb_tx1'.count, cb_tx1.size)
     THEN Notify(z80_int_num_tx1) ELSE UNCHANGED <<pending, bus, refused>>
  /\ UNCHANGED <<cb_rx1, z80_int_num_rx1, z80_int_num_tx1, mainVars,
                 iff, serving, flag>>
-----------------------------------------------------------------------------
(* The ports as the Z80 reads and writes them.                             *)
IN_01_CONIN_GetStatus == cb_rx1.count % 256
IN_06_CONOUT_GetStatus == cb_tx1.count % 256
IN_00_CONIN == got' = x_dequeue_data(cb_rx1) /\ cb_rx1' = x_dequeue(cb_rx1)
OUT_05_CONOUT(data) == cb_tx1' = x_enqueue(cb_tx1, data)
OUT_Flush == cb_rx1' = x_flush(cb_rx1) /\ cb_tx1' = x_flush(cb_tx1)
OUT_SetIntLevel(rx, tx) == z80_int_num_rx1' = rx /\ z80_int_num_tx1' = tx

(* A reset, by the monitor or at power-on, and BOOT up to its EI: the      *)
(* levels are set and both buffers flushed.  The interrupt queue is not.   *)
BOOT == /\ OUT_SetIntLevel(CONIN_INT, CONOUT_INT) /\ OUT_Flush
        /\ iff' = TRUE /\ serving' = FALSE
        /\ pc' = "program"
        /\ UNCHANGED <<pending, bus, refused, flag, c, got, sent>>

(* A program turns interrupts off or on before it calls the BIOS.          *)
ProgramDI == /\ pc = "program" /\ MainRuns /\ iff /\ iff' = FALSE
             /\ UNCHANGED <<pending, bus, refused, serving, flag, conVars, mainVars, sent>>
ProgramEI == /\ pc = "program" /\ MainRuns /\ ~iff /\ iff' = TRUE
             /\ UNCHANGED <<pending, bus, refused, serving, flag, conVars, mainVars, sent>>

(* Entry of CONOUT and of CONIN, up to DI.                                 *)
CallCONOUT(data) == /\ pc = "program" /\ MainRuns
                    /\ pc' = "conout" /\ c' = data /\ iff' = FALSE
                    /\ UNCHANGED <<pending, bus, refused, serving, flag, conVars, got, sent>>
CallCONIN == /\ pc = "program" /\ MainRuns
             /\ pc' = "conin" /\ iff' = FALSE
             /\ UNCHANGED <<pending, bus, refused, serving, flag, conVars, c, got, sent>>

(* Mutant: the flag of an earlier wake-up is not cleared.                  *)
CONOUT_check_StaleFlag ==
  /\ pc = "conout" /\ iff' = TRUE
  /\ pc' = IF IN_06_CONOUT_GetStatus >= CONOUT_LIMIT THEN "conout1" ELSE "conout2"
  /\ UNCHANGED <<pending, bus, refused, serving, flag, conVars, c, got, sent>>

(* IN the count; at 64 and above clear the flag; EI.  Interrupts are off   *)
(* all along, so no wake-up can slip in between the test and the clear.    *)
CONOUT_check ==
  /\ pc = "conout" /\ iff' = TRUE
  /\ IF IN_06_CONOUT_GetStatus >= CONOUT_LIMIT
     THEN pc' = "conout1" /\ flag' = [flag EXCEPT ![Vector(CONOUT_INT)] = FALSE]
     ELSE pc' = "conout2" /\ flag' = flag
  /\ UNCHANGED <<pending, bus, refused, serving, conVars, c, got, sent>>

(* CONOUT1: poll the flag.                                                 *)
CONOUT_wait == /\ pc = "conout1" /\ MainRuns
               /\ flag[Vector(CONOUT_INT)]
               /\ pc' = "conout2"
               /\ UNCHANGED <<intVars, conVars, c, got, sent>>

(* CONOUT2: OUT the character.  OUT_05 does not look whether it fitted.    *)
CONOUT_put == /\ pc = "conout2" /\ MainRuns
              /\ OUT_05_CONOUT(c)
              /\ pc' = "program"
              /\ UNCHANGED <<intVars, cb_rx1, z80_int_num_rx1, z80_int_num_tx1, c, got, sent>>

(* Mutant: the flag of an earlier character is not cleared.                *)
CONIN_check_StaleFlag ==
  /\ pc = "conin" /\ iff' = TRUE
  /\ pc' = IF IN_01_CONIN_GetStatus # 0 THEN "conin2" ELSE "conin1"
  /\ UNCHANGED <<pending, bus, refused, serving, flag, conVars, c, got, sent>>

(* Clear the flag, IN the count, EI.                                       *)
CONIN_check == /\ pc = "conin" /\ iff' = TRUE
               /\ flag' = [flag EXCEPT ![Vector(CONIN_INT)] = FALSE]
               /\ pc' = IF IN_01_CONIN_GetStatus # 0 THEN "conin2" ELSE "conin1"
               /\ UNCHANGED <<pending, bus, refused, serving, conVars, c, got, sent>>

(* CONIN1: poll the flag.                                                  *)
CONIN_wait == /\ pc = "conin1" /\ MainRuns
              /\ flag[Vector(CONIN_INT)]
              /\ pc' = "conin2"
              /\ UNCHANGED <<intVars, conVars, c, got, sent>>

(* CONIN2: IN a character.                                                 *)
CONIN_get == /\ pc = "conin2" /\ MainRuns
             /\ IN_00_CONIN
             /\ pc' = "program"
             /\ UNCHANGED <<intVars, cb_tx1, z80_int_num_rx1, z80_int_num_tx1, c, sent>>

Avr == (\E data \in Typed : Enqueue_RX1_Buf(data)) \/ Transmit_TX1_Buf
Interrupts == (Z80_acknowledge \/ Z80_isr) /\ UNCHANGED <<conVars, mainVars, sent>>
Program == \/ ProgramDI \/ ProgramEI \/ CallCONIN
           \/ \E data \in Printed : CallCONOUT(data)
Bios == \/ CONOUT_check \/ CONOUT_wait \/ CONOUT_put
        \/ CONIN_check \/ CONIN_wait \/ CONIN_get
Next == Avr \/ Interrupts \/ Program \/ Bios \/ BOOT

(* Timer0 is periodic and the UART gets free; the Z80 takes its interrupts *)
(* and returns from them.  A service routine is shorter than the time of a *)
(* character on the line, so interrupts never starve the main line.        *)
Fairness == /\ WF_vars(Transmit_TX1_Buf)
            /\ WF_vars(Interrupts)
            /\ SF_vars(Bios)
Safety == Init /\ [][Next]_vars
Spec == Safety /\ Fairness
-----------------------------------------------------------------------------
(* Types of the two buffers and of the Z80.                                *)
TypeOK == /\ IntTypeOK
          /\ BufferOK(cb_rx1, RX1_BUF_SIZE, Typed \cup {NUL})
          /\ BufferOK(cb_tx1, TX1_BUF_SIZE, Printed \cup {NUL})
          /\ z80_int_num_rx1 \in {CONIN_INT, Disabled}
          /\ z80_int_num_tx1 \in {CONOUT_INT, Disabled}
          /\ pc \in {"reset", "program", "conout", "conout1", "conout2",
                     "conin", "conin1", "conin2"}
          /\ c \in Printed \cup {NUL} /\ got \in Typed \cup {NUL}
          /\ sent \in Printed \cup {NUL}

(* OUT_05 drops a character that does not fit and the BIOS cannot know.    *)
(* It never happens: however wake-ups of an earlier wait are delayed,      *)
(* CONOUT gets to its OUT only with room in the buffer.                    *)
OutputNeverLost == pc = "conout2" => ~Full(cb_tx1)

(* IN_00 returns NUL for an empty buffer and the BIOS takes it for a       *)
(* character.  It never happens: CONIN leaves its wait only for a wake-up  *)
(* whose character is still there.                                         *)
ConinHasChar == pc = "conin2" => cb_rx1.count > 0

(* A CONOUT that waits for room returns, unless a full interrupt queue has *)
(* dropped a vector.                                                       *)
ConoutReturns == (pc = "conout1") ~> (pc # "conout1" \/ refused)

(* A CONIN that waits returns once a character is there, with the same     *)
(* exception.                                                              *)
ConinReturns == (pc = "conin1" /\ cb_rx1.count > 0) ~> (pc # "conin1" \/ refused)

Screen == INSTANCE BoundedFifo WITH kept <- Contents(cb_tx1), last <- sent,
            Items <- Printed, Capacity <- TX1_BUF_SIZE
Keyboard == INSTANCE BoundedFifo WITH kept <- Contents(cb_rx1), last <- got,
            Items <- Typed, Capacity <- RX1_BUF_SIZE

(* Characters leave for the terminal in the order of the CONOUT calls, and *)
(* come to programs in the order typed; only a full buffer drops one.      *)
ScreenOrder == Screen!ClearableSafety
KeyOrder == Keyboard!ClearableSafety
=============================================================================
