----------------------------- MODULE DebugReport -----------------------------
(* What a Z80 that reached a breakpoint tells the monitor: the BIOS's       *)
(* DEBUGGER saves its registers and writes 31 bytes to port 1E              *)
(* (bios.asm), which OUT_1E of em_debugger.c puts together again.           *)
EXTENDS Integers, Sequences, SequencesExt

High(w) == w \div 256
Low(w) == w % 256

\* The registers of a Z80; AF and the like are words, A the high byte.
Registers ==
  {"I", "IY", "IX", "HL", "DE", "BC", "AF", "AF'", "HL'", "DE'", "BC'", "SP", "PC"}

(* DEBUGGER.  BP_ADR and the resume address on the stack are one below what *)
(* RST pushed.  The order of the debug area in memory, from its end down,   *)
(* is that of the PUSHes; the three words on the stack follow.              *)
Fields ==
  <<"BP", "SP", "I", "IY", "IX", "HL", "DE", "BC", "AF", "AF'", "HL'", "DE'", "BC'",
    "SP+4", "SP+2", "SP+0">>

saved(z, stack) ==
  [f \in ToSet(Fields) |->
     CASE f = "BP"   -> z["PC"]
       [] f = "SP"   -> z["SP"] - 2
       [] f = "SP+0" -> z["PC"]
       [] f = "SP+2" -> stack[1]
       [] f = "SP+4" -> stack[2]
       [] OTHER      -> z[f]]

OTDR(area) ==
  FlattenSeq([i \in DOMAIN Fields |->
    IF Fields[i] = "I" THEN <<area["I"]>>
                       ELSE <<High(area[Fields[i]]), Low(area[Fields[i]])>>])

(* After HALT and RET.  AF was exchanged with AF' to be saved and is not    *)
(* exchanged back; A gets what the other A held, and the flags are those of *)
(* the last OTDR.  RST's push is taken off by RET.                          *)
DEBUGGER_resume(z, flags) ==
  [z EXCEPT !["AF'"] = z["AF"], !["AF"] = High(z["AF'"]) * 256 + flags]
-----------------------------------------------------------------------------
(* The sequencer of port 1E: its state is the number of bytes it has, which *)
(* an IN of the port resets.                                                *)
Steps ==
  FlattenSeq([i \in DOMAIN Fields |->
    IF Fields[i] = "I" THEN <<[f |-> "I", part |-> "byte"]>>
    ELSE <<[f |-> Fields[i], part |-> "high"], [f |-> Fields[i], part |-> "low"]>>])

NothingYet == [state |-> 0, z80reg |-> [f \in ToSet(Fields) |-> 0], shown |-> <<>>]

IN_1E(s) == [s EXCEPT !.state = 0]

OUT_1E(s, data) ==
  LET step == Steps[s.state + 1]
      put == CASE step.part = "high" -> data * 256
               [] step.part = "low"  -> s.z80reg[step.f] + data
               [] step.part = "byte" -> data
      reg == [s.z80reg EXCEPT ![step.f] = put]
  IN  IF s.state + 1 < Len(Steps)
        THEN [s EXCEPT !.z80reg = reg, !.state = @ + 1]
        ELSE [s EXCEPT !.z80reg = reg, !.state = 0, !.shown = Append(@, reg)]

Received(s, bytes) == FoldLeft(OUT_1E, s, bytes)
-----------------------------------------------------------------------------
(* A report cut short by a reset of the Z80 leaves nothing in the next one, *)
(* which shows the registers as they were (em_debugger.c:133-289).          *)
ShownAsSent(z, stack, before, cut) ==
  LET area == saved(z, stack)
      torn == Received(IN_1E(NothingYet), SubSeq(OTDR(saved(before, stack)), 1, cut))
  IN  Received(IN_1E(torn), OTDR(area)).shown = <<area>>
=============================================================================
