------------------------------- MODULE Board --------------------------------
(* The pins: what board_init, the first routines of z80io.c and the SD      *)
(* driver's power_on write to the AVR's registers, one after the other.  A  *)
(* register is the set of its bits that are 1; bits that select no more     *)
(* than clocks and edges are left out.                                      *)
EXTENDS Integers, SequencesExt, Functions

Bits == 0 .. 7
Registers ==
  {"PORTA", "PORTB", "PORTC", "PORTD", "PORTE", "PORTF", "PORTG",
   "DDRA", "DDRB", "DDRC", "DDRD", "DDRE", "DDRF", "DDRG",
   "SFIOR", "MCUCR", "XMCRA", "XMCRB", "EIMSK", "SPCR"}

\* As the AVR's reset leaves them; mem0 is the Z80's instruction at 0.
AfterReset == [r \in Registers |-> {}] @@ [r \in {"mem0"} |-> "unknown"]

\* Writes to a register.
Write(r, ones, zeros) == [reg |-> r, ones |-> ones, zeros |-> zeros]
SET_BIT(r, b) == Write(r, {b}, {})
CLR_BIT(r, b) == Write(r, {}, {b})
SET_BYTE(r, ones) == Write(r, ones, Bits)
\* And the one write to the memory.
StoreHALT == [reg |-> "mem0"]

PUD == 2  SRE == 7  SRW10 == 6  SRW11 == 1  SRW01 == 3  SRW00 == 2
XINT == 4  CLRWAIT == 5  BUSREQ == 6  BUSACK == 7    \* of port D
CS == 0  SCK == 1  MOSI == 2  MISO == 3  RESET == 5  NMI == 6  HALTPIN == 7  \* of port B

Window(regs) == SRE \in regs["MCUCR"] /\ regs["XMCRB"] = {0, 1}
After(regs, w) ==
  IF w.reg = "mem0"
    THEN [regs EXCEPT !["mem0"] = IF Window(regs) THEN "HALT" ELSE @]
    ELSE [regs EXCEPT ![w.reg] = (@ \ w.zeros) \cup w.ones]
\* The registers after every write, from the ones before the first.
Trace(regs, ws) == [n \in 0 .. Len(ws) |-> FoldLeft(After, regs, SubSeq(ws, 1, n))]
Final(regs, ws) == Trace(regs, ws)[Len(ws)]
-----------------------------------------------------------------------------
ExtMem_Init(wait) ==
  (IF wait < 2 THEN <<SET_BIT("MCUCR", SRW10), SET_BYTE("XMCRA", {SRW00})>>
   ELSE <<CLR_BIT("MCUCR", SRW10), SET_BYTE("XMCRA", {SRW01, SRW11})>>)
  \o <<SET_BYTE("XMCRB", {}), SET_BYTE("PORTA", Bits), SET_BYTE("DDRA", {}),
       SET_BYTE("PORTC", {}), SET_BYTE("DDRC", Bits)>>

Z80_HALT ==
  <<SET_BIT("MCUCR", SRE), SET_BYTE("XMCRB", {0, 1}), StoreHALT,
    SET_BYTE("XMCRB", {}), CLR_BIT("MCUCR", SRE)>>

Pulse(port, pin) == <<CLR_BIT(port, pin), SET_BIT(port, pin)>>
Z80_CLRWAIT == Pulse("PORTD", CLRWAIT)
Z80_NMI == Pulse("PORTB", NMI)
\* With the bus given back, and for 10 ms.
Z80_RESET == <<CLR_BIT("MCUCR", SRE), SET_BIT("PORTD", BUSREQ)>> \o Pulse("PORTB", RESET)

\* dipsw4: the SRAM's wait switch is on.
board_init(dipsw4) ==
  <<SET_BIT("SFIOR", PUD),
    SET_BYTE("PORTA", Bits), SET_BYTE("DDRA", {}),
    SET_BYTE("PORTB", {RESET, NMI}), SET_BYTE("DDRB", {RESET, NMI}),
    SET_BYTE("DDRC", Bits),
    SET_BYTE("PORTD", Bits \ {BUSREQ, CLRWAIT}), SET_BYTE("DDRD", {XINT, CLRWAIT, BUSREQ}),
    SET_BYTE("PORTE", Bits), SET_BYTE("DDRE", {5, 6, 7}),
    SET_BYTE("PORTF", Bits), SET_BYTE("DDRF", {}),
    SET_BYTE("PORTG", {0, 1}), SET_BYTE("DDRG", {0, 1, 2})>>
  \o ExtMem_Init(IF dipsw4 THEN 1 ELSE 2)
  \o Z80_HALT
  \o <<SET_BYTE("PORTE", Bits)>> \o Z80_CLRWAIT \o <<SET_BIT("PORTD", BUSREQ)>>

\* The console's, the disk's and the debugger's interrupts from the Z80.
ExtInt_Init == <<SET_BYTE("EIMSK", {0, 1, 4})>>

power_on ==
  <<Write("DDRB", {MOSI, CS, SCK}, {}), SET_BIT("PORTB", MISO),
    SET_BYTE("SPCR", {6, 4, 1})>>
-----------------------------------------------------------------------------
Driven(regs, ddr, pin) == pin \in regs[ddr]
Low(regs, port, ddr, pin) == Driven(regs, ddr, pin) /\ pin \notin regs[port]
PulledUp(regs, port, ddr, pin) ==
  ~Driven(regs, ddr, pin) /\ pin \in regs[port] /\ PUD \notin regs["SFIOR"]

\* The wait states of the two sectors of the external memory.
LowerWait(regs) == (IF SRW01 \in regs["XMCRA"] THEN 2 ELSE 0) + (IF SRW00 \in regs["XMCRA"] THEN 1 ELSE 0)
UpperWait(regs) == (IF SRW11 \in regs["XMCRA"] THEN 2 ELSE 0) + (IF SRW10 \in regs["MCUCR"] THEN 1 ELSE 0)

\* What the pins say of the Z80: the AVR drives /BUSREQ and senses the others.
Is_Z80_BUSRQ(regs) == ~Low(regs, "PORTD", "DDRD", BUSREQ)
Is_Z80_BUSACK(pins) == BUSACK \in pins["D"]
Is_Z80_HALT(pins) == HALTPIN \in pins["B"]
c_z80_status(regs, pins) ==
  LET level(high) == IF high THEN "H" ELSE "L"
  IN  << <<"/BUSRQ ", level(Is_Z80_BUSRQ(regs))>>,
         <<"/BUSACK", level(Is_Z80_BUSACK(pins))>>,
         <<"/HALT  ", level(Is_Z80_HALT(pins))>> >>
=============================================================================
