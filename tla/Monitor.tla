------------------------------- MODULE Monitor -------------------------------
(* The monitor's commands that reach the Z80's memory, the debugger and the *)
(* Z80 that runs meanwhile, over the bus of ExtMemBus.  A command is a      *)
(* sequence of calls, each of which has the bus once.                       *)
EXTENDS ExtMemBus, Commands, Debugger, FiniteSets

CONSTANTS
  RST,        \* RST 7
  Addresses,  \* where breakpoints are set
  Lines,      \* the lines typed, as tokens; d and r come with an address
  Packets,    \* what bload receives
  Files,      \* what xload receives: a record of a HEX file
  Noise       \* bound: the bytes that lines nobody drives are read as, and that
              \* a disk transfer brings

VARIABLES
  mem,            \* memory by cell: the Z80's and the AVR's own
  bp_table, bp_adr, dbginfo_state,   \* em_debugger.c
  job,            \* the calls the command has still to make
  buf,            \* what the call has read
  phase,          \* the Z80: its program, or the BIOS's DEBUGGER at p
  prog, asked,    \* ghosts: the program as loaded, the breakpoints as asked for
  lost            \* history: some copy was made without the bus, or through a
                  \* window it did not open

data == <<mem, bp_table, bp_adr, dbginfo_state, job, buf, phase, prog, asked, lost>>
mvars == <<vars, data>>

Memory == 0 .. N - 1
ByteValues == 0 .. Byte - 1

\* The commands followed here, and the words get_uint reads.
Followed == {"brk", "del", "cont", "d", "r", "w", "f", "bload", "xload"}
Token == {Name(c) : c \in Followed} \cup {Num(n) : n \in Memory}

ASSUME AddressesAssumption == Top = N - 1 /\ Addresses \subseteq Memory
ASSUME LinesAssumption ==
  /\ Lines \subseteq Seq(Token)
  /\ \A t \in Lines :
       Len(t) > 1 /\ t[1].name = "brk" => t[2].num \in Addresses \cup {None}
\* A packet of XMODEM is no longer than the buffer.
ASSUME BytesAssumption ==
  /\ RST \in ByteValues /\ Noise \subseteq ByteValues
  /\ \A packet \in Packets : packet \in Seq(ByteValues) /\ Len(packet) <= Block
  /\ \A r \in Files : HexRecord(r)

Running == [at |-> "program", p |-> Top]

MInit ==
  /\ Init
  /\ mem = [c \in Cells |-> 0]
  /\ bp_table = init_em_debugger
  /\ bp_adr = 0 /\ dbginfo_state = 0
  /\ job = <<>> /\ buf = <<>>
  /\ phase = Running
  /\ prog = [a \in Memory |-> 0]
  /\ asked = {}
  /\ lost = FALSE
-----------------------------------------------------------------------------
(* A call: the pieces of its copy and the bytes they write; at and ref say  *)
(* what it was asked to write.                                              *)
Call(op, ps, bytes, at) ==
  [op |-> op, ps |-> ps, bytes |-> bytes, at |-> at, ref |-> bytes]
WriteByte(a, d) == Call("write", byte_at(a), <<d>>, a)
Write(a, bytes) == Call("write", write_extram(a, Len(bytes)), bytes, a)
Read(a) == Call("read", read_extram(a, Block), <<>>, a)
Add(p) == Call("add", byte_at(p), <<RST>>, p)
Delete(p) == Call("delete", byte_at(p), <<>>, p)

\* xload: record by record through push_ix.
LoadHex(r) ==
  LET writes == copy_ihx_xmem(Text(<<r>>)).writes
  IN  [i \in DOMAIN writes |->
         [WriteByte(writes[i][1], writes[i][2])
            EXCEPT !.at = Bytes(r)[i][1], !.ref = <<Bytes(r)[i][2]>>]]

\* What a command asks of the bus; cont sends the Z80 its interrupt between
\* the two.
CallsOf(op, packet, r) ==
  CASE op.op = "read"        -> <<Read(op.at)>>
    [] op.op = "write"       -> <<WriteByte(op.at, op.val)>>
    [] op.op = "receive_bin" -> <<Write(op.at, packet)>>
    [] op.op = "receive_ihx" -> LoadHex(r)
    [] op.op = "add"         -> <<Add(op.at)>>
    [] op.op = "delete"      -> <<Delete(op.at)>>
    [] op.op = "continue"    -> <<Delete(bp_adr), Add(bp_adr)>>
    [] op.op = "list"        -> <<>>

call == Head(job)
Todo(ps) == [k \in DOMAIN ps |-> IF ps[k].win THEN "shadow" ELSE "real"]
MainIdle == top = 0 /\ At("idle")

\* A write over a breakpoint would lose it, and one past the end of memory
\* would copy the wrong way; they are not asked for.
Safe(c) ==
  c.op = "write" => /\ \A i \in DOMAIN c.ref : c.at + i - 1 \notin asked
                    /\ c.at + Len(c.ref) <= N

Order ==
  /\ MainIdle /\ job = <<>>
  /\ \E t \in Lines, packet \in Packets, r \in Files :
       LET ops == exec_command(t, [c \in {"d", "r"} |-> 0]).calls
           calls == FlattenSeq([i \in DOMAIN ops |-> CallsOf(ops[i], packet, r)])
       IN  (\A i \in DOMAIN calls : Safe(calls[i])) /\ job' = calls
  /\ UNCHANGED <<vars, mem, bp_table, bp_adr, dbginfo_state, buf, phase, prog, asked, lost>>
-----------------------------------------------------------------------------
Slot == IF call.op = "add" THEN SlotToAdd(bp_table, call.at)
                           ELSE SlotToDelete(bp_table, call.at)
\* No slot, or a breakpoint that is set already: nothing is written.
Needless ==
  /\ call.op \in {"add", "delete"}
  /\ Slot # 0 => call.op = "add" /\ bp_table[Slot].in_use

EndCall == job' = Tail(job) /\ buf' = <<>>

SkipCall ==
  /\ MainIdle /\ job # <<>> /\ Needless
  /\ bp_table' = IF Slot = 0 THEN bp_table ELSE SortBreakPoint(bp_table)
  /\ EndCall
  /\ UNCHANGED <<vars, mem, bp_adr, dbginfo_state, phase, prog, asked, lost>>

BeginCall ==
  /\ MainIdle /\ job # <<>> /\ ~Needless
  /\ Command /\ todo' = Todo(call.ps)
  /\ bp_table' = IF call.op = "add" THEN Taken(bp_table, Slot, call.at) ELSE bp_table
  /\ UNCHANGED <<mem, bp_adr, dbginfo_state, job, buf, phase, prog, asked, lost>>

InCall == top = 0 /\ job # <<>>
TheSlot == SlotToDelete(bp_table, call.at)

(* A command that a transfer has robbed of the bus copies all the same: it   *)
(* reads whatever is on the lines, and what it writes goes nowhere without   *)
(* SRE, and against the running Z80 perhaps.                                 *)
Held == sre /\ Acked
Read_bytes(piece) ==
  IF Held THEN {load(mem, piece)} ELSE {[i \in 1 .. piece.n |-> d] : d \in Noise}
Written(piece, bytes) ==
  (IF sre THEN {store(mem, piece, bytes)} ELSE {}) \cup (IF Held THEN {} ELSE {mem})

MemcpyMain ==
  /\ InCall /\ Memcpy
  /\ LET piece == call.ps[Len(call.ps) - Len(todo) + 1]
     IN  \E bytes \in Read_bytes(piece) :
           /\ mem' \in CASE call.op = "read" -> {mem}
                         [] call.op = "delete" ->
                              Written(piece, <<bp_table[TheSlot].opcode>>)
                         [] OTHER -> Written(piece, call.bytes)
           /\ buf' = IF call.op = "read" THEN buf \o bytes ELSE buf
           /\ bp_table' = IF call.op = "add"
                            THEN [bp_table EXCEPT ![TheSlot].opcode = bytes[1]]
                            ELSE bp_table
  /\ lost' = (lost \/ ~Held)
  /\ UNCHANGED <<bp_adr, dbginfo_state, job, phase, prog, asked>>

(* What a transfer brings goes to the program's own buffer, which is not     *)
(* followed here; but through a window a command has open it goes to the     *)
(* bytes under the internal RAM (em_diskio.c:575-580).                       *)
MemcpyTransfer ==
  /\ top > 0 /\ Memcpy
  /\ IF shadow
       THEN /\ \E a \in INTERNAL .. N - 1, d \in Noise :
                 mem' = [mem EXCEPT ![Cell(TRUE, a)] = d]
            /\ lost' = TRUE
       ELSE UNCHANGED <<mem, lost>>
  /\ UNCHANGED <<bp_table, bp_adr, dbginfo_state, job, buf, phase, prog, asked>>

ReleaseMain ==
  /\ InCall /\ Release
  /\ EndCall
  /\ bp_table' = CASE call.op = "add" -> SortBreakPoint(bp_table)
                   [] call.op = "delete" -> SortBreakPoint(Cleared(bp_table, TheSlot))
                   [] OTHER -> bp_table
  /\ asked' = CASE call.op = "add" -> asked \cup {call.at}
                [] call.op = "delete" -> asked \ {call.at}
                [] OTHER -> asked
  /\ prog' = IF call.op = "write"
               THEN [a \in Memory |-> IF a - call.at \in 0 .. Len(call.ref) - 1
                                        THEN call.ref[a - call.at + 1] ELSE prog[a]]
               ELSE prog
  /\ UNCHANGED <<mem, bp_adr, dbginfo_state, phase, lost>>
-----------------------------------------------------------------------------
(* The Z80 reaches a breakpoint: RST 7, the BIOS's DEBUGGER reads port 1E    *)
(* once and writes 31 bytes to it: the address, high byte first, then the    *)
(* registers ("regs" stands for the 29 of them).                             *)
Break ==
  /\ z80 = "run" /\ ~granted /\ phase = Running
  /\ \E p \in Addresses : mem[p] = RST /\ phase' = [at |-> "in", p |-> p]
  /\ UNCHANGED <<vars, mem, bp_table, bp_adr, dbginfo_state, job, buf, prog, asked, lost>>

IN_1E_DEBUG_BreakPointAddress_NoReset == dbginfo_state' = dbginfo_state
IN_1E_DEBUG_BreakPointAddress == dbginfo_state' = 0

OUT_1E_DEBUG_BreakPointAddress(d) ==
  /\ bp_adr' = CASE dbginfo_state = 0 -> d * Byte
                 [] dbginfo_state = 1 -> bp_adr + d
                 [] OTHER -> bp_adr
  /\ dbginfo_state' = (dbginfo_state + 1) % 3

Sends == [high |-> phase.p \div Byte, low |-> phase.p % Byte, regs |-> 0]
After == [in |-> "high", high |-> "low", low |-> "regs", regs |-> "halt"]
Io == phase.at \in DOMAIN After

StartIoMain == phase.at # "halt" /\ StartIo /\ UNCHANGED data

\* The handler of the port; a program's own I/O is not followed.
IoInterruptMain ==
  /\ IoInterrupt
  /\ IF Io THEN phase' = [phase EXCEPT !.at = After[phase.at]] ELSE phase' = phase
  /\ CASE phase.at = "in" -> IN_1E_DEBUG_BreakPointAddress /\ UNCHANGED <<bp_adr>>
       [] phase.at \in DOMAIN Sends -> OUT_1E_DEBUG_BreakPointAddress(Sends[phase.at])
       [] OTHER -> UNCHANGED <<bp_adr, dbginfo_state>>
  /\ UNCHANGED <<mem, bp_table, job, buf, prog, asked, lost>>

(* EI; HALT; any interrupt ends it, and the program goes on at p. *)
Resume ==
  /\ z80 = "run" /\ ~granted /\ phase.at = "halt"
  /\ phase' = Running
  /\ UNCHANGED <<vars, mem, bp_table, bp_adr, dbginfo_state, job, buf, prog, asked, lost>>

ResetZ80 ==
  /\ job = <<>> /\ Z80_RESET
  /\ phase' = Running
  /\ UNCHANGED <<mem, bp_table, bp_adr, dbginfo_state, job, buf, prog, asked, lost>>
-----------------------------------------------------------------------------
Quiet ==
  /\ \/ Z80_BUSREQ \/ ExtMem_attach \/ Enter \/ Leave \/ ExtMem_detach
     \/ (top > 0 /\ Release)
     \/ CheckProgress \/ SetProgress \/ ClearProgress \/ EndReset
  /\ UNCHANGED data

MNext ==
  \/ Quiet \/ MemcpyMain \/ MemcpyTransfer \/ ReleaseMain \/ SkipCall \/ BeginCall
  \/ Order \/ ResetZ80
  \/ StartIoMain \/ IoInterruptMain \/ Break \/ Resume
  \/ ((Grant \/ TakeBack \/ Timer2Interrupt \/ Transfer) /\ UNCHANGED data)

MSpec == MInit /\ [][MNext]_mvars
-----------------------------------------------------------------------------
Shown(a) == IF a \in asked THEN RST ELSE prog[a]

(* Between calls the Z80's memory is the program that was loaded with RST 7  *)
(* at the breakpoints asked for, also across the edge of the AVR's internal  *)
(* RAM, whose own bytes are untouched; and a dump shows that memory, past    *)
(* the end of memory from its start (monitor.c:269-345, em_debugger.c:56-86).*)
(* Two things spoil it: a transfer in the middle of a command, and the last  *)
(* byte, where a second breakpoint hides the first.                          *)
MemoryIsProgram ==
  lost \/
  /\ pc[0] \notin BusPcs =>
       \A c \in Cells \ {Top} : mem[c] = IF c \in Memory THEN Shown(c) ELSE 0
  /\ pc[0] = "detach" /\ call.op = "read" =>
       /\ Len(buf) = Block
       /\ \A i \in 1 .. Block :
            LET a == (call.at + i - 1) % N
            IN  a # Top => buf[i] = Shown(a)

(* The table holds each breakpoint asked for once, although slots are reused *)
(* and moved, with the opcode it hides if no copy was lost; a breakpoint at  *)
(* 0xffff, the address of a free slot, disturbs no other                     *)
(* (em_debugger.c:294-345).                                                  *)
TableIsAsked ==
  pc[0] \notin BusPcs =>
    LET used == {i \in Slots : bp_table[i].in_use /\ bp_table[i].address # Top}
    IN  /\ {bp_table[i].address : i \in used} = asked \ {Top}
        /\ Cardinality(used) = Cardinality(asked \ {Top})
        /\ lost \/ \A i \in used : bp_table[i].opcode = prog[bp_table[i].address]

(* A Z80 that stopped is where the debugger says it is, although it can be   *)
(* reset in the middle of a report; "(unexpected)" is said of a breakpoint   *)
(* that was asked for, 0xffff apart, only if a full table has it last        *)
(* (em_debugger.c:88-97).                                                    *)
BreakIsReported ==
  /\ phase.at = "halt" => bp_adr = phase.p
  /\ phase.at = "regs" /\ pc[0] \notin BusPcs /\ phase.p \in asked \ {Top} =>
       \/ FindBreakPoint(bp_table, bp_adr) # 0
       \/ Cardinality(asked) = NumBP /\ \A a \in asked : a <= phase.p
=============================================================================
