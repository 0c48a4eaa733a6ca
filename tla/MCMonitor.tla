----------------------------- MODULE MCMonitor -----------------------------
(* A memory of 8 bytes with 3 under the AVR's internal RAM, two digits of a *)
(* bit for a byte, breakpoints on both sides of the edge and at the address *)
(* of a free slot, which is the last.                                       *)
EXTENDS Monitor, DebugReport

Copies == {<<"shadow">>, <<"shadow", "real">>, <<"real">>, <<"real", "shadow">>}
Breakpoints == {0, 5, 7}
Typed ==
  {<<Name(c), Num(p)>> : c \in {"brk", "del"}, p \in Breakpoints}
  \cup {<<Name("d"), Num(2)>>, <<Name("d"), Num(7)>>, <<Name("cont")>>,
        <<Name("bload"), Num(2)>>, <<Name("xload")>>}
APacket == {<<1, 1>>}
AFile == {[address |-> 2, data |-> <<0, 0>>, bad |-> 0]}

\* Bound: a behaviour is followed up to the first copy that is lost.
KnownMemory == ~lost

(* The pure parts, for every argument of the small instance.                *)
\* A memory in which every byte can be told from the others.
Stamped == [c \in Cells |-> c]
\* d and esave read, and bload and eload write, the bytes asked for and no
\* others, wherever they lie against the edges (writes end in memory).
ASSUME CopiesAreExact ==
  \A a \in Memory, len \in 1 .. Block :
    /\ Loaded(Stamped, read_extram(a, len)) = [i \in 1 .. len |-> (a + i - 1) % N]
    /\ a + len <= N =>
         Stored(Stamped, write_extram(a, len), [i \in 1 .. len |-> 100 + i])
           = [c \in Cells |-> IF c \in a .. a + len - 1 THEN 101 + c - a ELSE c]

\* What esave saves eload brings back, however it falls into blocks.
ASSUME EepromRoundTrip ==
  \A src \in Memory, dst \in Memory, size \in 0 .. 5 :
    src + size <= N /\ dst + size <= N =>
      LET eep == save_extmem_eeprom(Stamped, [i \in 0 .. 6 |-> 0], 1, src, size)
      IN  load_eeprom_extmem(Stamped, eep, dst, 1, size)
            = [c \in Cells |-> IF c \in dst .. dst + size - 1 THEN c - dst + src ELSE c]

Records == [address : {1, 15}, data : {<<3>>, <<2, 0>>, <<1, 3, 1>>}, bad : {0, 1}]
ASSUME HexFilesLoad ==
  \A rs \in UNION {[1 .. n -> Records] : n \in 0 .. 2} : LoadsAsWritten(rs)
-----------------------------------------------------------------------------
(* The commands.                                                            *)
Keys == {"a", Space, "bs", "other"}
KeySeqs == UNION {[1 .. n -> Keys] : n \in 0 .. 5}
\* The tokens are the words of the line, and nothing but characters gets in.
ASSUME WordsOfTheLine ==
  \A keys \in KeySeqs :
    LET line == x_gets_s(keys \o <<"enter">>, 4)
        words == tokenizer(line)
    IN  /\ Len(line) <= 4 /\ ToSet(line) \subseteq {"a", Space}
        /\ FlattenSeq(words) = SelectSeq(line, LAMBDA c : c # Space)
        /\ \A i \in DOMAIN words : words[i] # <<>>

Tokens == {Name("x"), Num(0), Num(3), Num(N - 1)}
Named == {"d", "r", "w", "f", "sx", "esave", "esave2", "eload", "reset", "int",
          "brk", "del", "cont", "test", "xload", "bload", "lx", "h", "none"}
Statics == [c \in {"d", "r"} |-> 5]
TypedLines ==
  {<<Name(c)>> \o ps : c \in Named, ps \in UNION {[1 .. n -> Tokens] : n \in 0 .. 3}}
\* A command that is refused has done nothing, and every address is a word.
ASSUME RefusedDoesNothing ==
  \A t \in TypedLines :
    LET r == exec_command(t, Statics)
    IN  /\ r.err # "NO_ERROR" => r.calls = <<>> /\ r.adr = Statics
        /\ \A i \in DOMAIN r.calls : r.calls[i].at \in Memory
        /\ \A c \in DOMAIN Statics : r.adr[c] \in Memory

\* d shows the bytes asked for, once each and in order, across the end of
\* memory too, and the next d goes on behind its last row.
ASSUME DumpShows ==
  \A a \in Memory, len \in 0 .. 2 * Block + 1 :
    LET r == exec_command(<<Name("d"), Num(a), Num(len)>>, Statics)
        shown == FlattenSeq([k \in DOMAIN r.calls |->
                   [i \in 1 .. r.calls[k].val |-> U(r.calls[k].at + i - 1)]])
    IN  /\ shown = [i \in 1 .. len |-> U(a + i - 1)]
        /\ len > 0 => exec_command(<<Name("d")>>, r.adr).calls[1].at
                        = U(r.calls[Len(r.calls)].at + Block)

\* The check of f cannot refuse a length: a fill past the end of memory goes
\* on at its start (monitor.c:585).
ASSUME FillGoesRound ==
  \A a \in Memory, size \in 0 .. N - 1 :
    exec_command(<<Name("f"), Num(1), Num(a), Num(size)>>, Statics).calls
      = [i \in 1 .. size |-> Op("write", U(a + i - 1), 1)]

\* test keeps to the Z80's memory only below INTERNAL - TestMargin and from
\* INTERNAL on, up to its size from the end; elsewhere it writes the AVR's.
ASSUME TestKeepsOut ==
  \A o \in Memory :
    (Tested(o) \subseteq Memory) <=>
      o < INTERNAL - TestMargin \/ o \in INTERNAL .. N - TestSize

\* What "esave2 0 src len" saved the boot brings back and starts, but for
\* what lay in the three bytes of the jump there.
ASSUME Esave2Boots ==
  \A src \in Memory, size \in 1 .. EepromSize - 4 :
    src + size <= N =>
      LET r == exec_command(<<Name("esave2"), Num(0), Num(src), Num(size)>>, Statics)
          head == [i \in 0 .. EepromSize - 1 |->
                     CASE i = r.calls[1].at -> r.calls[1].val
                       [] i = r.calls[2].at -> r.calls[2].val
                       [] OTHER -> 0]
          save == r.calls[3]
          eep == save_extmem_eeprom(Stamped, head, save.at, save.val, save.size)
          blank == [c \in Cells |-> IF c \in Memory THEN -100 ELSE c]
          jump == <<JP, src % Byte, src \div Byte>>
      IN  boot(blank, eep)
            = [c \in Cells |-> IF c \in 0 .. 2 THEN jump[c + 1]
                              ELSE IF c \in src .. src + size - 1 THEN c ELSE blank[c]]
-----------------------------------------------------------------------------
(* The debugger's report.  Register files in which no two bytes are equal.  *)
File(b) ==
  LET order == <<"PC">> \o Tail(Fields)
      n(r) == CHOOSE i \in DOMAIN order : order[i] = r
  IN  [r \in Registers |-> IF r = "I" THEN b ELSE 256 * (2 * n(r) + b) + 2 * n(r) + b + 1]

ASSUME ReportsAreTrue ==
  \A b \in {1, 99, 190}, cut \in 0 .. 30 :
    ShownAsSent(File(b), <<2570, 258>>, File(b + 29), cut)

\* A program that stopped and goes on finds its registers as they were, but
\* for A and F, which it gets from AF' and from the BIOS (bios.asm:90, 116).
ASSUME OnlyAFChanges ==
  \A b \in {1, 99}, flags \in {0, 66} :
    LET z == File(b)
        after == DEBUGGER_resume(z, flags)
    IN  {r \in Registers : after[r] # z[r]} = {"AF", "AF'"}
-----------------------------------------------------------------------------
(* The terminal.                                                            *)
T == INSTANCE Terminal

ASCII(len) == [i \in 1 .. len |-> IF i % 7 = 0 THEN T!LF ELSE 32 + (i % 90)]
Returned(s) == FlattenSeq([i \in DOMAIN s |-> IF s[i] = T!LF THEN <<T!CR, T!LF>> ELSE <<s[i]>>])

\* A text of up to 127 characters arrives as it is, whatever the stack holds,
\* on both lines; x_puts adds the line's end.
ASSUME TextsArrive ==
  \A len \in 0 .. 127 : \A stack \in {<<>>, <<-1, 200>>} :
    /\ T!x_printf(ASCII(len), stack) = Returned(ASCII(len))
    /\ T!x_printf_TX1(ASCII(len), stack) = Returned(ASCII(len))
    /\ T!x_puts(ASCII(len)) = Returned(ASCII(len)) \o <<T!CR, T!LF>>

\* Past that a NUL goes out and then what lies on the stack; and x_puts stops
\* at the first char from 0x80 on, having sent it if it is not 0xff.
ASSUME TextsOutOfRange ==
  /\ \A c \in {-1, 65} :
       T!x_printf(ASCII(129), <<c>>)
         = Returned(ASCII(127)) \o <<T!NUL>> \o (IF c = -1 THEN <<>> ELSE <<65>>)
  /\ \A c \in {-128, -2, -1} :
       T!x_puts(<<65, c, 66>>) = <<65>> \o (IF c = -1 THEN <<>> ELSE <<256 + c>>)

\* The help comes out whole however its length falls into pieces.
ASSUME HelpIsWhole ==
  \A len \in 0 .. 100 :
    T!c_help(ASCII(len), <<>>) = Returned(ASCII(len)) \o <<T!CR, T!LF>>

\* No byte that comes is taken for the end of the wait, and a wait ends.
ASSUME BytesAreNotEOF ==
  \A byte \in 0 .. 255, us \in 0 .. 3, at \in 1 .. 5 :
    LET c == T!x_getchar_tout(us, at, byte)
    IN  /\ c \in {byte, T!EOF} /\ byte # T!EOF
        /\ (c = T!EOF) <=> us > 0 /\ at > us
        /\ T!x_getchar(at, byte) = byte

\* What h says of a command is what it takes: it misses a parameter exactly
\* when one shown in <> is not there, and a name h does not know is none.
ASSUME HelpIsTrue ==
  \A n \in DOMAIN T!help_str \cup {"x"}, k \in 0 .. MAX_TOKENS - 1 :
    LET adr == [c \in {"d", "di", "df", "de", "r", "ri"} |-> 5]
        err == exec_command(<<Name(n)>> \o [i \in 1 .. k |-> Num(1)], adr).err
    IN  IF n = "x" THEN err = "ERR_COMMAND"
        ELSE /\ (err = "ERR_PARAM_MISS") <=> k < T!help_str[n].mandatory
             /\ err # "ERR_COMMAND"
-----------------------------------------------------------------------------
(* The pins.                                                                *)
B == INSTANCE Board

Booted(dip) == B!Trace(B!AfterReset, B!board_init(dip))
\* While the board is set up the Z80's /RESET, /NMI and /INT are at no moment
\* driven low, and the memory has the same wait in both its sectors.
ASSUME SetUpIsQuiet ==
  \A dip \in BOOLEAN : \A n \in DOMAIN Booted(dip) :
    LET regs == Booted(dip)[n]
    IN  /\ \A pin \in {B!RESET, B!NMI} : ~B!Low(regs, "PORTB", "DDRB", pin)
        /\ ~B!Low(regs, "PORTD", "DDRD", B!XINT)
        /\ n = Len(B!board_init(dip)) =>
             /\ B!LowerWait(regs) = B!UpperWait(regs)
             /\ B!LowerWait(regs) = IF dip THEN 1 ELSE 2

\* The AVR turns its bus on only while it holds /BUSREQ low, the HALT is in
\* memory when it lets go, and the shadow and the bus are off by then.
ASSUME HaltBeforeRelease ==
  \A dip \in BOOLEAN : \A n \in DOMAIN Booted(dip) :
    LET regs == Booted(dip)[n]
        held == B!Low(regs, "PORTD", "DDRD", B!BUSREQ)
        done == n = Len(B!board_init(dip))
    IN  /\ B!SRE \in regs["MCUCR"] => held
        /\ done => ~held /\ regs["mem0"] = "HALT"
                   /\ B!SRE \notin regs["MCUCR"] /\ regs["XMCRB"] = {}
        /\ B!Driven(regs, "DDRD", B!BUSREQ) /\ ~done => held

\* A pulse goes low, ends high and moves no other pin.
ASSUME PulsesReturn ==
  \A dip \in BOOLEAN, ws \in {B!Z80_NMI, B!Z80_CLRWAIT, B!Z80_RESET} :
    LET from == Booted(dip)[Len(B!board_init(dip))]
        during == B!Trace(from, ws)
    IN  /\ during[Len(ws)] = from
        /\ \E n \in DOMAIN during, pin \in {B!RESET, B!NMI} :
             \/ B!Low(during[n], "PORTB", "DDRB", pin)
             \/ B!Low(during[n], "PORTD", "DDRD", B!CLRWAIT)

\* The SD driver's set-up leaves the Z80's pins alone; but no pin is pulled
\* up, MISO included (mmc_avr_spi.c:87), and the card is selected as soon as
\* its pins are driven.
ASSUME CardPins ==
  \A dip \in BOOLEAN :
    LET from == Booted(dip)[Len(B!board_init(dip))]
        regs == B!Final(from, B!power_on)
    IN  /\ \A pin \in {B!RESET, B!NMI} : ~B!Low(regs, "PORTB", "DDRB", pin)
        /\ ~B!PulledUp(regs, "PORTB", "DDRB", B!MISO)
        /\ B!Low(regs, "PORTB", "DDRB", B!CS)

\* What sts shows after the set-up is how the Z80 stands.
ASSUME StatusAfterBoot ==
  \A dip \in BOOLEAN, pins \in [{"B", "D"} -> {{}, {7}}] :
    LET sts == B!c_z80_status(Booted(dip)[Len(B!board_init(dip))], pins)
    IN  /\ sts[1][2] = "H"
        /\ (sts[2][2] = "L") <=> pins["D"] = {}
        /\ (sts[3][2] = "L") <=> pins["B"] = {}
=============================================================================
