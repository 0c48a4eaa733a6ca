------------------------------- MODULE Ports -------------------------------
(* The ports of the emulated devices as the Z80 sees them: the tables by    *)
(* which INT0 and INT1 find a handler (emuldev.c), and the handlers that    *)
(* only keep what was set (em_consoleio.c, em_diskio.c, em_debugger.c,      *)
(* em_led.c).  A byte is a number; a longer value is a sequence of bytes,   *)
(* the highest first.                                                       *)
EXTENDS Integers, Sequences, SequencesExt

PORT_MAX == 32
Table(names) ==
  [p \in 0 .. PORT_MAX - 1 |-> IF p \in DOMAIN names THEN names[p] ELSE "Undefined"]
From(p, names) == [i \in p .. p + Len(names) - 1 |-> names[i - p + 1]]

InHandler ==
  Table(From(0, <<"CONIN", "CONIN_STS", "CONIN_BUF", "CONIN_INT">>)
        @@ From(6, <<"CONOUT_STS", "CONOUT_BUF", "CONOUT_INT">>)
        @@ From(10, <<"DSKSTS", "DSKWRPOS", "DSKWRBUF", "DSKWRLEN", "DSKWR", "DSKWR_INT",
                      "DSKRDPOS", "DSKRDBUF", "DSKRDLEN", "DSKRD", "DSKRD_INT">>)
        @@ From(29, <<"DBG_INT", "DBG_INFO", "LED">>))
OutHandler ==
  Table(From(2, <<"CONIN_BUF", "CONIN_INT">>)
        @@ From(5, <<"CONOUT">>) @@ From(7, <<"CONOUT_BUF", "CONOUT_INT">>)
        @@ From(10, <<"SELDSK", "DSKWRPOS", "DSKWRBUF", "DSKWRLEN", "DSKWR", "DSKWR_INT",
                      "DSKRDPOS", "DSKRDBUF", "DSKRDLEN", "DSKRD", "DSKRD_INT">>)
        @@ From(29, <<"DBG_INT", "DBG_INFO", "LED">>))

\* The handlers of this module; the others are modelled with their devices.
Sequencers ==
  [n \in {"DSKWRPOS", "DSKRDPOS"} |-> 4]
  @@ [n \in {"DSKWRBUF", "DSKWRLEN", "DSKRDBUF", "DSKRDLEN"} |-> 2]
ConsoleLevels == {"CONIN_INT", "CONOUT_INT"}
DiskLevels == {"DSKWR_INT", "DSKRD_INT"}
DebuggerLevels == {"DBG_INT"}
Levels == ConsoleLevels \cup DiskLevels \cup DebuggerLevels
BufferSize == [CONIN_BUF |-> 64, CONOUT_BUF |-> 128]
-----------------------------------------------------------------------------
(* TEMPLATE_IN_OUT_4BYTES and _2BYTES: st bytes of dt have come, and an IN  *)
(* starts again.                                                            *)
seq_IN(q) == [q EXCEPT !.st = 0]
seq_OUT(q, data) ==
  LET n == Len(q.dt)
  IN  [st |-> (q.st + 1) % n,
       dt |-> [i \in 1 .. n |-> IF i = q.st + 1 THEN data
                                ELSE IF i <= q.st THEN q.dt[i] ELSE 0]]

\* PORTE: five inputs and switches below, the LEDs above.
OUT_1F_LED_Set(porte, data) == (porte % 32) + (data % 8) * 32
IN_1F_LED_Get(porte) == porte \div 32
-----------------------------------------------------------------------------
(* The handlers by port.  s: the sequencers, the levels and PORTE.          *)
PowerUp ==
  [seq |-> [n \in DOMAIN Sequencers |-> [st |-> 0, dt |-> [i \in 1 .. Sequencers[n] |-> 0]]],
   level |-> [n \in Levels |-> 128],
   porte |-> 0]

\* What an IN leaves and what it gives; an unused port gives 0.
INT0(s, pinf) ==
  LET n == InHandler[pinf % PORT_MAX]
  IN  CASE n \in DOMAIN Sequencers -> [s |-> [s EXCEPT !.seq[n] = seq_IN(@)],
                                       data |-> Last(s.seq[n].dt)]
        [] n \in Levels            -> [s |-> s, data |-> s.level[n]]
        [] n \in DOMAIN BufferSize -> [s |-> s, data |-> BufferSize[n]]
        [] n = "LED"               -> [s |-> s, data |-> IN_1F_LED_Get(s.porte)]
        [] OTHER                   -> [s |-> s, data |-> 0]

INT1(s, pinf, data) ==
  LET n == OutHandler[pinf % PORT_MAX]
  IN  CASE n \in DOMAIN Sequencers -> [s EXCEPT !.seq[n] = seq_OUT(@, data)]
        [] n \in Levels            -> [s EXCEPT !.level[n] = data]
        [] n = "LED"               -> [s EXCEPT !.porte = OUT_1F_LED_Set(@, data)]
        [] OTHER                   -> s
-----------------------------------------------------------------------------
(* The BIOS (bios.asm): the numbers it knows the ports by.                  *)
BiosPort ==
  [CONIN |-> 0, CONIN_STS |-> 1, CONIN_BUF |-> 2, CONIN_INT |-> 3, CONOUT |-> 5,
   CONOUT_STS |-> 6, CONOUT_BUF |-> 7, CONOUT_INT |-> 8, SELDSK |-> 10, DSKSTS |-> 10,
   DSKWRPOS |-> 11, DSKWRBUF |-> 12, DSKWRLEN |-> 13, DSKWR |-> 14, DSKWR_INT |-> 15,
   DSKRDPOS |-> 16, DSKRDBUF |-> 17, DSKRDLEN |-> 18, DSKRD |-> 19, DSKRD_INT |-> 20,
   DBG_INT |-> 29, DBG_INFO |-> 30, LED |-> 31]
BiosIn ==
  {"CONIN", "CONIN_STS", "CONOUT_STS", "DSKSTS", "DSKWRPOS", "DSKWRBUF", "DSKWRLEN",
   "DSKWR", "DSKRDPOS", "DSKRDBUF", "DSKRDLEN", "DSKRD", "DBG_INFO", "LED"}
BiosOut == (DOMAIN BiosPort) \ {"CONIN", "CONIN_STS", "CONOUT_STS", "DSKSTS"}

\* (DE, HL) * 128 by shifts: the record number without D.
PositionBytes(e, h, l) ==
  <<e \div 2, ((e % 2) * 256 + h) \div 2, ((h % 2) * 256 + l) \div 2, (l % 2) * 128>>

\* IN once, then the bytes.
SendTo(s, name, bytes) ==
  FoldLeft(LAMBDA t, b : INT1(t, BiosPort[name], b), INT0(s, BiosPort[name]).s, bytes)

(* The set-up of a transfer in MISHIT_CACHE and DO_WRITE: position, buffer  *)
(* and length.                                                              *)
SetUp(s, dir, e, h, l, buf, len) ==
  LET port == IF dir = "read" THEN <<"DSKRDPOS", "DSKRDBUF", "DSKRDLEN">>
                             ELSE <<"DSKWRPOS", "DSKWRBUF", "DSKWRLEN">>
  IN  SendTo(SendTo(SendTo(s, port[1], PositionBytes(e, h, l)), port[2], buf), port[3], len)

\* The reference: the byte position of a record.
ByteOf(e, h, l) == (e * 65536 + h * 256 + l) * 128
=============================================================================
