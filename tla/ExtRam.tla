------------------------------- MODULE ExtRam -------------------------------
(* How the monitor reaches the Z80's memory (monitor.c).  The AVR's own     *)
(* addresses below INTERNAL are its registers and RAM; external memory is   *)
(* seen above it, and with the shadow window open every external address is *)
(* taken modulo SHADOW, so what lies under the internal RAM is seen at      *)
(* SHADOW.  A copy is a sequence of pieces, one memcpy each.                *)
EXTENDS Integers, Sequences, SequencesExt

CONSTANTS
  N,         \* EXTERNAL_RAM_SIZE: the Z80's memory is 0 .. N - 1
  INTERNAL,  \* INTERNAL_RAM_SIZE
  SHADOW,    \* where ExtMem_map's window begins
  Buf,       \* where the monitor's buffer lies in internal RAM
  Block      \* sizeof(ebuf), and the columns of a dump

ASSUME MapAssumption ==
  /\ N \in Nat /\ INTERNAL \in Nat \ {0} /\ SHADOW \in Nat
  /\ INTERNAL <= SHADOW /\ 2 * SHADOW <= N
ASSUME BufAssumption ==
  Buf \in Nat /\ Block \in Nat \ {0} /\ Buf + Block <= INTERNAL
\* A block that begins in the internal RAM ends in the window.
ASSUME WindowAssumption == INTERNAL + Block <= SHADOW + 1

\* A cell of memory: 0 .. N - 1 is the Z80's, -1 - a the AVR's byte a.
Cells == -INTERNAL .. N - 1
Cell(win, a) ==
  IF a < INTERNAL THEN -1 - a ELSE IF win THEN a % SHADOW ELSE a

\* memcpy of n bytes from or to the AVR address at, with the window open or
\* not; off bytes of the buffer go before.  back: from the window's start to at.
Piece(w, at, off, n) ==
  [win |-> w, at |-> at, off |-> off, n |-> n, back |-> FALSE]
Real(at, off, n) == Piece(FALSE, at, off, n)
Window(at, off, n) == Piece(TRUE, SHADOW + at, off, n)

load(mem, p) == [i \in 1 .. p.n |-> mem[Cell(p.win, p.at + i - 1)]]
store(mem, p, buf) ==
  LET byte(i) == IF p.back THEN mem[Cell(p.win, SHADOW + i - 1)]
                           ELSE buf[p.off + i]
      here(c) == {i \in 1 .. p.n : Cell(p.win, p.at + i - 1) = c}
  IN  [c \in DOMAIN mem |->
         IF here(c) = {} THEN mem[c] ELSE byte(CHOOSE i \in here(c) : TRUE)]

(* The cases (1) to (6) of the comment above read_extram. *)
read_extram(src, len) ==
  LET upto(limit) == limit - src
  IN  IF src < INTERNAL
        THEN IF src <= INTERNAL - len
               THEN <<Window(src, 0, len)>>
               ELSE <<Window(src, 0, upto(INTERNAL)),
                      Real(INTERNAL, upto(INTERNAL), len - upto(INTERNAL))>>
        ELSE IF src <= N - len
               THEN <<Real(src, 0, len)>>
               ELSE <<Real(src, 0, upto(N)), Window(0, upto(N), len - upto(N))>>

(* It looks where its buffer is when it asks whether dst crosses INTERNAL;   *)
(* the window, longer than the internal RAM, then serves both halves.  Past  *)
(* the end of memory it copies the wrong way, over the AVR's registers.      *)
write_extram(dst, len) ==
  LET upto(limit) == limit - dst
  IN  IF dst < INTERNAL
        THEN IF Buf <= INTERNAL - len
               THEN <<Window(dst, 0, len)>>
               ELSE <<Window(dst, 0, upto(INTERNAL)),
                      Real(INTERNAL, upto(INTERNAL), len - upto(INTERNAL))>>
        ELSE IF dst <= N - len
               THEN <<Real(dst, 0, len)>>
               ELSE <<Real(dst, 0, upto(N)),
                      [Piece(TRUE, 0, 0, len - upto(N)) EXCEPT !.back = TRUE]>>

\* Mutant: the window is forgotten.
byte_at_Real(a) == <<Real(a, 0, 1)>>

\* One byte, for r, w, f, xload and the breakpoints.
byte_at(a) == IF a < INTERNAL THEN <<Window(a, 0, 1)>> ELSE <<Real(a, 0, 1)>>

Loaded(mem, ps) == FlattenSeq([k \in DOMAIN ps |-> load(mem, ps[k])])
Stored(mem, ps, buf) ==
  LET m[k \in 0 .. Len(ps)] == IF k = 0 THEN mem ELSE store(m[k - 1], ps[k], buf)
  IN  m[Len(ps)]
-----------------------------------------------------------------------------
(* esave and eload: blocks of sizeof(ebuf), then what is left. *)
Blocks(size) ==
  LET n == size \div Block
  IN  [k \in 1 .. n |-> [off |-> (k - 1) * Block, len |-> Block]]
      \o IF size % Block > 0 THEN <<[off |-> n * Block, len |-> size % Block]>>
                             ELSE <<>>

\* A block goes through ebuf.
Saved(mem, eep, dst, src, b) ==
  LET ebuf == Loaded(mem, read_extram(src + b.off, b.len))
  IN  [a \in DOMAIN eep |->
         IF a - dst - b.off \in 0 .. b.len - 1 THEN ebuf[a - dst - b.off + 1] ELSE eep[a]]
save_extmem_eeprom(mem, eep, dst, src, size) ==
  LET bs == Blocks(size)
      e[k \in 0 .. Len(bs)] == IF k = 0 THEN eep ELSE Saved(mem, e[k - 1], dst, src, bs[k])
  IN  e[Len(bs)]

Brought(mem, eep, dst, src, b) ==
  Stored(mem, write_extram(dst + b.off, b.len),
         [i \in 1 .. b.len |-> eep[src + b.off + i - 1]])
load_eeprom_extmem(mem, eep, dst, src, size) ==
  LET bs == Blocks(size)
      m[k \in 0 .. Len(bs)] == IF k = 0 THEN mem ELSE Brought(m[k - 1], eep, dst, src, bs[k])
  IN  m[Len(bs)]
=============================================================================
