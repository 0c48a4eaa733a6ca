------------------------------ MODULE IntelHex ------------------------------
(* The Intel HEX reader (intelhex.c): a state machine fed one character at  *)
(* a time.  A byte is two hex digits, Digit values each; a character is a   *)
(* digit (a number below Digit), ":", "nl" or "other".                      *)
EXTENDS Integers, Sequences, SequencesExt

CONSTANT Digit   \* values of a hex digit: 16 in the code

ASSUME DigitAssumption == Digit \in Nat \ {0, 1}

Byte == Digit * Digit
\* An address is a word of two bytes.
Word(a) == a % (Byte * Byte)
IsDigit(c) == c \in 0 .. Digit - 1

\* struct ix_ctx; writes are the calls of func, in order.
init_ix ==
  [state |-> "HEAD", rbuf |-> <<>>, length |-> 0, address |-> 0, sum |-> 0,
   status |-> 0, writes |-> <<>>]

Pushed(p, c) == IF IsDigit(c) THEN [p EXCEPT !.rbuf = Append(@, c)] ELSE p
Number(rbuf) ==
  LET v[i \in 0 .. Len(rbuf)] == IF i = 0 THEN 0 ELSE v[i - 1] * Digit + rbuf[i]
  IN  v[Len(rbuf)]
Needed == [NUMBER |-> 2, ADDRESS |-> 4, RECORD |-> 2, DATA |-> 2, SUM |-> 2, END |-> 2]
Starts(p, state) == [p EXCEPT !.state = state, !.rbuf = <<>>]

Head_ix(p, c) ==
  CASE c = ":"  -> [Starts(p, "NUMBER") EXCEPT !.status = 1]
    [] c = "nl" -> [p EXCEPT !.status = 1]
    [] OTHER    -> [p EXCEPT !.state = "DONE", !.status = 3]

\* What a state does with its whole number n.
Field_ix(p, n) ==
  CASE p.state = "NUMBER"  -> [Starts(p, "ADDRESS") EXCEPT !.length = n, !.sum = n]
    [] p.state = "ADDRESS" -> [Starts(p, "RECORD") EXCEPT !.address = n,
                                 !.sum = @ + (n \div Byte) + (n % Byte)]
    [] p.state = "RECORD"  -> [Starts(p, IF n = 0 THEN "DATA" ELSE "END")
                                 EXCEPT !.sum = @ + n]
    [] p.state = "DATA"    -> [Starts(p, IF p.length = 1 THEN "SUM" ELSE "DATA")
                                 EXCEPT !.sum = @ + n, !.length = @ - 1,
                                        !.address = Word(@ + 1),
                                        !.writes = Append(@, <<p.address, n>>)]
    [] p.state = "SUM"     -> IF (p.sum + n) % Byte = 0
                                THEN [Starts(p, "HEAD") EXCEPT !.sum = 0]
                                ELSE [Starts(p, "DONE") EXCEPT !.sum = @ + n, !.status = 2]
    [] p.state = "END"     -> [Starts(p, "DONE") EXCEPT !.status = 0]

push_ix(p, c) ==
  CASE p.state = "HEAD" -> Head_ix(p, c)
    [] p.state = "DONE" -> [p EXCEPT !.status = 0]
    [] OTHER -> LET q == [Pushed(p, c) EXCEPT !.status = 1]
                IN  IF Len(q.rbuf) = Needed[p.state]
                      THEN Field_ix(q, Number(q.rbuf)) ELSE q

(* copy_ihx_xmem: characters are pushed until one is refused, which ends the *)
(* transfer with a copy error.                                              *)
Fed(p, c) == IF p.status >= 2 THEN p ELSE push_ix(p, c)
Feed(p, text) ==
  LET s[i \in 0 .. Len(text)] == IF i = 0 THEN p ELSE Fed(s[i - 1], text[i])
  IN  s[Len(text)]
copy_ihx_xmem(text) == Feed(init_ix, text)
-----------------------------------------------------------------------------
(* The reference: the text of a record, as any tool writes it. *)
Hex(v) == <<v \div Digit, v % Digit>>
Checksum(r) ==
  LET s[i \in 0 .. Len(r.data)] ==
        IF i = 0 THEN Len(r.data) + (r.address \div Byte) + (r.address % Byte)
                 ELSE s[i - 1] + r.data[i]
  IN  s[Len(r.data)]
Line(r) ==
  <<":">> \o Hex(Len(r.data)) \o Hex(r.address \div Byte) \o Hex(r.address % Byte)
  \o Hex(0) \o FlattenSeq([i \in DOMAIN r.data |-> Hex(r.data[i])])
  \o Hex((r.bad + Byte - (Checksum(r) % Byte)) % Byte) \o <<"nl">>
EndLine == <<":">> \o Hex(0) \o Hex(0) \o Hex(0) \o Hex(1) \o Hex(Byte - 1)
Text(rs) == FlattenSeq([k \in DOMAIN rs |-> Line(rs[k])]) \o EndLine

\* A record of a file: its length fits a byte, and so does what is wrong with
\* its sum, 0 when it is right.
HexRecord(r) ==
  /\ r.address \in 0 .. Byte * Byte - 1
  /\ r.data \in Seq(0 .. Byte - 1) /\ Len(r.data) \in 1 .. Byte - 1
  /\ r.bad \in 0 .. Byte - 1

Bytes(r) == [i \in DOMAIN r.data |-> <<Word(r.address + i - 1), r.data[i]>>]
FirstBad(rs) == SelectInSeq(rs, LAMBDA r : r.bad # 0)

(* A file is loaded as it was written, record by record; the first record   *)
(* whose sum is wrong ends the load with the checksum error, and its bytes  *)
(* are in memory already (intelhex.c:103-131).                              *)
LoadsAsWritten(rs) ==
  LET p == copy_ihx_xmem(Text(rs))
      last == IF FirstBad(rs) = 0 THEN Len(rs) ELSE FirstBad(rs)
  IN  /\ p.writes = FlattenSeq([k \in 1 .. last |-> Bytes(rs[k])])
      /\ p.status = IF FirstBad(rs) = 0 THEN 0 ELSE 2
=============================================================================
