------------------------------ MODULE Terminal ------------------------------
(* The monitor's terminal on USART0: what xconsoleio.c sends of a text and  *)
(* makes of a byte that comes, and the texts of h and sts (monitor.c).  A   *)
(* text is a sequence of chars, signed as on the AVR, without its NUL.      *)
EXTENDS Integers, SequencesExt

EOF == -1
NUL == 0
LF == 10
CR == 13

\* To uint8_t, on the way to the data register.
uint8(c) == c % 256
USART0_Transmit(c) == <<uint8(c)>>
x_putchar(c) == IF c = EOF THEN <<>> ELSE USART0_Transmit(c)
Put(c) == IF c = LF THEN x_putchar(CR) \o x_putchar(LF) ELSE x_putchar(c)
-----------------------------------------------------------------------------
(* What x_printf finds in its buffer: vsnprintf cuts the text, but returns  *)
(* the length it would have had, and the loop reads so far: the NUL, and    *)
(* then whatever the stack holds.                                           *)
BufferSize == 128
Buffer(s, stack) ==
  IF Len(s) < BufferSize THEN s
  ELSE SubSeq(SubSeq(s, 1, BufferSize - 1) \o <<NUL>> \o stack, 1, Len(s))

x_printf(s, stack) == FlattenSeq([i \in 1 .. Len(s) |-> Put(Buffer(s, stack)[i])])

\* The one of the console's line: every char goes, 0xff too.
USART1_Transmit(c) == <<uint8(c)>>
x_printf_TX1(s, stack) ==
  FlattenSeq([i \in 1 .. Len(s) |->
    LET c == Buffer(s, stack)[i]
    IN  (IF c = LF THEN USART1_Transmit(CR) ELSE <<>>) \o USART1_Transmit(c)])

\* x_putchar returns its char: one that is negative ends x_puts.
x_puts(s) ==
  LET negative == SelectInSeq(s, LAMBDA c : c < 0)
      sent(part) == FlattenSeq([i \in DOMAIN part |-> Put(part[i])])
  IN  IF negative = 0 THEN sent(s) \o x_putchar(CR) \o x_putchar(LF)
      ELSE sent(SubSeq(s, 1, negative))
-----------------------------------------------------------------------------
(* Reading.  A byte is there from the poll number "at" on.                  *)
USART0_Receive(byte) == byte
USART0_Receive_tout(us, at, byte) ==
  IF us = 0 \/ at <= us THEN USART0_Receive(byte) ELSE EOF
x_getchar_tout(us, at, byte) ==
  IF us = 0 THEN USART0_Receive(byte) ELSE USART0_Receive_tout(us, at, byte)
x_getchar(at, byte) == x_getchar_tout(0, at, byte)
-----------------------------------------------------------------------------
(* h: the text goes from flash through a buffer of Chunk + 1 bytes; the     *)
(* pieces are C strings, and the last one gets the line end of x_puts.      *)
Chunk == 31
CString(bytes) ==
  LET end == SelectInSeq(bytes, LAMBDA c : c = NUL)
  IN  IF end = 0 THEN bytes ELSE SubSeq(bytes, 1, end - 1)

c_help(text, stack) ==
  LET bytes == Append(text, NUL)
      whole == Len(bytes) \div Chunk
      piece(i) == CString(SubSeq(bytes, (i - 1) * Chunk + 1, i * Chunk))
      rest == CString(SubSeq(bytes, whole * Chunk + 1, Len(bytes)))
  IN  FlattenSeq([i \in 1 .. whole |-> x_printf(piece(i), stack)]) \o x_puts(rest)

\* The parameters h shows: how many in <> and how many in [] (monitor.c:198-231).
Shows(names, mandatory, optional) ==
  [n \in names |-> [mandatory |-> mandatory, optional |-> optional]]
help_str ==
  Shows({"h", "xload", "mem", "sei", "cli", "nmi", "sts", "cont"}, 0, 0)
  @@ Shows({"r", "ri", "test", "reset", "brk"}, 0, 1)
  @@ Shows({"d", "di", "df", "de"}, 0, 2)
  @@ Shows({"lx", "bload", "int", "del"}, 1, 0)
  @@ Shows({"w", "wi", "sx"}, 2, 0)
  @@ Shows({"f", "eload", "esave", "esave2"}, 3, 0)
=============================================================================
