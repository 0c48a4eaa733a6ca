------------------------------ MODULE Commands ------------------------------
(* From a line typed at the monitor to the calls its command makes          *)
(* (monitor.c, and the line editor of xconsoleio.c).  Numbers are unsigned  *)
(* words of the AVR: they wrap at N.                                        *)
EXTENDS ExtRam, IntelHex

CONSTANTS
  EepromSize,   \* 4096
  TestSize,     \* bytes c_test writes, 0x500
  TestMargin    \* 0x600

ASSUME EepromAssumption == EepromSize \in Nat

\* An unsigned int.
U(x) == x % N
-----------------------------------------------------------------------------
(* The line editor: a key is "enter", "bs", "eof", "other" (what is not     *)
(* taken: control codes, and "~" with what lies above it) or a character.   *)
Space == "space"
Edited(line, k, size) ==
  CASE k = "bs" -> IF line = <<>> THEN line ELSE Front(line)
    [] k = "other" -> line
    [] OTHER -> IF Len(line) < size THEN Append(line, k) ELSE line

x_gets_s(keys, size) ==
  LET upto == SelectInSeq(keys, LAMBDA k : k \in {"enter", "eof"}) - 1
  IN  FoldLeft(LAMBDA line, k : Edited(line, k, size), <<>>, SubSeq(keys, 1, upto))

MAX_TOKENS == 4
(* strtok: runs of characters between blanks; the ones past MAX_TOKENS are  *)
(* not looked at.                                                           *)
tokenizer(line) ==
  LET starts == {i \in DOMAIN line : line[i] # Space /\ (i = 1 \/ line[i - 1] = Space)}
      order == SetToSortSeq(starts, <)
      end(i) == CHOOSE j \in i .. Len(line) :
                  /\ \A k \in i .. j : line[k] # Space
                  /\ j = Len(line) \/ line[j + 1] = Space
      n == IF Len(order) < MAX_TOKENS THEN Len(order) ELSE MAX_TOKENS
  IN  [i \in 1 .. n |-> SubSeq(line, order[i], end(order[i]))]
-----------------------------------------------------------------------------
(* A token as it is read: its text when that is the name of a command, and  *)
(* the number get_uint finds in it, decimal or after "$" hexadecimal.       *)
None == -1
Name(s) == [name |-> s, num |-> None]
Num(n) == [name |-> "", num |-> n]

\* What a command returns and the calls it made: what, at an address, with a
\* value.  adr is where the commands with a static address go on.
Fails(e, adr) == [err |-> e, calls |-> <<>>, adr |-> adr]
Makes(calls, adr) == [err |-> "NO_ERROR", calls |-> calls, adr |-> adr]
Op(op, at, val) == [op |-> op, at |-> at, val |-> val]

par(t, i) == t[i + 1].num

get_uint(t, i) ==
  CASE i >= Len(t) -> "ERR_PARAM_MISS"
    [] i < Len(t) /\ par(t, i) = None -> "ERR_PARAM_VAL"
    [] OTHER -> "NO_ERROR"

\* The first k parameters are there and are numbers.
Required(t, k, adr, result) ==
  IF Len(t) < k + 1 THEN Fails("ERR_PARAM_MISS", adr)
  ELSE IF \E i \in 1 .. k : get_uint(t, i) # "NO_ERROR" THEN Fails("ERR_PARAM_VAL", adr)
  ELSE result
-----------------------------------------------------------------------------
(* d, di, df, de: rows of Block bytes, the last one as short as the length  *)
(* says; with 4 tokens the parameters are not looked at.                    *)
Rows(from, len) ==
  [k \in 1 .. (len + Block - 1) \div Block |->
     [adr |-> U(from + (k - 1) * Block),
      n |-> IF k <= len \div Block THEN Block ELSE len % Block]]

dump(t, adr) ==
  LET from == IF Len(t) \in {2, 3} THEN par(t, 1) ELSE adr[t[1].name]
      len == IF Len(t) = 3 THEN par(t, 2) ELSE Block
      rows == Rows(from, len)
  IN  IF \E i \in 1 .. Len(t) - 1 : Len(t) < 4 /\ get_uint(t, i) # "NO_ERROR"
        THEN Fails("ERR_PARAM_VAL", adr)
        ELSE Makes([k \in DOMAIN rows |-> Op("read", rows[k].adr, rows[k].n)],
                   [adr EXCEPT ![t[1].name] = U(from + Len(rows) * Block)])

(* r, ri *)
c_read_ram(t, adr) ==
  LET at == IF Len(t) > 1 THEN par(t, 1) ELSE adr[t[1].name]
  IN  IF Len(t) > 1 /\ get_uint(t, 1) # "NO_ERROR" THEN Fails("ERR_PARAM_VAL", adr)
      ELSE Makes(<<Op("read", at, 1)>>, [adr EXCEPT ![t[1].name] = U(at + 1)])

(* w, wi *)
c_write_ram(t, adr) ==
  Required(t, 2, adr,
    IF par(t, 2) >= Byte THEN Fails("ERR_PARAM_VAL", adr)
    ELSE Makes(<<Op("write", par(t, 1), par(t, 2))>>, adr))

\* No sum of two words is above the last word: a fill goes round.
c_fill_external_ram(t, adr) ==
  LET dat == par(t, 1)  at == par(t, 2)  size == par(t, 3)
  IN  Required(t, 3, adr,
        IF dat >= Byte \/ U(at + size) > N - 1 THEN Fails("ERR_PARAM_VAL", adr)
        ELSE Makes([i \in 1 .. size |-> Op("write", U(at + i - 1), dat)], adr))

\* The AVR's RAM is loaded by r_xmodem itself.
c_load_ihx_external_ram(t, adr) == Makes(<<Op("receive_ihx", 0, 0)>>, adr)
c_load_bin_external_ram(t, adr) ==
  Required(t, 1, adr, Makes(<<Op("receive_bin", par(t, 1), 0)>>, adr))
c_load_bin_internal_ram(t, adr) ==
  Required(t, 1, adr, Makes(<<Op("receive_own", par(t, 1), 0)>>, adr))

\* Whole packets of 128 bytes.
Packet == 128
c_save_bin_internal_ram(t, adr) ==
  Required(t, 2, adr,
    Makes(<<Op("send", par(t, 1), (par(t, 2) + Packet - 1) \div Packet)>>, adr))

\* esave, esave2, eload: at the EEPROM's side, and val from the memory's.
Between(op, eep, mem, size) == [op |-> op, at |-> eep, val |-> mem, size |-> size]

c_save_bin_eeprom(t, adr) ==
  Required(t, 3, adr,
    IF U(par(t, 1) + par(t, 3)) > EepromSize THEN Fails("ERR_PARAM_VAL", adr)
    ELSE Makes(<<Between("save", par(t, 1), par(t, 2), par(t, 3))>>, adr))

\* The source and the size go to words 0 and 2, where the boot looks for them.
c_save2_bin_eeprom(t, adr) ==
  LET dst == U(par(t, 1) + 4)
  IN  Required(t, 3, adr,
        IF U(dst + par(t, 3)) > EepromSize THEN Fails("ERR_PARAM_VAL", adr)
        ELSE Makes(<<Op("eeprom_word", 0, par(t, 2)), Op("eeprom_word", 2, par(t, 3)),
                     Between("save", dst, par(t, 2), par(t, 3))>>, adr))

c_load_eeprom_external_ram(t, adr) ==
  Required(t, 3, adr,
    IF U(par(t, 2) + par(t, 3)) > EepromSize THEN Fails("ERR_PARAM_VAL", adr)
    ELSE Makes(<<Between("load", par(t, 2), par(t, 1), par(t, 3))>>, adr))

c_z80_reset(t, adr) ==
  IF Len(t) > 1 /\ get_uint(t, 1) # "NO_ERROR" THEN Fails("ERR_PARAM_VAL", adr)
  ELSE Makes((IF Len(t) > 1 /\ par(t, 1) = 0 THEN <<Op("halt", 0, 0)>> ELSE <<>>)
             \o <<Op("reset", 0, 0)>>, adr)

c_z80_int(t, adr) == Required(t, 1, adr, Makes(<<Op("int", 0, par(t, 1) % Byte)>>, adr))

c_z80_break(t, adr) ==
  IF Len(t) < 2 THEN Makes(<<Op("list", 0, 0)>>, adr)
  ELSE Required(t, 1, adr, Makes(<<Op("add", par(t, 1), 0)>>, adr))
c_z80_delete(t, adr) == Required(t, 1, adr, Makes(<<Op("delete", par(t, 1), 0)>>, adr))
c_z80_continue(t, adr) == Makes(<<Op("continue", 0, 0)>>, adr)

\* The cells test writes: with the window, or from the address itself.
Tested(offset) ==
  LET win == offset < INTERNAL - TestMargin
  IN  {Cell(win, U((IF win THEN SHADOW ELSE 0) + offset + i)) : i \in 0 .. TestSize - 1}
c_test(t, adr) ==
  IF Len(t) > 1 /\ get_uint(t, 1) # "NO_ERROR" THEN Fails("ERR_PARAM_VAL", adr)
  ELSE Makes(<<Op("test", IF Len(t) > 1 THEN par(t, 1) ELSE 0, 0)>>, adr)

\* h, mem, nmi, sts, sei, cli: one call each, whatever follows.
c_plain(t, adr) == Makes(<<Op(t[1].name, 0, 0)>>, adr)

exec_command(t, adr) ==
  LET is(names) == t # <<>> /\ t[1].name \in names
  IN  CASE t = <<>> -> Makes(<<>>, adr)
        [] is({"d", "di", "df", "de"}) -> dump(t, adr)
        [] is({"r", "ri"})   -> c_read_ram(t, adr)
        [] is({"w", "wi"})   -> c_write_ram(t, adr)
        [] is({"f"})         -> c_fill_external_ram(t, adr)
        [] is({"xload"})     -> c_load_ihx_external_ram(t, adr)
        [] is({"bload"})     -> c_load_bin_external_ram(t, adr)
        [] is({"lx"})        -> c_load_bin_internal_ram(t, adr)
        [] is({"sx"})        -> c_save_bin_internal_ram(t, adr)
        [] is({"esave"})     -> c_save_bin_eeprom(t, adr)
        [] is({"esave2"})    -> c_save2_bin_eeprom(t, adr)
        [] is({"eload"})     -> c_load_eeprom_external_ram(t, adr)
        [] is({"reset"})     -> c_z80_reset(t, adr)
        [] is({"int"})       -> c_z80_int(t, adr)
        [] is({"brk"})       -> c_z80_break(t, adr)
        [] is({"del"})       -> c_z80_delete(t, adr)
        [] is({"cont"})      -> c_z80_continue(t, adr)
        [] is({"test"})      -> c_test(t, adr)
        [] is({"h", "mem", "nmi", "sts", "sei", "cli"}) -> c_plain(t, adr)
        [] OTHER             -> Fails("ERR_COMMAND", adr)

(* What the Z80 finds where it starts: "JP adr", or for "reset 0" a HALT.   *)
(* Both are written with the window open but without the bus request that   *)
(* every other access makes.                                                *)
JP == 195
HALT == 118
Z80_RESET_GO(mem, adr) == store(mem, Window(0, 0, 3), <<JP, adr % Byte, adr \div Byte>>)
Z80_HALT(mem) == store(mem, Window(0, 0, 1), <<HALT>>)

(* The boot with the CP/M switch on: what esave2 left goes back to memory,  *)
(* if it is not too long, and the Z80 starts there in any case.  An EEPROM  *)
(* word is a cell here.                                                     *)
boot_load(mem, eep) ==
  IF U(4 + eep[2]) > EepromSize THEN mem
  ELSE load_eeprom_extmem(mem, eep, eep[0], 4, eep[2])
boot(mem, eep) == Z80_RESET_GO(boot_load(mem, eep), eep[0])
=============================================================================
