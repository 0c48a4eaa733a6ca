------------------------------ MODULE CardInfo ------------------------------
(* The bytes of the SD card driver (fatfs/mmc_avr_spi.c): command packets,  *)
(* responses and data blocks, and mmc_disk_ioctl, which computes the card's *)
(* size from its registers.  MmcDisk has the driver's waiting and its       *)
(* errors; here nothing is late.  bus is what the card sends, one byte for  *)
(* each byte exchanged.                                                     *)
EXTENDS Integers, Sequences, SequencesExt

Idle == 255

\* A 32-bit argument is its bytes, the high one first.
Packet(cmd, arg) ==
  <<64 + cmd>> \o arg \o <<CASE cmd = 0 -> 149 [] cmd = 8 -> 135 [] OTHER -> 1>>

\* The first byte of ten without the top bit; a stuff byte follows CMD12.
Response(cmd, bus) ==
  LET heard == IF cmd = 12 THEN Tail(bus) ELSE bus
      i == SelectInSeq(SubSeq(heard, 1, 10), LAMBDA b : b < 128)
  IN  heard[IF i = 0 THEN 10 ELSE i]

\* Bytes move in pairs until cnt, an unsigned int, is used up.
RECURSIVE rcvr_spi_multi(_, _)
rcvr_spi_multi(bus, cnt) ==
  LET left == (cnt - 2) % 65536
  IN  SubSeq(bus, 1, 2) \o (IF left = 0 THEN <<>>
                            ELSE rcvr_spi_multi(SubSeq(bus, 3, Len(bus)), left))

\* What precedes the token is idle; the CRC behind the data is dropped.
BlockOf(bus, btr) ==
  LET i == SelectInSeq(bus, LAMBDA b : b # Idle)
  IN  IF i # 0 /\ bus[i] = 254 THEN rcvr_spi_multi(SubSeq(bus, i + 1, Len(bus)), btr) ELSE <<>>

\* What xmit_datablock sends, and whether the card took it.
SentBlock(data, token) == IF token = 253 THEN <<token>> ELSE <<token>> \o data \o <<Idle, Idle>>
Taken(token, resp) == token = 253 \/ resp % 32 = 5
-----------------------------------------------------------------------------
(* Fields of the CSD, which is 16 bytes: csd[0] in the source is csd[1].    *)
Byte(csd, i) == csd[i + 1]

SectorCount(csd) ==
  LET v2 == Byte(csd, 9) + Byte(csd, 8) * 256 + (Byte(csd, 7) % 64) * 65536 + 1
      n == (Byte(csd, 5) % 16) + (Byte(csd, 10) \div 128) + (Byte(csd, 9) % 4) * 2 + 2
      v1 == (Byte(csd, 8) \div 64) + Byte(csd, 7) * 4 + (Byte(csd, 6) % 4) * 1024 + 1
  IN  IF Byte(csd, 0) \div 64 = 1 THEN v2 * 1024 ELSE v1 * 2 ^ (n - 9)

\* Erase blocks, in sectors: from the SD status of a version 2 card, or the CSD.
BlockSize2(status) == 16 * 2 ^ (Byte(status, 10) \div 16)
BlockSize1(csd) ==
  ((Byte(csd, 10) % 64) * 2 + (Byte(csd, 11) \div 128) + 1) * 2 ^ ((Byte(csd, 13) \div 64) - 1)
BlockSizeMMC(csd) ==
  (((Byte(csd, 10) \div 4) % 32) + 1) * ((Byte(csd, 11) % 4) * 8 + (Byte(csd, 11) \div 32) + 1)

(* mmc_disk_ioctl.  card: its responses to commands, and the registers it   *)
(* then sends, <<>> if it sends none.                                       *)
Failed == [res |-> "ERROR", buff |-> <<>>]
Answered(card, c, n) ==
  /\ card.r1[c] = 0 /\ (c = "ACMD13" => card.r1["CMD55"] <= 1)
  /\ Len(card.reg[c]) >= n

mmc_disk_ioctl(s, cmd, card) ==
  LET Got(c, n, buff) == IF Answered(card, c, n) THEN [res |-> "OK", buff |-> buff] ELSE Failed
      reg(c, n) == SubSeq(card.reg[c], 1, n)
      ret == CASE cmd = "GET_SECTOR_COUNT" -> Got("CMD9", 16, <<SectorCount(card.reg["CMD9"])>>)
               [] cmd = "GET_BLOCK_SIZE" ->
                    CASE s.CardType = "SD2" -> Got("ACMD13", 16, <<BlockSize2(card.reg["ACMD13"])>>)
                      [] s.CardType = "SD1" -> Got("CMD9", 16, <<BlockSize1(card.reg["CMD9"])>>)
                      [] OTHER -> Got("CMD9", 16, <<BlockSizeMMC(card.reg["CMD9"])>>)
               [] cmd = "MMC_GET_TYPE" -> [res |-> "OK", buff |-> <<s.CardType>>]
               [] cmd = "MMC_GET_CSD" -> Got("CMD9", 16, reg("CMD9", 16))
               [] cmd = "MMC_GET_CID" -> Got("CMD10", 16, reg("CMD10", 16))
               [] cmd = "MMC_GET_OCR" -> Got("CMD58", 4, reg("CMD58", 4))
               [] cmd = "MMC_GET_SDSTAT" -> Got("ACMD13", 64, reg("ACMD13", 64))
               [] cmd = "CTRL_POWER_OFF" -> [res |-> "OK", buff |-> <<>>]
               [] OTHER -> [res |-> "PARERR", buff |-> <<>>]
  IN  IF s.noinit THEN [s |-> s, ret |-> [res |-> "NOTRDY", buff |-> <<>>]]
      ELSE [s |-> IF cmd = "CTRL_POWER_OFF" THEN [s EXCEPT !.noinit = TRUE] ELSE s, ret |-> ret]
-----------------------------------------------------------------------------
(* References, from the layout of the card's registers and packets.         *)
BitOf(v, i) == (v \div 2 ^ i) % 2

\* A register of 128 bits, bit 127 first, from fields [hi, lo, val].
RegisterOf(fields) ==
  LET bit(i) == LET f == {x \in fields : x.lo <= i /\ i <= x.hi}
                IN  IF f = {} THEN 0 ELSE LET x == CHOOSE y \in f : TRUE IN BitOf(x.val, i - x.lo)
  IN  [k \in 1 .. 16 |-> LET base == 128 - 8 * k
                         IN  FoldLeft(LAMBDA acc, j : 2 * acc + bit(base + 8 - j), 0,
                                      [j \in 1 .. 8 |-> j])]
Fd(hi, lo, val) == [hi |-> hi, lo |-> lo, val |-> val]

\* CRC7 of a packet's first five bytes, and the stop bit.
Crc7(bytes) ==
  LET bits == FlattenSeq([k \in DOMAIN bytes |-> [j \in 1 .. 8 |-> BitOf(bytes[k], 8 - j)]])
      step(crc, b) == LET shifted == (2 * crc) % 128
                      IN  IF crc \div 64 = b THEN shifted \* else xor with 9; bit 0 is clear
                          ELSE (IF BitOf(shifted, 3) = 1 THEN shifted - 8 ELSE shifted + 8) + 1
  IN  2 * FoldLeft(step, 0, bits) + 1
=============================================================================
