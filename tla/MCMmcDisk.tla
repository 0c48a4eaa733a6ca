------------------------------ MODULE MCMmcDisk ------------------------------
(* The SD card driver with the registers of sample cards.                   *)
EXTENDS MmcDisk, CardInfo

\* The two packets whose checksum a card looks at have the right one.
ASSUME PacketsChecked ==
  /\ Packet(0, <<0, 0, 0, 0>>)[6] = Crc7(SubSeq(Packet(0, <<0, 0, 0, 0>>), 1, 5))
  /\ Packet(8, <<0, 0, 1, 170>>)[6] = Crc7(SubSeq(Packet(8, <<0, 0, 1, 170>>), 1, 5))

\* A response is found however late among the ten, and none is an error; the
\* byte after CMD12 is never taken for one.
ASSUME ResponseFound ==
  \A n \in {0, 12, 17}, late \in 0 .. 11, r \in {0, 1, 5} :
    LET stuff == IF n = 12 THEN <<0>> ELSE <<>>
        bus == stuff \o [i \in 1 .. 12 |-> IF i = late + 1 THEN r ELSE Idle]
    IN  Response(n, bus) = IF late < 10 THEN r ELSE Idle

\* Blocks of the lengths asked for arrive whole; another token is an error.
ASSUME BlocksArrive ==
  \A btr \in {4, 16, 64}, late \in 0 .. 2, token \in {254, 8} :
    LET data == [i \in 1 .. btr |-> 200 + (i % 56)]
        bus == [i \in 1 .. late |-> Idle] \o <<token>> \o data \o <<1, 2>>
    IN  BlockOf(bus, btr) = IF token = 254 THEN data ELSE <<>>

\* The card hears the block it would send; it refuses by its response only.
ASSUME BlocksSent ==
  LET data == [i \in 1 .. 16 |-> i]
  IN  /\ BlockOf(SentBlock(data, 254), 16) = data
      /\ SentBlock(data, 253) = <<253>>
      /\ \A resp \in 0 .. 255 : Taken(254, resp) = (resp \in {5 + 32 * k : k \in 0 .. 7})

\* Sizes in sectors are those the registers' layout gives.
Csd2(size) == RegisterOf({Fd(127, 126, 1), Fd(69, 48, size), Fd(83, 80, 9), Fd(25, 22, 9)})
Csd1(size, mult, len, sector, wlen) ==
  RegisterOf({Fd(73, 62, size), Fd(49, 47, mult), Fd(83, 80, len),
              Fd(45, 39, sector), Fd(25, 22, wlen)})
CsdMMC(group, mult, protect) ==
  RegisterOf({Fd(127, 126, 2), Fd(46, 42, group), Fd(41, 37, mult), Fd(36, 32, protect)})
ASSUME SizesRight ==
  /\ \A size \in {0, 1, 255, 256, 8191, 65535, 65536, 1000000} :
       SectorCount(Csd2(size)) = (size + 1) * 1024
  /\ \A size \in {0, 1, 3, 4, 1023, 1024, 4095}, mult \in 0 .. 7, len \in 9 .. 11 :
       SectorCount(Csd1(size, mult, len, 31, len)) = (size + 1) * 2 ^ (mult + 2 + len - 9)
  /\ \A sector \in 0 .. 127, wlen \in 9 .. 11 :
       BlockSize1(Csd1(100, 3, 9, sector, wlen)) = (sector + 1) * 2 ^ (wlen - 9)
  /\ \A au \in 1 .. 9 : BlockSize2(RegisterOf({Fd(47, 44, au)})) = 16 * 2 ^ au

\* Of an MMC's erase group the upper bits of the multiplier are taken from the
\* neighbouring field (mmc_avr_spi.c:531); nothing asks for it.
ASSUME GroupSize == \A group, mult, protect \in {0, 1, 7, 8, 31} :
  BlockSizeMMC(CsdMMC(group, mult, protect))
    = (group + 1) * (((protect % 4) * 8) + (mult % 8) + 1)

\* A card that is not ready is asked nothing, and one that is powered off is
\* not ready; an error leaves nothing in the buffer, and no command but that
\* one changes the driver.
Commands == {"GET_SECTOR_COUNT", "GET_BLOCK_SIZE", "MMC_GET_TYPE", "MMC_GET_CSD", "MMC_GET_CID",
             "MMC_GET_OCR", "MMC_GET_SDSTAT", "CTRL_POWER_OFF", "CTRL_TRIM"}
Sent == {"CMD9", "CMD10", "CMD55", "CMD58", "ACMD13"}
Full(n) == [c \in Sent |-> IF c = "CMD9" THEN Csd2(7) ELSE [i \in 1 .. n |-> 32]]
ASSUME IoctlAnswers ==
  \A s \in [noinit : BOOLEAN, CardType : {"SD2", "SD1", "MMC3"}], c \in Commands,
     r1 \in {[d \in Sent |-> r] : r \in {0, 5}}, reg \in {Full(n) : n \in {4, 64}} :
    LET t == mmc_disk_ioctl(s, c, [r1 |-> r1, reg |-> reg])
    IN  /\ s.noinit => t = [s |-> s, ret |-> [res |-> "NOTRDY", buff |-> <<>>]]
        /\ c # "CTRL_POWER_OFF" => t.s = s
        /\ c = "CTRL_POWER_OFF" => t.s.noinit
        /\ t.ret.res # "OK" => t.ret.buff = <<>>
        /\ ~s.noinit /\ c = "GET_SECTOR_COUNT" =>
             t.ret = IF r1["CMD9"] = 0 THEN [res |-> "OK", buff |-> <<8 * 1024>>] ELSE Failed
        /\ ~s.noinit /\ c = "MMC_GET_SDSTAT" =>
             (t.ret.res = "OK") = (r1["ACMD13"] = 0 /\ Len(reg["ACMD13"]) = 64)
=============================================================================
