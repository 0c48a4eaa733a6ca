---------------------------- MODULE FatGeometry ----------------------------
(* How FatFs (ff.c) finds the parts of a volume from the numbers in its     *)
(* boot sector, and how it loads and stores numbers there.  SS, csize and   *)
(* the like mean the same as in FatVolume; here they come from the sector.  *)
(* Sums stay below 2^31.                                                    *)
EXTENDS Integers, Sequences

SectorSize == 512
SZDIRE == 32
MAX_FAT12 == 4085
MAX_FAT16 == 65525
MAX_FAT32 == 268435445

\* Little-endian numbers; a long one is two words, the low one first.
ld_word(bytes) == bytes[2] * 256 + bytes[1]
ld_dword(bytes) == <<ld_word(SubSeq(bytes, 1, 2)), ld_word(SubSeq(bytes, 3, 4))>>
st_word(val) == <<val % 256, val \div 256>>
st_dword(val) == st_word(val[1]) \o st_word(val[2])

Kind(nclst) == CASE nclst <= MAX_FAT12                           -> 12
                 [] MAX_FAT12 < nclst /\ nclst <= MAX_FAT16      -> 16
                 [] MAX_FAT16 < nclst /\ nclst <= MAX_FAT32      -> 32
                 [] OTHER                                        -> 0

\* The bytes of a FAT with n entries.
FatBytes(kind, n) == CASE kind = 32 -> n * 4
                       [] kind = 16 -> n * 2
                       [] kind = 12 -> ((n * 3) \div 2) + (n % 2)

(* The part of mount_volume between the volume found at bsect and FSINFO.   *)
Geometry(b, bsect) ==
  LET fsize == IF b.FATSz16 = 0 THEN b.FATSz32 ELSE b.FATSz16
      tsect == IF b.TotSec16 = 0 THEN b.TotSec32 ELSE b.TotSec16
      fasize == fsize * b.NumFATs
      sysect == b.RsvdSecCnt + fasize + b.RootEntCnt \div (SectorSize \div SZDIRE)
      nclst == (tsect - sysect) \div b.SecPerClus
      kind == Kind(nclst)
  IN  [n_fatent |-> nclst + 2, fsize |-> fsize, n_fats |-> b.NumFATs,
       csize |-> b.SecPerClus, kind |-> kind, tsect |-> tsect,
       volbase |-> bsect, fatbase |-> bsect + b.RsvdSecCnt, database |-> bsect + sysect,
       dirbase |-> IF kind = 32 THEN b.RootClus32 ELSE bsect + b.RsvdSecCnt + fasize]

Accepted(b) ==
  /\ b.BytsPerSec = SectorSize
  /\ b.NumFATs \in {1, 2}
  /\ b.SecPerClus \in {1, 2, 4, 8, 16, 32, 64, 128}
  /\ b.RootEntCnt % (SectorSize \div SZDIRE) = 0
  /\ b.RsvdSecCnt # 0
  /\ LET g == Geometry(b, 0)
     IN  /\ g.tsect >= g.database
         /\ g.n_fatent - 2 # 0 /\ g.kind # 0
         /\ IF g.kind = 32 THEN b.FSVer32 = 0 /\ b.RootEntCnt = 0 ELSE b.RootEntCnt # 0
         /\ g.fsize >= (FatBytes(g.kind, g.n_fatent) + SectorSize - 1) \div SectorSize

\* May sync_fs write FSINFO behind the boot sector.
KeepsFsinfo(b) == Geometry(b, 0).kind = 32 /\ b.FSInfo32 = 1
-----------------------------------------------------------------------------
(* What FatVolume relies on, stated from the layout of a FAT volume: the    *)
(* FAT, the root directory of a FAT16 volume and the data follow each other *)
(* without overlap, the FAT holds an entry for every cluster and the last   *)
(* cluster lies in the volume.                                              *)
LastByteOf(kind, c) == CASE kind = 32 -> 4 * c + 3
                         [] kind = 16 -> 2 * c + 1
                         [] kind = 12 -> c + (c \div 2) + 1
Sound(b, bsect) ==
  LET g == Geometry(b, bsect)
      last == g.n_fatent - 1
  IN  /\ g.volbase < g.fatbase
      /\ g.fatbase + g.n_fats * g.fsize + b.RootEntCnt \div 16 = g.database
      /\ LastByteOf(g.kind, last) < g.fsize * SectorSize
      /\ g.database + g.csize * (last - 1) <= bsect + g.tsect
      /\ bsect + g.tsect < g.database + g.csize * last
=============================================================================
