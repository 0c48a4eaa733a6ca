--------------------------- MODULE MCDiskTransfer ---------------------------
(* A card with an MBR and 7 clusters of one sector, a sector of two units,  *)
(* and two images: B: of four units in two clusters apart, A: of two units. *)
EXTENDS DiskTransfer, FatCreate, FatGeometry, FatName

TwoDrives == {0, 1}
Bits == {0, 1}
OneBuffer == {<<1, 0, 1, 1>>}
SomeRequests == {[pos |-> 1, len |-> 2], [pos |-> 4, len |-> 2]}

InitialFat == <<EOC, EOC, EOC, 5, EOC, EOC, 0, 0, 0, 0, 0, 0>>
Label == [name |-> 7, attr |-> "VOL", clust |-> 0, size |-> 0]
File(d, c, n) == [name |-> d, attr |-> "", clust |-> c, size |-> n]
Root == <<Label, File(1, 4, 2), File(0, 3, 4), EndMark>>
Used == {3, 4, 5}

OnCard(fat, root) ==
  [sect \in 0 .. database + csize * (n_fatent - 2) - 1 |->
     CASE sect = 0 -> [kind |-> "mbr", part |-> <<0, volbase, 0, 0>>]
       [] sect = volbase -> [kind |-> "vbr"]
       [] sect = volbase + 1 ->
            [kind |-> "fsinfo", next |-> 5,
             free |-> Cardinality({c \in 1 .. n_fatent : fat[c] = 0})]
       [] sect \in fatbase .. database - 1 ->
            [i \in 0 .. EPS - 1 |-> fat[((sect - fatbase) % fsize) * EPS + i + 1]]
       [] sect \in database .. database + csize - 1 ->
            [i \in 0 .. EPD - 1 |-> root[(sect - database) * EPD + i + 1]]
       [] OTHER -> [i \in 0 .. SS - 1 |->
                      IF 2 + (sect - database) \div csize \in Used THEN 0 ELSE Junk]]
Card == OnCard(InitialFat, Root)
-----------------------------------------------------------------------------
(* Cards to create files on: with a free entry, with a deleted one, with a *)
(* full directory, and with a full directory on a full volume.             *)
FullRoot == <<Label, File(1, 4, 2), File(0, 3, 4), [EndMark EXCEPT !.name = 6, !.attr = "RDO"]>>
FullFat == [InitialFat EXCEPT ![7] = EOC, ![8] = EOC, ![9] = EOC]
Cards == {Card, OnCard(InitialFat, [FullRoot EXCEPT ![4] = [EndMark EXCEPT !.name = Deleted]]),
          OnCard(InitialFat, FullRoot), OnCard(FullFat, FullRoot)}
Modes == {m \cup {"WRITE"} : m \in {{}, {"CREATE_NEW"}, {"CREATE_ALWAYS"}, {"OPEN_ALWAYS"},
                                   {"OPEN_ALWAYS", "SEEKEND"}}}
Mounted(onCard, t) ==
  LET s == PowerOn(onCard, Quiet).s
  IN [card |-> s.card, noinit |-> FALSE, fs |-> s.fs, fp |-> Closed, dp |-> s.dp,
      buf |-> [i \in 0 .. SS - 1 |-> 1], cnt |-> 0, val |-> 0, res |-> "OK", trouble |-> t,
      masked |-> FALSE]
RootOf(onCard) == onCard[clst2sect(dirbase)]
Exists(onCard, d) == \E i \in DOMAIN RootOf(onCard) : RootOf(onCard)[i].name = d
Intact(before, after, d) ==
  /\ EntryOf(after, d) = EntryOf(before, d)
  /\ \A u \in 0 .. CardSize(before, d) - 1 :
       /\ ClusterOf(after, d, u \div bcs) \notin FreeOn(after)
       /\ UnitOf(after, d, u) = UnitOf(before, d, u)

\* Opened without a create mode a file is what f_open makes of it.
ASSUME OpensTheSame == \A onCard \in Cards, d \in {0, 1, 5, 6}, t \in Trouble(5) :
  f_open_mode(Mounted(onCard, t), d, {"WRITE"}) = f_open(Mounted(onCard, t), d)

\* Whatever goes wrong while a file is created or emptied, the other files
\* stay as they were, and the file is as it was or empty.
ASSUME CreateHarmsNobody ==
  \A onCard \in Cards, name \in {0, 1, 5}, m \in Modes, t \in Trouble(12) :
    LET after == f_open_mode(Mounted(onCard, t), name, m).card
    IN \A d \in Drives :
         \/ Intact(onCard, after, d)
         \/ d = name /\ "CREATE_ALWAYS" \in m /\ EntryOf(after, d) = File(d, 0, 0)

\* With nothing going wrong f_open answers by the file's existence and the
\* room there is, and what is then written and closed lies behind what the
\* mode has left; the free clusters on the card are counted right.
ASSUME CreateOpens ==
  \A onCard \in Cards, name \in {0, 1, 5, 6}, m \in Modes :
    LET s == f_open_mode(Mounted(onCard, Quiet), name, m)
        old == Exists(onCard, name)
        room == \E i \in 0 .. EPD - 1 : RootOf(onCard)[i].name \in {Deleted, NoName}
        written == f_write(IF "SEEKEND" \in m \/ ~old THEN s ELSE f_lseek(s, 0), SS)
        closed == f_close(written)
        kept == IF ~old \/ "CREATE_ALWAYS" \in m THEN 0 ELSE EntryOf(onCard, name).size
        size == IF "SEEKEND" \in m THEN kept + SS ELSE IF kept > SS THEN kept ELSE SS
    IN /\ s.res = CASE name = 6 /\ old -> "DENIED"
                     [] old /\ name # 6 /\ "CREATE_NEW" \in m -> "EXIST"
                     [] ~old /\ m = {"WRITE"} -> "NO_FILE"
                     [] ~old /\ m # {"WRITE"} /\ ~room /\ FreeOn(onCard) = {} -> "DENIED"
                     [] OTHER -> "OK"
       /\ s.res = "OK" => f_open(Mounted(f_close(s).card, Quiet), name).res = "OK"
       /\ s.res = "OK" =>
            /\ written.res = "OK"
            /\ written.cnt = SS \/ FreeOn(onCard) = {}
            /\ closed.res = "OK"
            /\ written.cnt = SS =>
                 f_open(Mounted(closed.card, Quiet), name).fp.objsize = size
            /\ closed.card[volbase + 1].free = Cardinality(FreeOn(closed.card))
-----------------------------------------------------------------------------
(* Paths.  An image's is "DISK%02d.IMG" (em_diskio.c:76).                  *)
ImageName(d) == <<68, 73, 83, 75, 48 + (d \div 10), 48 + (d % 10), 46, 73, 77, 71>>
A == 65

\* The images have names of their own, and each is looked for by its name in
\* the root directory.
ASSUME ImagesAreApart == \A d \in 0 .. 4 :
  /\ path_names(get_ldnumber(ImageName(d)).rest) = <<EightThree(ImageName(d)).sfn>>
  /\ \A e \in 0 .. 4 : e # d => EightThree(ImageName(d)).sfn # EightThree(ImageName(e)).sfn

\* A single name is taken or refused as the 8.3 reference says, at every length
\* of body and extension and with one odd character anywhere.
Body(n, c) == [k \in 1 .. n |-> c]
Plain == {Body(n, 97) \o dot : n \in 0 .. 9, dot \in {<<46>> \o Body(e, 98) : e \in 0 .. 4} \cup {<<>>}}
ASSUME NamesAgree ==
  \A name \in Plain, c \in {43, 46, 49, 59, 95, 97, 127} : \A k \in 0 .. Len(name) :
    LET odd == IF k = 0 THEN name ELSE ReplaceAt(name, k, c)
        n == create_name(odd, 1)
        ref == EightThree(odd)
    IN  n.ok = ref.ok /\ (n.ok => n.sfn = ref.sfn /\ n.last)

\* A separator's code as the second byte of a character separates nothing, nor
\* does it fit where one byte is left.
ASSUME SecondByteIsData == \A n \in 0 .. 7, lead \in {129, 159, 224, 252} :
  LET path == Body(n, A) \o <<lead, 92>>
  IN  IF n < 7 THEN path_names(path) = <<Padded(
                        IF n = 0 /\ lead = DDEM THEN <<RDDEM, 92>> ELSE path, 11)>>
      ELSE path_names(path) = <<"INVALID_NAME">>

\* Behind a separator such a character ends the path: the directory is opened
\* in the file's place (ff.c:3040 compares it as a char).
ASSUME SegmentIsLost ==
  /\ path_names(<<A, 47, 66>>) = <<Padded(<<A>>, 11), Padded(<<66>>, 11)>>
  /\ path_names(<<A, 47, 131, 66>>) = <<Padded(<<A>>, 11)>>

\* "0:" is the only drive.
Paths == UNION {[1 .. n -> {32, 48, 49, Colon, A}] : n \in 0 .. 3}
ASSUME OneDrive == \A path \in Paths :
  LET g == get_ldnumber(path)
      i == SelectInSeq(path, LAMBDA b : b \in {32, Colon})
  IN  IF i = 0 \/ path[i] = 32 THEN g = [vol |-> 0, rest |-> path]
      ELSE IF i = 2 /\ path[1] = 48 THEN g = [vol |-> 0, rest |-> SubSeq(path, 3, Len(path))]
      ELSE g.vol = -1
-----------------------------------------------------------------------------
(* Boot sectors: volumes with numbers of clusters around each limit, with  *)
(* a FAT that just fits, one sector less, one more, and a rest of a cluster.*)
Bpb(n, extra, rest, c, fats, rsvd, root, long) ==
  LET size == extra + ((FatBytes(IF Kind(n) = 0 THEN 32 ELSE Kind(n), n + 2) + 511) \div 512)
      total == rsvd + fats * size + (root \div 16) + c * n + rest
      short == ~long /\ total < 65536
  IN  [BytsPerSec |-> 512, NumFATs |-> fats, SecPerClus |-> c, RsvdSecCnt |-> rsvd,
       RootEntCnt |-> root, FATSz16 |-> IF long THEN 0 ELSE size, FATSz32 |-> size,
       TotSec16 |-> IF short THEN total ELSE 0, TotSec32 |-> total,
       RootClus32 |-> 2, FSVer32 |-> 0, FSInfo32 |-> 1]

\* A volume is mounted if its FAT holds all of its clusters and its root
\* directory is of its kind, and then its parts lie apart from each other.
ASSUME AcceptedIsSound ==
  \A n \in {0, 1, 2, 339, 4084, 4085, 4086, 65524, 65525, 65526, 100000}, extra \in -1 .. 1,
     rest \in {0, 3}, c \in {4, 64}, fats \in 1 .. 2, rsvd \in {1, 32}, root \in {0, 512} :
    LET b == Bpb(n, extra, rest, c, fats, rsvd, root, root = 0)
    IN  /\ Accepted(b) = (n > 0 /\ extra >= 0 /\ (root = 0) = (Kind(n) = 32))
        /\ Accepted(b) => /\ Sound(b, 63)
                          /\ Geometry(b, 63).n_fatent = n + 2
\* Sizes that no FAT volume has are refused.
ASSUME OddSizesRefused ==
  LET b == Bpb(100000, 0, 0, 8, 2, 32, 0, TRUE)
  IN  /\ Accepted(b)
      /\ \A c \in 0 .. 255 : Accepted([b EXCEPT !.SecPerClus = c]) => c \in {8, 16, 32, 64, 128}
      /\ \A n \in 0 .. 255 : Accepted([b EXCEPT !.NumFATs = n]) => n \in {1, 2}
      /\ ~Accepted([b EXCEPT !.RsvdSecCnt = 0]) /\ ~Accepted([b EXCEPT !.TotSec32 = 40])
      /\ ~Accepted([b EXCEPT !.BytsPerSec = 1024]) /\ ~Accepted([b EXCEPT !.FSVer32 = 1])

\* The sector of FSINFO is the one behind the boot sector, also on a volume
\* where that is the first one of the FAT.
ASSUME FsinfoOverFat ==
  LET b == Bpb(100000, 0, 0, 8, 2, 1, 0, TRUE)
  IN  Accepted(b) /\ KeepsFsinfo(b) /\ Geometry(b, 63).fatbase = 63 + 1

\* Numbers are stored so that they are loaded again, the low byte first.
Words == {0, 1, 255, 256, 4660, 65535}
ASSUME StoreThenLoad ==
  /\ \A lo, hi \in Words : ld_dword(st_dword(<<lo, hi>>)) = <<lo, hi>>
  /\ st_dword(<<4660, 1>>) = <<52, 18, 1, 0>>
=============================================================================
