---------------------------- MODULE DiskTransfer ----------------------------
(***************************************************************************)
(* What Timer2 does for a request of the emulated disk, down to the        *)
(* sectors of the card: em_disk_read and em_disk_write of em_diskio.c move *)
(* any number of units at any position through tmpbuf, one sector, with    *)
(* read-modify-write at both ends.  EmDisk has the states of a request and *)
(* what may come in between; here a request is one step, in which the card *)
(* may fail, be pulled, or lose power at any of its accesses.  SELDSK is   *)
(* served by INT1, with interrupts off, and may never return.              *)
(***************************************************************************)
EXTENDS FatVolume, Sequences, FiniteSets

CONSTANTS Drives,       \* the image files: 0 .. MAX_FILES - 1
          Formatted,    \* the card as it was prepared
          Units,        \* contents of a unit
          Buffers,      \* what the RAM of the Z80 may hold at the buffer
          Requests,     \* positions and lengths asked for: records pos, len
          NULL,         \* no drive is selected
          MaxUnit,      \* TLC's bound: the last unit looked at
          MaxAccess,    \* TLC's bound: the last access of a call that goes wrong
          MaxTroubles,  \* TLC's bound for the calls that go wrong
          Safely        \* are requests kept to what MayAsk allows

CONSTANTS file_open(_, _), file_close(_), file_read(_, _), file_write(_, _),
          file_lseek(_, _), file_sync(_), file_mount(_)   \* FatFs: those of FatFile

VARIABLES card,         \* the sectors of the card
          noinit,       \* STA_NOINIT of the driver
          fs,           \* file_system
          fd,           \* per drive: the file object, did the last calls succeed,
                        \* has its name been set
          cfd,          \* the selected drive
          content,      \* per drive and unit: what a program may expect there
          stuck,        \* INT1 spins for ever in the card's driver
          troubles      \* the calls that went wrong

vars == <<card, noinit, fs, fd, cfd, content, stuck, troubles>>

(* A call begins: tmpbuf holds what an earlier call left.                  *)
Call(d, t, ram) ==
  [card |-> card, noinit |-> noinit, fs |-> fs, fp |-> fd[d].fil,
   dp |-> [dptr |-> 0, clust |-> 0, sect |-> 0], buf |-> [i \in 0 .. SS - 1 |-> Junk],
   ram |-> ram, cnt |-> 0, val |-> 0, res |-> "OK", trouble |-> t, masked |-> FALSE]

(* File positions are 32 bits wide; what is left of them here.             *)
FilePositions == 4096
-----------------------------------------------------------------------------
(* n units of the Z80's RAM, from number from on, go into tmpbuf at at.    *)
Modified(s, at, from, n) ==
  [s EXCEPT !.buf = [i \in DOMAIN @ |-> IF i \in at .. at + n - 1
                                         THEN s.ram[from + i - at + 1] ELSE @[i]]]

(* A sector that is written in part: read, rewound, modified, written.     *)
ReadAndRewind(s) ==
  LET read == file_read(s, SS)
  IN IF read.res # "OK" THEN read
     ELSE file_lseek(read, (read.fp.fptr - SS) % FilePositions)

WriteModified(s, at, from, n) ==
  IF s.res # "OK" THEN s ELSE file_write(Modified(s, at, from, n), SS)

RECURSIVE WriteSectors(_, _, _)
WriteSectors(s, from, n) ==
  LET t == file_write(Modified(s, 0, from, SS), SS)
  IN IF n = 0 \/ s.res # "OK" THEN s ELSE WriteSectors(t, from + SS, n - 1)

(* Mutant: the sync between head and tail is left out, and the one after.  *)
Synced_Not(s) == s

(* f_sync, whose result is dropped.                                        *)
Synced(s) == [file_sync(s) EXCEPT !.res = s.res]

(* The file is moved only if it does not stand there already.              *)
Sought(s, pos) == IF s.fp.fptr # pos THEN file_lseek(s, pos) ELSE s

em_disk_write(s, position, length) ==
  LET offset == position % SS
      plen == IF offset = 0 THEN 0 ELSE Small(length, SS - offset)
      n == (length - plen) \div SS
      tail == (length - plen) % SS
      sought == Sought(s, position - offset)
      head == IF offset > 0 /\ sought.res = "OK"
              THEN WriteModified(ReadAndRewind(sought), offset, 0, plen) ELSE sought
      body == WriteSectors(head, plen, n)
      synced == IF offset > 0 \/ n > 0 THEN Synced(body) ELSE body
  IN IF body.res # "OK" THEN body
     ELSE IF tail = 0 THEN synced
     ELSE LET back == ReadAndRewind(synced)
              last == WriteModified(back, 0, plen + n * SS, tail)
          IN IF back.res = "OK" THEN Synced(last) ELSE last

(* What f_read leaves in tmpbuf goes to the RAM, however much it read.     *)
Delivered(s, from, n) ==
  [s EXCEPT !.ram = [i \in DOMAIN @ |-> IF i - 1 \in from .. from + n - 1
                                         THEN s.buf[i - 1 - from] ELSE @[i]]]

RECURSIVE ReadSectors(_, _, _)
ReadSectors(s, from, length) ==
  LET n == Small(SS, length - from)
      t == file_read(s, n)
  IN IF n = 0 \/ s.res # "OK" THEN s
     ELSE IF t.res = "OK" THEN ReadSectors(Delivered(t, from, n), from + n, length)
     ELSE t

em_disk_read(s, position, length) == ReadSectors(Sought(s, position), 0, length)
-----------------------------------------------------------------------------
(* How a call ends: with what it changed.                                  *)
Returns(s, d, well) ==
  /\ card' = s.card /\ noinit' = (s.noinit \/ PulledMasked(s)) /\ fs' = s.fs
  /\ fd' = [fd EXCEPT ![d].fil = s.fp, ![d].well = well]

(* The images are opened one after the other, and get their names there.   *)
RECURSIVE OpenAll(_, _, _)
OpenAll(s, fds, todo) ==
  IF todo = {} THEN [s |-> s, fd |-> fds]
  ELSE LET d == CHOOSE k \in todo : \A j \in todo : j <= k
           t == file_open([s EXCEPT !.fp = Closed], d)
       IN OpenAll(t, [fds EXCEPT ![d] = [fil |-> t.fp, well |-> t.res = "OK", named |-> TRUE]],
                  todo \ {d})

(* init_em_diskio at power-on, over the card as it is then.  Without a     *)
(* volume no drive is selected and no file has a name.                     *)
PowerOn(onCard, t) ==
  LET s == [card |-> onCard, noinit |-> TRUE, fs |-> NoVolume, fp |-> Closed,
            dp |-> [dptr |-> 0, clust |-> 0, sect |-> 0], val |-> 0, res |-> "OK",
            trouble |-> t, masked |-> FALSE]
      zero == [d \in Drives |-> [fil |-> Closed, well |-> TRUE, named |-> FALSE]]
      mounted == file_mount(disk_initialize(s))
  IN IF mounted.res = "OK" THEN OpenAll(mounted, zero, Drives) ELSE [s |-> mounted, fd |-> zero]

init_em_diskio(onCard, t) ==
  LET on == PowerOn(onCard, t)
  IN /\ card' = on.s.card /\ noinit' = on.s.noinit /\ fs' = on.s.fs /\ fd' = on.fd
     /\ cfd' = IF on.s.fs.fs_type THEN 0 ELSE NULL

(* Mutant: the file is opened again, its error stays.                      *)
Reopened_KeepsError(d, t) ==
  [file_open([Call(d, t, <<>>) EXCEPT !.masked = TRUE], d) EXCEPT !.fp.err = fd[d].fil.err]

(* What SELDSK does, in INT1, to a drive about which something failed.     *)
(* Without its name the file is not found.                                 *)
Reopened(d, t) ==
  file_open(file_close([Call(d, t, <<>>) EXCEPT !.masked = TRUE]),
            IF fd[d].named THEN d ELSE NoName)

(* It never returns when it comes to start the card again, and may not     *)
(* when the card stops answering: the time-outs are counted by Timer2.     *)
OUT_0A_DSK_SelectDisk(d, t) ==
  LET s == IF fd[d].well THEN Call(d, t, <<>>) ELSE Reopened(d, t)
  IN /\ Returns(s, d, fd[d].well \/ s.res = "OK") /\ cfd' = d /\ UNCHANGED content
     /\ \/ stuck' = (s.res = "NEVER")
        \/ PulledMasked(s) /\ stuck' = TRUE
-----------------------------------------------------------------------------
(* The card as a computer that mounts it would see it.                     *)
FatOf(onCard, c) == onCard[fatbase + c \div EPS][c % EPS]
EntryOf(onCard, d) ==
  LET sects == clst2sect(dirbase) .. clst2sect(dirbase) + csize - 1
      at == CHOOSE p \in sects \X (0 .. EPD - 1) :
              onCard[p[1]][p[2]].name = d /\ onCard[p[1]][p[2]].attr = ""
  IN onCard[at[1]][at[2]]
CardSize(onCard, d) == EntryOf(onCard, d).size
NumClusters(onCard, d) == (CardSize(onCard, d) + bcs - 1) \div bcs
RECURSIVE ClusterOf(_, _, _)
ClusterOf(onCard, d, k) == IF k = 0 THEN EntryOf(onCard, d).clust
                           ELSE FatOf(onCard, ClusterOf(onCard, d, k - 1))
UnitOf(onCard, d, u) ==
  onCard[clst2sect(ClusterOf(onCard, d, u \div bcs)) + (u % bcs) \div SS][u % SS]
FreeOn(onCard) == {c \in 2 .. n_fatent - 1 : FatOf(onCard, c) = 0}

NoPromise == Units \cup {Junk}

(* What a program may expect after a write: what it wrote, if the call     *)
(* returned success; otherwise what was there as well.  What lies behind   *)
(* the end of the image is promised by a write during which nothing failed.*)
Expected(d, q, ram, ok, t) ==
  content' = [content EXCEPT ![d] = [u \in DOMAIN @ |->
    IF u \notin q.pos .. q.pos + q.len - 1 THEN @[u]
    ELSE IF ok /\ (u < CardSize(card, d) \/ t = Quiet) THEN {ram[u - q.pos + 1]}
    ELSE IF u < CardSize(card, d) THEN @[u] \cup {ram[u - q.pos + 1]}
    ELSE NoPromise]]

(* Requests that stay inside the image; whole sectors may lengthen it,     *)
(* even when they are only read, while the volume has room.                *)
MayAsk(q) ==
  \/ ~Safely
  \/ q.pos + q.len <= fd[cfd].fil.objsize
  \/ q.pos % SS = 0 /\ q.len % SS = 0 /\ Cardinality(FreeOn(card)) >= 2

Write(q, ram, t) ==
  /\ cfd # NULL /\ MayAsk(q)
  /\ LET s == em_disk_write(Call(cfd, t, ram), q.pos, q.len)
     IN Returns(s, cfd, s.res = "OK") /\ Expected(cfd, q, ram, s.res = "OK", t)
  /\ UNCHANGED <<cfd, stuck>>

Read(q, t) ==
  /\ cfd # NULL /\ MayAsk(q)
  /\ LET s == em_disk_read(Call(cfd, t, [i \in 1 .. q.len |-> Junk]), q.pos, q.len)
     IN Returns(s, cfd, s.res = "OK")
  /\ UNCHANGED <<cfd, content, stuck>>

(* Power fails at an access of a write; then everything starts again.      *)
PowerCut(q, ram, t) ==
  /\ cfd # NULL /\ MayAsk(q)
  /\ Expected(cfd, q, ram, FALSE, t) /\ UNCHANGED stuck
  /\ init_em_diskio(em_disk_write(Call(cfd, t, ram), q.pos, q.len).card, Quiet)

(* An AVR that is stuck is switched off and on.                            *)
PowerCycle == /\ stuck /\ stuck' = FALSE
              /\ init_em_diskio(card, Quiet)
              /\ UNCHANGED <<content, troubles>>

Init == LET on == PowerOn(Formatted, Quiet)
        IN /\ card = on.s.card /\ noinit = on.s.noinit /\ fs = on.s.fs /\ fd = on.fd
           /\ cfd = 0 /\ stuck = FALSE /\ troubles = 0
           /\ content = [d \in Drives |-> [u \in 0 .. MaxUnit |->
                           IF u < CardSize(card, d) THEN {UnitOf(card, d, u)} ELSE NoPromise]]

Handler(t) ==
  /\ ~stuck
  /\ IF t = Quiet THEN UNCHANGED troubles
     ELSE troubles < MaxTroubles /\ troubles' = troubles + 1
  /\ \/ \E q \in Requests, ram \in Buffers : Write(q, ram, t)
     \/ \E q \in Requests : Read(q, t)
     \/ \E d \in Drives : OUT_0A_DSK_SelectDisk(d, t)
     \/ \E q \in Requests, ram \in Buffers : t.pulled /\ PowerCut(q, ram, t)

Next == (\E t \in Trouble(MaxAccess) : Handler(t)) \/ PowerCycle
Spec == Init /\ [][Next]_vars
-----------------------------------------------------------------------------
(* The chains of the images on the card are sound at every moment: long    *)
(* enough for the file's size, marked as used, free of loops, and disjoint *)
(* from each other and from the directory.                                 *)
Chain(d) == {ClusterOf(card, d, k) : k \in 0 .. NumClusters(card, d) - 1}
ChainsSound ==
  /\ \A d \in Drives : /\ Cardinality(Chain(d)) = NumClusters(card, d)
                       /\ Chain(d) \subseteq (2 .. n_fatent - 1) \ {dirbase}
                       /\ Chain(d) \cap FreeOn(card) = {}
  /\ \A c, d \in Drives : c # d => Chain(c) \cap Chain(d) = {}

(* What a write promised lies on the card, whatever is still in memory.    *)
PromisesKept == \A d \in Drives, u \in 0 .. MaxUnit : content[d][u] # NoPromise =>
  u < CardSize(card, d) /\ UnitOf(card, d, u) \in content[d][u]

(* A read that succeeds, with whatever going wrong on the way, returns     *)
(* what may be expected.  (Torn or not, a write that fails ends the read.) *)
ReadsTrue == \A q \in Requests, d \in Drives, t \in Trouble(MaxAccess) :
  q.pos + q.len <= fd[d].fil.objsize /\ ~t.torn =>
    LET s == em_disk_read(Call(d, t, [i \in 1 .. q.len |-> Junk]), q.pos, q.len)
    IN s.res = "OK" => \A i \in 1 .. q.len : s.ram[i] \in content[d][q.pos + i - 1]

(* A drive about which something failed works again once it is selected    *)
(* and the card answers, if its file has its name and the card was not out *)
(* meanwhile: starting a card again is what INT1 never returns from.       *)
SelectRecovers == \A d \in Drives : ~fd[d].well /\ fd[d].named /\ ~noinit =>
  LET s == Reopened(d, Quiet)
  IN s.res = "OK" /\ file_read(s, SS).res = "OK"
=============================================================================
