----------------------------- MODULE FatVolume -----------------------------
(***************************************************************************)
(* The volume under FatFs (fatfs/ff.c) as this firmware configures it: one *)
(* FAT32 volume, one sector window that the FAT, the directory and file    *)
(* data share (FF_FS_TINY), no long names, no locks.                       *)
(*                                                                         *)
(* A function of ff.c is an operator from a state s to a state: card, fs   *)
(* and fil are what the calls change, fp and dp the objects they work on,  *)
(* res and val what they return, trouble what goes wrong with the card     *)
(* during the call, masked whether it is made with interrupts off.         *)
(***************************************************************************)
EXTENDS Integers

CONSTANTS csize,      \* sectors in a cluster
          n_fatent,   \* entries in the FAT
          n_fats,     \* copies of the FAT
          EPS,        \* FAT entries in a sector
          EPD,        \* directory entries in a sector
          volbase,    \* the sector of the VBR; before it lies an MBR
          dirbase,    \* the first cluster of the root directory
          SS,         \* units in a sector: file positions and sizes count units
          Junk        \* a unit nobody has written

ASSUME VolumeAssumption ==
  /\ {csize, EPS, EPD, volbase, SS} \subseteq Nat \ {0}
  /\ n_fats \in 1 .. 2 /\ n_fatent \in 3 .. 900 /\ dirbase \in 2 .. n_fatent - 1

Ones == 999            \* 0xFFFFFFFF: a disk error, or not known
EOC == 998             \* 0x0FFFFFFF: the end of a chain
fatbase == volbase + 2
fsize == (n_fatent + EPS - 1) \div EPS
database == fatbase + n_fats * fsize
bcs == csize * SS      \* units in a cluster
NoSector == -1
NoName == -1           \* the entry behind the last one of a directory
Small(m, n) == IF m < n THEN m ELSE n

(* A file object that is not open.                                         *)
Closed == [open |-> FALSE, id |-> 0, sclust |-> 0, objsize |-> 0, err |-> "OK",
           sect |-> 0, fptr |-> 0, clust |-> 0, modified |-> FALSE,
           dir_sect |-> 0, dir_ptr |-> 0]
-----------------------------------------------------------------------------
(* The card.  An access fails when the card is not ready or its turn has   *)
(* come: then once, or from there on because the card was pulled.  A write *)
(* that fails may have reached the card.  STA_NOINIT is set by Timer2, so  *)
(* under a call with interrupts off the card is out and the flag says no.  *)
Quiet == [at |-> -1, pulled |-> FALSE, torn |-> FALSE]
Trouble(n) == {Quiet} \cup [at : 0 .. n, pulled : BOOLEAN, torn : BOOLEAN]

Met(s) == s.trouble # Quiet /\ s.trouble.at < 0
PulledMasked(s) == s.masked /\ s.trouble.pulled /\ Met(s)

Access(s) ==
  [s EXCEPT !.trouble.at = IF @ < 0 THEN @ ELSE @ - 1,
            !.noinit = @ \/ (s.trouble.at = 0 /\ s.trouble.pulled /\ ~s.masked),
            !.res = IF s.noinit \/ s.trouble.at = 0 \/ PulledMasked(s)
                    THEN "DISK_ERR" ELSE "OK"]

disk_write(s, sect, data) ==
  LET t == Access(s)
  IN IF t.res = "OK" \/ (~s.noinit /\ s.trouble.at = 0 /\ s.trouble.torn)
     THEN [t EXCEPT !.card[sect] = data] ELSE t

(* The wait for the card's power spins on Timer1, which an interrupt       *)
(* counts: with interrupts off the call never returns.                     *)
disk_initialize(s) ==
  IF s.masked THEN [s EXCEPT !.res = "NEVER"]
  ELSE IF s.trouble.at = 0
  THEN [Access(s) EXCEPT !.noinit = TRUE, !.res = "NOT_READY"]
  ELSE [Access(s) EXCEPT !.noinit = FALSE, !.res = "OK"]
-----------------------------------------------------------------------------
(* The window.  What it holds of the first FAT goes to the second as well. *)
sync_window(s) ==
  LET t == disk_write(s, s.fs.winsect, s.fs.win)
      clean == [t EXCEPT !.fs.wflag = FALSE]
      inFat == s.fs.winsect \in fatbase .. fatbase + fsize - 1
  IN IF ~s.fs.wflag THEN [s EXCEPT !.res = "OK"]
     ELSE IF t.res # "OK" THEN t
     ELSE IF inFat /\ n_fats = 2
          THEN [disk_write(clean, s.fs.winsect + fsize, s.fs.win) EXCEPT !.res = "OK"]
          ELSE clean

move_window(s, sect) ==
  LET flushed == sync_window(s)
      t == Access(flushed)
  IN IF sect = s.fs.winsect THEN [s EXCEPT !.res = "OK"]
     ELSE IF flushed.res # "OK" THEN flushed
     ELSE IF t.res = "OK" THEN [t EXCEPT !.fs.winsect = sect, !.fs.win = t.card[sect]]
     ELSE [t EXCEPT !.fs.winsect = NoSector]

(* FSINFO goes through the window too; nobody asks whether it arrived.     *)
sync_fs(s) ==
  LET t == sync_window(s)
      info == [kind |-> "fsinfo", free |-> s.fs.free_clst, next |-> s.fs.last_clst]
      filled == [t EXCEPT !.fs.win = info, !.fs.winsect = volbase + 1,
                          !.fs.fsi_dirty = FALSE]
  IN IF t.res # "OK" THEN t
     ELSE Access(IF s.fs.fsi_dirty /\ s.fs.fsi_known
                 THEN disk_write(filled, volbase + 1, info) ELSE t)
-----------------------------------------------------------------------------
(* The FAT.                                                                *)
clst2sect(clst) == IF clst \in 2 .. n_fatent - 1 THEN database + csize * (clst - 2) ELSE 0

get_fat(s, clst) ==
  LET t == move_window(s, fatbase + clst \div EPS)
  IN IF clst \notin 2 .. n_fatent - 1 THEN [s EXCEPT !.val = 1]
     ELSE [t EXCEPT !.val = IF t.res = "OK" THEN t.fs.win[clst % EPS] ELSE Ones]

put_fat(s, clst, val) ==
  LET t == move_window(s, fatbase + clst \div EPS)
  IN IF clst \notin 2 .. n_fatent - 1 THEN [s EXCEPT !.res = "INT_ERR"]
     ELSE IF t.res # "OK" THEN t
     ELSE [t EXCEPT !.fs.win[clst % EPS] = val, !.fs.wflag = TRUE]

(* The search of create_chain for a free cluster, around the FAT from scl. *)
RECURSIVE FindFree(_, _, _)
FindFree(s, scl, last) ==
  LET ncl == IF last + 1 >= n_fatent THEN 2 ELSE last + 1
      t == get_fat(s, ncl)
  IN IF last + 1 >= n_fatent /\ 2 > scl THEN [s EXCEPT !.val = 0]
     ELSE CASE t.val = 0 -> [t EXCEPT !.val = ncl]
            [] t.val \in {1, Ones} -> t
            [] t.val \notin {0, 1, Ones} /\ ncl = scl -> [t EXCEPT !.val = 0]
            [] OTHER -> FindFree(t, scl, ncl)

(* Where the new cluster comes from: the one after clst if it is free.     *)
FreeCluster(s, clst) ==
  LET near == IF clst + 1 >= n_fatent THEN 2 ELSE clst + 1
      probe == get_fat(s, near)
      top == IF s.fs.last_clst = 0 \/ s.fs.last_clst >= n_fatent THEN 1 ELSE s.fs.last_clst
      hint == IF s.fs.last_clst \in 2 .. n_fatent - 1 THEN s.fs.last_clst ELSE clst
  IN CASE clst = 0 -> FindFree(s, top, top)
       [] clst # 0 /\ probe.val = 0 -> [probe EXCEPT !.val = near]
       [] clst # 0 /\ probe.val \in {1, Ones} -> probe
       [] OTHER -> FindFree(probe, hint, hint)

(* Mutant: nobody asks whether the link to the new cluster was made.       *)
create_chain_Assumes(s, clst) ==
  LET link == IF clst = 0 THEN s ELSE get_fat(s, clst)
      free == FreeCluster(link, clst)
      marked == put_fat(free, free.val, EOC)
      linked == IF marked.res = "OK" /\ clst # 0 THEN put_fat(marked, clst, free.val)
                                                 ELSE marked
  IN IF clst # 0 /\ link.val < n_fatent THEN [link EXCEPT !.val = IF @ < 2 THEN 1 ELSE @]
     ELSE IF clst # 0 /\ link.val = Ones THEN link
     ELSE IF link.fs.free_clst = 0 THEN [link EXCEPT !.val = 0]
     ELSE IF free.val \in {0, 1, Ones} THEN free
     ELSE [linked EXCEPT !.val = free.val, !.fs.last_clst = free.val,
                         !.fs.free_clst = IF @ <= n_fatent - 2 THEN @ - 1 ELSE @,
                         !.fs.fsi_dirty = TRUE]

(* Follow the chain of clst, or stretch it by a cluster: 0 when none is    *)
(* free, 1 for an internal error, Ones for a disk error.                   *)
create_chain(s, clst) ==
  LET link == IF clst = 0 THEN s ELSE get_fat(s, clst)
      free == FreeCluster(link, clst)
      marked == put_fat(free, free.val, EOC)
      linked == IF marked.res = "OK" /\ clst # 0 THEN put_fat(marked, clst, free.val)
                                                 ELSE marked
  IN IF clst # 0 /\ link.val < n_fatent THEN [link EXCEPT !.val = IF @ < 2 THEN 1 ELSE @]
     ELSE IF clst # 0 /\ link.val = Ones THEN link
     ELSE IF link.fs.free_clst = 0 THEN [link EXCEPT !.val = 0]
     ELSE IF free.val \in {0, 1, Ones} THEN free
     ELSE IF linked.res = "OK"
          THEN [linked EXCEPT !.val = free.val, !.fs.last_clst = free.val,
                              !.fs.free_clst = IF @ <= n_fatent - 2 THEN @ - 1 ELSE @,
                              !.fs.fsi_dirty = TRUE]
          ELSE [linked EXCEPT !.val = IF linked.res = "DISK_ERR" THEN Ones ELSE 1]
-----------------------------------------------------------------------------
(* The root directory.  dp is an entry: its number, cluster and sector.    *)
dir_sdi(s) == [s EXCEPT !.dp = [dptr |-> 0, clust |-> dirbase, sect |-> clst2sect(dirbase)],
                        !.res = "OK"]

Entry(s) == s.fs.win[s.dp.dptr % EPD]

dir_next(s) ==
  LET ofs == s.dp.dptr + 1
      t == get_fat(s, s.dp.clust)
  IN IF ofs % EPD # 0 THEN [s EXCEPT !.dp.dptr = ofs, !.res = "OK"]
     ELSE IF (ofs \div EPD) % csize # 0
          THEN [s EXCEPT !.dp.dptr = ofs, !.dp.sect = @ + 1, !.res = "OK"]
     ELSE CASE t.val <= 1 -> [t EXCEPT !.res = "INT_ERR"]
            [] t.val = Ones -> [t EXCEPT !.res = "DISK_ERR"]
            [] t.val >= n_fatent /\ t.val # Ones -> [t EXCEPT !.dp.sect = 0, !.res = "NO_FILE"]
            [] OTHER -> [t EXCEPT !.dp = [dptr |-> ofs, clust |-> t.val,
                                          sect |-> clst2sect(t.val)], !.res = "OK"]

(* From the entry dp on; volume labels are not files.                      *)
RECURSIVE DirFindFrom(_, _)
DirFindFrom(s, name) ==
  LET t == move_window(s, s.dp.sect)
      next == dir_next(t)
  IN CASE t.res # "OK" -> t
       [] t.res = "OK" /\ Entry(t).name = NoName -> [t EXCEPT !.res = "NO_FILE"]
       [] t.res = "OK" /\ Entry(t).name = name /\ Entry(t).attr # "VOL" -> t
       [] OTHER -> IF next.res = "OK" THEN DirFindFrom(next, name) ELSE next

dir_find(s, name) == DirFindFrom(dir_sdi(s), name)

(* The images lie in the root directory, so the path has one segment.      *)
follow_path(s, name) == dir_find(s, name)
-----------------------------------------------------------------------------
(* Mounting.  check_fs returns what the sector is: 0 a FAT32 VBR, 2 a boot *)
(* sector of another kind, 3 none, 4 not readable.                         *)
check_fs(s, sect) ==
  LET t == move_window([s EXCEPT !.fs.wflag = FALSE, !.fs.winsect = NoSector], sect)
  IN [t EXCEPT !.val = IF t.res # "OK" THEN 4
                       ELSE CASE t.fs.win.kind = "vbr" -> 0
                              [] t.fs.win.kind = "mbr" -> 2
                              [] OTHER -> 3]

RECURSIVE FindPartition(_, _, _)
FindPartition(s, mbr_pt, i) ==
  LET t == IF mbr_pt[i] # 0 THEN check_fs(s, mbr_pt[i]) ELSE [s EXCEPT !.val = 3]
  IN IF t.val >= 2 /\ i < 4 THEN FindPartition(t, mbr_pt, i + 1) ELSE t

find_volume(s) ==
  LET t == check_fs(s, 0)
  IN IF t.val # 2 THEN t ELSE FindPartition(t, t.fs.win.part, 1)

(* The part of mount_volume that follows a VBR found: FSINFO is optional.  *)
LoadVolume(s) ==
  LET t == move_window(s, s.fs.winsect + 1)
      read == t.res = "OK"
      info == t.fs.win
  IN [t EXCEPT !.fs.fs_type = TRUE, !.fs.id = @ + 1,
               !.fs.fsi_known = read, !.fs.fsi_dirty = FALSE,
               !.fs.free_clst = IF read /\ info.kind = "fsinfo" THEN info.free ELSE Ones,
               !.fs.last_clst = IF read /\ info.kind = "fsinfo" THEN info.next ELSE Ones,
               !.res = "OK"]

mount_volume(s) ==
  LET started == disk_initialize([s EXCEPT !.fs.fs_type = FALSE])
      found == find_volume(started)
  IN IF s.fs.fs_type /\ ~s.noinit THEN [s EXCEPT !.res = "OK"]
     ELSE IF started.res # "OK" THEN started
     ELSE CASE found.val = 4 -> [found EXCEPT !.res = "DISK_ERR"]
            [] found.val \in {2, 3} -> [found EXCEPT !.res = "NO_FILESYSTEM"]
            [] OTHER -> LoadVolume(found)

NoVolume == [fs_type |-> FALSE, id |-> 0, win |-> [kind |-> "none"],
             winsect |-> NoSector, wflag |-> FALSE, free_clst |-> Ones,
             last_clst |-> Ones, fsi_known |-> FALSE, fsi_dirty |-> FALSE]

f_mount(s) ==
  LET unmounted == [s EXCEPT !.fs.fs_type = FALSE]
  IN mount_volume(unmounted)
=============================================================================
