------------------------------ MODULE FatFile ------------------------------
(***************************************************************************)
(* The file functions of FatFs that the emulated disk calls: files are     *)
(* opened for reading and writing, never created.  s.fp is the file        *)
(* object, s.buf the caller's buffer (tmpbuf, one sector), s.cnt the units *)
(* moved.                                                                  *)
(***************************************************************************)
EXTENDS FatVolume

validate(s) == [s EXCEPT !.res = IF /\ s.fp.open /\ s.fs.fs_type /\ s.fp.id = s.fs.id
                                    /\ ~s.noinit
                                 THEN "OK" ELSE "INVALID_OBJECT"]

(* Mutant: an error does not stick to the file.                            *)
ABORT_Forgets(s, err) == [s EXCEPT !.res = err]

(* An error sticks to the file object until it is opened again.            *)
ABORT(s, err) == [s EXCEPT !.fp.err = err, !.res = err]

(* What every access looks at first.                                       *)
Usable(s) == LET t == validate(s)
             IN IF t.res = "OK" THEN [t EXCEPT !.res = s.fp.err] ELSE t

f_open(s, name) ==
  LET mounted == mount_volume(s)
      t == follow_path(mounted, name)
      entry == Entry(t)
      failed == IF mounted.res # "OK" THEN mounted.res
                ELSE IF t.res # "OK" THEN t.res
                ELSE CASE entry.attr = "DIR" -> "NO_FILE"
                       [] entry.attr = "RDO" -> "DENIED"
                       [] OTHER -> "OK"
      u == IF mounted.res # "OK" THEN mounted ELSE t
  IN IF failed # "OK" THEN [u EXCEPT !.fp.open = FALSE, !.res = failed]
     ELSE [u EXCEPT !.fp = [Closed EXCEPT !.open = TRUE, !.id = u.fs.id,
                              !.sclust = entry.clust, !.objsize = entry.size,
                              !.dir_sect = u.fs.winsect, !.dir_ptr = u.dp.dptr % EPD],
                    !.res = "OK"]
-----------------------------------------------------------------------------
(* f_read, a sector or a part of one at a time.  At a sector boundary the  *)
(* cluster is followed; whole sectors go to the caller past the window,    *)
(* but for what the window has not written yet.                            *)
InSector(s) == s.fp.fptr % SS
SectorInCluster(s) == (s.fp.fptr \div SS) % csize

ReadCluster(s) ==
  IF SectorInCluster(s) # 0 THEN [s EXCEPT !.val = s.fp.clust]
  ELSE IF s.fp.fptr = 0 THEN [s EXCEPT !.val = s.fp.sclust]
  ELSE get_fat(s, s.fp.clust)

(* n units from position from of data lie in the buffer from cnt on.       *)
Copied(s, data, from, n) ==
  [s EXCEPT !.buf = [i \in DOMAIN @ |-> IF i \in s.cnt .. s.cnt + n - 1
                                         THEN data[from + i - s.cnt] ELSE @[i]],
            !.cnt = @ + n, !.fp.fptr = @ + n]

(* The sector at fptr is found and becomes the current one.                *)
AtSector(s) ==
  LET c == ReadCluster(s)
      sect == clst2sect(c.val) + SectorInCluster(s)
  IN IF InSector(s) # 0 THEN [s EXCEPT !.res = "OK"]
     ELSE IF c.val = Ones THEN ABORT(c, "DISK_ERR")
     ELSE IF clst2sect(c.val) = 0 THEN ABORT(c, "INT_ERR")
     ELSE [c EXCEPT !.fp.clust = c.val, !.val = sect, !.res = "OK"]

RECURSIVE ReadLoop(_, _)
ReadLoop(s, btr) ==
  LET t == AtSector(s)
      whole == InSector(s) = 0 /\ btr >= SS
      direct == Access(t)
      data == IF t.fs.wflag /\ t.fs.winsect = t.val THEN t.fs.win ELSE t.card[t.val]
      part == [t EXCEPT !.fp.sect = IF InSector(s) = 0 THEN t.val ELSE @]
      windowed == move_window(part, part.fp.sect)
      n == Small(SS - InSector(s), btr)
  IN IF btr = 0 THEN [s EXCEPT !.res = "OK"]
     ELSE IF t.res # "OK" THEN t
     ELSE IF whole
          THEN IF direct.res = "OK" THEN ReadLoop(Copied(direct, data, 0, SS), btr - SS)
                                    ELSE ABORT(direct, "DISK_ERR")
          ELSE IF windowed.res = "OK"
               THEN ReadLoop(Copied(windowed, windowed.fs.win, InSector(s), n), btr - n)
               ELSE ABORT(windowed, "DISK_ERR")

(* A read ends at the end of the file without an error.                    *)
f_read(s, btr) ==
  LET t == Usable([s EXCEPT !.cnt = 0])
  IN IF t.res # "OK" THEN t ELSE ReadLoop(t, Small(btr, t.fp.objsize - t.fp.fptr))
-----------------------------------------------------------------------------
(* f_write: the same walk, where the chain is stretched on the way.        *)
WriteCluster(s) ==
  IF SectorInCluster(s) # 0 THEN [s EXCEPT !.val = s.fp.clust]
  ELSE IF s.fp.fptr = 0 /\ s.fp.sclust # 0 THEN [s EXCEPT !.val = s.fp.sclust]
  ELSE create_chain(s, IF s.fp.fptr = 0 THEN 0 ELSE s.fp.clust)

(* The sector to write; val = 0 when the volume is full.  A dirty window   *)
(* over the file's last sector is written back before.                     *)
AtWriteSector(s) ==
  LET c == WriteCluster(s)
      taken == [c EXCEPT !.fp.clust = c.val,
                         !.fp.sclust = IF @ = 0 THEN c.val ELSE @]
      synced == IF taken.fs.winsect = taken.fp.sect THEN sync_window(taken)
                                                   ELSE [taken EXCEPT !.res = "OK"]
  IN IF InSector(s) # 0 THEN [s EXCEPT !.val = s.fp.sect, !.res = "OK"]
     ELSE CASE c.val = 0 -> [c EXCEPT !.res = "OK"]
            [] c.val = 1 -> ABORT(c, "INT_ERR")
            [] c.val = Ones -> ABORT(c, "DISK_ERR")
            [] c.val \notin {0, 1, Ones} /\ synced.res # "OK" -> ABORT(synced, "DISK_ERR")
            [] c.val \notin {0, 1, Ones} /\ synced.res = "OK" /\ clst2sect(c.val) = 0
                 -> ABORT(synced, "INT_ERR")
            [] OTHER -> [synced EXCEPT !.val = clst2sect(c.val) + SectorInCluster(s)]

Advanced(s, n) ==
  [s EXCEPT !.cnt = @ + n, !.fp.fptr = @ + n,
            !.fp.objsize = IF s.fp.fptr + n > @ THEN s.fp.fptr + n ELSE @]

RECURSIVE WriteLoop(_, _)
WriteLoop(s, btw) ==
  LET t == AtWriteSector(s)
      whole == InSector(s) = 0 /\ btw >= SS
      data == [i \in 0 .. SS - 1 |-> s.buf[s.cnt + i]]
      direct == disk_write(t, t.val, data)
      refilled == IF direct.fs.winsect = t.val
                  THEN [direct EXCEPT !.fs.win = data, !.fs.wflag = FALSE] ELSE direct
      growing == InSector(s) = 0 /\ s.fp.fptr >= s.fp.objsize
      edge == IF growing THEN sync_window(t) ELSE t
      placed == IF InSector(s) # 0 THEN edge
                ELSE [edge EXCEPT !.fp.sect = t.val,
                                  !.fs.winsect = IF growing THEN t.val ELSE @]
      windowed == move_window(placed, placed.fp.sect)
      n == Small(SS - InSector(s), btw)
      merged == [i \in 0 .. SS - 1 |->
                   IF i \in InSector(s) .. InSector(s) + n - 1
                   THEN s.buf[s.cnt + i - InSector(s)]
                   ELSE IF growing THEN Junk ELSE windowed.fs.win[i]]
  IN IF btw = 0 \/ (t.res = "OK" /\ t.val = 0)
     THEN [IF btw = 0 THEN s ELSE t EXCEPT !.fp.modified = TRUE, !.res = "OK"]
     ELSE IF t.res # "OK" THEN t
     ELSE IF whole
          THEN IF direct.res = "OK" THEN WriteLoop(Advanced(refilled, SS), btw - SS)
                                    ELSE ABORT(direct, "DISK_ERR")
          ELSE IF edge.res # "OK" THEN ABORT(edge, "DISK_ERR")
          ELSE IF windowed.res # "OK" THEN ABORT(windowed, "DISK_ERR")
          ELSE WriteLoop(Advanced([windowed EXCEPT !.fs.win = merged, !.fs.wflag = TRUE], n),
                         btw - n)

(* A full volume ends a write early without an error.                      *)
f_write(s, btw) ==
  LET t == Usable([s EXCEPT !.cnt = 0])
  IN IF t.res # "OK" THEN t ELSE WriteLoop(t, btw)
-----------------------------------------------------------------------------
(* f_lseek.  left is what remains to go from fptr, a cluster's start; the  *)
(* chain is stretched on the way, and a full volume ends the walk there.   *)
RECURSIVE SeekLoop(_, _, _)
SeekLoop(s, clst, left) ==
  LET t == create_chain([s EXCEPT !.fp.fptr = @ + bcs], clst)
      sect == IF left % SS = 0 THEN 0 ELSE clst2sect(clst) + left \div SS
  IN IF left <= bcs THEN [s EXCEPT !.fp.fptr = @ + left, !.val = sect, !.res = "OK"]
     ELSE CASE t.val = 0 -> [t EXCEPT !.val = 0, !.res = "OK"]
            [] t.val = Ones -> ABORT(t, "DISK_ERR")
            [] t.val = 1 -> ABORT(t, "INT_ERR")
            [] OTHER -> SeekLoop([t EXCEPT !.fp.clust = t.val], t.val, left - bcs)

(* Seeking back means walking from the first cluster.                      *)
SeekStart(s, ofs) ==
  LET ifptr == s.fp.fptr
      here == ifptr > 0 /\ (ofs - 1) \div bcs >= (ifptr - 1) \div bcs
      base == ((ifptr - 1) \div bcs) * bcs
      first == IF s.fp.sclust = 0 THEN create_chain([s EXCEPT !.fp.fptr = 0], 0)
               ELSE [s EXCEPT !.fp.fptr = 0, !.val = s.fp.sclust]
      at == [first EXCEPT !.fp.sclust = first.val, !.fp.clust = first.val]
  IN IF here THEN SeekLoop([s EXCEPT !.fp.fptr = base], s.fp.clust, ofs - base)
     ELSE CASE first.val = 1 -> ABORT(first, "INT_ERR")
            [] first.val = Ones -> ABORT(first, "DISK_ERR")
            [] first.val = 0 -> [at EXCEPT !.res = "OK"]
            [] OTHER -> SeekLoop(at, first.val, ofs)

f_lseek(s, ofs) ==
  LET t == Usable(s)
      u == IF ofs > 0 THEN SeekStart(t, ofs) ELSE [t EXCEPT !.fp.fptr = 0, !.val = 0]
      grown == IF u.fp.fptr > u.fp.objsize
               THEN [u EXCEPT !.fp.objsize = u.fp.fptr, !.fp.modified = TRUE] ELSE u
  IN IF t.res # "OK" THEN t
     ELSE IF u.res # "OK" THEN u
     ELSE IF grown.fp.fptr % SS # 0 THEN [grown EXCEPT !.fp.sect = u.val] ELSE grown
-----------------------------------------------------------------------------
(* f_sync writes size and first cluster of a changed file to its entry.    *)
f_sync(s) ==
  LET t == validate(s)
      moved == move_window(t, t.fp.dir_sect)
      entered == [moved EXCEPT !.fs.win[t.fp.dir_ptr].clust = t.fp.sclust,
                               !.fs.win[t.fp.dir_ptr].size = t.fp.objsize,
                               !.fs.wflag = TRUE]
  IN IF t.res # "OK" \/ ~t.fp.modified THEN t
     ELSE IF moved.res # "OK" THEN moved
     ELSE [sync_fs(entered) EXCEPT !.fp.modified = FALSE]

f_close(s) ==
  LET t == f_sync(s)
      u == validate(t)
  IN IF t.res = "OK" /\ u.res = "OK" THEN [u EXCEPT !.fp.open = FALSE]
     ELSE IF t.res # "OK" THEN t ELSE u
=============================================================================
