----------------------------- MODULE FatCreate -----------------------------
(* The other half of f_open (fatfs/ff.c): files that are created, emptied   *)
(* or opened at their end.  It is part of the program, but the firmware     *)
(* opens its images with FA_READ|FA_WRITE only.  A free directory entry is  *)
(* one behind the last or a deleted one; times of creation are left out.    *)
EXTENDS FatFile

Deleted == -2
EndMark == [name |-> NoName, attr |-> "", clust |-> 0, size |-> 0]

(* The chain of clst becomes free.  What comes before it stays as it is:    *)
(* pclst is 0 wherever this is called.                                      *)
RECURSIVE remove_chain(_, _)
remove_chain(s, clst) ==
  LET t == get_fat(s, clst)
      freed == put_fat(t, clst, 0)
      counted == IF freed.fs.free_clst < n_fatent - 2
                 THEN [freed EXCEPT !.fs.free_clst = @ + 1, !.fs.fsi_dirty = TRUE] ELSE freed
  IN IF clst \notin 2 .. n_fatent - 1 THEN [s EXCEPT !.res = "INT_ERR"]
     ELSE CASE t.val = 0 -> [t EXCEPT !.res = "OK"]
            [] t.val = 1 -> [t EXCEPT !.res = "INT_ERR"]
            [] t.val = Ones -> [t EXCEPT !.res = "DISK_ERR"]
            [] t.val \notin {0, 1, Ones} /\ freed.res # "OK" -> freed
            [] OTHER -> IF t.val < n_fatent THEN remove_chain(counted, t.val) ELSE counted
-----------------------------------------------------------------------------
(* A new cluster of the directory is filled with zeros through the window.  *)
RECURSIVE ZeroSectors(_, _, _)
ZeroSectors(s, sect, n) ==
  LET t == disk_write(s, sect, s.fs.win)
  IN IF n = 0 \/ s.res # "OK" THEN s ELSE ZeroSectors(t, sect + 1, n - 1)

dir_clear(s, clst) ==
  LET t == sync_window(s)
      sect == clst2sect(clst)
      zeros == [i \in 0 .. EPD - 1 |-> EndMark]
  IN IF t.res # "OK" THEN t
     ELSE ZeroSectors([t EXCEPT !.fs.winsect = sect, !.fs.win = zeros], sect, csize)

\* dir_next with stretch set.
dir_next_stretch(s) ==
  LET t == dir_next(s)
      c == create_chain(t, s.dp.clust)
      cleared == dir_clear(c, c.val)
  IN IF t.res # "NO_FILE" THEN t
     ELSE CASE c.val = 0 -> [c EXCEPT !.res = "DENIED"]
            [] c.val = 1 -> [c EXCEPT !.res = "INT_ERR"]
            [] c.val = Ones -> [c EXCEPT !.res = "DISK_ERR"]
            [] c.val \notin {0, 1, Ones} /\ cleared.res # "OK" -> [cleared EXCEPT !.res = "DISK_ERR"]
            [] OTHER -> [cleared EXCEPT !.dp = [dptr |-> s.dp.dptr + 1, clust |-> c.val,
                                                sect |-> clst2sect(c.val)]]

RECURSIVE FreeEntryFrom(_)
FreeEntryFrom(s) ==
  LET t == move_window(s, s.dp.sect)
      next == dir_next_stretch(t)
  IN IF t.res # "OK" \/ Entry(t).name \in {Deleted, NoName} THEN t
     ELSE IF next.res = "OK" THEN FreeEntryFrom(next) ELSE next

\* Files take one entry: there are no long names.
dir_alloc(s) == FreeEntryFrom(dir_sdi(s))

dir_register(s, name) ==
  LET t == dir_alloc(s)
      u == move_window(t, t.dp.sect)
  IN IF t.res # "OK" THEN t
     ELSE IF u.res # "OK" THEN u
     ELSE [u EXCEPT !.fs.win[u.dp.dptr % EPD] = [EndMark EXCEPT !.name = name],
                    !.fs.wflag = TRUE]
-----------------------------------------------------------------------------
(* The entry is reset in the window, then its clusters are given back.      *)
Emptied(s) ==
  LET cl == Entry(s).clust
      reset == [s EXCEPT !.fs.win[s.dp.dptr % EPD] =
                            [EndMark EXCEPT !.name = Entry(s).name],
                         !.fs.wflag = TRUE]
      freed == remove_chain(reset, cl)
      back == move_window(freed, s.fs.winsect)
  IN IF cl = 0 THEN reset
     ELSE IF freed.res = "OK" THEN [back EXCEPT !.fs.last_clst = cl - 1] ELSE freed

\* The end of the file: the chain is followed from its first cluster.
RECURSIVE FollowToEnd(_, _, _)
FollowToEnd(s, clst, ofs) ==
  LET t == get_fat(s, clst)
      sect == clst2sect(clst) + ofs \div SS
  IN IF ofs > bcs
     THEN CASE t.val <= 1 -> [t EXCEPT !.res = "INT_ERR"]
            [] t.val = Ones -> [t EXCEPT !.res = "DISK_ERR"]
            [] OTHER -> FollowToEnd(t, t.val, ofs - bcs)
     ELSE IF ofs % SS = 0 THEN [s EXCEPT !.fp.clust = clst, !.res = "OK"]
     ELSE IF clst2sect(clst) = 0 THEN [s EXCEPT !.res = "INT_ERR"]
     ELSE [s EXCEPT !.fp.clust = clst, !.fp.sect = sect, !.res = "OK"]

SoughtEnd(s) ==
  IF s.fp.objsize = 0 THEN s
  ELSE FollowToEnd([s EXCEPT !.fp.fptr = s.fp.objsize], s.fp.sclust, s.fp.objsize)

(* f_open with a mode: a subset of WRITE, CREATE_NEW, CREATE_ALWAYS,        *)
(* OPEN_ALWAYS and SEEKEND; FA_OPEN_APPEND is the last two.                 *)
Creating == {"CREATE_NEW", "CREATE_ALWAYS", "OPEN_ALWAYS"}

Found(s, name, mode) ==
  LET t == follow_path(s, name)
      attr == Entry(t).attr
      exists == CASE attr \in {"RDO", "DIR"} -> [t EXCEPT !.res = "DENIED"]
                  [] attr \notin {"RDO", "DIR"} /\ "CREATE_NEW" \in mode -> [t EXCEPT !.res = "EXIST"]
                  [] OTHER -> t
      made == IF t.res = "OK" THEN exists
              ELSE IF t.res = "NO_FILE" THEN dir_register(t, name) ELSE t
      empty == t.res # "OK" \/ "CREATE_ALWAYS" \in mode
  IN IF mode \cap Creating # {}
     THEN IF made.res = "OK" /\ empty
          THEN [Emptied(made) EXCEPT !.fp.modified = TRUE] ELSE made
     ELSE IF t.res # "OK" THEN t
     ELSE CASE attr = "DIR" -> [t EXCEPT !.res = "NO_FILE"]
            [] attr = "RDO" /\ "WRITE" \in mode -> [t EXCEPT !.res = "DENIED"]
            [] OTHER -> t

f_open_mode(s, name, mode) ==
  LET mounted == mount_volume([s EXCEPT !.fp.modified = FALSE])
      t == IF mounted.res = "OK" THEN Found(mounted, name, mode) ELSE mounted
      opened == [t EXCEPT !.fp = [Closed EXCEPT !.open = TRUE, !.id = t.fs.id,
                                    !.sclust = Entry(t).clust, !.objsize = Entry(t).size,
                                    !.modified = t.fp.modified,
                                    !.dir_sect = t.fs.winsect, !.dir_ptr = t.dp.dptr % EPD]]
      ended == IF "SEEKEND" \in mode THEN SoughtEnd(opened) ELSE opened
  IN IF t.res # "OK" THEN [t EXCEPT !.fp.open = FALSE]
     ELSE [ended EXCEPT !.fp.open = ended.res = "OK"]
=============================================================================
