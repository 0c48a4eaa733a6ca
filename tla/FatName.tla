------------------------------ MODULE FatName ------------------------------
(* How FatFs (ff.c) reads a path: the drive before a colon, and segments    *)
(* that become names of 8 and 3 bytes as a directory holds them.  The       *)
(* firmware has no long names, no current directory, one volume and code    *)
(* page 932, in which some characters take two bytes.  A path is a sequence *)
(* of bytes.                                                                *)
EXTENDS Integers, Sequences, SequencesExt

FF_VOLUMES == 1
Blank == 32
Colon == 58
Period == 46
Slashes == {47, 92}
Digits == 48 .. 57
Lower == 97 .. 122
Illegal == {42, 43, 44, 58, 59, 60, 61, 62, 91, 93, 124, 34, 63, 127}
DDEM == 229     \* the first byte of a deleted entry
RDDEM == 5      \* what stands for it in a name

\* The byte at i; a path ends with a NUL.
At(path, i) == IF i \in DOMAIN path THEN path[i] ELSE 0
\* A char of the AVR's compiler is signed.
Signed(b) == IF b > 127 THEN b - 256 ELSE b
IsTerminator(b) == b <= Blank

\* Code page 932: DbcTbl.
dbc_1st(b) == b \in (129 .. 159) \cup (224 .. 252)
dbc_2nd(b) == b \in (64 .. 126) \cup (128 .. 252)

(* get_ldnumber: the drive, -1 if there is no such one, and where the path  *)
(* goes on.                                                                 *)
get_ldnumber(path) ==
  LET colon == SelectInSeq(path, LAMBDA b : b = Colon \/ IsTerminator(b))
      vol == IF path[1] \in Digits /\ colon = 2 THEN path[1] - 48 ELSE FF_VOLUMES
  IN  CASE At(path, colon) # Colon                    -> [vol |-> 0, rest |-> path]
        [] At(path, colon) = Colon /\ vol < FF_VOLUMES ->
             [vol |-> vol, rest |-> SubSeq(path, colon + 1, Len(path))]
        [] OTHER                                      -> [vol |-> -1, rest |-> path]
-----------------------------------------------------------------------------
(* create_name, from si of the path on: i bytes of sfn are set, the field   *)
(* ends at ni, and c is the byte that ended the segment.                    *)
SkipSlashes(path, si) ==
  CHOOSE j \in si .. Len(path) + 1 :
    /\ At(path, j) \notin Slashes
    /\ \A k \in si .. j - 1 : At(path, k) \in Slashes

RECURSIVE Segment(_, _)
Segment(path, s) ==
  LET c == At(path, s.si)
      d == At(path, s.si + 1)
      upper == IF c \in Lower THEN c - 32 ELSE c
      bad == [s EXCEPT !.ok = FALSE]
  IN  IF IsTerminator(c) THEN [s EXCEPT !.c = c, !.si = @ + 1]
      ELSE IF c \in Slashes
        THEN [s EXCEPT !.c = c, !.si = SkipSlashes(path, @ + 1)]
      ELSE IF c = Period \/ s.i >= s.ni
        THEN IF s.ni = 11 \/ c # Period THEN bad
             ELSE Segment(path, [s EXCEPT !.si = @ + 1, !.i = 8, !.ni = 11])
      ELSE IF dbc_1st(c)
        THEN IF ~dbc_2nd(d) \/ s.i >= s.ni - 1 THEN bad
             ELSE Segment(path, [s EXCEPT !.si = @ + 2, !.i = @ + 2,
                                          !.sfn = ReplaceAt(ReplaceAt(@, s.i + 1, c), s.i + 2, d)])
      ELSE IF c \in Illegal THEN bad
      ELSE Segment(path, [s EXCEPT !.si = @ + 1, !.i = @ + 1,
                                   !.sfn = ReplaceAt(@, s.i + 1, upper)])

\* last: is it the path's last segment.  The byte that follows a separator is
\* compared as a char.
create_name(path, from) ==
  LET s == Segment(path, [si |-> from, i |-> 0, ni |-> 8, c |-> 0, ok |-> TRUE,
                          sfn |-> [k \in 1 .. 11 |-> Blank]])
  IN  [ok |-> s.ok /\ s.i > 0,
       sfn |-> IF s.sfn[1] = DDEM THEN ReplaceAt(s.sfn, 1, RDDEM) ELSE s.sfn,
       last |-> IsTerminator(s.c) \/ Signed(At(path, s.si)) <= Blank,
       next |-> s.si]

(* path_names: the names it looks for, one below the other, from the root; *)
(* they end before a segment that is none.                                  *)
RECURSIVE NamesFrom(_, _)
NamesFrom(path, from) ==
  LET n == create_name(path, from)
  IN  IF ~n.ok THEN <<"INVALID_NAME">>
      ELSE <<n.sfn>> \o (IF n.last THEN <<>> ELSE NamesFrom(path, n.next))

path_names(path) ==
  LET first == SkipSlashes(path, 1)
  IN  IF At(path, first) < Blank THEN <<>> ELSE NamesFrom(path, first)
-----------------------------------------------------------------------------
(* The reference for names without two-byte characters: a body of at most 8 *)
(* and an extension of at most 3 legal characters, upper case, padded.      *)
Padded(part, n) == [k \in 1 .. n |-> IF k \notin DOMAIN part THEN Blank
                                     ELSE IF part[k] \in Lower THEN part[k] - 32 ELSE part[k]]
EightThree(name) ==
  LET dot == SelectInSeq(name, LAMBDA b : b = Period)
      body == IF dot = 0 THEN name ELSE SubSeq(name, 1, dot - 1)
      ext == IF dot = 0 THEN <<>> ELSE SubSeq(name, dot + 1, Len(name))
  IN  [ok |-> /\ name # <<>> /\ Len(body) <= 8 /\ Len(ext) <= 3
              /\ ToSet(body \o ext) \cap (Illegal \cup {Period}) = {},
       sfn |-> Padded(body, 8) \o Padded(ext, 3)]
=============================================================================
