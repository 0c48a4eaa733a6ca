----------------------------- MODULE MCZ80ExtInt -----------------------------
(* Two device vectors, 0 (level 0, disk read) and 6 (level 3, CONIN).       *)
EXTENDS Z80ExtInt
MCVectors == {0, 6}
=============================================================================
