--------------------------- MODULE MCBiosBlocking ---------------------------
(* Drives A: and B:.  The contents of a record are never looked at, so they *)
(* are symmetric, but for Junk.                                             *)
EXTENDS BiosBlocking, TLC
A == {0}
AB == {0, 1}
Contents == Permutations(Data \ {Junk})
Succeeds == {TRUE}
AnyOutcome == BOOLEAN
=============================================================================
