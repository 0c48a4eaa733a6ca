-------------------------- MODULE MCZ80ExtIntMonitor --------------------------
(* Vectors 0 (disk read) and 8 (the debugger's level 4).                    *)
EXTENDS Z80ExtIntMonitor
MCVectors == {0, 8}
=============================================================================
