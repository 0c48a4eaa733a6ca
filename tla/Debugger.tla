------------------------------ MODULE Debugger ------------------------------
(* The breakpoint table of em_debugger.c: NumBP slots, the ones in use      *)
(* first and in the order of their addresses, for a free slot has the       *)
(* highest address.                                                         *)
EXTENDS Integers

CONSTANTS
  NumBP,    \* NUM_OF_BP
  Top       \* 0xffff, the address of a free slot

ASSUME NumBPAssumption == NumBP \in Nat \ {0}

Slots == 1 .. NumBP
FreeSlot == [in_use |-> FALSE, address |-> Top, opcode |-> 0]
init_em_debugger == [i \in Slots |-> FreeSlot]

Holds(t, i, p) == t[i].in_use /\ t[i].address = p

\* Slot numbers from 1; 0 is "none".
First(P(_)) == IF \E i \in Slots : P(i)
                 THEN CHOOSE i \in Slots : P(i) /\ \A j \in 1 .. i - 1 : ~P(j)
                 ELSE 0

(* The loop ends before the last slot. *)
FindBreakPoint(t, p) == First(LAMBDA i : i < NumBP /\ Holds(t, i, p))

\* dbg_AddBreakPoint's loop stops at the address or at the first free slot.
SlotToAdd(t, p) == First(LAMBDA i : ~t[i].in_use \/ t[i].address = p)
SlotToDelete(t, p) == First(LAMBDA i : Holds(t, i, p))

swap_bp(t, i, j) == [t EXCEPT ![i] = t[j], ![j] = t[i]]

\* Mutant: the table is left as it is.
SortBreakPoint_Not(t) == t

(* Bubble sort: a round compares neighbours up to the slots that the rounds  *)
(* before it have settled.                                                  *)
Compared(t, j) ==
  IF t[j].address > t[j + 1].address THEN swap_bp(t, j, j + 1) ELSE t
Round(t, last) ==
  LET s[j \in 0 .. last] == IF j = 0 THEN t ELSE Compared(s[j - 1], j)
  IN  s[last]
SortBreakPoint(t) ==
  LET r[i \in 0 .. NumBP - 1] == IF i = 0 THEN t ELSE Round(r[i - 1], NumBP - i)
  IN  r[NumBP - 1]

Taken(t, i, p) == [t EXCEPT ![i].in_use = TRUE, ![i].address = p]
Cleared(t, i) == [t EXCEPT ![i].in_use = FALSE, ![i].address = Top]
=============================================================================
