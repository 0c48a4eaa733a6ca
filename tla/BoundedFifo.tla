----------------------------- MODULE BoundedFifo -----------------------------
(***************************************************************************)
(* What every queue of this firmware promises, with no index, count or     *)
(* port bit in it: the queue keeps at most Capacity items, may refuse one  *)
(* only while it is full, and gives the oldest one each time it is asked.  *)
(* So every item accepted is given once, in the order of acceptance.       *)
(* The interrupt vectors, the characters on their way to the terminal and  *)
(* those typed on it each travel through such a queue.                     *)
(***************************************************************************)
EXTENDS Naturals, Sequences

CONSTANTS Items,      \* what may be queued
          Capacity    \* how many items the queue keeps, at least 1

VARIABLES kept,       \* the items accepted and not yet given
          last        \* the item given last

fifoVars == <<kept, last>>

(* Nothing has been given yet, so last may have any value.                 *)
FifoInit == kept = <<>>

Accept(x) == /\ Len(kept) < Capacity
             /\ kept' = Append(kept, x)
             /\ last' = last

Refuse == Len(kept) = Capacity /\ UNCHANGED fifoVars

Take == /\ kept # <<>>
        /\ last' = Head(kept)
        /\ kept' = Tail(kept)

(* Someone empties the queue on purpose.                                   *)
Clear == kept' = <<>> /\ last' = last

FifoNext == (\E x \in Items : Accept(x)) \/ Refuse \/ Take

FifoSafety == FifoInit /\ [][FifoNext]_fifoVars

(* The same for a queue that may also be cleared.                          *)
ClearableSafety == FifoInit /\ [][FifoNext \/ Clear]_fifoVars

(* The taker keeps coming, so nothing stays accepted for ever.             *)
FifoLive == WF_fifoVars(Take)
=============================================================================
