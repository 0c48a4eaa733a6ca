------------------------------- MODULE CpmDisk -------------------------------
(***************************************************************************)
(* What the disk calls of the BIOS promise to CP/M: drives of records that *)
(* read back as written.  A write may be deferred: a warm boot forgets it, *)
(* but a read, a change of drive or an immediate write may not.            *)
(***************************************************************************)
CONSTANTS Drives, Records, Data

VARIABLES records,     \* what programs have written
          durable,     \* what is on the card
          drive,       \* the selected drive
          dma          \* the record last read

Init == /\ durable \in [Drives -> [Records -> Data]] /\ records = durable
        /\ drive \in Drives /\ dma \in Data

Read(r) == /\ dma' = records[drive][r]
           /\ durable' = records /\ UNCHANGED <<records, drive>>

Write(r, data) == /\ records' = [records EXCEPT ![drive][r] = data]
                  /\ durable' \in {durable, records'}
                  /\ UNCHANGED <<drive, dma>>

Select(d) == drive' = d /\ durable' = records /\ UNCHANGED <<records, dma>>

WarmBoot(d) == /\ records' = durable /\ drive' = d
               /\ UNCHANGED <<durable, dma>>

Next == \/ \E r \in Records : Read(r)
        \/ \E r \in Records, data \in Data : Write(r, data)
        \/ \E d \in Drives : Select(d) \/ WarmBoot(d)
Spec == Init /\ [][Next]_<<records, durable, drive, dma>>
=============================================================================
