-------------------------------- MODULE Xmodem --------------------------------
(***************************************************************************)
(* XMODEM with check sums, as xmodem.c sends (s_xmodem) and receives       *)
(* (r_xmodem), one board at each end of a line that may lose or damage     *)
(* what is on it.  Both poll their UART, whose hardware keeps very few     *)
(* bytes.  The blocks of the source are numbered from 1, and a block is    *)
(* known by its number; on the line it carries a number that wraps.        *)
(* A packet whose first byte is lost, or of which an earlier packet has    *)
(* taken bytes, is read out of step: the receiver looks for a control code *)
(* in every byte of it.                                                    *)
(***************************************************************************)
EXTENDS Integers, Sequences

CONSTANTS Blocks,       \* blocks to send
          SeqMod,       \* where the number in a header wraps: 256
          MAX_RETRY,    \* 9
          LineSize,     \* bytes a UART keeps for a reader that is busy
          Faults        \* TLC's bound on the faults of the line

ASSUME XmodemAssumption ==
  /\ Blocks \in Nat \ {0} /\ SeqMod \in Nat /\ SeqMod >= 2
  /\ MAX_RETRY \in Nat /\ LineSize \in Nat \ {0}
  /\ Faults \in Nat

VARIABLES toR, toS,             \* what is on the line, to the receiver, to the sender
          r, count, retry,      \* r_xmodem: running or what it returned, its counters
          dst, size,            \* its results
          s, s_count, s_retry,  \* s_xmodem: waiting to be started, at which loop, returned
          faults,               \* faults still to come
          ackLost,              \* history: one of them took an ACK
          mistaken              \* history: what bytes out of step were taken for

noiseVars == <<faults, ackLost, mistaken>>
lineVars == <<toR, toS, noiseVars>>
rVars == <<r, count, retry, dst, size>>
sVars == <<s, s_count, s_retry>>
vars == <<lineVars, rVars, sVars>>

\* A packet may come with a wrong header, with wrong data, with bytes missing
\* behind SOH ("cut"), or out of step ("loose").
Damages == {"none", "header", "sum", "cut", "loose"}
Packet(n) == [is |-> "SOH", blk |-> n % SeqMod, data |-> n, damage |-> "none"]
EOT == [is |-> "EOT"]
IsPacket(x) == x.is = "SOH"
IsWhole(x) == IsPacket(x) /\ x.damage \in {"none", "header", "sum"}

Init == /\ toR = <<>> /\ toS = <<>> /\ faults = Faults
        /\ ackLost = FALSE /\ mistaken = {}
        /\ r = "running" /\ count = 0 /\ retry = 0 /\ dst = <<>> /\ size = 0
        /\ s = "idle" /\ s_count = 0 /\ s_retry = 0

SenderRuns == s \in {"send", "eot"}
-----------------------------------------------------------------------------
(* r_xmodem answers.  A byte that finds the UART of the other side full is *)
(* lost, and nobody reads it once s_xmodem has returned.                   *)
Reply(c) == toS' = IF s \in {"idle", "send", "eot"} /\ Len(toS) < LineSize
                   THEN Append(toS, c) ELSE toS

(* retry grows without bound where the code does not test it; beyond the   *)
(* limit its value does not matter.                                        *)
UpTo(n) == IF n > MAX_RETRY THEN MAX_RETRY + 1 ELSE n
MoreRetry == UpTo(retry + 1)
SkipRetry(timeout) == UpTo(retry + (IF timeout THEN 2 ELSE 1))

(* A fault that counts as a retry and gives up after too many.             *)
NakOrGiveUp(result) ==
  /\ retry' = MoreRetry
  /\ IF retry' > MAX_RETRY THEN r' = result /\ Reply("CAN")
                           ELSE r' = r /\ Reply("NAK")
  /\ UNCHANGED <<count, dst, size>>

(* Mutant: the block number is not compared with the one expected.         *)
HeaderOK_AnyBlock(p) == p.damage # "header"

HeaderOK(p) == p.damage # "header" /\ p.blk = (count + 1) % SeqMod

(* A good block is copied and acknowledged; the copy function may refuse.  *)
R_good == /\ r = "running" /\ toR # <<>> /\ IsPacket(Head(toR))
          /\ HeaderOK(Head(toR)) /\ Head(toR).damage = "none"
          /\ toR' = Tail(toR)
          /\ \/ /\ dst' = Append(dst, Head(toR).data)
                /\ size' = count /\ count' = count + 1 /\ retry' = 0
                /\ r' = r /\ Reply("ACK")
             \/ /\ r' = "failed" /\ Reply("CAN")
                /\ UNCHANGED <<count, retry, dst, size>>
          /\ UNCHANGED <<sVars, noiseVars>>

R_bad_sum == /\ r = "running" /\ toR # <<>> /\ IsPacket(Head(toR))
             /\ HeaderOK(Head(toR)) /\ Head(toR).damage = "sum"
             /\ toR' = Tail(toR)
             /\ NakOrGiveUp("failed")
             /\ UNCHANGED <<sVars, noiseVars>>

(* Bytes of a packet were lost: the reader takes what follows for them.    *)
(* What follows up to the i-th item is used up, what is left of that one   *)
(* is out of step; a whole packet is longer than what is missing.  If the  *)
(* line runs dry it is a time-out.                                         *)
Loosened(x) == IF IsPacket(x) THEN <<[x EXCEPT !.damage = "loose"]>> ELSE <<>>
Behind(i) == SubSeq(toR, i + 1, Len(toR))
UsedUp(i) == \A j \in 2 .. i : ~IsWhole(toR[j])
CutFilled == \E i \in 2 .. Len(toR) :
  \/ UsedUp(i - 1) /\ toR' = Loosened(toR[i]) \o Behind(i)
  \/ UsedUp(i) /\ toR' = Behind(i)
CutTimeout == UsedUp(Len(toR)) /\ toR' = <<>>

(* Filled up the sum is wrong; else it is a time-out, which is not counted. *)
R_cut == /\ r = "running" /\ toR # <<>> /\ IsPacket(Head(toR))
         /\ Head(toR).damage = "cut"
         /\ \/ CutFilled /\ NakOrGiveUp("failed")
            \/ CutTimeout /\ Reply("NAK") /\ UNCHANGED rVars
         /\ UNCHANGED <<sVars, noiseVars>>

(* A header that is damaged or not the expected one: the rest is skipped   *)
(* and a retry counted; only a time-out compares it with the limit.        *)
R_bad_header ==
  /\ r = "running" /\ toR # <<>> /\ IsPacket(Head(toR))
  /\ \/ /\ IsWhole(Head(toR)) /\ ~HeaderOK(Head(toR))
        /\ toR' = Tail(toR)
        /\ retry' = SkipRetry(FALSE) /\ r' = r /\ Reply("NAK")
     \/ /\ Head(toR).damage = "cut" /\ CutFilled
        /\ retry' = SkipRetry(FALSE) /\ r' = r /\ Reply("NAK")
     \/ /\ Head(toR).damage = "cut" /\ CutTimeout
        /\ retry' = SkipRetry(TRUE)
        /\ IF retry' > MAX_RETRY THEN r' = "failed" /\ Reply("CAN")
                                 ELSE r' = r /\ Reply("NAK")
  /\ UNCHANGED <<count, dst, size, sVars, noiseVars>>

(* A byte out of step is ignored, or is what its value says: an EOT ends   *)
(* the transfer as a success, a CAN as a failure, and from an SOH on the   *)
(* rest is taken for a packet, which it is too short to be.                *)
R_loose ==
  /\ r = "running" /\ toR # <<>> /\ IsPacket(Head(toR)) /\ Head(toR).damage = "loose"
  /\ \/ toR' = Tail(toR) /\ UNCHANGED <<toS, r, size, mistaken>>
     \/ /\ toR' = Tail(toR) /\ r' = "done" /\ size' = count /\ Reply("ACK")
        /\ mistaken' = mistaken \cup {"EOT"}
     \/ toR' = Tail(toR) /\ r' = "failed" /\ UNCHANGED <<toS, size, mistaken>>
     \/ /\ toR' = [toR EXCEPT ![1].damage = "cut"]
        /\ mistaken' = mistaken \cup {"SOH"} /\ UNCHANGED <<toS, r, size>>
  /\ UNCHANGED <<count, retry, dst, sVars, faults, ackLost>>

R_EOT == /\ r = "running" /\ toR # <<>> /\ Head(toR) = EOT
         /\ toR' = Tail(toR)
         /\ r' = "done" /\ size' = count /\ Reply("ACK")
         /\ UNCHANGED <<count, retry, dst, sVars, noiseVars>>

(* Ten seconds of silence.  The two sides wait equally long, so nobody     *)
(* times out while the other has something to read.                        *)
RQuiet == r = "running" /\ toR = <<>> /\ (SenderRuns => toS = <<>>)

(* Mutant: silence is not counted as a retry.                              *)
R_EOF_Uncounted == /\ RQuiet /\ Reply("NAK")
                   /\ UNCHANGED <<toR, rVars, sVars, noiseVars>>

R_EOF == /\ RQuiet
         /\ NakOrGiveUp(IF count > 0 THEN "failed" ELSE "timeout")
         /\ UNCHANGED <<toR, sVars, noiseVars>>
-----------------------------------------------------------------------------
(* s_xmodem is started by its user, and its line is cleared of nothing.    *)
S_start == /\ s = "idle" /\ s' = "send"
           /\ UNCHANGED <<lineVars, rVars, s_count, s_retry>>

(* What is sent to a receiver that has returned is no part of a transfer.  *)
Send(x) == toR' = IF r = "running" THEN Append(toR, x) ELSE toR

(* Mutant: the answer NAK always goes one block back.                      *)
NextBlock_NoFloor(c) == IF c = "NAK" THEN s_count ELSE s_count + 1

(* The block to send next, from the blocks sent so far and the answer.     *)
NextBlock(c) == IF c = "NAK" /\ s_count > 0 THEN s_count ELSE s_count + 1

S_block == /\ s = "send" /\ toS # <<>> /\ Head(toS) \in {"ACK", "NAK"}
           /\ toS' = Tail(toS)
           /\ LET n == NextBlock(Head(toS))
              IN IF n <= Blocks
                 THEN s' = s /\ s_count' = n /\ Send(Packet(n))
                 ELSE s' = "eot" /\ s_count' = s_count /\ Send(EOT)
           /\ s_retry' = 0
           /\ UNCHANGED <<rVars, noiseVars>>

S_CAN == /\ s = "send" /\ toS # <<>> /\ Head(toS) = "CAN"
         /\ toS' = Tail(toS) /\ s' = "aborted"
         /\ UNCHANGED <<toR, s_count, s_retry, rVars, noiseVars>>

SQuiet == toS = <<>> /\ (r = "running" => toR = <<>>)

(* Mutant: silence is never counted while blocks are sent.                 *)
S_EOF_Uncounted == /\ s = "send" /\ SQuiet /\ s_count > 0
                   /\ UNCHANGED vars

(* Silence: counted once something was sent; nothing is sent again.        *)
S_EOF == /\ s = "send" /\ SQuiet /\ s_count > 0
         /\ s_retry' = s_retry + 1
         /\ s' = IF s_retry' > MAX_RETRY THEN "failed" ELSE s
         /\ UNCHANGED <<lineVars, s_count, rVars>>

(* Mutant: any answer to EOT will do.                                      *)
EndsTransfer_Any(c) == TRUE

EndsTransfer(c) == c = "ACK"

(* The last loop: EOT again after any answer but ACK.                      *)
S_eot == /\ s = "eot" /\ toS # <<>>
         /\ toS' = Tail(toS)
         /\ IF EndsTransfer(Head(toS)) THEN s' = "done" /\ toR' = toR
                                       ELSE s' = s /\ Send(EOT)
         /\ UNCHANGED <<s_count, s_retry, rVars, noiseVars>>

S_eot_EOF == /\ s = "eot" /\ SQuiet
             /\ s_retry' = s_retry + 1
             /\ IF s_retry' > MAX_RETRY THEN s' = "failed" /\ toR' = toR
                                        ELSE s' = s /\ Send(EOT)
             /\ UNCHANGED <<toS, s_count, rVars, noiseVars>>
-----------------------------------------------------------------------------
Without(q, i) == SubSeq(q, 1, i - 1) \o SubSeq(q, i + 1, Len(q))

(* The line loses a packet, an EOT or an answer, or damages a packet or    *)
(* loses bytes of it.  It turns no byte into a control code.               *)
Noise == /\ faults > 0 /\ faults' = faults - 1
         /\ \/ \E i \in DOMAIN toR :
                 toR' = Without(toR, i) /\ UNCHANGED <<toS, ackLost>>
            \/ \E i \in DOMAIN toR, how \in Damages \ {"none"} :
                 /\ IsPacket(toR[i])
                 /\ toR' = [toR EXCEPT ![i].damage = how] /\ UNCHANGED <<toS, ackLost>>
            \/ \E i \in DOMAIN toS :
                 /\ toS' = Without(toS, i) /\ toR' = toR
                 /\ ackLost' = (ackLost \/ toS[i] = "ACK")
         /\ UNCHANGED <<rVars, sVars, mistaken>>

Receiver == R_good \/ R_bad_sum \/ R_cut \/ R_bad_header \/ R_loose \/ R_EOT \/ R_EOF
Sender == S_block \/ S_CAN \/ S_EOF \/ S_eot \/ S_eot_EOF
Next == Receiver \/ Sender \/ S_start \/ Noise

Safety == Init /\ [][Next]_vars
Spec == Safety /\ WF_vars(Receiver) /\ WF_vars(Sender)
-----------------------------------------------------------------------------
(* Types; the numbers in flight are numbers of blocks.                     *)
TypeOK == /\ toR \in Seq([is : {"SOH"}, blk : 0 .. SeqMod - 1, data : 1 .. Blocks,
                          damage : Damages] \cup {EOT})
          /\ toS \in Seq({"ACK", "NAK", "CAN"}) /\ Len(toS) <= LineSize
          /\ r \in {"running", "done", "failed", "timeout"}
          /\ s \in {"idle", "send", "eot", "done", "failed", "aborted"}
          /\ count \in Nat /\ retry \in 0 .. MAX_RETRY + 1 /\ size \in Nat
          /\ dst \in Seq(1 .. Blocks)
          /\ s_count \in 0 .. Blocks /\ s_retry \in 0 .. MAX_RETRY + 1
          /\ faults \in 0 .. Faults /\ ackLost \in BOOLEAN /\ mistaken \subseteq {"SOH", "EOT"}

(* However packets are lost, damaged or sent twice, the memory filled so   *)
(* far holds the source from its beginning, each block once.               *)
ReceivedInOrder == Len(dst) = count /\ \A i \in 1 .. count : dst[i] = i

(* A transfer either side reports as complete is complete, unless a byte   *)
(* out of step was taken for the end.                                      *)
SuccessIsComplete == /\ r = "done" => "EOT" \in mistaken \/ (count = Blocks /\ size = Blocks)
                     /\ s = "done" => r = "done"

(* A transfer comes to an end on both sides, unless an ACK got lost or a    *)
(* byte out of step was taken for SOH: then two packets can go on to spoil *)
(* each other, with a retry counted for each and compared with no limit.   *)
Endless == ackLost \/ "SOH" \in mistaken
ReceiverEnds == <>(r # "running" \/ Endless)
SenderEnds == (SenderRuns /\ s_count > 0) ~> (~SenderRuns \/ Endless)

(* MAX_RETRY ends a transfer that makes no progress: r_xmodem gives up and *)
(* returns.  After a lost ACK it does not: the block comes again, its      *)
(* number is not the expected one, and NAK brings it once more.            *)
GivesUp == <>(r # "running")
=============================================================================
