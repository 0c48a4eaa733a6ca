----------------------------- MODULE XmodemProofs -----------------------------
(***************************************************************************)
(* Proofs about a transfer by XMODEM, for every number of blocks, every    *)
(* modulus of the block numbers from two up, every limit of retries, every *)
(* UART and every number of faults.  The invariant bounds what is on the   *)
(* line by how far the two sides are: the sender is at most one block      *)
(* ahead, and so are the packets under way.  A receiver that has taken a   *)
(* byte out of step for EOT has returned; the sender may go on without it. *)
(***************************************************************************)
EXTENDS Xmodem, SequenceTheorems, TLAPS

Packets == [is : {"SOH"}, blk : 0 .. SeqMod - 1, data : 1 .. Blocks,
            damage : Damages]
Codes == {"ACK", "NAK", "CAN"}

(* The packets in q, after n blocks received and sc sent, carry the last   *)
(* block received or the one to come, in order.                            *)
LineOK(q, n, sc) ==
  /\ \A i \in 1 .. Len(q) : IsPacket(q[i]) =>
       /\ q[i].data \in {n, n + 1} /\ q[i].data <= sc
       /\ q[i].blk = q[i].data % SeqMod
  /\ \A i, j \in 1 .. Len(q) :
       i < j /\ IsPacket(q[i]) /\ IsPacket(q[j]) => q[i].data <= q[j].data
HasEOT(q) == \E i \in 1 .. Len(q) : q[i] = EOT

(* An ACK is under way at most once, and for the last block sent.          *)
HasACK(a) == \E i \in 1 .. Len(a) : a[i] = "ACK"
AnswersOK(a, n, sc) ==
  /\ HasACK(a) => sc = n /\ n >= 1
  /\ \A i, j \in 1 .. Len(a) : a[i] = "ACK" /\ a[j] = "ACK" => i = j

Together == s_count \in {count, count + 1}

(* The end of the transfer.                                                *)
Ended == /\ HasEOT(toR) => s \in {"eot", "done", "failed"} /\ count = Blocks
         /\ s \in {"eot", "done"} => count = Blocks
         /\ s = "eot" /\ HasACK(toS) => r = "done"
         /\ SuccessIsComplete

Retries == s \in {"idle", "send", "eot"} => s_retry <= MAX_RETRY

InStep == /\ TypeOK /\ ReceivedInOrder /\ Together
          /\ LineOK(toR, count, s_count) /\ AnswersOK(toS, count, s_count)
          /\ Ended /\ Retries
Fooled == /\ TypeOK /\ ReceivedInOrder /\ Retries
          /\ "EOT" \in mistaken /\ r = "done"

IInv == InStep \/ Fooled
-----------------------------------------------------------------------------
(* The numbers of two blocks in a row differ, whatever the modulus.        *)
LEMMA Quotient ==
  ASSUME NEW n \in Nat
  PROVE  /\ n = SeqMod * (n \div SeqMod) + (n % SeqMod)
         /\ n \div SeqMod \in Int /\ n % SeqMod \in 0 .. SeqMod - 1
BY XmodemAssumption, SMTT(20)

LEMMA NoUnit ==
  ASSUME NEW a \in Int, NEW b \in Int
  PROVE  SeqMod * a + 1 # SeqMod * b
<1> SUFFICES ASSUME SeqMod * a + 1 = SeqMod * b
             PROVE  FALSE
  OBVIOUS
<1>1. SeqMod * (b - a) = 1
  BY XmodemAssumption, SMTT(20)
<1>2. CASE b - a <= 0
  BY <1>1, <1>2, XmodemAssumption, SMTT(20)
<1>3. CASE b - a >= 1
  BY <1>1, <1>3, XmodemAssumption, SMTT(20)
<1> QED
  BY <1>2, <1>3

LEMMA NextDiffers ==
  ASSUME NEW n \in Nat
  PROVE  (n + 1) % SeqMod # n % SeqMod
<1> SUFFICES ASSUME (n + 1) % SeqMod = n % SeqMod
             PROVE  FALSE
  OBVIOUS
<1>1. PICK r0 \in Int : r0 = n % SeqMod
  BY Quotient
<1>2. PICK a \in Int : n = SeqMod * a + r0
  BY <1>1, Quotient
<1>3. PICK b \in Int : n + 1 = SeqMod * b + r0
  BY <1>1, Quotient
<1>4. SeqMod * a \in Int /\ SeqMod * b \in Int
  BY XmodemAssumption
<1>5. SeqMod * a + 1 = SeqMod * b
  BY <1>2, <1>3, <1>4
<1> QED
  BY <1>5, NoUnit
-----------------------------------------------------------------------------
(* The line delivers in order and loses: what is left of q is a            *)
(* subsequence p of it.                                                    *)
Thinned(p, q) ==
  \E at \in [1 .. Len(p) -> 1 .. Len(q)] :
    /\ \A i \in 1 .. Len(p) : p[i] = q[at[i]]
    /\ \A i, j \in 1 .. Len(p) : i < j => at[i] < at[j]

LEMMA TailThins ==
  ASSUME NEW S, NEW q \in Seq(S), q # <<>>
  PROVE  /\ Tail(q) \in Seq(S) /\ Len(Tail(q)) = Len(q) - 1 /\ Thinned(Tail(q), q)
         /\ Head(q) = q[1] /\ Len(q) \in Nat \ {0}
<1>1. /\ Tail(q) \in Seq(S) /\ Len(Tail(q)) = Len(q) - 1 /\ Len(q) \in Nat \ {0}
      /\ \A i \in 1 .. Len(q) - 1 : Tail(q)[i] = q[i + 1]
      /\ Head(q) = q[1]
  BY HeadTailProperties, EmptySeq
<1>2. Thinned(Tail(q), q)
  <2> DEFINE at == [i \in 1 .. Len(Tail(q)) |-> i + 1]
  <2>1. at \in [1 .. Len(Tail(q)) -> 1 .. Len(q)]
    BY <1>1
  <2>2. \A i \in 1 .. Len(Tail(q)) : Tail(q)[i] = q[at[i]]
    BY <1>1
  <2>3. \A i, j \in 1 .. Len(Tail(q)) : i < j => at[i] < at[j]
    BY <1>1
  <2> QED
    BY <2>1, <2>2, <2>3 DEF Thinned
<1> QED
  BY <1>1, <1>2

LEMMA ThinsAgain ==
  ASSUME NEW S, NEW o \in Seq(S), NEW p \in Seq(S), NEW q \in Seq(S),
         Thinned(o, p), Thinned(p, q)
  PROVE  Thinned(o, q)
<1>1. PICK f \in [1 .. Len(o) -> 1 .. Len(p)] :
        /\ \A i \in 1 .. Len(o) : o[i] = p[f[i]]
        /\ \A i, j \in 1 .. Len(o) : i < j => f[i] < f[j]
  BY DEF Thinned
<1>2. PICK g \in [1 .. Len(p) -> 1 .. Len(q)] :
        /\ \A i \in 1 .. Len(p) : p[i] = q[g[i]]
        /\ \A i, j \in 1 .. Len(p) : i < j => g[i] < g[j]
  BY DEF Thinned
<1> DEFINE h == [i \in 1 .. Len(o) |-> g[f[i]]]
<1>3. h \in [1 .. Len(o) -> 1 .. Len(q)]
  BY <1>1, <1>2
<1>4. \A i \in 1 .. Len(o) : o[i] = q[h[i]]
  BY <1>1, <1>2
<1>5. \A i, j \in 1 .. Len(o) : i < j => h[i] < h[j]
  BY <1>1, <1>2
<1> QED
  BY <1>3, <1>4, <1>5 DEF Thinned

LEMMA EmptyThins ==
  ASSUME NEW S, NEW q \in Seq(S)
  PROVE  <<>> \in Seq(S) /\ Thinned(<<>>, q)
<1> DEFINE at == [i \in 1 .. 0 |-> 1]
<1>1. <<>> \in Seq(S) /\ Len(<<>>) = 0
  BY EmptySeq
<1>2. at \in [1 .. Len(<<>>) -> 1 .. Len(q)] /\ 1 .. Len(<<>>) = {}
  BY <1>1
<1> QED
  BY <1>1, <1>2 DEF Thinned

LEMMA WithoutThins ==
  ASSUME NEW S, NEW q \in Seq(S), NEW i \in DOMAIN q
  PROVE  /\ Without(q, i) \in Seq(S) /\ Len(Without(q, i)) = Len(q) - 1
         /\ Len(q) \in Nat /\ Thinned(Without(q, i), q)
<1> DEFINE low == SubSeq(q, 1, i - 1)
           high == SubSeq(q, i + 1, Len(q))
           p == low \o high
           at == [j \in 1 .. Len(p) |-> IF j < i THEN j ELSE j + 1]
<1>1. Len(q) \in Nat /\ i \in 1 .. Len(q) /\ \A j \in 1 .. Len(q) : q[j] \in S
  BY LenProperties, ElementOfSeq
<1>2. /\ low \in Seq(S) /\ Len(low) = i - 1
      /\ \A j \in 1 .. i - 1 : low[j] = q[j]
  <2>1. \A j \in 1 .. i - 1 : q[j] \in S
    BY <1>1
  <2>2. /\ low \in Seq(S) /\ Len(low) = (IF 1 <= i - 1 THEN i - 1 - 1 + 1 ELSE 0)
        /\ \A j \in 1 .. i - 1 - 1 + 1 : low[j] = q[1 + j - 1]
    BY <1>1, <2>1, SubSeqProperties
  <2> QED
    BY <1>1, <2>2
<1>3. /\ high \in Seq(S) /\ Len(high) = Len(q) - i
      /\ \A j \in 1 .. Len(q) - i : high[j] = q[i + j]
  <2>1. \A j \in i + 1 .. Len(q) : q[j] \in S
    BY <1>1
  <2>2. /\ high \in Seq(S)
        /\ Len(high) = (IF i + 1 <= Len(q) THEN Len(q) - (i + 1) + 1 ELSE 0)
        /\ \A j \in 1 .. Len(q) - (i + 1) + 1 : high[j] = q[i + 1 + j - 1]
    BY <1>1, <2>1, SubSeqProperties
  <2> QED
    BY <1>1, <2>2
<1> HIDE DEF low, high
<1>4. /\ p \in Seq(S) /\ Len(p) = Len(q) - 1
      /\ \A j \in 1 .. Len(q) - 1 : p[j] = IF j <= i - 1 THEN low[j] ELSE high[j - (i - 1)]
  <2>1. /\ p \in Seq(S) /\ Len(p) = Len(low) + Len(high)
        /\ \A j \in 1 .. Len(low) + Len(high) :
             p[j] = IF j <= Len(low) THEN low[j] ELSE high[j - Len(low)]
    BY <1>2, <1>3, ConcatProperties
  <2>2. Len(low) + Len(high) = Len(q) - 1
    BY <1>1, <1>2, <1>3
  <2> QED
    BY <1>2, <2>1, <2>2
<1> HIDE DEF p
<1>5. at \in [1 .. Len(p) -> 1 .. Len(q)]
  BY <1>1, <1>4
<1>6. ASSUME NEW j \in 1 .. Len(p)
      PROVE  p[j] = q[at[j]]
  <2>1. CASE j < i
    BY <1>1, <1>2, <1>4, <2>1
  <2>2. CASE j >= i
    <3>1. j - (i - 1) \in 1 .. Len(q) - i /\ i + (j - (i - 1)) = j + 1
      BY <1>1, <1>4, <2>2
    <3> QED
      BY <1>1, <1>3, <1>4, <2>2, <3>1
  <2> QED
    BY <1>1, <1>4, <2>1, <2>2
<1>7. \A j, k \in 1 .. Len(p) : j < k => at[j] < at[k]
  BY <1>1, <1>4
<1> HIDE DEF at
<1>8. Thinned(p, q)
  BY <1>5, <1>6, <1>7 DEF Thinned
<1> QED
  BY <1>1, <1>4, <1>8 DEF p, low, high, Without
-----------------------------------------------------------------------------
(* What the line keeps when something is taken from it, lost or damaged.   *)
Things == Packets \cup {EOT}

LEMMA PacketType ==
  ASSUME NEW x \in Things
  PROVE  /\ IsPacket(x) <=> x \in Packets
         /\ x = EOT <=> ~IsPacket(x)
         /\ IsPacket(x) => x.data \in 1 .. Blocks /\ x.blk \in 0 .. SeqMod - 1
BY DEF Things, Packets, EOT, IsPacket

LEMMA LineThins ==
  ASSUME NEW q \in Seq(Things), NEW p \in Seq(Things), Thinned(p, q),
         NEW n, NEW sc
  PROVE  /\ LineOK(q, n, sc) => LineOK(p, n, sc)
         /\ HasEOT(p) => HasEOT(q)
<1>1. PICK at \in [1 .. Len(p) -> 1 .. Len(q)] :
        /\ \A i \in 1 .. Len(p) : p[i] = q[at[i]]
        /\ \A i, j \in 1 .. Len(p) : i < j => at[i] < at[j]
  BY DEF Thinned
<1>2. \A i \in 1 .. Len(p) : at[i] \in 1 .. Len(q)
  BY <1>1
<1> QED
  BY <1>1, <1>2, Zenon DEF LineOK, HasEOT

LEMMA AnswersThin ==
  ASSUME NEW b \in Seq(Codes), NEW a \in Seq(Codes), Thinned(a, b), NEW n, NEW sc
  PROVE  /\ AnswersOK(b, n, sc) => AnswersOK(a, n, sc)
         /\ HasACK(a) => HasACK(b)
<1>1. PICK at \in [1 .. Len(a) -> 1 .. Len(b)] :
        /\ \A i \in 1 .. Len(a) : a[i] = b[at[i]]
        /\ \A i, j \in 1 .. Len(a) : i < j => at[i] < at[j]
  BY DEF Thinned
<1>2. HasACK(a) => HasACK(b)
  BY <1>1 DEF HasACK
<1>3. ASSUME AnswersOK(b, n, sc), NEW i \in 1 .. Len(a), NEW j \in 1 .. Len(a),
             a[i] = "ACK", a[j] = "ACK"
      PROVE  i = j
  <2>1. at[i] = at[j]
    BY <1>1, <1>3 DEF AnswersOK
  <2>2. ~(i < j) /\ ~(j < i)
    BY <1>1, <2>1
  <2> QED
    BY <2>2
<1> QED
  BY <1>2, <1>3 DEF AnswersOK

(* The head of the line is the last block or the next; if it is the next,  *)
(* so is every packet behind it.                                           *)
LEMMA LineAccepts ==
  ASSUME NEW q \in Seq(Things), q # <<>>, IsPacket(Head(q)), NEW n \in Nat,
         NEW sc \in {n, n + 1}, LineOK(q, n, sc), Head(q).blk = (n + 1) % SeqMod
  PROVE  /\ Head(q).data = n + 1 /\ sc = n + 1
         /\ LineOK(Tail(q), n + 1, sc)
<1>1. /\ Head(q) = q[1] /\ Len(q) \in Nat \ {0} /\ Tail(q) \in Seq(Things)
      /\ Len(Tail(q)) = Len(q) - 1 /\ \A i \in 1 .. Len(q) - 1 : Tail(q)[i] = q[i + 1]
  BY HeadTailProperties, TailThins
<1>2. q[1].data \in {n, n + 1} /\ q[1].data <= sc /\ q[1].blk = q[1].data % SeqMod
  BY <1>1 DEF LineOK
<1>3. q[1].data = n + 1
  BY <1>1, <1>2, NextDiffers
<1>4. sc = n + 1
  BY <1>2, <1>3
<1>5. ASSUME NEW i \in 1 .. Len(Tail(q)), IsPacket(Tail(q)[i])
      PROVE  /\ Tail(q)[i].data = n + 1 /\ Tail(q)[i].data <= sc
             /\ Tail(q)[i].blk = Tail(q)[i].data % SeqMod
  <2>1. i + 1 \in 1 .. Len(q) /\ 1 \in 1 .. Len(q) /\ 1 < i + 1 /\ Tail(q)[i] = q[i + 1]
    BY <1>1
  <2>2. q[i + 1].data \in {n, n + 1} /\ q[1].data <= q[i + 1].data
        /\ q[i + 1].data <= sc /\ q[i + 1].blk = q[i + 1].data % SeqMod
    BY <1>1, <1>5, <2>1, Zenon DEF LineOK
  <2>3. q[i + 1].data = n + 1
    BY <1>3, <2>2
  <2> QED
    BY <2>1, <2>2, <2>3
<1>6. LineOK(Tail(q), n + 1, sc)
  BY <1>5 DEF LineOK
<1> QED
  BY <1>1, <1>3, <1>4, <1>6

(* The sender adds the block it sends, which is none before the last.      *)
LEMMA LineSends ==
  ASSUME NEW q \in Seq(Things), NEW n \in Nat, NEW sc \in Nat, NEW m \in {n, n + 1},
         m \in 1 .. Blocks, sc <= m, LineOK(q, n, sc)
  PROVE  /\ LineOK(q, n, m) /\ LineOK(Append(q, Packet(m)), n, m)
         /\ Append(q, Packet(m)) \in Seq(Things)
         /\ HasEOT(Append(q, Packet(m))) => HasEOT(q)
<1> DEFINE p == Append(q, Packet(m))
<1>1. /\ Packet(m) \in Things /\ IsPacket(Packet(m)) /\ Packet(m) # EOT
      /\ Packet(m).data = m /\ Packet(m).blk = m % SeqMod
  <2>1. m % SeqMod \in 0 .. SeqMod - 1
    BY Quotient
  <2> QED
    BY <2>1 DEF Packet, Things, Packets, Damages, IsPacket, EOT
<1> HIDE DEF Packet
<1>2. /\ p \in Seq(Things) /\ Len(p) = Len(q) + 1 /\ Len(q) \in Nat
      /\ p[Len(q) + 1] = Packet(m) /\ \A i \in 1 .. Len(q) : p[i] = q[i]
  BY <1>1, AppendProperties, LenProperties
<1>3. ASSUME NEW i \in 1 .. Len(q), IsPacket(q[i])
      PROVE  /\ q[i].data \in {n, n + 1} /\ q[i].data <= m
             /\ q[i].blk = q[i].data % SeqMod
  <2>1. /\ q[i].data \in {n, n + 1} /\ q[i].data <= sc /\ q[i].blk = q[i].data % SeqMod
    BY <1>3 DEF LineOK
  <2> QED
    BY <2>1
<1>4. LineOK(q, n, m)
  BY <1>3 DEF LineOK
<1> HIDE DEF p
<1>5. ASSUME NEW i \in 1 .. Len(p), IsPacket(p[i])
      PROVE  /\ p[i].data \in {n, n + 1} /\ p[i].data <= m
             /\ p[i].blk = p[i].data % SeqMod
  BY <1>1, <1>2, <1>3, <1>5
<1>6. ASSUME NEW i \in 1 .. Len(p), NEW j \in 1 .. Len(p), i < j,
             IsPacket(p[i]), IsPacket(p[j])
      PROVE  p[i].data <= p[j].data
  <2>1. CASE j = Len(q) + 1
    BY <1>1, <1>2, <1>5, <1>6, <2>1
  <2>2. CASE j # Len(q) + 1
    <3>1. i \in 1 .. Len(q) /\ j \in 1 .. Len(q)
      BY <1>2, <1>6, <2>2
    <3> QED
      BY <1>2, <1>6, <3>1 DEF LineOK
  <2> QED
    BY <2>1, <2>2
<1>7. LineOK(p, n, m)
  BY <1>5, <1>6 DEF LineOK
<1>8. HasEOT(p) => HasEOT(q)
  BY <1>1, <1>2 DEF HasEOT
<1> QED
  BY <1>2, <1>4, <1>7, <1>8 DEF p

LEMMA LineEnds ==
  ASSUME NEW q \in Seq(Things), NEW n, NEW sc, LineOK(q, n, sc)
  PROVE  Append(q, EOT) \in Seq(Things) /\ LineOK(Append(q, EOT), n, sc)
<1> DEFINE p == Append(q, EOT)
<1>1. EOT \in Things /\ ~IsPacket(EOT)
  BY DEF Things, EOT, IsPacket
<1> HIDE DEF EOT
<1>2. /\ p \in Seq(Things) /\ Len(p) = Len(q) + 1 /\ Len(q) \in Nat
      /\ p[Len(q) + 1] = EOT /\ \A i \in 1 .. Len(q) : p[i] = q[i]
  BY <1>1, AppendProperties, LenProperties
<1> HIDE DEF p
<1>3. ASSUME NEW i \in 1 .. Len(p), IsPacket(p[i])
      PROVE  i \in 1 .. Len(q) /\ p[i] = q[i]
  BY <1>1, <1>2, <1>3
<1>4. LineOK(p, n, sc)
  BY <1>3, Zenon DEF LineOK
<1> QED
  BY <1>2, <1>4 DEF p

(* Damage leaves the number of a packet.                                   *)
LEMMA LineDamaged ==
  ASSUME NEW q \in Seq(Things), NEW i \in DOMAIN q, IsPacket(q[i]),
         NEW how \in Damages, NEW n, NEW sc
  PROVE  LET p == [q EXCEPT ![i].damage = how]
         IN  /\ p \in Seq(Things) /\ Len(p) = Len(q)
             /\ \A j \in 1 .. Len(q) : j # i => p[j] = q[j]
             /\ p[i] = [q[i] EXCEPT !.damage = how] /\ p[i] \in Things
             /\ LineOK(q, n, sc) => LineOK(p, n, sc)
             /\ HasEOT(p) => HasEOT(q)
<1> DEFINE x == [q[i] EXCEPT !.damage = how]
           p == [q EXCEPT ![i] = x]
<1>1. i \in 1 .. Len(q) /\ q[i] \in Things
  BY LenProperties, ElementOfSeq
<1>2. /\ x \in Things /\ IsPacket(x) /\ x.data = q[i].data /\ x.blk = q[i].blk
      /\ x # EOT
  <2>1. q[i] \in Packets
    BY <1>1, PacketType
  <2> QED
    BY <2>1 DEF Packets, Things, IsPacket, EOT
<1> HIDE DEF x
<1>3. /\ p \in Seq(Things) /\ Len(p) = Len(q)
      /\ \A j \in 1 .. Len(q) : p[j] = IF j = i THEN x ELSE q[j]
  BY <1>1, <1>2, ExceptSeq
<1> HIDE DEF p
<1>4. \A j \in 1 .. Len(q) :
        IsPacket(p[j]) => IsPacket(q[j]) /\ p[j].data = q[j].data /\ p[j].blk = q[j].blk
  BY <1>2, <1>3
<1>5. LineOK(q, n, sc) => LineOK(p, n, sc)
  BY <1>3, <1>4, Zenon DEF LineOK
<1>6. HasEOT(p) => HasEOT(q)
  BY <1>2, <1>3 DEF HasEOT
<1>7. \A j \in 1 .. Len(q) : j # i => p[j] = q[j]
  BY <1>3
<1>8. p[i] = x /\ p[i] \in Things
  BY <1>1, <1>2, <1>3
<1> QED
  BY <1>3, <1>5, <1>6, <1>7, <1>8 DEF p, x
-----------------------------------------------------------------------------
LEMMA TypeParts ==
  TypeOK <=>
    /\ toR \in Seq(Things) /\ toS \in Seq(Codes) /\ Len(toS) <= LineSize
    /\ r \in {"running", "done", "failed", "timeout"}
    /\ s \in {"idle", "send", "eot", "done", "failed", "aborted"}
    /\ count \in Nat /\ retry \in 0 .. MAX_RETRY + 1 /\ size \in Nat
    /\ dst \in Seq(1 .. Blocks)
    /\ s_count \in 0 .. Blocks /\ s_retry \in 0 .. MAX_RETRY + 1
    /\ faults \in 0 .. Faults /\ ackLost \in BOOLEAN /\ mistaken \subseteq {"SOH", "EOT"}
BY Zenon DEF TypeOK, Things, Packets, Codes

LEMMA TypePartsNext ==
  TypeOK' <=>
    /\ toR' \in Seq(Things) /\ toS' \in Seq(Codes) /\ Len(toS') <= LineSize
    /\ r' \in {"running", "done", "failed", "timeout"}
    /\ s' \in {"idle", "send", "eot", "done", "failed", "aborted"}
    /\ count' \in Nat /\ retry' \in 0 .. MAX_RETRY + 1 /\ size' \in Nat
    /\ dst' \in Seq(1 .. Blocks)
    /\ s_count' \in 0 .. Blocks /\ s_retry' \in 0 .. MAX_RETRY + 1
    /\ faults' \in 0 .. Faults /\ ackLost' \in BOOLEAN /\ mistaken' \subseteq {"SOH", "EOT"}
BY Zenon DEF TypeOK, Things, Packets, Codes

LEMMA InitInStep == Init => InStep
<1> SUFFICES ASSUME Init
             PROVE  InStep
  OBVIOUS
<1>1. \A S : <<>> \in Seq(S) /\ Len(<<>>) = 0
  BY EmptySeq
<1>2. TypeOK
  <2>1. 0 <= LineSize /\ 0 \in 0 .. MAX_RETRY + 1 /\ 0 \in 0 .. Blocks /\ Faults \in 0 .. Faults
    BY XmodemAssumption
  <2> QED
    BY <1>1, <2>1, TypeParts DEF Init
<1>3. LineOK(toR, count, s_count) /\ AnswersOK(toS, count, s_count) /\ ~HasEOT(toR)
  BY <1>1 DEF Init, LineOK, AnswersOK, HasACK, HasEOT
<1>4. ReceivedInOrder
  BY <1>1 DEF Init, ReceivedInOrder
<1>5. Together /\ Ended /\ Retries
  BY <1>3, XmodemAssumption DEF Init, Together, Ended, Retries, SuccessIsComplete
<1> QED
  BY <1>2, <1>3, <1>4, <1>5 DEF InStep

(* An answer that finds no room, or nobody to read it, is dropped.         *)
LEMMA Replied ==
  ASSUME toS \in Seq(Codes), Len(toS) <= LineSize, NEW c \in Codes, Reply(c),
         NEW n \in Nat, NEW sc
  PROVE  /\ toS' \in Seq(Codes) /\ Len(toS') <= LineSize
         /\ c # "ACK" /\ AnswersOK(toS, n, sc) => AnswersOK(toS', n, sc)
         /\ c # "ACK" => (HasACK(toS') => HasACK(toS))
         /\ c = "ACK" /\ ~HasACK(toS) /\ n >= 1 => AnswersOK(toS', n, n)
         /\ s \notin {"idle", "send", "eot"} => toS' = toS
<1>1. CASE toS' = toS
  BY <1>1 DEF AnswersOK, HasACK
<1>2. CASE /\ toS' = Append(toS, c) /\ Len(toS) < LineSize
           /\ s \in {"idle", "send", "eot"}
  <2>1. /\ toS' \in Seq(Codes) /\ Len(toS') = Len(toS) + 1 /\ Len(toS) \in Nat
        /\ toS'[Len(toS) + 1] = c /\ \A i \in 1 .. Len(toS) : toS'[i] = toS[i]
    BY <1>2, AppendProperties, LenProperties
  <2>2. Len(toS') <= LineSize
    BY <1>2, <2>1, XmodemAssumption
  <2>3. \A i \in 1 .. Len(toS') : i \in 1 .. Len(toS) \/ i = Len(toS) + 1
    BY <2>1
  <2>4. ASSUME c # "ACK"
        PROVE  /\ HasACK(toS') => HasACK(toS)
               /\ AnswersOK(toS, n, sc) => AnswersOK(toS', n, sc)
    BY <2>1, <2>3, <2>4, Zenon DEF HasACK, AnswersOK
  <2>5. ASSUME ~HasACK(toS), n >= 1
        PROVE  AnswersOK(toS', n, n)
    BY <2>1, <2>3, <2>5, Zenon DEF HasACK, AnswersOK
  <2> QED
    BY <1>2, <2>1, <2>2, <2>4, <2>5
<1> QED
  BY <1>1, <1>2 DEF Reply
-----------------------------------------------------------------------------
(* A step of the receiver that takes no block: it reads or not, may answer *)
(* NAK or CAN, and takes nothing for EOT.                                  *)
Narrows == /\ toR' \in Seq(Things) /\ LineOK(toR', count, s_count)
           /\ HasEOT(toR') => HasEOT(toR)
Refuses == /\ r = "running" /\ r' \in {"running", "failed", "timeout"}
           /\ Narrows
           /\ toS' = toS \/ \E c \in {"NAK", "CAN"} : Reply(c)
           /\ retry' \in 0 .. MAX_RETRY + 1
           /\ mistaken' \in {mistaken, mistaken \cup {"SOH"}}
           /\ UNCHANGED <<count, dst, size, sVars, faults, ackLost>>

LEMMA ThinNarrows ==
  ASSUME InStep, toR' \in Seq(Things), Thinned(toR', toR)
  PROVE  Narrows
<1>1. toR \in Seq(Things) /\ LineOK(toR, count, s_count)
  BY TypeParts DEF InStep
<1> QED
  BY <1>1, LineThins DEF Narrows

LEMMA RefusesInStep == ASSUME InStep, Refuses PROVE InStep'
<1>1. /\ toR \in Seq(Things) /\ toS \in Seq(Codes) /\ Len(toS) <= LineSize /\ count \in Nat
  BY TypeParts DEF InStep
<1>2. /\ UNCHANGED <<count, dst, size, s, s_count, s_retry, faults, ackLost>>
      /\ r = "running" /\ r' \in {"running", "failed", "timeout"}
      /\ toR' \in Seq(Things) /\ retry' \in 0 .. MAX_RETRY + 1
      /\ mistaken' \in {mistaken, mistaken \cup {"SOH"}}
  BY DEF Refuses, Narrows, sVars
<1>3. /\ toS' \in Seq(Codes) /\ Len(toS') <= LineSize
      /\ AnswersOK(toS', count, s_count) /\ (HasACK(toS') => HasACK(toS))
  <2>1. CASE toS' = toS
    BY <1>1, <2>1 DEF InStep
  <2>2. CASE \E c \in {"NAK", "CAN"} : Reply(c)
    <3>1. PICK c \in {"NAK", "CAN"} : Reply(c)
      BY <2>2
    <3> QED
      BY <1>1, <3>1, Replied DEF Codes, InStep
  <2> QED
    BY <2>1, <2>2 DEF Refuses
<1>4. LineOK(toR', count, s_count) /\ (HasEOT(toR') => HasEOT(toR))
  BY DEF Refuses, Narrows
<1>5. TypeOK'
  <2>1. TypeOK
    BY DEF InStep
  <2>2. mistaken' \subseteq {"SOH", "EOT"}
    BY <1>2, <2>1, TypeParts
  <2> QED
    BY <1>2, <1>3, <2>1, <2>2, TypeParts, TypePartsNext
<1>6. Ended'
  BY <1>2, <1>3, <1>4 DEF InStep, Ended, SuccessIsComplete, HasACK, HasEOT
<1> QED
  BY <1>2, <1>3, <1>4, <1>5, <1>6
     DEF InStep, ReceivedInOrder, Together, LineOK, AnswersOK, HasACK, Retries

LEMMA RetryType ==
  ASSUME retry \in 0 .. MAX_RETRY + 1
  PROVE  /\ MoreRetry \in 0 .. MAX_RETRY + 1
         /\ \A t \in BOOLEAN : SkipRetry(t) \in 0 .. MAX_RETRY + 1
BY XmodemAssumption DEF MoreRetry, SkipRetry, UpTo

LEMMA BehindThins ==
  ASSUME NEW S, NEW q \in Seq(S), NEW i \in 1 .. Len(q)
  PROVE  /\ SubSeq(q, i + 1, Len(q)) \in Seq(S)
         /\ Len(SubSeq(q, i + 1, Len(q))) = Len(q) - i
         /\ \A j \in 1 .. Len(q) - i : SubSeq(q, i + 1, Len(q))[j] = q[i + j]
         /\ Thinned(SubSeq(q, i + 1, Len(q)), q)
<1> DEFINE p == SubSeq(q, i + 1, Len(q))
           at == [j \in 1 .. Len(p) |-> i + j]
<1>1. Len(q) \in Nat /\ \A j \in 1 .. Len(q) : q[j] \in S
  BY LenProperties, ElementOfSeq
<1>2. /\ p \in Seq(S) /\ Len(p) = Len(q) - i
      /\ \A j \in 1 .. Len(q) - i : p[j] = q[i + j]
  <2>1. \A j \in i + 1 .. Len(q) : q[j] \in S
    BY <1>1
  <2>2. /\ p \in Seq(S)
        /\ Len(p) = (IF i + 1 <= Len(q) THEN Len(q) - (i + 1) + 1 ELSE 0)
        /\ \A j \in 1 .. Len(q) - (i + 1) + 1 : p[j] = q[i + 1 + j - 1]
    BY <1>1, <2>1, SubSeqProperties
  <2> QED
    BY <1>1, <2>2
<1> HIDE DEF p
<1>3. /\ at \in [1 .. Len(p) -> 1 .. Len(q)]
      /\ \A j \in 1 .. Len(p) : p[j] = q[at[j]]
      /\ \A j, k \in 1 .. Len(p) : j < k => at[j] < at[k]
  BY <1>1, <1>2
<1>4. Thinned(p, q)
  BY <1>3 DEF Thinned
<1> QED
  BY <1>2, <1>4 DEF p

(* What is left of a packet of which bytes were used up, and all behind it. *)
LEMMA LoosenedThins ==
  ASSUME NEW q \in Seq(Things), NEW i \in 1 .. Len(q), NEW x \in Things, q[i] = x
  PROVE  /\ <<x>> \o SubSeq(q, i + 1, Len(q)) \in Seq(Things)
         /\ Thinned(<<x>> \o SubSeq(q, i + 1, Len(q)), q)
<1> DEFINE high == SubSeq(q, i + 1, Len(q))
           p == <<x>> \o high
           at == [j \in 1 .. Len(p) |-> i + j - 1]
<1>1. /\ high \in Seq(Things) /\ Len(high) = Len(q) - i /\ Len(q) \in Nat
      /\ \A j \in 1 .. Len(q) - i : high[j] = q[i + j]
  BY BehindThins, LenProperties
<1> HIDE DEF high
<1>2. /\ <<x>> \in Seq(Things) /\ Len(<<x>>) = 1 /\ <<x>>[1] = x
  OBVIOUS
<1>3. /\ p \in Seq(Things) /\ Len(p) = Len(q) - i + 1
      /\ \A j \in 1 .. Len(p) : p[j] = IF j <= 1 THEN x ELSE high[j - 1]
  <2>1. /\ p \in Seq(Things) /\ Len(p) = Len(<<x>>) + Len(high)
        /\ \A j \in 1 .. Len(<<x>>) + Len(high) :
             p[j] = IF j <= Len(<<x>>) THEN <<x>>[j] ELSE high[j - Len(<<x>>)]
    BY <1>1, <1>2, ConcatProperties
  <2> QED
    BY <1>1, <1>2, <2>1
<1> HIDE DEF p
<1>4. at \in [1 .. Len(p) -> 1 .. Len(q)]
  BY <1>1, <1>3
<1>5. ASSUME NEW j \in 1 .. Len(p)
      PROVE  p[j] = q[at[j]]
  <2>1. CASE j = 1
    BY <1>1, <1>3, <2>1
  <2>2. CASE j > 1
    <3>1. j - 1 \in 1 .. Len(q) - i /\ i + (j - 1) = i + j - 1
      BY <1>1, <1>3, <2>2
    <3> QED
      BY <1>1, <1>3, <2>2, <3>1
  <2> QED
    BY <1>1, <1>3, <2>1, <2>2
<1>6. \A j, k \in 1 .. Len(p) : j < k => at[j] < at[k]
  BY <1>1, <1>3
<1> HIDE DEF at
<1>7. Thinned(p, q)
  BY <1>4, <1>5, <1>6 DEF Thinned
<1> QED
  BY <1>3, <1>7 DEF p, high

(* What a reader leaves that was waiting for the rest of a cut packet.     *)
LEMMA CutNarrows == ASSUME InStep, CutFilled \/ CutTimeout PROVE Narrows
<1>1. toR \in Seq(Things) /\ LineOK(toR, count, s_count) /\ Len(toR) \in Nat
  BY TypeParts, LenProperties DEF InStep
<1>2. CASE toR' = <<>>
  BY <1>1, <1>2, EmptyThins, ThinNarrows
<1>3. ASSUME NEW i \in 2 .. Len(toR), toR' = Behind(i)
      PROVE  Narrows
  <2>1. i \in 1 .. Len(toR)
    BY <1>1
  <2> QED
    BY <1>1, <1>3, <2>1, BehindThins, ThinNarrows DEF Behind
<1>4. ASSUME NEW i \in 2 .. Len(toR), toR' = Loosened(toR[i]) \o Behind(i)
      PROVE  Narrows
  <2>1. i \in 1 .. Len(toR) /\ i \in DOMAIN toR
    BY <1>1
  <2>2. CASE ~IsPacket(toR[i])
    <3>1. Behind(i) \in Seq(Things)
      BY <1>1, <2>1, BehindThins DEF Behind
    <3>2. Loosened(toR[i]) \o Behind(i) = Behind(i)
      BY <2>2, <3>1, ConcatEmptySeq DEF Loosened
    <3> QED
      BY <1>3, <1>4, <3>2
  <2>3. CASE IsPacket(toR[i])
    <3> DEFINE x == [toR[i] EXCEPT !.damage = "loose"]
               p == [toR EXCEPT ![i].damage = "loose"]
    <3>1. /\ p \in Seq(Things) /\ Len(p) = Len(toR) /\ p[i] = x /\ x \in Things
          /\ \A j \in 1 .. Len(toR) : j # i => p[j] = toR[j]
          /\ LineOK(p, count, s_count) /\ (HasEOT(p) => HasEOT(toR))
      <4>1. "loose" \in Damages
        BY DEF Damages
      <4> QED
        BY <1>1, <2>1, <2>3, <4>1, LineDamaged
    <3>2. toR' = <<x>> \o Behind(i)
      BY <1>4, <2>3 DEF Loosened
    <3> HIDE DEF x, p
    <3>3. Behind(i) = SubSeq(p, i + 1, Len(p))
      <4>1. /\ Behind(i) \in Seq(Things) /\ Len(Behind(i)) = Len(toR) - i
            /\ \A j \in 1 .. Len(toR) - i : Behind(i)[j] = toR[i + j]
        BY <1>1, <2>1, BehindThins DEF Behind
      <4>2. /\ SubSeq(p, i + 1, Len(p)) \in Seq(Things)
            /\ Len(SubSeq(p, i + 1, Len(p))) = Len(toR) - i
            /\ \A j \in 1 .. Len(toR) - i : SubSeq(p, i + 1, Len(p))[j] = p[i + j]
        BY <2>1, <3>1, BehindThins
      <4>3. \A j \in 1 .. Len(toR) - i : p[i + j] = toR[i + j]
        BY <1>1, <2>1, <3>1
      <4>4. \A j \in 1 .. Len(Behind(i)) : Behind(i)[j] = SubSeq(p, i + 1, Len(p))[j]
        BY <4>1, <4>2, <4>3
      <4> QED
        BY <4>1, <4>2, <4>4, SeqEqual
    <3>4. toR' \in Seq(Things) /\ Thinned(toR', p)
      BY <2>1, <3>1, <3>2, <3>3, LoosenedThins
    <3> QED
      BY <3>1, <3>4, LineThins DEF Narrows
  <2> QED
    BY <2>2, <2>3
<1> QED
  BY <1>2, <1>3, <1>4 DEF CutFilled, CutTimeout

LEMMA SelfThins ==
  ASSUME NEW S, NEW q \in Seq(S)
  PROVE  Thinned(q, q)
<1> DEFINE at == [i \in 1 .. Len(q) |-> i]
<1>1. at \in [1 .. Len(q) -> 1 .. Len(q)]
  OBVIOUS
<1>2. /\ \A i \in 1 .. Len(q) : q[i] = q[at[i]]
      /\ \A i, j \in 1 .. Len(q) : i < j => at[i] < at[j]
  OBVIOUS
<1> QED
  BY <1>1, <1>2 DEF Thinned

LEMMA RefusalInStep ==
  ASSUME InStep, R_bad_sum \/ R_cut \/ R_bad_header \/ R_EOF
  PROVE  InStep'
<1>1. toR \in Seq(Things) /\ retry \in 0 .. MAX_RETRY + 1
  BY TypeParts DEF InStep
<1>2. ASSUME NEW result \in {"failed", "timeout"}, NakOrGiveUp(result), r = "running"
      PROVE  /\ r' \in {"running", "failed", "timeout"} /\ retry' \in 0 .. MAX_RETRY + 1
             /\ \E c \in {"NAK", "CAN"} : Reply(c)
             /\ UNCHANGED <<count, dst, size>>
  BY <1>1, <1>2, RetryType DEF NakOrGiveUp
<1>3. CASE R_bad_sum
  <2>1. Narrows
    BY <1>1, <1>3, TailThins, ThinNarrows DEF R_bad_sum
  <2>2. r = "running" /\ NakOrGiveUp("failed") /\ UNCHANGED <<sVars, noiseVars>>
    BY <1>3 DEF R_bad_sum
  <2> QED
    BY <1>2, <2>1, <2>2, RefusesInStep DEF Refuses, noiseVars
<1>4. CASE R_cut
  <2>1. Narrows
    BY <1>4, CutNarrows DEF R_cut
  <2>2. /\ r = "running" /\ UNCHANGED <<sVars, noiseVars>>
        /\ NakOrGiveUp("failed") \/ (Reply("NAK") /\ UNCHANGED rVars)
    BY <1>4 DEF R_cut
  <2>3. CASE NakOrGiveUp("failed")
    BY <1>2, <2>1, <2>2, <2>3, RefusesInStep DEF Refuses, noiseVars
  <2>4. CASE Reply("NAK") /\ UNCHANGED rVars
    BY <1>1, <2>1, <2>2, <2>4, RefusesInStep DEF Refuses, rVars, noiseVars
  <2> QED
    BY <2>2, <2>3, <2>4
<1>5. CASE R_bad_header
  <2>1. Narrows
    BY <1>1, <1>5, CutNarrows, TailThins, ThinNarrows DEF R_bad_header
  <2>2. \E t \in BOOLEAN : retry' = SkipRetry(t)
    BY <1>5 DEF R_bad_header
  <2>3. retry' \in 0 .. MAX_RETRY + 1
    BY <1>1, <2>2, RetryType
  <2>4. /\ r = "running" /\ r' \in {"running", "failed"}
        /\ \E c \in {"NAK", "CAN"} : Reply(c)
        /\ UNCHANGED <<count, dst, size, sVars, noiseVars>>
    BY <1>5 DEF R_bad_header
  <2> QED
    BY <2>1, <2>3, <2>4, RefusesInStep DEF Refuses, noiseVars
<1>6. CASE R_EOF
  <2>1. Narrows
    BY <1>1, <1>6, SelfThins, ThinNarrows DEF R_EOF
  <2>2. /\ r = "running" /\ UNCHANGED <<sVars, noiseVars>>
        /\ \E result \in {"failed", "timeout"} : NakOrGiveUp(result)
    BY <1>6 DEF R_EOF, RQuiet
  <2> QED
    BY <1>2, <2>1, <2>2, RefusesInStep DEF Refuses, noiseVars
<1> QED
  BY <1>3, <1>4, <1>5, <1>6

(* A byte out of step: unless it is taken for EOT no block is gone.        *)
LEMMA LooseIInv == ASSUME InStep, R_loose PROVE IInv'
<1>1. /\ toR \in Seq(Things) /\ toS \in Seq(Codes) /\ Len(toS) <= LineSize
      /\ retry \in 0 .. MAX_RETRY + 1 /\ LineOK(toR, count, s_count) /\ TypeOK
      /\ count \in Nat
  BY TypeParts DEF InStep
<1>2. /\ r = "running" /\ toR # <<>> /\ IsPacket(Head(toR))
      /\ UNCHANGED <<count, retry, dst, s, s_count, s_retry, faults, ackLost>>
  BY DEF R_loose, sVars
<1>3. Tail(toR) \in Seq(Things) /\ Thinned(Tail(toR), toR)
      /\ Head(toR) = toR[1] /\ 1 \in DOMAIN toR
  BY <1>1, <1>2, TailThins
<1>4. ASSUME toR' = Tail(toR), toS' = toS, r' \in {"running", "failed"},
             size' = size, mistaken' = mistaken
      PROVE  InStep'
  <2>1. Narrows
    BY <1>3, <1>4, ThinNarrows
  <2> QED
    BY <1>1, <1>2, <1>4, <2>1, RefusesInStep DEF Refuses, sVars
<1>5. ASSUME toR' = [toR EXCEPT ![1].damage = "cut"], toS' = toS, r' = r,
             size' = size, mistaken' = mistaken \cup {"SOH"}
      PROVE  InStep'
  <2>1. Narrows
    <3>1. "cut" \in Damages /\ IsPacket(toR[1])
      BY <1>2, <1>3 DEF Damages
    <3>2. LET p == [toR EXCEPT ![1].damage = "cut"]
          IN  /\ p \in Seq(Things) /\ LineOK(p, count, s_count)
              /\ HasEOT(p) => HasEOT(toR)
      BY <1>1, <1>3, <3>1, LineDamaged
    <3> QED
      BY <1>5, <3>2, Zenon DEF Narrows
  <2> QED
    BY <1>1, <1>2, <1>5, <2>1, RefusesInStep DEF Refuses, sVars
<1>6. ASSUME toR' = Tail(toR), r' = "done", size' = count, Reply("ACK"),
             mistaken' = mistaken \cup {"EOT"}
      PROVE  Fooled'
  <2>1. toS' \in Seq(Codes) /\ Len(toS') <= LineSize
    BY <1>1, <1>6, Replied DEF Codes
  <2>2. mistaken' \subseteq {"SOH", "EOT"} /\ "EOT" \in mistaken'
    BY <1>1, <1>6, TypeParts
  <2>3. TypeOK'
    BY <1>1, <1>2, <1>3, <1>6, <2>1, <2>2, TypeParts, TypePartsNext
  <2>4. ReceivedInOrder' /\ Retries'
    BY <1>2 DEF InStep, ReceivedInOrder, Retries
  <2> QED
    BY <1>6, <2>2, <2>3, <2>4 DEF Fooled
<1> QED
  BY <1>2, <1>4, <1>5, <1>6 DEF R_loose, IInv

(* A good block: it is the next one, the sender waits for its answer, and  *)
(* the packets behind it are copies.                                       *)
LEMMA GoodInStep == ASSUME InStep, R_good PROVE InStep'
<1>1. /\ toR \in Seq(Things) /\ toS \in Seq(Codes) /\ Len(toS) <= LineSize /\ count \in Nat
      /\ dst \in Seq(1 .. Blocks) /\ s_count \in {count, count + 1}
      /\ s_count \in 0 .. Blocks
  BY TypeParts DEF InStep, Together
<1>2. /\ r = "running" /\ toR # <<>> /\ IsPacket(Head(toR))
      /\ Head(toR).blk = (count + 1) % SeqMod /\ toR' = Tail(toR)
      /\ UNCHANGED <<s, s_count, s_retry, faults, ackLost, mistaken>>
  BY DEF R_good, HeaderOK, sVars, noiseVars
<1>3. toR' \in Seq(Things) /\ Thinned(toR', toR) /\ Head(toR) \in Things
  BY <1>1, <1>2, TailThins, HeadTailProperties
<1>4. CASE r' = "failed" /\ Reply("CAN") /\ UNCHANGED <<count, retry, dst, size>>
  <2>1. retry \in 0 .. MAX_RETRY + 1
    BY TypeParts DEF InStep
  <2> QED
    BY <1>2, <1>3, <1>4, <2>1, ThinNarrows, RefusesInStep DEF Refuses, sVars
<1>5. CASE /\ dst' = Append(dst, Head(toR).data) /\ size' = count /\ count' = count + 1
           /\ retry' = 0 /\ r' = r /\ Reply("ACK")
  <2>1. /\ Head(toR).data = count + 1 /\ s_count = count + 1
        /\ LineOK(toR', count + 1, s_count)
    BY <1>1, <1>2, LineAccepts DEF InStep
  <2>2. count + 1 \in 1 .. Blocks /\ count + 1 \in Nat /\ count + 1 >= 1 /\ count # Blocks
    BY <1>1, <2>1, XmodemAssumption
  <2>3. ~HasACK(toS)
    BY <1>1, <2>1 DEF InStep, AnswersOK
  <2>4. /\ toS' \in Seq(Codes) /\ Len(toS') <= LineSize
        /\ AnswersOK(toS', count + 1, count + 1)
    BY <1>1, <1>5, <2>2, <2>3, Replied DEF Codes
  <2>5. /\ dst' \in Seq(1 .. Blocks) /\ Len(dst) = count /\ Len(dst') = count + 1
        /\ \A i \in 1 .. count + 1 : dst'[i] = i
    <3>1. Len(dst) = count /\ \A i \in 1 .. count : dst[i] = i
      BY DEF InStep, ReceivedInOrder
    <3>2. /\ dst' \in Seq(1 .. Blocks) /\ Len(dst') = count + 1 /\ dst'[count + 1] = count + 1
          /\ \A i \in 1 .. count : dst'[i] = dst[i]
      BY <1>1, <1>5, <2>1, <2>2, <3>1, AppendProperties
    <3>3. \A i \in 1 .. count + 1 : i \in 1 .. count \/ i = count + 1
      BY <1>1
    <3> QED
      BY <3>1, <3>2, <3>3
  <2>6. TypeOK'
    <3>1. TypeOK /\ 0 \in 0 .. MAX_RETRY + 1
      BY XmodemAssumption DEF InStep
    <3> QED
      BY <1>2, <1>3, <1>5, <2>2, <2>4, <2>5, <3>1, TypeParts, TypePartsNext
  <2>7. s \notin {"eot", "done"} /\ ~HasEOT(toR)
    BY <2>2 DEF InStep, Ended
  <2>8. ~HasEOT(toR')
    BY <1>1, <1>3, <2>7, LineThins
  <2>9. Ended'
    BY <1>2, <1>5, <2>7, <2>8 DEF Ended, HasEOT, SuccessIsComplete
  <2>10. ReceivedInOrder'
    BY <1>5, <2>5 DEF ReceivedInOrder
  <2>11. LineOK(toR, count, s_count)' /\ AnswersOK(toS, count, s_count)'
    <3>1. count' = count + 1 /\ s_count' = count + 1
      BY <1>2, <1>5, <2>1
    <3>2. LineOK(toR', count + 1, count + 1)
      BY <2>1, Zenon
    <3> QED
      BY <3>1, <3>2, <2>4, Zenon DEF LineOK, AnswersOK, HasACK
  <2>12. Together' /\ Retries'
    BY <1>2, <1>5, <2>1 DEF Together, Retries, InStep
  <2> QED
    BY <2>6, <2>9, <2>10, <2>11, <2>12 DEF InStep
<1> QED
  BY <1>4, <1>5 DEF R_good

(* EOT comes behind the last block.                                        *)
LEMMA EotInStep == ASSUME InStep, R_EOT PROVE InStep'
<1>1. /\ toR \in Seq(Things) /\ toS \in Seq(Codes) /\ Len(toS) <= LineSize /\ count \in Nat
      /\ s_count \in {count, count + 1} /\ s_count \in 0 .. Blocks
  BY TypeParts DEF InStep, Together
<1>2. /\ r = "running" /\ toR # <<>> /\ Head(toR) = EOT /\ toR' = Tail(toR)
      /\ r' = "done" /\ size' = count /\ Reply("ACK")
      /\ UNCHANGED <<count, retry, dst, s, s_count, s_retry, faults, ackLost, mistaken>>
  BY DEF R_EOT, sVars, noiseVars
<1>3. toR' \in Seq(Things) /\ Thinned(toR', toR) /\ HasEOT(toR)
  BY <1>1, <1>2, TailThins DEF HasEOT
<1>4. s \in {"eot", "failed"} /\ count = Blocks
  BY <1>2, <1>3 DEF InStep, Ended, SuccessIsComplete
<1>5. s_count = count /\ count >= 1
  BY <1>1, <1>4, XmodemAssumption
<1>6. s = "eot" => ~HasACK(toS)
  BY <1>2 DEF InStep, Ended
<1>7. toS' \in Seq(Codes) /\ Len(toS') <= LineSize /\ AnswersOK(toS', count, s_count)
  <2>1. "ACK" \in Codes
    BY DEF Codes
  <2>2. /\ toS' \in Seq(Codes) /\ Len(toS') <= LineSize
        /\ ~HasACK(toS) => AnswersOK(toS', count, count)
        /\ s = "failed" => toS' = toS
    BY <1>1, <1>2, <1>5, <2>1, Replied
  <2>3. AnswersOK(toS, count, s_count)
    BY DEF InStep
  <2> QED
    BY <1>4, <1>5, <1>6, <2>2, <2>3, Zenon
<1>8. LineOK(toR', count, s_count) /\ (HasEOT(toR') => HasEOT(toR))
  BY <1>1, <1>3, LineThins DEF InStep
<1>9. TypeOK'
  <2>1. TypeOK
    BY DEF InStep
  <2> QED
    BY <1>2, <1>3, <1>7, <2>1, TypeParts, TypePartsNext
<1>10. Ended'
  BY <1>2, <1>4 DEF Ended, SuccessIsComplete, HasEOT
<1> QED
  BY <1>2, <1>7, <1>8, <1>9, <1>10
     DEF InStep, ReceivedInOrder, Together, LineOK, AnswersOK, HasACK, Retries
-----------------------------------------------------------------------------
(* The sender.                                                             *)
LEMMA BlockInStep == ASSUME InStep, S_block PROVE InStep'
<1>1. /\ toR \in Seq(Things) /\ toS \in Seq(Codes) /\ Len(toS) <= LineSize /\ count \in Nat
      /\ s_count \in {count, count + 1} /\ s_count \in 0 .. Blocks
      /\ LineOK(toR, count, s_count) /\ AnswersOK(toS, count, s_count)
  BY TypeParts DEF InStep, Together
<1> DEFINE m == NextBlock(Head(toS))
<1>2. /\ s = "send" /\ toS # <<>> /\ Head(toS) \in {"ACK", "NAK"} /\ toS' = Tail(toS)
      /\ s_retry' = 0 /\ UNCHANGED <<r, count, retry, dst, size, faults, ackLost, mistaken>>
      /\ IF m <= Blocks THEN s' = s /\ s_count' = m /\ Send(Packet(m))
                        ELSE s' = "eot" /\ s_count' = s_count /\ Send(EOT)
  BY DEF S_block, rVars, noiseVars
<1>3. /\ toS' \in Seq(Codes) /\ Len(toS') = Len(toS) - 1 /\ Thinned(toS', toS)
      /\ Head(toS) = toS[1] /\ Len(toS) \in Nat \ {0}
      /\ \A i \in 1 .. Len(toS) - 1 : toS'[i] = toS[i + 1]
  BY <1>1, <1>2, TailThins, HeadTailProperties
<1>4. Len(toS') <= LineSize
  BY <1>1, <1>3, XmodemAssumption
<1>5. ~HasEOT(toR)
  BY <1>2 DEF InStep, Ended
<1>6. ASSUME Head(toS) = "ACK"
      PROVE  s_count = count /\ count >= 1 /\ m = count + 1 /\ ~HasACK(toS')
  <2>1. HasACK(toS) /\ 1 \in 1 .. Len(toS) /\ toS[1] = "ACK"
    BY <1>3, <1>6 DEF HasACK
  <2>2. s_count = count /\ count >= 1
    BY <1>1, <2>1 DEF AnswersOK
  <2>3. m = count + 1
    BY <1>6, <2>2 DEF NextBlock
  <2>4. ASSUME NEW i \in 1 .. Len(toS'), toS'[i] = "ACK"
        PROVE  FALSE
    <3>1. i + 1 \in 1 .. Len(toS) /\ toS[i + 1] = "ACK" /\ i + 1 # 1
      BY <1>3, <2>4
    <3> QED
      BY <1>1, <2>1, <3>1 DEF AnswersOK
  <2> QED
    BY <2>2, <2>3, <2>4 DEF HasACK
<1>7. ASSUME Head(toS) # "ACK"
      PROVE  /\ m = (IF s_count > 0 THEN s_count ELSE 1)
             /\ m \in {count, count + 1} /\ m >= s_count
             /\ HasACK(toS') => m = count
  <2>1. m = IF s_count > 0 THEN s_count ELSE 1
    BY <1>1, <1>2, <1>7 DEF NextBlock
  <2>2. HasACK(toS') => s_count = count /\ count >= 1
    BY <1>1, <1>3, AnswersThin DEF AnswersOK
  <2> QED
    BY <1>1, <2>1, <2>2
<1>8. /\ m \in {count, count + 1} /\ m >= s_count /\ m \in Nat \ {0}
      /\ HasACK(toS') => m = count /\ count >= 1
  <2>1. HasACK(toS') => count >= 1
    BY <1>1, <1>3, AnswersThin DEF AnswersOK
  <2> QED
    BY <1>1, <1>6, <1>7, <2>1
<1>9. AnswersOK(toS', count, s_count)
  BY <1>1, <1>3, AnswersThin
<1> HIDE DEF m
<1>10. CASE m <= Blocks
  <2>1. s' = "send" /\ s_count' = m /\ Send(Packet(m)) /\ m \in 1 .. Blocks
    BY <1>2, <1>8, <1>10, XmodemAssumption
  <2>2. /\ toR' \in Seq(Things) /\ LineOK(toR', count, m) /\ ~HasEOT(toR')
    <3>1. s_count \in Nat /\ s_count <= m
      BY <1>1, <1>8
    <3>2. /\ LineOK(toR, count, m) /\ LineOK(Append(toR, Packet(m)), count, m)
          /\ Append(toR, Packet(m)) \in Seq(Things)
          /\ HasEOT(Append(toR, Packet(m))) => HasEOT(toR)
      BY <1>1, <1>8, <2>1, <3>1, LineSends
    <3> QED
      BY <1>1, <1>5, <2>1, <3>2, Zenon DEF Send
  <2>3. AnswersOK(toS', count, m)
    BY <1>8, <1>9 DEF AnswersOK
  <2>4. TypeOK'
    <3>1. TypeOK /\ 0 \in 0 .. MAX_RETRY + 1 /\ m \in 0 .. Blocks
      BY <2>1, XmodemAssumption DEF InStep
    <3> QED
      BY <1>2, <1>3, <1>4, <2>1, <2>2, <3>1, TypeParts, TypePartsNext
  <2>5. Ended'
    BY <1>2, <2>1, <2>2 DEF InStep, Ended, HasEOT, SuccessIsComplete
  <2>6. LineOK(toR, count, s_count)' /\ AnswersOK(toS, count, s_count)'
    BY <1>2, <2>1, <2>2, <2>3, Zenon DEF LineOK, AnswersOK, HasACK
  <2>7. Together' /\ Retries' /\ ReceivedInOrder'
    BY <1>2, <1>8, <2>1, XmodemAssumption DEF InStep, Together, Retries, ReceivedInOrder
  <2> QED
    BY <2>4, <2>5, <2>6, <2>7 DEF InStep
<1>11. CASE ~(m <= Blocks)
  <2>1. s' = "eot" /\ s_count' = s_count /\ Send(EOT)
    BY <1>2, <1>11
  <2>2. Head(toS) = "ACK" /\ count = Blocks
    BY <1>1, <1>6, <1>7, <1>8, <1>11, XmodemAssumption
  <2>3. toR' \in Seq(Things) /\ LineOK(toR', count, s_count)
    <3>1. Append(toR, EOT) \in Seq(Things) /\ LineOK(Append(toR, EOT), count, s_count)
      BY <1>1, LineEnds
    <3> QED
      BY <1>1, <2>1, <3>1, Zenon DEF Send
  <2>4. TypeOK'
    <3>1. TypeOK /\ 0 \in 0 .. MAX_RETRY + 1
      BY XmodemAssumption DEF InStep
    <3> QED
      BY <1>2, <1>3, <1>4, <2>1, <2>3, <3>1, TypeParts, TypePartsNext
  <2>5. Ended'
    BY <1>2, <1>6, <2>1, <2>2 DEF InStep, Ended, HasEOT, HasACK, SuccessIsComplete
  <2>6. LineOK(toR, count, s_count)' /\ AnswersOK(toS, count, s_count)'
    BY <1>2, <1>9, <2>1, <2>3, Zenon DEF LineOK, AnswersOK, HasACK
  <2>7. Together' /\ Retries' /\ ReceivedInOrder'
    BY <1>2, <2>1, XmodemAssumption DEF InStep, Together, Retries, ReceivedInOrder
  <2> QED
    BY <2>4, <2>5, <2>6, <2>7 DEF InStep
<1> QED
  BY <1>10, <1>11

(* The steps that send no block: the answer read is gone, EOT may be sent. *)
LEMMA SenderInStep ==
  ASSUME InStep, S_start \/ S_CAN \/ S_EOF \/ S_eot \/ S_eot_EOF
  PROVE  InStep'
<1>1. /\ toR \in Seq(Things) /\ toS \in Seq(Codes) /\ Len(toS) <= LineSize /\ count \in Nat
      /\ LineOK(toR, count, s_count) /\ AnswersOK(toS, count, s_count)
      /\ s_retry \in 0 .. MAX_RETRY + 1
  BY TypeParts DEF InStep
<1>2. UNCHANGED <<r, count, retry, dst, size, s_count, faults, ackLost, mistaken>>
  BY DEF S_start, S_CAN, S_EOF, S_eot, S_eot_EOF, lineVars, rVars, noiseVars
<1>3. toS' = toS \/ (toS # <<>> /\ toS' = Tail(toS))
  BY DEF S_start, S_CAN, S_EOF, S_eot, S_eot_EOF, lineVars
<1>4. /\ toS' \in Seq(Codes) /\ Len(toS') <= LineSize
      /\ AnswersOK(toS', count, s_count) /\ (HasACK(toS') => HasACK(toS))
  <2>1. toS # <<>> => Len(toS) \in Nat \ {0} /\ Len(Tail(toS)) = Len(toS) - 1
    BY <1>1, TailThins
  <2>2. Len(toS') <= LineSize
    BY <1>1, <1>3, <2>1, XmodemAssumption
  <2>3. toS' \in Seq(Codes) /\ Thinned(toS', toS)
    BY <1>1, <1>3, TailThins, SelfThins
  <2> QED
    BY <1>1, <2>2, <2>3, AnswersThin
<1>5. /\ toR' \in Seq(Things) /\ LineOK(toR', count, s_count)
      /\ HasEOT(toR') => HasEOT(toR) \/ s = "eot"
  <2>1. toR' = toR \/ (toR' = Append(toR, EOT) /\ s = "eot")
    BY DEF S_start, S_CAN, S_EOF, S_eot, S_eot_EOF, lineVars, Send
  <2> QED
    BY <1>1, <2>1, LineEnds
<1>6. /\ s_retry' \in 0 .. MAX_RETRY + 1
      /\ s' \in {"idle", "send", "eot"} => s_retry' <= MAX_RETRY
  <2>1. \/ s_retry' = s_retry /\ s \in {"idle", "send", "eot"}
        \/ /\ s_retry' = s_retry + 1 /\ s \in {"send", "eot"}
           /\ s' = IF s_retry' > MAX_RETRY THEN "failed" ELSE s
    BY DEF S_start, S_CAN, S_EOF, S_eot, S_eot_EOF
  <2>2. s_retry <= MAX_RETRY
    BY <2>1 DEF InStep, Retries
  <2> QED
    BY <1>1, <2>1, <2>2, XmodemAssumption
<1>7. \/ s = "idle" /\ s' = "send"
      \/ s = "send" /\ s' \in {"send", "failed", "aborted"}
      \/ s = "eot" /\ s' \in {"eot", "failed"}
      \/ s = "eot" /\ s' = "done" /\ HasACK(toS)
  <2>1. ASSUME toS # <<>>, Head(toS) = "ACK"
        PROVE  HasACK(toS)
    BY <1>1, <2>1, TailThins DEF HasACK
  <2> QED
    BY <2>1 DEF S_start, S_CAN, S_EOF, S_eot, S_eot_EOF, EndsTransfer
<1>8. TypeOK'
  <2>1. TypeOK
    BY DEF InStep
  <2> QED
    BY <1>2, <1>4, <1>5, <1>6, <1>7, <2>1, TypeParts, TypePartsNext
<1>9. Ended'
  BY <1>2, <1>4, <1>5, <1>7 DEF InStep, Ended, HasEOT, HasACK, SuccessIsComplete
<1>10. LineOK(toR, count, s_count)' /\ AnswersOK(toS, count, s_count)'
  BY <1>2, <1>4, <1>5, Zenon DEF LineOK, AnswersOK, HasACK
<1>11. Together' /\ Retries' /\ ReceivedInOrder'
  BY <1>2, <1>6 DEF InStep, Together, Retries, ReceivedInOrder
<1> QED
  BY <1>8, <1>9, <1>10, <1>11 DEF InStep
-----------------------------------------------------------------------------
(* The line.                                                               *)
LEMMA NoiseInStep == ASSUME InStep, Noise PROVE InStep'
<1>1. /\ toR \in Seq(Things) /\ toS \in Seq(Codes) /\ Len(toS) <= LineSize
      /\ LineOK(toR, count, s_count) /\ AnswersOK(toS, count, s_count)
  BY TypeParts DEF InStep
<1>2. /\ UNCHANGED <<r, count, retry, dst, size, s, s_count, s_retry>>
      /\ faults' \in 0 .. Faults /\ ackLost' \in BOOLEAN /\ mistaken' = mistaken
  <2>1. faults \in 0 .. Faults /\ ackLost \in BOOLEAN
    BY TypeParts DEF InStep
  <2>2. faults > 0 /\ faults' = faults - 1 /\ ackLost' \in BOOLEAN
    BY <2>1 DEF Noise
  <2> QED
    BY <2>1, <2>2, XmodemAssumption DEF Noise, rVars, sVars
<1>3. /\ toR' \in Seq(Things) /\ LineOK(toR', count, s_count)
      /\ HasEOT(toR') => HasEOT(toR)
  <2>1. CASE \E i \in DOMAIN toR : toR' = Without(toR, i)
    BY <1>1, <2>1, WithoutThins, LineThins
  <2>2. CASE \E i \in DOMAIN toR, how \in Damages \ {"none"} :
               IsPacket(toR[i]) /\ toR' = [toR EXCEPT ![i].damage = how]
    <3>1. PICK i \in DOMAIN toR, how \in Damages \ {"none"} :
               IsPacket(toR[i]) /\ toR' = [toR EXCEPT ![i].damage = how]
      BY <2>2
    <3>2. LET p == [toR EXCEPT ![i].damage = how]
          IN  /\ p \in Seq(Things) /\ LineOK(p, count, s_count)
              /\ HasEOT(p) => HasEOT(toR)
      BY <1>1, <3>1, LineDamaged, Zenon
    <3> QED
      BY <3>1, <3>2, Zenon
  <2>3. CASE toR' = toR
    BY <1>1, <2>3
  <2> QED
    BY <2>1, <2>2, <2>3 DEF Noise
<1>4. /\ toS' \in Seq(Codes) /\ Len(toS') <= LineSize
      /\ AnswersOK(toS', count, s_count) /\ (HasACK(toS') => HasACK(toS))
  <2>1. CASE toS' = toS
    BY <1>1, <2>1
  <2>2. CASE \E i \in DOMAIN toS : toS' = Without(toS, i)
    <3>1. PICK i \in DOMAIN toS : toS' = Without(toS, i)
      BY <2>2
    <3>2. /\ toS' \in Seq(Codes) /\ Len(toS') = Len(toS) - 1 /\ Len(toS) \in Nat
          /\ Thinned(toS', toS)
      BY <1>1, <3>1, WithoutThins
    <3>3. Len(toS') <= LineSize
      BY <1>1, <3>2, XmodemAssumption
    <3> QED
      BY <1>1, <3>2, <3>3, AnswersThin
  <2> QED
    BY <2>1, <2>2 DEF Noise
<1>5. TypeOK'
  <2>1. TypeOK
    BY DEF InStep
  <2> QED
    BY <1>2, <1>3, <1>4, <2>1, TypeParts, TypePartsNext
<1>6. Ended'
  BY <1>2, <1>3, <1>4 DEF InStep, Ended, HasEOT, HasACK, SuccessIsComplete
<1>7. LineOK(toR, count, s_count)' /\ AnswersOK(toS, count, s_count)'
  BY <1>2, <1>3, <1>4, Zenon DEF LineOK, AnswersOK, HasACK
<1>8. Together' /\ Retries' /\ ReceivedInOrder'
  BY <1>2 DEF InStep, Together, Retries, ReceivedInOrder
<1> QED
  BY <1>5, <1>6, <1>7, <1>8 DEF InStep

(* Once a byte out of step was taken for EOT r_xmodem has returned.        *)
LEMMA FooledFooled == ASSUME Fooled, [Next]_vars PROVE Fooled'
<1>1. /\ toR \in Seq(Things) /\ toS \in Seq(Codes) /\ Len(toS) <= LineSize
      /\ TypeOK /\ r = "done" /\ s_count \in 0 .. Blocks /\ "EOT" \in mistaken
      /\ s_retry \in 0 .. MAX_RETRY + 1 /\ faults \in 0 .. Faults /\ ackLost \in BOOLEAN
      /\ s \in {"idle", "send", "eot", "done", "failed", "aborted"}
  BY TypeParts DEF Fooled
<1>2. ~Receiver
  BY <1>1 DEF Receiver, R_good, R_bad_sum, R_cut, R_bad_header, R_loose, R_EOT, R_EOF, RQuiet
<1>3. UNCHANGED <<r, count, retry, dst, size, mistaken>>
  BY <1>2 DEF Next, Sender, S_start, S_block, S_CAN, S_EOF, S_eot, S_eot_EOF, Noise,
              vars, lineVars, rVars, noiseVars
<1>4. /\ toR' \in Seq(Things) /\ faults' \in 0 .. Faults /\ ackLost' \in BOOLEAN
  <2>1. CASE Noise
    <3>1. faults' \in 0 .. Faults /\ ackLost' \in BOOLEAN
      <4>1. faults > 0 /\ faults' = faults - 1 /\ ackLost' \in BOOLEAN
        BY <1>1, <2>1 DEF Noise
      <4> QED
        BY <1>1, <4>1, XmodemAssumption
    <3>2. CASE \E i \in DOMAIN toR : toR' = Without(toR, i)
      BY <1>1, <3>1, <3>2, WithoutThins
    <3>3. CASE \E i \in DOMAIN toR, how \in Damages \ {"none"} :
                 IsPacket(toR[i]) /\ toR' = [toR EXCEPT ![i].damage = how]
      <4>1. PICK i \in DOMAIN toR, how \in Damages \ {"none"} :
                 IsPacket(toR[i]) /\ toR' = [toR EXCEPT ![i].damage = how]
        BY <3>3
      <4>2. [toR EXCEPT ![i].damage = how] \in Seq(Things)
        BY <1>1, <4>1, LineDamaged
      <4> QED
        BY <3>1, <4>1, <4>2
    <3> QED
      BY <1>1, <2>1, <3>1, <3>2, <3>3 DEF Noise
  <2>2. CASE ~Noise
    BY <1>1, <1>2, <2>2 DEF Next, Sender, S_start, S_block, S_CAN, S_EOF, S_eot, S_eot_EOF,
                            vars, lineVars, noiseVars, Send
  <2> QED
    BY <2>1, <2>2
<1>5. toS' \in Seq(Codes) /\ Len(toS') <= LineSize
  <2>1. CASE toS' = toS
    BY <1>1, <2>1
  <2>2. CASE toS # <<>> /\ toS' = Tail(toS)
    <3>1. toS' \in Seq(Codes) /\ Len(toS') = Len(toS) - 1 /\ Len(toS) \in Nat
      BY <1>1, <2>2, TailThins
    <3> QED
      BY <1>1, <3>1, XmodemAssumption
  <2>3. CASE \E i \in DOMAIN toS : toS' = Without(toS, i)
    <3>1. toS' \in Seq(Codes) /\ Len(toS') = Len(toS) - 1 /\ Len(toS) \in Nat
      BY <1>1, <2>3, WithoutThins
    <3> QED
      BY <1>1, <3>1, XmodemAssumption
  <2> QED
    BY <1>2, <2>1, <2>2, <2>3 DEF Next, Sender, S_start, S_block, S_CAN, S_EOF, S_eot,
                                  S_eot_EOF, Noise, vars, lineVars
<1>6. /\ s_count' \in 0 .. Blocks /\ s_retry' \in 0 .. MAX_RETRY + 1
      /\ s' \in {"idle", "send", "eot", "done", "failed", "aborted"}
      /\ s' \in {"idle", "send", "eot"} => s_retry' <= MAX_RETRY
  <2>1. s \in {"idle", "send", "eot"} => s_retry <= MAX_RETRY
    BY DEF Fooled, Retries
  <2>2. CASE S_block
    <3>1. NextBlock(Head(toS)) \in Nat
      BY <1>1 DEF NextBlock
    <3> QED
      BY <1>1, <2>2, <3>1, XmodemAssumption DEF S_block
  <2>3. CASE S_EOF \/ S_eot_EOF
    BY <1>1, <2>1, <2>3, XmodemAssumption DEF S_EOF, S_eot_EOF
  <2>4. CASE S_start \/ S_CAN \/ S_eot
    BY <1>1, <2>1, <2>4 DEF S_start, S_CAN, S_eot
  <2>5. CASE UNCHANGED <<s, s_count, s_retry>>
    BY <1>1, <2>1, <2>5
  <2> QED
    BY <1>2, <2>2, <2>3, <2>4, <2>5 DEF Next, Sender, Noise, vars, sVars
<1>7. TypeOK'
  BY <1>1, <1>3, <1>4, <1>5, <1>6, TypeParts, TypePartsNext
<1>8. ReceivedInOrder' /\ Retries'
  BY <1>3, <1>6 DEF Fooled, ReceivedInOrder, Retries
<1> QED
  BY <1>1, <1>3, <1>7, <1>8 DEF Fooled

LEMMA StepIInv == IInv /\ [Next]_vars => IInv'
<1> SUFFICES ASSUME InStep, [Next]_vars
             PROVE  IInv'
  BY FooledFooled DEF IInv
<1>1. CASE Receiver
  BY <1>1, GoodInStep, RefusalInStep, EotInStep, LooseIInv DEF Receiver, IInv
<1>2. CASE Sender \/ S_start
  BY <1>2, BlockInStep, SenderInStep DEF Sender, IInv
<1>3. CASE Noise
  BY <1>3, NoiseInStep DEF IInv
<1>4. CASE UNCHANGED vars
  <2>1. InStep'
    BY <1>4 DEF vars, lineVars, rVars, sVars, noiseVars, InStep, TypeOK, ReceivedInOrder,
                Together, LineOK, AnswersOK, HasACK, HasEOT, Ended, SuccessIsComplete, Retries
  <2> QED
    BY <2>1 DEF IInv
<1> QED
  BY <1>1, <1>2, <1>3, <1>4 DEF Next

(* The inductive invariant of a transfer, whatever the line does to it:    *)
(* the two sides are in step, or a byte was taken for EOT.                 *)
THEOREM Invariance == Safety => []IInv
<1>1. Init => IInv
  BY InitInStep DEF IInv
<1> QED
  BY <1>1, StepIInv, PTL DEF Safety

(* Types, with the UART's limit and the bounds of the counters.            *)
THEOREM TypeCorrect == Safety => []TypeOK
<1>1. IInv => TypeOK
  BY DEF IInv, InStep, Fooled
<1> QED
  BY <1>1, Invariance, PTL

(* However packets and answers are lost, damaged or repeated, or read out  *)
(* of step, r_xmodem has written the blocks of the source from its         *)
(* beginning, each once: a block is taken only by its number, and no older *)
(* block with that number can be on the line.                              *)
THEOREM OrderKept == Safety => []ReceivedInOrder
<1>1. IInv => ReceivedInOrder
  BY DEF IInv, InStep, Fooled
<1> QED
  BY <1>1, Invariance, PTL

(* r_xmodem returns success only with all blocks, and s_xmodem only when   *)
(* r_xmodem has: EOT is sent behind the answer to the last block, and the  *)
(* ACK that ends the last loop is the answer to EOT.  The one exception is *)
(* a byte out of step that is taken for EOT (xmodem.c:133): r_xmodem       *)
(* returns 0 whatever is missing, and it is on the record in mistaken.     *)
THEOREM SuccessComplete == Safety => []SuccessIsComplete
<1>1. IInv => SuccessIsComplete
  BY DEF IInv, InStep, Fooled, Ended, SuccessIsComplete
<1> QED
  BY <1>1, Invariance, PTL
=============================================================================
