---------------------------- MODULE MonitorProofs ----------------------------
(* The monitor over its bus: memory is the program with the breakpoints     *)
(* asked for, and the table knows them, for every size of memory, table,    *)
(* buffer and window.  The sort of the table and the joining of sequences   *)
(* are recursive functions; what they compute is proved by induction over   *)
(* sets of naturals.                                                        *)
EXTENDS Monitor, ExtMemBusProofs, FiniteSetTheorems, WellFoundedInduction

(* A non-empty set of naturals has a least element. *)
LEMMA LeastElement ==
  ASSUME NEW T \in SUBSET Nat, T # {}
  PROVE  \E m \in T : \A k \in T : m <= k
<1> DEFINE R == OpToRel(<, Nat)
<1>1. \A k, m \in Nat : k < m => <<k, m>> \in R
  BY DEF OpToRel
<1>2. IsWellFoundedOn(R, Nat)
  BY NatLessThanWellFounded, Zenon
<1> HIDE DEF R
<1>3. \E m \in T : \A k \in T : ~ (<<k, m>> \in R)
  BY <1>2, WFMin, Zenon
<1>4. PICK m \in T : \A k \in T : ~ (<<k, m>> \in R)
  BY <1>3
<1>5. \A k \in T : ~ (k < m)
  BY <1>1, <1>4, Zenon
<1>6. \A k \in T : m <= k
  BY <1>5, SMT
<1> QED
  BY <1>6, <1>4

(* Induction up to n, for a set. *)
LEMMA Induction ==
  ASSUME NEW n \in Nat, NEW Good, 0 \in Good,
         \A j \in 1 .. n : j - 1 \in Good => j \in Good
  PROVE  0 .. n \subseteq Good
<1> DEFINE Bad == (0 .. n) \ Good
<1> SUFFICES ASSUME Bad # {} PROVE FALSE
  OBVIOUS
<1>1. Bad \in SUBSET Nat
  OBVIOUS
<1>2. \E m \in Bad : \A k \in Bad : m <= k
  <2> HIDE DEF Bad
  <2> QED  BY <1>1, LeastElement
<1>3. PICK m \in Bad : \A k \in Bad : m <= k
  BY <1>2
<1>4. m \in 1 .. n /\ m - 1 \in 0 .. n /\ m - 1 \notin Bad
  BY <1>3
<1> QED
  BY <1>3, <1>4
-----------------------------------------------------------------------------
(* A run: m steps from t, each of which F gives. *)
IsRun(g, m, S, t, F) ==
  /\ g \in [0 .. m -> S] /\ g[0] = t
  /\ \A j \in 1 .. m : g[j] = F[<<g[j - 1], j>>]

LEMMA RunExists ==
  ASSUME NEW n \in Nat, NEW S, NEW t \in S, NEW F \in [S \X (1 .. n) -> S]
  PROVE  \E g : IsRun(g, n, S, t, F)
<1> DEFINE Good == {m \in 0 .. n : \E g : IsRun(g, m, S, t, F)}
<1>1. 0 \in Good
  <2>1. IsRun([j \in 0 .. 0 |-> t], 0, S, t, F)
    BY DEF IsRun
  <2> QED
    BY <2>1
<1>2. ASSUME NEW j \in 1 .. n, j - 1 \in Good
      PROVE  j \in Good
  <2>1. PICK g : IsRun(g, j - 1, S, t, F)
    BY <1>2
  <2> DEFINE next == F[<<g[j - 1], j>>]
             h == [i \in 0 .. j |-> IF i = j THEN next ELSE g[i]]
  <2>2. g \in [0 .. j - 1 -> S] /\ j - 1 \in 0 .. j - 1
    BY <2>1 DEF IsRun
  <2>3. next \in S
    BY <2>2
  <2>4. h \in [0 .. j -> S] /\ h[0] = t
    <3> HIDE DEF next
    <3> QED  BY <2>1, <2>2, <2>3 DEF IsRun
  <2>5. ASSUME NEW i \in 1 .. j PROVE h[i] = F[<<h[i - 1], i>>]
    <3>1. h[i - 1] = g[i - 1]
      OBVIOUS
    <3>2. CASE i = j
      <4>0. j \in 0 .. j
        OBVIOUS
      <4>1. h[j] = next
        BY <4>0, Zenon
      <4> QED  BY <3>1, <3>2, <4>1, Zenon
    <3>3. CASE i # j
      BY <2>1, <3>1, <3>3 DEF IsRun
    <3> QED
      BY <3>2, <3>3
  <2>6. IsRun(h, j, S, t, F)
    <3> HIDE DEF h
    <3> QED  BY <2>4, <2>5 DEF IsRun
  <2> QED
    <3> HIDE DEF h
    <3>1. j \in 0 .. n
      OBVIOUS
    <3> QED  BY <2>6, <3>1, Zenon
<1> HIDE DEF Good
<1>3. n \in Good
  BY <1>1, <1>2, Induction
<1> QED
  BY <1>3 DEF Good
-----------------------------------------------------------------------------
(* The table of breakpoints.  A slot's opcode is a byte.                    *)
SlotRecords == [in_use : BOOLEAN, address : 0 .. Top, opcode : ByteValues]
Tables == [Slots -> SlotRecords]

Permutes(f) ==
  /\ f \in [Slots -> Slots]
  /\ \A i, j \in Slots : f[i] = f[j] => i = j
  /\ \A j \in Slots : \E i \in Slots : f[i] = j
\* s has the slots of t in another order.
Shuffled(s, t) == \E f : Permutes(f) /\ s = [i \in Slots |-> t[f[i]]]
\* No slot up to j has a higher address than the slot j, from the slot k on.
SettledFrom(t, k) == \A i, j \in Slots : i <= j /\ k <= j => t[i].address <= t[j].address

LEMMA ShuffledItself ==
  ASSUME NEW t \in Tables
  PROVE  Shuffled(t, t)
<1> DEFINE f == [i \in Slots |-> i]
<1>1. Permutes(f)
  BY DEF Permutes
<1>2. t = [i \in Slots |-> t[f[i]]]
  BY DEF Tables
<1> QED
  BY <1>1, <1>2, Zenon DEF Shuffled

LEMMA ShuffledTwice ==
  ASSUME NEW r, NEW s, NEW t, Shuffled(r, s), Shuffled(s, t)
  PROVE  Shuffled(r, t)
<1>1. PICK f : Permutes(f) /\ r = [i \in Slots |-> s[f[i]]]
  BY DEF Shuffled
<1>2. PICK g : Permutes(g) /\ s = [i \in Slots |-> t[g[i]]]
  BY DEF Shuffled
<1> DEFINE h == [i \in Slots |-> g[f[i]]]
<1>3. Permutes(h)
  <2>1. h \in [Slots -> Slots]
    BY <1>1, <1>2 DEF Permutes
  <2>2. \A i, j \in Slots : h[i] = h[j] => i = j
    BY <1>1, <1>2 DEF Permutes
  <2>3. \A j \in Slots : \E i \in Slots : h[i] = j
    BY <1>1, <1>2, SMT DEF Permutes
  <2> HIDE DEF h
  <2> QED  BY <2>1, <2>2, <2>3 DEF Permutes
<1>4. r = [i \in Slots |-> t[h[i]]]
  BY <1>1, <1>2 DEF Permutes
<1> HIDE DEF h
<1> QED
  BY <1>3, <1>4, Zenon DEF Shuffled

(* One comparison exchanges two slots or none. *)
LEMMA ComparedShuffles ==
  ASSUME NEW t \in Tables, NEW j \in 1 .. NumBP - 1
  PROVE  /\ Compared(t, j) \in Tables /\ Shuffled(Compared(t, j), t)
         /\ Compared(t, j)[j].address <= Compared(t, j)[j + 1].address
         /\ \A i \in Slots \ {j, j + 1} : Compared(t, j)[i] = t[i]
         /\ \/ Compared(t, j)[j] = t[j] /\ Compared(t, j)[j + 1] = t[j + 1]
            \/ Compared(t, j)[j] = t[j + 1] /\ Compared(t, j)[j + 1] = t[j]
<1>0. j \in Slots /\ j + 1 \in Slots /\ j # j + 1
  BY NumBPAssumption DEF Slots
<1>1. CASE t[j].address > t[j + 1].address
  <2> DEFINE s == swap_bp(t, j, j + 1)
             f == [i \in Slots |-> IF i = j THEN j + 1 ELSE IF i = j + 1 THEN j ELSE i]
  <2>1. Compared(t, j) = s
    BY <1>1 DEF Compared
  <2>2. s = [i \in Slots |-> t[f[i]]]
    BY <1>0 DEF swap_bp, Tables
  <2>3. Permutes(f)
    BY <1>0, Zenon DEF Permutes
  <2>4. Shuffled(s, t)
    <3> HIDE DEF f, s
    <3> QED  BY <2>2, <2>3, Zenon DEF Shuffled
  <2>5. /\ s \in Tables /\ s[j] = t[j + 1] /\ s[j + 1] = t[j]
        /\ \A i \in Slots \ {j, j + 1} : s[i] = t[i]
    BY <1>0 DEF swap_bp, Tables
  <2>6. t[j].address \in Nat /\ t[j + 1].address \in Nat
    BY <1>0 DEF Tables, SlotRecords
  <2> HIDE DEF s
  <2> QED
    BY <2>1, <2>4, <2>5, <2>6, <1>1
<1>2. CASE ~(t[j].address > t[j + 1].address)
  <2>1. Compared(t, j) = t
    BY <1>2 DEF Compared
  <2>2. t[j].address \in Nat /\ t[j + 1].address \in Nat
    BY <1>0 DEF Tables, SlotRecords
  <2> QED
    BY <2>1, <2>2, <1>2, ShuffledItself
<1> QED
  BY <1>1, <1>2

(* A round brings the highest of its slots to the end. *)
LEMMA RoundSettles ==
  ASSUME NEW t \in Tables, NEW last \in 1 .. NumBP - 1
  PROVE  /\ Round(t, last) \in Tables /\ Shuffled(Round(t, last), t)
         /\ SettledFrom(t, last + 2) => SettledFrom(Round(t, last), last + 1)
<1> DEFINE F == [p \in Tables \X (1 .. last) |-> Compared(p[1], p[2])]
           Step(s) == [j \in 0 .. last |-> IF j = 0 THEN t ELSE Compared(s[j - 1], j)]
           s == CHOOSE s : s = Step(s)
<1>1. last \in Nat /\ \A j \in 1 .. last : j \in 1 .. NumBP - 1 /\ j \in Slots /\ j + 1 \in Slots
  BY NumBPAssumption DEF Slots
<1>2. F \in [Tables \X (1 .. last) -> Tables]
  BY <1>1, ComparedShuffles
<1>3. PICK g : IsRun(g, last, Tables, t, F)
  <2> HIDE DEF F
  <2> QED  BY <1>1, <1>2, RunExists
<1>4. ASSUME NEW j \in 1 .. last PROVE g[j] = Compared(g[j - 1], j)
  <2>1. g[j - 1] \in Tables /\ g[j] = F[<<g[j - 1], j>>]
    <3> HIDE DEF F
    <3> QED  BY <1>1, <1>3 DEF IsRun
  <2> QED  BY <2>1
<1>5. g = Step(g)
  BY <1>1, <1>3, <1>4 DEF IsRun
<1>6. s = Step(s)
  BY <1>5, Zenon
<1>7. Round(t, last) = s[last]
  BY Zenon DEF Round
<1> HIDE DEF F, s
<1>8. s[0] = t /\ \A j \in 1 .. last : s[j] = Compared(s[j - 1], j)
  BY <1>1, <1>6
<1> DEFINE Highest(m) == \A i \in Slots : i <= m + 1 => s[m][i].address <= s[m][m + 1].address
           Good == {m \in 0 .. last : /\ s[m] \in Tables /\ Shuffled(s[m], t)
                                      /\ SettledFrom(t, last + 2) => SettledFrom(s[m], last + 2)
                                      /\ Highest(m)}
<1>9. 0 \in Good
  <2>1. 0 \in 0 .. last
    BY <1>1
  <2>2. Highest(0)
    BY <1>8 DEF Tables, SlotRecords, Slots
  <2> QED
    BY <2>1, <2>2, <1>8, ShuffledItself
<1>10. ASSUME NEW m \in 1 .. last, m - 1 \in Good
       PROVE  m \in Good
  <2> DEFINE r == s[m - 1]
  <2>1. /\ r \in Tables /\ Shuffled(r, t)
        /\ SettledFrom(t, last + 2) => SettledFrom(r, last + 2)
        /\ \A i \in Slots : i <= m => r[i].address <= r[m].address
    BY <1>10
  <2>2. s[m] = Compared(r, m) /\ m \in 1 .. NumBP - 1 /\ m \in 0 .. last
    BY <1>1, <1>8
  <2> HIDE DEF r
  <2>3. /\ s[m] \in Tables /\ Shuffled(s[m], r)
        /\ s[m][m].address <= s[m][m + 1].address
        /\ \A i \in Slots \ {m, m + 1} : s[m][i] = r[i]
        /\ \/ s[m][m] = r[m] /\ s[m][m + 1] = r[m + 1]
           \/ s[m][m] = r[m + 1] /\ s[m][m + 1] = r[m]
    BY <2>1, <2>2, ComparedShuffles
  <2>4. \A i \in Slots : r[i].address \in Nat /\ s[m][i].address \in Nat
    BY <2>1, <2>3 DEF Tables, SlotRecords
  <2>5. Highest(m)
    <3> SUFFICES ASSUME NEW i \in Slots, i <= m + 1
                 PROVE  s[m][i].address <= s[m][m + 1].address
      OBVIOUS
    <3>1. CASE i \in {m, m + 1}
      BY <1>1, <2>3, <2>4, <3>1
    <3>2. CASE i \notin {m, m + 1}
      BY <1>1, <2>1, <2>3, <2>4, <3>2 DEF Slots
    <3> QED
      BY <3>1, <3>2
  <2>6. SettledFrom(t, last + 2) => SettledFrom(s[m], last + 2)
    <3> SUFFICES ASSUME SettledFrom(t, last + 2), NEW i \in Slots, NEW j \in Slots, i <= j, last + 2 <= j
                 PROVE  s[m][i].address <= s[m][j].address
      BY DEF SettledFrom
    <3>1. s[m][j] = r[j]
      BY <2>3 DEF Slots
    <3>2. m <= j /\ m + 1 <= j
      BY DEF Slots
    <3>3. \A k \in Slots : k <= j => r[k].address <= r[j].address
      BY <2>1 DEF SettledFrom
    <3> QED
      BY <1>1, <2>3, <3>1, <3>2, <3>3
  <2>7. Shuffled(s[m], t)
    BY <2>1, <2>3, ShuffledTwice
  <2> QED
    BY <2>2, <2>3, <2>5, <2>6, <2>7
<1>11. last \in Good
  <2> HIDE DEF Good
  <2> QED  BY <1>1, <1>9, <1>10, Induction
<1>12. SettledFrom(t, last + 2) => SettledFrom(s[last], last + 1)
  <2> SUFFICES ASSUME SettledFrom(t, last + 2), NEW i \in Slots, NEW j \in Slots, i <= j, last + 1 <= j
               PROVE  s[last][i].address <= s[last][j].address
    BY DEF SettledFrom
  <2>1. CASE j = last + 1
    BY <1>11, <2>1
  <2>2. CASE j # last + 1
    <3>1. last + 2 <= j
      BY <2>2 DEF Slots
    <3> QED  BY <1>11, <3>1 DEF SettledFrom
  <2> QED
    BY <2>1, <2>2
<1> QED
  BY <1>7, <1>11, <1>12

(* The sort of the breakpoints leaves the slots that were there, in the     *)
(* order of their addresses, whatever the size of the table                 *)
(* (em_debugger.c:107-116).                                                 *)
THEOREM SortSorts ==
  ASSUME NEW t \in Tables
  PROVE  /\ SortBreakPoint(t) \in Tables /\ Shuffled(SortBreakPoint(t), t)
         /\ SettledFrom(SortBreakPoint(t), 1)
<1> DEFINE n == NumBP - 1
           F == [p \in Tables \X (1 .. n) |-> Round(p[1], NumBP - p[2])]
           Step(r) == [i \in 0 .. n |-> IF i = 0 THEN t ELSE Round(r[i - 1], NumBP - i)]
           r == CHOOSE r : r = Step(r)
<1>1. n \in Nat /\ \A i \in 1 .. n : NumBP - i \in 1 .. NumBP - 1
  BY NumBPAssumption
<1>2. F \in [Tables \X (1 .. n) -> Tables]
  BY <1>1, RoundSettles
<1>3. PICK g : IsRun(g, n, Tables, t, F)
  <2> HIDE DEF F, n
  <2> QED  BY <1>1, <1>2, RunExists
<1>4. ASSUME NEW i \in 1 .. n PROVE g[i] = Round(g[i - 1], NumBP - i)
  <2>1. g[i - 1] \in Tables /\ g[i] = F[<<g[i - 1], i>>]
    <3> HIDE DEF F, n
    <3> QED  BY <1>1, <1>3 DEF IsRun
  <2> QED  BY <2>1
<1>5. g = Step(g)
  BY <1>1, <1>3, <1>4 DEF IsRun
<1>6. r = Step(r)
  BY <1>5, Zenon
<1>7. SortBreakPoint(t) = r[n]
  BY Zenon DEF SortBreakPoint
<1> HIDE DEF F, r
<1>8. r[0] = t /\ \A i \in 1 .. n : r[i] = Round(r[i - 1], NumBP - i)
  BY <1>1, <1>6
<1> DEFINE Good == {m \in 0 .. n : /\ r[m] \in Tables /\ Shuffled(r[m], t)
                                   /\ SettledFrom(r[m], NumBP + 1 - m)}
<1>9. 0 \in Good
  <2>1. SettledFrom(t, NumBP + 1)
    BY NumBPAssumption DEF SettledFrom, Slots
  <2> QED
    BY <2>1, <1>1, <1>8, ShuffledItself, NumBPAssumption
<1>10. ASSUME NEW m \in 1 .. n, m - 1 \in Good
       PROVE  m \in Good
  <2> DEFINE q == r[m - 1]
             last == NumBP - m
  <2>1. q \in Tables /\ Shuffled(q, t) /\ last \in 1 .. NumBP - 1
    BY <1>1, <1>10
  <2>2. SettledFrom(q, last + 2)
    <3>1. NumBP + 1 - (m - 1) = last + 2
      BY <1>1, NumBPAssumption
    <3> QED  BY <1>10, <3>1
  <2>3. r[m] = Round(q, last)
    BY <1>8
  <2>4. last + 1 = NumBP + 1 - m /\ m \in 0 .. n
    BY <1>1, NumBPAssumption
  <2> HIDE DEF q, last
  <2>5. r[m] \in Tables /\ Shuffled(r[m], q) /\ SettledFrom(r[m], last + 1)
    BY <2>1, <2>2, <2>3, RoundSettles
  <2>6. Shuffled(r[m], t)
    BY <2>1, <2>5, ShuffledTwice
  <2> QED
    BY <2>4, <2>5, <2>6
<1>11. n \in Good
  <2> HIDE DEF Good, n
  <2> QED  BY <1>1, <1>9, <1>10, Induction
<1>12. NumBP + 1 - n = 2
  BY NumBPAssumption
<1>13. SettledFrom(r[n], 2)
  BY <1>11, <1>12
<1>14. SettledFrom(r[n], 1)
  <2> SUFFICES ASSUME NEW i \in Slots, NEW j \in Slots, i <= j
               PROVE  r[n][i].address <= r[n][j].address
    BY DEF SettledFrom
  <2>1. CASE j = 1
    <3>1. i = j
      BY <2>1 DEF Slots
    <3>2. r[n][j].address \in Nat
      BY <1>11 DEF Tables, SlotRecords
    <3> QED  BY <3>1, <3>2
  <2>2. CASE j # 1
    <3>1. 2 <= j
      BY <2>2 DEF Slots
    <3> QED  BY <1>13, <3>1 DEF SettledFrom
  <2> QED
    BY <2>1, <2>2
<1> QED
  BY <1>7, <1>11, <1>14
-----------------------------------------------------------------------------
(* Sequences joined one after the other. *)
LEMMA FlattenRun ==
  ASSUME NEW S, NEW ss \in Seq(Seq(S)), Len(ss) # 0
  PROVE  \E f : /\ FlattenSeq(ss) = f[Len(ss)] /\ f[1] = ss[1]
                /\ \A j \in 1 .. Len(ss) - 1 : f[j + 1] = f[j] \o ss[j + 1]
                /\ \A j \in 1 .. Len(ss) : f[j] \in Seq(S)
<1> DEFINE n == Len(ss)
           F == [p \in Seq(S) \X (1 .. n - 1) |-> p[1] \o ss[p[2] + 1]]
           Step(f) == [i \in 1 .. n |-> IF i = 1 THEN ss[i] ELSE f[i - 1] \o ss[i]]
           f == CHOOSE f : f = Step(f)
<1>1. n \in Nat /\ n - 1 \in Nat /\ \A i \in 1 .. n : ss[i] \in Seq(S)
  OBVIOUS
<1>2. F \in [Seq(S) \X (1 .. n - 1) -> Seq(S)]
  BY <1>1
<1>3. PICK g : IsRun(g, n - 1, Seq(S), ss[1], F)
  <2>1. ss[1] \in Seq(S)
    BY <1>1
  <2> HIDE DEF F, n
  <2> QED  BY <1>1, <1>2, <2>1, RunExists
<1>4. ASSUME NEW j \in 1 .. n - 1 PROVE g[j] = g[j - 1] \o ss[j + 1]
  <2>1. g[j - 1] \in Seq(S) /\ g[j] = F[<<g[j - 1], j>>]
    <3> HIDE DEF F, n
    <3> QED  BY <1>1, <1>3 DEF IsRun
  <2> QED  BY <2>1
<1> DEFINE h == [i \in 1 .. n |-> g[i - 1]]
<1>5. h = Step(h)
  <2>1. ASSUME NEW i \in 1 .. n PROVE h[i] = Step(h)[i]
    <3>1. CASE i = 1
      BY <1>3, <3>1 DEF IsRun
    <3>2. CASE i # 1
      <4>1. i - 1 \in 1 .. n - 1 /\ i - 1 \in 1 .. n /\ (i - 1) + 1 = i
        BY <3>2, <1>1
      <4>2. g[i - 1] = g[i - 1 - 1] \o ss[i]
        BY <4>1, <1>4
      <4> QED  BY <4>1, <4>2, <3>2
    <3> QED  BY <3>1, <3>2
  <2> QED  BY <2>1
<1>6. f = Step(f)
  <2> HIDE DEF h
  <2> QED  BY <1>5, Zenon
<1>7. FlattenSeq(ss) = f[n]
  BY Zenon DEF FlattenSeq
<1> HIDE DEF f, F, h, n
<1>8. f[1] = ss[1] /\ \A j \in 1 .. n - 1 : f[j + 1] = f[j] \o ss[j + 1]
  <2>1. f[1] = ss[1]
    BY <1>1, <1>6
  <2>2. \A i \in 1 .. n : f[i] = IF i = 1 THEN ss[i] ELSE f[i - 1] \o ss[i]
    BY <1>6
  <2>3. ASSUME NEW j \in 1 .. n - 1, NEW i, i = j + 1 PROVE f[i] = f[j] \o ss[i]
    <3>1. i \in 1 .. n /\ i # 1 /\ i - 1 = j
      BY <1>1, <2>3
    <3> QED  BY <2>2, <3>1
  <2> QED  BY <2>1, <2>3
<1> DEFINE Good == {m \in 0 .. n - 1 : f[m + 1] \in Seq(S)}
<1>9. 0 \in Good
  BY <1>1, <1>8
<1>10. ASSUME NEW m \in 1 .. n - 1, m - 1 \in Good PROVE m \in Good
  <2>1. f[m] \in Seq(S)
    BY <1>10
  <2>2. f[m + 1] = f[m] \o ss[m + 1] /\ ss[m + 1] \in Seq(S)
    <3>1. m + 1 \in 1 .. n
      BY <1>1
    <3> QED  BY <1>1, <1>8, <3>1, Zenon
  <2>3. f[m + 1] \in Seq(S) /\ m \in 0 .. n - 1
    BY <1>1, <2>1, <2>2
  <2> QED  BY <2>3
<1>11. ASSUME NEW j \in 1 .. n PROVE f[j] \in Seq(S)
  <2> HIDE DEF Good
  <2>1. 0 .. n - 1 \subseteq Good
    BY <1>1, <1>9, <1>10, Induction
  <2>2. j - 1 \in Good /\ (j - 1) + 1 = j
    BY <1>1, <2>1
  <2> QED  BY <2>2 DEF Good
<1>12. \A j \in 1 .. n : f[j] \in Seq(S)
  BY <1>11
<1> QED
  BY <1>7, <1>8, <1>12, Zenon DEF n

(* The calls of several operations, one after the other. *)
LEMMA FlattenSeqType ==
  ASSUME NEW S, NEW ss \in Seq(Seq(S))
  PROVE  FlattenSeq(ss) \in Seq(S)
<1>1. CASE Len(ss) = 0
  <2>1. ss = <<>> /\ FlattenSeq(ss) = ss
    BY <1>1 DEF FlattenSeq
  <2>2. <<>> \in Seq(S)
    OBVIOUS
  <2> QED  BY <2>1, <2>2, Zenon
<1>2. CASE Len(ss) # 0
  <2>1. Len(ss) \in 1 .. Len(ss)
    BY <1>2
  <2>2. PICK f : FlattenSeq(ss) = f[Len(ss)] /\ \A j \in 1 .. Len(ss) : f[j] \in Seq(S)
    BY <1>2, FlattenRun, Zenon
  <2> QED  BY <2>1, <2>2, Zenon
<1> QED
  BY <1>1, <1>2

LEMMA FlattenAppend ==
  ASSUME NEW S, NEW ss \in Seq(Seq(S)), NEW s \in Seq(S)
  PROVE  FlattenSeq(Append(ss, s)) = FlattenSeq(ss) \o s
<1> DEFINE ts == Append(ss, s)
           n == Len(ss)
<1>1. /\ ts \in Seq(Seq(S)) /\ Len(ts) = n + 1 /\ n \in Nat
      /\ ts[n + 1] = s /\ \A i \in 1 .. n : ts[i] = ss[i]
  OBVIOUS
<1>2. PICK g : /\ FlattenSeq(ts) = g[n + 1] /\ g[1] = ts[1]
               /\ \A j \in 1 .. n + 1 - 1 : g[j + 1] = g[j] \o ts[j + 1]
  <2>1. Len(ts) # 0
    BY <1>1
  <2> HIDE DEF ts
  <2>2. PICK g : /\ FlattenSeq(ts) = g[Len(ts)] /\ g[1] = ts[1]
                 /\ \A j \in 1 .. Len(ts) - 1 : g[j + 1] = g[j] \o ts[j + 1]
    <3>1. ts \in Seq(Seq(S))
      BY <1>1
    <3>2. \E g : /\ FlattenSeq(ts) = g[Len(ts)] /\ g[1] = ts[1]
                 /\ \A j \in 1 .. Len(ts) - 1 : g[j + 1] = g[j] \o ts[j + 1]
                 /\ \A j \in 1 .. Len(ts) : g[j] \in Seq(S)
      BY <2>1, <3>1, FlattenRun, Zenon
    <3> QED  BY <3>2, Zenon
  <2> HIDE DEF n
  <2>3. Len(ts) = n + 1 /\ Len(ts) - 1 = n + 1 - 1
    BY <1>1
  <2> QED  BY <2>2, <2>3
<1>3. CASE n = 0
  <2>1. FlattenSeq(ss) = <<>>
    BY <1>3 DEF FlattenSeq
  <2>2. FlattenSeq(ts) = s
    <3> HIDE DEF ts
    <3> QED  BY <1>1, <1>2, <1>3
  <2> QED  BY <2>1, <2>2
<1>4. CASE n # 0
  <2>1. PICK f : /\ FlattenSeq(ss) = f[n] /\ f[1] = ss[1]
                 /\ \A j \in 1 .. n - 1 : f[j + 1] = f[j] \o ss[j + 1]
    BY <1>4, FlattenRun
  <2> HIDE DEF ts, n
  <2> DEFINE Good == {m \in 0 .. n - 1 : g[m + 1] = f[m + 1]}
  <2>2. n - 1 \in Nat /\ 0 \in Good
    BY <1>1, <1>2, <1>4, <2>1
  <2>3. ASSUME NEW m \in 1 .. n - 1, m - 1 \in Good PROVE m \in Good
    <3>1. g[m] = f[m]
      BY <2>3
    <3>2. m \in 1 .. n + 1 - 1 /\ m + 1 \in 1 .. n /\ m \in 0 .. n - 1
      BY <1>1, <2>2
    <3>3. g[m + 1] = g[m] \o ts[m + 1] /\ f[m + 1] = f[m] \o ss[m + 1]
      BY <1>2, <2>1, <3>2
    <3>4. ts[m + 1] = ss[m + 1]
      BY <1>1, <3>2
    <3>5. g[m + 1] = f[m + 1]
      BY <3>1, <3>3, <3>4, Zenon
    <3> QED  BY <3>2, <3>5
  <2>4. n - 1 \in Good
    <3> HIDE DEF Good
    <3>1. 0 .. n - 1 \subseteq Good
      BY <2>2, <2>3, Induction
    <3> QED  BY <2>2, <3>1
  <2>5. g[n] = f[n]
    BY <1>1, <2>4
  <2>6. g[n + 1] = g[n] \o ts[n + 1]
    <3>1. n \in 1 .. n + 1 - 1
      BY <1>1, <1>4
    <3> QED  BY <1>2, <3>1
  <2> QED  BY <1>1, <1>2, <2>1, <2>5, <2>6 DEF ts
<1> QED
  BY <1>3, <1>4
-----------------------------------------------------------------------------
(* The pieces of a copy of len bytes at an address of the Z80. *)
Pieces == [win : BOOLEAN, at : Nat, off : Nat, n : Nat, back : {FALSE}]
Tiles(ps, at, len) ==
  /\ ps \in Seq(Pieces) /\ Len(ps) >= 1
  /\ ps[1].off = 0 /\ ps[Len(ps)].off + ps[Len(ps)].n = len
  /\ \A k \in 1 .. Len(ps) - 1 : ps[k + 1].off = ps[k].off + ps[k].n
  /\ \A k \in 1 .. Len(ps) : ps[k].off + ps[k].n <= len
  /\ \A k \in 1 .. Len(ps) : \A i \in 1 .. ps[k].n :
       Cell(ps[k].win, ps[k].at + i - 1) = (at + ps[k].off + i - 1) % N

LEMMA SmallMod ==
  ASSUME NEW m \in Nat \ {0}, NEW x \in 0 .. m - 1
  PROVE  x % m = x /\ (m + x) % m = x
OBVIOUS

(* Through the window lies what the internal RAM hides, elsewhere memory. *)
LEMMA CellOfPiece ==
  /\ \A x \in 0 .. SHADOW - 1 : Cell(TRUE, SHADOW + x) = x
  /\ \A x \in INTERNAL .. N - 1 : Cell(FALSE, x) = x
<1>1. SHADOW \in Nat \ {0} /\ INTERNAL \in Nat /\ INTERNAL <= SHADOW /\ N \in Nat
  BY MapAssumption
<1>2. ASSUME NEW x \in 0 .. SHADOW - 1 PROVE Cell(TRUE, SHADOW + x) = x
  <2>1. (SHADOW + x) % SHADOW = x
    BY <1>1, SmallMod
  <2> QED  BY <1>1, <2>1 DEF Cell
<1> QED
  BY <1>1, <1>2 DEF Cell

LEMMA WindowPiece ==
  ASSUME NEW x \in Nat, NEW off \in Nat, NEW n \in Nat, x + n <= SHADOW
  PROVE  LET p == Window(x, off, n)
         IN  /\ p \in Pieces /\ p.off = off /\ p.n = n
             /\ \A i \in 1 .. n : Cell(p.win, p.at + i - 1) = x + i - 1
<1>1. SHADOW \in Nat
  BY MapAssumption
<1>2. Window(x, off, n) = [win |-> TRUE, at |-> SHADOW + x, off |-> off, n |-> n, back |-> FALSE]
  BY Zenon DEF Window, Piece
<1>3. Window(x, off, n) \in Pieces
  BY <1>1, <1>2 DEF Pieces
<1>4. ASSUME NEW i \in 1 .. n PROVE Cell(TRUE, SHADOW + x + i - 1) = x + i - 1
  <2>1. x + i - 1 \in 0 .. SHADOW - 1 /\ SHADOW + x + i - 1 = SHADOW + (x + i - 1)
    BY <1>1
  <2> QED  BY <2>1, CellOfPiece
<1> DEFINE p == Window(x, off, n)
<1>5. p.win = TRUE /\ p.at = SHADOW + x /\ p.off = off /\ p.n = n
  BY <1>2
<1>6. p \in Pieces
  BY <1>3
<1> HIDE DEF p
<1>7. \A i \in 1 .. n : Cell(p.win, p.at + i - 1) = x + i - 1
  BY <1>4, <1>5
<1> QED
  BY <1>5, <1>6, <1>7 DEF p

LEMMA RealPiece ==
  ASSUME NEW x \in Nat, NEW off \in Nat, NEW n \in Nat, INTERNAL <= x, x + n <= N
  PROVE  LET p == Real(x, off, n)
         IN  /\ p \in Pieces /\ p.off = off /\ p.n = n
             /\ \A i \in 1 .. n : Cell(p.win, p.at + i - 1) = x + i - 1
<1>1. N \in Nat /\ INTERNAL \in Nat
  BY MapAssumption
<1>2. Real(x, off, n) = [win |-> FALSE, at |-> x, off |-> off, n |-> n, back |-> FALSE]
  BY Zenon DEF Real, Piece
<1>3. Real(x, off, n) \in Pieces
  BY <1>1, <1>2 DEF Pieces
<1>4. ASSUME NEW i \in 1 .. n PROVE Cell(FALSE, x + i - 1) = x + i - 1
  <2>1. x + i - 1 \in INTERNAL .. N - 1
    BY <1>1
  <2> QED  BY <2>1, CellOfPiece
<1> DEFINE p == Real(x, off, n)
<1>5. p.win = FALSE /\ p.at = x /\ p.off = off /\ p.n = n
  BY <1>2
<1>6. p \in Pieces
  BY <1>3
<1> HIDE DEF p
<1>7. \A i \in 1 .. n : Cell(p.win, p.at + i - 1) = x + i - 1
  BY <1>4, <1>5
<1> QED
  BY <1>5, <1>6, <1>7 DEF p

(* One piece that lies at the address, or two that lie one after the other, *)
(* perhaps round the end of memory.                                         *)
LEMMA OneTile ==
  ASSUME NEW at \in Memory, NEW len \in Nat, NEW p \in Pieces, at + len <= N,
         p.off = 0, p.n = len,
         \A i \in 1 .. len : Cell(p.win, p.at + i - 1) = at + i - 1
  PROVE  Tiles(<<p>>, at, len)
<1>1. N \in Nat \ {0}
  BY MapAssumption
<1>2. ASSUME NEW i \in 1 .. len PROVE (at + p.off + i - 1) % N = at + i - 1
  <2>1. at + i - 1 \in 0 .. N - 1 /\ at + p.off + i - 1 = at + i - 1
    BY <1>1 DEF Memory
  <2> QED  BY <2>1, <1>1, SmallMod
<1> QED
  BY <1>2 DEF Tiles

LEMMA TwoTiles ==
  ASSUME NEW at \in Memory, NEW len \in Nat, NEW m \in 0 .. len, NEW p \in Pieces, NEW q \in Pieces,
         at + m <= N, p.off = 0, p.n = m, q.off = m, q.n = len - m,
         \A i \in 1 .. m : Cell(p.win, p.at + i - 1) = at + i - 1,
         \/ at + len <= N /\ \A i \in 1 .. len - m : Cell(q.win, q.at + i - 1) = at + m + i - 1
         \/ /\ at + m = N /\ len - m <= N
            /\ \A i \in 1 .. len - m : Cell(q.win, q.at + i - 1) = i - 1
  PROVE  Tiles(<<p, q>>, at, len)
<1>1. N \in Nat \ {0} /\ at \in Nat
  BY MapAssumption DEF Memory
<1>2. ASSUME NEW i \in 1 .. m PROVE (at + p.off + i - 1) % N = at + i - 1
  <2>1. at + i - 1 \in 0 .. N - 1 /\ at + p.off + i - 1 = at + i - 1
    BY <1>1
  <2> QED  BY <2>1, <1>1, SmallMod
<1>3. ASSUME NEW i \in 1 .. len - m PROVE (at + q.off + i - 1) % N = Cell(q.win, q.at + i - 1)
  <2>1. CASE at + len <= N /\ \A j \in 1 .. len - m : Cell(q.win, q.at + j - 1) = at + m + j - 1
    <3>1. at + m + i - 1 \in 0 .. N - 1
      BY <1>1, <2>1
    <3> QED  BY <3>1, <1>1, <2>1, SmallMod
  <2>2. CASE /\ at + m = N /\ len - m <= N
             /\ \A j \in 1 .. len - m : Cell(q.win, q.at + j - 1) = j - 1
    <3>1. i - 1 \in 0 .. N - 1 /\ at + q.off + i - 1 = N + (i - 1)
      BY <1>1, <2>2
    <3> QED  BY <3>1, <1>1, <2>2, SmallMod
  <2> QED
    BY <2>1, <2>2
<1>4. <<p, q>> \in Seq(Pieces) /\ Len(<<p, q>>) = 2 /\ <<p, q>>[1] = p /\ <<p, q>>[2] = q
  OBVIOUS
<1> HIDE DEF Pieces
<1>5. \A k \in 1 .. 2 : k = 1 \/ k = 2
  OBVIOUS
<1>6. p.off + p.n <= len /\ q.off + q.n = len
  OBVIOUS
<1> QED
  BY <1>2, <1>3, <1>4, <1>5, <1>6 DEF Tiles

LEMMA ByteTiles ==
  ASSUME NEW a \in Memory
  PROVE  Tiles(byte_at(a), a, 1)
<1>1. a \in Nat /\ a + 1 <= N /\ INTERNAL \in Nat /\ SHADOW \in Nat /\ INTERNAL <= SHADOW
  BY MapAssumption DEF Memory
<1>2. CASE a < INTERNAL
  <2>1. a + 1 <= SHADOW
    BY <1>1, <1>2
  <2> QED  BY <1>1, <1>2, <2>1, WindowPiece, OneTile DEF byte_at
<1>3. CASE ~(a < INTERNAL)
  BY <1>1, <1>3, RealPiece, OneTile DEF byte_at
<1> QED
  BY <1>2, <1>3

(* Each of the cases above read_extram, for up to a block.                  *)
LEMMA ReadTiles ==
  ASSUME NEW src \in Memory, NEW len \in 1 .. Block
  PROVE  Tiles(read_extram(src, len), src, len)
<1>1. /\ src \in Nat /\ src < N /\ INTERNAL \in Nat /\ SHADOW \in Nat /\ INTERNAL <= SHADOW
      /\ N \in Nat /\ 2 * SHADOW <= N /\ Block \in Nat /\ INTERNAL + Block <= SHADOW + 1
      /\ Block <= INTERNAL
  BY MapAssumption, BufAssumption, WindowAssumption DEF Memory
<1>2. CASE src < INTERNAL /\ src <= INTERNAL - len
  <2>1. read_extram(src, len) = <<Window(src, 0, len)>>
    BY <1>2 DEF read_extram
  <2>2. src + len <= SHADOW /\ src + len <= N
    BY <1>1, <1>2
  <2> QED  BY <1>1, <2>1, <2>2, WindowPiece, OneTile
<1>3. CASE src < INTERNAL /\ ~(src <= INTERNAL - len)
  <2> DEFINE m == INTERNAL - src
  <2>1. read_extram(src, len) = <<Window(src, 0, m), Real(INTERNAL, m, len - m)>>
    BY <1>3 DEF read_extram
  <2>2. /\ m \in 0 .. len /\ src + m <= SHADOW /\ src + m = INTERNAL /\ src + m <= N
        /\ INTERNAL + (len - m) <= N /\ src + len <= N /\ len - m \in Nat
    BY <1>1, <1>3
  <2> HIDE DEF m
  <2>3. LET p == Window(src, 0, m)
        IN  /\ p \in Pieces /\ p.off = 0 /\ p.n = m
            /\ \A i \in 1 .. m : Cell(p.win, p.at + i - 1) = src + i - 1
    BY <1>1, <2>2, WindowPiece
  <2>4. LET q == Real(INTERNAL, m, len - m)
        IN  /\ q \in Pieces /\ q.off = m /\ q.n = len - m
            /\ \A i \in 1 .. len - m : Cell(q.win, q.at + i - 1) = src + m + i - 1
    BY <1>1, <2>2, RealPiece
  <2> QED  BY <1>1, <2>1, <2>2, <2>3, <2>4, TwoTiles
<1>4. CASE ~(src < INTERNAL) /\ src <= N - len
  <2>1. read_extram(src, len) = <<Real(src, 0, len)>>
    BY <1>4 DEF read_extram
  <2> QED  BY <1>1, <1>4, <2>1, RealPiece, OneTile
<1>5. CASE ~(src < INTERNAL) /\ ~(src <= N - len)
  <2> DEFINE m == N - src
  <2>1. read_extram(src, len) = <<Real(src, 0, m), Window(0, m, len - m)>>
    BY <1>5 DEF read_extram
  <2>2. /\ m \in 0 .. len /\ src + m <= N /\ src + m = N /\ INTERNAL <= src
        /\ 0 + (len - m) <= SHADOW /\ len - m <= N /\ len - m \in Nat
    BY <1>1, <1>5
  <2> HIDE DEF m
  <2>3. LET q == Window(0, m, len - m)
        IN  /\ q \in Pieces /\ q.off = m /\ q.n = len - m
            /\ \A i \in 1 .. len - m : Cell(q.win, q.at + i - 1) = i - 1
    BY <2>2, WindowPiece
  <2> QED  BY <1>1, <2>1, <2>2, <2>3, RealPiece, TwoTiles
<1> QED
  BY <1>2, <1>3, <1>4, <1>5

(* A write that ends in memory never meets the cases that copy the wrong    *)
(* way; where it crosses the internal RAM the window is long enough.        *)
LEMMA WriteTiles ==
  ASSUME NEW dst \in Memory, NEW len \in 0 .. Block, dst + len <= N
  PROVE  Tiles(write_extram(dst, len), dst, len)
<1>1. /\ dst \in Nat /\ dst < N /\ INTERNAL \in Nat /\ SHADOW \in Nat /\ INTERNAL <= SHADOW
      /\ N \in Nat /\ 2 * SHADOW <= N /\ Block \in Nat /\ INTERNAL + Block <= SHADOW + 1
      /\ Buf <= INTERNAL - len /\ len \in Nat
  BY MapAssumption, BufAssumption, WindowAssumption DEF Memory
<1>2. CASE dst < INTERNAL
  <2>1. write_extram(dst, len) = <<Window(dst, 0, len)>>
    BY <1>1, <1>2 DEF write_extram
  <2>2. dst + len <= SHADOW
    BY <1>1, <1>2
  <2> QED  BY <1>1, <2>1, <2>2, WindowPiece, OneTile
<1>3. CASE ~(dst < INTERNAL)
  <2>1. write_extram(dst, len) = <<Real(dst, 0, len)>>
    BY <1>1, <1>3 DEF write_extram
  <2> QED  BY <1>1, <1>3, <2>1, RealPiece, OneTile
<1> QED
  BY <1>2, <1>3

(* A piece of a copy that ends in memory stores its part of the bytes at    *)
(* their place and leaves every other cell alone.                           *)
LEMMA StorePiece ==
  ASSUME NEW at \in Memory, NEW len \in Nat, at + len <= N, NEW ps, Tiles(ps, at, len),
         NEW k \in 1 .. Len(ps), NEW m \in [Cells -> ByteValues],
         NEW bytes \in Seq(ByteValues), Len(bytes) = len
  PROVE  /\ store(m, ps[k], bytes) \in [Cells -> ByteValues]
         /\ \A c \in Cells : store(m, ps[k], bytes)[c] =
              IF c - at \in ps[k].off .. ps[k].off + ps[k].n - 1 THEN bytes[c - at + 1] ELSE m[c]
<1> DEFINE p == ps[k]
           here(c) == {i \in 1 .. p.n : Cell(p.win, p.at + i - 1) = c}
           byte(i) == IF p.back THEN m[Cell(p.win, SHADOW + i - 1)] ELSE bytes[p.off + i]
           value(c) == IF here(c) = {} THEN m[c] ELSE byte(CHOOSE i \in here(c) : TRUE)
<1>0. p \in Pieces
  BY DEF Tiles
<1>1. p.off \in Nat /\ p.n \in Nat /\ p.back = FALSE
  BY <1>0 DEF Pieces
<1>2. N \in Nat \ {0} /\ at \in Nat /\ INTERNAL \in Nat
  BY MapAssumption DEF Memory
<1>7. p.off + p.n <= len
  BY DEF Tiles
<1>8. \A i \in 1 .. p.n : Cell(p.win, p.at + i - 1) = (at + p.off + i - 1) % N
  BY DEF Tiles
<1>3. ASSUME NEW i \in 1 .. p.n PROVE Cell(p.win, p.at + i - 1) = at + p.off + i - 1
  <2> HIDE DEF p
  <2>1. at + p.off + i - 1 \in 0 .. N - 1
    BY <1>1, <1>2, <1>7
  <2>2. (at + p.off + i - 1) % N = at + p.off + i - 1
    BY <1>2, <2>1, SmallMod
  <2> QED  BY <1>8, <2>2
<1>4. store(m, p, bytes) = [c \in Cells |-> value(c)]
  BY DEF store
<1> HIDE DEF p
<1>5. ASSUME NEW c \in Cells, c - at \in p.off .. p.off + p.n - 1
      PROVE  value(c) = bytes[c - at + 1] /\ bytes[c - at + 1] \in ByteValues
  <2> DEFINE j == c - at - p.off + 1
  <2>1. c \in Int /\ j \in 1 .. p.n /\ at + p.off + j - 1 = c /\ p.off + j = c - at + 1
    BY <1>1, <1>2, <1>5 DEF Cells
  <2>7. p.off + p.n <= Len(bytes)
    BY <1>7
  <2> HIDE DEF j
  <2>2. \A i \in 1 .. p.n : at + p.off + i - 1 = c => i = j
    BY <1>1, <1>2, <2>1
  <2>3. here(c) = {j}
    BY <1>3, <2>1, <2>2
  <2>4. (CHOOSE i \in here(c) : TRUE) = j
    BY <2>3
  <2>5. value(c) = bytes[p.off + j]
    BY <1>1, <2>3, <2>4
  <2>6. c - at + 1 \in 1 .. Len(bytes)
    BY <1>1, <2>1, <2>7
  <2> QED
    BY <2>1, <2>5, <2>6
<1>6. ASSUME NEW c \in Cells, c - at \notin p.off .. p.off + p.n - 1
      PROVE  value(c) = m[c] /\ m[c] \in ByteValues
  <2>0. c \in Int
    BY <1>2 DEF Cells
  <2>1. \A i \in 1 .. p.n : at + p.off + i - 1 # c
    BY <1>1, <1>2, <1>6, <2>0
  <2>2. here(c) = {}
    BY <1>3, <2>1
  <2> QED
    BY <2>2
<1> HIDE DEF value
<1> QED
  BY <1>4, <1>5, <1>6 DEF p
-----------------------------------------------------------------------------
(* The calls a command makes: of the bytes of memory, or of breakpoints,    *)
(* never both.                                                              *)
DataCalls ==
  {Read(a) : a \in Memory} \cup {WriteByte(a, d) : a \in Memory, d \in ByteValues}
  \cup {Write(a, b) : a \in Memory, b \in Packets}
BreakCalls == {Add(p) : p \in Memory} \cup {Delete(p) : p \in Memory}

InBus == pc[0] \in BusPcs
Doing(op) == InBus /\ call.op = op
\* The pieces copied so far, and the bytes.
Done == Len(call.ps) - Len(todo) + IF pc[0] \in {"leave", "detach", "release"} THEN 1 ELSE 0
DoneBytes == IF Done = 0 THEN 0 ELSE call.ps[Done].off + call.ps[Done].n

\* What a call puts into memory, and what lies there now.
Puts == IF call.op = "delete" THEN <<prog[call.at]>> ELSE call.bytes
Now(a) ==
  IF InBus /\ call.op # "read" /\ a - call.at \in 0 .. DoneBytes - 1
    THEN Puts[a - call.at + 1] ELSE Shown(a)

(* The parts of the inductive invariant.  A copy that was lost leaves the   *)
(* table in order, but not what it hides; a free slot has the address Top,  *)
(* so nothing is said of a breakpoint there but that a slot holds it.       *)
Phases == {"program", "in", "high", "low", "regs", "halt"}
MTypes ==
  /\ mem \in [Cells -> ByteValues] /\ prog \in [Memory -> ByteValues]
  /\ bp_table \in Tables /\ asked \subseteq Memory
  /\ bp_adr \in Memory /\ dbginfo_state \in 0 .. 2
  /\ phase \in [at : Phases, p : Memory]

Jobs ==
  /\ job \in Seq(DataCalls) \cup Seq(BreakCalls)
  /\ \A i \in DOMAIN job : Safe(job[i])

InCalls ==
  InBus => /\ job # <<>> /\ Len(todo) \in 1 .. Len(call.ps)
           /\ pc[0] \in {"detach", "release"} => Len(todo) = 1

\* The slots in use have the addresses A, once each, or Top; a free one has Top.
Holding(t, A) ==
  /\ \A i \in Slots :
       IF t[i].in_use THEN t[i].address \in A \cup {Top} ELSE t[i].address = Top
  /\ \A a \in A : \E i \in Slots : Holds(t, i, a)
  /\ \A i, j \in Slots :
       t[i].in_use /\ t[j].in_use /\ t[i].address = t[j].address => i = j \/ t[i].address = Top
Hides(t, a) == \A i \in Slots : Holds(t, i, a) => t[i].opcode = prog[a]

TableNow ==
  /\ Holding(bp_table, IF Doing("add") THEN asked \cup {call.at} ELSE asked)
  /\ Doing("add") /\ call.at # Top => call.at \notin asked
  /\ Doing("delete") => \E i \in Slots : Holds(bp_table, i, call.at)
  /\ ~Doing("add") => SettledFrom(bp_table, 1)

Reporting ==
  /\ phase.at # "program" => phase.p \in Addresses
  /\ phase.at = "high" => dbginfo_state = 0
  /\ phase.at = "low" => dbginfo_state = 1 /\ bp_adr = (phase.p \div Byte) * Byte
  /\ phase.at = "regs" => dbginfo_state = 2
  /\ phase.at \in {"regs", "halt"} => bp_adr = phase.p

\* What holds as long as no copy was lost.
MemoryNow ==
  /\ \A a \in Memory \ {Top} : mem[a] = Now(a)
  /\ \A c \in Cells \ Memory : mem[c] = 0

BufferNow ==
  IF Doing("read")
    THEN /\ buf \in [1 .. DoneBytes -> ByteValues]
         /\ \A i \in 1 .. DoneBytes :
              (call.at + i - 1) % N # Top => buf[i] = Shown((call.at + i - 1) % N)
    ELSE buf = <<>>

OpcodesNow ==
  /\ \A a \in asked \ {Top} : Hides(bp_table, a)
  /\ Doing("add") /\ call.at # Top /\ Done = 1 => Hides(bp_table, call.at)

Exact == MemoryNow /\ BufferNow /\ OpcodesNow

MInv ==
  /\ MTypes /\ Jobs /\ InCalls /\ TableNow /\ Reporting
  /\ lost \/ Exact
-----------------------------------------------------------------------------
\* The bytes a call copies.
Size(c) ==
  CASE c.op = "read" -> Block [] c.op = "write" -> Len(c.bytes) [] OTHER -> 1

(* What is true of every call that is asked for. *)
GoodCall(c) ==
  /\ c.op \in {"read", "write", "add", "delete"} /\ c.at \in Memory
  /\ Size(c) \in Nat /\ Tiles(c.ps, c.at, Size(c))
  /\ c.op # "read" => c.at + Size(c) <= N
  /\ c.op = "write" => c.bytes \in Seq(ByteValues) /\ c.ref = c.bytes
  /\ c.op = "add" => c.bytes = <<RST>>
  /\ c.op \in {"add", "delete"} => Len(c.ps) = 1

LEMMA DataCallsGood ==
  ASSUME NEW c \in DataCalls, Safe(c)
  PROVE  GoodCall(c) /\ c.op \in {"read", "write"}
<1>1. N \in Nat /\ Memory \subseteq Nat /\ Block \in Nat \ {0} /\ \A a \in Memory : a + 1 <= N
  BY MapAssumption, BufAssumption DEF Memory
<1>2. ASSUME NEW a \in Memory, c = Read(a) PROVE GoodCall(c) /\ c.op = "read"
  <2>1. c.op = "read" /\ c.at = a /\ c.ps = read_extram(a, Block)
    BY <1>2 DEF Read, Call
  <2>2. Size(c) = Block
    BY <2>1 DEF Size
  <2>3. Tiles(c.ps, c.at, Size(c))
    BY <1>1, <2>1, <2>2, ReadTiles
  <2> QED
    BY <1>1, <2>1, <2>2, <2>3 DEF GoodCall
<1>3. ASSUME NEW a \in Memory, NEW d \in ByteValues, c = WriteByte(a, d)
      PROVE  GoodCall(c) /\ c.op = "write"
  <2>1. c.op = "write" /\ c.at = a /\ c.ps = byte_at(a) /\ c.bytes = <<d>> /\ c.ref = <<d>>
    BY <1>3 DEF WriteByte, Call
  <2>2. Size(c) = 1 /\ <<d>> \in Seq(ByteValues)
    BY <2>1 DEF Size
  <2>3. Tiles(c.ps, c.at, Size(c))
    BY <2>1, <2>2, ByteTiles
  <2> QED
    BY <1>1, <2>1, <2>2, <2>3 DEF GoodCall
<1>4. ASSUME NEW a \in Memory, NEW b \in Packets, c = Write(a, b)
      PROVE  GoodCall(c) /\ c.op = "write"
  <2>1. c.op = "write" /\ c.at = a /\ c.ps = write_extram(a, Len(b)) /\ c.bytes = b /\ c.ref = b
    BY <1>4 DEF Write, Call
  <2>2. b \in Seq(ByteValues) /\ Len(b) \in 0 .. Block
    BY <1>1, BytesAssumption
  <2>3. Size(c) = Len(b) /\ a + Len(b) <= N
    BY <2>1 DEF Size, Safe
  <2>4. Tiles(c.ps, c.at, Size(c))
    BY <2>1, <2>2, <2>3, WriteTiles
  <2>5. Size(c) \in Nat
    BY <2>2, <2>3
  <2> QED
    BY <2>1, <2>2, <2>3, <2>4, <2>5 DEF GoodCall
<1>5. \/ \E a \in Memory : c = Read(a)
      \/ \E a \in Memory, d \in ByteValues : c = WriteByte(a, d)
      \/ \E a \in Memory, b \in Packets : c = Write(a, b)
  BY DEF DataCalls
<1> QED
  BY <1>2, <1>3, <1>4, <1>5

LEMMA BreakCallsGood ==
  ASSUME NEW c \in BreakCalls
  PROVE  GoodCall(c) /\ c.op \in {"add", "delete"}
<1>1. N \in Nat /\ Memory \subseteq Nat /\ \A a \in Memory : a + 1 <= N
  BY MapAssumption DEF Memory
<1>2. ASSUME NEW a \in Memory, c.at = a, c.ps = byte_at(a), c.op \in {"add", "delete"},
             c.op = "add" => c.bytes = <<RST>>
      PROVE  GoodCall(c)
  <2>1. Size(c) = 1
    BY <1>2 DEF Size
  <2>2. Tiles(c.ps, c.at, Size(c))
    BY <1>2, <2>1, ByteTiles
  <2>3. Len(c.ps) = 1
    BY <1>2 DEF byte_at
  <2> QED
    BY <1>1, <1>2, <2>1, <2>2, <2>3 DEF GoodCall
<1>3. ASSUME NEW a \in Memory, c = Add(a) PROVE GoodCall(c) /\ c.op = "add"
  <2>1. c.op = "add" /\ c.at = a /\ c.ps = byte_at(a) /\ c.bytes = <<RST>>
    BY <1>3 DEF Add, Call
  <2> QED
    BY <1>2, <2>1
<1>4. ASSUME NEW a \in Memory, c = Delete(a) PROVE GoodCall(c) /\ c.op = "delete"
  <2>1. c.op = "delete" /\ c.at = a /\ c.ps = byte_at(a)
    BY <1>4 DEF Delete, Call
  <2> QED
    BY <1>2, <2>1
<1>5. (\E a \in Memory : c = Add(a)) \/ \E a \in Memory : c = Delete(a)
  BY DEF BreakCalls
<1> QED
  BY <1>3, <1>4, <1>5
-----------------------------------------------------------------------------
(* The monitor's steps are steps of the bus, or leave it alone. *)
LEMMA StepIsBusStep == [MNext]_mvars => [Next]_vars
<1> SUFFICES ASSUME [MNext]_mvars PROVE Next \/ UNCHANGED vars
  OBVIOUS
<1>1. CASE Quiet
  BY <1>1, Zenon DEF Quiet, Next, BusStep, Handler, Monitor
<1>2. CASE MemcpyMain \/ MemcpyTransfer \/ ReleaseMain
  BY <1>2, Zenon DEF MemcpyMain, MemcpyTransfer, ReleaseMain, Next, BusStep
<1>3. CASE SkipCall \/ Order \/ Break \/ Resume
  BY <1>3, Zenon DEF SkipCall, Order, Break, Resume
<1>4. CASE BeginCall \/ ResetZ80
  BY <1>4, Zenon DEF BeginCall, ResetZ80, Next, Monitor
<1>5. CASE StartIoMain \/ IoInterruptMain
  BY <1>5, Zenon DEF StartIoMain, IoInterruptMain, Next, Z80
<1>6. CASE (Grant \/ TakeBack \/ Timer2Interrupt \/ Transfer) /\ UNCHANGED data
  BY <1>6, Zenon DEF Next, Z80, Handler
<1>7. CASE UNCHANGED mvars
  BY <1>7 DEF mvars
<1> QED
  BY <1>1, <1>2, <1>3, <1>4, <1>5, <1>6, <1>7, Zenon DEF MNext

(* A step that leaves memory, table and job alone, and how far the call has *)
(* come, keeps what the invariant says of them.                             *)
LEMMA KeptParts ==
  ASSUME MInv, UNCHANGED <<mem, bp_table, job, buf, prog, asked, lost>>,
         InBus' <=> InBus, InBus => Done' = Done, InCalls'
  PROVE  Jobs' /\ InCalls' /\ TableNow' /\ (lost' \/ Exact')
<1>1. Jobs'
  BY DEF MInv, Jobs, Safe
<1>2. call' = call
  BY DEF call
<1>3. \A op : Doing(op)' <=> Doing(op)
  BY <1>2 DEF Doing
<1>4. ASSUME InBus PROVE DoneBytes' = DoneBytes
  BY <1>2, <1>4 DEF DoneBytes
<1>5. \A a : Shown(a)' = Shown(a)
  BY DEF Shown
<1>6. Puts' = Puts
  BY <1>2 DEF Puts
<1>7. \A a : Now(a)' = Now(a)
  BY <1>2, <1>4, <1>5, <1>6 DEF Now
<1>8. TableNow'
  BY <1>2, <1>3 DEF MInv, TableNow, Holding
<1>9. ASSUME Exact PROVE Exact'
  <2>1. MemoryNow'
    BY <1>7, <1>9 DEF Exact, MemoryNow
  <2>2. BufferNow'
    <3>1. CASE Doing("read")
      <4>1. InBus
        BY <3>1 DEF Doing
      <4> QED  BY <1>2, <1>3, <1>4, <1>5, <1>9, <3>1, <4>1 DEF Exact, BufferNow
    <3>2. CASE ~Doing("read")
      BY <1>3, <1>9, <3>2 DEF Exact, BufferNow
    <3> QED  BY <3>1, <3>2
  <2>3. OpcodesNow'
    <3>1. \A a : Hides(bp_table, a)' <=> Hides(bp_table, a)
      BY DEF Hides
    <3>2. Doing("add") => Done' = Done
      BY DEF Doing
    <3> QED
      BY <1>2, <1>3, <1>9, <3>1, <3>2 DEF Exact, OpcodesNow
  <2> QED
    BY <2>1, <2>2, <2>3 DEF Exact
<1>10. lost' \/ Exact'
  <2>1. lost \/ Exact
    BY DEF MInv
  <2> QED  BY <1>9, <2>1, Zenon
<1> QED
  BY <1>1, <1>8, <1>10

LEMMA KeptData ==
  ASSUME MInv, UNCHANGED data, InBus' <=> InBus, InBus => Done' = Done, InCalls'
  PROVE  MInv'
<1>1. MTypes' /\ Reporting'
  BY DEF MInv, MTypes, Reporting, data
<1>2. UNCHANGED <<mem, bp_table, job, buf, prog, asked, lost>>
  BY DEF data
<1>3. Jobs' /\ InCalls' /\ TableNow' /\ (lost' \/ Exact')
  BY <1>2, KeptParts
<1> QED
  BY <1>1, <1>3, Zenon DEF MInv

\* Where the main program stands after a step of whoever executes.
LEMMA MainAt ==
  ASSUME IInv, NEW q, Goto(q)
  PROVE  pc'[0] = IF top = 0 THEN q ELSE pc[0]
BY DepthAssumption DEF IInv, TypeOK, Depths, Goto

(* How far the call has come. *)
LEMMA KeptCalls ==
  ASSUME MInv, IInv, UNCHANGED data, pc'[0] = pc[0], todo' = todo
  PROVE  MInv'
<1>1. call' = call /\ job' = job
  BY DEF data, call
<1>2. InBus' <=> InBus
  BY DEF InBus
<1>3. Done' = Done
  BY <1>1 DEF Done
<1>4. InCalls'
  BY <1>1, <1>2 DEF MInv, InCalls
<1> QED
  BY <1>2, <1>3, <1>4, KeptData

LEMMA QuietInv ==
  ASSUME IInv, MInv, Quiet
  PROVE  MInv'
<1> USE DEF BusPcs
<1>0. UNCHANGED data /\ call' = call /\ job' = job
  <2>1. UNCHANGED data
    BY Zenon DEF Quiet
  <2> QED  BY <2>1 DEF data, call
<1>1. CASE Z80_BUSREQ
  <2>1. pc'[0] = IF top = 0 THEN "spin" ELSE pc[0]
    BY <1>1, MainAt DEF Z80_BUSREQ
  <2>2. todo' = todo /\ (top = 0 => pc[0] = "attach")
    BY <1>1 DEF Z80_BUSREQ, At
  <2>3. (InBus' <=> InBus) /\ (InBus => Done' = Done) /\ InCalls'
    BY <1>0, <2>1, <2>2 DEF InBus, Done, InCalls, MInv
  <2> QED
    BY <1>0, <2>3, KeptData
<1>2. CASE ExtMem_attach
  <2>1. pc'[0] = IF top = 0 THEN "enter" ELSE pc[0]
    BY <1>2, MainAt DEF ExtMem_attach
  <2>2. todo' = todo /\ (top = 0 => pc[0] = "spin")
    BY <1>2 DEF ExtMem_attach, At
  <2>3. (InBus' <=> InBus) /\ (InBus => Done' = Done) /\ InCalls'
    BY <1>0, <2>1, <2>2 DEF InBus, Done, InCalls, MInv
  <2> QED
    BY <1>0, <2>3, KeptData
<1>3. CASE Enter
  <2>1. pc'[0] = IF top = 0 THEN "copy" ELSE pc[0]
    BY <1>3, MainAt DEF Enter
  <2>2. todo' = todo /\ (top = 0 => pc[0] = "enter")
    BY <1>3 DEF Enter, At
  <2>3. (InBus' <=> InBus) /\ (InBus => Done' = Done) /\ InCalls'
    BY <1>0, <2>1, <2>2 DEF InBus, Done, InCalls, MInv
  <2> QED
    BY <1>0, <2>3, KeptData
<1>4. CASE Leave
  <2>1. CASE MoreCopies
    <3>1. top = 0 /\ pc[0] = "leave" /\ Len(todo) > 1 /\ todo' = Tail(todo)
      BY <1>4, <2>1 DEF Leave, At, MoreCopies
    <3>2. pc'[0] = "enter"
      <4>1. Goto("enter")
        BY <1>4, <2>1 DEF Leave
      <4> QED  BY <3>1, <4>1, MainAt
    <3>3. Len(todo') = Len(todo) - 1 /\ Len(todo) \in Nat
      <4>1. todo \in Seq(Places)
        BY DEF IInv, TypeOK
      <4>2. todo # <<>>
        BY <3>1, <4>1
      <4> QED  BY <3>1, <4>1, <4>2
    <3>4. InBus /\ Len(todo) \in 1 .. Len(call.ps) /\ job # <<>>
      BY <3>1 DEF InBus, MInv, InCalls
    <3>5. InBus'
      BY <3>2 DEF InBus
    <3>6. InCalls'
      BY <1>0, <3>1, <3>2, <3>3, <3>4 DEF InCalls
    <3>7. Done' = Done
      <4>1. Len(call.ps) \in Int
        BY <3>4
      <4>2. Done = Len(call.ps) - Len(todo) + 1
        BY <3>1 DEF Done
      <4>3. Done' = Len(call.ps) - Len(todo') + 0
        BY <1>0, <3>2 DEF Done
      <4> QED  BY <3>3, <4>1, <4>2, <4>3
    <3> QED
      BY <1>0, <3>4, <3>5, <3>6, <3>7, KeptData
  <2>2. CASE ~MoreCopies
    <3>1. Goto("detach") /\ todo' = todo /\ (top = 0 => pc[0] = "leave")
      BY <1>4, <2>2 DEF Leave, At
    <3>2. pc'[0] = IF top = 0 THEN "detach" ELSE pc[0]
      BY <3>1, MainAt
    <3>3. top = 0 => ~(Len(todo) > 1)
      BY <2>2 DEF MoreCopies
    <3>4. (InBus' <=> InBus) /\ (InBus => Done' = Done)
      BY <1>0, <3>1, <3>2 DEF InBus, Done
    <3>5. InCalls'
      <4>1. CASE top = 0
        <5>1. InBus
          BY <3>1, <4>1 DEF InBus
        <5>2. job # <<>> /\ Len(todo) \in 1 .. Len(call.ps)
          BY <5>1 DEF InCalls, MInv
        <5>3. Len(todo) = 1
          BY <3>3, <4>1, <5>2
        <5> QED  BY <1>0, <3>1, <5>2, <5>3 DEF InCalls
      <4>2. CASE top # 0
        BY <1>0, <3>1, <3>2, <4>2 DEF InBus, InCalls, MInv
      <4> QED  BY <4>1, <4>2
    <3> QED
      BY <1>0, <3>4, <3>5, KeptData
  <2> QED
    BY <2>1, <2>2
<1>5. CASE ExtMem_detach
  <2>1. pc'[0] = IF top = 0 THEN "release" ELSE pc[0]
    BY <1>5, MainAt DEF ExtMem_detach
  <2>2. todo' = todo /\ (top = 0 => pc[0] = "detach")
    BY <1>5 DEF ExtMem_detach, At
  <2>3. (InBus' <=> InBus) /\ (InBus => Done' = Done) /\ InCalls'
    BY <1>0, <2>1, <2>2 DEF InBus, Done, InCalls, MInv
  <2> QED
    BY <1>0, <2>3, KeptData
<1>6. CASE top > 0 /\ Release
  <2>1. top # 0
    BY <1>6 DEF IInv, TypeOK, Depths
  <2>2. pc'[0] = pc[0] /\ todo' = todo
    BY <1>6, <2>1, MainAt DEF Release
  <2> QED
    BY <1>0, <2>2, KeptCalls
<1>7. CASE CheckProgress \/ SetProgress \/ ClearProgress
  <2>1. top # 0 /\ top \in Depths /\ pc \in [Depths -> Pcs]
    BY <1>7 DEF CheckProgress, SetProgress, ClearProgress, At, IInv, Kinds, TypeOK, MainPcs
  <2>2. todo' = todo /\ (Return \/ Goto("set") \/ Goto("next"))
    BY <1>7, Zenon DEF CheckProgress, SetProgress, ClearProgress
  <2>3. pc'[0] = pc[0]
    <3>1. CASE Return
      BY <2>1, <3>1 DEF Return, Depths
    <3>2. CASE Goto("set") \/ Goto("next")
      BY DepthAssumption, <2>1, <3>2 DEF Goto, Depths
    <3> QED  BY <2>2, <3>1, <3>2
  <2> QED
    BY <1>0, <2>2, <2>3, KeptCalls
<1>8. CASE EndReset
  <2>1. pc'[0] = IF top = 0 THEN "idle" ELSE pc[0]
    BY <1>8, MainAt DEF EndReset
  <2>2. todo' = todo /\ (top = 0 => pc[0] = "pulse")
    BY <1>8 DEF EndReset, At
  <2>3. (InBus' <=> InBus) /\ (InBus => Done' = Done) /\ InCalls'
    BY <1>0, <2>1, <2>2 DEF InBus, Done, InCalls, MInv
  <2> QED
    BY <1>0, <2>3, KeptData
<1> QED
  BY <1>1, <1>2, <1>3, <1>4, <1>5, <1>6, <1>7, <1>8, Zenon DEF Quiet

LEMMA OtherInv ==
  ASSUME IInv, MInv, StartIoMain \/ ((Grant \/ TakeBack \/ Timer2Interrupt \/ Transfer) /\ UNCHANGED data)
  PROVE  MInv'
<1>0. UNCHANGED data
  BY DEF StartIoMain
<1>1. CASE StartIo \/ Grant \/ TakeBack
  BY <1>0, <1>1, KeptCalls DEF StartIo, Grant, TakeBack
<1>2. CASE Timer2Interrupt
  <2>1. pc'[0] = pc[0] /\ todo' = todo
    BY <1>2 DEF Timer2Interrupt, IInv, TypeOK, Depths
  <2> QED
    BY <1>0, <2>1, KeptCalls
<1>3. CASE Transfer
  <2>1. top # 0
    BY <1>3 DEF Transfer, At, IInv, Kinds, MainPcs, BusPcs
  <2>2. pc'[0] = pc[0] /\ todo' = todo
    BY <1>3, <2>1, MainAt DEF Transfer
  <2> QED
    BY <1>0, <2>2, KeptCalls
<1> QED
  BY <1>1, <1>2, <1>3 DEF StartIoMain
-----------------------------------------------------------------------------
(* The table.  The loops find the first slot they look for.                 *)
LEMMA LeastSlot ==
  ASSUME NEW T \in SUBSET Slots, T # {}
  PROVE  \E m \in T : \A j \in 1 .. m - 1 : j \notin T
<1>1. T \in SUBSET Nat
  BY DEF Slots
<1>2. PICK m \in T : \A k \in T : m <= k
  BY <1>1, LeastElement
<1>3. ASSUME NEW j \in 1 .. m - 1 PROVE j \notin T
  BY <1>1, <1>2
<1> QED
  BY <1>3

LEMMA SlotDeleted ==
  ASSUME NEW t, NEW p
  PROVE  LET s == SlotToDelete(t, p)
         IN  \/ s = 0 /\ \A i \in Slots : ~(Holds(t, i, p))
             \/ s \in Slots /\ (Holds(t, s, p)) /\ \A j \in 1 .. s - 1 : ~(Holds(t, j, p))
<1> DEFINE T == {i \in Slots : Holds(t, i, p)}
           Least(i) == (Holds(t, i, p)) /\ \A j \in 1 .. i - 1 : ~(Holds(t, j, p))
           s == CHOOSE i \in Slots : Least(i)
<1>1. CASE T = {}
  <2>1. SlotToDelete(t, p) = 0
    BY <1>1, Zenon DEF SlotToDelete, First
  <2> QED  BY <1>1, <2>1
<1>2. CASE T # {}
  <2>1. T \in SUBSET Slots
    OBVIOUS
  <2>2. PICK m \in T : \A j \in 1 .. m - 1 : j \notin T
    <3> HIDE DEF T
    <3> QED  BY <1>2, <2>1, LeastSlot
  <2>3. m \in Slots /\ Least(m)
    BY NumBPAssumption, <2>2 DEF Slots
  <2>4. s \in Slots /\ Least(s)
    BY <2>3, Zenon
  <2>5. SlotToDelete(t, p) = s
    BY <1>2, Zenon DEF SlotToDelete, First
  <2> HIDE DEF s
  <2> QED  BY <2>4, <2>5
<1> QED
  BY <1>1, <1>2

LEMMA SlotAdded ==
  ASSUME NEW t, NEW p
  PROVE  LET s == SlotToAdd(t, p)
         IN  \/ s = 0 /\ \A i \in Slots : ~(~t[i].in_use \/ t[i].address = p)
             \/ s \in Slots /\ (~t[s].in_use \/ t[s].address = p) /\ \A j \in 1 .. s - 1 : ~(~t[j].in_use \/ t[j].address = p)
<1> DEFINE T == {i \in Slots : ~t[i].in_use \/ t[i].address = p}
           Least(i) == (~t[i].in_use \/ t[i].address = p) /\ \A j \in 1 .. i - 1 : ~(~t[j].in_use \/ t[j].address = p)
           s == CHOOSE i \in Slots : Least(i)
<1>1. CASE T = {}
  <2>1. SlotToAdd(t, p) = 0
    BY <1>1, Zenon DEF SlotToAdd, First
  <2> QED  BY <1>1, <2>1
<1>2. CASE T # {}
  <2>1. T \in SUBSET Slots
    OBVIOUS
  <2>2. PICK m \in T : \A j \in 1 .. m - 1 : j \notin T
    <3> HIDE DEF T
    <3> QED  BY <1>2, <2>1, LeastSlot
  <2>3. m \in Slots /\ Least(m)
    BY NumBPAssumption, <2>2 DEF Slots
  <2>4. s \in Slots /\ Least(s)
    BY <2>3, Zenon
  <2>5. SlotToAdd(t, p) = s
    BY <1>2, Zenon DEF SlotToAdd, First
  <2> HIDE DEF s
  <2> QED  BY <2>4, <2>5
<1> QED
  BY <1>1, <1>2

LEMMA SlotFound ==
  ASSUME NEW t, NEW p
  PROVE  LET s == FindBreakPoint(t, p)
         IN  \/ s = 0 /\ \A i \in Slots : ~(i < NumBP /\ Holds(t, i, p))
             \/ s \in Slots /\ (s < NumBP /\ Holds(t, s, p)) /\ \A j \in 1 .. s - 1 : ~(j < NumBP /\ Holds(t, j, p))
<1> DEFINE T == {i \in Slots : i < NumBP /\ Holds(t, i, p)}
           Least(i) == (i < NumBP /\ Holds(t, i, p)) /\ \A j \in 1 .. i - 1 : ~(j < NumBP /\ Holds(t, j, p))
           s == CHOOSE i \in Slots : Least(i)
<1>1. CASE T = {}
  <2>1. FindBreakPoint(t, p) = 0
    BY <1>1, Zenon DEF FindBreakPoint, First
  <2> QED  BY <1>1, <2>1
<1>2. CASE T # {}
  <2>1. T \in SUBSET Slots
    OBVIOUS
  <2>2. PICK m \in T : \A j \in 1 .. m - 1 : j \notin T
    <3> HIDE DEF T
    <3> QED  BY <1>2, <2>1, LeastSlot
  <2>3. m \in Slots /\ Least(m)
    BY NumBPAssumption, <2>2 DEF Slots
  <2>4. s \in Slots /\ Least(s)
    BY <2>3, Zenon
  <2>5. FindBreakPoint(t, p) = s
    BY <1>2, Zenon DEF FindBreakPoint, First
  <2> HIDE DEF s
  <2> QED  BY <2>4, <2>5
<1> QED
  BY <1>1, <1>2

(* The sort keeps the breakpoints and what they hide. *)
LEMMA SortKeeps ==
  ASSUME NEW t \in Tables, NEW A, Holding(t, A)
  PROVE  LET s == SortBreakPoint(t)
         IN  /\ s \in Tables /\ SettledFrom(s, 1) /\ Holding(s, A)
             /\ \A a : Hides(t, a) => Hides(s, a)
<1> DEFINE s == SortBreakPoint(t)
<1>1. s \in Tables /\ Shuffled(s, t) /\ SettledFrom(s, 1)
  BY SortSorts
<1> HIDE DEF s
<1>2. PICK f : Permutes(f) /\ s = [i \in Slots |-> t[f[i]]]
  BY <1>1 DEF Shuffled
<1>3. \A i \in Slots : f[i] \in Slots /\ s[i] = t[f[i]]
  BY <1>2 DEF Permutes
<1>4. \A a : Hides(t, a) => Hides(s, a)
  BY <1>3 DEF Hides, Holds
<1>5. \A a \in A : \E i \in Slots : Holds(s, i, a)
  <2> SUFFICES ASSUME NEW a \in A PROVE \E i \in Slots : Holds(s, i, a)
    OBVIOUS
  <2>1. PICK j \in Slots : Holds(t, j, a)
    BY DEF Holding
  <2>2. PICK i \in Slots : f[i] = j
    BY <1>2 DEF Permutes
  <2> QED  BY <1>3, <2>1, <2>2 DEF Holds
<1>6. ASSUME NEW i \in Slots, NEW j \in Slots, s[i].in_use, s[j].in_use, s[i].address = s[j].address
      PROVE  i = j \/ s[i].address = Top
  <2>1. f[i] = f[j] \/ s[i].address = Top
    BY <1>3, <1>6 DEF Holding
  <2> QED  BY <1>2, <2>1 DEF Permutes
<1>7. \A i \in Slots :
        IF s[i].in_use THEN s[i].address \in A \cup {Top} ELSE s[i].address = Top
  BY <1>3 DEF Holding
<1>8. Holding(s, A)
  BY <1>5, <1>6, <1>7 DEF Holding
<1> QED
  BY <1>1, <1>4, <1>8 DEF s

(* A free slot is only found for an address that has none: in a sorted      *)
(* table the slots in use come first.  Only Top may get a second one.       *)
LEMMA TakenHolds ==
  ASSUME NEW t \in Tables, NEW A, Holding(t, A), SettledFrom(t, 1),
         NEW p \in Memory, SlotToAdd(t, p) # 0, ~t[SlotToAdd(t, p)].in_use
  PROVE  LET s == Taken(t, SlotToAdd(t, p), p)
         IN  /\ p # Top => p \notin A
             /\ s \in Tables /\ Holding(s, A \cup {p})
             /\ \A a \in A \ {Top} : Hides(t, a) => Hides(s, a)
<1> DEFINE k == SlotToAdd(t, p)
           s == Taken(t, k, p)
<1>1. /\ k \in Slots /\ ~t[k].in_use
      /\ \A j \in 1 .. k - 1 : ~(~t[j].in_use \/ t[j].address = p)
  BY SlotAdded
<1>2. Top = N - 1 /\ N \in Nat /\ p \in 0 .. Top
  BY AddressesAssumption, MapAssumption DEF Memory
<1> HIDE DEF k
<1>3. p # Top => p \notin A
  <2> SUFFICES ASSUME p # Top, p \in A PROVE FALSE
    OBVIOUS
  <2>1. PICK i \in Slots : Holds(t, i, p)
    BY DEF Holding
  <2>2. k <= i
    BY <1>1, <2>1 DEF Holds, Slots
  <2>3. t[k].address <= t[i].address
    BY <1>1, <2>2 DEF SettledFrom, Slots
  <2>4. t[k].address = Top /\ t[i].address = p
    BY <1>1, <2>1 DEF Holding, Holds
  <2> QED  BY <1>2, <2>3, <2>4
<1>4. /\ \A i \in Slots \ {k} : s[i] = t[i]
      /\ s[k].in_use = TRUE /\ s[k].address = p /\ s[k].opcode = t[k].opcode
  BY <1>1 DEF Taken, Tables, SlotRecords
<1>5. s \in Tables
  BY <1>1, <1>2 DEF Taken, Tables, SlotRecords
<1> HIDE DEF s
<1>6. \A i \in Slots :
        IF s[i].in_use THEN s[i].address \in (A \cup {p}) \cup {Top} ELSE s[i].address = Top
  BY <1>4 DEF Holding
<1>7. \A a \in A \cup {p} : \E i \in Slots : Holds(s, i, a)
  <2>1. Holds(s, k, p)
    BY <1>4 DEF Holds
  <2>2. ASSUME NEW a \in A PROVE \E i \in Slots : Holds(s, i, a)
    <3>1. PICK i \in Slots : Holds(t, i, a)
      BY DEF Holding
    <3>2. i # k
      BY <1>1, <3>1 DEF Holds
    <3> QED  BY <1>4, <3>1, <3>2 DEF Holds
  <2> QED  BY <1>1, <2>1, <2>2
<1>8. ASSUME NEW i \in Slots, NEW j \in Slots, s[i].in_use, s[j].in_use,
             s[i].address = s[j].address, s[i].address # Top
      PROVE  i = j
  BY <1>3, <1>4, <1>8 DEF Holding
<1>9. Holding(s, A \cup {p})
  BY <1>6, <1>7, <1>8 DEF Holding
<1>10. \A a \in A \ {Top} : Hides(t, a) => Hides(s, a)
  BY <1>3, <1>4 DEF Hides, Holds
<1> QED
  BY <1>3, <1>5, <1>9, <1>10 DEF s, k

(* The slot of an address is its only one, Top apart. *)
LEMMA SlotOf ==
  ASSUME NEW t, NEW A, Holding(t, A), NEW p, \E i \in Slots : Holds(t, i, p)
  PROVE  LET k == SlotToDelete(t, p)
         IN  /\ k \in Slots /\ Holds(t, k, p)
             /\ p # Top => \A i \in Slots : Holds(t, i, p) => i = k
<1> DEFINE k == SlotToDelete(t, p)
<1>1. k \in Slots /\ Holds(t, k, p)
  BY SlotDeleted
<1> HIDE DEF k
<1>2. p # Top => \A i \in Slots : Holds(t, i, p) => i = k
  BY <1>1 DEF Holding, Holds
<1> QED
  BY <1>1, <1>2 DEF k

LEMMA ClearedHolds ==
  ASSUME NEW t \in Tables, NEW A, Holding(t, A), NEW p, \E i \in Slots : Holds(t, i, p)
  PROVE  LET s == Cleared(t, SlotToDelete(t, p))
         IN  /\ s \in Tables /\ Holding(s, A \ {p})
             /\ \A a : Hides(t, a) => Hides(s, a)
<1> DEFINE k == SlotToDelete(t, p)
           s == Cleared(t, k)
<1>1. /\ k \in Slots /\ Holds(t, k, p)
      /\ p # Top => \A i \in Slots : Holds(t, i, p) => i = k
  BY SlotOf
<1>2. Top \in Nat
  BY AddressesAssumption, MapAssumption
<1> HIDE DEF k
<1>3. /\ \A i \in Slots \ {k} : s[i] = t[i]
      /\ s[k].in_use = FALSE /\ s[k].address = Top
  BY <1>1 DEF Cleared, Tables, SlotRecords
<1>4. s \in Tables
  <2> DEFINE u == [t EXCEPT ![k].in_use = FALSE]
  <2>1. u \in Tables
    BY <1>1 DEF Tables, SlotRecords
  <2>2. s = [u EXCEPT ![k].address = Top]
    BY Zenon DEF Cleared
  <2> HIDE DEF u, s
  <2> QED  BY <1>1, <1>2, <2>1, <2>2 DEF Tables, SlotRecords
<1> HIDE DEF s
<1>5. \A i \in Slots :
        IF s[i].in_use THEN s[i].address \in (A \ {p}) \cup {Top} ELSE s[i].address = Top
  BY <1>1, <1>3 DEF Holding, Holds
<1>6. ASSUME NEW a \in A \ {p} PROVE \E i \in Slots : Holds(s, i, a)
  <2>1. PICK i \in Slots : Holds(t, i, a)
    BY DEF Holding
  <2>2. i # k
    BY <1>1, <2>1 DEF Holds
  <2> QED  BY <1>3, <2>1, <2>2 DEF Holds
<1>7. \A i, j \in Slots :
        s[i].in_use /\ s[j].in_use /\ s[i].address = s[j].address => i = j \/ s[i].address = Top
  BY <1>3 DEF Holding
<1>8. Holding(s, A \ {p})
  BY <1>5, <1>6, <1>7 DEF Holding
<1>9. \A a : Hides(t, a) => Hides(s, a)
  BY <1>3 DEF Hides, Holds
<1> QED
  BY <1>4, <1>8, <1>9 DEF s, k

LEMMA OpcodeHeld ==
  ASSUME NEW t \in Tables, NEW A, Holding(t, A), NEW p \in Memory, NEW d \in ByteValues,
         NEW s \in Tables, NEW k \in Slots, Holds(t, k, p),
         \A i \in Slots \ {k} : s[i] = t[i],
         s[k].in_use = t[k].in_use, s[k].address = t[k].address, s[k].opcode = d
  PROVE  /\ Holding(s, A)
         /\ \A a : a # p /\ Hides(t, a) => Hides(s, a)
         /\ p # Top /\ d = prog[p] => Hides(s, p)
<1>1. p # Top => \A i \in Slots : Holds(t, i, p) => i = k
  BY DEF Holding, Holds
<1>2. \A i \in Slots : s[i].in_use = t[i].in_use /\ s[i].address = t[i].address
  OBVIOUS
<1>3. Holding(s, A)
  BY <1>2 DEF Holding, Holds
<1>4. \A a : a # p /\ Hides(t, a) => Hides(s, a)
  BY <1>2 DEF Hides, Holds
<1>5. p # Top /\ d = prog[p] => Hides(s, p)
  BY <1>1, <1>2 DEF Hides, Holds
<1> QED
  BY <1>3, <1>4, <1>5
-----------------------------------------------------------------------------
(* The call that is made is a good one. *)
LEMMA CallIsGood ==
  ASSUME Jobs, job # <<>>
  PROVE  /\ GoodCall(call) /\ Safe(call)
         /\ call.op \in {"add", "delete"} => job \in Seq(BreakCalls)
<1>1. 1 \in DOMAIN job /\ call = job[1]
  BY DEF Jobs, call
<1>2. Safe(call)
  BY <1>1 DEF Jobs
<1>3. CASE job \in Seq(DataCalls)
  <2>1. call \in DataCalls
    BY <1>1, <1>3
  <2> QED  BY <1>2, <2>1, DataCallsGood
<1>4. CASE job \in Seq(BreakCalls)
  <2>1. call \in BreakCalls
    BY <1>1, <1>4
  <2> QED  BY <1>2, <1>4, <2>1, BreakCallsGood
<1> QED
  BY <1>3, <1>4 DEF Jobs

(* The calls that are left: of bytes, or of breakpoints, which alone change *)
(* what must not be written.                                                *)
LEMMA JobsLeft ==
  ASSUME Jobs, job # <<>>, job' = Tail(job),
         asked' = asked \/ call.op \in {"add", "delete"}
  PROVE  Jobs'
<1>1. \A S : job \in Seq(S) => /\ Tail(job) \in Seq(S)
                               /\ \A i \in DOMAIN Tail(job) :
                                    i + 1 \in DOMAIN job /\ Tail(job)[i] = job[i + 1]
  OBVIOUS
<1>2. job' \in Seq(DataCalls) \cup Seq(BreakCalls)
  BY <1>1 DEF Jobs
<1>3. CASE asked' = asked
  <2>1. \A i \in DOMAIN Tail(job) : Safe(Tail(job)[i])
    BY <1>1 DEF Jobs
  <2> QED  BY <1>2, <1>3, <2>1 DEF Jobs, Safe
<1>4. CASE call.op \in {"add", "delete"}
  <2>1. job' \in Seq(BreakCalls)
    BY <1>1, <1>4, CallIsGood
  <2>2. ASSUME NEW c \in BreakCalls PROVE c.op # "write"
    BY BreakCallsGood
  <2>3. \A i \in DOMAIN job' : job'[i].op # "write"
    BY <2>1, <2>2
  <2> QED  BY <1>2, <2>3 DEF Jobs, Safe
<1> QED
  BY <1>3, <1>4

(* What a call puts into memory, and how far it is.                         *)
LEMMA CallPuts ==
  ASSUME MTypes, GoodCall(call), call.op # "read"
  PROVE  Puts \in Seq(ByteValues) /\ Len(Puts) = Size(call)
<1>1. prog[call.at] \in ByteValues /\ RST \in ByteValues
  BY BytesAssumption DEF MTypes, GoodCall
<1>2. CASE call.op = "delete"
  BY <1>1, <1>2 DEF Puts, Size
<1>3. CASE call.op = "write"
  BY <1>3 DEF Puts, Size, GoodCall
<1>4. CASE call.op = "add"
  <2>1. Puts = <<RST>> /\ Size(call) = 1
    BY <1>4 DEF Puts, Size, GoodCall
  <2> QED  BY <1>1, <2>1
<1> QED
  BY <1>2, <1>3, <1>4 DEF GoodCall

LEMMA PieceBegins ==
  ASSUME NEW at, NEW len \in Nat, NEW ps, Tiles(ps, at, len), NEW k \in 1 .. Len(ps)
  PROVE  /\ ps[k].off \in Nat /\ ps[k].n \in Nat /\ ps[k].off + ps[k].n <= len
         /\ IF k - 1 = 0 THEN ps[k].off = 0 ELSE ps[k - 1].off + ps[k - 1].n = ps[k].off
<1>1. ps[k] \in Pieces /\ ps[k].off + ps[k].n <= len /\ Len(ps) \in Nat
  BY DEF Tiles
<1>2. ps[k].off \in Nat /\ ps[k].n \in Nat
  BY <1>1 DEF Pieces
<1>3. CASE k = 1
  BY <1>1, <1>2, <1>3 DEF Tiles
<1>4. CASE k # 1
  <2>1. k - 1 \in 1 .. Len(ps) - 1 /\ (k - 1) + 1 = k
    BY <1>1, <1>4
  <2>2. ps[(k - 1) + 1].off = ps[k - 1].off + ps[k - 1].n
    BY <2>1, Zenon DEF Tiles
  <2> QED  BY <1>1, <1>2, <2>1, <2>2
<1> QED
  BY <1>3, <1>4
-----------------------------------------------------------------------------
(* Two pieces of a buffer, one after the other. *)
Joined(x, u, v) == x = u \o v

LEMMA TwoRuns ==
  ASSUME NEW m \in Nat, NEW n \in Nat, 
         NEW u \in [1 .. m -> ByteValues], NEW v \in [1 .. n -> ByteValues], NEW x, Joined(x, u, v)
  PROVE  /\ x \in [1 .. m + n -> ByteValues]
         /\ \A i \in 1 .. m : x[i] = u[i]
         /\ \A i \in 1 .. n : x[m + i] = v[i]
<1>1. u \in Seq(ByteValues) /\ Len(u) = m /\ v \in Seq(ByteValues) /\ Len(v) = n
  OBVIOUS
<1> DEFINE w == u \o v
<1>2. w \in Seq(ByteValues) /\ Len(w) = m + n /\ DOMAIN w = 1 .. m + n
  BY <1>1
<1>3. \A i \in 1 .. m : w[i] = u[i]
  BY <1>1
<1>4. ASSUME NEW i \in 1 .. n PROVE w[m + i] = v[i]
  <2>1. m + i \in 1 .. m + n /\ m + i > m /\ (m + i) - m = i
    OBVIOUS
  <2>2. w[m + i] = v[(m + i) - m]
    BY <1>1, <2>1
  <2> QED  BY <2>1, <2>2
<1>5. w \in [1 .. m + n -> ByteValues]
  <2> HIDE DEF w
  <2> QED  BY <1>2
<1>6. x = w
  BY DEF Joined
<1> HIDE DEF w
<1> QED
  BY <1>3, <1>4, <1>5, <1>6

(* What a command copies is a byte, whoever has the bus. *)
LEMMA BytesRead ==
  ASSUME MTypes, NEW p, p.n \in Nat, NEW bytes \in Read_bytes(p),
         \A i \in 1 .. p.n : Cell(p.win, p.at + i - 1) \in Cells
  PROVE  bytes \in [1 .. p.n -> ByteValues]
<1>1. CASE Held
  <2>1. bytes = load(mem, p)
    BY <1>1 DEF Read_bytes
  <2> QED  BY <2>1 DEF load, MTypes
<1>2. CASE ~Held
  <2>1. PICK d \in Noise : bytes = [i \in 1 .. p.n |-> d]
    BY <1>2 DEF Read_bytes
  <2>2. d \in ByteValues
    BY BytesAssumption
  <2> QED  BY <2>1, <2>2
<1> QED
  BY <1>1, <1>2

(* A copy moves the bytes of one piece, or is lost. *)
LEMMA MemcpyMainInv ==
  ASSUME IInv, MInv, MemcpyMain
  PROVE  MInv'
<1> DEFINE k == Len(call.ps) - Len(todo) + 1
           piece == call.ps[k]
           slot == TheSlot
           source == IF call.op = "delete" THEN <<bp_table[slot].opcode>> ELSE call.bytes
<1> USE DEF BusPcs
<1>1. top = 0 /\ job # <<>> /\ pc[0] = "copy" /\ todo' = todo /\ Goto("leave")
  BY DEF MemcpyMain, InCall, Memcpy, At
<1>2. pc'[0] = "leave"
  BY <1>1, MainAt
<1>3. InBus /\ InBus'
  BY <1>1, <1>2 DEF InBus
<1>4. job' = job /\ call' = call
  BY DEF MemcpyMain, call
<1>5. /\ bp_adr' = bp_adr /\ dbginfo_state' = dbginfo_state /\ phase' = phase
      /\ prog' = prog /\ asked' = asked
  BY DEF MemcpyMain
<1>6. Len(todo) \in 1 .. Len(call.ps) /\ k \in 1 .. Len(call.ps)
  BY <1>3 DEF MInv, InCalls
<1>7. InCalls'
  BY <1>1, <1>2, <1>4, <1>6 DEF InCalls
<1>8. Done = k - 1 /\ Done' = k
  <2>1. Done = Len(call.ps) - Len(todo) + 0
    BY <1>1 DEF Done
  <2>2. Done' = Len(call.ps) - Len(todo) + 1
    BY <1>1, <1>2, <1>4 DEF Done
  <2> QED  BY <1>6, <2>1, <2>2
<1>9. MTypes /\ Jobs /\ TableNow /\ Reporting
  BY DEF MInv
<1>10. GoodCall(call) /\ Safe(call) /\ (call.op \in {"add", "delete"} => job \in Seq(BreakCalls))
  BY <1>1, <1>9, CallIsGood
<1>11. /\ Tiles(call.ps, call.at, Size(call)) /\ Size(call) \in Nat /\ call.at \in Memory
       /\ call.op # "read" => call.at + Size(call) <= N
       /\ call.op \in {"read", "write", "add", "delete"}
  BY <1>10 DEF GoodCall
<1>12. /\ piece.off \in Nat /\ piece.n \in Nat /\ piece.off + piece.n <= Size(call)
       /\ IF k - 1 = 0 THEN piece.off = 0 ELSE call.ps[k - 1].off + call.ps[k - 1].n = piece.off
  <2> HIDE DEF k
  <2> QED  BY <1>6, <1>11, PieceBegins
<1>13. PICK bytes \in Read_bytes(piece) :
         /\ mem' \in CASE call.op = "read" -> {mem}
                       [] call.op = "delete" -> Written(piece, <<bp_table[slot].opcode>>)
                       [] OTHER -> Written(piece, call.bytes)
         /\ buf' = IF call.op = "read" THEN buf \o bytes ELSE buf
         /\ bp_table' = IF call.op = "add"
                          THEN [bp_table EXCEPT ![slot].opcode = bytes[1]] ELSE bp_table
  BY Zenon DEF MemcpyMain
<1>14. mem' \in IF call.op = "read" THEN {mem} ELSE Written(piece, source)
  <2> HIDE DEF piece, slot
  <2> QED  BY <1>13
<1> HIDE DEF k
<1>15. N \in Nat \ {0} /\ Memory \subseteq Int /\ Memory \subseteq Cells /\ call.at \in Nat
  BY <1>11, MapAssumption DEF Memory, Cells
<1>16. \A i \in 1 .. piece.n :
         Cell(piece.win, piece.at + i - 1) = (call.at + piece.off + i - 1) % N
  BY <1>6, <1>11 DEF Tiles
<1>17. /\ \A op : Doing(op)' <=> Doing(op)
       /\ \A op : Doing(op) <=> call.op = op
  BY <1>3, <1>4 DEF Doing
<1>18. bytes \in [1 .. piece.n -> ByteValues]
  <2> HIDE DEF piece
  <2>1. ASSUME NEW i \in 1 .. piece.n PROVE Cell(piece.win, piece.at + i - 1) \in Cells
    <3>1. call.at + piece.off + i - 1 \in Nat
      BY <1>12, <1>15
    <3>2. (call.at + piece.off + i - 1) % N \in Memory
      BY <1>15, <3>1 DEF Memory
    <3> QED  BY <1>15, <1>16, <3>2
  <2> QED  BY <1>9, <1>12, <2>1, BytesRead
<1>19. bp_table \in Tables /\ mem \in [Cells -> ByteValues]
  BY <1>9 DEF MTypes
\* The slot of a breakpoint.
<1>20. call.op \in {"add", "delete"} =>
         /\ slot \in Slots /\ Holds(bp_table, slot, call.at)
         /\ bp_table[slot].opcode \in ByteValues
  <2> SUFFICES ASSUME call.op \in {"add", "delete"}
               PROVE  /\ slot \in Slots /\ Holds(bp_table, slot, call.at)
                      /\ bp_table[slot].opcode \in ByteValues
    OBVIOUS
  <2>1. \E A : Holding(bp_table, A)
    BY <1>9 DEF TableNow
  <2>2. \E i \in Slots : Holds(bp_table, i, call.at)
    BY <1>9, <1>17 DEF TableNow, Holding
  <2>3. slot \in Slots /\ Holds(bp_table, slot, call.at)
    BY <2>1, <2>2, SlotOf DEF slot, TheSlot
  <2> QED  BY <1>19, <2>3 DEF Tables, SlotRecords
<1> HIDE DEF slot
<1>21. call.op = "add" => k = 1 /\ piece.off = 0 /\ piece.n = 1
  <2> SUFFICES ASSUME call.op = "add" PROVE k = 1 /\ piece.off = 0 /\ piece.n = 1
    OBVIOUS
  <2>1. Len(call.ps) = 1
    BY <1>10 DEF GoodCall
  <2>2. Size(call) = 1
    BY DEF Size
  <2>3. k = 1
    BY <1>6, <2>1
  <2>4. call.ps[1].off = 0 /\ call.ps[1].off + call.ps[1].n = 1
    BY <1>11, <2>1, <2>2 DEF Tiles
  <2> QED  BY <1>12, <2>3, <2>4 DEF piece
<1>22. call.op # "read" => source \in Seq(ByteValues) /\ Len(source) = Size(call)
  <2>1. CASE call.op = "delete"
    BY <1>20, <2>1 DEF Size
  <2>2. CASE call.op = "write"
    BY <1>10, <2>2 DEF Size, GoodCall
  <2>3. CASE call.op = "add"
    <3>1. source = <<RST>> /\ Size(call) = 1 /\ RST \in ByteValues
      BY <1>10, <2>3, BytesAssumption DEF Size, GoodCall
    <3> HIDE DEF source
    <3> QED  BY <3>1
  <2> QED  BY <1>11, <2>1, <2>2, <2>3
<1>23. call.op # "read" =>
         /\ store(mem, piece, source) \in [Cells -> ByteValues]
         /\ \A c \in Cells : store(mem, piece, source)[c] =
              IF c - call.at \in piece.off .. piece.off + piece.n - 1
                THEN source[c - call.at + 1] ELSE mem[c]
  <2> HIDE DEF source
  <2> QED  BY <1>6, <1>11, <1>19, <1>22, StorePiece DEF piece
<1> HIDE DEF piece, source
<1>24. mem' \in [Cells -> ByteValues]
  BY <1>14, <1>19, <1>23 DEF Written
<1>25. Jobs' /\ Reporting'
  BY <1>4, <1>5, <1>9 DEF Jobs, Safe, Reporting
\* The table keeps its order, whatever was read.
<1>26. call.op = "add" =>
         /\ bp_table' \in Tables
         /\ \A i \in Slots \ {slot} : bp_table'[i] = bp_table[i]
         /\ bp_table'[slot].in_use = bp_table[slot].in_use
         /\ bp_table'[slot].address = bp_table[slot].address
         /\ bp_table'[slot].opcode = bytes[1] /\ bytes[1] \in ByteValues
  <2> SUFFICES ASSUME call.op = "add"
               PROVE  /\ bp_table' \in Tables
                      /\ \A i \in Slots \ {slot} : bp_table'[i] = bp_table[i]
                      /\ bp_table'[slot].in_use = bp_table[slot].in_use
                      /\ bp_table'[slot].address = bp_table[slot].address
                      /\ bp_table'[slot].opcode = bytes[1] /\ bytes[1] \in ByteValues
    OBVIOUS
  <2> DEFINE d == bytes[1]
  <2>1. bp_table' = [bp_table EXCEPT ![slot].opcode = d]
    BY <1>13
  <2>2. d \in ByteValues
    BY <1>18, <1>21
  <2> HIDE DEF d
  <2>3. /\ bp_table' \in Tables
        /\ \A i \in Slots \ {slot} : bp_table'[i] = bp_table[i]
        /\ bp_table'[slot].in_use = bp_table[slot].in_use
        /\ bp_table'[slot].address = bp_table[slot].address
        /\ bp_table'[slot].opcode = d
    BY <1>19, <1>20, <2>1, <2>2 DEF Tables, SlotRecords
  <2> QED  BY <2>2, <2>3 DEF d
<1>27. call.op # "add" => bp_table' = bp_table
  BY <1>13
<1>28. MTypes'
  BY <1>5, <1>9, <1>24, <1>26, <1>27 DEF MTypes
<1>29. TableNow'
  <2>1. CASE call.op = "add"
    <3>1. Holding(bp_table', asked \cup {call.at})
      <4>1. Holding(bp_table, asked \cup {call.at})
        BY <1>9, <1>17, <2>1 DEF TableNow
      <4> DEFINE d == bytes[1]
      <4>2. /\ bp_table' \in Tables /\ d \in ByteValues
            /\ slot \in Slots /\ Holds(bp_table, slot, call.at)
            /\ \A i \in Slots \ {slot} : bp_table'[i] = bp_table[i]
            /\ bp_table'[slot].in_use = bp_table[slot].in_use
            /\ bp_table'[slot].address = bp_table[slot].address
            /\ bp_table'[slot].opcode = d
        BY <1>20, <1>26, <2>1
      <4> HIDE DEF d
      <4> QED  BY <1>11, <1>19, <4>1, <4>2, OpcodeHeld
    <3>2. call.at # Top => call.at \notin asked
      BY <1>9, <1>17, <2>1 DEF TableNow
    <3> QED  BY <1>4, <1>5, <1>17, <2>1, <3>1, <3>2 DEF TableNow, Holding
  <2>2. CASE call.op # "add"
    BY <1>4, <1>5, <1>9, <1>17, <1>27, <2>2 DEF TableNow, Holding
  <2> QED  BY <2>1, <2>2
\* Nothing was lost.
<1>30. ASSUME ~lost' PROVE Exact'
  <2>1. ~lost /\ Held
    BY <1>30, Zenon DEF MemcpyMain
  <2>2. MemoryNow /\ BufferNow /\ OpcodesNow
    BY <2>1 DEF MInv, Exact
  <2>3. /\ bytes = load(mem, piece) /\ mem' = IF call.op = "read" THEN mem ELSE store(mem, piece, source)
    BY <1>13, <1>14, <2>1 DEF Read_bytes, Written, Held
  <2>4. \A i \in 1 .. piece.n : bytes[i] = mem[(call.at + piece.off + i - 1) % N]
    BY <1>16, <2>3 DEF load
  <2>5. DoneBytes = piece.off
    BY <1>8, <1>12 DEF DoneBytes, piece
  <2>6. DoneBytes' = piece.off + piece.n
    <3>1. k # 0
      BY <1>6
    <3> QED  BY <1>4, <1>8, <3>1 DEF DoneBytes, piece
  <2>7. Puts' = Puts /\ \A a : Shown(a)' = Shown(a)
    BY <1>4, <1>5 DEF Puts, Shown
  <2>8. CASE call.op = "read"
    <3>1. mem' = mem /\ bp_table' = bp_table /\ buf' = buf \o bytes
      BY <1>13, <2>3, <2>8
    <3>2. \A a : Now(a) = Shown(a) /\ Now(a)' = Shown(a)
      BY <1>4, <2>7, <2>8 DEF Now
    <3>3. MemoryNow'
      BY <2>2, <3>1, <3>2 DEF MemoryNow
    <3>4. OpcodesNow'
      <4>1. \A a : Hides(bp_table, a)' <=> Hides(bp_table, a)
        BY <1>5, <3>1 DEF Hides
      <4> QED  BY <1>5, <1>17, <2>2, <2>8, <4>1 DEF OpcodesNow
    <3>5. BufferNow'
      <4> DEFINE at(i) == (call.at + i - 1) % N
      <4>1. /\ buf \in [1 .. piece.off -> ByteValues]
            /\ \A i \in 1 .. piece.off : at(i) # Top => buf[i] = Shown(at(i))
        BY <1>17, <2>2, <2>5, <2>8 DEF BufferNow
      <4>2. ASSUME NEW i \in 1 .. piece.n
            PROVE  at(piece.off + i) # Top => bytes[i] = Shown(at(piece.off + i))
        <5>1. call.at + piece.off + i - 1 = call.at + (piece.off + i) - 1
              /\ call.at + piece.off + i - 1 \in Nat
          BY <1>12, <1>15
        <5>2. at(piece.off + i) \in Memory
          BY <1>15, <5>1 DEF Memory
        <5>3. bytes[i] = mem[at(piece.off + i)]
          BY <2>4, <5>1
        <5> QED  BY <2>2, <3>2, <5>2, <5>3 DEF MemoryNow
      <4>3. /\ buf' \in [1 .. piece.off + piece.n -> ByteValues]
            /\ \A i \in 1 .. piece.off : buf'[i] = buf[i]
            /\ \A i \in 1 .. piece.n : buf'[piece.off + i] = bytes[i]
        <5>1. buf \in [1 .. piece.off -> ByteValues] /\ piece.off \in Nat /\ piece.n \in Nat
          BY <1>12, <4>1
        <5>2. Joined(buf', buf, bytes)
          BY <3>1 DEF Joined
        <5> DEFINE m == piece.off
                   n == piece.n
        <5>3. m \in Nat /\ n \in Nat /\ buf \in [1 .. m -> ByteValues] /\ bytes \in [1 .. n -> ByteValues]
          BY <1>18, <5>1
        <5> HIDE DEF m, n
        <5>4. /\ buf' \in [1 .. m + n -> ByteValues]
              /\ \A i \in 1 .. m : buf'[i] = buf[i]
              /\ \A i \in 1 .. n : buf'[m + i] = bytes[i]
          BY <5>2, <5>3, TwoRuns
        <5> QED  BY <5>4 DEF m, n
      <4> HIDE DEF at
      <4>4. ASSUME NEW i \in 1 .. piece.off + piece.n, at(i) # Top
            PROVE  buf'[i] = Shown(at(i))
        <5>1. CASE i \in 1 .. piece.off
          BY <4>1, <4>3, <4>4, <5>1
        <5>2. CASE i \notin 1 .. piece.off
          <6>1. i - piece.off \in 1 .. piece.n /\ piece.off + (i - piece.off) = i
            BY <1>12, <5>2
          <6> QED  BY <4>2, <4>3, <4>4, <6>1
        <5> QED  BY <5>1, <5>2
      <4> QED
        BY <1>4, <1>17, <2>6, <2>7, <2>8, <4>3, <4>4 DEF BufferNow, at
    <3> QED
      BY <3>3, <3>4, <3>5 DEF Exact
  <2>9. CASE call.op # "read"
    <3>1. call.op = "delete" /\ call.at # Top => bp_table[slot].opcode = prog[call.at]
      <4> SUFFICES ASSUME call.op = "delete", call.at # Top
                   PROVE  bp_table[slot].opcode = prog[call.at]
        OBVIOUS
      <4>1. call.at \in asked
        BY <1>9, <1>17, <1>20 DEF TableNow, Holding, Holds
      <4> QED  BY <1>20, <2>2, <4>1 DEF OpcodesNow, Hides
    <3>2. \A a \in Memory \ {Top} : a - call.at \in 0 .. Size(call) - 1
                => source[a - call.at + 1] = Puts[a - call.at + 1]
      <4>1. CASE call.op = "delete"
        <5>1. Size(call) = 1
          BY <4>1 DEF Size
        <5>2. ASSUME NEW a \in Memory \ {Top}, a - call.at \in 0 .. 0
              PROVE  a = call.at /\ a - call.at + 1 = 1
          BY <1>15, <5>2
        <5> QED  BY <3>1, <4>1, <5>1, <5>2 DEF source, Puts
      <4>2. CASE call.op # "delete"
        BY <4>2 DEF source, Puts
      <4> QED  BY <4>1, <4>2
    <3>3. /\ buf' = buf
          /\ \A c \in Cells : mem'[c] = IF c - call.at \in piece.off .. piece.off + piece.n - 1
                                          THEN source[c - call.at + 1] ELSE mem[c]
      BY <1>13, <1>23, <2>3, <2>9
    <3>4. ASSUME NEW a \in Memory \ {Top} PROVE mem'[a] = Now(a)'
      <4>1. mem[a] = IF a - call.at \in 0 .. piece.off - 1 THEN Puts[a - call.at + 1] ELSE Shown(a)
        BY <1>3, <2>2, <2>5, <2>9 DEF MemoryNow, Now
      <4>2. Now(a)' = IF a - call.at \in 0 .. piece.off + piece.n - 1
                        THEN Puts[a - call.at + 1] ELSE Shown(a)
        <5>1. Now(a)' = IF InBus' /\ call'.op # "read" /\ a - call'.at \in 0 .. DoneBytes' - 1
                          THEN Puts'[a - call'.at + 1] ELSE Shown(a)'
          BY Zenon DEF Now
        <5>2. Shown(a)' = Shown(a)
          BY <2>7
        <5>3. call'.op # "read" /\ call'.at = call.at /\ Puts' = Puts
          BY <1>4, <2>7, <2>9
        <5>4. CASE a - call.at \in 0 .. piece.off + piece.n - 1
          <6>1. a - call'.at \in 0 .. DoneBytes' - 1
            BY <1>12, <2>6, <5>3, <5>4
          <6>2. Now(a)' = Puts'[a - call'.at + 1]
            BY <1>3, <5>1, <5>3, <6>1, Zenon
          <6> QED  BY <5>3, <5>4, <6>2
        <5>5. CASE ~(a - call.at \in 0 .. piece.off + piece.n - 1)
          <6>1. ~(a - call'.at \in 0 .. DoneBytes' - 1)
            BY <1>12, <2>6, <5>3, <5>5
          <6>2. Now(a)' = Shown(a)'
            BY <5>1, <6>1, Zenon
          <6> QED  BY <5>2, <5>5, <6>2
        <5> QED  BY <5>4, <5>5
      <4>3. mem'[a] = IF a - call.at \in piece.off .. piece.off + piece.n - 1
                        THEN source[a - call.at + 1] ELSE mem[a]
        BY <1>15, <3>3
      <4>4. a - call.at \in piece.off .. piece.off + piece.n - 1
              => source[a - call.at + 1] = Puts[a - call.at + 1]
        <5>1. ASSUME a - call.at \in piece.off .. piece.off + piece.n - 1
              PROVE  a - call.at \in 0 .. Size(call) - 1
          BY <1>11, <1>12, <5>1
        <5> QED  BY <3>2, <5>1
      <4>5. a - call.at \in 0 .. piece.off + piece.n - 1 <=>
              a - call.at \in 0 .. piece.off - 1 \/ a - call.at \in piece.off .. piece.off + piece.n - 1
        BY <1>12, <1>15
      <4> QED  BY <4>1, <4>2, <4>3, <4>4, <4>5
    <3>5. ASSUME NEW c \in Cells \ Memory PROVE mem'[c] = 0
      <4>1. c \in Int /\ c < 0
        BY <1>15, MapAssumption DEF Cells, Memory
      <4>2. c - call.at \notin piece.off .. piece.off + piece.n - 1
        BY <1>12, <1>15, <4>1
      <4> QED  BY <2>2, <3>3, <4>2 DEF MemoryNow
    <3>6. MemoryNow'
      BY <3>4, <3>5 DEF MemoryNow
    <3>7. BufferNow'
      BY <1>17, <2>2, <2>9, <3>3 DEF BufferNow
    <3>8. OpcodesNow'
      <4>1. CASE call.op = "add"
        <5>1. bytes[1] = mem[call.at]
          <6>1. call.at % N = call.at
            BY <1>11, <1>15, SmallMod DEF Memory
          <6>2. call.at + piece.off + 1 - 1 = call.at /\ 1 \in 1 .. piece.n
            BY <1>15, <1>21, <4>1
          <6>3. bytes[1] = mem[(call.at + piece.off + 1 - 1) % N]
            BY <2>4, <6>2
          <6> QED  BY <6>1, <6>2, <6>3
        <5>2. call.at # Top => bytes[1] = prog[call.at]
          <6> SUFFICES ASSUME call.at # Top PROVE bytes[1] = prog[call.at]
            OBVIOUS
          <6>1. Now(call.at) = Shown(call.at)
            <7>1. ~(call.at - call.at \in 0 .. piece.off - 1)
              BY <1>15, <1>21, <4>1
            <7> QED  BY <2>5, <7>1 DEF Now
          <6>2. call.at \notin asked
            BY <1>9, <1>17, <4>1 DEF TableNow
          <6> QED  BY <1>11, <2>2, <5>1, <6>1, <6>2 DEF MemoryNow, Shown
        <5>3. /\ \A a : a # call.at /\ Hides(bp_table, a) => Hides(bp_table', a)
              /\ call.at # Top => Hides(bp_table', call.at)
          <6>1. Holding(bp_table, asked \cup {call.at})
            BY <1>9, <1>17, <4>1 DEF TableNow
          <6> DEFINE d == bytes[1]
          <6>2. /\ bp_table' \in Tables /\ d \in ByteValues
                /\ slot \in Slots /\ Holds(bp_table, slot, call.at)
                /\ \A i \in Slots \ {slot} : bp_table'[i] = bp_table[i]
                /\ bp_table'[slot].in_use = bp_table[slot].in_use
                /\ bp_table'[slot].address = bp_table[slot].address
                /\ bp_table'[slot].opcode = d
            BY <1>20, <1>26, <4>1
          <6>3. call.at # Top => d = prog[call.at]
            BY <5>2
          <6> HIDE DEF d
          <6> QED  BY <1>11, <1>19, <6>1, <6>2, <6>3, OpcodeHeld
        <5>4. \A a : Hides(bp_table, a)' <=> Hides(bp_table', a)
          BY <1>5 DEF Hides
        <5>5. \A a \in asked \ {Top} : Hides(bp_table', a)
          BY <1>9, <1>17, <2>2, <4>1, <5>3 DEF OpcodesNow, TableNow
        <5> QED  BY <1>4, <1>5, <5>3, <5>4, <5>5 DEF OpcodesNow
      <4>2. CASE call.op # "add"
        <5>1. \A a : Hides(bp_table, a)' <=> Hides(bp_table, a)
          BY <1>5, <1>27, <4>2 DEF Hides
        <5> QED  BY <1>5, <1>17, <2>2, <4>2, <5>1 DEF OpcodesNow
      <4> QED  BY <4>1, <4>2
    <3> QED
      BY <3>6, <3>7, <3>8 DEF Exact
  <2> QED
    BY <2>8, <2>9
<1> QED
  BY <1>7, <1>25, <1>28, <1>29, <1>30 DEF MInv

(* A transfer that writes through a window left open is the copy that is    *)
(* lost; one that does not leaves everything alone.                         *)
LEMMA MemcpyTransferInv ==
  ASSUME IInv, MInv, MemcpyTransfer
  PROVE  MInv'
<1>1. top > 0 /\ Memcpy
  BY DEF MemcpyTransfer
<1>2. UNCHANGED <<bp_table, bp_adr, dbginfo_state, job, buf, phase, prog, asked>>
  BY DEF MemcpyTransfer
<1>3. pc'[0] = pc[0] /\ todo' = todo
  BY <1>1, MainAt DEF Memcpy, IInv, TypeOK, Depths
<1>4. CASE ~shadow
  <2>1. UNCHANGED data
    BY <1>2, <1>4 DEF MemcpyTransfer, data
  <2> QED  BY <1>3, <2>1, KeptCalls
<1>5. CASE shadow
  <2>1. PICK a \in INTERNAL .. N - 1, d \in Noise : mem' = [mem EXCEPT ![Cell(TRUE, a)] = d]
    BY <1>5, Zenon DEF MemcpyTransfer
  <2>2. lost'
    BY <1>5, Zenon DEF MemcpyTransfer
  <2>3. mem' \in [Cells -> ByteValues]
    <3>1. d \in ByteValues /\ mem \in [Cells -> ByteValues]
      BY BytesAssumption DEF MInv, MTypes
    <3> DEFINE c == Cell(TRUE, a)
    <3> HIDE DEF c
    <3>2. mem' = [mem EXCEPT ![c] = d]
      BY <2>1 DEF c
    <3> QED  BY <3>1, <3>2
  <2>4. MTypes' /\ Reporting'
    BY <1>2, <2>3 DEF MInv, MTypes, Reporting
  <2>5. call' = call /\ (InBus' <=> InBus)
    BY <1>2, <1>3 DEF call, InBus
  <2>6. Jobs' /\ InCalls'
    BY <1>2, <1>3, <2>5 DEF MInv, Jobs, Safe, InCalls
  <2>7. \A op : Doing(op)' <=> Doing(op)
    BY <2>5 DEF Doing
  <2>8. TableNow'
    BY <1>2, <2>5, <2>7 DEF MInv, TableNow, Holding
  <2> QED
    BY <2>2, <2>4, <2>6, <2>8, Zenon DEF MInv
<1> QED
  BY <1>4, <1>5

(* The end of a call: memory and the breakpoints are as it was asked for. *)
LEMMA ReleaseMainInv ==
  ASSUME IInv, MInv, ReleaseMain
  PROVE  MInv'
<1> USE DEF BusPcs
<1>1. top = 0 /\ job # <<>> /\ pc[0] = "release" /\ todo' = todo /\ Goto("idle")
  BY DEF ReleaseMain, InCall, Release, At
<1>2. pc'[0] = "idle"
  BY <1>1, MainAt
<1>3. InBus /\ ~InBus'
  BY <1>1, <1>2 DEF InBus
<1>4. /\ mem' = mem /\ bp_adr' = bp_adr /\ dbginfo_state' = dbginfo_state /\ phase' = phase
      /\ job' = Tail(job) /\ buf' = <<>> /\ lost' = lost
  BY DEF ReleaseMain, EndCall
<1>5. /\ bp_table' = CASE call.op = "add" -> SortBreakPoint(bp_table)
                       [] call.op = "delete" -> SortBreakPoint(Cleared(bp_table, TheSlot))
                       [] OTHER -> bp_table
      /\ asked' = CASE call.op = "add" -> asked \cup {call.at}
                    [] call.op = "delete" -> asked \ {call.at}
                    [] OTHER -> asked
      /\ prog' = IF call.op = "write"
                   THEN [a \in Memory |-> IF a - call.at \in 0 .. Len(call.ref) - 1
                                            THEN call.ref[a - call.at + 1] ELSE prog[a]]
                   ELSE prog
  BY Zenon DEF ReleaseMain
<1>6. MTypes /\ Jobs /\ TableNow /\ Reporting
  BY DEF MInv
<1>7. GoodCall(call) /\ Safe(call)
  BY <1>1, <1>6, CallIsGood
<1>8. /\ call.op \in {"read", "write", "add", "delete"} /\ call.at \in Memory
      /\ Tiles(call.ps, call.at, Size(call)) /\ Size(call) \in Nat
  BY <1>7 DEF GoodCall
<1>9. DoneBytes = Size(call)
  <2>1. Len(todo) = 1 /\ Len(call.ps) \in Nat \ {0}
    BY <1>1, <1>3, <1>8 DEF MInv, InCalls, Tiles
  <2>2. Done = Len(call.ps) - Len(todo) + 1
    BY <1>1 DEF Done
  <2>3. Done = Len(call.ps) /\ Done # 0
    BY <2>1, <2>2
  <2> QED  BY <1>8, <2>3 DEF DoneBytes, Tiles
<1>10. N \in Nat \ {0} /\ Memory \subseteq Nat
  BY MapAssumption DEF Memory
<1>11. Jobs'
  BY <1>1, <1>4, <1>5, <1>6, <1>8, JobsLeft
<1>12. InCalls' /\ BufferNow'
  BY <1>2, <1>3, <1>4 DEF InCalls, BufferNow, Doing
<1>13. \A op : Doing(op) <=> call.op = op
  BY <1>3 DEF Doing
<1>14. \A op : ~Doing(op)'
  BY <1>3 DEF Doing
<1>15. Reporting'
  BY <1>4, <1>6 DEF Reporting
\* The program: what was written lies over no breakpoint.
<1>16. /\ prog' \in [Memory -> ByteValues]
       /\ call.op # "write" => prog' = prog
       /\ call.op = "write" =>
            /\ \A a \in Memory : prog'[a] = IF a - call.at \in 0 .. Size(call) - 1
                                              THEN call.bytes[a - call.at + 1] ELSE prog[a]
            /\ \A a \in asked : ~(a - call.at \in 0 .. Size(call) - 1)
  <2>1. CASE call.op # "write"
    BY <1>5, <1>6, <2>1 DEF MTypes
  <2>2. CASE call.op = "write"
    <3>1. call.bytes \in Seq(ByteValues) /\ call.ref = call.bytes /\ Size(call) = Len(call.bytes)
      BY <1>7, <2>2 DEF GoodCall, Size
    <3>2. prog' = [a \in Memory |-> IF a - call.at \in 0 .. Len(call.bytes) - 1
                                      THEN call.bytes[a - call.at + 1] ELSE prog[a]]
      BY <1>5, <2>2, <3>1
    <3>3. ASSUME NEW a \in Memory, a - call.at \in 0 .. Len(call.bytes) - 1
          PROVE  call.bytes[a - call.at + 1] \in ByteValues
      BY <1>8, <1>10, <3>1, <3>3
    <3>4. prog' \in [Memory -> ByteValues]
      BY <1>6, <3>2, <3>3 DEF MTypes
    <3>5. ASSUME NEW a \in Memory, a - call.at \in 0 .. Len(call.bytes) - 1
          PROVE  a \notin asked
      <4>1. a - call.at + 1 \in DOMAIN call.ref /\ call.at + (a - call.at + 1) - 1 = a
        <5>1. a \in Nat /\ call.at \in Nat /\ Len(call.bytes) \in Nat
          BY <1>8, <1>10, <3>1
        <5>2. a - call.at + 1 \in 1 .. Len(call.bytes)
          BY <3>5, <5>1
        <5>3. call.at + (a - call.at + 1) - 1 = a
          BY <5>1
        <5> QED  BY <3>1, <5>2, <5>3
      <4>2. \A i \in DOMAIN call.ref : call.at + i - 1 \notin asked
        BY <1>7, <2>2 DEF Safe
      <4>3. call.at + (a - call.at + 1) - 1 \notin asked
        BY <4>1, <4>2, Zenon
      <4> QED  BY <4>1, <4>3
    <3>6. \A a \in asked : ~(a - call.at \in 0 .. Len(call.bytes) - 1)
      BY <1>6, <3>5 DEF MTypes
    <3> QED  BY <2>2, <3>1, <3>2, <3>4, <3>6
  <2> QED  BY <2>1, <2>2
<1>17. call.op = "write" => \A a \in asked : prog'[a] = prog[a]
  BY <1>6, <1>16 DEF MTypes
\* The table keeps its order, and what its slots hide.
<1>18. /\ bp_table' \in Tables /\ asked' \subseteq Memory
       /\ Holding(bp_table', asked') /\ SettledFrom(bp_table', 1)
       /\ \A a : Hides(bp_table, a) => Hides(bp_table', a)
  <2>1. CASE call.op \in {"read", "write"}
    <3>1. bp_table' = bp_table /\ asked' = asked
      BY <1>5, <2>1
    <3>2. Holding(bp_table, asked) /\ SettledFrom(bp_table, 1)
      BY <1>6, <1>13, <2>1 DEF TableNow
    <3> QED  BY <1>6, <3>1, <3>2 DEF MTypes
  <2>2. CASE call.op = "add"
    <3>1. asked' = asked \cup {call.at} /\ bp_table' = SortBreakPoint(bp_table)
      BY <1>5, <2>2
    <3>2. bp_table \in Tables /\ Holding(bp_table, asked \cup {call.at})
      BY <1>6, <1>13, <2>2 DEF TableNow, MTypes
    <3>3. /\ bp_table' \in Tables /\ SettledFrom(bp_table', 1) /\ Holding(bp_table', asked')
          /\ \A a : Hides(bp_table, a) => Hides(bp_table', a)
      BY <3>1, <3>2, SortKeeps
    <3> QED  BY <1>6, <1>8, <3>1, <3>3 DEF MTypes
  <2>3. CASE call.op = "delete"
    <3> DEFINE t == Cleared(bp_table, SlotToDelete(bp_table, call.at))
    <3>1. asked' = asked \ {call.at} /\ bp_table' = SortBreakPoint(t)
      BY <1>5, <2>3 DEF TheSlot
    <3>2. /\ bp_table \in Tables /\ Holding(bp_table, asked)
          /\ \E i \in Slots : Holds(bp_table, i, call.at)
      BY <1>6, <1>13, <2>3 DEF TableNow, MTypes
    <3>3. /\ t \in Tables /\ Holding(t, asked \ {call.at})
          /\ \A a : Hides(bp_table, a) => Hides(t, a)
      BY <3>2, ClearedHolds
    <3> HIDE DEF t
    <3>4. /\ bp_table' \in Tables /\ SettledFrom(bp_table', 1) /\ Holding(bp_table', asked')
          /\ \A a : Hides(t, a) => Hides(bp_table', a)
      BY <3>1, <3>3, SortKeeps
    <3> QED  BY <1>6, <3>1, <3>3, <3>4 DEF MTypes
  <2> QED  BY <1>8, <2>1, <2>2, <2>3
<1>19. MTypes'
  BY <1>4, <1>6, <1>16, <1>18 DEF MTypes
<1>20. TableNow'
  BY <1>14, <1>18 DEF TableNow, Holding, SettledFrom
\* Nothing was lost: the call is done.
<1>21. ASSUME ~lost' PROVE Exact'
  <2>1. MemoryNow /\ OpcodesNow
    BY <1>4, <1>21 DEF MInv, Exact
  <2>2. ASSUME NEW a \in Memory \ {Top}
        PROVE  mem[a] = IF call.op # "read" /\ a - call.at \in 0 .. Size(call) - 1
                          THEN Puts[a - call.at + 1] ELSE Shown(a)
    BY <1>3, <1>9, <2>1 DEF MemoryNow, Now
  <2>3. ASSUME NEW a \in Memory \ {Top} PROVE mem[a] = Shown(a)'
    <3>1. CASE call.op = "read"
      <4>1. asked' = asked /\ prog' = prog
        BY <1>5, <3>1
      <4> QED  BY <2>2, <3>1, <4>1 DEF Shown
    <3>2. CASE call.op = "write"
      <4>1. asked' = asked /\ Puts = call.bytes
        BY <1>5, <3>2 DEF Puts
      <4>2. CASE a - call.at \in 0 .. Size(call) - 1
        BY <1>16, <2>2, <3>2, <4>1, <4>2 DEF Shown
      <4>3. CASE ~(a - call.at \in 0 .. Size(call) - 1)
        BY <1>16, <2>2, <3>2, <4>1, <4>3 DEF Shown
      <4> QED  BY <4>2, <4>3
    <3>3. CASE call.op \in {"add", "delete"}
      <4>1. Size(call) = 1 /\ prog' = prog
        BY <1>5, <3>3 DEF Size
      <4>2. a \in Nat /\ call.at \in Nat
        BY <1>8, <1>10
      <4>3. a - call.at \in 0 .. Size(call) - 1 <=> a = call.at
        BY <4>1, <4>2
      <4>4. mem[a] = IF a = call.at THEN Puts[1] ELSE Shown(a)
        <5>1. a = call.at => a - call.at + 1 = 1
          BY <4>2
        <5> QED  BY <2>2, <3>3, <4>3, <5>1
      <4>5. CASE call.op = "add"
        BY <1>5, <1>7, <4>1, <4>4, <4>5 DEF Puts, GoodCall, Shown
      <4>6. CASE call.op = "delete"
        BY <1>5, <4>1, <4>4, <4>6 DEF Puts, Shown
      <4> QED  BY <3>3, <4>5, <4>6
    <3> QED  BY <1>8, <3>1, <3>2, <3>3
  <2>4. MemoryNow'
    <3>1. \A a : Now(a)' = Shown(a)'
      BY <1>3 DEF Now
    <3> QED  BY <1>4, <2>1, <2>3, <3>1 DEF MemoryNow
  <2>5. ASSUME NEW a \in asked' \ {Top} PROVE Hides(bp_table, a) /\ prog'[a] = prog[a]
    <3>1. CASE call.op = "add" /\ a = call.at
      <4>1. Done = 1
        <5>1. Len(call.ps) = 1 /\ Len(todo) = 1
          BY <1>1, <1>3, <1>7, <3>1 DEF GoodCall, MInv, InCalls
        <5> QED  BY <1>1, <5>1 DEF Done
      <4> QED  BY <1>5, <1>13, <2>1, <2>5, <3>1, <4>1 DEF OpcodesNow
    <3>2. CASE ~(call.op = "add" /\ a = call.at)
      <4>1. a \in asked
        BY <1>5, <2>5, <3>2
      <4> QED  BY <1>5, <1>17, <2>1, <2>5, <4>1 DEF OpcodesNow
    <3> QED  BY <3>1, <3>2
  <2>6. OpcodesNow'
    <3>1. ASSUME NEW a \in asked' \ {Top} PROVE Hides(bp_table, a)'
      BY <1>18, <2>5 DEF Hides
    <3> QED  BY <1>14, <3>1 DEF OpcodesNow
  <2> QED
    BY <1>12, <2>4, <2>6 DEF Exact
<1> QED
  BY <1>11, <1>12, <1>15, <1>19, <1>20, <1>21 DEF MInv

(* A call that has nothing to do, and the beginning of one that has. *)
LEMMA SkipCallInv ==
  ASSUME IInv, MInv, SkipCall
  PROVE  MInv'
<1>1. pc[0] = "idle" /\ job # <<>> /\ pc' = pc /\ todo' = todo
  BY DEF SkipCall, MainIdle, At, vars
<1>2. /\ mem' = mem /\ bp_adr' = bp_adr /\ dbginfo_state' = dbginfo_state /\ phase' = phase
      /\ prog' = prog /\ asked' = asked /\ job' = Tail(job) /\ buf' = <<>> /\ lost' = lost
      /\ (bp_table' = bp_table \/ bp_table' = SortBreakPoint(bp_table))
  BY DEF SkipCall, EndCall
<1>3. ~InBus /\ ~InBus'
  BY <1>1 DEF InBus, BusPcs
<1>4. \A op : ~Doing(op) /\ ~Doing(op)'
  BY <1>3 DEF Doing
<1>5. MTypes /\ Jobs /\ TableNow /\ Reporting
  BY DEF MInv
<1>6. Jobs'
  BY <1>1, <1>2, <1>5, JobsLeft
<1>7. InCalls'
  BY <1>3 DEF InCalls
<1>8. bp_table \in Tables /\ Holding(bp_table, asked) /\ SettledFrom(bp_table, 1)
  BY <1>4, <1>5 DEF TableNow, MTypes
<1>9. /\ bp_table' \in Tables /\ Holding(bp_table', asked) /\ SettledFrom(bp_table', 1)
      /\ \A a : Hides(bp_table, a) => Hides(bp_table', a)
  BY <1>2, <1>8, SortKeeps
<1>10. TableNow'
  BY <1>2, <1>4, <1>9 DEF TableNow, Holding, SettledFrom
<1>11. MTypes' /\ Reporting'
  BY <1>2, <1>5, <1>9 DEF MTypes, Reporting
<1>12. ASSUME ~lost' PROVE Exact'
  <2>1. MemoryNow /\ OpcodesNow
    BY <1>2, <1>12 DEF MInv, Exact
  <2>2. MemoryNow'
    <3>1. \A a : Now(a) = Shown(a) /\ Now(a)' = Shown(a)'
      BY <1>3 DEF Now
    <3>2. \A a : Shown(a)' = Shown(a)
      BY <1>2 DEF Shown
    <3> QED  BY <1>2, <2>1, <3>1, <3>2 DEF MemoryNow
  <2>3. BufferNow'
    BY <1>2, <1>4 DEF BufferNow
  <2>4. OpcodesNow'
    <3>1. \A a \in asked' \ {Top} : Hides(bp_table, a)'
      BY <1>2, <1>9, <2>1 DEF Hides, OpcodesNow
    <3> QED  BY <1>4, <3>1 DEF OpcodesNow
  <2> QED
    BY <2>2, <2>3, <2>4 DEF Exact
<1> QED
  BY <1>6, <1>7, <1>10, <1>11, <1>12 DEF MInv

LEMMA BeginCallInv ==
  ASSUME IInv, MInv, BeginCall
  PROVE  MInv'
<1> USE DEF BusPcs
<1>1. /\ top = 0 /\ pc[0] = "idle" /\ job # <<>> /\ ~Needless /\ Goto("attach")
      /\ todo' = Todo(call.ps)
  BY DEF BeginCall, MainIdle, At, Command
<1>2. pc'[0] = "attach"
  BY <1>1, MainAt
<1>3. /\ mem' = mem /\ bp_adr' = bp_adr /\ dbginfo_state' = dbginfo_state /\ phase' = phase
      /\ prog' = prog /\ asked' = asked /\ job' = job /\ buf' = buf
      /\ lost' = lost
      /\ bp_table' = IF call.op = "add" THEN Taken(bp_table, Slot, call.at) ELSE bp_table
  BY Zenon DEF BeginCall
<1>4. call' = call
  BY <1>3 DEF call
<1>5. ~InBus /\ InBus'
  BY <1>1, <1>2 DEF InBus
<1>6. \A op : ~Doing(op) /\ (Doing(op)' <=> call.op = op)
  BY <1>4, <1>5 DEF Doing
<1>7. MTypes /\ Jobs /\ TableNow /\ Reporting
  BY DEF MInv
<1>8. GoodCall(call)
  BY <1>1, <1>7, CallIsGood
<1>9. call.ps \in Seq(Pieces) /\ Len(call.ps) >= 1
  BY <1>8 DEF GoodCall, Tiles
<1>10. Len(todo') = Len(call.ps)
  <2> HIDE DEF call
  <2> QED  BY <1>1, <1>9 DEF Todo
<1>11. InCalls'
  <2>1. Len(todo') \in 1 .. Len(call.ps)
    BY <1>9, <1>10
  <2> QED  BY <1>1, <1>2, <1>3, <1>4, <2>1 DEF InCalls
<1>12. Done' = 0 /\ DoneBytes' = 0
  <2>1. Done' = Len(call.ps) - Len(todo') + 0
    BY <1>2, <1>4 DEF Done
  <2>2. Done' = 0
    BY <1>9, <1>10, <2>1
  <2> QED  BY <2>2 DEF DoneBytes
<1>13. Jobs'
  BY <1>3, <1>7 DEF Jobs, Safe
<1>14. Reporting'
  BY <1>3, <1>7 DEF Reporting
<1>15. bp_table \in Tables /\ Holding(bp_table, asked) /\ SettledFrom(bp_table, 1)
  BY <1>6, <1>7 DEF TableNow, MTypes
<1>16. /\ bp_table' \in Tables /\ TableNow'
       /\ \A a \in asked \ {Top} : Hides(bp_table, a) => Hides(bp_table', a)
  <2>1. CASE call.op = "add"
    <3>1. Slot = SlotToAdd(bp_table, call.at)
      BY <2>1 DEF Slot
    <3>2. SlotToAdd(bp_table, call.at) # 0 /\ ~bp_table[SlotToAdd(bp_table, call.at)].in_use
      BY <1>1, <2>1, <3>1 DEF Needless
    <3>3. call.at \in Memory
      BY <1>8 DEF GoodCall
    <3>4. bp_table' = Taken(bp_table, SlotToAdd(bp_table, call.at), call.at)
      BY <1>3, <2>1, <3>1
    <3>5. /\ call.at # Top => call.at \notin asked
          /\ bp_table' \in Tables /\ Holding(bp_table', asked \cup {call.at})
          /\ \A a \in asked \ {Top} : Hides(bp_table, a) => Hides(bp_table', a)
      BY <1>15, <3>2, <3>3, <3>4, TakenHolds
    <3>6. Doing("add")' /\ ~Doing("delete")'
      BY <1>6, <2>1
    <3> QED  BY <1>3, <1>4, <3>5, <3>6 DEF TableNow, Holding
  <2>2. CASE call.op # "add"
    <3>1. bp_table' = bp_table
      BY <1>3, <2>2
    <3>2. call.op = "delete" => \E i \in Slots : Holds(bp_table, i, call.at)
      <4> SUFFICES ASSUME call.op = "delete" PROVE \E i \in Slots : Holds(bp_table, i, call.at)
        OBVIOUS
      <4>1. Slot = SlotToDelete(bp_table, call.at) /\ Slot # 0
        BY <1>1 DEF Needless, Slot
      <4> QED  BY <4>1, SlotDeleted
    <3>3. ~Doing("add")' /\ (Doing("delete")' => call.op = "delete")
      BY <1>6, <2>2
    <3> QED  BY <1>3, <1>4, <1>15, <3>1, <3>2, <3>3 DEF TableNow, Holding, SettledFrom
  <2> QED  BY <2>1, <2>2
<1>17. MTypes'
  BY <1>3, <1>7, <1>16 DEF MTypes
<1>18. ASSUME ~lost' PROVE Exact'
  <2>1. MemoryNow /\ BufferNow /\ OpcodesNow
    BY <1>3, <1>18 DEF MInv, Exact
  <2>2. BufferNow'
    <3>1. buf' = <<>>
      BY <1>3, <1>6, <2>1 DEF BufferNow
    <3>2. CASE call.op = "read"
      <4>1. 1 .. 0 = {} /\ <<>> \in [1 .. 0 -> ByteValues]
        OBVIOUS
      <4> QED  BY <1>6, <1>12, <3>1, <3>2, <4>1 DEF BufferNow
    <3>3. CASE call.op # "read"
      BY <1>6, <3>1, <3>3 DEF BufferNow
    <3> QED  BY <3>2, <3>3
  <2>3. MemoryNow'
    <3>1. ASSUME NEW a \in Memory PROVE Now(a)' = Now(a)
      <4>1. Now(a) = Shown(a)
        BY <1>5 DEF Now
      <4>2. Shown(a)' = Shown(a)
        BY <1>3 DEF Shown
      <4>3. Now(a)' = Shown(a)'
        <5>1. ~(a - call'.at \in 0 .. DoneBytes' - 1)
          BY <1>12
        <5> QED  BY <5>1, Zenon DEF Now
      <4> QED  BY <4>1, <4>2, <4>3
    <3> QED  BY <1>3, <2>1, <3>1 DEF MemoryNow
  <2>4. OpcodesNow'
    <3>1. \A a \in asked' \ {Top} : Hides(bp_table, a)'
      BY <1>3, <1>16, <2>1 DEF Hides, OpcodesNow
    <3> QED  BY <1>12, <3>1 DEF OpcodesNow
  <2> QED
    BY <2>2, <2>3, <2>4 DEF Exact
<1> QED
  BY <1>11, <1>13, <1>14, <1>16, <1>17, <1>18 DEF MInv
-----------------------------------------------------------------------------
(* The Z80.  It breaks at an address that was asked for, and reports it.    *)
LEMMA KeptMemory ==
  ASSUME IInv, MInv, UNCHANGED <<mem, bp_table, job, buf, prog, asked, lost>>,
         pc' = pc, todo' = todo
  PROVE  Jobs' /\ InCalls' /\ TableNow' /\ (lost' \/ Exact')
<1>1. call' = call
  BY DEF call
<1>2. (InBus' <=> InBus) /\ Done' = Done
  BY <1>1 DEF InBus, Done
<1>3. InCalls'
  BY <1>1 DEF MInv, InCalls, InBus
<1> QED
  BY <1>2, <1>3, KeptParts

LEMMA ResetZ80Inv ==
  ASSUME IInv, MInv, ResetZ80
  PROVE  MInv'
<1>1. UNCHANGED <<mem, bp_table, bp_adr, dbginfo_state, job, buf, prog, asked, lost>> /\ phase' = Running
  BY DEF ResetZ80
<1>2. pc[top] = "idle" /\ Goto("pulse") /\ todo' = todo
  BY DEF ResetZ80, Z80_RESET, At
<1>3. top = 0
  BY <1>2 DEF IInv, TypeOK, Kinds, Depths, TimerPcs, BusPcs
<1>4. pc[0] = "idle" /\ pc'[0] = "pulse"
  BY <1>2, <1>3, MainAt
<1>5. ~InBus /\ ~InBus'
  BY <1>4 DEF InBus, BusPcs
<1>6. InCalls'
  BY <1>5 DEF InCalls
<1>7. Jobs' /\ InCalls' /\ TableNow' /\ (lost' \/ Exact')
  BY <1>1, <1>5, <1>6, KeptParts
<1>8. Running \in [at : Phases, p : Memory]
  BY AddressesAssumption, MapAssumption DEF Running, Phases, Memory
<1>9. MTypes' /\ Reporting'
  BY <1>1, <1>8 DEF MInv, MTypes, Reporting, Running
<1> QED
  BY <1>7, <1>9 DEF MInv

LEMMA BreakInv ==
  ASSUME IInv, MInv, Break \/ Resume
  PROVE  MInv'
<1>1. UNCHANGED <<vars, mem, bp_table, bp_adr, dbginfo_state, job, buf, prog, asked, lost>>
  BY DEF Break, Resume
<1>2. Jobs' /\ InCalls' /\ TableNow' /\ (lost' \/ Exact')
  BY <1>1, KeptMemory DEF vars
<1>3. CASE Resume
  <2>1. phase' = Running
    BY <1>3 DEF Resume
  <2>2. Running \in [at : Phases, p : Memory]
    BY AddressesAssumption, MapAssumption DEF Running, Phases, Memory
  <2>3. MTypes' /\ Reporting'
    BY <1>1, <2>1, <2>2 DEF MInv, MTypes, Reporting, Running
  <2> QED
    BY <1>2, <2>3 DEF MInv
<1>4. CASE Break
  <2>1. PICK p \in Addresses : phase' = [at |-> "in", p |-> p]
    BY <1>4 DEF Break
  <2>2. p \in Memory
    BY AddressesAssumption
  <2>3. MTypes' /\ Reporting'
    BY <1>1, <2>1, <2>2 DEF MInv, MTypes, Reporting, Phases
  <2> QED
    BY <1>2, <2>3 DEF MInv
<1> QED
  BY <1>3, <1>4

\* Two bytes of an address.
LEMMA TwoBytes ==
  ASSUME NEW p \in Nat
  PROVE  /\ Byte \in Nat \ {0} /\ p \div Byte \in Nat /\ p % Byte \in ByteValues
         /\ (p \div Byte) * Byte + (p % Byte) = p /\ (p \div Byte) * Byte \in 0 .. p
<1>1. Byte \in Nat \ {0}
  BY DigitAssumption DEF Byte
<1>2. p \div Byte \in Nat /\ p % Byte \in 0 .. Byte - 1 /\ p = Byte * (p \div Byte) + (p % Byte)
  <2> HIDE DEF Byte
  <2> QED  BY <1>1
<1> QED
  <2> HIDE DEF Byte
  <2>1. (p \div Byte) * Byte = Byte * (p \div Byte)
    BY <1>1, <1>2
  <2>2. (p \div Byte) * Byte \in Nat
    BY <1>1, <1>2
  <2> DEFINE m == (p \div Byte) * Byte
             l == p % Byte
  <2>3. m \in Nat /\ l \in Nat /\ p = m + l
    BY <1>1, <1>2, <2>1, <2>2
  <2> HIDE DEF m, l
  <2>4. m + l = p /\ m \in 0 .. p
    BY <2>3
  <2> QED
    BY <1>1, <1>2, <2>4 DEF m, l, ByteValues

LEMMA IoInterruptMainInv ==
  ASSUME IInv, MInv, IoInterruptMain
  PROVE  MInv'
<1>1. UNCHANGED <<mem, bp_table, job, buf, prog, asked, lost>> /\ pc' = pc /\ todo' = todo
  BY DEF IoInterruptMain, IoInterrupt
<1>2. Jobs' /\ InCalls' /\ TableNow' /\ (lost' \/ Exact')
  BY <1>1, KeptMemory
<1>3. MTypes /\ Reporting
  BY DEF MInv
<1> DEFINE p == phase.p
<1>4. phase \in [at : Phases, p : Memory] /\ phase.at \in Phases /\ p \in Nat
  BY <1>3, MapAssumption DEF MTypes, Memory
<1> SUFFICES /\ phase' \in [at : Phases, p : Memory]
             /\ bp_adr' \in Memory /\ dbginfo_state' \in 0 .. 2 /\ Reporting'
  BY <1>1, <1>2, <1>3 DEF MTypes, MInv
<1>5. CASE phase.at \in {"program", "halt"}
  <2>1. UNCHANGED <<phase, bp_adr, dbginfo_state>>
    <3>1. ~Io /\ phase.at # "in" /\ phase.at \notin DOMAIN Sends
      BY <1>5 DEF Io, After, Sends
    <3> QED  BY <3>1, Zenon DEF IoInterruptMain
  <2> QED
    BY <1>3, <1>4, <2>1 DEF MTypes, Reporting
<1>6. CASE phase.at \in {"in", "high", "low", "regs"}
  <2>1. Io /\ phase' = [phase EXCEPT !.at = After[phase.at]]
    <3>1. Io
      BY <1>6 DEF Io, After
    <3> QED  BY <3>1, Zenon DEF IoInterruptMain
  <2>2. phase' = [at |-> After[phase.at], p |-> p]
    BY <1>4, <2>1
  <2>3. /\ p \in Addresses /\ p \in 0 .. Top
        /\ (p \div Byte) * Byte \in 0 .. p /\ (p \div Byte) * Byte + (p % Byte) = p
    <3>1. p \in Addresses
      BY <1>3, <1>6 DEF Reporting
    <3>2. p \in 0 .. Top /\ Top \in Nat
      BY <1>4, AddressesAssumption, MapAssumption DEF Memory
    <3>4. (p \div Byte) * Byte \in 0 .. p /\ (p \div Byte) * Byte + (p % Byte) = p
      <4> HIDE DEF p
      <4> QED  BY <1>4, TwoBytes, Zenon
    <3> QED  BY <3>1, <3>2, <3>4
  <2>4. Top = N - 1 /\ N \in Nat /\ p \in Memory
    BY <1>4, AddressesAssumption, MapAssumption
  <2> HIDE DEF p
  <2>5. CASE phase.at = "in"
    <3>1. dbginfo_state' = 0 /\ bp_adr' = bp_adr
      <4>1. IN_1E_DEBUG_BreakPointAddress /\ UNCHANGED <<bp_adr>>
        <5>1. phase.at \notin DOMAIN Sends
          BY <2>5 DEF Sends
        <5> QED  BY <2>5, <5>1, Zenon DEF IoInterruptMain
      <4> QED  BY <4>1 DEF IN_1E_DEBUG_BreakPointAddress
    <3>2. phase' = [at |-> "high", p |-> p]
      BY <2>2, <2>5 DEF After
    <3> QED
      BY <1>3, <2>3, <2>4, <3>1, <3>2 DEF MTypes, Reporting, Phases
  <2>6. CASE phase.at \in {"high", "low", "regs"}
    <3>1. OUT_1E_DEBUG_BreakPointAddress(Sends[phase.at])
      <4>1. phase.at \in DOMAIN Sends /\ phase.at # "in"
        BY <2>6 DEF Sends
      <4> QED  BY <4>1 DEF IoInterruptMain
    <3>2. CASE phase.at = "high"
      <4>1. dbginfo_state = 0 /\ Sends[phase.at] = p \div Byte
        BY <1>3, <3>2 DEF Reporting, Sends, p
      <4>2. bp_adr' = (p \div Byte) * Byte /\ dbginfo_state' = 1
        BY <3>1, <4>1 DEF OUT_1E_DEBUG_BreakPointAddress
      <4>3. phase' = [at |-> "low", p |-> p]
        BY <2>2, <3>2 DEF After
      <4>4. bp_adr' \in Memory
        BY <2>3, <2>4, <4>2 DEF Memory
      <4> QED
        BY <2>3, <2>4, <4>2, <4>3, <4>4 DEF Reporting, Phases
    <3>3. CASE phase.at = "low"
      <4>1. dbginfo_state = 1 /\ bp_adr = (p \div Byte) * Byte /\ Sends[phase.at] = p % Byte
        BY <1>3, <3>3 DEF Reporting, Sends, p
      <4>2. bp_adr' = p /\ dbginfo_state' = 2
        BY <2>3, <3>1, <4>1 DEF OUT_1E_DEBUG_BreakPointAddress
      <4>3. phase' = [at |-> "regs", p |-> p]
        BY <2>2, <3>3 DEF After
      <4> QED
        BY <2>3, <2>4, <4>2, <4>3 DEF Reporting, Phases
    <3>4. CASE phase.at = "regs"
      <4>1. dbginfo_state = 2 /\ bp_adr = p
        BY <1>3, <3>4 DEF Reporting, p
      <4>2. bp_adr' = p /\ dbginfo_state' = 0
        BY <3>1, <4>1 DEF OUT_1E_DEBUG_BreakPointAddress
      <4>3. phase' = [at |-> "halt", p |-> p]
        BY <2>2, <3>4 DEF After
      <4> QED
        BY <2>3, <2>4, <4>2, <4>3 DEF Reporting, Phases
    <3> QED
      BY <2>6, <3>2, <3>3, <3>4
  <2> QED
    BY <1>6, <2>5, <2>6
<1> QED
  BY <1>4, <1>5, <1>6 DEF Phases
-----------------------------------------------------------------------------
(* The commands followed make calls of bytes, or of breakpoints, and not    *)
(* both; and no number they were not given.                                 *)
DataOp(op) ==
  \/ op.op \in {"read", "receive_bin"} /\ op.at \in Memory
  \/ op.op = "write" /\ op.at \in Memory /\ op.val \in ByteValues
  \/ op.op = "receive_ihx"
BreakOp(op) ==
  \/ op.op \in {"add", "delete"} /\ op.at \in Memory
  \/ op.op \in {"continue", "list"}
OneKind(ops) ==
  \E n \in Nat : /\ DOMAIN ops = 1 .. n
                 /\ (\A i \in 1 .. n : DataOp(ops[i])) \/ (\A i \in 1 .. n : BreakOp(ops[i]))

Statics0 == [c \in {"d", "r"} |-> 0]

LEMMA Words ==
  ASSUME NEW t \in Seq(Token)
  PROVE  /\ t # <<>> => t[1].name \in Followed \cup {""}
         /\ \A i \in Nat : get_uint(t, i) = "NO_ERROR" => i < Len(t) /\ par(t, i) \in Memory
<1>1. ASSUME NEW x \in Token PROVE x.name \in Followed \cup {""} /\ x.num \in Memory \cup {None}
  <2>1. (\E c \in Followed : x = Name(c)) \/ \E n \in Memory : x = Num(n)
    BY DEF Token
  <2>2. ASSUME NEW c \in Followed, x = Name(c) PROVE x.name = c /\ x.num = None
    BY <2>2 DEF Name
  <2>3. ASSUME NEW n \in Memory, x = Num(n) PROVE x.name = "" /\ x.num = n
    BY <2>3 DEF Num
  <2> QED  BY <2>1, <2>2, <2>3
<1>2. t # <<>> => t[1] \in Token
  OBVIOUS
<1>3. ASSUME NEW i \in Nat, get_uint(t, i) = "NO_ERROR"
      PROVE  i < Len(t) /\ par(t, i) \in Memory
  <2>1. Len(t) \in Nat
    OBVIOUS
  <2>2. ~(i >= Len(t)) /\ ~(i < Len(t) /\ par(t, i) = None)
    BY <1>3 DEF get_uint
  <2>3. i < Len(t) /\ t[i + 1] \in Token
    BY <2>1, <2>2
  <2> QED  BY <1>1, <2>2, <2>3 DEF par
<1> QED
  BY <1>1, <1>2, <1>3

\* The parameters that are required are there.
LEMMA AllRequired ==
  ASSUME NEW t \in Seq(Token), NEW k \in Nat, NEW adr, NEW result
  PROVE  \/ Required(t, k, adr, result).calls = <<>>
         \/ /\ Required(t, k, adr, result) = result /\ k < Len(t)
            /\ \A i \in 1 .. k : par(t, i) \in Memory
<1>1. Len(t) \in Nat
  OBVIOUS
<1>2. CASE Len(t) < k + 1
  BY <1>2 DEF Required, Fails
<1>3. CASE ~(Len(t) < k + 1) /\ \E i \in 1 .. k : get_uint(t, i) # "NO_ERROR"
  BY <1>3 DEF Required, Fails
<1>4. CASE ~(Len(t) < k + 1) /\ ~\E i \in 1 .. k : get_uint(t, i) # "NO_ERROR"
  <2>1. Required(t, k, adr, result) = result
    BY <1>4, Zenon DEF Required
  <2>2. \A i \in 1 .. k : get_uint(t, i) = "NO_ERROR"
    BY <1>4
  <2>3. \A i \in Nat : get_uint(t, i) = "NO_ERROR" => par(t, i) \in Memory
    BY Words
  <2>4. \A i \in 1 .. k : par(t, i) \in Memory
    BY <2>2, <2>3
  <2> QED  BY <1>1, <1>4, <2>1, <2>4
<1> QED
  BY <1>2, <1>3, <1>4

\* None or one.
LEMMA FewOps ==
  /\ OneKind(<<>>)
  /\ \A op : DataOp(op) \/ BreakOp(op) => OneKind(<<op>>)
<1>1. OneKind(<<>>)
  <2>1. DOMAIN <<>> = 1 .. 0 /\ 0 \in Nat
    OBVIOUS
  <2> HIDE DEF DataOp
  <2> QED  BY <2>1 DEF OneKind
<1>2. ASSUME NEW op, DataOp(op) \/ BreakOp(op) PROVE OneKind(<<op>>)
  <2>1. DOMAIN <<op>> = 1 .. 1 /\ 1 \in Nat /\ \A i \in 1 .. 1 : <<op>>[i] = op
    OBVIOUS
  <2> QED  BY <1>2, <2>1 DEF OneKind
<1> QED
  BY <1>1, <1>2

LEMMA DumpOps ==
  ASSUME NEW t \in Seq(Token), t # <<>>, NEW adr, adr[t[1].name] \in Memory
  PROVE  OneKind(dump(t, adr).calls)
<1> DEFINE from == IF Len(t) \in {2, 3} THEN par(t, 1) ELSE adr[t[1].name]
           len == IF Len(t) = 3 THEN par(t, 2) ELSE Block
           rows == Rows(from, len)
           refused == \E i \in 1 .. Len(t) - 1 : Len(t) < 4 /\ get_uint(t, i) # "NO_ERROR"
<1>1. CASE refused
  <2>1. dump(t, adr).calls = <<>>
    BY <1>1 DEF dump, Fails
  <2> QED  BY <2>1, FewOps
<1>2. CASE ~refused
  <2>1. dump(t, adr).calls = [k \in DOMAIN rows |-> Op("read", rows[k].adr, rows[k].n)]
    BY <1>2 DEF dump, Makes
  <2>2. Len(t) \in Nat /\ Len(t) >= 1
    OBVIOUS
  <2>3. \A i \in Nat : get_uint(t, i) = "NO_ERROR" => par(t, i) \in Memory
    BY Words
  <2>4. from \in Memory
    <3>1. Len(t) \in {2, 3} => 1 \in 1 .. Len(t) - 1 /\ Len(t) < 4
      <4>1. \A l \in {2, 3} : 1 \in 1 .. l - 1 /\ l < 4
        OBVIOUS
      <4> QED  BY <4>1, Zenon
    <3>2. Len(t) \in {2, 3} => get_uint(t, 1) = "NO_ERROR"
      BY <1>2, <3>1
    <3> QED  BY <2>3, <3>2
  <2>5. len \in Nat
    <3>1. Len(t) = 3 => get_uint(t, 2) = "NO_ERROR"
      BY <1>2, <2>2
    <3> QED  BY <2>3, <3>1, BufAssumption, MapAssumption DEF Memory
  <2> DEFINE n == (len + Block - 1) \div Block
  <2> HIDE DEF from, len, refused
  <2>6. n \in Nat
    <3>1. Block \in Nat \ {0} /\ len + Block - 1 \in Nat
      BY <2>5, BufAssumption
    <3> HIDE DEF n
    <3>2. \A x \in Nat, b \in Nat \ {0} : x \div b \in Nat
      OBVIOUS
    <3> QED  BY <3>1, <3>2 DEF n
  <2>7. DOMAIN rows = 1 .. n /\ \A k \in 1 .. n : rows[k].adr = U(from + (k - 1) * Block)
    BY DEF Rows
  <2>8. \A k \in 1 .. n : rows[k].adr \in Memory
    <3>1. ASSUME NEW k \in 1 .. n PROVE U(from + (k - 1) * Block) \in Memory
      <4>1. k - 1 \in Nat /\ Block \in Nat /\ from \in Nat /\ N \in Nat \ {0}
        BY <2>4, <2>6, BufAssumption, MapAssumption DEF Memory
      <4>2. (k - 1) * Block \in Nat
        BY <4>1
      <4>3. \A x, y \in Nat : (x + y) % N \in 0 .. N - 1
        BY <4>1
      <4> HIDE DEF n
      <4> QED  BY <4>1, <4>2, <4>3 DEF U, Memory
    <3> QED  BY <2>7, <3>1
  <2> HIDE DEF rows, n
  <2> DEFINE calls == [k \in DOMAIN rows |-> Op("read", rows[k].adr, rows[k].n)]
  <2>9. DOMAIN calls = 1 .. n /\ \A k \in 1 .. n : DataOp(calls[k])
    BY <2>7, <2>8 DEF DataOp, Op
  <2> HIDE DEF calls
  <2>10. OneKind(calls)
    BY <2>6, <2>9 DEF OneKind
  <2> QED  BY <2>1, <2>10 DEF calls
<1> QED
  BY <1>1, <1>2

LEMMA FillOps ==
  ASSUME NEW t \in Seq(Token), NEW adr
  PROVE  OneKind(c_fill_external_ram(t, adr).calls)
<1> DEFINE dat == par(t, 1)  at == par(t, 2)  size == par(t, 3)
           fill == Makes([i \in 1 .. size |-> Op("write", U(at + i - 1), dat)], adr)
           result == IF dat >= Byte \/ U(at + size) > N - 1
                       THEN Fails("ERR_PARAM_VAL", adr) ELSE fill
<1>1. c_fill_external_ram(t, adr) = Required(t, 3, adr, result)
  BY DEF c_fill_external_ram
<1> HIDE DEF result
<1>2. CASE c_fill_external_ram(t, adr).calls = <<>>
  BY <1>2, FewOps
<1>3. CASE c_fill_external_ram(t, adr).calls # <<>>
  <2>1. c_fill_external_ram(t, adr) = result /\ \A i \in 1 .. 3 : par(t, i) \in Memory
    <3>1. 3 \in Nat
      OBVIOUS
    <3>2. \/ Required(t, 3, adr, result).calls = <<>>
          \/ /\ Required(t, 3, adr, result) = result /\ 3 < Len(t)
             /\ \A i \in 1 .. 3 : par(t, i) \in Memory
      BY <3>1, AllRequired
    <3> QED  BY <1>1, <1>3, <3>2, Zenon
  <2>2. dat \in Memory /\ at \in Memory /\ size \in Memory
    BY <2>1
  <2>3. ~(dat >= Byte) /\ result = fill
    BY <1>3, <2>1 DEF result, Fails
  <2> DEFINE calls == [i \in 1 .. size |-> Op("write", U(at + i - 1), dat)]
  <2>4. c_fill_external_ram(t, adr).calls = calls
    BY <2>1, <2>3 DEF Makes
  <2>5. \A i \in 1 .. size : U(at + i - 1) \in Memory
    <3>1. N \in Nat \ {0} /\ at \in Nat /\ size \in Nat
      BY <2>2, MapAssumption DEF Memory
    <3>2. \A x \in Nat : x % N \in 0 .. N - 1
      BY <3>1
    <3>3. ASSUME NEW i \in 1 .. size PROVE at + i - 1 \in Nat
      BY <3>1
    <3> HIDE DEF at, size
    <3> QED  BY <3>2, <3>3 DEF U, Memory
  <2>6. dat \in ByteValues
    <3>1. Byte \in Nat
      BY DigitAssumption DEF Byte
    <3>2. dat \in Nat
      BY <2>2, MapAssumption DEF Memory
    <3> HIDE DEF Byte, dat
    <3> QED  BY <2>3, <3>1, <3>2 DEF ByteValues
  <2> HIDE DEF dat, at
  <2>7. DOMAIN calls = 1 .. size /\ \A i \in 1 .. size : DataOp(calls[i])
    BY <2>5, <2>6 DEF DataOp, Op
  <2>8. size \in Nat
    BY <2>2, MapAssumption DEF Memory
  <2> HIDE DEF calls
  <2> QED  BY <2>4, <2>7, <2>8 DEF OneKind
<1> QED
  BY <1>2, <1>3

LEMMA CommandOps ==
  ASSUME NEW t \in Lines
  PROVE  OneKind(exec_command(t, Statics0).calls)
<1> DEFINE r == exec_command(t, Statics0)
<1> SUFFICES OneKind(r.calls)
  OBVIOUS
<1>1. t \in Seq(Token) /\ N \in Nat \ {0}
  BY LinesAssumption, MapAssumption
<1>2. \A i \in Nat : get_uint(t, i) = "NO_ERROR" => i < Len(t) /\ par(t, i) \in Memory
  BY <1>1, Words
<1>3. CASE t = <<>>
  <2>1. r.calls = <<>>
    BY <1>3, Zenon DEF exec_command, Makes
  <2> QED  BY <2>1, FewOps
<1>4. CASE t # <<>> /\ t[1].name = ""
  <2>1. r = Fails("ERR_COMMAND", Statics0)
    BY <1>4 DEF exec_command
  <2>2. r.calls = <<>>
    BY <2>1 DEF Fails
  <2> QED  BY <2>2, FewOps
<1>5. CASE t # <<>> /\ t[1].name = "d"
  <2>1. r = dump(t, Statics0)
    BY <1>5 DEF exec_command
  <2>2. Statics0[t[1].name] \in Memory
    BY <1>1, <1>5 DEF Statics0, Memory
  <2> QED  BY <1>1, <1>5, <2>1, <2>2, DumpOps
<1>6. CASE t # <<>> /\ t[1].name = "r"
  <2>1. r = c_read_ram(t, Statics0)
    BY <1>6 DEF exec_command
  <2> DEFINE at == IF Len(t) > 1 THEN par(t, 1) ELSE Statics0[t[1].name]
             refused == Len(t) > 1 /\ get_uint(t, 1) # "NO_ERROR"
  <2>2. CASE refused
    <3>1. r.calls = <<>>
      BY <2>1, <2>2 DEF c_read_ram, Fails
    <3> QED  BY <3>1, FewOps
  <2>3. CASE ~refused
    <3>1. r.calls = <<Op("read", at, 1)>>
      BY <2>1, <2>3 DEF c_read_ram, Makes
    <3>2. Statics0[t[1].name] \in Memory
      BY <1>1, <1>6 DEF Statics0, Memory
    <3>3. at \in Memory
      BY <1>2, <2>3, <3>2
    <3> HIDE DEF at
    <3>4. DataOp(Op("read", at, 1))
      BY <3>3 DEF DataOp, Op
    <3> QED  BY <3>1, <3>4, FewOps
  <2> QED  BY <2>2, <2>3
<1>7. CASE t # <<>> /\ t[1].name = "w"
  <2>1. r = c_write_ram(t, Statics0)
    BY <1>7 DEF exec_command
  <2> DEFINE result == IF par(t, 2) >= Byte THEN Fails("ERR_PARAM_VAL", Statics0)
                       ELSE Makes(<<Op("write", par(t, 1), par(t, 2))>>, Statics0)
  <2>2. r = Required(t, 2, Statics0, result)
    BY <2>1 DEF c_write_ram
  <2> HIDE DEF result, r
  <2>3. \/ Required(t, 2, Statics0, result).calls = <<>>
        \/ /\ Required(t, 2, Statics0, result) = result /\ 2 < Len(t)
           /\ \A i \in 1 .. 2 : par(t, i) \in Memory
    BY <1>1, AllRequired
  <2>4. CASE r.calls = <<>>
    BY <2>4, FewOps
  <2>5. CASE r.calls # <<>>
    <3>1. r = result /\ \A i \in 1 .. 2 : par(t, i) \in Memory
      BY <2>2, <2>3, <2>5, Zenon
    <3>2. par(t, 1) \in Memory /\ par(t, 2) \in Memory
      BY <3>1
    <3>3. ~(par(t, 2) >= Byte) /\ r.calls = <<Op("write", par(t, 1), par(t, 2))>>
      BY <2>5, <3>1 DEF result, Fails, Makes
    <3>4. par(t, 2) \in ByteValues
      <4>1. Byte \in Nat /\ \A x, b \in Nat : ~(x >= b) => x \in 0 .. b - 1
        BY DigitAssumption DEF Byte
      <4>2. par(t, 2) \in Nat
        BY <3>2, <1>1 DEF Memory
      <4> QED  BY <3>3, <4>1, <4>2 DEF ByteValues
    <3>5. DataOp(Op("write", par(t, 1), par(t, 2)))
      BY <3>2, <3>4 DEF DataOp, Op
    <3> QED  BY <3>3, <3>5, FewOps
  <2> QED  BY <2>4, <2>5
<1>8. CASE t # <<>> /\ t[1].name = "f"
  <2>1. r = c_fill_external_ram(t, Statics0)
    BY <1>8 DEF exec_command
  <2> QED  BY <1>1, <2>1, FillOps
<1>9. CASE t # <<>> /\ t[1].name = "xload"
  <2>1. r.calls = <<Op("receive_ihx", 0, 0)>>
    BY <1>9 DEF exec_command, c_load_ihx_external_ram, Makes
  <2>2. DataOp(Op("receive_ihx", 0, 0))
    BY DEF DataOp, Op
  <2> QED  BY <2>1, <2>2, FewOps
<1>10. ASSUME NEW op \in {"receive_bin", "delete", "add"}, r.calls # <<>>,
              r = Required(t, 1, Statics0, Makes(<<Op(op, par(t, 1), 0)>>, Statics0))
       PROVE  OneKind(r.calls)
  <2> DEFINE result == Makes(<<Op(op, par(t, 1), 0)>>, Statics0)
  <2> HIDE DEF result, r
  <2>1. \/ Required(t, 1, Statics0, result).calls = <<>>
        \/ /\ Required(t, 1, Statics0, result) = result /\ 1 < Len(t)
           /\ \A i \in 1 .. 1 : par(t, i) \in Memory
    BY <1>1, AllRequired
  <2>2. r = result /\ 1 < Len(t) /\ \A i \in 1 .. 1 : par(t, i) \in Memory
    BY <1>10, <2>1, Zenon DEF result
  <2>3. par(t, 1) \in Memory
    BY <2>2
  <2>4. r.calls = <<Op(op, par(t, 1), 0)>>
    BY <2>2 DEF result, Makes
  <2>5. DataOp(Op(op, par(t, 1), 0)) \/ BreakOp(Op(op, par(t, 1), 0))
    BY <2>3 DEF DataOp, BreakOp, Op
  <2> QED  BY <2>4, <2>5, FewOps
<1>11. CASE t # <<>> /\ t[1].name = "bload"
  <2>1. r = Required(t, 1, Statics0, Makes(<<Op("receive_bin", par(t, 1), 0)>>, Statics0))
    BY <1>11 DEF exec_command, c_load_bin_external_ram
  <2> HIDE DEF r
  <2>2. r.calls # <<>> => OneKind(r.calls)
    BY <1>10, <2>1, Zenon
  <2> QED  BY <2>2, FewOps
<1>12. CASE t # <<>> /\ t[1].name = "del"
  <2>1. r = Required(t, 1, Statics0, Makes(<<Op("delete", par(t, 1), 0)>>, Statics0))
    BY <1>12 DEF exec_command, c_z80_delete
  <2> HIDE DEF r
  <2>2. r.calls # <<>> => OneKind(r.calls)
    BY <1>10, <2>1, Zenon
  <2> QED  BY <2>2, FewOps
<1>13. CASE t # <<>> /\ t[1].name = "brk"
  <2>1. r = c_z80_break(t, Statics0)
    BY <1>13 DEF exec_command
  <2>2. CASE Len(t) < 2
    <3>1. r.calls = <<Op("list", 0, 0)>>
      BY <2>1, <2>2 DEF c_z80_break, Makes
    <3>2. BreakOp(Op("list", 0, 0))
      BY DEF BreakOp, Op
    <3> QED  BY <3>1, <3>2, FewOps
  <2>3. CASE ~(Len(t) < 2)
    <3>1. r = Required(t, 1, Statics0, Makes(<<Op("add", par(t, 1), 0)>>, Statics0))
      BY <2>1, <2>3 DEF c_z80_break
    <3> HIDE DEF r
    <3>2. r.calls # <<>> => OneKind(r.calls)
      BY <1>10, <3>1, Zenon
    <3> QED  BY <3>2, FewOps
  <2> QED  BY <2>2, <2>3
<1>14. CASE t # <<>> /\ t[1].name = "cont"
  <2>1. r.calls = <<Op("continue", 0, 0)>>
    BY <1>14 DEF exec_command, c_z80_continue, Makes
  <2>2. BreakOp(Op("continue", 0, 0))
    BY DEF BreakOp, Op
  <2> QED  BY <2>1, <2>2, FewOps
<1> HIDE DEF r
<1>15. t # <<>> => t[1].name \in Followed \cup {""}
  BY <1>1, Words
<1> QED
  BY <1>3, <1>4, <1>5, <1>6, <1>7, <1>8, <1>9, <1>11, <1>12, <1>13, <1>14, <1>15
     DEF Followed, r
-----------------------------------------------------------------------------
(* The reader of HEX files, fed a text: character by character, whatever    *)
(* the text's parts.                                                        *)
FeedsTo(g, p, text) ==
  g[0] = p /\ \A i \in 1 .. Len(text) : g[i] = Fed(g[i - 1], text[i])

LEMMA FeedRun ==
  ASSUME NEW p, NEW text, Len(text) \in Nat
  PROVE  \E g : FeedsTo(g, p, text) /\ Feed(p, text) = g[Len(text)]
<1> DEFINE n == Len(text)
           Step(s) == [i \in 0 .. n |-> IF i = 0 THEN p ELSE Fed(s[i - 1], text[i])]
           Upto(g, m) == g[0] = p /\ \A i \in 1 .. m : g[i] = Fed(g[i - 1], text[i])
           Good == {m \in 0 .. n : \E g : DOMAIN g = 0 .. m /\ Upto(g, m)}
           s == CHOOSE s : s = Step(s)
<1> HIDE DEF n
<1>1. n \in Nat /\ Feed(p, text) = s[n]
  BY DEF Feed, n
<1>2. 0 \in Good
  <2> DEFINE h == [i \in 0 .. 0 |-> p]
  <2>1. DOMAIN h = 0 .. 0 /\ h[0] = p
    OBVIOUS
  <2> HIDE DEF h
  <2> QED  BY <1>1, <2>1
<1>3. ASSUME NEW j \in 1 .. n, j - 1 \in Good PROVE j \in Good
  <2>1. PICK g : DOMAIN g = 0 .. j - 1 /\ Upto(g, j - 1)
    BY <1>3
  <2> DEFINE next == Fed(g[j - 1], text[j])
             h == [i \in 0 .. j |-> IF i = j THEN next ELSE g[i]]
  <2>2. DOMAIN h = 0 .. j /\ h[j] = next /\ \A i \in 0 .. j - 1 : h[i] = g[i]
    <3> HIDE DEF next
    <3> QED  BY <1>1
  <2>3. j - 1 \in 0 .. j - 1 /\ 0 \in 0 .. j - 1
    BY <1>1
  <2> HIDE DEF h
  <2>4. h[0] = p
    BY <2>1, <2>2, <2>3
  <2>5. ASSUME NEW i \in 1 .. j PROVE h[i] = Fed(h[i - 1], text[i])
    <3>1. CASE i = j
      BY <2>2, <2>3, <3>1
    <3>2. CASE i # j
      <4>1. i \in 1 .. j - 1 /\ i \in 0 .. j - 1 /\ i - 1 \in 0 .. j - 1
        BY <1>1, <3>2
      <4>2. h[i] = g[i] /\ h[i - 1] = g[i - 1]
        BY <2>2, <4>1
      <4>3. g[i] = Fed(g[i - 1], text[i])
        BY <2>1, <4>1
      <4> QED  BY <4>2, <4>3, Zenon
    <3> QED  BY <3>1, <3>2
  <2> QED
    BY <1>1, <2>2, <2>4, <2>5
<1>4. n \in Good
  <2> HIDE DEF Good
  <2>1. 0 .. n \subseteq Good
    BY <1>1, <1>2, <1>3, Induction
  <2> QED  BY <1>1, <2>1
<1>5. PICK g : DOMAIN g = 0 .. n /\ Upto(g, n)
  BY <1>4
<1> DEFINE h == [i \in 0 .. n |-> g[i]]
<1>6. h = Step(h)
  <2>1. ASSUME NEW i \in 0 .. n PROVE h[i] = Step(h)[i]
    <3>1. CASE i = 0
      BY <1>1, <1>5, <3>1
    <3>2. CASE i # 0
      <4>1. i \in 1 .. n /\ i - 1 \in 0 .. n
        BY <1>1, <3>2
      <4>2. h[i] = g[i] /\ h[i - 1] = g[i - 1]
        BY <4>1
      <4>3. g[i] = Fed(g[i - 1], text[i])
        BY <1>5, <4>1
      <4>4. Step(h)[i] = Fed(h[i - 1], text[i])
        BY <3>2, Zenon
      <4> QED  BY <4>2, <4>3, <4>4, Zenon
    <3> QED  BY <3>1, <3>2
  <2> QED  BY <2>1
<1>7. s = Step(s)
  <2> HIDE DEF h
  <2> QED  BY <1>6, Zenon
<1> HIDE DEF s, h
<1>8. s[0] = p /\ \A i \in 1 .. n : s[i] = Fed(s[i - 1], text[i])
  <2>1. 0 \in 0 .. n /\ \A i \in 1 .. n : i \in 0 .. n /\ i # 0
    BY <1>1
  <2>2. s[0] = Step(s)[0] /\ \A i \in 1 .. n : s[i] = Step(s)[i]
    BY <1>7, Zenon
  <2>3. Step(s)[0] = p
    BY <2>1, Zenon
  <2>4. ASSUME NEW i \in 1 .. n PROVE Step(s)[i] = Fed(s[i - 1], text[i])
    BY <2>1, Zenon
  <2> QED  BY <2>2, <2>3, <2>4, Zenon
<1> QED
  BY <1>1, <1>8, Zenon DEF FeedsTo, n

LEMMA FeedEnds ==
  ASSUME NEW p, NEW text, Len(text) \in Nat, NEW h, FeedsTo(h, p, text)
  PROVE  Feed(p, text) = h[Len(text)]
<1>1. PICK g : FeedsTo(g, p, text) /\ Feed(p, text) = g[Len(text)]
  BY FeedRun
<1> DEFINE n == Len(text)
           Good == {i \in 0 .. n : g[i] = h[i]}
<1> HIDE DEF n
<1>2. n \in Nat
  BY DEF n
<1>3. 0 \in Good
  BY <1>1, <1>2 DEF FeedsTo
<1>4. ASSUME NEW j \in 1 .. n, j - 1 \in Good PROVE j \in Good
  <2>1. g[j - 1] = h[j - 1] /\ j \in 0 .. n
    BY <1>2, <1>4
  <2>2. g[j] = Fed(g[j - 1], text[j]) /\ h[j] = Fed(h[j - 1], text[j])
    BY <1>1 DEF FeedsTo, n
  <2>3. g[j] = h[j]
    BY <2>1, <2>2, Zenon
  <2> QED  BY <2>1, <2>3
<1>5. n \in Good
  <2> HIDE DEF Good
  <2>1. 0 .. n \subseteq Good
    BY <1>2, <1>3, <1>4, Induction
  <2> QED  BY <1>2, <2>1
<1>6. g[n] = h[n]
  BY <1>5
<1> QED
  BY <1>1, <1>6 DEF n

LEMMA FeedAppend ==
  ASSUME NEW p, NEW S, NEW a \in Seq(S), NEW b \in Seq(S)
  PROVE  Feed(p, a \o b) = Feed(Feed(p, a), b)
<1>1. Len(a) \in Nat /\ Len(b) \in Nat /\ Len(a \o b) = Len(a) + Len(b)
  OBVIOUS
<1>2. PICK f : FeedsTo(f, p, a) /\ Feed(p, a) = f[Len(a)]
  BY <1>1, FeedRun
<1>3. PICK g : FeedsTo(g, Feed(p, a), b) /\ Feed(Feed(p, a), b) = g[Len(b)]
  BY <1>1, FeedRun
<1> DEFINE m == Len(a)
           n == Len(b)
           h == [i \in 0 .. m + n |-> IF i <= m THEN f[i] ELSE g[i - m]]
<1>4. m \in Nat /\ n \in Nat
  BY <1>1
<1>5. \A i \in 1 .. m : (a \o b)[i] = a[i]
  OBVIOUS
<1>6. \A i \in 1 .. n : (a \o b)[m + i] = b[i]
  OBVIOUS
<1> HIDE DEF m, n
<1>7. \A i \in 0 .. m : h[i] = f[i]
  BY <1>4
<1>8. \A i \in 1 .. n : h[m + i] = g[i]
  <2>1. ASSUME NEW i \in 1 .. n, NEW k, k = m + i PROVE h[k] = g[i]
    <3>1. k \in 0 .. m + n /\ ~(k <= m) /\ k - m = i
      BY <1>4, <2>1
    <3> QED  BY <3>1, Zenon
  <2> QED  BY <2>1
<1> HIDE DEF h
<1>9. h[m] = g[0]
  BY <1>2, <1>3, <1>4, <1>7 DEF FeedsTo, m
<1>10. ASSUME NEW i \in 1 .. m + n PROVE h[i] = Fed(h[i - 1], (a \o b)[i])
  <2>1. CASE i <= m
    <3>1. i \in 1 .. m /\ i \in 0 .. m /\ i - 1 \in 0 .. m
      BY <1>4, <2>1
    <3>2. f[i] = Fed(f[i - 1], a[i])
      BY <1>2, <3>1 DEF FeedsTo, m
    <3>3. h[i] = f[i] /\ h[i - 1] = f[i - 1] /\ (a \o b)[i] = a[i]
      BY <1>5, <1>7, <3>1
    <3> QED  BY <3>2, <3>3, Zenon
  <2>2. CASE ~(i <= m)
    <3> DEFINE j == i - m
    <3>1. j \in 1 .. n /\ i = m + j /\ i - 1 = m + (j - 1)
      BY <1>4, <2>2
    <3>2. g[j] = Fed(g[j - 1], b[j])
      BY <1>3, <3>1 DEF FeedsTo, n
    <3>3. h[i] = g[j] /\ (a \o b)[i] = b[j]
      BY <1>6, <1>8, <3>1
    <3>4. h[i - 1] = g[j - 1]
      <4>1. CASE j = 1
        BY <1>4, <1>9, <3>1, <4>1
      <4>2. CASE j # 1
        <5>1. j - 1 \in 1 .. n
          BY <1>4, <3>1, <4>2
        <5>2. h[m + (j - 1)] = g[j - 1]
          <6> HIDE DEF j
          <6> QED  BY <1>8, <5>1
        <5> QED  BY <3>1, <5>2, Zenon
      <4> QED  BY <4>1, <4>2
    <3> QED  BY <3>2, <3>3, <3>4, Zenon
  <2> QED  BY <2>1, <2>2
<1>11. FeedsTo(h, p, a \o b)
  <2>1. h[0] = p
    BY <1>2, <1>4, <1>7 DEF FeedsTo
  <2> QED  BY <1>1, <1>10, <2>1 DEF FeedsTo, m, n
<1>12. Feed(p, a \o b) = h[m + n]
  <2>1. Len(a \o b) = m + n
    BY <1>1 DEF m, n
  <2>2. Len(a \o b) \in Nat
    BY <1>1
  <2>3. Feed(p, a \o b) = h[Len(a \o b)]
    BY <1>11, <2>2, FeedEnds, Zenon
  <2> QED  BY <2>1, <2>3, Zenon
<1>13. h[m + n] = g[n]
  <2>1. CASE n = 0
    BY <1>4, <1>9, <2>1
  <2>2. CASE n # 0
    BY <1>4, <1>8, <2>2
  <2> QED  BY <2>1, <2>2
<1> QED
  BY <1>3, <1>12, <1>13 DEF n

LEMMA FeedNone ==
  ASSUME NEW p
  PROVE  Feed(p, <<>>) = p
<1> DEFINE h == [i \in 0 .. 0 |-> p]
<1>1. h[0] = p /\ Len(<<>>) = 0
  OBVIOUS
<1> HIDE DEF h
<1>2. FeedsTo(h, p, <<>>)
  BY <1>1 DEF FeedsTo
<1> QED
  BY <1>1, <1>2, FeedEnds

LEMMA FeedOne ==
  ASSUME NEW p, NEW c
  PROVE  Feed(p, <<c>>) = Fed(p, c)
<1> DEFINE q == Fed(p, c)
           h == [i \in 0 .. 1 |-> IF i = 0 THEN p ELSE q]
<1> HIDE DEF q
<1>1. h[0] = p /\ h[1] = q /\ Len(<<c>>) = 1 /\ <<c>>[1] = c
  OBVIOUS
<1> HIDE DEF h
<1>2. FeedsTo(h, p, <<c>>)
  <2>1. \A i \in 1 .. 1 : i = 1 /\ i - 1 = 0
    OBVIOUS
  <2>2. \A i \in 1 .. 1 : h[i] = Fed(h[i - 1], <<c>>[i])
    BY <1>1, <2>1 DEF q
  <2> QED  BY <1>1, <2>2 DEF FeedsTo
<1> QED
  BY <1>1, <1>2, FeedEnds DEF q

LEMMA SameSeq ==
  ASSUME NEW S, NEW a \in Seq(S), NEW b \in Seq(S), Len(a) = Len(b),
         \A i \in 1 .. Len(a) : a[i] = b[i]
  PROVE  a = b
<1>1. a \in [1 .. Len(a) -> S] /\ b \in [1 .. Len(b) -> S]
  OBVIOUS
<1> QED
  BY <1>1

LEMMA FeedTwo ==
  ASSUME NEW p, NEW S, NEW c \in S, NEW d \in S
  PROVE  Feed(p, <<c, d>>) = Fed(Fed(p, c), d)
<1> DEFINE a == <<c>>
           b == <<d>>
<1>1. a \in Seq(S) /\ b \in Seq(S)
  OBVIOUS
<1>2. <<c, d>> = a \o b
  <2>1. Len(<<c, d>>) = 2 /\ <<c, d>>[1] = c /\ <<c, d>>[2] = d
    OBVIOUS
  <2>2. Len(a \o b) = 2 /\ (a \o b)[1] = c /\ (a \o b)[2] = d
    OBVIOUS
  <2>3. <<c, d>> \in Seq(S) /\ a \o b \in Seq(S)
    BY <1>1
  <2>4. \A i \in 1 .. 2 : i = 1 \/ i = 2
    OBVIOUS
  <2> HIDE DEF a, b
  <2> QED  BY <2>1, <2>2, <2>3, <2>4, SameSeq
<1>3. Feed(p, a \o b) = Feed(Feed(p, a), b)
  <2> HIDE DEF a, b
  <2> QED  BY <1>1, FeedAppend
<1>4. Feed(p, a) = Fed(p, c) /\ Feed(Fed(p, c), b) = Fed(Fed(p, c), d)
  BY FeedOne
<1> QED
  BY <1>2, <1>3, <1>4

Digits == 0 .. Digit - 1
Readers ==
  [state : {"HEAD", "NUMBER", "ADDRESS", "RECORD", "DATA", "SUM", "END", "DONE"},
   rbuf : Seq(Digits), length : Int, address : Nat, sum : Nat, status : 0 .. 3,
   writes : Seq(Nat \X ByteValues)]
Counting == {"NUMBER", "ADDRESS", "RECORD", "DATA", "SUM", "END"}
With(p, ds) == [p EXCEPT !.rbuf = ds, !.status = 1]

LEMMA DigitFed ==
  ASSUME NEW p \in Readers, p.status < 2, p.state \in Counting, NEW c \in Digits,
         NEW ds, ds = Append(p.rbuf, c)
  PROVE  /\ Len(p.rbuf) + 1 = Needed[p.state] =>
              Fed(p, c) = Field_ix(With(p, ds), Number(ds))
         /\ Len(p.rbuf) + 1 # Needed[p.state] => Fed(p, c) = With(p, ds)
<1> DEFINE q == [Pushed(p, c) EXCEPT !.status = 1]
<1>1. Fed(p, c) = push_ix(p, c)
  BY DEF Fed, Readers
<1>2. push_ix(p, c) = IF Len(q.rbuf) = Needed[p.state]
                        THEN Field_ix(q, Number(q.rbuf)) ELSE q
  BY DEF push_ix, Counting
<1>3. q = With(p, ds)
  BY DEF Pushed, IsDigit, Digits, With, Readers
<1>4. q.rbuf = ds /\ Len(ds) = Len(p.rbuf) + 1
  <2>1. p.rbuf \in Seq(Digits) /\ With(p, ds).rbuf = ds
    BY DEF With, Readers
  <2>2. Len(ds) = Len(p.rbuf) + 1
    BY <2>1
  <2> HIDE DEF q
  <2> QED  BY <1>3, <2>1, <2>2
<1> HIDE DEF q
<1> QED
  BY <1>1, <1>2, <1>3, <1>4

\* The value of a byte's digits, and of a word's.
NumbersTo(v, ds) ==
  v[0] = 0 /\ \A i \in 1 .. Len(ds) : v[i] = v[i - 1] * Digit + ds[i]

LEMMA NumberOfDigits ==
  ASSUME NEW ds, Len(ds) \in Nat, NEW v, NumbersTo(v, ds)
  PROVE  Number(ds) = v[Len(ds)]
<1> DEFINE n == Len(ds)
<1>0. n \in Nat /\ v[0] = 0 /\ \A i \in 1 .. n : v[i] = v[i - 1] * Digit + ds[i]
  BY DEF NumbersTo
<1> DEFINE Step(s) == [i \in 0 .. n |-> IF i = 0 THEN 0 ELSE s[i - 1] * Digit + ds[i]]
           w == [i \in 0 .. n |-> v[i]]
           s == CHOOSE s : s = Step(s)
<1>1. Number(ds) = s[n]
  BY DEF Number
<1> HIDE DEF n
<1>2. w = Step(w)
  <2>1. ASSUME NEW i \in 0 .. n PROVE w[i] = Step(w)[i]
    <3>1. CASE i = 0
      BY <1>0, <3>1
    <3>2. CASE i # 0
      <4>1. i \in 1 .. n /\ i - 1 \in 0 .. n
        BY <1>0, <3>2
      <4>2. w[i] = v[i] /\ w[i - 1] = v[i - 1]
        BY <4>1
      <4>3. v[i] = v[i - 1] * Digit + ds[i]
        BY <1>0, <4>1
      <4>4. Step(w)[i] = w[i - 1] * Digit + ds[i]
        BY <3>2, Zenon
      <4> QED  BY <4>2, <4>3, <4>4, Zenon
    <3> QED  BY <3>1, <3>2
  <2> QED  BY <2>1
<1>3. s = Step(s)
  <2> HIDE DEF w
  <2> QED  BY <1>2, Zenon
<1> HIDE DEF s, w
<1> DEFINE Good == {i \in 0 .. n : s[i] = v[i]}
<1>4. 0 \in Good
  <2>1. 0 \in 0 .. n
    BY <1>0
  <2>2. s[0] = Step(s)[0]
    BY <1>3, Zenon
  <2>3. Step(s)[0] = 0
    BY <2>1, Zenon
  <2> QED  BY <1>0, <2>1, <2>2, <2>3
<1>5. ASSUME NEW j \in 1 .. n, j - 1 \in Good PROVE j \in Good
  <2>1. j \in 0 .. n /\ j # 0 /\ s[j - 1] = v[j - 1]
    BY <1>0, <1>5
  <2>2. s[j] = Step(s)[j]
    BY <1>3, Zenon
  <2>3. Step(s)[j] = s[j - 1] * Digit + ds[j]
    BY <2>1, Zenon
  <2>4. v[j] = v[j - 1] * Digit + ds[j]
    BY <1>0
  <2>5. s[j] = v[j]
    BY <2>1, <2>2, <2>3, <2>4, Zenon
  <2> QED  BY <2>1, <2>5
<1>6. n \in Good
  <2> HIDE DEF Good
  <2>1. 0 .. n \subseteq Good
    BY <1>0, <1>4, <1>5, Induction
  <2> QED  BY <1>0, <2>1
<1>7. s[n] = v[n]
  BY <1>6
<1> QED
  BY <1>1, <1>7 DEF n

LEMMA NumberOfTwo ==
  ASSUME NEW a \in Nat, NEW b \in Nat
  PROVE  Number(<<a, b>>) = a * Digit + b
<1> DEFINE r == a * Digit + b
           v == [i \in 0 .. 2 |-> IF i = 0 THEN 0 ELSE IF i = 1 THEN a ELSE r]
           ds == <<a, b>>
<1>1. Digit \in Nat /\ 0 * Digit + a = a
  BY DigitAssumption
<1>2. Len(ds) = 2 /\ ds[1] = a /\ ds[2] = b /\ 2 \in Nat
  OBVIOUS
<1> HIDE DEF r
<1>3. DOMAIN v = 0 .. 2 /\ v[0] = 0 /\ v[1] = a /\ v[2] = r
  OBVIOUS
<1> HIDE DEF v, ds
<1>4. \A i \in 1 .. 2 : v[i] = v[i - 1] * Digit + ds[i]
  <2>1. v[1] = v[0] * Digit + ds[1] /\ v[2] = v[1] * Digit + ds[2]
    BY <1>1, <1>2, <1>3 DEF r
  <2>2. \A i \in 1 .. 2 : (i = 1 /\ i - 1 = 0) \/ (i = 2 /\ i - 1 = 1)
    OBVIOUS
  <2> QED  BY <2>1, <2>2
<1>5. Number(ds) = v[2]
  <2>1. NumbersTo(v, ds)
    BY <1>2, <1>3, <1>4 DEF NumbersTo
  <2> QED  BY <1>2, <2>1, NumberOfDigits
<1> QED
  BY <1>3, <1>5 DEF r, ds

LEMMA NumberOfFour ==
  ASSUME NEW a \in Nat, NEW b \in Nat, NEW c \in Nat, NEW d \in Nat
  PROVE  Number(<<a, b, c, d>>) = (a * Digit + b) * Byte + (c * Digit + d)
<1> DEFINE r == a * Digit + b
           u == r * Digit + c
           x == u * Digit + d
           v == [i \in 0 .. 4 |-> IF i = 0 THEN 0 ELSE IF i = 1 THEN a ELSE
                                   IF i = 2 THEN r ELSE IF i = 3 THEN u ELSE x]
           ds == <<a, b, c, d>>
<1>1. Digit \in Nat /\ 0 * Digit + a = a
  BY DigitAssumption
<1>2. Len(ds) = 4 /\ ds[1] = a /\ ds[2] = b /\ ds[3] = c /\ ds[4] = d /\ 4 \in Nat
  OBVIOUS
<1>3. r \in Nat
  BY <1>1
<1>4. x = r * Byte + (c * Digit + d)
  <2> HIDE DEF r
  <2>1. (r * Digit + c) * Digit = r * (Digit * Digit) + c * Digit
    BY <1>1, <1>3
  <2>2. c * Digit \in Int /\ r * (Digit * Digit) \in Int
    BY <1>1, <1>3
  <2> QED  BY <1>1, <1>3, <2>1, <2>2 DEF Byte
<1> HIDE DEF r, u, x
<1>5. DOMAIN v = 0 .. 4 /\ v[0] = 0 /\ v[1] = a /\ v[2] = r /\ v[3] = u /\ v[4] = x
  OBVIOUS
<1> HIDE DEF v, ds
<1>6. \A i \in 1 .. 4 : v[i] = v[i - 1] * Digit + ds[i]
  <2>1. /\ v[1] = v[0] * Digit + ds[1] /\ v[2] = v[1] * Digit + ds[2]
        /\ v[3] = v[2] * Digit + ds[3] /\ v[4] = v[3] * Digit + ds[4]
    BY <1>1, <1>2, <1>5 DEF r, u, x
  <2>2. \A i \in 1 .. 4 : \/ (i = 1 /\ i - 1 = 0) \/ (i = 2 /\ i - 1 = 1)
                         \/ (i = 3 /\ i - 1 = 2) \/ (i = 4 /\ i - 1 = 3)
    OBVIOUS
  <2> QED  BY <2>1, <2>2
<1>7. Number(ds) = v[4]
  <2>1. NumbersTo(v, ds)
    BY <1>2, <1>5, <1>6 DEF NumbersTo
  <2> QED  BY <1>2, <2>1, NumberOfDigits
<1> QED
  BY <1>4, <1>5, <1>7 DEF r, ds

LEMMA HexDigits ==
  ASSUME NEW v \in ByteValues
  PROVE  /\ v \div Digit \in Digits /\ v % Digit \in Digits
         /\ (v \div Digit) * Digit + (v % Digit) = v
<1> DEFINE a == v \div Digit
           b == v % Digit
<1>1. Digit \in Nat \ {0} /\ v \in 0 .. Digit * Digit - 1
  BY DigitAssumption DEF ByteValues, Byte
<1>2. a \in Nat /\ b \in Digits /\ v = Digit * a + b
  <2>1. Digit * Digit \in Nat /\ v \in Nat
    BY <1>1
  <2> QED  BY <1>1, <2>1 DEF Digits
<1> HIDE DEF a, b
<1>3. ~(a >= Digit)
  <2> SUFFICES ASSUME a >= Digit PROVE FALSE
    OBVIOUS
  <2>1. Digit * a >= Digit * Digit
    <3>1. PICK k \in Nat : a = Digit + k
      <4>1. a - Digit \in Nat /\ a = Digit + (a - Digit)
        BY <1>1, <1>2
      <4> QED  BY <4>1
    <3>2. Digit * a = Digit * Digit + Digit * k /\ Digit * k \in Nat
      BY <1>1, <3>1
    <3>3. Digit * Digit \in Nat
      BY <1>1
    <3> QED  BY <3>2, <3>3
  <2>2. v < Digit * Digit /\ Digit * Digit \in Nat /\ v \in Int
    BY <1>1
  <2>3. Digit * a \in Int /\ b >= 0 /\ b \in Int
    BY <1>1, <1>2 DEF Digits
  <2> QED  BY <1>2, <2>1, <2>2, <2>3
<1>4. a * Digit + b = v
  BY <1>1, <1>2 DEF Digits
<1>5. a \in Digits
  BY <1>1, <1>2, <1>3 DEF Digits
<1> QED
  BY <1>2, <1>4, <1>5 DEF a, b

LEMMA WithFields ==
  ASSUME NEW p \in Readers, NEW es
  PROVE  With(p, es) = [state |-> p.state, rbuf |-> es, length |-> p.length,
                        address |-> p.address, sum |-> p.sum, status |-> 1,
                        writes |-> p.writes]
<1>1. p = [state |-> p.state, rbuf |-> p.rbuf, length |-> p.length,
           address |-> p.address, sum |-> p.sum, status |-> p.status,
           writes |-> p.writes]
  BY DEF Readers
<1> DEFINE st == p.state  rb == p.rbuf  le == p.length  ad == p.address  su == p.sum
           ss == p.status  wr == p.writes
<1> HIDE DEF st, rb, le, ad, su, ss, wr
<1>2. p = [state |-> st, rbuf |-> rb, length |-> le, address |-> ad, sum |-> su,
           status |-> ss, writes |-> wr]
  BY <1>1 DEF st, rb, le, ad, su, ss, wr
<1>3. With(p, es) = [state |-> st, rbuf |-> es, length |-> le, address |-> ad, sum |-> su,
                     status |-> 1, writes |-> wr]
  <2> DEFINE q == [state |-> st, rbuf |-> es, length |-> le, address |-> ad, sum |-> su,
                   status |-> ss, writes |-> wr]
  <2>1. [[state |-> st, rbuf |-> rb, length |-> le, address |-> ad, sum |-> su,
          status |-> ss, writes |-> wr] EXCEPT !.rbuf = es] = q
    OBVIOUS
  <2>2. [q EXCEPT !.status = 1]
          = [state |-> st, rbuf |-> es, length |-> le, address |-> ad, sum |-> su,
             status |-> 1, writes |-> wr]
    OBVIOUS
  <2>3. With(p, es) = [[p EXCEPT !.rbuf = es] EXCEPT !.status = 1]
    BY DEF With
  <2> HIDE DEF q
  <2> QED  BY <1>2, <2>1, <2>2, <2>3, Zenon
<1> QED
  BY <1>3 DEF st, le, ad, su, wr

LEMMA WithReader ==
  ASSUME NEW p \in Readers, NEW ds \in Seq(Digits)
  PROVE  /\ With(p, ds) \in Readers /\ With(p, ds).rbuf = ds /\ With(p, ds).status = 1
         /\ With(p, ds).state = p.state /\ With(p, ds).length = p.length
         /\ With(p, ds).address = p.address /\ With(p, ds).sum = p.sum
         /\ With(p, ds).writes = p.writes /\ \A es : With(With(p, ds), es) = With(p, es)
<1>1. \A es : With(p, es) = [state |-> p.state, rbuf |-> es, length |-> p.length,
                            address |-> p.address, sum |-> p.sum, status |-> 1,
                            writes |-> p.writes]
  BY WithFields
<1>2. With(p, ds) \in Readers
  BY <1>1 DEF Readers
<1>3. \A es : With(With(p, ds), es) = With(p, es)
  <2> DEFINE q == With(p, ds)
  <2>1. \A es : With(q, es) = [state |-> q.state, rbuf |-> es, length |-> q.length,
                              address |-> q.address, sum |-> q.sum, status |-> 1,
                              writes |-> q.writes]
    <3> HIDE DEF q
    <3>1. q \in Readers
      BY <1>2 DEF q
    <3> QED  BY <3>1, WithFields
  <2>2. /\ q.state = p.state /\ q.length = p.length /\ q.address = p.address
        /\ q.sum = p.sum /\ q.writes = p.writes
    BY <1>1
  <2> HIDE DEF q
  <2>3. \A es : With(q, es) = With(p, es)
    BY <1>1, <2>1, <2>2, Zenon
  <2> QED  BY <2>3 DEF q
<1> QED
  BY <1>1, <1>2, <1>3

\* Two digits are a byte, four an address.
LEMMA ByteFed ==
  ASSUME NEW p \in Readers, p.status < 2, p.rbuf = <<>>,
         p.state \in Counting \ {"ADDRESS"}, NEW v \in ByteValues
  PROVE  Feed(p, Hex(v)) = Field_ix(With(p, Hex(v)), v)
<1> DEFINE a == v \div Digit
           b == v % Digit
           q == With(p, <<a>>)
<1>1. a \in Digits /\ b \in Digits /\ a * Digit + b = v /\ Digits \subseteq Nat
  BY HexDigits, DigitAssumption DEF Digits
<1> HIDE DEF a, b
<1>2. Feed(p, Hex(v)) = Fed(Fed(p, a), b)
  BY <1>1, FeedTwo DEF Hex, a, b
<1>3. <<a>> \in Seq(Digits) /\ <<a>> = Append(<<>>, a) /\ <<a, b>> = Append(<<a>>, b)
  BY <1>1
<1>4. Needed[p.state] = 2
  BY DEF Needed, Counting
<1>5. Fed(p, a) = q
  <2>1. Len(p.rbuf) + 1 # Needed[p.state]
    BY <1>4
  <2> QED  BY <1>1, <1>3, <2>1, DigitFed
<1>6. /\ q \in Readers /\ q.rbuf = <<a>> /\ q.status = 1 /\ q.state = p.state
      /\ With(q, <<a, b>>) = With(p, <<a, b>>)
  BY <1>3, WithReader
<1> HIDE DEF q
<1>7. Fed(q, b) = Field_ix(With(q, <<a, b>>), Number(<<a, b>>))
  <2>1. Len(q.rbuf) + 1 = Needed[q.state]
    BY <1>4, <1>6
  <2>2. q.status < 2 /\ q.state \in Counting /\ <<a, b>> = Append(q.rbuf, b)
    BY <1>3, <1>6
  <2> QED  BY <1>1, <1>6, <2>1, <2>2, DigitFed
<1>8. Number(<<a, b>>) = v
  BY <1>1, NumberOfTwo
<1>9. <<a, b>> = Hex(v)
  BY DEF Hex, a, b
<1> QED
  BY <1>2, <1>5, <1>6, <1>7, <1>8, <1>9, Zenon

LEMMA WordFed ==
  ASSUME NEW p \in Readers, p.status < 2, p.rbuf = <<>>, p.state = "ADDRESS",
         NEW v \in ByteValues, NEW w \in ByteValues
  PROVE  \E ds \in Seq(Digits) :
           Feed(Feed(p, Hex(v)), Hex(w)) = Field_ix(With(p, ds), v * Byte + w)
<1> DEFINE a == v \div Digit
           b == v % Digit
           c == w \div Digit
           d == w % Digit
           q1 == With(p, <<a>>)
           q2 == With(p, <<a, b>>)
           q3 == With(p, <<a, b, c>>)
           q4 == With(p, <<a, b, c, d>>)
<1>1. /\ a \in Digits /\ b \in Digits /\ a * Digit + b = v
      /\ c \in Digits /\ d \in Digits /\ c * Digit + d = w /\ Digits \subseteq Nat
  BY HexDigits, DigitAssumption DEF Digits
<1> HIDE DEF a, b, c, d
<1>2. Feed(Feed(p, Hex(v)), Hex(w)) = Fed(Fed(Fed(Fed(p, a), b), c), d)
  <2>1. \A x : Feed(x, Hex(v)) = Fed(Fed(x, a), b)
    BY <1>1, FeedTwo DEF Hex, a, b
  <2>2. \A x : Feed(x, Hex(w)) = Fed(Fed(x, c), d)
    BY <1>1, FeedTwo DEF Hex, c, d
  <2> QED  BY <2>1, <2>2, Zenon
<1>3. /\ <<a>> \in Seq(Digits) /\ <<a>> = Append(<<>>, a)
      /\ <<a, b>> \in Seq(Digits) /\ <<a, b>> = Append(<<a>>, b)
      /\ <<a, b, c>> \in Seq(Digits) /\ <<a, b, c>> = Append(<<a, b>>, c)
      /\ <<a, b, c, d>> \in Seq(Digits) /\ <<a, b, c, d>> = Append(<<a, b, c>>, d)
  BY <1>1
<1>4. Needed["ADDRESS"] = 4 /\ "ADDRESS" \in Counting
  BY DEF Needed, Counting
<1>5. Fed(p, a) = q1
  <2>1. Len(p.rbuf) + 1 # Needed[p.state]
    BY <1>4
  <2> QED  BY <1>1, <1>3, <1>4, <2>1, DigitFed
<1>6. /\ q1 \in Readers /\ q1.rbuf = <<a>> /\ q1.status = 1 /\ q1.state = p.state
      /\ With(q1, <<a, b>>) = q2
  BY <1>3, WithReader
<1>7. /\ q2 \in Readers /\ q2.rbuf = <<a, b>> /\ q2.status = 1 /\ q2.state = p.state
      /\ With(q2, <<a, b, c>>) = q3
  BY <1>3, WithReader
<1>8. /\ q3 \in Readers /\ q3.rbuf = <<a, b, c>> /\ q3.status = 1 /\ q3.state = p.state
      /\ With(q3, <<a, b, c, d>>) = q4
  BY <1>3, WithReader
<1> HIDE DEF q1, q2, q3, q4
<1>9. Fed(q1, b) = q2
  <2>1. Len(q1.rbuf) + 1 # Needed[q1.state] /\ q1.status < 2 /\ q1.state \in Counting
    BY <1>4, <1>6
  <2>2. <<a, b>> = Append(q1.rbuf, b)
    BY <1>3, <1>6
  <2> QED  BY <1>1, <1>6, <2>1, <2>2, DigitFed
<1>10. Fed(q2, c) = q3
  <2>1. Len(q2.rbuf) + 1 # Needed[q2.state] /\ q2.status < 2 /\ q2.state \in Counting
    BY <1>4, <1>7
  <2>2. <<a, b, c>> = Append(q2.rbuf, c)
    BY <1>3, <1>7
  <2> QED  BY <1>1, <1>7, <2>1, <2>2, DigitFed
<1>11. Fed(q3, d) = Field_ix(q4, Number(<<a, b, c, d>>))
  <2>1. Len(q3.rbuf) + 1 = Needed[q3.state] /\ q3.status < 2 /\ q3.state \in Counting
    BY <1>4, <1>8
  <2>2. <<a, b, c, d>> = Append(q3.rbuf, d)
    BY <1>3, <1>8
  <2> QED  BY <1>1, <1>8, <2>1, <2>2, DigitFed
<1>12. Number(<<a, b, c, d>>) = v * Byte + w
  BY <1>1, NumberOfFour
<1>13. Feed(Feed(p, Hex(v)), Hex(w)) = Field_ix(q4, v * Byte + w)
  BY <1>2, <1>5, <1>9, <1>10, <1>11, <1>12, Zenon
<1> QED
  BY <1>3, <1>13 DEF q4

(* What a whole number does, state by state. *)
ReaderStates == {"HEAD", "NUMBER", "ADDRESS", "RECORD", "DATA", "SUM", "END", "DONE"}

LEMMA OneField ==
  ASSUME NEW p \in Readers
  PROVE  /\ \A x \in ReaderStates : [p EXCEPT !.state = x] \in Readers
         /\ \A x \in Seq(Digits) : [p EXCEPT !.rbuf = x] \in Readers
         /\ \A x \in Int : [p EXCEPT !.length = x] \in Readers
         /\ \A x \in Nat : [p EXCEPT !.address = x] \in Readers
         /\ \A x \in Nat : [p EXCEPT !.sum = x] \in Readers
         /\ \A x \in 0 .. 3 : [p EXCEPT !.status = x] \in Readers
         /\ \A x \in Seq(Nat \X ByteValues) : [p EXCEPT !.writes = x] \in Readers
<1>1. \A x \in ReaderStates : [p EXCEPT !.state = x] \in Readers
  BY DEF Readers, ReaderStates
<1>2. \A x \in Seq(Digits) : [p EXCEPT !.rbuf = x] \in Readers
  BY DEF Readers
<1>3. \A x \in Int : [p EXCEPT !.length = x] \in Readers
  BY DEF Readers
<1>4. \A x \in Nat : [p EXCEPT !.address = x] \in Readers
  BY DEF Readers
<1>5. \A x \in Nat : [p EXCEPT !.sum = x] \in Readers
  BY DEF Readers
<1>6. \A x \in 0 .. 3 : [p EXCEPT !.status = x] \in Readers
  BY DEF Readers
<1>7. \A x \in Seq(Nat \X ByteValues) : [p EXCEPT !.writes = x] \in Readers
  BY DEF Readers
<1> QED
  BY <1>1, <1>2, <1>3, <1>4, <1>5, <1>6, <1>7, Zenon

LEMMA StartsReader ==
  ASSUME NEW p \in Readers, NEW s \in ReaderStates
  PROVE  /\ Starts(p, s) \in Readers /\ Starts(p, s).state = s /\ Starts(p, s).rbuf = <<>>
         /\ Starts(p, s).length = p.length /\ Starts(p, s).address = p.address
         /\ Starts(p, s).sum = p.sum /\ Starts(p, s).status = p.status
         /\ Starts(p, s).writes = p.writes
<1>1. [p EXCEPT !.state = s] \in Readers
  BY OneField, Zenon
<1>2. [[p EXCEPT !.state = s] EXCEPT !.rbuf = <<>>] \in Readers
  <2> DEFINE x == [p EXCEPT !.state = s]
  <2> HIDE DEF x
  <2>1. x \in Readers /\ <<>> \in Seq(Digits)
    BY <1>1 DEF x
  <2>2. [x EXCEPT !.rbuf = <<>>] \in Readers
    BY <2>1, OneField
  <2> QED  BY <2>2 DEF x
<1>3. Starts(p, s) \in Readers
  BY <1>2 DEF Starts
<1> QED
  BY <1>3 DEF Starts, Readers

LEMMA NumberDone ==
  ASSUME NEW p \in Readers, p.status = 1, NEW n \in Nat, p.state = "NUMBER",
         NEW q, q = Field_ix(p, n)
  PROVE  /\ q \in Readers /\ q.state = "ADDRESS" /\ q.rbuf = <<>> /\ q.length = n
         /\ q.sum = n /\ q.status = 1 /\ q.writes = p.writes
<1> DEFINE x == Starts(p, "ADDRESS")
           y == [x EXCEPT !.length = n]
<1>1. q = [x EXCEPT !.length = n, !.sum = n]
  BY DEF Field_ix
<1>2. /\ x \in Readers /\ x.state = "ADDRESS" /\ x.rbuf = <<>> /\ x.status = 1
      /\ x.writes = p.writes
  BY StartsReader DEF ReaderStates
<1> HIDE DEF x
<1>3. q \in Readers
  <2>1. y \in Readers
    <3>1. n \in Int
      OBVIOUS
    <3> QED  BY <1>2, <3>1, OneField, Zenon
  <2>2. q = [y EXCEPT !.sum = n]
    BY <1>1
  <2> HIDE DEF y
  <2> QED  BY <2>1, <2>2, OneField
<1> QED
  BY <1>1, <1>2, <1>3 DEF Readers

LEMMA AddressDone ==
  ASSUME NEW p \in Readers, p.status = 1, NEW n \in Nat, p.state = "ADDRESS",
         NEW q, q = Field_ix(p, n)
  PROVE  /\ q \in Readers /\ q.state = "RECORD" /\ q.rbuf = <<>> /\ q.length = p.length
         /\ q.address = n /\ q.sum = p.sum + (n \div Byte) + (n % Byte)
         /\ q.status = 1 /\ q.writes = p.writes
<1> DEFINE x == Starts(p, "RECORD")
           y == [x EXCEPT !.address = n]
           z == x.sum + (n \div Byte) + (n % Byte)
<1>1. q = [y EXCEPT !.sum = z]
  BY StartsReader DEF Field_ix, Readers
<1>2. /\ x \in Readers /\ x.state = "RECORD" /\ x.rbuf = <<>> /\ x.status = 1
      /\ x.writes = p.writes /\ x.length = p.length /\ x.sum = p.sum
  BY StartsReader DEF ReaderStates
<1>3. z \in Nat
  <2>1. Byte \in Nat \ {0} /\ x.sum \in Nat
    BY <1>2, DigitAssumption DEF Byte, Readers
  <2> HIDE DEF x, Byte
  <2>2. n \div Byte \in Nat /\ n % Byte \in Nat
    BY <2>1
  <2> QED  BY <2>1, <2>2
<1> HIDE DEF x, z
<1>4. q \in Readers
  <2>1. y \in Readers
    BY <1>2, OneField
  <2> HIDE DEF y
  <2> QED  BY <1>1, <1>3, <2>1, OneField
<1> QED
  BY <1>1, <1>2, <1>4 DEF Readers, z

LEMMA RecordDone ==
  ASSUME NEW p \in Readers, p.status = 1, NEW n \in Nat, p.state = "RECORD",
         NEW q, q = Field_ix(p, n)
  PROVE  /\ q \in Readers /\ q.state = IF n = 0 THEN "DATA" ELSE "END"
         /\ q.rbuf = <<>> /\ q.length = p.length /\ q.address = p.address
         /\ q.sum = p.sum + n /\ q.status = 1 /\ q.writes = p.writes
<1> DEFINE s == IF n = 0 THEN "DATA" ELSE "END"
           x == Starts(p, s)
           z == x.sum + n
<1>1. q = [x EXCEPT !.sum = z]
  BY DEF Field_ix
<1>2. /\ x \in Readers /\ x.state = s /\ x.rbuf = <<>> /\ x.status = 1
      /\ x.writes = p.writes /\ x.length = p.length /\ x.sum = p.sum /\ x.address = p.address
  BY StartsReader DEF ReaderStates
<1>3. z \in Nat
  BY <1>2 DEF Readers
<1> HIDE DEF x, z, s
<1>4. q \in Readers
  BY <1>1, <1>2, <1>3, OneField
<1>5. /\ q.state = s /\ q.rbuf = <<>> /\ q.length = p.length /\ q.address = p.address
      /\ q.sum = p.sum + n /\ q.status = 1 /\ q.writes = p.writes
  BY <1>1, <1>2 DEF Readers, z
<1> QED
  BY <1>4, <1>5 DEF s

IsWord(a) == a < Byte * Byte

\* The next address, round the end of a word.
LEMMA NextWord ==
  ASSUME NEW a \in Nat
  PROVE  /\ Word(a) \in Nat /\ Word(a + 1) = Word(Word(a) + 1)
         /\ a < Byte * Byte => Word(a) = a
<1> DEFINE m == Byte * Byte
           k == a \div m
           u == a % m
<1>1. m \in Nat \ {0}
  <2>1. Byte \in Nat \ {0} /\ \A x, y \in Nat \ {0} : x * y \in Nat \ {0}
    BY DigitAssumption DEF Byte
  <2> QED  BY <2>1
<1> HIDE DEF m
<1>2. k \in Nat /\ u \in 0 .. m - 1 /\ a = m * k + u
  BY <1>1
<1>3. Word(a) = u /\ Word(a + 1) = (a + 1) % m /\ Word(u + 1) = (u + 1) % m
  BY DEF Word, m
<1>4. (a + 1) % m = (u + 1) % m
  <2> HIDE DEF k, u
  <2>1. CASE u + 1 < m
    <3>1. \A v \in 0 .. m - 1 : (m * k + v) % m = v /\ v % m = v
      BY <1>1, <1>2
    <3>2. u + 1 \in 0 .. m - 1 /\ a + 1 = m * k + (u + 1)
      BY <1>1, <1>2, <2>1
    <3> QED  BY <3>1, <3>2
  <2>2. CASE u + 1 = m
    <3>1. a + 1 = m * (k + 1)
      BY <1>1, <1>2, <2>2
    <3>2. \A j \in Nat : (m * j) % m = 0
      BY <1>1
    <3>3. (m * (k + 1)) % m = 0 /\ m % m = 0
      BY <1>1, <1>2, <3>2
    <3> QED  BY <2>2, <3>1, <3>3
  <2> QED  BY <1>1, <1>2, <2>1, <2>2
<1>5. a < m => u = a
  BY <1>1
<1> QED
  BY <1>2, <1>3, <1>4, <1>5 DEF m

LEMMA DataDone ==
  ASSUME NEW p \in Readers, p.status = 1, NEW n \in ByteValues, p.state = "DATA",
         NEW q, q = Field_ix(p, n)
  PROVE  /\ q \in Readers /\ q.state = IF p.length = 1 THEN "SUM" ELSE "DATA"
         /\ q.rbuf = <<>> /\ q.length = p.length - 1 /\ q.address = Word(p.address + 1)
         /\ q.sum = p.sum + n /\ q.status = 1
         /\ q.writes = Append(p.writes, <<p.address, n>>)
<1> DEFINE s == IF p.length = 1 THEN "SUM" ELSE "DATA"
           x == Starts(p, s)
           x1 == [x EXCEPT !.sum = x.sum + n]
           x2 == [x1 EXCEPT !.length = x1.length - 1]
           x3 == [x2 EXCEPT !.address = Word(x2.address + 1)]
           w == Append(x3.writes, <<p.address, n>>)
<1>0. n \in Nat
  BY DigitAssumption DEF ByteValues, Byte
<1>1. q = [x3 EXCEPT !.writes = w]
  BY Zenon DEF Field_ix
<1>2. /\ x \in Readers /\ x.state = s /\ x.rbuf = <<>> /\ x.status = 1
      /\ x.writes = p.writes /\ x.length = p.length /\ x.sum = p.sum /\ x.address = p.address
  BY StartsReader DEF ReaderStates
<1> HIDE DEF x, s
<1>3. /\ x1 \in Readers /\ x1.state = s /\ x1.rbuf = <<>> /\ x1.status = 1
      /\ x1.writes = p.writes /\ x1.length = p.length /\ x1.sum = p.sum + n
      /\ x1.address = p.address
  <2>1. x.sum + n \in Nat
    BY <1>0, <1>2 DEF Readers
  <2>2. x1 \in Readers
    BY <1>2, <2>1, OneField
  <2> QED  BY <1>2, <2>2 DEF Readers
<1> HIDE DEF x1
<1>4. /\ x2 \in Readers /\ x2.state = s /\ x2.rbuf = <<>> /\ x2.status = 1
      /\ x2.writes = p.writes /\ x2.length = p.length - 1 /\ x2.sum = p.sum + n
      /\ x2.address = p.address
  <2>1. x1.length - 1 \in Int
    BY <1>3 DEF Readers
  <2>2. x2 \in Readers
    BY <1>3, <2>1, OneField
  <2> QED  BY <1>3, <2>2 DEF Readers
<1> HIDE DEF x2
<1>5. /\ x3 \in Readers /\ x3.state = s /\ x3.rbuf = <<>> /\ x3.status = 1
      /\ x3.writes = p.writes /\ x3.length = p.length - 1 /\ x3.sum = p.sum + n
      /\ x3.address = Word(p.address + 1)
  <2>1. Word(x2.address + 1) \in Nat
    <3>1. x2.address + 1 \in Nat
      BY <1>4 DEF Readers
    <3> QED  BY <3>1, NextWord
  <2>2. x3 \in Readers
    BY <1>4, <2>1, OneField
  <2> QED  BY <1>4, <2>2 DEF Readers
<1> HIDE DEF x3
<1>6. w \in Seq(Nat \X ByteValues) /\ w = Append(p.writes, <<p.address, n>>)
  BY <1>5 DEF Readers
<1> HIDE DEF w
<1>7. q \in Readers
  BY <1>1, <1>5, <1>6, OneField
<1>8. /\ q.state = s /\ q.rbuf = <<>> /\ q.length = p.length - 1 /\ q.address = Word(p.address + 1)
      /\ q.sum = p.sum + n /\ q.status = 1 /\ q.writes = w
  BY <1>1, <1>5 DEF Readers
<1> QED
  BY <1>6, <1>7, <1>8 DEF s

LEMMA SumDone ==
  ASSUME NEW p \in Readers, p.status = 1, NEW n \in Nat, p.state = "SUM",
         NEW q, q = Field_ix(p, n)
  PROVE  /\ q \in Readers /\ q.rbuf = <<>> /\ q.writes = p.writes
         /\ (p.sum + n) % Byte = 0 => q.state = "HEAD" /\ q.status = 1
         /\ (p.sum + n) % Byte # 0 => q.state = "DONE" /\ q.status = 2
<1>1. CASE (p.sum + n) % Byte = 0
  <2> DEFINE x == Starts(p, "HEAD")
  <2>1. q = [x EXCEPT !.sum = 0]
    BY <1>1 DEF Field_ix
  <2>2. /\ x \in Readers /\ x.state = "HEAD" /\ x.rbuf = <<>> /\ x.status = 1
        /\ x.writes = p.writes
    BY StartsReader DEF ReaderStates
  <2> HIDE DEF x
  <2>3. q \in Readers
    BY <2>1, <2>2, OneField
  <2>4. q.state = "HEAD" /\ q.rbuf = <<>> /\ q.status = 1 /\ q.writes = p.writes
    BY <2>1, <2>2 DEF Readers
  <2> QED  BY <1>1, <2>3, <2>4
<1>2. CASE (p.sum + n) % Byte # 0
  <2> DEFINE x == Starts(p, "DONE")
             y == [x EXCEPT !.sum = x.sum + n]
  <2>1. q = [y EXCEPT !.status = 2]
    BY <1>2 DEF Field_ix
  <2>2. /\ x \in Readers /\ x.state = "DONE" /\ x.rbuf = <<>> /\ x.status = 1
        /\ x.writes = p.writes /\ x.sum \in Nat
    BY StartsReader DEF ReaderStates, Readers
  <2> HIDE DEF x
  <2>3. y \in Readers /\ y.state = "DONE" /\ y.rbuf = <<>> /\ y.writes = p.writes
    <3>1. x.sum + n \in Nat
      BY <2>2
    <3>2. y \in Readers
      BY <2>2, <3>1, OneField, Zenon
    <3> QED  BY <2>2, <3>2 DEF Readers
  <2> HIDE DEF y
  <2>4. q \in Readers
    <3>1. 2 \in 0 .. 3
      OBVIOUS
    <3> QED  BY <2>1, <2>3, <3>1, OneField, Zenon
  <2>5. q.state = "DONE" /\ q.rbuf = <<>> /\ q.status = 2 /\ q.writes = p.writes
    BY <2>1, <2>3 DEF Readers
  <2> QED  BY <1>2, <2>4, <2>5
<1> QED
  BY <1>1, <1>2

LEMMA EndDone ==
  ASSUME NEW p \in Readers, p.status = 1, NEW n \in Nat, p.state = "END",
         NEW q, q = Field_ix(p, n)
  PROVE  q \in Readers /\ q.writes = p.writes /\ q.state = "DONE" /\ q.status = 0
<1> DEFINE x == Starts(p, "DONE")
<1>1. q = [x EXCEPT !.status = 0]
  BY DEF Field_ix
<1>2. x \in Readers /\ x.state = "DONE" /\ x.writes = p.writes
  BY StartsReader DEF ReaderStates
<1> HIDE DEF x
<1>3. q \in Readers
  <2>1. 0 \in 0 .. 3
    OBVIOUS
  <2> QED  BY <1>1, <1>2, <2>1, OneField, Zenon
<1> QED
  BY <1>1, <1>2, <1>3 DEF Readers

(* A byte of a line, in the states that wait for one. *)
LEMMA FieldFed ==
  ASSUME NEW p \in Readers, p.status = 1, p.rbuf = <<>>,
         p.state \in Counting \ {"ADDRESS"}, NEW v \in ByteValues
  PROVE  /\ v \in Nat
         /\ \E r \in Readers :
              /\ r.status = 1 /\ r.state = p.state /\ r.length = p.length
              /\ r.address = p.address /\ r.sum = p.sum /\ r.writes = p.writes
              /\ Feed(p, Hex(v)) = Field_ix(r, v)
<1>1. Hex(v) \in Seq(Digits)
  BY HexDigits DEF Hex
<1>2. Feed(p, Hex(v)) = Field_ix(With(p, Hex(v)), v)
  BY ByteFed
<1>3. v \in Nat
  BY DigitAssumption DEF ByteValues, Byte
<1> DEFINE r == With(p, Hex(v))
<1>4. /\ r \in Readers /\ r.status = 1 /\ r.state = p.state /\ r.length = p.length
      /\ r.address = p.address /\ r.sum = p.sum /\ r.writes = p.writes
  BY <1>1, WithReader
<1> HIDE DEF r
<1> QED
  BY <1>2, <1>3, <1>4 DEF r

LEMMA AddressFed ==
  ASSUME NEW p \in Readers, p.status = 1, p.rbuf = <<>>, p.state = "ADDRESS",
         NEW v \in ByteValues, NEW w \in ByteValues
  PROVE  /\ v * Byte + w \in Nat
         /\ \E r \in Readers :
              /\ r.status = 1 /\ r.state = "ADDRESS" /\ r.length = p.length
              /\ r.sum = p.sum /\ r.writes = p.writes
              /\ Feed(Feed(p, Hex(v)), Hex(w)) = Field_ix(r, v * Byte + w)
<1>1. PICK ds \in Seq(Digits) : Feed(Feed(p, Hex(v)), Hex(w)) = Field_ix(With(p, ds), v * Byte + w)
  BY WordFed
<1>2. v * Byte + w \in Nat
  <2>1. Byte \in Nat /\ v \in Nat /\ w \in Nat
    BY DigitAssumption DEF ByteValues, Byte
  <2> HIDE DEF Byte
  <2> QED  BY <2>1
<1> DEFINE r == With(p, ds)
<1>3. /\ r \in Readers /\ r.status = 1 /\ r.state = p.state /\ r.length = p.length
      /\ r.sum = p.sum /\ r.writes = p.writes
  BY WithReader
<1> HIDE DEF r
<1> QED
  BY <1>1, <1>2, <1>3 DEF r

(* Between the lines. *)
LEMMA HeadFed ==
  ASSUME NEW p \in Readers, p.status < 2, p.state = "HEAD"
  PROVE  /\ Feed(p, <<":">>) \in Readers /\ Feed(p, <<":">>).state = "NUMBER"
         /\ Feed(p, <<":">>).rbuf = <<>> /\ Feed(p, <<":">>).status = 1
         /\ Feed(p, <<":">>).writes = p.writes
         /\ Feed(p, <<"nl">>) \in Readers /\ Feed(p, <<"nl">>).state = "HEAD"
         /\ Feed(p, <<"nl">>).status = 1 /\ Feed(p, <<"nl">>).writes = p.writes
<1>1. ASSUME NEW c PROVE Feed(p, <<c>>) = Head_ix(p, c)
  <2>1. Feed(p, <<c>>) = Fed(p, c)
    BY FeedOne
  <2>2. Fed(p, c) = push_ix(p, c)
    BY DEF Fed, Readers
  <2>3. push_ix(p, c) = Head_ix(p, c)
    BY DEF push_ix
  <2> QED  BY <2>1, <2>2, <2>3
<1>2. 1 \in 0 .. 3
  OBVIOUS
<1> DEFINE x == Starts(p, "NUMBER")
<1>3. Feed(p, <<":">>) = [x EXCEPT !.status = 1]
  BY <1>1 DEF Head_ix
<1>4. x \in Readers /\ x.state = "NUMBER" /\ x.rbuf = <<>> /\ x.writes = p.writes
  BY StartsReader DEF ReaderStates
<1> HIDE DEF x
<1>5. Feed(p, <<":">>) \in Readers
  BY <1>2, <1>3, <1>4, OneField, Zenon
<1>6. Feed(p, <<"nl">>) = [p EXCEPT !.status = 1]
  BY <1>1 DEF Head_ix
<1>7. Feed(p, <<"nl">>) \in Readers
  BY <1>2, <1>6, OneField, Zenon
<1>8. /\ Feed(p, <<":">>).state = "NUMBER" /\ Feed(p, <<":">>).rbuf = <<>>
      /\ Feed(p, <<":">>).status = 1 /\ Feed(p, <<":">>).writes = p.writes
  BY <1>3, <1>4 DEF Readers
<1>9. /\ Feed(p, <<"nl">>).state = "HEAD" /\ Feed(p, <<"nl">>).status = 1
      /\ Feed(p, <<"nl">>).writes = p.writes
  BY <1>6 DEF Readers
<1> QED
  BY <1>5, <1>7, <1>8, <1>9

\* After an error nothing is taken any more.
LEMMA Refused ==
  ASSUME NEW p, p.status >= 2, NEW text, Len(text) \in Nat
  PROVE  Feed(p, text) = p
<1> DEFINE h == [i \in 0 .. Len(text) |-> p]
<1>1. \A i \in 0 .. Len(text) : h[i] = p
  OBVIOUS
<1>2. 0 \in 0 .. Len(text) /\ Len(text) \in 0 .. Len(text)
      /\ \A i \in 1 .. Len(text) : i \in 0 .. Len(text) /\ i - 1 \in 0 .. Len(text)
  OBVIOUS
<1> HIDE DEF h
<1>3. \A c : Fed(p, c) = p
  BY DEF Fed
<1>4. FeedsTo(h, p, text)
  BY <1>1, <1>2, <1>3 DEF FeedsTo
<1>5. Feed(p, text) = h[Len(text)]
  BY <1>4, FeedEnds
<1> QED
  BY <1>1, <1>2, <1>5

(* What a line says of its sum. *)
LEMMA ChecksumRun ==
  ASSUME NEW r, HexRecord(r)
  PROVE  \E s : /\ s[0] = Len(r.data) + (r.address \div Byte) + (r.address % Byte)
                /\ \A i \in 1 .. Len(r.data) : s[i] = s[i - 1] + r.data[i]
                /\ Checksum(r) = s[Len(r.data)]
<1> DEFINE n == Len(r.data)
           base == Len(r.data) + (r.address \div Byte) + (r.address % Byte)
           d == r.data
           F == [p \in Nat \X (1 .. n) |-> p[1] + d[p[2]]]
           Step(s) == [i \in 0 .. n |-> IF i = 0 THEN base ELSE s[i - 1] + d[i]]
           s == CHOOSE s : s = Step(s)
<1>1. Byte \in Nat \ {0} /\ 0 .. Byte - 1 \subseteq Nat
  BY DigitAssumption DEF Byte
<1>2. n \in Nat /\ base \in Nat /\ \A i \in 1 .. n : d[i] \in Nat
  <2>1. r.data \in Seq(0 .. Byte - 1) /\ r.address \in Nat
    BY <1>1 DEF HexRecord
  <2> HIDE DEF Byte
  <2>2. r.address \div Byte \in Nat /\ r.address % Byte \in Nat
    BY <1>1, <2>1
  <2>3. \A i \in 1 .. n : d[i] \in Nat
    BY <1>1, <2>1
  <2> QED  BY <2>1, <2>2, <2>3
<1>3. Checksum(r) = s[n]
  BY DEF Checksum
<1> HIDE DEF n, base, d
<1>4. F \in [Nat \X (1 .. n) -> Nat]
  BY <1>2
<1>5. PICK g : IsRun(g, n, Nat, base, F)
  <2> HIDE DEF F
  <2> QED  BY <1>2, <1>4, RunExists
<1>6. g[0] = base /\ \A i \in 1 .. n : g[i] = g[i - 1] + d[i]
  <2>1. ASSUME NEW i \in 1 .. n PROVE g[i] = g[i - 1] + d[i]
    <3>1. g[i - 1] \in Nat /\ g[i] = F[<<g[i - 1], i>>]
      <4> HIDE DEF F
      <4> QED  BY <1>2, <1>5 DEF IsRun
    <3> QED  BY <3>1
  <2> QED  BY <1>5, <2>1 DEF IsRun
<1> DEFINE w == [i \in 0 .. n |-> g[i]]
<1>7. w = Step(w)
  <2>1. ASSUME NEW i \in 0 .. n PROVE w[i] = Step(w)[i]
    <3>1. CASE i = 0
      BY <1>2, <1>6, <3>1
    <3>2. CASE i # 0
      <4>1. i \in 1 .. n /\ i - 1 \in 0 .. n
        BY <1>2, <3>2
      <4>2. w[i] = g[i] /\ w[i - 1] = g[i - 1]
        BY <4>1
      <4>3. g[i] = g[i - 1] + d[i]
        BY <1>6, <4>1
      <4>4. Step(w)[i] = w[i - 1] + d[i]
        BY <3>2, Zenon
      <4> QED  BY <4>2, <4>3, <4>4, Zenon
    <3> QED  BY <3>1, <3>2
  <2> QED  BY <2>1
<1>8. s = Step(s)
  <2> HIDE DEF w
  <2> QED  BY <1>7, Zenon
<1> HIDE DEF s, w, F
<1>9. s[0] = base /\ \A i \in 1 .. n : s[i] = s[i - 1] + d[i]
  <2>1. 0 \in 0 .. n /\ \A i \in 1 .. n : i \in 0 .. n /\ i # 0
    BY <1>2
  <2>2. s[0] = Step(s)[0] /\ \A i \in 1 .. n : s[i] = Step(s)[i]
    BY <1>8, Zenon
  <2>3. Step(s)[0] = base
    BY <2>1, Zenon
  <2>4. ASSUME NEW i \in 1 .. n PROVE Step(s)[i] = s[i - 1] + d[i]
    BY <2>1, Zenon
  <2> QED  BY <2>2, <2>3, <2>4, Zenon
<1> QED
  BY <1>3, <1>9, Zenon DEF n, base, d

\* A sum and what it lacks.
LEMMA ModSum ==
  ASSUME NEW m \in Nat \ {0}, NEW t \in Nat, NEW b \in 0 .. m - 1
  PROVE  (t + ((b + m - (t % m)) % m)) % m = b
<1> DEFINE k == t \div m
           u == t % m
           x == b + m - u
<1>1. k \in Nat /\ u \in 0 .. m - 1 /\ t = m * k + u
  OBVIOUS
<1> HIDE DEF k, u
<1>2. \A j \in Nat : (m * j + b) % m = b
  OBVIOUS
<1>3. CASE b >= u
  <2>1. x = m + (b - u) /\ b - u \in 0 .. m - 1
    BY <1>1, <1>3
  <2>2. x % m = b - u
    <3> DEFINE y == b - u
    <3>1. y \in 0 .. m - 1
      BY <2>1
    <3> HIDE DEF y
    <3>2. (m + y) % m = y
      BY <3>1, SmallMod
    <3> QED  BY <2>1, <3>2 DEF y
  <2>3. m * k \in Nat
    BY <1>1
  <2>4. t + (b - u) = m * k + b
    BY <1>1, <2>3
  <2> QED  BY <1>1, <1>2, <2>2, <2>4 DEF u
<1>4. CASE ~(b >= u)
  <2>1. x \in 0 .. m - 1
    BY <1>1, <1>4
  <2>2. x % m = x
    <3> HIDE DEF x
    <3> QED  BY <2>1, SmallMod
  <2>3. m * k \in Nat /\ m * (k + 1) = m * k + m /\ k + 1 \in Nat
    BY <1>1
  <2>4. t + x = m * (k + 1) + b
    BY <1>1, <2>3
  <2> QED  BY <1>1, <1>2, <2>2, <2>3, <2>4 DEF u
<1> QED
  BY <1>3, <1>4, <1>1

Chars == Digits \cup {":", "nl"}
DataText(d, k) == FlattenSeq([i \in 1 .. k |-> Hex(d[i])])

LEMMA HexText == ASSUME NEW v \in ByteValues PROVE Hex(v) \in Seq(Chars)
<1>1. v \div Digit \in Chars /\ v % Digit \in Chars
  BY HexDigits DEF Chars
<1> HIDE DEF Chars
<1> QED
  BY <1>1 DEF Hex

LEMMA FunctionIsSeq ==
  ASSUME NEW S, NEW n \in Nat, NEW f \in [1 .. n -> S]
  PROVE  f \in Seq(S) /\ Len(f) = n
OBVIOUS

Extended(x, u, e) == x = Append(u, e)

LEMMA AppendLast ==
  \A S : \A u, v \in Seq(S) : \A e \in S : \A a, b, x, y :
     Joined(a, u, v) /\ Extended(b, v, e) /\ Extended(x, a, e) /\ Joined(y, u, b) => x = y
<1> SUFFICES ASSUME NEW S, NEW u \in Seq(S), NEW v \in Seq(S), NEW e \in S
             PROVE  Append(u \o v, e) = u \o Append(v, e)
  BY DEF Joined, Extended
<1> DEFINE x == Append(u \o v, e)
           y == u \o Append(v, e)
<1>1. x \in Seq(S) /\ y \in Seq(S) /\ Len(x) = Len(u) + Len(v) + 1 /\ Len(y) = Len(x)
      /\ Len(u) \in Nat /\ Len(v) \in Nat
  OBVIOUS
<1>2. /\ \A i \in 1 .. Len(u) : x[i] = u[i]
      /\ \A i \in 1 .. Len(u) : y[i] = u[i]
  OBVIOUS
<1>3. /\ \A i \in Len(u) + 1 .. Len(u) + Len(v) : x[i] = v[i - Len(u)]
      /\ \A i \in Len(u) + 1 .. Len(u) + Len(v) : y[i] = v[i - Len(u)]
  OBVIOUS
<1>4. x[Len(u) + Len(v) + 1] = e /\ y[Len(u) + Len(v) + 1] = e
  OBVIOUS
<1> HIDE DEF x, y
<1>5. \A i \in 1 .. Len(x) :
        \/ i \in 1 .. Len(u) \/ i \in Len(u) + 1 .. Len(u) + Len(v)
        \/ i = Len(u) + Len(v) + 1
  BY <1>1
<1>6. \A i \in 1 .. Len(x) : x[i] = y[i]
  BY <1>2, <1>3, <1>4, <1>5
<1>7. x = y
  BY <1>1, <1>6, SameSeq
<1> QED
  BY <1>7 DEF x, y

\* One more, of what is joined.
LEMMA OneMore ==
  ASSUME NEW S, NEW x \in Seq(S), NEW y \in Seq(S), Len(x) = Len(y) + 1,
         \A i \in 1 .. Len(y) : y[i] = x[i]
  PROVE  x = Append(y, x[Len(x)])
<1>0. Len(y) \in Nat /\ x[Len(x)] \in S
  OBVIOUS
<1> DEFINE z == Append(y, x[Len(x)])
<1>1. /\ z \in Seq(S) /\ Len(z) = Len(x) /\ z[Len(x)] = x[Len(x)]
      /\ \A i \in 1 .. Len(y) : z[i] = y[i]
  BY <1>0
<1>2. \A i \in 1 .. Len(x) : i = Len(x) \/ i \in 1 .. Len(y)
  BY <1>0
<1> HIDE DEF z
<1>3. \A i \in 1 .. Len(x) : x[i] = z[i]
  BY <1>1, <1>2
<1>4. x = z
  BY <1>1, <1>3, SameSeq
<1> QED
  BY <1>4 DEF z

LEMMA DataTexts ==
  ASSUME NEW d \in Seq(ByteValues), NEW k \in 1 .. Len(d)
  PROVE  /\ DataText(d, k) = DataText(d, k - 1) \o Hex(d[k])
         /\ DataText(d, k - 1) \in Seq(Chars) /\ Hex(d[k]) \in Seq(Chars)
<1> DEFINE x == [i \in 1 .. k |-> Hex(d[i])]
           y == [i \in 1 .. k - 1 |-> Hex(d[i])]
<1>1. \A i \in 1 .. k : d[i] \in ByteValues
  OBVIOUS
<1>2. \A i \in 1 .. k : Hex(d[i]) \in Seq(Chars)
  BY <1>1, HexText
<1>3. k \in Nat /\ k - 1 \in Nat /\ k \in 1 .. k
  OBVIOUS
<1>4. x \in [1 .. k -> Seq(Chars)] /\ y \in [1 .. k - 1 -> Seq(Chars)]
      /\ x[k] = Hex(d[k]) /\ \A i \in 1 .. k - 1 : x[i] = y[i]
  BY <1>2
<1> HIDE DEF x, y
<1>5. x \in Seq(Seq(Chars)) /\ Len(x) = k /\ y \in Seq(Seq(Chars)) /\ Len(y) = k - 1
  BY <1>3, <1>4, FunctionIsSeq
<1>6. x = Append(y, Hex(d[k]))
  <2>1. x = Append(y, x[Len(x)])
    BY <1>3, <1>4, <1>5, OneMore
  <2> QED  BY <1>4, <1>5, <2>1
<1>7. Hex(d[k]) \in Seq(Chars)
  BY <1>2, <1>3
<1>8. FlattenSeq(x) = FlattenSeq(y) \o Hex(d[k])
  BY <1>5, <1>6, <1>7, FlattenAppend
<1>9. FlattenSeq(y) \in Seq(Chars)
  BY <1>5, FlattenSeqType
<1> QED
  BY <1>7, <1>8, <1>9 DEF x, y, DataText

BytesFrom(a, d, k) == [i \in 1 .. k |-> <<Word(a + i - 1), d[i]>>]

LEMMA BytesMore ==
  ASSUME NEW a \in Nat, NEW d \in Seq(ByteValues), NEW k \in 1 .. Len(d)
  PROVE  /\ BytesFrom(a, d, k) = Append(BytesFrom(a, d, k - 1), <<Word(a + k - 1), d[k]>>)
         /\ BytesFrom(a, d, k - 1) \in Seq(Nat \X ByteValues)
         /\ <<Word(a + k - 1), d[k]>> \in Nat \X ByteValues
<1> DEFINE x == BytesFrom(a, d, k)
           y == BytesFrom(a, d, k - 1)
<1>1. \A i \in 1 .. k : <<Word(a + i - 1), d[i]>> \in Nat \X ByteValues
  <2>1. ASSUME NEW i \in 1 .. k PROVE Word(a + i - 1) \in Nat
    <3>1. a + i - 1 \in Nat
      OBVIOUS
    <3> QED  BY <3>1, NextWord
  <2>2. \A i \in 1 .. k : d[i] \in ByteValues
    OBVIOUS
  <2> QED  BY <2>1, <2>2
<1>2. k \in Nat /\ k - 1 \in Nat /\ k \in 1 .. k /\ (k - 1) + 1 = k
  OBVIOUS
<1>3. x \in [1 .. k -> Nat \X ByteValues] /\ y \in [1 .. k - 1 -> Nat \X ByteValues]
      /\ x[k] = <<Word(a + k - 1), d[k]>> /\ \A i \in 1 .. k - 1 : y[i] = x[i]
  BY <1>1 DEF BytesFrom
<1> HIDE DEF x, y
<1>4. /\ x \in Seq(Nat \X ByteValues) /\ Len(x) = k
      /\ y \in Seq(Nat \X ByteValues) /\ Len(y) = k - 1
  BY <1>2, <1>3, FunctionIsSeq
<1>5. x = Append(y, x[Len(x)])
  BY <1>2, <1>3, <1>4, OneMore
<1>6. x[Len(x)] = <<Word(a + k - 1), d[k]>> /\ <<Word(a + k - 1), d[k]>> \in Nat \X ByteValues
  BY <1>1, <1>2, <1>3, <1>4
<1> QED
  BY <1>4, <1>5, <1>6, Zenon DEF x, y

(* The data of a line: it goes where the line says. *)
DataRead(p, d, sum, q) ==
  /\ q \in Readers /\ q.status = 1 /\ q.rbuf = <<>> /\ q.state = "SUM"
  /\ q.sum = sum /\ q.writes = p.writes \o BytesFrom(p.address, d, Len(d))

LEMMA DataFed ==
  ASSUME NEW p \in Readers, p.status = 1, p.rbuf = <<>>, p.state = "DATA",
         IsWord(p.address),
         NEW d \in Seq(ByteValues), p.length = Len(d), Len(d) # 0,
         NEW s, s[0] = p.sum, \A i \in 1 .. Len(d) : s[i] = s[i - 1] + d[i]
  PROVE  DataRead(p, d, s[Len(d)], Feed(p, DataText(d, Len(d))))
<1> DEFINE n == Len(d)
           ws(k) == BytesFrom(p.address, d, k)
           Reads(q, k) ==
             /\ q \in Readers /\ q.status = 1 /\ q.rbuf = <<>>
             /\ q.state = IF k = n THEN "SUM" ELSE "DATA"
             /\ q.length = n - k /\ q.address = Word(p.address + k) /\ q.sum = s[k]
             /\ q.writes = p.writes \o ws(k)
           Good == {k \in 0 .. n : Reads(Feed(p, DataText(d, k)), k)}
<1>1. n \in Nat /\ n # 0 /\ p.address \in Nat /\ p.writes \in Seq(Nat \X ByteValues)
  BY DEF Readers
<1>2. 0 \in Good
  <2>1. DataText(d, 0) = <<>>
    <3>1. [i \in 1 .. 0 |-> Hex(d[i])] = <<>>
      OBVIOUS
    <3> QED  BY <3>1 DEF DataText, FlattenSeq
  <2>2. Feed(p, DataText(d, 0)) = p
    BY <2>1, FeedNone
  <2>3. p.writes \o ws(0) = p.writes
    <3>1. ws(0) = <<>>
      BY DEF BytesFrom
    <3> HIDE DEF ws
    <3> QED  BY <1>1, <3>1
  <2> HIDE DEF n, ws
  <2>4. Reads(p, 0)
    <3>1. Word(p.address + 0) = p.address
      <4>1. p.address + 0 = p.address
        BY <1>1
      <4> QED  BY <1>1, <4>1, NextWord DEF IsWord
    <3> QED  BY <1>1, <2>3, <3>1 DEF n, Readers
  <2> QED  BY <1>1, <2>2, <2>4
<1>3. ASSUME NEW k \in 1 .. n, k - 1 \in Good PROVE k \in Good
  <2> DEFINE q == Feed(p, DataText(d, k - 1))
             t == Feed(p, DataText(d, k))
  <2>1. Reads(q, k - 1) /\ k \in 0 .. n /\ k - 1 # n
    <3>1. k \in 0 .. n /\ k - 1 # n
      BY <1>1
    <3> HIDE DEF Reads
    <3> QED  BY <1>3, <3>1
  <2>2. t = Feed(q, Hex(d[k]))
    <3>1. /\ DataText(d, k) = DataText(d, k - 1) \o Hex(d[k])
          /\ DataText(d, k - 1) \in Seq(Chars) /\ Hex(d[k]) \in Seq(Chars)
      BY DataTexts
    <3> QED  BY <3>1, FeedAppend
  <2>3. d[k] \in ByteValues /\ "DATA" \in Counting \ {"ADDRESS"}
    BY DEF Counting
  <2> HIDE DEF q, t, ws, n, Reads
  <2>4. q.state = "DATA" /\ q \in Readers /\ q.status = 1 /\ q.rbuf = <<>>
    BY <2>1 DEF Reads
  <2>5. PICK r \in Readers :
          /\ r.status = 1 /\ r.state = "DATA" /\ r.length = q.length
          /\ r.address = q.address /\ r.sum = q.sum /\ r.writes = q.writes
          /\ t = Field_ix(r, d[k])
    <3>1. q.state \in Counting \ {"ADDRESS"}
      BY <2>3, <2>4
    <3>2. \E r \in Readers :
            /\ r.status = 1 /\ r.state = q.state /\ r.length = q.length
            /\ r.address = q.address /\ r.sum = q.sum /\ r.writes = q.writes
            /\ Feed(q, Hex(d[k])) = Field_ix(r, d[k])
      BY <2>3, <2>4, <3>1, FieldFed
    <3> QED  BY <2>2, <2>4, <3>2
  <2>6. /\ t \in Readers /\ t.state = IF r.length = 1 THEN "SUM" ELSE "DATA"
        /\ t.rbuf = <<>> /\ t.length = r.length - 1 /\ t.address = Word(r.address + 1)
        /\ t.sum = r.sum + d[k] /\ t.status = 1
        /\ t.writes = Append(r.writes, <<r.address, d[k]>>)
    BY <2>3, <2>5, DataDone
  <2>7. /\ r.length = n - (k - 1) /\ r.address = Word(p.address + (k - 1)) /\ r.sum = s[k - 1]
        /\ r.writes = p.writes \o ws(k - 1)
    BY <2>1, <2>5 DEF Reads
  <2>8. /\ t.length = n - k /\ t.address = Word(p.address + k)
        /\ t.state = IF k = n THEN "SUM" ELSE "DATA"
    <3>1. k \in Nat /\ n - (k - 1) - 1 = n - k /\ (n - (k - 1) = 1 <=> k = n)
      BY <1>1
    <3>2. Word(Word(p.address + (k - 1)) + 1) = Word(p.address + k)
      <4>1. p.address + (k - 1) \in Nat /\ p.address + (k - 1) + 1 = p.address + k
        BY <1>1, <3>1
      <4> QED  BY <4>1, NextWord
    <3> QED  BY <2>6, <2>7, <3>1, <3>2
  <2>9. t.sum = s[k]
    BY <2>6, <2>7 DEF n
  <2>10. t.writes = p.writes \o ws(k)
    <3> DEFINE e == <<Word(p.address + k - 1), d[k]>>
    <3>1. r.address = Word(p.address + k - 1)
      <4>1. p.address + (k - 1) = p.address + k - 1
        BY <1>1
      <4> QED  BY <2>7, <4>1
    <3>2. /\ ws(k - 1) \in Seq(Nat \X ByteValues) /\ e \in Nat \X ByteValues
          /\ ws(k) = Append(ws(k - 1), e)
      BY <1>1, BytesMore DEF n, ws
    <3>3. <<r.address, d[k]>> = e
      BY <3>1
    <3> DEFINE u == p.writes
               v == ws(k - 1)
               W == Nat \X ByteValues
    <3>4. u \in Seq(W)
      BY DEF Readers
    <3>5. v \in Seq(W) /\ e \in W
      BY <3>2
    <3> HIDE DEF e, u, v, W
    <3>6. Append(u \o v, e) = u \o Append(v, e)
      <4> DEFINE a == u \o v
                 b == Append(v, e)
                 x == Append(a, e)
                 y == u \o b
      <4>1. Joined(a, u, v) /\ Extended(b, v, e) /\ Extended(x, a, e) /\ Joined(y, u, b)
        BY DEF Joined, Extended
      <4> HIDE DEF a, b, x, y
      <4>2. x = y
        BY <3>4, <3>5, <4>1, AppendLast
      <4> QED  BY <4>2 DEF a, b, x, y
    <3> QED  BY <2>6, <2>7, <3>2, <3>3, <3>6, Zenon DEF u, v
  <2>11. Reads(t, k)
    BY <2>6, <2>8, <2>9, <2>10 DEF Reads
  <2> QED  BY <2>1, <2>11 DEF t
<1>4. n \in Good
  <2> HIDE DEF Good
  <2>1. 0 .. n \subseteq Good
    BY <1>1, <1>2, <1>3, Induction
  <2> QED  BY <1>1, <2>1
<1>5. Reads(Feed(p, DataText(d, n)), n)
  BY <1>4
<1> QED
  BY <1>5 DEF DataRead

LEMMA Bounds ==
  Byte \in Nat \ {0, 1} /\ 0 \in ByteValues /\ 1 \in ByteValues /\ Byte - 1 \in ByteValues
<1>1. Byte \in Nat \ {0, 1}
  <2>1. Digit >= 2 /\ Digit \in Nat
    BY DigitAssumption
  <2>2. Digit * Digit >= 2 * Digit /\ Digit * Digit \in Nat
    <3>1. PICK k \in Nat : Digit = 2 + k
      <4>1. Digit - 2 \in Nat /\ Digit = 2 + (Digit - 2)
        BY <2>1
      <4> QED  BY <4>1
    <3>2. Digit * Digit = 2 * Digit + k * Digit /\ k * Digit \in Nat /\ Digit * Digit \in Nat
      BY <2>1, <3>1
    <3> QED  BY <2>1, <3>2
  <2> QED  BY <2>1, <2>2 DEF Byte
<1> HIDE DEF Byte
<1> QED
  BY <1>1 DEF ByteValues

(* A line, fed to a reader between two lines: its bytes are written, and the *)
(* reader goes on if the sum was right.                                     *)
LEMMA LineFed ==
  ASSUME NEW p \in Readers, p.status < 2, p.state = "HEAD", NEW r, HexRecord(r)
  PROVE  /\ Line(r) \in Seq(Chars)
         /\ Feed(p, Line(r)) \in Readers
         /\ Feed(p, Line(r)).writes = p.writes \o Bytes(r)
         /\ r.bad = 0 => Feed(p, Line(r)).state = "HEAD" /\ Feed(p, Line(r)).status < 2
         /\ r.bad # 0 => Feed(p, Line(r)).status = 2
<1> DEFINE n == Len(r.data)
           hi == r.address \div Byte
           lo == r.address % Byte
           sum == (r.bad + Byte - (Checksum(r) % Byte)) % Byte
           text == FlattenSeq([i \in DOMAIN r.data |-> Hex(r.data[i])])
           a0 == <<":">>
           a1 == a0 \o Hex(n)
           a2 == a1 \o Hex(hi)
           a3 == a2 \o Hex(lo)
           a4 == a3 \o Hex(0)
           a5 == a4 \o text
           a6 == a5 \o Hex(sum)
           q0 == Feed(p, a0)
           q1 == Feed(q0, Hex(n))
           q3 == Feed(Feed(q1, Hex(hi)), Hex(lo))
           q4 == Feed(q3, Hex(0))
           q5 == Feed(q4, text)
           q6 == Feed(q5, Hex(sum))
<1>1. Byte \in Nat \ {0, 1}
  BY Bounds
<1>2. /\ r.address \in Nat /\ r.address < Byte * Byte /\ r.bad \in ByteValues
      /\ r.data \in Seq(ByteValues) /\ n \in ByteValues /\ n # 0
  <2>1. Byte * Byte \in Nat
    BY <1>1
  <2> HIDE DEF Byte
  <2> QED  BY <1>1, <2>1 DEF HexRecord, ByteValues
<1>3. 0 \in ByteValues /\ ByteValues \subseteq Nat
  <2> HIDE DEF Byte
  <2> QED  BY <1>1 DEF ByteValues
<1>4. hi \in ByteValues /\ lo \in ByteValues /\ hi * Byte + lo = r.address
  <2> HIDE DEF Byte
  <2>0. \A b \in Nat \ {0} : \A x \in Nat :
          x \div b \in Nat /\ x % b \in 0 .. b - 1 /\ x = b * (x \div b) + (x % b)
    OBVIOUS
  <2>1. hi \in Nat /\ lo \in ByteValues /\ r.address = Byte * hi + lo
    <3>1. Byte \in Nat \ {0} /\ r.address \in Nat
      BY <1>1, <1>2
    <3>2. /\ r.address \div Byte \in Nat /\ r.address % Byte \in 0 .. Byte - 1
          /\ r.address = Byte * (r.address \div Byte) + (r.address % Byte)
      BY <2>0, <3>1, Zenon
    <3> QED  BY <3>2, Zenon DEF hi, lo, ByteValues
  <2> HIDE DEF hi, lo
  <2>2. lo \in Nat /\ Byte * hi = hi * Byte /\ hi * Byte \in Nat
    BY <1>1, <1>3, <2>1
  <2>3. hi < Byte
    <3> SUFFICES ASSUME ~(hi < Byte) PROVE FALSE
      OBVIOUS
    <3>1. PICK k \in Nat : hi = Byte + k
      <4>1. hi - Byte \in Nat /\ hi = Byte + (hi - Byte)
        BY <1>1, <2>1
      <4> QED  BY <4>1
    <3>2. Byte * hi = Byte * Byte + Byte * k /\ Byte * k \in Nat /\ Byte * Byte \in Nat
      BY <1>1, <3>1
    <3> QED  BY <1>2, <2>1, <2>2, <3>2
  <2> QED  BY <1>1, <2>1, <2>2, <2>3 DEF ByteValues
<1>5. PICK s : /\ s[0] = n + hi + lo /\ Checksum(r) = s[n]
               /\ \A i \in 1 .. n : s[i] = s[i - 1] + r.data[i]
  BY ChecksumRun
<1> HIDE DEF hi, lo
<1>6. /\ q0 \in Readers /\ q0.state = "NUMBER" /\ q0.rbuf = <<>> /\ q0.status = 1
      /\ q0.writes = p.writes
  BY HeadFed
<1> HIDE DEF q0
<1>7. /\ q1 \in Readers /\ q1.state = "ADDRESS" /\ q1.rbuf = <<>> /\ q1.length = n
      /\ q1.sum = n /\ q1.status = 1 /\ q1.writes = p.writes
  <2>1. q0.state \in Counting \ {"ADDRESS"}
    BY <1>6 DEF Counting
  <2>2. n \in Nat /\ \E x \in Readers :
          /\ x.status = 1 /\ x.state = q0.state /\ x.writes = q0.writes
          /\ q1 = Field_ix(x, n)
    <3> HIDE DEF n
    <3> QED  BY <1>2, <1>6, <2>1, FieldFed
  <2> HIDE DEF n, q1
  <2> QED  BY <1>6, <2>2, NumberDone
<1> HIDE DEF q1
<1>8. /\ q3 \in Readers /\ q3.state = "RECORD" /\ q3.rbuf = <<>> /\ q3.length = n
      /\ q3.address = r.address /\ q3.sum = n + hi + lo /\ q3.status = 1
      /\ q3.writes = p.writes
  <2>1. \E x \in Readers :
          /\ x.status = 1 /\ x.state = "ADDRESS" /\ x.length = q1.length /\ x.sum = q1.sum
          /\ x.writes = q1.writes /\ q3 = Field_ix(x, hi * Byte + lo)
    BY <1>4, <1>7, AddressFed
  <2> HIDE DEF n, q3
  <2>2. PICK x \in Readers :
          /\ x.status = 1 /\ x.state = "ADDRESS" /\ x.length = n /\ x.sum = n
          /\ x.writes = p.writes /\ q3 = Field_ix(x, r.address)
    BY <1>4, <1>7, <2>1
  <2> QED  BY <1>2, <2>2, AddressDone DEF hi, lo
<1> HIDE DEF q3
<1>9. /\ q4 \in Readers /\ q4.state = "DATA" /\ q4.rbuf = <<>> /\ q4.length = n
      /\ q4.address = r.address /\ q4.sum = n + hi + lo /\ q4.status = 1
      /\ q4.writes = p.writes
  <2>1. q3.state \in Counting \ {"ADDRESS"}
    BY <1>8 DEF Counting
  <2>2. PICK x \in Readers :
          /\ x.status = 1 /\ x.state = q3.state /\ x.length = q3.length
          /\ x.address = q3.address /\ x.sum = q3.sum /\ x.writes = q3.writes
          /\ q4 = Field_ix(x, 0)
    BY <1>3, <1>8, <2>1, FieldFed
  <2>3. n + hi + lo + 0 = n + hi + lo /\ x.state = "RECORD"
    BY <1>2, <1>3, <1>4, <1>8, <2>2
  <2> HIDE DEF n, q4
  <2>4. /\ q4 \in Readers /\ q4.state = "DATA" /\ q4.rbuf = <<>> /\ q4.length = x.length
        /\ q4.address = x.address /\ q4.sum = x.sum + 0 /\ q4.status = 1
        /\ q4.writes = x.writes
    BY <2>2, <2>3, RecordDone
  <2> QED  BY <1>8, <2>2, <2>3, <2>4
<1> HIDE DEF q4
<1>10. text = DataText(r.data, n) /\ text \in Seq(Chars)
  <2>1. DOMAIN r.data = 1 .. n
    BY <1>2
  <2>2. text = DataText(r.data, n)
    BY <2>1 DEF DataText
  <2>3. DataText(r.data, n) = DataText(r.data, n - 1) \o Hex(r.data[n])
        /\ DataText(r.data, n - 1) \in Seq(Chars) /\ Hex(r.data[n]) \in Seq(Chars)
    <3>1. n \in 1 .. n
      BY <1>2, <1>3
    <3> QED  BY <1>2, <3>1, DataTexts
  <2> HIDE DEF text
  <2> QED  BY <2>2, <2>3
<1>11. /\ q5 \in Readers /\ q5.status = 1 /\ q5.rbuf = <<>> /\ q5.state = "SUM"
       /\ q5.sum = Checksum(r) /\ q5.writes = p.writes \o Bytes(r)
  <2>1. s[0] = q4.sum /\ \A i \in 1 .. Len(r.data) : s[i] = s[i - 1] + r.data[i]
    BY <1>5, <1>9
  <2>2. q5 = Feed(q4, DataText(r.data, Len(r.data)))
    BY <1>10
  <2>3. /\ q5 \in Readers /\ q5.status = 1 /\ q5.rbuf = <<>> /\ q5.state = "SUM"
        /\ q5.sum = s[Len(r.data)]
        /\ q5.writes = q4.writes \o BytesFrom(q4.address, r.data, Len(r.data))
    <3> HIDE DEF q5
    <3>1. q4.length = Len(r.data) /\ Len(r.data) # 0 /\ r.data \in Seq(ByteValues)
      BY <1>2, <1>9
    <3>2. /\ q4 \in Readers /\ q4.status = 1 /\ q4.rbuf = <<>> /\ q4.state = "DATA"
          /\ IsWord(q4.address)
      BY <1>2, <1>9 DEF IsWord
    <3>3. DataRead(q4, r.data, s[Len(r.data)], Feed(q4, DataText(r.data, Len(r.data))))
      BY <2>1, <3>1, <3>2, DataFed, Zenon
    <3> QED  BY <2>2, <3>3, Zenon DEF DataRead
  <2>4. Bytes(r) = BytesFrom(r.address, r.data, Len(r.data))
    BY <1>2 DEF Bytes, BytesFrom
  <2> QED  BY <1>5, <1>9, <2>3, <2>4
<1> HIDE DEF q5, text
<1>12. sum \in ByteValues /\ Checksum(r) \in Nat
       /\ (Checksum(r) + sum) % Byte = r.bad
  <2>1. Checksum(r) \in Nat
    BY <1>11 DEF Readers
  <2>2. Byte \in Nat \ {0} /\ r.bad \in 0 .. Byte - 1
    BY <1>1, <1>2 DEF ByteValues
  <2> HIDE DEF Byte
  <2>3. (Checksum(r) + sum) % Byte = r.bad
    BY <2>1, <2>2, ModSum
  <2>4. r.bad + Byte - (Checksum(r) % Byte) \in Nat
    BY <2>1, <2>2
  <2>5. sum \in 0 .. Byte - 1
    BY <2>2, <2>4
  <2> QED  BY <2>1, <2>3, <2>5 DEF ByteValues
<1> HIDE DEF sum
<1>13. /\ q6 \in Readers /\ q6.writes = p.writes \o Bytes(r)
       /\ r.bad = 0 => q6.state = "HEAD" /\ q6.status = 1
       /\ r.bad # 0 => q6.status = 2
  <2>1. q5.state \in Counting \ {"ADDRESS"}
    BY <1>11 DEF Counting
  <2>2. sum \in Nat /\ \E x \in Readers :
          /\ x.status = 1 /\ x.state = q5.state /\ x.sum = q5.sum /\ x.writes = q5.writes
          /\ q6 = Field_ix(x, sum)
    BY <1>11, <1>12, <2>1, FieldFed
  <2>3. PICK x \in Readers :
          /\ x.status = 1 /\ x.state = "SUM" /\ x.sum = Checksum(r)
          /\ x.writes = p.writes \o Bytes(r) /\ q6 = Field_ix(x, sum)
    BY <1>11, <2>2
  <2> HIDE DEF q6, Byte
  <2>4. /\ q6 \in Readers /\ q6.writes = x.writes
        /\ (x.sum + sum) % Byte = 0 => q6.state = "HEAD" /\ q6.status = 1
        /\ (x.sum + sum) % Byte # 0 => q6.state = "DONE" /\ q6.status = 2
    BY <2>2, <2>3, SumDone
  <2> QED  BY <1>12, <2>3, <2>4
<1>14. /\ a0 \in Seq(Chars) /\ <<"nl">> \in Seq(Chars) /\ Hex(n) \in Seq(Chars)
       /\ Hex(hi) \in Seq(Chars) /\ Hex(lo) \in Seq(Chars) /\ Hex(0) \in Seq(Chars)
       /\ Hex(sum) \in Seq(Chars)
  <2>1. ":" \in Chars /\ "nl" \in Chars
    BY DEF Chars
  <2>2. a0 \in Seq(Chars) /\ <<"nl">> \in Seq(Chars)
    <3> HIDE DEF Chars
    <3> QED  BY <2>1
  <2> HIDE DEF n
  <2> QED  BY <1>2, <1>3, <1>4, <1>12, <2>2, HexText
<1>15. Line(r) = a6 \o <<"nl">>
  BY DEF Line, hi, lo, sum, text
<1> HIDE DEF q6, n
<1>16. /\ a1 \in Seq(Chars) /\ a2 \in Seq(Chars) /\ a3 \in Seq(Chars) /\ a4 \in Seq(Chars)
       /\ a5 \in Seq(Chars) /\ a6 \in Seq(Chars)
  <2>1. \A x, y : x \in Seq(Chars) /\ y \in Seq(Chars) => x \o y \in Seq(Chars)
    OBVIOUS
  <2> HIDE DEF a0
  <2> QED  BY <1>10, <1>14, <2>1, Zenon
<1>17. Feed(p, a6) = q6
  <2> HIDE DEF a0
  <2>1. Feed(p, a1) = q1
    BY <1>14, FeedAppend DEF q1, q0
  <2>2. Feed(p, a2) = Feed(q1, Hex(hi))
    <3> HIDE DEF a1
    <3> QED  BY <1>14, <1>16, <2>1, FeedAppend
  <2>3. Feed(p, a3) = q3
    <3> HIDE DEF a2
    <3> QED  BY <1>14, <1>16, <2>2, FeedAppend DEF q3
  <2>4. Feed(p, a4) = q4
    <3> HIDE DEF a3
    <3> QED  BY <1>14, <1>16, <2>3, FeedAppend DEF q4
  <2>5. Feed(p, a5) = q5
    <3> HIDE DEF a4
    <3> QED  BY <1>10, <1>14, <1>16, <2>4, FeedAppend DEF q5
  <2> HIDE DEF a5
  <2> QED  BY <1>14, <1>16, <2>5, FeedAppend DEF q6
<1> HIDE DEF a6
<1>18. Feed(p, Line(r)) = Feed(q6, <<"nl">>) /\ Line(r) \in Seq(Chars)
  <2> DEFINE b == <<"nl">>
  <2>1. a6 \in Seq(Chars) /\ b \in Seq(Chars) /\ Line(r) = a6 \o b
    BY <1>14, <1>15, <1>16
  <2> HIDE DEF b
  <2>2. Feed(p, a6 \o b) = Feed(Feed(p, a6), b) /\ a6 \o b \in Seq(Chars)
    BY <2>1, FeedAppend
  <2> QED  BY <1>17, <2>1, <2>2, Zenon DEF b
<1>19. CASE r.bad = 0
  <2>1. q6.status < 2 /\ q6.state = "HEAD" /\ q6 \in Readers
    BY <1>13, <1>19
  <2>2. /\ Feed(q6, <<"nl">>) \in Readers /\ Feed(q6, <<"nl">>).state = "HEAD"
        /\ Feed(q6, <<"nl">>).status = 1 /\ Feed(q6, <<"nl">>).writes = q6.writes
    BY <2>1, HeadFed
  <2> QED  BY <1>13, <1>18, <1>19, <2>2
<1>20. CASE r.bad # 0
  <2>1. q6.status >= 2 /\ Len(<<"nl">>) \in Nat
    BY <1>13, <1>20
  <2>2. Feed(q6, <<"nl">>) = q6
    BY <2>1, Refused
  <2> QED  BY <1>13, <1>18, <1>20, <2>2
<1> QED
  BY <1>19, <1>20

(* The line that ends a file, fed to a reader between two lines: nothing is *)
(* written, and the reader is done.                                         *)
LEMMA EndFed ==
  ASSUME NEW p \in Readers, p.status < 2, p.state = "HEAD"
  PROVE  /\ EndLine \in Seq(Chars)
         /\ Feed(p, EndLine).writes = p.writes /\ Feed(p, EndLine).status = 0
<1> DEFINE z == Hex(0)
           o == Hex(1)
           l == Hex(Byte - 1)
           a0 == <<":">>
           a1 == a0 \o z
           a2 == a1 \o z
           a3 == a2 \o z
           a4 == a3 \o o
           q0 == Feed(p, a0)
           q1 == Feed(q0, z)
           q3 == Feed(Feed(q1, z), z)
           q4 == Feed(q3, o)
           q5 == Feed(q4, l)
<1>1. /\ q0 \in Readers /\ q0.state = "NUMBER" /\ q0.rbuf = <<>> /\ q0.status = 1
      /\ q0.writes = p.writes
  BY HeadFed
<1> HIDE DEF q0
<1>2. /\ q1 \in Readers /\ q1.state = "ADDRESS" /\ q1.rbuf = <<>>
      /\ q1.status = 1 /\ q1.writes = p.writes
  <2>1. q0.state \in Counting \ {"ADDRESS"} /\ 0 \in ByteValues /\ 0 \in Nat
    BY <1>1, Bounds DEF Counting
  <2>2. PICK x \in Readers : /\ x.status = 1 /\ x.state = q0.state /\ x.writes = q0.writes
                             /\ q1 = Field_ix(x, 0)
    BY <1>1, <2>1, FieldFed
  <2> HIDE DEF q1
  <2> QED  BY <1>1, <2>1, <2>2, NumberDone
<1> HIDE DEF q1
<1>3. /\ q3 \in Readers /\ q3.state = "RECORD" /\ q3.rbuf = <<>>
      /\ q3.status = 1 /\ q3.writes = p.writes
  <2>1. \E x \in Readers :
          /\ x.status = 1 /\ x.state = "ADDRESS" /\ x.writes = q1.writes
          /\ q3 = Field_ix(x, 0 * Byte + 0) /\ 0 * Byte + 0 \in Nat
    BY <1>2, Bounds, AddressFed
  <2> HIDE DEF q3, Byte
  <2>2. PICK x \in Readers :
          /\ x.status = 1 /\ x.state = "ADDRESS" /\ x.writes = p.writes
          /\ q3 = Field_ix(x, 0 * Byte + 0) /\ 0 * Byte + 0 \in Nat
    BY <1>2, <2>1
  <2> QED  BY <2>2, AddressDone
<1> HIDE DEF q3
<1>4. /\ q4 \in Readers /\ q4.state = "END" /\ q4.rbuf = <<>>
      /\ q4.status = 1 /\ q4.writes = p.writes
  <2>1. q3.state \in Counting \ {"ADDRESS"} /\ 1 \in ByteValues /\ 1 \in Nat /\ 1 # 0
    BY <1>3, Bounds DEF Counting
  <2>2. PICK x \in Readers : /\ x.status = 1 /\ x.state = q3.state /\ x.writes = q3.writes
                             /\ q4 = Field_ix(x, 1)
    BY <1>3, <2>1, FieldFed
  <2> HIDE DEF q4
  <2> QED  BY <1>3, <2>1, <2>2, RecordDone
<1> HIDE DEF q4
<1>5. q5.status = 0 /\ q5.writes = p.writes
  <2>1. q4.state \in Counting \ {"ADDRESS"} /\ Byte - 1 \in ByteValues /\ Byte - 1 \in Nat
    BY <1>4, Bounds, FieldFed DEF Counting
  <2> HIDE DEF Byte
  <2>2. PICK x \in Readers : /\ x.status = 1 /\ x.state = q4.state /\ x.writes = q4.writes
                             /\ q5 = Field_ix(x, Byte - 1)
    BY <1>4, <2>1, FieldFed
  <2> HIDE DEF q5
  <2> QED  BY <1>4, <2>1, <2>2, EndDone
<1>6. a0 \in Seq(Chars) /\ z \in Seq(Chars) /\ o \in Seq(Chars) /\ l \in Seq(Chars)
  <2>1. ":" \in Chars
    BY DEF Chars
  <2>2. a0 \in Seq(Chars)
    <3> HIDE DEF Chars
    <3> QED  BY <2>1
  <2> HIDE DEF a0
  <2> QED  BY <2>2, Bounds, HexText
<1>7. EndLine = a4 \o l
  BY DEF EndLine
<1> HIDE DEF q5, z, o, l, a0
<1>8. /\ a1 \in Seq(Chars) /\ a2 \in Seq(Chars) /\ a3 \in Seq(Chars) /\ a4 \in Seq(Chars)
      /\ a4 \o l \in Seq(Chars)
  <2>1. \A x, y : x \in Seq(Chars) /\ y \in Seq(Chars) => x \o y \in Seq(Chars)
    OBVIOUS
  <2> QED  BY <1>6, <2>1, Zenon
<1>9. Feed(p, a4 \o l) = q5
  <2>1. Feed(p, a1) = q1
    BY <1>6, FeedAppend DEF q1, q0
  <2>2. Feed(p, a2) = Feed(q1, z)
    <3> HIDE DEF a1
    <3> QED  BY <1>6, <1>8, <2>1, FeedAppend
  <2>3. Feed(p, a3) = q3
    <3> HIDE DEF a2
    <3> QED  BY <1>6, <1>8, <2>2, FeedAppend DEF q3
  <2>4. Feed(p, a4) = q4
    <3> HIDE DEF a3
    <3> QED  BY <1>6, <1>8, <2>3, FeedAppend DEF q4
  <2> HIDE DEF a4
  <2> QED  BY <1>6, <1>8, <2>4, FeedAppend DEF q5
<1> QED
  BY <1>5, <1>7, <1>8, <1>9

\* What is joined from the first k of a sequence's parts.
LEMMA FlattenMore ==
  ASSUME NEW S, NEW f, NEW n \in Nat, \A i \in 1 .. n : f[i] \in Seq(S), NEW k \in 1 .. n
  PROVE  /\ FlattenSeq([i \in 1 .. k |-> f[i]])
              = FlattenSeq([i \in 1 .. k - 1 |-> f[i]]) \o f[k]
         /\ FlattenSeq([i \in 1 .. k - 1 |-> f[i]]) \in Seq(S) /\ f[k] \in Seq(S)
<1> DEFINE x == [i \in 1 .. k |-> f[i]]
           y == [i \in 1 .. k - 1 |-> f[i]]
           v == f[k]
<1>1. k \in Nat /\ k - 1 \in Nat /\ k \in 1 .. k /\ (k - 1) + 1 = k
  OBVIOUS
<1>2. x \in [1 .. k -> Seq(S)] /\ y \in [1 .. k - 1 -> Seq(S)]
      /\ x[k] = v /\ v \in Seq(S) /\ \A i \in 1 .. k - 1 : y[i] = x[i]
  OBVIOUS
<1> HIDE DEF x, y, v
<1>3. x \in Seq(Seq(S)) /\ Len(x) = k /\ y \in Seq(Seq(S)) /\ Len(y) = k - 1
  BY <1>1, <1>2, FunctionIsSeq
<1>4. x = Append(y, x[Len(x)])
  BY <1>1, <1>2, <1>3, OneMore
<1>5. x = Append(y, v)
  BY <1>2, <1>3, <1>4
<1>6. FlattenSeq(x) = FlattenSeq(y) \o v
  BY <1>2, <1>3, <1>5, FlattenAppend
<1>7. FlattenSeq(y) \in Seq(S)
  BY <1>3, FlattenSeqType
<1> QED
  BY <1>2, <1>6, <1>7, Zenon DEF x, y, v

LinesTo(rs, k) == FlattenSeq([i \in 1 .. k |-> Line(rs[i])])
BytesTo(rs, k) == FlattenSeq([i \in 1 .. k |-> Bytes(rs[i])])

LEMMA LineTyped ==
  ASSUME NEW r, HexRecord(r)
  PROVE  Line(r) \in Seq(Chars) /\ Bytes(r) \in Seq(Nat \X ByteValues)
<1>1. init_ix \in Readers /\ init_ix.status < 2 /\ init_ix.state = "HEAD"
  BY DEF init_ix, Readers
<1>2. Line(r) \in Seq(Chars)
  BY <1>1, LineFed
<1>3. Byte \in Nat
  BY Bounds
<1>4. r.address \in Nat /\ r.data \in Seq(ByteValues)
  <2>1. Byte * Byte \in Nat
    BY <1>3
  <2> HIDE DEF Byte
  <2> QED  BY <1>3, <2>1 DEF HexRecord, ByteValues
<1>5. \A i \in 1 .. Len(r.data) : <<Word(r.address + i - 1), r.data[i]>> \in Nat \X ByteValues
  <2>1. ASSUME NEW i \in 1 .. Len(r.data)
        PROVE  Word(r.address + i - 1) \in Nat
    <3>1. r.address + i - 1 \in Nat
      BY <1>4
    <3> QED  BY <3>1, NextWord
  <2>2. \A i \in 1 .. Len(r.data) : r.data[i] \in ByteValues
    BY <1>4
  <2> QED  BY <2>1, <2>2
<1>6. DOMAIN r.data = 1 .. Len(r.data) /\ Len(r.data) \in Nat
  BY <1>4
<1>7. Bytes(r) \in [1 .. Len(r.data) -> Nat \X ByteValues]
  <2> DEFINE e(i) == <<Word(r.address + i - 1), r.data[i]>>
  <2>1. Bytes(r) = [i \in 1 .. Len(r.data) |-> e(i)]
    BY <1>6 DEF Bytes
  <2>2. \A i \in 1 .. Len(r.data) : e(i) \in Nat \X ByteValues
    BY <1>5
  <2> HIDE DEF e
  <2> QED  BY <2>1, <2>2
<1> QED
  BY <1>2, <1>6, <1>7, FunctionIsSeq

\* A file's text and its bytes, record by record.
LEMMA FileMore ==
  ASSUME NEW rs, NEW n \in Nat, \A i \in 1 .. n : HexRecord(rs[i]), NEW k \in 1 .. n
  PROVE  /\ LinesTo(rs, k) = LinesTo(rs, k - 1) \o Line(rs[k])
         /\ LinesTo(rs, k - 1) \in Seq(Chars) /\ Line(rs[k]) \in Seq(Chars)
         /\ BytesTo(rs, k) = BytesTo(rs, k - 1) \o Bytes(rs[k])
<1> DEFINE l == [i \in 1 .. n |-> Line(rs[i])]
           b == [i \in 1 .. n |-> Bytes(rs[i])]
           W == Nat \X ByteValues
<1>1. \A i \in 1 .. n : Line(rs[i]) \in Seq(Chars) /\ Bytes(rs[i]) \in Seq(W)
  BY LineTyped
<1>2. \A i \in 1 .. n : l[i] \in Seq(Chars) /\ b[i] \in Seq(W)
  <2> HIDE DEF W
  <2> QED  BY <1>1
<1>3. \A j \in {k - 1, k} : /\ [i \in 1 .. j |-> l[i]] = [i \in 1 .. j |-> Line(rs[i])]
                            /\ [i \in 1 .. j |-> b[i]] = [i \in 1 .. j |-> Bytes(rs[i])]
  OBVIOUS
<1>4. l[k] = Line(rs[k]) /\ b[k] = Bytes(rs[k])
  OBVIOUS
<1> HIDE DEF l, b, W
<1>5. /\ FlattenSeq([i \in 1 .. k |-> l[i]])
           = FlattenSeq([i \in 1 .. k - 1 |-> l[i]]) \o l[k]
      /\ FlattenSeq([i \in 1 .. k - 1 |-> l[i]]) \in Seq(Chars) /\ l[k] \in Seq(Chars)
  BY <1>2, FlattenMore
<1>6. FlattenSeq([i \in 1 .. k |-> b[i]]) = FlattenSeq([i \in 1 .. k - 1 |-> b[i]]) \o b[k]
  BY <1>2, FlattenMore
<1> QED
  BY <1>3, <1>4, <1>5, <1>6 DEF LinesTo, BytesTo

LEMMA FileFed ==
  ASSUME NEW rs, NEW n \in Nat, \A i \in 1 .. n : HexRecord(rs[i]), NEW k \in 1 .. n, NEW p
  PROVE  Feed(p, LinesTo(rs, k)) = Feed(Feed(p, LinesTo(rs, k - 1)), Line(rs[k]))
<1> DEFINE a == LinesTo(rs, k - 1)
           b == Line(rs[k])
<1>1. LinesTo(rs, k) = a \o b /\ a \in Seq(Chars) /\ b \in Seq(Chars)
  BY FileMore
<1> HIDE DEF a, b
<1>2. Feed(p, a \o b) = Feed(Feed(p, a), b)
  BY <1>1, FeedAppend
<1> QED
  BY <1>1, <1>2, Zenon DEF a, b

LEMMA FileNone ==
  ASSUME NEW rs
  PROVE  LinesTo(rs, 0) = <<>> /\ BytesTo(rs, 0) = <<>>
<1>1. \A f \in [1 .. 0 -> STRING] : f = <<>> /\ Len(f) = 0
  OBVIOUS
<1>2. FlattenSeq(<<>>) = <<>>
  BY DEF FlattenSeq
<1>3. [i \in 1 .. 0 |-> Line(rs[i])] = <<>> /\ [i \in 1 .. 0 |-> Bytes(rs[i])] = <<>>
  OBVIOUS
<1> QED
  BY <1>2, <1>3 DEF LinesTo, BytesTo

\* As long as every record's sum is right, the reader goes on.
LEMMA PrefixFed ==
  ASSUME NEW rs, NEW n \in Nat, \A i \in 1 .. n : HexRecord(rs[i]),
         \A i \in 1 .. n : rs[i].bad = 0
  PROVE  LET q == Feed(init_ix, LinesTo(rs, n))
         IN  /\ q \in Readers /\ q.status < 2 /\ q.state = "HEAD"
             /\ q.writes = BytesTo(rs, n)
<1> DEFINE q(k) == Feed(init_ix, LinesTo(rs, k))
           Fits(k) == /\ q(k) \in Readers /\ q(k).status < 2 /\ q(k).state = "HEAD"
                      /\ q(k).writes = BytesTo(rs, k)
           Good == {k \in 0 .. n : Fits(k)}
<1>1. Fits(0)
  <2>1. Feed(init_ix, <<>>) = init_ix
    BY FeedNone
  <2>2. /\ init_ix \in Readers /\ init_ix.status < 2 /\ init_ix.state = "HEAD"
        /\ init_ix.writes = <<>>
    BY DEF init_ix, Readers
  <2> QED  BY <2>1, <2>2, FileNone
<1>2. ASSUME NEW k \in 1 .. n, Fits(k - 1)
      PROVE  Fits(k)
  <2> DEFINE u == q(k - 1)
  <2>1. q(k) = Feed(u, Line(rs[k]))
    BY FileFed
  <2>2. u \in Readers /\ u.status < 2 /\ u.state = "HEAD" /\ u.writes = BytesTo(rs, k - 1)
    BY <1>2
  <2>3. HexRecord(rs[k]) /\ rs[k].bad = 0
    OBVIOUS
  <2>4. BytesTo(rs, k) = BytesTo(rs, k - 1) \o Bytes(rs[k])
    BY FileMore
  <2> HIDE DEF u, q
  <2>5. /\ Feed(u, Line(rs[k])) \in Readers
        /\ Feed(u, Line(rs[k])).writes = u.writes \o Bytes(rs[k])
        /\ Feed(u, Line(rs[k])).state = "HEAD" /\ Feed(u, Line(rs[k])).status < 2
    BY <2>2, <2>3, LineFed
  <2> QED  BY <2>1, <2>2, <2>4, <2>5
<1> HIDE DEF Fits
<1>3. 0 .. n \subseteq Good
  <2>1. 0 \in Good
    BY <1>1
  <2>2. \A j \in 1 .. n : j - 1 \in Good => j \in Good
    BY <1>2
  <2> HIDE DEF Good
  <2> QED  BY <2>1, <2>2, Induction
<1>4. Fits(n)
  BY <1>3
<1> QED
  BY <1>4 DEF Fits

\* A reader that refused a character takes nothing more.
LEMMA RefusedOn ==
  ASSUME NEW rs, NEW n \in Nat, \A i \in 1 .. n : HexRecord(rs[i]), NEW j \in 1 .. n,
         Feed(init_ix, LinesTo(rs, j)).status >= 2
  PROVE  Feed(init_ix, LinesTo(rs, n)) = Feed(init_ix, LinesTo(rs, j))
<1> DEFINE q(k) == Feed(init_ix, LinesTo(rs, k))
           Good == {m \in 0 .. n - j : q(j + m) = q(j)}
<1>1. j \in Nat /\ n - j \in Nat /\ j + 0 = j /\ j + (n - j) = n
  OBVIOUS
<1>2. 0 \in Good
  BY <1>1
<1>3. ASSUME NEW m \in 1 .. n - j, q(j + (m - 1)) = q(j)
      PROVE  q(j + m) = q(j)
  <2> DEFINE k == j + m
  <2>1. k \in 1 .. n /\ k - 1 = j + (m - 1)
    BY <1>1
  <2> HIDE DEF k
  <2>2. q(k) = Feed(q(k - 1), Line(rs[k]))
    BY <2>1, FileFed
  <2>3. Len(Line(rs[k])) \in Nat
    BY <2>1, FileMore
  <2>4. q(k - 1) = q(j) /\ q(j).status >= 2
    BY <1>3, <2>1
  <2> HIDE DEF q
  <2>5. Feed(q(k - 1), Line(rs[k])) = q(k - 1)
    BY <2>3, <2>4, Refused
  <2> QED  BY <2>2, <2>4, <2>5 DEF k
<1>4. \A m \in 1 .. n - j : m - 1 \in Good => m \in Good
  BY <1>1, <1>3
<1> HIDE DEF q
<1>5. 0 .. n - j \subseteq Good
  <2> HIDE DEF Good
  <2> QED  BY <1>1, <1>2, <1>4, Induction
<1>6. n - j \in Good
  BY <1>1, <1>5
<1> QED
  BY <1>1, <1>6 DEF q

\* The first record whose sum is wrong, 0 when there is none.
LEMMA FirstBadFound ==
  ASSUME NEW S, NEW rs \in Seq(S), \A i \in 1 .. Len(rs) : rs[i].bad \in Nat
  PROVE  \/ FirstBad(rs) = 0 /\ \A i \in 1 .. Len(rs) : rs[i].bad = 0
         \/ /\ FirstBad(rs) \in 1 .. Len(rs) /\ FirstBad(rs) # 0
            /\ rs[FirstBad(rs)].bad # 0
            /\ \A i \in 1 .. FirstBad(rs) - 1 : rs[i].bad = 0
<1> DEFINE I == {i \in 1 .. Len(rs) : rs[i].bad # 0}
<1>1. FirstBad(rs) = IF I # {} THEN Min(I) ELSE 0
  BY DEF FirstBad, SelectInSeq
<1>2. CASE I = {}
  BY <1>1, <1>2
<1>3. CASE I # {}
  <2>1. I \in SUBSET Nat
    OBVIOUS
  <2>2. \E m \in I : \A k \in I : m <= k
    <3> HIDE DEF I
    <3> QED  BY <1>3, <2>1, LeastElement
  <2>3. Min(I) \in I /\ \A k \in I : Min(I) <= k
    <3> HIDE DEF I
    <3> QED  BY <2>2 DEF Min
  <2> DEFINE m == Min(I)
  <2>4. m \in 1 .. Len(rs) /\ rs[m].bad # 0 /\ m # 0
    BY <2>3
  <2>5. \A i \in 1 .. m - 1 : i \in 1 .. Len(rs) /\ ~(m <= i)
    <3> HIDE DEF m
    <3> QED  BY <2>4
  <2>6. \A i \in 1 .. m - 1 : rs[i].bad = 0
    BY <2>3, <2>5
  <2> HIDE DEF m
  <2>7. FirstBad(rs) = m
    BY <1>1, <1>3 DEF m
  <2> QED  BY <2>4, <2>6, <2>7
<1> QED
  BY <1>2, <1>3

(* A HEX file of any records is loaded as it was written: every byte of its *)
(* records at the address the file gives it, in order, up to the first      *)
(* record whose sum is wrong, that one included, which ends the load with    *)
(* the checksum error (intelhex.c:73-131, copy_ihx_xmem).                   *)
THEOREM FilesLoad ==
  ASSUME NEW S, \A r \in S : HexRecord(r), NEW rs \in Seq(S)
  PROVE  LoadsAsWritten(rs)
<1> DEFINE n == Len(rs)
           f == FirstBad(rs)
           last == IF f = 0 THEN n ELSE f
           t == LinesTo(rs, n)
           q == Feed(init_ix, t)
           p == copy_ihx_xmem(Text(rs))
<1>1. n \in Nat /\ DOMAIN rs = 1 .. n /\ \A i \in 1 .. n : rs[i] \in S
  OBVIOUS
<1>2. \A i \in 1 .. n : HexRecord(rs[i])
  <2> HIDE DEF n
  <2> QED  BY <1>1
<1>3. \A i \in 1 .. n : rs[i].bad \in Nat
  <2>1. Byte \in Nat
    BY Bounds
  <2> HIDE DEF Byte, n
  <2> QED  BY <1>2, <2>1 DEF HexRecord
<1>4. /\ EndLine \in Seq(Chars)
      /\ q \in Readers /\ q.status < 2 /\ q.state = "HEAD" =>
           Feed(q, EndLine).writes = q.writes /\ Feed(q, EndLine).status = 0
  <2>1. init_ix \in Readers /\ init_ix.status < 2 /\ init_ix.state = "HEAD"
    BY DEF init_ix, Readers
  <2> HIDE DEF q
  <2> QED  BY <2>1, EndFed
<1>5. t \in Seq(Chars)
  <2>1. CASE n = 0
    <3>1. t = <<>> /\ <<>> \in Seq(Chars)
      BY <2>1, FileNone
    <3> QED  BY <3>1
  <2>2. CASE n # 0
    <3>1. n \in 1 .. n
      BY <1>1, <2>2
    <3> DEFINE a == LinesTo(rs, n - 1)
               b == Line(rs[n])
    <3>2. t = a \o b /\ a \in Seq(Chars) /\ b \in Seq(Chars)
      <4> HIDE DEF n
      <4> QED  BY <1>1, <1>2, <3>1, FileMore
    <3> HIDE DEF a, b, t
    <3> QED  BY <3>2
  <2> QED  BY <2>1, <2>2
<1>6. p = Feed(q, EndLine)
  <2>1. Text(rs) = t \o EndLine
    BY <1>1 DEF Text, LinesTo
  <2> HIDE DEF t
  <2>2. Feed(init_ix, t \o EndLine) = Feed(Feed(init_ix, t), EndLine)
    BY <1>4, <1>5, FeedAppend
  <2> QED  BY <2>1, <2>2 DEF copy_ihx_xmem
<1>7. LoadsAsWritten(rs) <=> /\ p.writes = BytesTo(rs, last)
                             /\ p.status = IF f = 0 THEN 0 ELSE 2
  BY DEF LoadsAsWritten, BytesTo
<1>8. CASE f = 0
  <2>1. \A i \in 1 .. n : rs[i].bad = 0
    BY <1>3, <1>8, FirstBadFound
  <2>2. q \in Readers /\ q.status < 2 /\ q.state = "HEAD" /\ q.writes = BytesTo(rs, n)
    <3> HIDE DEF n
    <3> QED  BY <1>1, <1>2, <2>1, PrefixFed
  <2> HIDE DEF q, p, f, n
  <2> QED  BY <1>4, <1>6, <1>7, <1>8, <2>2
<1>9. CASE f # 0
  <2>1. f \in 1 .. n /\ rs[f].bad # 0 /\ \A i \in 1 .. f - 1 : rs[i].bad = 0
    BY <1>3, <1>9, FirstBadFound
  <2> DEFINE u == Feed(init_ix, LinesTo(rs, f - 1))
             v == Feed(init_ix, LinesTo(rs, f))
  <2>2. f - 1 \in Nat /\ \A i \in 1 .. f - 1 : i \in 1 .. n
    <3> HIDE DEF f, n
    <3> QED  BY <1>1, <2>1
  <2>3. u \in Readers /\ u.status < 2 /\ u.state = "HEAD" /\ u.writes = BytesTo(rs, f - 1)
    <3> HIDE DEF n, f
    <3>1. \A i \in 1 .. f - 1 : HexRecord(rs[i])
      BY <1>2, <2>2
    <3> QED  BY <2>1, <2>2, <3>1, PrefixFed
  <2>4. v = Feed(u, Line(rs[f])) /\ BytesTo(rs, f) = BytesTo(rs, f - 1) \o Bytes(rs[f])
    <3> HIDE DEF n, f
    <3> QED  BY <1>1, <1>2, <2>1, FileFed, FileMore
  <2> HIDE DEF u, v
  <2>5. v.status = 2 /\ v.writes = BytesTo(rs, f)
    <3> HIDE DEF n, f
    <3>1. HexRecord(rs[f])
      BY <1>2, <2>1
    <3>2. Feed(u, Line(rs[f])).status = 2
          /\ Feed(u, Line(rs[f])).writes = u.writes \o Bytes(rs[f])
      BY <2>1, <2>3, <3>1, LineFed
    <3> QED  BY <2>3, <2>4, <3>2
  <2>6. q = v
    <3> HIDE DEF n, f
    <3>1. Feed(init_ix, LinesTo(rs, f)).status >= 2
      BY <2>5 DEF v
    <3> QED  BY <1>1, <1>2, <2>1, <3>1, RefusedOn DEF v
  <2>7. p = v
    <3>1. Len(EndLine) \in Nat
      BY <1>4
    <3> HIDE DEF q, p
    <3>2. v.status >= 2
      BY <2>5
    <3>3. Feed(v, EndLine) = v
      BY <3>1, <3>2, Refused
    <3> QED  BY <1>6, <2>6, <3>3
  <2> HIDE DEF p, f, n
  <2> QED  BY <1>7, <1>9, <2>5, <2>7
<1> QED
  BY <1>8, <1>9
-----------------------------------------------------------------------------
(* The calls of a command that was typed: where xload's bytes go is what    *)
(* the file says, and only the check of Safe keeps it inside memory.        *)
RawCalls == DataCalls \cup {WriteByte(a, d) : a \in Nat, d \in ByteValues}

LEMMA FlattenOne ==
  ASSUME NEW S, NEW s \in Seq(S), NEW ss, ss = <<s>>
  PROVE  FlattenSeq(ss) = s
<1>1. ss \in Seq(Seq(S)) /\ Len(ss) = 1 /\ ss[1] = s
  OBVIOUS
<1>2. PICK f : FlattenSeq(ss) = f[Len(ss)] /\ f[1] = ss[1]
  <2> HIDE DEF FlattenSeq
  <2>1. Len(ss) # 0
    BY <1>1
  <2> QED  BY <1>1, <2>1, FlattenRun
<1> QED
  BY <1>1, <1>2

LEMMA RecordLoads ==
  ASSUME NEW r, HexRecord(r)
  PROVE  copy_ihx_xmem(Text(<<r>>)).writes = Bytes(r)
<1> DEFINE rs == <<r>>
           last == IF FirstBad(rs) = 0 THEN Len(rs) ELSE FirstBad(rs)
           ss == [k \in 1 .. last |-> Bytes(rs[k])]
<1>1. rs \in Seq({r}) /\ Len(rs) = 1 /\ rs[1] = r
  OBVIOUS
<1> HIDE DEF rs
<1>2. LoadsAsWritten(rs)
  BY <1>1, FilesLoad
<1>3. r.bad \in Nat
  <2>1. Byte \in Nat
    BY Bounds
  <2> HIDE DEF Byte
  <2> QED  BY <2>1 DEF HexRecord
<1>4. \A i \in 1 .. Len(rs) : rs[i].bad \in Nat
  BY <1>1, <1>3
<1>5. last = 1
  <2> DEFINE f == FirstBad(rs)
  <2>1. f = 0 \/ f \in 1 .. Len(rs)
    BY <1>1, <1>4, FirstBadFound
  <2> HIDE DEF f
  <2>2. (IF f = 0 THEN Len(rs) ELSE f) = 1
    BY <1>1, <2>1
  <2> QED  BY <2>2 DEF f
<1>6. ss = <<Bytes(r)>>
  <2> HIDE DEF last
  <2>1. \A k \in 1 .. 1 : rs[k] = r
    BY <1>1
  <2> QED  BY <1>5, <2>1
<1>7. copy_ihx_xmem(Text(rs)).writes = FlattenSeq(ss)
  BY <1>2 DEF LoadsAsWritten
<1>8. Bytes(r) \in Seq(Nat \X ByteValues)
  BY LineTyped
<1> HIDE DEF ss
<1>9. FlattenSeq(ss) = Bytes(r)
  BY <1>6, <1>8, FlattenOne
<1> QED
  BY <1>7, <1>9 DEF rs

LEMMA HexCalls ==
  ASSUME NEW r, HexRecord(r)
  PROVE  LoadHex(r) \in Seq(RawCalls)
<1> DEFINE writes == copy_ihx_xmem(Text(<<r>>)).writes
           b == Bytes(r)
           n == Len(b)
<1>1. writes = b /\ b \in Seq(Nat \X ByteValues)
  BY RecordLoads, LineTyped
<1>2. LoadHex(r) = [i \in DOMAIN writes |->
         [WriteByte(writes[i][1], writes[i][2]) EXCEPT !.at = b[i][1], !.ref = <<b[i][2]>>]]
  BY DEF LoadHex
<1> HIDE DEF writes, b
<1>3. ASSUME NEW a \in Nat, NEW d \in ByteValues
      PROVE  /\ [WriteByte(a, d) EXCEPT !.at = a, !.ref = <<d>>] = WriteByte(a, d)
             /\ WriteByte(a, d) \in RawCalls
  <2>1. [WriteByte(a, d) EXCEPT !.at = a, !.ref = <<d>>] = WriteByte(a, d)
    <3> DEFINE b1 == <<d>>
               ps == byte_at(a)
               x == [op |-> "write", ps |-> ps, bytes |-> b1, at |-> a, ref |-> b1]
    <3>1. WriteByte(a, d) = x
      BY DEF WriteByte, Call
    <3> HIDE DEF b1, ps
    <3>2. [x EXCEPT !.at = a] = x
      OBVIOUS
    <3>3. [x EXCEPT !.ref = b1] = x
      OBVIOUS
    <3> HIDE DEF x
    <3>4. [[x EXCEPT !.at = a] EXCEPT !.ref = b1] = x
      BY <3>2, <3>3, Zenon
    <3> QED  BY <3>1, <3>4, Zenon DEF b1
  <2>2. WriteByte(a, d) \in RawCalls
    BY <1>3 DEF RawCalls
  <2> QED  BY <2>1, <2>2
<1>4. n \in Nat /\ DOMAIN writes = 1 .. n /\ \A i \in 1 .. n : b[i][1] \in Nat /\ b[i][2] \in ByteValues
  BY <1>1
<1> HIDE DEF n
<1>5. LoadHex(r) \in [1 .. n -> RawCalls]
  <2> DEFINE e(i) == [WriteByte(b[i][1], b[i][2]) EXCEPT !.at = b[i][1], !.ref = <<b[i][2]>>]
  <2>1. LoadHex(r) = [i \in 1 .. n |-> e(i)]
    BY <1>1, <1>2, <1>4
  <2>2. \A i \in 1 .. n : e(i) \in RawCalls
    BY <1>3, <1>4
  <2> HIDE DEF e
  <2> QED  BY <2>1, <2>2
<1> QED
  BY <1>4, <1>5, FunctionIsSeq

LEMMA CallsOfData ==
  ASSUME NEW op, DataOp(op), NEW packet \in Packets, NEW r \in Files
  PROVE  CallsOf(op, packet, r) \in Seq(RawCalls)
<1>1. CASE op.op = "read" /\ op.at \in Memory
  <2>1. CallsOf(op, packet, r) = <<Read(op.at)>> /\ Read(op.at) \in RawCalls
    BY <1>1 DEF CallsOf, RawCalls, DataCalls
  <2> QED  BY <2>1
<1>2. CASE op.op = "receive_bin" /\ op.at \in Memory
  <2>1. CallsOf(op, packet, r) = <<Write(op.at, packet)>> /\ Write(op.at, packet) \in RawCalls
    BY <1>2 DEF CallsOf, RawCalls, DataCalls
  <2> QED  BY <2>1
<1>3. CASE op.op = "write" /\ op.at \in Memory /\ op.val \in ByteValues
  <2>1. CallsOf(op, packet, r) = <<WriteByte(op.at, op.val)>>
        /\ WriteByte(op.at, op.val) \in RawCalls
    BY <1>3 DEF CallsOf, RawCalls, DataCalls
  <2> QED  BY <2>1
<1>4. CASE op.op = "receive_ihx"
  <2>1. CallsOf(op, packet, r) = LoadHex(r)
    BY <1>4 DEF CallsOf
  <2> QED  BY <2>1, BytesAssumption, HexCalls
<1> QED
  BY <1>1, <1>2, <1>3, <1>4 DEF DataOp

LEMMA CallsOfBreak ==
  ASSUME NEW op, BreakOp(op), bp_adr \in Memory, NEW packet, NEW r
  PROVE  CallsOf(op, packet, r) \in Seq(BreakCalls)
<1>1. CASE op.op = "add" /\ op.at \in Memory
  <2>1. CallsOf(op, packet, r) = <<Add(op.at)>> /\ Add(op.at) \in BreakCalls
    BY <1>1 DEF CallsOf, BreakCalls
  <2> QED  BY <2>1
<1>2. CASE op.op = "delete" /\ op.at \in Memory
  <2>1. CallsOf(op, packet, r) = <<Delete(op.at)>> /\ Delete(op.at) \in BreakCalls
    BY <1>2 DEF CallsOf, BreakCalls
  <2> QED  BY <2>1
<1>3. CASE op.op = "continue"
  <2>1. /\ CallsOf(op, packet, r) = <<Delete(bp_adr), Add(bp_adr)>>
        /\ Delete(bp_adr) \in BreakCalls /\ Add(bp_adr) \in BreakCalls
    BY <1>3 DEF CallsOf, BreakCalls
  <2> QED  BY <2>1
<1>4. CASE op.op = "list"
  <2>1. CallsOf(op, packet, r) = <<>>
    BY <1>4 DEF CallsOf
  <2> QED  BY <2>1
<1> QED
  BY <1>1, <1>2, <1>3, <1>4 DEF BreakOp

LEMMA OrderInv ==
  ASSUME IInv, MInv, Order
  PROVE  MInv'
<1>1. /\ MainIdle /\ UNCHANGED <<vars, mem, bp_table, bp_adr, dbginfo_state, buf, phase, prog, asked, lost>>
  BY Zenon DEF Order
<1>2. PICK t \in Lines, packet \in Packets, r \in Files :
        LET ops == exec_command(t, Statics0).calls
            calls == FlattenSeq([i \in DOMAIN ops |-> CallsOf(ops[i], packet, r)])
        IN  (\A i \in DOMAIN calls : Safe(calls[i])) /\ job' = calls
  BY Zenon DEF Order, Statics0
<1> DEFINE ops == exec_command(t, Statics0).calls
           ss == [i \in DOMAIN ops |-> CallsOf(ops[i], packet, r)]
<1>3. OneKind(ops)
  BY CommandOps
<1>4. (\A i \in DOMAIN job' : Safe(job'[i])) /\ job' = FlattenSeq(ss)
  BY <1>2, Zenon
<1> HIDE DEF ops
<1>5. PICK n \in Nat : /\ DOMAIN ops = 1 .. n
                       /\ (\A i \in 1 .. n : DataOp(ops[i])) \/ (\A i \in 1 .. n : BreakOp(ops[i]))
  BY <1>3 DEF OneKind
<1>6. bp_adr \in Memory
  BY DEF MInv, MTypes
<1>7. job' \in Seq(DataCalls) \cup Seq(BreakCalls)
  <2>1. CASE \A i \in 1 .. n : DataOp(ops[i])
    <3>1. \A i \in 1 .. n : CallsOf(ops[i], packet, r) \in Seq(RawCalls)
      BY <2>1, CallsOfData
    <3>2. ss \in [1 .. n -> Seq(RawCalls)]
      BY <1>5, <3>1
    <3> HIDE DEF ss
    <3>3. ss \in Seq(Seq(RawCalls))
      BY <3>2, FunctionIsSeq
    <3>4. job' \in Seq(RawCalls)
      BY <1>4, <3>3, FlattenSeqType
    <3>5. ASSUME NEW c \in RawCalls, Safe(c) PROVE c \in DataCalls
      <4>1. ASSUME NEW a \in Nat, NEW d \in ByteValues, c = WriteByte(a, d)
            PROVE  c \in DataCalls
        <5>1. c.op = "write" /\ c.at = a /\ c.ref = <<d>>
          BY <4>1 DEF WriteByte, Call
        <5>2. a + 1 <= N
          BY <3>5, <5>1 DEF Safe
        <5>3. a \in Memory
          BY <5>2, MapAssumption DEF Memory
        <5> QED  BY <4>1, <5>3 DEF DataCalls
      <4> QED  BY <4>1 DEF RawCalls
    <3>6. Len(job') \in Nat /\ DOMAIN job' = 1 .. Len(job') /\ \A i \in 1 .. Len(job') : job'[i] \in RawCalls
      BY <3>4
    <3>7. \A i \in 1 .. Len(job') : job'[i] \in DataCalls
      BY <1>4, <3>5, <3>6
    <3>8. job' \in [1 .. Len(job') -> DataCalls]
      BY <3>4, <3>6, <3>7
    <3> QED  BY <3>6, <3>8, FunctionIsSeq
  <2>2. CASE \A i \in 1 .. n : BreakOp(ops[i])
    <3>1. \A i \in 1 .. n : CallsOf(ops[i], packet, r) \in Seq(BreakCalls)
      BY <1>6, <2>2, CallsOfBreak
    <3>2. ss \in [1 .. n -> Seq(BreakCalls)]
      BY <1>5, <3>1
    <3> HIDE DEF ss
    <3>3. ss \in Seq(Seq(BreakCalls))
      BY <3>2, FunctionIsSeq
    <3> QED  BY <1>4, <3>3, FlattenSeqType
  <2> QED  BY <1>5, <2>1, <2>2
<1>8. Jobs'
  <2>1. \A c : Safe(c)' <=> Safe(c)
    BY <1>1 DEF Safe
  <2> QED  BY <1>4, <1>7, <2>1 DEF Jobs
<1>9. ~InBus /\ ~InBus'
  BY <1>1 DEF InBus, BusPcs, MainIdle, At, vars
<1>10. InCalls' /\ MTypes' /\ Reporting'
  BY <1>1, <1>9 DEF InCalls, MInv, MTypes, Reporting
<1>11. \A a : Shown(a)' = Shown(a)
  BY <1>1 DEF Shown
<1>12. \A a : Now(a)' = Now(a)
  BY <1>9, <1>11 DEF Now
<1>13. \A op : ~Doing(op) /\ ~Doing(op)'
  BY <1>9 DEF Doing
<1>14. TableNow'
  BY <1>1, <1>13 DEF MInv, TableNow, Holding
<1>15. ASSUME ~lost' PROVE Exact'
  <2>1. MemoryNow /\ BufferNow /\ OpcodesNow
    BY <1>1, <1>15 DEF MInv, Exact
  <2>2. MemoryNow' /\ BufferNow'
    BY <1>1, <1>12, <1>13, <2>1 DEF MemoryNow, BufferNow
  <2>3. \A a : Hides(bp_table, a)' <=> Hides(bp_table, a)
    BY <1>1 DEF Hides
  <2>4. OpcodesNow'
    BY <1>1, <1>13, <2>1, <2>3 DEF OpcodesNow
  <2> QED  BY <2>2, <2>4 DEF Exact
<1> QED
  BY <1>8, <1>10, <1>14, <1>15 DEF MInv
-----------------------------------------------------------------------------
LEMMA InitMInv == MInit => MInv
<1> SUFFICES ASSUME MInit PROVE MInv
  OBVIOUS
<1>1. /\ N \in Nat /\ N >= 2 /\ Top = N - 1 /\ 0 \in Memory /\ Top \in Memory
      /\ Memory \subseteq Cells
  BY MapAssumption, AddressesAssumption DEF Memory, Cells
<1>2. 0 \in ByteValues
  BY Bounds
<1>3. ~InBus
  BY DepthAssumption DEF MInit, Init, InBus, BusPcs, Depths
<1>4. /\ bp_table \in Tables
      /\ \A i \in Slots : bp_table[i].address = Top /\ bp_table[i].in_use = FALSE
  <2>1. FreeSlot \in SlotRecords /\ FreeSlot.address = Top /\ FreeSlot.in_use = FALSE
    BY <1>1, <1>2 DEF FreeSlot, SlotRecords, Memory
  <2>2. bp_table = [i \in Slots |-> FreeSlot]
    BY DEF MInit, init_em_debugger
  <2> QED  BY <2>1, <2>2 DEF Tables
<1>5. MTypes
  <2>1. mem \in [Cells -> ByteValues] /\ prog \in [Memory -> ByteValues]
    BY <1>2 DEF MInit
  <2>2. phase \in [at : Phases, p : Memory]
    BY <1>1 DEF MInit, Running, Phases
  <2> QED  BY <1>1, <1>4, <2>1, <2>2 DEF MTypes, MInit
<1>6. Jobs
  BY DEF Jobs, MInit
<1>7. InCalls
  BY <1>3 DEF InCalls
<1>8. MemoryNow
  <2>1. \A a \in Memory : Now(a) = 0
    BY <1>3 DEF Now, Shown, MInit
  <2> QED  BY <1>1, <2>1 DEF MemoryNow, MInit
<1>9. BufferNow
  BY <1>3 DEF BufferNow, Doing, MInit
<1>10. TableNow
  <2>1. \A op : ~Doing(op)
    BY <1>3 DEF Doing
  <2>2. Holding(bp_table, {})
    BY <1>4 DEF Holding
  <2>3. Top <= Top
    BY <1>1
  <2>4. SettledFrom(bp_table, 1)
    BY <1>4, <2>3 DEF SettledFrom
  <2> QED  BY <2>1, <2>2, <2>4 DEF TableNow, MInit
<1>12. OpcodesNow
  <2>1. \A op : ~Doing(op)
    BY <1>3 DEF Doing
  <2> QED  BY <2>1 DEF OpcodesNow, MInit
<1>11. Reporting
  BY DEF Reporting, MInit, Running
<1> QED
  BY <1>5, <1>6, <1>7, <1>8, <1>9, <1>10, <1>11, <1>12 DEF MInv, Exact

LEMMA StepMInv ==
  ASSUME IInv, MInv, [MNext]_mvars
  PROVE  MInv'
<1>1. CASE Quiet
  BY <1>1, QuietInv
<1>2. CASE MemcpyMain
  BY <1>2, MemcpyMainInv
<1>3. CASE ReleaseMain
  BY <1>3, ReleaseMainInv
<1>4. CASE SkipCall
  BY <1>4, SkipCallInv
<1>5. CASE BeginCall
  BY <1>5, BeginCallInv
<1>6. CASE Order
  BY <1>6, OrderInv
<1>7. CASE ResetZ80
  BY <1>7, ResetZ80Inv
<1>8. CASE StartIoMain \/ ((Grant \/ TakeBack \/ Timer2Interrupt \/ Transfer) /\ UNCHANGED data)
  BY <1>8, OtherInv
<1>9. CASE IoInterruptMain
  BY <1>9, IoInterruptMainInv
<1>10. CASE Break \/ Resume
  BY <1>10, BreakInv
<1>11. CASE UNCHANGED mvars
  <2>1. pc' = pc /\ todo' = todo /\ UNCHANGED data
    BY <1>11 DEF mvars, vars
  <2> QED  BY <2>1, KeptCalls
<1>12. CASE MemcpyTransfer
  BY <1>12, MemcpyTransferInv
<1> QED
  BY <1>1, <1>2, <1>3, <1>4, <1>5, <1>6, <1>7, <1>8, <1>9, <1>10, <1>11, <1>12, Zenon DEF MNext

(* The commands, the debugger and the running program use the bus as the    *)
(* bus module lets its users: what holds of the bus on its own holds of it  *)
(* under the monitor (monitor.c, em_debugger.c over z80io.c).               *)
THEOREM MonitorUsesTheBus == MSpec => Spec
<1>1. MInit => Init
  BY DEF MInit
<1>2. [MNext]_mvars => [Next]_vars
  BY StepIsBusStep
<1> QED
  BY <1>1, <1>2, PTL DEF MSpec, Spec

(* The inductive invariant of the monitor, whatever transfer comes into a    *)
(* command and wherever the breakpoints are.                                 *)
THEOREM MonitorInvariance == MSpec => [](IInv /\ MInv)
<1>1. MSpec => []IInv
  BY MonitorUsesTheBus, Invariance, PTL
<1>2. MInit => MInv
  BY InitMInv
<1>3. IInv /\ MInv /\ [MNext]_mvars => MInv'
  BY StepMInv
<1> QED
  BY <1>1, <1>2, <1>3, PTL DEF MSpec

(* A copy of any command, of any length and across the edge of the AVR's    *)
(* internal RAM, leaves memory the program that was loaded with RST 7 at    *)
(* the breakpoints asked for, and a dump shows it, until a transfer in the  *)
(* middle of a command spoils one; a breakpoint at the address of a free    *)
(* slot spoils that byte alone (monitor.c:269-345, em_debugger.c:56-86).    *)
THEOREM MemoryStaysProgram == MSpec => []MemoryIsProgram
<1>1. IInv /\ MInv => MemoryIsProgram
  <2> SUFFICES ASSUME MInv, ~lost PROVE MemoryIsProgram
    BY DEF MemoryIsProgram
  <2>0. MemoryNow /\ BufferNow
    BY DEF MInv, Exact
  <2>1. ASSUME pc[0] \notin BusPcs, NEW c \in Cells \ {Top}
        PROVE  mem[c] = IF c \in Memory THEN Shown(c) ELSE 0
    <3>1. ~InBus
      BY <2>1 DEF InBus
    <3>2. \A a : Now(a) = Shown(a)
      BY <3>1 DEF Now
    <3> QED  BY <2>0, <3>2 DEF MemoryNow
  <2>2. ASSUME pc[0] = "detach", call.op = "read"
        PROVE  /\ Len(buf) = Block
               /\ \A i \in 1 .. Block :
                    LET a == (call.at + i - 1) % N IN a # Top => buf[i] = Shown(a)
    <3>1. Doing("read") /\ job # <<>> /\ Len(todo) = 1
      BY <2>2 DEF Doing, InBus, BusPcs, MInv, InCalls
    <3>2. GoodCall(call)
      BY <3>1, CallIsGood DEF MInv
    <3>3. Tiles(call.ps, call.at, Block)
      BY <2>2, <3>2 DEF GoodCall, Size
    <3>4. Len(call.ps) \in Nat \ {0} /\ call.ps[Len(call.ps)].off + call.ps[Len(call.ps)].n = Block
      BY <3>3 DEF Tiles
    <3>5. Done = Len(call.ps)
      BY <2>2, <3>1, <3>4 DEF Done
    <3>6. DoneBytes = Block
      BY <3>4, <3>5 DEF DoneBytes
    <3>7. /\ buf \in [1 .. Block -> ByteValues]
          /\ \A i \in 1 .. Block :
               (call.at + i - 1) % N # Top => buf[i] = Shown((call.at + i - 1) % N)
      BY <2>0, <3>1, <3>6 DEF BufferNow
    <3>8. Len(buf) = Block
      BY <3>7, BufAssumption
    <3> QED  BY <3>7, <3>8
  <2> QED  BY <2>1, <2>2 DEF MemoryIsProgram
<1> QED
  BY <1>1, MonitorInvariance, PTL

\* As many slots are used as breakpoints are asked for, Top apart.
LEMMA UsedSlots ==
  ASSUME NEW t, NEW A, Holding(t, A)
  PROVE  LET used == {i \in Slots : t[i].in_use /\ t[i].address # Top}
         IN  /\ {t[i].address : i \in used} = A \ {Top}
             /\ IsFiniteSet(used) /\ Cardinality(used) = Cardinality(A \ {Top})
<1> DEFINE used == {i \in Slots : t[i].in_use /\ t[i].address # Top}
           B == A \ {Top}
           f == [i \in used |-> t[i].address]
<1>1. {t[i].address : i \in used} = B
  BY DEF Holding, Holds
<1>2. f \in Bijection(used, B)
  <2>1. f \in [used -> B] /\ \A i, j \in used : f[i] = f[j] => i = j
    BY DEF Holding
  <2>2. \A a \in B : \E i \in used : f[i] = a
    BY DEF Holding, Holds
  <2> QED  BY <2>1, <2>2, Zenon DEF Bijection, Injection, Surjection, IsInjective
<1>3. IsFiniteSet(Slots)
  BY NumBPAssumption, FS_Interval DEF Slots
<1>4. IsFiniteSet(used)
  BY <1>3, FS_Subset
<1>5. Cardinality(used) = Cardinality(B)
  <2> HIDE DEF used, f, B
  <2>1. ExistsBijection(used, B)
    BY <1>2 DEF ExistsBijection
  <2> QED  BY <1>4, <2>1, FS_Bijection
<1> QED
  BY <1>1, <1>4, <1>5

(* The table holds each breakpoint asked for once, although slots are       *)
(* reused and moved, and with the opcode it hides if no copy was lost; one  *)
(* at the address of a free slot disturbs no other                          *)
(* (em_debugger.c:294-345).                                                 *)
THEOREM TableStaysAsked == MSpec => []TableIsAsked
<1>1. IInv /\ MInv => TableIsAsked
  <2> SUFFICES ASSUME MInv, pc[0] \notin BusPcs
               PROVE  LET used == {i \in Slots : bp_table[i].in_use /\ bp_table[i].address # Top}
                      IN  /\ {bp_table[i].address : i \in used} = asked \ {Top}
                          /\ Cardinality(used) = Cardinality(asked \ {Top})
                          /\ lost \/ \A i \in used : bp_table[i].opcode = prog[bp_table[i].address]
    BY Zenon DEF TableIsAsked
  <2>1. Holding(bp_table, asked)
    BY DEF MInv, TableNow, Doing, InBus
  <2>2. ASSUME ~lost, NEW i \in Slots, bp_table[i].in_use, bp_table[i].address # Top
        PROVE  bp_table[i].opcode = prog[bp_table[i].address]
    <3>1. \A a \in asked \ {Top} : Hides(bp_table, a)
      BY <2>2 DEF MInv, Exact, OpcodesNow
    <3> QED  BY <2>1, <2>2, <3>1 DEF Holding, Hides, Holds
  <2> QED  BY <2>1, <2>2, UsedSlots
<1> QED
  BY <1>1, MonitorInvariance, PTL

(* The debugger names the place where the Z80 stopped, whatever was lost,   *)
(* and says "(unexpected)" of a breakpoint that was asked for only if a     *)
(* full table has it last, or at the address of a free slot                 *)
(* (em_debugger.c:88-97).                                                   *)
THEOREM BreakStaysReported == MSpec => []BreakIsReported
<1>1. IInv /\ MInv => BreakIsReported
  <2> SUFFICES ASSUME MInv PROVE BreakIsReported
    OBVIOUS
  <2>1. phase.at = "halt" => bp_adr = phase.p
    BY DEF MInv, Reporting
  <2>2. ASSUME phase.at = "regs", pc[0] \notin BusPcs, phase.p \in asked \ {Top},
               FindBreakPoint(bp_table, bp_adr) = 0
        PROVE  Cardinality(asked) = NumBP /\ \A a \in asked : a <= phase.p
    <3>1. bp_adr = phase.p
      BY <2>2 DEF MInv, Reporting
    <3>2. Holding(bp_table, asked) /\ SettledFrom(bp_table, 1)
      BY <2>2 DEF MInv, TableNow, Doing, InBus
    <3>3. PICK i \in Slots : Holds(bp_table, i, phase.p)
      BY <2>2, <3>2 DEF Holding
    <3>4. \A j \in Slots : ~(j < NumBP /\ Holds(bp_table, j, phase.p))
      <4>1. 0 \notin Slots
        BY NumBPAssumption DEF Slots
      <4> QED  BY <2>2, <3>1, <4>1, SlotFound
    <3>5. i = NumBP /\ \A j \in Slots : j <= i /\ 1 <= j
      BY <3>3, <3>4, NumBPAssumption DEF Slots
    <3>6. \A j \in Slots : bp_table[j].address <= phase.p
      BY <3>2, <3>3, <3>5 DEF SettledFrom, Holds
    <3>7. phase.p \in Nat /\ Top \in Nat /\ ~(Top <= phase.p)
      BY <2>2, AddressesAssumption, MapAssumption DEF MInv, MTypes, Memory
    <3>8. \A j \in Slots : bp_table[j].in_use /\ bp_table[j].address # Top
      BY <3>2, <3>6, <3>7 DEF Holding
    <3>9. {j \in Slots : bp_table[j].in_use /\ bp_table[j].address # Top} = Slots
      BY <3>8
    <3>10. Cardinality(Slots) = NumBP
      BY NumBPAssumption, FS_Interval DEF Slots
    <3>11. asked \ {Top} = asked
      BY <3>2, <3>8 DEF Holding, Holds
    <3>12. Cardinality(asked) = NumBP
      BY <3>2, <3>9, <3>10, <3>11, UsedSlots
    <3>13. \A a \in asked : a <= phase.p
      BY <3>2, <3>6 DEF Holding, Holds
    <3> QED  BY <3>12, <3>13
  <2> QED  BY <2>1, <2>2, Zenon DEF BreakIsReported
<1> QED
  BY <1>1, MonitorInvariance, PTL

(* Under the monitor too, a transfer that copies has the memory and so has  *)
(* a command that none robbed of it, the bus is the Z80's when nobody uses  *)
(* it, and who polls /BUSACK is served unless a transfer took the request   *)
(* away (z80io.c:34-82).                                                    *)
THEOREM MonitorKeepsTheBus == MSpec => [](BusHeld /\ BusFree /\ SpinIsServed)
BY MonitorUsesTheBus, CopiesHoldTheBus, BusIsReturned, PollersAreServed, PTL
-----------------------------------------------------------------------------
(* What the copies do to a whole memory.                                    *)

\* The bytes from at on, round the end of memory.
Bytewise(ram, at, n) == [i \in 1 .. n |-> ram[(at + i - 1) % N]]

ReadFrom(g, ram, at, m, n) == g = [i \in 1 .. n |-> ram[(at + m + i - 1) % N]]
Filled(ram, S) == ram \in [Cells -> S]

LEMMA BytewiseMore ==
  ASSUME NEW S, NEW ram, Filled(ram, S), NEW at \in Nat, NEW m \in Nat, NEW n \in Nat,
         NEW g, ReadFrom(g, ram, at, m, n)
  PROVE  \A v : Joined(v, Bytewise(ram, at, m), g) => v = Bytewise(ram, at, m + n)
<1>1. \A x \in Nat : ram[x % N] \in S
  <2>1. N \in Nat \ {0} /\ INTERNAL \in Nat
    BY MapAssumption
  <2>2. \A x \in Nat : x % N \in Cells
    BY <2>1 DEF Cells
  <2> QED  BY <2>2 DEF Filled
<1>0. g \in [1 .. n -> S] /\ \A i \in 1 .. n : g[i] = ram[(at + m + i - 1) % N]
  <2>1. \A i \in 1 .. n : at + m + i - 1 \in Nat
    OBVIOUS
  <2> QED  BY <1>1, <2>1 DEF ReadFrom
<1>2. ASSUME NEW k \in Nat PROVE Bytewise(ram, at, k) \in Seq(S) /\ Len(Bytewise(ram, at, k)) = k
  <2>1. \A i \in 1 .. k : at + i - 1 \in Nat
    OBVIOUS
  <2>2. \A i \in 1 .. k : ram[(at + i - 1) % N] \in S
    BY <1>1, <2>1
  <2>3. Bytewise(ram, at, k) \in [1 .. k -> S]
    BY <2>2 DEF Bytewise
  <2> QED  BY <2>3, FunctionIsSeq
<1> DEFINE u == Bytewise(ram, at, m)
           w == Bytewise(ram, at, m + n)
<1>3. /\ \A i \in 1 .. m : u[i] = ram[(at + i - 1) % N]
      /\ \A i \in 1 .. m + n : w[i] = ram[(at + i - 1) % N]
  BY DEF Bytewise
<1>4. u \in Seq(S) /\ Len(u) = m /\ w \in Seq(S) /\ Len(w) = m + n /\ g \in Seq(S) /\ Len(g) = n
  BY <1>0, <1>2, FunctionIsSeq
<1> HIDE DEF u, w
<1> DEFINE v == u \o g
<1>5. /\ v \in Seq(S) /\ Len(v) = m + n
      /\ \A i \in 1 .. m : v[i] = u[i]
      /\ \A i \in m + 1 .. m + n : v[i] = g[i - m]
  BY <1>4
<1> HIDE DEF v
<1>6. ASSUME NEW i \in 1 .. m + n PROVE v[i] = w[i]
  <2>1. CASE i \in 1 .. m
    BY <1>3, <1>5, <2>1
  <2>2. CASE i \notin 1 .. m
    <3>1. i \in m + 1 .. m + n /\ i - m \in 1 .. n /\ at + m + (i - m) - 1 = at + i - 1
      BY <2>2
    <3>2. g[i - m] = ram[(at + m + (i - m) - 1) % N]
      BY <1>0, <3>1
    <3> QED  BY <1>3, <1>5, <3>1, <3>2
  <2> QED  BY <2>1, <2>2
<1>7. v = w
  BY <1>4, <1>5, <1>6, SameSeq
<1> QED
  BY <1>7 DEF Joined, u, v, w

\* How many bytes the first k pieces copy.
Copied(ps, k) == IF k = 0 THEN 0 ELSE ps[k].off + ps[k].n

LEMMA CopiedMore ==
  ASSUME NEW at \in Nat, NEW len \in Nat, NEW ps, Tiles(ps, at, len)
  PROVE  /\ Len(ps) \in Nat \ {0} /\ Copied(ps, 0) = 0 /\ Copied(ps, Len(ps)) = len
         /\ \A k \in 1 .. Len(ps) :
              /\ ps[k] \in Pieces /\ Copied(ps, k - 1) = ps[k].off
              /\ Copied(ps, k) = ps[k].off + ps[k].n
<1>1. Len(ps) \in Nat \ {0} /\ Copied(ps, 0) = 0 /\ Copied(ps, Len(ps)) = len
  BY DEF Tiles, Copied
<1>2. ASSUME NEW k \in 1 .. Len(ps) PROVE Copied(ps, k - 1) = ps[k].off
  <2>1. CASE k = 1
    BY <2>1 DEF Tiles, Copied
  <2>2. CASE k # 1
    <3>1. k - 1 \in 1 .. Len(ps) - 1 /\ k - 1 # 0 /\ (k - 1) + 1 = k
      BY <2>2
    <3>2. ps[(k - 1) + 1].off = ps[k - 1].off + ps[k - 1].n
      BY <3>1 DEF Tiles
    <3> QED  BY <3>1, <3>2 DEF Copied
  <2> QED  BY <2>1, <2>2
<1> QED
  BY <1>1, <1>2 DEF Tiles, Copied

LEMMA TilesLoad ==
  ASSUME NEW S, NEW ram \in [Cells -> S], NEW at \in Nat, NEW len \in Nat,
         NEW ps, Tiles(ps, at, len)
  PROVE  Loaded(ram, ps) = Bytewise(ram, at, len)
<1> DEFINE n == Len(ps)
           f == [k \in 1 .. n |-> load(ram, ps[k])]
           u(k) == Copied(ps, k)
           Flat(k) == FlattenSeq([i \in 1 .. k |-> f[i]])
           Good == {k \in 0 .. n : Flat(k) = Bytewise(ram, at, u(k))}
<1>1. /\ n \in Nat \ {0} /\ u(0) = 0 /\ u(n) = len
      /\ \A k \in 1 .. n : /\ ps[k] \in Pieces /\ u(k - 1) = ps[k].off
                           /\ u(k) = ps[k].off + ps[k].n
  BY CopiedMore
<1>2. DOMAIN ps = 1 .. n
  BY DEF Tiles
<1>3. Loaded(ram, ps) = Flat(n)
  <2>1. Loaded(ram, ps) = FlattenSeq(f)
    BY <1>2 DEF Loaded
  <2>2. [i \in 1 .. n |-> f[i]] = f
    OBVIOUS
  <2> QED  BY <2>1, <2>2
<1>4. ASSUME NEW k \in 1 .. n
      PROVE  /\ f[k] \in [1 .. ps[k].n -> S] /\ ps[k].off \in Nat /\ ps[k].n \in Nat
             /\ ReadFrom(f[k], ram, at, ps[k].off, ps[k].n)
  <2> DEFINE p == ps[k]
  <2>1. p.off \in Nat /\ p.n \in Nat
    BY <1>1 DEF Pieces
  <2>2. \A i \in 1 .. p.n : Cell(p.win, p.at + i - 1) = (at + p.off + i - 1) % N
    BY DEF Tiles
  <2>3. f[k] = [i \in 1 .. p.n |-> ram[Cell(p.win, p.at + i - 1)]]
    BY DEF load
  <2> HIDE DEF p, f
  <2>4. \A i \in 1 .. p.n : (at + p.off + i - 1) % N \in Cells
    <3>1. \A x \in Nat : x % N \in Cells
      <4>1. N \in Nat \ {0} /\ INTERNAL \in Nat
        BY MapAssumption
      <4> QED  BY <4>1 DEF Cells
    <3>2. \A i \in 1 .. p.n : at + p.off + i - 1 \in Nat
      BY <2>1
    <3> QED  BY <3>1, <3>2
  <2>5. ReadFrom(f[k], ram, at, p.off, p.n)
    BY <2>2, <2>3 DEF ReadFrom
  <2>6. f[k] \in [1 .. p.n -> S]
    BY <2>2, <2>3, <2>4
  <2> QED  BY <2>1, <2>5, <2>6 DEF p
<1>5. \A k \in 1 .. n : f[k] \in Seq(S)
  <2> HIDE DEF f, n
  <2> QED  BY <1>4, FunctionIsSeq
<1>6. 0 \in Good
  <2>1. [i \in 1 .. 0 |-> f[i]] = <<>> /\ Bytewise(ram, at, 0) = <<>>
    BY DEF Bytewise
  <2>2. FlattenSeq(<<>>) = <<>>
    BY DEF FlattenSeq
  <2> HIDE DEF f, u
  <2> QED  BY <1>1, <2>1, <2>2
<1>7. ASSUME NEW k \in 1 .. n, Flat(k - 1) = Bytewise(ram, at, u(k - 1))
      PROVE  Flat(k) = Bytewise(ram, at, u(k))
  <2> HIDE DEF f, n, u
  <2>1. Flat(k) = Flat(k - 1) \o f[k]
    BY <1>1, <1>5, FlattenMore
  <2> HIDE DEF Flat
  <2> DEFINE m == ps[k].off
             l == ps[k].n
             g == f[k]
  <2>2. m \in Nat /\ l \in Nat /\ ReadFrom(g, ram, at, m, l) /\ Filled(ram, S)
    BY <1>4 DEF Filled
  <2>3. u(k - 1) = m /\ u(k) = m + l
    BY <1>1
  <2> HIDE DEF m, l, g
  <2>4. \A v : Joined(v, Bytewise(ram, at, m), g) => v = Bytewise(ram, at, m + l)
    BY <2>2, BytewiseMore
  <2>5. Joined(Flat(k), Flat(k - 1), g)
    BY <2>1 DEF Joined, g
  <2> QED  BY <1>7, <2>3, <2>4, <2>5, Zenon
<1>8. n \in Good
  <2>1. \A k \in 1 .. n : k - 1 \in Good => k \in Good
    <3> HIDE DEF n, Flat, u
    <3> QED  BY <1>1, <1>7
  <2> HIDE DEF Good, n
  <2>2. 0 .. n \subseteq Good
    BY <1>1, <1>6, <2>1, Induction
  <2> QED  BY <1>1, <2>2
<1> HIDE DEF Flat
<1> QED
  BY <1>1, <1>3, <1>8

(* d and esave read the bytes asked for and no others, wherever they lie    *)
(* against the edge of the AVR's RAM and the end of memory: each of the six *)
(* cases of read_extram (monitor.c:255-304).                                *)
THEOREM ReadsAreExact ==
  ASSUME NEW S, NEW ram \in [Cells -> S], NEW src \in Memory, NEW len \in 1 .. Block
  PROVE  Loaded(ram, read_extram(src, len)) = [i \in 1 .. len |-> ram[(src + i - 1) % N]]
<1>1. src \in Nat /\ len \in Nat
  BY MapAssumption DEF Memory
<1>2. Tiles(read_extram(src, len), src, len)
  BY ReadTiles
<1> DEFINE ps == read_extram(src, len)
<1> HIDE DEF ps
<1>3. Loaded(ram, ps) = Bytewise(ram, src, len)
  BY <1>1, <1>2, TilesLoad DEF ps
<1> QED
  BY <1>3, Zenon DEF Bytewise, ps

\* A copy stores one piece after the other.
LEMMA StoredRun ==
  ASSUME NEW ram, NEW ps, NEW bytes, Len(ps) \in Nat
  PROVE  \E g : /\ g[0] = ram /\ Stored(ram, ps, bytes) = g[Len(ps)]
                /\ \A i \in 1 .. Len(ps) : g[i] = store(g[i - 1], ps[i], bytes)
<1> DEFINE n == Len(ps)
           Step(s) == [i \in 0 .. n |-> IF i = 0 THEN ram ELSE store(s[i - 1], ps[i], bytes)]
           Upto(g, m) == g[0] = ram /\ \A i \in 1 .. m : g[i] = store(g[i - 1], ps[i], bytes)
           Good == {m \in 0 .. n : \E g : DOMAIN g = 0 .. m /\ Upto(g, m)}
           s == CHOOSE s : s = Step(s)
<1> HIDE DEF n
<1>1. n \in Nat /\ Stored(ram, ps, bytes) = s[n]
  BY DEF Stored, n
<1>2. 0 \in Good
  <2> DEFINE h == [i \in 0 .. 0 |-> ram]
  <2>1. DOMAIN h = 0 .. 0 /\ h[0] = ram
    OBVIOUS
  <2> HIDE DEF h
  <2> QED  BY <1>1, <2>1
<1>3. ASSUME NEW j \in 1 .. n, j - 1 \in Good PROVE j \in Good
  <2>1. PICK g : DOMAIN g = 0 .. j - 1 /\ Upto(g, j - 1)
    BY <1>3
  <2> DEFINE next == store(g[j - 1], ps[j], bytes)
             h == [i \in 0 .. j |-> IF i = j THEN next ELSE g[i]]
  <2>2. DOMAIN h = 0 .. j /\ h[j] = next /\ \A i \in 0 .. j - 1 : h[i] = g[i]
    <3> HIDE DEF next
    <3> QED  BY <1>1
  <2>3. j - 1 \in 0 .. j - 1 /\ 0 \in 0 .. j - 1
    BY <1>1
  <2> HIDE DEF h
  <2>4. h[0] = ram
    BY <2>1, <2>2, <2>3
  <2>5. ASSUME NEW i \in 1 .. j PROVE h[i] = store(h[i - 1], ps[i], bytes)
    <3>1. CASE i = j
      BY <2>2, <2>3, <3>1
    <3>2. CASE i # j
      <4>1. i \in 1 .. j - 1 /\ i \in 0 .. j - 1 /\ i - 1 \in 0 .. j - 1
        BY <1>1, <3>2
      <4>2. h[i] = g[i] /\ h[i - 1] = g[i - 1]
        BY <2>2, <4>1
      <4>3. g[i] = store(g[i - 1], ps[i], bytes)
        BY <2>1, <4>1
      <4> QED  BY <4>2, <4>3, Zenon
    <3> QED  BY <3>1, <3>2
  <2> QED
    BY <1>1, <2>2, <2>4, <2>5
<1>4. n \in Good
  <2> HIDE DEF Good
  <2>1. 0 .. n \subseteq Good
    BY <1>1, <1>2, <1>3, Induction
  <2> QED  BY <1>1, <2>1
<1>5. PICK g : DOMAIN g = 0 .. n /\ Upto(g, n)
  BY <1>4
<1> DEFINE h == [i \in 0 .. n |-> g[i]]
<1>6. h = Step(h)
  <2>1. ASSUME NEW i \in 0 .. n PROVE h[i] = Step(h)[i]
    <3>1. CASE i = 0
      BY <1>1, <1>5, <3>1
    <3>2. CASE i # 0
      <4>1. i \in 1 .. n /\ i - 1 \in 0 .. n
        BY <1>1, <3>2
      <4>2. h[i] = g[i] /\ h[i - 1] = g[i - 1]
        BY <4>1
      <4>3. g[i] = store(g[i - 1], ps[i], bytes)
        BY <1>5, <4>1
      <4>4. Step(h)[i] = store(h[i - 1], ps[i], bytes)
        BY <3>2, Zenon
      <4> QED  BY <4>2, <4>3, <4>4, Zenon
    <3> QED  BY <3>1, <3>2
  <2> QED  BY <2>1
<1>7. s = Step(s)
  <2> HIDE DEF h
  <2> QED  BY <1>6, Zenon
<1> HIDE DEF s, h
<1>8. s[0] = ram /\ \A i \in 1 .. n : s[i] = store(s[i - 1], ps[i], bytes)
  <2>1. 0 \in 0 .. n /\ \A i \in 1 .. n : i \in 0 .. n /\ i # 0
    BY <1>1
  <2>2. s[0] = Step(s)[0] /\ \A i \in 1 .. n : s[i] = Step(s)[i]
    BY <1>7, Zenon
  <2>3. Step(s)[0] = ram
    BY <2>1, Zenon
  <2>4. ASSUME NEW i \in 1 .. n PROVE Step(s)[i] = store(s[i - 1], ps[i], bytes)
    BY <2>1, Zenon
  <2> QED  BY <2>2, <2>3, <2>4, Zenon
<1> QED
  BY <1>1, <1>8, Zenon DEF n

LEMMA TilesStore ==
  ASSUME NEW ram \in [Cells -> ByteValues], NEW at \in Memory, NEW len \in Nat, at + len <= N,
         NEW ps, Tiles(ps, at, len), NEW bytes \in Seq(ByteValues), Len(bytes) = len
  PROVE  /\ Stored(ram, ps, bytes) \in [Cells -> ByteValues]
         /\ \A c \in Cells : Stored(ram, ps, bytes)[c] =
              IF c - at \in 0 .. len - 1 THEN bytes[c - at + 1] ELSE ram[c]
<1> DEFINE n == Len(ps)
           u(k) == Copied(ps, k)
<1>0. at \in Nat
  BY MapAssumption DEF Memory
<1>1. /\ n \in Nat \ {0} /\ u(0) = 0 /\ u(n) = len
      /\ \A k \in 1 .. n : /\ ps[k] \in Pieces /\ u(k - 1) = ps[k].off
                           /\ u(k) = ps[k].off + ps[k].n
  BY <1>0, CopiedMore
<1>2. PICK g : /\ g[0] = ram /\ Stored(ram, ps, bytes) = g[n]
               /\ \A i \in 1 .. n : g[i] = store(g[i - 1], ps[i], bytes)
  BY <1>1, StoredRun
<1> DEFINE Kept(m, e) == /\ m \in [Cells -> ByteValues]
                           /\ \A c \in Cells : m[c] = IF c - at \in 0 .. e - 1
                                                         THEN bytes[c - at + 1] ELSE ram[c]
           Good == {k \in 0 .. n : Kept(g[k], u(k))}
<1>3. 0 \in Good
  <2>1. \A c \in Cells : c - at \notin 0 .. 0 - 1
    BY <1>0, MapAssumption DEF Cells
  <2> HIDE DEF u
  <2> QED  BY <1>1, <1>2, <2>1
<1>4. ASSUME NEW k \in 1 .. n, Kept(g[k - 1], u(k - 1))
      PROVE  Kept(g[k], u(k))
  <2> DEFINE m == g[k - 1]
             o == ps[k].off
             l == ps[k].n
  <2>1. o \in Nat /\ l \in Nat /\ u(k - 1) = o /\ u(k) = o + l
    BY <1>1 DEF Pieces
  <2>2. m \in [Cells -> ByteValues]
    BY <1>4
  <2>3. g[k] = store(m, ps[k], bytes)
    BY <1>2
  <2>4. /\ store(m, ps[k], bytes) \in [Cells -> ByteValues]
        /\ \A c \in Cells : store(m, ps[k], bytes)[c] =
              IF c - at \in o .. o + l - 1 THEN bytes[c - at + 1] ELSE m[c]
    <3> HIDE DEF m
    <3> QED  BY <2>2, StorePiece
  <2>5. \A c \in Cells : m[c] = IF c - at \in 0 .. o - 1 THEN bytes[c - at + 1] ELSE ram[c]
    BY <1>4, <2>1
  <2>6. \A c \in Cells : c - at \in 0 .. o + l - 1 <=> c - at \in 0 .. o - 1 \/ c - at \in o .. o + l - 1
    <3>1. \A c \in Cells : c - at \in Int
      BY <1>0, MapAssumption DEF Cells
    <3> HIDE DEF o, l
    <3> QED  BY <2>1, <3>1
  <2> HIDE DEF m, o, l, u
  <2> QED  BY <2>1, <2>3, <2>4, <2>5, <2>6
<1>5. n \in Good
  <2>1. \A k \in 1 .. n : k - 1 \in Good => k \in Good
    <3> HIDE DEF n, u, Kept
    <3> QED  BY <1>1, <1>4
  <2> HIDE DEF Good, n
  <2>2. 0 .. n \subseteq Good
    BY <1>1, <1>3, <2>1, Induction
  <2> QED  BY <1>1, <2>2
<1>6. Kept(g[n], len)
  <2> HIDE DEF Kept, u
  <2> QED  BY <1>1, <1>5
<1> QED
  BY <1>2, <1>6

(* bload and eload write the bytes asked for where they are asked for, and  *)
(* leave the rest of memory and the AVR's own bytes alone                   *)
(* (monitor.c:306-345).                                                     *)
THEOREM WritesAreExact ==
  ASSUME NEW ram \in [Cells -> ByteValues], NEW dst \in Memory,
         NEW bytes \in Seq(ByteValues), Len(bytes) <= Block, dst + Len(bytes) <= N
  PROVE  Stored(ram, write_extram(dst, Len(bytes)), bytes)
           = [c \in Cells |-> IF c - dst \in 0 .. Len(bytes) - 1 THEN bytes[c - dst + 1]
                                                                 ELSE ram[c]]
<1> DEFINE len == Len(bytes)
           ps == write_extram(dst, len)
           m == Stored(ram, ps, bytes)
           e(c) == IF c - dst \in 0 .. len - 1 THEN bytes[c - dst + 1] ELSE ram[c]
<1>1. len \in Nat /\ len \in 0 .. Block
  BY BufAssumption
<1>2. Tiles(ps, dst, len)
  <2> HIDE DEF len
  <2> QED  BY <1>1, WriteTiles DEF len
<1>3. m \in [Cells -> ByteValues] /\ \A c \in Cells : m[c] = e(c)
  <2> HIDE DEF ps
  <2> QED  BY <1>1, <1>2, TilesStore
<1> HIDE DEF m, e
<1>4. m = [c \in Cells |-> e(c)]
  BY <1>3
<1> QED
  BY <1>4, Zenon DEF m, e

\* A sequence and one more element.
LEMMA AppendOne ==
  ASSUME NEW S, NEW s \in Seq(S), NEW t \in Seq(S), Len(t) = 1
  PROVE  /\ s \o t \in Seq(S) /\ Len(s \o t) = Len(s) + 1
         /\ (s \o t)[Len(s) + 1] = t[1] /\ \A k \in 1 .. Len(s) : (s \o t)[k] = s[k]
<1>1. Len(s) \in Nat
  OBVIOUS
<1>2. ASSUME NEW m \in Nat, Len(s) = m, NEW n \in Nat, Len(t) = n
      PROVE  /\ s \o t \in Seq(S) /\ Len(s \o t) = m + n
             /\ \A k \in 1 .. m : (s \o t)[k] = s[k]
             /\ \A k \in m + 1 .. m + n : (s \o t)[k] = t[k - m]
  BY <1>2
<1> QED
  <2> DEFINE m == Len(s)
  <2>1. m \in Nat /\ Len(s) = m /\ 1 \in Nat
    BY <1>1
  <2> HIDE DEF m
  <2>2. /\ s \o t \in Seq(S) /\ Len(s \o t) = m + 1
        /\ \A k \in 1 .. m : (s \o t)[k] = s[k]
        /\ \A k \in m + 1 .. m + 1 : (s \o t)[k] = t[k - m]
    BY <1>2, <2>1
  <2> QED  BY <2>1, <2>2

\* The blocks of esave and eload follow each other from 0 to size.
BlocksOf(bs, size) ==
  /\ bs \in Seq([off : Nat, len : 1 .. Block]) /\ Len(bs) \in Nat
  /\ IF bs = <<>> THEN size = 0
                  ELSE bs[1].off = 0 /\ bs[Len(bs)].off + bs[Len(bs)].len = size
  /\ \A k \in 1 .. Len(bs) :
       /\ bs[k].off \in Nat /\ bs[k].len \in 1 .. Block /\ bs[k].off + bs[k].len <= size
       /\ k > 1 => bs[k].off = bs[k - 1].off + bs[k - 1].len

LEMMA BlocksTile ==
  ASSUME NEW size \in Nat
  PROVE  BlocksOf(Blocks(size), size)
<1> DEFINE q == size \div Block
           r == size % Block
           at(k) == (k - 1) * Block
           full == [k \in 1 .. q |-> [off |-> at(k), len |-> Block]]
           rest == IF r > 0 THEN <<[off |-> q * Block, len |-> r]>> ELSE <<>>
           bs == full \o rest
           Spans == [off : Nat, len : 1 .. Block]
<1>1. Block \in Nat \ {0}
  BY BufAssumption
<1>2. q \in Nat /\ r \in 0 .. Block - 1 /\ size = Block * q + r
  BY <1>1
<1>3. q * Block \in Nat /\ size = q * Block + r
  BY <1>1, <1>2
<1>4. bs = Blocks(size)
  BY Zenon DEF Blocks
<1> HIDE DEF q, r
<1>5. \A k \in 1 .. q : at(k) \in Nat
  <2>1. \A k \in Nat, b \in Nat : k * b \in Nat
    OBVIOUS
  <2> QED  BY <1>1, <1>2, <2>1
<1>6. \A k \in 1 .. q : k > 1 => at(k) = at(k - 1) + Block
  <2>1. \A k, b \in Int : (k - 1) * b = (k - 1 - 1) * b + b
    OBVIOUS
  <2> QED  BY <1>1, <1>2, <2>1
<1>7. \A k \in 1 .. q : at(k) + Block <= q * Block
  <2>1. \A k, b \in Int : (k - 1) * b + b = k * b
    OBVIOUS
  <2>2. \A k, p, b \in Nat : k <= p => k * b <= p * b
    OBVIOUS
  <2> QED  BY <1>1, <1>2, <2>1, <2>2
<1>8. q > 0 => at(1) = 0 /\ at(q) + Block = q * Block
  <2>1. \A k, b \in Int : (k - 1) * b + b = k * b /\ (1 - 1) * b = 0
    OBVIOUS
  <2> QED  BY <1>1, <1>2, <2>1
<1>9. q = 0 => q * Block = 0
  BY <1>1
<1> HIDE DEF at
<1>10. full \in Seq(Spans) /\ Len(full) = q
  BY <1>1, <1>2, <1>5
<1>11. \A k \in 1 .. q : full[k].off = at(k) /\ full[k].len = Block
  OBVIOUS
<1> DEFINE m == q * Block
<1>12. m \in Nat /\ size = m + r
  BY <1>3
<1>13. CASE r > 0
  <2>1. rest = <<[off |-> m, len |-> r]>>
    BY <1>13
  <2>2. rest \in Seq(Spans) /\ Len(rest) = 1 /\ rest[1].off = m /\ rest[1].len = r
    <3>1. m \in Nat /\ r \in 1 .. Block
      BY <1>1, <1>2, <1>12, <1>13
    <3> DEFINE e == [off |-> m, len |-> r]
    <3>2. e \in Spans /\ e.off = m /\ e.len = r
      <4> HIDE DEF m, r
      <4> QED  BY <3>1
    <3> HIDE DEF m, rest, e, Spans
    <3> QED  BY <2>1, <3>2 DEF e
  <2>3. q = 0 => m = 0
    BY <1>9
  <2>4. \A k \in 1 .. q : at(k) + Block <= m
    BY <1>7
  <2>5. q > 0 => at(q) + Block = m
    BY <1>8
  <2> HIDE DEF m, full, rest
  <2>6. /\ bs \in Seq(Spans) /\ Len(bs) = q + 1 /\ bs[q + 1] = rest[1]
        /\ \A k \in 1 .. q : bs[k] = full[k]
    <3>1. full \in Seq(Spans) /\ rest \in Seq(Spans) /\ Len(full) = q /\ Len(rest) = 1 /\ q \in Nat
      BY <1>2, <1>10, <2>2
    <3> QED  BY <3>1, AppendOne, Zenon
  <2>7. bs # <<>> /\ bs[1].off = 0
    BY <1>2, <1>8, <1>11, <2>2, <2>3, <2>6
  <2> HIDE DEF bs
  <2>8. \A k \in 1 .. q + 1 :
          /\ bs[k].off \in Nat /\ bs[k].len \in 1 .. Block /\ bs[k].off + bs[k].len <= size
          /\ k > 1 => bs[k].off = bs[k - 1].off + bs[k - 1].len
    <3>1. ASSUME NEW k \in 1 .. q
          PROVE  /\ bs[k].off \in Nat /\ bs[k].len \in 1 .. Block /\ bs[k].off + bs[k].len <= size
                 /\ k > 1 => bs[k].off = bs[k - 1].off + bs[k - 1].len
      <4>1. bs[k].off = at(k) /\ bs[k].len = Block /\ at(k) \in Nat
        BY <1>5, <1>11, <2>6
      <4>2. k > 1 => bs[k - 1].off = at(k - 1) /\ bs[k - 1].len = Block
        BY <1>2, <1>11, <2>6
      <4> QED  BY <1>1, <1>2, <1>6, <1>12, <2>4, <4>1, <4>2
    <3>2. /\ bs[q + 1].off = m /\ bs[q + 1].len = r /\ m \in Nat /\ m + r <= size
          /\ q > 0 => m = bs[q].off + bs[q].len
      BY <1>2, <1>11, <1>12, <2>2, <2>5, <2>6
    <3> QED  BY <1>1, <1>2, <1>13, <3>1, <3>2
  <2>9. bs[q + 1].off + bs[q + 1].len = size
    BY <1>2, <1>12, <2>2, <2>6
  <2>10. BlocksOf(bs, size)
    BY <1>2, <2>6, <2>7, <2>8, <2>9 DEF BlocksOf
  <2> QED  BY <1>4, <2>10
<1>14. CASE ~ (r > 0)
  <2>1. r = 0 /\ size = m
    BY <1>2, <1>12, <1>14
  <2>2. bs = full
    <3>1. rest = <<>>
      BY <1>14
    <3> HIDE DEF full, rest
    <3> QED  BY <1>10, <3>1
  <2>3. q = 0 => m = 0
    BY <1>9
  <2>4. \A k \in 1 .. q : at(k) + Block <= m
    BY <1>7
  <2>5. q > 0 => at(1) = 0 /\ at(q) + Block = m
    BY <1>8
  <2> HIDE DEF m, full, bs
  <2>6. /\ bs \in Seq(Spans) /\ Len(bs) = q
        /\ \A k \in 1 .. q : bs[k].off = at(k) /\ bs[k].len = Block
    BY <1>10, <1>11, <2>2
  <2>7. IF bs = <<>> THEN size = 0 ELSE bs[1].off = 0 /\ bs[q].off + bs[q].len = size
    BY <1>2, <2>1, <2>3, <2>5, <2>6
  <2>8. \A k \in 1 .. q :
          /\ bs[k].off \in Nat /\ bs[k].len \in 1 .. Block /\ bs[k].off + bs[k].len <= size
          /\ k > 1 => bs[k].off = bs[k - 1].off + bs[k - 1].len
    <3>1. ASSUME NEW k \in 1 .. q
          PROVE  /\ bs[k].off \in Nat /\ bs[k].len \in 1 .. Block /\ bs[k].off + bs[k].len <= size
                 /\ k > 1 => bs[k].off = bs[k - 1].off + bs[k - 1].len
      <4>1. bs[k].off = at(k) /\ bs[k].len = Block /\ at(k) \in Nat /\ at(k) + Block <= m
        BY <1>5, <2>4, <2>6
      <4>2. k > 1 => k - 1 \in 1 .. q /\ at(k) = at(k - 1) + Block
        BY <1>2, <1>6
      <4>3. k > 1 => bs[k - 1].off = at(k - 1) /\ bs[k - 1].len = Block
        BY <2>6, <4>2
      <4> HIDE DEF Spans
      <4> QED  BY <1>1, <2>1, <4>1, <4>2, <4>3
    <3> QED  BY <3>1
  <2>9. BlocksOf(bs, size)
    BY <1>2, <2>6, <2>7, <2>8 DEF BlocksOf
  <2> QED  BY <1>4, <2>9
<1> QED
  BY <1>13, <1>14

\* esave goes from block to block.
SavedBy(g, ram, eep, dst, src, size) ==
  /\ g[0] = eep /\ save_extmem_eeprom(ram, eep, dst, src, size) = g[Len(Blocks(size))]
  /\ \A i \in 1 .. Len(Blocks(size)) : g[i] = Saved(ram, g[i - 1], dst, src, Blocks(size)[i])

LEMMA SavedRun ==
  ASSUME NEW ram, NEW eep, NEW dst, NEW src, NEW size, Len(Blocks(size)) \in Nat
  PROVE  \E g : SavedBy(g, ram, eep, dst, src, size)
<1> DEFINE n == Len(Blocks(size))
           Step(s) == [i \in 0 .. n |-> IF i = 0 THEN eep ELSE Saved(ram, s[i - 1], dst, src, Blocks(size)[i])]
           Upto(g, m) == g[0] = eep /\ \A i \in 1 .. m : g[i] = Saved(ram, g[i - 1], dst, src, Blocks(size)[i])
           Good == {m \in 0 .. n : \E g : DOMAIN g = 0 .. m /\ Upto(g, m)}
           s == CHOOSE s : s = Step(s)
<1> HIDE DEF n
<1>1. n \in Nat /\ save_extmem_eeprom(ram, eep, dst, src, size) = s[n]
  BY DEF save_extmem_eeprom, n
<1>2. 0 \in Good
  <2> DEFINE h == [i \in 0 .. 0 |-> eep]
  <2>1. DOMAIN h = 0 .. 0 /\ h[0] = eep
    OBVIOUS
  <2> HIDE DEF h
  <2> QED  BY <1>1, <2>1
<1>3. ASSUME NEW j \in 1 .. n, j - 1 \in Good PROVE j \in Good
  <2>1. PICK g : DOMAIN g = 0 .. j - 1 /\ Upto(g, j - 1)
    BY <1>3
  <2> DEFINE next == Saved(ram, g[j - 1], dst, src, Blocks(size)[j])
             h == [i \in 0 .. j |-> IF i = j THEN next ELSE g[i]]
  <2>2. DOMAIN h = 0 .. j /\ h[j] = next /\ \A i \in 0 .. j - 1 : h[i] = g[i]
    <3> HIDE DEF next
    <3> QED  BY <1>1
  <2>3. j - 1 \in 0 .. j - 1 /\ 0 \in 0 .. j - 1
    BY <1>1
  <2> HIDE DEF h
  <2>4. h[0] = eep
    BY <2>1, <2>2, <2>3
  <2>5. ASSUME NEW i \in 1 .. j PROVE h[i] = Saved(ram, h[i - 1], dst, src, Blocks(size)[i])
    <3>1. CASE i = j
      BY <2>2, <2>3, <3>1
    <3>2. CASE i # j
      <4>1. i \in 1 .. j - 1 /\ i \in 0 .. j - 1 /\ i - 1 \in 0 .. j - 1
        BY <1>1, <3>2
      <4>2. h[i] = g[i] /\ h[i - 1] = g[i - 1]
        BY <2>2, <4>1
      <4>3. g[i] = Saved(ram, g[i - 1], dst, src, Blocks(size)[i])
        BY <2>1, <4>1
      <4> QED  BY <4>2, <4>3, Zenon
    <3> QED  BY <3>1, <3>2
  <2> QED
    BY <1>1, <2>2, <2>4, <2>5
<1>4. n \in Good
  <2> HIDE DEF Good
  <2>1. 0 .. n \subseteq Good
    BY <1>1, <1>2, <1>3, Induction
  <2> QED  BY <1>1, <2>1
<1>5. PICK g : DOMAIN g = 0 .. n /\ Upto(g, n)
  BY <1>4
<1> DEFINE h == [i \in 0 .. n |-> g[i]]
<1>6. h = Step(h)
  <2>1. ASSUME NEW i \in 0 .. n PROVE h[i] = Step(h)[i]
    <3>1. CASE i = 0
      BY <1>1, <1>5, <3>1
    <3>2. CASE i # 0
      <4>1. i \in 1 .. n /\ i - 1 \in 0 .. n
        BY <1>1, <3>2
      <4>2. h[i] = g[i] /\ h[i - 1] = g[i - 1]
        BY <4>1
      <4>3. g[i] = Saved(ram, g[i - 1], dst, src, Blocks(size)[i])
        BY <1>5, <4>1
      <4>4. Step(h)[i] = Saved(ram, h[i - 1], dst, src, Blocks(size)[i])
        BY <3>2, Zenon
      <4> QED  BY <4>2, <4>3, <4>4, Zenon
    <3> QED  BY <3>1, <3>2
  <2> QED  BY <2>1
<1>7. s = Step(s)
  <2> HIDE DEF h
  <2> QED  BY <1>6, Zenon
<1> HIDE DEF s, h
<1>8. s[0] = eep /\ \A i \in 1 .. n : s[i] = Saved(ram, s[i - 1], dst, src, Blocks(size)[i])
  <2>1. 0 \in 0 .. n /\ \A i \in 1 .. n : i \in 0 .. n /\ i # 0
    BY <1>1
  <2>2. s[0] = Step(s)[0] /\ \A i \in 1 .. n : s[i] = Step(s)[i]
    BY <1>7, Zenon
  <2>3. Step(s)[0] = eep
    BY <2>1, Zenon
  <2>4. ASSUME NEW i \in 1 .. n PROVE Step(s)[i] = Saved(ram, s[i - 1], dst, src, Blocks(size)[i])
    BY <2>1, Zenon
  <2> QED  BY <2>2, <2>3, <2>4, Zenon
<1> QED
  BY <1>1, <1>8, Zenon DEF n, SavedBy

\* So does eload.
BroughtBy(g, ram, eep, dst, src, size) ==
  /\ g[0] = ram /\ load_eeprom_extmem(ram, eep, dst, src, size) = g[Len(Blocks(size))]
  /\ \A i \in 1 .. Len(Blocks(size)) : g[i] = Brought(g[i - 1], eep, dst, src, Blocks(size)[i])

LEMMA BroughtRun ==
  ASSUME NEW ram, NEW eep, NEW dst, NEW src, NEW size, Len(Blocks(size)) \in Nat
  PROVE  \E g : BroughtBy(g, ram, eep, dst, src, size)
<1> DEFINE n == Len(Blocks(size))
           Step(s) == [i \in 0 .. n |-> IF i = 0 THEN ram ELSE Brought(s[i - 1], eep, dst, src, Blocks(size)[i])]
           Upto(g, m) == g[0] = ram /\ \A i \in 1 .. m : g[i] = Brought(g[i - 1], eep, dst, src, Blocks(size)[i])
           Good == {m \in 0 .. n : \E g : DOMAIN g = 0 .. m /\ Upto(g, m)}
           s == CHOOSE s : s = Step(s)
<1> HIDE DEF n
<1>1. n \in Nat /\ load_eeprom_extmem(ram, eep, dst, src, size) = s[n]
  BY DEF load_eeprom_extmem, n
<1>2. 0 \in Good
  <2> DEFINE h == [i \in 0 .. 0 |-> ram]
  <2>1. DOMAIN h = 0 .. 0 /\ h[0] = ram
    OBVIOUS
  <2> HIDE DEF h
  <2> QED  BY <1>1, <2>1
<1>3. ASSUME NEW j \in 1 .. n, j - 1 \in Good PROVE j \in Good
  <2>1. PICK g : DOMAIN g = 0 .. j - 1 /\ Upto(g, j - 1)
    BY <1>3
  <2> DEFINE next == Brought(g[j - 1], eep, dst, src, Blocks(size)[j])
             h == [i \in 0 .. j |-> IF i = j THEN next ELSE g[i]]
  <2>2. DOMAIN h = 0 .. j /\ h[j] = next /\ \A i \in 0 .. j - 1 : h[i] = g[i]
    <3> HIDE DEF next
    <3> QED  BY <1>1
  <2>3. j - 1 \in 0 .. j - 1 /\ 0 \in 0 .. j - 1
    BY <1>1
  <2> HIDE DEF h
  <2>4. h[0] = ram
    BY <2>1, <2>2, <2>3
  <2>5. ASSUME NEW i \in 1 .. j PROVE h[i] = Brought(h[i - 1], eep, dst, src, Blocks(size)[i])
    <3>1. CASE i = j
      BY <2>2, <2>3, <3>1
    <3>2. CASE i # j
      <4>1. i \in 1 .. j - 1 /\ i \in 0 .. j - 1 /\ i - 1 \in 0 .. j - 1
        BY <1>1, <3>2
      <4>2. h[i] = g[i] /\ h[i - 1] = g[i - 1]
        BY <2>2, <4>1
      <4>3. g[i] = Brought(g[i - 1], eep, dst, src, Blocks(size)[i])
        BY <2>1, <4>1
      <4> QED  BY <4>2, <4>3, Zenon
    <3> QED  BY <3>1, <3>2
  <2> QED
    BY <1>1, <2>2, <2>4, <2>5
<1>4. n \in Good
  <2> HIDE DEF Good
  <2>1. 0 .. n \subseteq Good
    BY <1>1, <1>2, <1>3, Induction
  <2> QED  BY <1>1, <2>1
<1>5. PICK g : DOMAIN g = 0 .. n /\ Upto(g, n)
  BY <1>4
<1> DEFINE h == [i \in 0 .. n |-> g[i]]
<1>6. h = Step(h)
  <2>1. ASSUME NEW i \in 0 .. n PROVE h[i] = Step(h)[i]
    <3>1. CASE i = 0
      BY <1>1, <1>5, <3>1
    <3>2. CASE i # 0
      <4>1. i \in 1 .. n /\ i - 1 \in 0 .. n
        BY <1>1, <3>2
      <4>2. h[i] = g[i] /\ h[i - 1] = g[i - 1]
        BY <4>1
      <4>3. g[i] = Brought(g[i - 1], eep, dst, src, Blocks(size)[i])
        BY <1>5, <4>1
      <4>4. Step(h)[i] = Brought(h[i - 1], eep, dst, src, Blocks(size)[i])
        BY <3>2, Zenon
      <4> QED  BY <4>2, <4>3, <4>4, Zenon
    <3> QED  BY <3>1, <3>2
  <2> QED  BY <2>1
<1>7. s = Step(s)
  <2> HIDE DEF h
  <2> QED  BY <1>6, Zenon
<1> HIDE DEF s, h
<1>8. s[0] = ram /\ \A i \in 1 .. n : s[i] = Brought(s[i - 1], eep, dst, src, Blocks(size)[i])
  <2>1. 0 \in 0 .. n /\ \A i \in 1 .. n : i \in 0 .. n /\ i # 0
    BY <1>1
  <2>2. s[0] = Step(s)[0] /\ \A i \in 1 .. n : s[i] = Step(s)[i]
    BY <1>7, Zenon
  <2>3. Step(s)[0] = ram
    BY <2>1, Zenon
  <2>4. ASSUME NEW i \in 1 .. n PROVE Step(s)[i] = Brought(s[i - 1], eep, dst, src, Blocks(size)[i])
    BY <2>1, Zenon
  <2> QED  BY <2>2, <2>3, <2>4, Zenon
<1> QED
  BY <1>1, <1>8, Zenon DEF n, BroughtBy

\* Where block k begins, for k from 0: where the one before it ends.
Upto(bs, k) == IF k = 0 THEN 0 ELSE bs[k].off + bs[k].len

LEMMA UptoIs ==
  ASSUME NEW size \in Nat, NEW bs, BlocksOf(bs, size)
  PROVE  /\ Upto(bs, 0) = 0 /\ Upto(bs, Len(bs)) = size
         /\ \A k \in 1 .. Len(bs) :
              /\ bs[k].off = Upto(bs, k - 1) /\ Upto(bs, k) = bs[k].off + bs[k].len
              /\ bs[k].off \in Nat /\ bs[k].len \in 1 .. Block /\ Upto(bs, k) <= size
<1>1. Len(bs) \in Nat /\ (Len(bs) = 0 <=> bs = <<>>)
  BY DEF BlocksOf
<1>2. Upto(bs, 0) = 0
  BY DEF Upto
<1>3. Upto(bs, Len(bs)) = size
  BY <1>1 DEF Upto, BlocksOf
<1>4. ASSUME NEW k \in 1 .. Len(bs)
      PROVE  /\ bs[k].off = Upto(bs, k - 1) /\ Upto(bs, k) = bs[k].off + bs[k].len
             /\ bs[k].off \in Nat /\ bs[k].len \in 1 .. Block /\ Upto(bs, k) <= size
  <2>1. Upto(bs, k) = bs[k].off + bs[k].len
    BY DEF Upto
  <2>2. CASE k = 1
    <3>1. bs # <<>> /\ Upto(bs, k - 1) = 0
      BY <1>1, <2>2 DEF Upto
    <3> QED  BY <2>1, <2>2, <3>1 DEF BlocksOf
  <2>3. CASE k > 1
    <3>1. Upto(bs, k - 1) = bs[k - 1].off + bs[k - 1].len
      BY <2>3 DEF Upto
    <3> QED  BY <2>1, <2>3, <3>1 DEF BlocksOf
  <2> QED
    BY <2>2, <2>3
<1> QED
  BY <1>2, <1>3, <1>4

\* The EEPROM's addresses.
Eeprom == 0 .. EepromSize - 1

(* esave and esave2 write to the EEPROM the bytes of memory asked for, and  *)
(* no other byte of it (monitor.c:783-801).                                 *)
THEOREM SavesAreExact ==
  ASSUME NEW ram \in [Cells -> ByteValues], NEW eep \in [Eeprom -> ByteValues],
         NEW dst \in Nat, NEW src \in Memory,
         NEW size \in Nat, src + size <= N
  PROVE  save_extmem_eeprom(ram, eep, dst, src, size)
           = [a \in Eeprom |-> IF a - dst \in 0 .. size - 1 THEN ram[src + a - dst] ELSE eep[a]]
<1> DEFINE bs == Blocks(size)
           n == Len(bs)
           e(u, a) == IF a - dst \in 0 .. u - 1 THEN ram[src + a - dst] ELSE eep[a]
           Kept(g, u) == g \in [Eeprom -> ByteValues] /\ \A a \in Eeprom : g[a] = e(u, a)
<1>1. BlocksOf(bs, size)
  BY BlocksTile
<1>2. n \in Nat
  BY <1>1 DEF BlocksOf
<1>3. PICK g : /\ g[0] = eep /\ save_extmem_eeprom(ram, eep, dst, src, size) = g[n]
               /\ \A k \in 1 .. n : g[k] = Saved(ram, g[k - 1], dst, src, bs[k])
  <2>1. PICK g : SavedBy(g, ram, eep, dst, src, size)
    BY <1>2, SavedRun
  <2> QED  BY <2>1, Zenon DEF SavedBy
<1> HIDE DEF bs
<1>4. /\ Upto(bs, 0) = 0 /\ Upto(bs, n) = size
      /\ \A k \in 1 .. n :
           /\ bs[k].off = Upto(bs, k - 1) /\ Upto(bs, k) = bs[k].off + bs[k].len
           /\ bs[k].off \in Nat /\ bs[k].len \in 1 .. Block /\ Upto(bs, k) <= size
  BY <1>1, UptoIs
<1>5. N \in Nat \ {0} /\ src \in Nat /\ Memory = 0 .. N - 1 /\ Memory \subseteq Cells
  BY MapAssumption DEF Memory, Cells
<1>6. ASSUME NEW k \in 1 .. n, Kept(g[k - 1], Upto(bs, k - 1)) PROVE Kept(g[k], Upto(bs, k))
  <2> DEFINE o == bs[k].off
             l == bs[k].len
             h == g[k - 1]
             ebuf == Loaded(ram, read_extram(src + o, l))
  <2>1. o \in Nat /\ l \in 1 .. Block /\ l \in Nat \ {0} /\ o + l <= size /\ Upto(bs, k) = o + l
    BY <1>4, BufAssumption
  <2>2. h \in [Eeprom -> ByteValues] /\ \A a \in Eeprom : h[a] = e(o, a)
    BY <1>4, <1>6
  <2>3. src + o \in Memory
    BY <1>5, <2>1
  <2>4. ebuf = [i \in 1 .. l |-> ram[(src + o + i - 1) % N]]
    <3> HIDE DEF o, l
    <3>1. \A m \in [Cells -> ByteValues], s \in Memory, n1 \in 1 .. Block :
            Loaded(m, read_extram(s, n1)) = [i \in 1 .. n1 |-> m[(s + i - 1) % N]]
      BY ReadsAreExact
    <3> QED  BY <2>1, <2>3, <3>1, Zenon
  <2>5. g[k] = [a \in DOMAIN h |-> IF a - dst - o \in 0 .. l - 1 THEN ebuf[a - dst - o + 1] ELSE h[a]]
    BY <1>3, Zenon DEF Saved
  <2> HIDE DEF o, l, h, ebuf
  <2>6. ASSUME NEW a \in Eeprom PROVE g[k][a] = e(o + l, a) /\ g[k][a] \in ByteValues
    <3>1. a \in Nat /\ a - dst \in Int
      BY EepromAssumption DEF Eeprom
    <3>2. g[k][a] = IF a - dst - o \in 0 .. l - 1 THEN ebuf[a - dst - o + 1] ELSE h[a]
      BY <2>2, <2>5
    <3>3. CASE a - dst - o \in 0 .. l - 1
      <4> DEFINE i == a - dst - o + 1
      <4>1. i \in 1 .. l /\ src + o + i - 1 = src + a - dst /\ src + o + i - 1 \in 0 .. N - 1
        BY <1>5, <2>1, <3>1, <3>3
      <4>2. \A x \in 0 .. N - 1 : x % N = x
        BY <1>5
      <4>3. ebuf[i] = ram[(src + o + i - 1) % N]
        <5> HIDE DEF i
        <5> QED  BY <2>4, <4>1
      <4>4. ebuf[i] = ram[src + a - dst] /\ src + a - dst \in Cells
        <5> HIDE DEF i
        <5> QED  BY <1>5, <4>1, <4>2, <4>3
      <4>5. a - dst \in 0 .. (o + l) - 1
        BY <2>1, <3>1, <3>3
      <4>6. g[k][a] = ram[src + a - dst]
        BY <3>2, <3>3, <4>4
      <4>7. e(o + l, a) = ram[src + a - dst]
        BY <4>5, Zenon
      <4> HIDE DEF e
      <4>8. ram[src + a - dst] \in ByteValues
        BY <4>4
      <4> QED  BY <4>6, <4>7, <4>8, Zenon
    <3>4. CASE a - dst - o \notin 0 .. l - 1
      <4>1. a - dst \in 0 .. (o + l) - 1 <=> a - dst \in 0 .. o - 1
        BY <2>1, <3>1, <3>4
      <4>2. e(o + l, a) = e(o, a)
        BY <4>1, Zenon
      <4> HIDE DEF e
      <4>3. g[k][a] = h[a] /\ h[a] = e(o, a) /\ h[a] \in ByteValues
        BY <2>2, <3>2, <3>4
      <4> QED  BY <4>2, <4>3, Zenon
    <3> QED  BY <3>3, <3>4
  <2>7. g[k] \in [Eeprom -> ByteValues]
    <3>1. DOMAIN g[k] = Eeprom /\ g[k] = [a \in Eeprom |-> g[k][a]]
      BY <2>2, <2>5
    <3> QED  BY <2>6, <3>1
  <2> HIDE DEF e
  <2> QED  BY <2>1, <2>6, <2>7
<1> DEFINE Good == {k \in 0 .. n : Kept(g[k], Upto(bs, k))}
<1>7. 0 \in Good
  BY <1>2, <1>3, <1>4
<1>8. n \in Good
  <2>1. \A k \in 1 .. n : k - 1 \in Good => k \in Good
    <3> HIDE DEF n, Kept
    <3> QED  BY <1>2, <1>6
  <2> HIDE DEF Good, n
  <2>2. 0 .. n \subseteq Good
    BY <1>2, <1>7, <2>1, Induction
  <2> QED  BY <1>2, <2>2
<1>9. g[n] \in [Eeprom -> ByteValues] /\ \A a \in Eeprom : g[n][a] = e(size, a)
  <2>1. Kept(g[n], Upto(bs, n))
    <3> HIDE DEF Kept, n
    <3> QED  BY <1>8
  <2> QED  BY <1>4, <2>1
<1> HIDE DEF e, n
<1>10. g[n] = [a \in Eeprom |-> e(size, a)]
  BY <1>9
<1> QED
  BY <1>3, <1>10, Zenon DEF e

(* eload writes to memory the bytes of the EEPROM asked for, and no other   *)
(* cell of it (monitor.c:825-846).                                          *)
THEOREM LoadsAreExact ==
  ASSUME NEW ram \in [Cells -> ByteValues], NEW eep \in [Eeprom -> ByteValues],
         NEW dst \in Memory, NEW src \in Nat,
         NEW size \in Nat, dst + size <= N, src + size <= EepromSize
  PROVE  load_eeprom_extmem(ram, eep, dst, src, size)
           = [c \in Cells |-> IF c - dst \in 0 .. size - 1 THEN eep[src + c - dst] ELSE ram[c]]
<1> DEFINE bs == Blocks(size)
           n == Len(bs)
           e(u, c) == IF c - dst \in 0 .. u - 1 THEN eep[src + c - dst] ELSE ram[c]
           Kept(g, u) == g \in [Cells -> ByteValues] /\ \A c \in Cells : g[c] = e(u, c)
<1>1. BlocksOf(bs, size)
  BY BlocksTile
<1>2. n \in Nat
  BY <1>1 DEF BlocksOf
<1>3. PICK g : /\ g[0] = ram /\ load_eeprom_extmem(ram, eep, dst, src, size) = g[n]
               /\ \A k \in 1 .. n : g[k] = Brought(g[k - 1], eep, dst, src, bs[k])
  <2>1. PICK g : BroughtBy(g, ram, eep, dst, src, size)
    BY <1>2, BroughtRun
  <2> QED  BY <2>1, Zenon DEF BroughtBy
<1> HIDE DEF bs
<1>4. /\ Upto(bs, 0) = 0 /\ Upto(bs, n) = size
      /\ \A k \in 1 .. n :
           /\ bs[k].off = Upto(bs, k - 1) /\ Upto(bs, k) = bs[k].off + bs[k].len
           /\ bs[k].off \in Nat /\ bs[k].len \in 1 .. Block /\ Upto(bs, k) <= size
  BY <1>1, UptoIs
<1>5. N \in Nat \ {0} /\ dst \in Nat /\ Memory = 0 .. N - 1 /\ Cells \subseteq Int
  BY MapAssumption DEF Memory, Cells
<1>6. ASSUME NEW k \in 1 .. n, Kept(g[k - 1], Upto(bs, k - 1)) PROVE Kept(g[k], Upto(bs, k))
  <2> DEFINE o == bs[k].off
             l == bs[k].len
             h == g[k - 1]
             bytes == [i \in 1 .. l |-> eep[src + o + i - 1]]
  <2>1. o \in Nat /\ l \in 1 .. Block /\ l \in Nat \ {0} /\ o + l <= size /\ Upto(bs, k) = o + l
    BY <1>4, BufAssumption
  <2>2. h \in [Cells -> ByteValues] /\ \A c \in Cells : h[c] = e(o, c)
    BY <1>4, <1>6
  <2>3. dst + o \in Memory /\ dst + o + l <= N
    BY <1>5, <2>1
  <2> HIDE DEF o, l, h
  <2>4. \A i \in 1 .. l : eep[src + o + i - 1] \in ByteValues
    <3>1. \A i \in 1 .. l : o + i - 1 \in 0 .. size - 1 /\ src + (o + i - 1) = src + o + i - 1
      BY <2>1
    <3>2. \A i \in 0 .. size - 1 : src + i \in Eeprom
      BY EepromAssumption DEF Eeprom
    <3>3. \A i \in 1 .. l : src + o + i - 1 \in Eeprom
      BY <3>1, <3>2
    <3> QED  BY <3>3
  <2>5. bytes \in Seq(ByteValues) /\ Len(bytes) = l /\ \A i \in 1 .. l : bytes[i] = eep[src + o + i - 1]
    BY <2>1, <2>4
  <2>6. g[k] = Stored(h, write_extram(dst + o, l), bytes)
    BY <1>3, Zenon DEF Brought, h, o, l
  <2> HIDE DEF bytes
  <2>7. g[k] = [c \in Cells |-> IF c - (dst + o) \in 0 .. l - 1 THEN bytes[c - (dst + o) + 1]
                                                               ELSE h[c]]
    <3>1. Len(bytes) <= Block /\ dst + o + Len(bytes) <= N
      BY <2>1, <2>3, <2>5, BufAssumption
    <3>2. Stored(h, write_extram(dst + o, Len(bytes)), bytes)
            = [c \in Cells |-> IF c - (dst + o) \in 0 .. Len(bytes) - 1
                                 THEN bytes[c - (dst + o) + 1] ELSE h[c]]
      BY <2>2, <2>3, <2>5, <3>1, WritesAreExact
    <3> QED  BY <2>5, <2>6, <3>2, Zenon
  <2>8. ASSUME NEW c \in Cells PROVE g[k][c] = e(o + l, c) /\ g[k][c] \in ByteValues
    <3>1. c \in Int
      BY <1>5
    <3>2. g[k][c] = IF c - (dst + o) \in 0 .. l - 1 THEN bytes[c - (dst + o) + 1] ELSE h[c]
      BY <2>7
    <3>3. CASE c - (dst + o) \in 0 .. l - 1
      <4> DEFINE i == c - (dst + o) + 1
      <4>1. i \in 1 .. l /\ src + o + i - 1 = src + c - dst /\ c - dst \in 0 .. (o + l) - 1
        BY <1>5, <2>1, <3>1, <3>3
      <4>2. bytes[i] = eep[src + c - dst] /\ bytes[i] \in ByteValues
        <5> HIDE DEF i
        <5> QED  BY <2>4, <2>5, <4>1
      <4>3. e(o + l, c) = eep[src + c - dst]
        BY <4>1, Zenon
      <4>4. g[k][c] = bytes[i]
        BY <3>2, <3>3
      <4> HIDE DEF e, i
      <4> QED  BY <4>2, <4>3, <4>4, Zenon
    <3>4. CASE c - (dst + o) \notin 0 .. l - 1
      <4>1. c - dst \in 0 .. (o + l) - 1 <=> c - dst \in 0 .. o - 1
        BY <1>5, <2>1, <3>1, <3>4
      <4>2. e(o + l, c) = e(o, c)
        BY <4>1, Zenon
      <4> HIDE DEF e
      <4>3. g[k][c] = h[c] /\ h[c] = e(o, c) /\ h[c] \in ByteValues
        BY <2>2, <3>2, <3>4
      <4> QED  BY <4>2, <4>3, Zenon
    <3> QED  BY <3>3, <3>4
  <2>9. g[k] \in [Cells -> ByteValues]
    <3>1. DOMAIN g[k] = Cells /\ g[k] = [c \in Cells |-> g[k][c]]
      BY <2>7
    <3> QED  BY <2>8, <3>1
  <2> HIDE DEF e
  <2> QED  BY <2>1, <2>8, <2>9
<1> DEFINE Good == {k \in 0 .. n : Kept(g[k], Upto(bs, k))}
<1>7. 0 \in Good
  BY <1>2, <1>3, <1>4
<1>8. n \in Good
  <2>1. \A k \in 1 .. n : k - 1 \in Good => k \in Good
    <3> HIDE DEF n, Kept
    <3> QED  BY <1>2, <1>6
  <2> HIDE DEF Good, n
  <2>2. 0 .. n \subseteq Good
    BY <1>2, <1>7, <2>1, Induction
  <2> QED  BY <1>2, <2>2
<1>9. g[n] \in [Cells -> ByteValues] /\ \A c \in Cells : g[n][c] = e(size, c)
  <2>1. Kept(g[n], Upto(bs, n))
    <3> HIDE DEF Kept, n
    <3> QED  BY <1>8
  <2> QED  BY <1>4, <2>1
<1> HIDE DEF e, n
<1>10. g[n] = [c \in Cells |-> e(size, c)]
  BY <1>9
<1> QED
  BY <1>3, <1>10, Zenon DEF e

(* What esave writes to the EEPROM eload brings back, to the same place or  *)
(* another, wherever the two lie against the edge of the AVR's RAM          *)
(* (monitor.c:783-846).                                                     *)
THEOREM EepromRoundTrip ==
  ASSUME NEW ram \in [Cells -> ByteValues], NEW later \in [Cells -> ByteValues],
         NEW eep \in [Eeprom -> ByteValues], NEW at \in Nat,
         NEW src \in Memory, NEW dst \in Memory, NEW size \in Nat,
         src + size <= N, dst + size <= N, at + size <= EepromSize
  PROVE  load_eeprom_extmem(later, save_extmem_eeprom(ram, eep, at, src, size), dst, at, size)
           = [c \in Cells |-> IF c - dst \in 0 .. size - 1 THEN ram[src + c - dst] ELSE later[c]]
<1> DEFINE e(a) == IF a - at \in 0 .. size - 1 THEN ram[src + a - at] ELSE eep[a]
           saved == [a \in Eeprom |-> e(a)]
           f(c) == IF c - dst \in 0 .. size - 1 THEN ram[src + c - dst] ELSE later[c]
<1>1. N \in Nat /\ src \in Nat /\ dst \in Nat /\ 0 .. N - 1 \subseteq Cells /\ Cells \subseteq Int
  BY MapAssumption DEF Memory, Cells
<1>2. save_extmem_eeprom(ram, eep, at, src, size) = saved
  BY SavesAreExact
<1>3. \A i \in 0 .. size - 1 : src + i \in Cells /\ ram[src + i] \in ByteValues
  <2>1. \A i \in 0 .. size - 1 : src + i \in 0 .. N - 1
    BY <1>1
  <2> QED  BY <1>1, <2>1
<1>4. saved \in [Eeprom -> ByteValues]
  <2>1. ASSUME NEW a \in Eeprom PROVE e(a) \in ByteValues
    <3>1. a - at \in 0 .. size - 1 => src + a - at = src + (a - at)
      BY <1>1
    <3> QED  BY <1>3, <3>1
  <2> HIDE DEF e
  <2> QED  BY <2>1
<1>5. load_eeprom_extmem(later, saved, dst, at, size)
        = [c \in Cells |-> IF c - dst \in 0 .. size - 1 THEN saved[at + c - dst] ELSE later[c]]
  <2>1. \A m \in [Cells -> ByteValues], x \in [Eeprom -> ByteValues] :
          load_eeprom_extmem(m, x, dst, at, size)
            = [c \in Cells |-> IF c - dst \in 0 .. size - 1 THEN x[at + c - dst] ELSE m[c]]
    BY LoadsAreExact
  <2> HIDE DEF saved
  <2> QED  BY <1>4, <2>1, Zenon
<1>6. ASSUME NEW c \in Cells, c - dst \in 0 .. size - 1
      PROVE  saved[at + c - dst] = ram[src + c - dst]
  <2> DEFINE i == c - dst
  <2>1. c \in Int /\ at + c - dst = at + i /\ src + (at + i) - at = src + c - dst /\ at + i - at = i
    BY <1>1, <1>6
  <2>2. at + i \in Eeprom
    <3> HIDE DEF i
    <3> QED  BY <1>6, EepromAssumption DEF Eeprom, i
  <2>3. saved[at + i] = e(at + i)
    <3> HIDE DEF i, e
    <3> QED  BY <2>2
  <2>4. e(at + i) = ram[src + (at + i) - at]
    <3> HIDE DEF i
    <3> QED  BY <1>6, <2>1 DEF i
  <2> HIDE DEF saved, e, i
  <2> QED  BY <2>1, <2>3, <2>4
<1> HIDE DEF saved, e
<1>7. [c \in Cells |-> IF c - dst \in 0 .. size - 1 THEN saved[at + c - dst] ELSE later[c]]
        = [c \in Cells |-> f(c)]
  BY <1>6
<1> QED
  BY <1>2, <1>5, <1>7, Zenon DEF f

\* Quotient and remainder are the only ones.
LEMMA OneQuotient ==
  ASSUME NEW x \in Nat, NEW b \in Nat \ {0}, NEW y \in Nat, NEW z \in 0 .. b - 1, x = b * y + z
  PROVE  x \div b = y /\ x % b = z
<1> DEFINE q == x \div b
           r == x % b
<1>1. q \in Nat /\ r \in 0 .. b - 1 /\ x = b * q + r
  OBVIOUS
<1> HIDE DEF q, r
<1>2. \A u, v \in Nat : u < v => b * v >= b * u + b
  <2>1. \A u, d \in Nat : b * (u + 1 + d) = b * u + b + b * d /\ b * d \in Nat /\ b * u \in Nat
    OBVIOUS
  <2>2. ASSUME NEW u \in Nat, NEW v \in Nat, u < v PROVE b * v >= b * u + b
    <3>1. v - u - 1 \in Nat /\ u + 1 + (v - u - 1) = v
      BY <2>2
    <3> DEFINE d == v - u - 1
    <3>2. b * v = b * u + b + b * d /\ b * d \in Nat /\ b * u \in Nat
      <4> HIDE DEF d
      <4> QED  BY <2>1, <3>1 DEF d
    <3> HIDE DEF d
    <3> DEFINE e == b * d
               f == b * u
    <3> HIDE DEF e, f
    <3>3. e \in Nat /\ f \in Nat /\ b * v = f + b + e
      BY <3>2 DEF e, f
    <3>4. b * v >= f + b
      BY <3>3
    <3> QED  BY <3>4 DEF f
  <2> QED  BY <2>2
<1>3. b * q \in Nat /\ b * y \in Nat
  BY <1>1
<1>4. q = y
  <2> DEFINE e == b * q
             f == b * y
  <2>1. e \in Nat /\ f \in Nat /\ x = e + r /\ x = f + z
    BY <1>1, <1>3
  <2>2. /\ q < y => f >= e + b
        /\ y < q => e >= f + b
    BY <1>1, <1>2
  <2> HIDE DEF e, f
  <2> QED  BY <1>1, <2>1, <2>2
<1>5. r = z
  <2> DEFINE f == b * y
  <2>1. f \in Nat /\ x = f + r /\ x = f + z
    BY <1>1, <1>3, <1>4
  <2> HIDE DEF f
  <2> QED  BY <1>1, <2>1
<1> QED
  BY <1>4, <1>5 DEF q, r

\* A word and a number, round the end.
LEMMA WordPlus ==
  ASSUME NEW x \in Nat, NEW i \in Nat
  PROVE  U(U(x) + i) = U(x + i)
<1>1. N \in Nat \ {0}
  BY MapAssumption
<1> DEFINE y == x % N
           q == x \div N
           z == (y + i) % N
           p == (y + i) \div N
<1>2. y \in 0 .. N - 1 /\ q \in Nat /\ x = N * q + y
  BY <1>1
<1> HIDE DEF y, q
<1>3. z \in 0 .. N - 1 /\ p \in Nat /\ y + i = N * p + z
  BY <1>1, <1>2
<1> HIDE DEF z, p
<1>4. N * q + N * p = N * (q + p) /\ N * q \in Nat /\ N * p \in Nat
  BY <1>1, <1>2, <1>3
<1>5. x + i = N * (q + p) + z
  <2> DEFINE e == N * q
             f == N * p
             g == N * (q + p)
  <2>1. e \in Nat /\ f \in Nat /\ e + f = g /\ x = e + y /\ y + i = f + z
    BY <1>2, <1>3, <1>4
  <2> HIDE DEF e, f, g
  <2>2. x + i = g + z
    BY <1>2, <1>3, <2>1
  <2> QED  BY <2>2 DEF g
<1>6. (x + i) % N = z
  <2> DEFINE s == q + p
  <2>1. s \in Nat /\ x + i = N * s + z /\ x + i \in Nat
    BY <1>2, <1>3, <1>5
  <2> HIDE DEF s
  <2> QED  BY <1>1, <1>3, <2>1, OneQuotient
<1> QED
  BY <1>6 DEF U, y, z

\* The rows of a dump are the blocks of its length.
LEMMA RowsAreBlocks ==
  ASSUME NEW from \in Nat, NEW len \in Nat
  PROVE  /\ DOMAIN Rows(from, len) = 1 .. Len(Blocks(len)) /\ Len(Blocks(len)) \in Nat
         /\ \A k \in 1 .. Len(Blocks(len)) :
              /\ Rows(from, len)[k].adr = U(from + Blocks(len)[k].off)
              /\ Rows(from, len)[k].n = Blocks(len)[k].len
<1> DEFINE q == len \div Block
           r == len % Block
           bs == Blocks(len)
           n == (len + Block - 1) \div Block
<1>1. Block \in Nat \ {0} /\ q \in Nat /\ r \in 0 .. Block - 1 /\ len = Block * q + r
  BY BufAssumption
<1> DEFINE at(k) == (k - 1) * Block
           full == [k \in 1 .. q |-> [off |-> at(k), len |-> Block]]
           rest == IF r > 0 THEN <<[off |-> q * Block, len |-> r]>> ELSE <<>>
<1>2. bs = full \o rest
  BY Zenon DEF Blocks
<1>3. at(q + 1) = q * Block
  BY <1>1
<1> HIDE DEF q, r, bs
<1>4. /\ Len(bs) = IF r > 0 THEN q + 1 ELSE q
      /\ \A k \in 1 .. Len(bs) : /\ bs[k].off = at(k)
                                 /\ bs[k].len = IF k <= q THEN Block ELSE r
  <2>1. Len(full) = q /\ DOMAIN full = 1 .. q
    BY <1>1
  <2>2. \A k \in 1 .. q : full[k].off = at(k) /\ full[k].len = Block
    OBVIOUS
  <2> DEFINE S == {full[k] : k \in 1 .. q} \cup {rest[1]}
  <2>3. full \in Seq(S)
    <3>1. \A k \in 1 .. q : full[k] \in S
      <4> HIDE DEF full
      <4> QED  OBVIOUS
    <3>2. full \in [1 .. q -> S]
      <4>1. full = [k \in 1 .. q |-> full[k]]
        BY <2>1
      <4> HIDE DEF full, S
      <4> QED  BY <3>1, <4>1
    <3> HIDE DEF full, S
    <3> QED  BY <1>1, <3>2, FunctionIsSeq
  <2> HIDE DEF full, at
  <2>4. CASE r > 0
    <3>1. rest = <<[off |-> at(q + 1), len |-> r]>>
      BY <1>3, <2>4
    <3>2. Len(rest) = 1 /\ rest[1].off = at(q + 1) /\ rest[1].len = r /\ rest \in Seq(S)
      <4>1. rest[1] \in S
        OBVIOUS
      <4> HIDE DEF rest, S
      <4> QED  BY <3>1, <4>1
    <3> HIDE DEF rest, S
    <3>3. /\ Len(bs) = q + 1 /\ bs[q + 1] = rest[1] /\ \A k \in 1 .. q : bs[k] = full[k]
      BY <1>2, <2>1, <2>3, <3>2, AppendOne, Zenon
    <3>4. \A k \in 1 .. q + 1 : (k \in 1 .. q /\ k <= q) \/ (k = q + 1 /\ ~ (k <= q))
      BY <1>1
    <3> QED  BY <2>2, <2>4, <3>2, <3>3, <3>4
  <2>5. CASE ~ (r > 0)
    <3>1. rest = <<>>
      BY <2>5
    <3> HIDE DEF rest
    <3>2. bs = full
      BY <1>2, <2>3, <3>1
    <3>3. \A k \in 1 .. q : k <= q
      BY <1>1
    <3> QED  BY <2>1, <2>2, <2>5, <3>2, <3>3
  <2> QED  BY <2>4, <2>5
<1>5. n = Len(bs)
  <2>1. len + Block - 1 = IF r > 0 THEN Block * (q + 1) + (r - 1) ELSE Block * q + (Block - 1)
    <3>1. Block * (q + 1) = Block * q + Block /\ Block * q \in Nat
      BY <1>1
    <3> DEFINE e == Block * q
    <3>2. e \in Nat /\ len = e + r /\ r \in 0 .. Block - 1 /\ Block \in Nat
      BY <1>1, <3>1
    <3> HIDE DEF e
    <3>3. len + Block - 1 = IF r > 0 THEN e + Block + (r - 1) ELSE e + (Block - 1)
      BY <3>2
    <3> QED  BY <3>1, <3>3 DEF e
  <2>2. len + Block - 1 \in Nat
    BY <1>1
  <2>3. CASE r > 0
    <3>1. r - 1 \in 0 .. Block - 1 /\ q + 1 \in Nat
      BY <1>1, <2>3
    <3>2. len + Block - 1 = Block * (q + 1) + (r - 1)
      BY <2>1, <2>3
    <3> QED  BY <1>1, <1>4, <2>2, <2>3, <3>1, <3>2, OneQuotient
  <2>4. CASE ~ (r > 0)
    <3>1. Block - 1 \in 0 .. Block - 1 /\ q \in Nat
      BY <1>1
    <3>2. len + Block - 1 = Block * q + (Block - 1)
      BY <2>1, <2>4
    <3> QED  BY <1>1, <1>4, <2>2, <2>4, <3>1, <3>2, OneQuotient
  <2> QED  BY <2>3, <2>4
<1>6. Rows(from, len) = [k \in 1 .. n |-> [adr |-> U(from + at(k)), n |-> IF k <= q THEN Block ELSE r]]
  BY Zenon DEF Rows, q, r
<1> HIDE DEF n, at
<1>7. Len(bs) \in Nat
  BY <1>1, <1>4
<1> QED
  BY <1>4, <1>5, <1>6, <1>7 DEF bs

(* d shows the bytes asked for, once each and in order, round the end of    *)
(* memory too: its rows, one after the other, are the addresses from from   *)
(* on, len of them (monitor.c:372-452).                                     *)
THEOREM DumpShows ==
  ASSUME NEW from \in Memory, NEW len \in Nat
  PROVE  FlattenSeq([k \in DOMAIN Rows(from, len) |->
           [i \in 1 .. Rows(from, len)[k].n |-> U(Rows(from, len)[k].adr + i - 1)]])
           = [i \in 1 .. len |-> U(from + i - 1)]
<1> DEFINE bs == Blocks(len)
           n == Len(bs)
           f == [k \in DOMAIN Rows(from, len) |->
                  [i \in 1 .. Rows(from, len)[k].n |-> U(Rows(from, len)[k].adr + i - 1)]]
           id == [c \in Cells |-> c]
           u(k) == Upto(bs, k)
           Flat(k) == FlattenSeq([i \in 1 .. k |-> f[i]])
           Good == {k \in 0 .. n : Flat(k) = Bytewise(id, from, u(k))}
<1>1. BlocksOf(bs, len) /\ n \in Nat
  BY BlocksTile DEF BlocksOf
<1>2. from \in Nat /\ N \in Nat \ {0} /\ INTERNAL \in Nat
  BY MapAssumption DEF Memory
<1>3. /\ DOMAIN Rows(from, len) = 1 .. n
      /\ \A k \in 1 .. n : /\ Rows(from, len)[k].adr = U(from + bs[k].off)
                           /\ Rows(from, len)[k].n = bs[k].len
  BY <1>2, RowsAreBlocks
<1> HIDE DEF bs
<1>4. /\ u(0) = 0 /\ u(n) = len
      /\ \A k \in 1 .. n :
           /\ u(k - 1) = bs[k].off /\ u(k) = bs[k].off + bs[k].len
           /\ bs[k].off \in Nat /\ bs[k].len \in Nat
  BY <1>1, UptoIs, BufAssumption
<1>5. \A x \in Nat : id[x % N] = x % N /\ x % N \in Cells
  <2>1. \A x \in Nat : x % N \in Cells
    BY <1>2 DEF Cells
  <2> QED  BY <2>1
<1>6. ASSUME NEW k \in 1 .. n
      PROVE  /\ f[k] \in Seq(Cells) /\ bs[k].off \in Nat /\ bs[k].len \in Nat
             /\ ReadFrom(f[k], id, from, bs[k].off, bs[k].len)
  <2> DEFINE m == bs[k].off
             l == bs[k].len
  <2>1. m \in Nat /\ l \in Nat
    BY <1>4
  <2>2. f[k] = [i \in 1 .. l |-> U(U(from + m) + i - 1)]
    BY <1>3
  <2> HIDE DEF f, m, l, id
  <2>3. ASSUME NEW i \in 1 .. l
        PROVE  U(U(from + m) + i - 1) = id[(from + m + i - 1) % N]
               /\ U(U(from + m) + i - 1) \in Cells
    <3>1. from + m \in Nat /\ i - 1 \in Nat
      BY <1>2, <2>1
    <3>2. U(U(from + m) + (i - 1)) = U((from + m) + (i - 1))
      BY <3>1, WordPlus
    <3>3. from + m + i - 1 = (from + m) + (i - 1) /\ (from + m) + (i - 1) \in Nat
      BY <3>1
    <3> QED  BY <1>5, <3>2, <3>3 DEF U
  <2>4. ReadFrom(f[k], id, from, m, l)
    BY <2>2, <2>3 DEF ReadFrom
  <2>5. f[k] \in [1 .. l -> Cells]
    BY <2>2, <2>3
  <2>6. f[k] \in Seq(Cells)
    BY <2>1, <2>5, FunctionIsSeq
  <2> QED  BY <2>1, <2>4, <2>6 DEF m, l
<1>7. 0 \in Good
  <2>1. [i \in 1 .. 0 |-> f[i]] = <<>> /\ Bytewise(id, from, 0) = <<>>
    BY DEF Bytewise
  <2>2. FlattenSeq(<<>>) = <<>>
    BY DEF FlattenSeq
  <2> HIDE DEF f, u, id
  <2> QED  BY <1>1, <1>4, <2>1, <2>2
<1>8. ASSUME NEW k \in 1 .. n, Flat(k - 1) = Bytewise(id, from, u(k - 1))
      PROVE  Flat(k) = Bytewise(id, from, u(k))
  <2> HIDE DEF f, n, u
  <2>1. Flat(k) = Flat(k - 1) \o f[k]
    BY <1>1, <1>6, FlattenMore
  <2> HIDE DEF Flat
  <2> DEFINE m == bs[k].off
             l == bs[k].len
             g == f[k]
  <2>2. Filled(id, Cells)
    BY DEF Filled
  <2> HIDE DEF id
  <2>3. m \in Nat /\ l \in Nat /\ ReadFrom(g, id, from, m, l)
    BY <1>6
  <2>4. u(k - 1) = m /\ u(k) = m + l
    BY <1>4
  <2> HIDE DEF m, l, g
  <2>5. \A v : Joined(v, Bytewise(id, from, m), g) => v = Bytewise(id, from, m + l)
    BY <1>2, <2>2, <2>3, BytewiseMore
  <2>6. Joined(Flat(k), Flat(k - 1), g)
    BY <2>1 DEF Joined, g
  <2> QED  BY <1>8, <2>4, <2>5, <2>6, Zenon
<1>9. n \in Good
  <2>1. \A k \in 1 .. n : k - 1 \in Good => k \in Good
    <3> HIDE DEF n, Flat, u, id
    <3> QED  BY <1>1, <1>8
  <2> HIDE DEF Good, n
  <2>2. 0 .. n \subseteq Good
    BY <1>1, <1>7, <2>1, Induction
  <2> QED  BY <1>1, <2>2
<1>10. Flat(n) = Bytewise(id, from, len)
  <2> HIDE DEF Flat, u, id
  <2> QED  BY <1>4, <1>9
<1>11. Bytewise(id, from, len) = [i \in 1 .. len |-> U(from + i - 1)]
  <2>1. ASSUME NEW i \in 1 .. len PROVE id[(from + i - 1) % N] = U(from + i - 1)
    <3>1. from + i - 1 \in Nat
      BY <1>2
    <3> HIDE DEF id
    <3> QED  BY <1>5, <3>1 DEF U
  <2> HIDE DEF id
  <2> QED  BY <2>1 DEF Bytewise
<1>12. [i \in 1 .. n |-> f[i]] = f
  BY <1>3
<1> QED
  <2> HIDE DEF f, n, id
  <2>1. FlattenSeq(f) = [i \in 1 .. len |-> U(from + i - 1)]
    BY <1>10, <1>11, <1>12
  <2> QED  BY <2>1, Zenon DEF f

(* The check of f never refuses a length: the sum it looks at is a word, so *)
(* a fill that runs past the end of memory goes on at its start             *)
(* (monitor.c:585).                                                         *)
THEOREM FillGoesRound ==
  ASSUME NEW t \in Seq(Token), Len(t) = 4, t[1].name = "f", NEW adr,
         NEW dat \in ByteValues, t[2].num = dat, NEW at \in Memory, t[3].num = at,
         NEW size \in Memory, t[4].num = size
  PROVE  exec_command(t, adr).calls = [i \in 1 .. size |-> Op("write", U(at + i - 1), dat)]
<1> DEFINE cs == [i \in 1 .. size |-> Op("write", U(at + i - 1), dat)]
<1>1. N \in Nat \ {0} /\ size \in Nat /\ at \in Nat /\ Byte \in Nat /\ dat \in Nat /\ dat < Byte
  BY MapAssumption, DigitAssumption DEF Memory, ByteValues, Byte
<1>2. exec_command(t, adr) = c_fill_external_ram(t, adr)
  BY DEF exec_command
<1>3. par(t, 1) = dat /\ par(t, 2) = at /\ par(t, 3) = size
  BY DEF par
<1>4. U(at + size) \in 0 .. N - 1
  BY <1>1 DEF U
<1>5. ~ (dat >= Byte) /\ ~ (U(at + size) > N - 1)
  <2> HIDE DEF Byte
  <2> QED  BY <1>1, <1>4
<1>6. \A i \in 1 .. 3 : get_uint(t, i) = "NO_ERROR"
  <2>1. dat # None /\ at # None /\ size # None
    BY <1>1 DEF None
  <2>2. \A i \in 1 .. 3 : par(t, i) # None /\ ~ (i >= Len(t))
    BY <1>3, <2>1
  <2> QED  BY <2>2 DEF get_uint
<1>7. ~ (Len(t) < 3 + 1) /\ ~ \E i \in 1 .. 3 : get_uint(t, i) # "NO_ERROR"
  BY <1>6
<1>8. c_fill_external_ram(t, adr) = Makes(cs, adr)
  BY <1>3, <1>5, <1>7, Zenon DEF c_fill_external_ram, Required
<1> HIDE DEF cs
<1>9. Makes(cs, adr).calls = cs
  BY DEF Makes
<1> QED
  BY <1>2, <1>8, <1>9, Zenon DEF cs
==============================================================================
