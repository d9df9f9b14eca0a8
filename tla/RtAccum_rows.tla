---------------------------- MODULE RtAccum_rows ----------------------------
(***************************************************************************)
(* Proofs about transactions, for any sessions, indexes, documents, texts  *)
(* and statements:                                                         *)
(*   - every variable keeps its type;                                      *)
(*   - the counts lead to the hits of every row;                           *)
(*   - a commit does what the statements of its transaction say.           *)
(*                                                                         *)
(* Sums and loops are recursive functions on the numbers of the rows; they *)
(* are reasoned about by induction on sets of naturals.                    *)
(***************************************************************************)
EXTENDS RtAccum, SequenceTheorems, FiniteSetTheorems, WellFoundedInduction, TLAPS

-----------------------------------------------------------------------------
(* Induction and recursion. *)

LEMMA NaturalOrder == \E R : IsWellFoundedOn(R, Nat) /\ \A i, j \in Nat : i < j => <<i, j>> \in R
<1> DEFINE R == OpToRel(<, Nat)
<1>1. \A i, j \in Nat : i < j => <<i, j>> \in R
  BY DEF OpToRel
<1>2. IsWellFoundedOn(R, Nat)
  BY NatLessThanWellFounded
<1> HIDE DEF R
<1> QED BY <1>1, <1>2

\* A set of numbers that has 0 and with each number the next has them all.
LEMMA Induct ==
  ASSUME NEW S, 0 \in S, \A n \in Nat : n \in S => n + 1 \in S
  PROVE  \A n \in Nat : n \in S
<1> DEFINE T == Nat \ S
<1>1. SUFFICES ASSUME T # {} PROVE FALSE
  OBVIOUS
<1>2. PICK R : IsWellFoundedOn(R, Nat) /\ \A i, j \in Nat : i < j => <<i, j>> \in R
  BY NaturalOrder
<1>3. PICK n \in T : \A k \in T : ~(<<k, n>> \in R)
  <2>1. IsWellFoundedOn(R, Nat)
    BY <1>2
  <2>2. T \subseteq Nat
    OBVIOUS
  <2> HIDE DEF T
  <2> QED BY <1>1, <2>1, <2>2, WFMin
<1>4. n \in Nat /\ n # 0 /\ n \notin S
  OBVIOUS
<1>5. n - 1 \in Nat /\ n - 1 < n
  BY <1>4
<1>6. n - 1 \notin T
  BY <1>2, <1>3, <1>4, <1>5
<1>7. n - 1 \in S
  BY <1>5, <1>6
<1>8. (n - 1) + 1 \in S
  BY <1>5, <1>7
<1> QED BY <1>4, <1>8

\* The values f of a loop of N turns from b on: g tells what turn n makes of the last one.
LoopOf(f, N, T, b, g) ==
  f \in [0..N -> T] /\ f[0] = b /\ \A n \in 1..N : f[n] = g[<<n, f[n - 1]>>]

LEMMA Loop ==
  ASSUME NEW N \in Nat, NEW T, NEW b \in T, NEW g \in [(1..N) \X T -> T]
  PROVE  \E f : LoopOf(f, N, T, b, g)
<1> DEFINE Runs(f, m) == f[0] = b /\ \A n \in 1..m : f[n] = g[<<n, f[n - 1]>>]
           S == {m \in Nat : m <= N => \E f \in [0..m -> T] : Runs(f, m)}
<1>1. 0 \in S
  <2>1. [n \in 0..0 |-> b] \in [0..0 -> T] /\ Runs([n \in 0..0 |-> b], 0)
    OBVIOUS
  <2> QED BY <2>1
<1>2. ASSUME NEW m \in Nat, m \in S PROVE m + 1 \in S
  <2>1. SUFFICES ASSUME m + 1 <= N PROVE \E f \in [0..(m + 1) -> T] : Runs(f, m + 1)
    OBVIOUS
  <2>2. PICK f \in [0..m -> T] : Runs(f, m)
    BY <1>2, <2>1
  <2> DEFINE e == [n \in 0..(m + 1) |-> IF n = m + 1 THEN g[<<m + 1, f[m]>>] ELSE f[n]]
  <2>3. f[m] \in T /\ m + 1 \in 1..N
    BY <2>1
  <2>4. g[<<m + 1, f[m]>>] \in T
    BY <2>3
  <2>5. e \in [0..(m + 1) -> T]
    BY <2>4
  <2>6. Runs(e, m + 1)
    <3>1. e[0] = b
      BY <2>2
    <3>2. ASSUME NEW n \in 1..(m + 1) PROVE e[n] = g[<<n, e[n - 1]>>]
      <4>1. n - 1 \in 0..m /\ e[n - 1] = f[n - 1]
        OBVIOUS
      <4>2. CASE n = m + 1
        <5>1. n - 1 = m /\ n \in 0..(m + 1)
          BY <4>2
        <5> QED BY <4>1, <4>2, <5>1
      <4>3. CASE n # m + 1
        <5>1. n \in 1..m /\ n \in 0..(m + 1)
          BY <4>3
        <5>2. e[n] = f[n]
          BY <4>3, <5>1
        <5> QED BY <2>2, <4>1, <5>1, <5>2
      <4> QED BY <4>2, <4>3
    <3> QED BY <3>1, <3>2
  <2> QED BY <2>5, <2>6
<1>3. N \in S
  <2> HIDE DEF S
  <2> QED BY <1>1, <1>2, Induct
<1> QED BY <1>3 DEF LoopOf

\* What holds before the first turn and is kept by each turn holds after the last.
LEMMA LoopKeeps ==
  ASSUME NEW N \in Nat, NEW S \in SUBSET (0..N), 0 \in S,
         \A n \in 1..N : n - 1 \in S => n \in S
  PROVE  \A n \in 0..N : n \in S
<1> DEFINE R == {n \in Nat : n <= N => n \in S}
<1>1. 0 \in R
  OBVIOUS
<1>2. \A n \in Nat : n \in R => n + 1 \in R
  <2> SUFFICES ASSUME NEW n \in Nat, n \in R, n + 1 <= N PROVE n + 1 \in S
    OBVIOUS
  <2>1. n + 1 \in 1..N /\ (n + 1) - 1 = n /\ n \in S
    OBVIOUS
  <2> QED BY <2>1
<1>3. \A n \in Nat : n \in R
  <2> HIDE DEF R
  <2> QED BY <1>1, <1>2, Induct
<1> QED BY <1>3

-----------------------------------------------------------------------------
(* The hits of a text and where the hits of a row begin. *)

\* No text has the same hit twice in a row.
NoRepeats == \A t \in Text : \A n \in 2..Len(Hits[t]) : Hits[t][n] # Hits[t][n - 1]

\* One turn of the loop over the hits h of a text.
KeepHit(h, n, x) == IF x # <<>> /\ Last(x) = h[n] THEN x ELSE Append(x, h[n])

LEMMA DistinctLoop ==
  ASSUME NEW t \in Text
  PROVE  \E f : /\ f = [n \in 0..Len(Hits[t]) |-> IF n = 0 THEN <<>> ELSE KeepHit(Hits[t], n, f[n - 1])]
                /\ Distinct[t] = f[Len(Hits[t])]
<1> DEFINE h == Hits[t]  N == Len(h)
           Fix(f) == f = [n \in 0..N |-> IF n = 0 THEN <<>> ELSE KeepHit(h, n, f[n - 1])]
           g == [p \in (1..N) \X Seq(Word) |-> KeepHit(h, p[1], p[2])]
<1>1. h \in Seq(Word) /\ N \in Nat /\ \A n \in 1..N : h[n] \in Word
  BY HitsAssumption, LenProperties, ElementOfSeq
<1>2. \A n \in 1..N : \A x \in Seq(Word) : KeepHit(h, n, x) \in Seq(Word)
  BY <1>1, AppendProperties DEF KeepHit
<1>3. g \in [(1..N) \X Seq(Word) -> Seq(Word)]
  BY <1>2
<1>4. <<>> \in Seq(Word)
  BY EmptySeq
<1>5. PICK f \in [0..N -> Seq(Word)] : f[0] = <<>> /\ \A n \in 1..N : f[n] = g[<<n, f[n - 1]>>]
  <2> DEFINE T == Seq(Word)  b == <<>>
  <2>1. b \in T /\ g \in [(1..N) \X T -> T] /\ N \in Nat
    BY <1>1, <1>3, <1>4
  <2> HIDE DEF g, N, T, b
  <2>2. \E f : LoopOf(f, N, T, b, g)
    BY <2>1, Loop
  <2> QED BY <2>2 DEF T, b, LoopOf
<1>6. Fix(f)
  <2>1. ASSUME NEW n \in 1..N PROVE f[n] = KeepHit(h, n, f[n - 1])
    <3>1. n - 1 \in 0..N
      BY <1>1
    <3>2. f[n - 1] \in Seq(Word)
      BY <3>1
    <3> QED BY <1>5, <3>2
  <2>2. \A n \in 0..N : f[n] = IF n = 0 THEN <<>> ELSE KeepHit(h, n, f[n - 1])
    <3>1. \A n \in 0..N : n # 0 => n \in 1..N
      BY <1>1
    <3> HIDE DEF N, h
    <3> QED BY <1>5, <2>1, <3>1
  <2> HIDE DEF N, h
  <2> QED BY <2>2
<1> DEFINE c == CHOOSE f1 : Fix(f1)
<1>7. Fix(c)
  BY <1>6
<1>8. Distinct[t] = c[N]
  BY DEF Distinct, KeepHit
<1> QED BY <1>7, <1>8

LEMMA DistinctType == ASSUME NEW t \in Text PROVE Distinct[t] \in Seq(Word)
<1> DEFINE h == Hits[t]  N == Len(h)
<1>1. h \in Seq(Word) /\ N \in Nat /\ \A n \in 1..N : h[n] \in Word
  BY HitsAssumption, LenProperties, ElementOfSeq
<1>2. PICK f : /\ f = [n \in 0..N |-> IF n = 0 THEN <<>> ELSE KeepHit(h, n, f[n - 1])]
               /\ Distinct[t] = f[N]
  BY DistinctLoop
<1> HIDE DEF N, h
<1>3. f[0] = <<>> /\ \A n \in 1..N : f[n] = KeepHit(h, n, f[n - 1])
  <2>1. 0 \in 0..N /\ \A n \in 1..N : n \in 0..N /\ n # 0
    BY <1>1
  <2> QED BY <1>2, <2>1
<1> DEFINE S == {n \in 0..N : f[n] \in Seq(Word)}
<1>4. 0 \in S
  <2>1. f[0] \in Seq(Word)
    BY <1>3, EmptySeq
  <2> QED BY <1>1, <2>1
<1>5. ASSUME NEW n \in 1..N, n - 1 \in S PROVE n \in S
  <2>1. f[n - 1] \in Seq(Word) /\ h[n] \in Word /\ f[n] = KeepHit(h, n, f[n - 1])
    BY <1>1, <1>3, <1>5
  <2> DEFINE x == f[n - 1]  e == h[n]
  <2> HIDE DEF x, e
  <2>2. Append(x, e) \in Seq(Word)
    BY <2>1, AppendProperties DEF x, e
  <2>3. f[n] \in Seq(Word)
    BY <2>1, <2>2 DEF KeepHit, x, e
  <2> QED BY <1>1, <2>3
<1>6. N \in S
  <2> HIDE DEF S
  <2>1. S \in SUBSET (0..N)
    BY DEF S
  <2>2. \A n \in 0..N : n \in S
    BY <1>1, <1>4, <1>5, <2>1, LoopKeeps
  <2> QED BY <1>1, <2>2
<1> QED BY <1>2, <1>6

LEMMA AllHitsKept == ASSUME NoRepeats, NEW t \in Text PROVE Distinct[t] = Hits[t]
<1> DEFINE h == Hits[t]  N == Len(h)
<1>1. h \in Seq(Word) /\ N \in Nat /\ \A n \in 1..N : h[n] \in Word
  BY HitsAssumption, LenProperties, ElementOfSeq
<1>2. PICK f : /\ f = [n \in 0..N |-> IF n = 0 THEN <<>> ELSE KeepHit(h, n, f[n - 1])]
               /\ Distinct[t] = f[N]
  BY DistinctLoop
<1>9. \A n \in 2..N : h[n] # h[n - 1]
  BY DEF NoRepeats
<1> HIDE DEF N
<1>3. f[0] = <<>> /\ \A n \in 1..N : f[n] = KeepHit(h, n, f[n - 1])
  <2> HIDE DEF h
  <2>1. 0 \in 0..N /\ \A n \in 1..N : n \in 0..N /\ n # 0
    BY <1>1
  <2> QED BY <1>2, <2>1
<1> DEFINE S == {n \in 0..N : /\ f[n] \in Seq(Word) /\ Len(f[n]) = n
                              /\ \A k \in 1..n : f[n][k] = h[k]}
<1> HIDE DEF h
<1>4. 0 \in S
  <2>1. f[0] \in Seq(Word) /\ Len(f[0]) = 0
    BY <1>3, EmptySeq
  <2> QED BY <1>1, <2>1
<1>5. ASSUME NEW n \in 1..N, n - 1 \in S PROVE n \in S
  <2> DEFINE x == f[n - 1]
  <2>1. x \in Seq(Word) /\ Len(x) = n - 1 /\ \A k \in 1..(n - 1) : x[k] = h[k]
    BY <1>5
  <2>2. ~(x # <<>> /\ Last(x) = h[n])
    <3>1. SUFFICES ASSUME x # <<>>, Last(x) = h[n] PROVE FALSE
      OBVIOUS
    <3>2. Len(x) # 0
      BY <2>1, <3>1, EmptySeq
    <3>3. n - 1 \in 1..(n - 1) /\ n \in 2..N
      BY <1>1, <2>1, <3>2
    <3>4. Last(x) = h[n - 1]
      BY <2>1, <3>3 DEF Last
    <3> QED BY <1>9, <3>1, <3>3, <3>4
  <2>3. f[n] = Append(x, h[n])
    BY <1>3, <2>2 DEF KeepHit
  <2>4. h[n] \in Word
    BY <1>1
  <2> HIDE DEF x
  <2>5. f[n] \in Seq(Word) /\ Len(f[n]) = n
    BY <2>1, <2>3, <2>4, AppendProperties
  <2>6. \A k \in 1..n : f[n][k] = h[k]
    <3>1. \A k \in 1..Len(x) : f[n][k] = x[k]
      BY <2>1, <2>3, <2>4, AppendProperties
    <3>2. f[n][Len(x) + 1] = h[n]
      BY <2>1, <2>3, <2>4, AppendProperties
    <3> QED BY <2>1, <3>1, <3>2
  <2> QED BY <2>5, <2>6
<1>6. N \in S
  <2>1. S \in SUBSET (0..N)
    BY DEF S
  <2> HIDE DEF S
  <2>2. \A n \in 0..N : n \in S
    BY <1>1, <1>4, <1>5, <2>1, LoopKeeps
  <2> QED BY <1>1, <2>2
<1>7. f[N] \in Seq(Word) /\ Len(f[N]) = Len(h) /\ \A k \in 1..Len(f[N]) : f[N][k] = h[k]
  BY <1>6 DEF N
<1>8. f[N] = h
  BY <1>1, <1>7, SeqEqual
<1> QED BY <1>2, <1>8 DEF h

LEMMA HitsOfRowType ==
  ASSUME NEW d \in Doc, NEW t \in Text
  PROVE  /\ HitsOfRow(d, t) \in Seq([doc : Doc, word : Word])
         /\ Len(HitsOfRow(d, t)) = Len(Distinct[t]) /\ Len(Distinct[t]) \in Nat
         /\ \A n \in 1..Len(Distinct[t]) : HitsOfRow(d, t)[n] = [doc |-> d, word |-> Distinct[t][n]]
<1>1. Distinct[t] \in Seq(Word) /\ Len(Distinct[t]) \in Nat
  BY DistinctType, LenProperties
<1>2. \A n \in 1..Len(Distinct[t]) : Distinct[t][n] \in Word
  BY <1>1, ElementOfSeq
<1> QED BY <1>1, <1>2 DEF HitsOfRow

\* The counts of the rows before row r, summed up.
LEMMA HitIndexLoop ==
  ASSUME NEW a, a.counts \in Seq(Nat)
  PROVE  /\ HitIndex(a, 1) = 0
         /\ \A r \in 1..Len(a.counts) + 1 : HitIndex(a, r) \in Nat
         /\ \A r \in 1..Len(a.counts) : HitIndex(a, r + 1) = HitIndex(a, r) + a.counts[r]
<1> DEFINE h == a.counts  N == Len(h)
           Fix(f) == f = [n \in 0..N |-> IF n = 0 THEN 0 ELSE f[n - 1] + h[n]]
           g == [p \in (1..N) \X Nat |-> p[2] + h[p[1]]]
<1>1. N \in Nat /\ \A n \in 1..N : h[n] \in Nat
  BY LenProperties, ElementOfSeq
<1>2. g \in [(1..N) \X Nat -> Nat]
  <2> HIDE DEF N, h
  <2> QED BY <1>1
<1>3. PICK f : LoopOf(f, N, Nat, 0, g)
  <2> HIDE DEF g, N
  <2> QED BY <1>1, <1>2, Loop
<1>4. Fix(f)
  <2> HIDE DEF N, h
  <2>1. ASSUME NEW n \in 1..N PROVE f[n] = f[n - 1] + h[n]
    <3>1. n - 1 \in 0..N
      BY <1>1
    <3>2. f[n - 1] \in Nat
      BY <1>3, <3>1 DEF LoopOf
    <3> QED BY <1>3, <3>2 DEF LoopOf
  <2>2. \A n \in 0..N : n # 0 => n \in 1..N
    BY <1>1
  <2> QED BY <1>3, <2>1, <2>2 DEF LoopOf
<1> DEFINE c == CHOOSE f1 : Fix(f1)
<1>5. Fix(c)
  BY <1>4
<1>6. \A r : HitIndex(a, r) = c[r - 1]
  BY DEF HitIndex
<1> HIDE DEF N, h
<1>7. c[0] = 0 /\ \A n \in 1..N : c[n] = c[n - 1] + h[n]
  <2>1. 0 \in 0..N /\ \A n \in 1..N : n \in 0..N /\ n # 0
    BY <1>1
  <2> QED BY <1>5, <2>1
<1> HIDE DEF c
<1>8. \A n \in 0..N : c[n] \in Nat
  <2> DEFINE S == {n \in 0..N : c[n] \in Nat}
  <2>1. S \in SUBSET (0..N) /\ 0 \in S
    BY <1>1, <1>7
  <2>2. ASSUME NEW n \in 1..N, n - 1 \in S PROVE n \in S
    <3>1. c[n - 1] \in Nat /\ h[n] \in Nat /\ n \in 0..N
      BY <1>1, <2>2
    <3> QED BY <1>7, <3>1
  <2>3. \A n \in 0..N : n \in S
    <3> HIDE DEF S
    <3> QED BY <1>1, <2>1, <2>2, LoopKeeps
  <2> QED BY <2>3
<1>9. HitIndex(a, 1) = 0
  BY <1>6, <1>7
<1>10. \A r \in 1..N + 1 : HitIndex(a, r) \in Nat
  <2>1. \A r \in 1..N + 1 : r - 1 \in 0..N
    BY <1>1
  <2> QED BY <1>6, <1>8, <2>1
<1>11. \A r \in 1..N : HitIndex(a, r + 1) = HitIndex(a, r) + h[r]
  <2>1. \A r \in 1..N : (r + 1) - 1 = r
    BY <1>1
  <2> QED BY <1>6, <1>7, <2>1
<1> QED BY <1>9, <1>10, <1>11 DEF N, h

\* Later rows begin behind earlier ones.
LEMMA HitIndexRises ==
  ASSUME NEW a, a.counts \in Seq(Nat), NEW r \in 1..Len(a.counts) + 1
  PROVE  HitIndex(a, r) <= HitIndex(a, Len(a.counts) + 1)
<1> DEFINE N == Len(a.counts)  P(k) == HitIndex(a, k)  last == P(N + 1)
           S == {n \in 0..N : P(N + 1 - n) <= last}
<1>1. N \in Nat /\ (\A k \in 1..N + 1 : P(k) \in Nat) /\ \A k \in 1..N : P(k + 1) = P(k) + a.counts[k]
  BY HitIndexLoop, LenProperties
<1>2. \A k \in 1..N : a.counts[k] \in Nat
  BY ElementOfSeq
<1> HIDE DEF N, P
<1>3. 0 \in S
  <2>1. N + 1 - 0 = N + 1 /\ N + 1 \in 1..N + 1
    BY <1>1
  <2>2. last \in Nat
    BY <1>1, <2>1
  <2> HIDE DEF last
  <2>3. P(N + 1 - 0) <= last
    BY <2>1, <2>2 DEF last
  <2> QED BY <1>1, <2>3
<1>4. ASSUME NEW n \in 1..N, n - 1 \in S PROVE n \in S
  <2> DEFINE k == N + 1 - n
  <2>1. k \in 1..N /\ k + 1 = N + 1 - (n - 1) /\ k \in 1..N + 1 /\ k + 1 \in 1..N + 1 /\ N + 1 \in 1..N + 1
    BY <1>1
  <2> HIDE DEF k
  <2>2. P(k) \in Nat /\ P(k + 1) = P(k) + a.counts[k] /\ a.counts[k] \in Nat /\ last \in Nat
    BY <1>1, <1>2, <2>1 DEF N
  <2>3. P(k + 1) <= last
    BY <1>4, <2>1
  <2> HIDE DEF last
  <2>4. P(k) <= last
    BY <2>2, <2>3
  <2> QED BY <2>4 DEF k, last
<1>5. \A n \in 0..N : n \in S
  <2>1. S \in SUBSET (0..N)
    OBVIOUS
  <2> HIDE DEF S
  <2> QED BY <1>1, <1>3, <1>4, <2>1, LoopKeeps
<1>6. N + 1 - r \in 0..N /\ N + 1 - (N + 1 - r) = r
  BY <1>1 DEF N
<1>7. P(r) <= last
  BY <1>5, <1>6
<1> QED BY <1>7 DEF P, N

\* Another count changes nothing for the rows before.
LEMMA HitIndexAppend ==
  ASSUME NEW a, NEW b, a.counts \in Seq(Nat), NEW c \in Nat, b.counts = Append(a.counts, c)
  PROVE  /\ b.counts \in Seq(Nat)
         /\ \A r \in 1..Len(a.counts) + 1 : HitIndex(b, r) = HitIndex(a, r)
         /\ HitIndex(b, Len(b.counts) + 1) = HitIndex(a, Len(a.counts) + 1) + c
<1> DEFINE N == Len(a.counts)
<1>1. /\ N \in Nat /\ b.counts \in Seq(Nat) /\ Len(b.counts) = N + 1
      /\ \A n \in 1..N : b.counts[n] = a.counts[n]
      /\ b.counts[N + 1] = c
  BY LenProperties, AppendProperties
<1>2. HitIndex(a, 1) = 0 /\ \A r \in 1..N : HitIndex(a, r + 1) = HitIndex(a, r) + a.counts[r]
  BY HitIndexLoop
<1>3. /\ HitIndex(b, 1) = 0
      /\ \A r \in 1..Len(b.counts) : HitIndex(b, r + 1) = HitIndex(b, r) + b.counts[r]
  BY <1>1, HitIndexLoop
<1> HIDE DEF N
<1> DEFINE S == {n \in 0..N : HitIndex(b, n + 1) = HitIndex(a, n + 1)}
<1>4. 0 \in S
  BY <1>1, <1>2, <1>3
<1>5. ASSUME NEW n \in 1..N, n - 1 \in S PROVE n \in S
  <2>1. n \in 1..Len(b.counts) /\ (n - 1) + 1 = n
    BY <1>1
  <2>2. HitIndex(b, n) = HitIndex(a, n)
    BY <1>5, <2>1
  <2>3. HitIndex(b, n + 1) = HitIndex(a, n + 1)
    BY <1>1, <1>2, <1>3, <2>1, <2>2
  <2> QED BY <1>1, <2>3
<1>6. \A n \in 0..N : n \in S
  <2>1. S \in SUBSET (0..N)
    OBVIOUS
  <2> HIDE DEF S
  <2> QED BY <1>1, <1>4, <1>5, <2>1, LoopKeeps
<1>7. \A r \in 1..N + 1 : HitIndex(b, r) = HitIndex(a, r)
  <2>1. \A r \in 1..N + 1 : r - 1 \in 0..N /\ (r - 1) + 1 = r
    BY <1>1
  <2> QED BY <1>6, <2>1
<1>8. HitIndex(b, Len(b.counts) + 1) = HitIndex(a, N + 1) + c
  <2>1. N + 1 \in 1..Len(b.counts) /\ N + 1 \in 1..N + 1
    BY <1>1
  <2> QED BY <1>1, <1>3, <1>7, <2>1
<1> QED BY <1>1, <1>7, <1>8 DEF N

-----------------------------------------------------------------------------
(* How often v is among the elements p + 1 to q of h. *)

Places(h, p, q, v) == {n \in p + 1..q : h[n] = v}
Times(h, p, q, v)  == Cardinality(Places(h, p, q, v))

LEMMA TimesType ==
  ASSUME NEW h, NEW p \in Nat, NEW q \in Nat, NEW v
  PROVE  IsFiniteSet(Places(h, p, q, v)) /\ Times(h, p, q, v) \in Nat
<1>1. IsFiniteSet(p + 1..q)
  BY FS_Interval
<1>2. IsFiniteSet(Places(h, p, q, v))
  BY <1>1, FS_Subset DEF Places
<1> QED BY <1>2, FS_CardinalityType DEF Times

LEMMA TimesSplit ==
  ASSUME NEW h, NEW p \in Nat, NEW m \in Nat, NEW q \in Nat, p <= m, m <= q, NEW v
  PROVE  Times(h, p, q, v) = Times(h, p, m, v) + Times(h, m, q, v)
<1> DEFINE A == Places(h, p, m, v)  B == Places(h, m, q, v)
<1>1. IsFiniteSet(A) /\ IsFiniteSet(B) /\ Times(h, p, m, v) \in Nat /\ Times(h, m, q, v) \in Nat
  BY TimesType
<1>2. A \cap B = {}
  BY DEF Places
<1>3. Places(h, p, q, v) = A \cup B
  BY DEF Places
<1>4. Cardinality(A \cup B) = Cardinality(A) + Cardinality(B) - Cardinality(A \cap B)
  BY <1>1, FS_Union
<1>5. Cardinality(A \cap B) = 0
  BY <1>2, FS_EmptySet
<1> QED BY <1>1, <1>3, <1>4, <1>5 DEF Times

\* v is among the l elements behind p of g just where w is among those behind q of h.
Alike(g, p, v, h, q, w, l) == \A k \in 1..l : g[p + k] = v <=> h[q + k] = w

LEMMA TimesShift ==
  ASSUME NEW g, NEW h, NEW p \in Nat, NEW q \in Nat, NEW l \in Nat, NEW i, NEW j, NEW v, NEW w,
         i = p + l, j = q + l, Alike(g, p, v, h, q, w, l)
  PROVE  Times(g, p, i, v) = Times(h, q, j, w)
<1> DEFINE A == Places(g, p, i, v)  B == Places(h, q, j, w)
           f == [n \in A |-> n - p + q]
<1>1. \A n \in A : n - p \in 1..l /\ n \in Int /\ n = p + (n - p) /\ n - p + q = q + (n - p)
  BY DEF Places
<1>2. \A n \in B : n - q \in 1..l /\ n \in Int /\ n = q + (n - q)
  BY DEF Places
<1>0. \A k \in 1..l : g[p + k] = v <=> h[q + k] = w
  BY DEF Alike
<1>3. f \in [A -> B]
  <2>1. ASSUME NEW n \in A PROVE n - p + q \in B
    <3> DEFINE k == n - p
    <3>1. k \in 1..l /\ n = p + k /\ n - p + q = q + k /\ g[n] = v
      BY <1>1 DEF Places
    <3> HIDE DEF k
    <3>2. h[q + k] = w /\ q + k \in q + 1..q + l
      BY <1>0, <3>1
    <3> QED BY <3>1, <3>2 DEF Places
  <2> QED BY <2>1
<1>4. \A x, y \in A : f[x] = f[y] => x = y
  <2>1. \A x, y \in A : x \in Int /\ y \in Int
    BY <1>1
  <2> HIDE DEF A, B
  <2> QED BY <2>1
<1>5. \A y \in B : \E x \in A : f[x] = y
  <2> SUFFICES ASSUME NEW y \in B PROVE \E x \in A : f[x] = y
    OBVIOUS
  <2> DEFINE k == y - q
  <2>1. k \in 1..l /\ y = q + k /\ h[y] = w
    BY <1>2 DEF Places
  <2> HIDE DEF k
  <2>2. g[p + k] = v /\ p + k \in p + 1..p + l /\ (p + k) - p + q = y
    BY <1>0, <2>1
  <2>3. p + k \in A
    BY <2>2 DEF Places
  <2> QED BY <2>2, <2>3
<1>6. f \in Bijection(A, B)
  <2> HIDE DEF f, A, B
  <2> QED BY <1>3, <1>4, <1>5 DEF Bijection, Injection, Surjection, IsInjective
<1>7. IsFiniteSet(A)
  BY TimesType
<1>8. Cardinality(A) = Cardinality(B)
  <2> HIDE DEF f, A, B
  <2> QED BY <1>6, <1>7, FS_Bijection DEF ExistsBijection
<1> QED BY <1>8 DEF Times

LEMMA TimesNone ==
  ASSUME NEW h, NEW p \in Nat, NEW q \in Nat, NEW v, \A n \in p + 1..q : h[n] # v
  PROVE  Times(h, p, q, v) = 0
<1>1. Places(h, p, q, v) = {}
  BY DEF Places
<1> QED BY <1>1, FS_EmptySet DEF Times

-----------------------------------------------------------------------------
(* What CleanupDuplicates leaves. *)

Row == [doc : Doc, text : Text, cols : 0..MaxAlters]
Hit == [doc : Doc, word : Word]
Acc == [index : Index \cup {NoIndex}, rows : Seq(Row), hits : Seq(Hit), counts : Seq(Nat),
        kill : SUBSET Doc]

\* The hits of every row are where the counts have it.
Blocks(a) ==
  /\ Len(a.counts) = Len(a.rows)
  /\ Len(a.hits) = HitIndex(a, Len(a.rows) + 1)
  /\ \A r \in 1..Len(a.rows) :
       /\ a.counts[r] = Len(Distinct[a.rows[r].text])
       /\ \A k \in 1..a.counts[r] : a.hits[HitIndex(a, r) + k]
                                      = [doc |-> a.rows[r].doc, word |-> Distinct[a.rows[r].text][k]]

LEMMA AccFacts ==
  ASSUME NEW a \in Acc
  PROVE  /\ Len(a.rows) \in Nat /\ Len(a.hits) \in Nat /\ Len(a.counts) \in Nat
         /\ a.rows \in Seq(Row) /\ a.hits \in Seq(Hit) /\ a.counts \in Seq(Nat)
         /\ \A r \in 1..Len(a.rows) : /\ a.rows[r] \in Row
                                      /\ a.rows[r].doc \in Doc /\ a.rows[r].text \in Text
         /\ \A r \in 1..Len(a.counts) : a.counts[r] \in Nat
<1>1. a.rows \in Seq(Row) /\ a.hits \in Seq(Hit) /\ a.counts \in Seq(Nat)
  BY DEF Acc
<1>2. \A r \in 1..Len(a.rows) : a.rows[r] \in Row
  BY <1>1, ElementOfSeq
<1> QED BY <1>1, <1>2, LenProperties, ElementOfSeq DEF Row

\* Of the rows of a document the last one stays.
LEMMA LastStays ==
  ASSUME NEW a \in Acc, NEW r \in 1..Len(a.rows)
  PROVE  \E n \in (1..Len(a.rows)) \ Duplicates(a) : n >= r /\ a.rows[n].doc = a.rows[r].doc
<1> DEFINE L == Len(a.rows)  d == a.rows[r].doc
           S == {n \in Nat : \A k \in 1..L : L - k <= n /\ a.rows[k].doc = d =>
                   \E m \in (1..L) \ Duplicates(a) : m >= k /\ a.rows[m].doc = d}
<1>1. L \in Nat
  BY AccFacts
<1>2. ASSUME NEW k \in 1..L, a.rows[k].doc = d, k \in Duplicates(a)
      PROVE  \E m \in k + 1..L : a.rows[m].doc = d
  BY <1>2 DEF Duplicates
<1> HIDE DEF L, d
<1>3. 0 \in S
  <2> SUFFICES ASSUME NEW k \in 1..L, L - k <= 0, a.rows[k].doc = d
               PROVE  \E m \in (1..L) \ Duplicates(a) : m >= k /\ a.rows[m].doc = d
    OBVIOUS
  <2>1. k \notin Duplicates(a)
    BY <1>1, <1>2
  <2> QED BY <2>1
<1>4. ASSUME NEW n \in Nat, n \in S PROVE n + 1 \in S
  <2> SUFFICES ASSUME NEW k \in 1..L, L - k <= n + 1, a.rows[k].doc = d
               PROVE  \E m \in (1..L) \ Duplicates(a) : m >= k /\ a.rows[m].doc = d
    BY <1>4
  <2>1. CASE k \in Duplicates(a)
    <3>1. PICK m \in k + 1..L : a.rows[m].doc = d
      BY <1>2, <2>1
    <3>2. m \in 1..L /\ L - m <= n /\ m >= k
      BY <1>1, <3>1
    <3>3. PICK i \in (1..L) \ Duplicates(a) : i >= m /\ a.rows[i].doc = d
      BY <1>4, <3>1, <3>2
    <3>4. i >= k
      BY <1>1, <3>2, <3>3
    <3> QED BY <3>3, <3>4
  <2>2. CASE k \notin Duplicates(a)
    BY <2>2
  <2> QED BY <2>1, <2>2
<1>5. L - r \in Nat /\ r \in 1..L
  BY <1>1 DEF L
<1>6. L - r \in S
  <2> HIDE DEF S
  <2> QED BY <1>3, <1>4, <1>5, Induct
<1>7. L - r <= L - r /\ a.rows[r].doc = d
  BY <1>5 DEF d
<1> QED BY <1>5, <1>6, <1>7 DEF L, d

KeepRow(a, n, x) == IF n \in Duplicates(a) THEN x ELSE Append(x, a.rows[n])

LEMMA RowsLoop ==
  ASSUME NEW a \in Acc
  PROVE  \E f : /\ f[0] = <<>> /\ \A n \in 1..Len(a.rows) : f[n] = KeepRow(a, n, f[n - 1])
                /\ LastRows(a) = f[Len(a.rows)]
<1> DEFINE N == Len(a.rows)
           Fix(f) == f = [n \in 0..N |-> IF n = 0 THEN <<>> ELSE KeepRow(a, n, f[n - 1])]
           g == [p \in (1..N) \X Seq(Row) |-> KeepRow(a, p[1], p[2])]
<1>1. N \in Nat /\ \A n \in 1..N : a.rows[n] \in Row
  BY AccFacts
<1>2. \A n \in 1..N : \A x \in Seq(Row) : KeepRow(a, n, x) \in Seq(Row)
  BY <1>1, AppendProperties DEF KeepRow
<1>3. g \in [(1..N) \X Seq(Row) -> Seq(Row)]
  BY <1>2
<1>4. \E f : LoopOf(f, N, Seq(Row), <<>>, g)
  <2> DEFINE T == Seq(Row)  b == <<>>
  <2>1. b \in T /\ g \in [(1..N) \X T -> T]
    BY <1>3, EmptySeq
  <2> HIDE DEF g, N, T, b
  <2>2. \E f : LoopOf(f, N, T, b, g)
    BY <1>1, <2>1, Loop
  <2> QED BY <2>2 DEF T, b
<1>5. PICK f : LoopOf(f, N, Seq(Row), <<>>, g)
  BY <1>4
<1>6. Fix(f)
  <2> HIDE DEF N
  <2>1. ASSUME NEW n \in 1..N PROVE f[n] = KeepRow(a, n, f[n - 1])
    <3>1. n - 1 \in 0..N
      BY <1>1
    <3>2. f[n - 1] \in Seq(Row)
      BY <1>5, <3>1 DEF LoopOf
    <3> QED BY <1>5, <3>2 DEF LoopOf
  <2>2. \A n \in 0..N : n # 0 => n \in 1..N
    BY <1>1
  <2>3. f = [n \in 0..N |-> f[n]] /\ f[0] = <<>>
    BY <1>5 DEF LoopOf
  <2>4. \A n \in 0..N : f[n] = IF n = 0 THEN <<>> ELSE KeepRow(a, n, f[n - 1])
    BY <2>1, <2>2, <2>3
  <2> QED BY <2>3, <2>4
<1> DEFINE c == CHOOSE f1 : Fix(f1)
<1>7. Fix(c)
  BY <1>6
<1>8. LastRows(a) = c[N]
  BY DEF LastRows, KeepRow
<1> HIDE DEF N, c
<1>9. c[0] = <<>> /\ \A n \in 1..N : c[n] = KeepRow(a, n, c[n - 1])
  <2>1. 0 \in 0..N /\ \A n \in 1..N : n \in 0..N /\ n # 0
    BY <1>1
  <2> QED BY <1>7, <2>1
<1> QED BY <1>8, <1>9 DEF N

\* The rows that are left are just those that are no duplicates.
LEMMA RowsLeft ==
  ASSUME NEW a \in Acc
  PROVE  /\ LastRows(a) \in Seq(Row)
         /\ \A n \in 1..Len(LastRows(a)) :
              \E r \in (1..Len(a.rows)) \ Duplicates(a) : LastRows(a)[n] = a.rows[r]
         /\ \A r \in (1..Len(a.rows)) \ Duplicates(a) :
              \E n \in 1..Len(LastRows(a)) : LastRows(a)[n] = a.rows[r]
<1> DEFINE N == Len(a.rows)
<1>1. N \in Nat /\ \A n \in 1..N : a.rows[n] \in Row
  BY AccFacts
<1>2. PICK f : /\ f[0] = <<>> /\ \A n \in 1..N : f[n] = KeepRow(a, n, f[n - 1])
               /\ LastRows(a) = f[N]
  BY RowsLoop
<1> HIDE DEF N
<1> DEFINE Left(x, m) ==
             /\ x \in Seq(Row)
             /\ \A n \in 1..Len(x) : \E r \in (1..m) \ Duplicates(a) : x[n] = a.rows[r]
             /\ \A r \in (1..m) \ Duplicates(a) : \E n \in 1..Len(x) : x[n] = a.rows[r]
           S == {m \in 0..N : Left(f[m], m)}
<1>3. 0 \in S
  <2>1. f[0] \in Seq(Row) /\ Len(f[0]) = 0
    BY <1>2, EmptySeq
  <2> QED BY <1>1, <2>1
<1>4. ASSUME NEW m \in 1..N, m - 1 \in S PROVE m \in S
  <2> DEFINE x == f[m - 1]  y == f[m]  e == a.rows[m]
  <2>1. Left(x, m - 1) /\ y = KeepRow(a, m, x) /\ e \in Row
    BY <1>1, <1>2, <1>4
  <2>2. Left(y, m)
    <3> HIDE DEF x, y, e
    <3>1. CASE m \in Duplicates(a)
      <4>1. y = x
        BY <2>1, <3>1 DEF KeepRow
      <4>2. (1..m) \ Duplicates(a) = (1..m - 1) \ Duplicates(a)
        BY <1>1, <3>1
      <4> QED BY <2>1, <4>1, <4>2
    <3>2. CASE m \notin Duplicates(a)
      <4>1. y = Append(x, e) /\ x \in Seq(Row)
        BY <2>1, <3>2 DEF KeepRow, e
      <4>2. /\ y \in Seq(Row) /\ Len(y) = Len(x) + 1 /\ Len(x) \in Nat
            /\ (\A i \in 1..Len(x) : y[i] = x[i]) /\ y[Len(x) + 1] = e
        BY <2>1, <4>1, AppendProperties, LenProperties
      <4>3. (1..m) \ Duplicates(a) = ((1..m - 1) \ Duplicates(a)) \cup {m}
        BY <1>1, <3>2
      <4>4. ASSUME NEW n \in 1..Len(y)
            PROVE  \E r \in (1..m) \ Duplicates(a) : y[n] = a.rows[r]
        <5>1. CASE n = Len(x) + 1
          BY <4>2, <4>3, <5>1 DEF e
        <5>2. CASE n # Len(x) + 1
          <6>1. n \in 1..Len(x)
            BY <4>2, <5>2
          <6> QED BY <2>1, <4>2, <4>3, <6>1, ZenonT(40)
        <5> QED BY <5>1, <5>2
      <4>5. ASSUME NEW r \in (1..m) \ Duplicates(a)
            PROVE  \E n \in 1..Len(y) : y[n] = a.rows[r]
        <5>1. CASE r = m
          <6>1. Len(x) + 1 \in 1..Len(y)
            BY <4>2
          <6> QED BY <4>2, <5>1, <6>1 DEF e
        <5>2. CASE r # m
          <6>1. r \in (1..m - 1) \ Duplicates(a)
            BY <4>3, <5>2
          <6>2. PICK n \in 1..Len(x) : x[n] = a.rows[r]
            BY <2>1, <6>1
          <6>3. n \in 1..Len(y) /\ y[n] = a.rows[r]
            BY <4>2, <6>2
          <6> QED BY <6>3
        <5> QED BY <5>1, <5>2
      <4> QED BY <4>2, <4>4, <4>5
    <3> QED BY <3>1, <3>2
  <2> QED BY <1>1, <2>2
<1>5. N \in S
  <2>1. S \in SUBSET (0..N)
    OBVIOUS
  <2> HIDE DEF S
  <2>2. \A n \in 0..N : n \in S
    BY <1>1, <1>3, <1>4, <2>1, LoopKeeps
  <2> QED BY <1>1, <2>2
<1>6. Left(f[N], N)
  BY <1>5
<1> QED BY <1>2, <1>6 DEF N

LEMMA CutType ==
  ASSUME NEW h \in Seq(Hit), NEW p \in Nat, NEW n \in Nat
  PROVE  /\ Cut(h, p, n) \in Seq(Hit)
         /\ p + n <= Len(h) =>
              /\ Len(Cut(h, p, n)) = Len(h) - n
              /\ \A k \in 1..p : Cut(h, p, n)[k] = h[k]
              /\ \A k \in 1..Len(h) - (p + n) : Cut(h, p, n)[p + k] = h[p + n + k]
<1>1. Len(h) \in Nat /\ \A k \in 1..Len(h) : h[k] \in Hit
  BY LenProperties, ElementOfSeq
<1> DEFINE L == Len(h)
<1> HIDE DEF L
<1>2. L \in Nat /\ L = Len(h)
  BY <1>1 DEF L
<1>3. CASE p + n < Len(h)
  <2> DEFINE x == SubSeq(h, 1, p)  y == SubSeq(h, p + n + 1, L)
  <2>1. x \in Seq(Hit) /\ Len(x) = p /\ \A k \in 1..p : x[k] = h[k]
    <3>1. \A k \in 1..p : h[k] \in Hit
      BY <1>1, <1>2, <1>3
    <3>2. /\ x \in Seq(Hit) /\ Len(x) = IF 1 <= p THEN p - 1 + 1 ELSE 0
          /\ \A k \in 1..p - 1 + 1 : x[k] = h[1 + k - 1]
      BY <3>1, SubSeqProperties
    <3> HIDE DEF x
    <3>3. p - 1 + 1 = p /\ \A k \in 1..p : 1 + k - 1 = k
      OBVIOUS
    <3> QED BY <3>2, <3>3
  <2>2. /\ y \in Seq(Hit) /\ Len(y) = L - (p + n)
        /\ \A k \in 1..L - (p + n) : y[k] = h[p + n + k]
    <3> DEFINE m == p + n + 1
    <3>1. m \in Int /\ L \in Int /\ \A k \in m..L : h[k] \in Hit
      BY <1>1, <1>2
    <3>2. L - m + 1 = L - (p + n) /\ m <= L
      BY <1>2, <1>3
    <3> DEFINE z == SubSeq(h, m, L)
    <3> HIDE DEF m
    <3>3. /\ z \in Seq(Hit)
          /\ Len(z) = IF m <= L THEN L - m + 1 ELSE 0
          /\ \A k \in 1..L - m + 1 : z[k] = h[m + k - 1]
      BY <3>1, SubSeqProperties
    <3>4. \A k \in 1..L - (p + n) : m + k - 1 = p + n + k
      BY <1>2 DEF m
    <3>5. y = z
      BY DEF m
    <3> HIDE DEF y, z
    <3> QED BY <3>2, <3>3, <3>4, <3>5
  <2>3. Cut(h, p, n) = x \o y
    BY <1>2, <1>3 DEF Cut
  <2> HIDE DEF x, y
  <2>4. /\ x \o y \in Seq(Hit) /\ Len(x \o y) = Len(x) + Len(y)
        /\ \A i \in 1..Len(x) + Len(y) : (x \o y)[i] = IF i <= Len(x) THEN x[i] ELSE y[i - Len(x)]
    BY <2>1, <2>2, ConcatProperties
  <2>5. \A k \in 1..p : (x \o y)[k] = h[k]
    <3> SUFFICES ASSUME NEW k \in 1..p PROVE (x \o y)[k] = h[k]
      OBVIOUS
    <3>1. k \in 1..Len(x) + Len(y) /\ k <= Len(x)
      BY <1>2, <1>3, <2>1, <2>2
    <3> QED BY <2>1, <2>4, <3>1
  <2>6. ASSUME NEW k \in 1..L - (p + n) PROVE (x \o y)[p + k] = h[p + n + k]
    <3>1. p + k \in 1..Len(x) + Len(y) /\ ~(p + k <= Len(x)) /\ (p + k) - Len(x) = k
      BY <1>2, <1>3, <2>1, <2>2
    <3>2. (x \o y)[p + k] = y[k]
      BY <2>4, <3>1
    <3> QED BY <2>2, <3>2
  <2>7. Len(x \o y) = L - n
    BY <1>2, <1>3, <2>1, <2>2, <2>4
  <2> QED BY <1>2, <2>3, <2>4, <2>5, <2>6, <2>7
<1>4. CASE ~(p + n < Len(h))
  <2> DEFINE x == SubSeq(h, 1, L - n)
  <2>1. /\ x \in Seq(Hit) /\ Len(x) = IF 1 <= L - n THEN L - n - 1 + 1 ELSE 0
        /\ \A k \in 1..L - n - 1 + 1 : x[k] = h[1 + k - 1]
    <3>1. L - n \in Int /\ \A k \in 1..L - n : h[k] \in Hit
      BY <1>1, <1>2
    <3> QED BY <3>1, SubSeqProperties
  <2>2. Cut(h, p, n) = x
    BY <1>2, <1>4 DEF Cut
  <2> HIDE DEF x
  <2>3. ASSUME p + n <= Len(h)
        PROVE  /\ Len(x) = L - n /\ \A k \in 1..p : x[k] = h[k]
               /\ L - (p + n) = 0
    <3>1. L - n = p /\ L - n - 1 + 1 = p /\ L - (p + n) = 0 /\ \A k \in 1..p : 1 + k - 1 = k
      BY <1>2, <1>4, <2>3
    <3> QED BY <2>1, <3>1
  <2> QED BY <1>2, <2>1, <2>2, <2>3
<1> QED BY <1>3, <1>4

LEMMA HitsLoop ==
  ASSUME NEW a \in Acc, Len(a.counts) = Len(a.rows)
  PROVE  \E f : /\ f[0] = a.hits
                /\ \A n \in 1..Len(a.rows) : f[n] = CutRow(a, f[n - 1], Len(a.rows) + 1 - n)
                /\ \A n \in 0..Len(a.rows) : f[n] \in Seq(Hit)
                /\ LastHits(a) = f[Len(a.rows)]
<1> DEFINE N == Len(a.rows)  E(n, x) == CutRow(a, x, N + 1 - n)
           Fix(f) == f = [n \in 0..N |-> IF n = 0 THEN a.hits ELSE E(n, f[n - 1])]
           g == [p \in (1..N) \X Seq(Hit) |-> E(p[1], p[2])]
<1>1. N \in Nat /\ a.hits \in Seq(Hit) /\ a.counts \in Seq(Nat) /\ \A r \in 1..N : a.counts[r] \in Nat
  BY AccFacts
<1>2. \A r \in 1..N : HitIndex(a, r) \in Nat
  <2>1. \A r \in 1..N : r \in 1..Len(a.counts) + 1
    BY <1>1
  <2> HIDE DEF N
  <2> QED BY <1>1, <2>1, HitIndexLoop
<1>3. \A n \in 1..N : \A x \in Seq(Hit) : E(n, x) \in Seq(Hit)
  <2> SUFFICES ASSUME NEW n \in 1..N, NEW x \in Seq(Hit) PROVE E(n, x) \in Seq(Hit)
    OBVIOUS
  <2> DEFINE r == N + 1 - n  p == HitIndex(a, r)  c == a.counts[r]
  <2>1. r \in 1..N
    BY <1>1
  <2>2. p \in Nat /\ c \in Nat
    BY <1>1, <1>2, <2>1
  <2> HIDE DEF p, c, N
  <2>3. Cut(x, p, c) \in Seq(Hit)
    BY <2>2, CutType
  <2> QED BY <2>3 DEF CutRow, p, c
<1>4. g \in [(1..N) \X Seq(Hit) -> Seq(Hit)]
  <2> HIDE DEF N, E
  <2> QED BY <1>3
<1>5. PICK f : LoopOf(f, N, Seq(Hit), a.hits, g)
  <2> DEFINE T == Seq(Hit)  b == a.hits
  <2>1. b \in T /\ g \in [(1..N) \X T -> T]
    BY <1>1, <1>4
  <2> HIDE DEF g, N, T, b
  <2>2. \E f : LoopOf(f, N, T, b, g)
    BY <1>1, <2>1, Loop
  <2> QED BY <2>2 DEF T, b
<1>6. Fix(f)
  <2> HIDE DEF N, E
  <2>1. ASSUME NEW n \in 1..N PROVE f[n] = E(n, f[n - 1])
    <3>1. n - 1 \in 0..N
      BY <1>1
    <3>2. f[n - 1] \in Seq(Hit)
      BY <1>5, <3>1 DEF LoopOf
    <3> QED BY <1>5, <3>2 DEF LoopOf
  <2>2. \A n \in 0..N : n # 0 => n \in 1..N
    BY <1>1
  <2>3. f = [n \in 0..N |-> f[n]] /\ f[0] = a.hits
    BY <1>5 DEF LoopOf
  <2>4. \A n \in 0..N : f[n] = IF n = 0 THEN a.hits ELSE E(n, f[n - 1])
    BY <2>1, <2>2, <2>3
  <2> QED BY <2>3, <2>4
<1> DEFINE z == CHOOSE f1 : Fix(f1)
<1>7. Fix(z)
  BY <1>6
<1>8. LastHits(a) = z[N]
  BY DEF LastHits
<1> HIDE DEF z
<1>9. z[0] = a.hits /\ \A n \in 1..N : z[n] = E(n, z[n - 1])
  <2> HIDE DEF N, E
  <2>1. 0 \in 0..N /\ \A n \in 1..N : n \in 0..N /\ n # 0
    BY <1>1
  <2> QED BY <1>7, <2>1
<1>10. \A n \in 0..N : z[n] \in Seq(Hit)
  <2> HIDE DEF N, E
  <2> DEFINE S == {n \in 0..N : z[n] \in Seq(Hit)}
  <2>1. S \in SUBSET (0..N) /\ 0 \in S
    BY <1>1, <1>9
  <2>2. ASSUME NEW n \in 1..N, n - 1 \in S PROVE n \in S
    BY <1>1, <1>3, <1>9, <2>2
  <2>3. \A n \in 0..N : n \in S
    <3> HIDE DEF S
    <3> QED BY <1>1, <2>1, <2>2, LoopKeeps
  <2> QED BY <2>3
<1> QED BY <1>8, <1>9, <1>10

-----------------------------------------------------------------------------
(* The cuts leave the hits of the last rows. *)

\* h is what is left of the hits of a when the duplicates behind row m are cut.
CutTo(a, h, m) ==
  LET P == HitIndex(a, m + 1) IN
  /\ h \in Seq(Hit) /\ P <= Len(h)
  /\ \A k \in 1..P : h[k] = a.hits[k]
  /\ \A k \in P + 1..Len(h) : \E r \in (m + 1..Len(a.rows)) \ Duplicates(a) : h[k].doc = a.rows[r].doc
  /\ \A r \in (m + 1..Len(a.rows)) \ Duplicates(a) : \A w \in Word :
       Times(h, P, Len(h), [doc |-> a.rows[r].doc, word |-> w])
         = Times(Distinct[a.rows[r].text], 0, Len(Distinct[a.rows[r].text]), w)

\* Where row m begins and ends.
LEMMA BlockAt ==
  ASSUME NEW a \in Acc, Blocks(a), NEW m \in 1..Len(a.rows)
  PROVE  /\ HitIndex(a, m) \in Nat /\ HitIndex(a, m + 1) \in Nat /\ a.counts[m] \in Nat
         /\ HitIndex(a, m + 1) = HitIndex(a, m) + a.counts[m]
         /\ HitIndex(a, m + 1) <= Len(a.hits)
<1>1. Len(a.counts) = Len(a.rows) /\ Len(a.rows) \in Nat /\ a.counts \in Seq(Nat)
  BY AccFacts DEF Blocks
<1>2. m \in 1..Len(a.counts) /\ m \in 1..Len(a.counts) + 1 /\ m + 1 \in 1..Len(a.counts) + 1
  BY <1>1
<1>3. /\ HitIndex(a, m) \in Nat /\ HitIndex(a, m + 1) \in Nat
      /\ HitIndex(a, m + 1) = HitIndex(a, m) + a.counts[m]
  BY <1>1, <1>2, HitIndexLoop
<1>4. a.counts[m] \in Nat
  BY <1>1, <1>2, ElementOfSeq
<1>5. HitIndex(a, m + 1) <= HitIndex(a, Len(a.counts) + 1)
  <2> DEFINE r == m + 1
  <2>1. r \in 1..Len(a.counts) + 1
    BY <1>2
  <2> HIDE DEF r
  <2>2. HitIndex(a, r) <= HitIndex(a, Len(a.counts) + 1)
    BY <1>1, <2>1, HitIndexRises
  <2> QED BY <2>2 DEF r
<1> QED BY <1>1, <1>3, <1>4, <1>5 DEF Blocks

\* A row that no later row makes void keeps its hits.
LEMMA KeepsLast ==
  ASSUME NEW a \in Acc, Blocks(a), NEW m \in 1..Len(a.rows), m \notin Duplicates(a),
         NEW h, CutTo(a, h, m)
  PROVE  CutTo(a, h, m - 1)
<1> DEFINE L == Len(a.rows)  P == HitIndex(a, m)  Q == HitIndex(a, m + 1)  c == a.counts[m]
           d == a.rows[m].doc  t == a.rows[m].text  D == Distinct[t]
<1>1. /\ P \in Nat /\ Q \in Nat /\ c \in Nat /\ Q = P + c /\ L \in Nat
      /\ (m - 1) + 1 = m /\ m + 1 \in Int
  BY BlockAt, AccFacts
<1>2. /\ h \in Seq(Hit) /\ Q <= Len(h) /\ Len(h) \in Nat
      /\ \A k \in 1..Q : h[k] = a.hits[k]
      /\ \A k \in Q + 1..Len(h) : \E r \in (m + 1..L) \ Duplicates(a) : h[k].doc = a.rows[r].doc
      /\ \A r \in (m + 1..L) \ Duplicates(a) : \A w \in Word :
           Times(h, Q, Len(h), [doc |-> a.rows[r].doc, word |-> w])
             = Times(Distinct[a.rows[r].text], 0, Len(Distinct[a.rows[r].text]), w)
  BY LenProperties DEF CutTo
<1>3. c = Len(D) /\ \A k \in 1..c : a.hits[P + k] = [doc |-> d, word |-> D[k]]
  BY DEF Blocks
<1>4. \A r \in m + 1..L : a.rows[r].doc # d
  BY DEF Duplicates
<1> HIDE DEF L, P, Q, c, d, t, D
<1>5. \A k \in 1..c : h[P + k] = [doc |-> d, word |-> D[k]]
  <2> SUFFICES ASSUME NEW k \in 1..c PROVE h[P + k] = [doc |-> d, word |-> D[k]]
    OBVIOUS
  <2>1. P + k \in 1..Q
    BY <1>1
  <2> QED BY <1>2, <1>3, <2>1
<1>6. m \in (m..L) \ Duplicates(a) /\ \A r \in (m..L) \ Duplicates(a) : r # m => r \in (m + 1..L) \ Duplicates(a)
  BY <1>1 DEF L
<1>7. \A k \in P + 1..Len(h) : \E r \in (m..L) \ Duplicates(a) : h[k].doc = a.rows[r].doc
  <2> SUFFICES ASSUME NEW k \in P + 1..Len(h)
               PROVE  \E r \in (m..L) \ Duplicates(a) : h[k].doc = a.rows[r].doc
    OBVIOUS
  <2>1. CASE k <= Q
    <3> DEFINE n == k - P
    <3>1. n \in 1..c /\ P + n = k
      BY <1>1, <2>1
    <3> HIDE DEF n
    <3>2. h[P + n] = [doc |-> d, word |-> D[n]]
      BY <1>5, <3>1
    <3>3. h[k].doc = d
      BY <3>1, <3>2
    <3> QED BY <1>6, <3>3 DEF d
  <2>2. CASE ~(k <= Q)
    <3>1. k \in Q + 1..Len(h)
      BY <1>1, <1>2, <2>2
    <3>2. PICK r \in (m + 1..L) \ Duplicates(a) : h[k].doc = a.rows[r].doc
      BY <1>2, <3>1
    <3>3. r \in (m..L) \ Duplicates(a)
      BY <1>1, <3>2
    <3> QED BY <3>2, <3>3
  <2> QED BY <2>1, <2>2
<1>8. ASSUME NEW r \in (m..L) \ Duplicates(a), NEW w \in Word
      PROVE  Times(h, P, Len(h), [doc |-> a.rows[r].doc, word |-> w])
               = Times(Distinct[a.rows[r].text], 0, Len(Distinct[a.rows[r].text]), w)
  <2> DEFINE v == [doc |-> a.rows[r].doc, word |-> w]  e == Len(h)
  <2>1. v.doc = a.rows[r].doc /\ v.word = w /\ e \in Nat /\ Q <= e /\ P <= Q
    BY <1>1, <1>2
  <2> HIDE DEF e
  <2>2. Times(h, P, e, v) = Times(h, P, Q, v) + Times(h, Q, e, v)
    <3> HIDE DEF v
    <3> QED BY <1>1, <2>1, TimesSplit
  <2>3. Times(h, P, Q, v) \in Nat /\ Times(h, Q, e, v) \in Nat
    <3> HIDE DEF v
    <3> QED BY <1>1, <2>1, TimesType
  <2>4. CASE r = m
    <3>1. v = [doc |-> d, word |-> w]
      BY <2>4 DEF d
    <3>2. Times(h, Q, e, v) = 0
      <4>1. ASSUME NEW n \in Q + 1..e PROVE h[n] # v
        <5>1. PICK i \in (m + 1..L) \ Duplicates(a) : h[n].doc = a.rows[i].doc
          BY <1>2, <4>1 DEF e
        <5>2. h[n].doc # d
          BY <1>4, <5>1
        <5> QED BY <3>1, <5>2
      <4> HIDE DEF v
      <4> QED BY <1>1, <2>1, <4>1, TimesNone
    <3>3. Times(h, P, P + c, v) = Times(D, 0, 0 + c, w)
      <4> DEFINE z == 0
      <4>1. \A k \in 1..c : h[P + k] = v <=> D[z + k] = w
        <5> SUFFICES ASSUME NEW k \in 1..c PROVE h[P + k] = v <=> D[k] = w
          BY <1>1
        <5>1. h[P + k] = [doc |-> d, word |-> D[k]]
          BY <1>5
        <5> QED BY <3>1, <5>1
      <4> HIDE DEF v, z
      <4>2. z \in Nat
        BY DEF z
      <4> DEFINE i == P + c  j == z + c
      <4>3. i = P + c /\ j = z + c
        OBVIOUS
      <4>5. Alike(h, P, v, D, z, w, c)
        BY <4>1 DEF Alike
      <4> HIDE DEF i, j
      <4>4. Times(h, P, i, v) = Times(D, z, j, w)
        BY <1>1, <4>2, <4>3, <4>5, TimesShift
      <4> QED BY <4>4 DEF z, i, j
    <3>4. 0 + c = Len(D) /\ D = Distinct[a.rows[r].text] /\ P + c = Q
      BY <1>1, <1>3, <2>4 DEF D, t
    <3> HIDE DEF v
    <3>5. Times(h, P, e, v) = Times(D, 0, Len(D), w)
      BY <2>2, <2>3, <3>2, <3>3, <3>4
    <3> QED BY <3>4, <3>5 DEF v, e
  <2>5. CASE r # m
    <3>1. r \in (m + 1..L) \ Duplicates(a)
      BY <1>6, <2>5
    <3>2. v.doc # d
      BY <1>4, <2>1, <3>1
    <3>3. Times(h, P, Q, v) = 0
      <4>1. ASSUME NEW n \in P + 1..Q PROVE h[n] # v
        <5> DEFINE k == n - P
        <5>1. k \in 1..c /\ P + k = n
          BY <1>1
        <5> HIDE DEF k
        <5>2. h[P + k] = [doc |-> d, word |-> D[k]]
          BY <1>5, <5>1
        <5>3. h[n].doc = d
          BY <5>1, <5>2
        <5> HIDE DEF v
        <5> QED BY <3>2, <5>3
      <4> HIDE DEF v
      <4> QED BY <1>1, <4>1, TimesNone
    <3>4. Times(h, Q, e, v) = Times(Distinct[a.rows[r].text], 0, Len(Distinct[a.rows[r].text]), w)
      BY <1>2, <3>1 DEF e
    <3> HIDE DEF v
    <3>5. Times(h, P, e, v) = Times(h, Q, e, v)
      BY <2>2, <2>3, <3>3
    <3> QED BY <3>4, <3>5 DEF v, e
  <2> QED BY <2>4, <2>5
<1>9. \A k \in 1..P : h[k] = a.hits[k]
  BY <1>1, <1>2
<1>10. P <= Len(h)
  BY <1>1, <1>2
<1> QED BY <1>1, <1>2, <1>7, <1>8, <1>9, <1>10 DEF CutTo, L, P

\* A row that a later row makes void loses its hits, and only they go.
LEMMA CutsVoid ==
  ASSUME NEW a \in Acc, Blocks(a), NEW m \in 1..Len(a.rows), m \in Duplicates(a),
         NEW h, CutTo(a, h, m)
  PROVE  CutTo(a, Cut(h, HitIndex(a, m), a.counts[m]), m - 1)
<1> DEFINE L == Len(a.rows)  P == HitIndex(a, m)  Q == HitIndex(a, m + 1)  c == a.counts[m]
           x == Cut(h, P, c)
<1>1. /\ P \in Nat /\ Q \in Nat /\ c \in Nat /\ Q = P + c /\ L \in Nat
      /\ (m - 1) + 1 = m /\ m + 1 \in Int
  BY BlockAt, AccFacts
<1>2. /\ h \in Seq(Hit) /\ Q <= Len(h) /\ Len(h) \in Nat
      /\ \A k \in 1..Q : h[k] = a.hits[k]
      /\ \A k \in Q + 1..Len(h) : \E r \in (m + 1..L) \ Duplicates(a) : h[k].doc = a.rows[r].doc
      /\ \A r \in (m + 1..L) \ Duplicates(a) : \A w \in Word :
           Times(h, Q, Len(h), [doc |-> a.rows[r].doc, word |-> w])
             = Times(Distinct[a.rows[r].text], 0, Len(Distinct[a.rows[r].text]), w)
  BY LenProperties DEF CutTo
<1> HIDE DEF L, P, Q, c
<1>3. /\ x \in Seq(Hit) /\ Len(x) = Len(h) - c
      /\ \A k \in 1..P : x[k] = h[k]
      /\ \A k \in 1..Len(h) - Q : x[P + k] = h[Q + k]
  <2>1. /\ x \in Seq(Hit)
        /\ P + c <= Len(h) =>
             /\ Len(x) = Len(h) - c
             /\ \A k \in 1..P : x[k] = h[k]
             /\ \A k \in 1..Len(h) - (P + c) : x[P + k] = h[P + c + k]
    BY <1>1, <1>2, CutType, ZenonT(60)
  <2> HIDE DEF x
  <2> QED BY <1>1, <1>2, <2>1
<1> HIDE DEF x
<1> DEFINE l == Len(h) - Q
<1>4. l \in Nat /\ P + l = Len(x) /\ Q + l = Len(h)
  BY <1>1, <1>2, <1>3
<1>5. \A k \in 1..P : x[k] = a.hits[k]
  BY <1>1, <1>2, <1>3
<1>6. (m..L) \ Duplicates(a) = (m + 1..L) \ Duplicates(a)
  BY <1>1
<1>7. \A k \in P + 1..Len(x) : \E r \in (m..L) \ Duplicates(a) : x[k].doc = a.rows[r].doc
  <2> SUFFICES ASSUME NEW k \in P + 1..Len(x)
               PROVE  \E r \in (m..L) \ Duplicates(a) : x[k].doc = a.rows[r].doc
    OBVIOUS
  <2> DEFINE n == k - P
  <2>1. n \in 1..Len(h) - Q /\ P + n = k /\ Q + n \in Q + 1..Len(h)
    BY <1>1, <1>2, <1>3
  <2> HIDE DEF n
  <2>2. x[k] = h[Q + n]
    BY <1>3, <2>1
  <2> QED BY <1>2, <1>6, <2>1, <2>2
<1>8. ASSUME NEW r \in (m..L) \ Duplicates(a), NEW w \in Word
      PROVE  Times(x, P, Len(x), [doc |-> a.rows[r].doc, word |-> w])
               = Times(Distinct[a.rows[r].text], 0, Len(Distinct[a.rows[r].text]), w)
  <2> DEFINE v == [doc |-> a.rows[r].doc, word |-> w]
  <2>1. Times(h, Q, Len(h), v) = Times(Distinct[a.rows[r].text], 0, Len(Distinct[a.rows[r].text]), w)
    BY <1>2, <1>6
  <2>2. Times(x, P, P + l, v) = Times(h, Q, Q + l, v)
    <3>1. \A k \in 1..l : x[P + k] = v <=> h[Q + k] = v
      BY <1>3
    <3>4. Alike(x, P, v, h, Q, v, l)
      BY <3>1 DEF Alike
    <3> DEFINE i == P + l  j == Q + l
    <3>2. i = P + l /\ j = Q + l
      OBVIOUS
    <3> HIDE DEF v, l, i, j
    <3>3. Times(x, P, i, v) = Times(h, Q, j, v)
      BY <1>1, <1>4, <3>2, <3>4, TimesShift
    <3> QED BY <3>3 DEF i, j
  <2> HIDE DEF v, l
  <2>3. Times(x, P, Len(x), v) = Times(h, Q, Len(h), v)
    BY <1>4, <2>2
  <2> QED BY <2>1, <2>3 DEF v
<1>9. P <= Len(x)
  BY <1>1, <1>4
<1>10. CutTo(a, x, m - 1)
  BY <1>1, <1>3, <1>5, <1>7, <1>8, <1>9, ZenonT(60) DEF CutTo, L, P
<1> QED BY <1>10 DEF x, P, c

LEMMA HitsLeft ==
  ASSUME NEW a \in Acc, Blocks(a)
  PROVE  CutTo(a, LastHits(a), 0)
<1> DEFINE L == Len(a.rows)
<1>1. L \in Nat /\ Len(a.counts) = L /\ a.hits \in Seq(Hit) /\ Len(a.hits) = HitIndex(a, L + 1)
      /\ Len(a.hits) \in Nat
  BY AccFacts DEF Blocks
<1>2. PICK f : /\ f[0] = a.hits
               /\ \A n \in 1..L : f[n] = CutRow(a, f[n - 1], L + 1 - n)
               /\ LastHits(a) = f[L]
  BY <1>1, HitsLoop
<1> DEFINE S == {n \in 0..L : CutTo(a, f[n], L - n)}
<1>3. 0 \in S
  <2>1. CutTo(a, a.hits, L)
    <3> HIDE DEF L
    <3>1. (L + 1..L) = {}
      BY <1>1
    <3>2. HitIndex(a, L + 1)  + 1..Len(a.hits) = {}
      BY <1>1
    <3>3. L = Len(a.rows)
      BY DEF L
    <3> QED BY <1>1, <3>1, <3>2, <3>3 DEF CutTo
  <2>2. L - 0 = L
    BY <1>1
  <2> HIDE DEF L
  <2> QED BY <1>1, <1>2, <2>1, <2>2
<1>4. ASSUME NEW n \in 1..L, n - 1 \in S PROVE n \in S
  <2> DEFINE m == L + 1 - n  h == f[n - 1]
  <2>1. m \in 1..L /\ L - (n - 1) = m /\ L - n = m - 1
    BY <1>1
  <2>2. f[n] = CutRow(a, h, m) /\ CutTo(a, h, m)
    BY <1>2, <1>4, <2>1
  <2> HIDE DEF m, h
  <2>3. CutTo(a, f[n], m - 1)
    <3>1. CASE m \in Duplicates(a)
      <4>1. f[n] = Cut(h, HitIndex(a, m), a.counts[m])
        BY <2>2, <3>1 DEF CutRow
      <4> QED BY <2>1, <2>2, <3>1, <4>1, CutsVoid
    <3>2. CASE m \notin Duplicates(a)
      <4>1. f[n] = h
        BY <2>2, <3>2 DEF CutRow
      <4> QED BY <2>1, <2>2, <3>2, <4>1, KeepsLast
    <3> QED BY <3>1, <3>2
  <2> HIDE DEF L
  <2>4. n \in 0..L
    BY <1>1
  <2> QED BY <2>1, <2>3, <2>4
<1>5. L \in S
  <2>1. S \in SUBSET (0..L)
    OBVIOUS
  <2> HIDE DEF S, L
  <2>2. \A n \in 0..L : n \in S
    BY <1>1, <1>3, <1>4, <2>1, LoopKeeps
  <2> QED BY <1>1, <2>2
<1>6. L - L = 0
  BY <1>1
<1> QED BY <1>2, <1>5, <1>6

-----------------------------------------------------------------------------
(* What a commit makes of the accumulator. *)

Stored == [text : Text, words : WordCount, ram : BOOLEAN]

DocsOf(a) == {a.rows[r].doc : r \in 1..Len(a.rows)}
Last1(a)  == (1..Len(a.rows)) \ Duplicates(a)

\* The accumulator that CreateSegment gets.
ToCommit(a) == IF Len(a.rows) <= 1 THEN a ELSE CleanupDuplicates(a)

\* CleanupDuplicates has the counts that it needs.
CountsFit(a) == Len(a.rows) <= 1 \/ Len(a.counts) = Len(a.rows)

\* The rows have the row size of their index, unless ALTER may come between them and the commit.
Fit(a) == AlterInTxn \/ \A r \in 1..Len(a.rows) : a.rows[r].cols = cols[a.index]

TimesIn(h, d) == [w \in Word |-> Times(h, 0, Len(h), [doc |-> d, word |-> w])]

LEMMA SegmentRow ==
  ASSUME ~AlterInTxn, NEW b, b.rows \in Seq(Row), b.hits \in Seq(Hit), Fit(b)
  PROVE  /\ DOMAIN Segment(b) = DocsOf(b)
         /\ \A d \in DocsOf(b) : \E r \in 1..Len(b.rows) :
              /\ b.rows[r].doc = d
              /\ Segment(b)[d] = [text |-> b.rows[r].text, words |-> TimesIn(b.hits, d), ram |-> TRUE]
              /\ Segment(b)[d] \in Stored
<1>1. DOMAIN Segment(b) = DocsOf(b)
  BY DEF Segment, DocsOf
<1>2. ASSUME NEW d \in DocsOf(b)
      PROVE  \E r \in 1..Len(b.rows) :
              /\ b.rows[r].doc = d
              /\ Segment(b)[d] = [text |-> b.rows[r].text, words |-> TimesIn(b.hits, d), ram |-> TRUE]
              /\ Segment(b)[d] \in Stored
  <2> DEFINE r == CHOOSE r1 \in 1..Len(b.rows) : b.rows[r1].doc = d
             words == [w \in Word |-> Cardinality({n \in 1..Len(b.hits) : b.hits[n] = [doc |-> d, word |-> w]})]
  <2>1. r \in 1..Len(b.rows) /\ b.rows[r].doc = d
    BY DEF DocsOf
  <2>2. b.rows[r].cols = cols[b.index] /\ b.rows[r].text \in Text
    <3>1. b.rows[r] \in Row
      BY <2>1, ElementOfSeq
    <3> HIDE DEF r
    <3> QED BY <2>1, <3>1 DEF Fit, Row
  <2>3. Segment(b)[d] = [text |-> IF b.rows[r].cols = cols[b.index] THEN b.rows[r].text ELSE Garbage,
                         words |-> words, ram |-> TRUE]
    BY DEF Segment, DocsOf
  <2>4. words = TimesIn(b.hits, d)
    <3>1. 0 + 1 = 1
      OBVIOUS
    <3> QED BY <3>1 DEF TimesIn, Times, Places
  <2>5. TimesIn(b.hits, d) \in WordCount
    <3>1. Len(b.hits) \in Nat /\ 0 \in Nat
      BY LenProperties
    <3>2. ASSUME NEW w \in Word PROVE Times(b.hits, 0, Len(b.hits), [doc |-> d, word |-> w]) \in Nat
      <4> DEFINE v == [doc |-> d, word |-> w]
      <4> HIDE DEF v
      <4>1. Times(b.hits, 0, Len(b.hits), v) \in Nat
        BY <3>1, TimesType
      <4> QED BY <4>1 DEF v
    <3> QED BY <3>2 DEF TimesIn, WordCount
  <2> HIDE DEF r, words
  <2>6. Segment(b)[d] = [text |-> b.rows[r].text, words |-> TimesIn(b.hits, d), ram |-> TRUE]
    BY <2>2, <2>3, <2>4
  <2>7. Segment(b)[d] \in Stored
    BY <2>2, <2>5, <2>6 DEF Stored
  <2> QED BY <2>1, <2>6, <2>7
<1> QED BY <1>1, <1>2

LEMMA ToCommitRows ==
  ASSUME NEW a \in Acc, CountsFit(a)
  PROVE  /\ ToCommit(a).rows \in Seq(Row) /\ ToCommit(a).hits \in Seq(Hit)
         /\ ToCommit(a).index = a.index
         /\ DocsOf(ToCommit(a)) = DocsOf(a)
         /\ \A n \in 1..Len(ToCommit(a).rows) : \E r \in Last1(a) : ToCommit(a).rows[n] = a.rows[r]
<1>1. a.rows \in Seq(Row) /\ a.hits \in Seq(Hit) /\ Len(a.rows) \in Nat
  BY AccFacts
<1>2. CASE Len(a.rows) <= 1
  <2>1. ToCommit(a) = a
    BY <1>2 DEF ToCommit
  <2>2. Last1(a) = 1..Len(a.rows)
    BY <1>1, <1>2 DEF Last1, Duplicates
  <2> QED BY <1>1, <2>1, <2>2
<1>3. CASE ~(Len(a.rows) <= 1)
  <2> DEFINE b == CleanupDuplicates(a)
  <2>1. b.rows = LastRows(a) /\ b.hits = LastHits(a) /\ b.index = a.index
    BY DEF CleanupDuplicates, Acc
  <2>2. ToCommit(a) = b /\ Len(a.counts) = Len(a.rows)
    BY <1>3 DEF ToCommit, CountsFit
  <2>3. LastHits(a) \in Seq(Hit)
    <3>1. Len(a.rows) \in 0..Len(a.rows)
      BY <1>1
    <3> QED BY <2>2, <3>1, HitsLoop
  <2> HIDE DEF b
  <2>4. /\ b.rows \in Seq(Row)
        /\ \A n \in 1..Len(b.rows) : \E r \in Last1(a) : b.rows[n] = a.rows[r]
        /\ \A r \in Last1(a) : \E n \in 1..Len(b.rows) : b.rows[n] = a.rows[r]
    BY <2>1, RowsLeft DEF Last1
  <2>5. DocsOf(b) \subseteq DocsOf(a)
    <3>1. ASSUME NEW n \in 1..Len(b.rows) PROVE b.rows[n].doc \in DocsOf(a)
      BY <2>4 DEF DocsOf, Last1
    <3> QED BY <3>1 DEF DocsOf
  <2>6. DocsOf(a) \subseteq DocsOf(b)
    <3>1. ASSUME NEW r \in 1..Len(a.rows) PROVE a.rows[r].doc \in DocsOf(b)
      <4>1. PICK m \in Last1(a) : a.rows[m].doc = a.rows[r].doc
        BY LastStays DEF Last1
      <4>2. PICK n \in 1..Len(b.rows) : b.rows[n] = a.rows[m]
        BY <2>4, <4>1
      <4>3. b.rows[n].doc = a.rows[r].doc
        BY <4>1, <4>2
      <4> QED BY <4>3 DEF DocsOf
    <3> QED BY <3>1 DEF DocsOf
  <2> QED BY <2>1, <2>2, <2>3, <2>4, <2>5, <2>6
<1> QED BY <1>2, <1>3

\* The hits are those of the rows.
HitsOfRows(a) ==
  \/ Blocks(a)
  \/ /\ Len(a.rows) < Len(a.counts) /\ Len(a.rows) <= 1
     /\ a.rows = <<>> => a.hits = <<>>
     /\ a.rows # <<>> => a.hits = HitsOfRow(a.rows[1].doc, a.rows[1].text)

LEMMA CommittedHits ==
  ASSUME NEW a \in Acc, HitsOfRows(a), CountsFit(a), NEW r \in Last1(a)
  PROVE  TimesIn(ToCommit(a).hits, a.rows[r].doc) = ContentOf[a.rows[r].text].words
<1> DEFINE d == a.rows[r].doc  t == a.rows[r].text  D == Distinct[t]  h == ToCommit(a).hits
           L == Len(a.rows)
<1>1. r \in 1..L /\ r \notin Duplicates(a) /\ d \in Doc /\ t \in Text /\ L \in Nat
  BY AccFacts DEF Last1
<1>2. ContentOf[t].words = [w \in Word |-> Times(D, 0, Len(D), w)]
  <2>1. 0 + 1 = 1
    OBVIOUS
  <2> QED BY <1>1, <2>1 DEF ContentOf, Times, Places
<1>3. ASSUME NEW w \in Word
      PROVE  Times(h, 0, Len(h), [doc |-> d, word |-> w]) = Times(D, 0, Len(D), w)
  <2>1. CASE Blocks(a) /\ L > 1
    <3>1. h = LastHits(a)
      BY <1>1, <2>1 DEF ToCommit, CleanupDuplicates, Acc
    <3>2. CutTo(a, LastHits(a), 0)
      BY <2>1, HitsLeft
    <3>3. HitIndex(a, 0 + 1) = 0
      <4>1. a.counts \in Seq(Nat) /\ 0 + 1 = 1
        BY AccFacts
      <4> QED BY <4>1, HitIndexLoop
    <3>4. r \in (0 + 1..Len(a.rows)) \ Duplicates(a)
      BY <1>1
    <3> HIDE DEF h, L
    <3> QED BY <3>1, <3>2, <3>3, <3>4 DEF CutTo
  <2>2. CASE ~(Blocks(a) /\ L > 1)
    <3>1. L = 1 /\ r = 1
      <4>1. CASE Blocks(a)
        <5>1. ~(L > 1)
          BY <2>2, <4>1
        <5> HIDE DEF L
        <5> QED BY <1>1, <5>1
      <4>2. CASE ~Blocks(a)
        <5>1. L <= 1
          BY <4>2 DEF HitsOfRows
        <5> HIDE DEF L
        <5> QED BY <1>1, <5>1
      <4> QED BY <4>1, <4>2
    <3>2. h = a.hits
      BY <3>1 DEF ToCommit
    <3>3. Len(h) = Len(D) /\ \A k \in 1..Len(D) : h[k] = [doc |-> d, word |-> D[k]]
      <4>1. CASE Blocks(a)
        <5>1. /\ Len(a.counts) = 1 /\ Len(a.hits) = HitIndex(a, 1 + 1) /\ a.counts[1] = Len(D)
              /\ \A k \in 1..a.counts[1] : a.hits[HitIndex(a, 1) + k] = [doc |-> d, word |-> D[k]]
          BY <3>1, <4>1 DEF Blocks
        <5>2. HitIndex(a, 1) = 0 /\ HitIndex(a, 1 + 1) = HitIndex(a, 1) + a.counts[1]
          <6>1. a.counts \in Seq(Nat) /\ 1 \in 1..Len(a.counts)
            BY <5>1, AccFacts
          <6> QED BY <6>1, HitIndexLoop
        <5>3. Len(D) \in Nat
          BY <1>1, HitsOfRowType
        <5> HIDE DEF d, D, h
        <5> QED BY <3>2, <5>1, <5>2, <5>3
      <4>2. CASE ~Blocks(a)
        <5>1. a.rows # <<>>
          <6>1. a.rows = <<>> => Len(a.rows) = 0
            BY EmptySeq
          <6> QED BY <3>1, <6>1
        <5>2. h = HitsOfRow(d, t)
          BY <3>1, <3>2, <4>2, <5>1 DEF HitsOfRows
        <5> QED BY <1>1, <5>2, HitsOfRowType
      <4> QED BY <4>1, <4>2
    <3> DEFINE z == 0  l == Len(D)  v == [doc |-> d, word |-> w]
    <3>4. l \in Nat
      BY <1>1, HitsOfRowType
    <3>5. Alike(h, z, v, D, z, w, l)
      <4> SUFFICES ASSUME NEW k \in 1..l PROVE h[0 + k] = v <=> D[0 + k] = w
        BY DEF Alike
      <4>1. 0 + k = k /\ h[k] = [doc |-> d, word |-> D[k]]
        BY <3>3
      <4> QED BY <4>1
    <3>6. l = z + l /\ z \in Nat
      BY <3>4
    <3> HIDE DEF z, l, v
    <3>7. Times(h, z, l, v) = Times(D, z, l, w)
      BY <3>4, <3>5, <3>6, TimesShift
    <3>8. Len(h) = l /\ Len(D) = l
      BY <3>3 DEF l
    <3> QED BY <3>7, <3>8 DEF z, v
  <2> QED BY <2>1, <2>2
<1>4. TimesIn(h, d) = [w \in Word |-> Times(D, 0, Len(D), w)]
  <2> HIDE DEF h, d, D
  <2> QED BY <1>3 DEF TimesIn
<1> QED BY <1>2, <1>4

\* After a commit: the types, and what it makes of every document.
LEMMA CommittedType ==
  ASSUME ~AlterInTxn, NEW a \in Acc, a.index \in Index, CountsFit(a), Fit(a),
         stored \in [Index -> [Doc -> Stored \cup {NoRow}]]
  PROVE  Committed(a) \in [Doc -> Stored \cup {NoRow}]
<1> DEFINE b == ToCommit(a)
<1>1. /\ b.rows \in Seq(Row) /\ b.hits \in Seq(Hit) /\ b.index = a.index
      /\ \A n \in 1..Len(b.rows) : \E r \in Last1(a) : b.rows[n] = a.rows[r]
  BY ToCommitRows
<1>2. Committed(a) = [d \in Doc |-> IF d \in DOMAIN Segment(b) THEN Segment(b)[d]
                                    ELSE IF d \in a.kill THEN NoRow ELSE stored[a.index][d]]
  BY DEF Committed, ToCommit
<1> HIDE DEF b
<1>3. Fit(b)
  BY <1>1 DEF Fit, Last1
<1>4. \A d \in DOMAIN Segment(b) : Segment(b)[d] \in Stored
  BY <1>1, <1>3, SegmentRow
<1> QED BY <1>2, <1>4

LEMMA CommittedIs ==
  ASSUME ~AlterInTxn, NEW a \in Acc, CountsFit(a), Fit(a), HitsOfRows(a), NEW d \in Doc
  PROVE  /\ \A r \in Last1(a) : a.rows[r].doc = d =>
              Committed(a)[d] = [text |-> a.rows[r].text, words |-> ContentOf[a.rows[r].text].words, ram |-> TRUE]
         /\ d \notin DocsOf(a) => Committed(a)[d] = IF d \in a.kill THEN NoRow ELSE stored[a.index][d]
<1> DEFINE b == ToCommit(a)
<1>1. /\ b.rows \in Seq(Row) /\ b.hits \in Seq(Hit) /\ b.index = a.index /\ DocsOf(b) = DocsOf(a)
      /\ \A n \in 1..Len(b.rows) : \E r \in Last1(a) : b.rows[n] = a.rows[r]
  BY ToCommitRows
<1>2. Committed(a)[d] = IF d \in DOMAIN Segment(b) THEN Segment(b)[d]
                        ELSE IF d \in a.kill THEN NoRow ELSE stored[a.index][d]
  BY DEF Committed, ToCommit
<1>3. Fit(b)
  <2> HIDE DEF b
  <2> QED BY <1>1 DEF Fit, Last1
<1>4. DOMAIN Segment(b) = DocsOf(a)
  <2> HIDE DEF b
  <2> QED BY <1>1, <1>3, SegmentRow
<1>5. ASSUME NEW r \in Last1(a), a.rows[r].doc = d
      PROVE  Committed(a)[d] = [text |-> a.rows[r].text, words |-> ContentOf[a.rows[r].text].words, ram |-> TRUE]
  <2>1. d \in DocsOf(a)
    BY <1>5 DEF DocsOf, Last1
  <2>2. TimesIn(b.hits, d) = ContentOf[a.rows[r].text].words
    BY <1>5, CommittedHits
  <2> HIDE DEF b
  <2>3. PICK n \in 1..Len(b.rows) :
           /\ b.rows[n].doc = d
           /\ Segment(b)[d] = [text |-> b.rows[n].text, words |-> TimesIn(b.hits, d), ram |-> TRUE]
    BY <1>1, <1>3, <2>1, SegmentRow
  <2>4. PICK m \in Last1(a) : b.rows[n] = a.rows[m]
    BY <1>1, <2>3
  <2>5. m = r
    <3>1. Len(a.rows) \in Nat /\ m \in 1..Len(a.rows) /\ r \in 1..Len(a.rows) /\ a.rows[m].doc = a.rows[r].doc
      BY <1>5, <2>3, <2>4, AccFacts DEF Last1
    <3>2. ~(m < r) /\ ~(r < m)
      BY <1>5, <2>4, <3>1 DEF Last1, Duplicates
    <3> QED BY <3>1, <3>2
  <2> QED BY <1>2, <1>4, <2>1, <2>2, <2>3, <2>4, <2>5
<1>6. d \notin DocsOf(a) => Committed(a)[d] = IF d \in a.kill THEN NoRow ELSE stored[a.index][d]
  BY <1>2, <1>4
<1> QED BY <1>5, <1>6

-----------------------------------------------------------------------------
(* Every variable keeps its type, and the rows fit their index. *)

Statement == [index : Index, replace : BOOLEAN, rows : Seq([doc : Doc, text : Text \cup {BadRow, BadText}]),
              commit : BOOLEAN, exclusive : BOOLEAN]

AccInv ==
  /\ acc \in [Session -> Acc]
  /\ \A s \in Session : /\ Len(acc[s].rows) <= MaxRows
                        /\ acc[s].index = NoIndex => acc[s].rows = <<>>
                        /\ Fit(acc[s])
StmtInv ==
  /\ stmt \in [Session -> Statement \cup {NoStatement}] /\ live \subseteq Index
  /\ \A s \in Session : stmt[s] # NoStatement => stmt[s].index \in live
StoredInv == AlterInTxn \/ stored \in [Index -> [Doc -> Stored \cup {NoRow}]]
OthersInv ==
  /\ opts \in [Session -> [auto : BOOLEAN, intxn : BOOLEAN]]
  /\ cols \in [Index -> 0..MaxAlters]
  /\ want \in [Session -> [Doc -> Text \cup {NoRow, Kept}]]

TypeInv == AccInv /\ StmtInv /\ StoredInv /\ OthersInv

\* A session's accumulator may become b.
LEMMA AccSet ==
  ASSUME AccInv, NEW s \in Session, NEW b \in Acc, acc' = [acc EXCEPT ![s] = b], cols' = cols,
         Len(b.rows) <= MaxRows, b.index = NoIndex => b.rows = <<>>, Fit(b)
  PROVE  AccInv'
<1>1. acc' \in [Session -> Acc]
  BY DEF AccInv
<1>2. ASSUME NEW u \in Session
      PROVE  /\ Len(acc'[u].rows) <= MaxRows
             /\ acc'[u].index = NoIndex => acc'[u].rows = <<>>
             /\ AlterInTxn \/ \A r \in 1..Len(acc'[u].rows) : acc'[u].rows[r].cols = cols'[acc'[u].index]
  <2>1. acc'[u] = IF u = s THEN b ELSE acc[u]
    BY DEF AccInv
  <2> QED BY <2>1 DEF AccInv, Fit
<1> QED BY <1>1, <1>2 DEF AccInv, Fit

LEMMA NoAccIs ==
  ASSUME NEW n \in Seq(Nat)
  PROVE  LET b == [NoAcc EXCEPT !.counts = n] IN
         /\ NoAcc \in Acc /\ b \in Acc /\ Len(NoAcc.rows) = 0 /\ Len(b.rows) = 0
         /\ b.counts = n /\ b.rows = <<>> /\ b.hits = <<>> /\ b.kill = {} /\ b.index = NoIndex
<1>1. <<>> \in Seq(Row) /\ <<>> \in Seq(Hit) /\ <<>> \in Seq(Nat) /\ Len(<<>>) = 0
  BY EmptySeq
<1>2. NoAcc \in Acc
  BY <1>1 DEF NoAcc, Acc
<1>3. NoAcc.rows = <<>> /\ NoAcc.hits = <<>> /\ NoAcc.kill = {} /\ NoAcc.index = NoIndex
  BY DEF NoAcc
<1> DEFINE b == [NoAcc EXCEPT !.counts = n]
<1>4. /\ b \in Acc /\ b.counts = n /\ b.rows = NoAcc.rows /\ b.hits = NoAcc.hits
      /\ b.kill = NoAcc.kill /\ b.index = NoAcc.index
  BY <1>2 DEF Acc
<1> QED BY <1>1, <1>2, <1>3, <1>4

\* The same update, a field of a function's value at a time and at once.
LEMMA TwoFields ==
  ASSUME NEW f \in [Session -> Acc], NEW s \in Session, NEW i \in Index, NEW K \in SUBSET Doc,
         NEW g, g = [f EXCEPT ![s].index = i, ![s].kill = @ \cup K]
  PROVE  g = [f EXCEPT ![s] = [f[s] EXCEPT !.index = i, !.kill = f[s].kill \cup K]]
<1>1. ASSUME NEW A, NEW B, NEW C, NEW D, NEW E, NEW S,
             NEW h \in [S -> [index : A, rows : B, hits : C, counts : D, kill : SUBSET E]],
             NEW u \in S, NEW j \in A, NEW L \in SUBSET E,
             NEW k, k = [h EXCEPT ![u].index = j, ![u].kill = @ \cup L]
      PROVE  k = [h EXCEPT ![u] = [h[u] EXCEPT !.index = j, !.kill = h[u].kill \cup L]]
  BY <1>1
<1> DEFINE A == Index \cup {NoIndex}  B == Seq(Row)  C == Seq(Hit)  D == Seq(Nat)
<1>2. f \in [Session -> [index : A, rows : B, hits : C, counts : D, kill : SUBSET Doc]] /\ i \in A
  BY DEF Acc
<1> HIDE DEF A, B, C, D
<1> QED BY <1>1, <1>2

\* b is a with a document more.
Added(a, b, i, d, t) ==
  LET e == [doc |-> d, text |-> t, cols |-> cols[i]] IN
  /\ b \in Acc /\ b.index = i /\ b.kill = a.kill \cup {d}
  /\ e \in Row /\ b.rows = Append(a.rows, e)
  /\ b.hits = a.hits \o HitsOfRow(d, t)
  /\ Len(Hits[t]) \in Nat /\ b.counts = Append(a.counts, Len(Hits[t]))

LEMMA AddDocumentIs ==
  ASSUME NEW a \in Acc, NEW i \in Index, NEW d \in Doc, NEW t \in Text, cols \in [Index -> 0..MaxAlters]
  PROVE  Added(a, AddDocument(a, i, d, t), i, d, t)
<1> DEFINE e == [doc |-> d, text |-> t, cols |-> cols[i]]  x == HitsOfRow(d, t)  n == Len(Hits[t])
           b == AddDocument(a, i, d, t)
<1>1. e \in Row /\ x \in Seq(Hit) /\ n \in Nat
  BY HitsOfRowType, HitsAssumption, LenProperties DEF Row, Hit
<1>2. a.rows \in Seq(Row) /\ a.hits \in Seq(Hit) /\ a.counts \in Seq(Nat) /\ a.kill \subseteq Doc
  BY DEF Acc
<1> HIDE DEF e, x, n
<1>4. Append(a.rows, e) \in Seq(Row) /\ Append(a.counts, n) \in Seq(Nat)
  BY <1>1, <1>2, AppendProperties
<1>5. a.hits \o x \in Seq(Hit)
  BY <1>1, <1>2, ConcatProperties
<1>6. b = [a EXCEPT !.index = i, !.kill = a.kill \cup {d}, !.rows = Append(a.rows, e),
                    !.hits = a.hits \o x, !.counts = Append(a.counts, n)]
  BY DEF AddDocument, Acc, e, x, n
<1> DEFINE k2 == a.kill \cup {d}  r2 == Append(a.rows, e)  h2 == a.hits \o x  c2 == Append(a.counts, n)
<1>7. k2 \in SUBSET Doc /\ r2 \in Seq(Row) /\ h2 \in Seq(Hit) /\ c2 \in Seq(Nat)
  BY <1>2, <1>4, <1>5
<1>8. b = [a EXCEPT !.index = i, !.kill = k2, !.rows = r2, !.hits = h2, !.counts = c2]
  BY <1>6
<1> HIDE DEF b, k2, r2, h2, c2
<1>9. b \in Acc /\ b.index = i /\ b.kill = k2 /\ b.rows = r2 /\ b.hits = h2 /\ b.counts = c2
  BY <1>7, <1>8 DEF Acc
<1> QED BY <1>1, <1>9 DEF Added, e, x, n, b, k2, r2, h2, c2

LEMMA CommitKeepsTypes ==
  ASSUME AccInv, StmtInv, StoredInv, OthersInv, NEW s \in Session, Commit(s, acc[s]), cols' = cols,
         opts' \in [Session -> [auto : BOOLEAN, intxn : BOOLEAN]]
  PROVE  AccInv' /\ StoredInv' /\ OthersInv'
<1>1. acc[s] \in Acc /\ acc[s].index \in Index /\ CountsFit(acc[s]) /\ Fit(acc[s])
  BY DEF AccInv, StmtInv, Commit, CountsFit
<1>2. ASSUME ~AlterInTxn PROVE Committed(acc[s]) \in [Doc -> Stored \cup {NoRow}]
  BY <1>1, <1>2, CommittedType DEF StoredInv
<1>3. StoredInv'
  BY <1>2 DEF StoredInv, Commit
<1>4. AccInv'
  <2>1. <<>> \in Seq(Nat)
    BY EmptySeq
  <2>2. NoAcc \in Acc /\ Len(NoAcc.rows) = 0
    BY <2>1, NoAccIs
  <2>3. NoAcc.rows = <<>> /\ Fit(NoAcc)
    BY <2>2 DEF NoAcc, Fit
  <2>4. 0 <= MaxRows
    BY BoundAssumption
  <2>5. acc' = [acc EXCEPT ![s] = NoAcc]
    BY DEF Commit
  <2> DEFINE b == NoAcc
  <2>6. b \in Acc /\ Len(b.rows) <= MaxRows /\ b.rows = <<>> /\ Fit(b) /\ acc' = [acc EXCEPT ![s] = b]
    BY <2>2, <2>3, <2>4, <2>5
  <2> HIDE DEF b
  <2> QED BY <2>6, AccSet
<1>5. OthersInv'
  <2>1. Nothing \in [Doc -> Text \cup {NoRow, Kept}]
    BY DEF Nothing
  <2> QED BY <2>1 DEF OthersInv, Commit
<1> QED BY <1>3, <1>4, <1>5

\* The accumulator of one session gets other rows or another index.
LEMMA InsertRowAcc ==
  ASSUME AccInv, StmtInv, OthersInv, NEW s \in Session, InsertRow(s)
  PROVE  \E i \in Index, d \in Doc, t \in Text :
           LET a == acc[s]  b == AddDocument(a, i, d, t) IN
           /\ i = stmt[s].index /\ d = Head(stmt[s].rows).doc /\ t = Head(stmt[s].rows).text
           /\ a \in Acc /\ Added(a, b, i, d, t)
           /\ a.index \in {i, NoIndex}
           /\ Len(a.rows) < IF Len(a.counts) = Len(a.rows) THEN MaxRows ELSE MaxAfterRollback
           /\ acc' = [acc EXCEPT ![s] = b]
           /\ want' = [want EXCEPT ![s][d] = t]
           /\ UNCHANGED <<stored, cols>>
<1> DEFINE i == stmt[s].index  d == Head(stmt[s].rows).doc  t == Head(stmt[s].rows).text  a == acc[s]
           b == AddDocument(a, i, d, t)
<1>1. stmt[s] \in Statement /\ stmt[s].rows # <<>> /\ a \in Acc
  BY DEF InsertRow, StmtInv, Idle, AccInv
<1>2. i \in Index /\ d \in Doc
  <2>1. stmt[s].rows \in Seq([doc : Doc, text : Text \cup {BadRow, BadText}]) /\ stmt[s].index \in Index
    BY <1>1 DEF Statement
  <2>2. Head(stmt[s].rows) \in [doc : Doc, text : Text \cup {BadRow, BadText}]
    BY <1>1, <2>1, HeadTailProperties
  <2> QED BY <2>1, <2>2
<1>3. /\ t \in Text /\ a.index \in {i, NoIndex}
      /\ Len(a.rows) < IF Len(a.counts) = Len(a.rows) THEN MaxRows ELSE MaxAfterRollback
      /\ acc' = [acc EXCEPT ![s] = b]
      /\ want' = [want EXCEPT ![s][d] = t]
      /\ UNCHANGED <<stored, cols>>
  BY DEF InsertRow, Acquired
<1>4. cols \in [Index -> 0..MaxAlters]
  BY DEF OthersInv
<1> HIDE DEF i, d, t, a
<1>5. Added(a, b, i, d, t)
  BY <1>1, <1>2, <1>3, <1>4, AddDocumentIs
<1> QED BY <1>1, <1>2, <1>3, <1>5 DEF i, d, t, a

\* A statement acquires the accumulator for index i, and may add kills.
LEMMA Acquire ==
  ASSUME AccInv, NEW s \in Session, NEW i \in Index, NEW D \in SUBSET Doc, Acquired(s, i), cols' = cols,
         \/ acc' = [acc EXCEPT ![s].index = i, ![s].kill = @ \cup D]
         \/ acc' = [acc EXCEPT ![s].index = i] /\ D = {}
  PROVE  /\ AccInv'
         /\ acc'[s].index = i /\ acc'[s].kill = acc[s].kill \cup D
         /\ acc'[s].rows = acc[s].rows /\ acc'[s].hits = acc[s].hits /\ acc'[s].counts = acc[s].counts
         /\ \A u \in Session \ {s} : acc'[u] = acc[u]
<1> DEFINE a == acc[s]  k == a.kill \cup D
           Next1 == [a EXCEPT !.index = i, !.kill = k]
           Next2 == [a EXCEPT !.index = i]
<1>1. a \in Acc /\ Len(a.rows) <= MaxRows /\ (a.index = NoIndex => a.rows = <<>>) /\ Fit(a)
  BY DEF AccInv
<1>2. k \in SUBSET Doc
  BY <1>1 DEF Acc
<1>10. acc \in [Session -> Acc]
  BY DEF AccInv
<1>3. acc' = [acc EXCEPT ![s] = Next1] \/ (acc' = [acc EXCEPT ![s] = Next2] /\ D = {})
  <2>1. CASE acc' = [acc EXCEPT ![s].index = i, ![s].kill = @ \cup D]
    BY <1>10, <2>1, TwoFields
  <2>2. CASE acc' = [acc EXCEPT ![s].index = i] /\ D = {}
    BY <1>10, <2>2
  <2> QED BY <2>1, <2>2
<1>11. \A b \in {Next1, Next2} : b = Next1 \/ D = {} =>
        b \in Acc /\ b.index = i /\ b.kill = k /\ b.rows = a.rows /\ b.hits = a.hits /\ b.counts = a.counts
  <2>1. D = {} => k = a.kill
    OBVIOUS
  <2> HIDE DEF k, a
  <2> QED BY <1>1, <1>2, <2>1 DEF Acc
<1>12. PICK b \in {Next1, Next2} : acc' = [acc EXCEPT ![s] = b] /\ (b = Next1 \/ D = {})
  <2> HIDE DEF Next1, Next2
  <2> QED BY <1>3
<1> HIDE DEF Next1, Next2
<1>4. b \in Acc /\ b.index = i /\ b.kill = k /\ b.rows = a.rows /\ b.hits = a.hits /\ b.counts = a.counts
  BY <1>11, <1>12
<1>5. acc'[s] = b /\ \A u \in Session \ {s} : acc'[u] = acc[u]
  BY <1>10, <1>12
<1>6. a.index \in {i, NoIndex} /\ i # NoIndex
  BY NamesAssumption DEF Acquired
<1>7. Fit(b)
  <2>1. CASE a.index = i
    BY <1>1, <1>4, <2>1 DEF Fit
  <2>2. CASE a.index = NoIndex
    <3>1. Len(b.rows) = 0
      BY <1>1, <1>4, <2>2, EmptySeq
    <3> QED BY <3>1 DEF Fit
  <2> QED BY <1>6, <2>1, <2>2
<1>8. Len(b.rows) <= MaxRows /\ (b.index = NoIndex => b.rows = <<>>)
  BY <1>1, <1>4, <1>6
<1>9. AccInv'
  BY <1>4, <1>7, <1>8, <1>12, AccSet
<1> QED BY <1>4, <1>5, <1>9 DEF a, k

\* What the end of a transaction leaves.
LEMMA Dropped ==
  ASSUME AccInv, NEW s \in Session, NEW b \in Acc, b.rows = <<>>, cols' = cols, acc' = [acc EXCEPT ![s] = b]
  PROVE  AccInv'
<1>1. Len(b.rows) = 0 /\ 0 <= MaxRows
  BY BoundAssumption
<1>2. Fit(b)
  BY <1>1 DEF Fit
<1> QED BY <1>1, <1>2, AccSet

\* The statement of a session may become q.
LEMMA StmtSet ==
  ASSUME StmtInv, NEW s \in Session, NEW q \in Statement \cup {NoStatement}, live' = live,
         stmt' = [stmt EXCEPT ![s] = q], q # NoStatement => q.index \in live
  PROVE  StmtInv'
<1>1. \A u \in Session : stmt'[u] = IF u = s THEN q ELSE stmt[u]
  BY DEF StmtInv
<1>2. stmt' \in [Session -> Statement \cup {NoStatement}]
  BY DEF StmtInv
<1>3. \A u \in Session : stmt'[u] # NoStatement => stmt'[u].index \in live'
  BY <1>1 DEF StmtInv
<1> QED BY <1>2, <1>3 DEF StmtInv

LEMMA StmtType ==
  ASSUME NEW i \in Index, NEW c \in BOOLEAN, NEW b \in BOOLEAN, NEW e \in BOOLEAN,
         NEW q \in Seq([doc : Doc, text : Text \cup {BadRow, BadText}])
  PROVE  LET m == [index |-> i, replace |-> b, rows |-> q, commit |-> c, exclusive |-> e]
         IN m \in Statement /\ m.index = i
BY DEF Statement

LEMMA AutoCommitType == ASSUME OthersInv, NEW s \in Session PROVE AutoCommit(s) \in BOOLEAN
<1>1. opts[s].auto \in BOOLEAN /\ opts[s].intxn \in BOOLEAN
  BY DEF OthersInv
<1> QED BY <1>1 DEF AutoCommit

LEMMA InitTypes == Init => TypeInv
<1> SUFFICES ASSUME Init PROVE TypeInv
  OBVIOUS
<1>1. NoAcc \in Acc /\ Len(NoAcc.rows) = 0
  <2>1. <<>> \in Seq(Nat)
    BY EmptySeq
  <2> QED BY <2>1, NoAccIs
<1>2. AccInv
  <2>1. 0 <= MaxRows
    BY BoundAssumption
  <2>2. NoAcc.rows = <<>> /\ Fit(NoAcc)
    BY <1>1 DEF NoAcc, Fit
  <2>3. acc \in [Session -> Acc] /\ \A s \in Session : acc[s] = NoAcc
    BY <1>1 DEF Init
  <2> QED BY <1>1, <2>1, <2>2, <2>3 DEF AccInv
<1>3. StmtInv
  BY DEF Init, StmtInv
<1>4. StoredInv
  BY DEF Init, StoredInv
<1>5. OthersInv
  <2>1. 0 \in 0..MaxAlters
    BY BoundAssumption
  <2> QED BY <2>1 DEF Init, OthersInv, Options, Nothing
<1> QED BY <1>2, <1>3, <1>4, <1>5 DEF TypeInv

LEMMA TypesStep ==
  ASSUME TypeInv, [Next]_vars
  PROVE  TypeInv'
<1> USE DEF TypeInv
<1>1. CASE UNCHANGED vars
  BY <1>1 DEF vars, AccInv, Fit, StmtInv, StoredInv, OthersInv
<1>2. ASSUME NEW s \in Session, InsertBegin(s) PROVE TypeInv'
  <2>1. UNCHANGED <<acc, cols, stored, opts, want, live>>
    BY <1>2 DEF InsertBegin
  <2>2. PICK q \in Inserts, r \in BOOLEAN :
          /\ q.index \in live
          /\ stmt' = [stmt EXCEPT ![s] = [index |-> q.index, replace |-> r, rows |-> q.rows,
                                          commit |-> AutoCommit(s), exclusive |-> FALSE]]
    BY <1>2 DEF InsertBegin
  <2> DEFINE m == [index |-> q.index, replace |-> r, rows |-> q.rows, commit |-> AutoCommit(s), exclusive |-> FALSE]
  <2>3. m \in Statement /\ m.index \in live
    <3>1. q.index \in Index /\ q.rows \in Seq([doc : Doc, text : Text \cup {BadRow, BadText}])
      BY StatementsAssumption
    <3> QED BY <2>2, <3>1, StmtType, AutoCommitType
  <2>4. stmt' = [stmt EXCEPT ![s] = m]
    BY <2>2
  <2> HIDE DEF m
  <2>5. StmtInv'
    BY <2>1, <2>3, <2>4, StmtSet
  <2> QED BY <2>1, <2>5 DEF AccInv, Fit, StoredInv, OthersInv
<1>3. ASSUME NEW s \in Session, InsertRow(s) PROVE TypeInv'
  <2>1. PICK i \in Index, d \in Doc, t \in Text :
          LET a == acc[s]  b == AddDocument(a, i, d, t) IN
           /\ a \in Acc /\ Added(a, b, i, d, t)
           /\ a.index \in {i, NoIndex}
           /\ Len(a.rows) < IF Len(a.counts) = Len(a.rows) THEN MaxRows ELSE MaxAfterRollback
           /\ acc' = [acc EXCEPT ![s] = b]
           /\ want' = [want EXCEPT ![s][d] = t]
           /\ UNCHANGED <<stored, cols>>
    BY <1>3, InsertRowAcc
  <2> DEFINE a == acc[s]  b == AddDocument(a, i, d, t)  e == [doc |-> d, text |-> t, cols |-> cols[i]]
  <2>2. /\ a.rows \in Seq(Row) /\ e \in Row /\ b \in Acc /\ b.index = i /\ b.rows = Append(a.rows, e)
        /\ Len(a.rows) \in Nat /\ e.cols = cols[i]
    BY <2>1, AccFacts DEF Added
  <2>3. Fit(a) /\ (a.index = NoIndex => a.rows = <<>>) /\ MaxRows \in Nat /\ MaxAfterRollback \in Nat
        /\ MaxAfterRollback <= MaxRows
    BY BoundAssumption DEF AccInv
  <2>4. Len(a.rows) < MaxRows
    <3> DEFINE n == Len(a.rows)
    <3>1. n < MaxRows \/ n < MaxAfterRollback
      BY <2>1
    <3>2. n \in Nat
      BY <2>2
    <3> HIDE DEF n
    <3>3. n < MaxRows
      BY <2>3, <3>1, <3>2
    <3> QED BY <3>3 DEF n
  <2>5. acc' = [acc EXCEPT ![s] = b] /\ a.index \in {i, NoIndex} /\ cols' = cols /\ i # NoIndex
    BY <2>1, NamesAssumption
  <2> HIDE DEF a, b, e
  <2>6. /\ Len(b.rows) = Len(a.rows) + 1
        /\ \A r \in 1..Len(a.rows) : b.rows[r] = a.rows[r]
        /\ b.rows[Len(a.rows) + 1] = e
    BY <2>2, AppendProperties
  <2>7. Fit(b)
    <3>1. ASSUME ~AlterInTxn, NEW r \in 1..Len(b.rows) PROVE b.rows[r].cols = cols[b.index]
      <4>1. CASE r = Len(a.rows) + 1
        BY <2>2, <2>6, <4>1
      <4>2. CASE r # Len(a.rows) + 1
        <5>1. r \in 1..Len(a.rows)
          BY <2>2, <2>6, <4>2
        <5>2. a.rows # <<>>
          <6>1. a.rows = <<>> => Len(a.rows) = 0
            BY EmptySeq
          <6> QED BY <2>2, <5>1, <6>1
        <5>3. a.index = i
          BY <2>3, <2>5, <5>2
        <5> QED BY <2>2, <2>3, <2>6, <3>1, <5>1, <5>3 DEF Fit
      <4> QED BY <4>1, <4>2
    <3> QED BY <3>1 DEF Fit
  <2>8. Len(b.rows) <= MaxRows /\ b.index # NoIndex
    BY <2>2, <2>3, <2>4, <2>5, <2>6
  <2>9. AccInv'
    BY <2>2, <2>5, <2>7, <2>8, AccSet
  <2>10. StmtInv'
    <3>1. stmt' = [stmt EXCEPT ![s].rows = Tail(@)] /\ stmt[s].rows # <<>> /\ stmt[s] # NoStatement /\ live' = live
      BY <1>3 DEF InsertRow, Idle
    <3>2. stmt[s] \in Statement /\ stmt[s].index \in live
      BY <3>1 DEF StmtInv
    <3> DEFINE x == Tail(stmt[s].rows)  m == [stmt[s] EXCEPT !.rows = x]
    <3>3. x \in Seq([doc : Doc, text : Text \cup {BadRow, BadText}])
      <4>1. stmt[s].rows \in Seq([doc : Doc, text : Text \cup {BadRow, BadText}])
        BY <3>2 DEF Statement
      <4> QED BY <3>1, <4>1, HeadTailProperties
    <3>4. stmt' = [stmt EXCEPT ![s] = m]
      BY <3>1 DEF StmtInv
    <3> HIDE DEF x
    <3>5. m \in Statement /\ m.index = stmt[s].index
      BY <3>2, <3>3 DEF Statement
    <3> HIDE DEF m
    <3> QED BY <3>1, <3>2, <3>4, <3>5, StmtSet
  <2>11. StoredInv'
    BY <2>1 DEF StoredInv
  <2>12. OthersInv'
    <3>1. want' \in [Session -> [Doc -> Text \cup {NoRow, Kept}]]
      BY <2>1 DEF OthersInv
    <3>2. UNCHANGED <<opts, cols>>
      BY <1>3 DEF InsertRow
    <3> QED BY <3>1, <3>2 DEF OthersInv
  <2> QED BY <2>9, <2>10, <2>11, <2>12
<1>4. ASSUME NEW s \in Session, InsertFails(s) PROVE TypeInv'
  <2>1. /\ stmt' = [stmt EXCEPT ![s] = NoStatement] /\ UNCHANGED <<opts, stored, cols, live, want>>
        /\ stmt[s] # NoStatement
    BY <1>4 DEF InsertFails, Idle
  <2>2. StmtInv'
    BY <2>1, StmtSet
  <2>3. acc' = acc \/ (Acquired(s, stmt[s].index) /\ acc' = [acc EXCEPT ![s].index = stmt[s].index])
    <3> DEFINE i == stmt[s].index  more == Acquired(s, i) /\ acc' = [acc EXCEPT ![s].index = i]
    <3>1. acc' = acc \/ more
      BY <1>4 DEF InsertFails
    <3> QED BY <3>1
  <2>4. AccInv'
    <3>1. CASE acc' = acc
      BY <2>1, <3>1 DEF AccInv, Fit
    <3>2. CASE Acquired(s, stmt[s].index) /\ acc' = [acc EXCEPT ![s].index = stmt[s].index]
      <4> DEFINE i == stmt[s].index  D == {}
      <4>1. i \in Index /\ D \in SUBSET Doc /\ D = {}
        BY <2>1 DEF StmtInv
      <4>2. Acquired(s, i) /\ acc' = [acc EXCEPT ![s].index = i] /\ cols' = cols
        BY <2>1, <3>2
      <4> HIDE DEF i, D
      <4> QED BY <4>1, <4>2, Acquire
    <3> QED BY <2>3, <3>1, <3>2
  <2> QED BY <2>1, <2>2, <2>4 DEF StoredInv, OthersInv
<1>5. ASSUME NEW s \in Session, DeleteBegin(s) PROVE TypeInv'
  <2>1. PICK q \in Deletes :
          /\ q.index \in live /\ Acquired(s, q.index)
          /\ stmt' = [stmt EXCEPT ![s] = [index |-> q.index, replace |-> FALSE, rows |-> <<>>,
                                          commit |-> AutoCommit(s), exclusive |-> TRUE]]
          /\ acc' = [acc EXCEPT ![s].index = q.index, ![s].kill = @ \cup q.docs]
          /\ want' = [want EXCEPT ![s] = [d \in Doc |-> IF d \in q.docs THEN NoRow ELSE @[d]]]
          /\ UNCHANGED <<opts, stored, cols, live>>
    BY <1>5 DEF DeleteBegin
  <2>2. q.index \in Index /\ q.docs \in SUBSET Doc
    BY StatementsAssumption
  <2>3. AccInv'
    <3> DEFINE i == q.index  D == q.docs
    <3>1. i \in Index /\ D \in SUBSET Doc /\ Acquired(s, i) /\ cols' = cols
          /\ acc' = [acc EXCEPT ![s].index = i, ![s].kill = @ \cup D]
      BY <2>1, <2>2
    <3> HIDE DEF i, D
    <3> QED BY <3>1, Acquire
  <2>4. StmtInv'
    <3> DEFINE m == [index |-> q.index, replace |-> FALSE, rows |-> <<>>, commit |-> AutoCommit(s), exclusive |-> TRUE]
    <3>1. <<>> \in Seq([doc : Doc, text : Text \cup {BadRow, BadText}])
      BY EmptySeq
    <3>2. m \in Statement /\ m.index \in live
      BY <2>1, <2>2, <3>1, StmtType, AutoCommitType
    <3>3. stmt' = [stmt EXCEPT ![s] = m] /\ live' = live
      BY <2>1
    <3> HIDE DEF m
    <3> QED BY <3>2, <3>3, StmtSet
  <2>5. OthersInv'
    <3>1. want' \in [Session -> [Doc -> Text \cup {NoRow, Kept}]]
      BY <2>1 DEF OthersInv
    <3> QED BY <2>1, <3>1 DEF OthersInv
  <2> QED BY <2>1, <2>3, <2>4, <2>5 DEF StoredInv
<1>6. ASSUME NEW s \in Session, CommitPending(s) \/ UNCHANGED <<acc, stored, want>>,
             UNCHANGED <<cols, live, stmt>>, opts' \in [Session -> [auto : BOOLEAN, intxn : BOOLEAN]]
      PROVE  TypeInv'
  <2>1. Commit(s, acc[s]) \/ UNCHANGED <<acc, stored, want>>
    BY <1>6 DEF CommitPending
  <2>2. StmtInv'
    BY <1>6 DEF StmtInv
  <2>3. CASE Commit(s, acc[s])
    <3>1. cols' = cols
      BY <1>6
    <3> QED BY <1>6, <2>2, <2>3, <3>1, CommitKeepsTypes
  <2>4. CASE UNCHANGED <<acc, stored, want>>
    BY <1>6, <2>2, <2>4 DEF AccInv, Fit, StoredInv, OthersInv
  <2> QED BY <2>1, <2>3, <2>4
<1>7. ASSUME NEW s \in Session, StatementEnd(s) PROVE TypeInv'
  <2>1. /\ stmt' = [stmt EXCEPT ![s] = NoStatement] /\ UNCHANGED <<opts, cols, live>>
        /\ Commit(s, acc[s]) \/ UNCHANGED <<acc, stored, want>>
    BY <1>7 DEF StatementEnd
  <2>2. StmtInv'
    BY <2>1, StmtSet
  <2>3. CASE Commit(s, acc[s])
    <3>1. opts' \in [Session -> [auto : BOOLEAN, intxn : BOOLEAN]] /\ cols' = cols
      BY <2>1 DEF OthersInv
    <3> QED BY <2>2, <2>3, <3>1, CommitKeepsTypes
  <2>4. CASE UNCHANGED <<acc, stored, want>>
    BY <2>1, <2>2, <2>4 DEF AccInv, Fit, StoredInv, OthersInv
  <2> QED BY <2>1, <2>3, <2>4
<1>8. ASSUME NEW s \in Session, BeginTxn(s) PROVE TypeInv'
  <2>1. opts' \in [Session -> [auto : BOOLEAN, intxn : BOOLEAN]]
    BY <1>8 DEF BeginTxn, OthersInv
  <2> QED BY <1>6, <1>8, <2>1 DEF BeginTxn
<1>9. ASSUME NEW s \in Session, CommitTxn(s) PROVE TypeInv'
  <2>1. opts' \in [Session -> [auto : BOOLEAN, intxn : BOOLEAN]]
    BY <1>9 DEF CommitTxn, OthersInv
  <2> QED BY <1>6, <1>9, <2>1 DEF CommitTxn
<1>10. ASSUME NEW s \in Session, SetAutocommit(s) PROVE TypeInv'
  <2>1. PICK b \in BOOLEAN : opts' = [opts EXCEPT ![s] = [auto |-> b, intxn |-> FALSE]]
    BY <1>10 DEF SetAutocommit
  <2>2. opts' \in [Session -> [auto : BOOLEAN, intxn : BOOLEAN]]
    BY <2>1 DEF OthersInv
  <2>3. CommitPending(s) \/ UNCHANGED <<acc, stored, want>>
    BY <1>10 DEF SetAutocommit
  <2> QED BY <1>6, <1>10, <2>2, <2>3 DEF SetAutocommit
<1>11. Nothing \in [Doc -> Text \cup {NoRow, Kept}]
  BY DEF Nothing
<1>12. ASSUME NEW s \in Session, RollbackTxn(s) PROVE TypeInv'
  <2>1. UNCHANGED <<stmt, stored, cols, live>> /\ opts' = [opts EXCEPT ![s].intxn = FALSE]
    BY <1>12 DEF RollbackTxn
  <2>2. StmtInv' /\ StoredInv'
    BY <2>1 DEF StmtInv, StoredInv
  <2>3. OthersInv'
    <3>1. want' \in [Session -> [Doc -> Text \cup {NoRow, Kept}]]
      BY <1>11, <1>12 DEF RollbackTxn, OthersInv
    <3>2. opts' \in [Session -> [auto : BOOLEAN, intxn : BOOLEAN]]
      BY <2>1 DEF OthersInv
    <3> QED BY <2>1, <3>1, <3>2 DEF OthersInv
  <2>4. AccInv'
    <3>1. CASE acc' = acc
      BY <2>1, <3>1 DEF AccInv, Fit
    <3>2. CASE acc' = [acc EXCEPT ![s] = [NoAcc EXCEPT !.counts = acc[s].counts]]
      <4> DEFINE n == acc[s].counts  b == [NoAcc EXCEPT !.counts = n]
      <4>1. n \in Seq(Nat)
        BY DEF AccInv, Acc
      <4>2. acc' = [acc EXCEPT ![s] = b] /\ cols' = cols
        BY <2>1, <3>2
      <4> HIDE DEF n
      <4>3. b \in Acc /\ b.rows = <<>>
        BY <4>1, NoAccIs
      <4> HIDE DEF b
      <4> QED BY <4>2, <4>3, Dropped
    <3> QED BY <1>12, <3>1, <3>2 DEF RollbackTxn
  <2> QED BY <2>2, <2>3, <2>4
<1>13. ASSUME NEW s \in Session, Disconnect(s) PROVE TypeInv'
  <2>1. /\ UNCHANGED <<stmt, stored, cols, live>> /\ opts' = [opts EXCEPT ![s] = Options]
        /\ want' = [want EXCEPT ![s] = Nothing] /\ acc' = [acc EXCEPT ![s] = NoAcc]
    BY <1>13 DEF Disconnect
  <2>2. StmtInv' /\ StoredInv'
    BY <2>1 DEF StmtInv, StoredInv
  <2>3. OthersInv'
    BY <1>11, <2>1 DEF OthersInv, Options
  <2>4. AccInv'
    <3>1. <<>> \in Seq(Nat)
      BY EmptySeq
    <3>2. NoAcc \in Acc /\ NoAcc.rows = <<>>
      BY <3>1, NoAccIs DEF NoAcc
    <3> DEFINE b == NoAcc
    <3>3. b \in Acc /\ b.rows = <<>> /\ acc' = [acc EXCEPT ![s] = b] /\ cols' = cols
      BY <2>1, <3>2
    <3> HIDE DEF b
    <3> QED BY <3>3, Dropped
  <2> QED BY <2>2, <2>3, <2>4
<1>14. ASSUME NEW i \in Changing, Dump(i) PROVE TypeInv'
  <2>1. /\ UNCHANGED <<acc, opts, stmt, cols, live, want>>
        /\ stored' = [stored EXCEPT ![i] = [d \in Doc |->
             IF @[d] = NoRow THEN NoRow ELSE [@[d] EXCEPT !.ram = FALSE]]]
    BY <1>14 DEF Dump
  <2>2. i \in Index
    BY StatementsAssumption
  <2>3. ASSUME ~AlterInTxn, NEW d \in Doc, stored[i][d] # NoRow PROVE [stored[i][d] EXCEPT !.ram = FALSE] \in Stored
    <3>1. stored[i][d] \in Stored
      BY <2>2, <2>3 DEF StoredInv
    <3> QED BY <3>1 DEF Stored
  <2>4. StoredInv'
    BY <2>1, <2>2, <2>3 DEF StoredInv
  <2> QED BY <2>1, <2>4 DEF AccInv, Fit, StmtInv, OthersInv
<1>15. ASSUME NEW i \in Changing, Alter(i) PROVE TypeInv'
  <2>1. /\ UNCHANGED <<acc, opts, stmt, stored, live, want>> /\ cols' = [cols EXCEPT ![i] = @ + 1]
        /\ cols[i] < MaxAlters
        /\ AlterInTxn \/ \A s \in Session : acc[s].index = i => acc[s].rows = <<>>
    BY <1>15 DEF Alter
  <2>2. i \in Index /\ cols \in [Index -> 0..MaxAlters] /\ MaxAlters \in Nat
    BY StatementsAssumption, BoundAssumption DEF OthersInv
  <2>3. cols' \in [Index -> 0..MaxAlters]
    BY <2>1, <2>2
  <2>4. AccInv'
    <3>1. ASSUME ~AlterInTxn, NEW s \in Session, NEW r \in 1..Len(acc[s].rows)
          PROVE  acc[s].rows[r].cols = cols'[acc[s].index]
      <4>1. acc[s].rows # <<>>
        <5>1. acc[s].rows = <<>> => Len(acc[s].rows) = 0
          BY EmptySeq
        <5> QED BY <5>1
      <4>2. acc[s].index # i /\ acc[s].index # NoIndex /\ acc[s] \in Acc
        BY <2>1, <3>1, <4>1 DEF AccInv
      <4>3. acc[s].index \in Index
        BY <4>2 DEF Acc
      <4>4. cols'[acc[s].index] = cols[acc[s].index]
        BY <2>1, <2>2, <4>2, <4>3
      <4> QED BY <3>1, <4>4 DEF AccInv, Fit
    <3>2. acc' = acc
      BY <2>1
    <3> QED BY <3>1, <3>2 DEF AccInv, Fit
  <2> QED BY <2>1, <2>3, <2>4 DEF StmtInv, StoredInv, OthersInv
<1>16. ASSUME NEW i \in Changing, Drop(i) PROVE TypeInv'
  <2>1. UNCHANGED <<acc, opts, stmt, stored, cols, want>> /\ live' = live \ {i} /\ OnIndex(i) = {}
    BY <1>16 DEF Drop
  <2>2. StmtInv'
    <3>1. ASSUME NEW s \in Session, stmt[s] # NoStatement PROVE stmt[s].index \in live \ {i}
      BY <2>1, <3>1 DEF OnIndex, StmtInv
    <3> QED BY <2>1, <3>1 DEF StmtInv
  <2> QED BY <2>1, <2>2 DEF AccInv, Fit, StoredInv, OthersInv
<1> HIDE DEF TypeInv
<1> QED BY <1>1, <1>2, <1>3, <1>4, <1>5, <1>7, <1>8, <1>9, <1>10, <1>12, <1>13, <1>14, <1>15, <1>16 DEF Next

LEMMA TypeInvIsTyped == ~AlterInTxn /\ TypeInv => TypeOK
<1> SUFFICES ASSUME ~AlterInTxn, TypeInv PROVE TypeOK
  OBVIOUS
<1> USE DEF TypeInv
<1>1. ASSUME NEW s \in Session
      PROVE  /\ acc[s].index \in Index \cup {NoIndex}
             /\ acc[s].rows \in Seq([doc : Doc, text : Text, cols : 0..MaxAlters]) /\ Len(acc[s].rows) <= MaxRows
             /\ acc[s].hits \in Seq([doc : Doc, word : Word])
             /\ acc[s].counts \in Seq(Nat) /\ acc[s].kill \subseteq Doc
             /\ opts[s] \in [auto : BOOLEAN, intxn : BOOLEAN]
             /\ stmt[s] # NoStatement =>
                  /\ stmt[s].index \in live /\ {stmt[s].replace, stmt[s].commit, stmt[s].exclusive} \subseteq BOOLEAN
                  /\ stmt[s].rows \in Seq([doc : Doc, text : Text \cup {BadRow, BadText}])
  <2>1. acc[s] \in Acc /\ Len(acc[s].rows) <= MaxRows /\ opts[s] \in [auto : BOOLEAN, intxn : BOOLEAN]
    BY DEF AccInv, OthersInv
  <2>2. stmt[s] # NoStatement => stmt[s] \in Statement /\ stmt[s].index \in live
    BY DEF StmtInv
  <2>3. \A q \in Statement : {q.replace, q.commit, q.exclusive} \subseteq BOOLEAN
                             /\ q.rows \in Seq([doc : Doc, text : Text \cup {BadRow, BadText}])
    BY DEF Statement
  <2> QED BY <2>1, <2>2, <2>3 DEF Acc, Row, Hit
<1>2. \A i \in Index, d \in Doc :
        stored[i][d] = NoRow \/ stored[i][d] \in [text : Text, words : WordCount, ram : BOOLEAN]
  BY DEF StoredInv, Stored
<1> QED BY <1>1, <1>2 DEF TypeOK, StmtInv, OthersInv

\* Every variable keeps its type, whatever statements fail, transactions are dropped and
\* indexes are dumped, altered and removed.  The rows of a segment are texts only as long as
\* no ALTER comes between the rows and their commit.
THEOREM TxnTyped == ~AlterInTxn /\ Spec => []TypeOK
<1> SUFFICES ASSUME ~AlterInTxn PROVE Spec => []TypeOK
  OBVIOUS
<1>1. Init => TypeInv
  BY InitTypes
<1>2. TypeInv /\ [Next]_vars => TypeInv'
  BY TypesStep
<1>3. TypeInv => TypeOK
  BY TypeInvIsTyped
<1> QED BY <1>1, <1>2, <1>3, PTL DEF Spec

-----------------------------------------------------------------------------
(* The counts lead to the hits of every row. *)

LEMMA BlocksAdd ==
  ASSUME NoRepeats, NEW a \in Acc, Blocks(a), NEW i \in Index, NEW d \in Doc, NEW t \in Text,
         NEW b, Added(a, b, i, d, t)
  PROVE  Blocks(b)
<1> DEFINE L == Len(a.rows)  e == [doc |-> d, text |-> t, cols |-> cols[i]]  n == Len(Hits[t])
           x == HitsOfRow(d, t)  D == Distinct[t]  H == Len(a.hits)
<1>1. /\ b.rows = Append(a.rows, e) /\ b.hits = a.hits \o x /\ n \in Nat
      /\ b.counts = Append(a.counts, n) /\ e \in Row /\ e.doc = d /\ e.text = t
  BY DEF Added
<1>2. /\ L \in Nat /\ Len(a.counts) = L /\ a.counts \in Seq(Nat) /\ a.rows \in Seq(Row) /\ a.hits \in Seq(Hit)
      /\ H \in Nat /\ H = HitIndex(a, L + 1)
  BY AccFacts DEF Blocks
<1>3. /\ x \in Seq(Hit) /\ Len(x) = n /\ D = Hits[t] /\ Len(D) = n
      /\ \A k \in 1..n : x[k] = [doc |-> d, word |-> D[k]]
  BY HitsOfRowType, AllHitsKept DEF Hit
<1>4. \A r \in 1..L : /\ a.counts[r] = Len(Distinct[a.rows[r].text])
                      /\ \A k \in 1..a.counts[r] : a.hits[HitIndex(a, r) + k]
                                                     = [doc |-> a.rows[r].doc, word |-> Distinct[a.rows[r].text][k]]
  BY DEF Blocks
<1>5. \A r \in 1..L : /\ HitIndex(a, r) \in Nat /\ a.counts[r] \in Nat /\ HitIndex(a, r) + a.counts[r] <= H
  <2> SUFFICES ASSUME NEW r \in 1..L
               PROVE  /\ HitIndex(a, r) \in Nat /\ a.counts[r] \in Nat /\ HitIndex(a, r) + a.counts[r] <= H
    OBVIOUS
  <2> QED BY BlockAt
<1> HIDE DEF L, e, n, x, D, H
<1>6. /\ Len(b.rows) = L + 1 /\ (\A r \in 1..L : b.rows[r] = a.rows[r]) /\ b.rows[L + 1] = e
  BY <1>1, <1>2, AppendProperties DEF L
<1>7. /\ Len(b.counts) = L + 1 /\ (\A r \in 1..L : b.counts[r] = a.counts[r]) /\ b.counts[L + 1] = n
  BY <1>1, <1>2, AppendProperties DEF L
<1>8. /\ Len(b.hits) = H + n
      /\ \A k \in 1..H + n : b.hits[k] = IF k <= H THEN a.hits[k] ELSE x[k - H]
  <2> DEFINE g == a.hits
  <2>1. g \in Seq(Hit) /\ x \in Seq(Hit) /\ Len(g) = H /\ b.hits = g \o x
    BY <1>1, <1>2, <1>3 DEF H
  <2> HIDE DEF g
  <2>2. /\ Len(g \o x) = Len(g) + Len(x)
        /\ \A k \in 1..Len(g) + Len(x) : (g \o x)[k] = IF k <= Len(g) THEN g[k] ELSE x[k - Len(g)]
    BY <2>1, ConcatProperties
  <2>3. \A k \in 1..H + n : b.hits[k] = IF k <= H THEN g[k] ELSE x[k - H]
    BY <1>3, <2>1, <2>2
  <2> QED BY <1>3, <2>1, <2>2, <2>3 DEF g
<1>9. /\ \A r \in 1..L + 1 : HitIndex(b, r) = HitIndex(a, r)
      /\ HitIndex(b, Len(b.counts) + 1) = HitIndex(a, L + 1) + n
  BY <1>1, <1>2, HitIndexAppend
<1>10. ASSUME NEW r \in 1..L + 1
       PROVE  /\ b.counts[r] = Len(Distinct[b.rows[r].text])
              /\ \A k \in 1..b.counts[r] : b.hits[HitIndex(b, r) + k]
                                             = [doc |-> b.rows[r].doc, word |-> Distinct[b.rows[r].text][k]]
  <2>1. CASE r \in 1..L
    <3>1. /\ b.counts[r] = a.counts[r] /\ b.rows[r] = a.rows[r] /\ HitIndex(b, r) = HitIndex(a, r)
      BY <1>6, <1>7, <1>9, <2>1
    <3>2. ASSUME NEW k \in 1..a.counts[r] PROVE b.hits[HitIndex(a, r) + k] = a.hits[HitIndex(a, r) + k]
      <4> DEFINE q == HitIndex(a, r)  c == a.counts[r]  p == q + k
      <4>1. q \in Nat /\ c \in Nat /\ q + c <= H /\ k \in 1..c
        BY <1>5, <2>1
      <4> HIDE DEF q, c
      <4>3. p \in 1..H /\ p <= H /\ p \in 1..H + n
        BY <1>1, <1>2, <4>1, SMTT(30)
      <4> HIDE DEF p
      <4>2. b.hits[p] = a.hits[p]
        BY <1>8, <4>3
      <4> QED BY <4>2 DEF p, q
    <3> QED BY <1>4, <2>1, <3>1, <3>2
  <2>2. CASE r \notin 1..L
    <3>1. r = L + 1
      BY <1>2, <2>2
    <3>2. HitIndex(b, r) = H /\ b.counts[r] = n /\ b.rows[r].doc = d /\ b.rows[r].text = t
      BY <1>1, <1>2, <1>6, <1>7, <1>9, <3>1
    <3>3. ASSUME NEW k \in 1..n PROVE b.hits[H + k] = x[k]
      <4> DEFINE p == H + k
      <4>1. p \in 1..H + n /\ ~(p <= H) /\ p - H = k
        BY <1>1, <1>2, SMTT(30)
      <4> HIDE DEF p
      <4>2. b.hits[p] = x[k]
        BY <1>8, <4>1
      <4> QED BY <4>2 DEF p
    <3> QED BY <1>3, <3>2, <3>3 DEF D
  <2> QED BY <2>1, <2>2
<1>11. Len(b.counts) = Len(b.rows) /\ Len(b.hits) = HitIndex(b, Len(b.rows) + 1)
  BY <1>2, <1>6, <1>7, <1>8, <1>9
<1> QED BY <1>6, <1>10, <1>11 DEF Blocks

LEMMA RowsAdd ==
  ASSUME NoRepeats, MaxAfterRollback <= 1, NEW a \in Acc, HitsOfRows(a),
         NEW i \in Index, NEW d \in Doc, NEW t \in Text, NEW b, Added(a, b, i, d, t),
         Len(a.rows) < IF Len(a.counts) = Len(a.rows) THEN MaxRows ELSE MaxAfterRollback
  PROVE  HitsOfRows(b)
<1>1. CASE Blocks(a)
  BY <1>1, BlocksAdd DEF HitsOfRows
<1>2. CASE ~Blocks(a)
  <2> DEFINE e == [doc |-> d, text |-> t, cols |-> cols[i]]  x == HitsOfRow(d, t)  n == Len(Hits[t])
  <2>1. Len(a.rows) < Len(a.counts) /\ (a.rows = <<>> => a.hits = <<>>)
    BY <1>2 DEF HitsOfRows
  <2>2. /\ Len(a.rows) \in Nat /\ Len(a.counts) \in Nat /\ a.rows \in Seq(Row) /\ a.counts \in Seq(Nat)
        /\ MaxAfterRollback \in Nat
    BY AccFacts, BoundAssumption
  <2>3. Len(a.rows) = 0
    <3> DEFINE l == Len(a.rows)  m == Len(a.counts)
    <3>1. l < m /\ l < (IF m = l THEN MaxRows ELSE MaxAfterRollback) /\ l \in Nat /\ m \in Nat
      BY <2>1, <2>2
    <3> HIDE DEF l, m
    <3>2. l = 0
      BY <2>2, <3>1
    <3> QED BY <3>2 DEF l
  <2>4. a.rows = <<>> /\ a.hits = <<>>
    BY <2>1, <2>2, <2>3, EmptySeq
  <2>5. b.rows = Append(<<>>, e) /\ b.hits = <<>> \o x /\ b.counts = Append(a.counts, n) /\ n \in Nat /\ e \in Row
    BY <2>4 DEF Added
  <2>6. b.hits = x
    <3>1. x \in Seq(Hit)
      BY HitsOfRowType DEF Hit
    <3> HIDE DEF x
    <3>2. <<>> \o x = x
      BY <3>1, ConcatEmptySeq
    <3> QED BY <2>5, <3>2
  <2> HIDE DEF e, x, n
  <2>7. Len(b.rows) = 1 /\ b.rows[1] = e
    <3> DEFINE z == a.rows
    <3>1. z \in Seq(Row) /\ Len(z) = 0 /\ b.rows = Append(z, e)
      BY <2>2, <2>3, <2>4, <2>5
    <3> HIDE DEF z
    <3>2. Len(b.rows) = Len(z) + 1 /\ b.rows[Len(z) + 1] = e
      BY <2>5, <3>1, AppendProperties
    <3> QED BY <3>1, <3>2
  <2>8. Len(b.counts) = Len(a.counts) + 1
    BY <2>2, <2>5, AppendProperties
  <2>9. b.rows # <<>> /\ b.rows[1].doc = d /\ b.rows[1].text = t
    <3>1. e.doc = d /\ e.text = t
      BY DEF e
    <3>2. b.rows = <<>> => Len(b.rows) = 0
      BY EmptySeq
    <3> QED BY <2>7, <3>1, <3>2
  <2>10. Len(b.rows) < Len(b.counts) /\ Len(b.rows) <= 1
    BY <2>1, <2>2, <2>3, <2>7, <2>8
  <2> QED BY <2>6, <2>9, <2>10 DEF HitsOfRows, x
<1> QED BY <1>1, <1>2

\* Nothing is left after a commit; after a rollback the counts are.
LEMMA NoRowsNoHits ==
  ASSUME NEW b \in Acc, b.rows = <<>>, b.hits = <<>>
  PROVE  HitsOfRows(b)
<1>1. Len(b.rows) = 0 /\ Len(b.hits) = 0 /\ Len(b.counts) \in Nat /\ b.counts \in Seq(Nat)
  BY AccFacts
<1>2. CASE Len(b.counts) = 0
  <2>1. HitIndex(b, 1) = 0
    BY <1>1, HitIndexLoop
  <2> QED BY <1>1, <1>2, <2>1 DEF HitsOfRows, Blocks
<1>3. CASE Len(b.counts) # 0
  BY <1>1, <1>3 DEF HitsOfRows
<1> QED BY <1>2, <1>3

LEMMA SameHits ==
  ASSUME NEW a, NEW b, a.rows = b.rows, a.hits = b.hits, a.counts = b.counts, HitsOfRows(a)
  PROVE  HitsOfRows(b)
<1>1. \A r : HitIndex(a, r) = HitIndex(b, r)
  BY DEF HitIndex
<1> QED BY <1>1 DEF HitsOfRows, Blocks

HitsInv == \A s \in Session : HitsOfRows(acc[s])

LEMMA HitsSet ==
  ASSUME AccInv, HitsInv, NEW s \in Session, NEW b, acc' = [acc EXCEPT ![s] = b], HitsOfRows(b)
  PROVE  HitsInv'
<1>1. ASSUME NEW u \in Session PROVE HitsOfRows(acc'[u])
  <2>1. acc'[u] = IF u = s THEN b ELSE acc[u]
    BY SMTT(30) DEF AccInv
  <2> QED BY <2>1 DEF HitsInv
<1>2. \A u \in Session : HitsOfRows(acc[u])'
  BY <1>1 DEF HitsOfRows, Blocks, HitIndex
<1> QED BY <1>2 DEF HitsInv

LEMMA HitsSame ==
  ASSUME HitsInv,
         \A s \in Session : /\ acc'[s].rows = acc[s].rows /\ acc'[s].hits = acc[s].hits
                            /\ acc'[s].counts = acc[s].counts
  PROVE  HitsInv'
<1>1. ASSUME NEW s \in Session PROVE HitsOfRows(acc'[s])
  <2>1. HitsOfRows(acc[s])
    BY DEF HitsInv
  <2> QED BY <2>1, SameHits
<1>2. \A s \in Session : HitsOfRows(acc[s])'
  BY <1>1 DEF HitsOfRows, Blocks, HitIndex
<1> QED BY <1>2 DEF HitsInv

\* The transaction of session s is over; b is left.
Emptied(s, b) ==
  /\ b.rows = <<>> /\ b.hits = <<>> /\ b.kill = {} /\ b.index = NoIndex
  /\ acc' = [acc EXCEPT ![s] = b]
  /\ want' = [want EXCEPT ![s] = Nothing]

\* What a step may do to transactions and to what is stored.
LEMMA Effects ==
  ASSUME TypeInv, [Next]_vars
  PROVE  \/ UNCHANGED <<acc, want, stored>>
         \/ \E s \in Session : InsertRow(s)
         \/ \E s \in Session, i \in Index : /\ Acquired(s, i)
                                            /\ acc' = [acc EXCEPT ![s].index = i]
                                            /\ UNCHANGED <<want, stored, cols>>
         \/ \E s \in Session : DeleteBegin(s)
         \/ \E s \in Session : Commit(s, acc[s]) /\ cols' = cols
         \/ \E s \in Session, b \in Acc : Emptied(s, b) /\ UNCHANGED <<stored, cols>>
         \/ \E i \in Index : Dump(i)
<1> DEFINE Goal == \/ UNCHANGED <<acc, want, stored>>
                   \/ \E s \in Session : InsertRow(s)
                   \/ \E s \in Session, i \in Index : /\ Acquired(s, i)
                                                      /\ acc' = [acc EXCEPT ![s].index = i]
                                                      /\ UNCHANGED <<want, stored, cols>>
                   \/ \E s \in Session : DeleteBegin(s)
                   \/ \E s \in Session : Commit(s, acc[s]) /\ cols' = cols
                   \/ \E s \in Session, b \in Acc : Emptied(s, b) /\ UNCHANGED <<stored, cols>>
                   \/ \E i \in Index : Dump(i)
<1>1. ASSUME UNCHANGED vars PROVE Goal
  BY <1>1 DEF vars
<1>2. ASSUME NEW s \in Session, CommitPending(s), cols' = cols PROVE Goal
  BY <1>2 DEF CommitPending
<1>3. ASSUME NEW s \in Session, InsertFails(s) PROVE Goal
  <2>1. stmt[s] # NoStatement /\ UNCHANGED <<want, stored, cols>>
    BY <1>3 DEF InsertFails, Idle
  <2>2. acc' = acc \/ (Acquired(s, stmt[s].index) /\ acc' = [acc EXCEPT ![s].index = stmt[s].index])
    <3> DEFINE i == stmt[s].index  more == Acquired(s, i) /\ acc' = [acc EXCEPT ![s].index = i]
    <3>1. acc' = acc \/ more
      BY <1>3 DEF InsertFails
    <3> QED BY <3>1
  <2>3. stmt[s].index \in Index
    BY <2>1 DEF TypeInv, StmtInv
  <2> QED BY <2>1, <2>2, <2>3
<1>4. ASSUME NEW s \in Session, NEW b \in Acc, Emptied(s, b), UNCHANGED <<stored, cols>> PROVE Goal
  BY <1>4
<1>5. ASSUME NEW s \in Session, RollbackTxn(s) PROVE Goal
  <2>1. CASE acc[s].index = NoIndex
    BY <1>5, <2>1 DEF RollbackTxn
  <2>2. CASE acc[s].index # NoIndex
    <3> DEFINE n == acc[s].counts  b == [NoAcc EXCEPT !.counts = n]
    <3>1. n \in Seq(Nat)
      BY DEF TypeInv, AccInv, Acc
    <3>2. acc' = [acc EXCEPT ![s] = b] /\ want' = [want EXCEPT ![s] = Nothing] /\ UNCHANGED <<stored, cols>>
      BY <1>5, <2>2 DEF RollbackTxn
    <3> HIDE DEF n
    <3>3. b \in Acc /\ b.rows = <<>> /\ b.hits = <<>> /\ b.kill = {} /\ b.index = NoIndex
      BY <3>1, NoAccIs
    <3> HIDE DEF b
    <3> QED BY <1>4, <3>2, <3>3 DEF Emptied
  <2> QED BY <2>1, <2>2
<1>6. ASSUME NEW s \in Session, Disconnect(s) PROVE Goal
  <2>1. <<>> \in Seq(Nat)
    BY EmptySeq
  <2>2. NoAcc \in Acc /\ NoAcc.rows = <<>> /\ NoAcc.hits = <<>> /\ NoAcc.kill = {} /\ NoAcc.index = NoIndex
    BY <2>1, NoAccIs DEF NoAcc
  <2>3. Emptied(s, NoAcc) /\ UNCHANGED <<stored, cols>>
    BY <1>6, <2>2 DEF Disconnect, Emptied
  <2> QED BY <1>4, <2>2, <2>3
<1>7. ASSUME NEW s \in Session, InsertBegin(s) \/ InsertRow(s) \/ DeleteBegin(s) \/ StatementEnd(s) PROVE Goal
  BY <1>7 DEF InsertBegin, StatementEnd
<1>8. ASSUME NEW s \in Session, BeginTxn(s) \/ CommitTxn(s) \/ SetAutocommit(s) PROVE Goal
  BY <1>2, <1>8 DEF BeginTxn, CommitTxn, SetAutocommit
<1>9. ASSUME NEW i \in Changing, Dump(i) \/ Alter(i) \/ Drop(i) PROVE Goal
  <2>1. i \in Index
    BY StatementsAssumption
  <2> QED BY <1>9, <2>1 DEF Alter, Drop
<1> HIDE DEF Goal
<1>10. Goal
  <2>1. CASE Next
    <3>1. ASSUME NEW s \in Session,
                 \/ InsertBegin(s) \/ InsertRow(s) \/ InsertFails(s) \/ DeleteBegin(s) \/ StatementEnd(s)
                 \/ BeginTxn(s) \/ CommitTxn(s) \/ RollbackTxn(s) \/ SetAutocommit(s) \/ Disconnect(s)
          PROVE  Goal
      BY <1>3, <1>5, <1>6, <1>7, <1>8, <3>1
    <3> QED BY <1>9, <2>1, <3>1 DEF Next
  <2> QED BY <1>1, <2>1
<1> QED BY <1>10 DEF Goal

LEMMA HitsStep ==
  ASSUME NoRepeats, MaxAfterRollback <= 1, TypeInv, HitsInv, [Next]_vars
  PROVE  HitsInv'
<1> USE DEF TypeInv
<1>0. acc \in [Session -> Acc]
  BY DEF AccInv
<1>1. CASE UNCHANGED <<acc, want, stored>>
  BY <1>1, HitsSame
<1>2. ASSUME NEW s \in Session, InsertRow(s) PROVE HitsInv'
  <2>1. PICK i \in Index, d \in Doc, t \in Text :
          LET a == acc[s]  b == AddDocument(a, i, d, t) IN
           /\ a \in Acc /\ Added(a, b, i, d, t)
           /\ Len(a.rows) < IF Len(a.counts) = Len(a.rows) THEN MaxRows ELSE MaxAfterRollback
           /\ acc' = [acc EXCEPT ![s] = b]
    BY <1>2, InsertRowAcc
  <2> DEFINE a == acc[s]  b == AddDocument(a, i, d, t)
  <2>2. HitsOfRows(a)
    BY DEF HitsInv
  <2> HIDE DEF a, b
  <2>3. /\ a \in Acc /\ Added(a, b, i, d, t)
        /\ Len(a.rows) < IF Len(a.counts) = Len(a.rows) THEN MaxRows ELSE MaxAfterRollback
    BY <2>1 DEF a, b
  <2>4. HitsOfRows(b)
    BY <2>2, <2>3, RowsAdd
  <2>5. acc' = [acc EXCEPT ![s] = b]
    BY <2>1 DEF a, b
  <2> QED BY <2>4, <2>5, HitsSet
<1>3. ASSUME NEW s \in Session, NEW i \in Index, Acquired(s, i), acc' = [acc EXCEPT ![s].index = i], cols' = cols
      PROVE  HitsInv'
  <2> DEFINE D == {}
  <2>1. D \in SUBSET Doc /\ D = {}
    OBVIOUS
  <2> HIDE DEF D
  <2>2. /\ acc'[s].rows = acc[s].rows /\ acc'[s].hits = acc[s].hits /\ acc'[s].counts = acc[s].counts
        /\ \A u \in Session \ {s} : acc'[u] = acc[u]
    BY <1>3, <2>1, Acquire
  <2> QED BY <2>2, HitsSame
<1>4. ASSUME NEW s \in Session, DeleteBegin(s) PROVE HitsInv'
  <2>1. PICK q \in Deletes : /\ Acquired(s, q.index) /\ cols' = cols
                             /\ acc' = [acc EXCEPT ![s].index = q.index, ![s].kill = @ \cup q.docs]
    BY <1>4 DEF DeleteBegin
  <2> DEFINE i == q.index  D == q.docs
  <2>2. i \in Index /\ D \in SUBSET Doc
    BY StatementsAssumption
  <2> HIDE DEF i, D
  <2>3. Acquired(s, i) /\ acc' = [acc EXCEPT ![s].index = i, ![s].kill = @ \cup D]
    BY <2>1 DEF i, D
  <2>4. /\ acc'[s].rows = acc[s].rows /\ acc'[s].hits = acc[s].hits /\ acc'[s].counts = acc[s].counts
        /\ \A u \in Session \ {s} : acc'[u] = acc[u]
    BY <2>1, <2>2, <2>3, Acquire
  <2> QED BY <2>4, HitsSame
<1>5. ASSUME NEW s \in Session, NEW b \in Acc, Emptied(s, b) PROVE HitsInv'
  <2>1. HitsOfRows(b)
    BY <1>5, NoRowsNoHits DEF Emptied
  <2> QED BY <1>5, <2>1, HitsSet DEF Emptied
<1>6. ASSUME NEW s \in Session, Commit(s, acc[s]) PROVE HitsInv'
  <2>1. <<>> \in Seq(Nat)
    BY EmptySeq
  <2>2. NoAcc \in Acc /\ NoAcc.rows = <<>> /\ NoAcc.hits = <<>> /\ NoAcc.kill = {} /\ NoAcc.index = NoIndex
    BY <2>1, NoAccIs DEF NoAcc
  <2>3. Emptied(s, NoAcc)
    BY <1>6, <2>2 DEF Commit, Emptied
  <2> QED BY <1>5, <2>2, <2>3
<1>7. ASSUME NEW i \in Index, Dump(i) PROVE HitsInv'
  <2>1. acc' = acc
    BY <1>7 DEF Dump
  <2> QED BY <2>1, HitsSame
<1> HIDE DEF TypeInv
<1> QED BY <1>1, <1>2, <1>3, <1>4, <1>5, <1>6, <1>7, Effects

LEMMA InitHits == Init => HitsInv
<1> SUFFICES ASSUME Init PROVE HitsInv
  OBVIOUS
<1>1. <<>> \in Seq(Nat)
  BY EmptySeq
<1>2. NoAcc \in Acc /\ NoAcc.rows = <<>> /\ NoAcc.hits = <<>>
  BY <1>1, NoAccIs DEF NoAcc
<1>3. HitsOfRows(NoAcc)
  BY <1>2, NoRowsNoHits
<1> QED BY <1>3 DEF Init, HitsInv

LEMMA BlocksFollow ==
  ASSUME NEW a \in Acc, HitsOfRows(a), Len(a.rows) > 1
  PROVE  /\ Len(a.counts) = Len(a.rows)
         /\ HitIndex(a, Len(a.rows) + 1) = Len(a.hits)
         /\ \A r \in 1..Len(a.rows) :
              SubSeq(a.hits, HitIndex(a, r) + 1, HitIndex(a, r + 1))
                = HitsOfRow(a.rows[r].doc, a.rows[r].text)
<1>1. Blocks(a) /\ Len(a.rows) \in Nat
  <2>1. Len(a.rows) \in Nat
    BY AccFacts
  <2>2. ~(Len(a.rows) <= 1)
    BY <2>1
  <2> QED BY <2>1, <2>2 DEF HitsOfRows
<1>2. ASSUME NEW r \in 1..Len(a.rows)
      PROVE  SubSeq(a.hits, HitIndex(a, r) + 1, HitIndex(a, r + 1)) = HitsOfRow(a.rows[r].doc, a.rows[r].text)
  <2> DEFINE p == HitIndex(a, r)  q == HitIndex(a, r + 1)  c == a.counts[r]  h == a.hits
             d == a.rows[r].doc  t == a.rows[r].text  x == HitsOfRow(d, t)  m == p + 1
             y == SubSeq(h, m, q)
  <2>1. /\ p \in Nat /\ q \in Nat /\ c \in Nat /\ q = p + c /\ q <= Len(h)
        /\ h \in Seq(Hit) /\ Len(h) \in Nat /\ d \in Doc /\ t \in Text
    BY <1>1, BlockAt, AccFacts
  <2>2. c = Len(Distinct[t]) /\ \A k \in 1..c : h[p + k] = [doc |-> d, word |-> Distinct[t][k]]
    BY <1>1 DEF Blocks
  <2>3. x \in Seq(Hit) /\ Len(x) = c /\ \A k \in 1..c : x[k] = [doc |-> d, word |-> Distinct[t][k]]
    BY <2>1, <2>2, HitsOfRowType DEF Hit
  <2> HIDE DEF p, q, c, h, d, t, x
  <2>4. m \in Int /\ q \in Int /\ \A k \in m..q : h[k] \in Hit
    <3>1. \A k \in m..q : k \in 1..Len(h)
      BY <2>1
    <3> QED BY <2>1, <3>1, ElementOfSeq
  <2>5. q - m + 1 = c /\ (m <= q <=> c # 0) /\ \A k \in 1..c : m + k - 1 = p + k
    BY <2>1
  <2> HIDE DEF m
  <2>6. /\ y \in Seq(Hit) /\ Len(y) = IF m <= q THEN q - m + 1 ELSE 0
        /\ \A k \in 1..q - m + 1 : y[k] = h[m + k - 1]
    BY <2>4, SubSeqProperties
  <2> HIDE DEF y
  <2>7. Len(y) = Len(x) /\ \A k \in 1..Len(y) : y[k] = x[k]
    <3>1. Len(y) = c
      BY <2>1, <2>5, <2>6
    <3>2. ASSUME NEW k \in 1..c PROVE y[k] = x[k]
      <4>1. y[k] = h[p + k]
        BY <2>5, <2>6
      <4> QED BY <2>2, <2>3, <4>1
    <3> QED BY <2>3, <3>1, <3>2
  <2>8. y = x
    BY <2>3, <2>6, <2>7, SeqEqual
  <2> QED BY <2>8 DEF y, x, m, p, q, h, d, t
<1> QED BY <1>1, <1>2 DEF Blocks

\* Where the duplicates of a transaction are removed, its counts lead to the hits of every
\* row.  It needs that no text has a hit twice in a row, as AddDocument keeps one and counts
\* two, and that a transaction after a ROLLBACK adds at most one row, as RollBack leaves the
\* counts of the rows it drops.
THEOREM HitsStayWithRows == NoRepeats /\ MaxAfterRollback <= 1 /\ Spec => []HitsFollowRows
<1> SUFFICES ASSUME NoRepeats, MaxAfterRollback <= 1 PROVE Spec => []HitsFollowRows
  OBVIOUS
<1>1. Init => TypeInv /\ HitsInv
  BY InitTypes, InitHits
<1>2. TypeInv /\ HitsInv /\ [Next]_vars => (TypeInv /\ HitsInv)'
  BY TypesStep, HitsStep
<1>3. TypeInv /\ HitsInv => HitsFollowRows
  <2> SUFFICES ASSUME TypeInv, HitsInv, NEW s \in Session, Len(acc[s].rows) > 1
               PROVE  LET a == acc[s] IN
                      /\ Len(a.counts) = Len(a.rows)
                      /\ HitIndex(a, Len(a.rows) + 1) = Len(a.hits)
                      /\ \A r \in 1..Len(a.rows) :
                           SubSeq(a.hits, HitIndex(a, r) + 1, HitIndex(a, r + 1))
                             = HitsOfRow(a.rows[r].doc, a.rows[r].text)
    BY DEF HitsFollowRows
  <2> DEFINE a == acc[s]
  <2>1. a \in Acc /\ HitsOfRows(a) /\ Len(a.rows) > 1
    BY DEF TypeInv, AccInv, HitsInv
  <2> HIDE DEF a
  <2>2. /\ Len(a.counts) = Len(a.rows)
        /\ HitIndex(a, Len(a.rows) + 1) = Len(a.hits)
        /\ \A r \in 1..Len(a.rows) :
             SubSeq(a.hits, HitIndex(a, r) + 1, HitIndex(a, r + 1)) = HitsOfRow(a.rows[r].doc, a.rows[r].text)
    BY <2>1, BlocksFollow
  <2> QED BY <2>2 DEF a
<1> QED BY <1>1, <1>2, <1>3, PTL DEF Spec

-----------------------------------------------------------------------------
(* A commit does what the statements of its transaction say. *)

\* What the rows and the kills of an accumulator want of a document.
WantOf(a, w) ==
  /\ \A r \in Last1(a) : w[a.rows[r].doc] = a.rows[r].text
  /\ \A d \in Doc \ DocsOf(a) : w[d] = IF d \in a.kill THEN NoRow ELSE Kept

WantInv == \A s \in Session : WantOf(acc[s], want[s])

LEMMA WantAdd ==
  ASSUME NEW a \in Acc, NEW w \in [Doc -> Text \cup {NoRow, Kept}], WantOf(a, w),
         NEW i \in Index, NEW d \in Doc, NEW t \in Text, NEW b, Added(a, b, i, d, t)
  PROVE  WantOf(b, [w EXCEPT ![d] = t])
<1> DEFINE L == Len(a.rows)  e == [doc |-> d, text |-> t, cols |-> cols[i]]  v == [w EXCEPT ![d] = t]
<1>1. /\ b.rows = Append(a.rows, e) /\ b.kill = a.kill \cup {d} /\ e \in Row /\ e.doc = d /\ e.text = t
      /\ L \in Nat /\ a.rows \in Seq(Row) /\ \A r \in 1..L : a.rows[r].doc \in Doc
  BY AccFacts DEF Added
<1>2. v[d] = t /\ \A x \in Doc : x # d => v[x] = w[x]
  OBVIOUS
<1> HIDE DEF L, e, v
<1>3. /\ Len(b.rows) = L + 1 /\ (\A r \in 1..L : b.rows[r] = a.rows[r]) /\ b.rows[L + 1] = e
  BY <1>1, AppendProperties DEF L
<1>4. ASSUME NEW r \in Last1(b) PROVE v[b.rows[r].doc] = b.rows[r].text
  <2>1. r \in 1..L + 1 /\ r \notin Duplicates(b)
    BY <1>3 DEF Last1
  <2>2. CASE r = L + 1
    BY <1>1, <1>2, <1>3, <2>2
  <2>3. CASE r # L + 1
    <3>1. r \in 1..L /\ b.rows[r] = a.rows[r]
      BY <1>1, <1>3, <2>1, <2>3
    <3>2. \A n \in r + 1..L + 1 : b.rows[n].doc # b.rows[r].doc
      BY <1>3, <2>1 DEF Duplicates
    <3>3. a.rows[r].doc # d
      <4>1. L + 1 \in r + 1..L + 1
        BY <1>1, <3>1
      <4>2. b.rows[L + 1].doc # b.rows[r].doc
        BY <3>2, <4>1
      <4> QED BY <1>1, <1>3, <3>1, <4>2
    <3>4. \A n \in r + 1..L : a.rows[n].doc # a.rows[r].doc
      <4> SUFFICES ASSUME NEW n \in r + 1..L PROVE a.rows[n].doc # a.rows[r].doc
        OBVIOUS
      <4>1. n \in r + 1..L + 1 /\ n \in 1..L
        BY <1>1, <3>1
      <4>2. b.rows[n] = a.rows[n]
        BY <1>3, <4>1
      <4> QED BY <3>1, <3>2, <4>1, <4>2
    <3>5. r \in Last1(a)
      BY <3>1, <3>4 DEF Last1, Duplicates, L
    <3>6. w[a.rows[r].doc] = a.rows[r].text
      BY <3>5 DEF WantOf
    <3> QED BY <1>1, <1>2, <3>1, <3>3, <3>6
  <2> QED BY <2>2, <2>3
<1>5. ASSUME NEW x \in Doc \ DocsOf(b) PROVE v[x] = IF x \in b.kill THEN NoRow ELSE Kept
  <2>1. \A r \in 1..L + 1 : b.rows[r].doc # x
    BY <1>3, <1>5 DEF DocsOf
  <2>2. x # d
    <3>1. L + 1 \in 1..L + 1
      BY <1>1
    <3>2. b.rows[L + 1].doc # x
      BY <2>1, <3>1
    <3> QED BY <1>1, <1>3, <3>2
  <2>3. x \notin DocsOf(a)
    <3>1. ASSUME NEW r \in 1..L PROVE a.rows[r].doc # x
      <4>1. r \in 1..L + 1
        BY <1>1
      <4> QED BY <1>3, <2>1, <4>1
    <3> QED BY <3>1 DEF DocsOf, L
  <2>4. w[x] = IF x \in a.kill THEN NoRow ELSE Kept
    BY <2>3 DEF WantOf
  <2> QED BY <1>1, <1>2, <2>2, <2>4
<1>6. WantOf(b, v)
  BY <1>4, <1>5 DEF WantOf
<1> QED BY <1>6 DEF v

\* Only the rows and the kills matter.
LEMMA WantSame ==
  ASSUME NEW a, NEW b, NEW w, a.rows = b.rows, a.kill = b.kill, WantOf(a, w)
  PROVE  WantOf(b, w)
BY DEF WantOf, Last1, Duplicates, DocsOf

LEMMA WantSet ==
  ASSUME AccInv, OthersInv, WantInv, NEW s \in Session, NEW b, NEW w,
         acc' = [acc EXCEPT ![s] = b], want' = [want EXCEPT ![s] = w], WantOf(b, w)
  PROVE  WantInv'
<1>1. ASSUME NEW u \in Session PROVE WantOf(acc'[u], want'[u])
  <2>1. acc'[u] = (IF u = s THEN b ELSE acc[u]) /\ want'[u] = (IF u = s THEN w ELSE want[u])
    BY DEF AccInv, OthersInv
  <2> QED BY <2>1 DEF WantInv
<1>2. \A u \in Session : WantOf(acc[u], want[u])'
  BY <1>1 DEF WantOf, Last1, Duplicates, DocsOf
<1> QED BY <1>2 DEF WantInv

LEMMA NothingWanted ==
  ASSUME NEW b \in Acc, b.rows = <<>>, b.kill = {}
  PROVE  WantOf(b, Nothing)
<1>1. Len(b.rows) = 0
  OBVIOUS
<1>2. Last1(b) = {} /\ DocsOf(b) = {}
  BY <1>1 DEF Last1, DocsOf
<1> QED BY <1>2 DEF WantOf, Nothing

\* DELETE of documents that the transaction has not inserted.
LEMMA WantKills ==
  ASSUME NEW a \in Acc, NEW w \in [Doc -> Text \cup {NoRow, Kept}], WantOf(a, w), NEW D \in SUBSET Doc,
         D \cap DocsOf(a) = {}, NEW b, b.rows = a.rows, b.kill = a.kill \cup D
  PROVE  WantOf(b, [d \in Doc |-> IF d \in D THEN NoRow ELSE w[d]])
<1> DEFINE v == [d \in Doc |-> IF d \in D THEN NoRow ELSE w[d]]
<1>1. DocsOf(b) = DocsOf(a) /\ Last1(b) = Last1(a)
  BY DEF DocsOf, Last1, Duplicates
<1>2. ASSUME NEW r \in Last1(b) PROVE v[b.rows[r].doc] = b.rows[r].text
  <2>1. a.rows[r].doc \in Doc /\ a.rows[r].doc \in DocsOf(a)
    BY <1>1, AccFacts DEF Last1, DocsOf
  <2>2. w[a.rows[r].doc] = a.rows[r].text
    BY <1>1 DEF WantOf
  <2> QED BY <2>1, <2>2
<1>3. ASSUME NEW d \in Doc \ DocsOf(b) PROVE v[d] = IF d \in b.kill THEN NoRow ELSE Kept
  <2>1. w[d] = IF d \in a.kill THEN NoRow ELSE Kept
    BY <1>1 DEF WantOf
  <2> QED BY <2>1
<1> HIDE DEF v
<1>4. WantOf(b, v)
  BY <1>2, <1>3 DEF WantOf
<1> QED BY <1>4 DEF v

LEMMA WantStep ==
  ASSUME ~DeleteOwn, TypeInv, WantInv, [Next]_vars
  PROVE  WantInv'
<1> USE DEF TypeInv
<1>0. acc \in [Session -> Acc] /\ want \in [Session -> [Doc -> Text \cup {NoRow, Kept}]]
  BY DEF AccInv, OthersInv
<1>1. CASE UNCHANGED <<acc, want>>
  BY <1>1 DEF WantInv, WantOf, Last1, Duplicates, DocsOf
<1>2. ASSUME NEW s \in Session, InsertRow(s) PROVE WantInv'
  <2>1. PICK i \in Index, d \in Doc, t \in Text :
          LET a == acc[s]  b == AddDocument(a, i, d, t) IN
           /\ a \in Acc /\ Added(a, b, i, d, t)
           /\ acc' = [acc EXCEPT ![s] = b]
           /\ want' = [want EXCEPT ![s][d] = t]
    BY <1>2, InsertRowAcc
  <2> DEFINE a == acc[s]  b == AddDocument(a, i, d, t)  w == want[s]  v == [w EXCEPT ![d] = t]
  <2>2. WantOf(a, w) /\ w \in [Doc -> Text \cup {NoRow, Kept}]
    BY <1>0 DEF WantInv
  <2>3. want' = [want EXCEPT ![s] = v] /\ acc' = [acc EXCEPT ![s] = b] /\ a \in Acc /\ Added(a, b, i, d, t)
    BY <1>0, <2>1
  <2> HIDE DEF a, b, w
  <2>4. WantOf(b, v)
    BY <2>2, <2>3, WantAdd
  <2> HIDE DEF v
  <2> QED BY <2>3, <2>4, WantSet
<1>3. ASSUME NEW s \in Session, NEW i \in Index, Acquired(s, i), acc' = [acc EXCEPT ![s].index = i],
             UNCHANGED <<want, cols>>
      PROVE  WantInv'
  <2> DEFINE D == {}
  <2>1. D \in SUBSET Doc /\ D = {}
    OBVIOUS
  <2> HIDE DEF D
  <2>2. /\ acc'[s].rows = acc[s].rows /\ acc'[s].kill = acc[s].kill
        /\ \A u \in Session \ {s} : acc'[u] = acc[u]
    BY <1>3, <2>1, Acquire
  <2>3. ASSUME NEW u \in Session PROVE WantOf(acc'[u], want'[u])
    <3>1. WantOf(acc[u], want[u]) /\ want'[u] = want[u]
      BY <1>3 DEF WantInv
    <3>2. acc'[u].rows = acc[u].rows /\ acc'[u].kill = acc[u].kill
      BY <2>2
    <3> QED BY <3>1, <3>2, WantSame
  <2>4. \A u \in Session : WantOf(acc[u], want[u])'
    BY <2>3 DEF WantOf, Last1, Duplicates, DocsOf
  <2> QED BY <2>4 DEF WantInv
<1>4. ASSUME NEW s \in Session, DeleteBegin(s) PROVE WantInv'
  <2>1. PICK q \in Deletes : /\ Acquired(s, q.index) /\ cols' = cols
                             /\ \A r \in 1..Len(acc[s].rows) : acc[s].rows[r].doc \notin q.docs
                             /\ acc' = [acc EXCEPT ![s].index = q.index, ![s].kill = @ \cup q.docs]
                             /\ want' = [want EXCEPT ![s] = [d \in Doc |-> IF d \in q.docs THEN NoRow ELSE @[d]]]
    BY <1>4 DEF DeleteBegin
  <2> DEFINE i == q.index  D == q.docs  w == want[s]  v == [d \in Doc |-> IF d \in D THEN NoRow ELSE w[d]]
             b == acc'[s]  a == acc[s]
  <2>2. i \in Index /\ D \in SUBSET Doc
    BY StatementsAssumption
  <2>3. /\ Acquired(s, i) /\ acc' = [acc EXCEPT ![s].index = i, ![s].kill = @ \cup D]
        /\ want' = [want EXCEPT ![s] = v] /\ D \cap DocsOf(a) = {}
    BY <2>1 DEF DocsOf
  <2>4. WantOf(a, w) /\ w \in [Doc -> Text \cup {NoRow, Kept}] /\ a \in Acc
    BY <1>0 DEF WantInv
  <2> HIDE DEF i, D
  <2>5. /\ b.rows = a.rows /\ b.kill = a.kill \cup D /\ \A u \in Session \ {s} : acc'[u] = acc[u]
    BY <2>1, <2>2, <2>3, Acquire, ZenonT(40)
  <2>6. acc' = [acc EXCEPT ![s] = b]
    BY <1>0, <2>3
  <2> HIDE DEF w, a, b
  <2>7. WantOf(b, v)
    BY <2>2, <2>3, <2>4, <2>5, WantKills
  <2> HIDE DEF v
  <2> QED BY <2>3, <2>6, <2>7, WantSet
<1>5. ASSUME NEW s \in Session, NEW b \in Acc, Emptied(s, b) PROVE WantInv'
  <2>1. WantOf(b, Nothing) /\ acc' = [acc EXCEPT ![s] = b] /\ want' = [want EXCEPT ![s] = Nothing]
    BY <1>5, NothingWanted DEF Emptied
  <2> QED BY <2>1, WantSet
<1>6. ASSUME NEW s \in Session, Commit(s, acc[s]) PROVE WantInv'
  <2>1. <<>> \in Seq(Nat)
    BY EmptySeq
  <2>2. NoAcc \in Acc /\ NoAcc.rows = <<>> /\ NoAcc.hits = <<>> /\ NoAcc.kill = {} /\ NoAcc.index = NoIndex
    BY <2>1, NoAccIs DEF NoAcc
  <2>3. Emptied(s, NoAcc)
    BY <1>6, <2>2 DEF Commit, Emptied
  <2> QED BY <1>5, <2>2, <2>3
<1>7. ASSUME NEW i \in Index, Dump(i) PROVE WantInv'
  BY <1>1, <1>7 DEF Dump
<1> HIDE DEF TypeInv
<1> QED BY <1>1, <1>2, <1>3, <1>4, <1>5, <1>6, <1>7, Effects

LEMMA InitWant == Init => WantInv
<1> SUFFICES ASSUME Init PROVE WantInv
  OBVIOUS
<1>1. <<>> \in Seq(Nat)
  BY EmptySeq
<1>2. NoAcc \in Acc /\ NoAcc.rows = <<>> /\ NoAcc.kill = {}
  BY <1>1, NoAccIs DEF NoAcc
<1>3. WantOf(NoAcc, Nothing)
  BY <1>2, NothingWanted
<1> QED BY <1>3 DEF Init, WantInv

LEMMA ContentIs ==
  ASSUME NEW t \in Text
  PROVE  /\ ContentOf[t] \in [text : Text, words : WordCount] /\ ContentOf[t].text = t
         /\ ContentOf[t] = [text |-> t, words |-> ContentOf[t].words]
         /\ ContentOf[t] # Kept /\ ContentOf[t] \in Contents
<1> DEFINE D == Distinct[t]  words == [w \in Word |-> Times(D, 0, Len(D), w)]
<1>1. ContentOf[t] = [text |-> t, words |-> words]
  <2>1. 0 + 1 = 1
    OBVIOUS
  <2> QED BY <2>1 DEF ContentOf, Times, Places
<1>2. words \in WordCount
  <2>1. Len(D) \in Nat /\ 0 \in Nat
    BY DistinctType, LenProperties
  <2> HIDE DEF D
  <2>2. \A w \in Word : Times(D, 0, Len(D), w) \in Nat
    BY <2>1, TimesType
  <2> QED BY <2>2 DEF WordCount
<1> HIDE DEF words
<1>3. ContentOf[t] \in [text : Text, words : WordCount]
  BY <1>1, <1>2
<1>4. ContentOf[t] # Kept
  BY <1>3, NamesAssumption DEF WordCount
<1> QED BY <1>1, <1>3, <1>4 DEF Contents

\* Only the transaction of session s changes.
LEMMA PendingSet ==
  ASSUME acc \in [Session -> Acc], want \in [Session -> [Doc -> Text \cup {NoRow, Kept}]],
         NEW s \in Session, NEW b, NEW w, acc' = [acc EXCEPT ![s] = b], want' = [want EXCEPT ![s] = w]
  PROVE  Pending' = [Pending EXCEPT ![s] = [index |-> b.index, want |-> Wants(w)]]
<1>1. ASSUME NEW u \in Session
      PROVE  [index |-> acc'[u].index, want |-> Wants(want'[u])]
               = IF u = s THEN [index |-> b.index, want |-> Wants(w)] ELSE Pending[u]
  <2>1. acc'[u] = (IF u = s THEN b ELSE acc[u]) /\ want'[u] = (IF u = s THEN w ELSE want[u])
    OBVIOUS
  <2> QED BY <2>1 DEF Pending
<1>2. Pending' = [u \in Session |-> [index |-> acc'[u].index, want |-> Wants(want'[u])]]
  BY DEF Pending, Wants
<1>3. Pending' = [u \in Session |-> IF u = s THEN [index |-> b.index, want |-> Wants(w)] ELSE Pending[u]]
  BY <1>1, <1>2
<1>4. Pending = [u \in Session |-> Pending[u]]
  BY DEF Pending
<1> QED BY <1>3, <1>4

\* The stored documents after a commit are those the transaction wants.
LEMMA CommitFound ==
  ASSUME ~AlterInTxn, TypeInv, HitsInv, WantInv, NEW s \in Session, Commit(s, acc[s]), NEW d \in Doc
  PROVE  LET i == acc[s].index  w == Wants(want[s])  x == Committed(acc[s])[d] IN
         (IF x = NoRow THEN NoRow ELSE [text |-> x.text, words |-> x.words])
           = IF w[d] = Kept THEN Found(i, d) ELSE w[d]
<1> DEFINE a == acc[s]  i == a.index  w == want[s]  x == Committed(a)[d]
<1>1. a \in Acc /\ i \in Index /\ CountsFit(a) /\ Fit(a) /\ HitsOfRows(a) /\ WantOf(a, w)
      /\ w \in [Doc -> Text \cup {NoRow, Kept}]
  BY DEF TypeInv, AccInv, StmtInv, OthersInv, Commit, CountsFit, HitsInv, WantInv
<1>2. Wants(w)[d] = IF w[d] \in Text THEN ContentOf[w[d]] ELSE w[d]
  BY DEF Wants
<1>3. /\ \A r \in Last1(a) : a.rows[r].doc = d =>
           x = [text |-> a.rows[r].text, words |-> ContentOf[a.rows[r].text].words, ram |-> TRUE]
      /\ d \notin DocsOf(a) => x = IF d \in a.kill THEN NoRow ELSE stored[i][d]
  BY <1>1, CommittedIs
<1> HIDE DEF a, i, w, x
<1>4. CASE d \in DocsOf(a)
  <2>1. PICK n \in 1..Len(a.rows) : a.rows[n].doc = d
    BY <1>4 DEF DocsOf
  <2>2. PICK r \in Last1(a) : a.rows[r].doc = d
    BY <1>1, <2>1, LastStays DEF Last1
  <2> DEFINE t == a.rows[r].text  c == ContentOf[t]
  <2>3. t \in Text /\ w[d] = t /\ x = [text |-> t, words |-> c.words, ram |-> TRUE]
    BY <1>1, <1>3, <2>2, AccFacts DEF Last1, WantOf
  <2> HIDE DEF t
  <2>4. c \in [text : Text, words : WordCount] /\ c = [text |-> t, words |-> c.words] /\ c # Kept
    BY <2>3, ContentIs
  <2> HIDE DEF c
  <2>5. x \in [text : Text, words : WordCount, ram : BOOLEAN] /\ x.text = t /\ x.words = c.words
    BY <2>3, <2>4
  <2>6. x # NoRow
    BY <2>5, NamesAssumption DEF WordCount
  <2>7. Wants(w)[d] = c
    BY <1>2, <2>3 DEF c
  <2>8. [text |-> x.text, words |-> x.words] = c
    BY <2>4, <2>5
  <2> QED BY <2>4, <2>6, <2>7, <2>8 DEF a, i, w, x
<1>5. CASE d \notin DocsOf(a)
  <2>1. w[d] = (IF d \in a.kill THEN NoRow ELSE Kept) /\ x = (IF d \in a.kill THEN NoRow ELSE stored[i][d])
    BY <1>1, <1>3, <1>5 DEF WantOf
  <2>2. NoRow \notin Text /\ Kept \notin Text /\ NoRow # Kept
    BY NamesAssumption
  <2>3. CASE d \in a.kill
    <3>1. Wants(w)[d] = NoRow /\ x = NoRow
      BY <1>2, <2>1, <2>2, <2>3
    <3> QED BY <2>2, <3>1 DEF a, i, w, x
  <2>4. CASE d \notin a.kill
    <3>1. Wants(w)[d] = Kept /\ x = stored[i][d]
      BY <1>2, <2>1, <2>2, <2>4
    <3> QED BY <3>1 DEF a, i, w, x, Found
  <2> QED BY <2>3, <2>4
<1> QED BY <1>4, <1>5

LEMMA StoreStep ==
  ASSUME ~AlterInTxn, TypeInv, HitsInv, WantInv, [Next]_vars
  PROVE  [Store!Next]_(Store!vars)
<1> USE DEF TypeInv
<1>0. /\ acc \in [Session -> Acc] /\ want \in [Session -> [Doc -> Text \cup {NoRow, Kept}]]
      /\ stored \in [Index -> [Doc -> Stored \cup {NoRow}]]
  BY DEF AccInv, OthersInv, StoredInv
<1>8. ASSUME stored' = stored PROVE Docs' = Docs
  BY <1>8 DEF Docs, Found
<1>9. \A s \in Session : Pending[s].index = acc[s].index /\ Pending[s].want = Wants(want[s])
  BY DEF Pending
<1>10. \A w \in [Doc -> Text \cup {NoRow, Kept}], d \in Doc :
         Wants(w)[d] = IF w[d] \in Text THEN ContentOf[w[d]] ELSE w[d]
  BY DEF Wants
<1>1. CASE UNCHANGED <<acc, want, stored>>
  <2>1. Docs' = Docs /\ Pending' = Pending
    BY <1>1, <1>8 DEF Pending, Wants
  <2> QED BY <2>1 DEF Store!vars
<1>11. ASSUME NEW s \in Session, NEW i \in Index, NEW D \in SUBSET Doc, NEW c \in Contents \cup {NoRow},
              Acquired(s, i), stored' = stored,
              Pending' = [Pending EXCEPT ![s] =
                [index |-> i, want |-> [d \in Doc |-> IF d \in D THEN c ELSE Pending[s].want[d]]]]
       PROVE  Store!Next
  <2>1. Pending[s].index \in {i, NoIndex} /\ Docs' = Docs
    BY <1>8, <1>9, <1>11 DEF Acquired
  <2>2. Store!Change(s)
    BY <1>11, <2>1 DEF Store!Change
  <2> QED BY <2>2 DEF Store!Next
<1>2. ASSUME NEW s \in Session, InsertRow(s) PROVE Store!Next
  <2>1. PICK i \in Index, d \in Doc, t \in Text :
          LET a == acc[s]  b == AddDocument(a, i, d, t) IN
           /\ a \in Acc /\ Added(a, b, i, d, t) /\ a.index \in {i, NoIndex}
           /\ acc' = [acc EXCEPT ![s] = b]
           /\ want' = [want EXCEPT ![s][d] = t]
           /\ UNCHANGED <<stored, cols>>
    BY <1>2, InsertRowAcc
  <2> DEFINE a == acc[s]  b == AddDocument(a, i, d, t)  w == want[s]  v == [w EXCEPT ![d] = t]  D == {d}
             c == ContentOf[t]
  <2>2. w \in [Doc -> Text \cup {NoRow, Kept}]
    BY <1>0
  <2>3. /\ want' = [want EXCEPT ![s] = v] /\ acc' = [acc EXCEPT ![s] = b] /\ b.index = i
        /\ Acquired(s, i) /\ stored' = stored
    BY <1>0, <2>1 DEF Added, Acquired
  <2>4. c \in Contents \cup {NoRow} /\ D \in SUBSET Doc
    BY ContentIs
  <2>5. Pending[s].want = Wants(w)
    BY <1>9
  <2>6. Wants(v) = [x \in Doc |-> IF x \in D THEN c ELSE Pending[s].want[x]]
    <3>1. v \in [Doc -> Text \cup {NoRow, Kept}] /\ v[d] = t /\ \A x \in Doc : x # d => v[x] = w[x]
      BY <2>2
    <3>2. ASSUME NEW x \in Doc PROVE Wants(v)[x] = IF x \in D THEN c ELSE Pending[s].want[x]
      <4> HIDE DEF v, w
      <4> QED BY <1>10, <2>2, <2>5, <3>1
    <3>3. Wants(v) = [x \in Doc |-> Wants(v)[x]]
      BY DEF Wants
    <3> HIDE DEF v, c, D
    <3> QED BY <3>2, <3>3
  <2> HIDE DEF a, b, v, w, D, c
  <2>7. Pending' = [Pending EXCEPT ![s] = [index |-> b.index, want |-> Wants(v)]]
    BY <1>0, <2>3, PendingSet
  <2> QED BY <1>11, <2>3, <2>4, <2>6, <2>7
<1>3. ASSUME NEW s \in Session, NEW i \in Index, Acquired(s, i), acc' = [acc EXCEPT ![s].index = i],
             UNCHANGED <<want, stored, cols>>
      PROVE  Store!Next
  <2> DEFINE D == {}  b == acc'[s]  w == want[s]
  <2>1. D \in SUBSET Doc /\ D = {}
    OBVIOUS
  <2> HIDE DEF D
  <2>2. b.index = i
    BY <1>3, <2>1, Acquire
  <2>3. acc' = [acc EXCEPT ![s] = b] /\ want' = [want EXCEPT ![s] = w]
    BY <1>0, <1>3
  <2>4. Wants(w) = [x \in Doc |-> IF x \in D THEN NoRow ELSE Pending[s].want[x]]
    <3>1. Pending[s].want = Wants(w) /\ Wants(w) = [x \in Doc |-> Wants(w)[x]]
      BY <1>9 DEF Wants
    <3> HIDE DEF w
    <3> QED BY <2>1, <3>1
  <2> HIDE DEF b, w
  <2>5. Pending' = [Pending EXCEPT ![s] = [index |-> b.index, want |-> Wants(w)]]
    BY <1>0, <2>3, PendingSet
  <2> QED BY <1>3, <1>11, <2>1, <2>2, <2>4, <2>5
<1>4. ASSUME NEW s \in Session, DeleteBegin(s) PROVE Store!Next
  <2>1. PICK q \in Deletes : /\ Acquired(s, q.index) /\ cols' = cols /\ stored' = stored
                             /\ acc' = [acc EXCEPT ![s].index = q.index, ![s].kill = @ \cup q.docs]
                             /\ want' = [want EXCEPT ![s] = [d \in Doc |-> IF d \in q.docs THEN NoRow ELSE @[d]]]
    BY <1>4 DEF DeleteBegin
  <2> DEFINE i == q.index  D == q.docs  w == want[s]  v == [d \in Doc |-> IF d \in D THEN NoRow ELSE w[d]]
             b == acc'[s]
  <2>2. i \in Index /\ D \in SUBSET Doc
    BY StatementsAssumption
  <2>3. /\ Acquired(s, i) /\ acc' = [acc EXCEPT ![s].index = i, ![s].kill = @ \cup D]
        /\ want' = [want EXCEPT ![s] = v]
    BY <2>1
  <2>4. w \in [Doc -> Text \cup {NoRow, Kept}] /\ Pending[s].want = Wants(w)
    BY <1>0, <1>9
  <2> HIDE DEF i, D
  <2>5. b.index = i
    BY <2>1, <2>2, <2>3, Acquire
  <2>6. acc' = [acc EXCEPT ![s] = b]
    BY <1>0, <2>3
  <2>7. Wants(v) = [x \in Doc |-> IF x \in D THEN NoRow ELSE Pending[s].want[x]]
    <3>1. v \in [Doc -> Text \cup {NoRow, Kept}] /\ \A x \in Doc : v[x] = IF x \in D THEN NoRow ELSE w[x]
      BY <2>4
    <3>2. NoRow \notin Text
      BY NamesAssumption
    <3>3. ASSUME NEW x \in Doc PROVE Wants(v)[x] = IF x \in D THEN NoRow ELSE Pending[s].want[x]
      <4> HIDE DEF v, w
      <4> QED BY <1>10, <2>4, <3>1, <3>2
    <3>4. Wants(v) = [x \in Doc |-> Wants(v)[x]]
      BY DEF Wants
    <3> HIDE DEF v
    <3> QED BY <3>3, <3>4
  <2> HIDE DEF b, v, w
  <2>8. Pending' = [Pending EXCEPT ![s] = [index |-> b.index, want |-> Wants(v)]]
    <3>1. want' = [want EXCEPT ![s] = v]
      BY <2>3
    <3> QED BY <1>0, <2>6, <3>1, PendingSet
  <2> QED BY <1>11, <2>1, <2>2, <2>3, <2>5, <2>7, <2>8
<1>12. Wants(Nothing) = [d \in Doc |-> Kept]
  BY NamesAssumption DEF Wants, Nothing
<1>13. ASSUME NEW s \in Session, NEW b, acc' = [acc EXCEPT ![s] = b], b.index = NoIndex,
              want' = [want EXCEPT ![s] = Nothing]
       PROVE  Pending' = [Pending EXCEPT ![s] = Store!NoTxn]
  <2> DEFINE w == Nothing
  <2>1. want' = [want EXCEPT ![s] = w]
    BY <1>13
  <2> HIDE DEF w
  <2>2. Pending' = [Pending EXCEPT ![s] = [index |-> b.index, want |-> Wants(w)]]
    BY <1>0, <1>13, <2>1, PendingSet, ZenonT(40)
  <2>3. [index |-> b.index, want |-> Wants(w)] = Store!NoTxn
    BY <1>12, <1>13 DEF Store!NoTxn, w
  <2> QED BY <2>2, <2>3
<1>5. ASSUME NEW s \in Session, NEW b \in Acc, Emptied(s, b), stored' = stored PROVE Store!Next
  <2>1. Pending' = [Pending EXCEPT ![s] = Store!NoTxn] /\ Docs' = Docs
    BY <1>5, <1>8, <1>13 DEF Emptied
  <2> QED BY <2>1 DEF Store!Next, Store!Rollback
<1>6. ASSUME NEW s \in Session, Commit(s, acc[s]) PROVE Store!Next
  <2> DEFINE i == acc[s].index  w == Wants(want[s])  C == Committed(acc[s])
  <2>1. i \in Index /\ i # NoIndex
    BY <1>6, NamesAssumption DEF Commit, StmtInv
  <2>2. stored' = [stored EXCEPT ![i] = C]
    BY <1>6 DEF Commit
  <2>3. Pending[s].index = i /\ Pending[s].want = w
    BY <1>9
  <2>4. Pending' = [Pending EXCEPT ![s] = Store!NoTxn]
    <3>1. acc' = [acc EXCEPT ![s] = NoAcc] /\ want' = [want EXCEPT ![s] = Nothing] /\ NoAcc.index = NoIndex
      BY <1>6 DEF Commit, NoAcc
    <3> QED BY <1>13, <3>1
  <2>5. \A d \in Doc : (IF C[d] = NoRow THEN NoRow ELSE [text |-> C[d].text, words |-> C[d].words])
                         = IF w[d] = Kept THEN Found(i, d) ELSE w[d]
    BY <1>6, CommitFound
  <2> HIDE DEF i, w, C
  <2> DEFINE new == [d \in Doc |-> IF w[d] = Kept THEN Docs[i][d] ELSE w[d]]
  <2>6. ASSUME NEW j \in Index, NEW d \in Doc
        PROVE  Found(j, d)' = IF j = i THEN new[d] ELSE Docs[j][d]
    <3>1. Docs[j][d] = Found(j, d)
      BY DEF Docs
    <3>2. stored'[j] = IF j = i THEN C ELSE stored[j]
      BY <1>0, <2>2
    <3>3. Found(j, d)' = IF stored'[j][d] = NoRow THEN NoRow
                         ELSE [text |-> stored'[j][d].text, words |-> stored'[j][d].words]
      BY DEF Found
    <3>4. CASE j = i
      <4>1. stored'[j] = C
        BY <3>2, <3>4
      <4>2. Found(j, d)' = IF w[d] = Kept THEN Found(i, d) ELSE w[d]
        BY <2>5, <3>3, <4>1
      <4>3. new[d] = IF w[d] = Kept THEN Docs[i][d] ELSE w[d]
        OBVIOUS
      <4> HIDE DEF new
      <4> QED BY <3>1, <3>4, <4>2, <4>3
    <3>5. CASE j # i
      <4>1. stored'[j] = stored[j]
        BY <3>2, <3>5
      <4> QED BY <3>1, <3>3, <3>5, <4>1 DEF Found
    <3> QED BY <3>4, <3>5
  <2>7. Docs' = [Docs EXCEPT ![i] = new]
    <3>1. Docs' = [j \in Index |-> [d \in Doc |-> Found(j, d)']]
      BY DEF Docs
    <3>2. Docs = [j \in Index |-> Docs[j]] /\ \A j \in Index : Docs[j] = [d \in Doc |-> Docs[j][d]]
      BY DEF Docs
    <3>3. new = [d \in Doc |-> new[d]]
      OBVIOUS
    <3> HIDE DEF new
    <3>4. Docs' = [j \in Index |-> IF j = i THEN new ELSE Docs[j]]
      <4>1. ASSUME NEW j \in Index PROVE [d \in Doc |-> Found(j, d)'] = IF j = i THEN new ELSE Docs[j]
        <5>1. CASE j = i
          <6>1. \A d \in Doc : Found(j, d)' = new[d]
            BY <2>6, <5>1
          <6> QED BY <3>3, <5>1, <6>1
        <5>2. CASE j # i
          <6>1. \A d \in Doc : Found(j, d)' = Docs[j][d]
            BY <2>6, <5>2
          <6> QED BY <3>2, <5>2, <6>1
        <5> QED BY <5>1, <5>2
      <4> QED BY <3>1, <4>1
    <3> QED BY <3>2, <3>4
  <2>8. Store!Commit(s)
    BY <2>1, <2>3, <2>4, <2>7 DEF Store!Commit
  <2> QED BY <2>8 DEF Store!Next
<1>7. ASSUME NEW i \in Index, Dump(i) PROVE UNCHANGED Store!vars
  <2>1. /\ stored' = [stored EXCEPT ![i] = [d \in Doc |-> IF @[d] = NoRow THEN NoRow ELSE [@[d] EXCEPT !.ram = FALSE]]]
        /\ UNCHANGED <<acc, want>>
    BY <1>7 DEF Dump
  <2>2. ASSUME NEW x \in Stored
        PROVE  /\ [x EXCEPT !.ram = FALSE] \in Stored /\ [x EXCEPT !.ram = FALSE].text = x.text
               /\ [x EXCEPT !.ram = FALSE].words = x.words
    BY DEF Stored
  <2>3. NoRow \notin Stored
    BY NamesAssumption DEF Stored, WordCount
  <2>4. ASSUME NEW j \in Index, NEW d \in Doc PROVE Found(j, d)' = Found(j, d)
    <3>1. stored[j][d] \in Stored \cup {NoRow}
      BY <1>0
    <3>2. stored'[j][d] = IF j = i /\ stored[j][d] # NoRow THEN [stored[j][d] EXCEPT !.ram = FALSE] ELSE stored[j][d]
      <4> DEFINE new == [e \in Doc |-> IF stored[i][e] = NoRow THEN NoRow ELSE [stored[i][e] EXCEPT !.ram = FALSE]]
      <4>1. stored' = [stored EXCEPT ![i] = new]
        BY <1>0, <2>1
      <4>2. new[d] = IF stored[i][d] = NoRow THEN NoRow ELSE [stored[i][d] EXCEPT !.ram = FALSE]
        OBVIOUS
      <4> HIDE DEF new
      <4>3. stored'[j] = IF j = i THEN new ELSE stored[j]
        BY <1>0, <4>1
      <4>4. CASE j = i
        <5>1. stored'[j][d] = new[d]
          BY <4>3, <4>4
        <5> QED BY <4>2, <4>4, <5>1
      <4>5. CASE j # i
        BY <4>3, <4>5
      <4> QED BY <4>4, <4>5
    <3>3. Found(j, d)' = IF stored'[j][d] = NoRow THEN NoRow
                         ELSE [text |-> stored'[j][d].text, words |-> stored'[j][d].words]
      BY DEF Found
    <3>4. Found(j, d) = IF stored[j][d] = NoRow THEN NoRow
                        ELSE [text |-> stored[j][d].text, words |-> stored[j][d].words]
      BY DEF Found
    <3>5. CASE j = i /\ stored[j][d] # NoRow
      <4> DEFINE x == stored[j][d]  y == stored'[j][d]
      <4>1. x \in Stored /\ y = [x EXCEPT !.ram = FALSE]
        BY <3>1, <3>2, <3>5
      <4> HIDE DEF x, y
      <4>2. y \in Stored /\ y.text = x.text /\ y.words = x.words
        BY <2>2, <4>1
      <4>3. y # NoRow /\ x # NoRow
        BY <2>3, <4>1, <4>2
      <4> QED BY <3>3, <3>4, <4>2, <4>3 DEF x, y
    <3>6. CASE ~(j = i /\ stored[j][d] # NoRow)
      BY <3>2, <3>3, <3>4, <3>6
    <3> QED BY <3>5, <3>6
  <2>5. Docs' = [j \in Index |-> [d \in Doc |-> Found(j, d)']]
    BY DEF Docs
  <2>6. Docs' = Docs
    BY <2>4, <2>5 DEF Docs
  <2>7. Pending' = Pending
    BY <2>1 DEF Pending, Wants
  <2> QED BY <2>6, <2>7 DEF Store!vars
<1> HIDE DEF TypeInv
<1> QED BY <1>1, <1>2, <1>3, <1>4, <1>5, <1>6, <1>7, Effects

LEMMA StoreInit == Init => Store!Init
<1> SUFFICES ASSUME Init PROVE Store!Init
  OBVIOUS
<1>1. Docs = [i \in Index |-> [d \in Doc |-> NoRow]]
  BY DEF Init, Docs, Found
<1>2. Wants(Nothing) = [d \in Doc |-> Kept]
  BY NamesAssumption DEF Wants, Nothing
<1>3. \A s \in Session : acc[s].index = NoIndex /\ want[s] = Nothing
  BY DEF Init, NoAcc
<1>4. Pending = [s \in Session |-> Store!NoTxn]
  BY <1>2, <1>3 DEF Pending, Store!NoTxn
<1> QED BY <1>1, <1>4 DEF Store!Init

\* A commit makes, at once and in one index, what the statements of the transaction say: the
\* last version of each document, found by the words of that version and no others; ROLLBACK
\* and the end of a session leave nothing behind.  So it is where the hits stay with their rows
\* (HitsStayWithRows), no transaction deletes what it inserts and no index is altered while
\* rows wait for it.
THEOREM CommitsWhatIsSaid ==
  NoRepeats /\ MaxAfterRollback <= 1 /\ ~DeleteOwn /\ ~AlterInTxn /\ Spec => RefinesTxnStore
<1> SUFFICES ASSUME NoRepeats, MaxAfterRollback <= 1, ~DeleteOwn, ~AlterInTxn PROVE Spec => RefinesTxnStore
  OBVIOUS
<1> DEFINE Inv == TypeInv /\ HitsInv /\ WantInv
<1>1. Init => Inv
  BY InitTypes, InitHits, InitWant
<1>2. Inv /\ [Next]_vars => Inv'
  BY TypesStep, HitsStep, WantStep
<1>3. Inv /\ [Next]_vars => [Store!Next]_(Store!vars)
  BY StoreStep
<1>4. Init => Store!Init
  BY StoreInit
<1> HIDE DEF Inv
<1> QED BY <1>1, <1>2, <1>3, <1>4, PTL DEF Spec, Store!Spec, RefinesTxnStore

=============================================================================
