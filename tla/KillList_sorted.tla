-------------------------- MODULE KillList_sorted --------------------------
(***************************************************************************)
(* Proofs about the kill-list, for any documents, threads and sizes.       *)
(*                                                                         *)
(* Bisection is a recursive function on bounds, so that it is proved with  *)
(* the well-foundedness of the naturals: of the bounds for which it gives  *)
(* a wrong answer, take those that are nearest to each other.              *)
(***************************************************************************)
EXTENDS KillList, SequenceTheorems, FiniteSetTheorems, WellFoundedInduction, TLAPS

-----------------------------------------------------------------------------
(* Lemmas about bisection. *)

LEMMA NaturalOrder == \E R : IsWellFoundedOn(R, Nat) /\ \A i, j \in Nat : i < j => <<i, j>> \in R
<1> DEFINE R == OpToRel(<, Nat)
<1>1. \A i, j \in Nat : i < j => <<i, j>> \in R
  BY DEF OpToRel
<1>2. IsWellFoundedOn(R, Nat)
  BY NatLessThanWellFounded
<1> HIDE DEF R
<1> QED BY <1>1, <1>2

\* A set of naturals that is not empty has a least element.
LEMMA LeastNatural ==
  ASSUME NEW S, S \subseteq Nat, S # {}
  PROVE  \E n \in S : \A k \in S : n <= k
<1>1. PICK R : IsWellFoundedOn(R, Nat) /\ \A i, j \in Nat : i < j => <<i, j>> \in R
  BY NaturalOrder
<1>2. \E n \in S : \A k \in S : ~(<<k, n>> \in R)
  <2>1. IsWellFoundedOn(R, Nat)
    BY <1>1
  <2> QED BY <2>1, WFMin
<1>3. PICK n \in S : \A k \in S : ~(<<k, n>> \in R)
  BY <1>2
<1>4. ASSUME NEW k \in S PROVE n <= k
  <2>1. n \in Nat /\ k \in Nat /\ ~(k < n)
    BY <1>1, <1>3
  <2> QED BY <2>1
<1> QED BY <1>4

\* What one turn of the bisection looks at.
Middle(l, r) == l + (r - l) \div 2

Turn(s, d, f, l, r) ==
  /\ r - l > 1 /\ s[l] <= d /\ d <= s[r]
  /\ d = s[Middle(l, r)]
     \/ IF d < s[Middle(l, r)] THEN f[<<l, Middle(l, r)>>] ELSE f[<<Middle(l, r), r>>]

Halve(s, d, f) == [p \in (1..Len(s)) \X (1..Len(s)) |-> Turn(s, d, f, p[1], p[2])]

\* d is strictly between the bounds.
Between(s, d, l, r) == r - l > 1 /\ s[l] <= d /\ d <= s[r] /\ \E k \in (l+1)..(r-1) : s[k] = d

LEMMA MiddleBetween ==
  ASSUME NEW l \in Nat, NEW r \in Nat, r - l > 1
  PROVE  Middle(l, r) \in Nat /\ l < Middle(l, r) /\ Middle(l, r) < r
BY DEF Middle

\* In an ascending vector the right answer obeys the recursion.
LEMMA BetweenHalves ==
  ASSUME NEW s \in Seq(Nat), Ascending(s), NEW d \in Nat,
         NEW l \in 1..Len(s), NEW r \in 1..Len(s), r - l > 1, s[l] <= d, d <= s[r],
         d # s[Middle(l, r)]
  PROVE  /\ Middle(l, r) \in 1..Len(s) /\ l < Middle(l, r) /\ Middle(l, r) < r
         /\ d < s[Middle(l, r)] => (Between(s, d, l, r) <=> Between(s, d, l, Middle(l, r)))
         /\ ~(d < s[Middle(l, r)]) => (Between(s, d, l, r) <=> Between(s, d, Middle(l, r), r))
<1> DEFINE n == Len(s)
           m == Middle(l, r)
<1>1. n \in Nat /\ l \in 1..n /\ r \in 1..n /\ \A i \in 1..n : s[i] \in Nat
  BY LenProperties, ElementOfSeq
<1>2. \A i, j \in 1..n : i < j => s[i] < s[j]
  BY LenProperties DEF Ascending
<1>3. m \in Nat /\ l < m /\ m < r
  BY <1>1, MiddleBetween
<1>4. d # s[m] /\ s[m] \in Nat /\ r - l > 1 /\ s[l] <= d /\ d <= s[r] /\ m \in 1..n
  BY <1>1, <1>3
<1> HIDE DEF n, m
<1>5. ASSUME d < s[m] PROVE Between(s, d, l, r) <=> Between(s, d, l, m)
  <2>1. ASSUME NEW k \in (l+1)..(r-1), s[k] = d PROVE k \in (l+1)..(m-1) /\ m - l > 1
    <3>1. k \in 1..n /\ ~(m < k) /\ k # m
      BY SMTT(30), <1>1, <1>2, <1>3, <1>4, <1>5, <2>1
    <3> QED BY <1>1, <1>3, <3>1
  <2>2. (l+1)..(m-1) \subseteq (l+1)..(r-1)
    BY <1>1, <1>3
  <2>3. Between(s, d, l, r) <=> \E k \in (l+1)..(r-1) : s[k] = d
    BY <1>4 DEF Between
  <2>4. Between(s, d, l, m) <=> m - l > 1 /\ \E k \in (l+1)..(m-1) : s[k] = d
    BY <1>4, <1>5 DEF Between
  <2> QED BY <2>1, <2>2, <2>3, <2>4
<1>6. ASSUME ~(d < s[m]) PROVE Between(s, d, l, r) <=> Between(s, d, m, r)
  <2>1. ASSUME NEW k \in (l+1)..(r-1), s[k] = d PROVE k \in (m+1)..(r-1) /\ r - m > 1
    <3>1. k \in 1..n /\ ~(k < m) /\ k # m
      BY SMTT(30), <1>1, <1>2, <1>3, <1>4, <1>6, <2>1
    <3> QED BY <1>1, <1>3, <3>1
  <2>2. (m+1)..(r-1) \subseteq (l+1)..(r-1)
    BY <1>1, <1>3
  <2>3. Between(s, d, l, r) <=> \E k \in (l+1)..(r-1) : s[k] = d
    BY <1>4 DEF Between
  <2>4. Between(s, d, m, r) <=> r - m > 1 /\ \E k \in (m+1)..(r-1) : s[k] = d
    BY <1>4, <1>6 DEF Between
  <2> QED BY <2>1, <2>2, <2>3, <2>4
<1> QED BY <1>3, <1>4, <1>5, <1>6 DEF m, n

\* The recursive function exists: the right answer is one.
LEMMA HalveHasFixpoint ==
  ASSUME NEW s \in Seq(Nat), Ascending(s), NEW d \in Nat
  PROVE  \E f : f = Halve(s, d, f)
<1> DEFINE f == [p \in (1..Len(s)) \X (1..Len(s)) |-> Between(s, d, p[1], p[2])]
<1>1. ASSUME NEW l \in 1..Len(s), NEW r \in 1..Len(s)
      PROVE  Between(s, d, l, r) <=> Turn(s, d, f, l, r)
  <2> DEFINE m == Middle(l, r)
  <2>1. CASE ~(r - l > 1 /\ s[l] <= d /\ d <= s[r])
    BY <2>1 DEF Between, Turn
  <2>2. CASE r - l > 1 /\ s[l] <= d /\ d <= s[r] /\ d = s[m]
    <3>1. l \in Nat /\ r \in Nat
      OBVIOUS
    <3>2. m \in Nat /\ l < m /\ m < r
      BY <2>2, <3>1, MiddleBetween
    <3>3. m \in (l+1)..(r-1)
      BY <3>1, <3>2
    <3> QED BY <2>2, <3>3 DEF Between, Turn
  <2>3. CASE r - l > 1 /\ s[l] <= d /\ d <= s[r] /\ d # s[m]
    <3>1. /\ m \in 1..Len(s)
          /\ d < s[m] => (Between(s, d, l, r) <=> Between(s, d, l, m))
          /\ ~(d < s[m]) => (Between(s, d, l, r) <=> Between(s, d, m, r))
      BY <2>3, BetweenHalves
    <3>2. f[<<l, m>>] = Between(s, d, l, m) /\ f[<<m, r>>] = Between(s, d, m, r)
      BY <3>1
    <3> HIDE DEF f
    <3> QED BY <2>3, <3>1, <3>2 DEF Turn
  <2> QED BY <2>1, <2>2, <2>3
<1>2. \A p \in (1..Len(s)) \X (1..Len(s)) :
         Between(s, d, p[1], p[2]) = Turn(s, d, f, p[1], p[2])
  BY <1>1 DEF Between, Turn
<1>3. f = Halve(s, d, f)
  BY <1>2 DEF Halve
<1> QED BY <1>3

\* There is no other: where two answers differ, nearer bounds would have them differ too.
LEMMA HalveGivesBetween ==
  ASSUME NEW s \in Seq(Nat), Ascending(s), NEW d \in Nat, NEW f, f = Halve(s, d, f),
         NEW a \in 1..Len(s), NEW b \in 1..Len(s)
  PROVE  f[<<a, b>>] <=> Between(s, d, a, b)
<1> DEFINE I == 1..Len(s)
           Wrong(l, r) == ~(Turn(s, d, f, l, r) <=> Between(s, d, l, r))
           Bad == {n \in Nat : \E l, r \in I : n = r - l /\ Wrong(l, r)}
<1>1. \A l, r \in I : f[<<l, r>>] = Turn(s, d, f, l, r)
  BY DEF Halve
<1>2. ASSUME NEW l \in I, NEW r \in I, ~(r - l > 1) PROVE ~Wrong(l, r)
  BY <1>2 DEF Turn, Between
<1>3. ASSUME NEW l \in I, NEW r \in I, Wrong(l, r)
      PROVE  \E x, y \in I : y - x < r - l /\ Wrong(x, y)
  <2> DEFINE m == Middle(l, r)
  <2>1. r - l > 1
    BY <1>2, <1>3
  <2>2. ~(~(s[l] <= d /\ d <= s[r]))
    BY <1>3 DEF Turn, Between
  <2>3. d # s[m]
    <3>1. SUFFICES ASSUME d = s[m] PROVE FALSE
      OBVIOUS
    <3>2. l \in Nat /\ r \in Nat
      OBVIOUS
    <3>3. m \in Nat /\ l < m /\ m < r
      BY <2>1, <3>2, MiddleBetween
    <3>4. m \in (l+1)..(r-1)
      BY <3>2, <3>3
    <3>5. Turn(s, d, f, l, r) /\ Between(s, d, l, r)
      BY <2>1, <2>2, <3>1, <3>4 DEF Turn, Between
    <3> QED BY <1>3, <3>5
  <2>4. /\ m \in I /\ l < m /\ m < r
        /\ d < s[m] => (Between(s, d, l, r) <=> Between(s, d, l, m))
        /\ ~(d < s[m]) => (Between(s, d, l, r) <=> Between(s, d, m, r))
    BY <2>1, <2>2, <2>3, BetweenHalves
  <2>5. m - l < r - l /\ r - m < r - l
    BY <2>4
  <2>6. Turn(s, d, f, l, r) <=> IF d < s[m] THEN f[<<l, m>>] ELSE f[<<m, r>>]
    BY <2>1, <2>2, <2>3 DEF Turn
  <2>7. f[<<l, m>>] = Turn(s, d, f, l, m) /\ f[<<m, r>>] = Turn(s, d, f, m, r)
    BY <1>1, <2>4
  <2>8. CASE d < s[m]
    <3>1. Wrong(l, m)
      BY <1>3, <2>4, <2>6, <2>7, <2>8
    <3> QED BY <2>4, <2>5, <3>1
  <2>9. CASE ~(d < s[m])
    <3>1. Wrong(m, r)
      BY <1>3, <2>4, <2>6, <2>7, <2>9
    <3> QED BY <2>4, <2>5, <3>1
  <2> QED BY <2>8, <2>9
<1>4. SUFFICES ASSUME Wrong(a, b) PROVE FALSE
  BY <1>1
<1>5. ASSUME NEW l \in I, NEW r \in I, Wrong(l, r) PROVE r - l \in Bad
  <2>1. r - l > 1
    BY <1>2, <1>5
  <2>2. r - l \in Nat
    BY <2>1
  <2> QED BY <1>5, <2>2
<1>6. Bad # {}
  BY <1>4, <1>5
<1>7. PICK n \in Bad : \A k \in Bad : n <= k
  BY <1>6, LeastNatural
<1>8. PICK l \in I, r \in I : n = r - l /\ Wrong(l, r)
  BY <1>7
<1>9. PICK x \in I, y \in I : y - x < r - l /\ Wrong(x, y)
  BY <1>3, <1>8
<1>10. y - x \in Bad
  BY <1>5, <1>9
<1>11. n <= y - x
  BY <1>7, <1>10
<1> QED BY <1>8, <1>9, <1>11

\* Exists on an ascending vector: bisection finds just the documents that are there.
THEOREM SearchFinds ==
  ASSUME NEW s \in Seq(Nat), Ascending(s), NEW d \in Nat
  PROVE  Search(s, d) <=> d \in Range(s)
<1> DEFINE try == CHOOSE f : f = Halve(s, d, f)
<1>1. Search(s, d) <=> Len(s) > 0 /\ (s[1] = d \/ s[Len(s)] = d \/ try[<<1, Len(s)>>])
  BY DEF Search, Halve, Turn, Middle
<1>2. try = Halve(s, d, try)
  BY HalveHasFixpoint
<1> HIDE DEF try
<1>3. Len(s) \in Nat /\ DOMAIN s = 1..Len(s) /\ \A i \in 1..Len(s) : s[i] \in Nat
  BY LenProperties, ElementOfSeq
<1>4. Range(s) = {s[i] : i \in 1..Len(s)}
  BY <1>3 DEF Range
<1>5. CASE Len(s) = 0
  BY <1>1, <1>4, <1>5
<1>6. CASE Len(s) > 0
  <2>1. 1 \in 1..Len(s) /\ Len(s) \in 1..Len(s)
    BY <1>3, <1>6
  <2>2. try[<<1, Len(s)>>] <=> Between(s, d, 1, Len(s))
    BY <1>2, <2>1, HalveGivesBetween
  <2>3. Between(s, d, 1, Len(s)) => d \in Range(s)
    BY <1>3, <1>4 DEF Between
  <2>4. ASSUME NEW i \in 1..Len(s), s[i] = d, i # 1, i # Len(s)
        PROVE  Between(s, d, 1, Len(s))
    <3>1. \A n \in Nat : \A k \in 1..n : k # 1 /\ k # n => 1 < k /\ k < n /\ n - 1 > 1
                                                        /\ k \in (1+1)..(n-1)
      OBVIOUS
    <3>2. s[1] < s[i] /\ s[i] < s[Len(s)]
      BY <1>3, <2>1, <2>4, <3>1 DEF Ascending
    <3>3. s[1] \in Nat /\ s[Len(s)] \in Nat /\ d \in Nat
      BY <1>3, <2>1
    <3>4. s[1] <= d /\ d <= s[Len(s)]
      BY <2>4, <3>2, <3>3
    <3>5. i \in (1+1)..(Len(s)-1) /\ Len(s) - 1 > 1
      BY <1>3, <2>4, <3>1
    <3> QED BY <2>4, <3>4, <3>5 DEF Between
  <2> QED BY <1>1, <1>4, <1>6, <2>1, <2>2, <2>3, <2>4
<1> QED BY <1>3, <1>5, <1>6

-----------------------------------------------------------------------------
(* The inductive invariants. *)

\* Which steps an operation has.
Steps == [none |-> {"idle"}, txn |-> {"count"}, update |-> {"read"},
          query |-> {"test", "lock", "append", "sort", "reset", "read"},
          dump  |-> {"test", "lock", "append", "sort", "reset", "read"},
          save  |-> {"lock", "append", "sort", "reset", "read"}]

PcInv == \A t \in Thread : pc[t] \in Steps[op[t]]

\* The count loop starts at the first document.
PosInv == \A t \in Thread : pc[t] = "count" => pos > 0

\* m_tWriterMutex is held by a commit until it is online, m_tLock from the
\* flush's look under it until the hash is empty or .kill is written.
WriterInv == \A t \in Thread : writer = t <=> op[t] \in {"txn", "dump"}

LockInv ==
    \A t \in Thread :
       lock = t <=> \/ pc[t] \in {"append", "sort", "reset"}
                     \/ (op[t] = "save" /\ pc[t] = "read")

\* The hash is emptied only of what the vector has got.
AppendedInv == \A t \in Thread : pc[t] \in {"sort", "reset"} => small \subseteq Range(large)

\* Wherever a flush has got to, no kill is lost.
HoldInv ==
    /\ TypeOK /\ PcInv /\ PosInv /\ WriterInv /\ LockInv
    /\ AppendedInv /\ Range(large) \cup small = killed

\* A transaction fits the hash; the vector is in order but for a flush that is
\* about to sort it; and who has looked finds the hash empty until it is done.
FlushInv ==
    /\ Len(acc) <= MaxTxn
    /\ Ascending(file)
    /\ Ascending(large) \/ \E t \in Thread : pc[t] = "sort"
    /\ \A t \in Thread : /\ pc[t] = "sort" => small # {}
                         /\ Looks(t) => small = {}

SortInv == HoldInv /\ FlushInv

-----------------------------------------------------------------------------
(* Lemmas about vectors of documents. *)

LEMMA RangeType == ASSUME NEW s, Vector(s) PROVE Range(s) \subseteq DocId
BY LenProperties, ElementOfSeq DEF Vector, Range

\* Sort and Uniq.
LEMMA SortedType ==
  ASSUME NEW S \in SUBSET DocId, NEW s \in Sorted(S)
  PROVE  Vector(s) /\ Len(s) = Cardinality(S) /\ Ascending(s) /\ Range(s) = S
<1>1. Cardinality(S) \in Nat
  BY DocIdAssumption, FS_Subset, FS_CardinalityType
<1> QED BY <1>1 DEF Sorted, Vector

LEMMA ConcatRange ==
  ASSUME NEW s, NEW u, Vector(s), Vector(u)
  PROVE  Vector(s \o u) /\ Range(s \o u) = Range(s) \cup Range(u)
<1>1. s \in Seq(DocId) /\ u \in Seq(DocId)
  BY DEF Vector
<1>2. /\ s \o u \in Seq(DocId) /\ Len(s \o u) = Len(s) + Len(u)
      /\ \A i \in 1..Len(s) + Len(u) :
            (s \o u)[i] = IF i <= Len(s) THEN s[i] ELSE u[i - Len(s)]
  BY <1>1, ConcatProperties
<1>3. /\ DOMAIN s = 1..Len(s) /\ DOMAIN u = 1..Len(u) /\ DOMAIN (s \o u) = 1..Len(s) + Len(u)
      /\ Len(s) \in Nat /\ Len(u) \in Nat
  BY <1>1, <1>2, LenProperties
<1>4. ASSUME NEW i \in 1..Len(s) PROVE s[i] \in Range(s \o u)
  <2>1. i \in 1..Len(s) + Len(u) /\ (s \o u)[i] = s[i]
    BY <1>2, <1>3
  <2> QED BY <1>3, <2>1 DEF Range
<1>5. ASSUME NEW i \in 1..Len(u) PROVE u[i] \in Range(s \o u)
  <2>1. Len(s) + i \in 1..Len(s) + Len(u) /\ ~(Len(s) + i <= Len(s)) /\ Len(s) + i - Len(s) = i
    BY <1>3
  <2>2. (s \o u)[Len(s) + i] = u[i]
    BY <1>2, <2>1
  <2> QED BY <1>3, <2>1, <2>2 DEF Range
<1>6. ASSUME NEW i \in 1..Len(s) + Len(u) PROVE (s \o u)[i] \in Range(s) \cup Range(u)
  <2>1. CASE i <= Len(s)
    <3>1. i \in 1..Len(s)
      BY <1>3, <2>1
    <3> QED BY <1>2, <1>3, <2>1, <3>1 DEF Range
  <2>2. CASE ~(i <= Len(s))
    <3>1. i - Len(s) \in 1..Len(u)
      BY <1>3, <2>2
    <3> QED BY <1>2, <1>3, <2>2, <3>1 DEF Range
  <2> QED BY <2>1, <2>2
<1>7. Range(s \o u) = Range(s) \cup Range(u)
  BY <1>3, <1>4, <1>5, <1>6 DEF Range
<1> QED BY <1>2, <1>7 DEF Vector

LEMMA SwappedType ==
  ASSUME NEW s, Vector(s), NEW i \in 1..Len(s), NEW j \in 1..Len(s)
  PROVE  Vector(Swapped(s, i, j)) /\ Len(Swapped(s, i, j)) = Len(s)
<1>1. s \in Seq(DocId) /\ s[i] \in DocId /\ s[j] \in DocId
  BY ElementOfSeq DEF Vector
<1>2. [s EXCEPT ![i] = s[j]] \in Seq(DocId) /\ Len([s EXCEPT ![i] = s[j]]) = Len(s)
  BY <1>1, ExceptSeq
<1> QED BY <1>1, <1>2, ExceptSeq DEF Vector, Swapped

LEMMA PrefixType ==
  ASSUME NEW s, Vector(s), NEW n \in 0..Len(s)
  PROVE  Vector(SubSeq(s, 1, n)) /\ Len(SubSeq(s, 1, n)) = n
<1>1. s \in Seq(DocId) /\ Len(s) \in Nat /\ \A i \in 1..n : s[i] \in DocId
  BY LenProperties, ElementOfSeq DEF Vector
<1> QED BY <1>1, SubSeqProperties DEF Vector

\* Add puts the new documents into one of the two parts, or merges all in one.
LEMMA AddHolds ==
  ASSUME NEW new, Vector(new), Vector(large), small \subseteq DocId, Add(new)
  PROVE  /\ Vector(large') /\ small' \subseteq DocId
         /\ Range(large') \cup small' = Range(large) \cup small \cup Range(new)
<1>1. CASE new = <<>>
  BY <1>1 DEF Add, listVars, Range
<1>2. CASE new # <<>> /\ Cardinality(small) + Len(new) < MAX_SMALL_SIZE
  BY <1>2, RangeType DEF Add
<1>3. CASE new # <<>> /\ ~(Cardinality(small) + Len(new) < MAX_SMALL_SIZE) /\ small = {}
  <2>1. large' = large \o new /\ small' = small
    BY <1>3 DEF Add
  <2> QED BY <1>3, <2>1, ConcatRange
<1>4. CASE new # <<>> /\ ~(Cardinality(small) + Len(new) < MAX_SMALL_SIZE) /\ small # {}
  <2>1. large' \in Sorted(Range(large) \cup Range(new) \cup small) /\ small' = {}
    BY <1>4 DEF Add
  <2>2. Range(large) \cup Range(new) \cup small \in SUBSET DocId
    BY RangeType
  <2> QED BY <2>1, <2>2, SortedType
<1> QED BY <1>1, <1>2, <1>3, <1>4

-----------------------------------------------------------------------------
(* The list holds the killed. *)

LEMMA HoldInit == Init => HoldInv
<1>1. Vector(<<>>) /\ Len(<<>>) = 0 /\ Range(<<>>) = {}
  BY EmptySeq DEF Vector, Range
<1> QED BY <1>1, NoThreadAssumption
        DEF Init, HoldInv, TypeOK, PcInv, PosInv, WriterInv, LockInv, AppendedInv, Steps

LEMMA HoldTxn ==
  ASSUME HoldInv, NEW t \in Thread, TxnBegin(t) \/ TxnCount(t) \/ TxnAdd(t)
  PROVE  HoldInv'
<1> USE DEF HoldInv, TypeOK, PcInv, PosInv, WriterInv, LockInv, AppendedInv, Steps, Goto, Go, Done, Reading, NoReaders
<1>1. CASE TxnBegin(t)
  <2>1. PICK S \in SUBSET DocId : \E s \in Sorted(S) : acc' = s /\ live' = Len(s)
    BY <1>1 DEF TxnBegin
  <2>2. Vector(acc') /\ live' = Len(acc') /\ live' \in Nat
    BY <2>1, SortedType, LenProperties DEF Vector
  <2>3. live' \in 0..Len(acc')
    BY <2>2
  <2> QED BY <1>1, <2>2, <2>3, NoThreadAssumption DEF TxnBegin, listVars
<1>2. CASE TxnCount(t)
  <2>1. Len(acc) \in Nat
    BY LenProperties DEF Vector
  <2>2. Vector(acc') /\ live' \in 0..Len(acc') /\ pos' \in Nat /\ pos' > 0
    <3>1. CASE acc' = Swapped(acc, pos, live) /\ live' = live - 1 /\ pos' = pos
      <4>1. pos \in 1..Len(acc) /\ live \in 1..Len(acc)
        BY <1>2, <2>1 DEF TxnCount
      <4>2. Vector(acc') /\ Len(acc') = Len(acc)
        BY <3>1, <4>1, SwappedType
      <4> QED BY <2>1, <3>1, <4>1, <4>2
    <3>2. CASE acc' = acc /\ live' = live /\ pos' = pos + 1
      BY <1>2, <3>2 DEF TxnCount
    <3> QED BY <1>2, <3>1, <3>2 DEF TxnCount
  <2> QED BY <1>2, <2>2 DEF TxnCount, listVars
<1>3. CASE TxnAdd(t)
  <2>1. Vector(SubSeq(acc, 1, live))
    BY PrefixType
  <2>2. /\ Vector(large') /\ small' \subseteq DocId
        /\ Range(large') \cup small' = killed'
    BY <1>3, <2>1, AddHolds DEF TxnAdd
  <2>3. killed' \subseteq DocId
    BY <1>3, <2>1, RangeType DEF TxnAdd
  <2>4. Vector(acc') /\ pos' \in Nat /\ live' \in 0..Len(acc')
    BY <1>3, EmptySeq DEF TxnAdd, Vector
  <2> QED BY <1>3, <2>2, <2>3, <2>4, NoThreadAssumption DEF TxnAdd
<1> QED BY <1>1, <1>2, <1>3

LEMMA HoldFlush ==
  ASSUME HoldInv, NEW t \in Thread, Flush(t)
  PROVE  HoldInv'
<1> USE DEF HoldInv, TypeOK, PcInv, PosInv, WriterInv, LockInv, AppendedInv, Steps, Goto, Go, Done
<1>1. CASE FlushTest(t)
  BY <1>1 DEF FlushTest, listVars, txnVars
<1>2. CASE FlushLock(t)
  BY <1>2, NoThreadAssumption DEF FlushLock, listVars, txnVars
<1>3. CASE FlushAppend(t)
  <2>1. /\ Vector(large') /\ Range(large') \cup small = killed
        /\ small \subseteq Range(large')
    <3>1. CASE small = {}
      BY <1>3, <3>1 DEF FlushAppend
    <3>2. CASE small # {}
      <4>1. PICK s \in Sorted(small) : large' = large \o s
        BY <1>3, <3>2 DEF FlushAppend
      <4> QED BY <4>1, SortedType, ConcatRange
    <3> QED BY <3>1, <3>2
  <2> QED BY <1>3, <2>1 DEF FlushAppend, txnVars
<1>4. CASE FlushSort(t)
  <2>1. Vector(large') /\ Range(large') = Range(large)
    BY <1>4, RangeType, SortedType DEF FlushSort
  <2> QED BY <1>4, <2>1 DEF FlushSort, txnVars
<1>5. CASE FlushReset(t)
  <2>1. Range(large) = killed /\ pc[t] = "reset"
    BY <1>5 DEF FlushReset
  <2>2. /\ pc' = [pc EXCEPT ![t] = "read"] /\ op' = op /\ writer' = writer
        /\ lock' = IF op[t] = "save" THEN t ELSE NoThread
    BY <1>5 DEF FlushReset
  <2>3. PcInv' /\ PosInv' /\ WriterInv'
    BY <1>5, <2>1, <2>2 DEF FlushReset, txnVars
  <2>4. lock = t
    BY <2>1
  <2>5. ASSUME NEW u \in Thread
        PROVE  lock' = u <=> \/ pc'[u] \in {"append", "sort", "reset"}
                             \/ (op'[u] = "save" /\ pc'[u] = "read")
    BY <2>1, <2>2, <2>4, NoThreadAssumption
  <2>6. LockInv'
    BY <2>5
  <2> HIDE DEF LockInv, PcInv, PosInv, WriterInv
  <2> QED BY <1>5, <2>1, <2>2, <2>3, <2>6 DEF FlushReset, txnVars
<1> QED BY <1>1, <1>2, <1>3, <1>4, <1>5 DEF Flush

LEMMA HoldRead ==
  ASSUME HoldInv, NEW t \in Thread,
         QueryBegin(t) \/ QueryEnd(t) \/ UpdateBegin(t) \/ SaveBegin(t) \/ SaveWrite(t) \/ DumpSwap(t)
  PROVE  HoldInv'
<1> USE DEF HoldInv, TypeOK, PcInv, PosInv, WriterInv, LockInv, AppendedInv, Steps, Goto, Go, Done
<1>1. CASE QueryBegin(t)
  BY <1>1 DEF QueryBegin, listVars, txnVars
<1>2. CASE QueryEnd(t)
  BY <1>2 DEF QueryEnd, listVars, txnVars
<1>3. CASE UpdateBegin(t)
  BY <1>3 DEF UpdateBegin, listVars, txnVars
<1>4. CASE SaveBegin(t)
  BY <1>4 DEF SaveBegin, listVars, txnVars
<1>5. CASE SaveWrite(t)
  BY <1>5, NoThreadAssumption DEF SaveWrite, listVars, txnVars
<1>6. CASE DumpSwap(t)
  <2>1. Vector(<<>>) /\ Range(<<>>) = {}
    BY EmptySeq DEF Vector, Range
  <2> QED BY <1>6, <2>1, NoThreadAssumption DEF DumpSwap, txnVars
<1> QED BY <1>1, <1>2, <1>3, <1>4, <1>5, <1>6

LEMMA HoldRestart == ASSUME HoldInv, Restart PROVE HoldInv'
BY RangeType DEF HoldInv, TypeOK, PcInv, PosInv, WriterInv, LockInv, AppendedInv, Steps,
                 Restart, txnVars

LEMMA HoldStep == HoldInv /\ [Next]_vars => HoldInv'
<1>1. ASSUME HoldInv, UNCHANGED vars PROVE HoldInv'
  BY <1>1 DEF HoldInv, TypeOK, PcInv, PosInv, WriterInv, LockInv, AppendedInv, vars
<1> QED BY <1>1, HoldTxn, HoldFlush, HoldRead, HoldRestart DEF Next

\* CSphKilllist: wherever commits, flushes, saves, dumps and restarts have got to,
\* the vector and the hash hold the documents that were killed, and no other; for
\* any number of documents and threads, and transactions of any size.
THEOREM ListHoldsKilled == Spec => []HoldsTheKilled
<1>1. HoldInv => HoldsTheKilled
  BY DEF HoldInv, HoldsTheKilled
<1> QED BY <1>1, HoldInit, HoldStep, PTL DEF Spec

-----------------------------------------------------------------------------
(* The vector is in order when it is read.                                 *)
(*                                                                         *)
(* A transaction that is as large as the hash would be appended unsorted   *)
(* when the hash is empty; the code has no limit there, so what follows    *)
(* is about transactions that are smaller.                                 *)

SmallTransactions == MaxTxn < MAX_SMALL_SIZE

LEMMA FlushInit == Init => FlushInv
<1>1. Len(<<>>) = 0 /\ Ascending(<<>>) /\ 0 <= MaxTxn
  BY SizeAssumption, EmptySeq DEF Ascending
<1> QED BY <1>1 DEF Init, FlushInv, Looks

\* Whoever is flushing, or has flushed and still reads, keeps commits from adding.
LEMMA AddAlone ==
  ASSUME HoldInv, NEW t \in Thread, TxnAdd(t)
  PROVE  \A u \in Thread : pc[u] # "sort" /\ ~Looks(u)
BY DEF HoldInv, TypeOK, PcInv, WriterInv, Steps, TxnAdd, NoReaders, Reading, Looks

LEMMA SortTxn ==
  ASSUME SmallTransactions, SortInv, NEW t \in Thread, TxnBegin(t) \/ TxnCount(t) \/ TxnAdd(t)
  PROVE  FlushInv'
<1> USE DEF SortInv, HoldInv, FlushInv, TypeOK, Looks, Goto, Go, Done
<1>1. CASE TxnBegin(t)
  <2>1. PICK S \in SUBSET DocId : \E s \in Sorted(S) : acc' = s /\ Cardinality(S) <= MaxTxn
    BY <1>1 DEF TxnBegin
  <2>2. Len(acc') <= MaxTxn
    BY <2>1, SortedType
  <2> QED BY <1>1, <2>2 DEF TxnBegin, listVars
<1>2. CASE TxnCount(t)
  <2>1. pos \in 1..Len(acc) /\ live \in 1..Len(acc)
    BY <1>2, LenProperties DEF TxnCount, Vector, PosInv
  <2>2. Len(acc') = Len(acc)
    BY <1>2, <2>1, SwappedType DEF TxnCount
  <2> QED BY <1>2, <2>2 DEF TxnCount, listVars
<1>3. CASE TxnAdd(t)
  <2>1. \A u \in Thread : pc[u] # "sort" /\ ~Looks(u)
    BY <1>3, AddAlone
  <2>2. \A u \in Thread : pc'[u] # "sort" /\ ~Looks(u)'
    BY <1>3, <2>1 DEF TxnAdd
  <2>3. Len(acc') <= MaxTxn
    BY <1>3, SizeAssumption, EmptySeq DEF TxnAdd
  <2>4. Ascending(large')
    <3> DEFINE new == SubSeq(acc, 1, live)
    <3>1. Add(new) /\ Ascending(large)
      BY <1>3, <2>1 DEF TxnAdd
    <3>2. Vector(new) /\ Len(new) = live
      BY PrefixType
    <3>3. live \in Nat /\ live <= MaxTxn
      BY LenProperties, SizeAssumption DEF Vector
    <3>4. Cardinality({}) + Len(new) < MAX_SMALL_SIZE
      BY <3>2, <3>3, SizeAssumption, FS_EmptySet DEF SmallTransactions
    <3> HIDE DEF new
    <3>5. Range(large) \cup Range(new) \cup small \in SUBSET DocId
      BY <3>2, RangeType
    <3> QED BY <3>1, <3>4, <3>5, SortedType DEF Add, listVars
  <2> QED BY <1>3, <2>2, <2>3, <2>4 DEF TxnAdd
<1> QED BY <1>1, <1>2, <1>3

LEMMA SortFlush ==
  ASSUME SortInv, NEW t \in Thread, Flush(t)
  PROVE  FlushInv'
<1> USE DEF SortInv, HoldInv, FlushInv, TypeOK, LockInv, Looks, Goto
<1>1. CASE FlushTest(t)
  BY <1>1 DEF FlushTest, listVars, txnVars
<1>2. CASE FlushLock(t)
  BY <1>2 DEF FlushLock, listVars, txnVars
<1>3. CASE FlushAppend(t)
  BY <1>3 DEF FlushAppend, txnVars
<1>4. CASE FlushSort(t)
  <2>1. Ascending(large')
    BY <1>4, RangeType, SortedType DEF FlushSort
  <2> QED BY <1>4, <2>1 DEF FlushSort, txnVars
<1>5. CASE FlushReset(t)
  <2>1. lock = t /\ pc[t] = "reset" /\ \A u \in Thread : pc[u] # "sort"
    BY <1>5 DEF FlushReset
  <2> QED BY <1>5, <2>1 DEF FlushReset, txnVars
<1> QED BY <1>1, <1>2, <1>3, <1>4, <1>5 DEF Flush

LEMMA SortRead ==
  ASSUME SortInv, NEW t \in Thread,
         QueryBegin(t) \/ QueryEnd(t) \/ UpdateBegin(t) \/ SaveBegin(t) \/ SaveWrite(t) \/ DumpSwap(t)
  PROVE  FlushInv'
<1> USE DEF SortInv, HoldInv, FlushInv, TypeOK, Looks, Goto, Go, Done
<1>1. CASE QueryBegin(t)
  BY <1>1 DEF QueryBegin, listVars, txnVars
<1>2. CASE QueryEnd(t)
  BY <1>2 DEF QueryEnd, listVars, txnVars
<1>3. CASE UpdateBegin(t)
  BY <1>3 DEF UpdateBegin, listVars, txnVars
<1>4. CASE SaveBegin(t)
  BY <1>4 DEF SaveBegin, listVars, txnVars
<1>5. CASE SaveWrite(t)
  <2>1. \A u \in Thread : pc[u] # "sort"
    BY <1>5 DEF SaveWrite
  <2> QED BY <1>5, <2>1 DEF SaveWrite, listVars, txnVars
<1>6. CASE DumpSwap(t)
  <2>1. Ascending(<<>>)
    BY EmptySeq DEF Ascending
  <2>2. \A u \in Thread : pc[u] # "sort"
    BY <1>6 DEF DumpSwap, NoReaders, Reading, WriterInv, PcInv, Steps
  <2> QED BY <1>6, <2>1, <2>2 DEF DumpSwap, txnVars
<1> QED BY <1>1, <1>2, <1>3, <1>4, <1>5, <1>6

LEMMA SortStep == ASSUME SmallTransactions PROVE SortInv /\ [Next]_vars => SortInv'
<1>1. ASSUME SortInv, UNCHANGED vars PROVE FlushInv'
  BY <1>1 DEF SortInv, FlushInv, Looks, vars
<1>2. ASSUME SortInv, Restart PROVE FlushInv'
  BY <1>2 DEF SortInv, FlushInv, Looks, Restart, txnVars
<1>3. SortInv /\ [Next]_vars => FlushInv'
  BY <1>1, <1>2, SortTxn, SortFlush, SortRead DEF Next
<1> QED BY <1>3, HoldStep DEF SortInv

LEMMA InOrder == ASSUME SmallTransactions PROVE Spec => []SortInv
<1>1. Init => SortInv
  BY HoldInit, FlushInit DEF SortInv
<1> QED BY <1>1, SortStep, PTL DEF Spec

\* CSphKilllist::Flush then a read without the lock: whoever has flushed finds the
\* hash empty, the vector in order, and nobody in the middle of sorting it.
THEOREM ReadsAreSorted == ASSUME SmallTransactions PROVE Spec => []SortedWhenRead
<1>1. SortInv => SortedWhenRead
  BY DEF SortInv, HoldInv, FlushInv, TypeOK, SortedWhenRead, Looks
<1> QED BY <1>1, InOrder, PTL

\* ... so that bisection finds every killed document there.
THEOREM KilledAreFound == ASSUME SmallTransactions PROVE Spec => []KilledStayHidden
<1>1. ASSUME SortInv, NEW t \in Thread, NEW d \in killed, Looks(t) PROVE Search(large, d)
  <2>1. small = {} /\ Ascending(large)
    BY <1>1 DEF SortInv, HoldInv, FlushInv, TypeOK, LockInv, Looks
  <2>2. d \in Range(large) /\ d \in DocId /\ large \in Seq(DocId)
    BY <1>1, <2>1 DEF SortInv, HoldInv, TypeOK, Vector
  <2>3. large \in Seq(Nat) /\ d \in Nat
    BY <2>2, DocIdAssumption, SeqMonotonic
  <2> QED BY <2>1, <2>2, <2>3, SearchFinds
<1>2. SortInv => KilledStayHidden
  BY <1>1 DEF KilledStayHidden
<1> QED BY <1>2, InOrder, PTL
=============================================================================
