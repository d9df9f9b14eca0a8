------------------------- MODULE Agents_accounted -------------------------
(***************************************************************************)
(* Proofs about a search over remote agents, for any numbers of agents,    *)
(* hosts, slots and threads:                                               *)
(*   - every variable keeps its type;                                      *)
(*   - a connection has one owner, a free one nothing left to read, and     *)
(*     none is lost other than by a reload of the config;                  *)
(*   - every agent has given its results once or is reported.              *)
(***************************************************************************)
EXTENDS Agents, FiniteSetTheorems, SequenceTheorems, WellFoundedInduction, TLAPS

\* The array of the agents is large enough, and the config is not reloaded while connections
\* are rented.
QuietPool == N <= ReserveLimit /\ ~ReloadBusy /\ (Hosts = 1 \/ PoolSize = 1)
\* No thread is held up between a look at an agent and its change, no reply stops in the middle.
NoDelays == ~LateMark /\ ~LateBody

-----------------------------------------------------------------------------
(* Least numbers, and the places of the slots. *)

LEMMA LeastIs ==
  ASSUME NEW S \in SUBSET Nat, S # {}
  PROVE  Min(S) \in S /\ \A n \in S : Min(S) <= n
<1> DEFINE R == OpToRel(<, Nat)
<1>1. IsWellFoundedOn(R, Nat)
  BY NatLessThanWellFounded
<1>2. \A i, j \in Nat : i < j => <<i, j>> \in R
  BY DEF OpToRel
<1> HIDE DEF R
<1>3. PICK n \in S : \A k \in S : ~(<<k, n>> \in R)
  BY <1>1, WFMin
<1>4. ASSUME NEW k \in S PROVE n <= k
  <2>1. k \in Nat /\ n \in Nat /\ ~(<<k, n>> \in R)
    BY <1>3
  <2>2. ~(k < n)
    BY <1>2, <2>1
  <2> QED BY <2>1, <2>2
<1>5. \E m \in S : \A k \in S : m <= k
  BY <1>4
<1> QED BY <1>5 DEF Min

LEMMA LeastOne ==
  ASSUME NEW n \in Nat
  PROVE  Min({n}) = n
BY LeastIs

LEMMA AtApart ==
  ASSUME NEW h \in Host, NEW g \in Host, NEW i \in 0..PoolSize, NEW j \in 0..PoolSize,
         Base(h) + i = Base(g) + j
  PROVE  h = g /\ i = j
<1>1. PoolSize \in Nat /\ Hosts \in Nat /\ h \in Nat /\ g \in Nat /\ Stride \in Nat
      /\ i < Stride /\ j < Stride
  BY PoolAssumption DEF Host, Stride
<1> HIDE DEF Stride
<1>2. ASSUME NEW u \in Nat, NEW v \in Nat, u < v PROVE v * Stride >= u * Stride + Stride
  <2>1. v - u >= 1 /\ v - u \in Nat
    BY <1>2
  <2>2. (v - u) * Stride >= Stride
    BY <1>1, <2>1
  <2>3. v * Stride = u * Stride + (v - u) * Stride
    BY <1>1
  <2> QED BY <1>1, <2>2, <2>3
<1>3. Base(h) = h * Stride /\ Base(g) = g * Stride /\ h * Stride \in Nat /\ g * Stride \in Nat
  BY <1>1 DEF Base
<1>4. ~(h < g)
  BY <1>1, <1>2, <1>3
<1>5. ~(g < h)
  BY <1>1, <1>2, <1>3
<1> QED BY <1>1, <1>3, <1>4, <1>5

LEMMA AtInside ==
  ASSUME NEW h \in Host, NEW i \in 0..PoolSize
  PROVE  Base(h) + i \in 0..Hosts * Stride - 1 /\ Base(h) \in Nat
<1>1. PoolSize \in Nat /\ Hosts \in Nat /\ h \in Nat /\ Stride \in Nat /\ i < Stride /\ h + 1 <= Hosts /\ i \in Nat
  BY PoolAssumption DEF Host, Stride
<1> HIDE DEF Stride
<1>2. (Hosts - (h + 1)) * Stride >= 0
  BY <1>1
<1>3. Hosts * Stride = h * Stride + Stride + (Hosts - (h + 1)) * Stride
  BY <1>1
<1>4. Base(h) = h * Stride /\ h * Stride \in Nat
  BY <1>1 DEF Base
<1> QED BY <1>1, <1>2, <1>3, <1>4

-----------------------------------------------------------------------------
(* The invariant of the pool. *)

At(h, k) == Base(h) + k
Free(h)  == conns[Base(h)]

LEMMA Places ==
  /\ PoolSize \in Nat /\ PoolSize > 0
  /\ \A h \in Host, k \in 0..PoolSize : At(h, k) \in 0..Hosts * Stride - 1
  /\ \A h \in Host : Base(h) = At(h, 0) /\ Base(h) \in 0..Hosts * Stride - 1
  /\ \A h, g \in Host, i, j \in 0..PoolSize : At(h, i) = At(g, j) => h = g /\ i = j
<1>1. PoolSize \in Nat /\ PoolSize > 0 /\ 0 \in 0..PoolSize
  BY PoolAssumption
<1>2. \A h \in Host : Base(h) = At(h, 0)
  BY <1>1, AtInside DEF At
<1>3. \A h \in Host, k \in 0..PoolSize : At(h, k) \in 0..Hosts * Stride - 1
  BY AtInside DEF At
<1>4. \A h, g \in Host, i, j \in 0..PoolSize : At(h, i) = At(g, j) => h = g /\ i = j
  BY AtApart DEF At
<1> HIDE DEF At
<1>5. \A h \in Host : Base(h) \in 0..Hosts * Stride - 1
  <2> SUFFICES ASSUME NEW h \in Host PROVE Base(h) \in 0..Hosts * Stride - 1
    OBVIOUS
  <2>1. At(h, 0) \in 0..Hosts * Stride - 1
    BY <1>1, <1>3
  <2> QED BY <1>2, <2>1
<1> QED BY <1>1, <1>2, <1>3, <1>4, <1>5

\* Slots that are not free are empty.
SlotsTyped ==
  /\ conns \in [0..Hosts * Stride - 1 -> Int]
  /\ \A h \in Host : Free(h) \in -1..PoolSize
  /\ \A h \in Host, k \in 1..PoolSize : conns[At(h, k)] \in Fd \cup {-1}
  /\ \A h \in Host, k \in 1..PoolSize : k > Free(h) => conns[At(h, k)] = -1
  /\ open \subseteq Fd /\ OtherFd \subseteq open
PoolTyped == SlotsTyped /\ (other = NobodyRents \/ other \in [host : Host, sock : Fd \cup {-1}])

\* The connections in the slots are open, each in one of them.
SlotsOwn ==
  /\ \A h \in Host, k \in 1..PoolSize :
       conns[At(h, k)] # -1 => conns[At(h, k)] \in open \ OtherFd
  /\ \A h, g \in Host, k, l \in 1..PoolSize :
       conns[At(h, k)] # -1 /\ conns[At(h, k)] = conns[At(g, l)] => h = g /\ k = l

\* The connection f is among the open ones o and in no slot of c.
Own(o, c, f) == f \in o \ OtherFd /\ \A h \in Host, k \in 1..PoolSize : c[At(h, k)] # f
\* Who owns a connection is the only one.
OwnersApart ==
  /\ \A a \in Agent : agent[a].sock # NoSock => Own(open, conns, agent[a].sock) /\ agent[a].sock # other.sock
  /\ \A a, b \in Agent : agent[a].sock # NoSock /\ agent[a].sock = agent[b].sock => a = b
  /\ other.sock # -1 /\ other # NobodyRents => Own(open, conns, other.sock)

\* Somebody has the connection f.
Has(f) ==
  \/ \E h \in Host, k \in 1..PoolSize : conns[At(h, k)] = f
  \/ \E a \in Agent : agent[a].sock = f
  \/ other.sock = f
\* Nobody has exactly those that a reload of the config has left open.
Kept == leaked \subseteq open \ OtherFd /\ \A f \in open \ OtherFd : f \in leaked <=> ~Has(f)

\* Slots are rented from a stride in use only.
Rents(a) == agent[a].pers /\ (main.pc # "take" \/ a < main.next)
InUse ==
  /\ other # NobodyRents => Free(other.host) # -1
  /\ \A a \in Agent : Rents(a) => Free(HostOf[a]) # -1

PoolInv == PoolTyped /\ SlotsOwn /\ OwnersApart /\ InUse /\ Kept

\* Only connections that somebody has are closed, and a new one is somebody's.
LEMMA KeptThen ==
  ASSUME Kept, UNCHANGED leaked, \A f \in open \ open' : Has(f),
         \A f \in open' \ OtherFd : Has(f)' <=> Has(f) \/ f \notin open
  PROVE  Kept'
<1>1. leaked \subseteq open' \ OtherFd
  BY DEF Kept
<1>2. ASSUME NEW f \in open' \ OtherFd PROVE f \in leaked' <=> ~Has(f)'
  <2>1. CASE f \in open
    BY <2>1 DEF Kept
  <2>2. CASE f \notin open
    BY <2>2 DEF Kept
  <2> QED BY <2>1, <2>2
<1> QED BY <1>1, <1>2 DEF Kept

\* What is in the pool is in its slots.
LEMMA PooledIs ==
  ASSUME SlotsTyped, NEW f
  PROVE  f \in Pooled <=> f # -1 /\ \E h \in Host, k \in 1..PoolSize : conns[At(h, k)] = f
<1>1. ASSUME NEW i \in Slots PROVE \E h \in Host, k \in 1..PoolSize : i = At(h, k)
  <2>1. PICK h \in Host : i > Base(h) /\ i <= Base(h) + Free(h)
    BY DEF Slots, Free
  <2>2. i \in Int /\ Base(h) \in Int /\ Free(h) \in Int /\ Free(h) <= PoolSize /\ PoolSize \in Nat
    BY Places DEF SlotsTyped, Slots
  <2>3. i - Base(h) \in 1..PoolSize /\ i = Base(h) + (i - Base(h))
    BY <2>1, <2>2
  <2> QED BY <2>3 DEF At
<1>2. ASSUME NEW h \in Host, NEW k \in 1..PoolSize, conns[At(h, k)] # -1 PROVE At(h, k) \in Slots
  <2>1. k <= Free(h) /\ k \in Int /\ Base(h) \in Int /\ Free(h) \in Int /\ k >= 1
    <3>1. ~(k > Free(h)) /\ Free(h) \in Int /\ PoolSize \in Int
      BY <1>2, Places DEF SlotsTyped
    <3>2. Base(h) \in Int
      BY Places
    <3> QED BY <3>1, <3>2
  <2>2. At(h, k) \in DOMAIN conns
    BY Places DEF SlotsTyped
  <2>3. At(h, k) > Base(h) /\ At(h, k) <= Base(h) + conns[Base(h)]
    BY <2>1 DEF At, Free
  <2> QED BY <2>2, <2>3 DEF Slots
<1>3. f \in Pooled <=> f # -1 /\ \E i \in Slots : conns[i] = f
  BY DEF Pooled
<1> QED BY <1>1, <1>2, <1>3

\* What RentConnection does to the slots.
LEMMA RentEffect ==
  ASSUME SlotsTyped, NEW h \in Host, conns' = AfterRent(conns, h)
  PROVE  \/ Rented(conns, h) = NoSlot /\ conns' = conns
         \/ \E f \in 1..PoolSize :
              /\ Rented(conns, h) = conns[At(h, f)]
              /\ conns' \in [0..Hosts * Stride - 1 -> Int]
              /\ \A g \in Host : Free(g)' = IF g = h THEN f - 1 ELSE Free(g)
              /\ \A g \in Host, k \in 1..PoolSize :
                   conns'[At(g, k)] = IF g = h /\ k = f THEN -1 ELSE conns[At(g, k)]
              /\ \A k \in 1..PoolSize : k > f => conns[At(h, k)] = -1
<1> DEFINE f == FreeSlots(conns, h)  D == 0..Hosts * Stride - 1
<1>1. CASE f = 0
  BY <1>1 DEF Rented, AfterRent
<1>2. CASE f # 0
  <2>1. f \in 1..PoolSize /\ (Free(h) = -1 \/ Free(h) = f)
    BY <1>2, Places DEF FreeSlots, SlotsTyped, Free
  <2>2. conns' = [conns EXCEPT ![At(h, f)] = -1, ![At(h, 0)] = f - 1]
    BY <1>2, Places DEF AfterRent, At
  <2>3. Rented(conns, h) = conns[At(h, f)]
    BY <1>2, Places, <2>1 DEF Rented, At, SlotsTyped, NoSlot
  <2> HIDE DEF f
  <2>4. At(h, f) # At(h, 0) /\ At(h, f) \in D /\ At(h, 0) \in D
    BY <2>1, Places
  <2>5. conns \in [D -> Int]
    BY DEF SlotsTyped
  <2>6. \A p \in D : conns'[p] = IF p = At(h, 0) THEN f - 1 ELSE IF p = At(h, f) THEN -1 ELSE conns[p]
    BY <2>2, <2>4, <2>5
  <2>7. conns' \in [D -> Int]
    <3>1. f - 1 \in Int /\ -1 \in Int
      BY <2>1, Places
    <3> QED BY <2>2, <2>5, <3>1
  <2>8. ASSUME NEW g \in Host PROVE Free(g)' = IF g = h THEN f - 1 ELSE Free(g)
    <3>1. At(g, 0) = Base(g) /\ At(g, 0) \in D /\ At(g, 0) # At(h, f) /\ (g # h => At(g, 0) # At(h, 0))
      BY <2>1, Places
    <3>2. conns'[At(g, 0)] = IF g = h THEN f - 1 ELSE conns[At(g, 0)]
      BY <2>6, <3>1
    <3> QED BY <3>1, <3>2 DEF Free
  <2>9. ASSUME NEW g \in Host, NEW k \in 1..PoolSize
        PROVE  conns'[At(g, k)] = IF g = h /\ k = f THEN -1 ELSE conns[At(g, k)]
    <3>1. At(g, k) \in D /\ At(g, k) # At(h, 0) /\ (At(g, k) = At(h, f) => g = h /\ k = f)
      BY <2>1, Places
    <3> QED BY <2>6, <3>1
  <2>10. \A k \in 1..PoolSize : k > f => conns[At(h, k)] = -1
    BY <2>1 DEF SlotsTyped
  <2> QED BY <2>1, <2>3, <2>7, <2>8, <2>9, <2>10
<1> QED BY <1>1, <1>2

\* What ReturnConnection does to them.
LEMMA ReturnEffect ==
  ASSUME SlotsTyped, NEW h \in Host, NEW fd \in Fd \cup {-1}, Free(h) # -1,
         conns' = AfterReturn(conns, h, fd)
  PROVE  \/ ReturnCloses(conns, h, fd) = {fd} /\ conns' = conns
         \/ /\ ReturnCloses(conns, h, fd) = {}
            /\ \E n \in 1..PoolSize :
                 /\ conns' \in [0..Hosts * Stride - 1 -> Int]
                 /\ \A g \in Host : Free(g)' = IF g = h THEN n ELSE Free(g)
                 /\ \A g \in Host, k \in 1..PoolSize :
                      conns'[At(g, k)] = IF g = h /\ k = n THEN fd ELSE conns[At(g, k)]
                 /\ \A k \in 1..PoolSize : k >= n => conns[At(h, k)] = -1
<1> DEFINE n == Free(h) + 1  D == 0..Hosts * Stride - 1
<1>1. CASE conns[Base(h)] = PoolSize
  BY <1>1 DEF AfterReturn, ReturnCloses
<1>2. CASE conns[Base(h)] # PoolSize
  <2>1. n \in 1..PoolSize /\ Free(h) \in Int /\ n - 1 = Free(h)
    BY SMTT(30), <1>2, Places DEF SlotsTyped, Free
  <2>2. conns' = [conns EXCEPT ![At(h, 0)] = n, ![At(h, n)] = fd]
    <3>1. Base(h) \in D /\ conns \in [D -> Int] /\ Base(h) = At(h, 0) /\ Base(h) \in Int
      BY Places DEF SlotsTyped
    <3>2. conns[Base(h)] + 1 = n /\ Base(h) + conns[Base(h)] + 1 = At(h, n)
      BY <2>1, <3>1 DEF Free, At
    <3>3. conns' = [conns EXCEPT ![Base(h)] = conns[Base(h)] + 1, ![Base(h) + conns[Base(h)] + 1] = fd]
      BY <1>2, <3>1 DEF AfterReturn
    <3> HIDE DEF n
    <3> QED BY <3>1, <3>2, <3>3
  <2>3. ReturnCloses(conns, h, fd) = {}
    BY <1>2 DEF ReturnCloses
  <2>4. \A k \in 1..PoolSize : k >= n => conns[At(h, k)] = -1
    BY <2>1 DEF SlotsTyped
  <2> HIDE DEF n
  <2>5. At(h, n) # At(h, 0) /\ At(h, n) \in D /\ At(h, 0) \in D
    BY <2>1, Places
  <2>6. conns \in [D -> Int] /\ fd \in Int
    BY PoolAssumption DEF SlotsTyped
  <2>7. \A p \in D : conns'[p] = IF p = At(h, n) THEN fd ELSE IF p = At(h, 0) THEN n ELSE conns[p]
    BY <2>2, <2>5, <2>6
  <2>8. conns' \in [D -> Int]
    <3>1. n \in Int
      BY <2>1, Places
    <3> QED BY <2>2, <2>6, <3>1
  <2>9. ASSUME NEW g \in Host PROVE Free(g)' = IF g = h THEN n ELSE Free(g)
    <3>1. At(g, 0) = Base(g) /\ At(g, 0) \in D /\ At(g, 0) # At(h, n) /\ (g # h => At(g, 0) # At(h, 0))
      BY <2>1, Places
    <3>2. conns'[At(g, 0)] = IF g = h THEN n ELSE conns[At(g, 0)]
      BY <2>7, <3>1
    <3> QED BY <3>1, <3>2 DEF Free
  <2>10. ASSUME NEW g \in Host, NEW k \in 1..PoolSize
         PROVE  conns'[At(g, k)] = IF g = h /\ k = n THEN fd ELSE conns[At(g, k)]
    <3>1. At(g, k) \in D /\ At(g, k) # At(h, 0) /\ (At(g, k) = At(h, n) => g = h /\ k = n)
      BY <2>1, Places
    <3> QED BY <2>7, <3>1
  <2> QED BY <2>1, <2>3, <2>4, <2>8, <2>9, <2>10
<1> QED BY <1>1, <1>2

-----------------------------------------------------------------------------
(* Steps keep the pool. *)

AgentRec   == [state : State, sock : Fd \cup {NoSock}, pers : BOOLEAN, success : BOOLEAN, failure : BOOLEAN]
AgentTyped == agent \in [Agent -> AgentRec]

LEMMA Numbers ==
  /\ NoSock = -1 /\ NoSlot = -2 /\ Fd \subseteq Nat /\ OtherFd \subseteq Fd
  /\ -1 \notin Fd /\ -2 \notin Fd /\ NobodyRents.sock = -2 /\ NobodyRents.host = -1
  /\ -1 \notin Host /\ N \in Nat /\ N > 0 /\ Persistent \subseteq Agent /\ Blackhole \subseteq Agent
  /\ \A a \in Agent : HostOf[a] \in Host
  /\ 0 <= PoolSize /\ PoolSize \in Nat
BY PoolAssumption, AgentsAssumption DEF NoSock, NoSlot, NobodyRents, Host

\* Agents close connections, and nobody rents.
LEMMA PoolCloses ==
  ASSUME PoolInv, AgentTyped, UNCHANGED <<conns, other, leaked>>, open' \subseteq open,
         \A f \in open \ open' : \E a \in Agent : agent[a].sock = f /\ agent'[a].sock = NoSock,
         \A a \in Agent : agent'[a].sock = agent[a].sock \/ (agent'[a].sock = NoSock /\ agent[a].sock \notin open'),
         \A a \in Agent : Rents(a)' => Rents(a)
  PROVE  PoolInv'
<1>1. ASSUME NEW f \in open \ open'
      PROVE  f \notin OtherFd /\ \A h \in Host, k \in 1..PoolSize : conns[At(h, k)] # f
  <2>1. PICK a \in Agent : agent[a].sock = f
    OBVIOUS
  <2>2. f # -1
    BY Numbers DEF PoolInv, PoolTyped, SlotsTyped
  <2> QED BY <2>1, <2>2, Numbers DEF PoolInv, OwnersApart, Own
<1>2. PoolTyped'
  BY <1>1 DEF PoolInv, PoolTyped, SlotsTyped, Free, At
<1>3. SlotsOwn'
  BY <1>1 DEF PoolInv, SlotsOwn, At
<1>4. ASSUME NEW a \in Agent, agent'[a].sock # NoSock
      PROVE  agent'[a].sock = agent[a].sock /\ Own(open', conns', agent[a].sock) /\ agent[a].sock # other'.sock
  <2>1. agent'[a].sock = agent[a].sock /\ Own(open, conns, agent[a].sock) /\ agent[a].sock # other.sock
    BY <1>4 DEF PoolInv, OwnersApart
  <2>2. agent[a].sock \in open'
    BY <1>4, <2>1, Numbers DEF PoolInv, OwnersApart, Own
  <2> QED BY <2>1, <2>2 DEF Own, At
<1>5. other.sock # -1 /\ other # NobodyRents => Own(open', conns', other.sock)
  <2> SUFFICES ASSUME other.sock # -1, other # NobodyRents PROVE Own(open', conns', other.sock)
    OBVIOUS
  <2>1. Own(open, conns, other.sock)
    BY DEF PoolInv, OwnersApart
  <2>2. other.sock \in open'
    BY <2>1, Numbers DEF PoolInv, OwnersApart, Own
  <2> QED BY <2>1, <2>2 DEF Own, At
<1>6. \A a, b \in Agent : agent'[a].sock # NoSock /\ agent'[a].sock = agent'[b].sock => a = b
  BY <1>4 DEF PoolInv, OwnersApart
<1>7. OwnersApart'
  BY <1>4, <1>5, <1>6 DEF OwnersApart
<1>8. InUse'
  BY DEF PoolInv, InUse, Free
<1>9. Kept'
  <2>1. \A f \in open \ open' : Has(f)
    BY DEF Has
  <2>2. ASSUME NEW f \in open' \ OtherFd PROVE Has(f)' <=> Has(f) \/ f \notin open
    <3>1. f # NoSock /\ f \in open
      BY Numbers DEF PoolInv, PoolTyped, SlotsTyped
    <3>2. \A a \in Agent : agent'[a].sock = f <=> agent[a].sock = f
      BY <3>1
    <3> QED BY <3>1, <3>2 DEF Has, At
  <2> QED BY <2>1, <2>2, KeptThen DEF PoolInv
<1> QED BY <1>2, <1>3, <1>7, <1>8, <1>9 DEF PoolInv

\* An agent gets a new connection in the place of its old one.
LEMMA PoolConnects ==
  ASSUME PoolInv, AgentTyped, UNCHANGED <<conns, other, leaked>>, NEW a \in Agent, NEW f \in Fd,
         f \notin open \ {agent[a].sock}, open' = (open \ {agent[a].sock}) \cup {f},
         agent'[a].sock = f, \A b \in Agent \ {a} : agent'[b].sock = agent[b].sock,
         \A b \in Agent : Rents(b)' => Rents(b)
  PROVE  PoolInv'
<1> DEFINE o == agent[a].sock
<1>1. o \notin OtherFd /\ f \notin OtherFd /\ f # -1 /\ f # -2
  BY Numbers DEF PoolInv, PoolTyped, SlotsTyped, OwnersApart, Own
<1>2. \A h \in Host, k \in 1..PoolSize : conns[At(h, k)] # -1 => conns[At(h, k)] # o /\ conns[At(h, k)] # f
  <2> SUFFICES ASSUME NEW h \in Host, NEW k \in 1..PoolSize, conns[At(h, k)] # -1
               PROVE  conns[At(h, k)] # o /\ conns[At(h, k)] # f
    OBVIOUS
  <2>1. conns[At(h, k)] \in open
    BY DEF PoolInv, SlotsOwn
  <2>2. conns[At(h, k)] # o
    BY Numbers DEF PoolInv, OwnersApart, Own
  <2> QED BY <2>1, <2>2
<1>3. PoolTyped'
  BY <1>1 DEF PoolInv, PoolTyped, SlotsTyped, Free, At
<1>4. SlotsOwn'
  BY <1>1, <1>2 DEF PoolInv, SlotsOwn, At
<1>5. ASSUME NEW g, Own(open, conns, g), g # o PROVE Own(open', conns', g) /\ g # f
  BY <1>1, <1>5 DEF Own, At
<1>6. Own(open', conns', f)
  BY <1>1, <1>2, Numbers DEF Own, At
<1>7. ASSUME NEW b \in Agent \ {a}, agent[b].sock # NoSock
      PROVE  Own(open', conns', agent[b].sock) /\ agent[b].sock # f /\ agent[b].sock # other.sock
  <2>1. Own(open, conns, agent[b].sock) /\ agent[b].sock # o /\ agent[b].sock # other.sock
    BY <1>7 DEF PoolInv, OwnersApart
  <2> QED BY <1>5, <2>1
<1>8. other.sock # -1 /\ other # NobodyRents => Own(open', conns', other.sock) /\ other.sock # f
  <2> SUFFICES ASSUME other.sock # -1, other # NobodyRents PROVE Own(open', conns', other.sock) /\ other.sock # f
    OBVIOUS
  <2>1. Own(open, conns, other.sock)
    BY DEF PoolInv, OwnersApart
  <2>2. other.sock # o
    BY <2>1, Numbers DEF PoolInv, OwnersApart
  <2> QED BY <1>5, <2>1, <2>2
<1>9. other.sock # f
  <2>1. other = NobodyRents \/ other.sock = -1 \/ other.sock # f
    BY <1>8
  <2> QED BY <1>1, <2>1, Numbers
<1>10. OwnersApart'
  <2>1. \A b \in Agent : agent'[b].sock # NoSock => Own(open', conns', agent'[b].sock) /\ agent'[b].sock # other'.sock
    BY <1>6, <1>7, <1>9
  <2>2. \A b, c \in Agent : agent'[b].sock # NoSock /\ agent'[b].sock = agent'[c].sock => b = c
    <3> SUFFICES ASSUME NEW b \in Agent, NEW c \in Agent, agent'[b].sock # NoSock, agent'[b].sock = agent'[c].sock
                 PROVE  b = c
      OBVIOUS
    <3>1. CASE b = a \/ c = a
      BY <1>1, <1>7, <3>1, Numbers
    <3>2. CASE b # a /\ c # a
      BY <3>2 DEF PoolInv, OwnersApart
    <3> QED BY <3>1, <3>2
  <2> QED BY <1>8, <2>1, <2>2 DEF OwnersApart
<1>11. InUse'
  BY DEF PoolInv, InUse, Free
<1>12. Kept'
  <2>1. \A g \in open \ open' : Has(g)
    BY DEF Has
  <2>2. ASSUME NEW g \in open' \ OtherFd PROVE Has(g)' <=> Has(g) \/ g \notin open
    <3>1. CASE g = f
      BY <3>1 DEF Has
    <3>2. CASE g # f
      <4>1. g \in open /\ g # o
        BY <3>2
      <4>2. \A b \in Agent : agent'[b].sock = g <=> agent[b].sock = g
        BY <3>2, <4>1
      <4> QED BY <4>1, <4>2 DEF Has, At
    <3> QED BY <3>1, <3>2
  <2> QED BY <2>1, <2>2, KeptThen DEF PoolInv
<1> QED BY <1>3, <1>4, <1>10, <1>11, <1>12 DEF PoolInv

\* A slot is rented.
LEMMA Take ==
  ASSUME PoolInv, NEW h \in Host, NEW f \in 1..PoolSize, conns' \in [0..Hosts * Stride - 1 -> Int], open' = open,
         \A g \in Host : Free(g)' = IF g = h THEN f - 1 ELSE Free(g),
         \A g \in Host, k \in 1..PoolSize : conns'[At(g, k)] = IF g = h /\ k = f THEN -1 ELSE conns[At(g, k)],
         \A k \in 1..PoolSize : k > f => conns[At(h, k)] = -1
  PROVE  /\ SlotsTyped' /\ SlotsOwn'
         /\ \A g : Own(open, conns, g) /\ g # -1 => Own(open', conns', g) /\ g # conns[At(h, f)]
         /\ conns[At(h, f)] # -1 => Own(open', conns', conns[At(h, f)])
         /\ \A g \in Host : g = h \/ Free(g) # -1 => Free(g)' # -1
<1> DEFINE s == conns[At(h, f)]
<1>1. f - 1 \in 0..PoolSize
  BY Numbers
<1>2. SlotsTyped'
  <2>1. \A g \in Host : (Free(g) \in -1..PoolSize)'
    BY <1>1 DEF PoolInv, PoolTyped, SlotsTyped
  <2>2. \A g \in Host, k \in 1..PoolSize : (conns[At(g, k)] \in Fd \cup {-1})'
    BY DEF PoolInv, PoolTyped, SlotsTyped, At
  <2>3. \A g \in Host, k \in 1..PoolSize : (k > Free(g) => conns[At(g, k)] = -1)'
    <3> SUFFICES ASSUME NEW g \in Host, NEW k \in 1..PoolSize, k > Free(g)' PROVE conns'[At(g, k)] = -1
      BY DEF At
    <3>1. CASE g # h
      BY <3>1 DEF PoolInv, PoolTyped, SlotsTyped
    <3>2. CASE g = h
      BY <1>1, <3>2
    <3> QED BY <3>1, <3>2
  <2> QED BY <2>1, <2>2, <2>3 DEF PoolInv, PoolTyped, SlotsTyped
<1>3. SlotsOwn'
  BY DEF PoolInv, SlotsOwn, At
<1>4. ASSUME NEW g, Own(open, conns, g), g # -1 PROVE Own(open', conns', g) /\ g # s
  BY <1>4 DEF Own, At
<1>5. ASSUME s # -1 PROVE Own(open', conns', s)
  <2>1. s \in open \ OtherFd
    BY <1>5 DEF PoolInv, SlotsOwn
  <2>2. ASSUME NEW g \in Host, NEW k \in 1..PoolSize PROVE conns'[At(g, k)] # s
    <3>1. g = h /\ k = f => conns'[At(g, k)] = -1
      OBVIOUS
    <3>2. ~(g = h /\ k = f) => conns'[At(g, k)] = conns[At(g, k)] /\ conns[At(g, k)] # s
      BY <1>5 DEF PoolInv, SlotsOwn
    <3> QED BY <1>5, <3>1, <3>2
  <2> QED BY <2>1, <2>2 DEF Own, At
<1>6. \A g \in Host : g = h \/ Free(g) # -1 => Free(g)' # -1
  BY <1>1
<1> QED BY <1>2, <1>3, <1>4, <1>5, <1>6

\* A slot gets the connection fd, or an empty one; what is closed was not in a slot.
LEMMA Put ==
  ASSUME PoolInv, NEW h \in Host, NEW n \in 1..PoolSize, NEW fd \in Fd \cup {-1},
         conns' \in [0..Hosts * Stride - 1 -> Int], open' \subseteq open,
         \A f \in open \ open' : Own(open, conns, f) /\ f # fd,
         fd # -1 => Own(open, conns, fd),
         \A g \in Host : Free(g)' = IF g = h THEN n ELSE Free(g),
         \A g \in Host, k \in 1..PoolSize : conns'[At(g, k)] = IF g = h /\ k = n THEN fd ELSE conns[At(g, k)],
         \A k \in 1..PoolSize : k >= n => conns[At(h, k)] = -1
  PROVE  /\ SlotsTyped' /\ SlotsOwn'
         /\ \A g : Own(open, conns, g) /\ g # fd /\ g \in open' => Own(open', conns', g)
         /\ \A g \in Host : g = h \/ Free(g) # -1 => Free(g)' # -1
<1>1. n \in Nat /\ n > 0 /\ -1 \notin Fd
  BY Numbers
<1>2. SlotsTyped'
  <2>1. \A g \in Host : (Free(g) \in -1..PoolSize)'
    BY <1>1 DEF PoolInv, PoolTyped, SlotsTyped
  <2>2. \A g \in Host, k \in 1..PoolSize : (conns[At(g, k)] \in Fd \cup {-1})'
    BY DEF PoolInv, PoolTyped, SlotsTyped, At
  <2>3. \A g \in Host, k \in 1..PoolSize : (k > Free(g) => conns[At(g, k)] = -1)'
    <3> SUFFICES ASSUME NEW g \in Host, NEW k \in 1..PoolSize, k > Free(g)' PROVE conns'[At(g, k)] = -1
      BY DEF At
    <3>1. CASE g # h
      BY <3>1 DEF PoolInv, PoolTyped, SlotsTyped
    <3>2. CASE g = h
      BY <1>1, <3>2
    <3> QED BY <3>1, <3>2
  <2>4. OtherFd \subseteq open' /\ open' \subseteq Fd
    BY DEF PoolInv, PoolTyped, SlotsTyped, Own
  <2> QED BY <2>1, <2>2, <2>3, <2>4 DEF SlotsTyped
<1>3. \A g \in Host, k \in 1..PoolSize : conns[At(g, k)] # -1 => conns[At(g, k)] # fd /\ conns[At(g, k)] \in open' \ OtherFd
  BY DEF PoolInv, SlotsOwn, Own
<1>4. fd # -1 => fd \in open' \ OtherFd
  BY DEF Own
<1>5. SlotsOwn'
  <2>1. \A g \in Host, k \in 1..PoolSize : conns'[At(g, k)] # -1 => conns'[At(g, k)] \in open' \ OtherFd
    BY <1>3, <1>4
  <2>2. ASSUME NEW g \in Host, NEW i \in Host, NEW k \in 1..PoolSize, NEW l \in 1..PoolSize,
               conns'[At(g, k)] # -1, conns'[At(g, k)] = conns'[At(i, l)]
        PROVE  g = i /\ k = l
    <3>1. CASE g = h /\ k = n
      BY <1>3, <2>2, <3>1
    <3>2. CASE i = h /\ l = n
      BY <1>3, <2>2, <3>2
    <3>3. CASE ~(g = h /\ k = n) /\ ~(i = h /\ l = n)
      <4>1. conns'[At(g, k)] = conns[At(g, k)] /\ conns'[At(i, l)] = conns[At(i, l)]
        BY <3>3
      <4>2. conns[At(g, k)] # -1 /\ conns[At(g, k)] = conns[At(i, l)]
        BY <2>2, <4>1
      <4> QED BY <4>2 DEF PoolInv, SlotsOwn
    <3> QED BY <3>1, <3>2, <3>3
  <2> QED BY <2>1, <2>2 DEF SlotsOwn, At
<1>6. \A g : Own(open, conns, g) /\ g # fd /\ g \in open' => Own(open', conns', g)
  BY DEF Own, At
<1>7. \A g \in Host : g = h \/ Free(g) # -1 => Free(g)' # -1
  BY <1>1
<1> QED BY <1>2, <1>5, <1>6, <1>7

\* An agent rents a slot, or finds none free.
LEMMA PoolRents ==
  ASSUME PoolInv, AgentTyped, NEW a \in Agent, agent[a].sock = NoSock, UNCHANGED <<open, other, leaked>>,
         conns' = AfterRent(conns, HostOf[a]),
         \A b \in Agent : agent'[b].sock = IF b = a /\ Rented(conns, HostOf[a]) # NoSlot
                                           THEN Rented(conns, HostOf[a]) ELSE agent[b].sock,
         \A b \in Agent : Rents(b)' => Rents(b) \/ (b = a /\ Rented(conns, HostOf[a]) # NoSlot)
  PROVE  PoolInv'
<1> DEFINE h == HostOf[a]  s == Rented(conns, h)
<1>1. CASE s = NoSlot /\ conns' = conns
  <2>1. \A b \in Agent : agent'[b].sock = agent[b].sock
    BY <1>1
  <2>2. \A b \in Agent : Rents(b)' => Rents(b)
    BY <1>1
  <2> QED BY <1>1, <2>1, <2>2, PoolCloses
<1>2. ASSUME NEW f \in 1..PoolSize, s = conns[At(h, f)], conns' \in [0..Hosts * Stride - 1 -> Int],
             \A g \in Host : Free(g)' = IF g = h THEN f - 1 ELSE Free(g),
             \A g \in Host, k \in 1..PoolSize : conns'[At(g, k)] = IF g = h /\ k = f THEN -1 ELSE conns[At(g, k)],
             \A k \in 1..PoolSize : k > f => conns[At(h, k)] = -1
      PROVE  PoolInv'
  <2>1. h \in Host /\ f - 1 \in 0..PoolSize
    BY Numbers
  <2>2. s \in Fd \cup {-1} /\ s # NoSlot
    BY <1>2, <2>1, Numbers DEF PoolInv, PoolTyped, SlotsTyped
  <2> HIDE DEF h, s
  <2>3. SlotsTyped' /\ SlotsOwn'
    BY <1>2, <2>1, Take
  <2>4. \A g \in Host : g = h \/ Free(g) # -1 => Free(g)' # -1
    BY <1>2, <2>1, Take
  <2>5. ASSUME NEW g, Own(open, conns, g), g # -1 PROVE Own(open', conns', g) /\ g # s
    BY <1>2, <2>1, <2>5, Take
  <2>6. s # -1 => Own(open', conns', s)
    BY <1>2, <2>1, Take
  <2>7. \A b \in Agent : agent'[b].sock = IF b = a THEN s ELSE agent[b].sock
    BY <2>2 DEF s, h
  <2>8. OwnersApart'
    <3>1. other.sock # -1 /\ other # NobodyRents => Own(open', conns', other.sock) /\ other.sock # s
      BY <2>5 DEF PoolInv, OwnersApart
    <3>2. other.sock # s \/ s = -1
      BY <2>2, <3>1, Numbers
    <3>3. \A b \in Agent : agent'[b].sock # NoSock => Own(open', conns', agent'[b].sock) /\ agent'[b].sock # other'.sock
      <4> SUFFICES ASSUME NEW b \in Agent, agent'[b].sock # NoSock
                   PROVE  Own(open', conns', agent'[b].sock) /\ agent'[b].sock # other'.sock
        OBVIOUS
      <4>1. CASE b = a
        <5>1. agent'[b].sock = s /\ s # -1
          BY <2>7, <4>1, Numbers
        <5> QED BY <2>6, <3>2, <5>1
      <4>2. CASE b # a
        <5>1. agent'[b].sock = agent[b].sock /\ agent[b].sock # -1
          BY <2>7, <4>2, Numbers
        <5>2. Own(open, conns, agent[b].sock) /\ agent[b].sock # other.sock
          BY <5>1, Numbers DEF PoolInv, OwnersApart
        <5> QED BY <2>5, <5>1, <5>2
      <4> QED BY <4>1, <4>2
    <3>4. \A b \in Agent \ {a} : agent[b].sock # NoSock => agent[b].sock # s
      BY <2>5, Numbers DEF PoolInv, OwnersApart
    <3>5. \A b, c \in Agent : agent'[b].sock # NoSock /\ agent'[b].sock = agent'[c].sock => b = c
      BY <2>7, <3>4 DEF PoolInv, OwnersApart
    <3> QED BY <3>1, <3>3, <3>5 DEF OwnersApart
  <2>9. InUse'
    <3>3. \A b \in Agent : Rents(b)' => Free(HostOf[b])' # -1
      BY <2>4, Numbers DEF PoolInv, InUse, h, s
    <3>4. other # NobodyRents => Free(other.host)' # -1
      BY <2>4 DEF PoolInv, InUse, PoolTyped
    <3> QED BY <3>3, <3>4 DEF InUse, Free
  <2>10. Kept'
    <3>1. ASSUME NEW g \in open' \ OtherFd PROVE Has(g)' <=> Has(g) \/ g \notin open
      <4>1. g # -1 /\ g \in open
        BY Numbers DEF PoolInv, PoolTyped, SlotsTyped
      <4>2. (\E e \in Host, k \in 1..PoolSize : conns'[At(e, k)] = g) \/ s = g
              <=> \E e \in Host, k \in 1..PoolSize : conns[At(e, k)] = g
        BY <1>2, <2>1, <4>1 DEF s
      <4>3. (\E b \in Agent : agent'[b].sock = g) <=> (\E b \in Agent : agent[b].sock = g) \/ s = g
        BY <2>7, <4>1, Numbers
      <4> QED BY <4>1, <4>2, <4>3 DEF Has, At
    <3> QED BY <3>1, KeptThen DEF PoolInv
  <2> QED BY <2>3, <2>8, <2>9, <2>10 DEF PoolInv, PoolTyped
<1>3. HostOf[a] \in Host
  BY Numbers
<1> QED BY <1>1, <1>2, <1>3, RentEffect DEF PoolInv, PoolTyped

\* An agent returns its slot, with the connection it has.
LEMMA PoolReturns ==
  ASSUME PoolInv, AgentTyped, NEW a \in Agent, Rents(a), UNCHANGED <<other, leaked>>,
         conns' = AfterReturn(conns, HostOf[a], agent[a].sock),
         open' = open \ ReturnCloses(conns, HostOf[a], agent[a].sock),
         \A b \in Agent : agent'[b].sock = IF b = a THEN NoSock ELSE agent[b].sock,
         \A b \in Agent : Rents(b)' => Rents(b)
  PROVE  PoolInv'
<1> DEFINE h == HostOf[a]  s == agent[a].sock
<1>1. h \in Host /\ s \in Fd \cup {-1} /\ Free(h) # -1 /\ SlotsTyped
  BY Numbers DEF PoolInv, PoolTyped, InUse, AgentTyped, AgentRec
<1>2. CASE ReturnCloses(conns, h, s) = {s} /\ conns' = conns
  <2>1. open' \subseteq open /\ \A f \in open \ open' : f = s
    BY <1>2
  <2>2. \A b \in Agent : agent'[b].sock = agent[b].sock \/ (agent'[b].sock = NoSock /\ agent[b].sock \notin open')
    BY <1>2
  <2>3. \A f \in open \ open' : \E b \in Agent : agent[b].sock = f /\ agent'[b].sock = NoSock
    BY <2>1
  <2> QED BY <1>2, <2>1, <2>2, <2>3, PoolCloses
<1>3. ASSUME ReturnCloses(conns, h, s) = {}, NEW n \in 1..PoolSize, conns' \in [0..Hosts * Stride - 1 -> Int],
             \A g \in Host : Free(g)' = IF g = h THEN n ELSE Free(g),
             \A g \in Host, k \in 1..PoolSize : conns'[At(g, k)] = IF g = h /\ k = n THEN s ELSE conns[At(g, k)],
             \A k \in 1..PoolSize : k >= n => conns[At(h, k)] = -1
      PROVE  PoolInv'
  <2>1. open' = open /\ (s # -1 => Own(open, conns, s))
    BY <1>3, Numbers DEF PoolInv, OwnersApart
  <2>2. \A b \in Agent : agent'[b].sock = IF b = a THEN -1 ELSE agent[b].sock
    BY Numbers
  <2>3. \A b \in Agent \ {a} : agent[b].sock # -1 => agent[b].sock # s
    BY Numbers DEF PoolInv, OwnersApart
  <2>4. other.sock # -1 /\ other # NobodyRents => other.sock # s
    BY Numbers DEF PoolInv, OwnersApart, Own
  <2> HIDE DEF h, s
  <2>5. /\ SlotsTyped' /\ SlotsOwn'
        /\ \A g : Own(open, conns, g) /\ g # s => Own(open', conns', g)
        /\ \A g \in Host : g = h \/ Free(g) # -1 => Free(g)' # -1
    <3>1. /\ SlotsTyped' /\ SlotsOwn'
          /\ \A g : Own(open, conns, g) /\ g # s /\ g \in open' => Own(open', conns', g)
          /\ \A g \in Host : g = h \/ Free(g) # -1 => Free(g)' # -1
      BY <1>1, <1>3, <2>1, Put
    <3> QED BY <2>1, <3>1 DEF Own
  <2>6. OwnersApart'
    <3>1. other.sock # -1 /\ other # NobodyRents => Own(open', conns', other.sock)
      BY <2>4, <2>5 DEF PoolInv, OwnersApart
    <3>2. ASSUME NEW b \in Agent, agent'[b].sock # NoSock
          PROVE  Own(open', conns', agent'[b].sock) /\ agent'[b].sock # other'.sock
      <4>1. b # a /\ agent'[b].sock = agent[b].sock /\ agent[b].sock # -1
        BY <2>2, <3>2, Numbers
      <4>2. Own(open, conns, agent[b].sock) /\ agent[b].sock # other.sock /\ agent[b].sock # s
        BY <2>3, <4>1, Numbers DEF PoolInv, OwnersApart
      <4> QED BY <2>5, <4>1, <4>2
    <3>3. \A b, c \in Agent : agent'[b].sock # NoSock /\ agent'[b].sock = agent'[c].sock => b = c
      BY <2>2, Numbers DEF PoolInv, OwnersApart
    <3> QED BY <3>1, <3>2, <3>3 DEF OwnersApart
  <2>7. InUse'
    <3>1. \A b \in Agent : Rents(b)' => Free(HostOf[b])' # -1
      BY <2>5, Numbers DEF PoolInv, InUse
    <3>2. other # NobodyRents => Free(other.host)' # -1
      BY <2>5 DEF PoolInv, InUse, PoolTyped
    <3> QED BY <3>1, <3>2 DEF InUse, Free
  <2>8. Kept'
    <3>1. ASSUME NEW g \in open' \ OtherFd PROVE Has(g)' <=> Has(g) \/ g \notin open
      <4>1. g # -1 /\ g \in open
        BY <2>1, Numbers DEF PoolInv, PoolTyped, SlotsTyped
      <4>2. (\E e \in Host, k \in 1..PoolSize : conns'[At(e, k)] = g)
              <=> (\E e \in Host, k \in 1..PoolSize : conns[At(e, k)] = g) \/ s = g
        BY <1>1, <1>3, <4>1
      <4>3. (\E b \in Agent : agent[b].sock = g) <=> (\E b \in Agent : agent'[b].sock = g) \/ s = g
        BY <2>2, <4>1 DEF s
      <4> QED BY <4>1, <4>2, <4>3 DEF Has, At
    <3> QED BY <2>1, <3>1, KeptThen DEF PoolInv
  <2> QED BY <2>5, <2>6, <2>7, <2>8 DEF PoolInv, PoolTyped
<1> QED BY <1>1, <1>2, <1>3, ReturnEffect

\* The rest of a step, when another query does it.
LEMMA OtherQuery ==
  ASSUME PoolInv, AgentTyped, UNCHANGED <<agent, main>>, SlotsTyped', SlotsOwn', Kept',
         \A a \in Agent : agent[a].sock # NoSock => Own(open', conns', agent[a].sock) /\ agent[a].sock # other'.sock,
         \A g \in Host : Free(g) # -1 => Free(g)' # -1,
         \/ other' = NobodyRents
         \/ /\ other' \in [host : Host, sock : Fd \cup {-1}] /\ conns'[Base(other'.host)] # -1
            /\ other'.sock # -1 => Own(open', conns', other'.sock)
  PROVE  PoolInv'
<1>1. PoolTyped'
  BY DEF PoolTyped
<1>2. OwnersApart'
  BY DEF PoolInv, OwnersApart
<1>3. InUse'
  <2>1. \A a \in Agent : Rents(a)' => Free(HostOf[a])' # -1
    BY Numbers DEF PoolInv, InUse, Rents
  <2>2. other' # NobodyRents => conns'[Base(other'.host)] # -1
    OBVIOUS
  <2> QED BY <2>1, <2>2 DEF InUse, Free
<1> QED BY <1>1, <1>2, <1>3 DEF PoolInv

LEMMA OtherRents ==
  ASSUME PoolInv, AgentTyped, UNCHANGED <<agent, main>>, OtherRent
  PROVE  PoolInv'
<1>1. PICK h \in Host : Rented(conns, h) # NoSlot /\ other' = [host |-> h, sock |-> Rented(conns, h)]
                        /\ conns' = AfterRent(conns, h)
  BY DEF OtherRent
<1>2. open' = open /\ SlotsTyped
  BY DEF OtherRent, PoolInv, PoolTyped
<1>3. PICK f \in 1..PoolSize :
        /\ Rented(conns, h) = conns[At(h, f)]
        /\ conns' \in [0..Hosts * Stride - 1 -> Int]
        /\ \A g \in Host : Free(g)' = IF g = h THEN f - 1 ELSE Free(g)
        /\ \A g \in Host, k \in 1..PoolSize :
             conns'[At(g, k)] = IF g = h /\ k = f THEN -1 ELSE conns[At(g, k)]
        /\ \A k \in 1..PoolSize : k > f => conns[At(h, k)] = -1
  BY <1>1, <1>2, RentEffect
<1> DEFINE s == conns[At(h, f)]
<1>4. /\ SlotsTyped' /\ SlotsOwn'
      /\ \A g : Own(open, conns, g) /\ g # -1 => Own(open', conns', g) /\ g # s
      /\ s # -1 => Own(open', conns', s)
      /\ \A g \in Host : g = h \/ Free(g) # -1 => Free(g)' # -1
  BY <1>2, <1>3, Take
<1>5. other' = [host |-> h, sock |-> s] /\ s \in Fd \cup {-1}
  BY <1>1, <1>2, <1>3 DEF SlotsTyped
<1> HIDE DEF s
<1>6. \A a \in Agent : agent[a].sock # NoSock => Own(open', conns', agent[a].sock) /\ agent[a].sock # other'.sock
  BY <1>4, <1>5, Numbers DEF PoolInv, OwnersApart
<1>7. other' \in [host : Host, sock : Fd \cup {-1}] /\ conns'[Base(other'.host)] # -1
      /\ (other'.sock # -1 => Own(open', conns', other'.sock))
  <2>1. conns'[Base(h)] # -1
    BY <1>4 DEF Free
  <2>2. other'.host = h /\ other'.sock = s /\ other' \in [host : Host, sock : Fd \cup {-1}]
    BY <1>5
  <2> QED BY <1>4, <2>1, <2>2
<1>8. Kept'
  <2>1. UNCHANGED leaked /\ other = NobodyRents
    BY DEF OtherRent
  <2>2. ASSUME NEW g \in open' \ OtherFd PROVE Has(g)' <=> Has(g) \/ g \notin open
    <3>1. g # -1 /\ g # -2 /\ g \in open
      BY <1>2, Numbers DEF SlotsTyped
    <3>2. (\E e \in Host, k \in 1..PoolSize : conns'[At(e, k)] = g) \/ s = g
            <=> \E e \in Host, k \in 1..PoolSize : conns[At(e, k)] = g
      BY <1>3, <3>1 DEF s
    <3>3. other.sock # g /\ other'.sock = s
      BY <1>5, <2>1, <3>1, Numbers
    <3> QED BY <3>1, <3>2, <3>3 DEF Has, At
  <2> QED BY <1>2, <2>1, <2>2, KeptThen DEF PoolInv
<1> QED BY <1>4, <1>6, <1>7, <1>8, OtherQuery

LEMMA OtherConnects ==
  ASSUME PoolInv, AgentTyped, UNCHANGED <<agent, main>>, OtherConnect
  PROVE  PoolInv'
<1> DEFINE f == NewFd
<1>1. f \in Fd \ open /\ f # -1
  <2>1. FreeFd \subseteq Nat /\ FreeFd # {}
    BY Numbers DEF OtherConnect, FreeFd
  <2> QED BY <2>1, LeastIs, Numbers DEF NewFd, FreeFd
<1> HIDE DEF f
<1>2. /\ other # NobodyRents /\ other.sock = -1 /\ conns' = conns
      /\ other' = [other EXCEPT !.sock = f] /\ open' = open \cup {f}
  BY DEF OtherConnect, f
<1>3. /\ other \in [host : Host, sock : Fd \cup {-1}] /\ Free(other.host) # -1
  BY <1>2 DEF PoolInv, PoolTyped, InUse
<1>4. other'.host = other.host /\ other'.sock = f /\ other' \in [host : Host, sock : Fd \cup {-1}]
  BY <1>1, <1>2, <1>3
<1>5. \A h \in Host, k \in 1..PoolSize : conns[At(h, k)] # f
  BY <1>1 DEF PoolInv, SlotsOwn
<1>6. Own(open', conns', f) /\ \A g : Own(open, conns, g) => Own(open', conns', g) /\ g # f
  BY <1>1, <1>2, <1>5 DEF Own, PoolInv, PoolTyped, SlotsTyped
<1>7. SlotsTyped' /\ SlotsOwn'
  <2>1. SlotsTyped'
    BY <1>1, <1>2 DEF PoolInv, PoolTyped, SlotsTyped, Free, At
  <2>2. SlotsOwn'
    BY <1>1, <1>2 DEF PoolInv, SlotsOwn, At
  <2> QED BY <2>1, <2>2
<1>8. \A g \in Host : Free(g)' = Free(g)
  BY <1>2 DEF Free
<1>9. \A a \in Agent : agent[a].sock # NoSock => Own(open', conns', agent[a].sock) /\ agent[a].sock # other'.sock
  BY <1>4, <1>6 DEF PoolInv, OwnersApart
<1>10. conns'[Base(other'.host)] # -1
  BY <1>2, <1>3, <1>4 DEF Free
<1>11. Kept'
  <2>1. UNCHANGED leaked
    BY DEF OtherConnect
  <2>2. ASSUME NEW g \in open' \ OtherFd PROVE Has(g)' <=> Has(g) \/ g \notin open
    <3>1. g # -1
      BY <1>7, Numbers DEF SlotsTyped
    <3>2. other'.sock = g <=> g \notin open
      BY <1>1, <1>2, <1>4
    <3> QED BY <1>2, <3>1, <3>2 DEF Has, At
  <2> QED BY <1>2, <2>1, <2>2, KeptThen DEF PoolInv
<1> QED BY <1>4, <1>6, <1>7, <1>8, <1>9, <1>10, <1>11, OtherQuery

LEMMA OtherReturns ==
  ASSUME PoolInv, AgentTyped, UNCHANGED <<agent, main>>, OtherReturn
  PROVE  PoolInv'
<1> DEFINE h == other.host  s == other.sock
<1>1. other \in [host : Host, sock : Fd \cup {-1}] /\ h \in Host /\ s \in Fd \cup {-1} /\ Free(h) # -1 /\ SlotsTyped
      /\ other # NobodyRents
  BY DEF OtherReturn, PoolInv, PoolTyped, InUse
<1>2. PICK fd \in {s, -1} : conns' = AfterReturn(conns, h, fd) /\ open' = open \ (ReturnCloses(conns, h, fd) \cup ({s} \ {fd}))
  BY DEF OtherReturn, CloseFds
<1>3. other' = NobodyRents /\ UNCHANGED leaked
  BY DEF OtherReturn
<1>4. s # -1 => Own(open, conns, s)
  BY <1>1 DEF PoolInv, OwnersApart
<1>5. \A a \in Agent : agent[a].sock # -1 => Own(open, conns, agent[a].sock) /\ agent[a].sock # s /\ agent[a].sock # -2
  BY Numbers DEF PoolInv, OwnersApart, AgentTyped, AgentRec
<1> HIDE DEF h, s
<1>6. CASE ReturnCloses(conns, h, fd) = {fd} /\ conns' = conns
  <2>1. open' \subseteq open /\ \A f \in open \ open' : f = s /\ f # -1
    BY <1>1, <1>2, <1>6, Numbers DEF SlotsTyped
  <2>2. \A g : Own(open, conns, g) /\ g # s => Own(open', conns', g)
    BY <1>6, <2>1 DEF Own
  <2>3. SlotsTyped'
    BY <1>1, <1>4, <1>6, <2>1 DEF SlotsTyped, Own, Free, At
  <2>4. SlotsOwn'
    BY <1>4, <1>6, <2>1 DEF PoolInv, SlotsOwn, Own, At
  <2>5. \A g \in Host : Free(g)' = Free(g)
    BY <1>6 DEF Free
  <2>6. \A a \in Agent : agent[a].sock # NoSock => Own(open', conns', agent[a].sock) /\ agent[a].sock # other'.sock
    BY <1>3, <1>5, <2>2, Numbers
  <2>7. s \notin open' \/ s = -1
    BY <1>2, <1>6
  <2>8. Kept'
    <3>1. \A f \in open \ open' : Has(f)
      BY <2>1 DEF Has, s
    <3>2. ASSUME NEW g \in open' \ OtherFd PROVE Has(g)' <=> Has(g) \/ g \notin open
      <4>1. g # -1 /\ g # -2 /\ g \in open /\ g # s
        BY <2>1, <2>3, <2>7, Numbers DEF SlotsTyped
      <4>2. other.sock # g /\ other'.sock # g
        BY <1>3, <4>1, Numbers DEF s
      <4> QED BY <1>6, <4>1, <4>2 DEF Has, At
    <3> QED BY <1>3, <3>1, <3>2, KeptThen DEF PoolInv
  <2> QED BY <1>3, <2>3, <2>4, <2>5, <2>6, <2>8, OtherQuery
<1>7. ASSUME ReturnCloses(conns, h, fd) = {}, NEW n \in 1..PoolSize, conns' \in [0..Hosts * Stride - 1 -> Int],
             \A g \in Host : Free(g)' = IF g = h THEN n ELSE Free(g),
             \A g \in Host, k \in 1..PoolSize : conns'[At(g, k)] = IF g = h /\ k = n THEN fd ELSE conns[At(g, k)],
             \A k \in 1..PoolSize : k >= n => conns[At(h, k)] = -1
      PROVE  PoolInv'
  <2>1. open' \subseteq open /\ \A f \in open \ open' : f = s /\ f # fd /\ f # -1
    BY <1>1, <1>2, <1>7, Numbers DEF SlotsTyped
  <2>2. fd \in Fd \cup {-1} /\ (fd # -1 => Own(open, conns, fd)) /\ \A f \in open \ open' : Own(open, conns, f) /\ f # fd
    BY <1>1, <1>4, <2>1
  <2>3. /\ SlotsTyped' /\ SlotsOwn'
        /\ \A g : Own(open, conns, g) /\ g # fd /\ g \in open' => Own(open', conns', g)
        /\ \A g \in Host : g = h \/ Free(g) # -1 => Free(g)' # -1
    BY <1>1, <1>7, <2>1, <2>2, Put
  <2>4. ASSUME NEW a \in Agent, agent[a].sock # NoSock
        PROVE  Own(open', conns', agent[a].sock) /\ agent[a].sock # other'.sock
    <3>1. Own(open, conns, agent[a].sock) /\ agent[a].sock # s /\ agent[a].sock # -2 /\ agent[a].sock # -1
      BY <1>5, <2>4, Numbers
    <3>2. agent[a].sock \in open' /\ agent[a].sock # fd
      BY <2>1, <3>1 DEF Own
    <3> QED BY <1>3, <2>3, <3>1, <3>2, Numbers
  <2>5. Kept'
    <3>1. \A f \in open \ open' : Has(f)
      BY <2>1 DEF Has, s
    <3>2. ASSUME NEW g \in open' \ OtherFd PROVE Has(g)' <=> Has(g) \/ g \notin open
      <4>1. g # -1 /\ g # -2 /\ g \in open /\ (g = s => g = fd)
        BY <1>2, <2>1, <2>3, Numbers DEF SlotsTyped
      <4>2. (\E e \in Host, k \in 1..PoolSize : conns'[At(e, k)] = g)
              <=> (\E e \in Host, k \in 1..PoolSize : conns[At(e, k)] = g) \/ fd = g
        BY <1>1, <1>7, <4>1
      <4>3. other.sock = g <=> fd = g
        BY <1>2, <4>1 DEF s
      <4>4. other'.sock # g
        BY <1>3, <4>1, Numbers
      <4> QED BY <4>1, <4>2, <4>3, <4>4 DEF Has, At
    <3> QED BY <1>3, <3>1, <3>2, KeptThen DEF PoolInv
  <2> QED BY <1>3, <2>3, <2>4, <2>5, OtherQuery
<1>8. fd \in Fd \cup {-1}
  BY <1>1
<1> QED BY <1>1, <1>2, <1>6, <1>7, <1>8, ReturnEffect

\* The pool is cleared when nobody rents.
LEMMA PoolResets ==
  ASSUME PoolInv, AgentTyped, QuietPool, UNCHANGED <<agent, main>>, other = NobodyRents,
         \A a \in Agent : agent[a].sock = NoSock /\ ~agent[a].pers, InitPersistentPool
  PROVE  PoolInv'
<1> DEFINE D == 0..Hosts * Stride - 1
<1>1. conns \in [D -> Int] /\ conns' = [i \in D |-> -1] /\ open' = open \ ResetCloses /\ UNCHANGED other
  BY DEF InitPersistentPool, CloseFds, PoolInv, PoolTyped, SlotsTyped
<1>2. ResetCloses \cap OtherFd = {}
  <2>1. CASE PoolSize = 1
    <3>1. \A i \in D : i % PoolSize = 0
      BY <2>1
    <3> QED BY <1>1, <3>1 DEF ResetCloses
  <2>2. CASE Hosts = 1
    <3>1. D = 0..PoolSize /\ 0 \in Host /\ Base(0) = 0 /\ PoolSize \in Nat \ {0}
      BY <2>2, Numbers, PoolAssumption DEF Stride, Host, Base
    <3>2. 0 % PoolSize = 0
      BY <3>1
    <3>3. ASSUME NEW i \in D, i % PoolSize # 0, conns[i] >= 0 PROVE conns[i] \notin OtherFd
      <4>1. i \in 1..PoolSize /\ i = At(0, i)
        <5>1. i \in 0..PoolSize /\ i # 0
          BY <3>1, <3>2, <3>3
        <5> QED BY <3>1, <5>1 DEF At
      <4>2. conns[At(0, i)] # -1
        BY <1>1, <3>3, <4>1
      <4> QED BY <3>1, <4>1, <4>2 DEF PoolInv, SlotsOwn
    <3> QED BY <1>1, <3>3 DEF ResetCloses
  <2> QED BY <2>1, <2>2 DEF QuietPool
<1>3. \A h \in Host, k \in 1..PoolSize : conns'[At(h, k)] = -1
  BY <1>1, Places
<1>4. \A h \in Host : conns'[Base(h)] = -1
  BY <1>1, Places
<1>5. SlotsTyped'
  <2>1. conns' \in [D -> Int] /\ -1 \in -1..PoolSize
    BY <1>1, Numbers
  <2>2. open' \subseteq Fd /\ OtherFd \subseteq open'
    BY <1>1, <1>2 DEF PoolInv, PoolTyped, SlotsTyped
  <2> QED BY <1>3, <1>4, <2>1, <2>2 DEF SlotsTyped, Free, At
<1>6. SlotsOwn'
  BY <1>3 DEF SlotsOwn, At
<1>7. OwnersApart' /\ InUse'
  BY <1>1 DEF OwnersApart, InUse, Rents
<1>8. Kept'
  <2>1. leaked' = (leaked \cup Pooled) \ ResetCloses
    BY DEF InitPersistentPool
  <2>2. \A f \in Pooled : f \in open \ OtherFd
    BY PooledIs DEF PoolInv, PoolTyped, SlotsOwn
  <2>3. leaked' \subseteq open' \ OtherFd
    BY <1>1, <2>1, <2>2 DEF PoolInv, Kept
  <2>4. ASSUME NEW f \in open' \ OtherFd PROVE f \in leaked' /\ ~Has(f)'
    <3>1. f \in open \ OtherFd /\ f \notin ResetCloses /\ f # -1 /\ f # -2 /\ f # NoSock
      BY <1>1, Numbers DEF PoolInv, PoolTyped, SlotsTyped
    <3>2. (\A a \in Agent : agent[a].sock # f) /\ other.sock # f
      BY <3>1, Numbers
    <3>3. ~Has(f)'
      BY <1>1, <1>3, <3>1, <3>2 DEF Has, At
    <3>4. f \in leaked \/ \E h \in Host, k \in 1..PoolSize : conns[At(h, k)] = f
      BY <3>1, <3>2 DEF PoolInv, Kept, Has
    <3>5. f \in leaked \cup Pooled
      BY <3>1, <3>4, PooledIs DEF PoolInv, PoolTyped
    <3> QED BY <2>1, <3>1, <3>3, <3>5
  <2> QED BY <2>3, <2>4 DEF Kept
<1> QED BY <1>1, <1>5, <1>6, <1>7, <1>8 DEF PoolInv, PoolTyped


-----------------------------------------------------------------------------
(* The invariant of the agents, of the works and of the session. *)

MainPc == {"take", "wait", "isdone", "ready", "scan", "poll", "body", "close", "drop", "return", "end"}
Round  == {"scan", "poll", "body", "close"}
Untried(a) == merged[a] = 0 /\ ~agent[a].success

MainTyped ==
  /\ main \in [pc : MainPc, next : 1..N + 1, done : BOOLEAN, reported : Nat,
               reg : SUBSET (Agent \ Blackhole), cur : Agent]
  /\ merged \in [Agent -> 0..1] /\ failures \subseteq Agent
  /\ main.pc = "take" => \A a \in Agent :
       /\ agent[a].state = "UNUSED" /\ Untried(a)
       /\ a >= main.next => agent[a].sock = NoSock /\ (agent[a].pers => a \in Persistent)
  /\ main.pc \in {"return", "end"} => \A a \in Agent :
       a < main.next => agent[a].sock = NoSock /\ ~agent[a].pers
  /\ main.pc = "end" => main.next = N + 1

\* An agent in a conversation has a connection; what is left to read belongs to such an agent.
SocketsOK ==
  /\ unread \subseteq open /\ \A f \in unread : \E a \in Agent : agent[a].sock = f
  /\ \A a \in Agent :
       /\ agent[a].state \in Initial \cup Answering => agent[a].sock # NoSock
       /\ agent[a].sock \in unread => agent[a].state \in Answering

Running   == {"run", "connect", "query", "mark"}
WorkRec   == [agents : SUBSET Agent, fn : {"parallel", "sequential", "wait", "none"}, retries : Nat,
              late : BOOLEAN, done : Nat]
WorkerRec == [pc : Running \cup {"pop", "exit"}, work : WorkRec, spin : {0, 1}, todo : SUBSET Agent, sent : Nat]
Runs(w)   == worker[w].pc \in Running

\* A work that somebody has still to do.
WorkOK(c) ==
  /\ c \in WorkRec /\ c.fn # "none" /\ c.agents # {}
  /\ c.fn # "sequential" => c.done = 0 /\ c.agents = {Min(c.agents)}
WorksTyped ==
  /\ queue \in Seq(WorkRec) /\ ready \in Nat /\ event \in BOOLEAN /\ worker \in [Agent -> WorkerRec]
  /\ \A k \in 1..Len(queue) : WorkOK(queue[k])
  /\ \A w \in Agent : Runs(w) =>
       /\ WorkOK(worker[w].work)
       /\ worker[w].pc # "run" => worker[w].work.fn # "wait"
       /\ worker[w].pc = "connect" => worker[w].todo \subseteq InWork(w)

\* An agent is in one work.
WorksApart ==
  /\ \A k, l \in 1..Len(queue) : k # l => queue[k].agents \cap queue[l].agents = {}
  /\ \A k \in 1..Len(queue), w \in Agent : Runs(w) => queue[k].agents \cap InWork(w) = {}
  /\ \A v, w \in Agent : v # w /\ Runs(v) /\ Runs(w) => InWork(v) \cap InWork(w) = {}

Lead(c) == Min(c.agents)
Leads   == {Lead(queue[k]) : k \in 1..Len(queue)} \cup {Lead(worker[w].work) : w \in {v \in Agent : Runs(v)}}
WorksCounted == works = Cardinality(Leads)

\* The agents that a work will connect to for the first time, or once more.
First(c) == c.fn # "sequential" \/ c.retries = 0
Queued(a) == \E k \in 1..Len(queue) : a \in queue[k].agents /\ First(queue[k])
ToConnect(a) ==
  \/ Queued(a)
  \/ \E w \in Agent : worker[w].pc = "run" /\ a \in InWork(w) /\ First(worker[w].work)
  \/ \E w \in Agent : worker[w].pc = "connect" /\ a \in worker[w].todo
Asking(a) == \E w \in Agent : worker[w].pc \in {"connect", "query", "mark"} /\ a \in InWork(w)
Asked(a)  == \E w \in Agent : worker[w].pc \in {"query", "mark"} /\ a \in InWork(w) /\ worker[w].sent > 0
\* The session looks, or will look, for answers.
Counted == main.pc \in Round \/ ready > main.reported

AgentOK(a) ==
  /\ agent[a].state # "UNUSED" => Untried(a)
  /\ agent[a].state = "RETRY" => agent[a].failure \/ a \in Blackhole
  /\ a \in Blackhole => Untried(a) /\ agent[a].state # "REPLY"
  /\ agent[a].success => ~agent[a].failure /\ merged[a] = 0 /\ main.pc \in Round
  /\ merged[a] = 1 => ~agent[a].success /\ ~agent[a].failure
  /\ ToConnect(a) => Untried(a) /\ agent[a].state \in {"UNUSED", "RETRY"}
  /\ agent[a].state \in Initial => Asking(a)
  /\ agent[a].state \in Answering => Counted \/ Asked(a)
  /\ Untried(a) /\ ~agent[a].failure /\ a \notin Blackhole =>
       main.pc = "take" \/ ToConnect(a) \/ agent[a].state \in Initial \cup Answering
AgentsOK == \A a \in Agent : AgentOK(a)

\* What a thread knows of the agents of its work.
ThreadOK(w) ==
  /\ worker[w].pc = "connect" /\ worker[w].work.fn = "parallel" => \A a \in InWork(w) \ worker[w].todo :
       /\ agent[a].state \notin Answering
       /\ agent[a].state = "UNUSED" => Untried(a) /\ (agent[a].failure \/ a \in Blackhole)
  /\ worker[w].pc = "mark" => \E a \in InWork(w) : worker[w].todo = {a} /\ agent[a].state = "QUERYED"
ThreadsOK == \A w \in Agent : ThreadOK(w)

MainOK ==
  /\ main.pc = "take" => queue = <<>> /\ works = 0 /\ ~main.done
  /\ main.pc \in {"take", "return", "end"} => \A w \in Agent : worker[w].pc = "exit"
  /\ main.reported <= ready
  /\ main.done /\ main.pc # "take" => works = 0
  /\ main.pc \in {"drop", "return", "end"} =>
       main.done /\ \A a \in Agent : agent[a].state \notin Answering /\ ~agent[a].success
  /\ main.pc \in {"return", "end"} => failures = {a \in Agent : agent[a].failure}
  /\ \A a \in Agent : agent[a].state = "REPLY" => main.pc \in {"poll", "body", "scan"}
  /\ main.pc = "body" => agent[main.cur].state = "REPLY"

Base0    == AgentTyped /\ MainTyped /\ PoolInv /\ SocketsOK
WorksInv == WorksTyped /\ WorksApart /\ WorksCounted
Inv      == Base0 /\ WorksInv /\ AgentsOK /\ ThreadsOK /\ MainOK

-----------------------------------------------------------------------------
(* Steps keep the types, the pool and the sockets. *)

\* What becomes of an agent whose connection is closed.
Shut(r) == IF r.sock = NoSock \/ r.state = "RETRY" THEN r.state ELSE "UNUSED"

LEMMA Outcomes ==
  ASSUME NEW r \in AgentRec
  PROVE  /\ Closed(r, TRUE) = [r EXCEPT !.sock = NoSock, !.state = Shut(r)]
         /\ Closed(r, FALSE) = [r EXCEPT !.sock = IF r.pers THEN r.sock ELSE NoSock, !.state = Shut(r)]
         /\ Failed(r) = [r EXCEPT !.sock = NoSock, !.state = Shut(r), !.failure = TRUE]
         /\ Retry(r) = [r EXCEPT !.sock = NoSock, !.state = "RETRY", !.failure = TRUE]
         /\ Closed(r, TRUE) \in AgentRec /\ Closed(r, FALSE) \in AgentRec
         /\ Failed(r) \in AgentRec /\ Retry(r) \in AgentRec
<1>1. r.state \in State /\ r.sock \in Fd \cup {NoSock} /\ r.pers \in BOOLEAN /\ r.success \in BOOLEAN
      /\ r.failure \in BOOLEAN
  BY DEF AgentRec
<1>2. r = [state |-> r.state, sock |-> r.sock, pers |-> r.pers, success |-> r.success, failure |-> r.failure]
  BY DEF AgentRec
<1>3. Shut(r) \in State /\ "RETRY" \in State
  BY <1>1 DEF Shut, State
<1>4. Closed(r, TRUE) = [r EXCEPT !.sock = NoSock, !.state = Shut(r)]
  BY <1>1, <1>2 DEF Closed, ClosesSock, Shut
<1>5. Closed(r, FALSE) = [r EXCEPT !.sock = IF r.pers THEN r.sock ELSE NoSock, !.state = Shut(r)]
  BY <1>1, <1>2 DEF Closed, ClosesSock, Shut
<1>6. Failed(r) = [r EXCEPT !.sock = NoSock, !.state = Shut(r), !.failure = TRUE]
  BY <1>4 DEF Failed
<1>7. Retry(r) = [r EXCEPT !.sock = NoSock, !.state = "RETRY", !.failure = TRUE]
  BY <1>2, <1>6 DEF Retry
<1> QED BY <1>1, <1>3, <1>4, <1>5, <1>6, <1>7 DEF AgentRec

\* Agents close connections, and send and read what is theirs.
LEMMA AgentsClose ==
  ASSUME PoolInv, AgentTyped, SocketsOK, AgentTyped', UNCHANGED <<conns, other, leaked>>, main.pc # "take",
         open' \subseteq open, unread' \subseteq open',
         \A f \in unread' \ unread : \E a \in Agent : agent'[a].sock = f,
         \A f \in open \ open' : \E a \in Agent : agent[a].sock = f /\ agent'[a].sock = NoSock,
         \A a \in Agent :
           /\ agent'[a].sock = agent[a].sock \/ (agent'[a].sock = NoSock /\ agent[a].sock \notin open')
           /\ agent'[a].pers => agent[a].pers
           /\ agent'[a].state \in Initial \cup Answering => agent'[a].sock # NoSock
           /\ agent'[a].sock \in unread' => agent'[a].state \in Answering
  PROVE  PoolInv' /\ SocketsOK'
<1>1. PoolInv'
  BY PoolCloses DEF Rents
<1>2. \A f \in unread' : \E a \in Agent : agent'[a].sock = f
  BY DEF SocketsOK
<1> QED BY <1>1, <1>2 DEF SocketsOK

\* An agent does.
LEMMA AgentCloses ==
  ASSUME PoolInv, AgentTyped, SocketsOK, UNCHANGED <<conns, other, leaked>>, main.pc # "take",
         NEW a \in Agent, NEW r \in AgentRec, Becomes(a, r),
         r.sock \in {agent[a].sock, NoSock}, r.pers = agent[a].pers,
         r.state \in Initial \cup Answering => r.sock # NoSock,
         r.sock \in unread => r.state \in Answering
  PROVE  AgentTyped' /\ PoolInv' /\ SocketsOK'
<1>1. AgentTyped' /\ agent'[a] = r /\ \A b \in Agent \ {a} : agent'[b] = agent[b]
  BY DEF AgentTyped, Becomes
<1>2. -1 \notin unread
  BY Numbers DEF SocketsOK, PoolInv, PoolTyped, SlotsTyped
<1>3. CASE r.sock = agent[a].sock
  <2>1. open' = open /\ unread' = unread
    BY <1>3 DEF Becomes, CloseFds
  <2>2. \A b \in Agent :
           /\ agent'[b].sock = agent[b].sock
           /\ agent'[b].pers => agent[b].pers
           /\ agent'[b].state \in Initial \cup Answering => agent'[b].sock # NoSock
           /\ agent'[b].sock \in unread' => agent'[b].state \in Answering
    BY <1>1, <1>3, <2>1 DEF SocketsOK
  <2> QED BY <1>1, <2>1, <2>2, AgentsClose DEF SocketsOK
<1>4. CASE r.sock # agent[a].sock
  <2>1. open' = open \ {agent[a].sock} /\ unread' = unread \ {agent[a].sock} /\ r.sock = NoSock
    BY <1>4 DEF Becomes, CloseFds
  <2>2. \A b \in Agent :
           /\ agent'[b].sock = agent[b].sock \/ (agent'[b].sock = NoSock /\ agent[b].sock \notin open')
           /\ agent'[b].pers => agent[b].pers
           /\ agent'[b].state \in Initial \cup Answering => agent'[b].sock # NoSock
           /\ agent'[b].sock \in unread' => agent'[b].state \in Answering
    BY <1>1, <1>2, <2>1, Numbers DEF SocketsOK
  <2>3. unread' \subseteq open' /\ open' \subseteq open /\ unread' \subseteq unread
    BY <2>1 DEF SocketsOK
  <2>4. \A f \in open \ open' : agent[a].sock = f /\ agent'[a].sock = NoSock
    BY <1>1, <2>1
  <2> QED BY <1>1, <2>2, <2>3, <2>4, AgentsClose
<1> QED BY <1>3, <1>4

LEMMA SocketsSame ==
  ASSUME SocketsOK, UNCHANGED <<open, unread, agent>>
  PROVE  SocketsOK'
BY DEF SocketsOK

LEMMA PoolSame ==
  ASSUME PoolInv, AgentTyped, SocketsOK, UNCHANGED <<poolVars, agent>>, \A a \in Agent : Rents(a)' => Rents(a)
  PROVE  AgentTyped' /\ PoolInv' /\ SocketsOK'
<1>1. SocketsOK' /\ AgentTyped'
  BY SocketsSame DEF poolVars, AgentTyped
<1>2. PoolInv'
  BY PoolCloses DEF poolVars
<1> QED BY <1>1, <1>2

\* A thread does something to the agents, or to none.
LEMMA MainSame ==
  ASSUME MainTyped, UNCHANGED mainSide, main.pc \notin {"take", "return", "end"} \/ UNCHANGED agent
  PROVE  MainTyped'
<1>1. CASE UNCHANGED agent
  BY <1>1 DEF MainTyped, mainSide, Untried
<1>2. CASE main.pc \notin {"take", "return", "end"}
  <2>1. UNCHANGED <<main, merged, failures>>
    BY DEF mainSide
  <2>2. /\ main' \in [pc : MainPc, next : 1..N + 1, done : BOOLEAN, reported : Nat,
               reg : SUBSET (Agent \ Blackhole), cur : Agent]
        /\ merged' \in [Agent -> 0..1] /\ failures' \subseteq Agent
    BY <2>1 DEF MainTyped
  <2>3. main'.pc \notin {"take", "return", "end"}
    BY <1>2, <2>1
  <2> QED BY <2>2, <2>3 DEF MainTyped
<1> QED BY <1>1, <1>2

LEMMA BaseThread ==
  ASSUME Base0, UNCHANGED <<poolVars, agent, mainSide>>
  PROVE  Base0'
<1>1. UNCHANGED main
  BY DEF mainSide
<1> QED BY <1>1, PoolSame, MainSame DEF Base0, Rents

\* The thread of the session goes on, and leaves the agents alone.
LEMMA BaseSession ==
  ASSUME Base0, UNCHANGED <<poolVars, agent>>, MainTyped', main.pc # "take"
  PROVE  Base0'
BY PoolSame DEF Base0, Rents

-----------------------------------------------------------------------------
(* What the threads do to the agents. *)

\* A thread has a connection made, or sees that it cannot.
LEMMA ConnectDoes ==
  ASSUME Base0, WorksTyped, AgentsOK, main.pc \notin {"take", "return", "end"}, NEW w \in Agent, Connect(w)
  PROVE  /\ Base0'
         /\ \E a \in worker[w].todo :
              /\ worker' = [worker EXCEPT ![w].todo = @ \ {a}]
              /\ \A b \in Agent \ {a} : agent'[b] = agent[b]
              /\ agent'[a].state \in Initial \cup {"UNUSED", "RETRY"}
              /\ agent'[a].state \notin Initial => agent'[a].failure
              /\ ~agent'[a].success
<1> DEFINE a == Min(worker[w].todo)
           r == [agent[a] EXCEPT !.state = "UNUSED"]
           fresh == [Closed(r, TRUE) EXCEPT !.success = FALSE]
           free  == Fd \ (open \ {r.sock})
           New(state) == [fresh EXCEPT !.sock = Min(free), !.state = state]
<1>1. a \in worker[w].todo /\ a \in Agent
  <2>1. worker[w].todo \in SUBSET Nat /\ worker[w].todo # {} /\ worker[w].todo \subseteq Agent
    BY SMTT(30), Numbers DEF Connect, WorksTyped, WorkerRec, Agent
  <2> QED BY <2>1, LeastIs
<1>2. worker' = [worker EXCEPT ![w].todo = @ \ {a}]
  BY DEF Connect
<1>3. \/ r.sock # NoSock /\ Becomes(a, [r EXCEPT !.state = "ESTABLISHED"])
      \/ Becomes(a, [fresh EXCEPT !.failure = TRUE])
      \/ Becomes(a, Retry(fresh))
      \/ /\ free # {}
         /\ \E state \in {"CONNECTING", "HANDSHAKE"} :
              /\ agent' = [agent EXCEPT ![a] = New(state)]
              /\ open' = (open \ {r.sock}) \cup {New(state).sock}
              /\ unread' = unread \ {r.sock}
  BY DEF Connect
<1>4. UNCHANGED <<conns, other, leaked, mainSide>>
  BY DEF Connect
<1> HIDE DEF a
<1>5. agent[a] \in AgentRec /\ ToConnect(a) /\ agent[a].state \in {"UNUSED", "RETRY"} /\ ~agent[a].success
  <2>1. ToConnect(a)
    BY <1>1 DEF ToConnect, Connect
  <2> QED BY <1>1, <2>1 DEF Base0, AgentTyped, AgentsOK, AgentOK, Untried
<1>6. r \in AgentRec /\ r.sock = agent[a].sock /\ r.pers = agent[a].pers /\ r.state = "UNUSED" /\ ~r.success
  BY <1>5 DEF AgentRec, State
<1> HIDE DEF r
<1>7. fresh = [r EXCEPT !.sock = NoSock, !.success = FALSE]
  <2>1. Shut(r) = "UNUSED" /\ r = [r EXCEPT !.state = "UNUSED"]
    BY <1>6 DEF Shut, AgentRec
  <2>2. Closed(r, TRUE) = [r EXCEPT !.sock = NoSock, !.state = "UNUSED"]
    BY <1>6, <2>1, Outcomes
  <2> QED BY <1>6, <2>1, <2>2 DEF AgentRec
<1>8. fresh \in AgentRec /\ fresh.sock = NoSock /\ fresh.pers = agent[a].pers /\ fresh.state = "UNUSED" /\ fresh.success = FALSE
  BY <1>6, <1>7 DEF AgentRec
<1> HIDE DEF fresh
<1>9. AgentTyped /\ PoolInv /\ SocketsOK /\ MainTyped /\ main.pc # "take" /\ MainTyped'
  BY <1>4, MainSame DEF Base0
<1>10. \A s \in {"UNUSED", "RETRY"} \cup Answering : s \notin Initial
  BY DEF Initial, Answering
<1>11. agent[a].sock \notin unread /\ NoSock \notin unread
  BY <1>1, <1>5, <1>9, Numbers DEF SocketsOK, Answering, PoolInv, PoolTyped, SlotsTyped
<1>12. ASSUME NEW n \in AgentRec, Becomes(a, n), n.sock \in {agent[a].sock, NoSock}, n.pers = agent[a].pers,
              n.state \in Initial \cup Answering => n.sock # NoSock,
              n.state \in Initial \cup {"UNUSED", "RETRY"}, n.state \notin Initial => n.failure, ~n.success
       PROVE  /\ Base0'
              /\ \A b \in Agent \ {a} : agent'[b] = agent[b]
              /\ agent'[a].state \in Initial \cup {"UNUSED", "RETRY"}
              /\ agent'[a].state \notin Initial => agent'[a].failure
              /\ ~agent'[a].success
  <2>1. AgentTyped' /\ PoolInv' /\ SocketsOK'
    BY <1>1, <1>4, <1>9, <1>11, <1>12, AgentCloses
  <2>2. agent'[a] = n /\ \A b \in Agent \ {a} : agent'[b] = agent[b]
    BY <1>1, <1>9, <1>12 DEF Becomes, AgentTyped
  <2> QED BY <1>9, <1>12, <2>1, <2>2 DEF Base0
<1>13. CASE r.sock # NoSock /\ Becomes(a, [r EXCEPT !.state = "ESTABLISHED"])
  <2> DEFINE n == [r EXCEPT !.state = "ESTABLISHED"]
  <2>1. n \in AgentRec /\ n.sock = agent[a].sock /\ n.sock # NoSock /\ n.pers = agent[a].pers /\ n.state = "ESTABLISHED" /\ ~n.success
    BY <1>6, <1>13 DEF AgentRec, State
  <2>2. Becomes(a, n)
    BY <1>13
  <2> HIDE DEF n
  <2>3. "ESTABLISHED" \in Initial
    BY DEF Initial
  <2> QED BY <1>1, <1>2, <1>12, <2>1, <2>2, <2>3
<1>14. CASE Becomes(a, [fresh EXCEPT !.failure = TRUE])
  <2> DEFINE n == [fresh EXCEPT !.failure = TRUE]
  <2>1. n \in AgentRec /\ n.sock = NoSock /\ n.pers = agent[a].pers /\ n.state = "UNUSED" /\ ~n.success /\ n.failure
    BY <1>8 DEF AgentRec
  <2>2. Becomes(a, n)
    BY <1>14
  <2> HIDE DEF n
  <2>3. "UNUSED" \notin Initial \cup Answering
    BY DEF Initial, Answering
  <2> QED BY <1>1, <1>2, <1>12, <2>1, <2>2, <2>3
<1>15. CASE Becomes(a, Retry(fresh))
  <2> DEFINE n == Retry(fresh)
  <2>1. n \in AgentRec /\ n = [fresh EXCEPT !.sock = NoSock, !.state = "RETRY", !.failure = TRUE]
    BY <1>8, Outcomes
  <2>2. Becomes(a, n)
    BY <1>15
  <2> HIDE DEF n
  <2>3. "RETRY" \notin Initial \cup Answering
    BY DEF Initial, Answering
  <2>4. n.sock = NoSock /\ n.pers = agent[a].pers /\ n.state = "RETRY" /\ ~n.success /\ n.failure
    BY <1>8, <2>1 DEF AgentRec
  <2> QED BY <1>1, <1>2, <1>12, <2>1, <2>2, <2>3, <2>4
<1>16. ASSUME free # {}, NEW state \in {"CONNECTING", "HANDSHAKE"}, agent' = [agent EXCEPT ![a] = New(state)],
              open' = (open \ {r.sock}) \cup {New(state).sock}, unread' = unread \ {r.sock}
       PROVE  /\ Base0'
              /\ \A b \in Agent \ {a} : agent'[b] = agent[b]
              /\ agent'[a].state \in Initial /\ ~agent'[a].success
  <2> DEFINE f == Min(free)  n == New(state)
  <2>1. f \in Fd /\ f \notin open \ {agent[a].sock}
    <3>1. free \in SUBSET Nat
      BY Numbers
    <3>2. f \in free
      BY <1>16, <3>1, LeastIs
    <3> QED BY <1>6, <3>2
  <2> HIDE DEF f, free
  <2>2. n \in AgentRec /\ n.sock = f /\ n.pers = agent[a].pers /\ n.state = state /\ ~n.success /\ f # NoSock
    BY ZenonT(60), <1>8, <2>1, Numbers DEF AgentRec, State, f
  <2>3. agent' = [agent EXCEPT ![a] = n] /\ open' = (open \ {agent[a].sock}) \cup {f} /\ unread' = unread
    BY <1>6, <1>11, <1>16, <2>2
  <2> HIDE DEF n
  <2>4. AgentTyped' /\ agent'[a] = n /\ \A b \in Agent \ {a} : agent'[b] = agent[b]
    BY <1>1, <1>9, <2>2, <2>3 DEF AgentTyped
  <2>5. \A b \in Agent : Rents(b)' => Rents(b)
    BY <1>4, <1>9, <2>2, <2>4 DEF Rents
  <2>6. PoolInv'
    BY <1>1, <1>4, <1>9, <2>1, <2>2, <2>3, <2>4, <2>5, PoolConnects
  <2>7. SocketsOK'
    <3>1. f \notin unread
      BY <1>9, <1>11, <2>1 DEF SocketsOK
    <3>2. unread' \subseteq open' /\ \A g \in unread' : \E b \in Agent : agent'[b].sock = g
      BY <1>1, <1>9, <1>11, <2>3, <2>4 DEF SocketsOK
    <3>3. \A b \in Agent :
            /\ agent'[b].state \in Initial \cup Answering => agent'[b].sock # NoSock
            /\ agent'[b].sock \in unread' => agent'[b].state \in Answering
      BY <1>1, <1>9, <2>2, <2>3, <2>4, <3>1 DEF SocketsOK
    <3> QED BY <3>2, <3>3 DEF SocketsOK
  <2> QED BY <1>9, <2>2, <2>4, <2>6, <2>7 DEF Base0, Initial
<1> QED BY <1>1, <1>2, <1>3, <1>13, <1>14, <1>15, <1>16

\* No socket at all: the state says whether there will be a retry.
LEMMA BaseState ==
  ASSUME Base0, UNCHANGED <<poolVars, mainSide>>, main.pc \notin {"take", "return", "end"},
         NEW a \in Agent, NEW s \in State, agent' = [agent EXCEPT ![a].state = s],
         s \in Answering => agent[a].state \in Answering, s \notin Initial,
         agent[a].state \in Answering => s \in Answering
  PROVE  Base0'
<1>1. agent' = [agent EXCEPT ![a] = [agent[a] EXCEPT !.state = s]] /\ agent[a] \in AgentRec
  BY DEF Base0, AgentTyped, AgentRec
<1> DEFINE n == [agent[a] EXCEPT !.state = s]
<1>2. n \in AgentRec /\ n.sock = agent[a].sock /\ n.pers = agent[a].pers /\ n.state = s
  BY <1>1 DEF AgentRec
<1>3. Becomes(a, n)
  BY <1>1, <1>2 DEF Becomes, CloseFds, poolVars
<1>4. (s \in Initial \cup Answering => n.sock # NoSock) /\ (n.sock \in unread => s \in Answering)
  BY <1>2 DEF Base0, SocketsOK
<1> HIDE DEF n
<1>5. AgentTyped' /\ PoolInv' /\ SocketsOK'
  BY <1>2, <1>3, <1>4, AgentCloses DEF Base0, poolVars
<1> QED BY <1>5, MainSame DEF Base0

\* A thread sees an event of an agent that it asks.
LEMMA QueryEventDoes ==
  ASSUME Base0, WorksTyped, main.pc \notin {"take", "return", "end"}, NEW w \in Agent, QueryEvent(w)
  PROVE  /\ Base0'
         /\ \E a \in InWork(w) :
              /\ \A b \in Agent \ {a} : agent'[b] = agent[b]
              /\ agent[a].state \in Initial /\ agent'[a].state \in Initial \cup {"UNUSED", "RETRY"}
              /\ agent'[a].state \notin Initial => agent'[a].failure
              /\ agent'[a].success = agent[a].success
              /\ agent[a].failure => agent'[a].failure
<1>1. PICK a \in Busy(w) :
         \/ Becomes(a, Failed(agent[a])) \/ Becomes(a, Retry(agent[a]))
         \/ Becomes(a, [agent[a] EXCEPT !.state = "HANDSHAKE"]) \/ Becomes(a, [agent[a] EXCEPT !.state = "ESTABLISHED"])
  BY DEF QueryEvent
<1>2. UNCHANGED <<conns, other, leaked, mainSide>>
  BY DEF QueryEvent
<1>3. a \in InWork(w) /\ a \in Agent /\ agent[a].state \in Initial /\ agent[a].state # "RETRY"
  BY <1>1 DEF Busy, Initial, InWork, WorksTyped, WorkerRec, WorkRec
<1>4. agent[a] \in AgentRec /\ agent[a].sock # NoSock /\ agent[a].sock \notin unread
  BY <1>3 DEF Base0, AgentTyped, SocketsOK, Initial, Answering
<1>5. MainTyped'
  BY <1>2, MainSame DEF Base0
<1>6. NoSock \notin unread
  BY Numbers DEF Base0, SocketsOK, PoolInv, PoolTyped, SlotsTyped
<1>7. ASSUME NEW n \in AgentRec, Becomes(a, n), n.sock \in {agent[a].sock, NoSock}, n.pers = agent[a].pers,
             n.state \in Initial => n.sock # NoSock, n.state \in Initial \cup {"UNUSED", "RETRY"},
             n.state \notin Initial => n.failure, n.success = agent[a].success, agent[a].failure => n.failure
      PROVE  /\ Base0'
             /\ \E b \in InWork(w) :
                  /\ \A c \in Agent \ {b} : agent'[c] = agent[c]
                  /\ agent[b].state \in Initial /\ agent'[b].state \in Initial \cup {"UNUSED", "RETRY"}
                  /\ agent'[b].state \notin Initial => agent'[b].failure
                  /\ agent'[b].success = agent[b].success
                  /\ agent[b].failure => agent'[b].failure
  <2>1. n.state \notin Answering
    BY <1>7 DEF Initial, Answering
  <2>2. AgentTyped' /\ PoolInv' /\ SocketsOK'
    BY <1>2, <1>3, <1>4, <1>6, <1>7, <2>1, AgentCloses DEF Base0
  <2>3. agent'[a] = n /\ \A b \in Agent \ {a} : agent'[b] = agent[b]
    BY <1>3, <1>7 DEF Becomes, Base0, AgentTyped
  <2> QED BY <1>3, <1>5, <1>7, <2>2, <2>3 DEF Base0
<1>8. CASE Becomes(a, Failed(agent[a]))
  <2> DEFINE n == Failed(agent[a])
  <2>1. n \in AgentRec /\ n.sock = NoSock /\ n.pers = agent[a].pers /\ n.state = "UNUSED" /\ n.failure
        /\ n.success = agent[a].success
    <3>1. Shut(agent[a]) = "UNUSED"
      BY <1>3, <1>4, <1>8 DEF Shut, Base0, AgentTyped
    <3>2. n \in AgentRec /\ n = [agent[a] EXCEPT !.sock = NoSock, !.state = "UNUSED", !.failure = TRUE]
      BY <1>4, <3>1, Outcomes
    <3> HIDE DEF n
    <3> QED BY <1>4, <3>2 DEF AgentRec
  <2> HIDE DEF n
  <2>2. "UNUSED" \notin Initial
    BY DEF Initial
  <2> QED BY <1>7, <1>8, <2>1, <2>2 DEF n
<1>9. CASE Becomes(a, Retry(agent[a]))
  <2> DEFINE n == Retry(agent[a])
  <2>1. n \in AgentRec /\ n.sock = NoSock /\ n.pers = agent[a].pers /\ n.state = "RETRY" /\ n.failure
        /\ n.success = agent[a].success
    <3>1. n \in AgentRec /\ n = [agent[a] EXCEPT !.sock = NoSock, !.state = "RETRY", !.failure = TRUE]
      BY <1>4, Outcomes
    <3> HIDE DEF n
    <3> QED BY <1>4, <3>1 DEF AgentRec
  <2> HIDE DEF n
  <2>2. "RETRY" \notin Initial
    BY DEF Initial
  <2> QED BY <1>7, <1>9, <2>1, <2>2 DEF n
<1>10. ASSUME NEW s \in {"HANDSHAKE", "ESTABLISHED"}, Becomes(a, [agent[a] EXCEPT !.state = s])
       PROVE  /\ Base0'
             /\ \E b \in InWork(w) :
                  /\ \A c \in Agent \ {b} : agent'[c] = agent[c]
                  /\ agent[b].state \in Initial /\ agent'[b].state \in Initial \cup {"UNUSED", "RETRY"}
                  /\ agent'[b].state \notin Initial => agent'[b].failure
                  /\ agent'[b].success = agent[b].success
                  /\ agent[b].failure => agent'[b].failure
  <2> DEFINE n == [agent[a] EXCEPT !.state = s]
  <2>1. n \in AgentRec /\ n.sock = agent[a].sock /\ n.pers = agent[a].pers /\ n.state = s
        /\ n.success = agent[a].success /\ n.failure = agent[a].failure
    BY <1>4 DEF AgentRec, State
  <2>2. s \in Initial
    BY DEF Initial
  <2>3. Becomes(a, n)
    BY <1>10
  <2> HIDE DEF n
  <2> QED BY <1>4, <1>7, <2>1, <2>2, <2>3
<1> QED BY <1>1, <1>8, <1>9, <1>10

\* A thread sends the query to an agent.
LEMMA QuerySendDoes ==
  ASSUME Base0, WorksTyped, main.pc \notin {"take", "return", "end"}, NEW w \in Agent, QuerySend(w)
  PROVE  /\ Base0'
         /\ \E a \in InWork(w) :
              agent[a].state = "ESTABLISHED" /\ agent' = [agent EXCEPT ![a].state = "QUERYED"]
<1>1. PICK a \in Busy(w) : /\ agent[a].state = "ESTABLISHED"
                           /\ agent' = [agent EXCEPT ![a].state = "QUERYED"]
                           /\ unread' = unread \cup {agent[a].sock}
  BY DEF QuerySend
<1>2. UNCHANGED <<conns, open, other, leaked, mainSide>>
  BY DEF QuerySend
<1>3. a \in InWork(w) /\ a \in Agent
  BY <1>1 DEF Busy, InWork, WorksTyped, WorkerRec, WorkRec
<1>4. agent[a] \in AgentRec /\ agent[a].sock # NoSock /\ agent[a].sock \in open
  BY <1>1, <1>3 DEF Base0, AgentTyped, SocketsOK, Initial, PoolInv, OwnersApart, Own
<1>5. \A b \in Agent : agent[b].sock = agent[a].sock => a = b
  BY <1>3, <1>4 DEF Base0, PoolInv, OwnersApart
<1>6. AgentTyped' /\ agent'[a].state = "QUERYED" /\ agent'[a].pers = agent[a].pers
      /\ \A b \in Agent : agent'[b].sock = agent[b].sock /\ (b # a => agent'[b] = agent[b])
  BY <1>1, <1>3, <1>4 DEF Base0, AgentTyped, AgentRec, State
<1>7. "QUERYED" \in Answering
  BY DEF Answering
<1>8. \A b \in Agent :
         /\ agent'[b].pers => agent[b].pers
         /\ agent'[b].state \in Initial \cup Answering => agent'[b].sock # NoSock
         /\ agent'[b].sock \in unread' => agent'[b].state \in Answering
  <2> SUFFICES ASSUME NEW b \in Agent
               PROVE  /\ agent'[b].pers => agent[b].pers
                      /\ agent'[b].state \in Initial \cup Answering => agent'[b].sock # NoSock
                      /\ agent'[b].sock \in unread' => agent'[b].state \in Answering
    OBVIOUS
  <2>1. CASE b = a
    BY <1>4, <1>6, <1>7, <2>1
  <2>2. CASE b # a
    BY <1>1, <1>5, <1>6, <2>2 DEF Base0, SocketsOK
  <2> QED BY <2>1, <2>2
<1>9. unread' \subseteq open' /\ \A f \in unread' \ unread : agent'[a].sock = f
  BY <1>1, <1>2, <1>3, <1>4, <1>6 DEF Base0, SocketsOK
<1>10. PoolInv' /\ SocketsOK'
  BY <1>2, <1>3, <1>6, <1>8, <1>9, AgentsClose DEF Base0
<1> QED BY <1>1, <1>2, <1>3, <1>6, <1>10, MainSame DEF Base0

\* What becomes of a work about one agent that has not been asked.
LEMMA NextRetryIs ==
  ASSUME NEW c \in WorkRec, WorkOK(c), c.fn = "parallel"
  PROVE  /\ NextRetry(c) \in WorkRec /\ NextRetry(c).agents = c.agents /\ NextRetry(c).done = 0
         /\ MayRetry(c) => NextRetry(c).fn = "wait" /\ WorkOK(NextRetry(c))
         /\ ~MayRetry(c) => NextRetry(c).fn = "none"
<1>1. c.done = 0 /\ c.agents = {Min(c.agents)} /\ c.agents # {} /\ c.agents \in SUBSET Agent /\ c.retries + 1 \in Nat
  BY DEF WorkOK, WorkRec
<1>2. CASE MayRetry(c)
  <2> DEFINE n == [c EXCEPT !.fn = "wait", !.retries = @ + 1, !.late = FALSE]
  <2>1. n \in WorkRec /\ n.agents = c.agents /\ n.done = 0 /\ n.fn = "wait"
    BY <1>1 DEF WorkRec
  <2>2. NextRetry(c) = n
    BY <1>2 DEF NextRetry
  <2> HIDE DEF n
  <2>3. WorkOK(n)
    BY <1>1, <2>1 DEF WorkOK
  <2> QED BY <1>2, <2>1, <2>2, <2>3
<1>3. CASE ~MayRetry(c)
  BY <1>1, <1>3 DEF NextRetry, WorkRec
<1> QED BY <1>2, <1>3

\* A thread has connected to all agents of its work, or gives up an agent without a socket.
LEMMA ConnectedDoes ==
  ASSUME Base0, WorksTyped, main.pc \notin {"take", "return", "end"}, NEW w \in Agent, Connected(w)
  PROVE  /\ Base0'
         /\ \/ /\ worker' = [worker EXCEPT ![w].pc = "query"]
               /\ UNCHANGED <<agent, queue, works, ready, event>>
            \/ \E a \in Agent, s \in {"RETRY", "UNUSED"} :
                 /\ worker[w].work.fn = "parallel" /\ InWork(w) = {a} /\ agent[a].state = "UNUSED"
                 /\ agent' = [agent EXCEPT ![a].state = s]
                 /\ Returned(w, NextRetry(worker[w].work))
<1> DEFINE c == worker[w].work  one == Min(c.agents)
<1>1. WorkOK(c) /\ c \in WorkRec /\ UNCHANGED <<poolVars, mainSide>>
  BY DEF Connected, WorksTyped, WorkerRec, Runs, Running
<1>2. CASE c.fn = "parallel" /\ agent[one].state = "UNUSED"
  <2>1. PICK s \in {"RETRY", "UNUSED"} : agent' = [agent EXCEPT ![one].state = s] /\ Returned(w, NextRetry(c))
    BY <1>2 DEF Connected
  <2>2. c.agents = {one} /\ one \in Agent
    BY <1>1, <1>2 DEF WorkOK, WorkRec
  <2> HIDE DEF one
  <2>3. s \in State /\ s \notin Initial \cup Answering /\ "UNUSED" \notin Answering
    BY DEF State, Initial, Answering
  <2>4. Base0'
    BY <1>1, <1>2, <2>1, <2>2, <2>3, BaseState DEF one
  <2> QED BY <1>2, <2>1, <2>2, <2>4 DEF InWork, one
<1>3. CASE ~(c.fn = "parallel" /\ agent[one].state = "UNUSED")
  <2>1. /\ worker' = [worker EXCEPT ![w].pc = "query"]
        /\ UNCHANGED <<agent, queue, works, ready, event>>
    BY <1>3 DEF Connected
  <2> QED BY <1>1, <2>1, BaseThread
<1> QED BY <1>2, <1>3

\* A thread has asked the agents of its work: those that it could not are left for a retry,
\* and those it has are announced.
LEMMA QueryDoneDoes ==
  ASSUME Base0, WorksTyped, main.pc \notin {"take", "return", "end"}, NEW w \in Agent, QueryDone(w)
  PROVE  /\ Base0'
         /\ \A a \in Agent \ InWork(w) : agent'[a] = agent[a]
         /\ \A a \in InWork(w) :
              /\ agent'[a].success = agent[a].success
              /\ agent'[a].failure <=> agent[a].failure \/ agent[a].state \in Initial
              /\ agent[a].state \in Answering => agent'[a].state = agent[a].state
              /\ agent[a].state \notin Answering => agent'[a].state \in {"UNUSED", "RETRY"}
              /\ agent'[a].state = "RETRY" => agent'[a].failure \/ agent[a].state = "RETRY"
              /\ agent[a].state = "UNUSED" => agent'[a].state = "UNUSED"
         /\ \E c \in WorkRec :
              /\ Returned(w, c) /\ c.agents = InWork(w)
              /\ \/ c.fn = "none"
                 \/ c.fn = "wait" /\ WorkOK(c) /\ \A a \in InWork(w) : agent[a].state \in Initial \cup {"RETRY"}
                 \/ c.fn = "sequential" /\ WorkOK(c) /\ c.retries > 0
              /\ worker[w].sent > 0 /\ (\E a \in InWork(w) : agent[a].state \in Answering) => c.done > 0
<1> DEFINE late == Busy(w)
           left == [a \in Agent |-> IF a \in late THEN Retry(agent[a]) ELSE agent[a]]
           c    == worker[w].work
           again == \E a \in InWork(w) : left[a].state = "RETRY"
           one  == Min(c.agents)
           tries == c.retries + IF again THEN 1 ELSE 0
           n == [c EXCEPT !.done = @ + worker[w].sent, !.retries = tries,
                     !.fn = IF again /\ RetriesMax > 0 /\ tries <= RetriesMax THEN "sequential" ELSE "none"]
           d == [c EXCEPT !.fn = "none", !.done = 1]
<1>1. /\ c \in WorkRec /\ WorkOK(c) /\ c.fn \in {"parallel", "sequential"} /\ c.agents = InWork(w)
      /\ c.agents \subseteq Agent /\ worker[w].sent \in Nat
  BY DEF QueryDone, WorksTyped, WorkerRec, WorkRec, Runs, Running, InWork, WorkOK
<1>2. late \subseteq Agent /\ late \subseteq InWork(w) /\ \A a \in InWork(w) : a \in late <=> agent[a].state \in Initial
  BY <1>1 DEF Busy
<1>3. UNCHANGED <<conns, other, leaked, mainSide>> /\ CloseFds({agent[a].sock : a \in late})
  BY DEF QueryDone
<1>4. \/ c.fn = "parallel" /\ again /\ (\E s \in {"RETRY", "UNUSED"} : agent' = [left EXCEPT ![one].state = s]
           /\ (s = "RETRY" <=> MayRetry(c))) /\ Returned(w, NextRetry(c))
      \/ c.fn = "parallel" /\ ~again /\ agent' = left /\ Returned(w, d)
      \/ c.fn = "sequential" /\ agent' = left /\ Returned(w, n)
  BY <1>1 DEF QueryDone
<1> HIDE DEF late
<1>5. \A a \in Agent : agent[a] \in AgentRec
  BY DEF Base0, AgentTyped
<1>6. left \in [Agent -> AgentRec] /\ \A a \in Agent :
        /\ a \notin late => left[a] = agent[a]
        /\ a \in late => left[a] = [agent[a] EXCEPT !.sock = NoSock, !.state = "RETRY", !.failure = TRUE]
  BY <1>2, <1>5, Outcomes
<1> HIDE DEF left
<1>7. \A a \in Agent :
        /\ left[a].success = agent[a].success /\ left[a].pers = agent[a].pers
        /\ a \notin late => left[a].sock = agent[a].sock /\ left[a].state = agent[a].state /\ left[a].failure = agent[a].failure
        /\ a \in late => left[a].sock = NoSock /\ left[a].state = "RETRY" /\ left[a].failure
  <2> SUFFICES ASSUME NEW a \in Agent
               PROVE  /\ left[a].success = agent[a].success /\ left[a].pers = agent[a].pers
                      /\ a \notin late => left[a].sock = agent[a].sock /\ left[a].state = agent[a].state /\ left[a].failure = agent[a].failure
                      /\ a \in late => left[a].sock = NoSock /\ left[a].state = "RETRY" /\ left[a].failure
    OBVIOUS
  <2>1. CASE a \notin late
    BY <1>6, <2>1
  <2>2. CASE a \in late
    <3>1. left[a] = [agent[a] EXCEPT !.sock = NoSock, !.state = "RETRY", !.failure = TRUE] /\ agent[a] \in AgentRec
      BY <1>5, <1>6, <2>2
    <3> QED BY <2>2, <3>1 DEF AgentRec
  <2> QED BY <2>1, <2>2
<1>8. \A s \in {"UNUSED", "RETRY"} : s \notin Initial \cup Answering
  BY DEF Initial, Answering
<1>9. \A a \in Agent : agent[a].state \in State /\ State = Initial \cup Answering \cup {"UNUSED", "RETRY"}
      /\ Initial \cap Answering = {}
  BY <1>5 DEF AgentRec, State, Initial, Answering
<1>10. AgentTyped' /\ \A a \in Agent :
         /\ agent'[a].success = left[a].success /\ agent'[a].pers = left[a].pers /\ agent'[a].sock = left[a].sock
         /\ agent'[a].failure = left[a].failure
         /\ \/ agent'[a] = left[a]
            \/ a \in InWork(w) /\ left[a].state = "RETRY" /\ agent'[a].state \in {"UNUSED", "RETRY"}
  <2>1. CASE agent' = left
    BY <1>6, <2>1 DEF AgentTyped
  <2>2. ASSUME c.fn = "parallel", again, NEW s \in {"RETRY", "UNUSED"}, agent' = [left EXCEPT ![one].state = s]
        PROVE  AgentTyped' /\ \A a \in Agent :
                 /\ agent'[a].success = left[a].success /\ agent'[a].pers = left[a].pers /\ agent'[a].sock = left[a].sock
                 /\ agent'[a].failure = left[a].failure
                 /\ \/ agent'[a] = left[a]
                    \/ a \in InWork(w) /\ left[a].state = "RETRY" /\ agent'[a].state \in {"UNUSED", "RETRY"}
    <3>1. InWork(w) = {one} /\ one \in Agent /\ left[one].state = "RETRY" /\ s \in State
      BY <1>1, <2>2 DEF WorkOK, State
    <3> HIDE DEF one, again
    <3>2. left[one] \in AgentRec /\ agent'[one] = [left[one] EXCEPT !.state = s] /\ \A a \in Agent \ {one} : agent'[a] = left[a]
      BY <1>6, <2>2, <3>1
    <3>3. /\ agent'[one] \in AgentRec /\ agent'[one].state = s /\ agent'[one].success = left[one].success
          /\ agent'[one].pers = left[one].pers /\ agent'[one].sock = left[one].sock /\ agent'[one].failure = left[one].failure
      BY <3>1, <3>2 DEF AgentRec
    <3>4. AgentTyped'
      BY <1>6, <2>2, <3>1, <3>3 DEF AgentTyped
    <3>5. ASSUME NEW a \in Agent
          PROVE  /\ agent'[a].success = left[a].success /\ agent'[a].pers = left[a].pers /\ agent'[a].sock = left[a].sock
                 /\ agent'[a].failure = left[a].failure
                 /\ \/ agent'[a] = left[a]
                    \/ a \in InWork(w) /\ left[a].state = "RETRY" /\ agent'[a].state \in {"UNUSED", "RETRY"}
      <4>1. CASE a = one
        BY <2>2, <3>1, <3>3, <4>1
      <4>2. CASE a # one
        BY <3>2, <4>2
      <4> QED BY <4>1, <4>2
    <3> QED BY <3>4, <3>5
  <2> HIDE DEF one, again, n, d
  <2> QED BY <1>4, <2>1, <2>2
<1>11. Base0'
  <2>1. open' = open \ {agent[a].sock : a \in late} /\ unread' = unread \ {agent[a].sock : a \in late}
    BY <1>3 DEF CloseFds
  <2>2. unread' \subseteq open' /\ open' \subseteq open /\ unread' \subseteq unread
    BY <2>1 DEF Base0, SocketsOK
  <2>3. \A f \in open \ open' : \E a \in Agent : agent[a].sock = f /\ agent'[a].sock = NoSock
    BY <1>2, <1>7, <1>10, <2>1
  <2>4. NoSock \notin unread
    BY Numbers DEF Base0, SocketsOK, PoolInv, PoolTyped, SlotsTyped
  <2>5. ASSUME NEW a \in Agent
        PROVE  /\ agent'[a].sock = agent[a].sock \/ (agent'[a].sock = NoSock /\ agent[a].sock \notin open')
               /\ agent'[a].pers => agent[a].pers
               /\ agent'[a].state \in Initial \cup Answering => agent'[a].sock # NoSock
               /\ agent'[a].sock \in unread' => agent'[a].state \in Answering
    <3>1. CASE a \in late
      BY <1>7, <1>8, <1>10, <2>1, <2>2, <2>4, <3>1
    <3>2. CASE a \notin late /\ agent'[a] = agent[a]
      BY <2>2, <3>2 DEF Base0, SocketsOK
    <3>3. CASE a \notin late /\ agent'[a] # agent[a]
      <4>1. agent[a].state = "RETRY" /\ agent'[a].state \in {"UNUSED", "RETRY"} /\ agent'[a].sock = agent[a].sock
            /\ agent'[a].pers = agent[a].pers
        <5>1. left[a] = agent[a]
          BY <1>6, <3>3
        <5> QED BY <1>10, <3>3, <5>1
      <4> QED BY <1>8, <2>2, <4>1 DEF Base0, SocketsOK
    <3> QED BY <3>1, <3>2, <3>3
  <2>6. PoolInv' /\ SocketsOK'
    BY <1>3, <1>10, <2>2, <2>3, <2>5, AgentsClose DEF Base0
  <2> QED BY <1>3, <1>10, <2>6, MainSame DEF Base0
<1>12. \A a \in Agent \ InWork(w) : agent'[a] = agent[a]
  BY <1>2, <1>6, <1>10
<1>13. ASSUME NEW a \in InWork(w)
       PROVE  /\ agent'[a].success = agent[a].success
              /\ agent'[a].failure <=> agent[a].failure \/ agent[a].state \in Initial
              /\ agent[a].state \in Answering => agent'[a].state = agent[a].state
              /\ agent[a].state \notin Answering => agent'[a].state \in {"UNUSED", "RETRY"}
              /\ agent'[a].state = "RETRY" => agent'[a].failure \/ agent[a].state = "RETRY"
              /\ agent[a].state = "UNUSED" => agent'[a].state = "UNUSED"
  <2>1. a \in Agent
    BY <1>1, <1>13
  <2>2. CASE a \in late
    <3>1. agent[a].state \in Initial /\ agent[a].state \notin Answering /\ agent[a].state \notin {"UNUSED", "RETRY"}
      BY <1>2, <1>8, <1>9, <2>1, <2>2
    <3>2. agent'[a].success = agent[a].success /\ agent'[a].failure /\ agent'[a].state \in {"UNUSED", "RETRY"}
      BY <1>7, <1>10, <2>1, <2>2
    <3> QED BY <3>1, <3>2
  <2>3. CASE a \notin late
    BY <1>2, <1>7, <1>8, <1>9, <1>10, <2>1, <2>3
  <2> QED BY <2>2, <2>3
<1>14. \E m \in WorkRec :
              /\ Returned(w, m) /\ m.agents = InWork(w)
              /\ \/ m.fn = "none"
                 \/ m.fn = "wait" /\ WorkOK(m) /\ \A a \in InWork(w) : agent[a].state \in Initial \cup {"RETRY"}
                 \/ m.fn = "sequential" /\ WorkOK(m) /\ m.retries > 0
              /\ worker[w].sent > 0 /\ (\E a \in InWork(w) : agent[a].state \in Answering) => m.done > 0
  <2>1. CASE c.fn = "parallel" /\ again /\ Returned(w, NextRetry(c))
    <3>1. \A a \in InWork(w) : left[a].state = "RETRY"
      BY <1>1, <2>1 DEF WorkOK
    <3>2. \A a \in InWork(w) : agent[a].state \in Initial \cup {"RETRY"}
      BY <1>1, <1>2, <1>7, <3>1
    <3> HIDE DEF c, again
    <3>3. NextRetry(c) \in WorkRec /\ NextRetry(c).agents = InWork(w)
          /\ (NextRetry(c).fn = "none" \/ (NextRetry(c).fn = "wait" /\ WorkOK(NextRetry(c))))
      BY <1>1, <2>1, NextRetryIs
    <3>4. ~ \E a \in InWork(w) : agent[a].state \in Answering
      BY <1>8, <1>9, <3>2
    <3> QED BY <2>1, <3>2, <3>3, <3>4
  <2>2. CASE c.fn = "parallel" /\ ~again /\ Returned(w, d)
    <3>1. d \in WorkRec /\ d.agents = InWork(w) /\ d.fn = "none" /\ d.done = 1
      BY <1>1 DEF WorkRec
    <3> HIDE DEF d
    <3> QED BY <2>2, <3>1
  <2>3. CASE c.fn = "sequential" /\ Returned(w, n)
    <3>1. c.retries \in Nat /\ c.done \in Nat
      BY <1>1 DEF WorkRec
    <3>2. tries \in Nat /\ (again => tries > 0)
      BY <3>1
    <3> HIDE DEF tries, again
    <3>3. n \in WorkRec /\ n.agents = InWork(w) /\ n.done = c.done + worker[w].sent /\ n.retries = tries
          /\ (n.fn = "none" \/ (again /\ n.fn = "sequential"))
      <4> DEFINE f == IF again /\ RetriesMax > 0 /\ tries <= RetriesMax THEN "sequential" ELSE "none"
                 e == c.done + worker[w].sent
      <4>1. f \in {"sequential", "none"} /\ (f = "none" \/ again) /\ e \in Nat
        BY <1>1, <3>1
      <4>2. n = [c EXCEPT !.done = e, !.retries = tries, !.fn = f]
        OBVIOUS
      <4>3. c \in [agents : SUBSET Agent, fn : {"parallel", "sequential", "wait", "none"}, retries : Nat,
                   late : BOOLEAN, done : Nat]
        BY <1>1 DEF WorkRec
      <4> HIDE DEF f, e, n, c
      <4>4. n \in WorkRec /\ n.agents = c.agents /\ n.done = e /\ n.retries = tries /\ n.fn = f
        BY <3>2, <4>1, <4>2, <4>3 DEF WorkRec
      <4> QED BY <1>1, <4>1, <4>4 DEF e
    <3> HIDE DEF n
    <3>4. n.fn = "sequential" => WorkOK(n)
      BY <1>1, <3>3 DEF WorkOK
    <3> QED BY <1>1, <2>3, <3>1, <3>2, <3>3, <3>4
  <2> HIDE DEF c, again, n, d
  <2> QED BY <1>4, <2>1, <2>2, <2>3
<1> QED BY <1>11, <1>12, <1>13, <1>14

-----------------------------------------------------------------------------
(* What the thread of the session does. *)

MainRec == [pc : MainPc, next : 1..N + 1, done : BOOLEAN, reported : Nat, reg : SUBSET (Agent \ Blackhole), cur : Agent]

LEMMA MainGoes ==
  ASSUME MainTyped, main' \in MainRec, merged' \in [Agent -> 0..1], failures' \subseteq Agent,
         main'.pc \notin {"take", "end"}, main'.pc = "return" => main'.next = 1
  PROVE  MainTyped'
<1>1. \A a \in Agent : ~(a < 1)
  BY DEF Agent
<1> QED BY <1>1 DEF MainTyped, MainRec

Watching ==
  WaitAgentsEvent \/ SpuriousWakeup \/ IsDone \/ HasReadyAgents \/ Scan \/ PollTimeout \/ ReplyPart \/ DropAgents

LEMMA WatchingDoes ==
  ASSUME Base0, WorksTyped, Watching
  PROVE  Base0'
<1>1. UNCHANGED <<poolVars, agent, merged>> /\ main.pc # "take" /\ failures' \subseteq Agent
  BY DEF Watching, WaitAgentsEvent, SpuriousWakeup, IsDone, HasReadyAgents, Scan, PollTimeout, ReplyPart, DropAgents, Base0, MainTyped
<1>2. main \in MainRec /\ merged \in [Agent -> 0..1] /\ ready \in Nat
  BY DEF Base0, MainTyped, MainRec, WorksTyped
<1>3. 1 \in 1..N + 1
  BY Numbers
<1>4. main' \in MainRec /\ main'.pc \notin {"take", "end"} /\ (main'.pc = "return" => main'.next = 1)
  <2>1. CASE WaitAgentsEvent \/ SpuriousWakeup
    BY <1>2, <2>1 DEF WaitAgentsEvent, SpuriousWakeup, MainRec, MainPc
  <2>2. CASE IsDone
    BY <1>2, <2>2 DEF IsDone, MainRec, MainPc
  <2>3. CASE HasReadyAgents
    BY <1>2, <2>3 DEF HasReadyAgents, AfterRound, MainRec, MainPc
  <2>4. CASE Scan
    BY <1>2, <2>4 DEF Scan, MainRec, MainPc
  <2>5. CASE PollTimeout \/ ReplyPart
    BY <1>2, <2>5 DEF PollTimeout, ReplyPart, MainRec, MainPc
  <2>6. CASE DropAgents
    BY <1>2, <1>3, <2>6 DEF DropAgents, MainRec, MainPc
  <2> QED BY <2>1, <2>2, <2>3, <2>4, <2>5, <2>6 DEF Watching
<1>5. MainTyped'
  BY <1>1, <1>2, <1>4, MainGoes DEF Base0
<1> QED BY <1>1, <1>5, BaseSession

LEMMA UnwatchIs ==
  ASSUME main \in MainRec, NEW a \in Agent
  PROVE  /\ Unwatch(a) \in MainRec /\ Unwatch(a).pc \in {"scan", "poll"}
         /\ Unwatch(a).reported = main.reported /\ Unwatch(a).done = main.done
BY DEF Unwatch, MainRec, MainPc

\* The header of a reply comes, or its connection fails.
LEMMA ReplyHeaderDoes ==
  ASSUME Base0, NEW a \in Agent, ReplyHeader(a)
  PROVE  /\ Base0' /\ a \notin Blackhole /\ \A b \in Agent \ {a} : agent'[b] = agent[b]
         /\ agent'[a].success = agent[a].success
         /\ \/ agent'[a].state = "UNUSED" /\ agent'[a].failure /\ main' = Unwatch(a)
            \/ agent'[a].state = "REPLY" /\ agent'[a].failure = agent[a].failure
               /\ main' = [main EXCEPT !.pc = "body", !.cur = a]
<1>1. main \in MainRec /\ merged \in [Agent -> 0..1] /\ failures \subseteq Agent /\ main.pc = "poll" /\ a \in main.reg
      /\ agent[a].state \in {"QUERYED", "PREREPLY"} /\ UNCHANGED <<conns, other, leaked, merged, failures>>
  BY DEF Base0, MainTyped, MainRec, ReplyHeader
<1>2. a \notin Blackhole
  BY <1>1 DEF MainRec
<1>3. agent[a] \in AgentRec /\ agent[a].sock # NoSock
  BY <1>1 DEF Base0, AgentTyped, SocketsOK, Answering
<1>4. NoSock \notin unread
  BY Numbers DEF Base0, SocketsOK, PoolInv, PoolTyped, SlotsTyped
<1>5. CASE Becomes(a, Failed(agent[a])) /\ main' = Unwatch(a)
  <2> DEFINE n == Failed(agent[a])
  <2>1. n \in AgentRec /\ n = [agent[a] EXCEPT !.sock = NoSock, !.state = "UNUSED", !.failure = TRUE]
    <3>1. Shut(agent[a]) = "UNUSED"
      BY <1>1, <1>3 DEF Shut
    <3> QED BY <1>3, <3>1, Outcomes
  <2>2. Becomes(a, n)
    BY <1>5
  <2> HIDE DEF n
  <2>3. n.sock = NoSock /\ n.pers = agent[a].pers /\ n.state = "UNUSED" /\ n.failure /\ n.success = agent[a].success
    BY <1>3, <2>1 DEF AgentRec
  <2>4. "UNUSED" \notin Initial \cup Answering
    BY DEF Initial, Answering
  <2>5. AgentTyped' /\ PoolInv' /\ SocketsOK'
    BY <1>1, <1>4, <2>1, <2>2, <2>3, <2>4, AgentCloses DEF Base0
  <2>6. agent'[a] = n /\ \A b \in Agent \ {a} : agent'[b] = agent[b]
    BY <2>2 DEF Becomes, Base0, AgentTyped
  <2>7. MainTyped'
    BY <1>1, <1>5, UnwatchIs, MainGoes DEF Base0
  <2> QED BY <1>2, <1>5, <2>3, <2>5, <2>6, <2>7 DEF Base0
<1>6. CASE Becomes(a, [agent[a] EXCEPT !.state = "REPLY"]) /\ main' = [main EXCEPT !.pc = "body", !.cur = a]
  <2> DEFINE n == [agent[a] EXCEPT !.state = "REPLY"]
  <2>1. n \in AgentRec /\ n.sock = agent[a].sock /\ n.pers = agent[a].pers /\ n.state = "REPLY"
        /\ n.failure = agent[a].failure /\ n.success = agent[a].success
    BY <1>3 DEF AgentRec, State
  <2>2. Becomes(a, n)
    BY <1>6
  <2> HIDE DEF n
  <2>3. "REPLY" \in Answering
    BY DEF Answering
  <2>4. AgentTyped' /\ PoolInv' /\ SocketsOK'
    BY <1>1, <1>3, <2>1, <2>2, <2>3, AgentCloses DEF Base0
  <2>5. agent'[a] = n /\ \A b \in Agent \ {a} : agent'[b] = agent[b]
    BY <2>2 DEF Becomes, Base0, AgentTyped
  <2>6. main' \in MainRec /\ main'.pc = "body"
    BY <1>1, <1>6 DEF MainRec, MainPc
  <2>7. MainTyped'
    BY <1>1, <2>6, MainGoes DEF Base0
  <2> QED BY <1>2, <1>6, <2>1, <2>4, <2>5, <2>7 DEF Base0
<1> QED BY <1>5, <1>6 DEF ReplyHeader

\* The rest of a reply comes: results, an error, or a wish to be asked again.
LEMMA ReplyBodyDoes ==
  ASSUME Base0, NEW a \in Agent, ReplyBody(a)
  PROVE  /\ Base0' /\ \A b \in Agent \ {a} : agent'[b] = agent[b]
         /\ main.pc \in {"poll", "body"} /\ main' = Unwatch(a) /\ agent[a].state = "REPLY"
         /\ \/ agent'[a].state = "UNUSED" /\ agent'[a].success /\ ~agent'[a].failure
            \/ agent'[a].state \in {"UNUSED", "RETRY"} /\ agent'[a].failure /\ agent'[a].success = agent[a].success
<1>1. main \in MainRec /\ merged \in [Agent -> 0..1] /\ failures \subseteq Agent /\ main.pc \in {"poll", "body"}
      /\ agent[a].state = "REPLY" /\ UNCHANGED <<conns, other, leaked, merged, failures>> /\ main' = Unwatch(a)
  BY DEF Base0, MainTyped, MainRec, ReplyBody
<1>2. agent[a] \in AgentRec /\ agent[a].sock # NoSock
  BY <1>1 DEF Base0, AgentTyped, SocketsOK, Answering
<1>3. NoSock \notin unread
  BY Numbers DEF Base0, SocketsOK, PoolInv, PoolTyped, SlotsTyped
<1>4. MainTyped'
  BY <1>1, UnwatchIs, MainGoes DEF Base0
<1>5. \A s \in {"UNUSED", "RETRY"} : s \notin Initial \cup Answering
  BY DEF Initial, Answering
<1>6. Shut(agent[a]) = "UNUSED"
  BY <1>1, <1>2 DEF Shut
<1>7. CASE /\ agent' = [agent EXCEPT ![a] = [Closed(@, FALSE) EXCEPT !.success = TRUE, !.failure = FALSE]]
           /\ open' = IF agent[a].pers THEN open ELSE open \ {agent[a].sock}
           /\ unread' = unread \ {agent[a].sock}
  <2> DEFINE n == [Closed(agent[a], FALSE) EXCEPT !.success = TRUE, !.failure = FALSE]
  <2>1. Closed(agent[a], FALSE) = [agent[a] EXCEPT !.sock = IF agent[a].pers THEN agent[a].sock ELSE NoSock, !.state = "UNUSED"]
    BY <1>2, <1>6, Outcomes
  <2>2. n \in AgentRec /\ n.sock = (IF agent[a].pers THEN agent[a].sock ELSE NoSock) /\ n.pers = agent[a].pers
        /\ n.state = "UNUSED" /\ n.success /\ ~n.failure
    BY <1>2, <2>1 DEF AgentRec, State
  <2>3. agent' = [agent EXCEPT ![a] = n]
    BY <1>7
  <2> HIDE DEF n
  <2>4. AgentTyped' /\ agent'[a] = n /\ \A b \in Agent \ {a} : agent'[b] = agent[b]
    BY <2>2, <2>3 DEF Base0, AgentTyped
  <2>5. unread' \subseteq open' /\ open' \subseteq open /\ unread' \subseteq unread
    BY <1>7 DEF Base0, SocketsOK
  <2>6. \A f \in open \ open' : agent[a].sock = f /\ agent'[a].sock = NoSock
    BY <1>7, <2>2, <2>4
  <2>7. \A b \in Agent :
           /\ agent'[b].sock = agent[b].sock \/ (agent'[b].sock = NoSock /\ agent[b].sock \notin open')
           /\ agent'[b].pers => agent[b].pers
           /\ agent'[b].state \in Initial \cup Answering => agent'[b].sock # NoSock
           /\ agent'[b].sock \in unread' => agent'[b].state \in Answering
    <3> SUFFICES ASSUME NEW b \in Agent
                 PROVE  /\ agent'[b].sock = agent[b].sock \/ (agent'[b].sock = NoSock /\ agent[b].sock \notin open')
                        /\ agent'[b].pers => agent[b].pers
                        /\ agent'[b].state \in Initial \cup Answering => agent'[b].sock # NoSock
                        /\ agent'[b].sock \in unread' => agent'[b].state \in Answering
      OBVIOUS
    <3>1. CASE b = a
      <4>1. agent'[b] = n /\ n.sock \in {agent[b].sock, NoSock} /\ n.pers = agent[b].pers /\ n.state \notin Initial \cup Answering
        BY <1>5, <2>2, <2>4, <3>1
      <4>2. (agent'[b].sock = agent[b].sock \/ agent[b].sock \notin open') /\ agent[b].sock \notin unread' /\ NoSock \notin unread'
        BY <1>3, <1>7, <2>2, <2>4, <2>5, <3>1
      <4> QED BY <4>1, <4>2
    <3>2. CASE b # a
      BY <2>4, <2>5, <3>2 DEF Base0, SocketsOK
    <3> QED BY <3>1, <3>2
  <2>8. PoolInv' /\ SocketsOK'
    BY <1>1, <2>4, <2>5, <2>6, <2>7, AgentsClose DEF Base0
  <2> QED BY <1>1, <1>4, <2>2, <2>4, <2>8 DEF Base0
<1>8. ASSUME NEW n \in AgentRec, NEW s \in {"UNUSED", "RETRY"}, Becomes(a, n),
             n = [agent[a] EXCEPT !.sock = NoSock, !.state = s, !.failure = TRUE]
      PROVE  /\ Base0' /\ \A b \in Agent \ {a} : agent'[b] = agent[b]
             /\ agent'[a].state \in {"UNUSED", "RETRY"} /\ agent'[a].failure /\ agent'[a].success = agent[a].success
  <2>1. n.sock = NoSock /\ n.pers = agent[a].pers /\ n.state = s /\ n.failure /\ n.success = agent[a].success
    BY <1>2, <1>8 DEF AgentRec
  <2>2. AgentTyped' /\ PoolInv' /\ SocketsOK'
    BY <1>1, <1>3, <1>5, <1>8, <2>1, AgentCloses DEF Base0
  <2>3. agent'[a] = n /\ \A b \in Agent \ {a} : agent'[b] = agent[b]
    BY <1>8 DEF Becomes, Base0, AgentTyped
  <2> QED BY <1>4, <1>8, <2>1, <2>2, <2>3 DEF Base0
<1>9. CASE Becomes(a, Failed(agent[a]))
  <2>1. Failed(agent[a]) \in AgentRec /\ Failed(agent[a]) = [agent[a] EXCEPT !.sock = NoSock, !.state = "UNUSED", !.failure = TRUE]
    BY <1>2, <1>6, Outcomes
  <2> QED BY <1>1, <1>8, <1>9, <2>1
<1>10. CASE Becomes(a, Retry(agent[a]))
  <2>1. Retry(agent[a]) \in AgentRec /\ Retry(agent[a]) = [agent[a] EXCEPT !.sock = NoSock, !.state = "RETRY", !.failure = TRUE]
    BY <1>2, Outcomes
  <2> QED BY <1>1, <1>8, <1>10, <2>1
<1> QED BY <1>7, <1>9, <1>10 DEF ReplyBody

\* The round ends: agents that have not answered are closed, results are merged.
LEMMA CloseTimedOutDoes ==
  ASSUME Base0, AgentsOK, CloseTimedOut
  PROVE  /\ Base0' /\ main' = [main EXCEPT !.pc = AfterRound]
         /\ \A a \in Agent :
              \/ /\ agent[a].success /\ ~agent'[a].success /\ ~agent'[a].failure /\ agent'[a].state = agent[a].state
                 /\ agent[a].state = "UNUSED" /\ merged[a] = 0 /\ merged'[a] = 1 /\ a \notin Blackhole
              \/ /\ ~agent[a].success /\ ~agent'[a].success /\ merged'[a] = merged[a]
                 /\ agent'[a].state \in {agent[a].state, "UNUSED"}
                 /\ agent'[a].state # agent[a].state => a \in Blackhole \/ agent'[a].failure
                 /\ agent[a].failure => agent'[a].failure
                 /\ agent'[a].failure => agent[a].failure \/ agent[a].state \in {"QUERYED", "PREREPLY"}
                 /\ agent'[a].state \in Answering => agent[a].state = "REPLY" /\ a \notin Blackhole
<1> DEFINE left(a) == IF a \in Blackhole THEN Closed(agent[a], TRUE)
                      ELSE IF TimedOut(a) THEN Failed(agent[a]) ELSE agent[a]
           got == {a \in Agent : agent[a].success}
           shut == {b \in Agent : left(b).sock # agent[b].sock}
<1>1. /\ agent' = [a \in Agent |-> IF a \in got THEN Dismissed(agent[a]) ELSE left(a)]
      /\ CloseFds({agent[a].sock : a \in shut})
      /\ merged' = [a \in Agent |-> merged[a] + IF a \in got THEN 1 ELSE 0]
      /\ main' = [main EXCEPT !.pc = AfterRound] /\ main.pc = "close"
      /\ UNCHANGED <<conns, other, leaked, failures>>
  BY DEF CloseTimedOut
<1>2. \A a \in Agent : agent[a] \in AgentRec /\ merged[a] \in 0..1 /\ AgentOK(a)
  BY DEF Base0, AgentTyped, MainTyped, AgentsOK
<1>3. \A a \in got : a \notin Blackhole /\ ~TimedOut(a) /\ merged[a] = 0 /\ ~agent[a].failure /\ agent[a].state = "UNUSED"
  BY <1>2 DEF AgentOK, Untried, TimedOut
<1>4. \A a \in Agent : left(a) \in AgentRec
        /\ left(a).sock \in {agent[a].sock, NoSock} /\ left(a).pers = agent[a].pers /\ left(a).success = agent[a].success
        /\ left(a).state \in {agent[a].state, "UNUSED"}
        /\ (left(a).state # agent[a].state => a \in Blackhole \/ left(a).failure)
        /\ (agent[a].failure => left(a).failure)
        /\ (left(a).failure => agent[a].failure \/ agent[a].state \in {"QUERYED", "PREREPLY"})
        /\ (left(a).state \in Initial \cup Answering => left(a).sock = agent[a].sock /\ agent[a].state = left(a).state)
        /\ (left(a).state \in Answering => agent[a].state = "REPLY" /\ a \notin Blackhole)
  <2> SUFFICES ASSUME NEW a \in Agent
               PROVE  left(a) \in AgentRec
        /\ left(a).sock \in {agent[a].sock, NoSock} /\ left(a).pers = agent[a].pers /\ left(a).success = agent[a].success
        /\ left(a).state \in {agent[a].state, "UNUSED"}
        /\ (left(a).state # agent[a].state => a \in Blackhole \/ left(a).failure)
        /\ (agent[a].failure => left(a).failure)
        /\ (left(a).failure => agent[a].failure \/ agent[a].state \in {"QUERYED", "PREREPLY"})
        /\ (left(a).state \in Initial \cup Answering => left(a).sock = agent[a].sock /\ agent[a].state = left(a).state)
        /\ (left(a).state \in Answering => agent[a].state = "REPLY" /\ a \notin Blackhole)
    OBVIOUS
  <2> DEFINE r == agent[a]  l == left(a)
  <2>1. r \in AgentRec /\ (r.state \in Initial \cup Answering => r.sock # NoSock)
    BY <1>2 DEF Base0, SocketsOK
  <2>2. "UNUSED" \notin Initial \cup Answering /\ "RETRY" \notin Initial \cup Answering
    BY DEF Initial, Answering
  <2> HIDE DEF r
  <2>3. CASE a \in Blackhole
    <3>1. l = Closed(r, TRUE)
      BY <2>3 DEF r
    <3> HIDE DEF l
    <3>2. l \in AgentRec /\ l = [r EXCEPT !.sock = NoSock, !.state = Shut(r)]
      BY <2>1, <3>1, Outcomes
    <3>3. l.sock = NoSock /\ l.pers = r.pers /\ l.success = r.success /\ l.failure = r.failure /\ l.state = Shut(r)
      BY <2>1, <3>2 DEF AgentRec
    <3>4. Shut(r) \in {r.state, "UNUSED"} /\ Shut(r) \notin Initial \cup Answering
      BY <2>1, <2>2 DEF Shut
    <3> QED BY <2>3, <3>2, <3>3, <3>4 DEF l, r
  <2>4. CASE a \notin Blackhole /\ TimedOut(a)
    <3>1. l = Failed(r) /\ r.state \in {"QUERYED", "PREREPLY"}
      BY <2>4 DEF r, TimedOut
    <3> HIDE DEF l
    <3>2. Shut(r) = "UNUSED"
      BY <2>1, <3>1 DEF Shut, Answering
    <3>3. l \in AgentRec /\ l = [r EXCEPT !.sock = NoSock, !.state = "UNUSED", !.failure = TRUE]
      BY <2>1, <3>1, <3>2, Outcomes
    <3>4. l.sock = NoSock /\ l.pers = r.pers /\ l.success = r.success /\ l.failure /\ l.state = "UNUSED"
      BY <2>1, <3>3 DEF AgentRec
    <3> QED BY <2>2, <2>4, <3>1, <3>3, <3>4 DEF l, r
  <2>5. CASE a \notin Blackhole /\ ~TimedOut(a)
    <3>1. l = r /\ r.state \notin {"QUERYED", "PREREPLY"}
      BY <2>5 DEF r, TimedOut
    <3> HIDE DEF l
    <3> QED BY <2>1, <2>5, <3>1 DEF l, r, Answering
  <2> QED BY <2>3, <2>4, <2>5
<1>5. \A a \in got : left(a) = agent[a]
  BY <1>3
<1> HIDE DEF left
<1>6. \A a \in got : Dismissed(agent[a]) \in AgentRec /\ Dismissed(agent[a]).sock = agent[a].sock
        /\ Dismissed(agent[a]).pers = agent[a].pers /\ Dismissed(agent[a]).state = agent[a].state
        /\ ~Dismissed(agent[a]).success /\ ~Dismissed(agent[a]).failure
  BY <1>2 DEF AgentRec, Dismissed
<1>7. AgentTyped' /\ (\A a \in got : agent'[a] = Dismissed(agent[a])) /\ \A a \in Agent \ got : agent'[a] = left(a)
  BY <1>1, <1>4, <1>6 DEF AgentTyped
<1>8. \A a \in Agent : agent'[a].sock = left(a).sock
  BY <1>5, <1>6, <1>7
<1>9. merged' \in [Agent -> 0..1] /\ (\A a \in got : merged'[a] = 1) /\ \A a \in Agent \ got : merged'[a] = merged[a]
  BY <1>1, <1>2, <1>3
<1>10. main' \in MainRec /\ main'.pc \notin {"take", "return", "end"}
  BY <1>1 DEF Base0, MainTyped, MainRec, MainPc, AfterRound
<1>11. MainTyped'
  BY <1>1, <1>9, <1>10, MainGoes DEF Base0, MainTyped
<1>12. open' = open \ {agent[a].sock : a \in shut} /\ unread' = unread \ {agent[a].sock : a \in shut}
  BY <1>1 DEF CloseFds
<1>13. unread' \subseteq open' /\ open' \subseteq open /\ unread' \subseteq unread
  BY <1>12 DEF Base0, SocketsOK
<1>14. \A f \in open \ open' : \E a \in Agent : agent[a].sock = f /\ agent'[a].sock = NoSock
  BY <1>4, <1>8, <1>12
<1>15. NoSock \notin unread
  BY Numbers DEF Base0, SocketsOK, PoolInv, PoolTyped, SlotsTyped
<1>16. ASSUME NEW a \in Agent
       PROVE  /\ agent'[a].sock = agent[a].sock \/ (agent'[a].sock = NoSock /\ agent[a].sock \notin open')
              /\ agent'[a].pers => agent[a].pers
              /\ agent'[a].state \in Initial \cup Answering => agent'[a].sock # NoSock
              /\ agent'[a].sock \in unread' => agent'[a].state \in Answering
  <2>1. agent'[a].sock = agent[a].sock \/ (agent'[a].sock = NoSock /\ agent[a].sock \notin open')
    BY <1>4, <1>8, <1>12
  <2>2. agent'[a].pers = agent[a].pers
    BY <1>4, <1>6, <1>7
  <2>3. agent'[a].state \in Initial \cup Answering => agent'[a].sock = agent[a].sock /\ agent'[a].state = agent[a].state
    BY <1>3, <1>4, <1>6, <1>7, <1>8
  <2>4. agent'[a].state \in Initial \cup Answering => agent'[a].sock # NoSock
    BY <2>3 DEF Base0, SocketsOK
  <2>5. ASSUME agent'[a].sock \in unread' PROVE agent'[a].state \in Answering
    <3>1. agent'[a].sock = agent[a].sock /\ agent[a].state \in Answering
      BY <1>13, <1>15, <2>1, <2>5 DEF Base0, SocketsOK
    <3>2. a \notin got
      BY <1>3, <3>1 DEF Answering
    <3>3. agent'[a] = left(a) /\ left(a).sock = agent[a].sock /\ left(a).sock # NoSock
      BY <1>7, <1>13, <1>15, <2>5, <3>1, <3>2
    <3>4. left(a) = agent[a]
      <4>1. CASE a \in Blackhole
        <5>1. left(a) = [agent[a] EXCEPT !.sock = NoSock, !.state = Shut(agent[a])]
          BY <1>2, <4>1, Outcomes DEF left
        <5>2. left(a).sock = NoSock
          BY <1>2, <5>1 DEF AgentRec
        <5> QED BY <3>3, <5>2
      <4>2. CASE a \notin Blackhole /\ TimedOut(a)
        <5>1. left(a) = [agent[a] EXCEPT !.sock = NoSock, !.state = Shut(agent[a]), !.failure = TRUE]
          BY <1>2, <4>2, Outcomes DEF left
        <5>2. left(a).sock = NoSock
          BY <1>2, <5>1 DEF AgentRec
        <5> QED BY <3>3, <5>2
      <4>3. CASE a \notin Blackhole /\ ~TimedOut(a)
        BY <4>3 DEF left
      <4> QED BY <4>1, <4>2, <4>3
    <3> QED BY <3>1, <3>3, <3>4
  <2> QED BY <2>1, <2>2, <2>4, <2>5
<1>17. PoolInv' /\ SocketsOK'
  BY <1>1, <1>7, <1>13, <1>14, <1>16, AgentsClose DEF Base0
<1>18. Base0'
  BY <1>7, <1>11, <1>17 DEF Base0
<1>19. ASSUME NEW a \in got
       PROVE  /\ agent[a].success /\ ~agent'[a].success /\ ~agent'[a].failure /\ agent'[a].state = agent[a].state
              /\ agent[a].state = "UNUSED" /\ merged[a] = 0 /\ merged'[a] = 1 /\ a \notin Blackhole
  BY <1>3, <1>6, <1>7, <1>9
<1>20. ASSUME NEW a \in Agent \ got
       PROVE  /\ ~agent[a].success /\ ~agent'[a].success /\ merged'[a] = merged[a]
              /\ agent'[a].state \in {agent[a].state, "UNUSED"}
              /\ agent'[a].state # agent[a].state => a \in Blackhole \/ agent'[a].failure
              /\ agent[a].failure => agent'[a].failure
              /\ agent'[a].failure => agent[a].failure \/ agent[a].state \in {"QUERYED", "PREREPLY"}
              /\ agent'[a].state \in Answering => agent[a].state = "REPLY" /\ a \notin Blackhole
  BY <1>4, <1>7, <1>9
<1> QED BY <1>1, <1>18, <1>19, <1>20

\* No reply is left to read where nobody waits for one.
LEMMA NothingUnread ==
  ASSUME Base0, \A a \in Agent : agent[a].state \notin Answering
  PROVE  unread = {}
BY DEF Base0, SocketsOK

LEMMA TakeTraitsDoes ==
  ASSUME Base0, QuietPool, TakeTraits
  PROVE  Base0' /\ main' = [main EXCEPT !.next = @ + 1] /\ main.pc = "take"
         /\ \A a \in Agent : agent'[a].state = agent[a].state /\ agent'[a].success = agent[a].success
                             /\ agent'[a].failure = agent[a].failure
<1> DEFINE a == main.next  s == Rented(conns, HostOf[a])
<1>1. main.pc = "take" /\ a \in Agent /\ main \in MainRec /\ UNCHANGED <<open, unread, other, leaked, merged, failures>>
      /\ main' = [main EXCEPT !.next = @ + 1]
  BY DEF TakeTraits, Base0, MainTyped, MainRec, Agent
<1>2. Grown(a) = conns
  <2>1. a \in Nat /\ a <= N /\ ReserveLimit \in Nat
    BY <1>1, AgentsAssumption, Numbers DEF Agent
  <2>2. a # ReserveLimit + 1
    BY <2>1, Numbers DEF QuietPool
  <2> QED BY <2>2 DEF Grown
<1>3. \A b \in Agent : agent[b].state = "UNUSED" /\ Untried(b) /\ agent[b] \in AgentRec
        /\ (b >= a => agent[b].sock = NoSock /\ (agent[b].pers => b \in Persistent))
  BY <1>1 DEF Base0, MainTyped, AgentTyped
<1>4. unread = {} /\ "UNUSED" \notin Initial \cup Answering
  <2>1. "UNUSED" \notin Initial \cup Answering
    BY DEF Initial, Answering
  <2> QED BY <1>3, <2>1, NothingUnread
<1>5. /\ \/ a \notin Persistent /\ UNCHANGED agent /\ conns' = conns
         \/ /\ a \in Persistent /\ conns' = AfterRent(conns, HostOf[a])
            /\ agent' = [agent EXCEPT ![a].pers = s # NoSlot, ![a].sock = IF s = NoSlot THEN NoSock ELSE s]
  BY <1>2 DEF TakeTraits
<1>6. SlotsTyped /\ HostOf[a] \in Host /\ a \in Nat
  BY <1>1, Numbers DEF Base0, PoolInv, PoolTyped, Agent
<1>7. s \in Fd \cup {-1, -2}
  <2>1. CASE FreeSlots(conns, HostOf[a]) = 0
    BY <2>1, Numbers DEF Rented
  <2>2. CASE FreeSlots(conns, HostOf[a]) # 0
    <3> DEFINE f == FreeSlots(conns, HostOf[a])
    <3>1. f \in 1..PoolSize /\ s = conns[At(HostOf[a], f)]
      BY <1>6, <2>2, Numbers DEF FreeSlots, SlotsTyped, Free, Rented, At
    <3> HIDE DEF f
    <3> QED BY <1>6, <3>1 DEF SlotsTyped
  <2> QED BY <2>1, <2>2
<1> HIDE DEF s
<1>8. main' \in MainRec /\ main'.pc = "take" /\ main'.next = a + 1
  <2>1. a + 1 \in 1..N + 1
    BY <1>1, Numbers DEF Agent
  <2> QED BY <1>1, <2>1 DEF MainRec
<1>9. ASSUME UNCHANGED agent, conns' = conns, a \notin Persistent PROVE Base0'
  <2>1. ~agent[a].pers
    BY <1>1, <1>3, <1>6, <1>9
  <2>2. ASSUME NEW b \in Agent, Rents(b)' PROVE Rents(b)
    <3>1. b \in Nat /\ b < a + 1 /\ agent[b].pers
      BY <1>8, <1>9, <2>2 DEF Rents, Agent
    <3>2. b # a
      BY <2>1, <3>1
    <3>3. b < a
      BY <1>6, <3>1, <3>2
    <3> QED BY <3>1, <3>3 DEF Rents
  <2>3. AgentTyped' /\ PoolInv' /\ SocketsOK'
    BY <1>1, <1>9, <2>2, PoolSame DEF Base0, poolVars
  <2>4. MainTyped'
    <3>1. \A b \in Agent : b >= a + 1 => b >= a
      BY <1>6 DEF Agent
    <3>2. \A b \in Agent : agent'[b].state = "UNUSED" /\ Untried(b)' /\ (b >= main'.next => agent'[b].sock = NoSock /\ (agent'[b].pers => b \in Persistent))
      BY <1>1, <1>3, <1>8, <1>9, <3>1 DEF Untried
    <3> QED BY <1>1, <1>8, <3>2 DEF MainTyped, Base0, MainRec
  <2> QED BY <2>3, <2>4 DEF Base0
<1>10. ASSUME a \in Persistent, conns' = AfterRent(conns, HostOf[a]),
              agent' = [agent EXCEPT ![a].pers = s # NoSlot, ![a].sock = IF s = NoSlot THEN NoSock ELSE s]
       PROVE  /\ Base0'
              /\ \A b \in Agent : agent'[b].state = agent[b].state /\ agent'[b].success = agent[b].success
                             /\ agent'[b].failure = agent[b].failure
  <2> DEFINE sock == IF s = NoSlot THEN NoSock ELSE s
  <2>1. sock \in Fd \cup {NoSock}
    BY <1>7, Numbers
  <2>2. agent' = [agent EXCEPT ![a] = [agent[a] EXCEPT !.pers = s # NoSlot, !.sock = sock]]
    BY <1>10
  <2> HIDE DEF sock, a
  <2>3. AgentTyped' /\ agent'[a] = [agent[a] EXCEPT !.pers = s # NoSlot, !.sock = sock] /\ \A b \in Agent \ {a} : agent'[b] = agent[b]
    BY <1>1, <1>3, <2>1, <2>2, ZenonT(60) DEF Base0, AgentTyped, AgentRec
  <2>4. agent'[a].pers = (s # NoSlot) /\ agent'[a].sock = sock /\ agent'[a].state = agent[a].state
        /\ agent'[a].success = agent[a].success /\ agent'[a].failure = agent[a].failure
    BY <1>1, <1>3, <2>1, <2>3 DEF AgentRec
  <2>5. \A b \in Agent : agent'[b].sock = IF b = a /\ s # NoSlot THEN s ELSE agent[b].sock
    <3>1. agent[a].sock = NoSock
      BY <1>1, <1>3, <1>6
    <3> QED BY <2>3, <2>4, <3>1 DEF sock
  <2>6. ASSUME NEW b \in Agent, Rents(b)' PROVE Rents(b) \/ (b = a /\ s # NoSlot)
    <3>1. CASE b = a
      BY <2>4, <2>6, <3>1 DEF Rents
    <3>2. CASE b # a
      <4>1. b \in Nat /\ b < a + 1 /\ agent[b].pers
        BY <1>8, <2>3, <2>6, <3>2 DEF Rents, Agent
      <4>2. b < a
        BY <1>6, <3>2, <4>1
      <4> QED BY <4>1, <4>2 DEF Rents, a
    <3> QED BY <3>1, <3>2
  <2>7. PoolInv'
    <3>1. agent[a].sock = NoSock
      BY <1>1, <1>3, <1>6
    <3> QED BY <1>1, <1>10, <2>5, <2>6, <3>1, PoolRents DEF Base0, s
  <2>8. SocketsOK'
    <3>1. \A b \in Agent : agent'[b].state = "UNUSED"
      BY <1>1, <1>3, <2>3, <2>4
    <3> QED BY <1>1, <1>4, <3>1 DEF SocketsOK
  <2>9. MainTyped'
    <3>1. \A b \in Agent : b >= a + 1 => b >= a /\ b # a
      BY <1>6 DEF Agent
    <3>2. \A b \in Agent : agent'[b].state = "UNUSED" /\ agent'[b].success = agent[b].success /\ (b >= main'.next => agent'[b].sock = NoSock /\ (agent'[b].pers => b \in Persistent))
      BY ZenonT(60), <1>1, <1>3, <1>8, <2>3, <2>4, <3>1
    <3>3. \A b \in Agent : Untried(b)'
      BY <1>1, <1>3, <3>2 DEF Untried
    <3> QED BY <1>1, <1>8, <3>2, <3>3 DEF MainTyped, Base0, MainRec
  <2> QED BY <2>3, <2>4, <2>7, <2>8, <2>9 DEF Base0
<1> HIDE DEF a
<1> QED BY <1>1, <1>5, <1>9, <1>10

LEMMA StartControllerDoes ==
  ASSUME Base0, StartController
  PROVE  Base0'
<1>1. /\ UNCHANGED <<poolVars, agent, merged, failures>> /\ main' = [main EXCEPT !.pc = "wait"]
      /\ main.pc = "take" /\ main.next > N
  BY DEF StartController
<1>2. main \in MainRec /\ main' \in MainRec /\ main'.pc = "wait"
  BY <1>1 DEF Base0, MainTyped, MainRec, MainPc
<1>3. MainTyped'
  BY <1>1, <1>2, MainGoes DEF Base0, MainTyped
<1>4. \A a \in Agent : Rents(a)' => Rents(a)
  BY <1>1, <1>2, Numbers DEF Rents, Agent, MainRec
<1> QED BY <1>1, <1>3, <1>4, PoolSame DEF Base0

LEMMA ReturnConnectionDoes ==
  ASSUME Base0, WorksTyped, AgentsOK, MainOK, ReturnConnection
  PROVE  Base0' /\ main' = [main EXCEPT !.next = @ + 1, !.pc = IF main.next = N THEN "end" ELSE @]
         /\ main.pc = "return" /\ UNCHANGED <<merged, failures>>
         /\ \A a \in Agent : agent'[a].state = agent[a].state /\ agent'[a].success = agent[a].success
                             /\ agent'[a].failure = agent[a].failure
<1> DEFINE a == main.next
<1>1. main.pc = "return" /\ a \in Agent /\ main \in MainRec /\ UNCHANGED <<other, leaked, merged, failures>>
      /\ main' = [main EXCEPT !.next = @ + 1, !.pc = IF main.next = N THEN "end" ELSE @]
      /\ agent' = [agent EXCEPT ![a].sock = NoSock, ![a].pers = FALSE]
      /\ IF agent[a].pers
         THEN conns' = AfterReturn(conns, HostOf[a], agent[a].sock) /\ CloseFds(ReturnCloses(conns, HostOf[a], agent[a].sock))
         ELSE UNCHANGED conns /\ CloseFds({agent[a].sock})
  BY DEF ReturnConnection, Base0, MainTyped, MainRec, Agent
<1> HIDE DEF a
<1>2. \A b \in Agent : agent[b] \in AgentRec /\ agent[b].state \notin Initial \cup Answering
  <2>1. \A b \in Agent : ~Asking(b) /\ agent[b].state \notin Answering
    BY <1>1 DEF MainOK, Asking
  <2> QED BY <2>1 DEF Base0, AgentTyped, AgentsOK, AgentOK
<1>3. unread = {}
  BY <1>2, NothingUnread
<1>4. AgentTyped' /\ agent'[a].sock = NoSock /\ ~agent'[a].pers /\ \A b \in Agent :
        /\ agent'[b].state = agent[b].state /\ agent'[b].success = agent[b].success /\ agent'[b].failure = agent[b].failure
        /\ b # a => agent'[b] = agent[b]
  <2>1. agent[a] \in AgentRec /\ agent' = [agent EXCEPT ![a] = [agent[a] EXCEPT !.sock = NoSock, !.pers = FALSE]]
    BY <1>1, <1>2
  <2> DEFINE n == [agent[a] EXCEPT !.sock = NoSock, !.pers = FALSE]
  <2>2. n \in AgentRec /\ n.sock = NoSock /\ n.pers = FALSE /\ n.state = agent[a].state
        /\ n.success = agent[a].success /\ n.failure = agent[a].failure
    BY <2>1 DEF AgentRec
  <2>3. agent' = [agent EXCEPT ![a] = n]
    BY <2>1
  <2> HIDE DEF n
  <2> QED BY <1>1, <2>2, <2>3 DEF Base0, AgentTyped
<1>5. unread' = {} /\ open' \subseteq open
  BY <1>1, <1>3 DEF CloseFds
<1>6. SocketsOK'
  BY <1>2, <1>4, <1>5 DEF SocketsOK
<1>7. \A b \in Agent : Rents(b)' => Rents(b)
  <2>1. \A b \in Agent : agent'[b].pers => agent[b].pers
    BY <1>1, <1>4
  <2> QED BY <1>1, <2>1 DEF Rents
<1>8. PoolInv'
  <2>1. CASE agent[a].pers
    <3>1. Rents(a)
      BY <1>1, <2>1 DEF Rents
    <3>2. \A b \in Agent : agent'[b].sock = IF b = a THEN NoSock ELSE agent[b].sock
      BY <1>4
    <3>3. conns' = AfterReturn(conns, HostOf[a], agent[a].sock) /\ open' = open \ ReturnCloses(conns, HostOf[a], agent[a].sock)
      BY <1>1, <2>1 DEF CloseFds
    <3> QED BY <1>1, <1>7, <3>1, <3>2, <3>3, PoolReturns DEF Base0
  <2>2. CASE ~agent[a].pers
    <3>1. conns' = conns /\ open' = open \ {agent[a].sock}
      BY <1>1, <2>2 DEF CloseFds
    <3>2. \A f \in open \ open' : agent[a].sock = f /\ agent'[a].sock = NoSock
      BY <1>4, <3>1
    <3>3. \A b \in Agent : agent'[b].sock = agent[b].sock \/ (agent'[b].sock = NoSock /\ agent[b].sock \notin open')
      BY <1>4, <3>1
    <3> QED BY <1>1, <1>7, <3>1, <3>2, <3>3, PoolCloses DEF Base0
  <2> QED BY <2>1, <2>2
<1>9. MainTyped'
  <2>1. a \in 1..N /\ a + 1 \in 1..N + 1 /\ N \in Nat
    BY <1>1, Numbers DEF Agent
  <2>2. main' \in MainRec /\ main'.next = a + 1 /\ main'.pc \in {"return", "end"} /\ (main'.pc = "end" => a = N)
    BY <1>1, <2>1 DEF MainRec, MainPc, a
  <2>3. ASSUME NEW b \in Agent, b < a + 1 PROVE agent'[b].sock = NoSock /\ ~agent'[b].pers
    <3>1. CASE b = a
      BY <1>4, <3>1
    <3>2. CASE b # a
      <4>1. b < a
        BY <2>1, <2>3, <3>2 DEF Agent
      <4> QED BY <1>1, <1>4, <3>2, <4>1 DEF Base0, MainTyped, a
    <3> QED BY <3>1, <3>2
  <2> QED BY <1>1, <2>1, <2>2, <2>3 DEF Base0, MainTyped, MainRec
<1> QED BY <1>1, <1>4, <1>6, <1>8, <1>9 DEF Base0

LEMMA PoolStepDoes ==
  ASSUME Base0, QuietPool, PoolStep
  PROVE  Base0'
<1>1. UNCHANGED <<agent, main, merged, failures>>
  BY DEF PoolStep, mainSide
<1>2. AgentTyped' /\ MainTyped'
  <2>1. MainTyped'
    BY <1>1, MainSame DEF Base0, mainSide
  <2> QED BY <1>1, <2>1 DEF Base0, AgentTyped
<1>3. ASSUME unread' \subseteq unread, unread' \subseteq open' PROVE SocketsOK'
  BY <1>1, <1>3 DEF Base0, SocketsOK
<1>4. CASE OtherRent
  <2>1. SocketsOK'
    BY <1>3, <1>4 DEF OtherRent, Base0, SocketsOK
  <2> QED BY <1>1, <1>2, <1>4, <2>1, OtherRents DEF Base0
<1>5. CASE OtherConnect
  <2>1. SocketsOK'
    BY <1>3, <1>5 DEF OtherConnect, Base0, SocketsOK
  <2> QED BY <1>1, <1>2, <1>5, <2>1, OtherConnects DEF Base0
<1>6. CASE OtherReturn
  <2>1. SocketsOK'
    BY <1>3, <1>6 DEF OtherReturn, CloseFds, Base0, SocketsOK
  <2> QED BY <1>1, <1>2, <1>6, <2>1, OtherReturns DEF Base0
<1>7. CASE (ReloadBusy \/ (other = NobodyRents /\ main.pc = "end")) /\ InitPersistentPool
  <2>1. SocketsOK'
    BY <1>3, <1>7 DEF InitPersistentPool, CloseFds, Base0, SocketsOK
  <2>2. other = NobodyRents /\ main.pc = "end"
    BY <1>7 DEF QuietPool
  <2>3. \A a \in Agent : a < N + 1
    BY Numbers DEF Agent
  <2>4. \A a \in Agent : agent[a].sock = NoSock /\ ~agent[a].pers
    BY <2>2, <2>3 DEF Base0, MainTyped
  <2> QED BY <1>1, <1>2, <1>7, <2>1, <2>2, <2>4, PoolResets DEF Base0
<1> QED BY <1>4, <1>5, <1>6, <1>7 DEF PoolStep

LEMMA BaseInit ==
  ASSUME Init
  PROVE  Base0
<1>1. /\ conns = [i \in 0..Hosts * Stride - 1 |-> -1] /\ open = OtherFd /\ unread = {} /\ other = NobodyRents
      /\ leaked = {}
      /\ agent = [a \in Agent |-> Unused(a)] /\ merged = [a \in Agent |-> 0] /\ failures = {}
      /\ main = [pc |-> "take", next |-> 1, done |-> FALSE, reported |-> 0, reg |-> {}, cur |-> 1]
  BY DEF Init, PoolInit
<1>2. \A a \in Agent : Unused(a) \in AgentRec /\ Unused(a).sock = NoSock /\ Unused(a).state = "UNUSED" /\ ~Unused(a).success
        /\ Unused(a).pers = (a \in Persistent)
  BY DEF Unused, AgentRec, State
<1>3. \A a \in Agent : agent[a] \in AgentRec /\ agent[a].sock = NoSock /\ agent[a].state = "UNUSED" /\ ~agent[a].success
        /\ agent[a].pers = (a \in Persistent) /\ a \in Nat /\ a >= 1
  BY <1>1, <1>2, Numbers DEF Agent
<1>4. AgentTyped
  BY <1>1, <1>2 DEF AgentTyped
<1>5. MainTyped
  <2>1. 1 \in 1..N + 1 /\ 1 \in Agent /\ "take" \in MainPc /\ 0 \in Nat
    BY Numbers DEF Agent, MainPc
  <2>2. main \in [pc : MainPc, next : 1..N + 1, done : BOOLEAN, reported : Nat, reg : SUBSET (Agent \ Blackhole), cur : Agent]
    BY <1>1, <2>1
  <2>3. merged \in [Agent -> 0..1]
    BY <1>1
  <2>4. \A a \in Agent : Untried(a)
    BY <1>1, <1>3 DEF Untried
  <2>5. failures \subseteq Agent /\ main.pc = "take" /\ main.next = 1
    BY <1>1
  <2> QED BY <1>3, <2>2, <2>3, <2>4, <2>5 DEF MainTyped
<1>6. SlotsTyped
  <2>1. -1 \in -1..PoolSize /\ OtherFd \subseteq Fd
    BY Numbers
  <2>2. \A i \in 0..Hosts * Stride - 1 : conns[i] = -1
    BY <1>1
  <2>3. \A h \in Host : Free(h) = -1 /\ \A k \in 1..PoolSize : conns[At(h, k)] = -1
    BY <2>2, Places DEF Free
  <2>4. conns \in [0..Hosts * Stride - 1 -> Int] /\ open \subseteq Fd /\ OtherFd \subseteq open
    BY <1>1, <2>1
  <2>5. \A h \in Host : Free(h) \in -1..PoolSize
    BY <2>1, <2>3
  <2>6. \A h \in Host, k \in 1..PoolSize : conns[At(h, k)] \in Fd \cup {-1} /\ conns[At(h, k)] = -1
    BY <2>3
  <2> QED BY <2>4, <2>5, <2>6 DEF SlotsTyped
<1>7. SlotsOwn
  <2>1. \A h \in Host, k \in 1..PoolSize : conns[At(h, k)] = -1
    BY <1>1, Places
  <2> QED BY <2>1 DEF SlotsOwn
<1>8. OwnersApart /\ InUse
  <2>1. \A a \in Agent : ~Rents(a)
    <3>1. \A a \in Agent : ~(a < 1)
      BY DEF Agent
    <3> QED BY <1>1, <3>1 DEF Rents
  <2> QED BY <1>1, <1>3, <2>1 DEF OwnersApart, InUse
<1>9. SocketsOK
  <2>1. "UNUSED" \notin Initial \cup Answering
    BY DEF Initial, Answering
  <2> QED BY <1>1, <1>3, <2>1 DEF SocketsOK
<1>10. Kept
  BY <1>1 DEF Kept
<1> QED BY <1>1, <1>4, <1>5, <1>6, <1>7, <1>8, <1>9, <1>10 DEF Base0, PoolInv, PoolTyped

-----------------------------------------------------------------------------
(* Steps keep the works. *)

LEMMA LeadIn ==
  ASSUME NEW c, WorkOK(c)
  PROVE  Lead(c) \in c.agents /\ Lead(c) \in Agent
<1>1. c.agents \in SUBSET Nat /\ c.agents # {} /\ c.agents \subseteq Agent
  BY Numbers DEF WorkOK, WorkRec, Agent
<1> QED BY <1>1, LeastIs DEF Lead

LEMMA LeadsFinite ==
  ASSUME WorksTyped
  PROVE  Leads \subseteq Agent /\ IsFiniteSet(Leads)
<1>1. \A k \in 1..Len(queue) : Lead(queue[k]) \in Agent
  BY LeadIn DEF WorksTyped
<1>2. \A w \in Agent : Runs(w) => Lead(worker[w].work) \in Agent
  BY LeadIn DEF WorksTyped
<1>3. Leads \subseteq Agent
  BY <1>1, <1>2 DEF Leads
<1>4. IsFiniteSet(Agent)
  BY FS_Interval, Numbers DEF Agent
<1> QED BY <1>3, <1>4, FS_Subset

\* Nobody has a work when none is counted.
LEMMA NoWorks ==
  ASSUME WorksInv, works = 0
  PROVE  queue = <<>> /\ \A w \in Agent : ~Runs(w)
<1>1. Leads = {}
  BY LeadsFinite, FS_EmptySet DEF WorksInv, WorksCounted
<1>2. \A w \in Agent : ~Runs(w)
  BY <1>1 DEF Leads
<1>3. \A k \in 1..Len(queue) : FALSE
  BY <1>1 DEF Leads
<1>4. queue \in Seq(WorkRec)
  BY DEF WorksInv, WorksTyped
<1>5. Len(queue) \in Nat /\ ~(1 \in 1..Len(queue))
  BY <1>3, <1>4
<1> QED BY <1>2, <1>4, <1>5

LEMMA WorksBounded ==
  ASSUME WorksInv
  PROVE  works \in 0..N /\ Len(queue) <= N
<1>1. Cardinality(Agent) = N /\ IsFiniteSet(Agent)
  <2>1. 1 \in Int /\ N \in Int /\ N - 1 + 1 = N /\ ~(1 > N)
    BY Numbers
  <2> QED BY <2>1, FS_Interval DEF Agent
<1>2. Cardinality(Leads) \in Nat /\ Cardinality(Leads) <= N
  BY <1>1, LeadsFinite, FS_Subset, FS_CardinalityType DEF WorksInv
<1>3. queue \in Seq(WorkRec) /\ Len(queue) \in Nat
  BY DEF WorksInv, WorksTyped
<1> DEFINE f == [k \in 1..Len(queue) |-> Lead(queue[k])]
<1>4. \A k \in 1..Len(queue) : Lead(queue[k]) \in queue[k].agents /\ Lead(queue[k]) \in Agent
  BY LeadIn DEF WorksInv, WorksTyped
<1>5. f \in Injection(1..Len(queue), Agent)
  <2>1. f \in [1..Len(queue) -> Agent]
    BY <1>4
  <2>2. \A k, l \in 1..Len(queue) : k # l => f[k] # f[l]
    BY <1>4 DEF WorksInv, WorksApart
  <2> QED BY <2>1, <2>2 DEF Injection, IsInjective
<1>6. Cardinality(1..Len(queue)) <= Cardinality(Agent)
  BY <1>1, <1>5, FS_Injection
<1>7. Cardinality(1..Len(queue)) = Len(queue)
  BY SMTT(30), <1>3, FS_Interval
<1> QED BY <1>1, <1>2, <1>3, <1>6, <1>7, Numbers DEF WorksInv, WorksCounted

LEMMA WorksSame ==
  ASSUME WorksInv, UNCHANGED <<queue, worker, works, ready>>, event' \in BOOLEAN
  PROVE  WorksInv'
BY DEF WorksInv, WorksTyped, WorksApart, WorksCounted, Leads, Runs, InWork

\* A thread goes on with its work.
LEMMA WorkGoesOn ==
  ASSUME WorksInv, NEW w \in Agent, Runs(w), UNCHANGED <<queue, works, ready, event>>, NEW x \in WorkerRec,
         worker' = [worker EXCEPT ![w] = x], x.pc \in Running, x.work = worker[w].work,
         x.pc # "run" => x.work.fn # "wait", x.pc = "connect" => x.todo \subseteq x.work.agents
  PROVE  WorksInv'
<1>1. worker' \in [Agent -> WorkerRec] /\ worker'[w] = x /\ \A v \in Agent \ {w} : worker'[v] = worker[v]
  BY DEF WorksInv, WorksTyped
<1>2. \A v \in Agent : (Runs(v)' <=> Runs(v)) /\ worker'[v].work = worker[v].work
  BY <1>1 DEF Runs
<1>3. WorksTyped'
  <2>1. \A v \in Agent : Runs(v)' =>
          /\ WorkOK(worker'[v].work)
          /\ worker'[v].pc # "run" => worker'[v].work.fn # "wait"
          /\ worker'[v].pc = "connect" => worker'[v].todo \subseteq worker'[v].work.agents
    BY <1>1, <1>2 DEF WorksInv, WorksTyped, InWork
  <2> QED BY <1>1, <2>1 DEF WorksInv, WorksTyped, InWork
<1>4. WorksApart'
  BY <1>2 DEF WorksInv, WorksApart, InWork
<1>5. Leads' = Leads
  <2>1. {v \in Agent : Runs(v)'} = {v \in Agent : Runs(v)}
    BY <1>2
  <2>2. {Lead(worker'[v].work) : v \in {u \in Agent : Runs(u)'}} = {Lead(worker[v].work) : v \in {u \in Agent : Runs(u)}}
    BY <1>2, <2>1
  <2> QED BY <2>2 DEF Leads, Lead
<1> QED BY <1>3, <1>4, <1>5 DEF WorksInv, WorksCounted

\* A thread takes the first work of the queue, or ends.
LEMMA PopDoes ==
  ASSUME WorksInv, NEW w \in Agent, Pop(w)
  PROVE  /\ WorksInv' /\ UNCHANGED <<works, ready, event>>
         /\ \/ queue = <<>> /\ queue' = queue /\ worker' = [worker EXCEPT ![w].pc = "exit"]
            \/ /\ worker' = [worker EXCEPT ![w].pc = "run", ![w].work = queue[1]]
               /\ queue \in Seq(WorkRec) /\ Len(queue) > 0 /\ queue' = Tail(queue)
<1>1. ~Runs(w) /\ UNCHANGED <<works, ready, event>> /\ queue \in Seq(WorkRec) /\ worker \in [Agent -> WorkerRec]
  BY DEF Pop, Runs, Running, WorksInv, WorksTyped
<1>2. CASE queue = <<>>
  <2>1. worker' = [worker EXCEPT ![w].pc = "exit"] /\ queue' = queue
    BY <1>2 DEF Pop
  <2>2. worker' \in [Agent -> WorkerRec] /\ worker'[w].pc = "exit" /\ \A v \in Agent \ {w} : worker'[v] = worker[v]
    BY <1>1, <2>1 DEF WorkerRec
  <2>3. \A v \in Agent : (Runs(v)' <=> Runs(v)) /\ (Runs(v) => worker'[v] = worker[v])
    BY <1>1, <2>2 DEF Runs, Running
  <2>4. WorksTyped'
    BY <1>1, <2>1, <2>2, <2>3 DEF WorksInv, WorksTyped, InWork
  <2>5. WorksApart'
    BY <2>1, <2>3 DEF WorksInv, WorksApart, InWork
  <2>6. Leads' = Leads
    <3>1. {v \in Agent : Runs(v)'} = {v \in Agent : Runs(v)}
      BY <2>3
    <3>2. {Lead(worker'[v].work) : v \in {u \in Agent : Runs(u)'}} = {Lead(worker[v].work) : v \in {u \in Agent : Runs(u)}}
      BY <2>3, <3>1
    <3> QED BY <2>1, <3>2 DEF Leads, Lead
  <2> QED BY <1>1, <1>2, <2>1, <2>4, <2>5, <2>6 DEF WorksInv, WorksCounted
<1>3. CASE queue # <<>>
  <2> DEFINE c == queue[1]
  <2>1. worker' = [worker EXCEPT ![w].pc = "run", ![w].work = c] /\ queue' = Tail(queue) /\ Len(queue) \in Nat /\ Len(queue) > 0
    BY <1>1, <1>3 DEF Pop
  <2>2. queue' \in Seq(WorkRec) /\ Len(queue') = Len(queue) - 1 /\ \A k \in 1..Len(queue') : queue'[k] = queue[k + 1]
    BY <1>1, <2>1
  <2>3. 1 \in 1..Len(queue) /\ WorkOK(c) /\ c \in WorkRec
    BY <2>1 DEF WorksInv, WorksTyped, WorkOK
  <2> HIDE DEF c
  <2>4. worker' \in [Agent -> WorkerRec] /\ worker'[w].pc = "run" /\ worker'[w].work = c /\ \A v \in Agent \ {w} : worker'[v] = worker[v]
    <3>1. worker[w] \in WorkerRec /\ worker' = [worker EXCEPT ![w] = [worker[w] EXCEPT !.pc = "run", !.work = c]]
      BY <1>1, <2>1
    <3>2. [worker[w] EXCEPT !.pc = "run", !.work = c] \in WorkerRec
      BY <2>3, <3>1 DEF WorkerRec, Running
    <3>3. [worker[w] EXCEPT !.pc = "run", !.work = c].pc = "run" /\ [worker[w] EXCEPT !.pc = "run", !.work = c].work = c
      BY <3>1 DEF WorkerRec
    <3> QED BY <1>1, <3>1, <3>2, <3>3
  <2>5. \A v \in Agent : (Runs(v)' <=> Runs(v) \/ v = w)
    BY <2>4 DEF Runs, Running
  <2>6. \A k \in 1..Len(queue') : k + 1 \in 1..Len(queue) /\ k + 1 # 1
    BY <2>1, <2>2
  <2>7. WorksTyped'
    <3>1. \A k \in 1..Len(queue') : WorkOK(queue'[k])
      BY <2>2, <2>6 DEF WorksInv, WorksTyped
    <3>2. ASSUME NEW v \in Agent, Runs(v)'
          PROVE  /\ WorkOK(worker'[v].work)
                 /\ worker'[v].pc # "run" => worker'[v].work.fn # "wait"
                 /\ worker'[v].pc = "connect" => worker'[v].todo \subseteq worker'[v].work.agents
      <4>1. CASE v = w
        BY <2>3, <2>4, <4>1
      <4>2. CASE v # w
        BY <2>4, <2>5, <3>2, <4>2 DEF WorksInv, WorksTyped, InWork
      <4> QED BY <4>1, <4>2
    <3>3. ready' \in Nat /\ event' \in BOOLEAN
      BY <1>1 DEF WorksInv, WorksTyped
    <3> QED BY <2>2, <2>4, <3>1, <3>2, <3>3 DEF WorksTyped, InWork
  <2>8. WorksApart'
    <3>1. \A k, l \in 1..Len(queue') : k # l => queue'[k].agents \cap queue'[l].agents = {}
      <4>1. \A k, l \in 1..Len(queue') : k # l => k + 1 # l + 1
        BY <2>2
      <4> QED BY <2>2, <2>6, <4>1 DEF WorksInv, WorksApart
    <3>2. \A k \in 1..Len(queue') : queue'[k].agents \cap c.agents = {}
      BY <2>2, <2>3, <2>6 DEF WorksInv, WorksApart, c
    <3>3. \A k \in 1..Len(queue'), v \in Agent \ {w} : Runs(v) => queue'[k].agents \cap worker[v].work.agents = {}
      BY <2>2, <2>6 DEF WorksInv, WorksApart, InWork
    <3>4. \A v \in Agent \ {w} : Runs(v) => c.agents \cap worker[v].work.agents = {}
      BY <2>3 DEF WorksInv, WorksApart, InWork, c
    <3>5. \A k \in 1..Len(queue'), v \in Agent : Runs(v)' => queue'[k].agents \cap worker'[v].work.agents = {}
      BY <2>4, <2>5, <3>2, <3>3
    <3>6. \A u, v \in Agent : u # v /\ Runs(u)' /\ Runs(v)' => worker'[u].work.agents \cap worker'[v].work.agents = {}
      BY <2>4, <2>5, <3>4 DEF WorksInv, WorksApart, InWork
    <3> QED BY <3>1, <3>5, <3>6 DEF WorksApart, InWork
  <2>9. Leads' = Leads
    <3>1. {Lead(queue[k]) : k \in 1..Len(queue)} = {Lead(queue'[k]) : k \in 1..Len(queue')} \cup {Lead(c)}
      <4>1. \A k \in 1..Len(queue) : k = 1 \/ (k - 1 \in 1..Len(queue') /\ queue'[k - 1] = queue[k])
        <5> SUFFICES ASSUME NEW k \in 1..Len(queue), k # 1 PROVE k - 1 \in 1..Len(queue') /\ queue'[k - 1] = queue[k]
          OBVIOUS
        <5>1. k - 1 \in 1..Len(queue') /\ (k - 1) + 1 = k
          BY <2>1, <2>2
        <5> QED BY <2>2, <5>1
      <4>2. \A k \in 1..Len(queue') : queue'[k] = queue[k + 1] /\ k + 1 \in 1..Len(queue)
        BY <2>2, <2>6
      <4> QED BY <2>3, <4>1, <4>2 DEF c
    <3>2. {Lead(worker'[v].work) : v \in {u \in Agent : Runs(u)'}} = {Lead(worker[v].work) : v \in {u \in Agent : Runs(u)}} \cup {Lead(c)}
      BY <1>1, <2>4, <2>5
    <3> QED BY <3>1, <3>2 DEF Leads, Lead
  <2> QED BY <1>1, <2>1, <2>7, <2>8, <2>9 DEF WorksInv, WorksCounted, c
<1> QED BY <1>2, <1>3

\* A thread has called the function of its work: the work is done, is kept, or is left to others.
LEMMA ReturnedDoes ==
  ASSUME WorksInv, NEW w \in Agent, Runs(w), NEW c \in WorkRec, c.agents = InWork(w),
         c.fn # "none" => WorkOK(c), Returned(w, c)
  PROVE  /\ WorksInv' /\ ready' = ready + c.done /\ \A v \in Agent \ {w} : worker'[v] = worker[v]
         /\ \/ c.fn = "none" /\ worker'[w].pc = "pop" /\ queue' = queue /\ works' = works - 1
            \/ c.fn # "none" /\ worker'[w].pc = "pop" /\ queue' = Append(queue, c) /\ works' = works
            \/ c.fn # "none" /\ worker'[w].pc = "run" /\ worker'[w].work = c /\ queue' = queue /\ works' = works
<1> DEFINE on == [Started EXCEPT !.pc = "run", !.work = c, !.spin = 1]
<1>1. /\ queue \in Seq(WorkRec) /\ Len(queue) \in Nat /\ worker \in [Agent -> WorkerRec] /\ ready \in Nat /\ event \in BOOLEAN
      /\ WorkOK(worker[w].work)
  BY DEF WorksInv, WorksTyped
<1>2. c.done \in Nat /\ worker[w] \in WorkerRec
  BY <1>1 DEF WorkRec
<1>3. Work \in WorkRec /\ Started \in WorkerRec /\ Started.pc = "pop"
  BY DEF Started, Work, WorkerRec, WorkRec
<1>4. on \in WorkerRec /\ on.pc = "run" /\ on.work = c
  BY <1>3 DEF Started, Work, WorkerRec, WorkRec, Running
<1> HIDE DEF on
<1>5. ready' = ready + c.done /\ ready' \in Nat /\ event' \in BOOLEAN
  BY <1>1, <1>2 DEF Returned
<1>6. \/ c.fn = "none" /\ worker' = [worker EXCEPT ![w] = Started] /\ queue' = queue /\ works' = works - 1
      \/ c.fn # "none" /\ worker' = [worker EXCEPT ![w] = Started] /\ queue' = Append(queue, c) /\ works' = works
      \/ c.fn # "none" /\ worker' = [worker EXCEPT ![w] = on] /\ queue' = queue /\ works' = works
  BY DEF Returned, on
<1>7. ASSUME NEW v \in Agent \ {w}, Runs(v) PROVE worker[v].work.agents \cap c.agents = {}
  BY <1>7 DEF WorksInv, WorksApart, InWork
<1>8. \A k \in 1..Len(queue) : queue[k].agents \cap c.agents = {}
  BY DEF WorksInv, WorksApart
<1> DEFINE q == {Lead(queue[k]) : k \in 1..Len(queue)}
           r == {Lead(worker[v].work) : v \in {u \in Agent \ {w} : Runs(u)}}
<1>9. Leads = q \cup r \cup {Lead(c)}
  <2>1. Lead(c) = Lead(worker[w].work)
    BY DEF Lead, InWork
  <2>2. {Lead(worker[v].work) : v \in {u \in Agent : Runs(u)}} = r \cup {Lead(c)}
    BY <2>1
  <2> QED BY <2>2 DEF Leads
<1>10. Lead(c) \notin q \cup r
  <2>1. Lead(c) \in c.agents
    BY <1>1, LeadIn DEF Lead, InWork
  <2>2. \A k \in 1..Len(queue) : Lead(queue[k]) \in queue[k].agents
    BY LeadIn DEF WorksInv, WorksTyped
  <2>3. \A v \in Agent : Runs(v) => Lead(worker[v].work) \in worker[v].work.agents
    BY LeadIn DEF WorksInv, WorksTyped
  <2> QED BY <1>7, <1>8, <2>1, <2>2, <2>3
<1>11. CASE worker' = [worker EXCEPT ![w] = Started]
  <2>1. worker' \in [Agent -> WorkerRec] /\ worker'[w] = Started /\ \A v \in Agent \ {w} : worker'[v] = worker[v]
    BY <1>1, <1>3, <1>11
  <2>2. \A v \in Agent : Runs(v)' <=> Runs(v) /\ v # w
    BY <1>3, <2>1 DEF Runs, Running
  <2>3. {Lead(worker'[v].work) : v \in {u \in Agent : Runs(u)'}} = r
    BY <2>1, <2>2
  <2>4. \A v \in Agent : Runs(v)' =>
          /\ WorkOK(worker'[v].work)
          /\ worker'[v].pc # "run" => worker'[v].work.fn # "wait"
          /\ worker'[v].pc = "connect" => worker'[v].todo \subseteq worker'[v].work.agents
    BY <2>1, <2>2 DEF WorksInv, WorksTyped, InWork
  <2>5. \A u, v \in Agent : u # v /\ Runs(u)' /\ Runs(v)' => worker'[u].work.agents \cap worker'[v].work.agents = {}
    BY <2>1, <2>2 DEF WorksInv, WorksApart, InWork
  <2>6. CASE c.fn = "none" /\ queue' = queue /\ works' = works - 1
    <3>1. WorksTyped'
      BY <1>5, <2>1, <2>4, <2>6 DEF WorksInv, WorksTyped, InWork
    <3>2. \A k \in 1..Len(queue), v \in Agent : Runs(v)' => queue[k].agents \cap worker'[v].work.agents = {}
      BY <2>1, <2>2 DEF WorksInv, WorksApart, InWork
    <3>3. WorksApart'
      BY <2>5, <2>6, <3>2 DEF WorksInv, WorksApart, InWork
    <3>4. Leads' = Leads \ {Lead(c)}
      <4>1. Leads' = q \cup r
        BY <2>3, <2>6 DEF Leads, Lead
      <4> QED BY <1>9, <1>10, <4>1
    <3>5. Cardinality(Leads') = Cardinality(Leads) - 1
      BY <1>9, <3>4, LeadsFinite, FS_RemoveElement DEF WorksInv
    <3> QED BY <1>3, <1>5, <2>1, <2>6, <3>1, <3>3, <3>5 DEF WorksInv, WorksCounted
  <2>7. CASE c.fn # "none" /\ queue' = Append(queue, c) /\ works' = works
    <3> DEFINE n == Len(queue) + 1
    <3>1. queue' \in Seq(WorkRec) /\ Len(queue') = n /\ queue'[n] = c /\ n \in Nat /\ \A k \in 1..Len(queue) : queue'[k] = queue[k]
      BY <1>1, <2>7
    <3>2. \A k \in 1..n : k = n \/ k \in 1..Len(queue)
      BY <1>1
    <3>3. n \in 1..n /\ \A k \in 1..Len(queue) : k \in 1..n
      BY <1>1
    <3> HIDE DEF n
    <3>4. WorksTyped'
      <4>1. \A k \in 1..Len(queue') : WorkOK(queue'[k])
        BY <2>7, <3>1, <3>2 DEF WorksInv, WorksTyped
      <4> QED BY <1>5, <2>1, <2>4, <3>1, <4>1 DEF WorksTyped, InWork
    <3>5. WorksApart'
      <4>1. \A k \in 1..n, v \in Agent : Runs(v)' => queue'[k].agents \cap worker'[v].work.agents = {}
        <5> SUFFICES ASSUME NEW k \in 1..n, NEW v \in Agent, Runs(v)' PROVE queue'[k].agents \cap worker'[v].work.agents = {}
          OBVIOUS
        <5>1. CASE k = n
          BY <1>7, <2>1, <2>2, <3>1, <5>1
        <5>2. CASE k \in 1..Len(queue)
          BY <2>1, <2>2, <3>1, <5>2 DEF WorksInv, WorksApart, InWork
        <5> QED BY <3>2, <5>1, <5>2
      <4>2. \A k, l \in 1..n : k # l => queue'[k].agents \cap queue'[l].agents = {}
        <5> SUFFICES ASSUME NEW k \in 1..n, NEW l \in 1..n, k # l PROVE queue'[k].agents \cap queue'[l].agents = {}
          OBVIOUS
        <5>1. CASE k = n \/ l = n
          BY <1>8, <3>1, <3>2, <5>1
        <5>2. CASE k \in 1..Len(queue) /\ l \in 1..Len(queue)
          BY <3>1, <5>2 DEF WorksInv, WorksApart
        <5> QED BY <3>2, <5>1, <5>2
      <4> QED BY <2>5, <3>1, <4>1, <4>2 DEF WorksApart, InWork
    <3>6. Leads' = Leads
      <4>1. {Lead(queue'[k]) : k \in 1..Len(queue')} = q \cup {Lead(c)}
        BY <3>1, <3>2, <3>3
      <4>2. Leads' = q \cup {Lead(c)} \cup r
        BY <2>3, <4>1 DEF Leads, Lead
      <4> QED BY <1>9, <4>2
    <3> QED BY <1>3, <1>5, <2>1, <2>7, <3>4, <3>5, <3>6 DEF WorksInv, WorksCounted
  <2>8. on # Started
    BY <1>3, <1>4
  <2>9. worker' # [worker EXCEPT ![w] = on]
    BY <1>1, <2>1, <2>8
  <2> QED BY <1>6, <2>6, <2>7, <2>9
<1>12. CASE c.fn # "none" /\ worker' = [worker EXCEPT ![w] = on] /\ queue' = queue /\ works' = works
  <2>1. worker' \in [Agent -> WorkerRec] /\ worker'[w] = on /\ \A v \in Agent \ {w} : worker'[v] = worker[v]
    BY <1>1, <1>4, <1>12
  <2>2. \A v \in Agent : Runs(v)' <=> Runs(v)
    BY <1>4, <2>1 DEF Runs, Running
  <2>3. \A v \in Agent : worker'[v].work.agents = worker[v].work.agents
    BY <1>4, <2>1 DEF InWork
  <2>4. WorksTyped'
    <3>1. \A v \in Agent : Runs(v)' =>
            /\ WorkOK(worker'[v].work)
            /\ worker'[v].pc # "run" => worker'[v].work.fn # "wait"
            /\ worker'[v].pc = "connect" => worker'[v].todo \subseteq worker'[v].work.agents
      BY <1>4, <1>12, <2>1, <2>2 DEF WorksInv, WorksTyped, InWork
    <3> QED BY <1>5, <1>12, <2>1, <3>1 DEF WorksInv, WorksTyped, InWork
  <2>5. WorksApart'
    BY <1>12, <2>2, <2>3 DEF WorksInv, WorksApart, InWork
  <2>6. Leads' = Leads
    <3>1. {v \in Agent : Runs(v)'} = {v \in Agent : Runs(v)}
      BY <2>2
    <3>2. \A v \in Agent : Lead(worker'[v].work) = Lead(worker[v].work)
      BY <2>3 DEF Lead
    <3>3. {Lead(worker'[v].work) : v \in {u \in Agent : Runs(u)'}} = {Lead(worker[v].work) : v \in {u \in Agent : Runs(u)}}
      BY <3>1, <3>2
    <3> QED BY <1>12, <3>3 DEF Leads, Lead
  <2> QED BY <1>4, <1>5, <1>12, <2>1, <2>4, <2>5, <2>6 DEF WorksInv, WorksCounted
<1> QED BY <1>6, <1>11, <1>12

\* The works are made: one about each agent, or one about all.
LEMMA StartWorks ==
  ASSUME WorksTyped, StartController
  PROVE  /\ WorksInv' /\ \A w \in Agent : worker'[w].pc \in {"pop", "exit"}
         /\ \A a \in Agent : \E k \in 1..Len(queue') : a \in queue'[k].agents /\ First(queue'[k])
<1> DEFINE Each == [a \in Agent |-> [Work EXCEPT !.agents = {a}, !.fn = "parallel"]]
           All  == [Work EXCEPT !.agents = Agent, !.fn = "sequential"]
<1>1. PICK t \in DistThreads :
       IF t > 1 /\ N > 1
       THEN /\ works' = N /\ queue' = Each
            /\ worker' = [w \in Agent |-> IF w <= t THEN Started ELSE [Started EXCEPT !.pc = "exit"]]
       ELSE /\ works' = 1 /\ queue' = <<All>>
            /\ worker' = [w \in Agent |-> IF w = 1 THEN Started ELSE [Started EXCEPT !.pc = "exit"]]
  BY DEF StartController
<1>2. Work \in WorkRec /\ Started \in WorkerRec /\ Started.pc = "pop" /\ [Started EXCEPT !.pc = "exit"] \in WorkerRec
      /\ [Started EXCEPT !.pc = "exit"].pc = "exit"
  BY DEF Started, Work, WorkerRec, WorkRec
<1>3. worker' \in [Agent -> WorkerRec] /\ \A w \in Agent : worker'[w].pc \in {"pop", "exit"}
  <2>1. CASE t > 1 /\ N > 1
    BY <1>1, <1>2, <2>1
  <2>2. CASE ~(t > 1 /\ N > 1)
    BY <1>1, <1>2, <2>2
  <2> QED BY <2>1, <2>2
<1>4. \A w \in Agent : ~Runs(w)'
  BY <1>3 DEF Runs, Running
<1>5. ready' \in Nat /\ event' \in BOOLEAN
  BY DEF StartController, WorksTyped
<1>6. Agent \in SUBSET Nat /\ Agent # {} /\ N \in Nat /\ 1 \in Agent
  BY Numbers DEF Agent
<1>7. CASE t > 1 /\ N > 1
  <2>1. \A a \in Agent : Each[a] \in WorkRec /\ Each[a].agents = {a} /\ Each[a].fn = "parallel" /\ Each[a].done = 0
    BY DEF Work, WorkRec
  <2>2. queue' = Each /\ works' = N /\ queue' \in Seq(WorkRec) /\ Len(queue') = N /\ 1..Len(queue') = Agent
    <3>1. Each \in [1..N -> WorkRec]
      BY <2>1 DEF Agent
    <3> HIDE DEF Each
    <3>2. Each \in Seq(WorkRec) /\ Len(Each) = N
      BY <1>6, <3>1
    <3> QED BY <1>1, <1>7, <3>2 DEF Agent
  <2> HIDE DEF Each
  <2>3. \A a \in Agent : Lead(Each[a]) = a
    BY <1>6, <2>1, LeastOne DEF Lead
  <2>4. \A a \in Agent : WorkOK(Each[a])
    BY <1>6, <2>1, LeastOne DEF WorkOK
  <2>5. WorksTyped' /\ WorksApart'
    <3>1. \A k \in 1..Len(queue') : WorkOK(queue'[k]) /\ queue'[k].agents = {k}
      BY <2>1, <2>2, <2>4
    <3>2. WorksTyped'
      BY <1>3, <1>4, <1>5, <2>2, <3>1 DEF WorksTyped
    <3>3. \A k, l \in 1..Len(queue') : k # l => queue'[k].agents \cap queue'[l].agents = {}
      BY <3>1
    <3> QED BY <1>4, <3>2, <3>3 DEF WorksApart
  <2>6. Leads' = Agent
    BY <1>4, <2>2, <2>3 DEF Leads, Lead
  <2>7. Cardinality(Agent) = N
    <3>1. 1 \in Int /\ N \in Int /\ N - 1 + 1 = N /\ ~(1 > N)
      BY Numbers
    <3> QED BY <3>1, FS_Interval DEF Agent
  <2>8. \A a \in Agent : \E k \in 1..Len(queue') : a \in queue'[k].agents /\ First(queue'[k])
    BY <2>1, <2>2 DEF First
  <2> QED BY <1>3, <2>2, <2>5, <2>6, <2>7, <2>8 DEF WorksInv, WorksCounted
<1>8. CASE ~(t > 1 /\ N > 1)
  <2>1. All \in WorkRec /\ All.agents = Agent /\ All.fn = "sequential" /\ All.done = 0 /\ All.retries = 0
    BY DEF Work, WorkRec
  <2> HIDE DEF All
  <2>2. queue' = <<All>> /\ works' = 1 /\ queue' \in Seq(WorkRec) /\ Len(queue') = 1 /\ queue'[1] = All
    <3>1. queue' = <<All>> /\ works' = 1
      BY <1>1, <1>8
    <3>2. \A c \in WorkRec : <<c>> \in Seq(WorkRec) /\ Len(<<c>>) = 1 /\ <<c>>[1] = c
      OBVIOUS
    <3> QED BY <2>1, <3>1, <3>2
  <2>3. \A k \in 1..Len(queue') : k = 1
    BY <2>2
  <2>4. WorkOK(All)
    BY <1>6, <2>1 DEF WorkOK
  <2>5. WorksTyped' /\ WorksApart'
    BY <1>3, <1>4, <1>5, <2>2, <2>3, <2>4 DEF WorksTyped, WorksApart
  <2>6. Leads' = {Lead(All)}
    <3>1. 1 \in 1..Len(queue')
      BY <2>2
    <3> QED BY <1>4, <2>2, <2>3, <3>1 DEF Leads, Lead
  <2>7. Cardinality({Lead(All)}) = 1
    BY FS_Singleton
  <2>8. \A a \in Agent : a \in queue'[1].agents /\ First(queue'[1]) /\ 1 \in 1..Len(queue')
    BY <2>1, <2>2 DEF First
  <2> QED BY <1>3, <2>2, <2>5, <2>6, <2>7, <2>8 DEF WorksInv, WorksCounted
<1> QED BY <1>7, <1>8

-----------------------------------------------------------------------------
(* Who has an agent's work. *)

\* What a thread does with the agents of its work, what becomes of those in the queue, and of
\* those in no work.
ViewOK ==
  /\ \A w \in Agent, a \in Agent : Runs(w) /\ a \in InWork(w) =>
       /\ ToConnect(a) <=> \/ worker[w].pc = "run" /\ First(worker[w].work)
                           \/ worker[w].pc = "connect" /\ a \in worker[w].todo
       /\ Asking(a) <=> worker[w].pc \in {"connect", "query", "mark"}
       /\ Asked(a) <=> worker[w].pc \in {"query", "mark"} /\ worker[w].sent > 0
  /\ \A k \in 1..Len(queue), a \in Agent : a \in queue[k].agents => (ToConnect(a) <=> First(queue[k]))
  /\ \A a \in Agent : ToConnect(a) =>
       (\E k \in 1..Len(queue) : a \in queue[k].agents) \/ (\E w \in Agent : Runs(w) /\ a \in InWork(w))

LEMMA Views == WorksTyped /\ WorksApart => ViewOK
<1> SUFFICES ASSUME WorksTyped, WorksApart PROVE ViewOK
  OBVIOUS
<1>1. \A w \in Agent : worker[w].pc \in {"run", "connect", "query", "mark"} => Runs(w)
  BY DEF Runs, Running
<1>2. \A w \in Agent : worker[w].pc = "connect" => worker[w].todo \subseteq InWork(w)
  BY <1>1 DEF WorksTyped
<1>3. ASSUME NEW w \in Agent, NEW a \in Agent, Runs(w), a \in InWork(w)
      PROVE  /\ ToConnect(a) <=> \/ worker[w].pc = "run" /\ First(worker[w].work)
                                 \/ worker[w].pc = "connect" /\ a \in worker[w].todo
             /\ Asking(a) <=> worker[w].pc \in {"connect", "query", "mark"}
             /\ Asked(a) <=> worker[w].pc \in {"query", "mark"} /\ worker[w].sent > 0
  <2>1. \A v \in Agent : Runs(v) /\ a \in InWork(v) => v = w
    BY <1>3 DEF WorksApart
  <2>2. ~Queued(a)
    BY <1>3 DEF WorksApart, Queued
  <2> QED BY <1>1, <1>2, <1>3, <2>1, <2>2 DEF ToConnect, Asking, Asked
<1>4. ASSUME NEW k \in 1..Len(queue), NEW a \in Agent, a \in queue[k].agents
      PROVE  ToConnect(a) <=> First(queue[k])
  <2>1. \A v \in Agent : Runs(v) => a \notin InWork(v)
    BY <1>4 DEF WorksApart
  <2>2. Queued(a) <=> First(queue[k])
    BY <1>4 DEF WorksApart, Queued
  <2> QED BY <1>1, <1>2, <2>1, <2>2 DEF ToConnect
<1>5. ASSUME NEW a \in Agent, ToConnect(a)
      PROVE  (\E k \in 1..Len(queue) : a \in queue[k].agents) \/ (\E w \in Agent : Runs(w) /\ a \in InWork(w))
  BY <1>1, <1>2, <1>5 DEF ToConnect, Queued
<1> QED BY <1>3, <1>4, <1>5 DEF ViewOK

LEMMA ViewsThen ==
  ASSUME WorksInv'
  PROVE  ViewOK'
<1>1. (WorksTyped /\ WorksApart => ViewOK)'
  BY Views, PTL
<1> QED BY <1>1 DEF WorksInv

\* An agent of which nothing changes that matters.
LEMMA AgentSame ==
  ASSUME NEW a \in Agent, AgentOK(a), merged'[a] = merged[a],
         agent'[a].state = agent[a].state, agent'[a].success = agent[a].success, agent'[a].failure = agent[a].failure,
         ToConnect(a)' <=> ToConnect(a), Asking(a) => Asking(a)',
         agent[a].state \in Answering => (Counted \/ Asked(a) => (Counted \/ Asked(a))'),
         agent[a].success => main'.pc \in Round,
         main.pc = "take" => main'.pc = "take"
  PROVE  AgentOK(a)'
BY DEF AgentOK, Untried

\* The rest of a step of a thread that has a work.
LEMMA ThreadStep ==
  ASSUME Inv, NEW w \in Agent, Runs(w), WorksInv', UNCHANGED mainSide, ready' >= ready,
         \A v \in Agent \ {w} : worker'[v] = worker[v],
         Runs(w)' => InWork(w)' = InWork(w),
         \A a \in Agent \ InWork(w) : agent'[a] = agent[a] /\ (Queued(a)' <=> Queued(a)),
         \A a \in InWork(w) : AgentOK(a)' /\ (agent'[a].state = "REPLY" <=> agent[a].state = "REPLY"),
         ThreadOK(w)'
  PROVE  AgentsOK' /\ ThreadsOK' /\ MainOK'
<1>1. UNCHANGED <<main, merged, failures>> /\ ready \in Nat /\ ready' \in Nat /\ main.reported \in Nat
      /\ InWork(w) \subseteq Agent
  BY DEF mainSide, Inv, WorksInv, WorksTyped, Base0, MainTyped, Runs, Running, InWork, WorkOK, WorkRec
<1>2. \A v \in Agent : (worker[v].pc \in {"run", "connect", "query", "mark"} => Runs(v))
                       /\ (worker'[v].pc \in {"run", "connect", "query", "mark"} => Runs(v)')
  BY DEF Runs, Running
<1>3. \A v \in Agent : (worker[v].pc = "connect" => worker[v].todo \subseteq InWork(v))
                       /\ (worker'[v].pc = "connect" => worker'[v].todo \subseteq InWork(v)')
  BY <1>2 DEF Inv, WorksInv, WorksTyped
<1>4. works # 0 /\ main.pc \notin {"take", "return", "end"}
  <2>1. worker[w].pc # "exit"
    BY DEF Runs, Running
  <2> QED BY <2>1, NoWorks DEF Inv, MainOK
<1>5. Counted => Counted'
  BY <1>1 DEF Counted
<1>6. ASSUME NEW a \in Agent \ InWork(w) PROVE AgentOK(a)'
  <2>1. a \in Agent /\ AgentOK(a)
    BY DEF Inv, AgentsOK
  <2>2. (Runs(w) => a \notin InWork(w)) /\ (Runs(w)' => a \notin InWork(w)')
    BY <1>6
  <2>3. \A v \in Agent \ {w} : worker'[v] = worker[v] /\ InWork(v)' = InWork(v)
    BY DEF InWork
  <2>4. Asking(a) <=> Asking(a)'
    BY <1>2, <2>2, <2>3 DEF Asking
  <2>5. Asked(a) <=> Asked(a)'
    BY <1>2, <2>2, <2>3 DEF Asked
  <2>6. ToConnect(a) <=> ToConnect(a)'
    <3>1. (\E v \in Agent : worker[v].pc = "run" /\ a \in InWork(v) /\ First(worker[v].work))
          <=> (\E v \in Agent : worker'[v].pc = "run" /\ a \in InWork(v)' /\ First(worker'[v].work))
      BY <1>2, <2>2, <2>3
    <3>2. (\E v \in Agent : worker[v].pc = "connect" /\ a \in worker[v].todo)
          <=> (\E v \in Agent : worker'[v].pc = "connect" /\ a \in worker'[v].todo)
      BY <1>2, <1>3, <2>2, <2>3
    <3>3. ToConnect(a)' <=> \/ Queued(a)'
                            \/ \E v \in Agent : worker'[v].pc = "run" /\ a \in InWork(v)' /\ First(worker'[v].work)
                            \/ \E v \in Agent : worker'[v].pc = "connect" /\ a \in worker'[v].todo
      BY DEF ToConnect, First
    <3> QED BY <1>6, <3>1, <3>2, <3>3 DEF ToConnect
  <2>7. agent[a].success => main'.pc \in Round
    BY <1>1, <2>1 DEF AgentOK
  <2> QED BY <1>1, <1>4, <1>5, <1>6, <2>1, <2>4, <2>5, <2>6, <2>7, AgentSame
<1>7. AgentsOK'
  BY <1>6 DEF AgentsOK
<1>8. ASSUME NEW v \in Agent \ {w} PROVE ThreadOK(v)'
  <2>1. Runs(v) => \A a \in InWork(v) : a \in Agent /\ a \notin InWork(w) /\ agent'[a] = agent[a]
    <3>1. Runs(v) => InWork(v) \subseteq Agent /\ InWork(v) \cap InWork(w) = {}
      BY DEF Inv, WorksInv, WorksTyped, WorksApart, WorkOK, WorkRec, InWork
    <3> QED BY <3>1
  <2>2. ThreadOK(v) /\ worker'[v] = worker[v] /\ InWork(v)' = InWork(v)
    BY DEF Inv, ThreadsOK, InWork
  <2>3. worker[v].pc = "connect" /\ worker[v].work.fn = "parallel" => \A a \in InWork(v) \ worker[v].todo :
          /\ agent'[a].state \notin Answering
          /\ agent'[a].state = "UNUSED" => Untried(a)' /\ (agent'[a].failure \/ a \in Blackhole)
    BY <1>1, <1>2, <2>1, <2>2 DEF ThreadOK, Untried
  <2>4. worker[v].pc = "mark" => \E a \in InWork(v) : worker[v].todo = {a} /\ agent'[a].state = "QUERYED"
    BY <1>2, <2>1, <2>2 DEF ThreadOK
  <2> QED BY <2>2, <2>3, <2>4 DEF ThreadOK
<1>9. ThreadsOK'
  BY <1>8 DEF ThreadsOK
<1>10. MainOK'
  <2>1. ~main.done /\ main.reported <= ready'
    BY <1>1, <1>4 DEF Inv, MainOK
  <2>2. \A a \in Agent : agent'[a].state = "REPLY" <=> agent[a].state = "REPLY"
    BY <1>1
  <2>3. main.pc = "body" => agent'[main.cur].state = "REPLY"
    BY <2>2 DEF Inv, MainOK, Base0, MainTyped
  <2>4. main.pc \notin {"drop", "return", "end"}
    BY <2>1 DEF Inv, MainOK
  <2>5. \A a \in Agent : agent'[a].state = "REPLY" => main.pc \in {"poll", "body", "scan"}
    BY <2>2 DEF Inv, MainOK
  <2> QED BY <1>1, <1>4, <2>1, <2>3, <2>4, <2>5 DEF MainOK
<1> QED BY <1>7, <1>9, <1>10

-----------------------------------------------------------------------------
(* The steps of the threads. *)

\* A thread that goes on with its work: who has its agents, before and after.
LEMMA GoesOn ==
  ASSUME Inv, NEW w \in Agent, Runs(w), UNCHANGED <<queue, works, ready, event>>, NEW x \in WorkerRec,
         worker' = [worker EXCEPT ![w] = x], x.pc \in Running, x.work = worker[w].work,
         x.pc # "run" => x.work.fn # "wait", x.pc = "connect" => x.todo \subseteq x.work.agents
  PROVE  /\ WorksInv' /\ worker'[w] = x /\ InWork(w)' = InWork(w) /\ (\A v \in Agent \ {w} : worker'[v] = worker[v])
         /\ ready' >= ready /\ (\A a \in Agent : Queued(a)' <=> Queued(a))
         /\ \A a \in InWork(w) : a \in Agent /\ AgentOK(a)
              /\ (ToConnect(a) <=> \/ worker[w].pc = "run" /\ First(worker[w].work)
                                   \/ worker[w].pc = "connect" /\ a \in worker[w].todo)
              /\ (ToConnect(a)' <=> (x.pc = "run" /\ First(x.work)) \/ (x.pc = "connect" /\ a \in x.todo))
              /\ (Asking(a) <=> worker[w].pc # "run") /\ (Asking(a)' <=> x.pc # "run")
              /\ (Asked(a) <=> worker[w].pc \in {"query", "mark"} /\ worker[w].sent > 0)
              /\ (Asked(a)' <=> x.pc \in {"query", "mark"} /\ x.sent > 0)
<1>1. worker \in [Agent -> WorkerRec] /\ ready \in Nat
  BY DEF Inv, WorksInv, WorksTyped
<1>2. WorksInv'
  BY WorkGoesOn DEF Inv
<1>3. worker'[w] = x /\ (\A v \in Agent \ {w} : worker'[v] = worker[v]) /\ InWork(w)' = InWork(w)
  BY <1>1 DEF InWork
<1>4. Runs(w)'
  BY <1>3 DEF Runs
<1>5. ViewOK /\ ViewOK'
  BY <1>2, Views, ViewsThen DEF Inv, WorksInv
<1>6. \A a \in Agent : Queued(a)' <=> Queued(a)
  BY DEF Queued, First
<1>7. worker[w].pc \in Running
  BY DEF Runs
<1>8. ASSUME NEW a \in InWork(w)
      PROVE  /\ a \in Agent /\ AgentOK(a)
             /\ ToConnect(a) <=> \/ worker[w].pc = "run" /\ First(worker[w].work)
                                 \/ worker[w].pc = "connect" /\ a \in worker[w].todo
             /\ ToConnect(a)' <=> (x.pc = "run" /\ First(x.work)) \/ (x.pc = "connect" /\ a \in x.todo)
             /\ Asking(a) <=> worker[w].pc # "run"
             /\ Asking(a)' <=> x.pc # "run"
             /\ Asked(a) <=> worker[w].pc \in {"query", "mark"} /\ worker[w].sent > 0
             /\ Asked(a)' <=> x.pc \in {"query", "mark"} /\ x.sent > 0
  <2>1. a \in Agent /\ AgentOK(a)
    BY <1>1 DEF InWork, WorkerRec, WorkRec, Inv, AgentsOK
  <2>2. /\ ToConnect(a) <=> \/ worker[w].pc = "run" /\ First(worker[w].work)
                            \/ worker[w].pc = "connect" /\ a \in worker[w].todo
        /\ Asking(a) <=> worker[w].pc \in {"connect", "query", "mark"}
        /\ Asked(a) <=> worker[w].pc \in {"query", "mark"} /\ worker[w].sent > 0
    BY <1>5, <2>1 DEF ViewOK
  <2>3. /\ ToConnect(a)' <=> \/ worker'[w].pc = "run" /\ First(worker'[w].work)
                             \/ worker'[w].pc = "connect" /\ a \in worker'[w].todo
        /\ Asking(a)' <=> worker'[w].pc \in {"connect", "query", "mark"}
        /\ Asked(a)' <=> worker'[w].pc \in {"query", "mark"} /\ worker'[w].sent > 0
    BY <1>3, <1>4, <1>5, <2>1 DEF ViewOK, First
  <2>4. /\ ToConnect(a)' <=> (x.pc = "run" /\ First(x.work)) \/ (x.pc = "connect" /\ a \in x.todo)
        /\ Asking(a)' <=> x.pc \in {"connect", "query", "mark"}
        /\ Asked(a)' <=> x.pc \in {"query", "mark"} /\ x.sent > 0
    BY <1>3, <2>3 DEF First
  <2> QED BY <1>7, <2>1, <2>2, <2>4 DEF Running
<1>9. ready' >= ready
  BY <1>1
<1> QED BY <1>2, <1>3, <1>6, <1>8, <1>9

\* A thread that has a work is past the start and before the end.
LEMMA Midway ==
  ASSUME Inv, NEW w \in Agent, worker[w].pc # "exit"
  PROVE  main.pc \notin {"take", "return", "end"}
BY DEF Inv, MainOK

LEMMA PopStep ==
  ASSUME Inv, NEW w \in Agent, Pop(w)
  PROVE  Inv'
<1>1. WorksInv' /\ UNCHANGED <<works, ready, event>>
      /\ \/ queue = <<>> /\ queue' = queue /\ worker' = [worker EXCEPT ![w].pc = "exit"]
         \/ /\ worker' = [worker EXCEPT ![w].pc = "run", ![w].work = queue[1]]
            /\ queue \in Seq(WorkRec) /\ Len(queue) > 0 /\ queue' = Tail(queue)
  BY PopDoes DEF Inv
<1>2. UNCHANGED <<agent, main, merged, failures>> /\ Base0' /\ worker[w].pc = "pop" /\ worker \in [Agent -> WorkerRec]
  BY BaseThread DEF Pop, Inv, mainSide, WorksInv, WorksTyped
<1>3. main.pc \notin {"take", "return", "end"}
  BY <1>2, Midway
<1>4. /\ \A v \in Agent \ {w} : worker'[v] = worker[v]
      /\ worker'[w].pc \in {"run", "exit"}
  <2>1. worker[w] \in WorkerRec
    BY <1>2
  <2>2. \A c : [worker[w] EXCEPT !.pc = "run", !.work = c].pc = "run" /\ [worker[w] EXCEPT !.pc = "exit"].pc = "exit"
    BY <2>1 DEF WorkerRec
  <2>3. \E x : worker' = [worker EXCEPT ![w] = x] /\ x.pc \in {"run", "exit"}
    <3>1. \A c : [worker EXCEPT ![w].pc = "run", ![w].work = c] = [worker EXCEPT ![w] = [worker[w] EXCEPT !.pc = "run", !.work = c]]
      BY <1>2
    <3>2. [worker EXCEPT ![w].pc = "exit"] = [worker EXCEPT ![w] = [worker[w] EXCEPT !.pc = "exit"]]
      BY <1>2
    <3>3. CASE worker' = [worker EXCEPT ![w].pc = "exit"]
      BY <2>2, <3>2, <3>3
    <3>4. CASE worker' = [worker EXCEPT ![w].pc = "run", ![w].work = queue[1]]
      <4>1. worker' = [worker EXCEPT ![w] = [worker[w] EXCEPT !.pc = "run", !.work = queue[1]]]
        BY <3>1, <3>4
      <4> QED BY <2>2, <4>1
    <3> QED BY <1>1, <3>3, <3>4
  <2> QED BY <1>2, <2>3
<1>5. \A a \in Agent : (ToConnect(a)' <=> ToConnect(a))
  <2> SUFFICES ASSUME NEW a \in Agent PROVE ToConnect(a)' <=> ToConnect(a)
    OBVIOUS
  <2>1. (\E v \in Agent : worker[v].pc = "connect" /\ a \in worker[v].todo)
        <=> (\E v \in Agent : worker'[v].pc = "connect" /\ a \in worker'[v].todo)
    BY <1>2, <1>4
  <2>2. ToConnect(a)' <=> \/ Queued(a)'
                          \/ \E v \in Agent : worker'[v].pc = "run" /\ a \in worker'[v].work.agents /\ First(worker'[v].work)
                          \/ \E v \in Agent : worker'[v].pc = "connect" /\ a \in worker'[v].todo
    BY DEF ToConnect, First, InWork
  <2>3. CASE queue = <<>> /\ queue' = queue /\ worker' = [worker EXCEPT ![w].pc = "exit"]
    <3>1. worker'[w].pc = "exit"
      BY <1>2, <2>3
    <3>2. (\E v \in Agent : worker[v].pc = "run" /\ a \in worker[v].work.agents /\ First(worker[v].work))
          <=> (\E v \in Agent : worker'[v].pc = "run" /\ a \in worker'[v].work.agents /\ First(worker'[v].work))
      BY <1>2, <1>4, <3>1
    <3>3. Queued(a)' <=> Queued(a)
      BY <2>3 DEF Queued, First
    <3> QED BY <2>1, <2>2, <3>2, <3>3 DEF ToConnect, InWork
  <2>4. CASE /\ worker' = [worker EXCEPT ![w].pc = "run", ![w].work = queue[1]]
             /\ queue \in Seq(WorkRec) /\ Len(queue) > 0 /\ queue' = Tail(queue)
    <3> DEFINE c == queue[1]
    <3>1. worker'[w].pc = "run" /\ worker'[w].work = c
      <4>1. worker[w] \in WorkerRec /\ worker'[w] = [worker[w] EXCEPT !.pc = "run", !.work = c]
        BY <1>2, <2>4
      <4> QED BY <4>1 DEF WorkerRec
    <3>2. Len(queue) \in Nat /\ Len(queue') = Len(queue) - 1 /\ \A k \in 1..Len(queue') : queue'[k] = queue[k + 1]
      BY <2>4
    <3>3. Queued(a) <=> Queued(a)' \/ (a \in c.agents /\ First(c))
      <4>1. \A k \in 1..Len(queue') : k + 1 \in 1..Len(queue) /\ queue'[k] = queue[k + 1]
        BY <3>2
      <4>2. ASSUME NEW k \in 1..Len(queue), k # 1 PROVE k - 1 \in 1..Len(queue') /\ queue'[k - 1] = queue[k]
        <5>1. k - 1 \in 1..Len(queue') /\ (k - 1) + 1 = k
          BY <2>4, <3>2, <4>2
        <5> QED BY <3>2, <5>1
      <4>3. 1 \in 1..Len(queue)
        BY <2>4, <3>2
      <4>4. Queued(a)' <=> \E k \in 1..Len(queue') : a \in queue'[k].agents /\ First(queue'[k])
        BY DEF Queued, First
      <4> QED BY <4>1, <4>2, <4>3, <4>4 DEF Queued, c
    <3> HIDE DEF c
    <3>4. (\E v \in Agent : worker'[v].pc = "run" /\ a \in worker'[v].work.agents /\ First(worker'[v].work))
          <=> (\E v \in Agent : worker[v].pc = "run" /\ a \in worker[v].work.agents /\ First(worker[v].work))
              \/ (a \in c.agents /\ First(c))
      BY <1>2, <1>4, <3>1
    <3> QED BY <2>1, <2>2, <3>3, <3>4 DEF ToConnect, InWork
  <2> QED BY <1>1, <2>3, <2>4
<1>6. \A a \in Agent : (Asking(a)' <=> Asking(a)) /\ (Asked(a)' <=> Asked(a))
  BY <1>2, <1>4 DEF Asking, Asked, InWork
<1>7. Counted' <=> Counted
  BY <1>1, <1>2 DEF Counted
<1>8. AgentsOK'
  <2> SUFFICES ASSUME NEW a \in Agent PROVE AgentOK(a)'
    BY DEF AgentsOK
  <2>1. AgentOK(a)
    BY DEF Inv, AgentsOK
  <2>2. agent[a].success => main'.pc \in Round
    BY <1>2, <2>1 DEF AgentOK
  <2> QED BY <1>2, <1>5, <1>6, <1>7, <2>1, <2>2, AgentSame
<1>9. ThreadsOK'
  BY <1>2, <1>4 DEF Inv, ThreadsOK, ThreadOK, InWork, Untried
<1>10. MainOK'
  BY <1>1, <1>2, <1>3 DEF Inv, MainOK
<1> QED BY <1>1, <1>2, <1>8, <1>9, <1>10 DEF Inv

LEMMA RunConnectStep ==
  ASSUME Inv, NEW w \in Agent, RunConnect(w)
  PROVE  Inv'
<1> DEFINE c == worker[w].work
           t == IF c.fn = "parallel" \/ c.retries = 0 THEN c.agents ELSE {a \in c.agents : agent[a].state = "RETRY"}
           x == [worker[w] EXCEPT !.pc = "connect", !.sent = 0, !.todo = t]
<1>1. worker' = [worker EXCEPT ![w] = x] /\ UNCHANGED <<queue, works, ready, event>> /\ UNCHANGED <<poolVars, agent, mainSide>>
      /\ worker[w].pc = "run" /\ c.fn # "wait"
  BY DEF RunConnect
<1>2. Runs(w) /\ worker[w] \in WorkerRec /\ WorkOK(c) /\ c \in WorkRec
  BY <1>1 DEF Runs, Running, Inv, WorksInv, WorksTyped, WorkerRec
<1>3. c.agents \subseteq Agent /\ t \subseteq c.agents /\ c.fn \in {"parallel", "sequential"} /\ c.agents = InWork(w)
  BY <1>1, <1>2 DEF WorkRec, WorkOK, InWork
<1>4. First(c) => t = c.agents
  BY <1>3 DEF First
<1>5. ~First(c) => t = {a \in c.agents : agent[a].state = "RETRY"}
  BY <1>3 DEF First
<1> HIDE DEF t, c
<1>6. x \in WorkerRec /\ x.pc = "connect" /\ x.todo = t /\ x.work = c
  BY <1>2, <1>3 DEF WorkerRec, Running, c
<1> HIDE DEF x
<1>7. /\ WorksInv' /\ worker'[w] = x /\ InWork(w)' = InWork(w) /\ (\A v \in Agent \ {w} : worker'[v] = worker[v])
      /\ ready' >= ready /\ (\A a \in Agent : Queued(a)' <=> Queued(a))
      /\ \A a \in InWork(w) : a \in Agent /\ AgentOK(a)
           /\ (ToConnect(a) <=> First(c)) /\ (ToConnect(a)' <=> a \in t) /\ Asking(a)' /\ ~Asked(a)
  <2>1. x.pc \in Running /\ x.work = worker[w].work /\ (x.pc # "run" => x.work.fn # "wait") /\ (x.pc = "connect" => x.todo \subseteq x.work.agents)
    BY <1>1, <1>3, <1>6 DEF Running, c
  <2> QED BY <1>1, <1>2, <1>6, <2>1, GoesOn DEF c
<1>8. Base0' /\ UNCHANGED <<main, merged, failures>>
  BY <1>1, BaseThread DEF Inv, mainSide
<1>9. main.pc # "take"
  BY <1>1, Midway
<1>10. ASSUME NEW a \in InWork(w) PROVE AgentOK(a)'
  <2>1. agent'[a] = agent[a] /\ (Counted => Counted') /\ merged' = merged
    BY <1>1, <1>8 DEF Counted
  <2>2. a \in t => Untried(a) /\ agent[a].state \in {"UNUSED", "RETRY"}
    BY <1>3, <1>4, <1>5, <1>7 DEF AgentOK
  <2>3. ToConnect(a) => a \in t
    BY <1>3, <1>4, <1>7
  <2> QED BY <1>7, <1>8, <1>9, <2>1, <2>2, <2>3 DEF AgentOK, Untried
<1>11. ThreadOK(w)'
  <2>1. x.work.fn = "parallel" => InWork(w) \ t = {}
    BY <1>3, <1>4, <1>6 DEF First
  <2> QED BY <1>6, <1>7, <2>1 DEF ThreadOK
<1>12. AgentsOK' /\ ThreadsOK' /\ MainOK'
  BY <1>1, <1>2, <1>7, <1>10, <1>11, ThreadStep
<1> QED BY <1>7, <1>8, <1>12 DEF Inv

LEMMA ConnectStep ==
  ASSUME Inv, NEW w \in Agent, Connect(w)
  PROVE  Inv'
<1>1. worker[w].pc = "connect" /\ UNCHANGED <<queue, works, ready, event>> /\ UNCHANGED <<main, merged, failures>>
      /\ UNCHANGED mainSide
  BY DEF Connect, mainSide
<1>2. main.pc \notin {"take", "return", "end"}
  BY <1>1, Midway
<1>3. Base0'
  BY <1>2, ConnectDoes DEF Inv, WorksInv
<1>4. PICK a \in worker[w].todo :
        /\ worker' = [worker EXCEPT ![w].todo = @ \ {a}]
        /\ \A b \in Agent \ {a} : agent'[b] = agent[b]
        /\ agent'[a].state \in Initial \cup {"UNUSED", "RETRY"}
        /\ agent'[a].state \notin Initial => agent'[a].failure
        /\ ~agent'[a].success
  BY <1>2, ConnectDoes DEF Inv, WorksInv
<1>5. Runs(w) /\ worker[w] \in WorkerRec /\ worker[w].todo \subseteq InWork(w) /\ worker[w].work.fn # "wait"
  BY <1>1 DEF Runs, Running, Inv, WorksInv, WorksTyped
<1> DEFINE x == [worker[w] EXCEPT !.todo = worker[w].todo \ {a}]
<1>6. x \in WorkerRec /\ x.pc = "connect" /\ x.todo = worker[w].todo \ {a} /\ x.work = worker[w].work
  BY <1>1, <1>5 DEF WorkerRec
<1>7. worker' = [worker EXCEPT ![w] = x]
  BY <1>4
<1> HIDE DEF x
<1>8. /\ WorksInv' /\ worker'[w] = x /\ InWork(w)' = InWork(w) /\ (\A v \in Agent \ {w} : worker'[v] = worker[v])
      /\ ready' >= ready /\ (\A b \in Agent : Queued(b)' <=> Queued(b))
      /\ \A b \in InWork(w) : b \in Agent /\ AgentOK(b)
           /\ (ToConnect(b) <=> b \in worker[w].todo) /\ (ToConnect(b)' <=> b \in x.todo)
           /\ Asking(b)' /\ ~Asked(b)
  <2>1. x.pc \in Running /\ x.work = worker[w].work /\ (x.pc # "run" => x.work.fn # "wait") /\ (x.pc = "connect" => x.todo \subseteq x.work.agents)
    BY <1>1, <1>5, <1>6 DEF Running, InWork
  <2> QED BY <1>1, <1>5, <1>6, <1>7, <2>1, GoesOn
<1>9. a \in InWork(w) /\ a \in Agent /\ ToConnect(a) /\ AgentOK(a)
  BY <1>4, <1>5, <1>8
<1>10. Counted' <=> Counted
  BY <1>1 DEF Counted
<1>11. \A s \in Initial \cup {"UNUSED", "RETRY"} : s # "REPLY" /\ s \notin Answering
  BY DEF Initial, Answering
<1>12. AgentOK(a)'
  <2>1. ~ToConnect(a)' /\ Asking(a)'
    BY <1>6, <1>8, <1>9
  <2>2. merged[a] = 0 /\ merged'[a] = 0
    BY <1>1, <1>9 DEF AgentOK, Untried
  <2>3. ~agent'[a].success /\ agent'[a].state \notin Answering /\ agent'[a].state # "REPLY"
    BY <1>4, <1>11
  <2>4. (agent'[a].state = "RETRY" => agent'[a].failure) /\ (~agent'[a].failure => agent'[a].state \in Initial)
    <3>1. "RETRY" \notin Initial
      BY DEF Initial
    <3> QED BY <1>4, <3>1
  <2> QED BY <2>1, <2>2, <2>3, <2>4 DEF AgentOK, Untried
<1>13. ASSUME NEW b \in InWork(w) PROVE AgentOK(b)' /\ (agent'[b].state = "REPLY" <=> agent[b].state = "REPLY")
  <2>1. CASE b = a
    BY <1>4, <1>9, <1>11, <1>12, <2>1 DEF AgentOK
  <2>2. CASE b # a
    <3>1. agent'[b] = agent[b] /\ (ToConnect(b)' <=> ToConnect(b)) /\ Asking(b)' /\ ~Asked(b) /\ AgentOK(b) /\ b \in Agent
      BY <1>4, <1>6, <1>8, <2>2
    <3>2. agent[b].success => main'.pc \in Round
      BY <1>1, <3>1 DEF AgentOK
    <3> QED BY <1>1, <1>2, <1>10, <3>1, <3>2, AgentSame
  <2> QED BY <2>1, <2>2
<1>14. ThreadOK(w)'
  <2>1. ASSUME worker[w].work.fn = "parallel", NEW b \in InWork(w) \ x.todo
        PROVE  /\ agent'[b].state \notin Answering
               /\ agent'[b].state = "UNUSED" => Untried(b)' /\ (agent'[b].failure \/ b \in Blackhole)
    <3>1. CASE b = a
      <4>1. Untried(a)'
        BY <1>1, <1>4, <1>9 DEF AgentOK, Untried
      <4>2. "UNUSED" \notin Initial
        BY DEF Initial
      <4> QED BY <1>4, <1>11, <3>1, <4>1, <4>2
    <3>2. CASE b # a
      <4>1. b \in InWork(w) \ worker[w].todo /\ agent'[b] = agent[b]
        BY <1>4, <1>6, <1>8, <2>1, <3>2
      <4>2. ThreadOK(w)
        BY DEF Inv, ThreadsOK
      <4> QED BY <1>1, <2>1, <4>1, <4>2 DEF ThreadOK, Untried
    <3> QED BY <3>1, <3>2
  <2> QED BY <1>6, <1>8, <2>1 DEF ThreadOK
<1>15. AgentsOK' /\ ThreadsOK' /\ MainOK'
  <2>1. \A b \in Agent \ InWork(w) : agent'[b] = agent[b]
    BY <1>4, <1>9
  <2> QED BY <1>1, <1>5, <1>8, <1>13, <1>14, <2>1, ThreadStep
<1> QED BY <1>3, <1>8, <1>15 DEF Inv

\* Between the functions of a work and its return: the thread goes on to x, an agent may change.
LEMMA AskingStep ==
  ASSUME Inv, NEW w \in Agent, worker[w].pc \in {"connect", "query", "mark"}, NEW x \in WorkerRec,
         worker' = [worker EXCEPT ![w] = x], UNCHANGED <<queue, works, ready, event, main, merged, failures>>, Base0',
         x.pc \in {"query", "mark"}, x.work = worker[w].work,
         worker[w].pc = "connect" => worker[w].todo = {}, worker[w].pc # "connect" => x.sent >= worker[w].sent,
         \A a \in Agent \ InWork(w) : agent'[a] = agent[a],
         \A a \in InWork(w) : agent'[a] = agent[a] \/
           /\ agent'[a].success = agent[a].success /\ agent[a].state # "UNUSED"
           /\ agent[a].failure => agent'[a].failure
           /\ agent[a].state # "REPLY" /\ agent'[a].state # "REPLY"
           /\ agent'[a].state = "RETRY" => agent'[a].failure
           /\ agent'[a].state \in Answering => x.sent > 0 \/ agent[a].state \in Answering
           /\ agent'[a].state \notin Answering \cup Initial => agent'[a].failure,
         ThreadOK(w)'
  PROVE  Inv'
<1>1. Runs(w) /\ x.pc \in Running /\ x.pc # "run" /\ worker[w].work.fn # "wait" /\ UNCHANGED mainSide
      /\ worker[w] \in WorkerRec /\ worker[w].sent \in Nat /\ x.sent \in Nat
  BY DEF Runs, Running, Inv, WorksInv, WorksTyped, mainSide, WorkerRec
<1>2. main.pc \notin {"take", "return", "end"}
  BY Midway
<1>3. /\ WorksInv' /\ worker'[w] = x /\ InWork(w)' = InWork(w) /\ (\A v \in Agent \ {w} : worker'[v] = worker[v])
      /\ ready' >= ready /\ (\A a \in Agent : Queued(a)' <=> Queued(a))
      /\ \A a \in InWork(w) : a \in Agent /\ AgentOK(a)
           /\ ~ToConnect(a) /\ ~ToConnect(a)' /\ Asking(a)'
           /\ (Asked(a) <=> worker[w].pc \in {"query", "mark"} /\ worker[w].sent > 0) /\ (Asked(a)' <=> x.sent > 0)
  <2>1. UNCHANGED <<queue, works, ready, event>> /\ (x.pc # "run" => x.work.fn # "wait")
        /\ (x.pc = "connect" => x.todo \subseteq x.work.agents)
    BY <1>1
  <2>2. /\ WorksInv' /\ worker'[w] = x /\ InWork(w)' = InWork(w) /\ (\A v \in Agent \ {w} : worker'[v] = worker[v])
        /\ ready' >= ready /\ (\A a \in Agent : Queued(a)' <=> Queued(a))
        /\ \A a \in InWork(w) : a \in Agent /\ AgentOK(a)
             /\ (ToConnect(a) <=> \/ worker[w].pc = "run" /\ First(worker[w].work)
                                  \/ worker[w].pc = "connect" /\ a \in worker[w].todo)
             /\ (ToConnect(a)' <=> (x.pc = "run" /\ First(x.work)) \/ (x.pc = "connect" /\ a \in x.todo))
             /\ (Asking(a) <=> worker[w].pc # "run") /\ (Asking(a)' <=> x.pc # "run")
             /\ (Asked(a) <=> worker[w].pc \in {"query", "mark"} /\ worker[w].sent > 0)
             /\ (Asked(a)' <=> x.pc \in {"query", "mark"} /\ x.sent > 0)
    BY <1>1, <2>1, GoesOn
  <2> QED BY <1>1, <2>2
<1>4. Counted' <=> Counted
  BY DEF Counted
<1>5. ASSUME NEW a \in InWork(w) PROVE AgentOK(a)' /\ (agent'[a].state = "REPLY" <=> agent[a].state = "REPLY")
  <2>1. a \in Agent /\ AgentOK(a) /\ ~ToConnect(a) /\ ~ToConnect(a)' /\ Asking(a)' /\ (Asked(a) => Asked(a)')
        /\ (Asked(a)' <=> x.sent > 0)
    BY <1>1, <1>3
  <2>2. CASE agent'[a] = agent[a]
    <3>1. agent[a].success => main'.pc \in Round
      BY <2>1 DEF AgentOK
    <3> QED BY <1>2, <1>4, <2>1, <2>2, <3>1, AgentSame
  <2>3. CASE agent'[a] # agent[a]
    <3>1. /\ agent'[a].success = agent[a].success /\ agent[a].state # "UNUSED"
          /\ agent[a].failure => agent'[a].failure
          /\ agent[a].state # "REPLY" /\ agent'[a].state # "REPLY"
          /\ agent'[a].state = "RETRY" => agent'[a].failure
          /\ agent'[a].state \in Answering => x.sent > 0 \/ agent[a].state \in Answering
          /\ agent'[a].state \notin Answering \cup Initial => agent'[a].failure
      BY <2>3
    <3>2. Untried(a) /\ Untried(a)' /\ ~agent'[a].success /\ merged'[a] = 0
      BY <2>1, <3>1 DEF AgentOK, Untried
    <3>3. agent'[a].state \in Answering => (Counted \/ Asked(a))'
      BY <1>4, <2>1, <3>1 DEF AgentOK
    <3> QED BY <2>1, <3>1, <3>2, <3>3 DEF AgentOK
  <2> QED BY <2>2, <2>3
<1>6. AgentsOK' /\ ThreadsOK' /\ MainOK'
  BY <1>1, <1>3, <1>5, ThreadStep
<1> QED BY <1>3, <1>6 DEF Inv

LEMMA QueryEventStep ==
  ASSUME Inv, NEW w \in Agent, QueryEvent(w)
  PROVE  Inv'
<1>1. worker[w].pc = "query" /\ UNCHANGED <<queue, works, ready, event, main, merged, failures>> /\ worker' = worker
  BY DEF QueryEvent, poolSide, mainSide
<1>2. main.pc \notin {"take", "return", "end"}
  BY <1>1, Midway
<1>3. Base0'
  BY <1>2, QueryEventDoes DEF Inv, WorksInv
<1>4. PICK a \in InWork(w) :
        /\ \A b \in Agent \ {a} : agent'[b] = agent[b]
        /\ agent[a].state \in Initial /\ agent'[a].state \in Initial \cup {"UNUSED", "RETRY"}
        /\ agent'[a].state \notin Initial => agent'[a].failure
        /\ agent'[a].success = agent[a].success
        /\ agent[a].failure => agent'[a].failure
  BY <1>2, QueryEventDoes DEF Inv, WorksInv
<1> DEFINE x == worker[w]
<1>5. x \in WorkerRec /\ worker' = [worker EXCEPT ![w] = x] /\ x.sent \in Nat /\ InWork(w) \subseteq Agent
      /\ x.pc \in {"query", "mark"} /\ x.work = worker[w].work /\ x.sent >= worker[w].sent
  BY <1>1 DEF Inv, WorksInv, WorksTyped, WorkerRec, WorkRec, InWork
<1> HIDE DEF x
<1>6. \A s \in Initial \cup {"UNUSED", "RETRY"} : s # "REPLY" /\ s \notin Answering
  BY DEF Initial, Answering
<1>7. "UNUSED" \notin Initial /\ "RETRY" \notin Initial
  BY DEF Initial
<1>8. ThreadOK(w)'
  BY <1>1 DEF ThreadOK
<1>9. (\A b \in Agent \ InWork(w) : agent'[b] = agent[b])
      /\ \A b \in InWork(w) : agent'[b] = agent[b] \/
              /\ agent'[b].success = agent[b].success /\ agent[b].state # "UNUSED"
              /\ agent[b].failure => agent'[b].failure
              /\ agent[b].state # "REPLY" /\ agent'[b].state # "REPLY"
              /\ agent'[b].state = "RETRY" => agent'[b].failure
              /\ agent'[b].state \in Answering => x.sent > 0 \/ agent[b].state \in Answering
              /\ agent'[b].state \notin Answering \cup Initial => agent'[b].failure
  <2>1. a \in Agent
    BY <1>5
  <2>2. agent[a].state \notin {"UNUSED", "REPLY"} /\ agent'[a].state # "REPLY" /\ agent'[a].state \notin Answering
    BY <1>4, <1>6, <1>7
  <2>3. agent'[a].state = "RETRY" => agent'[a].failure
    BY <1>4, <1>7
  <2> QED BY <1>4, <1>5, <2>1, <2>2, <2>3
<1>10. worker[w].pc \in {"connect", "query", "mark"} /\ (worker[w].pc = "connect" => worker[w].todo = {})
  BY <1>1
<1> QED BY <1>1, <1>3, <1>5, <1>8, <1>9, <1>10, AskingStep

LEMMA QuerySendStep ==
  ASSUME Inv, NEW w \in Agent, QuerySend(w)
  PROVE  Inv'
<1>1. worker[w].pc = "query" /\ UNCHANGED <<queue, works, ready, event, main, merged, failures>>
      /\ worker' = [worker EXCEPT ![w].sent = @ + 1]
  BY DEF QuerySend, mainSide
<1>2. main.pc \notin {"take", "return", "end"}
  BY <1>1, Midway
<1>3. Base0' /\ \E a \in InWork(w) :
              agent[a].state = "ESTABLISHED" /\ agent' = [agent EXCEPT ![a].state = "QUERYED"]
  BY <1>2, QuerySendDoes DEF Inv, WorksInv
<1>4. PICK a \in InWork(w) : agent[a].state = "ESTABLISHED" /\ agent' = [agent EXCEPT ![a].state = "QUERYED"]
  BY <1>3
<1> DEFINE x == [worker[w] EXCEPT !.sent = worker[w].sent + 1]
<1>5. worker[w] \in WorkerRec /\ worker[w].sent \in Nat /\ InWork(w) \subseteq Agent /\ worker \in [Agent -> WorkerRec]
  BY DEF Inv, WorksInv, WorksTyped, WorkerRec, WorkRec, InWork
<1>6. x \in WorkerRec /\ x.sent = worker[w].sent + 1 /\ x.pc = "query" /\ x.work = worker[w].work
  BY <1>1, <1>5 DEF WorkerRec
<1>7. worker' = [worker EXCEPT ![w] = x] /\ worker'[w] = x
  BY <1>1, <1>5
<1> HIDE DEF x
<1>8. agent[a] \in AgentRec /\ a \in Agent
  BY <1>5 DEF Inv, Base0, AgentTyped
<1>9. (\A b \in Agent \ {a} : agent'[b] = agent[b]) /\ agent'[a].state = "QUERYED" /\ agent'[a].success = agent[a].success
      /\ agent'[a].failure = agent[a].failure
  BY <1>4, <1>8 DEF AgentRec, Inv, Base0, AgentTyped
<1>10. ThreadOK(w)'
  BY <1>6, <1>7 DEF ThreadOK
<1>11. x.sent > 0 /\ x.sent >= worker[w].sent /\ "QUERYED" \in Answering /\ x.pc \in {"query", "mark"}
  BY <1>5, <1>6 DEF Answering
<1>12. (\A b \in Agent \ InWork(w) : agent'[b] = agent[b])
       /\ \A b \in InWork(w) : agent'[b] = agent[b] \/
              /\ agent'[b].success = agent[b].success /\ agent[b].state # "UNUSED"
              /\ agent[b].failure => agent'[b].failure
              /\ agent[b].state # "REPLY" /\ agent'[b].state # "REPLY"
              /\ agent'[b].state = "RETRY" => agent'[b].failure
              /\ agent'[b].state \in Answering => x.sent > 0 \/ agent[b].state \in Answering
              /\ agent'[b].state \notin Answering \cup Initial => agent'[b].failure
  BY <1>4, <1>5, <1>8, <1>9, <1>11
<1>13. worker[w].pc \in {"connect", "query", "mark"} /\ (worker[w].pc = "connect" => worker[w].todo = {})
  BY <1>1
<1> QED BY <1>1, <1>3, <1>6, <1>7, <1>10, <1>11, <1>12, <1>13, AskingStep

LEMMA QuerySeesStep ==
  ASSUME Inv, NEW w \in Agent, QuerySees(w)
  PROVE  Inv'
<1>1. worker[w].pc = "query" /\ UNCHANGED <<queue, works, ready, event, main, merged, failures>> /\ UNCHANGED <<poolVars, agent, mainSide>>
  BY DEF QuerySees, mainSide
<1>2. PICK a \in InWork(w) : agent[a].state = "QUERYED" /\ worker' = [worker EXCEPT ![w].pc = "mark", ![w].todo = {a}]
  BY DEF QuerySees
<1> DEFINE x == [worker[w] EXCEPT !.pc = "mark", !.todo = {a}]
<1>3. worker[w] \in WorkerRec /\ worker[w].sent \in Nat /\ InWork(w) \subseteq Agent /\ worker \in [Agent -> WorkerRec]
  BY DEF Inv, WorksInv, WorksTyped, WorkerRec, WorkRec, InWork
<1>4. x \in WorkerRec /\ x.sent = worker[w].sent /\ x.pc = "mark" /\ x.work = worker[w].work /\ x.todo = {a}
  BY <1>3 DEF WorkerRec, Running
<1>5. worker' = [worker EXCEPT ![w] = x] /\ worker'[w] = x
  BY <1>2, <1>3
<1> HIDE DEF x
<1>6. Base0'
  BY <1>1, BaseThread DEF Inv
<1>7. ThreadOK(w)'
  BY <1>1, <1>2, <1>4, <1>5 DEF ThreadOK, InWork
<1>8. x.sent >= worker[w].sent /\ x.pc \in {"query", "mark"} /\ \A b \in Agent : agent'[b] = agent[b]
  BY <1>1, <1>3, <1>4
<1> QED BY <1>1, <1>3, <1>4, <1>5, <1>6, <1>7, <1>8, AskingStep

LEMMA QueryMarksStep ==
  ASSUME Inv, NEW w \in Agent, QueryMarks(w)
  PROVE  Inv'
<1>1. worker[w].pc = "mark" /\ UNCHANGED <<queue, works, ready, event, main, merged, failures>> /\ UNCHANGED <<poolVars, mainSide>>
      /\ worker' = [worker EXCEPT ![w].pc = "query", ![w].todo = {}]
      /\ agent' = [agent EXCEPT ![Min(worker[w].todo)].state = "PREREPLY"]
  BY DEF QueryMarks, mainSide
<1>2. PICK a \in InWork(w) : worker[w].todo = {a} /\ agent[a].state = "QUERYED"
  BY <1>1 DEF Inv, ThreadsOK, ThreadOK
<1> DEFINE x == [worker[w] EXCEPT !.pc = "query", !.todo = {}]
<1>3. worker[w] \in WorkerRec /\ worker[w].sent \in Nat /\ InWork(w) \subseteq Agent /\ worker \in [Agent -> WorkerRec]
  BY DEF Inv, WorksInv, WorksTyped, WorkerRec, WorkRec, InWork
<1>4. x \in WorkerRec /\ x.sent = worker[w].sent /\ x.pc = "query" /\ x.work = worker[w].work
  BY <1>3 DEF WorkerRec, Running
<1>5. worker' = [worker EXCEPT ![w] = x] /\ worker'[w] = x
  BY <1>1, <1>3
<1> HIDE DEF x
<1>6. a \in Agent /\ a \in Nat /\ Min(worker[w].todo) = a
  BY <1>2, <1>3, LeastOne, Numbers DEF Agent
<1>7. agent' = [agent EXCEPT ![a].state = "PREREPLY"] /\ agent[a] \in AgentRec
  BY <1>1, <1>6 DEF Inv, Base0, AgentTyped
<1>8. "PREREPLY" \in State /\ "PREREPLY" \in Answering /\ "QUERYED" \in Answering /\ "PREREPLY" \notin Initial
  BY DEF State, Answering, Initial
<1>9. main.pc \notin {"take", "return", "end"}
  BY <1>1, Midway
<1>10. Base0'
  BY ZenonT(60), <1>1, <1>2, <1>6, <1>7, <1>8, <1>9, BaseState DEF Inv
<1>11. (\A b \in Agent \ {a} : agent'[b] = agent[b]) /\ agent'[a].state = "PREREPLY" /\ agent'[a].success = agent[a].success
      /\ agent'[a].failure = agent[a].failure
  BY <1>6, <1>7 DEF AgentRec, Inv, Base0, AgentTyped
<1>12. ThreadOK(w)'
  BY <1>4, <1>5 DEF ThreadOK
<1>13. x.sent >= worker[w].sent /\ x.pc \in {"query", "mark"}
  BY <1>3, <1>4
<1>14. (\A b \in Agent \ InWork(w) : agent'[b] = agent[b])
       /\ \A b \in InWork(w) : agent'[b] = agent[b] \/
              /\ agent'[b].success = agent[b].success /\ agent[b].state # "UNUSED"
              /\ agent[b].failure => agent'[b].failure
              /\ agent[b].state # "REPLY" /\ agent'[b].state # "REPLY"
              /\ agent'[b].state = "RETRY" => agent'[b].failure
              /\ agent'[b].state \in Answering => x.sent > 0 \/ agent[b].state \in Answering
              /\ agent'[b].state \notin Answering \cup Initial => agent'[b].failure
  BY <1>2, <1>3, <1>6, <1>8, <1>11
<1>15. worker[w].pc \in {"connect", "query", "mark"} /\ (worker[w].pc = "connect" => worker[w].todo = {})
  BY <1>1
<1> QED BY <1>1, <1>4, <1>5, <1>10, <1>12, <1>13, <1>14, <1>15, AskingStep

\* A function has returned, and its work is over, goes on or waits in the queue.
LEMMA ReturnedView ==
  ASSUME Inv, NEW w \in Agent, Runs(w), NEW c \in WorkRec, c.agents = InWork(w),
         c.fn # "none" => WorkOK(c), Returned(w, c)
  PROVE  /\ WorksInv' /\ ready' = ready + c.done /\ ready' >= ready /\ \A v \in Agent \ {w} : worker'[v] = worker[v]
         /\ Runs(w)' => InWork(w)' = InWork(w)
         /\ \A a \in Agent \ InWork(w) : Queued(a)' <=> Queued(a)
         /\ \A a \in InWork(w) : a \in Agent /\ AgentOK(a) /\ ~Asking(a)'
              /\ (ToConnect(a)' <=> c.fn # "none" /\ First(c))
         /\ ThreadOK(w)'
<1>1. /\ WorksInv' /\ ready' = ready + c.done /\ \A v \in Agent \ {w} : worker'[v] = worker[v]
      /\ \/ c.fn = "none" /\ worker'[w].pc = "pop" /\ queue' = queue /\ works' = works - 1
         \/ c.fn # "none" /\ worker'[w].pc = "pop" /\ queue' = Append(queue, c) /\ works' = works
         \/ c.fn # "none" /\ worker'[w].pc = "run" /\ worker'[w].work = c /\ queue' = queue /\ works' = works
  BY ReturnedDoes DEF Inv
<1>2. ready \in Nat /\ c.done \in Nat /\ InWork(w) \subseteq Agent /\ queue \in Seq(WorkRec)
  BY DEF Inv, WorksInv, WorksTyped, WorkRec
<1>3. ready' >= ready
  BY <1>1, <1>2
<1>4. Runs(w)' => worker'[w].pc = "run" /\ worker'[w].work = c
  BY <1>1 DEF Runs, Running
<1>5. Runs(w)' => InWork(w)' = InWork(w)
  BY <1>4 DEF InWork
<1>6. ViewOK'
  BY <1>1, ViewsThen
<1>7. queue' = queue \/ (queue' = Append(queue, c) /\ Len(queue') = Len(queue) + 1 /\ queue'[Len(queue')] = c
                        /\ \A k \in 1..Len(queue) : queue'[k] = queue[k])
  BY <1>1, <1>2, SMTT(30)
<1>8. ASSUME NEW a \in Agent \ InWork(w) PROVE Queued(a)' <=> Queued(a)
  <2>1. Queued(a)' <=> \E k \in 1..Len(queue') : a \in queue'[k].agents /\ First(queue'[k])
    BY DEF Queued, First
  <2>2. CASE queue' = queue
    BY <2>1, <2>2 DEF Queued
  <2>3. CASE queue' = Append(queue, c) /\ Len(queue') = Len(queue) + 1 /\ queue'[Len(queue')] = c
             /\ \A k \in 1..Len(queue) : queue'[k] = queue[k]
    <3>1. Len(queue) \in Nat /\ \A k \in 1..Len(queue') : k \in 1..Len(queue) \/ queue'[k] = c
      BY <1>2, <2>3
    <3>2. \A k \in 1..Len(queue) : k \in 1..Len(queue')
      BY <2>3, <3>1
    <3> QED BY <1>8, <2>1, <2>3, <3>1, <3>2 DEF Queued
  <2> QED BY <1>7, <2>2, <2>3
<1>9. ASSUME NEW a \in InWork(w)
      PROVE  a \in Agent /\ AgentOK(a) /\ ~Asking(a)' /\ (ToConnect(a)' <=> c.fn # "none" /\ First(c))
  <2>1. a \in Agent /\ AgentOK(a)
    BY <1>2 DEF Inv, AgentsOK
  <2>2. (\A v \in Agent \ {w} : Runs(v) => a \notin InWork(v)) /\ \A k \in 1..Len(queue) : a \notin queue[k].agents
    BY DEF Inv, WorksInv, WorksApart
  <2>3. \A v \in Agent \ {w} : (Runs(v)' <=> Runs(v)) /\ InWork(v)' = InWork(v)
    BY <1>1 DEF Runs, InWork
  <2>4. ~Asking(a)'
    <3>1. ASSUME NEW v \in Agent, worker'[v].pc \in {"connect", "query", "mark"} PROVE a \notin InWork(v)'
      <4>1. v # w
        BY <1>1, <3>1
      <4>2. Runs(v)'
        BY <3>1 DEF Runs, Running
      <4> QED BY <2>2, <2>3, <4>1, <4>2
    <3> QED BY <3>1 DEF Asking
  <2>5. CASE c.fn = "none" /\ worker'[w].pc = "pop" /\ queue' = queue
    <3>1. ~Runs(w)'
      BY <2>5 DEF Runs, Running
    <3>2. ~ToConnect(a)'
      <4> SUFFICES ASSUME ToConnect(a)' PROVE FALSE
        OBVIOUS
      <4>1. (\E k \in 1..Len(queue') : a \in queue'[k].agents) \/ (\E v \in Agent : Runs(v)' /\ a \in InWork(v)')
        BY <1>6, <2>1 DEF ViewOK
      <4> QED BY <2>2, <2>3, <2>5, <3>1, <4>1
    <3> QED BY <2>1, <2>4, <2>5, <3>2
  <2>6. CASE c.fn # "none" /\ worker'[w].pc = "pop" /\ queue' = Append(queue, c)
    <3>1. Len(queue') \in 1..Len(queue') /\ queue'[Len(queue')] = c
      BY <1>2, <2>6
    <3>2. ToConnect(a)' <=> First(queue'[Len(queue')])
      <4>1. \A k \in 1..Len(queue') : a \in queue'[k].agents => (ToConnect(a)' <=> First(queue'[k]))
        BY <1>6, <2>1 DEF ViewOK, First
      <4> QED BY <3>1, <4>1
    <3> QED BY <2>1, <2>4, <2>6, <3>1, <3>2
  <2>7. CASE c.fn # "none" /\ worker'[w].pc = "run" /\ worker'[w].work = c
    <3>1. Runs(w)' /\ a \in InWork(w)'
      BY <2>7 DEF Runs, Running, InWork
    <3>2. ToConnect(a)' <=> \/ worker'[w].pc = "run" /\ First(worker'[w].work)
                            \/ worker'[w].pc = "connect" /\ a \in worker'[w].todo
      BY <1>6, <2>1, <3>1 DEF ViewOK, First
    <3> QED BY <2>1, <2>4, <2>7, <3>2
  <2> QED BY <1>1, <2>5, <2>6, <2>7
<1>10. ThreadOK(w)'
  BY <1>1 DEF ThreadOK
<1> QED BY <1>1, <1>3, <1>5, <1>8, <1>9, <1>10

LEMMA RunWaitStep ==
  ASSUME Inv, NEW w \in Agent, RunWait(w)
  PROVE  Inv'
<1> DEFINE c == worker[w].work
<1>1. worker[w].pc = "run" /\ c.fn = "wait" /\ UNCHANGED <<poolVars, agent, mainSide>> /\ UNCHANGED <<main, merged, failures>>
  BY DEF RunWait, mainSide
<1>2. Runs(w) /\ WorkOK(c) /\ c \in WorkRec /\ c.agents = InWork(w)
  BY <1>1 DEF Runs, Running, Inv, WorksInv, WorksTyped, WorkOK, InWork
<1>3. PICK d \in WorkRec : Returned(w, d) /\ d.fn \in {"wait", "parallel"} /\ d.agents = c.agents /\ d.done = c.done
  <2>1. PICK late \in BOOLEAN : Returned(w, [c EXCEPT !.late = late, !.fn = IF late THEN "wait" ELSE "parallel"])
    BY <1>2, AgentsAssumption DEF RunWait, WorkRec
  <2> DEFINE d == [c EXCEPT !.late = late, !.fn = IF late THEN "wait" ELSE "parallel"]
  <2>2. d \in WorkRec /\ d.fn \in {"wait", "parallel"} /\ d.agents = c.agents /\ d.done = c.done
    BY <1>2 DEF WorkRec
  <2> QED BY <2>1, <2>2
<1>4. WorkOK(d) /\ d.fn # "none" /\ First(d) /\ First(c) /\ d.done = 0
  BY <1>1, <1>2, <1>3 DEF WorkOK, First
<1> HIDE DEF c
<1>5. /\ WorksInv' /\ ready' = ready + d.done /\ ready' >= ready /\ \A v \in Agent \ {w} : worker'[v] = worker[v]
      /\ Runs(w)' => InWork(w)' = InWork(w)
      /\ \A a \in Agent \ InWork(w) : Queued(a)' <=> Queued(a)
      /\ \A a \in InWork(w) : a \in Agent /\ AgentOK(a) /\ ~Asking(a)'
           /\ (ToConnect(a)' <=> d.fn # "none" /\ First(d))
      /\ ThreadOK(w)'
  BY <1>2, <1>3, <1>4, ReturnedView
<1>6. Base0' /\ main.pc \notin {"take", "return", "end"} /\ (Counted => Counted')
  <2>1. ready \in Nat /\ ready' \in Nat /\ main.reported \in Nat
    BY <1>5 DEF Inv, Base0, MainTyped, WorksInv, WorksTyped
  <2>2. Counted => Counted'
    BY <1>1, <1>5, <2>1 DEF Counted
  <2> QED BY <1>1, <2>2, BaseThread, Midway DEF Inv
<1>7. ASSUME NEW a \in InWork(w) PROVE AgentOK(a)' /\ agent'[a] = agent[a]
  <2>1. ToConnect(a) /\ ~Asking(a) /\ ~Asked(a)
    <3>1. ViewOK /\ a \in Agent
      BY <1>5, Views DEF Inv, WorksInv
    <3> QED BY <1>1, <1>2, <1>4, <3>1 DEF ViewOK, c
  <2>2. a \in Agent /\ AgentOK(a) /\ ToConnect(a)'
    BY <1>4, <1>5
  <2>3. agent[a].success => main'.pc \in Round
    BY <1>1, <2>2 DEF AgentOK
  <2> QED BY <1>1, <1>6, <2>1, <2>2, <2>3, AgentSame
<1>8. AgentsOK' /\ ThreadsOK' /\ MainOK'
  BY <1>1, <1>2, <1>5, <1>7, ThreadStep
<1> QED BY <1>5, <1>6, <1>8 DEF Inv

LEMMA ConnectedStep ==
  ASSUME Inv, NEW w \in Agent, Connected(w)
  PROVE  Inv'
<1>1. worker[w].pc = "connect" /\ worker[w].todo = {} /\ UNCHANGED mainSide /\ UNCHANGED <<main, merged, failures>>
  BY DEF Connected, mainSide
<1>2. main.pc \notin {"take", "return", "end"}
  BY <1>1, Midway
<1>3. Base0'
  BY <1>2, ConnectedDoes DEF Inv, WorksInv
<1>4. CASE worker' = [worker EXCEPT ![w].pc = "query"] /\ UNCHANGED <<agent, queue, works, ready, event>>
  <2> DEFINE x == [worker[w] EXCEPT !.pc = "query"]
  <2>1. worker[w] \in WorkerRec /\ worker \in [Agent -> WorkerRec] /\ InWork(w) \subseteq Agent
    BY DEF Inv, WorksInv, WorksTyped, WorkerRec, WorkRec, InWork
  <2>2. x \in WorkerRec /\ x.pc = "query" /\ x.work = worker[w].work
    BY <2>1 DEF WorkerRec, Running
  <2>3. worker' = [worker EXCEPT ![w] = x] /\ worker'[w] = x
    BY <1>4, <2>1
  <2> HIDE DEF x
  <2>4. ThreadOK(w)'
    BY <2>2, <2>3 DEF ThreadOK
  <2>5. x.pc \in {"query", "mark"} /\ (\A a \in Agent : agent'[a] = agent[a])
        /\ worker[w].pc \in {"connect", "query", "mark"} /\ (worker[w].pc # "connect" => x.sent >= worker[w].sent)
    BY <1>1, <1>4, <2>2
  <2> QED BY <1>1, <1>3, <1>4, <2>1, <2>2, <2>3, <2>4, <2>5, AskingStep
<1>5. CASE \E a \in Agent, s \in {"RETRY", "UNUSED"} :
             /\ worker[w].work.fn = "parallel" /\ InWork(w) = {a} /\ agent[a].state = "UNUSED"
             /\ agent' = [agent EXCEPT ![a].state = s]
             /\ Returned(w, NextRetry(worker[w].work))
  <2> DEFINE c == worker[w].work
             d == NextRetry(c)
  <2>1. PICK a \in Agent, s \in {"RETRY", "UNUSED"} :
             /\ c.fn = "parallel" /\ InWork(w) = {a} /\ agent[a].state = "UNUSED"
             /\ agent' = [agent EXCEPT ![a].state = s]
             /\ Returned(w, d)
    BY <1>5
  <2>2. Runs(w) /\ WorkOK(c) /\ c \in WorkRec /\ c.agents = InWork(w)
    BY <1>1 DEF Runs, Running, Inv, WorksInv, WorksTyped, WorkOK, InWork
  <2>3. d \in WorkRec /\ d.agents = InWork(w) /\ (d.fn # "none" => WorkOK(d))
    BY <2>1, <2>2, NextRetryIs
  <2> HIDE DEF d, c
  <2>4. /\ WorksInv' /\ ready' >= ready /\ \A v \in Agent \ {w} : worker'[v] = worker[v]
        /\ Runs(w)' => InWork(w)' = InWork(w)
        /\ \A b \in Agent \ InWork(w) : Queued(b)' <=> Queued(b)
        /\ \A b \in InWork(w) : AgentOK(b)
        /\ ThreadOK(w)'
    BY <2>1, <2>2, <2>3, ReturnedView
  <2>5. Untried(a) /\ (agent[a].failure \/ a \in Blackhole)
    BY <1>1, <2>1 DEF Inv, ThreadsOK, ThreadOK, c
  <2>6. agent[a] \in AgentRec /\ agent \in [Agent -> AgentRec]
    BY DEF Inv, Base0, AgentTyped
  <2>7. (\A b \in Agent \ {a} : agent'[b] = agent[b]) /\ agent'[a].state = s
        /\ agent'[a].success = agent[a].success /\ agent'[a].failure = agent[a].failure
    BY <2>1, <2>6 DEF AgentRec
  <2>8. AgentOK(a)'
    <3>1. Untried(a)' /\ ~agent'[a].success /\ merged'[a] = 0
      BY <1>1, <2>5, <2>7 DEF Untried
    <3>2. s \notin Initial /\ s \notin Answering /\ s # "REPLY" /\ s \in {"UNUSED", "RETRY"}
      BY DEF Initial, Answering
    <3> QED BY <2>5, <2>7, <3>1, <3>2 DEF AgentOK
  <2>9. \A b \in InWork(w) : AgentOK(b)' /\ (agent'[b].state = "REPLY" <=> agent[b].state = "REPLY")
    BY <2>1, <2>7, <2>8
  <2>10. AgentsOK' /\ ThreadsOK' /\ MainOK'
    BY <1>1, <2>1, <2>2, <2>4, <2>7, <2>9, ThreadStep
  <2> QED BY <1>3, <2>4, <2>10 DEF Inv
<1> QED BY <1>2, <1>4, <1>5, ConnectedDoes DEF Inv, WorksInv

LEMMA QueryDoneStep ==
  ASSUME Inv, NEW w \in Agent, QueryDone(w)
  PROVE  Inv'
<1>1. worker[w].pc = "query" /\ UNCHANGED mainSide /\ UNCHANGED <<main, merged, failures>>
  BY DEF QueryDone, mainSide
<1>2. main.pc \notin {"take", "return", "end"}
  BY <1>1, Midway
<1>3. /\ Base0' /\ \A a \in Agent \ InWork(w) : agent'[a] = agent[a]
      /\ \A a \in InWork(w) :
           /\ agent'[a].success = agent[a].success
           /\ agent'[a].failure <=> agent[a].failure \/ agent[a].state \in Initial
           /\ agent[a].state \in Answering => agent'[a].state = agent[a].state
           /\ agent[a].state \notin Answering => agent'[a].state \in {"UNUSED", "RETRY"}
           /\ agent'[a].state = "RETRY" => agent'[a].failure \/ agent[a].state = "RETRY"
           /\ agent[a].state = "UNUSED" => agent'[a].state = "UNUSED"
  BY <1>2, QueryDoneDoes DEF Inv, WorksInv
<1>4. PICK c \in WorkRec :
           /\ Returned(w, c) /\ c.agents = InWork(w)
           /\ \/ c.fn = "none"
              \/ c.fn = "wait" /\ WorkOK(c) /\ \A a \in InWork(w) : agent[a].state \in Initial \cup {"RETRY"}
              \/ c.fn = "sequential" /\ WorkOK(c) /\ c.retries > 0
           /\ worker[w].sent > 0 /\ (\E a \in InWork(w) : agent[a].state \in Answering) => c.done > 0
  BY <1>2, QueryDoneDoes DEF Inv, WorksInv
<1>5. Runs(w) /\ (c.fn # "none" => WorkOK(c)) /\ c.retries \in Nat /\ c.done \in Nat
  BY <1>1, <1>4 DEF Runs, Running, WorkRec
<1>6. /\ WorksInv' /\ ready' = ready + c.done /\ ready' >= ready /\ \A v \in Agent \ {w} : worker'[v] = worker[v]
      /\ Runs(w)' => InWork(w)' = InWork(w)
      /\ \A a \in Agent \ InWork(w) : Queued(a)' <=> Queued(a)
      /\ \A a \in InWork(w) : a \in Agent /\ AgentOK(a) /\ ~Asking(a)'
           /\ (ToConnect(a)' <=> c.fn # "none" /\ First(c))
      /\ ThreadOK(w)'
  BY <1>4, <1>5, ReturnedView
<1>7. \A a \in InWork(w) : ~ToConnect(a) /\ (Asked(a) <=> worker[w].sent > 0)
  <2>1. ViewOK /\ InWork(w) \subseteq Agent
    BY <1>6, Views DEF Inv, WorksInv
  <2> QED BY <1>1, <1>5, <2>1 DEF ViewOK
<1>8. ready \in Nat /\ main.reported \in Nat /\ main.reported <= ready
  BY DEF Inv, Base0, MainTyped, WorksInv, WorksTyped, MainOK
<1>9. ASSUME NEW a \in InWork(w) PROVE AgentOK(a)' /\ (agent'[a].state = "REPLY" <=> agent[a].state = "REPLY")
  <2>1. a \in Agent /\ AgentOK(a) /\ ~ToConnect(a) /\ (Asked(a) <=> worker[w].sent > 0)
    BY <1>6, <1>7
  <2>2. (Untried(a)' <=> Untried(a)) /\ merged'[a] = merged[a] /\ agent'[a].success = agent[a].success
    BY <1>1, <1>3 DEF Untried
  <2>3. \A s \in {"UNUSED", "RETRY"} : s \notin Initial /\ s \notin Answering /\ s # "REPLY"
    BY DEF Initial, Answering
  <2>4. "REPLY" \in Answering /\ \A s \in Answering : s \notin Initial /\ s \notin {"UNUSED", "RETRY"}
    BY DEF Initial, Answering
  <2>5. agent'[a].state = "REPLY" <=> agent[a].state = "REPLY"
    BY <1>3, <2>3, <2>4
  <2>6. agent'[a].state # "UNUSED" => Untried(a)'
    BY <1>3, <2>1, <2>2 DEF AgentOK
  <2>7. agent'[a].state = "RETRY" => agent'[a].failure \/ a \in Blackhole
    BY <1>3, <2>1 DEF AgentOK
  <2>8. ~Untried(a) => (agent'[a].failure <=> agent[a].failure)
    <3>1. ~Untried(a) => agent[a].state \notin Initial
      BY <2>1, <2>3 DEF AgentOK
    <3> QED BY <1>3, <3>1
  <2>9. (agent[a].success \/ merged[a] = 1) => ~Untried(a)
    BY DEF Untried
  <2>10. ToConnect(a)' => Untried(a)' /\ agent'[a].state \in {"UNUSED", "RETRY"}
    <3> SUFFICES ASSUME ToConnect(a)' PROVE Untried(a)' /\ agent'[a].state \in {"UNUSED", "RETRY"}
      OBVIOUS
    <3>1. c.fn # "none" /\ First(c)
      BY <1>6
    <3>2. c.fn = "wait"
      BY <1>4, <1>5, <3>1 DEF First
    <3>3. agent[a].state \in Initial \cup {"RETRY"}
      BY <1>4, <3>2
    <3>4. agent[a].state # "UNUSED" /\ agent[a].state \notin Answering
      BY <2>3, <2>4, <3>3
    <3> QED BY <1>3, <2>1, <2>2, <3>4 DEF AgentOK
  <2>11. agent'[a].state \notin Initial
    BY <1>3, <2>3, <2>4
  <2>12. agent'[a].state \in Answering => Counted'
    <3> SUFFICES ASSUME agent'[a].state \in Answering PROVE Counted'
      OBVIOUS
    <3>1. agent[a].state \in Answering
      BY <1>3, <2>3
    <3>2. CASE Counted
      BY <1>1, <1>5, <1>6, <1>8, <3>2 DEF Counted
    <3>3. CASE Asked(a)
      <4>1. c.done > 0
        BY <1>4, <2>1, <3>1, <3>3
      <4> QED BY <1>1, <1>5, <1>6, <1>8, <4>1 DEF Counted
    <3> QED BY <2>1, <3>1, <3>2, <3>3 DEF AgentOK
  <2>13. Untried(a)' /\ ~agent'[a].failure /\ a \notin Blackhole => agent'[a].state \in Answering
    BY <1>2, <1>3, <2>1, <2>2 DEF AgentOK
  <2>14. a \in Blackhole => Untried(a)' /\ agent'[a].state # "REPLY"
    BY <2>1, <2>2, <2>5 DEF AgentOK
  <2>15. (agent'[a].success => ~agent'[a].failure /\ merged'[a] = 0 /\ main'.pc \in Round)
         /\ (merged'[a] = 1 => ~agent'[a].success /\ ~agent'[a].failure)
    BY <1>1, <2>1, <2>2, <2>8, <2>9 DEF AgentOK
  <2>16. AgentOK(a)'
    BY <2>6, <2>7, <2>10, <2>11, <2>12, <2>13, <2>14, <2>15 DEF AgentOK
  <2> QED BY <2>5, <2>16
<1>10. AgentsOK' /\ ThreadsOK' /\ MainOK'
  BY <1>1, <1>3, <1>5, <1>6, <1>9, ThreadStep
<1> QED BY <1>3, <1>6, <1>10 DEF Inv

\* Every step of a thread keeps the invariant.
LEMMA WorkerSteps ==
  ASSUME Inv, NEW w \in Agent, WorkerStep(w)
  PROVE  Inv'
BY PopStep, RunWaitStep, RunConnectStep, ConnectStep, ConnectedStep, QueryEventStep, QuerySendStep,
   QuerySeesStep, QueryMarksStep, QueryDoneStep DEF WorkerStep

-----------------------------------------------------------------------------
(* The steps of the session. *)

\* A thread that has only looked at the agent need not look again.
Calm(a) ==
  agent[a].state \notin Answering =>
    /\ agent'[a].state \notin Answering
    /\ agent'[a].state = "UNUSED" =>
         \/ Untried(a)' /\ (agent'[a].failure \/ a \in Blackhole)
         \/ agent[a].state = "UNUSED" /\ ~(Untried(a) /\ (agent[a].failure \/ a \in Blackhole))

LEMMA SessionStep ==
  ASSUME Inv, UNCHANGED <<queue, worker, works, ready>>, event' \in BOOLEAN,
         (\A w \in Agent : worker[w].pc # "mark") \/ agent' = agent, \A a \in Agent : Calm(a)
  PROVE  /\ WorksInv' /\ ThreadsOK'
         /\ \A a \in Agent : (ToConnect(a)' <=> ToConnect(a)) /\ (Asking(a)' <=> Asking(a)) /\ (Asked(a)' <=> Asked(a))
<1>1. WorksInv'
  BY WorksSame DEF Inv
<1>2. \A a \in Agent : (ToConnect(a)' <=> ToConnect(a)) /\ (Asking(a)' <=> Asking(a)) /\ (Asked(a)' <=> Asked(a))
  BY DEF ToConnect, Queued, Asking, Asked, First, InWork
<1>3. ASSUME NEW w \in Agent PROVE ThreadOK(w)'
  <2>1. ThreadOK(w) /\ worker'[w] = worker[w] /\ InWork(w)' = InWork(w)
    BY DEF Inv, ThreadsOK, InWork
  <2>2. worker[w].pc = "connect" => InWork(w) \subseteq Agent
    BY DEF Inv, WorksInv, WorksTyped, WorkerRec, WorkRec, InWork
  <2>3. ASSUME worker[w].pc = "connect", worker[w].work.fn = "parallel", NEW a \in InWork(w) \ worker[w].todo
        PROVE  /\ agent'[a].state \notin Answering
               /\ agent'[a].state = "UNUSED" => Untried(a)' /\ (agent'[a].failure \/ a \in Blackhole)
    BY <2>1, <2>2, <2>3 DEF ThreadOK, Calm
  <2>4. worker[w].pc = "mark" => \E a \in InWork(w) : worker[w].todo = {a} /\ agent'[a].state = "QUERYED"
    BY <2>1 DEF ThreadOK
  <2> QED BY <2>1, <2>3, <2>4 DEF ThreadOK
<1> QED BY <1>1, <1>2, <1>3 DEF ThreadsOK

\* A step of the session that changes no agent.
LEMMA WatchStep ==
  ASSUME Inv, Base0', UNCHANGED <<queue, worker, works, ready, agent, merged>>, event' \in BOOLEAN,
         Counted => Counted', main.pc \in Round => main'.pc \in Round, main.pc = "take" => main'.pc = "take"
  PROVE  WorksInv' /\ AgentsOK' /\ ThreadsOK'
<1>1. ASSUME NEW a \in Agent PROVE Calm(a)
  BY DEF Calm, Untried
<1>2. /\ WorksInv' /\ ThreadsOK'
      /\ \A a \in Agent : (ToConnect(a)' <=> ToConnect(a)) /\ (Asking(a)' <=> Asking(a)) /\ (Asked(a)' <=> Asked(a))
  BY <1>1, SessionStep
<1>3. ASSUME NEW a \in Agent PROVE AgentOK(a)'
  <2>1. AgentOK(a)
    BY DEF Inv, AgentsOK
  <2>2. agent[a].success => main'.pc \in Round
    BY <2>1 DEF AgentOK
  <2> QED BY <1>2, <2>1, <2>2, AgentSame
<1> QED BY <1>2, <1>3 DEF AgentsOK

LEMMA WatchingStep ==
  ASSUME Inv, NoDelays, Watching
  PROVE  Inv'
<1>1. UNCHANGED <<queue, worker, works, ready, agent, merged>> /\ main.pc # "take" /\ event' \in BOOLEAN
  BY DEF Watching, WaitAgentsEvent, SpuriousWakeup, IsDone, HasReadyAgents, Scan, PollTimeout, ReplyPart, DropAgents,
         poolSide, Inv, WorksInv, WorksTyped
<1>2. Base0'
  BY WatchingDoes DEF Inv, WorksInv
<1>3. main \in MainRec /\ ready \in Nat /\ main.reported \in Nat /\ main.reported <= ready /\ works \in Nat
  <2>1. works \in 0..N
    BY WorksBounded DEF Inv
  <2> QED BY <2>1, Numbers DEF Inv, Base0, MainTyped, MainRec, WorksInv, WorksTyped, MainOK
<1>4. main.pc \notin Round => \A a \in Agent : ~agent[a].success
  BY DEF Inv, AgentsOK, AgentOK
<1>5. main.pc \notin {"poll", "body", "scan"} => \A a \in Agent : agent[a].state # "REPLY"
  BY DEF Inv, MainOK
<1>6. ASSUME WaitAgentsEvent \/ SpuriousWakeup \/ IsDone
      PROVE (Counted => Counted') /\ main.pc \notin Round /\ MainOK'
  <2>1. main.pc \in {"wait", "isdone"} /\ main'.pc \in {"isdone", "ready"} /\ main'.reported = main.reported
        /\ (main'.done = main.done \/ main'.done = (works = 0)) /\ failures' = failures
    BY <1>3, <1>6 DEF WaitAgentsEvent, SpuriousWakeup, IsDone, MainRec
  <2>2. main.pc \notin Round
    BY <2>1 DEF Round
  <2>3. Counted => Counted'
    BY <1>1, <2>1, <2>2 DEF Counted
  <2>4. MainOK'
    BY <1>1, <1>5, <2>1 DEF Inv, MainOK
  <2> QED BY <2>2, <2>3, <2>4
<1>7. ASSUME HasReadyAgents
      PROVE (Counted => Counted') /\ main.pc \notin Round /\ MainOK'
  <2>1. main.pc = "ready" /\ main' = [main EXCEPT !.pc = IF ready > main.reported THEN "scan" ELSE AfterRound,
                                                  !.reported = ready, !.reg = {}]
        /\ failures' = failures
    BY <1>7 DEF HasReadyAgents
  <2>2. main'.pc = (IF ready > main.reported THEN "scan" ELSE AfterRound) /\ main'.reported = ready /\ main'.done = main.done
    BY <1>3, <2>1 DEF MainRec
  <2>3. AfterRound \in {"drop", "wait"} /\ (AfterRound = "drop" => main.done)
    BY DEF AfterRound
  <2>4. Counted => Counted'
    BY <1>1, <2>1, <2>2 DEF Counted, Round
  <2>5. main'.pc = "drop" => main.done /\ \A a \in Agent : agent[a].state \notin Answering
    <3> SUFFICES ASSUME main'.pc = "drop" PROVE main.done /\ \A a \in Agent : agent[a].state \notin Answering
      OBVIOUS
    <3>1. ~(ready > main.reported) /\ main.done
      BY <2>2, <2>3
    <3>2. works = 0
      BY <2>1, <3>1 DEF Inv, MainOK
    <3>3. \A a \in Agent : ~Asked(a)
      <4>1. \A w \in Agent : ~Runs(w)
        BY <3>2, NoWorks DEF Inv
      <4> QED BY <4>1 DEF Asked, Runs, Running
    <3>4. ~Counted
      BY <2>1, <3>1 DEF Counted, Round
    <3> QED BY <3>1, <3>3, <3>4 DEF Inv, AgentsOK, AgentOK
  <2>6. main'.pc \in {"scan", "drop", "wait"} /\ (main'.done => works = 0) /\ (\A a \in Agent : agent[a].state # "REPLY")
        /\ \A a \in Agent : ~agent[a].success
    BY <1>4, <1>5, <2>1, <2>2, <2>3 DEF Round, Inv, MainOK
  <2>7. MainOK'
    BY <1>1, <1>3, <2>2, <2>5, <2>6 DEF MainOK
  <2> QED BY <2>1, <2>4, <2>7 DEF Round
<1>8. ASSUME Scan \/ PollTimeout \/ ReplyPart
      PROVE main'.pc \in Round /\ MainOK'
  <2>1. main.pc \in {"scan", "poll", "body"} /\ main'.pc \in {"close", "poll"} /\ main'.reported = main.reported
        /\ main'.done = main.done /\ failures' = failures
    BY <1>3, <1>8 DEF Scan, PollTimeout, ReplyPart, MainRec
  <2>2. main'.pc = "close" => \A a \in Agent : agent[a].state # "REPLY"
    <3>1. CASE PollTimeout
      BY <3>1 DEF PollTimeout, NoDelays
    <3>2. CASE Scan
      <4>1. main' = [main EXCEPT !.pc = IF {a \in Agent \ Blackhole : agent[a].state \in Answering} = {} THEN "close" ELSE "poll",
                                 !.reg = {a \in Agent \ Blackhole : agent[a].state \in Answering}]
        BY <3>2 DEF Scan
      <4>2. main'.pc = "close" => {a \in Agent \ Blackhole : agent[a].state \in Answering} = {}
        BY <1>3, <4>1 DEF MainRec
      <4>3. \A a \in Agent : agent[a].state = "REPLY" => a \notin Blackhole /\ agent[a].state \in Answering
        BY DEF Inv, AgentsOK, AgentOK, Answering
      <4> QED BY <4>2, <4>3
    <3>3. CASE ReplyPart
      BY <1>3, <3>3 DEF ReplyPart, MainRec
    <3> QED BY <1>8, <3>1, <3>2, <3>3
  <2>3. main'.done => works = 0
    BY <2>1 DEF Inv, MainOK
  <2>4. MainOK'
    BY <1>1, <1>3, <2>1, <2>2, <2>3 DEF MainOK
  <2> QED BY <2>1, <2>4 DEF Round
<1>9. ASSUME DropAgents
      PROVE (Counted => Counted') /\ main.pc \notin Round /\ MainOK'
  <2>1. main.pc = "drop" /\ main'.pc = "return" /\ main'.reported = main.reported /\ main'.done = main.done
        /\ failures' = {a \in Agent : agent[a].failure} /\ \A w \in Agent : worker[w].pc = "exit"
    BY <1>3, <1>9 DEF DropAgents, MainRec
  <2>2. main.pc \notin Round
    BY <2>1 DEF Round
  <2>3. Counted => Counted'
    BY <1>1, <2>1, <2>2 DEF Counted
  <2>4. main.done /\ works = 0 /\ \A a \in Agent : agent[a].state \notin Answering /\ ~agent[a].success
    BY <2>1 DEF Inv, MainOK
  <2>5. MainOK'
    BY <1>1, <1>3, <1>5, <2>1, <2>4 DEF MainOK
  <2> QED BY <2>2, <2>3, <2>5
<1>10. (Counted => Counted') /\ (main.pc \in Round => main'.pc \in Round) /\ MainOK'
  BY <1>6, <1>7, <1>8, <1>9 DEF Watching, Counted
<1>11. WorksInv' /\ AgentsOK' /\ ThreadsOK'
  BY <1>1, <1>2, <1>10, WatchStep
<1> QED BY <1>2, <1>10, <1>11 DEF Inv

LEMMA ReplyHeaderStep ==
  ASSUME Inv, NEW a \in Agent, ReplyHeader(a), \A w \in Agent : worker[w].pc # "mark"
  PROVE  Inv'
<1>1. /\ UNCHANGED <<queue, works, ready, event, worker, merged, failures>> /\ main.pc = "poll"
      /\ agent[a].state \in {"QUERYED", "PREREPLY"}
  BY DEF ReplyHeader, poolSide
<1>2. /\ Base0' /\ a \notin Blackhole /\ \A b \in Agent \ {a} : agent'[b] = agent[b]
      /\ agent'[a].success = agent[a].success
      /\ \/ agent'[a].state = "UNUSED" /\ agent'[a].failure /\ main' = Unwatch(a)
         \/ agent'[a].state = "REPLY" /\ agent'[a].failure = agent[a].failure
            /\ main' = [main EXCEPT !.pc = "body", !.cur = a]
  BY ReplyHeaderDoes DEF Inv
<1>3. main \in MainRec /\ event \in BOOLEAN /\ AgentOK(a)
  BY DEF Inv, Base0, MainTyped, MainRec, WorksInv, WorksTyped, AgentsOK
<1>4. /\ main'.pc \in {"scan", "poll", "body"} /\ main'.reported = main.reported /\ main'.done = main.done
      /\ main'.pc = "body" => main'.cur = a /\ agent'[a].state = "REPLY"
  <2>1. CASE main' = Unwatch(a)
    BY <1>3, <2>1, UnwatchIs
  <2>2. CASE main' = [main EXCEPT !.pc = "body", !.cur = a] /\ agent'[a].state = "REPLY"
    BY <1>3, <2>2 DEF MainRec
  <2> QED BY <1>2, <2>1, <2>2
<1>5. agent[a].state \in Answering
  BY <1>1 DEF Answering
<1>6. \A b \in Agent : Calm(b)
  BY <1>1, <1>2, <1>5 DEF Calm, Untried
<1>7. /\ WorksInv' /\ ThreadsOK'
      /\ \A b \in Agent : (ToConnect(b)' <=> ToConnect(b)) /\ (Asking(b)' <=> Asking(b)) /\ (Asked(b)' <=> Asked(b))
  BY <1>1, <1>3, <1>6, SessionStep
<1>8. main'.pc \in Round /\ Counted'
  BY <1>4 DEF Round, Counted
<1>9. AgentOK(a)'
  <2>1. Untried(a) /\ ~ToConnect(a)'
    BY <1>1, <1>3, <1>7 DEF AgentOK
  <2>2. Untried(a)' /\ ~agent'[a].success /\ merged'[a] = 0
    BY <1>1, <1>2, <2>1 DEF Untried
  <2>3. agent'[a].state \in {"UNUSED", "REPLY"} /\ agent'[a].state \notin Initial /\ "REPLY" \in Answering
    BY <1>2 DEF Initial, Answering
  <2> QED BY <1>2, <1>8, <2>1, <2>2, <2>3 DEF AgentOK
<1>10. AgentsOK'
  <2> SUFFICES ASSUME NEW b \in Agent, b # a PROVE AgentOK(b)'
    BY <1>9 DEF AgentsOK
  <2>1. AgentOK(b) /\ agent'[b] = agent[b]
    BY <1>2 DEF Inv, AgentsOK
  <2> QED BY <1>1, <1>7, <1>8, <2>1, AgentSame
<1>11. MainOK'
  <2>1. main.done => works = 0
    BY <1>1 DEF Inv, MainOK
  <2>2. main.reported <= ready
    BY DEF Inv, MainOK
  <2> QED BY <1>1, <1>4, <2>1, <2>2 DEF MainOK
<1> QED BY <1>2, <1>7, <1>10, <1>11 DEF Inv

LEMMA ReplyBodyStep ==
  ASSUME Inv, NEW a \in Agent, ReplyBody(a), \A w \in Agent : worker[w].pc # "mark"
  PROVE  Inv'
<1>1. UNCHANGED <<queue, works, ready, event, worker, merged, failures>>
  BY DEF ReplyBody, poolSide
<1>2. /\ Base0' /\ \A b \in Agent \ {a} : agent'[b] = agent[b]
      /\ main.pc \in {"poll", "body"} /\ main' = Unwatch(a) /\ agent[a].state = "REPLY"
      /\ \/ agent'[a].state = "UNUSED" /\ agent'[a].success /\ ~agent'[a].failure
         \/ agent'[a].state \in {"UNUSED", "RETRY"} /\ agent'[a].failure /\ agent'[a].success = agent[a].success
  BY ReplyBodyDoes DEF Inv
<1>3. main \in MainRec /\ event \in BOOLEAN /\ AgentOK(a)
  BY DEF Inv, Base0, MainTyped, MainRec, WorksInv, WorksTyped, AgentsOK
<1>4. main'.pc \in {"scan", "poll"} /\ main'.reported = main.reported /\ main'.done = main.done
  BY <1>2, <1>3, UnwatchIs
<1>5. agent[a].state \in Answering
  BY <1>2 DEF Answering
<1>6. \A b \in Agent : Calm(b)
  BY <1>1, <1>2, <1>5 DEF Calm, Untried
<1>7. /\ WorksInv' /\ ThreadsOK'
      /\ \A b \in Agent : (ToConnect(b)' <=> ToConnect(b)) /\ (Asking(b)' <=> Asking(b)) /\ (Asked(b)' <=> Asked(b))
  BY <1>1, <1>3, <1>6, SessionStep
<1>8. main'.pc \in Round /\ Counted'
  BY <1>4 DEF Round, Counted
<1>9. AgentOK(a)'
  <2>1. Untried(a) /\ ~ToConnect(a)' /\ a \notin Blackhole
    BY <1>2, <1>3, <1>7 DEF AgentOK
  <2>2. merged'[a] = 0 /\ ~agent[a].success
    BY <1>1, <2>1 DEF Untried
  <2>3. agent'[a].state \notin Initial /\ agent'[a].state \notin Answering /\ agent'[a].state \in {"UNUSED", "RETRY"}
    BY <1>2 DEF Initial, Answering
  <2>4. CASE agent'[a].state = "UNUSED" /\ agent'[a].success /\ ~agent'[a].failure
    BY <1>8, <2>1, <2>2, <2>3, <2>4 DEF AgentOK, Untried
  <2>5. CASE agent'[a].state \in {"UNUSED", "RETRY"} /\ agent'[a].failure /\ agent'[a].success = agent[a].success
    BY <1>8, <2>1, <2>2, <2>3, <2>5 DEF AgentOK, Untried
  <2> QED BY <1>2, <2>4, <2>5
<1>10. AgentsOK'
  <2> SUFFICES ASSUME NEW b \in Agent, b # a PROVE AgentOK(b)'
    BY <1>9 DEF AgentsOK
  <2>1. AgentOK(b) /\ agent'[b] = agent[b]
    BY <1>2 DEF Inv, AgentsOK
  <2> QED BY <1>1, <1>2, <1>7, <1>8, <2>1, AgentSame
<1>11. MainOK'
  <2>1. main.done => works = 0
    BY <1>2 DEF Inv, MainOK
  <2>2. main.reported <= ready
    BY DEF Inv, MainOK
  <2> QED BY <1>1, <1>4, <2>1, <2>2 DEF MainOK
<1> QED BY <1>2, <1>7, <1>10, <1>11 DEF Inv

LEMMA CloseTimedOutStep ==
  ASSUME Inv, CloseTimedOut, \A w \in Agent : worker[w].pc # "mark"
  PROVE  Inv'
<1>1. UNCHANGED <<queue, works, ready, event, worker, failures>> /\ main.pc = "close"
  BY DEF CloseTimedOut, poolSide
<1>2. Base0' /\ main' = [main EXCEPT !.pc = AfterRound]
  BY CloseTimedOutDoes DEF Inv
<1>3. \A a \in Agent :
        \/ /\ agent[a].success /\ ~agent'[a].success /\ ~agent'[a].failure /\ agent'[a].state = agent[a].state
           /\ agent[a].state = "UNUSED" /\ merged[a] = 0 /\ merged'[a] = 1 /\ a \notin Blackhole
        \/ /\ ~agent[a].success /\ ~agent'[a].success /\ merged'[a] = merged[a]
           /\ agent'[a].state \in {agent[a].state, "UNUSED"}
           /\ agent'[a].state # agent[a].state => a \in Blackhole \/ agent'[a].failure
           /\ agent[a].failure => agent'[a].failure
           /\ agent'[a].failure => agent[a].failure \/ agent[a].state \in {"QUERYED", "PREREPLY"}
           /\ agent'[a].state \in Answering => agent[a].state = "REPLY" /\ a \notin Blackhole
  BY CloseTimedOutDoes DEF Inv
<1>4. main \in MainRec /\ event \in BOOLEAN
  BY DEF Inv, Base0, MainTyped, MainRec, WorksInv, WorksTyped
<1>5. main'.pc \in {"drop", "wait"} /\ main'.reported = main.reported /\ main'.done = main.done
      /\ (main'.pc = "drop" => main.done)
  BY <1>2, <1>4 DEF AfterRound, MainRec
<1>6. \A a \in Agent : agent[a].state # "REPLY" /\ agent'[a].state \notin Answering
  <2>1. \A a \in Agent : agent[a].state # "REPLY"
    BY <1>1 DEF Inv, MainOK
  <2>2. "UNUSED" \notin Answering
    BY DEF Answering
  <2> QED BY <1>3, <2>1, <2>2
<1>7. ASSUME NEW a \in Agent PROVE Calm(a)
  <2>1. AgentOK(a)
    BY DEF Inv, AgentsOK
  <2>2. CASE agent[a].success
    BY <1>3, <1>6, <2>2 DEF Calm, Untried
  <2>3. CASE ~agent[a].success
    <3>1. /\ ~agent'[a].success /\ merged'[a] = merged[a]
          /\ agent'[a].state # agent[a].state => a \in Blackhole \/ agent'[a].failure
          /\ agent[a].failure => agent'[a].failure
      BY <1>3, <2>3
    <3>2. agent[a].state # "UNUSED" => Untried(a)'
      BY <2>1, <3>1 DEF AgentOK, Untried
    <3>3. Untried(a) => Untried(a)'
      BY <3>1 DEF Untried
    <3> QED BY <1>6, <3>1, <3>2, <3>3 DEF Calm
  <2> QED BY <2>2, <2>3
<1>8. /\ WorksInv' /\ ThreadsOK'
      /\ \A a \in Agent : (ToConnect(a)' <=> ToConnect(a)) /\ (Asking(a)' <=> Asking(a)) /\ (Asked(a)' <=> Asked(a))
  BY <1>1, <1>4, <1>7, SessionStep
<1>9. ASSUME NEW a \in Agent PROVE AgentOK(a)'
  <2>1. AgentOK(a) /\ (ToConnect(a)' <=> ToConnect(a)) /\ (Asking(a)' <=> Asking(a))
    BY <1>8 DEF Inv, AgentsOK
  <2>2. CASE /\ agent[a].success /\ ~agent'[a].success /\ ~agent'[a].failure /\ agent'[a].state = agent[a].state
             /\ agent[a].state = "UNUSED" /\ merged[a] = 0 /\ merged'[a] = 1 /\ a \notin Blackhole
    <3>1. ~Untried(a) /\ ~Untried(a)'
      BY <2>2 DEF Untried
    <3>2. "UNUSED" \notin Initial /\ "UNUSED" \notin Answering
      BY DEF Initial, Answering
    <3> QED BY <2>1, <2>2, <3>1, <3>2 DEF AgentOK
  <2>3. CASE /\ ~agent[a].success /\ ~agent'[a].success /\ merged'[a] = merged[a]
             /\ agent'[a].state \in {agent[a].state, "UNUSED"}
             /\ agent'[a].state # agent[a].state => a \in Blackhole \/ agent'[a].failure
             /\ agent[a].failure => agent'[a].failure
             /\ agent'[a].failure => agent[a].failure \/ agent[a].state \in {"QUERYED", "PREREPLY"}
    <3>1. Untried(a)' <=> Untried(a)
      BY <2>3 DEF Untried
    <3>2. "UNUSED" \notin Initial
      BY DEF Initial
    <3>3. merged'[a] = 1 => ~agent'[a].success /\ ~agent'[a].failure
      <4>1. merged'[a] = 1 => ~Untried(a)
        BY <2>3 DEF Untried
      <4> QED BY <2>1, <2>3, <4>1 DEF AgentOK
    <3>4. main.pc # "take"
      BY <1>1
    <3>5. Untried(a) /\ ~agent'[a].failure /\ a \notin Blackhole => ToConnect(a)' \/ agent'[a].state \in Initial \cup Answering
      BY <2>1, <2>3, <3>4 DEF AgentOK
    <3>6. a \in Blackhole => Untried(a)' /\ agent'[a].state # "REPLY"
      BY <2>1, <2>3, <3>1 DEF AgentOK
    <3>7. ToConnect(a)' => Untried(a)' /\ agent'[a].state \in {"UNUSED", "RETRY"}
      BY <2>1, <2>3, <3>1 DEF AgentOK
    <3>8. agent'[a].state \in Initial => Asking(a)'
      BY <2>1, <2>3, <3>2 DEF AgentOK
    <3>9. (agent'[a].state # "UNUSED" => Untried(a)') /\ (agent'[a].state = "RETRY" => agent'[a].failure \/ a \in Blackhole)
      BY <2>1, <2>3, <3>1 DEF AgentOK
    <3> QED BY <1>6, <2>3, <3>1, <3>3, <3>5, <3>6, <3>7, <3>8, <3>9 DEF AgentOK
  <2> QED BY <1>3, <2>2, <2>3
<1>10. AgentsOK'
  BY <1>9 DEF AgentsOK
<1>11. MainOK'
  <2>1. main.done => works = 0
    BY <1>1 DEF Inv, MainOK
  <2>2. main.reported <= ready
    BY DEF Inv, MainOK
  <2>3. \A a \in Agent : ~agent'[a].success /\ agent'[a].state # "REPLY"
    BY <1>3, <1>6 DEF Answering
  <2> QED BY <1>1, <1>5, <1>6, <2>1, <2>2, <2>3 DEF MainOK
<1> QED BY <1>2, <1>8, <1>10, <1>11 DEF Inv

LEMMA TakeTraitsStep ==
  ASSUME Inv, QuietPool, TakeTraits
  PROVE  Inv'
<1>1. /\ Base0' /\ main' = [main EXCEPT !.next = @ + 1] /\ main.pc = "take"
      /\ \A a \in Agent : agent'[a].state = agent[a].state /\ agent'[a].success = agent[a].success
                          /\ agent'[a].failure = agent[a].failure
  BY TakeTraitsDoes DEF Inv
<1>2. UNCHANGED <<queue, works, ready, event, worker, merged, failures>>
  BY DEF TakeTraits, poolSide
<1>3. main \in MainRec /\ event \in BOOLEAN /\ \A w \in Agent : worker[w].pc = "exit"
  BY <1>1 DEF Inv, Base0, MainTyped, MainRec, WorksInv, WorksTyped, MainOK
<1>4. main'.pc = "take" /\ main'.reported = main.reported /\ main'.done = main.done
  BY <1>1, <1>3 DEF MainRec
<1>5. \A a \in Agent : Calm(a)
  BY <1>1, <1>2 DEF Calm, Untried
<1>6. /\ WorksInv' /\ ThreadsOK'
      /\ \A a \in Agent : (ToConnect(a)' <=> ToConnect(a)) /\ (Asking(a)' <=> Asking(a)) /\ (Asked(a)' <=> Asked(a))
  BY <1>2, <1>3, <1>5, SessionStep
<1>7. Counted' <=> Counted
  BY <1>1, <1>2, <1>4 DEF Counted
<1>8. AgentsOK'
  <2> SUFFICES ASSUME NEW a \in Agent PROVE AgentOK(a)'
    BY DEF AgentsOK
  <2>1. AgentOK(a)
    BY DEF Inv, AgentsOK
  <2>2. agent[a].success => main'.pc \in Round
    BY <1>1, <1>4, <2>1 DEF AgentOK
  <2> QED BY <1>1, <1>2, <1>4, <1>6, <1>7, <2>1, <2>2, AgentSame
<1>9. MainOK'
  BY <1>1, <1>2, <1>3, <1>4 DEF Inv, MainOK
<1> QED BY <1>1, <1>6, <1>8, <1>9 DEF Inv

LEMMA StartControllerStep ==
  ASSUME Inv, StartController
  PROVE  Inv'
<1>1. Base0'
  BY StartControllerDoes DEF Inv
<1>2. /\ main.pc = "take" /\ main' = [main EXCEPT !.pc = "wait"]
      /\ UNCHANGED <<poolVars, agent, ready, event, merged, failures>>
  BY DEF StartController
<1>3. /\ WorksInv' /\ \A w \in Agent : worker'[w].pc \in {"pop", "exit"}
      /\ \A a \in Agent : \E k \in 1..Len(queue') : a \in queue'[k].agents /\ First(queue'[k])
  BY StartWorks DEF Inv, WorksInv
<1>4. \A a \in Agent : ToConnect(a)' /\ agent[a].state = "UNUSED" /\ Untried(a)
  <2>1. \A a \in Agent : Queued(a)'
    BY <1>3 DEF Queued, First
  <2> QED BY <1>2, <2>1 DEF ToConnect, Inv, Base0, MainTyped
<1>5. main'.pc = "wait" /\ main'.reported = main.reported /\ main'.done = main.done
  BY <1>2 DEF Inv, Base0, MainTyped
<1>6. ASSUME NEW a \in Agent PROVE AgentOK(a)'
  <2>1. agent'[a] = agent[a] /\ AgentOK(a) /\ agent[a].state = "UNUSED" /\ Untried(a) /\ Untried(a)' /\ ToConnect(a)'
    BY <1>2, <1>4 DEF Inv, AgentsOK, Untried
  <2>2. ~agent'[a].success /\ merged'[a] = 0
    BY <2>1 DEF Untried
  <2>3. "UNUSED" \notin Initial /\ "UNUSED" \notin Answering
    BY DEF Initial, Answering
  <2> QED BY <2>1, <2>2, <2>3 DEF AgentOK
<1>7. AgentsOK'
  BY <1>6 DEF AgentsOK
<1>8. ThreadsOK'
  BY <1>3 DEF ThreadsOK, ThreadOK
<1>9. MainOK'
  <2>1. ~main.done /\ main.reported <= ready /\ \A a \in Agent : agent'[a].state # "REPLY"
    BY <1>2, <1>4 DEF Inv, MainOK
  <2> QED BY <1>2, <1>5, <2>1 DEF MainOK
<1> QED BY <1>1, <1>3, <1>7, <1>8, <1>9 DEF Inv

LEMMA ReturnConnectionStep ==
  ASSUME Inv, ReturnConnection
  PROVE  Inv'
<1>1. /\ Base0' /\ main' = [main EXCEPT !.next = @ + 1, !.pc = IF main.next = N THEN "end" ELSE @]
      /\ main.pc = "return" /\ UNCHANGED <<merged, failures>>
      /\ \A a \in Agent : agent'[a].state = agent[a].state /\ agent'[a].success = agent[a].success
                          /\ agent'[a].failure = agent[a].failure
  BY ReturnConnectionDoes DEF Inv, WorksInv
<1>2. UNCHANGED <<queue, works, ready, event, worker>>
  BY DEF ReturnConnection, poolSide
<1>3. main \in MainRec /\ event \in BOOLEAN /\ \A w \in Agent : worker[w].pc = "exit"
  BY <1>1 DEF Inv, Base0, MainTyped, MainRec, WorksInv, WorksTyped, MainOK
<1>4. main'.pc \in {"return", "end"} /\ main'.reported = main.reported /\ main'.done = main.done
  BY <1>1, <1>3 DEF MainRec
<1>5. \A a \in Agent : Calm(a)
  BY <1>1 DEF Calm, Untried
<1>6. /\ WorksInv' /\ ThreadsOK'
      /\ \A a \in Agent : (ToConnect(a)' <=> ToConnect(a)) /\ (Asking(a)' <=> Asking(a)) /\ (Asked(a)' <=> Asked(a))
  BY <1>2, <1>3, <1>5, SessionStep
<1>7. Counted => Counted'
  BY <1>1, <1>2, <1>4 DEF Counted, Round
<1>8. AgentsOK'
  <2> SUFFICES ASSUME NEW a \in Agent PROVE AgentOK(a)'
    BY DEF AgentsOK
  <2>1. AgentOK(a)
    BY DEF Inv, AgentsOK
  <2>2. agent[a].success => main'.pc \in Round
    BY <1>1, <2>1 DEF AgentOK, Round
  <2> QED BY <1>1, <1>6, <1>7, <2>1, <2>2, AgentSame
<1>9. MainOK'
  <2>1. main.done /\ works = 0 /\ failures = {a \in Agent : agent[a].failure} /\ main.reported <= ready
        /\ \A a \in Agent : agent[a].state \notin Answering /\ ~agent[a].success /\ agent[a].state # "REPLY"
    BY <1>1 DEF Inv, MainOK
  <2>2. failures' = {a \in Agent : agent'[a].failure}
    BY <1>1, <2>1
  <2> QED BY <1>1, <1>2, <1>3, <1>4, <2>1, <2>2 DEF MainOK
<1> QED BY <1>1, <1>6, <1>8, <1>9 DEF Inv

LEMMA PoolStepStep ==
  ASSUME Inv, QuietPool, PoolStep
  PROVE  Inv'
<1>1. Base0'
  BY PoolStepDoes DEF Inv
<1>2. UNCHANGED <<agent, queue, works, ready, event, worker, main, merged, failures>>
  BY DEF PoolStep, poolSide, mainSide
<1>3. event \in BOOLEAN
  BY DEF Inv, WorksInv, WorksTyped
<1>4. WorksInv' /\ AgentsOK' /\ ThreadsOK'
  <2>1. Counted => Counted'
    BY <1>2 DEF Counted
  <2> QED BY <1>1, <1>2, <1>3, <2>1, WatchStep
<1>5. MainOK'
  BY <1>2 DEF Inv, MainOK
<1> QED BY <1>1, <1>4, <1>5 DEF Inv

LEMMA StutterStep ==
  ASSUME Inv, UNCHANGED vars
  PROVE  Inv'
<1>1. UNCHANGED <<poolVars, agent, queue, works, ready, event, worker, main, merged, failures>> /\ UNCHANGED mainSide
  BY DEF vars, poolSide, mainSide
<1>2. Base0'
  BY <1>1, BaseThread DEF Inv
<1>3. event \in BOOLEAN
  BY DEF Inv, WorksInv, WorksTyped
<1>4. WorksInv' /\ AgentsOK' /\ ThreadsOK'
  <2>1. Counted => Counted'
    BY <1>1 DEF Counted
  <2> QED BY <1>1, <1>2, <1>3, <2>1, WatchStep
<1>5. MainOK'
  BY <1>1 DEF Inv, MainOK
<1> QED BY <1>2, <1>4, <1>5 DEF Inv

-----------------------------------------------------------------------------
(* The theorems. *)

LEMMA InvInit ==
  ASSUME Init
  PROVE  Inv
<1>1. /\ queue = <<>> /\ works = 0 /\ ready = 0 /\ event = FALSE
      /\ worker = [w \in Agent |-> [Started EXCEPT !.pc = "exit"]]
      /\ agent = [a \in Agent |-> Unused(a)] /\ merged = [a \in Agent |-> 0]
      /\ main = [pc |-> "take", next |-> 1, done |-> FALSE, reported |-> 0, reg |-> {}, cur |-> 1]
  BY DEF Init
<1>2. \A w \in Agent : worker[w] \in WorkerRec /\ worker[w].pc = "exit" /\ ~Runs(w)
  <2>1. [Started EXCEPT !.pc = "exit"] \in WorkerRec /\ [Started EXCEPT !.pc = "exit"].pc = "exit"
    BY DEF Started, Work, WorkerRec, WorkRec, Running
  <2>2. "exit" \notin Running
    BY DEF Running
  <2> QED BY <1>1, <2>1, <2>2 DEF Runs
<1>3. WorksTyped
  <2>1. worker \in [Agent -> WorkerRec]
    BY <1>1, <1>2
  <2>2. queue \in Seq(WorkRec) /\ Len(queue) = 0 /\ \A k \in 1..Len(queue) : WorkOK(queue[k])
    BY <1>1
  <2>3. ready \in Nat /\ event \in BOOLEAN
    BY <1>1
  <2> QED BY <1>2, <2>1, <2>2, <2>3 DEF WorksTyped
<1>4. WorksApart
  BY <1>1, <1>2 DEF WorksApart
<1>5. WorksCounted
  <2>1. Leads = {}
    BY <1>1, <1>2 DEF Leads
  <2> QED BY <1>1, <2>1, FS_EmptySet DEF WorksCounted
<1>6. \A a \in Agent : Untried(a) /\ agent[a].state = "UNUSED" /\ ~agent[a].success /\ ~agent[a].failure /\ merged[a] = 0
  BY <1>1 DEF Untried, Unused
<1>7. \A a \in Agent : ~ToConnect(a)
  BY <1>1, <1>2 DEF ToConnect, Queued
<1>8. AgentsOK
  <2>1. "UNUSED" \notin Initial \cup Answering
    BY DEF Initial, Answering
  <2> QED BY <1>1, <1>6, <1>7, <2>1 DEF AgentsOK, AgentOK
<1>9. ThreadsOK
  BY <1>2 DEF ThreadsOK, ThreadOK
<1>10. MainOK
  BY <1>1, <1>2, <1>6 DEF MainOK
<1> QED BY <1>3, <1>4, <1>5, <1>8, <1>9, <1>10, BaseInit DEF Inv, WorksInv

LEMMA InvStep ==
  ASSUME QuietPool, NoDelays, Inv, [Next]_vars
  PROVE  Inv'
<1>1. CASE MainStep
  <2>1. \A w \in Agent : worker[w].pc # "mark"
    BY <1>1 DEF MainStep, NoDelays
  <2>2. \/ Watching \/ TakeTraits \/ StartController \/ CloseTimedOut \/ ReturnConnection
        \/ \E a \in Agent : ReplyHeader(a) \/ ReplyBody(a)
    BY <1>1 DEF MainStep, Watching
  <2> QED BY <2>1, <2>2, WatchingStep, TakeTraitsStep, StartControllerStep, CloseTimedOutStep, ReturnConnectionStep,
             ReplyHeaderStep, ReplyBodyStep
<1>2. CASE SpuriousWakeup
  BY <1>2, WatchingStep DEF Watching
<1>3. CASE \E w \in Agent : WorkerStep(w)
  BY <1>3, WorkerSteps
<1>4. CASE PoolStep
  BY <1>4, PoolStepStep
<1>5. CASE UNCHANGED vars
  BY <1>5, StutterStep
<1> QED BY <1>1, <1>2, <1>3, <1>4, <1>5 DEF Next

LEMMA Invariant ==
  ASSUME QuietPool, NoDelays
  PROVE  Spec => []Inv
<1>1. Inv /\ [Next]_vars => Inv'
  BY InvStep
<1> QED BY InvInit, <1>1, PTL DEF Spec

\* Every variable keeps its type: the works that are counted are as many as the agents at
\* most, no more of them wait in the queue, and the results of an agent are merged once at
\* most, however the threads and the session interleave.
THEOREM AgentsTyped ==
  ASSUME QuietPool, NoDelays
  PROVE  Spec => []TypeOK
<1>1. ASSUME Inv PROVE TypeOK
  <2>1. PoolTypeOK
    <3>1. DOMAIN conns = 0..Hosts * Stride - 1 /\ \A h \in Host : conns[Base(h)] \in -1..PoolSize
      BY <1>1 DEF Inv, Base0, PoolInv, PoolTyped, SlotsTyped, Free
    <3> QED BY <1>1, <3>1 DEF PoolTypeOK, Inv, Base0, PoolInv, PoolTyped, SlotsTyped, SocketsOK, Kept
  <2>2. works \in 0..N /\ Len(queue) <= N
    BY <1>1, WorksBounded DEF Inv
  <2>3. main.reg \subseteq Agent \ Blackhole /\ merged \in [Agent -> 0..1]
    BY <1>1 DEF Inv, Base0, MainTyped
  <2> QED BY <1>1, <2>1, <2>2, <2>3 DEF TypeOK, Inv, Base0, AgentTyped, AgentRec, WorksInv, WorksTyped
<1> QED BY Invariant, <1>1, PTL

\* A connection is the query's, another query's or in a slot of the pool, never two of them,
\* and no step loses one, that is, leaves it open without an owner, but a reload of the
\* config, which loses those that ResetCloses skips.  A connection in a free slot has no part
\* of an old reply left to read: the next query to rent it cannot take another's results for
\* its own.
THEOREM ConnectionsApart ==
  ASSUME QuietPool, NoDelays
  PROVE  Spec => []PoolClean
<1>1. ASSUME Inv PROVE PoolClean
  <2>1. PoolTyped /\ SlotsTyped /\ SlotsOwn /\ OwnersApart /\ SocketsOK /\ AgentTyped /\ Kept
    BY <1>1 DEF Inv, Base0, PoolInv, PoolTyped
  <2>2. ASSUME NEW i \in Slots
        PROVE  \E h \in Host, k \in 1..PoolSize : i = At(h, k)
    <3>1. PICK h \in Host : i > Base(h) /\ i <= Base(h) + Free(h)
      BY DEF Slots, Free
    <3>2. i \in Int /\ Base(h) \in Int /\ Free(h) \in Int /\ Free(h) <= PoolSize /\ PoolSize \in Nat
      BY <2>1, Places DEF SlotsTyped, Slots
    <3>3. i - Base(h) \in 1..PoolSize /\ i = Base(h) + (i - Base(h))
      BY <3>1, <3>2
    <3> QED BY <3>3 DEF At
  <2>3. ASSUME NEW f \in Pooled
        PROVE  f \in open \ OtherFd /\ \E h \in Host, k \in 1..PoolSize : conns[At(h, k)] = f
    <3>1. PICK i \in Slots : f = conns[i] /\ f # -1
      BY DEF Pooled
    <3> QED BY <2>1, <2>2, <3>1 DEF SlotsOwn
  <2>4. ASSUME NEW a \in Agent, agent[a].sock # NoSock
        PROVE  /\ agent[a].sock \in open \ (Pooled \cup OtherFd) /\ agent[a].sock # other.sock
               /\ \A b \in Agent \ {a} : agent[b].sock # agent[a].sock
    BY <2>1, <2>3, <2>4 DEF OwnersApart, Own
  <2>5. Pooled \subseteq open /\ Pooled \cap unread = {}
    <3>1. ASSUME NEW f \in Pooled PROVE f \notin unread
      <4> SUFFICES ASSUME f \in unread PROVE FALSE
        OBVIOUS
      <4>1. PICK a \in Agent : agent[a].sock = f
        BY <2>1 DEF SocketsOK
      <4>2. f # NoSock
        <5>1. f \in Fd
          BY <2>1, <2>3 DEF SlotsTyped
        <5> QED BY <5>1, Numbers
      <4> QED BY <2>4, <4>1, <4>2
    <3> QED BY <2>3, <3>1
  <2>6. ASSUME NEW i \in Slots, NEW j \in Slots, i # j PROVE conns[i] # conns[j] \/ conns[i] = -1
    <3>1. PICK h \in Host, k \in 1..PoolSize : i = At(h, k)
      BY <2>2
    <3>2. PICK g \in Host, l \in 1..PoolSize : j = At(g, l)
      BY <2>2
    <3> QED BY <2>1, <2>6, <3>1, <3>2 DEF SlotsOwn
  <2>7. other.sock >= 0 => other.sock \in open \ (Pooled \cup OtherFd)
    <3> SUFFICES ASSUME other.sock >= 0 PROVE other.sock \in open \ (Pooled \cup OtherFd)
      OBVIOUS
    <3>1. other # NobodyRents /\ other.sock # -1
      BY Numbers
    <3>2. Own(open, conns, other.sock)
      BY <2>1, <3>1 DEF OwnersApart
    <3> QED BY <2>3, <3>2 DEF Own
  <2>8. OtherFd \subseteq open
    BY <2>1 DEF SlotsTyped
  <2>9. ASSUME NEW f PROVE f \in Owned <=> f \notin {NoSock, NoSlot} /\ Has(f)
    <3>1. f \in Pooled <=> f # -1 /\ \E h \in Host, k \in 1..PoolSize : conns[At(h, k)] = f
      BY <2>1, PooledIs
    <3>2. NoSlot \notin Pooled
      BY <2>3, Numbers, <2>1 DEF SlotsTyped
    <3> QED BY <3>1, <3>2, Numbers DEF Owned, Has
  <2>10. ASSUME NEW f \in Owned PROVE f \in open \ OtherFd
    <3>1. CASE f \in Pooled
      BY <2>3, <3>1
    <3>2. ASSUME NEW a \in Agent, agent[a].sock = f PROVE f \in open \ OtherFd
      BY <2>4, <2>9, <3>2
    <3>3. CASE other.sock = f
      <4>1. f \notin {NoSock, NoSlot} /\ f \in Fd \cup {-1, -2}
        BY <2>1, <2>9, <3>3, Numbers DEF PoolTyped
      <4>2. f >= 0
        BY <4>1, Numbers
      <4> QED BY <2>7, <3>3, <4>2
    <3> QED BY <3>1, <3>2, <3>3 DEF Owned
  <2>11. ASSUME NEW f \in open \ OtherFd PROVE f \in leaked <=> f \notin Owned
    <3>1. f \notin {NoSock, NoSlot}
      BY <2>1, Numbers DEF SlotsTyped
    <3> QED BY <2>1, <2>9, <3>1 DEF Kept
  <2>12. open = OtherFd \cup Owned \cup leaked /\ leaked \cap (Owned \cup OtherFd) = {}
    BY <2>1, <2>8, <2>10, <2>11 DEF Kept
  <2> QED BY <2>4, <2>5, <2>6, <2>7, <2>8, <2>12 DEF PoolClean
<1> QED BY Invariant, <1>1, PTL

\* When the query ends, every agent that is waited for has given its results, once, or is
\* reported as failed: none is forgotten or merged twice, whatever the agents, the network
\* and the two sides do.
THEOREM EveryoneAccounted ==
  ASSUME QuietPool, NoDelays
  PROVE  Spec => []AgentsAccounted
<1>1. ASSUME Inv PROVE AgentsAccounted
  <2> SUFFICES ASSUME main.pc = "end", NEW a \in Agent \ Blackhole
               PROVE  merged[a] = IF a \in failures THEN 0 ELSE 1
    BY DEF AgentsAccounted
  <2>1. AgentOK(a) /\ merged[a] \in 0..1
    BY <1>1 DEF Inv, AgentsOK, Base0, MainTyped
  <2>2. /\ main.done /\ agent[a].state \notin Answering /\ ~agent[a].success
        /\ failures = {b \in Agent : agent[b].failure} /\ \A w \in Agent : worker[w].pc = "exit"
    BY <1>1 DEF Inv, MainOK
  <2>3. works = 0
    BY <1>1, <2>2 DEF Inv, MainOK
  <2>4. queue = <<>>
    BY <1>1, <2>3, NoWorks DEF Inv
  <2>5. ~ToConnect(a) /\ ~Asking(a)
    BY <2>2, <2>4 DEF ToConnect, Queued, Asking
  <2>6. Untried(a) => agent[a].failure
    BY <2>1, <2>2, <2>5 DEF AgentOK
  <2>7. merged[a] = 0 <=> Untried(a)
    BY <2>2 DEF Untried
  <2>8. merged[a] = 1 => ~agent[a].failure
    BY <2>1 DEF AgentOK
  <2> QED BY <2>1, <2>2, <2>6, <2>7, <2>8
<1> QED BY Invariant, <1>1, PTL
=============================================================================
