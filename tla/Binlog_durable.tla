--------------------------- MODULE Binlog_durable ---------------------------
(***************************************************************************)
(* Proofs about the binary log, for any indexes, modes, sizes and numbers  *)
(* of crashes: what the variables hold (TypeOK); that no file goes which   *)
(* an index still needs (OnlyFlushedGoes); that searchd starts after any   *)
(* crash (Recoverable); that what was acknowledged is in the index or in   *)
(* the log (Durable, NeededLogged); and that an index misses no            *)
(* transaction but one whose file was left without a sync (NoOtherGap).    *)
(*                                                                         *)
(* All but the first are about what a file says when the buffer has been   *)
(* written (Whole).  Commits append to it, flushes do not change it, a     *)
(* crash leaves a prefix of it, and a notification drops whole files.      *)
(***************************************************************************)
EXTENDS Binlog, FiniteSetTheorems, SequenceTheorems, WellFoundedInduction, TLAPS

\* Crashes outside the known windows (README, section 5): the last file that a start
\* finds has a record, and no record has lost its first bytes.
NoBadStart == ~EmptyLog /\ ~UnlinkWindow /\ "torn_head" \notin Torn

\* When searchd dies, the records of acknowledged transactions are written: in mode 2.
Kept == Mode = "write" \/ "process" \notin CrashKind

-----------------------------------------------------------------------------
(* The inductive invariants. *)

Info  == [max : Nat, flushed : Nat]
Infos == UNION {[S -> Info] : S \in SUBSET Index}
Log   == [ext : Nat \ {0}, info : Infos]
File  == [recs : Seq(Record), synced : Nat]

FilesTyped ==
    /\ logs \in Seq(Log)
    /\ DOMAIN disk \subseteq Nat \ {0} /\ disk \in [DOMAIN disk -> File]
    /\ \A e \in DOMAIN disk : disk[e].synced <= Len(disk[e].recs)
    /\ meta \in Seq(Nat \ {0}) /\ pool \in Seq(Record)
    /\ open \in BOOLEAN /\ lost \in BOOLEAN /\ lastWrite \in Nat /\ lastSync \in Nat

RestTyped ==
    /\ lock \in {"free", "put", "unlinked"} /\ timer \in {"test", "sync", "assign"}
    /\ tid \in [Index -> 0..MaxTid] /\ saved \in [Index -> 0..MaxTid]
    /\ have \in [Index -> SUBSET (1..MaxTid)] /\ acked \in [Index -> SUBSET (1..MaxTid)]
    /\ bare \in [Index -> SUBSET (1..MaxTid)]
    /\ notify \subseteq Index \X Nat
    /\ mode \in {"up", "replay", "down", "dead"} /\ next \in Nat \ {0}
    /\ crashes \in 0..MaxCrashes /\ flushes \in 0..MaxFlushes

\* When the writer has a file, and what waits for it.
WriterOK ==
    /\ open => logs # <<>> /\ Current \in DOMAIN disk
    /\ mode = "up" /\ lock # "unlinked" => open
    /\ ~open => pool = <<>>
    /\ mode # "up" => ~open /\ lock = "free"

TypeInv == FilesTyped /\ RestTyped /\ WriterOK

-----------------------------------------------------------------------------
\* What file e says when all is written, and what all files say of index i.
Whole(e) == IF open /\ e = Current THEN disk[e].recs \o pool ELSE disk[e].recs
Holds(i) == UNION {Tids(Whole(e), i) : e \in DOMAIN disk}

\* binlog.meta names the files, in the order in which they were written.
Rising(s) == \A j, k \in DOMAIN s : j < k => s[j] < s[k]
FilesOK ==
    /\ ~lost /\ mode # "dead"
    /\ Rising(Exts(logs)) /\ Rising(meta)
    /\ mode = "up" => DOMAIN disk = Range(Exts(logs)) /\ DOMAIN disk \subseteq Range(meta)
    /\ mode = "up" /\ lock # "unlinked" => meta = Exts(logs)
    /\ mode = "replay" => meta = Exts(logs)
    /\ mode \in {"replay", "down"} => DOMAIN disk = Range(meta)

\* A file names its indexes before their transactions, and these come in order.
IsCommit(r, i) == r.op = "commit" /\ r.index = i
Tidy(w) ==
    /\ \A p \in DOMAIN w : w[p].op # "torn_head" /\ (p = 2 => w[p].op # "cache")
    /\ \A p \in DOMAIN w, i \in Index : IsCommit(w[p], i) =>
          /\ w[p].tid > 0
          /\ \E q \in DOMAIN w : q < p /\ w[q].op = "add" /\ w[q].index = i
          /\ \A q \in DOMAIN w : q < p /\ IsCommit(w[q], i) => w[q].tid < w[p].tid

RecordsOK ==
    /\ \A e \in DOMAIN disk : Tidy(Whole(e))
    /\ \A p \in DOMAIN pool : pool[p].op # "cache"
    /\ open => Len(Whole(Current)) > 0
    /\ lock = "put" => Len(Whole(Current)) > 1
    /\ mode \in {"replay", "down"} /\ meta # <<>> => disk[meta[Len(meta)]].recs # <<>>

\* A later file has later transactions.
OrderOK ==
    \A e, f \in DOMAIN disk, i \in Index : e < f =>
       \A m \in Tids(Whole(e), i), n \in Tids(Whole(f), i) : m < n

\* Transaction n of index i is saved, or in the files.
Stored(i, n) == IF n <= saved[i] THEN n \in have[i] ELSE n \in Holds(i)

\* What an index has is stored; what it misses was left unsynced.
StoredUp(i) ==
    /\ have[i] \subseteq 1..tid[i] /\ saved[i] <= tid[i] /\ \A n \in Holds(i) : n <= tid[i]
    /\ \A n \in 1..tid[i] : (n \in have[i] <=> Stored(i, n)) /\ (Stored(i, n) \/ n \in bare[i])
TidsOK ==
    /\ mode = "up" => \A i \in Index : StoredUp(i)
    /\ mode \in {"replay", "down"} => \A i \in Index :
          \A n \in Holds(i) \cup {saved[i]} : \A m \in 1..n : Stored(i, m) \/ m \in bare[i]
    /\ \A p \in notify : p[2] <= saved[p[1]]

\* A file that the writer has left has nothing unsynced but what is noted.
Closed(e) == ~(open /\ e = Current)
BareOK == \A e \in DOMAIN disk, i \in Index : Closed(e) => Unsynced(disk[e], i) \subseteq bare[i]

\* What index i has got from the files replayed so far.
Done(i) == UNION {Tids(disk[logs[k].ext].recs, i) : k \in {j \in DOMAIN logs : j < next}}
ReplayOK ==
    /\ mode = "down" => next = 1
    /\ mode = "replay" => \A i \in Index :
          /\ \A n \in have[i] : n <= saved[i] \/ n \in Done(i)
          /\ \A n \in Done(i) : n <= saved[i] \/ n \in have[i]
          /\ tid[i] \in Done(i) \cup {saved[i]}
          /\ \A n \in Done(i) \cup {saved[i]} : n <= tid[i]

\* What searchd notes about a file covers what is in it.
Noting(k) == mode = "up" \/ (mode = "replay" /\ k < next)
InfoOK ==
    \A k \in DOMAIN logs : Noting(k) =>
       /\ \A i \in Index : \A n \in Tids(Whole(logs[k].ext), i) :
             /\ i \in DOMAIN logs[k].info /\ n <= logs[k].info[i].max
             /\ n <= logs[k].info[i].flushed => n <= saved[i]
       /\ \A i \in DOMAIN logs[k].info :
             /\ logs[k].info[i].flushed <= tid[i]
             /\ \E p \in DOMAIN Whole(logs[k].ext) :
                   Whole(logs[k].ext)[p].op = "add" /\ Whole(logs[k].ext)[p].index = i

\* What was acknowledged is there, and in mode 2 written.
OnDisk(i) == UNION {Tids(disk[e].recs, i) : e \in DOMAIN disk}
AckOK ==
    /\ mode = "up" => \A i \in Index : acked[i] \subseteq have[i]
    /\ mode \in {"replay", "down"} => \A i \in Index : \A n \in acked[i] : Stored(i, n)
    /\ mode = "up" /\ Mode = "write" =>
         \A i \in Index : \A n \in acked[i] : n <= saved[i] \/ n \in OnDisk(i)

Rest == FilesOK /\ RecordsOK /\ OrderOK /\ TidsOK /\ BareOK /\ ReplayOK /\ InfoOK
FileInv == TypeInv /\ Rest
-----------------------------------------------------------------------------
(* Lemmas about naturals, records and files. *)

LEMMA LeastNatural ==
  ASSUME NEW S, S \subseteq Nat, S # {}
  PROVE  \E n \in S : \A k \in S : n <= k
<1> DEFINE R == OpToRel(<, Nat)
<1>1. \A i, j \in Nat : i < j => <<i, j>> \in R
  BY DEF OpToRel
<1>2. IsWellFoundedOn(R, Nat)
  BY NatLessThanWellFounded
<1> HIDE DEF R
<1>3. PICK n \in S : \A k \in S : ~(<<k, n>> \in R)
  <2>1. \E n \in S : \A k \in S : ~(<<k, n>> \in R)
    BY <1>2, WFMin
  <2> QED BY <2>1
<1>4. ASSUME NEW k \in S PROVE n <= k
  <2>1. n \in Nat /\ k \in Nat /\ ~(k < n)
    BY <1>1, <1>3
  <2> QED BY <2>1
<1> QED BY <1>4

\* The last TID of a set, and 0 if there is none.
LEMMA HighestIs ==
  ASSUME NEW N \in Nat, NEW S \in SUBSET (0..N)
  PROVE  /\ Highest(S) \in 0..N /\ Highest(S) \in S \cup {0}
         /\ \A m \in S : m <= Highest(S)
<1>1. CASE S = {}
  BY <1>1 DEF Highest
<1>2. CASE S # {}
  <2> DEFINE D == {N - m : m \in S}
  <2>1. D \subseteq Nat /\ D # {}
    BY <1>2
  <2>2. PICK d \in D : \A k \in D : d <= k
    BY <2>1, LeastNatural
  <2>3. PICK x \in S : d = N - x
    BY <2>2
  <2>4. \A m \in S : m <= x
    <3>1. ASSUME NEW m \in S PROVE m <= x
      <4>1. N - x <= N - m
        BY <2>2, <2>3
      <4> QED BY <4>1
    <3> QED BY <3>1
  <2>5. \E n \in S : \A m \in S : m <= n
    BY <2>4
  <2>6. Highest(S) \in S /\ \A m \in S : m <= Highest(S)
    BY <1>2, <2>5 DEF Highest
  <2> QED BY <2>6
<1> QED BY <1>1, <1>2

LEMMA MarkIsRecord ==
  ASSUME NEW op \in {"head", "cache", "torn_head", "torn_body"}
  PROVE  Mark(op) \in Record
BY BoundAssumption DEF Mark, Record

LEMMA TidsIs ==
  ASSUME NEW r \in Seq(Record), NEW i
  PROVE  /\ Tids(r, i) = {r[p].tid : p \in {q \in DOMAIN r : IsCommit(r[q], i)}}
         /\ Tids(r, i) \subseteq 1..MaxTid
<1>1. DOMAIN r = 1..Len(r) /\ \A p \in DOMAIN r : r[p] \in Record
  BY LenProperties, ElementOfSeq
<1>2. Tids(r, i) = {r[p].tid : p \in {q \in DOMAIN r : IsCommit(r[q], i)}}
  BY DEF Tids, IsCommit
<1>3. \A p \in DOMAIN r : IsCommit(r[p], i) => r[p].tid \in 1..MaxTid
  BY <1>1 DEF Record, IsCommit
<1> QED BY <1>2, <1>3

LEMMA TidsConcat ==
  ASSUME NEW r \in Seq(Record), NEW q \in Seq(Record), NEW i
  PROVE  r \o q \in Seq(Record) /\ Tids(r \o q, i) = Tids(r, i) \cup Tids(q, i)
<1> DEFINE w == r \o q
<1>1. /\ w \in Seq(Record) /\ Len(w) = Len(r) + Len(q)
      /\ \A p \in 1..(Len(r) + Len(q)) : w[p] = IF p <= Len(r) THEN r[p] ELSE q[p - Len(r)]
  BY ConcatProperties
<1>2. /\ DOMAIN r = 1..Len(r) /\ DOMAIN q = 1..Len(q) /\ DOMAIN w = 1..Len(w)
      /\ Len(r) \in Nat /\ Len(q) \in Nat
  BY <1>1, LenProperties
<1> HIDE DEF w
<1> DEFINE T(x) == {x[p].tid : p \in {k \in DOMAIN x : IsCommit(x[k], i)}}
<1>0. Tids(r, i) = T(r) /\ Tids(q, i) = T(q) /\ Tids(w, i) = T(w)
  BY <1>1, TidsIs
<1>3. ASSUME NEW n \in Tids(w, i) PROVE n \in Tids(r, i) \cup Tids(q, i)
  <2>1. PICK p \in DOMAIN w : IsCommit(w[p], i) /\ n = w[p].tid
    BY <1>0
  <2>2. CASE p <= Len(r)
    <3>1. p \in DOMAIN r /\ w[p] = r[p]
      BY <1>1, <1>2, <2>2
    <3> QED BY <2>1, <3>1, <1>0
  <2>3. CASE ~(p <= Len(r))
    <3>1. p - Len(r) \in DOMAIN q /\ w[p] = q[p - Len(r)]
      BY <1>1, <1>2, <2>3
    <3> QED BY <2>1, <3>1, <1>0
  <2> QED BY <2>2, <2>3
<1>4. ASSUME NEW n \in Tids(r, i) PROVE n \in Tids(w, i)
  <2>1. PICK p \in DOMAIN r : IsCommit(r[p], i) /\ n = r[p].tid
    BY <1>0
  <2>2. p \in DOMAIN w /\ w[p] = r[p]
    BY <1>1, <1>2
  <2> QED BY <2>1, <2>2, <1>0
<1>5. ASSUME NEW n \in Tids(q, i) PROVE n \in Tids(w, i)
  <2>1. PICK p \in DOMAIN q : IsCommit(q[p], i) /\ n = q[p].tid
    BY <1>0
  <2>2. Len(r) + p \in DOMAIN w /\ w[Len(r) + p] = q[p]
    BY <1>1, <1>2
  <2> QED BY <2>1, <2>2, <1>0
<1>6. Tids(w, i) = Tids(r, i) \cup Tids(q, i)
  BY <1>3, <1>4, <1>5
<1> QED BY <1>1, <1>6 DEF w

LEMMA TidsNone ==
  ASSUME NEW i
  PROVE  Tids(<<>>, i) = {} /\ \A op \in {"head", "cache", "torn_head", "torn_body"} : Tids(<<Mark(op)>>, i) = {}
BY DEF Tids, Mark

-----------------------------------------------------------------------------
(* Types. *)

Typed(d) == /\ DOMAIN d \subseteq Nat \ {0} /\ d \in [DOMAIN d -> File]
            /\ \A e \in DOMAIN d : d[e].synced <= Len(d[e].recs)

LEMMA FileExcept ==
  ASSUME NEW f \in File, NEW w, NEW n
  PROVE  /\ [f EXCEPT !.recs = w] = [recs |-> w, synced |-> f.synced]
         /\ [f EXCEPT !.synced = n] = [recs |-> f.recs, synced |-> n]
BY DEF File

\* What a write makes of a file.
Longer(f, r, q) == [f EXCEPT !.recs = @ \o r \o q]

LEMMA WriteTyped ==
  ASSUME NEW f \in File, f.synced <= Len(f.recs), NEW r \in Seq(Record), NEW q \in Seq(Record),
         NEW g \in {Longer(f, r, q), SyncedFile(Longer(f, r, q))}
  PROVE  /\ g \in File /\ g.synced <= Len(g.recs) /\ g.recs = f.recs \o r \o q
         /\ g = SyncedFile(Longer(f, r, q)) => g.synced = Len(g.recs)
<1> DEFINE w == f.recs \o r \o q
           y == [recs |-> w, synced |-> f.synced]
           z == [recs |-> w, synced |-> Len(w)]
<1>1. f.recs \in Seq(Record) /\ f.synced \in Nat
  BY DEF File
<1>2. w \in Seq(Record) /\ Len(w) >= Len(f.recs) /\ Len(w) \in Nat /\ Len(f.recs) \in Nat
  <2>1. f.recs \o r \in Seq(Record) /\ Len(f.recs \o r) = Len(f.recs) + Len(r)
    BY <1>1, ConcatProperties
  <2>2. w \in Seq(Record) /\ Len(w) = Len(f.recs \o r) + Len(q)
    BY <2>1, ConcatProperties
  <2> QED BY <1>1, <2>1, <2>2, LenProperties
<1> HIDE DEF w
<1>3. Longer(f, r, q) = y
  BY FileExcept DEF Longer, w
<1>4. y \in File /\ y.recs = w
  BY <1>1, <1>2 DEF File
<1> HIDE DEF y
<1>5. SyncedFile(y) = z
  BY <1>4, FileExcept DEF SyncedFile
<1>6. g \in {y, z} /\ (g = SyncedFile(Longer(f, r, q)) => g = z)
  BY <1>3, <1>5
<1>7. g \in File /\ g.synced <= Len(g.recs) /\ g.recs = w /\ (g = z => g.synced = Len(g.recs))
  BY <1>1, <1>2, <1>6 DEF File, y
<1> QED BY <1>6, <1>7 DEF w

LEMMA PutTyped ==
  ASSUME NEW d, Typed(d), NEW e \in DOMAIN d, NEW g \in File, g.synced <= Len(g.recs)
  PROVE  Typed([d EXCEPT ![e] = g]) /\ DOMAIN [d EXCEPT ![e] = g] = DOMAIN d
BY DEF Typed

LEMMA EmptyTyped == EmptyFile \in File /\ EmptyFile.synced <= Len(EmptyFile.recs)
<1>1. <<>> \in Seq(Record) /\ Len(<<>>) = 0
  BY EmptySeq
<1> QED BY <1>1 DEF EmptyFile, File

LEMMA ExtsTyped ==
  ASSUME NEW l \in Seq(Log)
  PROVE  /\ Exts(l) \in Seq(Nat \ {0}) /\ Len(Exts(l)) = Len(l) /\ DOMAIN l = 1..Len(l)
         /\ \A k \in DOMAIN l : Exts(l)[k] = l[k].ext /\ l[k] \in Log
<1>1. DOMAIN l = 1..Len(l) /\ Len(l) \in Nat /\ \A k \in DOMAIN l : l[k] \in Log
  BY LenProperties, ElementOfSeq
<1> QED BY <1>1 DEF Exts, Log

\* The next log.
LEMMA NewLogTyped ==
  ASSUME NEW l \in Seq(Log), NEW d, Typed(d), NEW reuse \in BOOLEAN, OpenNewLog(l, d, reuse)
  PROVE  /\ logs' \in Seq(Log) /\ Typed(disk') /\ meta' \in Seq(Nat \ {0}) /\ pool' \in Seq(Record)
         /\ open' = TRUE /\ lost' = FALSE /\ logs' # <<>>
         /\ logs'[Len(logs')].ext \in DOMAIN disk'
<1> DEFINE e == NewExt(l, reuse)
           x == [ext |-> e, info |-> NoInfo]
<1>1. e \in Nat \ {0}
  <2>1. CASE l = <<>>
    BY <2>1 DEF NewExt
  <2>2. CASE l # <<>>
    <3>1. Len(l) \in DOMAIN l
      BY <2>2, EmptySeq, ExtsTyped
    <3>2. l[Len(l)].ext \in Nat \ {0}
      BY <3>1, ExtsTyped DEF Log
    <3> QED BY <2>2, <3>2 DEF NewExt
  <2> QED BY <2>1, <2>2
<1> HIDE DEF e
<1>2. NoInfo \in Infos
  <2>1. NoInfo \in [{} -> Info]
    BY DEF NoInfo
  <2> QED BY <2>1 DEF Infos
<1>3. x \in Log
  BY <1>1, <1>2 DEF Log
<1>4. logs' = Append(l, x) /\ meta' = Exts(logs') /\ pool' = <<Mark("head")>>
      /\ disk' = [y \in DOMAIN d \cup {e} |-> IF y = e THEN EmptyFile ELSE d[y]]
      /\ open' = TRUE /\ lost' = FALSE
  BY DEF OpenNewLog, e
<1> HIDE DEF x
<1>5. logs' \in Seq(Log) /\ Len(logs') = Len(l) + 1 /\ logs'[Len(l) + 1] = x
  BY <1>3, <1>4, AppendProperties, LenProperties
<1>6. Typed(disk') /\ e \in DOMAIN disk'
  BY <1>1, <1>4, EmptyTyped DEF Typed
<1>7. meta' \in Seq(Nat \ {0})
  BY <1>4, <1>5, ExtsTyped
<1>8. pool' \in Seq(Record)
  BY <1>4, MarkIsRecord
<1>9. logs' # <<>>
  BY <1>5, EmptySeq, LenProperties
<1> QED BY <1>4, <1>5, <1>6, <1>7, <1>8, <1>9 DEF x

LEMMA InitTyped == Init => TypeInv
<1> SUFFICES ASSUME Init PROVE TypeInv
  OBVIOUS
<1>1. logs \in Seq(Log) /\ Current = 1 /\ logs # <<>>
  <2>1. NoInfo \in Infos
    <3>1. NoInfo \in [{} -> Info]
      BY DEF NoInfo
    <3> QED BY <3>1 DEF Infos
  <2>2. [ext |-> 1, info |-> NoInfo] \in Log
    BY <2>1 DEF Log
  <2>3. Len(logs) = 1 /\ logs[1] = [ext |-> 1, info |-> NoInfo]
    BY DEF Init
  <2> QED BY <2>2, <2>3 DEF Init, Last, Current
<1>2. Typed(disk) /\ 1 \in DOMAIN disk
  BY EmptyTyped DEF Init, Typed
<1>3. meta \in Seq(Nat \ {0}) /\ pool \in Seq(Record)
  BY MarkIsRecord DEF Init
<1>4. FilesTyped
  BY <1>1, <1>2, <1>3 DEF Init, FilesTyped, Typed
<1>5. RestTyped
  BY BoundAssumption DEF Init, RestTyped
<1>6. WriterOK
  BY <1>1, <1>2 DEF Init, WriterOK
<1> QED BY <1>4, <1>5, <1>6 DEF TypeInv

\* The current file while the writer has it.
LEMMA CurrentTyped ==
  ASSUME TypeInv, open
  PROVE  /\ Len(logs) \in DOMAIN logs /\ DOMAIN logs = 1..Len(logs) /\ Last \in Log
         /\ Len(logs) \in Nat \ {0} /\ Current \in DOMAIN disk /\ Current = logs[Len(logs)].ext
         /\ disk[Current] \in File /\ disk[Current].synced <= Len(disk[Current].recs)
         /\ Pos(<<>>) \in Nat
<1>1. logs \in Seq(Log) /\ logs # <<>> /\ Current \in DOMAIN disk
  BY DEF TypeInv, FilesTyped, WriterOK
<1>2. Len(logs) \in DOMAIN logs /\ DOMAIN logs = 1..Len(logs) /\ Len(logs) \in Nat \ {0}
  BY <1>1, EmptySeq, ExtsTyped
<1>3. disk[Current] \in File /\ disk[Current].synced <= Len(disk[Current].recs)
  BY <1>1 DEF TypeInv, FilesTyped
<1>4. Pos(<<>>) \in Nat
  <2>1. Len(disk[Current].recs) \in Nat /\ Len(pool) \in Nat /\ Len(<<>>) = 0
    BY <1>3, LenProperties, EmptySeq DEF TypeInv, FilesTyped, File
  <2> QED BY <2>1 DEF Pos
<1>5. Last \in Log
  BY <1>1, <1>2, ElementOfSeq DEF Last
<1> QED BY <1>1, <1>2, <1>3, <1>4, <1>5 DEF Last, Current

\* The current file is written, with r behind the buffer.
LEMMA WrittenTyped ==
  ASSUME TypeInv, open, NEW r \in Seq(Record), NEW g \in {Written(r), SyncedFile(Written(r))}
  PROVE  /\ Typed([disk EXCEPT ![Current] = g])
         /\ DOMAIN [disk EXCEPT ![Current] = g] = DOMAIN disk
         /\ [disk EXCEPT ![Current] = g][Current].recs = disk[Current].recs \o pool \o r
         /\ g = SyncedFile(Written(r)) => g.synced = Len(g.recs)
         /\ Pos(r) \in Nat
<1>1. pool \in Seq(Record) /\ Typed(disk)
  BY DEF TypeInv, FilesTyped, Typed
<1>2. g \in File /\ g.synced <= Len(g.recs) /\ g.recs = disk[Current].recs \o pool \o r
      /\ (g = SyncedFile(Written(r)) => g.synced = Len(g.recs))
  <2> DEFINE f == disk[Current]
  <2>1. f \in File /\ f.synced <= Len(f.recs)
    BY CurrentTyped
  <2>2. g \in {Longer(f, pool, r), SyncedFile(Longer(f, pool, r))} /\ Written(r) = Longer(f, pool, r)
    BY DEF Written, Longer
  <2> HIDE DEF f
  <2>3. /\ g \in File /\ g.synced <= Len(g.recs) /\ g.recs = f.recs \o pool \o r
        /\ g = SyncedFile(Longer(f, pool, r)) => g.synced = Len(g.recs)
    BY <1>1, <2>1, <2>2, WriteTyped
  <2> QED BY <2>2, <2>3 DEF f
<1>3. Pos(r) \in Nat
  <2>1. Len(disk[Current].recs) \in Nat /\ Len(pool) \in Nat /\ Len(r) \in Nat
    BY <1>1, CurrentTyped, LenProperties DEF File
  <2> QED BY <2>1 DEF Pos
<1> QED BY <1>1, <1>2, <1>3, CurrentTyped, PutTyped

\* What is unsynced of a file, and that nothing is when it has been synced.
LEMMA UnsyncedIs ==
  ASSUME NEW f \in File, NEW i
  PROVE  Unsynced(f, i) \subseteq 1..MaxTid /\ (f.synced = Len(f.recs) => Unsynced(f, i) = {})
<1>1. f.recs \in Seq(Record)
  BY DEF File
<1>2. Tids(f.recs, i) \subseteq 1..MaxTid
  BY <1>1, TidsIs
<1>3. SubSeq(f.recs, 1, Len(f.recs)) = f.recs
  BY <1>1
<1>4. f.synced = Len(f.recs) => Unsynced(f, i) = {}
  BY <1>3 DEF Unsynced
<1> QED BY <1>2, <1>4 DEF Unsynced

\* BinlogWriter_c::Flush: the current file has all, and what it has unsynced is noted.
LEMMA FlushIs ==
  ASSUME TypeInv, open, NEW r \in Seq(Record), FlushedPos(r),
         NEW d, d = [disk EXCEPT ![Current] = FlushedFile(r)]
  PROVE  /\ Typed(d) /\ DOMAIN d = DOMAIN disk
         /\ d[Current].recs = disk[Current].recs \o pool \o r
         /\ \A e \in DOMAIN disk \ {Current} : d[e] = disk[e]
         /\ lastWrite' \in Nat /\ lastSync' \in Nat
         /\ bare' \in [Index -> SUBSET (1..MaxTid)]
         /\ \A i \in Index : bare[i] \cup Unsynced(d[Current], i) \subseteq bare'[i]
<1>1. PICK g \in {Written(r), SyncedFile(Written(r))} :
         g = FlushedFile(r) /\ (MustSync(r) => g = SyncedFile(Written(r)))
         /\ (~MustSync(r) => g = Written(r))
  BY DEF FlushedFile
<1>2. /\ Typed([disk EXCEPT ![Current] = g]) /\ DOMAIN [disk EXCEPT ![Current] = g] = DOMAIN disk
      /\ [disk EXCEPT ![Current] = g][Current].recs = disk[Current].recs \o pool \o r
      /\ g = SyncedFile(Written(r)) => g.synced = Len(g.recs)
      /\ Pos(r) \in Nat
  BY WrittenTyped
<1>3. /\ Typed(d) /\ DOMAIN d = DOMAIN disk /\ d[Current].recs = disk[Current].recs \o pool \o r
      /\ \A e \in DOMAIN disk \ {Current} : d[e] = disk[e]
  BY <1>1, <1>2
<1>4. d[Current] = g /\ g \in File
  BY <1>1, <1>2, CurrentTyped DEF Typed
<1>5. lastWrite' \in Nat /\ lastSync' \in Nat
  BY <1>2 DEF FlushedPos, WritePos, TypeInv, FilesTyped
<1>6. bare \in [Index -> SUBSET (1..MaxTid)]
  BY DEF TypeInv, RestTyped
<1>7. /\ bare' \in [Index -> SUBSET (1..MaxTid)]
      /\ \A i \in Index : bare[i] \cup Unsynced(g, i) \subseteq bare'[i]
  <2>1. CASE MustSync(r)
    <3>1. bare' = bare
      BY <2>1 DEF FlushedPos
    <3>2. \A i \in Index : Unsynced(g, i) = {}
      BY <1>1, <1>2, <1>4, <2>1, UnsyncedIs
    <3> QED BY <1>6, <3>1, <3>2
  <2>2. CASE ~MustSync(r)
    <3>1. bare' = [i \in Index |-> bare[i] \cup Unsynced(g, i)]
      BY <1>1, <2>2 DEF FlushedPos
    <3>2. \A i \in Index : Unsynced(g, i) \subseteq 1..MaxTid
      BY <1>4, UnsyncedIs
    <3> QED BY <1>6, <3>1, <3>2
  <2> QED BY <2>1, <2>2
<1> QED BY <1>3, <1>4, <1>5, <1>7

\* Flush with nothing put before.
LEMMA FlushedTyped ==
  ASSUME TypeInv, open, Flushed(<<>>)
  PROVE  /\ Typed(disk') /\ DOMAIN disk' = DOMAIN disk
         /\ disk'[Current].recs = disk[Current].recs \o pool
         /\ \A e \in DOMAIN disk \ {Current} : disk'[e] = disk[e]
         /\ lastWrite' \in Nat /\ lastSync' \in Nat
         /\ bare' \in [Index -> SUBSET (1..MaxTid)] /\ \A i \in Index : bare[i] \subseteq bare'[i]
<1>0. <<>> \in Seq(Record)
  BY EmptySeq
<1>1. disk' = [disk EXCEPT ![Current] = FlushedFile(<<>>)] /\ FlushedPos(<<>>)
  BY DEF Flushed
<1>2. disk[Current].recs \o pool \o <<>> = disk[Current].recs \o pool
  <2>1. disk[Current].recs \o pool \in Seq(Record)
    BY CurrentTyped, TidsConcat DEF TypeInv, FilesTyped, File
  <2> QED BY <2>1, ConcatEmptySeq
<1> QED BY <1>0, <1>1, <1>2, FlushIs

LEMMA CheckTyped ==
  ASSUME TypeInv, open, CheckDoFlush
  PROVE  /\ Typed(disk') /\ DOMAIN disk' = DOMAIN disk
         /\ \/ disk'[Current].recs = disk[Current].recs \o pool /\ pool' = <<>>
            \/ disk' = disk /\ pool' = pool /\ (Mode = "write" => pool = <<>>)
         /\ \A e \in DOMAIN disk \ {Current} : disk'[e] = disk[e]
         /\ lastWrite' \in Nat /\ lastSync' \in Nat /\ pool' \in Seq(Record)
         /\ bare' \in [Index -> SUBSET (1..MaxTid)] /\ \A i \in Index : bare[i] \subseteq bare'[i]
<1>0. bare \in [Index -> SUBSET (1..MaxTid)]
  BY DEF TypeInv, RestTyped
<1>1. CASE Mode = "write" /\ HasUnwrittenData
  <2>0. <<>> \in Seq(Record)
    BY EmptySeq
  <2>1. disk' = [disk EXCEPT ![Current] = Written(<<>>)] /\ pool' = <<>>
        /\ lastWrite' = Pos(<<>>) /\ lastSync' = lastSync /\ bare' = bare
    BY <1>1 DEF CheckDoFlush
  <2>2. disk[Current].recs \o pool \o <<>> = disk[Current].recs \o pool
    <3>1. disk[Current].recs \o pool \in Seq(Record)
      BY CurrentTyped, TidsConcat DEF TypeInv, FilesTyped, File
    <3> QED BY <3>1, ConcatEmptySeq
  <2>3. Typed(disk') /\ DOMAIN disk' = DOMAIN disk /\ disk'[Current].recs = disk[Current].recs \o pool
    BY <2>0, <2>1, <2>2, WrittenTyped
  <2> QED BY <1>0, <2>0, <2>1, <2>3, CurrentTyped DEF TypeInv, FilesTyped
<1>2. CASE Mode = "fsync" /\ HasUnsyncedData
  <2>1. Flushed(<<>>) /\ pool' = <<>>
    BY <1>2 DEF CheckDoFlush
  <2> QED BY <2>1, FlushedTyped, EmptySeq
<1>3. CASE ~(Mode = "write" /\ HasUnwrittenData) /\ ~(Mode = "fsync" /\ HasUnsyncedData)
  <2>1. UNCHANGED <<disk, pool, lastWrite, lastSync, bare>>
    BY <1>3 DEF CheckDoFlush
  <2>2. Mode = "write" => pool = <<>>
    <3>1. Mode = "write" => ~(Len(pool) > 0)
      BY <1>3 DEF HasUnwrittenData
    <3>2. pool \in Seq(Record)
      BY DEF TypeInv, FilesTyped
    <3> QED BY <3>1, <3>2, EmptySeq
  <2> QED BY <1>0, <2>1, <2>2 DEF TypeInv, FilesTyped, Typed
<1> QED BY <1>1, <1>2, <1>3

\* The records a commit puts, and what it notes.
Put(i) ==
    LET rec == [op |-> "commit", index |-> i, tid |-> tid[i] + 1]
    IN  IF i \in DOMAIN Last.info THEN <<rec>> ELSE <<[rec EXCEPT !.op = "add"], rec>>

LEMMA PutRecords ==
  ASSUME NEW i \in Index, TypeInv, tid[i] < MaxTid
  PROVE  /\ Put(i) \in Seq(Record)
         /\ \E k \in {1, 2} :
              /\ Len(Put(i)) = k
              /\ Put(i)[k] = [op |-> "commit", index |-> i, tid |-> tid[i] + 1]
              /\ k = 1 => i \in DOMAIN Last.info
              /\ k = 2 => Put(i)[1] = [op |-> "add", index |-> i, tid |-> tid[i] + 1]
<1> DEFINE rec == [op |-> "commit", index |-> i, tid |-> tid[i] + 1]
           add == [op |-> "add", index |-> i, tid |-> tid[i] + 1]
<1>1. rec \in Record /\ add \in Record
  BY BoundAssumption DEF TypeInv, RestTyped, Record
<1>2. [rec EXCEPT !.op = "add"] = add
  OBVIOUS
<1> HIDE DEF rec, add
<1>3. Put(i) = IF i \in DOMAIN Last.info THEN <<rec>> ELSE <<add, rec>>
  BY <1>2 DEF Put, rec
<1>4. CASE i \in DOMAIN Last.info
  <2>1. Put(i) = <<rec>>
    BY <1>3, <1>4
  <2>2. Put(i) \in Seq(Record) /\ Len(Put(i)) = 1 /\ Put(i)[1] = rec
    BY <1>1, <2>1
  <2> QED BY <1>4, <2>2 DEF rec
<1>5. CASE ~(i \in DOMAIN Last.info)
  <2>1. Put(i) = <<add, rec>>
    BY <1>3, <1>5
  <2>2. Put(i) \in Seq(Record) /\ Len(Put(i)) = 2 /\ Put(i)[1] = add /\ Put(i)[2] = rec
    BY <1>1, <2>1
  <2> QED BY <1>5, <2>2 DEF rec, add
<1> QED BY <1>4, <1>5

LEMMA CommitPutIs ==
  ASSUME TypeInv, NEW i \in Index, CommitPut(i)
  PROVE  /\ open /\ pool' = pool \o Put(i) /\ tid' = [tid EXCEPT ![i] = @ + 1]
         /\ tid[i] + 1 \in 1..MaxTid /\ have' = [have EXCEPT ![i] = @ \cup {tid[i] + 1}]
         /\ bare' = [bare EXCEPT ![i] = @ \ {tid[i] + 1}]
         /\ logs' \in Seq(Log) /\ DOMAIN logs' = DOMAIN logs /\ Len(logs') = Len(logs)
         /\ \A k \in DOMAIN logs : /\ logs'[k].ext = logs[k].ext
                                   /\ k # Len(logs) => logs'[k] = logs[k]
         /\ DOMAIN logs'[Len(logs)].info = DOMAIN Last.info \cup {i}
         /\ \A x \in DOMAIN Last.info \ {i} : logs'[Len(logs)].info[x] = Last.info[x]
         /\ logs'[Len(logs)].info[i].max = tid[i] + 1
         /\ logs'[Len(logs)].info[i].flushed =
              IF i \in DOMAIN Last.info THEN Last.info[i].flushed ELSE 0
<1> DEFINE n    == tid[i] + 1
           old  == Last.info
           new  == [x \in DOMAIN old \cup {i} |->
                      IF x # i THEN old[x]
                      ELSE [max |-> n, flushed |-> IF i \notin DOMAIN old THEN 0 ELSE old[i].flushed]]
           last == [ext |-> Last.ext, info |-> new]
<1>1. open
  BY DEF CommitPut, TypeInv, WriterOK
<1>2. tid[i] \in Nat /\ n \in 1..MaxTid /\ tid' = [tid EXCEPT ![i] = @ + 1] /\ tid'[i] = n
  BY SMTT(30), BoundAssumption DEF CommitPut, TypeInv, RestTyped
<1>3. pool' = pool \o Put(i)
  BY <1>2 DEF CommitPut, Put
<1>4. have' = [have EXCEPT ![i] = @ \cup {n}] /\ bare' = [bare EXCEPT ![i] = @ \ {n}]
  BY <1>2 DEF CommitPut
<1>5. logs' = [logs EXCEPT ![Len(logs)] = [@ EXCEPT !.info = new]]
  BY <1>2 DEF CommitPut, Last
<1>6. Last \in Log /\ Len(logs) \in DOMAIN logs /\ DOMAIN logs = 1..Len(logs)
      /\ Len(logs) \in Nat /\ logs \in Seq(Log)
  BY <1>1, CurrentTyped DEF TypeInv, FilesTyped
<1>7. [Last EXCEPT !.info = new] = last
  BY <1>6 DEF Log
<1>8. logs' = [logs EXCEPT ![Len(logs)] = last]
  BY <1>5, <1>7 DEF Last
<1>9. new \in Infos
  <2>1. PICK S \in SUBSET Index : old \in [S -> Info]
    BY <1>6 DEF Log, Infos
  <2>2. \A x \in DOMAIN old \cup {i} : new[x] \in Info
    BY <1>2, <2>1 DEF Info
  <2>3. new \in [DOMAIN old \cup {i} -> Info]
    BY <2>2
  <2> QED BY <2>1, <2>3 DEF Infos
<1>10. last \in Log
  BY <1>6, <1>9 DEF Log
<1>11. /\ DOMAIN new = DOMAIN old \cup {i} /\ \A x \in DOMAIN old \ {i} : new[x] = old[x]
       /\ new[i].max = n /\ new[i].flushed = IF i \in DOMAIN old THEN old[i].flushed ELSE 0
  OBVIOUS
<1>12. last.info = new /\ last.ext = Last.ext /\ Last = logs[Len(logs)]
  BY DEF Last
<1> HIDE DEF new, last, old
<1>13. logs' \in Seq(Log) /\ Len(logs') = Len(logs)
  BY <1>6, <1>8, <1>10, ExceptSeq
<1>14. DOMAIN logs' = DOMAIN logs /\ logs'[Len(logs)] = last
       /\ \A k \in DOMAIN logs : k # Len(logs) => logs'[k] = logs[k]
  BY <1>6, <1>8
<1>15. \A k \in DOMAIN logs : logs'[k].ext = logs[k].ext
  BY <1>12, <1>14
<1> QED BY <1>1, <1>2, <1>3, <1>4, <1>11, <1>12, <1>13, <1>14, <1>15 DEF old

\* The index infos after a notification.
LEMMA NotedIs ==
  ASSUME TypeInv, NEW i, NEW n \in Nat
  PROVE  /\ DOMAIN Noted(i, n) = DOMAIN logs /\ Len(Noted(i, n)) = Len(logs)
         /\ \A k \in DOMAIN logs :
              /\ Noted(i, n)[k] \in Log /\ Noted(i, n)[k].ext = logs[k].ext
              /\ DOMAIN Noted(i, n)[k].info = DOMAIN logs[k].info
              /\ \A x \in DOMAIN logs[k].info :
                   /\ Noted(i, n)[k].info[x] \in Info /\ logs[k].info[x] \in Info
                   /\ Noted(i, n)[k].info[x].max = logs[k].info[x].max
                   /\ Noted(i, n)[k].info[x].flushed =
                        IF x = i /\ logs[k].info[x].flushed < n THEN n ELSE logs[k].info[x].flushed
<1>1. logs \in Seq(Log) /\ DOMAIN logs = 1..Len(logs) /\ Len(logs) \in Nat
      /\ \A k \in DOMAIN logs : logs[k] \in Log
  BY ExtsTyped, LenProperties DEF TypeInv, FilesTyped
<1>2. DOMAIN Noted(i, n) = DOMAIN logs
  BY DEF Noted
<1>3. ASSUME NEW k \in DOMAIN logs
      PROVE  /\ Noted(i, n)[k] \in Log /\ Noted(i, n)[k].ext = logs[k].ext
             /\ DOMAIN Noted(i, n)[k].info = DOMAIN logs[k].info
             /\ \A x \in DOMAIN logs[k].info :
                   /\ Noted(i, n)[k].info[x] \in Info /\ logs[k].info[x] \in Info
                   /\ Noted(i, n)[k].info[x].max = logs[k].info[x].max
                   /\ Noted(i, n)[k].info[x].flushed =
                        IF x = i /\ logs[k].info[x].flushed < n THEN n ELSE logs[k].info[x].flushed
  <2> DEFINE old == logs[k].info
             new == [x \in DOMAIN old |-> IF x = i /\ old[x].flushed < n
                                          THEN [old[x] EXCEPT !.flushed = n] ELSE old[x]]
             log == [ext |-> logs[k].ext, info |-> new]
  <2>1. Noted(i, n)[k] = [logs[k] EXCEPT !.info = new]
    BY DEF Noted
  <2>2. Noted(i, n)[k] = log
    BY <1>1, <2>1 DEF Log
  <2>3. PICK S \in SUBSET Index : old \in [S -> Info]
    BY <1>1 DEF Log, Infos
  <2>4. ASSUME NEW x \in DOMAIN old
        PROVE  /\ old[x] \in Info /\ new[x] \in Info /\ new[x].max = old[x].max
               /\ new[x].flushed = IF x = i /\ old[x].flushed < n THEN n ELSE old[x].flushed
    <3>1. old[x] \in Info
      BY <2>3
    <3>2. [old[x] EXCEPT !.flushed = n] = [max |-> old[x].max, flushed |-> n]
      BY <3>1 DEF Info
    <3> QED BY <3>1, <3>2 DEF Info
  <2>5. new \in [S -> Info] /\ DOMAIN new = DOMAIN old
    BY <2>3, <2>4
  <2>6. log \in Log /\ log.ext = logs[k].ext /\ log.info = new
    BY <1>1, <2>5 DEF Log, Infos
  <2> HIDE DEF new, log
  <2> QED BY <2>2, <2>4, <2>5, <2>6
<1>4. Len(Noted(i, n)) = Len(logs)
  <2> DEFINE l == Noted(i, n)
  <2>1. l \in [1..Len(logs) -> Log]
    <3>1. l = [k \in DOMAIN logs |-> l[k]]
      BY DEF Noted
    <3> QED BY <1>1, <1>3, <3>1
  <2> HIDE DEF l
  <2>2. Len(l) = Len(logs)
    BY <1>1, <2>1
  <2> QED BY <2>2 DEF l
<1> QED BY <1>2, <1>3, <1>4

\* A notification drops the files that are not used, and keeps the others in order.
Dropped(i, n) == {k \in DOMAIN logs : ~Used(Noted(i, n)[k], i)}

LEMMA NotifyIs ==
  ASSUME TypeInv, NEW i \in Index, NEW n \in Nat, NotifyUnlink(i, n)
  PROVE  LET gone == {logs[k].ext : k \in Dropped(i, n)}
             shut == Len(logs) \in Dropped(i, n)
         IN  /\ open /\ \E h : /\ DOMAIN logs' = DOMAIN h
                               /\ \A k \in DOMAIN h : /\ h[k] \in DOMAIN logs \ Dropped(i, n)
                                                      /\ logs'[k] = Noted(i, n)[h[k]]
                               /\ \A j, k \in DOMAIN h : j < k => h[j] < h[k]
                               /\ \A m \in DOMAIN logs \ Dropped(i, n) : \E k \in DOMAIN h : h[k] = m
             /\ logs' \in Seq(Log)
             /\ disk' = Restrict(disk, DOMAIN disk \ (IF shut THEN gone ELSE gone \ {Current}))
             /\ lost' = (~shut /\ (lost \/ Current \in gone)) /\ open' = ~shut
             /\ pool' = IF shut THEN <<>> ELSE pool
             /\ lock' = IF gone = {} THEN "free" ELSE "unlinked"
             /\ lastWrite' \in Nat /\ lastSync' \in Nat
             /\ ~shut => logs' # <<>> /\ logs'[Len(logs')].ext = Current
<1> DEFINE l    == Noted(i, n)
           used == {k \in DOMAIN l : Used(l[k], i)}
           gone == {l[k].ext : k \in DOMAIN l \ used}
           drop == Dropped(i, n)
           shut == Len(l) \notin used
<1>1. open /\ Len(logs) \in Nat \ {0} /\ Len(logs) \in DOMAIN logs /\ DOMAIN logs = 1..Len(logs)
      /\ Current = logs[Len(logs)].ext /\ Pos(<<>>) \in Nat
  <2>1. open
    BY DEF NotifyUnlink, TypeInv, WriterOK
  <2> QED BY <2>1, CurrentTyped
<1>2. /\ DOMAIN l = DOMAIN logs /\ Len(l) = Len(logs)
      /\ \A k \in DOMAIN logs : l[k] \in Log /\ l[k].ext = logs[k].ext
  BY NotedIs
<1>3. /\ \E h \in InOrder(used) : logs' = [k \in DOMAIN h |-> l[h[k]]]
      /\ disk' = Restrict(disk, DOMAIN disk \ (IF shut THEN gone ELSE gone \ {Current}))
      /\ lost' = (~shut /\ (lost \/ Current \in gone))
      /\ open' = ~shut
      /\ pool' = IF shut THEN <<>> ELSE pool
      /\ lastWrite' = IF shut /\ HasUnwrittenData THEN Pos(<<>>) ELSE lastWrite
      /\ lastSync' = IF shut /\ (HasUnwrittenData \/ HasUnsyncedData) THEN Pos(<<>>) ELSE lastSync
      /\ lock' = IF gone = {} THEN "free" ELSE "unlinked"
  BY DEF NotifyUnlink
<1> HIDE DEF l
<1>4. used = DOMAIN logs \ drop /\ drop \subseteq DOMAIN logs
  BY <1>2 DEF Dropped, l
<1>5. gone = {logs[k].ext : k \in drop}
  BY <1>2, <1>4
<1>6. shut <=> Len(logs) \in drop
  BY <1>1, <1>2, <1>4
<1> HIDE DEF used, drop
<1>7. PICK h \in InOrder(used) : logs' = [k \in DOMAIN h |-> l[h[k]]]
  BY <1>3
<1>8. Cardinality(used) \in Nat
  <2>1. IsFiniteSet(1..Len(logs))
    BY <1>1, FS_Interval
  <2>2. used \subseteq 1..Len(logs)
    BY <1>1, <1>4
  <2> QED BY <2>1, <2>2, FS_Subset, FS_CardinalityType
<1>9. /\ h \in [1..Cardinality(used) -> used] /\ \A j, k \in DOMAIN h : j < k => h[j] < h[k]
      /\ \A m \in used : \E k \in DOMAIN h : h[k] = m
  BY <1>7 DEF InOrder, Range
<1>10. DOMAIN logs' = 1..Cardinality(used) /\ DOMAIN h = 1..Cardinality(used)
       /\ \A k \in DOMAIN h : logs'[k] = l[h[k]] /\ h[k] \in DOMAIN logs
  BY <1>4, <1>7, <1>9
<1>11. logs' \in Seq(Log)
  <2>1. logs' \in [1..Cardinality(used) -> Log]
    BY <1>2, <1>7, <1>10
  <2> QED BY <1>8, <2>1
<1>12. ASSUME Len(logs) \in used
       PROVE  logs' # <<>> /\ logs'[Len(logs')].ext = Current
  <2>1. PICK k \in DOMAIN h : h[k] = Len(logs)
    BY <1>9, <1>12
  <2>2. Len(logs') = Cardinality(used)
    BY <1>8, <1>10, <1>11
  <2>3. k = Cardinality(used)
    <3>1. k \in 1..Cardinality(used) /\ Cardinality(used) \in DOMAIN h
      BY <1>8, <1>10
    <3>2. h[Cardinality(used)] \in 1..Len(logs)
      BY <1>1, <1>10, <3>1
    <3> QED BY <1>1, <1>8, <1>9, <2>1, <3>1, <3>2
  <2>4. logs'[Len(logs')] = l[Len(logs)] /\ Len(logs') \in DOMAIN logs'
    BY <1>10, <2>1, <2>2, <2>3
  <2>5. logs' # <<>>
    BY <2>4
  <2> QED BY <1>1, <1>2, <2>4, <2>5
<1>13. lastWrite' \in Nat /\ lastSync' \in Nat
  BY <1>1, <1>3 DEF TypeInv, FilesTyped
<1> HIDE DEF gone, shut
<1>14. ASSUME ~shut PROVE Len(logs) \in used
  BY <1>1, <1>4, <1>6, <1>14
<1> USE DEF drop
<1>15. \E f : /\ DOMAIN logs' = DOMAIN f
              /\ \A k \in DOMAIN f : f[k] \in DOMAIN logs \ drop /\ logs'[k] = l[f[k]]
              /\ \A j, k \in DOMAIN f : j < k => f[j] < f[k]
              /\ \A m \in DOMAIN logs \ drop : \E k \in DOMAIN f : f[k] = m
  BY <1>4, <1>9, <1>10
<1> QED BY <1>1, <1>3, <1>5, <1>6, <1>11, <1>12, <1>13, <1>14, <1>15 DEF l

\* The cache record ends a log, and the next one begins.
LEMMA RestartIs ==
  ASSUME TypeInv, CommitRestart
  PROVE  /\ open /\ <<Mark("cache")>> \in Seq(Record)
         /\ \E d : /\ OpenNewLog(logs, d, FALSE) /\ Typed(d) /\ DOMAIN d = DOMAIN disk
                   /\ d[Current].recs = disk[Current].recs \o pool \o <<Mark("cache")>>
                   /\ \A e \in DOMAIN disk \ {Current} : d[e] = disk[e]
                   /\ \A i \in Index : bare[i] \cup Unsynced(d[Current], i) \subseteq bare'[i]
         /\ lastWrite' \in Nat /\ lastSync' \in Nat /\ bare' \in [Index -> SUBSET (1..MaxTid)]
<1> DEFINE r == <<Mark("cache")>>
           d == [disk EXCEPT ![Current] = FlushedFile(r)]
<1>1. open
  BY DEF CommitRestart, TypeInv, WriterOK
<1>2. r \in Seq(Record)
  BY MarkIsRecord
<1>3. OpenNewLog(logs, d, FALSE) /\ FlushedPos(r)
  BY DEF CommitRestart
<1> HIDE DEF r
<1>4. /\ Typed(d) /\ DOMAIN d = DOMAIN disk /\ d[Current].recs = disk[Current].recs \o pool \o r
      /\ \A e \in DOMAIN disk \ {Current} : d[e] = disk[e]
      /\ lastWrite' \in Nat /\ lastSync' \in Nat /\ bare' \in [Index -> SUBSET (1..MaxTid)]
      /\ \A i \in Index : bare[i] \cup Unsynced(d[Current], i) \subseteq bare'[i]
  BY <1>1, <1>2, <1>3, FlushIs
<1> HIDE DEF d
<1> QED BY <1>1, <1>2, <1>3, <1>4 DEF r

\* What a crash of the system leaves of a file.
CutOf(f, g) ==
    \E n \in f.synced..Len(f.recs) :
       \/ g = [recs |-> SubSeq(f.recs, 1, n), synced |-> n]
       \/ /\ n < Len(f.recs)
          /\ \E op \in Torn : g = [recs |-> Append(SubSeq(f.recs, 1, n), Mark(op)), synced |-> n + 1]

LEMMA CutIs ==
  ASSUME NEW f \in File, f.synced <= Len(f.recs), NEW g \in Cut(f)
  PROVE  CutOf(f, g) /\ g \in File /\ g.synced <= Len(g.recs)
<1>1. f.recs \in Seq(Record) /\ f.synced \in Nat /\ Len(f.recs) \in Nat
      /\ \A p \in 1..Len(f.recs) : f.recs[p] \in Record
  BY LenProperties, ElementOfSeq DEF File
<1>2. CutOf(f, g)
  <2>1. CASE g \in {[recs |-> SubSeq(f.recs, 1, n), synced |-> n] : n \in f.synced..Len(f.recs)}
    BY <2>1 DEF CutOf
  <2>2. CASE g \in {[recs |-> Append(SubSeq(f.recs, 1, n), Mark(op)), synced |-> n + 1] :
                      n \in f.synced..(Len(f.recs) - 1), op \in Torn}
    <3>1. PICK n \in f.synced..(Len(f.recs) - 1), op \in Torn :
             g = [recs |-> Append(SubSeq(f.recs, 1, n), Mark(op)), synced |-> n + 1]
      BY <2>2
    <3>2. n \in f.synced..Len(f.recs) /\ n < Len(f.recs)
      BY <1>1, <3>1
    <3> QED BY <3>1, <3>2 DEF CutOf
  <2> QED BY <2>1, <2>2 DEF Cut
<1>3. PICK n \in f.synced..Len(f.recs) :
       \/ g = [recs |-> SubSeq(f.recs, 1, n), synced |-> n]
       \/ /\ n < Len(f.recs)
          /\ \E op \in Torn : g = [recs |-> Append(SubSeq(f.recs, 1, n), Mark(op)), synced |-> n + 1]
  BY <1>2 DEF CutOf
<1>4. n \in Nat /\ SubSeq(f.recs, 1, n) \in Seq(Record) /\ Len(SubSeq(f.recs, 1, n)) = n
  <2>1. n \in Nat /\ \A p \in 1..n : f.recs[p] \in Record
    BY <1>1
  <2> QED BY <2>1, SubSeqProperties
<1>5. CASE g = [recs |-> SubSeq(f.recs, 1, n), synced |-> n]
  BY <1>2, <1>4, <1>5 DEF File
<1>6. ASSUME NEW op \in Torn,
             g = [recs |-> Append(SubSeq(f.recs, 1, n), Mark(op)), synced |-> n + 1]
      PROVE  g \in File /\ g.synced <= Len(g.recs)
  <2> DEFINE h == Append(SubSeq(f.recs, 1, n), Mark(op))
  <2>1. Mark(op) \in Record
    BY MarkIsRecord, TornAssumption
  <2>2. h \in Seq(Record) /\ Len(h) = n + 1
    BY <1>4, <2>1, AppendProperties
  <2>3. g = [recs |-> h, synced |-> n + 1]
    BY <1>6
  <2> HIDE DEF h
  <2> QED BY <1>4, <2>2, <2>3 DEF File
<1> QED BY <1>2, <1>3, <1>5, <1>6

\* What a crash leaves of the files.
LEMMA SystemCrashIs ==
  ASSUME TypeInv, SystemCrash
  PROVE  DOMAIN disk' = Left /\ \A e \in Left : disk'[e] \in Cut(disk[e])
<1>1. PICK c : /\ \A e \in Exposed : c[e] \in Cut(disk[e])
               /\ disk' = [e \in Left |-> IF e \in Exposed THEN c[e] ELSE disk[e]]
  BY DEF SystemCrash
<1>2. ASSUME NEW e \in Left, e \notin Exposed PROVE disk[e] \in Cut(disk[e])
  <2> DEFINE f == disk[e]
  <2>1. f \in File /\ f.synced <= Len(f.recs) /\ ~(f.synced < Len(f.recs))
    BY <1>2 DEF Left, Exposed, TypeInv, FilesTyped
  <2>2. f.recs \in Seq(Record) /\ Len(f.recs) \in Nat /\ f.synced \in Nat /\ f.synced = Len(f.recs)
    BY <2>1, LenProperties DEF File
  <2>3. f = [recs |-> SubSeq(f.recs, 1, Len(f.recs)), synced |-> Len(f.recs)]
    <3>1. SubSeq(f.recs, 1, Len(f.recs)) = f.recs
      BY <2>2
    <3>2. f = [recs |-> f.recs, synced |-> f.synced]
      BY <2>1 DEF File
    <3> QED BY <2>2, <3>1, <3>2
  <2>4. Len(f.recs) \in f.synced..Len(f.recs)
    BY <2>2
  <2> HIDE DEF f
  <2>5. f \in Cut(f)
    BY <2>3, <2>4 DEF Cut
  <2> QED BY <2>5 DEF f
<1>3. \A e \in Left : disk'[e] \in Cut(disk[e])
  BY <1>1, <1>2
<1> QED BY <1>1, <1>3

LEMMA CrashTyped ==
  ASSUME TypeInv, Crash
  PROVE  /\ Typed(disk') /\ DOMAIN disk' = Left
         /\ acked' \in [Index -> SUBSET (1..MaxTid)] /\ bare' \in [Index -> SUBSET (1..MaxTid)]
<1>0. /\ Left \subseteq DOMAIN disk /\ Typed(disk)
      /\ acked \in [Index -> SUBSET (1..MaxTid)] /\ bare \in [Index -> SUBSET (1..MaxTid)]
  BY DEF Left, TypeInv, FilesTyped, RestTyped, Typed
<1>1. CASE ProcessCrash
  <2>1. Typed(disk') /\ DOMAIN disk' = Left
    BY <1>0, <1>1 DEF ProcessCrash, Restrict, Typed
  <2>2. \A i \in Index : \A e \in Left : Unsynced(disk[e], i) \subseteq 1..MaxTid
    BY <1>0, UnsyncedIs DEF Typed
  <2>3. bare' = [i \in Index |-> bare[i] \cup UNION {Unsynced(disk[e], i) : e \in Left}]
        /\ acked' = acked
    BY <1>1 DEF ProcessCrash
  <2>4. \A i \in Index : bare[i] \cup UNION {Unsynced(disk[e], i) : e \in Left} \subseteq 1..MaxTid
    BY <1>0, <2>2
  <2> QED BY <1>0, <2>1, <2>3, <2>4
<1>2. CASE SystemCrash
  <2>1. \A e \in Left : disk'[e] \in File /\ disk'[e].synced <= Len(disk'[e].recs)
    BY <1>0, <1>2, SystemCrashIs, CutIs DEF Typed
  <2>2. Typed(disk') /\ DOMAIN disk' = Left
    <3>1. disk' = [e \in Left |-> disk'[e]]
      BY <1>2 DEF SystemCrash
    <3> QED BY <1>0, <1>2, <2>1, <3>1, SystemCrashIs DEF Typed
  <2>3. acked' = [i \in Index |-> Safe(i)] /\ bare' = bare
    BY <1>2 DEF SystemCrash
  <2>4. \A i \in Index : Safe(i) \subseteq acked[i]
    BY DEF Safe
  <2> QED BY <1>0, <2>2, <2>3, <2>4
<1> QED BY <1>1, <1>2 DEF Crash

\* Replay of the next file.
Known(r) == {x.index : x \in {y \in Range(r) : y.op = "add"}}

LEMMA KnownIs ==
  ASSUME NEW r \in Seq(Record)
  PROVE  /\ Known(r) \subseteq Index
         /\ \A i \in Known(r) : \E p \in DOMAIN r : r[p].op = "add" /\ r[p].index = i
         /\ \A p \in DOMAIN r : r[p].op = "add" => r[p].index \in Known(r)
<1>1. DOMAIN r = 1..Len(r) /\ \A p \in DOMAIN r : r[p] \in Record
  BY LenProperties, ElementOfSeq
<1>2. \A p \in DOMAIN r : r[p].op = "add" => r[p].index \in Index
  BY <1>1 DEF Record
<1> QED BY <1>2 DEF Known, Range

LEMMA ReplayIs ==
  ASSUME TypeInv, ReplayFile
  PROVE  LET e == logs[next].ext
             r == disk[e].recs
         IN  /\ mode = "replay" /\ next \in DOMAIN logs
             /\ \/ /\ e \notin DOMAIN disk \/ Mark("torn_head") \in Range(r)
                   /\ mode' = "dead" /\ UNCHANGED <<logs, tid, have, next>>
                \/ /\ e \in DOMAIN disk /\ r \in Seq(Record) /\ UNCHANGED mode
                   /\ logs' \in Seq(Log) /\ Len(logs') = Len(logs) /\ DOMAIN logs' = DOMAIN logs
                   /\ \A k \in DOMAIN logs : logs'[k].ext = logs[k].ext
                   /\ \A k \in DOMAIN logs \ {next} : logs'[k] = logs[k]
                   /\ DOMAIN logs'[next].info = Known(r)
                   /\ \A i \in Known(r) :
                        /\ logs'[next].info[i].max = Highest(Tids(r, i))
                        /\ logs'[next].info[i].flushed = tid[i]
                   /\ have' = [i \in Index |-> have[i] \cup {n \in Tids(r, i) : n > tid[i]}]
                   /\ tid' = [i \in Index |-> Highest(Tids(r, i) \cup {tid[i]})]
                   /\ next' = next + 1
<1> DEFINE e   == logs[next].ext
           r   == disk[e].recs
           new == [i \in Known(r) |-> [max |-> Highest(Tids(r, i)), flushed |-> tid[i]]]
           log == [ext |-> e, info |-> new]
<1>1. mode = "replay" /\ next \in Nat \ {0} /\ next <= Len(logs)
  BY DEF ReplayFile, TypeInv, RestTyped
<1>2. /\ logs \in Seq(Log) /\ DOMAIN logs = 1..Len(logs) /\ Len(logs) \in Nat
      /\ \A k \in DOMAIN logs : logs[k] \in Log
  BY ExtsTyped, LenProperties DEF TypeInv, FilesTyped
<1>3. next \in DOMAIN logs
  BY <1>1, <1>2
<1>4. CASE e \notin DOMAIN disk \/ Mark("torn_head") \in Range(r)
  BY <1>1, <1>3, <1>4 DEF ReplayFile
<1>5. CASE ~(e \notin DOMAIN disk \/ Mark("torn_head") \in Range(r))
  <2>1. /\ logs' = [logs EXCEPT ![next].info = new]
        /\ have' = [i \in Index |-> have[i] \cup {n \in Tids(r, i) : n > tid[i]}]
        /\ tid' = [i \in Index |-> Highest(Tids(r, i) \cup {tid[i]})]
        /\ next' = next + 1 /\ UNCHANGED mode
    BY <1>5 DEF ReplayFile, Replayed, Known
  <2>2. e \in DOMAIN disk /\ r \in Seq(Record)
    BY <1>5 DEF TypeInv, FilesTyped, File
  <2> HIDE DEF r
  <2>3. Known(r) \subseteq Index
    BY <2>2, KnownIs
  <2>4. ASSUME NEW i \in Known(r)
        PROVE  [max |-> Highest(Tids(r, i)), flushed |-> tid[i]] \in Info
    <3>1. tid[i] \in Nat /\ MaxTid \in Nat
      BY <2>3, BoundAssumption DEF TypeInv, RestTyped
    <3>2. Tids(r, i) \in SUBSET (0..MaxTid)
      BY <2>2, TidsIs, BoundAssumption
    <3>3. Highest(Tids(r, i)) \in Nat
      BY <3>1, <3>2, HighestIs
    <3> QED BY <3>1, <3>3 DEF Info
  <2>5. new \in [Known(r) -> Info]
    BY <2>4
  <2>6. new \in Infos
    BY <2>3, <2>5 DEF Infos
  <2>7. /\ DOMAIN new = Known(r)
        /\ \A i \in Known(r) : new[i].max = Highest(Tids(r, i)) /\ new[i].flushed = tid[i]
    OBVIOUS
  <2> HIDE DEF new
  <2>8. log \in Log
    BY <1>2, <1>3, <2>6 DEF Log
  <2>9. [logs[next] EXCEPT !.info = new] = log
    BY <1>2, <1>3 DEF Log
  <2>10. logs' = [logs EXCEPT ![next] = log]
    BY <2>1, <2>9
  <2>11. log.info = new /\ log.ext = e
    OBVIOUS
  <2> HIDE DEF log
  <2>12. logs' \in Seq(Log) /\ Len(logs') = Len(logs) /\ DOMAIN logs' = DOMAIN logs
    BY <1>2, <1>3, <2>8, <2>10, ExceptSeq
  <2>13. logs'[next] = log /\ \A k \in DOMAIN logs \ {next} : logs'[k] = logs[k]
    BY <1>3, <2>10
  <2> QED BY <1>1, <1>3, <2>1, <2>2, <2>7, <2>11, <2>12, <2>13 DEF r
<1> QED BY <1>4, <1>5

-----------------------------------------------------------------------------
(* Every step keeps the types. *)

LEMMA TypedCommit ==
  ASSUME TypeInv
  PROVE  /\ \A i \in Index : CommitPut(i) => TypeInv'
         /\ CommitEnd \/ CommitRestart => TypeInv'
<1>1. ASSUME NEW i \in Index, CommitPut(i) PROVE TypeInv'
  <2>1. FilesTyped'
    <3>1. pool' \in Seq(Record)
      BY <1>1, CommitPutIs, PutRecords, ConcatProperties, ZenonT(60) DEF CommitPut, TypeInv, FilesTyped
    <3> QED BY <1>1, <3>1, CommitPutIs DEF CommitPut, TypeInv, FilesTyped
  <2>2. RestTyped'
    <3>1. /\ lock' = "put" /\ UNCHANGED <<timer, saved, acked, notify, mode, next, crashes, flushes>>
          /\ tid' = [tid EXCEPT ![i] = @ + 1] /\ have' = [have EXCEPT ![i] = @ \cup {tid[i] + 1}]
          /\ bare' = [bare EXCEPT ![i] = @ \ {tid[i] + 1}]
          /\ tid[i] + 1 \in 1..MaxTid
      BY <1>1, CommitPutIs DEF CommitPut, runVars
    <3> QED BY <3>1, BoundAssumption DEF TypeInv, RestTyped
  <2>3. open /\ open' = open /\ mode' = mode /\ mode = "up" /\ disk' = disk
    BY <1>1, CommitPutIs DEF CommitPut, runVars
  <2>4. logs' # <<>> /\ logs'[Len(logs')].ext = Current
    BY <1>1, <2>3, CommitPutIs, CurrentTyped, EmptySeq
  <2>5. WriterOK'
    BY <2>3, <2>4, CurrentTyped DEF WriterOK, Current, Last
  <2> QED BY <2>1, <2>2, <2>5 DEF TypeInv
<1>2. ASSUME CommitEnd PROVE TypeInv'
  <2>1. open /\ CheckDoFlush /\ lock' = "free" /\ mode = "up" /\ UNCHANGED <<logs, meta, open, lost, mode>>
    BY <1>2 DEF CommitEnd, TypeInv, WriterOK, runVars
  <2>2. FilesTyped'
    BY <2>1, CheckTyped DEF TypeInv, FilesTyped, Typed
  <2>3. acked' \in [Index -> SUBSET (1..MaxTid)]
    BY <1>2 DEF CommitEnd, TypeInv, RestTyped
  <2>4. RestTyped'
    BY <1>2, <2>1, <2>3, CheckTyped DEF CommitEnd, TypeInv, RestTyped, runVars
  <2>5. WriterOK'
    BY <2>1, CheckTyped DEF TypeInv, WriterOK, Current, Last
  <2> QED BY <2>2, <2>4, <2>5 DEF TypeInv
<1>3. ASSUME CommitRestart PROVE TypeInv'
  <2>1. PICK d : OpenNewLog(logs, d, FALSE) /\ Typed(d)
    BY <1>3, RestartIs
  <2>2. /\ logs' \in Seq(Log) /\ Typed(disk') /\ meta' \in Seq(Nat \ {0}) /\ pool' \in Seq(Record)
        /\ open' = TRUE /\ lost' = FALSE /\ logs' # <<>> /\ logs'[Len(logs')].ext \in DOMAIN disk'
    BY <2>1, NewLogTyped DEF TypeInv, FilesTyped
  <2>3. FilesTyped'
    BY <1>3, <2>2, RestartIs DEF FilesTyped, Typed
  <2>4. acked' \in [Index -> SUBSET (1..MaxTid)]
    BY <1>3 DEF CommitRestart, TypeInv, RestTyped
  <2>5. RestTyped'
    BY <1>3, <2>4, RestartIs DEF CommitRestart, TypeInv, RestTyped, runVars
  <2>6. WriterOK'
    BY <1>3, <2>2 DEF CommitRestart, WriterOK, Current, Last, runVars
  <2> QED BY <2>3, <2>5, <2>6 DEF TypeInv
<1> QED BY <1>1, <1>2, <1>3

LEMMA TypedNotify ==
  ASSUME TypeInv
  PROVE  /\ \A i \in Index : IndexFlush(i) => TypeInv'
         /\ \A p \in notify : NotifyUnlink(p[1], p[2]) => TypeInv'
         /\ NotifyMeta => TypeInv'
<1>1. ASSUME NEW i \in Index, IndexFlush(i) PROVE TypeInv'
  <2>1. FilesTyped' /\ WriterOK'
    BY <1>1 DEF IndexFlush, TypeInv, FilesTyped, WriterOK, fileVars, writeVars, runVars, Current, Last
  <2>2. flushes' \in 0..MaxFlushes
    BY <1>1, BoundAssumption DEF IndexFlush, TypeInv, RestTyped
  <2>3. tid[i] \in 0..MaxTid /\ tid[i] \in Nat
    BY BoundAssumption DEF TypeInv, RestTyped
  <2>4. RestTyped'
    BY <1>1, <2>2, <2>3 DEF IndexFlush, TypeInv, RestTyped, runVars
  <2> QED BY <2>1, <2>4 DEF TypeInv
<1>2. ASSUME NEW p \in notify, NotifyUnlink(p[1], p[2]) PROVE TypeInv'
  <2>1. p[1] \in Index /\ p[2] \in Nat
    BY DEF TypeInv, RestTyped
  <2> DEFINE drop == Dropped(p[1], p[2])
             gone == {logs[k].ext : k \in drop}
             shut == Len(logs) \in drop
  <2>2. /\ open /\ logs' \in Seq(Log)
        /\ disk' = Restrict(disk, DOMAIN disk \ (IF shut THEN gone ELSE gone \ {Current}))
        /\ lost' = (~shut /\ (lost \/ Current \in gone)) /\ open' = ~shut
        /\ pool' = IF shut THEN <<>> ELSE pool
        /\ lock' = IF gone = {} THEN "free" ELSE "unlinked"
        /\ lastWrite' \in Nat /\ lastSync' \in Nat
        /\ ~shut => logs' # <<>> /\ logs'[Len(logs')].ext = Current
    BY ZenonT(60), <1>2, <2>1, NotifyIs
  <2>3. shut => gone # {}
    OBVIOUS
  <2>4. Current \in DOMAIN disk
    BY <2>2, CurrentTyped
  <2> HIDE DEF drop, gone, shut
  <2>5. Typed(disk') /\ (~shut => Current \in DOMAIN disk')
    BY <2>2, <2>4 DEF Restrict, Typed, TypeInv, FilesTyped
  <2>6. pool' \in Seq(Record) /\ open' \in BOOLEAN /\ lost' \in BOOLEAN /\ meta' = meta /\ mode' = mode
        /\ mode = "up"
    BY <1>2, <2>2, EmptySeq DEF NotifyUnlink, TypeInv, FilesTyped, runVars
  <2>7. FilesTyped'
    BY <2>2, <2>5, <2>6 DEF Typed, TypeInv, FilesTyped
  <2>8. RestTyped'
    BY <1>2, <2>2 DEF NotifyUnlink, TypeInv, RestTyped, indexVars, runVars
  <2>9. WriterOK'
    <3>1. CASE shut
      BY <2>2, <2>3, <2>6, <3>1 DEF WriterOK
    <3>2. CASE ~shut
      BY <2>2, <2>5, <2>6, <3>2 DEF WriterOK, Current, Last
    <3> QED BY <3>1, <3>2
  <2> QED BY <2>7, <2>8, <2>9 DEF TypeInv
<1>3. ASSUME NotifyMeta PROVE TypeInv'
  <2>1. RestTyped' /\ mode = "up" /\ mode' = "up" /\ lock' = "free" /\ lastWrite' \in Nat /\ lastSync' \in Nat
    BY <1>3 DEF NotifyMeta, TypeInv, FilesTyped, RestTyped, indexVars, runVars
  <2>2. CASE open
    <3>1. meta' = Exts(logs) /\ UNCHANGED <<logs, disk, pool, open, lost>>
      BY <1>3, <2>2 DEF NotifyMeta
    <3>2. meta' \in Seq(Nat \ {0})
      BY <3>1, ExtsTyped DEF TypeInv, FilesTyped
    <3>3. FilesTyped' /\ WriterOK'
      BY <2>1, <2>2, <3>1, <3>2 DEF TypeInv, FilesTyped, WriterOK, Current, Last
    <3> QED BY <2>1, <3>3 DEF TypeInv
  <2>3. CASE ~open
    <3>1. OpenNewLog(logs, disk, FALSE)
      BY <1>3, <2>3 DEF NotifyMeta
    <3>2. /\ logs' \in Seq(Log) /\ Typed(disk') /\ meta' \in Seq(Nat \ {0}) /\ pool' \in Seq(Record)
          /\ open' = TRUE /\ lost' = FALSE /\ logs' # <<>> /\ logs'[Len(logs')].ext \in DOMAIN disk'
      BY <3>1, NewLogTyped DEF TypeInv, FilesTyped, Typed
    <3>3. FilesTyped' /\ WriterOK'
      BY <2>1, <3>2 DEF FilesTyped, Typed, WriterOK, Current, Last
    <3> QED BY <2>1, <3>3 DEF TypeInv
  <2> QED BY <2>2, <2>3
<1> QED BY <1>1, <1>2, <1>3

LEMMA TypedTimer == ASSUME TypeInv, Timer PROVE TypeInv'
<1>1. CASE TimerFlush
  <2>1. open /\ Flushed(<<>>) /\ pool' = <<>> /\ mode' = mode /\ UNCHANGED <<logs, meta, open, lost, lock>>
    BY <1>1 DEF TimerFlush, TypeInv, WriterOK, runVars
  <2>2. FilesTyped'
    BY <2>1, FlushedTyped, EmptySeq DEF TypeInv, FilesTyped, Typed
  <2>3. RestTyped'
    BY <1>1, <2>1, FlushedTyped DEF TimerFlush, TypeInv, RestTyped, runVars
  <2>4. WriterOK'
    BY <2>1, FlushedTyped DEF TypeInv, WriterOK, Current, Last
  <2> QED BY <2>2, <2>3, <2>4 DEF TypeInv
<1>2. CASE TimerSkip
  BY <1>2 DEF TimerSkip, TypeInv, FilesTyped, RestTyped, WriterOK, Current, Last, fileVars, writeVars,
     indexVars, runVars
<1>3. CASE TimerSync
  <2>1. Typed(disk') /\ DOMAIN disk' = DOMAIN disk
    <3>1. CASE disk' = disk
      BY <3>1 DEF TypeInv, FilesTyped, Typed
    <3>2. CASE open /\ disk' = [disk EXCEPT ![Current] = SyncedFile(@)]
      <4> DEFINE f == disk[Current]
      <4>1. f \in File
        BY <3>2, CurrentTyped
      <4>2. SyncedFile(f) = [recs |-> f.recs, synced |-> Len(f.recs)]
        BY <4>1, FileExcept DEF SyncedFile
      <4>3. SyncedFile(f) \in File /\ SyncedFile(f).synced <= Len(SyncedFile(f).recs)
        <5>1. Len(f.recs) \in Nat /\ f.recs \in Seq(Record)
          BY <4>1, LenProperties DEF File
        <5> QED BY <4>2, <5>1 DEF File
      <4>4. disk' = [disk EXCEPT ![Current] = SyncedFile(f)]
        BY <3>2
      <4> HIDE DEF f
      <4> QED BY <3>2, <4>3, <4>4, CurrentTyped, PutTyped DEF TypeInv, FilesTyped, Typed
    <3> QED BY <1>3, <3>1, <3>2 DEF TimerSync
  <2>2. UNCHANGED <<logs, meta, pool, open, lost, lastWrite, lastSync, lock, mode>>
    BY <1>3 DEF TimerSync, writeVars, runVars
  <2>3. FilesTyped' /\ WriterOK'
    BY <2>1, <2>2 DEF TypeInv, FilesTyped, Typed, WriterOK, Current, Last
  <2>4. RestTyped'
    BY <1>3 DEF TimerSync, TypeInv, RestTyped, indexVars, runVars
  <2> QED BY <2>3, <2>4 DEF TypeInv
<1>4. CASE TimerAssign
  <2>1. lastSync' \in Nat
    BY <1>4, CurrentTyped DEF TimerAssign, TypeInv, FilesTyped
  <2> QED BY <1>4, <2>1 DEF TimerAssign, TypeInv, FilesTyped, RestTyped, WriterOK, Current, Last, fileVars,
     indexVars, runVars
<1> QED BY <1>1, <1>2, <1>3, <1>4 DEF Timer

LEMMA TypedStop ==
  ASSUME TypeInv, Stop, crashes < MaxCrashes, Typed(disk'), meta' \in Seq(Nat \ {0}), tid' = tid,
         saved' \in [Index -> 0..MaxTid], acked' \in [Index -> SUBSET (1..MaxTid)],
         bare' \in [Index -> SUBSET (1..MaxTid)]
  PROVE  TypeInv'
<1>1. FilesTyped'
  BY EmptySeq DEF Stop, FilesTyped, Typed
<1>2. crashes' \in 0..MaxCrashes
  BY BoundAssumption DEF Stop, TypeInv, RestTyped
<1>3. RestTyped'
  BY <1>2 DEF Stop, TypeInv, RestTyped
<1>4. WriterOK'
  BY DEF Stop, WriterOK
<1> QED BY <1>1, <1>3, <1>4 DEF TypeInv

LEMMA TypedRestart ==
  ASSUME TypeInv
  PROVE  /\ Crash \/ Shutdown => TypeInv'
         /\ Start \/ ReplayFile \/ ReplayDone => TypeInv'
<1>1. ASSUME Crash PROVE TypeInv'
  BY <1>1, CrashTyped, TypedStop DEF Crash, TypeInv, FilesTyped, RestTyped
<1>2. ASSUME Shutdown PROVE TypeInv'
  <2>1. Typed(disk')
    <3>1. disk' = [e \in {} |-> disk[e]]
      BY <1>2 DEF Shutdown, Restrict
    <3> QED BY <3>1 DEF Typed
  <2>2. meta' \in Seq(Nat \ {0})
    BY <1>2, EmptySeq DEF Shutdown
  <2> QED BY <1>2, <2>1, <2>2, TypedStop DEF Shutdown, TypeInv, RestTyped
<1>3. ASSUME Start PROVE TypeInv'
  <2>1. /\ mode = "down" /\ mode' = "replay" /\ tid' = saved
        /\ have' = [i \in Index |-> {n \in have[i] : n <= saved[i]}]
        /\ logs' = [k \in DOMAIN meta |-> [ext |-> meta[k], info |-> NoInfo]]
        /\ UNCHANGED <<disk, meta, pool, open, lost, lastWrite, lastSync, lock, timer, saved, acked, bare,
                       notify, next, crashes, flushes>>
    BY <1>3 DEF Start, writeVars
  <2>2. logs' \in Seq(Log)
    <3>1. NoInfo \in Infos
      <4>1. NoInfo \in [{} -> Info]
        BY DEF NoInfo
      <4> QED BY <4>1 DEF Infos
    <3>2. DOMAIN meta = 1..Len(meta) /\ Len(meta) \in Nat /\ \A k \in DOMAIN meta : meta[k] \in Nat \ {0}
      BY LenProperties, ElementOfSeq DEF TypeInv, FilesTyped
    <3>3. \A k \in DOMAIN meta : [ext |-> meta[k], info |-> NoInfo] \in Log
      BY <3>1, <3>2 DEF Log
    <3>4. logs' \in [1..Len(meta) -> Log]
      BY <2>1, <3>2, <3>3
    <3> QED BY <3>2, <3>4
  <2>3. have' \in [Index -> SUBSET (1..MaxTid)]
    BY <2>1 DEF TypeInv, RestTyped
  <2>4. FilesTyped'
    BY <2>1, <2>2 DEF TypeInv, FilesTyped
  <2>5. RestTyped'
    BY <2>1, <2>3 DEF TypeInv, RestTyped
  <2>6. WriterOK'
    BY <2>1 DEF TypeInv, WriterOK
  <2> QED BY <2>4, <2>5, <2>6 DEF TypeInv
<1>4. ASSUME ReplayFile PROVE TypeInv'
  <2> DEFINE r == disk[logs[next].ext].recs
  <2>1. UNCHANGED <<disk, meta, pool, open, lost, lastWrite, lastSync, lock, timer, saved, acked, bare, notify,
                    crashes, flushes>> /\ mode = "replay" /\ mode' \in {"replay", "dead"}
    BY <1>4, ReplayIs DEF ReplayFile, writeVars
  <2>2. logs' \in Seq(Log)
    BY <1>4, ReplayIs DEF TypeInv, FilesTyped
  <2>3. tid' \in [Index -> 0..MaxTid] /\ have' \in [Index -> SUBSET (1..MaxTid)] /\ next' \in Nat \ {0}
    <3>1. CASE UNCHANGED <<tid, have, next>>
      BY <3>1 DEF TypeInv, RestTyped
    <3>2. CASE /\ r \in Seq(Record) /\ next' = next + 1
               /\ have' = [i \in Index |-> have[i] \cup {n \in Tids(r, i) : n > tid[i]}]
               /\ tid' = [i \in Index |-> Highest(Tids(r, i) \cup {tid[i]})]
      <4> HIDE DEF r
      <4>1. \A i \in Index : Tids(r, i) \subseteq 1..MaxTid
        BY <3>2, TidsIs
      <4>2. \A i \in Index : Highest(Tids(r, i) \cup {tid[i]}) \in 0..MaxTid
        BY <4>1, HighestIs, BoundAssumption DEF TypeInv, RestTyped
      <4> QED BY <3>2, <4>1, <4>2 DEF TypeInv, RestTyped
    <3> QED BY <1>4, <3>1, <3>2, ReplayIs
  <2>4. FilesTyped'
    BY <2>1, <2>2 DEF TypeInv, FilesTyped
  <2>5. RestTyped'
    BY <2>1, <2>3 DEF TypeInv, RestTyped
  <2>6. WriterOK'
    BY <2>1 DEF TypeInv, WriterOK
  <2> QED BY <2>4, <2>5, <2>6 DEF TypeInv
<1>5. ASSUME ReplayDone PROVE TypeInv'
  <2>1. PICK reuse \in BOOLEAN : OpenNewLog(logs, disk, reuse)
    BY <1>5 DEF ReplayDone
  <2>2. /\ logs' \in Seq(Log) /\ Typed(disk') /\ meta' \in Seq(Nat \ {0}) /\ pool' \in Seq(Record)
        /\ open' = TRUE /\ lost' = FALSE /\ logs' # <<>> /\ logs'[Len(logs')].ext \in DOMAIN disk'
    BY <2>1, NewLogTyped DEF TypeInv, FilesTyped, Typed
  <2>3. FilesTyped'
    BY <1>5, <2>2 DEF ReplayDone, FilesTyped, Typed, TypeInv
  <2>4. RestTyped' /\ mode' = "up"
    BY <1>5 DEF ReplayDone, TypeInv, RestTyped, indexVars
  <2>5. WriterOK'
    BY <2>2, <2>4 DEF WriterOK, Current, Last
  <2> QED BY <2>3, <2>4, <2>5 DEF TypeInv
<1> QED BY <1>1, <1>2, <1>3, <1>4, <1>5

LEMMA TypedStep == TypeInv /\ [Next]_vars => TypeInv'
<1>1. ASSUME TypeInv, UNCHANGED vars PROVE TypeInv'
  BY <1>1 DEF vars, TypeInv, FilesTyped, RestTyped, WriterOK, Current, Last, fileVars, writeVars, indexVars,
     runVars
<1> QED BY <1>1, TypedCommit, TypedNotify, TypedTimer, TypedRestart DEF Next, Finish

\* The types: whatever commits, notifications, the timer, crashes and starts do, the
\* windows included in which searchd fails.
THEOREM LogTyped == Spec => []TypeOK
<1>1. TypeInv => TypeOK
  <2> SUFFICES ASSUME TypeInv PROVE TypeOK
    OBVIOUS
  <2>1. ASSUME NEW k \in DOMAIN logs
        PROVE  /\ logs[k].ext \in Nat \ {0} /\ DOMAIN logs[k].info \subseteq Index
               /\ \A i \in DOMAIN logs[k].info : logs[k].info[i] \in [max : Nat, flushed : Nat]
    <3>1. logs[k] \in Log
      BY ExtsTyped DEF TypeInv, FilesTyped
    <3> QED BY <3>1 DEF Log, Infos, Info
  <2>2. ASSUME NEW e \in DOMAIN disk
        PROVE  disk[e].recs \in Seq(Record) /\ disk[e].synced \in 0..Len(disk[e].recs)
    <3>1. disk[e] \in File /\ disk[e].synced <= Len(disk[e].recs)
      BY DEF TypeInv, FilesTyped
    <3> QED BY <3>1, LenProperties DEF File
  <2> QED BY <2>1, <2>2 DEF TypeInv, FilesTyped, RestTyped, TypeOK
<1> QED BY <1>1, InitTyped, TypedStep, PTL DEF Spec
-----------------------------------------------------------------------------
(* What files say: more behind them, and a part of them. *)

LEMMA RecordsTyped ==
  ASSUME NEW w \in Seq(Record)
  PROVE  /\ DOMAIN w = 1..Len(w) /\ Len(w) \in Nat /\ \A p \in DOMAIN w : w[p] \in Record
         /\ \A p \in DOMAIN w : \A i : IsCommit(w[p], i) => w[p].tid \in Nat \ {0} /\ w[p].tid \in Tids(w, i)
<1>1. DOMAIN w = 1..Len(w) /\ Len(w) \in Nat /\ \A p \in DOMAIN w : w[p] \in Record
  BY LenProperties, ElementOfSeq
<1>2. \A i : Tids(w, i) = {w[p].tid : p \in {q \in DOMAIN w : IsCommit(w[q], i)}}
  BY TidsIs
<1>3. \A p \in DOMAIN w : \A i : IsCommit(w[p], i) => w[p].tid \in Nat \ {0}
  BY <1>1 DEF Record, IsCommit
<1> QED BY <1>1, <1>2, <1>3

LEMMA ConcatIs ==
  ASSUME NEW w \in Seq(Record), NEW q \in Seq(Record)
  PROVE  /\ w \o q \in Seq(Record) /\ Len(w \o q) = Len(w) + Len(q)
         /\ \A p \in DOMAIN w : p \in DOMAIN (w \o q) /\ (w \o q)[p] = w[p]
         /\ \A p \in DOMAIN q : Len(w) + p \in DOMAIN (w \o q) /\ (w \o q)[Len(w) + p] = q[p]
         /\ \A p \in DOMAIN (w \o q) : p \in DOMAIN w \/ p - Len(w) \in DOMAIN q
<1> DEFINE v == w \o q
<1>1. /\ v \in Seq(Record) /\ Len(v) = Len(w) + Len(q)
      /\ \A p \in 1..(Len(w) + Len(q)) : v[p] = IF p <= Len(w) THEN w[p] ELSE q[p - Len(w)]
  BY ConcatProperties
<1> HIDE DEF v
<1>2. DOMAIN v = 1..Len(v) /\ DOMAIN w = 1..Len(w) /\ DOMAIN q = 1..Len(q) /\ Len(w) \in Nat /\ Len(q) \in Nat
  BY <1>1, RecordsTyped
<1>3. \A p \in DOMAIN w : p \in DOMAIN v /\ v[p] = w[p]
  BY <1>1, <1>2
<1>4. \A p \in DOMAIN q : Len(w) + p \in DOMAIN v /\ v[Len(w) + p] = q[p]
  BY <1>1, <1>2
<1>5. \A p \in DOMAIN v : p \in DOMAIN w \/ p - Len(w) \in DOMAIN q
  BY <1>1, <1>2
<1> QED BY <1>1, <1>3, <1>4, <1>5 DEF v

\* Records behind a tidy file: at most one transaction, a new one, of an index that
\* the file or the records introduce.
LEMMA TidyMore ==
  ASSUME NEW w \in Seq(Record), NEW q \in Seq(Record), Tidy(w),
         \A p \in DOMAIN q : q[p].op # "torn_head" /\ (Len(w) + p = 2 => q[p].op # "cache"),
         \A p \in DOMAIN q, i \in Index : IsCommit(q[p], i) =>
            /\ p = Len(q) /\ \A n \in Tids(w, i) : n < q[p].tid
            /\ \/ \E x \in DOMAIN w : w[x].op = "add" /\ w[x].index = i
               \/ \E x \in DOMAIN q : x < p /\ q[x].op = "add" /\ q[x].index = i
  PROVE  Tidy(w \o q)
<1> DEFINE v == w \o q
<1>1. /\ v \in Seq(Record) /\ Len(v) = Len(w) + Len(q)
      /\ \A p \in DOMAIN w : p \in DOMAIN v /\ v[p] = w[p]
      /\ \A p \in DOMAIN q : Len(w) + p \in DOMAIN v /\ v[Len(w) + p] = q[p]
      /\ \A p \in DOMAIN v : p \in DOMAIN w \/ p - Len(w) \in DOMAIN q
  BY ConcatIs
<1> HIDE DEF v
<1>2. DOMAIN v = 1..Len(v) /\ DOMAIN w = 1..Len(w) /\ DOMAIN q = 1..Len(q) /\ Len(w) \in Nat /\ Len(q) \in Nat
  BY <1>1, RecordsTyped
<1>3. ASSUME NEW p \in DOMAIN v PROVE v[p].op # "torn_head" /\ (p = 2 => v[p].op # "cache")
  <2>1. CASE p \in DOMAIN w
    BY <1>1, <2>1 DEF Tidy
  <2>2. CASE p - Len(w) \in DOMAIN q
    <3>1. p = Len(w) + (p - Len(w))
      BY <1>2
    <3> QED BY <1>1, <2>2, <3>1
  <2> QED BY <1>1, <2>1, <2>2
<1>4. ASSUME NEW p \in DOMAIN v, NEW i \in Index, IsCommit(v[p], i)
      PROVE  /\ v[p].tid > 0
             /\ \E x \in DOMAIN v : x < p /\ v[x].op = "add" /\ v[x].index = i
             /\ \A x \in DOMAIN v : x < p /\ IsCommit(v[x], i) => v[x].tid < v[p].tid
  <2>0. v[p].tid > 0
    BY <1>1, <1>4, RecordsTyped
  <2>1. CASE p \in DOMAIN w
    <3>1. \A x \in DOMAIN v : x < p => x \in DOMAIN w
      BY <1>2, <2>1
    <3>2. v[p] = w[p] /\ IsCommit(w[p], i)
      BY <1>1, <1>4, <2>1
    <3>3. PICK y \in DOMAIN w : y < p /\ w[y].op = "add" /\ w[y].index = i
      BY <2>1, <3>2 DEF Tidy
    <3>4. y \in DOMAIN v /\ v[y] = w[y]
      BY <1>1, <3>3
    <3>5. ASSUME NEW x \in DOMAIN v, x < p, IsCommit(v[x], i) PROVE v[x].tid < v[p].tid
      <4>1. x \in DOMAIN w /\ v[x] = w[x]
        BY <1>1, <3>1, <3>5
      <4> QED BY <2>1, <3>2, <3>5, <4>1 DEF Tidy
    <3> QED BY <2>0, <3>3, <3>4, <3>5
  <2>2. CASE p - Len(w) \in DOMAIN q
    <3> DEFINE m == p - Len(w)
    <3>1. p = Len(w) + m /\ m \in DOMAIN q
      BY <1>2, <2>2
    <3> HIDE DEF m
    <3>2. v[p] = q[m] /\ IsCommit(q[m], i)
      BY <1>1, <1>4, <3>1
    <3>3. \E x \in DOMAIN v : x < p /\ v[x].op = "add" /\ v[x].index = i
      <4>1. CASE \E x \in DOMAIN w : w[x].op = "add" /\ w[x].index = i
        <5>1. PICK x \in DOMAIN w : w[x].op = "add" /\ w[x].index = i
          BY <4>1
        <5>2. x < p
          BY <1>2, <3>1
        <5> QED BY <1>1, <5>1, <5>2
      <4>2. CASE \E x \in DOMAIN q : x < m /\ q[x].op = "add" /\ q[x].index = i
        <5>1. PICK x \in DOMAIN q : x < m /\ q[x].op = "add" /\ q[x].index = i
          BY <4>2
        <5>2. Len(w) + x < p
          BY <1>2, <3>1, <5>1
        <5> QED BY <1>1, <5>1, <5>2
      <4> QED BY <3>1, <3>2, <4>1, <4>2
    <3>4. ASSUME NEW x \in DOMAIN v, x < p, IsCommit(v[x], i) PROVE v[x].tid < v[p].tid
      <4>1. x \in DOMAIN w
        <5>1. CASE x - Len(w) \in DOMAIN q
          <6>1. x = Len(w) + (x - Len(w)) /\ x - Len(w) < m /\ m <= Len(q)
            BY <1>2, <3>1, <3>4, <5>1
          <6>2. IsCommit(q[x - Len(w)], i)
            BY <1>1, <3>4, <5>1, <6>1
          <6> QED BY <1>2, <3>1, <3>2, <5>1, <6>1, <6>2
        <5> QED BY <1>1, <5>1
      <4>2. v[x] = w[x] /\ w[x].tid \in Tids(w, i)
        BY <1>1, <3>4, <4>1, RecordsTyped
      <4> QED BY <3>1, <3>2, <4>2
    <3> QED BY <2>0, <3>3, <3>4
  <2> QED BY <1>1, <2>1, <2>2
<1>5. Tidy(v)
  BY <1>3, <1>4 DEF Tidy
<1> QED BY <1>5 DEF v

LEMMA PartIs ==
  ASSUME NEW w \in Seq(Record), NEW n \in 0..Len(w)
  PROVE  /\ SubSeq(w, 1, n) \in Seq(Record) /\ Len(SubSeq(w, 1, n)) = n
         /\ DOMAIN SubSeq(w, 1, n) = 1..n
         /\ \A p \in 1..n : p \in DOMAIN w /\ SubSeq(w, 1, n)[p] = w[p]
         /\ n = Len(w) => SubSeq(w, 1, n) = w
<1>1. DOMAIN w = 1..Len(w) /\ Len(w) \in Nat /\ \A p \in DOMAIN w : w[p] \in Record
  BY RecordsTyped
<1>2. n \in Nat /\ \A p \in 1..n : p \in DOMAIN w
  BY <1>1
<1>3. /\ SubSeq(w, 1, n) \in Seq(Record) /\ Len(SubSeq(w, 1, n)) = n
      /\ \A p \in 1..n : SubSeq(w, 1, n)[p] = w[p]
  <2>1. \A p \in 1..n : w[p] \in Record
    BY <1>1, <1>2
  <2>2. /\ SubSeq(w, 1, n) \in Seq(Record)
        /\ Len(SubSeq(w, 1, n)) = IF 1 <= n THEN n - 1 + 1 ELSE 0
        /\ \A p \in 1..(n - 1 + 1) : SubSeq(w, 1, n)[p] = w[1 + p - 1]
    BY <1>2, <2>1, SubSeqProperties
  <2> QED BY <1>2, <2>2
<1>4. DOMAIN SubSeq(w, 1, n) = 1..n
  BY <1>3, LenProperties
<1>5. n = Len(w) => SubSeq(w, 1, n) = w
  BY <1>1, <1>3, SeqEqual
<1> QED BY <1>2, <1>3, <1>4, <1>5

LEMMA TidyPart ==
  ASSUME NEW w \in Seq(Record), NEW n \in 0..Len(w), Tidy(w)
  PROVE  /\ Tidy(SubSeq(w, 1, n))
         /\ \A i : Tids(SubSeq(w, 1, n), i) \subseteq Tids(w, i)
         /\ \A i \in Index : \A k \in Tids(SubSeq(w, 1, n), i), m \in Tids(w, i) :
               m <= k => m \in Tids(SubSeq(w, 1, n), i)
<1> DEFINE v == SubSeq(w, 1, n)
<1>1. v \in Seq(Record) /\ DOMAIN v = 1..n /\ \A p \in 1..n : p \in DOMAIN w /\ v[p] = w[p]
  BY PartIs
<1> HIDE DEF v
<1>2. DOMAIN w = 1..Len(w) /\ Len(w) \in Nat /\ n \in Nat /\ n <= Len(w)
  BY RecordsTyped
<1>3. Tidy(v)
  <2>1. \A p \in DOMAIN v : v[p].op # "torn_head" /\ (p = 2 => v[p].op # "cache")
    BY <1>1 DEF Tidy
  <2>2. ASSUME NEW p \in DOMAIN v, NEW i \in Index, IsCommit(v[p], i)
        PROVE  /\ v[p].tid > 0
               /\ \E x \in DOMAIN v : x < p /\ v[x].op = "add" /\ v[x].index = i
               /\ \A x \in DOMAIN v : x < p /\ IsCommit(v[x], i) => v[x].tid < v[p].tid
    <3>1. p \in DOMAIN w /\ v[p] = w[p]
      BY <1>1
    <3>2. PICK x \in DOMAIN w : x < p /\ w[x].op = "add" /\ w[x].index = i
      BY <2>2, <3>1 DEF Tidy
    <3>3. x \in DOMAIN v
      BY <1>1, <1>2, <3>2
    <3> QED BY <1>1, <2>2, <3>1, <3>2, <3>3 DEF Tidy
  <2> QED BY <2>1, <2>2 DEF Tidy
<1>4. \A i : /\ Tids(v, i) = {v[p].tid : p \in {q \in DOMAIN v : IsCommit(v[q], i)}}
             /\ Tids(w, i) = {w[p].tid : p \in {q \in DOMAIN w : IsCommit(w[q], i)}}
  BY <1>1, TidsIs
<1>5. \A i : Tids(v, i) \subseteq Tids(w, i)
  BY <1>1, <1>4
<1>6. ASSUME NEW i \in Index, NEW k \in Tids(v, i), NEW m \in Tids(w, i), m <= k PROVE m \in Tids(v, i)
  <2>1. PICK p \in DOMAIN v : IsCommit(v[p], i) /\ k = v[p].tid
    BY <1>4
  <2>2. PICK q \in DOMAIN w : IsCommit(w[q], i) /\ m = w[q].tid
    BY <1>4
  <2>3. p \in DOMAIN w /\ k = w[p].tid /\ IsCommit(w[p], i)
    BY <1>1, <2>1
  <2>4. k \in Nat /\ m \in Nat
    BY <2>2, <2>3, RecordsTyped
  <2>5. ~(p < q)
    BY <1>6, <2>2, <2>3, <2>4 DEF Tidy
  <2>6. q \in DOMAIN v
    BY <1>1, <1>2, <2>5
  <2> QED BY <1>1, <1>4, <2>2, <2>6
<1> QED BY <1>3, <1>5, <1>6 DEF v

LEMMA WholeTyped ==
  ASSUME TypeInv, NEW e \in DOMAIN disk
  PROVE  /\ Whole(e) \in Seq(Record) /\ disk[e].recs \in Seq(Record) /\ e \in Nat \ {0}
         /\ disk[e].synced \in 0..Len(disk[e].recs)
         /\ \A i : Tids(Whole(e), i) \subseteq 1..MaxTid
<1>1. disk[e].recs \in Seq(Record) /\ pool \in Seq(Record) /\ e \in Nat \ {0}
      /\ disk[e].synced \in Nat /\ disk[e].synced <= Len(disk[e].recs)
  BY DEF TypeInv, FilesTyped, File
<1>2. Whole(e) \in Seq(Record)
  BY <1>1, TidsConcat DEF Whole
<1>3. Len(disk[e].recs) \in Nat
  BY <1>1, RecordsTyped
<1> QED BY <1>1, <1>2, <1>3, TidsIs

LEMMA OnDiskIs ==
  ASSUME TypeInv
  PROVE  \A e \in DOMAIN disk : \A i : Tids(disk[e].recs, i) \subseteq Tids(Whole(e), i)
<1>1. ASSUME NEW e \in DOMAIN disk, NEW i PROVE Tids(disk[e].recs, i) \subseteq Tids(Whole(e), i)
  <2>1. disk[e].recs \in Seq(Record) /\ pool \in Seq(Record)
    BY DEF TypeInv, FilesTyped, File
  <2>2. Tids(disk[e].recs \o pool, i) = Tids(disk[e].recs, i) \cup Tids(pool, i)
    BY <2>1, TidsConcat
  <2> QED BY <2>2 DEF Whole
<1> QED BY <1>1

\* The files of a running searchd, of which the last is the current one.
LEMMA FilesAre ==
  ASSUME TypeInv, FilesOK, mode \in {"up", "replay"}
  PROVE  /\ \A k \in DOMAIN logs : logs[k].ext \in DOMAIN disk /\ logs[k].ext \in Nat \ {0}
         /\ \A e \in DOMAIN disk : \E k \in DOMAIN logs : e = logs[k].ext
         /\ \A j, k \in DOMAIN logs : j < k => logs[j].ext < logs[k].ext
         /\ \A k \in DOMAIN logs : k \in 1..Len(logs) /\ Len(logs) \in DOMAIN logs
         /\ \A e \in DOMAIN disk : e <= Current /\ Current \in DOMAIN disk
<1>1. /\ logs \in Seq(Log) /\ DOMAIN logs = 1..Len(logs) /\ Len(logs) \in Nat
      /\ \A k \in DOMAIN logs : Exts(logs)[k] = logs[k].ext /\ logs[k].ext \in Nat \ {0}
      /\ DOMAIN Exts(logs) = DOMAIN logs
  BY ExtsTyped, LenProperties DEF TypeInv, FilesTyped, Log, Exts
<1>2. DOMAIN disk = Range(Exts(logs)) /\ Rising(Exts(logs))
  BY DEF FilesOK
<1>3. /\ \A k \in DOMAIN logs : logs[k].ext \in DOMAIN disk /\ logs[k].ext \in Nat \ {0}
      /\ \A e \in DOMAIN disk : \E k \in DOMAIN logs : e = logs[k].ext
      /\ \A j, k \in DOMAIN logs : j < k => logs[j].ext < logs[k].ext
  BY <1>1, <1>2 DEF Range, Rising
<1>4. \A k \in DOMAIN logs : k \in 1..Len(logs) /\ Len(logs) \in DOMAIN logs
  BY <1>1
<1>5. ASSUME NEW e \in DOMAIN disk PROVE e <= Current /\ Current \in DOMAIN disk
  <2>1. PICK k \in DOMAIN logs : e = logs[k].ext
    BY <1>3
  <2>2. k = Len(logs) \/ k < Len(logs)
    BY <1>1
  <2>3. Current = logs[Len(logs)].ext /\ Len(logs) \in DOMAIN logs
    BY <1>4, <2>1 DEF Current, Last
  <2> QED BY <1>3, <2>1, <2>2, <2>3
<1> QED BY <1>3, <1>4, <1>5
-----------------------------------------------------------------------------
(* Steps after which the files, with the buffer, say the same. *)

LEMMA QuietStep ==
  ASSUME FileInv, mode = "up", UNCHANGED <<logs, open, lost, mode, tid, have, next>>,
         DOMAIN disk' = DOMAIN disk, \A e \in DOMAIN disk : Whole(e)' = Whole(e),
         \A e \in DOMAIN disk : disk'[e] = disk[e] \/ (open /\ e = Current),
         pool' \in {pool, <<>>}, lock' = "put" => lock = "put",
         meta' \in {meta, Exts(logs)}, lock' # "unlinked" => meta' = Exts(logs),
         \A i \in Index : saved'[i] \in Nat /\ saved[i] <= saved'[i] /\ saved'[i] <= tid[i],
         \A p \in notify' : p[2] <= saved'[p[1]], \A i \in Index : bare[i] \subseteq bare'[i]
  PROVE  Rest'
<1>1. TypeInv /\ FilesOK /\ RecordsOK /\ OrderOK /\ TidsOK /\ BareOK /\ ReplayOK /\ InfoOK
  BY DEF FileInv, Rest
<1>2. Current' = Current /\ mode' = "up"
  BY DEF Current, Last
<1>3. \A i : Holds(i)' = Holds(i)
  BY DEF Holds
<1>4. \A i \in Index : saved[i] \in Nat /\ tid[i] \in Nat
  BY <1>1, BoundAssumption DEF TypeInv, RestTyped
<1>5. \A e \in DOMAIN disk : Whole(e) \in Seq(Record) /\ \A i : Tids(Whole(e), i) \subseteq 1..MaxTid
  BY <1>1, WholeTyped
<1>6. \A k \in DOMAIN logs : logs[k].ext \in DOMAIN disk
  BY <1>1, FilesAre
<1>7. FilesOK'
  <2>1. Rising(meta') /\ DOMAIN disk \subseteq Range(meta')
    BY <1>1 DEF FilesOK
  <2> QED BY <1>1, <1>2, <2>1 DEF FilesOK
<1>8. RecordsOK'
  <2>1. \A e \in DOMAIN disk' : Tidy(Whole(e))'
    BY <1>1 DEF RecordsOK, Tidy
  <2>2. open => Current \in DOMAIN disk
    BY <1>1 DEF TypeInv, WriterOK
  <2>3. lock = "put" => open
    BY <1>1 DEF TypeInv, WriterOK
  <2>4. open' => Len(Whole(Current))' > 0
    BY <1>1, <1>2, <2>2 DEF RecordsOK
  <2>5. lock' = "put" => Len(Whole(Current))' > 1
    BY <1>1, <1>2, <2>2, <2>3 DEF RecordsOK
  <2>6. \A p \in DOMAIN pool' : pool'[p].op # "cache"
    BY <1>1 DEF RecordsOK
  <2> QED BY <1>2, <2>1, <2>4, <2>5, <2>6 DEF RecordsOK
<1>9. OrderOK'
  BY <1>1 DEF OrderOK
<1>10. TidsOK'
  <2>1. ASSUME NEW i \in Index PROVE StoredUp(i)'
    <3>1. StoredUp(i)
      BY <1>1 DEF TidsOK
    <3>2. ASSUME NEW n \in 1..tid[i]
          PROVE  (n \in have[i] <=> Stored(i, n)') /\ (Stored(i, n)' \/ n \in bare'[i])
      <4>1. (n \in have[i] <=> Stored(i, n)) /\ (Stored(i, n) \/ n \in bare'[i])
        BY <3>1 DEF StoredUp
      <4>2. Stored(i, n)' <=> IF n <= saved'[i] THEN n \in have[i] ELSE n \in Holds(i)
        BY <1>3 DEF Stored
      <4>3. Stored(i, n) <=> IF n <= saved[i] THEN n \in have[i] ELSE n \in Holds(i)
        BY DEF Stored
      <4>4. n \in Nat /\ (n <= saved[i] => n <= saved'[i])
        BY <1>4
      <4> QED BY <4>1, <4>2, <4>3, <4>4
    <3> QED BY <1>3, <3>1, <3>2 DEF StoredUp
  <2> QED BY <1>2, <2>1 DEF TidsOK
<1>11. ReplayOK'
  BY <1>2 DEF ReplayOK
<1>12. InfoOK'
  <2>1. \A k \in DOMAIN logs : Whole(logs[k].ext)' = Whole(logs[k].ext)
    BY <1>6
  <2>2. ASSUME NEW k \in DOMAIN logs, NEW i \in Index, NEW n \in Tids(Whole(logs[k].ext), i),
               n <= logs[k].info[i].flushed
        PROVE  n <= saved'[i]
    <3>1. n <= saved[i] /\ n \in Nat
      BY <1>1, <1>2, <1>5, <1>6, <2>2 DEF InfoOK, Noting
    <3> QED BY <1>4, <3>1
  <2> QED BY <1>1, <1>2, <2>1, <2>2 DEF InfoOK, Noting
<1>13. BareOK'
  <2>1. ASSUME NEW e \in DOMAIN disk, NEW i \in Index, Closed(e)' PROVE Unsynced(disk'[e], i) \subseteq bare'[i]
    <3>1. Closed(e) /\ disk'[e] = disk[e]
      BY <1>2, <2>1 DEF Closed
    <3> QED BY <1>1, <3>1 DEF BareOK
  <2> QED BY <2>1 DEF BareOK
<1> QED BY <1>7, <1>8, <1>9, <1>10, <1>11, <1>12, <1>13 DEF Rest

\* A file that is written says what it said with the buffer.
LEMMA WriteKeeps ==
  ASSUME TypeInv, open, UNCHANGED <<logs, open>>, DOMAIN disk' = DOMAIN disk,
         \A e \in DOMAIN disk \ {Current} : disk'[e] = disk[e],
         \/ disk'[Current].recs = disk[Current].recs \o pool /\ pool' = <<>>
         \/ disk'[Current].recs = disk[Current].recs /\ pool' = pool
  PROVE  /\ \A e \in DOMAIN disk : Whole(e)' = Whole(e)
         /\ \A e \in DOMAIN disk : disk'[e] = disk[e] \/ (open /\ e = Current)
         /\ pool' \in {pool, <<>>}
<1>0. logs' = logs /\ open' = open
  OBVIOUS
<1>1. Current' = Current
  BY <1>0, Zenon DEF Current, Last
<1>2. ASSUME NEW e \in DOMAIN disk PROVE Whole(e)' = Whole(e)
  <2>1. disk[e].recs \o pool \in Seq(Record)
    BY WholeTyped, TidsConcat DEF TypeInv, FilesTyped
  <2>2. disk[e].recs \o pool \o <<>> = disk[e].recs \o pool
    BY <2>1, ConcatEmptySeq
  <2>3. CASE e = Current
    <3>1. Whole(e)' = disk'[Current].recs \o pool' /\ Whole(e) = disk[Current].recs \o pool
      BY <1>0, <1>1, <2>3 DEF Whole
    <3> QED BY <2>2, <2>3, <3>1
  <2>4. CASE e # Current
    <3>1. Whole(e)' = disk'[e].recs /\ Whole(e) = disk[e].recs /\ disk'[e] = disk[e]
      BY <1>0, <1>1, <2>4 DEF Whole
    <3> QED BY <3>1
  <2> QED BY <2>3, <2>4
<1> QED BY <1>2

LEMMA SyncIs ==
  ASSUME TypeInv, open, disk' = [disk EXCEPT ![Current] = SyncedFile(@)]
  PROVE  \A e \in DOMAIN disk : disk'[e].recs = disk[e].recs
<1> DEFINE f == disk[Current]
<1>1. f \in File /\ Current \in DOMAIN disk
  BY CurrentTyped
<1>2. SyncedFile(f) = [recs |-> f.recs, synced |-> Len(f.recs)]
  BY <1>1, FileExcept DEF SyncedFile
<1>3. disk'[Current] = SyncedFile(f)
  BY <1>1
<1> HIDE DEF f
<1>4. SyncedFile(f).recs = f.recs
  BY <1>2
<1>5. disk'[Current].recs = disk[Current].recs
  BY <1>3, <1>4 DEF f
<1>6. \A e \in DOMAIN disk : e # Current => disk'[e] = disk[e]
  OBVIOUS
<1> QED BY <1>5, <1>6

LEMMA QuietFiles ==
  ASSUME FileInv, TypeInv',
         CommitEnd \/ Timer \/ (\E i \in Index : IndexFlush(i)) \/ (NotifyMeta /\ open)
  PROVE  Rest'
<1>0. TypeInv /\ FilesOK /\ TidsOK
  BY DEF FileInv, Rest
<1>1. \A i \in Index : saved[i] \in Nat /\ tid[i] \in Nat
  BY <1>0, BoundAssumption DEF TypeInv, RestTyped
<1>2. mode = "up" => /\ \A i \in Index : saved[i] \in Nat /\ saved[i] <= saved[i] /\ saved[i] <= tid[i]
                     /\ \A p \in notify : p[2] <= saved[p[1]]
                     /\ lock # "unlinked" => meta = Exts(logs) /\ open
  BY <1>0, <1>1 DEF TidsOK, StoredUp, FilesOK, TypeInv, WriterOK
<1>3. CASE CommitEnd
  <2>1. CheckDoFlush /\ mode = "up" /\ lock = "put" /\ lock' = "free"
        /\ UNCHANGED <<logs, meta, open, lost, mode, tid, saved, have, notify, next>>
    BY <1>3 DEF CommitEnd, runVars
  <2>2. open
    BY <1>2, <2>1
  <2>3. /\ DOMAIN disk' = DOMAIN disk /\ \A e \in DOMAIN disk \ {Current} : disk'[e] = disk[e]
        /\ \A i \in Index : bare[i] \subseteq bare'[i]
        /\ \/ disk'[Current].recs = disk[Current].recs \o pool /\ pool' = <<>>
           \/ disk'[Current].recs = disk[Current].recs /\ pool' = pool
    BY <1>0, <2>1, <2>2, CheckTyped
  <2>4. /\ \A e \in DOMAIN disk : Whole(e)' = Whole(e)
        /\ \A e \in DOMAIN disk : disk'[e] = disk[e] \/ (open /\ e = Current)
        /\ pool' \in {pool, <<>>}
    BY <1>0, <2>1, <2>2, <2>3, WriteKeeps
  <2> QED BY <1>2, <2>1, <2>3, <2>4, QuietStep
<1>4. CASE TimerFlush
  <2>1. Flushed(<<>>) /\ mode = "up" /\ lock = "free" /\ pool' = <<>>
        /\ UNCHANGED <<logs, meta, open, lost, lock, mode, tid, saved, have, notify, next>>
    BY <1>4 DEF TimerFlush, runVars
  <2>2. open
    BY <1>2, <2>1
  <2>3. /\ DOMAIN disk' = DOMAIN disk /\ \A e \in DOMAIN disk \ {Current} : disk'[e] = disk[e]
        /\ \A i \in Index : bare[i] \subseteq bare'[i]
        /\ disk'[Current].recs = disk[Current].recs \o pool
    BY <1>0, <2>1, <2>2, FlushedTyped
  <2>4. /\ \A e \in DOMAIN disk : Whole(e)' = Whole(e)
        /\ \A e \in DOMAIN disk : disk'[e] = disk[e] \/ (open /\ e = Current)
        /\ pool' \in {pool, <<>>}
    BY <1>0, <2>1, <2>2, <2>3, WriteKeeps
  <2> QED BY <1>2, <2>1, <2>3, <2>4, QuietStep
<1>5. CASE TimerSync
  <2>1. mode = "up" /\ UNCHANGED <<logs, meta, pool, open, lost, lock, mode, tid, saved, have, bare, notify, next>>
        /\ (disk' = disk \/ (open /\ disk' = [disk EXCEPT ![Current] = SyncedFile(@)]))
    BY <1>5 DEF TimerSync, writeVars, indexVars, runVars
  <2>2. CASE disk' = disk
    <3>1. \A e \in DOMAIN disk : Whole(e)' = Whole(e)
      BY <2>1, <2>2 DEF Whole, Current, Last
    <3> QED BY <1>2, <2>1, <2>2, <3>1, QuietStep
  <2>3. CASE open /\ disk' = [disk EXCEPT ![Current] = SyncedFile(@)]
    <3>1. DOMAIN disk' = DOMAIN disk /\ \A e \in DOMAIN disk \ {Current} : disk'[e] = disk[e]
      BY <2>3
    <3>2. disk'[Current].recs = disk[Current].recs
      BY <1>0, <2>3, SyncIs, CurrentTyped
    <3>3. /\ \A e \in DOMAIN disk : Whole(e)' = Whole(e)
          /\ \A e \in DOMAIN disk : disk'[e] = disk[e] \/ (open /\ e = Current)
      BY <1>0, <2>1, <2>3, <3>1, <3>2, WriteKeeps
    <3> QED BY <1>2, <2>1, <3>1, <3>3, QuietStep
  <2> QED BY <2>1, <2>2, <2>3
<1>6. CASE TimerSkip \/ TimerAssign
  <2>1. mode = "up" /\ UNCHANGED <<logs, disk, meta, pool, open, lost, lock, mode, tid, saved, have, bare, notify, next>>
    BY <1>6 DEF TimerSkip, TimerAssign, fileVars, writeVars, indexVars, runVars
  <2>2. \A e \in DOMAIN disk : Whole(e)' = Whole(e)
    BY <2>1 DEF Whole, Current, Last
  <2> QED BY <1>2, <2>1, <2>2, QuietStep
<1>7. ASSUME NEW i \in Index, IndexFlush(i) PROVE Rest'
  <2>1. mode = "up" /\ UNCHANGED <<logs, disk, meta, pool, open, lost, lock, mode, tid, have, bare, next>>
        /\ saved' = [saved EXCEPT ![i] = tid[i]] /\ notify' = notify \cup {<<i, tid[i]>>}
    BY <1>7 DEF IndexFlush, fileVars, writeVars, runVars
  <2>2. \A e \in DOMAIN disk : Whole(e)' = Whole(e)
    BY <2>1 DEF Whole, Current, Last
  <2>3. \A x \in Index : saved'[x] \in Nat /\ saved[x] <= saved'[x] /\ saved'[x] <= tid[x]
    BY <1>0, <1>1, <1>2, <2>1 DEF TypeInv, RestTyped
  <2>4. \A p \in notify' : p[2] <= saved'[p[1]]
    <3>1. ASSUME NEW p \in notify PROVE p[2] <= saved'[p[1]]
      <4>1. p[1] \in Index /\ p[2] \in Nat /\ p[2] <= saved[p[1]]
        BY <1>0, <1>2, <2>1 DEF TypeInv, RestTyped
      <4> QED BY <1>1, <2>3, <4>1
    <3>2. tid[i] <= saved'[i]
      BY <1>0, <1>1, <2>1 DEF TypeInv, RestTyped
    <3> QED BY <2>1, <3>1, <3>2
  <2> QED BY <1>2, <2>1, <2>2, <2>3, <2>4, QuietStep
<1>8. CASE NotifyMeta /\ open
  <2>1. mode = "up" /\ UNCHANGED <<logs, disk, pool, open, lost, mode, tid, saved, have, bare, notify, next>>
        /\ meta' = Exts(logs) /\ lock' = "free"
    BY <1>8 DEF NotifyMeta, indexVars, runVars
  <2>2. \A e \in DOMAIN disk : Whole(e)' = Whole(e)
    BY <2>1 DEF Whole, Current, Last
  <2> QED BY <1>2, <2>1, <2>2, QuietStep
<1> QED BY <1>3, <1>4, <1>5, <1>6, <1>7, <1>8 DEF Timer

-----------------------------------------------------------------------------
(* A commit: records behind the current file. *)

LEMMA RecordsConcat ==
  ASSUME NEW r \in Seq(Record), NEW s \in Seq(Record), NEW t \in Seq(Record)
  PROVE  (r \o s) \o t = r \o (s \o t)
BY ConcatAssociative

LEMMA PutStep ==
  ASSUME FileInv, TypeInv', NEW i \in Index, CommitPut(i)
  PROVE  Rest'
<1> DEFINE n == tid[i] + 1
<1>a. PICK c : c = Current
  OBVIOUS
<1>0. TypeInv /\ FilesOK /\ RecordsOK /\ OrderOK /\ TidsOK /\ BareOK /\ ReplayOK /\ InfoOK
  BY DEF FileInv, Rest
<1>1. mode = "up" /\ lock = "free" /\ lock' = "put"
      /\ UNCHANGED <<disk, meta, open, lost, mode, saved, notify, next>>
  BY DEF CommitPut, runVars
<1>2. /\ open /\ pool' = pool \o Put(i) /\ tid' = [tid EXCEPT ![i] = n]
      /\ n \in 1..MaxTid /\ have' = [have EXCEPT ![i] = @ \cup {n}]
      /\ bare' = [bare EXCEPT ![i] = @ \ {n}]
      /\ logs' \in Seq(Log) /\ DOMAIN logs' = DOMAIN logs /\ Len(logs') = Len(logs)
      /\ \A k \in DOMAIN logs : /\ logs'[k].ext = logs[k].ext
                                /\ k # Len(logs) => logs'[k] = logs[k]
      /\ DOMAIN logs'[Len(logs)].info = DOMAIN Last.info \cup {i}
      /\ \A x \in DOMAIN Last.info \ {i} : logs'[Len(logs)].info[x] = Last.info[x]
      /\ logs'[Len(logs)].info[i].max = n
      /\ logs'[Len(logs)].info[i].flushed = IF i \in DOMAIN Last.info THEN Last.info[i].flushed ELSE 0
  BY <1>0, CommitPutIs
<1>3. PICK k \in {1, 2} :
         /\ Put(i) \in Seq(Record) /\ Len(Put(i)) = k
         /\ Put(i)[k] = [op |-> "commit", index |-> i, tid |-> n]
         /\ k = 1 => i \in DOMAIN Last.info
         /\ k = 2 => Put(i)[1] = [op |-> "add", index |-> i, tid |-> n]
  BY <1>0, PutRecords DEF CommitPut
<1>4. Len(logs) \in DOMAIN logs /\ c \in DOMAIN disk /\ c = logs[Len(logs)].ext /\ Last = logs[Len(logs)]
  BY <1>0, <1>2, <1>a, CurrentTyped DEF Last
<1>5. Current' = c
  BY <1>2, <1>4 DEF Current, Last
<1>6. /\ \A x \in Index : tid'[x] = IF x = i THEN n ELSE tid[x]
      /\ \A x \in Index : have'[x] = IF x = i THEN have[i] \cup {n} ELSE have[x]
      /\ \A x \in Index : bare'[x] = IF x = i THEN bare[i] \ {n} ELSE bare[x]
      /\ \A x \in Index : tid[x] \in Nat /\ saved[x] \in Nat
  BY <1>0, <1>2, BoundAssumption DEF TypeInv, RestTyped
<1> DEFINE q == Put(i)
           w == Whole(c)
<1>7. w \in Seq(Record) /\ q \in Seq(Record) /\ w = disk[c].recs \o pool
  BY <1>0, <1>2, <1>3, <1>4, <1>a, WholeTyped DEF Whole
<1>8. Whole(c)' = w \o q /\ \A e \in DOMAIN disk \ {c} : Whole(e)' = Whole(e)
  <2>1. Whole(c)' = disk[c].recs \o (pool \o q)
    BY <1>1, <1>2, <1>5 DEF Whole
  <2>2. disk[c].recs \in Seq(Record) /\ pool \in Seq(Record)
    BY <1>0, <1>4, WholeTyped DEF TypeInv, FilesTyped
  <2>3. (disk[c].recs \o pool) \o q = disk[c].recs \o (pool \o q)
    <3>1. q \in Seq(Record)
      BY <1>7
    <3> QED BY <2>2, <3>1, RecordsConcat, Zenon
  <2>4. \A e \in DOMAIN disk \ {c} : Whole(e)' = Whole(e)
    BY <1>1, <1>2, <1>5, <1>a DEF Whole
  <2> QED BY <1>7, <2>1, <2>3, <2>4
<1> HIDE DEF q, w, n
<1>9. /\ \A p \in DOMAIN q : p \in {1, 2} /\ p <= k
      /\ k \in DOMAIN q /\ q[k].op = "commit" /\ q[k].index = i /\ q[k].tid = n
      /\ \A p \in DOMAIN q : p # k => k = 2 /\ p = 1 /\ q[p].op = "add" /\ q[p].index = i
  <2>1. DOMAIN q = 1..k
    BY <1>3, RecordsTyped DEF q
  <2> QED BY <1>3, <2>1 DEF q
<1>10. \A x : Tids(q, x) = IF x = i THEN {n} ELSE {}
  <2>1. \A x : Tids(q, x) = {q[p].tid : p \in {y \in DOMAIN q : IsCommit(q[y], x)}}
    BY <1>7, TidsIs
  <2>2. \A x : {y \in DOMAIN q : IsCommit(q[y], x)} = IF x = i THEN {k} ELSE {}
    BY <1>9 DEF IsCommit
  <2> QED BY <1>9, <2>1, <2>2
<1>11. /\ \A x : Tids(Whole(c)', x) = Tids(w, x) \cup (IF x = i THEN {n} ELSE {})
       /\ \A e \in DOMAIN disk \ {c} : \A x : Tids(Whole(e)', x) = Tids(Whole(e), x)
  <2>1. \A x : Tids(w \o q, x) = Tids(w, x) \cup Tids(q, x)
    <3>1. w \in Seq(Record) /\ q \in Seq(Record)
      BY <1>7
    <3> QED BY <3>1, TidsConcat, Zenon
  <2>2. ASSUME NEW x PROVE Tids(w \o q, x) = Tids(w, x) \cup (IF x = i THEN {n} ELSE {})
    <3>1. Tids(q, x) = IF x = i THEN {n} ELSE {}
      BY <1>10
    <3> QED BY <2>1, <3>1
  <2> QED BY <1>8, <2>2
<1>12. \A x \in Index : \A e \in DOMAIN disk : \A m \in Tids(Whole(e), x) : m <= tid[x] /\ m \in Nat
  BY <1>0, <1>1, WholeTyped DEF TidsOK, StoredUp, Holds
<1>13. \A x : Holds(x)' = Holds(x) \cup (IF x = i THEN {n} ELSE {})
  <2>1. \A x : Holds(x)' = UNION {Tids(Whole(e)', x) : e \in DOMAIN disk}
    BY <1>1 DEF Holds
  <2> QED BY <1>4, <1>11, <2>1 DEF Holds, w
<1>14. Len(w) > 0 /\ Len(w) \in Nat
  BY <1>0, <1>2, <1>7, <1>a, RecordsTyped DEF RecordsOK, w
<1>15. Len(w \o q) > 1 /\ Tidy(w \o q)
  <2>1. Len(w \o q) = Len(w) + k
    BY <1>3, <1>7, ConcatIs DEF q
  <2>2. Tidy(w)
    BY <1>0, <1>4 DEF RecordsOK, w
  <2>3. \A p \in DOMAIN q : q[p].op # "torn_head" /\ q[p].op # "cache"
    BY <1>9
  <2>4. i \in DOMAIN Last.info => \E x \in DOMAIN w : w[x].op = "add" /\ w[x].index = i
    BY <1>0, <1>1, <1>4 DEF InfoOK, Noting, w
  <2>5. ASSUME NEW p \in DOMAIN q, NEW j \in Index, IsCommit(q[p], j)
        PROVE  /\ p = Len(q) /\ \A m \in Tids(w, j) : m < q[p].tid
               /\ \/ \E x \in DOMAIN w : w[x].op = "add" /\ w[x].index = j
                  \/ \E x \in DOMAIN q : x < p /\ q[x].op = "add" /\ q[x].index = j
    <3>1. p = k /\ j = i
      BY <1>9, <2>5 DEF IsCommit
    <3>2. \A m \in Tids(w, i) : m < n
      BY <1>4, <1>6, <1>12 DEF n, w
    <3>3. k = 2 => 1 \in DOMAIN q /\ q[1].op = "add" /\ q[1].index = i
      <4>1. DOMAIN q = 1..k
        BY <1>3, <1>7, RecordsTyped DEF q
      <4> QED BY <1>9, <4>1
    <3>4. k = Len(q)
      BY <1>3 DEF q
    <3>5. CASE k = 1
      BY <1>3, <1>9, <2>4, <3>1, <3>2, <3>4, <3>5
    <3>6. CASE k = 2
      BY <1>9, <3>1, <3>2, <3>3, <3>4, <3>6
    <3> QED BY <3>5, <3>6
  <2>6. Tidy(w \o q)
    BY <1>7, <2>2, <2>3, <2>5, TidyMore
  <2> QED BY <1>14, <2>1, <2>6
<1>16. FilesOK'
  <2>1. Exts(logs') = Exts(logs)
    BY <1>2 DEF Exts
  <2> QED BY <1>0, <1>1, <2>1 DEF FilesOK
<1>17. RecordsOK'
  <2>1. \A e \in DOMAIN disk' : Tidy(Whole(e)')
    BY <1>0, <1>1, <1>8, <1>15 DEF RecordsOK
  <2>2. \A p \in DOMAIN pool' : pool'[p].op # "cache"
    <3>1. pool \in Seq(Record)
      BY <1>0 DEF TypeInv, FilesTyped
    <3>2. /\ \A p \in DOMAIN pool : (pool \o q)[p] = pool[p]
          /\ \A p \in DOMAIN q : (pool \o q)[Len(pool) + p] = q[p]
          /\ \A p \in DOMAIN (pool \o q) : p \in DOMAIN pool \/ p - Len(pool) \in DOMAIN q
          /\ \A p \in DOMAIN (pool \o q) : p = Len(pool) + (p - Len(pool))
      BY SMTT(30), <1>7, <3>1, ConcatIs, RecordsTyped
    <3>3. \A p \in DOMAIN q : q[p].op # "cache"
      BY <1>9
    <3>4. pool' = pool \o q
      BY <1>2 DEF q
    <3> QED BY <1>0, <3>2, <3>3, <3>4 DEF RecordsOK
  <2>3. Len(Whole(Current)') > 1 /\ (open' => Len(Whole(Current)') > 0)
    BY <1>5, <1>8, <1>15, <1>7, RecordsTyped, ConcatIs
  <2> QED BY <1>1, <1>5, <2>1, <2>2, <2>3 DEF RecordsOK, Tidy
<1>18. OrderOK'
  <2>1. ASSUME NEW e \in DOMAIN disk, NEW f \in DOMAIN disk, NEW x \in Index, e < f,
               NEW a \in Tids(Whole(e)', x), NEW b \in Tids(Whole(f)', x)
        PROVE  a < b
    <3>1. f <= c /\ e \in Nat /\ f \in Nat /\ c \in Nat
      BY <1>0, <1>1, <1>4, <1>a, FilesAre, WholeTyped
    <3>2. e # c /\ a \in Tids(Whole(e), x)
      BY <1>11, <2>1, <3>1
    <3>3. CASE b \in Tids(Whole(f), x)
      BY <1>0, <2>1, <3>2, <3>3 DEF OrderOK
    <3>4. CASE x = i /\ b = n
      <4>1. a <= tid[i] /\ a \in Nat
        BY <1>12, <3>2, <3>4
      <4> QED BY <1>6, <3>4, <4>1 DEF n
    <3> QED BY <1>11, <3>3, <3>4 DEF w
  <2> QED BY <1>1, <2>1 DEF OrderOK
<1>19. TidsOK'
  <2>1. ASSUME NEW x \in Index PROVE StoredUp(x)'
    <3>1. StoredUp(x)
      BY <1>0, <1>1 DEF TidsOK
    <3>2. CASE x # i
      <4>1. Holds(x)' = Holds(x) /\ tid'[x] = tid[x] /\ have'[x] = have[x] /\ bare'[x] = bare[x]
        BY <1>6, <1>13, <3>2
      <4> QED BY <1>1, <3>1, <4>1 DEF StoredUp, Stored
    <3>3. CASE x = i
      <4>1. n = tid[i] + 1 /\ tid[i] \in Nat /\ saved[i] \in Nat /\ tid'[i] = n /\ saved[i] <= tid[i]
        BY <1>6, <3>1, <3>3 DEF n, StoredUp
      <4>2. Holds(i)' = Holds(i) \cup {n} /\ have'[i] = have[i] \cup {n} /\ bare'[i] = bare[i] \ {n}
        BY <1>6, <1>13
      <4>3. \A m \in Holds(i) : m <= tid[i] /\ m \in Nat
        BY <1>12 DEF Holds
      <4>4. have'[i] \subseteq 1..n /\ saved[i] <= n /\ \A m \in Holds(i)' : m <= n
        BY <3>1, <3>3, <4>1, <4>2, <4>3 DEF StoredUp
      <4>5. ASSUME NEW m \in 1..tid[i]
            PROVE  (m \in have'[i] <=> Stored(i, m)') /\ (Stored(i, m)' \/ m \in bare'[i])
        <5>1. (m \in have[i] <=> Stored(i, m)) /\ (Stored(i, m) \/ m \in bare[i])
          BY <3>1, <3>3 DEF StoredUp
        <5>2. m # n
          BY <4>1
        <5>3. Stored(i, m)' <=> Stored(i, m)
          BY <1>1, <4>2, <5>2 DEF Stored
        <5> QED BY <4>2, <5>1, <5>2, <5>3
      <4>6. ASSUME NEW m, m = n PROVE m \in have'[i] /\ Stored(i, m)'
        <5>1. ~(m <= saved[i])
          BY <4>1, <4>6
        <5> QED BY <1>1, <4>2, <4>6, <5>1 DEF Stored
      <4>7. \A m \in 1..n : m \in 1..tid[i] \/ m = n
        BY <4>1
      <4> QED BY <1>1, <3>3, <4>1, <4>4, <4>5, <4>6, <4>7 DEF StoredUp
    <3> QED BY <3>2, <3>3
  <2> QED BY <1>0, <1>1, <2>1 DEF TidsOK
<1>20. ReplayOK' /\ BareOK'
  <2>1. ASSUME NEW e \in DOMAIN disk, NEW x \in Index, Closed(e)' PROVE Unsynced(disk[e], x) \subseteq bare'[x]
    <3>1. Unsynced(disk[e], x) \subseteq bare[x]
      BY <1>0, <1>1, <1>5, <1>a, <2>1 DEF BareOK, Closed
    <3>2. Unsynced(disk[e], x) \subseteq Tids(Whole(e), x)
      BY <1>0, OnDiskIs DEF Unsynced
    <3>3. x = i => n \notin Unsynced(disk[e], x)
      <4>1. x = i => ~(n <= tid[i])
        BY <1>6 DEF n
      <4> QED BY <1>12, <3>2, <4>1
    <3> QED BY <1>6, <3>1, <3>3
  <2> QED BY <1>1, <2>1 DEF ReplayOK, BareOK
<1>21. InfoOK'
  <2>1. ASSUME NEW j \in DOMAIN logs, j # Len(logs)
        PROVE  /\ logs'[j] = logs[j] /\ logs[j].ext \in DOMAIN disk \ {c}
               /\ Whole(logs[j].ext)' = Whole(logs[j].ext)
    <3>1. j < Len(logs) /\ logs[j].ext < c
      BY <1>0, <1>1, <1>4, <2>1, FilesAre
    <3>2. logs[j].ext \in DOMAIN disk \ {c} /\ logs'[j] = logs[j]
      <4>1. logs[j].ext \in DOMAIN disk /\ logs[j].ext \in Nat
        BY <1>0, <1>1, FilesAre
      <4> QED BY <1>2, <2>1, <3>1, <4>1
    <3> QED BY <1>8, <3>2
  <2>2. ASSUME NEW j \in DOMAIN logs
        PROVE  /\ \A x \in Index : \A m \in Tids(Whole(logs[j].ext)', x) :
                     /\ x \in DOMAIN logs'[j].info /\ m <= logs'[j].info[x].max
                     /\ m <= logs'[j].info[x].flushed => m <= saved[x]
               /\ \A x \in DOMAIN logs'[j].info :
                     /\ logs'[j].info[x].flushed <= tid'[x]
                     /\ \E p \in DOMAIN Whole(logs[j].ext)' :
                          Whole(logs[j].ext)'[p].op = "add" /\ Whole(logs[j].ext)'[p].index = x
    <3>0. DOMAIN logs[j].info \subseteq Index
          /\ \A x \in DOMAIN logs[j].info : logs[j].info[x].flushed \in Nat
      <4>1. logs[j] \in Log
        BY <1>0, ExtsTyped DEF TypeInv, FilesTyped
      <4> QED BY <4>1 DEF Log, Infos, Info
    <3>1. /\ \A x \in Index : \A m \in Tids(Whole(logs[j].ext), x) :
                /\ x \in DOMAIN logs[j].info /\ m <= logs[j].info[x].max
                /\ m <= logs[j].info[x].flushed => m <= saved[x]
          /\ \A x \in DOMAIN logs[j].info :
                /\ logs[j].info[x].flushed <= tid[x]
                /\ \E p \in DOMAIN Whole(logs[j].ext) :
                     Whole(logs[j].ext)[p].op = "add" /\ Whole(logs[j].ext)[p].index = x
      BY <1>0, <1>1 DEF InfoOK, Noting
    <3>2. \A x \in Index : tid[x] <= tid'[x]
      BY <1>6 DEF n
    <3>3. CASE j # Len(logs)
      <4>1. /\ logs'[j] = logs[j] /\ Whole(logs[j].ext)' = Whole(logs[j].ext)
        BY <2>1, <3>3
      <4>2. \A x \in DOMAIN logs[j].info : logs[j].info[x].flushed <= tid'[x]
        BY <1>6, <3>0, <3>1, <3>2 DEF n
      <4> QED BY <3>1, <4>1, <4>2
    <3>4. CASE j = Len(logs)
      <4>0. Whole(logs[j].ext)' = w \o q /\ Whole(logs[j].ext) = w /\ Last = logs[j]
        <5>1. logs'[j].ext = c /\ logs[j].ext = c /\ Last = logs[j]
          BY <1>2, <1>4, <3>4
        <5>2. Whole(logs[j].ext)' = Whole(c)'
          BY <5>1 DEF Whole
        <5> QED BY <1>8, <5>1, <5>2, <1>a DEF w
      <4>1. ASSUME NEW x \in Index, NEW m \in Tids(w \o q, x)
            PROVE  /\ x \in DOMAIN logs'[j].info /\ m <= logs'[j].info[x].max
                   /\ m <= logs'[j].info[x].flushed => m <= saved[x]
        <5>1. m \in Tids(w, x) \/ (x = i /\ m = n)
          BY <1>8, <1>11, <4>1
        <5>2. CASE x # i
          <6>1. m \in Tids(w, x) /\ x \in DOMAIN Last.info /\ logs'[j].info[x] = Last.info[x]
                /\ x \in DOMAIN logs'[j].info
            BY <1>2, <3>1, <3>4, <4>0, <5>1, <5>2
          <6> QED BY <3>1, <4>0, <6>1
        <5>3. CASE x = i
          <6>1. x \in DOMAIN logs'[j].info /\ logs'[j].info[x].max = n
                /\ logs'[j].info[x].flushed = IF i \in DOMAIN Last.info THEN Last.info[i].flushed ELSE 0
            BY <1>2, <3>4, <5>3
          <6>2. CASE m \in Tids(w, i)
            <7>1. m <= tid[i] /\ m \in Nat /\ tid[i] \in Nat
              BY <1>4, <1>6, <1>12, <6>2 DEF w
            <7>2. i \in DOMAIN Last.info /\ (m <= Last.info[i].flushed => m <= saved[i])
              BY <3>1, <4>0, <6>2
            <7> QED BY <5>3, <6>1, <7>1, <7>2 DEF n
          <6>3. CASE m = n
            <7>1. logs'[j].info[x].flushed <= tid[i]
              BY <1>6, <3>1, <4>0, <6>1
            <7>2. logs'[j].info[x].flushed \in Nat
              BY <3>0, <4>0, <6>1
            <7>3. ~(n <= logs'[j].info[x].flushed) /\ n <= n
              BY <1>6, <7>1, <7>2 DEF n
            <7> QED BY <5>3, <6>1, <6>3, <7>3
          <6> QED BY <5>1, <5>3, <6>2, <6>3
        <5> QED BY <5>2, <5>3
      <4>2. ASSUME NEW x \in DOMAIN logs'[j].info
            PROVE  /\ logs'[j].info[x].flushed <= tid'[x]
                   /\ \E p \in DOMAIN (w \o q) : (w \o q)[p].op = "add" /\ (w \o q)[p].index = x
        <5>0. x \in DOMAIN Last.info \cup {i}
          BY <1>2, <3>4, <4>2
        <5>1. CASE x \in DOMAIN Last.info
          <6>1. logs'[j].info[x].flushed = Last.info[x].flushed
            BY <1>2, <3>4, <5>1
          <6>2. logs'[j].info[x].flushed <= tid'[x]
            <7>1. x \in Index /\ Last.info[x].flushed \in Nat /\ Last.info[x].flushed <= tid[x]
              BY <3>0, <3>1, <4>0, <5>1
            <7>2. tid[x] \in Nat /\ tid'[x] \in Nat /\ tid[x] <= tid'[x]
              BY <1>6, <3>2, <7>1 DEF n
            <7> QED BY <6>1, <7>1, <7>2
          <6>3. PICK p \in DOMAIN w : w[p].op = "add" /\ w[p].index = x
            BY <3>1, <4>0, <5>1
          <6> QED BY <1>7, <6>2, <6>3, ConcatIs
        <5>2. CASE x = i /\ i \notin DOMAIN Last.info
          <6>1. logs'[j].info[x].flushed = 0 /\ k = 2
            BY <1>2, <1>3, <3>4, <5>2
          <6>2. 1 \in DOMAIN q /\ q[1].op = "add" /\ q[1].index = i
            <7>1. DOMAIN q = 1..k
              BY <1>3, <1>7, RecordsTyped DEF q
            <7> QED BY <1>9, <6>1, <7>1
          <6>3. 0 <= tid'[x]
            BY <1>6, <5>2 DEF n
          <6>4. Len(w) + 1 \in DOMAIN (w \o q) /\ (w \o q)[Len(w) + 1] = q[1]
            BY <1>7, <6>2, ConcatIs
          <6> QED BY <5>2, <6>1, <6>2, <6>3, <6>4
        <5> QED BY <5>0, <5>1, <5>2
      <4> QED BY <4>0, <4>1, <4>2
    <3> QED BY <3>3, <3>4
  <2> QED BY <1>1, <1>2, <2>2 DEF InfoOK, Noting
<1> QED BY <1>16, <1>17, <1>18, <1>19, <1>20, <1>21 DEF Rest

-----------------------------------------------------------------------------
(* A new file. *)

LEMMA NewLogIs ==
  ASSUME TypeInv, FilesOK, mode \in {"up", "replay"}, NEW d, DOMAIN d = DOMAIN disk, OpenNewLog(logs, d, FALSE)
  PROVE  \E x \in Nat \ {0} :
           /\ \A e \in DOMAIN disk : e < x
           /\ DOMAIN disk' = DOMAIN disk \cup {x} /\ disk'[x] = EmptyFile
           /\ \A e \in DOMAIN disk : disk'[e] = d[e]
           /\ DOMAIN logs' = DOMAIN logs \cup {Len(logs')} /\ Len(logs') \notin DOMAIN logs
           /\ \A k \in DOMAIN logs : logs'[k] = logs[k] /\ k < Len(logs')
           /\ logs'[Len(logs')] = [ext |-> x, info |-> NoInfo]
           /\ Current' = x /\ open' /\ ~lost' /\ pool' = <<Mark("head")>> /\ meta' = Exts(logs')
           /\ Rising(Exts(logs')) /\ DOMAIN disk' = Range(Exts(logs'))
<1>1. logs \in Seq(Log) /\ DOMAIN logs = 1..Len(logs) /\ Len(logs) \in Nat
  BY ExtsTyped, LenProperties DEF TypeInv, FilesTyped
<1>2. PICK x : x = NewExt(logs, FALSE)
  OBVIOUS
<1>3. x \in Nat \ {0} /\ \A k \in DOMAIN logs : logs[k].ext < x
  <2>1. CASE logs = <<>>
    BY <1>1, <1>2, <2>1, EmptySeq DEF NewExt
  <2>2. CASE logs # <<>>
    <3>1. Len(logs) \in DOMAIN logs
      BY <1>1, <2>2, EmptySeq
    <3>2. x = logs[Len(logs)].ext + 1
      BY <1>2, <2>2 DEF NewExt
    <3>3. ASSUME NEW k \in DOMAIN logs PROVE logs[k].ext <= logs[Len(logs)].ext
      <4>1. k = Len(logs) \/ k < Len(logs)
        BY <1>1
      <4> QED BY SMTT(30), <3>1, <4>1, FilesAre
    <3>4. \A k \in DOMAIN logs : logs[k].ext \in Nat \ {0}
      BY FilesAre
    <3> QED BY <3>1, <3>2, <3>3, <3>4
  <2> QED BY <2>1, <2>2
<1>4. \A e \in DOMAIN disk : e < x
  BY <1>3, FilesAre
<1> DEFINE y == [ext |-> x, info |-> NoInfo]
<1>5. /\ logs' = Append(logs, y) /\ meta' = Exts(logs') /\ pool' = <<Mark("head")>>
      /\ disk' = [e \in DOMAIN d \cup {x} |-> IF e = x THEN EmptyFile ELSE d[e]]
      /\ open' = TRUE /\ lost' = FALSE
  BY <1>2 DEF OpenNewLog
<1>6. y \in Log
  <2>1. NoInfo \in Infos
    <3>1. NoInfo \in [{} -> Info]
      BY DEF NoInfo
    <3> QED BY <3>1 DEF Infos
  <2> QED BY <1>3, <2>1 DEF Log
<1>7. y.ext = x
  OBVIOUS
<1> HIDE DEF y
<1>8. /\ logs' \in Seq(Log) /\ Len(logs') = Len(logs) + 1 /\ logs'[Len(logs) + 1] = y
      /\ \A k \in 1..Len(logs) : logs'[k] = logs[k]
  BY <1>1, <1>5, <1>6, AppendProperties
<1>9. DOMAIN logs' = 1..(Len(logs) + 1)
  BY <1>8, LenProperties
<1>10. /\ DOMAIN logs' = DOMAIN logs \cup {Len(logs')} /\ Len(logs') \notin DOMAIN logs
       /\ \A k \in DOMAIN logs : logs'[k] = logs[k] /\ k < Len(logs')
       /\ logs'[Len(logs')] = y
  BY <1>1, <1>8, <1>9
<1>a. PICK m : m = Len(logs')
  OBVIOUS
<1>b. /\ DOMAIN logs' = DOMAIN logs \cup {m} /\ m \notin DOMAIN logs
      /\ \A k \in DOMAIN logs : logs'[k] = logs[k] /\ k < m
      /\ logs'[m] = y /\ m \in Nat /\ DOMAIN logs \subseteq Nat
  BY <1>1, <1>8, <1>10, <1>a
<1>c. /\ \A j, k \in DOMAIN logs : j < k => logs[j].ext < logs[k].ext
      /\ DOMAIN disk = {logs[k].ext : k \in DOMAIN logs}
  <2>1. /\ \A k \in DOMAIN logs : logs[k].ext \in DOMAIN disk
        /\ \A e \in DOMAIN disk : \E k \in DOMAIN logs : e = logs[k].ext
        /\ \A j, k \in DOMAIN logs : j < k => logs[j].ext < logs[k].ext
    BY FilesAre
  <2> QED BY <2>1, Zenon
<1>11. Current' = x
  BY <1>7, <1>10 DEF Current, Last
<1>12. /\ DOMAIN disk' = DOMAIN disk \cup {x} /\ disk'[x] = EmptyFile
       /\ \A e \in DOMAIN disk : disk'[e] = d[e]
  <2>1. \A e \in DOMAIN disk : e # x
    BY <1>3, <1>4, WholeTyped
  <2> QED BY <1>5, <2>1
<1>13. DOMAIN Exts(logs') = DOMAIN logs' /\ \A k \in DOMAIN logs' : Exts(logs')[k] = logs'[k].ext
  BY DEF Exts
<1>14. Rising(Exts(logs'))
  <2>1. ASSUME NEW j \in DOMAIN logs', NEW k \in DOMAIN logs', j < k PROVE logs'[j].ext < logs'[k].ext
    <3>1. j \in DOMAIN logs
      BY <1>b, <2>1
    <3>2. CASE k \in DOMAIN logs
      BY <1>b, <1>c, <2>1, <3>1, <3>2
    <3>3. CASE k = m
      <4>1. logs'[k].ext = x /\ logs'[j] = logs[j]
        BY <1>7, <1>b, <3>1, <3>3
      <4> QED BY <1>3, <3>1, <4>1
    <3> QED BY <1>b, <3>2, <3>3
  <2> QED BY <1>13, <2>1 DEF Rising
<1>15. DOMAIN disk' = Range(Exts(logs'))
  <2>1. Range(Exts(logs')) = {logs'[k].ext : k \in DOMAIN logs'}
    BY <1>13 DEF Range
  <2>2. {logs'[k].ext : k \in DOMAIN logs'} = {logs[k].ext : k \in DOMAIN logs} \cup {x}
    BY <1>7, <1>b
  <2> QED BY <1>c, <1>12, <2>1, <2>2
<1> QED BY <1>3, <1>4, <1>5, <1>10, <1>11, <1>12, <1>14, <1>15 DEF y

\* The files are as they were, or end with a cache record; then comes an empty one.
Ended(w, r) == r = w \/ (r = w \o <<Mark("cache")>> /\ Len(w) > 1)

LEMMA EndedIs ==
  ASSUME NEW w \in Seq(Record), NEW r, Ended(w, r), Tidy(w)
  PROVE  /\ r \in Seq(Record) /\ Tidy(r) /\ \A i : Tids(r, i) = Tids(w, i)
         /\ \A p \in DOMAIN w : p \in DOMAIN r /\ r[p] = w[p]
<1>1. CASE r = w
  BY <1>1
<1>2. CASE r = w \o <<Mark("cache")>> /\ Len(w) > 1
  <2> DEFINE q == <<Mark("cache")>>
  <2>1. q \in Seq(Record) /\ DOMAIN q = {1} /\ q[1] = Mark("cache")
    BY MarkIsRecord
  <2>2. \A i : Tids(q, i) = {}
    BY TidsNone
  <2>3. q[1].op = "cache" /\ Len(w) \in Nat
    BY <2>1, RecordsTyped DEF Mark
  <2> HIDE DEF q
  <2>4. r = w \o q
    BY <1>2 DEF q
  <2>5. \A i : Tids(w \o q, i) = Tids(w, i) \cup Tids(q, i)
    BY <2>1, TidsConcat
  <2>6. Tidy(w \o q)
    <3>1. \A p \in DOMAIN q : q[p].op # "torn_head" /\ (Len(w) + p = 2 => q[p].op # "cache")
      BY <1>2, <2>1, <2>3
    <3>2. \A p \in DOMAIN q, i \in Index : ~IsCommit(q[p], i)
      BY <2>1, <2>3 DEF IsCommit
    <3> QED BY <2>1, <3>1, <3>2, TidyMore
  <2> QED BY ZenonT(60), <2>1, <2>2, <2>4, <2>5, <2>6, ConcatIs
<1> QED BY <1>1, <1>2 DEF Ended

LEMMA NewFileStep ==
  ASSUME FileInv, TypeInv', mode \in {"up", "replay"}, mode = "replay" => next > Len(logs), mode' = "up",
         NEW d, DOMAIN d = DOMAIN disk, OpenNewLog(logs, d, FALSE),
         \A e \in DOMAIN disk : Ended(Whole(e), d[e].recs),
         \A e \in DOMAIN disk, i \in Index : Unsynced(d[e], i) \subseteq bare'[i],
         lock' = "free", UNCHANGED <<tid, saved, have, notify>>,
         \A i \in Index : StoredUp(i) /\ bare[i] \subseteq bare'[i]
  PROVE  Rest' /\ \A i : Holds(i)' = Holds(i)
<1>0. TypeInv /\ FilesOK /\ RecordsOK /\ OrderOK /\ TidsOK /\ BareOK /\ ReplayOK /\ InfoOK
  BY DEF FileInv, Rest
<1>1. PICK x \in Nat \ {0} :
        /\ \A e \in DOMAIN disk : e < x
        /\ DOMAIN disk' = DOMAIN disk \cup {x} /\ disk'[x] = EmptyFile
        /\ \A e \in DOMAIN disk : disk'[e] = d[e]
        /\ DOMAIN logs' = DOMAIN logs \cup {Len(logs')} /\ Len(logs') \notin DOMAIN logs
        /\ \A k \in DOMAIN logs : logs'[k] = logs[k] /\ k < Len(logs')
        /\ logs'[Len(logs')] = [ext |-> x, info |-> NoInfo]
        /\ Current' = x /\ open' /\ ~lost' /\ pool' = <<Mark("head")>> /\ meta' = Exts(logs')
        /\ Rising(Exts(logs')) /\ DOMAIN disk' = Range(Exts(logs'))
  BY <1>0, NewLogIs
<1>m. PICK m : m = Len(logs')
  OBVIOUS
<1>n. /\ DOMAIN logs' = DOMAIN logs \cup {m} /\ \A k \in DOMAIN logs : logs'[k] = logs[k]
      /\ logs'[m] = [ext |-> x, info |-> NoInfo]
  BY <1>1, <1>m, Zenon
<1>2. /\ <<Mark("head")>> \in Seq(Record) /\ DOMAIN <<Mark("head")>> = {1} /\ Len(<<Mark("head")>>) = 1
      /\ <<Mark("head")>>[1].op = "head" /\ \A i : Tids(<<Mark("head")>>, i) = {}
  <2>1. <<Mark("head")>> \in Seq(Record)
    BY MarkIsRecord
  <2>3. \A i : Tids(<<Mark("head")>>, i) = {}
    BY TidsNone
  <2>4. Mark("head").op = "head"
    BY DEF Mark
  <2> QED BY <2>1, <2>3, <2>4
<1>3. /\ Whole(x)' = <<Mark("head")>> /\ x \notin DOMAIN disk
      /\ \A e \in DOMAIN disk : Whole(e)' = d[e].recs
  <2>1. \A e \in DOMAIN disk : e # x /\ e \in Nat
    BY <1>0, <1>1, WholeTyped
  <2>2. Whole(x)' = <<>> \o <<Mark("head")>>
    BY <1>1 DEF Whole, EmptyFile
  <2>3. <<>> \o <<Mark("head")>> = <<Mark("head")>>
    BY <1>2, ConcatEmptySeq
  <2>4. \A e \in DOMAIN disk : Whole(e)' = d[e].recs
    BY <1>1, <2>1 DEF Whole
  <2> QED BY <2>1, <2>2, <2>3, <2>4
<1>4. ASSUME NEW e \in DOMAIN disk
      PROVE  /\ Tidy(Whole(e)') /\ \A i : Tids(Whole(e)', i) = Tids(Whole(e), i)
             /\ \A p \in DOMAIN Whole(e) : p \in DOMAIN Whole(e)' /\ Whole(e)'[p] = Whole(e)[p]
  <2>1. Whole(e) \in Seq(Record) /\ Tidy(Whole(e)) /\ Ended(Whole(e), d[e].recs)
    BY <1>0, WholeTyped DEF RecordsOK
  <2>2. /\ Tidy(d[e].recs) /\ \A i : Tids(d[e].recs, i) = Tids(Whole(e), i)
        /\ \A p \in DOMAIN Whole(e) : p \in DOMAIN d[e].recs /\ d[e].recs[p] = Whole(e)[p]
    BY <2>1, EndedIs
  <2> QED BY <1>3, <2>2
<1>5. \A i : Tids(Whole(x)', i) = {}
  BY <1>2, <1>3
<1>6. \A i : Holds(i)' = Holds(i)
  <2>1. \A i : Holds(i)' = UNION {Tids(Whole(e)', i) : e \in DOMAIN disk'}
    BY DEF Holds
  <2> QED BY <1>1, <1>4, <1>5, <2>1 DEF Holds
<1>7. FilesOK'
  BY <1>1 DEF FilesOK
<1>8. RecordsOK'
  <2>1. Tidy(Whole(x)')
    BY <1>2, <1>3 DEF Tidy, IsCommit
  <2>2. \A e \in DOMAIN disk' : Tidy(Whole(e)')
    BY <1>1, <1>4, <2>1
  <2>3. \A p \in DOMAIN pool' : pool'[p].op # "cache"
    BY <1>1, <1>2
  <2>4. Len(Whole(Current)') > 0
    BY <1>1, <1>2, <1>3
  <2> QED BY <1>1, <2>2, <2>3, <2>4 DEF RecordsOK, Tidy
<1>9. OrderOK'
  <2>1. ASSUME NEW e \in DOMAIN disk', NEW f \in DOMAIN disk', NEW i \in Index, e < f,
               NEW a \in Tids(Whole(e)', i), NEW b \in Tids(Whole(f)', i)
        PROVE  a < b
    <3>1. e \in DOMAIN disk /\ f \in DOMAIN disk
      BY <1>1, <1>5, <2>1
    <3>2. a \in Tids(Whole(e), i) /\ b \in Tids(Whole(f), i)
      BY <1>4, <2>1, <3>1
    <3> QED BY <1>0, <2>1, <3>1, <3>2 DEF OrderOK
  <2> QED BY <2>1 DEF OrderOK
<1>10. TidsOK'
  <2>1. \A i \in Index : StoredUp(i)'
    BY <1>6 DEF StoredUp, Stored
  <2>2. \A p \in notify' : p[2] <= saved'[p[1]]
    BY <1>0 DEF TidsOK
  <2> QED BY <2>1, <2>2 DEF TidsOK
<1>11. ReplayOK'
  BY DEF ReplayOK
<1>12. InfoOK'
  <2>0. \A k \in DOMAIN logs : Noting(k)
    BY SMTT(30), <1>0, RecordsTyped, ExtsTyped, LenProperties DEF Noting, TypeInv, RestTyped, FilesTyped
  <2>1. ASSUME NEW k \in DOMAIN logs'
        PROVE  /\ \A i \in Index : \A n \in Tids(Whole(logs[k].ext)', i) :
                     /\ i \in DOMAIN logs'[k].info /\ n <= logs'[k].info[i].max
                     /\ n <= logs'[k].info[i].flushed => n <= saved'[i]
               /\ \A i \in DOMAIN logs'[k].info :
                     /\ logs'[k].info[i].flushed <= tid'[i]
                     /\ \E p \in DOMAIN Whole(logs[k].ext)' :
                           Whole(logs[k].ext)'[p].op = "add" /\ Whole(logs[k].ext)'[p].index = i
    <3>1. PICK e : e = logs'[k].ext
      OBVIOUS
    <3>2. Whole(logs[k].ext)' = Whole(e)'
      BY <3>1
    <3>3. CASE k \in DOMAIN logs
      <4>1. logs'[k] = logs[k] /\ e = logs[k].ext /\ e \in DOMAIN disk
        <5>1. logs'[k] = logs[k]
          BY <1>n, <3>3
        <5>2. logs[k].ext \in DOMAIN disk
          BY <1>0, <3>3, FilesAre
        <5> QED BY <3>1, <5>1, <5>2
      <4>2. /\ \A i \in Index : \A n \in Tids(Whole(e), i) :
                 /\ i \in DOMAIN logs[k].info /\ n <= logs[k].info[i].max
                 /\ n <= logs[k].info[i].flushed => n <= saved[i]
            /\ \A i \in DOMAIN logs[k].info :
                 /\ logs[k].info[i].flushed <= tid[i]
                 /\ \E p \in DOMAIN Whole(e) : Whole(e)[p].op = "add" /\ Whole(e)[p].index = i
        <5>1. Noting(k)
          BY <2>0, <3>3
        <5>2. /\ \A i \in Index : \A n \in Tids(Whole(logs[k].ext), i) :
                   /\ i \in DOMAIN logs[k].info /\ n <= logs[k].info[i].max
                   /\ n <= logs[k].info[i].flushed => n <= saved[i]
              /\ \A i \in DOMAIN logs[k].info :
                   /\ logs[k].info[i].flushed <= tid[i]
                   /\ \E p \in DOMAIN Whole(logs[k].ext) :
                        Whole(logs[k].ext)[p].op = "add" /\ Whole(logs[k].ext)[p].index = i
          BY <1>0, <3>3, <5>1 DEF InfoOK
        <5> QED BY <4>1, <5>2
      <4>3. \A i \in DOMAIN logs[k].info :
              \E p \in DOMAIN Whole(e)' : Whole(e)'[p].op = "add" /\ Whole(e)'[p].index = i
        BY <1>4, <4>1, <4>2
      <4> QED BY <1>4, <3>2, <4>1, <4>2, <4>3
    <3>4. CASE k = m
      <4>1. e = x /\ DOMAIN logs'[k].info = {}
        BY <1>n, <3>1, <3>4 DEF NoInfo
      <4>2. \A i \in Index : Tids(Whole(logs[k].ext)', i) = {}
        BY <1>5, <3>2, <4>1
      <4> QED BY <4>1, <4>2
    <3> QED BY <1>n, <3>3, <3>4
  <2> QED BY <2>1 DEF InfoOK, Noting
<1>13. BareOK'
  <2>1. ASSUME NEW e \in DOMAIN disk', NEW i \in Index, Closed(e)' PROVE Unsynced(disk'[e], i) \subseteq bare'[i]
    <3>1. e \in DOMAIN disk /\ disk'[e] = d[e]
      BY <1>1, <2>1 DEF Closed
    <3> QED BY <3>1
  <2> QED BY <2>1 DEF BareOK
<1> QED BY <1>6, <1>7, <1>8, <1>9, <1>10, <1>11, <1>12, <1>13 DEF Rest

\* The steps that begin a file.
LEMMA BeginStep ==
  ASSUME FileInv, TypeInv', CommitRestart \/ (NotifyMeta /\ ~open) \/ ReplayDone
  PROVE  Rest' /\ \A i : Holds(i)' = Holds(i)
<1>0. TypeInv /\ FilesOK /\ RecordsOK /\ OrderOK /\ TidsOK /\ BareOK /\ ReplayOK /\ InfoOK
  BY DEF FileInv, Rest
<1>1. /\ mode = "up" => \A i \in Index : StoredUp(i)
      /\ ~open => \A e \in DOMAIN disk, i \in Index : Unsynced(disk[e], i) \subseteq bare[i]
  BY <1>0 DEF TidsOK, BareOK, Closed
<1>2. CASE CommitRestart
  <2>1. mode = "up" /\ lock = "put" /\ lock' = "free" /\ UNCHANGED <<tid, saved, have, notify, mode>>
    BY <1>2 DEF CommitRestart, runVars
  <2>2. PICK d : /\ OpenNewLog(logs, d, FALSE) /\ Typed(d) /\ DOMAIN d = DOMAIN disk
                 /\ d[Current].recs = disk[Current].recs \o pool \o <<Mark("cache")>>
                 /\ \A e \in DOMAIN disk \ {Current} : d[e] = disk[e]
                 /\ \A i \in Index : bare[i] \cup Unsynced(d[Current], i) \subseteq bare'[i]
    BY <1>0, <1>2, RestartIs
  <2>3. open
    BY <1>0, <1>2, RestartIs
  <2>4. Len(Whole(Current)) > 1 /\ Whole(Current) = disk[Current].recs \o pool
        /\ \A e \in DOMAIN disk \ {Current} : Whole(e) = disk[e].recs
    BY <1>0, <2>1, <2>3 DEF RecordsOK, Whole
  <2>5. d[Current].recs = Whole(Current) \o <<Mark("cache")>>
    BY <2>2, <2>4
  <2>6. \A e \in DOMAIN disk : Ended(Whole(e), d[e].recs)
    BY <2>2, <2>4, <2>5 DEF Ended
  <2>7. ASSUME NEW e \in DOMAIN disk, NEW i \in Index PROVE Unsynced(d[e], i) \subseteq bare'[i]
    <3>1. CASE e = Current
      BY <2>2, <3>1
    <3>2. CASE e # Current
      <4>1. d[e] = disk[e] /\ Unsynced(disk[e], i) \subseteq bare[i] /\ bare[i] \subseteq bare'[i]
        BY <1>0, <2>2, <3>2 DEF BareOK, Closed
      <4> QED BY <4>1
    <3> QED BY <3>1, <3>2
  <2>8. mode \in {"up", "replay"} /\ ~(mode = "replay") /\ mode' = "up"
    BY <2>1
  <2> QED BY <1>1, <2>1, <2>2, <2>6, <2>7, <2>8, NewFileStep
<1>3. CASE NotifyMeta /\ ~open
  <2>1. /\ mode = "up" /\ lock' = "free" /\ UNCHANGED <<tid, saved, have, bare, notify, mode>>
        /\ OpenNewLog(logs, disk, FALSE)
    BY <1>3 DEF NotifyMeta, indexVars, runVars
  <2>2. \A e \in DOMAIN disk : Ended(Whole(e), disk[e].recs)
    BY <1>3 DEF Ended, Whole
  <2>3. \A e \in DOMAIN disk, i \in Index : Unsynced(disk[e], i) \subseteq bare'[i]
    BY <1>1, <1>3, <2>1
  <2>4. mode \in {"up", "replay"} /\ ~(mode = "replay") /\ mode' = "up"
    BY <2>1
  <2> QED BY <1>1, <2>1, <2>2, <2>3, <2>4, NewFileStep
<1>4. CASE ReplayDone
  <2>1. /\ mode = "replay" /\ next > Len(logs) /\ mode' = "up" /\ lock' = lock
        /\ UNCHANGED <<tid, saved, have, notify, bare>>
        /\ OpenNewLog(logs, disk, logs # <<>> /\ disk[Current].recs \in {<<>>, <<Mark("head"), Mark("cache")>>})
    BY <1>4 DEF ReplayDone, indexVars
  <2>2. lock = "free" /\ ~open
    BY <1>0, <2>1 DEF TypeInv, WriterOK
  <2>3. ASSUME logs # <<>> PROVE disk[Current].recs \notin {<<>>, <<Mark("head"), Mark("cache")>>}
    <3>1. /\ logs \in Seq(Log) /\ Len(logs) \in DOMAIN logs /\ Exts(logs) = meta /\ Len(meta) = Len(logs)
          /\ \A k \in DOMAIN logs : Exts(logs)[k] = logs[k].ext
      BY <1>0, <2>1, <2>3, EmptySeq, ExtsTyped DEF TypeInv, FilesTyped, FilesOK
    <3>2. meta[Len(meta)] = Current
      BY <3>1 DEF Current, Last
    <3>3. meta # <<>>
      BY <3>1, EmptySeq
    <3>4. disk[Current].recs # <<>>
      BY <1>0, <2>1, <3>2, <3>3 DEF RecordsOK
    <3>5. Current \in DOMAIN disk /\ Whole(Current) = disk[Current].recs
      BY <1>0, <2>1, <2>2, <3>1, FilesAre DEF Current, Last, Whole
    <3>6. Tidy(disk[Current].recs)
      BY <1>0, <3>5 DEF RecordsOK
    <3>7. ~Tidy(<<Mark("head"), Mark("cache")>>)
      <4> DEFINE q == <<Mark("head"), Mark("cache")>>
      <4>1. 2 \in DOMAIN q /\ q[2].op = "cache"
        BY DEF Mark
      <4> HIDE DEF q
      <4>2. ~Tidy(q)
        BY <4>1 DEF Tidy
      <4> QED BY <4>2 DEF q
    <3> QED BY <3>4, <3>6, <3>7
  <2>4. OpenNewLog(logs, disk, FALSE)
    BY <2>1, <2>3 DEF OpenNewLog, NewExt
  <2>5. \A e \in DOMAIN disk : Whole(e) = disk[e].recs /\ Ended(Whole(e), disk[e].recs)
    BY <2>2 DEF Ended, Whole
  <2>6. \A e \in DOMAIN disk, i \in Index : Unsynced(disk[e], i) \subseteq bare'[i]
    BY <1>1, <2>1, <2>2
  <2>7. \A i : Done(i) = Holds(i)
    <3>1. \A k \in DOMAIN logs : k < next
      <4>1. DOMAIN logs = 1..Len(logs) /\ Len(logs) \in Nat /\ next \in Nat
        BY <1>0, ExtsTyped, LenProperties DEF TypeInv, FilesTyped, RestTyped
      <4> QED BY <2>1, <4>1
    <3>2. \A i : Done(i) = UNION {Tids(disk[logs[k].ext].recs, i) : k \in DOMAIN logs}
      BY <3>1 DEF Done
    <3>3. /\ \A k \in DOMAIN logs : logs[k].ext \in DOMAIN disk
          /\ \A e \in DOMAIN disk : \E k \in DOMAIN logs : e = logs[k].ext
      BY <1>0, <2>1, FilesAre
    <3>4. \A i : Holds(i) = UNION {Tids(disk[e].recs, i) : e \in DOMAIN disk}
      BY <2>5 DEF Holds
    <3> QED BY <3>2, <3>3, <3>4
  <2>8. ASSUME NEW i \in Index PROVE StoredUp(i)
    <3>1. /\ \A n \in have[i] : n <= saved[i] \/ n \in Holds(i)
          /\ \A n \in Holds(i) : n <= saved[i] \/ n \in have[i]
          /\ tid[i] \in Holds(i) \cup {saved[i]} /\ \A n \in Holds(i) \cup {saved[i]} : n <= tid[i]
      BY <1>0, <2>1, <2>7 DEF ReplayOK
    <3>2. \A n \in Holds(i) \cup {saved[i]} : \A m \in 1..n : Stored(i, m) \/ m \in bare[i]
      BY <1>0, <2>1 DEF TidsOK
    <3>3. Holds(i) \subseteq Nat \ {0} /\ have[i] \subseteq Nat \ {0} /\ tid[i] \in Nat /\ saved[i] \in Nat
      <4>1. \A e \in DOMAIN disk : Tids(Whole(e), i) \subseteq 1..MaxTid
        BY <1>0, WholeTyped
      <4>2. Holds(i) \subseteq 1..MaxTid
        BY <4>1 DEF Holds
      <4> QED BY <1>0, <4>2, BoundAssumption DEF TypeInv, RestTyped
    <3>4. \A n \in 1..tid[i] : Stored(i, n) \/ n \in bare[i]
      BY <3>1, <3>2
    <3>5. \A n \in have[i] : n \in 1..tid[i]
      BY <3>1, <3>3
    <3>6. \A n \in 1..tid[i] : n \in have[i] <=> Stored(i, n)
      BY <3>1, <3>3 DEF Stored
    <3> QED BY <3>1, <3>4, <3>5, <3>6 DEF StoredUp
  <2>9. mode \in {"up", "replay"}
    BY <2>1
  <2> QED BY <2>1, <2>2, <2>4, <2>5, <2>6, <2>8, <2>9, NewFileStep
<1> QED BY <1>2, <1>3, <1>4

-----------------------------------------------------------------------------
(* A notification: files go. *)

\* What is noted of the dropped files is saved.
LEMMA DroppedSaved ==
  ASSUME FileInv, mode = "up", NEW i \in Index, NEW n \in Nat, n <= saved[i],
         NEW k \in Dropped(i, n), NEW x \in Index, NEW m \in Tids(Whole(logs[k].ext), x)
  PROVE  m <= saved[x]
<1>0. TypeInv /\ FilesOK /\ InfoOK
  BY DEF FileInv, Rest
<1>1. k \in DOMAIN logs /\ ~Used(Noted(i, n)[k], i)
  BY DEF Dropped
<1>2. /\ x \in DOMAIN logs[k].info /\ m <= logs[k].info[x].max
      /\ m <= logs[k].info[x].flushed => m <= saved[x]
  BY <1>0, <1>1 DEF InfoOK, Noting
<1> DEFINE new == Noted(i, n)[k].info[x]
           old == logs[k].info[x]
<1>3. /\ x \in DOMAIN Noted(i, n)[k].info /\ new \in Info /\ old \in Info /\ new.max = old.max
      /\ new.flushed = IF x = i /\ old.flushed < n THEN n ELSE old.flushed
  BY <1>0, <1>1, <1>2, NotedIs
<1>4. ~(new.flushed < new.max)
  BY <1>1, <1>3 DEF Used
<1>5. m \in Nat /\ saved[x] \in Nat /\ saved[i] \in Nat
  <2>1. logs[k].ext \in DOMAIN disk
    BY <1>0, <1>1, FilesAre
  <2> QED BY SMTT(30), <1>0, <2>1, WholeTyped, BoundAssumption DEF TypeInv, RestTyped
<1>6. m <= new.flushed
  BY <1>2, <1>3, <1>4, <1>5 DEF Info
<1>7. CASE x = i /\ old.flushed < n
  BY <1>3, <1>5, <1>6, <1>7
<1>8. CASE ~(x = i /\ old.flushed < n)
  BY <1>2, <1>3, <1>6, <1>8
<1> QED BY <1>7, <1>8

\* An ascending enumeration of all places leaves them as they are.
LEMMA AllInOrder ==
  ASSUME NEW m \in Nat, NEW h, DOMAIN h \subseteq Nat \ {0}, \A k \in DOMAIN h : h[k] \in 1..m,
         \A k \in DOMAIN h : \A j \in 1..k : j \in DOMAIN h,
         \A j, k \in DOMAIN h : j < k => h[j] < h[k], \A k \in 1..m : \E j \in DOMAIN h : h[j] = k
  PROVE  DOMAIN h = 1..m /\ \A k \in DOMAIN h : h[k] = k
<1> DEFINE S == {k \in DOMAIN h : h[k] # k}
<1>1. ASSUME S # {} PROVE FALSE
  <2>1. S \subseteq Nat
    OBVIOUS
  <2>2. PICK k \in S : \A j \in S : k <= j
    BY <1>1, <2>1, LeastNatural
  <2>3. k \in DOMAIN h /\ k \in Nat \ {0} /\ h[k] \in 1..m /\ h[k] # k
    OBVIOUS
  <2>4. \A j \in DOMAIN h : j < k => h[j] = j
    BY <2>2, <2>3
  <2>5. h[k] > k
    <3>1. CASE k = 1
      BY <2>3, <3>1
    <3>2. CASE k # 1
      <4>1. k - 1 \in DOMAIN h /\ k - 1 < k
        BY <2>3, <3>2
      <4>2. h[k - 1] = k - 1 /\ h[k - 1] < h[k]
        BY <2>3, <2>4, <4>1
      <4> QED BY <2>3, <4>2
    <3> QED BY <3>1, <3>2
  <2>6. PICK j \in DOMAIN h : h[j] = k
    BY <2>3, <2>5
  <2>7. j \in Nat /\ h[j] \in Nat
    BY <2>6
  <2>8. CASE j < k
    BY <2>3, <2>4, <2>6, <2>7, <2>8
  <2>9. CASE j = k
    BY <2>3, <2>6, <2>9
  <2>10. CASE k < j
    <3>1. h[k] < h[j]
      BY <2>3, <2>10
    <3> QED BY <2>3, <2>5, <2>6, <2>7, <3>1
  <2> QED BY <2>3, <2>7, <2>8, <2>9, <2>10
<1>2. \A k \in DOMAIN h : h[k] = k
  BY <1>1
<1>3. DOMAIN h \subseteq 1..m
  BY <1>2
<1>4. 1..m \subseteq DOMAIN h
  <2>1. ASSUME NEW k \in 1..m PROVE k \in DOMAIN h
    <3>1. PICK j \in DOMAIN h : h[j] = k
      BY <2>1
    <3> QED BY <1>2, <3>1
  <2> QED BY <2>1
<1> QED BY <1>2, <1>3, <1>4
LEMMA UnlinkStep ==
  ASSUME FileInv, TypeInv', NEW i \in Index, NEW n \in Nat, n <= saved[i], NotifyUnlink(i, n)
  PROVE  /\ Rest'
         /\ \A e \in DOMAIN disk' : e \in DOMAIN disk /\ disk'[e] = disk[e]
         /\ \A e \in DOMAIN disk \ DOMAIN disk', x \in Index : \A t \in Tids(Whole(e), x) : t <= saved[x]
<1>0. TypeInv /\ FilesOK /\ RecordsOK /\ OrderOK /\ TidsOK /\ BareOK /\ ReplayOK /\ InfoOK
  BY DEF FileInv, Rest
<1>1. /\ mode = "up" /\ lock = "free" /\ notify' \subseteq notify
      /\ UNCHANGED <<meta, tid, saved, have, bare, mode, next>>
  BY DEF NotifyUnlink, indexVars, runVars
<1> DEFINE drop == Dropped(i, n)
           gone == {logs[k].ext : k \in drop}
           shut == Len(logs) \in drop
<1>2. PICK h : /\ DOMAIN logs' = DOMAIN h
               /\ \A k \in DOMAIN h : h[k] \in DOMAIN logs \ drop /\ logs'[k] = Noted(i, n)[h[k]]
               /\ \A j, k \in DOMAIN h : j < k => h[j] < h[k]
               /\ \A m \in DOMAIN logs \ drop : \E k \in DOMAIN h : h[k] = m
  BY <1>0, NotifyIs
<1>3. /\ open /\ logs' \in Seq(Log)
      /\ disk' = Restrict(disk, DOMAIN disk \ (IF shut THEN gone ELSE gone \ {Current}))
      /\ lost' = (~shut /\ (lost \/ Current \in gone)) /\ open' = ~shut
      /\ pool' = IF shut THEN <<>> ELSE pool
      /\ lock' = IF gone = {} THEN "free" ELSE "unlinked"
      /\ ~shut => logs' # <<>> /\ logs'[Len(logs')].ext = Current
  BY <1>0, NotifyIs
<1>4. /\ drop \subseteq DOMAIN logs /\ Len(logs) \in DOMAIN logs /\ DOMAIN logs = 1..Len(logs)
      /\ Len(logs) \in Nat /\ Current = logs[Len(logs)].ext
  BY <1>0, <1>3, CurrentTyped DEF Dropped
<1>5. /\ \A k \in DOMAIN logs : logs[k].ext \in DOMAIN disk /\ logs[k].ext \in Nat
      /\ \A e \in DOMAIN disk : \E k \in DOMAIN logs : e = logs[k].ext
      /\ \A j, k \in DOMAIN logs : j < k => logs[j].ext < logs[k].ext
  BY <1>0, <1>1, FilesAre
<1>6. ASSUME NEW j \in DOMAIN logs, NEW k \in DOMAIN logs, logs[j].ext = logs[k].ext PROVE j = k
  <2>1. j \in Nat /\ k \in Nat
    BY <1>4
  <2> QED BY <1>5, <1>6, <2>1
<1>7. \A m \in DOMAIN logs, x \in Index : \A t \in Tids(Whole(logs[m].ext), x) : m \in drop => t <= saved[x]
  BY <1>0, <1>1, DroppedSaved
<1>8. \A k \in DOMAIN logs : /\ Noted(i, n)[k].ext = logs[k].ext
                             /\ DOMAIN Noted(i, n)[k].info = DOMAIN logs[k].info
                             /\ \A x \in DOMAIN logs[k].info :
                                  /\ Noted(i, n)[k].info[x].max = logs[k].info[x].max
                                  /\ Noted(i, n)[k].info[x].flushed =
                                       IF x = i /\ logs[k].info[x].flushed < n THEN n
                                       ELSE logs[k].info[x].flushed
  BY <1>0, NotedIs
<1> HIDE DEF drop
<1>9. ~shut => Current \notin gone
  BY <1>4, <1>6
<1>10. /\ DOMAIN disk' = DOMAIN disk \ gone /\ ~lost'
       /\ \A e \in DOMAIN disk' : e \in DOMAIN disk /\ disk'[e] = disk[e]
  BY <1>0, <1>3, <1>9 DEF Restrict, FilesOK
<1>11. \A e : e \in DOMAIN disk' <=> \E k \in DOMAIN logs \ drop : e = logs[k].ext
  BY <1>4, <1>5, <1>6, <1>10
<1>12. ASSUME NEW e \in DOMAIN disk' PROVE e \in DOMAIN disk /\ Whole(e)' = Whole(e)
  <2>1. e \in DOMAIN disk /\ disk'[e] = disk[e] /\ e \notin gone
    BY <1>10
  <2>2. CASE shut
    <3>1. Current \in gone
      BY <1>4, <2>2
    <3> QED BY <1>3, <2>1, <2>2, <3>1 DEF Whole
  <2>3. CASE ~shut
    <3>1. Current' = Current
      BY <1>3, <2>3 DEF Current, Last
    <3> QED BY <1>3, <2>1, <2>3, <3>1 DEF Whole
  <2> QED BY <2>1, <2>2, <2>3
<1>13. \A k \in DOMAIN h : /\ h[k] \in DOMAIN logs /\ h[k] \notin drop /\ logs'[k].ext = logs[h[k]].ext
                           /\ DOMAIN logs'[k].info = DOMAIN logs[h[k]].info
                           /\ \A x \in DOMAIN logs[h[k]].info :
                                 /\ logs'[k].info[x].max = logs[h[k]].info[x].max
                                 /\ logs'[k].info[x].flushed =
                                      IF x = i /\ logs[h[k]].info[x].flushed < n THEN n
                                      ELSE logs[h[k]].info[x].flushed
  BY <1>2, <1>8
<1>14. FilesOK'
  <2>1. Exts(logs') = [k \in DOMAIN h |-> logs[h[k]].ext]
    BY <1>2, <1>13 DEF Exts
  <2>2. Rising(Exts(logs'))
    BY <1>2, <1>5, <1>13, <2>1 DEF Rising
  <2>3. DOMAIN disk' = Range(Exts(logs'))
    <3>1. Range(Exts(logs')) = {logs[h[k]].ext : k \in DOMAIN h}
      BY <2>1 DEF Range
    <3>2. \A e : e \in DOMAIN disk' <=> \E k \in DOMAIN h : e = logs[h[k]].ext
      BY <1>2, <1>11, <1>13
    <3> QED BY <3>1, <3>2
  <2>4. DOMAIN disk' \subseteq Range(meta)
    BY <1>0, <1>1, <1>10 DEF FilesOK
  <2>5. lock' # "unlinked" => meta = Exts(logs')
    <3>1. SUFFICES ASSUME lock' # "unlinked" PROVE meta = Exts(logs')
      OBVIOUS
    <3>2. drop = {}
      BY <1>3, <3>1
    <3>3. DOMAIN h = 1..Len(logs) /\ \A k \in DOMAIN h : h[k] = k
      <4>1. DOMAIN h = 1..Len(logs')
        BY <1>2, <1>3, LenProperties
      <4>2. Len(logs') \in Nat
        BY <1>3, LenProperties
      <4>3. DOMAIN h \subseteq Nat \ {0} /\ \A k \in DOMAIN h : \A j \in 1..k : j \in DOMAIN h
        BY <4>1, <4>2
      <4>4. /\ \A k \in DOMAIN h : h[k] \in 1..Len(logs)
            /\ \A k \in 1..Len(logs) : \E j \in DOMAIN h : h[j] = k
        BY <1>2, <1>4, <3>2
      <4> QED BY <1>2, <1>4, <4>3, <4>4, AllInOrder
    <3>4. Exts(logs') = Exts(logs)
      BY <1>4, <2>1, <3>3 DEF Exts
    <3> QED BY <1>0, <1>1, <3>4 DEF FilesOK
  <2> QED BY <1>0, <1>1, <1>10, <2>2, <2>3, <2>4, <2>5 DEF FilesOK
<1>15. RecordsOK'
  <2>1. \A e \in DOMAIN disk' : Tidy(Whole(e)')
    BY <1>0, <1>12 DEF RecordsOK
  <2>2. \A p \in DOMAIN pool' : pool'[p].op # "cache"
    BY <1>0, <1>3 DEF RecordsOK
  <2>3. open' => Len(Whole(Current)') > 0
    <3>1. SUFFICES ASSUME open' PROVE Len(Whole(Current)') > 0
      OBVIOUS
    <3>2. ~shut /\ Current' = Current
      BY <1>3, <3>1 DEF Current, Last
    <3>3. PICK c : c = Current
      OBVIOUS
    <3>4. c \in DOMAIN disk'
      BY <1>4, <1>11, <3>2, <3>3
    <3>5. Whole(c)' = Whole(c)
      BY <1>12, <3>4
    <3>6. Whole(Current)' = Whole(c)'
      BY <3>2, <3>3 DEF Whole
    <3> QED BY <1>0, <1>3, <3>3, <3>5, <3>6 DEF RecordsOK
  <2>4. lock' # "put" /\ mode' = "up"
    BY <1>1, <1>3
  <2> QED BY <2>1, <2>2, <2>3, <2>4 DEF RecordsOK, Tidy
<1>16. OrderOK'
  BY <1>0, <1>12 DEF OrderOK
<1>17. \A x \in Index : Holds(x)' \subseteq Holds(x) /\ \A t \in Holds(x) : t <= saved[x] \/ t \in Holds(x)'
  <2>1. \A x : Holds(x)' = UNION {Tids(Whole(e), x) : e \in DOMAIN disk'}
    BY <1>12 DEF Holds
  <2>2. \A x : Holds(x)' \subseteq Holds(x)
    BY <1>12, <2>1 DEF Holds
  <2>3. ASSUME NEW x \in Index, NEW t \in Holds(x) PROVE t <= saved[x] \/ t \in Holds(x)'
    <3>1. PICK e \in DOMAIN disk : t \in Tids(Whole(e), x)
      BY <2>3 DEF Holds
    <3>2. PICK k \in DOMAIN logs : e = logs[k].ext
      BY <1>5
    <3>3. CASE k \in drop
      BY <1>7, <3>1, <3>2, <3>3
    <3>4. CASE k \notin drop
      BY <1>11, <2>1, <3>1, <3>2, <3>4
    <3> QED BY <3>3, <3>4
  <2> QED BY <2>2, <2>3
<1>18. TidsOK'
  <2>1. ASSUME NEW x \in Index PROVE StoredUp(x)'
    <3>1. StoredUp(x)
      BY <1>0, <1>1 DEF TidsOK
    <3>2. \A t \in 1..tid[x] : Stored(x, t)' <=> Stored(x, t)
      BY <1>1, <1>17 DEF Stored
    <3>3. \A t \in Holds(x)' : t <= tid[x]
      BY <1>17, <3>1 DEF StoredUp
    <3> QED BY <1>1, <3>1, <3>2, <3>3 DEF StoredUp
  <2>2. \A p \in notify' : p[2] <= saved[p[1]]
    BY <1>0, <1>1 DEF TidsOK
  <2> QED BY <1>1, <2>1, <2>2 DEF TidsOK
<1>19. ReplayOK' /\ BareOK'
  <2>1. ASSUME NEW e \in DOMAIN disk', NEW x \in Index, Closed(e)' PROVE Unsynced(disk'[e], x) \subseteq bare'[x]
    <3>1. e \in DOMAIN disk /\ disk'[e] = disk[e]
      BY <1>10
    <3>2. ASSUME e = Current PROVE FALSE
      <4>1. ~shut
        BY <1>4, <1>10, <3>2
      <4>2. open' /\ e = Current'
        BY <1>3, <3>2, <4>1 DEF Current, Last
      <4> QED BY <2>1, <4>2 DEF Closed
    <3> QED BY <1>0, <1>1, <3>1, <3>2 DEF BareOK, Closed
  <2> QED BY <1>1, <2>1 DEF ReplayOK, BareOK
<1>20. InfoOK'
  <2>1. ASSUME NEW k \in DOMAIN logs'
        PROVE  /\ \A x \in Index : \A t \in Tids(Whole(logs[k].ext)', x) :
                     /\ x \in DOMAIN logs'[k].info /\ t <= logs'[k].info[x].max
                     /\ t <= logs'[k].info[x].flushed => t <= saved[x]
               /\ \A x \in DOMAIN logs'[k].info :
                     /\ logs'[k].info[x].flushed <= tid[x]
                     /\ \E p \in DOMAIN Whole(logs[k].ext)' :
                           Whole(logs[k].ext)'[p].op = "add" /\ Whole(logs[k].ext)'[p].index = x
    <3>1. PICK e : e = logs'[k].ext
      OBVIOUS
    <3>2. PICK m : m = h[k]
      OBVIOUS
    <3>3. /\ k \in DOMAIN h /\ m \in DOMAIN logs /\ m \notin drop /\ e = logs[m].ext
          /\ DOMAIN logs'[k].info = DOMAIN logs[m].info
          /\ \A x \in DOMAIN logs[m].info :
               /\ logs'[k].info[x].max = logs[m].info[x].max
               /\ logs'[k].info[x].flushed =
                    IF x = i /\ logs[m].info[x].flushed < n THEN n ELSE logs[m].info[x].flushed
      BY <1>2, <1>13, <3>1, <3>2
    <3>4. e \in DOMAIN disk' /\ Whole(e)' = Whole(e)
      BY <1>11, <1>12, <3>3
    <3>5. Whole(logs[k].ext)' = Whole(e)
      BY <3>1, <3>4
    <3>6. /\ \A x \in Index : \A t \in Tids(Whole(e), x) :
               /\ x \in DOMAIN logs[m].info /\ t <= logs[m].info[x].max
               /\ t <= logs[m].info[x].flushed => t <= saved[x]
          /\ \A x \in DOMAIN logs[m].info :
               /\ logs[m].info[x].flushed <= tid[x]
               /\ \E p \in DOMAIN Whole(e) : Whole(e)[p].op = "add" /\ Whole(e)[p].index = x
      <4>1. Noting(m)
        BY <1>1 DEF Noting
      <4>2. /\ \A x \in Index : \A t \in Tids(Whole(logs[m].ext), x) :
                 /\ x \in DOMAIN logs[m].info /\ t <= logs[m].info[x].max
                 /\ t <= logs[m].info[x].flushed => t <= saved[x]
            /\ \A x \in DOMAIN logs[m].info :
                 /\ logs[m].info[x].flushed <= tid[x]
                 /\ \E p \in DOMAIN Whole(logs[m].ext) :
                      Whole(logs[m].ext)[p].op = "add" /\ Whole(logs[m].ext)[p].index = x
        BY <1>0, <3>3, <4>1 DEF InfoOK
      <4> QED BY <3>3, <4>2
    <3>7. n <= saved[i] /\ saved[i] <= tid[i] /\ saved[i] \in Nat /\ tid[i] \in Nat
      BY <1>0, <1>1, BoundAssumption DEF TidsOK, StoredUp, TypeInv, RestTyped
    <3>8. \A x, t : t \in Tids(Whole(e), x) => t \in Nat
      BY <1>0, <1>12, <3>4, WholeTyped
    <3>9. ASSUME NEW x \in Index, NEW t \in Tids(Whole(e), x)
          PROVE  /\ x \in DOMAIN logs'[k].info /\ t <= logs'[k].info[x].max
                 /\ t <= logs'[k].info[x].flushed => t <= saved[x]
      <4>1. CASE x = i /\ logs[m].info[x].flushed < n
        BY <3>3, <3>6, <3>7, <3>8, <3>9, <4>1
      <4>2. CASE ~(x = i /\ logs[m].info[x].flushed < n)
        BY <3>3, <3>6, <3>9, <4>2
      <4> QED BY <4>1, <4>2
    <3>10. \A x \in DOMAIN logs'[k].info : logs'[k].info[x].flushed <= tid[x]
      BY <3>3, <3>6, <3>7
    <3> QED BY <3>3, <3>5, <3>6, <3>9, <3>10
  <2> QED BY <1>1, <2>1 DEF InfoOK, Noting
<1>21. ASSUME NEW e \in DOMAIN disk \ DOMAIN disk', NEW x \in Index, NEW t \in Tids(Whole(e), x)
       PROVE  t <= saved[x]
  <2>1. PICK k \in DOMAIN logs : e = logs[k].ext
    BY <1>5
  <2>2. k \in drop
    BY <1>11, <2>1
  <2> QED BY <1>7, <1>21, <2>1, <2>2
<1> QED BY <1>10, <1>14, <1>15, <1>16, <1>18, <1>19, <1>20, <1>21 DEF Rest

-----------------------------------------------------------------------------
(* The end of searchd, and its next start. *)

LEMMA PartTids ==
  ASSUME NEW w \in Seq(Record), NEW n \in 0..Len(w), NEW m \in 0..n, NEW i
  PROVE  Tids(SubSeq(w, 1, m), i) \subseteq Tids(SubSeq(w, 1, n), i)
<1> DEFINE u == SubSeq(w, 1, m)
           v == SubSeq(w, 1, n)
<1>1. /\ u \in Seq(Record) /\ DOMAIN u = 1..m /\ \A p \in 1..m : u[p] = w[p]
      /\ v \in Seq(Record) /\ DOMAIN v = 1..n /\ \A p \in 1..n : v[p] = w[p]
  <2>1. Len(w) \in Nat
    BY LenProperties
  <2>2. m \in 0..Len(w)
    BY <2>1
  <2> QED BY <2>2, PartIs
<1> HIDE DEF u, v
<1>2. \A p \in DOMAIN u : p \in DOMAIN v /\ v[p] = u[p]
  BY <1>1
<1>3. /\ Tids(u, i) = {u[p].tid : p \in {q \in DOMAIN u : IsCommit(u[q], i)}}
      /\ Tids(v, i) = {v[p].tid : p \in {q \in DOMAIN v : IsCommit(v[q], i)}}
  BY <1>1, TidsIs
<1>4. Tids(u, i) \subseteq Tids(v, i)
  BY <1>2, <1>3
<1> QED BY <1>4 DEF u, v

\* What is written of a file is a part of what it says with the buffer.
LEMMA PartOfWhole ==
  ASSUME TypeInv, NEW e \in DOMAIN disk, NEW n \in 0..Len(disk[e].recs)
  PROVE  n \in 0..Len(Whole(e)) /\ SubSeq(Whole(e), 1, n) = SubSeq(disk[e].recs, 1, n)
<1> DEFINE r == disk[e].recs
           w == Whole(e)
<1>1. r \in Seq(Record) /\ w \in Seq(Record) /\ pool \in Seq(Record) /\ n \in 0..Len(r) /\ Len(r) \in Nat
  BY WholeTyped, LenProperties DEF TypeInv, FilesTyped
<1>2. w = r \o pool \/ w = r
  BY DEF Whole
<1> HIDE DEF r, w
<1>3. /\ Len(r \o pool) = Len(r) + Len(pool) /\ Len(pool) \in Nat
      /\ \A p \in DOMAIN r : (r \o pool)[p] = r[p]
  BY <1>1, ConcatIs, RecordsTyped
<1>4. n \in 0..Len(w) /\ \A p \in DOMAIN r : w[p] = r[p]
  BY <1>1, <1>2, <1>3
<1>5. /\ SubSeq(r, 1, n) \in Seq(Record) /\ Len(SubSeq(r, 1, n)) = n
      /\ \A p \in 1..n : p \in DOMAIN r /\ SubSeq(r, 1, n)[p] = r[p]
  BY <1>1, PartIs
<1>6. /\ SubSeq(w, 1, n) \in Seq(Record) /\ Len(SubSeq(w, 1, n)) = n
      /\ \A p \in 1..n : p \in DOMAIN w /\ SubSeq(w, 1, n)[p] = w[p]
  BY <1>1, <1>4, PartIs
<1>7. \A p \in 1..n : SubSeq(w, 1, n)[p] = SubSeq(r, 1, n)[p]
  BY <1>4, <1>5, <1>6
<1>8. SubSeq(w, 1, n) = SubSeq(r, 1, n)
  BY <1>5, <1>6, <1>7, SeqEqual
<1> QED BY <1>4, <1>8 DEF r, w

\* A part of a file, maybe with a damaged record behind it.
Torso(r, n) == {SubSeq(r, 1, n), SubSeq(r, 1, n) \o <<Mark("torn_body")>>}

LEMMA TorsoIs ==
  ASSUME TypeInv, NEW e \in DOMAIN disk, Tidy(Whole(e)), NEW n \in 0..Len(disk[e].recs),
         NEW g \in Torso(disk[e].recs, n)
  PROVE  /\ Tidy(g)
         /\ \A i : Tids(g, i) = Tids(SubSeq(disk[e].recs, 1, n), i) /\ Tids(g, i) \subseteq Tids(Whole(e), i)
         /\ \A i \in Index : \A k \in Tids(g, i), m \in Tids(Whole(e), i) : m <= k => m \in Tids(g, i)
<1> DEFINE w == Whole(e)
           v == SubSeq(w, 1, n)
           q == <<Mark("torn_body")>>
<1>1. w \in Seq(Record) /\ Tidy(w) /\ n \in 0..Len(w) /\ v = SubSeq(disk[e].recs, 1, n)
  BY WholeTyped, PartOfWhole
<1>2. v \in Seq(Record)
  BY <1>1, PartIs
<1>3. q \in Seq(Record) /\ DOMAIN q = {1} /\ q[1].op = "torn_body"
  <2>1. q \in Seq(Record) /\ DOMAIN q = {1} /\ q[1] = Mark("torn_body")
    BY MarkIsRecord
  <2> QED BY <2>1 DEF Mark
<1>4. \A i : Tids(q, i) = {}
  BY TidsNone
<1>5. g = v \/ g = v \o q
  BY <1>1 DEF Torso
<1>6. /\ Tidy(v) /\ \A i : Tids(v, i) \subseteq Tids(w, i)
      /\ \A i \in Index : \A k \in Tids(v, i), m \in Tids(w, i) : m <= k => m \in Tids(v, i)
  BY <1>1, TidyPart
<1> HIDE DEF v, w, q
<1>7. Tidy(v \o q) /\ \A i : Tids(v \o q, i) = Tids(v, i)
  <2>1. \A i : Tids(v \o q, i) = Tids(v, i) \cup Tids(q, i)
    BY <1>2, <1>3, TidsConcat
  <2>2. /\ \A p \in DOMAIN q : q[p].op # "torn_head" /\ (Len(v) + p = 2 => q[p].op # "cache")
        /\ \A p \in DOMAIN q, i \in Index : ~IsCommit(q[p], i)
    BY <1>3 DEF IsCommit
  <2>3. Tidy(v \o q)
    BY <1>2, <1>3, <1>6, <2>2, TidyMore
  <2> QED BY <1>4, <2>1, <2>3
<1>8. Tidy(g) /\ \A i : Tids(g, i) = Tids(v, i)
  BY <1>5, <1>6, <1>7
<1>9. \A i : Tids(g, i) = Tids(SubSeq(disk[e].recs, 1, n), i)
  BY <1>1, <1>8
<1> QED BY <1>6, <1>8, <1>9 DEF w

\* What a crash of the system leaves of a file has been synced, so to say.
LEMMA CutPart ==
  ASSUME NoBadStart, NEW f \in File, f.synced <= Len(f.recs), NEW g \in Cut(f)
  PROVE  /\ g \in File /\ g.synced = Len(g.recs)
         /\ \E n \in 0..Len(f.recs) : f.synced <= n /\ g.recs \in Torso(f.recs, n)
<1>1. f.recs \in Seq(Record) /\ f.synced \in Nat /\ Len(f.recs) \in Nat
  BY LenProperties DEF File
<1>2. g \in File
  BY CutIs
<1>3. PICK n \in f.synced..Len(f.recs) :
       \/ g = [recs |-> SubSeq(f.recs, 1, n), synced |-> n]
       \/ /\ n < Len(f.recs)
          /\ \E op \in Torn : g = [recs |-> Append(SubSeq(f.recs, 1, n), Mark(op)), synced |-> n + 1]
  BY CutIs DEF CutOf
<1>4. n \in 0..Len(f.recs) /\ f.synced <= n /\ n \in Nat
  BY <1>1
<1>5. SubSeq(f.recs, 1, n) \in Seq(Record) /\ Len(SubSeq(f.recs, 1, n)) = n
  BY <1>1, <1>4, PartIs
<1>6. CASE g = [recs |-> SubSeq(f.recs, 1, n), synced |-> n]
  BY <1>2, <1>4, <1>5, <1>6 DEF Torso
<1>7. CASE \E op \in Torn : g = [recs |-> Append(SubSeq(f.recs, 1, n), Mark(op)), synced |-> n + 1]
  <2>1. \A op \in Torn : op = "torn_body"
    BY TornAssumption DEF NoBadStart
  <2> DEFINE h == Append(SubSeq(f.recs, 1, n), Mark("torn_body"))
  <2>2. g = [recs |-> h, synced |-> n + 1]
    BY <1>7, <2>1
  <2>3. Mark("torn_body") \in Record
    BY MarkIsRecord
  <2>4. h = SubSeq(f.recs, 1, n) \o <<Mark("torn_body")>>
    BY <1>5, <2>3, AppendIsConcat
  <2>5. Len(h) = n + 1
    BY <1>5, <2>3, AppendProperties
  <2> HIDE DEF h
  <2> QED BY <1>2, <1>4, <2>2, <2>4, <2>5 DEF Torso
<1> QED BY <1>3, <1>6, <1>7

\* A crash keeps the files, and of each at least what is synced; what it leaves
\* unsynced, of which nobody will take care, is noted.
LEMMA CrashLeaves ==
  ASSUME NoBadStart, FileInv, Crash
  PROVE  /\ DOMAIN disk' = DOMAIN disk
         /\ \A e \in DOMAIN disk : \E n \in 0..Len(disk[e].recs) :
               disk[e].synced <= n /\ disk'[e].recs \in Torso(disk[e].recs, n)
         /\ \A e \in DOMAIN disk, i \in Index : Unsynced(disk'[e], i) \subseteq bare'[i]
         /\ \A i \in Index : bare[i] \subseteq bare'[i]
         /\ \/ "process" \in CrashKind /\ disk' = disk /\ acked' = acked
            \/ acked' = [i \in Index |-> Safe(i)]
<1>0. TypeInv /\ FilesOK
  BY DEF FileInv, Rest
<1>1. Left = DOMAIN disk
  BY <1>0 DEF Left, FilesOK
<1>2. bare \in [Index -> SUBSET (1..MaxTid)] /\ disk = [e \in DOMAIN disk |-> disk[e]]
  BY <1>0 DEF TypeInv, RestTyped, FilesTyped
<1>3. CASE ProcessCrash
  <2>1. disk' = disk /\ "process" \in CrashKind /\ acked' = acked
    BY <1>1, <1>2, <1>3 DEF ProcessCrash, Restrict
  <2>2. bare' = [i \in Index |-> bare[i] \cup UNION {Unsynced(disk[e], i) : e \in DOMAIN disk}]
    BY <1>1, <1>3 DEF ProcessCrash
  <2>3. ASSUME NEW e \in DOMAIN disk
        PROVE  \E n \in 0..Len(disk[e].recs) : disk[e].synced <= n /\ disk[e].recs \in Torso(disk[e].recs, n)
    <3> DEFINE r == disk[e].recs
    <3>1. r \in Seq(Record) /\ Len(r) \in Nat /\ disk[e].synced <= Len(r)
      BY <1>0, WholeTyped, LenProperties
    <3>2. Len(r) \in 0..Len(r) /\ SubSeq(r, 1, Len(r)) = r
      BY <3>1, PartIs
    <3>3. r \in Torso(r, Len(r))
      BY <3>2 DEF Torso
    <3> QED BY <3>1, <3>2, <3>3
  <2> QED BY <2>1, <2>2, <2>3
<1>4. CASE SystemCrash
  <2>1. DOMAIN disk' = DOMAIN disk /\ \A e \in DOMAIN disk : disk'[e] \in Cut(disk[e])
    BY <1>0, <1>1, <1>4, SystemCrashIs
  <2>2. acked' = [i \in Index |-> Safe(i)] /\ bare' = bare
    BY <1>4 DEF SystemCrash
  <2>3. ASSUME NEW e \in DOMAIN disk
        PROVE  /\ disk'[e] \in File /\ disk'[e].synced = Len(disk'[e].recs)
               /\ \E n \in 0..Len(disk[e].recs) : disk[e].synced <= n /\ disk'[e].recs \in Torso(disk[e].recs, n)
    BY <1>0, <2>1, CutPart DEF TypeInv, FilesTyped
  <2>4. \A e \in DOMAIN disk, i \in Index : Unsynced(disk'[e], i) = {}
    BY <2>3, UnsyncedIs
  <2> QED BY <2>1, <2>2, <2>3, <2>4
<1> QED BY <1>3, <1>4 DEF Crash

\* What the files say then: no more than before, all that was synced, and no later
\* transaction of a file without its earlier ones.
LEMMA CrashFiles ==
  ASSUME NoBadStart, FileInv, Crash, NEW e \in DOMAIN disk
  PROVE  /\ Tidy(disk'[e].recs) /\ \A i : Tids(disk'[e].recs, i) \subseteq Tids(Whole(e), i)
         /\ \A i \in Index : \A k \in Tids(disk'[e].recs, i), m \in Tids(Whole(e), i) :
               m <= k => m \in Tids(disk'[e].recs, i)
         /\ \A i : Tids(SubSeq(disk[e].recs, 1, disk[e].synced), i) \subseteq Tids(disk'[e].recs, i)
<1>0. TypeInv /\ Tidy(Whole(e))
  BY DEF FileInv, Rest, RecordsOK
<1>1. PICK n \in 0..Len(disk[e].recs) : disk[e].synced <= n /\ disk'[e].recs \in Torso(disk[e].recs, n)
  BY CrashLeaves
<1>2. PICK g \in Torso(disk[e].recs, n) : g = disk'[e].recs
  BY <1>1
<1>3. /\ Tidy(g)
      /\ \A i : Tids(g, i) = Tids(SubSeq(disk[e].recs, 1, n), i) /\ Tids(g, i) \subseteq Tids(Whole(e), i)
      /\ \A i \in Index : \A k \in Tids(g, i), m \in Tids(Whole(e), i) : m <= k => m \in Tids(g, i)
  BY <1>0, TorsoIs
<1>4. disk[e].recs \in Seq(Record) /\ disk[e].synced \in 0..n
  <2>1. disk[e].recs \in Seq(Record) /\ disk[e].synced \in 0..Len(disk[e].recs) /\ Len(disk[e].recs) \in Nat
    BY <1>0, WholeTyped, LenProperties
  <2> QED BY <1>1, <2>1
<1>5. \A i : Tids(SubSeq(disk[e].recs, 1, disk[e].synced), i) \subseteq Tids(SubSeq(disk[e].recs, 1, n), i)
  BY <1>4, PartTids
<1> QED BY <1>2, <1>3, <1>5

LEMMA StopIs ==
  ASSUME Stop
  PROVE  /\ mode' = "down" /\ logs' = <<>> /\ DOMAIN logs' = {} /\ pool' = <<>> /\ DOMAIN pool' = {}
         /\ ~open' /\ ~lost' /\ lock' = "free" /\ next' = 1 /\ notify' = {} /\ have' = have
         /\ crashes' = crashes + 1
         /\ \A e : Whole(e)' = disk'[e].recs
<1>1. /\ mode' = "down" /\ logs' = <<>> /\ pool' = <<>> /\ open' = FALSE /\ lost' = FALSE
      /\ lock' = "free" /\ next' = 1 /\ notify' = {} /\ have' = have /\ crashes' = crashes + 1
  BY DEF Stop
<1> QED BY <1>1 DEF Whole

LEMMA CrashStep ==
  ASSUME NoBadStart, FileInv, TypeInv', Crash
  PROVE  Rest'
<1>0. TypeInv /\ FilesOK /\ RecordsOK /\ OrderOK /\ TidsOK /\ BareOK
  BY DEF FileInv, Rest
<1>1. /\ mode' = "down" /\ DOMAIN logs' = {} /\ Exts(logs') = <<>> /\ DOMAIN pool' = {}
      /\ ~open' /\ ~lost' /\ lock' = "free" /\ next' = 1 /\ notify' = {} /\ have' = have
      /\ \A e : Whole(e)' = disk'[e].recs
      /\ meta' = meta /\ saved' = saved
  BY StopIs DEF Crash, Exts
<1>2. /\ DOMAIN disk' = DOMAIN disk /\ \A i \in Index : bare[i] \subseteq bare'[i]
      /\ \A e \in DOMAIN disk, i \in Index : Unsynced(disk'[e], i) \subseteq bare'[i]
  BY CrashLeaves
<1>3. ASSUME NEW e \in DOMAIN disk
      PROVE  /\ Tidy(Whole(e)') /\ \A i : Tids(Whole(e)', i) \subseteq Tids(Whole(e), i)
             /\ \A i \in Index : \A k \in Tids(Whole(e)', i), m \in Tids(Whole(e), i) :
                   m <= k => m \in Tids(Whole(e)', i)
             /\ \A i : Tids(SubSeq(disk[e].recs, 1, disk[e].synced), i) \subseteq Tids(Whole(e)', i)
  BY <1>1, CrashFiles
<1>4. mode \in {"up", "replay"} /\ lock # "unlinked" /\ Rising(meta) /\ DOMAIN disk = Range(meta)
      /\ meta = Exts(logs)
  <2>1. mode \in {"up", "replay"} /\ lock # "unlinked"
    BY DEF Crash, NoBadStart
  <2> QED BY <1>0, <2>1 DEF FilesOK
<1>5. FilesOK'
  <2>1. Rising(<<>>)
    BY DEF Rising
  <2> QED BY <1>1, <1>2, <1>4, <2>1 DEF FilesOK
<1>6. RecordsOK'
  <2>1. \A e \in DOMAIN disk' : Tidy(Whole(e)')
    BY <1>2, <1>3
  <2>2. ASSUME meta # <<>> PROVE disk'[meta[Len(meta)]].recs # <<>>
    <3>1. Len(logs) \in DOMAIN logs /\ Exts(logs)[Len(logs)] = Current /\ Len(meta) = Len(logs) /\ logs # <<>>
      BY <1>0, <1>4, <2>2, ExtsTyped, EmptySeq, LenProperties DEF TypeInv, FilesTyped, Current, Last
    <3>2. Current \in DOMAIN disk
      BY <1>0, <1>4, <3>1, FilesAre DEF Current, Last
    <3>3. disk'[Current].recs # <<>>
      BY <1>2, <1>4, <3>1, <3>2 DEF Crash, NoBadStart
    <3> QED BY <1>4, <3>1, <3>3
  <2> QED BY <1>1, <2>1, <2>2 DEF RecordsOK, Tidy
<1>7. OrderOK'
  <2>1. ASSUME NEW e \in DOMAIN disk, NEW f \in DOMAIN disk, NEW i \in Index, e < f,
               NEW a \in Tids(Whole(e)', i), NEW b \in Tids(Whole(f)', i)
        PROVE  a < b
    <3>1. a \in Tids(Whole(e), i) /\ b \in Tids(Whole(f), i)
      BY <1>3, <2>1
    <3> QED BY <1>0, <2>1, <3>1 DEF OrderOK
  <2> QED BY <1>2, <2>1 DEF OrderOK
<1>8. TidsOK'
  <2>1. ASSUME NEW i \in Index, NEW n \in Holds(i)' \cup {saved[i]}, NEW m \in 1..n
        PROVE  Stored(i, m)' \/ m \in bare'[i]
    <3>1. \A e \in DOMAIN disk : \A t \in Tids(Whole(e)', i) : t \in Holds(i)'
      BY <1>2 DEF Holds
    <3>2. tid[i] \in Nat /\ saved[i] \in Nat
      BY <1>0, BoundAssumption DEF TypeInv, RestTyped
    <3>3. n \in Holds(i) \cup {saved[i]} /\ n \in Nat
      <4>1. CASE n \in Holds(i)'
        <5>1. PICK f \in DOMAIN disk : n \in Tids(Whole(f)', i)
          BY <1>2, <4>1 DEF Holds
        <5>2. n \in Tids(Whole(f), i) /\ n \in Nat
          BY <1>0, <1>3, <5>1, WholeTyped
        <5> QED BY <5>2 DEF Holds
      <4> QED BY <3>2, <4>1
    <3>4. Stored(i, m) \/ m \in bare[i]
      <4>1. CASE mode = "up"
        <5>1. StoredUp(i)
          BY <1>0, <4>1 DEF TidsOK
        <5>2. n <= tid[i]
          BY <3>3, <5>1 DEF StoredUp
        <5>3. m \in 1..tid[i]
          BY <3>2, <3>3, <5>2
        <5> QED BY <5>1, <5>3 DEF StoredUp
      <4>2. CASE mode = "replay"
        BY <1>0, <3>3, <4>2 DEF TidsOK
      <4> QED BY <1>4, <4>1, <4>2
    <3>5. CASE m <= saved[i]
      BY <1>1, <1>2, <3>4, <3>5 DEF Stored
    <3>6. ASSUME ~(m <= saved[i]), m \in Holds(i) PROVE m \in Holds(i)' \/ m \in bare[i]
      <4>1. PICK e \in DOMAIN disk : m \in Tids(Whole(e), i)
        BY <3>6 DEF Holds
      <4>2. n # saved[i] /\ m <= n
        BY <3>2, <3>3, <3>6
      <4>3. PICK f \in DOMAIN disk : n \in Tids(Whole(f)', i)
        BY <1>2, <4>2 DEF Holds
      <4>4. n \in Tids(Whole(f), i) /\ e \in Nat /\ f \in Nat
        BY <1>0, <1>3, <4>3, WholeTyped
      <4>5. CASE f < e
        <5>1. n < m
          BY <1>0, <4>1, <4>4, <4>5 DEF OrderOK
        <5> QED BY <3>3, <4>2, <5>1
      <4>6. CASE e = f
        BY <1>3, <3>1, <4>1, <4>2, <4>3, <4>6
      <4>7. CASE e < f
        <5>1. Closed(e)
          <6>1. f <= Current
            BY <1>0, <1>4, FilesAre
          <6>2. e # Current
            BY <4>4, <4>7, <6>1
          <6> QED BY <6>2 DEF Closed
        <5>2. m \in Tids(disk[e].recs, i)
          BY <4>1, <5>1 DEF Whole, Closed
        <5>3. m \in Tids(SubSeq(disk[e].recs, 1, disk[e].synced), i) \/ m \in Unsynced(disk[e], i)
          BY <5>2 DEF Unsynced
        <5>4. Unsynced(disk[e], i) \subseteq bare[i]
          BY <1>0, <5>1 DEF BareOK
        <5> QED BY <1>3, <3>1, <5>3, <5>4
      <4> QED BY <4>4, <4>5, <4>6, <4>7
    <3>7. CASE ~(m <= saved[i])
      BY <1>1, <1>2, <3>4, <3>6, <3>7 DEF Stored
    <3> QED BY <3>5, <3>7
  <2> QED BY <1>1, <2>1 DEF TidsOK
<1>9. ReplayOK' /\ InfoOK'
  BY <1>1 DEF ReplayOK, InfoOK
<1>10. BareOK'
  BY <1>2 DEF BareOK
<1> QED BY <1>5, <1>6, <1>7, <1>8, <1>9, <1>10 DEF Rest

LEMMA ShutdownStep ==
  ASSUME FileInv, TypeInv', Shutdown
  PROVE  Rest'
<1>0. TypeInv /\ FilesOK /\ RecordsOK /\ OrderOK /\ TidsOK
  BY DEF FileInv, Rest
<1>1. /\ mode' = "down" /\ DOMAIN logs' = {} /\ Exts(logs') = <<>> /\ DOMAIN pool' = {}
      /\ ~open' /\ ~lost' /\ lock' = "free" /\ next' = 1 /\ notify' = {}
      /\ meta' = <<>> /\ DOMAIN disk' = {} /\ mode = "up"
      /\ saved' = tid /\ have' = have /\ bare' = bare
  BY StopIs DEF Shutdown, Exts, Restrict
<1>2. Rising(<<>>) /\ Range(<<>>) = {}
  BY DEF Rising, Range
<1>3. \A i : Holds(i)' = {}
  BY <1>1 DEF Holds
<1>4. FilesOK'
  BY <1>1, <1>2 DEF FilesOK
<1>5. RecordsOK' /\ OrderOK' /\ ReplayOK' /\ InfoOK'
  BY <1>1 DEF RecordsOK, OrderOK, ReplayOK, InfoOK
<1>6. TidsOK'
  <2>1. ASSUME NEW i \in Index, NEW m \in 1..tid[i] PROVE Stored(i, m)' \/ m \in bare'[i]
    <3>1. (m \in have[i] <=> Stored(i, m)) /\ (Stored(i, m) \/ m \in bare[i])
      BY <1>0, <1>1 DEF TidsOK, StoredUp
    <3>2. tid[i] \in Nat
      BY <1>0, BoundAssumption DEF TypeInv, RestTyped
    <3> QED BY <1>1, <3>1, <3>2 DEF Stored
  <2> QED BY <1>1, <1>3, <2>1 DEF TidsOK
<1>7. BareOK'
  BY <1>1 DEF BareOK
<1> QED BY <1>4, <1>5, <1>6, <1>7 DEF Rest

LEMMA StartStep ==
  ASSUME FileInv, TypeInv', Start
  PROVE  Rest' /\ \A i : Holds(i)' = Holds(i)
<1>0. TypeInv /\ FilesOK /\ RecordsOK /\ OrderOK /\ TidsOK /\ BareOK /\ ReplayOK
  BY DEF FileInv, Rest
<1>1. /\ mode = "down" /\ mode' = "replay" /\ tid' = saved /\ have' = [i \in Index |-> {n \in have[i] : n <= saved[i]}]
      /\ logs' = [k \in DOMAIN meta |-> [ext |-> meta[k], info |-> NoInfo]]
      /\ UNCHANGED <<disk, meta, pool, open, lost, lock, saved, bare, notify, next>>
  BY DEF Start, writeVars
<1>2. ~open /\ lock = "free" /\ next = 1
  BY <1>0, <1>1 DEF TypeInv, WriterOK, ReplayOK
<1>3. \A e : Whole(e)' = Whole(e)
  BY <1>1, <1>2 DEF Whole
<1>4. \A i : Holds(i)' = Holds(i)
  BY <1>1, <1>3 DEF Holds
<1>5. Exts(logs') = meta
  <2>1. Exts(logs') = [k \in DOMAIN meta |-> meta[k]]
    BY <1>1 DEF Exts
  <2>2. meta \in [1..Len(meta) -> Nat \ {0}]
    BY <1>0, LenProperties DEF TypeInv, FilesTyped
  <2> QED BY <2>1, <2>2
<1>6. FilesOK'
  BY <1>0, <1>1, <1>2, <1>5 DEF FilesOK
<1>7. RecordsOK'
  <2>1. \A e \in DOMAIN disk' : Tidy(Whole(e)')
    BY <1>0, <1>1, <1>3 DEF RecordsOK
  <2>2. meta' # <<>> => disk'[meta'[Len(meta')]].recs # <<>>
    BY <1>0, <1>1 DEF RecordsOK
  <2>3. \A p \in DOMAIN pool' : pool'[p].op # "cache"
    BY <1>0, <1>1 DEF RecordsOK
  <2> QED BY <1>1, <1>2, <2>1, <2>2, <2>3 DEF RecordsOK, Tidy
<1>8. OrderOK'
  BY <1>0, <1>1, <1>3 DEF OrderOK
<1>9. TidsOK'
  <2>1. \A i \in Index : \A m : Stored(i, m)' <=> Stored(i, m)
    BY <1>1, <1>4 DEF Stored
  <2> QED BY <1>0, <1>1, <1>4, <2>1 DEF TidsOK
<1>10. ReplayOK'
  <2>1. \A k \in DOMAIN logs' : ~(k < next')
    <3>1. DOMAIN logs' = 1..Len(meta)
      BY <1>0, <1>1, LenProperties DEF TypeInv, FilesTyped
    <3> QED BY <1>1, <1>2, <3>1
  <2>2. \A i : Done(i)' = {}
    BY <2>1 DEF Done
  <2>3. \A i \in Index : saved[i] \in Nat
    BY <1>0, BoundAssumption DEF TypeInv, RestTyped
  <2>4. \A i \in Index : /\ \A n \in have'[i] : n <= saved'[i]
                         /\ tid'[i] \in Done(i)' \cup {saved'[i]}
                         /\ \A n \in Done(i)' \cup {saved'[i]} : n <= tid'[i]
    BY <1>1, <2>2, <2>3
  <2> QED BY <1>1, <2>2, <2>4 DEF ReplayOK
<1>11. InfoOK'
  <2>1. \A k \in DOMAIN logs' : ~(k < next')
    <3>1. DOMAIN logs' = 1..Len(meta)
      BY <1>0, <1>1, LenProperties DEF TypeInv, FilesTyped
    <3> QED BY <1>1, <1>2, <3>1
  <2> QED BY <1>1, <2>1 DEF InfoOK, Noting
<1>12. BareOK'
  BY <1>0, <1>1, <1>2 DEF BareOK, Closed
<1> QED BY <1>4, <1>6, <1>7, <1>8, <1>9, <1>10, <1>11, <1>12 DEF Rest

\* A transaction of the next file that is not newer than what the index has, is saved.
LEMMA OldIsSaved ==
  ASSUME FileInv, mode = "replay", next \in DOMAIN logs, NEW i \in Index,
         NEW m \in Tids(disk[logs[next].ext].recs, i), m <= tid[i]
  PROVE  m <= saved[i]
<1>0. TypeInv /\ FilesOK /\ OrderOK /\ ReplayOK /\ ~open
  BY DEF FileInv, Rest, TypeInv, WriterOK
<1>1. tid[i] \in Done(i) \cup {saved[i]}
  BY <1>0 DEF ReplayOK
<1>2. CASE tid[i] = saved[i]
  BY <1>2
<1>3. CASE tid[i] \in Done(i)
  <2>1. PICK k \in DOMAIN logs : k < next /\ tid[i] \in Tids(disk[logs[k].ext].recs, i)
    BY <1>3 DEF Done
  <2>2. /\ logs[k].ext \in DOMAIN disk /\ logs[next].ext \in DOMAIN disk
        /\ logs[k].ext < logs[next].ext
    BY <1>0, <2>1, FilesAre
  <2>3. tid[i] \in Tids(Whole(logs[k].ext), i) /\ m \in Tids(Whole(logs[next].ext), i)
    BY <1>0, <2>1 DEF Whole
  <2>4. tid[i] < m
    BY <1>0, <2>2, <2>3 DEF OrderOK
  <2>5. m \in Nat /\ tid[i] \in Nat
    BY <1>0, <2>2, <2>3, WholeTyped, BoundAssumption DEF TypeInv, RestTyped
  <2> QED BY <2>4, <2>5
<1> QED BY <1>1, <1>2, <1>3

LEMMA ReplayStep ==
  ASSUME FileInv, TypeInv', ReplayFile
  PROVE  Rest' /\ \A i : Holds(i)' = Holds(i)
<1>0. TypeInv /\ FilesOK /\ RecordsOK /\ OrderOK /\ TidsOK /\ BareOK /\ ReplayOK /\ InfoOK
  BY DEF FileInv, Rest
<1>1. /\ mode = "replay" /\ next \in DOMAIN logs
      /\ UNCHANGED <<disk, meta, pool, open, lost, lock, saved, bare, notify>>
  BY <1>0, ReplayIs DEF ReplayFile, writeVars
<1>2. ~open /\ lock = "free" /\ next \in Nat
  BY <1>0, <1>1 DEF TypeInv, WriterOK, RestTyped
<1>3. \A e : Whole(e)' = Whole(e) /\ Whole(e) = disk[e].recs
  BY <1>1, <1>2 DEF Whole
<1>4. \A i : Holds(i)' = Holds(i)
  BY <1>1, <1>3 DEF Holds
<1>5. PICK e : e = logs[next].ext
  OBVIOUS
<1>6. PICK r : r = disk[e].recs
  OBVIOUS
<1>7. e \in DOMAIN disk /\ r \in Seq(Record) /\ Tidy(r) /\ r = Whole(e)
  <2>1. e \in DOMAIN disk
    BY <1>0, <1>1, <1>5, FilesAre
  <2> QED BY <1>0, <1>3, <1>6, <2>1, WholeTyped DEF RecordsOK
<1>8. Mark("torn_head") \notin Range(r)
  <2>1. \A p \in DOMAIN r : r[p] # Mark("torn_head")
    BY <1>7 DEF Tidy, Mark
  <2> QED BY <2>1 DEF Range
<1>9. /\ mode' = "replay"
      /\ logs' \in Seq(Log) /\ DOMAIN logs' = DOMAIN logs
      /\ \A k \in DOMAIN logs : logs'[k].ext = logs[k].ext
      /\ \A k \in DOMAIN logs \ {next} : logs'[k] = logs[k]
      /\ DOMAIN logs'[next].info = Known(r)
      /\ \A i \in Known(r) : logs'[next].info[i].max = Highest(Tids(r, i)) /\ logs'[next].info[i].flushed = tid[i]
      /\ have' = [i \in Index |-> have[i] \cup {n \in Tids(r, i) : n > tid[i]}]
      /\ tid' = [i \in Index |-> Highest(Tids(r, i) \cup {tid[i]})]
      /\ next' = next + 1
  <2>1. e \in DOMAIN disk /\ Mark("torn_head") \notin Range(disk[e].recs)
    BY <1>6, <1>7, <1>8
  <2> QED BY <1>0, <1>1, <1>5, <1>6, <2>1, ReplayIs
<1>10. ASSUME NEW i \in Index
       PROVE  /\ Tids(r, i) \subseteq 1..MaxTid /\ tid[i] \in 0..MaxTid /\ saved[i] \in Nat
              /\ tid'[i] \in Tids(r, i) \cup {tid[i]} /\ tid'[i] \in Nat
              /\ \A m \in Tids(r, i) \cup {tid[i]} : m <= tid'[i]
              /\ Highest(Tids(r, i)) \in Nat /\ \A m \in Tids(r, i) : m <= Highest(Tids(r, i))
              /\ \A m \in Tids(r, i) : m <= tid[i] => m <= saved[i]
  <2>1. Tids(r, i) \subseteq 1..MaxTid /\ tid[i] \in 0..MaxTid /\ saved[i] \in 0..MaxTid /\ MaxTid \in Nat
    BY <1>0, <1>7, TidsIs, BoundAssumption DEF TypeInv, RestTyped
  <2>2. Tids(r, i) \cup {tid[i]} \in SUBSET (0..MaxTid) /\ Tids(r, i) \in SUBSET (0..MaxTid)
    BY <2>1
  <2>3. /\ Highest(Tids(r, i) \cup {tid[i]}) \in 0..MaxTid
        /\ Highest(Tids(r, i) \cup {tid[i]}) \in Tids(r, i) \cup {tid[i]} \cup {0}
        /\ \A m \in Tids(r, i) \cup {tid[i]} : m <= Highest(Tids(r, i) \cup {tid[i]})
    BY <2>1, <2>2, HighestIs
  <2>4. Highest(Tids(r, i)) \in 0..MaxTid /\ \A m \in Tids(r, i) : m <= Highest(Tids(r, i))
    BY <2>1, <2>2, HighestIs
  <2>5. tid'[i] = Highest(Tids(r, i) \cup {tid[i]})
    BY <1>9
  <2>6. tid'[i] = 0 => tid[i] = 0
    BY <2>1, <2>3, <2>5
  <2>7. \A m \in Tids(r, i) : m <= tid[i] => m <= saved[i]
    BY <1>1, <1>5, <1>6, OldIsSaved
  <2> QED BY <2>1, <2>3, <2>4, <2>5, <2>6, <2>7
<1>11. \A i : Done(i)' = Done(i) \cup Tids(r, i)
  <2>1. \A k \in DOMAIN logs : k < next' <=> k < next \/ k = next
    <3>1. \A k \in DOMAIN logs : k \in Nat
      BY <1>0, ExtsTyped, LenProperties DEF TypeInv, FilesTyped
    <3> QED BY <1>2, <1>9, <3>1
  <2>2. \A i : Done(i)' = UNION {Tids(disk[logs[k].ext].recs, i) : k \in {j \in DOMAIN logs : j < next'}}
    BY <1>1, <1>9 DEF Done
  <2>3. {j \in DOMAIN logs : j < next'} = {j \in DOMAIN logs : j < next} \cup {next}
    BY <1>1, <2>1
  <2> QED BY SMTT(30), <1>5, <1>6, <2>2, <2>3 DEF Done
<1>12. FilesOK'
  <2>1. Exts(logs') = Exts(logs)
    BY <1>9 DEF Exts
  <2> QED BY <1>0, <1>1, <1>9, <2>1 DEF FilesOK
<1>13. RecordsOK'
  <2>1. \A x \in DOMAIN disk' : Tidy(Whole(x)')
    BY <1>0, <1>1, <1>3 DEF RecordsOK
  <2>2. meta' # <<>> => disk'[meta'[Len(meta')]].recs # <<>>
    BY <1>0, <1>1 DEF RecordsOK
  <2>3. \A p \in DOMAIN pool' : pool'[p].op # "cache"
    BY <1>0, <1>1 DEF RecordsOK
  <2> QED BY <1>1, <1>2, <2>1, <2>2, <2>3 DEF RecordsOK, Tidy
<1>14. OrderOK'
  BY <1>0, <1>1, <1>3 DEF OrderOK
<1>15. TidsOK'
  <2>1. ASSUME NEW i \in Index, NEW m, m <= saved[i] PROVE m \in have'[i] <=> m \in have[i]
    <3>1. have'[i] = have[i] \cup {n \in Tids(r, i) : n > tid[i]}
      BY <1>9
    <3>2. saved[i] <= tid[i]
      BY <1>0, <1>1 DEF ReplayOK
    <3>3. \A n \in Tids(r, i) : n > tid[i] => ~(n <= saved[i])
      BY <1>10, <3>2
    <3> QED BY <2>1, <3>1, <3>3
  <2>2. \A i \in Index : \A m : Stored(i, m)' <=> Stored(i, m)
    BY <1>1, <1>4, <2>1 DEF Stored
  <2> QED BY <1>0, <1>1, <1>4, <1>9, <2>2 DEF TidsOK
<1>16. ReplayOK'
  <2>1. ASSUME NEW i \in Index
        PROVE  /\ \A n \in have'[i] : n <= saved[i] \/ n \in Done(i)'
               /\ \A n \in Done(i)' : n <= saved[i] \/ n \in have'[i]
               /\ tid'[i] \in Done(i)' \cup {saved[i]}
               /\ \A n \in Done(i)' \cup {saved[i]} : n <= tid'[i]
    <3>1. /\ \A n \in have[i] : n <= saved[i] \/ n \in Done(i)
          /\ \A n \in Done(i) : n <= saved[i] \/ n \in have[i]
          /\ tid[i] \in Done(i) \cup {saved[i]} /\ \A n \in Done(i) \cup {saved[i]} : n <= tid[i]
      BY <1>0, <1>1 DEF ReplayOK
    <3>2. have'[i] = have[i] \cup {n \in Tids(r, i) : n > tid[i]}
      BY <1>9
    <3>3. \A n \in Tids(r, i) : n > tid[i] \/ n <= saved[i]
      BY <1>10
    <3>4. /\ \A n \in have'[i] : n <= saved[i] \/ n \in Done(i)'
          /\ \A n \in Done(i)' : n <= saved[i] \/ n \in have'[i]
      BY <1>11, <3>1, <3>2, <3>3
    <3>5. tid'[i] \in Done(i)' \cup {saved[i]}
      BY <1>10, <1>11, <3>1
    <3>6. Done(i) \subseteq Nat
      <4>1. \A k \in DOMAIN logs : logs[k].ext \in DOMAIN disk
        BY <1>0, <1>1, FilesAre
      <4>2. \A k \in DOMAIN logs : Tids(disk[logs[k].ext].recs, i) \subseteq 1..MaxTid
        BY <1>0, <1>3, <4>1, WholeTyped
      <4> QED BY <4>2 DEF Done
    <3>7. ASSUME NEW n \in Done(i)' \cup {saved[i]} PROVE n <= tid'[i]
      <4>1. CASE n \in Tids(r, i)
        BY <1>10, <4>1
      <4>2. CASE n \in Done(i) \cup {saved[i]}
        <5>1. n <= tid[i] /\ tid[i] <= tid'[i] /\ n \in Nat /\ tid[i] \in Nat /\ tid'[i] \in Nat
          BY <1>10, <3>1, <3>6, <4>2
        <5> QED BY <5>1
      <4> QED BY <1>11, <3>7, <4>1, <4>2
    <3> QED BY <1>11, <3>4, <3>5, <3>7
  <2> QED BY <1>1, <1>9, <2>1 DEF ReplayOK
<1>17. InfoOK'
  <2>1. ASSUME NEW k \in DOMAIN logs, k < next \/ k = next
        PROVE  /\ \A i \in Index : \A n \in Tids(Whole(logs[k].ext), i) :
                     /\ i \in DOMAIN logs'[k].info /\ n <= logs'[k].info[i].max
                     /\ n <= logs'[k].info[i].flushed => n <= saved[i]
               /\ \A i \in DOMAIN logs'[k].info :
                     /\ logs'[k].info[i].flushed <= tid'[i]
                     /\ \E p \in DOMAIN Whole(logs[k].ext) :
                           Whole(logs[k].ext)[p].op = "add" /\ Whole(logs[k].ext)[p].index = i
    <3>1. CASE k = next
      <4>1. /\ Whole(logs[k].ext) = r /\ Known(r) \subseteq Index
            /\ \A i \in Known(r) : \E p \in DOMAIN r : r[p].op = "add" /\ r[p].index = i
            /\ \A p \in DOMAIN r : r[p].op = "add" => r[p].index \in Known(r)
        BY <1>5, <1>7, <3>1, KnownIs
      <4>2. ASSUME NEW i \in Index, NEW n \in Tids(r, i)
            PROVE  /\ i \in Known(r) /\ n <= logs'[k].info[i].max
                   /\ n <= logs'[k].info[i].flushed => n <= saved[i]
        <5>1. PICK p \in DOMAIN r : IsCommit(r[p], i)
          BY <1>7, <4>2, TidsIs
        <5>2. i \in Known(r)
          BY <1>7, <4>1, <5>1 DEF Tidy
        <5> QED BY <1>9, <1>10, <3>1, <4>2, <5>2
      <4>3. \A i \in Known(r) : logs'[k].info[i].flushed <= tid'[i]
        BY <1>9, <1>10, <3>1, <4>1, ZenonT(60)
      <4> QED BY <1>9, <3>1, <4>1, <4>2, <4>3
    <3>2. CASE k < next
      <4>1. k # next /\ logs'[k] = logs[k]
        <5>1. k # next
          BY <1>2, <3>2
        <5> QED BY <1>9, <5>1
      <4>2. /\ \A i \in Index : \A n \in Tids(Whole(logs[k].ext), i) :
                 /\ i \in DOMAIN logs[k].info /\ n <= logs[k].info[i].max
                 /\ n <= logs[k].info[i].flushed => n <= saved[i]
            /\ \A i \in DOMAIN logs[k].info :
                 /\ logs[k].info[i].flushed <= tid[i]
                 /\ \E p \in DOMAIN Whole(logs[k].ext) :
                      Whole(logs[k].ext)[p].op = "add" /\ Whole(logs[k].ext)[p].index = i
        BY <1>0, <1>1, <3>2 DEF InfoOK, Noting
      <4>3. ASSUME NEW i \in DOMAIN logs[k].info PROVE logs[k].info[i].flushed <= tid'[i]
        <5>1. i \in Index /\ logs[k].info[i].flushed \in Nat
          <6>1. logs[k] \in Log
            BY <1>0, ExtsTyped DEF TypeInv, FilesTyped
          <6> QED BY <6>1 DEF Log, Infos, Info
        <5>2. tid[i] <= tid'[i] /\ tid[i] \in Nat /\ tid'[i] \in Nat
          BY <1>10, <5>1
        <5>3. logs[k].info[i].flushed <= tid[i]
          BY <4>2
        <5> QED BY <5>1, <5>2, <5>3
      <4> QED BY <4>1, <4>2, <4>3
    <3> QED BY <2>1, <3>1, <3>2
  <2>2. \A k \in DOMAIN logs : k < next' => k < next \/ k = next
    <3>1. \A k \in DOMAIN logs : k \in Nat
      BY <1>0, ExtsTyped, LenProperties DEF TypeInv, FilesTyped
    <3> QED BY <1>2, <1>9, <3>1
  <2>3. ASSUME NEW k \in DOMAIN logs' PROVE k \in DOMAIN logs /\ Whole(logs[k].ext)' = Whole(logs[k].ext)
    BY <1>3, <1>9
  <2>4. ASSUME NEW k \in DOMAIN logs', Noting(k)' PROVE k \in DOMAIN logs /\ (k < next \/ k = next)
    BY <1>9, <2>2, <2>3, <2>4 DEF Noting
  <2>5. saved' = saved
    BY <1>1
  <2> QED BY <2>1, <2>3, <2>4, <2>5 DEF InfoOK
<1>18. BareOK'
  BY <1>0, <1>1, <1>2 DEF BareOK, Closed
<1> QED BY <1>4, <1>12, <1>13, <1>14, <1>15, <1>16, <1>17, <1>18 DEF Rest

-----------------------------------------------------------------------------
(* The invariant. *)

LEMMA InitRest == Init => Rest
<1> SUFFICES ASSUME Init PROVE Rest
  OBVIOUS
<1>1. /\ logs = <<[ext |-> 1, info |-> NoInfo]>> /\ disk = [e \in {1} |-> EmptyFile] /\ meta = <<1>>
      /\ pool = <<Mark("head")>> /\ open /\ ~lost /\ lock = "free" /\ notify = {} /\ mode = "up"
      /\ tid = [i \in Index |-> 0] /\ saved = [i \in Index |-> 0] /\ have = [i \in Index |-> {}]
  BY DEF Init
<1>2. /\ DOMAIN logs = {1} /\ logs[1].ext = 1 /\ DOMAIN logs[1].info = {} /\ Current = 1
      /\ DOMAIN meta = {1} /\ meta[1] = 1
  BY <1>1 DEF Current, Last, NoInfo
<1>3. /\ <<Mark("head")>> \in Seq(Record) /\ DOMAIN <<Mark("head")>> = {1} /\ Len(<<Mark("head")>>) = 1
      /\ <<Mark("head")>>[1].op = "head" /\ \A i : Tids(<<Mark("head")>>, i) = {}
  <2>1. <<Mark("head")>> \in Seq(Record)
    BY MarkIsRecord
  <2>2. Mark("head").op = "head"
    BY DEF Mark
  <2> QED BY <2>1, <2>2, TidsNone
<1>4. Whole(1) = <<Mark("head")>>
  <2>1. Whole(1) = <<>> \o <<Mark("head")>>
    BY <1>1, <1>2 DEF Whole, EmptyFile
  <2> QED BY <1>3, <2>1, ConcatEmptySeq
<1>5. \A i : Holds(i) = {}
  BY <1>1, <1>3, <1>4 DEF Holds
<1>6. FilesOK
  <2>1. Exts(logs) = meta
    <3>1. Exts(logs) = [k \in {1} |-> 1]
      BY <1>2 DEF Exts
    <3>2. meta = [k \in {1} |-> 1]
      BY <1>1
    <3> QED BY <3>1, <3>2
  <2>2. Rising(meta) /\ Range(meta) = {1}
    BY <1>2 DEF Rising, Range
  <2> QED BY <1>1, <2>1, <2>2 DEF FilesOK
<1>7. RecordsOK
  <2>1. Tidy(Whole(1))
    BY <1>3, <1>4 DEF Tidy, IsCommit
  <2>2. \A e \in DOMAIN disk : Tidy(Whole(e))
    BY <1>1, <2>1
  <2>3. \A p \in DOMAIN pool : pool[p].op # "cache"
    BY <1>1, <1>3
  <2>4. Len(Whole(Current)) > 0
    BY <1>2, <1>3, <1>4
  <2> QED BY <1>1, <2>2, <2>3, <2>4 DEF RecordsOK
<1>8. OrderOK
  BY <1>1 DEF OrderOK
<1>9. TidsOK /\ ReplayOK
  BY <1>1, <1>5 DEF TidsOK, StoredUp, ReplayOK
<1>10. InfoOK
  BY <1>2, <1>3, <1>4 DEF InfoOK
<1>11. BareOK
  BY <1>1, <1>2 DEF BareOK, Closed
<1> QED BY <1>6, <1>7, <1>8, <1>9, <1>10, <1>11 DEF Rest

LEMMA FileStep ==
  ASSUME NoBadStart, FileInv, [Next]_vars
  PROVE  FileInv'
<1>0. TypeInv'
  BY TypedStep DEF FileInv
<1>1. ASSUME UNCHANGED vars PROVE Rest'
  <2>1. /\ UNCHANGED <<logs, disk, meta, pool, open, lost>>
        /\ UNCHANGED <<lock, tid, saved, have, bare, notify, mode, next>>
    BY <1>1 DEF vars, fileVars, writeVars, indexVars, runVars
  <2>2. \A e : Whole(e)' = Whole(e)
    BY <2>1 DEF Whole, Current, Last
  <2>3. Current' = Current /\ Exts(logs') = Exts(logs) /\ \A i : Holds(i)' = Holds(i) /\ Done(i)' = Done(i)
    BY <2>1, <2>2 DEF Current, Last, Holds, Done
  <2>4. FilesOK' /\ ReplayOK' /\ BareOK' /\ OrderOK'
    BY <2>1, <2>2, <2>3 DEF FileInv, Rest, FilesOK, ReplayOK, BareOK, Closed, OrderOK
  <2>7. TidsOK'
    BY <2>1, <2>3 DEF FileInv, Rest, TidsOK, StoredUp, Stored
  <2>5. RecordsOK'
    BY <2>1, <2>2, <2>3 DEF FileInv, Rest, RecordsOK, Tidy
  <2>6. InfoOK'
    BY <2>1, <2>2 DEF FileInv, Rest, InfoOK, Noting
  <2> QED BY <2>4, <2>5, <2>6, <2>7 DEF Rest
<1>2. ASSUME NEW p \in notify, NotifyUnlink(p[1], p[2]) PROVE Rest'
  <2>1. p[1] \in Index /\ p[2] \in Nat /\ p[2] <= saved[p[1]]
    BY DEF FileInv, Rest, TidsOK, TypeInv, RestTyped
  <2> QED BY <1>0, <1>2, <2>1, UnlinkStep
<1>3. ASSUME NEW i \in Index, CommitPut(i) \/ IndexFlush(i) PROVE Rest'
  BY <1>0, <1>3, PutStep, QuietFiles
<1>4. ASSUME Finish \/ Timer PROVE Rest'
  BY <1>0, <1>4, BeginStep, QuietFiles DEF Finish
<1>5. ASSUME Crash \/ Shutdown \/ Start \/ ReplayFile \/ ReplayDone PROVE Rest'
  BY <1>0, <1>5, CrashStep, ShutdownStep, StartStep, ReplayStep, BeginStep
<1> QED BY <1>0, <1>1, <1>2, <1>3, <1>4, <1>5 DEF Next, FileInv

\* What the files say without the buffer.
LEMMA AllWritten ==
  ASSUME TypeInv', \A i : Tids(pool', i) = {}
  PROVE  \A i : OnDisk(i)' = Holds(i)'
<1>1. ASSUME NEW e \in DOMAIN disk', NEW i PROVE Tids(Whole(e)', i) = Tids(disk'[e].recs, i)
  <2>1. disk'[e].recs \in Seq(Record) /\ pool' \in Seq(Record)
    BY DEF TypeInv, FilesTyped, File
  <2>2. Tids(disk'[e].recs \o pool', i) = Tids(disk'[e].recs, i) \cup Tids(pool', i)
    BY <2>1, TidsConcat
  <2>3. Whole(e)' = disk'[e].recs \o pool' \/ Whole(e)' = disk'[e].recs
    BY DEF Whole
  <2> QED BY <2>2, <2>3
<1>2. \A i : Holds(i)' = UNION {Tids(Whole(e)', i) : e \in DOMAIN disk'}
  BY DEF Holds
<1> QED BY <1>1, <1>2 DEF OnDisk

-----------------------------------------------------------------------------
(* What was acknowledged. *)

LEMMA AckQuiet ==
  ASSUME TypeInv, TypeInv', AckOK, mode = "up", mode' = "up", acked' = acked,
         \A i \in Index : have[i] \subseteq have'[i] /\ saved[i] <= saved'[i],
         \A i : OnDisk(i) \subseteq OnDisk(i)'
  PROVE  AckOK'
<1>1. \A i \in Index : saved[i] \in Nat /\ saved'[i] \in Nat /\ acked[i] \subseteq Nat
  BY BoundAssumption DEF TypeInv, RestTyped
<1>2. \A i \in Index : acked'[i] \subseteq have'[i]
  BY DEF AckOK
<1>3. ASSUME Mode = "write", NEW i \in Index, NEW n \in acked'[i] PROVE n <= saved'[i] \/ n \in OnDisk(i)'
  <2>1. n <= saved[i] \/ n \in OnDisk(i)
    BY <1>3 DEF AckOK
  <2>2. n \in Nat /\ saved[i] \in Nat /\ saved'[i] \in Nat /\ saved[i] <= saved'[i]
    BY <1>1
  <2> QED BY <2>1, <2>2
<1> QED BY <1>2, <1>3 DEF AckOK

LEMMA AckWritten ==
  ASSUME FileInv', mode' = "up", \A i : Tids(pool', i) = {}, \A i \in Index : acked'[i] \subseteq have'[i]
  PROVE  AckOK'
<1>1. TypeInv' /\ TidsOK'
  BY DEF FileInv, Rest
<1>2. \A i : OnDisk(i)' = Holds(i)'
  BY <1>1, AllWritten
<1>3. ASSUME NEW i \in Index, NEW n \in acked'[i] PROVE n <= saved'[i] \/ n \in OnDisk(i)'
  <2>1. StoredUp(i)' /\ n \in have'[i]
    BY <1>1 DEF TidsOK
  <2>2. Stored(i, n)'
    BY <2>1 DEF StoredUp
  <2> QED BY <1>2, <2>2 DEF Stored
<1> QED BY <1>3 DEF AckOK

LEMMA AckCommit ==
  ASSUME FileInv, AckOK, FileInv', (\E i \in Index : CommitPut(i) \/ IndexFlush(i)) \/ CommitEnd \/ CommitRestart
  PROVE  AckOK'
<1>0. TypeInv /\ TypeInv'
  BY DEF FileInv
<1>1. ASSUME NEW i \in Index, CommitPut(i) PROVE AckOK'
  <2>1. mode = "up" /\ UNCHANGED <<mode, disk, saved, acked>>
    BY <1>1 DEF CommitPut, runVars
  <2>2. have' = [have EXCEPT ![i] = @ \cup {tid'[i]}]
    BY <1>1 DEF CommitPut
  <2>3. \A j \in Index : have[j] \subseteq have'[j] /\ saved[j] <= saved'[j]
    BY <1>0, <2>1, <2>2, BoundAssumption DEF TypeInv, RestTyped
  <2> QED BY <1>0, <2>1, <2>3, AckQuiet DEF OnDisk
<1>2. ASSUME NEW i \in Index, IndexFlush(i) PROVE AckOK'
  <2>1. mode = "up" /\ UNCHANGED <<mode, disk, have, acked>> /\ saved' = [saved EXCEPT ![i] = tid[i]]
        /\ saved[i] < tid[i]
    BY <1>2 DEF IndexFlush, runVars, fileVars
  <2>2. \A j \in Index : have[j] \subseteq have'[j] /\ saved[j] <= saved'[j]
    BY <1>0, <2>1, BoundAssumption DEF TypeInv, RestTyped
  <2> QED BY <1>0, <2>1, <2>2, AckQuiet DEF OnDisk
<1>3. ASSUME CommitEnd \/ CommitRestart PROVE \A i \in Index : acked'[i] \subseteq have'[i]
  <2>1. mode = "up" /\ have' = have /\ acked' = [i \in Index |-> acked[i] \cup have[i]]
    BY <1>3 DEF CommitEnd, CommitRestart
  <2> QED BY <2>1 DEF AckOK
<1>4. CASE CommitEnd
  <2>1. mode = "up" /\ lock = "put" /\ mode' = "up" /\ CheckDoFlush
    BY <1>4 DEF CommitEnd, runVars
  <2>2. open
    BY <1>0, <2>1 DEF TypeInv, WriterOK
  <2>3. Mode = "write" => pool' = <<>>
    BY <1>0, <2>1, <2>2, CheckTyped
  <2>4. CASE Mode = "write"
    BY <1>3, <1>4, <2>1, <2>3, <2>4, TidsNone, AckWritten
  <2>5. CASE Mode # "write"
    BY <1>3, <1>4, <2>1, <2>5 DEF AckOK
  <2> QED BY <2>4, <2>5
<1>5. CASE CommitRestart
  <2>1. pool' = <<Mark("head")>> /\ mode' = "up"
    BY <1>5 DEF CommitRestart, OpenNewLog, runVars
  <2> QED BY <1>3, <1>5, <2>1, TidsNone, AckWritten
<1> QED BY <1>1, <1>2, <1>4, <1>5

LEMMA AckTimer ==
  ASSUME FileInv, AckOK, FileInv', Timer
  PROVE  AckOK'
<1>0. TypeInv /\ TypeInv'
  BY DEF FileInv
<1>1. mode = "up" /\ UNCHANGED <<mode, saved, have, acked, open>>
  BY DEF Timer, TimerFlush, TimerSkip, TimerSync, TimerAssign, runVars, indexVars, writeVars
<1>2. \A i \in Index : have[i] \subseteq have'[i] /\ saved[i] <= saved'[i]
  BY <1>0, <1>1, BoundAssumption DEF TypeInv, RestTyped
<1>3. \A i : OnDisk(i) \subseteq OnDisk(i)'
  <2>1. CASE TimerFlush
    <3>1. open /\ Flushed(<<>>)
      BY <1>0, <2>1 DEF TimerFlush, TypeInv, WriterOK
    <3>2. PICK c : c = Current
      OBVIOUS
    <3>3. /\ c \in DOMAIN disk /\ DOMAIN disk' = DOMAIN disk /\ disk'[c].recs = disk[c].recs \o pool
          /\ \A e \in DOMAIN disk \ {c} : disk'[e] = disk[e]
      BY <1>0, <3>1, <3>2, FlushedTyped, CurrentTyped
    <3>4. disk[c].recs \in Seq(Record) /\ pool \in Seq(Record)
      BY <1>0, <3>3, WholeTyped DEF TypeInv, FilesTyped
    <3>5. \A i : Tids(disk[c].recs, i) \subseteq Tids(disk'[c].recs, i)
      BY <3>3, <3>4, TidsConcat
    <3>6. \A e \in DOMAIN disk : \A i : Tids(disk[e].recs, i) \subseteq Tids(disk'[e].recs, i)
      BY <3>3, <3>5
    <3> QED BY ZenonT(60), <3>3, <3>6 DEF OnDisk
  <2>2. CASE TimerSkip \/ TimerAssign
    BY <2>2 DEF TimerSkip, TimerAssign, OnDisk, fileVars
  <2>3. CASE TimerSync
    <3>1. disk' = disk \/ (open /\ disk' = [disk EXCEPT ![Current] = SyncedFile(@)])
      BY <2>3 DEF TimerSync
    <3>2. DOMAIN disk' = DOMAIN disk /\ \A e \in DOMAIN disk : disk'[e].recs = disk[e].recs
      BY <1>0, <3>1, SyncIs
    <3> QED BY <3>2 DEF OnDisk
  <2> QED BY <2>1, <2>2, <2>3 DEF Timer
<1> QED BY <1>0, <1>1, <1>2, <1>3, AckQuiet

LEMMA AckNotify ==
  ASSUME FileInv, AckOK, FileInv', (\E p \in notify : NotifyUnlink(p[1], p[2])) \/ NotifyMeta
  PROVE  AckOK'
<1>0. TypeInv /\ TypeInv' /\ TidsOK
  BY DEF FileInv, Rest
<1>1. mode = "up" /\ UNCHANGED <<mode, saved, have, acked>>
  BY DEF NotifyUnlink, NotifyMeta, runVars, indexVars
<1>2. \A i \in Index : have[i] \subseteq have'[i] /\ saved[i] <= saved'[i]
  BY <1>0, <1>1, BoundAssumption DEF TypeInv, RestTyped
<1>3. ASSUME NEW p \in notify, NotifyUnlink(p[1], p[2]) PROVE AckOK'
  <2>1. p[1] \in Index /\ p[2] \in Nat /\ p[2] <= saved[p[1]]
    BY <1>0 DEF TidsOK, TypeInv, RestTyped
  <2>2. /\ \A e \in DOMAIN disk' : e \in DOMAIN disk /\ disk'[e] = disk[e]
        /\ \A e \in DOMAIN disk \ DOMAIN disk', x \in Index : \A t \in Tids(Whole(e), x) : t <= saved[x]
    BY <1>0, <1>3, <2>1, UnlinkStep
  <2>3. ASSUME Mode = "write", NEW i \in Index, NEW n \in acked'[i]
        PROVE  n <= saved'[i] \/ n \in OnDisk(i)'
    <3>1. n <= saved[i] \/ n \in OnDisk(i)
      BY <1>1, <2>3 DEF AckOK
    <3>2. ASSUME n \in OnDisk(i) PROVE n <= saved[i] \/ n \in OnDisk(i)'
      <4>1. PICK e \in DOMAIN disk : n \in Tids(disk[e].recs, i)
        BY <3>2 DEF OnDisk
      <4>2. n \in Tids(Whole(e), i)
        BY <1>0, <4>1, OnDiskIs
      <4>3. e \in DOMAIN disk' => n \in OnDisk(i)'
        BY <2>2, <4>1 DEF OnDisk
      <4> QED BY <2>2, <4>2, <4>3
    <3> QED BY <1>1, <3>1, <3>2
  <2>4. \A i \in Index : acked'[i] \subseteq have'[i]
    BY <1>1 DEF AckOK
  <2> QED BY <1>1, <2>3, <2>4 DEF AckOK
<1>4. ASSUME NotifyMeta PROVE AckOK'
  <2>1. CASE open
    BY <1>0, <1>1, <1>2, <1>4, <2>1, AckQuiet DEF NotifyMeta, OnDisk
  <2>2. CASE ~open
    <3>1. pool' = <<Mark("head")>>
      BY <1>4, <2>2 DEF NotifyMeta, OpenNewLog
    <3>2. \A i \in Index : acked'[i] \subseteq have'[i]
      BY <1>1 DEF AckOK
    <3> QED BY <1>1, <3>1, <3>2, TidsNone, AckWritten
  <2> QED BY <2>1, <2>2
<1> QED BY <1>3, <1>4

\* What is synced is left by any crash of a running searchd, and what is written by a crash of searchd.
LEMMA CrashKeeps ==
  ASSUME NoBadStart, FileInv, Crash, NEW i
  PROVE  /\ Synced(i) \subseteq Holds(i)'
         /\ \/ "process" \in CrashKind /\ acked' = acked /\ OnDisk(i) \subseteq Holds(i)'
            \/ acked' = [x \in Index |-> Safe(x)]
<1>1. DOMAIN disk' = DOMAIN disk /\ \A e : Whole(e)' = disk'[e].recs
  BY CrashLeaves, StopIs DEF Crash
<1>2. Holds(i)' = UNION {Tids(disk'[e].recs, i) : e \in DOMAIN disk}
  BY <1>1 DEF Holds
<1>3. \A e \in DOMAIN disk : Tids(SubSeq(disk[e].recs, 1, disk[e].synced), i) \subseteq Tids(disk'[e].recs, i)
  BY CrashFiles
<1>4. Synced(i) \subseteq Holds(i)'
  BY <1>2, <1>3 DEF Synced
<1>5. disk' = disk => OnDisk(i) \subseteq Holds(i)'
  BY <1>2 DEF OnDisk
<1> QED BY <1>4, <1>5, CrashLeaves

LEMMA AckRestart ==
  ASSUME NoBadStart, Kept, FileInv, AckOK, FileInv', Crash \/ Shutdown \/ Start \/ ReplayFile \/ ReplayDone
  PROVE  AckOK'
<1>0. TypeInv /\ TypeInv' /\ TidsOK /\ TidsOK' /\ FilesOK'
  BY DEF FileInv, Rest
<1>1. ASSUME NEW i \in Index
      PROVE  acked[i] \subseteq Nat \ {0} /\ tid[i] \in Nat /\ saved[i] \in Nat
  BY <1>0, BoundAssumption DEF TypeInv, RestTyped
<1>2. CASE Crash
  <2>1. mode' = "down" /\ saved' = saved /\ have' = have /\ mode \in {"up", "replay"}
    BY <1>2, StopIs DEF Crash
  <2>2. ASSUME NEW i \in Index, NEW n \in acked'[i] PROVE Stored(i, n)'
    <3>1. ASSUME n \in acked[i], n <= saved[i] PROVE n \in have[i]
      BY <2>1, <3>1 DEF AckOK, Stored
    <3>2. CASE "process" \in CrashKind /\ acked' = acked /\ OnDisk(i) \subseteq Holds(i)'
      <4>1. CASE mode = "up"
        <5>1. n <= saved[i] \/ n \in OnDisk(i)
          BY <2>2, <3>2, <4>1 DEF AckOK, Kept
        <5> QED BY <2>1, <2>2, <3>1, <3>2, <5>1 DEF Stored
      <4>2. CASE mode = "replay"
        <5>1. Stored(i, n)
          BY <2>2, <3>2, <4>2 DEF AckOK
        <5>2. ~open
          BY <1>0, <4>2 DEF TypeInv, WriterOK
        <5>3. Holds(i) = OnDisk(i)
          BY <5>2 DEF Holds, OnDisk, Whole
        <5> QED BY <2>1, <3>2, <5>1, <5>3 DEF Stored
      <4> QED BY <2>1, <4>1, <4>2
    <3>3. CASE acked' = [x \in Index |-> Safe(x)]
      <4>1. n \in acked[i] /\ (n <= saved[i] \/ n \in Synced(i))
        BY <2>2, <3>3 DEF Safe
      <4>2. Synced(i) \subseteq Holds(i)'
        BY <1>2, CrashKeeps
      <4> QED BY <2>1, <3>1, <4>1, <4>2 DEF Stored
    <3> QED BY <1>2, <3>2, <3>3, CrashKeeps
  <2> QED BY <2>1, <2>2 DEF AckOK
<1>3. CASE Shutdown
  <2>1. mode = "up" /\ mode' = "down" /\ acked' = acked /\ saved' = tid /\ have' = have
    BY <1>3, StopIs DEF Shutdown
  <2>2. ASSUME NEW i \in Index, NEW n \in acked'[i] PROVE Stored(i, n)'
    <3>1. n \in have[i] /\ have[i] \subseteq 1..tid[i]
      BY <1>0, <2>1, <2>2 DEF AckOK, TidsOK, StoredUp
    <3> QED BY <1>1, <2>1, <3>1 DEF Stored
  <2> QED BY <2>1, <2>2 DEF AckOK
<1>4. CASE Start \/ ReplayFile
  <2>1. mode \in {"replay", "down"} /\ mode' \in {"replay", "down"} /\ UNCHANGED <<saved, acked>>
    BY <1>0, <1>4 DEF Start, ReplayFile, FilesOK
  <2>2. \A i : Holds(i)' = Holds(i)
    BY <1>0, <1>4, StartStep, ReplayStep
  <2>3. \A i \in Index : {n \in have[i] : n <= saved[i]} \subseteq have'[i]
    <3>1. CASE Start
      BY <3>1 DEF Start
    <3>2. CASE ReplayFile
      <4>1. have' = have \/ have' = [i \in Index |-> Replayed(disk[logs[next].ext].recs, i)]
        BY <3>2 DEF ReplayFile
      <4> QED BY <4>1 DEF Replayed
    <3> QED BY <1>4, <3>1, <3>2
  <2>4. ASSUME NEW i \in Index, NEW n \in acked'[i] PROVE Stored(i, n)'
    <3>1. Stored(i, n)
      BY <2>1, <2>4 DEF AckOK
    <3> QED BY <2>1, <2>2, <2>3, <3>1 DEF Stored
  <2> QED BY <2>1, <2>4 DEF AckOK
<1>5. CASE ReplayDone
  <2>1. mode = "replay" /\ mode' = "up" /\ pool' = <<Mark("head")>> /\ UNCHANGED <<tid, saved, have, acked>>
    BY <1>5 DEF ReplayDone, OpenNewLog, indexVars
  <2>2. \A i : Holds(i)' = Holds(i)
    BY <1>0, <1>5, BeginStep
  <2>3. ASSUME NEW i \in Index, NEW n \in acked'[i] PROVE n \in have'[i]
    <3>1. Stored(i, n)
      BY <2>1, <2>3 DEF AckOK
    <3>2. StoredUp(i)' /\ Stored(i, n)'
      BY <1>0, <2>1, <2>2, <3>1 DEF TidsOK, Stored
    <3>3. n <= tid[i] /\ n \in Nat \ {0}
      BY <1>1, <2>1, <2>3, <3>2 DEF StoredUp, Stored
    <3>4. n \in 1..tid'[i]
      BY <1>1, <2>1, <3>3
    <3> QED BY <3>2, <3>4 DEF StoredUp
  <2> QED BY <2>1, <2>3, TidsNone, AckWritten
<1> QED BY <1>2, <1>3, <1>4, <1>5

LEMMA AckStep ==
  ASSUME NoBadStart, Kept, FileInv, AckOK, [Next]_vars
  PROVE  AckOK'
<1>1. FileInv'
  BY FileStep
<1>2. CASE UNCHANGED vars
  <2>1. UNCHANGED <<logs, disk, pool, open, mode, saved, have, acked>>
    BY <1>2 DEF vars, fileVars, writeVars, indexVars, runVars
  <2> QED BY <2>1 DEF AckOK, Stored, OnDisk, Holds, Whole, Current, Last
<1>3. CASE Next
  BY <1>1, <1>3, AckCommit, AckTimer, AckNotify, AckRestart DEF Next, Finish
<1> QED BY <1>2, <1>3

-----------------------------------------------------------------------------
(* The theorems. *)

LEMMA FilesAlways == ASSUME NoBadStart PROVE Spec => []FileInv
<1>1. Init => FileInv
  BY InitTyped, InitRest DEF FileInv
<1>2. FileInv /\ [Next]_vars => FileInv'
  BY FileStep
<1> QED BY <1>1, <1>2, PTL DEF Spec

LEMMA LogAlways == ASSUME NoBadStart, Kept PROVE Spec => [](FileInv /\ AckOK)
<1>1. Init => AckOK
  <2> SUFFICES ASSUME Init PROVE AckOK
    OBVIOUS
  <2>1. mode = "up" /\ acked = [i \in Index |-> {}]
    BY DEF Init
  <2> QED BY <2>1 DEF AckOK
<1>2. Init => FileInv /\ AckOK
  BY <1>1, InitTyped, InitRest DEF FileInv
<1>3. FileInv /\ AckOK /\ [Next]_vars => (FileInv /\ AckOK)'
  BY FileStep, AckStep
<1> QED BY <1>2, <1>3, PTL DEF Spec

\* Whatever the order of commits, notifications and crashes outside the known windows,
\* the next start finds the files that binlog.meta names, and none without its magic:
\* searchd never dies in replay (LoadMeta, ReplayBinlog).
THEOREM AlwaysStarts == ASSUME NoBadStart PROVE Spec => []Recoverable
<1>1. FileInv => Recoverable
  BY DEF FileInv, Rest, FilesOK, Recoverable
<1> QED BY <1>1, FilesAlways, PTL

\* A running searchd that misses a transaction of an index, and has a later one, has
\* lost it from a file that was left without a sync: by Fsync, which returns at once where
\* the writer stands at the position of its last sync (CheckDoRestart, DoAutoFlush), or by
\* searchd, which died.  Nothing else makes a gap: no dropped file, no order of crashes, no
\* replay (ReplayCommit skips what the index has saved, and nothing else).
THEOREM OnlyBareGaps == ASSUME NoBadStart PROVE Spec => []NoOtherGap
<1>1. FileInv => NoOtherGap
  <2> SUFFICES ASSUME FileInv, mode = "up", NEW i \in Index
               PROVE  have[i] \subseteq 1..tid[i] /\ 1..tid[i] \subseteq have[i] \cup bare[i]
    BY DEF NoOtherGap
  <2>1. StoredUp(i)
    BY DEF FileInv, Rest, TidsOK
  <2> QED BY <2>1 DEF StoredUp
<1> QED BY <1>1, FilesAlways, PTL

\* While searchd runs, the log has what its files say, with the buffer.
LEMMA LoggedIs == FileInv /\ mode = "up" => \A i : Logged(i) = Holds(i)
<1> SUFFICES ASSUME FileInv, mode = "up" PROVE \A i : Logged(i) = Holds(i)
  OBVIOUS
<1>0. TypeInv /\ FilesOK
  BY DEF FileInv, Rest
<1>1. ~lost /\ DOMAIN disk \cap Range(meta) = DOMAIN disk /\ (~open => pool = <<>>)
  BY <1>0 DEF FilesOK, TypeInv, WriterOK
<1>2. Left = DOMAIN disk
  BY <1>1 DEF Left
<1> SUFFICES ASSUME NEW i PROVE Logged(i) = Holds(i)
  OBVIOUS
<1>3. Logged(i) = OnDisk(i) \cup Tids(pool, i)
  <2>1. (IF lost THEN {} ELSE Tids(pool, i)) = Tids(pool, i) /\ Left \cap Range(meta) = DOMAIN disk
    BY <1>1, <1>2
  <2> QED BY <2>1 DEF Logged, OnDisk
<1>4. CASE ~open
  <2>1. \A e \in DOMAIN disk : Whole(e) = disk[e].recs
    BY <1>4 DEF Whole
  <2>2. Tids(pool, i) = {}
    BY <1>1, <1>4, TidsNone
  <2> QED BY <1>3, <2>1, <2>2 DEF Holds, OnDisk
<1>5. CASE open
  <2>1. PICK c : c = Current
    OBVIOUS
  <2>2. c \in DOMAIN disk
    BY <1>0, <1>5, <2>1, CurrentTyped
  <2>3. disk[c].recs \in Seq(Record) /\ pool \in Seq(Record)
    BY <1>0, <2>2, WholeTyped DEF TypeInv, FilesTyped
  <2>4. Tids(Whole(c), i) = Tids(disk[c].recs, i) \cup Tids(pool, i)
    BY <1>5, <2>1, <2>3, TidsConcat DEF Whole
  <2>5. \A e \in DOMAIN disk \ {c} : Whole(e) = disk[e].recs
    BY <2>1 DEF Whole
  <2>6. \A n : n \in Holds(i) <=> \E e \in DOMAIN disk : n \in Tids(Whole(e), i)
    BY DEF Holds
  <2>7. \A n : n \in Logged(i) <=> n \in Tids(pool, i) \/ \E e \in DOMAIN disk : n \in Tids(disk[e].recs, i)
    BY <1>3 DEF OnDisk
  <2> QED BY <2>2, <2>4, <2>5, <2>6, <2>7
<1> QED BY <1>4, <1>5

\* A transaction leaves the log of a running searchd only when its index has saved it:
\* NotifyIndexFlush drops whole files, and a file may mix transactions of all indexes.
THEOREM OnlySavedGoes == ASSUME NoBadStart PROVE Spec => OnlyFlushedGoes
<1>1. (FileInv /\ mode = "up" => \A i : Logged(i) = Holds(i))'
  BY LoggedIs, PTL
<1>2. ASSUME FileInv, Next, mode = "up", mode' = "up", NEW i \in Index, NEW n \in Logged(i) \ Logged(i)'
      PROVE  n <= saved[i]
  <2>1. FileInv' /\ TypeInv /\ TidsOK /\ TypeInv' /\ TidsOK'
    BY <1>2, FileStep DEF FileInv, Rest
  <2>2. n \in Holds(i) /\ n \notin Holds(i)'
    BY <1>1, <1>2, <2>1, LoggedIs
  <2>3. MaxTid \in Nat /\ tid[i] \in Nat /\ tid'[i] \in Nat /\ saved[i] \in Nat /\ saved'[i] \in Nat
    BY <2>1, BoundAssumption DEF TypeInv, RestTyped
  <2>4. n \in 1..tid[i] /\ StoredUp(i) /\ StoredUp(i)'
    <3>1. \A e \in DOMAIN disk : Tids(Whole(e), i) \subseteq 1..MaxTid
      BY <2>1, WholeTyped
    <3>2. StoredUp(i) /\ StoredUp(i)'
      BY <1>2, <2>1 DEF TidsOK
    <3>3. n \in 1..MaxTid /\ n <= tid[i]
      BY <2>2, <3>1, <3>2 DEF Holds, StoredUp
    <3> QED BY <2>3, <3>2, <3>3
  <2>5. ASSUME have[i] \subseteq have'[i], saved' = saved PROVE n <= saved[i]
    <3>1. n <= saved[i] \/ n \in have'[i]
      BY <2>2, <2>4, <2>5 DEF StoredUp, Stored
    <3>2. n \in have'[i] => Stored(i, n)'
      BY <2>4 DEF StoredUp
    <3> QED BY <2>2, <2>5, <3>1, <3>2 DEF Stored
  <2>6. ASSUME NEW j \in Index, CommitPut(j) PROVE n <= saved[i]
    <3>1. have' = [have EXCEPT ![j] = @ \cup {tid'[j]}] /\ saved' = saved
      BY <2>6 DEF CommitPut
    <3>2. have[i] \subseteq have'[i]
      BY <2>1, <3>1 DEF TypeInv, RestTyped
    <3> QED BY <2>5, <3>1, <3>2
  <2>7. ASSUME NEW j \in Index, IndexFlush(j) PROVE n <= saved[i]
    <3>1. UNCHANGED <<logs, disk, meta, pool, open, lost>>
      BY <2>7 DEF IndexFlush, fileVars, writeVars
    <3>2. Logged(i)' = Logged(i)
      BY <3>1 DEF Logged, Left, Current, Last
    <3> QED BY <1>2, <3>2
  <2>8. ASSUME NEW p \in notify, NotifyUnlink(p[1], p[2]) PROVE n <= saved[i]
    BY <2>3, <2>5, <2>8 DEF NotifyUnlink, indexVars
  <2>9. ASSUME Finish \/ Timer PROVE n <= saved[i]
    <3>1. UNCHANGED <<have, saved>>
      BY <2>9 DEF Finish, CommitEnd, CommitRestart, NotifyMeta, Timer, TimerFlush, TimerSkip, TimerSync,
         TimerAssign, indexVars
    <3> QED BY <2>3, <2>5, <3>1
  <2>10. ~(Crash \/ Shutdown \/ Start \/ ReplayFile \/ ReplayDone)
    BY <1>2, StopIs DEF Crash, Shutdown, Start, ReplayFile, ReplayDone
  <2> QED BY <1>2, <2>6, <2>7, <2>8, <2>9, <2>10 DEF Next
<1>3. FileInv /\ [Next]_vars => [mode = "up" /\ mode' = "up" =>
         \A i \in Index : \A n \in Logged(i) \ Logged(i)' : n <= saved[i]]_vars
  BY <1>2
<1> QED BY <1>3, FilesAlways, PTL DEF Spec, OnlyFlushedGoes

\* A running searchd has every acknowledged transaction, but for those that a crash of the
\* system found neither saved nor synced: in mode 2 however often searchd dies, in the other
\* modes however often the system does, and in mode 2 whatever the order of both.
THEOREM NothingLost == ASSUME NoBadStart, Kept PROVE Spec => []Durable
<1>1. AckOK => Durable
  BY DEF AckOK, Durable
<1> QED BY <1>1, LogAlways, PTL

\* What an index has not saved of its acknowledged transactions is in the files that a
\* start would replay, whatever the other indexes have saved and whatever crashes were.
THEOREM LoggedIfNeeded == ASSUME NoBadStart, Kept PROVE Spec => []NeededLogged
<1>1. FileInv /\ AckOK => NeededLogged
  <2> SUFFICES ASSUME FileInv, AckOK, mode = "up", NEW i \in Index, NEW n \in acked[i], n > saved[i]
               PROVE  n \in Logged(i)
    BY DEF NeededLogged
  <2>1. saved[i] \in Nat /\ n \in Nat
    BY BoundAssumption DEF FileInv, TypeInv, RestTyped
  <2>2. StoredUp(i) /\ n \in have[i]
    BY DEF FileInv, Rest, TidsOK, AckOK
  <2>3. Stored(i, n) /\ ~(n <= saved[i])
    BY <2>1, <2>2 DEF StoredUp
  <2> QED BY <2>3, LoggedIs DEF Stored
<1> QED BY <1>1, LogAlways, PTL
=============================================================================
