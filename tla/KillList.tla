------------------------------ MODULE KillList ------------------------------
(***************************************************************************)
(* The kill-list of an RT index (CSphKilllist, src/src/sphinxrt.cpp): a    *)
(* sorted vector for readers, and a small hash in front of it so that a    *)
(* commit need not sort.  Whoever is about to read flushes the hash into   *)
(* the vector first, and then reads the vector without a lock.             *)
(*                                                                         *)
(* RtIndex takes the kill-list for a set.  Here are the two parts, the     *)
(* lock, the steps of a flush, and the threads that meet in it: commits    *)
(* and dumps under the writer mutex, queries, attribute updates and RAM    *)
(* chunk saves under the read lock.                                        *)
(***************************************************************************)
EXTENDS Integers, Sequences, FiniteSets, Functions

CONSTANTS
  DocId,            \* document identifiers, ordered
  Thread,
  NoThread,
  MAX_SMALL_SIZE,   \* 512 in the code
  MaxTxn,           \* most documents a transaction kills
  Ops               \* operations the workload uses

ASSUME DocIdAssumption == DocId \subseteq Nat /\ IsFiniteSet(DocId)
ASSUME SizeAssumption == MAX_SMALL_SIZE \in Nat /\ MaxTxn \in Nat
ASSUME NoThreadAssumption == NoThread \notin Thread

VARIABLES
  large,    \* m_dLargeKlist: vector, searched by bisection
  small,    \* m_hSmallKlist: hash of the latest kills
  lock,     \* owner of m_tLock
  writer,   \* owner of RtIndex_t::m_tWriterMutex
  op,       \* what each thread does: a commit, a dump after it, a query, ...
  pc,       \* and how far it is
  acc,      \* dAccKlist of the commit under way
  pos,      \* loop counter of the count loop
  live,     \* iDiskLiveKLen: the first so many of acc go into the list
  file,     \* the .kill file
  killed    \* history: the documents the list must hold

vars == <<large, small, lock, writer, op, pc, acc, pos, live, file, killed>>
listVars == <<large, small>>
txnVars  == <<acc, pos, live>>

-----------------------------------------------------------------------------
Ascending(s) == \A i, j \in DOMAIN s : i < j => s[i] < s[j]

\* What Sort and Uniq make of a list with the elements S: the one such vector.
Sorted(S) == {s \in [1..Cardinality(S) -> S] : Ascending(s) /\ Range(s) = S}

Swapped(s, i, j) == [s EXCEPT ![i] = s[j], ![j] = s[i]]

\* sphBinarySearch: both ends first, then bisection; out of range ends it.
Search(s, d) ==
    LET try[p \in (1..Len(s)) \X (1..Len(s))] ==
          LET l == p[1]  r == p[2]  m == l + (r - l) \div 2
          IN  /\ r - l > 1 /\ s[l] <= d /\ d <= s[r]
              /\ d = s[m] \/ IF d < s[m] THEN try[<<l, m>>] ELSE try[<<m, r>>]
    IN  Len(s) > 0 /\ (s[1] = d \/ s[Len(s)] = d \/ try[<<1, Len(s)>>])

\* Exists takes no lock: while somebody flushes, it may see anything.
Exists(d) ==
    IF lock = NoThread THEN {(d \in small) \/ Search(large, d)} ELSE BOOLEAN

\* Threads that have the read lock of the index.
Reading(t) == op[t] \in {"query", "update", "save"}
NoReaders == \A t \in Thread : ~Reading(t)

Goto(t, l)  == pc' = [pc EXCEPT ![t] = l] /\ UNCHANGED op
Go(t, o, l) == pc' = [pc EXCEPT ![t] = l] /\ op' = [op EXCEPT ![t] = o]
Done(t)     == Go(t, "none", "idle")

-----------------------------------------------------------------------------
(* A commit (CommitReplayable): count what it kills, then add to the list. *)

TxnBegin(t) ==
    /\ pc[t] = "idle" /\ writer = NoThread /\ "txn" \in Ops
    /\ writer' = t
    /\ \E S \in SUBSET DocId : \E s \in Sorted(S) :
          S # {} /\ Cardinality(S) <= MaxTxn /\ acc' = s /\ live' = Len(s)
    /\ pos' = 1
    /\ Go(t, "txn", "count")
    /\ UNCHANGED <<listVars, lock, file, killed>>

\* One turn of the loop: documents that are killed already, or that no chunk
\* has, are swapped to the end.
TxnCount(t) ==
    /\ pc[t] = "count" /\ pos <= live
    /\ \E found \in Exists(acc[pos]), onDisk \in BOOLEAN :
          IF found \/ ~onDisk
          THEN /\ acc' = Swapped(acc, pos, live)
               /\ live' = live - 1
               /\ UNCHANGED pos
          ELSE /\ pos' = pos + 1
               /\ UNCHANGED <<acc, live>>
    /\ UNCHANGED <<listVars, lock, writer, op, pc, file, killed>>

\* Mutant: a full hash is reset, not appended to the vector.
Add_ResetOnly(new) ==
    IF Cardinality(small) + Len(new) < MAX_SMALL_SIZE
    THEN small' = small \cup Range(new) /\ UNCHANGED large
    ELSE large' \in Sorted(Range(large) \cup Range(new)) /\ small' = {}

\* CSphKilllist::Add.  NakedFlush does nothing when the hash is empty.
Add(new) ==
    IF new = <<>> THEN UNCHANGED listVars
    ELSE IF Cardinality(small) + Len(new) < MAX_SMALL_SIZE
    THEN small' = small \cup Range(new) /\ UNCHANGED large
    ELSE IF small = {} THEN large' = large \o new /\ UNCHANGED small
    ELSE /\ large' \in Sorted(Range(large) \cup Range(new) \cup small)
         /\ small' = {}

\* The readers are out while the list grows.
TxnAdd(t) ==
    /\ pc[t] = "count" /\ pos > live /\ NoReaders
    /\ Add(SubSeq(acc, 1, live))
    /\ killed' = killed \cup Range(SubSeq(acc, 1, live))
    /\ \/ writer' = NoThread /\ Done(t)
       \/ "dump" \in Ops /\ Go(t, "dump", "test") /\ UNCHANGED writer
    /\ acc' = <<>> /\ pos' = 0 /\ live' = 0
    /\ UNCHANGED <<lock, file>>

-----------------------------------------------------------------------------
(* Flush, in steps: in a query, in a dump, in a RAM chunk save. *)

\* CSphKilllist::Flush looks at the hash before it takes the lock.
FlushTest(t) ==
    /\ pc[t] = "test"
    /\ IF small = {} THEN Goto(t, "read") ELSE Goto(t, "lock")
    /\ UNCHANGED <<listVars, lock, writer, txnVars, file, killed>>

FlushLock(t) ==
    /\ pc[t] = "lock" /\ lock = NoThread
    /\ lock' = t
    /\ Goto(t, "append")
    /\ UNCHANGED <<listVars, writer, txnVars, file, killed>>

\* Mutant: the hash is reset before the vector is sorted.
FlushAppend_ResetFirst(t) ==
    /\ pc[t] = "append"
    /\ \E s \in Sorted(small) : large' = large \o s
    /\ small' = {}
    /\ Goto(t, "sort")
    /\ UNCHANGED <<lock, writer, txnVars, file, killed>>

\* CSphKilllist::NakedFlush, with the lock: nothing to do, or append the hash ...
FlushAppend(t) ==
    /\ pc[t] = "append"
    /\ IF small = {} THEN Goto(t, "reset") /\ UNCHANGED large
       ELSE /\ \E s \in Sorted(small) : large' = large \o s
            /\ Goto(t, "sort")
    /\ UNCHANGED <<small, lock, writer, txnVars, file, killed>>

\* Mutant: the vector is not sorted.
FlushSort_NoSort(t) ==
    /\ pc[t] = "sort"
    /\ Goto(t, "reset")
    /\ UNCHANGED <<listVars, lock, writer, txnVars, file, killed>>

\* ... sort the vector ...
FlushSort(t) ==
    /\ pc[t] = "sort"
    /\ large' \in Sorted(Range(large))
    /\ Goto(t, "reset")
    /\ UNCHANGED <<small, lock, writer, txnVars, file, killed>>

\* ... and reset the hash.  SaveToFile keeps the lock while it writes.
FlushReset(t) ==
    /\ pc[t] = "reset"
    /\ small' = {}
    /\ lock' = IF op[t] = "save" THEN t ELSE NoThread
    /\ Goto(t, "read")
    /\ UNCHANGED <<large, writer, txnVars, file, killed>>

-----------------------------------------------------------------------------
(* Those who read the vector *)

\* RtIndex_t::MultiQuery and Optimize flush and read.
QueryBegin(t) ==
    /\ pc[t] = "idle" /\ "query" \in Ops
    /\ Go(t, "query", "test")
    /\ UNCHANGED <<listVars, lock, writer, txnVars, file, killed>>

QueryEnd(t) ==
    /\ pc[t] = "read" /\ op[t] \in {"query", "update"}
    /\ Done(t)
    /\ UNCHANGED <<listVars, lock, writer, txnVars, file, killed>>

\* RtIndex_t::UpdateAttributes flushes only when iUpdated is 1.
UpdateBegin(t) ==
    /\ pc[t] = "idle" /\ "update" \in Ops
    /\ Go(t, "update", "read")
    /\ UNCHANGED <<listVars, lock, writer, txnVars, file, killed>>

\* RtIndex_t::SaveRamChunk: SaveToFile, which always takes the lock.
SaveBegin(t) ==
    /\ pc[t] = "idle" /\ "save" \in Ops
    /\ Go(t, "save", "lock")
    /\ UNCHANGED <<listVars, lock, writer, txnVars, file, killed>>

SaveWrite(t) ==
    /\ pc[t] = "read" /\ op[t] = "save"
    /\ file' = large
    /\ lock' = NoThread
    /\ Done(t)
    /\ UNCHANGED <<listVars, writer, txnVars, killed>>

\* CommitReplayable copies the vector for the new chunk, without the read lock;
\* SaveDiskChunk resets the list when the chunk is online.
DumpSwap(t) ==
    /\ pc[t] = "read" /\ op[t] = "dump" /\ NoReaders
    /\ large' = <<>> /\ small' = {}
    /\ killed' = {}
    /\ writer' = NoThread
    /\ Done(t)
    /\ UNCHANGED <<lock, txnVars, file>>

\* The process ends and starts again: LoadFromFile, if .kill was saved.
Restart ==
    /\ \A t \in Thread : pc[t] = "idle"
    /\ "save" \in Ops
    /\ large' = file /\ small' = {}
    /\ killed' = Range(file)
    /\ UNCHANGED <<lock, writer, op, pc, txnVars, file>>

-----------------------------------------------------------------------------
Init ==
    /\ large = <<>> /\ small = {}
    /\ lock = NoThread /\ writer = NoThread
    /\ op = [t \in Thread |-> "none"] /\ pc = [t \in Thread |-> "idle"]
    /\ acc = <<>> /\ pos = 0 /\ live = 0
    /\ file = <<>> /\ killed = {}

Flush(t) == \/ FlushTest(t) \/ FlushLock(t) \/ FlushAppend(t)
            \/ FlushSort(t) \/ FlushReset(t)

Next == \/ Restart
        \/ \E t \in Thread :
              \/ TxnBegin(t) \/ TxnCount(t) \/ TxnAdd(t)
              \/ QueryBegin(t) \/ QueryEnd(t) \/ UpdateBegin(t)
              \/ SaveBegin(t) \/ SaveWrite(t) \/ DumpSwap(t) \/ Flush(t)

Spec == Init /\ [][Next]_vars

-----------------------------------------------------------------------------
(* Properties *)

Vector(s) == s \in Seq(DocId)

\* The type invariant.
TypeOK ==
    /\ Vector(large) /\ small \subseteq DocId /\ Vector(acc)
    /\ lock \in Thread \cup {NoThread} /\ writer \in Thread \cup {NoThread}
    /\ pos \in Nat /\ live \in 0..Len(acc) /\ killed \subseteq DocId
    /\ Vector(file)
    /\ op \in [Thread -> {"none", "txn", "dump", "query", "update", "save"}]
    /\ pc \in [Thread -> {"idle", "count", "test", "lock", "append", "sort", "reset", "read"}]

\* Those who flush before they read; RtIndex_t::UpdateAttributes does not.
Looks(t) == pc[t] = "read" /\ op[t] # "update"

\* A reader that has flushed finds the vector finished, although it reads it
\* without a lock and although its look at the hash was without one: nobody is
\* in the middle of sorting it ("assuming they have sorted data", MultiQuery).
SortedWhenRead ==
    \A t \in Thread : Looks(t) =>
       small = {} /\ Ascending(large) /\ \A u \in Thread \ {t} : pc[u] # "sort"

\* A killed document stays hidden: bisection finds it in what a query reads, and in
\* what goes to disk, as the kill-list of a chunk or in .kill, even if commits or
\* readers flush beside the writer.
KilledStayHidden ==
    \A t \in Thread, d \in killed : Looks(t) => Search(large, d)

\* The list is made of documents, forgets none and invents none, wherever a flush
\* has got to.
HoldsTheKilled == TypeOK /\ Range(large) \cup small = killed
=============================================================================
