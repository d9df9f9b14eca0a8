------------------------------- MODULE Binlog -------------------------------
(***************************************************************************)
(* The binary log of the real-time indexes: RtBinlog_c and BinlogWriter_c  *)
(* of src/src/sphinxrt.cpp.                                                *)
(*                                                                         *)
(* All indexes append to one log of several files.  A file goes when every *)
(* index has saved what the file has of it; binlog.meta names the files    *)
(* that are left, and a start replays them.  Commits and notifications     *)
(* take one mutex; the thread that writes and syncs once a second does     *)
(* part of its work without it.                                            *)
(*                                                                         *)
(* A position counts records: every record has the same size.  A record is *)
(* assumed to fit into the writer's buffer of 256 KB.                      *)
(***************************************************************************)
EXTENDS Integers, Sequences, FiniteSets, Functions

CONSTANTS
  Index,        \* names of the indexes
  Mode,         \* binlog_flush: "none" (0), "fsync" (1), "write" (2)
  RestartSize,  \* binlog_max_log_size in records, 0 for no limit
  CrashKind,    \* kinds of crashes considered: "process", "os"
  Torn,         \* what an OS crash may make of a record: "torn_head", "torn_body"
  EmptyLog,     \* is a start on a last file without a record considered?
  UnlinkWindow, \* is a crash between unlinking and saving binlog.meta considered?
  MaxTid,       \* bound: transactions of an index
  MaxCrashes,   \* bound: crashes
  MaxFlushes    \* bound: times an index is saved

ASSUME ModeAssumption == Mode \in {"none", "fsync", "write"}
ASSUME TornAssumption == Torn \subseteq {"torn_head", "torn_body"}
ASSUME BoundAssumption ==
    RestartSize \in Nat /\ MaxTid \in Nat /\ MaxCrashes \in Nat /\ MaxFlushes \in Nat

VARIABLES
  logs,      \* m_dLogFiles: number and index infos of every file, oldest first
  disk,      \* the files: records the OS has, and how many of them are synced
  meta,      \* binlog.meta: numbers of the files
  pool,      \* records in the writer's buffer
  open,      \* has the writer a file? (m_iFD)
  lost,      \* has the open file been unlinked?
  lastWrite, \* m_iLastWritePos
  lastSync,  \* m_iLastFsyncPos
  lock,      \* what the owner of m_tWriteLock does: "free", "put", "unlinked"
  timer,     \* program point of DoAutoFlush
  tid,       \* m_iTID of every index, in memory
  saved,     \* the TID in the .meta file of every index
  notify,    \* calls of NotifyIndexFlush to come: index and TID
  mode,      \* "up", "replay", "down" or "dead" (sphDie)
  next,      \* file to replay next
  have,      \* history: the transactions that every index holds
  acked,     \* history: the acknowledged transactions of every index, without
             \* those that a crash of the system was free to take
  bare,      \* history: the transactions that Flush has left unsynced, and those
             \* that a searchd that died has
  crashes, flushes

fileVars  == <<logs, disk, meta>>
writeVars == <<pool, open, lost, lastWrite, lastSync>>
indexVars == <<tid, saved, have, acked, bare>>
runVars   == <<mode, next, crashes>>
vars == <<fileVars, writeVars, lock, timer, indexVars, notify, runVars, flushes>>

-----------------------------------------------------------------------------
(* Records and files *)

Record == [op : {"add", "commit"}, index : Index, tid : 1..MaxTid] \cup
          [op : {"head", "cache", "torn_head", "torn_body"}, index : {"none"}, tid : {0}]
Mark(op) == [op |-> op, index |-> "none", tid |-> 0]

Highest(S) == IF S = {} THEN 0 ELSE CHOOSE n \in S : \A m \in S : m <= n
Exts(l)   == [k \in DOMAIN l |-> l[k].ext]
Last      == logs[Len(logs)]
Current   == Last.ext
NoInfo    == [i \in {} |-> [max |-> 0, flushed |-> 0]]
EmptyFile == [recs |-> <<>>, synced |-> 0]

\* GetPos, after the records r went into the buffer.
Pos(r) == Len(disk[Current].recs) + Len(pool) + Len(r)

HasUnwrittenData == Len(pool) > 0
HasUnsyncedData  == lastSync # lastWrite

\* The current file when the buffer, with r behind it, has been written.
Written(r) == [disk[Current] EXCEPT !.recs = @ \o pool \o r]

\* Mutant: what is in the buffer counts as synced.
SyncedFile_Position(f) == [f EXCEPT !.synced = Len(f.recs) + Len(pool)]

SyncedFile(f) == [f EXCEPT !.synced = Len(f.recs)]

\* Transactions of index i in the records r.
Tids(r, i) == {r[k].tid : k \in {j \in DOMAIN r : r[j].op = "commit" /\ r[j].index = i}}

\* Those of a file which only the OS has.
Unsynced(f, i) == Tids(f.recs, i) \ Tids(SubSeq(f.recs, 1, f.synced), i)

\* BinlogWriter_c::Flush, when r is put and then all is written and synced.
\* Fsync does nothing if the writer stands where it was last synced, be it in
\* this file or in an earlier one: OpenFile leaves both positions.
WritePos(r) == IF HasUnwrittenData \/ r # <<>> THEN Pos(r) ELSE lastWrite
MustSync(r) == lastSync # WritePos(r)
FlushedFile(r) == IF MustSync(r) THEN SyncedFile(Written(r)) ELSE Written(r)
FlushedPos(r) ==
    /\ lastWrite' = WritePos(r)
    /\ lastSync' = IF MustSync(r) THEN Pos(r) ELSE lastSync
    /\ bare' = IF MustSync(r) THEN bare
               ELSE [i \in Index |-> bare[i] \cup Unsynced(Written(r), i)]
Flushed(r) == disk' = [disk EXCEPT ![Current] = FlushedFile(r)] /\ FlushedPos(r)

\* OpenNewLog: the file number is the next one, or the last one again.  The
\* positions of the writer stay, the header waits in the buffer.
NewExt(l, reuse) == IF l = <<>> THEN 1 ELSE l[Len(l)].ext + (IF reuse THEN 0 ELSE 1)
OpenNewLog(l, d, reuse) ==
    LET e == NewExt(l, reuse)
    IN  /\ logs' = Append(l, [ext |-> e, info |-> NoInfo])
        /\ disk' = [x \in DOMAIN d \cup {e} |-> IF x = e THEN EmptyFile ELSE d[x]]
        /\ meta' = Exts(logs')
        /\ pool' = <<Mark("head")>>
        /\ open' = TRUE /\ lost' = FALSE

-----------------------------------------------------------------------------
(* BinlogCommit, BinlogUpdateAttributes *)

\* Take the lock and a TID, and put the record, after one that introduces the
\* index if the file does not know it (GetWriteIndexID).
CommitPut(i) ==
    /\ mode = "up" /\ lock = "free" /\ tid[i] < MaxTid
    /\ lock' = "put"
    /\ tid' = [tid EXCEPT ![i] = @ + 1]
    /\ have' = [have EXCEPT ![i] = @ \cup {tid'[i]}]
    /\ bare' = [bare EXCEPT ![i] = @ \ {tid'[i]}]
    /\ LET new == i \notin DOMAIN Last.info
           rec == [op |-> "commit", index |-> i, tid |-> tid'[i]]
       IN  /\ logs' = [logs EXCEPT ![Len(logs)].info =
                         [x \in DOMAIN @ \cup {i} |->
                            IF x # i THEN @[x]
                            ELSE [max |-> tid'[i], flushed |-> IF new THEN 0 ELSE @[i].flushed]]]
           /\ pool' = pool \o (IF new THEN <<[rec EXCEPT !.op = "add"], rec>> ELSE <<rec>>)
    /\ UNCHANGED <<disk, meta, open, lost, lastWrite, lastSync, timer, saved, acked, notify,
                   runVars, flushes>>

\* Mutant: mode 2 leaves the records in the buffer.
CheckDoFlush_NoWrite == UNCHANGED <<disk, pool, lastWrite, lastSync, bare>>

\* CheckDoFlush.  Mode 1 looks for unsynced data before anything is written.
CheckDoFlush ==
    CASE Mode = "write" /\ HasUnwrittenData ->
           /\ disk' = [disk EXCEPT ![Current] = Written(<<>>)]
           /\ lastWrite' = Pos(<<>>)
           /\ pool' = <<>>
           /\ UNCHANGED <<lastSync, bare>>
      [] Mode = "fsync" /\ HasUnsyncedData -> Flushed(<<>>) /\ pool' = <<>>
      [] OTHER -> UNCHANGED <<disk, pool, lastWrite, lastSync, bare>>

\* CheckDoFlush, and unlock; the log is not too long.
CommitEnd ==
    /\ lock = "put" /\ mode = "up"
    /\ RestartSize = 0 \/ Pos(<<>>) <= RestartSize
    /\ CheckDoFlush
    /\ lock' = "free"
    /\ acked' = [i \in Index |-> acked[i] \cup have[i]]
    /\ UNCHANGED <<logs, meta, open, lost, timer, tid, saved, have, notify, runVars, flushes>>

\* Mutant: the log is left without writing the buffer.
CommitRestart_NoFlush ==
    /\ lock = "put" /\ mode = "up"
    /\ RestartSize > 0 /\ Pos(<<>>) > RestartSize
    /\ OpenNewLog(logs, disk, FALSE)
    /\ lock' = "free"
    /\ acked' = [i \in Index |-> acked[i] \cup have[i]]
    /\ UNCHANGED <<lastWrite, lastSync, timer, tid, saved, have, bare, notify, runVars, flushes>>

\* The same with CheckDoRestart: put the cache record, close the file (CloseFile
\* calls Flush), open the next one.  Mode 1 has nothing unsynced before it.
CommitRestart ==
    /\ lock = "put" /\ mode = "up"
    /\ RestartSize > 0 /\ Pos(<<>>) > RestartSize
    /\ OpenNewLog(logs, [disk EXCEPT ![Current] = FlushedFile(<<Mark("cache")>>)], FALSE)
    /\ FlushedPos(<<Mark("cache")>>)
    /\ lock' = "free"
    /\ acked' = [i \in Index |-> acked[i] \cup have[i]]
    /\ UNCHANGED <<timer, tid, saved, have, notify, runVars, flushes>>

-----------------------------------------------------------------------------
(* NotifyIndexFlush *)

\* An index saves its RAM chunk and .meta and will then notify (RtIndex).
IndexFlush(i) ==
    /\ mode = "up" /\ lock # "put" /\ flushes < MaxFlushes /\ saved[i] < tid[i]
    /\ saved' = [saved EXCEPT ![i] = tid[i]]
    /\ notify' = notify \cup {<<i, tid[i]>>}
    /\ flushes' = flushes + 1
    /\ UNCHANGED <<fileVars, writeVars, lock, timer, tid, have, acked, bare, runVars>>

\* The index infos when index i has been saved up to n.
Noted(i, n) ==
    [k \in DOMAIN logs |->
       [logs[k] EXCEPT !.info =
          [x \in DOMAIN @ |-> IF x = i /\ @[x].flushed < n
                              THEN [@[x] EXCEPT !.flushed = n] ELSE @[x]]]]

\* What is left of the files: those with the places S, in their order.
InOrder(S) ==
    {h \in [1..Cardinality(S) -> S] :
        Range(h) = S /\ \A j, k \in DOMAIN h : j < k => h[j] < h[k]}

\* Mutant: a file with nothing of the index that was saved may go.
Used_OneIndex(f, i) == i \in DOMAIN f.info /\ f.info[i].flushed < f.info[i].max

\* Has the file anything that its index has not saved?
Used(f, i) == \E x \in DOMAIN f.info : f.info[x].flushed < f.info[x].max

\* Unlink the files not used any more.  The current file is closed first.
NotifyUnlink(i, n) ==
    /\ mode = "up" /\ lock = "free" /\ <<i, n>> \in notify
    /\ notify' = notify \ {<<i, n>>}
    /\ LET l    == Noted(i, n)
           used == {k \in DOMAIN l : Used(l[k], i)}
           gone == {l[k].ext : k \in DOMAIN l \ used}
           shut == Len(l) \notin used
       IN  /\ \E h \in InOrder(used) : logs' = [k \in DOMAIN h |-> l[h[k]]]
           /\ disk' = Restrict(disk, DOMAIN disk \ (IF shut THEN gone ELSE gone \ {Current}))
           /\ lost' = (~shut /\ (lost \/ Current \in gone))
           /\ open' = ~shut
           /\ pool' = IF shut THEN <<>> ELSE pool
           /\ lastWrite' = IF shut /\ HasUnwrittenData THEN Pos(<<>>) ELSE lastWrite
           /\ lastSync' = IF shut /\ (HasUnwrittenData \/ HasUnsyncedData)
                          THEN Pos(<<>>) ELSE lastSync
           /\ lock' = IF gone = {} THEN "free" ELSE "unlinked"
    /\ UNCHANGED <<meta, timer, indexVars, runVars, flushes>>

\* Mutant: binlog.meta stays as it is.
NotifyMeta_NotSaved ==
    /\ mode = "up" /\ lock = "unlinked" /\ open
    /\ lock' = "free"
    /\ UNCHANGED <<fileVars, writeVars, timer, indexVars, notify, runVars, flushes>>

\* Then a new log, if the current one went, or just binlog.meta.
NotifyMeta ==
    /\ mode = "up" /\ lock = "unlinked"
    /\ IF open THEN meta' = Exts(logs) /\ UNCHANGED <<logs, disk, pool, open, lost>>
       ELSE OpenNewLog(logs, disk, FALSE)
    /\ lock' = "free"
    /\ UNCHANGED <<lastWrite, lastSync, timer, indexVars, notify, runVars, flushes>>

-----------------------------------------------------------------------------
(* DoAutoFlush: the timer thread, which mode 1 does not have *)

\* Mutant: only what is written is synced.
TimerFlush_SyncOnly ==
    /\ mode = "up" /\ Mode # "fsync" /\ timer = "test"
    /\ timer' = "sync"
    /\ UNCHANGED <<fileVars, writeVars, lock, indexVars, notify, runVars, flushes>>

\* Under the lock: write and sync.
TimerFlush ==
    /\ mode = "up" /\ Mode # "fsync" /\ timer = "test"
    /\ Mode = "none" \/ HasUnwrittenData
    /\ lock = "free"
    /\ Flushed(<<>>)
    /\ pool' = <<>>
    /\ timer' = "sync"
    /\ UNCHANGED <<logs, meta, open, lost, lock, tid, saved, have, acked, notify, runVars, flushes>>

TimerSkip ==
    /\ mode = "up" /\ Mode = "write" /\ timer = "test" /\ ~HasUnwrittenData
    /\ timer' = "sync"
    /\ UNCHANGED <<fileVars, writeVars, lock, indexVars, notify, runVars, flushes>>

\* Without the lock: sync what the OS has by now ...
TimerSync ==
    /\ mode = "up" /\ timer = "sync"
    /\ IF HasUnsyncedData
       THEN /\ disk' = IF open THEN [disk EXCEPT ![Current] = SyncedFile(@)] ELSE disk
            /\ timer' = "assign"
       ELSE UNCHANGED disk /\ timer' = "test"
    /\ UNCHANGED <<logs, meta, writeVars, lock, indexVars, notify, runVars, flushes>>

\* ... and note the position that the writer has reached meanwhile.
TimerAssign ==
    /\ mode = "up" /\ timer = "assign"
    /\ lastSync' = IF open THEN Pos(<<>>) ELSE lastWrite
    /\ timer' = "test"
    /\ UNCHANGED <<fileVars, pool, open, lost, lastWrite, lock, indexVars, notify, runVars, flushes>>

-----------------------------------------------------------------------------
(* The end of a process, and replay *)

\* What a crash of the system leaves of a file: at least what was synced, and
\* maybe a part of the next record.
Cut(f) ==
    {[recs |-> SubSeq(f.recs, 1, n), synced |-> n] : n \in f.synced..Len(f.recs)} \cup
    {[recs |-> Append(SubSeq(f.recs, 1, n), Mark(op)), synced |-> n + 1] :
        n \in f.synced..(Len(f.recs) - 1), op \in Torn}

\* The files that a start will find: an unlinked one is gone.
Left == DOMAIN disk \ (IF lost THEN {Current} ELSE {})

\* What is synced in the log, and what a crash of the system cannot take.
Synced(i) == UNION {Tids(SubSeq(disk[e].recs, 1, disk[e].synced), i) : e \in DOMAIN disk}
Safe(i)   == {n \in acked[i] : n <= saved[i] \/ n \in Synced(i)}

Stop ==
    /\ mode' = "down" /\ crashes' = crashes + 1
    /\ logs' = <<>> /\ pool' = <<>> /\ open' = FALSE /\ lost' = FALSE
    /\ lastWrite' = 0 /\ lastSync' = 0
    /\ lock' = "free" /\ timer' = "test" /\ next' = 1
    /\ notify' = {}
    /\ UNCHANGED <<have, flushes>>

\* searchd dies: no start syncs what it has left to the OS.
ProcessCrash ==
    /\ "process" \in CrashKind
    /\ disk' = Restrict(disk, Left)
    /\ bare' = [i \in Index |-> bare[i] \cup UNION {Unsynced(disk[e], i) : e \in Left}]
    /\ UNCHANGED acked

\* The whole system dies: every file that is not synced may be cut.
Exposed == {e \in Left : disk[e].synced < Len(disk[e].recs)}
SystemCrash ==
    /\ "os" \in CrashKind
    /\ \E c \in [Exposed -> UNION {Cut(disk[e]) : e \in Exposed}] :
          /\ \A e \in Exposed : c[e] \in Cut(disk[e])
          /\ disk' = [e \in Left |-> IF e \in Exposed THEN c[e] ELSE disk[e]]
    /\ acked' = [i \in Index |-> Safe(i)]
    /\ UNCHANGED bare

Crash ==
    /\ mode \in {"up", "replay"} /\ crashes < MaxCrashes
    /\ lock = "unlinked" => UnlinkWindow
    /\ ProcessCrash \/ SystemCrash
    /\ (~EmptyLog /\ lock # "unlinked" /\ logs # <<>> /\ Current \in DOMAIN disk')
          => disk'[Current].recs # <<>>
    /\ Stop
    /\ UNCHANGED <<meta, tid, saved>>

\* A clean end: every index saves all it has and notifies, so no file is left.
Shutdown ==
    /\ mode = "up" /\ lock = "free" /\ crashes < MaxCrashes
    /\ saved' = tid
    /\ disk' = Restrict(disk, {}) /\ meta' = <<>>
    /\ Stop
    /\ UNCHANGED <<tid, acked, bare>>

\* LoadMeta, and every index loads what it has saved.
Start ==
    /\ mode = "down"
    /\ mode' = "replay"
    /\ logs' = [k \in DOMAIN meta |-> [ext |-> meta[k], info |-> NoInfo]]
    /\ tid' = saved
    /\ have' = [i \in Index |-> {n \in have[i] : n <= saved[i]}]
    /\ UNCHANGED <<disk, meta, writeVars, lock, timer, saved, acked, bare, notify, next, crashes,
                   flushes>>

\* What index i holds when it has replayed r: it skips what it has already.
Replayed(r, i) == have[i] \cup {n \in Tids(r, i) : n > tid[i]}

\* ReplayBinlog: a file that is not there, or a record without its magic, ends
\* the server; a record with a bad checksum ends the replay of the file.
ReplayFile ==
    /\ mode = "replay" /\ next <= Len(logs)
    /\ LET e == logs[next].ext
           r == disk[e].recs
           known == {x.index : x \in {y \in Range(r) : y.op = "add"}}
       IN  IF e \notin DOMAIN disk \/ Mark("torn_head") \in Range(r)
           THEN mode' = "dead" /\ UNCHANGED <<logs, tid, have, next>>
           ELSE /\ logs' = [logs EXCEPT ![next].info =
                              [i \in known |-> [max |-> Highest(Tids(r, i)), flushed |-> tid[i]]]]
                /\ have' = [i \in Index |-> Replayed(r, i)]
                /\ tid' = [i \in Index |-> Highest(Tids(r, i) \cup {tid[i]})]
                /\ next' = next + 1
                /\ UNCHANGED mode
    /\ UNCHANGED <<disk, meta, writeVars, lock, timer, saved, acked, bare, notify, crashes, flushes>>

\* OpenNewLog; a last file without any transaction is used again.
ReplayDone ==
    /\ mode = "replay" /\ next > Len(logs)
    /\ mode' = "up"
    /\ OpenNewLog(logs, disk, logs # <<>> /\ disk[Current].recs \in {<<>>, <<Mark("head"), Mark("cache")>>})
    /\ UNCHANGED <<lastWrite, lastSync, lock, timer, indexVars, notify, next, crashes, flushes>>

-----------------------------------------------------------------------------
Init ==
    /\ logs = <<[ext |-> 1, info |-> NoInfo]>>
    /\ disk = [e \in {1} |-> EmptyFile] /\ meta = <<1>>
    /\ pool = <<Mark("head")>> /\ open = TRUE /\ lost = FALSE
    /\ lastWrite = 0 /\ lastSync = 0
    /\ lock = "free" /\ timer = "test"
    /\ tid = [i \in Index |-> 0] /\ saved = [i \in Index |-> 0]
    /\ have = [i \in Index |-> {}] /\ acked = [i \in Index |-> {}] /\ bare = [i \in Index |-> {}]
    /\ notify = {}
    /\ mode = "up" /\ next = 1 /\ crashes = 0 /\ flushes = 0

Timer  == TimerFlush \/ TimerSkip \/ TimerSync \/ TimerAssign
Finish == CommitEnd \/ CommitRestart \/ NotifyMeta

Next ==
    \/ \E i \in Index : CommitPut(i) \/ IndexFlush(i)
    \/ \E p \in notify : NotifyUnlink(p[1], p[2])
    \/ Finish \/ Timer
    \/ Crash \/ Shutdown \/ Start \/ ReplayFile \/ ReplayDone

Spec == Init /\ [][Next]_vars

\* The timer thread keeps running, and whoever has the lock goes on.
FairSpec == Spec /\ WF_vars(Timer) /\ WF_vars(Finish)

-----------------------------------------------------------------------------
(* Properties *)

\* The type invariant.
TypeOK ==
    /\ \A k \in DOMAIN logs :
          /\ logs[k].ext \in Nat \ {0} /\ DOMAIN logs[k].info \subseteq Index
          /\ \A i \in DOMAIN logs[k].info : logs[k].info[i] \in [max : Nat, flushed : Nat]
    /\ \A e \in DOMAIN disk : /\ disk[e].recs \in Seq(Record)
                              /\ disk[e].synced \in 0..Len(disk[e].recs)
    /\ meta \in Seq(Nat \ {0}) /\ pool \in Seq(Record)
    /\ open \in BOOLEAN /\ lost \in BOOLEAN
    /\ lastWrite \in Nat /\ lastSync \in Nat
    /\ lock \in {"free", "put", "unlinked"} /\ timer \in {"test", "sync", "assign"}
    /\ tid \in [Index -> 0..MaxTid] /\ saved \in [Index -> 0..MaxTid]
    /\ {have, acked, bare} \subseteq [Index -> SUBSET (1..MaxTid)]
    /\ notify \subseteq Index \X Nat
    /\ mode \in {"up", "replay", "down", "dead"} /\ next \in Nat
    /\ crashes \in 0..MaxCrashes /\ flushes \in 0..MaxFlushes

\* Transactions of index i that a start would find, if all is written out.
Logged(i) == (UNION {Tids(disk[e].recs, i) : e \in Left \cap Range(meta)})
             \cup (IF lost THEN {} ELSE Tids(pool, i))

\* A transaction that was acknowledged is there after any number of crashes of
\* searchd, and after a crash of the system if it was synced: each has been saved
\* by its index, or is in a file that will be replayed.
Durable == mode = "up" => \A i \in Index : acked[i] \subseteq have[i]

\* The files that are left have all that an index has not saved, whatever the
\* other indexes save and in whatever files their transactions are mixed.
NeededLogged ==
    mode = "up" => \A i \in Index : {n \in acked[i] : n > saved[i]} \subseteq Logged(i)

\* What an index sees of it (NotifyIndexFlush in RtIndex): a running server drops
\* no transaction that the index has not saved.
OnlyFlushedGoes ==
    [][mode = "up" /\ mode' = "up" =>
         \A i \in Index : \A n \in Logged(i) \ Logged(i)' : n <= saved[i]]_vars

\* After crashes an index may miss a transaction and have a later one, from a later
\* file, only if the file of the first was left without a sync: because Fsync passed
\* it over (CheckDoRestart, DoAutoFlush), or because searchd died before.
NoOtherGap ==
    mode = "up" => \A i \in Index : /\ have[i] \subseteq 1..tid[i]
                                    /\ 1..tid[i] \subseteq have[i] \cup bare[i]

\* No order of crashes keeps the server from starting.
Recoverable == mode # "dead"

\* What is in the log gets written and synced, unless it is not needed any more,
\* Fsync passes it over or searchd dies before; whatever commits, log restarts,
\* saves and the flush thread do.
EventuallySynced ==
    \A i \in Index, n \in 1..MaxTid :
       (n \in Logged(i)) ~> \/ n \in Synced(i) \/ n <= saved[i]
                            \/ n \in bare[i] \/ mode # "up"

\* What the documentation says of modes 0 and 2: synced "every second".  It fails
\* with the constants of Binlog_sync.cfg, as Fsync passes transactions over.
SyncedEverySecond ==
    \A i \in Index, n \in 1..MaxTid :
       (n \in Logged(i)) ~> (n \in Synced(i) \/ n <= saved[i] \/ mode # "up")
=============================================================================
