# Verification project for csft5 (Sphinx 2.x with Chinese segmentation)

The program is `searchd`, a full-text search server, and the tools around it.
This project models the parts of it that change state under concurrency, face
failing peers or must survive crashes: the **real-time (RT) index** of
`src/src/sphinxrt.cpp` with its kill-list, files and binary log, the
transactions that feed it, the **served indexes** of `src/src/searchd.cpp` with
rotation, **distributed search**, and the **match streamers** of
`src/src/sphinxsearch.cpp`, which compute a query chunk by chunk.

* `RtIndex` (the index) implements `DocStore` (what it promises); `KillList` and
  `Binlog` are the two parts inside it; `RtAccum` (transactions) implements
  `TxnStore`; `ServedIndex` is the hash of indexes and the rotation thread;
  `Agents` with `AgentPool` is one distributed search; `ExtRanker` over `ExtNode` is
  one query over one index.
* `MC*` modules and `.cfg` files instantiate them for TLC; the modules `X_y` with a
  lower-case `y` hold the proofs about `X`.
* `PROJECT.json` lists the runs, the source lines of every definition, the
  mutants that show that each property can fail, and the hazards.

To repeat a check: `tlc -config RtIndex_race.cfg MCRtIndex.tla`; to repeat
proofs: `tlapm RtIndex_durable.tla` (its modules build on each other: `RtIndex_types`,
`_queries`, `_durable`; each is checked by itself).

## 1. Inventory

| Component | State it keeps | Operations | Hard part | Status |
|---|---|---|---|---|
| RT index `RtIndex_t` | RAM segments, disk chunks, kill-lists, TIDs, statistics, four locks, files `.meta .ram .kill` and chunk files | `Commit`/`CommitReplayable`, `SaveDiskChunk`, `ForceDiskChunk`, `ForceRamFlush`, `UpdateAttributes`, `MultiQuery`, `Truncate`, `Optimize`, `SaveAttributes`, `Prealloc`, destructor; `AttachDiskIndex`, `AddRemoveAttribute` | interleaving, crash windows | modelled but for the last two |
| Kill-list `CSphKilllist` | sorted vector, small hash, a mutex | `Add`, `Flush`, `NakedFlush`, `Exists`, `SaveToFile`, `LoadFromFile`, `Reset` | reads without the lock | modelled |
| Binary log `RtBinlog_c`, `BinlogWriter_c`, over `CSphWriter` | log files, `binlog.meta`, write buffer, write and sync positions, per-file index infos | `BinlogCommit`, `BinlogUpdateAttributes`, `NotifyIndexFlush`, `CheckDoRestart`, `CheckDoFlush`, `DoAutoFlush`, `LoadMeta`, `Replay` | three durability modes, a timer thread that works partly without the lock, crashes | modelled but for reconfiguration and time stamps |
| Accumulator `RtAccum_t` and session transactions | rows, hits, hit counts, kills, the index of the open transaction, per thread | BEGIN, INSERT, REPLACE, DELETE, COMMIT, ROLLBACK, autocommit, end of session | cleanup of duplicates; others change the index in between | modelled |
| Served indexes and rotation | `CSphIndexHash`, per-index rwlock, marks, rotation list, files `.new .old` | `RotateIndexMT`, `RotationThreadFunc`, `ReloadIndexSettings`, `CheckDelete`, start-up, search, ATTACH | replacement under readers, roll-back, deadlock, crashes | modelled for `workers = threads`, `seamless_rotate = 1` |
| Distributed search | agents with state, socket, retries; work queue; pool of persistent connections | `RunSubset`, `ThdWorkPool_t`, `RemoteConnectToAgent`, `RemoteQueryAgents`, `RemoteWaitForAgents`, `InitPersistentPool` | time-outs, retries, threads that share states without a lock | modelled but for mirrors and statistics |
| Query engine | a tree of streamers (`ExtTerm_c`, `ExtAnd_c`, `ExtOr_c`, `ExtAndNot_c`, `ExtNWay_c`, ...), each with chunks of documents and hits of its own; the ranker's block | `GetDocsChunk`, `GetHitsChunk`, `HintDocid`, `Reset`, `GetFilteredDocs`, `GetMatches`; `MatchExtended`, `MultiQuery` | chunks that end anywhere, hits that must be asked for before the next documents, time limits | words, AND, OR, NOT, phrases and the ranker's loop; not the other operators, ranking, sorting |
| Locks (`CSphMutex`, `CSphRwlock`, `CSphAutoEvent`) | owners | lock, unlock, wait | order | by their meaning |
| searchd maintenance | flush thread, optimize queue | `RtFlushThreadFunc`, `OptimizeThreadFunc`, `SaveIndexes`, `Shutdown` | which lock each statement takes | the locks, not the timers |
| Plugins and UDFs | libraries and reference counts | load, unload, use | unload while used | not modelled |
| Disk index, indexer | files | build, merge | sequential, formats | not modelled: a chunk is a function and a kill-list |
| Network loop, parser, tokenizers, snippets, configuration, tools, client APIs, MySQL engine | none that survives a call | | pure computation or I/O | not modelled |

**How they interact.** A session fills an accumulator and commits it. The index
takes `m_tWriterMutex` and `m_tSaveInnerMutex`, has the binlog give the
transaction a number (TID) and log it, merges RAM segments while queries go on,
and lets the readers out (`m_tRwlock`) to put the result in place. When the RAM
limit is exceeded it takes `m_tSaveOuterMutex` and dumps the segments to a disk
chunk. Sessions and background threads flush, optimize, truncate and update the
same index; `searchd` guards it with its own rwlock, which everything but
TRUNCATE (and ATTACH, ALTER) shares. A save tells the binlog up to which TID the
index is safe (`NotifyIndexFlush`); the binlog unlinks files nobody needs. At a
start, the index loads what it has saved and the binlog replays the rest.
An index is found in a hash under a lock and then locked itself; `indexer` puts new
files beside it and sends SIGHUP, whereupon the rotation thread loads them and
replaces the index. A search of a distributed index hands its agents to a pool of
threads, which connect and send, and itself waits for the replies. A search of a local
index builds a tree of streamers and pulls matches out of it, through the ranker, into
the sorters.

**What must hold.** One live version of every document; a request takes effect
once and as a whole; a query sees one state; counters agree with content; no
deadlock; after a crash, nothing acknowledged is lost, nothing comes back, and
the server starts. Of a transaction, that its commit makes what its statements
said; of rotation, that a search keeps the index it has got, and that enabled
indexes serve whole files; of distributed search, that it ends, and that every
agent has answered once or is reported; of a query, that the documents and hits it finds do
not depend on how they are cut into chunks. The hazards in `PROJECT.json` name the lines where each of
these could go wrong.

## 2. Modules

### RtIndex

One index with `Thread` sessions and background threads. A step is what a thread
does between two points where another thread, or a crash, makes a difference.

| State | Code |
|---|---|
| `segs`, `dbuf` | `m_dSegments` by tag; those of the double buffer (`m_iDoubleBuffer`) that is being saved |
| `klist`, `dklist`, `nklist` | `m_tKlist`, `m_dDiskChunkKlist`, `m_dNewSegmentKlist` |
| `chunks`, `base` | `m_dDiskChunks`, oldest first, and `m_iDiskBase` |
| `tid`, `savedTid`, `total` | `m_iTID`, `m_iSavedTID`, `m_tStats.m_iTotalDocuments` |
| `writer`, `inner`, `outer`, `readers`, `excl` | owners of `m_tWriterMutex`, `m_tSaveInnerMutex`, `m_tSaveOuterMutex`, `m_tRwlock` |
| `files` | `.meta`, `.ram`, `.ram.new`, `.kill` and the chunk files |
| `log` | what the binlog still has of this index; `NotifyIndexFlush` may drop any part up to the TID it is given, which is what `Binlog` is shown to do |
| `mode`, `pc`, `loc` | the process, program points, local variables |
| `store` | history: the documents the transactions make, in the order of their TIDs |

| Actions | Code |
|---|---|
| `CommitBegin` ... `CommitDump` | `Commit` (phase 0) and `CommitReplayable`: lock, log, mark segments for the merger, merge by size, count what is killed, go live, dump |
| `SaveWrite` ... `SaveEnd` | `SaveDiskChunk`, from a commit or from `ForceDiskChunk` |
| `FlushBegin` ... `FlushEnd` | `ForceRamFlush`, `SaveRamChunk`, `CSphKilllist::SaveToFile`; with `ShutdownBegin`, `ShutdownFails`, `ShutdownEnd` the destructor, which takes no lock |
| `UpdateBegin`, `UpdateLock`, `UpdateApply`, `UpdateLog`, `SaveAttributes` | `UpdateAttributes` (read lock only), `SaveAttributes` |
| `QueryBegin` ... `QueryEnd` | `MultiQuery`: chunks, then segments |
| `TruncBegin` ... `TruncMem` | `Truncate` |
| `OptBegin` ... `OptLeaveFiles` | `Optimize`: merge of the two oldest chunks, renames, swap, the next round, and every way to give up |
| `Crash`, `Restart`, `ReplayCommit`, `ReplayUpdateAttributes`, `ReplayDone` | loss of memory, `Prealloc` and `LoadRamChunk`, `ReplayCommit` and `ReplayUpdateAttributes` of the binlog |

`Begin` has searchd's lock on the served index: TRUNCATE takes it for writing
(`searchd.cpp` 16518), the other statements and the two background threads for
reading, COMMIT not at all; a clean shutdown waits for the sessions.

Abstractions: a document is an identifier with one of a few versions instead of
text and attributes; the RAM limit may be exceeded at any commit that can run
into it; the order of segments does not matter, their size is the number of rows
(ties are broken either way); the kill-list is a set (`KillList` has its
inside). Renames and unlinks are durable at once and atomic; a file that is
created by several writes may be found half done where that matters (`.kill`).

### DocStore

What a client may rely on: every document has one version, a request has a start
and takes effect once, as a whole, later. `RtIndex` implements it
(`RefinesDocStore`) with `docs` what a query would find, and `pending` the
request of every thread until its point of effect: the end of `CommitReplayable`
(`c_live`) or of `Truncate`, or the write of an UPDATE. Merges, dumps, saves and
chunk merges map to stuttering.

### KillList

`CSphKilllist` step by step: `Flush` looks at the hash without the lock, appends,
sorts, resets; `Add` skips the hash when it would overflow; readers then use the
vector with no lock at all. `op[t]` is what a thread is in (a commit, the dump after it, a query, an update,
a RAM save), `pc[t]` how far it is; the steps of a flush are the same for all. Threads run commits and dumps under the writer mutex,
and queries, updates and RAM saves beside them under the read lock. `Exists`
during a flush may answer anything, for it reads what another thread is changing.

### Binlog

All indexes, one log. `logs` is `m_dLogFiles` with the TIDs every file has of
every index, `disk` the files with the number of records that are synced, `pool`
the writer's buffer, `lastWrite` and `lastSync` the writer's positions. Commits
put a record (`CommitPut`), then end or restart the log; notifications unlink
files and then write `binlog.meta` (two steps, a crash may come between them); the
timer thread writes and syncs under the lock and then syncs once more without
it. `MustSync` is the test of `Fsync`: it compares two positions of the writer, which
`OpenFile` leaves as they are, so that a file that ends where another one was synced is closed without a sync.
A crash of searchd loses the buffer, a crash of the system also what was not
synced, in any of the files, and may cut a record, in its first bytes or later (`Torn`). No start syncs what
the process before it has left. `Start`, `ReplayFile`, `ReplayDone` are `LoadMeta` and `Replay`.

Three history variables: `have`, what an index holds; `acked`, what was acknowledged, without what a crash of the
system was free to take (neither saved nor synced); `bare`, what was left without a sync when `Fsync` passed its file
over or searchd died.

`Binlog!OnlyFlushedGoes` is what `RtIndex!NotifyIndexFlush` relies on, and
`Binlog!NeededLogged` with `Durable` is why `RtIndex` may take `log` for stable.

### RtAccum and TxnStore

`acc[s]` is the session's `RtAccum_t`: rows, one array of all hits in document
order, the number of hits per document, kills, the index. `AddDocument` and
the DELETE part do what one row and one statement do; `CleanupDuplicates` (the rows
that stay are `LastRows`, the hits `LastHits`) and `Segment` are what a COMMIT makes of them. A statement with several rows takes several
steps, with the served-index lock (`stmt[s]`). `Dump`, `Alter`, `Drop` are what others do
to the index meanwhile. A text is a member of a set with the sequence of its hits; a
hit is a word and a document, so that a hit of the wrong document shows.

`TxnStore` is what a client may rely on: `docs`, and per session the index of its
transaction and what it wants there. `RtAccum` implements it (`RefinesTxnStore`): `Docs` is what
is stored without its place, `Pending` the index of the accumulator and the history variable `want`,
what its statements said.
`RtIndex!CommitBegin` goes on where `RtAccum!Commit` ends, with rows and kills.

### ServedIndex

| State | Code |
|---|---|
| `served`, `ent`, `hr`/`hw`, `rd`/`wr` | keys and entries of `g_pLocalIndexes`, owners of the hash lock and of the entries' rwlocks |
| `files[i]` | the version every file of the index belongs to, under its current name, `.new`, `.old` |
| `conf`, `changed`, `hup`, `count`, `queue`, `prereading`, `dodelete` | the config file, `g_bGotSighup`, `g_iRotateCount`, `g_dRotateQueue`, `g_sPrereading`, `g_bDoDelete` |
| `pc`, `ask`, `todo`, `keep`, `got`, `args`, `loaded`, `ext` | where each thread is, and its locals |

| Actions | Code |
|---|---|
| `HeadStep`, `Delete*` | the main loop, `CheckDelete` with `IndexHash_c::Delete` |
| `Rotate*`, `Reload*`, `Scan*` | `CheckRotate`, `ReloadIndexSettings`, `RotateIndexMT`'s scan for `.new` files |
| `Rot*` | `RotationThreadFunc` and `RotateIndexMT`: load, lock, rename file by file, swap, roll back |
| `Search*`, `Check*`, `Run*` | which indexes are enabled, `RunLocalSearches` over all of them, release |
| `Update*`, `Attach*` | an update with the exclusive lock, ATTACH with two |
| `Build`, `EditConf`, `Crash` | `indexer` and its SIGHUP, the administrator, a kill with the next start-up |

The locks have owners and waiters: what deadlocks in the code deadlocks here.

### Agents and AgentPool

The session is `main.pc` (`RunSubset`), the threads of `ThdWorkPool_t` are `worker[w]`,
`agent[a]` is an `AgentConn_t`, `queue`, `works`, `ready`, `event` are the pool's. A worker
connects (`Connect`), waits for epoll (`Query*`), sends, notices a reply; with one thread it
has one work about all agents (`"sequental"`), with more there is one per agent, which
goes back to the queue for a retry (`Connected`, `NextRetry`, `RunWait`). The session reads the number of works
and of agents done, waits for replies (`Scan`, `PollTimeout`, `Reply*`), fails who is
late and merges (`CloseTimedOut`), and again. A peer's answer, its refusal or a time limit
that passes is a choice at the step that sees it.

`AgentPool` is `g_dPersistentConnections`: counts and sockets of all hosts in one
vector, rented and returned, with another query as a competitor (`Other*`) and
`InitPersistentPool` of a reload. A reload does not close every connection of the pool (`ResetCloses`):
those that it drops and leaves open are in the history variable `leaked`, so that `PoolClean` can say of every
other open descriptor whose it is.

### ExtNode and ExtRanker

A query is a sequence of nodes (a word, an operator with two children, a phrase over
its and-node) and a text is the sequence of a document's words. `ExtNode` has one
operator per handler of a node class, which takes the state of the tree (`tree`: the members of every node) and
returns it changed, with the chunk: `TermDocs`/`TermHits`, `AndDocs`/`AndHits`, and so
on; `GetDocs`, `GetHits`, `HintDocid` and `Reset` are the virtual functions. The nodes call each other
recursively, as the code does, so no theorem is about them. A pointer into a chunk is what is left of the
chunk; a loop that skips in two lists at once is where it stops (`Meet`).
A handler that asks a child in the middle of its loop is cut there: a record `x` holds
its local variables (what is left of both chunks, the output), and each operator
(`AndMove`, `AndTurn`, `OrRest1`, `ScanMore`...) is the part of the loop up to the next request.

`ExtRanker` is the loop above the tree: `GetFilteredDocs`, `GetFreshHits`, `Rank`, `RankAll`
and `Flush` are the parts of `ExtRanker_T::GetMatches`, `Return`, `NextSegment` and
`Finish` those of `MatchExtended` and `MultiQuery`. The reference it is held against (`Holds`, `WantedHits`)
looks at a whole text at once. A check of the timer (`max_query_time`; `max_predicted_time` and an
interrupt end a list in the same way) is the `deadline`-th and all later ones that a word makes.

Left out: fields, weights and TF/IDF, docinfo; the skip of documents by field limits; several sorters.

## 3. Runs

Every property has a mutant: an alternative of a mapped definition with a
plausible bug, by which TLC finds the property violated under the same `.cfg`.

| Run | Instance | Shows |
|---|---|---|
| `RtIndex_data` | 1 thread, 2 documents, 2 versions, 3 transactions or updates | whatever is merged, dumped, saved, optimized and truncated in whatever order: one live copy (`AtMostOneAlive`), the merger meets no duplicates (`NoDupesToMerge`), the counter is right (`TotalMatchesVisible`), `DocStore` is implemented, `TypeOK` |
| `RtIndex_race` | 2 threads, 1 document, 2 versions, 3 transactions | two operations at once: `Locking`, a query finds one state (`SnapshotRead`, `SnapshotStable`), a chunk goes online complete (`SavedChunkComplete`), `.meta` names the chunks that are online (`MetaNamesChunks`), `DocStore` is implemented |
| `RtIndex_recover` | 1 thread, 1 document, 3 transactions or updates, 2 crashes | the index always starts (`Restartable`) and has all its transactions and updates (`Durable`), also after a crash during replay |
| `RtIndex_live` | 2 threads, 3 transactions, fairness | a commit that waits gets its turn and ends (`CommitEnds`) |
| `KillList_threads` | 3 threads, 3 documents, hash of 3 | readers find a sorted, complete vector (`SortedWhenRead`, `KilledStayHidden`), and so does the disk; nothing is forgotten (`HoldsTheKilled`) |
| `Binlog_crash` | 2 indexes, mode 2, files of 4 records, 2 transactions and 2 saves each way, 2 crashes of either kind in any order | nothing promised is lost (`Durable`, `NeededLogged`), no file goes too early (`OnlyFlushedGoes`), the server starts (`Recoverable`) |
| `Binlog_sync` | 1 index, mode 0, files of 3 records, 5 transactions, 2 saves, 2 crashes of either kind, fairness | what is logged gets synced unless `Fsync` passes it over (`EventuallySynced`); only what was left without a sync can be missing before a transaction that is there (`NoOtherGap`) |
| `RtAccum` | 1 session, 2 indexes, 2 documents, transactions of 3 rows | a commit makes what its statements say (`RefinesTxnStore`); hits stay with their rows through every cut (`HitsFollowRows`) |
| `ServedIndex_rotate` | a plain and an RT index, 1 session, 2 builds, faults at every step, 1 crash, fairness | enabled indexes serve whole files of one build (`ServesItsFiles`), searchd can start at any point (`StartsAgain`), a search that waits gets its index (`SearchGetsIndex`) |
| `ServedIndex_threads` | the same, 2 sessions over both indexes, no faults | no freed entry is touched (`EntryAlive`), a search keeps its index (`SearchStable`), and only Delete and ATTACH deadlock |
| `Agents` | 2 agents on 1 host, pool of 2, 1 retry, 1 or 2 worker threads, fairness | every agent is merged once or reported (`AgentsAccounted`), connections are neither shared nor pooled half read, and none is lost but by a reload (`PoolClean`), the query ends (`QueryEnds`) |
| `ExtRanker` | 15 queries of up to 3 words, 3 or 4 documents of up to 6 words, chunks of 2, one disk chunk or two RAM segments, filters, kill-lists, cutoffs, time limits | the sorters get the matches, each once, in order (`MatchesExact`), the ranking function all hits of each (`HitsExact`) |

**Bounds.** `MaxTid` 3 lets one transaction be in an old chunk, one in a newer
chunk and one in RAM, which is what kills travel through; `MAX_SEGMENTS` 3 and
`MAX_PROGRESSION` 1 (32 and 8 in the code) make merging start with the second
segment and forced dumps possible. `Tag` is a bound: five identities suffice for
three kept segments and the ones a commit makes. Two documents are needed where
one transaction must touch one and leave the other (`RtIndex_data`); in the runs
about interleaving and crashes one document is enough, since documents
interact only through the size of segments. Two crashes let a second one
hit the replay of the first. In `Binlog_crash` a file of four records (header,
cache or index entries, transactions) restarts within the bounds, so that a log
has several files and a file both indexes. `Binlog_sync` has one index and five transactions, which make three
files: a transaction of the second can be cut by a crash of the system, and one of the third be left.

In `RtAccum` three rows are the fewest where a duplicate is cut out of the middle,
which moves the offsets of the next cut; texts have no hit, one, or two. One
session is enough since sessions share nothing but the committed documents, which a
commit writes in one step. In `ServedIndex_rotate` an index has two files, so that a
rotation can fail between them; two builds let a second `.new` come while the first
is being loaded. Two sessions and two entries are the fewest that can wait in a circle. In
`Agents` two agents with one host and a pool of two make slots run out
when the other query rents one; four descriptors let both queries
connect afresh. One retry is the fewest after which a retry is refused.

In `ExtRanker` chunks hold two documents and two hits (511 and 511 in the code) and a block of the skip
list two documents (128), so that lists of four documents end inside, at the end of and
beyond a chunk, and a document has up to three times as many hits as a chunk.

Symmetry: documents and versions are interchangeable, threads are where none
replays; no run with a liveness property uses symmetry.

**What runs leave out on purpose**, because the code fails there and the failure
has its own counterexample (section 5):

* `RtIndex_*`: `CrashAt <- OtherPoints` keeps crashes out of four windows between
  file operations (`SaveWindow`, `KillWindow`, `TruncateWindow`, `OptimizeWindow`
  in `MCRtIndex`); updates run beside nothing else in `RtIndex_data`; the flush is alone in
  `RtIndex_recover`,
  which updates documents in RAM only, and only when one crash is still to come (`LateOps`).
* `KillList_threads`: transactions are smaller than the hash.
* `Binlog_crash`, `Binlog_sync`: no start on a last log without a record (`EmptyLog`), no crash between unlinking
  files and saving `binlog.meta` (`UnlinkWindow`), no record that lost its first bytes (`Torn`).
* `RtAccum`: one row at most in the transaction after a ROLLBACK
  (`MaxAfterRollback`), no DELETE of rows of the same transaction (`DeleteOwn`), no
  repeated hits, no ALTER or removal of the index while rows wait for it (`AlterInTxn`,
  `DropInTxn`).
* `ServedIndex_*`: `indexer` does not replace `.new` files that searchd is
  rotating (`IndexerWindow`); in `_rotate` crashes come at two points of the renames only,
  the others being the same for the start.
* `ExtRanker`: no time limit where a word is excluded, and no AND NOT below an OR (there
  the hits of a document may include those of the branch that does not match, depending
  on the chunks).
* `Agents`: a worker is not held up between deciding to wait and waiting
  (`LateWait`) nor between the look at a state and its change (`LateMark`); a reply
  that has begun comes to its end (`LateBody`); the config is reloaded between
  queries only (`ReloadBusy`); `dAgents` does not grow (`ReserveLimit`).

**Deadlock** is checked in the RtIndex safety runs, KillList, RtAccum, ExtRanker and Agents (the last two
end in a state that repeats). It is not in `RtIndex_live` (the workload ends after
`MaxTid` transactions), nor in the Binlog and ServedIndex runs: bounded transactions,
builds and crashes end the behaviour, and ServedIndex has two real deadlocks, which
`OnlyDeleteAndAttachDeadlock` singles out.

**Fairness.** `RtIndex!FairSpec`: weak fairness of `Step(t)`; the scheduler runs
every thread that can run. New requests are not fair. There are no queries in
that run: the rwlock may prefer readers, and a commit can then starve, as in the
code. `Binlog!FairSpec`: weak fairness of the timer thread, which searchd wakes
for ever, and of whoever owns the mutex; commits, saves and crashes need not come. `ServedIndex!FairSpec`: weak fairness of
every thread, and strong fairness of a reader that waits for an entry, since glibc's
default rwlock lets waiting readers in when a writer leaves; nothing of the kind for writers.
`Agents!FairSpec`: weak fairness of the session and of *some* worker, which is less
than the scheduler gives. Spurious wake-ups of the condition variable may happen at any time and
never have to.

## 4. Proofs

TLC checks the instances above; the following hold for every value of the
constants, under the named assumptions of the modules. For `RtIndex`: there is a thread
(`ThreadAssumption`), documents are finitely many, `NoRow` is no version,
`NoThread` no thread, bounds are naturals. Nothing is assumed of `Ops`, `CrashAt`,
`IoFaults`, `Tag`, the merge limits but by the hypotheses below: a theorem without them covers
crashes and failures at every point, those in the four windows included. For `ServedIndex`: `NoThread` is no
thread, `NoIndex` no index, the main loop and the rotation thread are two threads.
For `KillList`: documents are finitely many naturals, `NoThread` is no thread. For `Binlog`: the mode is
one of the three, the size limit and the bounds are naturals; indexes, kinds of crashes and file sizes are any.
For `RtAccum`: `Hits` gives every text a sequence of words, statements are sequences of documents with texts or
sets of documents, the special values are no texts and no contents, the bounds are naturals.
For `Agents`: there is an agent, a host and a slot, every agent has a host, descriptors are naturals, those of other things
are among them. Which agents are persistent or blackholes, what `dist_threads` and the retry counts are, and whether a
thread is held up before a retry (`LateWait`) is free.

These hypotheses are about the workload, and each of them stands because the code
fails without it or because a theorem says less than what happens then:

* `OneRun == CrashAt = {} /\ "shutdown" \notin Ops`: searchd runs. What it shows then has to do with what
  was logged and saved before: that is `AcknowledgedSurvive`, whose hypothesis is another.
* `Careful`, of `AcknowledgedSurvive` only, says of each thing after which the code loses or resurrects documents that it does not
  happen. TLC finds `Durable` violated without any one of these parts:
  * no `update` and no `optimize` in `Ops`: OPTIMIZE writes the newest TID to `.meta` and saves no RAM segments, and a
    flush after an UPDATE of a disk chunk lets the binlog drop it (`Finding_optimize_tid`, with its other constants for the second);
  * `OneFlusher`: any number of threads without FLUSH RTINDEX, or one thread that also flushes (a shutdown, which saves in the
    same way, may come with any number). Beside a commit a flush saves a TID that is not in the segments yet (`Finding_flush_commit`);
  * `"shutdown" \notin IoFaults`: a shutdown that could not write `.ram` still writes `.meta` with the newest TID
    (`RtIndex_recover` with `"shutdown"` added to `IoFaults`);
  * `~DumpOnDelete`: no commit without rows exceeds the limit (`Finding_dump_nothing`);
  * `CrashAt \cap HalfWritten = {}`: no crash at `s_inner`, `s_swap` (`.meta` names the saved chunk, `.ram` has its rows too),
    `f_killed` (`.kill` is empty), `t_notify`, `t_ram` (`.meta` names no chunk, `.ram` is there): `Finding_save_window` with one
    of them in `CrashAt`, with `MaxTid = 3` for `f_killed` and `"truncate"` in `Ops` for the last two. A crash at any other
    point is covered: within a commit, a dump before and after those two, a flush, a shutdown, TRUNCATE once
    `.ram` is gone, and the replay of what an earlier crash left.
* `NoFlush == "flush" \notin Ops`, of `MetaIsRight` only: a FLUSH RTINDEX has the read lock only and writes `.meta` beside
  a save, with the number of chunks it saw before (`Finding_flush_commit`, other constants).
* `OneFlusher == "flush" \notin Ops \/ \A t, u \in Thread : t = u`, of `StartsAlways` only: two flushes write and rename
  the same `.ram.new`; the second rename fails, which ends the server (the same configuration).
* `"o_new" \notin CrashAt` of `RtIndex`, of `StartsAlways` only: no crash between OPTIMIZE's two renames. Then the chunk that
  `.meta` names second has no file (`Finding_save_window` with this point, `optimize` in `Ops`, and `Restartable`).
* `NoUpdates == "update" \notin Ops`: an UPDATE has the read lock only and writes rows that
  queries, dumps and merges are reading; what it writes is lost or found in part (`Finding_merge_update`).
* `SmallTransactions == MaxTxn < MAX_SMALL_SIZE`: larger ones leave the vector unsorted
  (`Finding_klist_large_txn`).
* `NoBadStart == ~EmptyLog /\ ~UnlinkWindow /\ "torn_head" \notin Torn`: the next start dies after
  a crash between the unlinks and the save of `binlog.meta`, or on a record without its first
  bytes, and may list a last file without a record twice (`Finding_binlog_unlink_window`). What is
  left are all crashes, of searchd and of the system, in any number and order: during replay, and while searchd
  runs and the current file keeps a record. Mode 1 writes nothing before a file is closed (`Finding_binlog_fsync`),
  so that the theorems say little about crashes there.
* `Kept == Mode = "write" \/ "process" \notin CrashKind`: in the modes 0 and 1 acknowledged
  transactions wait in searchd's own buffer, and a crash of searchd takes them. Mode 0 promises no more
  than that; mode 1 does (`Finding_binlog_fsync`).
* `~IndexerWindow`: `indexer` does not replace `.new` files between their load and their renames. `indexer`
  and searchd share no lock; with it a rotation serves one build and puts another under its name.
* `"new" \notin CrashAt`: no crash between two renames of the `.new` files. After one, a part of the files is new
  and the rest old, and the index does not start (as `StartsAgain` says itself, of the moment); the code has no
  journal for this.
* `~AlterInTxn`: no ALTER between the rows of a transaction and its commit. `Commit` reads the rows with the row
  size the index has by then (`RowsFitSchema`), and what it stores is no text.
* `NoRepeats`: no text has a hit twice in a row. `AddDocument` keeps one of the two and counts both; in the code
  this takes a tokenizer that yields the same word twice for one position.
* `MaxAfterRollback <= 1`: a transaction after a ROLLBACK adds at most one row before the next commit. `RollBack`
  leaves `m_dPerDocHitsCount`, and with two rows `CleanupDuplicates` uses the counts of rows that are gone
  (`Finding_accum_rollback`).
* `~DeleteOwn`: no DELETE of a document that the same transaction inserted. The kill does not reach
  the transaction's own rows (`Finding_accum_delete`).
* `NoDelays == ~LateMark /\ ~LateBody`, two in one: no worker is held up between its look at a `QUERYED` agent and
  `PREREPLY`, while the session gets the whole reply (the state is written without a lock, and the agent would be done
  and answering again: `PoolClean` fails in `Agents.cfg` with `LateMark = TRUE`); and no reply stops in the middle until the time is up (`Finding_agents_silent`).
* `QuietPool == N <= ReserveLimit /\ ~ReloadBusy /\ (Hosts = 1 \/ PoolSize = 1)`: `dAgents` is not copied while it
  has rented connections (`Finding_agents_grow`), the config is not reloaded meanwhile, and the reset of the pool,
  which closes the elements whose number `persistent_connections_limit` does not divide, meets no count (`Finding_agents_closes`).

| Theorem | Statement | Argument |
|---|---|---|
| `LocksExclude` (`RtIndex_types`) | `Spec => []Locking` | `LockInv == ControlOK /\ Locking` is inductive. `ControlOK` ties the operation of a thread to its program point, without which the read lock of a flush and of a shutdown (which takes none) cannot be told apart. One lemma per operation. |
| `TypesKept` (`RtIndex_types`) | `Spec => []TypeOK` | Types alone are not inductive: a commit picks up segments it noted before (`KeptSegments`), a chunk merge indexes chunks 1 and 2 after waiting for locks (`TwoChunks`), `dbuf` must stay within `segs` (`DoubleBufferSaved`), and each of these needs that those who could disturb it are locked out (`LockInv`, `OpsExclude`, `StoppedIdle`). `TypeInv` is their conjunction; TLC has checked it as an invariant too. |
| `SnapshotsStable` (`RtIndex_queries`) | `Spec => SnapshotStable` | While a reader holds the lock, no step but an UPDATE changes `Visible`. The steps that write segments, chunks or the kill-list are found one by one to need the write lock, to leave rows and k-lists as they are (`CommitMark` sets flags only), or to run in replay, when nobody reads (`ReplayAlone`). |
| `NeverTwiceAlive` (`RtIndex_queries`) | `OneRun => (Spec => []AtMostOneAlive)` | See below. |
| `NothingMergedTwice` (`RtIndex_queries`) | `OneRun => (Spec => []NoDupesToMerge)` | `CommitOK` of `AliveInv`. |
| `TotalIsRight` (`RtIndex_queries`) | `OneRun => (Spec => []TotalMatchesVisible)` | `Counted` of `AliveInv`; what a commit has counted as dead (`loc.dead`) is the number of documents it is about to kill that a query would find. |
| `ChunksComplete` (`RtIndex_queries`) | `OneRun, NoUpdates => (Spec => []SavedChunkComplete)` | `SaveValues`: the rows written are those of the segments, which nobody changes while the saver has its mutexes. |
| `QueriesSeeAll` (`RtIndex_queries`) | `OneRun, NoUpdates => (Spec => []SnapshotRead)` | `QueryValues`: what was found so far, and what the rest would add to it, is what the index showed. |
| `ImplementsDocStore` (`RtIndex_queries`) | `OneRun, NoUpdates => (Spec => RefinesDocStore)` | Initial states map to initial states, and `StepRefines`: one lemma per operation that its step is a step of `DocStore` or a stutter, from `CommitValues` (a commit's segments have the newest rows of what stays) and `MergeValues`. |
| `MetaIsRight` (`RtIndex_durable`) | `NoFlush => (Spec => []MetaNamesChunks)` | `StartInv`. See below. |
| `StartsAlways` (`RtIndex_durable`) | `OneFlusher, "o_new" \notin CrashAt => (Spec => []Restartable)` | `StartInv`. See below. |
| `AcknowledgedSurvive` (`RtIndex_durable`) | `Careful => (Spec => []Durable)` | `DurInv`: `StartInv`, `AliveInv`, `ValueInv` and `KeepInv`, over crashes, starts and replays. See below. |
| `ListHoldsKilled` (`KillList_sorted`) | `Spec => []HoldsTheKilled` | `HoldInv`: vector and hash hold what is killed; whoever is between append and reset has the lock (`LockInv`), so that a hash that is about to be reset is in the vector already. |
| `ReadsAreSorted` (`KillList_sorted`) | `SmallTransactions => (Spec => []SortedWhenRead)` | `SortInv`: with the hash empty and nobody flushing, the vector is sorted; who reads has seen that, and whoever still is in a flush finds nothing to do. |
| `KilledAreFound` (`KillList_sorted`) | `SmallTransactions => (Spec => []KilledStayHidden)` | The two above, and the lemma `SearchFinds`: bisection finds `d` in a sorted vector if and only if it is there. It is proved without induction on the function: the pair of bounds that is narrowest is enough. |
| `LogTyped` (`Binlog_durable`) | `Spec => []TypeOK` | `TypeInv` adds when the writer has a file (`WriterOK`). It holds in every mode and for all crashes, those included after which searchd does not start. |
| `AlwaysStarts` (`Binlog_durable`) | `NoBadStart => (Spec => []Recoverable)` | `FilesOK` of `FileInv`. |
| `OnlyBareGaps` (`Binlog_durable`) | `NoBadStart => (Spec => []NoOtherGap)` | `BareOK`, `TidsOK` and `ReplayOK` of `FileInv`. See below. |
| `OnlySavedGoes` (`Binlog_durable`) | `NoBadStart => (Spec => OnlyFlushedGoes)` | Before and after a step every transaction that an index has not saved is in a file (`TidsOK`), and only the save itself changes what is saved. |
| `NothingLost`, `LoggedIfNeeded` (`Binlog_durable`) | `NoBadStart, Kept => (Spec => []Durable)`, `[]NeededLogged` | `FileInv /\ AckOK`. See below. |
| `EntriesAlive` (`ServedIndex_proofs`) | `Spec => []EntryAlive` | Holding an entry outlives the hash lock, so the invariant (`EntryInv`) has to say why Delete cannot free it: whoever waits for an entry still reads the hash (`WaitersRead`), Delete writes the hash (`HashLock`) and waits for the entry, and no lock of an entry outside the hash has an owner (`OwnersServed`). |
| `SearchesStable` (`ServedIndex_proofs`) | RT indexes stay in the config `=> (Spec => []SearchStable)` | `StableInv` on top of `EntryInv`: between look-up and release a session has a read lock on every index it got (`Phases`), the rotation thread has the write lock from its first rename on (`RotatorOwns`), and the steps that change an entry have that lock, or it has no reader. `ReloadRt` loads a new RT index without a lock; hence the hypothesis (`RtStays`). |
| `NoOtherDeadlock` (`ServedIndex_proofs`) | `Spec => []OnlyDeleteAndAttachDeadlock` | `HoldInv` says of each lock at which program points its owner can be. So who has an entry's write lock waits for nothing unless it is in ATTACH (`WritersRun`), readers of an entry wait for writers only, and readers of the hash for entries: a circle of waiting threads needs ATTACH, or Delete with the hash locked. |
| `ServedTyped` (`ServedIndex_proofs`) | `Spec => []TypeOK` | `TypeInv` adds at which program points a thread's `ask` and `args` name indexes (`Names`). |
| `ServesOwnFiles` (`ServedIndex_proofs`) | `~IndexerWindow => (Spec => []ServesItsFiles)` | See below. |
| `AlwaysStartsAgain` (`ServedIndex_proofs`) | `~IndexerWindow, "new" \notin CrashAt => (Spec => []StartsAgain)` | `WholeSets` on top of `FilesInv`: outside the renames of `.new` files each set of `.new` files is of one build or absent, and if it is absent the current files are of one. |
| `TxnTyped` (`RtAccum_rows`) | `~AlterInTxn => (Spec => []TypeOK)` | `TypeInv` adds that the rows have the row size of their index (`Fit`) and that a transaction with rows has an index. |
| `HitsStayWithRows` (`RtAccum_rows`) | `NoRepeats, MaxAfterRollback <= 1 => (Spec => []HitsFollowRows)` | `HitsInv`: the hits of a transaction are those of its rows, one block after the other as the counts have it (`Blocks`); after a ROLLBACK, when the counts are too many, there is one row or none. |
| `CommitsWhatIsSaid` (`RtAccum_rows`) | these and `~DeleteOwn, ~AlterInTxn => (Spec => RefinesTxnStore)` | See below. |
| `AgentsTyped` (`Agents_accounted`) | `QuietPool, NoDelays => (Spec => []TypeOK)` | `WorksInv`: a work is in the queue or with one thread, no two have an agent in common, and `works` is the number of them (`WorksCounted`, by the least agent of each), so that it is bounded and 0 means that none is left. |
| `ConnectionsApart` (`Agents_accounted`) | the same `=> (Spec => []PoolClean)` | `PoolInv` and `SocketsOK` of `Inv`. See below. |
| `EveryoneAccounted` (`Agents_accounted`) | the same `=> (Spec => []AgentsAccounted)` | `AgentsOK`, `ThreadsOK` and `MainOK` of `Inv`. See below. |

**Why the index shows each document once.** `OneCopy` (one alive row in RAM, one in the chunks, and
if there are both, the kill-list has it) is not inductive: a commit looks up what it
kills (`c_count`), merges, and changes flags and kill-lists several steps later, while a dump
replaces segments by a chunk, a save resets the kill-list, OPTIMIZE replaces two chunks by one and
TRUNCATE empties all. `AliveInv` says what each of them may rely on at each program point:
`CommitOK` (the segments that stay, with the new ones, show each document that remains once,
and `loc.live` has what is to be killed on disk), `SaveOK` (the chunk has the documents of the double
buffer, and no kills came since), `MergeOK` (the merged chunk has what either chunk shows), `OldKills`
(the kill-list of a dump only ever repeats kills). It rests on `TypeInv` and `LockInv`, which lock
out those who would disturb it. `ValueInv` adds which *version* of a document each of these holds;
with UPDATE it is false, hence `NoUpdates`. `RtIndex_queries` proves both step by step, one
lemma per program point.

**Why the index starts again.** `StartInv` holds over crashes, starts and replays, in every mode. While the index is up,
`Chunked` says what `.meta` has at each program point: the number of the oldest chunk, and one chunk for each that is
online and one more between the save of `.meta` and the swap (`Ahead`), none from TRUNCATE's save of `.meta` on (`Emptying`);
and that each chunk online has its file, but for the second between OPTIMIZE's two renames. With flushes
there may be fewer chunks in `.meta` than online, never more: hence it holds without `NoFlush` too, in that form.
All this rests on who holds `m_tWriterMutex`: at most one thread is at any of these points (`OnlySpecial`), so that
`Places` can tell from one step where the threads are before and after it. A crash or shutdown at any point leaves
`Startable`, from which a start makes `Chunked` again. A clean shutdown takes no lock, but runs alone (`ShutdownAlone`). Flushes
that come one at a time find their `.ram.new` (`RamThere`). TLC has checked `StartInv` first.

**Why nothing acknowledged is lost.** `Durable` speaks of the moments when nothing is under way; to hold then, the
files and the log must go together at every point where a crash may come. `KeepInv` says so. `FileCopies` and `FileShows`
describe what a start *would* make of `.meta`, `.ram`, `.kill` and the chunk files: one copy of each document at most, and the right
version, of every document on which the log has no transaction newer than `.meta`'s TID (`Since`). `LogSays` is about the others:
the last such transaction in the log made them what they are, so that replaying in order ends right wherever it begins.
`KillsLogged` is why a start may take a `.kill` that is older than the kill-list: each kill that it lacks is in the log. A save and a
flush move documents from the second kind to the first when they write `.meta`; `WorkOK` says of a thread at each program point
what it has written so far (`Saves`, `Flushes`, `Empties`) and that what it has logged will be what it brings online
(`Commits`). Between the writes of a dump and of a TRUNCATE the files say neither the old nor the new (`Unsettled`), and there
the invariant says nothing of them. `WorksAlone` keeps others out: the writer mutex, and `OneFlusher` for
the flush, which does not take it. A start makes of `FileCopies` what memory has to satisfy (`OneCopy`, and `MemShows`: queries find
what the transactions made, up to the last replayed one), and each replayed commit carries `MemShows` one transaction on, with
dumps in between. `MemShows` with nothing left to replay is `Durable`. TLC has checked `KeepInv` first, on the instance of
`RtIndex_recover` without updates, with two documents, and with two threads that do not flush, and each part of `Careful` is there because TLC violates `Durable` without it.

**Why the log keeps what is needed.** The proofs speak of what a file says when the buffer has been
written (`Whole`): commits append to that, flushes leave it as it is, a crash leaves a prefix of each file and a
notification takes whole files. `FileInv` says that `binlog.meta`, `logs` and the files name each other,
in rising order (`FilesOK`); that a file names an index before its first transaction and has its transactions in
rising order (`RecordsOK`), a later file later ones (`OrderOK`), without which replay would skip some; that the
noted TIDs cover what is in a file, and that what is noted as saved is saved (`InfoOK`), which is why a file may go.
A crash of the system may cut several files, and so leave holes in the log as a whole: a file that the writer has left
need not be synced. `BareOK` says that what such a file has unsynced is in `bare`, and `TidsOK` that an index holds exactly
the transactions that are `Stored` (saved, or in a file), and that one before its last that is not stored is in `bare`. Before and
during a replay (`ReplayOK`) the same holds of what is left in the files, which is what the replay will make of the index.
`AckOK` adds that what was acknowledged is stored and, in mode 2, saved or *on disk*, not in the buffer only. It needs
nothing about holes: a crash of the system takes what it cut out of `acked`, if it was neither synced nor
saved, and what was one of these is stored afterwards. TLC has checked each of these as an invariant, in all three modes,
before the proof.

**Why bisection needs no induction.** `Search` is a recursive function. Its defining equation has a
solution (`HalveHasFixpoint`: the right answer is one) and no other (`HalveGivesBetween`: of the bounds for which
two answers differ, take the nearest; one turn of the loop gives nearer ones).

**Why an index serves its own files.** Between the load of the `.new` files and the end of a rotation memory
and disk differ on purpose, and each rename can fail, and so can the way back. `FilesInv` says where the files
are at each point: `RotatedFiles` follows the files of the loaded build and of the served one through the loops,
with a part of the extensions renamed and the rest not yet (`Moved`), and that only the rotation thread writes an entry
meanwhile; `ServedFiles` says that every other entry has what its files hold. It is proved by one lemma per
group of threads (`MainFiles`, `SessionFiles`, `OutsideFiles`), and for the rotation thread by one step per program point
(`RotatorFiles`). TLC has checked the parts as invariants first, with crashes at all points of a rotation.

**Why a commit makes what was said.** `WantInv` relates the accumulator to `want`: the last row of each document
is what was said last of it, a document without a row is killed or untouched. What a commit stores then follows from
`CleanupDuplicates` and `Segment`: the rows that stay are the last ones (`LastStays`), and the words that find one
are those of its text (`CommittedHits`). The second is the hard one, since the offsets were taken before the first cut. `CutTo`
is the invariant of that loop: after the rows from `m` on are done, the hits before row `m` are where they were, and
those behind are of the rows that stay, each word as often as their texts have it (`KeepsLast`, `CutsVoid`). The
loops are recursive functions over the numbers of the rows; `Loop` says that their equations have a solution and
`Induct` is induction on a set of naturals, both first-order, so the provers can use them. TLC has checked `Fit`, `HitsInv` and
`WantInv` as invariants first.

**Why no agent is forgotten.** Worker threads and the session write `agent[a].state` without a lock, and count works
and agents done in two more numbers. `Inv` divides the life of an agent by who has to act: a work that will connect to it
(`ToConnect`), a thread that is asking it (`Asking`), or the session, which looks for answers in this round or has
agents to count (`Counted`); else the thread that has asked it will count it when it returns (`Asked`). `AgentOK` says that an
agent without result and failure is with one of them, and that its results were merged never or once. `ThreadOK` is what a
thread still knows of the agents of its work when the session has moved on: they had no answer before they were asked. When
`works` is 0 no thread has a work (`NoWorks`), so a session that has seen this *before* it reads the agents done misses none.
There is one lemma per step of a thread (`ThreadStep` is the frame they share) and of the session (`SessionStep`).
`PoolInv` has a view of the sockets for each step: those in slots, the query's and the other query's are different and
open (`OwnersApart`, `SlotsOwn`), slots that are not free are empty (`SlotsTyped`), every open connection is somebody's or has been
left open by a reload, never both (`Kept`; `KeptThen` is the frame of the steps that close and connect), and unread data belongs to an agent that is
answering (`SocketsOK`), which is closed when it fails. TLC has checked each part on four instances first, with
blackholes, mixed connections and two hosts. For the proof the model was changed in form, not in meaning: the agents
of a work are a set, taken by their numbers, where they were a sequence.

**Model-checked only**: the liveness properties, which are out of the prover's reach; `Durable` of
`RtIndex` with updates of documents in RAM after the first crash, which `RtIndex_recover` checks on one thread
(the theorem has none); `ExtRanker`, whose nodes call each other recursively.

## 5. Where code and documentation disagree

Configurations that are no runs of the project, since the code fails there, reproduce what the
hazards' notes name (`tlc -config Finding_X.cfg MC...tla`):

| Configuration | Shows |
|---|---|
| `flush_commit` | `ForceRamFlush` holds the read lock only and writes `m_iTID` to `.meta`; a commit beside it has drawn that TID and not applied its segment: the binlog may drop it, a crash loses it |
| `flush_commit`, other constants | `Ops` of flush, disk, commit without a crash: a flush beside a save forgets a chunk (`MetaNamesChunks`); of commit, flush, query: of two flushes that share `.ram.new` the second rename ends the server (`Restartable`) |
| `save_window` | a crash between two file operations that belong together; with `CrashAt` set to the other windows, `MaxTid` 3 and `Ops` with truncate and optimize, the same |
| `optimize_tid` | `Optimize` writes the newest TID to `.meta` without saving RAM segments; after a crash replay skips them; with `Ops` of commit, disk, update, flush, query and two versions: a RAM flush lets the binlog drop updates of disk chunks that only `SaveAttributes` writes |
| `dump_nothing` | a commit that kills the last RAM documents and exceeds the limit: `SaveDiskChunk` returns at once, the binlog is told all is saved |
| `merge_update` | an UPDATE of rows that are being merged is lost; with disk in `Ops`, one of rows that are being dumped (`SavedChunkComplete`); and a query beside it finds neither state (`SnapshotRead`) |
| `klist_large_txn` | a transaction as large as the hash, with the hash empty, leaves the vector unsorted for the next reader |
| `binlog_fsync` | `binlog_flush = 1` ("flush and sync every transaction") looks for unsynced data before the record is written, finds none, and leaves the record in the buffer |
| `binlog_unlink_window` | a start that dies on a file unlinked before `binlog.meta` was written; with `EmptyLog` instead of `UnlinkWindow`, two indexes and two crashes, on one listed twice |
| `accum_rollback` | hit counts that survive a ROLLBACK cut the next transaction's hits at the wrong places |
| `accum_delete` | a DELETE of a document inserted in the same transaction has no effect |
| `accum_insert` | INSERT overwrites a document that is in a disk chunk or was inserted by the same transaction (`doc/sphinx.txt` 5016-5017: "will not be overwritten") |
| `served_delete`, `served_sessions` | the two deadlocks: `IndexHash_c::Delete` with a search that releases; ATTACH with a search or another ATTACH |
| `served_enabled` | a search finds an index disabled that was enabled when it looked |
| `served_lost` | a build whose SIGHUP came at the wrong moment is not rotated in |
| `agents_wait` | a thread held up until its time has come waits for ever (`ThdWorkWait`), and the query with it |
| `agents_silent` | an agent that stops in the middle of a reply is neither merged nor reported (`doc/sphinx.txt` 10593-10596) |
| `agents_grow`, `agents_closes` | connections that are closed or pooled while in use: when `dAgents` is copied, when the pool is reset |
| `match_timeout` | a time limit that passes between the accepted and the excluded words of `a -b`: the end of the excluded word's documents is taken for the end of its list, and documents with that word are returned |

Seen on the way, with a property or a constant to show them: modes 0 and 2 do not sync everything "every second"
(`doc/sphinx.txt` 12149-12165), since a file that ends at the position of the last `fsync`, if only of another file, is closed
without one (`Binlog!SyncedEverySecond` with the constants of `Binlog_sync.cfg`); a reload does not "always close all
persistent connections" (`searchd.cpp` 19573), since the test that is meant to skip the counts divides by the size of the pool and
not by the stride (`AgentPool!ResetClosesAll` with those of `Agents.cfg`); without `agent_retry_delay` the parallel workers
do not retry at all (`Delay = FALSE`); they try once less or wait less than documented
(`RetriesBounded`, `RetryAfterDelay`); an asynchronous connect that is refused is not tried again
(`RefusedIsRetried`, `doc/sphinx.txt` 6421-6430); a reload while connections are rented corrupts the counts
(`ReloadBusy = TRUE`, `PoolTypeOK`); COMMIT after a removal uses a deleted index
(`DropInTxn = TRUE`, `TxnIndexAlive`), after an ALTER rows of the old size
(`AlterInTxn = TRUE`, `RowsFitSchema`); counts that include a
repeated hit (`Hits <- HitsTwice`, `HitsFollowRows`).

## 6. Plan

Done: RtIndex, DocStore, KillList, Binlog, RtAccum, TxnStore, ServedIndex, Agents, AgentPool,
ExtNode, ExtRanker, and the theorems of section 4.

Modelling, in this order: `AttachDiskIndex` and `AddRemoveAttribute` (with
`RenameWithRollback`) in `RtIndex`; quorum, strict order, proximity, NEAR and SENTENCE in
`ExtNode`, and the node cache; the choice of mirrors and the ping thread in `Agents`;
`RtIndex` with the files of `Binlog` in the place of `log`, for one index and tiny bounds.

Proofs, in this order:

1. `RtIndex`: `Durable` with UPDATE and `SaveAttributes`, where that is true: one thread, rows in RAM. `ValueInv` must then say which
   version a *part* of the copies has.
2. `RtIndex` with the files of `Binlog` for `log`: that the two fit together, which today is an argument on paper
   (`OnlyFlushedGoes` is what `NotifyIndexFlush` assumes).

**Not modelled**, and why: ATTACH's kill-lists and ALTER's files (planned); ranking formulas, sorters,
parser, tokenizers, expressions, snippets, formats on disk (pure computation over text and bytes: no
state survives a call, and what they compute depends on data the models abstract from); the fork and
prefork workers and their rotation by a child process; the network loop (I/O); time stamps of the binlog and
`shutdown_timeout` (clocks); tools and clients.
