------------------------------- MODULE RtIndex ------------------------------
(***************************************************************************)
(* One real-time (RT) index: RtIndex_t of src/src/sphinxrt.cpp.            *)
(*                                                                         *)
(* Documents live in RAM segments and in disk chunks.  A transaction adds  *)
(* a segment and kills older copies: in segments through the segment       *)
(* k-list, on disk through the kill-list m_tKlist, which becomes the own   *)
(* kill-list of the chunk the RAM segments are dumped to.  Sessions call   *)
(* the operations concurrently; the four locks, the order of the steps     *)
(* between them, the files they leave and the binlog calls are all here,   *)
(* so that the same module also says what a crash leaves behind.           *)
(*                                                                         *)
(* A step of a thread is what it does between two points where another     *)
(* thread, or a crash, can make a difference.                              *)
(***************************************************************************)
EXTENDS Integers, Sequences, FiniteSets, Functions

CONSTANTS
  Doc,              \* document identifiers
  Val,              \* versions a document may have
  NoRow,            \* marks a document with no row
  Thread,           \* searchd threads (sessions and background threads)
  NoThread,         \* owner of a free lock
  Tag,              \* segment identities (RtSegment_t::m_iTag); a bound: no step
                    \* that makes a segment is taken when none is left
  MAX_SEGMENTS,     \* 32 in the code
  MAX_PROGRESSION,  \* MAX_PROGRESSION_SEGMENT, 8 in the code
  Ops,              \* operations the workload uses
  LateOps,          \* those it uses only when at most one crash is still to come
  DumpOnDelete,     \* can a delete-only txn find the RAM limit exceeded?
  UpdateOnDisk,     \* does the workload update documents in disk chunks?
  IoFaults,         \* operations whose file operations may fail
  CrashAt,          \* program points at which a crash is considered
  MaxTid,           \* bound: transactions started
  MaxCrashes        \* bound: crashes

ASSUME ThreadAssumption == Thread # {}
ASSUME DocAssumption == IsFiniteSet(Doc)
ASSUME NoRowAssumption == NoRow \notin Val
ASSUME NoThreadAssumption == NoThread \notin Thread
ASSUME BoundAssumption == MaxTid \in Nat /\ MaxCrashes \in Nat

VARIABLES
  segs,      \* m_dSegments: RAM segments, by tag
  dbuf,      \* tags of the m_iDoubleBuffer segments that are being saved
  klist,     \* m_tKlist: kill-list over the saved segments and the chunks
  dklist,    \* m_dDiskChunkKlist: kill-list that goes with the saved chunk
  nklist,    \* m_dNewSegmentKlist: kills that came during the save
  chunks,    \* m_dDiskChunks, oldest first
  base,      \* m_iDiskBase: number of the oldest chunk file
  tid,       \* m_iTID
  savedTid,  \* m_iSavedTID
  total,     \* m_tStats.m_iTotalDocuments
  writer,    \* owner of m_tWriterMutex
  inner,     \* owner of m_tSaveInnerMutex
  outer,     \* owner of m_tSaveOuterMutex
  readers,   \* read owners of m_tRwlock
  excl,      \* write owner of m_tRwlock over several steps
  files,     \* .meta, .ram, .ram.new, .kill and the chunk files
  log,       \* the index's transactions the binlog still holds, by TID
  mode,      \* "up", "replay", "down" (not running), "dead" (sphDie)
  pc,        \* program point of every thread
  loc,       \* local variables of every thread
  crashes,   \* crashes so far
  store      \* history: the documents after all transactions begun so far

segVars   == <<segs, dbuf>>
killVars  == <<klist, dklist, nklist>>
chunkVars == <<chunks, base>>
tidVars   == <<tid, savedTid>>
memVars   == <<segVars, killVars, chunkVars, tidVars, total>>
lockVars  == <<writer, inner, outer, readers, excl>>
envVars   == <<mode, crashes>>
vars == <<memVars, lockVars, files, log, pc, loc, envVars, store>>

-----------------------------------------------------------------------------
(* Data *)

Rows    == [Doc -> Val \cup {NoRow}]
NoRows  == [d \in Doc |-> NoRow]
Segment == [row : Rows, klist : SUBSET Doc, tls : BOOLEAN]
Chunk   == [row : Rows, klist : SUBSET Doc]
NoChunk == [row |-> NoRows, klist |-> {}]
NoSegs  == [g \in {} |-> NoChunk]

HasRow(s, d)   == s.row[d] # NoRow
\* RtSegment_t::FindAliveRow
AliveRow(s, d) == HasRow(s, d) /\ d \notin s.klist
RowCount(s)    == Cardinality({d \in Doc : HasRow(s, d)})

\* Mutant: the merger forgets the k-list of the transaction.
MergerSees_NoAccKlist(s, d, kill) == AliveRow(s, d)

\* What the merger sees of a row: RtRowIterator_T with the accumulator k-list.
MergerSees(s, d, kill) == AliveRow(s, d) /\ ~(s.tls /\ d \in kill)

MergeSegments(a, b, kill) ==
    [row   |-> [d \in Doc |-> IF MergerSees(a, d, kill) THEN a.row[d]
                              ELSE IF MergerSees(b, d, kill) THEN b.row[d]
                              ELSE NoRow],
     klist |-> {}, tls |-> FALSE]

\* Mutant: a chunk's own kill-list hits its own rows.
LiveInChunk_OwnKlist(i, d) ==
    /\ HasRow(chunks[i], d)
    /\ \A j \in i..Len(chunks) : d \notin chunks[j].klist

\* Chunk i has a row of d that no younger chunk kills.
LiveInChunk(i, d) ==
    /\ HasRow(chunks[i], d)
    /\ \A j \in (i + 1)..Len(chunks) : d \notin chunks[j].klist

\* Where a query finds d: alive segments, unkilled disk chunks.
RamRows(d)  == {g \in DOMAIN segs : AliveRow(segs[g], d)}
DiskRows(d) == {i \in DOMAIN chunks : LiveInChunk(i, d) /\ d \notin klist}

\* What a query that starts now returns for every document.
Visible ==
    [d \in Doc |-> IF RamRows(d) # {} THEN segs[CHOOSE g \in RamRows(d) : TRUE].row[d]
                   ELSE IF DiskRows(d) # {}
                   THEN chunks[CHOOSE i \in DiskRows(d) : TRUE].row[d]
                   ELSE NoRow]

\* The documents that result from a transaction (store history).
Applied(docs, adds, kill) ==
    [d \in Doc |-> IF adds[d] # NoRow THEN adds[d]
                   ELSE IF d \in kill THEN NoRow ELSE docs[d]]

Updated(docs, adds) ==
    [d \in Doc |-> IF adds[d] # NoRow /\ docs[d] # NoRow THEN adds[d] ELSE docs[d]]

NoLoc == [op |-> "none", adds |-> NoRows, kill |-> {}, tid |-> 0, etid |-> 0,
          keep |-> {}, fresh |-> NoSegs, live |-> {}, dead |-> 0,
          dump |-> FALSE, chunk |-> NoChunk, got |-> {}]

\* ChunkName(i): number of the file that holds chunk i.
ChunkName(i) == base + i - 1

\* RtIndex_t::SaveAttributes: the chunk files get the attributes in memory.
SavedAttributes ==
    [n \in DOMAIN files.chunk |->
       IF n - base + 1 \in DOMAIN chunks
       THEN [files.chunk[n] EXCEPT !.row = chunks[n - base + 1].row]
       ELSE files.chunk[n]]

\* RtIndex_t::SaveMeta: what .meta says of the chunks, the statistics and the TID.
MetaFile(t, b, n, docs) == [saved |-> TRUE, tid |-> t, base |-> b, n |-> n, total |-> docs]
Meta(n, t) == MetaFile(t, base, n, total)

-----------------------------------------------------------------------------
(* Control *)

At(t, l) == pc[t] = l
Goto(t, l) == pc' = [pc EXCEPT ![t] = l]
Finish(t) == Goto(t, "idle") /\ loc' = [loc EXCEPT ![t] = NoLoc]

\* Mutant: writers do not wait for readers.
CanWriteLock_Readers == excl = NoThread

\* Nobody holds m_tRwlock, so a write lock on it is granted.
CanWriteLock == readers = {} /\ excl = NoThread
ReadLock(t)   == excl = NoThread /\ readers' = readers \cup {t}
ReadUnlock(t) == readers' = readers \ {t}

\* RtBinlog_c::NotifyIndexFlush, as the index sees it: whole log files go, and
\* what goes is not newer than n.  (Binlog has the files.)
NotifyIndexFlush(n) ==
    \E gone \in SUBSET {m \in DOMAIN log : m <= n} : log' = Restrict(log, DOMAIN log \ gone)

\* BinlogCommit and BinlogUpdateAttributes take the next TID and log.
Logged(upd, adds, kill) ==
    /\ tid' = tid + 1
    /\ log' = [m \in DOMAIN log \cup {tid + 1} |->
                 IF m = tid + 1 THEN [upd |-> upd, adds |-> adds, kill |-> kill] ELSE log[m]]

\* A session starts an operation.  TRUNCATE takes the served index exclusively
\* (searchd.cpp), all others share it, except COMMIT, which does not take it.
Begin(t, op, l) ==
    /\ mode = "up" /\ op \in Ops /\ At(t, "idle")
    /\ op \in LateOps => crashes + 1 >= MaxCrashes
    /\ \A u \in Thread :
          /\ op = "truncate" => loc[u].op \in {"none", "commit"}
          /\ loc[u].op = "truncate" => op = "commit"
          /\ op = "shutdown" => loc[u].op = "none"
          /\ loc[u].op # "shutdown"
    /\ Goto(t, l)

-----------------------------------------------------------------------------
(* COMMIT: RtIndex_t::Commit and CommitReplayable *)

\* Phase 0: the accumulated txn; its k-list covers the documents it adds.
CommitBegin(t) ==
    /\ tid < MaxTid
    /\ Begin(t, "commit", "c_writer")
    /\ \E kill \in (SUBSET Doc) \ {{}}, adds \in Rows :
          /\ \A d \in Doc : adds[d] # NoRow => d \in kill
          /\ loc' = [loc EXCEPT ![t] =
                       [NoLoc EXCEPT !.op = "commit", !.adds = adds, !.kill = kill]]
    /\ UNCHANGED <<memVars, lockVars, files, log, envVars, store>>

CommitLockWriter(t) ==
    /\ At(t, "c_writer") /\ writer = NoThread
    /\ writer' = t
    /\ Goto(t, "c_inner")
    /\ UNCHANGED <<memVars, inner, outer, readers, excl, files, log, loc, envVars, store>>

CommitLockInner(t) ==
    /\ At(t, "c_inner") /\ inner = NoThread
    /\ inner' = t
    /\ Goto(t, "c_binlog")
    /\ UNCHANGED <<memVars, writer, outer, readers, excl, files, log, loc, envVars, store>>

\* BinlogCommit takes the next TID and logs; it does neither during replay.
CommitBinlog(t) ==
    /\ At(t, "c_binlog")
    /\ IF loc[t].etid > 0 THEN UNCHANGED <<tidVars, log, store>>
       ELSE /\ Logged(FALSE, loc[t].adds, loc[t].kill)
            /\ store' = Applied(store, loc[t].adds, loc[t].kill)
            /\ UNCHANGED savedTid
    /\ Goto(t, "c_mark")
    /\ UNCHANGED <<segVars, killVars, chunkVars, total, lockVars, files, loc, envVars>>

\* RtSegment_t::m_iTag of a new segment: a number that no segment has.
NewTag(used) == CHOOSE g \in Tag : g \notin used

\* Mutant: the existing segments are not flagged.
CommitMark_NoFlag(t) ==
    /\ At(t, "c_mark") /\ Tag \ DOMAIN segs # {}
    /\ LET new == NewTag(DOMAIN segs)
       IN  loc' = [loc EXCEPT ![t].tid = tid,
                              ![t].keep = DOMAIN segs \ dbuf,
                              ![t].fresh =
                                 [g \in (IF loc[t].adds = NoRows THEN {} ELSE {new}) |->
                                    [row |-> loc[t].adds, klist |-> {}, tls |-> FALSE]]]
    /\ Goto(t, "c_merge")
    /\ UNCHANGED <<memVars, lockVars, files, log, envVars, store>>

\* Read the TID back, flag the existing segments for the merger, and start
\* from all of them plus the new segment, if the txn has any rows.
CommitMark(t) ==
    /\ At(t, "c_mark") /\ Tag \ DOMAIN segs # {}
    /\ segs' = [g \in DOMAIN segs |->
                  IF g \in dbuf THEN segs[g] ELSE [segs[g] EXCEPT !.tls = TRUE]]
    /\ LET new == NewTag(DOMAIN segs)
       IN  loc' = [loc EXCEPT ![t].tid = tid,
                              ![t].keep = DOMAIN segs \ dbuf,
                              ![t].fresh =
                                 [g \in (IF loc[t].adds = NoRows THEN {} ELSE {new}) |->
                                    [row |-> loc[t].adds, klist |-> {}, tls |-> FALSE]]]
    /\ Goto(t, "c_merge")
    /\ UNCHANGED <<dbuf, killVars, chunkVars, tidVars, total, lockVars, files, log, envVars, store>>

\* The vector of segments the commit is building.
Work(t) == [g \in loc[t].keep \cup DOMAIN loc[t].fresh |->
              IF g \in loc[t].keep THEN segs[g] ELSE loc[t].fresh[g]]

ManySegments(w) == Cardinality(DOMAIN w) >= MAX_SEGMENTS - MAX_PROGRESSION

\* a and b are the two smallest segments of w, a the smallest.
Smallest(w, a, b) ==
    /\ a # b
    /\ RowCount(w[a]) <= RowCount(w[b])
    /\ \A g \in DOMAIN w \ {a, b} : RowCount(w[b]) <= RowCount(w[g])

Progression(w, a, b) ==
    /\ RowCount(w[b]) > 2 * RowCount(w[a])
    /\ Cardinality(DOMAIN w) < MAX_SEGMENTS

CommitMerge(t) ==
    /\ At(t, "c_merge") /\ loc[t].adds # NoRows
    /\ ManySegments(Work(t)) /\ Tag \ (DOMAIN segs \cup DOMAIN loc[t].fresh) # {}
    /\ \E a, b \in DOMAIN Work(t) :
          /\ Smallest(Work(t), a, b) /\ ~Progression(Work(t), a, b)
          /\ LET g == NewTag(DOMAIN segs \cup DOMAIN loc[t].fresh)
                 m == MergeSegments(Work(t)[a], Work(t)[b], loc[t].kill)
             IN  loc' = [loc EXCEPT ![t].keep = @ \ {a, b},
                                    ![t].fresh = [x \in (DOMAIN @ \ {a, b}) \cup {g} |->
                                                    IF x = g THEN m ELSE @[x]]]
    /\ UNCHANGED <<memVars, lockVars, files, log, pc, envVars, store>>

\* Stop merging.  bDump: the RAM limit was exceeded to begin with, or the
\* smallest segments cannot be merged within the limits.
CommitMergeDone(t) ==
    /\ At(t, "c_merge")
    /\ \E dump \in BOOLEAN :
          /\ dump => \/ /\ loc[t].keep = DOMAIN segs \ dbuf /\ DOMAIN Work(t) # {}
                        /\ loc[t].adds # NoRows \/ DumpOnDelete
                     \/ loc[t].adds # NoRows /\ ManySegments(Work(t))
          /\ loc' = [loc EXCEPT ![t].dump = dump]
    /\ Goto(t, "c_count")
    /\ UNCHANGED <<memVars, lockVars, files, log, envVars, store>>

\* Which killed documents are alive, and where, searched from young to old:
\* RAM, m_tKlist, the segments being saved, their kill-list, the disk chunks.
RamAlive(d)   == \E g \in DOMAIN segs \ dbuf : AliveRow(segs[g], d)
SavedAlive(d) == \E g \in dbuf : AliveRow(segs[g], d)
\* Mutant: the kill-lists of younger chunks are not looked at.
DiskAlive_AnyChunk(d) == d \notin dklist /\ \E i \in DOMAIN chunks : HasRow(chunks[i], d)
DiskAlive(d)  == d \notin dklist /\ \E i \in DOMAIN chunks : LiveInChunk(i, d)

CommitCount(t) ==
    /\ At(t, "c_count")
    /\ LET kill == loc[t].kill
           live == {d \in kill : /\ ~RamAlive(d) /\ d \notin klist
                                 /\ SavedAlive(d) \/ DiskAlive(d)}
       IN  loc' = [loc EXCEPT
                     ![t].live = live,
                     ![t].dead = Cardinality(live \cup {d \in kill : RamAlive(d)})]
    /\ Goto(t, "c_live")
    /\ UNCHANGED <<memVars, lockVars, files, log, envVars, store>>

\* Readers out: update the k-lists of the surviving old segments, the
\* kill-lists and the statistics, drop dead segments, and go live.
CommitLive(t) ==
    /\ At(t, "c_live") /\ CanWriteLock
    /\ LET kill == loc[t].kill
           new  == [g \in DOMAIN Work(t) |->
                      LET s == Work(t)[g] IN
                      IF ~s.tls THEN s
                      ELSE [s EXCEPT !.tls = FALSE,
                                     !.klist = @ \cup {d \in kill : AliveRow(s, d)}]]
           live == {g \in DOMAIN new : \E d \in Doc : AliveRow(new[g], d)}
       IN  segs' = [g \in dbuf \cup live |-> IF g \in dbuf THEN segs[g] ELSE new[g]]
    /\ klist' = klist \cup loc[t].live
    /\ nklist' = IF dbuf = {} THEN nklist ELSE nklist \cup loc[t].live
    /\ total' = total + Cardinality({d \in Doc : loc[t].adds[d] # NoRow}) - loc[t].dead
    /\ inner' = NoThread
    /\ IF loc[t].dump /\ dbuf = {}
       THEN Goto(t, "c_outer") /\ UNCHANGED <<writer, tidVars, loc>>
       ELSE /\ writer' = NoThread
            /\ Finish(t)
            /\ tid' = IF loc[t].etid > 0 THEN loc[t].etid ELSE tid
            /\ UNCHANGED savedTid
    /\ UNCHANGED <<dbuf, dklist, chunkVars, outer, readers, excl, files, log, envVars, store>>

\* The RAM limit is exceeded: all RAM segments become the double buffer.
CommitDump(t) ==
    /\ At(t, "c_outer") /\ outer = NoThread
    /\ outer' = t
    /\ dbuf' = DOMAIN segs
    /\ dklist' = klist
    /\ Goto(t, "s_write")
    /\ UNCHANGED <<segs, klist, nklist, chunkVars, tidVars, total, writer, inner,
                   readers, excl, files, log, loc, envVars, store>>

-----------------------------------------------------------------------------
(* SaveDiskChunk, from a commit that dumps or from FLUSH RAMCHUNK *)

SaveWrite(t) ==
    /\ At(t, "s_write")
    /\ IF DOMAIN segs = {}
       THEN Goto(t, "s_end") /\ UNCHANGED <<files, loc>>
       ELSE LET row(d) == IF RamRows(d) = {} THEN NoRow
                          ELSE segs[CHOOSE g \in RamRows(d) : TRUE].row[d]
                c == [row |-> [d \in Doc |-> row(d)], klist |-> dklist]
                n == ChunkName(Len(chunks) + 1)
            IN  /\ files' = [files EXCEPT !.chunk =
                               [i \in DOMAIN @ \cup {n} |-> IF i = n THEN c ELSE @[i]]]
                /\ loc' = [loc EXCEPT ![t].chunk = c]
                /\ Goto(t, "s_meta")
    /\ UNCHANGED <<memVars, lockVars, log, envVars, store>>

\* Mutant: m_iDiskBase counts twice.
SaveMeta_ChunkNumber(t) ==
    /\ At(t, "s_meta")
    /\ files' = [files EXCEPT !.meta = Meta(Len(chunks) + 1 + base, loc[t].tid)]
    /\ Goto(t, "s_inner")
    /\ UNCHANGED <<memVars, lockVars, log, loc, envVars, store>>

SaveMeta(t) ==
    /\ At(t, "s_meta")
    /\ files' = [files EXCEPT !.meta = Meta(Len(chunks) + 1, loc[t].tid)]
    /\ Goto(t, "s_inner")
    /\ UNCHANGED <<memVars, lockVars, log, loc, envVars, store>>

SaveLockInner(t) ==
    /\ At(t, "s_inner") /\ inner = NoThread
    /\ inner' = t
    /\ Goto(t, "s_swap")
    /\ UNCHANGED <<memVars, writer, outer, readers, excl, files, log, loc, envVars, store>>

\* Mutant: m_iDoubleBuffer is not reset.
SaveSwap_KeepsDoubleBuffer(t) ==
    /\ At(t, "s_swap") /\ CanWriteLock
    /\ segs' = IF dbuf = {} THEN NoSegs ELSE Restrict(segs, DOMAIN segs \ dbuf)
    /\ klist' = nklist /\ nklist' = {} /\ dklist' = {}
    /\ files' = [files EXCEPT !.ram = NoSegs, !.hasRam = FALSE]
    /\ savedTid' = loc[t].tid
    /\ chunks' = Append(chunks, loc[t].chunk)
    /\ inner' = NoThread
    /\ Goto(t, "s_end")
    /\ UNCHANGED <<dbuf, base, tid, total, writer, outer, readers, excl, log, loc,
                   envVars, store>>

\* Readers out: drop the saved segments, hand the kill-list over to the new
\* chunk, abandon the .ram file, bring the chunk online.
SaveSwap(t) ==
    /\ At(t, "s_swap") /\ CanWriteLock
    /\ segs' = IF dbuf = {} THEN NoSegs ELSE Restrict(segs, DOMAIN segs \ dbuf)
    /\ dbuf' = {}
    /\ klist' = nklist
    /\ nklist' = {}
    /\ dklist' = {}
    /\ files' = [files EXCEPT !.ram = NoSegs, !.hasRam = FALSE]
    /\ savedTid' = loc[t].tid
    /\ chunks' = Append(chunks, loc[t].chunk)
    /\ inner' = NoThread
    /\ Goto(t, "s_end")
    /\ UNCHANGED <<base, tid, total, writer, outer, readers, excl, log, loc, envVars, store>>

\* Mutant: the writer mutex stays locked.
SaveEnd_KeepsWriter(t) ==
    /\ At(t, "s_end")
    /\ tid' = IF loc[t].etid > 0 THEN loc[t].etid ELSE tid
    /\ outer' = NoThread
    /\ Finish(t)
    /\ UNCHANGED <<segVars, killVars, chunkVars, savedTid, total, writer, inner, readers,
                   excl, files, log, envVars, store>>

\* A commit tells the binlog what is saved; then both release the writers.
SaveEnd(t) ==
    /\ At(t, "s_end")
    /\ IF loc[t].op = "commit" /\ loc[t].etid = 0 THEN NotifyIndexFlush(loc[t].tid)
       ELSE UNCHANGED log
    /\ tid' = IF loc[t].etid > 0 THEN loc[t].etid ELSE tid
    /\ outer' = NoThread
    /\ writer' = NoThread
    /\ Finish(t)
    /\ UNCHANGED <<segVars, killVars, chunkVars, savedTid, total, inner, readers, excl,
                   files, envVars, store>>

-----------------------------------------------------------------------------
(* FLUSH RAMCHUNK: RtIndex_t::ForceDiskChunk *)

DiskBegin(t) ==
    /\ DOMAIN segs # {}
    /\ Begin(t, "disk", "d_writer")
    /\ loc' = [loc EXCEPT ![t].op = "disk"]
    /\ UNCHANGED <<memVars, lockVars, files, log, envVars, store>>

\* Mutant: the dump does not lock out the writers.
DiskLockWriter_NoLock(t) ==
    /\ At(t, "d_writer")
    /\ Goto(t, "d_outer")
    /\ UNCHANGED <<memVars, lockVars, files, log, loc, envVars, store>>

DiskLockWriter(t) ==
    /\ At(t, "d_writer") /\ writer = NoThread
    /\ writer' = t
    /\ Goto(t, "d_outer")
    /\ UNCHANGED <<memVars, inner, outer, readers, excl, files, log, loc, envVars, store>>

DiskLockOuter(t) ==
    /\ At(t, "d_outer") /\ outer = NoThread
    /\ outer' = t
    /\ Goto(t, "d_klist")
    /\ UNCHANGED <<memVars, writer, inner, readers, excl, files, log, loc, envVars, store>>

DiskKlist(t) ==
    /\ At(t, "d_klist") /\ CanWriteLock
    /\ dklist' = klist
    /\ loc' = [loc EXCEPT ![t].tid = tid]
    /\ Goto(t, "s_write")
    /\ UNCHANGED <<segVars, klist, nklist, chunkVars, tidVars, total, lockVars, files,
                   log, envVars, store>>

-----------------------------------------------------------------------------
(* FLUSH RTINDEX, the periodic flush, and clean shutdown: ForceRamFlush and  *)
(* the destructor.  The destructor takes no lock.                            *)

FlushBegin(t) ==
    /\ tid > savedTid
    /\ Begin(t, "flush", "f_lock")
    /\ loc' = [loc EXCEPT ![t].op = "flush"]
    /\ UNCHANGED <<memVars, lockVars, files, log, envVars, store>>

\* searchd first writes the attributes of the chunks back (SaveIndexes).
ShutdownBegin(t) ==
    /\ Begin(t, "shutdown", "f_kill")
    /\ loc' = [loc EXCEPT ![t].op = "shutdown"]
    /\ files' = [files EXCEPT !.chunk = SavedAttributes]
    /\ UNCHANGED <<memVars, lockVars, log, envVars, store>>

FlushLock(t) ==
    /\ At(t, "f_lock") /\ ReadLock(t)
    /\ Goto(t, "f_kill")
    /\ UNCHANGED <<memVars, writer, inner, outer, excl, files, log, loc, envVars, store>>

\* CSphKilllist::SaveToFile opens, and so empties, the .kill file ...
FlushKillOpen(t) ==
    /\ At(t, "f_kill")
    /\ files' = [files EXCEPT !.kill = {}]
    /\ Goto(t, "f_killed")
    /\ UNCHANGED <<memVars, lockVars, log, loc, envVars, store>>

\* Mutant: the .kill file stays empty.
FlushKillDone_KeepsEmpty(t) ==
    /\ At(t, "f_killed")
    /\ files' = [files EXCEPT !.newRam = TRUE]
    /\ Goto(t, "f_ram")
    /\ UNCHANGED <<memVars, lockVars, log, loc, envVars, store>>

\* ... and then writes it.  SaveRamChunk goes on to create .ram.new.
FlushKillDone(t) ==
    /\ At(t, "f_killed")
    /\ files' = [files EXCEPT !.kill = klist, !.newRam = TRUE]
    /\ Goto(t, "f_ram")
    /\ UNCHANGED <<memVars, lockVars, log, loc, envVars, store>>

\* Write the segments and rename .ram.new over .ram, or die.
FlushRam(t) ==
    /\ At(t, "f_ram")
    /\ IF files.newRam
       THEN /\ files' = [files EXCEPT !.hasRam = TRUE, !.ram = segs, !.newRam = FALSE]
            /\ Goto(t, "f_meta")
            /\ UNCHANGED envVars
       ELSE /\ mode' = "dead"
            /\ UNCHANGED <<files, pc, crashes>>
    /\ UNCHANGED <<memVars, lockVars, log, loc, store>>

\* The RAM chunk cannot be written: the flush gives up, .kill is new already.
FlushFails(t) ==
    /\ At(t, "f_ram") /\ loc[t].op = "flush" /\ "flush" \in IoFaults
    /\ ReadUnlock(t)
    /\ Finish(t)
    /\ UNCHANGED <<memVars, writer, inner, outer, excl, files, log, envVars, store>>

\* The destructor does not look at the result.
ShutdownFails(t) ==
    /\ At(t, "f_ram") /\ loc[t].op = "shutdown" /\ "shutdown" \in IoFaults
    /\ Goto(t, "f_meta")
    /\ UNCHANGED <<memVars, lockVars, files, log, loc, envVars, store>>

FlushMeta(t) ==
    /\ At(t, "f_meta")
    /\ files' = [files EXCEPT !.meta = Meta(Len(chunks), tid)]
    /\ Goto(t, "f_notify")
    /\ UNCHANGED <<memVars, lockVars, log, loc, envVars, store>>

FlushNotify(t) ==
    /\ At(t, "f_notify")
    /\ NotifyIndexFlush(tid)
    /\ Goto(t, "f_end")
    /\ UNCHANGED <<memVars, lockVars, files, loc, envVars, store>>

FlushEnd(t) ==
    /\ At(t, "f_end") /\ loc[t].op = "flush"
    /\ savedTid' = tid
    /\ ReadUnlock(t)
    /\ Finish(t)
    /\ UNCHANGED <<segVars, killVars, chunkVars, tid, total, writer, inner, outer, excl,
                   files, log, envVars, store>>

-----------------------------------------------------------------------------
(* UPDATE: RtIndex_t::UpdateAttributes, under a read lock only *)

\* An empty index has nothing to update; the call returns at once.
UpdateBegin(t) ==
    /\ tid < MaxTid
    /\ DOMAIN segs # {} \/ chunks # <<>>
    /\ Begin(t, "update", "u_lock")
    /\ \E d \in Doc, v \in Val :
          /\ UpdateOnDisk \/ RamRows(d) # {}
          /\ loc' = [loc EXCEPT ![t] = [NoLoc EXCEPT !.op = "update", !.adds[d] = v]]
    /\ UNCHANGED <<memVars, lockVars, files, log, envVars, store>>

UpdateLock(t) ==
    /\ At(t, "u_lock") /\ ReadLock(t)
    /\ Goto(t, "u_apply")
    /\ UNCHANGED <<memVars, writer, inner, outer, excl, files, log, loc, envVars, store>>

\* The document of an update.
Target(adds) == CHOOSE d \in Doc : adds[d] # NoRow

\* Mutant: the oldest chunk that has the document is updated.
WriteAttr_OldestChunk(adds) ==
    LET d == Target(adds)
        in(i) == HasRow(chunks[i], d)
    IN  IF RamRows(d) # {}
        THEN /\ \E g \in RamRows(d) : segs' = [segs EXCEPT ![g].row[d] = adds[d]]
             /\ UNCHANGED chunks
        ELSE /\ UNCHANGED segs
             /\ IF d \in klist \/ \A i \in DOMAIN chunks : ~in(i) THEN UNCHANGED chunks
                ELSE \E i \in DOMAIN chunks :
                       /\ in(i) /\ \A j \in 1..(i - 1) : ~in(j)
                       /\ chunks' = [chunks EXCEPT ![i].row[d] = adds[d]]

\* Write the value to the alive row in RAM; else to the youngest chunk that
\* has a row, unless the kill-list has the document.  The binary search sees
\* only the flushed part of the list, so a killed row may be written as well.
WriteAttr(adds) ==
    LET d == Target(adds)
        in(i) == HasRow(chunks[i], d)
    IN  IF RamRows(d) # {}
        THEN /\ \E g \in RamRows(d) : segs' = [segs EXCEPT ![g].row[d] = adds[d]]
             /\ UNCHANGED chunks
        ELSE /\ UNCHANGED segs
             /\ \/ /\ d \in klist \/ \A i \in DOMAIN chunks : ~in(i)
                   /\ UNCHANGED chunks
                \/ \E i \in DOMAIN chunks :
                      /\ in(i) /\ \A j \in (i + 1)..Len(chunks) : ~in(j)
                      /\ chunks' = [chunks EXCEPT ![i].row[d] = adds[d]]

UpdateApply(t) ==
    /\ At(t, "u_apply")
    /\ WriteAttr(loc[t].adds)
    /\ Goto(t, "u_log")
    /\ UNCHANGED <<dbuf, killVars, base, tidVars, total, lockVars, files, log, loc,
                   envVars, store>>

UpdateLog(t) ==
    /\ At(t, "u_log")
    /\ Logged(TRUE, loc[t].adds, {})
    /\ store' = Updated(store, loc[t].adds)
    /\ ReadUnlock(t)
    /\ Finish(t)
    /\ UNCHANGED <<segVars, killVars, chunkVars, savedTid, total, writer, inner, outer,
                   excl, files, envVars>>

\* RtIndex_t::SaveAttributes, under a read lock.
SaveAttributes(t) ==
    /\ Begin(t, "saveattrs", "idle") /\ excl = NoThread
    /\ files' = [files EXCEPT !.chunk = SavedAttributes]
    /\ UNCHANGED <<memVars, lockVars, log, loc, envVars, store>>

-----------------------------------------------------------------------------
(* SELECT: RtIndex_t::MultiQuery, disk chunks first, then RAM segments *)

QueryBegin(t) ==
    /\ Begin(t, "query", "q_disk") /\ ReadLock(t)
    /\ loc' = [loc EXCEPT ![t].op = "query"]
    /\ UNCHANGED <<memVars, writer, inner, outer, excl, files, log, envVars, store>>

QueryDisk(t) ==
    /\ At(t, "q_disk")
    /\ loc' = [loc EXCEPT ![t].got =
                 {<<p[1], chunks[p[2]].row[p[1]]>> :
                    p \in {q \in Doc \X DOMAIN chunks : q[2] \in DiskRows(q[1])}}]
    /\ Goto(t, "q_ram")
    /\ UNCHANGED <<memVars, lockVars, files, log, envVars, store>>

QueryRam(t) ==
    /\ At(t, "q_ram")
    /\ loc' = [loc EXCEPT ![t].got = @ \cup
                 {<<p[1], segs[p[2]].row[p[1]]>> :
                    p \in {q \in Doc \X DOMAIN segs : q[2] \in RamRows(q[1])}}]
    /\ Goto(t, "q_done")
    /\ UNCHANGED <<memVars, lockVars, files, log, envVars, store>>

QueryEnd(t) ==
    /\ At(t, "q_done")
    /\ ReadUnlock(t)
    /\ Finish(t)
    /\ UNCHANGED <<memVars, writer, inner, outer, excl, files, log, envVars, store>>

-----------------------------------------------------------------------------
(* TRUNCATE RTINDEX: RtIndex_t::Truncate *)

TruncBegin(t) ==
    /\ Begin(t, "truncate", "t_writer")
    /\ loc' = [loc EXCEPT ![t].op = "truncate"]
    /\ UNCHANGED <<memVars, lockVars, files, log, envVars, store>>

TruncLockWriter(t) ==
    /\ At(t, "t_writer") /\ writer = NoThread
    /\ writer' = t
    /\ Goto(t, "t_outer")
    /\ UNCHANGED <<memVars, inner, outer, readers, excl, files, log, loc, envVars, store>>

TruncLockOuter(t) ==
    /\ At(t, "t_outer") /\ outer = NoThread
    /\ outer' = t
    /\ Goto(t, "t_meta")
    /\ UNCHANGED <<memVars, writer, inner, readers, excl, files, log, loc, envVars, store>>

\* Mutant: .meta goes on naming the chunks.
TruncMeta_KeepsChunks(t) ==
    /\ At(t, "t_meta") /\ CanWriteLock
    /\ excl' = t
    /\ base' = 0
    /\ total' = 0
    /\ files' = [files EXCEPT !.meta = MetaFile(tid, 0, Len(chunks), 0)]
    /\ store' = NoRows
    /\ Goto(t, "t_notify")
    /\ UNCHANGED <<segVars, killVars, chunks, tidVars, writer, inner, outer, readers,
                   log, loc, envVars>>

\* Readers out; the meta file names no chunk from here on.
TruncMeta(t) ==
    /\ At(t, "t_meta") /\ CanWriteLock
    /\ excl' = t
    /\ base' = 0
    /\ total' = 0
    /\ files' = [files EXCEPT !.meta = MetaFile(tid, 0, 0, 0)]
    /\ store' = NoRows
    /\ Goto(t, "t_notify")
    /\ UNCHANGED <<segVars, killVars, chunks, tidVars, writer, inner, outer, readers,
                   log, loc, envVars>>

TruncNotify(t) ==
    /\ At(t, "t_notify")
    /\ NotifyIndexFlush(tid)
    /\ Goto(t, "t_ram")
    /\ UNCHANGED <<memVars, lockVars, files, loc, envVars, store>>

TruncRam(t) ==
    /\ At(t, "t_ram")
    /\ files' = [files EXCEPT !.ram = NoSegs, !.hasRam = FALSE]
    /\ Goto(t, "t_chunks")
    /\ UNCHANGED <<memVars, lockVars, log, loc, envVars, store>>

\* Unlink the files numbered from 0, as the code does.
TruncChunks(t) ==
    /\ At(t, "t_chunks")
    /\ files' = [files EXCEPT !.chunk = Restrict(@, DOMAIN @ \ (0..(Len(chunks) - 1)))]
    /\ Goto(t, "t_mem")
    /\ UNCHANGED <<memVars, lockVars, log, loc, envVars, store>>

TruncMem(t) ==
    /\ At(t, "t_mem")
    /\ chunks' = <<>>
    /\ segs' = NoSegs
    /\ klist' = {}
    /\ excl' = NoThread /\ outer' = NoThread /\ writer' = NoThread
    /\ Finish(t)
    /\ UNCHANGED <<dbuf, dklist, nklist, base, tidVars, total, inner, readers, files,
                   log, envVars, store>>

-----------------------------------------------------------------------------
(* OPTIMIZE: RtIndex_t::Optimize (there is one such thread) *)

OptBegin(t) ==
    /\ Len(chunks) > 1
    /\ \A u \in Thread : loc[u].op # "optimize"
    /\ Begin(t, "optimize", "o_klist")
    /\ loc' = [loc EXCEPT ![t].op = "optimize"]
    /\ UNCHANGED <<memVars, lockVars, files, log, envVars, store>>

OptKlist(t) ==
    /\ At(t, "o_klist") /\ excl = NoThread
    /\ loc' = [loc EXCEPT ![t].kill =
                 klist \cup UNION {chunks[i].klist : i \in 2..Len(chunks)}]
    /\ Goto(t, "o_merge")
    /\ UNCHANGED <<memVars, lockVars, files, log, envVars, store>>

\* sphMerge: the filter applies to the oldest chunk, the second one wins.
OptMerge(t) ==
    /\ At(t, "o_merge")
    /\ LET row(d) == IF HasRow(chunks[2], d) THEN chunks[2].row[d]
                     ELSE IF d \notin loc[t].kill THEN chunks[1].row[d] ELSE NoRow
       IN  loc' = [loc EXCEPT ![t].chunk = [row |-> [d \in Doc |-> row(d)], klist |-> {}]]
    /\ Goto(t, "o_writer")
    /\ UNCHANGED <<memVars, lockVars, files, log, envVars, store>>

\* The merge failed or the server is terminating.
OptGiveUp(t) ==
    /\ At(t, "o_merge")
    /\ Finish(t)
    /\ UNCHANGED <<memVars, lockVars, files, log, envVars, store>>

OptLockWriter(t) ==
    /\ At(t, "o_writer") /\ writer = NoThread
    /\ writer' = t
    /\ Goto(t, "o_outer")
    /\ UNCHANGED <<memVars, inner, outer, readers, excl, files, log, loc, envVars, store>>

OptLockOuter(t) ==
    /\ At(t, "o_outer") /\ outer = NoThread
    /\ outer' = t
    /\ Goto(t, "o_old")
    /\ UNCHANGED <<memVars, writer, inner, readers, excl, files, log, loc, envVars, store>>

OptRenameOld(t) ==
    /\ At(t, "o_old") /\ CanWriteLock
    /\ excl' = t
    /\ files' = [files EXCEPT !.chunk = Restrict(@, DOMAIN @ \ {ChunkName(2)})]
    /\ Goto(t, "o_new")
    /\ UNCHANGED <<memVars, writer, inner, outer, readers, log, loc, envVars, store>>

\* A rename fails: everything stays as it was, the round is given up.
OptRenameFails(t) ==
    /\ "optimize" \in IoFaults
    /\ \/ At(t, "o_old") /\ CanWriteLock /\ UNCHANGED <<excl, files>>
       \/ /\ At(t, "o_new") /\ excl' = NoThread
          /\ files' = [files EXCEPT !.chunk =
                         [n \in DOMAIN @ \cup {ChunkName(2)} |->
                            IF n = ChunkName(2) THEN chunks[2] ELSE @[n]]]
    /\ outer' = NoThread /\ writer' = NoThread
    /\ Finish(t)
    /\ UNCHANGED <<memVars, inner, readers, log, envVars, store>>

OptRenameNew(t) ==
    /\ At(t, "o_new")
    /\ files' = [files EXCEPT !.chunk =
                   [n \in DOMAIN @ \cup {ChunkName(2)} |->
                      IF n = ChunkName(2) THEN loc[t].chunk ELSE @[n]]]
    /\ Goto(t, "o_swap")
    /\ UNCHANGED <<memVars, lockVars, log, loc, envVars, store>>

OptSwap(t) ==
    /\ At(t, "o_swap")
    /\ chunks' = <<loc[t].chunk>> \o SubSeq(chunks, 3, Len(chunks))
    /\ base' = base + 1
    /\ files' = [files EXCEPT !.meta = MetaFile(tid, base + 1, Len(chunks) - 1, total)]
    /\ excl' = NoThread /\ outer' = NoThread /\ writer' = NoThread
    /\ Goto(t, "o_unlink")
    /\ UNCHANGED <<segVars, killVars, tidVars, total, inner, readers, log, loc, envVars, store>>

\* Then the next round, if there is more to merge and nobody wants to stop.
NextRound(t) ==
    \/ Len(chunks) > 1 /\ Goto(t, "o_klist") /\ loc' = [loc EXCEPT ![t] = [NoLoc EXCEPT !.op = "optimize"]]
    \/ Finish(t)

OptUnlink(t) ==
    /\ At(t, "o_unlink")
    /\ files' = [files EXCEPT !.chunk = Restrict(@, DOMAIN @ \ {base - 1})]
    /\ NextRound(t)
    /\ UNCHANGED <<memVars, lockVars, log, envVars, store>>

\* A forced stop leaves the old files where they are.
OptLeaveFiles(t) ==
    /\ At(t, "o_unlink")
    /\ Finish(t)
    /\ UNCHANGED <<memVars, lockVars, files, log, envVars, store>>

-----------------------------------------------------------------------------
(* Process end, start and recovery *)

NoFiles == [meta |-> [saved |-> FALSE, tid |-> 0, base |-> 0, n |-> 0, total |-> 0],
            hasRam |-> FALSE, ram |-> NoSegs, newRam |-> FALSE, kill |-> {},
            chunk |-> [n \in {} |-> NoChunk]]

NoLog == [n \in {} |-> [upd |-> FALSE, adds |-> NoRows, kill |-> {}]]

\* Everything in memory is gone; files, binlog and history stay.
Stop ==
    /\ mode' = "down"
    /\ segs' = NoSegs /\ chunks' = <<>>
    /\ dbuf' = {} /\ klist' = {} /\ dklist' = {} /\ nklist' = {}
    /\ base' = 0 /\ tid' = 0 /\ savedTid' = 0 /\ total' = 0
    /\ writer' = NoThread /\ inner' = NoThread /\ outer' = NoThread
    /\ readers' = {} /\ excl' = NoThread
    /\ pc' = [t \in Thread |-> "idle"]
    /\ loc' = [t \in Thread |-> NoLoc]
    /\ UNCHANGED <<files, log, store>>

Crash ==
    /\ mode \in {"up", "replay"} /\ crashes < MaxCrashes
    /\ \A t \in Thread : pc[t] \in CrashAt
    /\ crashes' = crashes + 1
    /\ Stop

ShutdownEnd(t) ==
    /\ At(t, "f_end") /\ loc[t].op = "shutdown"
    /\ Stop
    /\ UNCHANGED crashes

MetaChunks == files.meta.base..(files.meta.base + files.meta.n - 1)

\* Prealloc and LoadRamChunk: chunks named by .meta must load.  Without .meta the
\* index starts empty; without .ram the kill-list is not read.
Restart ==
    /\ mode = "down"
    /\ IF MetaChunks \subseteq DOMAIN files.chunk
       THEN /\ mode' = "replay"
            /\ chunks' = [i \in 1..files.meta.n |-> files.chunk[files.meta.base + i - 1]]
            /\ base' = files.meta.base
            /\ tid' = files.meta.tid /\ savedTid' = files.meta.tid
            /\ total' = files.meta.total
            /\ IF files.meta.saved /\ files.hasRam
               THEN /\ segs' = [g \in DOMAIN files.ram |-> [files.ram[g] EXCEPT !.tls = FALSE]]
                    /\ klist' = files.kill
               ELSE segs' = NoSegs /\ klist' = {}
       ELSE mode' = "dead" /\ UNCHANGED <<chunks, base, tidVars, total, segs, klist>>
    /\ UNCHANGED <<dbuf, dklist, nklist, lockVars, files, log, pc, loc, crashes, store>>

\* One thread replays the binlog before the server accepts connections.
Replayer == CHOOSE t \in Thread : TRUE
ReplayIdle == mode = "replay" /\ At(Replayer, "idle")
NextEntry(n) == n \in DOMAIN log /\ n > tid /\ \A m \in DOMAIN log : m <= tid \/ n <= m

ReplayCommit ==
    /\ ReplayIdle
    /\ \E n \in DOMAIN log :
          /\ NextEntry(n) /\ ~log[n].upd
          /\ loc' = [loc EXCEPT ![Replayer] =
                       [NoLoc EXCEPT !.op = "commit", !.adds = log[n].adds,
                                     !.kill = log[n].kill, !.etid = n]]
    /\ Goto(Replayer, "c_writer")
    /\ UNCHANGED <<memVars, lockVars, files, log, envVars, store>>

ReplayUpdateAttributes ==
    /\ ReplayIdle
    /\ \E n \in DOMAIN log :
          /\ NextEntry(n) /\ log[n].upd
          /\ WriteAttr(log[n].adds)
          /\ tid' = n
    /\ UNCHANGED <<dbuf, killVars, base, savedTid, total, lockVars, files, log, pc, loc,
                   envVars, store>>

ReplayDone ==
    /\ ReplayIdle /\ \A n \in DOMAIN log : n <= tid
    /\ mode' = "up"
    /\ UNCHANGED <<memVars, lockVars, files, log, pc, loc, crashes, store>>

-----------------------------------------------------------------------------
Init ==
    /\ segs = NoSegs /\ dbuf = {}
    /\ klist = {} /\ dklist = {} /\ nklist = {}
    /\ chunks = <<>> /\ base = 0
    /\ tid = 0 /\ savedTid = 0 /\ total = 0
    /\ writer = NoThread /\ inner = NoThread /\ outer = NoThread
    /\ readers = {} /\ excl = NoThread
    /\ files = NoFiles /\ log = NoLog
    /\ mode = "up" /\ crashes = 0
    /\ pc = [t \in Thread |-> "idle"]
    /\ loc = [t \in Thread |-> NoLoc]
    /\ store = NoRows

Commit(t) ==
    \/ CommitLockWriter(t) \/ CommitLockInner(t) \/ CommitBinlog(t) \/ CommitMark(t)
    \/ CommitMerge(t) \/ CommitMergeDone(t) \/ CommitCount(t) \/ CommitLive(t)
    \/ CommitDump(t)

SaveDiskChunk(t) ==
    SaveWrite(t) \/ SaveMeta(t) \/ SaveLockInner(t) \/ SaveSwap(t) \/ SaveEnd(t)

ForceDiskChunk(t) == DiskLockWriter(t) \/ DiskLockOuter(t) \/ DiskKlist(t)

ForceRamFlush(t) ==
    \/ FlushLock(t) \/ FlushKillOpen(t) \/ FlushKillDone(t) \/ FlushRam(t)
    \/ FlushFails(t) \/ ShutdownFails(t) \/ FlushMeta(t) \/ FlushNotify(t) \/ FlushEnd(t)

UpdateAttributes(t) == UpdateLock(t) \/ UpdateApply(t) \/ UpdateLog(t)

MultiQuery(t) == QueryDisk(t) \/ QueryRam(t) \/ QueryEnd(t)

Truncate(t) ==
    \/ TruncLockWriter(t) \/ TruncLockOuter(t) \/ TruncMeta(t) \/ TruncNotify(t)
    \/ TruncRam(t) \/ TruncChunks(t) \/ TruncMem(t)

Optimize(t) ==
    \/ OptKlist(t) \/ OptMerge(t) \/ OptGiveUp(t) \/ OptLockWriter(t) \/ OptLockOuter(t)
    \/ OptRenameOld(t) \/ OptRenameFails(t) \/ OptRenameNew(t) \/ OptSwap(t)
    \/ OptUnlink(t) \/ OptLeaveFiles(t)

BeginAny(t) ==
    \/ CommitBegin(t) \/ DiskBegin(t) \/ FlushBegin(t) \/ ShutdownBegin(t)
    \/ UpdateBegin(t) \/ SaveAttributes(t) \/ QueryBegin(t) \/ TruncBegin(t)
    \/ OptBegin(t)

\* The steps of an operation a thread is in.
Step(t) ==
    /\ mode \in {"up", "replay"}
    /\ \/ Commit(t) \/ SaveDiskChunk(t) \/ ForceDiskChunk(t) \/ ForceRamFlush(t)
       \/ UpdateAttributes(t) \/ MultiQuery(t) \/ Truncate(t) \/ Optimize(t)
       \/ ShutdownEnd(t)

Recovery == Restart \/ ReplayCommit \/ ReplayUpdateAttributes \/ ReplayDone

Next == \/ \E t \in Thread : BeginAny(t) \/ Step(t)
        \/ Crash \/ Recovery

Spec == Init /\ [][Next]_vars

\* Threads in an operation keep running.
FairSpec == Spec /\ \A t \in Thread : WF_vars(Step(t))

-----------------------------------------------------------------------------
(* Properties *)

OpNames == {"none", "commit", "disk", "flush", "shutdown", "update", "saveattrs",
            "query", "truncate", "optimize"}
Points  == {"idle", "c_writer", "c_inner", "c_binlog", "c_mark", "c_merge", "c_count",
            "c_live", "c_outer", "s_write", "s_meta", "s_inner", "s_swap", "s_end",
            "d_writer", "d_outer", "d_klist", "f_lock", "f_kill", "f_killed", "f_ram",
            "f_meta", "f_notify", "f_end", "u_lock", "u_apply", "u_log", "q_disk",
            "q_ram", "q_done", "t_writer", "t_outer", "t_meta", "t_notify", "t_ram",
            "t_chunks", "t_mem", "o_klist", "o_merge", "o_writer", "o_outer", "o_old",
            "o_new", "o_swap", "o_unlink"}

SegmentMap(f) == DOMAIN f \subseteq Tag /\ \A g \in DOMAIN f : f[g] \in Segment
LocOK(l) ==
    /\ l.op \in OpNames /\ l.adds \in Rows /\ l.kill \subseteq Doc
    /\ l.tid \in Nat /\ l.etid \in Nat /\ l.dead \in Nat
    /\ l.keep \subseteq Tag /\ SegmentMap(l.fresh) /\ l.live \subseteq Doc
    /\ l.dump \in BOOLEAN /\ l.chunk \in Chunk /\ l.got \subseteq Doc \X (Val \cup {NoRow})

\* The type invariant.
TypeOK ==
    /\ SegmentMap(segs) /\ dbuf \subseteq DOMAIN segs
    /\ klist \subseteq Doc /\ dklist \subseteq Doc /\ nklist \subseteq Doc
    /\ chunks \in Seq(Chunk) /\ base \in Nat
    /\ tid \in Nat /\ savedTid \in Nat /\ total \in Int
    /\ {writer, inner, outer, excl} \subseteq Thread \cup {NoThread}
    /\ readers \subseteq Thread
    /\ files.meta \in [saved : BOOLEAN, tid : Nat, base : Nat, n : Nat, total : Int]
    /\ files.hasRam \in BOOLEAN /\ files.newRam \in BOOLEAN
    /\ SegmentMap(files.ram) /\ files.kill \subseteq Doc
    /\ \A n \in DOMAIN files.chunk : n \in Nat /\ files.chunk[n] \in Chunk
    /\ \A n \in DOMAIN log : n \in Nat /\ log[n] \in [upd : BOOLEAN, adds : Rows, kill : SUBSET Doc]
    /\ mode \in {"up", "replay", "down", "dead"} /\ crashes \in 0..MaxCrashes
    /\ pc \in [Thread -> Points]
    /\ \A t \in Thread : LocOK(loc[t])
    /\ store \in Rows

\* Mutual exclusion: who holds which lock follows from the program points, and
\* nobody reads while a thread has m_tRwlock for writing.
WriterHeld == {"c_inner", "c_binlog", "c_mark", "c_merge", "c_count", "c_live", "c_outer",
               "s_write", "s_meta", "s_inner", "s_swap", "s_end", "d_outer", "d_klist",
               "t_outer", "t_meta", "t_notify", "t_ram", "t_chunks", "t_mem",
               "o_outer", "o_old", "o_new", "o_swap"}
InnerHeld  == {"c_binlog", "c_mark", "c_merge", "c_count", "c_live", "s_swap"}
OuterHeld  == {"s_write", "s_meta", "s_inner", "s_swap", "s_end", "d_klist", "t_meta",
               "t_notify", "t_ram", "t_chunks", "t_mem", "o_old", "o_new", "o_swap"}
ExclHeld   == {"t_notify", "t_ram", "t_chunks", "t_mem", "o_new", "o_swap"}
ReadHeld   == {"u_apply", "u_log", "q_disk", "q_ram", "q_done"}
FlushHeld  == {"f_kill", "f_killed", "f_ram", "f_meta", "f_notify", "f_end"}

Locking ==
    /\ \A t \in Thread : /\ writer = t <=> pc[t] \in WriterHeld
                         /\ inner = t  <=> pc[t] \in InnerHeld
                         /\ outer = t  <=> pc[t] \in OuterHeld
                         /\ excl = t   <=> pc[t] \in ExclHeld
                         /\ t \in readers <=> \/ pc[t] \in ReadHeld
                                              \/ pc[t] \in FlushHeld /\ loc[t].op # "shutdown"
    /\ excl # NoThread => readers = {}

\* A document has one live copy at most, over all RAM segments and disk
\* chunks: CommitReplayable kills the older copy wherever it is, although
\* merges, dumps and chunk merges move it, and kill-lists change hands.
AtMostOneAlive ==
    excl = NoThread =>
      \A d \in Doc : Cardinality(RamRows(d)) + Cardinality(DiskRows(d)) <= 1

\* indexed_documents, which commits keep by counting what they add and what
\* they find alive (CommitReplayable), is the number of documents a query finds.
TotalMatchesVisible ==
    (excl = NoThread /\ mode = "up") => total = Cardinality({d \in Doc : Visible[d] # NoRow})

\* A query scans the disk chunks and then the RAM segments (MultiQuery), while
\* commits and saves move documents from one to the other: together it has
\* found every document there is, once, in its present version.
SnapshotRead ==
    \A t \in Thread :
       At(t, "q_done") => loc[t].got = {<<d, Visible[d]>> : d \in {x \in Doc : Visible[x] # NoRow}}

\* A chunk goes online (SaveDiskChunk) with exactly the live RAM documents of
\* that moment and with the whole kill-list it takes over from the index.
SavedChunkComplete ==
    \A t \in Thread : At(t, "s_swap") =>
       /\ loc[t].chunk.klist = klist
       /\ \A d \in Doc : loc[t].chunk.row[d] =
             IF RamRows(d) = {} THEN NoRow ELSE segs[CHOOSE g \in RamRows(d) : TRUE].row[d]

\* The merger meets no document twice ("all dupes must be killed and skipped by
\* the iterator", MergeSegments), in whatever order segments get merged.
NoDupesToMerge ==
    \A t \in Thread : At(t, "c_merge") =>
       \A a, b \in DOMAIN Work(t), d \in Doc :
          (MergerSees(Work(t)[a], d, loc[t].kill) /\ MergerSees(Work(t)[b], d, loc[t].kill)) => a = b

\* While a query holds the read lock, what the index shows changes by UPDATE
\* only: commits, dumps and chunk merges become visible between the queries.
SnapshotStable ==
    [][readers \cap readers' # {} => Visible' = Visible \/ \E t \in Thread : UpdateApply(t)]_vars

\* Once no transaction is under way, the index holds what its transactions
\* made of it, also after crashes: meta, RAM chunk, kill-list, chunk files and
\* binlog tail together restore every committed one.
Durable ==
    (mode = "up" /\ \A t \in Thread : loc[t].op \notin {"commit", "update", "truncate"})
      => Visible = store

\* When no operation is under way, .meta names exactly the chunks that are online,
\* and each of their files is there: no save, merge of chunks or truncate that
\* ran beside others has left an older .meta behind.
MetaNamesChunks ==
    (mode = "up" /\ \A t \in Thread : loc[t].op \in {"none", "query"}) =>
       /\ files.meta.base = base /\ files.meta.n = Len(chunks)
       /\ \A i \in DOMAIN chunks : ChunkName(i) \in DOMAIN files.chunk

\* The files always let the index start: every chunk .meta names is there.
Restartable == mode # "dead"

\* The request of a thread, until the step at which it takes effect: the end of
\* CommitReplayable or Truncate, which lets the readers in, or the write of an UPDATE.
CommitPending == {"c_writer", "c_inner", "c_binlog", "c_mark", "c_merge", "c_count", "c_live"}
UpdatePending == {"u_lock", "u_apply"}
PendingKill(t) ==
    CASE pc[t] \in CommitPending -> loc[t].kill
      [] loc[t].op = "truncate" -> Doc
      [] OTHER -> {}
PendingAdds(t) ==
    IF pc[t] \in CommitPending \cup UpdatePending THEN loc[t].adds ELSE NoRows
Pending(t) == [adds |-> PendingAdds(t), kill |-> PendingKill(t),
               update |-> pc[t] \in UpdatePending]

\* The index implements the abstract store: what queries find changes when one request
\* takes effect, wholly and once; and never by a merge, a dump, a save or a chunk merge.
Abstract == INSTANCE DocStore WITH docs <- Visible, Client <- Thread,
                                   pending <- [t \in Thread |-> Pending(t)]
RefinesDocStore == Abstract!Spec

\* A commit that waits for its turn gets it, past saves, optimizes and truncates.
CommitEnds == \A t \in Thread : At(t, "c_writer") ~> At(t, "idle")
=============================================================================
