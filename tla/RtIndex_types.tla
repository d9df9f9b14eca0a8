---------------------------- MODULE RtIndex_types ---------------------------
(***************************************************************************)
(* Proofs, for any threads, documents and limits:                          *)
(*   - the four locks of an RT index do what RtIndex_t takes them for,     *)
(*     Spec => []Locking;                                                  *)
(*   - an RT index keeps its types, Spec => []TypeOK.  A commit computes   *)
(*     the new segments from the ones it found when it started, so types   *)
(*     need more than types: that no other thread takes segments or chunks *)
(*     away in between, which the locks and searchd's own lock on the      *)
(*     index see to.                                                       *)
(***************************************************************************)
EXTENDS RtIndex, FiniteSetTheorems, SequenceTheorems, TLAPS

-----------------------------------------------------------------------------
(* The locks. *)

\* The operation a thread is in when it is at a program point.
OpAt(l, op) ==
    /\ l = "idle" <=> op = "none"
    /\ l \in CommitPending \cup {"c_outer"} => op = "commit"
    /\ l \in {"s_write", "s_meta", "s_inner", "s_swap", "s_end"} => op \in {"commit", "disk"}
    /\ l \in {"d_writer", "d_outer", "d_klist"} => op = "disk"
    /\ l = "f_lock" => op = "flush"
    /\ l \in FlushHeld => op \in {"flush", "shutdown"}
    /\ l \in {"u_lock", "u_apply", "u_log"} => op = "update"
    /\ l \in {"q_disk", "q_ram", "q_done"} => op = "query"
    /\ l \in {"t_writer", "t_outer", "t_meta", "t_notify", "t_ram", "t_chunks", "t_mem"}
         => op = "truncate"
    /\ l \in {"o_klist", "o_merge", "o_writer", "o_outer", "o_old", "o_new", "o_swap",
              "o_unlink"} => op = "optimize"

\* Threads are at points of the code, in the operation the point belongs to.
ControlOK ==
    /\ pc \in [Thread -> Points]
    /\ DOMAIN loc = Thread
    /\ \A t \in Thread : "op" \in DOMAIN loc[t] /\ OpAt(pc[t], loc[t].op)

\* The inductive invariant.
LockInv == ControlOK /\ Locking

USE NoThreadAssumption
    DEF LockInv, ControlOK, Locking, OpAt, NoLoc, Points, CommitPending, WriterHeld,
        InnerHeld, OuterHeld, ExclHeld, ReadHeld, FlushHeld, At, Goto, Finish, Begin,
        CanWriteLock, ReadLock, ReadUnlock, lockVars, envVars

LEMMA InitLocks == Init => LockInv
BY DEF Init

LEMMA CommitKeeps ==
  ASSUME LockInv, NEW t \in Thread, Commit(t)
  PROVE  LockInv'
<1>1. CASE CommitLockWriter(t)
  BY <1>1 DEF CommitLockWriter
<1>2. CASE CommitLockInner(t)
  BY <1>2 DEF CommitLockInner
<1>3. CASE CommitBinlog(t)
  BY <1>3 DEF CommitBinlog
<1>4. CASE CommitMark(t)
  BY <1>4 DEF CommitMark
<1>5. CASE CommitMerge(t)
  BY <1>5 DEF CommitMerge
<1>6. CASE CommitMergeDone(t)
  BY <1>6 DEF CommitMergeDone
<1>7. CASE CommitCount(t)
  BY <1>7 DEF CommitCount
<1>8. CASE CommitLive(t)
  <2>1. /\ pc[t] = "c_live" /\ readers = {} /\ excl = NoThread /\ inner' = NoThread
        /\ UNCHANGED <<outer, readers, excl>>
        /\ \/ pc' = [pc EXCEPT ![t] = "c_outer"] /\ UNCHANGED <<writer, loc>>
           \/ /\ writer' = NoThread
              /\ pc' = [pc EXCEPT ![t] = "idle"] /\ loc' = [loc EXCEPT ![t] = NoLoc]
    BY <1>8, Zenon DEF CommitLive
  <2>2. NoLoc.op = "none" /\ "op" \in DOMAIN NoLoc
    OBVIOUS
  <2> QED BY <2>1, <2>2
<1>9. CASE CommitDump(t)
  BY <1>9 DEF CommitDump
<1> QED BY <1>1, <1>2, <1>3, <1>4, <1>5, <1>6, <1>7, <1>8, <1>9 DEF Commit

LEMMA SaveDiskChunkKeeps ==
  ASSUME LockInv, NEW t \in Thread, SaveDiskChunk(t)
  PROVE  LockInv'
<1>1. CASE SaveWrite(t)
  BY <1>1 DEF SaveWrite
<1>2. CASE SaveMeta(t)
  BY <1>2 DEF SaveMeta
<1>3. CASE SaveLockInner(t)
  BY <1>3 DEF SaveLockInner
<1>4. CASE SaveSwap(t)
  BY <1>4 DEF SaveSwap
<1>5. CASE SaveEnd(t)
  BY <1>5 DEF SaveEnd
<1> QED BY <1>1, <1>2, <1>3, <1>4, <1>5 DEF SaveDiskChunk

LEMMA ForceDiskChunkKeeps ==
  ASSUME LockInv, NEW t \in Thread, ForceDiskChunk(t)
  PROVE  LockInv'
<1>1. CASE DiskLockWriter(t)
  BY <1>1 DEF DiskLockWriter
<1>2. CASE DiskLockOuter(t)
  BY <1>2 DEF DiskLockOuter
<1>3. CASE DiskKlist(t)
  BY <1>3 DEF DiskKlist
<1> QED BY <1>1, <1>2, <1>3 DEF ForceDiskChunk

LEMMA ForceRamFlushKeeps ==
  ASSUME LockInv, NEW t \in Thread, ForceRamFlush(t)
  PROVE  LockInv'
<1>1. CASE FlushLock(t)
  BY <1>1 DEF FlushLock
<1>2. CASE FlushKillOpen(t)
  BY <1>2 DEF FlushKillOpen
<1>3. CASE FlushKillDone(t)
  BY <1>3 DEF FlushKillDone
<1>4. CASE FlushRam(t)
  BY <1>4 DEF FlushRam
<1>5. CASE FlushFails(t)
  BY <1>5 DEF FlushFails
<1>6. CASE ShutdownFails(t)
  BY <1>6 DEF ShutdownFails
<1>7. CASE FlushMeta(t)
  BY <1>7 DEF FlushMeta
<1>8. CASE FlushNotify(t)
  BY <1>8 DEF FlushNotify
<1>9. CASE FlushEnd(t)
  BY <1>9 DEF FlushEnd
<1> QED BY <1>1, <1>2, <1>3, <1>4, <1>5, <1>6, <1>7, <1>8, <1>9 DEF ForceRamFlush

LEMMA UpdateAttributesKeeps ==
  ASSUME LockInv, NEW t \in Thread, UpdateAttributes(t)
  PROVE  LockInv'
<1>1. CASE UpdateLock(t)
  BY <1>1 DEF UpdateLock
<1>2. CASE UpdateApply(t)
  BY <1>2 DEF UpdateApply
<1>3. CASE UpdateLog(t)
  BY <1>3 DEF UpdateLog
<1> QED BY <1>1, <1>2, <1>3 DEF UpdateAttributes

LEMMA MultiQueryKeeps ==
  ASSUME LockInv, NEW t \in Thread, MultiQuery(t)
  PROVE  LockInv'
<1>1. CASE QueryDisk(t)
  BY <1>1 DEF QueryDisk
<1>2. CASE QueryRam(t)
  BY <1>2 DEF QueryRam
<1>3. CASE QueryEnd(t)
  BY <1>3 DEF QueryEnd
<1> QED BY <1>1, <1>2, <1>3 DEF MultiQuery

LEMMA TruncateKeeps ==
  ASSUME LockInv, NEW t \in Thread, Truncate(t)
  PROVE  LockInv'
<1>1. CASE TruncLockWriter(t)
  BY <1>1 DEF TruncLockWriter
<1>2. CASE TruncLockOuter(t)
  BY <1>2 DEF TruncLockOuter
<1>3. CASE TruncMeta(t)
  BY <1>3 DEF TruncMeta
<1>4. CASE TruncNotify(t)
  BY <1>4 DEF TruncNotify
<1>5. CASE TruncRam(t)
  BY <1>5 DEF TruncRam
<1>6. CASE TruncChunks(t)
  BY <1>6 DEF TruncChunks
<1>7. CASE TruncMem(t)
  BY <1>7 DEF TruncMem
<1> QED BY <1>1, <1>2, <1>3, <1>4, <1>5, <1>6, <1>7 DEF Truncate

LEMMA OptimizeKeeps ==
  ASSUME LockInv, NEW t \in Thread, Optimize(t)
  PROVE  LockInv'
<1>1. CASE OptKlist(t)
  BY <1>1 DEF OptKlist
<1>2. CASE OptMerge(t)
  BY <1>2 DEF OptMerge
<1>3. CASE OptGiveUp(t)
  BY <1>3 DEF OptGiveUp
<1>4. CASE OptLockWriter(t)
  BY <1>4 DEF OptLockWriter
<1>5. CASE OptLockOuter(t)
  BY <1>5 DEF OptLockOuter
<1>6. CASE OptRenameOld(t)
  BY <1>6 DEF OptRenameOld
<1>7. CASE OptRenameFails(t)
  BY <1>7 DEF OptRenameFails
<1>8. CASE OptRenameNew(t)
  BY <1>8 DEF OptRenameNew
<1>9. CASE OptSwap(t)
  BY <1>9 DEF OptSwap
<1>10. CASE OptUnlink(t)
  BY <1>10 DEF OptUnlink, NextRound
<1>11. CASE OptLeaveFiles(t)
  BY <1>11 DEF OptLeaveFiles
<1> QED BY <1>1, <1>2, <1>3, <1>4, <1>5, <1>6, <1>7, <1>8, <1>9, <1>10, <1>11 DEF Optimize

LEMMA BeginAnyKeeps ==
  ASSUME LockInv, NEW t \in Thread, BeginAny(t)
  PROVE  LockInv'
<1>1. CASE CommitBegin(t)
  BY <1>1 DEF CommitBegin
<1>2. CASE DiskBegin(t)
  BY <1>2 DEF DiskBegin
<1>3. CASE FlushBegin(t)
  BY <1>3 DEF FlushBegin
<1>4. CASE ShutdownBegin(t)
  BY <1>4 DEF ShutdownBegin
<1>5. CASE UpdateBegin(t)
  BY <1>5 DEF UpdateBegin
<1>6. CASE SaveAttributes(t)
  BY <1>6 DEF SaveAttributes
<1>7. CASE QueryBegin(t)
  BY <1>7 DEF QueryBegin
<1>8. CASE TruncBegin(t)
  BY <1>8 DEF TruncBegin
<1>9. CASE OptBegin(t)
  BY <1>9 DEF OptBegin
<1> QED BY <1>1, <1>2, <1>3, <1>4, <1>5, <1>6, <1>7, <1>8, <1>9 DEF BeginAny

LEMMA StopKeeps == ASSUME LockInv, Stop PROVE LockInv'
BY DEF Stop

LEMMA RecoveryKeeps == ASSUME LockInv, Recovery PROVE LockInv'
<1>0. Replayer \in Thread
  BY ThreadAssumption DEF Replayer
<1>1. CASE Restart
  BY <1>1 DEF Restart
<1>2. CASE ReplayCommit
  BY <1>0, <1>2 DEF ReplayCommit, ReplayIdle
<1>3. CASE ReplayUpdateAttributes
  BY <1>3 DEF ReplayUpdateAttributes
<1>4. CASE ReplayDone
  BY <1>4 DEF ReplayDone
<1> QED BY <1>1, <1>2, <1>3, <1>4 DEF Recovery

LEMMA NextKeeps == ASSUME LockInv, [Next]_vars PROVE LockInv'
<1>1. CASE Next
  <2>1. ASSUME NEW t \in Thread, BeginAny(t) PROVE LockInv'
    BY <2>1, BeginAnyKeeps
  <2>2. ASSUME NEW t \in Thread, Step(t) PROVE LockInv'
    <3>1. CASE ShutdownEnd(t)
      BY <3>1, StopKeeps DEF ShutdownEnd
    <3> QED BY <2>2, <3>1, CommitKeeps, SaveDiskChunkKeeps, ForceDiskChunkKeeps,
               ForceRamFlushKeeps, UpdateAttributesKeeps, MultiQueryKeeps, TruncateKeeps,
               OptimizeKeeps DEF Step
  <2>3. CASE Crash
    BY <2>3, StopKeeps DEF Crash
  <2> QED BY <1>1, <2>1, <2>2, <2>3, RecoveryKeeps DEF Next
<1>2. CASE UNCHANGED vars
  BY <1>2 DEF vars
<1> QED BY <1>1, <1>2

\* The locks are exclusive and held exactly where the code holds them: writers,
\* dumps, merges of chunks and truncates never run into each other, whatever
\* they wait for, however they fail and wherever the process is killed.
THEOREM LocksExclude == Spec => []Locking
<1>1. Init => LockInv
  BY InitLocks
<1>2. LockInv /\ [Next]_vars => LockInv'
  BY NextKeeps
<1>3. LockInv => Locking
  OBVIOUS
<1> QED BY <1>1, <1>2, <1>3, PTL DEF Spec

-----------------------------------------------------------------------------
(* The types. *)

LocFields  == {"op", "adds", "kill", "tid", "etid", "keep", "fresh", "live", "dead",
               "dump", "chunk", "got"}
FileFields == {"meta", "hasRam", "ram", "newRam", "kill", "chunk"}

\* In a stopped process no thread is in an operation.
StoppedIdle == mode = "down" => \A t \in Thread : pc[t] = "idle"

\* searchd's lock on the index: only commits run beside TRUNCATE; and there is
\* one optimize thread.
OpsExclude ==
    \A t, u \in Thread :
       t # u => /\ loc[t].op = "truncate" => loc[u].op \in {"none", "commit"}
                /\ loc[t].op = "optimize" => loc[u].op # "optimize"

\* The segments a commit goes on with are still there.
KeptSegments ==
    \A t \in Thread : pc[t] \in {"c_merge", "c_count", "c_live"} => loc[t].keep \subseteq DOMAIN segs

\* There is a double buffer only while a thread saves it.
DoubleBufferSaved ==
    dbuf # {} => \E t \in Thread : pc[t] \in {"s_write", "s_meta", "s_inner", "s_swap"}

\* The two chunks an OPTIMIZE merges are still there.
TwoChunks ==
    \A t \in Thread :
       pc[t] \in {"o_klist", "o_merge", "o_writer", "o_outer", "o_old", "o_new", "o_swap"}
         => Len(chunks) >= 2

\* The variables that hold the data in memory, the files, the lock owners and
\* the local variables have their types.
LocIs(l) == DOMAIN l = LocFields /\ LocOK(l)

MemOK ==
    /\ SegmentMap(segs) /\ dbuf \subseteq DOMAIN segs
    /\ klist \subseteq Doc /\ dklist \subseteq Doc /\ nklist \subseteq Doc
    /\ chunks \in Seq(Chunk) /\ base \in Nat
    /\ tid \in Nat /\ savedTid \in Nat /\ total \in Int
    /\ store \in Rows

FilesOK ==
    /\ DOMAIN files = FileFields
    /\ files.meta \in [saved : BOOLEAN, tid : Nat, base : Nat, n : Nat, total : Int]
    /\ files.hasRam \in BOOLEAN /\ files.newRam \in BOOLEAN
    /\ SegmentMap(files.ram) /\ files.kill \subseteq Doc
    /\ \A n \in DOMAIN files.chunk : n \in Nat /\ files.chunk[n] \in Chunk
    /\ \A n \in DOMAIN log : n \in Nat /\ log[n] \in [upd : BOOLEAN, adds : Rows, kill : SUBSET Doc]

OwnersOK ==
    /\ {writer, inner, outer, excl} \subseteq Thread \cup {NoThread}
    /\ readers \subseteq Thread
    /\ mode \in {"up", "replay", "down", "dead"} /\ crashes \in 0..MaxCrashes

LocsOK == \A t \in Thread : LocIs(loc[t])

\* The inductive invariant.
TypeInv ==
    /\ MemOK /\ FilesOK /\ OwnersOK /\ LocsOK
    /\ LockInv /\ StoppedIdle /\ OpsExclude
    /\ KeptSegments /\ DoubleBufferSaved /\ TwoChunks

-----------------------------------------------------------------------------
(* Lemmas about the data. *)

LEMMA NoRowsType == NoRows \in Rows /\ NoChunk \in Chunk /\ SegmentMap(NoSegs)
BY DEF NoRows, Rows, NoChunk, Chunk, SegmentMap, NoSegs

LEMMA NoLocType == LocIs(NoLoc)
<1>1. NoSegs \in [{} -> {}] /\ NoLoc.op = "none" /\ NoLoc.fresh = NoSegs
  BY DEF NoLoc, NoSegs
<1>2. DOMAIN NoLoc = LocFields
  BY DEF NoLoc, LocFields
<1>3. LocOK(NoLoc)
  BY NoRowsType DEF LocOK, NoLoc, OpNames
<1> QED BY <1>2, <1>3 DEF LocIs

\* What a change of one local variable keeps.
LEMMA LocSet ==
  ASSUME NEW l, LocIs(l)
  PROVE  /\ \A x \in OpNames : LocIs([l EXCEPT !.op = x])
         /\ \A x \in Rows : LocIs([l EXCEPT !.adds = x])
         /\ \A x \in SUBSET Doc : LocIs([l EXCEPT !.kill = x])
         /\ \A x \in Nat : LocIs([l EXCEPT !.tid = x])
         /\ \A x \in Nat : LocIs([l EXCEPT !.etid = x])
         /\ \A x \in SUBSET Tag : LocIs([l EXCEPT !.keep = x])
         /\ \A x : SegmentMap(x) => LocIs([l EXCEPT !.fresh = x])
         /\ \A x \in SUBSET Doc : LocIs([l EXCEPT !.live = x])
         /\ \A x \in Nat : LocIs([l EXCEPT !.dead = x])
         /\ \A x \in BOOLEAN : LocIs([l EXCEPT !.dump = x])
         /\ \A x \in Chunk : LocIs([l EXCEPT !.chunk = x])
         /\ \A x \in SUBSET (Doc \X (Val \cup {NoRow})) : LocIs([l EXCEPT !.got = x])
BY DEF LocIs, LocOK, LocFields

LEMMA CountType == ASSUME NEW S \in SUBSET Doc PROVE Cardinality(S) \in Nat
BY DocAssumption, FS_Subset, FS_CardinalityType

LEMMA RestrictType ==
  ASSUME NEW f, SegmentMap(f), NEW S \in SUBSET DOMAIN f
  PROVE  SegmentMap(Restrict(f, S)) /\ DOMAIN Restrict(f, S) = S
BY DEF SegmentMap, Restrict

LEMMA MergeType ==
  ASSUME NEW a \in Segment, NEW b \in Segment, NEW kill
  PROVE  MergeSegments(a, b, kill) \in Segment
BY DEF Segment, Rows, MergeSegments

\* A commit builds its vector from segments.
LEMMA WorkType ==
  ASSUME NEW t \in Thread, SegmentMap(segs), LocIs(loc[t]), loc[t].keep \subseteq DOMAIN segs
  PROVE  SegmentMap(Work(t))
BY DEF SegmentMap, Work, LocIs, LocOK

\* An alive row in RAM has a version.
LEMMA RamRowType ==
  ASSUME SegmentMap(segs), NEW d \in Doc, RamRows(d) # {}
  PROVE  segs[CHOOSE g \in RamRows(d) : TRUE].row[d] \in Val \cup {NoRow}
<1>1. (CHOOSE g \in RamRows(d) : TRUE) \in DOMAIN segs
  BY DEF RamRows
<1> QED BY <1>1 DEF SegmentMap, Segment, Rows

LEMMA NewTagType == ASSUME NEW used, Tag \ used # {} PROVE NewTag(used) \in Tag \ used
BY DEF NewTag

\* UPDATE changes rows, not the segments and chunks there are.
LEMMA WriteAttrType ==
  ASSUME SegmentMap(segs), chunks \in Seq(Chunk), NEW adds \in Rows, WriteAttr(adds)
  PROVE  /\ SegmentMap(segs)' /\ DOMAIN segs' = DOMAIN segs
         /\ chunks' \in Seq(Chunk) /\ Len(chunks') = Len(chunks)
<1> DEFINE d == Target(adds)
<1>1. d \in Doc => adds[d] \in Val \cup {NoRow}
  BY DEF Rows
<1>2. \A s \in Segment : [s EXCEPT !.row[d] = adds[d]] \in Segment
  BY <1>1 DEF Segment, Rows
<1>3. \A c \in Chunk : [c EXCEPT !.row[d] = adds[d]] \in Chunk
  BY <1>1 DEF Chunk, Rows
<1>4. CASE \E g \in RamRows(d) : segs' = [segs EXCEPT ![g].row[d] = adds[d]] /\ UNCHANGED chunks
  BY <1>2, <1>4 DEF SegmentMap
<1>5. CASE UNCHANGED <<segs, chunks>>
  BY <1>5
<1>6. CASE \E i \in DOMAIN chunks : chunks' = [chunks EXCEPT ![i].row[d] = adds[d]] /\ UNCHANGED segs
  <2>1. PICK i \in DOMAIN chunks : chunks' = [chunks EXCEPT ![i].row[d] = adds[d]]
    BY <1>6
  <2>2. i \in 1..Len(chunks) /\ chunks[i] \in Chunk
    BY LenProperties
  <2>3. chunks' = [chunks EXCEPT ![i] = [chunks[i] EXCEPT !.row[d] = adds[d]]]
    BY <2>1
  <2>4. chunks' \in Seq(Chunk) /\ Len(chunks') = Len(chunks)
    BY <1>3, <2>2, <2>3, ExceptSeq
  <2> QED BY <1>6, <2>4
<1> QED BY <1>4, <1>5, <1>6 DEF WriteAttr

-----------------------------------------------------------------------------
(* The data in memory. *)

LEMMA MemFrame == ASSUME MemOK, UNCHANGED <<memVars, store>> PROVE MemOK'
BY DEF MemOK, memVars, segVars, killVars, chunkVars, tidVars

LEMMA CommitMem == ASSUME TypeInv, NEW t \in Thread, Commit(t) PROVE MemOK'
<1> USE DEF memVars, segVars, killVars, chunkVars, tidVars
<1>0. MemOK /\ LocIs(loc[t])
  BY DEF TypeInv, LocsOK
<1>1. CASE CommitBinlog(t)
  <2>1. store' = store \/ store' = Applied(store, loc[t].adds, loc[t].kill)
    BY <1>1 DEF CommitBinlog
  <2>2. loc[t].adds \in Rows
    BY <1>0 DEF LocIs, LocOK
  <2>3. store' \in Rows
    BY <1>0, <2>1, <2>2 DEF MemOK, Applied, Rows
  <2> QED BY <1>0, <1>1, <2>3 DEF MemOK, CommitBinlog, Logged
<1>2. CASE CommitMark(t)
  <2>1. \A s \in Segment : [s EXCEPT !.tls = TRUE] \in Segment
    BY DEF Segment
  <2>2. SegmentMap(segs)' /\ DOMAIN segs' = DOMAIN segs
    BY <1>0, <1>2, <2>1 DEF MemOK, CommitMark, SegmentMap
  <2> QED BY <1>0, <1>2, <2>2 DEF MemOK, CommitMark
<1>3. CASE CommitLive(t)
  <2> DEFINE kill == loc[t].kill
             new  == [g \in DOMAIN Work(t) |->
                        LET s == Work(t)[g] IN
                        IF ~s.tls THEN s
                        ELSE [s EXCEPT !.tls = FALSE,
                                       !.klist = @ \cup {d \in kill : AliveRow(s, d)}]]
             live == {g \in DOMAIN new : \E d \in Doc : AliveRow(new[g], d)}
  <2>1. kill \subseteq Doc /\ loc[t].live \subseteq Doc /\ loc[t].dead \in Nat /\ loc[t].etid \in Nat
    BY <1>0 DEF LocIs, LocOK
  <2>2. SegmentMap(Work(t))
    BY <1>0, <1>3, WorkType DEF TypeInv, KeptSegments, CommitLive, At, MemOK
  <2>3. \A s \in Segment : [s EXCEPT !.tls = FALSE,
                                     !.klist = @ \cup {d \in kill : AliveRow(s, d)}] \in Segment
    BY <2>1 DEF Segment
  <2>4. SegmentMap(new)
    BY <2>2, <2>3 DEF SegmentMap
  <2>5. segs' = [g \in dbuf \cup live |-> IF g \in dbuf THEN segs[g] ELSE new[g]]
    BY <1>3 DEF CommitLive
  <2>6. SegmentMap(segs)' /\ dbuf \subseteq DOMAIN segs'
    BY <1>0, <2>4, <2>5 DEF MemOK, SegmentMap
  <2>7. Cardinality({d \in Doc : loc[t].adds[d] # NoRow}) \in Nat
    BY CountType
  <2>8. /\ klist' = klist \cup loc[t].live
        /\ nklist' = IF dbuf = {} THEN nklist ELSE nklist \cup loc[t].live
        /\ total' = total + Cardinality({d \in Doc : loc[t].adds[d] # NoRow}) - loc[t].dead
        /\ tid' = tid \/ tid' = loc[t].etid
        /\ UNCHANGED <<dbuf, dklist, chunkVars, savedTid, store>>
    BY <1>3 DEF CommitLive
  <2> HIDE DEF new, live
  <2> QED BY <1>0, <2>1, <2>6, <2>7, <2>8 DEF MemOK
<1>4. CASE CommitDump(t)
  BY <1>0, <1>4 DEF MemOK, CommitDump
<1>5. CASE \/ CommitLockWriter(t) \/ CommitLockInner(t) \/ CommitMerge(t)
           \/ CommitMergeDone(t) \/ CommitCount(t)
  <2>1. UNCHANGED <<memVars, store>>
    BY <1>5 DEF CommitLockWriter, CommitLockInner, CommitMerge, CommitMergeDone, CommitCount
  <2> QED BY <1>0, <2>1, MemFrame
<1> QED BY <1>1, <1>2, <1>3, <1>4, <1>5 DEF Commit

LEMMA SaveMem ==
  ASSUME TypeInv, NEW t \in Thread, SaveDiskChunk(t) \/ ForceDiskChunk(t)
  PROVE  MemOK'
<1> USE DEF memVars, segVars, killVars, chunkVars, tidVars
<1>0. MemOK /\ LocIs(loc[t])
  BY DEF TypeInv, LocsOK
<1>1. CASE SaveSwap(t)
  <2>1. loc[t].chunk \in Chunk /\ loc[t].tid \in Nat
    BY <1>0 DEF LocIs, LocOK
  <2>2. chunks' \in Seq(Chunk)
    BY <1>0, <1>1, <2>1, AppendProperties DEF MemOK, SaveSwap
  <2>3. SegmentMap(segs)'
    BY <1>0, <1>1, RestrictType, NoRowsType DEF MemOK, SaveSwap
  <2> QED BY <1>0, <1>1, <2>1, <2>2, <2>3 DEF MemOK, SaveSwap
<1>2. CASE SaveEnd(t)
  BY <1>0, <1>2 DEF MemOK, SaveEnd, LocIs, LocOK
<1>3. CASE DiskKlist(t)
  BY <1>0, <1>3 DEF MemOK, DiskKlist
<1>4. CASE \/ SaveWrite(t) \/ SaveMeta(t) \/ SaveLockInner(t)
           \/ DiskLockWriter(t) \/ DiskLockOuter(t)
  <2>1. UNCHANGED <<memVars, store>>
    BY <1>4 DEF SaveWrite, SaveMeta, SaveLockInner, DiskLockWriter, DiskLockOuter
  <2> QED BY <1>0, <2>1, MemFrame
<1> QED BY <1>1, <1>2, <1>3, <1>4 DEF SaveDiskChunk, ForceDiskChunk

LEMMA FlushMem ==
  ASSUME TypeInv, NEW t \in Thread, ForceRamFlush(t) \/ MultiQuery(t) PROVE MemOK'
<1> USE DEF memVars, segVars, killVars, chunkVars, tidVars
<1>0. MemOK
  BY DEF TypeInv
<1>1. CASE FlushEnd(t)
  BY <1>0, <1>1 DEF MemOK, FlushEnd
<1>2. CASE \/ FlushLock(t) \/ FlushKillOpen(t) \/ FlushKillDone(t) \/ FlushRam(t) \/ FlushFails(t)
           \/ ShutdownFails(t) \/ FlushMeta(t) \/ FlushNotify(t) \/ MultiQuery(t)
  <2>1. UNCHANGED <<memVars, store>>
    BY <1>2 DEF FlushLock, FlushKillOpen, FlushKillDone, FlushRam, FlushFails, ShutdownFails,
                FlushMeta, FlushNotify, MultiQuery, QueryDisk, QueryRam, QueryEnd
  <2> QED BY <1>0, <2>1, MemFrame
<1> QED BY <1>1, <1>2 DEF ForceRamFlush

LEMMA UpdateMem == ASSUME TypeInv, NEW t \in Thread, UpdateAttributes(t) PROVE MemOK'
<1> USE DEF memVars, segVars, killVars, chunkVars, tidVars
<1>0. MemOK /\ loc[t].adds \in Rows
  BY DEF TypeInv, LocsOK, LocIs, LocOK
<1>1. CASE UpdateLock(t)
  BY <1>0, <1>1, MemFrame DEF UpdateLock
<1>2. CASE UpdateApply(t)
  BY <1>0, <1>2, WriteAttrType DEF MemOK, UpdateApply
<1>3. CASE UpdateLog(t)
  <2>1. store' \in Rows
    BY <1>0, <1>3 DEF MemOK, UpdateLog, Updated, Rows
  <2> QED BY <1>0, <1>3, <2>1 DEF MemOK, UpdateLog, Logged
<1> QED BY <1>1, <1>2, <1>3 DEF UpdateAttributes

\* A truncate empties the segments: no double buffer is being saved beside it.
LEMMA TruncateMem == ASSUME TypeInv, NEW t \in Thread, Truncate(t) PROVE MemOK'
<1> USE DEF memVars, segVars, killVars, chunkVars, tidVars
<1>0. MemOK
  BY DEF TypeInv
<1>1. CASE TruncMeta(t)
  BY <1>0, <1>1, NoRowsType DEF MemOK, TruncMeta
<1>2. CASE TruncMem(t)
  <2>1. pc[t] = "t_mem"
    BY <1>2 DEF TruncMem, At
  <2>2. ASSUME NEW u \in Thread, pc[u] \in {"s_write", "s_meta", "s_inner", "s_swap"}
        PROVE  FALSE
    BY <2>1, <2>2 DEF TypeInv, LockInv, Locking, WriterHeld
  <2>3. dbuf = {}
    BY <2>2 DEF TypeInv, DoubleBufferSaved
  <2>4. SegmentMap(segs)' /\ chunks' \in Seq(Chunk)
    BY <1>2, NoRowsType, EmptySeq DEF TruncMem
  <2> QED BY <1>0, <1>2, <2>3, <2>4 DEF MemOK, TruncMem
<1>3. CASE \/ TruncLockWriter(t) \/ TruncLockOuter(t) \/ TruncNotify(t) \/ TruncRam(t)
           \/ TruncChunks(t)
  <2>1. UNCHANGED <<memVars, store>>
    BY <1>3 DEF TruncLockWriter, TruncLockOuter, TruncNotify, TruncRam, TruncChunks
  <2> QED BY <1>0, <2>1, MemFrame
<1> QED BY <1>1, <1>2, <1>3 DEF Truncate

LEMMA OptimizeMem == ASSUME TypeInv, NEW t \in Thread, Optimize(t) PROVE MemOK'
<1> USE DEF memVars, segVars, killVars, chunkVars, tidVars
<1>0. MemOK /\ loc[t].chunk \in Chunk
  BY DEF TypeInv, LocsOK, LocIs, LocOK
<1>1. CASE OptSwap(t)
  <2>1. Len(chunks) \in Nat /\ \A i \in 3..Len(chunks) : chunks[i] \in Chunk
    BY <1>0, LenProperties, ElementOfSeq DEF MemOK
  <2>2. SubSeq(chunks, 3, Len(chunks)) \in Seq(Chunk)
    BY <2>1, SubSeqProperties
  <2>3. <<loc[t].chunk>> \o SubSeq(chunks, 3, Len(chunks)) \in Seq(Chunk)
    BY <1>0, <2>2, ConcatProperties
  <2> QED BY <1>0, <1>1, <2>3 DEF MemOK, OptSwap
<1>2. CASE \/ OptKlist(t) \/ OptMerge(t) \/ OptGiveUp(t) \/ OptLockWriter(t) \/ OptLockOuter(t)
           \/ OptRenameOld(t) \/ OptRenameFails(t) \/ OptRenameNew(t)
           \/ OptUnlink(t) \/ OptLeaveFiles(t)
  <2>1. UNCHANGED <<memVars, store>>
    BY <1>2 DEF OptKlist, OptMerge, OptGiveUp, OptLockWriter, OptLockOuter, OptRenameOld,
                OptRenameFails, OptRenameNew, OptUnlink, OptLeaveFiles
  <2> QED BY <1>0, <2>1, MemFrame
<1> QED BY <1>1, <1>2 DEF Optimize

LEMMA StopMem == ASSUME MemOK, Stop PROVE MemOK'
BY NoRowsType, EmptySeq DEF MemOK, Stop

LEMMA BeginMem == ASSUME TypeInv, NEW t \in Thread, BeginAny(t) PROVE MemOK'
<1>1. UNCHANGED <<memVars, store>>
  BY DEF BeginAny, CommitBegin, DiskBegin, FlushBegin, ShutdownBegin, UpdateBegin,
         SaveAttributes, QueryBegin, TruncBegin, OptBegin
<1> QED BY <1>1, MemFrame DEF TypeInv

\* A start takes memory from the files.
LEMMA RecoveryMem == ASSUME TypeInv, Recovery PROVE MemOK'
<1> USE DEF memVars, segVars, killVars, chunkVars, tidVars
<1>0. MemOK /\ FilesOK
  BY DEF TypeInv
<1>1. CASE Restart
  <2>1. dbuf = {}
    <3>1. mode = "down"
      BY <1>1 DEF Restart
    <3> QED BY <3>1 DEF TypeInv, StoppedIdle, DoubleBufferSaved
  <2>2. CASE MetaChunks \subseteq DOMAIN files.chunk
    <3>1. files.meta.n \in Nat /\ files.meta.base \in Nat /\ files.meta.tid \in Nat
          /\ files.meta.total \in Int
      BY <1>0 DEF FilesOK
    <3>2. \A i \in 1..files.meta.n : files.chunk[files.meta.base + i - 1] \in Chunk
      <4>1. \A i \in 1..files.meta.n : files.meta.base + i - 1 \in MetaChunks
        BY <3>1 DEF MetaChunks
      <4> QED BY <1>0, <2>2, <4>1 DEF FilesOK
    <3>3. [i \in 1..files.meta.n |-> files.chunk[files.meta.base + i - 1]] \in Seq(Chunk)
      BY <3>1, <3>2, IsASeq
    <3>4. \A s \in Segment : [s EXCEPT !.tls = FALSE] \in Segment
      BY DEF Segment
    <3>5. SegmentMap(segs)' /\ klist' \subseteq Doc
      BY <1>0, <1>1, <2>2, <3>4, NoRowsType DEF FilesOK, Restart, SegmentMap
    <3> QED BY <1>0, <1>1, <2>1, <2>2, <3>1, <3>3, <3>5 DEF MemOK, Restart
  <2>3. CASE ~(MetaChunks \subseteq DOMAIN files.chunk)
    BY <1>0, <1>1, <2>3 DEF MemOK, Restart
  <2> QED BY <2>2, <2>3
<1>2. CASE ReplayUpdateAttributes
  <2>1. PICK n \in DOMAIN log : WriteAttr(log[n].adds) /\ tid' = n
    BY <1>2 DEF ReplayUpdateAttributes
  <2>2. n \in Nat /\ log[n].adds \in Rows
    BY <1>0, <2>1 DEF FilesOK
  <2> QED BY <1>0, <1>2, <2>1, <2>2, WriteAttrType DEF MemOK, ReplayUpdateAttributes
<1>3. CASE ReplayCommit \/ ReplayDone
  BY <1>0, <1>3, MemFrame DEF ReplayCommit, ReplayDone
<1> QED BY <1>1, <1>2, <1>3 DEF Recovery

LEMMA MemKept == ASSUME TypeInv, [Next]_vars PROVE MemOK'
<1>1. ASSUME NEW t \in Thread, Step(t) PROVE MemOK'
  BY <1>1, CommitMem, SaveMem, FlushMem, UpdateMem, TruncateMem, OptimizeMem, StopMem
     DEF Step, ShutdownEnd, TypeInv
<1>2. CASE Crash
  BY <1>2, StopMem DEF Crash, TypeInv
<1>3. CASE UNCHANGED vars
  BY <1>3, MemFrame DEF vars, TypeInv
<1> QED BY <1>1, <1>2, <1>3, BeginMem, RecoveryMem DEF Next

-----------------------------------------------------------------------------
(* The files and the binlog. *)

LEMMA FilesFrame == ASSUME FilesOK, UNCHANGED <<files, log>> PROVE FilesOK'
BY DEF FilesOK

ChunkFiles(f) == \A n \in DOMAIN f : n \in Nat /\ f[n] \in Chunk

\* What a change of one file keeps.
LEMMA FileSet ==
  ASSUME FilesOK, UNCHANGED log
  PROVE  /\ \A m \in [saved : BOOLEAN, tid : Nat, base : Nat, n : Nat, total : Int] :
               files' = [files EXCEPT !.meta = m] => FilesOK'
         /\ files' = [files EXCEPT !.ram = NoSegs, !.hasRam = FALSE] => FilesOK'
         /\ \A f : ChunkFiles(f) /\ files' = [files EXCEPT !.chunk = f] => FilesOK'
BY NoRowsType DEF FilesOK, FileFields, ChunkFiles

LEMMA ChunkFileSet ==
  ASSUME FilesOK, NEW n \in Nat, NEW c \in Chunk
  PROVE  ChunkFiles([i \in DOMAIN files.chunk \cup {n} |-> IF i = n THEN c ELSE files.chunk[i]])
BY DEF FilesOK, ChunkFiles

LEMMA ChunkFileDrop ==
  ASSUME FilesOK, NEW S
  PROVE  ChunkFiles(Restrict(files.chunk, DOMAIN files.chunk \ S))
BY DEF FilesOK, ChunkFiles, Restrict

LEMMA SavedAttributesType == ASSUME FilesOK, MemOK PROVE ChunkFiles(SavedAttributes)
<1>1. \A i \in DOMAIN chunks : chunks[i].row \in Rows
  <2>1. DOMAIN chunks = 1..Len(chunks)
    BY LenProperties DEF MemOK
  <2>2. \A i \in 1..Len(chunks) : chunks[i] \in Chunk
    BY ElementOfSeq DEF MemOK
  <2> QED BY <2>1, <2>2 DEF Chunk
<1>2. \A c \in Chunk, r \in Rows : [c EXCEPT !.row = r] \in Chunk
  BY DEF Chunk
<1> QED BY <1>1, <1>2 DEF SavedAttributes, FilesOK, ChunkFiles

LEMMA NotifyType ==
  ASSUME FilesOK, NEW n, NotifyIndexFlush(n), UNCHANGED files PROVE FilesOK'
BY DEF FilesOK, NotifyIndexFlush, Restrict

LEMMA LoggedType ==
  ASSUME FilesOK, tid \in Nat, NEW u \in BOOLEAN, NEW adds \in Rows, NEW kill \in SUBSET Doc,
         Logged(u, adds, kill), UNCHANGED files
  PROVE  FilesOK'
BY DEF FilesOK, Logged

LEMMA MetaType ==
  ASSUME MemOK, NEW n \in Nat, NEW t \in Nat
  PROVE  Meta(n, t) \in [saved : BOOLEAN, tid : Nat, base : Nat, n : Nat, total : Int]
BY DEF MemOK, Meta, MetaFile

LEMMA CommitFiles == ASSUME TypeInv, NEW t \in Thread, Commit(t) PROVE FilesOK'
<1>0. FilesOK /\ MemOK /\ loc[t].adds \in Rows /\ loc[t].kill \in SUBSET Doc
  BY DEF TypeInv, LocsOK, LocIs, LocOK
<1>1. CASE CommitBinlog(t)
  BY <1>0, <1>1, FilesFrame, LoggedType DEF CommitBinlog, MemOK
<1>2. CASE \/ CommitLockWriter(t) \/ CommitLockInner(t) \/ CommitMark(t) \/ CommitMerge(t)
           \/ CommitMergeDone(t) \/ CommitCount(t) \/ CommitLive(t) \/ CommitDump(t)
  <2>1. UNCHANGED <<files, log>>
    BY <1>2 DEF CommitLockWriter, CommitLockInner, CommitMark, CommitMerge, CommitMergeDone,
                CommitCount, CommitLive, CommitDump
  <2> QED BY <1>0, <2>1, FilesFrame
<1> QED BY <1>1, <1>2 DEF Commit

LEMMA SaveFiles ==
  ASSUME TypeInv, NEW t \in Thread, SaveDiskChunk(t) \/ ForceDiskChunk(t)
  PROVE  FilesOK'
<1>0. FilesOK /\ MemOK /\ loc[t].tid \in Nat /\ Len(chunks) \in Nat /\ base \in Nat
  BY LenProperties DEF TypeInv, LocsOK, LocIs, LocOK, MemOK
<1>1. CASE SaveWrite(t)
  <2> DEFINE row(d) == IF RamRows(d) = {} THEN NoRow
                       ELSE segs[CHOOSE g \in RamRows(d) : TRUE].row[d]
             c == [row |-> [d \in Doc |-> row(d)], klist |-> dklist]
             n == ChunkName(Len(chunks) + 1)
  <2>1. c \in Chunk
    BY <1>0, RamRowType DEF MemOK, Chunk, Rows
  <2>2. n \in Nat
    BY <1>0 DEF ChunkName
  <2>3. CASE files' = [files EXCEPT !.chunk =
                         [i \in DOMAIN @ \cup {n} |-> IF i = n THEN c ELSE @[i]]]
    <3> HIDE DEF c, n
    <3> QED BY ZenonT(60), <1>0, <1>1, <2>1, <2>2, <2>3, ChunkFileSet, FileSet DEF SaveWrite
  <2>4. CASE UNCHANGED files
    BY <1>0, <1>1, <2>4, FilesFrame DEF SaveWrite
  <2> QED BY <1>1, <2>3, <2>4 DEF SaveWrite
<1>2. CASE SaveMeta(t)
  <2>1. Len(chunks) + 1 \in Nat
    BY <1>0
  <2>2. Meta(Len(chunks) + 1, loc[t].tid)
           \in [saved : BOOLEAN, tid : Nat, base : Nat, n : Nat, total : Int]
    BY <1>0, <2>1, MetaType
  <2> QED BY <1>0, <1>2, <2>2, FileSet DEF SaveMeta
<1>3. CASE SaveSwap(t)
  BY <1>0, <1>3, FileSet DEF SaveSwap
<1>4. CASE SaveEnd(t)
  BY <1>0, <1>4, NotifyType, FilesFrame DEF SaveEnd
<1>5. CASE SaveLockInner(t) \/ DiskLockWriter(t) \/ DiskLockOuter(t) \/ DiskKlist(t)
  BY <1>0, <1>5, FilesFrame DEF SaveLockInner, DiskLockWriter, DiskLockOuter, DiskKlist
<1> QED BY <1>1, <1>2, <1>3, <1>4, <1>5 DEF SaveDiskChunk, ForceDiskChunk

\* The same of a flush: the kill-list file emptied, written, and the RAM chunk's file.
LEMMA FlushedFileSet ==
  ASSUME FilesOK, UNCHANGED log
  PROVE  /\ files' = [files EXCEPT !.kill = {}] => FilesOK'
         /\ \A K \in SUBSET Doc :
               files' = [files EXCEPT !.kill = K, !.newRam = TRUE] => FilesOK'
         /\ \A s : SegmentMap(s)
                    /\ files' = [files EXCEPT !.hasRam = TRUE, !.ram = s, !.newRam = FALSE]
                      => FilesOK'
<1>1. files' = [files EXCEPT !.kill = {}] => FilesOK'
  BY DEF FilesOK, FileFields
<1>2. ASSUME NEW K \in SUBSET Doc, files' = [files EXCEPT !.kill = K, !.newRam = TRUE]
      PROVE  FilesOK'
  BY <1>2 DEF FilesOK, FileFields
<1>3. ASSUME NEW s, SegmentMap(s),
             files' = [files EXCEPT !.hasRam = TRUE, !.ram = s, !.newRam = FALSE]
      PROVE  FilesOK'
  BY <1>3 DEF FilesOK, FileFields
<1> QED BY <1>1, <1>2, <1>3

LEMMA FlushFiles == ASSUME TypeInv, NEW t \in Thread, ForceRamFlush(t) PROVE FilesOK'
<1>0. FilesOK /\ MemOK /\ Len(chunks) \in Nat
  BY LenProperties DEF TypeInv, MemOK
<1>1. CASE FlushKillOpen(t) \/ FlushKillDone(t)
  <2>1. klist \in SUBSET Doc /\ UNCHANGED log
    BY <1>0, <1>1 DEF FlushKillOpen, FlushKillDone, MemOK
  <2>2. \/ files' = [files EXCEPT !.kill = {}]
        \/ files' = [files EXCEPT !.kill = klist, !.newRam = TRUE]
    BY <1>1 DEF FlushKillOpen, FlushKillDone
  <2> QED BY <1>0, <2>1, <2>2, FlushedFileSet
<1>2. CASE FlushRam(t)
  <2>1. SegmentMap(segs) /\ UNCHANGED log
    BY <1>0, <1>2 DEF FlushRam, MemOK
  <2>2. CASE files' = [files EXCEPT !.hasRam = TRUE, !.ram = segs, !.newRam = FALSE]
    BY <1>0, <2>1, <2>2, FlushedFileSet
  <2>3. CASE UNCHANGED files
    BY <1>0, <2>1, <2>3, FilesFrame
  <2> QED BY <1>2, <2>2, <2>3 DEF FlushRam
<1>3. CASE FlushMeta(t)
  BY <1>0, <1>3, MetaType, FileSet DEF FlushMeta, MemOK
<1>4. CASE FlushNotify(t)
  BY <1>0, <1>4, NotifyType DEF FlushNotify
<1>5. CASE FlushLock(t) \/ FlushFails(t) \/ ShutdownFails(t) \/ FlushEnd(t)
  BY <1>0, <1>5, FilesFrame DEF FlushLock, FlushFails, ShutdownFails, FlushEnd
<1> QED BY <1>1, <1>2, <1>3, <1>4, <1>5 DEF ForceRamFlush

LEMMA UpdateFiles ==
  ASSUME TypeInv, NEW t \in Thread, UpdateAttributes(t) \/ MultiQuery(t)
  PROVE  FilesOK'
<1>0. FilesOK /\ MemOK /\ loc[t].adds \in Rows
  BY DEF TypeInv, LocsOK, LocIs, LocOK
<1>1. CASE UpdateLog(t)
  <2>1. Logged(TRUE, loc[t].adds, {}) /\ UNCHANGED files
    BY <1>1 DEF UpdateLog
  <2>2. tid \in Nat /\ TRUE \in BOOLEAN /\ {} \in SUBSET Doc
    BY <1>0 DEF MemOK
  <2> QED BY <1>0, <2>1, <2>2, LoggedType, Zenon
<1>2. CASE UpdateLock(t) \/ UpdateApply(t) \/ MultiQuery(t)
  BY <1>0, <1>2, FilesFrame DEF UpdateLock, UpdateApply, MultiQuery, QueryDisk, QueryRam, QueryEnd
<1> QED BY <1>1, <1>2 DEF UpdateAttributes

LEMMA TruncateFiles == ASSUME TypeInv, NEW t \in Thread, Truncate(t) PROVE FilesOK'
<1>0. FilesOK /\ MemOK
  BY DEF TypeInv
<1>1. CASE TruncMeta(t)
  <2>1. MetaFile(tid, 0, 0, 0) \in [saved : BOOLEAN, tid : Nat, base : Nat, n : Nat, total : Int]
    BY <1>0 DEF MetaFile, MemOK
  <2> QED BY <1>0, <1>1, <2>1, FileSet DEF TruncMeta
<1>2. CASE TruncNotify(t)
  BY <1>0, <1>2, NotifyType DEF TruncNotify
<1>3. CASE TruncRam(t)
  BY <1>0, <1>3, FileSet DEF TruncRam
<1>4. CASE TruncChunks(t)
  BY <1>0, <1>4, ChunkFileDrop, FileSet DEF TruncChunks
<1>5. CASE TruncLockWriter(t) \/ TruncLockOuter(t) \/ TruncMem(t)
  BY <1>0, <1>5, FilesFrame DEF TruncLockWriter, TruncLockOuter, TruncMem
<1> QED BY <1>1, <1>2, <1>3, <1>4, <1>5 DEF Truncate

\* The merge of chunks needs the two chunks it started with.
LEMMA OptimizeFiles == ASSUME TypeInv, NEW t \in Thread, Optimize(t) PROVE FilesOK'
<1>0. FilesOK /\ MemOK /\ loc[t].chunk \in Chunk /\ Len(chunks) \in Nat /\ ChunkName(2) \in Nat
  BY LenProperties DEF TypeInv, LocsOK, LocIs, LocOK, MemOK, ChunkName
<1>1. CASE OptRenameOld(t)
  BY <1>0, <1>1, ChunkFileDrop, FileSet DEF OptRenameOld
<1>2. CASE OptRenameNew(t)
  BY <1>0, <1>2, ChunkFileSet, FileSet DEF OptRenameNew
<1>3. CASE OptRenameFails(t)
  <2>1. CASE UNCHANGED files
    BY <1>0, <1>3, <2>1, FilesFrame DEF OptRenameFails
  <2>2. CASE /\ At(t, "o_new")
             /\ files' = [files EXCEPT !.chunk = [n \in DOMAIN @ \cup {ChunkName(2)} |->
                                           IF n = ChunkName(2) THEN chunks[2] ELSE @[n]]]
    <3>1. Len(chunks) >= 2
      BY <2>2 DEF TypeInv, TwoChunks, At
    <3>2. chunks[2] \in Chunk
      BY <1>0, <3>1, ElementOfSeq DEF MemOK
    <3>3. ChunkFiles([n \in DOMAIN files.chunk \cup {ChunkName(2)} |->
                        IF n = ChunkName(2) THEN chunks[2] ELSE files.chunk[n]])
      BY <1>0, <3>2, ChunkFileSet
    <3>4. UNCHANGED log
      BY <1>3 DEF OptRenameFails
    <3> QED BY <1>0, <2>2, <3>3, <3>4, FileSet
  <2> QED BY <1>3, <2>1, <2>2 DEF OptRenameFails
<1>4. CASE OptSwap(t)
  <2>1. Len(chunks) >= 2
    BY <1>4 DEF OptSwap, TypeInv, TwoChunks, At
  <2>2. MetaFile(tid, base + 1, Len(chunks) - 1, total)
           \in [saved : BOOLEAN, tid : Nat, base : Nat, n : Nat, total : Int]
    BY <1>0, <2>1 DEF MetaFile, MemOK
  <2> QED BY <1>0, <1>4, <2>2, FileSet DEF OptSwap
<1>5. CASE OptUnlink(t)
  BY <1>0, <1>5, ChunkFileDrop, FileSet DEF OptUnlink
<1>6. CASE \/ OptKlist(t) \/ OptMerge(t) \/ OptGiveUp(t) \/ OptLockWriter(t) \/ OptLockOuter(t)
           \/ OptLeaveFiles(t)
  BY <1>0, <1>6, FilesFrame
     DEF OptKlist, OptMerge, OptGiveUp, OptLockWriter, OptLockOuter, OptLeaveFiles
<1> QED BY <1>1, <1>2, <1>3, <1>4, <1>5, <1>6 DEF Optimize

LEMMA BeginFiles == ASSUME TypeInv, NEW t \in Thread, BeginAny(t) PROVE FilesOK'
<1>0. FilesOK /\ MemOK
  BY DEF TypeInv
<1>1. CASE ShutdownBegin(t) \/ SaveAttributes(t)
  BY <1>0, <1>1, SavedAttributesType, FileSet DEF ShutdownBegin, SaveAttributes
<1>2. CASE \/ CommitBegin(t) \/ DiskBegin(t) \/ FlushBegin(t) \/ UpdateBegin(t)
           \/ QueryBegin(t) \/ TruncBegin(t) \/ OptBegin(t)
  BY <1>0, <1>2, FilesFrame
     DEF CommitBegin, DiskBegin, FlushBegin, UpdateBegin, QueryBegin, TruncBegin, OptBegin
<1> QED BY <1>1, <1>2 DEF BeginAny

LEMMA FilesKept == ASSUME TypeInv, [Next]_vars PROVE FilesOK'
<1>0. FilesOK
  BY DEF TypeInv
<1>1. CASE Stop \/ Recovery \/ UNCHANGED vars
  BY <1>0, <1>1, FilesFrame
     DEF Stop, Recovery, Restart, ReplayCommit, ReplayUpdateAttributes, ReplayDone, vars
<1>2. ASSUME NEW t \in Thread, Step(t) PROVE FilesOK'
  BY <1>1, <1>2, CommitFiles, SaveFiles, FlushFiles, UpdateFiles, TruncateFiles, OptimizeFiles
     DEF Step, ShutdownEnd
<1> QED BY <1>1, <1>2, BeginFiles DEF Next, Crash

-----------------------------------------------------------------------------
(* Lock owners, the process, and which operations run together. *)

LEMMA OwnersFrame ==
  ASSUME OwnersOK, UNCHANGED <<mode, crashes>>, NEW t \in Thread,
         writer' \in {writer, t, NoThread}, inner' \in {inner, t, NoThread},
         outer' \in {outer, t, NoThread}, excl' \in {excl, t, NoThread},
         readers' \subseteq readers \cup {t}
  PROVE  OwnersOK'
BY DEF OwnersOK

LEMMA StepOwners == ASSUME TypeInv, NEW t \in Thread, Step(t), ~ShutdownEnd(t) PROVE OwnersOK'
<1> USE OwnersFrame DEF lockVars, envVars, ReadLock, ReadUnlock
<1>0. OwnersOK
  BY DEF TypeInv
<1>1. CASE Commit(t)
  BY <1>0, <1>1 DEF Commit, CommitLockWriter, CommitLockInner, CommitBinlog, CommitMark,
     CommitMerge, CommitMergeDone, CommitCount, CommitLive, CommitDump
<1>2. CASE SaveDiskChunk(t) \/ ForceDiskChunk(t)
  BY <1>0, <1>2 DEF SaveDiskChunk, SaveWrite, SaveMeta, SaveLockInner, SaveSwap, SaveEnd,
     ForceDiskChunk, DiskLockWriter, DiskLockOuter, DiskKlist
<1>3. CASE ForceRamFlush(t)
  <2>1. CASE FlushRam(t)
    BY <1>0, <2>1 DEF FlushRam, OwnersOK
  <2>2. CASE ~FlushRam(t)
    BY <1>0, <1>3, <2>2 DEF ForceRamFlush, FlushLock, FlushKillOpen, FlushKillDone,
       FlushFails, ShutdownFails, FlushMeta, FlushNotify, FlushEnd
  <2> QED BY <2>1, <2>2
<1>4. CASE UpdateAttributes(t) \/ MultiQuery(t)
  BY <1>0, <1>4 DEF UpdateAttributes, UpdateLock, UpdateApply, UpdateLog, MultiQuery,
     QueryDisk, QueryRam, QueryEnd
<1>5. CASE Truncate(t)
  BY <1>0, <1>5 DEF Truncate, TruncLockWriter, TruncLockOuter, TruncMeta, TruncNotify,
     TruncRam, TruncChunks, TruncMem
<1>6. CASE Optimize(t)
  BY <1>0, <1>6 DEF Optimize, OptKlist, OptMerge, OptGiveUp, OptLockWriter, OptLockOuter,
     OptRenameOld, OptRenameFails, OptRenameNew, OptSwap, OptUnlink, OptLeaveFiles
<1> QED BY <1>1, <1>2, <1>3, <1>4, <1>5, <1>6 DEF Step

LEMMA OwnersKept == ASSUME TypeInv, [Next]_vars PROVE OwnersOK' /\ StoppedIdle'
<1>0. OwnersOK /\ StoppedIdle
  BY DEF TypeInv
<1>1. ASSUME NEW t \in Thread, BeginAny(t) PROVE OwnersOK' /\ StoppedIdle'
  <2>1. mode = "up" /\ UNCHANGED <<mode, crashes>>
    BY <1>1 DEF BeginAny, CommitBegin, DiskBegin, FlushBegin, ShutdownBegin, UpdateBegin,
       SaveAttributes, QueryBegin, TruncBegin, OptBegin, Begin, envVars
  <2>2. UNCHANGED <<writer, inner, outer, excl>> /\ readers' \subseteq readers \cup {t}
    BY <1>1 DEF BeginAny, CommitBegin, DiskBegin, FlushBegin, ShutdownBegin, UpdateBegin,
       SaveAttributes, QueryBegin, TruncBegin, OptBegin, ReadLock, lockVars
  <2> QED BY <1>0, <2>1, <2>2, OwnersFrame DEF StoppedIdle
<1>2. ASSUME NEW t \in Thread, Step(t), ~ShutdownEnd(t) PROVE OwnersOK' /\ StoppedIdle'
  <2>1. mode' \in {mode, "dead"}
    BY <1>2 DEF Step, Commit, CommitLockWriter, CommitLockInner, CommitBinlog, CommitMark,
       CommitMerge, CommitMergeDone, CommitCount, CommitLive, CommitDump, SaveDiskChunk,
       SaveWrite, SaveMeta, SaveLockInner, SaveSwap, SaveEnd, ForceDiskChunk, DiskLockWriter,
       DiskLockOuter, DiskKlist, ForceRamFlush, FlushLock, FlushKillOpen, FlushKillDone,
       FlushRam, FlushFails, ShutdownFails, FlushMeta, FlushNotify, FlushEnd,
       UpdateAttributes, UpdateLock, UpdateApply, UpdateLog, MultiQuery, QueryDisk, QueryRam,
       QueryEnd, Truncate, TruncLockWriter, TruncLockOuter, TruncMeta, TruncNotify, TruncRam,
       TruncChunks, TruncMem, Optimize, OptKlist, OptMerge, OptGiveUp, OptLockWriter,
       OptLockOuter, OptRenameOld, OptRenameFails, OptRenameNew, OptSwap, OptUnlink,
       OptLeaveFiles, envVars
  <2>2. mode # "down"
    BY <1>2 DEF Step
  <2> QED BY <1>2, <2>1, <2>2, StepOwners DEF StoppedIdle
<1>3. CASE Stop /\ crashes' \in {crashes, crashes + 1} /\ crashes' \in 0..MaxCrashes
  BY <1>3 DEF Stop, OwnersOK, StoppedIdle
<1>4. CASE Crash
  <2>1. crashes + 1 \in 0..MaxCrashes
    BY <1>0, <1>4, BoundAssumption DEF Crash, OwnersOK
  <2> QED BY <1>3, <1>4, <2>1 DEF Crash
<1>5. ASSUME NEW t \in Thread, ShutdownEnd(t) PROVE OwnersOK' /\ StoppedIdle'
  BY <1>0, <1>3, <1>5 DEF ShutdownEnd, OwnersOK
<1>6. CASE Recovery
  BY <1>0, <1>6 DEF Recovery, Restart, ReplayCommit, ReplayUpdateAttributes, ReplayDone,
     ReplayIdle, OwnersOK, StoppedIdle, lockVars, envVars
<1>7. CASE UNCHANGED vars
  BY <1>0, <1>7 DEF vars, lockVars, envVars, OwnersOK, StoppedIdle
<1> QED BY <1>1, <1>2, <1>4, <1>5, <1>6, <1>7 DEF Next

-----------------------------------------------------------------------------
(* Local variables. *)

LEMMA LocsFrame ==
  ASSUME TypeInv, NEW t \in Thread, NEW x, LocIs(x), x.op \in {loc[t].op, "none"},
         loc' = [loc EXCEPT ![t] = x]
  PROVE  LocsOK' /\ OpsExclude'
<1>1. DOMAIN loc = Thread
  BY DEF TypeInv, LockInv, ControlOK
<1>2. \A u \in Thread : loc'[u] = IF u = t THEN x ELSE loc[u]
  BY <1>1
<1>3. LocsOK'
  BY <1>2 DEF TypeInv, LocsOK
<1>4. OpsExclude'
  BY <1>2 DEF TypeInv, OpsExclude
<1> QED BY <1>3, <1>4

LEMMA LocsSame == ASSUME TypeInv, UNCHANGED loc PROVE LocsOK' /\ OpsExclude'
BY DEF TypeInv, LocsOK, OpsExclude

LEMMA LocsFinish == ASSUME TypeInv, NEW t \in Thread, Finish(t) PROVE LocsOK' /\ OpsExclude'
<1>1. loc' = [loc EXCEPT ![t] = NoLoc] /\ NoLoc.op = "none"
  BY DEF Finish, NoLoc
<1> QED BY <1>1, NoLocType, LocsFrame

LEMMA CommitLocs ==
  ASSUME TypeInv, NEW t \in Thread, Commit(t) PROVE LocsOK' /\ OpsExclude'
<1> DEFINE l == loc[t]
<1>0. /\ LocIs(l) /\ MemOK /\ DOMAIN loc = Thread
      /\ l.adds \in Rows /\ l.kill \in SUBSET Doc /\ SegmentMap(l.fresh) /\ l.keep \in SUBSET Tag
  BY DEF TypeInv, LocsOK, LocIs, LocOK, LockInv, ControlOK
<1>1. CASE CommitMark(t)
  <2> DEFINE keep  == DOMAIN segs \ dbuf
             fresh == [g \in (IF l.adds = NoRows THEN {} ELSE {NewTag(DOMAIN segs)}) |->
                         [row |-> l.adds, klist |-> {}, tls |-> FALSE]]
  <2>1. keep \in SUBSET Tag /\ tid \in Nat
    BY <1>0 DEF MemOK, SegmentMap
  <2>2. NewTag(DOMAIN segs) \in Tag
    BY <1>1, NewTagType DEF CommitMark
  <2>3. SegmentMap(fresh)
    BY <1>0, <2>2 DEF SegmentMap, Segment
  <2> HIDE DEF fresh
  <2>4. LocIs([[[l EXCEPT !.tid = tid] EXCEPT !.keep = keep] EXCEPT !.fresh = fresh])
    <3>1. LocIs([l EXCEPT !.tid = tid])
      BY <1>0, <2>1, LocSet
    <3>2. LocIs([[l EXCEPT !.tid = tid] EXCEPT !.keep = keep])
      BY <2>1, <3>1, LocSet
    <3> QED BY <2>3, <3>2, LocSet
  <2>5. loc' = [loc EXCEPT ![t] =
                  [[[l EXCEPT !.tid = tid] EXCEPT !.keep = keep] EXCEPT !.fresh = fresh]]
    BY <1>0, <1>1 DEF CommitMark, fresh
  <2>6. [[[l EXCEPT !.tid = tid] EXCEPT !.keep = keep] EXCEPT !.fresh = fresh].op = l.op
    BY <1>0 DEF LocIs, LocFields
  <2> QED BY <2>4, <2>5, <2>6, LocsFrame
<1>2. CASE CommitMerge(t)
  <2>1. pc[t] = "c_merge" /\ Tag \ (DOMAIN segs \cup DOMAIN l.fresh) # {}
    BY <1>2 DEF CommitMerge, At
  <2>2. SegmentMap(Work(t))
    BY <1>0, <2>1, WorkType DEF TypeInv, KeptSegments, MemOK
  <2> DEFINE g == NewTag(DOMAIN segs \cup DOMAIN l.fresh)
             m(a, b) == MergeSegments(Work(t)[a], Work(t)[b], l.kill)
             fresh(a, b) == [x \in (DOMAIN l.fresh \ {a, b}) \cup {g} |->
                               IF x = g THEN m(a, b) ELSE l.fresh[x]]
  <2>3. PICK a \in DOMAIN Work(t), b \in DOMAIN Work(t) :
          loc' = [loc EXCEPT ![t].keep = l.keep \ {a, b}, ![t].fresh = fresh(a, b)]
    BY <1>0, <1>2 DEF CommitMerge, LocIs, LocFields
  <2>4. g \in Tag
    BY <2>1, NewTagType
  <2>5. m(a, b) \in Segment
    BY <2>2, MergeType DEF SegmentMap
  <2> HIDE DEF g, m
  <2>6. SegmentMap(fresh(a, b))
    BY <1>0, <2>4, <2>5 DEF SegmentMap
  <2> HIDE DEF fresh
  <2>7. LocIs([[l EXCEPT !.keep = l.keep \ {a, b}] EXCEPT !.fresh = fresh(a, b)])
    <3>1. LocIs([l EXCEPT !.keep = l.keep \ {a, b}])
      BY <1>0, LocSet
    <3> QED BY <2>6, <3>1, LocSet
  <2>8. loc' = [loc EXCEPT ![t] = [[l EXCEPT !.keep = l.keep \ {a, b}] EXCEPT !.fresh = fresh(a, b)]]
    BY <1>0, <2>3
  <2>9. [[l EXCEPT !.keep = l.keep \ {a, b}] EXCEPT !.fresh = fresh(a, b)].op = l.op
    BY <1>0 DEF LocIs, LocFields
  <2> QED BY <2>7, <2>8, <2>9, LocsFrame
<1>3. CASE CommitMergeDone(t)
  <2>1. PICK dump \in BOOLEAN : loc' = [loc EXCEPT ![t] = [l EXCEPT !.dump = dump]]
    BY <1>0, <1>3 DEF CommitMergeDone
  <2>2. LocIs([l EXCEPT !.dump = dump]) /\ [l EXCEPT !.dump = dump].op = l.op
    BY <1>0, LocSet DEF LocIs, LocFields
  <2> QED BY <2>1, <2>2, LocsFrame
<1>4. CASE CommitCount(t)
  <2> DEFINE live == {d \in l.kill : /\ ~RamAlive(d) /\ d \notin klist
                                     /\ SavedAlive(d) \/ DiskAlive(d)}
             dead == Cardinality(live \cup {d \in l.kill : RamAlive(d)})
  <2>1. live \in SUBSET Doc
    BY <1>0
  <2>2. dead \in Nat
    BY <1>0, <2>1, CountType
  <2>3. loc' = [loc EXCEPT ![t] = [[l EXCEPT !.live = live] EXCEPT !.dead = dead]]
    BY <1>0, <1>4 DEF CommitCount
  <2> HIDE DEF live, dead
  <2>4. LocIs([[l EXCEPT !.live = live] EXCEPT !.dead = dead])
    <3>1. LocIs([l EXCEPT !.live = live])
      BY <1>0, <2>1, LocSet
    <3> QED BY <2>2, <3>1, LocSet
  <2>5. [[l EXCEPT !.live = live] EXCEPT !.dead = dead].op = l.op
    BY <1>0 DEF LocIs, LocFields
  <2> QED BY <2>3, <2>4, <2>5, LocsFrame
<1>5. CASE CommitLive(t)
  <2>1. UNCHANGED loc \/ Finish(t)
    BY <1>5, Zenon DEF CommitLive
  <2> QED BY <2>1, LocsSame, LocsFinish
<1>6. CASE CommitLockWriter(t) \/ CommitLockInner(t) \/ CommitBinlog(t) \/ CommitDump(t)
  BY <1>6, LocsSame DEF CommitLockWriter, CommitLockInner, CommitBinlog, CommitDump
<1> QED BY <1>1, <1>2, <1>3, <1>4, <1>5, <1>6 DEF Commit

LEMMA SaveLocs ==
  ASSUME TypeInv, NEW t \in Thread, SaveDiskChunk(t) \/ ForceDiskChunk(t)
  PROVE  LocsOK' /\ OpsExclude'
<1>0. LocIs(loc[t]) /\ MemOK /\ DOMAIN loc = Thread
  BY DEF TypeInv, LocsOK, LockInv, ControlOK
<1>1. CASE SaveWrite(t)
  <2> DEFINE row(d) == IF RamRows(d) = {} THEN NoRow
                       ELSE segs[CHOOSE g \in RamRows(d) : TRUE].row[d]
             c == [row |-> [d \in Doc |-> row(d)], klist |-> dklist]
  <2>1. c \in Chunk
    BY <1>0, RamRowType DEF MemOK, Chunk, Rows
  <2>2. UNCHANGED loc \/ loc' = [loc EXCEPT ![t] = [loc[t] EXCEPT !.chunk = c]]
    BY <1>0, <1>1 DEF SaveWrite
  <2> HIDE DEF c
  <2>3. LocIs([loc[t] EXCEPT !.chunk = c]) /\ [loc[t] EXCEPT !.chunk = c].op = loc[t].op
    BY <1>0, <2>1, LocSet DEF LocIs, LocFields
  <2> QED BY <2>2, <2>3, LocsFrame, LocsSame
<1>2. CASE SaveEnd(t)
  BY <1>2, LocsFinish DEF SaveEnd
<1>3. CASE DiskKlist(t)
  <2>1. loc' = [loc EXCEPT ![t] = [loc[t] EXCEPT !.tid = tid]]
    BY <1>0, <1>3 DEF DiskKlist
  <2>2. LocIs([loc[t] EXCEPT !.tid = tid]) /\ [loc[t] EXCEPT !.tid = tid].op = loc[t].op
    BY <1>0, LocSet DEF MemOK, LocIs, LocFields
  <2> QED BY <2>1, <2>2, LocsFrame
<1>4. CASE SaveMeta(t) \/ SaveLockInner(t) \/ SaveSwap(t) \/ DiskLockWriter(t) \/ DiskLockOuter(t)
  BY <1>4, LocsSame DEF SaveMeta, SaveLockInner, SaveSwap, DiskLockWriter, DiskLockOuter
<1> QED BY <1>1, <1>2, <1>3, <1>4 DEF SaveDiskChunk, ForceDiskChunk

LEMMA FlushLocs ==
  ASSUME TypeInv, NEW t \in Thread, ForceRamFlush(t) \/ UpdateAttributes(t) \/ Truncate(t)
  PROVE  LocsOK' /\ OpsExclude'
<1>1. CASE FlushFails(t) \/ FlushEnd(t) \/ UpdateLog(t) \/ TruncMem(t)
  BY <1>1, LocsFinish DEF FlushFails, FlushEnd, UpdateLog, TruncMem
<1>2. CASE \/ FlushLock(t) \/ FlushKillOpen(t) \/ FlushKillDone(t) \/ FlushRam(t)
           \/ ShutdownFails(t) \/ FlushMeta(t) \/ FlushNotify(t)
  BY <1>2, LocsSame DEF FlushLock, FlushKillOpen, FlushKillDone, FlushRam, ShutdownFails,
     FlushMeta, FlushNotify
<1>3. CASE \/ UpdateLock(t) \/ UpdateApply(t) \/ TruncLockWriter(t) \/ TruncLockOuter(t)
           \/ TruncMeta(t) \/ TruncNotify(t) \/ TruncRam(t) \/ TruncChunks(t)
  BY <1>3, LocsSame DEF UpdateLock, UpdateApply, TruncLockWriter, TruncLockOuter, TruncMeta,
     TruncNotify, TruncRam, TruncChunks
<1> QED BY <1>1, <1>2, <1>3 DEF ForceRamFlush, UpdateAttributes, Truncate

\* What a query finds are versions of documents.
LEMMA QueryLocs ==
  ASSUME TypeInv, NEW t \in Thread, MultiQuery(t) PROVE LocsOK' /\ OpsExclude'
<1> DEFINE Pairs == Doc \X (Val \cup {NoRow})
<1>0. LocIs(loc[t]) /\ MemOK /\ DOMAIN loc = Thread /\ loc[t].got \subseteq Pairs
  BY DEF TypeInv, LocsOK, LocIs, LocOK, LockInv, ControlOK
<1>1. ASSUME NEW got \in SUBSET Pairs, loc' = [loc EXCEPT ![t].got = got]
      PROVE  LocsOK' /\ OpsExclude'
  <2>1. loc' = [loc EXCEPT ![t] = [loc[t] EXCEPT !.got = got]]
    BY <1>0, <1>1
  <2>2. LocIs([loc[t] EXCEPT !.got = got]) /\ [loc[t] EXCEPT !.got = got].op = loc[t].op
    BY <1>0, LocSet DEF LocIs, LocFields
  <2> QED BY <2>1, <2>2, LocsFrame
<1>2. CASE QueryDisk(t)
  <2> DEFINE got == {<<p[1], chunks[p[2]].row[p[1]]>> :
                       p \in {q \in Doc \X DOMAIN chunks : q[2] \in DiskRows(q[1])}}
  <2>1. \A d \in Doc, i \in DOMAIN chunks : chunks[i].row[d] \in Val \cup {NoRow}
    <3>1. \A i \in DOMAIN chunks : chunks[i] \in Chunk
      BY <1>0, LenProperties, ElementOfSeq DEF MemOK
    <3> QED BY <3>1 DEF Chunk, Rows
  <2>2. got \in SUBSET Pairs
    BY <2>1
  <2> QED BY <1>1, <1>2, <2>2 DEF QueryDisk
<1>3. CASE QueryRam(t)
  <2> DEFINE found == {<<p[1], segs[p[2]].row[p[1]]>> :
                         p \in {q \in Doc \X DOMAIN segs : q[2] \in RamRows(q[1])}}
  <2>1. \A d \in Doc, g \in DOMAIN segs : segs[g].row[d] \in Val \cup {NoRow}
    BY <1>0 DEF MemOK, SegmentMap, Segment, Rows
  <2>2. found \in SUBSET Pairs
    BY <2>1
  <2>3. loc' = [loc EXCEPT ![t].got = loc[t].got \cup found]
    BY <1>0, <1>3 DEF QueryRam
  <2> HIDE DEF found
  <2>4. loc[t].got \cup found \in SUBSET Pairs
    BY <1>0, <2>2
  <2> QED BY <1>1, <2>3, <2>4
<1>4. CASE QueryEnd(t)
  BY <1>4, LocsFinish DEF QueryEnd
<1> QED BY <1>2, <1>3, <1>4 DEF MultiQuery

LEMMA OptimizeLocs ==
  ASSUME TypeInv, NEW t \in Thread, Optimize(t) PROVE LocsOK' /\ OpsExclude'
<1>0. LocIs(loc[t]) /\ MemOK /\ DOMAIN loc = Thread
  BY DEF TypeInv, LocsOK, LockInv, ControlOK
<1>1. DOMAIN chunks = 1..Len(chunks) /\ \A i \in 1..Len(chunks) : chunks[i] \in Chunk
  BY <1>0, LenProperties, ElementOfSeq DEF MemOK
<1>2. CASE OptKlist(t)
  <2> DEFINE kill == klist \cup UNION {chunks[i].klist : i \in 2..Len(chunks)}
  <2>1. kill \in SUBSET Doc
    <3>1. \A i \in 2..Len(chunks) : chunks[i].klist \subseteq Doc
      BY <1>1 DEF Chunk
    <3> QED BY <1>0, <3>1 DEF MemOK
  <2>2. loc' = [loc EXCEPT ![t] = [loc[t] EXCEPT !.kill = kill]]
    BY <1>0, <1>2 DEF OptKlist
  <2> HIDE DEF kill
  <2>3. LocIs([loc[t] EXCEPT !.kill = kill]) /\ [loc[t] EXCEPT !.kill = kill].op = loc[t].op
    BY <1>0, <2>1, LocSet DEF LocIs, LocFields
  <2> QED BY <2>2, <2>3, LocsFrame
<1>3. CASE OptMerge(t)
  <2> DEFINE row(d) == IF HasRow(chunks[2], d) THEN chunks[2].row[d]
                       ELSE IF d \notin loc[t].kill THEN chunks[1].row[d] ELSE NoRow
             c == [row |-> [d \in Doc |-> row(d)], klist |-> {}]
  <2>1. Len(chunks) >= 2 /\ Len(chunks) \in Nat
    BY <1>0, <1>3, LenProperties DEF OptMerge, TypeInv, TwoChunks, At, MemOK
  <2>2. chunks[1] \in Chunk /\ chunks[2] \in Chunk
    BY <1>1, <2>1
  <2>3. c \in Chunk
    BY <2>2 DEF Chunk, Rows
  <2>4. loc' = [loc EXCEPT ![t] = [loc[t] EXCEPT !.chunk = c]]
    BY <1>0, <1>3 DEF OptMerge
  <2> HIDE DEF c
  <2>5. LocIs([loc[t] EXCEPT !.chunk = c]) /\ [loc[t] EXCEPT !.chunk = c].op = loc[t].op
    BY <1>0, <2>3, LocSet DEF LocIs, LocFields
  <2> QED BY <2>4, <2>5, LocsFrame
<1>4. CASE OptGiveUp(t) \/ OptRenameFails(t) \/ OptLeaveFiles(t)
  BY <1>4, LocsFinish DEF OptGiveUp, OptRenameFails, OptLeaveFiles
<1>5. CASE OptUnlink(t)
  <2>1. Finish(t) \/ loc' = [loc EXCEPT ![t] = [NoLoc EXCEPT !.op = "optimize"]]
    BY <1>5 DEF OptUnlink, NextRound
  <2>2. loc[t].op = "optimize"
    BY <1>5 DEF OptUnlink, At, TypeInv, LockInv, ControlOK, OpAt
  <2>3. LocIs([NoLoc EXCEPT !.op = "optimize"]) /\ [NoLoc EXCEPT !.op = "optimize"].op = "optimize"
    BY NoLocType, LocSet DEF OpNames, LocIs, LocFields
  <2> QED BY <2>1, <2>2, <2>3, LocsFinish, LocsFrame
<1>6. CASE \/ OptLockWriter(t) \/ OptLockOuter(t) \/ OptRenameOld(t) \/ OptRenameNew(t)
           \/ OptSwap(t)
  BY <1>6, LocsSame DEF OptLockWriter, OptLockOuter, OptRenameOld, OptRenameNew, OptSwap
<1> QED BY <1>2, <1>3, <1>4, <1>5, <1>6 DEF Optimize

\* A thread may start an operation only beside operations it may run with.
LEMMA BeginLocs ==
  ASSUME TypeInv, NEW t \in Thread, BeginAny(t) PROVE LocsOK' /\ OpsExclude'
<1>0. LocIs(loc[t]) /\ DOMAIN loc = Thread
  BY DEF TypeInv, LocsOK, LockInv, ControlOK
<1>1. ASSUME NEW op \in OpNames, NEW l, Begin(t, op, l), NEW x, LocIs(x), x.op = op,
             op = "optimize" => \A u \in Thread : loc[u].op # "optimize",
             loc' = [loc EXCEPT ![t] = x]
      PROVE  LocsOK' /\ OpsExclude'
  <2>1. \A u \in Thread : loc'[u] = IF u = t THEN x ELSE loc[u]
    BY <1>0, <1>1
  <2>2. LocsOK'
    BY <1>1, <2>1 DEF TypeInv, LocsOK
  <2>3. \A u \in Thread : /\ op = "truncate" => loc[u].op \in {"none", "commit"}
                          /\ loc[u].op = "truncate" => op = "commit"
    BY <1>1 DEF Begin
  <2>4. OpsExclude'
    BY <1>1, <2>1, <2>3 DEF TypeInv, OpsExclude
  <2> QED BY <2>2, <2>4
<1>2. ASSUME NEW op \in OpNames
      PROVE  LocIs([loc[t] EXCEPT !.op = op]) /\ [loc[t] EXCEPT !.op = op].op = op
  BY <1>0, LocSet DEF LocIs, LocFields
<1>3. CASE CommitBegin(t)
  <2>1. PICK kill \in SUBSET Doc, adds \in Rows :
          loc' = [loc EXCEPT ![t] = [NoLoc EXCEPT !.op = "commit", !.adds = adds, !.kill = kill]]
    BY <1>3 DEF CommitBegin
  <2> DEFINE x == [[[NoLoc EXCEPT !.op = "commit"] EXCEPT !.adds = adds] EXCEPT !.kill = kill]
  <2>2. LocIs(x) /\ x.op = "commit"
    <3>1. LocIs([NoLoc EXCEPT !.op = "commit"])
      BY NoLocType, LocSet DEF OpNames
    <3>2. LocIs([[NoLoc EXCEPT !.op = "commit"] EXCEPT !.adds = adds])
      BY <3>1, LocSet
    <3>3. LocIs(x)
      BY <3>2, LocSet
    <3> QED BY <3>3, NoLocType DEF LocIs, LocFields
  <2>3. loc' = [loc EXCEPT ![t] = x]
    BY <2>1
  <2> HIDE DEF x
  <2> QED BY <1>1, <1>3, <2>2, <2>3 DEF CommitBegin, OpNames
<1>4. CASE UpdateBegin(t)
  <2>1. PICK d \in Doc, v \in Val :
          loc' = [loc EXCEPT ![t] = [NoLoc EXCEPT !.op = "update", !.adds[d] = v]]
    BY <1>4 DEF UpdateBegin
  <2> DEFINE adds == [NoRows EXCEPT ![d] = v]
             x    == [[NoLoc EXCEPT !.op = "update"] EXCEPT !.adds = adds]
  <2>2. adds \in Rows
    BY DEF NoRows, Rows
  <2>3. LocIs(x) /\ x.op = "update"
    <3>1. LocIs([NoLoc EXCEPT !.op = "update"])
      BY NoLocType, LocSet DEF OpNames
    <3>2. LocIs(x)
      BY <2>2, <3>1, LocSet
    <3> QED BY <3>2, NoLocType DEF LocIs, LocFields
  <2>4. loc' = [loc EXCEPT ![t] = x]
    BY <2>1 DEF NoLoc
  <2> HIDE DEF x
  <2> QED BY <1>1, <1>4, <2>3, <2>4 DEF UpdateBegin, OpNames
<1>5. CASE DiskBegin(t)
  BY <1>0, <1>1, <1>2, <1>5 DEF DiskBegin, OpNames
<1>6. CASE FlushBegin(t)
  BY <1>0, <1>1, <1>2, <1>6 DEF FlushBegin, OpNames
<1>7. CASE ShutdownBegin(t)
  BY <1>0, <1>1, <1>2, <1>7 DEF ShutdownBegin, OpNames
<1>8. CASE QueryBegin(t)
  BY <1>0, <1>1, <1>2, <1>8 DEF QueryBegin, OpNames
<1>9. CASE TruncBegin(t)
  BY <1>0, <1>1, <1>2, <1>9 DEF TruncBegin, OpNames
<1>10. CASE OptBegin(t)
  BY <1>0, <1>1, <1>2, <1>10 DEF OptBegin, OpNames
<1>11. CASE SaveAttributes(t)
  BY <1>11, LocsSame DEF SaveAttributes
<1> QED BY <1>3, <1>4, <1>5, <1>6, <1>7, <1>8, <1>9, <1>10, <1>11 DEF BeginAny

LEMMA StopLocs == ASSUME Stop PROVE LocsOK' /\ OpsExclude'
BY NoLocType DEF Stop, LocsOK, OpsExclude, NoLoc

LEMMA RecoveryLocs == ASSUME TypeInv, Recovery PROVE LocsOK' /\ OpsExclude'
<1>1. CASE ReplayCommit
  <2>1. PICK n \in DOMAIN log :
          loc' = [loc EXCEPT ![Replayer] =
                    [NoLoc EXCEPT !.op = "commit", !.adds = log[n].adds,
                                  !.kill = log[n].kill, !.etid = n]]
    BY <1>1 DEF ReplayCommit
  <2>2. n \in Nat /\ log[n].adds \in Rows /\ log[n].kill \in SUBSET Doc /\ Replayer \in Thread
    BY ThreadAssumption DEF TypeInv, FilesOK, Replayer
  <2> DEFINE x == [[[[NoLoc EXCEPT !.op = "commit"] EXCEPT !.adds = log[n].adds]
                      EXCEPT !.kill = log[n].kill] EXCEPT !.etid = n]
  <2>3. LocIs(x)
    <3>1. LocIs([NoLoc EXCEPT !.op = "commit"])
      BY NoLocType, LocSet DEF OpNames
    <3>2. LocIs([[NoLoc EXCEPT !.op = "commit"] EXCEPT !.adds = log[n].adds])
      BY <2>2, <3>1, LocSet
    <3>3. LocIs([[[NoLoc EXCEPT !.op = "commit"] EXCEPT !.adds = log[n].adds]
                    EXCEPT !.kill = log[n].kill])
      BY <2>2, <3>2, LocSet
    <3> QED BY <2>2, <3>3, LocSet
  <2>4. x.op = "commit"
    BY NoLocType DEF LocIs, LocFields
  <2>5. loc' = [loc EXCEPT ![Replayer] = x]
    BY <2>1
  <2> HIDE DEF x
  <2>6. \A u \in Thread : loc'[u] = IF u = Replayer THEN x ELSE loc[u]
    BY <2>2, <2>5 DEF TypeInv, LockInv, ControlOK
  <2> QED BY <2>3, <2>4, <2>6 DEF TypeInv, LocsOK, OpsExclude
<1>2. CASE Restart \/ ReplayUpdateAttributes \/ ReplayDone
  BY <1>2, LocsSame DEF Restart, ReplayUpdateAttributes, ReplayDone
<1> QED BY <1>1, <1>2 DEF Recovery

LEMMA LocsKept == ASSUME TypeInv, [Next]_vars PROVE LocsOK' /\ OpsExclude'
<1>1. ASSUME NEW t \in Thread, Step(t) PROVE LocsOK' /\ OpsExclude'
  BY <1>1, CommitLocs, SaveLocs, FlushLocs, QueryLocs, OptimizeLocs, StopLocs
     DEF Step, ShutdownEnd
<1>2. CASE UNCHANGED vars
  BY <1>2, LocsSame DEF vars
<1> QED BY <1>1, <1>2, BeginLocs, StopLocs, RecoveryLocs DEF Next, Crash

-----------------------------------------------------------------------------
(* Nobody takes away what a thread holds on to. *)

Held == KeptSegments /\ DoubleBufferSaved /\ TwoChunks

Keeping  == {"c_merge", "c_count", "c_live"}
Saving   == {"s_write", "s_meta", "s_inner", "s_swap"}
Merging  == {"o_klist", "o_merge", "o_writer", "o_outer", "o_old", "o_new", "o_swap"}

LEMMA OneWriter ==
  ASSUME LockInv, NEW t \in Thread, NEW u \in Thread,
         pc[t] \in WriterHeld, pc[u] \in WriterHeld
  PROVE  t = u
BY DEF LockInv, Locking

\* A thread goes from one point to another; nothing else that Held speaks of changes.
Quiet(t, l) ==
    /\ UNCHANGED <<segs, dbuf, chunks>>
    /\ pc' = [pc EXCEPT ![t] = l]
    /\ \A u \in Thread : loc'[u].keep \subseteq loc[u].keep

LEMMA QuietHeld ==
  ASSUME TypeInv, NEW t \in Thread, NEW l \in Points, Quiet(t, l),
         l \in Keeping => pc[t] \in Keeping,
         pc[t] \in Saving => l \in Saving,
         l \in Merging => pc[t] \in Merging \/ Len(chunks) >= 2
  PROVE  Held'
BY DEF TypeInv, LockInv, ControlOK, Held, KeptSegments, DoubleBufferSaved, TwoChunks, Quiet,
       Keeping, Saving, Merging

\* Steps that change one local variable other than keep, or all of them to NoLoc.
LEMMA KeepsSame ==
  ASSUME TypeInv, NEW t \in Thread
  PROVE  /\ UNCHANGED loc => \A u \in Thread : loc'[u].keep \subseteq loc[u].keep
         /\ Finish(t) => \A u \in Thread : loc'[u].keep \subseteq loc[u].keep
         /\ \A f \in LocFields \ {"keep"} : \A x :
              loc' = [loc EXCEPT ![t] = [loc[t] EXCEPT ![f] = x]]
                => \A u \in Thread : loc'[u].keep \subseteq loc[u].keep
BY DEF TypeInv, LockInv, ControlOK, LocsOK, LocIs, LocFields, Finish, NoLoc

LEMMA CommitHeld == ASSUME TypeInv, NEW t \in Thread, Commit(t) PROVE Held'
<1> USE DEF memVars, segVars, killVars, chunkVars
<1>0. /\ DOMAIN loc = Thread /\ LocIs(loc[t]) /\ pc \in [Thread -> Points]
      /\ KeptSegments /\ DoubleBufferSaved /\ TwoChunks /\ LockInv
  BY DEF TypeInv, LockInv, ControlOK, LocsOK
<1>1. CASE CommitLockWriter(t) \/ CommitLockInner(t) \/ CommitBinlog(t)
  <2>1. \E l \in {"c_inner", "c_binlog", "c_mark"} : Quiet(t, l) /\ pc[t] \in CommitPending
    BY <1>1, KeepsSame DEF CommitLockWriter, CommitLockInner, CommitBinlog, At, Goto, Quiet, CommitPending
  <2> QED BY <2>1, QuietHeld DEF Points, CommitPending, Keeping, Saving, Merging
<1>2. CASE CommitMark(t)
  <2>1. DOMAIN segs' = DOMAIN segs /\ UNCHANGED <<dbuf, chunks>>
    BY <1>2 DEF CommitMark
  <2>2. pc' = [pc EXCEPT ![t] = "c_merge"] /\ pc[t] = "c_mark"
    BY <1>2 DEF CommitMark, At, Goto
  <2>3. loc'[t].keep = DOMAIN segs \ dbuf /\ \A u \in Thread \ {t} : loc'[u] = loc[u]
    BY <1>0, <1>2 DEF CommitMark, LocIs, LocFields
  <2> QED BY <1>0, <2>1, <2>2, <2>3 DEF Held, KeptSegments, DoubleBufferSaved, TwoChunks
<1>3. CASE CommitMerge(t)
  <2>1. UNCHANGED <<segs, dbuf, chunks, pc>>
    BY <1>3 DEF CommitMerge
  <2>2. \A u \in Thread : loc'[u].keep \subseteq loc[u].keep
    BY <1>0, <1>3 DEF CommitMerge, LocIs, LocFields
  <2> QED BY <1>0, <2>1, <2>2 DEF Held, KeptSegments, DoubleBufferSaved, TwoChunks
<1>4. CASE CommitMergeDone(t) \/ CommitCount(t)
  <2>1. \E l \in {"c_count", "c_live"} : Quiet(t, l) /\ pc[t] \in Keeping
    BY <1>0, <1>4 DEF CommitMergeDone, CommitCount, At, Goto, Quiet, Keeping, LocIs, LocFields
  <2> QED BY <2>1, QuietHeld DEF Points, Keeping, Saving, Merging
<1>5. CASE CommitLive(t)
  <2>1. /\ pc[t] = "c_live" /\ UNCHANGED <<dbuf, chunks>>
        /\ \E l \in {"c_outer", "idle"} : pc' = [pc EXCEPT ![t] = l]
        /\ UNCHANGED loc \/ loc' = [loc EXCEPT ![t] = NoLoc]
    BY <1>5, Zenon DEF CommitLive, At, Goto, Finish
  <2>2. ASSUME NEW u \in Thread, pc'[u] \in Keeping PROVE FALSE
    <3>1. u # t /\ pc'[u] = pc[u]
      BY <1>0, <2>1, <2>2 DEF Keeping
    <3> QED BY <1>0, <2>1, <2>2, <3>1, OneWriter DEF Keeping, WriterHeld
  <2> QED BY <1>0, <2>1, <2>2 DEF Held, KeptSegments, DoubleBufferSaved, TwoChunks, Keeping
<1>6. CASE CommitDump(t)
  <2>1. pc' = [pc EXCEPT ![t] = "s_write"] /\ pc[t] = "c_outer" /\ UNCHANGED <<segs, chunks, loc>>
    BY <1>6 DEF CommitDump, At, Goto
  <2> QED BY <1>0, <2>1 DEF Held, KeptSegments, DoubleBufferSaved, TwoChunks
<1> QED BY <1>1, <1>2, <1>3, <1>4, <1>5, <1>6 DEF Commit

LEMMA SaveHeld ==
  ASSUME TypeInv, NEW t \in Thread, SaveDiskChunk(t) \/ ForceDiskChunk(t) PROVE Held'
<1> USE DEF memVars, segVars, killVars, chunkVars
<1>0. /\ DOMAIN loc = Thread /\ LocIs(loc[t]) /\ pc \in [Thread -> Points] /\ MemOK
      /\ KeptSegments /\ DoubleBufferSaved /\ TwoChunks /\ LockInv
  BY DEF TypeInv, LockInv, ControlOK, LocsOK
<1>1. CASE SaveWrite(t)
  <2>1. CASE DOMAIN segs = {}
    <3>1. /\ UNCHANGED <<segs, dbuf, chunks, loc>> /\ pc' = [pc EXCEPT ![t] = "s_end"]
          /\ dbuf = {}
      BY <1>0, <1>1, <2>1 DEF SaveWrite, Goto, MemOK
    <3> QED BY <1>0, <3>1 DEF Held, KeptSegments, DoubleBufferSaved, TwoChunks
  <2>2. CASE DOMAIN segs # {}
    <3>1. Quiet(t, "s_meta")
      BY <1>0, <1>1, <2>2 DEF SaveWrite, Goto, Quiet, LocIs, LocFields
    <3> QED BY <3>1, QuietHeld DEF Points, Keeping, Saving, Merging
  <2> QED BY <2>1, <2>2
<1>2. CASE SaveMeta(t) \/ SaveLockInner(t)
  <2>1. \E l \in {"s_inner", "s_swap"} : Quiet(t, l)
    BY <1>2, KeepsSame DEF SaveMeta, SaveLockInner, At, Goto, Quiet
  <2> QED BY <2>1, QuietHeld DEF Points, Keeping, Saving, Merging
<1>3. CASE SaveSwap(t)
  <2>1. /\ pc[t] = "s_swap" /\ pc' = [pc EXCEPT ![t] = "s_end"] /\ dbuf' = {} /\ UNCHANGED loc
        /\ chunks' = Append(chunks, loc[t].chunk)
    BY <1>3 DEF SaveSwap, At, Goto
  <2>2. Len(chunks') = Len(chunks) + 1 /\ Len(chunks) \in Nat
    BY <1>0, <2>1, AppendProperties, LenProperties DEF MemOK, LocIs, LocOK
  <2>3. ASSUME NEW u \in Thread, pc'[u] \in Keeping PROVE FALSE
    <3>1. u # t /\ pc'[u] = pc[u]
      BY <1>0, <2>1, <2>3 DEF Keeping
    <3> QED BY <1>0, <2>1, <2>3, <3>1, OneWriter DEF Keeping, WriterHeld
  <2> QED BY <1>0, <2>1, <2>2, <2>3 DEF Held, KeptSegments, DoubleBufferSaved, TwoChunks, Keeping
<1>4. CASE SaveEnd(t)
  <2>1. Quiet(t, "idle") /\ pc[t] = "s_end"
    BY <1>4, KeepsSame DEF SaveEnd, At, Finish, Goto, Quiet
  <2> QED BY <2>1, QuietHeld DEF Points, Keeping, Saving, Merging
<1>5. CASE DiskLockWriter(t) \/ DiskLockOuter(t) \/ DiskKlist(t)
  <2>1. \E l \in {"d_outer", "d_klist", "s_write"} :
           Quiet(t, l) /\ pc[t] \in {"d_writer", "d_outer", "d_klist"}
    BY <1>0, <1>5, KeepsSame
       DEF DiskLockWriter, DiskLockOuter, DiskKlist, At, Goto, Quiet, LocIs, LocFields
  <2> QED BY <2>1, QuietHeld DEF Points, Keeping, Saving, Merging
<1> QED BY <1>1, <1>2, <1>3, <1>4, <1>5 DEF SaveDiskChunk, ForceDiskChunk

LEMMA FlushHeldKept ==
  ASSUME TypeInv, NEW t \in Thread, ForceRamFlush(t) \/ MultiQuery(t) PROVE Held'
<1> USE DEF memVars, segVars, chunkVars
<1> DEFINE Mine == {"f_lock", "f_kill", "f_killed", "f_ram", "f_meta", "f_notify", "f_end",
                    "q_disk", "q_ram", "q_done"}
<1>0. DOMAIN loc = Thread /\ LocIs(loc[t]) /\ pc \in [Thread -> Points]
  BY DEF TypeInv, LockInv, ControlOK, LocsOK
<1>1. pc[t] \in Mine /\ UNCHANGED <<segs, dbuf, chunks>>
  BY DEF ForceRamFlush, FlushLock, FlushKillOpen, FlushKillDone, FlushRam, FlushFails,
     ShutdownFails, FlushMeta, FlushNotify, FlushEnd, MultiQuery, QueryDisk, QueryRam,
     QueryEnd, At
<1>2. \E l \in Mine \cup {"idle"} : pc' = [pc EXCEPT ![t] = l]
  <2>1. CASE FlushRam(t)
    BY <1>0, <1>1, <2>1 DEF FlushRam, Goto
  <2>2. CASE ~FlushRam(t)
    BY <2>2 DEF ForceRamFlush, FlushLock, FlushKillOpen, FlushKillDone, FlushFails,
       ShutdownFails, FlushMeta, FlushNotify, FlushEnd, MultiQuery, QueryDisk, QueryRam,
       QueryEnd, Goto, Finish
  <2> QED BY <2>1, <2>2
<1>3. \A u \in Thread : loc'[u].keep \subseteq loc[u].keep
  <2>1. CASE MultiQuery(t)
    <3>1. "got" \in LocFields \ {"keep"}
      BY DEF LocFields
    <3>2. CASE QueryDisk(t) \/ QueryRam(t)
      <4>1. \E x : loc' = [loc EXCEPT ![t] = [loc[t] EXCEPT !["got"] = x]]
        BY <1>0, <3>2 DEF QueryDisk, QueryRam
      <4> QED BY <3>1, <4>1, KeepsSame
    <3>3. CASE QueryEnd(t)
      BY <3>3, KeepsSame DEF QueryEnd
    <3> QED BY <2>1, <3>2, <3>3 DEF MultiQuery
  <2>2. CASE ForceRamFlush(t)
    BY <2>2, KeepsSame DEF ForceRamFlush, FlushLock, FlushKillOpen, FlushKillDone, FlushRam,
       FlushFails, ShutdownFails, FlushMeta, FlushNotify, FlushEnd
  <2> QED BY <2>1, <2>2
<1>4. \E l \in Mine \cup {"idle"} : Quiet(t, l)
  BY <1>1, <1>2, <1>3 DEF Quiet
<1> QED BY <1>1, <1>4, QuietHeld DEF Points, Keeping, Saving, Merging

LEMMA WriteAttrHeld ==
  ASSUME TypeInv, NEW adds \in Rows, WriteAttr(adds), UNCHANGED <<dbuf, loc>>,
         UNCHANGED pc \/ \E t \in Thread : pc[t] = "u_apply" /\ pc' = [pc EXCEPT ![t] = "u_log"]
  PROVE  Held'
<1>1. DOMAIN segs' = DOMAIN segs /\ Len(chunks') = Len(chunks)
  BY WriteAttrType DEF TypeInv, MemOK
<1> QED BY <1>1 DEF TypeInv, LockInv, ControlOK, Held, KeptSegments, DoubleBufferSaved, TwoChunks

LEMMA UpdateHeld == ASSUME TypeInv, NEW t \in Thread, UpdateAttributes(t) PROVE Held'
<1> USE DEF memVars, segVars, chunkVars
<1>1. CASE UpdateApply(t)
  BY <1>1, WriteAttrHeld DEF UpdateApply, At, Goto, TypeInv, LocsOK, LocIs, LocOK
<1>2. CASE UpdateLock(t) \/ UpdateLog(t)
  <2>1. \E l \in {"u_apply", "idle"} : Quiet(t, l) /\ pc[t] \in {"u_lock", "u_log"}
    BY <1>2, KeepsSame DEF UpdateLock, UpdateLog, At, Finish, Goto, Quiet
  <2> QED BY <2>1, QuietHeld DEF Points, Keeping, Saving, Merging
<1> QED BY <1>1, <1>2 DEF UpdateAttributes

\* A truncate takes everything away: no commit is under way, and no chunk merge.
LEMMA TruncateHeld == ASSUME TypeInv, NEW t \in Thread, Truncate(t) PROVE Held'
<1> USE DEF memVars, segVars, chunkVars
<1>0. /\ DOMAIN loc = Thread /\ pc \in [Thread -> Points] /\ LockInv /\ OpsExclude
      /\ \A u \in Thread : OpAt(pc[u], loc[u].op)
      /\ KeptSegments /\ DoubleBufferSaved /\ TwoChunks
  BY DEF TypeInv, LockInv, ControlOK
<1>1. CASE TruncMem(t)
  <2>1. pc[t] = "t_mem" /\ pc' = [pc EXCEPT ![t] = "idle"] /\ UNCHANGED dbuf
    BY <1>1 DEF TruncMem, At, Finish, Goto
  <2>2. ASSUME NEW u \in Thread, pc'[u] \in Keeping PROVE FALSE
    <3>1. u # t /\ pc'[u] = pc[u]
      BY <1>0, <2>1, <2>2 DEF Keeping
    <3> QED BY <1>0, <2>1, <2>2, <3>1, OneWriter DEF Keeping, WriterHeld
  <2>3. ASSUME NEW u \in Thread, pc'[u] \in Merging PROVE FALSE
    <3>1. u # t /\ pc[u] \in Merging
      BY <1>0, <2>1, <2>3 DEF Merging
    <3>2. loc[t].op = "truncate" /\ loc[u].op = "optimize"
      BY <1>0, <2>1, <3>1 DEF OpAt, Merging
    <3> QED BY <1>0, <3>1, <3>2 DEF OpsExclude
  <2>4. DoubleBufferSaved'
    BY <1>0, <2>1 DEF DoubleBufferSaved
  <2> QED BY <2>2, <2>3, <2>4 DEF Held, KeptSegments, TwoChunks, Keeping, Merging
<1>2. CASE ~TruncMem(t)
  <2>1. \E l \in {"t_outer", "t_meta", "t_notify", "t_ram", "t_chunks", "t_mem"} :
           /\ Quiet(t, l)
           /\ pc[t] \in {"t_writer", "t_outer", "t_meta", "t_notify", "t_ram", "t_chunks"}
    BY <1>2, KeepsSame DEF Truncate, TruncLockWriter, TruncLockOuter, TruncMeta, TruncNotify,
       TruncRam, TruncChunks, At, Goto, Quiet
  <2> QED BY <2>1, QuietHeld DEF Points, Keeping, Saving, Merging
<1> QED BY <1>1, <1>2

LEMMA OptimizeHeld == ASSUME TypeInv, NEW t \in Thread, Optimize(t) PROVE Held'
<1> USE DEF memVars, segVars, chunkVars
<1>0. /\ DOMAIN loc = Thread /\ LocIs(loc[t]) /\ pc \in [Thread -> Points] /\ LockInv /\ OpsExclude
      /\ \A u \in Thread : OpAt(pc[u], loc[u].op)
      /\ KeptSegments /\ DoubleBufferSaved /\ TwoChunks
  BY DEF TypeInv, LockInv, ControlOK, LocsOK
<1>1. CASE OptSwap(t)
  <2>1. pc[t] = "o_swap" /\ pc' = [pc EXCEPT ![t] = "o_unlink"] /\ UNCHANGED <<segs, dbuf, loc>>
    BY <1>1 DEF OptSwap, At, Goto
  <2>2. ASSUME NEW u \in Thread, pc'[u] \in Merging PROVE FALSE
    <3>1. u # t /\ pc[u] \in Merging
      BY <1>0, <2>1, <2>2 DEF Merging
    <3>2. loc[t].op = "optimize" /\ loc[u].op = "optimize"
      BY <1>0, <2>1, <3>1 DEF OpAt, Merging
    <3> QED BY <1>0, <3>1, <3>2 DEF OpsExclude
  <2>3. KeptSegments' /\ DoubleBufferSaved'
    BY <1>0, <2>1 DEF KeptSegments, DoubleBufferSaved
  <2> QED BY <2>2, <2>3 DEF Held, TwoChunks, Merging
<1>2. CASE OptUnlink(t)
  <2>1. CASE Finish(t)
    <3>1. Quiet(t, "idle") /\ pc[t] = "o_unlink"
      BY <1>2, <2>1, KeepsSame DEF OptUnlink, At, Finish, Goto, Quiet
    <3> QED BY <3>1, QuietHeld DEF Points, Keeping, Saving, Merging
  <2>2. CASE /\ Len(chunks) > 1 /\ pc' = [pc EXCEPT ![t] = "o_klist"]
             /\ loc' = [loc EXCEPT ![t] = [NoLoc EXCEPT !.op = "optimize"]]
    <3>1. Quiet(t, "o_klist") /\ pc[t] = "o_unlink"
      BY <1>0, <1>2, <2>2 DEF OptUnlink, At, Quiet, NoLoc
    <3>2. Len(chunks) >= 2
      BY <2>2, LenProperties DEF TypeInv, MemOK
    <3> QED BY <3>1, <3>2, QuietHeld DEF Points, Keeping, Saving, Merging
  <2> QED BY <1>2, <2>1, <2>2 DEF OptUnlink, NextRound, Goto
<1>3. CASE OptGiveUp(t) \/ OptRenameFails(t) \/ OptLeaveFiles(t)
  <2>1. Quiet(t, "idle") /\ pc[t] \in Merging \cup {"o_unlink"}
    BY <1>3, KeepsSame DEF OptGiveUp, OptRenameFails, OptLeaveFiles, At, Finish, Goto, Quiet, Merging
  <2> QED BY <2>1, QuietHeld DEF Points, Keeping, Saving, Merging
<1>4. CASE OptKlist(t) \/ OptMerge(t)
  <2>1. \E l \in {"o_merge", "o_writer"} : Quiet(t, l) /\ pc[t] \in Merging
    BY <1>0, <1>4 DEF OptKlist, OptMerge, At, Goto, Quiet, Merging, LocIs, LocFields
  <2> QED BY <2>1, QuietHeld DEF Points, Keeping, Saving, Merging
<1>5. CASE OptLockWriter(t) \/ OptLockOuter(t) \/ OptRenameOld(t) \/ OptRenameNew(t)
  <2>1. \E l \in {"o_outer", "o_old", "o_new", "o_swap"} : Quiet(t, l) /\ pc[t] \in Merging
    BY <1>5, KeepsSame
       DEF OptLockWriter, OptLockOuter, OptRenameOld, OptRenameNew, At, Goto, Quiet, Merging
  <2> QED BY <2>1, QuietHeld DEF Points, Keeping, Saving, Merging
<1> QED BY <1>1, <1>2, <1>3, <1>4, <1>5 DEF Optimize

LEMMA BeginHeld == ASSUME TypeInv, NEW t \in Thread, BeginAny(t) PROVE Held'
<1> USE DEF memVars, segVars, chunkVars
<1>0. DOMAIN loc = Thread /\ LocIs(loc[t])
  BY DEF TypeInv, LockInv, ControlOK, LocsOK
<1>1. UNCHANGED <<segs, dbuf, chunks>> /\ pc[t] = "idle"
  BY DEF BeginAny, CommitBegin, DiskBegin, FlushBegin, ShutdownBegin, UpdateBegin,
     SaveAttributes, QueryBegin, TruncBegin, OptBegin, Begin, At
<1>2. \/ \E l \in {"c_writer", "d_writer", "f_lock", "f_kill", "u_lock", "idle", "q_disk",
                   "t_writer"} : pc' = [pc EXCEPT ![t] = l]
      \/ pc' = [pc EXCEPT ![t] = "o_klist"] /\ Len(chunks) > 1
  <2>1. CASE OptBegin(t)
    BY <2>1 DEF OptBegin, Begin, Goto
  <2>2. CASE CommitBegin(t)
    BY <2>2 DEF CommitBegin, Begin, Goto
  <2>3. CASE UpdateBegin(t)
    BY <2>3 DEF UpdateBegin, Begin, Goto
  <2>4. CASE \/ DiskBegin(t) \/ FlushBegin(t) \/ ShutdownBegin(t) \/ SaveAttributes(t)
             \/ QueryBegin(t) \/ TruncBegin(t)
    BY <2>4 DEF DiskBegin, FlushBegin, ShutdownBegin, SaveAttributes, QueryBegin, TruncBegin,
       Begin, Goto
  <2> QED BY <2>1, <2>2, <2>3, <2>4 DEF BeginAny
<1>3. \A u \in Thread : loc'[u].keep \subseteq loc[u].keep
  <2>1. CASE CommitBegin(t) \/ UpdateBegin(t)
    <3>1. \E l : loc' = [loc EXCEPT ![t] = l] /\ l.keep = {}
      <4>1. CASE CommitBegin(t)
        <5>1. \E kill \in (SUBSET Doc) \ {{}}, adds \in Rows :
                 loc' = [loc EXCEPT ![t] =
                           [NoLoc EXCEPT !.op = "commit", !.adds = adds, !.kill = kill]]
          BY <4>1 DEF CommitBegin
        <5>2. \A kill, adds :
                 [NoLoc EXCEPT !.op = "commit", !.adds = adds, !.kill = kill].keep = {}
          BY DEF NoLoc
        <5> QED BY <5>1, <5>2
      <4>2. CASE UpdateBegin(t)
        <5>1. PICK d \in Doc, v \in Val :
                 loc' = [loc EXCEPT ![t] = [NoLoc EXCEPT !.op = "update", !.adds[d] = v]]
          BY <4>2 DEF UpdateBegin
        <5> DEFINE l == [NoLoc EXCEPT !.op = "update", !.adds[d] = v]
        <5>2. l.keep = {}
          BY DEF NoLoc
        <5>3. loc' = [loc EXCEPT ![t] = l]
          BY <5>1
        <5> HIDE DEF l
        <5> QED BY <5>2, <5>3
      <4> QED BY <2>1, <4>1, <4>2
    <3> QED BY <1>0, <3>1
  <2>2. CASE ~CommitBegin(t) /\ ~UpdateBegin(t)
    BY <1>0, <2>2, KeepsSame DEF BeginAny, DiskBegin, FlushBegin, ShutdownBegin,
       SaveAttributes, QueryBegin, TruncBegin, OptBegin, LocIs, LocFields
  <2> QED BY <2>1, <2>2
<1>4. Len(chunks) \in Nat
  BY LenProperties DEF TypeInv, MemOK
<1>5. \/ \E l \in {"c_writer", "d_writer", "f_lock", "f_kill", "u_lock", "idle", "q_disk",
                   "t_writer"} : Quiet(t, l)
      \/ Quiet(t, "o_klist") /\ Len(chunks) >= 2
  BY <1>1, <1>2, <1>3, <1>4 DEF Quiet
<1>6. CASE Quiet(t, "o_klist") /\ Len(chunks) >= 2
  BY <1>1, <1>6, QuietHeld DEF Points, Keeping, Saving, Merging
<1>7. ASSUME NEW l \in {"c_writer", "d_writer", "f_lock", "f_kill", "u_lock", "idle", "q_disk",
                        "t_writer"},
             Quiet(t, l)
      PROVE  Held'
  <2>1. l \in Points /\ l \notin Keeping /\ l \notin Merging /\ pc[t] \notin Saving
    BY <1>1 DEF Points, Keeping, Saving, Merging
  <2> QED BY <1>7, <2>1, QuietHeld
<1> QED BY <1>5, <1>6, <1>7

LEMMA StopHeld == ASSUME Stop PROVE Held'
BY DEF Stop, Held, KeptSegments, DoubleBufferSaved, TwoChunks

LEMMA RecoveryHeld == ASSUME TypeInv, Recovery PROVE Held'
<1> USE DEF memVars, segVars, chunkVars
<1>0. Replayer \in Thread /\ DOMAIN loc = Thread
  BY ThreadAssumption DEF Replayer, TypeInv, LockInv, ControlOK
<1>1. CASE Restart
  BY <1>1 DEF Restart, TypeInv, StoppedIdle, Held, KeptSegments, DoubleBufferSaved, TwoChunks
<1>2. CASE ReplayCommit
  <2>1. Quiet(Replayer, "c_writer") /\ pc[Replayer] = "idle"
    BY <1>0, <1>2 DEF ReplayCommit, ReplayIdle, At, Goto, Quiet, NoLoc
  <2> QED BY <1>0, <2>1, QuietHeld DEF Points, Keeping, Saving, Merging
<1>3. CASE ReplayUpdateAttributes
  BY <1>3, WriteAttrHeld DEF ReplayUpdateAttributes, TypeInv, FilesOK
<1>4. CASE ReplayDone
  BY <1>4 DEF ReplayDone, TypeInv, Held, KeptSegments, DoubleBufferSaved, TwoChunks
<1> QED BY <1>1, <1>2, <1>3, <1>4 DEF Recovery

LEMMA HeldKept == ASSUME TypeInv, [Next]_vars PROVE Held'
<1>1. ASSUME NEW t \in Thread, Step(t) PROVE Held'
  BY <1>1, CommitHeld, SaveHeld, FlushHeldKept, UpdateHeld, TruncateHeld, OptimizeHeld,
     StopHeld DEF Step, ShutdownEnd
<1>2. CASE UNCHANGED vars
  BY <1>2 DEF vars, memVars, segVars, chunkVars, TypeInv, Held, KeptSegments,
     DoubleBufferSaved, TwoChunks
<1> QED BY <1>1, <1>2, BeginHeld, StopHeld, RecoveryHeld DEF Next, Crash

-----------------------------------------------------------------------------
LEMMA InitTypes == Init => TypeInv
<1> SUFFICES ASSUME Init PROVE TypeInv
  OBVIOUS
<1>1. MemOK /\ OwnersOK
  BY NoRowsType, EmptySeq, BoundAssumption DEF Init, MemOK, OwnersOK
<1>2. FilesOK
  BY NoRowsType DEF Init, FilesOK, FileFields, NoFiles, NoLog
<1>3. LocsOK
  BY NoLocType DEF Init, LocsOK
<1>4. StoppedIdle /\ OpsExclude /\ KeptSegments /\ DoubleBufferSaved /\ TwoChunks
  BY DEF Init, StoppedIdle, OpsExclude, KeptSegments, DoubleBufferSaved, TwoChunks, NoLoc
<1> QED BY <1>1, <1>2, <1>3, <1>4, InitLocks DEF TypeInv

LEMMA TypeInvKept == ASSUME TypeInv, [Next]_vars PROVE TypeInv'
<1>1. LockInv'
  BY NextKeeps DEF TypeInv
<1> QED BY <1>1, MemKept, FilesKept, OwnersKept, LocsKept, HeldKept DEF TypeInv, Held

\* Every variable, file and local variable keeps its type, through all operations,
\* failures, crashes and starts: no commit merges segments that are gone, and no
\* chunk merge looks for a chunk that is not there.
THEOREM TypesKept == Spec => []TypeOK
<1>1. Init => TypeInv
  BY InitTypes
<1>2. TypeInv /\ [Next]_vars => TypeInv'
  BY TypeInvKept
<1>3. TypeInv => TypeOK
  BY DEF TypeInv, MemOK, FilesOK, OwnersOK, LocsOK, LocIs, LockInv, ControlOK, TypeOK
<1> QED BY <1>1, <1>2, <1>3, PTL DEF Spec
=============================================================================
