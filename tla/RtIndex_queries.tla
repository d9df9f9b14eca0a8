--------------------------- MODULE RtIndex_queries --------------------------
(***************************************************************************)
(* Proofs about what queries find in an RT index, for any threads,         *)
(* documents and limits.                                                   *)
(*                                                                         *)
(* While it runs, the index never has two live copies of a document        *)
(* (AtMostOneAlive), the segments a commit merges never show one twice     *)
(* (NoDupesToMerge), and indexed_documents counts what queries find        *)
(* (TotalMatchesVisible), with concurrent updates, saves, truncates and    *)
(* chunk merges.  A commit looks for the older copies in one step, merges  *)
(* segments and changes the kill-lists in others, and dumps and chunk      *)
(* merges move both documents and kills in between.  The invariant says    *)
(* what each of them may rely on at every point: the writer mutex keeps    *)
(* the data it has looked at, but for what an UPDATE writes, which no kill *)
(* depends on.                                                             *)
(*                                                                         *)
(* What an index shows does not change under a query, except by UPDATE     *)
(* (SnapshotStable): every step that changes the segments, the chunks or   *)
(* the kill-list has the readers out (RtIndex_types), or changes nothing a *)
(* query can see, or happens when there are no queries yet.                *)
(*                                                                         *)
(* While the index runs and nobody updates, a query has found all there    *)
(* is, a saved chunk is complete, and the index implements DocStore: what  *)
(* is found changes when a transaction or a TRUNCATE takes effect and      *)
(* never else.  On top of where the live copies are, the invariant says    *)
(* which version each thread holds at every point.                         *)
(***************************************************************************)
EXTENDS RtIndex_types

\* The index runs and is not stopped.
OneRun == CrashAt = {} /\ "shutdown" \notin Ops
-----------------------------------------------------------------------------
(* The inductive invariant. *)

\* The merger sees d in segment g of the vector that t is building.
Sees(t, g, d) == MergerSees(Work(t)[g], d, loc[t].kill)

\* A document has one alive row in RAM, one in the chunks, and if both, then the
\* kill-list has it.
OneCopy ==
    \A d \in Doc :
       /\ \A g, h \in RamRows(d) : g = h
       /\ \A i, j \in DOMAIN chunks : LiveInChunk(i, d) /\ LiveInChunk(j, d) => i = j
       /\ \A i \in DOMAIN chunks : LiveInChunk(i, d) /\ RamRows(d) # {} => d \in klist

\* No kills come during a save.  A save that finds nothing to save leaves its
\* kill-list behind, which matters only as long as the chunks are the same.
OldKills == nklist = {} /\ (dklist \subseteq klist \/ chunks = <<>>)

\* A query finds d.
Found(d) == RamRows(d) # {} \/ DiskRows(d) # {}

\* d is in RAM when the transaction of t is done.
Stays(t, d) == IF d \in loc[t].kill THEN loc[t].adds[d] # NoRow ELSE RamRows(d) # {}

\* The segments a commit goes on with: each document that stays once and no other; at
\* last, it has found and counted all that it kills.
CommitOK(t) ==
    /\ pc[t] \in CommitPending => \A d \in Doc : loc[t].adds[d] # NoRow => d \in loc[t].kill
    /\ pc[t] \in Keeping =>
         /\ \A g \in loc[t].keep : segs[g].tls
         /\ \A g \in DOMAIN loc[t].fresh : g \notin DOMAIN segs /\ ~loc[t].fresh[g].tls
         /\ \A g, h \in DOMAIN Work(t), d \in Doc : Sees(t, g, d) /\ Sees(t, h, d) => g = h
         /\ \A d \in Doc : Stays(t, d) <=> \E g \in DOMAIN Work(t) : Sees(t, g, d)
    /\ pc[t] = "c_live" =>
         /\ \A d \in loc[t].kill, i \in DOMAIN chunks :
               LiveInChunk(i, d) => d \in klist \cup loc[t].live
         /\ loc[t].live \subseteq loc[t].kill
         /\ loc[t].dead = Cardinality({d \in loc[t].kill : Found(d)})

\* The chunk that is being saved.
SaveOK(t) ==
    /\ pc[t] \in Saving => dklist = klist /\ dbuf \in {{}, DOMAIN segs}
    /\ pc[t] \in Saving \ {"s_write"} =>
         /\ loc[t].chunk.klist = klist
         /\ \A d \in Doc : HasRow(loc[t].chunk, d) <=> RamRows(d) # {}

\* The kill-list has d or one of the chunks that are not merged, or merged last.
Hidden(d) == d \in klist \/ \E j \in 2..Len(chunks) : d \in chunks[j].klist

\* The chunk that OPTIMIZE makes of the two oldest.  What it filters out is killed
\* by then, by the kill-list or a chunk that took it over.
MergeOK(t) ==
    /\ pc[t] \in Merging \ {"o_klist"} =>
         /\ chunks[2].klist \subseteq loc[t].kill
         /\ \A d \in loc[t].kill : Hidden(d)
    /\ pc[t] \in Merging \ {"o_klist", "o_merge"} =>
         \A d \in Doc : HasRow(loc[t].chunk, d) <=>
            HasRow(chunks[2], d) \/ (HasRow(chunks[1], d) /\ d \notin loc[t].kill)

UpdateOK(t) == pc[t] \in UpdatePending => \E d \in Doc : loc[t].adds[d] # NoRow

ThreadOK(t) == CommitOK(t) /\ SaveOK(t) /\ MergeOK(t) /\ UpdateOK(t)

\* indexed_documents, as long as the index is not stopped; TRUNCATE resets it ahead
\* of the data.
Emptying == {"t_notify", "t_ram", "t_chunks", "t_mem"}
Counted ==
    OneRun => IF \E t \in Thread : pc[t] \in Emptying THEN total = 0
              ELSE total = Cardinality({d \in Doc : Found(d)})

Running ==
    OneRun => mode \in {"up", "dead"} /\ \A t \in Thread : loc[t].op \in Ops \cup {"none"}

AliveInv ==
    /\ TypeInv /\ Running /\ OneCopy /\ OldKills /\ Counted
    /\ \A t \in Thread : ThreadOK(t)

-----------------------------------------------------------------------------
(* The index goes on running. *)

LEMMA BeginRuns == ASSUME AliveInv, NEW t \in Thread, BeginAny(t) PROVE Running'
<1> SUFFICES ASSUME OneRun PROVE Running'
  BY DEF Running
<1>0. DOMAIN loc = Thread /\ LocIs(loc[t]) /\ Running /\ "shutdown" \notin Ops
  BY DEF AliveInv, TypeInv, LocsOK, LockInv, ControlOK, OneRun
<1>1. ~ShutdownBegin(t)
  BY <1>0 DEF ShutdownBegin, Begin
<1>2. loc'[t].op \in Ops \cup {"none"}
  BY ZenonT(60), <1>0, <1>1 DEF BeginAny, CommitBegin, DiskBegin, FlushBegin, UpdateBegin, SaveAttributes,
     QueryBegin, TruncBegin, OptBegin, Begin, NoLoc, LocIs, LocFields, Running
<1>3. (\A u \in Thread \ {t} : loc'[u] = loc[u]) /\ mode' = mode
  BY <1>0, <1>1 DEF BeginAny, CommitBegin, DiskBegin, FlushBegin, UpdateBegin, SaveAttributes,
     QueryBegin, TruncBegin, OptBegin, envVars
<1> QED BY <1>0, <1>2, <1>3 DEF Running

LEMMA StepRuns ==
  ASSUME AliveInv, NEW t \in Thread, Step(t)
  PROVE  Running' /\ (OneRun => ~ShutdownEnd(t))
<1> SUFFICES ASSUME OneRun PROVE Running' /\ ~ShutdownEnd(t)
  BY DEF Running
<1>0. DOMAIN loc = Thread /\ LocIs(loc[t]) /\ Running /\ NoLoc.op = "none"
  BY DEF AliveInv, TypeInv, LocsOK, LockInv, ControlOK, NoLoc
<1>9. ~ShutdownEnd(t)
  BY <1>0 DEF ShutdownEnd, Running, OneRun
<1> SUFFICES Running'
  BY <1>9
<1> DEFINE Same == UNCHANGED mode /\ (UNCHANGED loc \/ loc' = [loc EXCEPT ![t] = NoLoc])
<1>1. Same => Running'
  BY <1>0 DEF Running
<1>2. ASSUME NEW x, loc' = [loc EXCEPT ![t] = x], x.op = loc[t].op, UNCHANGED mode PROVE Running'
  BY <1>0, <1>2 DEF Running
<1>3. CASE Commit(t)
  <2>1. CASE CommitMark(t) \/ CommitMerge(t) \/ CommitMergeDone(t) \/ CommitCount(t)
    <3>1. /\ mode' = mode /\ loc'[t].op = loc[t].op
          /\ \A u \in Thread \ {t} : loc'[u] = loc[u]
      BY ZenonT(60), <1>0, <2>1 DEF CommitMark, CommitMerge, CommitMergeDone, CommitCount, LocIs, LocFields,
         envVars
    <3> QED BY <1>0, <3>1 DEF Running
  <2>2. CASE CommitLive(t)
    <3>1. Same
      BY <2>2, Zenon DEF CommitLive, Finish, envVars
    <3> QED BY <1>1, <3>1
  <2>3. CASE \/ CommitLockWriter(t) \/ CommitLockInner(t) \/ CommitBinlog(t) \/ CommitDump(t)
    BY <1>1, <2>3 DEF CommitLockWriter, CommitLockInner, CommitBinlog, CommitDump, envVars
  <2> QED BY <1>3, <2>1, <2>2, <2>3 DEF Commit
<1>4. CASE SaveDiskChunk(t) \/ ForceDiskChunk(t)
  <2>1. CASE SaveWrite(t) \/ DiskKlist(t)
    <3>1. /\ mode' = mode /\ loc'[t].op = loc[t].op
          /\ \A u \in Thread \ {t} : loc'[u] = loc[u]
      BY <1>0, <2>1 DEF SaveWrite, DiskKlist, LocIs, LocFields, envVars
    <3> QED BY <1>0, <3>1 DEF Running
  <2>2. CASE \/ SaveMeta(t) \/ SaveLockInner(t) \/ SaveSwap(t) \/ SaveEnd(t)
             \/ DiskLockWriter(t) \/ DiskLockOuter(t)
    BY <1>1, <2>2 DEF SaveMeta, SaveLockInner, SaveSwap, SaveEnd, DiskLockWriter, DiskLockOuter,
       Finish, envVars
  <2> QED BY <1>4, <2>1, <2>2 DEF SaveDiskChunk, ForceDiskChunk
<1>5. CASE ForceRamFlush(t)
  <2>1. CASE FlushRam(t)
    BY <1>0, <2>1 DEF FlushRam, envVars, Running
  <2>2. CASE ~FlushRam(t)
    BY <1>1, <1>5, <2>2 DEF ForceRamFlush, FlushLock, FlushKillOpen, FlushKillDone, FlushFails,
       ShutdownFails, FlushMeta, FlushNotify, FlushEnd, Finish, envVars
  <2> QED BY <2>1, <2>2
<1>6. CASE UpdateAttributes(t) \/ Truncate(t)
  BY <1>1, <1>6 DEF UpdateAttributes, UpdateLock, UpdateApply, UpdateLog, Truncate,
     TruncLockWriter, TruncLockOuter, TruncMeta, TruncNotify, TruncRam, TruncChunks, TruncMem,
     Finish, envVars
<1>7. CASE MultiQuery(t)
  <2>1. CASE QueryDisk(t) \/ QueryRam(t)
    <3>1. /\ mode' = mode /\ loc'[t].op = loc[t].op
          /\ \A u \in Thread \ {t} : loc'[u] = loc[u]
      BY <1>0, <2>1 DEF QueryDisk, QueryRam, LocIs, LocFields, envVars
    <3> QED BY <1>0, <3>1 DEF Running
  <2> QED BY <1>1, <1>7, <2>1 DEF MultiQuery, QueryEnd, Finish, envVars
<1>8. CASE Optimize(t)
  <2>1. CASE OptKlist(t) \/ OptMerge(t) \/ OptUnlink(t)
    <3>0. loc[t].op = "optimize"
      BY <2>1 DEF OptKlist, OptMerge, OptUnlink, At, AliveInv, TypeInv, LockInv, ControlOK, OpAt
    <3>1. /\ mode' = mode /\ loc'[t].op \in {loc[t].op, "none"}
          /\ \A u \in Thread \ {t} : loc'[u] = loc[u]
      BY <1>0, <2>1, <3>0 DEF OptKlist, OptMerge, OptUnlink, NextRound, Finish, NoLoc, LocIs, LocFields,
         envVars
    <3> QED BY <1>0, <3>1 DEF Running
  <2> QED BY <1>1, <1>8, <2>1 DEF Optimize, OptGiveUp, OptLockWriter, OptLockOuter, OptRenameOld,
     OptRenameFails, OptRenameNew, OptSwap, OptLeaveFiles, Finish, envVars
<1> QED BY <1>3, <1>4, <1>5, <1>6, <1>7, <1>8, <1>9 DEF Step

LEMMA NoStop == ASSUME OneRun, AliveInv PROVE ~Crash /\ ~Recovery
BY ThreadAssumption DEF AliveInv, Running, OneRun, Crash, Recovery, Restart, ReplayCommit,
   ReplayUpdateAttributes, ReplayDone, ReplayIdle

-----------------------------------------------------------------------------
(* What leaves a thread what it relies on. *)

\* UPDATE writes versions: no row comes or goes, and no kill.
SameShape ==
    /\ UNCHANGED <<dbuf, klist, dklist, nklist>>
    /\ DOMAIN segs' = DOMAIN segs /\ DOMAIN chunks' = DOMAIN chunks /\ Len(chunks') = Len(chunks)
    /\ \A g \in DOMAIN segs :
         /\ segs'[g].klist = segs[g].klist /\ segs'[g].tls = segs[g].tls
         /\ \A d \in Doc : HasRow(segs'[g], d) <=> HasRow(segs[g], d)
    /\ \A i \in DOMAIN chunks :
         /\ chunks'[i].klist = chunks[i].klist
         /\ \A d \in Doc : HasRow(chunks'[i], d) <=> HasRow(chunks[i], d)

DataSame == UNCHANGED <<segs, dbuf, klist, dklist, nklist, chunks>>

LEMMA ShapeSame == ASSUME DataSame PROVE SameShape
BY DEF DataSame, SameShape

LEMMA FoundSame ==
  ASSUME NEW d, RamRows(d)' = RamRows(d), DiskRows(d)' = DiskRows(d) PROVE Found(d)' <=> Found(d)
BY DEF Found

\* The count is right as long as the same documents are found and none is added to it.
LEMMA CountedFrame ==
  ASSUME Counted, total' = total, \A d \in Doc : Found(d)' <=> Found(d),
         \A u \in Thread : pc'[u] \in Emptying <=> pc[u] \in Emptying
  PROVE  Counted'
<1>1. {d \in Doc : Found(d)}' = {d \in Doc : Found(d)}
  OBVIOUS
<1> QED BY <1>1 DEF Counted

LEMMA ShapeRows ==
  ASSUME MemOK, SameShape, NEW d \in Doc
  PROVE  /\ RamRows(d)' = RamRows(d)
         /\ Found(d)' <=> Found(d)
         /\ \A i \in DOMAIN chunks : LiveInChunk(i, d)' <=> LiveInChunk(i, d)
<1>1. RamRows(d)' = RamRows(d)
  BY DEF SameShape, RamRows, AliveRow, HasRow
<1>2. DOMAIN chunks = 1..Len(chunks) /\ Len(chunks) \in Nat
  BY DEF MemOK
<1>3. ASSUME NEW i \in DOMAIN chunks PROVE LiveInChunk(i, d)' <=> LiveInChunk(i, d)
  <2>1. \A j \in (i + 1)..Len(chunks) : j \in DOMAIN chunks
    BY <1>2, <1>3
  <2> QED BY <1>3, <2>1 DEF SameShape, LiveInChunk, HasRow
<1>4. DiskRows(d)' = DiskRows(d)
  BY <1>3 DEF DiskRows, SameShape
<1> QED BY <1>1, <1>3, <1>4, FoundSame

LEMMA ShapeCopies == ASSUME MemOK, SameShape, OneCopy, OldKills PROVE OneCopy' /\ OldKills'
<1>1. OneCopy'
  BY ShapeRows DEF OneCopy, SameShape
<1>2. DOMAIN chunks = 1..Len(chunks) /\ Len(chunks) \in Nat
  BY DEF MemOK
<1>3. chunks = <<>> => DOMAIN chunks = {}
  OBVIOUS
<1>4. OldKills'
  <2>1. CASE dklist \subseteq klist
    BY <2>1 DEF OldKills, SameShape
  <2>2. CASE chunks = <<>>
    BY <2>2 DEF OldKills, SameShape
  <2> QED BY <2>1, <2>2 DEF OldKills
<1> QED BY <1>1, <1>4

LEMMA ShapeThread ==
  ASSUME TypeInv, SameShape, NEW u \in Thread, ThreadOK(u), loc'[u] = loc[u], pc'[u] = pc[u]
  PROVE  ThreadOK(u)'
<1>0. MemOK /\ LocIs(loc[u]) /\ KeptSegments /\ DOMAIN chunks = 1..Len(chunks) /\ Len(chunks) \in Nat
  BY DEF TypeInv, LocsOK, MemOK
<1>1. CommitOK(u)'
  <2>1. CASE pc[u] \in Keeping
    <3>1. loc[u].keep \subseteq DOMAIN segs
      BY <1>0, <2>1 DEF KeptSegments, Keeping
    <3>2. DOMAIN Work(u)' = DOMAIN Work(u)
      BY DEF Work
    <3>3. ASSUME NEW g \in DOMAIN Work(u), NEW d \in Doc PROVE Sees(u, g, d)' <=> Sees(u, g, d)
      <4>1. CASE g \in loc[u].keep
        <5>1. Work(u)[g] = segs[g] /\ Work(u)'[g] = segs'[g] /\ g \in DOMAIN segs
          BY <3>1, <4>1 DEF Work
        <5> QED BY <5>1 DEF Sees, MergerSees, AliveRow, SameShape
      <4>2. CASE g \notin loc[u].keep
        <5>1. Work(u)[g] = loc[u].fresh[g] /\ Work(u)'[g] = loc[u].fresh[g]
          BY <3>3, <4>2 DEF Work
        <5> QED BY <5>1 DEF Sees, MergerSees, AliveRow, HasRow
      <4> QED BY <4>1, <4>2
    <3>4. pc[u] \in CommitPending => \A d \in Doc : loc'[u].adds[d] # NoRow => d \in loc'[u].kill
      BY DEF ThreadOK, CommitOK
    <3>5. /\ \A g \in loc'[u].keep : segs'[g].tls
          /\ \A g \in DOMAIN loc'[u].fresh : g \notin DOMAIN segs' /\ ~loc'[u].fresh[g].tls
      BY <2>1, <3>1 DEF ThreadOK, CommitOK, SameShape
    <3>6. \A g, h \in DOMAIN Work(u)', d \in Doc : Sees(u, g, d)' /\ Sees(u, h, d)' => g = h
      BY <2>1, <3>2, <3>3 DEF ThreadOK, CommitOK
    <3>7. \A d \in Doc : Stays(u, d)' <=> \E g \in DOMAIN Work(u)' : Sees(u, g, d)'
      <4>1. \A d \in Doc : Stays(u, d)' <=> Stays(u, d)
        BY <1>0, ShapeRows DEF Stays
      <4> QED BY <2>1, <3>2, <3>3, <4>1 DEF ThreadOK, CommitOK
    <3>8. loc[u].kill \subseteq Doc
      BY <1>0 DEF LocIs, LocOK
    <3>9. {d \in loc[u].kill : Found(d)}' = {d \in loc[u].kill : Found(d)}
      BY <1>0, <3>8, ShapeRows
    <3>10. pc'[u] = "c_live" =>
            /\ \A d \in loc'[u].kill, i \in DOMAIN chunks' :
                 LiveInChunk(i, d)' => d \in klist' \cup loc'[u].live
            /\ loc'[u].live \subseteq loc'[u].kill
            /\ loc'[u].dead = Cardinality({d \in loc[u].kill : Found(d)}')
      BY <1>0, <3>8, <3>9, ShapeRows DEF ThreadOK, CommitOK, SameShape
    <3> QED BY <3>4, <3>5, <3>6, <3>7, <3>10 DEF CommitOK
  <2>2. CASE pc[u] \notin Keeping
    BY <2>2 DEF ThreadOK, CommitOK, Keeping
  <2> QED BY <2>1, <2>2
<1>2. SaveOK(u)'
  BY <1>0, ShapeRows DEF ThreadOK, SaveOK, SameShape, HasRow
<1>3. MergeOK(u)'
  <2>1. CASE pc[u] \in Merging
    <3>1. 1 \in DOMAIN chunks /\ 2 \in DOMAIN chunks
      BY <1>0, <2>1 DEF TypeInv, TwoChunks, Merging
    <3>2. chunks'[2].klist = chunks[2].klist
      BY <3>1 DEF SameShape
    <3>3. \A d \in Doc : /\ HasRow(chunks'[1], d) <=> HasRow(chunks[1], d)
                         /\ HasRow(chunks'[2], d) <=> HasRow(chunks[2], d)
      BY <3>1 DEF SameShape
    <3>4. \A d \in Doc : Hidden(d) => Hidden(d)'
      BY <1>0 DEF SameShape, Hidden
    <3>5. loc[u].kill \subseteq Doc
      BY <1>0 DEF LocIs, LocOK
    <3> QED BY <3>2, <3>3, <3>4, <3>5 DEF ThreadOK, MergeOK, HasRow
  <2>2. CASE pc[u] \notin Merging
    BY <2>2 DEF MergeOK
  <2> QED BY <2>1, <2>2
<1>4. UpdateOK(u)'
  BY DEF ThreadOK, UpdateOK
<1> QED BY <1>1, <1>2, <1>3, <1>4 DEF ThreadOK

LEMMA WorkSame ==
  ASSUME NEW t \in Thread, UNCHANGED segs, loc'[t].keep = loc[t].keep, loc'[t].fresh = loc[t].fresh
  PROVE  Work(t)' = Work(t)
BY DEF Work

\* Points at which a thread relies on nothing.
Relying == CommitPending \cup Saving \cup (Merging \ {"o_klist"}) \cup UpdatePending

LEMMA NothingRelied == ASSUME NEW t \in Thread, pc'[t] \notin Relying PROVE ThreadOK(t)'
BY DEF Relying, ThreadOK, CommitOK, SaveOK, MergeOK, UpdateOK, CommitPending, Keeping, Saving,
   UpdatePending

\* Data and the local variables that matter stay as they are: the thread may go on
\* to any point where it relies on no more.
LEMMA MoveKept ==
  ASSUME AliveInv, DataSame, NEW t \in Thread,
         \A f \in {"adds", "kill", "keep", "fresh", "live", "dead", "chunk"} : loc'[t][f] = loc[t][f],
         \A S \in {CommitPending, Keeping, {"c_live"}, Saving, Saving \ {"s_write"},
                   Merging \ {"o_klist"}, Merging \ {"o_klist", "o_merge"}, UpdatePending} :
            pc'[t] \in S => pc[t] \in S
  PROVE  ThreadOK(t)'
<1>0. ThreadOK(t) /\ LocIs(loc[t])
  BY DEF AliveInv, TypeInv, LocsOK
<1>1. /\ loc'[t].adds = loc[t].adds /\ loc'[t].kill = loc[t].kill /\ loc'[t].keep = loc[t].keep
      /\ loc'[t].fresh = loc[t].fresh /\ loc'[t].live = loc[t].live
      /\ loc'[t].chunk = loc[t].chunk /\ loc'[t].dead = loc[t].dead
  OBVIOUS
<1>2. Work(t)' = Work(t)
  BY <1>1, WorkSame DEF DataSame
<1>3. \A g, d : Sees(t, g, d)' = Sees(t, g, d)
  BY <1>1, <1>2 DEF Sees
<1>4. \A d : RamRows(d)' = RamRows(d)
  BY DEF RamRows, DataSame
<1>5. \A i, d : LiveInChunk(i, d)' = LiveInChunk(i, d)
  BY DEF LiveInChunk, DataSame
<1>6. CommitOK(t)'
  <2>1. \A d : Found(d)' = Found(d) /\ Stays(t, d)' = Stays(t, d)
    BY <1>1, <1>4, <1>5 DEF Found, DiskRows, Stays, DataSame
  <2>2. {d \in loc[t].kill : Found(d)}' = {d \in loc[t].kill : Found(d)}
    BY <1>1, <2>1
  <2> QED BY SMTT(30), <1>0, <1>1, <1>2, <1>3, <1>4, <1>5, <2>1, <2>2 DEF ThreadOK, CommitOK, DataSame
<1>7. SaveOK(t)'
  BY <1>0, <1>1, <1>4 DEF ThreadOK, SaveOK, DataSame
<1>8. MergeOK(t)'
  BY <1>0, <1>1 DEF ThreadOK, MergeOK, Hidden, DataSame
<1>9. UpdateOK(t)'
  BY <1>0, <1>1 DEF ThreadOK, UpdateOK
<1> QED BY <1>6, <1>7, <1>8, <1>9 DEF ThreadOK

\* What a thread with the writer mutex does leaves the others what they rely on: at
\* most the two chunks that they merge.
LEMMA OthersKept ==
  ASSUME AliveInv, NEW t \in Thread, pc[t] \in WriterHeld, NEW u \in Thread \ {t},
         loc'[u] = loc[u], pc'[u] = pc[u],
         pc[u] \in Merging => /\ chunks'[1] = chunks[1] /\ chunks'[2] = chunks[2]
                              /\ \A d \in Doc : Hidden(d) => Hidden(d)'
  PROVE  ThreadOK(u)'
<1>1. pc[u] \notin WriterHeld /\ ThreadOK(u)
  BY OneWriter DEF AliveInv, TypeInv
<1>2. CommitOK(u)' /\ SaveOK(u)' /\ UpdateOK(u)'
  BY <1>1 DEF ThreadOK, CommitOK, SaveOK, UpdateOK, WriterHeld, Keeping, Saving
<1>3. MergeOK(u)'
  <2>1. loc[u].kill \subseteq Doc
    BY DEF AliveInv, TypeInv, LocsOK, LocIs, LocOK
  <2> QED BY <1>1, <2>1 DEF ThreadOK, MergeOK
<1> QED BY <1>2, <1>3 DEF ThreadOK

\* A step that changes no data.
LEMMA QuietStep ==
  ASSUME AliveInv, TypeInv', Running', DataSame, total' = total, NEW t \in Thread, ThreadOK(t)',
         pc'[t] \in Emptying <=> pc[t] \in Emptying,
         \A u \in Thread \ {t} : loc'[u] = loc[u] /\ pc'[u] = pc[u]
  PROVE  AliveInv'
<1>1. SameShape
  BY ShapeSame
<1>2. OneCopy' /\ OldKills'
  BY <1>1, ShapeCopies DEF AliveInv, TypeInv
<1>3. \A u \in Thread : ThreadOK(u)'
  BY <1>1, ShapeThread DEF AliveInv
<1>4. Counted'
  BY <1>1, ShapeRows, CountedFrame DEF AliveInv, TypeInv
<1> QED BY <1>2, <1>3, <1>4 DEF AliveInv

\* No segment is being saved while another thread writes.
LEMMA NothingSaved ==
  ASSUME TypeInv, NEW t \in Thread, pc[t] \in WriterHeld \ Saving PROVE dbuf = {}
BY OneWriter DEF TypeInv, DoubleBufferSaved, WriterHeld, Saving

-----------------------------------------------------------------------------
(* Commits. *)

\* What AliveInv says of one thread, and of the data.
LEMMA Facts ==
  ASSUME AliveInv, NEW t \in Thread
  PROVE  /\ TypeInv /\ Running /\ OneCopy /\ OldKills /\ Counted /\ ThreadOK(t)
         /\ MemOK /\ LocIs(loc[t]) /\ LockInv /\ Locking /\ DOMAIN loc = Thread
         /\ pc \in [Thread -> Points] /\ SegmentMap(segs)
         /\ DOMAIN chunks = 1..Len(chunks) /\ Len(chunks) \in Nat
BY DEF AliveInv, TypeInv, MemOK, LocsOK, LockInv, ControlOK

LEMMA CommitMarkKeeps ==
  ASSUME AliveInv, TypeInv', Running', NEW t \in Thread, CommitMark(t) PROVE AliveInv'
<1> DEFINE new   == NewTag(DOMAIN segs)
           fresh == [g \in (IF loc[t].adds = NoRows THEN {} ELSE {new}) |->
                       [row |-> loc[t].adds, klist |-> {}, tls |-> FALSE]]
<1>0. /\ TypeInv /\ Running /\ OneCopy /\ OldKills /\ Counted /\ ThreadOK(t) /\ MemOK
      /\ LocIs(loc[t])
      /\ DOMAIN loc = Thread /\ pc \in [Thread -> Points] /\ SegmentMap(segs)
  BY Facts
<1>1. pc[t] = "c_mark" /\ Tag \ DOMAIN segs # {}
  BY DEF CommitMark, At
<1>2. dbuf = {}
  BY <1>0, <1>1, NothingSaved DEF WriterHeld, Saving
<1>3. new \in Tag \ DOMAIN segs
  BY <1>1, NewTagType
<1>4. /\ UNCHANGED <<dbuf, klist, dklist, nklist, chunks, total>>
      /\ pc' = [pc EXCEPT ![t] = "c_merge"]
      /\ segs' = [g \in DOMAIN segs |->
                    IF g \in dbuf THEN segs[g] ELSE [segs[g] EXCEPT !.tls = TRUE]]
      /\ loc' = [loc EXCEPT ![t].tid = tid, ![t].keep = DOMAIN segs \ dbuf, ![t].fresh = fresh]
  BY DEF CommitMark, Goto, killVars, chunkVars
<1> HIDE DEF new
<1>5. /\ loc'[t].adds = loc[t].adds /\ loc'[t].kill = loc[t].kill
      /\ loc'[t].keep = DOMAIN segs /\ loc'[t].fresh = fresh
      /\ \A u \in Thread \ {t} : loc'[u] = loc[u] /\ pc'[u] = pc[u]
      /\ pc'[t] = "c_merge"
  BY <1>0, <1>2, <1>4 DEF LocIs, LocFields
<1>6. DOMAIN segs' = DOMAIN segs
      /\ \A g \in DOMAIN segs : /\ segs'[g].row = segs[g].row /\ segs'[g].klist = segs[g].klist
                                /\ segs'[g].tls
  BY <1>0, <1>2, <1>4 DEF SegmentMap, Segment
<1>7. \A d \in Doc : RamRows(d)' = RamRows(d)
  BY <1>6 DEF RamRows, AliveRow, HasRow
<1>8. \A d \in Doc : \A i \in DOMAIN chunks : LiveInChunk(i, d)' <=> LiveInChunk(i, d)
  BY <1>4 DEF LiveInChunk
<1>9. OneCopy' /\ OldKills' /\ Counted'
  <2>1. \A d \in Doc : DiskRows(d)' = DiskRows(d)
    BY <1>4, <1>8 DEF DiskRows
  <2>2. \A d \in Doc : Found(d)' <=> Found(d)
    BY <1>7, <2>1, FoundSame
  <2>3. Counted'
    BY <1>0, <1>1, <1>4, <2>2, CountedFrame DEF Emptying
  <2> QED BY <1>0, <1>4, <1>7, <1>8, <2>3 DEF OneCopy, OldKills
<1>10. CommitOK(t)'
  <2>1. DOMAIN Work(t)' = DOMAIN segs \cup DOMAIN fresh
    BY <1>5 DEF Work
  <2>2. \A g \in DOMAIN segs, d \in Doc : Sees(t, g, d)' => g \in RamRows(d) /\ d \notin loc[t].kill
    <3> SUFFICES ASSUME NEW g \in DOMAIN segs, NEW d \in Doc, Sees(t, g, d)'
                 PROVE  g \in RamRows(d) /\ d \notin loc[t].kill
      OBVIOUS
    <3>1. Work(t)'[g] = segs'[g]
      BY <1>5 DEF Work
    <3> QED BY <1>5, <1>6, <3>1 DEF Sees, MergerSees, RamRows, AliveRow, HasRow
  <2>3. \A g \in DOMAIN fresh, d \in Doc :
           Sees(t, g, d)' => g = new /\ d \in loc[t].kill /\ loc[t].adds[d] # NoRow
    <3> SUFFICES ASSUME NEW g \in DOMAIN fresh, NEW d \in Doc, Sees(t, g, d)'
                 PROVE  g = new /\ d \in loc[t].kill /\ loc[t].adds[d] # NoRow
      OBVIOUS
    <3>1. Work(t)'[g] = fresh[g] /\ fresh[g].row = loc[t].adds /\ g = new
      BY <1>3, <1>5 DEF Work
    <3>2. loc[t].adds[d] # NoRow
      BY <3>1 DEF Sees, MergerSees, AliveRow, HasRow
    <3> QED BY <1>0, <1>1, <3>1, <3>2 DEF ThreadOK, CommitOK, CommitPending
  <2>4. \A g, h \in DOMAIN Work(t)', d \in Doc : Sees(t, g, d)' /\ Sees(t, h, d)' => g = h
    BY <1>0, <2>1, <2>2, <2>3 DEF OneCopy
  <2>5. \A d \in Doc : Stays(t, d)' <=> \E g \in DOMAIN Work(t)' : Sees(t, g, d)'
    <3> TAKE d \in Doc
    <3>1. CASE d \in loc[t].kill
      <4>1. ASSUME loc[t].adds[d] # NoRow
            PROVE  \E g \in DOMAIN Work(t)' : Sees(t, g, d)'
        <5>1. loc[t].adds # NoRows
          BY <4>1 DEF NoRows
        <5>2. DOMAIN fresh = {new}
          BY <5>1
        <5>3. PICK g : g = new
          OBVIOUS
        <5>4. /\ g \in DOMAIN Work(t)' /\ Work(t)'[g] = fresh[g] /\ fresh[g].row = loc[t].adds
              /\ fresh[g].klist = {} /\ ~fresh[g].tls
          BY <1>3, <1>5, <5>2, <5>3 DEF Work
        <5>5. Sees(t, g, d)'
          BY <4>1, <5>4 DEF Sees, MergerSees, AliveRow, HasRow
        <5> QED BY <5>4, <5>5
      <4>2. Stays(t, d)' <=> loc[t].adds[d] # NoRow
        BY <1>5, <3>1 DEF Stays
      <4> QED BY <2>1, <2>2, <2>3, <3>1, <4>1, <4>2
    <3>2. CASE d \notin loc[t].kill
      <4>1. ASSUME NEW g \in RamRows(d) PROVE g \in DOMAIN Work(t)' /\ Sees(t, g, d)'
        <5>1. g \in DOMAIN segs /\ AliveRow(segs[g], d)
          BY DEF RamRows
        <5>2. g \in DOMAIN Work(t)' /\ Work(t)'[g] = segs'[g]
          BY <1>5, <5>1 DEF Work
        <5> QED BY <1>5, <1>6, <3>2, <5>1, <5>2 DEF Sees, MergerSees, AliveRow, HasRow
      <4>2. Stays(t, d)' <=> RamRows(d) # {}
        BY <1>5, <1>7, <3>2 DEF Stays
      <4> QED BY <2>1, <2>2, <2>3, <3>2, <4>1, <4>2
    <3> QED BY <3>1, <3>2
  <2>6. \A g \in loc'[t].keep : segs'[g].tls
    BY <1>5, <1>6
  <2>7. \A g \in DOMAIN loc'[t].fresh : g \notin DOMAIN segs' /\ ~loc'[t].fresh[g].tls
    BY <1>3, <1>5, <1>6
  <2>8. pc'[t] \in CommitPending => \A d \in Doc : loc'[t].adds[d] # NoRow => d \in loc'[t].kill
    BY <1>0, <1>1, <1>5 DEF ThreadOK, CommitOK, CommitPending
  <2> HIDE DEF fresh
  <2> QED BY <1>5, <2>4, <2>5, <2>6, <2>7, <2>8 DEF CommitOK
<1>11. ThreadOK(t)'
  BY <1>5, <1>10 DEF ThreadOK, SaveOK, MergeOK, UpdateOK, Saving, Merging, UpdatePending
<1>12. \A u \in Thread \ {t} : ThreadOK(u)'
  BY <1>1, <1>4, <1>5, OthersKept DEF WriterHeld, Hidden
<1> QED BY <1>9, <1>11, <1>12 DEF AliveInv

\* A merge of two segments shows what either showed.
LEMMA MergeShows ==
  ASSUME NEW a \in Segment, NEW b \in Segment, NEW kill, NEW d \in Doc
  PROVE  /\ MergerSees(MergeSegments(a, b, kill), d, kill)
              <=> MergerSees(a, d, kill) \/ MergerSees(b, d, kill)
         /\ ~MergeSegments(a, b, kill).tls
BY DEF MergeSegments, MergerSees, AliveRow, HasRow

\* What a merge makes of the vector.
LEMMA CommitMergeWork ==
  ASSUME AliveInv, NEW t \in Thread, CommitMerge(t)
  PROVE  \E a, b \in DOMAIN Work(t), new \in Tag \ (DOMAIN segs \cup DOMAIN loc[t].fresh) :
           /\ Work(t)[a] \in Segment /\ Work(t)[b] \in Segment
           /\ loc'[t].keep = loc[t].keep \ {a, b}
           /\ DOMAIN loc'[t].fresh = (DOMAIN loc[t].fresh \ {a, b}) \cup {new}
           /\ loc'[t].fresh[new] = MergeSegments(Work(t)[a], Work(t)[b], loc[t].kill)
           /\ \A g \in DOMAIN loc[t].fresh \ {a, b} : loc'[t].fresh[g] = loc[t].fresh[g]
           /\ DOMAIN Work(t)' = (DOMAIN Work(t) \ {a, b}) \cup {new}
           /\ Work(t)'[new] = MergeSegments(Work(t)[a], Work(t)[b], loc[t].kill)
           /\ \A g \in DOMAIN Work(t) \ {a, b} : Work(t)'[g] = Work(t)[g]
<1> DEFINE used == DOMAIN segs \cup DOMAIN loc[t].fresh
           m(a, b) == MergeSegments(Work(t)[a], Work(t)[b], loc[t].kill)
           with(a, b, new) == [x \in (DOMAIN loc[t].fresh \ {a, b}) \cup {new} |->
                                 IF x = new THEN m(a, b) ELSE loc[t].fresh[x]]
<1>0. TypeInv /\ LocIs(loc[t]) /\ DOMAIN loc = Thread /\ SegmentMap(segs)
  BY Facts
<1>a. PICK a \in DOMAIN Work(t), b \in DOMAIN Work(t) :
         loc' = [loc EXCEPT ![t].keep = @ \ {a, b}, ![t].fresh = with(a, b, NewTag(used))]
  BY DEF CommitMerge
<1>b. PICK new : new = NewTag(used)
  OBVIOUS
<1> DEFINE fresh == with(a, b, new)
<1>1. loc' = [loc EXCEPT ![t].keep = @ \ {a, b}, ![t].fresh = fresh]
  BY <1>a, <1>b
<1>2. pc[t] = "c_merge" /\ Tag \ used # {} /\ segs' = segs
  BY DEF CommitMerge, At, memVars, segVars
<1>3. new \in Tag \ used
  BY <1>b, <1>2, NewTagType
<1>4. loc'[t].keep = loc[t].keep \ {a, b} /\ loc'[t].fresh = fresh
  BY <1>0, <1>1 DEF LocIs, LocFields
<1>5. loc[t].keep \subseteq DOMAIN segs
  BY <1>0, <1>2 DEF TypeInv, KeptSegments
<1>6. Work(t)[a] \in Segment /\ Work(t)[b] \in Segment
  BY <1>0, <1>5, WorkType DEF SegmentMap
<1>7. new \notin loc[t].keep /\ new \notin DOMAIN loc[t].fresh
  BY <1>3, <1>5
<1> HIDE DEF m
<1>8. /\ DOMAIN fresh = (DOMAIN loc[t].fresh \ {a, b}) \cup {new} /\ fresh[new] = m(a, b)
      /\ \A g \in DOMAIN loc[t].fresh \ {a, b} : fresh[g] = loc[t].fresh[g]
  BY <1>7
<1> HIDE DEF fresh
<1>9. /\ DOMAIN Work(t) = loc[t].keep \cup DOMAIN loc[t].fresh
      /\ DOMAIN Work(t)' = loc'[t].keep \cup DOMAIN loc'[t].fresh
  BY DEF Work
<1>10. DOMAIN Work(t)' = (DOMAIN Work(t) \ {a, b}) \cup {new}
  BY <1>4, <1>8, <1>9
<1>11. Work(t)'[new] = m(a, b) /\ \A g \in DOMAIN Work(t) \ {a, b} : Work(t)'[g] = Work(t)[g]
  BY <1>2, <1>4, <1>7, <1>8, <1>9, <1>10 DEF Work
<1> QED BY <1>3, <1>4, <1>6, <1>8, <1>10, <1>11 DEF m

LEMMA CommitMergeKeeps ==
  ASSUME AliveInv, TypeInv', Running', NEW t \in Thread, CommitMerge(t) PROVE AliveInv'
<1> DEFINE m(a, b) == MergeSegments(Work(t)[a], Work(t)[b], loc[t].kill)
<1>0. /\ TypeInv /\ ThreadOK(t) /\ LocIs(loc[t]) /\ DOMAIN loc = Thread
      /\ pc \in [Thread -> Points]
  BY Facts
<1>1. PICK a \in DOMAIN Work(t), b \in DOMAIN Work(t),
           new \in Tag \ (DOMAIN segs \cup DOMAIN loc[t].fresh) :
           /\ Work(t)[a] \in Segment /\ Work(t)[b] \in Segment
           /\ loc'[t].keep = loc[t].keep \ {a, b}
           /\ DOMAIN loc'[t].fresh = (DOMAIN loc[t].fresh \ {a, b}) \cup {new}
           /\ loc'[t].fresh[new] = m(a, b)
           /\ \A g \in DOMAIN loc[t].fresh \ {a, b} : loc'[t].fresh[g] = loc[t].fresh[g]
           /\ DOMAIN Work(t)' = (DOMAIN Work(t) \ {a, b}) \cup {new}
           /\ Work(t)'[new] = m(a, b)
           /\ \A g \in DOMAIN Work(t) \ {a, b} : Work(t)'[g] = Work(t)[g]
  BY CommitMergeWork
<1>2. pc[t] = "c_merge" /\ DataSame /\ pc' = pc /\ total' = total
  BY DEF CommitMerge, At, DataSame, memVars, segVars, killVars, chunkVars
<1>4. /\ loc'[t].adds = loc[t].adds /\ loc'[t].kill = loc[t].kill
      /\ \A u \in Thread \ {t} : loc'[u] = loc[u] /\ pc'[u] = pc[u]
  BY <1>0, <1>2 DEF CommitMerge, LocIs, LocFields
<1>6. /\ \A g \in loc[t].keep : segs[g].tls
      /\ \A g \in DOMAIN loc[t].fresh : g \notin DOMAIN segs /\ ~loc[t].fresh[g].tls
      /\ \A g, h \in DOMAIN Work(t), d \in Doc : Sees(t, g, d) /\ Sees(t, h, d) => g = h
      /\ \A d \in Doc : Stays(t, d) <=> \E g \in DOMAIN Work(t) : Sees(t, g, d)
      /\ \A d \in Doc : loc[t].adds[d] # NoRow => d \in loc[t].kill
  BY <1>0, <1>2 DEF ThreadOK, CommitOK, Keeping, CommitPending
<1>7. /\ \A g \in loc'[t].keep : segs'[g].tls
      /\ \A g \in DOMAIN loc'[t].fresh : g \notin DOMAIN segs' /\ ~loc'[t].fresh[g].tls
  <2>1. ~m(a, b).tls
    BY DEF MergeSegments
  <2>2. segs' = segs
    BY <1>2 DEF DataSame
  <2> HIDE DEF m
  <2> QED BY <1>1, <1>6, <2>1, <2>2
<1>9. \A d \in Doc : Sees(t, new, d)' <=> Sees(t, a, d) \/ Sees(t, b, d)
  <2> TAKE d \in Doc
  <2>1. MergerSees(m(a, b), d, loc[t].kill) <=> Sees(t, a, d) \/ Sees(t, b, d)
    BY <1>1, MergeShows DEF Sees
  <2> HIDE DEF m
  <2>2. Sees(t, new, d)' <=> MergerSees(m(a, b), d, loc[t].kill)
    BY <1>1, <1>4 DEF Sees, MergerSees, AliveRow, HasRow
  <2> QED BY <2>1, <2>2
<1> HIDE DEF m
<1>10. \A g \in DOMAIN Work(t) \ {a, b}, d \in Doc : Sees(t, g, d)' <=> Sees(t, g, d)
  BY <1>1, <1>4 DEF Sees, MergerSees, AliveRow, HasRow
<1>11. \A g, h \in DOMAIN Work(t)', d \in Doc : Sees(t, g, d)' /\ Sees(t, h, d)' => g = h
  BY <1>1, <1>6, <1>9, <1>10
<1>12. \A d \in Doc : Stays(t, d)' <=> \E g \in DOMAIN Work(t)' : Sees(t, g, d)'
  <2>1. \A d : Stays(t, d)' <=> Stays(t, d)
    BY <1>2, <1>4 DEF Stays, RamRows, DataSame
  <2>2. \A d \in Doc : (\E g \in DOMAIN Work(t)' : Sees(t, g, d)')
                         <=> \E g \in DOMAIN Work(t) : Sees(t, g, d)
    BY <1>1, <1>9, <1>10
  <2> QED BY <1>6, <2>1, <2>2
<1>14. pc'[t] = "c_merge"
  BY <1>2
<1>15. ThreadOK(t)'
  <2>1. CommitOK(t)'
    BY <1>4, <1>6, <1>7, <1>11, <1>12, <1>14 DEF CommitOK
  <2> QED BY <1>14, <2>1 DEF ThreadOK, SaveOK, MergeOK, UpdateOK, Saving, Merging, UpdatePending
<1> QED BY <1>2, <1>4, <1>15, QuietStep

\* The commit finds all the older copies on disk: what is in RAM as well is in the
\* kill-list already, and the kill-list of a save that has ended says no more.
LEMMA CommitCountKeeps ==
  ASSUME AliveInv, TypeInv', Running', NEW t \in Thread, CommitCount(t) PROVE AliveInv'
<1> DEFINE live == {d \in loc[t].kill : /\ ~RamAlive(d) /\ d \notin klist
                                        /\ SavedAlive(d) \/ DiskAlive(d)}
           dead == Cardinality(live \cup {d \in loc[t].kill : RamAlive(d)})
<1>0. /\ TypeInv /\ Running /\ OneCopy /\ OldKills /\ ThreadOK(t) /\ MemOK /\ LocIs(loc[t])
      /\ DOMAIN loc = Thread /\ pc \in [Thread -> Points] /\ SegmentMap(segs)
      /\ DOMAIN chunks = 1..Len(chunks) /\ Len(chunks) \in Nat
  BY Facts
<1>1. /\ pc[t] = "c_count" /\ DataSame /\ total' = total /\ pc' = [pc EXCEPT ![t] = "c_live"]
      /\ loc' = [loc EXCEPT ![t].live = live, ![t].dead = dead]
  BY DEF CommitCount, At, Goto, DataSame, memVars, segVars, killVars, chunkVars
<1>2. \A d \in loc[t].kill, i \in DOMAIN chunks : LiveInChunk(i, d) => d \in klist \cup live
  <2> SUFFICES ASSUME NEW d \in loc[t].kill, NEW i \in DOMAIN chunks, LiveInChunk(i, d),
                      d \notin klist
               PROVE  d \in live
    OBVIOUS
  <2>1. d \in Doc
    BY <1>0 DEF LocIs, LocOK
  <2>2. RamRows(d) = {}
    BY <1>0, <2>1 DEF OneCopy
  <2>3. ~RamAlive(d)
    BY <2>2 DEF RamAlive, RamRows
  <2>4. chunks # <<>>
    BY <1>0
  <2>5. d \notin dklist
    BY <1>0, <2>4 DEF OldKills
  <2> QED BY <2>3, <2>5 DEF DiskAlive
<1>9. live \subseteq loc[t].kill
  OBVIOUS
<1>10. dead = Cardinality({d \in loc[t].kill : Found(d)})
  <2>1. dbuf = {}
    BY <1>0, <1>1, NothingSaved DEF WriterHeld, Saving
  <2>2. \A d : RamAlive(d) <=> RamRows(d) # {}
    BY <2>1 DEF RamAlive, RamRows
  <2>3. chunks = <<>> \/ \A d : d \in dklist => d \in klist
    BY <1>0 DEF OldKills
  <2>4. chunks = <<>> => \A d : DiskRows(d) = {} /\ ~DiskAlive(d)
    BY DEF DiskRows, DiskAlive
  <2>5. \A d : d \notin klist /\ DiskAlive(d) <=> DiskRows(d) # {}
    <3> SUFFICES ASSUME chunks # <<>>, NEW d PROVE d \notin klist /\ DiskAlive(d) <=> DiskRows(d) # {}
      BY <2>4
    <3> QED BY <2>3 DEF DiskRows, DiskAlive
  <2>6. \A d : ~SavedAlive(d)
    BY <2>1 DEF SavedAlive
  <2>7. live \cup {d \in loc[t].kill : RamAlive(d)} = {d \in loc[t].kill : Found(d)}
    BY <2>2, <2>5, <2>6 DEF Found
  <2> QED BY <2>7
<1> HIDE DEF live, dead
<1>3. /\ loc'[t].adds = loc[t].adds /\ loc'[t].kill = loc[t].kill /\ loc'[t].keep = loc[t].keep
      /\ loc'[t].fresh = loc[t].fresh /\ loc'[t].live = live /\ loc'[t].dead = dead
      /\ pc'[t] = "c_live"
      /\ \A u \in Thread \ {t} : loc'[u] = loc[u] /\ pc'[u] = pc[u]
  BY <1>0, <1>1 DEF LocIs, LocFields
<1>4. Work(t)' = Work(t)
  BY <1>1, <1>3, WorkSame DEF DataSame
<1>5. \A g, d : Sees(t, g, d)' = Sees(t, g, d)
  BY <1>3, <1>4 DEF Sees
<1>6. /\ \A d : RamRows(d)' = RamRows(d) /\ Stays(t, d)' = Stays(t, d) /\ Found(d)' = Found(d)
      /\ \A i, d : LiveInChunk(i, d)' = LiveInChunk(i, d)
  BY <1>1, <1>3 DEF RamRows, LiveInChunk, DataSame, Stays, Found, DiskRows
<1>7. CommitOK(t)'
  <2>1. /\ \A d \in Doc : loc'[t].adds[d] # NoRow => d \in loc'[t].kill
        /\ \A g \in loc'[t].keep : segs'[g].tls
        /\ \A g \in DOMAIN loc'[t].fresh : g \notin DOMAIN segs' /\ ~loc'[t].fresh[g].tls
    BY <1>0, <1>1, <1>3 DEF ThreadOK, CommitOK, DataSame, CommitPending, Keeping
  <2>2. /\ \A g, h \in DOMAIN Work(t)', d \in Doc : Sees(t, g, d)' /\ Sees(t, h, d)' => g = h
        /\ \A d \in Doc : Stays(t, d)' <=> \E g \in DOMAIN Work(t)' : Sees(t, g, d)'
    BY <1>0, <1>1, <1>4, <1>5, <1>6 DEF ThreadOK, CommitOK, Keeping
  <2>3. /\ \A d \in loc'[t].kill, i \in DOMAIN chunks' :
              LiveInChunk(i, d)' => d \in klist' \cup loc'[t].live
        /\ loc'[t].live \subseteq loc'[t].kill
    BY <1>1, <1>2, <1>3, <1>6, <1>9 DEF DataSame
  <2>4. loc'[t].dead = Cardinality({d \in loc'[t].kill : Found(d)'})
    BY <1>3, <1>6, <1>10
  <2> QED BY <2>1, <2>2, <2>3, <2>4 DEF CommitOK
<1>8. ThreadOK(t)'
  BY <1>3, <1>7 DEF ThreadOK, SaveOK, MergeOK, UpdateOK, Saving, Merging, UpdatePending
<1> QED BY <1>1, <1>3, <1>8, QuietStep DEF Emptying

\* What goes live is what the merger saw.
LEMMA CommitLiveRows ==
  ASSUME AliveInv, NEW t \in Thread, CommitLive(t)
  PROVE  /\ pc[t] = "c_live" /\ dbuf = {} /\ klist' = klist \cup loc[t].live
         /\ UNCHANGED <<dbuf, dklist, nklist, chunks>>
         /\ \/ pc' = [pc EXCEPT ![t] = "c_outer"] /\ UNCHANGED loc
            \/ pc' = [pc EXCEPT ![t] = "idle"] /\ loc' = [loc EXCEPT ![t] = NoLoc]
         /\ \A d \in Doc : \A g :
              /\ g \in RamRows(d)' <=> g \in DOMAIN Work(t) /\ Sees(t, g, d)
              /\ g \in RamRows(d)' => segs'[g].row = Work(t)[g].row
         /\ \A d \in Doc : RamRows(d)' # {} <=> Stays(t, d)
<1> DEFINE new  == [g \in DOMAIN Work(t) |->
                      LET s == Work(t)[g] IN
                      IF ~s.tls THEN s
                      ELSE [s EXCEPT !.tls = FALSE,
                                     !.klist = @ \cup {d \in loc[t].kill : AliveRow(s, d)}]]
           live == {g \in DOMAIN new : \E d \in Doc : AliveRow(new[g], d)}
<1>0. TypeInv /\ ThreadOK(t) /\ LocIs(loc[t]) /\ SegmentMap(segs)
  BY Facts
<1>1. pc[t] = "c_live" /\ UNCHANGED <<dbuf, dklist, chunks>>
  BY Zenon DEF CommitLive, At, chunkVars
<1>2. dbuf = {}
  BY <1>0, <1>1, NothingSaved DEF WriterHeld, Saving
<1>3. /\ klist' = klist \cup loc[t].live
      /\ segs' = [g \in dbuf \cup live |-> IF g \in dbuf THEN segs[g] ELSE new[g]]
      /\ nklist' = IF dbuf = {} THEN nklist ELSE nklist \cup loc[t].live
      /\ \/ pc' = [pc EXCEPT ![t] = "c_outer"] /\ UNCHANGED loc
         \/ pc' = [pc EXCEPT ![t] = "idle"] /\ loc' = [loc EXCEPT ![t] = NoLoc]
  BY Zenon DEF CommitLive, Goto, Finish
<1>5. loc[t].keep \subseteq DOMAIN segs
  BY <1>0, <1>1 DEF TypeInv, KeptSegments
<1>6. \A d \in Doc : \A g : /\ g \in RamRows(d)' <=> g \in DOMAIN Work(t) /\ Sees(t, g, d)
                            /\ g \in RamRows(d)' => segs'[g].row = Work(t)[g].row
  <2> SUFFICES ASSUME NEW d \in Doc, NEW g
               PROVE  /\ g \in RamRows(d)' <=> g \in DOMAIN Work(t) /\ Sees(t, g, d)
                      /\ g \in RamRows(d)' => segs'[g].row = Work(t)[g].row
    OBVIOUS
  <2>1. g \in RamRows(d)' <=> g \in DOMAIN segs' /\ AliveRow(segs'[g], d)
    BY DEF RamRows, AliveRow, HasRow
  <2>2. g \in DOMAIN segs' /\ AliveRow(segs'[g], d) <=> g \in DOMAIN new /\ AliveRow(new[g], d)
    BY <1>2, <1>3
  <2> DEFINE s == Work(t)[g]
  <2>3. ASSUME g \in DOMAIN Work(t)
        PROVE  (AliveRow(new[g], d) <=> Sees(t, g, d)) /\ new[g].row = Work(t)[g].row
    <3>1. s \in Segment
      BY <1>0, <1>5, <2>3, WorkType DEF SegmentMap
    <3>2. new[g] = IF ~s.tls THEN s
                   ELSE [s EXCEPT !.tls = FALSE,
                                  !.klist = @ \cup {x \in loc[t].kill : AliveRow(s, x)}]
      BY <2>3
    <3> HIDE DEF new, s
    <3>3. AliveRow(new[g], d) <=> AliveRow(s, d) /\ ~(s.tls /\ d \in loc[t].kill)
      BY <3>1, <3>2 DEF AliveRow, HasRow, Segment
    <3>4. new[g].row = s.row
      BY <3>1, <3>2 DEF Segment
    <3> QED BY <3>3, <3>4 DEF Sees, MergerSees, s
  <2>4. g \in DOMAIN segs' => segs'[g] = new[g] /\ g \in DOMAIN new
    BY <1>2, <1>3
  <2> HIDE DEF s
  <2> QED BY <2>1, <2>2, <2>3, <2>4
<1>12. \A d \in Doc : RamRows(d)' # {} <=> Stays(t, d)
  BY <1>0, <1>1, <1>6 DEF ThreadOK, CommitOK, Keeping
<1>7. nklist' = nklist
  BY <1>2, <1>3
<1> QED BY <1>1, <1>2, <1>3, <1>6, <1>7, <1>12, Zenon

LEMMA CommitLiveKeeps ==
  ASSUME AliveInv, TypeInv', Running', NEW t \in Thread, CommitLive(t) PROVE AliveInv'
<1>0. /\ TypeInv /\ OneCopy /\ OldKills /\ Counted /\ ThreadOK(t)
      /\ LocIs(loc[t]) /\ DOMAIN loc = Thread /\ pc \in [Thread -> Points]
      /\ DOMAIN chunks = 1..Len(chunks) /\ Len(chunks) \in Nat
  BY Facts
<1>1. /\ pc[t] = "c_live" /\ UNCHANGED <<dbuf, dklist, chunks>>
      /\ dbuf = {} /\ klist' = klist \cup loc[t].live
  BY CommitLiveRows
<1>4. /\ nklist' = nklist /\ klist \subseteq klist'
      /\ \A u \in Thread \ {t} : loc'[u] = loc[u] /\ pc'[u] = pc[u]
      /\ pc'[t] \in {"c_outer", "idle"}
  BY <1>0, CommitLiveRows
<1>6. \A d \in Doc : \A g : g \in RamRows(d)' <=> g \in DOMAIN Work(t) /\ Sees(t, g, d)
  BY CommitLiveRows
<1>12. \A d \in Doc : RamRows(d)' # {} <=> Stays(t, d)
  BY CommitLiveRows
<1>7. \A d : \A i : LiveInChunk(i, d)' <=> LiveInChunk(i, d)
  BY <1>1 DEF LiveInChunk
<1>8. OneCopy'
  <2>1. \A d \in Doc : \A g, h \in RamRows(d)' : g = h
    BY <1>0, <1>1, <1>6 DEF ThreadOK, CommitOK, Keeping
  <2>2. ASSUME NEW d \in Doc, NEW i \in DOMAIN chunks, LiveInChunk(i, d), RamRows(d)' # {}
        PROVE  d \in klist'
    <3>1. CASE d \in loc[t].kill
      BY <1>0, <1>1, <2>2, <3>1 DEF ThreadOK, CommitOK
    <3>2. CASE d \notin loc[t].kill
      BY <1>0, <1>4, <1>12, <2>2, <3>2 DEF OneCopy, Stays
    <3> QED BY <3>1, <3>2
  <2> QED BY <1>0, <1>1, <1>7, <2>1, <2>2 DEF OneCopy
<1>9. OldKills'
  BY <1>0, <1>1, <1>4 DEF OldKills
<1>10. ThreadOK(t)'
  <2>1. pc'[t] = "c_outer" \/ pc'[t] = "idle"
    BY <1>4
  <2>2. pc'[t] \notin Relying
    BY <2>1 DEF Relying, CommitPending, Saving, Merging, UpdatePending
  <2> QED BY <2>2, NothingRelied
<1>11. \A u \in Thread \ {t} : ThreadOK(u)'
  <2>1. \A d \in Doc : Hidden(d) => Hidden(d)'
    BY <1>1, <1>4 DEF Hidden
  <2> QED BY <1>1, <1>4, <2>1, OthersKept DEF WriterHeld
<1>13. Counted'
  <2> SUFFICES ASSUME OneRun PROVE Counted'
    BY DEF Counted
  <2> DEFINE A == {d \in Doc : loc[t].adds[d] # NoRow}
             K == loc[t].kill
             F == {d \in Doc : Found(d)}
  <2>1. F' = (F \ K) \cup A
    <3>1. ASSUME NEW d \in Doc PROVE Found(d)' <=> (Found(d) /\ d \notin K) \/ loc[t].adds[d] # NoRow
      <4>1. DiskRows(d)' = {i \in DiskRows(d) : d \notin loc[t].live}
        BY <1>1, <1>7 DEF DiskRows
      <4>2. CASE d \in K
        <5>1. DiskRows(d)' = {}
          BY <1>0, <1>1, <4>1, <4>2 DEF ThreadOK, CommitOK, DiskRows
        <5>2. RamRows(d)' # {} <=> loc[t].adds[d] # NoRow
          BY <1>12, <4>2 DEF Stays
        <5> QED BY <4>2, <5>1, <5>2 DEF Found
      <4>3. CASE d \notin K
        <5>1. d \notin loc[t].live /\ loc[t].adds[d] = NoRow
          BY <1>0, <1>1, <4>3 DEF ThreadOK, CommitOK, CommitPending
        <5>2. DiskRows(d)' = DiskRows(d)
          BY <4>1, <5>1
        <5>3. RamRows(d)' # {} <=> RamRows(d) # {}
          BY <1>12, <4>3 DEF Stays
        <5> QED BY <4>3, <5>1, <5>2, <5>3 DEF Found
      <4> QED BY <4>2, <4>3
    <3> QED BY <3>1
  <2>2. A \subseteq K /\ K \subseteq Doc /\ F \subseteq Doc
    BY <1>0, <1>1 DEF ThreadOK, CommitOK, CommitPending, LocIs, LocOK
  <2>3. {d \in K : Found(d)} = F \cap K
    BY <2>2
  <2>4. total' = total + Cardinality(A) - Cardinality(F \cap K)
    <3>1. total' = total + Cardinality(A) - loc[t].dead
      BY Zenon DEF CommitLive
    <3>2. loc[t].dead = Cardinality({d \in K : Found(d)})
      BY <1>0, <1>1 DEF ThreadOK, CommitOK
    <3> QED BY <2>3, <3>1, <3>2
  <2>5. \A u \in Thread : pc[u] \notin Emptying /\ pc'[u] \notin Emptying
    <3>1. pc[t] \notin Emptying /\ pc'[t] \notin Emptying
      BY <1>1, <1>4 DEF Emptying
    <3>2. ASSUME NEW u \in Thread \ {t} PROVE pc[u] \notin Emptying
      BY <1>0, <1>1, OneWriter DEF Emptying, WriterHeld, TypeInv
    <3> QED BY <1>4, <3>1, <3>2
  <2>6. total = Cardinality(F)
    BY <1>0, <2>5 DEF Counted
  <2>7. Cardinality((F \ K) \cup A) = Cardinality(F) - Cardinality(F \cap K) + Cardinality(A)
    <3> HIDE DEF F, K, A
    <3>1. IsFiniteSet(F) /\ IsFiniteSet(K) /\ IsFiniteSet(A)
      BY <2>2, DocAssumption, FS_Subset
    <3>2. IsFiniteSet(F \ K) /\ Cardinality(F \ K) = Cardinality(F) - Cardinality(F \cap K)
      BY <3>1, FS_Difference
    <3>3. (F \ K) \cap A = {}
      BY <2>2
    <3>4. Cardinality((F \ K) \cup A) = Cardinality(F \ K) + Cardinality(A) - Cardinality({})
      BY <3>1, <3>2, <3>3, FS_Union
    <3>5. Cardinality({}) = 0 /\ Cardinality(A) \in Nat /\ Cardinality(F) \in Nat
          /\ Cardinality(F \cap K) \in Nat
      BY <3>1, FS_EmptySet, FS_CardinalityType, FS_Subset
    <3> QED BY <3>2, <3>4, <3>5
  <2>8. Cardinality(A) \in Nat /\ Cardinality(F) \in Nat /\ Cardinality(F \cap K) \in Nat
    <3> HIDE DEF F, K, A
    <3> QED BY <2>2, DocAssumption, FS_Subset, FS_CardinalityType
  <2>9. total' = Cardinality(F')
    <3> HIDE DEF F, K, A
    <3> QED BY <2>1, <2>4, <2>6, <2>7, <2>8
  <2> QED BY <2>5, <2>9 DEF Counted
<1> QED BY <1>8, <1>9, <1>10, <1>11, <1>13 DEF AliveInv

-----------------------------------------------------------------------------
(* Saves. *)

LEMMA CommitDumpKeeps ==
  ASSUME AliveInv, TypeInv', Running', NEW t \in Thread, CommitDump(t) PROVE AliveInv'
<1>0. /\ OneCopy /\ OldKills /\ Counted /\ pc \in [Thread -> Points]
      /\ DOMAIN chunks = 1..Len(chunks) /\ Len(chunks) \in Nat
  BY Facts
<1>1. /\ pc[t] = "c_outer" /\ pc' = [pc EXCEPT ![t] = "s_write"] /\ dbuf' = DOMAIN segs
      /\ dklist' = klist /\ UNCHANGED <<segs, klist, nklist, chunks, loc, total>>
  BY DEF CommitDump, At, Goto, chunkVars
<1>2. OneCopy'
  BY <1>0, <1>1 DEF OneCopy, RamRows, LiveInChunk
<1>3. OldKills'
  BY <1>0, <1>1 DEF OldKills
<1>4. ThreadOK(t)'
  BY <1>0, <1>1
     DEF ThreadOK, CommitOK, SaveOK, MergeOK, UpdateOK, CommitPending, Keeping, Merging,
         UpdatePending
<1>5. \A u \in Thread \ {t} : ThreadOK(u)'
  BY <1>0, <1>1, OthersKept DEF WriterHeld, Hidden
<1>6. Counted'
  BY <1>0, <1>1, CountedFrame DEF Emptying, Found, RamRows, DiskRows, LiveInChunk
<1> QED BY <1>2, <1>3, <1>4, <1>5, <1>6 DEF AliveInv

LEMMA DiskKlistKeeps ==
  ASSUME AliveInv, TypeInv', Running', NEW t \in Thread, DiskKlist(t) PROVE AliveInv'
<1>0. /\ TypeInv /\ OneCopy /\ OldKills /\ Counted /\ pc \in [Thread -> Points]
      /\ DOMAIN loc = Thread /\ LocIs(loc[t]) /\ DOMAIN chunks = 1..Len(chunks) /\ Len(chunks) \in Nat
  BY Facts
<1>1. /\ pc[t] = "d_klist" /\ pc' = [pc EXCEPT ![t] = "s_write"] /\ dklist' = klist
      /\ UNCHANGED <<segs, dbuf, klist, nklist, chunks, total>> /\ loc' = [loc EXCEPT ![t].tid = tid]
  BY DEF DiskKlist, At, Goto, segVars, chunkVars
<1>2. dbuf = {}
  BY <1>0, <1>1, NothingSaved DEF WriterHeld, Saving
<1>3. OneCopy'
  BY <1>0, <1>1 DEF OneCopy, RamRows, LiveInChunk
<1>4. OldKills'
  BY <1>0, <1>1 DEF OldKills
<1>5. \A u \in Thread \ {t} : loc'[u] = loc[u] /\ pc'[u] = pc[u]
  BY <1>0, <1>1
<1>6. ThreadOK(t)'
  BY <1>0, <1>1, <1>2
     DEF ThreadOK, CommitOK, SaveOK, MergeOK, UpdateOK, CommitPending, Keeping, Merging,
         UpdatePending
<1>7. \A u \in Thread \ {t} : ThreadOK(u)'
  BY <1>1, <1>5, OthersKept DEF WriterHeld, Hidden
<1>8. Counted'
  BY <1>0, <1>1, CountedFrame DEF Emptying, Found, RamRows, DiskRows, LiveInChunk
<1> QED BY <1>3, <1>4, <1>6, <1>7, <1>8 DEF AliveInv

LEMMA SaveWriteKeeps ==
  ASSUME AliveInv, TypeInv', Running', NEW t \in Thread, SaveWrite(t) PROVE AliveInv'
<1> DEFINE row(d) == IF RamRows(d) = {} THEN NoRow
                     ELSE segs[CHOOSE g \in RamRows(d) : TRUE].row[d]
           c == [row |-> [d \in Doc |-> row(d)], klist |-> dklist]
<1>0. /\ pc \in [Thread -> Points] /\ DOMAIN loc = Thread /\ ThreadOK(t) /\ LocIs(loc[t])
  BY Facts
<1>1. pc[t] = "s_write" /\ DataSame /\ total' = total
  BY DEF SaveWrite, At, DataSame, memVars, segVars, killVars, chunkVars
<1>2. CASE DOMAIN segs = {}
  <2>1. pc' = [pc EXCEPT ![t] = "s_end"] /\ loc' = loc
    BY <1>2 DEF SaveWrite, Goto
  <2>2. pc'[t] \notin Relying
    BY <1>0, <2>1 DEF Relying, CommitPending, Saving, Merging, UpdatePending
  <2>3. \A u \in Thread \ {t} : loc'[u] = loc[u] /\ pc'[u] = pc[u]
    BY <1>0, <2>1
  <2>4. pc'[t] = "s_end"
    BY <1>0, <2>1
  <2> QED BY <1>1, <2>2, <2>3, <2>4, NothingRelied, QuietStep DEF Emptying
<1>3. CASE DOMAIN segs # {}
  <2>1. pc' = [pc EXCEPT ![t] = "s_meta"] /\ loc' = [loc EXCEPT ![t].chunk = c]
    BY <1>3 DEF SaveWrite, Goto
  <2>2. \A d \in Doc : HasRow(c, d) <=> RamRows(d) # {}
    <3> SUFFICES ASSUME NEW d \in Doc PROVE row(d) # NoRow <=> RamRows(d) # {}
      BY DEF HasRow
    <3>1. CASE RamRows(d) # {}
      <4>1. (CHOOSE g \in RamRows(d) : TRUE) \in RamRows(d)
        BY <3>1
      <4> QED BY <3>1, <4>1 DEF RamRows, AliveRow, HasRow
    <3>2. CASE RamRows(d) = {}
      BY <3>2
    <3> QED BY <3>1, <3>2
  <2>3. c.klist = klist /\ dklist = klist /\ dbuf \in {{}, DOMAIN segs}
    BY <1>0, <1>1 DEF ThreadOK, SaveOK, Saving
  <2> HIDE DEF c
  <2>4. loc'[t].chunk = c /\ pc'[t] = "s_meta"
        /\ \A u \in Thread \ {t} : loc'[u] = loc[u] /\ pc'[u] = pc[u]
    BY <1>0, <2>1 DEF LocIs, LocFields
  <2>5. \A d : RamRows(d)' = RamRows(d)
    BY <1>1 DEF RamRows, DataSame
  <2>6. SaveOK(t)'
    BY <1>1, <2>2, <2>3, <2>4, <2>5 DEF SaveOK, DataSame, HasRow
  <2>7. ThreadOK(t)'
    BY <2>4, <2>6
       DEF ThreadOK, CommitOK, MergeOK, UpdateOK, CommitPending, Keeping, Merging, UpdatePending
  <2> QED BY <1>1, <2>4, <2>7, QuietStep DEF Emptying
<1> QED BY <1>2, <1>3

\* The new chunk has what was in RAM, and its kill-list what was killed in the others.
LEMMA SaveSwapChunks ==
  ASSUME AliveInv, NEW t \in Thread, SaveSwap(t), NEW n, n = Len(chunks)
  PROVE  /\ pc[t] = "s_swap" /\ pc' = [pc EXCEPT ![t] = "s_end"] /\ UNCHANGED <<loc, total>>
         /\ DOMAIN chunks = 1..n /\ n \in Nat /\ dbuf' = {}
         /\ klist' = {} /\ nklist' = {} /\ dklist' = {} /\ loc[t].chunk.klist = klist
         /\ \A d : RamRows(d)' = {}
         /\ DOMAIN chunks' = 1..(n + 1) /\ Len(chunks') = n + 1
         /\ chunks'[n + 1] = loc[t].chunk /\ \A i \in 1..n : chunks'[i] = chunks[i]
         /\ \A d \in Doc, i \in 1..n : LiveInChunk(i, d)' <=> LiveInChunk(i, d) /\ d \notin klist
         /\ \A d \in Doc : LiveInChunk(n + 1, d)' <=> RamRows(d) # {}
<1> DEFINE c == loc[t].chunk
<1>0. /\ OldKills /\ ThreadOK(t)
      /\ DOMAIN chunks = 1..n /\ n \in Nat /\ chunks \in Seq(Chunk) /\ LocIs(loc[t])
  BY Facts DEF MemOK
<1>1. /\ pc[t] = "s_swap" /\ pc' = [pc EXCEPT ![t] = "s_end"] /\ UNCHANGED <<loc, total>>
      /\ segs' = IF dbuf = {} THEN NoSegs ELSE Restrict(segs, DOMAIN segs \ dbuf)
      /\ dbuf' = {} /\ klist' = nklist /\ nklist' = {} /\ dklist' = {}
      /\ chunks' = Append(chunks, c)
  BY DEF SaveSwap, At, Goto
<1>2. /\ c.klist = klist /\ dbuf \in {{}, DOMAIN segs}
      /\ \A d \in Doc : HasRow(c, d) <=> RamRows(d) # {}
  BY <1>0, <1>1 DEF ThreadOK, SaveOK, Saving
<1>3. DOMAIN segs' = {}
  BY <1>1, <1>2 DEF NoSegs, Restrict
<1>4. \A d : RamRows(d)' = {}
  BY <1>3 DEF RamRows
<1>5. c \in Chunk
  BY <1>0 DEF LocIs, LocOK
<1> HIDE DEF c
<1>6. /\ DOMAIN chunks' = 1..(n + 1) /\ Len(chunks') = n + 1 /\ chunks'[n + 1] = c
      /\ \A i \in 1..n : chunks'[i] = chunks[i]
  BY <1>0, <1>1, <1>5
<1>7. \A d \in Doc, i \in 1..n : LiveInChunk(i, d)' <=> LiveInChunk(i, d) /\ d \notin klist
  <2> SUFFICES ASSUME NEW d \in Doc, NEW i \in 1..n
               PROVE  LiveInChunk(i, d)' <=> LiveInChunk(i, d) /\ d \notin klist
    OBVIOUS
  <2>1. HasRow(chunks[i], d)' <=> HasRow(chunks[i], d)
    BY <1>6 DEF HasRow
  <2>2. \A j : j \in (i + 1)..(n + 1) <=> j \in (i + 1)..n \/ j = n + 1
    BY <1>0
  <2>3. \A j \in (i + 1)..n : j \in 1..n
    BY <1>0
  <2>4. (\A j \in (i + 1)..(n + 1) : d \notin chunks'[j].klist)
           <=> (\A j \in (i + 1)..n : d \notin chunks[j].klist) /\ d \notin klist
    BY <1>2, <1>6, <2>2, <2>3
  <2>5. LiveInChunk(i, d)' <=> /\ HasRow(chunks[i], d)'
                               /\ \A j \in (i + 1)..(n + 1) : d \notin chunks'[j].klist
    BY <1>6 DEF LiveInChunk
  <2>6. LiveInChunk(i, d) <=> /\ HasRow(chunks[i], d)
                              /\ \A j \in (i + 1)..n : d \notin chunks[j].klist
    BY DEF LiveInChunk
  <2> QED BY <2>1, <2>4, <2>5, <2>6
<1>8. \A d \in Doc : LiveInChunk(n + 1, d)' <=> RamRows(d) # {}
  <2>1. \A j : j \notin (n + 2)..(n + 1)
    BY <1>0
  <2>2. n + 1 + 1 = n + 2
    BY <1>0
  <2> QED BY <1>2, <1>6, <2>1, <2>2 DEF LiveInChunk, HasRow
<1>9. nklist = {}
  BY <1>0 DEF OldKills
<1> QED BY <1>0, <1>1, <1>2, <1>4, <1>6, <1>7, <1>8, <1>9 DEF c

LEMMA SaveSwapKeeps ==
  ASSUME AliveInv, TypeInv', Running', NEW t \in Thread, SaveSwap(t) PROVE AliveInv'
<1>a. PICK n : n = Len(chunks)
  OBVIOUS
<1>0. TypeInv /\ OneCopy /\ OldKills /\ Counted /\ pc \in [Thread -> Points]
  BY Facts
<1>1. /\ pc[t] = "s_swap" /\ pc' = [pc EXCEPT ![t] = "s_end"] /\ UNCHANGED <<loc, total>>
      /\ DOMAIN chunks = 1..n /\ n \in Nat /\ dbuf' = {}
      /\ klist' = {} /\ nklist' = {} /\ dklist' = {} /\ loc[t].chunk.klist = klist
  BY <1>a, SaveSwapChunks
<1>4. \A d : RamRows(d)' = {}
  BY <1>a, SaveSwapChunks
<1>6. /\ DOMAIN chunks' = 1..(n + 1) /\ Len(chunks') = n + 1
      /\ chunks'[n + 1] = loc[t].chunk /\ \A i \in 1..n : chunks'[i] = chunks[i]
  BY <1>a, SaveSwapChunks
<1>7. \A d \in Doc, i \in 1..n : LiveInChunk(i, d)' <=> LiveInChunk(i, d) /\ d \notin klist
  BY <1>a, SaveSwapChunks
<1>8. \A d \in Doc : LiveInChunk(n + 1, d)' <=> RamRows(d) # {}
  BY <1>a, SaveSwapChunks
<1>9. OneCopy'
  <2>1. \A i \in 1..(n + 1) : i \in 1..n \/ i = n + 1
    BY <1>1
  <2>2. ASSUME NEW d \in Doc, NEW i \in 1..(n + 1), NEW j \in 1..(n + 1),
               LiveInChunk(i, d)', LiveInChunk(j, d)'
        PROVE  i = j
    BY <1>0, <1>1, <1>7, <1>8, <2>1, <2>2 DEF OneCopy
  <2> QED BY <1>4, <1>6, <2>2 DEF OneCopy
<1>10. OldKills'
  BY <1>1 DEF OldKills
<1>11. ThreadOK(t)'
  <2>1. pc'[t] \notin Relying
    BY <1>0, <1>1 DEF Relying, CommitPending, Saving, Merging, UpdatePending
  <2> QED BY <2>1, NothingRelied
<1>12. \A u \in Thread \ {t} : ThreadOK(u)'
  <2> SUFFICES ASSUME NEW u \in Thread \ {t} PROVE ThreadOK(u)'
    OBVIOUS
  <2>1. loc'[u] = loc[u] /\ pc'[u] = pc[u]
    BY <1>0, <1>1
  <2>2. pc[u] \in Merging => n >= 2
    BY <1>a, <1>0, <1>1 DEF TypeInv, TwoChunks, Merging
  <2>3. pc[u] \in Merging => chunks'[1] = chunks[1] /\ chunks'[2] = chunks[2]
    BY <1>1, <1>6, <2>2
  <2>4. ASSUME pc[u] \in Merging, NEW d \in Doc, Hidden(d) PROVE Hidden(d)'
    <3>1. CASE d \in klist
      <4>1. n + 1 \in 2..Len(chunks')
        BY <1>1, <1>6, <2>2, <2>4
      <4> QED BY <1>1, <1>6, <3>1, <4>1 DEF Hidden
    <3>2. CASE d \notin klist
      <4>1. PICK j \in 2..n : d \in chunks[j].klist
        BY <1>a, <2>4, <3>2 DEF Hidden
      <4>2. j \in 2..Len(chunks') /\ chunks'[j] = chunks[j]
        BY <1>1, <1>6
      <4> QED BY <4>1, <4>2 DEF Hidden
    <3> QED BY <3>1, <3>2
  <2> QED BY <1>1, <2>1, <2>3, <2>4, OthersKept DEF WriterHeld
<1>13. Counted'
  <2>1. ASSUME NEW d \in Doc PROVE Found(d)' <=> Found(d)
    <3>1. DiskRows(d)' = {i \in 1..(n + 1) : LiveInChunk(i, d)'}
      BY <1>1, <1>6 DEF DiskRows
    <3>2. DiskRows(d) = {i \in 1..n : LiveInChunk(i, d) /\ d \notin klist}
      BY <1>1 DEF DiskRows
    <3>3. \A i : i \in 1..(n + 1) <=> i \in 1..n \/ i = n + 1
      BY <1>1
    <3>4. DiskRows(d)' # {} <=> DiskRows(d) # {} \/ RamRows(d) # {}
      BY <1>7, <1>8, <3>1, <3>2, <3>3
    <3> QED BY <1>4, <3>4 DEF Found
  <2>2. \A u \in Thread : pc'[u] \in Emptying <=> pc[u] \in Emptying
    BY <1>0, <1>1 DEF Emptying
  <2> QED BY <1>0, <1>1, <2>1, <2>2, CountedFrame
<1> QED BY <1>9, <1>10, <1>11, <1>12, <1>13 DEF AliveInv

-----------------------------------------------------------------------------
(* OPTIMIZE, UPDATE and TRUNCATE. *)

LEMMA OptKlistKeeps ==
  ASSUME AliveInv, TypeInv', Running', NEW t \in Thread, OptKlist(t) PROVE AliveInv'
<1> DEFINE kill == klist \cup UNION {chunks[i].klist : i \in 2..Len(chunks)}
<1>0. /\ TypeInv /\ pc \in [Thread -> Points] /\ DOMAIN loc = Thread /\ LocIs(loc[t])
      /\ Len(chunks) \in Nat
  BY Facts
<1>1. /\ pc[t] = "o_klist" /\ DataSame /\ total' = total /\ pc' = [pc EXCEPT ![t] = "o_merge"]
      /\ loc' = [loc EXCEPT ![t].kill = kill]
  BY DEF OptKlist, At, Goto, DataSame, memVars, segVars, killVars, chunkVars
<1>2. Len(chunks) >= 2
  BY <1>0, <1>1 DEF TypeInv, TwoChunks
<1>3. chunks[2].klist \subseteq kill
  <2>1. 2 \in 2..Len(chunks)
    BY <1>0, <1>2
  <2> QED BY <2>1
<1>6. \A d \in kill : Hidden(d)
  BY DEF Hidden
<1> HIDE DEF kill
<1>4. /\ loc'[t].kill = kill /\ pc'[t] = "o_merge"
      /\ \A u \in Thread \ {t} : loc'[u] = loc[u] /\ pc'[u] = pc[u]
  BY <1>0, <1>1 DEF LocIs, LocFields
<1>5. ThreadOK(t)'
  BY <1>1, <1>3, <1>4, <1>6
     DEF ThreadOK, CommitOK, SaveOK, MergeOK, UpdateOK, CommitPending, Keeping, Saving,
         UpdatePending, DataSame, Hidden
<1> QED BY <1>1, <1>4, <1>5, QuietStep DEF Emptying

LEMMA OptMergeKeeps ==
  ASSUME AliveInv, TypeInv', Running', NEW t \in Thread, OptMerge(t) PROVE AliveInv'
<1> DEFINE row(d) == IF HasRow(chunks[2], d) THEN chunks[2].row[d]
                     ELSE IF d \notin loc[t].kill THEN chunks[1].row[d] ELSE NoRow
           c == [row |-> [d \in Doc |-> row(d)], klist |-> {}]
<1>0. /\ pc \in [Thread -> Points] /\ DOMAIN loc = Thread /\ ThreadOK(t) /\ LocIs(loc[t])
  BY Facts
<1>1. /\ pc[t] = "o_merge" /\ DataSame /\ total' = total /\ pc' = [pc EXCEPT ![t] = "o_writer"]
      /\ loc' = [loc EXCEPT ![t].chunk = c]
  BY DEF OptMerge, At, Goto, DataSame, memVars, segVars, killVars, chunkVars
<1>2. chunks[2].klist \subseteq loc[t].kill /\ \A d \in loc[t].kill : Hidden(d)
  BY <1>0, <1>1 DEF ThreadOK, MergeOK, Merging
<1>3. \A d \in Doc : HasRow(c, d) <=>
         HasRow(chunks[2], d) \/ (HasRow(chunks[1], d) /\ d \notin loc[t].kill)
  BY DEF HasRow
<1> HIDE DEF c
<1>4. /\ loc'[t].chunk = c /\ loc'[t].kill = loc[t].kill /\ pc'[t] = "o_writer"
      /\ \A u \in Thread \ {t} : loc'[u] = loc[u] /\ pc'[u] = pc[u]
  BY <1>0, <1>1 DEF LocIs, LocFields
<1>5. MergeOK(t)'
  BY <1>1, <1>2, <1>3, <1>4 DEF MergeOK, DataSame, HasRow, Hidden
<1>6. ThreadOK(t)'
  BY <1>4, <1>5
     DEF ThreadOK, CommitOK, SaveOK, UpdateOK, CommitPending, Keeping, Saving, UpdatePending
<1> QED BY <1>1, <1>4, <1>6, QuietStep DEF Emptying

\* The merged chunk has no row that was not in either, and none that the second killed.
LEMMA OptSwapChunks ==
  ASSUME AliveInv, NEW t \in Thread, OptSwap(t), NEW n, n = Len(chunks)
  PROVE  /\ pc[t] = "o_swap" /\ pc' = [pc EXCEPT ![t] = "o_unlink"] /\ UNCHANGED loc
         /\ UNCHANGED <<segs, dbuf, klist, dklist, nklist, total>>
         /\ n \in Nat /\ n >= 2 /\ DOMAIN chunks = 1..n
         /\ DOMAIN chunks' = 1..(n - 1) /\ Len(chunks') = n - 1 /\ chunks'[1] = loc[t].chunk
         /\ \A i \in 2..(n - 1) : chunks'[i] = chunks[i + 1]
         /\ \A d \in Doc, i \in 2..(n - 1) : LiveInChunk(i, d)' <=> LiveInChunk(i + 1, d)
         /\ \A d \in Doc : LiveInChunk(1, d)' => \E i \in {1, 2} : LiveInChunk(i, d)
         /\ \A d \in Doc : \A i \in {1, 2} : LiveInChunk(i, d) /\ d \notin klist => LiveInChunk(1, d)'
<1> DEFINE c == loc[t].chunk
<1>0. /\ TypeInv /\ ThreadOK(t)
      /\ DOMAIN chunks = 1..n /\ n \in Nat /\ chunks \in Seq(Chunk) /\ LocIs(loc[t])
  BY Facts DEF MemOK
<1>1. /\ pc[t] = "o_swap" /\ pc' = [pc EXCEPT ![t] = "o_unlink"] /\ UNCHANGED loc
      /\ UNCHANGED <<segs, dbuf, klist, dklist, nklist, total>>
      /\ chunks' = <<c>> \o SubSeq(chunks, 3, n)
  BY DEF OptSwap, At, Goto, segVars, killVars
<1>2. n >= 2
  BY <1>0, <1>1 DEF TypeInv, TwoChunks
<1>3. /\ \A d \in Doc : HasRow(c, d) <=>
           HasRow(chunks[2], d) \/ (HasRow(chunks[1], d) /\ d \notin loc[t].kill)
      /\ chunks[2].klist \subseteq loc[t].kill /\ \A d \in loc[t].kill : Hidden(d)
  BY <1>0, <1>1 DEF ThreadOK, MergeOK, Merging
<1>4. c \in Chunk
  BY <1>0 DEF LocIs, LocOK
<1> HIDE DEF c
<1>5. /\ DOMAIN chunks' = 1..(n - 1) /\ Len(chunks') = n - 1 /\ chunks'[1] = c
      /\ \A i \in 2..(n - 1) : chunks'[i] = chunks[i + 1]
  <2>1. /\ SubSeq(chunks, 3, n) \in Seq(Chunk) /\ Len(SubSeq(chunks, 3, n)) = n - 2
        /\ \A i \in 1..(n - 2) : SubSeq(chunks, 3, n)[i] = chunks[i + 2]
    <3>1. CASE n = 2
      BY <1>0, <3>1
    <3>2. CASE n > 2
      BY <1>0, <3>2
    <3> QED BY <1>0, <1>2, <3>1, <3>2
  <2> DEFINE s == SubSeq(chunks, 3, n)
  <2> HIDE DEF s
  <2>2. s \in Seq(Chunk) /\ Len(s) = n - 2 /\ \A i \in 1..(n - 2) : s[i] = chunks[i + 2]
    BY <2>1 DEF s
  <2>3. chunks' = <<c>> \o s
    BY <1>1 DEF s
  <2>4. <<c>> \in Seq(Chunk) /\ Len(<<c>>) = 1 /\ <<c>>[1] = c
    BY <1>4
  <2>5. Len(chunks') = n - 1 /\ DOMAIN chunks' = 1..(n - 1) /\ chunks' \in Seq(Chunk)
    BY <1>0, <1>2, <2>2, <2>3, <2>4
  <2>6. chunks'[1] = c
    BY <1>0, <1>2, <2>2, <2>3, <2>4
  <2>7. \A i \in 2..(n - 1) : chunks'[i] = s[i - 1] /\ i - 1 \in 1..(n - 2) /\ (i - 1) + 2 = i + 1
    BY <1>0, <1>2, <2>2, <2>3, <2>4
  <2> QED BY <2>2, <2>5, <2>6, <2>7
<1>6. \A d \in Doc, i \in 2..(n - 1) : LiveInChunk(i, d)' <=> LiveInChunk(i + 1, d)
  <2> SUFFICES ASSUME NEW d \in Doc, NEW i \in 2..(n - 1)
               PROVE  LiveInChunk(i, d)' <=> LiveInChunk(i + 1, d)
    OBVIOUS
  <2>1. HasRow(chunks[i], d)' <=> HasRow(chunks[i + 1], d)
    BY <1>5 DEF HasRow
  <2>2. /\ \A k \in (i + 1 + 1)..n : /\ k - 1 \in (i + 1)..(n - 1) /\ k - 1 \in 2..(n - 1)
                                     /\ (k - 1) + 1 = k
        /\ \A j \in (i + 1)..(n - 1) : j + 1 \in (i + 1 + 1)..n /\ j \in 2..(n - 1)
    BY <1>0
  <2>3. (\A j \in (i + 1)..(n - 1) : d \notin chunks'[j].klist)
           <=> \A k \in (i + 1 + 1)..n : d \notin chunks[k].klist
    BY <1>5, <2>2
  <2>4. LiveInChunk(i, d)' <=> /\ HasRow(chunks[i], d)'
                               /\ \A j \in (i + 1)..(n - 1) : d \notin chunks'[j].klist
    BY <1>5 DEF LiveInChunk
  <2>5. LiveInChunk(i + 1, d) <=> /\ HasRow(chunks[i + 1], d)
                                  /\ \A k \in (i + 1 + 1)..n : d \notin chunks[k].klist
    BY DEF LiveInChunk
  <2> QED BY <2>1, <2>3, <2>4, <2>5
<1>7. \A d \in Doc : /\ LiveInChunk(1, d)' => LiveInChunk(1, d) \/ LiveInChunk(2, d)
                     /\ (LiveInChunk(1, d) \/ LiveInChunk(2, d)) /\ d \notin klist => LiveInChunk(1, d)'
  <2> TAKE d \in Doc
  <2>1. LiveInChunk(1, d)' <=> HasRow(c, d) /\ \A j \in 2..(n - 1) : d \notin chunks'[j].klist
    <3>1. 1 + 1 = 2
      OBVIOUS
    <3> QED BY <1>5, <3>1 DEF LiveInChunk, HasRow
  <2>2. LiveInChunk(1, d) <=> HasRow(chunks[1], d) /\ \A k \in 2..n : d \notin chunks[k].klist
    <3>1. 1 + 1 = 2
      OBVIOUS
    <3> QED BY <3>1 DEF LiveInChunk
  <2>3. LiveInChunk(2, d) <=> HasRow(chunks[2], d) /\ \A k \in 3..n : d \notin chunks[k].klist
    <3>1. 2 + 1 = 3
      OBVIOUS
    <3> QED BY <3>1 DEF LiveInChunk
  <2>4. /\ \A k \in 3..n : k - 1 \in 2..(n - 1) /\ (k - 1) + 1 = k
        /\ \A j \in 2..(n - 1) : j + 1 \in 3..n
        /\ \A k : k \in 2..n <=> k = 2 \/ k \in 3..n
    BY <1>0, <1>2
  <2>5. (\A j \in 2..(n - 1) : d \notin chunks'[j].klist) <=> \A k \in 3..n : d \notin chunks[k].klist
    BY ZenonT(60), <1>5, <2>4
  <2>6. d \notin klist /\ (\A k \in 2..n : d \notin chunks[k].klist) => d \notin loc[t].kill
    BY <1>3 DEF Hidden
  <2> QED BY <1>3, <2>1, <2>2, <2>3, <2>4, <2>5, <2>6
<1> QED BY <1>0, <1>1, <1>2, <1>5, <1>6, <1>7 DEF c

LEMMA OptSwapKeeps ==
  ASSUME AliveInv, TypeInv', Running', NEW t \in Thread, OptSwap(t) PROVE AliveInv'
<1>a. PICK n : n = Len(chunks)
  OBVIOUS
<1>0. /\ TypeInv /\ OneCopy /\ OldKills /\ Counted /\ pc \in [Thread -> Points]
      /\ DOMAIN chunks = 1..n /\ n \in Nat
  BY <1>a, Facts
<1>1. /\ pc[t] = "o_swap" /\ pc' = [pc EXCEPT ![t] = "o_unlink"] /\ UNCHANGED loc
      /\ UNCHANGED <<segs, dbuf, klist, dklist, nklist, total>>
      /\ n >= 2 /\ DOMAIN chunks' = 1..(n - 1)
  BY <1>a, OptSwapChunks
<1>2. n >= 2
  BY <1>1
<1>5. DOMAIN chunks' = 1..(n - 1)
  BY <1>1
<1>6. \A d \in Doc, i \in 2..(n - 1) : LiveInChunk(i, d)' <=> LiveInChunk(i + 1, d)
  BY <1>a, OptSwapChunks
<1>7. /\ \A d \in Doc : LiveInChunk(1, d)' => \E i \in {1, 2} : LiveInChunk(i, d)
      /\ \A d \in Doc : \A i \in {1, 2} : LiveInChunk(i, d) /\ d \notin klist => LiveInChunk(1, d)'
  BY <1>a, OptSwapChunks
<1>8. \A d \in Doc, i \in 1..(n - 1) : LiveInChunk(i, d)' =>
         \E k \in 1..n : LiveInChunk(k, d) /\ (i = 1 => k \in {1, 2}) /\ (i # 1 => k = i + 1)
  <2> SUFFICES ASSUME NEW d \in Doc, NEW i \in 1..(n - 1), LiveInChunk(i, d)'
               PROVE  \E k \in 1..n : /\ LiveInChunk(k, d) /\ (i = 1 => k \in {1, 2})
                                      /\ (i # 1 => k = i + 1)
    OBVIOUS
  <2>1. CASE i = 1
    BY <1>0, <1>2, <1>7, <2>1
  <2>2. CASE i # 1
    <3>1. i \in 2..(n - 1) /\ i + 1 \in 1..n
      BY <1>0, <2>2
    <3> QED BY <1>6, <2>2, <3>1
  <2> QED BY <2>1, <2>2
<1>9. \A d : RamRows(d)' = RamRows(d)
  BY <1>1 DEF RamRows
<1>10. OneCopy'
  <2>1. ASSUME NEW d \in Doc, NEW i \in 1..(n - 1), NEW j \in 1..(n - 1),
               LiveInChunk(i, d)', LiveInChunk(j, d)'
        PROVE  i = j
    <3>1. PICK k \in 1..n : LiveInChunk(k, d) /\ (i = 1 => k \in {1, 2}) /\ (i # 1 => k = i + 1)
      BY <1>8, <2>1
    <3>2. PICK l \in 1..n : LiveInChunk(l, d) /\ (j = 1 => l \in {1, 2}) /\ (j # 1 => l = j + 1)
      BY <1>8, <2>1
    <3>3. k = l
      BY <1>0, <3>1, <3>2 DEF OneCopy
    <3> QED BY <1>0, <3>1, <3>2, <3>3
  <2>2. ASSUME NEW d \in Doc, NEW i \in 1..(n - 1), LiveInChunk(i, d)', RamRows(d)' # {}
        PROVE  d \in klist'
    <3>1. PICK k \in 1..n : LiveInChunk(k, d)
      BY <1>8, <2>2
    <3> QED BY <1>0, <1>1, <1>9, <2>2, <3>1 DEF OneCopy
  <2>3. \A d \in Doc : \A g, h \in RamRows(d)' : g = h
    BY <1>0, <1>9 DEF OneCopy
  <2> QED BY <1>5, <2>1, <2>2, <2>3 DEF OneCopy
<1>11. OldKills'
  <2>1. chunks # <<>>
    BY <1>0, <1>2
  <2> QED BY <1>0, <1>1, <2>1 DEF OldKills
<1>12. ThreadOK(t)'
  <2>1. pc'[t] \notin Relying
    BY <1>0, <1>1 DEF Relying, CommitPending, Saving, Merging, UpdatePending
  <2> QED BY <2>1, NothingRelied
<1>13. \A u \in Thread \ {t} : ThreadOK(u)'
  <2> SUFFICES ASSUME NEW u \in Thread \ {t} PROVE ThreadOK(u)'
    OBVIOUS
  <2>1. loc'[u] = loc[u] /\ pc'[u] = pc[u]
    BY <1>0, <1>1
  <2>2. pc[u] \notin Merging
    BY <1>0, <1>1 DEF TypeInv, LockInv, ControlOK, OpAt, OpsExclude, Merging
  <2> QED BY <1>1, <2>1, <2>2, OthersKept DEF WriterHeld
<1>14. Counted'
  <2>1. ASSUME NEW d \in Doc PROVE Found(d)' <=> Found(d)
    <3>1. DiskRows(d)' = {i \in 1..(n - 1) : LiveInChunk(i, d)' /\ d \notin klist}
      BY <1>1, <1>5 DEF DiskRows
    <3>2. DiskRows(d) = {i \in 1..n : LiveInChunk(i, d) /\ d \notin klist}
      BY <1>0 DEF DiskRows
    <3>3. ASSUME NEW i \in DiskRows(d) PROVE DiskRows(d)' # {}
      <4>1. CASE i \in {1, 2}
        <5>1. LiveInChunk(1, d)' /\ 1 \in 1..(n - 1)
          BY <1>0, <1>2, <1>7, <3>2, <4>1
        <5> QED BY <3>1, <3>2, <5>1
      <4>2. CASE i \notin {1, 2}
        <5>1. i - 1 \in 2..(n - 1) /\ (i - 1) + 1 = i /\ i - 1 \in 1..(n - 1)
          BY <1>0, <3>2, <4>2
        <5>2. LiveInChunk(i - 1, d)'
          <6>1. PICK j : j = i - 1
            OBVIOUS
          <6> QED BY <1>6, <3>2, <5>1, <6>1
        <5> QED BY <3>1, <3>2, <5>1, <5>2
      <4> QED BY <4>1, <4>2
    <3>4. DiskRows(d)' # {} => DiskRows(d) # {}
      BY <1>8, <3>1, <3>2
    <3> QED BY <1>9, <3>3, <3>4 DEF Found
  <2>2. \A u \in Thread : pc'[u] \in Emptying <=> pc[u] \in Emptying
    BY <1>0, <1>1 DEF Emptying
  <2> QED BY <1>0, <1>1, <2>1, <2>2, CountedFrame
<1> QED BY <1>10, <1>11, <1>12, <1>13, <1>14 DEF AliveInv

\* A document to update is one the request names.
LEMMA WriteAttrShape ==
  ASSUME MemOK, NEW adds \in Rows, \E d \in Doc : adds[d] # NoRow, WriteAttr(adds),
         UNCHANGED <<dbuf, klist, dklist, nklist>>
  PROVE  SameShape
<1> DEFINE x == Target(adds)
<1>0. x \in Doc /\ adds[x] # NoRow
  BY DEF Target
<1> HIDE DEF x
<1>1. /\ SegmentMap(segs) /\ chunks \in Seq(Chunk)
      /\ \A g \in DOMAIN segs : segs[g] \in Segment
      /\ DOMAIN chunks = 1..Len(chunks) /\ \A i \in DOMAIN chunks : chunks[i] \in Chunk
  BY DEF MemOK, SegmentMap
<1>2. CASE UNCHANGED segs /\ UNCHANGED chunks
  BY <1>2 DEF SameShape
<1>3. ASSUME NEW g \in RamRows(x), segs' = [segs EXCEPT ![g].row[x] = adds[x]], UNCHANGED chunks
      PROVE  SameShape
  <2>1. g \in DOMAIN segs /\ HasRow(segs[g], x)
    BY <1>3 DEF RamRows, AliveRow
  <2>2. /\ DOMAIN segs' = DOMAIN segs
        /\ \A h \in DOMAIN segs \ {g} : segs'[h] = segs[h]
        /\ segs'[g] = [segs[g] EXCEPT !.row = [segs[g].row EXCEPT ![x] = adds[x]]]
    BY <1>3, <2>1
  <2>3. /\ segs'[g].klist = segs[g].klist /\ segs'[g].tls = segs[g].tls
        /\ segs'[g].row = [segs[g].row EXCEPT ![x] = adds[x]]
    BY <1>1, <2>1, <2>2 DEF Segment
  <2>4. \A d \in Doc : HasRow(segs'[g], d) <=> HasRow(segs[g], d)
    BY <1>0, <1>1, <2>1, <2>3 DEF HasRow, Segment, Rows
  <2> QED BY <1>3, <2>2, <2>3, <2>4 DEF SameShape
<1>4. ASSUME NEW i \in DOMAIN chunks, HasRow(chunks[i], x),
             chunks' = [chunks EXCEPT ![i].row[x] = adds[x]], UNCHANGED segs
      PROVE  SameShape
  <2>1. /\ DOMAIN chunks' = DOMAIN chunks
        /\ \A j \in DOMAIN chunks \ {i} : chunks'[j] = chunks[j]
        /\ chunks'[i] = [chunks[i] EXCEPT !.row = [chunks[i].row EXCEPT ![x] = adds[x]]]
    BY <1>4
  <2>2. /\ chunks'[i].klist = chunks[i].klist
        /\ chunks'[i].row = [chunks[i].row EXCEPT ![x] = adds[x]]
    BY <1>1, <1>4, <2>1 DEF Chunk
  <2>3. \A d \in Doc : HasRow(chunks'[i], d) <=> HasRow(chunks[i], d)
    BY <1>0, <1>1, <1>4, <2>2 DEF HasRow, Chunk, Rows
  <2>4. Len(chunks') = Len(chunks)
    BY <1>1, WriteAttrType
  <2> QED BY <1>4, <2>1, <2>2, <2>3, <2>4 DEF SameShape
<1> QED BY <1>2, <1>3, <1>4 DEF WriteAttr, x

LEMMA UpdateApplyKeeps ==
  ASSUME AliveInv, TypeInv', Running', NEW t \in Thread, UpdateApply(t) PROVE AliveInv'
<1>0. /\ TypeInv /\ MemOK /\ OneCopy /\ OldKills /\ Counted /\ pc \in [Thread -> Points]
      /\ ThreadOK(t) /\ LocIs(loc[t])
  BY Facts
<1>1. /\ pc[t] = "u_apply" /\ pc' = [pc EXCEPT ![t] = "u_log"] /\ UNCHANGED loc
      /\ WriteAttr(loc[t].adds) /\ UNCHANGED <<dbuf, klist, dklist, nklist, total>>
  BY DEF UpdateApply, At, Goto, killVars
<1>2. SameShape
  BY <1>0, <1>1, WriteAttrShape DEF ThreadOK, UpdateOK, UpdatePending, LocIs, LocOK
<1>3. OneCopy' /\ OldKills'
  BY <1>0, <1>2, ShapeCopies
<1>4. ThreadOK(t)'
  <2>1. pc'[t] \notin Relying
    BY <1>0, <1>1 DEF Relying, CommitPending, Saving, Merging, UpdatePending
  <2> QED BY <2>1, NothingRelied
<1>5. \A u \in Thread \ {t} : ThreadOK(u)'
  BY <1>0, <1>1, <1>2, ShapeThread DEF AliveInv
<1>6. Counted'
  BY <1>0, <1>1, <1>2, ShapeRows, CountedFrame DEF Emptying
<1> QED BY <1>3, <1>4, <1>5, <1>6 DEF AliveInv

LEMMA TruncMemKeeps ==
  ASSUME AliveInv, TypeInv', Running', NEW t \in Thread, TruncMem(t) PROVE AliveInv'
<1>0. /\ TypeInv /\ OldKills /\ Counted /\ pc \in [Thread -> Points] /\ DOMAIN loc = Thread
  BY Facts
<1>1. /\ pc[t] = "t_mem" /\ Finish(t) /\ chunks' = <<>> /\ segs' = NoSegs /\ nklist' = nklist
      /\ total' = total
  BY DEF TruncMem, At
<1>7. (\A d : RamRows(d)' = {}) /\ DOMAIN chunks' = {}
  BY <1>1 DEF RamRows, NoSegs
<1>2. OneCopy'
  BY <1>7 DEF OneCopy
<1>3. OldKills'
  BY <1>0, <1>1 DEF OldKills
<1>4. pc'[t] = "idle" /\ \A u \in Thread \ {t} : loc'[u] = loc[u] /\ pc'[u] = pc[u]
  BY <1>0, <1>1 DEF Finish, Goto
<1>5. ThreadOK(t)'
  <2>1. pc'[t] \notin Relying
    BY <1>4 DEF Relying, CommitPending, Saving, Merging, UpdatePending
  <2> QED BY <2>1, NothingRelied
<1>6. \A u \in Thread \ {t} : ThreadOK(u)'
  <2> SUFFICES ASSUME NEW u \in Thread \ {t} PROVE ThreadOK(u)'
    OBVIOUS
  <2>1. pc[u] \notin Merging
    BY <1>0, <1>1 DEF TypeInv, LockInv, ControlOK, OpAt, OpsExclude, Merging
  <2> QED BY <1>1, <1>4, <2>1, OthersKept DEF WriterHeld
<1>8. Counted'
  <2> SUFFICES ASSUME OneRun PROVE Counted'
    BY DEF Counted
  <2>1. total = 0
    BY <1>0, <1>1 DEF Counted, Emptying
  <2>2. \A u \in Thread : pc'[u] \notin Emptying
    <3>1. \A u \in Thread \ {t} : pc[u] \notin Emptying
      BY <1>0, <1>1, OneWriter DEF TypeInv, WriterHeld, Emptying
    <3> QED BY <1>4, <3>1 DEF Emptying
  <2>3. {d \in Doc : Found(d)}' = {}
    BY <1>7 DEF Found, DiskRows
  <2> QED BY <1>1, <2>1, <2>2, <2>3, FS_EmptySet DEF Counted
<1> QED BY <1>2, <1>3, <1>5, <1>6, <1>8 DEF AliveInv

\* TRUNCATE says already that nothing is left.
LEMMA TruncMetaKeeps ==
  ASSUME AliveInv, TypeInv', Running', NEW t \in Thread, TruncMeta(t) PROVE AliveInv'
<1>0. /\ TypeInv /\ OneCopy /\ OldKills /\ pc \in [Thread -> Points] /\ MemOK
  BY Facts
<1>1. /\ pc[t] = "t_meta" /\ pc' = [pc EXCEPT ![t] = "t_notify"] /\ UNCHANGED loc /\ total' = 0
      /\ DataSame
  BY DEF TruncMeta, At, Goto, segVars, killVars, DataSame
<1>2. OneCopy' /\ OldKills'
  BY <1>0, <1>1, ShapeSame, ShapeCopies
<1>3. pc'[t] = "t_notify"
  BY <1>0, <1>1
<1>4. Counted'
  BY <1>1, <1>3 DEF Counted, Emptying
<1>5. ThreadOK(t)'
  <2>1. pc'[t] \notin Relying
    BY <1>3 DEF Relying, CommitPending, Saving, Merging, UpdatePending
  <2> QED BY <2>1, NothingRelied
<1>6. \A u \in Thread \ {t} : ThreadOK(u)'
  BY <1>0, <1>1, ShapeSame, ShapeThread DEF AliveInv
<1> QED BY <1>2, <1>4, <1>5, <1>6 DEF AliveInv

-----------------------------------------------------------------------------
(* All the steps. *)

LEMMA BeginKeeps ==
  ASSUME AliveInv, TypeInv', NEW t \in Thread, BeginAny(t) PROVE AliveInv'
<1>0. /\ TypeInv /\ pc \in [Thread -> Points] /\ DOMAIN loc = Thread /\ LocIs(loc[t])
      /\ ThreadOK(t) /\ Running'
  BY Facts, BeginRuns
<1>1. DataSame /\ total' = total /\ At(t, "idle")
  BY DEF BeginAny, CommitBegin, DiskBegin, FlushBegin, ShutdownBegin, UpdateBegin,
     SaveAttributes, QueryBegin, TruncBegin, OptBegin, Begin, DataSame, memVars, segVars,
     killVars, chunkVars
<1>2. \A u \in Thread \ {t} : loc'[u] = loc[u] /\ pc'[u] = pc[u]
  BY <1>0, <1>1 DEF BeginAny, CommitBegin, DiskBegin, FlushBegin, ShutdownBegin, UpdateBegin,
     SaveAttributes, QueryBegin, TruncBegin, OptBegin, Begin, Goto
<1>6. pc'[t] \notin Emptying
  BY <1>0, <1>1 DEF BeginAny, CommitBegin, DiskBegin, FlushBegin, ShutdownBegin, UpdateBegin,
     SaveAttributes, QueryBegin, TruncBegin, OptBegin, Begin, Goto, Emptying
<1> SUFFICES ThreadOK(t)'
  BY <1>0, <1>1, <1>2, <1>6, QuietStep DEF At, Emptying
<1>3. CASE CommitBegin(t)
  <2>1. PICK kill \in (SUBSET Doc) \ {{}}, adds \in Rows :
           /\ \A d \in Doc : adds[d] # NoRow => d \in kill
           /\ loc' = [loc EXCEPT ![t] = [NoLoc EXCEPT !.op = "commit", !.adds = adds,
                                                      !.kill = kill]]
    BY <1>3 DEF CommitBegin
  <2>2. loc'[t].adds = adds /\ loc'[t].kill = kill /\ pc'[t] = "c_writer"
    BY <1>0, <1>3, <2>1 DEF CommitBegin, Begin, Goto, NoLoc
  <2> QED BY <2>1, <2>2
          DEF ThreadOK, CommitOK, SaveOK, MergeOK, UpdateOK, CommitPending, Keeping, Saving,
              Merging, UpdatePending
<1>4. CASE UpdateBegin(t)
  <2>1. PICK d \in Doc, v \in Val :
           loc' = [loc EXCEPT ![t] = [NoLoc EXCEPT !.op = "update", !.adds[d] = v]]
    BY <1>4 DEF UpdateBegin
  <2>2. loc'[t].adds[d] = v /\ pc'[t] = "u_lock"
    BY <1>0, <1>4, <2>1 DEF UpdateBegin, Begin, Goto, NoLoc, NoRows
  <2>3. v # NoRow
    BY NoRowAssumption
  <2>4. UpdateOK(t)'
    BY <2>2, <2>3 DEF UpdateOK
  <2> QED BY <2>2, <2>4
          DEF ThreadOK, CommitOK, SaveOK, MergeOK, CommitPending, Keeping, Saving, Merging
<1>5. CASE \/ DiskBegin(t) \/ FlushBegin(t) \/ ShutdownBegin(t) \/ SaveAttributes(t)
           \/ QueryBegin(t) \/ TruncBegin(t) \/ OptBegin(t)
  <2>1. pc'[t] \in {"d_writer", "f_lock", "f_kill", "idle", "q_disk", "t_writer", "o_klist"}
    BY <1>0, <1>5 DEF DiskBegin, FlushBegin, ShutdownBegin, SaveAttributes, QueryBegin, TruncBegin, OptBegin,
       Begin, Goto
  <2>2. pc'[t] \notin Relying
    BY <2>1 DEF Relying, CommitPending, Saving, Merging, UpdatePending
  <2> QED BY <2>2, NothingRelied
<1> QED BY <1>1, <1>3, <1>4, <1>5 DEF BeginAny

\* Steps after which the thread relies on nothing.
LEMMA RestKeeps ==
  ASSUME AliveInv, TypeInv', Running', NEW t \in Thread,
         \/ SaveEnd(t) \/ DiskLockWriter(t) \/ DiskLockOuter(t) \/ ForceRamFlush(t)
         \/ UpdateLog(t) \/ MultiQuery(t) \/ OptGiveUp(t)
         \/ (Truncate(t) /\ ~TruncMeta(t) /\ ~TruncMem(t))
         \/ OptRenameFails(t) \/ OptUnlink(t) \/ OptLeaveFiles(t)
  PROVE  AliveInv'
<1>0. pc \in [Thread -> Points] /\ DOMAIN loc = Thread /\ LocIs(loc[t])
  BY Facts
<1> DEFINE Rest == {"idle", "d_outer", "d_klist", "f_kill", "f_killed", "f_ram", "f_meta",
                    "f_notify", "f_end", "q_ram", "q_done", "t_outer", "t_meta", "t_notify",
                    "t_ram", "t_chunks", "t_mem", "o_klist"}
           Ok == /\ DataSame /\ total' = total
                 /\ pc'[t] \in Rest /\ (pc'[t] \in Emptying <=> pc[t] \in Emptying)
                 /\ \A u \in Thread \ {t} : loc'[u] = loc[u] /\ pc'[u] = pc[u]
<1> SUFFICES Ok
  <2> SUFFICES ASSUME Ok PROVE AliveInv'
    OBVIOUS
  <2>1. pc'[t] \notin Relying
    BY DEF Relying, CommitPending, Saving, Merging, UpdatePending
  <2>2. ThreadOK(t)'
    BY <2>1, NothingRelied
  <2> QED BY <2>2, QuietStep
<1> USE DEF Emptying, At, Goto, Finish, DataSame, memVars, segVars, killVars, chunkVars
<1>1. CASE SaveEnd(t) \/ DiskLockWriter(t) \/ DiskLockOuter(t)
  BY <1>0, <1>1 DEF SaveEnd, DiskLockWriter, DiskLockOuter
<1>2. CASE ForceRamFlush(t)
  <2>1. CASE FlushLock(t) \/ FlushKillOpen(t) \/ FlushKillDone(t) \/ FlushRam(t) \/ FlushFails(t)
    BY <1>0, <2>1 DEF FlushLock, FlushKillOpen, FlushKillDone, FlushRam, FlushFails
  <2>2. CASE ShutdownFails(t) \/ FlushMeta(t) \/ FlushNotify(t) \/ FlushEnd(t)
    BY <1>0, <2>2 DEF ShutdownFails, FlushMeta, FlushNotify, FlushEnd
  <2> QED BY <1>2, <2>1, <2>2 DEF ForceRamFlush
<1>3. CASE UpdateLog(t) \/ MultiQuery(t)
  BY <1>0, <1>3 DEF UpdateLog, MultiQuery, QueryDisk, QueryRam, QueryEnd, LocIs, LocFields
<1>4. CASE Truncate(t) /\ ~TruncMeta(t) /\ ~TruncMem(t)
  BY <1>0, <1>4 DEF Truncate, TruncLockWriter, TruncLockOuter, TruncNotify, TruncRam, TruncChunks
<1>5. CASE OptGiveUp(t) \/ OptRenameFails(t) \/ OptUnlink(t) \/ OptLeaveFiles(t)
  BY <1>0, <1>5 DEF OptGiveUp, OptRenameFails, OptUnlink, NextRound, OptLeaveFiles
<1> QED BY <1>1, <1>2, <1>3, <1>4, <1>5

\* Steps from one point to the next where the thread relies on the same.
LEMMA OnwardKeeps ==
  ASSUME AliveInv, TypeInv', Running', NEW t \in Thread,
         \/ CommitLockWriter(t) \/ CommitLockInner(t) \/ CommitBinlog(t) \/ CommitMergeDone(t)
         \/ SaveMeta(t) \/ SaveLockInner(t) \/ UpdateLock(t) \/ OptLockWriter(t)
         \/ OptLockOuter(t) \/ OptRenameOld(t) \/ OptRenameNew(t)
  PROVE  AliveInv'
<1>0. pc \in [Thread -> Points] /\ DOMAIN loc = Thread /\ LocIs(loc[t])
  BY Facts
<1>1. /\ DataSame /\ total' = total
      /\ UNCHANGED loc \/ \E x : loc' = [loc EXCEPT ![t] = [loc[t] EXCEPT !.dump = x]]
      /\ \A u \in Thread \ {t} : pc'[u] = pc[u]
  BY <1>0 DEF CommitLockWriter, CommitLockInner, CommitBinlog, CommitMergeDone, SaveMeta,
     SaveLockInner, UpdateLock, OptLockWriter, OptLockOuter, OptRenameOld, OptRenameNew, Goto,
     DataSame, memVars, segVars, killVars, chunkVars
<1>2. /\ \A f \in {"adds", "kill", "keep", "fresh", "live", "dead", "chunk"} : loc'[t][f] = loc[t][f]
      /\ \A u \in Thread \ {t} : loc'[u] = loc[u]
  BY <1>0, <1>1 DEF LocIs, LocFields
<1>3. <<pc[t], pc'[t]>> \in
        {<<"c_writer", "c_inner">>, <<"c_inner", "c_binlog">>, <<"c_binlog", "c_mark">>,
         <<"c_merge", "c_count">>, <<"s_meta", "s_inner">>, <<"s_inner", "s_swap">>,
         <<"u_lock", "u_apply">>, <<"o_writer", "o_outer">>, <<"o_outer", "o_old">>,
         <<"o_old", "o_new">>, <<"o_new", "o_swap">>}
  BY <1>0 DEF CommitLockWriter, CommitLockInner, CommitBinlog, CommitMergeDone, SaveMeta,
     SaveLockInner, UpdateLock, OptLockWriter, OptLockOuter, OptRenameOld, OptRenameNew, At, Goto
<1>4. \A S \in {CommitPending, Keeping, {"c_live"}, Saving, Saving \ {"s_write"},
                Merging \ {"o_klist"}, Merging \ {"o_klist", "o_merge"}, UpdatePending} :
         pc'[t] \in S => pc[t] \in S
  BY <1>3 DEF CommitPending, Keeping, Saving, Merging, UpdatePending
<1>5. ThreadOK(t)'
  BY <1>1, <1>2, <1>4, MoveKept
<1>6. pc[t] \notin Emptying /\ pc'[t] \notin Emptying
  BY <1>3 DEF Emptying
<1> QED BY <1>1, <1>2, <1>5, <1>6, QuietStep

\* A stopped index has no data.
LEMMA StopAlive == ASSUME AliveInv, TypeInv', Stop, Running', Counted' PROVE AliveInv'
<1>1. (\A d : RamRows(d)' = {}) /\ DOMAIN chunks' = {}
  BY DEF Stop, RamRows, NoSegs
<1>2. OneCopy' /\ OldKills'
  BY <1>1 DEF Stop, OneCopy, OldKills
<1>3. ASSUME NEW t \in Thread PROVE ThreadOK(t)'
  <2>1. pc'[t] \notin Relying
    BY DEF Stop, Relying, CommitPending, Saving, Merging, UpdatePending
  <2> QED BY <2>1, NothingRelied
<1> QED BY <1>2, <1>3 DEF AliveInv

LEMMA StepAlive == ASSUME AliveInv, TypeInv', NEW t \in Thread, Step(t) PROVE AliveInv'
<1>1. Running' /\ (OneRun => ~ShutdownEnd(t))
  BY StepRuns
<1>2. CASE Commit(t)
  BY <1>1, <1>2, OnwardKeeps, CommitMarkKeeps, CommitMergeKeeps, CommitCountKeeps,
     CommitLiveKeeps, CommitDumpKeeps DEF Commit
<1>3. CASE SaveDiskChunk(t) \/ ForceDiskChunk(t)
  BY <1>1, <1>3, OnwardKeeps, RestKeeps, SaveWriteKeeps, SaveSwapKeeps, DiskKlistKeeps
     DEF SaveDiskChunk, ForceDiskChunk
<1>4. CASE ForceRamFlush(t) \/ MultiQuery(t)
  BY <1>1, <1>4, RestKeeps
<1>5. CASE UpdateAttributes(t) \/ Truncate(t)
  BY <1>1, <1>5, OnwardKeeps, RestKeeps, UpdateApplyKeeps, TruncMetaKeeps,
     TruncMemKeeps DEF UpdateAttributes
<1>6. CASE Optimize(t)
  BY <1>1, <1>6, OnwardKeeps, RestKeeps, OptKlistKeeps, OptMergeKeeps, OptSwapKeeps
     DEF Optimize
<1>7. CASE ShutdownEnd(t)
  <2>1. Stop /\ Counted'
    BY <1>1, <1>7 DEF ShutdownEnd, Counted
  <2> QED BY <1>1, <2>1, StopAlive
<1> QED BY <1>2, <1>3, <1>4, <1>5, <1>6, <1>7 DEF Step

\* Whatever happens but a start and what is replayed after it; these rely on the files.
LEMMA AliveGoesOn ==
  ASSUME AliveInv, [Next]_vars, ~Restart, ~ReplayCommit, ~ReplayUpdateAttributes
  PROVE  AliveInv'
<1>1. TypeInv'
  BY TypeInvKept DEF AliveInv
<1>2. CASE Crash
  <2>1. ~OneRun
    BY <1>2, ThreadAssumption DEF OneRun, Crash
  <2>2. Running' /\ Counted' /\ Stop
    BY <1>2, <2>1 DEF Running, Counted, Crash
  <2> QED BY <1>1, <2>2, StopAlive
<1>3. CASE UNCHANGED vars \/ ReplayDone
  <2>1. PICK t \in Thread : TRUE
    BY ThreadAssumption
  <2>2. DataSame /\ UNCHANGED <<pc, loc, total>>
    BY <1>3 DEF vars, ReplayDone, memVars, segVars, killVars, chunkVars, DataSame
  <2>3. SameShape
    BY <2>2, ShapeSame
  <2>4. ThreadOK(t)'
    BY <2>2, <2>3, ShapeThread DEF AliveInv
  <2>5. Running'
    <3>1. mode' = mode \/ mode' = "up"
      BY <1>3 DEF ReplayDone, vars, envVars
    <3> QED BY <2>2, <3>1 DEF AliveInv, Running
  <2> QED BY <1>1, <2>2, <2>4, <2>5, QuietStep
<1> QED BY <1>1, <1>2, <1>3, StepAlive, BeginKeeps DEF Next, Recovery

LEMMA AliveKept == ASSUME OneRun, AliveInv, [Next]_vars PROVE AliveInv'
BY NoStop, AliveGoesOn DEF Recovery

LEMMA InitAlive == Init => AliveInv
<1> SUFFICES ASSUME Init PROVE AliveInv
  OBVIOUS
<1>1. OneCopy /\ OldKills /\ Running
  BY DEF Init, OneCopy, OldKills, Running, RamRows, NoSegs, NoLoc
<1>2. \A t \in Thread : ThreadOK(t)
  BY DEF Init, ThreadOK, CommitOK, SaveOK, MergeOK, UpdateOK, CommitPending, Keeping, Saving,
     Merging, UpdatePending
<1>3. Counted
  <2>1. {d \in Doc : Found(d)} = {}
    BY DEF Init, Found, RamRows, DiskRows, NoSegs
  <2> QED BY <2>1, FS_EmptySet DEF Init, Counted, Emptying
<1> QED BY <1>1, <1>2, <1>3, InitTypes DEF AliveInv

-----------------------------------------------------------------------------
LEMMA SetOfOne ==
  ASSUME NEW S, \A a, b \in S : a = b
  PROVE  Cardinality(S) \in {0, 1} /\ (Cardinality(S) = 1 <=> S # {})
<1>1. CASE S = {}
  BY <1>1, FS_EmptySet
<1>2. CASE S # {}
  <2>1. PICK a \in S : TRUE
    BY <1>2
  <2>2. S = {a}
    BY <2>1
  <2> QED BY <1>2, <2>2, FS_Singleton
<1> QED BY <1>1, <1>2

LEMMA OneCopyAlive == ASSUME OneCopy PROVE AtMostOneAlive
<1> SUFFICES ASSUME NEW d \in Doc PROVE Cardinality(RamRows(d)) + Cardinality(DiskRows(d)) <= 1
  BY DEF AtMostOneAlive
<1>1. \A a, b \in RamRows(d) : a = b
  BY DEF OneCopy
<1>2. \A a, b \in DiskRows(d) : a = b
  BY DEF OneCopy, DiskRows
<1>3. RamRows(d) # {} => DiskRows(d) = {}
  BY DEF OneCopy, DiskRows
<1>4. Cardinality(RamRows(d)) \in {0, 1} /\ (Cardinality(RamRows(d)) = 1 <=> RamRows(d) # {})
  BY <1>1, SetOfOne
<1>5. Cardinality(DiskRows(d)) \in {0, 1} /\ (Cardinality(DiskRows(d)) = 1 <=> DiskRows(d) # {})
  BY <1>2, SetOfOne
<1> QED BY <1>3, <1>4, <1>5

\* While the index runs, no document is found twice, whatever commits, UPDATEs, saves,
\* truncates and chunk merges run beside each other: CommitReplayable kills the older
\* copy wherever it is and wherever it goes.
THEOREM NeverTwiceAlive == ASSUME OneRun PROVE Spec => []AtMostOneAlive
<1>1. AliveInv => AtMostOneAlive
  BY OneCopyAlive DEF AliveInv
<1>2. AliveInv /\ [Next]_vars => AliveInv'
  BY AliveKept
<1> QED BY <1>1, <1>2, InitAlive, PTL DEF Spec

\* While the index runs, no two segments that a commit merges show the merger the same
\* document, in whatever order they are merged (MergeSegments).
THEOREM NothingMergedTwice == ASSUME OneRun PROVE Spec => []NoDupesToMerge
<1>1. AliveInv => NoDupesToMerge
  BY DEF AliveInv, NoDupesToMerge, ThreadOK, CommitOK, Keeping, At, Sees
<1>2. AliveInv /\ [Next]_vars => AliveInv'
  BY AliveKept
<1> QED BY <1>1, <1>2, InitAlive, PTL DEF Spec

\* What a query returns of a document is one of the rows there are.
LEMMA VisibleRow ==
  ASSUME TypeInv, NEW d \in Doc
  PROVE  Visible[d] # NoRow <=> Found(d)
<1>1. CASE RamRows(d) # {}
  <2>1. (CHOOSE g \in RamRows(d) : TRUE) \in RamRows(d)
    BY <1>1
  <2> QED BY <1>1, <2>1 DEF Visible, Found, RamRows, AliveRow, HasRow
<1>2. CASE RamRows(d) = {} /\ DiskRows(d) # {}
  <2>1. (CHOOSE i \in DiskRows(d) : TRUE) \in DiskRows(d)
    BY <1>2
  <2> QED BY <1>2, <2>1 DEF Visible, Found, DiskRows, LiveInChunk, HasRow
<1>3. CASE RamRows(d) = {} /\ DiskRows(d) = {}
  BY <1>3 DEF Visible, Found
<1> QED BY <1>1, <1>2, <1>3

\* While the index runs, the number of documents that it keeps by adding what a
\* transaction adds and taking off what it found alive (CommitReplayable) is the number
\* of documents that a query finds, whatever happened between the two.
THEOREM TotalIsRight == ASSUME OneRun PROVE Spec => []TotalMatchesVisible
<1>1. AliveInv => TotalMatchesVisible
  <2> SUFFICES ASSUME AliveInv, excl = NoThread
               PROVE  total = Cardinality({d \in Doc : Visible[d] # NoRow})
    BY DEF TotalMatchesVisible
  <2>1. \A t \in Thread : pc[t] \notin Emptying
    BY NoThreadAssumption DEF AliveInv, TypeInv, LockInv, Locking, Emptying, ExclHeld
  <2>2. {d \in Doc : Visible[d] # NoRow} = {d \in Doc : Found(d)}
    BY VisibleRow DEF AliveInv
  <2> QED BY <2>1, <2>2 DEF AliveInv, Counted
<1>2. AliveInv /\ [Next]_vars => AliveInv'
  BY AliveKept
<1> QED BY <1>1, <1>2, InitAlive, PTL DEF Spec

-----------------------------------------------------------------------------
\* A replay commits, and its commits may save a disk chunk; nothing else runs.
ReplayPoints ==
    {"idle", "c_writer", "c_inner", "c_binlog", "c_mark", "c_merge", "c_count", "c_live",
     "c_outer", "s_write", "s_meta", "s_inner", "s_swap", "s_end"}
ReplayAlone == mode = "replay" => \A t \in Thread : pc[t] \in ReplayPoints

QueryInv == TypeInv /\ ReplayAlone

LEMMA ReplayStep ==
  ASSUME QueryInv, NEW t \in Thread, Step(t), mode' = "replay", ~ShutdownEnd(t)
  PROVE  mode = "replay" /\ \E l \in ReplayPoints : pc' = [pc EXCEPT ![t] = l]
<1>1. mode = "replay"
  <2>1. CASE FlushRam(t)
    BY <2>1 DEF FlushRam, envVars
  <2>2. CASE Commit(t)
    BY <2>2 DEF Commit, CommitLockWriter, CommitLockInner, CommitBinlog, CommitMark,
       CommitMerge, CommitMergeDone, CommitCount, CommitLive, CommitDump, envVars
  <2>3. CASE SaveDiskChunk(t) \/ ForceDiskChunk(t)
    BY <2>3 DEF SaveDiskChunk, SaveWrite, SaveMeta, SaveLockInner, SaveSwap, SaveEnd,
       ForceDiskChunk, DiskLockWriter, DiskLockOuter, DiskKlist, envVars
  <2>4. CASE ForceRamFlush(t) /\ ~FlushRam(t)
    BY <2>4 DEF ForceRamFlush, FlushLock, FlushKillOpen, FlushKillDone, FlushFails,
       ShutdownFails, FlushMeta, FlushNotify, FlushEnd, envVars
  <2>5. CASE UpdateAttributes(t) \/ MultiQuery(t)
    BY <2>5 DEF UpdateAttributes, UpdateLock, UpdateApply, UpdateLog, MultiQuery, QueryDisk,
       QueryRam, QueryEnd, envVars
  <2>6. CASE Truncate(t)
    BY <2>6 DEF Truncate, TruncLockWriter, TruncLockOuter, TruncMeta, TruncNotify, TruncRam,
       TruncChunks, TruncMem, envVars
  <2>7. CASE Optimize(t)
    BY <2>7 DEF Optimize, OptKlist, OptMerge, OptGiveUp, OptLockWriter, OptLockOuter,
       OptRenameOld, OptRenameFails, OptRenameNew, OptSwap, OptUnlink, OptLeaveFiles, envVars
  <2> QED BY <2>1, <2>2, <2>3, <2>4, <2>5, <2>6, <2>7 DEF Step
<1>2. pc[t] \in ReplayPoints /\ pc \in [Thread -> Points]
  BY <1>1 DEF QueryInv, ReplayAlone, TypeInv, LockInv, ControlOK
<1>3. CASE Commit(t)
  <2>1. CASE CommitLive(t)
    <3>1. \E l \in {"c_outer", "idle"} : pc' = [pc EXCEPT ![t] = l]
      BY <2>1, Zenon DEF CommitLive, Goto, Finish
    <3> QED BY <1>1, <3>1 DEF ReplayPoints
  <2>2. CASE CommitMerge(t)
    <3>1. pc' = [pc EXCEPT ![t] = pc[t]]
      BY <1>2, <2>2 DEF CommitMerge
    <3> QED BY <1>1, <1>2, <3>1
  <2>3. CASE ~CommitLive(t) /\ ~CommitMerge(t)
    BY <1>1, <1>3, <2>3 DEF Commit, CommitLockWriter, CommitLockInner, CommitBinlog,
       CommitMark, CommitMergeDone, CommitCount, CommitDump, Goto, ReplayPoints
  <2> QED BY <2>1, <2>2, <2>3
<1>4. CASE SaveDiskChunk(t)
  BY <1>1, <1>4 DEF SaveDiskChunk, SaveWrite, SaveMeta, SaveLockInner, SaveSwap, SaveEnd,
     Goto, Finish, ReplayPoints
<1>5. ~ForceDiskChunk(t) /\ ~ForceRamFlush(t)
  BY <1>2 DEF ReplayPoints, At, ForceDiskChunk, DiskLockWriter, DiskLockOuter, DiskKlist,
     ForceRamFlush, FlushLock, FlushKillOpen, FlushKillDone, FlushRam, FlushFails,
     ShutdownFails, FlushMeta, FlushNotify, FlushEnd
<1>6. ~UpdateAttributes(t) /\ ~MultiQuery(t) /\ ~Truncate(t)
  BY <1>2 DEF ReplayPoints, At, UpdateAttributes, UpdateLock, UpdateApply, UpdateLog,
     MultiQuery, QueryDisk, QueryRam, QueryEnd, Truncate, TruncLockWriter, TruncLockOuter,
     TruncMeta, TruncNotify, TruncRam, TruncChunks, TruncMem
<1>7. ~Optimize(t)
  BY <1>2 DEF ReplayPoints, At, Optimize, OptKlist, OptMerge, OptGiveUp, OptLockWriter,
     OptLockOuter, OptRenameOld, OptRenameFails, OptRenameNew, OptSwap, OptUnlink,
     OptLeaveFiles
<1> QED BY <1>3, <1>4, <1>5, <1>6, <1>7 DEF Step

LEMMA ReplayKept == ASSUME QueryInv, [Next]_vars PROVE ReplayAlone'
<1>0. pc \in [Thread -> Points] /\ ReplayAlone /\ StoppedIdle
  BY DEF QueryInv, TypeInv, LockInv, ControlOK
<1>1. ASSUME NEW t \in Thread, BeginAny(t) PROVE ReplayAlone'
  BY <1>1 DEF BeginAny, CommitBegin, DiskBegin, FlushBegin, ShutdownBegin, UpdateBegin,
     SaveAttributes, QueryBegin, TruncBegin, OptBegin, Begin, envVars, ReplayAlone
<1>2. ASSUME NEW t \in Thread, Step(t), ~ShutdownEnd(t) PROVE ReplayAlone'
  BY <1>0, <1>2, ReplayStep DEF ReplayAlone
<1>3. CASE Stop
  BY <1>3 DEF Stop, ReplayAlone
<1>4. CASE Recovery
  <2>1. CASE ReplayCommit
    BY <1>0, <2>1, ThreadAssumption
       DEF ReplayCommit, ReplayIdle, Goto, ReplayAlone, ReplayPoints, Replayer, envVars
  <2>2. CASE Restart
    BY <1>0, <2>2 DEF Restart, StoppedIdle, ReplayAlone, ReplayPoints
  <2>3. CASE ReplayUpdateAttributes \/ ReplayDone
    BY <1>0, <2>3 DEF ReplayUpdateAttributes, ReplayDone, ReplayAlone, envVars
  <2> QED BY <1>4, <2>1, <2>2, <2>3 DEF Recovery
<1>5. CASE UNCHANGED vars
  BY <1>0, <1>5 DEF vars, envVars, ReplayAlone
<1> QED BY <1>1, <1>2, <1>3, <1>4, <1>5 DEF Next, Crash, ShutdownEnd

-----------------------------------------------------------------------------
(* What a query can see. *)

LEMMA SameData == ASSUME UNCHANGED <<segs, chunks, klist>> PROVE Visible' = Visible
BY DEF Visible, RamRows, DiskRows, LiveInChunk, HasRow, AliveRow

\* The merger's flag is not seen by queries.
LEMMA SameRows ==
  ASSUME DOMAIN segs' = DOMAIN segs, UNCHANGED <<chunks, klist>>,
         \A g \in DOMAIN segs : segs'[g].row = segs[g].row /\ segs'[g].klist = segs[g].klist
  PROVE  Visible' = Visible
<1>1. \A d \in Doc : RamRows(d)' = RamRows(d)
  BY DEF RamRows, AliveRow, HasRow
<1>2. \A d \in Doc : DiskRows(d)' = DiskRows(d)
  BY DEF DiskRows, LiveInChunk, HasRow
<1>3. \A d \in Doc : RamRows(d) # {} => (CHOOSE g \in RamRows(d) : TRUE) \in DOMAIN segs
  BY DEF RamRows
<1> DEFINE ram(d)  == CHOOSE g \in RamRows(d) : TRUE
           disk(d) == CHOOSE i \in DiskRows(d) : TRUE
<1>4. \A d \in Doc : ram(d)' = ram(d) /\ disk(d)' = disk(d)
  BY <1>1, <1>2
<1>5. \A d \in Doc : RamRows(d) # {} => segs'[ram(d)'].row[d] = segs[ram(d)].row[d]
  BY <1>3, <1>4
<1>6. Visible = [d \in Doc |-> IF RamRows(d) # {} THEN segs[ram(d)].row[d]
                               ELSE IF DiskRows(d) # {} THEN chunks[disk(d)].row[d] ELSE NoRow]
  BY DEF Visible
<1>7. Visible' = [d \in Doc |-> IF RamRows(d)' # {} THEN segs'[ram(d)'].row[d]
                                ELSE IF DiskRows(d)' # {} THEN chunks'[disk(d)'].row[d] ELSE NoRow]
  BY DEF Visible
<1> HIDE DEF ram, disk
<1> QED BY <1>1, <1>2, <1>4, <1>5, <1>6, <1>7

\* The steps that change data.
LEMMA DataSteps ==
  ASSUME [Next]_vars
  PROVE  \/ UNCHANGED <<segs, chunks, klist>>
         \/ \E t \in Thread : \/ CommitMark(t) \/ CommitLive(t) \/ SaveSwap(t)
                              \/ UpdateApply(t) \/ TruncMem(t) \/ OptSwap(t)
         \/ Stop \/ Restart \/ ReplayUpdateAttributes
<1> USE DEF memVars, segVars, killVars, chunkVars
<1>1. ASSUME NEW t \in Thread, BeginAny(t) PROVE UNCHANGED <<segs, chunks, klist>>
  BY <1>1 DEF BeginAny, CommitBegin, DiskBegin, FlushBegin, ShutdownBegin, UpdateBegin,
     SaveAttributes, QueryBegin, TruncBegin, OptBegin
<1>2. ASSUME NEW t \in Thread, Commit(t), ~CommitMark(t), ~CommitLive(t)
      PROVE  UNCHANGED <<segs, chunks, klist>>
  BY <1>2 DEF Commit, CommitLockWriter, CommitLockInner, CommitBinlog, CommitMerge,
     CommitMergeDone, CommitCount, CommitDump
<1>3. ASSUME NEW t \in Thread, SaveDiskChunk(t) \/ ForceDiskChunk(t), ~SaveSwap(t)
      PROVE  UNCHANGED <<segs, chunks, klist>>
  BY <1>3 DEF SaveDiskChunk, SaveWrite, SaveMeta, SaveLockInner, SaveEnd, ForceDiskChunk,
     DiskLockWriter, DiskLockOuter, DiskKlist
<1>4. ASSUME NEW t \in Thread, ForceRamFlush(t) \/ MultiQuery(t)
      PROVE  UNCHANGED <<segs, chunks, klist>>
  BY <1>4 DEF ForceRamFlush, FlushLock, FlushKillOpen, FlushKillDone, FlushRam, FlushFails,
     ShutdownFails, FlushMeta, FlushNotify, FlushEnd, MultiQuery, QueryDisk, QueryRam, QueryEnd
<1>5. ASSUME NEW t \in Thread, UpdateAttributes(t) \/ Truncate(t), ~UpdateApply(t), ~TruncMem(t)
      PROVE  UNCHANGED <<segs, chunks, klist>>
  BY <1>5 DEF UpdateAttributes, UpdateLock, UpdateLog, Truncate, TruncLockWriter,
     TruncLockOuter, TruncMeta, TruncNotify, TruncRam, TruncChunks
<1>6. ASSUME NEW t \in Thread, Optimize(t), ~OptSwap(t)
      PROVE  UNCHANGED <<segs, chunks, klist>>
  BY <1>6 DEF Optimize, OptKlist, OptMerge, OptGiveUp, OptLockWriter, OptLockOuter,
     OptRenameOld, OptRenameFails, OptRenameNew, OptUnlink, OptLeaveFiles
<1>7. CASE ReplayCommit \/ ReplayDone \/ UNCHANGED vars
  BY <1>7 DEF ReplayCommit, ReplayDone, vars
<1> QED BY <1>1, <1>2, <1>3, <1>4, <1>5, <1>6, <1>7
        DEF Next, Step, Crash, Recovery, ShutdownEnd

LEMMA StepStable ==
  ASSUME QueryInv, [Next]_vars, readers \cap readers' # {}
  PROVE  Visible' = Visible \/ \E t \in Thread : UpdateApply(t)
<1>0. LockInv /\ Locking /\ StoppedIdle /\ ReplayAlone /\ readers \subseteq Thread /\ readers # {}
  BY DEF QueryInv, TypeInv, LockInv, OwnersOK
<1>1. PICK u \in Thread : u \in readers
  BY <1>0
<1>2. excl = NoThread /\ pc[u] \in ReadHeld \cup FlushHeld
  BY <1>0, <1>1 DEF Locking
<1>3. ASSUME NEW t \in Thread, CommitMark(t) PROVE Visible' = Visible
  <2>1. /\ DOMAIN segs' = DOMAIN segs /\ UNCHANGED <<chunks, klist>>
        /\ \A g \in DOMAIN segs : segs'[g].row = segs[g].row /\ segs'[g].klist = segs[g].klist
    <3>1. \A s \in Segment : /\ [s EXCEPT !.tls = TRUE].row = s.row
                             /\ [s EXCEPT !.tls = TRUE].klist = s.klist
      BY DEF Segment
    <3>2. \A g \in DOMAIN segs : segs[g] \in Segment
      BY DEF QueryInv, TypeInv, MemOK, SegmentMap
    <3> QED BY <1>3, <3>1, <3>2 DEF CommitMark, killVars, chunkVars
  <2> QED BY <2>1, SameRows
<1>4. ASSUME NEW t \in Thread, CommitLive(t) PROVE FALSE
  <2>1. readers = {}
    BY <1>4, Zenon DEF CommitLive, CanWriteLock
  <2> QED BY <1>0, <2>1
<1>5. ASSUME NEW t \in Thread, SaveSwap(t) PROVE FALSE
  BY <1>0, <1>5 DEF SaveSwap, CanWriteLock
<1>6. ASSUME NEW t \in Thread, TruncMem(t) \/ OptSwap(t) PROVE FALSE
  <2>1. pc[t] \in ExclHeld
    BY <1>6 DEF TruncMem, OptSwap, At, ExclHeld
  <2>2. excl = t
    BY <1>0, <2>1 DEF Locking
  <2> QED BY <1>2, <2>2, NoThreadAssumption
<1>7. CASE Stop
  BY <1>7 DEF Stop
<1>8. CASE Restart
  BY <1>0, <1>2, <1>8 DEF Restart, StoppedIdle, ReadHeld, FlushHeld
<1>9. CASE ReplayUpdateAttributes
  BY <1>0, <1>2, <1>9
     DEF ReplayUpdateAttributes, ReplayIdle, ReplayAlone, ReplayPoints, ReadHeld, FlushHeld
<1> QED BY <1>3, <1>4, <1>5, <1>6, <1>7, <1>8, <1>9, DataSteps, SameData

\* Commits, dumps, chunk merges, truncates, crashes and starts never change what
\* is found under a reader's feet: a query, which scans the chunks and then the
\* segments, and a flush, which writes kill-list, segments and .meta, see one state.
THEOREM SnapshotsStable == Spec => SnapshotStable
<1>1. Init => QueryInv
  <2>1. Init => ReplayAlone
    BY DEF Init, ReplayAlone
  <2> QED BY <2>1, InitTypes DEF QueryInv
<1>2. QueryInv /\ [Next]_vars => QueryInv'
  BY TypeInvKept, ReplayKept DEF QueryInv
<1>3. QueryInv /\ [Next]_vars =>
        [readers \cap readers' # {} => Visible' = Visible \/ \E t \in Thread : UpdateApply(t)]_vars
  BY StepStable
<1> QED BY <1>1, <1>2, <1>3, PTL DEF Spec, SnapshotStable

-----------------------------------------------------------------------------
(* What queries find is what the transactions made. *)

\* An UPDATE writes to a row that a save, a commit or a chunk merge may have copied
\* already, and is lost: the three theorems below are about a workload without.
NoUpdates == "update" \notin Ops

RamRow(d) == segs[CHOOSE g \in RamRows(d) : TRUE].row[d]

\* The merger sees the version the transaction adds or, of what it leaves alone, the
\* version there is.
CommitValues(t) ==
    pc[t] \in Keeping =>
      \A g \in DOMAIN Work(t), d \in Doc : Sees(t, g, d) =>
         Work(t)[g].row[d] = IF d \in loc[t].kill THEN loc[t].adds[d] ELSE RamRow(d)

SaveValues(t) ==
    pc[t] \in Saving \ {"s_write"} =>
      \A d \in Doc : RamRows(d) # {} => loc[t].chunk.row[d] = RamRow(d)

MergeValues(t) ==
    pc[t] \in Merging \ {"o_klist", "o_merge"} =>
      \A d \in Doc : HasRow(loc[t].chunk, d) =>
         loc[t].chunk.row[d] = IF HasRow(chunks[2], d) THEN chunks[2].row[d] ELSE chunks[1].row[d]

FoundOnDisk == {<<p[1], chunks[p[2]].row[p[1]]>> :
                  p \in {q \in Doc \X DOMAIN chunks : q[2] \in DiskRows(q[1])}}
FoundInRam  == {<<p[1], segs[p[2]].row[p[1]]>> :
                  p \in {q \in Doc \X DOMAIN segs : q[2] \in RamRows(q[1])}}
Shown       == {<<d, Visible[d]>> : d \in {x \in Doc : Visible[x] # NoRow}}

QueryValues(t) ==
    /\ pc[t] = "q_ram" => loc[t].got = FoundOnDisk
    /\ pc[t] = "q_done" => loc[t].got = Shown

ThreadValues(t) == CommitValues(t) /\ SaveValues(t) /\ MergeValues(t) /\ QueryValues(t)

\* The inductive invariant, beside AliveInv.
ValueInv == \A t \in Thread : ThreadValues(t)

Valued == Keeping \cup (Saving \ {"s_write"}) \cup (Merging \ {"o_klist", "o_merge"})
            \cup {"q_ram", "q_done"}

LEMMA NothingValued == ASSUME NEW t \in Thread, pc'[t] \notin Valued PROVE ThreadValues(t)'
BY DEF Valued, ThreadValues, CommitValues, SaveValues, MergeValues, QueryValues

-----------------------------------------------------------------------------
(* The version of a document. *)

\* There is one row to be found, and it is the version that a query returns.
LEMMA VisibleIs ==
  ASSUME OneCopy, NEW d \in Doc
  PROVE  /\ \A g \in RamRows(d) : Visible[d] = segs[g].row[d] /\ RamRow(d) = segs[g].row[d]
         /\ \A i \in DiskRows(d) : RamRows(d) = {} /\ Visible[d] = chunks[i].row[d]
         /\ RamRows(d) = {} /\ DiskRows(d) = {} => Visible[d] = NoRow
<1>1. ASSUME NEW g \in RamRows(d)
      PROVE  Visible[d] = segs[g].row[d] /\ RamRow(d) = segs[g].row[d]
  <2>1. (CHOOSE h \in RamRows(d) : TRUE) \in RamRows(d)
    BY <1>1
  <2>2. (CHOOSE h \in RamRows(d) : TRUE) = g
    BY <1>1, <2>1 DEF OneCopy
  <2> QED BY <1>1, <2>2 DEF Visible, RamRow
<1>2. ASSUME NEW i \in DiskRows(d) PROVE RamRows(d) = {} /\ Visible[d] = chunks[i].row[d]
  <2>1. RamRows(d) = {}
    BY <1>2 DEF OneCopy, DiskRows
  <2>2. (CHOOSE j \in DiskRows(d) : TRUE) \in DiskRows(d)
    BY <1>2
  <2>3. (CHOOSE j \in DiskRows(d) : TRUE) = i
    BY <1>2, <2>2 DEF OneCopy, DiskRows
  <2> QED BY <1>2, <2>1, <2>3 DEF Visible
<1> QED BY <1>1, <1>2 DEF Visible

LEMMA RowsThere ==
  ASSUME NEW d
  PROVE  /\ \A g \in RamRows(d) : g \in DOMAIN segs /\ segs[g].row[d] # NoRow
         /\ \A i \in DiskRows(d) : i \in DOMAIN chunks /\ chunks[i].row[d] # NoRow /\ d \notin klist
BY DEF RamRows, AliveRow, HasRow, DiskRows, LiveInChunk

\* What the disk chunks and then the RAM segments give is all there is.
LEMMA TogetherAll == ASSUME OneCopy PROVE FoundOnDisk \cup FoundInRam = Shown
<1>1. ASSUME NEW x \in FoundOnDisk PROVE x \in Shown
  <2>1. PICK d \in Doc, i \in DOMAIN chunks : i \in DiskRows(d) /\ x = <<d, chunks[i].row[d]>>
    BY <1>1 DEF FoundOnDisk
  <2>2. Visible[d] = chunks[i].row[d] /\ Visible[d] # NoRow
    BY <2>1, VisibleIs, RowsThere
  <2> QED BY <2>1, <2>2 DEF Shown
<1>2. ASSUME NEW x \in FoundInRam PROVE x \in Shown
  <2>1. PICK d \in Doc, g \in DOMAIN segs : g \in RamRows(d) /\ x = <<d, segs[g].row[d]>>
    BY <1>2 DEF FoundInRam
  <2>2. Visible[d] = segs[g].row[d] /\ Visible[d] # NoRow
    BY <2>1, VisibleIs, RowsThere
  <2> QED BY <2>1, <2>2 DEF Shown
<1>3. ASSUME NEW x \in Shown PROVE x \in FoundOnDisk \cup FoundInRam
  <2>1. PICK d \in Doc : Visible[d] # NoRow /\ x = <<d, Visible[d]>>
    BY <1>3 DEF Shown
  <2>2. ASSUME NEW g \in RamRows(d) PROVE x \in FoundInRam
    <3>1. <<d, g>> \in {q \in Doc \X DOMAIN segs : q[2] \in RamRows(q[1])}
      BY RowsThere
    <3>2. x = <<<<d, g>>[1], segs[<<d, g>>[2]].row[<<d, g>>[1]]>>
      BY <2>1, VisibleIs
    <3> QED BY <3>1, <3>2 DEF FoundInRam
  <2>3. ASSUME NEW i \in DiskRows(d) PROVE x \in FoundOnDisk
    <3>1. <<d, i>> \in {q \in Doc \X DOMAIN chunks : q[2] \in DiskRows(q[1])}
      BY RowsThere
    <3>2. x = <<<<d, i>>[1], chunks[<<d, i>>[2]].row[<<d, i>>[1]]>>
      BY <2>1, VisibleIs
    <3> QED BY <3>1, <3>2 DEF FoundOnDisk
  <2>4. RamRows(d) # {} \/ DiskRows(d) # {}
    BY <2>1, VisibleIs
  <2> QED BY <2>2, <2>3, <2>4
<1> QED BY <1>1, <1>2, <1>3

-----------------------------------------------------------------------------
(* What leaves a thread the versions it has seen. *)

\* The thread goes on with the same.
Onward(t) ==
    /\ \A f \in {"adds", "kill", "keep", "fresh", "chunk", "got"} : loc'[t][f] = loc[t][f]
    /\ \A S \in {Keeping, Saving \ {"s_write"}, Merging \ {"o_klist", "o_merge"}, {"q_ram"},
                 {"q_done"}} : pc'[t] \in S => pc[t] \in S

LEMMA ValuesMove ==
  ASSUME UNCHANGED <<segs, chunks, klist>>, NEW t \in Thread, ThreadValues(t), Onward(t)
  PROVE  ThreadValues(t)'
<1>1. /\ loc'[t].adds = loc[t].adds /\ loc'[t].kill = loc[t].kill /\ loc'[t].keep = loc[t].keep
      /\ loc'[t].fresh = loc[t].fresh /\ loc'[t].chunk = loc[t].chunk /\ loc'[t].got = loc[t].got
  BY DEF Onward
<1>2. /\ pc'[t] \in Keeping => pc[t] \in Keeping
      /\ pc'[t] \in Saving \ {"s_write"} => pc[t] \in Saving \ {"s_write"}
      /\ pc'[t] \in Merging \ {"o_klist", "o_merge"} => pc[t] \in Merging \ {"o_klist", "o_merge"}
      /\ pc'[t] = "q_ram" => pc[t] = "q_ram"
      /\ pc'[t] = "q_done" => pc[t] = "q_done"
  BY DEF Onward
<1>3. \A d : RamRows(d)' = RamRows(d)
  BY DEF RamRows
<1>4. \A d : DiskRows(d)' = DiskRows(d)
  BY DEF DiskRows, LiveInChunk
<1>5. \A d : RamRow(d)' = RamRow(d)
  BY <1>3 DEF RamRow
<1>6. FoundOnDisk' = FoundOnDisk
  BY <1>4 DEF FoundOnDisk
<1>7. Shown' = Shown
  BY SameData DEF Shown
<1>8. CommitValues(t)'
  <2>1. Work(t)' = Work(t)
    BY <1>1, WorkSame
  <2>2. \A g, d : Sees(t, g, d)' = Sees(t, g, d)
    BY <1>1, <2>1 DEF Sees
  <2> QED BY <1>1, <1>2, <1>5, <2>1, <2>2 DEF ThreadValues, CommitValues
<1>9. SaveValues(t)'
  BY <1>1, <1>2, <1>3, <1>5 DEF ThreadValues, SaveValues
<1>10. MergeValues(t)'
  BY <1>1, <1>2 DEF ThreadValues, MergeValues
<1>11. QueryValues(t)'
  BY <1>1, <1>2, <1>6, <1>7 DEF ThreadValues, QueryValues
<1> QED BY <1>8, <1>9, <1>10, <1>11 DEF ThreadValues

\* Beside one that writes, at most a chunk merge and queries go on.
LEMMA OthersValued ==
  ASSUME AliveInv, NEW t \in Thread, pc[t] \in WriterHeld, NEW u \in Thread \ {t},
         ThreadValues(u), loc'[u] = loc[u], pc'[u] = pc[u],
         pc[u] \in Merging => chunks'[1] = chunks[1] /\ chunks'[2] = chunks[2],
         pc[u] \in {"q_ram", "q_done"} => FoundOnDisk' = FoundOnDisk /\ Shown' = Shown
  PROVE  ThreadValues(u)'
<1>1. pc[u] \notin WriterHeld
  BY OneWriter DEF AliveInv, TypeInv
<1>2. pc[u] \notin Keeping \cup Saving
  BY <1>1 DEF WriterHeld, Keeping, Saving
<1>3. MergeValues(u)'
  BY DEF ThreadValues, MergeValues, HasRow
<1> QED BY <1>2, <1>3 DEF ThreadValues, CommitValues, SaveValues, QueryValues

\* The steps at which a thread takes versions from elsewhere.
Reads(t) == \/ CommitMark(t) \/ CommitMerge(t) \/ SaveWrite(t) \/ OptMerge(t)
            \/ QueryDisk(t) \/ QueryRam(t)

LEMMA BeginMoves ==
  ASSUME AliveInv, NEW t \in Thread, BeginAny(t)
  PROVE  pc'[t] \notin Valued /\ \A u \in Thread \ {t} : loc'[u] = loc[u] /\ pc'[u] = pc[u]
<1>0. pc \in [Thread -> Points] /\ DOMAIN loc = Thread
  BY Facts
<1>1. \A u \in Thread \ {t} : loc'[u] = loc[u] /\ pc'[u] = pc[u]
  BY <1>0 DEF BeginAny, CommitBegin, DiskBegin, FlushBegin, ShutdownBegin, UpdateBegin,
     SaveAttributes, QueryBegin, TruncBegin, OptBegin, Begin, Goto
<1>2. pc'[t] \in {"c_writer", "d_writer", "f_lock", "f_kill", "u_lock", "idle", "q_disk",
                  "t_writer", "o_klist"}
  BY <1>0 DEF BeginAny, CommitBegin, DiskBegin, FlushBegin, ShutdownBegin, UpdateBegin,
     SaveAttributes, QueryBegin, TruncBegin, OptBegin, Begin, Goto
<1> QED BY <1>1, <1>2 DEF Valued, Keeping, Saving, Merging

\* Steps from one point to the next where the thread has seen the same.
LEMMA StepsOnward ==
  ASSUME AliveInv, NEW t \in Thread,
         \/ CommitMergeDone(t) \/ CommitCount(t) \/ SaveMeta(t) \/ SaveLockInner(t)
         \/ OptLockWriter(t) \/ OptLockOuter(t) \/ OptRenameOld(t) \/ OptRenameNew(t)
  PROVE  Onward(t) /\ \A u \in Thread \ {t} : loc'[u] = loc[u] /\ pc'[u] = pc[u]
<1>0. pc \in [Thread -> Points] /\ DOMAIN loc = Thread /\ LocIs(loc[t])
  BY Facts
<1>1. CASE CommitMergeDone(t) \/ CommitCount(t)
  <2>1. pc[t] \in {"c_merge", "c_count"} /\ pc'[t] \in {"c_count", "c_live"}
    BY <1>0, <1>1 DEF CommitMergeDone, CommitCount, At, Goto
  <2>2. \A S \in {Keeping, Saving \ {"s_write"}, Merging \ {"o_klist", "o_merge"}, {"q_ram"},
                  {"q_done"}} : pc'[t] \in S => pc[t] \in S
    BY <2>1 DEF Keeping, Saving, Merging
  <2>3. \A u \in Thread \ {t} : loc'[u] = loc[u] /\ pc'[u] = pc[u]
    BY <1>0, <1>1 DEF CommitMergeDone, CommitCount, Goto
  <2>4. \A f \in {"adds", "kill", "keep", "fresh", "chunk", "got"} : loc'[t][f] = loc[t][f]
    BY <1>0, <1>1 DEF CommitMergeDone, CommitCount, LocIs, LocFields
  <2> QED BY <2>2, <2>3, <2>4 DEF Onward
<1>2. CASE \/ SaveMeta(t) \/ SaveLockInner(t) \/ OptLockWriter(t) \/ OptLockOuter(t)
           \/ OptRenameOld(t) \/ OptRenameNew(t)
  <2>1. /\ <<pc[t], pc'[t]>> \in
             {<<"s_meta", "s_inner">>, <<"s_inner", "s_swap">>, <<"o_writer", "o_outer">>,
              <<"o_outer", "o_old">>, <<"o_old", "o_new">>, <<"o_new", "o_swap">>}
        /\ loc' = loc /\ \A u \in Thread \ {t} : pc'[u] = pc[u]
    BY <1>0, <1>2 DEF SaveMeta, SaveLockInner, OptLockWriter, OptLockOuter, OptRenameOld,
       OptRenameNew, At, Goto
  <2>2. \A S \in {Keeping, Saving \ {"s_write"}, Merging \ {"o_klist", "o_merge"}, {"q_ram"},
                  {"q_done"}} : pc'[t] \in S => pc[t] \in S
    BY <2>1 DEF Keeping, Saving, Merging
  <2> QED BY <2>1, <2>2 DEF Onward
<1> QED BY <1>1, <1>2

\* Steps after which the thread has seen nothing.
LEMMA StepsOff ==
  ASSUME AliveInv, NEW t \in Thread, Step(t), ~ShutdownEnd(t), ~Reads(t),
         ~CommitMergeDone(t), ~CommitCount(t), ~SaveMeta(t), ~SaveLockInner(t),
         ~OptLockWriter(t), ~OptLockOuter(t), ~OptRenameOld(t), ~OptRenameNew(t)
  PROVE  pc'[t] \notin Valued /\ \A u \in Thread \ {t} : loc'[u] = loc[u] /\ pc'[u] = pc[u]
<1>0. pc \in [Thread -> Points] /\ DOMAIN loc = Thread /\ NoLoc.op = "none"
  BY Facts DEF NoLoc
<1> DEFINE Off == {"idle", "c_inner", "c_binlog", "c_mark", "c_outer", "s_write", "s_end",
                   "d_outer", "d_klist", "f_kill", "f_killed", "f_ram", "f_meta", "f_notify",
                   "f_end", "u_apply", "u_log", "t_outer", "t_meta", "t_notify", "t_ram",
                   "t_chunks", "t_mem", "o_klist", "o_merge", "o_unlink"}
           Ok == pc'[t] \in Off /\ \A u \in Thread \ {t} : loc'[u] = loc[u] /\ pc'[u] = pc[u]
<1> SUFFICES Ok
  BY DEF Valued, Keeping, Saving, Merging
<1> USE DEF At, Goto, Finish
<1>1. CASE Commit(t)
  <2>1. CASE CommitLive(t)
    <3>1. \/ pc' = [pc EXCEPT ![t] = "c_outer"] /\ UNCHANGED loc
          \/ pc' = [pc EXCEPT ![t] = "idle"] /\ loc' = [loc EXCEPT ![t] = NoLoc]
      BY <2>1, CommitLiveRows
    <3> QED BY <1>0, <3>1
  <2> QED BY <1>0, <1>1, <2>1 DEF Reads, Commit, CommitLockWriter, CommitLockInner, CommitBinlog,
          CommitDump
<1>2. CASE SaveDiskChunk(t) \/ ForceDiskChunk(t)
  BY <1>0, <1>2 DEF Reads, SaveDiskChunk, SaveSwap, SaveEnd, ForceDiskChunk, DiskLockWriter,
     DiskLockOuter, DiskKlist
<1>3. CASE ForceRamFlush(t)
  <2>1. CASE FlushLock(t) \/ FlushKillOpen(t) \/ FlushKillDone(t) \/ FlushRam(t) \/ FlushFails(t)
    BY <1>0, <2>1 DEF FlushLock, FlushKillOpen, FlushKillDone, FlushRam, FlushFails
  <2>2. CASE ShutdownFails(t) \/ FlushMeta(t) \/ FlushNotify(t) \/ FlushEnd(t)
    BY <1>0, <2>2 DEF ShutdownFails, FlushMeta, FlushNotify, FlushEnd
  <2> QED BY <1>3, <2>1, <2>2 DEF ForceRamFlush
<1>4. CASE UpdateAttributes(t)
  BY <1>0, <1>4 DEF UpdateAttributes, UpdateLock, UpdateApply, UpdateLog
<1>5. CASE MultiQuery(t)
  BY <1>0, <1>5 DEF Reads, MultiQuery, QueryEnd
<1>6. CASE Truncate(t)
  BY <1>0, <1>6 DEF Truncate, TruncLockWriter, TruncLockOuter, TruncMeta, TruncNotify, TruncRam,
     TruncChunks, TruncMem
<1>7. CASE Optimize(t)
  BY <1>0, <1>7 DEF Reads, Optimize, OptKlist, OptGiveUp, OptRenameFails, OptSwap, OptUnlink,
     NextRound, OptLeaveFiles
<1> QED BY <1>1, <1>2, <1>3, <1>4, <1>5, <1>6, <1>7 DEF Step

-----------------------------------------------------------------------------
(* The steps at which a thread takes versions from elsewhere. *)

LEMMA OthersSame ==
  ASSUME ValueInv, UNCHANGED <<segs, chunks, klist>>, NEW t \in Thread, ThreadValues(t)',
         \A u \in Thread \ {t} : loc'[u] = loc[u] /\ pc'[u] = pc[u]
  PROVE  ValueInv'
<1> SUFFICES ASSUME NEW u \in Thread \ {t} PROVE ThreadValues(u)'
  BY DEF ValueInv
<1>1. Onward(u)
  BY DEF Onward
<1> QED BY <1>1, ValuesMove DEF ValueInv

LEMMA CommitMarkRows ==
  ASSUME AliveInv, NEW t \in Thread, CommitMark(t)
  PROVE  /\ DOMAIN segs' = DOMAIN segs /\ UNCHANGED <<chunks, klist>>
         /\ \A g \in DOMAIN segs : segs'[g].row = segs[g].row /\ segs'[g].klist = segs[g].klist
         /\ \A g \in DOMAIN segs \ dbuf : segs'[g].tls
         /\ Visible' = Visible
<1>1. SegmentMap(segs)
  BY Facts
<1>2. /\ DOMAIN segs' = DOMAIN segs /\ UNCHANGED <<chunks, klist>>
      /\ \A g \in DOMAIN segs : segs'[g].row = segs[g].row /\ segs'[g].klist = segs[g].klist
      /\ \A g \in DOMAIN segs \ dbuf : segs'[g].tls
  BY <1>1 DEF CommitMark, SegmentMap, Segment, killVars, chunkVars
<1> QED BY <1>2, SameRows

LEMMA CommitMarkValues ==
  ASSUME AliveInv, ValueInv, NEW t \in Thread, CommitMark(t) PROVE ValueInv'
<1>0. /\ TypeInv /\ OneCopy /\ ThreadOK(t) /\ LocIs(loc[t]) /\ DOMAIN loc = Thread
      /\ pc \in [Thread -> Points]
  BY Facts
<1>1. pc[t] = "c_mark" /\ dbuf = {}
  <2>1. pc[t] = "c_mark"
    BY DEF CommitMark, At
  <2> QED BY <1>0, <2>1, NothingSaved DEF WriterHeld, Saving
<1>2. /\ DOMAIN segs' = DOMAIN segs /\ UNCHANGED <<chunks, klist>>
      /\ \A g \in DOMAIN segs : segs'[g].row = segs[g].row /\ segs'[g].klist = segs[g].klist
      /\ \A g \in DOMAIN segs : segs'[g].tls
      /\ Visible' = Visible
  BY <1>1, CommitMarkRows
<1>3. PICK new : new = NewTag(DOMAIN segs)
  OBVIOUS
<1>4. new \in Tag \ DOMAIN segs
  BY <1>3, NewTagType DEF CommitMark
<1> DEFINE fresh == [g \in (IF loc[t].adds = NoRows THEN {} ELSE {new}) |->
                       [row |-> loc[t].adds, klist |-> {}, tls |-> FALSE]]
<1>5. /\ loc' = [loc EXCEPT ![t].tid = tid, ![t].keep = DOMAIN segs \ dbuf, ![t].fresh = fresh]
      /\ pc' = [pc EXCEPT ![t] = "c_merge"]
  BY <1>3 DEF CommitMark, Goto
<1>6. /\ loc'[t].adds = loc[t].adds /\ loc'[t].kill = loc[t].kill
      /\ loc'[t].keep = DOMAIN segs /\ loc'[t].fresh = fresh /\ pc'[t] = "c_merge"
      /\ \A u \in Thread \ {t} : loc'[u] = loc[u] /\ pc'[u] = pc[u]
  BY <1>0, <1>1, <1>5 DEF LocIs, LocFields
<1>7. \A d : RamRows(d)' = RamRows(d) /\ DiskRows(d)' = DiskRows(d)
  BY <1>2 DEF RamRows, AliveRow, HasRow, DiskRows, LiveInChunk
<1>8. CommitValues(t)'
  <2> SUFFICES ASSUME NEW g \in DOMAIN Work(t)', NEW d \in Doc, Sees(t, g, d)'
               PROVE  Work(t)'[g].row[d] = IF d \in loc[t].kill THEN loc[t].adds[d] ELSE RamRow(d)'
    BY <1>6 DEF CommitValues
  <2>1. CASE g \in DOMAIN segs
    <3>1. Work(t)'[g] = segs'[g]
      BY <1>6, <2>1 DEF Work
    <3>2. g \in RamRows(d) /\ d \notin loc[t].kill
      BY <1>2, <1>6, <2>1, <3>1 DEF Sees, MergerSees, RamRows, AliveRow, HasRow
    <3>3. (CHOOSE h \in RamRows(d) : TRUE) = g
      <4>1. (CHOOSE h \in RamRows(d) : TRUE) \in RamRows(d)
        BY <3>2
      <4> QED BY <1>0, <3>2, <4>1 DEF OneCopy
    <3>4. RamRow(d)' = segs'[g].row[d]
      BY <1>7, <3>3 DEF RamRow
    <3> QED BY <3>1, <3>2, <3>4
  <2>2. CASE g \notin DOMAIN segs
    <3>1. Work(t)'[g] = fresh[g] /\ fresh[g].row = loc[t].adds
      BY <1>4, <1>6, <2>2 DEF Work
    <3>2. loc[t].adds[d] # NoRow
      BY <3>1 DEF Sees, MergerSees, AliveRow, HasRow
    <3>3. d \in loc[t].kill
      BY <1>0, <1>1, <3>2 DEF ThreadOK, CommitOK, CommitPending
    <3> QED BY <3>1, <3>3
  <2> QED BY <2>1, <2>2
<1>9. ThreadValues(t)'
  BY <1>6, <1>8 DEF ThreadValues, SaveValues, MergeValues, QueryValues, Saving, Merging
<1>10. FoundOnDisk' = FoundOnDisk /\ Shown' = Shown
  BY <1>2, <1>7 DEF FoundOnDisk, Shown
<1>11. \A u \in Thread \ {t} : ThreadValues(u)'
  BY <1>1, <1>2, <1>6, <1>10, OthersValued DEF ValueInv, WriterHeld
<1> QED BY <1>9, <1>11 DEF ValueInv

LEMMA CommitMergeValues ==
  ASSUME AliveInv, ValueInv, NEW t \in Thread, CommitMerge(t) PROVE ValueInv'
<1> DEFINE m(a, b) == MergeSegments(Work(t)[a], Work(t)[b], loc[t].kill)
<1>0. LocIs(loc[t]) /\ DOMAIN loc = Thread
  BY Facts
<1>1. PICK a \in DOMAIN Work(t), b \in DOMAIN Work(t),
           new \in Tag \ (DOMAIN segs \cup DOMAIN loc[t].fresh) :
           /\ Work(t)[a] \in Segment /\ Work(t)[b] \in Segment
           /\ loc'[t].keep = loc[t].keep \ {a, b}
           /\ DOMAIN loc'[t].fresh = (DOMAIN loc[t].fresh \ {a, b}) \cup {new}
           /\ loc'[t].fresh[new] = m(a, b)
           /\ \A g \in DOMAIN loc[t].fresh \ {a, b} : loc'[t].fresh[g] = loc[t].fresh[g]
           /\ DOMAIN Work(t)' = (DOMAIN Work(t) \ {a, b}) \cup {new}
           /\ Work(t)'[new] = m(a, b)
           /\ \A g \in DOMAIN Work(t) \ {a, b} : Work(t)'[g] = Work(t)[g]
  BY CommitMergeWork
<1>2. pc[t] = "c_merge" /\ pc' = pc /\ UNCHANGED <<segs, chunks, klist>>
  BY DEF CommitMerge, At, memVars, segVars, killVars, chunkVars
<1>3. /\ loc'[t].adds = loc[t].adds /\ loc'[t].kill = loc[t].kill
      /\ \A u \in Thread \ {t} : loc'[u] = loc[u]
  BY <1>0 DEF CommitMerge, LocIs, LocFields
<1> DEFINE is(d) == IF d \in loc[t].kill THEN loc[t].adds[d] ELSE RamRow(d)
<1>4. \A g \in DOMAIN Work(t), d \in Doc : Sees(t, g, d) => Work(t)[g].row[d] = is(d)
  BY <1>2 DEF ValueInv, ThreadValues, CommitValues, Keeping
<1>5. CommitValues(t)'
  <2> SUFFICES ASSUME NEW g \in DOMAIN Work(t)', NEW d \in Doc, Sees(t, g, d)'
               PROVE  Work(t)'[g].row[d] = is(d)
    <3>1. \A d : RamRow(d)' = RamRow(d)
      BY <1>2 DEF RamRow, RamRows
    <3> QED BY <1>3, <3>1 DEF CommitValues
  <2>1. CASE g = new
    <3>1. MergerSees(m(a, b), d, loc[t].kill)
      BY <1>1, <1>3, <2>1 DEF Sees, MergerSees, AliveRow, HasRow
    <3>2. Sees(t, a, d) \/ Sees(t, b, d)
      BY <1>1, <3>1, MergeShows DEF Sees
    <3>3. m(a, b).row[d] = IF Sees(t, a, d) THEN Work(t)[a].row[d] ELSE Work(t)[b].row[d]
      BY <3>2 DEF MergeSegments, Sees
    <3> HIDE DEF m, is
    <3> QED BY <1>1, <1>4, <2>1, <3>2, <3>3
  <2>2. CASE g # new
    <3>1. g \in DOMAIN Work(t) /\ Work(t)'[g] = Work(t)[g]
      BY <1>1, <2>2
    <3>2. Sees(t, g, d)
      BY <1>3, <3>1 DEF Sees, MergerSees, AliveRow, HasRow
    <3> QED BY <1>4, <3>1, <3>2
  <2> QED BY <2>1, <2>2
<1>6. ThreadValues(t)'
  BY <1>2, <1>5 DEF ThreadValues, SaveValues, MergeValues, QueryValues, Saving, Merging
<1> QED BY <1>2, <1>3, <1>6, OthersSame

LEMMA SaveWriteValues ==
  ASSUME AliveInv, ValueInv, NEW t \in Thread, SaveWrite(t) PROVE ValueInv'
<1> DEFINE row(d) == IF RamRows(d) = {} THEN NoRow
                     ELSE segs[CHOOSE g \in RamRows(d) : TRUE].row[d]
           c == [row |-> [d \in Doc |-> row(d)], klist |-> dklist]
<1>0. LocIs(loc[t]) /\ DOMAIN loc = Thread /\ pc \in [Thread -> Points]
  BY Facts
<1>1. UNCHANGED <<segs, chunks, klist>>
  BY DEF SaveWrite, memVars, segVars, killVars, chunkVars
<1>2. CASE DOMAIN segs = {}
  <2>1. /\ pc'[t] = "s_end" /\ \A u \in Thread \ {t} : loc'[u] = loc[u] /\ pc'[u] = pc[u]
    BY <1>0, <1>2 DEF SaveWrite, Goto
  <2>2. ThreadValues(t)'
    BY <2>1, NothingValued DEF Valued, Keeping, Saving, Merging
  <2> QED BY <1>1, <2>1, <2>2, OthersSame
<1>3. CASE DOMAIN segs # {}
  <2>1. pc' = [pc EXCEPT ![t] = "s_meta"] /\ loc' = [loc EXCEPT ![t].chunk = c]
    BY <1>3 DEF SaveWrite, Goto
  <2>2. \A d \in Doc : RamRows(d) # {} => c.row[d] = RamRow(d)
    BY DEF RamRow
  <2> HIDE DEF c
  <2>3. /\ loc'[t].chunk = c /\ pc'[t] = "s_meta"
        /\ \A u \in Thread \ {t} : loc'[u] = loc[u] /\ pc'[u] = pc[u]
    BY <1>0, <2>1 DEF LocIs, LocFields
  <2>4. \A d : RamRows(d)' = RamRows(d) /\ RamRow(d)' = RamRow(d)
    BY <1>1 DEF RamRow, RamRows
  <2>5. ThreadValues(t)'
    BY <2>2, <2>3, <2>4
       DEF ThreadValues, CommitValues, SaveValues, MergeValues, QueryValues, Keeping, Merging
  <2> QED BY <1>1, <2>3, <2>5, OthersSame
<1> QED BY <1>2, <1>3

LEMMA OptMergeValues ==
  ASSUME AliveInv, ValueInv, NEW t \in Thread, OptMerge(t) PROVE ValueInv'
<1> DEFINE row(d) == IF HasRow(chunks[2], d) THEN chunks[2].row[d]
                     ELSE IF d \notin loc[t].kill THEN chunks[1].row[d] ELSE NoRow
           c == [row |-> [d \in Doc |-> row(d)], klist |-> {}]
<1>0. LocIs(loc[t]) /\ DOMAIN loc = Thread /\ pc \in [Thread -> Points]
  BY Facts
<1>1. /\ UNCHANGED <<segs, chunks, klist>> /\ pc' = [pc EXCEPT ![t] = "o_writer"]
      /\ loc' = [loc EXCEPT ![t].chunk = c]
  BY DEF OptMerge, Goto, memVars, segVars, killVars, chunkVars
<1>2. \A d \in Doc : HasRow(c, d) =>
         c.row[d] = IF HasRow(chunks[2], d) THEN chunks[2].row[d] ELSE chunks[1].row[d]
  BY DEF HasRow
<1> HIDE DEF c
<1>3. /\ loc'[t].chunk = c /\ pc'[t] = "o_writer"
      /\ \A u \in Thread \ {t} : loc'[u] = loc[u] /\ pc'[u] = pc[u]
  BY <1>0, <1>1 DEF LocIs, LocFields
<1>4. ThreadValues(t)'
  BY <1>1, <1>2, <1>3
     DEF ThreadValues, CommitValues, SaveValues, MergeValues, QueryValues, Keeping, Saving, HasRow
<1> QED BY <1>1, <1>3, <1>4, OthersSame

LEMMA QueryStepValues ==
  ASSUME AliveInv, ValueInv, NEW t \in Thread, QueryDisk(t) \/ QueryRam(t) PROVE ValueInv'
<1>0. OneCopy /\ LocIs(loc[t]) /\ DOMAIN loc = Thread /\ pc \in [Thread -> Points]
  BY Facts
<1>1. /\ UNCHANGED <<segs, chunks, klist>>
      /\ \A u \in Thread \ {t} : loc'[u] = loc[u] /\ pc'[u] = pc[u]
      /\ pc'[t] \in {"q_ram", "q_done"}
  BY <1>0 DEF QueryDisk, QueryRam, Goto, memVars, segVars, killVars, chunkVars
<1>2. FoundOnDisk' = FoundOnDisk /\ Shown' = Shown
  <2>1. \A d : DiskRows(d)' = DiskRows(d)
    BY <1>1 DEF DiskRows, LiveInChunk
  <2> QED BY <1>1, <2>1, SameData DEF FoundOnDisk, Shown
<1>3. QueryValues(t)'
  <2>1. CASE QueryDisk(t)
    <3>1. loc'[t].got = FoundOnDisk /\ pc'[t] = "q_ram"
      BY <1>0, <2>1 DEF QueryDisk, Goto, FoundOnDisk, LocIs, LocFields
    <3> QED BY <1>2, <3>1 DEF QueryValues
  <2>2. CASE QueryRam(t)
    <3>1. loc'[t].got = loc[t].got \cup FoundInRam /\ pc[t] = "q_ram" /\ pc'[t] = "q_done"
      BY <1>0, <2>2 DEF QueryRam, At, Goto, FoundInRam, LocIs, LocFields
    <3>2. loc[t].got = FoundOnDisk
      BY <3>1 DEF ValueInv, ThreadValues, QueryValues
    <3> QED BY <1>0, <1>2, <3>1, <3>2, TogetherAll DEF QueryValues
  <2> QED BY <2>1, <2>2
<1>4. ThreadValues(t)'
  BY <1>1, <1>3 DEF ThreadValues, CommitValues, SaveValues, MergeValues, Keeping, Saving, Merging
<1> QED BY <1>1, <1>4, OthersSame

-----------------------------------------------------------------------------
(* The steps at which data change, and what a query finds after them. *)

LEMMA VisibleIsNext ==
  ASSUME OneCopy', NEW d \in Doc
  PROVE  /\ \A g \in RamRows(d)' : Visible'[d] = segs'[g].row[d]
         /\ \A i \in DiskRows(d)' : RamRows(d)' = {} /\ Visible'[d] = chunks'[i].row[d]
         /\ RamRows(d)' = {} /\ DiskRows(d)' = {} => Visible'[d] = NoRow
<1>1. ASSUME NEW g \in RamRows(d)' PROVE Visible'[d] = segs'[g].row[d]
  <2>1. (CHOOSE h \in RamRows(d)' : TRUE) \in RamRows(d)'
    BY <1>1
  <2>2. (CHOOSE h \in RamRows(d)' : TRUE) = g
    BY <1>1, <2>1 DEF OneCopy
  <2> QED BY <1>1, <2>2 DEF Visible
<1>2. ASSUME NEW i \in DiskRows(d)' PROVE RamRows(d)' = {} /\ Visible'[d] = chunks'[i].row[d]
  <2>1. RamRows(d)' = {}
    BY <1>2 DEF OneCopy, DiskRows
  <2>2. (CHOOSE j \in DiskRows(d)' : TRUE) \in DiskRows(d)'
    BY <1>2
  <2>3. (CHOOSE j \in DiskRows(d)' : TRUE) = i
    BY <1>2, <2>2 DEF OneCopy, DiskRows
  <2> QED BY <1>2, <2>1, <2>3 DEF Visible
<1> QED BY <1>1, <1>2 DEF Visible

LEMMA CommitLiveShows ==
  ASSUME AliveInv, AliveInv', ValueInv, NEW t \in Thread, CommitLive(t), NEW d \in Doc
  PROVE  Visible'[d] = IF loc[t].adds[d] # NoRow THEN loc[t].adds[d]
                       ELSE IF d \in loc[t].kill THEN NoRow ELSE Visible[d]
<1>0. OneCopy /\ OneCopy' /\ ThreadOK(t)
  BY DEF AliveInv
<1>1. /\ pc[t] = "c_live" /\ klist' = klist \cup loc[t].live /\ UNCHANGED chunks
  BY CommitLiveRows
<1>2. /\ \A g : g \in RamRows(d)' <=> g \in DOMAIN Work(t) /\ Sees(t, g, d)
      /\ \A g : g \in RamRows(d)' => segs'[g].row = Work(t)[g].row
  BY CommitLiveRows
<1>3. RamRows(d)' # {} <=> Stays(t, d)
  BY CommitLiveRows
<1>4. \A g \in RamRows(d)' :
         segs'[g].row[d] = IF d \in loc[t].kill THEN loc[t].adds[d] ELSE RamRow(d)
  BY <1>1, <1>2 DEF ValueInv, ThreadValues, CommitValues, Keeping
<1>5. \A i : LiveInChunk(i, d)' <=> LiveInChunk(i, d)
  BY <1>1 DEF LiveInChunk
<1>6. /\ loc[t].adds[d] # NoRow => d \in loc[t].kill
      /\ d \in loc[t].kill => \A i \in DOMAIN chunks : LiveInChunk(i, d) => d \in klist'
      /\ d \notin loc[t].kill => d \notin loc[t].live
  BY <1>0, <1>1 DEF ThreadOK, CommitOK, CommitPending
<1>7. CASE d \in loc[t].kill
  <2>1. CASE loc[t].adds[d] # NoRow
    <3>1. PICK g : g \in RamRows(d)'
      BY <1>3, <1>7, <2>1 DEF Stays
    <3>2. Visible'[d] = segs'[g].row[d]
      BY <1>0, <3>1, VisibleIsNext
    <3> QED BY <1>4, <1>7, <2>1, <3>1, <3>2
  <2>2. CASE loc[t].adds[d] = NoRow
    <3>1. RamRows(d)' = {}
      BY <1>3, <1>7, <2>2 DEF Stays
    <3>2. DiskRows(d)' = {}
      BY <1>1, <1>5, <1>6, <1>7 DEF DiskRows
    <3> QED BY <1>0, <1>7, <2>2, <3>1, <3>2, VisibleIsNext
  <2> QED BY <2>1, <2>2
<1>8. CASE d \notin loc[t].kill
  <2>1. CASE RamRows(d) # {}
    <3>1. PICK h : h \in RamRows(d)
      BY <2>1
    <3>2. Visible[d] = RamRow(d)
      BY <1>0, <3>1, VisibleIs
    <3>3. PICK g : g \in RamRows(d)'
      BY <1>3, <1>8, <2>1 DEF Stays
    <3>4. Visible'[d] = segs'[g].row[d]
      BY <1>0, <3>3, VisibleIsNext
    <3> QED BY <1>4, <1>6, <1>8, <3>2, <3>3, <3>4
  <2>2. CASE RamRows(d) = {}
    <3>1. RamRows(d)' = {}
      BY <1>3, <1>8, <2>2 DEF Stays
    <3>2. DiskRows(d)' = DiskRows(d)
      BY <1>1, <1>5, <1>6, <1>8 DEF DiskRows
    <3>3. CASE DiskRows(d) = {}
      BY <1>0, <1>6, <1>8, <2>2, <3>1, <3>2, <3>3, VisibleIs, VisibleIsNext
    <3>4. CASE DiskRows(d) # {}
      <4>1. PICK i : i \in DiskRows(d)
        BY <3>4
      <4>2. Visible[d] = chunks[i].row[d] /\ Visible'[d] = chunks'[i].row[d]
        BY <1>0, <3>2, <4>1, VisibleIs, VisibleIsNext
      <4> QED BY <1>1, <1>6, <1>8, <4>2
    <3> QED BY <3>3, <3>4
  <2> QED BY <2>1, <2>2
<1> QED BY <1>7, <1>8

LEMMA SaveSwapShows ==
  ASSUME AliveInv, AliveInv', ValueInv, NEW t \in Thread, SaveSwap(t) PROVE Visible' = Visible
<1>a. PICK n : n = Len(chunks)
  OBVIOUS
<1>0. OneCopy /\ OneCopy'
  BY DEF AliveInv
<1>1. /\ pc[t] = "s_swap" /\ DOMAIN chunks = 1..n /\ n \in Nat /\ klist' = {}
      /\ \A d : RamRows(d)' = {}
      /\ DOMAIN chunks' = 1..(n + 1)
      /\ chunks'[n + 1] = loc[t].chunk /\ \A i \in 1..n : chunks'[i] = chunks[i]
  BY <1>a, SaveSwapChunks
<1>2. \A d \in Doc, i \in 1..n : LiveInChunk(i, d)' <=> LiveInChunk(i, d) /\ d \notin klist
  BY <1>a, SaveSwapChunks
<1>3. \A d \in Doc : LiveInChunk(n + 1, d)' <=> RamRows(d) # {}
  BY <1>a, SaveSwapChunks
<1>4. \A i : i \in 1..(n + 1) <=> i \in 1..n \/ i = n + 1
  BY <1>1
<1>5. ASSUME NEW d \in Doc PROVE Visible'[d] = Visible[d]
  <2>0. DiskRows(d)' = {i \in 1..(n + 1) : LiveInChunk(i, d)'}
    BY <1>1 DEF DiskRows
  <2>1. CASE RamRows(d) # {}
    <3>1. PICK g : g \in RamRows(d)
      BY <2>1
    <3>2. Visible[d] = RamRow(d)
      BY <1>0, <3>1, VisibleIs
    <3>3. n + 1 \in DiskRows(d)'
      BY <1>3, <1>4, <2>0, <2>1
    <3>4. Visible'[d] = chunks'[n + 1].row[d]
      BY <1>0, <3>3, VisibleIsNext
    <3>5. loc[t].chunk.row[d] = RamRow(d)
      BY <1>1, <2>1 DEF ValueInv, ThreadValues, SaveValues, Saving
    <3> QED BY <1>1, <3>2, <3>4, <3>5
  <2>2. CASE RamRows(d) = {}
    <3>1. DiskRows(d) = {i \in 1..n : LiveInChunk(i, d) /\ d \notin klist}
      BY <1>1 DEF DiskRows
    <3>2. DiskRows(d)' = DiskRows(d)
      BY <1>2, <1>3, <1>4, <2>0, <2>2, <3>1
    <3>3. CASE DiskRows(d) = {}
      BY <1>0, <1>1, <2>2, <3>2, <3>3, VisibleIs, VisibleIsNext
    <3>4. CASE DiskRows(d) # {}
      <4>1. PICK i : i \in DiskRows(d)
        BY <3>4
      <4>2. Visible[d] = chunks[i].row[d] /\ Visible'[d] = chunks'[i].row[d]
        BY <1>0, <3>2, <4>1, VisibleIs, VisibleIsNext
      <4> QED BY <1>1, <3>1, <4>1, <4>2
    <3> QED BY <3>3, <3>4
  <2> QED BY <2>1, <2>2
<1> QED BY <1>5 DEF Visible

LEMMA TruncMemShows ==
  ASSUME NEW t \in Thread, TruncMem(t)
  PROVE  /\ Visible' = NoRows /\ pc[t] = "t_mem" /\ Finish(t)
<1>1. pc[t] = "t_mem" /\ Finish(t) /\ chunks' = <<>> /\ segs' = NoSegs
  BY DEF TruncMem, At
<1>2. \A d : RamRows(d)' = {} /\ DiskRows(d)' = {}
  BY <1>1 DEF RamRows, DiskRows, NoSegs
<1> QED BY <1>1, <1>2 DEF Visible, NoRows

LEMMA OptSwapShows ==
  ASSUME AliveInv, AliveInv', ValueInv, NEW t \in Thread, OptSwap(t) PROVE Visible' = Visible
<1>a. PICK n : n = Len(chunks)
  OBVIOUS
<1>0. OneCopy /\ OneCopy'
  BY DEF AliveInv
<1>1. /\ pc[t] = "o_swap" /\ UNCHANGED <<segs, klist>>
      /\ n \in Nat /\ n >= 2 /\ DOMAIN chunks = 1..n
      /\ DOMAIN chunks' = 1..(n - 1) /\ chunks'[1] = loc[t].chunk
      /\ \A i \in 2..(n - 1) : chunks'[i] = chunks[i + 1]
  BY <1>a, OptSwapChunks
<1>2. \A d \in Doc, i \in 2..(n - 1) : LiveInChunk(i, d)' <=> LiveInChunk(i + 1, d)
  BY <1>a, OptSwapChunks
<1>3. /\ \A d \in Doc : LiveInChunk(1, d)' => \E i \in {1, 2} : LiveInChunk(i, d)
      /\ \A d \in Doc : \A i \in {1, 2} : LiveInChunk(i, d) /\ d \notin klist => LiveInChunk(1, d)'
  BY <1>a, OptSwapChunks
<1>4. \A d : RamRows(d)' = RamRows(d)
  BY <1>1 DEF RamRows
<1>5. ASSUME NEW d \in Doc PROVE Visible'[d] = Visible[d]
  <2>0. /\ DiskRows(d)' = {i \in 1..(n - 1) : LiveInChunk(i, d)' /\ d \notin klist}
        /\ DiskRows(d) = {i \in 1..n : LiveInChunk(i, d) /\ d \notin klist}
    BY <1>1 DEF DiskRows
  <2>1. CASE RamRows(d) # {}
    <3>1. PICK g : g \in RamRows(d)
      BY <2>1
    <3> QED BY <1>0, <1>1, <1>4, <3>1, VisibleIs, VisibleIsNext
  <2>2. CASE RamRows(d) = {} /\ DiskRows(d) = {}
    <3>1. DiskRows(d)' = {}
      <4> SUFFICES ASSUME NEW i \in DiskRows(d)' PROVE DiskRows(d) # {}
        BY <2>2
      <4>1. CASE i = 1
        <5>1. PICK j \in {1, 2} : LiveInChunk(j, d)
          BY <1>3, <2>0, <4>1
        <5>2. j \in 1..n
          BY <1>1
        <5> QED BY <2>0, <5>1, <5>2
      <4>2. CASE i # 1
        <5>1. i \in 2..(n - 1) /\ i + 1 \in 1..n
          BY <1>1, <2>0, <4>2
        <5> QED BY <1>2, <2>0, <5>1
      <4> QED BY <4>1, <4>2
    <3> QED BY <1>0, <1>4, <2>2, <3>1, VisibleIs, VisibleIsNext
  <2>3. CASE DiskRows(d) # {}
    <3>1. PICK i : i \in DiskRows(d)
      BY <2>3
    <3>2. i \in 1..n /\ LiveInChunk(i, d) /\ d \notin klist /\ Visible[d] = chunks[i].row[d]
      BY <1>0, <2>0, <3>1, VisibleIs
    <3>3. CASE i \in {1, 2}
      <4>1. LiveInChunk(1, d)' /\ 1 \in 1..(n - 1)
        BY <1>1, <1>3, <3>2, <3>3
      <4>2. Visible'[d] = loc[t].chunk.row[d]
        BY <1>0, <1>1, <2>0, <3>2, <4>1, VisibleIsNext
      <4>3. HasRow(loc[t].chunk, d)
        BY <1>1, <4>1 DEF LiveInChunk, HasRow
      <4>4. loc[t].chunk.row[d] = IF HasRow(chunks[2], d) THEN chunks[2].row[d] ELSE chunks[1].row[d]
        BY <1>1, <4>3 DEF ValueInv, ThreadValues, MergeValues, Merging
      <4>5. CASE i = 2
        <5>1. HasRow(chunks[2], d)
          BY <3>2, <4>5 DEF LiveInChunk
        <5> QED BY <3>2, <4>2, <4>4, <4>5, <5>1
      <4>6. CASE i = 1
        <5>1. ~HasRow(chunks[2], d)
          <6>1. SUFFICES ASSUME HasRow(chunks[2], d) PROVE FALSE
            OBVIOUS
          <6>2. (2 + 1)..Len(chunks) \subseteq (1 + 1)..Len(chunks)
            BY <1>a, <1>1
          <6>3. LiveInChunk(2, d)
            BY <3>2, <4>6, <6>1, <6>2 DEF LiveInChunk
          <6>4. 1 \in DOMAIN chunks /\ 2 \in DOMAIN chunks
            BY <1>1
          <6> QED BY <1>0, <3>2, <4>6, <6>3, <6>4 DEF OneCopy
        <5> QED BY <3>2, <4>2, <4>4, <4>6, <5>1
      <4> QED BY <3>3, <4>5, <4>6
    <3>4. CASE i \notin {1, 2}
      <4>1. PICK j : j = i - 1
        OBVIOUS
      <4>2. j \in 2..(n - 1) /\ j + 1 = i /\ j \in 1..(n - 1)
        BY <1>1, <3>2, <3>4, <4>1
      <4>3. j \in DiskRows(d)' /\ chunks'[j] = chunks[i]
        BY <1>1, <1>2, <2>0, <3>2, <4>2
      <4> QED BY <1>0, <3>2, <4>3, VisibleIsNext
    <3> QED BY <3>3, <3>4
  <2> QED BY <2>1, <2>2, <2>3
<1> QED BY <1>5 DEF Visible

LEMMA CommitLiveValues ==
  ASSUME AliveInv, ValueInv, NEW t \in Thread, CommitLive(t) PROVE ValueInv'
<1>0. Locking /\ pc \in [Thread -> Points] /\ DOMAIN loc = Thread
  BY Facts
<1>1. readers = {}
  BY Zenon DEF CommitLive, CanWriteLock
<1>2. /\ pc[t] = "c_live" /\ UNCHANGED chunks
      /\ \/ pc' = [pc EXCEPT ![t] = "c_outer"] /\ UNCHANGED loc
         \/ pc' = [pc EXCEPT ![t] = "idle"] /\ loc' = [loc EXCEPT ![t] = NoLoc]
  BY CommitLiveRows
<1>3. /\ \A u \in Thread \ {t} : loc'[u] = loc[u] /\ pc'[u] = pc[u]
      /\ pc'[t] = "c_outer" \/ pc'[t] = "idle"
  BY <1>0, <1>2
<1>4. ThreadValues(t)'
  BY <1>3, NothingValued DEF Valued, Keeping, Saving, Merging
<1>5. \A u \in Thread : pc[u] \notin {"q_ram", "q_done"}
  BY <1>0, <1>1 DEF Locking, ReadHeld
<1>6. pc[t] \in WriterHeld
  BY <1>2 DEF WriterHeld
<1> QED BY <1>2, <1>3, <1>4, <1>5, <1>6, OthersValued DEF ValueInv

LEMMA SaveSwapValues ==
  ASSUME AliveInv, ValueInv, NEW t \in Thread, SaveSwap(t) PROVE ValueInv'
<1>a. PICK n : n = Len(chunks)
  OBVIOUS
<1>0. TypeInv /\ Locking /\ pc \in [Thread -> Points] /\ DOMAIN loc = Thread
  BY Facts
<1>1. readers = {}
  BY DEF SaveSwap, CanWriteLock
<1>2. /\ pc[t] = "s_swap" /\ pc' = [pc EXCEPT ![t] = "s_end"] /\ UNCHANGED loc
      /\ n \in Nat /\ \A i \in 1..n : chunks'[i] = chunks[i]
  BY <1>a, SaveSwapChunks
<1>3. pc'[t] = "s_end" /\ \A u \in Thread \ {t} : loc'[u] = loc[u] /\ pc'[u] = pc[u]
  BY <1>0, <1>2
<1>4. ThreadValues(t)'
  BY <1>3, NothingValued DEF Valued, Keeping, Saving, Merging
<1>5. \A u \in Thread : pc[u] \notin {"q_ram", "q_done"}
  BY <1>0, <1>1 DEF Locking, ReadHeld
<1>6. \A u \in Thread : pc[u] \in Merging => chunks'[1] = chunks[1] /\ chunks'[2] = chunks[2]
  <2> SUFFICES ASSUME NEW u \in Thread, pc[u] \in Merging
               PROVE  chunks'[1] = chunks[1] /\ chunks'[2] = chunks[2]
    OBVIOUS
  <2>1. n >= 2
    BY <1>a, <1>0 DEF TypeInv, TwoChunks, Merging
  <2> QED BY <1>2, <2>1
<1>7. pc[t] \in WriterHeld
  BY <1>2 DEF WriterHeld
<1> QED BY <1>3, <1>4, <1>5, <1>6, <1>7, OthersValued DEF ValueInv

LEMMA EmptySwapValues ==
  ASSUME AliveInv, ValueInv, NEW t \in Thread, TruncMem(t) \/ OptSwap(t) PROVE ValueInv'
<1>0. TypeInv /\ Locking /\ pc \in [Thread -> Points] /\ DOMAIN loc = Thread
  BY Facts
<1>1. /\ pc[t] \in {"t_mem", "o_swap"} /\ pc'[t] \in {"idle", "o_unlink"}
      /\ \A u \in Thread \ {t} : loc'[u] = loc[u] /\ pc'[u] = pc[u]
  BY <1>0 DEF TruncMem, OptSwap, At, Finish, Goto
<1>2. ThreadValues(t)'
  BY <1>1, NothingValued DEF Valued, Keeping, Saving, Merging
<1>3. excl = t
  BY <1>0, <1>1 DEF Locking, ExclHeld
<1>4. readers = {}
  BY <1>0, <1>3, NoThreadAssumption DEF Locking
<1>5. \A u \in Thread : pc[u] \notin {"q_ram", "q_done"}
  BY <1>0, <1>4 DEF Locking, ReadHeld
<1>6. \A u \in Thread \ {t} : pc[u] \notin Merging
  BY <1>0, <1>1 DEF TypeInv, LockInv, ControlOK, OpAt, OpsExclude, Merging
<1>7. pc[t] \in WriterHeld
  BY <1>1 DEF WriterHeld
<1> QED BY <1>1, <1>2, <1>5, <1>6, <1>7, OthersValued DEF ValueInv

\* Nobody is in an operation the workload does not use.
NobodyUpdates == \A t \in Thread : loc[t].op # "update"

LEMMA NobodyIn == ASSUME OneRun, NoUpdates, AliveInv PROVE NobodyUpdates
BY DEF NoUpdates, NobodyUpdates, AliveInv, Running

LEMMA NoUpdate ==
  ASSUME NobodyUpdates, TypeInv, NEW t \in Thread
  PROVE  pc[t] \notin UpdatePending \cup {"u_log"} /\ ~UpdateAttributes(t)
<1>1. loc[t].op # "update" /\ OpAt(pc[t], loc[t].op)
  BY DEF NobodyUpdates, TypeInv, LockInv, ControlOK
<1>2. pc[t] \notin {"u_lock", "u_apply", "u_log"}
  BY <1>1 DEF OpAt
<1> QED BY <1>2 DEF UpdatePending, UpdateAttributes, UpdateLock, UpdateApply, UpdateLog, At

\* What a step that is none of those leaves alone.
LEMMA QuietData ==
  ASSUME NobodyUpdates, TypeInv, NEW t \in Thread, Step(t), ~ShutdownEnd(t), ~Reads(t),
         ~CommitLive(t), ~SaveSwap(t), ~TruncMem(t), ~OptSwap(t)
  PROVE  UNCHANGED <<segs, chunks, klist>>
<1> USE DEF memVars, segVars, killVars, chunkVars, Reads
<1>1. CASE Commit(t)
  BY <1>1 DEF Commit, CommitLockWriter, CommitLockInner, CommitBinlog, CommitMergeDone,
     CommitCount, CommitDump
<1>2. CASE SaveDiskChunk(t) \/ ForceDiskChunk(t)
  BY <1>2 DEF SaveDiskChunk, SaveMeta, SaveLockInner, SaveEnd, ForceDiskChunk,
     DiskLockWriter, DiskLockOuter, DiskKlist
<1>3. CASE ForceRamFlush(t) \/ MultiQuery(t)
  BY <1>3 DEF ForceRamFlush, FlushLock, FlushKillOpen, FlushKillDone, FlushRam, FlushFails,
     ShutdownFails, FlushMeta, FlushNotify, FlushEnd, MultiQuery, QueryEnd
<1>4. CASE Truncate(t)
  BY <1>4 DEF Truncate, TruncLockWriter, TruncLockOuter, TruncMeta, TruncNotify, TruncRam,
     TruncChunks
<1>5. CASE Optimize(t)
  BY <1>5 DEF Optimize, OptKlist, OptGiveUp, OptLockWriter, OptLockOuter, OptRenameOld,
     OptRenameFails, OptRenameNew, OptUnlink, OptLeaveFiles
<1> QED BY <1>1, <1>2, <1>3, <1>4, <1>5, NoUpdate DEF Step

\* No thread's step touches what another one has seen.
LEMMA ValuesGoOn ==
  ASSUME NobodyUpdates, AliveInv, ValueInv, [Next]_vars,
         ~Restart, ~ReplayCommit, ~ReplayUpdateAttributes
  PROVE  ValueInv'
<1>1. ASSUME NEW t \in Thread, BeginAny(t) PROVE ValueInv'
  <2>1. pc'[t] \notin Valued /\ \A u \in Thread \ {t} : loc'[u] = loc[u] /\ pc'[u] = pc[u]
    BY <1>1, BeginMoves
  <2>2. UNCHANGED <<segs, chunks, klist>>
    BY <1>1 DEF BeginAny, CommitBegin, DiskBegin, FlushBegin, ShutdownBegin, UpdateBegin,
       SaveAttributes, QueryBegin, TruncBegin, OptBegin, memVars, segVars, killVars, chunkVars
  <2> QED BY <2>1, <2>2, NothingValued, OthersSame
<1>2. ASSUME NEW t \in Thread, Step(t), ~ShutdownEnd(t) PROVE ValueInv'
  <2>2. CASE Reads(t)
    BY <2>2, CommitMarkValues, CommitMergeValues, SaveWriteValues, OptMergeValues,
       QueryStepValues DEF Reads
  <2>3. CASE CommitLive(t) \/ SaveSwap(t) \/ TruncMem(t) \/ OptSwap(t)
    BY <2>3, CommitLiveValues, SaveSwapValues, EmptySwapValues
  <2> DEFINE On == \/ CommitMergeDone(t) \/ CommitCount(t) \/ SaveMeta(t) \/ SaveLockInner(t)
                   \/ OptLockWriter(t) \/ OptLockOuter(t) \/ OptRenameOld(t) \/ OptRenameNew(t)
  <2>4. CASE On
    <3>1. Onward(t) /\ \A u \in Thread \ {t} : loc'[u] = loc[u] /\ pc'[u] = pc[u]
      BY <2>4, StepsOnward
    <3>2. UNCHANGED <<segs, chunks, klist>>
      BY <2>4 DEF CommitMergeDone, CommitCount, SaveMeta, SaveLockInner, OptLockWriter,
         OptLockOuter, OptRenameOld, OptRenameNew, memVars, segVars, killVars, chunkVars
    <3> QED BY <3>1, <3>2, ValuesMove, OthersSame DEF ValueInv
  <2>5. CASE ~Reads(t) /\ ~On /\ ~(CommitLive(t) \/ SaveSwap(t) \/ TruncMem(t) \/ OptSwap(t))
    <3>1. pc'[t] \notin Valued /\ \A u \in Thread \ {t} : loc'[u] = loc[u] /\ pc'[u] = pc[u]
      BY <1>2, <2>5, StepsOff
    <3>2. UNCHANGED <<segs, chunks, klist>>
      BY <1>2, <2>5, QuietData DEF AliveInv
    <3> QED BY <3>1, <3>2, NothingValued, OthersSame
  <2> QED BY <2>2, <2>3, <2>4, <2>5
<1>3. CASE UNCHANGED vars \/ ReplayDone
  <2>1. PICK t \in Thread : TRUE
    BY ThreadAssumption
  <2>2. UNCHANGED <<segs, chunks, klist, pc, loc>>
    BY <1>3 DEF vars, ReplayDone, memVars, segVars, killVars, chunkVars
  <2>3. Onward(t)
    BY <2>2 DEF Onward
  <2> QED BY <2>2, <2>3, ValuesMove, OthersSame DEF ValueInv
<1>4. CASE Stop
  <2> SUFFICES ASSUME NEW t \in Thread PROVE ThreadValues(t)'
    BY DEF ValueInv
  <2>1. pc'[t] \notin Valued
    BY <1>4 DEF Stop, Valued, Keeping, Saving, Merging
  <2> QED BY <2>1, NothingValued
<1> QED BY <1>1, <1>2, <1>3, <1>4 DEF Next, Crash, ShutdownEnd, Recovery

LEMMA ValueKept ==
  ASSUME OneRun, NoUpdates, AliveInv, ValueInv, [Next]_vars PROVE ValueInv'
BY NobodyIn, NoStop, ValuesGoOn DEF Recovery

LEMMA InitValues == Init => ValueInv
BY DEF Init, ValueInv, ThreadValues, CommitValues, SaveValues, MergeValues, QueryValues,
   Keeping, Saving, Merging

LEMMA ValuesHold ==
  ASSUME OneRun, NoUpdates PROVE Spec => [](AliveInv /\ ValueInv)
<1>1. Init => AliveInv /\ ValueInv
  BY InitAlive, InitValues
<1>2. AliveInv /\ ValueInv /\ [Next]_vars => AliveInv' /\ ValueInv'
  BY AliveKept, ValueKept
<1> QED BY <1>1, <1>2, PTL DEF Spec

\* A chunk goes online with exactly the versions that are in RAM then and with the whole
\* kill-list, although SaveDiskChunk took both earlier and has had no lock on the
\* segments since.
THEOREM ChunksComplete == ASSUME OneRun, NoUpdates PROVE Spec => []SavedChunkComplete
<1>1. AliveInv /\ ValueInv => SavedChunkComplete
  <2> SUFFICES ASSUME AliveInv, ValueInv, NEW t \in Thread, At(t, "s_swap")
               PROVE  /\ loc[t].chunk.klist = klist
                      /\ \A d \in Doc : loc[t].chunk.row[d] =
                            IF RamRows(d) = {} THEN NoRow ELSE RamRow(d)
    BY DEF SavedChunkComplete, RamRow
  <2>1. pc[t] \in Saving \ {"s_write"}
    BY DEF At, Saving
  <2>2. /\ loc[t].chunk.klist = klist
        /\ \A d \in Doc : HasRow(loc[t].chunk, d) <=> RamRows(d) # {}
    BY <2>1 DEF AliveInv, ThreadOK, SaveOK
  <2>3. \A d \in Doc : RamRows(d) # {} => loc[t].chunk.row[d] = RamRow(d)
    BY <2>1 DEF ValueInv, ThreadValues, SaveValues
  <2> QED BY <2>2, <2>3 DEF HasRow
<1> QED BY <1>1, ValuesHold, PTL

\* A query has found every document there is, once and in its present version, whatever
\* commits, saves and chunk merges move between the chunks and the segments while it
\* scans the one and then the other (MultiQuery).
THEOREM QueriesSeeAll == ASSUME OneRun, NoUpdates PROVE Spec => []SnapshotRead
<1>1. AliveInv /\ ValueInv => SnapshotRead
  BY DEF SnapshotRead, At, ValueInv, ThreadValues, QueryValues, Shown
<1> QED BY <1>1, ValuesHold, PTL

-----------------------------------------------------------------------------
(* The index implements the abstract store. *)

NoRequest == [adds |-> NoRows, kill |-> {}, update |-> FALSE]

LEMMA PendingParts ==
  ASSUME NEW t \in Thread
  PROVE  /\ pc[t] \notin CommitPending /\ loc[t].op # "truncate" => PendingKill(t) = {}
         /\ pc[t] \notin CommitPending /\ loc[t].op = "truncate" => PendingKill(t) = Doc
         /\ pc[t] \in CommitPending /\ loc[t].op # "truncate" => PendingKill(t) = loc[t].kill
BY DEF PendingKill

LEMMA PendingPartsNext ==
  ASSUME NEW t \in Thread
  PROVE  /\ pc'[t] \notin CommitPending /\ loc'[t].op # "truncate" => PendingKill(t)' = {}
         /\ pc'[t] \notin CommitPending /\ loc'[t].op = "truncate" => PendingKill(t)' = Doc
         /\ pc'[t] \in CommitPending /\ loc'[t].op # "truncate" => PendingKill(t)' = loc'[t].kill
BY DEF PendingKill

LEMMA PendingNow ==
  ASSUME NEW t \in Thread, pc[t] \notin UpdatePending
  PROVE  Pending(t) = [adds |-> PendingAdds(t), kill |-> PendingKill(t), update |-> FALSE]
<1>0. (pc[t] \in UpdatePending) = FALSE
  BY SMT
<1> DEFINE upd == pc[t] \in UpdatePending
<1>1. upd = FALSE
  BY <1>0, Zenon
<1>2. Pending(t) = [adds |-> PendingAdds(t), kill |-> PendingKill(t), update |-> upd]
  BY Zenon DEF Pending
<1> HIDE DEF upd
<1> QED BY <1>1, <1>2

LEMMA PendingNext ==
  ASSUME NEW t \in Thread, pc'[t] \notin UpdatePending
  PROVE  Pending(t)' = [adds |-> PendingAdds(t)', kill |-> PendingKill(t)', update |-> FALSE]
<1>0. (pc'[t] \in UpdatePending) = FALSE
  BY SMT
<1> DEFINE upd == pc'[t] \in UpdatePending
<1>1. upd = FALSE
  BY <1>0, Zenon
<1>2. Pending(t)' = [adds |-> PendingAdds(t)', kill |-> PendingKill(t)', update |-> upd]
  BY Zenon DEF Pending
<1> HIDE DEF upd
<1> QED BY <1>1, <1>2

LEMMA NotPending ==
  ASSUME NEW t \in Thread
  PROVE  /\ pc[t] \notin CommitPending \cup UpdatePending /\ loc[t].op # "truncate"
              => Pending(t) = NoRequest
         /\ pc'[t] \notin CommitPending \cup UpdatePending /\ loc'[t].op # "truncate"
              => Pending(t)' = NoRequest
<1>1. ASSUME pc[t] \notin CommitPending \cup UpdatePending, loc[t].op # "truncate"
      PROVE  Pending(t) = NoRequest
  <2>1. PendingKill(t) = {} /\ PendingAdds(t) = NoRows
    BY <1>1, PendingParts DEF PendingAdds
  <2> QED BY <1>1, <2>1, PendingNow DEF NoRequest
<1>2. ASSUME pc'[t] \notin CommitPending \cup UpdatePending, loc'[t].op # "truncate"
      PROVE  Pending(t)' = NoRequest
  <2>1. PendingKill(t)' = {} /\ PendingAdds(t)' = NoRows
    BY <1>2, PendingPartsNext DEF PendingAdds
  <2> QED BY <1>2, <2>1, PendingNext DEF NoRequest
<1> QED BY <1>1, <1>2, Zenon

\* A commit's request is what it has accumulated.
LEMMA CommitIsPending ==
  ASSUME NEW t \in Thread
  PROVE  /\ pc[t] \in CommitPending /\ loc[t].op # "truncate"
              => Pending(t) = [adds |-> loc[t].adds, kill |-> loc[t].kill, update |-> FALSE]
         /\ pc'[t] \in CommitPending /\ loc'[t].op # "truncate"
              => Pending(t)' = [adds |-> loc'[t].adds, kill |-> loc'[t].kill, update |-> FALSE]
<1>0. ASSUME NEW l \in CommitPending PROVE l \notin UpdatePending
  BY <1>0 DEF CommitPending, UpdatePending
<1>1. ASSUME pc[t] \in CommitPending, loc[t].op # "truncate"
      PROVE  Pending(t) = [adds |-> loc[t].adds, kill |-> loc[t].kill, update |-> FALSE]
  <2>1. PendingKill(t) = loc[t].kill /\ PendingAdds(t) = loc[t].adds
    BY <1>1, PendingParts DEF PendingAdds
  <2> QED BY <1>0, <1>1, <2>1, PendingNow
<1>2. ASSUME pc'[t] \in CommitPending, loc'[t].op # "truncate"
      PROVE  Pending(t)' = [adds |-> loc'[t].adds, kill |-> loc'[t].kill, update |-> FALSE]
  <2>1. PendingKill(t)' = loc'[t].kill /\ PendingAdds(t)' = loc'[t].adds
    BY <1>2, PendingPartsNext DEF PendingAdds
  <2> QED BY <1>0, <1>2, <2>1, PendingNext
<1> QED BY <1>1, <1>2, Zenon

\* TRUNCATE kills all.
LEMMA TruncIsPending ==
  ASSUME NEW t \in Thread
  PROVE  /\ pc[t] \notin CommitPending \cup UpdatePending /\ loc[t].op = "truncate"
              => Pending(t) = [adds |-> NoRows, kill |-> Doc, update |-> FALSE]
         /\ pc'[t] \notin CommitPending \cup UpdatePending /\ loc'[t].op = "truncate"
              => Pending(t)' = [adds |-> NoRows, kill |-> Doc, update |-> FALSE]
<1>1. ASSUME pc[t] \notin CommitPending \cup UpdatePending, loc[t].op = "truncate"
      PROVE  Pending(t) = [adds |-> NoRows, kill |-> Doc, update |-> FALSE]
  <2>1. PendingKill(t) = Doc /\ PendingAdds(t) = NoRows
    BY <1>1, PendingParts DEF PendingAdds
  <2> QED BY <1>1, <2>1, PendingNow
<1>2. ASSUME pc'[t] \notin CommitPending \cup UpdatePending, loc'[t].op = "truncate"
      PROVE  Pending(t)' = [adds |-> NoRows, kill |-> Doc, update |-> FALSE]
  <2>1. PendingKill(t)' = Doc /\ PendingAdds(t)' = NoRows
    BY <1>2, PendingPartsNext DEF PendingAdds
  <2> QED BY <1>2, <2>1, PendingNext
<1> QED BY <1>1, <1>2, Zenon

LEMMA OnlyOneMoves ==
  ASSUME AliveInv, NEW t \in Thread, BeginAny(t) \/ (Step(t) /\ ~ShutdownEnd(t))
  PROVE  \A u \in Thread \ {t} : Pending(u)' = Pending(u)
<1>0. pc \in [Thread -> Points] /\ DOMAIN loc = Thread /\ LocIs(loc[t])
  BY Facts
<1>1. \A u \in Thread \ {t} : loc'[u] = loc[u] /\ pc'[u] = pc[u]
  <2>1. CASE BeginAny(t)
    BY <2>1, BeginMoves
  <2>2. CASE Step(t) /\ Reads(t)
    BY <1>0, <2>2 DEF Reads, CommitMark, CommitMerge, SaveWrite, OptMerge, QueryDisk, QueryRam, Goto
  <2>3. CASE Step(t) /\ ~Reads(t) /\ ~ShutdownEnd(t)
    BY <2>3, StepsOff, StepsOnward
  <2> QED BY <2>1, <2>2, <2>3
<1> SUFFICES ASSUME NEW u \in Thread \ {t} PROVE Pending(u)' = Pending(u)
  OBVIOUS
<1>2. PendingKill(u)' = PendingKill(u) /\ PendingAdds(u)' = PendingAdds(u)
  BY <1>1 DEF PendingAdds, PendingKill
<1> QED BY <1>1, <1>2, Zenon DEF Pending

LEMMA CommitPendingKept ==
  ASSUME AliveInv, NEW t \in Thread, Commit(t), ~CommitLive(t)
  PROVE  Pending(t)' = Pending(t)
<1>0. /\ pc \in [Thread -> Points] /\ DOMAIN loc = Thread /\ LocIs(loc[t])
      /\ OpAt(pc[t], loc[t].op)
  BY Facts DEF LockInv, ControlOK
<1>1. CASE CommitDump(t)
  <2>1. pc[t] = "c_outer" /\ pc'[t] = "s_write" /\ loc' = loc
    BY <1>0, <1>1 DEF CommitDump, At, Goto
  <2>2. loc[t].op = "commit"
    BY <1>0, <2>1 DEF OpAt
  <2> QED BY <2>1, <2>2, NotPending DEF CommitPending, UpdatePending
<1>2. CASE ~CommitDump(t)
  <2>1. /\ pc[t] \in CommitPending /\ pc'[t] \in CommitPending /\ loc'[t].op = loc[t].op
        /\ loc'[t].adds = loc[t].adds /\ loc'[t].kill = loc[t].kill
    <3>1. CASE CommitLockWriter(t) \/ CommitLockInner(t) \/ CommitBinlog(t)
      BY <1>0, <3>1 DEF CommitLockWriter, CommitLockInner, CommitBinlog, At, Goto, CommitPending
    <3>2. CASE CommitMark(t)
      BY <1>0, <3>2 DEF CommitMark, At, Goto, CommitPending, LocIs, LocFields
    <3>3. CASE CommitMerge(t)
      BY <1>0, <3>3 DEF CommitMerge, At, CommitPending, LocIs, LocFields
    <3>4. CASE CommitMergeDone(t) \/ CommitCount(t)
      BY <1>0, <3>4 DEF CommitMergeDone, CommitCount, At, Goto, CommitPending, LocIs, LocFields
    <3> QED BY <1>2, <3>1, <3>2, <3>3, <3>4 DEF Commit
  <2>2. loc[t].op = "commit"
    BY <1>0, <2>1 DEF OpAt, CommitPending
  <2> QED BY <2>1, <2>2, CommitIsPending
<1> QED BY <1>1, <1>2

\* The other operations change no document (SnapshotStable says so under a reader), but
\* for UPDATE and TRUNCATE: they have no request.
LEMMA StepPendingKept ==
  ASSUME NobodyUpdates, AliveInv, NEW t \in Thread, Step(t), ~ShutdownEnd(t), ~CommitLive(t), ~TruncMem(t)
  PROVE  Pending(t)' = Pending(t)
<1>0. /\ pc \in [Thread -> Points] /\ DOMAIN loc = Thread /\ LocIs(loc[t]) /\ NoLoc.op = "none"
      /\ OpAt(pc[t], loc[t].op)
  BY Facts DEF LockInv, ControlOK, NoLoc
<1>1. CASE Commit(t)
  BY <1>1, CommitPendingKept
<1>2. CASE Truncate(t)
  <2>1. pc[t] \in Emptying \cup {"t_writer", "t_outer", "t_meta"}
        /\ pc'[t] \in Emptying \cup {"t_outer", "t_meta"} /\ loc' = loc
    BY <1>0, <1>2 DEF Truncate, TruncLockWriter, TruncLockOuter, TruncMeta, TruncNotify,
       TruncRam, TruncChunks, At, Goto, Emptying
  <2>2. loc[t].op = "truncate"
    BY <1>0, <2>1 DEF OpAt, Emptying
  <2> QED BY <2>1, <2>2, TruncIsPending DEF CommitPending, UpdatePending, Emptying
<1>3. CASE SaveDiskChunk(t) \/ ForceDiskChunk(t)
  <2>1. /\ pc[t] \in Saving \cup {"s_end", "d_writer", "d_outer", "d_klist"}
        /\ pc'[t] \in Saving \cup {"s_end", "idle", "d_outer", "d_klist"}
        /\ loc'[t].op \in {loc[t].op, "none"}
    BY <1>0, <1>3 DEF SaveDiskChunk, SaveWrite, SaveMeta, SaveLockInner, SaveSwap, SaveEnd,
       ForceDiskChunk, DiskLockWriter, DiskLockOuter, DiskKlist, At, Goto, Finish, Saving,
       LocIs, LocFields
  <2>2. loc[t].op \in {"commit", "disk"}
    BY <1>0, <2>1 DEF OpAt, Saving
  <2> QED BY <2>1, <2>2, NotPending DEF CommitPending, UpdatePending, Saving
<1>4. CASE ForceRamFlush(t)
  <2>1. /\ pc[t] \in FlushHeld \cup {"f_lock"} /\ pc'[t] \in FlushHeld \cup {"idle"}
        /\ loc'[t].op \in {loc[t].op, "none"}
    BY <1>0, <1>4 DEF ForceRamFlush, FlushLock, FlushKillOpen, FlushKillDone, FlushRam,
       FlushFails, ShutdownFails, FlushMeta, FlushNotify, FlushEnd, At, Goto, Finish, FlushHeld
  <2>2. loc[t].op \in {"flush", "shutdown"}
    BY <1>0, <2>1 DEF OpAt
  <2> QED BY <2>1, <2>2, NotPending DEF CommitPending, UpdatePending, FlushHeld
<1>5. CASE MultiQuery(t)
  <2>1. /\ pc[t] \in {"q_disk", "q_ram", "q_done"} /\ pc'[t] \in {"q_ram", "q_done", "idle"}
        /\ loc'[t].op \in {loc[t].op, "none"}
    BY <1>0, <1>5 DEF MultiQuery, QueryDisk, QueryRam, QueryEnd, At, Goto, Finish, LocIs, LocFields
  <2>2. loc[t].op = "query"
    BY <1>0, <2>1 DEF OpAt
  <2> QED BY <2>1, <2>2, NotPending DEF CommitPending, UpdatePending
<1>6. CASE Optimize(t)
  <2>1. /\ pc[t] \in Merging \cup {"o_unlink"} /\ pc'[t] \in Merging \cup {"o_unlink", "idle"}
        /\ loc'[t].op \in {loc[t].op, "none", "optimize"}
    <3>1. CASE OptUnlink(t)
      BY <1>0, <3>1 DEF OptUnlink, NextRound, At, Goto, Finish, Merging, LocIs, LocFields, NoLoc
    <3>2. CASE ~OptUnlink(t)
      BY <1>0, <1>6, <3>2 DEF Optimize, OptKlist, OptMerge, OptGiveUp, OptLockWriter,
         OptLockOuter, OptRenameOld, OptRenameFails, OptRenameNew, OptSwap, NextRound,
         OptLeaveFiles, At, Goto, Finish, Merging, LocIs, LocFields, NoLoc
    <3> QED BY <3>1, <3>2
  <2>2. loc[t].op = "optimize"
    BY <1>0, <2>1 DEF OpAt, Merging
  <2> QED BY <2>1, <2>2, NotPending DEF CommitPending, UpdatePending, Merging
<1> QED BY <1>1, <1>2, <1>3, <1>4, <1>5, <1>6, NoUpdate DEF Step, AliveInv

\* What all threads ask for, as the store has it.
Requests == [t \in Thread |-> Pending(t)]

LEMMA BeginPending ==
  ASSUME NoUpdates, AliveInv, NEW t \in Thread, BeginAny(t)
  PROVE  /\ Pending(t) = NoRequest /\ Visible' = Visible
         /\ Pending(t)' \in [adds : Rows, kill : SUBSET Doc, update : BOOLEAN]
<1>0. /\ pc \in [Thread -> Points] /\ DOMAIN loc = Thread /\ LocIs(loc[t])
      /\ OpAt(pc[t], loc[t].op) /\ "update" \notin Ops
  BY Facts DEF LockInv, ControlOK, NoUpdates
<1>1. pc[t] = "idle"
  BY <1>0 DEF BeginAny, CommitBegin, DiskBegin, FlushBegin, ShutdownBegin, UpdateBegin,
     SaveAttributes, QueryBegin, TruncBegin, OptBegin, Begin, At
<1>2. loc[t].op = "none"
  BY <1>0, <1>1 DEF OpAt
<1>3. Pending(t) = NoRequest
  BY <1>1, <1>2, NotPending DEF CommitPending, UpdatePending
<1>4. Visible' = Visible
  <2>1. UNCHANGED <<segs, chunks, klist>>
    BY DEF BeginAny, CommitBegin, DiskBegin, FlushBegin, ShutdownBegin, UpdateBegin,
       SaveAttributes, QueryBegin, TruncBegin, OptBegin, memVars, segVars, killVars, chunkVars
  <2> QED BY <2>1, SameData
<1>5. NoRows \in Rows
  BY DEF NoRows, Rows
<1>6. Pending(t)' \in [adds : Rows, kill : SUBSET Doc, update : BOOLEAN]
  <2>1. CASE CommitBegin(t)
    <3>1. PICK kill \in SUBSET Doc, adds \in Rows :
             loc' = [loc EXCEPT ![t] = [NoLoc EXCEPT !.op = "commit", !.adds = adds, !.kill = kill]]
      BY <2>1 DEF CommitBegin
    <3>2. pc'[t] = "c_writer"
      BY <1>0, <2>1 DEF CommitBegin, Begin, Goto
    <3>3. loc'[t].op = "commit" /\ loc'[t].adds = adds /\ loc'[t].kill = kill
      BY <1>0, <3>1 DEF NoLoc
    <3>4. Pending(t)' = [adds |-> adds, kill |-> kill, update |-> FALSE]
      BY <3>2, <3>3, CommitIsPending DEF CommitPending
    <3> QED BY <3>4
  <2>2. CASE TruncBegin(t)
    <3>1. pc'[t] = "t_writer" /\ loc'[t].op = "truncate"
      BY <1>0, <2>2 DEF TruncBegin, Begin, Goto, LocIs, LocFields
    <3>2. Pending(t)' = [adds |-> NoRows, kill |-> Doc, update |-> FALSE]
      BY <3>1, TruncIsPending DEF CommitPending, UpdatePending
    <3> QED BY <1>5, <3>2
  <2>3. CASE ~CommitBegin(t) /\ ~TruncBegin(t)
    <3>1. /\ pc'[t] \in {"d_writer", "f_lock", "f_kill", "idle", "q_disk", "o_klist"}
          /\ loc'[t].op # "truncate"
      <4>1. ~UpdateBegin(t)
        BY <1>0 DEF UpdateBegin, Begin
      <4>2. CASE SaveAttributes(t)
        BY <1>0, <1>2, <4>2 DEF SaveAttributes, Begin, Goto
      <4>3. CASE DiskBegin(t) \/ FlushBegin(t)
        BY <1>0, <4>3 DEF DiskBegin, FlushBegin, Begin, Goto, LocIs, LocFields
      <4>4. CASE ShutdownBegin(t)
        BY <1>0, <4>4 DEF ShutdownBegin, Begin, Goto, LocIs, LocFields
      <4>5. CASE QueryBegin(t) \/ OptBegin(t)
        BY <1>0, <4>5 DEF QueryBegin, OptBegin, Begin, Goto, LocIs, LocFields
      <4> QED BY <2>3, <4>1, <4>2, <4>3, <4>4, <4>5 DEF BeginAny
    <3>2. Pending(t)' = NoRequest
      BY <3>1, NotPending DEF CommitPending, UpdatePending
    <3> QED BY <1>5, <3>2 DEF NoRequest
  <2> QED BY <2>1, <2>2, <2>3
<1> QED BY <1>3, <1>4, <1>6

LEMMA StillShows ==
  ASSUME NobodyUpdates, AliveInv, AliveInv', ValueInv, NEW t \in Thread, Step(t),
         ~ShutdownEnd(t), ~CommitLive(t), ~TruncMem(t)
  PROVE  Visible' = Visible
<1>1. CASE CommitMark(t)
  BY <1>1, CommitMarkRows
<1>2. CASE SaveSwap(t)
  BY <1>2, SaveSwapShows
<1>3. CASE OptSwap(t)
  BY <1>3, OptSwapShows
<1>4. CASE CommitMerge(t) \/ SaveWrite(t) \/ OptMerge(t) \/ QueryDisk(t) \/ QueryRam(t)
  BY <1>4, SameData DEF CommitMerge, SaveWrite, OptMerge, QueryDisk, QueryRam, memVars, segVars,
     killVars, chunkVars
<1>5. CASE ~CommitMark(t) /\ ~SaveSwap(t) /\ ~OptSwap(t)
           /\ ~(CommitMerge(t) \/ SaveWrite(t) \/ OptMerge(t) \/ QueryDisk(t) \/ QueryRam(t))
  <2>1. UNCHANGED <<segs, chunks, klist>>
    BY <1>5, QuietData DEF Reads, AliveInv
  <2> QED BY <2>1, SameData
<1> QED BY <1>1, <1>2, <1>3, <1>4, <1>5

\* The step of a request that takes effect.
LEMMA TakesEffect ==
  ASSUME NEW t \in Thread, \A u \in Thread \ {t} : Pending(u)' = Pending(u),
         Pending(t)' = NoRequest, Visible' = Abstract!Result(Pending(t))
  PROVE  (Abstract!TakeEffect(t) \/ UNCHANGED <<Visible, Requests>>)
<1>1. CASE Pending(t) = NoRequest
  <2>1. Requests' = Requests
    BY <1>1 DEF Requests
  <2>2. Visible' = Visible
    BY <1>1 DEF Abstract!Result, NoRequest, NoRows, Visible
  <2> QED BY <2>1, <2>2
<1>2. CASE Pending(t) # NoRequest
  <2>1. Abstract!Nothing = NoRequest
    BY DEF Abstract!Nothing, Abstract!NoRows, NoRequest, NoRows
  <2>2. Requests[t] = Pending(t)
    BY DEF Requests
  <2>3. Requests' = [Requests EXCEPT ![t] = NoRequest]
    BY DEF Requests
  <2> QED BY <1>2, <2>1, <2>2, <2>3 DEF Abstract!TakeEffect, Requests
<1> QED BY <1>1, <1>2

LEMMA Starts ==
  ASSUME NEW t \in Thread, \A u \in Thread \ {t} : Pending(u)' = Pending(u), Visible' = Visible,
         Pending(t) = NoRequest,
         Pending(t)' \in [adds : Rows, kill : SUBSET Doc, update : BOOLEAN]
  PROVE  Abstract!Start(t) \/ UNCHANGED <<Visible, Requests>>
<1>1. CASE Pending(t)' = NoRequest
  BY <1>1 DEF Requests
<1>2. CASE Pending(t)' # NoRequest
  <2>1. Abstract!Nothing = NoRequest
    BY DEF Abstract!Nothing, Abstract!NoRows, NoRequest, NoRows
  <2>2. Requests[t] = Pending(t) /\ Requests'[t] = Pending(t)'
    BY DEF Requests
  <2>3. Requests' = [Requests EXCEPT ![t] = Requests'[t]]
    BY DEF Requests
  <2>4. Pending(t)' \in Abstract!Request
    BY DEF Abstract!Request, Rows
  <2> QED BY <1>2, <2>1, <2>2, <2>3, <2>4 DEF Abstract!Start, Requests
<1> QED BY <1>1, <1>2

LEMMA StepRefines ==
  ASSUME OneRun, NoUpdates, AliveInv, AliveInv', ValueInv, [Next]_vars
  PROVE  [Abstract!Next]_<<Visible, [t \in Thread |-> Pending(t)]>>
<1> SUFFICES (\E t \in Thread : Abstract!Start(t) \/ Abstract!TakeEffect(t))
               \/ UNCHANGED <<Visible, Requests>>
  BY DEF Abstract!Next, Requests
<1>1. ASSUME NEW t \in Thread, BeginAny(t)
      PROVE  Abstract!Start(t) \/ UNCHANGED <<Visible, Requests>>
  BY <1>1, BeginPending, OnlyOneMoves, Starts
<1>2. ASSUME NEW t \in Thread, Step(t)
      PROVE  Abstract!TakeEffect(t) \/ UNCHANGED <<Visible, Requests>>
  <2>0. /\ ~ShutdownEnd(t) /\ pc \in [Thread -> Points] /\ DOMAIN loc = Thread
        /\ OpAt(pc[t], loc[t].op) /\ NoLoc.op = "none"
    BY <1>2, StepRuns, Facts DEF LockInv, ControlOK, NoLoc
  <2>1. \A u \in Thread \ {t} : Pending(u)' = Pending(u)
    BY <1>2, <2>0, OnlyOneMoves
  <2>2. CASE CommitLive(t)
    <3>1. /\ pc[t] = "c_live"
          /\ \/ pc' = [pc EXCEPT ![t] = "c_outer"] /\ UNCHANGED loc
             \/ pc' = [pc EXCEPT ![t] = "idle"] /\ loc' = [loc EXCEPT ![t] = NoLoc]
      BY <2>2, CommitLiveRows
    <3>2. loc[t].op = "commit"
      BY <2>0, <3>1 DEF OpAt, CommitPending
    <3>3. /\ pc'[t] \in {"c_outer", "idle"} /\ loc'[t].op # "truncate"
      BY <2>0, <3>1, <3>2
    <3>4. Pending(t)' = NoRequest
      BY <3>3, NotPending DEF CommitPending, UpdatePending
    <3>5. Pending(t) = [adds |-> loc[t].adds, kill |-> loc[t].kill, update |-> FALSE]
      BY <3>1, <3>2, CommitIsPending DEF CommitPending
    <3>6. Visible' = Abstract!Result(Pending(t))
      <4>1. \A d \in Doc : Visible'[d] = IF loc[t].adds[d] # NoRow THEN loc[t].adds[d]
                                         ELSE IF d \in loc[t].kill THEN NoRow ELSE Visible[d]
        BY <2>2, CommitLiveShows
      <4>2. Visible' = [d \in Doc |-> Visible'[d]]
        BY DEF Visible
      <4> QED BY <3>5, <4>1, <4>2 DEF Abstract!Result
    <3> QED BY <2>1, <3>4, <3>6, TakesEffect
  <2>3. CASE TruncMem(t)
    <3>1. Visible' = NoRows /\ pc[t] = "t_mem" /\ Finish(t)
      BY <2>3, TruncMemShows
    <3>2. loc[t].op = "truncate"
      BY <2>0, <3>1 DEF OpAt
    <3>3. pc'[t] = "idle" /\ loc'[t].op = "none"
      BY <2>0, <3>1 DEF Finish, Goto
    <3>4. Pending(t)' = NoRequest
      BY <3>3, NotPending DEF CommitPending, UpdatePending
    <3>5. Pending(t) = [adds |-> NoRows, kill |-> Doc, update |-> FALSE]
      BY <3>1, <3>2, TruncIsPending DEF CommitPending, UpdatePending
    <3>6. Visible' = Abstract!Result(Pending(t))
      BY <3>1, <3>5 DEF Abstract!Result, NoRows
    <3> QED BY <2>1, <3>4, <3>6, TakesEffect
  <2>4. CASE ~CommitLive(t) /\ ~TruncMem(t)
    <3>1. Pending(t)' = Pending(t)
      BY <1>2, <2>0, <2>4, StepPendingKept, NobodyIn
    <3>2. Visible' = Visible
      BY <1>2, <2>0, <2>4, StillShows, NobodyIn
    <3> QED BY <2>1, <3>1, <3>2 DEF Requests
  <2> QED BY <2>2, <2>3, <2>4
<1>3. CASE UNCHANGED vars
  <2>1. UNCHANGED <<segs, chunks, klist, pc, loc>>
    BY <1>3 DEF vars, memVars, segVars, killVars, chunkVars
  <2>2. \A t \in Thread : PendingKill(t)' = PendingKill(t) /\ PendingAdds(t)' = PendingAdds(t)
    BY <2>1 DEF PendingKill, PendingAdds
  <2>3. \A t \in Thread : Pending(t)' = Pending(t)
    BY <2>1, <2>2, Zenon DEF Pending
  <2> QED BY <2>1, <2>3, SameData DEF Requests
<1> QED BY <1>1, <1>2, <1>3, NoStop DEF Next

LEMMA InitRefines == Init => Abstract!Init
<1> SUFFICES ASSUME Init PROVE Abstract!Init
  OBVIOUS
<1>1. Visible = NoRows
  BY DEF Init, Visible, RamRows, DiskRows, NoSegs, NoRows
<1>2. ASSUME NEW t \in Thread PROVE Pending(t) = NoRequest
  <2>1. pc[t] = "idle" /\ loc[t].op = "none"
    BY DEF Init, NoLoc
  <2> QED BY <2>1, NotPending DEF CommitPending, UpdatePending
<1> QED BY <1>1, <1>2 DEF Abstract!Init, Abstract!Nothing, Abstract!NoRows, NoRequest, NoRows

\* What queries find changes when a transaction or a TRUNCATE takes effect, wholly and
\* once, between its start and its end, and never by a merge, a dump, a save or a chunk
\* merge: the index implements the store of documents that it stands for.
THEOREM ImplementsDocStore == ASSUME OneRun, NoUpdates PROVE Spec => RefinesDocStore
<1>1. Init => Abstract!Init
  BY InitRefines
<1>2. /\ AliveInv /\ ValueInv /\ AliveInv' /\ ValueInv' /\ [Next]_vars
        => [Abstract!Next]_<<Visible, [t \in Thread |-> Pending(t)]>>
  BY StepRefines
<1> QED BY <1>1, <1>2, ValuesHold, PTL DEF Spec, RefinesDocStore, Abstract!Spec
=============================================================================
