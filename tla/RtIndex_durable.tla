--------------------------- MODULE RtIndex_durable --------------------------
(***************************************************************************)
(* Proofs about the files of an RT index, over crashes, stops and starts,  *)
(* for any threads, documents and limits.                                  *)
(*                                                                         *)
(* .meta names the chunks that are online (MetaNamesChunks) and each has   *)
(* its file, so the index starts again after any stop or crash             *)
(* (Restartable).  This follows from which locks are held where .meta is   *)
(* written and where chunk files are renamed.                              *)
(*                                                                         *)
(* And what the files and the log hold is the data: after any crash or     *)
(* stop, start and replay, the index has what its transactions made of it  *)
(* (Durable).  The invariant says, for every program point, what a start   *)
(* would make of .meta, .ram, .kill and the chunk files, which documents   *)
(* that leaves to the log, and that the log has the last of what was done  *)
(* to each of those.  What it rules out (Careful) are the operations and   *)
(* the four windows in which the files do not go together.                 *)
(***************************************************************************)
EXTENDS RtIndex_queries

-----------------------------------------------------------------------------
(* .meta and the chunk files, also over crashes and restarts. *)

\* FLUSH RTINDEX writes a .meta beside a save, and a second flush renames the .ram.new of
\* the first: what each of the theorems leaves out.
NoFlush    == "flush" \notin Ops
OneFlusher == "flush" \notin Ops \/ \A t, u \in Thread : t = u

Ahead     == {"s_inner", "s_swap"}
SavePoint == {"s_meta", "s_inner", "s_swap"}
SomeAt(S) == \E t \in Thread : pc[t] \in S
Extra     == IF SomeAt(Ahead) THEN 1 ELSE 0
Present(n) == n \in DOMAIN files.chunk

OpsAsked      == \A t \in Thread : loc[t].op \in Ops \cup {"none", "commit"}
ShutdownAlone == \A t, u \in Thread : t # u /\ loc[t].op = "shutdown" => loc[u].op = "none"

\* .meta has the number of the oldest chunk, and how many there are: all that are online,
\* and the one a save is about to bring online; or fewer, where a flush came in between.
MetaAgrees ==
    /\ SomeAt(Emptying) => base = 0 /\ files.meta.base = 0 /\ files.meta.n = 0
    /\ ~SomeAt(Emptying) => /\ files.meta.base = base
                            /\ files.meta.n <= Len(chunks) + Extra
                            /\ NoFlush => files.meta.n = Len(chunks) + Extra

\* Every chunk online has its file, but for the moment between OPTIMIZE's two renames.
FilesThere ==
    ~SomeAt(Emptying) =>
       \A i \in 1..Len(chunks) : Present(ChunkName(i)) \/ (i = 2 /\ SomeAt({"o_new"}))

\* And so has the chunk that is being saved.
SavedThere == SomeAt(SavePoint) => Present(ChunkName(Len(chunks) + 1))

Chunked  == MetaAgrees /\ FilesThere /\ SavedThere
Startable == "o_new" \notin CrashAt => \A n \in MetaChunks : Present(n)
RamThere == OneFlusher => \A t \in Thread : pc[t] = "f_ram" => files.newRam
NotDead  == OneFlusher /\ "o_new" \notin CrashAt => mode # "dead"

Alone == OpsAsked /\ ShutdownAlone

StartInv ==
    /\ QueryInv /\ Alone /\ RamThere /\ NotDead
    /\ mode \in {"up", "replay"} => Chunked
    /\ mode = "down" => Startable

\* The operation of a thread stays or ends.
LEMMA OpsGo ==
  ASSUME TypeInv, NEW t \in Thread, Step(t), ~ShutdownEnd(t)
  PROVE  /\ \A u \in Thread \ {t} : loc'[u] = loc[u]
         /\ loc'[t].op \in {loc[t].op, "none"}
<1>0. DOMAIN loc = Thread /\ LocIs(loc[t]) /\ NoLoc.op = "none"
  BY DEF TypeInv, LocsOK, LockInv, ControlOK, NoLoc
<1> DEFINE Same == UNCHANGED loc \/ loc' = [loc EXCEPT ![t] = NoLoc]
           Goal == /\ \A u \in Thread \ {t} : loc'[u] = loc[u]
                   /\ loc'[t].op \in {loc[t].op, "none"}
<1>1. Same => Goal
  BY <1>0
<1> SUFFICES Goal
  OBVIOUS
<1>2. CASE Commit(t)
  <2>1. CASE CommitMark(t)
    BY <1>0, <2>1, ZenonT(60) DEF CommitMark, LocIs, LocFields
  <2>2. CASE CommitMerge(t)
    BY <1>0, <2>2, ZenonT(60) DEF CommitMerge, LocIs, LocFields
  <2>3. CASE CommitMergeDone(t)
    BY <1>0, <2>3, ZenonT(60) DEF CommitMergeDone, LocIs, LocFields
  <2>4. CASE CommitCount(t)
    BY <1>0, <2>4, ZenonT(60) DEF CommitCount, LocIs, LocFields
  <2>5. CASE CommitLive(t)
    <3>1. Same
      BY <2>5, Zenon DEF CommitLive, Finish
    <3> QED BY <1>1, <3>1
  <2>6. CASE \/ CommitLockWriter(t) \/ CommitLockInner(t) \/ CommitBinlog(t) \/ CommitDump(t)
    BY <1>1, <2>6 DEF CommitLockWriter, CommitLockInner, CommitBinlog, CommitDump
  <2> QED BY <1>2, <2>1, <2>2, <2>3, <2>4, <2>5, <2>6 DEF Commit
<1>3. CASE SaveDiskChunk(t) \/ ForceDiskChunk(t)
  <2>1. CASE SaveWrite(t) \/ DiskKlist(t)
    BY <1>0, <2>1 DEF SaveWrite, DiskKlist, LocIs, LocFields
  <2>2. CASE \/ SaveMeta(t) \/ SaveLockInner(t) \/ SaveSwap(t) \/ SaveEnd(t)
             \/ DiskLockWriter(t) \/ DiskLockOuter(t)
    BY <1>1, <2>2 DEF SaveMeta, SaveLockInner, SaveSwap, SaveEnd, DiskLockWriter, DiskLockOuter,
       Finish
  <2> QED BY <1>3, <2>1, <2>2 DEF SaveDiskChunk, ForceDiskChunk
<1>4. CASE ForceRamFlush(t)
  BY <1>1, <1>4 DEF ForceRamFlush, FlushLock, FlushKillOpen, FlushKillDone, FlushRam, FlushFails,
     ShutdownFails, FlushMeta, FlushNotify, FlushEnd, Finish
<1>5. CASE UpdateAttributes(t) \/ Truncate(t)
  BY <1>1, <1>5 DEF UpdateAttributes, UpdateLock, UpdateApply, UpdateLog, Truncate,
     TruncLockWriter, TruncLockOuter, TruncMeta, TruncNotify, TruncRam, TruncChunks, TruncMem,
     Finish
<1>6. CASE MultiQuery(t)
  <2>1. CASE QueryDisk(t) \/ QueryRam(t)
    BY <1>0, <2>1 DEF QueryDisk, QueryRam, LocIs, LocFields
  <2> QED BY <1>1, <1>6, <2>1 DEF MultiQuery, QueryEnd, Finish
<1>7. CASE Optimize(t)
  <2>1. CASE OptKlist(t) \/ OptMerge(t) \/ OptUnlink(t)
    <3>0. loc[t].op = "optimize"
      BY <2>1 DEF OptKlist, OptMerge, OptUnlink, At, TypeInv, LockInv, ControlOK, OpAt
    <3> QED BY <1>0, <2>1, <3>0
          DEF OptKlist, OptMerge, OptUnlink, NextRound, Finish, NoLoc, LocIs, LocFields
  <2> QED BY <1>1, <1>7, <2>1 DEF Optimize, OptGiveUp, OptLockWriter, OptLockOuter, OptRenameOld,
     OptRenameFails, OptRenameNew, OptSwap, OptLeaveFiles, Finish
<1> QED BY <1>2, <1>3, <1>4, <1>5, <1>6, <1>7 DEF Step

LEMMA StepAlone ==
  ASSUME TypeInv, Alone, NEW t \in Thread, Step(t), ~ShutdownEnd(t) PROVE Alone'
BY OpsGo DEF Alone, OpsAsked, ShutdownAlone

\* An operation starts: no shutdown is under way, and a shutdown only when nothing is.
LEMMA BeginOps ==
  ASSUME TypeInv, NEW t \in Thread, BeginAny(t)
  PROVE  /\ \A u \in Thread : loc[u].op # "shutdown"
         /\ \A u \in Thread \ {t} : loc'[u] = loc[u]
         /\ loc'[t].op \in Ops \cup {loc[t].op}
         /\ loc'[t].op = "shutdown" => \A u \in Thread : loc[u].op = "none"
<1>0. DOMAIN loc = Thread /\ LocIs(loc[t])
  BY DEF TypeInv, LocsOK, LockInv, ControlOK
<1>1. ASSUME NEW o, NEW l, Begin(t, o, l)
      PROVE  /\ \A u \in Thread : loc[u].op # "shutdown"
             /\ o \in Ops
             /\ o = "shutdown" => \A u \in Thread : loc[u].op = "none"
  BY <1>1 DEF Begin
<1>2. CASE CommitBegin(t)
  <2>1. PICK kill \in (SUBSET Doc) \ {{}}, adds \in Rows :
           loc' = [loc EXCEPT ![t] = [NoLoc EXCEPT !.op = "commit", !.adds = adds, !.kill = kill]]
    BY <1>2 DEF CommitBegin
  <2> DEFINE l == [NoLoc EXCEPT !.op = "commit", !.adds = adds, !.kill = kill]
  <2>2. l.op = "commit"
    BY DEF NoLoc
  <2>3. loc' = [loc EXCEPT ![t] = l]
    BY <2>1
  <2> HIDE DEF l
  <2>4. Begin(t, "commit", "c_writer")
    BY <1>2 DEF CommitBegin
  <2> QED BY <1>0, <1>1, <2>2, <2>3, <2>4
<1>3. CASE UpdateBegin(t)
  <2>1. PICK d \in Doc, v \in Val :
           loc' = [loc EXCEPT ![t] = [NoLoc EXCEPT !.op = "update", !.adds[d] = v]]
    BY <1>3 DEF UpdateBegin
  <2> DEFINE l == [NoLoc EXCEPT !.op = "update", !.adds[d] = v]
  <2>2. l.op = "update"
    BY DEF NoLoc
  <2>3. loc' = [loc EXCEPT ![t] = l]
    BY <2>1
  <2> HIDE DEF l
  <2>4. Begin(t, "update", "u_lock")
    BY <1>3 DEF UpdateBegin
  <2> QED BY <1>0, <1>1, <2>2, <2>3, <2>4
<1>4. CASE SaveAttributes(t)
  BY <1>1, <1>4 DEF SaveAttributes
<1>5. ASSUME NEW o \in {"disk", "flush", "shutdown", "query", "truncate", "optimize"}, NEW l,
             Begin(t, o, l), loc' = [loc EXCEPT ![t].op = o]
      PROVE  /\ \A u \in Thread \ {t} : loc'[u] = loc[u]
             /\ loc'[t].op = o
  BY <1>0, <1>5 DEF LocIs, LocFields
<1>6. CASE \/ DiskBegin(t) \/ FlushBegin(t) \/ ShutdownBegin(t) \/ QueryBegin(t) \/ TruncBegin(t)
           \/ OptBegin(t)
  <2>1. \E o \in {"disk", "flush", "shutdown", "query", "truncate", "optimize"}, l \in Points :
           Begin(t, o, l) /\ loc' = [loc EXCEPT ![t].op = o]
    BY <1>6 DEF DiskBegin, FlushBegin, ShutdownBegin, QueryBegin, TruncBegin, OptBegin, Points
  <2> QED BY <1>1, <1>5, <2>1
<1> QED BY <1>2, <1>3, <1>4, <1>6 DEF BeginAny

LEMMA BeginAlone ==
  ASSUME TypeInv, Alone, NEW t \in Thread, BeginAny(t) PROVE Alone'
BY BeginOps DEF Alone, OpsAsked, ShutdownAlone

\* During a replay nobody shuts down.
LEMMA RecoveryAlone == ASSUME StartInv, Recovery PROVE Alone'
<1>0. DOMAIN loc = Thread /\ Replayer \in Thread
  BY ThreadAssumption DEF StartInv, QueryInv, TypeInv, LockInv, ControlOK, Replayer
<1>1. CASE ReplayCommit
  <2>1. \A u \in Thread : loc[u].op # "shutdown"
    <3>1. mode = "replay"
      BY <1>1 DEF ReplayCommit, ReplayIdle
    <3> QED BY <3>1 DEF StartInv, QueryInv, ReplayAlone, ReplayPoints, TypeInv, LockInv, ControlOK,
               OpAt, CommitPending
  <2>2. PICK n : loc' = [loc EXCEPT ![Replayer] =
                           [NoLoc EXCEPT !.op = "commit", !.adds = log[n].adds,
                                         !.kill = log[n].kill, !.etid = n]]
    BY <1>1 DEF ReplayCommit
  <2> DEFINE l == [NoLoc EXCEPT !.op = "commit", !.adds = log[n].adds, !.kill = log[n].kill,
                                !.etid = n]
  <2>3. l.op = "commit"
    BY DEF NoLoc
  <2>4. loc' = [loc EXCEPT ![Replayer] = l]
    BY <2>2
  <2> HIDE DEF l
  <2> QED BY <1>0, <2>1, <2>3, <2>4 DEF StartInv, Alone, OpsAsked, ShutdownAlone
<1>2. CASE Restart \/ ReplayUpdateAttributes \/ ReplayDone
  BY <1>2 DEF Restart, ReplayUpdateAttributes, ReplayDone, StartInv, Alone, OpsAsked, ShutdownAlone
<1> QED BY <1>1, <1>2 DEF Recovery

\* Points at which .meta or the chunk files do not say what is online.
Special == SavePoint \cup Emptying \cup {"o_new"}
PcQuiet(t) == pc[t] \notin Special /\ \E l \in Points \ Special : pc' = [pc EXCEPT ![t] = l]
NamesSame ==
    /\ files'.meta = files.meta /\ DOMAIN files'.chunk = DOMAIN files.chunk
    /\ Len(chunks') = Len(chunks) /\ base' = base
PlacesSame == /\ SomeAt(Emptying)' <=> SomeAt(Emptying)
              /\ SomeAt(Ahead)' <=> SomeAt(Ahead)
              /\ SomeAt(SavePoint)' <=> SomeAt(SavePoint)
              /\ SomeAt({"o_new"})' <=> SomeAt({"o_new"})

LEMMA ChunkFacts ==
  ASSUME TypeInv
  PROVE  /\ Len(chunks) \in Nat /\ DOMAIN chunks = 1..Len(chunks) /\ base \in Nat
         /\ files.meta.base \in Nat /\ files.meta.n \in Nat
         /\ DOMAIN files = FileFields /\ pc \in [Thread -> Points]
BY LenProperties DEF TypeInv, MemOK, FilesOK, LockInv, ControlOK

LEMMA QuietPlaces == ASSUME TypeInv, NEW t \in Thread, PcQuiet(t) PROVE PlacesSame
<1>1. PICK l \in Points \ Special : pc' = [pc EXCEPT ![t] = l]
  BY DEF PcQuiet
<1>2. \A S : S \subseteq Special => ((\E u \in Thread : pc'[u] \in S) <=> \E u \in Thread : pc[u] \in S)
  BY <1>1, ChunkFacts DEF PcQuiet
<1>3. Emptying \subseteq Special /\ Ahead \subseteq Special /\ SavePoint \subseteq Special
      /\ {"o_new"} \subseteq Special
  BY DEF Special, Ahead, SavePoint
<1> QED BY <1>2, <1>3 DEF PlacesSame, SomeAt

LEMMA QuietChunks == ASSUME Chunked, NamesSame, PlacesSame PROVE Chunked'
BY DEF Chunked, MetaAgrees, FilesThere, SavedThere, NamesSame, PlacesSame, Present, ChunkName, Extra

LEMMA QuietOn == ASSUME TypeInv, Chunked, NEW t \in Thread, NamesSame, PcQuiet(t) PROVE Chunked'
BY QuietPlaces, QuietChunks

LEMMA UnchangedNames == ASSUME UNCHANGED <<files, chunks, base>> PROVE NamesSame
BY DEF NamesSame

\* COMMIT and the start of FLUSH RAMCHUNK touch neither.
LEMMA CommitChunks ==
  ASSUME TypeInv, Chunked, NEW t \in Thread, Commit(t) \/ ForceDiskChunk(t) \/ MultiQuery(t)
  PROVE  Chunked'
<1> USE DEF memVars, segVars, killVars, chunkVars, At, Goto, Finish
<1>0. pc \in [Thread -> Points]
  BY ChunkFacts
<1>1. UNCHANGED <<files, chunks, base>>
  <2>1. CASE Commit(t)
    BY <2>1 DEF Commit, CommitLockWriter, CommitLockInner, CommitBinlog, CommitMark, CommitMerge,
       CommitMergeDone, CommitCount, CommitLive, CommitDump
  <2>2. CASE ForceDiskChunk(t) \/ MultiQuery(t)
    BY <2>2 DEF ForceDiskChunk, DiskLockWriter, DiskLockOuter, DiskKlist, MultiQuery, QueryDisk,
       QueryRam, QueryEnd
  <2> QED BY <2>1, <2>2
<1>2. PcQuiet(t)
  <2>1. CASE CommitMerge(t)
    <3>1. pc[t] = "c_merge" /\ pc' = [pc EXCEPT ![t] = pc[t]]
      BY <1>0, <2>1 DEF CommitMerge
    <3> QED BY <3>1 DEF PcQuiet, Points, Special, SavePoint, Emptying
  <2>2. CASE CommitLive(t)
    <3>1. pc[t] = "c_live" /\ \E l \in {"c_outer", "idle"} : pc' = [pc EXCEPT ![t] = l]
      BY <2>2, Zenon DEF CommitLive
    <3> QED BY <3>1 DEF PcQuiet, Points, Special, SavePoint, Emptying
  <2>3. CASE Commit(t) /\ ~CommitMerge(t) /\ ~CommitLive(t)
    BY <2>3 DEF Commit, CommitLockWriter, CommitLockInner, CommitBinlog, CommitMark,
       CommitMergeDone, CommitCount, CommitDump, PcQuiet, Points, Special, SavePoint, Emptying
  <2>4. CASE ForceDiskChunk(t) \/ MultiQuery(t)
    BY <2>4 DEF ForceDiskChunk, DiskLockWriter, DiskLockOuter, DiskKlist, MultiQuery, QueryDisk,
       QueryRam, QueryEnd, PcQuiet, Points, Special, SavePoint, Emptying
  <2> QED BY <2>1, <2>2, <2>3, <2>4
<1> QED BY <1>1, <1>2, UnchangedNames, QuietOn

\* An UPDATE writes rows of the chunks in memory.
LEMMA UpdateChunks ==
  ASSUME TypeInv, Chunked, NEW t \in Thread, UpdateAttributes(t) PROVE Chunked'
<1> USE DEF memVars, segVars, killVars, chunkVars, At, Goto, Finish
<1>1. Len(chunks') = Len(chunks)
  <2>1. CASE UpdateApply(t)
    <3>1. loc[t].adds \in Rows /\ WriteAttr(loc[t].adds)
      BY <2>1 DEF UpdateApply, TypeInv, LocsOK, LocIs, LocOK
    <3> QED BY <3>1, WriteAttrType DEF TypeInv, MemOK
  <2>2. CASE UpdateLock(t) \/ UpdateLog(t)
    BY <2>2 DEF UpdateLock, UpdateLog
  <2> QED BY <2>1, <2>2 DEF UpdateAttributes
<1>2. UNCHANGED <<files, base>>
  BY DEF UpdateAttributes, UpdateLock, UpdateApply, UpdateLog
<1>3. PcQuiet(t)
  BY DEF UpdateAttributes, UpdateLock, UpdateApply, UpdateLog, PcQuiet, Points, Special, SavePoint,
     Emptying
<1> QED BY <1>1, <1>2, <1>3, QuietOn DEF NamesSame

\* SaveAttributes and a shutdown rewrite the chunk files there are.
LEMMA BeginChunks ==
  ASSUME TypeInv, Chunked, NEW t \in Thread, BeginAny(t) PROVE Chunked'
<1> USE DEF memVars, segVars, killVars, chunkVars
<1>0. DOMAIN files = FileFields /\ pc \in [Thread -> Points]
  BY ChunkFacts
<1>1. NamesSame
  <2>1. CASE ShutdownBegin(t) \/ SaveAttributes(t)
    <3>1. files' = [files EXCEPT !.chunk = SavedAttributes] /\ UNCHANGED <<chunks, base>>
      BY <2>1 DEF ShutdownBegin, SaveAttributes
    <3>2. DOMAIN SavedAttributes = DOMAIN files.chunk
      BY DEF SavedAttributes
    <3> QED BY <1>0, <3>1, <3>2 DEF NamesSame, FileFields
  <2>2. CASE ~ShutdownBegin(t) /\ ~SaveAttributes(t)
    BY <2>2, UnchangedNames DEF BeginAny, CommitBegin, DiskBegin, FlushBegin, UpdateBegin,
       QueryBegin, TruncBegin, OptBegin
  <2> QED BY <2>1, <2>2
<1>2. PcQuiet(t)
  <2>1. ASSUME NEW o, NEW l \in Points \ Special, Begin(t, o, l) PROVE PcQuiet(t)
    BY <2>1 DEF Begin, At, Goto, PcQuiet, Special, SavePoint, Emptying
  <2>2. \E l \in {"c_writer", "d_writer", "f_lock", "f_kill", "u_lock", "idle", "q_disk",
                   "t_writer", "o_klist"} : \E o \in OpNames : Begin(t, o, l)
    BY DEF BeginAny, CommitBegin, DiskBegin, FlushBegin, ShutdownBegin, UpdateBegin,
       SaveAttributes, QueryBegin, TruncBegin, OptBegin, OpNames
  <2>3. \A l \in {"c_writer", "d_writer", "f_lock", "f_kill", "u_lock", "idle", "q_disk",
                  "t_writer", "o_klist"} : l \in Points \ Special
    BY DEF Points, Special, SavePoint, Emptying
  <2> QED BY <2>1, <2>2, <2>3
<1> QED BY <1>1, <1>2, QuietOn

\* One thread at most is where the data change.
LEMMA OnlySpecial ==
  ASSUME TypeInv, NEW t \in Thread, pc[t] \in WriterHeld, NEW u \in Thread \ {t}
  PROVE  pc[u] \notin Special
<1>1. Special \subseteq WriterHeld
  BY DEF Special, SavePoint, Emptying, WriterHeld
<1> QED BY <1>1, OneWriter DEF TypeInv

\* So a step of the thread at t says where there is any.
LEMMA PlacesOf ==
  ASSUME TypeInv, NEW t \in Thread, pc[t] \in WriterHeld, NEW l \in Points,
         pc' = [pc EXCEPT ![t] = l]
  PROVE  /\ \A S \in SUBSET Special : (\E u \in Thread : pc[u] \in S) <=> pc[t] \in S
         /\ \A S \in SUBSET Special : (\E u \in Thread : pc'[u] \in S) <=> l \in S
BY OnlySpecial, ChunkFacts

LEMMA Places ==
  ASSUME TypeInv, NEW t \in Thread, pc[t] \in WriterHeld, NEW l \in Points,
         pc' = [pc EXCEPT ![t] = l]
  PROVE  /\ SomeAt(Emptying) <=> pc[t] \in Emptying
         /\ SomeAt(Ahead) <=> pc[t] \in Ahead
         /\ SomeAt(SavePoint) <=> pc[t] \in SavePoint
         /\ SomeAt({"o_new"}) <=> pc[t] = "o_new"
         /\ SomeAt(Emptying)' <=> l \in Emptying
         /\ SomeAt(Ahead)' <=> l \in Ahead
         /\ SomeAt(SavePoint)' <=> l \in SavePoint
         /\ SomeAt({"o_new"})' <=> l = "o_new"
<1>1. Emptying \in SUBSET Special /\ Ahead \in SUBSET Special /\ SavePoint \in SUBSET Special
      /\ {"o_new"} \in SUBSET Special
  BY DEF Special, Ahead, SavePoint
<1>2. /\ SomeAt(Emptying) <=> pc[t] \in Emptying
      /\ SomeAt(Emptying)' <=> l \in Emptying
  BY <1>1, PlacesOf DEF SomeAt, Emptying
<1>3. /\ SomeAt(Ahead) <=> pc[t] \in Ahead
      /\ SomeAt(Ahead)' <=> l \in Ahead
  BY <1>1, PlacesOf DEF SomeAt, Ahead
<1>4. /\ SomeAt(SavePoint) <=> pc[t] \in SavePoint
      /\ SomeAt(SavePoint)' <=> l \in SavePoint
  BY <1>1, PlacesOf DEF SomeAt, SavePoint
<1>5. /\ SomeAt({"o_new"}) <=> pc[t] = "o_new"
      /\ SomeAt({"o_new"})' <=> l = "o_new"
  <2> DEFINE S == {"o_new"}
  <2>1. S \in SUBSET Special
    BY <1>1
  <2>2. pc[t] \in S <=> pc[t] = "o_new"
    OBVIOUS
  <2>3. l \in S <=> l = "o_new"
    OBVIOUS
  <2> HIDE DEF S
  <2>4. /\ (\E u \in Thread : pc[u] \in S) <=> pc[t] \in S
        /\ (\E u \in Thread : pc'[u] \in S) <=> l \in S
    BY <2>1, PlacesOf
  <2> QED BY <2>2, <2>3, <2>4 DEF SomeAt, S
<1> QED BY <1>2, <1>3, <1>4, <1>5

\* A save: .meta names the chunk ahead of time, its file is there already.
LEMMA SaveChunks ==
  ASSUME TypeInv, Chunked, NEW t \in Thread, SaveDiskChunk(t) PROVE Chunked'
<1> USE DEF memVars, segVars, killVars, chunkVars, At, Goto, Finish
<1>0. /\ Len(chunks) \in Nat /\ base \in Nat /\ files.meta.n \in Nat /\ files.meta.base \in Nat
      /\ DOMAIN files = FileFields /\ chunks \in Seq(Chunk)
  BY ChunkFacts DEF TypeInv, MemOK
<1>1. CASE SaveWrite(t) /\ pc'[t] # "s_end"
  <2>1. pc[t] = "s_write" /\ pc' = [pc EXCEPT ![t] = "s_meta"]
    BY <1>1, ChunkFacts DEF SaveWrite
  <2>2. /\ ~SomeAt(Emptying)' /\ ~SomeAt(Ahead)' /\ ~SomeAt({"o_new"})'
        /\ ~SomeAt(Emptying) /\ ~SomeAt(Ahead) /\ ~SomeAt({"o_new"})
    BY <2>1, Places, ZenonT(60) DEF WriterHeld, Points, Emptying, Ahead, SavePoint
  <2>3. /\ files'.meta = files.meta /\ UNCHANGED <<chunks, base>>
        /\ DOMAIN files'.chunk = DOMAIN files.chunk \cup {ChunkName(Len(chunks) + 1)}
    BY <1>0, <1>1, <2>1, ChunkFacts DEF SaveWrite, FileFields
  <2> QED BY <1>0, <2>2, <2>3
          DEF Chunked, MetaAgrees, FilesThere, SavedThere, Present, ChunkName, Extra
<1>2. CASE SaveMeta(t)
  <2>1. pc[t] = "s_meta" /\ pc' = [pc EXCEPT ![t] = "s_inner"]
    BY <1>2 DEF SaveMeta
  <2>2. /\ ~SomeAt(Emptying)' /\ SomeAt(Ahead)' /\ ~SomeAt({"o_new"})'
        /\ ~SomeAt(Emptying) /\ ~SomeAt({"o_new"}) /\ SomeAt(SavePoint)
    BY <2>1, Places, ZenonT(60) DEF WriterHeld, Points, Emptying, Ahead, SavePoint
  <2>3. /\ files'.meta.base = base /\ files'.meta.n = Len(chunks) + 1
        /\ files'.chunk = files.chunk /\ UNCHANGED <<chunks, base>>
    BY <1>0, <1>2 DEF SaveMeta, Meta, MetaFile, FileFields
  <2> QED BY <1>0, <2>2, <2>3
          DEF Chunked, MetaAgrees, FilesThere, SavedThere, Present, ChunkName, Extra
<1>3. CASE SaveLockInner(t)
  <2>1. pc[t] = "s_inner" /\ pc' = [pc EXCEPT ![t] = "s_swap"] /\ UNCHANGED <<files, chunks, base>>
    BY <1>3 DEF SaveLockInner
  <2>2. PlacesSame
    BY <2>1, Places, ZenonT(60) DEF WriterHeld, Points, Emptying, Ahead, SavePoint, PlacesSame
  <2> QED BY <2>1, <2>2, UnchangedNames, QuietChunks
<1>4. CASE SaveSwap(t)
  <2>1. pc[t] = "s_swap" /\ pc' = [pc EXCEPT ![t] = "s_end"]
    BY <1>4 DEF SaveSwap
  <2>2. /\ ~SomeAt(Emptying)' /\ ~SomeAt(Ahead)' /\ ~SomeAt({"o_new"})'
        /\ ~SomeAt(Emptying) /\ ~SomeAt({"o_new"}) /\ SomeAt(SavePoint)
        /\ SomeAt(Ahead) /\ ~SomeAt(SavePoint)'
    BY <2>1, Places, ZenonT(60) DEF WriterHeld, Points, Emptying, Ahead, SavePoint
  <2>3. chunks' = Append(chunks, loc[t].chunk) /\ Len(chunks') = Len(chunks) + 1
    BY <1>0, <1>4, LenProperties DEF SaveSwap, TypeInv, LocsOK, LocIs, LocOK
  <2>4. files'.meta = files.meta /\ files'.chunk = files.chunk /\ base' = base
    BY <1>0, <1>4 DEF SaveSwap, FileFields
  <2>5. Chunked
    OBVIOUS
  <2>6. \A i \in 1..(Len(chunks) + 1) : i \in 1..Len(chunks) \/ i = Len(chunks) + 1
    BY <1>0
  <2>7. FilesThere'
    BY <2>2, <2>3, <2>4, <2>5, <2>6 DEF Chunked, FilesThere, SavedThere, Present, ChunkName
  <2> QED BY <1>0, <2>2, <2>3, <2>4, <2>5, <2>7 DEF Chunked, MetaAgrees, SavedThere, Extra
<1>5. CASE SaveEnd(t) \/ (SaveWrite(t) /\ pc'[t] = "s_end")
  <2>1. UNCHANGED <<files, chunks, base>>
    BY <1>5, ChunkFacts DEF SaveEnd, SaveWrite
  <2>2. pc[t] \in {"s_end", "s_write"} /\ \E l \in {"idle", "s_end"} : pc' = [pc EXCEPT ![t] = l]
    BY <1>5, ChunkFacts DEF SaveEnd, SaveWrite
  <2>3. PcQuiet(t)
    BY <2>2 DEF PcQuiet, Points, Special, SavePoint, Emptying
  <2> QED BY <2>1, <2>3, UnchangedNames, QuietOn
<1> QED BY <1>1, <1>2, <1>3, <1>4, <1>5 DEF SaveDiskChunk

\* Nobody truncates while a flush or a shutdown is under way.
LEMMA NoEmptying ==
  ASSUME TypeInv, NEW t \in Thread, loc[t].op \in {"flush", "shutdown"} PROVE ~SomeAt(Emptying)
<1> SUFFICES ASSUME NEW u \in Thread, pc[u] \in Emptying PROVE FALSE
  BY DEF SomeAt
<1>1. loc[u].op = "truncate"
  BY DEF Emptying, TypeInv, LockInv, ControlOK, OpAt
<1> QED BY <1>1 DEF TypeInv, OpsExclude

\* A flush or a shutdown names the chunks that are online: beside a save one too few.
LEMMA FlushChunks ==
  ASSUME TypeInv, Alone, Chunked, NEW t \in Thread, ForceRamFlush(t) PROVE Chunked'
<1> USE DEF memVars, segVars, killVars, chunkVars, At, Goto, Finish
<1>0. /\ Len(chunks) \in Nat /\ DOMAIN files = FileFields /\ pc \in [Thread -> Points]
      /\ base \in Nat
  BY ChunkFacts
<1>1. CASE FlushMeta(t)
  <2>1. pc[t] = "f_meta" /\ pc' = [pc EXCEPT ![t] = "f_notify"] /\ UNCHANGED <<chunks, base>>
    BY <1>1 DEF FlushMeta
  <2>2. /\ files'.meta.base = base /\ files'.meta.n = Len(chunks) /\ files'.chunk = files.chunk
    BY <1>0, <1>1 DEF FlushMeta, Meta, MetaFile, FileFields
  <2>3. PcQuiet(t)
    BY <2>1 DEF PcQuiet, Points, Special, SavePoint, Emptying
  <2>4. PlacesSame
    BY <2>3, QuietPlaces
  <2>5. loc[t].op \in {"flush", "shutdown"}
    BY <2>1 DEF TypeInv, LockInv, ControlOK, OpAt, FlushHeld
  <2>6. ~SomeAt(Emptying)
    BY <2>5, NoEmptying
  <2>7. NoFlush => ~SomeAt(Ahead)
    <3> SUFFICES ASSUME NoFlush, NEW u \in Thread, pc[u] \in Ahead PROVE FALSE
      BY DEF SomeAt
    <3>1. loc[t].op = "shutdown"
      BY <2>5 DEF NoFlush, Alone, OpsAsked
    <3>2. u # t /\ loc[u].op # "none"
      BY <2>1 DEF Ahead, TypeInv, LockInv, ControlOK, OpAt
    <3> QED BY <3>1, <3>2 DEF Alone, ShutdownAlone
  <2>8. NoFlush' = NoFlush
    BY DEF NoFlush
  <2>9. MetaAgrees'
    BY <1>0, <2>1, <2>2, <2>4, <2>6, <2>7, <2>8 DEF MetaAgrees, PlacesSame, Extra
  <2> QED BY <2>1, <2>2, <2>4, <2>9
          DEF Chunked, FilesThere, SavedThere, PlacesSame, Present, ChunkName
<1>2. CASE FlushRam(t) /\ mode' = "dead"
  <2>1. UNCHANGED <<chunks, base>> /\ files'.meta = files.meta /\ files'.chunk = files.chunk
    BY <1>0, <1>2 DEF FlushRam, FileFields
  <2>2. PcQuiet(t) \/ UNCHANGED pc
    BY <1>2 DEF FlushRam, PcQuiet, Points, Special, SavePoint, Emptying
  <2>3. PlacesSame
    BY <2>2, QuietPlaces DEF PlacesSame, SomeAt
  <2> QED BY <2>1, <2>3, QuietChunks DEF NamesSame
<1>3. CASE ForceRamFlush(t) /\ ~FlushMeta(t) /\ ~(FlushRam(t) /\ mode' = "dead")
  <2>1. UNCHANGED <<chunks, base>> /\ files'.meta = files.meta /\ files'.chunk = files.chunk
    BY <1>0, <1>3 DEF ForceRamFlush, FlushLock, FlushKillOpen, FlushKillDone, FlushRam, FlushFails,
       ShutdownFails, FlushNotify, FlushEnd, FileFields
  <2>2. PcQuiet(t)
    BY <1>3 DEF ForceRamFlush, FlushLock, FlushKillOpen, FlushKillDone, FlushRam, FlushFails,
       ShutdownFails, FlushNotify, FlushEnd, PcQuiet, Points, Special, SavePoint, Emptying
  <2> QED BY <2>1, <2>2, QuietOn DEF NamesSame
<1> QED BY <1>1, <1>2, <1>3

\* TRUNCATE: .meta names none, before and after the chunks go.
LEMMA TruncateChunks ==
  ASSUME TypeInv, Chunked, NEW t \in Thread, Truncate(t) PROVE Chunked'
<1> USE DEF memVars, segVars, killVars, chunkVars, At, Goto, Finish
<1>0. DOMAIN files = FileFields /\ pc \in [Thread -> Points]
  BY ChunkFacts
<1>1. CASE TruncLockWriter(t) \/ TruncLockOuter(t)
  <2>1. UNCHANGED <<files, chunks, base>> /\ PcQuiet(t)
    BY <1>1 DEF TruncLockWriter, TruncLockOuter, PcQuiet, Points, Special, SavePoint, Emptying
  <2> QED BY <2>1, UnchangedNames, QuietOn
<1>2. CASE TruncMeta(t)
  <2>1. pc[t] = "t_meta" /\ pc' = [pc EXCEPT ![t] = "t_notify"]
    BY <1>2 DEF TruncMeta
  <2>2. SomeAt(Emptying)' /\ ~SomeAt(SavePoint)'
    BY <2>1, Places, ZenonT(60) DEF WriterHeld, Points, Emptying, Ahead, SavePoint
  <2>3. base' = 0 /\ files'.meta.base = 0 /\ files'.meta.n = 0
    BY <1>0, <1>2 DEF TruncMeta, MetaFile, FileFields
  <2> QED BY <2>2, <2>3 DEF Chunked, MetaAgrees, FilesThere, SavedThere
<1>3. CASE TruncNotify(t) \/ TruncRam(t) \/ TruncChunks(t)
  <2>1. /\ pc[t] \in Emptying
        /\ \E l \in {"t_ram", "t_chunks", "t_mem"} : pc' = [pc EXCEPT ![t] = l]
    BY <1>3 DEF TruncNotify, TruncRam, TruncChunks, Emptying
  <2>2. SomeAt(Emptying) /\ SomeAt(Emptying)' /\ ~SomeAt(SavePoint)'
    BY <2>1, Places, ZenonT(60) DEF WriterHeld, Points, Emptying, Ahead, SavePoint
  <2>3. base' = base /\ files'.meta = files.meta
    BY <1>0, <1>3 DEF TruncNotify, TruncRam, TruncChunks, FileFields
  <2> QED BY <2>2, <2>3 DEF Chunked, MetaAgrees, FilesThere, SavedThere
<1>4. CASE TruncMem(t)
  <2>1. pc[t] = "t_mem" /\ pc' = [pc EXCEPT ![t] = "idle"]
    BY <1>4 DEF TruncMem
  <2>2. SomeAt(Emptying) /\ ~SomeAt(Emptying)' /\ ~SomeAt(SavePoint)' /\ ~SomeAt(Ahead)'
    BY <2>1, Places, ZenonT(60) DEF WriterHeld, Points, Emptying, Ahead, SavePoint
  <2>3. base' = base /\ files' = files /\ chunks' = <<>> /\ Len(chunks') = 0
    BY <1>4 DEF TruncMem
  <2> QED BY <2>2, <2>3 DEF Chunked, MetaAgrees, FilesThere, SavedThere, Extra
<1> QED BY <1>1, <1>2, <1>3, <1>4 DEF Truncate

\* OPTIMIZE: the file of the second chunk goes and comes back, the oldest one's when .meta
\* does not name it any more.
LEMMA OptimizeChunks ==
  ASSUME TypeInv, Chunked, NEW t \in Thread, Optimize(t) PROVE Chunked'
<1> USE DEF memVars, segVars, killVars, chunkVars, At, Goto, Finish
<1>0. /\ Len(chunks) \in Nat /\ base \in Nat /\ files.meta.n \in Nat /\ files.meta.base \in Nat
      /\ DOMAIN files = FileFields /\ chunks \in Seq(Chunk) /\ pc \in [Thread -> Points]
      /\ pc[t] \in {"o_old", "o_new", "o_swap"} => Len(chunks) >= 2
  BY ChunkFacts DEF TypeInv, MemOK, TwoChunks
<1>1. CASE OptRenameOld(t)
  <2>1. pc[t] = "o_old" /\ pc' = [pc EXCEPT ![t] = "o_new"]
    BY <1>1 DEF OptRenameOld
  <2>2. /\ ~SomeAt(Emptying) /\ ~SomeAt(Ahead) /\ ~SomeAt({"o_new"})
        /\ ~SomeAt(Emptying)' /\ ~SomeAt(Ahead)' /\ ~SomeAt(SavePoint)' /\ SomeAt({"o_new"})'
    BY <2>1, Places, ZenonT(60) DEF WriterHeld, Points, Emptying, Ahead, SavePoint
  <2>3. /\ files'.meta = files.meta /\ UNCHANGED <<chunks, base>>
        /\ \A n : n \in DOMAIN files.chunk /\ n # ChunkName(2) => n \in DOMAIN files'.chunk
    BY <1>0, <1>1 DEF OptRenameOld, FileFields, Restrict
  <2>4. \A i \in 1..Len(chunks) : i # 2 => ChunkName(i) # ChunkName(2)
    BY <1>0 DEF ChunkName
  <2> QED BY <2>2, <2>3, <2>4
          DEF Chunked, MetaAgrees, FilesThere, SavedThere, Present, ChunkName, Extra
<1>2. CASE OptRenameNew(t) \/ (OptRenameFails(t) /\ pc[t] = "o_new")
  <2>1. pc[t] = "o_new" /\ \E l \in {"o_swap", "idle"} : pc' = [pc EXCEPT ![t] = l]
    BY <1>2 DEF OptRenameNew, OptRenameFails
  <2>2. /\ ~SomeAt(Emptying) /\ ~SomeAt(Ahead) /\ SomeAt({"o_new"})
        /\ ~SomeAt(Emptying)' /\ ~SomeAt(Ahead)' /\ ~SomeAt(SavePoint)' /\ ~SomeAt({"o_new"})'
    BY <2>1, Places, ZenonT(60) DEF WriterHeld, Points, Emptying, Ahead, SavePoint
  <2>3. /\ files'.meta = files.meta /\ UNCHANGED <<chunks, base>>
        /\ DOMAIN files'.chunk = DOMAIN files.chunk \cup {ChunkName(2)}
    BY <1>0, <1>2 DEF OptRenameNew, OptRenameFails, FileFields
  <2> QED BY <2>2, <2>3
          DEF Chunked, MetaAgrees, FilesThere, SavedThere, Present, ChunkName, Extra
<1>3. CASE OptSwap(t)
  <2>1. pc[t] = "o_swap" /\ pc' = [pc EXCEPT ![t] = "o_unlink"]
    BY <1>3 DEF OptSwap
  <2>2. /\ ~SomeAt(Emptying) /\ ~SomeAt(Ahead) /\ ~SomeAt({"o_new"})
        /\ ~SomeAt(Emptying)' /\ ~SomeAt(Ahead)' /\ ~SomeAt(SavePoint)' /\ ~SomeAt({"o_new"})'
    BY <2>1, Places, ZenonT(60) DEF WriterHeld, Points, Emptying, Ahead, SavePoint
  <2>3. PICK n : n = Len(chunks)
    OBVIOUS
  <2>4. n \in Nat /\ n >= 2
    BY <1>0, <2>1, <2>3
  <2>5. Len(chunks') = n - 1
    <3> DEFINE rest == SubSeq(chunks, 3, n)
               one == <<loc[t].chunk>>
    <3>1. rest \in Seq(Chunk) /\ Len(rest) = n - 2
      BY <1>0, <2>3, <2>4, SubSeqProperties
    <3>2. loc[t].chunk \in Chunk
      BY DEF TypeInv, LocsOK, LocIs, LocOK
    <3>3. one \in Seq(Chunk) /\ Len(one) = 1
      BY <3>2
    <3>4. chunks' = one \o rest
      BY <1>3, <2>3 DEF OptSwap
    <3> HIDE DEF rest, one
    <3>5. Len(one \o rest) = Len(one) + Len(rest)
      BY <3>1, <3>3, ConcatProperties
    <3> QED BY <2>4, <3>1, <3>3, <3>4, <3>5
  <2>6. /\ base' = base + 1 /\ files'.meta.base = base + 1 /\ files'.meta.n = n - 1
        /\ files'.chunk = files.chunk
    BY <1>0, <1>3, <2>3 DEF OptSwap, MetaFile, FileFields
  <2>7. FilesThere'
    <3>1. ASSUME NEW i \in 1..(n - 1) PROVE base + i \in DOMAIN files.chunk
      <4>1. i + 1 \in 1..Len(chunks) /\ ChunkName(i + 1) = base + i
        BY <1>0, <2>3, <2>4 DEF ChunkName
      <4> QED BY <2>2, <4>1 DEF Chunked, FilesThere, Present
    <3>2. \A i \in 1..(n - 1) : ChunkName(i)' = base + i
      BY <1>0, <2>4, <2>6 DEF ChunkName
    <3>3. \A i \in 1..(n - 1) : Present(ChunkName(i))'
      BY <2>6, <3>1, <3>2 DEF Present
    <3> QED BY <2>5, <3>3 DEF FilesThere
  <2> QED BY <2>2, <2>4, <2>5, <2>6, <2>7 DEF Chunked, MetaAgrees, SavedThere, Extra
<1>4. CASE OptUnlink(t)
  <2>1. pc[t] = "o_unlink" /\ \E l \in {"o_klist", "idle"} : pc' = [pc EXCEPT ![t] = l]
    BY <1>4 DEF OptUnlink, NextRound
  <2>2. PcQuiet(t)
    BY <2>1 DEF PcQuiet, Points, Special, SavePoint, Emptying
  <2>3. PlacesSame
    BY <2>2, QuietPlaces
  <2>4. /\ files'.meta = files.meta /\ UNCHANGED <<chunks, base>>
        /\ \A n : n \in DOMAIN files.chunk /\ n # base - 1 => n \in DOMAIN files'.chunk
    BY <1>0, <1>4 DEF OptUnlink, FileFields, Restrict
  <2>5. \A i \in 1..(Len(chunks) + 1) : ChunkName(i) # base - 1
    BY <1>0 DEF ChunkName
  <2>6. FilesThere' /\ SavedThere'
    BY <1>0, <2>3, <2>4, <2>5
       DEF Chunked, FilesThere, SavedThere, PlacesSame, Present, ChunkName
  <2> QED BY <2>3, <2>4, <2>6 DEF Chunked, MetaAgrees, PlacesSame, Extra
<1>5. CASE \/ OptKlist(t) \/ OptMerge(t) \/ OptGiveUp(t) \/ OptLockWriter(t) \/ OptLockOuter(t)
           \/ OptLeaveFiles(t) \/ (OptRenameFails(t) /\ pc[t] # "o_new")
  <2>1. UNCHANGED <<files, chunks, base>>
    BY <1>5 DEF OptKlist, OptMerge, OptGiveUp, OptLockWriter, OptLockOuter, OptLeaveFiles,
       OptRenameFails
  <2>2. PcQuiet(t)
    BY <1>5 DEF OptKlist, OptMerge, OptGiveUp, OptLockWriter, OptLockOuter, OptLeaveFiles,
       OptRenameFails, PcQuiet, Points, Special, SavePoint, Emptying
  <2> QED BY <2>1, <2>2, UnchangedNames, QuietOn
<1> QED BY <1>1, <1>2, <1>3, <1>4, <1>5 DEF Optimize

\* What a stop leaves is what .meta names, but between OPTIMIZE's renames.
LEMMA StopStarts ==
  ASSUME TypeInv, Chunked, Stop, ~SomeAt({"o_new"}) PROVE Startable'
<1>0. /\ Len(chunks) \in Nat /\ base \in Nat /\ files.meta.n \in Nat /\ files.meta.base \in Nat
  BY ChunkFacts
<1>1. \A n \in MetaChunks : Present(n)
  <2>1. CASE SomeAt(Emptying)
    BY <1>0, <2>1 DEF Chunked, MetaAgrees, MetaChunks
  <2>2. CASE ~SomeAt(Emptying)
    <3> SUFFICES ASSUME NEW n \in MetaChunks PROVE Present(n)
      OBVIOUS
    <3>1. files.meta.base = base /\ files.meta.n <= Len(chunks) + Extra
      BY <2>2 DEF Chunked, MetaAgrees
    <3> DEFINE i == n - base + 1
    <3>2. n \in Int /\ base <= n /\ n <= base + Len(chunks) + Extra - 1
      BY <1>0, <3>1 DEF MetaChunks, Extra
    <3>3. i \in Int /\ 1 <= i /\ ChunkName(i) = n
      BY <1>0, <3>2 DEF ChunkName
    <3>4. CASE i <= Len(chunks)
      <4>1. i \in 1..Len(chunks)
        BY <1>0, <3>3, <3>4
      <4> QED BY <2>2, <3>3, <4>1 DEF Chunked, FilesThere
    <3>5. CASE i > Len(chunks)
      <4>1. i = Len(chunks) + 1 /\ SomeAt(Ahead)
        BY <1>0, <3>2, <3>5 DEF Extra
      <4>2. SomeAt(SavePoint)
        BY <4>1 DEF SomeAt, Ahead, SavePoint
      <4> QED BY <3>3, <4>1, <4>2 DEF Chunked, SavedThere
    <3> QED BY <1>0, <3>3, <3>4, <3>5
  <2> QED BY <2>1, <2>2
<1>2. files' = files
  BY DEF Stop
<1> QED BY <1>1, <1>2 DEF Startable, MetaChunks, Present

\* A start brings online what .meta names.
LEMMA RestartChunks ==
  ASSUME TypeInv, Restart, mode' = "replay" PROVE Chunked'
<1>0. /\ files.meta.n \in Nat /\ files.meta.base \in Nat /\ \A u \in Thread : pc[u] = "idle"
  BY ChunkFacts DEF TypeInv, StoppedIdle, Restart
<1>1. /\ MetaChunks \subseteq DOMAIN files.chunk
      /\ chunks' = [i \in 1..files.meta.n |-> files.chunk[files.meta.base + i - 1]]
      /\ base' = files.meta.base /\ UNCHANGED <<files, pc>>
  BY DEF Restart
<1>2. Len(chunks') = files.meta.n
  <2>1. chunks' \in Seq(Chunk)
    BY RecoveryMem DEF Recovery, MemOK
  <2>2. DOMAIN chunks' = 1..Len(chunks') /\ Len(chunks') \in Nat
    BY <2>1, LenProperties
  <2>3. DOMAIN chunks' = 1..files.meta.n
    BY <1>1
  <2> QED BY <1>0, <2>2, <2>3
<1>3. ~SomeAt(Emptying)' /\ ~SomeAt(Ahead)' /\ ~SomeAt(SavePoint)'
  BY <1>0, <1>1 DEF SomeAt, Emptying, Ahead, SavePoint
<1>4. \A i \in 1..files.meta.n : files.meta.base + i - 1 \in DOMAIN files.chunk
  <2> SUFFICES ASSUME NEW i \in 1..files.meta.n PROVE files.meta.base + i - 1 \in MetaChunks
    BY <1>1
  <2> QED BY <1>0 DEF MetaChunks
<1> QED BY <1>0, <1>1, <1>2, <1>3, <1>4
        DEF Chunked, MetaAgrees, FilesThere, SavedThere, Present, ChunkName, Extra

\* With one flush at a time nobody takes the .ram.new of another.
LEMMA RamStays ==
  ASSUME TypeInv, Alone, RamThere, NEW t \in Thread, BeginAny(t) \/ (Step(t) /\ ~ShutdownEnd(t))
  PROVE  RamThere'
<1> USE DEF At, Goto, Finish, Begin
<1>0. DOMAIN files = FileFields /\ pc \in [Thread -> Points]
  BY ChunkFacts
<1>1. CASE FlushRam(t)
  <2> SUFFICES ASSUME OneFlusher, NEW u \in Thread, pc'[u] = "f_ram" PROVE files'.newRam
    BY DEF RamThere, OneFlusher
  <2>1. pc[t] = "f_ram" /\ files.newRam /\ pc' = [pc EXCEPT ![t] = "f_meta"]
    BY <1>1 DEF FlushRam, RamThere
  <2>2. u # t /\ pc[u] = "f_ram"
    BY <1>0, <2>1
  <2>3. loc[t].op \in {"flush", "shutdown"} /\ loc[u].op \in {"flush", "shutdown"}
    BY <2>1, <2>2 DEF TypeInv, LockInv, ControlOK, OpAt, FlushHeld
  <2>4. "flush" \notin Ops
    BY <2>2 DEF OneFlusher
  <2> QED BY <2>2, <2>3, <2>4 DEF Alone, OpsAsked, ShutdownAlone
<1>2. CASE FlushKillDone(t)
  <2>1. files'.newRam
    BY <1>0, <1>2 DEF FlushKillDone, FileFields
  <2> QED BY <2>1 DEF RamThere
<1>3. ASSUME files'.newRam = files.newRam, pc'[t] # "f_ram" \/ pc[t] = "f_ram",
             \A u \in Thread \ {t} : pc'[u] = pc[u]
      PROVE  RamThere'
  BY <1>3 DEF RamThere, OneFlusher
<1>4. CASE BeginAny(t)
  BY <1>0, <1>3, <1>4 DEF BeginAny, CommitBegin, DiskBegin, FlushBegin, ShutdownBegin, UpdateBegin,
     SaveAttributes, QueryBegin, TruncBegin, OptBegin, FileFields
<1>5. CASE Commit(t)
  <2>1. CASE CommitLive(t)
    <3>1. UNCHANGED files /\ \E l \in {"c_outer", "idle"} : pc' = [pc EXCEPT ![t] = l]
      BY <2>1, Zenon DEF CommitLive
    <3> QED BY <1>0, <1>3, <3>1
  <2>2. CASE ~CommitLive(t)
    BY <1>0, <1>3, <1>5, <2>2 DEF Commit, CommitLockWriter, CommitLockInner, CommitBinlog,
       CommitMark, CommitMerge, CommitMergeDone, CommitCount, CommitDump
  <2> QED BY <2>1, <2>2
<1>6. CASE SaveDiskChunk(t) \/ ForceDiskChunk(t)
  BY <1>0, <1>3, <1>6 DEF SaveDiskChunk, SaveWrite, SaveMeta, SaveLockInner, SaveSwap, SaveEnd,
     ForceDiskChunk, DiskLockWriter, DiskLockOuter, DiskKlist, FileFields
<1>7. CASE ForceRamFlush(t) /\ ~FlushRam(t) /\ ~FlushKillDone(t)
  BY <1>0, <1>3, <1>7 DEF ForceRamFlush, FlushLock, FlushKillOpen, FlushFails, ShutdownFails,
     FlushMeta, FlushNotify, FlushEnd, FileFields
<1>8. CASE UpdateAttributes(t) \/ MultiQuery(t)
  BY <1>0, <1>3, <1>8 DEF UpdateAttributes, UpdateLock, UpdateApply, UpdateLog, MultiQuery,
     QueryDisk, QueryRam, QueryEnd
<1>9. CASE Truncate(t)
  BY <1>0, <1>3, <1>9 DEF Truncate, TruncLockWriter, TruncLockOuter, TruncMeta, TruncNotify,
     TruncRam, TruncChunks, TruncMem, FileFields
<1>10. CASE Optimize(t)
  BY <1>0, <1>3, <1>10 DEF Optimize, OptKlist, OptMerge, OptGiveUp, OptLockWriter, OptLockOuter,
     OptRenameOld, OptRenameFails, OptRenameNew, OptSwap, OptUnlink, OptLeaveFiles, NextRound,
     FileFields
<1> QED BY <1>1, <1>2, <1>4, <1>5, <1>6, <1>7, <1>8, <1>9, <1>10 DEF Step

\* A step of a thread but the last of a shutdown leaves the process as it is, or it dies
\* because its .ram.new is gone.
LEMMA StepMode ==
  ASSUME NEW t \in Thread, Step(t), ~ShutdownEnd(t)
  PROVE  mode' = mode \/ (mode' = "dead" /\ pc[t] = "f_ram" /\ ~files.newRam)
<1>1. CASE FlushRam(t)
  BY <1>1 DEF FlushRam, envVars, At
<1>2. CASE Commit(t)
  <2>1. CASE CommitLive(t)
    BY <2>1, Zenon DEF CommitLive, envVars
  <2>2. CASE ~CommitLive(t)
    BY <1>2, <2>2 DEF Commit, CommitLockWriter, CommitLockInner, CommitBinlog, CommitMark,
       CommitMerge, CommitMergeDone, CommitCount, CommitDump, envVars
  <2> QED BY <2>1, <2>2
<1>3. CASE SaveDiskChunk(t) \/ ForceDiskChunk(t)
  BY <1>3 DEF SaveDiskChunk, SaveWrite, SaveMeta, SaveLockInner, SaveSwap, SaveEnd,
     ForceDiskChunk, DiskLockWriter, DiskLockOuter, DiskKlist, envVars
<1>4. CASE ForceRamFlush(t) /\ ~FlushRam(t)
  BY <1>4 DEF ForceRamFlush, FlushLock, FlushKillOpen, FlushKillDone, FlushFails, ShutdownFails,
     FlushMeta, FlushNotify, FlushEnd, envVars
<1>5. CASE UpdateAttributes(t) \/ MultiQuery(t)
  BY <1>5 DEF UpdateAttributes, UpdateLock, UpdateApply, UpdateLog, MultiQuery, QueryDisk,
     QueryRam, QueryEnd, envVars
<1>6. CASE Truncate(t)
  BY <1>6 DEF Truncate, TruncLockWriter, TruncLockOuter, TruncMeta, TruncNotify, TruncRam,
     TruncChunks, TruncMem, envVars
<1>7. CASE Optimize(t)
  BY <1>7 DEF Optimize, OptKlist, OptMerge, OptGiveUp, OptLockWriter, OptLockOuter, OptRenameOld,
     OptRenameFails, OptRenameNew, OptSwap, OptUnlink, OptLeaveFiles, envVars
<1> QED BY <1>1, <1>2, <1>3, <1>4, <1>5, <1>6, <1>7 DEF Step

LEMMA InitStart == Init => StartInv
<1> SUFFICES ASSUME Init PROVE StartInv
  OBVIOUS
<1>1. QueryInv
  BY InitTypes DEF QueryInv, ReplayAlone, Init
<1>2. Alone /\ RamThere /\ NotDead
  BY DEF Init, Alone, OpsAsked, ShutdownAlone, NoLoc, RamThere, NotDead
<1>3. \A S \in {Emptying, Ahead, SavePoint} : ~SomeAt(S)
  BY DEF Init, SomeAt, Emptying, Ahead, SavePoint
<1>4. base = 0 /\ files.meta.base = 0 /\ files.meta.n = 0 /\ chunks = <<>> /\ Len(chunks) = 0
  BY DEF Init, NoFiles
<1>5. Chunked
  BY <1>3, <1>4 DEF Chunked, MetaAgrees, FilesThere, SavedThere, Extra
<1> QED BY <1>1, <1>2, <1>5 DEF StartInv, Init

LEMMA StartKept == ASSUME StartInv, [Next]_vars PROVE StartInv'
<1>0. TypeInv /\ Alone /\ RamThere /\ NotDead
  BY DEF StartInv, QueryInv
<1>1. QueryInv'
  BY TypeInvKept, ReplayKept DEF StartInv, QueryInv
<1>2. ASSUME NEW t \in Thread, BeginAny(t) PROVE StartInv'
  <2>1. mode' = mode /\ mode = "up"
    BY <1>2 DEF BeginAny, CommitBegin, DiskBegin, FlushBegin, ShutdownBegin, UpdateBegin,
       SaveAttributes, QueryBegin, TruncBegin, OptBegin, Begin, envVars
  <2>2. Alone'
    BY <1>0, <1>2, BeginAlone
  <2>3. RamThere'
    BY <1>0, <1>2, RamStays
  <2>4. Chunked'
    BY <1>0, <1>2, <2>1, BeginChunks DEF StartInv
  <2> QED BY <1>0, <1>1, <2>1, <2>2, <2>3, <2>4 DEF StartInv, NotDead, OneFlusher
<1>3. ASSUME NEW t \in Thread, Step(t), ~ShutdownEnd(t) PROVE StartInv'
  <2>1. mode \in {"up", "replay"}
    BY <1>3 DEF Step
  <2>2. mode' = mode \/ (mode' = "dead" /\ pc[t] = "f_ram" /\ ~files.newRam)
    BY <1>3, StepMode
  <2>3. Alone'
    BY <1>0, <1>3, StepAlone
  <2>4. RamThere'
    BY <1>0, <1>3, RamStays
  <2>5. Chunked'
    BY <1>0, <1>3, <2>1, CommitChunks, SaveChunks, FlushChunks, UpdateChunks, TruncateChunks,
       OptimizeChunks DEF StartInv, Step
  <2>6. NotDead'
    BY <1>0, <2>1, <2>2 DEF NotDead, RamThere, OneFlusher
  <2> QED BY <1>1, <2>1, <2>2, <2>3, <2>4, <2>5, <2>6 DEF StartInv
<1>4. ASSUME Stop, mode \in {"up", "replay"}, "o_new" \notin CrashAt => ~SomeAt({"o_new"})
      PROVE  StartInv'
  <2>1. Alone' /\ RamThere' /\ NotDead' /\ mode' = "down"
    BY <1>4 DEF Stop, Alone, OpsAsked, ShutdownAlone, NoLoc, RamThere, NotDead
  <2>2. Startable'
    BY <1>0, <1>4, StopStarts DEF StartInv, Startable
  <2> QED BY <1>1, <2>1, <2>2 DEF StartInv
<1>5. ASSUME NEW t \in Thread, Step(t), ShutdownEnd(t) PROVE StartInv'
  <2>1. pc[t] = "f_end" /\ loc[t].op = "shutdown" /\ mode \in {"up", "replay"} /\ Stop
    BY <1>5 DEF ShutdownEnd, Step, At
  <2>2. \A u \in Thread \ {t} : pc[u] = "idle"
    BY <1>0, <2>1 DEF Alone, ShutdownAlone, TypeInv, LockInv, ControlOK, OpAt
  <2> QED BY <1>4, <2>1, <2>2 DEF SomeAt
<1>6. CASE Crash
  BY <1>4, <1>6 DEF Crash, SomeAt
<1>7. CASE Recovery
  <2>1. Alone'
    BY <1>7, RecoveryAlone
  <2>2. CASE Restart
    <3>1. /\ UNCHANGED <<files, pc>> /\ mode = "down"
          /\ \/ mode' = "replay"
             \/ mode' = "dead" /\ ~(MetaChunks \subseteq DOMAIN files.chunk)
      BY <2>2 DEF Restart
    <3>2. RamThere'
      BY <1>0, <3>1 DEF RamThere, OneFlusher
    <3>3. NotDead'
      BY <3>1 DEF StartInv, Startable, Present, NotDead
    <3>4. mode' = "replay" => Chunked'
      BY <1>0, <2>2, RestartChunks
    <3> QED BY <1>1, <2>1, <3>1, <3>2, <3>3, <3>4 DEF StartInv
  <2>3. CASE ReplayCommit
    <3>1. /\ UNCHANGED <<files, chunks, base, mode>> /\ mode = "replay"
          /\ pc[Replayer] = "idle" /\ pc' = [pc EXCEPT ![Replayer] = "c_writer"]
      BY <2>3 DEF ReplayCommit, ReplayIdle, At, Goto, memVars, chunkVars, envVars
    <3>2. Replayer \in Thread
      BY ThreadAssumption DEF Replayer
    <3>3. PcQuiet(Replayer)
      BY <3>1 DEF PcQuiet, Points, Special, SavePoint, Emptying
    <3>4. Chunked'
      BY <1>0, <3>1, <3>2, <3>3, UnchangedNames, QuietOn DEF StartInv
    <3>5. RamThere' /\ NotDead'
      BY <1>0, <3>1, ChunkFacts DEF RamThere, NotDead, OneFlusher
    <3> QED BY <1>1, <2>1, <3>1, <3>4, <3>5 DEF StartInv
  <2>4. CASE ReplayUpdateAttributes \/ ReplayDone
    <3>1. UNCHANGED <<files, base, pc>> /\ mode = "replay" /\ mode' \in {"replay", "up"}
      BY <2>4 DEF ReplayUpdateAttributes, ReplayDone, ReplayIdle, memVars, chunkVars, envVars
    <3>2. Len(chunks') = Len(chunks)
      <4>1. CASE ReplayDone
        BY <4>1 DEF ReplayDone, memVars, chunkVars
      <4>2. CASE ReplayUpdateAttributes
        <5>1. PICK n \in DOMAIN log : WriteAttr(log[n].adds)
          BY <4>2 DEF ReplayUpdateAttributes
        <5>2. log[n].adds \in Rows
          BY <1>0, <5>1 DEF TypeInv, FilesOK
        <5> QED BY <1>0, <5>1, <5>2, WriteAttrType DEF TypeInv, MemOK
      <4> QED BY <2>4, <4>1, <4>2
    <3>3. PlacesSame
      BY <3>1 DEF PlacesSame, SomeAt
    <3>4. Chunked'
      BY <3>1, <3>2, <3>3, QuietChunks DEF StartInv, NamesSame
    <3>5. RamThere' /\ NotDead'
      BY <1>0, <3>1 DEF RamThere, NotDead, OneFlusher
    <3> QED BY <1>1, <2>1, <3>1, <3>4, <3>5 DEF StartInv
  <2> QED BY <1>7, <2>2, <2>3, <2>4 DEF Recovery
<1>8. CASE UNCHANGED vars
  <2>1. UNCHANGED <<files, chunks, base, mode, pc, loc>>
    BY <1>8 DEF vars, memVars, chunkVars, envVars
  <2>2. PlacesSame /\ NamesSame
    BY <2>1, UnchangedNames DEF PlacesSame, SomeAt
  <2>3. mode \in {"up", "replay"} => Chunked'
    BY <2>2, QuietChunks DEF StartInv
  <2>4. Alone' /\ RamThere' /\ NotDead'
    BY <1>0, <2>1 DEF Alone, OpsAsked, ShutdownAlone, RamThere, NotDead, OneFlusher
  <2>5. Startable' <=> Startable
    BY <2>1 DEF Startable, MetaChunks, Present
  <2> QED BY <1>1, <2>1, <2>3, <2>4, <2>5 DEF StartInv
<1> QED BY <1>2, <1>3, <1>5, <1>6, <1>7, <1>8 DEF Next

\* .meta is right when nothing is under way, over crashes and restarts too, whatever saves,
\* chunk merges and truncates ran beside each other: each writes it under the locks under
\* which it brings chunks online.  Only a flush writes it without, so none is assumed.
THEOREM MetaIsRight == ASSUME NoFlush PROVE Spec => []MetaNamesChunks
<1>1. StartInv => MetaNamesChunks
  <2> SUFFICES ASSUME StartInv, mode = "up", \A t \in Thread : loc[t].op \in {"none", "query"}
               PROVE  /\ files.meta.base = base /\ files.meta.n = Len(chunks)
                      /\ \A i \in DOMAIN chunks : ChunkName(i) \in DOMAIN files.chunk
    BY DEF MetaNamesChunks
  <2>1. /\ Len(chunks) \in Nat /\ DOMAIN chunks = 1..Len(chunks)
    BY ChunkFacts DEF StartInv, QueryInv
  <2>2. \A t \in Thread : pc[t] \notin Emptying \cup Ahead \cup {"o_new"}
    BY DEF StartInv, QueryInv, TypeInv, LockInv, ControlOK, OpAt, Emptying, Ahead
  <2>3. ~SomeAt(Emptying) /\ ~SomeAt(Ahead) /\ ~SomeAt({"o_new"})
    BY <2>2 DEF SomeAt
  <2> QED BY <2>1, <2>3 DEF StartInv, Chunked, MetaAgrees, FilesThere, Present, Extra
<1>2. StartInv /\ [Next]_vars => StartInv'
  BY StartKept
<1> QED BY <1>1, <1>2, InitStart, PTL DEF Spec

\* The index always starts again, whenever it is stopped or crashes, except between the two
\* renames of OPTIMIZE; and no flush dies for its .ram.new, if flushes come one at a time.
THEOREM StartsAlways ==
  ASSUME OneFlusher, "o_new" \notin CrashAt PROVE Spec => []Restartable
<1>1. StartInv => Restartable
  BY DEF StartInv, NotDead, Restartable
<1>2. StartInv /\ [Next]_vars => StartInv'
  BY StartKept
<1> QED BY <1>1, <1>2, InitStart, PTL DEF Spec

-----------------------------------------------------------------------------
(* What a start makes of the files. *)

\* The points at which .meta, .ram, .kill and the chunks do not go together.
Unsettled   == {"s_inner", "s_swap", "t_notify", "t_ram"}
HalfWritten == Unsettled \cup {"f_killed"}

\* No UPDATE and no OPTIMIZE; a flush runs beside nothing else; what a shutdown writes is
\* written; no commit without rows dumps; and no crash comes at one of those points.  The
\* code loses data without each of these.
Careful ==
    /\ "update" \notin Ops /\ "optimize" \notin Ops
    /\ OneFlusher /\ "shutdown" \notin IoFaults /\ ~DumpOnDelete
    /\ CrashAt \cap HalfWritten = {}

Alive == mode \in {"up", "replay"}

\* The log has a transaction on d that is newer than n.
Since(n, d) == \E m \in DOMAIN log : m > n /\ d \in log[m].kill

\* The last logged transaction on a document made it what it is.
LogSays ==
    \A d \in Doc, m \in DOMAIN log :
       m > files.meta.tid /\ d \in log[m].kill /\ ~Since(m, d) => store[d] = log[m].adds[d]

LogOK ==
    /\ \A m \in DOMAIN log :
         /\ ~log[m].upd
         /\ \A d \in Doc : log[m].adds[d] # NoRow => d \in log[m].kill
    /\ mode = "up" => \A m \in DOMAIN log : m <= tid
    /\ Alive => files.meta.tid <= tid
    /\ files.meta.base = 0

\* Only the replayed transaction runs before the server is up.
ReplayOne ==
    mode = "replay" => \A t \in Thread : loc[t].op # "none" => t = Replayer /\ loc[t].etid > 0

\* The logged transaction that t commits.
Entry(t, m) ==
    /\ m \in DOMAIN log /\ m > files.meta.tid
    /\ log[m].adds = loc[t].adds /\ log[m].kill = loc[t].kill

Replays(t) ==
    loc[t].etid > 0 =>
      /\ mode = "replay" /\ loc[t].op = "commit"
      /\ NextEntry(loc[t].etid) /\ Entry(t, loc[t].etid)

Begun    == {"c_mark", "c_merge", "c_count", "c_live"}
Settling == {"c_outer", "s_write", "s_meta", "s_inner", "s_swap", "s_end"}

Commits(t) ==
    /\ pc[t] \in Begun /\ loc[t].etid = 0 =>
         Entry(t, tid) /\ \A d \in loc[t].kill : store[d] = loc[t].adds[d]
    /\ pc[t] \in {"c_merge", "c_count", "c_live"} \cup Settling => loc[t].tid = tid
    /\ pc[t] \in {"c_count", "c_live"} /\ loc[t].dump => loc[t].adds # NoRows
    /\ pc[t] \in {"c_outer", "s_write"} /\ loc[t].op = "commit" => DOMAIN segs # {}
    /\ pc[t] \in Settling /\ loc[t].etid > 0 =>
         \A d \in Doc : ~Since(loc[t].etid, d) => Visible[d] = store[d]

Saves(t) ==
    /\ pc[t] \in SavePoint => files.chunk[Len(chunks)] = loc[t].chunk
    /\ pc[t] \in Ahead => files.meta.n = Len(chunks) + 1
    /\ pc[t] \in Ahead \/ (pc[t] = "s_end" /\ loc[t].op = "commit") => files.meta.tid = tid

Flushes(t) ==
    /\ pc[t] \in {"f_ram", "f_meta", "f_notify", "f_end"} => files.kill = klist
    /\ pc[t] \in {"f_meta", "f_notify", "f_end"} => files.hasRam /\ files.ram = segs
    /\ pc[t] \in {"f_notify", "f_end"} => files.meta.tid = tid

Empties(t) ==
    /\ pc[t] \in Emptying => store = NoRows /\ files.meta.tid = tid
    /\ pc[t] \in {"t_chunks", "t_mem"} => ~files.hasRam

WorkOK(t) == Replays(t) /\ Commits(t) /\ Saves(t) /\ Flushes(t) /\ Empties(t)

\* A commit that has been logged and not yet brought online changes d.
Touches(t, d) == pc[t] \in Begun /\ loc[t].etid = 0 /\ d \in loc[t].kill

\* Queries find what the transactions made, up to the last replayed one.
MemShows ==
    Alive /\ ~SomeAt(Emptying) =>
      \A d \in Doc : ~Since(tid, d) /\ (\A t \in Thread : ~Touches(t, d)) => Visible[d] = store[d]

\* The rows a start finds in the files, and what the kill-list hides with them; the .kill
\* file, or what it is about to be.
Loaded == files.meta.saved /\ files.hasRam
Kills  == IF SomeAt({"f_killed"}) THEN klist ELSE files.kill
Hides(d) == Loaded /\ d \in Kills
FileRam(d) == {g \in DOMAIN files.ram : Loaded /\ AliveRow(files.ram[g], d)}
LiveInFile(i, d) == /\ HasRow(files.chunk[i - 1], d)
                    /\ \A j \in (i + 1)..files.meta.n : d \notin files.chunk[j - 1].klist
FileDisk(d) == {i \in 1..files.meta.n : LiveInFile(i, d)}

FileCopies ==
    \A d \in Doc :
      /\ \A g, h \in FileRam(d) : g = h
      /\ \A i, j \in FileDisk(d) : i = j
      /\ FileRam(d) # {} /\ FileDisk(d) # {} => Hides(d)

FileShows ==
    \A d \in Doc : ~Since(files.meta.tid, d) =>
      /\ \A g \in FileRam(d) : files.ram[g].row[d] = store[d]
      /\ \A i \in FileDisk(d) : ~Hides(d) => files.chunk[i - 1].row[d] = store[d]
      /\ store[d] # NoRow => FileRam(d) # {} \/ (FileDisk(d) # {} /\ ~Hides(d))

KillsLogged ==
    Alive /\ Loaded => Kills \subseteq klist /\ \A d \in klist \ Kills : Since(files.meta.tid, d)

FileInv == ~(Alive /\ SomeAt(Unsettled)) => FileCopies /\ FileShows /\ KillsLogged

ChunksStored ==
    Alive =>
      /\ ~SomeAt({"t_mem"}) => \A i \in DOMAIN chunks : files.chunk[i - 1] = chunks[i]
      /\ ~SomeAt(Unsettled) /\ ~SomeAt(Emptying) => files.meta.n = Len(chunks)

Cleared == mode = "down" => dklist = {} /\ \A t \in Thread : loc[t].etid = 0

\* The inductive invariant, beside StartInv, AliveInv and ValueInv.
KeepInv ==
    /\ LogSays /\ LogOK /\ ReplayOne /\ MemShows /\ FileInv /\ ChunksStored /\ Cleared
    /\ \A t \in Thread : WorkOK(t)

DurInv == StartInv /\ AliveInv /\ ValueInv /\ KeepInv

Working == WriterHeld \cup FlushHeld

-----------------------------------------------------------------------------
(* Who works on the data and the files. *)

LEMMA KeepFacts ==
  ASSUME Careful, DurInv
  PROVE  /\ TypeInv /\ MemOK /\ FilesOK /\ Alone /\ Locking /\ NobodyUpdates
         /\ OneCopy /\ OldKills /\ AliveInv /\ ValueInv /\ KeepInv /\ StartInv
         /\ pc \in [Thread -> Points] /\ DOMAIN loc = Thread /\ DOMAIN files = FileFields
         /\ DOMAIN chunks = 1..Len(chunks) /\ Len(chunks) \in Nat /\ chunks \in Seq(Chunk)
         /\ tid \in Nat /\ files.meta.tid \in Nat /\ files.meta.n \in Nat /\ files.meta.base = 0
         /\ \A m \in DOMAIN log : m \in Nat
<1>1. TypeInv /\ Alone /\ AliveInv /\ ValueInv /\ KeepInv /\ StartInv
  BY DEF DurInv, StartInv, QueryInv
<1>2. NobodyUpdates
  BY <1>1 DEF Alone, OpsAsked, Careful, NobodyUpdates
<1>3. MemOK /\ FilesOK /\ Locking /\ OneCopy /\ OldKills /\ files.meta.base = 0
  BY <1>1 DEF TypeInv, AliveInv, LockInv, KeepInv, LogOK
<1>4. tid \in Nat /\ files.meta.tid \in Nat /\ \A m \in DOMAIN log : m \in Nat
  BY <1>3 DEF MemOK, FilesOK
<1>5. pc \in [Thread -> Points] /\ DOMAIN loc = Thread
  BY <1>1 DEF TypeInv, LockInv, ControlOK
<1> QED BY <1>1, <1>2, <1>3, <1>4, <1>5, ChunkFacts DEF MemOK

LEMMA ThreadFacts ==
  ASSUME Careful, DurInv, NEW t \in Thread
  PROVE  /\ LocIs(loc[t]) /\ ThreadOK(t) /\ WorkOK(t) /\ OpAt(pc[t], loc[t].op)
         /\ loc[t].tid \in Nat /\ loc[t].etid \in Nat /\ loc[t].adds \in Rows
         /\ loc[t].kill \subseteq Doc /\ loc[t].chunk \in Chunk
         /\ loc[t].op \in Ops \cup {"none", "commit"} /\ loc[t].op \notin {"update", "optimize"}
         /\ pc[t] \in Points /\ ~Optimize(t) /\ ~UpdateAttributes(t)
<1>1. LocIs(loc[t]) /\ ThreadOK(t) /\ WorkOK(t) /\ OpAt(pc[t], loc[t].op)
  BY KeepFacts DEF TypeInv, LocsOK, AliveInv, KeepInv, LockInv, ControlOK
<1>2. /\ loc[t].tid \in Nat /\ loc[t].etid \in Nat /\ loc[t].adds \in Rows
      /\ loc[t].kill \subseteq Doc /\ loc[t].chunk \in Chunk
  BY <1>1 DEF LocIs, LocOK
<1>3. loc[t].op \in Ops \cup {"none", "commit"} /\ loc[t].op \notin {"update", "optimize"}
  BY KeepFacts DEF Alone, OpsAsked, Careful
<1>4. ~UpdateAttributes(t)
  BY KeepFacts, NoUpdate
<1>5. ~Optimize(t)
  BY <1>1, <1>3 DEF OpAt, At, Optimize, OptKlist, OptMerge, OptGiveUp, OptLockWriter, OptLockOuter,
     OptRenameOld, OptRenameFails, OptRenameNew, OptSwap, OptUnlink, OptLeaveFiles
<1> QED BY <1>1, <1>2, <1>3, <1>4, <1>5, KeepFacts

\* One thread at a time is where data or files change, and it is the one that replays.
LEMMA WorksAlone ==
  ASSUME Careful, DurInv, NEW t \in Thread, pc[t] \in Working, NEW u \in Thread \ {t}
  PROVE  pc[u] \notin Working /\ loc[u].etid = 0
<1>0. TypeInv /\ Alone /\ OneFlusher
  BY KeepFacts DEF Careful
<1>1. loc[t].op # "none" /\ OpAt(pc[t], loc[t].op) /\ OpAt(pc[u], loc[u].op)
  BY ThreadFacts DEF OpAt, Working, WriterHeld, FlushHeld
<1>2. ASSUME NEW v \in {t, u}, NEW w \in {t, u}, v # w, pc[v] \in FlushHeld, loc[w].op # "none"
      PROVE  FALSE
  <2>1. loc[v].op \in {"flush", "shutdown"}
    BY <1>1, <1>2 DEF OpAt
  <2>2. loc[v].op # "shutdown"
    BY <1>0, <1>2 DEF Alone, ShutdownAlone
  <2>3. "flush" \in Ops
    BY <1>0, <2>1, <2>2 DEF Alone, OpsAsked
  <2> QED BY <1>0, <1>2, <2>3 DEF OneFlusher
<1>3. pc[u] \notin WriterHeld
  <2> SUFFICES ASSUME pc[u] \in WriterHeld PROVE FALSE
    OBVIOUS
  <2>1. loc[u].op # "none"
    BY <1>1 DEF OpAt, WriterHeld
  <2>2. pc[t] \notin FlushHeld
    BY <1>2, <2>1
  <2>3. pc[t] \in WriterHeld
    BY <2>2 DEF Working
  <2> QED BY <1>0, <2>3, OneWriter DEF TypeInv
<1>4. pc[u] \notin FlushHeld
  BY <1>1, <1>2
<1>5. loc[u].etid = 0
  <2> SUFFICES ASSUME loc[u].etid > 0 PROVE FALSE
    BY ThreadFacts
  <2>1. mode = "replay" /\ loc[u].op = "commit"
    BY ThreadFacts DEF WorkOK, Replays
  <2> QED BY <1>1, <2>1, KeepFacts DEF KeepInv, ReplayOne
<1> QED BY <1>3, <1>4, <1>5 DEF Working

\* So a step of that thread says where there is any.
LEMMA Where ==
  ASSUME Careful, DurInv, NEW t \in Thread, pc[t] \in Working,
         \A u \in Thread \ {t} : pc'[u] = pc[u] /\ loc'[u] = loc[u]
  PROVE  /\ SomeAt(Emptying) <=> pc[t] \in Emptying
         /\ SomeAt(Unsettled) <=> pc[t] \in Unsettled
         /\ SomeAt({"f_killed"}) <=> pc[t] = "f_killed"
         /\ SomeAt({"t_mem"}) <=> pc[t] = "t_mem"
         /\ \A d : (\A u \in Thread : ~Touches(u, d)) <=> ~Touches(t, d)
         /\ SomeAt(Emptying)' <=> pc'[t] \in Emptying
         /\ SomeAt(Unsettled)' <=> pc'[t] \in Unsettled
         /\ SomeAt({"f_killed"})' <=> pc'[t] = "f_killed"
         /\ SomeAt({"t_mem"})' <=> pc'[t] = "t_mem"
         /\ \A d : (\A u \in Thread : ~Touches(u, d)') <=> ~Touches(t, d)'
<1>1. \A u \in Thread \ {t} : pc[u] \notin Working
  BY WorksAlone
<1>2. /\ SomeAt(Emptying) <=> pc[t] \in Emptying
      /\ SomeAt(Emptying)' <=> pc'[t] \in Emptying
  BY <1>1 DEF SomeAt, Emptying, Working, WriterHeld
<1>3. /\ SomeAt(Unsettled) <=> pc[t] \in Unsettled
      /\ SomeAt(Unsettled)' <=> pc'[t] \in Unsettled
  BY <1>1 DEF SomeAt, Unsettled, Working, WriterHeld
<1>4. /\ SomeAt({"f_killed"}) <=> pc[t] = "f_killed"
      /\ SomeAt({"f_killed"})' <=> pc'[t] = "f_killed"
  BY <1>1 DEF SomeAt, Working, FlushHeld
<1>5. /\ SomeAt({"t_mem"}) <=> pc[t] = "t_mem"
      /\ SomeAt({"t_mem"})' <=> pc'[t] = "t_mem"
  BY <1>1 DEF SomeAt, Working, WriterHeld
<1>6. /\ \A d : (\A u \in Thread : ~Touches(u, d)) <=> ~Touches(t, d)
      /\ \A d : (\A u \in Thread : ~Touches(u, d)') <=> ~Touches(t, d)'
  BY <1>1 DEF Touches, Begun, Working, WriterHeld
<1> QED BY <1>2, <1>3, <1>4, <1>5, <1>6

\* What a thread does leaves its request alone, until it is done with it.
LEMMA StepLoc ==
  ASSUME TypeInv, NEW t \in Thread, Step(t), ~ShutdownEnd(t), ~Optimize(t), ~UpdateAttributes(t)
  PROVE  \/ loc'[t] = NoLoc
         \/ \A f \in {"op", "adds", "kill", "etid"} : loc'[t][f] = loc[t][f]
<1>0. DOMAIN loc = Thread /\ LocIs(loc[t])
  BY DEF TypeInv, LocsOK, LockInv, ControlOK
<1> DEFINE Same == UNCHANGED loc \/ loc' = [loc EXCEPT ![t] = NoLoc]
           Goal == \/ loc'[t] = NoLoc
                   \/ \A f \in {"op", "adds", "kill", "etid"} : loc'[t][f] = loc[t][f]
<1>1. Same => Goal
  BY <1>0
<1> SUFFICES Goal
  OBVIOUS
<1>2. CASE Commit(t)
  <2>1. CASE CommitMark(t)
    BY <1>0, <2>1, ZenonT(60) DEF CommitMark, LocIs, LocFields
  <2>2. CASE CommitMerge(t)
    BY <1>0, <2>2, ZenonT(60) DEF CommitMerge, LocIs, LocFields
  <2>3. CASE CommitMergeDone(t)
    BY <1>0, <2>3, ZenonT(60) DEF CommitMergeDone, LocIs, LocFields
  <2>4. CASE CommitCount(t)
    BY <1>0, <2>4, ZenonT(60) DEF CommitCount, LocIs, LocFields
  <2>5. CASE CommitLive(t)
    <3>1. Same
      BY <2>5, Zenon DEF CommitLive, Finish
    <3> QED BY <1>1, <3>1
  <2>6. CASE \/ CommitLockWriter(t) \/ CommitLockInner(t) \/ CommitBinlog(t) \/ CommitDump(t)
    BY <1>1, <2>6 DEF CommitLockWriter, CommitLockInner, CommitBinlog, CommitDump
  <2> QED BY <1>2, <2>1, <2>2, <2>3, <2>4, <2>5, <2>6 DEF Commit
<1>3. CASE SaveDiskChunk(t) \/ ForceDiskChunk(t)
  <2>1. CASE SaveWrite(t) \/ DiskKlist(t)
    BY <1>0, <2>1 DEF SaveWrite, DiskKlist, LocIs, LocFields
  <2>2. CASE \/ SaveMeta(t) \/ SaveLockInner(t) \/ SaveSwap(t) \/ SaveEnd(t)
             \/ DiskLockWriter(t) \/ DiskLockOuter(t)
    BY <1>1, <2>2 DEF SaveMeta, SaveLockInner, SaveSwap, SaveEnd, DiskLockWriter, DiskLockOuter,
       Finish
  <2> QED BY <1>3, <2>1, <2>2 DEF SaveDiskChunk, ForceDiskChunk
<1>4. CASE ForceRamFlush(t)
  BY <1>1, <1>4 DEF ForceRamFlush, FlushLock, FlushKillOpen, FlushKillDone, FlushRam, FlushFails,
     ShutdownFails, FlushMeta, FlushNotify, FlushEnd, Finish
<1>5. CASE Truncate(t)
  BY <1>1, <1>5 DEF Truncate, TruncLockWriter, TruncLockOuter, TruncMeta, TruncNotify, TruncRam,
     TruncChunks, TruncMem, Finish
<1>6. CASE MultiQuery(t)
  <2>1. CASE QueryDisk(t) \/ QueryRam(t)
    BY <1>0, <2>1 DEF QueryDisk, QueryRam, LocIs, LocFields
  <2> QED BY <1>1, <1>6, <2>1 DEF MultiQuery, QueryEnd, Finish
<1> QED BY <1>2, <1>3, <1>4, <1>5, <1>6 DEF Step

\* A thread that works on nothing and replays nothing relies on nothing.
LEMMA NoWork ==
  ASSUME NEW u \in Thread, pc'[u] \notin Begun \cup Settling \cup Emptying \cup (FlushHeld \ {"f_kill", "f_killed"}),
         ~(loc'[u].etid > 0)
  PROVE  WorkOK(u)'
BY DEF WorkOK, Replays, Commits, Saves, Flushes, Empties, Begun, Settling, SavePoint, Ahead,
   Emptying, FlushHeld

\* What has to be shown of a step of the thread that works.
LEMMA StepKeeps ==
  ASSUME Careful, DurInv, NEW t \in Thread, Step(t), ~ShutdownEnd(t), pc[t] \in Working,
         \A u \in Thread \ {t} : pc'[u] = pc[u], mode' = mode,
         LogSays', LogOK', MemShows', FileInv', ChunksStored', WorkOK(t)'
  PROVE  KeepInv'
<1>0. \A u \in Thread \ {t} : pc[u] \notin Working /\ loc[u].etid = 0
  BY WorksAlone
<1>1. \A u \in Thread \ {t} : loc'[u] = loc[u]
  BY OpsGo, KeepFacts
<1>2. ASSUME NEW u \in Thread \ {t} PROVE WorkOK(u)'
  <2>1. pc'[u] \notin Begun \cup Settling \cup Emptying \cup (FlushHeld \ {"f_kill", "f_killed"})
    BY <1>0 DEF Working, WriterHeld, FlushHeld, Begun, Settling, Emptying
  <2>2. ~(loc'[u].etid > 0)
    BY <1>0, <1>1
  <2> QED BY <2>1, <2>2, NoWork
<1>3. ReplayOne'
  <2> SUFFICES ASSUME mode' = "replay", NEW u \in Thread, loc'[u].op # "none"
               PROVE  u = Replayer /\ loc'[u].etid > 0
    BY DEF ReplayOne, Replayer
  <2>1. ReplayOne /\ TypeInv
    BY KeepFacts DEF KeepInv
  <2>2. CASE u = t
    <3>1. \/ loc'[t] = NoLoc
          \/ \A f \in {"op", "adds", "kill", "etid"} : loc'[t][f] = loc[t][f]
      BY <2>1, StepLoc, ThreadFacts
    <3>2. loc'[t].op = loc[t].op /\ loc'[t].etid = loc[t].etid
      BY <2>2, <3>1 DEF NoLoc
    <3> QED BY <2>1, <2>2, <3>2 DEF ReplayOne
  <2> QED BY <1>1, <2>1, <2>2 DEF ReplayOne
<1>4. Cleared'
  BY DEF Step, Cleared
<1> QED BY <1>2, <1>3, <1>4 DEF KeepInv

-----------------------------------------------------------------------------
(* What leaves the parts of the invariant as they are. *)

LEMMA SinceSame == ASSUME log' = log PROVE \A n, d : Since(n, d)' <=> Since(n, d)
BY DEF Since

LEMMA LogFrame ==
  ASSUME LogSays, LogOK, UNCHANGED <<log, store, tid, mode>>,
         files'.meta.tid = files.meta.tid, files'.meta.base = files.meta.base
  PROVE  LogSays' /\ LogOK'
<1>1. LogSays'
  BY SinceSame DEF LogSays
<1>2. LogOK'
  BY DEF LogOK, Alive
<1> QED BY <1>1, <1>2

LEMMA MemShowsFrame ==
  ASSUME MemShows, UNCHANGED <<log, store, tid, mode>>, Visible' = Visible,
         SomeAt(Emptying)' <=> SomeAt(Emptying),
         \A d : (\A u \in Thread : ~Touches(u, d)') => (\A u \in Thread : ~Touches(u, d))
  PROVE  MemShows'
BY SinceSame DEF MemShows, Alive

LEMMA ChunksFrame ==
  ASSUME TypeInv, ChunksStored, mode' = mode, chunks' = chunks, files'.meta.n = files.meta.n,
         \A i \in DOMAIN chunks : files'.chunk[i - 1] = files.chunk[i - 1],
         SomeAt({"t_mem"}) <=> SomeAt({"t_mem"})', SomeAt(Unsettled) <=> SomeAt(Unsettled)',
         SomeAt(Emptying) <=> SomeAt(Emptying)'
  PROVE  ChunksStored'
BY DEF ChunksStored, Alive

\* The same rows in the files.
FilesSame ==
    /\ Loaded' = Loaded /\ (Loaded => files'.ram = files.ram)
    /\ files'.meta.n = files.meta.n
    /\ \A i \in 1..files.meta.n : files'.chunk[i - 1] = files.chunk[i - 1]

LEMMA FilesSameRows ==
  ASSUME FilesSame, files.meta.n \in Nat, NEW d
  PROVE  FileRam(d)' = FileRam(d) /\ FileDisk(d)' = FileDisk(d)
<1>1. FileRam(d)' = FileRam(d)
  BY DEF FilesSame, FileRam, AliveRow, HasRow
<1>2. \A i \in 1..files.meta.n : LiveInFile(i, d)' <=> LiveInFile(i, d)
  <2> SUFFICES ASSUME NEW i \in 1..files.meta.n PROVE LiveInFile(i, d)' <=> LiveInFile(i, d)
    OBVIOUS
  <2>1. \A j \in (i + 1)..files.meta.n : j \in 1..files.meta.n
    OBVIOUS
  <2> QED BY <2>1 DEF FilesSame, LiveInFile, HasRow
<1>3. FileDisk(d)' = FileDisk(d)
  BY <1>2 DEF FileDisk, FilesSame
<1> QED BY <1>1, <1>3

\* They still go together and show the same: the kill-list may have more of what is logged
\* since, and the log may have more.
LEMMA FilesFrameRows ==
  ASSUME FilesSame, files.meta.n \in Nat, FileCopies, FileShows,
         \A d \in Doc : Hides(d) => Hides(d)',
         \A d \in Doc : Hides(d)' => Hides(d) \/ Since(files.meta.tid, d)',
         \A d \in Doc : ~Since(files.meta.tid, d)' =>
                           ~Since(files.meta.tid, d) /\ store'[d] = store[d]
  PROVE  FileCopies' /\ FileShows'
<1>1. \A d : FileRam(d)' = FileRam(d) /\ FileDisk(d)' = FileDisk(d)
  BY FilesSameRows
<1>2. \A d : /\ \A g \in FileRam(d) : files'.ram[g] = files.ram[g]
             /\ \A i \in FileDisk(d) : files'.chunk[i - 1] = files.chunk[i - 1]
  BY DEF FilesSame, FileRam, FileDisk
<1>3. FileCopies'
  BY <1>1 DEF FileCopies
<1>4. FileShows'
  <2> SUFFICES ASSUME NEW d \in Doc, ~Since(files.meta.tid, d)'
      PROVE /\ \A g \in FileRam(d)' : files'.ram[g].row[d] = store'[d]
            /\ \A i \in FileDisk(d)' : ~Hides(d)' => files'.chunk[i - 1].row[d] = store'[d]
            /\ store'[d] # NoRow => FileRam(d)' # {} \/ (FileDisk(d)' # {} /\ ~Hides(d)')
    BY DEF FileShows
  <2>1. ~Since(files.meta.tid, d) /\ store'[d] = store[d] /\ (Hides(d)' <=> Hides(d))
    OBVIOUS
  <2> QED BY <1>1, <1>2, <2>1 DEF FileShows
<1> QED BY <1>3, <1>4

\* Nothing that matters to a start happens.
FilesCalm ==
    /\ files'.meta = files.meta /\ files'.hasRam = files.hasRam /\ files'.ram = files.ram
    /\ \A i \in 1..files.meta.n : files'.chunk[i - 1] = files.chunk[i - 1]
    /\ Kills' = Kills

LEMMA FilesCalmSame ==
  ASSUME FilesCalm PROVE FilesSame /\ (Loaded' <=> Loaded) /\ \A d : Hides(d)' <=> Hides(d)
BY DEF FilesCalm, FilesSame, Loaded, Hides

LEMMA FileInvSince ==
  ASSUME FilesCalm, FileInv, files.meta.n \in Nat, UNCHANGED <<store, klist, mode>>,
         \A d : Since(files.meta.tid, d)' <=> Since(files.meta.tid, d),
         SomeAt(Unsettled)' <=> SomeAt(Unsettled)
  PROVE  FileInv'
<1> SUFFICES ASSUME ~(Alive /\ SomeAt(Unsettled)) PROVE FileCopies' /\ FileShows' /\ KillsLogged'
  BY DEF FileInv, Alive
<1>1. FileCopies /\ FileShows /\ KillsLogged
  BY DEF FileInv
<1>2. FilesSame /\ (Loaded' <=> Loaded) /\ \A d : Hides(d)' <=> Hides(d)
  BY FilesCalmSame
<1>4. FileCopies' /\ FileShows'
  BY <1>1, <1>2, FilesFrameRows
<1>5. KillsLogged'
  BY <1>1, <1>2 DEF KillsLogged, FilesCalm, Alive
<1> QED BY <1>4, <1>5

LEMMA FileInvFrame ==
  ASSUME FilesCalm, FileInv, files.meta.n \in Nat, UNCHANGED <<log, store, klist, mode>>,
         SomeAt(Unsettled)' <=> SomeAt(Unsettled)
  PROVE  FileInv'
<1>1. \A d : Since(files.meta.tid, d)' <=> Since(files.meta.tid, d)
  BY DEF Since, FilesCalm
<1> QED BY <1>1, FileInvSince

\* The files have what is in memory: a save or a flush has just ended.
Fresh ==
    /\ files.meta.n = Len(chunks) /\ \A i \in DOMAIN chunks : files.chunk[i - 1] = chunks[i]
    /\ \/ ~Loaded /\ klist = {} /\ \A d \in Doc : RamRows(d) = {}
       \/ Loaded /\ files.ram = segs /\ Kills = klist

LEMMA FilesFresh ==
  ASSUME TypeInv', OneCopy', Fresh',
         \A d \in Doc : ~Since(files.meta.tid, d)' => Visible'[d] = store'[d]
  PROVE  FileCopies' /\ FileShows'
<1>0. DOMAIN chunks' = 1..Len(chunks') /\ Len(chunks') \in Nat /\ files'.meta.n = Len(chunks')
      /\ \A i \in DOMAIN chunks' : files'.chunk[i - 1] = chunks'[i]
  BY LenProperties DEF TypeInv, MemOK, Fresh
<1>1. ASSUME NEW d, NEW i \in DOMAIN chunks' PROVE LiveInFile(i, d)' <=> LiveInChunk(i, d)'
  <2>1. \A j \in (i + 1)..Len(chunks') : j \in DOMAIN chunks'
    BY <1>0
  <2> QED BY <1>0, <2>1 DEF LiveInFile, LiveInChunk, HasRow
<1>2. \A d : FileDisk(d)' = {i \in DOMAIN chunks' : LiveInChunk(i, d)'}
  BY <1>0, <1>1 DEF FileDisk
<1>3. ASSUME NEW d \in Doc
      PROVE  FileRam(d)' = RamRows(d)' /\ (Hides(d)' <=> d \in klist')
             /\ (RamRows(d)' # {} => files'.ram = segs')
  <2>1. CASE Loaded'
    <3>1. files'.ram = segs' /\ Kills' = klist'
      BY <2>1 DEF Fresh
    <3> QED BY <2>1, <3>1 DEF FileRam, RamRows, AliveRow, HasRow, Hides
  <2>2. CASE ~Loaded'
    <3>1. klist' = {} /\ RamRows(d)' = {}
      BY <2>2 DEF Fresh
    <3> QED BY <2>2, <3>1 DEF FileRam, Hides
  <2> QED BY <2>1, <2>2
<1>4. FileCopies'
  BY <1>2, <1>3 DEF FileCopies, OneCopy
<1>5. FileShows'
  <2> SUFFICES ASSUME NEW d \in Doc, ~Since(files.meta.tid, d)'
      PROVE /\ \A g \in FileRam(d)' : files'.ram[g].row[d] = store'[d]
            /\ \A i \in FileDisk(d)' : ~Hides(d)' => files'.chunk[i - 1].row[d] = store'[d]
            /\ store'[d] # NoRow => FileRam(d)' # {} \/ (FileDisk(d)' # {} /\ ~Hides(d)')
    BY DEF FileShows
  <2>1. Visible'[d] = store'[d]
    OBVIOUS
  <2>2. /\ FileRam(d)' = RamRows(d)' /\ (Hides(d)' <=> d \in klist')
        /\ (RamRows(d)' # {} => files'.ram = segs')
    BY <1>3
  <2>3. \A i : i \in DiskRows(d)' <=> i \in FileDisk(d)' /\ ~Hides(d)'
    BY <1>2, <2>2 DEF DiskRows
  <2>4. /\ \A g \in RamRows(d)' : Visible'[d] = segs'[g].row[d]
        /\ \A i \in DiskRows(d)' : Visible'[d] = chunks'[i].row[d]
        /\ RamRows(d)' = {} /\ DiskRows(d)' = {} => Visible'[d] = NoRow
    BY VisibleIsNext
  <2>5. \A i \in FileDisk(d)' : i \in DOMAIN chunks'
    BY <1>2
  <2> QED BY <1>0, <2>1, <2>2, <2>3, <2>4, <2>5
<1> QED BY <1>4, <1>5

-----------------------------------------------------------------------------
(* Steps that nothing of this depends on. *)

LEMMA NumberZero == ASSUME Careful, DurInv, Alive PROVE base = 0
BY KeepFacts DEF StartInv, Chunked, MetaAgrees, Alive

\* A thread goes on with the same transaction.
LEMMA ReplaysOn ==
  ASSUME NEW t \in Thread, Replays(t), UNCHANGED <<tid, mode, log>>,
         files'.meta.tid = files.meta.tid \/ (files'.meta.tid \in Nat /\ files'.meta.tid <= tid),
         tid \in Nat, \A m \in DOMAIN log : m \in Nat,
         \A f \in {"op", "adds", "kill", "etid"} : loc'[t][f] = loc[t][f]
  PROVE  Replays(t)'
<1>1. /\ loc'[t].op = loc[t].op /\ loc'[t].adds = loc[t].adds /\ loc'[t].kill = loc[t].kill
      /\ loc'[t].etid = loc[t].etid
  OBVIOUS
<1> SUFFICES ASSUME loc[t].etid > 0 PROVE Replays(t)'
  BY <1>1 DEF Replays
<1>2. /\ mode = "replay" /\ loc[t].op = "commit" /\ NextEntry(loc[t].etid)
      /\ Entry(t, loc[t].etid)
  BY DEF Replays
<1>3. NextEntry(loc[t].etid)'
  BY <1>1, <1>2 DEF NextEntry
<1>4. loc[t].etid > files'.meta.tid
  BY <1>2 DEF NextEntry, Entry
<1>5. Entry(t, loc[t].etid)'
  BY <1>1, <1>2, <1>4 DEF Entry
<1> QED BY <1>1, <1>2, <1>3, <1>5 DEF Replays

\* Of the thread that works.
LEMMA CalmStep ==
  ASSUME Careful, DurInv, NEW t \in Thread, Step(t), ~ShutdownEnd(t), pc[t] \in Working,
         \A u \in Thread \ {t} : pc'[u] = pc[u],
         UNCHANGED <<mode, log, store, klist, chunks, tid>>, Visible' = Visible, FilesCalm,
         \A i \in DOMAIN chunks : files'.chunk[i - 1] = files.chunk[i - 1],
         pc'[t] \in Emptying <=> pc[t] \in Emptying, pc'[t] \in Unsettled <=> pc[t] \in Unsettled,
         pc'[t] = "t_mem" <=> pc[t] = "t_mem",
         \A d : Touches(t, d) => Touches(t, d)', WorkOK(t)'
  PROVE  KeepInv'
<1>0. /\ KeepInv /\ TypeInv /\ files.meta.n \in Nat /\ files'.meta = files.meta
  BY KeepFacts DEF FilesCalm
<1>1. \A u \in Thread \ {t} : pc'[u] = pc[u] /\ loc'[u] = loc[u]
  BY <1>0, OpsGo
<1>2. /\ SomeAt(Emptying)' <=> SomeAt(Emptying)
      /\ SomeAt(Unsettled)' <=> SomeAt(Unsettled)
      /\ SomeAt({"t_mem"})' <=> SomeAt({"t_mem"})
      /\ \A d : (\A u \in Thread : ~Touches(u, d)') => (\A u \in Thread : ~Touches(u, d))
  BY <1>1, Where
<1>3. LogSays' /\ LogOK'
  BY <1>0, LogFrame DEF KeepInv
<1>4. MemShows'
  BY <1>0, <1>2, MemShowsFrame DEF KeepInv
<1>5. FileInv'
  BY <1>0, <1>2, FileInvFrame DEF KeepInv
<1>6. ChunksStored'
  BY <1>0, <1>2, ChunksFrame DEF KeepInv
<1> QED BY <1>3, <1>4, <1>5, <1>6, StepKeeps

\* Points at which a thread is not at work, or has only just started.
Outside == {"idle", "c_writer", "c_inner", "d_writer", "d_outer", "f_lock", "f_kill", "q_disk",
            "q_ram", "q_done", "t_writer", "t_outer"}

\* Of any other thread.
LEMMA OutsideStep ==
  ASSUME Careful, DurInv, NEW t \in Thread, pc[t] \in Outside, pc'[t] \in Outside,
         \A u \in Thread \ {t} : pc'[u] = pc[u] /\ loc'[u] = loc[u],
         UNCHANGED <<mode, log, store, klist, chunks, tid, dklist, segs>>, FilesCalm,
         files'.kill = files.kill, \A i \in DOMAIN chunks : files'.chunk[i - 1] = files.chunk[i - 1],
         SomeAt(SavePoint) => files'.chunk[Len(chunks)] = files.chunk[Len(chunks)],
         mode # "down", Replays(t)',
         mode = "replay" /\ loc'[t].op # "none" => t = Replayer /\ loc'[t].etid > 0
  PROVE  KeepInv'
<1>0. /\ KeepInv /\ TypeInv /\ files.meta.n \in Nat /\ files'.meta = files.meta
      /\ DOMAIN chunks = 1..Len(chunks) /\ Len(chunks) \in Nat
  BY KeepFacts DEF FilesCalm
<1>0a. \A l \in Outside :
          /\ l \notin Emptying /\ l \notin Unsettled /\ l \notin {"t_mem"} /\ l \notin Begun
          /\ l \notin Settling
  BY DEF Outside, Emptying, Unsettled, Begun, Settling
<1>0b. \A S : (\A l \in Outside : l \notin S) => (SomeAt(S)' <=> SomeAt(S))
  BY DEF SomeAt
<1>1. /\ SomeAt(Emptying)' <=> SomeAt(Emptying)
      /\ SomeAt(Unsettled)' <=> SomeAt(Unsettled)
      /\ SomeAt({"t_mem"})' <=> SomeAt({"t_mem"})
      /\ \A d : (\A u \in Thread : ~Touches(u, d)') => (\A u \in Thread : ~Touches(u, d))
  <2>1. \A d : (\A u \in Thread : ~Touches(u, d)') => (\A u \in Thread : ~Touches(u, d))
    BY <1>0a DEF Touches
  <2> QED BY <1>0a, <1>0b, <2>1
<1>2. \A n, d : Since(n, d)' <=> Since(n, d)
  BY SinceSame
<1>3. LogSays' /\ LogOK'
  BY <1>0, LogFrame DEF KeepInv
<1>4a. Visible' = Visible
  BY SameData
<1>4. MemShows'
  BY <1>0, <1>1, <1>4a, MemShowsFrame DEF KeepInv
<1>5. FileInv'
  BY <1>0, <1>1, FileInvFrame DEF KeepInv
<1>6. ChunksStored'
  BY <1>0, <1>1, ChunksFrame DEF KeepInv
<1>7. ReplayOne'
  BY <1>0 DEF KeepInv, ReplayOne, Replayer
<1>8. WorkOK(t)'
  <2>1. pc'[t] \notin SavePoint \cup Ahead
    BY <1>0a DEF Settling, SavePoint, Ahead
  <2>2. /\ pc'[t] \notin {"c_merge", "c_count", "c_live"} \cup Settling \cup Begun \cup Emptying
        /\ pc'[t] \notin {"c_count", "c_live", "c_outer", "s_write", "s_end", "t_chunks", "t_mem",
                          "f_ram", "f_meta", "f_notify", "f_end"}
    BY <1>0a DEF Outside, Settling, Begun, Emptying
  <2> QED BY <2>1, <2>2 DEF WorkOK, Commits, Saves, Flushes, Empties
<1>9. ASSUME NEW u \in Thread \ {t} PROVE WorkOK(u)'
  <2>0. WorkOK(u) /\ pc'[u] = pc[u] /\ loc'[u] = loc[u]
    BY <1>0 DEF KeepInv
  <2>1. Replays(u)'
    BY <2>0, <1>0, KeepFacts, ReplaysOn DEF WorkOK
  <2>2. Commits(u)'
    BY <2>0, <1>0, <1>2, <1>4a DEF WorkOK, Commits, Entry
  <2>3. Saves(u)'
    <3>1. pc[u] \in SavePoint => files'.chunk[Len(chunks)] = files.chunk[Len(chunks)]
      BY DEF SomeAt
    <3> QED BY <2>0, <1>0, <3>1 DEF WorkOK, Saves
  <2>4. Flushes(u)'
    BY <2>0, <1>0 DEF WorkOK, Flushes, FilesCalm
  <2>5. Empties(u)'
    BY <2>0, <1>0 DEF WorkOK, Empties, FilesCalm
  <2> QED BY <2>1, <2>2, <2>3, <2>4, <2>5 DEF WorkOK
<1>10. Cleared'
  BY DEF Cleared
<1> QED BY <1>3, <1>4, <1>5, <1>6, <1>7, <1>8, <1>9, <1>10 DEF KeepInv

-----------------------------------------------------------------------------
(* The steps that change nothing that has to last. *)

Calm(t) ==
    \/ CommitLockInner(t) \/ (CommitBinlog(t) /\ loc[t].etid > 0) \/ CommitMark(t) \/ CommitMerge(t)
    \/ CommitMergeDone(t) \/ CommitCount(t) \/ CommitDump(t) \/ DiskLockOuter(t) \/ DiskKlist(t)
    \/ SaveLockInner(t) \/ (SaveWrite(t) /\ DOMAIN segs = {}) \/ TruncLockOuter(t)
    \/ FlushFails(t) \/ FlushEnd(t)

LEMMA CalmFrame ==
  ASSUME Careful, DurInv, NEW t \in Thread, Calm(t)
  PROVE  /\ UNCHANGED <<mode, log, store, klist, chunks, tid, files>>
         /\ pc[t] \in Working /\ (pc[t] = "f_end" => loc[t].op # "shutdown")
         /\ \A u \in Thread \ {t} : pc'[u] = pc[u]
         /\ pc[t] \notin {"c_live", "t_mem"} /\ (pc[t] = "c_mark" \/ segs' = segs)
<1> USE DEF At, Goto, Finish, envVars, tidVars, memVars, segVars, killVars, chunkVars
<1>0. pc \in [Thread -> Points]
  BY KeepFacts
<1>1. UNCHANGED <<mode, log, store, klist, chunks, tid, files>>
  BY DEF Calm, CommitLockInner, CommitBinlog, CommitMark, CommitMerge, CommitMergeDone,
     CommitCount, CommitDump, DiskLockOuter, DiskKlist, SaveLockInner, SaveWrite, TruncLockOuter,
     FlushFails, FlushEnd
<1>2. pc[t] = "c_mark" \/ segs' = segs
  BY DEF Calm, CommitLockInner, CommitBinlog, CommitMark, CommitMerge, CommitMergeDone,
     CommitCount, CommitDump, DiskLockOuter, DiskKlist, SaveLockInner, SaveWrite, TruncLockOuter,
     FlushFails, FlushEnd
<1>3. \E l \in {"c_binlog", "c_mark", "c_merge", "c_count", "c_live", "s_write", "d_klist",
                "s_swap", "s_end", "t_meta", "idle", pc[t]} : pc' = [pc EXCEPT ![t] = l]
  BY <1>0 DEF Calm, CommitLockInner, CommitBinlog, CommitMark, CommitMerge, CommitMergeDone,
     CommitCount, CommitDump, DiskLockOuter, DiskKlist, SaveLockInner, SaveWrite, TruncLockOuter,
     FlushFails, FlushEnd
<1>4. /\ pc[t] \in {"c_inner", "c_binlog", "c_mark", "c_merge", "c_count", "c_outer", "d_outer",
                   "d_klist", "s_inner", "s_write", "t_outer", "f_ram", "f_end"}
      /\ pc[t] = "f_end" => loc[t].op = "flush"
  BY DEF Calm, CommitLockInner, CommitBinlog, CommitMark, CommitMerge, CommitMergeDone,
     CommitCount, CommitDump, DiskLockOuter, DiskKlist, SaveLockInner, SaveWrite, TruncLockOuter,
     FlushFails, FlushEnd
<1>5. \A u \in Thread \ {t} : pc'[u] = pc[u]
  BY <1>0, <1>3
<1>6. pc[t] \in Working /\ pc[t] \notin {"c_live", "t_mem"}
  BY <1>4 DEF Working, WriterHeld, FlushHeld
<1> QED BY <1>1, <1>2, <1>4, <1>5, <1>6

\* The points that matter to others.
PlaceKept(t) ==
    /\ pc'[t] \in Emptying <=> pc[t] \in Emptying
    /\ pc'[t] \in Unsettled <=> pc[t] \in Unsettled
    /\ pc'[t] = "t_mem" <=> pc[t] = "t_mem"
    /\ pc'[t] = "f_killed" <=> pc[t] = "f_killed"
    /\ pc[t] \in Begun /\ loc[t].etid = 0 => pc'[t] \in Begun

LEMMA CalmWorks ==
  ASSUME Careful, DurInv, NEW t \in Thread, Calm(t), Step(t), ~ShutdownEnd(t), Visible' = Visible
  PROVE  PlaceKept(t) /\ WorkOK(t)' /\ \A d : Touches(t, d) => Touches(t, d)'
<1> USE DEF At, Goto, Finish
<1>0. /\ UNCHANGED <<mode, log, store, klist, chunks, tid, files>>
      /\ pc[t] = "c_mark" \/ segs' = segs
  BY CalmFrame
<1>1. /\ LocIs(loc[t]) /\ Replays(t) /\ Commits(t) /\ Saves(t) /\ OpAt(pc[t], loc[t].op)
      /\ pc \in [Thread -> Points] /\ DOMAIN loc = Thread /\ TypeInv /\ loc[t].etid \in Nat
      /\ tid \in Nat /\ \A m \in DOMAIN log : m \in Nat
  BY KeepFacts, ThreadFacts DEF WorkOK
<1>2. DOMAIN loc[t] = LocFields
  BY <1>1 DEF LocIs
<1>3. \A n, d : Since(n, d)' <=> Since(n, d)
  BY <1>0, SinceSame
<1> DEFINE Same == \A f \in {"op", "adds", "kill", "etid"} : loc'[t][f] = loc[t][f]
           Goal == PlaceKept(t) /\ WorkOK(t)' /\ \A d : Touches(t, d) => Touches(t, d)'
<1>4. Same => Replays(t)'
  BY <1>0, <1>1, ReplaysOn
<1>5. Same => \A d : Touches(t, d) /\ PlaceKept(t) => Touches(t, d)'
  BY DEF Touches, PlaceKept
<1>6. Same => \A m : Entry(t, m) => Entry(t, m)'
  BY <1>0 DEF Entry
<1> HIDE DEF Goal
<1>7a. TypeInv'
  <2>1. Next
    BY DEF Next
  <2> QED BY <1>1, <2>1, TypeInvKept
<1>8a. OpAt(pc'[t], loc'[t].op)
  BY <1>7a DEF TypeInv, LockInv, ControlOK
<1>8b. ~Optimize(t) /\ ~UpdateAttributes(t)
  BY ThreadFacts
<1>7. CASE \/ CommitLockInner(t) \/ (CommitBinlog(t) /\ loc[t].etid > 0)
           \/ DiskLockOuter(t) \/ TruncLockOuter(t)
  <2>1. /\ pc[t] \in {"c_inner", "c_binlog", "d_outer", "t_outer"} /\ loc' = loc
        /\ pc'[t] \in {"c_binlog", "c_mark", "d_klist", "t_meta"}
        /\ pc'[t] = "c_mark" => loc[t].etid > 0
    BY <1>1, <1>7 DEF CommitLockInner, CommitBinlog, DiskLockOuter, TruncLockOuter
  <2>2. PlaceKept(t)
    BY <2>1 DEF PlaceKept, Emptying, Unsettled, Begun
  <2>3. Commits(t)' /\ Saves(t)' /\ Flushes(t)' /\ Empties(t)'
    BY <1>1, <2>1 DEF Commits, Begun, Settling, Saves, SavePoint, Ahead, Flushes, Empties, Emptying
  <2> QED BY <1>4, <1>5, <2>1, <2>2, <2>3 DEF WorkOK, Goal
<1>8. CASE CommitMark(t) \/ CommitMerge(t) \/ CommitMergeDone(t) \/ CommitCount(t)
  <2>1. /\ pc[t] \in {"c_mark", "c_merge", "c_count"} /\ pc'[t] \in {"c_merge", "c_count", "c_live"}
        /\ pc[t] = "c_count" <=> pc'[t] = "c_live"
    BY <1>1, <1>8 DEF CommitMark, CommitMerge, CommitMergeDone, CommitCount
  <2>2. Same
    <3>1. ~(loc'[t] = NoLoc)
      <4>1. OpAt(pc'[t], loc'[t].op)
        BY <1>8a
      <4> QED BY <2>1, <4>1 DEF OpAt, NoLoc, CommitPending
    <3> QED BY <1>1, <1>8b, <3>1, StepLoc
  <2>3. loc'[t].tid = tid
    <3>1. CASE CommitMark(t)
      BY <1>1, <1>2, <3>1, ZenonT(60) DEF CommitMark, LocFields
    <3>2. CASE CommitMerge(t)
      <4>1. pc[t] = "c_merge" /\ loc[t].tid = tid
        BY <1>1, <3>2 DEF CommitMerge, Commits
      <4> QED BY <1>1, <1>2, <3>2, <4>1, ZenonT(60) DEF CommitMerge, LocFields
    <3>3. CASE CommitMergeDone(t) \/ CommitCount(t)
      <4>1. pc[t] \in {"c_merge", "c_count"} /\ loc[t].tid = tid
        BY <1>1, <3>3 DEF CommitMergeDone, CommitCount, Commits
      <4> QED BY <1>1, <1>2, <3>3, <4>1, ZenonT(60) DEF CommitMergeDone, CommitCount, LocFields
    <3> QED BY <1>8, <3>1, <3>2, <3>3
  <2>4. pc'[t] \in {"c_count", "c_live"} /\ loc'[t].dump => loc'[t].adds # NoRows
    <3>1. CASE CommitMergeDone(t)
      <4>1. PICK dump \in BOOLEAN : /\ dump => loc[t].adds # NoRows
                                    /\ loc' = [loc EXCEPT ![t].dump = dump]
        BY <3>1 DEF CommitMergeDone, Careful
      <4> QED BY <1>1, <1>2, <2>2, <4>1 DEF LocFields
    <3>2. CASE CommitCount(t)
      <4>1. pc[t] = "c_count" /\ loc'[t].dump = loc[t].dump
        BY <1>1, <1>2, <3>2, ZenonT(60) DEF CommitCount, LocFields
      <4> QED BY <1>1, <2>2, <4>1 DEF Commits
    <3>3. CASE CommitMark(t) \/ CommitMerge(t)
      BY <1>1, <3>3 DEF CommitMark, CommitMerge
    <3> QED BY <1>8, <3>1, <3>2, <3>3
  <2>5. PlaceKept(t)
    BY <2>1 DEF PlaceKept, Emptying, Unsettled, Begun
  <2>6. Commits(t)'
    <3>1. loc[t].etid = 0 => Entry(t, tid) /\ \A d \in loc[t].kill : store[d] = loc[t].adds[d]
      BY <1>1, <2>1 DEF Commits, Begun
    <3>2. /\ loc'[t].adds = loc[t].adds /\ loc'[t].kill = loc[t].kill /\ loc'[t].etid = loc[t].etid
          /\ tid' = tid /\ store' = store
      BY <1>0, <2>2
    <3>3. loc'[t].etid = 0 => Entry(t, tid)' /\ \A d \in loc'[t].kill : store'[d] = loc'[t].adds[d]
      BY <1>6, <2>2, <3>1, <3>2
    <3> QED BY <2>1, <2>3, <2>4, <3>2, <3>3 DEF Commits, Settling
  <2>7. Saves(t)' /\ Flushes(t)' /\ Empties(t)'
    BY <2>1 DEF Saves, SavePoint, Ahead, Flushes, Empties, Emptying
  <2> QED BY <1>4, <1>5, <2>2, <2>5, <2>6, <2>7 DEF WorkOK, Goal
<1>9. CASE CommitDump(t) \/ SaveLockInner(t) \/ (SaveWrite(t) /\ DOMAIN segs = {})
  <2>1. /\ pc[t] \in {"c_outer", "s_inner", "s_write"} /\ loc' = loc /\ segs' = segs
        /\ pc'[t] \in {"s_write", "s_swap", "s_end"}
        /\ pc[t] = "c_outer" <=> pc'[t] = "s_write"
        /\ pc[t] = "s_inner" <=> pc'[t] = "s_swap"
        /\ pc[t] = "s_write" => DOMAIN segs = {}
    BY <1>1, <1>9 DEF CommitDump, SaveLockInner, SaveWrite, memVars, segVars
  <2>2. PlaceKept(t)
    BY <2>1 DEF PlaceKept, Emptying, Unsettled, Begun
  <2>3. Commits(t)'
    BY <1>0, <1>1, <1>3, <2>1 DEF Commits, Begun, Settling
  <2>4. Saves(t)'
    BY <1>0, <1>1, <2>1 DEF Commits, Saves, SavePoint, Ahead
  <2>5. Flushes(t)' /\ Empties(t)'
    BY <2>1 DEF Flushes, Empties, Emptying
  <2> QED BY <1>4, <1>5, <2>1, <2>2, <2>3, <2>4, <2>5 DEF WorkOK, Goal
<1>10. CASE DiskKlist(t)
  <2>1. pc[t] = "d_klist" /\ pc'[t] = "s_write" /\ Same /\ loc'[t].tid = tid
    BY <1>1, <1>2, <1>10 DEF DiskKlist, LocFields
  <2>2. loc[t].op = "disk"
    BY <1>1, <2>1 DEF OpAt
  <2>3. loc[t].etid = 0
    BY <1>1, <2>2 DEF Replays
  <2>4. PlaceKept(t)
    BY <2>1 DEF PlaceKept, Emptying, Unsettled, Begun
  <2>5. Commits(t)' /\ Saves(t)' /\ Flushes(t)' /\ Empties(t)'
    BY <1>0, <2>1, <2>2, <2>3 DEF Commits, Begun, Settling, Saves, SavePoint, Ahead, Flushes,
       Empties, Emptying
  <2> QED BY <1>4, <1>5, <2>1, <2>4, <2>5 DEF WorkOK, Goal
<1>11. CASE FlushFails(t) \/ FlushEnd(t)
  <2>1. pc[t] \in {"f_ram", "f_end"} /\ pc'[t] = "idle" /\ loc'[t] = NoLoc
    BY <1>1, <1>11 DEF FlushFails, FlushEnd
  <2>2. PlaceKept(t) /\ \A d : ~Touches(t, d)
    BY <2>1 DEF PlaceKept, Emptying, Unsettled, Begun, Touches
  <2>3. WorkOK(t)'
    <3>1. pc'[t] \notin Begun \cup Settling \cup Emptying \cup (FlushHeld \ {"f_kill", "f_killed"})
      BY <2>1 DEF Begun, Settling, Emptying, FlushHeld
    <3>2. ~(loc'[t].etid > 0)
      BY <2>1 DEF NoLoc
    <3> QED BY <3>1, <3>2, NoWork
  <2> QED BY <2>2, <2>3 DEF Goal
<1> QED BY <1>7, <1>8, <1>9, <1>10, <1>11 DEF Calm, Goal

LEMMA CalmKeeps ==
  ASSUME Careful, DurInv, AliveInv', NEW t \in Thread, Calm(t), Step(t) PROVE KeepInv'
<1>0. /\ UNCHANGED <<mode, log, store, klist, chunks, tid, files>>
      /\ pc[t] \in Working /\ \A u \in Thread \ {t} : pc'[u] = pc[u]
      /\ pc[t] \notin {"c_live", "t_mem"} /\ (pc[t] = "f_end" => loc[t].op # "shutdown")
  BY CalmFrame
<1>1. ~ShutdownEnd(t) /\ ~CommitLive(t) /\ ~TruncMem(t)
  BY <1>0, Zenon DEF ShutdownEnd, CommitLive, TruncMem, At
<1>2. Visible' = Visible
  BY <1>1, KeepFacts, StillShows
<1>3. PlaceKept(t) /\ WorkOK(t)' /\ \A d : Touches(t, d) => Touches(t, d)'
  BY <1>1, <1>2, CalmWorks
<1>4. \A u \in Thread \ {t} : loc'[u] = loc[u]
  BY <1>1, OpsGo, KeepFacts
<1>5. FilesCalm
  <2>1. SomeAt({"f_killed"})' <=> SomeAt({"f_killed"})
    BY <1>0, <1>3, <1>4, Where DEF PlaceKept
  <2> QED BY <1>0, <2>1 DEF FilesCalm, Kills
<1> QED BY <1>0, <1>1, <1>2, <1>3, <1>5, CalmStep DEF PlaceKept

\* The attributes that a shutdown or SaveAttributes writes are there already.
LEMMA AttributesSaved ==
  ASSUME Careful, DurInv, mode = "up", ~SomeAt(Emptying),
         files' = [files EXCEPT !.chunk = SavedAttributes]
  PROVE  /\ files'.meta = files.meta /\ files'.hasRam = files.hasRam /\ files'.ram = files.ram
         /\ files'.kill = files.kill
         /\ \A i \in 1..files.meta.n : files'.chunk[i - 1] = files.chunk[i - 1]
         /\ \A i \in DOMAIN chunks : files'.chunk[i - 1] = files.chunk[i - 1]
         /\ SomeAt(SavePoint) => files'.chunk[Len(chunks)] = files.chunk[Len(chunks)]
<1>0. /\ DOMAIN files = FileFields /\ DOMAIN chunks = 1..Len(chunks) /\ Len(chunks) \in Nat
      /\ files.meta.n \in Nat /\ FilesOK /\ Chunked /\ ChunksStored /\ base = 0
  BY KeepFacts, NumberZero DEF StartInv, KeepInv, Alive
<1>1. /\ files'.meta = files.meta /\ files'.hasRam = files.hasRam /\ files'.ram = files.ram
      /\ files'.kill = files.kill /\ files'.chunk = SavedAttributes
  BY <1>0 DEF FileFields
<1>2. \A i \in DOMAIN chunks : files.chunk[i - 1] = chunks[i]
  <2>1. ~SomeAt({"t_mem"})
    BY DEF SomeAt, Emptying
  <2> QED BY <1>0, <2>1 DEF ChunksStored, Alive
<1>3. ASSUME NEW n \in DOMAIN files.chunk PROVE files'.chunk[n] = files.chunk[n]
  <2>1. n \in Nat /\ files.chunk[n] \in Chunk
    BY <1>0 DEF FilesOK
  <2>2. CASE n + 1 \in DOMAIN chunks
    <3>1. chunks[n + 1] = files.chunk[n]
      BY <1>2, <2>1, <2>2
    <3>2. n - base + 1 = n + 1
      BY <1>0, <2>1
    <3>3. files'.chunk[n] = [files.chunk[n] EXCEPT !.row = files.chunk[n].row]
      BY <1>1, <2>2, <3>1, <3>2 DEF SavedAttributes
    <3> QED BY <2>1, <3>3 DEF Chunk
  <2>3. CASE n + 1 \notin DOMAIN chunks
    <3>1. n - base + 1 = n + 1
      BY <1>0, <2>1
    <3> QED BY <1>1, <2>3, <3>1 DEF SavedAttributes
  <2> QED BY <2>2, <2>3
<1>4. ~SomeAt({"o_new"})
  <2>1. \A u \in Thread : pc[u] # "o_new"
    BY ThreadFacts DEF OpAt
  <2> QED BY <2>1 DEF SomeAt
<1>5. \A i \in DOMAIN chunks : i - 1 \in DOMAIN files.chunk
  BY <1>0, <1>4 DEF Chunked, FilesThere, Present, ChunkName
<1>6. SomeAt(SavePoint) => Len(chunks) \in DOMAIN files.chunk
  BY <1>0 DEF Chunked, SavedThere, Present, ChunkName
<1>7. ASSUME NEW i \in 1..files.meta.n PROVE i - 1 \in DOMAIN files.chunk
  <2>1. files.meta.n <= Len(chunks) + Extra
    BY <1>0 DEF Chunked, MetaAgrees
  <2>2. CASE i \in DOMAIN chunks
    BY <1>5, <2>2
  <2>3. CASE i \notin DOMAIN chunks
    <3>1. i = Len(chunks) + 1 /\ SomeAt(Ahead)
      BY <1>0, <2>1, <2>3 DEF Extra
    <3>2. SomeAt(SavePoint)
      BY <3>1 DEF SomeAt, Ahead, SavePoint
    <3> QED BY <1>0, <1>6, <3>1, <3>2
  <2> QED BY <2>2, <2>3
<1> QED BY <1>1, <1>3, <1>5, <1>6, <1>7

LEMMA LocksKeep ==
  ASSUME Careful, DurInv, NEW t \in Thread, Step(t),
         \/ CommitLockWriter(t) \/ DiskLockWriter(t) \/ TruncLockWriter(t)
         \/ FlushLock(t) \/ MultiQuery(t)
  PROVE  KeepInv'
<1> USE DEF At, Goto, Finish, envVars, tidVars, memVars, segVars, killVars, chunkVars
<1>0. /\ pc \in [Thread -> Points] /\ DOMAIN loc = Thread /\ TypeInv /\ KeepInv
      /\ LocIs(loc[t]) /\ WorkOK(t) /\ tid \in Nat /\ \A m \in DOMAIN log : m \in Nat
  BY KeepFacts, ThreadFacts
<1>1. /\ UNCHANGED <<mode, log, store, klist, chunks, tid, dklist, segs, files>>
      /\ pc[t] \in {"c_writer", "d_writer", "t_writer", "f_lock", "q_disk", "q_ram", "q_done"}
      /\ \E l \in {"c_inner", "d_outer", "t_outer", "f_kill", "q_ram", "q_done", "idle"} :
            pc' = [pc EXCEPT ![t] = l]
  BY <1>0 DEF CommitLockWriter, DiskLockWriter, TruncLockWriter, FlushLock, MultiQuery, QueryDisk,
     QueryRam, QueryEnd
<1>2. /\ pc[t] \in Outside /\ pc'[t] \in Outside /\ \A u \in Thread \ {t} : pc'[u] = pc[u]
      /\ pc[t] # "f_killed" /\ pc'[t] # "f_killed" /\ ~ShutdownEnd(t)
  BY <1>0, <1>1 DEF Outside, ShutdownEnd
<1>3. /\ \A u \in Thread \ {t} : loc'[u] = loc[u]
      /\ \/ loc'[t] = NoLoc
         \/ \A f \in {"op", "adds", "kill", "etid"} : loc'[t][f] = loc[t][f]
  BY <1>0, <1>2, OpsGo, StepLoc, ThreadFacts
<1>4. SomeAt({"f_killed"})' <=> SomeAt({"f_killed"})
  BY <1>2 DEF SomeAt
<1>5. FilesCalm
  BY <1>1, <1>4 DEF FilesCalm, Kills
<1>6. Replays(t)'
  <2>1. CASE loc'[t] = NoLoc
    BY <2>1 DEF Replays, NoLoc
  <2>2. CASE \A f \in {"op", "adds", "kill", "etid"} : loc'[t][f] = loc[t][f]
    BY <1>0, <1>1, <2>2, ReplaysOn DEF WorkOK
  <2> QED BY <1>3, <2>1, <2>2
<1>7. mode = "replay" /\ loc'[t].op # "none" => t = Replayer /\ loc'[t].etid > 0
  <2> SUFFICES ASSUME mode = "replay", loc'[t].op # "none"
               PROVE  t = Replayer /\ loc'[t].etid > 0
    OBVIOUS
  <2>1. loc'[t].op = loc[t].op /\ loc'[t].etid = loc[t].etid
    BY <1>3 DEF NoLoc
  <2> QED BY <1>0, <2>1 DEF KeepInv, ReplayOne
<1>8. mode # "down"
  BY DEF Step
<1> QED BY <1>1, <1>2, <1>3, <1>5, <1>6, <1>7, <1>8, OutsideStep

LEMMA BeginKeepsFiles ==
  ASSUME Careful, DurInv, NEW t \in Thread, BeginAny(t) PROVE KeepInv'
<1> USE DEF At, Goto, Finish, Begin, envVars, tidVars, memVars, segVars, killVars, chunkVars
<1>0. /\ pc \in [Thread -> Points] /\ DOMAIN loc = Thread /\ TypeInv /\ KeepInv
      /\ LocIs(loc[t]) /\ WorkOK(t)
  BY KeepFacts, ThreadFacts
<1>1. ~UpdateBegin(t) /\ ~OptBegin(t)
  BY DEF Careful, UpdateBegin, OptBegin
<1>2. CASE ShutdownBegin(t) \/ SaveAttributes(t)
  <2>1. /\ UNCHANGED <<log, store, klist, chunks, tid, dklist, segs, mode>> /\ mode = "up"
        /\ files' = [files EXCEPT !.chunk = SavedAttributes]
        /\ pc[t] = "idle" /\ \E l \in {"f_kill", "idle"} : pc' = [pc EXCEPT ![t] = l]
        /\ loc' = loc \/ loc' = [loc EXCEPT ![t].op = "shutdown"]
    BY <1>2 DEF ShutdownBegin, SaveAttributes
  <2>2. ~SomeAt(Emptying)
    <3>1. CASE ShutdownBegin(t)
      <4>1. \A u \in Thread : loc[u].op = "none"
        BY <3>1 DEF ShutdownBegin
      <4>2. \A u \in Thread : OpAt(pc[u], loc[u].op)
        BY ThreadFacts
      <4>3. \A u \in Thread : pc[u] = "idle"
        BY <4>1, <4>2 DEF OpAt
      <4> QED BY <4>3 DEF SomeAt, Emptying
    <3>2. CASE SaveAttributes(t)
      <4>1. excl = NoThread /\ Locking
        BY <3>2, KeepFacts DEF SaveAttributes
      <4>2. \A u \in Thread : pc[u] \notin ExclHeld
        BY <4>1, NoThreadAssumption DEF Locking
      <4> QED BY <4>2 DEF SomeAt, Emptying, ExclHeld
    <3> QED BY <1>2, <3>1, <3>2
  <2>3. /\ files'.meta = files.meta /\ files'.hasRam = files.hasRam /\ files'.ram = files.ram
        /\ files'.kill = files.kill
        /\ \A i \in 1..files.meta.n : files'.chunk[i - 1] = files.chunk[i - 1]
        /\ \A i \in DOMAIN chunks : files'.chunk[i - 1] = files.chunk[i - 1]
        /\ SomeAt(SavePoint) => files'.chunk[Len(chunks)] = files.chunk[Len(chunks)]
    BY <2>1, <2>2, AttributesSaved
  <2>4. /\ pc[t] \in Outside /\ pc'[t] \in Outside
        /\ \A u \in Thread \ {t} : pc'[u] = pc[u] /\ loc'[u] = loc[u]
        /\ SomeAt({"f_killed"})' <=> SomeAt({"f_killed"})
    BY <1>0, <2>1 DEF Outside, SomeAt
  <2>5. FilesCalm
    BY <2>1, <2>3, <2>4 DEF FilesCalm, Kills
  <2>6. loc[t].etid = 0
    BY <1>0, <2>1, ThreadFacts DEF WorkOK, Replays
  <2>6a. loc'[t].etid = 0
    BY <1>0, <2>1, <2>6 DEF LocIs, LocFields
  <2>7. Replays(t)'
    BY <2>6a DEF Replays
  <2> QED BY <2>1, <2>3, <2>4, <2>5, <2>7, OutsideStep
<1>3. CASE CommitBegin(t) \/ DiskBegin(t) \/ FlushBegin(t) \/ QueryBegin(t) \/ TruncBegin(t)
  <2>1. /\ UNCHANGED <<log, store, klist, chunks, tid, dklist, segs, mode, files>> /\ mode = "up"
        /\ pc[t] = "idle"
        /\ \E l \in {"c_writer", "d_writer", "f_lock", "q_disk", "t_writer"} :
              pc' = [pc EXCEPT ![t] = l]
    BY <1>3 DEF CommitBegin, DiskBegin, FlushBegin, QueryBegin, TruncBegin
  <2>2. /\ pc[t] \in Outside /\ pc'[t] \in Outside /\ \A u \in Thread \ {t} : pc'[u] = pc[u]
        /\ SomeAt({"f_killed"})' <=> SomeAt({"f_killed"})
    BY <1>0, <2>1 DEF Outside, SomeAt
  <2>3. /\ \A u \in Thread \ {t} : loc'[u] = loc[u]
        /\ loc'[t].etid = loc[t].etid \/ loc'[t].etid = 0
    <3>1. CASE CommitBegin(t)
      <4>1. PICK kill \in (SUBSET Doc) \ {{}}, adds \in Rows :
              loc' = [loc EXCEPT ![t] = [NoLoc EXCEPT !.op = "commit", !.adds = adds, !.kill = kill]]
        BY <3>1 DEF CommitBegin
      <4> QED BY <1>0, <4>1 DEF NoLoc
    <3>2. CASE DiskBegin(t) \/ FlushBegin(t) \/ QueryBegin(t) \/ TruncBegin(t)
      BY <1>0, <3>2 DEF DiskBegin, FlushBegin, QueryBegin, TruncBegin, LocIs, LocFields
    <3> QED BY <1>3, <3>1, <3>2
  <2>4. FilesCalm
    BY <2>1, <2>2 DEF FilesCalm, Kills
  <2>5. Replays(t)'
    <3>1. loc[t].etid = 0
      BY <1>0, <2>1, ThreadFacts DEF WorkOK, Replays
    <3> QED BY <2>3, <3>1 DEF Replays
  <2> QED BY <2>1, <2>2, <2>3, <2>4, <2>5, OutsideStep
<1> QED BY <1>1, <1>2, <1>3 DEF BeginAny

-----------------------------------------------------------------------------
(* The binlog is told what has been saved. *)

LEMMA NotifySince ==
  ASSUME FilesOK, NEW n \in Nat, NotifyIndexFlush(n)
  PROVE  /\ \A m \in DOMAIN log' : m \in DOMAIN log /\ log'[m] = log[m]
         /\ \A m \in DOMAIN log : m > n => m \in DOMAIN log'
         /\ \A d, k : k \in Nat /\ k >= n => (Since(k, d)' <=> Since(k, d))
<1>1. PICK gone \in SUBSET {m \in DOMAIN log : m <= n} : log' = Restrict(log, DOMAIN log \ gone)
  BY DEF NotifyIndexFlush
<1>2. \A m \in DOMAIN log' : m \in DOMAIN log /\ log'[m] = log[m]
  BY <1>1 DEF Restrict
<1>3. \A m \in DOMAIN log : m > n => m \in DOMAIN log'
  BY <1>1 DEF Restrict, FilesOK
<1>4. ASSUME NEW d, NEW k \in Nat, k >= n PROVE Since(k, d)' <=> Since(k, d)
  <2>1. \A m \in DOMAIN log : m > k => m \in DOMAIN log'
    BY <1>3, <1>4 DEF FilesOK
  <2> QED BY <1>2, <2>1 DEF Since
<1> QED BY <1>2, <1>3, <1>4

LEMMA NotifyStep ==
  ASSUME Careful, DurInv, NEW t \in Thread, Step(t), ~ShutdownEnd(t), pc[t] \in Working,
         \A u \in Thread \ {t} : pc'[u] = pc[u],
         NotifyIndexFlush(tid), files.meta.tid = tid,
         UNCHANGED <<mode, store, klist, chunks, tid, files>>, Visible' = Visible,
         pc[t] # "f_killed", pc'[t] # "f_killed", pc[t] \notin Begun,
         pc'[t] \in Emptying <=> pc[t] \in Emptying, pc'[t] \in Unsettled <=> pc[t] \in Unsettled,
         pc'[t] = "t_mem" <=> pc[t] = "t_mem", WorkOK(t)'
  PROVE  KeepInv'
<1>0. /\ KeepInv /\ TypeInv /\ FilesOK /\ files.meta.n \in Nat /\ tid \in Nat
      /\ \A m \in DOMAIN log : m \in Nat
  BY KeepFacts
<1>1. \A u \in Thread \ {t} : pc'[u] = pc[u] /\ loc'[u] = loc[u]
  BY <1>0, OpsGo
<1>2. /\ SomeAt(Emptying)' <=> SomeAt(Emptying)
      /\ SomeAt(Unsettled)' <=> SomeAt(Unsettled)
      /\ SomeAt({"t_mem"})' <=> SomeAt({"t_mem"})
      /\ SomeAt({"f_killed"})' <=> SomeAt({"f_killed"})
      /\ \A d : \A u \in Thread : ~Touches(u, d)
  <2>1. \A d : ~Touches(t, d)
    BY DEF Touches
  <2> QED BY <1>1, <2>1, Where
<1>3. /\ \A m \in DOMAIN log' : m \in DOMAIN log /\ log'[m] = log[m]
      /\ \A m \in DOMAIN log : m > tid => m \in DOMAIN log'
      /\ \A d, k : k \in Nat /\ k >= tid => (Since(k, d)' <=> Since(k, d))
  BY <1>0, NotifySince
<1>4. \A d : Since(tid, d)' <=> Since(tid, d)
  BY <1>3 DEF Since
<1>5. LogSays'
  <2> SUFFICES ASSUME NEW d \in Doc, NEW m \in DOMAIN log', m > files.meta.tid,
                      d \in log'[m].kill, ~Since(m, d)'
               PROVE  store[d] = log'[m].adds[d]
    BY DEF LogSays
  <2>1. m \in DOMAIN log /\ log'[m] = log[m] /\ m \in Nat /\ m >= tid
    BY <1>0, <1>3
  <2>2. Since(m, d)' <=> Since(m, d)
    BY <1>3, <2>1
  <2> QED BY <1>0, <2>1, <2>2 DEF KeepInv, LogSays
<1>6. LogOK'
  BY <1>0, <1>3 DEF KeepInv, LogOK, Alive
<1>7. MemShows'
  BY <1>0, <1>2, <1>4 DEF KeepInv, MemShows, Alive
<1>8. FileInv'
  <2>1. FilesCalm
    BY <1>2 DEF FilesCalm, Kills
  <2>2. \A d : Since(files.meta.tid, d)' <=> Since(files.meta.tid, d)
    BY <1>4 DEF Since
  <2> QED BY <1>0, <1>2, <2>1, <2>2, FileInvSince DEF KeepInv
<1>9. ChunksStored'
  BY <1>0, <1>2, ChunksFrame DEF KeepInv
<1> QED BY <1>5, <1>6, <1>7, <1>8, <1>9, StepKeeps

LEMMA NotifyKeeps ==
  ASSUME Careful, DurInv, AliveInv', NEW t \in Thread, Step(t), FlushNotify(t) \/ TruncNotify(t)
  PROVE  KeepInv'
<1> USE DEF At, Goto, memVars, killVars, chunkVars, tidVars, envVars
<1>0. /\ pc \in [Thread -> Points] /\ DOMAIN loc = Thread /\ WorkOK(t)
  BY KeepFacts, ThreadFacts
<1>1. /\ NotifyIndexFlush(tid) /\ UNCHANGED <<mode, store, klist, chunks, tid, files, loc, segs>>
      /\ \/ pc[t] = "f_notify" /\ pc' = [pc EXCEPT ![t] = "f_end"]
         \/ pc[t] = "t_notify" /\ pc' = [pc EXCEPT ![t] = "t_ram"]
  BY DEF FlushNotify, TruncNotify, segVars
<1>2. /\ pc[t] \in Working /\ pc[t] # "f_killed" /\ pc'[t] # "f_killed" /\ pc[t] \notin Begun
      /\ (pc'[t] \in Emptying <=> pc[t] \in Emptying) /\ (pc'[t] \in Unsettled <=> pc[t] \in Unsettled)
      /\ (pc'[t] = "t_mem" <=> pc[t] = "t_mem") /\ ~ShutdownEnd(t)
  BY <1>0, <1>1 DEF Working, WriterHeld, FlushHeld, Begun, Emptying, Unsettled, ShutdownEnd
<1>3. files.meta.tid = tid
  BY <1>0, <1>1 DEF WorkOK, Flushes, Empties, Emptying
<1>4. Visible' = Visible
  BY <1>1, SameData
<1>5. WorkOK(t)'
  <2>1. loc[t].etid = 0
    <3>1. loc[t].op # "commit"
      BY <1>1, ThreadFacts DEF OpAt, FlushHeld
    <3> QED BY <1>0, <3>1, ThreadFacts DEF WorkOK, Replays
  <2> QED BY <1>0, <1>1, <1>3, <2>1 DEF WorkOK, Replays, Commits, Begun, Settling, Saves, SavePoint,
       Ahead, Flushes, Empties, Emptying
<1> QED BY <1>0, <1>1, <1>2, <1>3, <1>4, <1>5, NotifyStep

\* A save is over; so is what was replayed.
LEMMA SaveEndKeeps ==
  ASSUME Careful, DurInv, AliveInv', NEW t \in Thread, Step(t), SaveEnd(t) PROVE KeepInv'
<1> USE DEF At, Goto, Finish, memVars, killVars, chunkVars, tidVars, envVars
<1>0. /\ pc \in [Thread -> Points] /\ DOMAIN loc = Thread /\ WorkOK(t) /\ KeepInv /\ TypeInv
      /\ loc[t].etid \in Nat /\ files.meta.n \in Nat /\ tid \in Nat /\ files.meta.tid \in Nat
      /\ \A m \in DOMAIN log : m \in Nat
  BY KeepFacts, ThreadFacts
<1>1. /\ pc[t] = "s_end" /\ pc' = [pc EXCEPT ![t] = "idle"] /\ loc' = [loc EXCEPT ![t] = NoLoc]
      /\ UNCHANGED <<mode, store, klist, chunks, files, segs>>
      /\ IF loc[t].op = "commit" /\ loc[t].etid = 0 THEN NotifyIndexFlush(loc[t].tid)
         ELSE UNCHANGED log
      /\ tid' = IF loc[t].etid > 0 THEN loc[t].etid ELSE tid
  BY DEF SaveEnd, segVars
<1>2. /\ pc[t] \in Working /\ pc[t] # "f_killed" /\ pc'[t] # "f_killed" /\ pc[t] \notin Begun
      /\ (pc'[t] \in Emptying <=> pc[t] \in Emptying) /\ (pc'[t] \in Unsettled <=> pc[t] \in Unsettled)
      /\ (pc'[t] = "t_mem" <=> pc[t] = "t_mem") /\ ~ShutdownEnd(t)
      /\ \A u \in Thread \ {t} : pc'[u] = pc[u] /\ loc'[u] = loc[u]
  BY <1>0, <1>1 DEF Working, WriterHeld, Begun, Emptying, Unsettled, ShutdownEnd
<1>3. Visible' = Visible
  BY <1>1, SameData
<1>4. WorkOK(t)'
  <2>1. pc'[t] \notin Begun \cup Settling \cup Emptying \cup (FlushHeld \ {"f_kill", "f_killed"})
    BY <1>0, <1>1 DEF Begun, Settling, Emptying, FlushHeld
  <2>2. ~(loc'[t].etid > 0)
    BY <1>0, <1>1 DEF NoLoc
  <2> QED BY <2>1, <2>2, NoWork
<1>5. /\ SomeAt(Emptying)' <=> SomeAt(Emptying)
      /\ SomeAt(Unsettled)' <=> SomeAt(Unsettled)
      /\ SomeAt({"t_mem"})' <=> SomeAt({"t_mem"})
      /\ SomeAt({"f_killed"})' <=> SomeAt({"f_killed"})
  BY <1>2, Where
<1>6. FilesCalm
  BY <1>1, <1>5 DEF FilesCalm, Kills
<1>7. CASE loc[t].etid = 0 /\ loc[t].op = "commit"
  <2>1. loc[t].tid = tid /\ files.meta.tid = tid
    BY <1>0, <1>1, <1>7 DEF WorkOK, Commits, Saves, Settling
  <2>2. NotifyIndexFlush(tid) /\ tid' = tid
    BY <1>1, <1>7, <2>1
  <2> QED BY <1>1, <1>2, <1>3, <1>4, <2>1, <2>2, NotifyStep
<1>8. CASE loc[t].etid = 0 /\ loc[t].op # "commit"
  <2>1. tid' = tid /\ log' = log
    BY <1>1, <1>8
  <2>2. \A d : ~Touches(t, d)
    BY <1>2 DEF Touches
  <2> QED BY <1>1, <1>2, <1>3, <1>4, <1>6, <2>1, <2>2, CalmStep
<1>9. CASE loc[t].etid > 0
  <2>1. /\ tid' = loc[t].etid /\ log' = log /\ mode = "replay"
        /\ tid' \in Nat /\ tid' > tid
        /\ \A d \in Doc : ~Since(loc[t].etid, d) => Visible[d] = store[d]
    BY <1>0, <1>1, <1>9 DEF WorkOK, Replays, Commits, NextEntry, Settling
  <2>2. LogSays' /\ LogOK'
    BY <1>0, <1>1, <2>1, SinceSame DEF KeepInv, LogSays, LogOK, Alive
  <2>3. MemShows'
    BY <1>1, <1>3, <2>1, SinceSame DEF MemShows
  <2>4. FileInv'
    BY <1>0, <1>1, <1>5, <1>6, <2>1, FileInvFrame DEF KeepInv
  <2>5. ChunksStored'
    BY <1>0, <1>1, <1>5, ChunksFrame DEF KeepInv
  <2> QED BY <1>1, <1>2, <1>4, <2>2, <2>3, <2>4, <2>5, StepKeeps
<1> QED BY <1>0, <1>7, <1>8, <1>9

-----------------------------------------------------------------------------
(* A transaction is logged. *)

LEMMA LoggedSince ==
  ASSUME FilesOK, MemOK, NEW adds, NEW kill, Logged(FALSE, adds, kill), \A m \in DOMAIN log : m <= tid
  PROVE  /\ tid' = tid + 1 /\ tid + 1 \notin DOMAIN log
         /\ DOMAIN log' = DOMAIN log \cup {tid + 1}
         /\ log'[tid + 1] = [upd |-> FALSE, adds |-> adds, kill |-> kill]
         /\ \A m \in DOMAIN log : log'[m] = log[m]
         /\ \A d, n : n \in Nat /\ n <= tid => (Since(n, d)' <=> Since(n, d) \/ d \in kill)
<1>0. tid \in Nat /\ \A m \in DOMAIN log : m \in Nat
  BY DEF FilesOK, MemOK
<1>1. /\ tid' = tid + 1 /\ tid + 1 \notin DOMAIN log
      /\ log' = [m \in DOMAIN log \cup {tid + 1} |->
                   IF m = tid + 1 THEN [upd |-> FALSE, adds |-> adds, kill |-> kill] ELSE log[m]]
  BY <1>0 DEF Logged
<1>2. /\ DOMAIN log' = DOMAIN log \cup {tid + 1}
      /\ log'[tid + 1] = [upd |-> FALSE, adds |-> adds, kill |-> kill]
      /\ \A m \in DOMAIN log : log'[m] = log[m]
  BY <1>1
<1>3. ASSUME NEW d, NEW n \in Nat, n <= tid PROVE Since(n, d)' <=> Since(n, d) \/ d \in kill
  <2>1. tid + 1 > n /\ log'[tid + 1].kill = kill
    BY <1>0, <1>2, <1>3
  <2> QED BY <1>2, <2>1 DEF Since
<1> QED BY <1>1, <1>2, <1>3

LEMMA CommitBinlogKeeps ==
  ASSUME Careful, DurInv, AliveInv', NEW t \in Thread, Step(t), CommitBinlog(t), loc[t].etid = 0
  PROVE  KeepInv'
<1> USE DEF At, Goto, memVars, segVars, killVars, chunkVars, tidVars, envVars
<1> DEFINE adds == loc[t].adds
           kill == loc[t].kill
<1>0. /\ pc \in [Thread -> Points] /\ DOMAIN loc = Thread /\ WorkOK(t) /\ KeepInv /\ TypeInv
      /\ files.meta.n \in Nat /\ tid \in Nat /\ files.meta.tid \in Nat /\ FilesOK /\ MemOK
      /\ \A m \in DOMAIN log : m \in Nat
  BY KeepFacts, ThreadFacts
<1>1. /\ pc[t] = "c_binlog" /\ pc' = [pc EXCEPT ![t] = "c_mark"]
      /\ UNCHANGED <<mode, klist, chunks, files, segs, loc>>
      /\ Logged(FALSE, adds, kill) /\ store' = Applied(store, adds, kill)
  <2>1. ~(loc[t].etid > 0)
    OBVIOUS
  <2> QED BY <2>1, Zenon DEF CommitBinlog
<1>2. mode = "up"
  <2>1. loc[t].op # "none"
    BY <1>1, ThreadFacts DEF OpAt
  <2> QED BY <1>0, <2>1 DEF KeepInv, ReplayOne, Step
<1>3. (\A m \in DOMAIN log : m <= tid) /\ files.meta.tid <= tid
  BY <1>0, <1>2 DEF KeepInv, LogOK, Alive
<1>4. /\ tid' = tid + 1 /\ tid + 1 \notin DOMAIN log
      /\ DOMAIN log' = DOMAIN log \cup {tid + 1}
      /\ log'[tid + 1] = [upd |-> FALSE, adds |-> adds, kill |-> kill]
      /\ \A m \in DOMAIN log : log'[m] = log[m]
      /\ \A d, n : n \in Nat /\ n <= tid => (Since(n, d)' <=> Since(n, d) \/ d \in kill)
  <2>1. FilesOK /\ MemOK /\ Logged(FALSE, adds, kill)
    BY <1>0, <1>1
  <2>2. \A m \in DOMAIN log : m <= tid
    BY <1>3
  <2> HIDE DEF adds, kill
  <2> QED BY <2>1, <2>2, LoggedSince, Zenon
<1>5. \A d \in Doc : adds[d] # NoRow => d \in kill
  BY <1>1, ThreadFacts DEF ThreadOK, CommitOK, CommitPending
<1>6. \A d \in Doc : store'[d] = IF d \in kill THEN adds[d] ELSE store[d]
  BY <1>1, <1>5 DEF Applied
<1>7. /\ pc[t] \in Working /\ ~ShutdownEnd(t) /\ pc'[t] = "c_mark"
      /\ \A u \in Thread \ {t} : pc'[u] = pc[u] /\ loc'[u] = loc[u]
  BY <1>0, <1>1 DEF Working, WriterHeld, ShutdownEnd
<1>8. /\ SomeAt(Emptying)' <=> SomeAt(Emptying)
      /\ SomeAt(Unsettled)' <=> SomeAt(Unsettled)
      /\ SomeAt({"t_mem"})' <=> SomeAt({"t_mem"})
      /\ SomeAt({"f_killed"})' <=> SomeAt({"f_killed"})
      /\ \A d : \A u \in Thread : ~Touches(u, d)
      /\ \A d : (\A u \in Thread : ~Touches(u, d)') <=> ~Touches(t, d)'
  <2>1. \A d : ~Touches(t, d)
    BY <1>1 DEF Touches, Begun
  <2>2. /\ pc'[t] \in Emptying <=> pc[t] \in Emptying
        /\ pc'[t] \in Unsettled <=> pc[t] \in Unsettled
        /\ pc'[t] # "t_mem" /\ pc[t] # "t_mem" /\ pc'[t] # "f_killed" /\ pc[t] # "f_killed"
    BY <1>1, <1>7 DEF Emptying, Unsettled
  <2> QED BY <1>7, <2>1, <2>2, Where
<1>9. LogSays'
  <2> SUFFICES ASSUME NEW d \in Doc, NEW m \in DOMAIN log', m > files.meta.tid,
                      d \in log'[m].kill, ~Since(m, d)'
               PROVE  store'[d] = log'[m].adds[d]
    BY <1>1 DEF LogSays
  <2>1. CASE m = tid + 1
    BY <1>4, <1>6, <2>1
  <2>2. CASE m # tid + 1
    <3>1. m \in DOMAIN log /\ log'[m] = log[m] /\ m \in Nat /\ m <= tid
      BY <1>0, <1>3, <1>4, <2>2
    <3>2. ~Since(m, d) /\ d \notin kill
      BY <1>4, <3>1
    <3> QED BY <1>0, <1>6, <3>1, <3>2 DEF KeepInv, LogSays
  <2> QED BY <2>1, <2>2
<1>10. LogOK'
  BY <1>0, <1>1, <1>3, <1>4, <1>5 DEF KeepInv, LogOK, Alive
<1>11. MemShows'
  <2> SUFFICES ASSUME ~SomeAt(Emptying), NEW d \in Doc, ~Touches(t, d)'
               PROVE  Visible'[d] = store'[d]
    BY <1>8 DEF MemShows
  <2>1. d \notin kill
    BY <1>1, <1>7 DEF Touches, Begun
  <2>2. ~Since(tid, d)
    BY <1>0, <1>3 DEF Since
  <2>3. Visible[d] = store[d]
    BY <1>0, <1>2, <1>8, <2>2 DEF KeepInv, MemShows, Alive
  <2>4. Visible' = Visible
    BY <1>1, SameData
  <2> QED BY <1>6, <2>1, <2>3, <2>4
<1>12. FileInv'
  <2> SUFFICES ASSUME ~SomeAt(Unsettled) PROVE FileCopies' /\ FileShows' /\ KillsLogged'
    BY <1>1, <1>2, <1>8 DEF FileInv, Alive
  <2>1. FileCopies /\ FileShows /\ KillsLogged
    BY <1>0 DEF KeepInv, FileInv
  <2>2. FilesCalm
    BY <1>1, <1>8 DEF FilesCalm, Kills
  <2>3. FilesSame /\ (Loaded' <=> Loaded) /\ \A d : Hides(d)' <=> Hides(d)
    BY <2>2, FilesCalmSame
  <2>4. \A d : Since(files.meta.tid, d)' <=> Since(files.meta.tid, d) \/ d \in kill
    <3>1. \A d : LET n == files.meta.tid IN Since(files.meta.tid, d)' <=> Since(n, d) \/ d \in kill
      BY <1>0, <1>1, <1>3, <1>4 DEF Since
    <3> QED BY <3>1
  <2>5. FileCopies' /\ FileShows'
    BY <1>0, <1>6, <2>1, <2>3, <2>4, FilesFrameRows
  <2>6. KillsLogged'
    BY <1>1, <2>1, <2>2, <2>3, <2>4 DEF KillsLogged, FilesCalm, Alive
  <2> QED BY <2>5, <2>6
<1>13. ChunksStored'
  BY <1>0, <1>1, <1>8, ChunksFrame DEF KeepInv
<1>14. WorkOK(t)'
  <2>1. Entry(t, tid)'
    BY <1>0, <1>1, <1>3, <1>4 DEF Entry
  <2>2. \A d \in kill : store'[d] = adds[d]
    BY <1>6, ThreadFacts
  <2> QED BY <1>1, <1>7, <2>1, <2>2 DEF WorkOK, Replays, Commits, Begun, Settling, Saves, SavePoint,
       Ahead, Flushes, Empties, Emptying
<1> QED BY <1>1, <1>7, <1>9, <1>10, <1>11, <1>12, <1>13, <1>14, StepKeeps

-----------------------------------------------------------------------------
(* A transaction is brought online. *)

LEMMA CommitLiveKeepsFiles ==
  ASSUME Careful, DurInv, AliveInv', NEW t \in Thread, Step(t), CommitLive(t)
  PROVE  KeepInv'
<1> DEFINE adds == loc[t].adds
           kill == loc[t].kill
           etid == loc[t].etid
<1>0. /\ pc \in [Thread -> Points] /\ DOMAIN loc = Thread /\ KeepInv /\ TypeInv /\ AliveInv
      /\ files.meta.n \in Nat /\ tid \in Nat /\ files.meta.tid \in Nat /\ ValueInv
      /\ \A m \in DOMAIN log : m \in Nat
  BY KeepFacts
<1>0a. Replays(t) /\ Commits(t) /\ CommitOK(t) /\ etid \in Nat /\ adds \in Rows
  BY ThreadFacts DEF WorkOK, ThreadOK
<1>1. /\ pc[t] = "c_live" /\ UNCHANGED <<files, log, store, mode, chunks>>
      /\ \/ loc[t].dump /\ pc' = [pc EXCEPT ![t] = "c_outer"] /\ UNCHANGED <<tid, loc>>
         \/ /\ pc' = [pc EXCEPT ![t] = "idle"] /\ loc' = [loc EXCEPT ![t] = NoLoc]
            /\ tid' = IF etid > 0 THEN etid ELSE tid
  BY Zenon DEF CommitLive, At, Goto, Finish, tidVars, envVars, chunkVars
<1>2. /\ klist' = klist \cup loc[t].live
      /\ \A d \in Doc : RamRows(d)' # {} <=> Stays(t, d)
  BY <1>0, CommitLiveRows
<1>3. /\ \A d \in Doc : adds[d] # NoRow => d \in kill
      /\ loc[t].live \subseteq kill
  BY <1>0a, <1>1 DEF CommitOK, CommitPending
<1>4. \A d \in Doc : Visible'[d] = IF d \in kill THEN adds[d] ELSE Visible[d]
  BY <1>0, <1>3, CommitLiveShows
<1>5. /\ pc[t] \in Working /\ ~ShutdownEnd(t) /\ pc'[t] \in {"c_outer", "idle"}
      /\ \A u \in Thread \ {t} : pc'[u] = pc[u] /\ loc'[u] = loc[u]
  BY <1>0, <1>1 DEF Working, WriterHeld, ShutdownEnd, At
<1>6. /\ ~SomeAt(Emptying) /\ ~SomeAt(Emptying)'
      /\ ~SomeAt(Unsettled) /\ ~SomeAt(Unsettled)'
      /\ ~SomeAt({"t_mem"}) /\ ~SomeAt({"t_mem"})'
      /\ ~SomeAt({"f_killed"}) /\ ~SomeAt({"f_killed"})'
      /\ \A d : (\A u \in Thread : ~Touches(u, d)) <=> ~Touches(t, d)
  <2>1. /\ pc'[t] \notin Emptying /\ pc[t] \notin Emptying
        /\ pc'[t] \notin Unsettled /\ pc[t] \notin Unsettled
        /\ pc'[t] # "t_mem" /\ pc[t] # "t_mem" /\ pc'[t] # "f_killed" /\ pc[t] # "f_killed"
    BY <1>1, <1>5 DEF Emptying, Unsettled
  <2> QED BY <1>5, <2>1, Where
<1>7. \A n, d : Since(n, d)' <=> Since(n, d)
  BY <1>1, SinceSame
<1>8. etid > 0 => /\ mode = "replay" /\ NextEntry(etid) /\ Entry(t, etid)
                  /\ \A d \in Doc : ~Since(etid, d) => Visible'[d] = store[d]
  <2> SUFFICES ASSUME etid > 0, NEW d \in Doc, ~Since(etid, d) PROVE Visible'[d] = store[d]
    BY <1>0a DEF Replays
  <2>1. /\ etid \in DOMAIN log /\ etid > tid /\ \A m \in DOMAIN log : m <= tid \/ etid <= m
        /\ etid > files.meta.tid /\ log[etid].adds = adds /\ log[etid].kill = kill
        /\ mode = "replay"
    BY <1>0a DEF Replays, NextEntry, Entry
  <2>2. CASE d \in kill
    BY <1>0, <1>4, <2>1, <2>2 DEF KeepInv, LogSays
  <2>3. CASE d \notin kill
    <3>1. ~Since(tid, d)
      <4> SUFFICES ASSUME NEW m \in DOMAIN log, m > tid, d \in log[m].kill PROVE FALSE
        BY DEF Since
      <4>1. m > etid
        BY <1>0, <1>0a, <2>1, <2>3
      <4> QED BY <4>1 DEF Since
    <3>2. ~Touches(t, d)
      BY DEF Touches
    <3>3. Visible[d] = store[d]
      BY <1>0, <1>6, <2>1, <3>1, <3>2 DEF KeepInv, MemShows, Alive
    <3> QED BY <1>4, <2>3, <3>3
  <2> QED BY <2>2, <2>3
<1>9. etid = 0 => /\ Entry(t, tid)
                  /\ \A d \in Doc : ~Since(tid, d) => Visible'[d] = store[d]
  <2> SUFFICES ASSUME etid = 0
               PROVE  /\ Entry(t, tid)
                      /\ \A d \in Doc : ~Since(tid, d) => Visible'[d] = store[d]
    OBVIOUS
  <2>1. Entry(t, tid) /\ \A d \in kill : store[d] = adds[d]
    BY <1>0a, <1>1 DEF Commits, Begun
  <2>2. ASSUME NEW d \in Doc, d \notin kill, ~Since(tid, d) PROVE Visible[d] = store[d]
    <3>1. ~Touches(t, d)
      BY <2>2 DEF Touches
    <3> QED BY <1>0, <1>6, <2>2, <3>1 DEF KeepInv, MemShows, Step, Alive
  <2> QED BY <1>4, <2>1, <2>2
<1>10. \E m \in DOMAIN log : m > files.meta.tid /\ log[m].kill = kill
  BY <1>0a, <1>8, <1>9 DEF Entry
<1>11. LogSays' /\ LogOK'
  <2>1. CASE tid' = tid
    BY <1>0, <1>1, <2>1, LogFrame DEF KeepInv
  <2>2. CASE etid > 0 /\ tid' = etid
    <3>1. etid > tid /\ mode = "replay"
      BY <1>8, <2>2 DEF NextEntry
    <3> QED BY <1>0, <1>0a, <1>1, <1>7, <2>2, <3>1 DEF KeepInv, LogSays, LogOK, Alive
  <2> QED BY <1>1, <2>1, <2>2
<1>12. MemShows'
  <2> SUFFICES ASSUME NEW d \in Doc, ~Since(tid, d)' PROVE Visible'[d] = store[d]
    BY <1>1 DEF MemShows
  <2>1. CASE etid = 0
    <3>1. tid' = tid
      BY <1>1, <2>1
    <3>2. ~Since(tid, d)
      BY <1>1, <3>1 DEF Since
    <3> QED BY <1>9, <2>1, <3>2
  <2>2. CASE etid > 0 /\ tid' = etid
    <3>1. ~Since(etid, d)
      BY <1>1, <2>2 DEF Since
    <3> QED BY <1>8, <2>2, <3>1
  <2>3. CASE etid > 0 /\ tid' = tid
    <3>1. ~Since(tid, d)
      BY <1>1, <2>3 DEF Since
    <3>2. ~Since(etid, d)
      BY <1>0, <1>0a, <1>8, <2>3, <3>1 DEF Since, NextEntry
    <3> QED BY <1>8, <2>3, <3>2
  <2> QED BY <1>0a, <1>1, <2>1, <2>2, <2>3
<1>13. FileInv'
  <2>1. FileCopies /\ FileShows /\ KillsLogged
    BY <1>0, <1>6 DEF KeepInv, FileInv
  <2>2. FilesCalm
    BY <1>1, <1>6 DEF FilesCalm, Kills
  <2>3. FilesSame /\ (Loaded' <=> Loaded) /\ \A d : Hides(d)' <=> Hides(d)
    BY <2>2, FilesCalmSame
  <2>4. \A d : Since(files.meta.tid, d)' <=> Since(files.meta.tid, d)
    BY <1>1 DEF Since
  <2>5. FileCopies' /\ FileShows'
    BY <1>0, <1>1, <2>1, <2>3, <2>4, FilesFrameRows
  <2>6. \A d \in kill : Since(files.meta.tid, d)
    BY <1>10 DEF Since
  <2>7. KillsLogged'
    BY <1>1, <1>2, <1>3, <2>1, <2>2, <2>3, <2>4, <2>6 DEF KillsLogged, FilesCalm, Alive
  <2> QED BY <2>5, <2>7 DEF FileInv
<1>14. ChunksStored'
  BY <1>0, <1>1, <1>6, ChunksFrame DEF KeepInv
<1>15. WorkOK(t)'
  <2>1. CASE pc'[t] = "idle"
    <3>1. loc'[t] = NoLoc
      BY <1>0, <1>1, <2>1
    <3>2. pc'[t] \notin Begun \cup Settling \cup Emptying \cup (FlushHeld \ {"f_kill", "f_killed"})
      BY <2>1 DEF Begun, Settling, Emptying, FlushHeld
    <3>3. ~(loc'[t].etid > 0)
      BY <3>1 DEF NoLoc
    <3> QED BY <3>2, <3>3, NoWork
  <2>2. CASE pc'[t] = "c_outer"
    <3>1. loc[t].dump /\ UNCHANGED <<tid, loc>>
      BY <1>0, <1>1, <2>2
    <3>2. Replays(t)'
      BY <1>0, <1>0a, <1>1, <3>1, ReplaysOn
    <3>3. DOMAIN segs' # {}
      <4>1. adds # NoRows
        BY <1>0a, <1>1, <3>1 DEF Commits
      <4>2. PICK d \in Doc : adds[d] # NoRow
        BY <1>0a, <4>1 DEF Rows, NoRows
      <4>3. RamRows(d)' # {}
        BY <1>2, <1>3, <4>2 DEF Stays
      <4> QED BY <4>3 DEF RamRows
    <3>4. \A d : Since(loc[t].etid, d)' <=> Since(etid, d)
      BY <1>1, <3>1 DEF Since
    <3>5. etid > 0 => \A d \in Doc : ~Since(loc[t].etid, d)' => Visible'[d] = store'[d]
      BY <1>1, <1>8, <3>4
    <3>6. Commits(t)'
      BY <1>0a, <1>1, <2>2, <3>1, <3>3, <3>5 DEF Commits, Begun, Settling
    <3> QED BY <2>2, <3>2, <3>6 DEF WorkOK, Saves, SavePoint, Ahead, Flushes, Empties, Emptying
  <2> QED BY <1>5, <2>1, <2>2
<1> QED BY <1>1, <1>5, <1>11, <1>12, <1>13, <1>14, <1>15, StepKeeps

-----------------------------------------------------------------------------
(* A save. *)

LEMMA SaveFacts ==
  ASSUME Careful, DurInv, NEW t \in Thread, Step(t), pc[t] \in Saving
  PROVE  /\ pc \in [Thread -> Points] /\ DOMAIN loc = Thread /\ KeepInv /\ TypeInv /\ AliveInv
         /\ LocIs(loc[t]) /\ Replays(t) /\ Commits(t) /\ Saves(t) /\ loc[t].tid = tid
         /\ files.meta.n \in Nat /\ tid \in Nat /\ files.meta.tid \in Nat /\ files.meta.tid <= tid
         /\ files.meta.base = 0 /\ base = 0 /\ DOMAIN files = FileFields
         /\ DOMAIN chunks = 1..Len(chunks) /\ Len(chunks) \in Nat
         /\ \A m \in DOMAIN log : m \in Nat
         /\ pc[t] \in Working /\ ~ShutdownEnd(t) /\ Alive /\ \A d : ~Touches(t, d)
         /\ ~SomeAt(Emptying) /\ ~SomeAt({"t_mem"}) /\ ~SomeAt({"f_killed"})
         /\ SomeAt(Unsettled) <=> pc[t] \in Unsettled
<1>1. Alive /\ base = 0
  BY NumberZero DEF Step, Alive
<1>2. LocIs(loc[t]) /\ Replays(t) /\ Commits(t) /\ Saves(t) /\ loc[t].tid = tid
  BY ThreadFacts DEF WorkOK, Commits, Saving, Settling
<1>3. /\ pc[t] \in Working /\ ~ShutdownEnd(t) /\ \A d : ~Touches(t, d)
      /\ pc[t] \notin Emptying /\ pc[t] # "t_mem" /\ pc[t] # "f_killed"
  BY DEF Saving, Working, WriterHeld, ShutdownEnd, At, Touches, Begun, Emptying
<1>4. \A u \in Thread \ {t} : pc[u] \notin Working
  BY <1>3, WorksAlone
<1>5. /\ ~SomeAt(Emptying) /\ ~SomeAt({"t_mem"}) /\ ~SomeAt({"f_killed"})
      /\ SomeAt(Unsettled) <=> pc[t] \in Unsettled
  BY <1>3, <1>4 DEF SomeAt, Working, WriterHeld, FlushHeld, Emptying, Unsettled
<1>6. files.meta.tid <= tid
  BY <1>1, KeepFacts DEF KeepInv, LogOK
<1> QED BY <1>1, <1>2, <1>3, <1>5, <1>6, KeepFacts

LEMMA SaveWriteKeepsFiles ==
  ASSUME Careful, DurInv, AliveInv', NEW t \in Thread, Step(t), SaveWrite(t), DOMAIN segs # {}
  PROVE  KeepInv'
<1> USE DEF At, Goto, memVars, segVars, killVars, chunkVars, tidVars, envVars
<1>1. pc[t] = "s_write"
  BY DEF SaveWrite
<1>2. pc[t] \in Saving
  BY <1>1 DEF Saving
<1>3. /\ pc \in [Thread -> Points] /\ DOMAIN loc = Thread /\ KeepInv /\ TypeInv
      /\ LocIs(loc[t]) /\ Replays(t) /\ Commits(t) /\ Saves(t) /\ loc[t].tid = tid
      /\ files.meta.n \in Nat /\ tid \in Nat /\ files.meta.tid \in Nat
      /\ base = 0 /\ DOMAIN files = FileFields /\ DOMAIN chunks = 1..Len(chunks)
      /\ Len(chunks) \in Nat /\ \A m \in DOMAIN log : m \in Nat
  BY <1>2, SaveFacts
<1>3a. /\ pc[t] \in Working /\ ~ShutdownEnd(t) /\ Alive /\ \A d : ~Touches(t, d)
       /\ ~SomeAt(Emptying) /\ ~SomeAt({"t_mem"}) /\ ~SomeAt({"f_killed"})
       /\ SomeAt(Unsettled) <=> pc[t] \in Unsettled
  BY <1>2, SaveFacts
<1>4. /\ UNCHANGED <<mode, log, store, klist, chunks, tid, segs>> /\ pc' = [pc EXCEPT ![t] = "s_meta"]
      /\ \E c : LET n == ChunkName(Len(chunks) + 1) IN
           /\ files' = [files EXCEPT !.chunk = [i \in DOMAIN @ \cup {n} |-> IF i = n THEN c ELSE @[i]]]
           /\ loc' = [loc EXCEPT ![t].chunk = c]
  BY DEF SaveWrite
<1>5. PICK c : LET n == ChunkName(Len(chunks) + 1) IN
           /\ files' = [files EXCEPT !.chunk = [i \in DOMAIN @ \cup {n} |-> IF i = n THEN c ELSE @[i]]]
           /\ loc' = [loc EXCEPT ![t].chunk = c]
  BY <1>4
<1>6. ChunkName(Len(chunks) + 1) = Len(chunks)
  BY <1>3 DEF ChunkName
<1>7. /\ files'.meta = files.meta /\ files'.hasRam = files.hasRam /\ files'.ram = files.ram
      /\ files'.kill = files.kill
      /\ files'.chunk = [i \in DOMAIN files.chunk \cup {Len(chunks)} |->
                           IF i = Len(chunks) THEN c ELSE files.chunk[i]]
  BY <1>3, <1>5, <1>6 DEF FileFields
<1>8. /\ \A f \in {"op", "adds", "kill", "etid", "tid"} : loc'[t][f] = loc[t][f]
      /\ loc'[t].chunk = c
  BY <1>3, <1>5 DEF LocIs, LocFields
<1>9. files.meta.n = Len(chunks)
  <2>1. ~SomeAt(Unsettled)
    BY <1>1, <1>3a DEF Unsettled
  <2> QED BY <1>3, <1>3a, <2>1 DEF KeepInv, ChunksStored
<1>10. /\ \A i \in DOMAIN chunks : files'.chunk[i - 1] = files.chunk[i - 1]
       /\ \A i \in 1..files.meta.n : files'.chunk[i - 1] = files.chunk[i - 1]
  <2>1. ASSUME NEW i \in 1..Len(chunks) PROVE files'.chunk[i - 1] = files.chunk[i - 1]
    <3>1. i - 1 \in DOMAIN files.chunk
      <4>1. FilesThere
        BY KeepFacts, <1>3a DEF StartInv, Chunked, Alive
      <4>2. ~SomeAt({"o_new"})
        <5>1. \A u \in Thread : pc[u] # "o_new"
          BY ThreadFacts DEF OpAt
        <5> QED BY <5>1 DEF SomeAt
      <4>3. Present(ChunkName(i))
        BY <1>3a, <4>1, <4>2 DEF FilesThere
      <4> QED BY <1>3, <4>3 DEF Present, ChunkName
    <3>2. i - 1 # Len(chunks)
      BY <1>3
    <3> QED BY <1>7, <3>1, <3>2
  <2> QED BY <1>3, <1>9, <2>1
<1>11. pc'[t] = "s_meta" /\ \A u \in Thread \ {t} : pc'[u] = pc[u] /\ loc'[u] = loc[u]
  BY <1>3, <1>4, <1>5
<1>12. FilesCalm
  <2>1. ~SomeAt({"f_killed"})'
    BY <1>3a, <1>11, Where
  <2> QED BY <1>3a, <1>4, <1>7, <1>10, <2>1 DEF FilesCalm, Kills
<1>13. Visible' = Visible
  BY <1>4, SameData
<1>14. WorkOK(t)'
  <2>1. Replays(t)'
    BY <1>3, <1>4, <1>7, <1>8, ReplaysOn
  <2>2. \A d : Since(loc[t].etid, d)' <=> Since(loc[t].etid, d)
    BY <1>4, <1>8 DEF Since
  <2>3. Commits(t)'
    BY <1>1, <1>3, <1>4, <1>8, <1>11, <1>13, <2>2 DEF Commits, Begun, Settling
  <2>4. Saves(t)'
    BY <1>4, <1>7, <1>8, <1>11 DEF Saves, SavePoint, Ahead
  <2> QED BY <1>11, <2>1, <2>3, <2>4 DEF WorkOK, Flushes, Empties, Emptying
<1>15. /\ pc'[t] \in Emptying <=> pc[t] \in Emptying
       /\ pc'[t] \in Unsettled <=> pc[t] \in Unsettled
       /\ pc'[t] = "t_mem" <=> pc[t] = "t_mem"
  BY <1>1, <1>11 DEF Emptying, Unsettled
<1> QED BY <1>3a, <1>4, <1>10, <1>11, <1>12, <1>13, <1>14, <1>15, CalmStep

\* .meta goes ahead of the data.
LEMMA SaveMetaKeeps ==
  ASSUME Careful, DurInv, AliveInv', NEW t \in Thread, Step(t), SaveMeta(t) PROVE KeepInv'
<1> USE DEF At, Goto, memVars, segVars, killVars, chunkVars, tidVars, envVars
<1>1. pc[t] = "s_meta"
  BY DEF SaveMeta
<1>2. pc[t] \in Saving
  BY <1>1 DEF Saving
<1>3. /\ pc \in [Thread -> Points] /\ DOMAIN loc = Thread /\ KeepInv /\ TypeInv
      /\ LocIs(loc[t]) /\ Replays(t) /\ Commits(t) /\ Saves(t) /\ loc[t].tid = tid
      /\ files.meta.n \in Nat /\ tid \in Nat /\ files.meta.tid \in Nat /\ files.meta.tid <= tid
      /\ base = 0 /\ DOMAIN files = FileFields /\ DOMAIN chunks = 1..Len(chunks)
      /\ Len(chunks) \in Nat /\ \A m \in DOMAIN log : m \in Nat
  BY <1>2, SaveFacts
<1>3a. /\ pc[t] \in Working /\ ~ShutdownEnd(t) /\ Alive /\ \A d : ~Touches(t, d)
       /\ ~SomeAt(Emptying) /\ ~SomeAt({"t_mem"}) /\ ~SomeAt({"f_killed"})
  BY <1>2, SaveFacts
<1>4. /\ UNCHANGED <<mode, log, store, klist, chunks, tid, segs, loc>>
      /\ pc' = [pc EXCEPT ![t] = "s_inner"]
      /\ files' = [files EXCEPT !.meta = Meta(Len(chunks) + 1, loc[t].tid)]
  BY DEF SaveMeta
<1>5. /\ files'.chunk = files.chunk /\ files'.meta.tid = tid /\ files'.meta.base = 0
      /\ files'.meta.n = Len(chunks) + 1
  BY <1>3, <1>4 DEF FileFields, Meta, MetaFile
<1>6. pc'[t] = "s_inner" /\ \A u \in Thread \ {t} : pc'[u] = pc[u] /\ loc'[u] = loc[u]
  BY <1>3, <1>4
<1>7. /\ SomeAt(Unsettled)' /\ ~SomeAt(Emptying)' /\ ~SomeAt({"t_mem"})'
      /\ \A d : (\A u \in Thread : ~Touches(u, d))
  <2>1. pc'[t] \in Unsettled /\ pc'[t] \notin Emptying /\ pc'[t] # "t_mem"
    BY <1>6 DEF Unsettled, Emptying
  <2> QED BY <1>3a, <1>6, <2>1, Where
<1>8. LogSays' /\ LogOK'
  <2>1. LogSays'
    BY <1>3, <1>4, <1>5, SinceSame DEF KeepInv, LogSays
  <2>2. LogOK'
    BY <1>3, <1>4, <1>5 DEF KeepInv, LogOK, Alive
  <2> QED BY <2>1, <2>2
<1>9. Visible' = Visible
  BY <1>4, SameData
<1>10. MemShows'
  BY <1>3, <1>3a, <1>4, <1>7, <1>9, MemShowsFrame DEF KeepInv
<1>11. FileInv'
  BY <1>3a, <1>4, <1>7 DEF FileInv, Alive
<1>12. ChunksStored'
  BY <1>3, <1>3a, <1>4, <1>5, <1>7 DEF KeepInv, ChunksStored, Alive
<1>13. WorkOK(t)'
  <2>1. Replays(t)'
    BY <1>3, <1>4, <1>5, ReplaysOn
  <2>2. \A d : Since(loc[t].etid, d)' <=> Since(loc[t].etid, d)
    BY <1>4 DEF Since
  <2>3. Commits(t)'
    BY <1>1, <1>3, <1>4, <1>6, <1>9, <2>2 DEF Commits, Begun, Settling
  <2>4. Saves(t)'
    BY <1>1, <1>3, <1>4, <1>5, <1>6 DEF Saves, SavePoint, Ahead
  <2> QED BY <1>6, <2>1, <2>3, <2>4 DEF WorkOK, Flushes, Empties, Emptying
<1> QED BY <1>3a, <1>4, <1>6, <1>8, <1>10, <1>11, <1>12, <1>13, StepKeeps

\* The new chunk is online; what it replaces is gone.
LEMMA SaveSwapKeepsFiles ==
  ASSUME Careful, DurInv, AliveInv', NEW t \in Thread, Step(t), SaveSwap(t) PROVE KeepInv'
<1> USE DEF At, Goto, envVars
<1>1. /\ pc[t] = "s_swap" /\ UNCHANGED <<mode, log, store, tid>>
      /\ files' = [files EXCEPT !.ram = NoSegs, !.hasRam = FALSE]
  BY DEF SaveSwap
<1>2. pc[t] \in Saving
  BY <1>1 DEF Saving
<1>3. /\ pc \in [Thread -> Points] /\ DOMAIN loc = Thread /\ KeepInv /\ TypeInv /\ AliveInv
      /\ LocIs(loc[t]) /\ Replays(t) /\ Commits(t) /\ Saves(t) /\ loc[t].tid = tid
      /\ files.meta.n \in Nat /\ tid \in Nat /\ files.meta.tid \in Nat /\ files.meta.tid <= tid
      /\ base = 0 /\ DOMAIN files = FileFields
      /\ \A m \in DOMAIN log : m \in Nat
  BY <1>2, SaveFacts
<1>3a. /\ pc[t] \in Working /\ ~ShutdownEnd(t) /\ Alive /\ \A d : ~Touches(t, d)
       /\ ~SomeAt(Emptying) /\ ~SomeAt({"t_mem"}) /\ ~SomeAt({"f_killed"})
  BY <1>2, SaveFacts
<1>4. PICK n : n = Len(chunks)
  OBVIOUS
<1>5. /\ pc' = [pc EXCEPT ![t] = "s_end"] /\ UNCHANGED loc
      /\ DOMAIN chunks = 1..n /\ n \in Nat /\ klist' = {}
      /\ \A d : RamRows(d)' = {}
      /\ DOMAIN chunks' = 1..(n + 1) /\ Len(chunks') = n + 1
      /\ chunks'[n + 1] = loc[t].chunk /\ \A i \in 1..n : chunks'[i] = chunks[i]
  BY <1>3, <1>4, SaveSwapChunks
<1>6. Visible' = Visible
  BY <1>3, KeepFacts, SaveSwapShows
<1>7. pc'[t] = "s_end" /\ \A u \in Thread \ {t} : pc'[u] = pc[u] /\ loc'[u] = loc[u]
  BY <1>3, <1>5
<1>8. /\ ~SomeAt(Unsettled)' /\ ~SomeAt(Emptying)' /\ ~SomeAt({"t_mem"})'
      /\ \A d : (\A u \in Thread : ~Touches(u, d))
  <2>1. pc'[t] \notin Unsettled /\ pc'[t] \notin Emptying /\ pc'[t] # "t_mem"
    BY <1>7 DEF Unsettled, Emptying
  <2> QED BY <1>3a, <1>7, <2>1, Where
<1>9. /\ files'.meta = files.meta /\ files'.chunk = files.chunk /\ ~files'.hasRam
  BY <1>1, <1>3 DEF FileFields
<1>10. LogSays' /\ LogOK'
  BY <1>1, <1>3, <1>9, LogFrame DEF KeepInv
<1>11. MemShows'
  BY <1>1, <1>3, <1>3a, <1>6, <1>8, MemShowsFrame DEF KeepInv
<1>12. files.meta.n = n + 1 /\ files.meta.tid = tid /\ files.chunk[n] = loc[t].chunk
  BY <1>1, <1>3, <1>4 DEF Saves, SavePoint, Ahead
<1>13. \A i \in DOMAIN chunks' : files'.chunk[i - 1] = chunks'[i]
  <2> SUFFICES ASSUME NEW i \in 1..(n + 1) PROVE files.chunk[i - 1] = chunks'[i]
    BY <1>5, <1>9
  <2>1. CASE i = n + 1
    BY <1>5, <1>12, <2>1
  <2>2. CASE i \in 1..n
    BY <1>3, <1>3a, <1>5, <2>2 DEF KeepInv, ChunksStored
  <2> QED BY <1>5, <2>1, <2>2
<1>14. ChunksStored'
  BY <1>5, <1>9, <1>12, <1>13 DEF ChunksStored
<1>15. FileInv'
  <2>1. Fresh'
    BY <1>5, <1>9, <1>12, <1>13 DEF Fresh, Loaded
  <2>2. TypeInv' /\ OneCopy'
    BY DEF AliveInv
  <2>3. ASSUME NEW d \in Doc, ~Since(files.meta.tid, d)' PROVE Visible'[d] = store'[d]
    <3>1. ~Since(tid, d)
      BY <1>1, <1>9, <1>12, <2>3 DEF Since
    <3>2. Visible[d] = store[d]
      BY <1>3, <1>3a, <1>8, <3>1 DEF KeepInv, MemShows
    <3> QED BY <1>1, <1>6, <3>2
  <2>4. FileCopies' /\ FileShows'
    BY <2>1, <2>2, <2>3, FilesFresh
  <2>5. KillsLogged'
    BY <1>9 DEF KillsLogged, Loaded
  <2> QED BY <2>4, <2>5 DEF FileInv
<1>16. WorkOK(t)'
  <2>1. Replays(t)'
    BY <1>1, <1>3, <1>5, <1>9, ReplaysOn
  <2>2. \A d : Since(loc[t].etid, d)' <=> Since(loc[t].etid, d)
    BY <1>1, <1>5 DEF Since
  <2>3. Commits(t)'
    BY <1>1, <1>3, <1>5, <1>6, <1>7, <2>2 DEF Commits, Begun, Settling
  <2>4. Saves(t)'
    BY <1>1, <1>5, <1>7, <1>9, <1>12 DEF Saves, SavePoint, Ahead
  <2> QED BY <1>7, <2>1, <2>3, <2>4 DEF WorkOK, Flushes, Empties, Emptying
<1> QED BY <1>1, <1>3a, <1>7, <1>10, <1>11, <1>14, <1>15, <1>16, StepKeeps

-----------------------------------------------------------------------------
(* A flush, or what a shutdown writes. *)

LEMMA FlushFacts ==
  ASSUME Careful, DurInv, NEW t \in Thread, Step(t), pc[t] \in FlushHeld
  PROVE  /\ pc \in [Thread -> Points] /\ DOMAIN loc = Thread /\ KeepInv /\ TypeInv /\ OneCopy
         /\ loc[t].etid = 0 /\ Flushes(t) /\ mode = "up" /\ RamThere
         /\ files.meta.n = Len(chunks) /\ Len(chunks) \in Nat /\ DOMAIN chunks = 1..Len(chunks)
         /\ tid \in Nat /\ files.meta.tid \in Nat /\ files.meta.tid <= tid
         /\ files.meta.base = 0 /\ base = 0 /\ DOMAIN files = FileFields
         /\ pc[t] \in Working /\ \A d : ~Touches(t, d)
         /\ ~SomeAt(Emptying) /\ ~SomeAt({"t_mem"}) /\ ~SomeAt(Unsettled)
         /\ FileCopies /\ FileShows /\ KillsLogged
         /\ \A i \in DOMAIN chunks : files.chunk[i - 1] = chunks[i]
         /\ \A d \in Doc : Visible[d] = store[d]
<1>0. KeepInv /\ TypeInv /\ pc \in [Thread -> Points] /\ tid \in Nat /\ \A m \in DOMAIN log : m \in Nat
  BY KeepFacts
<1>1. /\ pc[t] \in Working /\ \A d : ~Touches(t, d)
      /\ pc[t] \notin Emptying /\ pc[t] # "t_mem" /\ pc[t] \notin Unsettled
  BY DEF FlushHeld, Working, Touches, Begun, Emptying, Unsettled
<1>2. \A u \in Thread \ {t} : pc[u] \notin Working
  BY <1>1, WorksAlone
<1>3. /\ ~SomeAt(Emptying) /\ ~SomeAt({"t_mem"}) /\ ~SomeAt(Unsettled)
      /\ \A d : \A u \in Thread : ~Touches(u, d)
  <2>1. ASSUME NEW u \in Thread \ {t} PROVE pc[u] \notin Emptying \cup {"t_mem"} \cup Unsettled \cup Begun
    BY <1>2 DEF Working, WriterHeld, Emptying, Unsettled, Begun
  <2>2. ~SomeAt(Emptying) /\ ~SomeAt({"t_mem"}) /\ ~SomeAt(Unsettled)
    BY <1>1, <2>1 DEF SomeAt
  <2>3. ASSUME NEW d, NEW u \in Thread PROVE ~Touches(u, d)
    BY <1>1, <2>1 DEF Touches
  <2> QED BY <2>2, <2>3
<1>4. loc[t].op \in {"flush", "shutdown"}
  BY ThreadFacts DEF OpAt
<1>5. loc[t].etid = 0 /\ Flushes(t)
  BY <1>4, ThreadFacts DEF WorkOK, Replays
<1>6. mode = "up" /\ Alive /\ base = 0
  BY <1>0, <1>4, <1>5, NumberZero DEF KeepInv, ReplayOne, Step, Alive
<1>7. /\ files.meta.n = Len(chunks) /\ files.meta.tid <= tid
      /\ \A i \in DOMAIN chunks : files.chunk[i - 1] = chunks[i]
      /\ FileCopies /\ FileShows /\ KillsLogged
  BY <1>0, <1>3, <1>6 DEF KeepInv, ChunksStored, LogOK, FileInv
<1>8. ASSUME NEW d \in Doc PROVE Visible[d] = store[d]
  <2>1. ~Since(tid, d)
    BY <1>0, <1>6 DEF KeepInv, LogOK, Since
  <2> QED BY <1>0, <1>3, <1>6, <2>1 DEF KeepInv, MemShows
<1> QED BY <1>0, <1>1, <1>3, <1>5, <1>6, <1>7, <1>8, KeepFacts DEF StartInv

LEMMA FlushStep ==
  ASSUME Careful, DurInv, NEW t \in Thread, Step(t), ~ShutdownEnd(t), pc[t] \in FlushHeld,
         pc'[t] \in FlushHeld, \A u \in Thread \ {t} : pc'[u] = pc[u] /\ loc'[u] = loc[u],
         UNCHANGED <<mode, log, store, klist, chunks, tid, segs, loc>>,
         files'.chunk = files.chunk, files'.meta.n = files.meta.n, files'.meta.base = 0,
         files'.meta.tid \in {files.meta.tid, tid},
         FileCopies', FileShows', KillsLogged', Flushes(t)'
  PROVE  KeepInv'
<1>0. /\ KeepInv /\ TypeInv /\ loc[t].etid = 0 /\ mode = "up"
      /\ tid \in Nat /\ files.meta.tid \in Nat /\ files.meta.tid <= tid
      /\ pc[t] \in Working /\ \A d : ~Touches(t, d)
      /\ ~SomeAt(Emptying) /\ ~SomeAt({"t_mem"}) /\ ~SomeAt(Unsettled)
  BY FlushFacts
<1>1. /\ pc'[t] \notin Emptying /\ pc'[t] # "t_mem" /\ pc'[t] \notin Unsettled
      /\ pc'[t] \notin Begun /\ pc'[t] \notin Settling
  BY DEF FlushHeld, Emptying, Unsettled, Begun, Settling
<1>2. /\ ~SomeAt(Emptying)' /\ ~SomeAt({"t_mem"})' /\ ~SomeAt(Unsettled)'
      /\ \A d : \A u \in Thread : ~Touches(u, d)
  BY <1>0, <1>1, Where
<1>3. \A m \in DOMAIN log : m \in Nat
  BY KeepFacts
<1>4. LogSays'
  BY <1>0, <1>3, SinceSame DEF KeepInv, LogSays
<1>5. LogOK'
  BY <1>0 DEF KeepInv, LogOK, Alive
<1>6. MemShows'
  <2>1. Visible' = Visible
    BY SameData
  <2> QED BY <1>0, <1>2, <2>1, MemShowsFrame DEF KeepInv
<1>7. FileInv'
  BY DEF FileInv
<1>8. ChunksStored'
  BY <1>0, <1>2, ChunksFrame DEF KeepInv
<1>9. WorkOK(t)'
  <2>1. Replays(t)'
    BY <1>0 DEF Replays
  <2>2. pc'[t] \notin SavePoint /\ pc'[t] \notin Ahead /\ pc'[t] # "s_end"
    BY DEF FlushHeld, SavePoint, Ahead
  <2>3. Commits(t)'
    BY <1>1 DEF Commits, Begun, Settling
  <2>4. Saves(t)' /\ Empties(t)'
    BY <1>1, <2>2 DEF Saves, Empties, Emptying
  <2> QED BY <2>1, <2>3, <2>4 DEF WorkOK
<1> QED BY <1>0, <1>4, <1>5, <1>6, <1>7, <1>8, <1>9, StepKeeps

LEMMA FlushKillKeeps ==
  ASSUME Careful, DurInv, AliveInv', NEW t \in Thread, Step(t), FlushKillOpen(t) \/ FlushKillDone(t)
  PROVE  KeepInv'
<1> USE DEF At, Goto, memVars, segVars, killVars, chunkVars, tidVars, envVars
<1>1. /\ UNCHANGED <<mode, log, store, klist, chunks, tid, segs, loc>>
      /\ \/ /\ pc[t] = "f_kill" /\ pc' = [pc EXCEPT ![t] = "f_killed"]
            /\ files' = [files EXCEPT !.kill = {}]
         \/ /\ pc[t] = "f_killed" /\ pc' = [pc EXCEPT ![t] = "f_ram"]
            /\ files' = [files EXCEPT !.kill = klist, !.newRam = TRUE]
  BY DEF FlushKillOpen, FlushKillDone
<1>2. pc[t] \in FlushHeld /\ ~ShutdownEnd(t)
  BY <1>1 DEF FlushHeld, ShutdownEnd
<1>3. /\ pc \in [Thread -> Points] /\ DOMAIN files = FileFields /\ pc[t] \in Working
      /\ files.meta.n \in Nat /\ FileCopies /\ FileShows /\ KillsLogged /\ mode = "up"
      /\ files.meta.base = 0
  BY <1>2, FlushFacts
<1>4. /\ pc'[t] \in FlushHeld /\ \A u \in Thread \ {t} : pc'[u] = pc[u] /\ loc'[u] = loc[u]
      /\ pc[t] = "f_kill" => pc'[t] = "f_killed"
      /\ pc[t] = "f_killed" => pc'[t] = "f_ram"
      /\ pc'[t] \notin {"f_meta", "f_notify", "f_end"}
      /\ pc'[t] = "f_ram" => pc[t] = "f_killed"
      /\ pc[t] \in {"f_kill", "f_killed"}
  BY <1>1, <1>3 DEF FlushHeld
<1>5. /\ files'.meta = files.meta /\ files'.hasRam = files.hasRam /\ files'.ram = files.ram
      /\ files'.chunk = files.chunk
      /\ pc[t] = "f_killed" => files'.kill = klist
  BY <1>1, <1>3 DEF FileFields
<1>6. Kills' = klist /\ (pc[t] = "f_killed" => Kills = klist)
  <2>1. /\ SomeAt({"f_killed"}) <=> pc[t] = "f_killed"
        /\ SomeAt({"f_killed"})' <=> pc'[t] = "f_killed"
    BY <1>3, <1>4, Where
  <2> QED BY <1>1, <1>4, <1>5, <2>1 DEF Kills
<1>7. FilesSame /\ (Loaded' <=> Loaded)
  BY <1>5 DEF FilesSame, Loaded
<1>8. \A d : Since(files.meta.tid, d)' <=> Since(files.meta.tid, d)
  BY <1>1, <1>5 DEF Since
<1>9. KillsLogged'
  BY <1>1, <1>6 DEF KillsLogged
<1>10. FileCopies' /\ FileShows'
  <2>1. Loaded => Kills \subseteq klist /\ \A d \in klist \ Kills : Since(files.meta.tid, d)
    BY <1>3 DEF KillsLogged, Alive
  <2>2. \A d : (Hides(d) => Hides(d)') /\ (Hides(d)' => Hides(d) \/ Since(files.meta.tid, d)')
    BY <1>6, <1>7, <1>8, <2>1 DEF Hides
  <2> QED BY <1>1, <1>3, <1>7, <1>8, <2>2, FilesFrameRows
<1>11. Flushes(t)'
  BY <1>1, <1>4, <1>5 DEF Flushes
<1> QED BY <1>1, <1>2, <1>3, <1>4, <1>5, <1>9, <1>10, <1>11, FlushStep

LEMMA FlushRamKeeps ==
  ASSUME Careful, DurInv, AliveInv', NEW t \in Thread, Step(t), FlushRam(t) \/ FlushMeta(t)
  PROVE  KeepInv'
<1> USE DEF At, Goto, memVars, segVars, killVars, chunkVars, tidVars, envVars
<1>1. pc[t] \in {"f_ram", "f_meta"}
  BY DEF FlushRam, FlushMeta
<1>2. pc[t] \in FlushHeld /\ ~ShutdownEnd(t)
  BY <1>1 DEF FlushHeld, ShutdownEnd
<1>3. /\ pc \in [Thread -> Points] /\ DOMAIN files = FileFields /\ pc[t] \in Working
      /\ files.meta.n = Len(chunks) /\ Len(chunks) \in Nat
      /\ FileCopies /\ FileShows /\ KillsLogged /\ mode = "up"
      /\ files.meta.base = 0 /\ base = 0 /\ Flushes(t) /\ RamThere
      /\ \A i \in DOMAIN chunks : files.chunk[i - 1] = chunks[i]
      /\ \A d \in Doc : Visible[d] = store[d]
  BY <1>2, FlushFacts
<1>4. /\ UNCHANGED <<mode, log, store, klist, chunks, tid, segs, loc>>
      /\ \/ /\ pc[t] = "f_ram" /\ pc' = [pc EXCEPT ![t] = "f_meta"]
            /\ files' = [files EXCEPT !.hasRam = TRUE, !.ram = segs, !.newRam = FALSE]
         \/ /\ pc[t] = "f_meta" /\ pc' = [pc EXCEPT ![t] = "f_notify"]
            /\ files' = [files EXCEPT !.meta = Meta(Len(chunks), tid)]
  <2>1. CASE FlushRam(t)
    <3>1. files.newRam
      BY <1>3, <2>1 DEF FlushRam, RamThere, Careful
    <3> QED BY <2>1, <3>1 DEF FlushRam
  <2>2. CASE FlushMeta(t)
    BY <2>2 DEF FlushMeta
  <2> QED BY <2>1, <2>2
<1>5. /\ pc'[t] \in FlushHeld /\ \A u \in Thread \ {t} : pc'[u] = pc[u] /\ loc'[u] = loc[u]
      /\ pc'[t] \in {"f_meta", "f_notify"}
      /\ pc'[t] = "f_notify" => pc[t] = "f_meta"
  BY <1>3, <1>4 DEF FlushHeld
<1>6. /\ files'.chunk = files.chunk /\ files'.kill = klist /\ files'.ram = segs /\ files'.hasRam
      /\ files'.meta.n = Len(chunks) /\ files'.meta.base = 0
      /\ files'.meta.tid \in {files.meta.tid, tid}
      /\ pc[t] = "f_meta" => files'.meta.tid = tid /\ files'.meta.saved
      /\ pc[t] = "f_ram" => files'.meta = files.meta
  <2>1. files.kill = klist /\ (pc[t] = "f_meta" => files.ram = segs /\ files.hasRam)
    BY <1>1, <1>3 DEF Flushes
  <2>2. CASE pc[t] = "f_ram"
    BY <1>3, <1>4, <2>1, <2>2 DEF FileFields
  <2>3. CASE pc[t] = "f_meta"
    BY <1>3, <1>4, <2>1, <2>3 DEF FileFields, Meta, MetaFile
  <2> QED BY <1>1, <2>2, <2>3
<1>7. Kills' = klist'
  <2>1. SomeAt({"f_killed"})' <=> pc'[t] = "f_killed"
    BY <1>3, <1>5, Where
  <2> QED BY <1>4, <1>5, <1>6, <2>1 DEF Kills
<1>8. KillsLogged'
  BY <1>7 DEF KillsLogged
<1>9. FileCopies' /\ FileShows'
  <2>1. CASE files'.meta.saved
    <3>1. Fresh'
      BY <1>3, <1>4, <1>6, <1>7, <2>1 DEF Fresh, Loaded
    <3>2. TypeInv' /\ OneCopy'
      BY DEF AliveInv
    <3>3. \A d \in Doc : Visible'[d] = store'[d]
      <4>1. Visible' = Visible
        BY <1>4, SameData
      <4> QED BY <1>3, <1>4, <4>1
    <3> QED BY <3>1, <3>2, <3>3, FilesFresh
  <2>2. CASE ~files'.meta.saved
    <3>1. files'.meta = files.meta
      BY <1>1, <1>6, <2>2
    <3>2. ~Loaded /\ ~Loaded'
      BY <2>2, <3>1 DEF Loaded
    <3>3. FilesSame /\ \A d : ~Hides(d) /\ ~Hides(d)'
      BY <1>3, <1>6, <3>1, <3>2 DEF FilesSame, Hides, Loaded
    <3>4. \A d : Since(files.meta.tid, d)' <=> Since(files.meta.tid, d)
      BY <1>4, <3>1 DEF Since
    <3> QED BY <1>3, <1>4, <3>3, <3>4, FilesFrameRows
  <2> QED BY <2>1, <2>2
<1>10. Flushes(t)'
  BY <1>4, <1>5, <1>6 DEF Flushes
<1> QED BY <1>2, <1>3, <1>4, <1>5, <1>6, <1>8, <1>9, <1>10, FlushStep

-----------------------------------------------------------------------------
(* TRUNCATE. *)

LEMMA EmptyFiles ==
  ASSUME files'.meta.n = 0, ~files'.hasRam, store' = NoRows PROVE FileInv'
<1>1. \A d : FileRam(d)' = {} /\ FileDisk(d)' = {}
  BY DEF FileRam, FileDisk, Loaded
<1>2. \A d \in Doc : store'[d] = NoRow
  BY DEF NoRows
<1>3. FileCopies'
  BY <1>1 DEF FileCopies
<1>4. FileShows'
  BY <1>1, <1>2 DEF FileShows
<1>5. KillsLogged'
  BY DEF KillsLogged, Loaded
<1> QED BY <1>3, <1>4, <1>5 DEF FileInv

LEMMA TruncFacts ==
  ASSUME Careful, DurInv, NEW t \in Thread, Step(t), pc[t] \in {"t_meta"} \cup Emptying
  PROVE  /\ pc \in [Thread -> Points] /\ DOMAIN loc = Thread /\ DOMAIN files = FileFields
         /\ loc[t].etid = 0 /\ mode = "up" /\ tid \in Nat /\ files.meta.base = 0
         /\ pc[t] \in Working /\ Empties(t)
         /\ \A m \in DOMAIN log : m \in Nat /\ m <= tid
         /\ pc[t] \in Emptying => files.meta.n = 0
         /\ pc[t] # "t_mem" => \A i \in DOMAIN chunks : files.chunk[i - 1] = chunks[i]
         /\ ~ShutdownEnd(t)
<1>0. /\ KeepInv /\ TypeInv /\ StartInv /\ pc \in [Thread -> Points] /\ DOMAIN loc = Thread
      /\ DOMAIN files = FileFields /\ tid \in Nat /\ \A m \in DOMAIN log : m \in Nat
  BY KeepFacts
<1>1. pc[t] \in Working /\ ~ShutdownEnd(t)
  BY DEF Emptying, Working, WriterHeld, ShutdownEnd, At
<1>2. loc[t].op = "truncate"
  BY ThreadFacts DEF OpAt, Emptying
<1>3. loc[t].etid = 0 /\ Empties(t)
  BY <1>2, ThreadFacts DEF WorkOK, Replays
<1>4. mode = "up"
  BY <1>0, <1>2, <1>3, NumberZero DEF KeepInv, ReplayOne, Step
<1>5. files.meta.base = 0 /\ \A m \in DOMAIN log : m <= tid
  BY <1>0, <1>4 DEF KeepInv, LogOK
<1>6. pc[t] \in Emptying => files.meta.n = 0
  BY <1>0, <1>4, Zenon DEF StartInv, Chunked, MetaAgrees, SomeAt
<1>7. pc[t] # "t_mem" => \A i \in DOMAIN chunks : files.chunk[i - 1] = chunks[i]
  <2> HAVE pc[t] # "t_mem"
  <2>1. ~SomeAt({"t_mem"})
    <3>1. \A u \in Thread \ {t} : pc[u] \notin Working
      BY <1>1, WorksAlone
    <3> QED BY <3>1 DEF SomeAt, Working, WriterHeld
  <2> QED BY <1>0, <1>4, <2>1 DEF KeepInv, ChunksStored, Alive
<1> QED BY <1>0, <1>1, <1>3, <1>4, <1>5, <1>6, <1>7

LEMMA TruncStep ==
  ASSUME Careful, DurInv, NEW t \in Thread, Step(t), pc[t] \in {"t_meta"} \cup Emptying,
         pc'[t] \in Emptying \/ Visible' = NoRows,
         \A u \in Thread \ {t} : pc'[u] = pc[u],
         UNCHANGED <<mode, log, tid>>, store' = NoRows,
         files'.meta.tid = tid, files'.meta.base = 0, FileInv', ChunksStored', WorkOK(t)'
  PROVE  KeepInv'
<1>0. /\ KeepInv /\ pc[t] \in Working /\ ~ShutdownEnd(t) /\ tid \in Nat /\ mode = "up"
      /\ \A m \in DOMAIN log : m \in Nat /\ m <= tid
  BY TruncFacts, KeepFacts
<1>1. LogSays'
  BY <1>0 DEF LogSays
<1>2. LogOK'
  BY <1>0 DEF KeepInv, LogOK
<1>3. MemShows'
  <2>1. pc'[t] \in Emptying => SomeAt(Emptying)'
    BY DEF SomeAt
  <2> QED BY <2>1 DEF MemShows
<1> QED BY <1>0, <1>1, <1>2, <1>3, StepKeeps

LEMMA TruncKeeps ==
  ASSUME Careful, DurInv, AliveInv', NEW t \in Thread, Step(t),
         TruncMeta(t) \/ TruncRam(t) \/ TruncChunks(t) \/ TruncMem(t)
  PROVE  KeepInv'
<1> USE DEF At, Goto, Finish, memVars, segVars, killVars, chunkVars, tidVars, envVars
<1>1. /\ pc[t] \in {"t_meta", "t_ram", "t_chunks", "t_mem"}
      /\ pc[t] \in {"t_meta"} \cup Emptying
  BY DEF TruncMeta, TruncRam, TruncChunks, TruncMem, Emptying
<1>2. /\ pc \in [Thread -> Points] /\ DOMAIN loc = Thread /\ DOMAIN files = FileFields
      /\ loc[t].etid = 0 /\ mode = "up" /\ tid \in Nat /\ files.meta.base = 0
      /\ Empties(t)
      /\ pc[t] \in Emptying => files.meta.n = 0
      /\ pc[t] # "t_mem" => \A i \in DOMAIN chunks : files.chunk[i - 1] = chunks[i]
  BY <1>1, TruncFacts
<1>3. UNCHANGED <<mode, log, tid>>
  BY DEF TruncMeta, TruncRam, TruncChunks, TruncMem
<1>4. CASE TruncMeta(t)
  <2>1. /\ pc[t] = "t_meta" /\ pc' = [pc EXCEPT ![t] = "t_notify"] /\ loc' = loc
        /\ files' = [files EXCEPT !.meta = MetaFile(tid, 0, 0, 0)]
        /\ store' = NoRows /\ chunks' = chunks
    BY <1>4 DEF TruncMeta
  <2>2. /\ pc'[t] = "t_notify" /\ \A u \in Thread \ {t} : pc'[u] = pc[u]
        /\ files'.meta.tid = tid /\ files'.meta.base = 0 /\ files'.chunk = files.chunk
    BY <1>2, <2>1 DEF FileFields, MetaFile
  <2>3. SomeAt(Unsettled)' /\ mode' = "up"
    BY <1>2, <1>3, <2>2 DEF SomeAt, Unsettled
  <2>4. FileInv' /\ ChunksStored'
    BY <1>2, <2>1, <2>2, <2>3 DEF FileInv, ChunksStored, Alive
  <2>5. WorkOK(t)'
    BY <1>2, <1>3, <2>1, <2>2 DEF WorkOK, Replays, Commits, Begun, Settling, Saves, SavePoint,
       Ahead, Flushes, Empties, Emptying
  <2> QED BY <1>1, <1>3, <2>1, <2>2, <2>4, <2>5, TruncStep DEF Emptying
<1>5. CASE TruncRam(t)
  <2>1. /\ pc[t] = "t_ram" /\ pc' = [pc EXCEPT ![t] = "t_chunks"] /\ loc' = loc
        /\ files' = [files EXCEPT !.ram = NoSegs, !.hasRam = FALSE]
        /\ store' = store /\ chunks' = chunks
    BY <1>5 DEF TruncRam
  <2>2. /\ pc'[t] = "t_chunks" /\ \A u \in Thread \ {t} : pc'[u] = pc[u]
        /\ files'.meta = files.meta /\ files'.chunk = files.chunk /\ ~files'.hasRam
    BY <1>2, <2>1 DEF FileFields
  <2>3. store = NoRows /\ files.meta.tid = tid /\ files.meta.n = 0
    BY <1>2, <2>1 DEF Empties, Emptying
  <2>4. FileInv'
    BY <2>1, <2>2, <2>3, EmptyFiles
  <2>5. ChunksStored'
    <3>1. SomeAt(Emptying)'
      BY <2>2 DEF SomeAt, Emptying
    <3> QED BY <1>2, <2>1, <2>2, <3>1 DEF ChunksStored
  <2>6. WorkOK(t)'
    BY <1>2, <1>3, <2>1, <2>2, <2>3 DEF WorkOK, Replays, Commits, Begun, Settling, Saves,
       SavePoint, Ahead, Flushes, Empties, Emptying
  <2> QED BY <1>1, <1>2, <1>3, <2>1, <2>2, <2>3, <2>4, <2>5, <2>6, TruncStep DEF Emptying
<1>6. CASE TruncChunks(t)
  <2>1. /\ pc[t] = "t_chunks" /\ pc' = [pc EXCEPT ![t] = "t_mem"] /\ loc' = loc
        /\ \E c : files' = [files EXCEPT !.chunk = c]
        /\ store' = store
    BY <1>6 DEF TruncChunks
  <2>2. /\ pc'[t] = "t_mem" /\ \A u \in Thread \ {t} : pc'[u] = pc[u]
        /\ files'.meta = files.meta /\ files'.hasRam = files.hasRam
    BY <1>2, <2>1 DEF FileFields
  <2>3. store = NoRows /\ files.meta.tid = tid /\ files.meta.n = 0 /\ ~files.hasRam
    BY <1>2, <2>1 DEF Empties, Emptying
  <2>4. FileInv'
    BY <2>1, <2>2, <2>3, EmptyFiles
  <2>5. ChunksStored'
    <3>1. SomeAt(Emptying)' /\ SomeAt({"t_mem"})'
      BY <2>2 DEF SomeAt, Emptying
    <3> QED BY <3>1 DEF ChunksStored
  <2>6. WorkOK(t)'
    BY <1>2, <1>3, <2>1, <2>2, <2>3 DEF WorkOK, Replays, Commits, Begun, Settling, Saves,
       SavePoint, Ahead, Flushes, Empties, Emptying
  <2> QED BY <1>1, <1>2, <1>3, <2>1, <2>2, <2>3, <2>4, <2>5, <2>6, TruncStep DEF Emptying
<1>7. CASE TruncMem(t)
  <2>1. /\ pc[t] = "t_mem" /\ pc' = [pc EXCEPT ![t] = "idle"] /\ loc' = [loc EXCEPT ![t] = NoLoc]
        /\ chunks' = <<>> /\ files' = files /\ store' = store
    BY <1>7 DEF TruncMem
  <2>2. /\ pc'[t] = "idle" /\ loc'[t] = NoLoc /\ \A u \in Thread \ {t} : pc'[u] = pc[u]
    BY <1>2, <2>1
  <2>3. store = NoRows /\ files.meta.tid = tid /\ files.meta.n = 0 /\ ~files.hasRam
    BY <1>2, <2>1 DEF Empties, Emptying
  <2>4. FileInv'
    BY <2>1, <2>3, EmptyFiles
  <2>5. ChunksStored'
    BY <2>1, <2>3 DEF ChunksStored
  <2>6. WorkOK(t)'
    <3>1. pc'[t] \notin Begun \cup Settling \cup Emptying \cup (FlushHeld \ {"f_kill", "f_killed"})
      BY <2>2 DEF Begun, Settling, Emptying, FlushHeld
    <3>2. ~(loc'[t].etid > 0)
      BY <2>2 DEF NoLoc
    <3> QED BY <3>1, <3>2, NoWork
  <2>7. Visible' = NoRows
    BY <1>7, TruncMemShows
  <2> QED BY <1>1, <1>2, <1>3, <2>1, <2>2, <2>3, <2>4, <2>5, <2>6, <2>7, TruncStep
<1> QED BY <1>4, <1>5, <1>6, <1>7

-----------------------------------------------------------------------------
(* The index stops. *)

LEMMA IdleWork ==
  ASSUME NEW u \in Thread, pc'[u] = "idle", loc'[u].etid = 0 PROVE WorkOK(u)'
<1>1. pc'[u] \notin Begun \cup Settling \cup Emptying \cup (FlushHeld \ {"f_kill", "f_killed"})
  BY DEF Begun, Settling, Emptying, FlushHeld
<1> QED BY <1>1, NoWork

LEMMA StopKeepsFiles ==
  ASSUME Careful, DurInv, Stop, ~SomeAt(Unsettled), ~SomeAt({"f_killed"}) PROVE KeepInv'
<1>0. KeepInv /\ files.meta.n \in Nat
  BY KeepFacts
<1>1. /\ mode' = "down" /\ UNCHANGED <<files, log, store>> /\ dklist' = {}
      /\ \A u \in Thread : pc'[u] = "idle" /\ loc'[u].etid = 0
  BY DEF Stop, NoLoc
<1>2. FileCopies /\ FileShows
  BY <1>0 DEF KeepInv, FileInv
<1>3. LogSays'
  BY <1>0, <1>1, SinceSame DEF KeepInv, LogSays
<1>4. LogOK'
  BY <1>0, <1>1 DEF KeepInv, LogOK, Alive
<1>5. ReplayOne' /\ MemShows' /\ ChunksStored' /\ Cleared'
  BY <1>1 DEF ReplayOne, MemShows, ChunksStored, Cleared, Alive
<1>6. FileInv'
  <2>1. Kills' = Kills
    <3>1. ~SomeAt({"f_killed"})'
      BY <1>1 DEF SomeAt
    <3> QED BY <1>1, <3>1 DEF Kills
  <2>2. FilesSame /\ (Loaded' <=> Loaded) /\ \A d : Hides(d)' <=> Hides(d)
    BY <1>1, <2>1, FilesCalmSame DEF FilesCalm
  <2>3. \A d : Since(files.meta.tid, d)' <=> Since(files.meta.tid, d)
    BY <1>1 DEF Since
  <2>4. FileCopies' /\ FileShows'
    BY <1>0, <1>1, <1>2, <2>2, <2>3, FilesFrameRows
  <2> QED BY <1>1, <2>4 DEF FileInv, KillsLogged, Alive
<1>7. \A u \in Thread : WorkOK(u)'
  BY <1>1, IdleWork
<1> QED BY <1>3, <1>4, <1>5, <1>6, <1>7 DEF KeepInv

LEMMA CrashKeepsFiles == ASSUME Careful, DurInv, Crash PROVE KeepInv'
<1>1. Stop /\ \A u \in Thread : pc[u] \notin HalfWritten
  BY DEF Crash, Careful
<1>2. ~SomeAt(Unsettled) /\ ~SomeAt({"f_killed"})
  BY <1>1 DEF SomeAt, HalfWritten
<1> QED BY <1>1, <1>2, StopKeepsFiles

LEMMA ShutdownEndKeeps == ASSUME Careful, DurInv, NEW t \in Thread, ShutdownEnd(t) PROVE KeepInv'
<1>1. Stop /\ pc[t] = "f_end"
  BY DEF ShutdownEnd, At
<1>2. pc[t] \in Working
  BY <1>1 DEF Working, FlushHeld
<1>3. \A u \in Thread \ {t} : pc[u] \notin Working
  BY <1>2, WorksAlone
<1>4. ~SomeAt(Unsettled) /\ ~SomeAt({"f_killed"})
  BY <1>1, <1>3 DEF SomeAt, Unsettled, Working, WriterHeld, FlushHeld
<1> QED BY <1>1, <1>4, StopKeepsFiles

-----------------------------------------------------------------------------
(* It starts. *)

LEMMA RestartFacts ==
  ASSUME Careful, DurInv, Restart
  PROVE  /\ \A u \in Thread : pc'[u] = "idle" /\ loc'[u].etid = 0 /\ loc'[u].op = "none"
         /\ UNCHANGED <<files, log, store, pc, loc>> /\ dklist' = {} /\ nklist' = {} /\ dbuf' = dbuf
         /\ FileCopies /\ FileShows /\ mode = "down" /\ mode' \in {"replay", "dead"}
         /\ Kills = files.kill /\ Kills' = files.kill /\ files.meta.n \in Nat /\ files.meta.tid \in Nat
<1>0. KeepInv /\ TypeInv /\ OldKills /\ files.meta.n \in Nat /\ files.meta.tid \in Nat
  BY KeepFacts
<1>1. /\ mode = "down" /\ UNCHANGED <<files, log, store, pc, loc, dklist, nklist, dbuf>>
      /\ mode' \in {"replay", "dead"}
  BY DEF Restart
<1>2. dklist = {} /\ \A u \in Thread : pc[u] = "idle" /\ loc[u].etid = 0
  BY <1>0, <1>1 DEF KeepInv, Cleared, TypeInv, StoppedIdle
<1>3. \A u \in Thread : loc[u].op = "none"
  BY <1>2, ThreadFacts DEF OpAt
<1>4. FileCopies /\ FileShows
  BY <1>0, <1>1 DEF KeepInv, FileInv, Alive
<1>5. ~SomeAt({"f_killed"}) /\ ~SomeAt({"f_killed"})'
  BY <1>1, <1>2 DEF SomeAt
<1> QED BY <1>0, <1>1, <1>2, <1>3, <1>4, <1>5 DEF OldKills, Kills

\* What is brought online is what the files show.
LEMMA RestartData ==
  ASSUME Careful, DurInv, Restart, mode' = "replay"
  PROVE  /\ tid' = files.meta.tid /\ base' = 0
         /\ \A d : RamRows(d)' = FileRam(d)
         /\ \A d : \A g \in FileRam(d) : segs'[g].row = files.ram[g].row
         /\ DOMAIN chunks' = 1..files.meta.n /\ Len(chunks') = files.meta.n
         /\ \A i \in DOMAIN chunks' : chunks'[i] = files.chunk[i - 1]
         /\ \A d : \A i \in DOMAIN chunks' : LiveInChunk(i, d)' <=> LiveInFile(i, d)
         /\ \A d : d \in klist' <=> Hides(d)
         /\ Loaded => klist' = files.kill
<1>0. /\ TypeInv /\ files.meta.base = 0 /\ files.meta.n \in Nat /\ files' = files
      /\ Kills = files.kill
  BY KeepFacts, RestartFacts
<1>1. /\ chunks' = [i \in 1..files.meta.n |-> files.chunk[files.meta.base + i - 1]]
      /\ base' = files.meta.base /\ tid' = files.meta.tid
      /\ IF files.meta.saved /\ files.hasRam
         THEN /\ segs' = [g \in DOMAIN files.ram |-> [files.ram[g] EXCEPT !.tls = FALSE]]
              /\ klist' = files.kill
         ELSE segs' = NoSegs /\ klist' = {}
  BY DEF Restart
<1>2. DOMAIN chunks' = 1..files.meta.n /\ Len(chunks') = files.meta.n
  <2>1. chunks' \in Seq(Chunk)
    BY <1>0, RecoveryMem DEF Recovery, MemOK
  <2>2. DOMAIN chunks' = 1..Len(chunks') /\ Len(chunks') \in Nat
    BY <2>1, LenProperties
  <2>3. DOMAIN chunks' = 1..files.meta.n
    BY <1>1
  <2> QED BY <1>0, <2>2, <2>3
<1>3. \A i \in DOMAIN chunks' : chunks'[i] = files.chunk[i - 1]
  BY <1>0, <1>1, <1>2
<1>4. ASSUME NEW d, NEW i \in DOMAIN chunks' PROVE LiveInChunk(i, d)' <=> LiveInFile(i, d)
  <2>1. \A j \in (i + 1)..files.meta.n : chunks'[j] = files.chunk[j - 1]
    BY <1>0, <1>2, <1>3
  <2> QED BY <1>2, <1>3, <2>1 DEF LiveInChunk, LiveInFile, HasRow
<1>5. \A d : d \in klist' <=> Hides(d)
  BY <1>0, <1>1 DEF Hides, Loaded
<1>6. ASSUME NEW d PROVE /\ RamRows(d)' = FileRam(d)
                         /\ \A g \in FileRam(d) : segs'[g].row = files.ram[g].row
  <2>1. CASE Loaded
    <3>1. DOMAIN segs' = DOMAIN files.ram
      BY <1>1, <2>1 DEF Loaded
    <3>2. \A g \in DOMAIN files.ram : files.ram[g] \in Segment
      BY <1>0 DEF TypeInv, FilesOK, SegmentMap
    <3>3. \A g \in DOMAIN files.ram : /\ segs'[g].row = files.ram[g].row
                                     /\ segs'[g].klist = files.ram[g].klist
      BY <1>1, <2>1, <3>2 DEF Loaded, Segment
    <3> QED BY <2>1, <3>1, <3>3 DEF RamRows, FileRam, AliveRow, HasRow
  <2>2. CASE ~Loaded
    BY <1>1, <2>2 DEF Loaded, RamRows, FileRam, NoSegs
  <2> QED BY <2>1, <2>2
<1> QED BY <1>0, <1>1, <1>2, <1>3, <1>4, <1>5, <1>6 DEF Loaded

LEMMA RestartAlive == ASSUME Careful, DurInv, Restart, mode' = "replay" PROVE AliveInv' /\ ValueInv'
<1>0. AliveInv /\ TypeInv' /\ files.meta.n \in Nat /\ FileCopies
  <2>1. TypeInv /\ Next
    BY KeepFacts DEF Next, Recovery
  <2> QED BY <2>1, TypeInvKept, KeepFacts, RestartFacts
<1>1. OneCopy'
  <2> SUFFICES ASSUME NEW d \in Doc
               PROVE  /\ \A g, h \in RamRows(d)' : g = h
                      /\ \A i, j \in DOMAIN chunks' : LiveInChunk(i, d)' /\ LiveInChunk(j, d)' => i = j
                      /\ \A i \in DOMAIN chunks' :
                            LiveInChunk(i, d)' /\ RamRows(d)' # {} => d \in klist'
    BY DEF OneCopy
  <2>1. \A i \in DOMAIN chunks' : LiveInChunk(i, d)' => i \in FileDisk(d)
    BY RestartData DEF FileDisk
  <2>2. /\ \A g, h \in FileRam(d) : g = h
        /\ \A i, j \in FileDisk(d) : i = j
        /\ FileRam(d) # {} /\ FileDisk(d) # {} => Hides(d)
    BY <1>0 DEF FileCopies
  <2>3. RamRows(d)' = FileRam(d) /\ (d \in klist' <=> Hides(d))
    BY RestartData
  <2> QED BY <2>1, <2>2, <2>3
<1>2. OldKills'
  BY RestartFacts DEF OldKills
<1>3. ~OneRun
  BY <1>0, NoStop DEF Recovery
<1>4. \A u \in Thread : pc'[u] \notin Relying /\ pc'[u] \notin Valued
  BY RestartFacts DEF Relying, CommitPending, Saving, Merging, UpdatePending, Valued, Keeping
<1>5. \A u \in Thread : ThreadOK(u)' /\ ThreadValues(u)'
  BY <1>4, NothingRelied, NothingValued
<1> QED BY <1>0, <1>1, <1>2, <1>3, <1>5 DEF AliveInv, ValueInv, Running, Counted

\* A query would find the transactions that the log has no more.
LEMMA RestartShows == ASSUME Careful, DurInv, Restart, mode' = "replay" PROVE MemShows'
<1>0. FileShows /\ UNCHANGED <<files, log, store>> /\ tid' = files.meta.tid /\ OneCopy'
  BY RestartFacts, RestartData, RestartAlive DEF AliveInv
<1> SUFFICES ASSUME NEW d \in Doc, ~Since(tid, d)' PROVE Visible'[d] = store'[d]
  BY DEF MemShows
<1>1. ~Since(files.meta.tid, d)
  BY <1>0 DEF Since
<1>2. /\ \A g \in FileRam(d) : files.ram[g].row[d] = store[d]
      /\ \A i \in FileDisk(d) : ~Hides(d) => files.chunk[i - 1].row[d] = store[d]
      /\ store[d] # NoRow => FileRam(d) # {} \/ (FileDisk(d) # {} /\ ~Hides(d))
  BY <1>0, <1>1 DEF FileShows
<1>3. /\ RamRows(d)' = FileRam(d)
      /\ \A g \in FileRam(d) : segs'[g].row = files.ram[g].row
  BY RestartData
<1>4. DiskRows(d)' = {i \in FileDisk(d) : ~Hides(d)}
  BY RestartData DEF DiskRows, FileDisk
<1>5. \A i \in DiskRows(d)' : chunks'[i] = files.chunk[i - 1]
  BY RestartData DEF DiskRows
<1> QED BY <1>0, <1>2, <1>3, <1>4, <1>5, VisibleIsNext

LEMMA RestartKeeps == ASSUME Careful, DurInv, Restart PROVE KeepInv'
<1>0. KeepInv
  BY KeepFacts
<1>1. /\ \A u \in Thread : pc'[u] = "idle" /\ loc'[u].etid = 0 /\ loc'[u].op = "none"
      /\ UNCHANGED <<files, log, store>> /\ mode' \in {"replay", "dead"}
      /\ FileCopies /\ FileShows /\ Kills = files.kill /\ Kills' = files.kill
      /\ files.meta.n \in Nat /\ files.meta.tid \in Nat
  BY RestartFacts
<1>2. LogSays'
  BY <1>0, <1>1, SinceSame DEF KeepInv, LogSays
<1>3. LogOK'
  <2>1. mode' = "replay" => tid' = files.meta.tid
    BY RestartData
  <2> QED BY <1>0, <1>1, <2>1 DEF KeepInv, LogOK, Alive
<1>4. ReplayOne' /\ Cleared'
  BY <1>1 DEF ReplayOne, Cleared
<1>5. MemShows'
  BY <1>1, RestartShows DEF MemShows, Alive
<1>6. FileInv'
  <2>1. FilesSame /\ (Loaded' <=> Loaded) /\ \A d : Hides(d)' <=> Hides(d)
    BY <1>1, FilesCalmSame DEF FilesCalm
  <2>2. \A d : Since(files.meta.tid, d)' <=> Since(files.meta.tid, d)
    BY <1>1 DEF Since
  <2>3. FileCopies' /\ FileShows'
    BY <1>1, <2>1, <2>2, FilesFrameRows
  <2>4. KillsLogged'
    <3> SUFFICES ASSUME mode' = "replay", Loaded PROVE klist' = Kills'
      BY <1>1, <2>1 DEF KillsLogged, Alive
    <3> QED BY <1>1, RestartData
  <2> QED BY <2>3, <2>4 DEF FileInv
<1>7. ChunksStored'
  <2> SUFFICES ASSUME mode' = "replay" PROVE ChunksStored'
    BY <1>1 DEF ChunksStored, Alive
  <2> QED BY <1>1, RestartData DEF ChunksStored
<1>8. \A u \in Thread : WorkOK(u)'
  BY <1>1, IdleWork
<1> QED BY <1>2, <1>3, <1>4, <1>5, <1>6, <1>7, <1>8 DEF KeepInv

-----------------------------------------------------------------------------
(* The binlog is replayed. *)

LEMMA ReplayCommitKeeps ==
  ASSUME Careful, DurInv, ReplayCommit PROVE AliveInv' /\ ValueInv' /\ KeepInv'
<1> USE DEF At, Goto, memVars, segVars, killVars, chunkVars, tidVars, envVars, lockVars
<1>0. /\ KeepInv /\ TypeInv /\ AliveInv /\ ValueInv /\ pc \in [Thread -> Points]
      /\ DOMAIN loc = Thread /\ tid \in Nat /\ files.meta.tid \in Nat
      /\ \A m \in DOMAIN log : m \in Nat
  BY KeepFacts
<1>1. PICK n \in DOMAIN log :
        /\ NextEntry(n) /\ ~log[n].upd
        /\ loc' = [loc EXCEPT ![Replayer] =
                     [NoLoc EXCEPT !.op = "commit", !.adds = log[n].adds,
                                   !.kill = log[n].kill, !.etid = n]]
  BY DEF ReplayCommit
<1>2. /\ mode = "replay" /\ pc[Replayer] = "idle" /\ pc' = [pc EXCEPT ![Replayer] = "c_writer"]
      /\ UNCHANGED <<mode, segs, dbuf, klist, dklist, nklist, chunks, base, tid, total, files,
                     log, store>>
  BY DEF ReplayCommit, ReplayIdle
<1>3. Replayer \in Thread
  BY ThreadAssumption DEF Replayer
<1>4. /\ loc'[Replayer].op = "commit" /\ loc'[Replayer].etid = n
      /\ loc'[Replayer].adds = log[n].adds /\ loc'[Replayer].kill = log[n].kill
      /\ pc'[Replayer] = "c_writer"
      /\ \A u \in Thread \ {Replayer} : pc'[u] = pc[u] /\ loc'[u] = loc[u]
  BY <1>0, <1>1, <1>2, <1>3 DEF NoLoc
<1>5. AliveInv'
  <2>1. TypeInv'
    <3>1. Next
      BY DEF Next, Recovery
    <3> QED BY <1>0, <3>1, TypeInvKept
  <2>2. Running'
    BY <1>0, NoStop DEF Recovery, Running
  <2>3. DataSame /\ total' = total
    BY <1>2 DEF DataSame
  <2>4. ThreadOK(Replayer)'
    <3>1. \A d \in Doc : log[n].adds[d] # NoRow => d \in log[n].kill
      BY <1>0 DEF KeepInv, LogOK
    <3> QED BY <1>4, <3>1 DEF ThreadOK, CommitOK, SaveOK, MergeOK, UpdateOK, Keeping, Saving,
         Merging, UpdatePending
  <2>5. pc'[Replayer] \in Emptying <=> pc[Replayer] \in Emptying
    BY <1>2, <1>4 DEF Emptying
  <2> QED BY <1>0, <1>3, <1>4, <2>1, <2>2, <2>3, <2>4, <2>5, QuietStep
<1>6. ValueInv'
  <2>1. pc'[Replayer] \notin Valued
    BY <1>4 DEF Valued, Keeping, Saving, Merging
  <2> QED BY <1>0, <1>2, <1>3, <1>4, <2>1, NothingValued, OthersSame
<1>7. KeepInv'
  <2>1. Replays(Replayer)'
    <3>1. NextEntry(n)' /\ n \in Nat /\ n > tid
      BY <1>0, <1>1, <1>2 DEF NextEntry
    <3>2. files.meta.tid <= tid
      BY <1>0, <1>2 DEF KeepInv, LogOK, Alive
    <3>3. n > files.meta.tid
      BY <1>0, <3>1, <3>2
    <3>4. Entry(Replayer, n)'
      BY <1>2, <1>4, <3>3 DEF Entry
    <3>5. mode' = "replay"
      BY <1>2
    <3> QED BY <1>4, <3>1, <3>4, <3>5 DEF Replays
  <2>2. FilesCalm
    <3>1. SomeAt({"f_killed"})' <=> SomeAt({"f_killed"})
      BY <1>2, <1>3, <1>4 DEF SomeAt
    <3> QED BY <1>2, <3>1 DEF FilesCalm, Kills
  <2>3. pc[Replayer] \in Outside /\ pc'[Replayer] \in Outside
    BY <1>2, <1>4 DEF Outside
  <2>4. loc'[Replayer].etid > 0
    BY <1>0, <1>1, <1>4 DEF NextEntry
  <2> QED BY <1>2, <1>3, <1>4, <2>1, <2>2, <2>3, <2>4, OutsideStep
<1> QED BY <1>5, <1>6, <1>7

LEMMA ReplayDoneKeeps == ASSUME Careful, DurInv, ReplayDone PROVE KeepInv'
<1>0. KeepInv /\ Alive
  BY KeepFacts DEF ReplayDone, ReplayIdle, Alive
<1>1. /\ mode = "replay" /\ mode' = "up" /\ pc[Replayer] = "idle" /\ \A m \in DOMAIN log : m <= tid
      /\ UNCHANGED <<segs, klist, chunks, tid, files, log, pc, loc, store>>
  BY DEF ReplayDone, ReplayIdle, At, memVars, segVars, killVars, chunkVars, tidVars
<1>2. \A n, d : Since(n, d)' <=> Since(n, d)
  BY <1>1, SinceSame
<1>3. \A S : SomeAt(S)' <=> SomeAt(S)
  BY <1>1 DEF SomeAt
<1>4. Replayer \in Thread
  BY ThreadAssumption DEF Replayer
<1>5. LogSays' /\ LogOK' /\ ReplayOne' /\ Cleared'
  BY <1>0, <1>1, <1>2 DEF KeepInv, LogSays, LogOK, ReplayOne, Cleared, Alive
<1>6. MemShows'
  <2>1. Visible' = Visible
    BY <1>1, SameData
  <2>2. \A u, d : Touches(u, d)' <=> Touches(u, d)
    BY <1>1 DEF Touches
  <2> QED BY <1>0, <1>1, <1>2, <1>3, <2>1, <2>2 DEF KeepInv, MemShows
<1>7. FileInv'
  <2>1. Kills' = Kills
    BY <1>1, <1>3 DEF Kills
  <2>2. FilesSame /\ (Loaded' <=> Loaded) /\ \A d : Hides(d)' <=> Hides(d)
    BY <1>1, <2>1, FilesCalmSame DEF FilesCalm
  <2>3. \A d : Since(files.meta.tid, d)' <=> Since(files.meta.tid, d)
    BY <1>1 DEF Since
  <2> SUFFICES ASSUME ~SomeAt(Unsettled) PROVE FileCopies' /\ FileShows' /\ KillsLogged'
    BY <1>1, <1>3 DEF FileInv, Alive
  <2>4. FileCopies /\ FileShows /\ KillsLogged
    BY <1>0 DEF KeepInv, FileInv
  <2>5. FileCopies' /\ FileShows'
    BY <1>1, <2>2, <2>3, <2>4, KeepFacts, FilesFrameRows
  <2> QED BY <1>0, <1>1, <2>1, <2>2, <2>3, <2>4, <2>5 DEF KillsLogged
<1>8. ChunksStored'
  BY <1>0, <1>1, <1>3 DEF KeepInv, ChunksStored
<1>9. ASSUME NEW u \in Thread PROVE WorkOK(u)'
  <2>1. ~(loc[u].etid > 0)
    <3> SUFFICES ASSUME loc[u].etid > 0 PROVE FALSE
      OBVIOUS
    <3>1. loc[u].op = "commit"
      BY <1>0 DEF KeepInv, WorkOK, Replays
    <3>2. u = Replayer
      BY <1>0, <1>1, <3>1 DEF KeepInv, ReplayOne
    <3> QED BY <1>1, <3>1, <3>2, ThreadFacts DEF OpAt
  <2>2. Replays(u)'
    BY <1>1, <2>1 DEF Replays
  <2>3. Visible' = Visible
    BY <1>1, SameData
  <2>4. Entry(u, tid)' <=> Entry(u, tid)
    BY <1>1 DEF Entry
  <2>5. Commits(u)'
    BY <1>0, <1>1, <2>1, <2>4 DEF KeepInv, WorkOK, Commits
  <2> QED BY <1>0, <1>1, <2>2, <2>5 DEF KeepInv, WorkOK, Saves, Flushes, Empties
<1> QED BY <1>5, <1>6, <1>7, <1>8, <1>9 DEF KeepInv

LEMMA NothingKeeps == ASSUME Careful, DurInv, UNCHANGED vars PROVE KeepInv'
<1>0. KeepInv
  BY KeepFacts
<1>1. /\ UNCHANGED <<segs, klist, dklist, chunks, tid, files, log, mode, pc, loc, store>>
  BY DEF vars, memVars, segVars, killVars, chunkVars, tidVars, envVars
<1>2. \A n, d : Since(n, d)' <=> Since(n, d)
  BY <1>1, SinceSame
<1>3. \A S : SomeAt(S)' <=> SomeAt(S)
  BY <1>1 DEF SomeAt
<1>4. Visible' = Visible
  BY <1>1, SameData
<1>5. LogSays' /\ LogOK' /\ ReplayOne' /\ Cleared'
  BY <1>0, <1>1, <1>2 DEF KeepInv, LogSays, LogOK, ReplayOne, Cleared, Alive
<1>6. MemShows'
  BY <1>0, <1>1, <1>2, <1>3, <1>4 DEF KeepInv, MemShows, Alive, Touches
<1>7. FileInv'
  <2>1. FilesCalm
    BY <1>1, <1>3 DEF FilesCalm, Kills
  <2> QED BY <1>0, <1>1, <1>3, <2>1, KeepFacts, FileInvFrame DEF KeepInv
<1>8. ChunksStored'
  BY <1>0, <1>1, <1>3 DEF KeepInv, ChunksStored, Alive
<1>9. ASSUME NEW u \in Thread PROVE WorkOK(u)'
  <2>1. \A n : /\ Entry(u, n)' <=> Entry(u, n)
               /\ NextEntry(n)' <=> NextEntry(n)
    BY <1>1 DEF Entry, NextEntry
  <2>2. Replays(u)'
    BY <1>0, <1>1, <2>1 DEF KeepInv, WorkOK, Replays
  <2>3. Commits(u)'
    BY <1>0, <1>1, <1>2, <1>4, <2>1 DEF KeepInv, WorkOK, Commits
  <2> QED BY <1>0, <1>1, <2>2, <2>3 DEF KeepInv, WorkOK, Saves, Flushes, Empties
<1> QED BY <1>5, <1>6, <1>7, <1>8, <1>9 DEF KeepInv

-----------------------------------------------------------------------------
(* What is acknowledged survives. *)

LEMMA InitKeeps == Init => DurInv
<1> SUFFICES ASSUME Init PROVE KeepInv
  BY InitStart, InitAlive, InitValues DEF DurInv
<1>1. /\ log = NoLog /\ files = NoFiles /\ store = NoRows /\ segs = NoSegs /\ chunks = <<>>
      /\ tid = 0 /\ mode = "up" /\ dklist = {} /\ klist = {}
      /\ \A u \in Thread : pc[u] = "idle" /\ loc[u].etid = 0
  BY DEF Init, NoLoc
<1>2. DOMAIN log = {} /\ \A d \in Doc : store[d] = NoRow
  BY <1>1 DEF NoLog, NoRows
<1>3. /\ files.meta.n = 0 /\ files.meta.tid = 0 /\ files.meta.base = 0 /\ ~files.hasRam
      /\ DOMAIN chunks = {} /\ Len(chunks) = 0
  BY <1>1 DEF NoFiles
<1>4. LogSays /\ LogOK /\ ReplayOne /\ Cleared
  BY <1>1, <1>2, <1>3 DEF LogSays, LogOK, ReplayOne, Cleared, Alive
<1>5. MemShows
  <2>1. ASSUME NEW d \in Doc PROVE Visible[d] = NoRow
    BY <1>1, <1>3, Zenon DEF Visible, RamRows, DiskRows, NoSegs
  <2> QED BY <1>2, <2>1 DEF MemShows
<1>6. FileInv
  <2>1. \A d : FileRam(d) = {} /\ FileDisk(d) = {}
    BY <1>3 DEF FileRam, FileDisk, Loaded
  <2> QED BY <1>2, <1>3, <2>1 DEF FileInv, FileCopies, FileShows, KillsLogged, Loaded
<1>7. ChunksStored
  BY <1>3 DEF ChunksStored
<1>8. \A u \in Thread : WorkOK(u)
  BY <1>1 DEF WorkOK, Replays, Commits, Begun, Settling, Saves, SavePoint, Ahead, Flushes,
     Empties, Emptying
<1> QED BY <1>4, <1>5, <1>6, <1>7, <1>8 DEF KeepInv

LEMMA StepsKeep ==
  ASSUME Careful, DurInv, AliveInv', NEW t \in Thread, Step(t) PROVE KeepInv'
<1>1. CASE Commit(t)
  <2>1. CASE CommitBinlog(t)
    <3>1. loc[t].etid = 0 \/ loc[t].etid > 0
      BY ThreadFacts
    <3> QED BY <2>1, <3>1, CommitBinlogKeeps, CalmKeeps DEF Calm
  <2> QED BY <1>1, <2>1, LocksKeep, CalmKeeps, CommitLiveKeepsFiles DEF Commit, Calm
<1>2. CASE SaveDiskChunk(t) \/ ForceDiskChunk(t)
  BY <1>2, LocksKeep, CalmKeeps, SaveWriteKeepsFiles, SaveMetaKeeps, SaveSwapKeepsFiles,
     SaveEndKeeps DEF SaveDiskChunk, ForceDiskChunk, Calm
<1>3. CASE ForceRamFlush(t)
  <2>1. ~ShutdownFails(t)
    BY DEF Careful, ShutdownFails
  <2> QED BY <1>3, <2>1, LocksKeep, CalmKeeps, FlushKillKeeps, FlushRamKeeps, NotifyKeeps
      DEF ForceRamFlush, Calm
<1>4. CASE Truncate(t)
  BY <1>4, LocksKeep, CalmKeeps, NotifyKeeps, TruncKeeps DEF Truncate, Calm
<1>5. ~UpdateAttributes(t) /\ ~Optimize(t)
  BY ThreadFacts
<1> QED BY <1>1, <1>2, <1>3, <1>4, <1>5, LocksKeep, ShutdownEndKeeps DEF Step

LEMMA DeadKeeps == ASSUME DurInv, Restart, mode' # "replay" PROVE AliveInv' /\ ValueInv'
<1>0. AliveInv /\ ValueInv /\ TypeInv
  BY DEF DurInv, AliveInv
<1>1. UNCHANGED <<segs, dbuf, klist, dklist, nklist, chunks, total, pc, loc>>
  BY DEF Restart
<1>2. PICK t \in Thread : TRUE
  BY ThreadAssumption
<1>3. DataSame
  BY <1>1 DEF DataSame
<1>4. SameShape
  BY <1>3, ShapeSame
<1>5. ThreadOK(t)'
  BY <1>0, <1>1, <1>4, ShapeThread DEF AliveInv
<1>6. TypeInv' /\ Running'
  <2>1. Next
    BY DEF Next, Recovery
  <2> QED BY <1>0, <2>1, TypeInvKept, NoStop DEF Recovery, Running
<1>7. ThreadValues(t)'
  <2>1. Onward(t)
    BY <1>1 DEF Onward
  <2> QED BY <1>0, <1>1, <2>1, ValuesMove DEF ValueInv
<1> QED BY <1>0, <1>1, <1>3, <1>5, <1>6, <1>7, QuietStep, OthersSame

LEMMA DurKept == ASSUME Careful, DurInv, [Next]_vars PROVE DurInv'
<1>1. StartInv' /\ AliveInv /\ ValueInv /\ NobodyUpdates
  BY KeepFacts, StartKept
<1>2. ~ReplayUpdateAttributes
  BY KeepFacts DEF ReplayUpdateAttributes, KeepInv, LogOK
<1>3. CASE ReplayCommit
  BY <1>1, <1>3, ReplayCommitKeeps DEF DurInv
<1>4. CASE Restart
  <2>1. AliveInv' /\ ValueInv'
    BY <1>4, RestartAlive, DeadKeeps
  <2> QED BY <1>1, <1>4, <2>1, RestartKeeps DEF DurInv
<1>5. CASE ~ReplayCommit /\ ~Restart
  <2>1. AliveInv' /\ ValueInv'
    BY <1>1, <1>2, <1>5, AliveGoesOn, ValuesGoOn
  <2>2. KeepInv'
    BY <1>2, <1>5, <2>1, BeginKeepsFiles, StepsKeep, CrashKeepsFiles, ReplayDoneKeeps, NothingKeeps
       DEF Next, Recovery
  <2> QED BY <1>1, <2>1, <2>2 DEF DurInv
<1> QED BY <1>3, <1>4, <1>5

LEMMA DurInvShows == ASSUME Careful, DurInv PROVE Durable
<1> SUFFICES ASSUME mode = "up",
                    \A t \in Thread : loc[t].op \notin {"commit", "update", "truncate"}
             PROVE  Visible = store
  BY DEF Durable
<1>0. KeepInv /\ MemOK /\ tid \in Nat /\ \A m \in DOMAIN log : m \in Nat /\ m <= tid
  BY KeepFacts DEF KeepInv, LogOK
<1>1. ASSUME NEW u \in Thread PROVE pc[u] \notin Emptying /\ pc[u] \notin Begun
  BY ThreadFacts DEF OpAt, Emptying, Begun, CommitPending
<1>2. ~SomeAt(Emptying) /\ \A d : \A u \in Thread : ~Touches(u, d)
  BY <1>1 DEF SomeAt, Touches
<1>3. \A d : ~Since(tid, d)
  BY <1>0 DEF Since
<1>4. \A d \in Doc : Visible[d] = store[d]
  BY <1>0, <1>2, <1>3 DEF KeepInv, MemShows, Alive
<1>5. store \in [Doc -> Val \cup {NoRow}]
  BY <1>0 DEF MemOK, Rows
<1> QED BY <1>4, <1>5 DEF Visible

\* When no transaction is under way, the index holds what its transactions made of it, after
\* any commits, dumps, flushes, truncates, stops and crashes: what SaveDiskChunk, ForceRamFlush
\* and Truncate leave in the files and the binlog has is what Prealloc and CommitReplayable need.
THEOREM AcknowledgedSurvive == ASSUME Careful PROVE Spec => []Durable
<1>1. DurInv => Durable
  BY DurInvShows
<1>2. DurInv /\ [Next]_vars => DurInv'
  BY DurKept
<1> QED BY <1>1, <1>2, InitKeeps, PTL DEF Spec
=============================================================================
