----------------------------- MODULE ServedIndex ----------------------------
(***************************************************************************)
(* The indexes searchd serves: IndexHash_c and ServedIndex_t of            *)
(* src/src/searchd.cpp with workers = threads and seamless_rotate = 1.     *)
(*                                                                         *)
(* One rwlock guards the hash, one each entry, and an entry lock is kept   *)
(* after the hash lock is gone.  The main loop takes SIGHUPs, reads the    *)
(* config again, deletes entries and queues the indexes that have .new     *)
(* files; the rotation thread loads .new, renames the files and swaps the  *)
(* index; sessions search several indexes, update one, or attach one to    *)
(* an RT index.  indexer, the administrator and crashes are outside.       *)
(*                                                                         *)
(* An index of this module is a version number; its files are the versions *)
(* that the files of each slot (cur, old, new) belong to, 0 for no file.   *)
(* The version of an RT index is that of the chunk attached to it last.    *)
(***************************************************************************)
EXTENDS Integers, Sequences, FiniteSets

CONSTANTS
  Index,          \* names of local indexes
  RtIndex,        \* the RT ones: never rotated, targets of ATTACH
  Start,          \* the indexes configured and served at the start
  Removable,      \* indexes the administrator takes out of the config or puts in
  Session,        \* SphinxQL threads
  Main,           \* the thread of the main loop (TickHead)
  Rotator,        \* the thread of RotationThreadFunc
  NoThread,       \* owner of a free lock
  NoIndex,        \* no name
  Searches,       \* the sets of indexes that searches name
  Updates,        \* the indexes that are updated under an exclusive lock
  Attaches,       \* the argument pairs of ATTACH INDEX .. TO RTINDEX ..
  NExt,           \* number of files of an index; file 1 is the .sph header
  Faults,         \* steps of a rotation that may fail
  IndexerWindow,  \* may indexer replace .new files that searchd has loaded?
  CrashAt,        \* program points of the rotation thread at which searchd may crash
  MaxBuilds,      \* bound: versions of an index
  MaxEdits,       \* bound: edits of the config
  MaxCrashes      \* bound: crashes

Thread == Session \cup {Main, Rotator}

ASSUME IndexAssumption == NoIndex \notin Index /\ RtIndex \subseteq Index
ASSUME ThreadAssumption ==
  /\ NoThread \notin Thread
  /\ Main # Rotator
  /\ Session \cap {Main, Rotator} = {}
ASSUME ArgsAssumption ==
  /\ Searches \subseteq SUBSET Index
  /\ Updates \subseteq Index
  /\ Attaches \subseteq Index \X Index
  /\ Start \subseteq Index /\ Removable \subseteq Index
ASSUME BoundAssumption ==
  /\ NExt \in Nat \ {0} /\ MaxBuilds \in Nat \ {0}
  /\ MaxEdits \in Nat /\ MaxCrashes \in Nat

VARIABLES
  served,     \* keys of g_pLocalIndexes
  ent,        \* entries: version in memory (0: no data), m_bEnabled, m_bToDelete, m_bOnlyNew,
              \* and whether the index goes by its .old name (m_sFilename)
  hr, hw,     \* read owners and write owner of the hash lock
  rd, wr,     \* read owners and write owner of each entry lock
  files,      \* files of each index, by slot
  conf,       \* plain and RT indexes in the config file
  changed,    \* has the config file changed since it was read?
  hup,        \* g_bGotSighup
  count,      \* g_iRotateCount
  queue,      \* g_dRotateQueue
  prereading, \* g_sPrereading
  dodelete,   \* g_bDoDelete
  pc,         \* where each thread is
  ask,        \* the name a thread looks up or waits for
  todo,       \* the names a thread has yet to handle
  keep,       \* the indexes a search found enabled (m_dLocal after the check)
  got,        \* the versions that the search of a session uses
  args,       \* arguments of a session's ATTACH
  found,      \* has this scan found a .new file? (iRotIndexes)
  loaded,     \* the version the rotation thread has loaded
  ext,        \* the file the rotation thread renames next
  built,      \* versions of each index that were built
  edits,      \* edits of the config so far
  crashes     \* crashes so far

lockVars   == <<served, hr, hw, rd, wr>>
envVars    == <<conf, changed, hup>>
rotateVars == <<count, queue>>
mainVars   == <<dodelete, found>>
sessVars   == <<keep, got, args>>
rotVars    == <<prereading, loaded, ext>>
bounds     == <<built, edits, crashes>>
vars == <<lockVars, ent, files, envVars, rotateVars, mainVars, pc, ask, todo,
          sessVars, rotVars, bounds>>

-----------------------------------------------------------------------------
(* Entries and files. *)

Mixed   == -1
Version == 0..MaxBuilds
NoFiles == [e \in 1..NExt |-> 0]
Files   == [cur : [1..NExt -> Version], old : [1..NExt -> Version], new : [1..NExt -> Version]]

\* What loading a set of files gives: a version, nothing when a file is
\* missing, Mixed when they belong to different versions.
Load(f) == IF \E e \in 1..NExt : f[e] = 0 THEN 0
           ELSE IF \A e \in 1..NExt : f[e] = f[1] THEN f[1] ELSE Mixed

Entry == [ver : Version \cup {Mixed}, enabled : BOOLEAN, toDelete : BOOLEAN,
          onlyNew : BOOLEAN, moved : BOOLEAN]

\* PreCreatePlainIndex: an index object with no data, not enabled.
NewEntry == [ver |-> 0, enabled |-> FALSE, toDelete |-> FALSE, onlyNew |-> TRUE,
             moved |-> FALSE]
NoEntry  == [NewEntry EXCEPT !.onlyNew = FALSE]

\* What searchd does with the files of an index when it starts: with a whole
\* set of .new files RotateIndexGreedy, else PrereadNewIndex of what is there.
Startup(f) ==
  IF Load(f.new) # 0
    THEN [ver |-> Load(f.new),
          files |-> [cur |-> f.new, new |-> NoFiles,
                     old |-> IF \E e \in 1..NExt : f.cur[e] = 0 THEN f.old ELSE NoFiles]]
    ELSE [ver |-> Load(f.cur), files |-> f]

\* An RT index with no disk chunk is served too.
StartEntry(i, f) ==
  [NoEntry EXCEPT !.ver = Startup(f).ver, !.enabled = Startup(f).ver # 0 \/ i \in RtIndex]

-----------------------------------------------------------------------------
(* Locks.  The rwlocks are pthread rwlocks with default attributes: a      *)
(* reader enters whenever there is no write owner, also past a writer that *)
(* waits.                                                                  *)

Goto(t, p) == pc' = [pc EXCEPT ![t] = p]

CanWrite(i) == rd[i] = {} /\ wr[i] = NoThread
Holds(t)    == {i \in Index : t \in rd[i] \/ wr[i] = t}
Reads(t)    == {i \in Index : t \in rd[i]}

\* GetRlockedEntry and GetWlockedEntry up to the entry lock: the hash lock is
\* held while the thread waits for the entry.  A name that is not in the hash
\* gives NULL at once.
LookUp(t, i, p) ==
  /\ hw = NoThread
  /\ i \in served
  /\ hr' = hr \cup {t}
  /\ ask' = [ask EXCEPT ![t] = i]
  /\ Goto(t, p)
  /\ UNCHANGED <<served, hw, rd, wr>>

Missing(i) == hw = NoThread /\ i \notin served

\* ... and from the entry lock to the end of the call.
GetRead(t) ==
  /\ wr[ask[t]] = NoThread
  /\ rd' = [rd EXCEPT ![ask[t]] = @ \cup {t}]
  /\ hr' = hr \ {t}
  /\ UNCHANGED <<served, hw, wr>>

GetWrite(t) ==
  /\ CanWrite(ask[t])
  /\ wr' = [wr EXCEPT ![ask[t]] = t]
  /\ hr' = hr \ {t}
  /\ UNCHANGED <<served, hw, rd>>

\* ServedIndex_t::Unlock on a pointer the thread kept.
UnlockWrite(t, I) ==
  /\ wr' = [i \in Index |-> IF i \in I /\ wr[i] = t THEN NoThread ELSE wr[i]]
  /\ UNCHANGED <<served, hr, hw, rd>>

\* GetUnlockedEntry ( sName ).Unlock(): the name is looked up again, under a
\* hash read lock.
FindAndUnlock(t, i) ==
  /\ hw = NoThread
  /\ rd' = [rd EXCEPT ![i] = @ \ {t}]
  /\ wr' = [wr EXCEPT ![i] = IF @ = t THEN NoThread ELSE @]
  /\ UNCHANGED <<served, hr, hw>>

-----------------------------------------------------------------------------
(* The main loop: TickHead calls CheckSignals, CheckDelete, CheckRotate. *)

\* CheckSignals counts the SIGHUP; CheckDelete collects what is marked.
HeadStep ==
  /\ pc[Main] = "head"
  /\ count' = IF hup THEN count + 1 ELSE count
  /\ hup' = FALSE
  /\ todo' = [todo EXCEPT ![Main] = IF dodelete THEN {i \in served : ent[i].toDelete} ELSE {}]
  /\ Goto(Main, "delete")
  /\ UNCHANGED <<lockVars, ent, files, conf, changed, queue, mainVars, ask,
                 sessVars, rotVars, bounds>>

\* IndexHash_c::Delete takes the hash first ...
DeleteLock ==
  /\ pc[Main] = "delete" /\ hr = {} /\ hw = NoThread
  /\ \E i \in todo[Main] : ask' = [ask EXCEPT ![Main] = i]
  /\ hw' = Main
  /\ Goto(Main, "del_entry")
  /\ UNCHANGED <<served, hr, rd, wr, ent, files, envVars, rotateVars, mainVars, todo,
                 sessVars, rotVars, bounds>>

\* Mutant: Delete does not wait for the entry.
DeleteEntry_NoWait ==
  /\ pc[Main] = "del_entry"
  /\ served' = served \ {ask[Main]}
  /\ ent' = [ent EXCEPT ![ask[Main]] = NoEntry]
  /\ hw' = NoThread
  /\ todo' = [todo EXCEPT ![Main] = @ \ {ask[Main]}]
  /\ Goto(Main, "delete")
  /\ UNCHANGED <<hr, rd, wr, files, envVars, rotateVars, mainVars, ask, sessVars, rotVars, bounds>>

\* ... and keeps it while it waits for the entry.
DeleteEntry ==
  /\ pc[Main] = "del_entry" /\ CanWrite(ask[Main])
  /\ served' = served \ {ask[Main]}
  /\ ent' = [ent EXCEPT ![ask[Main]] = NoEntry]
  /\ hw' = NoThread
  /\ todo' = [todo EXCEPT ![Main] = @ \ {ask[Main]}]
  /\ Goto(Main, "delete")
  /\ UNCHANGED <<hr, rd, wr, files, envVars, rotateVars, mainVars, ask, sessVars, rotVars, bounds>>

DeleteDone ==
  /\ pc[Main] = "delete" /\ todo[Main] = {}
  /\ dodelete' = FALSE
  /\ Goto(Main, "rotate")
  /\ UNCHANGED <<lockVars, ent, files, envVars, rotateVars, found, ask, todo,
                 sessVars, rotVars, bounds>>

\* CheckRotate with nothing to do, or a rotation under way.  It looks at the
\* queue and at g_sPrereading without their mutex.
RotateBusy ==
  /\ pc[Main] = "rotate"
  /\ count = 0 \/ queue # <<>> \/ prereading # NoIndex
  /\ Goto(Main, "head")
  /\ UNCHANGED <<lockVars, ent, files, envVars, rotateVars, mainVars, ask, todo,
                 sessVars, rotVars, bounds>>

RotateStart ==
  /\ pc[Main] = "rotate"
  /\ count > 0 /\ queue = <<>> /\ prereading = NoIndex

\* ReloadIndexSettings marks everything ("What about write lock before doing
\* this?") and then visits what the config names.
ReloadStart ==
  /\ RotateStart /\ changed
  /\ changed' = FALSE
  /\ ent' = [i \in Index |-> IF i \in served THEN [ent[i] EXCEPT !.toDelete = TRUE] ELSE ent[i]]
  /\ dodelete' = FALSE
  /\ todo' = [todo EXCEPT ![Main] = conf]
  /\ Goto(Main, "reload")
  /\ UNCHANGED <<lockVars, files, conf, hup, rotateVars, found, ask, sessVars, rotVars, bounds>>

ReloadLook ==
  /\ pc[Main] = "reload"
  /\ \E i \in todo[Main] : LookUp(Main, i, "reload_entry")
  /\ UNCHANGED <<ent, files, envVars, rotateVars, mainVars, todo, sessVars, rotVars, bounds>>

\* A served index keeps its place.
ReloadKeep ==
  /\ pc[Main] = "reload_entry" /\ CanWrite(ask[Main])
  /\ ent' = [ent EXCEPT ![ask[Main]].toDelete = FALSE]
  /\ hr' = hr \ {Main}
  /\ todo' = [todo EXCEPT ![Main] = @ \ {ask[Main]}]
  /\ Goto(Main, "reload")
  /\ UNCHANGED <<served, hw, rd, wr, files, envVars, rotateVars, mainVars, ask,
                 sessVars, rotVars, bounds>>

\* A new one is added (IndexHash_c::Add); an RT index will be loaded next.
ReloadAdd ==
  /\ pc[Main] = "reload" /\ hr = {} /\ hw = NoThread
  /\ \E i \in todo[Main] \ served :
       /\ served' = served \cup {i}
       /\ ent' = [ent EXCEPT ![i] = NewEntry]
       /\ ask' = [ask EXCEPT ![Main] = i]
       /\ todo' = [todo EXCEPT ![Main] = @ \ {i}]
       /\ Goto(Main, IF i \in RtIndex THEN "reload_rt" ELSE "reload")
  /\ UNCHANGED <<hr, hw, rd, wr, files, envVars, rotateVars, mainVars, sessVars, rotVars, bounds>>

\* PrereadNewIndex of a new RT index, with no lock at all.
ReloadRt ==
  /\ pc[Main] = "reload_rt"
  /\ ent' = [ent EXCEPT ![ask[Main]] = StartEntry(ask[Main], files[ask[Main]])]
  /\ Goto(Main, "reload")
  /\ UNCHANGED <<lockVars, files, envVars, rotateVars, mainVars, ask, todo,
                 sessVars, rotVars, bounds>>

\* The scan for .new files keeps the hash lock from its start to its end.
ScanStart ==
  /\ \/ RotateStart /\ ~changed /\ UNCHANGED dodelete
     \/ /\ pc[Main] = "reload" /\ todo[Main] = {}
        /\ dodelete' = (\E i \in served : ent[i].toDelete)
  /\ hw = NoThread
  /\ hr' = hr \cup {Main}
  /\ todo' = [todo EXCEPT ![Main] = served]
  /\ found' = FALSE
  /\ Goto(Main, "scan")
  /\ UNCHANGED <<served, hw, rd, wr, ent, files, envVars, rotateVars, ask,
                 sessVars, rotVars, bounds>>

ScanIndex ==
  /\ pc[Main] = "scan"
  /\ \E i \in todo[Main] :
       /\ todo' = [todo EXCEPT ![Main] = @ \ {i}]
       /\ IF files[i].new[1] # 0
            THEN queue' = Append(queue, i) /\ found' = TRUE
            ELSE UNCHANGED <<queue, found>>
  /\ UNCHANGED <<lockVars, ent, files, envVars, count, dodelete, pc, ask,
                 sessVars, rotVars, bounds>>

Dec(n) == IF n > 0 THEN n - 1 ELSE 0

\* Mutant: without Max.
ScanDone_NoMax ==
  /\ pc[Main] = "scan" /\ todo[Main] = {}
  /\ hr' = hr \ {Main}
  /\ count' = IF found THEN count ELSE count - 1
  /\ Goto(Main, "head")
  /\ UNCHANGED <<served, hw, rd, wr, ent, files, envVars, queue, mainVars, ask, todo,
                 sessVars, rotVars, bounds>>

ScanDone ==
  /\ pc[Main] = "scan" /\ todo[Main] = {}
  /\ hr' = hr \ {Main}
  /\ count' = IF found THEN count ELSE Dec(count)
  /\ Goto(Main, "head")
  /\ UNCHANGED <<served, hw, rd, wr, ent, files, envVars, queue, mainVars, ask, todo,
                 sessVars, rotVars, bounds>>

MainStep == \/ HeadStep \/ DeleteLock \/ DeleteEntry \/ DeleteDone \/ RotateBusy
            \/ ReloadStart \/ ReloadLook \/ ReloadKeep \/ ReloadAdd \/ ReloadRt
            \/ ScanStart \/ ScanIndex \/ ScanDone

-----------------------------------------------------------------------------
(* The rotation thread: RotationThreadFunc and RotateIndexMT. *)

\* It takes the last name of the queue; g_sPrereading is set a moment later.
RotPop ==
  /\ pc[Rotator] = "idle" /\ count > 0 /\ queue # <<>>
  /\ ask' = [ask EXCEPT ![Rotator] = queue[Len(queue)]]
  /\ queue' = SubSeq(queue, 1, Len(queue) - 1)
  /\ Goto(Rotator, "popped")
  /\ UNCHANGED <<lockVars, ent, files, envVars, count, mainVars, todo, sessVars, rotVars, bounds>>

RotPreread ==
  /\ pc[Rotator] = "popped"
  /\ prereading' = ask[Rotator]
  /\ Goto(Rotator, "look")
  /\ UNCHANGED <<lockVars, ent, files, envVars, rotateVars, mainVars, ask, todo, sessVars,
                 loaded, ext, bounds>>

\* GetRlockedEntry before the load, GetWlockedEntry after it.
RotLook(from, to) ==
  /\ pc[Rotator] = from
  /\ \/ LookUp(Rotator, ask[Rotator], to)
     \/ /\ Missing(ask[Rotator])
        /\ Goto(Rotator, "done")
        /\ UNCHANGED <<lockVars, ask>>
  /\ UNCHANGED <<ent, files, envVars, rotateVars, mainVars, todo, sessVars, rotVars, bounds>>

\* Mutant: the read lock is kept for the load.
RotSettings_KeepsLock ==
  /\ pc[Rotator] = "settings" /\ wr[ask[Rotator]] = NoThread
  /\ hr' = hr \ {Rotator}
  /\ rd' = [rd EXCEPT ![ask[Rotator]] = @ \cup {Rotator}]
  /\ Goto(Rotator, IF ent[ask[Rotator]].toDelete THEN "done" ELSE "load")
  /\ UNCHANGED <<served, hw, wr, ent, files, envVars, rotateVars, mainVars, ask, todo,
                 sessVars, rotVars, bounds>>

\* The settings are copied under the read lock, which is not kept.
RotSettings ==
  /\ pc[Rotator] = "settings" /\ wr[ask[Rotator]] = NoThread
  /\ hr' = hr \ {Rotator}
  /\ Goto(Rotator, IF ent[ask[Rotator]].toDelete THEN "done" ELSE "load")
  /\ UNCHANGED <<served, hw, rd, wr, ent, files, envVars, rotateVars, mainVars, ask, todo,
                 sessVars, rotVars, bounds>>

\* Prealloc, Lock, fixup and Preread of the .new files.
RotLoad ==
  /\ pc[Rotator] = "load"
  /\ \/ /\ Load(files[ask[Rotator]].new) # 0
        /\ loaded' = Load(files[ask[Rotator]].new)
        /\ Goto(Rotator, "find")
     \/ /\ "load" \in Faults \/ Load(files[ask[Rotator]].new) = 0
        /\ Goto(Rotator, "done")
        /\ UNCHANGED loaded
  /\ UNCHANGED <<lockVars, ent, files, envVars, rotateVars, mainVars, ask, todo,
                 sessVars, prereading, ext, bounds>>

\* Mutant: the write lock is not waited for.
RotEntry_NoWait ==
  /\ pc[Rotator] = "entry" /\ wr[ask[Rotator]] = NoThread
  /\ LET i == ask[Rotator] IN
       IF ent[i].toDelete
         THEN hr' = hr \ {Rotator} /\ Goto(Rotator, "done") /\ UNCHANGED <<served, hw, rd, wr>>
         ELSE /\ wr' = [wr EXCEPT ![i] = Rotator]
              /\ hr' = hr \ {Rotator}
              /\ UNCHANGED <<served, hw, rd>>
              /\ Goto(Rotator, IF ent[i].onlyNew \/ files[i].cur[1] = 0 THEN "new" ELSE "old")
  /\ ext' = 1
  /\ UNCHANGED <<ent, files, envVars, rotateVars, mainVars, ask, todo, sessVars,
                 prereading, loaded, bounds>>

RotEntry ==
  /\ pc[Rotator] = "entry" /\ CanWrite(ask[Rotator])
  /\ LET i == ask[Rotator] IN
       IF ent[i].toDelete
         THEN hr' = hr \ {Rotator} /\ Goto(Rotator, "done") /\ UNCHANGED <<served, hw, rd, wr>>
         ELSE /\ GetWrite(Rotator)
              /\ Goto(Rotator, IF ent[i].onlyNew \/ files[i].cur[1] = 0 THEN "new" ELSE "old")
  /\ ext' = 1
  /\ UNCHANGED <<ent, files, envVars, rotateVars, mainVars, ask, todo, sessVars,
                 prereading, loaded, bounds>>

\* CSphIndex_VLN::Rename: file by file; when one fails, those already renamed
\* are renamed back.
Renamed(f, a, b, e)  == [f EXCEPT ![b][e] = f[a][e], ![a][e] = 0]
RolledBack(f, a, b, e) ==
  [f EXCEPT ![a] = [x \in 1..NExt |-> IF x < e THEN f[b][x] ELSE f[a][x]],
            ![b] = [x \in 1..NExt |-> IF x < e THEN 0 ELSE f[b][x]]]

RotRename(a, b, next, giveup) ==
  LET i == ask[Rotator]  f == files[i] IN
  /\ \/ /\ f[a][ext] # 0
        /\ files' = [files EXCEPT ![i] = Renamed(f, a, b, ext)]
        /\ IF ext < NExt THEN ext' = ext + 1 /\ UNCHANGED pc
                         ELSE ext' = 1 /\ Goto(Rotator, next)
     \/ /\ a \in Faults \/ f[a][ext] = 0
        /\ files' = [files EXCEPT ![i] = RolledBack(f, a, b, ext)]
        /\ ext' = 1
        /\ Goto(Rotator, giveup)

\* The current files become .old, and the index goes by that name.
RotOld ==
  /\ pc[Rotator] = "old"
  /\ RotRename("cur", "old", "new", "unlock")
  /\ ent' = [ent EXCEPT ![ask[Rotator]].moved = (pc'[Rotator] = "new")]
  /\ UNCHANGED <<lockVars, envVars, rotateVars, mainVars, ask, todo, sessVars,
                 prereading, loaded, bounds>>

\* The .new files become the current ones.
RotNew ==
  /\ pc[Rotator] = "new"
  /\ RotRename("new", "cur", "swap",
               IF ent[ask[Rotator]].onlyNew \/ ~ent[ask[Rotator]].moved THEN "unlock" ELSE "back")
  /\ UNCHANGED <<lockVars, ent, envVars, rotateVars, mainVars, ask, todo, sessVars,
                 prereading, loaded, bounds>>

\* Mutant: a failed rename back leaves the index enabled.
RotBack_StaysEnabled ==
  LET i == ask[Rotator] IN
  /\ pc[Rotator] = "back"
  /\ \/ /\ Load(files[i].old) # 0
        /\ files' = [files EXCEPT ![i].cur = files[i].old, ![i].old = NoFiles]
        /\ ent' = [ent EXCEPT ![i].moved = FALSE]
     \/ /\ "back" \in Faults \/ Load(files[i].old) = 0
        /\ UNCHANGED <<ent, files>>
  /\ Goto(Rotator, "unlock")
  /\ UNCHANGED <<lockVars, envVars, rotateVars, mainVars, ask, todo, sessVars, rotVars, bounds>>

\* That failed: the .old files become the current ones again, or the index is
\* unusable.
RotBack ==
  LET i == ask[Rotator] IN
  /\ pc[Rotator] = "back"
  /\ \/ /\ Load(files[i].old) # 0
        /\ files' = [files EXCEPT ![i].cur = files[i].old, ![i].old = NoFiles]
        /\ ent' = [ent EXCEPT ![i].moved = FALSE]
     \/ /\ "back" \in Faults \/ Load(files[i].old) = 0
        /\ ent' = [ent EXCEPT ![i].enabled = FALSE]
        /\ UNCHANGED files
  /\ Goto(Rotator, "unlock")
  /\ UNCHANGED <<lockVars, envVars, rotateVars, mainVars, ask, todo, sessVars, rotVars, bounds>>

\* Everything went fine: swap the index, unlink .old.
RotSwap ==
  LET i == ask[Rotator] IN
  /\ pc[Rotator] = "swap"
  /\ ent' = [ent EXCEPT ![i].ver = loaded, ![i].enabled = TRUE, ![i].onlyNew = FALSE,
                        ![i].moved = FALSE]
  /\ files' = IF ent[i].onlyNew THEN files ELSE [files EXCEPT ![i].old = NoFiles]
  /\ Goto(Rotator, "unlock")
  /\ UNCHANGED <<lockVars, envVars, rotateVars, mainVars, ask, todo, sessVars, rotVars, bounds>>

\* Mutant: the error paths return without Unlock.
RotUnlock_NotOnError ==
  /\ pc[Rotator] = "unlock"
  /\ IF ent[ask[Rotator]].ver = loaded THEN UnlockWrite(Rotator, {ask[Rotator]})
                                       ELSE UNCHANGED lockVars
  /\ Goto(Rotator, "done")
  /\ UNCHANGED <<ent, files, envVars, rotateVars, mainVars, ask, todo, sessVars, rotVars, bounds>>

RotUnlock ==
  /\ pc[Rotator] = "unlock"
  /\ UnlockWrite(Rotator, {ask[Rotator]})
  /\ Goto(Rotator, "done")
  /\ UNCHANGED <<ent, files, envVars, rotateVars, mainVars, ask, todo, sessVars, rotVars, bounds>>

\* Whatever became of it, one SIGHUP is done with when the queue is empty.
RotDone ==
  /\ pc[Rotator] = "done"
  /\ count' = IF queue = <<>> THEN Dec(count) ELSE count
  /\ prereading' = NoIndex
  /\ loaded' = 0
  /\ Goto(Rotator, "idle")
  /\ UNCHANGED <<lockVars, ent, files, envVars, queue, mainVars, ask, todo, sessVars,
                 ext, bounds>>

RotatorStep == \/ RotPop \/ RotPreread \/ RotLook("look", "settings") \/ RotSettings
               \/ RotLoad \/ RotLook("find", "entry") \/ RotEntry \/ RotOld \/ RotNew
               \/ RotBack \/ RotSwap \/ RotUnlock \/ RotDone

-----------------------------------------------------------------------------
(* SphinxQL sessions: SearchHandler_c, updates, ATTACH INDEX. *)

sessSame == <<ent, files, envVars, rotateVars, mainVars, rotVars, bounds>>

NoVersions == [i \in Index |-> 0]
NoArgs     == <<NoIndex, NoIndex>>

SearchBegin(t) ==
  /\ pc[t] = "idle"
  /\ \E S \in Searches : todo' = [todo EXCEPT ![t] = S]
  /\ keep' = [keep EXCEPT ![t] = {}]
  /\ Goto(t, "check")
  /\ UNCHANGED <<lockVars, ask, got, args, sessSame>>

\* RunSubset uses each index for a moment, to see whether it is enabled.  A
\* name that is not served ends the statement.
CheckLook(t) ==
  /\ pc[t] = "check"
  /\ \E i \in todo[t] :
       \/ LookUp(t, i, "check_wait") /\ UNCHANGED todo
       \/ /\ Missing(i)
          /\ todo' = [todo EXCEPT ![t] = {}]
          /\ Goto(t, "idle")
          /\ UNCHANGED <<lockVars, ask>>
  /\ UNCHANGED <<sessVars, sessSame>>

CheckLock(t) ==
  /\ pc[t] = "check_wait"
  /\ GetRead(t)
  /\ Goto(t, "check_read")
  /\ UNCHANGED <<ask, todo, sessVars, sessSame>>

CheckRelease(t) ==
  LET i == ask[t] IN
  /\ pc[t] = "check_read"
  /\ FindAndUnlock(t, i)
  /\ keep' = [keep EXCEPT ![t] = IF ent[i].enabled THEN @ \cup {i} ELSE @]
  /\ todo' = [todo EXCEPT ![t] = @ \ {i}]
  /\ Goto(t, "check")
  /\ UNCHANGED <<ask, got, args, sessSame>>

CheckDone(t) ==
  /\ pc[t] = "check" /\ todo[t] = {}
  /\ todo' = [todo EXCEPT ![t] = keep[t]]
  /\ Goto(t, IF keep[t] = {} THEN "idle" ELSE "run")
  /\ UNCHANGED <<lockVars, ask, sessVars, sessSame>>

\* RunLocalSearches takes the indexes again, one after another, and keeps them
\* all for as long as the handler lives.  One that is gone is skipped.
RunLook(t) ==
  /\ pc[t] = "run"
  /\ \E i \in todo[t] :
       \/ LookUp(t, i, "run_wait") /\ UNCHANGED todo
       \/ /\ Missing(i)
          /\ todo' = [todo EXCEPT ![t] = @ \ {i}]
          /\ UNCHANGED <<lockVars, ask, pc>>
  /\ UNCHANGED <<sessVars, sessSame>>

RunLock(t) ==
  /\ pc[t] = "run_wait"
  /\ GetRead(t)
  /\ got' = [got EXCEPT ![t][ask[t]] = ent[ask[t]].ver]
  /\ todo' = [todo EXCEPT ![t] = @ \ {ask[t]}]
  /\ Goto(t, "run")
  /\ UNCHANGED <<ask, keep, args, sessSame>>

RunDone(t) ==
  /\ pc[t] = "run" /\ todo[t] = {}
  /\ Goto(t, "release")
  /\ UNCHANGED <<lockVars, ask, todo, sessVars, sessSame>>

\* The destructor looks every name up again to unlock it.
RunRelease(t) ==
  /\ pc[t] = "release"
  /\ \E i \in Reads(t) :
       /\ FindAndUnlock(t, i)
       /\ got' = [got EXCEPT ![t][i] = 0]
  /\ UNCHANGED <<pc, ask, todo, keep, args, sessSame>>

SearchEnd(t) ==
  /\ pc[t] = "release" /\ Reads(t) = {}
  /\ keep' = [keep EXCEPT ![t] = {}]
  /\ Goto(t, "idle")
  /\ UNCHANGED <<lockVars, ask, todo, got, args, sessSame>>

\* An update of a multi-value attribute: UpdateGetLockedIndex.  HandleCommandUpdate
\* unlocks the entry itself; a SphinxQL UPDATE leaves it to the search handler.
UpdateLook(t) ==
  /\ pc[t] = "idle"
  /\ \E i \in Updates : LookUp(t, i, "upd_wait")
  /\ UNCHANGED <<todo, sessVars, sessSame>>

UpdateLock(t) ==
  /\ pc[t] = "upd_wait"
  /\ GetWrite(t)
  /\ Goto(t, "update")
  /\ UNCHANGED <<ask, todo, sessVars, sessSame>>

UpdateEnd(t) ==
  /\ pc[t] = "update"
  /\ \/ UnlockWrite(t, {ask[t]})
     \/ ent[ask[t]].enabled /\ FindAndUnlock(t, ask[t])
  /\ Goto(t, "idle")
  /\ UNCHANGED <<ask, todo, sessVars, sessSame>>

\* HandleMysqlAttach: both entries, the plain index first.
AttachBegin(t) ==
  /\ pc[t] = "idle"
  /\ \E a \in Attaches : args' = [args EXCEPT ![t] = a]
  /\ Goto(t, "att_from")
  /\ UNCHANGED <<lockVars, ask, todo, keep, got, sessSame>>

AttachLook(t, n, from, to, next) ==
  /\ pc[t] = from
  /\ \/ LookUp(t, args[t][n], to)
     \/ Missing(args[t][n]) /\ Goto(t, next) /\ UNCHANGED <<lockVars, ask>>
  /\ UNCHANGED <<todo, sessVars, sessSame>>

AttachLock(t, from, to) ==
  /\ pc[t] = from
  /\ GetWrite(t)
  /\ Goto(t, to)
  /\ UNCHANGED <<ask, todo, sessVars, sessSame>>

Attachable(t) ==
  LET a == args[t][1]  b == args[t][2] IN
  /\ wr[a] = t /\ wr[b] = t /\ ent[a].enabled /\ ent[b].enabled
  /\ a \notin RtIndex /\ b \in RtIndex

\* Mutant: the plain index stays enabled when its files are gone.
AttachEnd_StaysEnabled(t) ==
  LET a == args[t][1]  b == args[t][2] IN
  /\ pc[t] = "attach"
  /\ \/ /\ Attachable(t)
        /\ ent' = [ent EXCEPT ![b].ver = ent[a].ver]
        /\ files' = [files EXCEPT ![b].cur = files[a].cur, ![a].cur = NoFiles]
     \/ ~Attachable(t) /\ UNCHANGED <<ent, files>>
  /\ UnlockWrite(t, {a, b})
  /\ args' = [args EXCEPT ![t] = NoArgs]
  /\ Goto(t, "idle")
  /\ UNCHANGED <<ask, todo, keep, got, envVars, rotateVars, mainVars, rotVars, bounds>>

\* AttachDiskIndex may refuse.  Else the files become the last chunk of the RT index
\* and a dummy takes the place of the plain one, with nothing to load.
AttachEnd(t) ==
  LET a == args[t][1]  b == args[t][2] IN
  /\ pc[t] = "attach"
  /\ \/ /\ Attachable(t)
        /\ ent' = [ent EXCEPT ![b].ver = ent[a].ver, ![a].ver = 0, ![a].enabled = FALSE]
        /\ files' = [files EXCEPT ![b].cur = files[a].cur, ![a].cur = NoFiles]
     \/ (~Attachable(t) \/ "attach" \in Faults) /\ UNCHANGED <<ent, files>>
  /\ UnlockWrite(t, {a, b})
  /\ args' = [args EXCEPT ![t] = NoArgs]
  /\ Goto(t, "idle")
  /\ UNCHANGED <<ask, todo, keep, got, envVars, rotateVars, mainVars, rotVars, bounds>>

AttachStep(t) == \/ AttachLook(t, 1, "att_from", "att_from_wait", "att_to")
                 \/ AttachLock(t, "att_from_wait", "att_to")
                 \/ AttachLook(t, 2, "att_to", "att_to_wait", "attach")
                 \/ AttachLock(t, "att_to_wait", "attach")
                 \/ AttachEnd(t)

SessionBegin(t) == SearchBegin(t) \/ UpdateLook(t) \/ AttachBegin(t)
SessionStep(t) == \/ CheckLook(t) \/ CheckLock(t) \/ CheckRelease(t) \/ CheckDone(t)
                  \/ RunLook(t) \/ RunLock(t) \/ RunDone(t) \/ RunRelease(t) \/ SearchEnd(t)
                  \/ UpdateLock(t) \/ UpdateEnd(t) \/ AttachStep(t)

-----------------------------------------------------------------------------
(* Outside searchd. *)

\* indexer --rotate builds a set of .new files and sends a SIGHUP.
Build(i) ==
  /\ built[i] < MaxBuilds
  /\ \/ IndexerWindow
     \/ ask[Rotator] # i \/ pc[Rotator] \notin {"find", "entry", "old", "new", "back"}
  /\ built' = [built EXCEPT ![i] = @ + 1]
  /\ files' = [files EXCEPT ![i].new = [e \in 1..NExt |-> built[i] + 1]]
  /\ hup' = TRUE
  /\ UNCHANGED <<lockVars, ent, conf, changed, rotateVars, mainVars, pc, ask, todo,
                 sessVars, rotVars, edits, crashes>>

\* The administrator adds or removes indexes and sends a SIGHUP.
EditConf ==
  /\ edits < MaxEdits
  /\ edits' = edits + 1
  /\ \E S \in (SUBSET Removable) \ {{}} : conf' = (conf \ S) \cup (S \ conf)
  /\ changed' = TRUE /\ hup' = TRUE
  /\ UNCHANGED <<lockVars, ent, files, rotateVars, mainVars, pc, ask, todo,
                 sessVars, rotVars, built, crashes>>

StartPc == [t \in Thread |-> IF t = Main THEN "head" ELSE "idle"]

Fresh(v) == [t \in Thread |-> v]

\* searchd dies and starts again.
Crash ==
  /\ crashes < MaxCrashes /\ pc[Rotator] \in CrashAt
  /\ crashes' = crashes + 1
  /\ served' = conf
  /\ files' = [i \in Index |-> IF i \in conf THEN Startup(files[i]).files ELSE files[i]]
  /\ ent' = [i \in Index |-> IF i \in conf THEN StartEntry(i, files[i]) ELSE NoEntry]
  /\ hr' = {} /\ hw' = NoThread
  /\ rd' = [i \in Index |-> {}] /\ wr' = [i \in Index |-> NoThread]
  /\ changed' = FALSE /\ hup' = FALSE /\ count' = 0 /\ queue' = <<>>
  /\ dodelete' = FALSE /\ found' = FALSE
  /\ pc' = StartPc /\ ask' = Fresh(NoIndex) /\ todo' = Fresh({})
  /\ keep' = Fresh({}) /\ got' = Fresh(NoVersions) /\ args' = Fresh(NoArgs)
  /\ prereading' = NoIndex /\ loaded' = 0 /\ ext' = 1
  /\ UNCHANGED <<conf, built, edits>>

-----------------------------------------------------------------------------
StartFiles(i) == [cur |-> IF i \in Start \ RtIndex THEN [e \in 1..NExt |-> 1] ELSE NoFiles,
                  old |-> NoFiles, new |-> NoFiles]

Init ==
  /\ served = Start /\ conf = Start
  /\ files = [i \in Index |-> StartFiles(i)]
  /\ ent = [i \in Index |-> IF i \in Start THEN StartEntry(i, StartFiles(i)) ELSE NoEntry]
  /\ hr = {} /\ hw = NoThread
  /\ rd = [i \in Index |-> {}] /\ wr = [i \in Index |-> NoThread]
  /\ changed = FALSE /\ hup = FALSE /\ count = 0 /\ queue = <<>>
  /\ dodelete = FALSE /\ found = FALSE
  /\ pc = StartPc /\ ask = Fresh(NoIndex) /\ todo = Fresh({})
  /\ keep = Fresh({}) /\ got = Fresh(NoVersions) /\ args = Fresh(NoArgs)
  /\ prereading = NoIndex /\ loaded = 0 /\ ext = 1
  /\ built = [i \in Index |-> IF i \in Start \ RtIndex THEN 1 ELSE 0]
  /\ edits = 0 /\ crashes = 0

Next == \/ MainStep \/ RotatorStep
        \/ \E t \in Session : SessionBegin(t) \/ SessionStep(t)
        \/ \E i \in Index \ RtIndex : Build(i)
        \/ EditConf \/ Crash

Spec == Init /\ [][Next]_vars

\* Every thread runs; a reader that waits is among those that a releasing
\* writer lets in (the rwlock prefers readers), so it is not passed over for ever.
FairSpec ==
  /\ Spec /\ WF_vars(MainStep) /\ WF_vars(RotatorStep)
  /\ \A t \in Session :
       /\ WF_vars(SessionStep(t))
       /\ SF_vars(CheckLock(t)) /\ SF_vars(RunLock(t))

-----------------------------------------------------------------------------
(* Properties *)

PcSet == {"head", "delete", "del_entry", "rotate", "reload", "reload_entry", "reload_rt", "scan",
          "idle", "popped", "look", "settings", "load", "find", "entry", "old", "new", "back",
          "swap", "unlock", "done", "check", "check_wait", "check_read", "run", "run_wait",
          "release", "upd_wait", "update", "att_from", "att_from_wait", "att_to",
          "att_to_wait", "attach"}

\* The type invariant.
TypeOK ==
  /\ served \subseteq Index /\ conf \subseteq Index
  /\ ent \in [Index -> Entry]
  /\ files \in [Index -> Files]
  /\ hr \subseteq Thread /\ hw \in Thread \cup {NoThread}
  /\ rd \in [Index -> SUBSET Thread] /\ wr \in [Index -> Thread \cup {NoThread}]
  /\ changed \in BOOLEAN /\ hup \in BOOLEAN /\ dodelete \in BOOLEAN /\ found \in BOOLEAN
  /\ count \in Nat /\ queue \in Seq(Index) /\ prereading \in Index \cup {NoIndex}
  /\ pc \in [Thread -> PcSet] /\ ask \in [Thread -> Index \cup {NoIndex}]
  /\ todo \in [Thread -> SUBSET Index] /\ keep \in [Thread -> SUBSET Index]
  /\ got \in [Thread -> [Index -> Version \cup {Mixed}]]
  /\ args \in [Thread -> Attaches \cup {NoArgs}]
  /\ loaded \in Version \cup {Mixed} /\ ext \in 1..NExt
  /\ built \in [Index -> Version] /\ edits \in 0..MaxEdits /\ crashes \in 0..MaxCrashes

EntryWaits == {"check_wait", "run_wait", "settings", "upd_wait", "att_from_wait", "att_to_wait",
               "entry", "reload_entry", "del_entry"}

\* Nobody is left with a lock, or waiting for the lock, of an entry that Delete has
\* freed, although "entry locks are held outside the hash".
EntryAlive ==
  \A t \in Thread : /\ Holds(t) \subseteq served
                    /\ pc[t] \in EntryWaits => ask[t] \in served

\* The index that a search got a pointer to stays in its place, whole, to the end
\* of the search, whatever rotations, reloads and ATTACHes happen meanwhile.
SearchStable ==
  \A t \in Session : \A i \in Reads(t) :
    /\ wr[i] = NoThread
    /\ pc[t] \in {"run", "run_wait", "release"} => ent[i].ver = got[t][i]

\* When no writer is at work, the files under an enabled index's name are those of
\* the index in memory: its attributes are saved to, and its hit lists are read
\* from, files of the same build.
ServesItsFiles ==
  \A i \in served : ent[i].enabled /\ wr[i] = NoThread => Load(files[i].cur) = ent[i].ver

\* If searchd stopped here, the next start would find a whole version of every
\* index that is enabled now, at any point of a rotation but between the first and
\* the last rename of .new files.
StartsAgain ==
  \A i \in served \ RtIndex :
    ent[i].enabled /\ ~(wr[i] = Rotator /\ pc[Rotator] = "new" /\ ext > 1)
      => Startup(files[i]).ver \in Version \ {0}

ReadWaits == {"check_wait", "run_wait", "settings"}
NeedHash  == {"check", "check_read", "run", "release", "att_from", "att_to", "look", "find"}

\* The threads that keep t from its next step.
WaitsFor(t) ==
  IF pc[t] \in ReadWaits THEN {wr[ask[t]]} \ {NoThread}
  ELSE IF pc[t] \in EntryWaits THEN (rd[ask[t]] \cup {wr[ask[t]]}) \ {NoThread}
  ELSE IF pc[t] = "delete" /\ todo[t] # {} THEN hr
  ELSE IF pc[t] \in NeedHash THEN {hw} \ {NoThread}
  ELSE {}

Deadlock == \E D \in (SUBSET Thread) \ {{}} : \A t \in D : WaitsFor(t) \cap D # {}

\* Rotation, reload, searches of several indexes in any order, and updates never
\* wait for one another in a circle: a deadlock takes a Delete that waits for an
\* entry with the hash locked, or an ATTACH that waits for its second index.
OnlyDeleteAndAttachDeadlock ==
  Deadlock => hw = Main \/ \E t \in Session : pc[t] = "att_to_wait"

\* A search that waits for an index gets it in the end, unless there is such a
\* deadlock: every path through a rotation, an update or an ATTACH unlocks.
SearchGetsIndex ==
  \A t \in Session : pc[t] = "run_wait" ~> (pc[t] # "run_wait" \/ Deadlock)

\* "note that entry locks are held outside the hash and Delete() honours that by
\* acquiring wlock on an entry first": it still deadlocks with a search that only
\* wants to release its index.
DeleteNeverDeadlocks == ~(hw = Main /\ Deadlock)

\* assert ( pServed->m_bEnabled ) in RunLocalSearches: the check that came before
\* was made under a lock that has been released since.
SearchesEnabled ==
  \A t \in Session : pc[t] = "release" => \A i \in Reads(t) : ent[i].enabled

\* "rotate in progress already; will be handled": an index that was built and
\* announced by a SIGHUP is rotated in.  The rotation thread may count the SIGHUP as
\* done while the scan still queues names, and then leaves them in the queue.
BuildsAreServed ==
  \A i \in Index : i \in served /\ files[i].new[1] # 0 ~> files[i].new[1] = 0

\* "lets add index to prevent deadlock": two statements never wait for each other.
SessionsNeverDeadlock == ~(hw = NoThread /\ Deadlock)
=============================================================================
