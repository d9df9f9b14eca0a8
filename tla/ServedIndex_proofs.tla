------------------------- MODULE ServedIndex_proofs -------------------------
(***************************************************************************)
(* Proofs about the indexes searchd serves, for any indexes, sessions,     *)
(* statements and faults:                                                  *)
(*   - Delete never frees an entry somebody still holds or waits for;      *)
(*   - only Delete and ATTACH can deadlock;                                *)
(*   - every variable keeps its type;                                      *)
(*   - an enabled index has the files of what it serves, and searchd can   *)
(*     start again with it;                                                *)
(*   - a search keeps the index it got.                                    *)
(***************************************************************************)
EXTENDS ServedIndex, TLAPS

\* The variables the locks are about have the shape they need.
Shape ==
  /\ served \subseteq Index
  /\ hr \subseteq Thread
  /\ rd \in [Index -> SUBSET Thread]
  /\ wr \in [Index -> Thread \cup {NoThread}]
  /\ DOMAIN pc = Thread /\ DOMAIN ask = Thread /\ DOMAIN todo = Thread
  /\ todo[Main] \subseteq Index /\ conf \subseteq Index

\* Only Delete writes the hash, and it does not while anybody reads it.
HashLock ==
  /\ hw = IF pc[Main] = "del_entry" THEN Main ELSE NoThread
  /\ pc[Main] = "del_entry" => hr = {} /\ ask[Main] \in served
  /\ pc[Main] \in {"delete", "del_entry"} => todo[Main] \subseteq served

\* Who waits for an entry keeps the hash read lock, so that the entry stays.
WaitersRead ==
  \A t \in Thread : pc[t] \in EntryWaits \ {"del_entry"} => t \in hr /\ ask[t] \in served

OwnersServed == \A i \in Index \ served : rd[i] = {} /\ wr[i] = NoThread

Exclusive == \A i \in Index : wr[i] # NoThread => rd[i] = {}

\* Program points that only the main loop has, where the invariant needs it.
MainOnly == \A t \in Thread \ {Main} : pc[t] # "del_entry"

\* The inductive invariant.
EntryInv == Shape /\ HashLock /\ WaitersRead /\ OwnersServed /\ Exclusive /\ MainOnly

USE ThreadAssumption, IndexAssumption, ArgsAssumption
    DEF EntryInv, Shape, HashLock, WaitersRead, OwnersServed, Exclusive, MainOnly,
        Thread, EntryWaits, Goto, CanWrite, LookUp, Missing, GetRead, GetWrite,
        UnlockWrite, FindAndUnlock, lockVars, sessVars, envVars, sessSame, StartPc, Fresh

LEMMA InitEntry == Init => EntryInv
BY DEF Init

LEMMA MainKeeps ==
  ASSUME EntryInv, MainStep
  PROVE  EntryInv'
<1>1. CASE HeadStep
  BY <1>1 DEF HeadStep
<1>2. CASE DeleteLock
  BY <1>2 DEF DeleteLock
<1>3. CASE DeleteEntry
  <2>1. /\ pc[Main] = "del_entry" /\ rd[ask[Main]] = {} /\ wr[ask[Main]] = NoThread
        /\ served' = served \ {ask[Main]} /\ hw' = NoThread
        /\ todo' = [todo EXCEPT ![Main] = @ \ {ask[Main]}]
        /\ pc' = [pc EXCEPT ![Main] = "delete"]
        /\ UNCHANGED <<hr, rd, wr, ask>>
    BY <1>3 DEF DeleteEntry
  <2>2. hr = {} /\ \A t \in Thread \ {Main} : pc'[t] = pc[t] /\ pc[t] \notin EntryWaits
    BY <2>1
  <2>3. Shape' /\ Exclusive' /\ MainOnly'
    BY <1>3, <2>1, <2>2 DEF DeleteEntry
  <2>5. WaitersRead'
    BY <2>1, <2>2
  <2>6. OwnersServed'
    BY <2>1
  <2>4. HashLock'
    BY <2>1
  <2> QED BY <2>3, <2>4, <2>5, <2>6
<1>4. CASE DeleteDone
  BY <1>4 DEF DeleteDone
<1>5. CASE RotateBusy
  BY <1>5 DEF RotateBusy
<1>6. CASE ReloadStart
  BY <1>6 DEF ReloadStart, RotateStart
<1>7. CASE ReloadLook
  BY <1>7 DEF ReloadLook
<1>8. CASE ReloadKeep
  BY <1>8 DEF ReloadKeep
<1>9. CASE ReloadAdd
  <2>1. PICK i \in todo[Main] \ served :
          /\ served' = served \cup {i} /\ hr = {} /\ hw = NoThread
          /\ ask' = [ask EXCEPT ![Main] = i]
          /\ todo' = [todo EXCEPT ![Main] = @ \ {i}]
          /\ pc' = [pc EXCEPT ![Main] = IF i \in RtIndex THEN "reload_rt" ELSE "reload"]
          /\ pc[Main] = "reload"
          /\ UNCHANGED <<hr, hw, rd, wr, conf>>
    BY <1>9 DEF ReloadAdd
  <2>2. Shape' /\ HashLock'
    BY <2>1
  <2>3. WaitersRead' /\ MainOnly'
    BY <2>1
  <2>4. OwnersServed' /\ Exclusive'
    BY <2>1
  <2> QED BY <2>2, <2>3, <2>4
<1>10. CASE ReloadRt
  BY <1>10 DEF ReloadRt
<1>11. CASE ScanStart
  BY <1>11 DEF ScanStart, RotateStart
<1>12. CASE ScanIndex
  BY <1>12 DEF ScanIndex
<1>13. CASE ScanDone
  BY <1>13 DEF ScanDone
<1> QED BY <1>1, <1>2, <1>3, <1>4, <1>5, <1>6, <1>7, <1>8, <1>9, <1>10, <1>11, <1>12, <1>13
        DEF MainStep

LEMMA RotatorKeeps ==
  ASSUME EntryInv, RotatorStep
  PROVE  EntryInv'
<1>1. CASE RotPop
  BY <1>1 DEF RotPop
<1>2. CASE RotPreread
  BY <1>2 DEF RotPreread
<1>3. CASE RotLook("look", "settings")
  BY <1>3 DEF RotLook
<1>4. CASE RotSettings
  BY <1>4 DEF RotSettings
<1>5. CASE RotLoad
  BY <1>5 DEF RotLoad
<1>6. CASE RotLook("find", "entry")
  BY <1>6 DEF RotLook
<1>7. CASE RotEntry
  BY <1>7 DEF RotEntry
<1>8. CASE RotOld
  BY <1>8 DEF RotOld, RotRename
<1>9. CASE RotNew
  BY <1>9 DEF RotNew, RotRename
<1>10. CASE RotBack
  BY <1>10 DEF RotBack
<1>11. CASE RotSwap
  BY <1>11 DEF RotSwap
<1>12. CASE RotUnlock
  BY <1>12 DEF RotUnlock
<1>13. CASE RotDone
  BY <1>13 DEF RotDone
<1> QED BY <1>1, <1>2, <1>3, <1>4, <1>5, <1>6, <1>7, <1>8, <1>9, <1>10, <1>11, <1>12, <1>13
        DEF RotatorStep

LEMMA SessionKeeps ==
  ASSUME EntryInv, NEW t \in Session, SessionBegin(t) \/ SessionStep(t)
  PROVE  EntryInv'
<1>1. CASE SearchBegin(t)
  BY <1>1 DEF SearchBegin
<1>2. CASE CheckLook(t)
  BY <1>2 DEF CheckLook
<1>3. CASE CheckLock(t)
  BY <1>3 DEF CheckLock
<1>4. CASE CheckRelease(t)
  <2>1. /\ pc[t] = "check_read" /\ hw = NoThread
        /\ rd' = [rd EXCEPT ![ask[t]] = @ \ {t}]
        /\ wr' = [wr EXCEPT ![ask[t]] = IF @ = t THEN NoThread ELSE @]
        /\ todo' = [todo EXCEPT ![t] = @ \ {ask[t]}]
        /\ pc' = [pc EXCEPT ![t] = "check"]
        /\ UNCHANGED <<served, hr, hw, ask, conf>>
    BY <1>4 DEF CheckRelease
  <2>2. \A i \in Index : rd'[i] \subseteq rd[i] /\ (wr'[i] = wr[i] \/ wr'[i] = NoThread)
    BY <2>1
  <2>3. Shape'
    <3>1. rd' \in [Index -> SUBSET Thread] /\ wr' \in [Index -> Thread \cup {NoThread}]
      BY <2>1
    <3>2. DOMAIN pc' = Thread /\ DOMAIN ask' = Thread /\ DOMAIN todo' = Thread
      BY <2>1
    <3> QED BY <2>1, <3>1, <3>2
  <2>4. HashLock' /\ WaitersRead' /\ MainOnly'
    BY <2>1
  <2>5. OwnersServed'
    <3> SUFFICES ASSUME NEW i \in Index \ served PROVE rd'[i] = {} /\ wr'[i] = NoThread
      BY <2>1
    <3>1. rd[i] = {} /\ wr[i] = NoThread
      OBVIOUS
    <3> QED BY <2>2, <3>1
  <2>6. Exclusive'
    <3> SUFFICES ASSUME NEW i \in Index, wr'[i] # NoThread PROVE rd'[i] = {}
      BY DEF Exclusive
    <3>1. wr[i] # NoThread
      BY <2>2
    <3> QED BY <2>2, <3>1
  <2> QED BY <2>3, <2>4, <2>5, <2>6
<1>5. CASE CheckDone(t)
  BY <1>5 DEF CheckDone
<1>6. CASE RunLook(t)
  BY <1>6 DEF RunLook
<1>7. CASE RunLock(t)
  BY <1>7 DEF RunLock
<1>8. CASE RunDone(t)
  BY <1>8 DEF RunDone
<1>9. CASE RunRelease(t)
  BY <1>9 DEF RunRelease, Reads
<1>10. CASE SearchEnd(t)
  BY <1>10 DEF SearchEnd
<1>11. CASE UpdateLook(t)
  BY <1>11 DEF UpdateLook
<1>12. CASE UpdateLock(t)
  BY <1>12 DEF UpdateLock
<1>13. CASE UpdateEnd(t)
  BY <1>13 DEF UpdateEnd
<1>14. CASE AttachBegin(t)
  BY <1>14 DEF AttachBegin
<1>15. CASE AttachStep(t)
  <2>1. CASE AttachLook(t, 1, "att_from", "att_from_wait", "att_to")
    BY <2>1 DEF AttachLook
  <2>2. CASE AttachLock(t, "att_from_wait", "att_to")
    BY <2>2 DEF AttachLock
  <2>3. CASE AttachLook(t, 2, "att_to", "att_to_wait", "attach")
    BY <2>3 DEF AttachLook
  <2>4. CASE AttachLock(t, "att_to_wait", "attach")
    BY <2>4, SMTT(30) DEF AttachLock
  <2>5. CASE AttachEnd(t)
    BY <2>5 DEF AttachEnd
  <2> QED BY <1>15, <2>1, <2>2, <2>3, <2>4, <2>5 DEF AttachStep
<1> QED BY <1>1, <1>2, <1>3, <1>4, <1>5, <1>6, <1>7, <1>8, <1>9, <1>10, <1>11, <1>12, <1>13,
           <1>14, <1>15 DEF SessionBegin, SessionStep

LEMMA OutsideKeeps ==
  ASSUME EntryInv, (\E i \in Index \ RtIndex : Build(i)) \/ EditConf \/ Crash
  PROVE  EntryInv'
<1>1. CASE \E i \in Index \ RtIndex : Build(i)
  BY <1>1 DEF Build
<1>2. CASE EditConf
  BY <1>2 DEF EditConf
<1>3. CASE Crash
  BY <1>3 DEF Crash
<1> QED BY <1>1, <1>2, <1>3

LEMMA EntryStep == EntryInv /\ [Next]_vars => EntryInv'
<1> SUFFICES ASSUME EntryInv, [Next]_vars PROVE EntryInv'
  OBVIOUS
<1>1. CASE MainStep
  BY <1>1, MainKeeps
<1>2. CASE RotatorStep
  BY <1>2, RotatorKeeps
<1>3. CASE \E t \in Session : SessionBegin(t) \/ SessionStep(t)
  BY <1>3, SessionKeeps
<1>4. CASE (\E i \in Index \ RtIndex : Build(i)) \/ EditConf \/ Crash
  BY <1>4, OutsideKeeps
<1>5. CASE UNCHANGED vars
  BY <1>5 DEF vars
<1> QED BY <1>1, <1>2, <1>3, <1>4, <1>5 DEF Next

LEMMA EntryInvariant == Spec => []EntryInv
BY InitEntry, EntryStep, PTL DEF Spec

\* Whoever holds or waits for an entry finds it in the hash: Delete frees no entry
\* that is in use.
THEOREM EntriesAlive == Spec => []EntryAlive
<1>1. EntryInv => EntryAlive
  <2> SUFFICES ASSUME EntryInv, NEW t \in Thread
               PROVE  Holds(t) \subseteq served /\ (pc[t] \in EntryWaits => ask[t] \in served)
    BY DEF EntryAlive
  <2>1. Holds(t) \subseteq served
    BY DEF Holds
  <2>2. pc[t] \in EntryWaits => ask[t] \in served
    OBVIOUS
  <2> QED BY <2>1, <2>2
<1> QED BY EntryInvariant, <1>1, PTL

-----------------------------------------------------------------------------
(* What a thread has while it waits.  Nobody who waits for an entry has a   *)
(* write lock, but for an ATTACH that waits for its second index, and only  *)
(* searches wait with read locks.                                           *)

HashReaders == \A t \in hr : pc[t] \in (EntryWaits \ {"del_entry"}) \cup {"scan"}

EntryReaders ==
  \A t \in Thread : \A i \in Index : t \in rd[i] =>
    \/ pc[t] \in {"run", "run_wait", "release"}
    \/ pc[t] = "check_read" /\ i = ask[t]

EntryWriters ==
  \A i \in Index : wr[i] # NoThread =>
    LET t == wr[i] IN
    \/ pc[t] \in {"update", "old", "new", "back", "swap", "unlock"} /\ i = ask[t]
    \/ pc[t] \in {"att_to", "att_to_wait"} /\ i = args[t][1]
    \/ pc[t] = "attach" /\ i \in {args[t][1], args[t][2]}

AttachArgs ==
  /\ DOMAIN args = Thread
  /\ \A t \in Thread : /\ pc[t] = "att_from_wait" => ask[t] = args[t][1]
                       /\ pc[t] = "att_to_wait" => t \in Session /\ ask[t] = args[t][2]

HoldInv == HashReaders /\ EntryReaders /\ EntryWriters /\ AttachArgs

LEMMA InitHold == Init => HoldInv
BY DEF Init, HoldInv, HashReaders, EntryReaders, EntryWriters, AttachArgs

LEMMA MainHolds ==
  ASSUME EntryInv, HoldInv, MainStep
  PROVE  HoldInv'
<1> USE DEF HoldInv, HashReaders, EntryReaders, EntryWriters, AttachArgs
<1>1. CASE HeadStep
  BY <1>1 DEF HeadStep
<1>2. CASE DeleteLock
  BY <1>2 DEF DeleteLock
<1>3. CASE DeleteEntry
  BY <1>3 DEF DeleteEntry
<1>4. CASE DeleteDone
  BY <1>4 DEF DeleteDone
<1>5. CASE RotateBusy
  BY <1>5 DEF RotateBusy
<1>6. CASE ReloadStart
  BY <1>6 DEF ReloadStart, RotateStart
<1>7. CASE ReloadLook
  BY <1>7 DEF ReloadLook
<1>8. CASE ReloadKeep
  BY <1>8 DEF ReloadKeep
<1>9. CASE ReloadAdd
  BY <1>9 DEF ReloadAdd
<1>10. CASE ReloadRt
  BY <1>10 DEF ReloadRt
<1>11. CASE ScanStart
  <2>1. /\ hr' = hr \cup {Main} /\ pc' = [pc EXCEPT ![Main] = "scan"]
        /\ pc[Main] \in {"rotate", "reload"}
        /\ UNCHANGED <<rd, wr, ask, args>>
    BY <1>11 DEF ScanStart, RotateStart
  <2>2. HashReaders' /\ AttachArgs'
    BY <2>1
  <2>3. EntryReaders'
    BY <2>1
  <2>4. EntryWriters'
    BY <2>1
  <2> QED BY <2>2, <2>3, <2>4
<1>12. CASE ScanIndex
  BY <1>12 DEF ScanIndex
<1>13. CASE ScanDone
  BY <1>13 DEF ScanDone, Dec
<1> QED BY <1>1, <1>2, <1>3, <1>4, <1>5, <1>6, <1>7, <1>8, <1>9, <1>10, <1>11, <1>12, <1>13 DEF MainStep

LEMMA RotatorHolds ==
  ASSUME EntryInv, HoldInv, RotatorStep
  PROVE  HoldInv'
<1> USE DEF HoldInv, HashReaders, EntryReaders, EntryWriters, AttachArgs
<1>1. CASE RotPop
  BY <1>1 DEF RotPop, mainVars
<1>2. CASE RotPreread
  BY <1>2 DEF RotPreread, mainVars
<1>3. CASE RotLook("look", "settings")
  BY <1>3 DEF RotLook, mainVars
<1>4. CASE RotSettings
  BY <1>4 DEF RotSettings, mainVars
<1>5. CASE RotLoad
  BY <1>5 DEF RotLoad, mainVars
<1>6. CASE RotLook("find", "entry")
  BY <1>6 DEF RotLook, mainVars
<1>7. CASE RotEntry
  BY <1>7 DEF RotEntry, mainVars
<1>8. CASE RotOld
  BY <1>8 DEF RotOld, RotRename, mainVars
<1>9. CASE RotNew
  BY <1>9 DEF RotNew, RotRename, mainVars
<1>10. CASE RotBack
  BY <1>10 DEF RotBack, mainVars
<1>11. CASE RotSwap
  BY <1>11 DEF RotSwap, mainVars
<1>12. CASE RotUnlock
  BY <1>12 DEF RotUnlock, mainVars
<1>13. CASE RotDone
  BY <1>13 DEF RotDone, Dec, mainVars
<1> QED BY <1>1, <1>2, <1>3, <1>4, <1>5, <1>6, <1>7, <1>8, <1>9, <1>10, <1>11, <1>12, <1>13 DEF RotatorStep

LEMMA SessionHolds ==
  ASSUME EntryInv, HoldInv, NEW t \in Session, SessionBegin(t) \/ SessionStep(t)
  PROVE  HoldInv'
<1> USE DEF HoldInv, HashReaders, EntryReaders, EntryWriters, AttachArgs
<1>1. CASE SearchBegin(t)
  BY <1>1 DEF SearchBegin
<1>2. CASE CheckLook(t)
  BY <1>2 DEF CheckLook
<1>3. CASE CheckLock(t)
  BY <1>3 DEF CheckLock
<1>4. CASE CheckRelease(t)
  BY <1>4 DEF CheckRelease
<1>5. CASE CheckDone(t)
  BY <1>5 DEF CheckDone
<1>6. CASE RunLook(t)
  BY <1>6 DEF RunLook
<1>7. CASE RunLock(t)
  BY <1>7 DEF RunLock
<1>8. CASE RunDone(t)
  BY <1>8 DEF RunDone
<1>9. CASE RunRelease(t)
  BY <1>9 DEF RunRelease, Reads
<1>10. CASE SearchEnd(t)
  BY <1>10 DEF SearchEnd, Reads
<1>11. CASE UpdateLook(t)
  BY <1>11 DEF UpdateLook
<1>12. CASE UpdateLock(t)
  BY <1>12 DEF UpdateLock
<1>13. CASE UpdateEnd(t)
  BY <1>13 DEF UpdateEnd
<1>14. CASE AttachBegin(t)
  BY <1>14 DEF AttachBegin
<1>15. CASE AttachLook(t, 1, "att_from", "att_from_wait", "att_to")
  BY <1>15 DEF AttachLook
<1>16. CASE AttachLock(t, "att_from_wait", "att_to")
  BY <1>16 DEF AttachLock
<1>17. CASE AttachLook(t, 2, "att_to", "att_to_wait", "attach")
  BY <1>17 DEF AttachLook
<1>18. CASE AttachLock(t, "att_to_wait", "attach")
  BY <1>18 DEF AttachLock
<1>19. CASE AttachEnd(t)
  <2>1. /\ pc[t] = "attach" /\ pc' = [pc EXCEPT ![t] = "idle"]
        /\ wr' = [i \in Index |-> IF i \in {args[t][1], args[t][2]} /\ wr[i] = t
                                    THEN NoThread ELSE wr[i]]
        /\ args' = [args EXCEPT ![t] = NoArgs]
        /\ UNCHANGED <<hr, rd, ask>>
    BY <1>19 DEF AttachEnd
  <2>2. HashReaders' /\ AttachArgs'
    BY <2>1
  <2>3. EntryReaders'
    BY <2>1
  <2>4. EntryWriters'
    <3> SUFFICES ASSUME NEW i \in Index, wr'[i] # NoThread
                 PROVE  /\ wr'[i] = wr[i] /\ wr[i] # t
      BY <2>1
    <3> QED BY <2>1
  <2> QED BY <2>2, <2>3, <2>4
<1> QED BY <1>1, <1>2, <1>3, <1>4, <1>5, <1>6, <1>7, <1>8, <1>9, <1>10, <1>11, <1>12, <1>13, <1>14, <1>15, <1>16, <1>17, <1>18, <1>19
        DEF SessionBegin, SessionStep, AttachStep

LEMMA OutsideHolds ==
  ASSUME EntryInv, HoldInv, (\E i \in Index \ RtIndex : Build(i)) \/ EditConf \/ Crash
  PROVE  HoldInv'
<1> USE DEF HoldInv, HashReaders, EntryReaders, EntryWriters, AttachArgs
<1>1. CASE \E i \in Index \ RtIndex : Build(i)
  BY <1>1 DEF Build
<1>2. CASE EditConf
  BY <1>2 DEF EditConf
<1>3. CASE Crash
  BY <1>3 DEF Crash
<1> QED BY <1>1, <1>2, <1>3

LEMMA HoldStep == EntryInv /\ HoldInv /\ [Next]_vars => HoldInv'
<1> SUFFICES ASSUME EntryInv, HoldInv, [Next]_vars PROVE HoldInv'
  OBVIOUS
<1>1. CASE MainStep
  BY <1>1, MainHolds
<1>2. CASE RotatorStep
  BY <1>2, RotatorHolds
<1>3. CASE \E t \in Session : SessionBegin(t) \/ SessionStep(t)
  BY <1>3, SessionHolds
<1>4. CASE (\E i \in Index \ RtIndex : Build(i)) \/ EditConf \/ Crash
  BY <1>4, OutsideHolds
<1>5. CASE UNCHANGED vars
  BY <1>5 DEF vars, HoldInv, HashReaders, EntryReaders, EntryWriters, AttachArgs
<1> QED BY <1>1, <1>2, <1>3, <1>4, <1>5 DEF Next

\* Of two threads that wait, none waits for a lock that the other has to write:
\* who has one waits for nothing.
LEMMA WritersRun ==
  ASSUME EntryInv, HoldInv, hw # Main, \A t \in Session : pc[t] # "att_to_wait",
         NEW i \in Index, wr[i] # NoThread
  PROVE  WaitsFor(wr[i]) = {}
<1> DEFINE t == wr[i]
<1>1. t \in Thread /\ hw = NoThread
  OBVIOUS
<1>2. pc[t] \in {"update", "old", "new", "back", "swap", "unlock", "att_to", "attach"}
  BY DEF HoldInv, EntryWriters, AttachArgs
<1> QED BY <1>1, <1>2 DEF WaitsFor, ReadWaits, NeedHash

\* Rotation, reload, searches and updates never wait for one another in a circle:
\* a deadlock takes a Delete or an ATTACH.
THEOREM NoOtherDeadlock == Spec => []OnlyDeleteAndAttachDeadlock
<1>1. EntryInv /\ HoldInv => OnlyDeleteAndAttachDeadlock
  <2> SUFFICES ASSUME EntryInv, HoldInv, hw # Main, \A t \in Session : pc[t] # "att_to_wait",
                      NEW D \in (SUBSET Thread) \ {{}}, \A t \in D : WaitsFor(t) \cap D # {}
               PROVE  FALSE
    BY DEF OnlyDeleteAndAttachDeadlock, Deadlock
  <2>1. hw = NoThread
    OBVIOUS
  <2>2. \A t \in D : \A i \in Index : wr[i] # t
    BY WritersRun
  <2>3. \A t \in D : pc[t] \notin ReadWaits
    <3> SUFFICES ASSUME NEW t \in D, pc[t] \in ReadWaits PROVE FALSE
      OBVIOUS
    <3>1. ask[t] \in Index
      BY DEF ReadWaits
    <3>2. WaitsFor(t) = {wr[ask[t]]} \ {NoThread}
      BY DEF WaitsFor
    <3> QED BY <2>2, <3>1, <3>2
  <2>4. \A t \in D : \A i \in Index : t \notin rd[i]
    <3> SUFFICES ASSUME NEW t \in D, NEW i \in Index, t \in rd[i] PROVE FALSE
      OBVIOUS
    <3>1. pc[t] \in {"run", "release", "check_read"}
      BY <2>3 DEF HoldInv, EntryReaders, ReadWaits
    <3>2. WaitsFor(t) = {}
      BY <2>1, <3>1 DEF WaitsFor, ReadWaits, NeedHash
    <3> QED BY <3>2
  <2>5. \A t \in D : pc[t] \notin EntryWaits
    <3> SUFFICES ASSUME NEW t \in D, pc[t] \in EntryWaits PROVE FALSE
      OBVIOUS
    <3>1. ask[t] \in Index
      OBVIOUS
    <3>2. WaitsFor(t) = (rd[ask[t]] \cup {wr[ask[t]]}) \ {NoThread}
      BY <2>3 DEF WaitsFor
    <3> QED BY <2>2, <2>4, <3>1, <3>2
  <2>6. \A t \in D : t \notin hr
    <3> SUFFICES ASSUME NEW t \in D, t \in hr PROVE FALSE
      OBVIOUS
    <3>1. pc[t] = "scan"
      BY <2>5 DEF HoldInv, HashReaders
    <3> QED BY <3>1 DEF WaitsFor, ReadWaits, NeedHash
  <2>7. \A t \in D : WaitsFor(t) \in {{}, hr}
    BY <2>1, <2>3, <2>5 DEF WaitsFor
  <2> QED BY <2>6, <2>7
<1> QED BY InitEntry, EntryStep, InitHold, HoldStep, <1>1, PTL DEF Spec

-----------------------------------------------------------------------------
(* Types.  The locks are typed by the invariant above.                     *)

ThreadTypes ==
  /\ pc \in [Thread -> PcSet] /\ ask \in [Thread -> Index \cup {NoIndex}]
  /\ todo \in [Thread -> SUBSET Index] /\ keep \in [Thread -> SUBSET Index]
  /\ got \in [Thread -> [Index -> Version \cup {Mixed}]]
  /\ args \in [Thread -> Attaches \cup {NoArgs}]

DataTypes ==
  /\ ent \in [Index -> Entry]
  /\ files \in [Index -> Files]
  /\ loaded \in Version \cup {Mixed} /\ ext \in 1..NExt
  /\ built \in [Index -> Version]

OtherTypes ==
  /\ changed \in BOOLEAN /\ hup \in BOOLEAN /\ dodelete \in BOOLEAN /\ found \in BOOLEAN
  /\ count \in Nat /\ queue \in Seq(Index) /\ prereading \in Index \cup {NoIndex}
  /\ edits \in 0..MaxEdits /\ crashes \in 0..MaxCrashes

\* Where a thread's name, and its arguments, are those of indexes.
Names ==
  \A t \in Thread :
    /\ pc[t] \in {"check_read", "update", "reload_rt", "popped", "look", "settings", "load",
                  "find", "entry", "old", "new", "back", "swap", "unlock"}
         => ask[t] \in Index
    /\ pc[t] \in {"att_from", "att_from_wait", "att_to", "att_to_wait", "attach"}
         => args[t] \in Attaches

TypeInv == ThreadTypes /\ DataTypes /\ OtherTypes /\ Names

LEMMA LoadType ==
  ASSUME NEW f \in [1..NExt -> Version]
  PROVE  Load(f) \in Version \cup {Mixed}
BY BoundAssumption DEF Load, Version

LEMMA EntryTypes ==
  /\ 0 \in Version /\ NoFiles \in [1..NExt -> Version]
  /\ NewEntry \in Entry /\ NoEntry \in Entry
<1>1. 0 \in Version /\ NoFiles \in [1..NExt -> Version]
  BY BoundAssumption DEF NoFiles, Version
<1>2. NewEntry \in Entry
  BY <1>1 DEF NewEntry, Entry
<1>3. NoEntry \in Entry
  BY <1>2 DEF NoEntry, Entry
<1> QED BY <1>1, <1>2, <1>3

LEMMA StartTypes ==
  ASSUME NEW f \in Files, NEW i
  PROVE  /\ Startup(f).ver \in Version \cup {Mixed}
         /\ Startup(f).files \in Files
         /\ StartEntry(i, f) \in Entry
<1>2. Startup(f).ver \in Version \cup {Mixed}
  BY LoadType DEF Startup, Files
<1>3. Startup(f).files \in Files
  <2>1. f.new \in [1..NExt -> Version] /\ f.cur \in [1..NExt -> Version]
        /\ f.old \in [1..NExt -> Version]
    BY DEF Files
  <2>2. CASE Load(f.new) = 0
    BY <2>2 DEF Startup
  <2>3. CASE Load(f.new) # 0
    <3>1. PICK g \in [1..NExt -> Version] :
            Startup(f).files = [cur |-> f.new, new |-> NoFiles, old |-> g]
      BY <2>1, <2>3, EntryTypes DEF Startup
    <3> QED BY <2>1, <3>1, EntryTypes DEF Files
  <2> QED BY <2>2, <2>3
<1> DEFINE v == Startup(f).ver
           e == Startup(f).ver # 0 \/ i \in RtIndex
<1>5. StartEntry(i, f) = [NoEntry EXCEPT !.ver = v, !.enabled = e] /\ e \in BOOLEAN
  BY DEF StartEntry
<1> HIDE DEF v, e
<1>6. StartEntry(i, f) \in Entry
  BY <1>2, <1>5, EntryTypes DEF Entry, v
<1> QED BY <1>2, <1>3, <1>6


LEMMA EntryUpdates ==
  ASSUME NEW e \in Entry, NEW v \in Version \cup {Mixed}, NEW x \in BOOLEAN
  PROVE  /\ [e EXCEPT !.ver = v] \in Entry
         /\ [e EXCEPT !.ver = v, !.enabled = x] \in Entry
         /\ [e EXCEPT !.enabled = x] \in Entry
         /\ [e EXCEPT !.toDelete = x] \in Entry
         /\ [e EXCEPT !.moved = x] \in Entry
         /\ [e EXCEPT !.ver = v, !.enabled = TRUE, !.onlyNew = FALSE, !.moved = FALSE] \in Entry
BY DEF Entry

LEMMA RenameTypes ==
  ASSUME NEW f \in Files, NEW a \in {"cur", "old", "new"}, NEW b \in {"cur", "old", "new"},
         NEW e \in 1..NExt
  PROVE  Renamed(f, a, b, e) \in Files /\ RolledBack(f, a, b, e) \in Files
<1>1. f[a] \in [1..NExt -> Version] /\ f[b] \in [1..NExt -> Version]
  BY DEF Files
<1> DEFINE g == [x \in 1..NExt |-> IF x < e THEN f[b][x] ELSE f[a][x]]
           h == [x \in 1..NExt |-> IF x < e THEN 0 ELSE f[b][x]]
<1>2. g \in [1..NExt -> Version] /\ h \in [1..NExt -> Version]
  BY <1>1, EntryTypes
<1>3. RolledBack(f, a, b, e) = [f EXCEPT ![a] = g, ![b] = h]
  BY DEF RolledBack
<1> HIDE DEF g, h
<1>4. RolledBack(f, a, b, e) \in Files
  BY <1>2, <1>3 DEF Files
<1>5. Renamed(f, a, b, e) \in Files
  BY <1>1, EntryTypes DEF Renamed, Files
<1> QED BY <1>4, <1>5

LEMMA InitTypes == Init => TypeInv
<1> SUFFICES ASSUME Init PROVE TypeInv
  OBVIOUS
<1>1. ThreadTypes
  BY BoundAssumption DEF Init, ThreadTypes, PcSet, NoVersions, Version
<1>2. \A i \in Index : StartFiles(i) \in Files
  BY BoundAssumption DEF StartFiles, Files, NoFiles, Version
<1>3. DataTypes
  <2>1. ent \in [Index -> Entry]
    BY <1>2, StartTypes, EntryTypes DEF Init
  <2>2. built \in [Index -> Version] /\ loaded \in Version /\ ext \in 1..NExt
    BY BoundAssumption DEF Init, Version
  <2> QED BY <1>2, <2>1, <2>2 DEF Init, DataTypes
<1>4. OtherTypes
  <2>1. queue \in Seq(Index) /\ count \in Nat
    BY DEF Init
  <2>2. edits \in 0..MaxEdits /\ crashes \in 0..MaxCrashes
    BY BoundAssumption DEF Init
  <2> QED BY <2>1, <2>2 DEF Init, OtherTypes
<1>5. Names
  BY DEF Init, Names
<1> QED BY <1>1, <1>3, <1>4, <1>5 DEF TypeInv

LEMMA MainThreadTypes ==
  ASSUME EntryInv, TypeInv, MainStep
  PROVE  ThreadTypes' /\ Names'
<1> USE DEF TypeInv, ThreadTypes, Names, PcSet
<1>1. CASE HeadStep
  BY <1>1 DEF HeadStep
<1>2. CASE DeleteLock
  BY <1>2 DEF DeleteLock
<1>3. CASE DeleteEntry
  BY <1>3 DEF DeleteEntry
<1>4. CASE DeleteDone
  BY <1>4 DEF DeleteDone
<1>5. CASE RotateBusy
  BY <1>5 DEF RotateBusy
<1>6. CASE ReloadStart
  BY <1>6 DEF ReloadStart, RotateStart
<1>7. CASE ReloadLook
  BY <1>7 DEF ReloadLook
<1>8. CASE ReloadKeep
  BY <1>8 DEF ReloadKeep
<1>9. CASE ReloadAdd
  BY <1>9 DEF ReloadAdd
<1>10. CASE ReloadRt
  BY <1>10 DEF ReloadRt
<1>11. CASE ScanStart
  BY <1>11 DEF ScanStart, RotateStart
<1>12. CASE ScanIndex
  BY <1>12 DEF ScanIndex
<1>13. CASE ScanDone
  BY <1>13 DEF ScanDone, Dec
<1> QED BY <1>1, <1>2, <1>3, <1>4, <1>5, <1>6, <1>7, <1>8, <1>9, <1>10, <1>11, <1>12, <1>13 DEF MainStep

LEMMA MainOtherTypes ==
  ASSUME EntryInv, TypeInv, MainStep
  PROVE  OtherTypes'
<1> USE DEF TypeInv, OtherTypes, rotVars, rotateVars, bounds, mainVars
<1>1. CASE HeadStep
  <2>1. count + 1 \in Nat
    OBVIOUS
  <2> QED BY <1>1, <2>1 DEF HeadStep
<1>2. CASE DeleteLock
  BY <1>2, BoundAssumption DEF DeleteLock
<1>3. CASE DeleteEntry
  BY <1>3, BoundAssumption DEF DeleteEntry
<1>4. CASE DeleteDone
  BY <1>4, BoundAssumption DEF DeleteDone
<1>5. CASE RotateBusy
  BY <1>5, BoundAssumption DEF RotateBusy
<1>6. CASE ReloadStart
  BY <1>6, BoundAssumption DEF ReloadStart, RotateStart
<1>7. CASE ReloadLook
  BY <1>7, BoundAssumption DEF ReloadLook
<1>8. CASE ReloadKeep
  BY <1>8, BoundAssumption DEF ReloadKeep
<1>9. CASE ReloadAdd
  BY <1>9, BoundAssumption DEF ReloadAdd
<1>10. CASE ReloadRt
  BY <1>10, BoundAssumption DEF ReloadRt
<1>11. CASE ScanStart
  BY <1>11, BoundAssumption DEF ScanStart, RotateStart
<1>12. CASE ScanIndex
  <2>1. PICK i \in Index : \/ queue' = Append(queue, i) /\ found' = TRUE
                          \/ UNCHANGED <<queue, found>>
    BY <1>12 DEF ScanIndex
  <2>2. Append(queue, i) \in Seq(Index) /\ queue \in Seq(Index) /\ found \in BOOLEAN
    OBVIOUS
  <2>3. queue' \in Seq(Index) /\ found' \in BOOLEAN
    <3> HIDE DEF EntryInv, TypeInv, OtherTypes
    <3> QED BY <2>1, <2>2
  <2> QED BY <1>12, <2>3 DEF ScanIndex
<1>13. CASE ScanDone
  BY <1>13, BoundAssumption DEF ScanDone, Dec
<1> QED BY <1>1, <1>2, <1>3, <1>4, <1>5, <1>6, <1>7, <1>8, <1>9, <1>10, <1>11, <1>12, <1>13 DEF MainStep

LEMMA MainDataTypes ==
  ASSUME EntryInv, TypeInv, MainStep
  PROVE  DataTypes'
<1> USE DEF TypeInv, DataTypes, bounds, rotVars
<1>1. CASE HeadStep
  BY <1>1, EntryTypes, StartTypes DEF HeadStep, Entry
<1>2. CASE DeleteLock
  BY <1>2, EntryTypes, StartTypes DEF DeleteLock, Entry
<1>3. CASE DeleteEntry
  BY <1>3, EntryTypes, StartTypes DEF DeleteEntry, Entry
<1>4. CASE DeleteDone
  BY <1>4, EntryTypes, StartTypes DEF DeleteDone, Entry
<1>5. CASE RotateBusy
  BY <1>5, EntryTypes, StartTypes DEF RotateBusy, Entry
<1>6. CASE ReloadStart
  <2>1. \A i \in Index : ent'[i] = ent[i] \/ ent'[i] = [ent[i] EXCEPT !.toDelete = TRUE]
    BY <1>6 DEF ReloadStart
  <2>2. ent' \in [Index -> Entry]
    BY <1>6, <2>1, EntryUpdates DEF ReloadStart
  <2> QED BY <1>6, <2>2 DEF ReloadStart, RotateStart
<1>7. CASE ReloadLook
  BY <1>7, EntryTypes, StartTypes DEF ReloadLook, Entry
<1>8. CASE ReloadKeep
  <2>1. ask[Main] \in Index
    BY <1>8 DEF ReloadKeep
  <2>2. ent' = [ent EXCEPT ![ask[Main]] = [ent[ask[Main]] EXCEPT !.toDelete = FALSE]]
    BY <1>8 DEF ReloadKeep
  <2>3. ent' \in [Index -> Entry]
    BY <2>1, <2>2, EntryUpdates, ZenonT(40)
  <2> QED BY <1>8, <2>3 DEF ReloadKeep
<1>9. CASE ReloadAdd
  BY <1>9, EntryTypes, StartTypes DEF ReloadAdd, Entry
<1>10. CASE ReloadRt
  <2>1. ask[Main] \in Index
    BY <1>10 DEF ReloadRt, Names
  <2>2. ent' \in [Index -> Entry]
    BY <1>10, <2>1, StartTypes DEF ReloadRt
  <2> QED BY <1>10, <2>2 DEF ReloadRt
<1>11. CASE ScanStart
  BY <1>11, EntryTypes, StartTypes DEF ScanStart, RotateStart, Entry
<1>12. CASE ScanIndex
  BY <1>12, EntryTypes, StartTypes DEF ScanIndex, Entry
<1>13. CASE ScanDone
  BY <1>13, EntryTypes, StartTypes DEF ScanDone, Dec, Entry
<1> QED BY <1>1, <1>2, <1>3, <1>4, <1>5, <1>6, <1>7, <1>8, <1>9, <1>10, <1>11, <1>12, <1>13 DEF MainStep

LEMMA RotatorThreadTypes ==
  ASSUME EntryInv, TypeInv, RotatorStep
  PROVE  ThreadTypes' /\ Names'
<1> USE DEF TypeInv, ThreadTypes, Names, PcSet
<1>1. CASE RotPop
  <2>1. queue \in Seq(Index) /\ queue # <<>>
    BY <1>1 DEF RotPop, OtherTypes
  <2>2. queue[Len(queue)] \in Index
    BY <2>1
  <2> QED BY <1>1, <2>2 DEF RotPop, mainVars
<1>2. CASE RotPreread
  BY <1>2 DEF RotPreread, mainVars
<1>3. CASE RotLook("look", "settings")
  BY <1>3 DEF RotLook, mainVars
<1>4. CASE RotSettings
  BY <1>4 DEF RotSettings, mainVars
<1>5. CASE RotLoad
  BY <1>5 DEF RotLoad, mainVars
<1>6. CASE RotLook("find", "entry")
  BY <1>6 DEF RotLook, mainVars
<1>7. CASE RotEntry
  BY <1>7 DEF RotEntry, mainVars
<1>8. CASE RotOld
  BY <1>8 DEF RotOld, RotRename, mainVars
<1>9. CASE RotNew
  BY <1>9 DEF RotNew, RotRename, mainVars
<1>10. CASE RotBack
  BY <1>10 DEF RotBack, mainVars
<1>11. CASE RotSwap
  BY <1>11 DEF RotSwap, mainVars
<1>12. CASE RotUnlock
  BY <1>12 DEF RotUnlock, mainVars
<1>13. CASE RotDone
  BY <1>13 DEF RotDone, Dec, mainVars
<1> QED BY <1>1, <1>2, <1>3, <1>4, <1>5, <1>6, <1>7, <1>8, <1>9, <1>10, <1>11, <1>12, <1>13 DEF RotatorStep

LEMMA RotatorOtherTypes ==
  ASSUME EntryInv, TypeInv, RotatorStep
  PROVE  OtherTypes'
<1> USE DEF TypeInv, OtherTypes, rotVars, rotateVars, bounds, mainVars
<1>1. CASE RotPop
  <2>1. SubSeq(queue, 1, Len(queue) - 1) \in Seq(Index)
    BY <1>1 DEF RotPop
  <2> QED BY <1>1, <2>1 DEF RotPop
<1>2. CASE RotPreread
  BY <1>2 DEF RotPreread, Names
<1>3. CASE RotLook("look", "settings")
  BY <1>3, BoundAssumption DEF RotLook
<1>4. CASE RotSettings
  BY <1>4, BoundAssumption DEF RotSettings
<1>5. CASE RotLoad
  BY <1>5, BoundAssumption DEF RotLoad
<1>6. CASE RotLook("find", "entry")
  BY <1>6, BoundAssumption DEF RotLook
<1>7. CASE RotEntry
  BY <1>7, BoundAssumption DEF RotEntry
<1>8. CASE RotOld
  BY <1>8, BoundAssumption DEF RotOld, RotRename
<1>9. CASE RotNew
  BY <1>9, BoundAssumption DEF RotNew, RotRename
<1>10. CASE RotBack
  BY <1>10, BoundAssumption DEF RotBack
<1>11. CASE RotSwap
  BY <1>11, BoundAssumption DEF RotSwap
<1>12. CASE RotUnlock
  BY <1>12, BoundAssumption DEF RotUnlock
<1>13. CASE RotDone
  BY <1>13, BoundAssumption DEF RotDone, Dec
<1> QED BY <1>1, <1>2, <1>3, <1>4, <1>5, <1>6, <1>7, <1>8, <1>9, <1>10, <1>11, <1>12, <1>13 DEF RotatorStep

LEMMA RotatorDataTypes ==
  ASSUME EntryInv, TypeInv, RotatorStep
  PROVE  DataTypes'
<1> USE DEF TypeInv, DataTypes, bounds, rotVars
<1>1. CASE RotPop
  BY <1>1, EntryTypes DEF RotPop, mainVars
<1>2. CASE RotPreread
  BY <1>2, EntryTypes DEF RotPreread, mainVars
<1>3. CASE RotLook("look", "settings")
  BY <1>3, EntryTypes DEF RotLook, mainVars
<1>4. CASE RotSettings
  BY <1>4, EntryTypes DEF RotSettings, mainVars
<1>5. CASE RotLoad
  <2>1. ask[Rotator] \in Index
    BY <1>5 DEF RotLoad, Names
  <2>2. Load(files[ask[Rotator]].new) \in Version \cup {Mixed}
    BY <2>1, LoadType DEF Files
  <2> QED BY <1>5, <2>2 DEF RotLoad
<1>6. CASE RotLook("find", "entry")
  BY <1>6, EntryTypes DEF RotLook, mainVars
<1>7. CASE RotEntry
  <2>1. ext' \in 1..NExt
    BY <1>7, BoundAssumption DEF RotEntry
  <2> QED BY <1>7, <2>1 DEF RotEntry
<1>8. CASE RotOld
  <2> DEFINE i == ask[Rotator]
  <2>1. i \in Index /\ ext \in 1..NExt /\ files[i] \in Files /\ ext + 1 > ext
    BY <1>8 DEF RotOld, Names
  <2>2. /\ Renamed(files[i], "cur", "old", ext) \in Files
        /\ RolledBack(files[i], "cur", "old", ext) \in Files
    BY <2>1, RenameTypes
  <2> HIDE DEF i
  <2>3. files' \in [Index -> Files]
    BY <1>8, <2>1, <2>2 DEF RotOld, RotRename, i
  <2>4. ext' \in 1..NExt
    BY <1>8, <2>1, BoundAssumption DEF RotOld, RotRename, i
  <2>5. PICK m \in BOOLEAN : ent' = [ent EXCEPT ![i] = [ent[i] EXCEPT !.moved = m]]
    BY <1>8 DEF RotOld, i
  <2>6. ent' \in [Index -> Entry]
    BY <2>1, <2>5, EntryUpdates, ZenonT(40)
  <2> QED BY <1>8, <2>3, <2>4, <2>6 DEF RotOld
<1>9. CASE RotNew
  <2> DEFINE i == ask[Rotator]
  <2>1. i \in Index /\ ext \in 1..NExt /\ files[i] \in Files /\ ext + 1 > ext
    BY <1>9 DEF RotNew, Names
  <2>2. /\ Renamed(files[i], "new", "cur", ext) \in Files
        /\ RolledBack(files[i], "new", "cur", ext) \in Files
    BY <2>1, RenameTypes
  <2> HIDE DEF i
  <2>3. files' \in [Index -> Files]
    BY <1>9, <2>1, <2>2 DEF RotNew, RotRename, i
  <2>4. ext' \in 1..NExt
    BY <1>9, <2>1, BoundAssumption DEF RotNew, RotRename, i
  <2> QED BY <1>9, <2>3, <2>4 DEF RotNew
<1>10. CASE RotBack
  <2> DEFINE i == ask[Rotator]
  <2>1. i \in Index /\ files[i] \in Files
    BY <1>10 DEF RotBack, Names
  <2>2. [files[i] EXCEPT !.cur = files[i].old, !.old = NoFiles] \in Files
    BY <2>1, EntryTypes DEF Files
  <2> HIDE DEF i
  <2>3. /\ \/ files' = [files EXCEPT ![i] = [files[i] EXCEPT !.cur = files[i].old, !.old = NoFiles]]
           \/ files' = files
        /\ \/ ent' = [ent EXCEPT ![i] = [ent[i] EXCEPT !.moved = FALSE]]
           \/ ent' = [ent EXCEPT ![i] = [ent[i] EXCEPT !.enabled = FALSE]]
    BY <1>10, <2>1, ZenonT(40) DEF RotBack, i
  <2>4. files' \in [Index -> Files]
    BY <2>1, <2>2, <2>3
  <2>5. ent' \in [Index -> Entry]
    <3>1. \A e \in Entry : [e EXCEPT !.moved = FALSE] \in Entry /\ [e EXCEPT !.enabled = FALSE] \in Entry
      BY DEF Entry
    <3>2. CASE ent' = [ent EXCEPT ![i] = [ent[i] EXCEPT !.moved = FALSE]]
      BY <2>1, <3>1, <3>2
    <3>3. CASE ent' = [ent EXCEPT ![i] = [ent[i] EXCEPT !.enabled = FALSE]]
      BY <2>1, <3>1, <3>3
    <3> QED BY <2>3, <3>2, <3>3
  <2> QED BY <1>10, <2>4, <2>5 DEF RotBack
<1>11. CASE RotSwap
  <2> DEFINE i == ask[Rotator]
  <2>1. i \in Index /\ files[i] \in Files
    BY <1>11 DEF RotSwap, Names
  <2> HIDE DEF i
  <2>2. /\ files' = files \/ files' = [files EXCEPT ![i] = [files[i] EXCEPT !.old = NoFiles]]
        /\ ent' = [ent EXCEPT ![i] = [ent[i] EXCEPT !.ver = loaded, !.enabled = TRUE,
                                       !.onlyNew = FALSE, !.moved = FALSE]]
    BY <1>11, <2>1 DEF RotSwap, i
  <2>3. [files[i] EXCEPT !.old = NoFiles] \in Files
    BY <2>1, EntryTypes DEF Files
  <2>4. files' \in [Index -> Files]
    BY <2>1, <2>2, <2>3
  <2>5. ent' \in [Index -> Entry]
    BY <2>1, <2>2, EntryUpdates
  <2> QED BY <1>11, <2>4, <2>5 DEF RotSwap
<1>12. CASE RotUnlock
  BY <1>12, EntryTypes DEF RotUnlock, mainVars
<1>13. CASE RotDone
  BY <1>13, EntryTypes DEF RotDone, Dec, mainVars
<1> QED BY <1>1, <1>2, <1>3, <1>4, <1>5, <1>6, <1>7, <1>8, <1>9, <1>10, <1>11, <1>12, <1>13 DEF RotatorStep

LEMMA SessionThreadTypes ==
  ASSUME EntryInv, TypeInv, NEW t \in Session, SessionBegin(t) \/ SessionStep(t)
  PROVE  ThreadTypes' /\ Names'
<1> USE DEF TypeInv, ThreadTypes, Names, PcSet
<1>1. CASE SearchBegin(t)
  BY <1>1 DEF SearchBegin
<1>2. CASE CheckLook(t)
  BY <1>2 DEF CheckLook
<1>3. CASE CheckLock(t)
  BY <1>3 DEF CheckLock
<1>4. CASE CheckRelease(t)
  BY <1>4 DEF CheckRelease
<1>5. CASE CheckDone(t)
  BY <1>5 DEF CheckDone
<1>6. CASE RunLook(t)
  BY <1>6 DEF RunLook
<1>7. CASE RunLock(t)
  <2>1. /\ pc[t] = "run_wait" /\ pc' = [pc EXCEPT ![t] = "run"]
        /\ got' = [got EXCEPT ![t][ask[t]] = ent[ask[t]].ver]
        /\ todo' = [todo EXCEPT ![t] = @ \ {ask[t]}]
        /\ UNCHANGED <<ask, keep, args>>
    BY <1>7 DEF RunLock
  <2>2. ask[t] \in Index /\ ent[ask[t]].ver \in Version \cup {Mixed}
    BY <2>1 DEF DataTypes, Entry
  <2> HIDE DEF EntryInv
  <2>3. got' \in [Thread -> [Index -> Version \cup {Mixed}]]
    BY <2>1, <2>2
  <2> QED BY <2>1, <2>3
<1>8. CASE RunDone(t)
  BY <1>8 DEF RunDone
<1>9. CASE RunRelease(t)
  <2>1. PICK i \in Index : got' = [got EXCEPT ![t][i] = 0]
    BY <1>9 DEF RunRelease, Reads
  <2>2. got' \in [Thread -> [Index -> Version \cup {Mixed}]]
    BY <2>1, EntryTypes
  <2> QED BY <1>9, <2>2 DEF RunRelease
<1>10. CASE SearchEnd(t)
  BY <1>10 DEF SearchEnd, Reads
<1>11. CASE UpdateLook(t)
  BY <1>11 DEF UpdateLook
<1>12. CASE UpdateLock(t)
  BY <1>12 DEF UpdateLock
<1>13. CASE UpdateEnd(t)
  BY <1>13 DEF UpdateEnd
<1>14. CASE AttachBegin(t)
  BY <1>14 DEF AttachBegin
<1>15. CASE AttachLook(t, 1, "att_from", "att_from_wait", "att_to")
  BY <1>15 DEF AttachLook
<1>16. CASE AttachLock(t, "att_from_wait", "att_to")
  BY <1>16 DEF AttachLock
<1>17. CASE AttachLook(t, 2, "att_to", "att_to_wait", "attach")
  BY <1>17 DEF AttachLook
<1>18. CASE AttachLock(t, "att_to_wait", "attach")
  BY <1>18, SMTT(30) DEF AttachLock
<1>19. CASE AttachEnd(t)
  BY <1>19 DEF AttachEnd, Attachable
<1> QED BY <1>1, <1>2, <1>3, <1>4, <1>5, <1>6, <1>7, <1>8, <1>9, <1>10, <1>11, <1>12, <1>13, <1>14, <1>15, <1>16, <1>17, <1>18, <1>19
        DEF SessionBegin, SessionStep, AttachStep

LEMMA SessionOtherTypes ==
  ASSUME EntryInv, TypeInv, NEW t \in Session, SessionBegin(t) \/ SessionStep(t)
  PROVE  OtherTypes'
<1> USE DEF TypeInv, OtherTypes, rotVars, rotateVars, bounds, mainVars
<1>1. CASE SearchBegin(t)
  BY <1>1, BoundAssumption DEF SearchBegin
<1>2. CASE CheckLook(t)
  BY <1>2, BoundAssumption DEF CheckLook
<1>3. CASE CheckLock(t)
  BY <1>3, BoundAssumption DEF CheckLock
<1>4. CASE CheckRelease(t)
  BY <1>4, BoundAssumption DEF CheckRelease
<1>5. CASE CheckDone(t)
  BY <1>5, BoundAssumption DEF CheckDone
<1>6. CASE RunLook(t)
  BY <1>6, BoundAssumption DEF RunLook
<1>7. CASE RunLock(t)
  BY <1>7, BoundAssumption DEF RunLock
<1>8. CASE RunDone(t)
  BY <1>8, BoundAssumption DEF RunDone
<1>9. CASE RunRelease(t)
  BY <1>9, BoundAssumption DEF RunRelease, Reads
<1>10. CASE SearchEnd(t)
  BY <1>10, BoundAssumption DEF SearchEnd, Reads
<1>11. CASE UpdateLook(t)
  BY <1>11, BoundAssumption DEF UpdateLook
<1>12. CASE UpdateLock(t)
  BY <1>12, BoundAssumption DEF UpdateLock
<1>13. CASE UpdateEnd(t)
  BY <1>13, BoundAssumption DEF UpdateEnd
<1>14. CASE AttachBegin(t)
  BY <1>14, BoundAssumption DEF AttachBegin
<1>15. CASE AttachLook(t, 1, "att_from", "att_from_wait", "att_to")
  BY <1>15, BoundAssumption DEF AttachLook
<1>16. CASE AttachLock(t, "att_from_wait", "att_to")
  BY <1>16, BoundAssumption DEF AttachLock
<1>17. CASE AttachLook(t, 2, "att_to", "att_to_wait", "attach")
  BY <1>17, BoundAssumption DEF AttachLook
<1>18. CASE AttachLock(t, "att_to_wait", "attach")
  BY <1>18, BoundAssumption, SMTT(30) DEF AttachLock
<1>19. CASE AttachEnd(t)
  BY <1>19, BoundAssumption DEF AttachEnd, Attachable
<1> QED BY <1>1, <1>2, <1>3, <1>4, <1>5, <1>6, <1>7, <1>8, <1>9, <1>10, <1>11, <1>12, <1>13, <1>14, <1>15, <1>16, <1>17, <1>18, <1>19
        DEF SessionBegin, SessionStep, AttachStep

LEMMA SessionDataTypes ==
  ASSUME EntryInv, TypeInv, NEW t \in Session, SessionBegin(t) \/ SessionStep(t)
  PROVE  DataTypes'
<1> USE DEF TypeInv, DataTypes, bounds, rotVars
<1>1. CASE SearchBegin(t)
  BY <1>1 DEF SearchBegin
<1>2. CASE CheckLook(t)
  BY <1>2 DEF CheckLook
<1>3. CASE CheckLock(t)
  BY <1>3 DEF CheckLock
<1>4. CASE CheckRelease(t)
  BY <1>4 DEF CheckRelease
<1>5. CASE CheckDone(t)
  BY <1>5 DEF CheckDone
<1>6. CASE RunLook(t)
  BY <1>6 DEF RunLook
<1>7. CASE RunLock(t)
  BY <1>7 DEF RunLock
<1>8. CASE RunDone(t)
  BY <1>8 DEF RunDone
<1>9. CASE RunRelease(t)
  BY <1>9 DEF RunRelease, Reads
<1>10. CASE SearchEnd(t)
  BY <1>10 DEF SearchEnd, Reads
<1>11. CASE UpdateLook(t)
  BY <1>11 DEF UpdateLook
<1>12. CASE UpdateLock(t)
  BY <1>12 DEF UpdateLock
<1>13. CASE UpdateEnd(t)
  BY <1>13 DEF UpdateEnd
<1>14. CASE AttachBegin(t)
  BY <1>14 DEF AttachBegin
<1>15. CASE AttachLook(t, 1, "att_from", "att_from_wait", "att_to")
  BY <1>15 DEF AttachLook
<1>16. CASE AttachLock(t, "att_from_wait", "att_to")
  BY <1>16 DEF AttachLock
<1>17. CASE AttachLook(t, 2, "att_to", "att_to_wait", "attach")
  BY <1>17 DEF AttachLook
<1>18. CASE AttachLock(t, "att_to_wait", "attach")
  BY <1>18, SMTT(30) DEF AttachLock
<1>19. CASE AttachEnd(t)
  <2> DEFINE a == args[t][1]
             b == args[t][2]
  <2>1. a \in Index /\ b \in Index
    <3>1. args[t] \in Attaches
      BY <1>19, ZenonT(40) DEF AttachEnd, Names
    <3> QED BY <3>1, SMTT(30)
  <2> HIDE DEF a, b
  <2>2. \/ UNCHANGED <<ent, files>>
        \/ /\ a # b
           /\ ent' = [ent EXCEPT ![b] = [ent[b] EXCEPT !.ver = ent[a].ver],
                                 ![a] = [ent[a] EXCEPT !.ver = 0, !.enabled = FALSE]]
           /\ files' = [files EXCEPT ![b] = [files[b] EXCEPT !.cur = files[a].cur],
                                     ![a] = [files[a] EXCEPT !.cur = NoFiles]]
    <3>1. CASE UNCHANGED <<ent, files>>
      BY <3>1
    <3>2. CASE /\ Attachable(t)
               /\ ent' = [ent EXCEPT ![b].ver = ent[a].ver, ![a].ver = 0, ![a].enabled = FALSE]
               /\ files' = [files EXCEPT ![b].cur = files[a].cur, ![a].cur = NoFiles]
      <4>1. a # b
        BY <3>2 DEF Attachable, a, b
      <4> QED BY <3>2, <4>1, <2>1, ZenonT(40)
    <3> QED BY <1>19, <3>1, <3>2 DEF AttachEnd, a, b
  <2>3. \A e \in Entry, f \in Entry : /\ [e EXCEPT !.ver = f.ver] \in Entry
                                    /\ [e EXCEPT !.ver = 0, !.enabled = FALSE] \in Entry
    BY EntryTypes DEF Entry
  <2>4. \A e \in Files, f \in Files : /\ [e EXCEPT !.cur = f.cur] \in Files
                                    /\ [e EXCEPT !.cur = NoFiles] \in Files
    BY EntryTypes DEF Files
  <2> DEFINE ea == [ent[a] EXCEPT !.ver = 0, !.enabled = FALSE]
             eb == [ent[b] EXCEPT !.ver = ent[a].ver]
             fa == [files[a] EXCEPT !.cur = NoFiles]
             fb == [files[b] EXCEPT !.cur = files[a].cur]
  <2>7. ea \in Entry /\ eb \in Entry /\ fa \in Files /\ fb \in Files
    <3>1. ent[a] \in Entry /\ ent[b] \in Entry /\ files[a] \in Files /\ files[b] \in Files
      BY <2>1
    <3> QED BY <3>1, <2>3, <2>4
  <2>8. \/ UNCHANGED <<ent, files>>
        \/ ent' = [ent EXCEPT ![b] = eb, ![a] = ea] /\ files' = [files EXCEPT ![b] = fb, ![a] = fa]
    BY <2>2
  <2> HIDE DEF ea, eb, fa, fb
  <2>5. ent' \in [Index -> Entry]
    BY <2>1, <2>7, <2>8
  <2>6. files' \in [Index -> Files]
    BY <2>1, <2>7, <2>8
  <2> QED BY <1>19, <2>5, <2>6 DEF AttachEnd
<1> QED BY <1>1, <1>2, <1>3, <1>4, <1>5, <1>6, <1>7, <1>8, <1>9, <1>10, <1>11, <1>12, <1>13, <1>14, <1>15, <1>16, <1>17, <1>18, <1>19
        DEF SessionBegin, SessionStep, AttachStep

LEMMA OutsideThreadTypes ==
  ASSUME EntryInv, TypeInv, (\E i \in Index \ RtIndex : Build(i)) \/ EditConf \/ Crash
  PROVE  ThreadTypes' /\ Names'
<1> USE DEF TypeInv, ThreadTypes, Names, PcSet
<1>1. CASE \E i \in Index \ RtIndex : Build(i)
  BY <1>1 DEF Build
<1>2. CASE EditConf
  BY <1>2 DEF EditConf
<1>3. CASE Crash
  <2>1. NoVersions \in [Index -> Version \cup {Mixed}]
    BY EntryTypes DEF NoVersions
  <2> QED BY <1>3, <2>1 DEF Crash
<1> QED BY <1>1, <1>2, <1>3

LEMMA OutsideOtherTypes ==
  ASSUME EntryInv, TypeInv, (\E i \in Index \ RtIndex : Build(i)) \/ EditConf \/ Crash
  PROVE  OtherTypes'
<1> USE DEF TypeInv, OtherTypes, rotVars, rotateVars, bounds, mainVars
<1>1. CASE \E i \in Index \ RtIndex : Build(i)
  BY <1>1, BoundAssumption DEF Build
<1>2. CASE EditConf
  BY <1>2, BoundAssumption DEF EditConf
<1>3. CASE Crash
  <2>1. crashes < MaxCrashes /\ crashes' = crashes + 1
    BY <1>3 DEF Crash
  <2>2. crashes' \in 0..MaxCrashes
    BY <2>1, BoundAssumption
  <2>3. queue' \in Seq(Index) /\ count' \in Nat
    BY <1>3 DEF Crash
  <2> QED BY <1>3, <2>2, <2>3 DEF Crash
<1> QED BY <1>1, <1>2, <1>3

LEMMA OutsideDataTypes ==
  ASSUME EntryInv, TypeInv, (\E i \in Index \ RtIndex : Build(i)) \/ EditConf \/ Crash
  PROVE  DataTypes'
<1> USE DEF TypeInv, DataTypes, bounds, rotVars
<1>1. CASE \E i \in Index \ RtIndex : Build(i)
  <2>1. PICK i \in Index \ RtIndex :
          /\ built[i] < MaxBuilds /\ built' = [built EXCEPT ![i] = @ + 1]
          /\ files' = [files EXCEPT ![i].new = [e \in 1..NExt |-> built[i] + 1]]
    BY <1>1 DEF Build
  <2>2. built[i] + 1 \in Version
    BY <2>1, BoundAssumption DEF Version
  <2>3. built' \in [Index -> Version]
    BY <2>1, <2>2
  <2>4. files' \in [Index -> Files]
    <3> DEFINE g == [e \in 1..NExt |-> built[i] + 1]
    <3>1. g \in [1..NExt -> Version]
      BY <2>2
    <3>3. files' = [files EXCEPT ![i] = [files[i] EXCEPT !.new = g]]
      BY <2>1
    <3> HIDE DEF g
    <3>2. [files[i] EXCEPT !.new = g] \in Files
      <4>1. \A f \in Files : [f EXCEPT !.new = g] \in Files
        <5> HIDE DEF EntryInv, TypeInv, DataTypes
        <5> QED BY <3>1 DEF Files
      <4> QED BY <4>1
    <3> QED BY <3>2, <3>3
  <2> QED BY <1>1, <2>3, <2>4 DEF Build
<1>2. CASE EditConf
  BY <1>2 DEF EditConf
<1>3. CASE Crash
  <2>1. files' \in [Index -> Files]
    BY <1>3, StartTypes DEF Crash
  <2>2. ent' \in [Index -> Entry]
    BY <1>3, StartTypes, EntryTypes DEF Crash
  <2>3. loaded' \in Version /\ ext' \in 1..NExt
    BY <1>3, EntryTypes, BoundAssumption DEF Crash
  <2> QED BY <1>3, <2>1, <2>2, <2>3 DEF Crash
<1> QED BY <1>1, <1>2, <1>3

LEMMA TypeStep == EntryInv /\ TypeInv /\ [Next]_vars => TypeInv'
<1> SUFFICES ASSUME EntryInv, TypeInv, [Next]_vars PROVE TypeInv'
  OBVIOUS
<1>1. CASE MainStep
  BY <1>1, MainThreadTypes, MainDataTypes, MainOtherTypes DEF TypeInv
<1>2. CASE RotatorStep
  BY <1>2, RotatorThreadTypes, RotatorDataTypes, RotatorOtherTypes DEF TypeInv
<1>3. CASE \E t \in Session : SessionBegin(t) \/ SessionStep(t)
  BY <1>3, SessionThreadTypes, SessionDataTypes, SessionOtherTypes DEF TypeInv
<1>4. CASE (\E i \in Index \ RtIndex : Build(i)) \/ EditConf \/ Crash
  BY <1>4, OutsideThreadTypes, OutsideDataTypes, OutsideOtherTypes DEF TypeInv
<1>5. CASE UNCHANGED vars
  BY <1>5 DEF vars, TypeInv, ThreadTypes, DataTypes, OtherTypes, Names, rotVars, mainVars,
              rotateVars, bounds
<1> QED BY <1>1, <1>2, <1>3, <1>4, <1>5 DEF Next

LEMMA TypeInvariant == Spec => []TypeInv
BY InitEntry, EntryStep, InitTypes, TypeStep, PTL DEF Spec

\* Every variable keeps its type: names, versions and entries are never those of
\* nothing, whatever fails.
THEOREM ServedTyped == Spec => []TypeOK
<1>1. EntryInv /\ TypeInv => TypeOK
  BY DEF TypeOK, TypeInv, ThreadTypes, DataTypes, OtherTypes
<1> QED BY EntryInvariant, TypeInvariant, <1>1, PTL

-----------------------------------------------------------------------------
(* The files of what is served.                                            *)

Uniform(f) == \A e \in 1..NExt : f[e] = f[1]

\* The files below e have been renamed from g to f.
Moved(f, g, e) == [x \in 1..NExt |-> IF x < e THEN f[x] ELSE g[x]]

\* What an index has in memory is what the files under its name hold, unless
\* the rotation thread is renaming them.
ServedFiles ==
  \A i \in Index :
    /\ ent[i].enabled => ~ent[i].onlyNew /\ (i \notin RtIndex => ent[i].ver # 0)
    /\ ent[i].enabled /\ wr[i] # Rotator => Load(files[i].cur) = ent[i].ver
    /\ i \in RtIndex => \A e \in 1..NExt : files[i].new[e] = 0

Renaming == {"old", "new", "back", "swap", "unlock"}

\* What a rotation has loaded, and where the files that it renames are.
RotatedFiles ==
  LET i == ask[Rotator]  f == files[i]  on == ent[i].enabled  v == ent[i].ver IN
  /\ \A j \in Index : wr[j] = Rotator <=> pc[Rotator] \in Renaming /\ j = i
  /\ pc[Rotator] \in {"find", "entry"} \cup Renaming => i \in Index \ RtIndex
  /\ pc[Rotator] \in {"find", "entry", "old", "new", "back", "swap"} => loaded # 0
  /\ pc[Rotator] \in {"find", "entry", "old", "back"} => Load(f.new) = loaded
  /\ pc[Rotator] = "old" /\ on => Load(Moved(f.old, f.cur, ext)) = v
  /\ pc[Rotator] = "new" => Load(Moved(f.cur, f.new, ext)) = loaded
  /\ pc[Rotator] \in {"new", "back"} /\ on => Load(f.old) = v
  /\ pc[Rotator] = "new" /\ on => ent[i].moved
  /\ pc[Rotator] = "swap" => Load(f.cur) = loaded
  /\ pc[Rotator] = "unlock" /\ on => Load(f.cur) = v

RtUnlocked == pc[Main] = "reload_rt" => ask[Main] \in RtIndex

FilesInv == ServedFiles /\ RotatedFiles /\ RtUnlocked

\* Sets of .new files are whole, and without one the current files are, as long
\* as searchd does not die between two renames of .new files.
WholeSets ==
  /\ \A i \in Index \ RtIndex : pc[Rotator] # "new" \/ ask[Rotator] # i =>
       /\ Uniform(files[i].new)
       /\ files[i].new[1] = 0 => Uniform(files[i].cur)
  /\ \A i \in Index \ RtIndex : ent[i].enabled => ent[i].ver # Mixed
  /\ pc[Rotator] \in {"find", "entry", "old", "new", "back", "swap"} => loaded # Mixed
  /\ pc[Rotator] = "new" => \A e \in 1..NExt : e < ext => files[ask[Rotator]].new[e] = 0

LEMMA LoadSame ==
  ASSUME NEW f, NEW g, \A e \in 1..NExt : f[e] = g[e]
  PROVE  Load(f) = Load(g)
BY BoundAssumption DEF Load

LEMMA LoadWhole ==
  ASSUME NEW f, NEW v
  PROVE  /\ Load(f) = v /\ v # 0 /\ v # Mixed => \A e \in 1..NExt : f[e] = v
         /\ v # 0 /\ (\A e \in 1..NExt : f[e] = v) => Load(f) = v
         /\ (\E e \in 1..NExt : f[e] = 0) => Load(f) = 0
BY BoundAssumption DEF Load

\* A start loads what is, or becomes, the current files.
LEMMA StartupLoads ==
  ASSUME NEW f \in Files
  PROVE  Load(Startup(f).files.cur) = Startup(f).ver
BY DEF Startup

LEMMA StartEntryIs ==
  ASSUME NEW i, NEW f
  PROVE  /\ StartEntry(i, f).ver = Startup(f).ver
         /\ StartEntry(i, f).enabled => Startup(f).ver # 0 \/ i \in RtIndex
         /\ ~StartEntry(i, f).onlyNew
<1> DEFINE v == Startup(f).ver
           e == Startup(f).ver # 0 \/ i \in RtIndex
<1>1. StartEntry(i, f) = [NoEntry EXCEPT !.ver = v, !.enabled = e]
  BY DEF StartEntry
<1>2. v = Startup(f).ver /\ e = (Startup(f).ver # 0 \/ i \in RtIndex)
  OBVIOUS
<1> HIDE DEF v, e
<1>3. StartEntry(i, f).ver = v /\ StartEntry(i, f).enabled = e /\ ~StartEntry(i, f).onlyNew
  BY <1>1 DEF NoEntry, NewEntry
<1> QED BY <1>2, <1>3

LEMMA InitFiles == Init => FilesInv
<1> SUFFICES ASSUME Init PROVE FilesInv
  OBVIOUS
<1>1. \A i \in Index : StartFiles(i) \in Files
  BY EntryTypes, BoundAssumption DEF StartFiles, Files, NoFiles, Version
<1>2. \A i \in Index : \A e \in 1..NExt : files[i].new[e] = 0
  BY DEF Init, StartFiles, NoFiles
<1>3. \A i \in Index : Load(StartFiles(i).new) = 0
  BY BoundAssumption DEF StartFiles, NoFiles, Load
<1>4. \A i \in Index : Startup(StartFiles(i)).ver = Load(StartFiles(i).cur)
  BY <1>3 DEF Startup
<1>5. ServedFiles
  <2> SUFFICES ASSUME NEW i \in Index, ent[i].enabled
               PROVE  /\ ~ent[i].onlyNew /\ (i \notin RtIndex => ent[i].ver # 0)
                      /\ Load(files[i].cur) = ent[i].ver
    BY <1>2 DEF ServedFiles
  <2>1. ent[i] = StartEntry(i, StartFiles(i)) /\ files[i] = StartFiles(i)
    BY DEF Init, NoEntry, NewEntry
  <2> QED BY <2>1, <1>4, StartEntryIs
<1>6. RotatedFiles /\ RtUnlocked
  BY DEF Init, RotatedFiles, RtUnlocked, Renaming
<1> QED BY <1>5, <1>6 DEF FilesInv

\* An entry whose version, switches and files stay, or that the rotation thread
\* does not rename and that is fit to be served.
Fit(i, e, f) ==
  e.enabled => /\ ~e.onlyNew /\ (i \notin RtIndex => e.ver # 0)
               /\ Load(f.cur) = e.ver

SameEntry(e, d) ==
  d.ver = e.ver /\ d.enabled = e.enabled /\ d.onlyNew = e.onlyNew /\ d.moved = e.moved

\* A step of another thread keeps the invariant if it leaves alone what the
\* rotation thread is renaming.
LEMMA OthersKeepFiles ==
  ASSUME FilesInv, UNCHANGED <<loaded, ext>>,
         pc'[Rotator] = pc[Rotator], ask'[Rotator] = ask[Rotator],
         \A i \in Index : wr'[i] = Rotator <=> wr[i] = Rotator,
         \A i \in Index :
           \/ SameEntry(ent[i], ent'[i]) /\ files'[i] = files[i]
           \/ /\ wr[i] # Rotator
              /\ Fit(i, ent'[i], files'[i])
              /\ files'[i].new = files[i].new
  PROVE  ServedFiles' /\ RotatedFiles'
<1>1. ServedFiles'
  BY DEF FilesInv, ServedFiles, Fit, SameEntry
<1>2. RotatedFiles'
  <2> DEFINE i == ask[Rotator]
  <2>1. CASE pc[Rotator] \in Renaming
    <3>1. i \in Index /\ wr[i] = Rotator
      BY <2>1 DEF FilesInv, RotatedFiles
    <3>2. SameEntry(ent[i], ent'[i]) /\ files'[i] = files[i] /\ wr'[i] = Rotator
      BY <3>1
    <3> QED BY <2>1, <3>2 DEF FilesInv, RotatedFiles, SameEntry, Renaming
  <2>2. CASE pc[Rotator] \notin Renaming
    <3>1. pc[Rotator] \in {"find", "entry"} => files'[i].new = files[i].new
      BY DEF FilesInv, RotatedFiles
    <3> QED BY <2>2, <3>1 DEF FilesInv, RotatedFiles, Renaming
  <2> QED BY <2>1, <2>2
<1> QED BY <1>1, <1>2

\* The main loop marks, adds and deletes entries; it enables RT indexes only.
LEMMA MainElse ==
  ASSUME EntryInv, TypeInv, FilesInv, MainStep
  PROVE  /\ RtUnlocked'
         /\ UNCHANGED <<loaded, ext, files, wr>>
         /\ pc'[Rotator] = pc[Rotator] /\ ask'[Rotator] = ask[Rotator]
         /\ \A i \in Index : \/ SameEntry(ent[i], ent'[i])
                           \/ /\ wr[i] # Rotator /\ Fit(i, ent'[i], files[i])
                              /\ i \in RtIndex \/ ~ent'[i].enabled
<1>1. RtUnlocked'
  <2>1. CASE ReloadAdd
    BY <2>1 DEF ReloadAdd, RtUnlocked
  <2>2. CASE ~ReloadAdd
    <3>1. pc'[Main] # "reload_rt"
      BY <2>2, ZenonT(60) DEF MainStep, HeadStep, DeleteLock, DeleteEntry, DeleteDone, RotateBusy, ReloadStart,
         RotateStart, ReloadLook, ReloadKeep, ReloadRt, ScanStart, ScanIndex, ScanDone
    <3> QED BY <3>1 DEF RtUnlocked
  <2> QED BY <2>1, <2>2
<1>2. UNCHANGED <<loaded, ext, files, wr>>
  BY DEF MainStep, HeadStep, DeleteLock, DeleteEntry, DeleteDone, RotateBusy,
         ReloadStart, RotateStart, ReloadLook, ReloadKeep, ReloadAdd, ReloadRt, ScanStart,
         ScanIndex, ScanDone, rotVars
<1>3. pc'[Rotator] = pc[Rotator] /\ ask'[Rotator] = ask[Rotator]
  <2> USE DEF MainStep
  <2>1. pc'[Rotator] = pc[Rotator]
    BY ZenonT(40)
       DEF HeadStep, DeleteLock, DeleteEntry, DeleteDone, RotateBusy, ReloadStart, RotateStart,
       ReloadLook, ReloadKeep, ReloadAdd, ReloadRt, ScanStart, ScanIndex, ScanDone
  <2>2. ask'[Rotator] = ask[Rotator]
    BY ZenonT(40)
       DEF HeadStep, DeleteLock, DeleteEntry, DeleteDone, RotateBusy, ReloadStart, RotateStart,
       ReloadLook, ReloadKeep, ReloadAdd, ReloadRt, ScanStart, ScanIndex, ScanDone
  <2> QED BY <2>1, <2>2
<1>4. \A i \in Index : \/ SameEntry(ent[i], ent'[i])
                       \/ /\ wr[i] # Rotator /\ Fit(i, ent'[i], files[i])
                          /\ i \in RtIndex \/ ~ent'[i].enabled
  <2>1. CASE UNCHANGED ent
    BY <2>1 DEF SameEntry
  <2>2. CASE DeleteEntry
    BY <2>2 DEF DeleteEntry, SameEntry, Fit, NoEntry, NewEntry, TypeInv, DataTypes
  <2>3. CASE ReloadStart
    BY <2>3 DEF ReloadStart, SameEntry, TypeInv, DataTypes, Entry
  <2>4. CASE ReloadKeep
    BY <2>4 DEF ReloadKeep, SameEntry, TypeInv, DataTypes, Entry
  <2>5. CASE ReloadAdd
    <3>1. PICK i \in Index \ served : ent' = [ent EXCEPT ![i] = NewEntry]
      BY <2>5 DEF ReloadAdd, TypeInv, ThreadTypes
    <3>2. wr[i] # Rotator /\ ~NewEntry.enabled
      BY DEF NewEntry
    <3> QED BY <3>1, <3>2 DEF SameEntry, Fit, TypeInv, DataTypes
  <2>6. CASE ReloadRt
    <3> DEFINE j == ask[Main]
    <3>1. j \in RtIndex /\ j \in Index /\ ent' = [ent EXCEPT ![j] = StartEntry(j, files[j])]
      BY <2>6 DEF ReloadRt, FilesInv, RtUnlocked
    <3>2. Load(files[j].new) = 0
      <4>1. files[j].new[1] = 0 /\ 1 \in 1..NExt
        BY <3>1, BoundAssumption DEF FilesInv, ServedFiles
      <4> QED BY <4>1, LoadWhole
    <3>3. Startup(files[j]).ver = Load(files[j].cur)
      BY <3>2 DEF Startup
    <3>4. Fit(j, StartEntry(j, files[j]), files[j])
      BY <3>1, <3>3, StartEntryIs DEF Fit
    <3>5. wr[j] # Rotator
      BY <3>1 DEF FilesInv, RotatedFiles
    <3> QED BY <3>1, <3>4, <3>5 DEF SameEntry, TypeInv, DataTypes
  <2> QED BY <2>1, <2>2, <2>3, <2>4, <2>5, <2>6
          DEF MainStep, HeadStep, DeleteLock, DeleteDone, RotateBusy, ReloadLook, ScanStart,
              ScanIndex, ScanDone
<1> QED BY <1>1, <1>2, <1>3, <1>4

LEMMA MainFiles ==
  ASSUME EntryInv, TypeInv, FilesInv, MainStep
  PROVE  FilesInv'
BY MainElse, OthersKeepFiles DEF FilesInv

\* The rotation thread changes the entry and the files of the index it rotates only.
LEMMA RotatorElse ==
  ASSUME EntryInv, TypeInv, FilesInv, RotatorStep
  PROVE  /\ RtUnlocked'
         /\ \A j \in Index : j # ask[Rotator] \/ pc[Rotator] \notin Renaming =>
              /\ ent'[j] = ent[j] /\ files'[j] = files[j]
         /\ \A j \in Index : j # ask[Rotator] => wr'[j] = wr[j]
<1> USE DEF RtUnlocked, Renaming, TypeInv, DataTypes
<1>0. RtUnlocked
  BY DEF FilesInv
<1>1. CASE RotPop
  BY <1>0, <1>1 DEF RotPop
<1>2. CASE RotPreread
  BY <1>0, <1>2 DEF RotPreread
<1>3. CASE RotLook("look", "settings")
  BY <1>0, <1>3 DEF RotLook
<1>4. CASE RotSettings
  BY <1>0, <1>4 DEF RotSettings
<1>5. CASE RotLoad
  BY <1>0, <1>5 DEF RotLoad
<1>6. CASE RotLook("find", "entry")
  BY <1>0, <1>6 DEF RotLook
<1>7. CASE RotEntry
  BY <1>0, <1>7 DEF RotEntry
<1>8. CASE RotOld
  BY <1>0, <1>8 DEF RotOld, RotRename
<1>9. CASE RotNew
  BY <1>0, <1>9 DEF RotNew, RotRename
<1>10. CASE RotBack
  BY <1>0, <1>10 DEF RotBack
<1>11. CASE RotSwap
  BY <1>0, <1>11 DEF RotSwap
<1>12. CASE RotUnlock
  BY <1>0, <1>12 DEF RotUnlock
<1>13. CASE RotDone
  BY <1>0, <1>13 DEF RotDone
<1> QED BY <1>1, <1>2, <1>3, <1>4, <1>5, <1>6, <1>7, <1>8, <1>9, <1>10, <1>11, <1>12, <1>13
        DEF RotatorStep

\* Before it has the write lock it changes no entry and no file.
LEMMA RotatorBefore ==
  ASSUME EntryInv, TypeInv, FilesInv, UNCHANGED <<ent, files, wr>>, pc[Rotator] \notin Renaming,
         RotatedFiles'
  PROVE  ServedFiles'
BY DEF FilesInv, ServedFiles, RotatedFiles

\* Once it has it, only that entry has to be looked at.
LEMMA RotatorOwn ==
  ASSUME EntryInv, TypeInv, FilesInv, pc[Rotator] \in Renaming,
         ask' = ask,
         \A j \in Index \ {ask[Rotator]} : /\ ent'[j] = ent[j] /\ files'[j] = files[j]
                                           /\ wr'[j] = wr[j],
         LET e == ent'[ask[Rotator]] IN e.enabled => ~e.onlyNew /\ e.ver # 0,
         wr'[ask[Rotator]] = Rotator
  PROVE  ServedFiles'
<1>1. ask[Rotator] \in Index \ RtIndex
  BY DEF FilesInv, RotatedFiles
<1> QED BY <1>1 DEF FilesInv, ServedFiles

LEMMA RenamedFiles ==
  ASSUME NEW f \in Files, NEW a \in {"cur", "old", "new"}, NEW b \in {"cur", "old", "new"}, a # b,
         NEW e \in 1..NExt
  PROVE  /\ \A x \in 1..NExt :
              /\ Renamed(f, a, b, e)[b][x] = IF x = e THEN f[a][e] ELSE f[b][x]
              /\ Renamed(f, a, b, e)[a][x] = IF x = e THEN 0 ELSE f[a][x]
              /\ RolledBack(f, a, b, e)[a][x] = IF x < e THEN f[b][x] ELSE f[a][x]
              /\ RolledBack(f, a, b, e)[b][x] = IF x < e THEN 0 ELSE f[b][x]
         /\ \A c \in {"cur", "old", "new"} \ {a, b} :
              Renamed(f, a, b, e)[c] = f[c] /\ RolledBack(f, a, b, e)[c] = f[c]
<1>1. /\ f[a] \in [1..NExt -> Version] /\ f[b] \in [1..NExt -> Version]
      /\ DOMAIN f = {"cur", "old", "new"}
  BY DEF Files
<1> DEFINE g == [x \in 1..NExt |-> IF x < e THEN f[b][x] ELSE f[a][x]]
           h == [x \in 1..NExt |-> IF x < e THEN 0 ELSE f[b][x]]
<1>3. RolledBack(f, a, b, e) = [f EXCEPT ![a] = g, ![b] = h]
  BY DEF RolledBack
<1> DEFINE p == [f[b] EXCEPT ![e] = f[a][e]]
           q == [f[a] EXCEPT ![e] = 0]
<1>4. Renamed(f, a, b, e) = [f EXCEPT ![b] = p, ![a] = q]
  BY <1>1 DEF Renamed
<1>5. \A x \in 1..NExt : /\ g[x] = IF x < e THEN f[b][x] ELSE f[a][x]
                         /\ h[x] = IF x < e THEN 0 ELSE f[b][x]
                         /\ p[x] = IF x = e THEN f[a][e] ELSE f[b][x]
                         /\ q[x] = IF x = e THEN 0 ELSE f[a][x]
  BY <1>1
<1> HIDE DEF g, h, p, q
<1>8. /\ Renamed(f, a, b, e)[b] = p /\ Renamed(f, a, b, e)[a] = q
      /\ \A c \in {"cur", "old", "new"} \ {a, b} : Renamed(f, a, b, e)[c] = f[c]
  BY <1>1, <1>4
<1>9. /\ RolledBack(f, a, b, e)[a] = g /\ RolledBack(f, a, b, e)[b] = h
      /\ \A c \in {"cur", "old", "new"} \ {a, b} : RolledBack(f, a, b, e)[c] = f[c]
  BY <1>1, <1>3
<1> QED BY <1>5, <1>8, <1>9

\* A rename, and one that rolls back, in what Moved gives.
LEMMA RenameMoves ==
  ASSUME NEW f \in Files, NEW a \in {"cur", "old", "new"}, NEW b \in {"cur", "old", "new"}, a # b,
         NEW e \in 1..NExt
  PROVE  LET r == Renamed(f, a, b, e)  s == RolledBack(f, a, b, e) IN
         /\ Load(Moved(r[b], r[a], e + 1)) = Load(Moved(f[b], f[a], e))
         /\ e = NExt => Load(r[b]) = Load(Moved(f[b], f[a], e))
         /\ Load(s[a]) = Load(Moved(f[b], f[a], e))
         /\ \A c \in {"cur", "old", "new"} \ {a, b} : r[c] = f[c] /\ s[c] = f[c]
<1> DEFINE r == Renamed(f, a, b, e)
           s == RolledBack(f, a, b, e)
<1>1. f[a] \in [1..NExt -> Version] /\ f[b] \in [1..NExt -> Version]
  BY DEF Files
<1>2. \A x \in 1..NExt : /\ r[b][x] = IF x = e THEN f[a][e] ELSE f[b][x]
                         /\ r[a][x] = IF x = e THEN 0 ELSE f[a][x]
                         /\ s[a][x] = IF x < e THEN f[b][x] ELSE f[a][x]
  BY RenamedFiles, SMTT(30)
<1>3. \A c \in {"cur", "old", "new"} \ {a, b} : r[c] = f[c] /\ s[c] = f[c]
  BY RenamedFiles
<1> HIDE DEF r, s
<1>4. e \in Nat /\ NExt \in Nat /\ e <= NExt /\ \A x \in 1..NExt : x \in Nat /\ x <= NExt
  BY BoundAssumption
<1>5. \A x \in 1..NExt : Moved(r[b], r[a], e + 1)[x] = Moved(f[b], f[a], e)[x]
  BY <1>2, <1>4 DEF Moved
<1>6. e = NExt => \A x \in 1..NExt : r[b][x] = Moved(f[b], f[a], e)[x]
  BY <1>2, <1>4 DEF Moved
<1>7. \A x \in 1..NExt : s[a][x] = Moved(f[b], f[a], e)[x]
  BY <1>2 DEF Moved
<1>8. Load(Moved(r[b], r[a], e + 1)) = Load(Moved(f[b], f[a], e))
  BY <1>5, LoadSame
<1>9. e = NExt => Load(r[b]) = Load(Moved(f[b], f[a], e))
  BY <1>6, LoadSame
<1>10. Load(s[a]) = Load(Moved(f[b], f[a], e))
  BY <1>7, LoadSame
<1> QED BY <1>3, <1>8, <1>9, <1>10 DEF r, s

LEMMA RotatorFiles ==
  ASSUME EntryInv, TypeInv, FilesInv, RotatorStep
  PROVE  FilesInv'
<1> DEFINE i == ask[Rotator]
           f == files[i]
<1> USE DEF Renaming
<1>0. /\ RtUnlocked'
      /\ \A j \in Index : j # i \/ pc[Rotator] \notin Renaming => ent'[j] = ent[j] /\ files'[j] = files[j]
      /\ \A j \in Index : j # i => wr'[j] = wr[j]
  BY RotatorElse
<1>1. ASSUME UNCHANGED <<ent, files, wr>>, pc[Rotator] \notin Renaming, RotatedFiles'
      PROVE  FilesInv'
  BY <1>0, <1>1, RotatorBefore DEF FilesInv
<1>2. ASSUME pc[Rotator] \in Renaming, ask' = ask, wr' = wr,
             LET e == ent'[i] IN e.enabled => ~e.onlyNew /\ e.ver # 0
      PROVE  ServedFiles'
  <2>1. wr[i] = Rotator
    BY <1>2 DEF FilesInv, RotatedFiles
  <2> QED BY <1>0, <1>2, <2>1, RotatorOwn
<1>3. pc[Rotator] \in {"find", "entry"} \cup Renaming => i \in Index \ RtIndex /\ f \in Files
  BY DEF FilesInv, RotatedFiles, TypeInv, DataTypes
<1>4. pc[Rotator] \in Renaming /\ ent[i].enabled => ~ent[i].onlyNew /\ ent[i].ver # 0
  BY <1>3 DEF FilesInv, ServedFiles
<1>5. ext \in 1..NExt /\ ext \in Nat /\ NExt \in Nat
  BY BoundAssumption DEF TypeInv, DataTypes
<1>6. \A g, h : Load(Moved(g, h, 1)) = Load(h)
  <2> SUFFICES ASSUME NEW g, NEW h PROVE Load(Moved(g, h, 1)) = Load(h)
    OBVIOUS
  <2>1. \A x \in 1..NExt : Moved(g, h, 1)[x] = h[x]
    BY <1>5 DEF Moved
  <2> QED BY <2>1, LoadSame
<1>11. CASE RotPop
  <2>1. RotatedFiles'
    BY <1>11 DEF RotPop, FilesInv, RotatedFiles, TypeInv, ThreadTypes
  <2> QED BY <1>1, <1>11, <2>1 DEF RotPop
<1>12. CASE RotPreread
  <2>1. RotatedFiles'
    BY <1>12 DEF RotPreread, FilesInv, RotatedFiles, TypeInv, ThreadTypes
  <2> QED BY <1>1, <1>12, <2>1 DEF RotPreread
<1>13. CASE RotLook("look", "settings")
  <2>1. RotatedFiles'
    BY <1>13 DEF RotLook, FilesInv, RotatedFiles, TypeInv, ThreadTypes
  <2> QED BY <1>1, <1>13, <2>1 DEF RotLook
<1>14. CASE RotSettings
  <2>1. RotatedFiles'
    BY <1>14 DEF RotSettings, FilesInv, RotatedFiles, TypeInv, ThreadTypes
  <2> QED BY <1>1, <1>14, <2>1 DEF RotSettings
<1>15. CASE RotLoad
  <2>1. pc[Rotator] = "load" /\ i \in Index /\ UNCHANGED <<ask, wr, files, ent>>
    BY <1>15 DEF RotLoad, TypeInv, Names
  <2>2. CASE pc'[Rotator] = "done"
    <3>1. RotatedFiles'
      BY <2>1, <2>2 DEF FilesInv, RotatedFiles
    <3> QED BY <1>1, <2>1, <3>1
  <2>3. CASE pc'[Rotator] = "find" /\ Load(f.new) # 0 /\ loaded' = Load(f.new)
    <3>1. i \notin RtIndex
      <4>1. i \in RtIndex => f.new[1] = 0 /\ 1 \in 1..NExt
        BY <2>1, <1>5 DEF FilesInv, ServedFiles
      <4> QED BY <2>3, <4>1, LoadWhole
    <3>2. RotatedFiles'
      BY <2>1, <2>3, <3>1 DEF FilesInv, RotatedFiles
    <3> QED BY <1>1, <2>1, <3>2
  <2> QED BY <1>15, <2>2, <2>3 DEF RotLoad, TypeInv, ThreadTypes
<1>16. CASE RotLook("find", "entry")
  <2>1. /\ pc[Rotator] = "find" /\ UNCHANGED <<ent, files, wr, loaded>>
        /\ ask'[Rotator] = ask[Rotator] /\ pc'[Rotator] \in {"entry", "done"}
    BY <1>16 DEF RotLook, TypeInv, ThreadTypes, rotVars
  <2>2. RotatedFiles'
    BY <2>1 DEF FilesInv, RotatedFiles
  <2> QED BY <1>1, <2>1, <2>2
<1>17. CASE RotEntry
  <2>1. /\ pc[Rotator] = "entry" /\ CanWrite(i) /\ UNCHANGED <<ask, files, ent, loaded>>
        /\ ext' = 1 /\ i \in Index \ RtIndex
    BY <1>3, <1>17 DEF RotEntry
  <2>2. CASE wr' = wr /\ pc'[Rotator] = "done"
    <3>1. RotatedFiles'
      BY <2>1, <2>2 DEF FilesInv, RotatedFiles
    <3> QED BY <1>1, <2>1, <2>2, <3>1
  <2>3. CASE /\ wr' = [wr EXCEPT ![i] = Rotator]
             /\ pc'[Rotator] = IF ent[i].onlyNew \/ f.cur[1] = 0 THEN "new" ELSE "old"
    <3>1. ent[i].enabled => /\ ~ent[i].onlyNew /\ ent[i].ver # 0 /\ Load(f.cur) = ent[i].ver
      BY <2>1 DEF FilesInv, ServedFiles
    <3>2. ent[i].enabled => pc'[Rotator] = "old"
      BY <2>3, <3>1, <1>5, LoadWhole, SMTT(30)
    <3>3. ServedFiles'
      BY <2>1, <2>3 DEF FilesInv, ServedFiles
    <3>4. RotatedFiles'
      BY <2>1, <2>3, <3>1, <3>2, <1>6 DEF FilesInv, RotatedFiles
    <3> QED BY <1>0, <3>3, <3>4 DEF FilesInv
  <2> QED BY <1>17, <2>2, <2>3 DEF RotEntry, TypeInv, ThreadTypes
<1>18. CASE RotOld
  <2>1. /\ pc[Rotator] = "old" /\ UNCHANGED <<ask, wr, loaded>> /\ i \in Index \ RtIndex /\ f \in Files
        /\ ent' = [ent EXCEPT ![i].moved = (pc'[Rotator] = "new")]
    BY <1>3, <1>18 DEF RotOld
  <2>2. /\ ent'[i].enabled = ent[i].enabled /\ ent'[i].ver = ent[i].ver
        /\ ent'[i].onlyNew = ent[i].onlyNew /\ ent'[i].moved = (pc'[Rotator] = "new")
    BY <2>1 DEF TypeInv, DataTypes, Entry
  <2>3. ServedFiles'
    BY <1>2, <1>4, <2>1, <2>2
  <2>4. Load(f.new) = loaded /\ loaded # 0 /\ (ent[i].enabled => Load(Moved(f.old, f.cur, ext)) = ent[i].ver)
    BY <2>1 DEF FilesInv, RotatedFiles
  <2>5. /\ Load(Moved(Renamed(f, "cur", "old", ext).old, Renamed(f, "cur", "old", ext).cur, ext + 1))
             = Load(Moved(f.old, f.cur, ext))
        /\ ext = NExt => Load(Renamed(f, "cur", "old", ext).old) = Load(Moved(f.old, f.cur, ext))
        /\ Load(RolledBack(f, "cur", "old", ext).cur) = Load(Moved(f.old, f.cur, ext))
        /\ Renamed(f, "cur", "old", ext).new = f.new /\ RolledBack(f, "cur", "old", ext).new = f.new
    BY <2>1, <1>5, RenameMoves
  <2>6. CASE /\ files'[i] = Renamed(f, "cur", "old", ext) /\ ext < NExt /\ ext' = ext + 1
             /\ pc'[Rotator] = "old"
    <3>1. RotatedFiles'
      BY <2>1, <2>2, <2>4, <2>5, <2>6 DEF FilesInv, RotatedFiles
    <3> QED BY <1>0, <2>3, <3>1 DEF FilesInv
  <2>7. CASE /\ files'[i] = Renamed(f, "cur", "old", ext) /\ ext = NExt /\ ext' = 1
             /\ pc'[Rotator] = "new"
    <3>1. Load(Moved(files'[i].cur, files'[i].new, 1)) = loaded
      BY <2>4, <2>5, <2>7, <1>6
    <3>2. RotatedFiles'
      <4>1. /\ ent'[i].enabled => Load(files'[i].old) = ent'[i].ver
            /\ ent'[i].moved /\ ext' = 1 /\ wr' = wr /\ ask' = ask /\ loaded' = loaded
            /\ pc'[Rotator] = "new" /\ loaded # 0 /\ i \in Index \ RtIndex
        BY <2>1, <2>2, <2>4, <2>5, <2>7, ZenonT(40)
      <4>2. \A j \in Index : wr[j] = Rotator <=> j = i
        BY <2>1 DEF FilesInv, RotatedFiles
      <4> QED BY <3>1, <4>1, <4>2 DEF RotatedFiles
    <3> QED BY <1>0, <2>3, <3>2 DEF FilesInv
  <2>8. CASE files'[i] = RolledBack(f, "cur", "old", ext) /\ pc'[Rotator] = "unlock"
    <3>1. RotatedFiles'
      BY <2>1, <2>2, <2>4, <2>5, <2>8 DEF FilesInv, RotatedFiles
    <3> QED BY <1>0, <2>3, <3>1 DEF FilesInv
  <2>9. \/ /\ files' = [files EXCEPT ![i] = Renamed(f, "cur", "old", ext)]
           /\ \/ ext < NExt /\ ext' = ext + 1 /\ pc' = pc
              \/ ~(ext < NExt) /\ ext' = 1 /\ pc' = [pc EXCEPT ![Rotator] = "new"]
        \/ /\ files' = [files EXCEPT ![i] = RolledBack(f, "cur", "old", ext)]
           /\ pc' = [pc EXCEPT ![Rotator] = "unlock"]
    BY <1>18 DEF RotOld, RotRename
  <2>10. files \in [Index -> Files] /\ pc \in [Thread -> PcSet] /\ (~(ext < NExt) => ext = NExt)
    BY <1>5 DEF TypeInv, DataTypes, ThreadTypes
  <2> HIDE DEF i, f
  <2> QED BY <2>1, <2>6, <2>7, <2>8, <2>9, <2>10
<1>19. CASE RotNew
  <2>1. /\ pc[Rotator] = "new" /\ UNCHANGED <<ask, wr, loaded, ent>> /\ i \in Index \ RtIndex /\ f \in Files
    BY <1>3, <1>19 DEF RotNew
  <2>3. ServedFiles'
    BY <1>2, <1>4, <2>1
  <2>4. /\ Load(Moved(f.cur, f.new, ext)) = loaded /\ loaded # 0
        /\ ent[i].enabled => Load(f.old) = ent[i].ver /\ ent[i].moved /\ ~ent[i].onlyNew
    BY <1>4, <2>1 DEF FilesInv, RotatedFiles
  <2>5. /\ Load(Moved(Renamed(f, "new", "cur", ext).cur, Renamed(f, "new", "cur", ext).new, ext + 1))
             = Load(Moved(f.cur, f.new, ext))
        /\ ext = NExt => Load(Renamed(f, "new", "cur", ext).cur) = Load(Moved(f.cur, f.new, ext))
        /\ Load(RolledBack(f, "new", "cur", ext).new) = Load(Moved(f.cur, f.new, ext))
        /\ Renamed(f, "new", "cur", ext).old = f.old /\ RolledBack(f, "new", "cur", ext).old = f.old
    BY <2>1, <1>5, RenameMoves
  <2>6. CASE /\ files'[i] = Renamed(f, "new", "cur", ext) /\ ext < NExt /\ ext' = ext + 1
             /\ pc'[Rotator] = "new"
    <3>1. RotatedFiles'
      BY <2>1, <2>4, <2>5, <2>6 DEF FilesInv, RotatedFiles
    <3> QED BY <1>0, <2>3, <3>1 DEF FilesInv
  <2>7. CASE /\ files'[i] = Renamed(f, "new", "cur", ext) /\ ext = NExt /\ ext' = 1
             /\ pc'[Rotator] = "swap"
    <3>1. RotatedFiles'
      BY <2>1, <2>4, <2>5, <2>7 DEF FilesInv, RotatedFiles
    <3> QED BY <1>0, <2>3, <3>1 DEF FilesInv
  <2>8. CASE /\ files'[i] = RolledBack(f, "new", "cur", ext)
             /\ pc'[Rotator] = IF ent[i].onlyNew \/ ~ent[i].moved THEN "unlock" ELSE "back"
    <3>1. RotatedFiles'
      BY <2>1, <2>4, <2>5, <2>8 DEF FilesInv, RotatedFiles
    <3> QED BY <1>0, <2>3, <3>1 DEF FilesInv
  <2>9. \/ /\ files' = [files EXCEPT ![i] = Renamed(f, "new", "cur", ext)]
           /\ \/ ext < NExt /\ ext' = ext + 1 /\ pc' = pc
              \/ ~(ext < NExt) /\ ext' = 1 /\ pc' = [pc EXCEPT ![Rotator] = "swap"]
        \/ /\ files' = [files EXCEPT ![i] = RolledBack(f, "new", "cur", ext)]
           /\ pc' = [pc EXCEPT ![Rotator] = IF ent[i].onlyNew \/ ~ent[i].moved THEN "unlock" ELSE "back"]
    BY <1>19 DEF RotNew, RotRename
  <2>10. files \in [Index -> Files] /\ pc \in [Thread -> PcSet] /\ (~(ext < NExt) => ext = NExt)
    BY <1>5 DEF TypeInv, DataTypes, ThreadTypes
  <2> HIDE DEF i, f
  <2> QED BY <2>1, <2>6, <2>7, <2>8, <2>9, <2>10
<1>20. CASE RotBack
  <2>1. /\ pc[Rotator] = "back" /\ UNCHANGED <<ask, wr, loaded>> /\ i \in Index \ RtIndex
        /\ pc'[Rotator] = "unlock"
    <3>1. pc[Rotator] = "back" /\ UNCHANGED <<ask, wr, loaded>> /\ pc' = [pc EXCEPT ![Rotator] = "unlock"]
      BY <1>20 DEF RotBack, rotVars
    <3> QED BY <1>3, <3>1
  <2>2. \/ /\ files'[i].cur = f.old
           /\ ent'[i].enabled = ent[i].enabled /\ ent'[i].ver = ent[i].ver
           /\ ent'[i].onlyNew = ent[i].onlyNew
        \/ ~ent'[i].enabled
    BY <1>20, <2>1 DEF RotBack, TypeInv, DataTypes, Entry, Files
  <2>3. ServedFiles'
    BY <1>2, <1>4, <2>1, <2>2
  <2>4. RotatedFiles'
    BY <2>1, <2>2 DEF FilesInv, RotatedFiles
  <2> QED BY <1>0, <2>3, <2>4 DEF FilesInv
<1>21. CASE RotSwap
  <2>1. /\ pc[Rotator] = "swap" /\ UNCHANGED <<ask, wr, loaded>> /\ i \in Index \ RtIndex
        /\ pc'[Rotator] = "unlock"
    <3>1. pc[Rotator] = "swap" /\ UNCHANGED <<ask, wr, loaded>> /\ pc' = [pc EXCEPT ![Rotator] = "unlock"]
      BY <1>21 DEF RotSwap, rotVars
    <3> QED BY <1>3, <3>1
  <2>2. files'[i].cur = f.cur /\ ent'[i].ver = loaded /\ ~ent'[i].onlyNew
    BY <1>21, <2>1 DEF RotSwap, TypeInv, DataTypes, Entry, Files
  <2>3. loaded # 0 /\ Load(f.cur) = loaded
    BY <2>1 DEF FilesInv, RotatedFiles
  <2>4. ServedFiles'
    BY <1>2, <2>1, <2>2, <2>3
  <2>5. RotatedFiles'
    BY <2>1, <2>2, <2>3 DEF FilesInv, RotatedFiles
  <2> QED BY <1>0, <2>4, <2>5 DEF FilesInv
<1>22. CASE RotUnlock
  <2>1. /\ pc[Rotator] = "unlock" /\ UNCHANGED <<ask, ent, files>> /\ i \in Index \ RtIndex
        /\ pc'[Rotator] = "done" /\ wr'[i] # Rotator
    BY <1>3, <1>22 DEF RotUnlock, TypeInv, ThreadTypes
  <2>2. ent[i].enabled => Load(f.cur) = ent[i].ver
    BY <2>1 DEF FilesInv, RotatedFiles
  <2>3. ServedFiles'
    BY <1>0, <2>1, <2>2 DEF FilesInv, ServedFiles
  <2>4. RotatedFiles'
    BY <1>0, <2>1 DEF FilesInv, RotatedFiles
  <2> QED BY <1>0, <2>3, <2>4 DEF FilesInv
<1>23. CASE RotDone
  <2>1. RotatedFiles'
    BY <1>23 DEF RotDone, FilesInv, RotatedFiles, TypeInv, ThreadTypes
  <2> QED BY <1>1, <1>23, <2>1 DEF RotDone
<1> QED BY <1>11, <1>12, <1>13, <1>14, <1>15, <1>16, <1>17, <1>18, <1>19, <1>20, <1>21, <1>22, <1>23
        DEF RotatorStep

\* Of what sessions do only ATTACH is about entries and files.
LEMMA SessionElse ==
  ASSUME EntryInv, TypeInv, NEW t \in Session, SessionBegin(t) \/ SessionStep(t)
  PROVE  /\ UNCHANGED <<loaded, ext>>
         /\ \A u \in {Main, Rotator} : pc'[u] = pc[u] /\ ask'[u] = ask[u]
         /\ \A i \in Index : wr'[i] = Rotator <=> wr[i] = Rotator
         /\ UNCHANGED <<ent, files>> \/ AttachEnd(t)
<1> USE DEF TypeInv, ThreadTypes, rotVars
<1>1. CASE SearchBegin(t)
  BY <1>1 DEF SearchBegin
<1>2. CASE CheckLook(t)
  BY <1>2 DEF CheckLook
<1>3. CASE CheckLock(t)
  BY <1>3 DEF CheckLock
<1>4. CASE CheckRelease(t)
  BY <1>4 DEF CheckRelease
<1>5. CASE CheckDone(t)
  BY <1>5 DEF CheckDone
<1>6. CASE RunLook(t)
  BY <1>6 DEF RunLook
<1>7. CASE RunLock(t)
  BY <1>7 DEF RunLock
<1>8. CASE RunDone(t)
  BY <1>8 DEF RunDone
<1>9. CASE RunRelease(t)
  BY <1>9 DEF RunRelease, Reads
<1>10. CASE SearchEnd(t)
  BY <1>10 DEF SearchEnd, Reads
<1>11. CASE UpdateLook(t)
  BY <1>11 DEF UpdateLook
<1>12. CASE UpdateLock(t)
  BY <1>12 DEF UpdateLock
<1>13. CASE UpdateEnd(t)
  BY <1>13 DEF UpdateEnd
<1>14. CASE AttachBegin(t)
  BY <1>14 DEF AttachBegin
<1>15. CASE AttachLook(t, 1, "att_from", "att_from_wait", "att_to")
  BY <1>15 DEF AttachLook
<1>16. CASE AttachLock(t, "att_from_wait", "att_to")
  BY <1>16 DEF AttachLock
<1>17. CASE AttachLook(t, 2, "att_to", "att_to_wait", "attach")
  BY <1>17 DEF AttachLook
<1>18. CASE AttachLock(t, "att_to_wait", "attach")
  BY <1>18, SMTT(30) DEF AttachLock
<1>19. CASE AttachEnd(t)
  BY <1>19 DEF AttachEnd, Attachable
<1> QED BY <1>1, <1>2, <1>3, <1>4, <1>5, <1>6, <1>7, <1>8, <1>9, <1>10, <1>11, <1>12, <1>13, <1>14, <1>15, <1>16, <1>17, <1>18, <1>19
        DEF SessionBegin, SessionStep, AttachStep

LEMMA SessionChanges ==
  ASSUME EntryInv, TypeInv, FilesInv, NEW t \in Session, SessionBegin(t) \/ SessionStep(t)
  PROVE  \A i \in Index :
           \/ SameEntry(ent[i], ent'[i]) /\ files'[i] = files[i]
           \/ /\ wr[i] # Rotator
              /\ Fit(i, ent'[i], files'[i])
              /\ files'[i].new = files[i].new
              /\ i \in RtIndex \/ (~ent'[i].enabled /\ files'[i].cur = NoFiles)
<1>1. /\ UNCHANGED <<loaded, ext>>
      /\ \A u \in {Main, Rotator} : pc'[u] = pc[u] /\ ask'[u] = ask[u]
      /\ \A i \in Index : wr'[i] = Rotator <=> wr[i] = Rotator
      /\ UNCHANGED <<ent, files>> \/ AttachEnd(t)
  BY SessionElse
<1> QED
  <2>1. CASE UNCHANGED <<ent, files>>
    BY <2>1 DEF SameEntry
  <2>2. CASE AttachEnd(t) /\ ~UNCHANGED <<ent, files>>
    <3> DEFINE a == args[t][1]
               b == args[t][2]
    <3>1. /\ wr[a] = t /\ wr[b] = t /\ ent[a].enabled /\ a \in Index \ RtIndex /\ b \in RtIndex
          /\ ent[b].enabled
          /\ ent' = [ent EXCEPT ![b].ver = ent[a].ver, ![a].ver = 0, ![a].enabled = FALSE]
          /\ files' = [files EXCEPT ![b].cur = files[a].cur, ![a].cur = NoFiles]
      <4>1. args[t] \in Attaches
        BY <2>2 DEF AttachEnd, TypeInv, Names
      <4>2. a \in Index
        BY <4>1
      <4> QED BY <2>2, <4>2, ZenonT(40) DEF AttachEnd, Attachable
    <3> HIDE DEF a, b
    <3>2. a # b /\ a \in Index /\ b \in Index /\ wr[a] # Rotator /\ wr[b] # Rotator
      BY <3>1
    <3>3. Load(files[a].cur) = ent[a].ver /\ ~ent[b].onlyNew
      BY <3>1, <3>2 DEF FilesInv, ServedFiles
    <3>4. /\ ent'[b].ver = ent[a].ver /\ ent'[b].onlyNew = ent[b].onlyNew /\ ~ent'[a].enabled
          /\ files'[b].cur = files[a].cur /\ files'[b].new = files[b].new
          /\ files'[a].new = files[a].new /\ files'[a].cur = NoFiles
          /\ \A i \in Index \ {a, b} : ent'[i] = ent[i] /\ files'[i] = files[i]
      BY <3>1, <3>2 DEF TypeInv, DataTypes, Entry, Files
    <3>5. Fit(a, ent'[a], files'[a])
      BY <3>4 DEF Fit
    <3>6. Fit(b, ent'[b], files'[b])
      BY <3>1, <3>3, <3>4 DEF Fit
    <3>7. \A i \in Index \ {a, b} : SameEntry(ent[i], ent'[i]) /\ files'[i] = files[i]
      BY <3>4 DEF SameEntry
    <3>8. wr[a] # Rotator /\ files'[a].new = files[a].new /\ ~ent'[a].enabled /\ files'[a].cur = NoFiles
      BY <3>2, <3>4
    <3>9. wr[b] # Rotator /\ files'[b].new = files[b].new /\ b \in RtIndex
      BY <3>1, <3>2, <3>4
    <3> QED BY <3>5, <3>6, <3>7, <3>8, <3>9, SMTT(30)
  <2> QED BY <1>1, <2>1, <2>2

LEMMA SessionFiles ==
  ASSUME EntryInv, TypeInv, FilesInv, NEW t \in Session, SessionBegin(t) \/ SessionStep(t)
  PROVE  FilesInv'
<1>1. RtUnlocked'
  BY SessionElse DEF FilesInv, RtUnlocked
<1>2. ServedFiles' /\ RotatedFiles'
  BY SessionElse, SessionChanges, OthersKeepFiles
<1> QED BY <1>1, <1>2 DEF FilesInv

LEMMA OutsideFiles ==
  ASSUME EntryInv, TypeInv, FilesInv, ~IndexerWindow,
         (\E i \in Index \ RtIndex : Build(i)) \/ EditConf \/ Crash
  PROVE  FilesInv'
<1>1. CASE \E i \in Index \ RtIndex : Build(i)
  <2>1. PICK i \in Index \ RtIndex :
          /\ ask[Rotator] # i \/ pc[Rotator] \notin {"find", "entry", "old", "new", "back"}
          /\ files' = [files EXCEPT ![i].new = [e \in 1..NExt |-> built[i] + 1]]
          /\ UNCHANGED <<ent, wr, loaded, ext, pc, ask>>
    BY <1>1 DEF Build, rotVars
  <2>2. /\ files'[i].cur = files[i].cur /\ files'[i].old = files[i].old
        /\ \A j \in Index \ {i} : files'[j] = files[j]
    BY <2>1 DEF TypeInv, DataTypes, Files
  <2>3. ServedFiles'
    BY <2>1, <2>2 DEF FilesInv, ServedFiles
  <2>4. RotatedFiles'
    <3>1. CASE ask[Rotator] = i
      BY <2>1, <2>2, <3>1 DEF FilesInv, RotatedFiles, Renaming
    <3>2. CASE ask[Rotator] # i
      <4>1. ask[Rotator] \in Index => files'[ask[Rotator]] = files[ask[Rotator]]
        BY <2>2, <3>2
      <4> QED BY <2>1, <4>1 DEF FilesInv, RotatedFiles, Renaming
    <3> QED BY <3>1, <3>2
  <2> QED BY <2>1, <2>3, <2>4 DEF FilesInv, RtUnlocked
<1>2. CASE EditConf
  BY <1>2 DEF EditConf, FilesInv, ServedFiles, RotatedFiles, RtUnlocked, rotVars
<1>3. CASE Crash
  <2>1. \A i \in Index : files[i] \in Files
    BY DEF TypeInv, DataTypes
  <2>2. \A i \in Index : Load(Startup(files[i]).files.cur) = Startup(files[i]).ver
    BY <2>1, StartupLoads
  <2>3. /\ files' = [i \in Index |-> IF i \in conf THEN Startup(files[i]).files ELSE files[i]]
        /\ ent' = [i \in Index |-> IF i \in conf THEN StartEntry(i, files[i]) ELSE NoEntry]
        /\ wr' = [i \in Index |-> NoThread] /\ pc'[Rotator] = "idle" /\ pc'[Main] = "head"
    BY <1>3 DEF Crash, StartPc
  <2>4. ASSUME NEW i \in Index
        PROVE  /\ ent'[i].enabled => ~ent'[i].onlyNew /\ (i \notin RtIndex => ent'[i].ver # 0)
               /\ ent'[i].enabled => Load(files'[i].cur) = ent'[i].ver
    <3>1. CASE i \in conf
      BY <2>2, <2>3, <3>1, StartEntryIs
    <3>2. CASE i \notin conf
      BY <2>3, <3>2 DEF NoEntry, NewEntry
    <3> QED BY <3>1, <3>2
  <2>5. ASSUME NEW i \in RtIndex PROVE \A e \in 1..NExt : files'[i].new[e] = 0
    <3>1. \A e \in 1..NExt : files[i].new[e] = 0
      BY DEF FilesInv, ServedFiles
    <3>2. Load(files[i].new) = 0
      BY <3>1, LoadWhole, BoundAssumption
    <3> QED BY <2>3, <3>1, <3>2 DEF Startup
  <2>6. ServedFiles'
    BY <2>4, <2>5 DEF ServedFiles
  <2>7. RotatedFiles' /\ RtUnlocked'
    BY <2>3 DEF RotatedFiles, RtUnlocked, Renaming
  <2> QED BY <2>6, <2>7 DEF FilesInv
<1> QED BY <1>1, <1>2, <1>3

LEMMA FilesStep == ~IndexerWindow /\ EntryInv /\ TypeInv /\ FilesInv /\ [Next]_vars => FilesInv'
<1> SUFFICES ASSUME ~IndexerWindow, EntryInv, TypeInv, FilesInv, [Next]_vars PROVE FilesInv'
  OBVIOUS
<1>1. CASE MainStep
  BY <1>1, MainFiles
<1>2. CASE RotatorStep
  BY <1>2, RotatorFiles
<1>3. CASE \E t \in Session : SessionBegin(t) \/ SessionStep(t)
  BY <1>3, SessionFiles
<1>4. CASE (\E i \in Index \ RtIndex : Build(i)) \/ EditConf \/ Crash
  BY <1>4, OutsideFiles
<1>5. CASE UNCHANGED vars
  BY <1>5 DEF vars, FilesInv, ServedFiles, RotatedFiles, RtUnlocked, rotVars
<1> QED BY <1>1, <1>2, <1>3, <1>4, <1>5 DEF Next

\* An enabled index that nobody is writing has the files of what it serves,
\* whatever rotation fails and wherever searchd stops, if indexer does not
\* replace .new files between a load and the renames.
THEOREM ServesOwnFiles == ASSUME ~IndexerWindow PROVE Spec => []ServesItsFiles
<1>2. EntryInv /\ FilesInv => ServesItsFiles
  BY DEF FilesInv, ServedFiles, ServesItsFiles
<1>1. FilesInv /\ EntryInv /\ TypeInv /\ [Next]_vars => FilesInv'
  BY FilesStep
<1> QED BY InitFiles, EntryInvariant, TypeInvariant, <1>1, <1>2, PTL DEF Spec

\* The files of a set are never mixed: for a whole set of .new files, or of
\* current ones, there is a version to start with.
LEMMA LoadUniform ==
  ASSUME NEW f \in [1..NExt -> Version], Uniform(f)
  PROVE  Load(f) = f[1] /\ Load(f) \in Version /\ Load(f) # Mixed
<1>1. 1 \in 1..NExt /\ \A v \in Version : v # Mixed
  BY BoundAssumption DEF Version, Mixed
<1> QED BY <1>1 DEF Load, Uniform

LEMMA NoFilesUniform == Uniform(NoFiles) /\ NoFiles[1] = 0
BY BoundAssumption DEF Uniform, NoFiles

LEMMA InitWhole == Init => WholeSets
<1> SUFFICES ASSUME Init PROVE WholeSets
  OBVIOUS
<1>1. \A i \in Index : Uniform(files[i].new) /\ Uniform(files[i].cur)
  BY NoFilesUniform, BoundAssumption DEF Init, StartFiles, Uniform
<1>2. \A i \in Index \ RtIndex : ent[i].enabled => ent[i].ver # Mixed
  <2> SUFFICES ASSUME NEW i \in Index \ RtIndex, ent[i].enabled PROVE ent[i].ver # Mixed
    OBVIOUS
  <2>1. ent[i] = StartEntry(i, StartFiles(i)) /\ files[i] = StartFiles(i)
    BY DEF Init, NoEntry, NewEntry
  <2>2. StartFiles(i) \in Files
    BY EntryTypes, BoundAssumption DEF StartFiles, Files, NoFiles, Version
  <2>3. StartFiles(i).cur \in [1..NExt -> Version] /\ StartFiles(i).new \in [1..NExt -> Version]
    BY <2>2 DEF Files
  <2>4. Load(StartFiles(i).cur) # Mixed /\ Load(StartFiles(i).new) # Mixed
    BY <1>1, <2>1, <2>3, LoadUniform
  <2> QED BY <2>1, <2>4, StartEntryIs DEF Startup
<1> QED BY <1>1, <1>2 DEF Init, WholeSets

\* A step of another thread.
LEMMA OthersKeepWhole ==
  ASSUME TypeInv, WholeSets, loaded' = loaded, ext' = ext,
         pc'[Rotator] = pc[Rotator], ask'[Rotator] = ask[Rotator], FilesInv,
         \A i \in Index \ RtIndex :
           \/ SameEntry(ent[i], ent'[i]) /\ files'[i] = files[i]
           \/ /\ ~ent'[i].enabled /\ wr[i] # Rotator
              /\ files'[i].new = files[i].new
              /\ files'[i].cur \in {NoFiles, files[i].cur}
  PROVE  WholeSets'
<1>1. \A i \in Index \ RtIndex : pc'[Rotator] # "new" \/ ask'[Rotator] # i =>
        /\ Uniform(files'[i].new)
        /\ files'[i].new[1] = 0 => Uniform(files'[i].cur)
  BY NoFilesUniform DEF WholeSets
<1>2. \A i \in Index \ RtIndex : ent'[i].enabled => ent'[i].ver # Mixed
  BY DEF WholeSets, SameEntry
<1>3. pc[Rotator] = "new" => \A e \in 1..NExt : e < ext => files'[ask[Rotator]].new[e] = 0
  <2>1. pc[Rotator] = "new" => ask[Rotator] \in Index \ RtIndex
    BY DEF FilesInv, RotatedFiles, Renaming
  <2> QED BY <2>1 DEF WholeSets
<1> QED BY <1>1, <1>2, <1>3 DEF WholeSets, Uniform

LEMMA MainWhole ==
  ASSUME EntryInv, TypeInv, FilesInv, WholeSets, MainStep
  PROVE  WholeSets'
<1>1. /\ UNCHANGED <<loaded, ext, files>>
      /\ pc'[Rotator] = pc[Rotator] /\ ask'[Rotator] = ask[Rotator]
  BY MainElse
<1>2. \A i \in Index : \/ SameEntry(ent[i], ent'[i])
                       \/ wr[i] # Rotator /\ (i \in RtIndex \/ ~ent'[i].enabled)
  BY MainElse
<1> QED BY <1>1, <1>2, OthersKeepWhole

LEMMA SessionWhole ==
  ASSUME EntryInv, TypeInv, FilesInv, WholeSets, NEW t \in Session, SessionBegin(t) \/ SessionStep(t)
  PROVE  WholeSets'
<1>1. /\ UNCHANGED <<loaded, ext>>
      /\ pc'[Rotator] = pc[Rotator] /\ ask'[Rotator] = ask[Rotator]
  BY SessionElse
<1>2. \A i \in Index \ RtIndex :
           \/ SameEntry(ent[i], ent'[i]) /\ files'[i] = files[i]
           \/ /\ ~ent'[i].enabled /\ wr[i] # Rotator
              /\ files'[i].new = files[i].new
              /\ files'[i].cur \in {NoFiles, files[i].cur}
  BY SessionChanges
<1> QED BY <1>1, <1>2, OthersKeepWhole

LEMMA RotatorWhole ==
  ASSUME EntryInv, TypeInv, FilesInv, WholeSets, RotatorStep
  PROVE  WholeSets'
<1> DEFINE i == ask[Rotator]
           f == files[i]
<1> USE DEF Renaming
<1>0. \A j \in Index : j # i \/ pc[Rotator] \notin Renaming => ent'[j] = ent[j] /\ files'[j] = files[j]
  BY RotatorElse
<1>1. pc[Rotator] \in {"find", "entry"} \cup Renaming => i \in Index \ RtIndex /\ f \in Files
  BY DEF FilesInv, RotatedFiles, TypeInv, DataTypes
<1>2. ext \in 1..NExt /\ ext \in Nat /\ NExt \in Nat /\ 1 \in 1..NExt
  BY BoundAssumption DEF TypeInv, DataTypes
<1>3. \A j \in Index : /\ files[j].new \in [1..NExt -> Version] /\ files[j].cur \in [1..NExt -> Version]
                       /\ files[j].old \in [1..NExt -> Version]
  BY DEF TypeInv, DataTypes, Files
\* Steps that change no file.
<1>4. ASSUME UNCHANGED files, pc[Rotator] # "new",
             pc'[Rotator] = "new" => ext' = 1,
             \A j \in Index \ RtIndex : ent'[j].enabled /\ ent'[j] # ent[j] => ent'[j].ver # Mixed,
             pc'[Rotator] \in {"find", "entry", "old", "new", "back", "swap"} => loaded' # Mixed
      PROVE  WholeSets'
  <2>1. \A e \in 1..NExt : ~(e < 1)
    BY <1>2
  <2> QED BY <1>4, <2>1 DEF WholeSets, Uniform
<1>11. CASE RotPop
  BY <1>4, <1>11 DEF RotPop, TypeInv, ThreadTypes
<1>12. CASE RotPreread
  BY <1>4, <1>12 DEF RotPreread, TypeInv, ThreadTypes
<1>13. CASE RotLook("look", "settings")
  BY <1>4, <1>13 DEF RotLook, TypeInv, ThreadTypes
<1>14. CASE RotSettings
  BY <1>4, <1>14 DEF RotSettings, TypeInv, ThreadTypes
<1>15. CASE RotLoad
  <2>1. /\ pc[Rotator] = "load" /\ i \in Index /\ UNCHANGED <<files, ent>>
        /\ pc'[Rotator] \in {"done", "find"}
        /\ pc'[Rotator] = "find" => Load(f.new) # 0 /\ loaded' = Load(f.new)
    BY <1>15 DEF RotLoad, TypeInv, Names, ThreadTypes
  <2>2. i \notin RtIndex => Load(f.new) # Mixed
    BY <1>3, <2>1, LoadUniform DEF WholeSets
  <2>3. i \in RtIndex => Load(f.new) = 0
    <3>1. i \in RtIndex => f.new[1] = 0
      BY <1>2, <2>1 DEF FilesInv, ServedFiles
    <3> QED BY <1>2, <3>1, LoadWhole
  <2> QED BY <1>4, <2>1, <2>2, <2>3
<1>16. CASE RotLook("find", "entry")
  <2>1. /\ pc[Rotator] = "find" /\ UNCHANGED <<ent, files, loaded>> /\ pc'[Rotator] \in {"entry", "done"}
    BY <1>16 DEF RotLook, TypeInv, ThreadTypes, rotVars
  <2>2. loaded # Mixed
    BY <2>1 DEF WholeSets
  <2> QED BY <1>4, <2>1, <2>2
<1>17. CASE RotEntry
  <2>1. pc[Rotator] = "entry" /\ UNCHANGED <<ent, files, loaded>> /\ ext' = 1
    BY <1>17 DEF RotEntry
  <2>2. loaded # Mixed
    BY <2>1 DEF WholeSets
  <2> QED BY <1>4, <2>1, <2>2
<1>18. CASE RotOld
  <2>1. /\ pc[Rotator] = "old" /\ UNCHANGED <<ask, loaded>> /\ i \in Index \ RtIndex /\ f \in Files
        /\ ent' = [ent EXCEPT ![i].moved = (pc'[Rotator] = "new")]
        /\ pc'[Rotator] = "new" => ext' = 1
    BY <1>1, <1>18 DEF RotOld, RotRename, TypeInv, ThreadTypes
  <2>2. ent'[i].enabled = ent[i].enabled /\ ent'[i].ver = ent[i].ver
    BY <2>1 DEF TypeInv, DataTypes, Entry
  <2>3. files'[i] = Renamed(f, "cur", "old", ext) \/ files'[i] = RolledBack(f, "cur", "old", ext)
    BY <1>18, <2>1 DEF RotOld, RotRename, TypeInv, DataTypes
  <2>4. files'[i].new = f.new
    BY <1>2, <2>1, <2>3, RenamedFiles, SMTT(30)
  <2>5. f.new[1] = loaded /\ loaded # 0 /\ loaded # Mixed
    <3>1. Load(f.new) = loaded /\ loaded # 0 /\ loaded # Mixed
      BY <2>1 DEF FilesInv, RotatedFiles, WholeSets
    <3>2. \A e \in 1..NExt : f.new[e] = loaded
      <4> DEFINE g == f.new
      <4>1. Load(g) = loaded
        BY <3>1
      <4> HIDE DEF g
      <4>2. \A e \in 1..NExt : g[e] = loaded
        BY <3>1, <4>1, LoadWhole
      <4> QED BY <4>2 DEF g
    <3> QED BY <1>2, <3>1, <3>2
  <2>6. \A e \in 1..NExt : ~(e < 1)
    BY <1>2
  <2>7. Uniform(f.new)
    BY <2>1 DEF WholeSets
  <2> QED BY <1>0, <2>1, <2>2, <2>4, <2>5, <2>6, <2>7 DEF WholeSets, Uniform
<1>19. CASE RotNew
  <2>1. /\ pc[Rotator] = "new" /\ UNCHANGED <<ask, loaded, ent>> /\ i \in Index \ RtIndex /\ f \in Files
    BY <1>1, <1>19 DEF RotNew
  <2>2. \A e \in 1..NExt : Moved(f.cur, f.new, ext)[e] = loaded
    <3>1. Load(Moved(f.cur, f.new, ext)) = loaded /\ loaded # 0 /\ loaded # Mixed
      BY <2>1 DEF FilesInv, RotatedFiles, WholeSets
    <3> QED BY <3>1, LoadWhole
  <2>3. /\ loaded # 0 /\ loaded # Mixed
        /\ \A e \in 1..NExt : e < ext => f.new[e] = 0
    BY <2>1 DEF FilesInv, RotatedFiles, WholeSets
  <2>4. \A e \in 1..NExt : f.cur[e] = loaded \/ ~(e < ext)
    BY <2>2 DEF Moved
  <2>5. \A e \in 1..NExt : f.new[e] = loaded \/ e < ext
    BY <2>2 DEF Moved
  <2>6. CASE /\ files'[i] = Renamed(f, "new", "cur", ext) /\ ext < NExt /\ ext' = ext + 1
             /\ pc'[Rotator] = "new"
    <3>1. \A e \in 1..NExt : e < ext + 1 => files'[i].new[e] = 0
      BY <1>2, <2>1, <2>3, <2>6, RenamedFiles
    <3> QED BY <1>0, <2>1, <2>3, <2>6, <3>1 DEF WholeSets, Uniform
  <2>7. CASE files'[i] = Renamed(f, "new", "cur", ext) /\ ext = NExt /\ pc'[Rotator] = "swap"
    <3>1. \A e \in 1..NExt : files'[i].new[e] = 0 /\ files'[i].cur[e] = loaded
      <4>1. \A e \in 1..NExt : /\ files'[i].new[e] = IF e = ext THEN 0 ELSE f.new[e]
                               /\ files'[i].cur[e] = IF e = ext THEN f.new[ext] ELSE f.cur[e]
        BY <1>2, <2>1, <2>7, RenamedFiles
      <4>2. \A e \in 1..NExt : e = ext \/ e < ext
        BY <1>2, <2>7
      <4>3. ~(ext < ext)
        BY <1>2
      <4> QED BY <1>2, <2>3, <2>4, <2>5, <4>1, <4>2, <4>3
    <3> QED BY <1>0, <1>2, <2>1, <2>3, <2>7, <3>1 DEF WholeSets, Uniform
  <2>8. CASE files'[i] = RolledBack(f, "new", "cur", ext) /\ pc'[Rotator] \in {"unlock", "back"}
    <3>1. \A e \in 1..NExt : files'[i].new[e] = loaded
      <4>1. \A e \in 1..NExt : files'[i].new[e] = IF e < ext THEN f.cur[e] ELSE f.new[e]
        BY <1>2, <2>1, <2>8, RenamedFiles
      <4> QED BY <2>4, <2>5, <4>1
    <3> QED BY <1>0, <1>2, <2>1, <2>3, <2>8, <3>1 DEF WholeSets, Uniform
  <2>9. \/ /\ files' = [files EXCEPT ![i] = Renamed(f, "new", "cur", ext)]
           /\ \/ ext < NExt /\ ext' = ext + 1 /\ pc' = pc
              \/ ~(ext < NExt) /\ ext' = 1 /\ pc' = [pc EXCEPT ![Rotator] = "swap"]
        \/ /\ files' = [files EXCEPT ![i] = RolledBack(f, "new", "cur", ext)]
           /\ pc' \in {[pc EXCEPT ![Rotator] = "unlock"], [pc EXCEPT ![Rotator] = "back"]}
    BY <1>19 DEF RotNew, RotRename
  <2>10. files \in [Index -> Files] /\ pc \in [Thread -> PcSet] /\ (~(ext < NExt) => ext = NExt)
    BY <1>2 DEF TypeInv, DataTypes, ThreadTypes
  <2> HIDE DEF i, f
  <2> QED BY <2>1, <2>6, <2>7, <2>8, <2>9, <2>10
<1>20. CASE RotBack
  <2>1. pc[Rotator] = "back" /\ UNCHANGED <<ask, loaded>> /\ pc' = [pc EXCEPT ![Rotator] = "unlock"]
    BY <1>20 DEF RotBack, rotVars
  <2>2. i \in Index \ RtIndex /\ f \in Files /\ pc'[Rotator] = "unlock"
    BY <1>1, <2>1 DEF TypeInv, ThreadTypes
  <2>3. files'[i].new = f.new /\ ent'[i].ver = ent[i].ver /\ (ent'[i].enabled => ent[i].enabled)
    BY <1>20, <2>2 DEF RotBack, TypeInv, DataTypes, Entry, Files
  <2>4. f.new[1] # 0 /\ Uniform(f.new)
    <3>1. Load(f.new) = loaded /\ loaded # 0 /\ loaded # Mixed
      BY <2>1 DEF FilesInv, RotatedFiles, WholeSets
    <3>2. \A e \in 1..NExt : f.new[e] = loaded
      <4> DEFINE g == f.new
      <4>1. Load(g) = loaded
        BY <3>1
      <4> HIDE DEF g
      <4>2. \A e \in 1..NExt : g[e] = loaded
        BY <3>1, <4>1, LoadWhole
      <4> QED BY <4>2 DEF g
    <3> QED BY <1>2, <2>1, <2>2, <3>1, <3>2 DEF WholeSets
  <2> QED BY <1>0, <2>1, <2>2, <2>3, <2>4 DEF WholeSets, Uniform
<1>21. CASE RotSwap
  <2>1. pc[Rotator] = "swap" /\ UNCHANGED <<ask, loaded>> /\ pc' = [pc EXCEPT ![Rotator] = "unlock"]
    BY <1>21 DEF RotSwap, rotVars
  <2>2. i \in Index \ RtIndex /\ f \in Files /\ pc'[Rotator] = "unlock"
    BY <1>1, <2>1 DEF TypeInv, ThreadTypes
  <2>3. files'[i].new = f.new /\ files'[i].cur = f.cur /\ ent'[i].ver = loaded
    BY <1>21, <2>2 DEF RotSwap, TypeInv, DataTypes, Entry, Files
  <2>4. loaded # Mixed /\ Uniform(f.new) /\ (f.new[1] = 0 => Uniform(f.cur))
    BY <2>1, <2>2 DEF WholeSets
  <2> QED BY <1>0, <2>1, <2>2, <2>3, <2>4 DEF WholeSets, Uniform
<1>22. CASE RotUnlock
  BY <1>4, <1>22 DEF RotUnlock, TypeInv, ThreadTypes
<1>23. CASE RotDone
  BY <1>4, <1>23 DEF RotDone, TypeInv, ThreadTypes
<1> QED BY <1>11, <1>12, <1>13, <1>14, <1>15, <1>16, <1>17, <1>18, <1>19, <1>20, <1>21, <1>22, <1>23
        DEF RotatorStep

LEMMA OutsideWhole ==
  ASSUME EntryInv, TypeInv, FilesInv, WholeSets, ~IndexerWindow, "new" \notin CrashAt,
         (\E i \in Index \ RtIndex : Build(i)) \/ EditConf \/ Crash
  PROVE  WholeSets'
<1>1. CASE \E i \in Index \ RtIndex : Build(i)
  <2>1. PICK i \in Index \ RtIndex :
          /\ ask[Rotator] # i \/ pc[Rotator] \notin {"find", "entry", "old", "new", "back"}
          /\ files' = [files EXCEPT ![i].new = [e \in 1..NExt |-> built[i] + 1]]
          /\ UNCHANGED <<ent, wr, loaded, ext, pc, ask>>
    BY <1>1 DEF Build, rotVars
  <2>2. /\ \A e \in 1..NExt : files'[i].new[e] = built[i] + 1
        /\ \A j \in Index \ {i} : files'[j] = files[j]
    BY <2>1 DEF TypeInv, DataTypes, Files
  <2>3. built[i] + 1 # 0 /\ 1 \in 1..NExt
    BY BoundAssumption DEF TypeInv, DataTypes, Version
  <2>4. Uniform(files'[i].new) /\ files'[i].new[1] # 0
    BY <2>2, <2>3 DEF Uniform
  <2>5. pc[Rotator] = "new" => ask[Rotator] \in Index \ {i}
    BY <2>1 DEF FilesInv, RotatedFiles, Renaming
  <2>6. \A j \in Index \ RtIndex : pc'[Rotator] # "new" \/ ask'[Rotator] # j =>
          /\ Uniform(files'[j].new)
          /\ files'[j].new[1] = 0 => Uniform(files'[j].cur)
    BY <2>1, <2>2, <2>4 DEF WholeSets
  <2>7. pc'[Rotator] = "new" => \A e \in 1..NExt : e < ext' => files'[ask'[Rotator]].new[e] = 0
    <3>1. pc[Rotator] = "new" => files'[ask[Rotator]] = files[ask[Rotator]]
      BY <2>2, <2>5
    <3> QED BY <2>1, <3>1 DEF WholeSets
  <2> QED BY <2>1, <2>6, <2>7 DEF WholeSets, Uniform
<1>2. CASE EditConf
  BY <1>2 DEF EditConf, WholeSets, rotVars, Uniform
<1>3. CASE Crash
  <2>1. pc[Rotator] # "new" /\ pc'[Rotator] = "idle"
    BY <1>3 DEF Crash, StartPc
  <2>2. /\ files' = [i \in Index |-> IF i \in conf THEN Startup(files[i]).files ELSE files[i]]
        /\ ent' = [i \in Index |-> IF i \in conf THEN StartEntry(i, files[i]) ELSE NoEntry]
    BY <1>3 DEF Crash
  <2>3. ASSUME NEW i \in Index \ RtIndex
        PROVE  /\ Uniform(files'[i].new)
               /\ files'[i].new[1] = 0 => Uniform(files'[i].cur)
               /\ ent'[i].enabled => ent'[i].ver # Mixed
    <3> DEFINE f == files[i]
    <3>1. f.new \in [1..NExt -> Version] /\ f.cur \in [1..NExt -> Version]
      BY DEF TypeInv, DataTypes, Files
    <3>2. Uniform(f.new) /\ (f.new[1] = 0 => Uniform(f.cur))
      BY <2>1 DEF WholeSets
    <3>3. Load(f.new) = f.new[1] /\ Load(f.new) # Mixed
      BY <3>1, <3>2, LoadUniform
    <3>4. f.new[1] = 0 => Load(f.cur) # Mixed
      BY <3>1, <3>2, LoadUniform
    <3>5. Startup(f).ver # Mixed
      BY <3>3, <3>4 DEF Startup
    <3>6. /\ Uniform(Startup(f).files.new)
          /\ Startup(f).files.new[1] = 0 => Uniform(Startup(f).files.cur)
      <4>1. CASE f.new[1] = 0
        BY <3>2, <3>3, <4>1 DEF Startup
      <4>2. CASE f.new[1] # 0
        <5>1. Startup(f).files.new = NoFiles /\ Startup(f).files.cur = f.new
          BY <3>3, <4>2 DEF Startup
        <5> QED BY <3>2, <5>1, NoFilesUniform
      <4> QED BY <4>1, <4>2
    <3> HIDE DEF f
    <3>7. CASE i \in conf
      <4>1. files'[i] = Startup(f).files /\ ent'[i] = StartEntry(i, f)
        BY <2>2, <3>7 DEF f
      <4> QED BY <3>5, <3>6, <4>1, StartEntryIs
    <3>8. CASE i \notin conf
      <4>1. files'[i] = f /\ ~ent'[i].enabled
        BY <2>2, <3>8 DEF NoEntry, NewEntry, f
      <4> QED BY <3>2, <4>1
    <3> QED BY <3>7, <3>8
  <2> QED BY <2>1, <2>3 DEF WholeSets
<1> QED BY <1>1, <1>2, <1>3

LEMMA WholeStep ==
  ASSUME ~IndexerWindow, "new" \notin CrashAt
  PROVE  EntryInv /\ TypeInv /\ FilesInv /\ WholeSets /\ [Next]_vars => WholeSets'
<1> SUFFICES ASSUME EntryInv, TypeInv, FilesInv, WholeSets, [Next]_vars PROVE WholeSets'
  OBVIOUS
<1>1. CASE MainStep
  BY <1>1, MainWhole
<1>2. CASE RotatorStep
  BY <1>2, RotatorWhole
<1>3. CASE \E t \in Session : SessionBegin(t) \/ SessionStep(t)
  BY <1>3, SessionWhole
<1>4. CASE (\E i \in Index \ RtIndex : Build(i)) \/ EditConf \/ Crash
  BY <1>4, OutsideWhole
<1>5. CASE UNCHANGED vars
  BY <1>5 DEF vars, WholeSets, rotVars, Uniform
<1> QED BY <1>1, <1>2, <1>3, <1>4, <1>5 DEF Next

\* Whatever step of a rotation fails, and wherever searchd has stopped before but
\* between two renames of .new files, the next start finds a whole version of
\* each plain index that is enabled now.
THEOREM AlwaysStartsAgain ==
  ASSUME ~IndexerWindow, "new" \notin CrashAt
  PROVE  Spec => []StartsAgain
<1>1. EntryInv /\ TypeInv /\ FilesInv /\ WholeSets => StartsAgain
  <2> SUFFICES ASSUME EntryInv, TypeInv, FilesInv, WholeSets,
                      NEW i \in served \ RtIndex, ent[i].enabled,
                      ~(wr[i] = Rotator /\ pc[Rotator] = "new" /\ ext > 1)
               PROVE  Startup(files[i]).ver \in Version \ {0}
    BY DEF StartsAgain
  <2> DEFINE f == files[i]
  <2>1. /\ i \in Index \ RtIndex
        /\ f.new \in [1..NExt -> Version] /\ f.cur \in [1..NExt -> Version]
    BY DEF TypeInv, DataTypes, Files
  <2>2. ent[i].ver # 0 /\ ent[i].ver # Mixed
    BY <2>1 DEF FilesInv, ServedFiles, WholeSets
  <2>3. ASSUME Uniform(f.new), Load(f.new) # 0 \/ Load(f.cur) \notin {0, Mixed}
        PROVE  Startup(f).ver \in Version \ {0}
    <3>1. Load(f.new) \in Version
      BY <2>1, <2>3, LoadUniform
    <3>2. Load(f.cur) \in Version \cup {Mixed}
      BY <2>1, LoadType
    <3> QED BY <2>3, <3>1, <3>2 DEF Startup
  <2>4. CASE wr[i] # Rotator
    <3>1. Load(f.cur) = ent[i].ver
      BY <2>1, <2>4 DEF FilesInv, ServedFiles
    <3>2. Uniform(f.new)
      BY <2>1, <2>4 DEF FilesInv, RotatedFiles, WholeSets, Renaming
    <3> QED BY <2>2, <2>3, <3>1, <3>2
  <2>5. CASE wr[i] = Rotator
    <3>1. i = ask[Rotator] /\ pc[Rotator] \in Renaming
      BY <2>1, <2>5 DEF FilesInv, RotatedFiles
    <3>2. CASE pc[Rotator] = "new"
      <4>1. ext = 1
        BY <2>5, <3>2 DEF TypeInv, DataTypes
      <4>2. \A e \in 1..NExt : Moved(f.cur, f.new, ext)[e] = loaded
        <5>1. Load(Moved(f.cur, f.new, ext)) = loaded /\ loaded # 0 /\ loaded # Mixed
          BY <3>1, <3>2 DEF FilesInv, RotatedFiles, WholeSets
        <5> DEFINE g == Moved(f.cur, f.new, ext)
        <5>2. Load(g) = loaded
          BY <5>1
        <5> HIDE DEF g
        <5>3. \A e \in 1..NExt : g[e] = loaded
          BY <5>1, <5>2, LoadWhole
        <5> QED BY <5>3 DEF g
      <4>3. \A e \in 1..NExt : f.new[e] = loaded
        BY <4>1, <4>2 DEF Moved
      <4>4. loaded # 0 /\ 1 \in 1..NExt
        BY <3>2, BoundAssumption DEF FilesInv, RotatedFiles
      <4>5. Uniform(f.new) /\ Load(f.new) # 0
        <5> DEFINE g == f.new
        <5>1. \A e \in 1..NExt : g[e] = loaded
          BY <4>3
        <5> HIDE DEF g
        <5>2. Load(g) = loaded
          BY <4>4, <5>1, LoadWhole, ZenonT(40)
        <5> QED BY <4>3, <4>4, <5>2 DEF g, Uniform
      <4> QED BY <2>3, <4>5
    <3>3. CASE pc[Rotator] \in {"old", "back"}
      <4>1. Load(f.new) # 0
        BY <3>1, <3>3 DEF FilesInv, RotatedFiles
      <4>2. Uniform(f.new)
        BY <2>1, <3>3 DEF WholeSets
      <4> QED BY <2>3, <4>1, <4>2
    <3>4. CASE pc[Rotator] \in {"swap", "unlock"}
      <4>1. Load(f.cur) \notin {0, Mixed}
        BY <2>1, <2>2, <3>1, <3>4 DEF FilesInv, RotatedFiles, WholeSets
      <4>2. Uniform(f.new)
        BY <2>1, <3>4 DEF WholeSets
      <4> QED BY <2>3, <4>1, <4>2
    <3> QED BY <3>1, <3>2, <3>3, <3>4 DEF Renaming
  <2> QED BY <2>4, <2>5
<1>2. EntryInv /\ TypeInv /\ FilesInv /\ WholeSets /\ [Next]_vars => FilesInv' /\ WholeSets'
  BY FilesStep, WholeStep
<1>3. Init => FilesInv /\ WholeSets
  BY InitFiles, InitWhole
<1> QED BY EntryInvariant, TypeInvariant, <1>1, <1>2, <1>3, PTL DEF Spec


-----------------------------------------------------------------------------
(* What a search keeps: the index it got, whatever the main loop, the       *)
(* rotation thread and other sessions do, as long as no RT index is added   *)
(* or removed: those are loaded without a lock (ReloadRt).                  *)


EntryFields == {"ver", "enabled", "toDelete", "onlyNew", "moved"}

\* Entries are records, and got has a version for each index.
EntShape ==
  /\ DOMAIN ent = Index
  /\ \A i \in Index : DOMAIN ent[i] = EntryFields
  /\ DOMAIN got = Thread
  /\ \A t \in Thread : DOMAIN got[t] = Index

\* When a session has read locks.
Phases ==
  \A t \in Session :
    /\ pc[t] \in {"idle", "check", "check_wait", "upd_wait", "update", "att_from",
                  "att_from_wait", "att_to", "att_to_wait", "attach"}
         => \A i \in Index : t \notin rd[i]
    /\ pc[t] = "check_read" => \A i \in Index \ {ask[t]} : t \notin rd[i]

\* The rotation thread has its write lock from the first rename to the end.
RotatorOwns ==
  pc[Rotator] \in {"old", "new", "back", "swap", "unlock"} 
    => ask[Rotator] \in Index /\ wr[ask[Rotator]] = Rotator

\* RT indexes stay: the main loop never marks one for good and never adds one.
RtStays ==
  /\ conf \cap RtIndex = Start \cap RtIndex
  /\ served \cap RtIndex = Start \cap RtIndex
  /\ \A i \in served \cap RtIndex : ent[i].toDelete =>
       pc[Main] \in {"reload", "reload_entry"} /\ i \in todo[Main]
  /\ pc[Main] \in {"delete", "del_entry"} => todo[Main] \cap RtIndex = {}
  /\ pc[Main] = "del_entry" => ask[Main] \notin RtIndex
  /\ pc[Main] \in {"reload", "reload_entry"} => todo[Main] \cap RtIndex \subseteq served
  /\ pc[Main] # "reload_rt"

\* What a search reads is what it got.
Kept ==
  \A t \in Session : \A i \in Index :
    t \in rd[i] /\ pc[t] \in {"run", "run_wait", "release"} => ent[i].ver = got[t][i]

StableInv == EntShape /\ Phases /\ RotatorOwns /\ RtStays /\ Kept

\* A step that leaves the locks and the sessions alone keeps what they have if it
\* changes only entries that nobody reads.
LEMMA FrameKeeps ==
  ASSUME StableInv, UNCHANGED <<rd, got>>,
         \A t \in Session : pc'[t] = pc[t] /\ ask'[t] = ask[t],
         \A i \in Index : rd[i] = {} \/ ent'[i].ver = ent[i].ver
  PROVE  Phases' /\ Kept'
BY DEF StableInv, Phases, Kept

LEMMA NewEntryFields ==
  /\ DOMAIN NewEntry = EntryFields /\ ~NewEntry.toDelete
  /\ DOMAIN NoEntry = EntryFields /\ ~NoEntry.toDelete
BY DEF NewEntry, NoEntry, EntryFields

LEMMA StartEntryFields ==
  ASSUME NEW i, NEW f
  PROVE  DOMAIN StartEntry(i, f) = EntryFields /\ ~StartEntry(i, f).toDelete
<1> DEFINE v == Startup(f).ver
           e == Startup(f).ver # 0 \/ i \in RtIndex
<1>1. StartEntry(i, f) = [NoEntry EXCEPT !.ver = v, !.enabled = e]
  BY DEF StartEntry
<1> HIDE DEF v, e
<1> QED BY <1>1, NewEntryFields DEF EntryFields, NoEntry, NewEntry

LEMMA InitStable == Init => StableInv
<1> SUFFICES ASSUME Init PROVE StableInv
  OBVIOUS
<1>1. EntShape
  BY NewEntryFields, StartEntryFields DEF Init, EntShape, Fresh, NoVersions
<1>2. Phases /\ Kept
  BY DEF Init, Phases, Kept
<1>3. RotatorOwns
  BY ThreadAssumption DEF Init, RotatorOwns, StartPc, Thread
<1>4. RtStays
  <2>1. pc[Main] = "head" /\ served = Start /\ conf = Start
    BY DEF Init, StartPc, Thread
  <2>2. \A i \in served : ~ent[i].toDelete
    BY StartEntryFields, ArgsAssumption DEF Init
  <2> QED BY <2>1, <2>2 DEF RtStays
<1> QED BY <1>1, <1>2, <1>3, <1>4 DEF StableInv

USE ThreadAssumption, IndexAssumption, ArgsAssumption
    DEF Shape, HashLock, WaitersRead, OwnersServed, Exclusive, MainOnly, EntShape, Phases,
        RotatorOwns, RtStays, Kept, Thread, EntryWaits, Goto, CanWrite, LookUp, Missing,
        GetRead, GetWrite, UnlockWrite, FindAndUnlock, lockVars, sessSame, sessVars, envVars

LEMMA MainFrame ==
  ASSUME EntryInv, StableInv, MainStep
  PROVE  /\ UNCHANGED <<rd, wr, got>>
         /\ \A t \in Thread \ {Main} : pc'[t] = pc[t] /\ ask'[t] = ask[t]
         /\ EntShape'
         /\ \A i \in Index : rd[i] = {} \/ ent'[i].ver = ent[i].ver
<1> USE DEF EntryInv, StableInv
<1>1. CASE HeadStep
  BY <1>1, NewEntryFields, StartEntryFields DEF HeadStep, EntryFields
<1>2. CASE DeleteLock
  BY <1>2, NewEntryFields, StartEntryFields DEF DeleteLock, EntryFields
<1>3. CASE DeleteEntry
  BY <1>3, NewEntryFields, StartEntryFields DEF DeleteEntry, EntryFields
<1>4. CASE DeleteDone
  BY <1>4, NewEntryFields, StartEntryFields DEF DeleteDone, EntryFields
<1>5. CASE RotateBusy
  BY <1>5, NewEntryFields, StartEntryFields DEF RotateBusy, EntryFields
<1>6. CASE ReloadStart
  BY <1>6, NewEntryFields, StartEntryFields DEF ReloadStart, RotateStart, EntryFields
<1>7. CASE ReloadLook
  BY <1>7, NewEntryFields, StartEntryFields DEF ReloadLook, EntryFields
<1>8. CASE ReloadKeep
  BY <1>8, NewEntryFields, StartEntryFields DEF ReloadKeep, EntryFields
<1>9. CASE ReloadAdd
  BY <1>9, NewEntryFields, StartEntryFields DEF ReloadAdd, EntryFields
<1>10. CASE ReloadRt
  BY <1>10, NewEntryFields, StartEntryFields DEF ReloadRt, EntryFields
<1>11. CASE ScanStart
  BY <1>11, NewEntryFields, StartEntryFields DEF ScanStart, RotateStart, EntryFields
<1>12. CASE ScanIndex
  BY <1>12, NewEntryFields, StartEntryFields DEF ScanIndex, EntryFields
<1>13. CASE ScanDone
  BY <1>13, NewEntryFields, StartEntryFields DEF ScanDone, EntryFields
<1> QED BY <1>1, <1>2, <1>3, <1>4, <1>5, <1>6, <1>7, <1>8, <1>9, <1>10, <1>11, <1>12, <1>13 DEF MainStep

LEMMA MainRt ==
  ASSUME EntryInv, StableInv, MainStep
  PROVE  RtStays'
<1> USE DEF EntryInv, StableInv
<1>1. CASE HeadStep
  BY <1>1, NewEntryFields, StartEntryFields DEF HeadStep, EntryFields
<1>2. CASE DeleteLock
  BY <1>2, NewEntryFields, StartEntryFields DEF DeleteLock, EntryFields
<1>3. CASE DeleteEntry
  <2>1. /\ pc[Main] = "del_entry" /\ served' = served \ {ask[Main]}
        /\ ask[Main] \in Index \ RtIndex
        /\ ent' = [ent EXCEPT ![ask[Main]] = NoEntry]
        /\ todo' = [todo EXCEPT ![Main] = @ \ {ask[Main]}]
        /\ pc' = [pc EXCEPT ![Main] = "delete"] /\ conf' = conf
    BY <1>3 DEF DeleteEntry
  <2>2. \A i \in served \cap RtIndex : ent'[i] = ent[i] /\ ~ent[i].toDelete
    BY <2>1
  <2>3. pc'[Main] = "delete" /\ todo'[Main] \subseteq todo[Main] /\ served' \cap RtIndex = served \cap RtIndex
    BY <2>1
  <2>4. todo[Main] \cap RtIndex = {}
    BY <2>1
  <2> QED BY <2>1, <2>2, <2>3, <2>4
<1>4. CASE DeleteDone
  BY <1>4, NewEntryFields, StartEntryFields DEF DeleteDone, EntryFields
<1>5. CASE RotateBusy
  BY <1>5, NewEntryFields, StartEntryFields DEF RotateBusy, EntryFields
<1>6. CASE ReloadStart
  BY <1>6, NewEntryFields, StartEntryFields DEF ReloadStart, RotateStart, EntryFields
<1>7. CASE ReloadLook
  BY <1>7, NewEntryFields, StartEntryFields DEF ReloadLook, EntryFields
<1>8. CASE ReloadKeep
  BY <1>8, NewEntryFields, StartEntryFields DEF ReloadKeep, EntryFields
<1>9. CASE ReloadAdd
  BY <1>9, NewEntryFields, StartEntryFields DEF ReloadAdd, EntryFields
<1>10. CASE ReloadRt
  BY <1>10, NewEntryFields, StartEntryFields DEF ReloadRt, EntryFields
<1>11. CASE ScanStart
  BY <1>11, NewEntryFields, StartEntryFields DEF ScanStart, RotateStart, EntryFields
<1>12. CASE ScanIndex
  BY <1>12, NewEntryFields, StartEntryFields DEF ScanIndex, EntryFields
<1>13. CASE ScanDone
  BY <1>13, NewEntryFields, StartEntryFields DEF ScanDone, EntryFields
<1> QED BY <1>1, <1>2, <1>3, <1>4, <1>5, <1>6, <1>7, <1>8, <1>9, <1>10, <1>11, <1>12, <1>13 DEF MainStep

LEMMA MainStable ==
  ASSUME EntryInv, StableInv, MainStep
  PROVE  StableInv'
<1>1. Phases' /\ Kept'
  <2>1. \A t \in Session : t \in Thread \ {Main}
    OBVIOUS
  <2> QED BY <2>1, MainFrame, FrameKeeps
<1>2. RotatorOwns'
  BY MainFrame DEF StableInv
<1> QED BY <1>1, <1>2, MainFrame, MainRt DEF StableInv

\* The rotation thread never reads an entry beyond a step, and changes only the
\* entry it has the write lock of.
LEMMA RotatorFrame ==
  ASSUME EntryInv, StableInv, RotatorStep
  PROVE  /\ UNCHANGED <<rd, got, served, conf, todo>>
         /\ \A t \in Thread \ {Rotator} : pc'[t] = pc[t] /\ ask'[t] = ask[t]
         /\ EntShape'
         /\ \A i \in Index : ent'[i].toDelete = ent[i].toDelete
         /\ \A i \in Index : rd[i] = {} \/ ent'[i].ver = ent[i].ver
         /\ RotatorOwns'
<1> USE DEF EntryInv, StableInv
<1>1. CASE RotPop
  BY <1>1 DEF RotPop, EntryFields, mainVars
<1>2. CASE RotPreread
  BY <1>2 DEF RotPreread, EntryFields, mainVars
<1>3. CASE RotLook("look", "settings")
  BY <1>3 DEF RotLook, EntryFields, mainVars
<1>4. CASE RotSettings
  BY <1>4 DEF RotSettings, EntryFields, mainVars
<1>5. CASE RotLoad
  BY <1>5 DEF RotLoad, EntryFields, mainVars
<1>6. CASE RotLook("find", "entry")
  BY <1>6 DEF RotLook, EntryFields, mainVars
<1>7. CASE RotEntry
  BY <1>7 DEF RotEntry, EntryFields, mainVars
<1>8. CASE RotOld
  BY <1>8 DEF RotOld, RotRename, EntryFields, mainVars
<1>9. CASE RotNew
  BY <1>9 DEF RotNew, RotRename, EntryFields, mainVars
<1>10. CASE RotBack
  BY <1>10 DEF RotBack, EntryFields, mainVars
<1>11. CASE RotSwap
  BY <1>11 DEF RotSwap, EntryFields, mainVars
<1>12. CASE RotUnlock
  BY <1>12 DEF RotUnlock, EntryFields, mainVars
<1>13. CASE RotDone
  BY <1>13 DEF RotDone, EntryFields, mainVars
<1> QED BY <1>1, <1>2, <1>3, <1>4, <1>5, <1>6, <1>7, <1>8, <1>9, <1>10, <1>11, <1>12, <1>13 DEF RotatorStep

LEMMA RotatorStable ==
  ASSUME EntryInv, StableInv, RotatorStep
  PROVE  StableInv'
<1>1. Phases' /\ Kept'
  <2>1. \A t \in Session : t \in Thread \ {Rotator}
    OBVIOUS
  <2> QED BY <2>1, RotatorFrame, FrameKeeps
<1>2. RtStays'
  BY RotatorFrame DEF StableInv, EntryInv
<1> QED BY <1>1, <1>2, RotatorFrame DEF StableInv

LEMMA SessionFrame ==
  ASSUME EntryInv, StableInv, NEW t \in Session, SessionBegin(t) \/ SessionStep(t)
  PROVE  /\ UNCHANGED <<served, conf>> /\ todo'[Main] = todo[Main]
         /\ \A u \in Thread \ {t} : pc'[u] = pc[u] /\ ask'[u] = ask[u] /\ got'[u] = got[u]
         /\ \A i \in Index : wr[i] = Rotator => wr'[i] = Rotator
         /\ \A i \in Index : \A u \in Thread \ {t} : u \in rd'[i] <=> u \in rd[i]
<1> USE DEF EntryInv, StableInv
<1>1. CASE SearchBegin(t)
  BY <1>1 DEF SearchBegin
<1>2. CASE CheckLook(t)
  BY <1>2 DEF CheckLook
<1>3. CASE CheckLock(t)
  BY <1>3 DEF CheckLock
<1>4. CASE CheckRelease(t)
  BY <1>4 DEF CheckRelease
<1>5. CASE CheckDone(t)
  BY <1>5 DEF CheckDone
<1>6. CASE RunLook(t)
  BY <1>6 DEF RunLook
<1>7. CASE RunLock(t)
  BY <1>7 DEF RunLock
<1>8. CASE RunDone(t)
  BY <1>8 DEF RunDone
<1>9. CASE RunRelease(t)
  BY <1>9 DEF RunRelease, Reads
<1>10. CASE SearchEnd(t)
  BY <1>10 DEF SearchEnd, Reads
<1>11. CASE UpdateLook(t)
  BY <1>11 DEF UpdateLook
<1>12. CASE UpdateLock(t)
  BY <1>12 DEF UpdateLock
<1>13. CASE UpdateEnd(t)
  BY <1>13 DEF UpdateEnd
<1>14. CASE AttachBegin(t)
  BY <1>14 DEF AttachBegin
<1>15. CASE AttachLook(t, 1, "att_from", "att_from_wait", "att_to")
  BY <1>15 DEF AttachLook
<1>16. CASE AttachLock(t, "att_from_wait", "att_to")
  BY <1>16 DEF AttachLock
<1>17. CASE AttachLook(t, 2, "att_to", "att_to_wait", "attach")
  BY <1>17 DEF AttachLook
<1>18. CASE AttachLock(t, "att_to_wait", "attach")
  BY <1>18, SMTT(30) DEF AttachLock
<1>19. CASE AttachEnd(t)
  BY <1>19, ZenonT(40) DEF AttachEnd, Attachable
<1> QED BY <1>1, <1>2, <1>3, <1>4, <1>5, <1>6, <1>7,
           <1>8, <1>9, <1>10, <1>11, <1>12, <1>13, <1>14, <1>15, <1>16, <1>17, <1>18, <1>19
        DEF SessionBegin, SessionStep, AttachStep

\* Only ATTACH changes entries, two that it has locked.
LEMMA SessionEntries ==
  ASSUME EntryInv, StableInv, NEW t \in Session, SessionBegin(t) \/ SessionStep(t)
  PROVE  /\ EntShape'
         /\ \A i \in Index : ent'[i].toDelete = ent[i].toDelete
         /\ \A i \in Index : rd[i] = {} \/ ent'[i].ver = ent[i].ver
<1> USE DEF EntryInv, StableInv
<1>1. CASE SearchBegin(t)
  BY <1>1 DEF SearchBegin, EntryFields
<1>2. CASE CheckLook(t)
  BY <1>2 DEF CheckLook, EntryFields
<1>3. CASE CheckLock(t)
  BY <1>3 DEF CheckLock, EntryFields
<1>4. CASE CheckRelease(t)
  BY <1>4 DEF CheckRelease, EntryFields
<1>5. CASE CheckDone(t)
  BY <1>5 DEF CheckDone, EntryFields
<1>6. CASE RunLook(t)
  BY <1>6 DEF RunLook, EntryFields
<1>7. CASE RunLock(t)
  BY <1>7 DEF RunLock, EntryFields
<1>8. CASE RunDone(t)
  BY <1>8 DEF RunDone, EntryFields
<1>9. CASE RunRelease(t)
  BY <1>9 DEF RunRelease, Reads, EntryFields
<1>10. CASE SearchEnd(t)
  BY <1>10 DEF SearchEnd, Reads, EntryFields
<1>11. CASE UpdateLook(t)
  BY <1>11 DEF UpdateLook, EntryFields
<1>12. CASE UpdateLock(t)
  BY <1>12 DEF UpdateLock, EntryFields
<1>13. CASE UpdateEnd(t)
  BY <1>13 DEF UpdateEnd, EntryFields
<1>14. CASE AttachBegin(t)
  BY <1>14 DEF AttachBegin, EntryFields
<1>15. CASE AttachLook(t, 1, "att_from", "att_from_wait", "att_to")
  BY <1>15 DEF AttachLook, EntryFields
<1>16. CASE AttachLock(t, "att_from_wait", "att_to")
  BY <1>16 DEF AttachLock, EntryFields
<1>17. CASE AttachLook(t, 2, "att_to", "att_to_wait", "attach")
  BY <1>17 DEF AttachLook, EntryFields
<1>18. CASE AttachLock(t, "att_to_wait", "attach")
  BY <1>18, SMTT(30) DEF AttachLock, EntryFields
<1>19. CASE AttachEnd(t)
  <2> DEFINE a == args[t][1]
             b == args[t][2]
  <2>3. got' = got
    BY <1>19 DEF AttachEnd
  <2>1. CASE UNCHANGED ent
    BY <2>1, <2>3
  <2>2. CASE /\ wr[a] = t /\ wr[b] = t
             /\ ent' = [ent EXCEPT ![b].ver = ent[a].ver, ![a].ver = 0, ![a].enabled = FALSE]
    <3> HIDE DEF a, b
    <3>1. \A i \in Index : (i = a \/ i = b) => rd[i] = {}
      BY <2>2
    <3> QED BY <2>2, <2>3, <3>1 DEF EntryFields
  <2> QED BY <1>19, <2>1, <2>2, ZenonT(40) DEF AttachEnd, Attachable
<1> QED BY <1>1, <1>2, <1>3, <1>4, <1>5, <1>6, <1>7,
           <1>8, <1>9, <1>10, <1>11, <1>12, <1>13, <1>14, <1>15, <1>16, <1>17, <1>18, <1>19
        DEF SessionBegin, SessionStep, AttachStep

\* The session's own phase, and what it reads.
LEMMA SessionOwn ==
  ASSUME EntryInv, StableInv, NEW t \in Session, SessionBegin(t) \/ SessionStep(t)
  PROVE  /\ pc'[t] \in {"idle", "check", "check_wait", "upd_wait", "update", "att_from",
                       "att_from_wait", "att_to", "att_to_wait", "attach"}
              => \A i \in Index : t \notin rd'[i]
         /\ pc'[t] = "check_read" => \A i \in Index \ {ask'[t]} : t \notin rd'[i]
         /\ \A i \in Index : t \in rd'[i] /\ pc'[t] \in {"run", "run_wait", "release"}
              => ent'[i].ver = got'[t][i]
<1> USE DEF EntryInv, StableInv
<1>1. CASE SearchBegin(t)
  BY <1>1 DEF SearchBegin
<1>2. CASE CheckLook(t)
  BY <1>2 DEF CheckLook
<1>3. CASE CheckLock(t)
  BY <1>3 DEF CheckLock
<1>4. CASE CheckRelease(t)
  BY <1>4 DEF CheckRelease
<1>5. CASE CheckDone(t)
  BY <1>5 DEF CheckDone
<1>6. CASE RunLook(t)
  BY <1>6 DEF RunLook
<1>7. CASE RunLock(t)
  BY <1>7 DEF RunLock
<1>8. CASE RunDone(t)
  BY <1>8 DEF RunDone
<1>9. CASE RunRelease(t)
  BY <1>9 DEF RunRelease, Reads
<1>10. CASE SearchEnd(t)
  BY <1>10 DEF SearchEnd, Reads
<1>11. CASE UpdateLook(t)
  BY <1>11 DEF UpdateLook
<1>12. CASE UpdateLock(t)
  BY <1>12 DEF UpdateLock
<1>13. CASE UpdateEnd(t)
  BY <1>13 DEF UpdateEnd
<1>14. CASE AttachBegin(t)
  BY <1>14 DEF AttachBegin
<1>15. CASE AttachLook(t, 1, "att_from", "att_from_wait", "att_to")
  BY <1>15 DEF AttachLook
<1>16. CASE AttachLock(t, "att_from_wait", "att_to")
  BY <1>16 DEF AttachLock
<1>17. CASE AttachLook(t, 2, "att_to", "att_to_wait", "attach")
  BY <1>17 DEF AttachLook
<1>18. CASE AttachLock(t, "att_to_wait", "attach")
  BY <1>18, SMTT(30) DEF AttachLock
<1>19. CASE AttachEnd(t)
  BY <1>19 DEF AttachEnd, Attachable
<1> QED BY <1>1, <1>2, <1>3, <1>4, <1>5, <1>6, <1>7,
           <1>8, <1>9, <1>10, <1>11, <1>12, <1>13, <1>14, <1>15, <1>16, <1>17, <1>18, <1>19
        DEF SessionBegin, SessionStep, AttachStep

LEMMA SessionStable ==
  ASSUME EntryInv, StableInv, NEW t \in Session, SessionBegin(t) \/ SessionStep(t)
  PROVE  StableInv'
<1>1. EntShape'
  BY SessionEntries
<1>2. Phases'
  <2> SUFFICES ASSUME NEW u \in Session \ {t}
               PROVE  /\ pc'[u] \in {"idle", "check", "check_wait", "upd_wait", "update", "att_from",
                                     "att_from_wait", "att_to", "att_to_wait", "attach"}
                           => \A i \in Index : u \notin rd'[i]
                      /\ pc'[u] = "check_read" => \A i \in Index \ {ask'[u]} : u \notin rd'[i]
    BY SessionOwn
  <2> QED BY SessionFrame DEF StableInv
<1>3. RotatorOwns'
  <2>1. pc'[Rotator] = pc[Rotator] /\ ask'[Rotator] = ask[Rotator]
    BY SessionFrame
  <2> QED BY <2>1, SessionFrame DEF StableInv
<1>4. RtStays'
  <2>1. pc'[Main] = pc[Main] /\ ask'[Main] = ask[Main]
    BY SessionFrame
  <2> QED BY <2>1, SessionFrame, SessionEntries DEF StableInv, EntryInv
<1>5. Kept'
  <2> SUFFICES ASSUME NEW u \in Session \ {t}, NEW i \in Index, u \in rd'[i],
                      pc'[u] \in {"run", "run_wait", "release"}
               PROVE  ent'[i].ver = got'[u][i]
    BY SessionOwn
  <2>1. u \in rd[i] /\ pc[u] = pc'[u] /\ got'[u] = got[u]
    BY SessionFrame
  <2>2. ent'[i].ver = ent[i].ver
    BY <2>1, SessionEntries
  <2> QED BY <2>1, <2>2 DEF StableInv
<1> QED BY <1>1, <1>2, <1>3, <1>4, <1>5 DEF StableInv

LEMMA OutsideStable ==
  ASSUME EntryInv, StableInv, Removable \cap RtIndex = {},
         (\E i \in Index \ RtIndex : Build(i)) \/ EditConf \/ Crash
  PROVE  StableInv'
<1> USE DEF EntryInv, StableInv
<1>1. CASE \E i \in Index \ RtIndex : Build(i)
  BY <1>1 DEF Build, mainVars
<1>2. CASE EditConf
  BY <1>2 DEF EditConf, mainVars
<1>3. CASE Crash
  <2>1. EntShape'
    BY <1>3, NewEntryFields, StartEntryFields DEF Crash, Fresh, NoVersions
  <2>2. Phases' /\ Kept'
    BY <1>3 DEF Crash
  <2>3. RotatorOwns'
    BY <1>3 DEF Crash, StartPc
  <2>4. RtStays'
    <3>1. pc'[Main] = "head" /\ served' = conf /\ conf' = conf
      BY <1>3 DEF Crash, StartPc
    <3>2. \A i \in served' : ~ent'[i].toDelete
      BY <1>3, StartEntryFields DEF Crash
    <3> QED BY <3>1, <3>2
  <2> QED BY <2>1, <2>2, <2>3, <2>4
<1> QED BY <1>1, <1>2, <1>3

\* The index a search got a pointer to stays in its place and keeps its contents
\* until the search lets go of it.
THEOREM SearchesStable ==
  ASSUME Removable \cap RtIndex = {}
  PROVE  Spec => []SearchStable
<1>1. EntryInv /\ StableInv /\ [Next]_vars => StableInv'
  <2> SUFFICES ASSUME EntryInv, StableInv, [Next]_vars PROVE StableInv'
    OBVIOUS
  <2>1. CASE MainStep
    BY <2>1, MainStable
  <2>2. CASE RotatorStep
    BY <2>2, RotatorStable
  <2>3. CASE \E t \in Session : SessionBegin(t) \/ SessionStep(t)
    BY <2>3, SessionStable
  <2>4. CASE (\E i \in Index \ RtIndex : Build(i)) \/ EditConf \/ Crash
    BY <2>4, OutsideStable
  <2>5. CASE UNCHANGED vars
    BY <2>5 DEF vars, StableInv, mainVars
  <2> QED BY <2>1, <2>2, <2>3, <2>4, <2>5 DEF Next
<1>2. EntryInv /\ StableInv => SearchStable
  BY DEF SearchStable, Reads, StableInv, EntryInv
<1> QED BY InitStable, EntryInvariant, <1>1, <1>2, PTL DEF Spec
=============================================================================
