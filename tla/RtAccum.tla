------------------------------- MODULE RtAccum ------------------------------
(***************************************************************************)
(* Transactions of SphinxQL sessions over RT indexes: the accumulator      *)
(* RtAccum_t of src/src/sphinxrt.cpp and the statements of                 *)
(* src/src/searchd.cpp that fill it (INSERT, REPLACE, DELETE), commit it   *)
(* (COMMIT, BEGIN, SET AUTOCOMMIT, autocommit) or drop it (ROLLBACK, the   *)
(* end of the session).                                                    *)
(*                                                                         *)
(* A session has one accumulator, for one index at a time.  The rows and   *)
(* the hits of its documents are two arrays that only the number of hits   *)
(* of every row ties together.  The index itself is abstract here: a       *)
(* commit takes effect at once, as RtIndex is shown to do.  A document is  *)
(* an identifier with one of a few texts; a text is its sequence of hits.  *)
(***************************************************************************)
EXTENDS Integers, Sequences, FiniteSets, SequencesExt

CONSTANTS
  Index,        \* RT indexes
  Session,
  Doc,
  Text,         \* texts a document may have
  Word,
  Hits,         \* the hits the source makes of a text; one may come twice in a row
  Inserts,      \* INSERT and REPLACE statements: [index, rows]
  Deletes,      \* DELETE statements: [index, docs]
  Changing,     \* the indexes that are dumped, altered and dropped
  BadRow,       \* values that HandleMysqlInsert cannot convert
  BadText,      \* a document that AddDocument refuses when it has the accumulator
  Garbage,      \* what a row is when it is read with another row size
  NoIndex, NoRow, Kept, NoStatement,
  DeleteOwn,    \* do transactions delete documents they have inserted?
  AlterInTxn,   \* is an index altered while rows wait for it?
  DropInTxn,    \* may the config lose an index while a transaction is about it?
  MaxRows,      \* bound: rows of a transaction
  MaxAfterRollback, \* bound: rows of the transaction that follows a ROLLBACK
  MaxAlters     \* bound: ALTERs of an index

ASSUME NamesAssumption ==
  /\ NoIndex \notin Index /\ NoRow # Kept
  /\ Text \cap {BadRow, BadText, Garbage, NoRow, Kept} = {} /\ BadRow # BadText
  /\ NoRow \notin [text : Text, words : [Word -> Nat], ram : BOOLEAN]
  /\ Kept \notin [text : Text, words : [Word -> Nat]]
ASSUME HitsAssumption == Hits \in [Text -> Seq(Word)]
ASSUME StatementsAssumption ==
  /\ Inserts \subseteq [index : Index, rows : Seq([doc : Doc, text : Text \cup {BadRow, BadText}])]
  /\ Deletes \subseteq [index : Index, docs : SUBSET Doc]
  /\ Changing \subseteq Index
ASSUME BoundAssumption ==
  /\ {DeleteOwn, AlterInTxn, DropInTxn} \subseteq BOOLEAN
  /\ {MaxRows, MaxAfterRollback, MaxAlters} \subseteq Nat /\ MaxAfterRollback <= MaxRows

VARIABLES
  acc,      \* accumulators; m_iAccumDocs is the number of rows
  opts,     \* m_bAutoCommit and m_bInTransaction of every session
  stmt,     \* the statement a session is in: what is left of it, and its lock on the index
  stored,   \* the committed documents: text, hits per word, and whether a RAM segment has them
  cols,     \* version of the schema of every index
  live,     \* the indexes that are served
  want      \* history: what the transaction wants of every document

vars == <<acc, opts, stmt, stored, cols, live, want>>

-----------------------------------------------------------------------------
(* The accumulator. *)

NoAcc == [index |-> NoIndex, rows |-> <<>>, hits |-> <<>>, counts |-> <<>>, kill |-> {}]
Nothing == [d \in Doc |-> Kept]

\* The hits of a text that are kept: "ignore duplicate hits".
Distinct == [t \in Text |->
  LET kept[n \in 0..Len(Hits[t])] ==
        IF n = 0 THEN <<>>
        ELSE IF kept[n - 1] # <<>> /\ Last(kept[n - 1]) = Hits[t][n] THEN kept[n - 1]
        ELSE Append(kept[n - 1], Hits[t][n])
  IN kept[Len(Hits[t])]]

HitsOfRow(d, t) == [n \in 1..Len(Distinct[t]) |-> [doc |-> d, word |-> Distinct[t][n]]]

\* Mutant: no count is kept for a document without hits.
AddDocument_NoEmptyCount(a, i, d, t) ==
  [a EXCEPT !.index = i,
            !.kill = @ \cup {d},
            !.rows = Append(@, [doc |-> d, text |-> t, cols |-> cols[i]]),
            !.hits = @ \o HitsOfRow(d, t),
            !.counts = IF Hits[t] = <<>> THEN @ ELSE Append(@, Len(Hits[t]))]

\* RtAccum_t::AddDocument.  The count is that of all hits, the ignored ones included.
AddDocument(a, i, d, t) ==
  [a EXCEPT !.index = i,
            !.kill = @ \cup {d},
            !.rows = Append(@, [doc |-> d, text |-> t, cols |-> cols[i]]),
            !.hits = @ \o HitsOfRow(d, t),
            !.counts = Append(@, Len(Hits[t]))]

\* Where the hits of row r begin, as the counts have it.
HitIndex(a, r) ==
  LET before[n \in 0..Len(a.counts)] == IF n = 0 THEN 0 ELSE before[n - 1] + a.counts[n]
  IN before[r - 1]

\* Removes n hits from position p on: those behind move down, the array is cut.
Cut(hits, p, n) ==
  IF p + n < Len(hits) THEN SubSeq(hits, 1, p) \o SubSeq(hits, p + n + 1, Len(hits))
                       ELSE SubSeq(hits, 1, Len(hits) - n)

\* The rows that a later row of the same document makes void.
Duplicates(a) == {r \in 1..Len(a.rows) : \E n \in r + 1..Len(a.rows) : a.rows[n].doc = a.rows[r].doc}

\* The rows that stay.
LastRows(a) ==
  LET kept[n \in 0..Len(a.rows)] ==
        IF n = 0 THEN <<>>
        ELSE IF n \in Duplicates(a) THEN kept[n - 1] ELSE Append(kept[n - 1], a.rows[n])
  IN kept[Len(a.rows)]

\* The hits without those of row r, if it does not stay.
CutRow(a, hits, r) ==
  IF r \in Duplicates(a) THEN Cut(hits, HitIndex(a, r), a.counts[r]) ELSE hits

\* Mutant: hits are cut from the first duplicate on.
LastHits_FromFirst(a) ==
  LET hits[n \in 0..Len(a.rows)] == IF n = 0 THEN a.hits ELSE CutRow(a, hits[n - 1], n)
  IN hits[Len(a.rows)]

\* The last duplicate is cut first, so that the hits before it keep their places.
LastHits(a) ==
  LET hits[n \in 0..Len(a.rows)] ==
        IF n = 0 THEN a.hits ELSE CutRow(a, hits[n - 1], Len(a.rows) + 1 - n)
  IN hits[Len(a.rows)]

CleanupDuplicates(a) == [a EXCEPT !.rows = LastRows(a), !.hits = LastHits(a)]

\* CreateSegment: hits find their row by the document.
Segment(a) ==
  LET RowOf(d) == a.rows[CHOOSE r \in 1..Len(a.rows) : a.rows[r].doc = d]
  IN [d \in {a.rows[r].doc : r \in 1..Len(a.rows)} |->
       [text |-> IF RowOf(d).cols = cols[a.index] THEN RowOf(d).text ELSE Garbage,
        words |-> [w \in Word |-> Cardinality({n \in 1..Len(a.hits) : a.hits[n] = [doc |-> d, word |-> w]})],
        ram |-> TRUE]]

\* The documents of an index after a commit: the segment's are new, the others of the
\* kill-list are gone.
Committed(a) ==
  LET new == Segment(IF Len(a.rows) <= 1 THEN a ELSE CleanupDuplicates(a))
  IN [d \in Doc |-> IF d \in DOMAIN new THEN new[d]
                    ELSE IF d \in a.kill THEN NoRow ELSE stored[a.index][d]]

\* RtIndex_t::Commit by the session s with accumulator a.  The index must still be
\* there, and the assertion of CleanupDuplicates must hold.
Commit(s, a) ==
  /\ a.index \in live
  /\ Len(a.rows) <= 1 \/ Len(a.counts) = Len(a.rows)
  /\ stored' = [stored EXCEPT ![a.index] = Committed(a)]
  /\ acc' = [acc EXCEPT ![s] = NoAcc]
  /\ want' = [want EXCEPT ![s] = Nothing]

\* BEGIN, COMMIT and SET AUTOCOMMIT = 1 commit what there is.
CommitPending(s) ==
  IF acc[s].index = NoIndex THEN UNCHANGED <<acc, stored, want>> ELSE Commit(s, acc[s])

-----------------------------------------------------------------------------
(* Statements.  INSERT holds the served index for reading, DELETE for      *)
(* writing, to the end of the statement; the other statements hold nothing.*)

Idle(s)     == stmt[s] = NoStatement
OnIndex(i)  == {s \in Session : stmt[s] # NoStatement /\ stmt[s].index = i}
Acquired(s, i) == acc[s].index \in {i, NoIndex}

\* Autocommit at the time the statement starts.
AutoCommit(s) == opts[s].auto /\ ~opts[s].intxn

\* The bounds on the rows of a transaction, and on the counts that rollbacks leave.
InBounds(a, n) ==
  /\ Len(a.counts) + n <= MaxRows
  /\ Len(a.counts) > Len(a.rows) => Len(a.rows) + n <= MaxAfterRollback

InsertBegin(s) ==
  /\ Idle(s)
  /\ \E q \in Inserts, replace \in BOOLEAN :
       /\ q.index \in live /\ \A u \in OnIndex(q.index) : ~stmt[u].exclusive
       /\ InBounds(acc[s], Len(q.rows))
       /\ stmt' = [stmt EXCEPT ![s] = [index |-> q.index, replace |-> replace, rows |-> q.rows,
                                       commit |-> AutoCommit(s), exclusive |-> FALSE]]
  /\ UNCHANGED <<acc, opts, stored, cols, live, want>>

InRam(i, d) == stored[i][d] # NoRow /\ stored[i][d].ram

\* The check for duplicates looks at RAM segments only.
InsertRow(s) ==
  /\ ~Idle(s) /\ stmt[s].rows # <<>>
  /\ LET i == stmt[s].index
         d == Head(stmt[s].rows).doc
         t == Head(stmt[s].rows).text
     IN /\ t \in Text
        /\ stmt[s].replace \/ ~InRam(i, d)
        /\ Acquired(s, i)
        /\ Len(acc[s].rows) < IF Len(acc[s].counts) = Len(acc[s].rows) THEN MaxRows ELSE MaxAfterRollback
        /\ acc' = [acc EXCEPT ![s] = AddDocument(@, i, d, t)]
        /\ want' = [want EXCEPT ![s][d] = t]
  /\ stmt' = [stmt EXCEPT ![s].rows = Tail(@)]
  /\ UNCHANGED <<opts, stored, cols, live>>

\* A statement that fails leaves the rows it has added, and the accumulator it has
\* acquired.
InsertFails(s) ==
  /\ ~Idle(s) /\ stmt[s].rows # <<>>
  /\ LET i == stmt[s].index
         row == Head(stmt[s].rows)
         added == row.text # BadRow /\ (stmt[s].replace \/ ~InRam(i, row.doc))
     IN \/ (~added \/ ~Acquired(s, i)) /\ UNCHANGED acc
        \/ /\ added /\ Acquired(s, i) /\ row.text = BadText
           /\ acc' = [acc EXCEPT ![s].index = i]
  /\ stmt' = [stmt EXCEPT ![s] = NoStatement]
  /\ UNCHANGED <<opts, stored, cols, live, want>>

\* DELETE schedules kills; the segment of the transaction does not see them.
DeleteBegin(s) ==
  /\ Idle(s)
  /\ \E q \in Deletes : LET i == q.index  D == q.docs IN
       /\ i \in live /\ OnIndex(i) = {} /\ Acquired(s, i)
       /\ DeleteOwn \/ \A r \in 1..Len(acc[s].rows) : acc[s].rows[r].doc \notin D
       /\ stmt' = [stmt EXCEPT ![s] = [index |-> i, replace |-> FALSE, rows |-> <<>>,
                                       commit |-> AutoCommit(s), exclusive |-> TRUE]]
       /\ acc' = [acc EXCEPT ![s].index = i, ![s].kill = @ \cup D]
       /\ want' = [want EXCEPT ![s] = [d \in Doc |-> IF d \in D THEN NoRow ELSE @[d]]]
  /\ UNCHANGED <<opts, stored, cols, live>>

StatementEnd(s) ==
  /\ ~Idle(s) /\ stmt[s].rows = <<>>
  /\ IF stmt[s].commit THEN Commit(s, acc[s]) ELSE UNCHANGED <<acc, stored, want>>
  /\ stmt' = [stmt EXCEPT ![s] = NoStatement]
  /\ UNCHANGED <<opts, cols, live>>

BeginTxn(s) ==
  /\ Idle(s)
  /\ opts' = [opts EXCEPT ![s].intxn = TRUE]
  /\ CommitPending(s)
  /\ UNCHANGED <<stmt, cols, live>>

CommitTxn(s) ==
  /\ Idle(s)
  /\ opts' = [opts EXCEPT ![s].intxn = FALSE]
  /\ CommitPending(s)
  /\ UNCHANGED <<stmt, cols, live>>

\* RollBack leaves m_dPerDocHitsCount as it is.
RollbackTxn(s) ==
  /\ Idle(s)
  /\ opts' = [opts EXCEPT ![s].intxn = FALSE]
  /\ IF acc[s].index = NoIndex THEN UNCHANGED <<acc, want>>
     ELSE /\ acc' = [acc EXCEPT ![s] = [NoAcc EXCEPT !.counts = acc[s].counts]]
          /\ want' = [want EXCEPT ![s] = Nothing]
  /\ UNCHANGED <<stmt, stored, cols, live>>

SetAutocommit(s) ==
  /\ Idle(s)
  /\ \E b \in BOOLEAN :
       /\ opts' = [opts EXCEPT ![s] = [auto |-> b, intxn |-> FALSE]]
       /\ IF b THEN CommitPending(s) ELSE UNCHANGED <<acc, stored, want>>
  /\ UNCHANGED <<stmt, cols, live>>

Options == [auto |-> TRUE, intxn |-> FALSE]

\* The end of a session's thread (AccumCleanup); the next session starts afresh.
Disconnect(s) ==
  /\ Idle(s)
  /\ acc' = [acc EXCEPT ![s] = NoAcc]
  /\ opts' = [opts EXCEPT ![s] = Options]
  /\ want' = [want EXCEPT ![s] = Nothing]
  /\ UNCHANGED <<stmt, stored, cols, live>>

-----------------------------------------------------------------------------
(* What others do to the index. *)

\* Its RAM segments become a disk chunk.
Dump(i) ==
  /\ \E d \in Doc : InRam(i, d)
  /\ stored' = [stored EXCEPT ![i] = [d \in Doc |->
       IF @[d] = NoRow THEN NoRow ELSE [@[d] EXCEPT !.ram = FALSE]]]
  /\ UNCHANGED <<acc, opts, stmt, cols, live, want>>

\* ALTER TABLE, with the served index locked for writing, gives rows another size.
Alter(i) ==
  /\ i \in live /\ OnIndex(i) = {} /\ cols[i] < MaxAlters
  /\ AlterInTxn \/ \A s \in Session : acc[s].index = i => acc[s].rows = <<>>
  /\ cols' = [cols EXCEPT ![i] = @ + 1]
  /\ UNCHANGED <<acc, opts, stmt, stored, live, want>>

\* Mutant: the index is deleted under a statement that has it locked.
Drop_NoWait(i) ==
  /\ i \in live
  /\ DropInTxn \/ \A s \in Session : acc[s].index # i
  /\ live' = live \ {i}
  /\ UNCHANGED <<acc, opts, stmt, stored, cols, want>>

\* A reload of the config deletes the index when nobody has it locked.
Drop(i) ==
  /\ i \in live /\ OnIndex(i) = {}
  /\ DropInTxn \/ \A s \in Session : acc[s].index # i
  /\ live' = live \ {i}
  /\ UNCHANGED <<acc, opts, stmt, stored, cols, want>>

-----------------------------------------------------------------------------
Init ==
  /\ acc = [s \in Session |-> NoAcc]
  /\ opts = [s \in Session |-> Options]
  /\ stmt = [s \in Session |-> NoStatement]
  /\ stored = [i \in Index |-> [d \in Doc |-> NoRow]]
  /\ cols = [i \in Index |-> 0]
  /\ live = Index
  /\ want = [s \in Session |-> Nothing]

Next ==
  \/ \E s \in Session :
       \/ InsertBegin(s) \/ InsertRow(s) \/ InsertFails(s) \/ DeleteBegin(s) \/ StatementEnd(s)
       \/ BeginTxn(s) \/ CommitTxn(s) \/ RollbackTxn(s) \/ SetAutocommit(s) \/ Disconnect(s)
  \/ \E i \in Changing : Dump(i) \/ Alter(i) \/ Drop(i)

Spec == Init /\ [][Next]_vars

-----------------------------------------------------------------------------
(* Properties *)

WordCount == [Word -> Nat]

TypeOK ==
  /\ \A s \in Session :
       /\ acc[s].index \in Index \cup {NoIndex}
       /\ acc[s].rows \in Seq([doc : Doc, text : Text, cols : 0..MaxAlters]) /\ Len(acc[s].rows) <= MaxRows
       /\ acc[s].hits \in Seq([doc : Doc, word : Word])
       /\ acc[s].counts \in Seq(Nat) /\ acc[s].kill \subseteq Doc
       /\ opts[s] \in [auto : BOOLEAN, intxn : BOOLEAN]
       /\ stmt[s] # NoStatement =>
            /\ stmt[s].index \in live /\ {stmt[s].replace, stmt[s].commit, stmt[s].exclusive} \subseteq BOOLEAN
            /\ stmt[s].rows \in Seq([doc : Doc, text : Text \cup {BadRow, BadText}])
  /\ \A i \in Index, d \in Doc :
       stored[i][d] = NoRow \/ stored[i][d] \in [text : Text, words : WordCount, ram : BOOLEAN]
  /\ cols \in [Index -> 0..MaxAlters] /\ live \subseteq Index
  /\ want \in [Session -> [Doc -> Text \cup {NoRow, Kept}]]

\* What a document of text t is to a query.
ContentOf == [t \in Text |->
  [text |-> t, words |-> [w \in Word |-> Cardinality({n \in 1..Len(Distinct[t]) : Distinct[t][n] = w})]]]
Contents == {ContentOf[t] : t \in Text}

Found(i, d) == IF stored[i][d] = NoRow THEN NoRow
               ELSE [text |-> stored[i][d].text, words |-> stored[i][d].words]

Wants(w) == [d \in Doc |-> IF w[d] \in Text THEN ContentOf[w[d]] ELSE w[d]]
Docs     == [i \in Index |-> [d \in Doc |-> Found(i, d)]]
Pending  == [s \in Session |-> [index |-> acc[s].index, want |-> Wants(want[s])]]

Store == INSTANCE TxnStore WITH Content <- Contents, docs <- Docs, pending <- Pending

\* A commit makes, at once and in one index, what the statements of the transaction say:
\* the last version of each document, found by the words of that version and no others;
\* ROLLBACK and the end of a session leave nothing behind for the next transaction.
RefinesTxnStore == Store!Spec

\* Where CleanupDuplicates will use the counts, they lead to the hits of every row:
\* its assertion holds, and the parts they cut the hits into are those of the rows.
HitsFollowRows ==
  \A s \in Session : LET a == acc[s] IN
    Len(a.rows) > 1 =>
      /\ Len(a.counts) = Len(a.rows)
      /\ HitIndex(a, Len(a.rows) + 1) = Len(a.hits)
      /\ \A r \in 1..Len(a.rows) :
           SubSeq(a.hits, HitIndex(a, r) + 1, HitIndex(a, r + 1))
             = HitsOfRow(a.rows[r].doc, a.rows[r].text)

\* "Rows with duplicate IDs will not be overwritten by INSERT; use REPLACE to do that."
InsertOverwritesNothing ==
  [][\A s \in Session : InsertRow(s) /\ ~stmt[s].replace
       => stored[stmt[s].index][Head(stmt[s].rows).doc] = NoRow]_vars

\* "AUTOCOMMIT is set to 1 by default, meaning that every statement that performs any
\* changes on any index is implicitly wrapped in BEGIN and COMMIT."
AutocommitLeavesNothing ==
  \A s \in Session : Idle(s) /\ AutoCommit(s) => acc[s].index = NoIndex

\* COMMIT uses the index of the transaction without looking it up.
TxnIndexAlive == \A s \in Session : acc[s].index \in live \cup {NoIndex}

\* The rows that wait have the row size of the index they wait for.
RowsFitSchema ==
  \A s \in Session : \A r \in 1..Len(acc[s].rows) : acc[s].rows[r].cols = cols[acc[s].index]
=============================================================================
