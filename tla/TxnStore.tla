------------------------------ MODULE TxnStore ------------------------------
(***************************************************************************)
(* What a session may rely on: the changes of a transaction wait until it  *)
(* is committed and are then made at once to the one index of the          *)
(* transaction, the last change of a document before the others; a         *)
(* transaction that is rolled back, or whose session ends, changes         *)
(* nothing.  RtAccum implements it.                                        *)
(***************************************************************************)
CONSTANTS Index, Session, Doc,
          Content,   \* what a document may be
          NoRow,     \* "there is no such document"
          Kept,      \* "the transaction does not touch it"
          NoIndex

VARIABLES docs,      \* what a query finds: the content of every document of every index
          pending    \* per session, the index its transaction is about and what it wants there

vars == <<docs, pending>>

NoTxn == [index |-> NoIndex, want |-> [d \in Doc |-> Kept]]

Init ==
  /\ docs = [i \in Index |-> [d \in Doc |-> NoRow]]
  /\ pending = [s \in Session |-> NoTxn]

\* A transaction stays with its first index.
Change(s) ==
  /\ \E i \in Index, D \in SUBSET Doc, c \in Content \cup {NoRow} :
       /\ pending[s].index \in {i, NoIndex}
       /\ pending' = [pending EXCEPT ![s] =
            [index |-> i, want |-> [d \in Doc |-> IF d \in D THEN c ELSE pending[s].want[d]]]]
  /\ UNCHANGED docs

Commit(s) ==
  LET i == pending[s].index
      w == pending[s].want
  IN /\ i # NoIndex
     /\ docs' = [docs EXCEPT ![i] = [d \in Doc |-> IF w[d] = Kept THEN docs[i][d] ELSE w[d]]]
     /\ pending' = [pending EXCEPT ![s] = NoTxn]

Rollback(s) ==
  /\ pending' = [pending EXCEPT ![s] = NoTxn]
  /\ UNCHANGED docs

Next == \E s \in Session : Change(s) \/ Commit(s) \/ Rollback(s)

Spec == Init /\ [][Next]_vars
=============================================================================
