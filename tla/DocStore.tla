------------------------------ MODULE DocStore ------------------------------
(***************************************************************************)
(* What a real-time index promises to its clients: one version of every    *)
(* document, and every request of a client (a transaction, an UPDATE, a    *)
(* TRUNCATE) takes effect once, as a whole, at some moment between its     *)
(* start and its end.  Nothing else changes a document: not the merging,   *)
(* saving and moving of documents that goes on behind it.                  *)
(*                                                                         *)
(* Text, attributes and ranking are abstracted to one value per version.   *)
(***************************************************************************)
CONSTANTS Doc,      \* document identifiers
          Val,      \* versions a document may have
          NoRow,    \* "there is no such document"
          Client

VARIABLES docs,     \* the version every document has now
          pending   \* the request of every client that has not taken effect

NoRows == [d \in Doc |-> NoRow]

\* What a request adds, what it kills first, and whether it is an UPDATE,
\* which changes no document that is not there.  TRUNCATE kills all documents.
Request == [adds : [Doc -> Val \cup {NoRow}], kill : SUBSET Doc, update : BOOLEAN]
Nothing == [adds |-> NoRows, kill |-> {}, update |-> FALSE]

Result(r) ==
    [d \in Doc |-> IF r.adds[d] # NoRow /\ (r.update => docs[d] # NoRow) THEN r.adds[d]
                   ELSE IF d \in r.kill THEN NoRow ELSE docs[d]]

Init ==
    /\ docs = NoRows
    /\ pending = [c \in Client |-> Nothing]

Start(c) ==
    /\ pending[c] = Nothing
    /\ pending'[c] \in Request \ {Nothing}
    /\ pending' = [pending EXCEPT ![c] = pending'[c]]
    /\ UNCHANGED docs

TakeEffect(c) ==
    /\ pending[c] # Nothing
    /\ docs' = Result(pending[c])
    /\ pending' = [pending EXCEPT ![c] = Nothing]

Next == \E c \in Client : Start(c) \/ TakeEffect(c)

Spec == Init /\ [][Next]_<<docs, pending>>
=============================================================================
