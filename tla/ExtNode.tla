------------------------------- MODULE ExtNode -------------------------------
(***************************************************************************)
(* The match streamers of the query engine (ExtTerm_c, ExtAnd_c, ExtOr_c,  *)
(* ExtAndNot_c and ExtPhrase_c of src/src/sphinxsearch.cpp).               *)
(*                                                                         *)
(* A query is a tree of nodes that are asked from the root down: for the   *)
(* next chunk of matching documents, and then, until there is none, for    *)
(* chunks of the word occurrences (hits) in these documents.  Chunks are   *)
(* small, so that a node always holds a part of what its children gave it. *)
(*                                                                         *)
(* A pointer into a chunk is what is left of the chunk: the end marker     *)
(* (DOCID_MAX) is <<>>, and no chunk at all is Null.  The copy is exact,   *)
(* because a chunk has one reader, who asks for another only when done.    *)
(***************************************************************************)
EXTENDS Integers, Sequences, SequencesExt

CONSTANTS
  Null,       \* NULL
  MaxDocs,    \* MAX_DOCS: a chunk has up to MaxDocs - 1 documents ...
  MaxHits,    \* MAX_HITS: ... or up to MaxHits - 1 hits
  SkipBlock,  \* SPH_SKIPLIST_BLOCK
  DOCID_MAX   \* more than every document ID, and than the checks of the timer

ASSUME ChunkAssumption == MaxDocs \in Nat /\ MaxDocs > 1 /\ MaxHits \in Nat /\ MaxHits > 1
ASSUME SkipAssumption == SkipBlock \in Nat \ {0} /\ DOCID_MAX \in Nat

VARIABLES
  input,  \* what the query is run with; it never changes
  seg     \* the segment of a real-time index that is searched

query    == input.query      \* nodes [op, word, qpos], [op, kids] or [op, kids, atoms]; the root is 1
text     == input.segs[seg]  \* the words of every document
disk     == input.disk       \* a disk index?  RtQword_t has no skip list
deadline == input.deadline   \* the check of the timer (m_iMaxTimer) that finds the time over

-----------------------------------------------------------------------------
(* Chunks *)

Id(docs)    == IF docs = <<>> THEN DOCID_MAX ELSE docs[1]
HitId(hits) == IF hits = <<>> THEN DOCID_MAX ELSE hits[1].doc
Idle(p)     == p = Null \/ p = <<>>
At(hits, d) == hits # Null /\ HitId(hits) = d
NonEmpty(p) == IF p = <<>> THEN Null ELSE p
Common(p, docs) == p # <<>> /\ p[1] \in Range(docs)

Ascending(S)      == SelectSeq([k \in 1..Max(S \cup {0}) |-> k], LAMBDA k : k \in S)
From(docs, d)     == SelectSeq(docs, LAMBDA x : x >= d)
HitsFrom(hits, d) == SelectSeq(hits, LAMBDA h : h.doc >= d)
HitDocs(hits)     == {h.doc : h \in Range(hits)}

\* Where two ascending lists that skip to each other stop: at the first common
\* document, or past the end of the one that ends first.
Meet(A, B) == CASE A \cap B # {}      -> Min(A \cap B)
                [] A = {} \/ B = {}   -> DOCID_MAX
                [] OTHER              -> Min({Max(A), Max(B)}) + 1

\* The documents with a word, and the positions of a word in a document.
DocList(w)      == Ascending({d \in DOMAIN text : w \in Range(text[d])})
HitList(w, d)   == SelectSeq([k \in DOMAIN text[d] |-> k], LAMBDA k : text[d][k] = w)

-----------------------------------------------------------------------------
(* The state s of a tree: the nodes, and the checks of the timer so far *)

NewNode(n) ==
    CASE query[n].op = "term" ->
           [chunk |-> <<>>,          \* m_dDocs
            last |-> <<>>,           \* m_pLastChecked
            maxId |-> 0,             \* m_uMaxID
            checked |-> 0,           \* m_uMatchChecked
            tail |-> FALSE,          \* m_bTail
            over |-> FALSE,          \* m_pQword->m_iDocs = 0
            next |-> 1,              \* position in the document list
            hits |-> <<>>]           \* position in the hit list
      [] query[n].op \in {"and", "or", "andnot"} ->
           [doc |-> <<Null, Null>>,  \* m_pCurDoc
            hit |-> <<Null, Null>>,  \* m_pCurHit
            matched |-> 0,           \* m_uMatchedDocid
            pass |-> FALSE]          \* m_bPassthrough
      [] query[n].op = "phrase" ->
           [docs |-> Null,           \* m_pDocs, with m_pDoc
            docsMax |-> 0,           \* m_uDocsMaxID
            hit |-> Null,            \* m_pHit
            chunk |-> <<>>,          \* m_dDocs
            maxId |-> 0,             \* m_uMaxID
            myDoc |-> <<>>,          \* m_pMyDoc
            myHit |-> <<>>,          \* m_dMyHits from m_pMyHit on
            last |-> 0,              \* m_uLastDocID
            matched |-> 0,           \* m_uMatchedDocid
            hitsOver |-> 0,          \* m_uHitsOverFor
            states |-> {}]           \* m_dStates

NewTree == [node |-> [n \in DOMAIN query |-> NewNode(n)], clock |-> 0]

\* Reset, before the next segment: the buffers keep what they have.
ResetNode(n, r) ==
    LET new == NewNode(n)
    IN  CASE query[n].op = "term" ->
               [new EXCEPT !.chunk = r.chunk, !.last = r.chunk, !.maxId = r.maxId]
          [] query[n].op = "phrase" ->
               [new EXCEPT !.chunk = r.chunk, !.maxId = r.maxId, !.docsMax = r.docsMax]
          [] OTHER -> new

Reset(s) == [s EXCEPT !.node = [n \in DOMAIN query |-> ResetNode(n, s.node[n])]]

Kid(n, i)       == query[n].kids[i]
Put(s, n, r)    == [s EXCEPT !.node[n] = r]
Give(s, n, r, p) == [s |-> Put(s, n, r), p |-> NonEmpty(p)]

RECURSIVE GetDocs(_, _), GetHits(_, _, _, _), HintDocid(_, _, _), EmitTerm(_, _, _, _, _),
          AndDocs(_, _), EmitAnd(_), Drain(_, _, _), AndLoop(_), OrLoop(_), EmitOr(_),
          TailOr(_, _), OrLoopHits(_), OrRest2(_, _), OrNext(_), OrAim(_, _), AndNotLoop(_), SkipLast(_), Scan(_), EmitTail(_),
          PhraseLoop(_)

-----------------------------------------------------------------------------
(* ExtTerm_c *)

\* The documents behind which a block of the skip list begins, except the first block.
Jumps(list) == {k * SkipBlock : k \in 1..(IF disk THEN (Len(list) \div SkipBlock) - 1 ELSE 0)}

\* Mutant: the hint goes to the block that may begin behind the document.
HintTerm_Past(n, t, d) ==
    LET list == DocList(query[n].word)
    IN  [t EXCEPT !.next = Max({@} \cup {i + 1 : i \in {j \in Jumps(list) : list[j] <= d}})]

\* DiskIndexQword_c::HintDocid: the last block of the skip list that cannot begin
\* behind the document, unless the reader is past it.
HintTerm(n, t, d) ==
    LET list == DocList(query[n].word)
    IN  [t EXCEPT !.next = Max({@} \cup {i + 1 : i \in {j \in Jumps(list) : list[j] < d}})]

HintDocid(s, n, d) ==
    CASE query[n].op = "term" -> Put(s, n, HintTerm(n, s.node[n], d))
      [] query[n].op = "phrase" -> HintDocid(s, Kid(n, 1), d)
      [] OTHER -> HintDocid(HintDocid(s, Kid(n, 1), d), Kid(n, 2), d)

\* GetDocsChunk: the next documents, unless the list is over or the time is up.
TermDocs(s, n) ==
    LET t     == [s.node[n] EXCEPT !.tail = FALSE]
        list  == DocList(query[n].word)
        k     == Min({MaxDocs - 1, Len(list) - t.next + 1})
        chunk == SubSeq(list, t.next, t.next + k - 1)
        tick  == [s EXCEPT !.clock = @ + 1]
        over  == t.over \/ list = <<>>
    IN  CASE over -> Give(s, n, [t EXCEPT !.last = t.chunk], <<>>)
          [] ~over /\ s.clock >= deadline ->
               Give(tick, n, [t EXCEPT !.last = t.chunk, !.maxId = 0], <<>>)
          [] OTHER ->
               Give(tick, n, [t EXCEPT !.chunk = chunk, !.last = chunk, !.next = @ + k,
                                       !.over = (k < MaxDocs - 1),
                                       !.maxId = IF k = 0 THEN 0 ELSE chunk[k]], chunk)

\* Go on in the chunk to a document that is in docs too, and seek its hits.
Seek(n, t, rest, docs) ==
    LET p == From(rest, Meet(Range(rest), Range(docs)))
    IN  [t EXCEPT !.last = p,
                  !.hits = IF Common(p, docs) THEN HitList(query[n].word, p[1]) ELSE <<>>]

\* Emit the hits of the document the chunk is at, and go on to the next one in docs.
EmitNext(n, u, docs, max, out) ==
    IF Common(u.last, docs) THEN EmitTerm(n, u, docs, max, out)
    ELSE [t |-> [u EXCEPT !.tail = FALSE], out |-> out]

EmitTerm(n, t, docs, max, out) ==
    CASE Len(out) = MaxHits - 1 -> [t |-> [t EXCEPT !.tail = TRUE], out |-> out]
      [] Len(out) < MaxHits - 1 /\ t.hits # <<>> ->
           EmitTerm(n, [t EXCEPT !.hits = Tail(@)], docs, max,
                    Append(out, [doc |-> t.last[1], pos |-> t.hits[1], qpos |-> query[n].qpos]))
      [] Len(out) < MaxHits - 1 /\ t.hits = <<>> /\ max < Id(Tail(t.last)) ->
           [t |-> [t EXCEPT !.last = Tail(@), !.tail = FALSE], out |-> out]
      [] OTHER -> EmitNext(n, Seek(n, t, Tail(t.last), docs), docs, max, out)

\* GetHitsChunk: the hits of the documents docs, which end at max, in the chunk.
TermHits(s, n, t, docs, max) ==
    LET Emitted(e) == Give(s, n, e.t, e.out)
    IN  CASE t.tail -> Emitted(EmitTerm(n, t, docs, max, <<>>))
          [] ~t.tail /\ (\/ Id(docs) = t.checked \/ Id(docs) > t.maxId
                         \/ t.maxId # 0 /\ Id(t.chunk) > max) -> Give(s, n, t, <<>>)
          [] OTHER -> Emitted(EmitNext(n, Seek(n, [t EXCEPT !.checked = Id(docs)], t.last, docs),
                                       docs, max, <<>>))

-----------------------------------------------------------------------------
(* ExtTwofer_c: two children *)

\* A call at work: x.p and x.q are what it holds of the chunks of the children.  The
\* next chunk is asked for when there is nothing left of the last one.
Get1(x, g) == [x EXCEPT !.s = g.s, !.p = g.p]
Get2(x, g) == [x EXCEPT !.s = g.s, !.q = g.p]
Docs1(x)   == IF Idle(x.p) THEN Get1(x, GetDocs(x.s, Kid(x.n, 1))) ELSE x
Docs2(x)   == IF Idle(x.q) THEN Get2(x, GetDocs(x.s, Kid(x.n, 2))) ELSE x
Hits1(x)   == IF Idle(x.p) THEN Get1(x, GetHits(x.s, Kid(x.n, 1), x.docs, x.max)) ELSE x
Hits2(x)   == IF Idle(x.q) THEN Get2(x, GetHits(x.s, Kid(x.n, 2), x.docs, x.max)) ELSE x

SaveDocs(r, p, q)    == [r EXCEPT !.doc = <<NonEmpty(p), NonEmpty(q)>>]
StartDocs(s, n)      == [s |-> s, n |-> n, p |-> s.node[n].doc[1], q |-> s.node[n].doc[2],
                         out |-> <<>>, touched |-> {}, pass |-> FALSE]
StartHits(s, n, docs, max, m) ==
    [s |-> s, n |-> n, docs |-> docs, max |-> max, m |-> m, out |-> <<>>,
     p |-> s.node[n].hit[1], q |-> s.node[n].hit[2]]
GiveHits(x) == Give(x.s, x.n, [x.s.node[x.n] EXCEPT !.hit = <<x.p, x.q>>, !.matched = x.m], x.out)
Room(out, size)      == size - 1 - Len(out)
Cut(docs, size)      == SubSeq(docs, 1, Min({Len(docs), size}))

\* One hit from the first, or from the second child, goes out.
Take1(x) == [x EXCEPT !.p = Tail(@), !.out = Append(@, x.p[1])]
Take2(x) == [x EXCEPT !.q = Tail(@), !.out = Append(@, x.q[1])]

-----------------------------------------------------------------------------
(* ExtAnd_c *)

\* GetDocsChunk: the common documents.  A child is asked for more, after a hint to
\* what the other one has, only if nothing is found yet: its hits are lost then.
Hint(s, n, i, p) == IF p = Null THEN s ELSE HintDocid(s, Kid(n, i), Id(p))
AndDocs1(x) == IF x.p # Null THEN x ELSE Get1(x, GetDocs(Hint(x.s, x.n, 1, x.q), Kid(x.n, 1)))
AndDocs2(x) == IF x.q # Null THEN x ELSE Get2(x, GetDocs(Hint(x.s, x.n, 2, x.p), Kid(x.n, 2)))

AndMeet(x, r) ==
    LET out == SelectSeq(x.p, LAMBDA d : d \in Range(x.q))
        end == Min({Last(x.p), Last(x.q)})
        r2  == SaveDocs(r, From(x.p, end + 1), From(x.q, end + 1))
    IN  CASE x.p = Null \/ x.q = Null -> Give(x.s, x.n, SaveDocs(r, Null, Null), <<>>)
          [] x.p # Null /\ x.q # Null /\ out # <<>> -> Give(x.s, x.n, r2, out)
          [] OTHER -> AndDocs(Put(x.s, x.n, r2), x.n)

AndDocs(s, n) == AndMeet(AndDocs2(AndDocs1(StartDocs(s, n))), s.node[n])

\* Mutant: what one child has left is copied although the other one's chunk has ended.
BehindChunk_Ignored(p) == FALSE

\* Is the other child at the end of a chunk of hits?
BehindChunk(p) == p = <<>>

\* The hits of document x.m, of equal ones the later one in the query first.
EmitAnd(x) ==
    LET at1   == At(x.p, x.m)
        at2   == At(x.q, x.m)
        first == \/ x.p[1].pos < x.q[1].pos
                 \/ x.p[1].pos = x.q[1].pos /\ x.p[1].qpos > x.q[1].qpos
    IN  CASE Room(x.out, MaxHits) > 0 /\ at1 /\ at2 -> EmitAnd(IF first THEN Take1(x) ELSE Take2(x))
          [] Room(x.out, MaxHits) > 0 /\ at1 /\ ~at2 /\ ~BehindChunk(x.q) -> EmitAnd(Take1(x))
          [] Room(x.out, MaxHits) > 0 /\ at2 /\ ~at1 /\ ~BehindChunk(x.p) -> EmitAnd(Take2(x))
          [] OTHER -> x

\* After the last hit of the document on both sides, look for another one.
AndMove(x) == IF ~Idle(x.p) /\ ~At(x.p, x.m) /\ ~Idle(x.q) /\ ~At(x.q, x.m)
              THEN [x EXCEPT !.m = 0] ELSE x

\* Ask child i until it has no more hits, and forget them.
Drain(g, i, x) == IF g.p = Null THEN g.s ELSE Drain(GetHits(g.s, Kid(x.n, i), x.docs, x.max), i, x)

\* One child is over.  The other one's hits of the document still go out.
AndOver(x) ==
    [x EXCEPT !.p = Null, !.q = Null,
              !.s = CASE x.p # Null -> Drain([s |-> x.s, p |-> x.p], 1, x)
                      [] x.q # Null -> Drain([s |-> x.s, p |-> x.q], 2, x)
                      [] OTHER      -> x.s]

\* Skip to a document with hits on both sides, or to the end of a chunk.
AndSkip(x, c) ==
    [x EXCEPT !.p = HitsFrom(@, c), !.q = HitsFrom(@, c),
              !.m = IF c \in HitDocs(x.p) \cap HitDocs(x.q) THEN c ELSE 0]

AndTurn(x) ==
    CASE (x.p = Null \/ x.q = Null) /\ ~At(x.p, x.m) /\ ~At(x.q, x.m) -> AndOver(x)
      [] x.p # Null /\ x.q # Null /\ x.m = 0 -> AndLoop(AndSkip(x, Meet(HitDocs(x.p), HitDocs(x.q))))
      [] OTHER -> AndLoop(x)

\* The loop of GetHitsChunk.
AndLoop(x) == IF Room(x.out, MaxHits) = 0 THEN x ELSE AndTurn(Hits2(Hits1(AndMove(EmitAnd(x)))))

AndHits(s, n, docs, max) ==
    LET m == s.node[n].matched
    IN  GiveHits(AndLoop(StartHits(s, n, docs, max, IF m < Id(docs) THEN 0 ELSE m)))

-----------------------------------------------------------------------------
(* ExtOr_c *)

\* Merge two chunks until one of them ends, or copy the only one.
OrMerge(x) ==
    LET P    == IF x.p = Null THEN {} ELSE Range(x.p)
        Q    == IF x.q = Null THEN {} ELSE Range(x.q)
        end  == IF P = {} \/ Q = {} THEN Max(P \cup Q) ELSE Min({Max(P), Max(Q)})
        more == Cut(Ascending({d \in P \cup Q : d <= end}), Room(x.out, MaxDocs))
        Left(p) == IF p = Null THEN Null ELSE NonEmpty(From(p, Last(more) + 1))
    IN  [x EXCEPT !.p = Left(@), !.q = Left(@), !.out = @ \o more,
                  !.touched = @ \cup {i \in {1, 2} : Range(more) \cap <<P, Q>>[i] # {}}]

\* The loop of GetDocsChunk: no new chunk of a child whose documents are going out.
OrTurn(x) == IF x.p = Null /\ x.q = Null THEN x ELSE OrLoop(OrMerge(x))
OrSecond(x) == IF Idle(x.q) /\ 2 \in x.touched THEN x ELSE OrTurn(Docs2(x))
OrLoop(x) == IF Room(x.out, MaxDocs) = 0 \/ (Idle(x.p) /\ 1 \in x.touched) THEN x
             ELSE OrSecond(Docs1(x))

GiveOr(x)    == Give(x.s, x.n, SaveDocs(x.s.node[x.n], x.p, x.q), x.out)
OrDocs(s, n) == GiveOr(OrLoop(StartDocs(s, n)))

\* Merge the hits of document x.m, while both children have some.
EmitOr(x) ==
    IF Room(x.out, MaxHits) > 0 /\ At(x.p, x.m) /\ At(x.q, x.m)
    THEN EmitOr(IF x.p[1].pos < x.q[1].pos THEN Take1(x) ELSE Take2(x))
    ELSE x

\* Copy the hits of document x.m that one of them has left.
TailOr(x, first) ==
    CASE Room(x.out, MaxHits) > 0 /\ first /\ At(x.p, x.m)  -> TailOr(Take1(x), first)
      [] Room(x.out, MaxHits) > 0 /\ ~first /\ At(x.q, x.m) -> TailOr(Take2(x), first)
      [] OTHER -> x

\* After a merge: a list whose chunk has ended may have more of the document in its
\* next one (then x becomes y).  If neither has, what one list has left is copied.
OrRest1(x, y) == IF Idle(x.p) /\ At(y.p, x.m) THEN OrLoopHits(y) ELSE OrRest2(y, Hits2(y))
OrRest2(x, y) == IF Idle(x.q) /\ At(y.q, x.m) THEN OrLoopHits(y)
                 ELSE OrNext(TailOr(y, At(y.p, y.m)))

\* On to the next document, which is the lesser one of both lists.
OrNext(x) == OrAim(Hits2(Hits1(x)),
                   IF x.p # Null /\ x.q # Null /\ ~At(x.p, x.m) /\ ~At(x.q, x.m) THEN 0 ELSE x.m)
OrAim(x, m) == IF x.p = Null /\ x.q = Null THEN [x EXCEPT !.m = m]
               ELSE OrLoopHits([x EXCEPT !.m = Min({HitId(h) : h \in {x.p, x.q} \ {Null}})])

OrMerged(x) == OrRest1(x, Hits1(x))

\* The loop of GetHitsChunk.
OrLoopHits(x) ==
    CASE Room(x.out, MaxHits) = 0 -> x
      [] Room(x.out, MaxHits) > 0 /\ (At(x.p, x.m) \/ At(x.q, x.m)) -> OrMerged(EmitOr(x))
      [] OTHER -> OrNext(x)

OrHits(s, n, docs, max) == GiveHits(OrLoopHits(StartHits(s, n, docs, max, s.node[n].matched)))

-----------------------------------------------------------------------------
(* ExtAndNot_c *)

\* Copy the accepted documents that are not rejected, up to the end of a chunk.
Filter(x) ==
    LET end  == Min({Last(x.p), Last(x.q)})
        more == Cut(SelectSeq(x.p, LAMBDA d : d < Last(x.q) /\ d \notin Range(x.q)),
                    Room(x.out, MaxDocs))
        full == Len(more) = Room(x.out, MaxDocs)
        past == IF full THEN Last(more) + 1 ELSE end + 1
    IN  [x EXCEPT !.p = From(@, past), !.q = From(@, past), !.out = @ \o more]

\* Without a reject list: copy what is left, and then pass the accept list through.
Leftovers(x) ==
    LET more == Cut(x.p, Room(x.out, MaxDocs))
        rest == From(x.p, Last(more) + 1)
    IN  [x EXCEPT !.p = rest, !.q = Null, !.out = @ \o more, !.pass = (rest = <<>>)]

\* The loop of GetDocsChunk: no new chunk of accepted documents behind found ones.
AndNotTurn(x)   == IF x.q = Null THEN Leftovers(x) ELSE AndNotLoop(Filter(x))
AndNotSecond(x) == IF x.p = Null THEN x ELSE AndNotTurn(Docs2(x))
AndNotLoop(x)   == IF Room(x.out, MaxDocs) = 0 \/ (Idle(x.p) /\ x.out # <<>>) THEN x
                   ELSE AndNotSecond(Docs1(x))

GiveAndNot(x) ==
    Give(x.s, x.n, [SaveDocs(x.s.node[x.n], x.p, x.q) EXCEPT !.pass = x.pass], x.out)
AndNotDocs(s, n) == IF s.node[n].pass THEN GetDocs(s, Kid(n, 1))
                    ELSE GiveAndNot(AndNotLoop(StartDocs(s, n)))

-----------------------------------------------------------------------------
(* ExtPhrase_c: the documents of an ExtAnd_c in which the words stand together *)

Atoms(n)  == query[n].atoms
Span(n)   == Last(Atoms(n)) - Atoms(n)[1]

\* FSMphrase: the words seen, and where the next one has to be.  A hit that ends a
\* match forgets all others.
States0(n, h) == IF h.qpos = Atoms(n)[1]
                 THEN {[tag |-> 1, exp |-> h.pos + Atoms(n)[2] - Atoms(n)[1]]} ELSE {}
HitFSM(n, states, h) ==
    LET Step(f) == IF f.exp = h.pos /\ Atoms(n)[f.tag + 1] = h.qpos
                   THEN [tag |-> f.tag + 1,
                         exp |-> IF f.tag + 2 > Len(Atoms(n)) THEN 0
                                 ELSE h.pos + Atoms(n)[f.tag + 2] - Atoms(n)[f.tag + 1]]
                   ELSE f
        next == {Step(f) : f \in {g \in states \cup States0(n, h) : g.exp >= h.pos}}
    IN  IF \E f \in next : f.tag = Len(Atoms(n))
        THEN [states |-> {}, hit |-> <<[doc |-> h.doc, pos |-> h.pos - Span(n),
                                        qpos |-> Atoms(n)[1]]>>]
        ELSE [states |-> next, hit |-> <<>>]

\* A call at work on x.r, the node: the next chunk of hits, or of documents, of the
\* and-node.
SetHit(x, g)     == [x EXCEPT !.s = g.s, !.r.hit = g.p]
SetDocs(x, docs) == [x EXCEPT !.r.docs = docs, !.r.docsMax = Last(docs), !.r.matched = 0]
NextHits(x)      == SetHit(x, GetHits(x.s, Kid(x.n, 1), x.r.docs, x.r.docsMax))
NeedHits(x)      == IF Idle(x.r.hit) THEN NextHits(x) ELSE x

\* Skip the hits left of the last document found.
SkipHits(x, rest) == SkipLast([x EXCEPT !.r.hit = rest, !.r.last = IF rest = <<>> THEN @ ELSE 0])
SkipMore(x) == IF x.r.hit = Null THEN x
               ELSE SkipHits(x, SelectSeq(x.r.hit, LAMBDA h : h.doc # x.r.last))
SkipLast(x) == IF x.r.last = 0 THEN x ELSE SkipMore(NeedHits(x))

\* Run the hits of the and-node through the machine until there are enough matches.
Match(x, h, f) ==
    [x EXCEPT !.r.states = f.states, !.r.hit = Tail(@), !.r.myHit = @ \o f.hit,
              !.r.myDoc = IF f.hit # <<>> /\ h.doc # x.r.last THEN Append(@, h.doc) ELSE @,
              !.r.last = IF f.hit # <<>> THEN h.doc ELSE @]

ScanHit(x, h) ==
    IF h.doc # x.r.matched THEN Scan([x EXCEPT !.r.matched = h.doc, !.r.states = {}])
    ELSE Scan(Match(x, h, HitFSM(x.n, x.r.states, h)))

ScanDocs(x, g) ==
    IF g.p = Null THEN [x EXCEPT !.s = g.s, !.r.docs = Null, !.r.matched = 0]
    ELSE Scan(NextHits(SetDocs([x EXCEPT !.s = g.s], g.p)))

ScanMore(x) == IF x.r.hit # Null THEN Scan(x) ELSE ScanDocs(x, GetDocs(x.s, Kid(x.n, 1)))

Scan(x) ==
    CASE Room(x.r.myHit, MaxHits) = 0 -> x
      [] Room(x.r.myHit, MaxHits) > 0 /\ Idle(x.r.hit)  -> ScanMore(NextHits(x))
      [] Room(x.r.myHit, MaxHits) > 0 /\ ~Idle(x.r.hit) -> ScanHit(x, x.r.hit[1])

GivePhrase(x) ==
    Give(x.s, x.n, [x.r EXCEPT !.chunk = x.r.myDoc, !.matched = 0,
                               !.maxId = IF x.r.myDoc = <<>> THEN 0 ELSE Last(x.r.myDoc)], x.r.myDoc)

FindPhrase(x) ==
    LET y == SkipLast([x EXCEPT !.r.states = {}])
    IN  GivePhrase(Scan([y EXCEPT !.r.myDoc = <<>>, !.r.myHit = <<>>]))

\* The first chunk of documents of the and-node.
FirstDocs(x, g) ==
    IF g.p = Null THEN Give(g.s, x.n, [x.r EXCEPT !.maxId = 0], <<>>)
    ELSE FindPhrase([x EXCEPT !.s = g.s, !.r.docs = g.p, !.r.docsMax = Last(g.p)])

StartPhrase(s, n) == [s |-> s, n |-> n, r |-> s.node[n], docs |-> <<>>, out |-> <<>>]
PhraseDocs(s, n) ==
    IF s.node[n].docs # Null THEN FindPhrase(StartPhrase(s, n))
    ELSE FirstDocs(StartPhrase(s, n), GetDocs(s, Kid(n, 1)))

\* EmitTail: run the rest of the hits of the last document through the machine.
NextDoc(r) == [r EXCEPT !.matched = 0, !.myDoc = Tail(@)]
TailStep(x, f) == EmitTail([x EXCEPT !.r.states = f.states, !.r.hit = Tail(@), !.out = @ \o f.hit])
TailHit(x) ==
    CASE x.r.hit = Null -> [x EXCEPT !.r = NextDoc(@)]
      [] x.r.hit # Null /\ x.r.hit[1].doc # x.r.matched ->
           [x EXCEPT !.r = [NextDoc(@) EXCEPT !.hitsOver = x.docs[1]]]
      [] OTHER -> TailStep(x, HitFSM(x.n, x.r.states, x.r.hit[1]))
EmitTail(x) == IF Room(x.out, MaxHits) = 0 THEN x ELSE TailHit(NeedHits(x))

\* The next document that is asked for.
PhraseAim(x, c) ==
    IF x.r.matched # 0 THEN x
    ELSE [x EXCEPT !.r.myDoc = From(@, c),
                   !.r.matched = IF c \in Range(x.r.myDoc) \cap Range(x.docs) THEN c ELSE 0]

\* Its matches that were found with the documents ...
PhraseCopy(x) ==
    LET left == HitsFrom(x.r.myHit, x.r.matched)
        k    == Cut(SelectSeq(left, LAMBDA h : h.doc = x.r.matched), Room(x.out, MaxHits))
    IN  [x EXCEPT !.r.myHit = SubSeq(left, Len(k) + 1, Len(left)), !.out = @ \o k]

\* ... and the tail.
PhraseRest(x) ==
    CASE x.r.myHit # <<>> ->
           PhraseLoop(IF x.r.myHit[1].doc = x.r.matched THEN x ELSE [x EXCEPT !.r = NextDoc(@)])
      [] x.r.myHit = <<>> /\ (x.r.hit = Null \/ Room(x.out, MaxHits) = 0) -> x
      [] OTHER -> PhraseLoop(EmitTail(x))

PhraseTurn(x) == IF x.r.matched = 0 THEN x ELSE PhraseRest(PhraseCopy(x))

\* The loop of GetHitsChunk.
PhraseLoop(x) == IF Room(x.out, MaxHits) = 0 THEN x
                 ELSE PhraseTurn(PhraseAim(x, Meet(Range(x.r.myDoc), Range(x.docs))))

GivePhraseHits(x) == Give(x.s, x.n, x.r, x.out)
PhraseHits(s, n, docs, max) ==
    LET r == s.node[n]
    IN  IF Id(docs) = r.hitsOver \/ Id(docs) > r.maxId \/ (r.maxId # 0 /\ Id(r.chunk) > max)
        THEN Give(s, n, r, <<>>)
        ELSE GivePhraseHits(PhraseLoop([StartPhrase(s, n) EXCEPT !.docs = docs]))

-----------------------------------------------------------------------------
(* ExtNode_i *)

GetDocs(s, n) ==
    CASE query[n].op = "term"   -> TermDocs(s, n)
      [] query[n].op = "and"    -> AndDocs(s, n)
      [] query[n].op = "or"     -> OrDocs(s, n)
      [] query[n].op = "andnot" -> AndNotDocs(s, n)
      [] query[n].op = "phrase" -> PhraseDocs(s, n)

GetHits(s, n, docs, max) ==
    CASE query[n].op = "term"   -> TermHits(s, n, s.node[n], docs, max)
      [] query[n].op = "and"    -> AndHits(s, n, docs, max)
      [] query[n].op = "or"     -> OrHits(s, n, docs, max)
      [] query[n].op = "andnot" -> GetHits(s, Kid(n, 1), docs, max)
      [] query[n].op = "phrase" -> PhraseHits(s, n, docs, max)
=============================================================================
