------------------------------ MODULE ExtRanker -----------------------------
(***************************************************************************)
(* The matching loop over the streamers of ExtNode: ExtRanker_c and        *)
(* ExtRanker_T of src/src/sphinxsearch.cpp, and the loops that call them   *)
(* for a disk index (CSphIndex_VLN::MatchExtended) and for the segments of *)
(* a real-time index (RtIndex_t::MultiQuery).                              *)
(*                                                                         *)
(* The ranker pulls a block of documents from the root of the query, drops *)
(* those that the filters reject, and then pulls the hits of the block and *)
(* gives every document with its hits to the ranking function.  It returns *)
(* after some matches and goes on where it was when it is called again.    *)
(***************************************************************************)
EXTENDS ExtNode, FiniteSets

CONSTANTS
  Queries,   \* the queries
  Texts(_),  \* of a query: what a document may say
  Setups(_)  \* of a query: [disk, layout, rejected, kills, cutoff, deadline], where
             \* layout has the IDs of the documents of every segment

VARIABLES
  tree,    \* the nodes under m_pRoot, and the clock
  docs,    \* m_pDoclist: the block, or Null
  max,     \* m_uMaxID
  hits,    \* m_pHitlist, or Null
  doc,     \* uCurDocid, 0 for none
  ranked,  \* the hits of doc that the ranking function has had (m_tState)
  batch,   \* m_dMatches up to iMatches: documents with their hits
  kills,   \* the kill-list of a disk index from iKillIdx on
  cutoff,  \* iCutoff, negative for none
  pushed,  \* what the sorters have got
  pc

rankerVars == <<tree, docs, max, hits, doc, ranked, batch>>
callerVars == <<kills, cutoff, pushed>>
vars       == <<input, seg, rankerVars, callerVars, pc>>

-----------------------------------------------------------------------------
(* ExtRanker_T::GetMatches *)

\* GetFilteredDocs, one turn of the loop.  The block ends where the chunk of the root
\* ends, whatever the filters drop.
GetFilteredDocs ==
    /\ pc = "docs"
    /\ LET g    == GetDocs(tree, 1)
           kept == SelectSeq(g.p, LAMBDA d : d \notin input.rejected)
       IN  /\ tree' = g.s
           /\ \/ /\ g.p = Null
                 /\ docs' = Null /\ max' = 0 /\ pc' = "return"
              \/ /\ g.p # Null /\ kept = <<>>
                 /\ max' = Last(g.p) /\ UNCHANGED <<docs, pc>>
              \/ /\ g.p # Null /\ kept # <<>>
                 /\ max' = Last(g.p) /\ docs' = kept /\ pc' = "fresh"
    /\ UNCHANGED <<input, seg, hits, doc, ranked, batch, callerVars>>

\* Skip to the first document with hits; a full buffer of matches ends the call.
Aim(h) ==
    /\ doc' = HitId(h)
    /\ pc' = IF Len(batch') < MaxDocs THEN "rank" ELSE "return"

\* The hits of a fresh block; without any, a call that has no match yet gives up, and
\* another one reads the NULL pointer ("fresh docs block, must have hits").
GetFreshHits ==
    /\ pc = "fresh"
    /\ LET g == GetHits(tree, 1, docs, max)
       IN  /\ tree' = g.s /\ hits' = g.p
           /\ UNCHANGED batch
           /\ \/ g.p # Null /\ Aim(g.p) /\ UNCHANGED docs
              \/ /\ g.p = Null /\ docs' = Null /\ UNCHANGED doc
                 /\ pc' = IF batch = <<>> THEN "return" ELSE "crash"
    /\ UNCHANGED <<input, seg, max, ranked, callerVars>>

\* Rank the hits of the current document, up to the next document ...
Rank ==
    /\ pc = "rank"
    /\ LET k == SelectInSeq(hits, LAMBDA h : h.doc # doc)
       IN  /\ k > 0
           /\ ranked' = ranked \o SubSeq(hits, 1, k - 1)
           /\ hits' = SubSeq(hits, k, Len(hits))
    /\ pc' = "flush"
    /\ UNCHANGED <<input, seg, tree, docs, max, doc, batch, callerVars>>

\* ... or the end of the chunk, and get the next one without flushing it.
RankAll ==
    /\ pc = "rank"
    /\ \A k \in DOMAIN hits : hits[k].doc = doc
    /\ ranked' = ranked \o hits
    /\ LET g == GetHits(tree, 1, docs, max)
       IN  tree' = g.s /\ hits' = g.p /\ pc' = IF g.p = Null THEN "flush" ELSE "rank"
    /\ UNCHANGED <<input, seg, docs, max, doc, batch, callerVars>>

\* The current document is a match: hand it out, with its hits.
Flush ==
    /\ pc = "flush"
    /\ batch' = IF doc = 0 THEN batch
                ELSE Append(batch, [doc |-> Id(From(docs, doc)), hits |-> ranked])
    /\ ranked' = <<>>
    /\ \/ hits = Null /\ doc' = 0 /\ pc' = "docs"
       \/ hits # Null /\ Aim(hits)
    /\ UNCHANGED <<input, seg, tree, docs, max, hits, callerVars>>

-----------------------------------------------------------------------------
(* MatchExtended, MultiQuery *)

\* A match goes to the sorters unless the kill-list, which is read in step with the
\* matches, has it; enough matches end the query.
Push(c, m) ==
    LET k == From(c.kills, m.doc)
    IN  CASE c.cutoff = 0                   -> c
          [] c.cutoff # 0 /\ Id(k) = m.doc  -> [c EXCEPT !.kills = k]
          [] OTHER -> [kills |-> k, cutoff |-> c.cutoff - 1,
                       pushed |-> Append(c.pushed, [doc |-> m.doc, hits |-> m.hits, seg |-> seg])]

\* The next call of GetMatches goes on with the hits it has.
Return ==
    /\ pc = "return" /\ batch # <<>>
    /\ LET c == FoldLeft(Push, [kills |-> kills, cutoff |-> cutoff, pushed |-> pushed], batch)
       IN  /\ kills' = c.kills /\ cutoff' = c.cutoff /\ pushed' = c.pushed
           /\ pc' = CASE c.cutoff = 0 -> "end"
                      [] c.cutoff # 0 /\ hits = Null -> "docs"
                      [] OTHER -> "rank"
    /\ batch' = <<>> /\ doc' = 0
    /\ UNCHANGED <<input, seg, tree, docs, max, hits, ranked>>

\* A call without matches: on to the next segment, if there is one.
NextSegment ==
    /\ pc = "return" /\ batch = <<>> /\ seg < Len(input.segs)
    /\ seg' = seg + 1
    /\ tree' = Reset(tree)
    /\ doc' = 0 /\ pc' = "docs"
    /\ UNCHANGED <<input, docs, max, hits, ranked, batch, callerVars>>

Finish ==
    /\ pc = "return" /\ batch = <<>> /\ seg = Len(input.segs)
    /\ pc' = "end"
    /\ UNCHANGED <<input, seg, rankerVars, callerVars>>

Done == pc = "end" /\ UNCHANGED vars

-----------------------------------------------------------------------------
Init ==
    /\ \E q \in Queries : \E u \in Setups(q) : \E x \in [UNION Range(u.layout) -> Texts(q)] :
          input = [query    |-> q,          disk  |-> u.disk,
                   segs     |-> [g \in DOMAIN u.layout |-> [d \in u.layout[g] |-> x[d]]],
                   rejected |-> u.rejected, kills |-> u.kills,
                   cutoff   |-> u.cutoff,   deadline |-> u.deadline]
    /\ seg = 1
    /\ tree = NewTree /\ docs = Null /\ max = 0 /\ hits = Null /\ doc = 0
    /\ ranked = <<>> /\ batch = <<>> /\ pushed = <<>>
    /\ kills = input.kills /\ cutoff = input.cutoff
    /\ pc = "docs"

GetMatches == GetFilteredDocs \/ GetFreshHits \/ Rank \/ RankAll \/ Flush
Next == GetMatches \/ Return \/ NextSegment \/ Finish \/ Done

Spec == Init /\ [][Next]_vars

-----------------------------------------------------------------------------
(* What a query is meant to find *)

\* Where the words of a phrase stand together in the words x, for a node n.
RECURSIVE Starts(_, _, _)
Fits(n, x, p) ==
    \A t \in DOMAIN query : (query[t].op = "term" /\ query[t].qpos \in Range(Atoms(n))) =>
        LET k == p + query[t].qpos - Atoms(n)[1] IN k \in DOMAIN x /\ x[k] = query[t].word

\* Matches of a phrase share one word at most.
Starts(n, x, p) ==
    CASE p > Len(x) -> {}
      [] p <= Len(x) /\ Fits(n, x, p) -> {p} \cup Starts(n, x, p + Span(n) + (IF Span(n) = 0 THEN 1 ELSE 0))
      [] OTHER -> Starts(n, x, p + 1)

\* Does a document with the words x match node n, and which hits has it there?
RECURSIVE Holds(_, _), WantedHits(_, _)
Holds(n, x) ==
    CASE query[n].op = "term"   -> query[n].word \in Range(x)
      [] query[n].op = "and"    -> Holds(Kid(n, 1), x) /\ Holds(Kid(n, 2), x)
      [] query[n].op = "or"     -> Holds(Kid(n, 1), x) \/ Holds(Kid(n, 2), x)
      [] query[n].op = "andnot" -> Holds(Kid(n, 1), x) /\ ~Holds(Kid(n, 2), x)
      [] query[n].op = "phrase" -> \E p \in DOMAIN x : Fits(n, x, p)

WantedHits(n, x) ==
    CASE query[n].op = "term"   -> {<<p, query[n].qpos>> : p \in {k \in DOMAIN x : x[k] = query[n].word}}
      [] query[n].op = "andnot" -> WantedHits(Kid(n, 1), x)
      [] query[n].op = "phrase" -> {<<p, Atoms(n)[1]>> : p \in Starts(n, x, 1)}
      [] OTHER -> UNION {IF Holds(Kid(n, i), x) THEN WantedHits(Kid(n, i), x) ELSE {} : i \in {1, 2}}

\* The documents for the sorters, segment by segment in the order of the IDs.
Wanted(g) ==
    LET T == input.segs[g]
    IN  Ascending({d \in DOMAIN T \ (input.rejected \cup Range(input.kills)) : Holds(1, T[d])})
AllWanted == FlattenSeq([g \in DOMAIN input.segs |-> [k \in DOMAIN Wanted(g) |-> <<g, Wanted(g)[k]>>]])
Got == [k \in DOMAIN pushed |-> <<pushed[k].seg, pushed[k].doc>>]
Late == tree.clock > deadline

-----------------------------------------------------------------------------
(* Properties *)

\* The sorters get the documents that match, in order, each once and, unless the time
\* ran out, none missing, however the chunks of the nodes fall: up to the cutoff.
MatchesExact ==
    /\ Range(Got) \subseteq Range(AllWanted)
    /\ \A i, j \in DOMAIN Got : i < j =>
          (Got[i][1] < Got[j][1] \/ (Got[i][1] = Got[j][1] /\ Got[i][2] < Got[j][2]))
    /\ ~Late => /\ IsPrefix(Got, AllWanted)
                /\ pc = "end" => Got = AllWanted \/ cutoff = 0

\* The ranking function sees all hits of a document and only these, in the order of
\* their positions, although they come in chunks that end anywhere.  A fresh block of
\* documents always has hits.
HitsExact ==
    /\ pc # "crash"
    /\ ~Late => \A k \in DOMAIN pushed :
        LET h == pushed[k].hits
            x == input.segs[pushed[k].seg][pushed[k].doc]
        IN  /\ {<<h[i].pos, h[i].qpos>> : i \in DOMAIN h} = WantedHits(1, x)
            /\ Len(h) = Cardinality(WantedHits(1, x))
            /\ \A i, j \in DOMAIN h : i < j => h[i].pos <= h[j].pos
=============================================================================
