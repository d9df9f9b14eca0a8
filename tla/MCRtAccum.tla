----------------------------- MODULE MCRtAccum ------------------------------
(* Instances of RtAccum for TLC. *)
EXTENDS RtAccum

CONSTANTS rt1, rt2, s1, s2, d1, d2, one, two, none, twice, x, y

Symmetry == Permutations(Session)

\* Texts with one hit, two, none, and the same hit twice.
HitsOf    == (one :> <<x>>) @@ (two :> <<x, y>>) @@ (none :> <<>>)
HitsTwice == (one :> <<y>>) @@ (twice :> <<x, x>>)

Row(d, t)  == [doc |-> d, text |-> t]
Into(i, q) == [index |-> i, rows |-> q]
From(i, D) == [index |-> i, docs |-> D]

\* Single rows, a row that fails, a statement that fails at its second row.
InsertsOf == {Into(rt1, <<Row(d1, two)>>), Into(rt1, <<Row(d1, one), Row(d2, one)>>), Into(rt1, <<Row(d2, two)>>),
              Into(rt2, <<Row(d2, one), Row(d2, BadText)>>), Into(rt1, <<Row(d2, none), Row(d1, BadRow)>>)}
InsertsFew == {Into(rt1, <<Row(d1, two)>>), Into(rt1, <<Row(d1, one)>>), Into(rt2, <<Row(d1, BadText)>>)}
DeletesOf  == {From(rt1, {d1, d2}), From(rt2, {d2})}
DeletesFew == {From(rt2, {d1})}
InsertsTwice == {Into(rt1, <<Row(d1, one)>>), Into(rt1, <<Row(d2, twice)>>)}
=============================================================================
