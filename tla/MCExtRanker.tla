---------------------------- MODULE MCExtRanker ----------------------------
(* Instances of ExtRanker for TLC: small queries over a few short documents. *)
EXTENDS ExtRanker

CONSTANTS Never, Deadlines

Term(w, q)    == [op |-> "term", word |-> w, qpos |-> q]
Op(o, i, j)   == [op |-> o, kids |-> <<i, j>>]
Phrase(i, at) == [op |-> "phrase", kids |-> <<i>>, atoms |-> at]

\* a, a & b, a | b; "a b", "a a"; a -b, (a -b) & c; all nestings of & and |; a phrase
\* beside a word.
Flat   == {<<Term("a", 1)>>} \cup {<<Op(o, 2, 3), Term("a", 1), Term("b", 2)>> : o \in {"and", "or"}}
AndNot == {<<Op("andnot", 2, 3), Term("a", 1), Term("b", 2)>>,
           <<Op("and", 2, 5), Op("andnot", 3, 4), Term("a", 1), Term("b", 2), Term("c", 3)>>}
Nested == {<<Op(o, 2, 5), Op(u, 3, 4), Term("a", 1), Term("b", 2), Term("c", 3)>> :
             o \in {"and", "or"}, u \in {"and", "or"}}
Phrases == {<<Phrase(2, <<1, 2>>), Op("and", i, 7 - i), Term("a", 1), Term(w, 2)>> :
             i \in {3, 4}, w \in {"a", "b"}}
PhraseAnd == {<<Op(o, 2, 6), Phrase(3, <<1, 2>>), Op("and", 4, 5), Term("a", 1), Term("b", 2), Term("c", 3)>> :
             o \in {"and", "or"}}
AllQueries == Flat \cup AndNot \cup Nested \cup Phrases \cup PhraseAnd

SomeTexts(q) == IF q \in Flat \cup AndNot \cup Phrases
                THEN {<<"z">>, <<"a">>, <<"b", "z">>, <<"b", "a", "a">>, <<"a", "b", "a", "b", "a", "b">>}
                ELSE {<<"c">>, <<"a", "b">>, <<"a", "b", "c">>, <<"c", "a", "b", "b", "a", "c">>}

Setup(d, l, r, k, n, t) ==
    [disk |-> d, layout |-> l, rejected |-> r, kills |-> k, cutoff |-> n, deadline |-> t]
Plain    == {Setup(TRUE, <<1..4>>, {}, <<>>, -1, Never)}
Ram      == {Setup(FALSE, <<{2}, {1, 3}>>, {}, <<>>, -1, Never)}
Filtered == {Setup(TRUE, <<1..3>>, {2}, <<>>, 2, Never), Setup(TRUE, <<1..3>>, {1, 3}, <<>>, -1, Never),
             Setup(TRUE, <<1..3>>, {2}, <<3>>, -1, Never), Setup(TRUE, <<1..3>>, {}, <<2>>, 2, Never)}
Timed    == {Setup(TRUE, <<1..3>>, {}, <<>>, -1, t) : t \in Deadlines}

\* No time limit for a query with an excluded word.
AllSetups(q)   == Plain \cup Ram \cup Filtered \cup (IF q \in AndNot THEN {} ELSE Timed)
TimedSetups(q) == Timed
=============================================================================
