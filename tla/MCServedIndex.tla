--------------------------- MODULE MCServedIndex ---------------------------
(* Instances of ServedIndex for TLC. *)
EXTENDS ServedIndex, TLC

CONSTANTS p, q, r   \* two plain indexes and an RT one

Symmetry == Permutations(Session)

BothIndexes == {{p, r}}
OnePlain    == {{p}}
TwoPlain    == {{p, q}}
NoPairs     == {}
PlainToRt   == {<<p, r>>}
=============================================================================
