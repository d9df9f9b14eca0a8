----------------------------- MODULE MCKillList -----------------------------
(* Instances of KillList for TLC. *)
EXTENDS KillList, TLC

Symmetry == Permutations(Thread)
=============================================================================
