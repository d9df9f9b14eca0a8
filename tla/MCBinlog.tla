------------------------------ MODULE MCBinlog ------------------------------
(* Instances of Binlog for TLC. *)
EXTENDS Binlog, TLC

Symmetry == Permutations(Index)
=============================================================================
