------------------------------ MODULE MCRtIndex -----------------------------
(* Instances of RtIndex for TLC. *)
EXTENDS RtIndex, TLC

\* Documents and versions are interchangeable, threads too unless one of them
\* replays the binlog.
DataSymmetry == Permutations(Doc) \cup Permutations(Val)
Symmetry     == DataSymmetry \cup Permutations(Thread)

\* Program points between two changes of the files that belong together.
SaveWindow     == {"s_inner", "s_swap"}   \* .meta names the chunk, .ram is still there
KillWindow     == {"f_killed"}            \* .kill is open, hence empty
TruncateWindow == {"t_notify", "t_ram"}   \* .meta names no chunk, .ram is still there
OptimizeWindow == {"o_new", "o_swap"}
OtherPoints    == Points \ (SaveWindow \cup KillWindow \cup TruncateWindow \cup OptimizeWindow)

=============================================================================
