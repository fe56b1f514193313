---------------------------- MODULE MCProgramHash ---------------------------
(* Two requests at a time, and two files that take turns at the path. *)
EXTENDS ProgramHash, TLC

CONSTANTS f1, f2, t1, t2

TwoFiles == {f1, f2}
TwoTasks == {t1, t2}
Alike == Permutations(TwoFiles) \cup Permutations(TwoTasks)

=============================================================================
