--------------------------- MODULE MCTealTaskMeta ---------------------------
(* Two task slots and two programs, interchangeable. *)
EXTENDS TealTaskMeta, TLC

CONSTANTS t1, t2, pa, pb

TwoTasks == {t1, t2}
TwoPrograms == {pa, pb}
\* A preloaded directory and a build's executable.
OneEach == {{"silent", "parent"}, {"inherit"}}
Symmetry == Permutations(TwoTasks) \cup Permutations(TwoPrograms)

=============================================================================
