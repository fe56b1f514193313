------------------------- MODULE MCTealControlLane --------------------------
(* Two threads; their names are interchangeable where no liveness is asked.  *)
EXTENDS TealControlLane, TLC

CONSTANTS t1, t2

TwoThreads == {t1, t2}
ThreadSymmetry == Permutations(TwoThreads)

=============================================================================
