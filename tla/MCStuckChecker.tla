-------------------------- MODULE MCStuckChecker --------------------------
(* Instances of StuckChecker for TLC.                                      *)
EXTENDS StuckChecker, TLC

Symmetry == Permutations(Threads)
=============================================================================
