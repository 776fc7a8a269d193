----------------------------- MODULE MCSqliteDb -----------------------------
(* Instances of SqliteDb for TLC.                                          *)
EXTENDS SqliteDb, TLC

Symmetry == Permutations(Values)
=============================================================================
