-------------------------- MODULE MCCapnpRegistry --------------------------
(* Instances of CapnpRegistry for TLC.                                     *)
EXTENDS CapnpRegistry, TLC

Symmetry == Permutations(Exts) \cup Permutations(Ids)
=============================================================================
