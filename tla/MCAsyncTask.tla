---------------------------- MODULE MCAsyncTask ----------------------------
(* Instances of AsyncTask for TLC.                                         *)
EXTENDS AsyncTask

Symmetry == Permutations(Tasks) \cup Permutations(Clients)
=============================================================================
