------------------------- MODULE MCDirectoryWatcher -------------------------
(* Instances of DirectoryWatcher for TLC.                                  *)
EXTENDS DirectoryWatcher

Symmetry == Permutations(Dirs) \cup Permutations(Names)
=============================================================================
