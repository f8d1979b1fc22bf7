--------------------------- MODULE MCLibraryLoad ---------------------------
(***************************************************************************)
(* LibraryLoad with three interchangeable threads.                         *)
(***************************************************************************)
EXTENDS LibraryLoad, TLC

CONSTANTS t1, t2, t3
MCThreads == {t1, t2, t3}
Symmetry == Permutations(MCThreads)
=============================================================================
