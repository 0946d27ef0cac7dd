----------------------------- MODULE MCThreads -----------------------------
(***************************************************************************)
(* Threads for TLC, up to renaming of threads and of address spaces.       *)
(***************************************************************************)
EXTENDS Threads, TLC

Symmetry == Permutations(ThreadSet) \cup Permutations(Spaces)
=============================================================================
