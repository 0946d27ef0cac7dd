------------------------------- MODULE MCSlab -------------------------------
\* The slab cache on interchangeable kernel pages.
EXTENDS Slab, TLC

Symmetry == Permutations(Slabs)
=============================================================================
