---------------------------- MODULE MCSlabLayout ----------------------------
\* Every object size a slab of one i686 page can hold, and the first few that
\* it cannot (for those the assertion n_elements > 0 fails).
EXTENDS SlabLayout

MCObjSizes == 1 .. 4080
=============================================================================
