--------------------------- MODULE MCAddressSpace ---------------------------
(***************************************************************************)
(* AddressSpace for TLC: spaces and regions are interchangeable objects of *)
(* their caches.                                                           *)
(***************************************************************************)
EXTENDS AddressSpace, TLC

Symmetry == Permutations(Spaces) \cup Permutations(Regions)
=============================================================================
