----------------------------- MODULE MCUserCopy -----------------------------
(***************************************************************************)
(* UserCopy for TLC: pages of two bytes, page tables of two entries.       *)
(***************************************************************************)
EXTENDS UserCopy

CONSTANTS a, b   \* the two page directories

\* Two pages that belong to two page tables, and one in the other space.
Pages == {<<a, 1>>, <<a, 2>>, <<b, 2>>}
=============================================================================
