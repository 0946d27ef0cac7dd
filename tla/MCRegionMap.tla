----------------------------- MODULE MCRegionMap -----------------------------
(***************************************************************************)
(* RegionMap for TLC: page tables of a few entries, two address spaces.    *)
(***************************************************************************)
EXTENDS RegionMap

CONSTANTS a, b   \* the two page directories

Region(pd, start, n, writable, paddr) ==
  [pd |-> pd, start |-> start, n_pages |-> n, writable |-> writable, paddr |-> paddr]

\* A region across two page tables, its neighbour, one at the same addresses in
\* the other space, and a device's frame there, in a page table of its own and
\* at an index of its own.
Several == {Region(a, 3, 2, TRUE, 0), Region(a, 5, 1, FALSE, 0),
            Region(b, 3, 1, TRUE, 0), Region(b, 6, 1, FALSE, NFrames)}

\* One page.
OnePage == {Region(a, 1, 1, TRUE, 0)}

LastFrame == {NFrames}
NoDevice == {}

\* Physical page 0 is clear, as a PC's is beyond the vectors ...
ClearPage == EmptyTable

\* ... or holds vectors, which read as entries are not zero.
VectorPage == [i \in 0 .. NPte - 1 |-> [page |-> 1, present |-> TRUE, writable |-> TRUE]]

\* The allocated pages find nothing in physical page 0 ...
LowMemoryClear ==
  \A r \in Regions : r.paddr = 0 => \A u \in PagesOf(r) : LowMemory[PtIndex(u)].page = 0

\* ... and the device's region is one page, in a page table of its own and at an
\* index that no allocated page has: entered in physical page 0 it is not found
\* by the walk for another page.
NamedAlone ==
  \A r \in Regions : r.paddr # 0 =>
    /\ r.n_pages <= 1
    /\ \A s \in Regions \ {r} : \A u \in PagesOf(s), v \in PagesOf(r) :
         /\ s.paddr = 0 => PtIndex(u) # PtIndex(v)
         /\ s.pd = r.pd => PdIndex(u) # PdIndex(v)

\* What holds of these regions; the page of vectors is not clear.
ASSUME Conditions ==
  NoPageZero /\ NamedAlone /\ (LowMemoryClear <=> LowMemory = ClearPage)
=============================================================================
