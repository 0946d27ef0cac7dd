--------------------------- MODULE PageAllocator ---------------------------
(***************************************************************************)
(* What a struct physmem promises to its clients, whatever pools it is     *)
(* built from: physmem_page_alloc hands out an address nobody holds, or    *)
(* reports PHYSMEM_ERR_OOM, and it reports OOM only when no page that the  *)
(* pool counts as free is left; physmem_page_free takes the address back.  *)
(*                                                                         *)
(* Unreachable is the number of pages that sit on the free list without    *)
(* being counted in free_pages (i686_prune_memory leaves some behind):     *)
(* the allocator never gets to them.                                       *)
(***************************************************************************)
EXTENDS Integers, FiniteSets

CONSTANTS Addresses,    \* the page addresses under management
          Unreachable   \* pages the allocator will never hand out

VARIABLES free,  \* addresses available
          held,  \* addresses handed out and not yet returned
          err    \* return code of the last completed call

vars == <<free, held, err>>

Init == /\ free = Addresses
        /\ held = {}
        /\ err = "none"

Exhausted == Cardinality(free) <= Unreachable

Alloc(a) == /\ ~ Exhausted
            /\ a \in free
            /\ free' = free \ {a}
            /\ held' = held \cup {a}
            /\ err' = "PHYSMEM_SUCCESS"

AllocFails == /\ Exhausted
              /\ err' = "PHYSMEM_ERR_OOM"
              /\ UNCHANGED <<free, held>>

Free(a) == /\ a \in held
           /\ held' = held \ {a}
           /\ free' = free \cup {a}
           /\ err' = "PHYSMEM_SUCCESS"

Next == \/ \E a \in Addresses : Alloc(a) \/ Free(a)
        \/ AllocFails

Spec == Init /\ [][Next]_vars
=============================================================================
