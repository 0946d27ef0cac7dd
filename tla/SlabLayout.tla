----------------------------- MODULE SlabLayout -----------------------------
(***************************************************************************)
(* kmem_initialize_slab of sys/common/slab.c, byte by byte: how one slab's *)
(* memory is divided between struct kmem_slab, its freelist and the        *)
(* objects.  Addresses are offsets from the start of the slab.  The        *)
(* freelist grows up from the struct, the objects end at the end of the    *)
(* slab, and nothing but the formula for n_elements keeps them apart.      *)
(***************************************************************************)
EXTENDS Integers

CONSTANTS size,      \* n_pages * page size
          ObjSizes   \* the object sizes caches are created with

SizeofSlab == 16     \* sizeof(struct kmem_slab) on i686
SizeofPointer == 4   \* sizeof(void *)

\* common_kmem_cache_init refuses an object size below MIN_CACHE_SIZE; one
\* page holds at least the struct and the terminator.
ASSUME LayoutAssumption == /\ size \in Nat
                           /\ size >= SizeofSlab + SizeofPointer
                           /\ ObjSizes \subseteq Nat \ {0}

VARIABLES objsize,     \* cache->objsize
          n_elements, i, cur_obj,
          pc           \* "loop", "terminate", "done", or "assert"

layout == <<objsize, n_elements, i, cur_obj, pc>>

\* Mutant: no room is kept for the terminating NULL.
elements_no_terminator(osize) ==
  (size - SizeofSlab) \div (osize + SizeofPointer)

elements(osize) ==
  (size - SizeofSlab - SizeofPointer) \div (osize + SizeofPointer)

\* Mutant: the objects start one object late.
FirstObject_late(osize, n) == size - osize * (n - 1)

FirstObject(osize, n) == size - osize * n

FreelistEntry(k) == SizeofSlab + k * SizeofPointer

LayoutInit ==
  /\ objsize \in ObjSizes
  /\ n_elements = elements(objsize)
  /\ i = 0
  /\ cur_obj = FirstObject(objsize, n_elements)
  /\ pc = IF n_elements > 0 THEN "loop" ELSE "assert"

\* s->freelist[i] = cur_obj
StoreEntry ==
  /\ pc = "loop" /\ i < n_elements
  /\ i' = i + 1
  /\ cur_obj' = cur_obj + objsize
  /\ UNCHANGED <<objsize, n_elements, pc>>

LoopEnd ==
  /\ pc = "loop" /\ i >= n_elements
  /\ pc' = "terminate"
  /\ UNCHANGED <<objsize, n_elements, i, cur_obj>>

\* s->freelist[i] = NULL
StoreTerminator ==
  /\ pc = "terminate"
  /\ pc' = "done"
  /\ UNCHANGED <<objsize, n_elements, i, cur_obj>>

LayoutNext == StoreEntry \/ LoopEnd \/ StoreTerminator

LayoutSpec == LayoutInit /\ [][LayoutNext]_layout

-----------------------------------------------------------------------------
\* The freelist entry being written, terminator included, ends at or before
\* the first object: clearing an object with memset, or using it, never
\* overwrites the freelist, and the freelist never runs into an object.
FreelistClearOfObjects ==
  pc \in {"loop", "terminate"} /\ i <= n_elements
    => FreelistEntry(i) + SizeofPointer <= FirstObject(objsize, n_elements)

\* Every pointer stored points at an object that lies inside the slab, and
\* the last object ends exactly where the slab ends.
ObjectsInsideSlab ==
  /\ pc = "loop" /\ i < n_elements => /\ cur_obj >= 0
                                      /\ cur_obj + objsize <= size
  /\ pc \in {"terminate", "done"} => cur_obj = size
=============================================================================
