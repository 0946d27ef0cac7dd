---------------------------- MODULE ObjectCache ----------------------------
(***************************************************************************)
(* What a kmem_cache promises to its clients, with the slabs hidden:       *)
(* kmem_cache_alloc returns an object nobody holds, taken from the memory  *)
(* the cache already has, or from new memory when none of that is left; it *)
(* returns NULL only when no object is left and no memory can be had.      *)
(***************************************************************************)
CONSTANTS Slabs,          \* pages that may become slabs
          ObjectsOf(_),   \* the objects that fit in one
          NULL

VARIABLES stock,   \* objects of the slabs the cache owns
          held,    \* objects handed out and not yet returned
          result   \* what the last kmem_cache_alloc returned

vars == <<stock, held, result>>

Init == stock = {} /\ held = {} /\ result = NULL

Give(obj) == held' = held \cup {obj} /\ result' = obj

AllocFromStock == /\ \E obj \in stock \ held : Give(obj)
                  /\ UNCHANGED stock

AllocFromNewSlab(s) == /\ stock = held
                       /\ ObjectsOf(s) \cap stock = {}
                       /\ stock' = stock \cup ObjectsOf(s)
                       /\ \E obj \in ObjectsOf(s) : Give(obj)

AllocFails == /\ stock = held
              /\ result' = NULL
              /\ UNCHANGED <<stock, held>>

Free(obj) == /\ obj \in held
             /\ held' = held \ {obj}
             /\ UNCHANGED <<stock, result>>

Next == \/ AllocFromStock \/ AllocFails
        \/ \E s \in Slabs : AllocFromNewSlab(s)
        \/ \E obj \in held : Free(obj)

Spec == Init /\ [][Next]_vars
=============================================================================
