-------------------------------- MODULE Slab --------------------------------
(***************************************************************************)
(* One kmem_cache of sys/common/slab.c: three SLISTs of slabs and, in each *)
(* slab, an array of object pointers with a cursor, first_free.  Entries   *)
(* from first_free on are free objects and NULL ends them; the entries     *)
(* before it are stale.  A free puts the object into whatever slab is at   *)
(* the head of a list, not into the slab it came from: objects migrate.    *)
(*                                                                         *)
(* A slab is the kernel page it lives in; an object is a slab and a slot.  *)
(* An SLIST is a sequence, its head first.  The CPU runs one call at a     *)
(* time, so a call is one step.  What memset and the constructor and       *)
(* destructor hooks do to an object's bytes is not represented.            *)
(***************************************************************************)
EXTENDS Integers, Sequences, FiniteSets, Functions

CONSTANTS Slabs,      \* kernel pages this cache can be given
          num_total,  \* objects that fit in one (kmem_slab.num_total)
          NULL

Objects == Slabs \X (0 .. num_total - 1)

ASSUME SlabAssumption == /\ IsFiniteSet(Slabs)
                         /\ num_total \in Nat \ {0}
                         /\ NULL \notin Objects

VARIABLES slabs_partial, slabs_full, slabs_empty,  \* struct kmem_cache
          used,
          first_free,  \* index into the slab's freelist
          freelist,    \* the slab's array of object pointers
          vaddrs,      \* kernel pages virtmem_kernel_alloc can still give
          held,        \* objects clients hold
          result       \* what the last kmem_cache_alloc returned

vars == <<slabs_partial, slabs_full, slabs_empty, used, first_free, freelist,
          vaddrs, held, result>>

\* common_kmem_cache_init: three empty lists and used = 0.
Init ==
  /\ slabs_partial = << >> /\ slabs_full = << >> /\ slabs_empty = << >>
  /\ used = 0
  /\ first_free = [s \in Slabs |-> 0]
  /\ freelist = [s \in Slabs |-> [i \in 0 .. num_total |-> NULL]]
  /\ vaddrs = Slabs
  /\ held = {}
  /\ result = NULL

-----------------------------------------------------------------------------
\* Mutant: the terminator is one entry early.
kmem_initialize_slab_short(s) ==
  [i \in 0 .. num_total |-> IF i < num_total - 1 THEN <<s, i>> ELSE NULL]

\* The pointers kmem_initialize_slab stores in a fresh slab.
kmem_initialize_slab(s) ==
  [i \in 0 .. num_total |-> IF i < num_total THEN <<s, i>> ELSE NULL]

\* The common end of common_kmem_cache_alloc: s is at the head of
\* slabs_partial, before others, and list is the contents of the freelists.
TakeObject(s, others, list) ==
  LET obj  == list[s][first_free[s]]
      next == first_free[s] + 1
  IN  /\ freelist' = list
      /\ first_free' = [first_free EXCEPT ![s] = next]
      /\ IF list[s][next] = NULL
           THEN /\ slabs_partial' = others
                /\ slabs_full' = <<s>> \o slabs_full
           ELSE /\ slabs_partial' = <<s>> \o others
                /\ UNCHANGED slabs_full
      /\ held' = held \cup {obj}
      /\ used' = used + 1
      /\ result' = obj

AllocFromPartial ==
  /\ slabs_partial # << >>
  /\ TakeObject(Head(slabs_partial), Tail(slabs_partial), freelist)
  /\ UNCHANGED <<slabs_empty, vaddrs>>

\* Mutant: the slab is not removed from slabs_empty.
AllocFromEmpty_not_removed ==
  /\ slabs_partial = << >> /\ slabs_empty # << >>
  /\ TakeObject(Head(slabs_empty), << >>, freelist)
  /\ UNCHANGED <<slabs_empty, vaddrs>>

AllocFromEmpty ==
  /\ slabs_partial = << >> /\ slabs_empty # << >>
  /\ TakeObject(Head(slabs_empty), << >>, freelist)
  /\ slabs_empty' = Tail(slabs_empty)
  /\ UNCHANGED vaddrs

NoneLeft == slabs_partial = << >> /\ slabs_empty = << >>

AllocNewSlab ==
  /\ NoneLeft
  /\ \E s \in vaddrs :
       /\ vaddrs' = vaddrs \ {s}
       /\ TakeObject(s, << >>, [freelist EXCEPT ![s] = kmem_initialize_slab(s)])
  /\ UNCHANGED slabs_empty

\* virtmem_kernel_alloc fails.
AllocNoVaddr ==
  /\ NoneLeft /\ vaddrs = {}
  /\ result' = NULL
  /\ UNCHANGED <<slabs_partial, slabs_full, slabs_empty, used, first_free,
                 freelist, vaddrs, held>>

\* physmem_page_alloc fails, as it may whenever others have taken the pages;
\* the kernel address just allocated is not given back.
AllocNoPage ==
  /\ NoneLeft
  /\ \E s \in vaddrs : vaddrs' = vaddrs \ {s}
  /\ result' = NULL
  /\ UNCHANGED <<slabs_partial, slabs_full, slabs_empty, used, first_free,
                 freelist, held>>

common_kmem_cache_alloc ==
  AllocFromPartial \/ AllocFromEmpty \/ AllocNewSlab \/ AllocNoVaddr \/ AllocNoPage

-----------------------------------------------------------------------------
\* Mutant: the entry is stored at the cursor before the cursor moves back.
PutObject_late_cursor(obj, s, others) ==
  /\ freelist' = [freelist EXCEPT ![s][first_free[s]] = obj]
  /\ first_free' = [first_free EXCEPT ![s] = @ - 1]
  /\ IF first_free[s] = 1
       THEN slabs_partial' = others /\ slabs_empty' = <<s>> \o slabs_empty
       ELSE slabs_partial' = <<s>> \o others /\ UNCHANGED slabs_empty
  /\ held' = held \ {obj}
  /\ used' = used - 1

\* Mutant: the object counts as used until its slab is empty.
PutObject_used_late(obj, s, others) ==
  /\ freelist' = [freelist EXCEPT ![s][first_free[s] - 1] = obj]
  /\ first_free' = [first_free EXCEPT ![s] = @ - 1]
  /\ held' = held \ {obj}
  /\ IF first_free[s] = 1
       THEN /\ slabs_partial' = others /\ slabs_empty' = <<s>> \o slabs_empty
            /\ used' = used - 1
       ELSE /\ slabs_partial' = <<s>> \o others
            /\ UNCHANGED <<slabs_empty, used>>

\* Mutant: a slab with one object in use is already taken for empty.
PutObject_empty_early(obj, s, others) ==
  /\ freelist' = [freelist EXCEPT ![s][first_free[s] - 1] = obj]
  /\ first_free' = [first_free EXCEPT ![s] = @ - 1]
  /\ IF first_free[s] <= 2
       THEN slabs_partial' = others /\ slabs_empty' = <<s>> \o slabs_empty
       ELSE slabs_partial' = <<s>> \o others /\ UNCHANGED slabs_empty
  /\ held' = held \ {obj}
  /\ used' = used - 1

\* The common end of common_kmem_cache_free: s is at the head of
\* slabs_partial, before others.
PutObject(obj, s, others) ==
  LET prev == first_free[s] - 1
  IN  /\ freelist' = [freelist EXCEPT ![s][prev] = obj]
      /\ first_free' = [first_free EXCEPT ![s] = prev]
      /\ IF prev = 0
           THEN slabs_partial' = others /\ slabs_empty' = <<s>> \o slabs_empty
           ELSE slabs_partial' = <<s>> \o others /\ UNCHANGED slabs_empty
      /\ held' = held \ {obj}
      /\ used' = used - 1

FreeToPartial(obj) ==
  /\ slabs_partial # << >>
  /\ PutObject(obj, Head(slabs_partial), Tail(slabs_partial))
  /\ UNCHANGED <<slabs_full, vaddrs, result>>

FreeToFull(obj) ==
  /\ slabs_partial = << >> /\ slabs_full # << >>
  /\ PutObject(obj, Head(slabs_full), << >>)
  /\ slabs_full' = Tail(slabs_full)
  /\ UNCHANGED <<vaddrs, result>>

\* Clients free only what they hold.
common_kmem_cache_free(obj) == FreeToPartial(obj) \/ FreeToFull(obj)

Next == common_kmem_cache_alloc \/ \E obj \in held : common_kmem_cache_free(obj)

Spec == Init /\ [][Next]_vars

-----------------------------------------------------------------------------
\* The slabs the cache owns.
Owned == Range(slabs_partial) \cup Range(slabs_full) \cup Range(slabs_empty)

\* The slots whose entry is a free object, and those objects.
FreeSlots == {slot \in Owned \X (0 .. num_total - 1) : slot[2] >= first_free[slot[1]]}

Entry(slot) == freelist[slot[1]][slot[2]]

FreeObjects == {Entry(slot) : slot \in FreeSlots}

\* The objects that lie in the slabs the cache owns.
Stock == Owned \X (0 .. num_total - 1)

\* Every variable has its type; first_free stays inside its array, which is
\* the code's unchecked pointer arithmetic.
TypeOK ==
  /\ slabs_partial \in Seq(Slabs) /\ slabs_full \in Seq(Slabs)
  /\ slabs_empty \in Seq(Slabs)
  /\ used \in Nat
  /\ first_free \in [Slabs -> 0 .. num_total]
  /\ freelist \in [Slabs -> [0 .. num_total -> Objects \cup {NULL}]]
  /\ vaddrs \subseteq Slabs
  /\ held \subseteq Objects
  /\ result \in Objects \cup {NULL}

Disjoint(A, B) == A \cap B = {}

\* Each slab is once on exactly one list, the one that fits its cursor, and
\* the pages still available are not slabs.
SlabsOnTheRightList ==
  /\ IsInjective(slabs_partial) /\ IsInjective(slabs_full) /\ IsInjective(slabs_empty)
  /\ Disjoint(Owned, vaddrs)
  /\ \A s \in Range(slabs_partial) : first_free[s] \in 1 .. num_total - 1
  /\ \A s \in Range(slabs_full) : first_free[s] = num_total
  /\ \A s \in Range(slabs_empty) : first_free[s] = 0

\* Although objects migrate between slabs, no object of the cache is lost or
\* duplicated: each is held by a client or stored in exactly one free slot.
ObjectsConserved ==
  /\ \A a, b \in FreeSlots : Entry(a) = Entry(b) => a = b
  /\ Disjoint(FreeObjects, held)
  /\ FreeObjects \cup held = Stock

\* used is the number of objects clients hold.
UsedIsHeld == used = Cardinality(held)

\* The assert(0) in common_kmem_cache_free is unreachable: while a client
\* holds an object there is a partial or a full slab to put it into.
FreeFindsASlab == held # {} => slabs_partial # << >> \/ slabs_full # << >>

\* The cache keeps the promise of ObjectCache: an object has one holder at a
\* time, and NULL is returned only when nothing is left in any slab.
ObjectsOf(s) == {s} \X (0 .. num_total - 1)

Promise == INSTANCE ObjectCache WITH stock <- Stock

ImplementsObjectCache == Promise!Spec
=============================================================================
