---------------------------- MODULE AddressSpace ----------------------------
(***************************************************************************)
(* Address spaces and their memory regions (sys/common/address_space.c).   *)
(* An address space keeps a list of the regions that occupy it; a region   *)
(* is a run of whole pages.  Addresses are machine words: they have        *)
(* NAddresses values, sums wrap around, and the cast to long in            *)
(* init_region makes the upper half negative.                              *)
(*                                                                         *)
(* The caller's side of the contract is that of the one caller, i686.c: a  *)
(* region handed to init_region or to memory_region_free is allocated and  *)
(* on no list of a live address space.  Neither function checks it.        *)
(***************************************************************************)
EXTENDS Integers, Sequences, SequencesExt

CONSTANTS Spaces,      \* struct address_space objects of as_cache
          Regions,     \* struct memory_region objects of mr_cache
          NULL,
          NAddresses,  \* 2^32
          PageSize,    \* physmem_page_size()
          Starts,      \* the start addresses callers ask for
          Lens,        \* the lengths callers ask for
          Limit        \* no caller asks for a region that ends above Limit:
                       \* the kernel has the top of every address space

ASSUME AddressAssumption ==
  /\ PageSize \in Nat \ {0} /\ NAddresses \in Nat \ {0}
  /\ NAddresses % (2 * PageSize) = 0
  /\ Starts \subseteq 0 .. NAddresses - 1 /\ Lens \subseteq 0 .. NAddresses - 1
  /\ Limit \in 0 .. NAddresses - 1
  /\ NULL \notin Regions \cup Spaces

VARIABLES spaces,   \* the address spaces that are allocated
          regions,  \* as->regions, head first
          held,     \* the memory regions that are allocated
          mr,       \* each region's start and length
          result    \* what the last call returned, and for which object

vars == <<spaces, regions, held, mr, result>>

Addresses == 0 .. NAddresses - 1
Outcomes == {"none", "AS_SUCCESS", "AS_INVALID", "AS_OOM", "AS_USED", "fault"}

\* What kmem_cache_alloc makes of an object: it clears it.
Cleared == [start |-> 0, length |-> 0]

Init ==
  /\ spaces = {}
  /\ regions = [a \in Spaces |-> <<>>]
  /\ held = {}
  /\ mr = [m \in Regions |-> Cleared]
  /\ result = [err |-> "none", object |-> NULL]

Return(err, object) == result' = [err |-> err, object |-> object]

-----------------------------------------------------------------------------
\* The bound one past a region, which wraps to 0 at the top of memory.
End(loc) == (loc.start + loc.length) % NAddresses

\* memory_region_compare_to_location
compare_to_location(loc, addr) ==
  IF addr < loc.start THEN -1 ELSE IF addr >= End(loc) THEN 1 ELSE 0

\* Mutant: a region that ends where the other one starts is taken to touch it.
compare_to_region_closed(loc, other) ==
  IF End(other) < loc.start THEN -1 ELSE IF other.start >= End(loc) THEN 1 ELSE 0

\* memory_region_compare_to_region
compare_to_region(loc, other) ==
  IF End(other) <= loc.start THEN -1 ELSE IF other.start >= End(loc) THEN 1 ELSE 0

\* memory_region_available_in_address_space
available(a, loc) ==
  \A i \in DOMAIN regions[a] : compare_to_region(loc, mr[regions[a][i]]) # 0

\* Mutant: the list is walked to its end, and the last match is returned.
get_region_last(a, addr) ==
  LET hits == SelectSeq(regions[a], LAMBDA m : compare_to_location(mr[m], addr) >= 0)
  IN IF hits = <<>> THEN NULL ELSE hits[Len(hits)]

\* address_space_get_region: the first region of the list that has the address.
\* (Called without an address space, or without a place for the answer, it
\* returns AS_INVALID and changes nothing; callers pass both.)
get_region(a, addr) ==
  LET hit == SelectInSeq(regions[a], LAMBDA m : compare_to_location(mr[m], addr) = 0)
  IN IF hit = 0 THEN NULL ELSE regions[a][hit]

\* (long)start, and the remainder of C, which has the sign of the dividend.
Signed(addr) == IF addr < NAddresses \div 2 THEN addr ELSE addr - NAddresses
Remainder(n, d) == IF n >= 0 THEN n % d ELSE -((-n) % d)

RoundStart(start) == (start - Remainder(Signed(start), PageSize)) % NAddresses

\* Mutant: the length is not made a whole number of pages.
RoundLen_not_whole(len) == len

RoundLen(len) == PageSize * (((len + PageSize - 1) % NAddresses) \div PageSize)

OnALiveList(m) == \E a \in spaces : Contains(regions[a], m)

-----------------------------------------------------------------------------
\* address_space_init_region asked for the address 0.
init_region_invalid(a, m) ==
  /\ a \in spaces /\ m \in held /\ ~OnALiveList(m)
  /\ 0 \in Starts
  /\ Return("AS_INVALID", m)
  /\ UNCHANGED <<spaces, regions, held, mr>>

\* Mutant: the space is checked where the region was, before it is moved.
init_region_checks_early(a, m, start, len) ==
  LET loc == [start |-> RoundStart(start), length |-> RoundLen(len)]
  IN /\ a \in spaces /\ m \in held /\ ~OnALiveList(m)
     /\ start # 0 /\ loc.start + loc.length <= Limit
     /\ mr' = [mr EXCEPT ![m] = loc]
     /\ \/ /\ ~available(a, mr[m])
           /\ Return("AS_USED", m) /\ UNCHANGED regions
        \/ /\ available(a, mr[m])
           /\ regions' = [regions EXCEPT ![a] = <<m>> \o @]
           /\ Return("AS_SUCCESS", m)
     /\ UNCHANGED <<spaces, held>>

\* address_space_init_region: the region is moved first, and stays moved when
\* its new place turns out to be taken.
init_region(a, m, start, len) ==
  LET loc == [start |-> RoundStart(start), length |-> RoundLen(len)]
  IN /\ a \in spaces /\ m \in held /\ ~OnALiveList(m)
     /\ start # 0 /\ loc.start + loc.length <= Limit
     /\ mr' = [mr EXCEPT ![m] = loc]
     /\ \/ /\ ~available(a, loc)
           /\ Return("AS_USED", m) /\ UNCHANGED regions
        \/ /\ available(a, loc)
           /\ regions' = [regions EXCEPT ![a] = <<m>> \o @]
           /\ Return("AS_SUCCESS", m)
     /\ UNCHANGED <<spaces, held>>

\* memory_region_alloc.  kmem_cache_alloc may fail at any time; the test that
\* should notice looks at the address of the caller's pointer.
memory_region_alloc ==
  /\ \/ \E m \in Regions \ held :
          /\ held' = held \cup {m}
          /\ mr' = [mr EXCEPT ![m] = Cleared]
          /\ Return("AS_SUCCESS", m)
     \/ Return("AS_SUCCESS", NULL) /\ UNCHANGED <<held, mr>>
  /\ UNCHANGED <<spaces, regions>>

\* memory_region_free
memory_region_free(m) ==
  /\ m \in held /\ ~OnALiveList(m)
  /\ held' = held \ {m}
  /\ Return("AS_SUCCESS", m)
  /\ UNCHANGED <<spaces, regions, mr>>

\* Mutant: a recycled object keeps its list.
address_space_alloc_not_cleared ==
  /\ \/ \E a \in Spaces \ spaces :
          /\ spaces' = spaces \cup {a} /\ UNCHANGED regions
          /\ Return("AS_SUCCESS", a)
     \/ Return("fault", NULL) /\ UNCHANGED <<spaces, regions>>
  /\ UNCHANGED <<held, mr>>

\* address_space_alloc.  When kmem_cache_alloc fails LIST_INIT writes through
\* the null pointer, which is where this kernel's execution ends.
address_space_alloc ==
  /\ \/ \E a \in Spaces \ spaces :
          /\ spaces' = spaces \cup {a}
          /\ regions' = [regions EXCEPT ![a] = <<>>]
          /\ Return("AS_SUCCESS", a)
     \/ Return("fault", NULL) /\ UNCHANGED <<spaces, regions>>
  /\ UNCHANGED <<held, mr>>

\* address_space_free: the list is left as it is, in memory that is free.
address_space_free(a) ==
  /\ a \in spaces
  /\ spaces' = spaces \ {a}
  /\ Return("AS_SUCCESS", a)
  /\ UNCHANGED <<regions, held, mr>>

Running ==
  \/ address_space_alloc
  \/ memory_region_alloc
  \/ \E a \in Spaces : address_space_free(a)
  \/ \E m \in Regions : memory_region_free(m)
  \/ \E a \in Spaces, m \in Regions :
       \/ init_region_invalid(a, m)
       \/ \E start \in Starts, len \in Lens : init_region(a, m, start, len)

\* Nothing happens after the fault.
Next ==
  \/ result.err # "fault" /\ Running
  \/ result.err = "fault" /\ UNCHANGED vars

Spec == Init /\ [][Next]_vars

-----------------------------------------------------------------------------
\* Every list holds regions, every location is a run of addresses, and a call
\* returns one of the values of address_space_err_t (or never returns).
TypeOK ==
  /\ spaces \subseteq Spaces /\ held \subseteq Regions
  /\ regions \in [Spaces -> Seq(Regions)]
  /\ mr \in [Regions -> [start : Addresses, length : Addresses]]
  /\ result \in [err : Outcomes, object : Spaces \cup Regions \cup {NULL}]

\* The addresses of a location, the wrap-around included.
Bytes(loc) == {(loc.start + i) % NAddresses : i \in 0 .. loc.length - 1}

\* What init_region promises: two regions of a live address space share no
\* address, so that a page belongs to one region only.
RegionsDisjoint ==
  \A a \in spaces : \A i, j \in DOMAIN regions[a] :
    i # j => Bytes(mr[regions[a][i]]) \cap Bytes(mr[regions[a][j]]) = {}

\* get_region finds the owner of an address wherever it stands in the list,
\* and finds nothing at an address that no region has.
LookupFindsOwner ==
  \A a \in spaces, addr \in Addresses :
    LET owners == {m \in ToSet(regions[a]) : addr \in Bytes(mr[m])}
    IN IF owners = {} THEN get_region(a, addr) = NULL
                      ELSE owners = {get_region(a, addr)}

\* AS_USED is returned only for a reason: the place asked for has an address
\* in common with a listed region, or one of the two is empty and lies
\* strictly inside the other.
RefusedOnlyIfTaken ==
  result.err = "AS_USED" =>
    \E a \in spaces : \E i \in DOMAIN regions[a] :
      LET m == mr[result.object]
          other == mr[regions[a][i]]
      IN \/ Bytes(m) \cap Bytes(other) # {}
         \/ m.length = 0 /\ m.start \in Bytes(other) \ {other.start}
         \/ other.length = 0 /\ other.start \in Bytes(m) \ {m.start}

\* A region is on one list only and once, and it is allocated: the list of a
\* recycled address space does not keep regions of its previous life.
ListedOnce ==
  \A a, b \in spaces : \A i \in DOMAIN regions[a], j \in DOMAIN regions[b] :
    /\ regions[a][i] \in held
    /\ regions[a][i] = regions[b][j] => a = b /\ i = j

\* What memory_region_map asserts of a region: init_region has made it start on
\* a page boundary and have a whole number of pages, granted or not.
MapAssertsHold ==
  \A m \in Regions : mr[m].start % PageSize = 0 /\ mr[m].length % PageSize = 0
=============================================================================
