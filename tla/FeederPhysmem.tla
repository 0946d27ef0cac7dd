--------------------------- MODULE FeederPhysmem ---------------------------
(***************************************************************************)
(* The physical page pools of sys/common/physmem.c: the kernel-wide source *)
(* pool (the common_physmem functions) and the feeder a CPU puts in front  *)
(* of it (the feeder_physmem functions), as i686_cpu_init wires them:      *)
(* cpu()->localmem is a feeder whose source is kernel()->phys.             *)
(*                                                                         *)
(* A page is its index in the page table of struct physmem_page; clients   *)
(* see physical addresses.  A LIST_HEAD free list is a sequence whose      *)
(* first element is the list's head.                                       *)
(*                                                                         *)
(* feeder_physmem_page_alloc loops, so it is modelled step by step: call   *)
(* is where the CPU is inside it.  The CPU executes one handler at a time  *)
(* (one processor, no preemption), so a new call starts only when call is  *)
(* "idle".                                                                 *)
(***************************************************************************)
EXTENDS Integers, Sequences, FiniteSets, Functions

CONSTANTS
  NPages,                 \* pages on the source's free list after boot
  Uncounted,              \* of those, pages missing from source free_pages
  pages_to_keep,          \* feeder_physmem.pages_to_keep
  min_free_source_pages   \* feeder_physmem.min_free_source_pages

ASSUME PoolAssumption ==
  /\ NPages \in Nat
  /\ Uncounted \in 0 .. NPages
  /\ pages_to_keep \in Nat
  /\ min_free_source_pages \in Nat

PAGE_SIZE == 4096

\* Page 0 lies below 1MB, which is never put on the free list.
Pages == 1 .. NPages

page_to_phys(page) == page * PAGE_SIZE

phys_to_page(addr) == addr \div PAGE_SIZE

Addresses == {page_to_phys(page) : page \in Pages}

VARIABLES
  source,      \* kernel()->phys
  feeder,      \* the feeder's own struct physmem
  held,        \* addresses the kernel's other parts have been given
  call,        \* where the CPU is in feeder_physmem_page_alloc
  xfer_pages,  \* its local variable
  err          \* return code of the last completed call

vars == <<source, feeder, held, call, xfer_pages, err>>

-----------------------------------------------------------------------------
\* struct physmem: its free list and its two counters.

PoolType == [freelist : Seq(Pages), free_pages : Nat, total_pages : Nat]

list_insert_head(p, page) ==
  [p EXCEPT !.freelist = <<page>> \o @, !.free_pages = @ + 1]

\* The pool after common_physmem_page_alloc; the caller checks free_pages > 0.
common_physmem_page_alloc(p) ==
  [p EXCEPT !.freelist = Tail(@), !.free_pages = @ - 1]

\* The address it returns.
allocated_address(p) == page_to_phys(Head(p.freelist))

\* Mutant: the page goes on the list but is not counted.
common_physmem_page_free_uncounted(p, addr) ==
  [p EXCEPT !.freelist = <<phys_to_page(addr)>> \o @]

common_physmem_page_free(p, addr) == list_insert_head(p, phys_to_page(addr))

-----------------------------------------------------------------------------
\* Boot has filled the source, lowest page first, each at the head of the
\* list; feeder_physmem_create has made an empty feeder.

Init ==
  /\ source = [freelist    |-> [i \in 1 .. NPages |-> NPages + 1 - i],
               free_pages  |-> NPages - Uncounted,
               total_pages |-> NPages]
  /\ feeder = [freelist |-> << >>, free_pages |-> 0, total_pages |-> 0]
  /\ held = {}
  /\ call = "idle"
  /\ xfer_pages = 0
  /\ err = "none"

-----------------------------------------------------------------------------
\* feeder_physmem_page_alloc

\* Enough pages at hand: no transfer.
AllocStocked ==
  /\ call = "idle"
  /\ feeder.free_pages >= pages_to_keep + 1
  /\ call' = "take"
  /\ UNCHANGED <<source, feeder, held, xfer_pages, err>>

\* Mutant: the page about to be allocated is not replaced.
AllocLow_no_plus_one ==
  /\ call = "idle"
  /\ feeder.free_pages < pages_to_keep + 1
  /\ xfer_pages' = pages_to_keep - feeder.free_pages
  /\ call' = "refill"
  /\ UNCHANGED <<source, feeder, held, err>>

AllocLow ==
  /\ call = "idle"
  /\ feeder.free_pages < pages_to_keep + 1
  /\ xfer_pages' = pages_to_keep - feeder.free_pages + 1
  /\ call' = "refill"
  /\ UNCHANGED <<source, feeder, held, err>>

\* Mutant: the break compares with < instead of <=.
SourceSpares_at_limit == source.free_pages >= min_free_source_pages

\* The source may be drawn on: it has more than its reserve.
SourceSpares == source.free_pages > min_free_source_pages

\* Mutant: total_pages is not incremented.
refill_untotalled(p, page) == list_insert_head(p, page)

refill(p, page) ==
  [list_insert_head(p, page) EXCEPT !.total_pages = @ + 1]

\* One turn of the while loop: a page leaves the source for the feeder.
RefillStep ==
  /\ call = "refill"
  /\ xfer_pages # 0
  /\ SourceSpares
  /\ source' = common_physmem_page_alloc(source)
  /\ feeder' = refill(feeder, phys_to_page(allocated_address(source)))
  /\ xfer_pages' = xfer_pages - 1
  /\ UNCHANGED <<held, call, err>>

\* Mutant: continue instead of break.
RefillEnd_continue ==
  /\ call = "refill"
  /\ IF xfer_pages = 0 THEN call' = "take"
                       ELSE ~ SourceSpares /\ call' = "refill"
  /\ UNCHANGED <<source, feeder, held, xfer_pages, err>>

\* The loop ends by its condition or by the break.
RefillEnd ==
  /\ call = "refill"
  /\ xfer_pages = 0 \/ ~ SourceSpares
  /\ call' = "take"
  /\ UNCHANGED <<source, feeder, held, xfer_pages, err>>

\* The function returns; its local variable is gone.
Return(code) ==
  /\ call' = "idle"
  /\ xfer_pages' = 0
  /\ err' = code

TakeFromFeeder ==
  /\ call = "take"
  /\ feeder.free_pages > 0
  /\ feeder' = common_physmem_page_alloc(feeder)
  /\ held' = held \cup {allocated_address(feeder)}
  /\ Return("PHYSMEM_SUCCESS")
  /\ UNCHANGED source

TakeFromSource ==
  /\ call = "take"
  /\ feeder.free_pages <= 0
  /\ source.free_pages > 0
  /\ source' = common_physmem_page_alloc(source)
  /\ held' = held \cup {allocated_address(source)}
  /\ Return("PHYSMEM_SUCCESS")
  /\ UNCHANGED feeder

\* Mutant: an empty feeder reports OOM without asking its source.
OutOfMemory_source_not_asked ==
  /\ call = "take"
  /\ feeder.free_pages <= 0
  /\ Return("PHYSMEM_ERR_OOM")
  /\ UNCHANGED <<source, feeder, held>>

OutOfMemory ==
  /\ call = "take"
  /\ feeder.free_pages <= 0
  /\ source.free_pages <= 0
  /\ Return("PHYSMEM_ERR_OOM")
  /\ UNCHANGED <<source, feeder, held>>

-----------------------------------------------------------------------------
\* feeder_physmem_page_free, called on an address the caller holds.

SourceIsLow == source.free_pages < min_free_source_pages

\* Mutant: the else is missing, the page is kept here as well.
FreeToSource_no_else(addr) ==
  /\ SourceIsLow
  /\ source' = common_physmem_page_free(source, addr)
  /\ feeder' = common_physmem_page_free(feeder, addr)

FreeToSource(addr) ==
  /\ SourceIsLow
  /\ source' = common_physmem_page_free(source, addr)
  /\ UNCHANGED feeder

FreeToFeeder(addr) ==
  /\ ~ SourceIsLow
  /\ feeder' = common_physmem_page_free(feeder, addr)
  /\ UNCHANGED source

feeder_physmem_page_free(addr) ==
  /\ call = "idle"
  /\ FreeToSource(addr) \/ FreeToFeeder(addr)
  /\ held' = held \ {addr}
  /\ err' = "PHYSMEM_SUCCESS"
  /\ UNCHANGED <<call, xfer_pages>>

-----------------------------------------------------------------------------
feeder_physmem_page_alloc ==
  \/ RefillStep \/ RefillEnd
  \/ TakeFromFeeder \/ TakeFromSource \/ OutOfMemory

Next ==
  \/ AllocStocked \/ AllocLow
  \/ feeder_physmem_page_alloc
  \/ \E addr \in held : feeder_physmem_page_free(addr)

Spec == Init /\ [][Next]_vars

\* The CPU keeps executing the handler it is in; callers owe nothing.
FairSpec == Spec /\ WF_vars(feeder_physmem_page_alloc)

-----------------------------------------------------------------------------
\* Every variable has the values the code's types and uses allow: in
\* particular no counter drops below zero, which the code's unsigned
\* arithmetic would turn into a huge number of free pages.
TypeOK ==
  /\ source \in PoolType
  /\ feeder \in PoolType
  /\ held \subseteq Addresses
  /\ call \in {"idle", "refill", "take"}
  /\ xfer_pages \in Nat
  /\ err \in {"none", "PHYSMEM_SUCCESS", "PHYSMEM_ERR_OOM"}

OnList(p) == {page_to_phys(page) : page \in Range(p.freelist)}

\* A page is in exactly one place: once on one of the two free lists, or
\* with one client.  Moving pages between the pools and in and out of them
\* neither loses one nor hands one out twice.
PagesConserved ==
  /\ IsInjective(source.freelist) /\ IsInjective(feeder.freelist)
  /\ OnList(source) \cap OnList(feeder) = {}
  /\ (OnList(source) \cup OnList(feeder)) \cap held = {}
  /\ OnList(source) \cup OnList(feeder) \cup held = Addresses

\* free_pages is the length of the list it describes, but for the pages boot
\* left uncounted; so the assert(!LIST_EMPTY) in common_physmem_page_alloc
\* holds at every call that passes the free_pages check before it.
CountersAgree ==
  /\ Len(source.freelist) = source.free_pages + Uncounted
  /\ Len(feeder.freelist) = feeder.free_pages

\* stats_get on the feeder never reports more free pages than it has pages:
\* total_pages is counted only when a page is transferred, although pages
\* also reach the feeder by being freed to it and leave it for the source.
FeederStatsConsistent == feeder.free_pages <= feeder.total_pages

\* While the source can spare pages the feeder stays replenished: between
\* calls, once it has been used, it keeps at least pages_to_keep.
FeederReplenished ==
  (call = "idle" /\ SourceSpares /\ feeder.total_pages > 0)
    => feeder.free_pages >= pages_to_keep

\* The source's reserve is the last resort: a step takes the source below
\* min_free_source_pages only when the feeder has nothing left.
ReserveIsLastResort ==
  [][ (source'.free_pages < source.free_pages
        /\ source'.free_pages < min_free_source_pages)
      => feeder.free_pages = 0 ]_vars

\* Every call of feeder_physmem_page_alloc returns: the transfer loop ends.
AllocReturns == (call # "idle") ~> (call = "idle")

\* The two pools together keep the promise of one page allocator: an address
\* is given to one client at a time, and OOM is reported only when nothing
\* counted as free is left in either pool.
Promise == INSTANCE PageAllocator
             WITH Unreachable <- Uncounted,
                  free <- OnList(source) \cup OnList(feeder)

ImplementsPageAllocator == Promise!Spec
=============================================================================
