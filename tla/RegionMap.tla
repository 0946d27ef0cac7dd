------------------------------ MODULE RegionMap ------------------------------
(***************************************************************************)
(* memory_region_map (sys/common/address_space.c) on the page tables of    *)
(* i686_virtmem: the regions of several address spaces are backed with     *)
(* pages, page by page, while other parts of the kernel take and give back *)
(* page frames between the calls.  A call that ran out of memory may be    *)
(* made again.                                                             *)
(*                                                                         *)
(* A region is [pd, start, n_pages, writable, paddr]; those of one address *)
(* space do not overlap (AddressSpace!RegionsDisjoint).  paddr is 0, and   *)
(* the pages are allocated, or the first frame of a run of frames outside  *)
(* the allocator's, which are mapped as they are.                          *)
(***************************************************************************)
EXTENDS PageTables, FiniteSets

CONSTANTS Regions,    \* the regions, set up by init_region
          NoRegion,
          Device,     \* frames that the allocator does not manage
          MaxOthers,  \* the most frames the rest of the kernel holds
          LowMemory   \* what physical page 0 holds, read as a page table

PagesOf(r) == r.start .. r.start + r.n_pages - 1

ASSUME RegionMapAssumption ==
  /\ Device \subseteq Frames /\ NoRegion \notin Regions
  /\ \A r \in Regions :
       /\ r.pd \in Contexts /\ r.writable \in BOOLEAN
       /\ {r.start, r.n_pages, r.paddr} \subseteq Nat
       /\ PagesOf(r) \subseteq UserPages
       /\ r.paddr # 0 => r.paddr .. r.paddr + r.n_pages - 1 \subseteq Device
  /\ \A r, s \in Regions : r # s /\ r.pd = s.pd => PagesOf(r) \cap PagesOf(s) = {}
  /\ MaxOthers \in Nat
  /\ LowMemory \in [0 .. NPte - 1 -> EntryType]

\* What the code relies on without looking.  No region begins at address 0,
\* where a walk always ends in physical page 0.
NoPageZero == \A r \in Regions : 0 \notin PagesOf(r)

VARIABLES others,  \* frames held elsewhere in the kernel
          job,     \* the call in progress: its region and pg_num, if any
          result   \* what the last call for each region returned

vars == <<mem, others, job, result>>

Idle == [region |-> NoRegion, pg_num |-> 0]
Idling == job = Idle
Busy(r) == job.region = r

Managed == Frames \ Device

\* A frame holds what it was last used for, which is no page table: any
\* contents that are not zero.
Leftover == [i \in 0 .. NPte - 1 |->
               [page |-> 1, present |-> TRUE, writable |-> FALSE]]

Init ==
  /\ mem = [kused |-> 0,
            free |-> Managed,
            pd |-> [c \in Contexts |-> [i \in 0 .. NPde - 1 |-> 0]],
            pt |-> [f \in 0 .. NFrames |-> IF f = 0 THEN LowMemory ELSE Leftover]]
  /\ others = {}
  /\ job = Idle
  /\ result = [r \in Regions |-> "none"]

-----------------------------------------------------------------------------
\* common_memory_region_map is called; it goes over the region's pages.
common_memory_region_map(r) ==
  /\ Idling
  /\ job' = [region |-> r, pg_num |-> 0]
  /\ UNCHANGED <<mem, others, result>>

Cur(r) == r.start + job.pg_num

Continue(r) == job' = [region |-> r, pg_num |-> job.pg_num + 1] /\ UNCHANGED result
Return(r, err) == job' = Idle /\ result' = [result EXCEPT ![r] = err]

Done(r) ==
  /\ Busy(r) /\ job.pg_num = r.n_pages
  /\ Return(r, "AS_SUCCESS")
  /\ UNCHANGED <<mem, others>>

Turn(r) == Busy(r) /\ job.pg_num < r.n_pages

\* The end of a turn: the flags.  Their walk is used even if there was no
\* window page for it, through pointers that were never set.
SetFlagsAndContinue(r, m) ==
  \/ /\ CanWalk(m)
     /\ mem' = i686_user_set_page_flags(m, r.pd, Cur(r), r.writable)
     /\ Continue(r)
  \/ /\ ~CanWalk(m)
     /\ mem' = i686_pagewalk_init(m)
     /\ Return(r, "fault")

\* Mutant: a page that is there already is given back for a new one.
AllocateKeeps_replaces(r) ==
  LET m == AfterGetPage(mem, r.pd, Cur(r))
      old == PageFound(mem, r.pd, Cur(r))
      given == [m EXCEPT !.free = (@ \ {NextFree(m)}) \cup {old}]
  IN /\ Turn(r) /\ r.paddr = 0
     /\ CanWalk(mem) /\ old # 0 /\ m.free # {}
     /\ SetFlagsAndContinue(r, i686_user_map_page(given, r.pd, Cur(r), NextFree(m)))
     /\ UNCHANGED others

\* memory_region_map_allocate, a page that is there already.  Where the walk
\* fails p keeps the page of the turn before, or whatever it held if this is
\* the first turn; when that is not 0 the flags fault next.
AllocateKeeps(r) ==
  LET m == AfterGetPage(mem, r.pd, Cur(r))
  IN /\ Turn(r) /\ r.paddr = 0
     /\ ~CanWalk(mem) \/ PageFound(mem, r.pd, Cur(r)) # 0
     /\ SetFlagsAndContinue(r, m)
     /\ UNCHANGED others

\* ... and a page that must be fetched: there is none, or the first walk fails
\* and p, which nothing has set, happens to be 0.
NeedsPage(r) ==
  /\ Turn(r) /\ r.paddr = 0
  /\ IF CanWalk(mem) THEN PageFound(mem, r.pd, Cur(r)) = 0 ELSE job.pg_num = 0

AllocateFetches(r) ==
  LET m == AfterGetPage(mem, r.pd, Cur(r))
  IN /\ NeedsPage(r) /\ m.free # {}
     /\ SetFlagsAndContinue(r,
          i686_user_map_page(page_alloc(m), r.pd, Cur(r), NextFree(m)))
     /\ UNCHANGED others

\* Mutant: the loop waits for a page to become free.
AllocateFails_waits(r) ==
  /\ NeedsPage(r) /\ AfterGetPage(mem, r.pd, Cur(r)).free = {}
  /\ UNCHANGED vars

AllocateFails(r) ==
  LET m == AfterGetPage(mem, r.pd, Cur(r))
  IN /\ NeedsPage(r) /\ m.free = {}
     /\ mem' = m
     /\ Return(r, "AS_OOM")
     /\ UNCHANGED others

\* memory_region_map_exact
Exact(r) ==
  /\ Turn(r) /\ r.paddr # 0
  /\ SetFlagsAndContinue(r, i686_user_map_page(mem, r.pd, Cur(r), r.paddr + job.pg_num))
  /\ UNCHANGED others

\* The rest of the kernel, between calls.
OthersTake ==
  /\ Idling /\ mem.free # {} /\ Cardinality(others) < MaxOthers
  /\ others' = others \cup {NextFree(mem)}
  /\ mem' = page_alloc(mem)
  /\ UNCHANGED <<job, result>>

OthersGive(f) ==
  /\ Idling /\ f \in others
  /\ others' = others \ {f}
  /\ mem' = [mem EXCEPT !.free = @ \cup {f}]
  /\ UNCHANGED <<job, result>>

Step(r) == Done(r) \/ AllocateKeeps(r) \/ AllocateFetches(r) \/ AllocateFails(r) \/ Exact(r)

Faulted == \E r \in Regions : result[r] = "fault"

Next ==
  \/ /\ ~Faulted
     /\ \/ \E r \in Regions : common_memory_region_map(r) \/ Step(r)
        \/ OthersTake \/ \E f \in others : OthersGive(f)
  \/ Faulted /\ UNCHANGED vars

Spec == Init /\ [][Next]_vars

\* A call that has begun is executed to its end.
FairSpec == Spec /\ WF_vars(\E r \in Regions : Step(r))

-----------------------------------------------------------------------------
\* The tables hold frames, the call in progress is inside its region.
TypeOK ==
  /\ mem \in MemoryType
  /\ others \subseteq Frames
  /\ Idling \/ job \in [region : Regions, pg_num : 0 .. Cardinality(UserPages)]
  /\ result \in [Regions -> {"none", "AS_SUCCESS", "AS_OOM", "fault"}]

Tables == {slot \in Contexts \X (0 .. NPde - 1) : mem.pd[slot[1]][slot[2]] # 0}
TableOf(slot) == mem.pd[slot[1]][slot[2]]

FrameOf(slot) == Translation(mem, slot[1], slot[2]).page
Mapped == {slot \in Contexts \X UserPages : FrameOf(slot) \in Managed}

\* While the kernel window lasts no frame is lost and none has two uses: each
\* is free, or a page table, or mapped at one address of one context, or held
\* elsewhere.  A call that failed half-way and its repetition leak nothing.
FramesConserved ==
  mem.kused < NKernelPages =>
    /\ \A s, t \in Tables : TableOf(s) = TableOf(t) => s = t
    /\ \A s, t \in Mapped : FrameOf(s) = FrameOf(t) => s = t
    /\ LET tables == {TableOf(s) : s \in Tables}
           mapped == {FrameOf(s) : s \in Mapped}
       IN /\ mem.free \cup tables \cup mapped \cup others = Managed
          /\ Cardinality(mem.free) + Cardinality(tables) + Cardinality(mapped)
               + Cardinality(others) = Cardinality(Managed)

\* AS_SUCCESS means that the region can be used: the processor finds every
\* page of it, now and after whatever is mapped later, present, with the
\* region's access and backed by a page - the one the caller named, if it
\* named one.  For frames that the caller names the code promises less: without
\* memory for the page table it maps nothing and returns AS_SUCCESS.
SuccessMeansMapped ==
  \A r \in Regions : result[r] = "AS_SUCCESS" =>
    \A n \in 0 .. r.n_pages - 1 :
      LET e == Translation(mem, r.pd, r.start + n)
      IN \/ /\ e.present /\ e.writable = r.writable
            /\ IF r.paddr = 0 THEN e.page # 0 ELSE e.page = r.paddr + n
         \/ r.paddr # 0 /\ mem.pd[r.pd][PdIndex(r.start + n)] = 0

\* What a call can take for granted as long as memory is had for its page
\* tables: a turn that can get none finds nothing in physical page 0, which it
\* reads in its stead, and has no named frame to enter there.
PageZeroNotTaken ==
  \A r \in Regions : Turn(r) =>
    \/ mem.pd[r.pd][PdIndex(Cur(r))] # 0 \/ mem.free # {}
    \/ r.paddr = 0 /\ mem.pt[0][PtIndex(Cur(r))].page = 0

\* A page that was allocated for an address stays there: mapping the region
\* again, or another one, does not replace it.
PagesStay ==
  [][\A slot \in Mapped : Translation(mem', slot[1], slot[2]).page = FrameOf(slot)]_vars

\* Every call of memory_region_map comes to an end.
MapReturns == ~Idling ~> Idling
=============================================================================
