----------------------------- MODULE BootMemory -----------------------------
(***************************************************************************)
(* How the kernel comes by its memory: i686_create_initial and             *)
(* i686_prune_memory (sys/i686/i686_physmem.c) go through the memory map   *)
(* of the boot loader, put page descriptors on two lists and take those of *)
(* the kernel off again.  The descriptors are an array behind the kernel's *)
(* image, for which virtmem_brk maps memory as it grows.  Afterwards pages *)
(* are taken for slabs and page directories, and directories are switched  *)
(* to.                                                                     *)
(***************************************************************************)
EXTENDS KernelSpace, LinkedList, Sequences

CONSTANTS Maps,        \* memory maps: sequences of [base, length, usable, high]
          NAddresses,  \* 2^32
          LowLimit,    \* 0x100000
          KernelEnd,   \* ebss, as an offset from highstart
          EntrySize,   \* sizeof(struct physmem_page)
          freelist, bootlist

Pages == 0 .. (NAddresses \div PageSize) - 1

ASSUME BootAssumption ==
  /\ {LowLimit, KernelEnd} \subseteq Nat /\ {EntrySize, NAddresses} \subseteq Nat \ {0}
  /\ NAddresses % PageSize = 0 /\ PageSize * NKernelPages <= NAddresses
  /\ LowLimit <= KernelEnd       \* scripts/i686.ld links the kernel above 1 MB
  /\ \A map \in Maps : map \in Seq([base : 0 .. NAddresses - 1, length : 0 .. NAddresses - 1,
                                    usable : BOOLEAN, high : BOOLEAN])
  /\ KernelEnd + (EntrySize * (Cardinality(Pages) + 1)) + PageSize <= PageSize * NKernelPages
  /\ freelist # bootlist /\ Null \notin {freelist, bootlist}
  /\ {freelist, bootlist, Null} \cap Pages = {}

VARIABLES mode,    \* how far the kernel is, or how it ended
          mmap,    \* the memory map it was given
          dirty,   \* whether memory was used before
          kern,    \* see KernelSpace
          lists,   \* see LinkedList: the page descriptors and two heads
          pages,   \* free_pages and total_pages of i686_physmem
          cur,     \* the next entry of the map, then curpage - start_kernel
          owned,   \* kernel page and frame of each slab
          ready    \* page directories: the constructed ones and the set up ones

vars == <<mode, mmap, dirty, kern, lists, pages, cur, owned, ready>>

Init ==
  /\ mode = "loaded" /\ mmap \in Maps /\ dirty \in BOOLEAN
  /\ kern = setup_tables(Pages)
  /\ lists = [at |-> [p \in Pages \cup {freelist, bootlist} |-> Null],
              prev |-> [p \in Pages |-> Null]]
  /\ pages = [free |-> 0, total |-> 0]
  /\ cur = 1
  /\ owned = {}
  /\ ready = [made |-> {}, set |-> {}]

-----------------------------------------------------------------------------
VirtmemInit ==
  /\ mode = "loaded" /\ mode' = "areas"
  /\ kern' = i686_virtmem_init(kern, KernelEnd)
  /\ UNCHANGED <<mmap, dirty, lists, pages, cur, owned, ready>>

\* startpage and lastpage of an entry.  The sums wrap, the difference does not
\* become negative, and lastpage is one past the last page of the area (or is
\* its incomplete last page).
FirstPage(e) == ((e.base + PageSize - 1) % NAddresses) \div PageSize
LastPage(e) ==
  Max({FirstPage(e), ((e.base + e.length + PageSize - 1) % NAddresses) \div PageSize})

\* &table[p], the kernel pages that table[p] lies in, and whether they can be
\* touched.
Descriptor(p) == KernelEnd + (EntrySize * p)
Reachable(k, p) ==
  \A i \in Descriptor(p) \div PageSize .. (Descriptor(p + 1) - 1) \div PageSize :
    Seen(k, k.cr3, i) # Absent

ListFor(p) == IF p * PageSize < LowLimit THEN bootlist ELSE freelist

\* Mutant: room is made for as many descriptors as the area has pages.
RoomFor_count(e) == Descriptor(LastPage(e) - FirstPage(e))

\* The limit that the table needs for an entry of the map.
RoomFor(e) == Descriptor(LastPage(e) + 1)

\* The loop over n pages, each of which is put at the head of its list.
InsertPages(l, first, n) ==
  LET after[i \in 0 .. n] ==
        IF i = 0 THEN l
        ELSE LIST_INSERT_HEAD(after[i - 1], ListFor(first + i - 1), first + i - 1)
  IN after[n]

\* An entry of the memory map.
Area(e) ==
  LET k == i686_brk(kern, RoomFor(e))
      span == FirstPage(e) .. LastPage(e)
  IN \/ /\ e.high                       \* not supported: while (1)
        /\ mode' = "hung" /\ UNCHANGED <<kern, lists, pages, cur>>
     \/ /\ ~e.high /\ e.usable
        /\ mode' = IF \A p \in span : Reachable(k, p) THEN mode ELSE "fault"
        /\ kern' = k
        /\ lists' = InsertPages(lists, FirstPage(e), Cardinality(span))
        /\ pages' = [free |-> pages.free
                                + Cardinality({p \in span : ListFor(p) = freelist}),
                     total |-> pages.total + Cardinality(span)]
        /\ cur' = cur + 1
     \/ /\ ~e.high /\ ~e.usable
        /\ pages' = [pages EXCEPT !.total = @ + Cardinality(span)]
        /\ cur' = cur + 1 /\ UNCHANGED <<mode, kern, lists>>

i686_create_initial ==
  /\ mode = "areas" /\ cur <= Len(mmap)
  /\ Area(mmap[cur])
  /\ UNCHANGED <<mmap, dirty, owned, ready>>

EndOfMap ==
  /\ mode = "areas" /\ cur > Len(mmap)
  /\ mode' = "prune" /\ cur' = 0
  /\ UNCHANGED <<mmap, dirty, kern, lists, pages, owned, ready>>

\* A turn of i686_prune_memory.  The descriptor of a page that was on no list
\* holds what was in memory before; unless that is zero, LIST_REMOVE writes
\* to some address, and the model ends.
Wild(p) == lists.prev[p] = Null /\ dirty

Unlink(p) ==
  \/ /\ ~Wild(p)
     /\ mode' = IF Reachable(kern, p) THEN mode ELSE "fault"
     /\ lists' = LIST_REMOVE(lists, p) /\ cur' = cur + 1
  \/ /\ Wild(p)
     /\ mode' = "wild" /\ UNCHANGED <<lists, cur>>

\* Mutant: the image is pruned, the table behind it is not.
end_kernel_image == PageUp(KernelEnd)

end_kernel == PageUp(kern.limit)

i686_prune_memory ==
  /\ mode = "prune" /\ cur <= end_kernel
  /\ Unlink(cur)
  /\ UNCHANGED <<mmap, dirty, kern, pages, owned, ready>>

\* Mutant: the page at the end of the kernel is not counted.
PruneDone_off_by_one ==
  /\ mode = "prune" /\ cur > end_kernel
  /\ mode' = "running"
  /\ pages' = [pages EXCEPT !.free = (@ - cur + 1) % NAddresses]
  /\ UNCHANGED <<mmap, dirty, kern, lists, cur, owned, ready>>

PruneDone ==
  /\ mode = "prune" /\ cur > end_kernel
  /\ mode' = "running"
  /\ pages' = [pages EXCEPT !.free = (@ - cur) % NAddresses]
  /\ UNCHANGED <<mmap, dirty, kern, lists, cur, owned, ready>>

-----------------------------------------------------------------------------
\* common_physmem_page_alloc on this pool.  NoneLeft is its PHYSMEM_ERR_OOM,
\* ListDry its assert.
NoneLeft == pages.free = 0
ListDry == pages.free > 0 /\ LIST_EMPTY(lists, freelist)
CanTake == pages.free > 0 /\ ~LIST_EMPTY(lists, freelist)

page_alloc ==
  /\ pages' = [pages EXCEPT !.free = @ - 1]
  /\ lists' = LIST_REMOVE(lists, LIST_FIRST(lists, freelist))

AssertFails ==
  /\ mode' = "fault" /\ pages' = [pages EXCEPT !.free = @ - 1]
  /\ UNCHANGED <<lists, owned, ready>>

\* common_kmem_cache_alloc needs a new slab.  Without a page the kernel address
\* is not given back.
NewSlab ==
  LET frame == LIST_FIRST(lists, freelist)
      k == i686_kernel_alloc(kern)
  IN /\ mode = "running" /\ CanAlloc(kern)
     /\ \/ /\ CanTake /\ page_alloc
           /\ kern' = i686_kernel_map_virt_to_phys(k, frame, NextPage(kern))
           /\ owned' = owned \cup {<<NextPage(kern), frame>>}
           /\ UNCHANGED <<mode, ready>>
        \/ NoneLeft /\ kern' = k /\ UNCHANGED <<mode, lists, pages, owned, ready>>
        \/ ListDry /\ kern' = k /\ AssertFails
     /\ UNCHANGED <<mmap, dirty, cur>>

\* i686_address_space_ctor.  Without a page the directory's address was never
\* set, and the model ends; without a kernel page the directory is not wiped.
i686_address_space_ctor ==
  LET frame == LIST_FIRST(lists, freelist)
      k == i686_kernel_map_virt_to_phys(i686_kernel_alloc(kern), frame, NextPage(kern))
  IN /\ mode = "running"
     /\ \/ /\ CanTake /\ page_alloc
           /\ ready' = [ready EXCEPT !.made = @ \cup {frame}]
           /\ \/ /\ CanAlloc(kern)
                 /\ kern' = [k EXCEPT !.dir[frame] = [e \in PdEntries |-> Absent]]
              \/ ~CanAlloc(kern) /\ UNCHANGED kern
           /\ UNCHANGED <<mode, owned>>
        \/ NoneLeft /\ mode' = "wild" /\ UNCHANGED <<kern, lists, pages, owned, ready>>
        \/ ListDry /\ UNCHANGED kern /\ AssertFails
     /\ UNCHANGED <<mmap, dirty, cur>>

\* virtmem_user_setup_kernelspace, which does not ask whether its walk could
\* be set up, and virtmem_set_context, in the order of i686_kmain.
SetupKernelspace(d) ==
  /\ mode = "running" /\ d \in ready.made
  /\ \/ /\ CanWalk(kern)
        /\ kern' = i686_setup_kernelspace(kern, d)
        /\ ready' = [ready EXCEPT !.set = @ \cup {d}] /\ UNCHANGED mode
     \/ ~CanWalk(kern) /\ mode' = "wild" /\ UNCHANGED <<kern, ready>>
  /\ UNCHANGED <<mmap, dirty, lists, pages, cur, owned>>

SetContext(d) ==
  /\ mode = "running" /\ d \in ready.set
  /\ kern' = i686_set_context(kern, d)
  /\ UNCHANGED <<mode, mmap, dirty, lists, pages, cur, owned, ready>>

\* The kernel has ended in a loop or elsewhere, or waits in i686_kmain.
Rest == mode \in {"hung", "wild", "fault", "running"} /\ UNCHANGED vars

Next ==
  \/ VirtmemInit \/ i686_create_initial \/ EndOfMap \/ i686_prune_memory \/ PruneDone
  \/ NewSlab \/ i686_address_space_ctor
  \/ \E d \in ready.made : SetupKernelspace(d) \/ SetContext(d)
  \/ Rest

Spec == Init /\ [][Next]_vars

-----------------------------------------------------------------------------
Areas == {mmap[i] : i \in {j \in DOMAIN mmap : mmap[j].usable}}

\* No page belongs to two areas as the code counts them, the page after an
\* area included.
Separated ==
  \A i, j \in DOMAIN mmap : i # j /\ mmap[i].usable /\ mmap[j].usable =>
    FirstPage(mmap[i]) .. LastPage(mmap[i]) \cap FirstPage(mmap[j]) .. LastPage(mmap[j]) = {}

Counted(p) ==
  ListFor(p) = freelist /\ \E e \in Areas : p \in FirstPage(e) .. LastPage(e)

\* The first page that neither the image nor the table of descriptors reaches.
AboveImage == PageUp(kern.limit)

\* The pages that prune subtracts although they were never counted, and those
\* that are left.
Uncounted == Cardinality({p \in Pages : p <= AboveImage /\ ~Counted(p)})
Spare == Cardinality({p \in Pages : p > AboveImage /\ Counted(p)})

Free == Elements(lists, freelist, Cardinality(Pages))
Taken == {o[2] : o \in owned} \cup ready.made

Inside(p, e) == e.base <= p * PageSize /\ (p + 1) * PageSize <= e.base + e.length

\* The sum that should give the end of the area wraps.
Wraps(e) == e.base + e.length + PageSize > NAddresses

\* What boot leaves behind is a pool of free memory: the free list is sound
\* whichever pages were unlinked from its middle, it has no page of the
\* kernel's image or of the table of descriptors, none that was taken since,
\* and no page of usable memory above the kernel is missing, except where an
\* area reaches into the last page that can be addressed.
PoolExact ==
  mode = "running" /\ Separated =>
    /\ WellFormed(lists, freelist, Cardinality(Pages))
    /\ Free \cap Taken = {} /\ \A p \in Free : p >= AboveImage
    /\ \A p \in Pages : p > AboveImage /\ (\E e \in Areas : Inside(p, e) /\ ~Wraps(e))
         => p \in Free \cup Taken

\* The count that the feeder starts from falls short of the list by what prune
\* subtracted too much, and by nothing else.
FreePagesCounted ==
  mode = "running" /\ Separated =>
    (pages.free + Uncounted) % NAddresses = Cardinality(Free)

\* Boot touches no descriptor before brk has mapped it, and no allocation after
\* it runs into an empty list, unless there is less memory above the kernel
\* than prune subtracts too much.
BootNeverFaults == mode = "fault" => ~Separated \/ Spare < Uncounted

\* The kernel's memory stays where it is: every page below the limit shows the
\* frame of its own number, and every slab the frame it was given, whatever
\* kernel pages are handed out for other purposes.
KernelMapKept ==
  mode # "loaded" =>
    /\ \A i \in KernelPages : i < PageUp(kern.limit) => kern.pte[i] = i
    /\ \A o \in owned : kern.pte[o[1]] = o[2]

\* Whatever directory the processor uses, it finds the kernel at the same
\* addresses, the pages handed out since included; and nothing but the kernel
\* where no user memory was mapped.
KernelEverywhere ==
  mode # "loaded" /\ Separated =>
    /\ \A d \in ready.set \cup {KernelPd}, i \in KernelPages : Seen(kern, d, i) = kern.pte[i]
    /\ \A d \in ready.set : \A e \in PdEntries : e < NStartPde => kern.dir[d][e] = Absent
    /\ kern.cr3 \in ready.set \cup {KernelPd}

\* What the comment at the loop says of the pages it lists: "Usable".
PoolIsUsable ==
  mode = "running" => \A p \in Free \cup Taken : \E e \in Areas : Inside(p, e)
=============================================================================
