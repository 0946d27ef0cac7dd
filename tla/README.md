# A TLA+ model of the Akaris kernel

Akaris is a small kernel for the i686: it boots from multiboot, manages
physical pages, kernel and user page tables, slab caches and address spaces,
and starts one user thread. This directory holds TLA+ modules translated from
its source, TLC configurations that check them on small instances, and proofs
for TLAPS of what is worth knowing for all instances.

The kernel runs on one processor and is not preempted: a kernel function runs
from its call to its return. What makes it hard is therefore not concurrency
(the mutex is the exception, and an exception of the processor that interrupts
the kernel's own message) but long sequences of calls that share lists and
counters, memory that runs out between two steps of one function, results that
are not looked at, and arithmetic on addresses.

## The system and its parts

| part | state | operations | talks to |
|---|---|---|---|
| page pools, `common/physmem.c` | free list, `free_pages`, `total_pages` of the kernel's source pool and of a CPU's feeder | `page_alloc`, `page_free`, `stats_get` | filled by the boot memory map; used by everything |
| slab caches, `common/slab.c` | three lists of slabs; in each slab an array of object pointers and a cursor | `kmem_cache_init`, `alloc`, `free`, `reap` (empty) | page pools, kernel window |
| table of caches, `i686/i686_slab.c` | eight caches and a counter | `kmem_alloc` | slab caches |
| mutex, `common/mutex.c`, `i686/i686_mutex.c` | lock word, name of the holder | `mutex_lock` (one try), `unlock`, `blocker`, `init` | nobody yet |
| address spaces, `common/address_space.c` | list of regions; their bounds and flags | `alloc`, `free`, `init_region`, `get_region`, `set_flags`, `memory_region_map` | slab caches, page tables, page pools |
| page tables, `i686/i686_virtmem.c` | the kernel's page tables (the window), user directories and tables | `kernel_alloc`, `kernel_free` (empty), `kernel_map_virt_to_phys`, `brk`, `user_get_page`, `user_map_page`, `user_set_page_flags` | page pools |
| user copies, `common/virtmem.c` | none of its own | `copy_user_to_kernel`, `copy_kernel_to_user` | page tables |
| boot memory map, `i686/i686_physmem.c` | an array of `struct physmem_page` behind the kernel, two linked lists | `create_initial`, `prune_memory` | page pools, `brk` |
| scheduler and threads, `common/scheduler.c`, `common/thread.c`, `i686/i686_cpu.c` | lists of runnable and waiting threads, the current one, the next identifier | `thread_alloc`, `init`, `add`, `lookup_by_id`, `reschedule`, `resume` | slab caches, address spaces |
| boot and CPU set-up, `i686/i686.c`, `i686/i686_cpu.c`, loader | first page tables, descriptor tables | one straight line; entry and return of exceptions | calls all the others once |
| console, `i686/bootvideo.c`, `i686/i686_tty.c`, `i686_debug` | one static buffer, screen and cursor, UART | `debug` | string functions; called by everything |
| string functions, `lib/strfuncs.c`, `lib/strlcpy.c` | none | `itoa`, `k_snprintf`, `strlcpy`, `strstr` | |
| lists, `include/queue.h` | the links inside the elements | `LIST_INSERT_HEAD`, `LIST_REMOVE`, `LIST_FOREACH` | page pools, slabs, regions, threads |
| buddy, `common/buddy.c` | none | not compiled | |

What would make each of them correct:

- *page pools*: a page is in one place; the counters describe the lists; the
  reserve of the source is the last resort; no call loops forever.
- *slab caches*: an object has one holder or one free slot, although objects
  are freed into slabs they did not come from; the `assert(0)` in `free` is
  unreachable; slab and freelist do not overlap.
- *mutex*: exclusion; `blocker` does not name a bystander.
- *address spaces*: regions do not overlap, look-up finds the owner, refusals
  have a reason, failures are reported.
- *page tables*: what is reported as mapped is mapped, a page has one use, a
  call that failed half-way can be repeated.
- *user copies*: the bytes that arrive are the bytes that were there.
- *boot map*: each usable page once on a list, and counted; nothing is touched
  before it is mapped.
- *kernel addresses*: the kernel is at the same addresses in every directory.
- *scheduler*: the thread that runs is runnable and runs in its own address
  space; look-up is exact.
- *exceptions*: the handler reads what was interrupted, for every vector.
- *console*: what is shown is what was said, complete and in order.

`PROJECT.json` lists the main hazards of the code, line by line, with the
property that covers each or the reason why none does.

## Modules

| module | models | proofs |
|---|---|---|
| `PageAllocator` | what a page pool promises | |
| `FeederPhysmem` | source pool and feeder | `FeederPhysmem_proofs` |
| `ObjectCache` | what a slab cache promises | |
| `Slab` | one cache, its three lists and its slabs | `Slab_proofs` |
| `SlabLayout` | the bytes of one slab | `Slab_proofs` |
| `Mutex` | the mutex under several CPUs | `I686_proofs` |
| `AddressSpace` | regions and their lists | `AddressSpace_proofs` |
| `PageTables` | the page tables as functions on memory | `PageTables_proofs` |
| `RegionMap` | `memory_region_map` on `PageTables` | `PageTables_proofs` |
| `UserCopy` | copies between kernel and user memory on `PageTables` | `PageTables_proofs` |
| `LinkedList` | the `LIST` macros, pointer by pointer | `ListLemmas` |
| `KernelSpace` | the kernel's page tables, `brk` and kernel addresses as functions | |
| `BootMemory` | boot memory map and first allocations, on `KernelSpace` and `LinkedList` | `BootMemory_proofs` |
| `Traps` | descriptor tables, exception entry and return as functions | |
| `Threads` | scheduler and threads, on `Traps` and `LinkedList` | `Threads_proofs` |
| `Format` | the string functions | |
| `Console` | `i686_debug`, screen and serial line, on `Format` | `I686_proofs` |
| `ListLemmas` | facts about sequences and about the pointers of `LinkedList`, used by the proofs | itself |
| `MC...` | constants and symmetry for TLC | |

A definition next to another one with a suffix (`SourceSpares_at_limit`)
and a comment that begins with *Mutant* is a plausible mistake in that piece of
code. No module uses them; each property has one that it rules out.

Where the proofs of two components share lemmas or a module, one of the two
specifications has names of its own: `SlabLayout` (`LayoutSpec`), `UserCopy`
(`CopySpec`, with fairness `FairCopySpec`) and `Console` (`ConsoleSpec`, with
fairness `FairConsoleSpec`).

### FeederPhysmem and PageAllocator

`source` and `feeder` are the two `struct physmem` with their free lists as
sequences, head first. `feeder_physmem_page_alloc` loops, so it is modelled
step by step (`AllocLow`, `RefillStep`, `RefillEnd`, `TakeFromFeeder`,
`TakeFromSource`, `OutOfMemory`) with `call` for the place in the function;
`feeder_physmem_page_free` is one step. `held` is what the rest of the kernel
was given. Boot may leave pages on the source's list that it does not count
(`i686_prune_memory` subtracts also pages that were never on the list); their
number is the constant `Uncounted`, and the promise of `PageAllocator` is that
everything but these can be allocated.

### Slab, ObjectCache, SlabLayout

A slab is the kernel page it lives in, an object is a slab and a slot.
`first_free` is the cursor, entries before it are stale. A call is one step.
`virtmem_kernel_alloc` fails when the kernel's addresses (`vaddrs`) are used up;
`physmem_page_alloc` may fail whenever a new slab is needed, because others take
pages too, and then the kernel page is lost, as in the code. `SlabLayout` runs the loop of `kmem_initialize_slab` with byte
offsets.

### Mutex

`xchg` is one step. The name is stored afterwards. The two plain stores of
`mutex_unlock` may become visible in either order: neither the compiler nor C
orders them. Callers unlock only what they have locked.

### AddressSpace

Addresses are machine words: sums wrap at `NAddresses`, and the cast to `long`
in `init_region` makes the upper half negative, with C's remainder. `End` is
the wrapped bound that the comparisons use; `Bytes`, which the properties use,
is the set of addresses a region really covers. `init_region` moves the region
before it checks the place. Allocation may fail at any time; the model then
does what the code does (success and a null pointer, or a write through it).
The caller's obligations, which the code does not check and its only caller in
`i686.c` keeps, are guards: a region given to `init_region` or
`memory_region_free` is allocated and on no list of a live address space.

### PageTables and RegionMap

`PageTables` describes memory by four things: how many pages of the kernel
window are used (they are never given back, so a number is enough), the free
frames, the directories, and the contents of frames read as page tables.
`Table` is the frame a walk ends in, including the two cases in which that is
physical page 0; `Translation` is what the processor finds, and is what the
properties use. `RegionMap` runs the loops of `memory_region_map`, one turn
per step, with the rest of the kernel taking and returning frames between
calls. A walk for which the window has no pages left leaves `p` as it was: the
page of the turn before, or in the first turn whatever the variable held, 0
included. `PageTables` declares the memory, `mem`, for `RegionMap` and for
`UserCopy`. Entries keep address, presence and write access; the TLB, cache bits and
the contents of data pages are left out.

### UserCopy

Every byte of every page frame and of a kernel buffer starts out with a value
of its own, so where a byte ends up tells where it came from. A turn of a copy
loop is one step: look the page up, point the window page at it, copy. `copy`
is the copy in progress: its direction, context and addresses, and what is left
of its length. `before`
is memory as it was at the call; the code has no such thing, `CopyExact`
compares with it. Between copies single pages are mapped (`MapPage`, the
successful turn of `RegionMap`). The two results that the code never looks at
are modelled: a walk that fails in a later turn makes the turn work on the page
of the turn before, and a walk or a window allocation that fails at first
leaves a variable unset, after which the model stops (`lost`). That the range
is mapped is the caller's part: the code would read and write physical page 0
in place of a page that is not there.

### LinkedList, KernelSpace and BootMemory

Elsewhere a list is a sequence. At boot that would hide the point: pages are
unlinked from lists by address, whether they are on one or not. `LinkedList`
therefore has the pointers, with `le_prev` as the name of the pointer it points
to. `KernelSpace` has the kernel's page tables as the loader leaves them
(`setup_tables`), `brk`, `kernel_alloc`, and directories that share those
tables; addresses are offsets from `highstart`. `BootMemory` goes through a
memory map entry by entry, prunes page by page, and then lets the kernel take
pages for slabs and page directories, set directories up and switch to them
until memory or kernel addresses are used up. It takes pages from the pool
directly; that the feeder in between promises the same is
`ImplementsPageAllocator`.

`mode` tells how a kernel ended that went wrong: `hung` in its own endless loop
(memory above 4 GB), `fault` at memory that is not mapped or in a failed
assert, `wild` where it goes on with a pointer that was never set: the links of
a page that was on no list, when memory was not zero (`dirty`), or the address
of a page directory that could not be had. What a wild kernel does is not
determined, and the model stops there.

`Separated` excludes memory maps in which usable areas touch: the code then
puts one page on a list twice. An area that ends in the last page below 4 GB
makes the sum of base, length and page size wrap, and its pages are missing
from the lists; `PoolExact` says so (`Wraps`), and such areas are among the
maps.

### Traps and Threads

A stack is a sequence of words. `Frame` is what processor, stub and handler
push; `Context` reads it as the C struct does; `i686_userspace_return` pops a
context into registers, and `Accepted` is what the processor demands of
selectors on the way to ring 3. `Threads` makes threads in the order of
`i686_kmain` (allocate, initialise, set the state, add), with any state, and
runs the last one added if it is runnable. `cr3` is set from the maker's
variable, as in the code, not from `current`. The two outcomes of
`i686_cpu_set_tr`, whose operands are in the wrong order, are both there; in
one of them the processor resets and nothing more is claimed.

### Format and Console

Characters are small numbers; a format is a sequence of literal characters and
conversions with their arguments. `itoa`, `strlcpy` and `k_snprintf` are
translated, the reference (`Text`, `Cut`) is written from the values. A message
is formatted in one step and put character by character; an exception may come
between any two. Its handler formats into the same buffer and never returns.
The UART's FIFO accepts a character when it is empty, which is the bit the code
polls. The screen is at the virtual address 0xB8000, which the loader's directory
maps and the directory of an address space does not. `SetContext` is the switch
to the user thread's directory (`switched`), after which only exceptions have
anything to say; `PutFaults` is the character that cannot be stored, a page
fault in the handler, which starts another report and faults again. That this
eventually uses up the kernel's stack is left out. `written` and `done` record what was put and what was to be put; the
code has neither.

## Runs

| run | shows |
|---|---|
| `feeder` | 6 pages, 1 uncounted, stock and reserve of 2: every property of the pools and the refinement of `PageAllocator`; every branch of alloc and free is taken |
| `slab` | 3 slabs of 2 objects, up to symmetry: enough for an object to move to a second slab while a third is on another list |
| `slab_layout` | 4096-byte slab, every object size from 1 to 4080 |
| `mutex` | 4 CPUs: an unlocking one, a holder and two that try |
| `address_space` | 16 addresses in 4 pages, two spaces, three regions; starts in both halves, off and on page boundaries, lengths of 0, one page and a bit more; regions end below the top |
| `region_map` | tables of 4 entries; three allocated regions and a device's frame that need 4 tables and 4 pages out of 7 frames less what others take, so memory runs out at any point and comes back; a window of 34 pages, which lasts for every region once and then runs out |
| `user_copy` | pages of 2 bytes, a buffer of 4; two pages in two page tables and one in the other context; every offset and length; two copies, and a window that may end before or within the second |
| `boot` | 16 pages of 4 bytes, the kernel and its descriptors in pages 0 to 7; 36 memory maps: areas in either order, ending on and off page boundaries, touching, reserved, reaching the top, above 4 GB, and one with too little memory; memory clean or used |
| `threads` | 3 threads, 2 address spaces, 5 states, 21 exceptions with and without error code, in the kernel, at the first instruction and later |
| `console` | screen of 2 rows of 3, buffer of 6 bytes, words of 8 bits: texts that wrap, scroll, fill the buffer, are cut by a string and by a number; the extreme numbers; two messages and a report of one or three; the switch to a directory without the screen |

Two further runs show disagreements between the code and its comments; each is
expected to end in a violation and is described under `findings`:

| run | property | the code |
|---|---|---|
| `map_oom` | `SuccessMeansMapped` | without memory for a page table, physical page 0 serves as one |
| `boot_pc` | `PoolIsUsable` | the page after a usable area goes on the free list |

Some properties hold under a condition, which is a limit of the code and not of
the model:

- Regions are disjoint as long as none reaches the top of the address space
  (`Limit`): there the end of a region wraps to 0, it is taken to lie below
  everything, and it is granted over another one
  (`address_space.c:37`).
- In `region_map` physical page 0, which a walk reads when no page table could
  be had, is clear. On a PC it is not everywhere: it begins with the interrupt
  vectors, and the kernel's own region, at 0x1000000, has just their indexes.
  Then `AS_SUCCESS` may be a lie, as `map_oom` shows; the theorem `Success`
  takes no such memory for granted (see below). Of frames that the caller names
  `SuccessMeansMapped` claims nothing where there was no memory for the page
  table; in the run the device has a table and an index of its own, because what
  is written to physical page 0 in its stead would be found by other walks
  (`Conditions` in `MCRegionMap`).
- `FramesConserved` and `CopyExact` are claimed while the kernel window lasts:
  when it is full, `i686_initialize_pde` loses the frame it has allocated,
  copies go on with the wrong page, and `i686_user_set_page_flags` walks
  through pointers that were never set (`result` is then `fault`). As
  `i686_kernel_free` does nothing, mapping one page again and again is enough.
- `PoolExact` and its neighbours are claimed for memory maps whose areas do not
  touch, and say nothing of kernels that ended `wild`. `BootNeverFaults` is
  claimed unless there is less memory above the kernel than
  `i686_prune_memory` subtracts too much; `free_pages` then wraps.
- An exception is reported (`ExceptionReported`) on the serial line, or before
  `virtmem_set_context` in `i686_kmain`. With the screen, which is the default,
  an exception in the user thread shows nothing: the store in
  `bootvideo.c:35` faults, and so does the first character of every further
  report (`PutFaults`).
- Messages are exact unless literal characters fill the buffer to its end
  (`Fits`), and for `%u` below half the range of a word.

Further consequences of the code are visible in the model and are covered by no
run of their own: a slab on `slabs_empty` may have objects in use, since a free
puts an object into whatever slab heads a list; the out-of-memory tests of
`memory_region_alloc` and `address_space_alloc` look at the wrong pointer, so
the first reports success with a null region and the second writes through it;
a region whose start is given as 1 .. 4095 is rounded to page 0, where a walk
always ends in physical page 0; a start in the upper half of the address space
is negative as a `long` and is rounded up, where the comment says down;
`init_region` does not extend the length by what it moves the start;
`common_scheduler_reschedule` always chooses the newest runnable thread; a new
thread is written to without asking whether there was memory for it
(`i686_cpu.c:272`); `i686_setup_kernelspace` goes on when its walk could not be
set up (`i686_virtmem.c:295`); `i686_prune_memory` unlinks pages of the hole
below 1 MB that are on no list (`i686_physmem.c:88`). Outside the models stay a
copy of 2^31 bytes or more (`virtmem.c:29`), the byte before the output that
`strfuncs.c:165` clears, and the operand order of the `mov` at `i686_cpu.c:82`,
whose outcome depends on the compiler.

### Bounds

Constants are the smallest that make every branch happen and leave one spare
of each kind (a page, a slab, a CPU, a region). Nothing is bounded inside an
action except by `Limit`, `MaxOthers`, `MaxCopies` and `MaxMessages`, which are
named constants; the kernel window bounds `RegionMap` and `BootMemory` by
itself, and `Threads` ends with its threads.

### Fairness

`FeederPhysmem`: weak fairness of the steps inside an allocation; the
processor executes the function it is in. `Mutex`: weak fairness of the
holder's steps: a critical section is left. `RegionMap`: weak fairness of the
turns of a call; `UserCopy`: likewise of a copy. `Console`: weak fairness of the steps of a
message, which the processor executes, and of the UART, which sends what it
has. No caller is obliged to call.

## Proofs

All theorems are about the same modules that TLC checks, for every value of
the constants that satisfies the named assumptions of the module.

- *FeederPhysmem*. The invariant is the conjunction of *Lists* (types,
  conservation, the two lists injective and disjoint) and *Counters*.
  Conservation alone is not inductive: that the list is not empty when the
  counter is positive is needed to take its head, and the counters need the
  lists to be sequences of distinct pages. `FeederStatsConsistent` needs that
  `total_pages` counts everything that has left the source, so a page freed to
  the feeder was counted before. `Replenished` needs to know how far the
  transfer loop is when it ends. `LastResort` is an action property and
  follows from the counters. `Implementation` shows the refinement of
  `PageAllocator`: transfers are stuttering steps, and OOM means that only
  uncounted pages are left.
- *Slab*. The invariant says where the entries before and after the cursor
  are and that every object of an owned slab is either in exactly one free
  slot or held. That `free` always finds a slab (`FreeNeverAsserts`) is a
  counting argument: if all slabs were on `slabs_empty` every slot would be
  free, and an injection from the slots into the objects not held would have
  to miss none, which contradicts that one is held.
- *SlabLayout* (in `Slab_proofs`). Arithmetic on the loop; for all sizes.
- *Mutex*. The four safety properties form the inductive invariant: who may be
  named depends on who holds the lock.
- *AddressSpace*. The invariant adds two parts to the properties. *NoWrap*: every
  region that was ever set up ends at `Limit` or below, so its wrapped end is
  its real end; without it *Separated*, which compares starts and ends as the
  code does, would say nothing about the addresses a region covers.
  *Separated*: of two regions on a list one ends where the other begins, or
  before; the comparisons `init_region` makes before it inserts establish it,
  whatever the order of the list. `Disjoint` then follows by
  arithmetic, `Lookup` because two regions that have an address would overlap,
  and `Refusals` because a region that fits nowhere meets a listed one. The
  remainders of the cast to `long` are treated for every page size. That
  `Limit` is below the top of the address space is an assumption of the module;
  above, the properties are false.
- *RegionMap*. The invariant is one statement about memory, `Sound(mem,
  others)`: page tables are distinct frames of their own, a frame is free, held
  elsewhere, a page table or a page at one address, and while the window lasts
  nothing else. It is stated for any memory and any set of frames held, so that
  it can be used in the middle of a turn, when a frame has been allocated and
  is not entered yet: every function of `PageTables` gets a lemma on what it
  does to `Sound`, to the other addresses and to the pages present, and a turn
  composes them. `Conserved` and `Stay` follow from it. `Success` needs a second
  invariant: that what a call has done so far, and what earlier calls have
  reported, is still usable. A turn keeps it because regions do not share
  addresses and a write to an entry changes what the processor sees at one
  address; that the turn's own page is usable needs that its walk ended in a
  page table, which is where the condition below comes in.
- *UserCopy* (in `PageTables_proofs`). `CopyExact` compares every byte with what
  it was at the call. It is not inductive alone, because a turn writes to a
  frame that it finds through the tables: if two user pages shared a frame, or a
  page's frame were a page table, the bytes written would show elsewhere. The
  invariant adds *Apart*, which rules that out and which `MapPage` and the walks
  preserve by the lemmas on page tables that `RegionMap` uses, and
  *CopyInRange*, which says that the addresses of the copy in progress have
  advanced by what has been copied and that the rest of the range is mapped. A
  turn never crosses a page: that all of its bytes have the page of the first
  one, with consecutive offsets, is the uniqueness of quotient and remainder,
  for every page size.
- *Threads*. Four invariants. *Types*, with which `FrameRead` is a matter of
  finding each word in the concatenation of what processor, stub and handler
  push: with and without error code the parts are of different lengths and the
  sums agree. *Chosen* follows the thread from `scheduler_thread_add` to
  `scheduler_resume`: it is the first on the list, then the current one, then
  the one whose address space is set (`Resumes`). *Ids* says that `next_tid`
  counts the threads that have an identifier, hence has not wrapped, and that
  no two share one. *Lists* says that the pointers of the two lists represent
  two sequences without repetition that between them hold the accepted threads;
  `LookupFinds` follows from *Ids* and *Lists*.
- *BootMemory*. The invariant goes stage by stage. *Types* and *Kept* hold
  whatever the memory map is: the first page tables map every kernel page up to
  `limit` to the frame of the same number, and `brk` and the later mappings
  leave that as it is. For maps whose areas do not touch (`Separated`) six
  more parts hold. *Filling*: while areas are entered, the two lists
  hold exactly the pages of the entries read so far, each once, and descriptors
  of other pages are untouched. *Roomy*: the descriptors of all pages entered
  lie below `limit`. *Pruning*: the lists have the pages from the one to be pruned
  next, and the links of a page that was never entered are still zero. *Running*: a page is on the free list, under a slab, or a page
  directory, never two of them; hence a page that a constructor clears belongs
  to nobody, and *Directories* (what a directory holds below and above
  the kernel's start) survives. *Faulty*: a fault means that more pages were
  subtracted than there are. The insertions of an area are a recursive
  function; what they do to the represented lists is proved with `LeastNat`.
- *Console* (in `I686_proofs`). `ShownInOrder` speaks of an endless sheet, a
  recursive function of all that was put. The invariant adds where the cursor
  is on it, that every character drawn lies before the cursor and that no place
  has two: without this a character might cover another one, and a row that is
  scrolled in might have to show something. Every row and column of the sheet
  have one cell of video memory, for every screen size. On the serial line the
  UART holds one character at most. After a new line that faulted the cursor is
  below the screen, and nothing can be put any more.
- *ListLemmas*. `Represents` relates pointers and sequence. `InsertHead` shows
  that `LIST_INSERT_HEAD` prepends and leaves every other list alone,
  `RemoveElement` that `LIST_REMOVE` takes an element out of its list wherever
  it is and disturbs no other one, and `Visiting` that `LIST_FOREACH` goes through the sequence and stops. The walk
  is a recursive function; that it has the value claimed is proved with
  `LeastNat`, by looking at the first step at which it would differ.

Assumed: the constants are natural numbers or finite sets as the `ASSUME`s
say, which TLC evaluates on every run. Some of them say more than that:
regions end below the top of the address space (`AddressAssumption`); the
regions given to `memory_region_map` lie in user pages, apart from each other,
and named frames are not the allocator's (`RegionMapAssumption`); there are
fewer `struct thread` than identifiers (`ThreadsAssumption`), since each takes
more than a byte of a memory of as many bytes; physical memory is whole pages,
the kernel is linked above low memory as `scripts/i686.ld` does, and the
descriptors of all pages fit into the window the loader maps tables for
(`BootAssumption`); there is an address space to copy from
(`UserCopyAssumption`).

The theorems of `PageTables_proofs` about `RegionMap` have a hypothesis on the
constants, which is a limit of the code and which the module of the runs checks.
`NoPageZero`: no region contains page 0, where a walk always ends in physical
page 0. `Success` is moreover about the runs in which `PageZeroNotTaken` holds
throughout: whenever a turn has no page table and there is no frame to make one
of, it finds nothing in physical page 0, so that it fetches a page and returns
`AS_OOM`, and it has no named frame to enter. Nothing is assumed of what
physical page 0 holds otherwise, nor of which regions there are. So the theorem
says that what `map_oom` shows is the only way in which `memory_region_map` can
report a region that the processor cannot use; that the condition may fail on a
real machine is what `map_oom` is for.

Only model-checked: the liveness properties (`AllocReturns`, `LockReleased`,
`MapReturns`, `CopyReturns`, `ExceptionReported`), which are out of the
prover's reach, and `MessagesExact`. What `itoa` and `k_snprintf` return for
every input would need induction over the digits of a number and over the
pieces of a format, with powers of the base, which the provers do not have; the
`console` run takes the extreme numbers and every way to fill the buffer. Every
other invariant and action property that a passing run checks is also a
theorem.

## Possible extensions

A cache whose slabs come from `FeederPhysmem` and whose kernel pages come from
`KernelSpace`, as one composed module; areas of the memory map that touch, once
the code does not enter their common page twice.

## Not modelled

The table of caches counts to four. `buddy.c` is not compiled: allocation
returns `NULL`, and the loop of `buddy_levelstart` increments its bound instead
of its counter. The loader's descriptor table, its stack and its jump, the
speed of the serial line, and the test calls in `i686_kmain` are straight-line
and leave nothing behind. `strlcat` and the other lists of `queue.h` are
vendored and unused. The headers' inline functions dispatch through tables of
function pointers that are filled in once. Functions whose body is `assert(0)`
(cloning, destruction, page faults) have no behaviour to model. The unit tests
in `sys/test` and the user programs in `servers` were read for what they expect
of the kernel.
