----------------------------- MODULE PageTables -----------------------------
(***************************************************************************)
(* The page tables of sys/i686/i686_virtmem.c as functions on the state of *)
(* memory m, a record of                                                   *)
(*                                                                         *)
(*   kused  how many pages of the kernel window are in use.  The window is *)
(*          scanned from its start and kernel_free does nothing, so the    *)
(*          pages in use are the first ones and are never given back;      *)
(*   free   the free page frames;                                          *)
(*   pd     for each context, its page directory: the frame of each page   *)
(*          table, or 0 where no entry is present;                         *)
(*   pt     the contents of each frame, read as a page table.              *)
(*                                                                         *)
(* Frame 0 is physical page 0.  It is no page table, but a walk ends up in *)
(* it in two cases: the directory entry could not be created, and a        *)
(* missing entry holds address 0; or the address is that of page 0, which  *)
(* the walk takes for already mapped, and the window page it then reads    *)
(* through is one that was never pointed anywhere.                         *)
(***************************************************************************)
EXTENDS Integers

CONSTANTS Contexts,      \* page directories, virtmem_md_context_t
          NKernelPages,  \* 1024 * n_kernel_pde
          NFrames,       \* page frames 1 .. NFrames are under management
          NPte,          \* entries of a page table, 1024
          NPde           \* entries of a page directory for user addresses

ASSUME PageTableAssumption ==
  {NKernelPages, NFrames, NPte, NPde} \subseteq Nat \ {0}

\* The memory that the operations of RegionMap and UserCopy change.
VARIABLE mem

Frames == 1 .. NFrames
UserPages == 0 .. NPde * NPte - 1   \* user addresses, divided by the page size

PdIndex(vpage) == vpage \div NPte
PtIndex(vpage) == vpage % NPte

EntryType == [page : 0 .. NFrames, present : BOOLEAN, writable : BOOLEAN]
NoEntry == [page |-> 0, present |-> FALSE, writable |-> FALSE]
EmptyTable == [i \in 0 .. NPte - 1 |-> NoEntry]

MemoryType == [kused : 0 .. NKernelPages,
               free : SUBSET Frames,
               pd : [Contexts -> [0 .. NPde - 1 -> 0 .. NFrames]],
               pt : [0 .. NFrames -> [0 .. NPte - 1 -> EntryType]]]

-----------------------------------------------------------------------------
\* physmem_page_alloc; the caller has seen that there is a free frame.  Which
\* one it gets makes no difference to what follows.
NextFree(m) == CHOOSE f \in m.free : TRUE
page_alloc(m) == [m EXCEPT !.free = @ \ {NextFree(m)}]

\* i686_kernel_alloc finds the two window pages that a walk needs.
CanWalk(m) == m.kused + 2 <= NKernelPages

\* i686_pagewalk_init takes two window pages, one for the directory and one
\* for the page table; when it fails it has used up what there was.
i686_pagewalk_init(m) ==
  [m EXCEPT !.kused = IF CanWalk(m) THEN @ + 2 ELSE NKernelPages]

\* Mutant: the new page table is not wiped.
i686_initialize_pde_dirty(m, c, i) ==
  IF m.free = {} THEN m
  ELSE IF m.kused = NKernelPages THEN page_alloc(m)
  ELSE [page_alloc(m) EXCEPT !.kused = @ + 1, !.pd[c][i] = NextFree(m)]

\* i686_initialize_pde.  Without a frame, or without a window page to wipe it
\* through, the entry stays absent; in the second case the frame is lost.
i686_initialize_pde(m, c, i) ==
  IF m.free = {} THEN m
  ELSE IF m.kused = NKernelPages THEN page_alloc(m)
  ELSE [page_alloc(m) EXCEPT !.kused = @ + 1,
                             !.pd[c][i] = NextFree(m),
                             !.pt[NextFree(m)] = EmptyTable]

\* i686_pagewalk: the directory entry is created if it is missing ...
i686_pagewalk(m, c, vpage) ==
  IF m.pd[c][PdIndex(vpage)] = 0 THEN i686_initialize_pde(m, c, PdIndex(vpage))
                                 ELSE m

\* ... and this is the frame in which the entry is then read or written.
Table(m, c, vpage) == IF vpage = 0 THEN 0 ELSE m.pd[c][PdIndex(vpage)]

Walk(m, c, vpage) == i686_pagewalk(i686_pagewalk_init(m), c, vpage)

Entry(m, c, vpage) == m.pt[Table(m, c, vpage)][PtIndex(vpage)]

\* Where the processor finds a user page: it walks from the directory, and
\* sees no entry where there is no table.
Translation(m, c, vpage) ==
  LET table == m.pd[c][PdIndex(vpage)]
  IN IF table = 0 THEN NoEntry ELSE m.pt[table][PtIndex(vpage)]

\* i686_user_get_page: the memory after it, and the page it found; when it
\* returns VIRTMEM_OOM there is no page.
AfterGetPage(m, c, vpage) ==
  IF CanWalk(m) THEN Walk(m, c, vpage) ELSE i686_pagewalk_init(m)
PageFound(m, c, vpage) == Entry(Walk(m, c, vpage), c, vpage).page

\* i686_user_map_page
i686_user_map_page(m, c, vpage, frame) ==
  IF CanWalk(m)
    THEN LET w == Walk(m, c, vpage)
         IN [w EXCEPT !.pt[Table(w, c, vpage)][PtIndex(vpage)].page = frame]
    ELSE i686_pagewalk_init(m)

\* Mutant: the entry is not marked present.
i686_user_set_page_flags_absent(m, c, vpage, writable) ==
  LET w == Walk(m, c, vpage)
  IN [w EXCEPT !.pt[Table(w, c, vpage)][PtIndex(vpage)].writable = writable]

\* i686_user_set_page_flags does not ask whether the walk could be set up; it
\* is applied only when it could, see RegionMap.
i686_user_set_page_flags(m, c, vpage, writable) ==
  LET w == Walk(m, c, vpage)
      table == Table(w, c, vpage)
  IN [w EXCEPT !.pt[table][PtIndex(vpage)].writable = writable,
               !.pt[table][PtIndex(vpage)].present = TRUE]
=============================================================================
