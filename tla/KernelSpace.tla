---------------------------- MODULE KernelSpace ----------------------------
(***************************************************************************)
(* The kernel's own addresses: the page tables that the boot loader fills  *)
(* in (sys/i686/loader/loader.c) and that i686_virtmem.c extends and hands *)
(* out page by page.  k is a record of                                     *)
(*                                                                         *)
(*   pte    kernel_pts, flat: for each page of kernel addresses the page   *)
(*          frame it shows, or Absent;                                     *)
(*   limit  identitymap_limit, as an offset from highstart;                *)
(*   dir    the page directories: kernel_pd, and those in page frames.  An *)
(*          entry is the number of a table of kernel_pts, Absent, or       *)
(*          Garbage, what was in the frame before;                         *)
(*   cr3    the directory that the processor uses.                         *)
(*                                                                         *)
(* Kernel addresses are offsets from highstart, where physical address 0   *)
(* is mapped.  kernel_pd stands under number 0, which is no frame that is  *)
(* ever allocated.                                                         *)
(***************************************************************************)
EXTENDS Integers, FiniteSets, FiniteSetsExt

CONSTANTS PageSize,    \* pg_size, 4096
          NPte,        \* entries of a page table, 1024
          NKernelPde,  \* n_kernel_pde, 256
          NStartPde    \* n_start_pde, 768

ASSUME KernelSpaceAssumption == {PageSize, NPte, NKernelPde, NStartPde} \subseteq Nat \ {0}

Absent == -1
Garbage == -2
KernelPd == 0

NKernelPages == NPte * NKernelPde
KernelPages == 0 .. NKernelPages - 1
PdEntries == 0 .. NStartPde + NKernelPde - 1

PageUp(addr) == (addr + PageSize - 1) \div PageSize

-----------------------------------------------------------------------------
\* loader.c: all tables are cleared, the first is filled with the first frames
\* and entered twice, for the code that runs at physical addresses and at
\* highstart.
setup_tables(frames) ==
  [pte |-> [i \in KernelPages |-> IF i < NPte THEN i ELSE Absent],
   limit |-> 0,
   dir |-> [d \in {KernelPd} \cup frames |->
              [e \in PdEntries |-> IF d # KernelPd THEN Garbage
                                   ELSE IF e \in {0, NStartPde} THEN 0 ELSE Absent]],
   cr3 |-> KernelPd]

\* Mutant: the entries after the loader's are left for later.
i686_set_kernel_pdes_first(dir) == [dir EXCEPT ![NStartPde] = 0]

i686_set_kernel_pdes(dir) ==
  [e \in PdEntries |-> IF e < NStartPde THEN dir[e] ELSE e - NStartPde]

\* Mutant: the old limit's page counts as mapped, but the new one's is not.
i686_brk_short(k, newend) ==
  IF newend < k.limit THEN k
  ELSE [k EXCEPT !.limit = newend,
                 !.pte = [i \in KernelPages |->
                            IF i \in PageUp(k.limit) + 1 .. PageUp(newend) - 1 THEN i
                            ELSE @[i]]]

\* i686_brk.  The page at the old limit is left out and the one at the new
\* limit is taken in, so that the calls join up.
i686_brk(k, newend) ==
  IF newend < k.limit THEN k
  ELSE [k EXCEPT !.limit = newend,
                 !.pte = [i \in KernelPages |->
                            IF i \in PageUp(k.limit) + 1 .. PageUp(newend) THEN i
                            ELSE @[i]]]

\* i686_virtmem_init, with ebss the end of the kernel's image.
i686_virtmem_init(k, ebss) ==
  [i686_brk([k EXCEPT !.dir[KernelPd] = i686_set_kernel_pdes(@), !.limit = 0], ebss)
     EXCEPT !.cr3 = KernelPd]

-----------------------------------------------------------------------------
\* i686_kernel_alloc: the first page that is not present.  It is made present
\* and shows what its entry names, which is frame 0 until it is mapped.
CanAlloc(k) == \E i \in KernelPages : k.pte[i] = Absent
NextPage(k) == Min({i \in KernelPages : k.pte[i] = Absent})

i686_kernel_alloc(k) == [k EXCEPT !.pte[NextPage(k)] = 0]

i686_kernel_map_virt_to_phys(k, frame, page) == [k EXCEPT !.pte[page] = frame]

\* i686_pagewalk_init and i686_pagewalk_done around i686_set_kernel_pdes: two
\* window pages are used up, the second shows the directory.
CanWalk(k) == CanAlloc(k) /\ CanAlloc(i686_kernel_alloc(k))

i686_setup_kernelspace(k, d) ==
  LET k1 == i686_kernel_alloc(k)
      k2 == i686_kernel_map_virt_to_phys(i686_kernel_alloc(k1), d, NextPage(k1))
  IN [k2 EXCEPT !.dir[d] = i686_set_kernel_pdes(@)]

i686_set_context(k, d) == [k EXCEPT !.cr3 = d]

\* What the processor finds at a kernel page, going from the directory d.
Seen(k, d, page) ==
  LET table == k.dir[d][NStartPde + page \div NPte]
  IN IF table < 0 THEN table ELSE k.pte[(NPte * table) + (page % NPte)]
=============================================================================
