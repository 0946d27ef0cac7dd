------------------------------ MODULE UserCopy ------------------------------
(***************************************************************************)
(* The copies between kernel memory and the user memory of any context     *)
(* (sys/common/virtmem.c) on the page tables of i686_virtmem.  A copy goes *)
(* page by page: it looks the page up, points one kernel address at it and *)
(* copies what lies in that page.  Between copies regions are mapped.      *)
(*                                                                         *)
(* Neither function looks at a result, and neither asks whether the user   *)
(* range is mapped; that it is, is the caller's part, as in i686.c.        *)
(***************************************************************************)
EXTENDS PageTables, FiniteSets, FiniteSetsExt

CONSTANTS PageSize,
          KernelBytes,  \* the size of the kernel's buffer
          InUse,        \* how much of the kernel window may be in use at first
          Mappable,     \* the user pages that get mapped: <<context, page>>
          MaxCopies     \* the most copies made

ASSUME UserCopyAssumption ==
  /\ Contexts # {}   \* the kernel has one from the start
  /\ PageSize \in Nat \ {0} /\ {KernelBytes, MaxCopies} \subseteq Nat
  /\ InUse \subseteq 0 .. NKernelPages
  /\ Mappable \subseteq Contexts \X (UserPages \ {0})

VARIABLES data,    \* the bytes of each page frame
          kbuf,    \* the bytes of the kernel's buffer
          copy,    \* the copy in progress, or the last one
          before,  \* data and kbuf when it was called
          copies   \* how many copies were called

copyvars == <<mem, data, kbuf, copy, before, copies>>

\* Each byte starts out unlike any other, so that its way can be followed.
FirstByte(f, offset) == f * PageSize + offset
FirstKernelByte(i) == (NFrames + 1) * PageSize + i
Bytes == 0 .. (NFrames + 1) * PageSize + KernelBytes - 1

Offsets == 0 .. PageSize - 1
Buffer == 0 .. KernelBytes - 1

\* user and kernel are the next addresses to copy, left is the parameter len,
\* which the loop counts down, and len what it was; phys is src_phys or
\* dst_phys, 0 where it has not been set.
NoCopy == [dir |-> "none", ctx |-> CHOOSE c \in Contexts : TRUE,
           user |-> 0, kernel |-> 0, left |-> 0, len |-> 0, phys |-> 0]

InCopy == copy.dir \in {"from_user", "to_user"}
Lost == copy.dir = "lost"

CopyInit ==
  /\ mem \in [kused : InUse,
              free : {Frames},
              pd : {[c \in Contexts |-> [i \in 0 .. NPde - 1 |-> 0]]},
              pt : {[f \in 0 .. NFrames |-> EmptyTable]}]
  /\ data = [f \in 0 .. NFrames |-> [o \in Offsets |-> FirstByte(f, o)]]
  /\ kbuf = [i \in Buffer |-> FirstKernelByte(i)]
  /\ copy = NoCopy
  /\ before = [data |-> data, kbuf |-> kbuf]
  /\ copies = 0

-----------------------------------------------------------------------------
IsMapped(c, vpage) == vpage \in UserPages /\ Translation(mem, c, vpage).page # 0

\* memory_region_map for one page, while there is memory: see RegionMap.
MapPage(c, vpage) ==
  LET m == AfterGetPage(mem, c, vpage)
      mapped == i686_user_map_page(page_alloc(m), c, vpage, NextFree(m))
  IN /\ <<c, vpage>> \in Mappable /\ ~IsMapped(c, vpage)
     /\ mem.kused + 7 <= NKernelPages /\ Cardinality(mem.free) >= 2
     /\ mem' = i686_user_set_page_flags(mapped, c, vpage, TRUE)
     /\ copy' = NoCopy
     /\ before' = [data |-> data, kbuf |-> kbuf]
     /\ UNCHANGED <<data, kbuf, copies>>

\* Where an address of a context is: the page and the offset in it.
PageOf(addr) == addr \div PageSize
OffsetOf(addr) == addr % PageSize

\* virtmem_copy_user_to_kernel or virtmem_copy_kernel_to_user is called, on
\* mapped user memory and inside the buffer.  The window page for the copy is
\* taken first; if there is none, the address used for it was never set, and
\* the model ends.
BeginCopy(dir, c, user, kernel, len) ==
  /\ \A a \in {user} \cup (user .. user + len - 1) : IsMapped(c, PageOf(a))
  /\ before' = [data |-> data, kbuf |-> kbuf]
  /\ copy' = [dir |-> IF mem.kused < NKernelPages THEN dir ELSE "lost", ctx |-> c,
             user |-> user, kernel |-> kernel, left |-> len, len |-> len, phys |-> 0]
  /\ mem' = [mem EXCEPT !.kused = Min({NKernelPages, @ + 1})]
  /\ copies' = copies + 1
  /\ UNCHANGED <<data, kbuf>>

\* Mutant: the copy ends at the offset where it should begin.
copylen_to_offset(addr, len) == Min({len, OffsetOf(addr)})

\* How much of the rest lies in the page.
copylen(addr, len) == Min({len, PageSize - OffsetOf(addr)})

\* copy_partial_page_from_user, the buffer after it.
copy_partial_page_from_user(page, n) ==
  [i \in Buffer |-> IF i \in copy.kernel .. copy.kernel + n - 1
                      THEN page[OffsetOf(copy.user) + i - copy.kernel] ELSE kbuf[i]]

\* copy_partial_page_to_user, the page after it.
copy_partial_page_to_user(page, n) ==
  [o \in Offsets |-> IF o \in OffsetOf(copy.user) .. OffsetOf(copy.user) + n - 1
                       THEN kbuf[copy.kernel + o - OffsetOf(copy.user)] ELSE page[o]]

Advance(n, phys) ==
  [copy EXCEPT !.left = @ - n, !.user = @ + n, !.kernel = @ + n, !.phys = phys]

\* Mutant: the page is looked up once, for the first turn.
PageToCopy_once ==
  IF copy.phys = 0 THEN PageFound(mem, copy.ctx, PageOf(copy.user)) ELSE copy.phys

\* The page the turn works on.  When it cannot be looked up it is the one of
\* the turn before.
PageToCopy ==
  IF CanWalk(mem) THEN PageFound(mem, copy.ctx, PageOf(copy.user)) ELSE copy.phys

\* i686_kernel_map_virt_to_phys: the window page shows the frame.
kernel_map_virt_to_phys(phys) == data[phys]

\* A turn of the loop: virtmem_user_get_page, virtmem_kernel_map_virt_to_phys
\* and the copy.
CopyTurn ==
  LET n == copylen(copy.user, copy.left)
      phys == PageToCopy
  IN /\ InCopy /\ copy.left > 0 /\ phys # 0
     /\ mem' = AfterGetPage(mem, copy.ctx, PageOf(copy.user))
     /\ copy' = Advance(n, phys)
     /\ \/ /\ copy.dir = "from_user"
           /\ kbuf' = copy_partial_page_from_user(kernel_map_virt_to_phys(phys), n)
           /\ UNCHANGED data
        \/ /\ copy.dir = "to_user"
           /\ data' = [data EXCEPT
                ![phys] = copy_partial_page_to_user(kernel_map_virt_to_phys(phys), n)]
           /\ UNCHANGED kbuf
     /\ UNCHANGED <<before, copies>>

\* The first turn cannot look its page up: src_phys or dst_phys was never set.
CopyLost ==
  /\ InCopy /\ copy.left > 0 /\ PageToCopy = 0
  /\ mem' = AfterGetPage(mem, copy.ctx, PageOf(copy.user))
  /\ copy' = [copy EXCEPT !.dir = "lost"]
  /\ UNCHANGED <<data, kbuf, before, copies>>

\* The loop ends and VIRTMEM_SUCCESS is returned.
CopyDone ==
  /\ InCopy /\ copy.left = 0
  /\ copy' = [copy EXCEPT !.dir = IF @ = "to_user" THEN "was_to_user" ELSE "was_from_user"]
  /\ UNCHANGED <<mem, data, kbuf, before, copies>>

Copying == CopyTurn \/ CopyLost \/ CopyDone

UserAddresses == 0 .. (PageSize * Cardinality(UserPages)) - 1

\* Kernel functions run one at a time.
CopyNext ==
  \/ /\ ~InCopy /\ ~Lost
     /\ \E slot \in Mappable : MapPage(slot[1], slot[2])
  \/ /\ ~InCopy /\ ~Lost /\ copies < MaxCopies
     /\ \E dir \in {"from_user", "to_user"}, c \in Contexts, user \in UserAddresses,
           kernel \in Buffer :
          \E len \in 0 .. KernelBytes - kernel : BeginCopy(dir, c, user, kernel, len)
  \/ Copying
  \/ Lost /\ UNCHANGED copyvars

CopySpec == CopyInit /\ [][CopyNext]_copyvars

\* A copy that was called is executed to its end.
FairCopySpec == CopySpec /\ WF_copyvars(Copying)

-----------------------------------------------------------------------------
\* No counter of a copy leaves its range: nothing is copied beyond the buffer,
\* and the rest of the length, which is unsigned, does not go below zero.
CopyTypeOK ==
  /\ mem \in MemoryType
  /\ data \in [0 .. NFrames -> [Offsets -> Bytes]] /\ kbuf \in [Buffer -> Bytes]
  /\ copy \in [dir : {"none", "from_user", "to_user", "was_from_user", "was_to_user", "lost"},
              ctx : Contexts, user : 0 .. PageSize * Cardinality(UserPages),
              kernel : 0 .. KernelBytes, left : 0 .. KernelBytes,
              len : 0 .. KernelBytes, phys : 0 .. NFrames]
  /\ before \in [data : [0 .. NFrames -> [Offsets -> Bytes]], kbuf : [Buffer -> Bytes]]
  /\ copies \in 0 .. MaxCopies

\* What has been copied: so many bytes, from these addresses on.
Copied == copy.len - copy.left
FirstUser == copy.user - Copied
FirstKernel == copy.kernel - Copied

\* The byte that the processor reads at a user address, when memory is d.
UserByte(d, c, addr) == d[Translation(mem, c, PageOf(addr)).page][OffsetOf(addr)]

\* While the kernel window lasts, a copy has at every turn moved exactly the
\* bytes it was asked to, each to its place, and has touched no other byte of
\* the kernel's buffer or of any page, of this context or another: whatever
\* the offsets, the page and page table boundaries crossed and the copies and
\* mappings made before.  When it returns it has moved all of them.
CopyExact ==
  (mem.kused < NKernelPages /\ copy.dir # "none") =>
    /\ copy.dir \in {"was_from_user", "was_to_user"} => Copied = copy.len
    /\ copy.dir \in {"from_user", "was_from_user"} =>
         /\ data = before.data
         /\ kbuf = [i \in Buffer |->
                      IF i \in FirstKernel .. FirstKernel + Copied - 1
                        THEN UserByte(data, copy.ctx, FirstUser + i - FirstKernel)
                        ELSE before.kbuf[i]]
    /\ copy.dir \in {"to_user", "was_to_user"} =>
         /\ kbuf = before.kbuf
         /\ \A c \in Contexts, a \in UserAddresses :
              IsMapped(c, PageOf(a)) =>
                UserByte(data, c, a) =
                  IF c = copy.ctx /\ a \in FirstUser .. FirstUser + Copied - 1
                    THEN kbuf[FirstKernel + a - FirstUser]
                    ELSE UserByte(before.data, c, a)

\* Every copy ends, or is lost for want of window pages: each turn makes some
\* progress.
CopyReturns == InCopy ~> ~InCopy
=============================================================================
