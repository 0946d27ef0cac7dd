-------------------------- MODULE PageTables_proofs --------------------------
(***************************************************************************)
(* The safety properties of RegionMap and UserCopy for every number of     *)
(* frames, contexts and regions and every size of pages and page tables.   *)
(*                                                                         *)
(* First what the operations of PageTables do: a walk may add a page table *)
(* but changes what the processor sees at no address, and writing an entry *)
(* changes what it sees at one address only, because no frame is two page  *)
(* tables.  Then the invariant, in which a frame that was allocated and is *)
(* not yet entered counts as held elsewhere.  Last the copies, turn by     *)
(* turn.                                                                   *)
(***************************************************************************)
EXTENDS RegionMap, UserCopy, FiniteSetTheorems, TLAPS

\* Division by the number of entries of a page table.
LEMMA Division ==
  ASSUME NEW n \in Int, NEW d \in Nat \ {0}
  PROVE  /\ n \div d \in Int /\ n % d \in 0 .. d - 1
         /\ n = (d * (n \div d)) + (n % d)
  OBVIOUS

LEMMA Products == \A a, b \in Nat : a * b \in Nat
  OBVIOUS

\* A user page has a directory entry and an entry of that page table, and is
\* the only one to have both.
LEMMA Indexes ==
  ASSUME NEW v \in UserPages
  PROVE  /\ PdIndex(v) \in 0 .. NPde - 1 /\ PtIndex(v) \in 0 .. NPte - 1
         /\ v = (NPte * PdIndex(v)) + PtIndex(v)
<1> DEFINE q == v \div NPte
<1>1. NPte \in Nat \ {0} /\ NPde \in Nat \ {0} /\ NPde * NPte \in Nat
  BY PageTableAssumption
<1>2. v \in 0 .. (NPde * NPte) - 1
  BY DEF UserPages
<1>3. q \in Int /\ v % NPte \in 0 .. NPte - 1 /\ v = (NPte * q) + (v % NPte)
  BY <1>1, <1>2, Division
<1>4. q >= 0
  BY <1>1, <1>2
<1>5. q <= NPde - 1
  <2>1. CASE q >= NPde
    <3> HIDE DEF q
    <3>0. q - NPde \in Nat
      BY <2>1, <1>1, <1>3
    <3>1. NPte * (q - NPde) \in Nat
      BY <3>0, <1>1, Products
    <3>2. NPte * (q - NPde) = (NPte * q) - (NPde * NPte)
      BY <1>1, <1>3
    <3>3. NPte * q \in Int
      BY <1>1, <1>3
    <3>4. QED BY <3>1, <3>2, <3>3, <1>1, <1>2, <1>3
  <2>2. QED BY <2>1, <1>1, <1>3
<1>6. QED BY <1>1, <1>3, <1>4, <1>5 DEF PdIndex, PtIndex

LEMMA IndexesTell ==
  ASSUME NEW u \in UserPages, NEW v \in UserPages,
         PdIndex(u) = PdIndex(v), PtIndex(u) = PtIndex(v)
  PROVE  u = v
  BY Indexes

\* A free frame is found if there is one.
LEMMA NextFreeIsFree ==
  ASSUME NEW m \in MemoryType, m.free # {}
  PROVE  NextFree(m) \in m.free /\ NextFree(m) \in Frames
  BY DEF NextFree, MemoryType

\* No frame is two page tables, and none that is free is one.
TablesApart(m) ==
  /\ \A c, d \in Contexts : \A i, j \in 0 .. NPde - 1 :
       m.pd[c][i] # 0 /\ m.pd[c][i] = m.pd[d][j] => c = d /\ i = j
  /\ \A c \in Contexts : \A i \in 0 .. NPde - 1 : m.pd[c][i] \notin m.free

\* i686_pagewalk_init
LEMMA WalkInit ==
  ASSUME NEW m \in MemoryType
  PROVE  LET k == i686_pagewalk_init(m)
         IN /\ k \in MemoryType /\ k.free = m.free /\ k.pd = m.pd /\ k.pt = m.pt
            /\ k.kused >= m.kused
            /\ CanWalk(m) => k.kused = m.kused + 2
            /\ ~CanWalk(m) => k.kused = NKernelPages
            /\ NextFree(k) = NextFree(m)
<1>1. NKernelPages \in Nat \ {0}
  BY PageTableAssumption
<1>2. QED BY <1>1 DEF i686_pagewalk_init, MemoryType, CanWalk, NextFree

\* The three ways in which a walk may go.
WalkSame(m, w, c, v) ==
  /\ m.pd[c][PdIndex(v)] # 0 \/ m.free = {}
  /\ w.free = m.free /\ w.pd = m.pd /\ w.pt = m.pt

WalkLoses(m, w, c, v) ==
  /\ m.pd[c][PdIndex(v)] = 0 /\ NextFree(m) \in m.free
  /\ w.kused = NKernelPages
  /\ w.free = m.free \ {NextFree(m)} /\ w.pd = m.pd /\ w.pt = m.pt

WalkAdds(m, w, c, v) ==
  /\ m.pd[c][PdIndex(v)] = 0 /\ NextFree(m) \in m.free
  /\ w.free = m.free \ {NextFree(m)}
  /\ w.pd = [m.pd EXCEPT ![c] = [m.pd[c] EXCEPT ![PdIndex(v)] = NextFree(m)]]
  /\ w.pt = [m.pt EXCEPT ![NextFree(m)] = EmptyTable]

LEMMA WalkCases ==
  ASSUME NEW m \in MemoryType, NEW c \in Contexts, NEW v \in UserPages, CanWalk(m)
  PROVE  LET w == Walk(m, c, v)
         IN /\ w \in MemoryType /\ w.kused >= m.kused + 2
            /\ WalkSame(m, w, c, v) \/ WalkLoses(m, w, c, v) \/ WalkAdds(m, w, c, v)
<1> DEFINE k == i686_pagewalk_init(m)
           i == PdIndex(v)
           f == NextFree(m)
<1>1. /\ k \in MemoryType /\ k.free = m.free /\ k.pd = m.pd /\ k.pt = m.pt
      /\ k.kused = m.kused + 2 /\ NextFree(k) = f
  BY WalkInit
<1>2. /\ i \in 0 .. NPde - 1 /\ NKernelPages \in Nat
      /\ NPte \in Nat \ {0} /\ NFrames \in Nat
  BY Indexes, PageTableAssumption
<1>3. EmptyTable \in [0 .. NPte - 1 -> EntryType]
  BY <1>2 DEF EmptyTable, NoEntry, EntryType
<1>4. /\ m.kused \in 0 .. NKernelPages /\ m.free \in SUBSET Frames
      /\ m.pd \in [Contexts -> [0 .. NPde - 1 -> 0 .. NFrames]]
      /\ m.pt \in [0 .. NFrames -> [0 .. NPte - 1 -> EntryType]]
  BY DEF MemoryType
<1> HIDE DEF k, i
<1>5. CASE m.pd[c][i] # 0 \/ m.free = {}
  <2>1. Walk(m, c, v) = k
    BY <1>5, <1>1 DEF Walk, i686_pagewalk, i686_initialize_pde, i, k
  <2>2. k.kused >= m.kused + 2
    BY <1>1, <1>4
  <2>3. QED BY <2>1, <2>2, <1>1, <1>5 DEF WalkSame, i
<1>6. CASE m.pd[c][i] = 0 /\ m.free # {} /\ k.kused = NKernelPages
  <2>1. f \in m.free
    BY <1>6, NextFreeIsFree
  <2>2. Walk(m, c, v) = [k EXCEPT !.free = @ \ {f}]
    BY <1>6, <1>1 DEF Walk, i686_pagewalk, i686_initialize_pde, page_alloc, i, k
  <2>3. [k EXCEPT !.free = @ \ {f}] \in MemoryType
    BY <1>1 DEF MemoryType
  <2>4. QED BY <2>1, <2>2, <2>3, <1>1, <1>6 DEF WalkLoses, i, MemoryType
<1>7. CASE m.pd[c][i] = 0 /\ m.free # {} /\ k.kused # NKernelPages
  <2>1. f \in m.free /\ f \in Frames
    BY <1>7, NextFreeIsFree
  <2> DEFINE fr == m.free \ {f}
             ku == m.kused + 2
             pd2 == [m.pd EXCEPT ![c] = [m.pd[c] EXCEPT ![i] = f]]
             pt2 == [m.pt EXCEPT ![f] = EmptyTable]
             w == [kused |-> ku + 1, free |-> fr, pd |-> pd2, pt |-> pt2]
  <2>2. k = [kused |-> m.kused + 2, free |-> m.free, pd |-> m.pd, pt |-> m.pt]
    BY <1>1 DEF MemoryType
  <2>3. Walk(m, c, v) = w
    <3> DEFINE m0 == [kused |-> ku, free |-> fr, pd |-> m.pd, pt |-> m.pt]
               m1 == [kused |-> ku + 1, free |-> fr, pd |-> m.pd, pt |-> m.pt]
               m2 == [kused |-> ku + 1, free |-> fr, pd |-> pd2, pt |-> m.pt]
    <3>1. page_alloc(k) = m0
      BY <2>2, <1>1, SMTT(30) DEF page_alloc
    <3>2. Walk(m, c, v) = i686_initialize_pde(k, c, i)
      BY <1>1, <1>7 DEF Walk, i686_pagewalk, k, i
    <3>3. i686_initialize_pde(k, c, i)
            = [page_alloc(k) EXCEPT !.kused = @ + 1, !.pd[c][i] = f, !.pt[f] = EmptyTable]
      BY <1>1, <1>7 DEF i686_initialize_pde
    <3> HIDE DEF f, fr, ku
    <3>4. [m0 EXCEPT !.kused = @ + 1] = m1
      OBVIOUS
    <3>5. [m1 EXCEPT !.pd[c][i] = f] = m2
      OBVIOUS
    <3> HIDE DEF pd2
    <3>6. [m2 EXCEPT !.pt[f] = EmptyTable] = w
      OBVIOUS
    <3> HIDE DEF m0, m1, m2, w
    <3>7. [m0 EXCEPT !.kused = @ + 1, !.pd[c][i] = f, !.pt[f] = EmptyTable] = w
      BY <3>4, <3>5, <3>6
    <3>8. QED BY <3>1, <3>2, <3>3, <3>7
  <2>4. w \in MemoryType
    <3>1. ku + 1 \in 0 .. NKernelPages
      BY <1>1, <1>2, <1>4, <1>7 DEF MemoryType
    <3>2. [m.pd EXCEPT ![c] = [m.pd[c] EXCEPT ![i] = f]] \in [Contexts -> [0 .. NPde - 1 -> 0 .. NFrames]]
      BY <1>2, <1>4, <2>1 DEF Frames
    <3>3. [m.pt EXCEPT ![f] = EmptyTable] \in [0 .. NFrames -> [0 .. NPte - 1 -> EntryType]]
      BY <1>3, <1>4
    <3>4. QED BY <3>1, <3>2, <3>3, <1>4 DEF MemoryType
  <2>5. w.kused >= m.kused + 2
    BY <1>4
  <2>6. WalkAdds(m, w, c, v)
    BY <2>1, <1>7 DEF WalkAdds, i
  <2>7. QED BY <2>3, <2>4, <2>5, <2>6
<1>8. QED BY <1>5, <1>6, <1>7

\* A walk changes what the processor sees at no address: a page table that it
\* adds is empty, and was none before.
LEMMA WalkTranslates ==
  ASSUME NEW m \in MemoryType, TablesApart(m), NEW c \in Contexts, NEW v \in UserPages, CanWalk(m)
  PROVE  LET w == Walk(m, c, v)
         IN /\ TablesApart(w) /\ w.pt[0] = m.pt[0]
            /\ \A d \in Contexts, u \in UserPages : Translation(w, d, u) = Translation(m, d, u)
<1> DEFINE w == Walk(m, c, v)
           f == NextFree(m)
           i == PdIndex(v)
<1>1. w \in MemoryType /\ (WalkSame(m, w, c, v) \/ WalkLoses(m, w, c, v) \/ WalkAdds(m, w, c, v))
  BY WalkCases
<1>2. i \in 0 .. NPde - 1
  BY Indexes
<1>3. /\ m.free \in SUBSET Frames
      /\ m.pd \in [Contexts -> [0 .. NPde - 1 -> 0 .. NFrames]]
      /\ m.pt \in [0 .. NFrames -> [0 .. NPte - 1 -> EntryType]]
  BY DEF MemoryType
<1> HIDE DEF w, i
<1>4. CASE WalkSame(m, w, c, v)
  BY <1>4 DEF WalkSame, TablesApart, Translation, w
<1>5. CASE WalkLoses(m, w, c, v)
  BY <1>5 DEF WalkLoses, TablesApart, Translation, w
<1>6. CASE WalkAdds(m, w, c, v)
  <2> HIDE DEF f
  <2>1. /\ m.pd[c][i] = 0 /\ f \in m.free /\ f # 0 /\ f \in 0 .. NFrames
        /\ w.free = m.free \ {f}
        /\ w.pd = [m.pd EXCEPT ![c] = [m.pd[c] EXCEPT ![i] = f]]
        /\ w.pt = [m.pt EXCEPT ![f] = EmptyTable]
    <3>1. \A x \in Frames : x # 0 /\ x \in 0 .. NFrames
      BY PageTableAssumption DEF Frames
    <3>2. QED BY <3>1, <1>3, <1>6 DEF WalkAdds, f, i
  <2>2. /\ w.pd[c][i] = f
        /\ \A d \in Contexts : \A j \in 0 .. NPde - 1 :
             d # c \/ j # i => w.pd[d][j] = m.pd[d][j]
    <3>1. m.pd[c] \in [0 .. NPde - 1 -> 0 .. NFrames]
      BY <1>3
    <3>2. w.pd[c] = [m.pd[c] EXCEPT ![i] = f] /\ \A d \in Contexts : d # c => w.pd[d] = m.pd[d]
      BY <2>1, <1>3
    <3>3. QED BY <3>1, <3>2, <1>2
  <2>3. TablesApart(w)
    BY <2>1, <2>2 DEF TablesApart
  <2>4. ASSUME NEW d \in Contexts, NEW u \in UserPages
        PROVE  Translation(w, d, u) = Translation(m, d, u)
    <3>1. PdIndex(u) \in 0 .. NPde - 1 /\ PtIndex(u) \in 0 .. NPte - 1
      BY Indexes
    <3>2. CASE d = c /\ PdIndex(u) = i
      <4>1. w.pd[d][PdIndex(u)] = f /\ m.pd[d][PdIndex(u)] = 0
        BY <3>2, <2>1, <2>2
      <4>2. w.pt[f][PtIndex(u)] = NoEntry
        <5>1. w.pt[f] = EmptyTable
          BY <2>1, <1>3
        <5>2. QED BY <5>1, <3>1 DEF EmptyTable
      <4>3. QED BY <4>1, <4>2, <2>1 DEF Translation
    <3>3. CASE ~(d = c /\ PdIndex(u) = i)
      <4>1. w.pd[d][PdIndex(u)] = m.pd[d][PdIndex(u)]
        BY <3>1, <3>3, <2>2
      <4>2. m.pd[d][PdIndex(u)] # f /\ m.pd[d][PdIndex(u)] \in 0 .. NFrames
        <5>1. m.pd[d][PdIndex(u)] \notin m.free
          BY <3>1 DEF TablesApart
        <5>2. m.pd[d] \in [0 .. NPde - 1 -> 0 .. NFrames]
          BY <1>3
        <5>3. QED BY <5>1, <5>2, <3>1, <2>1
      <4>3. w.pt[m.pd[d][PdIndex(u)]] = m.pt[m.pd[d][PdIndex(u)]]
        BY <4>2, <2>1, <1>3
      <4>4. QED BY <4>1, <4>3 DEF Translation
    <3>4. QED BY <3>2, <3>3
  <2>5. w.pt[0] = m.pt[0]
    BY <2>1, <1>3
  <2>6. QED BY <2>3, <2>4, <2>5 DEF w
<1>7. QED BY <1>1, <1>4, <1>5, <1>6

-----------------------------------------------------------------------------
\* One entry of one frame is written.
Written(m, n, t, x, e) ==
  /\ n.kused = m.kused /\ n.free = m.free /\ n.pd = m.pd
  /\ n.pt = [m.pt EXCEPT ![t] = [m.pt[t] EXCEPT ![x] = e]]

\* It changes what the processor sees at one address, or at none if the frame
\* is not the page table of that address.
LEMMA WriteTranslates ==
  ASSUME NEW m \in MemoryType, TablesApart(m), NEW c \in Contexts, NEW v \in UserPages,
         NEW e \in EntryType, NEW n,
         Written(m, n, m.pd[c][PdIndex(v)], PtIndex(v), e)
  PROVE  /\ TablesApart(n)
         /\ n.pt \in [0 .. NFrames -> [0 .. NPte - 1 -> EntryType]]
         /\ m.pd[c][PdIndex(v)] # 0 => Translation(n, c, v) = e
         /\ \A d \in Contexts, u \in UserPages :
              (d # c \/ u # v \/ m.pd[c][PdIndex(v)] = 0)
                => Translation(n, d, u) = Translation(m, d, u)
<1> DEFINE t == m.pd[c][PdIndex(v)]
           x == PtIndex(v)
<1>1. /\ m.pd \in [Contexts -> [0 .. NPde - 1 -> 0 .. NFrames]]
      /\ m.pt \in [0 .. NFrames -> [0 .. NPte - 1 -> EntryType]]
  BY DEF MemoryType
<1>2. PdIndex(v) \in 0 .. NPde - 1 /\ x \in 0 .. NPte - 1 /\ t \in 0 .. NFrames
  BY <1>1, Indexes
<1>3. /\ n.pd = m.pd /\ n.free = m.free
      /\ n.pt \in [0 .. NFrames -> [0 .. NPte - 1 -> EntryType]]
      /\ n.pt[t][x] = e
      /\ \A s \in 0 .. NFrames, y \in 0 .. NPte - 1 : s # t \/ y # x => n.pt[s][y] = m.pt[s][y]
  <2> DEFINE row == [m.pt[t] EXCEPT ![x] = e]
  <2>1. n.pd = m.pd /\ n.free = m.free /\ n.pt = [m.pt EXCEPT ![t] = row]
    BY DEF Written
  <2>2. m.pt[t] \in [0 .. NPte - 1 -> EntryType]
    BY <1>1, <1>2
  <2>3. row \in [0 .. NPte - 1 -> EntryType] /\ row[x] = e
        /\ \A y \in 0 .. NPte - 1 : y # x => row[y] = m.pt[t][y]
    BY <2>2, <1>2
  <2> HIDE DEF row, t, x
  <2>4. /\ n.pt \in [0 .. NFrames -> [0 .. NPte - 1 -> EntryType]] /\ n.pt[t] = row
        /\ \A s \in 0 .. NFrames : s # t => n.pt[s] = m.pt[s]
    BY <2>1, <2>3, <1>1, <1>2
  <2>5. QED BY <2>1, <2>3, <2>4
<1>4. TablesApart(n)
  BY <1>3 DEF TablesApart
<1>5. ASSUME t # 0 PROVE Translation(n, c, v) = e
  BY <1>3, <1>5 DEF Translation
<1>6. ASSUME NEW d \in Contexts, NEW u \in UserPages, d # c \/ u # v \/ t = 0
      PROVE  Translation(n, d, u) = Translation(m, d, u)
  <2> DEFINE s == m.pd[d][PdIndex(u)]
  <2>1. PdIndex(u) \in 0 .. NPde - 1 /\ PtIndex(u) \in 0 .. NPte - 1 /\ s \in 0 .. NFrames
    BY <1>1, Indexes
  <2>2. CASE s = 0
    BY <2>2, <1>3 DEF Translation
  <2>3. CASE s # 0
    <3>1. s # t \/ PtIndex(u) # x
      <4>1. CASE s = t
        <5>1. d = c /\ PdIndex(u) = PdIndex(v)
          BY <4>1, <2>1, <2>3, <1>2 DEF TablesApart
        <5>2. QED BY <5>1, <4>1, <2>3, <1>6, IndexesTell
      <4>2. QED BY <4>1
    <3>2. n.pt[s][PtIndex(u)] = m.pt[s][PtIndex(u)]
      BY <3>1, <2>1, <1>3
    <3>3. QED BY <3>2, <1>3 DEF Translation
  <2>4. QED BY <2>2, <2>3
<1>7. QED BY <1>3, <1>4, <1>5, <1>6

\* Where a walk ends there is an entry.
LEMMA EntryTypes ==
  ASSUME NEW m \in MemoryType, NEW c \in Contexts, NEW v \in UserPages
  PROVE  LET t == m.pd[c][PdIndex(v)]
         IN /\ PdIndex(v) \in 0 .. NPde - 1 /\ PtIndex(v) \in 0 .. NPte - 1 /\ t \in 0 .. NFrames
            /\ m.pt \in [0 .. NFrames -> [0 .. NPte - 1 -> EntryType]]
            /\ m.pt[t] \in [0 .. NPte - 1 -> EntryType]
            /\ m.pt[t][PtIndex(v)] \in EntryType
            /\ Translation(m, c, v) \in EntryType
<1> DEFINE t == m.pd[c][PdIndex(v)]
<1>1. PdIndex(v) \in 0 .. NPde - 1 /\ PtIndex(v) \in 0 .. NPte - 1
  BY Indexes
<1>2. /\ m.pd \in [Contexts -> [0 .. NPde - 1 -> 0 .. NFrames]]
      /\ m.pt \in [0 .. NFrames -> [0 .. NPte - 1 -> EntryType]]
  BY DEF MemoryType
<1>3. t \in 0 .. NFrames
  BY <1>1, <1>2
<1> HIDE DEF t
<1>4. m.pt[t] \in [0 .. NPte - 1 -> EntryType] /\ m.pt[t][PtIndex(v)] \in EntryType
  BY <1>1, <1>2, <1>3
<1>5. NoEntry \in EntryType
  BY PageTableAssumption DEF NoEntry, EntryType
<1>6. QED BY <1>1, <1>2, <1>3, <1>4, <1>5 DEF t, Translation

\* i686_user_map_page: after its walk the page of one entry is set.
LEMMA MapEffect ==
  ASSUME NEW m \in MemoryType, TablesApart(m), NEW c \in Contexts, NEW v \in UserPages \ {0},
         NEW frame \in 0 .. NFrames, CanWalk(m)
  PROVE  LET w == Walk(m, c, v)
             n == i686_user_map_page(m, c, v, frame)
         IN /\ n \in MemoryType /\ TablesApart(n)
            /\ n.kused = w.kused /\ n.free = w.free /\ n.pd = w.pd
            /\ \E e \in EntryType : Written(w, n, w.pd[c][PdIndex(v)], PtIndex(v), e)
            /\ w.pd[c][PdIndex(v)] # 0 =>
                 Translation(n, c, v) = [Translation(m, c, v) EXCEPT !.page = frame]
            /\ \A d \in Contexts, u \in UserPages :
                 (d # c \/ u # v \/ w.pd[c][PdIndex(v)] = 0)
                   => Translation(n, d, u) = Translation(m, d, u)
<1> DEFINE w == Walk(m, c, v)
           n == i686_user_map_page(m, c, v, frame)
           t == w.pd[c][PdIndex(v)]
           x == PtIndex(v)
           e == [w.pt[t][x] EXCEPT !.page = frame]
           pt2 == [w.pt EXCEPT ![t] = [w.pt[t] EXCEPT ![x] = e]]
<1>1. w \in MemoryType
  BY WalkCases
<1>2. /\ TablesApart(w)
      /\ \A d \in Contexts, u \in UserPages : Translation(w, d, u) = Translation(m, d, u)
  BY WalkTranslates
<1>3. /\ PdIndex(v) \in 0 .. NPde - 1 /\ x \in 0 .. NPte - 1 /\ t \in 0 .. NFrames
      /\ w.pt[t][x] \in EntryType
  BY <1>1, EntryTypes
<1>4. e \in EntryType
  BY <1>3 DEF EntryType
<1>5. n = [w EXCEPT !.pt[t][x].page = frame]
  BY DEF i686_user_map_page, Table
<1> HIDE DEF w, t, x
<1>6. n = [w EXCEPT !.pt = pt2]
  BY <1>5
<1>7. Written(w, n, t, x, e)
  BY <1>1, <1>6 DEF Written, MemoryType
<1> HIDE DEF n, e
<1>8. /\ TablesApart(n)
      /\ n.pt \in [0 .. NFrames -> [0 .. NPte - 1 -> EntryType]]
      /\ t # 0 => Translation(n, c, v) = e
      /\ \A d \in Contexts, u \in UserPages :
           (d # c \/ u # v \/ t = 0) => Translation(n, d, u) = Translation(w, d, u)
  BY <1>1, <1>2, <1>4, <1>7, WriteTranslates DEF t, x
<1>9. n \in MemoryType
  BY <1>1, <1>6, <1>8 DEF MemoryType
<1>10. t # 0 => e = [Translation(m, c, v) EXCEPT !.page = frame]
  <2>1. t # 0 => Translation(w, c, v) = w.pt[t][x]
    BY DEF Translation, t, x
  <2>2. QED BY <2>1, <1>2 DEF e
<1>11. n.kused = w.kused /\ n.free = w.free /\ n.pd = w.pd
  BY <1>7 DEF Written
<1>12. \E e1 \in EntryType : Written(w, n, t, x, e1)
  BY <1>4, <1>7
<1>13. QED BY <1>2, <1>8, <1>9, <1>10, <1>11, <1>12 DEF n, w, t, x

\* The flags of an entry are set one after the other.
LEMMA EntryFlags ==
  ASSUME NEW z \in EntryType, NEW writable \in BOOLEAN
  PROVE  LET e == [page |-> z.page, present |-> TRUE, writable |-> writable]
             e1 == [z EXCEPT !.writable = writable]
         IN e \in EntryType /\ e1 \in EntryType /\ [e1 EXCEPT !.present = TRUE] = e
<1> DEFINE e1 == [z EXCEPT !.writable = writable]
           p == z.page
           q == z.present
<1>1. p \in 0 .. NFrames /\ q \in BOOLEAN
  BY DEF EntryType
<1>2. e1 = [page |-> p, present |-> q, writable |-> writable]
  BY DEF EntryType
<1> HIDE DEF e1, p, q
<1>3. [e1 EXCEPT !.present = TRUE] = [page |-> p, present |-> TRUE, writable |-> writable]
  <2> DEFINE f == [e1 EXCEPT !.present = TRUE]
  <2>1. f \in EntryType /\ f.page = p /\ f.present = TRUE /\ f.writable = writable
    BY <1>1, <1>2 DEF EntryType
  <2> HIDE DEF f
  <2>2. f = [page |-> f.page, present |-> f.present, writable |-> f.writable]
    BY <2>1 DEF EntryType
  <2>3. QED BY <2>1, <2>2, Zenon DEF f
<1>4. e1 \in EntryType /\ [page |-> p, present |-> TRUE, writable |-> writable] \in EntryType
  BY <1>1, <1>2 DEF EntryType
<1>5. QED BY <1>3, <1>4 DEF e1, p

\* i686_user_set_page_flags: after its walk the flags of one entry are set.
LEMMA FlagsEffect ==
  ASSUME NEW m \in MemoryType, TablesApart(m), NEW c \in Contexts, NEW v \in UserPages \ {0},
         NEW writable \in BOOLEAN, CanWalk(m)
  PROVE  LET w == Walk(m, c, v)
             n == i686_user_set_page_flags(m, c, v, writable)
             old == Translation(m, c, v)
         IN /\ n \in MemoryType /\ TablesApart(n)
            /\ n.kused = w.kused /\ n.free = w.free /\ n.pd = w.pd
            /\ \E e \in EntryType : /\ Written(w, n, w.pd[c][PdIndex(v)], PtIndex(v), e)
                                   /\ e.page = w.pt[w.pd[c][PdIndex(v)]][PtIndex(v)].page
            /\ w.pd[c][PdIndex(v)] # 0 =>
                 Translation(n, c, v) = [page |-> old.page, present |-> TRUE, writable |-> writable]
            /\ \A d \in Contexts, u \in UserPages :
                 (d # c \/ u # v \/ w.pd[c][PdIndex(v)] = 0)
                   => Translation(n, d, u) = Translation(m, d, u)
<1> DEFINE w == Walk(m, c, v)
           n == i686_user_set_page_flags(m, c, v, writable)
           t == w.pd[c][PdIndex(v)]
           x == PtIndex(v)
           e == [page |-> w.pt[t][x].page, present |-> TRUE, writable |-> writable]
           e1 == [w.pt[t][x] EXCEPT !.writable = writable]
           w1 == [w EXCEPT !.pt[t][x].writable = writable]
           pt1 == [w.pt EXCEPT ![t] = [w.pt[t] EXCEPT ![x] = e1]]
           pt2 == [w.pt EXCEPT ![t] = [w.pt[t] EXCEPT ![x] = e]]
<1>1. w \in MemoryType
  BY WalkCases
<1>2. /\ TablesApart(w)
      /\ \A d \in Contexts, u \in UserPages : Translation(w, d, u) = Translation(m, d, u)
  BY WalkTranslates
<1>3. /\ PdIndex(v) \in 0 .. NPde - 1 /\ x \in 0 .. NPte - 1 /\ t \in 0 .. NFrames
      /\ w.pt[t] \in [0 .. NPte - 1 -> EntryType] /\ w.pt[t][x] \in EntryType
      /\ w.pt \in [0 .. NFrames -> [0 .. NPte - 1 -> EntryType]]
  BY <1>1, EntryTypes
<1>4. e \in EntryType /\ e1 \in EntryType /\ [e1 EXCEPT !.present = TRUE] = e
  BY <1>3, EntryFlags
<1>5. n = [w EXCEPT !.pt[t][x].writable = writable, !.pt[t][x].present = TRUE]
  BY DEF i686_user_set_page_flags, Table
<1> HIDE DEF w, t, x
<1>6. w1 = [w EXCEPT !.pt = pt1]
  OBVIOUS
<1>7. n = [w1 EXCEPT !.pt[t][x].present = TRUE]
  BY <1>5
<1> HIDE DEF e, e1
<1>8. /\ pt1[t] = [w.pt[t] EXCEPT ![x] = e1] /\ pt1[t][x] = e1
  BY <1>3
<1>9. [w1 EXCEPT !.pt[t][x].present = TRUE]
       = [w1 EXCEPT !.pt = [w1.pt EXCEPT ![t] = [w1.pt[t] EXCEPT ![x] = [w1.pt[t][x] EXCEPT !.present = TRUE]]]]
  OBVIOUS
<1>10. w1.pt = pt1
  BY <1>1, <1>6 DEF MemoryType
<1>11. [pt1 EXCEPT ![t] = [pt1[t] EXCEPT ![x] = e]] = pt2
  <2>1. [pt1[t] EXCEPT ![x] = e] = [w.pt[t] EXCEPT ![x] = e]
    BY <1>3, <1>8
  <2>2. QED BY <2>1, <1>3
<1>12. n = [w EXCEPT !.pt = pt2]
  <2>1. n = [w1 EXCEPT !.pt = pt2]
    BY <1>4, <1>7, <1>8, <1>9, <1>10, <1>11
  <2> HIDE DEF pt1, pt2, w1
  <2>2. QED BY <2>1, <1>6
<1>13. Written(w, n, t, x, e)
  BY <1>1, <1>12 DEF Written, MemoryType
<1> HIDE DEF n
<1>14. /\ TablesApart(n)
       /\ n.pt \in [0 .. NFrames -> [0 .. NPte - 1 -> EntryType]]
       /\ t # 0 => Translation(n, c, v) = e
       /\ \A d \in Contexts, u \in UserPages :
            (d # c \/ u # v \/ t = 0) => Translation(n, d, u) = Translation(w, d, u)
  BY <1>1, <1>2, <1>4, <1>13, WriteTranslates DEF t, x
<1>15. n \in MemoryType
  BY <1>1, <1>12, <1>14 DEF MemoryType
<1>16. t # 0 => e.page = Translation(m, c, v).page
  <2>1. t # 0 => Translation(w, c, v) = w.pt[t][x]
    BY DEF Translation, t, x
  <2>2. QED BY <2>1, <1>2 DEF e
<1>17. n.kused = w.kused /\ n.free = w.free /\ n.pd = w.pd
  BY <1>13 DEF Written
<1>18. \E e2 \in EntryType : Written(w, n, t, x, e2) /\ e2.page = w.pt[t][x].page
  <2>1. e.page = w.pt[t][x].page
    BY DEF e
  <2>2. QED BY <2>1, <1>4, <1>13
<1>19. t # 0 => Translation(n, c, v)
                  = [page |-> Translation(m, c, v).page, present |-> TRUE, writable |-> writable]
  BY <1>14, <1>16 DEF e
<1>20. QED BY <1>2, <1>14, <1>15, <1>17, <1>18, <1>19 DEF n, w, t, x

-----------------------------------------------------------------------------
PageAt(m, c, u) == Translation(m, c, u).page

\* The pages that memory_region_map allocates frames for.
Backed(c, u) == \E r \in Regions : r.pd = c /\ r.paddr = 0 /\ u \in PagesOf(r)

IsTable(m, f) == \E c \in Contexts : \E i \in 0 .. NPde - 1 : m.pd[c][i] = f

\* What is true of the memory m while the frames of X are held: by the rest of
\* the kernel, or by a call that has yet to enter one.  A frame is free, held, a
\* page table or a page, and never two of them; and as long as the kernel
\* window lasts it is one of them.
Sound(m, X) ==
  /\ m \in MemoryType
  /\ TablesApart(m)
  /\ X \subseteq Managed /\ m.free \subseteq Managed /\ X \cap m.free = {}
  /\ \A c \in Contexts : \A i \in 0 .. NPde - 1 :
       m.pd[c][i] # 0 => m.pd[c][i] \in Managed /\ m.pd[c][i] \notin X
  /\ \A c \in Contexts, u \in UserPages : PageAt(m, c, u) \in Managed =>
       /\ PageAt(m, c, u) \notin m.free /\ PageAt(m, c, u) \notin X
       /\ ~IsTable(m, PageAt(m, c, u))
       /\ Backed(c, u)
  /\ \A c, d \in Contexts : \A u, v \in UserPages :
       PageAt(m, c, u) \in Managed /\ PageAt(m, c, u) = PageAt(m, d, v) => c = d /\ u = v
  /\ m.kused < NKernelPages =>
       \A f \in Managed : \/ f \in m.free \/ f \in X \/ IsTable(m, f)
                          \/ \E c \in Contexts, u \in UserPages : PageAt(m, c, u) = f

\* An allocated page is not replaced.
Keeps(m, n) ==
  \A c \in Contexts, u \in UserPages :
    PageAt(m, c, u) \in Managed => PageAt(n, c, u) = PageAt(m, c, u)

LEMMA ManagedFrames == \A f \in Managed : f \in Frames /\ f # 0 /\ f \notin Device
  BY DEF Managed, Frames

\* The same tables, free frames and pages.
LEMMA SoundSame ==
  ASSUME NEW m, NEW n \in MemoryType, NEW X, Sound(m, X), TablesApart(n),
         n.free = m.free, n.pd = m.pd, n.kused >= m.kused,
         \A c \in Contexts, u \in UserPages : PageAt(n, c, u) = PageAt(m, c, u)
  PROVE  Sound(n, X)
<1>1. n.kused < NKernelPages => m.kused < NKernelPages
  BY PageTableAssumption DEF Sound, MemoryType
<1>2. \A f : IsTable(n, f) <=> IsTable(m, f)
  BY DEF IsTable
<1>3. QED BY <1>1, <1>2 DEF Sound

\* Once the kernel window has ended a frame that is held may be lost.
LEMMA SoundDrop ==
  ASSUME NEW m, NEW X, NEW Y, Sound(m, X), Y \subseteq X, m.kused = NKernelPages
  PROVE  Sound(m, Y)
  BY PageTableAssumption DEF Sound

LEMMA SoundInit ==
  ASSUME NEW m, NEW X, Sound(m, X)
  PROVE  Sound(i686_pagewalk_init(m), X) /\ Keeps(m, i686_pagewalk_init(m))
<1> DEFINE k == i686_pagewalk_init(m)
<1>1. /\ k \in MemoryType /\ k.free = m.free /\ k.pd = m.pd /\ k.pt = m.pt
      /\ k.kused >= m.kused
  BY WalkInit DEF Sound
<1> HIDE DEF k
<1>2. \A c \in Contexts, u \in UserPages : PageAt(k, c, u) = PageAt(m, c, u)
  BY <1>1 DEF PageAt, Translation
<1>3. TablesApart(k)
  BY <1>1 DEF Sound, TablesApart
<1>4. Sound(k, X)
  BY <1>1, <1>2, <1>3, SoundSame
<1>5. QED BY <1>2, <1>4 DEF Keeps, k

\* A walk turns a free frame into a page table, at most.
LEMMA SoundWalk ==
  ASSUME NEW m, NEW X, Sound(m, X), NEW c \in Contexts, NEW v \in UserPages, CanWalk(m)
  PROVE  Sound(Walk(m, c, v), X) /\ Keeps(m, Walk(m, c, v))
<1> DEFINE w == Walk(m, c, v)
           f == NextFree(m)
           i == PdIndex(v)
<1>0. m \in MemoryType /\ TablesApart(m) /\ m.free \subseteq Managed
  BY DEF Sound
<1>1. /\ w \in MemoryType /\ w.kused >= m.kused + 2
      /\ WalkSame(m, w, c, v) \/ WalkLoses(m, w, c, v) \/ WalkAdds(m, w, c, v)
  BY <1>0, WalkCases
<1>2. TablesApart(w) /\ \A d \in Contexts, u \in UserPages : PageAt(w, d, u) = PageAt(m, d, u)
  BY <1>0, WalkTranslates DEF PageAt
<1>3. w.kused >= m.kused /\ (w.kused < NKernelPages => m.kused < NKernelPages)
  BY <1>0, <1>1, PageTableAssumption DEF MemoryType
<1>4. i \in 0 .. NPde - 1
  BY Indexes
<1> HIDE DEF w, f, i
<1>5. CASE WalkSame(m, w, c, v)
  BY <1>1, <1>2, <1>3, <1>5, SoundSame DEF WalkSame, Keeps, w
<1>6. CASE WalkLoses(m, w, c, v)
  <2>1. w.kused = NKernelPages /\ w.free = m.free \ {f} /\ w.pd = m.pd
    BY <1>6 DEF WalkLoses, f
  <2>2. ~(w.kused < NKernelPages)
    BY <2>1, PageTableAssumption
  <2>3. \A g : IsTable(w, g) <=> IsTable(m, g)
    BY <2>1 DEF IsTable
  <2>4. Sound(w, X)
    BY <1>1, <1>2, <2>1, <2>2, <2>3 DEF Sound
  <2>5. QED BY <2>4, <1>2 DEF Keeps, w
<1>7. CASE WalkAdds(m, w, c, v)
  <2>1. /\ m.pd[c][i] = 0 /\ f \in m.free /\ f \in Managed /\ f # 0 /\ w.free = m.free \ {f}
        /\ w.pd = [m.pd EXCEPT ![c] = [m.pd[c] EXCEPT ![i] = f]]
    BY <1>0, <1>7, ManagedFrames DEF WalkAdds, f, i
  <2>2. m.pd \in [Contexts -> [0 .. NPde - 1 -> 0 .. NFrames]]
    BY <1>0 DEF MemoryType
  <2>3. /\ w.pd[c][i] = f
        /\ \A d \in Contexts : \A j \in 0 .. NPde - 1 : d # c \/ j # i => w.pd[d][j] = m.pd[d][j]
    <3>1. m.pd[c] \in [0 .. NPde - 1 -> 0 .. NFrames]
      BY <2>2
    <3>2. w.pd[c] = [m.pd[c] EXCEPT ![i] = f] /\ \A d \in Contexts : d # c => w.pd[d] = m.pd[d]
      BY <2>1, <2>2
    <3>3. QED BY <3>1, <3>2, <1>4
  <2>4. \A g : g # 0 => (IsTable(w, g) <=> (IsTable(m, g) \/ g = f))
    <3>1. TAKE g
    <3>2. HAVE g # 0
    <3>3. ASSUME IsTable(w, g) PROVE IsTable(m, g) \/ g = f
      BY <3>3, <2>3 DEF IsTable
    <3>4. ASSUME IsTable(m, g) PROVE IsTable(w, g)
      <4>1. PICK d \in Contexts, j \in 0 .. NPde - 1 : m.pd[d][j] = g
        BY <3>4 DEF IsTable
      <4>2. w.pd[d][j] = g
        BY <4>1, <3>2, <2>1, <2>3
      <4>3. QED BY <4>2 DEF IsTable
    <3>5. IsTable(w, f)
      BY <2>3, <1>4 DEF IsTable
    <3>6. QED BY <3>3, <3>4, <3>5
  <2>5. \A d \in Contexts : \A j \in 0 .. NPde - 1 :
          w.pd[d][j] # 0 => w.pd[d][j] \in Managed /\ w.pd[d][j] \notin X
    BY <2>1, <2>3 DEF Sound
  <2>6. \A d \in Contexts, u \in UserPages : PageAt(w, d, u) \in Managed =>
          /\ PageAt(w, d, u) \notin w.free /\ PageAt(w, d, u) \notin X
          /\ ~IsTable(w, PageAt(w, d, u))
          /\ Backed(d, u)
    <3>1. TAKE d \in Contexts, u \in UserPages
    <3>2. HAVE PageAt(w, d, u) \in Managed
    <3> DEFINE g == PageAt(w, d, u)
    <3>3. g = PageAt(m, d, u) /\ g \in Managed
      BY <1>2, <3>2
    <3>4. g \notin m.free /\ g \notin X /\ ~IsTable(m, g) /\ Backed(d, u) /\ g # 0
      BY <3>3, ManagedFrames DEF Sound
    <3> HIDE DEF g
    <3>5. g # f /\ g \notin w.free /\ ~IsTable(w, g)
      BY <3>4, <2>1, <2>4
    <3>6. QED BY <3>4, <3>5 DEF g
  <2>7. w.kused < NKernelPages =>
          \A g \in Managed : \/ g \in w.free \/ g \in X \/ IsTable(w, g)
                             \/ \E d \in Contexts, u \in UserPages : PageAt(w, d, u) = g
    <3>1. HAVE w.kused < NKernelPages
    <3>2. TAKE g \in Managed
    <3>3. \/ g \in m.free \/ g \in X \/ IsTable(m, g)
          \/ \E d \in Contexts, u \in UserPages : PageAt(m, d, u) = g
      BY <3>1, <1>3 DEF Sound
    <3>4. g # 0
      BY ManagedFrames
    <3>5. CASE \E d \in Contexts, u \in UserPages : PageAt(m, d, u) = g
      BY <3>5, <1>2
    <3>6. QED BY <3>3, <3>4, <3>5, <2>1, <2>4
  <2>8. Sound(w, X)
    <3>1. /\ X \subseteq Managed /\ w.free \subseteq Managed /\ X \cap w.free = {}
      BY <2>1 DEF Sound
    <3>2. \A d, e \in Contexts : \A u, x \in UserPages :
            PageAt(w, d, u) \in Managed /\ PageAt(w, d, u) = PageAt(w, e, x) => d = e /\ u = x
      BY <1>2 DEF Sound
    <3>3. QED BY <1>1, <1>2, <2>5, <2>6, <2>7, <3>1, <3>2 DEF Sound
  <2>9. QED BY <2>8, <1>2 DEF Keeps, w
<1>8. QED BY <1>1, <1>5, <1>6, <1>7

\* physmem_page_alloc: the frame is now held.
LEMMA SoundAlloc ==
  ASSUME NEW m, NEW X, Sound(m, X), m.free # {}
  PROVE  LET n == page_alloc(m)
         IN /\ NextFree(m) \in Managed /\ NextFree(m) \notin X
            /\ Sound(n, X \cup {NextFree(m)})
            /\ n.kused = m.kused /\ n.pd = m.pd /\ n.pt = m.pt
            /\ \A c \in Contexts, u \in UserPages : Translation(n, c, u) = Translation(m, c, u)
<1> DEFINE n == page_alloc(m)
           f == NextFree(m)
<1>1. f \in m.free /\ f \in Managed /\ f \notin X /\ m \in MemoryType
  BY NextFreeIsFree DEF Sound
<1>2. /\ n \in MemoryType /\ n.free = m.free \ {f} /\ n.pd = m.pd /\ n.pt = m.pt
      /\ n.kused = m.kused
  BY <1>1 DEF MemoryType, page_alloc
<1> HIDE DEF n, f
<1>3. \A c \in Contexts, u \in UserPages : Translation(n, c, u) = Translation(m, c, u)
  BY <1>2 DEF Translation
<1>4. \A c \in Contexts, u \in UserPages : PageAt(n, c, u) = PageAt(m, c, u)
  BY <1>3 DEF PageAt
<1>5. \A g : IsTable(n, g) <=> IsTable(m, g)
  BY <1>2 DEF IsTable
<1>6. ~IsTable(m, f) /\ \A c \in Contexts, u \in UserPages : PageAt(m, c, u) # f
  BY <1>1 DEF Sound, TablesApart, IsTable
<1>7. TablesApart(n)
  BY <1>2 DEF Sound, TablesApart
<1>8. Sound(n, X \cup {f})
  <2>1. \A c \in Contexts : \A i \in 0 .. NPde - 1 :
          n.pd[c][i] # 0 => n.pd[c][i] \in Managed /\ n.pd[c][i] \notin X \cup {f}
    BY <1>2, <1>6 DEF Sound, IsTable
  <2>2. \A c \in Contexts, u \in UserPages : PageAt(n, c, u) \in Managed =>
          /\ PageAt(n, c, u) \notin n.free /\ PageAt(n, c, u) \notin X \cup {f}
          /\ ~IsTable(n, PageAt(n, c, u))
          /\ Backed(c, u)
    BY <1>2, <1>4, <1>5, <1>6 DEF Sound
  <2>3. \A c, d \in Contexts : \A u, v \in UserPages :
          PageAt(n, c, u) \in Managed /\ PageAt(n, c, u) = PageAt(n, d, v) => c = d /\ u = v
    BY <1>4 DEF Sound
  <2>4. n.kused < NKernelPages =>
          \A g \in Managed : \/ g \in n.free \/ g \in X \cup {f} \/ IsTable(n, g)
                             \/ \E c \in Contexts, u \in UserPages : PageAt(n, c, u) = g
    BY <1>2, <1>4, <1>5 DEF Sound
  <2>5. X \cup {f} \subseteq Managed /\ n.free \subseteq Managed /\ (X \cup {f}) \cap n.free = {}
    BY <1>1, <1>2 DEF Sound
  <2>6. QED BY <1>2, <1>7, <2>1, <2>2, <2>3, <2>4, <2>5 DEF Sound
<1>9. QED BY <1>1, <1>2, <1>3, <1>8 DEF n, f

\* A frame that was held is given back.
LEMMA SoundFree ==
  ASSUME NEW m, NEW X, Sound(m, X), NEW f \in X
  PROVE  LET n == [m EXCEPT !.free = @ \cup {f}]
         IN /\ Sound(n, X \ {f}) /\ n.pd = m.pd /\ n.pt = m.pt
            /\ \A c \in Contexts, u \in UserPages : Translation(n, c, u) = Translation(m, c, u)
<1> DEFINE n == [m EXCEPT !.free = @ \cup {f}]
<1>1. f \in Managed /\ f \in Frames /\ f # 0 /\ m \in MemoryType
  BY ManagedFrames DEF Sound
<1>2. /\ n \in MemoryType /\ n.free = m.free \cup {f} /\ n.pd = m.pd /\ n.pt = m.pt
      /\ n.kused = m.kused
  BY <1>1 DEF MemoryType
<1> HIDE DEF n
<1>3. \A c \in Contexts, u \in UserPages : Translation(n, c, u) = Translation(m, c, u)
  BY <1>2 DEF Translation
<1>4. \A c \in Contexts, u \in UserPages : PageAt(n, c, u) = PageAt(m, c, u)
  BY <1>3 DEF PageAt
<1>5. \A g : IsTable(n, g) <=> IsTable(m, g)
  BY <1>2 DEF IsTable
<1>6. ~IsTable(m, f) /\ \A c \in Contexts, u \in UserPages : PageAt(m, c, u) # f
  BY <1>1 DEF Sound, IsTable
<1>7. TablesApart(n)
  BY <1>2, <1>6 DEF Sound, TablesApart, IsTable
<1>8. Sound(n, X \ {f})
  <2>1. \A c \in Contexts : \A i \in 0 .. NPde - 1 :
          n.pd[c][i] # 0 => n.pd[c][i] \in Managed /\ n.pd[c][i] \notin X \ {f}
    BY <1>2 DEF Sound
  <2>2. \A c \in Contexts, u \in UserPages : PageAt(n, c, u) \in Managed =>
          /\ PageAt(n, c, u) \notin n.free /\ PageAt(n, c, u) \notin X \ {f}
          /\ ~IsTable(n, PageAt(n, c, u))
          /\ Backed(c, u)
    BY <1>2, <1>4, <1>5, <1>6 DEF Sound
  <2>3. \A c, d \in Contexts : \A u, v \in UserPages :
          PageAt(n, c, u) \in Managed /\ PageAt(n, c, u) = PageAt(n, d, v) => c = d /\ u = v
    BY <1>4 DEF Sound
  <2>4. n.kused < NKernelPages =>
          \A g \in Managed : \/ g \in n.free \/ g \in X \ {f} \/ IsTable(n, g)
                             \/ \E c \in Contexts, u \in UserPages : PageAt(n, c, u) = g
    BY <1>2, <1>4, <1>5 DEF Sound
  <2>5. X \ {f} \subseteq Managed /\ n.free \subseteq Managed /\ (X \ {f}) \cap n.free = {}
    BY <1>1, <1>2 DEF Sound
  <2>6. QED BY <1>2, <1>7, <2>1, <2>2, <2>3, <2>4, <2>5 DEF Sound
<1>9. QED BY <1>2, <1>3, <1>8 DEF n

\* A walk that can be made.
LEMMA WalkTable ==
  ASSUME NEW m \in MemoryType, NEW c \in Contexts, NEW v \in UserPages, CanWalk(m),
         m.pd[c][PdIndex(v)] # 0
  PROVE  Walk(m, c, v).pd[c][PdIndex(v)] = m.pd[c][PdIndex(v)]
<1> DEFINE w == Walk(m, c, v)
<1>1. WalkSame(m, w, c, v) \/ WalkLoses(m, w, c, v) \/ WalkAdds(m, w, c, v)
  BY WalkCases
<1> HIDE DEF w
<1>2. w.pd = m.pd
  BY <1>1 DEF WalkSame, WalkLoses, WalkAdds
<1>3. QED BY <1>2 DEF w

\* i686_user_set_page_flags changes no page.
LEMMA SoundFlags ==
  ASSUME NEW m, NEW X, Sound(m, X), NEW c \in Contexts, NEW v \in UserPages \ {0},
         NEW writable \in BOOLEAN, CanWalk(m)
  PROVE  LET n == i686_user_set_page_flags(m, c, v, writable)
         IN Sound(n, X) /\ Keeps(m, n)
<1> DEFINE w == Walk(m, c, v)
           n == i686_user_set_page_flags(m, c, v, writable)
<1>1. m \in MemoryType /\ TablesApart(m) /\ v \in UserPages
  BY DEF Sound
<1>2. Sound(w, X)
  BY <1>1, SoundWalk
<1>3. /\ n \in MemoryType /\ TablesApart(n)
      /\ n.kused = w.kused /\ n.free = w.free /\ n.pd = w.pd
      /\ w.pd[c][PdIndex(v)] # 0 =>
           Translation(n, c, v) = [page |-> Translation(m, c, v).page, present |-> TRUE, writable |-> writable]
      /\ \A d \in Contexts, u \in UserPages :
           (d # c \/ u # v \/ w.pd[c][PdIndex(v)] = 0)
             => Translation(n, d, u) = Translation(m, d, u)
  BY <1>1, FlagsEffect
<1>4. \A d \in Contexts, u \in UserPages : Translation(w, d, u) = Translation(m, d, u)
  BY <1>1, WalkTranslates
<1> HIDE DEF w, n
<1>5. \A d \in Contexts, u \in UserPages : PageAt(n, d, u) = PageAt(m, d, u)
  <2>1. TAKE d \in Contexts, u \in UserPages
  <2>2. CASE d = c /\ u = v /\ w.pd[c][PdIndex(v)] # 0
    BY <2>2, <1>3 DEF PageAt
  <2>3. CASE d # c \/ u # v \/ w.pd[c][PdIndex(v)] = 0
    BY <2>3, <1>3 DEF PageAt
  <2>4. QED BY <2>2, <2>3
<1>6. \A d \in Contexts, u \in UserPages : PageAt(n, d, u) = PageAt(w, d, u)
  BY <1>4, <1>5 DEF PageAt
<1>7. n.kused >= w.kused
  BY <1>2, <1>3, PageTableAssumption DEF Sound, MemoryType
<1>8. Sound(n, X)
  BY <1>2, <1>3, <1>6, <1>7, SoundSame
<1>9. QED BY <1>5, <1>8 DEF Keeps, n

\* i686_user_map_page enters a frame that was held at an address that had none.
LEMMA SoundMap ==
  ASSUME NEW m, NEW X, Sound(m, X), NEW c \in Contexts, NEW v \in UserPages \ {0},
         NEW f \in X, CanWalk(m), m.pd[c][PdIndex(v)] # 0,
         PageAt(m, c, v) = 0, Backed(c, v)
  PROVE  LET n == i686_user_map_page(m, c, v, f)
         IN Sound(n, X \ {f}) /\ Keeps(m, n)
<1> DEFINE w == Walk(m, c, v)
           n == i686_user_map_page(m, c, v, f)
<1>1. m \in MemoryType /\ TablesApart(m) /\ f \in Managed /\ f \in Frames /\ f # 0
  BY ManagedFrames DEF Sound
<1>1a. f \in 0 .. NFrames
  BY <1>1, PageTableAssumption DEF Frames
<1>2. Sound(w, X)
  BY SoundWalk
<1>3. /\ n \in MemoryType /\ TablesApart(n)
      /\ n.kused = w.kused /\ n.free = w.free /\ n.pd = w.pd
      /\ w.pd[c][PdIndex(v)] # 0 => Translation(n, c, v) = [Translation(m, c, v) EXCEPT !.page = f]
      /\ \A d \in Contexts, u \in UserPages :
           (d # c \/ u # v \/ w.pd[c][PdIndex(v)] = 0)
             => Translation(n, d, u) = Translation(m, d, u)
  BY <1>1, <1>1a, MapEffect
<1>4. \A d \in Contexts, u \in UserPages : Translation(w, d, u) = Translation(m, d, u)
  BY <1>1, WalkTranslates
<1>5. w.pd[c][PdIndex(v)] # 0
  BY <1>1, WalkTable
<1>6. Translation(m, c, v) \in EntryType
  BY <1>1, EntryTypes
<1> HIDE DEF w, n
<1>7. /\ PageAt(n, c, v) = f /\ PageAt(w, c, v) = 0
      /\ \A d \in Contexts, u \in UserPages : d # c \/ u # v =>
           PageAt(n, d, u) = PageAt(m, d, u) /\ PageAt(n, d, u) = PageAt(w, d, u)
  BY <1>3, <1>4, <1>5, <1>6 DEF PageAt, EntryType
<1>8. \A g : IsTable(n, g) <=> IsTable(w, g)
  BY <1>3 DEF IsTable
<1>9. /\ f \notin w.free /\ ~IsTable(w, f)
      /\ \A d \in Contexts, u \in UserPages : PageAt(w, d, u) # f
  BY <1>1, <1>2 DEF Sound, IsTable
<1>10. Sound(n, X \ {f})
  <2>1. \A d \in Contexts : \A i \in 0 .. NPde - 1 :
          n.pd[d][i] # 0 => n.pd[d][i] \in Managed /\ n.pd[d][i] \notin X \ {f}
    BY <1>2, <1>3 DEF Sound
  <2>2. \A d \in Contexts, u \in UserPages : PageAt(n, d, u) \in Managed =>
          /\ PageAt(n, d, u) \notin n.free /\ PageAt(n, d, u) \notin X \ {f}
          /\ ~IsTable(n, PageAt(n, d, u))
          /\ Backed(d, u)
    <3>1. TAKE d \in Contexts, u \in UserPages
    <3>2. CASE d = c /\ u = v
      BY <3>2, <1>3, <1>7, <1>8, <1>9
    <3>3. CASE d # c \/ u # v
      BY <3>3, <1>2, <1>3, <1>7, <1>8 DEF Sound
    <3>4. QED BY <3>2, <3>3
  <2>3. \A d, e \in Contexts : \A u, x \in UserPages :
          PageAt(n, d, u) \in Managed /\ PageAt(n, d, u) = PageAt(n, e, x) => d = e /\ u = x
    <3>1. TAKE d, e \in Contexts
    <3>2. TAKE u, x \in UserPages
    <3>3. CASE (d # c \/ u # v) /\ (e # c \/ x # v)
      BY <3>3, <1>2, <1>7 DEF Sound
    <3>4. CASE (d = c /\ u = v) /\ (e # c \/ x # v)
      BY <3>4, <1>7, <1>9
    <3>5. CASE (d # c \/ u # v) /\ (e = c /\ x = v)
      BY <3>5, <1>7, <1>9
    <3>6. QED BY <3>3, <3>4, <3>5
  <2>4. n.kused < NKernelPages =>
          \A g \in Managed : \/ g \in n.free \/ g \in X \ {f} \/ IsTable(n, g)
                             \/ \E d \in Contexts, u \in UserPages : PageAt(n, d, u) = g
    <3>1. HAVE n.kused < NKernelPages
    <3>2. TAKE g \in Managed
    <3>3. \/ g \in w.free \/ g \in X \/ IsTable(w, g)
          \/ \E d \in Contexts, u \in UserPages : PageAt(w, d, u) = g
      BY <3>1, <1>2, <1>3 DEF Sound
    <3>4. CASE g = f
      BY <3>4, <1>7
    <3>5. CASE \E d \in Contexts, u \in UserPages : PageAt(w, d, u) = g
      <4>1. PICK d \in Contexts, u \in UserPages : PageAt(w, d, u) = g
        BY <3>5
      <4>2. g # 0
        BY ManagedFrames
      <4>3. d # c \/ u # v
        BY <4>1, <4>2, <1>7
      <4>4. PageAt(n, d, u) = g
        BY <4>1, <4>3, <1>7
      <4>5. QED BY <4>4
    <3>6. QED BY <3>3, <3>4, <3>5, <1>3, <1>8
  <2>5. X \ {f} \subseteq Managed /\ n.free \subseteq Managed /\ (X \ {f}) \cap n.free = {}
    BY <1>2, <1>3 DEF Sound
  <2>6. QED BY <1>3, <2>1, <2>2, <2>3, <2>4, <2>5 DEF Sound
<1>11. Keeps(m, n)
  <2>1. 0 \notin Managed
    BY ManagedFrames
  <2>2. QED BY <2>1, <1>7 DEF Keeps
<1>12. QED BY <1>10, <1>11 DEF n

\* i686_user_map_page enters a device's frame where nothing is allocated.
LEMMA SoundExact ==
  ASSUME NEW m, NEW X, Sound(m, X), NEW c \in Contexts, NEW v \in UserPages \ {0},
         NEW f \in Device, f \in Frames, CanWalk(m), ~Backed(c, v)
  PROVE  LET n == i686_user_map_page(m, c, v, f)
         IN Sound(n, X) /\ Keeps(m, n)
<1> DEFINE w == Walk(m, c, v)
           n == i686_user_map_page(m, c, v, f)
<1>1. m \in MemoryType /\ TablesApart(m) /\ f \notin Managed
  BY ManagedFrames DEF Sound
<1>1a. f \in 0 .. NFrames
  BY PageTableAssumption DEF Frames
<1>2. Sound(w, X)
  BY SoundWalk
<1>3. /\ n \in MemoryType /\ TablesApart(n)
      /\ n.kused = w.kused /\ n.free = w.free /\ n.pd = w.pd
      /\ w.pd[c][PdIndex(v)] # 0 => Translation(n, c, v) = [Translation(m, c, v) EXCEPT !.page = f]
      /\ \A d \in Contexts, u \in UserPages :
           (d # c \/ u # v \/ w.pd[c][PdIndex(v)] = 0)
             => Translation(n, d, u) = Translation(m, d, u)
  BY <1>1, <1>1a, MapEffect
<1>4. \A d \in Contexts, u \in UserPages : Translation(w, d, u) = Translation(m, d, u)
  BY <1>1, WalkTranslates
<1>5. Translation(m, c, v) \in EntryType
  BY <1>1, EntryTypes
<1> HIDE DEF w, n
<1>6. /\ PageAt(n, c, v) \notin Managed /\ PageAt(m, c, v) \notin Managed
      /\ \A d \in Contexts, u \in UserPages : d # c \/ u # v =>
           PageAt(n, d, u) = PageAt(m, d, u) /\ PageAt(n, d, u) = PageAt(w, d, u)
  <2>1. PageAt(m, c, v) \notin Managed
    BY DEF Sound
  <2>2. CASE w.pd[c][PdIndex(v)] # 0
    BY <2>1, <2>2, <1>1, <1>3, <1>4, <1>5 DEF PageAt, EntryType
  <2>3. CASE w.pd[c][PdIndex(v)] = 0
    BY <2>1, <2>3, <1>3, <1>4 DEF PageAt
  <2>4. QED BY <2>2, <2>3
<1>7. PageAt(w, c, v) \notin Managed
  BY <1>4, <1>6 DEF PageAt
<1>8. \A g : IsTable(n, g) <=> IsTable(w, g)
  BY <1>3 DEF IsTable
<1>9. Sound(n, X)
  <2>1. \A d \in Contexts, u \in UserPages : PageAt(n, d, u) \in Managed =>
          /\ PageAt(n, d, u) \notin n.free /\ PageAt(n, d, u) \notin X
          /\ ~IsTable(n, PageAt(n, d, u))
          /\ Backed(d, u)
    BY <1>2, <1>3, <1>6, <1>8 DEF Sound
  <2>2. \A d, e \in Contexts : \A u, x \in UserPages :
          PageAt(n, d, u) \in Managed /\ PageAt(n, d, u) = PageAt(n, e, x) => d = e /\ u = x
    <3>1. TAKE d, e \in Contexts
    <3>2. TAKE u, x \in UserPages
    <3>3. HAVE PageAt(n, d, u) \in Managed /\ PageAt(n, d, u) = PageAt(n, e, x)
    <3>4. (d # c \/ u # v) /\ (e # c \/ x # v)
      BY <3>3, <1>6
    <3>5. QED BY <3>3, <3>4, <1>2, <1>6 DEF Sound
  <2>3. n.kused < NKernelPages =>
          \A g \in Managed : \/ g \in n.free \/ g \in X \/ IsTable(n, g)
                             \/ \E d \in Contexts, u \in UserPages : PageAt(n, d, u) = g
    <3>1. HAVE n.kused < NKernelPages
    <3>2. TAKE g \in Managed
    <3>3. \/ g \in w.free \/ g \in X \/ IsTable(w, g)
          \/ \E d \in Contexts, u \in UserPages : PageAt(w, d, u) = g
      BY <3>1, <1>2, <1>3 DEF Sound
    <3>4. CASE \E d \in Contexts, u \in UserPages : PageAt(w, d, u) = g
      <4>1. PICK d \in Contexts, u \in UserPages : PageAt(w, d, u) = g
        BY <3>4
      <4>2. PageAt(n, d, u) = g
        BY <4>1, <1>6, <1>7
      <4>3. QED BY <4>2
    <3>5. QED BY <3>3, <3>4, <1>3, <1>8
  <2>4. QED BY <1>2, <1>3, <2>1, <2>2, <2>3 DEF Sound
<1>10. Keeps(m, n)
  BY <1>6 DEF Keeps
<1>11. QED BY <1>9, <1>10 DEF n

-----------------------------------------------------------------------------
\* The call in progress is inside its region.
Calls ==
  /\ \/ Idling
     \/ job \in [region : Regions, pg_num : Nat] /\ job.pg_num <= job.region.n_pages
  /\ result \in [Regions -> {"none", "AS_SUCCESS", "AS_OOM", "fault"}]

IInv == Sound(mem, others) /\ Calls

LEMMA KeepsTrans ==
  ASSUME NEW m, NEW n, NEW k, Keeps(m, n), Keeps(n, k)
  PROVE  Keeps(m, k)
  BY DEF Keeps

\* The page of a turn, and what may be done with it.
LEMMA TurnPage ==
  ASSUME NoPageZero, Calls, NEW r \in Regions, Turn(r)
  PROVE  /\ r.pd \in Contexts /\ r.writable \in BOOLEAN /\ r.paddr \in Nat
         /\ Cur(r) \in UserPages /\ Cur(r) # 0 /\ Cur(r) \in PagesOf(r)
         /\ job.pg_num \in Nat /\ job.pg_num < r.n_pages
         /\ r.paddr = 0 => Backed(r.pd, Cur(r))
         /\ r.paddr # 0 => /\ ~Backed(r.pd, Cur(r))
                           /\ r.paddr + job.pg_num \in Device
                           /\ r.paddr + job.pg_num \in Frames
<1>1. /\ r.pd \in Contexts /\ r.writable \in BOOLEAN
      /\ r.start \in Nat /\ r.n_pages \in Nat /\ r.paddr \in Nat
      /\ PagesOf(r) \subseteq UserPages
      /\ r.paddr # 0 => r.paddr .. r.paddr + r.n_pages - 1 \subseteq Device
      /\ Device \subseteq Frames
  BY RegionMapAssumption
<1>2. job.region = r /\ job.pg_num < r.n_pages /\ job.pg_num \in Nat
  BY RegionMapAssumption DEF Turn, Busy, Calls, Idling, Idle
<1>3. Cur(r) \in PagesOf(r)
  BY <1>1, <1>2 DEF PagesOf, Cur
<1>4. Cur(r) # 0
  BY <1>3 DEF NoPageZero
<1>5. r.paddr = 0 => Backed(r.pd, Cur(r))
  BY <1>3 DEF Backed
<1>6. ASSUME r.paddr # 0
      PROVE  /\ ~Backed(r.pd, Cur(r))
             /\ r.paddr + job.pg_num \in Device /\ r.paddr + job.pg_num \in Frames
  <2>1. r.paddr + job.pg_num \in r.paddr .. r.paddr + r.n_pages - 1
    BY <1>1, <1>2
  <2>2. ASSUME NEW s \in Regions, s.pd = r.pd, s.paddr = 0, Cur(r) \in PagesOf(s)
        PROVE  FALSE
    <3>1. s # r
      BY <1>6, <2>2
    <3>2. PagesOf(s) \cap PagesOf(r) = {}
      BY <3>1, <2>2, RegionMapAssumption
    <3>3. QED BY <3>2, <2>2, <1>3
  <2>3. QED BY <2>1, <2>2, <1>1, <1>6 DEF Backed
<1>7. QED BY <1>1, <1>2, <1>3, <1>4, <1>5, <1>6

LEMMA CallReturns ==
  ASSUME Calls, NEW r \in Regions, NEW err \in {"AS_SUCCESS", "AS_OOM", "fault"}, Return(r, err)
  PROVE  Calls'
<1>1. job' = Idle /\ result' = [result EXCEPT ![r] = err]
  BY DEF Return
<1>2. result' \in [Regions -> {"none", "AS_SUCCESS", "AS_OOM", "fault"}]
  BY <1>1 DEF Calls
<1>3. job' = [region |-> NoRegion, pg_num |-> 0]
  BY <1>1 DEF Idle
<1>4. QED BY <1>2, <1>3 DEF Calls, Idling, Idle

LEMMA CallsOn ==
  ASSUME NoPageZero, Calls, NEW r \in Regions, Turn(r),
         Continue(r) \/ \E err \in {"AS_OOM", "fault"} : Return(r, err)
  PROVE  Calls'
<1>1. job.pg_num \in Nat /\ job.pg_num < r.n_pages /\ r.n_pages \in Nat
  BY TurnPage, RegionMapAssumption
<1>2. CASE Continue(r)
  BY <1>1, <1>2 DEF Continue, Calls, Idling, Idle
<1>3. CASE \E err \in {"AS_OOM", "fault"} : Return(r, err)
  BY <1>3, CallReturns
<1>4. QED BY <1>2, <1>3

\* The end of a turn.
LEMMA FlagsStep ==
  ASSUME NoPageZero, Calls, NEW r \in Regions, Turn(r),
         NEW m, Sound(m, others), SetFlagsAndContinue(r, m)
  PROVE  Sound(mem', others) /\ Keeps(m, mem') /\ Calls'
<1>1. r.pd \in Contexts /\ r.writable \in BOOLEAN /\ Cur(r) \in UserPages \ {0}
  BY TurnPage
<1>2. CASE /\ CanWalk(m)
           /\ mem' = i686_user_set_page_flags(m, r.pd, Cur(r), r.writable)
           /\ Continue(r)
  BY <1>1, <1>2, SoundFlags, CallsOn
<1>3. CASE /\ ~CanWalk(m)
           /\ mem' = i686_pagewalk_init(m)
           /\ Return(r, "fault")
  BY <1>3, SoundInit, CallsOn
<1>4. QED BY <1>2, <1>3 DEF SetFlagsAndContinue

\* i686_user_get_page
LEMMA GetPageStep ==
  ASSUME NEW m, NEW X, Sound(m, X), NEW c \in Contexts, NEW v \in UserPages
  PROVE  Sound(AfterGetPage(m, c, v), X) /\ Keeps(m, AfterGetPage(m, c, v))
  BY SoundWalk, SoundInit DEF AfterGetPage

\* A walk that leaves window pages has found a page table, or has made one of a
\* frame, if there was a frame.
LEMMA WalkFinds ==
  ASSUME NEW m \in MemoryType, NEW c \in Contexts, NEW v \in UserPages, CanWalk(m),
         m.pd[c][PdIndex(v)] # 0 \/ m.free # {} \/ Walk(m, c, v).free # {},
         CanWalk(Walk(m, c, v))
  PROVE  Walk(m, c, v).pd[c][PdIndex(v)] # 0
<1> DEFINE w == Walk(m, c, v)
           i == PdIndex(v)
           f == NextFree(m)
<1>1. w \in MemoryType /\ (WalkSame(m, w, c, v) \/ WalkLoses(m, w, c, v) \/ WalkAdds(m, w, c, v))
  BY WalkCases
<1>2. i \in 0 .. NPde - 1
  BY Indexes
<1> HIDE DEF w, i, f
<1>3. CASE WalkSame(m, w, c, v)
  BY <1>3 DEF WalkSame, w
<1>4. CASE WalkLoses(m, w, c, v)
  BY <1>4, PageTableAssumption DEF WalkLoses, CanWalk, w
<1>5. CASE WalkAdds(m, w, c, v)
  <2>1. f \in m.free /\ w.pd = [m.pd EXCEPT ![c] = [m.pd[c] EXCEPT ![i] = f]]
    BY <1>5 DEF WalkAdds, f, i
  <2>2. f # 0
    BY <2>1 DEF MemoryType, Frames
  <2>3. m.pd \in [Contexts -> [0 .. NPde - 1 -> 0 .. NFrames]] /\ m.pd[c] \in [0 .. NPde - 1 -> 0 .. NFrames]
    BY DEF MemoryType
  <2>4. w.pd[c] = [m.pd[c] EXCEPT ![i] = f]
    BY <2>1, <2>3
  <2>5. w.pd[c][i] = f
    BY <2>3, <2>4, <1>2
  <2>6. QED BY <2>2, <2>5 DEF w, i
<1>6. QED BY <1>1, <1>3, <1>4, <1>5

\* A page is fetched after a walk that failed: it cannot be entered.
FetchedInVain(m, n, X) ==
  /\ Sound(n, X) /\ Keeps(m, n) /\ ~CanWalk(n)
  /\ \A d \in Contexts, u \in UserPages : Translation(n, d, u) = Translation(m, d, u)

LEMMA FetchInVain ==
  ASSUME NEW m, NEW X, Sound(m, X), ~CanWalk(m), m.free # {},
         NEW c \in Contexts, NEW v \in UserPages
  PROVE  LET k == AfterGetPage(m, c, v)
         IN FetchedInVain(m, i686_user_map_page(page_alloc(k), c, v, NextFree(k)), X)
<1> DEFINE k == AfterGetPage(m, c, v)
           a == page_alloc(k)
           f == NextFree(k)
           n == i686_user_map_page(a, c, v, f)
<1>1. m \in MemoryType /\ NKernelPages \in Nat \ {0}
  BY PageTableAssumption DEF Sound
<1>2. k = i686_pagewalk_init(m)
  BY DEF AfterGetPage
<1>3. k.kused = NKernelPages /\ k.free = m.free /\ k.pd = m.pd /\ k.pt = m.pt /\ Sound(k, X)
  BY <1>1, <1>2, WalkInit, SoundInit
<1> HIDE DEF k
<1>4. /\ Sound(a, X \cup {f}) /\ a.kused = k.kused
      /\ \A d \in Contexts, u \in UserPages : Translation(a, d, u) = Translation(k, d, u)
  BY <1>3, SoundAlloc
<1> HIDE DEF a, f
<1>5. a \in MemoryType /\ ~CanWalk(a)
  BY <1>1, <1>3, <1>4 DEF Sound, CanWalk
<1>6. n = i686_pagewalk_init(a)
  BY <1>5 DEF i686_user_map_page
<1> HIDE DEF n
<1>7. n.kused = NKernelPages /\ n.pd = a.pd /\ n.pt = a.pt /\ Sound(n, X \cup {f})
  BY <1>4, <1>5, <1>6, WalkInit, SoundInit
<1>8. Sound(n, X)
  BY <1>7, SoundDrop
<1>9. ~CanWalk(n)
  BY <1>1, <1>7 DEF CanWalk
<1>10. \A d \in Contexts, u \in UserPages : Translation(n, d, u) = Translation(m, d, u)
  BY <1>3, <1>4, <1>7 DEF Translation
<1>11. Keeps(m, n)
  BY <1>10 DEF Keeps, PageAt
<1>12. FetchedInVain(m, n, X)
  BY <1>8, <1>9, <1>10, <1>11 DEF FetchedInVain
<1>13. QED BY <1>12 DEF n, a, f, k

\* A page is fetched and entered.
LEMMA FetchStep ==
  ASSUME NoPageZero, IInv, NEW r \in Regions, NeedsPage(r), CanWalk(mem),
         AfterGetPage(mem, r.pd, Cur(r)).free # {}
  PROVE  LET m == AfterGetPage(mem, r.pd, Cur(r))
             n == i686_user_map_page(page_alloc(m), r.pd, Cur(r), NextFree(m))
         IN Sound(n, others) /\ Keeps(mem, n)
<1> DEFINE c == r.pd
           v == Cur(r)
           w == Walk(mem, c, v)
           a == page_alloc(w)
           f == NextFree(w)
           n == i686_user_map_page(a, c, v, f)
<1>1. Sound(mem, others) /\ mem \in MemoryType /\ Calls /\ Turn(r) /\ CanWalk(mem) /\ r.paddr = 0
  BY DEF IInv, Sound, NeedsPage
<1>2. c \in Contexts /\ v \in UserPages \ {0} /\ Backed(c, v)
  BY <1>1, TurnPage
<1>3. AfterGetPage(mem, c, v) = w
  BY <1>1 DEF AfterGetPage
<1>4. Sound(w, others) /\ Keeps(mem, w) /\ w \in MemoryType
  <2>1. Sound(w, others) /\ Keeps(mem, w)
    BY <1>1, <1>2, SoundWalk
  <2>2. QED BY <2>1 DEF Sound
<1>5. Entry(w, c, v).page = 0 /\ w.free # {}
  BY <1>3 DEF NeedsPage, PageFound
<1> HIDE DEF c, v, w
<1>6. /\ f \notin others /\ Sound(a, others \cup {f}) /\ a.kused = w.kused /\ a.pd = w.pd
      /\ \A d \in Contexts, u \in UserPages : Translation(a, d, u) = Translation(w, d, u)
  BY <1>4, <1>5, SoundAlloc
<1> HIDE DEF a, f
<1>7. CanWalk(a) <=> CanWalk(w)
  BY <1>6 DEF CanWalk
<1>8. Keeps(w, a)
  BY <1>6 DEF Keeps, PageAt
<1>9. Sound(n, others) /\ Keeps(a, n)
  <2>1. CASE CanWalk(w)
    <3>1. w.pd[c][PdIndex(v)] # 0
      BY <2>1, <1>1, <1>2, <1>5, WalkFinds DEF w
    <3>2. PageAt(a, c, v) = 0
      BY <3>1, <1>2, <1>5, <1>6 DEF PageAt, Translation, Entry, Table
    <3>3. Sound(n, (others \cup {f}) \ {f}) /\ Keeps(a, n)
      BY <2>1, <3>1, <3>2, <1>2, <1>6, <1>7, SoundMap
    <3>4. (others \cup {f}) \ {f} = others
      BY <1>6
    <3>5. QED BY <3>3, <3>4
  <2>2. CASE ~CanWalk(w)
    <3>1. n = i686_pagewalk_init(a)
      BY <2>2, <1>7 DEF i686_user_map_page
    <3>2. Sound(n, others \cup {f}) /\ Keeps(a, n)
      BY <3>1, <1>6, SoundInit
    <3>3. n.kused = NKernelPages
      BY <3>1, <2>2, <1>6, <1>7, WalkInit DEF Sound
    <3>4. QED BY <3>2, <3>3, SoundDrop
  <2>3. QED BY <2>1, <2>2
<1>10. Keeps(mem, n)
  BY <1>4, <1>8, <1>9, KeepsTrans
<1>11. QED BY <1>3, <1>9, <1>10 DEF a, f, v, c, n

\* memory_region_map_exact
LEMMA ExactStep ==
  ASSUME NoPageZero, IInv, NEW r \in Regions, Turn(r), r.paddr # 0
  PROVE  LET n == i686_user_map_page(mem, r.pd, Cur(r), r.paddr + job.pg_num)
         IN Sound(n, others) /\ Keeps(mem, n)
<1>1. /\ r.pd \in Contexts /\ Cur(r) \in UserPages \ {0} /\ ~Backed(r.pd, Cur(r))
      /\ r.paddr + job.pg_num \in Device /\ r.paddr + job.pg_num \in Frames
  BY TurnPage DEF IInv
<1>2. Sound(mem, others)
  BY DEF IInv
<1>3. CASE CanWalk(mem)
  BY <1>1, <1>2, <1>3, SoundExact
<1>4. CASE ~CanWalk(mem)
  BY <1>2, <1>4, SoundInit DEF i686_user_map_page
<1>5. QED BY <1>3, <1>4

\* Every step keeps the invariant, and every allocated page.
LEMMA MemoryStep ==
  ASSUME NoPageZero, IInv, Next
  PROVE  IInv' /\ Keeps(mem, mem')
<1>1. Sound(mem, others) /\ Calls /\ NoRegion \notin Regions
  BY RegionMapAssumption DEF IInv
<1>2. Keeps(mem, mem)
  BY DEF Keeps
<1>3. ASSUME NEW r \in Regions, common_memory_region_map(r)
      PROVE  IInv' /\ Keeps(mem, mem')
  <2>1. mem' = mem /\ others' = others /\ result' = result /\ job' = [region |-> r, pg_num |-> 0]
    BY <1>3 DEF common_memory_region_map
  <2>2. r.n_pages \in Nat
    BY RegionMapAssumption
  <2>3. Calls'
    BY <1>1, <2>1, <2>2 DEF Calls
  <2>4. QED BY <1>1, <1>2, <2>1, <2>3 DEF IInv
<1>4. ASSUME NEW r \in Regions, Done(r)
      PROVE  IInv' /\ Keeps(mem, mem')
  <2>1. mem' = mem /\ others' = others
    BY <1>4 DEF Done
  <2>2. Calls'
    BY <1>1, <1>4, CallReturns DEF Done
  <2>3. QED BY <1>1, <1>2, <2>1, <2>2 DEF IInv
<1>5. ASSUME NEW r \in Regions, AllocateKeeps(r)
      PROVE  IInv' /\ Keeps(mem, mem')
  <2> DEFINE m == AfterGetPage(mem, r.pd, Cur(r))
  <2>1. Turn(r) /\ SetFlagsAndContinue(r, m) /\ others' = others
    BY <1>5 DEF AllocateKeeps
  <2>2. Sound(m, others) /\ Keeps(mem, m)
    BY <2>1, <1>1, TurnPage, GetPageStep
  <2> HIDE DEF m
  <2>3. Sound(mem', others) /\ Keeps(m, mem') /\ Calls'
    BY <2>1, <2>2, <1>1, FlagsStep
  <2>4. QED BY <2>1, <2>2, <2>3, KeepsTrans DEF IInv
<1>6. ASSUME NEW r \in Regions, AllocateFetches(r)
      PROVE  IInv' /\ Keeps(mem, mem')
  <2> DEFINE m == AfterGetPage(mem, r.pd, Cur(r))
             n == i686_user_map_page(page_alloc(m), r.pd, Cur(r), NextFree(m))
  <2>1. /\ NeedsPage(r) /\ Turn(r) /\ m.free # {}
        /\ SetFlagsAndContinue(r, n) /\ others' = others
    BY <1>6 DEF AllocateFetches, NeedsPage
  <2>2. Sound(n, others) /\ Keeps(mem, n)
    <3>1. CASE CanWalk(mem)
      BY <2>1, <3>1, FetchStep
    <3>2. CASE ~CanWalk(mem)
      <4>1. r.pd \in Contexts /\ Cur(r) \in UserPages /\ mem.free # {}
        BY <2>1, <3>2, <1>1, TurnPage, WalkInit DEF AfterGetPage, Sound
      <4>2. FetchedInVain(mem, n, others)
        BY <3>2, <4>1, <1>1, FetchInVain
      <4> HIDE DEF n, m
      <4>3. QED BY <4>2 DEF FetchedInVain
    <3>3. QED BY <3>1, <3>2
  <2> HIDE DEF n, m
  <2>3. Sound(mem', others) /\ Keeps(n, mem') /\ Calls'
    BY <2>1, <2>2, <1>1, FlagsStep
  <2>4. QED BY <2>1, <2>2, <2>3, KeepsTrans DEF IInv
<1>7. ASSUME NEW r \in Regions, AllocateFails(r)
      PROVE  IInv' /\ Keeps(mem, mem')
  <2>1. /\ Turn(r) /\ mem' = AfterGetPage(mem, r.pd, Cur(r))
        /\ Return(r, "AS_OOM") /\ others' = others
    BY <1>7 DEF AllocateFails, NeedsPage
  <2>2. Sound(mem', others) /\ Keeps(mem, mem')
    BY <2>1, <1>1, TurnPage, GetPageStep
  <2>3. Calls'
    BY <2>1, <1>1, CallsOn
  <2>4. QED BY <2>1, <2>2, <2>3 DEF IInv
<1>8. ASSUME NEW r \in Regions, Exact(r)
      PROVE  IInv' /\ Keeps(mem, mem')
  <2> DEFINE n == i686_user_map_page(mem, r.pd, Cur(r), r.paddr + job.pg_num)
  <2>1. Turn(r) /\ r.paddr # 0 /\ SetFlagsAndContinue(r, n) /\ others' = others
    BY <1>8 DEF Exact
  <2>2. Sound(n, others) /\ Keeps(mem, n)
    BY <2>1, ExactStep
  <2> HIDE DEF n
  <2>3. Sound(mem', others) /\ Keeps(n, mem') /\ Calls'
    BY <2>1, <2>2, <1>1, FlagsStep
  <2>4. QED BY <2>1, <2>2, <2>3, KeepsTrans DEF IInv
<1>9. ASSUME OthersTake
      PROVE  IInv' /\ Keeps(mem, mem')
  <2>1. /\ mem.free # {} /\ others' = others \cup {NextFree(mem)} /\ mem' = page_alloc(mem)
        /\ job' = job /\ result' = result
    BY <1>9 DEF OthersTake
  <2>2. /\ Sound(mem', others')
        /\ \A c \in Contexts, u \in UserPages : Translation(mem', c, u) = Translation(mem, c, u)
    BY <2>1, <1>1, SoundAlloc
  <2>3. Calls'
    BY <2>1, <1>1 DEF Calls, Idling
  <2>4. QED BY <2>2, <2>3 DEF IInv, Keeps, PageAt
<1>10. ASSUME NEW f \in others, OthersGive(f)
       PROVE  IInv' /\ Keeps(mem, mem')
  <2>1. /\ others' = others \ {f} /\ mem' = [mem EXCEPT !.free = @ \cup {f}]
        /\ job' = job /\ result' = result
    BY <1>10 DEF OthersGive
  <2>2. /\ Sound(mem', others')
        /\ \A c \in Contexts, u \in UserPages : Translation(mem', c, u) = Translation(mem, c, u)
    BY <2>1, <1>1, SoundFree
  <2>3. Calls'
    BY <2>1, <1>1 DEF Calls, Idling
  <2>4. QED BY <2>2, <2>3 DEF IInv, Keeps, PageAt
<1>11. ASSUME UNCHANGED vars
       PROVE  IInv' /\ Keeps(mem, mem')
  BY <1>1, <1>2, <1>11 DEF vars, IInv, Calls, Idling
<1>12. QED BY <1>3, <1>4, <1>5, <1>6, <1>7, <1>8, <1>9, <1>10, <1>11 DEF Next, Step

LEMMA MemoryInit == ASSUME Init PROVE IInv
<1>1. /\ {NKernelPages, NFrames, NPte, NPde} \subseteq Nat \ {0}
      /\ LowMemory \in [0 .. NPte - 1 -> EntryType]
  BY PageTableAssumption, RegionMapAssumption
<1>2. Leftover \in [0 .. NPte - 1 -> EntryType]
  BY <1>1 DEF Leftover, EntryType
<1> DEFINE pd0 == [c \in Contexts |-> [i \in 0 .. NPde - 1 |-> 0]]
           pt0 == [f \in 0 .. NFrames |-> IF f = 0 THEN LowMemory ELSE Leftover]
<1>3. mem.kused = 0 /\ mem.free = Managed /\ mem.pd = pd0 /\ mem.pt = pt0
  BY DEF Init
<1>4. /\ pd0 \in [Contexts -> [0 .. NPde - 1 -> 0 .. NFrames]]
      /\ pt0 \in [0 .. NFrames -> [0 .. NPte - 1 -> EntryType]]
      /\ \A c \in Contexts : \A i \in 0 .. NPde - 1 : pd0[c][i] = 0
  BY <1>1, <1>2
<1>5. mem \in MemoryType
  <2>1. 0 \in 0 .. NKernelPages /\ Managed \in SUBSET Frames
    BY <1>1 DEF Managed
  <2>2. QED BY <2>1, <1>4 DEF Init, MemoryType
<1> HIDE DEF pd0, pt0
<1>6. TablesApart(mem) /\ others = {}
  BY <1>3, <1>4, ManagedFrames DEF TablesApart, Init
<1>7. \A c \in Contexts, u \in UserPages : PageAt(mem, c, u) = 0
  BY <1>3, <1>4, Indexes DEF PageAt, Translation, NoEntry
<1>8. Sound(mem, others)
  <2>1. 0 \notin Managed
    BY ManagedFrames
  <2>2. QED BY <2>1, <1>3, <1>4, <1>5, <1>6, <1>7 DEF Sound
<1>9. Calls
  BY DEF Init, Calls, Idling
<1>10. QED BY <1>8, <1>9 DEF IInv

\* The invariant, for every number of frames, contexts and regions and every
\* size of the page tables: frames, page tables and pages keep apart, and the
\* loop of memory_region_map stays inside its region.
THEOREM Invariant ==
  ASSUME NoPageZero
  PROVE  Spec => []IInv
<1>1. Init => IInv
  BY MemoryInit
<1>2. IInv /\ [Next]_vars => IInv'
  <2>1. CASE IInv /\ Next
    BY <2>1, MemoryStep
  <2>2. CASE IInv /\ UNCHANGED vars
    BY <2>2 DEF vars, IInv, Calls, Idling
  <2>3. QED BY <2>1, <2>2
<1>3. QED BY <1>1, <1>2, PTL DEF Spec

\* The tables hold frames and the loop over the pages of a region ends where
\* the region does.
THEOREM TypeCorrect ==
  ASSUME NoPageZero
  PROVE  Spec => []TypeOK
<1>1. IInv => TypeOK
  <2> SUFFICES ASSUME IInv PROVE TypeOK
    OBVIOUS
  <2>1. mem \in MemoryType /\ others \subseteq Frames
    BY ManagedFrames DEF IInv, Sound
  <2>2. ASSUME NEW r \in Regions PROVE r.n_pages \in 0 .. Cardinality(UserPages)
    <3> DEFINE N == NPde * NPte
    <3>1. N \in Nat
      BY PageTableAssumption
    <3>2. r.start \in Nat /\ r.n_pages \in Nat /\ r.start .. r.start + r.n_pages - 1 \subseteq 0 .. N - 1
      BY RegionMapAssumption DEF PagesOf, UserPages
    <3> HIDE DEF N
    <3>3. Cardinality(0 .. N - 1) = N
      BY <3>1, FS_Interval
    <3>4. r.n_pages > 0 => r.start + r.n_pages - 1 \in 0 .. N - 1
      BY <3>2
    <3>5. r.n_pages <= N
      BY <3>1, <3>2, <3>4
    <3>6. QED BY <3>1, <3>2, <3>3, <3>5 DEF N, UserPages
  <2>3. Idling \/ job \in [region : Regions, pg_num : 0 .. Cardinality(UserPages)]
    <3>1. CASE Idling
      BY <3>1
    <3>2. CASE job \in [region : Regions, pg_num : Nat] /\ job.pg_num <= job.region.n_pages
      <4>1. job.region.n_pages \in 0 .. Cardinality(UserPages)
        BY <3>2, <2>2
      <4>2. Cardinality(UserPages) \in Nat
        <5> DEFINE N == NPde * NPte
        <5>1. N \in Nat
          BY PageTableAssumption
        <5> HIDE DEF N
        <5>2. IsFiniteSet(0 .. N - 1)
          BY <5>1, FS_Interval
        <5>3. Cardinality(0 .. N - 1) \in Nat
          BY <5>2, FS_CardinalityType
        <5>4. QED BY <5>3 DEF UserPages, N
      <4>3. job.pg_num \in 0 .. Cardinality(UserPages)
        BY <3>2, <4>1, <4>2
      <4>4. QED BY <3>2, <4>3
    <3>3. QED BY <3>1, <3>2 DEF IInv, Calls
  <2>4. QED BY <2>1, <2>3 DEF TypeOK, IInv, Calls
<1>2. QED BY <1>1, Invariant, PTL

\* Four sets that have nothing in common.
LEMMA FourSets ==
  ASSUME NEW A, NEW B, NEW C, NEW D, NEW S, IsFiniteSet(S), A \cup B \cup C \cup D = S,
         A \cap B = {}, A \cap C = {}, A \cap D = {}, B \cap C = {}, B \cap D = {}, C \cap D = {}
  PROVE  Cardinality(A) + Cardinality(B) + Cardinality(C) + Cardinality(D) = Cardinality(S)
<1>1. IsFiniteSet(A) /\ IsFiniteSet(B) /\ IsFiniteSet(C) /\ IsFiniteSet(D)
  <2>1. A \subseteq S /\ B \subseteq S /\ C \subseteq S /\ D \subseteq S
    OBVIOUS
  <2>2. QED BY <2>1, FS_Subset
<1>2. Cardinality(A \cup B) = Cardinality(A) + Cardinality(B) - Cardinality(A \cap B) /\ IsFiniteSet(A \cup B)
  BY <1>1, FS_Union
<1>3. /\ Cardinality((A \cup B) \cup C) = Cardinality(A \cup B) + Cardinality(C) - Cardinality((A \cup B) \cap C)
      /\ IsFiniteSet((A \cup B) \cup C)
  BY <1>1, <1>2, FS_Union
<1>4. Cardinality((A \cup B \cup C) \cup D)
        = Cardinality(A \cup B \cup C) + Cardinality(D) - Cardinality((A \cup B \cup C) \cap D)
  BY <1>1, <1>3, FS_Union
<1>5. A \cap B = {} /\ (A \cup B) \cap C = {} /\ (A \cup B \cup C) \cap D = {}
  OBVIOUS
<1>6. Cardinality({}) = 0
  BY FS_EmptySet
<1>7. /\ Cardinality(A) \in Nat /\ Cardinality(B) \in Nat
      /\ Cardinality(C) \in Nat /\ Cardinality(D) \in Nat
  BY <1>1, FS_CardinalityType
<1>8. /\ Cardinality(A \cap B) = 0 /\ Cardinality((A \cup B) \cap C) = 0
      /\ Cardinality((A \cup B \cup C) \cap D) = 0
  BY <1>5, <1>6, Zenon
<1> DEFINE a == Cardinality(A)
           b == Cardinality(B)
           c == Cardinality(C)
           d == Cardinality(D)
           ab == Cardinality(A \cup B)
           abc == Cardinality(A \cup B \cup C)
           abcd == Cardinality(A \cup B \cup C \cup D)
<1>9. ab = a + b - 0 /\ abc = ab + c - 0 /\ abcd = abc + d - 0
  BY <1>2, <1>3, <1>4, <1>8, Zenon
<1>10. abcd = Cardinality(S)
  BY Zenon
<1> HIDE DEF a, b, c, d, ab, abc, abcd
<1>11. a + b + c + d = abcd
  BY <1>7, <1>9 DEF a, b, c, d
<1>12. QED BY <1>10, <1>11 DEF a, b, c, d

\* While the kernel window lasts memory_region_map loses no frame and gives
\* none two uses, whichever calls failed half-way and were repeated.
THEOREM Conserved ==
  ASSUME NoPageZero
  PROVE  Spec => []FramesConserved
<1>1. IInv => FramesConserved
  <2> SUFFICES ASSUME IInv, mem.kused < NKernelPages
               PROVE  /\ \A s, t \in Tables : TableOf(s) = TableOf(t) => s = t
                      /\ \A s, t \in Mapped : FrameOf(s) = FrameOf(t) => s = t
                      /\ LET tables == {TableOf(s) : s \in Tables}
                             mapped == {FrameOf(s) : s \in Mapped}
                         IN /\ mem.free \cup tables \cup mapped \cup others = Managed
                            /\ Cardinality(mem.free) + Cardinality(tables) + Cardinality(mapped)
                                 + Cardinality(others) = Cardinality(Managed)
    BY DEF FramesConserved
  <2> DEFINE tables == {TableOf(s) : s \in Tables}
             mapped == {FrameOf(s) : s \in Mapped}
  <2>0. Sound(mem, others)
    BY DEF IInv
  <2>1. \A s \in Contexts \X (0 .. NPde - 1) : s[1] \in Contexts /\ s[2] \in 0 .. NPde - 1 /\ s = <<s[1], s[2]>>
    OBVIOUS
  <2>2. \A s \in Contexts \X UserPages : s[1] \in Contexts /\ s[2] \in UserPages /\ s = <<s[1], s[2]>>
    OBVIOUS
  <2>3. \A s, t \in Tables : TableOf(s) = TableOf(t) => s = t
    <3>1. TAKE s, t \in Tables
    <3>2. HAVE TableOf(s) = TableOf(t)
    <3>3. s[1] = t[1] /\ s[2] = t[2]
      BY <3>2, <2>0, <2>1 DEF Tables, TableOf, Sound, TablesApart
    <3>4. QED BY <3>3, <2>1 DEF Tables
  <2>4. \A s, t \in Mapped : FrameOf(s) = FrameOf(t) => s = t
    <3>1. TAKE s, t \in Mapped
    <3>2. HAVE FrameOf(s) = FrameOf(t)
    <3>3. s[1] = t[1] /\ s[2] = t[2]
      BY <3>2, <2>0, <2>2 DEF Mapped, FrameOf, Sound, PageAt
    <3>4. QED BY <3>3, <2>2 DEF Mapped
  <2>5. \A f : f \in tables <=> f # 0 /\ IsTable(mem, f)
    <3>1. TAKE f
    <3>2. ASSUME f \in tables PROVE f # 0 /\ IsTable(mem, f)
      BY <3>2, <2>1 DEF Tables, TableOf, IsTable
    <3>3. ASSUME f # 0, IsTable(mem, f) PROVE f \in tables
      <4>1. PICK c \in Contexts, i \in 0 .. NPde - 1 : mem.pd[c][i] = f
        BY <3>3 DEF IsTable
      <4>2. <<c, i>> \in Tables /\ TableOf(<<c, i>>) = f
        BY <4>1, <3>3 DEF Tables, TableOf
      <4>3. QED BY <4>2
    <3>4. QED BY <3>2, <3>3
  <2>6. \A f : f \in mapped <=> f \in Managed /\ \E c \in Contexts, u \in UserPages : PageAt(mem, c, u) = f
    <3>1. TAKE f
    <3>2. ASSUME f \in mapped
          PROVE  f \in Managed /\ \E c \in Contexts, u \in UserPages : PageAt(mem, c, u) = f
      BY <3>2, <2>2 DEF Mapped, FrameOf, PageAt
    <3>3. ASSUME f \in Managed, NEW c \in Contexts, NEW u \in UserPages, PageAt(mem, c, u) = f
          PROVE  f \in mapped
      <4>1. <<c, u>> \in Mapped /\ FrameOf(<<c, u>>) = f
        BY <3>3 DEF Mapped, FrameOf, PageAt
      <4>2. QED BY <4>1
    <3>4. QED BY <3>2, <3>3
  <2> HIDE DEF tables, mapped
  <2>7. tables \subseteq Managed /\ tables \cap mem.free = {} /\ tables \cap others = {}
    BY <2>0, <2>5 DEF IsTable, Sound, TablesApart
  <2>8. /\ mapped \subseteq Managed /\ mapped \cap mem.free = {} /\ mapped \cap others = {}
        /\ mapped \cap tables = {}
    BY <2>0, <2>5, <2>6 DEF Sound
  <2>9. mem.free \cup tables \cup mapped \cup others = Managed
    <3>1. mem.free \subseteq Managed /\ others \subseteq Managed
      BY <2>0 DEF Sound
    <3>2. \A f \in Managed : \/ f \in mem.free \/ f \in others \/ f \in tables \/ f \in mapped
      BY <2>0, <2>5, <2>6, ManagedFrames DEF Sound
    <3>3. QED BY <3>1, <3>2, <2>7, <2>8
  <2>10. IsFiniteSet(Managed)
    <3>1. IsFiniteSet(Frames)
      BY FS_Interval, PageTableAssumption DEF Frames
    <3>2. QED BY <3>1, FS_Subset DEF Managed
  <2>11. mem.free \cap others = {}
    BY <2>0 DEF Sound
  <2>12. Cardinality(mem.free) + Cardinality(tables) + Cardinality(mapped) + Cardinality(others)
           = Cardinality(Managed)
    BY <2>7, <2>8, <2>9, <2>10, <2>11, FourSets
  <2>13. QED BY <2>3, <2>4, <2>9, <2>12 DEF tables, mapped
<1>2. QED BY <1>1, Invariant, PTL

\* No step of any call takes an allocated page from its address.
THEOREM Stay ==
  ASSUME NoPageZero
  PROVE  Spec => PagesStay
<1>1. IInv /\ [Next]_vars =>
        [\A slot \in Mapped : Translation(mem', slot[1], slot[2]).page = FrameOf(slot)]_vars
  <2> SUFFICES ASSUME IInv, Next
               PROVE  \A slot \in Mapped : Translation(mem', slot[1], slot[2]).page = FrameOf(slot)
    BY DEF vars
  <2>1. Keeps(mem, mem')
    BY MemoryStep
  <2>2. TAKE slot \in Mapped
  <2>3. slot[1] \in Contexts /\ slot[2] \in UserPages /\ PageAt(mem, slot[1], slot[2]) \in Managed
    BY DEF Mapped, FrameOf, PageAt
  <2>4. PageAt(mem', slot[1], slot[2]) = PageAt(mem, slot[1], slot[2])
    BY <2>1, <2>3 DEF Keeps
  <2>5. QED BY <2>4 DEF PageAt, FrameOf
<1>2. QED BY <1>1, Invariant, PTL DEF Spec, PagesStay

-----------------------------------------------------------------------------
\* Page number n of region r is as SuccessMeansMapped wants it.
Usable(m, r, n) ==
  LET e == Translation(m, r.pd, r.start + n)
  IN /\ e.present /\ e.writable = r.writable
     /\ IF r.paddr = 0 THEN e.page # 0 ELSE e.page = r.paddr + n

\* The invariant, as long as physical page 0 is not taken for a page table:
\* what earlier calls have reported and what this one has done is usable.
SInv ==
  /\ \A r \in Regions : result[r] = "AS_SUCCESS" => \A n \in 0 .. r.n_pages - 1 : Usable(mem, r, n)
  /\ \A r \in Regions : Busy(r) => \A n \in 0 .. job.pg_num - 1 : Usable(mem, r, n)

\* The processor sees a change at one page only.
Elsewhere(m, n, c, v) ==
  \A d \in Contexts, u \in UserPages : d # c \/ u # v => Translation(n, d, u) = Translation(m, d, u)

LEMMA ElsewhereTrans ==
  ASSUME NEW m, NEW n, NEW k, NEW c, NEW v, Elsewhere(m, n, c, v), Elsewhere(n, k, c, v)
  PROVE  Elsewhere(m, k, c, v)
  BY DEF Elsewhere

LEMMA ElsewhereWalk ==
  ASSUME NEW m \in MemoryType, TablesApart(m), NEW c \in Contexts, NEW v \in UserPages, CanWalk(m)
  PROVE  Elsewhere(m, Walk(m, c, v), c, v)
  BY WalkTranslates DEF Elsewhere

LEMMA ElsewhereInit ==
  ASSUME NEW m \in MemoryType, NEW c \in Contexts, NEW v \in UserPages
  PROVE  Elsewhere(m, i686_pagewalk_init(m), c, v)
<1> DEFINE k == i686_pagewalk_init(m)
<1>1. k.pd = m.pd /\ k.pt = m.pt
  BY WalkInit
<1> HIDE DEF k
<1>2. QED BY <1>1 DEF Elsewhere, Translation, k

\* i686_user_get_page, whether its walk can be made or not.
LEMMA ElsewhereGet ==
  ASSUME NEW m \in MemoryType, TablesApart(m), NEW c \in Contexts, NEW v \in UserPages
  PROVE  Elsewhere(m, AfterGetPage(m, c, v), c, v)
<1>1. CASE CanWalk(m)
  BY <1>1, ElsewhereWalk DEF AfterGetPage
<1>2. CASE ~CanWalk(m)
  BY <1>2, ElsewhereInit DEF AfterGetPage
<1>3. QED BY <1>1, <1>2

LEMMA ElsewhereFlags ==
  ASSUME NEW m \in MemoryType, TablesApart(m), NEW c \in Contexts, NEW v \in UserPages \ {0},
         NEW writable \in BOOLEAN, CanWalk(m)
  PROVE  LET n == i686_user_set_page_flags(m, c, v, writable)
         IN /\ Elsewhere(m, n, c, v)
            /\ m.pd[c][PdIndex(v)] # 0 =>
                 /\ Translation(n, c, v).present /\ Translation(n, c, v).writable = writable
                 /\ Translation(n, c, v).page = Translation(m, c, v).page
<1> DEFINE n == i686_user_set_page_flags(m, c, v, writable)
           t == Walk(m, c, v).pd[c][PdIndex(v)]
           old == Translation(m, c, v).page
<1>1. /\ t # 0 => Translation(n, c, v) = [page |-> old, present |-> TRUE, writable |-> writable]
      /\ \A d \in Contexts, u \in UserPages : d # c \/ u # v => Translation(n, d, u) = Translation(m, d, u)
  BY FlagsEffect
<1>2. m.pd[c][PdIndex(v)] # 0 => t # 0
  BY WalkTable
<1> HIDE DEF n, t, old
<1>3. ASSUME m.pd[c][PdIndex(v)] # 0
      PROVE  /\ Translation(n, c, v).present /\ Translation(n, c, v).writable = writable
             /\ Translation(n, c, v).page = old
  <2>1. Translation(n, c, v) = [page |-> old, present |-> TRUE, writable |-> writable]
    BY <1>1, <1>2, <1>3
  <2>2. QED BY <2>1
<1>4. QED BY <1>1, <1>3 DEF Elsewhere, n, old

\* A page that was usable stays so when another one changes: regions do not
\* share addresses.
LEMMA UsableElsewhere ==
  ASSUME NoPageZero, Calls, NEW r \in Regions, Turn(r), NEW m, NEW n,
         Elsewhere(m, n, r.pd, Cur(r)),
         NEW s \in Regions, NEW k \in 0 .. s.n_pages - 1, s # r \/ k # job.pg_num,
         Usable(m, s, k)
  PROVE  Usable(n, s, k)
<1> DEFINE u == s.start + k
           v == Cur(r)
<1>1. /\ r.pd \in Contexts /\ v \in UserPages /\ v \in PagesOf(r)
      /\ job.pg_num \in Nat /\ job.pg_num < r.n_pages
  BY TurnPage
<1>2. s.start \in Nat /\ s.n_pages \in Nat /\ r.start \in Nat /\ r.n_pages \in Nat
  BY RegionMapAssumption
<1>3. s.pd \in Contexts /\ u \in PagesOf(s) /\ u \in UserPages
  <2>1. u \in PagesOf(s)
    BY <1>2 DEF PagesOf
  <2>2. QED BY <2>1, RegionMapAssumption
<1>4. s.pd # r.pd \/ u # v
  <2>1. CASE s = r
    BY <2>1, <1>1, <1>2 DEF Cur
  <2>2. CASE s # r /\ s.pd = r.pd
    <3>1. PagesOf(s) \cap PagesOf(r) = {}
      BY <2>2, RegionMapAssumption
    <3>2. QED BY <3>1, <1>1, <1>3
  <2>3. QED BY <2>1, <2>2
<1>5. Translation(n, s.pd, u) = Translation(m, s.pd, u)
  BY <1>3, <1>4 DEF Elsewhere
<1>6. QED BY <1>5 DEF Usable

\* A turn that went well ...
LEMMA TurnSucceeds ==
  ASSUME NoPageZero, IInv, SInv, NEW r \in Regions, Turn(r), Continue(r),
         Elsewhere(mem, mem', r.pd, Cur(r)), Usable(mem', r, job.pg_num)
  PROVE  SInv'
<1>1. Calls /\ job.pg_num \in Nat /\ job.region = r
  BY TurnPage DEF IInv, Turn, Busy
<1>2. job' = [region |-> r, pg_num |-> job.pg_num + 1] /\ result' = result
  BY DEF Continue
<1>3. ASSUME NEW s \in Regions, NEW k \in 0 .. s.n_pages - 1, Usable(mem, s, k)
      PROVE  Usable(mem', s, k)
  <2>1. CASE s = r /\ k = job.pg_num
    BY <2>1
  <2>2. CASE s # r \/ k # job.pg_num
    BY <2>2, <1>1, <1>3, UsableElsewhere
  <2>3. QED BY <2>1, <2>2
<1>4. \A s \in Regions : result'[s] = "AS_SUCCESS" => \A k \in 0 .. s.n_pages - 1 : Usable(mem', s, k)
  BY <1>2, <1>3 DEF SInv
<1>5. ASSUME NEW s \in Regions, job'.region = s, NEW k \in 0 .. job'.pg_num - 1
      PROVE  Usable(mem', s, k)
  <2>1. s = r /\ k \in 0 .. job.pg_num /\ r.n_pages \in Nat /\ job.pg_num < r.n_pages
    BY <1>1, <1>2, <1>5, RegionMapAssumption DEF Turn
  <2>2. CASE k = job.pg_num
    BY <2>1, <2>2
  <2>3. CASE k # job.pg_num
    <3>1. k \in 0 .. job.pg_num - 1 /\ k \in 0 .. r.n_pages - 1
      BY <2>1, <2>3, <1>1
    <3>2. Usable(mem, r, k)
      BY <3>1, <1>1 DEF SInv, Busy
    <3>3. QED BY <3>1, <3>2, <2>1, <1>3
  <2>4. QED BY <2>2, <2>3
<1>6. QED BY <1>4, <1>5 DEF SInv, Busy

\* ... and one that did not.
LEMMA TurnFails ==
  ASSUME NoPageZero, IInv, SInv, NEW r \in Regions, Turn(r),
         NEW err \in {"AS_OOM", "fault"}, Return(r, err),
         Elsewhere(mem, mem', r.pd, Cur(r))
  PROVE  SInv'
<1>1. Calls /\ result \in [Regions -> {"none", "AS_SUCCESS", "AS_OOM", "fault"}]
  BY DEF IInv, Calls
<1>2. job' = [region |-> NoRegion, pg_num |-> 0] /\ result' = [result EXCEPT ![r] = err]
  BY DEF Return, Idle
<1>3. ASSUME NEW s \in Regions, result'[s] = "AS_SUCCESS", NEW k \in 0 .. s.n_pages - 1
      PROVE  Usable(mem', s, k)
  <2>1. s # r /\ result[s] = "AS_SUCCESS"
    BY <1>1, <1>2, <1>3
  <2>2. Usable(mem, s, k)
    BY <2>1 DEF SInv
  <2>3. QED BY <2>1, <2>2, <1>1, UsableElsewhere
<1>4. \A s \in Regions : job'.region # s
  BY <1>2, RegionMapAssumption
<1>5. QED BY <1>3, <1>4 DEF SInv, Busy

\* The end of a turn, if the page is entered by then.
LEMMA FlagsUsable ==
  ASSUME NoPageZero, IInv, SInv, NEW r \in Regions, Turn(r),
         NEW m \in MemoryType, TablesApart(m), SetFlagsAndContinue(r, m),
         Elsewhere(mem, m, r.pd, Cur(r)),
         CanWalk(m) => /\ m.pd[r.pd][PdIndex(Cur(r))] # 0
                       /\ LET p == PageAt(m, r.pd, Cur(r))
                          IN IF r.paddr = 0 THEN p # 0 ELSE p = r.paddr + job.pg_num
  PROVE  SInv'
<1> DEFINE c == r.pd
           v == Cur(r)
<1>1. c \in Contexts /\ r.writable \in BOOLEAN /\ v \in UserPages \ {0} /\ v = r.start + job.pg_num
  BY TurnPage DEF IInv, Cur
<1>2. CASE /\ CanWalk(m)
           /\ mem' = i686_user_set_page_flags(m, c, v, r.writable)
           /\ Continue(r)
  <2>1. /\ Elsewhere(m, mem', c, v)
        /\ m.pd[c][PdIndex(v)] # 0 =>
             /\ Translation(mem', c, v).present /\ Translation(mem', c, v).writable = r.writable
             /\ Translation(mem', c, v).page = Translation(m, c, v).page
    BY <1>1, <1>2, ElsewhereFlags
  <2>2. Elsewhere(mem, mem', c, v)
    BY <2>1, ElsewhereTrans
  <2>3. Usable(mem', r, job.pg_num)
    <3>1. IF r.paddr = 0 THEN Translation(m, c, v).page # 0
                         ELSE Translation(m, c, v).page = r.paddr + job.pg_num
      BY <1>2 DEF PageAt
    <3>2. QED BY <3>1, <1>2, <2>1, <1>1 DEF Usable
  <2>4. QED BY <2>2, <2>3, <1>2, TurnSucceeds
<1>3. CASE /\ ~CanWalk(m)
           /\ mem' = i686_pagewalk_init(m)
           /\ Return(r, "fault")
  <2>1. Elsewhere(m, mem', c, v)
    BY <1>1, <1>3, ElsewhereInit
  <2>2. Elsewhere(mem, mem', c, v)
    BY <2>1, ElsewhereTrans
  <2>3. QED BY <2>2, <1>3, TurnFails
<1>4. QED BY <1>2, <1>3 DEF SetFlagsAndContinue

\* After a walk that failed there is no other.
LEMMA NoMoreWalks ==
  ASSUME NEW m \in MemoryType, ~CanWalk(m)
  PROVE  ~CanWalk(i686_pagewalk_init(m))
<1>1. i686_pagewalk_init(m).kused = NKernelPages
  BY WalkInit
<1>2. QED BY <1>1, PageTableAssumption DEF CanWalk

\* The page that is there already was not read in physical page 0: there a walk
\* that found no page table would have read 0.
LEMMA KeepsUsable ==
  ASSUME NoPageZero, IInv, SInv, PageZeroNotTaken, NEW r \in Regions, AllocateKeeps(r)
  PROVE  SInv'
<1> DEFINE c == r.pd
           v == Cur(r)
           m == AfterGetPage(mem, c, v)
           w == Walk(mem, c, v)
<1>1. /\ Turn(r) /\ r.paddr = 0 /\ SetFlagsAndContinue(r, m)
      /\ ~CanWalk(mem) \/ PageFound(mem, c, v) # 0
  BY DEF AllocateKeeps
<1>2. c \in Contexts /\ v \in UserPages \ {0}
  BY <1>1, TurnPage DEF IInv
<1>3. mem \in MemoryType /\ TablesApart(mem) /\ Sound(mem, others)
  BY DEF IInv, Sound
<1>4. m \in MemoryType /\ TablesApart(m)
  <2>1. Sound(m, others)
    BY <1>2, <1>3, GetPageStep
  <2>2. QED BY <2>1 DEF Sound
<1>5. Elsewhere(mem, m, c, v)
  BY <1>2, <1>3, ElsewhereGet
<1>6. CASE CanWalk(mem)
  <2>1. m = w
    BY <1>6 DEF AfterGetPage
  <2>2. Entry(w, c, v).page # 0 /\ Entry(w, c, v) = w.pt[w.pd[c][PdIndex(v)]][PtIndex(v)]
    BY <1>1, <1>2, <1>6 DEF PageFound, Entry, Table
  <2>3. w.pt[0] = mem.pt[0]
    BY <1>2, <1>3, <1>6, WalkTranslates
  <2>4. \/ mem.pd[c][PdIndex(v)] # 0 \/ mem.free # {}
        \/ mem.pt[0][PtIndex(v)].page = 0
    BY <1>1 DEF PageZeroNotTaken
  <2>5. CASE CanWalk(w)
    <3>1. w.pd[c][PdIndex(v)] # 0
      <4>1. CASE mem.pd[c][PdIndex(v)] # 0 \/ mem.free # {}
        BY <4>1, <1>2, <1>3, <1>6, <2>5, WalkFinds
      <4>2. CASE mem.pt[0][PtIndex(v)].page = 0
        BY <4>2, <2>2, <2>3
      <4>3. QED BY <2>4, <4>1, <4>2
    <3> HIDE DEF m, w
    <3>2. PageAt(w, c, v) # 0
      BY <3>1, <2>2 DEF PageAt, Translation
    <3>3. QED BY <1>1, <1>4, <1>5, <2>1, <3>1, <3>2, FlagsUsable
  <2>6. CASE ~CanWalk(w)
    <3> HIDE DEF m, w
    <3>1. QED BY <1>1, <1>4, <1>5, <2>1, <2>6, FlagsUsable
  <2>7. QED BY <2>5, <2>6
<1>7. CASE ~CanWalk(mem)
  <2>1. ~CanWalk(m)
    BY <1>3, <1>7, NoMoreWalks DEF AfterGetPage
  <2> HIDE DEF m
  <2>2. QED BY <1>1, <1>4, <1>5, <2>1, FlagsUsable
<1>8. QED BY <1>6, <1>7

LEMMA FetchUsable ==
  ASSUME NoPageZero, IInv, SInv, NEW r \in Regions, AllocateFetches(r), CanWalk(mem)
  PROVE  SInv'
<1> DEFINE c == r.pd
           v == Cur(r)
           w == Walk(mem, c, v)
           a == page_alloc(w)
           f == NextFree(w)
           n == i686_user_map_page(a, c, v, f)
<1>1. Turn(r) /\ r.paddr = 0 /\ NeedsPage(r)
  BY DEF AllocateFetches, NeedsPage
<1>2. AfterGetPage(mem, c, v) = w
  BY <1>1 DEF AfterGetPage
<1>3. w.free # {} /\ SetFlagsAndContinue(r, n)
  BY <1>2 DEF AllocateFetches
<1>4. c \in Contexts /\ v \in UserPages \ {0}
  BY <1>1, TurnPage DEF IInv
<1>5. mem \in MemoryType /\ TablesApart(mem) /\ Sound(mem, others)
  BY DEF IInv, Sound
<1>6. Elsewhere(mem, w, c, v) /\ Sound(w, others)
  BY <1>1, <1>4, <1>5, ElsewhereWalk, SoundWalk
<1>7. n \in MemoryType /\ TablesApart(n)
  <2>1. Sound(n, others)
    BY <1>1, <1>2, <1>3, FetchStep
  <2>2. QED BY <2>1 DEF Sound
<1>8. CanWalk(w) => w.pd[c][PdIndex(v)] # 0
  BY <1>1, <1>3, <1>4, <1>5, WalkFinds
<1> HIDE DEF c, v, w
<1>9. /\ f \in Managed /\ Sound(a, others \cup {f}) /\ a.kused = w.kused /\ a.pd = w.pd
      /\ \A d \in Contexts, u \in UserPages : Translation(a, d, u) = Translation(w, d, u)
  BY <1>3, <1>6, SoundAlloc
<1>10. f \in 0 .. NFrames /\ f # 0
  BY <1>9, ManagedFrames, PageTableAssumption DEF Frames
<1> HIDE DEF a, f
<1>11. a \in MemoryType /\ TablesApart(a)
  BY <1>9 DEF Sound
<1>12. (CanWalk(a) <=> CanWalk(w)) /\ Elsewhere(w, a, c, v)
  BY <1>9 DEF CanWalk, Elsewhere
<1>13. Elsewhere(mem, a, c, v)
  BY <1>6, <1>12, ElsewhereTrans
<1>14. CASE CanWalk(w)
  <2>1. a.pd[c][PdIndex(v)] # 0
    BY <1>8, <1>9, <1>14
  <2>2. Walk(a, c, v).pd[c][PdIndex(v)] # 0
    BY <2>1, <1>4, <1>11, <1>12, <1>14, WalkTable
  <2>3. /\ n.pd = Walk(a, c, v).pd
        /\ Translation(n, c, v) = [Translation(a, c, v) EXCEPT !.page = f]
        /\ \A d \in Contexts, u \in UserPages : d # c \/ u # v => Translation(n, d, u) = Translation(a, d, u)
    BY <2>2, <1>4, <1>10, <1>11, <1>12, <1>14, MapEffect
  <2>4. Translation(a, c, v) \in EntryType
    BY <1>4, <1>11, EntryTypes
  <2>5. PageAt(n, c, v) # 0 /\ n.pd[c][PdIndex(v)] # 0
    BY <2>2, <2>3, <2>4, <1>10 DEF PageAt, EntryType
  <2>6. Elsewhere(mem, n, c, v)
    BY <2>3, <1>13 DEF Elsewhere
  <2> HIDE DEF n
  <2>7. QED BY <1>1, <1>3, <1>7, <2>5, <2>6, FlagsUsable DEF c, v
<1>15. CASE ~CanWalk(w)
  <2>1. n = i686_pagewalk_init(a)
    BY <1>12, <1>15 DEF i686_user_map_page
  <2>2. Elsewhere(a, n, c, v) /\ ~CanWalk(n)
    BY <2>1, <1>4, <1>11, <1>12, <1>15, ElsewhereInit, NoMoreWalks
  <2>3. Elsewhere(mem, n, c, v)
    BY <2>2, <1>13, ElsewhereTrans
  <2> HIDE DEF n
  <2>4. QED BY <1>1, <1>3, <1>7, <2>2, <2>3, FlagsUsable DEF c, v
<1>16. QED BY <1>14, <1>15

\* A page that was fetched after a walk that failed changes nothing.
LEMMA VainUsable ==
  ASSUME NoPageZero, IInv, SInv, NEW r \in Regions, AllocateFetches(r), ~CanWalk(mem)
  PROVE  SInv'
<1> DEFINE c == r.pd
           v == Cur(r)
           m == AfterGetPage(mem, c, v)
           n == i686_user_map_page(page_alloc(m), c, v, NextFree(m))
<1>1. Turn(r) /\ m.free # {} /\ SetFlagsAndContinue(r, n) /\ Sound(mem, others)
  BY DEF AllocateFetches, NeedsPage, IInv
<1>2. c \in Contexts /\ v \in UserPages /\ mem.free # {}
  BY <1>1, TurnPage, WalkInit DEF IInv, Sound, AfterGetPage
<1>3. FetchedInVain(mem, n, others)
  BY <1>1, <1>2, FetchInVain
<1> HIDE DEF n, m
<1>4. n \in MemoryType /\ TablesApart(n) /\ ~CanWalk(n) /\ Elsewhere(mem, n, c, v)
  BY <1>3 DEF FetchedInVain, Sound, Elsewhere
<1>5. QED BY <1>1, <1>4, FlagsUsable

\* A named frame is entered in a page table: there is one, or a frame to make
\* one of.
LEMMA ExactUsable ==
  ASSUME NoPageZero, IInv, SInv, PageZeroNotTaken, NEW r \in Regions, Exact(r)
  PROVE  SInv'
<1> DEFINE c == r.pd
           v == Cur(r)
           f == r.paddr + job.pg_num
           w == Walk(mem, c, v)
           n == i686_user_map_page(mem, c, v, f)
<1>1. Turn(r) /\ r.paddr # 0 /\ SetFlagsAndContinue(r, n)
  BY DEF Exact
<1>2. c \in Contexts /\ v \in UserPages \ {0} /\ f \in Frames
  BY <1>1, TurnPage DEF IInv
<1>3. f \in 0 .. NFrames
  BY <1>2, PageTableAssumption DEF Frames
<1>4. mem \in MemoryType /\ TablesApart(mem)
  BY DEF IInv, Sound
<1>5. n \in MemoryType /\ TablesApart(n)
  <2>1. Sound(n, others)
    BY <1>1, ExactStep
  <2>2. QED BY <2>1 DEF Sound
<1>6. mem.pd[c][PdIndex(v)] # 0 \/ mem.free # {}
  BY <1>1 DEF PageZeroNotTaken
<1>7. CASE CanWalk(mem)
  <2>1. /\ n.pd = w.pd /\ n.kused = w.kused
        /\ w.pd[c][PdIndex(v)] # 0 => Translation(n, c, v) = [Translation(mem, c, v) EXCEPT !.page = f]
        /\ \A d \in Contexts, u \in UserPages : d # c \/ u # v => Translation(n, d, u) = Translation(mem, d, u)
    BY <1>2, <1>3, <1>4, <1>7, MapEffect
  <2>2. Translation(mem, c, v) \in EntryType
    BY <1>2, <1>4, EntryTypes
  <2>3. CanWalk(w) => w.pd[c][PdIndex(v)] # 0
    BY <1>2, <1>4, <1>6, <1>7, WalkFinds
  <2> HIDE DEF w, n
  <2>4. Elsewhere(mem, n, c, v)
    BY <2>1 DEF Elsewhere
  <2>5. CanWalk(n) => PageAt(n, c, v) = f /\ n.pd[c][PdIndex(v)] # 0
    BY <2>1, <2>2, <2>3 DEF PageAt, EntryType, CanWalk
  <2>6. QED BY <2>4, <2>5, <1>1, <1>5, FlagsUsable
<1>8. CASE ~CanWalk(mem)
  <2>1. n = i686_pagewalk_init(mem)
    BY <1>8 DEF i686_user_map_page
  <2>2. Elsewhere(mem, n, c, v) /\ ~CanWalk(n)
    BY <2>1, <1>2, <1>4, <1>8, ElsewhereInit, NoMoreWalks
  <2> HIDE DEF n
  <2>3. QED BY <1>1, <1>5, <2>2, FlagsUsable
<1>9. QED BY <1>7, <1>8

LEMMA FailsUsable ==
  ASSUME NoPageZero, IInv, SInv, NEW r \in Regions, AllocateFails(r)
  PROVE  SInv'
<1>1. /\ Turn(r) /\ mem' = AfterGetPage(mem, r.pd, Cur(r)) /\ Return(r, "AS_OOM")
  BY DEF AllocateFails, NeedsPage
<1>2. r.pd \in Contexts /\ Cur(r) \in UserPages
  BY <1>1, TurnPage DEF IInv
<1>3. mem \in MemoryType /\ TablesApart(mem)
  BY DEF IInv, Sound
<1>4. Elsewhere(mem, mem', r.pd, Cur(r))
  BY <1>1, <1>2, <1>3, ElsewhereGet
<1>5. QED BY <1>1, <1>4, TurnFails

\* The rest of the kernel touches no page table.
LEMMA OthersUsable ==
  ASSUME IInv, SInv, mem'.pd = mem.pd, mem'.pt = mem.pt, job' = job, result' = result
  PROVE  SInv'
<1>1. \A c, u : Translation(mem', c, u) = Translation(mem, c, u)
  BY DEF Translation
<1>2. \A r, n : Usable(mem', r, n) <=> Usable(mem, r, n)
  BY <1>1 DEF Usable
<1>3. QED BY <1>2 DEF SInv, Busy

LEMMA UsableStep ==
  ASSUME NoPageZero, IInv, SInv, PageZeroNotTaken, Next
  PROVE  SInv'
<1>1. ASSUME NEW r \in Regions, common_memory_region_map(r) PROVE SInv'
  <2>1. mem' = mem /\ result' = result /\ job' = [region |-> r, pg_num |-> 0]
    BY <1>1 DEF common_memory_region_map
  <2>2. \A n : n \notin 0 .. job'.pg_num - 1
    BY <2>1
  <2>3. QED BY <2>1, <2>2 DEF SInv, Busy
<1>2. ASSUME NEW r \in Regions, Done(r) PROVE SInv'
  <2>1. /\ mem' = mem /\ job.region = r /\ job.pg_num = r.n_pages
        /\ job' = [region |-> NoRegion, pg_num |-> 0]
        /\ result' = [result EXCEPT ![r] = "AS_SUCCESS"]
    BY <1>2 DEF Done, Return, Idle, Busy
  <2>2. \A s \in Regions : job'.region # s
    BY <2>1, RegionMapAssumption
  <2>3. \A n \in 0 .. r.n_pages - 1 : Usable(mem, r, n)
    BY <2>1 DEF SInv, Busy
  <2>4. result \in [Regions -> {"none", "AS_SUCCESS", "AS_OOM", "fault"}]
    BY DEF IInv, Calls
  <2>5. ASSUME NEW s \in Regions, result'[s] = "AS_SUCCESS", NEW n \in 0 .. s.n_pages - 1
        PROVE  Usable(mem', s, n)
    <3>1. CASE s = r
      BY <3>1, <2>1, <2>3, <2>5
    <3>2. CASE s # r
      BY <3>2, <2>1, <2>4, <2>5 DEF SInv
    <3>3. QED BY <3>1, <3>2
  <2>6. QED BY <2>1, <2>2, <2>5 DEF SInv, Busy
<1>3. ASSUME OthersTake PROVE SInv'
  <2>1. mem.free # {} /\ mem' = page_alloc(mem) /\ job' = job /\ result' = result
    BY <1>3 DEF OthersTake
  <2>2. mem'.pd = mem.pd /\ mem'.pt = mem.pt
    BY <2>1, SoundAlloc DEF IInv
  <2>3. QED BY <2>1, <2>2, OthersUsable
<1>4. ASSUME NEW f \in others, OthersGive(f) PROVE SInv'
  <2>1. mem' = [mem EXCEPT !.free = @ \cup {f}] /\ job' = job /\ result' = result
    BY <1>4 DEF OthersGive
  <2>2. mem'.pd = mem.pd /\ mem'.pt = mem.pt
    BY <2>1, SoundFree DEF IInv
  <2>3. QED BY <2>1, <2>2, OthersUsable
<1>5. CASE UNCHANGED vars
  BY <1>5, OthersUsable DEF vars
<1>6. QED BY <1>1, <1>2, <1>3, <1>4, <1>5, KeepsUsable, FetchUsable, VainUsable, FailsUsable,
       ExactUsable
       DEF Next, Step

\* AS_SUCCESS means that the region can be used, now and after whatever is
\* mapped later, in every run in which physical page 0 never serves as a page
\* table in which something is found or entered: the way of map_oom is the only
\* one by which memory_region_map can report a region that is not there.
THEOREM Success ==
  ASSUME NoPageZero
  PROVE  Spec /\ []PageZeroNotTaken => []SuccessMeansMapped
<1>1. Init => SInv
  <2> SUFFICES ASSUME Init PROVE SInv
    OBVIOUS
  <2>1. \A r \in Regions : result[r] # "AS_SUCCESS" /\ ~Busy(r)
    BY RegionMapAssumption DEF Init, Busy, Idle
  <2>2. QED BY <2>1 DEF SInv
<1>2. IInv /\ SInv /\ PageZeroNotTaken /\ [Next]_vars => SInv'
  <2>1. CASE IInv /\ SInv /\ PageZeroNotTaken /\ Next
    BY <2>1, UsableStep
  <2>2. CASE IInv /\ SInv /\ UNCHANGED vars
    BY <2>2, OthersUsable DEF vars
  <2>3. QED BY <2>1, <2>2
<1>3. SInv => SuccessMeansMapped
  BY DEF SInv, SuccessMeansMapped, Usable
<1>4. Spec => []IInv
  BY Invariant
<1>5. QED BY <1>1, <1>2, <1>3, <1>4, PTL DEF Spec

-----------------------------------------------------------------------------
(***************************************************************************)
(* UserCopy works on the same page tables.  What its copies rely on is     *)
(* that no two user pages share a frame and that none is a page table; a   *)
(* page that is mapped stays where it is.                                  *)
(***************************************************************************)
Apart(m) ==
  /\ m \in MemoryType /\ TablesApart(m)
  /\ \A c \in Contexts, u \in UserPages : PageAt(m, c, u) # 0 =>
       PageAt(m, c, u) \notin m.free /\ ~IsTable(m, PageAt(m, c, u))
  /\ \A c, d \in Contexts : \A u, v \in UserPages :
       PageAt(m, c, u) # 0 /\ PageAt(m, c, u) = PageAt(m, d, v) => c = d /\ u = v
  /\ \A c \in Contexts : PageAt(m, c, 0) = 0

LEMMA PageZero == 0 \in UserPages
<1>1. NPde * NPte \in Nat \ {0}
  BY PageTableAssumption
<1>2. QED BY <1>1 DEF UserPages

\* The same tables and pages, and no more free frames.
LEMMA ApartSame ==
  ASSUME NEW m, NEW n \in MemoryType, Apart(m), n.free \subseteq m.free, n.pd = m.pd,
         \A c \in Contexts, u \in UserPages : PageAt(n, c, u) = PageAt(m, c, u)
  PROVE  Apart(n)
<1>1. (\A f : IsTable(n, f) <=> IsTable(m, f)) /\ TablesApart(n)
  BY DEF IsTable, Apart, TablesApart
<1>2. QED BY <1>1, PageZero DEF Apart

\* A walk takes three pages of the kernel window at most, and nothing else
\* where there is a page table.
LEMMA WalkCost ==
  ASSUME NEW m \in MemoryType, NEW c \in Contexts, NEW v \in UserPages, CanWalk(m)
  PROVE  LET w == Walk(m, c, v)
         IN /\ w.kused <= m.kused + 3
            /\ m.kused + 2 < NKernelPages /\ m.free # {} => w.pd[c][PdIndex(v)] # 0
            /\ m.pd[c][PdIndex(v)] # 0 => w = i686_pagewalk_init(m)
<1> DEFINE k == i686_pagewalk_init(m)
           i == PdIndex(v)
           f == NextFree(m)
<1>1. /\ k \in MemoryType /\ k.free = m.free /\ k.pd = m.pd /\ k.pt = m.pt
      /\ k.kused = m.kused + 2 /\ NextFree(k) = f
  BY WalkInit
<1>2. i \in 0 .. NPde - 1 /\ NKernelPages \in Nat /\ m.kused \in 0 .. NKernelPages
  BY Indexes, PageTableAssumption DEF MemoryType
<1> HIDE DEF k, i
<1>3. CASE m.pd[c][i] # 0 \/ m.free = {}
  <2>1. Walk(m, c, v) = k
    BY <1>3, <1>1 DEF Walk, i686_pagewalk, i686_initialize_pde, i, k
  <2>2. QED BY <2>1, <1>1, <1>2, <1>3 DEF i, k
<1>4. CASE m.pd[c][i] = 0 /\ m.free # {} /\ k.kused = NKernelPages
  <2>1. Walk(m, c, v) = [k EXCEPT !.free = @ \ {f}]
    BY <1>4, <1>1 DEF Walk, i686_pagewalk, i686_initialize_pde, page_alloc, i, k
  <2>2. [k EXCEPT !.free = @ \ {f}].kused = k.kused
    BY <1>1 DEF MemoryType
  <2>3. QED BY <2>1, <2>2, <1>1, <1>2, <1>4 DEF i
<1>5. CASE m.pd[c][i] = 0 /\ m.free # {} /\ k.kused # NKernelPages
  <2>1. f \in Frames /\ f # 0
    BY <1>5, NextFreeIsFree, PageTableAssumption DEF Frames
  <2> DEFINE n == [page_alloc(k) EXCEPT !.kused = @ + 1, !.pd[c][i] = f, !.pt[f] = EmptyTable]
  <2>2. Walk(m, c, v) = n
    BY <1>5, <1>1 DEF Walk, i686_pagewalk, i686_initialize_pde, i, k
  <2>3. page_alloc(k) \in MemoryType /\ page_alloc(k).kused = k.kused /\ page_alloc(k).pd = m.pd
    BY <1>1 DEF page_alloc, MemoryType
  <2>4. n.kused = k.kused + 1
    BY <2>3 DEF MemoryType
  <2>5. n.pd[c][i] = f
    <3>1. m.pd \in [Contexts -> [0 .. NPde - 1 -> 0 .. NFrames]]
      BY DEF MemoryType
    <3>2. n.pd = [m.pd EXCEPT ![c][i] = f]
      BY <2>3 DEF MemoryType
    <3>3. m.pd[c] \in [0 .. NPde - 1 -> 0 .. NFrames] /\ n.pd[c] = [m.pd[c] EXCEPT ![i] = f]
      <4> HIDE DEF n, f
      <4>1. QED BY <3>1, <3>2
    <3> HIDE DEF n, f
    <3>4. QED BY <3>3, <1>2
  <2> HIDE DEF n, f
  <2>6. n.kused <= m.kused + 3
    BY <2>4, <1>1, <1>2
  <2>7. QED BY <2>1, <2>2, <2>5, <2>6, <1>5 DEF i
<1>6. QED BY <1>3, <1>4, <1>5

\* A walk turns a free frame into a page table, at most.
LEMMA ApartWalk ==
  ASSUME NEW m, Apart(m), NEW c \in Contexts, NEW v \in UserPages, CanWalk(m)
  PROVE  LET w == Walk(m, c, v)
         IN /\ Apart(w) /\ w.free \subseteq m.free /\ m.free \ {NextFree(m)} \subseteq w.free
            /\ \A d \in Contexts, u \in UserPages : PageAt(w, d, u) = PageAt(m, d, u)
<1> DEFINE w == Walk(m, c, v)
           f == NextFree(m)
           i == PdIndex(v)
<1>0. m \in MemoryType /\ TablesApart(m)
  BY DEF Apart
<1>1. w \in MemoryType /\ (WalkSame(m, w, c, v) \/ WalkLoses(m, w, c, v) \/ WalkAdds(m, w, c, v))
  BY <1>0, WalkCases
<1>2. TablesApart(w) /\ \A d \in Contexts, u \in UserPages : PageAt(w, d, u) = PageAt(m, d, u)
  BY <1>0, WalkTranslates DEF PageAt
<1>3. i \in 0 .. NPde - 1
  BY Indexes
<1> HIDE DEF w, f, i
<1>4. CASE WalkSame(m, w, c, v) \/ WalkLoses(m, w, c, v)
  <2>1. w.pd = m.pd /\ w.free \subseteq m.free /\ m.free \ {f} \subseteq w.free
    BY <1>4 DEF WalkSame, WalkLoses, f
  <2>2. Apart(w)
    BY <1>1, <1>2, <2>1, ApartSame
  <2>3. QED BY <2>1, <2>2, <1>2 DEF w, f
<1>5. CASE WalkAdds(m, w, c, v)
  <2>1. /\ f \in m.free /\ w.free = m.free \ {f}
        /\ w.pd = [m.pd EXCEPT ![c] = [m.pd[c] EXCEPT ![i] = f]]
    BY <1>5 DEF WalkAdds, f, i
  <2>2. \A d \in Contexts : \A j \in 0 .. NPde - 1 : w.pd[d][j] = m.pd[d][j] \/ w.pd[d][j] = f
    <3>1. m.pd \in [Contexts -> [0 .. NPde - 1 -> 0 .. NFrames]]
      BY <1>0 DEF MemoryType
    <3>2. m.pd[c] \in [0 .. NPde - 1 -> 0 .. NFrames]
      BY <3>1
    <3>3. w.pd[c] = [m.pd[c] EXCEPT ![i] = f] /\ \A d \in Contexts : d # c => w.pd[d] = m.pd[d]
      BY <2>1, <3>1
    <3>4. QED BY <3>2, <3>3, <1>3
  <2>3. \A g : IsTable(w, g) => IsTable(m, g) \/ g = f
    BY <2>2 DEF IsTable
  <2>4. \A d \in Contexts, u \in UserPages : PageAt(w, d, u) # 0 =>
          PageAt(w, d, u) \notin w.free /\ ~IsTable(w, PageAt(w, d, u))
    <3>1. TAKE d \in Contexts, u \in UserPages
    <3>2. HAVE PageAt(w, d, u) # 0
    <3> DEFINE g == PageAt(w, d, u)
    <3>3. g = PageAt(m, d, u) /\ g # 0
      BY <1>2, <3>2
    <3>4. g \notin m.free /\ ~IsTable(m, g)
      BY <3>3 DEF Apart
    <3> HIDE DEF g
    <3>5. QED BY <3>4, <2>1, <2>3 DEF g
  <2>5. 0 \in UserPages
    BY PageZero
  <2>6. Apart(w)
    BY <1>1, <1>2, <2>4, <2>5 DEF Apart
  <2>7. QED BY <2>1, <2>6, <1>2 DEF w, f
<1>6. QED BY <1>1, <1>4, <1>5

\* i686_user_map_page enters a frame that is neither free nor in use.
LEMMA ApartMap ==
  ASSUME NEW m, Apart(m), NEW c \in Contexts, NEW v \in UserPages \ {0}, NEW f \in Frames,
         f \notin m.free, ~IsTable(m, f), \A d \in Contexts, u \in UserPages : PageAt(m, d, u) # f,
         CanWalk(m), m.pd[c][PdIndex(v)] # 0
  PROVE  LET n == i686_user_map_page(m, c, v, f)
         IN Apart(n) /\ n.kused = m.kused + 2 /\ n.pd = m.pd
<1> DEFINE w == Walk(m, c, v)
           n == i686_user_map_page(m, c, v, f)
<1>1. m \in MemoryType /\ TablesApart(m) /\ v \in UserPages /\ f \in 0 .. NFrames
  BY PageTableAssumption DEF Apart, Frames
<1>2. w = i686_pagewalk_init(m)
  BY <1>1, WalkCost
<1>3. w.free = m.free /\ w.pd = m.pd /\ w.kused = m.kused + 2
  BY <1>1, <1>2, WalkInit
<1>4. Translation(m, c, v) \in EntryType
  BY <1>1, EntryTypes
<1>5. /\ n \in MemoryType /\ TablesApart(n)
      /\ n.kused = w.kused /\ n.free = w.free /\ n.pd = w.pd
      /\ w.pd[c][PdIndex(v)] # 0 =>
           Translation(n, c, v) = [Translation(m, c, v) EXCEPT !.page = f]
      /\ \A d \in Contexts, u \in UserPages :
           (d # c \/ u # v \/ w.pd[c][PdIndex(v)] = 0)
             => Translation(n, d, u) = Translation(m, d, u)
  BY <1>1, MapEffect
<1> HIDE DEF w, n
<1>6. PageAt(n, c, v) = f
  BY <1>3, <1>4, <1>5 DEF PageAt, EntryType
<1>7. \A d \in Contexts, u \in UserPages : d # c \/ u # v => PageAt(n, d, u) = PageAt(m, d, u)
  BY <1>5 DEF PageAt
<1>8. \A g : IsTable(n, g) <=> IsTable(m, g)
  BY <1>3, <1>5 DEF IsTable
<1>9. \A d \in Contexts, u \in UserPages : PageAt(n, d, u) # 0 =>
        PageAt(n, d, u) \notin n.free /\ ~IsTable(n, PageAt(n, d, u))
  <2>1. TAKE d \in Contexts, u \in UserPages
  <2>2. CASE d = c /\ u = v
    BY <2>2, <1>3, <1>5, <1>6, <1>8
  <2>3. CASE d # c \/ u # v
    BY <2>3, <1>3, <1>5, <1>7, <1>8 DEF Apart
  <2>4. QED BY <2>2, <2>3
<1>10. \A d, e \in Contexts : \A u, x \in UserPages :
         PageAt(n, d, u) # 0 /\ PageAt(n, d, u) = PageAt(n, e, x) => d = e /\ u = x
  BY <1>6, <1>7 DEF Apart
<1>11. \A d \in Contexts : PageAt(n, d, 0) = 0
  <2>1. TAKE d \in Contexts
  <2>2. 0 \in UserPages /\ 0 # v
    BY PageZero
  <2>3. PageAt(n, d, 0) = PageAt(m, d, 0)
    BY <2>2, <1>7, Zenon
  <2>4. PageAt(m, d, 0) = 0
    BY DEF Apart
  <2>5. QED BY <2>3, <2>4
<1>12. Apart(n)
  BY <1>5, <1>9, <1>10, <1>11 DEF Apart
<1>13. QED BY <1>3, <1>5, <1>12 DEF n

\* i686_user_set_page_flags changes no page.
LEMMA ApartFlags ==
  ASSUME NEW m, Apart(m), NEW c \in Contexts, NEW v \in UserPages \ {0}, CanWalk(m),
         m.pd[c][PdIndex(v)] # 0
  PROVE  Apart(i686_user_set_page_flags(m, c, v, TRUE))
<1> DEFINE w == Walk(m, c, v)
           n == i686_user_set_page_flags(m, c, v, TRUE)
<1>1. m \in MemoryType /\ TablesApart(m) /\ v \in UserPages
  BY DEF Apart
<1>2. w = i686_pagewalk_init(m)
  BY <1>1, WalkCost
<1>3. w.free = m.free /\ w.pd = m.pd
  BY <1>1, <1>2, WalkInit
<1>5. /\ n \in MemoryType /\ n.free = w.free /\ n.pd = w.pd
      /\ w.pd[c][PdIndex(v)] # 0 =>
           Translation(n, c, v) = [page |-> Translation(m, c, v).page, present |-> TRUE, writable |-> TRUE]
      /\ \A d \in Contexts, u \in UserPages :
           (d # c \/ u # v \/ w.pd[c][PdIndex(v)] = 0)
             => Translation(n, d, u) = Translation(m, d, u)
  BY <1>1, FlagsEffect
<1> HIDE DEF w, n
<1>6. PageAt(n, c, v) = PageAt(m, c, v)
  BY <1>3, <1>5 DEF PageAt
<1>7. \A d \in Contexts, u \in UserPages : PageAt(n, d, u) = PageAt(m, d, u)
  BY <1>5, <1>6 DEF PageAt
<1>8. QED BY <1>3, <1>5, <1>7, ApartSame DEF n

\* memory_region_map for one page, while there is memory and a kernel window:
\* the two walks after the first one find the page table.
LEMMA ApartMapPage ==
  ASSUME NEW m, Apart(m), NEW c \in Contexts, NEW v \in UserPages \ {0},
         m.kused + 7 <= NKernelPages, Cardinality(m.free) >= 2
  PROVE  LET g == AfterGetPage(m, c, v)
             n == i686_user_map_page(page_alloc(g), c, v, NextFree(g))
         IN Apart(i686_user_set_page_flags(n, c, v, TRUE))
<1> DEFINE g == Walk(m, c, v)
           f == NextFree(g)
           p == page_alloc(g)
           n == i686_user_map_page(p, c, v, f)
<1>1. /\ m \in MemoryType /\ v \in UserPages /\ NKernelPages \in Nat
      /\ m.kused \in 0 .. NKernelPages /\ m.free \subseteq 1 .. NFrames /\ NFrames \in Nat
  BY PageTableAssumption DEF Apart, MemoryType, Frames
<1>2. CanWalk(m) /\ m.kused + 2 < NKernelPages
  BY <1>1 DEF CanWalk
<1>3. AfterGetPage(m, c, v) = g
  BY <1>2 DEF AfterGetPage
<1>4. m.free # {} /\ \A x : m.free \ {x} # {}
  <2>1. IsFiniteSet(m.free)
    <3>1. IsFiniteSet(1 .. NFrames)
      BY <1>1, FS_Interval
    <3>2. QED BY <3>1, <1>1, FS_Subset
  <2>2. \A x : m.free \ {x} = {} => Cardinality(m.free) <= 1
    <3>1. TAKE x
    <3>2. HAVE m.free \ {x} = {}
    <3>3. m.free \subseteq {x} /\ IsFiniteSet({x}) /\ Cardinality({x}) = 1
      BY <3>2, FS_Singleton
    <3>4. Cardinality(m.free) <= Cardinality({x})
      BY <3>3, FS_Subset
    <3>5. QED BY <3>3, <3>4
  <2>3. \A x : m.free \ {x} # {}
    <3>1. PICK s \in Nat : s = Cardinality(m.free)
      BY <2>1, FS_CardinalityType
    <3>2. ~(s <= 1)
      BY <3>1
    <3>3. QED BY <2>2, <3>1, <3>2, Zenon
  <2>4. QED BY <2>3
<1>5. /\ Apart(g) /\ m.free \ {NextFree(m)} \subseteq g.free
      /\ g.pd[c][PdIndex(v)] # 0 /\ g.kused <= m.kused + 3
  BY <1>1, <1>2, <1>4, ApartWalk, WalkCost
<1>6. g \in MemoryType /\ TablesApart(g)
  BY <1>5 DEF Apart
<1>7. f \in g.free /\ f \in Frames /\ f # 0
  <2>1. g.free # {}
    BY <1>4, <1>5
  <2>2. QED BY <2>1, <1>6, NextFreeIsFree, PageTableAssumption DEF Frames
<1>8. /\ ~IsTable(g, f) /\ \A d \in Contexts, u \in UserPages : PageAt(g, d, u) # f
  BY <1>5, <1>6, <1>7 DEF Apart, TablesApart, IsTable
<1>9. p \in MemoryType /\ p.free = g.free \ {f} /\ p.pd = g.pd /\ p.pt = g.pt /\ p.kused = g.kused
  BY <1>6 DEF page_alloc, MemoryType
<1> HIDE DEF g, f, p
<1>10. \A d \in Contexts, u \in UserPages : PageAt(p, d, u) = PageAt(g, d, u)
  BY <1>9 DEF PageAt, Translation
<1>11. Apart(p) /\ f \notin p.free /\ ~IsTable(p, f)
  BY <1>5, <1>8, <1>9, <1>10, ApartSame DEF IsTable
<1>12. p.kused \in 0 .. NKernelPages /\ p.kused <= m.kused + 3
  BY <1>5, <1>9 DEF MemoryType
<1>13. CanWalk(p)
  BY <1>1, <1>12 DEF CanWalk
<1>14. Apart(n) /\ n.kused = p.kused + 2 /\ n.pd = p.pd
  BY <1>5, <1>7, <1>8, <1>9, <1>10, <1>11, <1>13, ApartMap
<1> HIDE DEF n
<1>15. CanWalk(n)
  BY <1>1, <1>12, <1>14 DEF CanWalk
<1>16. Apart(i686_user_set_page_flags(n, c, v, TRUE))
  BY <1>5, <1>9, <1>14, <1>15, ApartFlags
<1>17. QED BY <1>3, <1>16 DEF n, p, f, g

\* i686_user_get_page on a mapped page: it moves nothing, and finds the page
\* the processor would find, or uses up the kernel window.
LEMMA LookUp ==
  ASSUME NEW m, Apart(m), NEW c \in Contexts, NEW v \in UserPages, PageAt(m, c, v) # 0
  PROVE  LET g == AfterGetPage(m, c, v)
         IN /\ Apart(g)
            /\ \A d \in Contexts, u \in UserPages : PageAt(g, d, u) = PageAt(m, d, u)
            /\ g.kused < NKernelPages => CanWalk(m)
            /\ CanWalk(m) => PageFound(m, c, v) = PageAt(m, c, v)
<1> DEFINE k == i686_pagewalk_init(m)
<1>1. m \in MemoryType /\ m.pd[c][PdIndex(v)] # 0 /\ v # 0 /\ NKernelPages \in Nat
  BY PageTableAssumption DEF Apart, PageAt, Translation, NoEntry
<1>2. AfterGetPage(m, c, v) = k /\ (CanWalk(m) => Walk(m, c, v) = k)
  BY <1>1, WalkCost DEF AfterGetPage
<1>3. /\ k \in MemoryType /\ k.free = m.free /\ k.pd = m.pd /\ k.pt = m.pt
      /\ ~CanWalk(m) => k.kused = NKernelPages
  BY <1>1, WalkInit
<1> HIDE DEF k
<1>4. \A d \in Contexts, u \in UserPages : PageAt(k, d, u) = PageAt(m, d, u)
  BY <1>3 DEF PageAt, Translation
<1>5. Apart(k)
  BY <1>3, <1>4, ApartSame
<1>6. k.kused < NKernelPages => CanWalk(m)
  BY <1>1, <1>3
<1>7. CanWalk(m) => PageFound(m, c, v) = PageAt(m, c, v)
  BY <1>1, <1>2, <1>3 DEF PageFound, Entry, Table, PageAt, Translation
<1>8. QED BY <1>2, <1>4, <1>5, <1>6, <1>7

-----------------------------------------------------------------------------
\* Division has one result.
LEMMA OneQuotient ==
  ASSUME NEW d \in Nat \ {0}, NEW n \in Int, NEW q \in Int, NEW r \in 0 .. d - 1, n = (d * q) + r
  PROVE  n \div d = q /\ n % d = r
<1> DEFINE p == n \div d
           s == n % d
<1>1. p \in Int /\ s \in 0 .. d - 1 /\ n = (d * p) + s
  BY Division
<1> HIDE DEF p, s
<1>2. d * p \in Int /\ d * q \in Int
  BY <1>1
<1>3. CASE p - q >= 1
  <2>1. (p - q) - 1 \in Nat
    BY <1>1, <1>3
  <2>2. d * ((p - q) - 1) \in Nat
    BY <2>1, Products
  <2>3. d * ((p - q) - 1) = ((d * p) - (d * q)) - d
    BY <1>1
  <2>4. QED BY <2>2, <2>3, <1>1, <1>2
<1>4. CASE q - p >= 1
  <2>1. (q - p) - 1 \in Nat
    BY <1>1, <1>4
  <2>2. d * ((q - p) - 1) \in Nat
    BY <2>1, Products
  <2>3. d * ((q - p) - 1) = ((d * q) - (d * p)) - d
    BY <1>1
  <2>4. QED BY <2>2, <2>3, <1>1, <1>2
<1>5. p = q
  BY <1>1, <1>3, <1>4
<1>6. s = r
  BY <1>1, <1>2, <1>5
<1>7. QED BY <1>5, <1>6 DEF p, s

\* An address is its page and its offset.
LEMMA Address ==
  ASSUME NEW a \in Nat
  PROVE  /\ PageOf(a) \in Nat /\ OffsetOf(a) \in Nat /\ OffsetOf(a) < PageSize
         /\ PageSize \in Nat \ {0} /\ PageSize * PageOf(a) \in Nat
         /\ a = (PageSize * PageOf(a)) + OffsetOf(a)
<1>1. PageSize \in Nat \ {0}
  BY UserCopyAssumption
<1>2. PageOf(a) \in Int /\ OffsetOf(a) \in 0 .. PageSize - 1 /\ a = (PageSize * PageOf(a)) + OffsetOf(a)
  BY <1>1, Division DEF PageOf, OffsetOf
<1>3. PageOf(a) \in Nat
  <2>1. a \div PageSize >= 0
    BY <1>1
  <2>2. QED BY <2>1, <1>2 DEF PageOf
<1>4. PageSize * PageOf(a) \in Nat
  BY <1>1, <1>3, Products
<1>5. QED BY <1>1, <1>2, <1>3, <1>4

\* So many addresses on it is still the same page.
LEMMA SamePage ==
  ASSUME NEW a \in Nat, NEW k \in Nat, OffsetOf(a) + k < PageSize
  PROVE  PageOf(a + k) = PageOf(a) /\ OffsetOf(a + k) = OffsetOf(a) + k
<1> DEFINE q == PageOf(a)
           r == OffsetOf(a)
<1>1. /\ q \in Nat /\ r \in Nat /\ PageSize \in Nat \ {0} /\ PageSize * q \in Nat
      /\ a = (PageSize * q) + r
  BY Address
<1> HIDE DEF q, r
<1>2. a + k \in Int /\ r + k \in 0 .. PageSize - 1 /\ a + k = (PageSize * q) + (r + k)
  BY <1>1 DEF r
<1>3. PICK n \in Int, s \in 0 .. PageSize - 1 : n = a + k /\ s = r + k /\ n = (PageSize * q) + s
  BY <1>2
<1>4. q \in Int
  BY <1>1
<1>5. n \div PageSize = q /\ n % PageSize = s
  BY <1>1, <1>3, <1>4, OneQuotient, ZenonT(60)
<1>6. QED BY <1>3, <1>5 DEF PageOf, OffsetOf, q, r

\* The length of a turn: something, no more than what is left, and no more than
\* the page has.
LEMMA CopyLength ==
  ASSUME NEW a \in Nat, NEW left \in Nat \ {0}
  PROVE  LET n == copylen(a, left)
         IN n \in Nat /\ 1 <= n /\ n <= left /\ OffsetOf(a) + n <= PageSize
<1>1. OffsetOf(a) \in Nat /\ OffsetOf(a) < PageSize /\ PageSize \in Nat
  BY Address
<1> DEFINE b == PageSize - OffsetOf(a)
<1>2. b \in Nat /\ 1 <= b /\ OffsetOf(a) + b <= PageSize
  BY <1>1
<1>3. copylen(a, left) = Min({left, b})
  BY DEF copylen
<1> HIDE DEF b
<1>4. Min({left, b}) \in {left, b} /\ Min({left, b}) <= left /\ Min({left, b}) <= b
  <2>1. \E x \in {left, b} : \A y \in {left, b} : x <= y
    BY <1>2
  <2>2. QED BY <2>1 DEF Min
<1>5. QED BY <1>1, <1>2, <1>3, <1>4

\* How many user pages there are.
LEMMA UserPagesCount ==
  /\ Cardinality(UserPages) \in Nat /\ UserPages = 0 .. Cardinality(UserPages) - 1
<1>1. NPde * NPte \in Nat
  BY PageTableAssumption
<1> DEFINE n == NPde * NPte
<1>2. UserPages = 0 .. n - 1
  BY DEF UserPages
<1> HIDE DEF n
<1>3. Cardinality(0 .. n - 1) = n
  BY <1>1, FS_Interval DEF n
<1>4. QED BY <1>1, <1>2, <1>3 DEF n

\* The end of user memory.
LEMMA UserEnd ==
  ASSUME NEW a \in Nat, PageOf(a) \in UserPages
  PROVE  a < PageSize * Cardinality(UserPages)
<1> DEFINE n == Cardinality(UserPages)
           q == PageOf(a)
<1>1. n \in Nat /\ q \in 0 .. n - 1
  BY UserPagesCount
<1>2. /\ OffsetOf(a) \in Nat /\ OffsetOf(a) < PageSize /\ PageSize \in Nat \ {0}
      /\ PageSize * q \in Nat /\ a = (PageSize * q) + OffsetOf(a)
  BY Address
<1> HIDE DEF n, q
<1>3. (n - q) - 1 \in Nat
  BY <1>1
<1>4. PageSize * ((n - q) - 1) \in Nat
  BY <1>2, <1>3, Products
<1>5. PageSize * ((n - q) - 1) = ((PageSize * n) - (PageSize * q)) - PageSize /\ PageSize * n \in Nat
  BY <1>1, <1>2, Products
<1>6. QED BY <1>2, <1>4, <1>5 DEF n

-----------------------------------------------------------------------------
\* The range of a copy lies inside the buffer and in mapped user memory, what
\* was copied and what is left.
CopyInRange ==
  copy.dir # "none" =>
    /\ copy.left <= copy.len /\ Copied <= copy.user /\ Copied <= copy.kernel
    /\ copy.kernel + copy.left <= KernelBytes
    /\ copy.user + copy.left <= PageSize * Cardinality(UserPages)
    /\ \A a \in FirstUser .. copy.user + copy.left - 1 : IsMapped(copy.ctx, PageOf(a))

\* The inductive invariant of the copies.
CopyInv == CopyTypeOK /\ Apart(mem) /\ CopyInRange /\ CopyExact

\* What the loop of a copy finds at the start of a turn, and what the look-up
\* makes of the memory.
TurnMemory(u, n, v) ==
  /\ n \in Nat /\ 1 <= n /\ n <= copy.left /\ OffsetOf(u) + n <= PageSize
  /\ v \in UserPages /\ PageAt(mem, copy.ctx, v) \in Frames
  /\ mem'.kused < NKernelPages =>
       /\ mem.kused < NKernelPages
       /\ PageToCopy = PageAt(mem, copy.ctx, v)
  /\ PageToCopy \in 0 .. NFrames
  /\ Apart(mem')
  /\ \A d \in Contexts, w \in UserPages : PageAt(mem', d, w) = PageAt(mem, d, w)

LEMMA TurnStarts ==
  ASSUME CopyTypeOK, Apart(mem), CopyInRange, InCopy, copy.left > 0,
         mem' = AfterGetPage(mem, copy.ctx, PageOf(copy.user))
  PROVE  TurnMemory(copy.user, copylen(copy.user, copy.left), PageOf(copy.user))
<1> DEFINE u == copy.user
           c == copy.ctx
           v == PageOf(u)
           n == copylen(u, copy.left)
<1>1. /\ u \in Nat /\ c \in Contexts /\ copy.left \in Nat \ {0} /\ copy.len \in Nat
      /\ copy.phys \in 0 .. NFrames /\ copy.dir # "none"
  BY PageTableAssumption, UserCopyAssumption DEF CopyTypeOK, InCopy
<1>2. n \in Nat /\ 1 <= n /\ n <= copy.left /\ OffsetOf(u) + n <= PageSize
  BY <1>1, CopyLength
<1>3. IsMapped(c, v)
  <2>1. \A a \in FirstUser .. u + copy.left - 1 : IsMapped(c, PageOf(a))
    BY <1>1 DEF CopyInRange
  <2>2. u \in FirstUser .. u + copy.left - 1
    BY <1>1 DEF FirstUser, Copied, CopyInRange
  <2>3. QED BY <2>1, <2>2
<1>4. v \in UserPages /\ PageAt(mem, c, v) # 0
  BY <1>3 DEF IsMapped, PageAt
<1>5. PageAt(mem, c, v) \in Frames
  <2>1. mem \in MemoryType
    BY DEF Apart
  <2>2. Translation(mem, c, v) \in EntryType
    BY <2>1, <1>1, <1>4, EntryTypes
  <2>3. QED BY <2>2, <1>4, PageTableAssumption DEF PageAt, EntryType, Frames
<1> HIDE DEF u, c, v, n
<1>6. /\ Apart(mem')
      /\ \A d \in Contexts, w \in UserPages : PageAt(mem', d, w) = PageAt(mem, d, w)
      /\ mem'.kused < NKernelPages => CanWalk(mem)
      /\ CanWalk(mem) => PageFound(mem, c, v) = PageAt(mem, c, v)
  BY <1>1, <1>4, LookUp DEF u, c, v
<1>7. CanWalk(mem) => mem.kused < NKernelPages /\ PageToCopy = PageAt(mem, c, v)
  BY <1>6, PageTableAssumption DEF CanWalk, PageToCopy, Apart, MemoryType, u, c, v
<1>8. PageToCopy \in 0 .. NFrames
  <2>1. CASE CanWalk(mem)
    BY <2>1, <1>5, <1>7 DEF Frames
  <2>2. CASE ~CanWalk(mem)
    BY <2>2, <1>1 DEF PageToCopy
  <2>3. QED BY <2>1, <2>2
<1>9. QED BY <1>2, <1>4, <1>5, <1>6, <1>7, <1>8 DEF TurnMemory, u, c, v, n

\* The fields of a copy after a turn.
LEMMA Advanced ==
  ASSUME CopyTypeOK, NEW n, NEW phys, copy' = Advance(n, phys)
  PROVE  /\ copy'.dir = copy.dir /\ copy'.ctx = copy.ctx /\ copy'.len = copy.len
         /\ copy'.left = copy.left - n /\ copy'.user = copy.user + n
         /\ copy'.kernel = copy.kernel + n /\ copy'.phys = phys
         /\ copy' = [dir |-> copy.dir, ctx |-> copy.ctx, user |-> copy.user + n,
                     kernel |-> copy.kernel + n, left |-> copy.left - n, len |-> copy.len,
                     phys |-> phys]
  BY DEF CopyTypeOK, Advance

\* A turn copies inside the buffer and inside the page.
LEMMA TurnTypes ==
  ASSUME CopyTypeOK, Apart(mem), CopyInRange, CopyTurn
  PROVE  CopyTypeOK' /\ Apart(mem)' /\ CopyInRange'
<1> DEFINE u == copy.user
           k == copy.kernel
           l == copy.left
           len == copy.len
           c == copy.ctx
           n == copylen(u, l)
           phys == PageToCopy
           o0 == OffsetOf(u)
<1>1. TurnMemory(u, n, PageOf(u)) /\ copy' = Advance(n, phys) /\ copy.dir \in {"from_user", "to_user"}
  BY TurnStarts DEF CopyTurn, InCopy
<1>2. /\ u \in Nat /\ k \in Nat /\ l \in Nat /\ len \in Nat /\ c \in Contexts
      /\ len <= KernelBytes /\ KernelBytes \in Nat /\ PageSize \in Nat \ {0}
      /\ l <= len /\ len - l <= u /\ len - l <= k /\ k + l <= KernelBytes
      /\ u + l <= PageSize * Cardinality(UserPages)
      /\ \A a \in u - (len - l) .. u + l - 1 : IsMapped(c, PageOf(a))
  BY <1>1, UserCopyAssumption DEF CopyTypeOK, CopyInRange, FirstUser, Copied
<1>3. PageSize * Cardinality(UserPages) \in Nat
  BY <1>2, UserPagesCount, Products
<1>4. n \in Nat /\ 1 <= n /\ n <= l /\ o0 + n <= PageSize /\ phys \in 0 .. NFrames /\ Apart(mem')
  BY <1>1 DEF TurnMemory
<1>5. o0 \in Nat
  BY <1>2, Address
<1>6. /\ copy'.dir = copy.dir /\ copy'.ctx = c /\ copy'.len = len
      /\ copy'.left = l - n /\ copy'.user = u + n /\ copy'.kernel = k + n
      /\ copy' = [dir |-> copy.dir, ctx |-> c, user |-> u + n,
                  kernel |-> k + n, left |-> l - n, len |-> len, phys |-> phys]
  BY <1>1, Advanced
<1>7. /\ data \in [0 .. NFrames -> [Offsets -> Bytes]] /\ kbuf \in [Buffer -> Bytes]
      /\ before \in [data : [0 .. NFrames -> [Offsets -> Bytes]], kbuf : [Buffer -> Bytes]]
      /\ copies \in 0 .. MaxCopies
  BY DEF CopyTypeOK
<1>8. before' = before /\ copies' = copies /\ mem' \in MemoryType
  BY <1>4 DEF CopyTurn, Apart
<1>9. data[phys] \in [Offsets -> Bytes]
  BY <1>4, <1>7
<1>10. data' \in [0 .. NFrames -> [Offsets -> Bytes]] /\ kbuf' \in [Buffer -> Bytes]
  <2>1. CASE copy.dir = "from_user"
    <3>1. data' = data /\ kbuf' = copy_partial_page_from_user(data[phys], n)
      BY <2>1 DEF CopyTurn, kernel_map_virt_to_phys
    <3> HIDE DEF u, k, n, phys, o0
    <3>2. \A i \in Buffer : i \in k .. k + n - 1 => o0 + i - k \in Offsets
      BY <1>2, <1>4, <1>5 DEF Buffer, Offsets
    <3>3. kbuf' = [i \in Buffer |-> IF i \in k .. k + n - 1 THEN data[phys][o0 + i - k] ELSE kbuf[i]]
      BY <3>1 DEF copy_partial_page_from_user, o0, k, u
    <3>4. QED BY <3>1, <3>2, <3>3, <1>7, <1>9
  <2>2. CASE copy.dir = "to_user"
    <3> DEFINE page == copy_partial_page_to_user(data[phys], n)
    <3>1. kbuf' = kbuf /\ data' = [data EXCEPT ![phys] = page]
      BY <2>2 DEF CopyTurn, kernel_map_virt_to_phys
    <3> HIDE DEF u, k, n, phys, o0
    <3>2. \A o \in Offsets : o \in o0 .. o0 + n - 1 => k + o - o0 \in Buffer
      BY <1>2, <1>4, <1>5 DEF Buffer, Offsets
    <3>3. page = [o \in Offsets |-> IF o \in o0 .. o0 + n - 1 THEN kbuf[k + o - o0] ELSE data[phys][o]]
      BY DEF copy_partial_page_to_user, o0, k, u
    <3>4. page \in [Offsets -> Bytes]
      BY <3>2, <3>3, <1>7, <1>9
    <3> HIDE DEF page
    <3>5. QED BY <3>1, <3>4, <1>4, <1>7
  <2>3. QED BY <1>1, <2>1, <2>2
<1>11. /\ copy' \in [dir : {"none", "from_user", "to_user", "was_from_user", "was_to_user", "lost"},
              ctx : Contexts, user : 0 .. PageSize * Cardinality(UserPages),
              kernel : 0 .. KernelBytes, left : 0 .. KernelBytes,
              len : 0 .. KernelBytes, phys : 0 .. NFrames]
  <2> HIDE DEF u, k, l, len, c, n, phys, o0
  <2>1. /\ u + n \in 0 .. PageSize * Cardinality(UserPages) /\ k + n \in 0 .. KernelBytes
        /\ l - n \in 0 .. KernelBytes /\ len \in 0 .. KernelBytes
    BY <1>2, <1>3, <1>4
  <2>2. copy.dir \in {"none", "from_user", "to_user", "was_from_user", "was_to_user", "lost"}
    BY <1>1
  <2>3. QED BY <1>2, <1>4, <1>6, <2>1, <2>2
<1>12. CopyTypeOK'
  BY <1>7, <1>8, <1>10, <1>11 DEF CopyTypeOK
<1> HIDE DEF u, k, l, len, c, n, phys, o0
<1>13. \A a \in (u + n) - (len - (l - n)) .. (u + n) + (l - n) - 1 :
         PageOf(a) \in UserPages /\ PageAt(mem', c, PageOf(a)) # 0
  <2>1. TAKE a \in (u + n) - (len - (l - n)) .. (u + n) + (l - n) - 1
  <2>2. IsMapped(c, PageOf(a))
    <3>1. a \in u - (len - l) .. u + l - 1
      BY <1>2, <1>4
    <3>2. QED BY <3>1, <1>2
  <2>3. \A w \in UserPages : PageAt(mem', c, w) = PageAt(mem, c, w)
    BY <1>1, <1>2 DEF TurnMemory
  <2>4. QED BY <2>2, <2>3 DEF IsMapped, PageAt
<1>14. CopyInRange'
  <2>1. /\ l - n <= len /\ len - (l - n) <= u + n /\ len - (l - n) <= k + n
        /\ (k + n) + (l - n) <= KernelBytes
        /\ (u + n) + (l - n) <= PageSize * Cardinality(UserPages)
    BY <1>2, <1>3, <1>4
  <2>2. \A a \in FirstUser' .. copy'.user + copy'.left - 1 : IsMapped(copy.ctx, PageOf(a))'
    BY <1>6, <1>13 DEF FirstUser, Copied, IsMapped, PageAt
  <2>3. QED BY <1>6, <2>1, <2>2 DEF CopyInRange, Copied
<1>15. QED BY <1>4, <1>12, <1>14

\* The byte at a user address, for the memory m and the bytes d.
Byte(d, m, c, a) == d[PageAt(m, c, PageOf(a))][OffsetOf(a)]

\* CopyExact with the copied range as parameters: cp bytes between the user
\* addresses from fu and the kernel addresses from fk on.
FromUserExact(d, m, kb, kb0, c, fu, fk, cp) ==
  kb = [i \in Buffer |-> IF i \in fk .. fk + cp - 1 THEN Byte(d, m, c, fu + i - fk) ELSE kb0[i]]

ToUserExact(d, d0, m, kb, c, fu, fk, cp) ==
  \A e \in Contexts, a \in UserAddresses :
    PageOf(a) \in UserPages /\ PageAt(m, e, PageOf(a)) # 0 =>
      Byte(d, m, e, a) = IF e = c /\ a \in fu .. fu + cp - 1
                           THEN kb[fk + a - fu] ELSE Byte(d0, m, e, a)

ExactSoFar ==
  (mem.kused < NKernelPages /\ copy.dir # "none") =>
    /\ copy.dir \in {"was_from_user", "was_to_user"} => Copied = copy.len
    /\ copy.dir \in {"from_user", "was_from_user"} =>
         data = before.data
           /\ FromUserExact(data, mem, kbuf, before.kbuf, copy.ctx, FirstUser, FirstKernel, Copied)
    /\ copy.dir \in {"to_user", "was_to_user"} =>
         kbuf = before.kbuf
           /\ ToUserExact(data, before.data, mem, kbuf, copy.ctx, FirstUser, FirstKernel, Copied)

LEMMA ExactForms == (CopyExact <=> ExactSoFar) /\ (CopyExact' <=> ExactSoFar')
  BY Zenon DEF CopyExact, ExactSoFar, FromUserExact, ToUserExact, Byte, PageAt, UserByte, IsMapped

\* A turn of virtmem_copy_user_to_kernel: n more bytes come from the page that
\* the processor would find.
LEMMA FromUserTurn ==
  ASSUME NEW d, NEW m, NEW m1, NEW kb, NEW kb0, NEW c \in Contexts,
         NEW fu \in Nat, NEW fk \in Nat, NEW cp \in Nat, NEW n \in Nat,
         OffsetOf(fu + cp) + n <= PageSize,
         \A w \in UserPages : PageAt(m1, c, w) = PageAt(m, c, w),
         \A a \in fu .. fu + cp + n - 1 : PageOf(a) \in UserPages,
         FromUserExact(d, m, kb, kb0, c, fu, fk, cp),
         NEW kb1,
         kb1 = [i \in Buffer |-> IF i \in fk + cp .. fk + cp + n - 1
                  THEN d[PageAt(m, c, PageOf(fu + cp))][OffsetOf(fu + cp) + i - (fk + cp)]
                  ELSE kb[i]]
  PROVE  FromUserExact(d, m1, kb1, kb0, c, fu, fk, cp + n)
<1> DEFINE u == fu + cp
           k == fk + cp
           o0 == OffsetOf(u)
<1>1. u \in Nat /\ k \in Nat /\ o0 \in Nat /\ PageSize \in Nat
  BY Address
<1>2. SUFFICES ASSUME NEW i \in Buffer
               PROVE  kb1[i] = IF i \in fk .. fk + (cp + n) - 1
                                 THEN Byte(d, m1, c, fu + i - fk) ELSE kb0[i]
  BY DEF FromUserExact
<1>3. i \in Nat
  BY DEF Buffer
<1>4. kb[i] = IF i \in fk .. fk + cp - 1 THEN Byte(d, m, c, fu + i - fk) ELSE kb0[i]
  BY DEF FromUserExact
<1>5. CASE i \in k .. k + n - 1
  <2>1. PICK j \in Nat : j = i - k /\ j < n
    BY <1>1, <1>3, <1>5
  <2>2. fu + i - fk = u + j /\ o0 + i - k = o0 + j
    BY <2>1, <1>1, <1>3
  <2>3. o0 + j < PageSize
    BY <2>1, <1>1
  <2>4. PageOf(u + j) = PageOf(u) /\ OffsetOf(u + j) = o0 + j
    BY <1>1, <2>3, SamePage
  <2>5. PageOf(u) \in UserPages
    <3>1. u \in fu .. fu + cp + n - 1
      BY <2>1, <1>1
    <3>2. QED BY <3>1
  <2>6. kb1[i] = d[PageAt(m, c, PageOf(u))][o0 + j]
    BY <1>5, <2>2
  <2>7. Byte(d, m1, c, fu + i - fk) = d[PageAt(m, c, PageOf(u))][o0 + j]
    BY <2>2, <2>4, <2>5 DEF Byte
  <2>8. i \in fk .. fk + (cp + n) - 1
    BY <1>1, <1>3, <1>5
  <2>9. QED BY <2>6, <2>7, <2>8
<1>6. CASE i \notin k .. k + n - 1
  <2>1. kb1[i] = kb[i]
    BY <1>6
  <2>2. i \in fk .. fk + (cp + n) - 1 <=> i \in fk .. fk + cp - 1
    BY <1>1, <1>3, <1>6
  <2>3. ASSUME i \in fk .. fk + cp - 1
        PROVE  Byte(d, m1, c, fu + i - fk) = Byte(d, m, c, fu + i - fk)
    <3>1. fu + i - fk \in fu .. fu + cp + n - 1
      BY <2>3, <1>1, <1>3
    <3>2. PageOf(fu + i - fk) \in UserPages
      BY <3>1
    <3>3. QED BY <3>2 DEF Byte
  <2>4. QED BY <2>1, <2>2, <2>3, <1>4
<1>7. QED BY <1>5, <1>6

\* A turn of virtmem_copy_kernel_to_user: n more bytes reach the page that the
\* processor would find, which is nobody else's.
LEMMA ToUserTurn ==
  ASSUME NEW d \in [0 .. NFrames -> [Offsets -> Bytes]], NEW d0, NEW m, Apart(m), NEW m1, NEW kb,
         NEW c \in Contexts,
         NEW fu \in Nat, NEW fk \in Nat, NEW cp \in Nat, NEW n \in Nat,
         OffsetOf(fu + cp) + n <= PageSize, PageOf(fu + cp) \in UserPages,
         NEW phys \in Frames, phys = PageAt(m, c, PageOf(fu + cp)),
         \A e \in Contexts, w \in UserPages : PageAt(m1, e, w) = PageAt(m, e, w),
         ToUserExact(d, d0, m, kb, c, fu, fk, cp),
         NEW page,
         page = [o \in Offsets |->
                   IF o \in OffsetOf(fu + cp) .. OffsetOf(fu + cp) + n - 1
                     THEN kb[fk + cp + o - OffsetOf(fu + cp)] ELSE d[phys][o]],
         NEW d1, d1 = [d EXCEPT ![phys] = page]
  PROVE  ToUserExact(d1, d0, m1, kb, c, fu, fk, cp + n)
<1> DEFINE u == fu + cp
           k == fk + cp
           o0 == OffsetOf(u)
           v == PageOf(u)
<1>1. /\ u \in Nat /\ k \in Nat /\ o0 \in Nat /\ PageSize \in Nat /\ v \in Nat
      /\ PageSize * v \in Nat /\ u = (PageSize * v) + o0
  BY Address
<1>2. phys # 0 /\ phys \in 0 .. NFrames
  BY PageTableAssumption DEF Frames
<1>3. SUFFICES ASSUME NEW e \in Contexts, NEW a \in UserAddresses,
                      PageOf(a) \in UserPages, PageAt(m1, e, PageOf(a)) # 0
               PROVE  Byte(d1, m1, e, a) = IF e = c /\ a \in fu .. fu + (cp + n) - 1
                                             THEN kb[fk + a - fu] ELSE Byte(d0, m1, e, a)
  BY DEF ToUserExact
<1> DEFINE x == OffsetOf(a)
           f == PageAt(m, e, PageOf(a))
<1>4. /\ a \in Nat /\ x \in Nat /\ x < PageSize /\ PageOf(a) \in Nat
      /\ PageSize * PageOf(a) \in Nat /\ a = (PageSize * PageOf(a)) + x
  <2>1. a \in Nat
    BY UserCopyAssumption DEF UserAddresses
  <2>2. QED BY <2>1, Address
<1>5. PageAt(m1, e, PageOf(a)) = f /\ f # 0
  BY <1>3
<1>6. Byte(d, m, e, a) = IF e = c /\ a \in fu .. fu + cp - 1 THEN kb[fk + a - fu] ELSE Byte(d0, m, e, a)
  BY <1>5, <1>3 DEF ToUserExact
<1>7. Byte(d1, m1, e, a) = d1[f][x] /\ Byte(d, m, e, a) = d[f][x] /\ Byte(d0, m1, e, a) = Byte(d0, m, e, a)
  BY <1>5 DEF Byte
<1>8. f \in 0 .. NFrames
  <2>1. m \in MemoryType
    BY DEF Apart
  <2>2. Translation(m, e, PageOf(a)) \in EntryType
    BY <2>1, <1>3, EntryTypes
  <2>3. QED BY <2>2 DEF PageAt, EntryType
<1>9. a \in u .. u + n - 1 => PageOf(a) = v
  <2>1. SUFFICES ASSUME a \in u .. u + n - 1 PROVE PageOf(a) = v
    OBVIOUS
  <2>2. PICK j \in Nat : a = u + j /\ j < n
    <3>1. a - u \in Nat /\ a = u + (a - u) /\ a - u < n
      BY <2>1, <1>1, <1>4
    <3>2. QED BY <3>1
  <2>3. o0 + j < PageSize
    BY <2>2, <1>1
  <2>4. PageOf(u + j) = PageOf(u)
    BY <1>1, <2>3, SamePage
  <2>5. QED BY <2>2, <2>4
<1> HIDE DEF x, f
<1>10. CASE f = phys
  <2>1. e = c /\ PageOf(a) = v
    BY <1>10, <1>2, <1>3 DEF Apart, f
  <2>2. a \in Int /\ u \in Int /\ x \in Int /\ o0 \in Int /\ a - u = x - o0
    <3>1. PICK y \in Nat : y = PageSize * v
      BY <1>1
    <3>2. a = y + x /\ u = y + o0
      BY <3>1, <2>1, <1>1, <1>4
    <3> HIDE DEF u, o0
    <3>3. QED BY <3>2, <1>1, <1>4
  <2>3. x \in Offsets
    BY <1>1, <1>4 DEF Offsets
  <2>4. d1[f][x] = IF x \in o0 .. o0 + n - 1 THEN kb[k + x - o0] ELSE d[f][x]
    <3>1. d1[f] = page
      BY <1>2, <1>10
    <3>2. page[x] = IF x \in o0 .. o0 + n - 1 THEN kb[k + x - o0] ELSE d[phys][x]
      BY <2>3
    <3>3. QED BY <3>1, <3>2, <1>10
  <2>5. CASE x \in o0 .. o0 + n - 1
    <3>1. a \in fu .. fu + (cp + n) - 1 /\ k + x - o0 = fk + a - fu
      <4>1. u = fu + cp /\ k = fk + cp
        OBVIOUS
      <4> HIDE DEF u, k, o0, v
      <4>2. QED BY <4>1, <2>2, <2>5
    <3>2. QED BY <3>1, <2>1, <2>4, <2>5, <1>7
  <2>6. CASE x \notin o0 .. o0 + n - 1
    <3>1. a \in fu .. fu + (cp + n) - 1 <=> a \in fu .. fu + cp - 1
      <4>1. u = fu + cp
        OBVIOUS
      <4> HIDE DEF u, k, o0, v
      <4>2. QED BY <4>1, <2>2, <2>6
    <3>2. QED BY <3>1, <2>4, <2>6, <1>6, <1>7
  <2>7. QED BY <2>5, <2>6
<1>11. CASE f # phys
  <2>1. d1[f] = d[f]
    BY <1>2, <1>8, <1>11
  <2>2. e = c => a \notin u .. u + n - 1
    BY <1>9, <1>11 DEF f
  <2>3. e = c => (a \in fu .. fu + (cp + n) - 1 <=> a \in fu .. fu + cp - 1)
    <3>1. u = fu + cp
      OBVIOUS
    <3>2. a \in Int /\ fu \in Int /\ cp \in Nat /\ n \in Nat
      BY <1>1, <1>4
    <3> HIDE DEF u, k, o0, v
    <3>3. QED BY <2>2, <3>1, <3>2
  <2>4. QED BY <2>1, <2>3, <1>6, <1>7
<1>12. QED BY <1>10, <1>11

\* A turn keeps the copy exact.
LEMMA TurnExact ==
  ASSUME CopyInv, CopyTurn
  PROVE  CopyExact'
<1> DEFINE u == copy.user
           k == copy.kernel
           l == copy.left
           len == copy.len
           c == copy.ctx
           n == copylen(u, l)
           phys == PageToCopy
           fu == FirstUser
           fk == FirstKernel
           cp == Copied
           o0 == OffsetOf(u)
<1>0. CopyTypeOK /\ Apart(mem) /\ CopyInRange /\ CopyExact
  BY DEF CopyInv
<1>1. /\ TurnMemory(u, n, PageOf(u)) /\ copy' = Advance(n, phys)
      /\ copy.dir \in {"from_user", "to_user"} /\ before' = before
  BY <1>0, TurnStarts DEF CopyTurn, InCopy
<1>2. /\ u \in Nat /\ k \in Nat /\ l \in Nat /\ len \in Nat /\ c \in Contexts
      /\ l <= len /\ len - l <= u /\ len - l <= k
      /\ \A a \in u - (len - l) .. u + l - 1 : IsMapped(c, PageOf(a))
  BY <1>0, <1>1, UserCopyAssumption DEF CopyTypeOK, CopyInRange, FirstUser, Copied
<1>3. fu = u - (len - l) /\ fk = k - (len - l) /\ cp = len - l
  BY DEF FirstUser, FirstKernel, Copied
<1>4. SUFFICES ASSUME mem'.kused < NKernelPages PROVE CopyExact'
  BY DEF CopyExact
<1>5. /\ n \in Nat /\ n <= l /\ o0 + n <= PageSize /\ PageOf(u) \in UserPages
      /\ mem.kused < NKernelPages /\ phys = PageAt(mem, c, PageOf(u)) /\ phys \in Frames
      /\ \A e \in Contexts, w \in UserPages : PageAt(mem', e, w) = PageAt(mem, e, w)
  BY <1>1, <1>4 DEF TurnMemory
<1>6. /\ copy'.dir = copy.dir /\ copy'.ctx = c /\ copy'.len = len
      /\ copy'.left = l - n /\ copy'.user = u + n /\ copy'.kernel = k + n
  BY <1>0, <1>1, Advanced
<1> HIDE DEF u, k, l, len, c, n, phys, fu, fk, cp, o0
<1>7. FirstUser' = fu /\ FirstKernel' = fk /\ Copied' = cp + n
  BY <1>2, <1>3, <1>5, <1>6 DEF FirstUser, FirstKernel, Copied
<1>8. fu \in Nat /\ fk \in Nat /\ cp \in Nat /\ u = fu + cp /\ k = fk + cp
  BY <1>2, <1>3
<1>9. CASE copy.dir = "from_user"
  <2>1. data = before.data /\ FromUserExact(data, mem, kbuf, before.kbuf, c, fu, fk, cp)
    BY <1>0, <1>5, <1>9, ExactForms DEF ExactSoFar, c, fu, fk, cp
  <2>2. data' = data /\ kbuf' = copy_partial_page_from_user(data[phys], n)
    BY <1>9 DEF CopyTurn, kernel_map_virt_to_phys, phys, n, u, l
  <2>3. kbuf' = [i \in Buffer |-> IF i \in k .. k + n - 1 THEN data[phys][o0 + i - k] ELSE kbuf[i]]
    BY <2>2 DEF copy_partial_page_from_user, o0, k, u
  <2>4. kbuf' = [i \in Buffer |-> IF i \in fk + cp .. fk + cp + n - 1
                  THEN data[PageAt(mem, c, PageOf(fu + cp))][OffsetOf(fu + cp) + i - (fk + cp)]
                  ELSE kbuf[i]]
    BY <2>3, <1>5, <1>8 DEF o0
  <2>5. \A a \in fu .. fu + cp + n - 1 : PageOf(a) \in UserPages
    <3>1. TAKE a \in fu .. fu + cp + n - 1
    <3>2. a \in u - (len - l) .. u + l - 1
      BY <1>2, <1>3, <1>5, <1>8
    <3>3. QED BY <3>2, <1>2 DEF IsMapped
  <2>6. OffsetOf(fu + cp) + n <= PageSize /\ \A w \in UserPages : PageAt(mem', c, w) = PageAt(mem, c, w)
    BY <1>2, <1>5, <1>8 DEF o0
  <2>7. FromUserExact(data, mem', kbuf', before.kbuf, c, fu, fk, cp + n)
    BY <1>2, <1>5, <1>8, <2>1, <2>4, <2>5, <2>6, FromUserTurn, SMTT(60)
  <2>8. FromUserExact(data, mem, kbuf, before.kbuf, copy.ctx, FirstUser, FirstKernel, Copied)'
    BY <2>2, <2>7, <1>1, <1>6, <1>7, Zenon DEF FromUserExact, Byte
  <2>9. data' = before'.data
    BY <2>1, <2>2, <1>1
  <2>10. copy'.dir = "from_user"
    BY <1>6, <1>9
  <2>11. QED BY <2>8, <2>9, <2>10, ExactForms DEF ExactSoFar
<1>10. CASE copy.dir = "to_user"
  <2>1. kbuf = before.kbuf /\ ToUserExact(data, before.data, mem, kbuf, c, fu, fk, cp)
    BY <1>0, <1>5, <1>10, ExactForms DEF ExactSoFar, c, fu, fk, cp
  <2> DEFINE page == copy_partial_page_to_user(data[phys], n)
  <2>2. kbuf' = kbuf /\ data' = [data EXCEPT ![phys] = page]
    BY <1>10 DEF CopyTurn, kernel_map_virt_to_phys, phys, n, u, l
  <2>3. page = [o \in Offsets |-> IF o \in o0 .. o0 + n - 1 THEN kbuf[k + o - o0] ELSE data[phys][o]]
    BY DEF copy_partial_page_to_user, o0, k, u
  <2> HIDE DEF page
  <2>4. page = [o \in Offsets |->
                  IF o \in OffsetOf(fu + cp) .. OffsetOf(fu + cp) + n - 1
                    THEN kbuf[fk + cp + o - OffsetOf(fu + cp)] ELSE data[phys][o]]
    BY <2>3, <1>8 DEF o0
  <2>5. /\ OffsetOf(fu + cp) + n <= PageSize /\ PageOf(fu + cp) \in UserPages
        /\ phys = PageAt(mem, c, PageOf(fu + cp))
        /\ data \in [0 .. NFrames -> [Offsets -> Bytes]]
    BY <1>0, <1>5, <1>8 DEF o0, CopyTypeOK
  <2>6. ToUserExact(data', before.data, mem', kbuf, c, fu, fk, cp + n)
    BY <1>0, <1>2, <1>5, <1>8, <2>1, <2>2, <2>4, <2>5, ToUserTurn
  <2>7. ToUserExact(data, before.data, mem, kbuf, copy.ctx, FirstUser, FirstKernel, Copied)'
    BY <2>2, <2>6, <1>1, <1>6, <1>7, Zenon DEF ToUserExact, Byte
  <2>8. kbuf' = before'.kbuf /\ copy'.dir = "to_user"
    BY <2>1, <2>2, <1>1, <1>6, <1>10
  <2>9. QED BY <2>7, <2>8, ExactForms DEF ExactSoFar
<1>11. QED BY <1>1, <1>9, <1>10

LEMMA NoCopyType ==
  NoCopy \in [dir : {"none", "from_user", "to_user", "was_from_user", "was_to_user", "lost"},
              ctx : Contexts, user : 0 .. PageSize * Cardinality(UserPages),
              kernel : 0 .. KernelBytes, left : 0 .. KernelBytes,
              len : 0 .. KernelBytes, phys : 0 .. NFrames]
<1>1. PageSize * Cardinality(UserPages) \in Nat /\ KernelBytes \in Nat /\ NFrames \in Nat
  BY UserPagesCount, Products, UserCopyAssumption, PageTableAssumption
<1>2. (CHOOSE c \in Contexts : TRUE) \in Contexts
  BY UserCopyAssumption
<1>3. QED BY <1>1, <1>2 DEF NoCopy

\* The bytes that memory starts with.
LEMMA FirstBytes ==
  /\ \A f \in 0 .. NFrames, o \in Offsets : FirstByte(f, o) \in Bytes
  /\ \A i \in Buffer : FirstKernelByte(i) \in Bytes
<1>1. PageSize \in Nat \ {0} /\ KernelBytes \in Nat /\ NFrames \in Nat
  BY UserCopyAssumption, PageTableAssumption
<1>2. PICK top \in Nat : top = (NFrames + 1) * PageSize
  <2>1. NFrames + 1 \in Nat
    BY <1>1
  <2>2. QED BY <2>1, <1>1, Products
<1>3. ASSUME NEW f \in 0 .. NFrames, NEW o \in Offsets PROVE FirstByte(f, o) \in Bytes
  <2>1. f \in Nat /\ f * PageSize \in Nat /\ NFrames - f \in Nat
    BY <1>1, Products
  <2>2. (NFrames - f) * PageSize \in Nat
    BY <1>1, <2>1, Products
  <2>3. (NFrames - f) * PageSize = (top - PageSize) - (f * PageSize)
    BY <1>1, <1>2, <2>1
  <2>4. PICK x \in Nat : x = f * PageSize
    BY <2>1
  <2>5. x <= top - PageSize
    BY <2>2, <2>3, <2>4, <1>1
  <2>6. x + o \in 0 .. (top + KernelBytes) - 1
    BY <2>5, <1>1 DEF Offsets
  <2>7. QED BY <2>4, <2>6, <1>1, <1>2 DEF FirstByte, Bytes
<1>4. ASSUME NEW i \in Buffer PROVE FirstKernelByte(i) \in Bytes
  <2>1. top + i \in 0 .. (top + KernelBytes) - 1
    BY <1>1 DEF Buffer
  <2>2. QED BY <2>1, <1>1, <1>2 DEF FirstKernelByte, Bytes
<1>5. QED BY <1>3, <1>4

LEMMA CopyStart == ASSUME CopyInit PROVE CopyInv
<1>1. /\ mem.kused \in InUse /\ mem.free = Frames
      /\ mem.pd = [c \in Contexts |-> [i \in 0 .. NPde - 1 |-> 0]]
      /\ mem.pt = [f \in 0 .. NFrames |-> EmptyTable]
      /\ mem = [kused |-> mem.kused, free |-> mem.free, pd |-> mem.pd, pt |-> mem.pt]
  BY DEF CopyInit
<1>2. /\ NFrames \in Nat /\ NPte \in Nat \ {0} /\ InUse \subseteq 0 .. NKernelPages
      /\ MaxCopies \in Nat
  BY PageTableAssumption, UserCopyAssumption
<1>3. EmptyTable \in [0 .. NPte - 1 -> EntryType]
  BY <1>2 DEF EmptyTable, NoEntry, EntryType
<1>4. mem \in MemoryType
  <2>1. mem.pd \in [Contexts -> [0 .. NPde - 1 -> 0 .. NFrames]]
    BY <1>1, <1>2
  <2>2. mem.pt \in [0 .. NFrames -> [0 .. NPte - 1 -> EntryType]]
    BY <1>1, <1>3
  <2>3. mem.kused \in 0 .. NKernelPages /\ mem.free \in SUBSET Frames
    BY <1>1, <1>2
  <2>4. QED BY <1>1, <2>1, <2>2, <2>3 DEF MemoryType
<1>5. \A c \in Contexts : \A i \in 0 .. NPde - 1 : mem.pd[c][i] = 0
  BY <1>1
<1>6. 0 \notin Frames
  BY <1>2 DEF Frames
<1>7. \A c \in Contexts, u \in UserPages : PageAt(mem, c, u) = 0
  <2>1. TAKE c \in Contexts, u \in UserPages
  <2>2. PdIndex(u) \in 0 .. NPde - 1
    BY Indexes
  <2>3. mem.pd[c][PdIndex(u)] = 0
    BY <2>2, <1>5
  <2>4. QED BY <2>3 DEF PageAt, Translation, NoEntry
<1>8. TablesApart(mem)
  BY <1>1, <1>5, <1>6 DEF TablesApart
<1>9. Apart(mem)
  BY <1>4, <1>7, <1>8, PageZero DEF Apart
<1>10. copy = NoCopy /\ copy.dir = "none" /\ copies = 0
  BY DEF CopyInit, NoCopy
<1>11. CopyTypeOK
  <2>1. data \in [0 .. NFrames -> [Offsets -> Bytes]] /\ kbuf \in [Buffer -> Bytes]
    BY FirstBytes DEF CopyInit
  <2>2. before = [data |-> data, kbuf |-> kbuf]
    BY DEF CopyInit
  <2>3. copies \in 0 .. MaxCopies
    BY <1>2, <1>10
  <2>4. QED BY <1>4, <1>10, <2>1, <2>2, <2>3, NoCopyType DEF CopyTypeOK
<1>12. QED BY <1>9, <1>10, <1>11 DEF CopyInv, CopyInRange, CopyExact

\* Mapping a page between two copies.
LEMMA MapPageKeeps ==
  ASSUME CopyInv, NEW c, NEW v, MapPage(c, v)
  PROVE  CopyInv'
<1>1. c \in Contexts /\ v \in UserPages \ {0}
  BY UserCopyAssumption DEF MapPage
<1>2. CopyTypeOK /\ Apart(mem)
  BY DEF CopyInv
<1>3. Apart(mem')
  BY <1>1, <1>2, ApartMapPage DEF MapPage
<1>4. copy' = NoCopy /\ copy'.dir = "none" /\ before' = [data |-> data, kbuf |-> kbuf]
      /\ data' = data /\ kbuf' = kbuf /\ copies' = copies
  BY DEF MapPage, NoCopy
<1>5. CopyTypeOK'
  <2>1. mem' \in MemoryType
    BY <1>3 DEF Apart
  <2>2. QED BY <2>1, <1>2, <1>4, NoCopyType DEF CopyTypeOK
<1>6. QED BY <1>3, <1>4, <1>5 DEF CopyInv, CopyInRange, CopyExact

\* A copy is called.
LEMMA BeginKeeps ==
  ASSUME CopyInv, NEW dir \in {"from_user", "to_user"}, NEW c \in Contexts, NEW user \in UserAddresses,
         NEW kernel \in Buffer, NEW len \in 0 .. KernelBytes - kernel, copies < MaxCopies,
         BeginCopy(dir, c, user, kernel, len)
  PROVE  CopyInv'
<1> DEFINE end == PageSize * Cardinality(UserPages)
           to == IF mem.kused < NKernelPages THEN dir ELSE "lost"
           ku == Min({NKernelPages, mem.kused + 1})
<1>1. /\ CopyTypeOK /\ Apart(mem) /\ mem \in MemoryType /\ mem.kused \in 0 .. NKernelPages
      /\ NKernelPages \in Nat /\ KernelBytes \in Nat /\ MaxCopies \in Nat /\ NFrames \in Nat
  BY UserCopyAssumption, PageTableAssumption DEF CopyInv, Apart, MemoryType
<1>2. end \in Nat
  BY UserPagesCount, UserCopyAssumption, Products
<1>3. /\ copy' = [dir |-> to, ctx |-> c, user |-> user, kernel |-> kernel, left |-> len,
                  len |-> len, phys |-> 0]
      /\ mem' = [mem EXCEPT !.kused = ku] /\ copies' = copies + 1
      /\ before' = [data |-> data, kbuf |-> kbuf] /\ data' = data /\ kbuf' = kbuf
      /\ \A a \in {user} \cup (user .. user + len - 1) : IsMapped(c, PageOf(a))
  BY DEF BeginCopy
<1>4. ku \in 0 .. NKernelPages
  <2>1. \E x \in {NKernelPages, mem.kused + 1} : \A y \in {NKernelPages, mem.kused + 1} : x <= y
    BY <1>1
  <2>2. ku \in {NKernelPages, mem.kused + 1} /\ ku <= NKernelPages
    BY <2>1 DEF Min
  <2> HIDE DEF ku
  <2>3. QED BY <2>2, <1>1
<1>5. /\ copy'.dir = to /\ copy'.ctx = c /\ copy'.user = user /\ copy'.kernel = kernel
      /\ copy'.left = len /\ copy'.len = len
  BY <1>3
<1>6. to \in {"from_user", "to_user", "lost"}
  OBVIOUS
<1> HIDE DEF ku, end, to
<1>7. mem' \in MemoryType /\ mem'.free = mem.free /\ mem'.pd = mem.pd /\ mem'.pt = mem.pt
  BY <1>1, <1>3, <1>4 DEF MemoryType
<1>8. \A d \in Contexts, u \in UserPages : PageAt(mem', d, u) = PageAt(mem, d, u)
  BY <1>7 DEF PageAt, Translation
<1>9. Apart(mem')
  BY <1>1, <1>7, <1>8, ApartSame
<1>10. /\ user \in Nat /\ user < end /\ kernel \in Nat /\ len \in Nat /\ kernel + len <= KernelBytes
       /\ user + len <= end
  <2>1. user \in Nat /\ user < end /\ kernel \in Nat /\ len \in Nat /\ kernel + len <= KernelBytes
    BY <1>1, <1>2 DEF UserAddresses, Buffer, end
  <2>2. CASE len = 0
    BY <2>1, <2>2, <1>2
  <2>3. CASE len # 0
    <3>1. PICK a \in Nat : a = user + len - 1
      BY <2>1, <2>3
    <3>2. a \in user .. user + len - 1
      BY <2>1, <2>3, <3>1
    <3>3. PageOf(a) \in UserPages
      BY <3>2, <1>3 DEF IsMapped
    <3>4. a < end
      BY <3>3, UserEnd DEF end
    <3>5. QED BY <2>1, <3>1, <3>4, <1>2
  <2>4. QED BY <2>1, <2>2, <2>3
<1>11. CopyTypeOK'
  <2>1. /\ user \in 0 .. PageSize * Cardinality(UserPages) /\ kernel \in 0 .. KernelBytes
        /\ len \in 0 .. KernelBytes /\ 0 \in 0 .. NFrames
    BY <1>1, <1>2, <1>10 DEF end
  <2>2. to \in {"none", "from_user", "to_user", "was_from_user", "was_to_user", "lost"}
    BY <1>6
  <2>3. copy' \in [dir : {"none", "from_user", "to_user", "was_from_user", "was_to_user", "lost"},
              ctx : Contexts, user : 0 .. PageSize * Cardinality(UserPages),
              kernel : 0 .. KernelBytes, left : 0 .. KernelBytes,
              len : 0 .. KernelBytes, phys : 0 .. NFrames]
    BY <1>3, <2>1, <2>2
  <2>4. copies' \in 0 .. MaxCopies
    BY <1>1, <1>3 DEF CopyTypeOK
  <2>5. QED BY <1>1, <1>3, <1>7, <2>3, <2>4 DEF CopyTypeOK
<1>12. FirstUser' = user /\ FirstKernel' = kernel /\ Copied' = 0
  BY <1>5, <1>10 DEF FirstUser, FirstKernel, Copied
<1>13. CopyInRange'
  <2>1. \A a \in user .. user + len - 1 : IsMapped(copy.ctx, PageOf(a))'
    <3>1. TAKE a \in user .. user + len - 1
    <3>2. IsMapped(c, PageOf(a))
      BY <1>3
    <3>3. QED BY <3>2, <1>5, <1>8 DEF IsMapped, PageAt
  <2>2. QED BY <1>5, <1>10, <1>12, <2>1 DEF CopyInRange, end
<1>14. CopyExact'
  <2>1. FromUserExact(data, mem, kbuf, before.kbuf, copy.ctx, FirstUser, FirstKernel, Copied)'
    <3>1. \A i \in Buffer : i \notin kernel .. kernel + 0 - 1
      BY <1>10 DEF Buffer
    <3>2. kbuf' = [i \in Buffer |-> before'.kbuf[i]]
      BY <1>1, <1>3 DEF CopyTypeOK
    <3>3. QED BY <3>1, <3>2, <1>12 DEF FromUserExact
  <2>2. ToUserExact(data, before.data, mem, kbuf, copy.ctx, FirstUser, FirstKernel, Copied)'
    <3>1. \A a \in UserAddresses : a \notin user .. user + 0 - 1
      BY <1>2, <1>10 DEF UserAddresses, end
    <3>2. data' = before'.data
      BY <1>3
    <3>3. QED BY <3>1, <3>2, <1>12 DEF ToUserExact
  <2>3. data' = before'.data /\ kbuf' = before'.kbuf
    BY <1>3
  <2>4. QED BY <2>1, <2>2, <2>3, <1>5, <1>6, ExactForms DEF ExactSoFar
<1>15. QED BY <1>9, <1>11, <1>13, <1>14 DEF CopyInv

\* The end of a copy, and of one whose page was never set.
LEMMA EndKeeps ==
  ASSUME CopyInv, CopyLost \/ CopyDone
  PROVE  CopyInv'
<1>1. /\ CopyTypeOK /\ Apart(mem) /\ CopyInRange /\ CopyExact
      /\ data' = data /\ kbuf' = kbuf /\ before' = before /\ copies' = copies /\ InCopy
  BY DEF CopyInv, CopyLost, CopyDone
<1>2. PICK to \in {"was_from_user", "was_to_user", "lost"} :
        /\ copy' = [copy EXCEPT !.dir = to]
        /\ to = "lost" \/ copy.left = 0
        /\ to = "was_from_user" => copy.dir = "from_user"
        /\ to = "was_to_user" => copy.dir = "to_user"
  BY <1>1 DEF CopyLost, CopyDone, InCopy
<1>3. /\ copy'.dir = to /\ copy'.ctx = copy.ctx /\ copy'.user = copy.user
      /\ copy'.kernel = copy.kernel /\ copy'.left = copy.left /\ copy'.len = copy.len
      /\ copy'.phys = copy.phys
  BY <1>1, <1>2 DEF CopyTypeOK
<1>4. /\ Apart(mem') /\ (to # "lost" => mem' = mem)
      /\ \A d \in Contexts, w \in UserPages : PageAt(mem', d, w) = PageAt(mem, d, w)
  <2>1. CASE CopyLost
    <3>1. copy'.dir = "lost"
      BY <2>1, <1>1 DEF CopyLost, CopyTypeOK
    <3>2. QED BY <2>1, <3>1, <1>1, <1>3, TurnStarts DEF CopyLost, TurnMemory
  <2>2. CASE CopyDone
    BY <2>2, <1>1 DEF CopyDone
  <2>3. QED BY <2>1, <2>2
<1>5. CopyTypeOK'
  <2>1. copy' \in [dir : {"none", "from_user", "to_user", "was_from_user", "was_to_user", "lost"},
              ctx : Contexts, user : 0 .. PageSize * Cardinality(UserPages),
              kernel : 0 .. KernelBytes, left : 0 .. KernelBytes,
              len : 0 .. KernelBytes, phys : 0 .. NFrames]
    BY <1>1, <1>2 DEF CopyTypeOK
  <2>2. mem' \in MemoryType
    BY <1>4 DEF Apart
  <2>3. QED BY <1>1, <2>1, <2>2 DEF CopyTypeOK
<1>6. FirstUser' = FirstUser /\ FirstKernel' = FirstKernel /\ Copied' = Copied
  BY <1>3 DEF FirstUser, FirstKernel, Copied
<1>7. CopyInRange'
  <2>1. /\ copy.left <= copy.len /\ Copied <= copy.user /\ Copied <= copy.kernel
        /\ copy.kernel + copy.left <= KernelBytes
        /\ copy.user + copy.left <= PageSize * Cardinality(UserPages)
        /\ \A a \in FirstUser .. copy.user + copy.left - 1 : IsMapped(copy.ctx, PageOf(a))
    BY <1>1 DEF CopyInRange, InCopy
  <2>2. copy.ctx \in Contexts
    BY <1>1 DEF CopyTypeOK
  <2>3. \A a : IsMapped(copy.ctx, PageOf(a)) => IsMapped(copy.ctx, PageOf(a))'
    BY <2>2, <1>3, <1>4 DEF IsMapped, PageAt
  <2>4. QED BY <2>1, <2>3, <1>3, <1>6 DEF CopyInRange
<1>8. CopyExact'
  <2>1. CASE to = "lost"
    BY <2>1, <1>2, <1>3, ExactForms DEF ExactSoFar
  <2>2. CASE to # "lost"
    <3>1. mem' = mem /\ copy.left = 0
      BY <2>2, <1>2, <1>4
    <3>2. Copied = copy.len
      BY <3>1, <1>1 DEF Copied, CopyTypeOK
    <3>3. ExactSoFar /\ copy.dir \in {"from_user", "to_user"}
      BY <1>1, ExactForms DEF InCopy
    <3>4. QED BY <3>1, <3>2, <3>3, <1>1, <1>2, <1>3, <1>6, <2>2, ExactForms DEF ExactSoFar
  <2>3. QED BY <2>1, <2>2
<1>9. QED BY <1>4, <1>5, <1>7, <1>8 DEF CopyInv

\* Every call and every turn preserves the invariant.
LEMMA CopyStep == CopyInv /\ [CopyNext]_copyvars => CopyInv'
<1> SUFFICES ASSUME CopyInv, [CopyNext]_copyvars PROVE CopyInv'
  OBVIOUS
<1>1. ASSUME NEW slot \in Mappable, MapPage(slot[1], slot[2]) PROVE CopyInv'
  BY <1>1, MapPageKeeps
<1>2. ASSUME copies < MaxCopies,
             NEW dir \in {"from_user", "to_user"}, NEW c \in Contexts, NEW user \in UserAddresses,
             NEW kernel \in Buffer, NEW len \in 0 .. KernelBytes - kernel,
             BeginCopy(dir, c, user, kernel, len)
      PROVE  CopyInv'
  BY <1>2, BeginKeeps
<1>3. CASE CopyTurn
  BY <1>3, TurnTypes, TurnExact DEF CopyInv
<1>4. CASE CopyLost \/ CopyDone
  BY <1>4, EndKeeps
<1>5. CASE UNCHANGED copyvars
  BY <1>5, ExactForms
     DEF copyvars, CopyInv, CopyTypeOK, CopyInRange, ExactSoFar, IsMapped, FirstUser, FirstKernel, Copied
<1>6. QED BY <1>1, <1>2, <1>3, <1>4, <1>5 DEF CopyNext, Copying

\* The invariant of the copies holds in every reachable state.
THEOREM CopyInvariant == CopySpec => []CopyInv
<1>1. CopyInit => CopyInv
  BY CopyStart
<1>2. QED BY <1>1, CopyStep, PTL DEF CopySpec

\* No counter of virtmem_copy_user_to_kernel or virtmem_copy_kernel_to_user
\* leaves its range, whatever the length and the offsets.
THEOREM CopyTypes == CopySpec => []CopyTypeOK
<1>1. CopyInv => CopyTypeOK
  BY DEF CopyInv
<1>2. QED BY <1>1, CopyInvariant, PTL

\* The two copy functions move the bytes they were asked to move and touch no
\* others, as long as the kernel window lasts: for every page size, every
\* length and offset, every number of contexts and whatever was mapped before.
THEOREM CopiesExact == CopySpec => []CopyExact
<1>1. CopyInv => CopyExact
  BY DEF CopyInv
<1>2. QED BY <1>1, CopyInvariant, PTL
=============================================================================
