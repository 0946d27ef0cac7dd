------------------------- MODULE BootMemory_proofs -------------------------
(***************************************************************************)
(* Proofs about the kernel's memory from boot on, for every memory map, of *)
(* any number of areas, and for memory of any size.                        *)
(***************************************************************************)
EXTENDS BootMemory, ListLemmas, FiniteSetTheorems, TLAPS

Heads == {freelist, bootlist}
Span(e) == FirstPage(e) .. LastPage(e)
NP == NAddresses \div PageSize

Entries == [base : 0 .. NAddresses - 1, length : 0 .. NAddresses - 1,
            usable : BOOLEAN, high : BOOLEAN]

-----------------------------------------------------------------------------
LEMMA Division ==
  ASSUME NEW n \in Nat, NEW d \in Nat \ {0}
  PROVE  /\ n \div d \in Nat /\ n % d \in 0 .. d - 1
         /\ n = (d * (n \div d)) + (n % d)
  OBVIOUS

LEMMA ProductBelow ==
  ASSUME NEW d \in Nat \ {0}, NEW a \in Int, NEW b \in Int
  PROVE  (d * a < d * b) <=> (a < b)
<1>1. CASE a < b
  <2>1. PICK c \in Nat \ {0} : b = a + c
    <3>1. b - a \in Nat \ {0} /\ b = a + (b - a)
      BY <1>1
    <3>2. QED BY <3>1
  <2>2. d * b = d * a + d * c /\ d * c > 0
    BY <2>1
  <2>3. QED BY <1>1, <2>2
<1>2. CASE b <= a
  <2>1. PICK c \in Nat : a = b + c
    <3>1. a - b \in Nat /\ a = b + (a - b)
      BY <1>2
    <3>2. QED BY <3>1
  <2>2. d * a = d * b + d * c /\ d * c >= 0
    BY <2>1
  <2>3. QED BY <1>2, <2>2
<1>3. QED BY <1>1, <1>2

LEMMA Numbers ==
  /\ PageSize \in Nat \ {0} /\ NPte \in Nat \ {0} /\ NKernelPde \in Nat \ {0}
  /\ NStartPde \in Nat \ {0} /\ NKernelPages \in Nat \ {0} /\ NAddresses \in Nat \ {0}
  /\ LowLimit \in Nat /\ KernelEnd \in Nat /\ EntrySize \in Nat \ {0} /\ LowLimit <= KernelEnd
<1>1. /\ PageSize \in Nat \ {0} /\ NPte \in Nat \ {0} /\ NKernelPde \in Nat \ {0}
      /\ NStartPde \in Nat \ {0} /\ NAddresses \in Nat \ {0}
      /\ LowLimit \in Nat /\ KernelEnd \in Nat /\ EntrySize \in Nat \ {0} /\ LowLimit <= KernelEnd
  BY KernelSpaceAssumption, BootAssumption
<1>2. NPte * NKernelPde \in Nat \ {0}
  BY <1>1
<1>3. QED BY <1>1, <1>2 DEF NKernelPages

\* Memory is a whole number of pages, and the kernel's addresses are no more.
LEMMA PageNumbers ==
  /\ NP \in Nat \ {0} /\ NAddresses = PageSize * NP /\ NP <= NAddresses
  /\ Pages = 0 .. NP - 1 /\ 0 \in Pages
  /\ IsFiniteSet(Pages) /\ Cardinality(Pages) = NP
  /\ NKernelPages <= NP /\ KernelPages \subseteq Pages
<1>1. NP \in Nat /\ NAddresses = (PageSize * NP) + (NAddresses % PageSize)
  BY Numbers, Division DEF NP
<1>2. NAddresses = PageSize * NP
  <2>1. NAddresses % PageSize = 0
    BY BootAssumption
  <2>2. PageSize * NP \in Nat
    BY <1>1, Numbers
  <2>3. QED BY <1>1, <2>1, <2>2
<1>3. NP \in Nat \ {0} /\ NP <= NAddresses
  <2>1. NP # 0
    BY <1>1, <1>2, Numbers
  <2>2. PageSize >= 1 => PageSize * NP >= NP
    BY <1>1, Numbers
  <2>3. QED BY <1>1, <1>2, <2>1, <2>2, Numbers
<1>4. Pages = 0 .. NP - 1
  BY DEF Pages, NP
<1>5. IsFiniteSet(Pages) /\ Cardinality(Pages) = NP
  BY <1>3, <1>4, FS_Interval
<1>6. NKernelPages <= NP
  <2>1. PageSize * NKernelPages <= PageSize * NP
    BY <1>2, BootAssumption
  <2>2. ~(PageSize * NP < PageSize * NKernelPages)
    <3>1. PageSize * NP \in Nat /\ PageSize * NKernelPages \in Nat
      BY <1>1, Numbers
    <3>2. QED BY <2>1, <3>1
  <2>3. ~(NP < NKernelPages)
    BY <2>2, <1>3, Numbers, ProductBelow
  <2>4. QED BY <2>3, <1>3, Numbers
<1>7. 0 \in Pages /\ KernelPages \subseteq Pages
  BY <1>3, <1>4, <1>6, Numbers DEF KernelPages
<1>8. QED BY <1>2, <1>3, <1>4, <1>5, <1>6, <1>7

\* The first page that begins at an address or above.
LEMMA PageUpIs ==
  ASSUME NEW x \in Nat
  PROVE  /\ PageUp(x) \in Nat /\ PageSize * PageUp(x) \in Nat
         /\ x <= PageSize * PageUp(x) /\ PageSize * PageUp(x) < x + PageSize
<1> DEFINE y == x + PageSize - 1
           r == y % PageSize
<1>1. y \in Nat /\ PageSize \in Nat \ {0} /\ PageUp(x) = y \div PageSize
  BY Numbers DEF PageUp
<1> HIDE DEF y
<1>2. PageUp(x) \in Nat /\ r \in 0 .. PageSize - 1 /\ y = (PageSize * PageUp(x)) + r
  BY <1>1, Division
<1>3. PageSize * PageUp(x) \in Nat
  BY <1>1, <1>2
<1> HIDE DEF r
<1>4. QED BY <1>1, <1>2, <1>3 DEF y

LEMMA PageUpMonotonic ==
  ASSUME NEW x \in Nat, NEW y \in Nat, x <= y
  PROVE  PageUp(x) <= PageUp(y)
<1>1. /\ PageUp(x) \in Nat /\ PageSize * PageUp(x) \in Nat /\ PageSize * PageUp(x) < x + PageSize
      /\ PageUp(y) \in Nat /\ PageSize * PageUp(y) \in Nat /\ y <= PageSize * PageUp(y)
  BY PageUpIs
<1>2. PageSize * (PageUp(y) + 1) = PageSize * PageUp(y) + PageSize
  BY <1>1, Numbers
<1>3. PageSize * PageUp(x) < PageSize * (PageUp(y) + 1)
  BY <1>1, <1>2, Numbers
<1>4. PageUp(x) < PageUp(y) + 1
  BY <1>1, <1>3, Numbers, ProductBelow
<1>5. QED BY <1>1, <1>4

\* The limits that leave the page at the limit among the kernel's addresses.
LimitFits(x) == x \in Nat /\ x + PageSize <= PageSize * NKernelPages

LEMMA LimitInWindow ==
  ASSUME NEW x, LimitFits(x)
  PROVE  PageUp(x) \in KernelPages
<1>1. x \in Nat /\ x + PageSize <= PageSize * NKernelPages /\ PageSize * NKernelPages \in Nat
  BY Numbers DEF LimitFits
<1>2. PageUp(x) \in Nat /\ PageSize * PageUp(x) < PageSize * NKernelPages
  BY <1>1, PageUpIs, Numbers
<1>3. PageUp(x) < NKernelPages
  BY <1>2, Numbers, ProductBelow
<1>4. QED BY <1>2, <1>3, Numbers DEF KernelPages

\* startpage and lastpage are pages.
LEMMA AreaPages ==
  ASSUME NEW e \in Entries
  PROVE  /\ FirstPage(e) \in Pages /\ LastPage(e) \in Pages
         /\ FirstPage(e) \in Nat /\ LastPage(e) \in Nat /\ FirstPage(e) <= LastPage(e)
         /\ Span(e) \subseteq Pages /\ LastPage(e) < NP
<1>1. e.base \in Nat /\ e.length \in Nat
  BY Numbers DEF Entries
<1>2. ASSUME NEW x \in Nat PROVE (x % NAddresses) \div PageSize \in 0 .. NP - 1
  <2>1. x % NAddresses \in 0 .. NAddresses - 1
    BY Numbers, Division
  <2>2. PICK y \in Nat : y = x % NAddresses /\ y < NAddresses
    BY <2>1, Numbers
  <2>3. y \div PageSize \in Nat /\ y % PageSize \in 0 .. PageSize - 1
        /\ y = (PageSize * (y \div PageSize)) + (y % PageSize)
    BY Numbers, Division
  <2>4. PICK q \in Nat : q = y \div PageSize
    BY <2>3
  <2>5. PageSize * q <= y /\ PageSize * q \in Nat /\ PageSize * NP \in Nat
    BY <2>3, <2>4, PageNumbers, Numbers
  <2>6. PageSize * q < PageSize * NP
    BY <2>2, <2>5, PageNumbers
  <2>7. q < NP
    BY <2>6, PageNumbers, Numbers, ProductBelow
  <2>8. QED BY <2>2, <2>4, <2>7, PageNumbers
<1>3. FirstPage(e) \in 0 .. NP - 1
  <2>1. e.base + PageSize - 1 \in Nat
    BY <1>1, Numbers
  <2>2. QED BY <2>1, <1>2 DEF FirstPage
<1>4. LastPage(e) \in 0 .. NP - 1 /\ FirstPage(e) <= LastPage(e)
  <2> DEFINE b == ((e.base + e.length + PageSize - 1) % NAddresses) \div PageSize
             a == FirstPage(e)
  <2>1. b \in 0 .. NP - 1
    <3>1. e.base + e.length + PageSize - 1 \in Nat
      BY <1>1, Numbers
    <3>2. QED BY <3>1, <1>2
  <2>2. LastPage(e) = CHOOSE x \in {a, b} : \A y \in {a, b} : x >= y
    BY DEF LastPage, Max
  <2> HIDE DEF a, b
  <2>3. \E x \in {a, b} : \A y \in {a, b} : x >= y
    BY <2>1, <1>3, PageNumbers DEF a
  <2>4. LastPage(e) \in {a, b} /\ LastPage(e) >= a
    BY <2>2, <2>3
  <2>5. QED BY <2>1, <2>4, <1>3, PageNumbers DEF a
<1>5. QED BY <1>3, <1>4, PageNumbers DEF Span
-----------------------------------------------------------------------------
\* The kernel's page tables.
KernType == [pte : [KernelPages -> Pages \cup {Absent}],
             limit : Nat,
             dir : [Pages -> [PdEntries -> Int]],
             cr3 : Pages]

Below(k) == \A i \in KernelPages : i <= PageUp(k.limit) => k.pte[i] = i

LEMMA AbsentIsNoPage == Absent \notin Pages /\ Absent \in Int /\ KernelPd \in Pages
  BY PageNumbers DEF Absent, KernelPd

LEMMA TablesTyped == setup_tables(Pages) \in KernType
<1> DEFINE k == setup_tables(Pages)
<1>1. {KernelPd} \cup Pages = Pages /\ KernelPd \in Pages
  BY AbsentIsNoPage
<1>2. k.pte \in [KernelPages -> Pages \cup {Absent}]
  BY PageNumbers DEF setup_tables
<1>3. k.dir \in [Pages -> [PdEntries -> Int]]
  BY <1>1 DEF setup_tables, Garbage, Absent
<1>4. k.limit \in Nat /\ k.cr3 \in Pages /\ k = [pte |-> k.pte, limit |-> k.limit, dir |-> k.dir, cr3 |-> k.cr3]
  BY <1>1 DEF setup_tables
<1> HIDE DEF k
<1>5. k \in KernType
  BY <1>2, <1>3, <1>4 DEF KernType
<1>6. QED BY <1>5 DEF k

\* brk raises the limit, and what is below the new limit shows its own frame
\* if what is below the old one does.
LEMMA BrkIs ==
  ASSUME NEW k \in KernType, LimitFits(k.limit), Below(k), NEW x, LimitFits(x)
  PROVE  LET n == i686_brk(k, x)
         IN /\ n \in KernType /\ LimitFits(n.limit) /\ Below(n)
            /\ x <= n.limit /\ k.limit <= n.limit
            /\ n.dir = k.dir /\ n.cr3 = k.cr3
<1> DEFINE n == i686_brk(k, x)
           tab == [i \in KernelPages |->
                     IF i \in PageUp(k.limit) + 1 .. PageUp(x) THEN i ELSE k.pte[i]]
<1>1. /\ k.pte \in [KernelPages -> Pages \cup {Absent}] /\ k.limit \in Nat
      /\ k.dir \in [Pages -> [PdEntries -> Int]] /\ k.cr3 \in Pages
  BY DEF KernType
<1>2. x \in Nat
  BY DEF LimitFits
<1>3. CASE x < k.limit
  <2>1. n = k
    BY <1>3 DEF i686_brk
  <2> HIDE DEF n
  <2>2. n \in KernType /\ LimitFits(n.limit) /\ Below(n) /\ x <= n.limit /\ k.limit <= n.limit
        /\ n.dir = k.dir /\ n.cr3 = k.cr3
    BY <2>1, <1>1, <1>2, <1>3
  <2>3. QED BY <2>2 DEF n
<1>4. CASE ~(x < k.limit)
  <2>1. n = [k EXCEPT !.limit = x, !.pte = tab]
    BY <1>4 DEF i686_brk
  <2>2. tab \in [KernelPages -> Pages \cup {Absent}]
    BY <1>1, PageNumbers
  <2>3. \A i \in KernelPages : tab[i] = IF i \in PageUp(k.limit) + 1 .. PageUp(x) THEN i ELSE k.pte[i]
    OBVIOUS
  <2> HIDE DEF tab
  <2>4. n.limit = x /\ n.pte = tab /\ n.dir = k.dir /\ n.cr3 = k.cr3 /\ n \in KernType
    <3>1. n = [pte |-> tab, limit |-> x, dir |-> k.dir, cr3 |-> k.cr3]
      BY <2>1 DEF KernType
    <3>2. n.limit = x /\ n.pte = tab /\ n.dir = k.dir /\ n.cr3 = k.cr3
      BY <3>1
    <3>3. n \in KernType
      BY <3>1, <2>2, <1>1, <1>2 DEF KernType
    <3>4. QED BY <3>2, <3>3
  <2> HIDE DEF n
  <2>5. Below(n)
    <3> SUFFICES ASSUME NEW i \in KernelPages, i <= PageUp(x) PROVE tab[i] = i
      BY <2>4 DEF Below
    <3>1. PageUp(k.limit) \in Nat /\ PageUp(x) \in Nat /\ i \in Nat
      <4>1. PageUp(k.limit) \in Nat /\ PageUp(x) \in Nat
        BY <1>1, <1>2, PageUpIs, Zenon
      <4>2. i \in Nat
        BY Numbers DEF KernelPages
      <4>3. QED BY <4>1, <4>2
    <3>2. CASE i <= PageUp(k.limit)
      BY <3>1, <3>2, <2>3 DEF Below
    <3>3. CASE i > PageUp(k.limit)
      <4>1. i \in PageUp(k.limit) + 1 .. PageUp(x)
        BY <3>1, <3>3
      <4>2. QED BY <4>1, <2>3
    <3>4. QED BY <3>1, <3>2, <3>3
  <2>6. x <= n.limit /\ k.limit <= n.limit
    BY <2>4, <1>1, <1>2, <1>4
  <2>7. LimitFits(n.limit)
    BY <2>4
  <2>8. QED BY <2>4, <2>5, <2>6, <2>7 DEF n
<1>5. QED BY <1>3, <1>4

\* i686_kernel_alloc takes a page that was absent.
LEMMA AllocIs ==
  ASSUME NEW k \in KernType, CanAlloc(k)
  PROVE  LET n == i686_kernel_alloc(k)
         IN /\ NextPage(k) \in KernelPages /\ k.pte[NextPage(k)] = Absent
            /\ n \in KernType /\ n.limit = k.limit /\ n.dir = k.dir /\ n.cr3 = k.cr3
            /\ n.pte = [k.pte EXCEPT ![NextPage(k)] = 0]
<1> DEFINE S == {i \in KernelPages : k.pte[i] = Absent}
           n == i686_kernel_alloc(k)
           p == NextPage(k)
<1>1. S # {} /\ S \subseteq Nat
  BY Numbers DEF CanAlloc, KernelPages
<1>2. \E x \in S : \A y \in S : x <= y
  BY <1>1, LeastNat
<1>3. NextPage(k) \in S
  <2>1. NextPage(k) = CHOOSE x \in S : \A y \in S : x <= y
    BY DEF NextPage, Min
  <2> HIDE DEF S
  <2>2. QED BY <2>1, <1>2
<1>4. p \in KernelPages /\ k.pte[p] = Absent
  BY <1>3
<1>5. n = [k EXCEPT !.pte = [k.pte EXCEPT ![p] = 0]]
  BY DEF i686_kernel_alloc
<1> HIDE DEF S, p, n
<1>6. n.pte = [k.pte EXCEPT ![p] = 0] /\ n.limit = k.limit /\ n.dir = k.dir /\ n.cr3 = k.cr3 /\ n \in KernType
  BY <1>4, <1>5, PageNumbers DEF KernType
<1>7. QED BY <1>4, <1>6 DEF n, p

\* i686_kernel_map_virt_to_phys
LEMMA MapIs ==
  ASSUME NEW k \in KernType, NEW f \in Pages, NEW p \in KernelPages
  PROVE  LET n == i686_kernel_map_virt_to_phys(k, f, p)
         IN /\ n \in KernType /\ n.limit = k.limit /\ n.dir = k.dir /\ n.cr3 = k.cr3
            /\ n.pte = [k.pte EXCEPT ![p] = f]
<1> DEFINE n == i686_kernel_map_virt_to_phys(k, f, p)
<1>1. n = [k EXCEPT !.pte = [k.pte EXCEPT ![p] = f]]
  BY DEF i686_kernel_map_virt_to_phys
<1> HIDE DEF n
<1>2. n.pte = [k.pte EXCEPT ![p] = f] /\ n.limit = k.limit /\ n.dir = k.dir /\ n.cr3 = k.cr3 /\ n \in KernType
  BY <1>1 DEF KernType
<1>3. QED BY <1>2 DEF n

\* A directory is written.
LEMMA DirIs ==
  ASSUME NEW k \in KernType, NEW d \in Pages, NEW t \in [PdEntries -> Int]
  PROVE  LET n == [k EXCEPT !.dir[d] = t]
         IN /\ n \in KernType /\ n.limit = k.limit /\ n.cr3 = k.cr3 /\ n.pte = k.pte
            /\ n.dir = [k.dir EXCEPT ![d] = t]
<1> DEFINE n == [k EXCEPT !.dir[d] = t]
<1>1. n = [k EXCEPT !.dir = [k.dir EXCEPT ![d] = t]]
  OBVIOUS
<1> HIDE DEF n
<1>2. n.dir = [k.dir EXCEPT ![d] = t] /\ n.limit = k.limit /\ n.pte = k.pte /\ n.cr3 = k.cr3 /\ n \in KernType
  BY <1>1 DEF KernType
<1>3. QED BY <1>2 DEF n

LEMMA PdesTyped ==
  ASSUME NEW t \in [PdEntries -> Int]
  PROVE  /\ i686_set_kernel_pdes(t) \in [PdEntries -> Int]
         /\ \A e \in PdEntries : i686_set_kernel_pdes(t)[e] = IF e < NStartPde THEN t[e] ELSE e - NStartPde
  BY Numbers DEF i686_set_kernel_pdes, PdEntries
-----------------------------------------------------------------------------
\* The loop over the pages of an area: the lists after each turn.
Turns(f, l, first, n) ==
  f = [i \in 0 .. n |-> IF i = 0 THEN l
                        ELSE LIST_INSERT_HEAD(f[i - 1], ListFor(first + i - 1), first + i - 1)]

LEMMA TurnsExist ==
  ASSUME NEW l, NEW first \in Nat, NEW n \in Nat
  PROVE  \E f : Turns(f, l, first, n)
<1> DEFINE Bad == {m \in Nat : ~\E f : Turns(f, l, first, m)}
<1>1. CASE Bad = {}
  BY <1>1
<1>2. CASE Bad # {}
  <2>1. PICK m \in Bad : \A k \in Bad : m <= k
    <3>1. Bad \subseteq Nat
      OBVIOUS
    <3> HIDE DEF Bad
    <3>2. QED BY <3>1, <1>2, LeastNat
  <2>2. m \in Nat /\ ~\E f : Turns(f, l, first, m)
    BY <2>1
  <2>3. m # 0
    <3>1. Turns([i \in 0 .. 0 |-> l], l, first, 0)
      BY DEF Turns
    <3>2. QED BY <3>1, <2>2
  <2>4. m - 1 \in Nat /\ m - 1 \notin Bad
    BY <2>1, <2>2, <2>3
  <2>5. PICK f : Turns(f, l, first, m - 1)
    BY <2>4
  <2> HIDE DEF Bad
  <2> DEFINE Step(i, x) == LIST_INSERT_HEAD(x, ListFor(first + i - 1), first + i - 1)
             g == [i \in 0 .. m |-> IF i = m THEN Step(m, f[m - 1]) ELSE f[i]]
  <2>6. \A i \in 0 .. m - 1 : f[i] = IF i = 0 THEN l ELSE Step(i, f[i - 1])
    BY <2>5 DEF Turns
  <2>7. Turns(g, l, first, m)
    <3>1. \A i \in 0 .. m : g[i] = IF i = m THEN Step(m, f[m - 1]) ELSE f[i]
      OBVIOUS
    <3>2. \A i \in 0 .. m - 1 : g[i] = f[i]
      BY <3>1, <2>2
    <3>3. ASSUME NEW i \in 0 .. m PROVE g[i] = IF i = 0 THEN l ELSE Step(i, g[i - 1])
      <4>1. CASE i = m
        <5>1. m - 1 \in 0 .. m - 1
          BY <2>2, <2>3
        <5>2. g[m - 1] = f[m - 1]
          BY <5>1, <3>2, Zenon
        <5>3. QED BY <4>1, <5>2, <3>1, <2>3
      <4>2. CASE i # m
        <5>1. i \in 0 .. m - 1 /\ (i # 0 => i - 1 \in 0 .. m - 1)
          BY <4>2, <2>2
        <5>2. g[i] = f[i] /\ (i # 0 => g[i - 1] = f[i - 1])
          BY <5>1, <3>2, Zenon
        <5>3. f[i] = IF i = 0 THEN l ELSE Step(i, f[i - 1])
          BY <5>1, <2>6, Zenon
        <5>4. QED BY <5>2, <5>3, Zenon
      <4>3. QED BY <4>1, <4>2
    <3>4. g = [i \in 0 .. m |-> g[i]]
      OBVIOUS
    <3> HIDE DEF g
    <3>5. g = [i \in 0 .. m |-> IF i = 0 THEN l ELSE Step(i, g[i - 1])]
      BY <3>3, <3>4
    <3>6. QED BY <3>5 DEF Turns
  <2> HIDE DEF g
  <2>8. QED BY <2>2, <2>7
<1>3. QED BY <1>1, <1>2

LEMMA InsertPagesIs ==
  ASSUME NEW l, NEW first \in Nat, NEW n \in Nat
  PROVE  \E f : Turns(f, l, first, n) /\ InsertPages(l, first, n) = f[n]
<1> DEFINE v == CHOOSE f : Turns(f, l, first, n)
<1>1. Turns(v, l, first, n)
  BY TurnsExist
<1>2. InsertPages(l, first, n) = v[n]
  BY DEF InsertPages, Turns
<1> HIDE DEF v
<1>3. QED BY <1>1, <1>2

LEMMA HeadsApart ==
  /\ freelist # bootlist /\ Pages \cap Heads = {} /\ Null \notin Pages \cup Heads
  /\ \A p : ListFor(p) \in Heads
  BY BootAssumption DEF Heads, ListFor

\* Whatever pages are entered, the pointers stay among pages and heads.
LEMMA InsertPagesTyped ==
  ASSUME NEW l, PointersOf(l, Pages, Heads), NEW first \in Nat, NEW n \in Nat,
         \A i \in 1 .. n : first + i - 1 \in Pages
  PROVE  PointersOf(InsertPages(l, first, n), Pages, Heads)
<1>1. PICK f : Turns(f, l, first, n) /\ InsertPages(l, first, n) = f[n]
  BY InsertPagesIs
<1>2. \A i \in 0 .. n : f[i] = IF i = 0 THEN l
                              ELSE LIST_INSERT_HEAD(f[i - 1], ListFor(first + i - 1), first + i - 1)
  BY <1>1 DEF Turns
<1> DEFINE Bad == {i \in 0 .. n : ~PointersOf(f[i], Pages, Heads)}
<1>3. CASE Bad # {}
  <2>1. PICK m \in Bad : \A k \in Bad : m <= k
    <3>1. Bad \subseteq Nat
      OBVIOUS
    <3> HIDE DEF Bad
    <3>2. QED BY <3>1, <1>3, LeastNat
  <2>2. m \in 0 .. n /\ ~PointersOf(f[m], Pages, Heads)
    BY <2>1
  <2>3. m # 0
    BY <2>2, <1>2
  <2>4. m - 1 \in 0 .. n /\ m - 1 \notin Bad /\ m \in 1 .. n
    BY <2>1, <2>2, <2>3
  <2>5. PointersOf(f[m - 1], Pages, Heads)
    BY <2>4
  <2>6. PointersOf(LIST_INSERT_HEAD(f[m - 1], ListFor(first + m - 1), first + m - 1), Pages, Heads)
    BY <2>4, <2>5, HeadsApart, InsertTyped
  <2>7. QED BY <2>2, <2>3, <2>6, <1>2
<1>4. CASE Bad = {}
  BY <1>1, <1>4
<1>5. QED BY <1>3, <1>4
-----------------------------------------------------------------------------
\* There are kernel addresses for the whole table of descriptors.
LEMMA DescriptorFits ==
  ASSUME NEW p \in Nat, p <= NP + 1
  PROVE  /\ Descriptor(p) \in Nat /\ LimitFits(Descriptor(p))
         /\ KernelEnd <= Descriptor(p)
<1>1. EntrySize * p \in Nat /\ EntrySize * (NP + 1) \in Nat /\ EntrySize * p <= EntrySize * (NP + 1)
  <2>1. PICK c \in Nat : NP + 1 = p + c
    <3>1. (NP + 1) - p \in Nat /\ NP + 1 = p + ((NP + 1) - p)
      BY PageNumbers
    <3>2. QED BY <3>1
  <2>2. EntrySize * (p + c) = (EntrySize * p) + (EntrySize * c)
        /\ EntrySize * p \in Nat /\ EntrySize * c \in Nat
    BY Numbers
  <2>3. QED BY <2>1, <2>2
<1>2. KernelEnd + (EntrySize * (NP + 1)) + PageSize <= PageSize * NKernelPages
  BY BootAssumption, PageNumbers
<1>3. PageSize * NKernelPages \in Nat
  BY Numbers
<1>4. QED BY <1>1, <1>2, <1>3, Numbers DEF Descriptor, LimitFits

LEMMA DescriptorMonotonic ==
  ASSUME NEW p \in Nat, NEW q \in Nat, p <= q
  PROVE  Descriptor(p) \in Nat /\ Descriptor(q) \in Nat /\ Descriptor(p) <= Descriptor(q)
<1>1. PICK c \in Nat : q = p + c
  <2>1. q - p \in Nat /\ q = p + (q - p)
    OBVIOUS
  <2>2. QED BY <2>1
<1>2. EntrySize * (p + c) = (EntrySize * p) + (EntrySize * c)
      /\ EntrySize * p \in Nat /\ EntrySize * c \in Nat
  BY Numbers
<1>3. QED BY <1>1, <1>2, Numbers DEF Descriptor

LEMMA RoomFits ==
  ASSUME NEW e \in Entries
  PROVE  LimitFits(RoomFor(e))
<1>1. LastPage(e) + 1 \in Nat /\ LastPage(e) + 1 <= NP + 1
  BY AreaPages, PageNumbers
<1>2. QED BY <1>1, DescriptorFits DEF RoomFor

LEMMA KernelEndFits == LimitFits(KernelEnd) /\ LimitFits(0)
<1>1. LimitFits(Descriptor(0)) /\ Descriptor(0) = KernelEnd
  <2>1. 0 \in Nat /\ 0 <= NP + 1
    BY PageNumbers
  <2>2. LimitFits(Descriptor(0))
    BY <2>1, DescriptorFits
  <2>3. QED BY <2>2, Numbers DEF Descriptor
<1>2. LimitFits(KernelEnd)
  BY <1>1
<1>3. LimitFits(0)
  BY <1>2, Numbers DEF LimitFits
<1>4. QED BY <1>2, <1>3

LEMMA Entry ==
  ASSUME mmap \in Maps
  PROVE  /\ mmap \in Seq(Entries) /\ Len(mmap) \in Nat /\ DOMAIN mmap = 1 .. Len(mmap)
         /\ \A j \in DOMAIN mmap : mmap[j] \in Entries
<1>1. mmap \in Seq(Entries)
  BY BootAssumption DEF Entries
<1>2. QED BY <1>1, LenProperties

\* The kernel's directory has all the kernel's tables.
HasKernel(t) == \A e \in PdEntries : e >= NStartPde => t[e] = e - NStartPde

LEMMA WithDirectory ==
  ASSUME NEW k \in KernType, NEW t
  PROVE  [k EXCEPT !.dir = t, !.limit = 0] = [pte |-> k.pte, limit |-> 0, dir |-> t, cr3 |-> k.cr3]
<1>1. PICK z \in Nat : z = 0
  OBVIOUS
<1>2. PICK n : n = [k EXCEPT !.dir = t, !.limit = z]
  OBVIOUS
<1>3. n = [pte |-> k.pte, limit |-> z, dir |-> t, cr3 |-> k.cr3]
  BY <1>2 DEF KernType
<1>4. QED BY <1>1, <1>2, <1>3, Zenon

LEMMA VirtmemInitIs ==
  LET n == i686_virtmem_init(setup_tables(Pages), KernelEnd)
  IN /\ n \in KernType /\ LimitFits(n.limit) /\ Below(n) /\ KernelEnd <= n.limit
     /\ n.cr3 = KernelPd /\ HasKernel(n.dir[KernelPd])
<1> DEFINE k == setup_tables(Pages)
           t == i686_set_kernel_pdes(k.dir[KernelPd])
           k1 == [k EXCEPT !.dir = [k.dir EXCEPT ![KernelPd] = t], !.limit = 0]
           b == i686_brk(k1, KernelEnd)
           n == i686_virtmem_init(k, KernelEnd)
<1>1. k \in KernType /\ k.pte[0] = 0
  <2>1. 0 \in KernelPages /\ 0 < NPte
    BY Numbers DEF KernelPages
  <2>2. QED BY <2>1, TablesTyped DEF setup_tables
<1> HIDE DEF k
<1>2. k.dir \in [Pages -> [PdEntries -> Int]] /\ k.pte \in [KernelPages -> Pages \cup {Absent}] /\ k.cr3 \in Pages
      /\ KernelPd \in Pages /\ k.dir[KernelPd] \in [PdEntries -> Int]
  BY <1>1, AbsentIsNoPage DEF KernType
<1>3. t \in [PdEntries -> Int] /\ HasKernel(t)
  <2>1. t \in [PdEntries -> Int]
        /\ \A e \in PdEntries : t[e] = IF e < NStartPde THEN k.dir[KernelPd][e] ELSE e - NStartPde
    BY <1>2, PdesTyped
  <2> HIDE DEF t
  <2>2. \A e \in PdEntries : e >= NStartPde => ~(e < NStartPde)
    BY Numbers DEF PdEntries
  <2>3. QED BY <2>1, <2>2 DEF HasKernel
<1>4. n = [b EXCEPT !.cr3 = KernelPd]
  BY DEF i686_virtmem_init
<1> HIDE DEF n, t
<1>5. /\ k1 \in KernType /\ k1.limit = 0 /\ k1.pte = k.pte
      /\ k1.dir = [k.dir EXCEPT ![KernelPd] = t]
  <2> DEFINE dd == [k.dir EXCEPT ![KernelPd] = t]
  <2>1. dd \in [Pages -> [PdEntries -> Int]]
    BY <1>2, <1>3
  <2>6. k1 = [k EXCEPT !.dir = dd, !.limit = 0]
    BY Zenon
  <2> HIDE DEF dd, k1
  <2>7. [k EXCEPT !.dir = dd, !.limit = 0] = [pte |-> k.pte, limit |-> 0, dir |-> dd, cr3 |-> k.cr3]
    BY <1>1, WithDirectory
  <2>2. k1 = [pte |-> k.pte, limit |-> 0, dir |-> dd, cr3 |-> k.cr3]
    BY <2>6, <2>7, Zenon
  <2>3. k1.limit = 0 /\ k1.pte = k.pte /\ k1.dir = dd
    BY <2>2
  <2>4. k1 \in KernType
    BY <2>1, <2>2, <1>2 DEF KernType
  <2>5. QED BY <2>3, <2>4 DEF dd
<1>6. k1.dir[KernelPd] = t
  BY <1>2, <1>5
<1> HIDE DEF k1
<1>7. Below(k1)
  <2>1. PageUp(0) = 0
    <3>1. PageUp(0) \in Nat /\ PageSize * PageUp(0) < 0 + PageSize
      BY PageUpIs
    <3>2. PageSize * PageUp(0) < PageSize * 1
      BY <3>1, Numbers
    <3>3. PageUp(0) < 1
      BY <3>1, <3>2, ProductBelow, Numbers
    <3>4. QED BY <3>1, <3>3
  <2>2. \A i \in KernelPages : i \in Nat
    BY Numbers DEF KernelPages
  <2>3. ASSUME NEW i \in KernelPages, i <= PageUp(k1.limit) PROVE k1.pte[i] = i
    <3>1. i \in Nat /\ i <= 0
      BY <2>1, <2>2, <2>3, <1>5
    <3>2. i = 0
      BY <3>1
    <3>3. QED BY <3>2, <1>1, <1>5
  <2>4. QED BY <2>3 DEF Below
<1>8. /\ b \in KernType /\ LimitFits(b.limit) /\ Below(b) /\ KernelEnd <= b.limit
      /\ b.dir = k1.dir
  <2>1. LimitFits(k1.limit) /\ LimitFits(KernelEnd)
    BY <1>5, KernelEndFits
  <2>2. QED BY <2>1, <1>5, <1>7, BrkIs
<1> HIDE DEF b
<1>9. n = [pte |-> b.pte, limit |-> b.limit, dir |-> b.dir, cr3 |-> KernelPd]
  BY <1>4, <1>8 DEF KernType
<1>10. n.pte = b.pte /\ n.limit = b.limit /\ n.dir = b.dir /\ n.cr3 = KernelPd
  BY <1>9
<1>11. n \in KernType
  BY <1>2, <1>8, <1>9 DEF KernType
<1>12. Below(n)
  BY <1>8, <1>10 DEF Below
<1>13. n.dir[KernelPd] = t
  BY <1>6, <1>8, <1>10
<1>14. QED BY <1>3, <1>8, <1>10, <1>11, <1>12, <1>13 DEF n, k
-----------------------------------------------------------------------------
\* A kernel address is handed out: what is present stays what it is.
Extended(k, n) ==
  /\ n \in KernType /\ n.limit = k.limit
  /\ \A i \in KernelPages : k.pte[i] # Absent => n.pte[i] = k.pte[i]

LEMMA EntryExtends ==
  ASSUME NEW k \in KernType, NEW n \in KernType, n.limit = k.limit,
         NEW p \in KernelPages, k.pte[p] = Absent, NEW x, n.pte = [k.pte EXCEPT ![p] = x]
  PROVE  Extended(k, n)
<1>1. k.pte \in [KernelPages -> Pages \cup {Absent}]
  BY DEF KernType
<1>2. \A i \in KernelPages : k.pte[i] # Absent => n.pte[i] = k.pte[i]
  BY <1>1
<1>3. QED BY <1>2 DEF Extended

LEMMA ExtendedTwice ==
  ASSUME NEW k, NEW m, NEW n, Extended(k, m), Extended(m, n)
  PROVE  Extended(k, n)
  BY DEF Extended

\* A page is mapped at an address that was just handed out.
MappedPage(k, f) == i686_kernel_map_virt_to_phys(i686_kernel_alloc(k), f, NextPage(k))

LEMMA MappedPageIs ==
  ASSUME NEW k \in KernType, CanAlloc(k), NEW f \in Pages
  PROVE  LET n == MappedPage(k, f)
         IN /\ Extended(k, n) /\ n.dir = k.dir /\ n.cr3 = k.cr3 /\ n.pte[NextPage(k)] = f
            /\ NextPage(k) \in KernelPages /\ k.pte[NextPage(k)] = Absent
<1> DEFINE a == i686_kernel_alloc(k)
           p == NextPage(k)
           n == i686_kernel_map_virt_to_phys(a, f, p)
<1>1. /\ p \in KernelPages /\ k.pte[p] = Absent
      /\ a \in KernType /\ a.limit = k.limit /\ a.dir = k.dir /\ a.cr3 = k.cr3
      /\ a.pte = [k.pte EXCEPT ![p] = 0]
  BY AllocIs
<1> HIDE DEF a, p
<1>2. /\ n \in KernType /\ n.limit = a.limit /\ n.dir = a.dir /\ n.cr3 = a.cr3
      /\ n.pte = [a.pte EXCEPT ![p] = f]
  BY <1>1, MapIs
<1> HIDE DEF n
<1>3. k.pte \in [KernelPages -> Pages \cup {Absent}] /\ a.pte \in [KernelPages -> Pages \cup {Absent}]
  BY <1>1 DEF KernType
<1>4. n.pte = [k.pte EXCEPT ![p] = f] /\ n.pte[p] = f
  BY <1>1, <1>2, <1>3
<1>5. n.limit = k.limit /\ n.dir = k.dir /\ n.cr3 = k.cr3
  BY <1>1, <1>2
<1>6. Extended(k, n)
  BY <1>1, <1>2, <1>4, <1>5, EntryExtends
<1>7. QED BY <1>1, <1>4, <1>5, <1>6 DEF n, a, p, MappedPage

LEMMA AllocExtends ==
  ASSUME NEW k \in KernType, CanAlloc(k)
  PROVE  Extended(k, i686_kernel_alloc(k))
<1> DEFINE n == i686_kernel_alloc(k)
           p == NextPage(k)
<1>1. /\ p \in KernelPages /\ k.pte[p] = Absent
      /\ n \in KernType /\ n.limit = k.limit /\ n.pte = [k.pte EXCEPT ![p] = 0]
  BY AllocIs
<1> HIDE DEF n, p
<1>2. Extended(k, n)
  BY <1>1, EntryExtends
<1>3. QED BY <1>2 DEF n

\* The walk of i686_setup_kernelspace.
LEMMA WalkIs ==
  ASSUME NEW k \in KernType, CanWalk(k), NEW d \in Pages
  PROVE  LET n == i686_setup_kernelspace(k, d)
         IN /\ Extended(k, n) /\ n.cr3 = k.cr3
            /\ n.dir = [k.dir EXCEPT ![d] = i686_set_kernel_pdes(k.dir[d])]
<1> DEFINE k1 == i686_kernel_alloc(k)
           k2 == MappedPage(k1, d)
           t == i686_set_kernel_pdes(k2.dir[d])
           n == [k2 EXCEPT !.dir[d] = t]
<1>8. n = i686_setup_kernelspace(k, d)
  BY Zenon DEF i686_setup_kernelspace, MappedPage
<1>1. CanAlloc(k) /\ CanAlloc(k1)
  BY DEF CanWalk
<1>2. Extended(k, k1) /\ k1.dir = k.dir /\ k1.cr3 = k.cr3 /\ k1 \in KernType
  BY <1>1, AllocIs, AllocExtends
<1> HIDE DEF k1
<1>3. Extended(k1, k2) /\ k2.dir = k1.dir /\ k2.cr3 = k1.cr3
  BY <1>1, <1>2, MappedPageIs
<1> HIDE DEF k2
<1>4. k2 \in KernType /\ k2.dir[d] \in [PdEntries -> Int] /\ Extended(k, k2)
  <2>1. k2 \in KernType /\ Extended(k, k2)
    BY <1>2, <1>3, ExtendedTwice DEF Extended
  <2>2. QED BY <2>1 DEF KernType
<1>5. t \in [PdEntries -> Int]
  BY <1>4, PdesTyped
<1>6. t = i686_set_kernel_pdes(k.dir[d])
  BY <1>2, <1>3
<1> HIDE DEF t
<1>7. /\ n \in KernType /\ n.limit = k2.limit /\ n.cr3 = k2.cr3 /\ n.pte = k2.pte
      /\ n.dir = [k2.dir EXCEPT ![d] = t]
  BY <1>4, <1>5, DirIs
<1> HIDE DEF n
<1>9. Extended(k, n)
  BY <1>4, <1>7 DEF Extended
<1>10. n.cr3 = k.cr3 /\ n.dir = [k.dir EXCEPT ![d] = i686_set_kernel_pdes(k.dir[d])]
  BY <1>2, <1>3, <1>6, <1>7
<1>11. QED BY <1>8, <1>9, <1>10
-----------------------------------------------------------------------------
Modes == {"loaded", "areas", "prune", "running", "hung", "wild", "fault"}

Types ==
  /\ mode \in Modes /\ mmap \in Maps /\ cur \in Nat
  /\ kern \in KernType /\ PointersOf(lists, Pages, Heads)
  /\ pages \in [free : Nat, total : Nat]
  /\ owned \subseteq KernelPages \X Pages
  /\ ready \in [made : SUBSET Pages, set : SUBSET Pages]

\* The kernel's image and table show their own frames up to the limit, slabs
\* the frames they were given.
Kept ==
  /\ mode = "loaded" => kern = setup_tables(Pages)
  /\ mode # "loaded" => LimitFits(kern.limit) /\ Below(kern)
  /\ \A o \in owned : kern.pte[o[1]] = o[2]
  /\ mode \in {"loaded", "areas"} => cur # 0
  /\ mode \in {"loaded", "areas", "prune"} => owned = {} /\ ready = [made |-> {}, set |-> {}]

TypesKept == Types /\ Kept

LEMMA KeptExtends ==
  ASSUME TypesKept, mode # "loaded", NEW n, Extended(kern, n)
  PROVE  /\ n \in KernType /\ LimitFits(n.limit) /\ Below(n)
         /\ \A o \in owned : n.pte[o[1]] = o[2]
<1>1. /\ kern \in KernType /\ LimitFits(kern.limit) /\ Below(kern)
      /\ owned \subseteq KernelPages \X Pages /\ \A o \in owned : kern.pte[o[1]] = o[2]
  BY DEF TypesKept, Types, Kept
<1>2. n \in KernType /\ n.limit = kern.limit
      /\ \A i \in KernelPages : kern.pte[i] # Absent => n.pte[i] = kern.pte[i]
  BY DEF Extended
<1>3. Absent \notin Pages /\ KernelPages \subseteq Pages
  BY AbsentIsNoPage, PageNumbers
<1>4. Below(n)
  BY <1>1, <1>2, <1>3 DEF Below
<1>5. ASSUME NEW o \in owned PROVE n.pte[o[1]] = o[2]
  <2>1. o[1] \in KernelPages /\ o[2] \in Pages
    BY <1>1
  <2>2. QED BY <2>1, <1>1, <1>2, <1>3
<1>6. LimitFits(n.limit)
  BY <1>1, <1>2
<1>7. QED BY <1>2, <1>4, <1>5, <1>6

LEMMA TypesInit == Init => TypesKept
<1> SUFFICES ASSUME Init PROVE TypesKept
  OBVIOUS
<1> USE DEF Init
<1>1. PointersOf(lists, Pages, Heads)
  BY HeadsApart DEF PointersOf, Heads
<1>2. kern \in KernType /\ mode = "loaded" /\ kern = setup_tables(Pages)
  BY TablesTyped
<1>3. Types
  BY <1>1, <1>2 DEF Types, Modes
<1>4. Kept
  BY <1>2 DEF Kept
<1>5. QED BY <1>3, <1>4 DEF TypesKept

LEMMA TypesVirtmem ==
  ASSUME TypesKept, VirtmemInit
  PROVE  TypesKept'
<1>1. mode = "loaded" /\ kern = setup_tables(Pages) /\ mode' = "areas" /\ kern' = i686_virtmem_init(kern, KernelEnd)
      /\ UNCHANGED <<mmap, dirty, lists, pages, cur, owned, ready>>
  BY DEF VirtmemInit, TypesKept, Kept
<1>2. kern' \in KernType /\ LimitFits(kern'.limit) /\ Below(kern')
  BY <1>1, VirtmemInitIs
<1>3. Types'
  BY <1>1, <1>2 DEF TypesKept, Types, Modes
<1>4. Below(kern)'
  BY <1>2 DEF Below
<1>5. LimitFits(kern.limit)'
  BY <1>2 DEF LimitFits
<1>6. owned = {} /\ ready = [made |-> {}, set |-> {}] /\ cur # 0
  BY <1>1 DEF TypesKept, Kept
<1>7. Kept'
  BY <1>1, <1>4, <1>5, <1>6 DEF Kept
<1>8. QED BY <1>3, <1>7 DEF TypesKept

\* The pages of an entry, counted.
LEMMA SpanCounts ==
  ASSUME NEW e \in Entries
  PROVE  /\ IsFiniteSet(Span(e)) /\ Cardinality(Span(e)) \in Nat
         /\ Cardinality(Span(e)) = LastPage(e) - FirstPage(e) + 1
         /\ Cardinality({p \in Span(e) : ListFor(p) = freelist}) \in Nat
         /\ \A i \in 1 .. Cardinality(Span(e)) : FirstPage(e) + i - 1 \in Span(e)
<1>1. /\ FirstPage(e) \in Nat /\ LastPage(e) \in Nat /\ FirstPage(e) <= LastPage(e)
      /\ Span(e) = FirstPage(e) .. LastPage(e)
  BY AreaPages DEF Span
<1>2. IsFiniteSet(Span(e)) /\ Cardinality(Span(e)) = LastPage(e) - FirstPage(e) + 1
  <2>1. /\ IsFiniteSet(FirstPage(e) .. LastPage(e))
        /\ Cardinality(FirstPage(e) .. LastPage(e)) =
             IF FirstPage(e) > LastPage(e) THEN 0 ELSE LastPage(e) - FirstPage(e) + 1
    BY <1>1, FS_Interval
  <2>2. QED BY <2>1, <1>1
<1>3. Cardinality({p \in Span(e) : ListFor(p) = freelist}) \in Nat
  <2>1. {p \in Span(e) : ListFor(p) = freelist} \subseteq Span(e)
    OBVIOUS
  <2>2. QED BY <2>1, <1>2, FS_Subset, FS_CardinalityType
<1>4. \A i \in 1 .. Cardinality(Span(e)) : FirstPage(e) + i - 1 \in Span(e)
  BY <1>1, <1>2
<1>5. Cardinality(Span(e)) \in Nat
  BY <1>2, FS_CardinalityType
<1>6. QED BY <1>2, <1>3, <1>4, <1>5

LEMMA TypesInitial ==
  ASSUME TypesKept, i686_create_initial
  PROVE  TypesKept'
<1> DEFINE e == mmap[cur]
           k == i686_brk(kern, RoomFor(e))
<1>1. /\ mode = "areas" /\ cur <= Len(mmap) /\ Area(e)
      /\ UNCHANGED <<mmap, dirty, owned, ready>>
  BY DEF i686_create_initial
<1>2. /\ mmap \in Maps /\ cur \in Nat /\ kern \in KernType /\ PointersOf(lists, Pages, Heads)
      /\ pages \in [free : Nat, total : Nat]
      /\ owned = {} /\ ready = [made |-> {}, set |-> {}] /\ cur # 0
      /\ LimitFits(kern.limit) /\ Below(kern)
  BY <1>1 DEF TypesKept, Types, Kept
<1>3. e \in Entries
  <2>1. Len(mmap) \in Nat /\ DOMAIN mmap = 1 .. Len(mmap) /\ \A j \in DOMAIN mmap : mmap[j] \in Entries
    BY <1>2, Entry
  <2>2. cur \in DOMAIN mmap
    BY <2>1, <1>1, <1>2
  <2>3. QED BY <2>1, <2>2
<1> HIDE DEF e
<1>4. k \in KernType /\ LimitFits(k.limit) /\ Below(k)
  BY <1>2, <1>3, RoomFits, BrkIs
<1> HIDE DEF k
<1>5. /\ Cardinality(Span(e)) \in Nat /\ Cardinality({p \in Span(e) : ListFor(p) = freelist}) \in Nat
      /\ FirstPage(e) \in Nat /\ Span(e) \subseteq Pages
      /\ \A i \in 1 .. Cardinality(Span(e)) : FirstPage(e) + i - 1 \in Span(e)
  BY <1>3, SpanCounts, AreaPages
<1>6. PointersOf(InsertPages(lists, FirstPage(e), Cardinality(Span(e))), Pages, Heads)
  BY <1>2, <1>5, InsertPagesTyped
<1>7. /\ mode' \in {"areas", "hung", "fault"} /\ kern' \in {kern, k} /\ cur' \in {cur, cur + 1}
      /\ lists' \in {lists, InsertPages(lists, FirstPage(e), Cardinality(Span(e)))}
      /\ \/ pages' = pages
         \/ pages' = [free |-> pages.free + Cardinality({p \in Span(e) : ListFor(p) = freelist}),
                      total |-> pages.total + Cardinality(Span(e))]
         \/ pages' = [pages EXCEPT !.total = @ + Cardinality(Span(e))]
  BY <1>1 DEF Area, Span, k
<1>8. kern' \in KernType /\ LimitFits(kern'.limit) /\ Below(kern')
  BY <1>2, <1>4, <1>7
<1>9. cur' \in Nat /\ cur' # 0
  BY <1>2, <1>7
<1>10. pages' \in [free : Nat, total : Nat]
  <2>1. pages.free \in Nat /\ pages.total \in Nat /\ pages = [free |-> pages.free, total |-> pages.total]
    BY <1>2
  <2>2. PICK a \in Nat, b \in Nat : a = Cardinality({p \in Span(e) : ListFor(p) = freelist}) /\ b = Cardinality(Span(e))
    BY <1>5
  <2>3. \/ pages' = pages
        \/ pages' = [free |-> pages.free + a, total |-> pages.total + b]
        \/ pages' = [pages EXCEPT !.total = @ + b]
    BY <1>7, <2>2
  <2>4. CASE pages' = [pages EXCEPT !.total = @ + b]
    <3>1. pages' = [free |-> pages.free, total |-> pages.total + b]
      BY <2>1, <2>4
    <3>2. QED BY <3>1, <2>1
  <2>5. CASE pages' = pages
    BY <2>5, <1>2
  <2>6. CASE pages' = [free |-> pages.free + a, total |-> pages.total + b]
    BY <2>6, <2>1
  <2>7. QED BY <2>3, <2>4, <2>5, <2>6
<1>11. PointersOf(lists', Pages, Heads)
  BY <1>2, <1>6, <1>7
<1>12. mode' \in Modes /\ mode' # "loaded" /\ mode' # "prune"
  BY <1>7 DEF Modes
<1>13. mmap' = mmap /\ owned' = {} /\ ready' = [made |-> {}, set |-> {}]
  BY <1>1, <1>2
<1>14. Types'
  BY <1>2, <1>8, <1>9, <1>10, <1>11, <1>12, <1>13 DEF Types, PointersOf
<1>15. Kept'
  BY <1>8, <1>9, <1>12, <1>13 DEF Kept, Below, LimitFits
<1>16. QED BY <1>14, <1>15 DEF TypesKept
LEMMA WithFree ==
  ASSUME NEW r \in [free : Nat, total : Nat], NEW x \in Nat
  PROVE  [r EXCEPT !.free = x] \in [free : Nat, total : Nat] /\ [r EXCEPT !.free = x].free = x
  OBVIOUS

LEMMA TypesPrune ==
  ASSUME TypesKept, EndOfMap \/ i686_prune_memory \/ PruneDone
  PROVE  TypesKept'
<1>1. CASE EndOfMap
  <2>1. /\ mode = "areas" /\ mode' = "prune" /\ cur' = 0
        /\ UNCHANGED <<mmap, dirty, kern, lists, pages, owned, ready>>
    BY <1>1 DEF EndOfMap
  <2>2. QED BY <2>1 DEF TypesKept, Types, Kept, Modes, PointersOf, Below, LimitFits
<1>2. CASE i686_prune_memory
  <2>1. /\ mode = "prune" /\ cur <= end_kernel /\ Unlink(cur)
        /\ UNCHANGED <<mmap, dirty, kern, pages, owned, ready>>
    BY <1>2 DEF i686_prune_memory
  <2>2. /\ cur \in Nat /\ PointersOf(lists, Pages, Heads) /\ LimitFits(kern.limit)
    BY <2>1 DEF TypesKept, Types, Kept
  <2>3. cur \in Pages
    <3>1. PageUp(kern.limit) \in KernelPages
      BY <2>2, LimitInWindow
    <3>2. QED BY <3>1, <2>1, <2>2, PageNumbers, Numbers DEF KernelPages, end_kernel
  <2>4. PointersOf(LIST_REMOVE(lists, cur), Pages, Heads)
    BY <2>2, <2>3, RemoveTyped
  <2>5. mode' \in {"prune", "fault", "wild"} /\ lists' \in {lists, LIST_REMOVE(lists, cur)} /\ cur' \in {cur, cur + 1}
    BY <2>1 DEF Unlink
  <2>6. PointersOf(lists', Pages, Heads) /\ cur' \in Nat
    BY <2>2, <2>4, <2>5
  <2>7. QED BY <2>1, <2>5, <2>6 DEF TypesKept, Types, Kept, Modes, PointersOf, Below, LimitFits
<1>3. CASE PruneDone
  <2>1. /\ mode = "prune" /\ mode' = "running"
        /\ pages' = [pages EXCEPT !.free = (@ - cur) % NAddresses]
        /\ UNCHANGED <<mmap, dirty, kern, lists, cur, owned, ready>>
    BY <1>3 DEF PruneDone
  <2>2. pages \in [free : Nat, total : Nat] /\ cur \in Nat
    BY DEF TypesKept, Types
  <2>3. (pages.free - cur) % NAddresses \in Nat
    BY <2>2, Numbers
  <2>4. pages' \in [free : Nat, total : Nat]
    <3>1. PICK x \in Nat : x = (pages.free - cur) % NAddresses
      BY <2>3
    <3>2. pages' = [pages EXCEPT !.free = x]
      BY <2>1, <3>1
    <3>3. QED BY <3>2, <2>2, WithFree
  <2>5. QED BY <2>1, <2>4 DEF TypesKept, Types, Kept, Modes, PointersOf, Below, LimitFits
<1>4. QED BY <1>1, <1>2, <1>3

\* The kernel's map is extended by a frame, or not at all, and pages are taken.
LEMMA TypesStep ==
  ASSUME TypesKept, mode = "running", UNCHANGED <<mmap, cur>>,
         mode' \in {"running", "wild", "fault"},
         kern' = kern \/ Extended(kern, kern'),
         PointersOf(lists', Pages, Heads), pages' \in [free : Nat, total : Nat],
         ready' \in [made : SUBSET Pages, set : SUBSET Pages],
         \/ owned' = owned
         \/ \E i \in KernelPages, f \in Pages : owned' = owned \cup {<<i, f>>} /\ kern'.pte[i] = f
  PROVE  TypesKept'
<1>1. /\ kern' \in KernType /\ LimitFits(kern'.limit) /\ Below(kern')
      /\ \A o \in owned : kern'.pte[o[1]] = o[2]
  <2>1. CASE kern' = kern
    BY <2>1 DEF TypesKept, Types, Kept
  <2>2. CASE Extended(kern, kern')
    BY <2>2, KeptExtends
  <2>3. QED BY <2>1, <2>2
<1>2. owned' \subseteq KernelPages \X Pages /\ \A o \in owned' : kern'.pte[o[1]] = o[2]
  <2>1. owned \subseteq KernelPages \X Pages
    BY DEF TypesKept, Types
  <2>2. CASE owned' = owned
    BY <2>1, <2>2, <1>1
  <2>3. CASE owned' # owned
    <3>1. PICK i \in KernelPages, f \in Pages : owned' = owned \cup {<<i, f>>} /\ kern'.pte[i] = f
      BY <2>3
    <3>2. QED BY <3>1, <2>1, <1>1
  <2>4. QED BY <2>2, <2>3
<1>3. Types'
  BY <1>1, <1>2 DEF TypesKept, Types, Modes, PointersOf
<1>4. Kept'
  BY <1>1, <1>2 DEF Kept, Below, LimitFits
<1>5. QED BY <1>3, <1>4 DEF TypesKept

\* common_physmem_page_alloc: the frame it returns, and what it leaves.
LEMMA TakeIs ==
  ASSUME TypesKept, mode = "running", CanTake, page_alloc
  PROVE  /\ LIST_FIRST(lists, freelist) \in Pages
         /\ PointersOf(lists', Pages, Heads)
         /\ pages' \in [free : Nat, total : Nat] /\ pages'.free = pages.free - 1
         /\ pages.free \in Nat /\ pages.free > 0
<1>1. PointersOf(lists, Pages, Heads) /\ pages \in [free : Nat, total : Nat]
  BY DEF TypesKept, Types
<1>2. LIST_FIRST(lists, freelist) \in Pages
  <2>1. lists.at \in [Pages \cup Heads -> Pages \cup {Null}] /\ freelist \in Heads
    BY <1>1 DEF PointersOf, Heads
  <2>2. QED BY <2>1 DEF CanTake, LIST_EMPTY, LIST_FIRST
<1>3. PointersOf(lists', Pages, Heads)
  BY <1>1, <1>2, RemoveTyped DEF page_alloc
<1>4. pages.free \in Nat /\ pages.free > 0 /\ pages.free - 1 \in Nat
  BY <1>1 DEF CanTake
<1>5. pages' \in [free : Nat, total : Nat] /\ pages'.free = pages.free - 1
  <2>1. PICK x \in Nat : x = pages.free - 1
    BY <1>4
  <2>2. pages' = [pages EXCEPT !.free = x]
    BY <2>1 DEF page_alloc
  <2>3. QED BY <2>1, <2>2, <1>1, WithFree
<1>6. QED BY <1>2, <1>3, <1>4, <1>5

LEMMA FailIs ==
  ASSUME TypesKept, ListDry, AssertFails
  PROVE  /\ mode' = "fault" /\ pages' \in [free : Nat, total : Nat]
         /\ UNCHANGED <<lists, owned, ready>>
<1>1. pages \in [free : Nat, total : Nat] /\ pages.free > 0
  BY DEF TypesKept, Types, ListDry
<1>2. PICK x \in Nat : x = pages.free - 1
  BY <1>1
<1>3. pages' = [pages EXCEPT !.free = x]
  BY <1>2 DEF AssertFails
<1>4. QED BY <1>1, <1>3, WithFree DEF AssertFails

LEMMA TypesSlab ==
  ASSUME TypesKept, NewSlab
  PROVE  TypesKept'
<1> DEFINE f == LIST_FIRST(lists, freelist)
           i == NextPage(kern)
<1>1. /\ mode = "running" /\ CanAlloc(kern) /\ UNCHANGED <<mmap, cur>>
      /\ \/ /\ CanTake /\ page_alloc
            /\ kern' = MappedPage(kern, f)
            /\ owned' = owned \cup {<<i, f>>}
            /\ UNCHANGED <<mode, ready>>
         \/ NoneLeft /\ kern' = i686_kernel_alloc(kern) /\ UNCHANGED <<mode, lists, pages, owned, ready>>
         \/ ListDry /\ kern' = i686_kernel_alloc(kern) /\ AssertFails
  BY DEF NewSlab, MappedPage
<1>2. /\ kern \in KernType /\ PointersOf(lists, Pages, Heads) /\ pages \in [free : Nat, total : Nat]
      /\ ready \in [made : SUBSET Pages, set : SUBSET Pages]
  BY DEF TypesKept, Types
<1>3. Extended(kern, i686_kernel_alloc(kern))
  BY <1>1, <1>2, AllocExtends
<1> HIDE DEF f, i
<1>4. CASE CanTake /\ page_alloc /\ kern' = MappedPage(kern, f) /\ owned' = owned \cup {<<i, f>>} /\ UNCHANGED <<mode, ready>>
  <2>1. f \in Pages /\ PointersOf(lists', Pages, Heads) /\ pages' \in [free : Nat, total : Nat]
    BY <1>1, <1>4, TakeIs DEF f
  <2>2. Extended(kern, kern') /\ kern'.pte[i] = f /\ i \in KernelPages
    BY <1>1, <1>2, <1>4, <2>1, MappedPageIs DEF i
  <2>3. QED BY <1>1, <1>2, <1>4, <2>1, <2>2, TypesStep
<1>5. CASE NoneLeft /\ kern' = i686_kernel_alloc(kern) /\ UNCHANGED <<mode, lists, pages, owned, ready>>
  BY <1>1, <1>2, <1>3, <1>5, TypesStep
<1>6. CASE ListDry /\ kern' = i686_kernel_alloc(kern) /\ AssertFails
  <2>1. mode' = "fault" /\ pages' \in [free : Nat, total : Nat] /\ UNCHANGED <<lists, owned, ready>>
    BY <1>6, FailIs
  <2>2. QED BY <1>1, <1>2, <1>3, <1>6, <2>1, TypesStep
<1>7. QED BY <1>1, <1>4, <1>5, <1>6

\* The empty directory that the constructor writes.
Wiped == [x \in PdEntries |-> Absent]

LEMMA WipedIs ==
  ASSUME NEW k \in KernType, CanAlloc(k), NEW f \in Pages
  PROVE  LET n == [MappedPage(k, f) EXCEPT !.dir[f] = Wiped]
         IN Extended(k, n) /\ n.cr3 = k.cr3 /\ n.dir = [k.dir EXCEPT ![f] = Wiped]
<1> DEFINE m == MappedPage(k, f)
           n == [m EXCEPT !.dir[f] = Wiped]
<1>1. Extended(k, m) /\ m.dir = k.dir /\ m.cr3 = k.cr3
  BY MappedPageIs
<1> HIDE DEF m
<1>2. m \in KernType /\ Wiped \in [PdEntries -> Int]
  BY <1>1, AbsentIsNoPage DEF Extended, Wiped
<1>3. /\ n \in KernType /\ n.limit = m.limit /\ n.cr3 = m.cr3 /\ n.pte = m.pte
      /\ n.dir = [m.dir EXCEPT ![f] = Wiped]
  BY <1>2, DirIs
<1> HIDE DEF n
<1>4. Extended(k, n)
  BY <1>1, <1>3 DEF Extended
<1>5. QED BY <1>1, <1>3, <1>4 DEF n, m

\* The cases of i686_address_space_ctor.
CtorTakes(f) ==
  /\ CanTake /\ page_alloc /\ f = LIST_FIRST(lists, freelist)
  /\ ready' = [ready EXCEPT !.made = @ \cup {f}]
  /\ \/ CanAlloc(kern) /\ kern' = [MappedPage(kern, f) EXCEPT !.dir[f] = Wiped]
     \/ ~CanAlloc(kern) /\ kern' = kern
  /\ UNCHANGED <<mode, owned>>

LEMMA CtorIs ==
  ASSUME i686_address_space_ctor
  PROVE  /\ mode = "running" /\ UNCHANGED <<mmap, dirty, cur>>
         /\ \/ CtorTakes(LIST_FIRST(lists, freelist))
            \/ NoneLeft /\ mode' = "wild" /\ UNCHANGED <<kern, lists, pages, owned, ready>>
            \/ ListDry /\ kern' = kern /\ AssertFails
  BY Zenon DEF i686_address_space_ctor, CtorTakes, MappedPage, Wiped

LEMMA MadeIs ==
  ASSUME TypesKept, NEW f \in Pages, ready' = [ready EXCEPT !.made = @ \cup {f}]
  PROVE  /\ ready' \in [made : SUBSET Pages, set : SUBSET Pages]
         /\ ready'.made = ready.made \cup {f} /\ ready'.set = ready.set
<1>1. ready \in [made : SUBSET Pages, set : SUBSET Pages]
  BY DEF TypesKept, Types
<1>2. ready' = [made |-> ready.made \cup {f}, set |-> ready.set]
  BY <1>1
<1>3. QED BY <1>1, <1>2

LEMMA TypesCtor ==
  ASSUME TypesKept, i686_address_space_ctor
  PROVE  TypesKept'
<1> DEFINE f == LIST_FIRST(lists, freelist)
<1>1. /\ mode = "running" /\ UNCHANGED <<mmap, cur>>
      /\ \/ CtorTakes(f)
         \/ NoneLeft /\ mode' = "wild" /\ UNCHANGED <<kern, lists, pages, owned, ready>>
         \/ ListDry /\ kern' = kern /\ AssertFails
  BY CtorIs
<1>2. /\ kern \in KernType /\ PointersOf(lists, Pages, Heads) /\ pages \in [free : Nat, total : Nat]
      /\ ready \in [made : SUBSET Pages, set : SUBSET Pages]
  BY DEF TypesKept, Types
<1>3. CASE CtorTakes(f)
  <2>1. CanTake /\ page_alloc /\ ready' = [ready EXCEPT !.made = @ \cup {f}]
        /\ (CanAlloc(kern) => kern' = [MappedPage(kern, f) EXCEPT !.dir[f] = Wiped])
        /\ (~CanAlloc(kern) => kern' = kern)
        /\ UNCHANGED <<mode, owned>>
    BY <1>3 DEF CtorTakes
  <2>2. f \in Pages /\ PointersOf(lists', Pages, Heads) /\ pages' \in [free : Nat, total : Nat]
    BY <1>1, <2>1, TakeIs
  <2> HIDE DEF f
  <2>3. ready' \in [made : SUBSET Pages, set : SUBSET Pages]
    BY <2>1, <2>2, MadeIs
  <2>4. kern' = kern \/ Extended(kern, kern')
    <3>1. CASE CanAlloc(kern)
      <4>1. Extended(kern, [MappedPage(kern, f) EXCEPT !.dir[f] = Wiped])
        BY <3>1, <2>2, <1>2, WipedIs
      <4>2. QED BY <4>1, <3>1, <2>1, Zenon
    <3>2. CASE ~CanAlloc(kern)
      BY <3>2, <2>1
    <3>3. QED BY <3>1, <3>2
  <2>5. QED BY <1>1, <1>2, <2>1, <2>2, <2>3, <2>4, TypesStep
<1>4. CASE NoneLeft /\ mode' = "wild" /\ UNCHANGED <<kern, lists, pages, owned, ready>>
  BY <1>1, <1>2, <1>4, TypesStep
<1>5. CASE ListDry /\ kern' = kern /\ AssertFails
  <2>1. mode' = "fault" /\ pages' \in [free : Nat, total : Nat] /\ UNCHANGED <<lists, owned, ready>>
    BY <1>5, FailIs
  <2>2. QED BY <1>1, <1>2, <1>5, <2>1, TypesStep
<1>6. QED BY <1>1, <1>3, <1>4, <1>5

\* The cases of SetupKernelspace.
LEMMA SetupIs ==
  ASSUME TypesKept, NEW d \in ready.made, SetupKernelspace(d)
  PROVE  /\ mode = "running" /\ UNCHANGED <<mmap, dirty, lists, pages, cur, owned>> /\ d \in Pages
         /\ \/ /\ CanWalk(kern) /\ kern' = i686_setup_kernelspace(kern, d) /\ mode' = mode
               /\ ready'.made = ready.made /\ ready'.set = ready.set \cup {d}
               /\ ready' \in [made : SUBSET Pages, set : SUBSET Pages]
            \/ mode' = "wild" /\ UNCHANGED <<kern, ready>>
<1>1. ready \in [made : SUBSET Pages, set : SUBSET Pages] /\ d \in Pages
  BY DEF TypesKept, Types
<1>2. ready' = [ready EXCEPT !.set = @ \cup {d}] =>
        /\ ready'.made = ready.made /\ ready'.set = ready.set \cup {d}
        /\ ready' \in [made : SUBSET Pages, set : SUBSET Pages]
  <2> HAVE ready' = [ready EXCEPT !.set = @ \cup {d}]
  <2>1. ready' = [made |-> ready.made, set |-> ready.set \cup {d}]
    BY <1>1
  <2>2. QED BY <2>1, <1>1
<1>3. QED BY <1>1, <1>2 DEF SetupKernelspace

LEMMA ContextIs ==
  ASSUME NEW k \in KernType, NEW d \in Pages
  PROVE  LET n == i686_set_context(k, d)
         IN Extended(k, n) /\ n.cr3 = d /\ n.dir = k.dir /\ n.pte = k.pte
<1>1. PICK n : n = [k EXCEPT !.cr3 = d]
  OBVIOUS
<1>2. n \in KernType /\ n.limit = k.limit /\ n.cr3 = d /\ n.dir = k.dir /\ n.pte = k.pte
  BY <1>1 DEF KernType
<1>3. QED BY <1>1, <1>2 DEF Extended, i686_set_context

LEMMA TypesContext ==
  ASSUME TypesKept, NEW d \in ready.made, SetupKernelspace(d) \/ SetContext(d)
  PROVE  TypesKept'
<1>1. /\ kern \in KernType /\ PointersOf(lists, Pages, Heads) /\ pages \in [free : Nat, total : Nat]
      /\ ready \in [made : SUBSET Pages, set : SUBSET Pages] /\ d \in Pages
  BY DEF TypesKept, Types
<1>2. CASE SetupKernelspace(d)
  <2>1. /\ mode = "running" /\ UNCHANGED <<mmap, dirty, lists, pages, cur, owned>> /\ d \in Pages
        /\ \/ /\ CanWalk(kern) /\ kern' = i686_setup_kernelspace(kern, d) /\ mode' = mode
              /\ ready'.made = ready.made /\ ready'.set = ready.set \cup {d}
              /\ ready' \in [made : SUBSET Pages, set : SUBSET Pages]
           \/ mode' = "wild" /\ UNCHANGED <<kern, ready>>
    BY <1>2, SetupIs
  <2>2. mode' \in {"running", "wild", "fault"} /\ ready' \in [made : SUBSET Pages, set : SUBSET Pages]
    BY <2>1, <1>1
  <2>3. kern' = kern \/ Extended(kern, kern')
    <3>1. CanWalk(kern) => Extended(kern, i686_setup_kernelspace(kern, d))
      BY <1>1, WalkIs
    <3>2. QED BY <3>1, <2>1
  <2>4. QED BY <2>1, <2>2, <2>3, <1>1, TypesStep
<1>3. CASE SetContext(d)
  <2>1. /\ mode = "running" /\ kern' = i686_set_context(kern, d)
        /\ UNCHANGED <<mode, mmap, dirty, lists, pages, cur, owned, ready>>
    BY <1>3 DEF SetContext
  <2>2. Extended(kern, kern')
    <3>1. Extended(kern, i686_set_context(kern, d))
      BY <1>1, ContextIs
    <3>2. QED BY <3>1, <2>1
  <2>3. QED BY <2>1, <2>2, <1>1, TypesStep
<1>4. QED BY <1>2, <1>3

LEMMA TypesNext == TypesKept /\ [Next]_vars => TypesKept'
<1> SUFFICES ASSUME TypesKept, [Next]_vars PROVE TypesKept'
  OBVIOUS
<1>1. CASE VirtmemInit
  BY <1>1, TypesVirtmem
<1>2. CASE i686_create_initial
  BY <1>2, TypesInitial
<1>3. CASE EndOfMap \/ i686_prune_memory \/ PruneDone
  BY <1>3, TypesPrune
<1>4. CASE NewSlab
  BY <1>4, TypesSlab
<1>5. CASE i686_address_space_ctor
  BY <1>5, TypesCtor
<1>6. CASE \E d \in ready.made : SetupKernelspace(d) \/ SetContext(d)
  BY <1>6, TypesContext
<1>7. CASE UNCHANGED vars
  BY <1>7 DEF vars, TypesKept, Types, Kept, PointersOf, Below, LimitFits
<1>8. QED BY <1>1, <1>2, <1>3, <1>4, <1>5, <1>6, <1>7 DEF Next, Rest

\* From boot on, whatever the memory map: the kernel's page tables have frames
\* or nothing in every entry, the pointers of both page lists name descriptors
\* or heads, and the counts stay natural numbers.
THEOREM BootTypes == Spec => []Types
<1>1. Spec => []TypesKept
  BY TypesInit, TypesNext, PTL DEF Spec
<1>2. TypesKept => Types
  BY DEF TypesKept
<1>3. QED BY <1>1, <1>2, PTL

\* Once i686_virtmem_init has run, every page of the kernel's image and of its
\* table of descriptors shows the frame of its own number, and every slab the
\* frame it was given: neither brk nor any later i686_kernel_alloc overwrites
\* an entry that is in use.
THEOREM KernelMapStays == Spec => []KernelMapKept
<1>1. Spec => []TypesKept
  BY TypesInit, TypesNext, PTL DEF Spec
<1>2. TypesKept => KernelMapKept
  <2> SUFFICES ASSUME TypesKept, mode # "loaded" PROVE
        /\ \A i \in KernelPages : i < PageUp(kern.limit) => kern.pte[i] = i
        /\ \A o \in owned : kern.pte[o[1]] = o[2]
    BY DEF KernelMapKept
  <2>1. LimitFits(kern.limit) /\ Below(kern) /\ \A o \in owned : kern.pte[o[1]] = o[2]
    BY DEF TypesKept, Kept
  <2>2. PageUp(kern.limit) \in Nat
    BY <2>1, PageUpIs DEF LimitFits
  <2>3. \A i \in KernelPages : i < PageUp(kern.limit) => i <= PageUp(kern.limit)
    BY <2>2, Numbers DEF KernelPages
  <2>4. QED BY <2>1, <2>3 DEF Below
<1>3. QED BY <1>1, <1>2, PTL

-----------------------------------------------------------------------------
\* The two lists of page descriptors.  The list of p is ListFor(p); q gives the
\* order of each.
Ordered(l, S, q) ==
  /\ q \in [Heads -> Seq(Pages)]
  /\ \A h \in Heads : /\ IsInjective(q[h]) /\ Represents(l, h, q[h])
                      /\ Range(q[h]) = {p \in S : ListFor(p) = h}

\* The pages of S are on their lists, and no others.
Pool(l, S) == PointersOf(l, Pages, Heads) /\ S \subseteq Pages /\ \E q : Ordered(l, S, q)

\* The pages outside S have the same pointers in n as in l.
SameOutside(l, n, S) == \A x \in Pages \ S : n.at[x] = l.at[x] /\ n.prev[x] = l.prev[x]

Virgin(l, p) == l.at[p] = Null /\ l.prev[p] = Null

OnFree(S) == {p \in S : ListFor(p) = freelist}

LEMMA PoolInsert ==
  ASSUME NEW l, NEW S, Pool(l, S), NEW p \in Pages, p \notin S
  PROVE  LET n == LIST_INSERT_HEAD(l, ListFor(p), p)
         IN Pool(n, S \cup {p}) /\ SameOutside(l, n, S \cup {p})
<1> DEFINE h == ListFor(p)
           n == LIST_INSERT_HEAD(l, h, p)
<1>1. PointersOf(l, Pages, Heads) /\ S \subseteq Pages
  BY DEF Pool
<1>2. PICK q : Ordered(l, S, q)
  BY DEF Pool
<1>3. h \in Heads /\ h = ListFor(p)
  BY HeadsApart
<1> HIDE DEF h
<1>4. /\ q[h] \in Seq(Pages) /\ IsInjective(q[h]) /\ Represents(l, h, q[h])
      /\ Range(q[h]) = {x \in S : ListFor(x) = h} /\ p \notin Range(q[h])
  BY <1>2, <1>3 DEF Ordered
<1> DEFINE s == q[h]
           t == <<p>> \o s
           r == [q EXCEPT ![h] = t]
<1>5. /\ PointersOf(n, Pages, Heads) /\ Represents(n, h, t)
      /\ \A g \in Heads, z \in Seq(Pages) :
           g # h /\ p \notin Range(z) /\ Range(z) \cap Range(s) = {} /\ Represents(l, g, z)
             => Represents(n, g, z)
  BY <1>1, <1>3, <1>4, InsertHead
<1>6. t \in Seq(Pages) /\ IsInjective(t) /\ Range(t) = Range(s) \cup {p}
  BY <1>4, PrependInjective
<1>7. SameOutside(l, n, S \cup {p})
  <2> SUFFICES ASSUME NEW x \in Pages, x \notin S, x # p PROVE n.at[x] = l.at[x] /\ n.prev[x] = l.prev[x]
    BY DEF SameOutside
  <2>1. x \notin Range(s)
    BY <1>4
  <2>2. QED BY <2>1, <1>1, <1>3, <1>4, InsertHeadLeaves
<1> HIDE DEF n, t
<1>8. r \in [Heads -> Seq(Pages)] /\ r[h] = t /\ \A g \in Heads : g # h => r[g] = q[g]
  BY <1>2, <1>3, <1>6 DEF Ordered
<1> HIDE DEF r
<1>9. ASSUME NEW g \in Heads
      PROVE  /\ IsInjective(r[g]) /\ Represents(n, g, r[g])
             /\ Range(r[g]) = {x \in S \cup {p} : ListFor(x) = g}
  <2>1. CASE g = h
    BY <2>1, <1>3, <1>4, <1>5, <1>6, <1>8
  <2>2. CASE g # h
    <3>1. /\ q[g] \in Seq(Pages) /\ IsInjective(q[g]) /\ Represents(l, g, q[g])
          /\ Range(q[g]) = {x \in S : ListFor(x) = g}
      BY <1>2 DEF Ordered
    <3>2. p \notin Range(q[g]) /\ Range(q[g]) \cap Range(s) = {}
      BY <3>1, <2>2, <1>3, <1>4
    <3>3. Represents(n, g, q[g])
      BY <3>1, <3>2, <2>2, <1>5
    <3>4. {x \in S \cup {p} : ListFor(x) = g} = {x \in S : ListFor(x) = g}
      BY <2>2, <1>3
    <3>5. QED BY <3>1, <3>3, <3>4, <2>2, <1>8
  <2>3. QED BY <2>1, <2>2
<1>10. Ordered(n, S \cup {p}, r)
  BY <1>8, <1>9 DEF Ordered
<1>11. Pool(n, S \cup {p})
  BY <1>1, <1>5, <1>10 DEF Pool
<1>12. QED BY <1>7, <1>11 DEF n, h

LEMMA PoolRemove ==
  ASSUME NEW l, NEW S, Pool(l, S), NEW p \in S
  PROVE  LET n == LIST_REMOVE(l, p)
         IN Pool(n, S \ {p}) /\ SameOutside(l, n, S)
<1> DEFINE h == ListFor(p)
           n == LIST_REMOVE(l, p)
<1>1. PointersOf(l, Pages, Heads) /\ S \subseteq Pages /\ p \in Pages
  BY DEF Pool
<1>2. PICK q : Ordered(l, S, q)
  BY DEF Pool
<1>3. h \in Heads /\ h = ListFor(p) /\ Null \notin Heads
  BY HeadsApart
<1> HIDE DEF h
<1>4. /\ q[h] \in Seq(Pages) /\ IsInjective(q[h]) /\ Represents(l, h, q[h])
      /\ Range(q[h]) = {x \in S : ListFor(x) = h} /\ p \in Range(q[h])
  BY <1>2, <1>3 DEF Ordered
<1> DEFINE s == q[h]
<1>5. PICK k \in 1 .. Len(s) : s[k] = p
  <2>1. DOMAIN s = 1 .. Len(s)
    BY <1>4, LenProperties
  <2>2. QED BY <2>1, <1>4 DEF Range
<1> DEFINE t == Without(s, k)
           r == [q EXCEPT ![h] = t]
<1>6. /\ PointersOf(n, Pages, Heads) /\ Represents(n, h, t)
      /\ \A g \in Heads, z \in Seq(Pages) :
           g # h /\ Range(z) \cap Range(s) = {} /\ Represents(l, g, z) => Represents(n, g, z)
      /\ \A x \in Pages : x \notin Range(s) => n.at[x] = l.at[x] /\ n.prev[x] = l.prev[x]
  <2>1. n = LIST_REMOVE(l, s[k])
    BY <1>5
  <2>2. QED BY <2>1, <1>1, <1>3, <1>4, <1>5, RemoveElement
<1>7. t \in Seq(Pages) /\ IsInjective(t) /\ Range(t) = Range(s) \ {p}
  BY <1>4, <1>5, WithoutInjective
<1> HIDE DEF n, t
<1>8. SameOutside(l, n, S)
  BY <1>4, <1>6 DEF SameOutside
<1>9. r \in [Heads -> Seq(Pages)] /\ r[h] = t /\ \A g \in Heads : g # h => r[g] = q[g]
  BY <1>2, <1>3, <1>7 DEF Ordered
<1> HIDE DEF r
<1>10. ASSUME NEW g \in Heads
       PROVE  /\ IsInjective(r[g]) /\ Represents(n, g, r[g])
              /\ Range(r[g]) = {x \in S \ {p} : ListFor(x) = g}
  <2>1. CASE g = h
    BY <2>1, <1>3, <1>4, <1>6, <1>7, <1>9
  <2>2. CASE g # h
    <3>1. /\ q[g] \in Seq(Pages) /\ IsInjective(q[g]) /\ Represents(l, g, q[g])
          /\ Range(q[g]) = {x \in S : ListFor(x) = g}
      BY <1>2 DEF Ordered
    <3>2. Range(q[g]) \cap Range(s) = {}
      BY <3>1, <2>2, <1>3, <1>4
    <3>3. Represents(n, g, q[g])
      BY <3>1, <3>2, <2>2, <1>6
    <3>4. {x \in S \ {p} : ListFor(x) = g} = {x \in S : ListFor(x) = g}
      BY <2>2, <1>3
    <3>5. QED BY <3>1, <3>3, <3>4, <2>2, <1>9
  <2>3. QED BY <2>1, <2>2
<1>11. Ordered(n, S \ {p}, r)
  BY <1>9, <1>10 DEF Ordered
<1>12. Pool(n, S \ {p})
  BY <1>1, <1>6, <1>11 DEF Pool
<1>13. QED BY <1>8, <1>12 DEF n

\* LIST_REMOVE of a descriptor that is all zeros changes nothing.
LEMMA VirginRemove ==
  ASSUME NEW l, NEW p, Virgin(l, p)
  PROVE  LIST_REMOVE(l, p).at = l.at /\ LIST_REMOVE(l, p).prev = l.prev
  BY DEF Virgin, LIST_REMOVE

LEMMA SamePointers ==
  ASSUME NEW l, NEW n, n.at = l.at, n.prev = l.prev, NEW S, Pool(l, S)
  PROVE  Pool(n, S)
<1>1. PointersOf(n, Pages, Heads) /\ S \subseteq Pages
  BY DEF Pool, PointersOf
<1>2. PICK q : Ordered(l, S, q)
  BY DEF Pool
<1>3. \A h \in Heads : Represents(n, h, q[h])
  BY <1>2 DEF Ordered, Represents
<1>4. Ordered(n, S, q)
  BY <1>2, <1>3 DEF Ordered
<1>5. QED BY <1>1, <1>4 DEF Pool

\* A list of pages is no longer than there are pages.
LEMMA FewPages ==
  ASSUME NEW s \in Seq(Pages), IsInjective(s)
  PROVE  Cardinality(Pages) \in Nat /\ Len(s) <= Cardinality(Pages)
<1>1. IsFiniteSet(Pages)
  BY PageNumbers
<1>2. Len(s) \in Nat /\ DOMAIN s = 1 .. Len(s) /\ s \in [1 .. Len(s) -> Pages]
  BY LenProperties
<1>3. \A i, j \in 1 .. Len(s) : s[i] = s[j] => i = j
  BY <1>2 DEF IsInjective
<1>4. s \in Injection(1 .. Len(s), Pages)
  BY <1>2, <1>3 DEF Injection
<1>5. Cardinality(1 .. Len(s)) <= Cardinality(Pages)
  BY <1>1, <1>4, FS_Injection
<1>6. Cardinality(1 .. Len(s)) = Len(s)
  BY <1>2, FS_Interval
<1>7. QED BY <1>1, <1>5, <1>6, FS_CardinalityType

\* What LIST_FOREACH, LIST_EMPTY and LIST_FIRST find on the free list.
LEMMA PoolFree ==
  ASSUME NEW S, Pool(lists, S)
  PROVE  /\ Free = OnFree(S) /\ WellFormed(lists, freelist, Cardinality(Pages))
         /\ LIST_EMPTY(lists, freelist) <=> OnFree(S) = {}
         /\ OnFree(S) # {} => LIST_FIRST(lists, freelist) \in OnFree(S)
<1>1. PointersOf(lists, Pages, Heads) /\ freelist \in Heads
  BY DEF Pool, Heads
<1>2. PICK q : Ordered(lists, S, q)
  BY DEF Pool
<1>3. PICK s \in Seq(Pages) : IsInjective(s) /\ Represents(lists, freelist, s) /\ Range(s) = OnFree(S)
  <2>1. /\ q[freelist] \in Seq(Pages) /\ IsInjective(q[freelist]) /\ Represents(lists, freelist, q[freelist])
        /\ Range(q[freelist]) = OnFree(S)
    BY <1>1, <1>2 DEF Ordered, OnFree
  <2>2. QED BY <2>1
<1>4. Cardinality(Pages) \in Nat /\ Len(s) <= Cardinality(Pages)
  BY <1>3, FewPages
<1>5. WellFormed(lists, freelist, Cardinality(Pages)) /\ Free = Range(s)
  BY <1>1, <1>3, <1>4, Visiting DEF Free
<1>6. /\ Len(s) \in Nat /\ DOMAIN s = 1 .. Len(s) /\ (s = <<>> <=> Len(s) = 0)
      /\ Null \notin Pages /\ \A i \in 1 .. Len(s) : s[i] \in Pages
  BY LenProperties, EmptySeq, HeadsApart
<1>7. lists.at[freelist] = IF s = <<>> THEN Null ELSE s[1]
  BY <1>3 DEF Represents
<1>8. CASE s = <<>>
  BY <1>3, <1>5, <1>6, <1>7, <1>8 DEF LIST_EMPTY, LIST_FIRST, Range
<1>9. CASE s # <<>>
  <2>1. 1 \in DOMAIN s /\ 1 \in 1 .. Len(s)
    BY <1>6, <1>9
  <2>2. s[1] \in OnFree(S) /\ s[1] # Null
    BY <2>1, <1>3, <1>6 DEF Range
  <2>3. QED BY <2>2, <1>3, <1>5, <1>7, <1>9 DEF LIST_EMPTY, LIST_FIRST
<1>10. QED BY <1>8, <1>9

\* The loop of i686_create_initial over an area that is not on the lists yet.
LEMMA InsertPagesPool ==
  ASSUME NEW l, NEW S, Pool(l, S), NEW first \in Nat, NEW n \in Nat,
         \A i \in 1 .. n : first + i - 1 \in Pages \ S
  PROVE  LET m == InsertPages(l, first, n)
             T == S \cup (first .. first + n - 1)
         IN Pool(m, T) /\ SameOutside(l, m, T)
<1>1. PICK f : Turns(f, l, first, n) /\ InsertPages(l, first, n) = f[n]
  BY InsertPagesIs
<1>2. \A i \in 0 .. n : f[i] = IF i = 0 THEN l
                              ELSE LIST_INSERT_HEAD(f[i - 1], ListFor(first + i - 1), first + i - 1)
  BY <1>1 DEF Turns
<1> DEFINE T(i) == S \cup (first .. first + i - 1)
           Good(i) == Pool(f[i], T(i)) /\ SameOutside(l, f[i], T(i))
           Bad == {i \in 0 .. n : ~Good(i)}
<1>3. Good(0)
  <2>1. f[0] = l
    BY <1>2
  <2>2. T(0) = S
    OBVIOUS
  <2>3. SameOutside(l, l, S)
    BY DEF SameOutside
  <2>4. QED BY <2>1, <2>2, <2>3
<1>4. ASSUME NEW i \in 1 .. n, Good(i - 1) PROVE Good(i)
  <2>1. PICK p \in Pages : p = first + i - 1
    BY <1>4
  <2>2. p \notin T(i - 1) /\ T(i) = T(i - 1) \cup {p}
    <3>1. p \notin S
      BY <2>1
    <3>2. /\ p \notin first .. first + (i - 1) - 1
          /\ first .. first + i - 1 = (first .. first + (i - 1) - 1) \cup {p}
      BY <2>1
    <3>3. QED BY <3>1, <3>2
  <2>3. f[i] = LIST_INSERT_HEAD(f[i - 1], ListFor(p), p)
    <3>1. i \in 0 .. n /\ i # 0
      OBVIOUS
    <3>2. QED BY <3>1, <2>1, <1>2, Zenon
  <2>4. Pool(f[i - 1], T(i - 1)) /\ SameOutside(l, f[i - 1], T(i - 1))
    BY <1>4
  <2> HIDE DEF T
  <2>5. Pool(f[i], T(i - 1) \cup {p}) /\ SameOutside(f[i - 1], f[i], T(i - 1) \cup {p})
    BY <2>2, <2>3, <2>4, PoolInsert
  <2>6. SameOutside(l, f[i], T(i - 1) \cup {p})
    BY <2>4, <2>5 DEF SameOutside
  <2>7. QED BY <2>2, <2>5, <2>6
<1> HIDE DEF Good
<1>5. CASE Bad # {}
  <2>1. PICK m \in Bad : \A k \in Bad : m <= k
    <3>1. Bad \subseteq Nat
      OBVIOUS
    <3> HIDE DEF Bad
    <3>2. QED BY <3>1, <1>5, LeastNat
  <2>2. m \in 0 .. n /\ ~Good(m)
    BY <2>1
  <2>3. m # 0
    BY <2>2, <1>3
  <2>4. m \in 1 .. n /\ m - 1 \in 0 .. n /\ m - 1 \notin Bad
    BY <2>1, <2>2, <2>3
  <2>5. QED BY <2>2, <2>4, <1>4
<1>6. CASE Bad = {}
  <2>1. Good(n)
    BY <1>6
  <2>2. QED BY <2>1, <1>1 DEF Good
<1>7. QED BY <1>5, <1>6
-----------------------------------------------------------------------------
\* A directory with the kernel's tables shows the kernel's pages.
LEMMA SeenIs ==
  ASSUME NEW k \in KernType, NEW d \in Pages, HasKernel(k.dir[d]), NEW i \in KernelPages
  PROVE  Seen(k, d, i) = k.pte[i]
<1>1. i \in Nat /\ i < NPte * NKernelPde /\ NPte * NKernelPde \in Nat
  BY Numbers DEF KernelPages, NKernelPages
<1>2. PICK q \in Nat, r \in 0 .. NPte - 1 : q = i \div NPte /\ r = i % NPte /\ i = (NPte * q) + r
  <2>1. i \div NPte \in Nat /\ i % NPte \in 0 .. NPte - 1 /\ i = (NPte * (i \div NPte)) + (i % NPte)
    BY <1>1, Numbers, Division
  <2>2. QED BY <2>1
<1>3. q < NKernelPde
  <2>1. NPte * q \in Nat /\ NPte * q <= i
    BY <1>2, Numbers
  <2>2. NPte * q < NPte * NKernelPde
    BY <2>1, <1>1
  <2>3. QED BY <2>2, <1>2, Numbers, ProductBelow
<1>4. NStartPde + q \in PdEntries /\ NStartPde + q >= NStartPde /\ (NStartPde + q) - NStartPde = q
  BY <1>2, <1>3, Numbers DEF PdEntries
<1>5. k.dir[d][NStartPde + q] = q
  BY <1>4 DEF HasKernel
<1>6. Seen(k, d, i) = LET table == k.dir[d][NStartPde + q]
                      IN IF table < 0 THEN table ELSE k.pte[(NPte * table) + r]
  BY <1>2 DEF Seen
<1>7. Seen(k, d, i) = k.pte[(NPte * q) + r]
  BY <1>2, <1>5, <1>6
<1>8. QED BY <1>2, <1>7

\* The descriptors below the limit can be touched.
LEMMA Touchable ==
  ASSUME NEW k \in KernType, LimitFits(k.limit), Below(k), HasKernel(k.dir[k.cr3]),
         NEW p \in Nat, Descriptor(p + 1) <= k.limit
  PROVE  Reachable(k, p)
<1> DEFINE a == Descriptor(p)
           b == Descriptor(p + 1) - 1
<1>1. a \in Nat /\ b \in Nat /\ b < k.limit /\ k.limit \in Nat
  <2>1. Descriptor(p) \in Nat /\ Descriptor(p + 1) \in Nat
    BY DescriptorMonotonic
  <2>2. Descriptor(p + 1) # 0
    <3>1. EntrySize * (p + 1) \in Nat \ {0}
      BY Numbers
    <3>2. QED BY <3>1, Numbers DEF Descriptor
  <2>3. QED BY <2>1, <2>2 DEF LimitFits
<1>2. PageUp(k.limit) \in KernelPages /\ PageUp(k.limit) \in Nat
      /\ PageSize * PageUp(k.limit) \in Nat /\ k.limit <= PageSize * PageUp(k.limit)
  BY <1>1, LimitInWindow, PageUpIs
<1> HIDE DEF a, b
<1>3. PICK x \in Nat, y \in Nat : x = a \div PageSize /\ y = b \div PageSize /\ PageSize * y <= b
  <2>1. a \div PageSize \in Nat
    BY <1>1, Numbers, Division
  <2>2. b \div PageSize \in Nat /\ b % PageSize \in 0 .. PageSize - 1
        /\ b = (PageSize * (b \div PageSize)) + (b % PageSize)
    BY <1>1, Numbers, Division
  <2>3. PageSize * (b \div PageSize) \in Nat
    BY <2>2, Numbers
  <2>4. PageSize * (b \div PageSize) <= b
    BY <2>2, <2>3, <1>1
  <2>5. QED BY <2>1, <2>2, <2>4
<1>4. y < PageUp(k.limit)
  <2>1. PageSize * y \in Nat
    BY <1>3, Numbers
  <2>2. PageSize * y < PageSize * PageUp(k.limit)
    BY <2>1, <1>1, <1>2, <1>3
  <2>3. QED BY <2>2, <1>2, <1>3, Numbers, ProductBelow
<1>5. ASSUME NEW i \in x .. y PROVE Seen(k, k.cr3, i) # Absent
  <2>1. i \in KernelPages /\ i <= PageUp(k.limit)
    BY <1>2, <1>3, <1>4, Numbers DEF KernelPages
  <2>2. k.pte[i] = i /\ i # Absent
    BY <2>1, AbsentIsNoPage, PageNumbers DEF Below
  <2>3. k.cr3 \in Pages
    BY DEF KernType
  <2>4. QED BY <2>1, <2>2, <2>3, SeenIs
<1>6. QED BY <1>3, <1>5 DEF Reachable, a, b

-----------------------------------------------------------------------------
\* The pages of all areas, and of the entries before the n-th.
All == {p \in Pages : \E e \in Areas : p \in Span(e)}
Entered(n) == {p \in Pages : \E j \in DOMAIN mmap : j < n /\ mmap[j].usable /\ p \in Span(mmap[j])}
Upper == {p \in All : p > AboveImage}

RoomMade(n) == \A j \in DOMAIN mmap : j < n /\ mmap[j].usable => RoomFor(mmap[j]) <= kern.limit

Lower(t) == \A e \in PdEntries : e < NStartPde => t[e] = Absent

\* While the map is read, the lists have the pages of the entries before.
Filling ==
  mode \in {"loaded", "areas"} =>
    /\ cur <= Len(mmap) + 1 /\ (mode = "loaded" => cur = 1)
    /\ Pool(lists, Entered(cur)) /\ \A p \in Pages \ Entered(cur) : Virgin(lists, p)
    /\ pages.free = Cardinality(OnFree(Entered(cur)))

\* brk has made room for every area that was entered.
Roomy ==
  /\ mode # "loaded" => KernelEnd <= kern.limit
  /\ mode = "areas" => RoomMade(cur)
  /\ mode = "prune" => RoomMade(Len(mmap) + 1)

\* While the kernel is pruned, the lists have the pages it has not come to.
Pruning ==
  mode = "prune" =>
    /\ cur <= AboveImage + 1
    /\ Pool(lists, {p \in All : p >= cur}) /\ \A p \in Pages \ All : p >= cur => Virgin(lists, p)
    /\ pages.free = Cardinality(OnFree(All))

\* Then they have the pages above the kernel that were not taken.
Running ==
  mode = "running" =>
    /\ Taken \subseteq Upper /\ Pool(lists, Upper \ Taken)
    /\ (pages.free + Uncounted) % NAddresses = Cardinality(Upper \ Taken)
    /\ Spare >= Uncounted => pages.free + Uncounted = Cardinality(Upper \ Taken)

Faulty == mode = "fault" => Spare < Uncounted

\* Directories that were set up have the kernel's tables and nothing else; one
\* that was made has nothing as long as kernel pages are left.
Directories ==
  mode # "loaded" =>
    /\ ready.set \subseteq ready.made /\ KernelPd \notin ready.made
    /\ \A d \in ready.set \cup {KernelPd} : HasKernel(kern.dir[d])
    /\ \A d \in ready.set : Lower(kern.dir[d])
    /\ CanAlloc(kern) => \A d \in ready.made : Lower(kern.dir[d])
    /\ kern.cr3 \in ready.set \cup {KernelPd}

Pooled == Filling /\ Roomy /\ Pruning /\ Running /\ Faulty /\ Directories

BootInv == TypesKept /\ (Separated => Pooled)

LEMMA PoolEmpty ==
  ASSUME NEW l, PointersOf(l, Pages, Heads), \A h \in Heads : l.at[h] = Null
  PROVE  Pool(l, {})
<1> DEFINE q == [h \in Heads |-> <<>>]
<1>1. <<>> \in Seq(Pages) /\ Len(<<>>) = 0 /\ DOMAIN <<>> = {}
  OBVIOUS
<1>2. IsInjective(<<>>) /\ Range(<<>>) = {}
  BY <1>1 DEF IsInjective, Range
<1>3. ASSUME NEW h \in Heads PROVE Represents(l, h, <<>>)
  BY <1>1 DEF Represents
<1>4. q \in [Heads -> Seq(Pages)] /\ \A h \in Heads : q[h] = <<>>
  BY <1>1
<1> HIDE DEF q
<1>5. Ordered(l, {}, q)
  <2>1. \A h \in Heads : {p \in {} : ListFor(p) = h} = {}
    OBVIOUS
  <2>2. QED BY <2>1, <1>2, <1>3, <1>4 DEF Ordered
<1>6. QED BY <1>5 DEF Pool

LEMMA PooledInit == Init => BootInv
<1> SUFFICES ASSUME Init PROVE BootInv
  OBVIOUS
<1>1. TypesKept
  BY TypesInit
<1>2. /\ mode = "loaded" /\ mmap \in Maps /\ cur = 1 /\ pages.free = 0
      /\ lists = [at |-> [p \in Pages \cup {freelist, bootlist} |-> Null],
                  prev |-> [p \in Pages |-> Null]]
  BY DEF Init
<1>3. Len(mmap) \in Nat /\ DOMAIN mmap = 1 .. Len(mmap)
  BY <1>2, Entry
<1>4. Entered(1) = {}
  BY <1>3 DEF Entered
<1>5. Pool(lists, {}) /\ \A p \in Pages : Virgin(lists, p)
  <2>1. \A h \in Heads : lists.at[h] = Null
    BY <1>2 DEF Heads
  <2>2. \A p \in Pages : Virgin(lists, p)
    BY <1>2 DEF Virgin
  <2>3. PointersOf(lists, Pages, Heads)
    BY <1>1 DEF TypesKept, Types
  <2>4. QED BY <2>1, <2>2, <2>3, PoolEmpty
<1>6. OnFree({}) = {} /\ Cardinality({}) = 0
  BY FS_EmptySet DEF OnFree
<1>7. Filling
  <2>1. Entered(cur) = {} /\ OnFree(Entered(cur)) = {}
    BY <1>2, <1>4, <1>6, Zenon
  <2>2. Pool(lists, Entered(cur)) /\ \A p \in Pages \ Entered(cur) : Virgin(lists, p)
    BY <2>1, <1>5, Zenon
  <2>3. pages.free = Cardinality(OnFree(Entered(cur)))
    BY <2>1, <1>2, <1>6, Zenon
  <2>4. cur <= Len(mmap) + 1
    BY <1>2, <1>3
  <2>5. QED BY <2>2, <2>3, <2>4, <1>2 DEF Filling
<1>8. QED BY <1>1, <1>2, <1>7 DEF BootInv, Pooled, Roomy, Pruning, Running, Faulty, Directories

LEMMA PooledVirtmem ==
  ASSUME TypesKept, Pooled, VirtmemInit
  PROVE  Pooled'
<1>1. /\ mode = "loaded" /\ mode' = "areas" /\ kern' = i686_virtmem_init(setup_tables(Pages), KernelEnd)
      /\ UNCHANGED <<mmap, lists, pages, cur, owned, ready>> /\ ready = [made |-> {}, set |-> {}]
  BY DEF VirtmemInit, TypesKept, Kept
<1>2. /\ KernelEnd <= kern'.limit /\ kern'.cr3 = KernelPd /\ HasKernel(kern'.dir[KernelPd])
  BY <1>1, VirtmemInitIs
<1>3. Filling' /\ cur = 1
  BY <1>1 DEF Pooled, Filling, Entered
<1>4. RoomMade(cur)'
  <2>1. Len(mmap) \in Nat /\ DOMAIN mmap = 1 .. Len(mmap)
    BY Entry DEF TypesKept, Types
  <2>2. \A j \in DOMAIN mmap : ~(j < 1)
    BY <2>1
  <2>3. QED BY <2>2, <1>1, <1>3 DEF RoomMade
<1>5. Roomy'
  BY <1>1, <1>2, <1>4 DEF Roomy
<1>6. Directories'
  BY <1>1, <1>2 DEF Directories
<1>7. QED BY <1>1, <1>3, <1>5, <1>6 DEF Pooled, Pruning, Running, Faulty

\* What Directories says does not depend on the limit.
LEMMA DirectoriesStay ==
  ASSUME TypesKept, Directories, mode # "loaded", kern'.dir = kern.dir, kern'.cr3 = kern.cr3,
         UNCHANGED ready, CanAlloc(kern') => CanAlloc(kern)
  PROVE  Directories'
  BY DEF Directories

LEMMA BrkAlloc ==
  ASSUME NEW k \in KernType, NEW x, CanAlloc(i686_brk(k, x))
  PROVE  CanAlloc(k)
<1> DEFINE n == i686_brk(k, x)
           tab == [i \in KernelPages |->
                     IF i \in PageUp(k.limit) + 1 .. PageUp(x) THEN i ELSE k.pte[i]]
<1>1. PICK i \in KernelPages : n.pte[i] = Absent
  BY DEF CanAlloc
<1>2. CASE x < k.limit
  BY <1>1, <1>2 DEF i686_brk, CanAlloc
<1>3. CASE ~(x < k.limit)
  <2>1. n = [k EXCEPT !.limit = x, !.pte = tab]
    BY <1>3 DEF i686_brk
  <2>2. \A j \in KernelPages : tab[j] = IF j \in PageUp(k.limit) + 1 .. PageUp(x) THEN j ELSE k.pte[j]
    OBVIOUS
  <2> HIDE DEF n, tab
  <2>3. n.pte = tab
    BY <2>1 DEF KernType
  <2>4. i # Absent
    BY AbsentIsNoPage, PageNumbers
  <2>5. k.pte[i] = Absent
    BY <1>1, <2>2, <2>3, <2>4
  <2>6. QED BY <2>5 DEF CanAlloc
<1>4. QED BY <1>2, <1>3

\* The next entry is one of the entries, and if it is usable its pages are not
\* on the lists.
LEMMA NextEntry ==
  ASSUME TypesKept, Separated, mode = "areas", cur <= Len(mmap)
  PROVE  /\ cur \in DOMAIN mmap /\ mmap[cur] \in Entries /\ cur \in Nat
         /\ DOMAIN mmap = 1 .. Len(mmap) /\ Len(mmap) \in Nat
         /\ mmap[cur].usable => /\ Span(mmap[cur]) \cap Entered(cur) = {}
                                /\ Entered(cur + 1) = Entered(cur) \cup Span(mmap[cur])
         /\ ~mmap[cur].usable => Entered(cur + 1) = Entered(cur)
<1>1. Len(mmap) \in Nat /\ DOMAIN mmap = 1 .. Len(mmap) /\ \A j \in DOMAIN mmap : mmap[j] \in Entries
  BY Entry DEF TypesKept, Types
<1>2. cur \in Nat /\ cur # 0
  BY DEF TypesKept, Types, Kept
<1>3. cur \in DOMAIN mmap
  BY <1>1, <1>2
<1>4. Span(mmap[cur]) \subseteq Pages
  BY <1>1, <1>3, AreaPages
<1>5. \A j \in DOMAIN mmap : /\ j < cur + 1 <=> j < cur \/ j = cur
                             /\ j < cur => j # cur
  BY <1>1, <1>2
<1>6. mmap[cur].usable => Span(mmap[cur]) \cap Entered(cur) = {}
  <2> SUFFICES ASSUME mmap[cur].usable, NEW p \in Span(mmap[cur]), p \in Entered(cur) PROVE FALSE
    OBVIOUS
  <2>1. PICK j \in DOMAIN mmap : j < cur /\ mmap[j].usable /\ p \in Span(mmap[j])
    BY DEF Entered
  <2>2. Span(mmap[cur]) \cap Span(mmap[j]) = {}
    BY <2>1, <1>3, <1>5 DEF Separated, Span
  <2>3. QED BY <2>1, <2>2
<1>7. mmap[cur].usable => Entered(cur + 1) = Entered(cur) \cup Span(mmap[cur])
  BY <1>3, <1>4, <1>5 DEF Entered
<1>8. ~mmap[cur].usable => Entered(cur + 1) = Entered(cur)
  BY <1>3, <1>5 DEF Entered
<1>9. QED BY <1>1, <1>2, <1>3, <1>6, <1>7, <1>8

LEMMA FreeOfUnion ==
  ASSUME NEW S, NEW T, S \subseteq Pages, T \subseteq Pages, S \cap T = {}
  PROVE  /\ Cardinality(OnFree(S \cup T)) = Cardinality(OnFree(S)) + Cardinality(OnFree(T))
         /\ Cardinality(OnFree(S)) \in Nat /\ Cardinality(OnFree(T)) \in Nat
<1>1. IsFiniteSet(OnFree(S)) /\ IsFiniteSet(OnFree(T))
  <2>1. OnFree(S) \in SUBSET Pages /\ OnFree(T) \in SUBSET Pages
    BY DEF OnFree
  <2>2. QED BY <2>1, PageNumbers, FS_Subset
<1>2. OnFree(S \cup T) = OnFree(S) \cup OnFree(T) /\ OnFree(S) \cap OnFree(T) = {}
  BY DEF OnFree
<1>3. Cardinality(OnFree(S) \cup OnFree(T)) =
        Cardinality(OnFree(S)) + Cardinality(OnFree(T)) - Cardinality(OnFree(S) \cap OnFree(T))
  BY <1>1, FS_Union
<1>4. Cardinality(OnFree(S) \cap OnFree(T)) = 0
  BY <1>2, FS_EmptySet, Zenon
<1>5. Cardinality(OnFree(S)) \in Nat /\ Cardinality(OnFree(T)) \in Nat
  BY <1>1, FS_CardinalityType
<1>6. Cardinality(OnFree(S \cup T)) = Cardinality(OnFree(S) \cup OnFree(T))
  BY <1>2, Zenon
<1>7. QED BY <1>3, <1>4, <1>5, <1>6

\* A usable area is entered: brk has made room, so no descriptor is out of reach.
LEMMA PooledUsable ==
  ASSUME TypesKept, Separated, Pooled, mode = "areas", cur <= Len(mmap),
         ~mmap[cur].high, mmap[cur].usable, Area(mmap[cur]),
         UNCHANGED <<mmap, dirty, owned, ready>>
  PROVE  Pooled'
<1> DEFINE e == mmap[cur]
           k == i686_brk(kern, RoomFor(e))
           c == Cardinality(Span(e))
<1>1. /\ mode' = (IF \A p \in Span(e) : Reachable(k, p) THEN mode ELSE "fault")
      /\ kern' = k
      /\ lists' = InsertPages(lists, FirstPage(e), c)
      /\ pages' = [free |-> pages.free + Cardinality(OnFree(Span(e))),
                   total |-> pages.total + c]
      /\ cur' = cur + 1
  BY DEF Area, Span, OnFree
<1>2. /\ cur \in DOMAIN mmap /\ e \in Entries /\ cur \in Nat
      /\ DOMAIN mmap = 1 .. Len(mmap) /\ Len(mmap) \in Nat
      /\ Span(e) \cap Entered(cur) = {}
      /\ Entered(cur + 1) = Entered(cur) \cup Span(e)
  BY NextEntry
<1> HIDE DEF e
<1>3. /\ kern \in KernType /\ LimitFits(kern.limit) /\ Below(kern)
      /\ ready = [made |-> {}, set |-> {}] /\ pages \in [free : Nat, total : Nat]
  BY DEF TypesKept, Types, Kept
<1>4. /\ kern.cr3 = KernelPd /\ HasKernel(kern.dir[KernelPd]) /\ Directories
      /\ KernelEnd <= kern.limit /\ RoomMade(cur)
      /\ Pool(lists, Entered(cur)) /\ \A p \in Pages \ Entered(cur) : Virgin(lists, p)
      /\ pages.free = Cardinality(OnFree(Entered(cur)))
  BY <1>3 DEF Pooled, Directories, Roomy, Filling
<1>5. /\ k \in KernType /\ LimitFits(k.limit) /\ Below(k) /\ RoomFor(e) <= k.limit
      /\ kern.limit <= k.limit /\ k.dir = kern.dir /\ k.cr3 = kern.cr3
  BY <1>2, <1>3, RoomFits, BrkIs
<1>6. CanAlloc(k) => CanAlloc(kern)
  BY <1>3, BrkAlloc
<1> HIDE DEF k
<1>7. /\ FirstPage(e) \in Nat /\ LastPage(e) \in Nat /\ FirstPage(e) <= LastPage(e)
      /\ Span(e) = FirstPage(e) .. LastPage(e) /\ Span(e) \subseteq Pages
      /\ c \in Nat /\ c = LastPage(e) - FirstPage(e) + 1
      /\ \A i \in 1 .. c : FirstPage(e) + i - 1 \in Span(e)
  <2>1. /\ FirstPage(e) \in Nat /\ LastPage(e) \in Nat /\ FirstPage(e) <= LastPage(e)
        /\ Span(e) \subseteq Pages
    BY <1>2, AreaPages
  <2>2. QED BY <2>1, <1>2, SpanCounts DEF Span
<1> HIDE DEF c
<1>8. mode' = "areas"
  <2>1. ASSUME NEW p \in Span(e) PROVE Reachable(k, p)
    <3>1. p \in Nat /\ p + 1 <= LastPage(e) + 1
      BY <1>7
    <3>2. Descriptor(p + 1) <= RoomFor(e) /\ Descriptor(p + 1) \in Nat /\ RoomFor(e) \in Nat
      <4>1. p + 1 \in Nat /\ LastPage(e) + 1 \in Nat
        BY <3>1, <1>7
      <4>2. QED BY <4>1, <3>1, DescriptorMonotonic DEF RoomFor
    <3>3. Descriptor(p + 1) <= k.limit
      BY <3>2, <1>5 DEF LimitFits
    <3>4. HasKernel(k.dir[k.cr3])
      BY <1>4, <1>5
    <3>5. QED BY <3>1, <3>3, <3>4, <1>5, Touchable
  <2>2. QED BY <2>1, <1>1
<1>9. Pool(lists', Entered(cur + 1)) /\ SameOutside(lists, lists', Entered(cur + 1))
  <2>1. \A i \in 1 .. c : FirstPage(e) + i - 1 \in Pages \ Entered(cur)
    BY <1>2, <1>7
  <2>2. LET T == Entered(cur) \cup (FirstPage(e) .. FirstPage(e) + c - 1)
            m == InsertPages(lists, FirstPage(e), c)
        IN Pool(m, T) /\ SameOutside(lists, m, T)
    BY <2>1, <1>4, <1>7, InsertPagesPool
  <2>3. FirstPage(e) .. FirstPage(e) + c - 1 = Span(e)
    <3>1. FirstPage(e) + c - 1 = LastPage(e)
      BY <1>7
    <3>2. QED BY <3>1, <1>7, Zenon
  <2>4. Entered(cur) \cup (FirstPage(e) .. FirstPage(e) + c - 1) = Entered(cur + 1)
    BY <2>3, <1>2, Zenon
  <2>5. QED BY <2>2, <2>4, <1>1, Zenon
<1>10. Entered(cur)' = Entered(cur + 1)
  BY <1>1 DEF Entered
<1>11. pages'.free = Cardinality(OnFree(Entered(cur + 1)))
  <2>1. Entered(cur) \subseteq Pages /\ Entered(cur) \cap Span(e) = {}
    BY <1>2 DEF Entered
  <2>2. Cardinality(OnFree(Entered(cur) \cup Span(e)))
          = Cardinality(OnFree(Entered(cur))) + Cardinality(OnFree(Span(e)))
    BY <2>1, <1>7, FreeOfUnion
  <2>3. pages'.free = pages.free + Cardinality(OnFree(Span(e)))
    BY <1>1
  <2>4. QED BY <2>2, <2>3, <1>2, <1>4, Zenon
<1>12. Filling'
  <2>1. \A p \in Pages \ Entered(cur + 1) : Virgin(lists', p)
    <3>1. Entered(cur) \subseteq Entered(cur + 1)
      BY <1>2
    <3>2. QED BY <3>1, <1>4, <1>9 DEF SameOutside, Virgin
  <2>2. cur' <= Len(mmap') + 1
    BY <1>1, <1>2
  <2>3. Pool(lists', Entered(cur)') /\ \A p \in Pages \ Entered(cur)' : Virgin(lists', p)
    BY <2>1, <1>9, <1>10, Zenon
  <2>4. pages'.free = Cardinality(OnFree(Entered(cur)'))
    BY <1>10, <1>11, Zenon
  <2>5. OnFree(Entered(cur))' = OnFree(Entered(cur)')
    BY DEF OnFree, ListFor
  <2>6. QED BY <2>2, <2>3, <2>4, <2>5, <1>8 DEF Filling
<1>13. Roomy'
  <2>1. ASSUME NEW j \in DOMAIN mmap, j < cur + 1, mmap[j].usable PROVE RoomFor(mmap[j]) <= k.limit
    <3>1. CASE j = cur
      BY <3>1, <1>5 DEF e
    <3>2. CASE j # cur
      <4>1. j < cur /\ mmap[j] \in Entries
        BY <3>2, <2>1, <1>2, Entry DEF TypesKept, Types
      <4>2. RoomFor(mmap[j]) <= kern.limit /\ LimitFits(RoomFor(mmap[j]))
        BY <4>1, <2>1, <1>4, RoomFits DEF RoomMade
      <4>3. QED BY <4>2, <1>3, <1>5 DEF LimitFits
    <3>3. QED BY <3>1, <3>2
  <2>2. RoomMade(cur)'
    BY <2>1, <1>1 DEF RoomMade
  <2>3. KernelEnd <= kern'.limit
    BY <1>1, <1>3, <1>4, <1>5, Numbers DEF LimitFits
  <2>4. QED BY <2>2, <2>3, <1>8 DEF Roomy
<1>14. Directories'
  BY <1>1, <1>4, <1>5, <1>6, DirectoriesStay
<1>15. QED BY <1>8, <1>12, <1>13, <1>14 DEF Pooled, Pruning, Running, Faulty

LEMMA PooledInitial ==
  ASSUME TypesKept, Separated, Pooled, i686_create_initial
  PROVE  Pooled'
<1> DEFINE e == mmap[cur]
<1>1. /\ mode = "areas" /\ cur <= Len(mmap) /\ Area(e)
      /\ UNCHANGED <<mmap, dirty, owned, ready>>
  BY DEF i686_create_initial
<1>2. CASE e.high /\ mode' = "hung" /\ UNCHANGED <<kern, lists, pages, cur>>
  BY <1>1, <1>2 DEF Pooled, Filling, Roomy, Pruning, Running, Faulty, Directories
<1>3. CASE ~e.high /\ e.usable
  BY <1>1, <1>3, PooledUsable
<1>4. CASE ~e.high /\ ~e.usable
  <2>1. /\ pages' = [pages EXCEPT !.total = @ + Cardinality(Span(e))]
        /\ cur' = cur + 1 /\ UNCHANGED <<mode, kern, lists>>
    BY <1>1, <1>4 DEF Area, Span
  <2>2. /\ cur \in DOMAIN mmap /\ cur \in Nat /\ DOMAIN mmap = 1 .. Len(mmap) /\ Len(mmap) \in Nat
        /\ Entered(cur + 1) = Entered(cur)
    BY <1>1, <1>4, NextEntry
  <2>3. pages \in [free : Nat, total : Nat]
    BY DEF TypesKept, Types
  <2>4. pages'.free = pages.free
    BY <2>1, <2>3
  <2>5. Entered(cur)' = Entered(cur)
    <3>1. Entered(cur)' = Entered(cur + 1)
      BY <1>1, <2>1 DEF Entered
    <3>2. QED BY <3>1, <2>2
  <2>6. Filling'
    <3>1. cur' <= Len(mmap') + 1
      BY <2>1, <2>2, <1>1
    <3>2. OnFree(Entered(cur))' = OnFree(Entered(cur))
      BY <2>5 DEF OnFree, ListFor
    <3>3. QED BY <3>1, <3>2, <2>1, <2>4, <2>5, <1>1 DEF Pooled, Filling
  <2>7. Roomy'
    <3>1. \A j \in DOMAIN mmap : j < cur + 1 /\ mmap[j].usable => j < cur
      BY <2>2, <1>4
    <3>2. RoomMade(cur)'
      BY <3>1, <2>1, <1>1 DEF Pooled, Roomy, RoomMade
    <3>3. QED BY <3>2, <2>1, <1>1 DEF Pooled, Roomy
  <2>8. QED BY <2>1, <2>6, <2>7, <1>1 DEF Pooled, Pruning, Running, Faulty, Directories
<1>5. QED BY <1>1, <1>2, <1>3, <1>4 DEF Area

LEMMA CountedIs ==
  ASSUME NEW p \in Pages
  PROVE  Counted(p) <=> p \in OnFree(All)
  BY DEF Counted, OnFree, All, Span

LEMMA AboveImageIs ==
  ASSUME TypesKept, mode # "loaded"
  PROVE  /\ AboveImage \in Nat /\ AboveImage \in Pages /\ kern.limit \in Nat
         /\ kern.limit <= PageSize * AboveImage /\ PageSize * AboveImage \in Nat
<1>1. LimitFits(kern.limit)
  BY DEF TypesKept, Kept
<1>2. PageUp(kern.limit) \in KernelPages /\ kern.limit \in Nat
  BY <1>1, LimitInWindow DEF LimitFits
<1>3. PageUp(kern.limit) \in Nat /\ PageSize * PageUp(kern.limit) \in Nat
      /\ kern.limit <= PageSize * PageUp(kern.limit)
  BY <1>2, PageUpIs
<1>4. QED BY <1>2, <1>3, PageNumbers DEF AboveImage

\* Pages above the kernel's image are above low memory, too.
LEMMA UpperIsFree ==
  ASSUME TypesKept, mode # "loaded", KernelEnd <= kern.limit, NEW p \in Pages, p > AboveImage
  PROVE  ListFor(p) = freelist /\ p # KernelPd
<1>1. /\ AboveImage \in Nat /\ kern.limit \in Nat
      /\ kern.limit <= PageSize * AboveImage /\ PageSize * AboveImage \in Nat
  BY AboveImageIs
<1>2. p \in Nat
  BY PageNumbers
<1>3. PageSize * AboveImage < PageSize * p /\ PageSize * p \in Nat /\ PageSize * p = p * PageSize
  BY <1>1, <1>2, Numbers, ProductBelow
<1>4. ~(p * PageSize < LowLimit)
  <2>1. PICK x \in Nat, y \in Nat : x = PageSize * AboveImage /\ y = p * PageSize
    BY <1>1, <1>3
  <2>2. LowLimit <= x /\ x < y
    BY <2>1, <1>1, <1>3, Numbers
  <2>3. QED BY <2>1, <2>2, Numbers
<1>5. ListFor(p) = freelist
  BY <1>4 DEF ListFor
<1>6. p # 0
  BY <1>1, <1>2
<1>7. QED BY <1>5, <1>6 DEF KernelPd

\* The pages that were counted are those above the image and, of the pages up
\* to its end, all that are not uncounted.
LEMMA Counts ==
  ASSUME TypesKept, mode # "loaded", KernelEnd <= kern.limit
  PROVE  /\ Spare = Cardinality(Upper) /\ Spare \in Nat /\ Uncounted \in Nat
         /\ Cardinality(OnFree(All)) + Uncounted = Spare + AboveImage + 1
         /\ Spare < NAddresses
<1> DEFINE lo == {p \in OnFree(All) : p <= AboveImage}
           un == {p \in Pages : p <= AboveImage /\ ~Counted(p)}
           sp == {p \in Pages : p > AboveImage /\ Counted(p)}
           image == 0 .. AboveImage
<1>1. AboveImage \in Nat /\ AboveImage \in Pages
  BY AboveImageIs
<1>2. All \subseteq Pages /\ OnFree(All) \subseteq Pages /\ Upper \subseteq Pages /\ \A p \in Pages : p \in Nat
  BY PageNumbers DEF All, OnFree, Upper
<1>3. Upper = sp
  <2>1. ASSUME NEW p \in Upper PROVE p \in sp
    <3>1. p \in Pages /\ p \in All /\ p > AboveImage
      BY <1>2 DEF Upper
    <3>2. ListFor(p) = freelist
      BY <3>1, UpperIsFree
    <3>3. QED BY <3>1, <3>2, CountedIs DEF OnFree
  <2>2. ASSUME NEW p \in sp PROVE p \in Upper
    BY CountedIs DEF OnFree, Upper
  <2>3. QED BY <2>1, <2>2
<1>4. OnFree(All) = lo \cup Upper /\ lo \cap Upper = {}
  <2>1. \A p \in Pages : p <= AboveImage <=> ~(p > AboveImage)
    BY <1>1, <1>2
  <2>2. \A p \in Pages : p \in Upper <=> p \in OnFree(All) /\ p > AboveImage
    BY <1>3, CountedIs
  <2>3. QED BY <2>1, <2>2, <1>2
<1>5. image \subseteq Pages
  BY <1>1, PageNumbers
<1>6. un = image \ lo /\ lo \subseteq image
  <2>1. \A p \in Pages : p <= AboveImage <=> p \in image
    BY <1>1, <1>2
  <2>2. QED BY <2>1, <1>2, <1>5, CountedIs
<1> HIDE DEF lo, un, sp, image
<1>7. /\ IsFiniteSet(lo) /\ IsFiniteSet(Upper) /\ IsFiniteSet(image) /\ IsFiniteSet(Pages)
      /\ Cardinality(image) = AboveImage + 1
  <2>1. IsFiniteSet(Pages)
    BY PageNumbers
  <2>2. lo \in SUBSET Pages /\ Upper \in SUBSET Pages
    BY <1>2 DEF lo
  <2>3. IsFiniteSet(lo) /\ IsFiniteSet(Upper)
    BY <2>1, <2>2, FS_Subset
  <2>4. IsFiniteSet(image) /\ Cardinality(image) = AboveImage + 1
    BY <1>1, FS_Interval DEF image
  <2>5. QED BY <2>1, <2>3, <2>4
<1>8. PICK a \in Nat, b \in Nat : a = Cardinality(lo) /\ b = Cardinality(Upper)
  BY <1>7, FS_CardinalityType
<1>9. Cardinality(OnFree(All)) = a + b
  <2>1. Cardinality(lo \cup Upper) = Cardinality(lo) + Cardinality(Upper) - Cardinality(lo \cap Upper)
    BY <1>7, FS_Union
  <2>2. Cardinality(lo \cap Upper) = 0
    BY <1>4, FS_EmptySet, Zenon
  <2>3. Cardinality(OnFree(All)) = Cardinality(lo \cup Upper)
    BY <1>4, Zenon
  <2>4. QED BY <2>1, <2>2, <2>3, <1>8
<1>10. Uncounted = (AboveImage + 1) - a /\ Uncounted \in Nat
  <2>1. IsFiniteSet(image \ lo) /\ Cardinality(image \ lo) = Cardinality(image) - Cardinality(image \cap lo)
    BY <1>7, FS_Difference
  <2>2. image \cap lo = lo
    BY <1>6
  <2>3. Uncounted = Cardinality(image \ lo)
    BY <1>6, Zenon DEF Uncounted, un
  <2>4. Cardinality(image \ lo) \in Nat
    BY <2>1, FS_CardinalityType
  <2>5. Cardinality(image \cap lo) = a
    BY <2>2, <1>8, Zenon
  <2>6. Uncounted = Cardinality(image) - a /\ Uncounted \in Nat
    BY <2>1, <2>3, <2>4, <2>5, Zenon
  <2>7. PICK m \in Nat : m = AboveImage /\ Cardinality(image) = m + 1
    BY <1>1, <1>7
  <2>8. PICK u \in Nat : u = Uncounted
    BY <2>6
  <2>9. u = (m + 1) - a
    BY <2>6, <2>7, <2>8, Zenon
  <2>10. QED BY <2>7, <2>8, <2>9, Zenon
<1>11. Spare = b
  BY <1>3, <1>8, Zenon DEF Spare, sp
<1>12. b < NAddresses
  <2>1. Upper \in SUBSET (Pages \ {0})
    BY <1>1, <1>2 DEF Upper
  <2>2. IsFiniteSet(Pages \ {0}) /\ Cardinality(Pages \ {0}) = NP - 1
    <3>1. IsFiniteSet(Pages \ {0}) /\ Cardinality(Pages \ {0}) = IF 0 \in Pages THEN Cardinality(Pages) - 1 ELSE Cardinality(Pages)
      BY <1>7, FS_RemoveElement, Zenon
    <3>2. 0 \in Pages /\ Cardinality(Pages) = NP
      BY PageNumbers
    <3>3. QED BY <3>1, <3>2, Zenon
  <2>3. Cardinality(Upper) <= Cardinality(Pages \ {0})
    BY <2>1, <2>2, FS_Subset
  <2>4. QED BY <2>2, <2>3, <1>8, PageNumbers, Numbers
<1>13. QED BY <1>1, <1>8, <1>9, <1>10, <1>11, <1>12

LEMMA PooledEnd ==
  ASSUME TypesKept, Pooled, EndOfMap
  PROVE  Pooled'
<1>1. /\ mode = "areas" /\ cur > Len(mmap) /\ mode' = "prune" /\ cur' = 0
      /\ UNCHANGED <<mmap, dirty, kern, lists, pages, owned, ready>>
  BY DEF EndOfMap
<1>2. Len(mmap) \in Nat /\ DOMAIN mmap = 1 .. Len(mmap) /\ cur \in Nat
  BY Entry DEF TypesKept, Types
<1>3. /\ cur <= Len(mmap) + 1 /\ RoomMade(cur) /\ KernelEnd <= kern.limit
      /\ Pool(lists, Entered(cur)) /\ \A p \in Pages \ Entered(cur) : Virgin(lists, p)
      /\ pages.free = Cardinality(OnFree(Entered(cur)))
  BY <1>1 DEF Pooled, Filling, Roomy
<1>4. cur = Len(mmap) + 1
  BY <1>1, <1>2, <1>3
<1>5. Entered(cur) = All
  <2>1. \A j \in DOMAIN mmap : j < cur
    BY <1>2, <1>4
  <2>2. QED BY <2>1 DEF Entered, All, Areas
<1>6. All' = All /\ AboveImage' = AboveImage
  BY <1>1 DEF All, Areas, AboveImage
<1>7. AboveImage \in Nat /\ 0 <= AboveImage + 1
  <2>1. AboveImage \in Nat
    BY <1>1, AboveImageIs
  <2>2. QED BY <2>1
<1>8. {p \in All : p >= 0} = All
  BY PageNumbers DEF All
<1>9. Pruning'
  <2>1. {p \in All : p >= cur}' = All
    BY <1>1, <1>6, <1>8
  <2>2. Pool(lists', {p \in All : p >= cur}') /\ \A p \in Pages \ All : Virgin(lists, p)
    BY <2>1, <1>1, <1>3, <1>5
  <2>3. OnFree(All)' = OnFree(All)
    BY <1>6 DEF OnFree, ListFor
  <2>4. pages'.free = Cardinality(OnFree(All))
    BY <1>1, <1>3, <1>5, Zenon
  <2>5. QED BY <2>2, <2>3, <2>4, <1>1, <1>6, <1>7 DEF Pruning
<1>10. Roomy'
  <2>1. RoomMade(Len(mmap) + 1)
    BY <1>3, <1>4
  <2>2. RoomMade(Len(mmap) + 1)'
    BY <2>1, <1>1 DEF RoomMade
  <2>3. QED BY <2>2, <1>1, <1>3 DEF Roomy
<1>11. QED BY <1>1, <1>9, <1>10 DEF Pooled, Filling, Running, Faulty, Directories

\* If the descriptor that prune comes to cannot be touched, it is above all
\* areas, and so is the end of the kernel.
LEMMA OutOfReach ==
  ASSUME TypesKept, Pooled, mode = "prune", cur <= AboveImage, ~Reachable(kern, cur)
  PROVE  Spare < Uncounted
<1>1. AboveImage \in Nat /\ AboveImage \in Pages
  BY AboveImageIs
<1>2. cur \in Nat /\ cur \in Pages
  BY <1>1, PageNumbers DEF TypesKept, Types
<1>3. /\ kern \in KernType /\ LimitFits(kern.limit) /\ Below(kern) /\ KernelEnd <= kern.limit
      /\ HasKernel(kern.dir[kern.cr3]) /\ RoomMade(Len(mmap) + 1)
  BY DEF TypesKept, Types, Kept, Pooled, Roomy, Directories
<1>4. Len(mmap) \in Nat /\ DOMAIN mmap = 1 .. Len(mmap) /\ \A j \in DOMAIN mmap : mmap[j] \in Entries
  BY Entry DEF TypesKept, Types
<1>5. ASSUME NEW j \in DOMAIN mmap, mmap[j].usable PROVE LastPage(mmap[j]) < cur
  <2>1. /\ LastPage(mmap[j]) \in Nat /\ mmap[j] \in Entries /\ j < Len(mmap) + 1
        /\ LimitFits(RoomFor(mmap[j]))
    BY <1>4, AreaPages, RoomFits
  <2>2. RoomFor(mmap[j]) <= kern.limit
    BY <2>1, <1>3, <1>5 DEF RoomMade
  <2>3. ASSUME cur <= LastPage(mmap[j]) PROVE FALSE
    <3>1. cur + 1 \in Nat /\ LastPage(mmap[j]) + 1 \in Nat /\ cur + 1 <= LastPage(mmap[j]) + 1
      BY <2>1, <2>3, <1>2
    <3>2. Descriptor(cur + 1) \in Nat /\ Descriptor(cur + 1) <= RoomFor(mmap[j])
      BY <3>1, DescriptorMonotonic DEF RoomFor
    <3>3. Descriptor(cur + 1) <= kern.limit
      BY <3>2, <2>1, <2>2, <1>3 DEF LimitFits
    <3>4. QED BY <3>3, <1>2, <1>3, Touchable
  <2>4. QED BY <2>1, <2>3, <1>2
<1>6. ASSUME NEW p \in All PROVE p < cur /\ p \in Nat
  <2>1. PICK j \in DOMAIN mmap : mmap[j].usable /\ p \in Span(mmap[j])
    BY DEF All, Areas
  <2>2. LastPage(mmap[j]) < cur /\ LastPage(mmap[j]) \in Nat /\ p <= LastPage(mmap[j]) /\ p \in Nat
    <3>1. FirstPage(mmap[j]) \in Nat /\ LastPage(mmap[j]) \in Nat
      BY <1>4, AreaPages
    <3>2. QED BY <3>1, <2>1, <1>5 DEF Span
  <2>3. QED BY <2>2, <1>2
<1>7. Upper = {}
  BY <1>1, <1>2, <1>6 DEF Upper
<1>8. Spare = 0 /\ Uncounted \in Nat
  <2>1. Spare = Cardinality(Upper) /\ Uncounted \in Nat
    BY <1>3, Counts
  <2>2. QED BY <2>1, <1>7, FS_EmptySet, Zenon
<1>9. Uncounted # 0
  <2> DEFINE un == {p \in Pages : p <= AboveImage /\ ~Counted(p)}
  <2>1. cur \notin All
    BY <1>2, <1>6
  <2>2. cur \in un
    BY <2>1, <1>2, CountedIs DEF OnFree
  <2>3. un \in SUBSET Pages
    OBVIOUS
  <2>4. Uncounted = Cardinality(un)
    BY DEF Uncounted
  <2> HIDE DEF un
  <2>5. IsFiniteSet(un) /\ un # {}
    BY <2>2, <2>3, PageNumbers, FS_Subset
  <2>6. QED BY <2>4, <2>5, FS_EmptySet, Zenon
<1>10. QED BY <1>8, <1>9

LEMMA PooledPrune ==
  ASSUME TypesKept, Pooled, i686_prune_memory
  PROVE  Pooled'
<1>1. /\ mode = "prune" /\ cur <= AboveImage /\ Unlink(cur)
      /\ UNCHANGED <<mmap, dirty, kern, pages, owned, ready>>
  BY DEF i686_prune_memory, end_kernel, AboveImage
<1>2. AboveImage \in Nat /\ AboveImage \in Pages
  BY <1>1, AboveImageIs
<1>3. cur \in Nat /\ cur \in Pages
  BY <1>1, <1>2, PageNumbers DEF TypesKept, Types
<1>4. All' = All /\ AboveImage' = AboveImage /\ Spare' = Spare /\ Uncounted' = Uncounted
  BY <1>1 DEF All, Areas, AboveImage, Spare, Uncounted, Counted, ListFor
<1>5. CASE Wild(cur)
  BY <1>1, <1>5 DEF Unlink, Pooled, Filling, Roomy, Pruning, Running, Faulty, Directories
<1>6. CASE ~Wild(cur)
  <2>1. /\ mode' = (IF Reachable(kern, cur) THEN mode ELSE "fault")
        /\ lists' = LIST_REMOVE(lists, cur) /\ cur' = cur + 1
    BY <1>1, <1>6 DEF Unlink
  <2>2. Faulty'
    BY <2>1, <1>1, <1>4, OutOfReach DEF Faulty
  <2> DEFINE S == {p \in All : p >= cur}
             T == {p \in All : p >= cur + 1}
  <2>3. /\ Pool(lists, S) /\ \A p \in Pages \ All : p >= cur => Virgin(lists, p)
        /\ pages.free = Cardinality(OnFree(All))
    BY <1>1 DEF Pooled, Pruning
  <2>4. T = S \ {cur} /\ \A p \in Pages : p >= cur + 1 => p >= cur /\ p # cur
    BY <1>3, PageNumbers DEF All
  <2>5. Pool(lists', T) /\ \A p \in Pages \ All : p >= cur + 1 => Virgin(lists', p)
    <3>1. CASE cur \in All
      <4>1. cur \in S
        BY <3>1, <1>3
      <4>2. \A p \in Pages \ All : p \notin S
        OBVIOUS
      <4> HIDE DEF S, T
      <4>3. Pool(lists', S \ {cur}) /\ SameOutside(lists, lists', S)
        BY <4>1, <2>1, <2>3, PoolRemove
      <4>4. \A p \in Pages \ All : p >= cur + 1 => Virgin(lists', p)
        BY <4>2, <4>3, <2>3, <2>4 DEF SameOutside, Virgin
      <4>5. QED BY <4>3, <4>4, <2>4
    <3>2. CASE cur \notin All
      <4>1. Virgin(lists, cur)
        BY <3>2, <2>3, <1>3
      <4>2. lists'.at = lists.at /\ lists'.prev = lists.prev
        BY <4>1, <2>1, VirginRemove
      <4>3. T = S
        BY <3>2, <2>4
      <4> HIDE DEF S, T
      <4>4. Pool(lists', T)
        BY <4>2, <4>3, <2>3, SamePointers
      <4>5. \A p \in Pages \ All : p >= cur + 1 => Virgin(lists', p)
        BY <4>2, <2>3, <2>4 DEF Virgin
      <4>6. QED BY <4>4, <4>5
    <3>3. QED BY <3>1, <3>2
  <2>6. Pruning'
    <3>1. {p \in All : p >= cur}' = T
      BY <2>1, <1>4
    <3> HIDE DEF T
    <3>2. OnFree(All)' = OnFree(All)
      BY <1>4 DEF OnFree, ListFor
    <3>3. cur' <= AboveImage' + 1
      BY <2>1, <1>1, <1>2, <1>3, <1>4
    <3>4. Pool(lists', {p \in All : p >= cur}')
      BY <3>1, <2>5, Zenon
    <3>5. \A p \in Pages \ All : p >= cur' => Virgin(lists', p)
      BY <2>1, <2>5
    <3>6. pages'.free = Cardinality(OnFree(All)')
      BY <3>2, <2>3, <1>1, Zenon
    <3>7. QED BY <3>3, <3>4, <3>5, <3>6, <1>4 DEF Pruning
  <2>7. mode' \in {"prune", "fault"}
    BY <2>1, <1>1
  <2>8. Roomy' /\ Directories'
    BY <2>7, <1>1 DEF Pooled, Roomy, RoomMade, Directories
  <2>9. QED BY <2>2, <2>6, <2>7, <2>8 DEF Pooled, Filling, Running
<1>7. QED BY <1>5, <1>6

\* The arithmetic of free_pages -= forcemarked, and of taking one.
LEMMA Subtracted ==
  ASSUME NEW n \in Nat \ {0}, NEW s \in Nat, NEW u \in Nat, s < n
  PROVE  /\ (((s - u) % n) + u) % n = s
         /\ s >= u => ((s - u) % n) + u = s
<1>1. PICK q \in Int, r \in 0 .. n - 1 : s - u = (n * q) + r /\ r = (s - u) % n
  <2>1. (s - u) \div n \in Int /\ (s - u) % n \in 0 .. n - 1
        /\ s - u = (n * ((s - u) \div n)) + ((s - u) % n)
    OBVIOUS
  <2>2. QED BY <2>1
<1>2. r + u \in Nat
  BY <1>1
<1>3. PICK x \in Int, y \in 0 .. n - 1 : r + u = (n * x) + y /\ y = (r + u) % n
  <2>1. (r + u) \div n \in Int /\ (r + u) % n \in 0 .. n - 1
        /\ r + u = (n * ((r + u) \div n)) + ((r + u) % n)
    BY <1>2
  <2>2. QED BY <2>1
<1>4. s - y = (n * q) + (n * x)
  <2>1. PICK a \in Int, b \in Int : a = n * q /\ b = n * x
    OBVIOUS
  <2>2. s - u = a + r /\ r + u = b + y
    BY <2>1, <1>1, <1>3
  <2>3. s - y = a + b
    BY <2>2
  <2>4. QED BY <2>1, <2>3
<1>5. (n * q) + (n * x) = n * (q + x)
  OBVIOUS
<1>6. PICK z \in Int : z = q + x /\ s - y = n * z
  BY <1>4, <1>5
<1>7. z = 0
  <2>1. n * z < n * 1 /\ n * (-1) < n * z
    <3>1. n * 1 = n /\ n * (-1) = -n
      OBVIOUS
    <3>2. s - y < n /\ -n < s - y
      BY <1>3
    <3>3. QED BY <3>1, <3>2, <1>6
  <2>2. z < 1 /\ -1 < z
    BY <2>1, ProductBelow
  <2>3. QED BY <2>2
<1>8. s = y
  BY <1>6, <1>7
<1>9. s >= u => (s - u) % n = s - u
  OBVIOUS
<1>10. QED BY <1>1, <1>3, <1>8, <1>9

LEMMA OneLess ==
  ASSUME NEW n \in Nat \ {0}, NEW x \in Nat \ {0}, x % n > 0
  PROVE  (x - 1) % n = (x % n) - 1
<1>1. PICK q \in Nat, r \in 0 .. n - 1 : x = (n * q) + r /\ r = x % n
  <2>1. x \div n \in Nat /\ x % n \in 0 .. n - 1 /\ x = (n * (x \div n)) + (x % n)
    BY Division
  <2>2. QED BY <2>1
<1>2. r - 1 \in 0 .. n - 1 /\ x - 1 = (n * q) + (r - 1)
  <2>1. PICK a \in Nat : a = n * q
    OBVIOUS
  <2>2. x = a + r /\ r > 0
    BY <2>1, <1>1
  <2>3. r - 1 \in 0 .. n - 1 /\ x - 1 = a + (r - 1)
    BY <2>2
  <2>4. QED BY <2>1, <2>3
<1>3. PICK p \in Nat, s \in 0 .. n - 1 : x - 1 = (n * p) + s /\ s = (x - 1) % n
  <2>1. x - 1 \in Nat
    OBVIOUS
  <2>2. (x - 1) \div n \in Nat /\ (x - 1) % n \in 0 .. n - 1 /\ x - 1 = (n * ((x - 1) \div n)) + ((x - 1) % n)
    BY <2>1, Division
  <2>3. QED BY <2>2
<1>4. s - (r - 1) = n * (q - p)
  <2>1. PICK a \in Nat, b \in Nat : a = n * q /\ b = n * p
    OBVIOUS
  <2>2. x - 1 = a + (r - 1) /\ x - 1 = b + s
    BY <2>1, <1>2, <1>3
  <2>3. n * (q - p) = (n * q) - (n * p)
    OBVIOUS
  <2>4. QED BY <2>1, <2>2, <2>3
<1>5. PICK z \in Int : z = q - p /\ s - (r - 1) = n * z
  BY <1>4
<1>6. z = 0
  <2>1. n * z < n * 1 /\ n * (-1) < n * z
    <3>1. n * 1 = n /\ n * (-1) = -n
      OBVIOUS
    <3>2. s - (r - 1) < n /\ -n < s - (r - 1)
      BY <1>2, <1>3
    <3>3. QED BY <3>1, <3>2, <1>5
  <2>2. z < 1 /\ -1 < z
    BY <2>1, ProductBelow
  <2>3. QED BY <2>2
<1>7. n * z = 0
  BY <1>6
<1>8. s = r - 1
  BY <1>5, <1>7
<1>9. QED BY <1>1, <1>3, <1>8, Zenon

LEMMA PooledDone ==
  ASSUME TypesKept, Pooled, PruneDone
  PROVE  Pooled'
<1>1. /\ mode = "prune" /\ cur > AboveImage /\ mode' = "running"
      /\ pages' = [pages EXCEPT !.free = (@ - cur) % NAddresses]
      /\ UNCHANGED <<mmap, dirty, kern, lists, cur, owned, ready>>
  BY DEF PruneDone, end_kernel, AboveImage
<1>2. /\ cur <= AboveImage + 1 /\ Pool(lists, {p \in All : p >= cur})
      /\ pages.free = Cardinality(OnFree(All)) /\ KernelEnd <= kern.limit
  BY <1>1 DEF Pooled, Pruning, Roomy
<1>3. AboveImage \in Nat /\ cur \in Nat /\ pages \in [free : Nat, total : Nat]
  BY <1>1, AboveImageIs DEF TypesKept, Types
<1>4. cur = AboveImage + 1
  BY <1>1, <1>2, <1>3
<1>5. {p \in All : p >= cur} = Upper
  BY <1>3, <1>4, PageNumbers DEF Upper, All
<1>6. /\ All' = All /\ AboveImage' = AboveImage /\ Spare' = Spare /\ Uncounted' = Uncounted
      /\ Upper' = Upper
  BY <1>1 DEF All, Areas, AboveImage, Spare, Uncounted, Counted, ListFor, Upper
<1>7. Taken = {} /\ Taken' = {}
  <2>1. owned = {} /\ ready = [made |-> {}, set |-> {}]
    BY <1>1 DEF TypesKept, Kept
  <2>2. Taken = {}
    BY <2>1 DEF Taken
  <2>3. Taken' = Taken
    BY <1>1 DEF Taken
  <2>4. QED BY <2>2, <2>3
<1>8. PICK s \in Nat, u \in Nat : /\ s = Spare /\ u = Uncounted /\ s = Cardinality(Upper) /\ s < NAddresses
                                  /\ pages.free - cur = s - u
  <2>1. /\ Spare = Cardinality(Upper) /\ Spare \in Nat /\ Uncounted \in Nat
        /\ Cardinality(OnFree(All)) + Uncounted = Spare + AboveImage + 1
        /\ Spare < NAddresses
    BY <1>1, <1>2, Counts
  <2>2. pages.free - cur = Spare - Uncounted
    BY <2>1, <1>2, <1>3, <1>4
  <2>3. QED BY <2>1, <2>2
<1>9. pages'.free = (s - u) % NAddresses
  <2>1. (s - u) % NAddresses \in Nat
    BY Numbers
  <2>2. PICK x \in Nat : x = (s - u) % NAddresses
    BY <2>1
  <2>3. pages' = [pages EXCEPT !.free = x]
    BY <2>2, <1>1, <1>8, Zenon
  <2>4. QED BY <2>2, <2>3, <1>3, WithFree
<1>10. (pages'.free + u) % NAddresses = s /\ (s >= u => pages'.free + u = s)
  <2>1. NAddresses \in Nat \ {0}
    BY Numbers
  <2>2. (((s - u) % NAddresses) + u) % NAddresses = s /\ (s >= u => ((s - u) % NAddresses) + u = s)
    BY <2>1, <1>8, Subtracted, Zenon
  <2>3. QED BY <2>2, <1>9, Zenon
<1>11. Upper' \ Taken' = Upper /\ Cardinality(Upper' \ Taken') = s
  BY <1>6, <1>7, <1>8
<1>12. Running'
  <2>1. Taken' \subseteq Upper'
    BY <1>7
  <2>2. Pool(lists', Upper' \ Taken')
    BY <1>1, <1>2, <1>5, <1>11
  <2>3. (pages'.free + Uncounted') % NAddresses = Cardinality(Upper' \ Taken')
    BY <1>6, <1>8, <1>10, <1>11, Zenon
  <2>4. Spare' >= Uncounted' => pages'.free + Uncounted' = Cardinality(Upper' \ Taken')
    BY <1>6, <1>8, <1>10, <1>11, Zenon
  <2>5. QED BY <2>1, <2>2, <2>3, <2>4 DEF Running
<1>13. Roomy' /\ Directories'
  BY <1>1, <1>2 DEF Pooled, Roomy, Directories
<1>14. QED BY <1>1, <1>12, <1>13 DEF Pooled, Filling, Pruning, Faulty

-----------------------------------------------------------------------------
\* After boot the limit stays, and so does everything that depends on it.
LEMMA SameLimit ==
  ASSUME mmap' = mmap, kern'.limit = kern.limit
  PROVE  /\ All' = All /\ AboveImage' = AboveImage /\ Spare' = Spare /\ Uncounted' = Uncounted
         /\ Upper' = Upper
  BY DEF All, Areas, AboveImage, Spare, Uncounted, Counted, ListFor, Upper

\* Pages above the kernel are taken from the list in its order.
LEMMA TakeFrom ==
  ASSUME TypesKept, Pooled, mode = "running", CanTake, page_alloc
  PROVE  LET f == LIST_FIRST(lists, freelist)
         IN /\ f \in Upper \ Taken /\ Pool(lists', (Upper \ Taken) \ {f})
            /\ (pages'.free + Uncounted) % NAddresses = Cardinality((Upper \ Taken) \ {f})
            /\ Spare >= Uncounted => pages'.free + Uncounted = Cardinality((Upper \ Taken) \ {f})
<1> DEFINE f == LIST_FIRST(lists, freelist)
           S == Upper \ Taken
<1>1. /\ Pool(lists, S) /\ KernelEnd <= kern.limit
      /\ (pages.free + Uncounted) % NAddresses = Cardinality(S)
      /\ Spare >= Uncounted => pages.free + Uncounted = Cardinality(S)
  BY DEF Pooled, Running, Roomy
<1>2. OnFree(S) = S
  <2>1. ASSUME NEW p \in S PROVE ListFor(p) = freelist
    BY <1>1, UpperIsFree DEF Upper, All
  <2>2. QED BY <2>1 DEF OnFree
<1>3. S # {} /\ f \in S
  <2>1. ~LIST_EMPTY(lists, freelist)
    BY DEF CanTake
  <2>2. QED BY <2>1, <1>1, <1>2, PoolFree
<1>4. lists' = LIST_REMOVE(lists, f)
  BY DEF page_alloc
<1>5. pages.free \in Nat /\ pages.free > 0 /\ pages'.free = pages.free - 1
  BY TakeIs
<1>6. Uncounted \in Nat
  BY <1>1, Counts
<1> HIDE DEF f, S
<1>7. Pool(lists', S \ {f})
  BY <1>1, <1>3, <1>4, PoolRemove
<1>8. IsFiniteSet(S)
  BY <1>1, PageNumbers, FS_Subset DEF Pool
<1>9. PICK c \in Nat : c = Cardinality(S) /\ c > 0 /\ Cardinality(S \ {f}) = c - 1
  <2>1. Cardinality(S) \in Nat /\ Cardinality(S) # 0
    BY <1>3, <1>8, FS_CardinalityType, FS_EmptySet
  <2>2. Cardinality(S \ {f}) = Cardinality(S) - 1
    BY <1>3, <1>8, FS_RemoveElement
  <2>3. QED BY <2>1, <2>2
<1>10. PICK x \in Nat \ {0} : x = pages.free + Uncounted /\ pages'.free + Uncounted = x - 1
  BY <1>5, <1>6
<1>11. x % NAddresses = c
  BY <1>1, <1>9, <1>10, Zenon
<1>12. (x - 1) % NAddresses = c - 1
  <2>1. x % NAddresses > 0
    BY <1>9, <1>11
  <2>2. (x - 1) % NAddresses = (x % NAddresses) - 1
    BY <2>1, <1>10, Numbers, OneLess
  <2>3. QED BY <2>2, <1>11, Zenon
<1>13. Spare >= Uncounted => x - 1 = c - 1
  <2>1. Spare >= Uncounted => x = c
    BY <1>1, <1>9, <1>10, Zenon
  <2>2. QED BY <2>1, Zenon
<1>14. /\ (pages'.free + Uncounted) % NAddresses = Cardinality(S \ {f})
       /\ Spare >= Uncounted => pages'.free + Uncounted = Cardinality(S \ {f})
  BY <1>9, <1>10, <1>12, <1>13, Zenon
<1>15. QED BY <1>3, <1>7, <1>14 DEF f, S

\* An empty list with a count is only found where memory is short.
LEMMA DryIs ==
  ASSUME TypesKept, Pooled, mode = "running", ListDry
  PROVE  Spare < Uncounted
<1> DEFINE S == Upper \ Taken
<1>1. /\ Pool(lists, S) /\ KernelEnd <= kern.limit
      /\ Spare >= Uncounted => pages.free + Uncounted = Cardinality(S)
  BY DEF Pooled, Running, Roomy
<1>2. OnFree(S) = S
  <2>1. ASSUME NEW p \in S PROVE ListFor(p) = freelist
    BY <1>1, UpperIsFree DEF Upper, All
  <2>2. QED BY <2>1 DEF OnFree
<1>3. S = {}
  BY <1>1, <1>2, PoolFree DEF ListDry
<1>4. Cardinality(S) = 0
  BY <1>3, FS_EmptySet, Zenon
<1>5. pages.free \in Nat /\ pages.free > 0 /\ Spare \in Nat /\ Uncounted \in Nat
  BY <1>1, Counts DEF TypesKept, Types, ListDry
<1>6. QED BY <1>1, <1>4, <1>5

LEMMA ExtendedAlloc ==
  ASSUME NEW k \in KernType, NEW n, Extended(k, n), CanAlloc(n)
  PROVE  CanAlloc(k)
  BY DEF Extended, CanAlloc

\* What is left to show of a step of the running kernel.
LEMMA PooledStep ==
  ASSUME Pooled, mode = "running", mmap' = mmap, kern'.limit = kern.limit, Directories',
         \/ mode' = "running" /\ Running'
         \/ mode' = "wild"
         \/ mode' = "fault" /\ Spare < Uncounted
  PROVE  Pooled'
<1>1. KernelEnd <= kern'.limit
  BY DEF Pooled, Roomy
<1>2. Spare' = Spare /\ Uncounted' = Uncounted
  BY SameLimit
<1>3. Faulty' /\ Roomy' /\ Running'
  BY <1>1, <1>2 DEF Faulty, Roomy, Running
<1>4. QED BY <1>3 DEF Pooled, Filling, Pruning

LEMMA RunningTaken ==
  ASSUME TypesKept, Pooled, mode = "running", mmap' = mmap, kern'.limit = kern.limit,
         CanTake, page_alloc, Taken' = Taken \cup {LIST_FIRST(lists, freelist)}
  PROVE  Running'
<1> DEFINE f == LIST_FIRST(lists, freelist)
           S == (Upper \ Taken) \ {f}
<1>1. /\ f \in Upper \ Taken /\ Pool(lists', S)
      /\ (pages'.free + Uncounted) % NAddresses = Cardinality(S)
      /\ Spare >= Uncounted => pages'.free + Uncounted = Cardinality(S)
  BY TakeFrom
<1>2. Spare' = Spare /\ Uncounted' = Uncounted /\ Upper' = Upper
  BY SameLimit
<1>3. Taken \subseteq Upper
  BY DEF Pooled, Running
<1>4. Upper' \ Taken' = S /\ Taken' \subseteq Upper'
  BY <1>1, <1>2, <1>3
<1> HIDE DEF S
<1>5. Pool(lists', Upper' \ Taken')
  BY <1>1, <1>4
<1>6. /\ (pages'.free + Uncounted') % NAddresses = Cardinality(Upper' \ Taken')
      /\ Spare' >= Uncounted' => pages'.free + Uncounted' = Cardinality(Upper' \ Taken')
  BY <1>1, <1>2, <1>4, Zenon
<1>7. QED BY <1>4, <1>5, <1>6 DEF Running

LEMMA RunningStays ==
  ASSUME Pooled, mode = "running", mmap' = mmap, kern'.limit = kern.limit,
         UNCHANGED <<lists, pages>>, Taken' = Taken
  PROVE  Running'
<1>1. Spare' = Spare /\ Uncounted' = Uncounted /\ Upper' = Upper
  BY SameLimit
<1>2. /\ Taken \subseteq Upper /\ Pool(lists, Upper \ Taken)
      /\ (pages.free + Uncounted) % NAddresses = Cardinality(Upper \ Taken)
      /\ Spare >= Uncounted => pages.free + Uncounted = Cardinality(Upper \ Taken)
  BY DEF Pooled, Running
<1>3. Upper' \ Taken' = Upper \ Taken /\ pages'.free = pages.free /\ Taken' \subseteq Upper'
  BY <1>1, <1>2
<1>4. Pool(lists', Upper' \ Taken')
  BY <1>2, <1>3
<1>5. /\ (pages'.free + Uncounted') % NAddresses = Cardinality(Upper' \ Taken')
      /\ Spare' >= Uncounted' => pages'.free + Uncounted' = Cardinality(Upper' \ Taken')
  BY <1>1, <1>2, <1>3, Zenon
<1>6. QED BY <1>3, <1>4, <1>5 DEF Running

LEMMA PooledSlab ==
  ASSUME TypesKept, Pooled, NewSlab
  PROVE  Pooled'
<1> DEFINE f == LIST_FIRST(lists, freelist)
           i == NextPage(kern)
<1>1. /\ mode = "running" /\ CanAlloc(kern) /\ mmap' = mmap
      /\ \/ /\ CanTake /\ page_alloc
            /\ kern' = MappedPage(kern, f)
            /\ owned' = owned \cup {<<i, f>>}
            /\ UNCHANGED <<mode, ready>>
         \/ NoneLeft /\ kern' = i686_kernel_alloc(kern) /\ UNCHANGED <<mode, lists, pages, owned, ready>>
         \/ ListDry /\ kern' = i686_kernel_alloc(kern) /\ AssertFails
  BY DEF NewSlab, MappedPage
<1>2. kern \in KernType /\ Directories
  BY DEF TypesKept, Types, Pooled
<1>3. LET n == i686_kernel_alloc(kern) IN Extended(kern, n) /\ n.dir = kern.dir /\ n.cr3 = kern.cr3
  BY <1>1, <1>2, AllocExtends, AllocIs
<1>4. ASSUME Extended(kern, kern'), kern'.dir = kern.dir, kern'.cr3 = kern.cr3, ready' = ready
      PROVE  Directories' /\ kern'.limit = kern.limit
  <2>1. CanAlloc(kern') => CanAlloc(kern)
    BY <1>2, <1>4, ExtendedAlloc
  <2>2. QED BY <2>1, <1>1, <1>2, <1>4, DirectoriesStay DEF Extended
<1>5. CASE CanTake /\ page_alloc /\ kern' = MappedPage(kern, f) /\ owned' = owned \cup {<<i, f>>} /\ UNCHANGED <<mode, ready>>
  <2>1. f \in Pages
    BY <1>1, <1>5, TakeIs
  <2>2. Extended(kern, kern') /\ kern'.dir = kern.dir /\ kern'.cr3 = kern.cr3
    BY <1>1, <1>2, <1>5, <2>1, MappedPageIs
  <2>3. Taken' = Taken \cup {f}
    <3>1. Taken' = {o[2] : o \in owned \cup {<<i, f>>}} \cup ready.made
      BY <1>5 DEF Taken
    <3>2. {o[2] : o \in owned \cup {<<i, f>>}} = {o[2] : o \in owned} \cup {<<i, f>>[2]}
      BY Zenon
    <3>3. <<i, f>>[2] = f
      OBVIOUS
    <3>4. QED BY <3>1, <3>2, <3>3 DEF Taken
  <2>4. Directories' /\ kern'.limit = kern.limit
    BY <2>2, <1>4, <1>5
  <2>5. Running'
    BY <2>3, <2>4, <1>1, <1>5, RunningTaken
  <2>6. QED BY <2>4, <2>5, <1>1, <1>5, PooledStep
<1>6. CASE NoneLeft /\ kern' = i686_kernel_alloc(kern) /\ UNCHANGED <<mode, lists, pages, owned, ready>>
  <2>5. Extended(kern, kern') /\ kern'.dir = kern.dir /\ kern'.cr3 = kern.cr3 /\ ready' = ready
    BY <1>3, <1>6
  <2>1. Directories' /\ kern'.limit = kern.limit
    BY <2>5, <1>4
  <2>2. Taken' = Taken
    BY <1>6 DEF Taken
  <2>3. Running'
    BY <2>1, <2>2, <1>1, <1>6, RunningStays
  <2>4. QED BY <2>1, <2>3, <1>1, <1>6, PooledStep
<1>7. CASE ListDry /\ kern' = i686_kernel_alloc(kern) /\ AssertFails
  <2>1. Spare < Uncounted
    BY <1>1, <1>7, DryIs
  <2>2. mode' = "fault" /\ ready' = ready
    BY <1>7 DEF AssertFails
  <2>5. Extended(kern, kern') /\ kern'.dir = kern.dir /\ kern'.cr3 = kern.cr3
    BY <1>3, <1>7
  <2>3. Directories' /\ kern'.limit = kern.limit
    BY <2>2, <2>5, <1>4
  <2>4. QED BY <2>1, <2>2, <2>3, <1>1, PooledStep
<1>8. QED BY <1>1, <1>5, <1>6, <1>7

\* The constructor writes a directory that is neither set up nor made before.
LEMMA DirectoriesCtor ==
  ASSUME TypesKept, Pooled, mode = "running", NEW f \in Upper \ Taken,
         mode' = mode, ready'.made = ready.made \cup {f}, ready'.set = ready.set,
         \/ CanAlloc(kern) /\ kern' = [MappedPage(kern, f) EXCEPT !.dir[f] = Wiped]
         \/ ~CanAlloc(kern) /\ kern' = kern
  PROVE  Directories' /\ kern'.limit = kern.limit
<1>1. /\ ready.set \subseteq ready.made /\ KernelPd \notin ready.made
      /\ \A d \in ready.set \cup {KernelPd} : HasKernel(kern.dir[d])
      /\ \A d \in ready.set : Lower(kern.dir[d])
      /\ CanAlloc(kern) => \A d \in ready.made : Lower(kern.dir[d])
      /\ kern.cr3 \in ready.set \cup {KernelPd}
      /\ KernelEnd <= kern.limit
  BY DEF Pooled, Directories, Roomy
<1>2. f \in Pages /\ f \notin ready.made /\ f # KernelPd
  <2>1. f \in Pages /\ f > AboveImage /\ f \notin ready.made
    BY DEF Upper, All, Taken
  <2>2. QED BY <2>1, <1>1, UpperIsFree
<1>3. kern \in KernType /\ ready.made \subseteq Pages /\ KernelPd \in Pages
  BY AbsentIsNoPage DEF TypesKept, Types
<1>4. CASE ~CanAlloc(kern)
  <2>1. kern' = kern
    BY <1>4
  <2>2. QED BY <2>1, <1>1, <1>2, <1>4 DEF Directories
<1>5. CASE CanAlloc(kern)
  <2>1. kern' = [MappedPage(kern, f) EXCEPT !.dir[f] = Wiped]
    BY <1>5
  <2>2. Extended(kern, kern') /\ kern'.cr3 = kern.cr3 /\ kern'.dir = [kern.dir EXCEPT ![f] = Wiped]
    BY <2>1, <1>2, <1>3, <1>5, WipedIs
  <2>3. kern.dir \in [Pages -> [PdEntries -> Int]]
    BY <1>3 DEF KernType
  <2>4. \A d \in Pages : d # f => kern'.dir[d] = kern.dir[d]
    BY <2>2, <2>3
  <2>5. Lower(kern'.dir[f])
    <3>1. kern'.dir[f] = Wiped
      BY <2>2, <2>3, <1>2
    <3>2. QED BY <3>1 DEF Lower, Wiped
  <2>6. \A d \in ready.set \cup {KernelPd} : d \in Pages /\ d # f
    BY <1>1, <1>2, <1>3
  <2>7. \A d \in ready.made : d \in Pages /\ d # f
    BY <1>2, <1>3
  <2>8. \A d \in ready.set \cup {KernelPd} : HasKernel(kern'.dir[d])
    BY <2>4, <2>6, <1>1
  <2>9. \A d \in ready.set : Lower(kern'.dir[d])
    BY <2>4, <2>6, <1>1
  <2>10. \A d \in ready.made \cup {f} : Lower(kern'.dir[d])
    BY <2>4, <2>5, <2>7, <1>1, <1>5
  <2>11. Directories'
    BY <2>2, <2>8, <2>9, <2>10, <1>1, <1>2 DEF Directories
  <2>12. QED BY <2>2, <2>11 DEF Extended
<1>6. QED BY <1>4, <1>5

LEMMA PooledCtor ==
  ASSUME TypesKept, Pooled, i686_address_space_ctor
  PROVE  Pooled'
<1> DEFINE f == LIST_FIRST(lists, freelist)
<1>1. /\ mode = "running" /\ mmap' = mmap
      /\ \/ CtorTakes(f)
         \/ NoneLeft /\ mode' = "wild" /\ UNCHANGED <<kern, lists, pages, owned, ready>>
         \/ ListDry /\ kern' = kern /\ AssertFails
  BY CtorIs
<1>2. Directories
  BY DEF Pooled
<1>3. CASE CtorTakes(f)
  <2>1. CanTake /\ page_alloc /\ ready' = [ready EXCEPT !.made = @ \cup {f}]
        /\ \/ CanAlloc(kern) /\ kern' = [MappedPage(kern, f) EXCEPT !.dir[f] = Wiped]
           \/ ~CanAlloc(kern) /\ kern' = kern
        /\ UNCHANGED <<mode, owned>>
    BY <1>3 DEF CtorTakes
  <2>2. f \in Pages /\ f \in Upper \ Taken
    BY <2>1, <1>1, TakeIs, TakeFrom
  <2>3. ready'.made = ready.made \cup {f} /\ ready'.set = ready.set
    BY <2>1, <2>2, MadeIs
  <2>4. Taken' = Taken \cup {f}
    BY <2>1, <2>3 DEF Taken
  <2>5. Directories' /\ kern'.limit = kern.limit
    BY <2>1, <2>2, <2>3, <1>1, DirectoriesCtor
  <2>6. Running'
    BY <2>1, <2>4, <2>5, <1>1, RunningTaken
  <2>7. QED BY <2>1, <2>5, <2>6, <1>1, PooledStep
<1>4. CASE NoneLeft /\ mode' = "wild" /\ UNCHANGED <<kern, lists, pages, owned, ready>>
  <2>1. Directories'
    BY <1>1, <1>2, <1>4 DEF Directories
  <2>2. QED BY <2>1, <1>1, <1>4, PooledStep
<1>5. CASE ListDry /\ kern' = kern /\ AssertFails
  <2>1. Spare < Uncounted
    BY <1>1, <1>5, DryIs
  <2>2. mode' = "fault" /\ ready' = ready
    BY <1>5 DEF AssertFails
  <2>3. Directories'
    BY <2>2, <1>1, <1>2, <1>5 DEF Directories
  <2>4. QED BY <2>1, <2>2, <2>3, <1>1, <1>5, PooledStep
<1>6. QED BY <1>1, <1>3, <1>4, <1>5

LEMMA DirectoriesSetup ==
  ASSUME TypesKept, Pooled, mode = "running", NEW d \in ready.made, d \in Pages, CanWalk(kern),
         kern' = i686_setup_kernelspace(kern, d), mode' = mode,
         ready'.made = ready.made, ready'.set = ready.set \cup {d}
  PROVE  Directories' /\ kern'.limit = kern.limit
<1> DEFINE t == i686_set_kernel_pdes(kern.dir[d])
<1>1. /\ ready.set \subseteq ready.made /\ KernelPd \notin ready.made
      /\ \A x \in ready.set \cup {KernelPd} : HasKernel(kern.dir[x])
      /\ \A x \in ready.set : Lower(kern.dir[x])
      /\ CanAlloc(kern) => \A x \in ready.made : Lower(kern.dir[x])
      /\ kern.cr3 \in ready.set \cup {KernelPd}
  BY DEF Pooled, Directories
<1>2. /\ kern \in KernType /\ ready.made \subseteq Pages /\ KernelPd \in Pages
      /\ kern.dir \in [Pages -> [PdEntries -> Int]] /\ kern.dir[d] \in [PdEntries -> Int]
  <2>1. kern \in KernType /\ ready.made \subseteq Pages /\ KernelPd \in Pages
    BY AbsentIsNoPage DEF TypesKept, Types
  <2>2. QED BY <2>1 DEF KernType
<1>3. Extended(kern, kern') /\ kern'.cr3 = kern.cr3 /\ kern'.dir = [kern.dir EXCEPT ![d] = t]
  BY <1>2, WalkIs
<1>4. CanAlloc(kern)
  BY DEF CanWalk
<1>5. \A e \in PdEntries : t[e] = IF e < NStartPde THEN kern.dir[d][e] ELSE e - NStartPde
  BY <1>2, PdesTyped
<1> HIDE DEF t
<1>6. kern'.dir[d] = t /\ \A x \in Pages : x # d => kern'.dir[x] = kern.dir[x]
  BY <1>2, <1>3
<1>7. HasKernel(t) /\ Lower(t)
  <2>1. \A e \in PdEntries : e >= NStartPde => ~(e < NStartPde)
    BY Numbers DEF PdEntries
  <2>2. Lower(kern.dir[d])
    BY <1>1, <1>4
  <2>3. QED BY <2>1, <2>2, <1>5 DEF HasKernel, Lower
<1>8. \A x \in ready.made \cup {KernelPd} : x \in Pages
  BY <1>2
<1>9. \A x \in ready.set \cup {d, KernelPd} : HasKernel(kern'.dir[x])
  BY <1>1, <1>6, <1>7, <1>8
<1>10. \A x \in ready.made : Lower(kern'.dir[x])
  BY <1>1, <1>4, <1>6, <1>7, <1>8
<1>11. Directories'
  BY <1>1, <1>3, <1>9, <1>10 DEF Directories
<1>12. QED BY <1>3, <1>11 DEF Extended

LEMMA PooledContext ==
  ASSUME TypesKept, Pooled, NEW d \in ready.made, SetupKernelspace(d) \/ SetContext(d)
  PROVE  Pooled'
<1>1. Directories /\ kern \in KernType /\ d \in Pages
  BY DEF Pooled, TypesKept, Types
<1>2. CASE SetupKernelspace(d)
  <2>1. /\ mode = "running" /\ UNCHANGED <<mmap, dirty, lists, pages, cur, owned>> /\ d \in Pages
        /\ \/ /\ CanWalk(kern) /\ kern' = i686_setup_kernelspace(kern, d) /\ mode' = mode
              /\ ready'.made = ready.made /\ ready'.set = ready.set \cup {d}
           \/ mode' = "wild" /\ UNCHANGED <<kern, ready>>
    BY <1>2, SetupIs
  <2>2. CASE mode' = "wild" /\ UNCHANGED <<kern, ready>>
    <3>1. Directories'
      BY <2>1, <2>2, <1>1 DEF Directories
    <3>2. QED BY <3>1, <2>1, <2>2, PooledStep
  <2>3. CASE /\ CanWalk(kern) /\ kern' = i686_setup_kernelspace(kern, d) /\ mode' = mode
             /\ ready'.made = ready.made /\ ready'.set = ready.set \cup {d}
    <3>1. Directories' /\ kern'.limit = kern.limit
      BY <2>1, <2>3, DirectoriesSetup
    <3>2. Taken' = Taken
      BY <2>1, <2>3 DEF Taken
    <3>3. Running'
      BY <3>1, <3>2, <2>1, RunningStays
    <3>4. QED BY <3>1, <3>3, <2>1, <2>3, PooledStep
  <2>4. QED BY <2>1, <2>2, <2>3
<1>3. CASE SetContext(d)
  <2>1. /\ mode = "running" /\ d \in ready.set /\ kern' = i686_set_context(kern, d)
        /\ UNCHANGED <<mode, mmap, dirty, lists, pages, cur, owned, ready>>
    BY <1>3 DEF SetContext
  <2>2. Extended(kern, kern') /\ kern'.cr3 = d /\ kern'.dir = kern.dir
    BY <2>1, <1>1, ContextIs
  <2>3. CanAlloc(kern') => CanAlloc(kern)
    BY <2>2, <1>1, ExtendedAlloc
  <2>4. Directories' /\ kern'.limit = kern.limit
    BY <2>1, <2>2, <2>3, <1>1 DEF Directories, Extended
  <2>5. Taken' = Taken
    BY <2>1 DEF Taken
  <2>6. Running'
    BY <2>1, <2>4, <2>5, RunningStays
  <2>7. QED BY <2>1, <2>4, <2>6, PooledStep
<1>4. QED BY <1>2, <1>3

LEMMA PooledNext == BootInv /\ [Next]_vars => BootInv'
<1> SUFFICES ASSUME BootInv, [Next]_vars PROVE BootInv'
  OBVIOUS
<1>1. TypesKept /\ TypesKept' /\ (Separated => Pooled)
  BY TypesNext DEF BootInv
<1>2. mmap' = mmap
  BY DEF Next, vars, VirtmemInit, i686_create_initial, EndOfMap, i686_prune_memory, PruneDone,
         NewSlab, i686_address_space_ctor, SetupKernelspace, SetContext, Rest
<1>3. Separated' <=> Separated
  BY <1>2 DEF Separated, FirstPage, LastPage
<1> SUFFICES ASSUME Separated PROVE Pooled'
  BY <1>1, <1>3 DEF BootInv
<1>4. Pooled
  BY <1>1
<1>5. CASE VirtmemInit
  BY <1>1, <1>4, <1>5, PooledVirtmem
<1>6. CASE i686_create_initial
  BY <1>1, <1>4, <1>6, PooledInitial
<1>7. CASE EndOfMap
  BY <1>1, <1>4, <1>7, PooledEnd
<1>8. CASE i686_prune_memory
  BY <1>1, <1>4, <1>8, PooledPrune
<1>9. CASE PruneDone
  BY <1>1, <1>4, <1>9, PooledDone
<1>10. CASE NewSlab
  BY <1>1, <1>4, <1>10, PooledSlab
<1>11. CASE i686_address_space_ctor
  BY <1>1, <1>4, <1>11, PooledCtor
<1>12. CASE \E d \in ready.made : SetupKernelspace(d) \/ SetContext(d)
  BY <1>1, <1>4, <1>12, PooledContext
<1>13. CASE UNCHANGED vars
  <2>1. UNCHANGED <<mode, mmap, kern, lists, pages, cur, owned, ready>>
    BY <1>13 DEF vars
  <2>2. Spare' = Spare /\ Uncounted' = Uncounted /\ Upper' = Upper /\ All' = All /\ AboveImage' = AboveImage
    BY <2>1, SameLimit
  <2>3. Taken' = Taken /\ Entered(cur)' = Entered(cur)
    BY <2>1 DEF Taken, Entered
  <2>4. OnFree(All)' = OnFree(All) /\ OnFree(Entered(cur))' = OnFree(Entered(cur))
    BY <2>2, <2>3 DEF OnFree, ListFor
  <2>5. Filling'
    BY <2>1, <2>3, <2>4, <1>4 DEF Pooled, Filling
  <2>6. Pruning'
    <3>1. {p \in All : p >= cur}' = {p \in All : p >= cur}
      BY <2>1, <2>2
    <3>2. QED BY <3>1, <2>1, <2>2, <2>4, <1>4 DEF Pooled, Pruning
  <2>7. Running'
    <3>1. mode = "running" => Running'
      BY <2>1, <2>3, <1>4, RunningStays
    <3>2. QED BY <3>1, <2>1 DEF Running
  <2>8. Roomy' /\ Directories' /\ Faulty'
    BY <2>1, <2>2, <1>4 DEF Pooled, Roomy, RoomMade, Directories, Faulty
  <2>9. QED BY <2>5, <2>6, <2>7, <2>8 DEF Pooled
<1>14. QED BY <1>5, <1>6, <1>7, <1>8, <1>9, <1>10, <1>11, <1>12, <1>13 DEF Next, Rest

\* The inductive invariant of boot: what is on the two lists at each stage, what
\* brk has made room for, and what the page directories hold.
THEOREM BootInvariant == Spec => []BootInv
  BY PooledInit, PooledNext, PTL DEF Spec

-----------------------------------------------------------------------------
\* Pages that lie inside an area are among those the loop goes through, unless
\* the sum that gives the area's end wraps.
LEMMA InsideSpan ==
  ASSUME NEW e \in Entries, ~Wraps(e), NEW p \in Pages, Inside(p, e)
  PROVE  p \in Span(e)
<1>1. PICK b \in Nat, n \in Nat : b = e.base /\ n = e.length
  BY Numbers DEF Entries
<1>2. /\ PageSize \in Nat \ {0} /\ NAddresses \in Nat \ {0} /\ p \in Nat
      /\ PageSize * p \in Nat /\ p * PageSize = PageSize * p
      /\ (p + 1) * PageSize = (PageSize * p) + PageSize
  BY Numbers, PageNumbers
<1>3. b <= PageSize * p /\ (PageSize * p) + PageSize <= b + n /\ b + n + PageSize <= NAddresses
  BY <1>1, <1>2, Numbers DEF Inside, Wraps
<1>4. ASSUME NEW x \in Nat, x < NAddresses PROVE x % NAddresses = x
  BY <1>2, <1>4
<1>5. FirstPage(e) <= p
  <2>1. PICK x \in Nat : x = b + PageSize - 1 /\ x < NAddresses
    BY <1>2, <1>3
  <2>2. FirstPage(e) = x \div PageSize
    BY <2>1, <1>1, <1>4 DEF FirstPage
  <2>3. PICK q \in Nat, r \in 0 .. PageSize - 1 : q = x \div PageSize /\ x = (PageSize * q) + r
    <3>1. x \div PageSize \in Nat /\ x % PageSize \in 0 .. PageSize - 1
          /\ x = (PageSize * (x \div PageSize)) + (x % PageSize)
      BY <1>2, Division
    <3>2. QED BY <3>1
  <2>4. PageSize * q \in Nat /\ PageSize * (p + 1) = (PageSize * p) + PageSize
    BY <1>2, <2>3
  <2>5. PageSize * q < PageSize * (p + 1)
    BY <2>1, <2>3, <2>4, <1>2, <1>3
  <2>6. q < p + 1
    BY <2>5, <1>2, ProductBelow
  <2>7. QED BY <2>2, <2>3, <2>6, <1>2
<1>6. p <= LastPage(e)
  <2> DEFINE last == ((e.base + e.length + PageSize - 1) % NAddresses) \div PageSize
  <2>1. PICK x \in Nat : x = b + n + PageSize - 1 /\ x < NAddresses
    BY <1>2, <1>3
  <2>2. last = x \div PageSize
    BY <2>1, <1>1, <1>4
  <2>3. PICK q \in Nat, r \in 0 .. PageSize - 1 : q = x \div PageSize /\ x = (PageSize * q) + r
    <3>1. x \div PageSize \in Nat /\ x % PageSize \in 0 .. PageSize - 1
          /\ x = (PageSize * (x \div PageSize)) + (x % PageSize)
      BY <1>2, Division
    <3>2. QED BY <3>1
  <2>4. PageSize * q \in Nat /\ PageSize * (q + 1) = (PageSize * q) + PageSize
    BY <1>2, <2>3
  <2>5. PageSize * p < PageSize * (q + 1)
    BY <2>1, <2>3, <2>4, <1>2, <1>3
  <2>6. p < q + 1
    BY <2>5, <2>3, <1>2, ProductBelow
  <2>7. FirstPage(e) \in Nat
    BY AreaPages
  <2>8. LastPage(e) = CHOOSE y \in {FirstPage(e), last} : \A z \in {FirstPage(e), last} : y >= z
    BY DEF LastPage, Max
  <2> HIDE DEF last
  <2>9. \E y \in {FirstPage(e), last} : \A z \in {FirstPage(e), last} : y >= z
    BY <2>2, <2>3, <2>7
  <2>10. LastPage(e) \in {FirstPage(e), last} /\ LastPage(e) >= last
    BY <2>8, <2>9
  <2>11. QED BY <2>2, <2>3, <2>6, <2>7, <2>10, <1>2
<1>7. QED BY <1>2, <1>5, <1>6, AreaPages DEF Span

\* The free list of a running kernel, as the code walks over it.
LEMMA FreeIs ==
  ASSUME BootInv, mode = "running", Separated
  PROVE  Free = Upper \ Taken /\ WellFormed(lists, freelist, Cardinality(Pages)) /\ Taken \subseteq Upper
<1> DEFINE S == Upper \ Taken
<1>1. TypesKept /\ Pool(lists, S) /\ KernelEnd <= kern.limit /\ Taken \subseteq Upper
  BY DEF BootInv, Pooled, Running, Roomy
<1>2. ASSUME NEW p \in S PROVE ListFor(p) = freelist
  BY <1>1, UpperIsFree DEF Upper, All
<1>3. OnFree(S) = S
  BY <1>2 DEF OnFree
<1> HIDE DEF S
<1>4. Free = S /\ WellFormed(lists, freelist, Cardinality(Pages))
  BY <1>1, <1>3, PoolFree
<1>5. QED BY <1>1, <1>4 DEF S

\* For every memory map whose areas share no page: when boot is over, and
\* however many slabs and page directories are taken since, the free list is
\* sound, has no page of the kernel's image or table and none that was taken,
\* and lacks no usable page above the kernel, except in an area whose end wraps.
THEOREM PoolStaysExact == Spec => []PoolExact
<1>1. BootInv => PoolExact
  <2> SUFFICES ASSUME BootInv, mode = "running", Separated
               PROVE  /\ WellFormed(lists, freelist, Cardinality(Pages))
                      /\ Free \cap Taken = {} /\ \A p \in Free : p >= AboveImage
                      /\ \A p \in Pages : p > AboveImage /\ (\E e \in Areas : Inside(p, e) /\ ~Wraps(e))
                           => p \in Free \cup Taken
    BY DEF PoolExact
  <2>1. Free = Upper \ Taken /\ WellFormed(lists, freelist, Cardinality(Pages))
    BY FreeIs
  <2>2. AboveImage \in Nat
    BY AboveImageIs DEF BootInv
  <2>3. \A p \in Free : p >= AboveImage
    BY <2>1, <2>2, PageNumbers DEF Upper, All
  <2>4. ASSUME NEW p \in Pages, p > AboveImage, NEW e \in Areas, Inside(p, e), ~Wraps(e)
        PROVE  p \in Free \cup Taken
    <3>1. e \in Entries
      BY Entry DEF Areas, BootInv, TypesKept, Types
    <3>2. p \in Span(e)
      BY <3>1, <2>4, InsideSpan
    <3>3. p \in Upper
      BY <3>2, <2>4 DEF Upper, All
    <3>4. QED BY <3>3, <2>1
  <2>5. QED BY <2>1, <2>3, <2>4
<1>2. QED BY <1>1, BootInvariant, PTL

\* The count of free pages falls short of the list by exactly the pages that
\* prune subtracted without their having been counted, modulo 2^32, at every
\* moment after boot.
THEOREM FreePagesStayCounted == Spec => []FreePagesCounted
<1>1. BootInv => FreePagesCounted
  <2> SUFFICES ASSUME BootInv, mode = "running", Separated
               PROVE  (pages.free + Uncounted) % NAddresses = Cardinality(Free)
    BY DEF FreePagesCounted
  <2>1. Free = Upper \ Taken
    BY FreeIs
  <2>2. (pages.free + Uncounted) % NAddresses = Cardinality(Upper \ Taken)
    BY DEF BootInv, Pooled, Running
  <2>3. QED BY <2>1, <2>2, Zenon
<1>2. QED BY <1>1, BootInvariant, PTL

\* Neither i686_create_initial nor i686_prune_memory touches a descriptor that
\* brk has not mapped, and no allocation meets an empty list with a count left,
\* unless there are fewer pages above the kernel than prune subtracts too many.
THEOREM NoBootFault == Spec => []BootNeverFaults
<1>1. BootInv => BootNeverFaults
  BY DEF BootInv, Pooled, Faulty, BootNeverFaults
<1>2. QED BY <1>1, BootInvariant, PTL

\* Every directory that was set up shows every kernel page as the kernel's own
\* directory does, the pages handed out since included, has no entry of its own
\* below, and the processor uses one of them.
THEOREM KernelSeenEverywhere == Spec => []KernelEverywhere
<1>1. BootInv => KernelEverywhere
  <2> SUFFICES ASSUME BootInv, mode # "loaded", Separated
               PROVE  /\ \A d \in ready.set \cup {KernelPd}, i \in KernelPages : Seen(kern, d, i) = kern.pte[i]
                      /\ \A d \in ready.set : \A e \in PdEntries : e < NStartPde => kern.dir[d][e] = Absent
                      /\ kern.cr3 \in ready.set \cup {KernelPd}
    BY DEF KernelEverywhere
  <2>1. /\ \A d \in ready.set \cup {KernelPd} : HasKernel(kern.dir[d])
        /\ \A d \in ready.set : Lower(kern.dir[d])
        /\ kern.cr3 \in ready.set \cup {KernelPd}
    BY DEF BootInv, Pooled, Directories
  <2>2. kern \in KernType /\ ready.set \cup {KernelPd} \subseteq Pages
    BY AbsentIsNoPage DEF BootInv, TypesKept, Types
  <2>3. ASSUME NEW d \in ready.set \cup {KernelPd}, NEW i \in KernelPages PROVE Seen(kern, d, i) = kern.pte[i]
    BY <2>1, <2>2, SeenIs
  <2>4. QED BY <2>1, <2>3 DEF Lower
<1>2. QED BY <1>1, BootInvariant, PTL
=============================================================================
