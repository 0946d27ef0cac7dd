------------------------ MODULE FeederPhysmem_proofs ------------------------
(***************************************************************************)
(* Proofs about the page pools of FeederPhysmem, for any number of pages,  *)
(* any thresholds and any number of pages left uncounted at boot.          *)
(***************************************************************************)
EXTENDS FeederPhysmem, ListLemmas, FiniteSetTheorems, SequenceTheorems, TLAPS

-----------------------------------------------------------------------------
\* Pages and addresses.

LEMMA PageAddress ==
  /\ \A page \in Pages : /\ page_to_phys(page) \in Addresses
                         /\ phys_to_page(page_to_phys(page)) = page
  /\ \A addr \in Addresses : /\ phys_to_page(addr) \in Pages
                             /\ page_to_phys(phys_to_page(addr)) = addr
<1>1. \A page \in Pages : phys_to_page(page_to_phys(page)) = page
  BY PoolAssumption DEF Pages, page_to_phys, phys_to_page, PAGE_SIZE
<1>2. QED BY <1>1 DEF Addresses

LEMMA AddressesFinite == IsFiniteSet(Addresses) /\ Cardinality(Addresses) = NPages
<1> DEFINE f == [page \in Pages |-> page_to_phys(page)]
<1>1. IsFiniteSet(Pages) /\ Cardinality(Pages) = NPages
  BY FS_Interval, PoolAssumption DEF Pages
<1>2. f \in Bijection(Pages, Addresses)
  BY PageAddress DEF Bijection, Injection, Surjection, IsInjective, Addresses
<1>3. QED BY <1>1, <1>2, FS_Bijection DEF ExistsBijection

LEMMA PoolUpdate ==
  ASSUME NEW p \in PoolType, NEW list \in Seq(Pages), NEW n \in Nat
  PROVE  LET q == [p EXCEPT !.freelist = list, !.free_pages = n]
         IN  /\ q \in PoolType
             /\ q.freelist = list
             /\ q.free_pages = n
             /\ q.total_pages = p.total_pages
BY DEF PoolType

\* What common_physmem_page_alloc does to a pool whose list is not empty.
LEMMA PoolAlloc ==
  ASSUME NEW p \in PoolType, IsInjective(p.freelist),
         p.freelist # << >>, p.free_pages > 0
  PROVE  /\ common_physmem_page_alloc(p) \in PoolType
         /\ IsInjective(common_physmem_page_alloc(p).freelist)
         /\ allocated_address(p) \in Addresses
         /\ allocated_address(p) \in OnList(p)
         /\ OnList(common_physmem_page_alloc(p))
              = OnList(p) \ {allocated_address(p)}
         /\ Len(common_physmem_page_alloc(p).freelist) = Len(p.freelist) - 1
         /\ common_physmem_page_alloc(p).free_pages = p.free_pages - 1
         /\ common_physmem_page_alloc(p).total_pages = p.total_pages
<1> DEFINE q == common_physmem_page_alloc(p)
<1>1. /\ p.freelist \in Seq(Pages) /\ p.free_pages \in Nat
      /\ p.total_pages \in Nat
      /\ q.freelist = Tail(p.freelist)
      /\ q.free_pages = p.free_pages - 1
      /\ q.total_pages = p.total_pages
  BY DEF PoolType, common_physmem_page_alloc
<1>2. /\ Head(p.freelist) \in Range(p.freelist)
      /\ Head(p.freelist) \in Pages
      /\ Tail(p.freelist) \in Seq(Pages)
      /\ Len(Tail(p.freelist)) = Len(p.freelist) - 1
      /\ IsInjective(Tail(p.freelist))
      /\ Range(Tail(p.freelist)) = Range(p.freelist) \ {Head(p.freelist)}
  BY <1>1, TailInjective, HeadTailProperties
<1>3. Range(p.freelist) \subseteq Pages
  BY <1>1, LenProperties DEF Range
<1>4. OnList(q) = OnList(p) \ {allocated_address(p)}
  BY <1>1, <1>2, <1>3, PageAddress DEF OnList, allocated_address
<1>5. allocated_address(p) \in Addresses /\ allocated_address(p) \in OnList(p)
  BY <1>2, PageAddress DEF OnList, allocated_address
<1>6. q \in PoolType
  <2>1. p.free_pages - 1 \in Nat BY <1>1
  <2>2. QED BY <1>2, <2>1, PoolUpdate DEF common_physmem_page_alloc
<1>7. /\ IsInjective(q.freelist)
      /\ Len(q.freelist) = Len(p.freelist) - 1
      /\ q.free_pages = p.free_pages - 1
      /\ q.total_pages = p.total_pages
  BY <1>1, <1>2
<1>8. QED BY <1>4, <1>5, <1>6, <1>7

\* What inserting the page of an address at the head of a list does.
LEMMA PoolInsert ==
  ASSUME NEW p \in PoolType, IsInjective(p.freelist),
         NEW addr \in Addresses, addr \notin OnList(p)
  PROVE  LET q == list_insert_head(p, phys_to_page(addr))
         IN  /\ q \in PoolType
             /\ IsInjective(q.freelist)
             /\ OnList(q) = OnList(p) \cup {addr}
             /\ Len(q.freelist) = Len(p.freelist) + 1
             /\ q.free_pages = p.free_pages + 1
             /\ q.total_pages = p.total_pages
<1> DEFINE e == phys_to_page(addr)
           q == list_insert_head(p, e)
<1>1. /\ p.freelist \in Seq(Pages) /\ p.free_pages \in Nat
      /\ p.total_pages \in Nat
      /\ q.freelist = <<e>> \o p.freelist
      /\ q.free_pages = p.free_pages + 1
      /\ q.total_pages = p.total_pages
  BY DEF PoolType, list_insert_head
<1>2. e \in Pages /\ page_to_phys(e) = addr
  BY PageAddress
<1>3. e \notin Range(p.freelist)
  BY <1>2 DEF OnList
<1>4. /\ <<e>> \o p.freelist \in Seq(Pages)
      /\ Len(<<e>> \o p.freelist) = Len(p.freelist) + 1
      /\ IsInjective(<<e>> \o p.freelist)
      /\ Range(<<e>> \o p.freelist) = Range(p.freelist) \cup {e}
  BY <1>1, <1>2, <1>3, PrependInjective
<1>5. OnList(q) = OnList(p) \cup {addr}
  BY <1>1, <1>2, <1>4 DEF OnList
<1>6. q \in PoolType
  <2>1. p.free_pages + 1 \in Nat BY <1>1
  <2>2. QED BY <1>4, <2>1, PoolUpdate DEF list_insert_head
<1> HIDE DEF q
<1>7. QED BY <1>1, <1>4, <1>5, <1>6 DEF q

\* refill also counts the page in total_pages.
LEMMA PoolRefill ==
  ASSUME NEW p \in PoolType, IsInjective(p.freelist),
         NEW addr \in Addresses, addr \notin OnList(p)
  PROVE  LET q == refill(p, phys_to_page(addr))
         IN  /\ q \in PoolType
             /\ IsInjective(q.freelist)
             /\ OnList(q) = OnList(p) \cup {addr}
             /\ Len(q.freelist) = Len(p.freelist) + 1
             /\ q.free_pages = p.free_pages + 1
             /\ q.total_pages = p.total_pages + 1
<1> DEFINE r == list_insert_head(p, phys_to_page(addr))
           q == refill(p, phys_to_page(addr))
<1>1. /\ r \in PoolType /\ IsInjective(r.freelist)
      /\ OnList(r) = OnList(p) \cup {addr}
      /\ Len(r.freelist) = Len(p.freelist) + 1
      /\ r.free_pages = p.free_pages + 1
      /\ r.total_pages = p.total_pages
  BY PoolInsert
<1>2. q = [r EXCEPT !.total_pages = @ + 1]
  BY DEF refill
<1> HIDE DEF r, q
<1>3. /\ q \in PoolType /\ q.freelist = r.freelist
      /\ q.free_pages = r.free_pages /\ q.total_pages = r.total_pages + 1
  BY <1>1, <1>2 DEF PoolType
<1>4. OnList(q) = OnList(r)
  BY <1>3 DEF OnList
<1>5. QED BY <1>1, <1>3, <1>4 DEF q

-----------------------------------------------------------------------------
(***************************************************************************)
(* The inductive invariant.  PagesConserved and CountersAgree carry the    *)
(* lists; the rest is arithmetic on the counters.  The feeder's total is   *)
(* what the source has given away through refills, and refills stop for    *)
(* good once the source is down to its reserve: afterwards the source only *)
(* moves between 0 and min_free_source_pages.                              *)
(***************************************************************************)

Counted == NPages - Uncounted

CountersConserved ==
  source.free_pages + feeder.free_pages + Cardinality(held) = Counted

TotalIsRefills ==
  /\ SourceSpares => feeder.total_pages = Counted - source.free_pages
  /\ ~ SourceSpares =>
       feeder.total_pages = IF Counted > min_free_source_pages
                              THEN Counted - min_free_source_pages ELSE 0

InsideAlloc ==
  /\ call = "refill" => xfer_pages + feeder.free_pages = pages_to_keep + 1
  /\ (call = "take" /\ SourceSpares) => feeder.free_pages >= pages_to_keep + 1

Lists == TypeOK /\ PagesConserved /\ CountersAgree

Counters == /\ CountersConserved /\ TotalIsRefills /\ InsideAlloc
            /\ FeederStatsConsistent /\ FeederReplenished

IInv == Lists /\ Counters

LEMMA HeldFinite == ASSUME TypeOK PROVE IsFiniteSet(held) /\ Cardinality(held) \in Nat
BY AddressesFinite, FS_Subset, FS_CardinalityType DEF TypeOK

\* A pool whose free_pages is positive has a page on its list: the assertion
\* in common_physmem_page_alloc holds.
LEMMA ListNotEmpty ==
  ASSUME Lists
  PROVE  /\ source.free_pages > 0 => source.freelist # << >>
         /\ feeder.free_pages > 0 => feeder.freelist # << >>
<1>1. /\ source.free_pages \in Nat /\ feeder.free_pages \in Nat
      /\ Uncounted \in Nat
  BY PoolAssumption DEF Lists, TypeOK, PoolType
<1>2. Len(<< >>) = 0
  OBVIOUS
<1>3. QED BY <1>1, <1>2 DEF Lists, CountersAgree

LEMMA CounterTypes ==
  ASSUME TypeOK
  PROVE  /\ source.free_pages \in Nat /\ feeder.free_pages \in Nat
         /\ feeder.total_pages \in Nat /\ xfer_pages \in Nat
         /\ Counted \in Nat /\ Uncounted \in Nat
         /\ pages_to_keep \in Nat /\ min_free_source_pages \in Nat
BY PoolAssumption DEF TypeOK, PoolType, Counted

LEMMA InitIInv == Init => IInv
<1> SUFFICES ASSUME Init PROVE IInv
  OBVIOUS
<1> DEFINE list == [i \in 1 .. NPages |-> NPages + 1 - i]
<1>1. NPages \in Nat /\ Uncounted \in 0 .. NPages
      /\ pages_to_keep \in Nat /\ min_free_source_pages \in Nat
  BY PoolAssumption
<1>2. list \in Seq(Pages) /\ Len(list) = NPages /\ DOMAIN list = 1 .. NPages
  BY <1>1 DEF Pages
<1>3. IsInjective(list)
  BY <1>1 DEF IsInjective
<1>4. Range(list) = Pages
  <2>1. \A i \in 1 .. NPages : list[i] \in Pages
    BY <1>1 DEF Pages
  <2>2. ASSUME NEW page \in Pages PROVE page \in Range(list)
    <3>1. NPages + 1 - page \in 1 .. NPages /\ list[NPages + 1 - page] = page
      BY <1>1 DEF Pages
    <3>2. QED BY <3>1 DEF Range
  <2>3. QED BY <2>1, <2>2 DEF Range
<1>5. << >> \in Seq(Pages) /\ Len(<< >>) = 0 /\ IsInjective(<< >>) /\ Range(<< >>) = {}
  BY DEF IsInjective, Range
<1> HIDE DEF list
<1>6. /\ source.freelist = list /\ source.free_pages = NPages - Uncounted
      /\ source.total_pages = NPages
      /\ feeder.freelist = << >> /\ feeder.free_pages = 0 /\ feeder.total_pages = 0
      /\ held = {} /\ call = "idle" /\ xfer_pages = 0 /\ err = "none"
  BY DEF Init, list
<1>7. TypeOK
  <2>1. NPages - Uncounted \in Nat BY <1>1
  <2>2. source \in PoolType /\ feeder \in PoolType
    BY <1>1, <1>2, <1>5, <2>1 DEF Init, PoolType, list
  <2>3. QED BY <1>6, <2>2 DEF TypeOK
<1>8. OnList(source) = Addresses /\ OnList(feeder) = {}
  BY <1>4, <1>5, <1>6 DEF OnList, Addresses
<1>9. PagesConserved
  BY <1>3, <1>5, <1>6, <1>8 DEF PagesConserved
<1>10. CountersAgree
  BY <1>1, <1>2, <1>5, <1>6 DEF CountersAgree
<1>11. CountersConserved
  BY <1>1, <1>6, FS_EmptySet DEF CountersConserved, Counted
<1>12. /\ TotalIsRefills /\ InsideAlloc
       /\ FeederStatsConsistent /\ FeederReplenished
  BY <1>1, <1>6 DEF TotalIsRefills, InsideAlloc, FeederStatsConsistent,
     FeederReplenished, SourceSpares, Counted
<1>13. QED BY <1>7, <1>9, <1>10, <1>11, <1>12 DEF IInv, Lists, Counters

\* Steps that change neither the pools nor what is held keep the lists.
LEMMA SamePools ==
  ASSUME Lists, source' = source, feeder' = feeder, held' = held,
         call' \in {"idle", "refill", "take"}, xfer_pages' \in Nat,
         err' \in {"none", "PHYSMEM_SUCCESS", "PHYSMEM_ERR_OOM"}
  PROVE  Lists'
BY DEF Lists, TypeOK, PagesConserved, CountersAgree, OnList

LEMMA NextLists == IInv /\ [Next]_vars => Lists'
<1> SUFFICES ASSUME IInv, [Next]_vars PROVE Lists'
  OBVIOUS
<1>1. Lists /\ Counters
  BY DEF IInv
<1>2. TypeOK /\ PagesConserved /\ CountersAgree
  BY <1>1 DEF Lists
<1>3. /\ source \in PoolType /\ feeder \in PoolType /\ held \subseteq Addresses
      /\ call \in {"idle", "refill", "take"} /\ xfer_pages \in Nat
      /\ err \in {"none", "PHYSMEM_SUCCESS", "PHYSMEM_ERR_OOM"}
  BY <1>2 DEF TypeOK
<1>4. /\ IsInjective(source.freelist) /\ IsInjective(feeder.freelist)
      /\ OnList(source) \cap OnList(feeder) = {}
      /\ (OnList(source) \cup OnList(feeder)) \cap held = {}
      /\ OnList(source) \cup OnList(feeder) \cup held = Addresses
  BY <1>2 DEF PagesConserved
<1>5. /\ Len(source.freelist) = source.free_pages + Uncounted
      /\ Len(feeder.freelist) = feeder.free_pages
  BY <1>2 DEF CountersAgree
<1>6. /\ source.free_pages \in Nat /\ feeder.free_pages \in Nat
      /\ Uncounted \in Nat /\ pages_to_keep \in Nat
      /\ min_free_source_pages \in Nat
  BY <1>2, CounterTypes
<1>7. CASE AllocStocked
  BY <1>1, <1>3, <1>7, SamePools DEF AllocStocked
<1>8. CASE AllocLow
  <2>1. pages_to_keep - feeder.free_pages + 1 \in Nat
    BY <1>6, <1>8 DEF AllocLow
  <2>2. QED BY <1>1, <1>3, <1>8, <2>1, SamePools DEF AllocLow
<1>9. CASE RefillStep
  <2> DEFINE a == allocated_address(source)
  <2>1. source.free_pages > 0
    BY <1>6, <1>9 DEF RefillStep, SourceSpares
  <2>2. /\ source' \in PoolType /\ IsInjective(source'.freelist)
        /\ a \in Addresses /\ a \in OnList(source)
        /\ OnList(source') = OnList(source) \ {a}
        /\ Len(source'.freelist) = Len(source.freelist) - 1
        /\ source'.free_pages = source.free_pages - 1
    BY <1>1, <1>3, <1>4, <1>9, <2>1, ListNotEmpty, PoolAlloc DEF RefillStep
  <2>3. a \notin OnList(feeder)
    BY <1>4, <2>2
  <2>4. /\ feeder' \in PoolType /\ IsInjective(feeder'.freelist)
        /\ OnList(feeder') = OnList(feeder) \cup {a}
        /\ Len(feeder'.freelist) = Len(feeder.freelist) + 1
        /\ feeder'.free_pages = feeder.free_pages + 1
    BY <1>3, <1>4, <1>9, <2>2, <2>3, PoolRefill DEF RefillStep
  <2> HIDE DEF a
  <2>5. /\ held' = held /\ call' = call /\ err' = err /\ xfer_pages' \in Nat
    BY <1>3, <1>9 DEF RefillStep
  <2>6. TypeOK' BY <1>3, <2>2, <2>4, <2>5 DEF TypeOK
  <2>7. OnList(source)' = OnList(source') /\ OnList(feeder)' = OnList(feeder')
    BY DEF OnList
  <2>8. PagesConserved' BY <1>4, <2>2, <2>4, <2>5, <2>7 DEF PagesConserved
  <2>9. CountersAgree' BY <1>5, <1>6, <2>2, <2>4 DEF CountersAgree
  <2>10. QED BY <2>6, <2>8, <2>9 DEF Lists
<1>10. CASE RefillEnd
  BY <1>1, <1>3, <1>10, SamePools DEF RefillEnd
<1>11. CASE TakeFromFeeder
  <2> DEFINE a == allocated_address(feeder)
  <2>1. /\ feeder' \in PoolType /\ IsInjective(feeder'.freelist)
        /\ a \in Addresses /\ a \in OnList(feeder)
        /\ OnList(feeder') = OnList(feeder) \ {a}
        /\ Len(feeder'.freelist) = Len(feeder.freelist) - 1
        /\ feeder'.free_pages = feeder.free_pages - 1
    BY <1>1, <1>3, <1>4, <1>11, ListNotEmpty, PoolAlloc DEF TakeFromFeeder
  <2>2. /\ source' = source /\ held' = held \cup {a}
        /\ call' = "idle" /\ err' = "PHYSMEM_SUCCESS" /\ xfer_pages' = 0
    BY <1>11 DEF TakeFromFeeder, Return
  <2> HIDE DEF a
  <2>3. TypeOK' BY <1>3, <2>1, <2>2 DEF TypeOK
  <2>4. OnList(source)' = OnList(source) /\ OnList(feeder)' = OnList(feeder')
    BY <2>2 DEF OnList
  <2>5. PagesConserved' BY <1>4, <2>1, <2>2, <2>4 DEF PagesConserved
  <2>6. CountersAgree' BY <1>5, <1>6, <2>1, <2>2 DEF CountersAgree
  <2>7. QED BY <2>3, <2>5, <2>6 DEF Lists
<1>12. CASE TakeFromSource
  <2> DEFINE a == allocated_address(source)
  <2>1. /\ source' \in PoolType /\ IsInjective(source'.freelist)
        /\ a \in Addresses /\ a \in OnList(source)
        /\ OnList(source') = OnList(source) \ {a}
        /\ Len(source'.freelist) = Len(source.freelist) - 1
        /\ source'.free_pages = source.free_pages - 1
    BY <1>1, <1>3, <1>4, <1>12, ListNotEmpty, PoolAlloc DEF TakeFromSource
  <2>2. /\ feeder' = feeder /\ held' = held \cup {a}
        /\ call' = "idle" /\ err' = "PHYSMEM_SUCCESS" /\ xfer_pages' = 0
    BY <1>12 DEF TakeFromSource, Return
  <2> HIDE DEF a
  <2>3. TypeOK' BY <1>3, <2>1, <2>2 DEF TypeOK
  <2>4. OnList(source)' = OnList(source') /\ OnList(feeder)' = OnList(feeder)
    BY <2>2 DEF OnList
  <2>5. PagesConserved' BY <1>4, <2>1, <2>2, <2>4 DEF PagesConserved
  <2>6. CountersAgree' BY <1>5, <1>6, <2>1, <2>2 DEF CountersAgree
  <2>7. QED BY <2>3, <2>5, <2>6 DEF Lists
<1>13. CASE OutOfMemory
  BY <1>1, <1>3, <1>13, SamePools DEF OutOfMemory, Return
<1>14. ASSUME NEW addr \in held, feeder_physmem_page_free(addr) PROVE Lists'
  <2>1. addr \in Addresses /\ addr \notin OnList(source) /\ addr \notin OnList(feeder)
    BY <1>3, <1>4
  <2>2. /\ held' = held \ {addr} /\ call' = call /\ xfer_pages' = xfer_pages
        /\ err' = "PHYSMEM_SUCCESS"
    BY <1>14 DEF feeder_physmem_page_free
  <2>3. CASE FreeToSource(addr)
    <3>1. /\ source' \in PoolType /\ IsInjective(source'.freelist)
          /\ OnList(source') = OnList(source) \cup {addr}
          /\ Len(source'.freelist) = Len(source.freelist) + 1
          /\ source'.free_pages = source.free_pages + 1
          /\ feeder' = feeder
      BY <1>3, <1>4, <2>1, <2>3, PoolInsert
         DEF FreeToSource, common_physmem_page_free
    <3>2. TypeOK' BY <1>3, <2>2, <3>1 DEF TypeOK
    <3>3. OnList(source)' = OnList(source') /\ OnList(feeder)' = OnList(feeder)
      BY <3>1 DEF OnList
    <3>4. PagesConserved' BY <1>4, <2>1, <2>2, <3>1, <3>3 DEF PagesConserved
    <3>5. CountersAgree' BY <1>5, <1>6, <3>1 DEF CountersAgree
    <3>6. QED BY <3>2, <3>4, <3>5 DEF Lists
  <2>4. CASE FreeToFeeder(addr)
    <3>1. /\ feeder' \in PoolType /\ IsInjective(feeder'.freelist)
          /\ OnList(feeder') = OnList(feeder) \cup {addr}
          /\ Len(feeder'.freelist) = Len(feeder.freelist) + 1
          /\ feeder'.free_pages = feeder.free_pages + 1
          /\ source' = source
      BY <1>3, <1>4, <2>1, <2>4, PoolInsert
         DEF FreeToFeeder, common_physmem_page_free
    <3>2. TypeOK' BY <1>3, <2>2, <3>1 DEF TypeOK
    <3>3. OnList(source)' = OnList(source) /\ OnList(feeder)' = OnList(feeder')
      BY <3>1 DEF OnList
    <3>4. PagesConserved' BY <1>4, <2>1, <2>2, <3>1, <3>3 DEF PagesConserved
    <3>5. CountersAgree' BY <1>5, <1>6, <3>1 DEF CountersAgree
    <3>6. QED BY <3>2, <3>4, <3>5 DEF Lists
  <2>5. QED BY <1>14, <2>3, <2>4 DEF feeder_physmem_page_free
<1>15. CASE UNCHANGED vars
  BY <1>1, <1>3, <1>15, SamePools DEF vars
<1>16. QED
  BY <1>7, <1>8, <1>9, <1>10, <1>11, <1>12, <1>13, <1>14, <1>15
     DEF Next, feeder_physmem_page_alloc

\* What each action does to the counters, with the lists abstracted away.
LEMMA CounterSteps ==
  ASSUME IInv
  PROVE  /\ RefillStep =>
              /\ source'.free_pages = source.free_pages - 1
              /\ feeder'.free_pages = feeder.free_pages + 1
              /\ feeder'.total_pages = feeder.total_pages + 1
         /\ TakeFromFeeder =>
              /\ feeder'.free_pages = feeder.free_pages - 1
              /\ feeder'.total_pages = feeder.total_pages
              /\ Cardinality(held') = Cardinality(held) + 1
         /\ TakeFromSource =>
              /\ source'.free_pages = source.free_pages - 1
              /\ Cardinality(held') = Cardinality(held) + 1
         /\ \A addr \in held :
              feeder_physmem_page_free(addr) =>
                /\ Cardinality(held') = Cardinality(held) - 1
                /\ Cardinality(held) >= 1
                /\ \/ /\ SourceIsLow /\ feeder' = feeder
                      /\ source'.free_pages = source.free_pages + 1
                   \/ /\ ~ SourceIsLow /\ source' = source
                      /\ feeder'.free_pages = feeder.free_pages + 1
                      /\ feeder'.total_pages = feeder.total_pages
<1>1. Lists /\ TypeOK /\ PagesConserved
  BY DEF IInv, Lists
<1>2. /\ source \in PoolType /\ feeder \in PoolType
      /\ IsFiniteSet(held) /\ Cardinality(held) \in Nat
  BY <1>1, HeldFinite DEF TypeOK
<1>3. /\ IsInjective(source.freelist) /\ IsInjective(feeder.freelist)
      /\ (OnList(source) \cup OnList(feeder)) \cap held = {}
  BY <1>1 DEF PagesConserved
<1>4. ASSUME RefillStep
      PROVE  /\ source'.free_pages = source.free_pages - 1
             /\ feeder'.free_pages = feeder.free_pages + 1
             /\ feeder'.total_pages = feeder.total_pages + 1
  BY <1>2, <1>4 DEF RefillStep, refill, list_insert_head,
     common_physmem_page_alloc, PoolType
<1>5. ASSUME TakeFromFeeder
      PROVE  /\ feeder'.free_pages = feeder.free_pages - 1
             /\ feeder'.total_pages = feeder.total_pages
             /\ Cardinality(held') = Cardinality(held) + 1
  <2>1. allocated_address(feeder) \in OnList(feeder)
    BY <1>1, <1>2, <1>3, <1>5, ListNotEmpty, PoolAlloc DEF TakeFromFeeder
  <2>2. Cardinality(held') = Cardinality(held) + 1
    BY <1>2, <1>3, <1>5, <2>1, FS_AddElement DEF TakeFromFeeder
  <2>3. QED BY <1>2, <1>5, <2>2 DEF TakeFromFeeder, common_physmem_page_alloc, PoolType
<1>6. ASSUME TakeFromSource
      PROVE  /\ source'.free_pages = source.free_pages - 1
             /\ Cardinality(held') = Cardinality(held) + 1
  <2>1. allocated_address(source) \in OnList(source)
    BY <1>1, <1>2, <1>3, <1>6, ListNotEmpty, PoolAlloc DEF TakeFromSource
  <2>2. Cardinality(held') = Cardinality(held) + 1
    BY <1>2, <1>3, <1>6, <2>1, FS_AddElement DEF TakeFromSource
  <2>3. QED BY <1>2, <1>6, <2>2 DEF TakeFromSource, common_physmem_page_alloc, PoolType
<1>7. ASSUME NEW addr \in held, feeder_physmem_page_free(addr)
      PROVE  /\ Cardinality(held') = Cardinality(held) - 1
             /\ Cardinality(held) >= 1
             /\ \/ /\ SourceIsLow /\ feeder' = feeder
                   /\ source'.free_pages = source.free_pages + 1
                \/ /\ ~ SourceIsLow /\ source' = source
                   /\ feeder'.free_pages = feeder.free_pages + 1
                   /\ feeder'.total_pages = feeder.total_pages
  <2>1. Cardinality(held') = Cardinality(held) - 1
    BY <1>2, <1>7, FS_RemoveElement DEF feeder_physmem_page_free
  <2>2. Cardinality(held) # 0
    BY <1>2, FS_EmptySet
  <2>3. \/ /\ SourceIsLow /\ feeder' = feeder
           /\ source'.free_pages = source.free_pages + 1
        \/ /\ ~ SourceIsLow /\ source' = source
           /\ feeder'.free_pages = feeder.free_pages + 1
           /\ feeder'.total_pages = feeder.total_pages
    BY <1>2, <1>7 DEF feeder_physmem_page_free, FreeToSource, FreeToFeeder,
       common_physmem_page_free, list_insert_head, PoolType
  <2>4. QED BY <1>2, <2>1, <2>2, <2>3
<1>8. QED BY <1>4, <1>5, <1>6, <1>7

LEMMA NextCounters == IInv /\ [Next]_vars => Counters'
<1> SUFFICES ASSUME IInv, [Next]_vars PROVE Counters'
  OBVIOUS
<1>1. /\ TypeOK /\ Counters
  BY DEF IInv, Lists
<1>2. /\ source.free_pages \in Nat /\ feeder.free_pages \in Nat
      /\ feeder.total_pages \in Nat /\ xfer_pages \in Nat
      /\ Counted \in Nat
      /\ pages_to_keep \in Nat /\ min_free_source_pages \in Nat
      /\ Cardinality(held) \in Nat
  BY <1>1, CounterTypes, HeldFinite
<1> USE DEF Counters, CountersConserved, TotalIsRefills, InsideAlloc,
            FeederStatsConsistent, FeederReplenished, SourceSpares
<1>3. CASE AllocStocked
  BY <1>1, <1>2, <1>3 DEF AllocStocked
<1>4. CASE AllocLow
  BY <1>1, <1>2, <1>4 DEF AllocLow
<1>5. CASE RefillStep
  <2>1. /\ source'.free_pages = source.free_pages - 1
        /\ feeder'.free_pages = feeder.free_pages + 1
        /\ feeder'.total_pages = feeder.total_pages + 1
    BY <1>5, CounterSteps
  <2>2. /\ call = "refill" /\ xfer_pages # 0
        /\ source.free_pages > min_free_source_pages
        /\ xfer_pages' = xfer_pages - 1 /\ held' = held /\ call' = call
    BY <1>5 DEF RefillStep
  <2>3. QED BY <1>1, <1>2, <2>1, <2>2
<1>6. CASE RefillEnd
  BY <1>1, <1>2, <1>6 DEF RefillEnd
<1>7. CASE TakeFromFeeder
  <2>1. /\ feeder'.free_pages = feeder.free_pages - 1
        /\ feeder'.total_pages = feeder.total_pages
        /\ Cardinality(held') = Cardinality(held) + 1
    BY <1>7, CounterSteps
  <2>2. call = "take" /\ call' = "idle" /\ source' = source
    BY <1>7 DEF TakeFromFeeder, Return
  <2>3. QED BY <1>1, <1>2, <2>1, <2>2
<1>8. CASE TakeFromSource
  <2>1. /\ source'.free_pages = source.free_pages - 1
        /\ Cardinality(held') = Cardinality(held) + 1
    BY <1>8, CounterSteps
  <2>2. /\ call = "take" /\ call' = "idle" /\ feeder' = feeder
        /\ feeder.free_pages <= 0 /\ source.free_pages > 0
    BY <1>8 DEF TakeFromSource, Return
  <2>3. source.free_pages <= min_free_source_pages
    BY <1>1, <1>2, <2>2
  <2>4. QED BY <1>1, <1>2, <2>1, <2>2, <2>3
<1>9. CASE OutOfMemory
  BY <1>1, <1>2, <1>9 DEF OutOfMemory, Return
<1>10. ASSUME NEW addr \in held, feeder_physmem_page_free(addr) PROVE Counters'
  <2>1. /\ Cardinality(held') = Cardinality(held) - 1
        /\ Cardinality(held) >= 1
        /\ \/ /\ SourceIsLow /\ feeder' = feeder
              /\ source'.free_pages = source.free_pages + 1
           \/ /\ ~ SourceIsLow /\ source' = source
              /\ feeder'.free_pages = feeder.free_pages + 1
              /\ feeder'.total_pages = feeder.total_pages
    BY <1>10, CounterSteps
  <2>2. call = "idle" /\ call' = call
    BY <1>10 DEF feeder_physmem_page_free
  <2>3. QED BY <1>1, <1>2, <2>1, <2>2 DEF SourceIsLow
<1>11. CASE UNCHANGED vars
  BY <1>1, <1>11 DEF vars
<1>12. QED
  BY <1>3, <1>4, <1>5, <1>6, <1>7, <1>8, <1>9, <1>10, <1>11
     DEF Next, feeder_physmem_page_alloc

\* The invariant holds of every behaviour of the two pools.
THEOREM Invariant == Spec => []IInv
<1>1. IInv /\ [Next]_vars => IInv'
  BY NextLists, NextCounters DEF IInv
<1>2. QED BY InitIInv, <1>1, PTL DEF Spec

\* No counter of the two pools ever drops below zero, whatever the number of
\* pages and the thresholds: common_physmem_page_alloc's check precedes every
\* decrement.
THEOREM TypeCorrect == Spec => []TypeOK
<1>1. IInv => TypeOK
  BY DEF IInv, Lists
<1>2. QED BY Invariant, <1>1, PTL

\* Moving pages between the pools and the clients neither loses nor
\* duplicates a page.
THEOREM Conservation == Spec => []PagesConserved
<1>1. IInv => PagesConserved
  BY DEF IInv, Lists
<1>2. QED BY Invariant, <1>1, PTL

\* free_pages describes the list; common_physmem_page_alloc's assertion that
\* the list is not empty cannot fail.
THEOREM CountersDescribeLists == Spec => []CountersAgree
<1>1. IInv => CountersAgree
  BY DEF IInv, Lists
<1>2. QED BY Invariant, <1>1, PTL

\* feeder_physmem_stats_get never reports more free pages than pages.
THEOREM StatsConsistent == Spec => []FeederStatsConsistent
<1>1. IInv => FeederStatsConsistent
  BY DEF IInv, Counters
<1>2. QED BY Invariant, <1>1, PTL

\* The feeder stays replenished as long as the source has pages to spare.
THEOREM Replenished == Spec => []FeederReplenished
<1>1. IInv => FeederReplenished
  BY DEF IInv, Counters
<1>2. QED BY Invariant, <1>1, PTL

\* The source's reserve is touched only when the feeder is empty.
THEOREM LastResort == Spec => ReserveIsLastResort
<1> DEFINE Reserved == (source'.free_pages < source.free_pages
                          /\ source'.free_pages < min_free_source_pages)
                         => feeder.free_pages = 0
<1>1. IInv /\ [Next]_vars => [Reserved]_vars
  <2> SUFFICES ASSUME IInv, [Next]_vars, ~ UNCHANGED vars PROVE Reserved
    OBVIOUS
  <2>1. /\ source.free_pages \in Nat /\ feeder.free_pages \in Nat
        /\ min_free_source_pages \in Nat
    BY CounterTypes DEF IInv, Lists
  <2>2. CASE RefillStep
    BY <2>1, <2>2, CounterSteps DEF RefillStep, SourceSpares
  <2>3. CASE TakeFromSource
    BY <2>1, <2>3 DEF TakeFromSource
  <2>4. CASE AllocStocked \/ AllocLow \/ RefillEnd \/ TakeFromFeeder \/ OutOfMemory
    BY <2>1, <2>4 DEF AllocStocked, AllocLow, RefillEnd, TakeFromFeeder, OutOfMemory
  <2>5. ASSUME NEW addr \in held, feeder_physmem_page_free(addr) PROVE Reserved
    BY <2>1, <2>5, CounterSteps
  <2>6. QED BY <2>2, <2>3, <2>4, <2>5 DEF Next, feeder_physmem_page_alloc
<1>2. QED BY Invariant, <1>1, PTL DEF Spec, ReserveIsLastResort

-----------------------------------------------------------------------------
\* The two pools implement one page allocator.

\* PageAllocator counts with the same Cardinality.
LEMMA SameCardinality == \A S : Promise!Cardinality(S) = Cardinality(S)
BY DEF Promise!Cardinality, Cardinality

LEMMA FreeCardinality ==
  ASSUME IInv
  PROVE  /\ OnList(source) \cup OnList(feeder) = Addresses \ held
         /\ Cardinality(OnList(source) \cup OnList(feeder))
              = source.free_pages + feeder.free_pages + Uncounted
<1>1. OnList(source) \cup OnList(feeder) = Addresses \ held
  BY DEF IInv, Lists, TypeOK, PagesConserved
<1>2. TypeOK /\ CountersConserved
  BY DEF IInv, Lists, Counters
<1>3. held \cap Addresses = held
  BY <1>2 DEF TypeOK
<1>4. Cardinality(Addresses \ held) = NPages - Cardinality(held)
  BY <1>3, AddressesFinite, FS_Difference
<1>5. /\ NPages \in Nat /\ Uncounted \in Nat /\ Cardinality(held) \in Nat
      /\ source.free_pages \in Nat /\ feeder.free_pages \in Nat
  BY <1>2, CounterTypes, HeldFinite, PoolAssumption
<1>6. source.free_pages + feeder.free_pages + Cardinality(held) = NPages - Uncounted
  BY <1>2 DEF CountersConserved, Counted
<1>7. NPages - Cardinality(held) = source.free_pages + feeder.free_pages + Uncounted
  BY <1>5, <1>6
<1>8. QED BY <1>1, <1>4, <1>7

LEMMA StepImplements == IInv /\ [Next]_vars => [Promise!Next]_(Promise!vars)
<1> SUFFICES ASSUME IInv, [Next]_vars PROVE [Promise!Next]_(Promise!vars)
  OBVIOUS
<1> DEFINE avail == OnList(source) \cup OnList(feeder)
<1>1. Lists /\ TypeOK /\ PagesConserved
  BY DEF IInv, Lists
<1>2. /\ source \in PoolType /\ feeder \in PoolType /\ held \subseteq Addresses
  BY <1>1 DEF TypeOK
<1>3. /\ IsInjective(source.freelist) /\ IsInjective(feeder.freelist)
      /\ OnList(source) \cap OnList(feeder) = {}
      /\ avail \cap held = {}
      /\ avail \cup held = Addresses
  BY <1>1 DEF PagesConserved
<1>4. /\ source.free_pages \in Nat /\ feeder.free_pages \in Nat
      /\ Uncounted \in Nat /\ min_free_source_pages \in Nat
  BY <1>1, CounterTypes
<1>5. Cardinality(avail) = source.free_pages + feeder.free_pages + Uncounted
  BY FreeCardinality
<1>6. ASSUME NEW a \in avail, ~ (Cardinality(avail) <= Uncounted),
             avail' = avail \ {a}, held' = held \cup {a}, err' = "PHYSMEM_SUCCESS"
      PROVE  Promise!Next
  <2>1. a \in Addresses BY <1>3
  <2>2. Promise!Alloc(a) BY <1>6, SameCardinality DEF Promise!Alloc, Promise!Exhausted
  <2>3. QED BY <2>1, <2>2 DEF Promise!Next
<1>7. ASSUME UNCHANGED <<avail, held, err>> PROVE UNCHANGED Promise!vars
  BY <1>7 DEF Promise!vars
<1>8. CASE AllocStocked \/ AllocLow \/ RefillEnd \/ UNCHANGED vars
  BY <1>7, <1>8 DEF AllocStocked, AllocLow, RefillEnd, vars, OnList
<1>9. CASE RefillStep
  <2> DEFINE a == allocated_address(source)
  <2>1. source.free_pages > 0
    BY <1>4, <1>9 DEF RefillStep, SourceSpares
  <2>2. /\ a \in Addresses /\ a \in OnList(source)
        /\ OnList(source') = OnList(source) \ {a}
    BY <1>1, <1>2, <1>3, <1>9, <2>1, ListNotEmpty, PoolAlloc DEF RefillStep
  <2>3. OnList(feeder') = OnList(feeder) \cup {a}
    BY <1>2, <1>3, <1>9, <2>2, PoolRefill DEF RefillStep
  <2>4. avail' = OnList(source') \cup OnList(feeder')
    BY DEF OnList
  <2>5. held' = held /\ err' = err
    BY <1>9 DEF RefillStep
  <2>6. QED BY <1>7, <2>2, <2>3, <2>4, <2>5
<1>10. CASE TakeFromFeeder
  <2> DEFINE a == allocated_address(feeder)
  <2>1. /\ a \in OnList(feeder)
        /\ OnList(feeder') = OnList(feeder) \ {a}
    BY <1>1, <1>2, <1>3, <1>10, ListNotEmpty, PoolAlloc DEF TakeFromFeeder
  <2>2. avail' = OnList(source) \cup OnList(feeder')
    BY <1>10 DEF OnList, TakeFromFeeder
  <2>3. held' = held \cup {a} /\ err' = "PHYSMEM_SUCCESS" /\ feeder.free_pages > 0
    BY <1>10 DEF TakeFromFeeder, Return
  <2>4. avail' = avail \ {a}
    BY <1>3, <2>1, <2>2
  <2>5. ~ (Cardinality(avail) <= Uncounted)
    BY <1>4, <1>5, <2>3
  <2>6. QED BY <1>6, <2>1, <2>3, <2>4, <2>5
<1>11. CASE TakeFromSource
  <2> DEFINE a == allocated_address(source)
  <2>1. /\ a \in OnList(source)
        /\ OnList(source') = OnList(source) \ {a}
    BY <1>1, <1>2, <1>3, <1>11, ListNotEmpty, PoolAlloc DEF TakeFromSource
  <2>2. avail' = OnList(source') \cup OnList(feeder)
    BY <1>11 DEF OnList, TakeFromSource
  <2>3. held' = held \cup {a} /\ err' = "PHYSMEM_SUCCESS" /\ source.free_pages > 0
    BY <1>11 DEF TakeFromSource, Return
  <2>4. avail' = avail \ {a}
    BY <1>3, <2>1, <2>2
  <2>5. ~ (Cardinality(avail) <= Uncounted)
    BY <1>4, <1>5, <2>3
  <2>6. QED BY <1>6, <2>1, <2>3, <2>4, <2>5
<1>12. CASE OutOfMemory
  <2>1. /\ source' = source /\ feeder' = feeder /\ held' = held
        /\ err' = "PHYSMEM_ERR_OOM"
        /\ feeder.free_pages <= 0 /\ source.free_pages <= 0
    BY <1>12 DEF OutOfMemory, Return
  <2>2. Cardinality(avail) <= Uncounted
    BY <1>4, <1>5, <2>1
  <2>3. avail' = avail
    BY <2>1 DEF OnList
  <2>4. QED BY <2>1, <2>2, <2>3, SameCardinality
            DEF Promise!Next, Promise!AllocFails, Promise!Exhausted
<1>13. ASSUME NEW addr \in held, feeder_physmem_page_free(addr) PROVE Promise!Next
  <2>1. addr \in Addresses /\ addr \notin OnList(source) /\ addr \notin OnList(feeder)
    BY <1>2, <1>3
  <2>2. held' = held \ {addr} /\ err' = "PHYSMEM_SUCCESS"
    BY <1>13 DEF feeder_physmem_page_free
  <2>3. avail' = avail \cup {addr}
    <3>1. CASE FreeToSource(addr)
      <4>1. OnList(source') = OnList(source) \cup {addr} /\ feeder' = feeder
        BY <1>2, <1>3, <2>1, <3>1, PoolInsert
           DEF FreeToSource, common_physmem_page_free
      <4>2. avail' = OnList(source') \cup OnList(feeder)
        BY <4>1 DEF OnList
      <4>3. QED BY <4>1, <4>2
    <3>2. CASE FreeToFeeder(addr)
      <4>1. OnList(feeder') = OnList(feeder) \cup {addr} /\ source' = source
        BY <1>2, <1>3, <2>1, <3>2, PoolInsert
           DEF FreeToFeeder, common_physmem_page_free
      <4>2. avail' = OnList(source) \cup OnList(feeder')
        BY <4>1 DEF OnList
      <4>3. QED BY <4>1, <4>2
    <3>3. QED BY <1>13, <3>1, <3>2 DEF feeder_physmem_page_free
  <2>4. Promise!Free(addr)
    BY <2>2, <2>3 DEF Promise!Free
  <2>5. QED BY <2>1, <2>4 DEF Promise!Next
<1>14. QED
  BY <1>8, <1>9, <1>10, <1>11, <1>12, <1>13 DEF Next, feeder_physmem_page_alloc

\* The source pool and the feeder in front of it implement PageAllocator: no
\* address is ever given to two clients, and physmem_page_alloc on the feeder
\* reports PHYSMEM_ERR_OOM only when neither pool counts a free page.
THEOREM Implementation == Spec => ImplementsPageAllocator
<1>1. Init => Promise!Init
  <2> SUFFICES ASSUME Init PROVE Promise!Init
    OBVIOUS
  <2>1. held = {} /\ err = "none"
    BY DEF Init
  <2>2. OnList(source) \cup OnList(feeder) = Addresses
    BY <2>1, InitIInv, FreeCardinality
  <2>3. QED BY <2>1, <2>2 DEF Promise!Init
<1>2. QED BY <1>1, Invariant, StepImplements, PTL
          DEF Spec, ImplementsPageAllocator, Promise!Spec
=============================================================================
