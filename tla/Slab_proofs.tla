---------------------------- MODULE Slab_proofs ----------------------------
(***************************************************************************)
(* Proofs about the slab cache, for any finite set of pages and any number *)
(* of objects per slab, and about the layout of a slab of any size.        *)
(***************************************************************************)
EXTENDS Slab, SlabLayout, ListLemmas, FiniteSetTheorems, SequenceTheorems, TLAPS

Slot == 0 .. num_total - 1

\* ObjectsConserved with the state it speaks of as parameters: O is the set
\* of slabs, ff the cursors, fl the freelists, h the objects clients hold.
SlotsOf(O, ff) == {slot \in O \X Slot : slot[2] >= ff[slot[1]]}

Conserved(O, ff, fl, h) ==
  /\ \A a, b \in SlotsOf(O, ff) : fl[a[1]][a[2]] = fl[b[1]][b[2]] => a = b
  /\ \A a \in SlotsOf(O, ff) : fl[a[1]][a[2]] \in (O \X Slot) \ h
  /\ h \subseteq O \X Slot
  /\ \A obj \in (O \X Slot) \ h : \E a \in SlotsOf(O, ff) : fl[a[1]][a[2]] = obj

LEMMA ConservedIsObjectsConserved ==
  ObjectsConserved <=> Conserved(Owned, first_free, freelist, held)
BY DEF ObjectsConserved, Conserved, SlotsOf, Slot, Disjoint, FreeObjects,
       FreeSlots, Entry, Stock

CursorType == [Slabs -> 0 .. num_total]
ListType == [Slabs -> [0 .. num_total -> Objects \cup {NULL}]]

\* Taking the object under the cursor of s.
LEMMA TakeConserves ==
  ASSUME NEW O \in SUBSET Slabs, NEW ff \in CursorType, NEW fl \in ListType, NEW h,
         NEW s \in O, ff[s] < num_total, Conserved(O, ff, fl, h)
  PROVE  /\ fl[s][ff[s]] \in (O \X Slot) \ h
         /\ Conserved(O, [ff EXCEPT ![s] = ff[s] + 1], fl, h \cup {fl[s][ff[s]]})
<1> DEFINE gg == [ff EXCEPT ![s] = ff[s] + 1]
           top == <<s, ff[s]>>
           obj == fl[s][ff[s]]
<1>1. num_total \in Nat \ {0} /\ ff[s] \in Slot /\ \A t \in O : ff[t] \in 0 .. num_total
  BY SlabAssumption DEF CursorType, Slot
<1>2. top \in SlotsOf(O, ff)
  BY <1>1 DEF SlotsOf
<1>3. SlotsOf(O, gg) = SlotsOf(O, ff) \ {top}
  <2>1. \A t \in O : gg[t] = IF t = s THEN ff[s] + 1 ELSE ff[t]
    BY DEF CursorType
  <2>2. ASSUME NEW t \in O, NEW k \in Slot
        PROVE  (k >= gg[t]) <=> (k >= ff[t] /\ <<t, k>> # top)
    BY <1>1, <2>1 DEF Slot
  <2>3. QED BY <2>2 DEF SlotsOf
<1>4. obj \in (O \X Slot) \ h
  BY <1>2 DEF Conserved
<1>5. \A a \in SlotsOf(O, gg) : fl[a[1]][a[2]] # obj
  <2>1. ASSUME NEW a \in SlotsOf(O, gg), fl[a[1]][a[2]] = obj PROVE FALSE
    <3>1. a \in SlotsOf(O, ff) /\ a # top BY <1>3
    <3>2. fl[a[1]][a[2]] = fl[top[1]][top[2]] BY <2>1
    <3>3. QED BY <1>2, <3>1, <3>2 DEF Conserved
  <2>2. QED BY <2>1
<1>6. ASSUME NEW o \in (O \X Slot) \ (h \cup {obj})
      PROVE  \E a \in SlotsOf(O, gg) : fl[a[1]][a[2]] = o
  <2>1. PICK a \in SlotsOf(O, ff) : fl[a[1]][a[2]] = o
    BY DEF Conserved
  <2>2. a # top BY <2>1
  <2>3. QED BY <1>3, <2>1, <2>2
<1>7. Conserved(O, gg, fl, h \cup {obj})
  <2>1. \A a, b \in SlotsOf(O, gg) : fl[a[1]][a[2]] = fl[b[1]][b[2]] => a = b
    BY <1>3 DEF Conserved
  <2>2. \A a \in SlotsOf(O, gg) : fl[a[1]][a[2]] \in (O \X Slot) \ (h \cup {obj})
    BY <1>3, <1>5 DEF Conserved
  <2>3. h \cup {obj} \subseteq O \X Slot
    BY <1>4 DEF Conserved
  <2>4. QED BY <1>6, <2>1, <2>2, <2>3 DEF Conserved
<1>8. QED BY <1>4, <1>7

\* Putting an object a client holds into the slot before the cursor of s.
LEMMA PutConserves ==
  ASSUME NEW O \in SUBSET Slabs, NEW ff \in CursorType, NEW fl \in ListType, NEW h,
         NEW s \in O, ff[s] > 0, NEW obj \in h, Conserved(O, ff, fl, h)
  PROVE  Conserved(O, [ff EXCEPT ![s] = ff[s] - 1],
                   [fl EXCEPT ![s][ff[s] - 1] = obj], h \ {obj})
<1> DEFINE gg == [ff EXCEPT ![s] = ff[s] - 1]
           top == <<s, ff[s] - 1>>
           gl == [fl EXCEPT ![s][ff[s] - 1] = obj]
<1>1. num_total \in Nat \ {0} /\ ff[s] - 1 \in Slot /\ \A t \in O : ff[t] \in 0 .. num_total
  BY SlabAssumption DEF CursorType, Slot
<1>2. top \notin SlotsOf(O, ff)
  BY <1>1 DEF SlotsOf
<1>3. SlotsOf(O, gg) = SlotsOf(O, ff) \cup {top}
  <2>1. \A t \in O : gg[t] = IF t = s THEN ff[s] - 1 ELSE ff[t]
    BY DEF CursorType
  <2>2. ASSUME NEW t \in O, NEW k \in Slot
        PROVE  (k >= gg[t]) <=> (k >= ff[t] \/ <<t, k>> = top)
    BY <1>1, <2>1 DEF Slot
  <2>3. top \in O \X Slot BY <1>1
  <2>4. QED BY <2>2, <2>3 DEF SlotsOf
<1>4. \A t \in O, k \in Slot :
        gl[t][k] = IF <<t, k>> = top THEN obj ELSE fl[t][k]
  BY <1>1 DEF ListType, Slot
<1>5. /\ gl[top[1]][top[2]] = obj
      /\ \A a \in SlotsOf(O, ff) : gl[a[1]][a[2]] = fl[a[1]][a[2]]
  BY <1>1, <1>2, <1>4 DEF SlotsOf
<1>6. \A a \in SlotsOf(O, ff) : gl[a[1]][a[2]] # obj
  BY <1>5 DEF Conserved
<1>7. obj \in O \X Slot
  BY DEF Conserved
<1> HIDE DEF gl, gg, top
<1>8. \A a, b \in SlotsOf(O, gg) : gl[a[1]][a[2]] = gl[b[1]][b[2]] => a = b
  BY <1>3, <1>5, <1>6 DEF Conserved
<1>9. \A a \in SlotsOf(O, gg) : gl[a[1]][a[2]] \in (O \X Slot) \ (h \ {obj})
  BY <1>3, <1>5, <1>7 DEF Conserved
<1>10. ASSUME NEW o \in (O \X Slot) \ (h \ {obj})
       PROVE  \E a \in SlotsOf(O, gg) : gl[a[1]][a[2]] = o
  <2>1. CASE o = obj BY <1>3, <1>5, <2>1
  <2>2. CASE o # obj
    <3>1. PICK a \in SlotsOf(O, ff) : fl[a[1]][a[2]] = o
      BY <2>2 DEF Conserved
    <3>2. QED BY <1>3, <1>5, <3>1
  <2>3. QED BY <2>1, <2>2
<1>11. h \ {obj} \subseteq O \X Slot BY DEF Conserved
<1>12. Conserved(O, gg, gl, h \ {obj})
  BY <1>8, <1>9, <1>10, <1>11 DEF Conserved
<1>13. QED BY <1>12 DEF gg, gl

\* A fresh slab brings its own objects, all free.
LEMMA NewConserves ==
  ASSUME NEW O \in SUBSET Slabs, NEW ff \in CursorType, NEW fl \in ListType, NEW h,
         NEW s \in Slabs \ O, ff[s] = 0, Conserved(O, ff, fl, h)
  PROVE  Conserved(O \cup {s}, ff, [fl EXCEPT ![s] = kmem_initialize_slab(s)], h)
<1> DEFINE gl == [fl EXCEPT ![s] = kmem_initialize_slab(s)]
           P == O \cup {s}
<1>1. num_total \in Nat \ {0}
  BY SlabAssumption
<1>2. SlotsOf(P, ff) = SlotsOf(O, ff) \cup ({s} \X Slot)
  BY <1>1 DEF SlotsOf, Slot
<1>3. \A a \in {s} \X Slot : gl[a[1]][a[2]] = a
  <2>1. ASSUME NEW k \in Slot PROVE gl[s][k] = <<s, k>>
    BY <1>1 DEF ListType, kmem_initialize_slab, Slot
  <2>2. QED BY <2>1
<1>4. \A a \in SlotsOf(O, ff) : gl[a[1]][a[2]] = fl[a[1]][a[2]]
  BY DEF ListType, SlotsOf
<1>5. /\ P \X Slot = (O \X Slot) \cup ({s} \X Slot)
      /\ (O \X Slot) \cap ({s} \X Slot) = {}
  OBVIOUS
<1> HIDE DEF gl, P
<1>6. \A a, b \in SlotsOf(P, ff) : gl[a[1]][a[2]] = gl[b[1]][b[2]] => a = b
  BY <1>2, <1>3, <1>4, <1>5 DEF Conserved
<1>7. \A a \in SlotsOf(P, ff) : gl[a[1]][a[2]] \in (P \X Slot) \ h
  BY <1>2, <1>3, <1>4, <1>5 DEF Conserved
<1>8. ASSUME NEW o \in (P \X Slot) \ h
      PROVE  \E a \in SlotsOf(P, ff) : gl[a[1]][a[2]] = o
  <2>1. CASE o \in {s} \X Slot BY <1>2, <1>3, <2>1
  <2>2. CASE o \in O \X Slot
    <3>1. PICK a \in SlotsOf(O, ff) : fl[a[1]][a[2]] = o
      BY <2>2 DEF Conserved
    <3>2. QED BY <1>2, <1>4, <3>1
  <2>3. QED BY <1>5, <2>1, <2>2
<1>9. h \subseteq P \X Slot BY <1>5 DEF Conserved
<1>10. Conserved(P, ff, gl, h)
  BY <1>6, <1>7, <1>8, <1>9 DEF Conserved
<1>11. QED BY <1>10 DEF P, gl

-----------------------------------------------------------------------------
(***************************************************************************)
(* The inductive invariant adds to the checked invariants that every       *)
(* freelist still ends in NULL, so that the test for the last object is    *)
(* exact, and that the cursor of a page not yet used is at the start.      *)
(***************************************************************************)

Terminated == \A s \in Owned : freelist[s][num_total] = NULL

FreshCursors == \A s \in vaddrs : first_free[s] = 0

IInv == /\ TypeOK /\ SlabsOnTheRightList /\ ObjectsConserved /\ UsedIsHeld
        /\ Terminated /\ FreshCursors

LEMMA ListElements == ASSUME NEW l \in Seq(Slabs) PROVE Range(l) \in SUBSET Slabs
BY LenProperties DEF Range

LEMMA EmptyList == /\ << >> \in Seq(Slabs) /\ IsInjective(<< >>) /\ Range(<< >>) = {}
BY DEF IsInjective, Range

LEMMA InitIInv == Init => IInv
<1> SUFFICES ASSUME Init PROVE IInv
  OBVIOUS
<1>1. num_total \in Nat \ {0} BY SlabAssumption
<1>2. Owned = {} BY EmptyList DEF Init, Owned
<1>3. TypeOK
  <2>1. first_free \in [Slabs -> 0 .. num_total] BY <1>1 DEF Init
  <2>2. freelist \in [Slabs -> [0 .. num_total -> Objects \cup {NULL}]] BY DEF Init
  <2>3. QED BY <2>1, <2>2, EmptyList DEF Init, TypeOK
<1>4. SlabsOnTheRightList
  BY <1>2, EmptyList DEF Init, SlabsOnTheRightList, Disjoint
<1>5. FreeSlots = {} /\ Stock = {} BY <1>2 DEF FreeSlots, Stock
<1>6. ObjectsConserved
  BY <1>5 DEF ObjectsConserved, Disjoint, FreeObjects, Init
<1>7. UsedIsHeld BY FS_EmptySet DEF UsedIsHeld, Init
<1>8. Terminated /\ FreshCursors BY <1>2 DEF Terminated, FreshCursors, Init
<1>9. QED BY <1>3, <1>4, <1>6, <1>7, <1>8 DEF IInv

LEMMA HeldFinite == ASSUME TypeOK PROVE IsFiniteSet(held) /\ Cardinality(held) \in Nat
<1>1. IsFiniteSet(0 .. num_total - 1)
  BY FS_Interval, SlabAssumption
<1>2. IsFiniteSet(Objects)
  BY <1>1, FS_Product, SlabAssumption DEF Objects
<1>3. QED BY <1>2, FS_Subset, FS_CardinalityType DEF TypeOK

\* The test *first_free == NULL is exact: true just after the last object.
LEMMA LastObjectTest ==
  ASSUME NEW O \in SUBSET Slabs, NEW ff \in CursorType, NEW fl \in ListType, NEW h,
         Conserved(O, ff, fl, h), NEW s \in O, ff[s] < num_total,
         fl[s][num_total] = NULL
  PROVE  fl[s][ff[s] + 1] = NULL <=> ff[s] + 1 = num_total
<1>1. num_total \in Nat \ {0} /\ ff[s] \in 0 .. num_total
  BY SlabAssumption DEF CursorType
<1>2. CASE ff[s] + 1 = num_total BY <1>2
<1>3. CASE ff[s] + 1 # num_total
  <2>1. ff[s] + 1 \in Slot BY <1>1, <1>3 DEF Slot
  <2>2. <<s, ff[s] + 1>> \in SlotsOf(O, ff) BY <1>1, <2>1 DEF SlotsOf
  <2>3. fl[s][ff[s] + 1] \in O \X Slot BY <2>2 DEF Conserved
  <2>4. fl[s][ff[s] + 1] \in Objects BY <2>3 DEF Objects, Slot
  <2>5. QED BY <1>3, <2>4, SlabAssumption
<1>4. QED BY <1>2, <1>3

\* When TakeObject is called: s has just been made the head of slabs_partial
\* and O is the set of slabs the cache owns, s included.
TakeReady(s, others, list, O) ==
  /\ TypeOK /\ UsedIsHeld
  /\ s \in Slabs /\ others \in Seq(Slabs) /\ list \in ListType
  /\ IsInjective(others) /\ IsInjective(slabs_full)
  /\ s \notin Range(others) /\ s \notin Range(slabs_full)
  /\ \A t \in Range(others) : first_free[t] \in 1 .. num_total - 1
  /\ \A t \in Range(slabs_full) : first_free[t] = num_total
  /\ first_free[s] < num_total
  /\ O \in SUBSET Slabs /\ s \in O
  /\ Conserved(O, first_free, list, held)
  /\ \A t \in O : list[t][num_total] = NULL

\* What it has done when it ends.
TakeDone(s, others, list, O) ==
  /\ slabs_partial' \in Seq(Slabs) /\ slabs_full' \in Seq(Slabs)
  /\ IsInjective(slabs_partial') /\ IsInjective(slabs_full')
  /\ Range(slabs_partial') \cup Range(slabs_full')
       = Range(others) \cup Range(slabs_full) \cup {s}
  /\ \A t \in Range(slabs_partial') : first_free'[t] \in 1 .. num_total - 1
  /\ \A t \in Range(slabs_full') : first_free'[t] = num_total
  /\ first_free' \in CursorType
  /\ \A t \in Slabs \ {s} : first_free'[t] = first_free[t]
  /\ freelist' = list
  /\ Conserved(O, first_free', freelist', held')
  /\ result' \in (O \X Slot) \ held
  /\ held' = held \cup {result'}
  /\ held' \subseteq Objects
  /\ used' \in Nat /\ used' = Cardinality(held')

LEMMA TakeStep ==
  ASSUME NEW s, NEW others, NEW list, NEW O,
         TakeReady(s, others, list, O), TakeObject(s, others, list)
  PROVE  TakeDone(s, others, list, O)
<1> USE DEF TakeReady
<1> DEFINE obj == list[s][first_free[s]]
<1>1. num_total \in Nat \ {0} /\ first_free \in CursorType
      /\ first_free[s] \in 0 .. num_total - 1
  BY SlabAssumption DEF TypeOK, CursorType
<1>2. /\ freelist' = list /\ result' = obj /\ held' = held \cup {obj}
      /\ first_free' = [first_free EXCEPT ![s] = first_free[s] + 1]
      /\ used' = used + 1
      /\ list[s][first_free[s] + 1] = NULL =>
           slabs_partial' = others /\ slabs_full' = <<s>> \o slabs_full
      /\ list[s][first_free[s] + 1] # NULL =>
           slabs_partial' = <<s>> \o others /\ slabs_full' = slabs_full
  <2>1. /\ freelist' = list /\ result' = obj /\ held' = held \cup {obj}
        /\ used' = used + 1
    BY DEF TakeObject
  <2>2. first_free' = [first_free EXCEPT ![s] = first_free[s] + 1]
    BY DEF TakeObject
  <2>3. ASSUME list[s][first_free[s] + 1] = NULL
        PROVE  slabs_partial' = others /\ slabs_full' = <<s>> \o slabs_full
    BY <2>3 DEF TakeObject
  <2>4. ASSUME list[s][first_free[s] + 1] # NULL
        PROVE  slabs_partial' = <<s>> \o others /\ slabs_full' = slabs_full
    BY <2>4 DEF TakeObject
  <2>5. QED BY <2>1, <2>2, <2>3, <2>4
<1>3. /\ obj \in (O \X Slot) \ held
      /\ Conserved(O, first_free', list, held \cup {obj})
  <2>1. first_free \in CursorType BY <1>1
  <2>2. /\ list[s][first_free[s]] \in (O \X Slot) \ held
        /\ Conserved(O, [first_free EXCEPT ![s] = first_free[s] + 1], list,
                     held \cup {list[s][first_free[s]]})
    BY <2>1, TakeConserves
  <2>3. first_free' = [first_free EXCEPT ![s] = first_free[s] + 1] BY <1>2
  <2>4. QED BY <2>2, <2>3
<1>4. list[s][first_free[s] + 1] = NULL <=> first_free[s] + 1 = num_total
  BY <1>1, LastObjectTest
<1> HIDE DEF obj
<1>5. /\ first_free' \in CursorType /\ first_free'[s] = first_free[s] + 1
      /\ \A t \in Slabs \ {s} : first_free'[t] = first_free[t]
  BY <1>1, <1>2 DEF CursorType
<1>6. slabs_full \in Seq(Slabs) BY DEF TypeOK
<1>7. Range(others) \in SUBSET Slabs /\ Range(slabs_full) \in SUBSET Slabs
  BY <1>6, ListElements
<1>8. /\ slabs_partial' \in Seq(Slabs) /\ slabs_full' \in Seq(Slabs)
      /\ IsInjective(slabs_partial') /\ IsInjective(slabs_full')
      /\ Range(slabs_partial') \cup Range(slabs_full')
           = Range(others) \cup Range(slabs_full) \cup {s}
      /\ \A t \in Range(slabs_partial') : first_free'[t] \in 1 .. num_total - 1
      /\ \A t \in Range(slabs_full') : first_free'[t] = num_total
  <2>1. CASE first_free[s] + 1 = num_total
    <3>1. slabs_partial' = others /\ slabs_full' = <<s>> \o slabs_full
      BY <1>2, <1>4, <2>1
    <3>2. /\ slabs_full' \in Seq(Slabs) /\ IsInjective(slabs_full')
          /\ Range(slabs_full') = Range(slabs_full) \cup {s}
      BY <1>6, <3>1, PrependInjective
    <3>3. QED BY <1>5, <1>7, <2>1, <3>1, <3>2
  <2>2. CASE first_free[s] + 1 # num_total
    <3>1. slabs_partial' = <<s>> \o others /\ slabs_full' = slabs_full
      BY <1>2, <1>4, <2>2
    <3>2. /\ slabs_partial' \in Seq(Slabs) /\ IsInjective(slabs_partial')
          /\ Range(slabs_partial') = Range(others) \cup {s}
      BY <3>1, PrependInjective
    <3>3. first_free[s] + 1 \in 1 .. num_total - 1 BY <1>1, <2>2
    <3>4. QED BY <1>5, <1>6, <1>7, <3>1, <3>2, <3>3
  <2>3. QED BY <2>1, <2>2
<1>9. O \X Slot \subseteq Objects BY DEF Objects, Slot
<1>10. held' \subseteq Objects BY <1>2, <1>3, <1>9 DEF TypeOK
<1>11. used' \in Nat /\ used' = Cardinality(held')
  <2>1. Cardinality(held \cup {obj}) = Cardinality(held) + 1
    BY <1>3, HeldFinite, FS_AddElement
  <2>2. QED BY <1>2, <2>1, HeldFinite DEF UsedIsHeld
<1>12. QED BY <1>2, <1>3, <1>5, <1>8, <1>10, <1>11 DEF TakeDone

\* The same for PutObject.
PutReady(obj, s, others, O) ==
  /\ TypeOK /\ UsedIsHeld
  /\ s \in Slabs /\ others \in Seq(Slabs) /\ obj \in held
  /\ IsInjective(others) /\ IsInjective(slabs_empty)
  /\ s \notin Range(others) /\ s \notin Range(slabs_empty)
  /\ \A t \in Range(others) : first_free[t] \in 1 .. num_total - 1
  /\ \A t \in Range(slabs_empty) : first_free[t] = 0
  /\ first_free[s] > 0
  /\ O \in SUBSET Slabs /\ s \in O
  /\ Conserved(O, first_free, freelist, held)
  /\ \A t \in O : freelist[t][num_total] = NULL

PutDone(obj, s, others, O) ==
  /\ slabs_partial' \in Seq(Slabs) /\ slabs_empty' \in Seq(Slabs)
  /\ IsInjective(slabs_partial') /\ IsInjective(slabs_empty')
  /\ Range(slabs_partial') \cup Range(slabs_empty')
       = Range(others) \cup Range(slabs_empty) \cup {s}
  /\ \A t \in Range(slabs_partial') : first_free'[t] \in 1 .. num_total - 1
  /\ \A t \in Range(slabs_empty') : first_free'[t] = 0
  /\ first_free' \in CursorType
  /\ \A t \in Slabs \ {s} : first_free'[t] = first_free[t]
  /\ freelist' \in ListType
  /\ \A t \in O : freelist'[t][num_total] = NULL
  /\ Conserved(O, first_free', freelist', held')
  /\ held' = held \ {obj}
  /\ used' \in Nat /\ used' = Cardinality(held')

LEMMA PutStep ==
  ASSUME NEW obj, NEW s, NEW others, NEW O,
         PutReady(obj, s, others, O), PutObject(obj, s, others)
  PROVE  PutDone(obj, s, others, O)
<1> USE DEF PutReady
<1> DEFINE prev == first_free[s] - 1
<1>1. num_total \in Nat \ {0} /\ first_free \in CursorType /\ freelist \in ListType
      /\ prev \in 0 .. num_total - 1 /\ first_free[s] = prev + 1
  BY SlabAssumption DEF TypeOK, CursorType, ListType
<1>2. /\ freelist' = [freelist EXCEPT ![s][prev] = obj]
      /\ first_free' = [first_free EXCEPT ![s] = prev]
      /\ held' = held \ {obj} /\ used' = used - 1
      /\ IF prev = 0
           THEN slabs_partial' = others /\ slabs_empty' = <<s>> \o slabs_empty
           ELSE slabs_partial' = <<s>> \o others /\ slabs_empty' = slabs_empty
  BY DEF PutObject
<1>3. Conserved(O, first_free', freelist', held')
  BY <1>1, <1>2, PutConserves
<1> HIDE DEF prev
<1>4. /\ first_free' \in CursorType /\ first_free'[s] = prev
      /\ \A t \in Slabs \ {s} : first_free'[t] = first_free[t]
  BY <1>1, <1>2 DEF CursorType
<1>5. freelist' \in ListType
  <2>1. obj \in Objects BY DEF TypeOK
  <2>2. QED BY <1>1, <1>2, <2>1 DEF ListType
<1>6. \A t \in O : freelist'[t][num_total] = NULL
  BY <1>1, <1>2 DEF ListType
<1>7. slabs_empty \in Seq(Slabs) BY DEF TypeOK
<1>8. Range(others) \in SUBSET Slabs /\ Range(slabs_empty) \in SUBSET Slabs
  BY <1>7, ListElements
<1>9. /\ slabs_partial' \in Seq(Slabs) /\ slabs_empty' \in Seq(Slabs)
      /\ IsInjective(slabs_partial') /\ IsInjective(slabs_empty')
      /\ Range(slabs_partial') \cup Range(slabs_empty')
           = Range(others) \cup Range(slabs_empty) \cup {s}
      /\ \A t \in Range(slabs_partial') : first_free'[t] \in 1 .. num_total - 1
      /\ \A t \in Range(slabs_empty') : first_free'[t] = 0
  <2>1. CASE prev = 0
    <3>1. slabs_partial' = others /\ slabs_empty' = <<s>> \o slabs_empty
      BY <1>2, <2>1
    <3>2. /\ slabs_empty' \in Seq(Slabs) /\ IsInjective(slabs_empty')
          /\ Range(slabs_empty') = Range(slabs_empty) \cup {s}
      BY <1>7, <3>1, PrependInjective
    <3>3. QED BY <1>4, <1>8, <2>1, <3>1, <3>2
  <2>2. CASE prev # 0
    <3>1. slabs_partial' = <<s>> \o others /\ slabs_empty' = slabs_empty
      BY <1>2, <2>2
    <3>2. /\ slabs_partial' \in Seq(Slabs) /\ IsInjective(slabs_partial')
          /\ Range(slabs_partial') = Range(others) \cup {s}
      BY <3>1, PrependInjective
    <3>3. prev \in 1 .. num_total - 1 BY <1>1, <2>2
    <3>4. QED BY <1>4, <1>7, <1>8, <3>1, <3>2, <3>3
  <2>3. QED BY <2>1, <2>2
<1>10. used' \in Nat /\ used' = Cardinality(held')
  <2>1. Cardinality(held \ {obj}) = Cardinality(held) - 1
    BY HeldFinite, FS_RemoveElement
  <2>2. Cardinality(held) # 0 BY HeldFinite, FS_EmptySet
  <2>3. QED BY <1>2, <2>1, <2>2, HeldFinite DEF UsedIsHeld
<1>11. QED BY <1>2, <1>3, <1>4, <1>5, <1>6, <1>9, <1>10 DEF PutDone

\* What IInv says, spelled out for the steps that use it.
LEMMA Facts ==
  ASSUME IInv
  PROVE  /\ TypeOK /\ UsedIsHeld
         /\ num_total \in Nat \ {0}
         /\ first_free \in CursorType /\ freelist \in ListType
         /\ slabs_partial \in Seq(Slabs) /\ slabs_full \in Seq(Slabs)
         /\ slabs_empty \in Seq(Slabs)
         /\ IsInjective(slabs_partial) /\ IsInjective(slabs_full)
         /\ IsInjective(slabs_empty)
         /\ Owned \in SUBSET Slabs /\ Owned \cap vaddrs = {}
         /\ \A t \in Range(slabs_partial) : first_free[t] \in 1 .. num_total - 1
         /\ \A t \in Range(slabs_full) : first_free[t] = num_total
         /\ \A t \in Range(slabs_empty) : first_free[t] = 0
         /\ Conserved(Owned, first_free, freelist, held)
         /\ \A t \in Owned : freelist[t][num_total] = NULL
         /\ \A t \in vaddrs : first_free[t] = 0
<1>1. TypeOK /\ SlabsOnTheRightList /\ UsedIsHeld /\ Terminated /\ FreshCursors
  BY DEF IInv
<1>2. Conserved(Owned, first_free, freelist, held)
  BY ConservedIsObjectsConserved DEF IInv
<1>3. Owned \in SUBSET Slabs
  BY <1>1, ListElements DEF TypeOK, Owned
<1>4. QED BY <1>1, <1>2, <1>3, SlabAssumption
          DEF TypeOK, SlabsOnTheRightList, Terminated, FreshCursors, Disjoint,
              CursorType, ListType

\* The converse, for the state after a step.
LEMMA FactsSuffice ==
  ASSUME slabs_partial' \in Seq(Slabs), slabs_full' \in Seq(Slabs),
         slabs_empty' \in Seq(Slabs),
         IsInjective(slabs_partial'), IsInjective(slabs_full'), IsInjective(slabs_empty'),
         \A t \in Range(slabs_partial') : first_free'[t] \in 1 .. num_total - 1,
         \A t \in Range(slabs_full') : first_free'[t] = num_total,
         \A t \in Range(slabs_empty') : first_free'[t] = 0,
         first_free' \in CursorType, freelist' \in ListType,
         vaddrs' \subseteq Slabs, Owned' \cap vaddrs' = {},
         held' \subseteq Objects, result' \in Objects \cup {NULL},
         used' \in Nat, used' = Cardinality(held'),
         Conserved(Owned', first_free', freelist', held'),
         \A t \in Owned' : freelist'[t][num_total] = NULL,
         \A t \in vaddrs' : first_free'[t] = 0
  PROVE  IInv'
<1>1. TypeOK' BY DEF TypeOK, CursorType, ListType
<1>2. SlabsOnTheRightList' BY DEF SlabsOnTheRightList, Disjoint
<1>3. ObjectsConserved'
  BY DEF ObjectsConserved, Conserved, SlotsOf, Slot, Disjoint, FreeObjects,
         FreeSlots, Entry, Stock
<1>4. QED BY <1>1, <1>2, <1>3 DEF IInv, UsedIsHeld, Terminated, FreshCursors

\* The set of owned slabs after a step.
LEMMA OwnedNext ==
  Owned' = Range(slabs_partial') \cup Range(slabs_full') \cup Range(slabs_empty')
BY DEF Owned

\* A step that gives out an object of a slab in O, O being the slabs owned
\* after it.
Gives(O) == /\ Owned' = O
            /\ result' \in (O \X Slot) \ held
            /\ held' = held \cup {result'}

LEMMA AllocFromPartialKeeps == IInv /\ AllocFromPartial => IInv' /\ Gives(Owned)
<1> SUFFICES ASSUME IInv, AllocFromPartial PROVE IInv' /\ Gives(Owned)
  OBVIOUS
<1> DEFINE s == Head(slabs_partial)
           others == Tail(slabs_partial)
<1>1. slabs_partial # << >> /\ TakeObject(s, others, freelist)
      /\ slabs_empty' = slabs_empty /\ vaddrs' = vaddrs
  BY DEF AllocFromPartial
<1>2. /\ s \in Range(slabs_partial) /\ others \in Seq(Slabs)
      /\ IsInjective(others) /\ Range(others) = Range(slabs_partial) \ {s}
  BY <1>1, Facts, TailInjective
<1> HIDE DEF s, others
<1>3. s \in Slabs /\ s \in Owned
  BY <1>2, Facts DEF Owned
<1>4. /\ first_free[s] < num_total /\ s \notin Range(slabs_full)
      /\ s \notin Range(others)
      /\ \A t \in Range(others) : first_free[t] \in 1 .. num_total - 1
  BY <1>2, Facts
<1>5. TakeReady(s, others, freelist, Owned)
  BY <1>2, <1>3, <1>4, Facts DEF TakeReady
<1>6. TakeDone(s, others, freelist, Owned)
  BY <1>1, <1>5, TakeStep
<1>7. Owned' = Owned
  BY <1>1, <1>2, <1>6, OwnedNext DEF Owned, TakeDone
<1>8. result' \in Objects
  BY <1>6, Facts DEF Objects, Slot, TakeDone
<1>9. s \notin Range(slabs_empty) /\ s \notin vaddrs
  BY <1>2, <1>3, Facts
<1>10. vaddrs \subseteq Slabs /\ Range(slabs_empty) \in SUBSET Slabs
  BY Facts, ListElements DEF TypeOK
<1>11. /\ \A t \in Range(slabs_empty') : first_free'[t] = 0
       /\ \A t \in vaddrs' : first_free'[t] = 0
  BY <1>1, <1>6, <1>9, <1>10, Facts DEF TakeDone
<1>12. IInv'
  BY <1>1, <1>6, <1>7, <1>8, <1>10, <1>11, Facts, FactsSuffice DEF TakeDone
<1>13. QED BY <1>6, <1>7, <1>12 DEF Gives, TakeDone

LEMMA AllocFromEmptyKeeps == IInv /\ AllocFromEmpty => IInv' /\ Gives(Owned)
<1> SUFFICES ASSUME IInv, AllocFromEmpty PROVE IInv' /\ Gives(Owned)
  OBVIOUS
<1> DEFINE s == Head(slabs_empty)
<1>1. slabs_empty # << >> /\ TakeObject(s, << >>, freelist)
      /\ slabs_empty' = Tail(slabs_empty) /\ vaddrs' = vaddrs
      /\ slabs_partial = << >>
  BY DEF AllocFromEmpty
<1>2. /\ s \in Range(slabs_empty) /\ slabs_empty' \in Seq(Slabs)
      /\ IsInjective(slabs_empty') /\ Range(slabs_empty') = Range(slabs_empty) \ {s}
  BY <1>1, Facts, TailInjective
<1> HIDE DEF s
<1>3. s \in Slabs /\ s \in Owned
  BY <1>2, Facts DEF Owned
<1>4. first_free[s] < num_total /\ s \notin Range(slabs_full)
  BY <1>2, Facts
<1>5. TakeReady(s, << >>, freelist, Owned)
  BY <1>3, <1>4, Facts, EmptyList DEF TakeReady
<1>6. TakeDone(s, << >>, freelist, Owned)
  BY <1>1, <1>5, TakeStep
<1>7. Owned' = Owned
  BY <1>1, <1>2, <1>6, OwnedNext, EmptyList DEF Owned, TakeDone
<1>8. result' \in Objects
  BY <1>6, Facts DEF Objects, Slot, TakeDone
<1>9. s \notin vaddrs
  BY <1>3, Facts
<1>10. vaddrs \subseteq Slabs /\ Range(slabs_empty) \in SUBSET Slabs
  BY Facts, ListElements DEF TypeOK
<1>11. /\ \A t \in Range(slabs_empty') : first_free'[t] = 0
       /\ \A t \in vaddrs' : first_free'[t] = 0
  BY <1>1, <1>2, <1>6, <1>9, <1>10, Facts DEF TakeDone
<1>12. IInv'
  BY <1>1, <1>2, <1>6, <1>7, <1>8, <1>10, <1>11, Facts, FactsSuffice DEF TakeDone
<1>13. QED BY <1>6, <1>7, <1>12 DEF Gives, TakeDone

LEMMA AllocNewSlabKeeps ==
  IInv /\ AllocNewSlab =>
    IInv' /\ \E s \in Slabs \ Owned : Gives(Owned \cup {s})
<1> SUFFICES ASSUME IInv, AllocNewSlab
             PROVE  IInv' /\ \E s \in Slabs \ Owned : Gives(Owned \cup {s})
  OBVIOUS
<1>1. PICK s \in vaddrs :
        /\ vaddrs' = vaddrs \ {s}
        /\ TakeObject(s, << >>, [freelist EXCEPT ![s] = kmem_initialize_slab(s)])
  BY DEF AllocNewSlab
<1> DEFINE list == [freelist EXCEPT ![s] = kmem_initialize_slab(s)]
           O == Owned \cup {s}
<1>2. slabs_partial = << >> /\ slabs_empty = << >> /\ slabs_empty' = slabs_empty
  BY DEF AllocNewSlab, NoneLeft
<1>3. /\ s \in Slabs /\ s \notin Owned /\ first_free[s] = 0
      /\ O \in SUBSET Slabs /\ num_total \in Nat \ {0}
  BY Facts DEF TypeOK
<1>4. list \in ListType
  <2>1. kmem_initialize_slab(s) \in [0 .. num_total -> Objects \cup {NULL}]
    BY <1>3 DEF kmem_initialize_slab, Objects
  <2>2. QED BY <2>1, Facts DEF ListType
<1>5. \A t \in O : list[t][num_total] = NULL
  BY <1>3, Facts DEF ListType, kmem_initialize_slab
<1>6. Conserved(O, first_free, list, held)
  BY <1>3, Facts, NewConserves
<1> HIDE DEF list, O
<1>7. TakeObject(s, << >>, list)
  BY <1>1 DEF list
<1>8. /\ first_free[s] < num_total /\ s \notin Range(slabs_full) /\ s \in O
  BY <1>3, Facts DEF O, Owned
<1>9. TakeReady(s, << >>, list, O)
  <2>1. O \in SUBSET Slabs BY <1>3 DEF O
  <2>2. QED BY <1>3, <1>4, <1>5, <1>6, <1>8, <2>1, Facts, EmptyList DEF TakeReady
<1>10. TakeDone(s, << >>, list, O)
  BY <1>7, <1>9, TakeStep
<1>11. Owned' = O
  BY <1>2, <1>10, OwnedNext, EmptyList DEF Owned, O, TakeDone
<1>12. result' \in Objects
  BY <1>9, <1>10 DEF Objects, Slot, TakeDone, TakeReady
<1>13. /\ vaddrs' \subseteq Slabs /\ Owned' \cap vaddrs' = {}
       /\ \A t \in vaddrs' : first_free'[t] = 0
  BY <1>1, <1>10, <1>11, Facts DEF O, TypeOK, TakeDone
<1>14. /\ slabs_empty' \in Seq(Slabs) /\ IsInjective(slabs_empty')
       /\ \A t \in Range(slabs_empty') : first_free'[t] = 0
  BY <1>2, EmptyList
<1>15. IInv'
  BY <1>4, <1>5, <1>10, <1>11, <1>12, <1>13, <1>14, FactsSuffice DEF TakeDone
<1>16. Gives(Owned \cup {s})
  BY <1>10, <1>11 DEF Gives, TakeDone, O
<1>17. QED BY <1>3, <1>15, <1>16

LEMMA AllocFailsKeeps == IInv /\ (AllocNoVaddr \/ AllocNoPage) => IInv' /\ Owned' = Owned
<1> SUFFICES ASSUME IInv, AllocNoVaddr \/ AllocNoPage PROVE IInv' /\ Owned' = Owned
  OBVIOUS
<1>1. /\ vaddrs' \subseteq vaddrs /\ result' = NULL
      /\ slabs_partial' = slabs_partial /\ slabs_full' = slabs_full
      /\ slabs_empty' = slabs_empty /\ used' = used
      /\ first_free' = first_free /\ freelist' = freelist /\ held' = held
  BY DEF AllocNoVaddr, AllocNoPage
<1>2. Owned' = Owned BY <1>1 DEF Owned
<1>3. IInv' BY <1>1, <1>2, Facts, FactsSuffice DEF TypeOK, UsedIsHeld
<1>4. QED BY <1>2, <1>3

LEMMA FreeToPartialKeeps ==
  ASSUME IInv, NEW obj \in held, FreeToPartial(obj)
  PROVE  IInv' /\ Owned' = Owned /\ held' = held \ {obj} /\ result' = result
<1> DEFINE s == Head(slabs_partial)
           others == Tail(slabs_partial)
<1>1. slabs_partial # << >> /\ PutObject(obj, s, others)
      /\ slabs_full' = slabs_full /\ vaddrs' = vaddrs /\ result' = result
  BY DEF FreeToPartial
<1>2. /\ s \in Range(slabs_partial) /\ others \in Seq(Slabs)
      /\ IsInjective(others) /\ Range(others) = Range(slabs_partial) \ {s}
  BY <1>1, Facts, TailInjective
<1> HIDE DEF s, others
<1>3. s \in Slabs /\ s \in Owned
  BY <1>2, Facts DEF Owned
<1>4. /\ first_free[s] > 0 /\ s \notin Range(slabs_empty)
      /\ s \notin Range(others) /\ s \notin Range(slabs_full)
      /\ \A t \in Range(others) : first_free[t] \in 1 .. num_total - 1
  BY <1>2, Facts
<1>5. PutReady(obj, s, others, Owned)
  BY <1>2, <1>3, <1>4, Facts DEF PutReady
<1>6. PutDone(obj, s, others, Owned)
  BY <1>1, <1>5, PutStep
<1>7. Owned' = Owned
  BY <1>1, <1>2, <1>6, OwnedNext DEF Owned, PutDone
<1>8. vaddrs \subseteq Slabs /\ Range(slabs_full) \in SUBSET Slabs /\ s \notin vaddrs
  BY <1>3, Facts, ListElements DEF TypeOK
<1>9. /\ \A t \in Range(slabs_full') : first_free'[t] = num_total
      /\ \A t \in vaddrs' : first_free'[t] = 0
  BY <1>1, <1>4, <1>6, <1>8, Facts DEF PutDone
<1>10. held' \subseteq Objects /\ result' \in Objects \cup {NULL}
  BY <1>1, <1>6, Facts DEF PutDone, TypeOK
<1>11. IInv'
  BY <1>1, <1>6, <1>7, <1>8, <1>9, <1>10, Facts, FactsSuffice DEF PutDone
<1>12. QED BY <1>1, <1>6, <1>7, <1>11 DEF PutDone

LEMMA FreeToFullKeeps ==
  ASSUME IInv, NEW obj \in held, FreeToFull(obj)
  PROVE  IInv' /\ Owned' = Owned /\ held' = held \ {obj} /\ result' = result
<1> DEFINE s == Head(slabs_full)
<1>1. slabs_full # << >> /\ PutObject(obj, s, << >>) /\ slabs_partial = << >>
      /\ slabs_full' = Tail(slabs_full) /\ vaddrs' = vaddrs /\ result' = result
  BY DEF FreeToFull
<1>2. /\ s \in Range(slabs_full) /\ slabs_full' \in Seq(Slabs)
      /\ IsInjective(slabs_full') /\ Range(slabs_full') = Range(slabs_full) \ {s}
  BY <1>1, Facts, TailInjective
<1> HIDE DEF s
<1>3. s \in Slabs /\ s \in Owned
  BY <1>2, Facts DEF Owned
<1>4. first_free[s] > 0 /\ s \notin Range(slabs_empty)
  BY <1>2, Facts
<1>5. PutReady(obj, s, << >>, Owned)
  BY <1>3, <1>4, Facts, EmptyList DEF PutReady
<1>6. PutDone(obj, s, << >>, Owned)
  BY <1>1, <1>5, PutStep
<1>7. Owned' = Owned
  BY <1>1, <1>2, <1>6, OwnedNext, EmptyList DEF Owned, PutDone
<1>8. vaddrs \subseteq Slabs /\ Range(slabs_full) \in SUBSET Slabs /\ s \notin vaddrs
  BY <1>3, Facts, ListElements DEF TypeOK
<1>9. /\ \A t \in Range(slabs_full') : first_free'[t] = num_total
      /\ \A t \in vaddrs' : first_free'[t] = 0
  BY <1>1, <1>2, <1>6, <1>8, Facts DEF PutDone
<1>10. held' \subseteq Objects /\ result' \in Objects \cup {NULL}
  BY <1>1, <1>6, Facts DEF PutDone, TypeOK
<1>11. IInv'
  BY <1>1, <1>2, <1>6, <1>7, <1>8, <1>9, <1>10, Facts, FactsSuffice DEF PutDone
<1>12. QED BY <1>1, <1>6, <1>7, <1>11 DEF PutDone

\* Every behaviour of the cache satisfies the invariant.
THEOREM Invariant == Spec => []IInv
<1>1. IInv /\ [Next]_vars => IInv'
  <2> SUFFICES ASSUME IInv, [Next]_vars PROVE IInv'
    OBVIOUS
  <2>1. CASE common_kmem_cache_alloc
    BY <2>1, AllocFromPartialKeeps, AllocFromEmptyKeeps, AllocNewSlabKeeps,
       AllocFailsKeeps DEF common_kmem_cache_alloc
  <2>2. CASE \E obj \in held : common_kmem_cache_free(obj)
    BY <2>2, FreeToPartialKeeps, FreeToFullKeeps DEF common_kmem_cache_free
  <2>3. CASE UNCHANGED vars
    BY <2>3 DEF vars, IInv, TypeOK, SlabsOnTheRightList, ObjectsConserved,
       UsedIsHeld, Terminated, FreshCursors, Owned, FreeObjects, FreeSlots,
       Entry, Stock
  <2>4. QED BY <2>1, <2>2, <2>3 DEF Next
<1>2. QED BY InitIInv, <1>1, PTL DEF Spec

\* The cursors of common_kmem_cache_alloc and common_kmem_cache_free never
\* leave their arrays, however calls are sequenced.
THEOREM TypeCorrect == Spec => []TypeOK
<1>1. IInv => TypeOK BY DEF IInv
<1>2. QED BY Invariant, <1>1, PTL

\* Every slab is on exactly one list, the one that fits its cursor.
THEOREM ListsCorrect == Spec => []SlabsOnTheRightList
<1>1. IInv => SlabsOnTheRightList BY DEF IInv
<1>2. QED BY Invariant, <1>1, PTL

\* No object is lost or handed out twice, although objects migrate between
\* slabs.
THEOREM Conservation == Spec => []ObjectsConserved
<1>1. IInv => ObjectsConserved BY DEF IInv
<1>2. QED BY Invariant, <1>1, PTL

\* cache->used is exact.
THEOREM UsedExact == Spec => []UsedIsHeld
<1>1. IInv => UsedIsHeld BY DEF IInv
<1>2. QED BY Invariant, <1>1, PTL

-----------------------------------------------------------------------------
\* If every slab is empty, every slot is free, and as many distinct objects
\* as there are slots are all of them: nobody holds one.
LEMMA AllSlotsFree ==
  ASSUME IInv, slabs_partial = << >>, slabs_full = << >>
  PROVE  held = {}
<1> DEFINE S == Owned \X Slot
           f == [a \in S |-> freelist[a[1]][a[2]]]
<1>1. \A t \in Owned : first_free[t] = 0
  BY Facts, EmptyList DEF Owned
<1>2. SlotsOf(Owned, first_free) = S
  BY <1>1, Facts DEF SlotsOf, Slot
<1>3. f \in Injection(S, S)
  <2>1. f \in [S -> S]
    BY <1>2, Facts DEF Conserved
  <2>2. \A a, b \in S : f[a] = f[b] => a = b
    BY <1>2, Facts DEF Conserved
  <2>3. QED BY <2>1, <2>2 DEF Injection, IsInjective
<1>4. IsFiniteSet(S)
  <2>1. IsFiniteSet(Slot) BY FS_Interval, SlabAssumption DEF Slot
  <2>2. IsFiniteSet(Owned) BY Facts, SlabAssumption, FS_Subset
  <2>3. QED BY <2>1, <2>2, FS_Product
<1>5. f \in Surjection(S, S)
  BY <1>3, <1>4, FS_Injection
<1>6. ASSUME NEW obj \in held PROVE FALSE
  <2>1. obj \in S BY Facts DEF Conserved
  <2>2. PICK a \in S : f[a] = obj BY <1>5, <2>1 DEF Surjection
  <2>3. f[a] \notin held BY <1>2, Facts DEF Conserved
  <2>4. QED BY <2>2, <2>3
<1>7. QED BY <1>6

\* The assert(0) at the end of common_kmem_cache_free's search for a slab is
\* unreachable.
THEOREM FreeNeverAsserts == Spec => []FreeFindsASlab
<1>1. IInv => FreeFindsASlab BY AllSlotsFree DEF FreeFindsASlab
<1>2. QED BY Invariant, <1>1, PTL

\* When common_kmem_cache_alloc finds neither a partial nor an empty slab,
\* every object of the cache is in use.
LEMMA NoneLeftMeansAllHeld ==
  ASSUME IInv, NoneLeft
  PROVE  Stock = held
<1>1. \A t \in Owned : first_free[t] = num_total
  BY Facts, EmptyList DEF Owned, NoneLeft
<1>2. SlotsOf(Owned, first_free) = {}
  BY <1>1, Facts DEF SlotsOf, Slot
<1>3. QED BY <1>2, Facts DEF Conserved, Stock, Slot

LEMMA StepImplements == IInv /\ [Next]_vars => [Promise!Next]_(Promise!vars)
<1> SUFFICES ASSUME IInv, [Next]_vars PROVE [Promise!Next]_(Promise!vars)
  OBVIOUS
<1>1. ASSUME NEW O, Owned' = O PROVE Stock' = O \X Slot
  BY <1>1 DEF Stock, Slot
<1>2. Stock = Owned \X Slot
  BY DEF Stock, Slot
<1>3. CASE AllocFromPartial \/ AllocFromEmpty
  <2>1. Gives(Owned)
    BY <1>3, AllocFromPartialKeeps, AllocFromEmptyKeeps
  <2>2. Promise!AllocFromStock
    BY <1>1, <1>2, <2>1 DEF Gives, Promise!AllocFromStock, Promise!Give
  <2>3. QED BY <2>2 DEF Promise!Next
<1>4. CASE AllocNewSlab
  <2>1. PICK s \in Slabs \ Owned : Gives(Owned \cup {s})
    BY <1>4, AllocNewSlabKeeps
  <2>2. Stock = held
    BY <1>4, NoneLeftMeansAllHeld DEF AllocNewSlab
  <2>3. Stock' = Stock \cup ObjectsOf(s) /\ ObjectsOf(s) \cap Stock = {}
    BY <1>1, <1>2, <2>1 DEF Gives, ObjectsOf, Slot
  <2>4. result' \in ObjectsOf(s) /\ held' = held \cup {result'}
    BY <1>2, <2>1, <2>2 DEF Gives, ObjectsOf, Slot
  <2>5. Promise!AllocFromNewSlab(s)
    BY <2>2, <2>3, <2>4 DEF Promise!AllocFromNewSlab, Promise!Give
  <2>6. QED BY <2>5 DEF Promise!Next
<1>5. CASE AllocNoVaddr \/ AllocNoPage
  <2>1. Stock = held
    BY <1>5, NoneLeftMeansAllHeld DEF AllocNoVaddr, AllocNoPage
  <2>2. Stock' = Stock
    BY <1>1, <1>2, <1>5, AllocFailsKeeps
  <2>3. result' = NULL /\ held' = held
    BY <1>5 DEF AllocNoVaddr, AllocNoPage
  <2>4. QED BY <2>1, <2>2, <2>3 DEF Promise!Next, Promise!AllocFails
<1>6. ASSUME NEW obj \in held, common_kmem_cache_free(obj) PROVE Promise!Next
  <2>1. Owned' = Owned /\ held' = held \ {obj} /\ result' = result
    BY <1>6, FreeToPartialKeeps, FreeToFullKeeps DEF common_kmem_cache_free
  <2>2. Promise!Free(obj)
    BY <1>1, <1>2, <2>1 DEF Promise!Free
  <2>3. QED BY <2>2 DEF Promise!Next
<1>7. CASE UNCHANGED vars
  BY <1>7 DEF vars, Promise!vars, Stock, Owned
<1>8. QED
  BY <1>3, <1>4, <1>5, <1>6, <1>7 DEF Next, common_kmem_cache_alloc

\* The cache implements ObjectCache: one holder per object, and NULL only
\* when every object of every slab is in use.
THEOREM Implementation == Spec => ImplementsObjectCache
<1>1. Init => Promise!Init
  BY EmptyList DEF Init, Promise!Init, Stock, Owned
<1>2. QED BY <1>1, Invariant, StepImplements, PTL
          DEF Spec, ImplementsObjectCache, Promise!Spec
-----------------------------------------------------------------------------
\* The layout of a slab is sound for slabs of any size and objects of any size.

\* The quotient in the formula for n_elements, without division.
LEMMA Quotient ==
  ASSUME NEW a \in Nat, NEW b \in Nat \ {0}
  PROVE  /\ a \div b \in Nat
         /\ b * (a \div b) <= a
         /\ a < b * (a \div b) + b
OBVIOUS

\* The room the header, n freelist entries and the terminator leave is enough
\* for n objects, and not for n + 1.
LEMMA ElementsFit ==
  ASSUME NEW osize \in Nat \ {0}
  PROVE  LET n == elements(osize)
         IN  /\ n \in Nat
             /\ osize * n + SizeofPointer * n <= size - SizeofSlab - SizeofPointer
             /\ size - SizeofSlab - SizeofPointer
                  < osize * n + osize + SizeofPointer * n + SizeofPointer
<1> DEFINE a == size - SizeofSlab - SizeofPointer
           b == osize + SizeofPointer
           n == elements(osize)
<1>1. a \in Nat /\ b \in Nat \ {0} /\ n = a \div b
  BY LayoutAssumption DEF SizeofSlab, SizeofPointer, elements
<1>2. n \in Nat /\ b * n <= a /\ a < b * n + b
  BY <1>1, Quotient
<1>3. b * n = osize * n + SizeofPointer * n
  BY <1>2 DEF SizeofPointer
<1>4. QED BY <1>2, <1>3 DEF SizeofPointer

LEMMA ProductMonotonic ==
  ASSUME NEW k \in Nat, NEW m \in Nat, NEW n \in Nat, m <= n
  PROVE  /\ k * m \in Nat /\ k * n \in Nat /\ k * m <= k * n
         /\ (m + 1) * k = m * k + k /\ m * k = k * m
OBVIOUS

LayoutInv ==
  /\ objsize \in ObjSizes
  /\ n_elements = elements(objsize)
  /\ i \in 0 .. n_elements
  /\ cur_obj = FirstObject(objsize, n_elements) + i * objsize
  /\ pc \in {"loop", "terminate", "done", "assert"}
  /\ pc \in {"terminate", "done"} => i = n_elements

LEMMA LayoutTypes ==
  ASSUME LayoutInv
  PROVE  /\ objsize \in Nat \ {0} /\ n_elements \in Nat /\ i \in Nat
         /\ i <= n_elements /\ size \in Nat
         /\ objsize * n_elements + 4 * n_elements <= size - 20
         /\ size - 20 < objsize * n_elements + objsize + 4 * n_elements + 4
BY ElementsFit, LayoutAssumption DEF LayoutInv, SizeofSlab, SizeofPointer

\* The invariant of the loop.
THEOREM LayoutInvariant == LayoutSpec => []LayoutInv
<1>1. LayoutInit => LayoutInv
  BY ElementsFit, LayoutAssumption DEF LayoutInit, LayoutInv, FirstObject
<1>2. LayoutInv /\ [LayoutNext]_layout => LayoutInv'
  <2> SUFFICES ASSUME LayoutInv, [LayoutNext]_layout PROVE LayoutInv'
    OBVIOUS
  <2>1. CASE StoreEntry
    <3>1. i + 1 \in 0 .. n_elements
      BY <2>1, LayoutTypes DEF StoreEntry
    <3>2. objsize * n_elements \in Nat /\ (i + 1) * objsize = i * objsize + objsize
          /\ i * objsize \in Nat
      BY LayoutTypes, ProductMonotonic
    <3>3. cur_obj + objsize
            = FirstObject(objsize, n_elements) + (i + 1) * objsize
      BY <3>2, LayoutTypes DEF LayoutInv, FirstObject
    <3>4. QED BY <2>1, <3>1, <3>3 DEF LayoutInv, StoreEntry
  <2>2. CASE LoopEnd
    BY <2>2, LayoutTypes DEF LayoutInv, LoopEnd
  <2>3. CASE StoreTerminator
    BY <2>3 DEF LayoutInv, StoreTerminator
  <2>4. CASE UNCHANGED layout
    BY <2>4 DEF LayoutInv, layout
  <2>5. QED BY <2>1, <2>2, <2>3, <2>4 DEF LayoutNext
<1>3. QED BY <1>1, <1>2, PTL DEF LayoutSpec

\* The freelist of a slab, terminator included, never overlaps its objects.
THEOREM FreelistClear == LayoutSpec => []FreelistClearOfObjects
<1>1. LayoutInv => FreelistClearOfObjects
  <2> SUFFICES ASSUME LayoutInv
               PROVE  FreelistEntry(i) + SizeofPointer
                        <= FirstObject(objsize, n_elements)
    BY DEF FreelistClearOfObjects
  <2>1. objsize * n_elements \in Nat BY LayoutTypes, ProductMonotonic
  <2>2. QED BY <2>1, LayoutTypes DEF FreelistEntry, FirstObject, SizeofSlab, SizeofPointer
<1>2. QED BY LayoutInvariant, <1>1, PTL

\* Every pointer stored in a freelist points into its slab.
THEOREM ObjectsInside == LayoutSpec => []ObjectsInsideSlab
<1>1. LayoutInv => ObjectsInsideSlab
  <2> SUFFICES ASSUME LayoutInv PROVE ObjectsInsideSlab
    OBVIOUS
  <2>1. /\ objsize * n_elements \in Nat /\ i * objsize \in Nat
        /\ cur_obj = size - objsize * n_elements + i * objsize
    BY LayoutTypes, ProductMonotonic DEF LayoutInv, FirstObject
  <2>2. ASSUME i < n_elements PROVE cur_obj >= 0 /\ cur_obj + objsize <= size
    <3>1. i + 1 \in Nat /\ i + 1 <= n_elements BY <2>2, LayoutTypes
    <3>2. objsize * (i + 1) <= objsize * n_elements
      BY <3>1, LayoutTypes, ProductMonotonic
    <3>3. objsize * (i + 1) = i * objsize + objsize
      BY <3>1, LayoutTypes, ProductMonotonic
    <3>4. QED BY <2>1, <3>2, <3>3, LayoutTypes
  <2>3. ASSUME i = n_elements PROVE cur_obj = size
    <3>1. i * objsize = objsize * n_elements
      BY <2>3, LayoutTypes, ProductMonotonic
    <3>2. QED BY <2>1, <3>1, LayoutTypes
  <2>4. QED BY <2>2, <2>3 DEF LayoutInv, ObjectsInsideSlab
<1>2. QED BY LayoutInvariant, <1>1, PTL
=============================================================================
