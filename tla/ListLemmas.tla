----------------------------- MODULE ListLemmas -----------------------------
(***************************************************************************)
(* Most models write the lists of queue.h as sequences without repetition, *)
(* the head of the list first.  What removing the head and inserting at    *)
(* the head do to such a sequence and to the set of its elements, and that *)
(* the macros of LinkedList do just that to the pointers.                  *)
(***************************************************************************)
EXTENDS LinkedList, Sequences, Functions, SequenceTheorems, WellFoundedInduction, TLAPS

\* LIST_REMOVE of the first element, or SLIST_REMOVE_HEAD.
LEMMA TailInjective ==
  ASSUME NEW S, NEW s \in Seq(S), s # << >>, IsInjective(s)
  PROVE  /\ Head(s) \in Range(s)
         /\ Tail(s) \in Seq(S)
         /\ Len(Tail(s)) = Len(s) - 1
         /\ IsInjective(Tail(s))
         /\ Range(Tail(s)) = Range(s) \ {Head(s)}
<1> DEFINE t == Tail(s)
<1>1. /\ Len(s) \in Nat \ {0}
      /\ DOMAIN s = 1 .. Len(s)
      /\ Head(s) = s[1]
  BY EmptySeq, LenProperties
<1>2. /\ t \in Seq(S)
      /\ Len(t) = Len(s) - 1
      /\ DOMAIN t = 1 .. Len(s) - 1
      /\ \A i \in 1 .. Len(s) - 1 : t[i] = s[i + 1]
  BY <1>1, HeadTailProperties, LenProperties
<1>3. IsInjective(t)
  <2>1. ASSUME NEW i \in DOMAIN t, NEW j \in DOMAIN t, t[i] = t[j] PROVE i = j
    BY <2>1, <1>1, <1>2 DEF IsInjective
  <2>2. QED BY <2>1 DEF IsInjective
<1>4. Range(t) \subseteq Range(s) \ {Head(s)}
  BY <1>1, <1>2 DEF Range, IsInjective
<1>5. ASSUME NEW x \in Range(s), x # Head(s) PROVE x \in Range(t)
  <2>1. PICK i \in DOMAIN s : x = s[i] BY DEF Range
  <2>2. i - 1 \in DOMAIN t /\ t[i - 1] = x
    BY <2>1, <1>5, <1>1, <1>2
  <2>3. QED BY <2>2 DEF Range
<1>6. Range(t) = Range(s) \ {Head(s)}
  BY <1>4, <1>5
<1>7. Head(s) \in Range(s)
  BY <1>1 DEF Range
<1>8. QED BY <1>2, <1>3, <1>6, <1>7

\* Where the elements are after LIST_INSERT_HEAD: the new one first, the others
\* one place on.
LEMMA Prepended ==
  ASSUME NEW S, NEW s \in Seq(S), NEW e \in S
  PROVE  /\ <<e>> \o s \in Seq(S)
         /\ Len(s) \in Nat /\ DOMAIN s = 1 .. Len(s)
         /\ Len(<<e>> \o s) = Len(s) + 1
         /\ DOMAIN (<<e>> \o s) = 1 .. Len(s) + 1
         /\ (<<e>> \o s)[1] = e
         /\ \A i \in 2 .. Len(s) + 1 : (<<e>> \o s)[i] = s[i - 1]
<1> DEFINE t == <<e>> \o s
<1>1. /\ Len(s) \in Nat
      /\ DOMAIN s = 1 .. Len(s)
  BY LenProperties
<1>2. <<e>> \in Seq(S) /\ Len(<<e>>) = 1 /\ <<e>>[1] = e
  OBVIOUS
<1>3. /\ t \in Seq(S)
      /\ Len(t) = Len(s) + 1
      /\ \A i \in 1 .. 1 + Len(s) : t[i] = IF i <= 1 THEN <<e>>[i] ELSE s[i - 1]
  BY <1>1, <1>2, ConcatProperties
<1>4. DOMAIN t = 1 .. Len(s) + 1
  BY <1>3, LenProperties
<1>5. QED BY <1>1, <1>2, <1>3, <1>4

\* LIST_INSERT_HEAD or SLIST_INSERT_HEAD of an element that is not on the list.
LEMMA PrependInjective ==
  ASSUME NEW S, NEW s \in Seq(S), NEW e \in S, IsInjective(s), e \notin Range(s)
  PROVE  /\ <<e>> \o s \in Seq(S)
         /\ Len(<<e>> \o s) = Len(s) + 1
         /\ IsInjective(<<e>> \o s)
         /\ Range(<<e>> \o s) = Range(s) \cup {e}
<1> DEFINE t == <<e>> \o s
<1>1. /\ Len(s) \in Nat
      /\ DOMAIN s = 1 .. Len(s)
  BY LenProperties
<1>2. <<e>> \in Seq(S) /\ Len(<<e>>) = 1 /\ <<e>>[1] = e
  OBVIOUS
<1>3. /\ t \in Seq(S)
      /\ Len(t) = Len(s) + 1
      /\ \A i \in 1 .. 1 + Len(s) : t[i] = IF i <= 1 THEN <<e>>[i] ELSE s[i - 1]
  BY <1>1, <1>2, ConcatProperties
<1>4. DOMAIN t = 1 .. Len(s) + 1
  BY <1>3, LenProperties
<1>5. t[1] = e /\ \A i \in 2 .. Len(s) + 1 : t[i] = s[i - 1]
  BY <1>1, <1>2, <1>3
<1>6. IsInjective(t)
  <2>1. ASSUME NEW i \in DOMAIN t, NEW j \in DOMAIN t, t[i] = t[j] PROVE i = j
    <3>1. CASE i = 1 /\ j = 1 BY <3>1
    <3>2. CASE i = 1 /\ j # 1
      BY <3>2, <2>1, <1>1, <1>4, <1>5 DEF Range
    <3>3. CASE i # 1 /\ j = 1
      BY <3>3, <2>1, <1>1, <1>4, <1>5 DEF Range
    <3>4. CASE i # 1 /\ j # 1
      BY <3>4, <2>1, <1>1, <1>4, <1>5 DEF IsInjective
    <3>5. QED BY <3>1, <3>2, <3>3, <3>4
  <2>2. QED BY <2>1 DEF IsInjective
<1>7. Range(t) \subseteq Range(s) \cup {e}
  <2>1. ASSUME NEW i \in DOMAIN t PROVE t[i] \in Range(s) \cup {e}
    BY <1>1, <1>4, <1>5 DEF Range
  <2>2. QED BY <2>1 DEF Range
<1>8. Range(s) \cup {e} \subseteq Range(t)
  <2>1. e \in Range(t) BY <1>1, <1>4, <1>5 DEF Range
  <2>2. ASSUME NEW i \in DOMAIN s PROVE s[i] \in Range(t)
    <3>1. i + 1 \in DOMAIN t /\ t[i + 1] = s[i] BY <1>1, <1>4, <1>5
    <3>2. QED BY <3>1 DEF Range
  <2>3. QED BY <2>1, <2>2 DEF Range
<1>9. QED BY <1>3, <1>6, <1>7, <1>8

-----------------------------------------------------------------------------
\* Induction over the natural numbers, as a fact about sets.
LEMMA LeastNat ==
  ASSUME NEW T, T \subseteq Nat, T # {}
  PROVE  \E x \in T : \A y \in T : x <= y
<1>1. IsWellFoundedOn(OpToRel(<, Nat), Nat)
  BY NatLessThanWellFounded
<1>2. PICK x \in T : \A y \in T : ~(<<y, x>> \in OpToRel(<, Nat))
  BY <1>1, WFMin
<1>3. \A a, b \in Nat : b < a => <<b, a>> \in OpToRel(<, Nat)
  BY DEF OpToRel
<1>4. \A y \in T : x <= y
  <2>1. \A y \in T : ~(y < x)
    BY <1>2, <1>3
  <2>2. QED BY <2>1
<1>5. QED BY <1>4

\* The pointers of l for elements E and heads H.
PointersOf(l, E, H) ==
  /\ l.at \in [E \cup H -> E \cup {Null}]
  /\ l.prev \in [E -> E \cup H \cup {Null}]
  /\ E \cap H = {} /\ Null \notin E

\* The list with head h has the elements of s, in this order.
Represents(l, h, s) ==
  /\ l.at[h] = IF s = <<>> THEN Null ELSE s[1]
  /\ \A i \in 1 .. Len(s) : l.at[s[i]] = IF i = Len(s) THEN Null ELSE s[i + 1]
  /\ \A i \in 1 .. Len(s) : l.prev[s[i]] = IF i = 1 THEN h ELSE s[i - 1]

\* The macros keep the pointers among elements and heads, whatever the lists.
LEMMA InsertTyped ==
  ASSUME NEW l, NEW E, NEW H, PointersOf(l, E, H), NEW h \in H, NEW e \in E
  PROVE  PointersOf(LIST_INSERT_HEAD(l, h, e), E, H)
<1> DEFINE n == LIST_INSERT_HEAD(l, h, e)
           first == l.at[h]
           told == IF first = Null THEN l.prev ELSE [l.prev EXCEPT ![first] = e]
<1>1. /\ l.at \in [E \cup H -> E \cup {Null}] /\ l.prev \in [E -> E \cup H \cup {Null}]
      /\ E \cap H = {} /\ Null \notin E
  BY DEF PointersOf
<1>2. n.at = [l.at EXCEPT ![e] = first, ![h] = e] /\ n.prev = [told EXCEPT ![e] = h]
  BY DEF LIST_INSERT_HEAD
<1>3. first \in E \cup {Null}
  BY <1>1
<1> HIDE DEF n, first
<1>4. told \in [E -> E \cup H \cup {Null}]
  BY <1>1, <1>3
<1> HIDE DEF told
<1>5. n.at \in [E \cup H -> E \cup {Null}] /\ n.prev \in [E -> E \cup H \cup {Null}]
  BY <1>1, <1>2, <1>3, <1>4
<1>6. QED BY <1>1, <1>5 DEF PointersOf, n

LEMMA RemoveTyped ==
  ASSUME NEW l, NEW E, NEW H, PointersOf(l, E, H), NEW e \in E
  PROVE  PointersOf(LIST_REMOVE(l, e), E, H)
<1> DEFINE n == LIST_REMOVE(l, e)
           next == l.at[e]
           pv == l.prev[e]
<1>1. /\ l.at \in [E \cup H -> E \cup {Null}] /\ l.prev \in [E -> E \cup H \cup {Null}]
      /\ E \cap H = {} /\ Null \notin E
  BY DEF PointersOf
<1>2. /\ n.at = IF pv = Null THEN l.at ELSE [l.at EXCEPT ![pv] = next]
      /\ n.prev = IF next = Null THEN l.prev ELSE [l.prev EXCEPT ![next] = pv]
  BY DEF LIST_REMOVE
<1>3. next \in E \cup {Null} /\ pv \in E \cup H \cup {Null}
  BY <1>1
<1> HIDE DEF n, next, pv
<1>4. n.at \in [E \cup H -> E \cup {Null}]
  BY <1>1, <1>2, <1>3
<1>5. n.prev \in [E -> E \cup H \cup {Null}]
  BY <1>1, <1>2, <1>3
<1>6. QED BY <1>1, <1>4, <1>5 DEF PointersOf, n

\* LIST_INSERT_HEAD prepends, and disturbs no other list.
LEMMA InsertHead ==
  ASSUME NEW l, NEW E, NEW H, PointersOf(l, E, H), NEW h \in H, NEW e \in E,
         NEW s \in Seq(E), IsInjective(s), e \notin Range(s), Represents(l, h, s)
  PROVE  LET n == LIST_INSERT_HEAD(l, h, e)
         IN /\ PointersOf(n, E, H) /\ n.at[h] = e
            /\ Represents(n, h, <<e>> \o s)
            /\ \A g \in H, r \in Seq(E) :
                 g # h /\ e \notin Range(r) /\ Range(r) \cap Range(s) = {} /\ Represents(l, g, r)
                   => Represents(n, g, r)
<1> DEFINE n == LIST_INSERT_HEAD(l, h, e)
           first == l.at[h]
           told == IF first = Null THEN l.prev ELSE [l.prev EXCEPT ![first] = e]
           t == <<e>> \o s
<1>1. /\ l.at \in [E \cup H -> E \cup {Null}] /\ l.prev \in [E -> E \cup H \cup {Null}]
      /\ E \cap H = {} /\ Null \notin E
  BY DEF PointersOf
<1>2. /\ Len(s) \in Nat /\ DOMAIN s = 1 .. Len(s)
      /\ t \in Seq(E) /\ Len(t) = Len(s) + 1 /\ DOMAIN t = 1 .. Len(s) + 1
      /\ t[1] = e /\ \A i \in 2 .. Len(s) + 1 : t[i] = s[i - 1]
  BY Prepended
<1>3. /\ \A i \in 1 .. Len(s) : s[i] \in E /\ s[i] \in Range(s) /\ s[i] # e
      /\ \A i, j \in 1 .. Len(s) : s[i] = s[j] => i = j
      /\ s = <<>> <=> Len(s) = 0
  <2>1. \A i \in 1 .. Len(s) : s[i] \in E
    BY <1>2
  <2>2. \A i \in 1 .. Len(s) : s[i] \in Range(s)
    BY <1>2 DEF Range
  <2>3. \A i, j \in 1 .. Len(s) : s[i] = s[j] => i = j
    BY <1>2 DEF IsInjective
  <2>4. s = <<>> <=> Len(s) = 0
    BY EmptySeq
  <2>5. QED BY <2>1, <2>2, <2>3, <2>4
<1>4. first = (IF s = <<>> THEN Null ELSE s[1]) /\ first \in E \cup {Null}
  BY <1>1 DEF Represents
<1>5. n.at = [l.at EXCEPT ![e] = first, ![h] = e] /\ n.prev = [told EXCEPT ![e] = h]
  BY DEF LIST_INSERT_HEAD
<1> HIDE DEF n, first
<1>6. told \in [E -> E \cup H \cup {Null}]
      /\ \A x \in E : told[x] = IF x = first /\ first # Null THEN e ELSE l.prev[x]
  BY <1>1, <1>4
<1> HIDE DEF told
<1>7. /\ n.at \in [E \cup H -> E \cup {Null}] /\ n.at[h] = e /\ n.at[e] = first
      /\ \A x \in E \cup H : x # e /\ x # h => n.at[x] = l.at[x]
  BY <1>1, <1>4, <1>5
<1>8. /\ n.prev \in [E -> E \cup H \cup {Null}] /\ n.prev[e] = h
      /\ \A x \in E : x # e => n.prev[x] = told[x]
  BY <1>5, <1>6
<1>9. PointersOf(n, E, H)
  BY <1>1, <1>7, <1>8 DEF PointersOf
<1>10. Represents(n, h, t)
  <2>1. t # <<>> /\ n.at[h] = t[1]
    BY <1>2, <1>7, EmptySeq
  <2>2. ASSUME NEW i \in 1 .. Len(t)
        PROVE  n.at[t[i]] = IF i = Len(t) THEN Null ELSE t[i + 1]
    <3>1. CASE i = 1
      <4>1. n.at[t[i]] = first
        BY <3>1, <1>2, <1>7
      <4>2. CASE Len(s) = 0
        BY <4>1, <4>2, <3>1, <1>2, <1>3, <1>4
      <4>3. CASE Len(s) # 0
        <5>1. i # Len(t) /\ t[i + 1] = s[1]
          BY <4>3, <3>1, <1>2
        <5>2. QED BY <4>1, <4>3, <5>1, <1>3, <1>4
      <4>4. QED BY <4>2, <4>3
    <3>2. CASE i # 1
      <4>1. i - 1 \in 1 .. Len(s) /\ t[i] = s[i - 1]
        BY <3>2, <1>2
      <4>2. n.at[t[i]] = l.at[s[i - 1]]
        BY <4>1, <1>1, <1>3, <1>7
      <4>3. l.at[s[i - 1]] = IF i - 1 = Len(s) THEN Null ELSE s[(i - 1) + 1]
        BY <4>1 DEF Represents
      <4>4. (i - 1) + 1 = i /\ (i - 1 = Len(s) <=> i = Len(t))
        BY <1>2
      <4>5. i # Len(t) => t[i + 1] = s[i]
        <5>1. i # Len(t) => i + 1 \in 2 .. Len(s) + 1 /\ (i + 1) - 1 = i
          BY <3>2, <1>2
        <5>2. QED BY <5>1, <1>2
      <4>6. QED BY <4>2, <4>3, <4>4, <4>5
    <3>3. QED BY <3>1, <3>2
  <2>3. ASSUME NEW i \in 1 .. Len(t)
        PROVE  n.prev[t[i]] = IF i = 1 THEN h ELSE t[i - 1]
    <3>1. CASE i = 1
      BY <3>1, <1>2, <1>8
    <3>2. CASE i = 2
      <4>1. t[2] = s[1] /\ 1 \in 1 .. Len(s)
        BY <3>2, <1>2
      <4>2. first = s[1] /\ first # Null
        BY <4>1, <1>1, <1>3, <1>4
      <4>3. told[s[1]] = e
        BY <4>1, <4>2, <1>3, <1>6
      <4>4. QED BY <4>1, <4>3, <3>2, <1>2, <1>3, <1>8
    <3>3. CASE i > 2
      <4>1. i - 1 \in 1 .. Len(s) /\ i - 2 \in 1 .. Len(s) /\ t[i] = s[i - 1] /\ t[i - 1] = s[i - 2]
        <5>1. i \in 2 .. Len(s) + 1 /\ i - 1 \in 2 .. Len(s) + 1 /\ (i - 1) - 1 = i - 2
          BY <3>3, <1>2
        <5>2. QED BY <5>1, <1>2
      <4>2. s[i - 1] # first
        <5>1. first = s[1] /\ 1 \in 1 .. Len(s) /\ i - 1 # 1
          BY <4>1, <3>3, <1>2, <1>3, <1>4
        <5>2. QED BY <5>1, <4>1, <1>3
      <4>3. n.prev[t[i]] = l.prev[s[i - 1]]
        BY <4>1, <4>2, <1>3, <1>6, <1>8
      <4>4. l.prev[s[i - 1]] = s[(i - 1) - 1]
        BY <4>1, <3>3 DEF Represents
      <4>5. (i - 1) - 1 = i - 2
        BY <1>2
      <4>6. QED BY <4>1, <4>3, <4>4, <4>5, <3>3
    <3>4. QED BY <3>1, <3>2, <3>3, <1>2
  <2>4. QED BY <2>1, <2>2, <2>3 DEF Represents
<1>11. ASSUME NEW g \in H, NEW r \in Seq(E), g # h, e \notin Range(r),
              Range(r) \cap Range(s) = {}, Represents(l, g, r)
       PROVE  Represents(n, g, r)
  <2>1. Len(r) \in Nat /\ DOMAIN r = 1 .. Len(r) /\ \A i \in 1 .. Len(r) : r[i] \in E /\ r[i] \in Range(r)
    BY LenProperties DEF Range
  <2>2. \A i \in 1 .. Len(r) : r[i] # e /\ (first # Null => r[i] # first)
    <3>1. first # Null => first \in Range(s)
      <4>1. first # Null => 1 \in 1 .. Len(s) /\ first = s[1]
        BY <1>2, <1>3, <1>4
      <4>2. QED BY <4>1, <1>3
    <3>2. QED BY <3>1, <2>1, <1>11
  <2>3. \A i \in 1 .. Len(r) : n.at[r[i]] = l.at[r[i]] /\ n.prev[r[i]] = l.prev[r[i]]
    BY <2>1, <2>2, <1>1, <1>6, <1>7, <1>8
  <2>4. n.at[g] = l.at[g]
    BY <1>1, <1>7, <1>11
  <2>5. QED BY <2>3, <2>4, <1>11 DEF Represents
<1>12. QED BY <1>7, <1>9, <1>10, <1>11 DEF n

\* Nor does it touch an element that is on no list.
LEMMA InsertHeadLeaves ==
  ASSUME NEW l, NEW E, NEW H, PointersOf(l, E, H), NEW h \in H, NEW e \in E,
         NEW s \in Seq(E), Represents(l, h, s), NEW x \in E, x # e, x \notin Range(s)
  PROVE  LET n == LIST_INSERT_HEAD(l, h, e)
         IN n.at[x] = l.at[x] /\ n.prev[x] = l.prev[x]
<1> DEFINE n == LIST_INSERT_HEAD(l, h, e)
           first == l.at[h]
           told == IF first = Null THEN l.prev ELSE [l.prev EXCEPT ![first] = e]
<1>1. /\ l.at \in [E \cup H -> E \cup {Null}] /\ l.prev \in [E -> E \cup H \cup {Null}]
      /\ E \cap H = {} /\ Null \notin E
  BY DEF PointersOf
<1>2. first # Null => first \in Range(s)
  <2>1. Len(s) \in Nat /\ DOMAIN s = 1 .. Len(s) /\ (s = <<>> <=> Len(s) = 0)
    BY LenProperties, EmptySeq
  <2>2. first = IF s = <<>> THEN Null ELSE s[1]
    BY DEF Represents
  <2>3. first # Null => 1 \in DOMAIN s /\ first = s[1]
    BY <2>1, <2>2
  <2>4. QED BY <2>3 DEF Range
<1>3. n.at = [l.at EXCEPT ![e] = first, ![h] = e] /\ n.prev = [told EXCEPT ![e] = h]
  BY DEF LIST_INSERT_HEAD
<1>4. first \in E \cup {Null} /\ x # h /\ x # first
  BY <1>1, <1>2
<1> HIDE DEF n, first
<1>5. told[x] = l.prev[x] /\ DOMAIN told = E
  BY <1>1, <1>4
<1>6. n.at[x] = l.at[x]
  BY <1>1, <1>3, <1>4
<1> HIDE DEF told
<1>7. n.prev[x] = l.prev[x]
  BY <1>3, <1>5
<1>8. QED BY <1>6, <1>7 DEF n

\* A sequence without its k-th element.
Without(s, k) == [i \in 1 .. Len(s) - 1 |-> IF i < k THEN s[i] ELSE s[i + 1]]

LEMMA WithoutInjective ==
  ASSUME NEW S, NEW s \in Seq(S), IsInjective(s), NEW k \in 1 .. Len(s)
  PROVE  /\ Without(s, k) \in Seq(S)
         /\ Len(Without(s, k)) = Len(s) - 1
         /\ IsInjective(Without(s, k))
         /\ Range(Without(s, k)) = Range(s) \ {s[k]}
<1> DEFINE t == Without(s, k)
<1>1. Len(s) \in Nat /\ DOMAIN s = 1 .. Len(s) /\ Len(s) - 1 \in Nat
  BY LenProperties
<1>2. \A i \in 1 .. Len(s) : s[i] \in S
  BY <1>1
<1>3. /\ t = [i \in 1 .. Len(s) - 1 |-> t[i]]
      /\ \A i \in 1 .. Len(s) - 1 : t[i] = IF i < k THEN s[i] ELSE s[i + 1]
  BY DEF Without
<1> HIDE DEF t
<1>4. \A i \in 1 .. Len(s) - 1 : t[i] \in S
  <2> TAKE i \in 1 .. Len(s) - 1
  <2>1. i \in 1 .. Len(s) /\ i + 1 \in 1 .. Len(s)
    BY <1>1
  <2>2. QED BY <2>1, <1>2, <1>3
<1>5. t \in Seq(S) /\ Len(t) = Len(s) - 1 /\ DOMAIN t = 1 .. Len(s) - 1
  <2>1. t \in [1 .. Len(s) - 1 -> S]
    BY <1>3, <1>4
  <2>2. t \in Seq(S)
    BY <2>1, <1>1
  <2>3. DOMAIN t = 1 .. Len(s) - 1
    BY <2>1
  <2>4. Len(t) \in Nat /\ DOMAIN t = 1 .. Len(t)
    BY <2>2, LenProperties
  <2>5. Len(t) = Len(s) - 1
    <3>1. \A i : i \in 1 .. Len(t) <=> i \in 1 .. Len(s) - 1
      BY <2>3, <2>4, Zenon
    <3>2. (Len(t) \in 1 .. Len(t) <=> Len(t) \in 1 .. Len(s) - 1)
          /\ (Len(s) - 1 \in 1 .. Len(t) <=> Len(s) - 1 \in 1 .. Len(s) - 1)
      BY <3>1, Zenon
    <3>3. PICK a \in Nat, b \in Nat : a = Len(t) /\ b = Len(s) - 1
      BY <2>4, <1>1
    <3>4. (a \in 1 .. a <=> a \in 1 .. b) /\ (b \in 1 .. a <=> b \in 1 .. b)
      BY <3>2, <3>3, Zenon
    <3>5. a = b
      BY <3>4
    <3>6. QED BY <3>3, <3>5, Zenon
  <2>6. QED BY <2>2, <2>3, <2>5
<1>6. \A i, j \in 1 .. Len(s) : s[i] = s[j] => i = j
  BY <1>1 DEF IsInjective
<1>7. IsInjective(t)
  <2>1. ASSUME NEW i \in 1 .. Len(s) - 1, NEW j \in 1 .. Len(s) - 1, t[i] = t[j] PROVE i = j
    <3>1. {i, j, i + 1, j + 1} \subseteq 1 .. Len(s)
      BY <1>1
    <3>2. QED BY <2>1, <3>1, <1>3, <1>6
  <2>2. QED BY <2>1, <1>5 DEF IsInjective
<1>8. ASSUME NEW i \in 1 .. Len(s) - 1 PROVE t[i] \in Range(s) /\ t[i] # s[k]
  <2>1. {i, i + 1} \subseteq 1 .. Len(s)
    BY <1>1
  <2>2. QED BY <2>1, <1>1, <1>3, <1>6 DEF Range
<1>9. ASSUME NEW j \in 1 .. Len(s), s[j] # s[k] PROVE s[j] \in Range(t)
  <2>1. CASE j < k
    <3>1. j \in 1 .. Len(s) - 1 /\ t[j] = s[j]
      BY <2>1, <1>1, <1>3
    <3>2. QED BY <3>1, <1>5 DEF Range
  <2>2. CASE j > k
    <3>1. j - 1 \in 1 .. Len(s) - 1 /\ ~(j - 1 < k) /\ (j - 1) + 1 = j
      BY <2>2, <1>1
    <3>2. t[j - 1] = s[j]
      BY <3>1, <1>3
    <3>3. QED BY <3>1, <3>2, <1>5 DEF Range
  <2>3. QED BY <2>1, <2>2, <1>9
<1>10. Range(t) = Range(s) \ {s[k]}
  BY <1>1, <1>5, <1>8, <1>9 DEF Range
<1>11. QED BY <1>5, <1>7, <1>10 DEF t

\* LIST_REMOVE of the k-th element, wherever it is in the list, takes out that
\* element, and disturbs no other list and no element on no list.
LEMMA RemoveElement ==
  ASSUME NEW l, NEW E, NEW H, PointersOf(l, E, H), Null \notin H, NEW h \in H,
         NEW s \in Seq(E), IsInjective(s), Represents(l, h, s), NEW k \in 1 .. Len(s)
  PROVE  LET n == LIST_REMOVE(l, s[k])
         IN /\ PointersOf(n, E, H)
            /\ Represents(n, h, Without(s, k))
            /\ \A g \in H, r \in Seq(E) :
                 g # h /\ Range(r) \cap Range(s) = {} /\ Represents(l, g, r) => Represents(n, g, r)
            /\ \A x \in E : x \notin Range(s) => n.at[x] = l.at[x] /\ n.prev[x] = l.prev[x]
<1> DEFINE n == LIST_REMOVE(l, s[k])
           t == Without(s, k)
           next == IF k = Len(s) THEN Null ELSE s[k + 1]
           pv == IF k = 1 THEN h ELSE s[k - 1]
<1>1. /\ l.at \in [E \cup H -> E \cup {Null}] /\ l.prev \in [E -> E \cup H \cup {Null}]
      /\ E \cap H = {} /\ Null \notin E
  BY DEF PointersOf
<1>2. PICK m \in Nat : m = Len(s)
  BY LenProperties
<1>3. /\ DOMAIN s = 1 .. m /\ k \in 1 .. m
      /\ \A i \in 1 .. m : s[i] \in E /\ s[i] \in Range(s)
      /\ \A i, j \in 1 .. m : s[i] = s[j] => i = j
  <2>1. DOMAIN s = 1 .. m /\ \A i \in 1 .. m : s[i] \in E
    BY <1>2, LenProperties
  <2>2. QED BY <2>1, <1>2 DEF Range, IsInjective
<1>4. /\ l.at[h] = s[1]
      /\ \A i \in 1 .. m : l.at[s[i]] = IF i = m THEN Null ELSE s[i + 1]
      /\ \A i \in 1 .. m : l.prev[s[i]] = IF i = 1 THEN h ELSE s[i - 1]
  <2>1. s # <<>>
    BY <1>2, <1>3, EmptySeq
  <2>2. QED BY <2>1, <1>2 DEF Represents
<1>5. l.at[s[k]] = next /\ l.prev[s[k]] = pv
  BY <1>2, <1>3, <1>4
<1>6. /\ next # Null => k + 1 \in 1 .. m /\ next = s[k + 1] /\ next \in E /\ next \in Range(s)
      /\ next = Null <=> k = m
  <2>1. k # m => k + 1 \in 1 .. m
    BY <1>2, <1>3
  <2>2. QED BY <2>1, <1>1, <1>2, <1>3
<1>7. /\ k = 1 => pv = h
      /\ k # 1 => k - 1 \in 1 .. m /\ pv = s[k - 1] /\ pv \in Range(s)
      /\ pv \in E \cup H /\ pv # Null
  <2>1. k # 1 => k - 1 \in 1 .. m
    BY <1>2, <1>3
  <2>2. QED BY <2>1, <1>1, <1>2, <1>3
<1> HIDE DEF next, pv
<1>8. n.at = [l.at EXCEPT ![pv] = next]
      /\ n.prev = IF next = Null THEN l.prev ELSE [l.prev EXCEPT ![next] = pv]
  BY <1>5, <1>7 DEF LIST_REMOVE
<1> HIDE DEF n
<1>9. /\ n.at \in [E \cup H -> E \cup {Null}] /\ n.at[pv] = next
      /\ \A x \in E \cup H : x # pv => n.at[x] = l.at[x]
  BY <1>1, <1>6, <1>7, <1>8
<1>10. /\ n.prev \in [E -> E \cup H \cup {Null}] /\ (next # Null => n.prev[next] = pv)
       /\ \A x \in E : x # next => n.prev[x] = l.prev[x]
  <2>1. CASE next = Null
    BY <2>1, <1>1, <1>8
  <2>2. CASE next # Null
    BY <2>2, <1>1, <1>6, <1>7, <1>8
  <2>3. QED BY <2>1, <2>2
<1>11. PointersOf(n, E, H)
  BY <1>1, <1>9, <1>10 DEF PointersOf
<1>12. /\ t \in Seq(E) /\ Len(t) = m - 1
       /\ \A i \in 1 .. m - 1 : t[i] = IF i < k THEN s[i] ELSE s[i + 1]
       /\ t = <<>> <=> m = 1
  <2>1. t \in Seq(E) /\ Len(t) = m - 1
    BY <1>2, WithoutInjective
  <2>2. \A i \in 1 .. m - 1 : t[i] = IF i < k THEN s[i] ELSE s[i + 1]
    BY <1>2 DEF Without
  <2> HIDE DEF t
  <2>3. t = <<>> <=> Len(t) = 0
    BY <2>1, EmptySeq
  <2>4. QED BY <2>1, <2>2, <2>3
<1> HIDE DEF t
<1>13. n.at[h] = IF t = <<>> THEN Null ELSE t[1]
  <2>1. CASE k = 1
    <3>1. n.at[h] = next
      BY <2>1, <1>7, <1>9
    <3>2. m # 1 => 1 \in 1 .. m - 1
      BY <1>3
    <3>3. QED BY <2>1, <3>1, <3>2, <1>6, <1>12
  <2>2. CASE k # 1
    <3>1. n.at[h] = s[1]
      <4>1. h # pv
        BY <2>2, <1>1, <1>3, <1>7
      <4>2. QED BY <4>1, <1>4, <1>9
    <3>2. 1 \in 1 .. m - 1 /\ m # 1 /\ 1 < k
      BY <2>2, <1>3
    <3>3. QED BY <3>1, <3>2, <1>12
  <2>3. QED BY <2>1, <2>2
<1>14. ASSUME NEW i \in 1 .. m - 1
       PROVE  n.at[t[i]] = IF i = m - 1 THEN Null ELSE t[i + 1]
  <2>1. CASE i < k - 1
    <3>1. /\ i \in 1 .. m /\ k - 1 \in 1 .. m /\ i # k - 1 /\ k # 1
          /\ i < k /\ i + 1 < k /\ i + 1 \in 1 .. m - 1 /\ i # m - 1 /\ i # m
      BY <2>1, <1>3
    <3>2. t[i] = s[i] /\ t[i + 1] = s[i + 1]
      BY <3>1, <1>12
    <3>3. s[i] # pv /\ s[i] \in E
      BY <3>1, <1>3, <1>7
    <3>4. QED BY <3>1, <3>2, <3>3, <1>4, <1>9
  <2>2. CASE i = k - 1
    <3>1. i < k /\ i + 1 = k /\ k # 1 /\ (k = m <=> i = m - 1)
      BY <2>2, <1>3
    <3>2. t[i] = pv
      BY <3>1, <2>2, <1>7, <1>12
    <3>3. k # m => k \in 1 .. m - 1 /\ ~(k < k)
      BY <1>3
    <3>4. k # m => t[i + 1] = s[k + 1]
      BY <3>1, <3>3, <1>12
    <3>5. QED BY <3>1, <3>2, <3>4, <1>6, <1>9
  <2>3. CASE i >= k
    <3>1. /\ i + 1 \in 1 .. m /\ ~(i < k) /\ ~(i + 1 < k)
          /\ (i + 1 = m <=> i = m - 1) /\ (i # m - 1 => i + 1 \in 1 .. m - 1) /\ i + 1 # k - 1
      BY <2>3, <1>3
    <3>2. t[i] = s[i + 1] /\ (i # m - 1 => t[i + 1] = s[(i + 1) + 1])
      BY <3>1, <1>12
    <3>3. s[i + 1] # pv /\ s[i + 1] \in E
      <4>1. CASE k = 1
        BY <4>1, <3>1, <1>1, <1>3, <1>7
      <4>2. CASE k # 1
        BY <4>2, <3>1, <1>3, <1>7
      <4>3. QED BY <4>1, <4>2
    <3>4. l.at[s[i + 1]] = IF i + 1 = m THEN Null ELSE s[(i + 1) + 1]
      BY <3>1, <1>4
    <3>5. QED BY <3>1, <3>2, <3>3, <3>4, <1>9
  <2>4. QED BY <2>1, <2>2, <2>3, <1>3
<1>15. ASSUME NEW i \in 1 .. m - 1
       PROVE  n.prev[t[i]] = IF i = 1 THEN h ELSE t[i - 1]
  <2>1. CASE i < k
    <3>1. i \in 1 .. m /\ i # k + 1 /\ (i # 1 => i - 1 \in 1 .. m - 1 /\ i - 1 < k)
      BY <2>1, <1>3
    <3>2. t[i] = s[i] /\ (i # 1 => t[i - 1] = s[i - 1])
      BY <3>1, <2>1, <1>12
    <3>3. s[i] # next /\ s[i] \in E
      BY <3>1, <1>1, <1>3, <1>6
    <3>4. QED BY <3>1, <3>2, <3>3, <1>4, <1>10
  <2>2. CASE i = k
    <3>1. k # m /\ ~(i < k) /\ (k # 1 => k - 1 \in 1 .. m - 1 /\ k - 1 < k)
      BY <2>2, <1>3
    <3>2. t[i] = next /\ next # Null /\ (k # 1 => t[i - 1] = s[k - 1])
      BY <3>1, <2>2, <1>6, <1>12
    <3>3. QED BY <3>2, <2>2, <1>7, <1>10
  <2>3. CASE i > k
    <3>1. /\ i + 1 \in 1 .. m /\ i + 1 # k + 1 /\ i # 1 /\ i + 1 # 1 /\ ~(i < k)
          /\ i - 1 \in 1 .. m - 1 /\ ~(i - 1 < k) /\ (i - 1) + 1 = i /\ (i + 1) - 1 = i
      BY <2>3, <1>3
    <3>2. t[i] = s[i + 1] /\ t[i - 1] = s[i]
      BY <3>1, <1>12
    <3>3. s[i + 1] # next /\ s[i + 1] \in E
      BY <3>1, <1>1, <1>3, <1>6
    <3>4. l.prev[s[i + 1]] = s[i]
      BY <3>1, <1>4
    <3>5. QED BY <3>1, <3>2, <3>3, <3>4, <1>10
  <2>4. QED BY <2>1, <2>2, <2>3, <1>3
<1>16. Represents(n, h, t)
  BY <1>12, <1>13, <1>14, <1>15 DEF Represents
<1>17. ASSUME NEW x \in E, x \notin Range(s) PROVE n.at[x] = l.at[x] /\ n.prev[x] = l.prev[x]
  <2>1. x # pv /\ (next # Null => x # next)
    BY <1>1, <1>6, <1>7, <1>17
  <2>2. x # next
    BY <2>1, <1>1
  <2>3. QED BY <2>1, <2>2, <1>9, <1>10
<1>18. ASSUME NEW g \in H, NEW r \in Seq(E), g # h,
              Range(r) \cap Range(s) = {}, Represents(l, g, r)
       PROVE  Represents(n, g, r)
  <2>1. Len(r) \in Nat /\ DOMAIN r = 1 .. Len(r) /\ \A i \in 1 .. Len(r) : r[i] \in E /\ r[i] \in Range(r)
    BY LenProperties DEF Range
  <2>2. \A i \in 1 .. Len(r) : n.at[r[i]] = l.at[r[i]] /\ n.prev[r[i]] = l.prev[r[i]]
    BY <2>1, <1>17, <1>18
  <2>3. n.at[g] = l.at[g]
    <3>1. g # pv
      BY <1>1, <1>3, <1>7, <1>18
    <3>2. QED BY <3>1, <1>9
  <2>4. QED BY <2>2, <2>3, <1>18 DEF Represents
<1>19. QED BY <1>11, <1>16, <1>17, <1>18 DEF n, t

\* LIST_FOREACH visits the elements in order: what Visited computes, by
\* induction over the steps.
LEMMA VisitedIs ==
  ASSUME NEW l, NEW h, NEW n \in Nat, NEW f,
         f = [i \in 0 .. n |-> f[i]],
         \A i \in 0 .. n : f[i] = IF i = 0 THEN l.at[h]
                                 ELSE IF f[i - 1] = Null THEN Null ELSE l.at[f[i - 1]]
  PROVE  Visited(l, h, n) = f
<1> DEFINE Visits(g) == g = [i \in 0 .. n |-> IF i = 0 THEN l.at[h]
                                              ELSE IF g[i - 1] = Null THEN Null ELSE l.at[g[i - 1]]]
           v == CHOOSE g : Visits(g)
<1>1. Visited(l, h, n) = v
  BY DEF Visited
<1>2. Visits(f)
  OBVIOUS
<1> HIDE DEF Visits
<1>3. Visits(v)
  BY <1>2
<1> HIDE DEF v
<1>4. v = [i \in 0 .. n |-> IF i = 0 THEN l.at[h] ELSE IF v[i - 1] = Null THEN Null ELSE l.at[v[i - 1]]]
  BY <1>3 DEF Visits
<1>5. \A i \in 0 .. n : v[i] = f[i]
  <2> DEFINE Differ == {i \in 0 .. n : v[i] # f[i]}
  <2>1. CASE Differ # {}
    <3>1. PICK x \in Differ : \A y \in Differ : x <= y
      <4> HIDE DEF Differ
      <4>1. Differ \subseteq Nat
        BY DEF Differ
      <4>2. QED BY <4>1, <2>1, LeastNat
    <3>2. CASE x = 0
      BY <3>2, <1>4
    <3>3. CASE x # 0
      <4>1. x - 1 \in 0 .. n /\ x - 1 \notin Differ
        BY <3>1, <3>3
      <4>2. v[x - 1] = f[x - 1]
        BY <4>1
      <4>3. v[x] = f[x]
        BY <4>1, <4>2, <1>4, <3>3, SMTT(30)
      <4>4. QED BY <4>3
    <3>4. QED BY <3>2, <3>3
  <2>2. QED BY <2>1
<1>6. QED BY <1>1, <1>4, <1>5
\* LIST_FOREACH over such a list: its elements in their order, then Null.
Walk(s, n) == [i \in 0 .. n |-> IF i < Len(s) THEN s[i + 1] ELSE Null]

LEMMA Visiting ==
  ASSUME NEW l, NEW E, NEW H, PointersOf(l, E, H), NEW h \in H, NEW s \in Seq(E),
         Represents(l, h, s), NEW n \in Nat, Len(s) <= n
  PROVE  /\ Visited(l, h, n) = Walk(s, n)
         /\ WellFormed(l, h, n)
         /\ Elements(l, h, n) = Range(s)
<1> DEFINE f == Walk(s, n)
<1>1. Len(s) \in Nat /\ DOMAIN s = 1 .. Len(s) /\ Null \notin E /\ (s = <<>> <=> Len(s) = 0)
  BY LenProperties, EmptySeq DEF PointersOf
<1>2. \A i \in 1 .. Len(s) : s[i] \in E /\ s[i] # Null
  BY <1>1
<1>3. \A i \in 0 .. n : f[i] = IF i < Len(s) THEN s[i + 1] ELSE Null
  BY DEF Walk
<1>4. \A i \in 0 .. n : f[i] = Null <=> i >= Len(s)
  BY <1>1, <1>2, <1>3
<1> HIDE DEF f
<1>5. \A i \in 0 .. n : f[i] = IF i = 0 THEN l.at[h] ELSE IF f[i - 1] = Null THEN Null ELSE l.at[f[i - 1]]
  <2> TAKE i \in 0 .. n
  <2>1. CASE i = 0
    BY <2>1, <1>1, <1>3 DEF Represents
  <2>2. CASE i # 0 /\ i > Len(s)
    BY <2>2, <1>1, <1>3, <1>4
  <2>3. CASE i # 0 /\ i <= Len(s)
    <3>1. i - 1 \in 0 .. n /\ i \in 1 .. Len(s) /\ i - 1 < Len(s) /\ (i - 1) + 1 = i
      BY <2>3, <1>1
    <3>2. f[i - 1] = s[i] /\ f[i - 1] # Null
      BY <3>1, <1>2, <1>3
    <3>3. l.at[s[i]] = IF i = Len(s) THEN Null ELSE s[i + 1]
      BY <3>1 DEF Represents
    <3>4. f[i] = IF i = Len(s) THEN Null ELSE s[i + 1]
      <4>1. f[i] = IF i < Len(s) THEN s[i + 1] ELSE Null
        BY <1>3
      <4>2. Len(s) \in Nat /\ i \in Nat /\ i <= Len(s)
        BY <2>3, <1>1
      <4>3. CASE i = Len(s)
        BY <4>1, <4>2, <4>3
      <4>4. CASE i < Len(s)
        BY <4>1, <4>2, <4>4
      <4>5. QED BY <4>2, <4>3, <4>4
    <3>5. QED BY <2>3, <3>2, <3>3, <3>4
  <2>4. QED BY <2>1, <2>2, <2>3, <1>1
<1>6. f = [i \in 0 .. n |-> f[i]]
  BY DEF f, Walk
<1>7. Visited(l, h, n) = f
  BY <1>5, <1>6, VisitedIs
<1>8. WellFormed(l, h, n)
  <2>1. f[n] = Null
    BY <1>1, <1>4
  <2>2. f[0] # Null => l.prev[f[0]] = h
    <3>1. f[0] # Null => 1 \in 1 .. Len(s) /\ f[0] = s[1]
      BY <1>1, <1>3, <1>4
    <3>2. QED BY <3>1 DEF Represents
  <2>3. ASSUME NEW i \in 1 .. n, f[i] # Null PROVE l.prev[f[i]] = f[i - 1]
    <3>1. i < Len(s) /\ i + 1 \in 1 .. Len(s) /\ i - 1 \in 0 .. n /\ i - 1 < Len(s)
      BY <2>3, <1>1, <1>4
    <3>2. f[i] = s[i + 1] /\ f[i - 1] = s[(i - 1) + 1] /\ (i - 1) + 1 = i /\ (i + 1) - 1 = i /\ i + 1 # 1
      BY <3>1, <1>3
    <3>3. l.prev[s[i + 1]] = s[(i + 1) - 1]
      BY <3>1, <3>2 DEF Represents
    <3>4. QED BY <3>2, <3>3
  <2>4. QED BY <2>1, <2>2, <2>3, <1>7 DEF WellFormed
<1>9. Elements(l, h, n) = Range(s)
  <2>1. Elements(l, h, n) = {f[i] : i \in 0 .. n} \ {Null}
    BY <1>7 DEF Elements
  <2>2. ASSUME NEW i \in 0 .. n, f[i] # Null PROVE f[i] \in Range(s)
    <3>1. i + 1 \in DOMAIN s /\ f[i] = s[i + 1]
      BY <2>2, <1>1, <1>3, <1>4
    <3>2. QED BY <3>1 DEF Range
  <2>3. ASSUME NEW j \in DOMAIN s PROVE s[j] \in {f[i] : i \in 0 .. n} /\ s[j] # Null
    <3>1. j - 1 \in 0 .. n /\ j - 1 < Len(s) /\ (j - 1) + 1 = j
      BY <1>1
    <3>2. f[j - 1] = s[j]
      BY <3>1, <1>3
    <3>3. QED BY <3>1, <3>2, <1>1, <1>2
  <2>4. QED BY <2>1, <2>2, <2>3 DEF Range
<1>10. QED BY <1>7, <1>8, <1>9 DEF f
=============================================================================
