------------------------ MODULE AddressSpace_proofs ------------------------
(***************************************************************************)
(* The safety properties of AddressSpace for every number of regions and   *)
(* spaces, every size of page and of the address space, and every request  *)
(* that ends below the top.                                                *)
(*                                                                         *)
(* RegionsDisjoint speaks of sets of addresses modulo the word size; what  *)
(* a step preserves is the order of the ends of regions, which is the same *)
(* as long as no region wraps around, and which needs that a region that   *)
(* is moved is on no live list.                                            *)
(***************************************************************************)
EXTENDS AddressSpace, ListLemmas

\* No region that was ever set up reaches the top of the address space.
NoWrap == \A m \in Regions : mr[m].start + mr[m].length <= Limit

\* One of two locations ends before the other begins.
Apart(x, y) == x.start + x.length <= y.start \/ y.start + y.length <= x.start

Separated ==
  \A a \in spaces : \A i, j \in DOMAIN regions[a] :
    i # j => Apart(mr[regions[a][i]], mr[regions[a][j]])

\* The inductive invariant.
IInv == TypeOK /\ NoWrap /\ Separated /\ ListedOnce /\ MapAssertsHold /\ RefusedOnlyIfTaken

Locations == [start : Addresses, length : Addresses]

-----------------------------------------------------------------------------
\* Division by a page size, or by any other positive number.
LEMMA Division ==
  ASSUME NEW n \in Int, NEW d \in Nat \ {0}
  PROVE  /\ n \div d \in Int /\ n % d \in 0 .. d - 1
         /\ n = (d * (n \div d)) + (n % d)
  OBVIOUS

\* A multiple of a number leaves no remainder.
LEMMA Multiple ==
  ASSUME NEW k \in Int, NEW d \in Nat \ {0}
  PROVE  (d * k) % d = 0
<1> DEFINE q == (d * k) \div d
           r == (d * k) % d
<1>0. d * k \in Int
  OBVIOUS
<1>1. q \in Int /\ r \in 0 .. d - 1 /\ d * k = (d * q) + r
  BY <1>0, Division
<1>2. r = d * (k - q)
  BY <1>1
<1>3. CASE k - q >= 1
  <2>1. d * (k - q) >= d
    BY <1>1, <1>3
  <2>2. QED BY <2>1, <1>1, <1>2
<1>4. CASE k - q <= -1
  <2>1. d * (k - q) <= -d
    BY <1>1, <1>4
  <2>2. QED BY <2>1, <1>1, <1>2
<1>5. CASE k - q = 0
  BY <1>2, <1>5
<1>6. QED BY <1>1, <1>3, <1>4, <1>5

\* The address space is a whole number of pages.
LEMMA WholePages == \E w \in Nat : NAddresses = PageSize * w
<1> DEFINE q == NAddresses \div (2 * PageSize)
<1>1. /\ PageSize \in Nat \ {0} /\ NAddresses \in Nat \ {0}
      /\ 2 * PageSize \in Nat \ {0}
      /\ NAddresses % (2 * PageSize) = 0
  BY AddressAssumption
<1>2. q \in Int /\ NAddresses = (2 * PageSize) * q
  <2> DEFINE d == 2 * PageSize
  <2>1. \A n \in Int, e \in Nat \ {0} : n \div e \in Int /\ n = (e * (n \div e)) + (n % e)
    BY Division
  <2>2. d \in Nat \ {0} /\ NAddresses \in Int
    BY <1>1
  <2> HIDE DEF d
  <2>3. NAddresses \div d \in Int /\ NAddresses = (d * (NAddresses \div d)) + (NAddresses % d)
    BY <2>1, <2>2
  <2>4. d * (NAddresses \div d) \in Int
    BY <2>2, <2>3
  <2>5. NAddresses % d = 0
    BY <1>1 DEF d
  <2>6. QED BY <2>3, <2>4, <2>5 DEF d
<1>3. q \in Nat
  <2>1. CASE q <= -1
    <3>1. (2 * PageSize) * q <= -(2 * PageSize)
      BY <2>1, <1>1, <1>2
    <3>2. QED BY <3>1, <1>1, <1>2
  <2>2. QED BY <2>1, <1>2
<1>4. 2 * q \in Nat /\ NAddresses = PageSize * (2 * q)
  BY <1>1, <1>2, <1>3
<1>5. QED BY <1>4

\* init_region rounds every start to a page boundary of the address space:
\* down in the lower half, up, with the sign, in the upper half.
LEMMA StartRounded ==
  ASSUME NEW start \in Addresses
  PROVE  RoundStart(start) \in Addresses /\ RoundStart(start) % PageSize = 0
<1> DEFINE p == PageSize
           N == NAddresses
<1>1. p \in Nat \ {0} /\ N \in Nat \ {0} /\ start \in 0 .. N - 1
  BY AddressAssumption DEF Addresses
<1>2. PICK w \in Nat : N = p * w
  BY WholePages
<1>3. N \div 2 \in 0 .. N
  BY <1>1
<1>4. ASSUME NEW x \in 0 .. N - 1, NEW k \in Int, x = p * k
      PROVE  x % N \in 0 .. N - 1 /\ (x % N) % p = 0
  <2>1. x % N = x
    BY <1>1
  <2>2. QED BY <2>1, <1>1, <1>4, Multiple
<1>5. CASE start < N \div 2
  <2>1. RoundStart(start) = (start - (start % p)) % N
    BY <1>1, <1>3, <1>5 DEF RoundStart, Remainder, Signed
  <2>2. start \div p \in Int /\ start % p \in 0 .. p - 1 /\ start = (p * (start \div p)) + (start % p)
    BY <1>1, Division
  <2>3. start - (start % p) = p * (start \div p)
    BY <2>2, <1>1
  <2>4. start - (start % p) \in 0 .. N - 1
    <3>1. start \div p >= 0
      BY <1>1
    <3>2. QED BY <3>1, <2>2, <2>3, <1>1
  <2>5. QED BY <2>1, <2>2, <2>3, <2>4, <1>4 DEF Addresses
<1>6. CASE ~(start < N \div 2)
  <2> DEFINE n == N - start
             x == start + (n % p)
  <2>1. n \in 1 .. N
    BY <1>1
  <2>2. RoundStart(start) = x % N
    BY <2>1, <1>1, <1>3, <1>6 DEF RoundStart, Remainder, Signed
  <2>3. n \div p \in Int /\ n % p \in 0 .. p - 1 /\ n = (p * (n \div p)) + (n % p)
    BY <2>1, <1>1, Division
  <2>4. x = p * (w - (n \div p))
    BY <2>1, <2>3, <1>1, <1>2
  <2>5. x \in 0 .. N
    <3>1. n \div p >= 0
      BY <2>1, <1>1
    <3>2. p * (n \div p) >= 0
      BY <3>1, <2>3, <1>1
    <3>3. QED BY <3>2, <2>1, <2>3, <1>1
  <2>6. CASE x = N
    <3>1. x % N = 0
      BY <2>6, <1>1
    <3>2. 0 % p = 0
      BY <1>1
    <3>3. QED BY <3>1, <3>2, <2>2, <1>1 DEF Addresses
  <2>7. CASE x # N
    <3>1. w - (n \div p) \in Int /\ x \in 0 .. N - 1
      BY <2>3, <2>5, <2>7, <1>1
    <3>2. QED BY <3>1, <2>2, <2>4, <1>4 DEF Addresses
  <2>8. QED BY <2>6, <2>7
<1>7. QED BY <1>5, <1>6

\* Every length becomes a whole number of pages.
LEMMA LengthRounded ==
  ASSUME NEW len \in Addresses
  PROVE  RoundLen(len) \in Addresses /\ RoundLen(len) % PageSize = 0
<1> DEFINE p == PageSize
           N == NAddresses
           y == (len + p - 1) % N
<1>1. p \in Nat \ {0} /\ N \in Nat \ {0} /\ len \in 0 .. N - 1
  BY AddressAssumption DEF Addresses
<1>2. y \in 0 .. N - 1
  BY <1>1
<1>3. y \div p \in Int /\ y % p \in 0 .. p - 1 /\ y = (p * (y \div p)) + (y % p)
  BY <1>1, <1>2, Division
<1>4. y \div p >= 0
  BY <1>1, <1>2
<1>5. p * (y \div p) \in 0 .. N - 1
  BY <1>1, <1>2, <1>3, <1>4
<1>6. (p * (y \div p)) % p = 0
  BY <1>1, <1>3, Multiple
<1>7. RoundLen(len) = p * (y \div p)
  BY DEF RoundLen
<1>8. QED BY <1>5, <1>6, <1>7 DEF Addresses

-----------------------------------------------------------------------------
\* Below the limit the addresses of a location are an interval.
LEMMA BytesAreInterval ==
  ASSUME NEW loc \in Locations, loc.start + loc.length <= Limit
  PROVE  /\ loc.start \in Nat /\ loc.length \in Nat
         /\ End(loc) = loc.start + loc.length
         /\ Bytes(loc) = loc.start .. loc.start + loc.length - 1
<1>1. /\ loc.start \in Nat /\ loc.length \in Nat
      /\ NAddresses \in Nat \ {0} /\ Limit \in 0 .. NAddresses - 1
  BY AddressAssumption DEF Locations, Addresses
<1>2. \A n \in 0 .. NAddresses - 1 : n % NAddresses = n
  BY <1>1
<1>3. End(loc) = loc.start + loc.length
  BY <1>1, <1>2 DEF End
<1>4. ASSUME NEW i \in 0 .. loc.length - 1
      PROVE  (loc.start + i) % NAddresses = loc.start + i
  BY <1>1, <1>2
<1>5. Bytes(loc) \subseteq loc.start .. loc.start + loc.length - 1
  BY <1>1, <1>4, SMTT(30) DEF Bytes
<1>6. ASSUME NEW x \in loc.start .. loc.start + loc.length - 1 PROVE x \in Bytes(loc)
  <2>1. x - loc.start \in 0 .. loc.length - 1
    BY <1>1
  <2>2. (loc.start + (x - loc.start)) % NAddresses = x
    BY <2>1, <1>1, <1>4
  <2>3. QED BY <2>1, <2>2 DEF Bytes
<1>7. QED BY <1>1, <1>3, <1>5, <1>6

\* memory_region_compare_to_region tells exactly whether two locations are
\* apart, ...
LEMMA CompareIsApart ==
  ASSUME NEW x \in Locations, x.start + x.length <= Limit,
         NEW y \in Locations, y.start + y.length <= Limit
  PROVE  compare_to_region(x, y) # 0 <=> Apart(x, y)
  BY BytesAreInterval DEF compare_to_region, Apart

\* ... and then they share no address; ...
LEMMA ApartIsDisjoint ==
  ASSUME NEW x \in Locations, x.start + x.length <= Limit,
         NEW y \in Locations, y.start + y.length <= Limit,
         Apart(x, y)
  PROVE  Bytes(x) \cap Bytes(y) = {}
<1>1. /\ x.start \in Nat /\ x.length \in Nat /\ y.start \in Nat /\ y.length \in Nat
      /\ Bytes(x) = x.start .. x.start + x.length - 1
      /\ Bytes(y) = y.start .. y.start + y.length - 1
  BY BytesAreInterval
<1>2. ASSUME NEW i \in Bytes(x), i \in Bytes(y) PROVE FALSE
  <2>1. i \in x.start .. x.start + x.length - 1 /\ i \in y.start .. y.start + y.length - 1
    BY <1>1, <1>2, Zenon
  <2>2. QED BY <1>1, <2>1 DEF Apart
<1>3. QED BY <1>2

\* ... if they are not, there is a reason to refuse one of them.
LEMMA NotApart ==
  ASSUME NEW x \in Locations, x.start + x.length <= Limit,
         NEW y \in Locations, y.start + y.length <= Limit,
         ~Apart(x, y)
  PROVE  \/ Bytes(x) \cap Bytes(y) # {}
         \/ x.length = 0 /\ x.start \in Bytes(y) \ {y.start}
         \/ y.length = 0 /\ y.start \in Bytes(x) \ {x.start}
<1>1. /\ x.start \in Nat /\ x.length \in Nat /\ y.start \in Nat /\ y.length \in Nat
      /\ Bytes(x) = x.start .. x.start + x.length - 1
      /\ Bytes(y) = y.start .. y.start + y.length - 1
  BY BytesAreInterval
<1>2. x.start \in Nat /\ x.length \in Nat /\ y.start \in Nat /\ y.length \in Nat
  BY <1>1, Zenon
<1>3. y.start < x.start + x.length /\ x.start < y.start + y.length
  BY <1>2 DEF Apart
<1>4. CASE x.length = 0
  <2>1. x.start \in y.start .. y.start + y.length - 1 /\ x.start # y.start
    BY <1>2, <1>3, <1>4
  <2>2. QED BY <1>1, <1>4, <2>1, Zenon
<1>5. CASE y.length = 0
  <2>1. y.start \in x.start .. x.start + x.length - 1 /\ y.start # x.start
    BY <1>2, <1>3, <1>5
  <2>2. QED BY <1>1, <1>5, <2>1, Zenon
<1>6. CASE x.length # 0 /\ y.length # 0 /\ x.start <= y.start
  <2>1. /\ y.start \in x.start .. x.start + x.length - 1
        /\ y.start \in y.start .. y.start + y.length - 1
    BY <1>2, <1>3, <1>6
  <2>2. QED BY <1>1, <2>1, Zenon
<1>7. CASE x.length # 0 /\ y.length # 0 /\ y.start < x.start
  <2>1. /\ x.start \in x.start .. x.start + x.length - 1
        /\ x.start \in y.start .. y.start + y.length - 1
    BY <1>2, <1>3, <1>7
  <2>2. QED BY <1>1, <2>1, Zenon
<1>8. x.start <= y.start \/ y.start < x.start
  BY <1>2
<1>9. QED BY <1>4, <1>5, <1>6, <1>7, <1>8, Zenon

-----------------------------------------------------------------------------
\* Before the first call there is nothing to overlap.
LEMMA InitIInv == Init => IInv
<1> SUFFICES ASSUME Init PROVE IInv
  OBVIOUS
<1>1. /\ PageSize \in Nat \ {0} /\ NAddresses \in Nat \ {0} /\ Limit \in 0 .. NAddresses - 1
  BY AddressAssumption
<1>2. 0 % PageSize = 0 /\ 0 \in Addresses
  BY <1>1 DEF Addresses
<1>3. TypeOK
  BY <1>2 DEF Init, TypeOK, Cleared, Outcomes
<1>4. NoWrap
  BY <1>1 DEF Init, NoWrap, Cleared
<1>5. MapAssertsHold
  BY <1>2 DEF Init, MapAssertsHold, Cleared
<1>6. Separated /\ ListedOnce /\ RefusedOnlyIfTaken
  BY DEF Init, Separated, ListedOnce, RefusedOnlyIfTaken
<1>7. QED BY <1>3, <1>4, <1>5, <1>6 DEF IInv

\* The elements of a live list, and that a region on no live list is none.
LEMMA ListFacts ==
  ASSUME TypeOK, NEW a \in spaces
  PROVE  /\ a \in Spaces /\ regions[a] \in Seq(Regions)
         /\ Len(regions[a]) \in Nat /\ DOMAIN regions[a] = 1 .. Len(regions[a])
         /\ \A i \in DOMAIN regions[a] : regions[a][i] \in Regions
         /\ \A m : ~OnALiveList(m) => \A i \in DOMAIN regions[a] : regions[a][i] # m
<1>1. a \in Spaces /\ regions[a] \in Seq(Regions)
  BY DEF TypeOK
<1>2. /\ Len(regions[a]) \in Nat /\ DOMAIN regions[a] = 1 .. Len(regions[a])
      /\ \A i \in DOMAIN regions[a] : regions[a][i] \in Regions
  BY <1>1, LenProperties, ElementOfSeq
<1>3. QED BY <1>1, <1>2 DEF OnALiveList, Contains

\* address_space_init_region: the region that moves is on no live list, so the
\* listed ones stay where they are, and it joins them only if it is apart from
\* all of them.
LEMMA InitRegionKeeps ==
  ASSUME IInv, NEW a \in Spaces, NEW m \in Regions, NEW start \in Starts, NEW len \in Lens,
         init_region(a, m, start, len)
  PROVE  IInv'
<1> DEFINE loc == [start |-> RoundStart(start), length |-> RoundLen(len)]
           old == regions[a]
<1> USE DEF IInv
<1>1. start \in Addresses /\ len \in Addresses
  BY AddressAssumption DEF Addresses
<1>2. /\ loc \in Locations
      /\ loc.start % PageSize = 0 /\ loc.length % PageSize = 0
  BY <1>1, StartRounded, LengthRounded DEF Locations
<1>3. /\ a \in spaces /\ m \in held /\ ~OnALiveList(m)
      /\ loc.start + loc.length <= Limit
      /\ mr' = [mr EXCEPT ![m] = loc]
      /\ spaces' = spaces /\ held' = held
      /\ \/ /\ ~available(a, loc) /\ regions' = regions
            /\ result' = [err |-> "AS_USED", object |-> m]
         \/ /\ available(a, loc) /\ regions' = [regions EXCEPT ![a] = <<m>> \o old]
            /\ result' = [err |-> "AS_SUCCESS", object |-> m]
  BY DEF init_region, Return
<1> HIDE DEF loc
<1>4. /\ mr \in [Regions -> Locations] /\ regions \in [Spaces -> Seq(Regions)]
      /\ spaces \subseteq Spaces
  BY DEF TypeOK, Locations
<1>5. /\ mr' \in [Regions -> Locations] /\ mr'[m] = loc
      /\ \A n \in Regions : n # m => mr'[n] = mr[n]
  BY <1>2, <1>3, <1>4
<1>6. MapAssertsHold'
  BY <1>2, <1>5 DEF MapAssertsHold
<1>7. NoWrap'
  BY <1>3, <1>5 DEF NoWrap
<1>8. ASSUME NEW b \in spaces, NEW i \in DOMAIN regions[b]
      PROVE  /\ regions[b][i] \in Regions /\ regions[b][i] # m
             /\ mr'[regions[b][i]] = mr[regions[b][i]]
  BY <1>3, <1>5, ListFacts
<1>9. CASE ~available(a, loc) /\ regions' = regions /\ result' = [err |-> "AS_USED", object |-> m]
  <2>1. TypeOK'
    BY <1>3, <1>4, <1>5, <1>9 DEF TypeOK, Locations, Outcomes
  <2>2. Separated'
    BY <1>3, <1>8, <1>9 DEF Separated
  <2>3. ListedOnce'
    BY <1>3, <1>9 DEF ListedOnce
  <2>4. RefusedOnlyIfTaken'
    <3>1. PICK i \in DOMAIN old : compare_to_region(loc, mr[old[i]]) = 0
      BY <1>9 DEF available
    <3>2. mr[old[i]] \in Locations /\ mr[old[i]].start + mr[old[i]].length <= Limit
      BY <1>3, <1>4, <1>8 DEF NoWrap
    <3>3. ~Apart(loc, mr[old[i]])
      BY <3>1, <3>2, <1>2, <1>3, CompareIsApart
    <3>4. \/ Bytes(loc) \cap Bytes(mr[old[i]]) # {}
          \/ loc.length = 0 /\ loc.start \in Bytes(mr[old[i]]) \ {mr[old[i]].start}
          \/ mr[old[i]].length = 0 /\ mr[old[i]].start \in Bytes(loc) \ {loc.start}
      BY <3>2, <3>3, <1>2, <1>3, NotApart
    <3>5. mr'[old[i]] = mr[old[i]] /\ mr'[m] = loc /\ result'.object = m
      BY <1>3, <1>5, <1>8, <1>9
    <3>6. a \in spaces' /\ i \in DOMAIN regions'[a] /\ regions'[a][i] = old[i]
      BY <1>3, <1>9
    <3>7. \E b \in spaces' : \E k \in DOMAIN regions'[b] :
            LET x == mr'[result'.object]
                other == mr'[regions'[b][k]]
            IN \/ Bytes(x) \cap Bytes(other) # {}
               \/ x.length = 0 /\ x.start \in Bytes(other) \ {other.start}
               \/ other.length = 0 /\ other.start \in Bytes(x) \ {x.start}
      BY <3>4, <3>5, <3>6
    <3>8. QED BY <3>7 DEF RefusedOnlyIfTaken
  <2>5. QED BY <2>1, <2>2, <2>3, <2>4, <1>6, <1>7
<1>10. CASE /\ available(a, loc) /\ regions' = [regions EXCEPT ![a] = <<m>> \o old]
            /\ result' = [err |-> "AS_SUCCESS", object |-> m]
  <2> DEFINE new == <<m>> \o old
  <2>1. /\ new \in Seq(Regions) /\ Len(old) \in Nat /\ DOMAIN old = 1 .. Len(old)
        /\ DOMAIN new = 1 .. Len(old) + 1
        /\ new[1] = m /\ \A i \in 2 .. Len(old) + 1 : new[i] = old[i - 1]
    <3>1. old \in Seq(Regions)
      BY <1>4
    <3>2. QED BY <3>1, Prepended
  <2>2. /\ regions' \in [Spaces -> Seq(Regions)] /\ regions'[a] = new
        /\ \A b \in Spaces : b # a => regions'[b] = regions[b]
    BY <2>1, <1>4, <1>10
  <2> HIDE DEF new
  <2>3. TypeOK'
    BY <2>2, <1>3, <1>4, <1>5, <1>10 DEF TypeOK, Locations, Outcomes
  <2>4. RefusedOnlyIfTaken'
    BY <1>10 DEF RefusedOnlyIfTaken
  <2>5. ASSUME NEW i \in 2 .. Len(old) + 1
        PROVE  /\ i - 1 \in DOMAIN old /\ new[i] = old[i - 1]
               /\ new[i] \in Regions /\ new[i] # m /\ mr'[new[i]] = mr[old[i - 1]]
    <3>1. i - 1 \in DOMAIN old /\ new[i] = old[i - 1]
      BY <2>1
    <3>2. QED BY <3>1, <1>3, <1>8
  <2>6. ASSUME NEW i \in 2 .. Len(old) + 1 PROVE Apart(loc, mr'[new[i]])
    <3>1. mr[old[i - 1]] \in Locations /\ mr[old[i - 1]].start + mr[old[i - 1]].length <= Limit
      BY <2>5, <1>3, <1>4, <1>8 DEF NoWrap
    <3>2. compare_to_region(loc, mr[old[i - 1]]) # 0
      BY <2>5, <1>10 DEF available
    <3>3. QED BY <3>1, <3>2, <2>5, <1>2, <1>3, CompareIsApart
  <2>7. ASSUME NEW i \in DOMAIN new, NEW j \in DOMAIN new, i # j
        PROVE  Apart(mr'[new[i]], mr'[new[j]])
    <3>1. CASE i = 1
      <4>1. j \in 2 .. Len(old) + 1
        BY <3>1, <2>1, <2>7
      <4>2. QED BY <4>1, <3>1, <2>1, <2>6, <1>5
    <3>2. CASE j = 1
      <4>1. i \in 2 .. Len(old) + 1
        BY <3>2, <2>1, <2>7
      <4>2. Apart(mr'[new[j]], mr'[new[i]])
        BY <4>1, <3>2, <2>1, <2>6, <1>5
      <4>3. QED BY <4>2 DEF Apart
    <3>3. CASE i # 1 /\ j # 1
      <4>1. i \in 2 .. Len(old) + 1 /\ j \in 2 .. Len(old) + 1 /\ i - 1 # j - 1
        BY <3>3, <2>1, <2>7
      <4>2. Apart(mr[old[i - 1]], mr[old[j - 1]])
        BY <4>1, <2>5, <1>3 DEF Separated
      <4>3. QED BY <4>1, <4>2, <2>5
    <3>4. QED BY <3>1, <3>2, <3>3
  <2>8. Separated'
    <3>1. ASSUME NEW b \in spaces, NEW i \in DOMAIN regions'[b], NEW j \in DOMAIN regions'[b], i # j
          PROVE  Apart(mr'[regions'[b][i]], mr'[regions'[b][j]])
      <4>1. CASE b = a
        BY <4>1, <3>1, <2>2, <2>7
      <4>2. CASE b # a
        <5>1. regions'[b] = regions[b]
          BY <4>2, <2>2, <1>4
        <5>2. QED BY <5>1, <3>1, <1>8 DEF Separated
      <4>3. QED BY <4>1, <4>2
    <3>2. QED BY <3>1, <1>3 DEF Separated, Apart
  <2>9. ListedOnce'
    <3>1. ASSUME NEW b \in spaces, NEW i \in DOMAIN regions'[b]
          PROVE  \/ b = a /\ i = 1 /\ regions'[b][i] = m
                 \/ /\ b = a /\ i \in 2 .. Len(old) + 1 /\ i - 1 \in DOMAIN regions[b]
                    /\ regions'[b][i] = regions[b][i - 1] /\ regions'[b][i] # m
                 \/ b # a /\ i \in DOMAIN regions[b] /\ regions'[b][i] = regions[b][i]
                    /\ regions'[b][i] # m
      <4>1. CASE b = a /\ i = 1
        BY <4>1, <2>1, <2>2
      <4>2. CASE b = a /\ i # 1
        <5>1. i \in 2 .. Len(old) + 1
          BY <4>2, <3>1, <2>1, <2>2
        <5>2. QED BY <5>1, <4>2, <2>2, <2>5
      <4>3. CASE b # a
        BY <4>3, <3>1, <2>2, <1>4, <1>8
      <4>4. QED BY <4>1, <4>2, <4>3
    <3>2. ASSUME NEW b \in spaces, NEW c \in spaces,
                 NEW i \in DOMAIN regions'[b], NEW j \in DOMAIN regions'[c]
          PROVE  /\ regions'[b][i] \in held
                 /\ regions'[b][i] = regions'[c][j] => b = c /\ i = j
      <4>1. regions'[b][i] \in held
        BY <3>1, <1>3 DEF ListedOnce
      <4>2. ASSUME regions'[b][i] = regions'[c][j] PROVE b = c /\ i = j
        <5>1. CASE regions'[b][i] = m
          BY <5>1, <4>2, <3>1
        <5>2. CASE regions'[b][i] # m
          <6> DEFINE ki == IF b = a THEN i - 1 ELSE i
                     kj == IF c = a THEN j - 1 ELSE j
          <6>1. /\ ki \in DOMAIN regions[b] /\ regions'[b][i] = regions[b][ki]
                /\ kj \in DOMAIN regions[c] /\ regions'[c][j] = regions[c][kj]
            BY <5>2, <4>2, <3>1
          <6> HIDE DEF ki, kj
          <6>2. b = c /\ ki = kj
            <7>1. regions[b][ki] = regions[c][kj]
              BY <6>1, <4>2
            <7>2. \A x \in DOMAIN regions[b], y \in DOMAIN regions[c] :
                    regions[b][x] = regions[c][y] => b = c /\ x = y
              BY DEF ListedOnce
            <7>3. QED BY <7>1, <7>2, <6>1
          <6> USE DEF ki, kj
          <6>3. CASE b = a
            <7>1. i \in 2 .. Len(old) + 1 /\ j \in 2 .. Len(old) + 1
              BY <6>2, <6>3, <5>2, <4>2, <3>1
            <7>2. QED BY <7>1, <6>2, <6>3, <2>1
          <6>4. CASE b # a
            BY <6>2, <6>4
          <6>5. QED BY <6>3, <6>4
        <5>3. QED BY <5>1, <5>2
      <4>3. QED BY <4>1, <4>2
    <3>3. QED BY <3>2, <1>3 DEF ListedOnce
  <2>10. QED BY <2>3, <2>4, <2>8, <2>9, <1>6, <1>7
<1>11. QED BY <1>3, <1>9, <1>10

\* A call that leaves the lists and the locations of regions alone.
LEMMA SameLists ==
  ASSUME IInv, TypeOK', result'.err # "AS_USED",
         spaces' \subseteq spaces, regions' = regions, mr' = mr, held \subseteq held'
  PROVE  IInv'
<1> USE DEF IInv
<1>1. NoWrap' /\ MapAssertsHold'
  BY DEF NoWrap, MapAssertsHold
<1>2. Separated' /\ ListedOnce'
  BY DEF Separated, ListedOnce
<1>3. RefusedOnlyIfTaken'
  BY DEF RefusedOnlyIfTaken
<1>4. QED BY <1>1, <1>2, <1>3

\* memory_region_alloc clears an object that was not allocated, so it is on no
\* live list.
LEMMA RegionAllocKeeps == ASSUME IInv, memory_region_alloc PROVE IInv'
<1>1. ASSUME NEW m \in Regions \ held, held' = held \cup {m}, mr' = [mr EXCEPT ![m] = Cleared],
             Return("AS_SUCCESS", m), UNCHANGED <<spaces, regions>>
      PROVE  IInv'
  <2>1. TypeOK /\ NoWrap /\ Separated /\ ListedOnce /\ MapAssertsHold
    BY DEF IInv
  <2>2. /\ PageSize \in Nat \ {0} /\ NAddresses \in Nat \ {0} /\ Limit \in 0 .. NAddresses - 1
        /\ 0 % PageSize = 0
    BY AddressAssumption
  <2>3. /\ mr \in [Regions -> Locations] /\ spaces' = spaces /\ regions' = regions
        /\ result' = [err |-> "AS_SUCCESS", object |-> m]
    BY <2>1, <1>1 DEF TypeOK, Locations, Return
  <2>4. /\ mr' \in [Regions -> Locations] /\ mr'[m] = Cleared
        /\ \A n \in Regions : n # m => mr'[n] = mr[n]
    BY <2>2, <2>3, <1>1 DEF Cleared, Locations, Addresses
  <2>5. ASSUME NEW b \in spaces, NEW i \in DOMAIN regions[b]
        PROVE  mr'[regions[b][i]] = mr[regions[b][i]] /\ regions[b][i] \in held'
    <3>1. regions[b][i] \in Regions /\ regions[b][i] \in held
      BY <2>1, ListFacts DEF ListedOnce
    <3>2. QED BY <3>1, <2>4, <1>1
  <2>6. TypeOK'
    BY <2>1, <2>3, <2>4, <1>1 DEF TypeOK, Locations, Outcomes
  <2>7. NoWrap' /\ MapAssertsHold'
    BY <2>1, <2>2, <2>4 DEF NoWrap, MapAssertsHold, Cleared
  <2>8. Separated'
    BY <2>1, <2>3, <2>5 DEF Separated
  <2>9. ListedOnce'
    BY <2>1, <2>3, <2>5 DEF ListedOnce
  <2>10. RefusedOnlyIfTaken'
    BY <2>3 DEF RefusedOnlyIfTaken
  <2>11. QED BY <2>6, <2>7, <2>8, <2>9, <2>10 DEF IInv
<1>2. CASE Return("AS_SUCCESS", NULL) /\ UNCHANGED <<held, mr, spaces, regions>>
  <2>1. TypeOK'
    BY <1>2 DEF IInv, TypeOK, Return, Outcomes
  <2>2. QED BY <2>1, <1>2, SameLists DEF Return
<1>3. QED BY <1>1, <1>2 DEF memory_region_alloc

\* memory_region_free gives back a region that is on no live list.
LEMMA RegionFreeKeeps ==
  ASSUME IInv, NEW m \in Regions, memory_region_free(m) PROVE IInv'
<1> USE DEF IInv
<1>1. /\ ~OnALiveList(m) /\ held' = held \ {m} /\ result' = [err |-> "AS_SUCCESS", object |-> m]
      /\ spaces' = spaces /\ regions' = regions /\ mr' = mr
  BY DEF memory_region_free, Return
<1>2. TypeOK'
  BY <1>1 DEF TypeOK, Outcomes
<1>3. NoWrap' /\ MapAssertsHold' /\ Separated' /\ RefusedOnlyIfTaken'
  BY <1>1 DEF NoWrap, MapAssertsHold, Separated, RefusedOnlyIfTaken
<1>4. ListedOnce'
  <2>1. ASSUME NEW b \in spaces, NEW i \in DOMAIN regions[b] PROVE regions[b][i] # m
    BY <1>1, ListFacts
  <2>2. QED BY <2>1, <1>1 DEF ListedOnce
<1>5. QED BY <1>2, <1>3, <1>4

\* address_space_alloc gives out a space with an empty list, whatever its
\* previous life has left in it.
LEMMA SpaceAllocKeeps == ASSUME IInv, address_space_alloc PROVE IInv'
<1>1. ASSUME NEW a \in Spaces \ spaces, spaces' = spaces \cup {a},
             regions' = [regions EXCEPT ![a] = <<>>],
             Return("AS_SUCCESS", a), UNCHANGED <<held, mr>>
      PROVE  IInv'
  <2> USE DEF IInv
  <2>1. /\ regions \in [Spaces -> Seq(Regions)] /\ spaces \subseteq Spaces
        /\ result' = [err |-> "AS_SUCCESS", object |-> a] /\ held' = held /\ mr' = mr
    BY <1>1 DEF TypeOK, Return
  <2>2. <<>> \in Seq(Regions) /\ DOMAIN <<>> = {}
    OBVIOUS
  <2>3. /\ regions' \in [Spaces -> Seq(Regions)] /\ DOMAIN regions'[a] = {}
        /\ \A b \in spaces : regions'[b] = regions[b]
    BY <2>1, <2>2, <1>1
  <2>4. TypeOK'
    BY <2>1, <2>3, <1>1 DEF TypeOK, Outcomes
  <2>5. NoWrap' /\ MapAssertsHold' /\ RefusedOnlyIfTaken'
    BY <2>1 DEF NoWrap, MapAssertsHold, RefusedOnlyIfTaken
  <2>6. Separated' /\ ListedOnce'
    BY <2>1, <2>3, <1>1 DEF Separated, ListedOnce
  <2>7. QED BY <2>4, <2>5, <2>6
<1>2. CASE Return("fault", NULL) /\ UNCHANGED <<spaces, regions, held, mr>>
  <2>1. TypeOK'
    BY <1>2 DEF IInv, TypeOK, Return, Outcomes
  <2>2. QED BY <2>1, <1>2, SameLists DEF Return
<1>3. QED BY <1>1, <1>2 DEF address_space_alloc

\* Every call of address_space.c preserves the invariant.
LEMMA NextIInv == IInv /\ [Next]_vars => IInv'
<1> SUFFICES ASSUME IInv, [Next]_vars PROVE IInv'
  OBVIOUS
<1>1. CASE UNCHANGED vars
  <2>1. TypeOK' /\ NoWrap' /\ Separated'
    BY <1>1 DEF vars, IInv, TypeOK, NoWrap, Separated
  <2>2. ListedOnce' /\ MapAssertsHold'
    BY <1>1 DEF vars, IInv, ListedOnce, MapAssertsHold
  <2>3. RefusedOnlyIfTaken'
    BY <1>1 DEF vars, IInv, RefusedOnlyIfTaken
  <2>4. QED BY <2>1, <2>2, <2>3 DEF IInv
<1>2. CASE address_space_alloc
  BY <1>2, SpaceAllocKeeps
<1>3. CASE memory_region_alloc
  BY <1>3, RegionAllocKeeps
<1>4. ASSUME NEW a \in Spaces, address_space_free(a) PROVE IInv'
  <2>1. TypeOK'
    BY <1>4 DEF address_space_free, IInv, TypeOK, Return, Outcomes
  <2>2. QED BY <2>1, <1>4, SameLists DEF address_space_free, Return
<1>5. ASSUME NEW m \in Regions, memory_region_free(m) PROVE IInv'
  BY <1>5, RegionFreeKeeps
<1>6. ASSUME NEW a \in Spaces, NEW m \in Regions, init_region_invalid(a, m) PROVE IInv'
  <2>1. TypeOK'
    BY <1>6 DEF init_region_invalid, IInv, TypeOK, Return, Outcomes
  <2>2. QED BY <2>1, <1>6, SameLists DEF init_region_invalid, Return
<1>7. ASSUME NEW a \in Spaces, NEW m \in Regions, NEW start \in Starts, NEW len \in Lens,
             init_region(a, m, start, len)
      PROVE  IInv'
  BY <1>7, InitRegionKeeps
<1>8. QED
  BY <1>1, <1>2, <1>3, <1>4, <1>5, <1>6, <1>7 DEF Next, Running

\* The invariant holds in every reachable state.
THEOREM Invariant == Spec => []IInv
<1>1. IInv /\ [Next]_vars => IInv'
  BY NextIInv
<1> QED
  BY InitIInv, <1>1, PTL DEF Spec

\* Regions, lists and results stay in their domains.
THEOREM TypeCorrect == Spec => []TypeOK
<1>1. IInv => TypeOK
  BY DEF IInv
<1> QED
  BY Invariant, <1>1, PTL

\* What init_region promises: two regions of a live address space share no
\* address, however they were requested, refused, freed and allocated again.
THEOREM Disjoint == Spec => []RegionsDisjoint
<1>1. ASSUME IInv PROVE RegionsDisjoint
  <2>1. ASSUME NEW a \in spaces, NEW i \in DOMAIN regions[a], NEW j \in DOMAIN regions[a], i # j
        PROVE  Bytes(mr[regions[a][i]]) \cap Bytes(mr[regions[a][j]]) = {}
    <3> DEFINE x == mr[regions[a][i]]
               y == mr[regions[a][j]]
    <3>1. /\ x \in Locations /\ x.start + x.length <= Limit
          /\ y \in Locations /\ y.start + y.length <= Limit
      BY <1>1, ListFacts DEF IInv, TypeOK, NoWrap, Locations
    <3>2. Apart(x, y)
      BY <1>1, <2>1 DEF IInv, Separated
    <3>3. QED BY <3>1, <3>2, ApartIsDisjoint
  <2>2. QED BY <2>1 DEF RegionsDisjoint
<1>2. QED BY <1>1, Invariant, PTL

\* A region is on one live list only and once, and it is allocated.
THEOREM Listed == Spec => []ListedOnce
<1>1. IInv => ListedOnce
  BY DEF IInv
<1> QED
  BY Invariant, <1>1, PTL

\* memory_region_map may assert that a region starts on a page boundary and is
\* a whole number of pages long.
THEOREM Aligned == Spec => []MapAssertsHold
<1>1. IInv => MapAssertsHold
  BY DEF IInv
<1> QED
  BY Invariant, <1>1, PTL

\* init_region returns AS_USED only where a listed region is in the way.
THEOREM Refusals == Spec => []RefusedOnlyIfTaken
<1>1. IInv => RefusedOnlyIfTaken
  BY DEF IInv
<1> QED
  BY Invariant, <1>1, PTL

\* An address has an owner exactly if memory_region_compare_to_location says so.
LEMMA CompareIsMember ==
  ASSUME NEW loc \in Locations, loc.start + loc.length <= Limit, NEW addr \in Addresses
  PROVE  compare_to_location(loc, addr) = 0 <=> addr \in Bytes(loc)
<1>1. addr \in Nat
  BY AddressAssumption DEF Addresses
<1>2. QED BY <1>1, BytesAreInterval DEF compare_to_location

\* get_region returns the one region that has the address, or none.
THEOREM Lookup == Spec => []LookupFindsOwner
<1>1. ASSUME IInv PROVE LookupFindsOwner
  <2> SUFFICES ASSUME NEW a \in spaces, NEW addr \in Addresses
               PROVE  LET owners == {m \in ToSet(regions[a]) : addr \in Bytes(mr[m])}
                      IN IF owners = {} THEN get_region(a, addr) = NULL
                                        ELSE owners = {get_region(a, addr)}
    BY DEF LookupFindsOwner
  <2> DEFINE s == regions[a]
             owners == {m \in ToSet(s) : addr \in Bytes(mr[m])}
             I == {i \in 1 .. Len(s) : compare_to_location(mr[s[i]], addr) = 0}
  <2>1. /\ Len(s) \in Nat /\ DOMAIN s = 1 .. Len(s)
        /\ \A i \in 1 .. Len(s) : s[i] \in Regions
    BY <1>1, ListFacts DEF IInv
  <2>2. \A i \in 1 .. Len(s) : /\ mr[s[i]] \in Locations
                               /\ mr[s[i]].start + mr[s[i]].length <= Limit
    BY <1>1, <2>1 DEF IInv, TypeOK, NoWrap, Locations
  <2>3. I = {i \in 1 .. Len(s) : addr \in Bytes(mr[s[i]])}
    BY <2>2, CompareIsMember
  <2>4. get_region(a, addr) = LET hit == IF I # {} THEN Min(I) ELSE 0
                              IN IF hit = 0 THEN NULL ELSE s[hit]
    BY DEF get_region, SelectInSeq
  <2>5. owners = {s[i] : i \in I}
    BY <2>1, <2>3 DEF ToSet
  <2> HIDE DEF I, owners
  <2>6. CASE I = {}
    BY <2>4, <2>5, <2>6 DEF owners
  <2>7. CASE I # {}
    <3>1. PICK i \in I : TRUE
      BY <2>7
    <3>2. i \in 1 .. Len(s) /\ addr \in Bytes(mr[s[i]])
      BY <2>3
    <3>3. ASSUME NEW j \in I PROVE j = i
      <4>1. j \in 1 .. Len(s) /\ addr \in Bytes(mr[s[j]])
        BY <2>3
      <4>2. CASE i # j
        <5>1. Apart(mr[s[i]], mr[s[j]])
          BY <1>1, <4>1, <4>2, <3>2, <2>1 DEF IInv, Separated
        <5>2. Bytes(mr[s[i]]) \cap Bytes(mr[s[j]]) = {}
          BY <5>1, <4>1, <3>2, <2>2, ApartIsDisjoint
        <5>3. QED BY <5>2, <4>1, <3>2
      <4>3. QED BY <4>2
    <3>4. I = {i}
      BY <3>3
    <3>5. Min({i}) = i
      BY <3>2 DEF Min
    <3>6. i # 0
      BY <3>2, <2>1
    <3>7. get_region(a, addr) = s[i]
      BY <3>4, <3>5, <3>6, <2>4
    <3>8. owners = {s[i]}
      BY <3>4, <2>5
    <3>9. QED BY <3>7, <3>8 DEF owners
  <2>8. QED BY <2>6, <2>7
<1>2. QED BY <1>1, Invariant, PTL
=============================================================================
