--------------------------- MODULE Threads_proofs ---------------------------
(***************************************************************************)
(* The safety properties of Threads for every number of threads, address   *)
(* spaces and identifiers and for every error code.                        *)
(***************************************************************************)
EXTENDS Threads, ListLemmas, FiniteSetTheorems

\* struct i686_context has 19 words with names of their own.
LEMMA FieldsDiffer ==
  /\ DOMAIN Fields = 1 .. 19
  /\ \A i, j \in 1 .. 19 : Fields[i] = Fields[j] => i = j
  BY DEF Fields

LEMMA FieldSet ==
  ToSet(Fields) = {"gs", "fs", "es", "ds", "edi", "esi", "ebp", "esp", "ebx", "edx", "ecx",
                   "eax", "int_no", "err_code", "eip", "cs", "eflags", "useresp", "ss"}
  BY DEF Fields, ToSet

LEMMA ContextWord ==
  ASSUME NEW stack, NEW i \in 1 .. 19
  PROVE  Context(stack)[Fields[i]] = stack[i]
<1>1. (CHOOSE j \in DOMAIN Fields : Fields[j] = Fields[i]) = i
  BY FieldsDiffer
<1>2. Fields[i] \in ToSet(Fields)
  BY FieldsDiffer DEF ToSet
<1>3. QED BY <1>1, <1>2 DEF Context

LEMMA PoppedDiffer ==
  /\ DOMAIN Popped = 1 .. 19
  /\ \A i, j \in 1 .. 19 : Popped[i] = Popped[j] /\ Popped[i] # "none" => i = j
  BY DEF Popped

LEMMA PoppedWord ==
  ASSUME NEW i \in 1 .. 19, Popped[i] # "none"
  PROVE  (CHOOSE j \in DOMAIN Popped : Popped[j] = Popped[i]) = i
  BY PoppedDiffer

LEMMA RegisterSet ==
  Registers = {"gs", "fs", "es", "ds", "edi", "esi", "ebp", "esp", "ebx", "edx", "ecx", "eax",
               "eip", "cs", "eflags", "ss"}
  BY FieldSet DEF Registers

\* i686_userspace_return pops the word of each register into it, and the
\* user's stack pointer into esp.
LEMMA Returned ==
  ASSUME NEW context
  PROVE  LET popped == i686_userspace_return(context)
         IN /\ \A r \in Registers \ {"esp"} : popped[r] = context[r]
            /\ popped["esp"] = context["useresp"]
<1> DEFINE popped == i686_userspace_return(context)
<1>1. ASSUME NEW i \in 1 .. 19, Popped[i] # "none", Popped[i] \in Registers
      PROVE  popped[Popped[i]] = context[Fields[i]]
  <2>1. (CHOOSE j \in DOMAIN Popped : Popped[j] = Popped[i]) = i
    BY <1>1, PoppedWord
  <2>2. Words(context)[i] = context[Fields[i]]
    BY FieldsDiffer DEF Words
  <2>3. popped[Popped[i]] = Words(context)[CHOOSE j \in DOMAIN Popped : Popped[j] = Popped[i]]
    BY <1>1 DEF i686_userspace_return
  <2>4. QED BY <2>1, <2>2, <2>3
<1>2. \A i \in {1, 2, 3, 4, 5, 6, 7, 9, 10, 11, 12, 15, 16, 17, 19} :
        Popped[i] = Fields[i] /\ Popped[i] # "none"
  <2>1. \A i \in 1 .. 19 : i \notin {8, 13, 14, 18} => Popped[i] = Fields[i]
    BY DEF Popped, Fields
  <2>2. \A i \in 1 .. 19 : Fields[i] # "none"
    BY DEF Fields
  <2>3. QED BY <2>1, <2>2
<1>3. Popped[18] = "esp" /\ Fields[18] = "useresp"
  BY DEF Popped, Fields
<1>4. \A r \in Registers \ {"esp"} :
        \E i \in {1, 2, 3, 4, 5, 6, 7, 9, 10, 11, 12, 15, 16, 17, 19} : Fields[i] = r
  BY RegisterSet DEF Fields
<1>5. "esp" \in Registers
  BY RegisterSet
<1> HIDE DEF popped
<1>6. ASSUME NEW r \in Registers, r # "esp" PROVE popped[r] = context[r]
  <2>1. PICK i \in {1, 2, 3, 4, 5, 6, 7, 9, 10, 11, 12, 15, 16, 17, 19} : Fields[i] = r
    BY <1>4, <1>6
  <2>2. i \in 1 .. 19
    OBVIOUS
  <2>3. QED BY <1>1, <1>2, <2>1, <2>2
<1>7. popped["esp"] = context["useresp"]
  <2>1. 18 \in 1 .. 19
    OBVIOUS
  <2>2. QED BY <1>1, <1>3, <1>5, <2>1
<1>8. QED BY <1>6, <1>7 DEF popped

\* The selectors of a new thread are the ones that i686_setup_gdt made for ring
\* 3: the processor accepts them.
LEMMA NewContextAccepted ==
  LET popped == i686_userspace_return(NewContext)
  IN popped \in [Registers -> Nat] /\ Accepted(popped)
<1> DEFINE popped == i686_userspace_return(NewContext)
<1>1. /\ \A r \in Registers \ {"esp"} : popped[r] = NewContext[r]
      /\ popped["esp"] = NewContext["useresp"]
  BY Returned
<1>2. /\ \A s \in Segments \cup {"ss"} : NewContext[s] = 35
      /\ NewContext["cs"] = 27
  BY FieldSet DEF NewContext, Segments
<1>3. \A f \in ToSet(Fields) : NewContext[f] \in Nat
  BY FieldSet DEF NewContext, Segments
<1>4. popped = [r \in Registers |-> popped[r]]
  BY DEF i686_userspace_return
<1>5. Registers \subseteq ToSet(Fields) /\ "useresp" \in ToSet(Fields)
  BY FieldSet DEF Registers
<1> HIDE DEF popped
<1>6. popped \in [Registers -> Nat]
  BY <1>1, <1>3, <1>4, <1>5
<1>7. Described(35) = [kind |-> "data", dpl |-> 3] /\ Described(27) = [kind |-> "code", dpl |-> 3]
  BY DEF Described, GDT
<1>8. Rpl(35) = 3 /\ Rpl(27) = 3
  BY DEF Rpl
<1>9. (\A s \in Segments \cup {"ss"} : popped[s] = 35) /\ popped["cs"] = 27
  BY <1>1, <1>2, RegisterSet DEF Segments
<1>10. Accepted(popped)
  BY <1>7, <1>8, <1>9 DEF Accepted, AsData, AsStack, AsCode
<1>11. QED BY <1>6, <1>10 DEF popped

-----------------------------------------------------------------------------
\* Where the words of two sequences are in a third.
Joins(c, s, t, n, m) ==
  /\ \A i \in 1 .. n : c[i] = s[i]
  /\ \A i \in 1 .. m : c[n + i] = t[i]

LEMMA Joined ==
  ASSUME NEW S, NEW s \in Seq(S), NEW t \in Seq(S)
  PROVE  s \o t \in Seq(S) /\ Len(s \o t) = Len(s) + Len(t) /\ Joins(s \o t, s, t, Len(s), Len(t))
<1>1. Len(s) \in Nat /\ Len(t) \in Nat
  OBVIOUS
<1>2. /\ s \o t \in Seq(S) /\ Len(s \o t) = Len(s) + Len(t)
      /\ \A i \in 1 .. Len(s) + Len(t) : (s \o t)[i] = IF i <= Len(s) THEN s[i] ELSE t[i - Len(s)]
  BY ConcatProperties
<1>3. \A i \in 1 .. Len(s) : (s \o t)[i] = s[i]
  BY <1>1, <1>2
<1>4. ASSUME NEW i \in 1 .. Len(t) PROVE (s \o t)[Len(s) + i] = t[i]
  <2>1. Len(s) + i \in 1 .. Len(s) + Len(t) /\ ~(Len(s) + i <= Len(s)) /\ (Len(s) + i) - Len(s) = i
    BY <1>1
  <2>2. QED BY <2>1, <1>2
<1>5. Joins(s \o t, s, t, Len(s), Len(t))
  BY <1>3, <1>4 DEF Joins
<1>6. QED BY <1>2, <1>5, Zenon

\* Where the words of its parts are on a stack.
Holds(f, a, b, c, d, x, na, nb, nc, nd, nx) ==
  /\ \A i \in 1 .. na : f[i] = a[i]
  /\ \A i \in 1 .. nb : f[na + i] = b[i]
  /\ \A i \in 1 .. nc : f[na + nb + i] = c[i]
  /\ \A i \in 1 .. nd : f[na + nb + nc + i] = d[i]
  /\ \A i \in 1 .. nx : f[na + nb + nc + nd + i] = x[i]

LEMMA JoinedParts ==
  ASSUME NEW S,
         NEW a \in Seq(S), NEW b \in Seq(S), NEW c \in Seq(S), NEW d \in Seq(S), NEW x \in Seq(S),
         NEW e \in Seq(S), NEW f, f = ((a \o b) \o ((c \o d) \o x)) \o e,
         NEW na \in Nat, NEW nb \in Nat, NEW nc \in Nat, NEW nd \in Nat, NEW nx \in Nat,
         Len(a) = na, Len(b) = nb, Len(c) = nc, Len(d) = nd, Len(x) = nx
  PROVE  Holds(f, a, b, c, d, x, na, nb, nc, nd, nx)
<1>1. PICK ab : ab = a \o b
  OBVIOUS
<1>2. PICK cd : cd = c \o d
  OBVIOUS
<1>3. PICK h : h = cd \o x
  OBVIOUS
<1>4. PICK k : k = ab \o h
  OBVIOUS
<1>5. f = k \o e
  BY <1>1, <1>2, <1>3, <1>4, Zenon
<1>6. ab \in Seq(S) /\ Len(ab) = na + nb /\ Joins(ab, a, b, na, nb)
  BY <1>1, Joined, Zenon
<1>7. cd \in Seq(S) /\ Len(cd) = nc + nd /\ Joins(cd, c, d, nc, nd)
  BY <1>2, Joined, Zenon
<1>8. h \in Seq(S) /\ Len(h) = (nc + nd) + nx /\ Joins(h, cd, x, nc + nd, nx)
  <2>1. h \in Seq(S) /\ Len(h) = Len(cd) + Len(x) /\ Joins(h, cd, x, Len(cd), Len(x))
    BY <1>3, <1>7, Joined, Zenon
  <2>2. QED BY <2>1, <1>7, Zenon
<1>9. k \in Seq(S) /\ Len(k) = (na + nb) + ((nc + nd) + nx) /\ Joins(k, ab, h, na + nb, (nc + nd) + nx)
  <2>1. k \in Seq(S) /\ Len(k) = Len(ab) + Len(h) /\ Joins(k, ab, h, Len(ab), Len(h))
    BY <1>4, <1>6, <1>8, Joined, Zenon
  <2>2. QED BY <2>1, <1>6, <1>8, Zenon
<1>10. Joins(f, k, e, (na + nb) + ((nc + nd) + nx), Len(e))
  BY <1>5, <1>9, Joined, Zenon
<1>11. \A i \in 1 .. na + nb + nc + nd + nx : f[i] = k[i]
  <2>1. na + nb + nc + nd + nx = (na + nb) + ((nc + nd) + nx)
    OBVIOUS
  <2>2. \A i \in 1 .. (na + nb) + ((nc + nd) + nx) : f[i] = k[i]
    BY <1>10, Zenon DEF Joins
  <2>3. QED BY <2>1, <2>2, Zenon
<1>12. ASSUME NEW i \in 1 .. na PROVE f[i] = a[i]
  <2>1. i \in 1 .. na + nb + nc + nd + nx /\ i \in 1 .. na + nb
    OBVIOUS
  <2>2. k[i] = ab[i] /\ ab[i] = a[i]
    BY <2>1, <1>6, <1>9 DEF Joins
  <2>3. QED BY <2>1, <2>2, <1>11
<1>13. ASSUME NEW i \in 1 .. nb PROVE f[na + i] = b[i]
  <2>1. na + i \in 1 .. na + nb + nc + nd + nx /\ na + i \in 1 .. na + nb
    OBVIOUS
  <2>2. k[na + i] = ab[na + i] /\ ab[na + i] = b[i]
    BY <2>1, <1>6, <1>9 DEF Joins
  <2>3. QED BY <2>1, <2>2, <1>11
<1>14. ASSUME NEW i \in 1 .. nc + nd + nx PROVE f[na + nb + i] = h[i]
  <2>1. na + nb + i \in 1 .. na + nb + nc + nd + nx
    OBVIOUS
  <2>2. k[na + nb + i] = h[i]
    BY <1>9 DEF Joins
  <2>3. QED BY <2>1, <2>2, <1>11
<1>15. ASSUME NEW i \in 1 .. nc PROVE f[na + nb + i] = c[i]
  <2>1. i \in 1 .. nc + nd + nx /\ i \in 1 .. nc + nd
    OBVIOUS
  <2>2. h[i] = cd[i] /\ cd[i] = c[i]
    BY <2>1, <1>7, <1>8 DEF Joins
  <2>3. QED BY <2>1, <2>2, <1>14
<1>16. ASSUME NEW i \in 1 .. nd PROVE f[na + nb + nc + i] = d[i]
  <2>1. nc + i \in 1 .. nc + nd + nx /\ nc + i \in 1 .. nc + nd
    OBVIOUS
  <2>2. h[nc + i] = cd[nc + i] /\ cd[nc + i] = d[i]
    BY <2>1, <1>7, <1>8 DEF Joins
  <2>3. f[na + nb + (nc + i)] = h[nc + i]
    BY <2>1, <1>14
  <2>4. na + nb + (nc + i) = na + nb + nc + i
    OBVIOUS
  <2>5. QED BY <2>2, <2>3, <2>4
<1>17. ASSUME NEW i \in 1 .. nx PROVE f[na + nb + nc + nd + i] = x[i]
  <2>1. nc + nd + i \in 1 .. nc + nd + nx
    OBVIOUS
  <2>2. h[nc + nd + i] = x[i]
    BY <1>8 DEF Joins
  <2>3. f[na + nb + (nc + nd + i)] = h[nc + nd + i]
    BY <2>1, <1>14
  <2>4. na + nb + (nc + nd + i) = na + nb + nc + nd + i
    OBVIOUS
  <2>5. QED BY <2>2, <2>3, <2>4
<1>18. QED BY <1>12, <1>13, <1>15, <1>16, <1>17, Zenon DEF Holds

\* What is on the stack above the words of the processor, and these: with the
\* error code or without, they begin at the same place.
StackOf(f, v, err, ring, g) ==
  /\ \A i \in 1 .. 12 : f[i] = Saved(g)[i]
  /\ f[13] = v /\ f[14] = (IF PushesError(v) THEN err ELSE 0)
  /\ f[15] = g["eip"] /\ f[16] = g["cs"] /\ f[17] = g["eflags"]
  /\ ring = 3 => f[18] = g["esp"] /\ f[19] = g["ss"]

LEMMA StackWords ==
  ASSUME NEW g \in [Registers -> Nat], NEW v \in Exceptions, NEW err \in Nat,
         NEW ring \in {0, 3}, NEW below \in Seq(Nat)
  PROVE  StackOf(Frame(v, err, ring, g, below), v, err, ring, g)
<1> DEFINE iretwords == <<g["eip"], g["cs"], g["eflags"]>>
           stackwords == IF ring = 3 THEN <<g["esp"], g["ss"]>> ELSE <<>>
           codeword == IF PushesError(v) THEN <<err>> ELSE <<>>
           fr == Frame(v, err, ring, g, below)
<1>1. \A r \in {"gs", "fs", "es", "ds", "edi", "esi", "ebp", "esp", "ebx", "edx", "ecx", "eax",
                "eip", "cs", "eflags", "ss"} : g[r] \in Nat
  BY RegisterSet
<1>2. v \in Nat /\ (PushesError(v) <=> v \in {8, 17} \cup (10 .. 14))
  BY DEF Exceptions, PushesError
<1>3. PICK a \in Seq(Nat) : a = Saved(g) /\ Len(a) = 12
  <2>1. Saved(g) \in Seq(Nat) /\ Len(Saved(g)) = 12
    BY <1>1 DEF Saved, KernelEsp
  <2>2. QED BY <2>1
<1>5. PICK b \in Seq(Nat) : b = Stub(v)
  <2>1. Stub(v) \in Seq(Nat)
    <3>1. CASE PushesError(v)
      <4>1. Stub(v) = <<v>>
        BY <1>2, <3>1 DEF Stub
      <4>2. QED BY <4>1, <1>2
    <3>2. CASE ~PushesError(v)
      <4>1. Stub(v) = <<v, 0>>
        BY <1>2, <3>2 DEF Stub
      <4>2. QED BY <4>1, <1>2
    <3>3. QED BY <3>1, <3>2
  <2>2. QED BY <2>1
<1>6. PICK c \in Seq(Nat) : c = codeword
  <2>1. codeword \in Seq(Nat)
    OBVIOUS
  <2> HIDE DEF codeword
  <2>2. QED BY <2>1
<1>7. PICK d \in Seq(Nat) : d = iretwords
  <2>1. iretwords \in Seq(Nat)
    BY <1>1
  <2> HIDE DEF iretwords
  <2>2. QED BY <2>1
<1>8. PICK x \in Seq(Nat) : x = stackwords
  <2>1. stackwords \in Seq(Nat)
    BY <1>1
  <2> HIDE DEF stackwords
  <2>2. QED BY <2>1
<1>9. Len(d) = 3 /\ d[1] = g["eip"] /\ d[2] = g["cs"] /\ d[3] = g["eflags"]
  BY <1>7
<1>10. ring = 3 => Len(x) = 2 /\ x[1] = g["esp"] /\ x[2] = g["ss"]
  BY <1>8
<1>11. \/ PushesError(v) /\ Len(b) = 1 /\ Len(c) = 1 /\ b[1] = v /\ c[1] = err
       \/ ~PushesError(v) /\ Len(b) = 2 /\ Len(c) = 0 /\ b[1] = v /\ b[2] = 0
  BY <1>2, <1>5, <1>6 DEF Stub
<1>12. fr = ((a \o b) \o ((c \o d) \o x)) \o below
  BY <1>3, <1>5, <1>6, <1>7, <1>8 DEF Frame, Hardware
<1> HIDE DEF fr
<1>13. PICK nb \in Nat, nc \in Nat, nx \in Nat :
         Len(b) = nb /\ Len(c) = nc /\ Len(x) = nx
  <2>1. Len(b) \in Nat /\ Len(c) \in Nat /\ Len(x) \in Nat
    OBVIOUS
  <2>2. QED BY <2>1
<1>14. /\ \A i \in 1 .. 12 : fr[i] = a[i]
       /\ \A i \in 1 .. nb : fr[12 + i] = b[i]
       /\ \A i \in 1 .. nc : fr[12 + nb + i] = c[i]
       /\ \A i \in 1 .. 3 : fr[12 + nb + nc + i] = d[i]
       /\ \A i \in 1 .. nx : fr[12 + nb + nc + 3 + i] = x[i]
  <2>1. PICK na \in Nat, nd \in Nat : na = 12 /\ nd = 3
    OBVIOUS
  <2>2. /\ fr = ((a \o b) \o ((c \o d) \o x)) \o below
        /\ Len(a) = na /\ Len(b) = nb /\ Len(c) = nc /\ Len(d) = nd /\ Len(x) = nx
    BY <1>3, <1>9, <1>12, <1>13, <2>1, Zenon
  <2>3. Holds(fr, a, b, c, d, x, na, nb, nc, nd, nx)
    BY <2>2, JoinedParts, Zenon
  <2>4. QED BY <2>1, <2>3, Zenon DEF Holds
<1>15. nb + nc = 2 /\ (nb = 1 => nc = 1) /\ (nb = 2 => nc = 0)
  BY <1>11, <1>13
<1>16. fr[13] = v
  <2>1. 1 \in 1 .. nb /\ 12 + 1 = 13
    BY <1>11, <1>13
  <2>2. fr[12 + 1] = b[1]
    BY <2>1, <1>14, Zenon
  <2>3. b[1] = v
    BY <1>11, Zenon
  <2>4. QED BY <2>1, <2>2, <2>3
<1>17. fr[14] = (IF PushesError(v) THEN err ELSE 0)
  <2>1. CASE PushesError(v)
    <3>1. 1 \in 1 .. nc /\ 12 + nb + 1 = 14 /\ c[1] = err
      BY <1>11, <1>13, <2>1
    <3>2. fr[12 + nb + 1] = c[1]
      BY <3>1, <1>14, Zenon
    <3>3. QED BY <3>1, <3>2, <2>1, Zenon
  <2>2. CASE ~PushesError(v)
    <3>1. 2 \in 1 .. nb /\ 12 + 2 = 14 /\ b[2] = 0
      BY <1>11, <1>13, <2>2
    <3>2. fr[12 + 2] = b[2]
      BY <3>1, <1>14, Zenon
    <3>3. QED BY <3>1, <3>2, <2>2, Zenon
  <2>3. QED BY <2>1, <2>2
<1>18. \A i \in 1 .. 3 : fr[14 + i] = d[i]
  <2>1. TAKE i \in 1 .. 3
  <2>2. 12 + nb + nc + i = 14 + i
    BY <1>15
  <2>3. QED BY <2>2, <1>14
<1>19. \A i \in 1 .. nx : fr[17 + i] = x[i]
  <2>1. TAKE i \in 1 .. nx
  <2>2. 12 + nb + nc + 3 + i = 17 + i
    BY <1>15
  <2>3. QED BY <2>2, <1>14
<1>20. fr[15] = d[1] /\ fr[16] = d[2] /\ fr[17] = d[3]
  <2>1. 1 \in 1 .. 3 /\ 2 \in 1 .. 3 /\ 3 \in 1 .. 3 /\ 14 + 1 = 15 /\ 14 + 2 = 16 /\ 14 + 3 = 17
    OBVIOUS
  <2>2. QED BY <2>1, <1>18
<1>21. ring = 3 => fr[18] = x[1] /\ fr[19] = x[2]
  <2>1. ring = 3 => 1 \in 1 .. nx /\ 2 \in 1 .. nx
    BY <1>10, <1>13
  <2>2. 17 + 1 = 18 /\ 17 + 2 = 19
    OBVIOUS
  <2>3. QED BY <2>1, <2>2, <1>19
<1>22. \A i \in 1 .. 12 : fr[i] = Saved(g)[i]
  BY <1>3, <1>14
<1>23. StackOf(fr, v, err, ring, g)
  BY <1>9, <1>10, <1>16, <1>17, <1>20, <1>21, <1>22 DEF StackOf
<1>24. QED BY <1>23 DEF fr

\* The struct i686_context that i686_int_entry gets.
ContextOf(c, v, err, ring, g) ==
  /\ c["int_no"] = v /\ c["err_code"] = (IF PushesError(v) THEN err ELSE 0)
  /\ \A r \in Registers \ {"esp", "ss"} : c[r] = g[r]
  /\ ring = 3 => c["useresp"] = g["esp"] /\ c["ss"] = g["ss"]

LEMMA FrameContext ==
  ASSUME NEW g \in [Registers -> Nat], NEW v \in Exceptions, NEW err \in Nat,
         NEW ring \in {0, 3}, NEW below \in Seq(Nat)
  PROVE  ContextOf(Context(Frame(v, err, ring, g, below)), v, err, ring, g)
<1> DEFINE f == Frame(v, err, ring, g, below)
           c == Context(f)
           e == IF PushesError(v) THEN err ELSE 0
<1>1. /\ \A i \in 1 .. 12 : f[i] = Saved(g)[i]
      /\ f[13] = v /\ f[14] = e
      /\ f[15] = g["eip"] /\ f[16] = g["cs"] /\ f[17] = g["eflags"]
      /\ ring = 3 => f[18] = g["esp"] /\ f[19] = g["ss"]
  <2>1. StackOf(f, v, err, ring, g)
    BY StackWords, Zenon
  <2> HIDE DEF f
  <2>2. QED BY <2>1 DEF StackOf
<1> HIDE DEF f, e
<1>2. ASSUME NEW i \in 1 .. 19, NEW n, Fields[i] = n PROVE c[n] = f[i]
  <2>1. c[Fields[i]] = f[i]
    BY ContextWord, Zenon
  <2>2. QED BY <2>1, <1>2, Zenon
<1> HIDE DEF c
<1>3. c["gs"] = f[1]
  <2>1. 1 \in 1 .. 19 /\ Fields[1] = "gs"
    BY DEF Fields
  <2>2. QED BY <2>1, <1>2
<1>4. c["fs"] = f[2]
  <2>1. 2 \in 1 .. 19 /\ Fields[2] = "fs"
    BY DEF Fields
  <2>2. QED BY <2>1, <1>2
<1>5. c["es"] = f[3]
  <2>1. 3 \in 1 .. 19 /\ Fields[3] = "es"
    BY DEF Fields
  <2>2. QED BY <2>1, <1>2
<1>6. c["ds"] = f[4]
  <2>1. 4 \in 1 .. 19 /\ Fields[4] = "ds"
    BY DEF Fields
  <2>2. QED BY <2>1, <1>2
<1>7. c["edi"] = f[5]
  <2>1. 5 \in 1 .. 19 /\ Fields[5] = "edi"
    BY DEF Fields
  <2>2. QED BY <2>1, <1>2
<1>8. c["esi"] = f[6]
  <2>1. 6 \in 1 .. 19 /\ Fields[6] = "esi"
    BY DEF Fields
  <2>2. QED BY <2>1, <1>2
<1>9. c["ebp"] = f[7]
  <2>1. 7 \in 1 .. 19 /\ Fields[7] = "ebp"
    BY DEF Fields
  <2>2. QED BY <2>1, <1>2
<1>10. c["ebx"] = f[9]
  <2>1. 9 \in 1 .. 19 /\ Fields[9] = "ebx"
    BY DEF Fields
  <2>2. QED BY <2>1, <1>2
<1>11. c["edx"] = f[10]
  <2>1. 10 \in 1 .. 19 /\ Fields[10] = "edx"
    BY DEF Fields
  <2>2. QED BY <2>1, <1>2
<1>12. c["ecx"] = f[11]
  <2>1. 11 \in 1 .. 19 /\ Fields[11] = "ecx"
    BY DEF Fields
  <2>2. QED BY <2>1, <1>2
<1>13. c["eax"] = f[12]
  <2>1. 12 \in 1 .. 19 /\ Fields[12] = "eax"
    BY DEF Fields
  <2>2. QED BY <2>1, <1>2
<1>14. c["int_no"] = f[13]
  <2>1. 13 \in 1 .. 19 /\ Fields[13] = "int_no"
    BY DEF Fields
  <2>2. QED BY <2>1, <1>2
<1>15. c["err_code"] = f[14]
  <2>1. 14 \in 1 .. 19 /\ Fields[14] = "err_code"
    BY DEF Fields
  <2>2. QED BY <2>1, <1>2
<1>16. c["eip"] = f[15]
  <2>1. 15 \in 1 .. 19 /\ Fields[15] = "eip"
    BY DEF Fields
  <2>2. QED BY <2>1, <1>2
<1>17. c["cs"] = f[16]
  <2>1. 16 \in 1 .. 19 /\ Fields[16] = "cs"
    BY DEF Fields
  <2>2. QED BY <2>1, <1>2
<1>18. c["eflags"] = f[17]
  <2>1. 17 \in 1 .. 19 /\ Fields[17] = "eflags"
    BY DEF Fields
  <2>2. QED BY <2>1, <1>2
<1>19. c["useresp"] = f[18]
  <2>1. 18 \in 1 .. 19 /\ Fields[18] = "useresp"
    BY DEF Fields
  <2>2. QED BY <2>1, <1>2
<1>20. c["ss"] = f[19]
  <2>1. 19 \in 1 .. 19 /\ Fields[19] = "ss"
    BY DEF Fields
  <2>2. QED BY <2>1, <1>2
<1>21. f[1] = g["gs"]
  <2>1. 1 \in 1 .. 12 /\ Saved(g)[1] = g["gs"]
    BY DEF Saved
  <2>2. QED BY <2>1, <1>1
<1>22. f[2] = g["fs"]
  <2>1. 2 \in 1 .. 12 /\ Saved(g)[2] = g["fs"]
    BY DEF Saved
  <2>2. QED BY <2>1, <1>1
<1>23. f[3] = g["es"]
  <2>1. 3 \in 1 .. 12 /\ Saved(g)[3] = g["es"]
    BY DEF Saved
  <2>2. QED BY <2>1, <1>1
<1>24. f[4] = g["ds"]
  <2>1. 4 \in 1 .. 12 /\ Saved(g)[4] = g["ds"]
    BY DEF Saved
  <2>2. QED BY <2>1, <1>1
<1>25. f[5] = g["edi"]
  <2>1. 5 \in 1 .. 12 /\ Saved(g)[5] = g["edi"]
    BY DEF Saved
  <2>2. QED BY <2>1, <1>1
<1>26. f[6] = g["esi"]
  <2>1. 6 \in 1 .. 12 /\ Saved(g)[6] = g["esi"]
    BY DEF Saved
  <2>2. QED BY <2>1, <1>1
<1>27. f[7] = g["ebp"]
  <2>1. 7 \in 1 .. 12 /\ Saved(g)[7] = g["ebp"]
    BY DEF Saved
  <2>2. QED BY <2>1, <1>1
<1>28. f[9] = g["ebx"]
  <2>1. 9 \in 1 .. 12 /\ Saved(g)[9] = g["ebx"]
    BY DEF Saved
  <2>2. QED BY <2>1, <1>1
<1>29. f[10] = g["edx"]
  <2>1. 10 \in 1 .. 12 /\ Saved(g)[10] = g["edx"]
    BY DEF Saved
  <2>2. QED BY <2>1, <1>1
<1>30. f[11] = g["ecx"]
  <2>1. 11 \in 1 .. 12 /\ Saved(g)[11] = g["ecx"]
    BY DEF Saved
  <2>2. QED BY <2>1, <1>1
<1>31. f[12] = g["eax"]
  <2>1. 12 \in 1 .. 12 /\ Saved(g)[12] = g["eax"]
    BY DEF Saved
  <2>2. QED BY <2>1, <1>1
<1>32. \A r \in {"gs", "fs", "es", "ds", "edi", "esi", "ebp", "ebx", "edx", "ecx", "eax",
                "eip", "cs", "eflags"} : c[r] = g[r]
  <2>1. c["gs"] = g["gs"] /\ c["fs"] = g["fs"] /\ c["es"] = g["es"] /\ c["ds"] = g["ds"]
    BY <1>3, <1>4, <1>5, <1>6, <1>21, <1>22, <1>23, <1>24, Zenon
  <2>2. c["edi"] = g["edi"] /\ c["esi"] = g["esi"] /\ c["ebp"] = g["ebp"] /\ c["ebx"] = g["ebx"]
    BY <1>7, <1>8, <1>9, <1>10, <1>25, <1>26, <1>27, <1>28, Zenon
  <2>3. c["edx"] = g["edx"] /\ c["ecx"] = g["ecx"] /\ c["eax"] = g["eax"]
    BY <1>11, <1>12, <1>13, <1>29, <1>30, <1>31, Zenon
  <2>4. c["eip"] = g["eip"] /\ c["cs"] = g["cs"] /\ c["eflags"] = g["eflags"]
    BY <1>1, <1>16, <1>17, <1>18, Zenon
  <2>5. QED BY <2>1, <2>2, <2>3, <2>4, Zenon
<1>33. \A r \in Registers \ {"esp", "ss"} : c[r] = g[r]
  BY <1>32, RegisterSet
<1>34. ContextOf(c, v, err, ring, g)
  BY <1>1, <1>14, <1>15, <1>19, <1>20, <1>33 DEF ContextOf, e
<1>35. QED BY <1>34 DEF c, f
-----------------------------------------------------------------------------
Stages == {"alloc", "init", "state", "added", "chosen", "go"}
Heads == {runnable, waiting}

Links == [at : [ThreadSet \cup Heads -> ThreadSet \cup {Null}],
          prev : [ThreadSet -> ThreadSet \cup Heads \cup {Null}]]

Types ==
  /\ mode \in {"boot", "kernel", "reset", "wild", "entered", "user", "hung"}
  /\ thread \in [ThreadSet -> [state : States, tid : Nat, space : Spaces \cup {Null}]]
  /\ sched \in Links
  /\ next_tid \in Nat
  /\ making \in {Nobody} \cup [t : ThreadSet, stage : Stages]
  /\ regs \in [Registers -> Nat]
  /\ mode = "boot" => making = Nobody

LEMMA HeadsApart == runnable # waiting /\ runnable \notin ThreadSet /\ waiting \notin ThreadSet /\ Null \notin ThreadSet
  BY ThreadsAssumption

LEMMA SomeNat ==
  ASSUME NEW r \in Registers
  PROVE  Some(r) \in Nat
<1>1. r \in ToSet(Fields)
  BY DEF Registers
<1>2. \E i \in 1 .. 19 : Fields[i] = r
  BY <1>1, FieldsDiffer DEF ToSet
<1> DEFINE n == CHOOSE i \in DOMAIN Fields : Fields[i] = r
<1>3. n \in 1 .. 19
  BY <1>2, FieldsDiffer
<1>4. Some(r) = 100 + n
  BY DEF Some
<1> HIDE DEF n
<1>5. QED BY <1>3, <1>4

LEMMA Insert ==
  ASSUME Types, NEW h \in Heads, NEW t \in ThreadSet
  PROVE  AddTo(h, t) \in Links
<1> DEFINE first == sched.at[h]
           told == IF first = Null THEN sched.prev ELSE [sched.prev EXCEPT ![first] = t]
           once == [sched.at EXCEPT ![t] = first]
           at == [once EXCEPT ![h] = t]
           prev == [told EXCEPT ![t] = h]
<1>1. /\ sched.at \in [ThreadSet \cup Heads -> ThreadSet \cup {Null}]
      /\ sched.prev \in [ThreadSet -> ThreadSet \cup Heads \cup {Null}]
  BY DEF Types, Links
<1>2. first \in ThreadSet \cup {Null}
  BY <1>1
<1>3. told \in [ThreadSet -> ThreadSet \cup Heads \cup {Null}]
  BY <1>1, <1>2
<1>4. once \in [ThreadSet \cup Heads -> ThreadSet \cup {Null}]
  BY <1>1, <1>2
<1> HIDE DEF told, once
<1>5. /\ prev \in [ThreadSet -> ThreadSet \cup Heads \cup {Null}]
      /\ at \in [ThreadSet \cup Heads -> ThreadSet \cup {Null}]
  BY <1>3, <1>4
<1>6. AddTo(h, t) = [at |-> at, prev |-> prev]
  BY DEF AddTo, LIST_INSERT_HEAD, told, once
<1> HIDE DEF at, prev
<1>7. QED BY <1>5, <1>6 DEF Links

LEMMA TypesStep == Types /\ Next => Types'
<1> SUFFICES ASSUME Types, Next PROVE Types'
  OBVIOUS
<1>1. \A m : (m.stage # "none" /\ m \in {Nobody} \cup [t : ThreadSet, stage : Stages])
               => m \in [t : ThreadSet, stage : Stages]
  BY DEF Nobody
<1>2. ASSUME i686_cpu_init PROVE Types'
  <2>1. /\ mode' \in {"kernel", "reset"} /\ making' = making /\ thread' = thread
        /\ next_tid' = next_tid /\ regs' = regs
        /\ sched' = LIST_INIT(LIST_INIT(sched, runnable), waiting)
    BY <1>2 DEF i686_cpu_init, Types
  <2>2. ASSUME NEW l \in Links,
               NEW h \in Heads
        PROVE  LIST_INIT(l, h) \in Links
    BY DEF LIST_INIT, Links
  <2>3. runnable \in Heads /\ waiting \in Heads
    BY DEF Heads
  <2>4. sched' \in Links
    BY <2>1, <2>2, <2>3 DEF Types
  <2>5. QED BY <2>1, <2>4 DEF Types
<1>3. ASSUME NEW t \in ThreadSet, thread_alloc(t) PROVE Types'
  BY <1>3 DEF thread_alloc, Types, Stages
<1>4. ASSUME NEW t \in ThreadSet, NEW as \in Spaces, common_thread_init(t, as) PROVE Types'
  <2>1. /\ thread' = [thread EXCEPT ![t] = [state |-> "INIT", tid |-> next_tid, space |-> as]]
        /\ next_tid' = (next_tid + 1) % NIds
        /\ making' = [t |-> t, stage |-> "init"]
        /\ mode' = mode /\ mode = "kernel" /\ sched' = sched /\ regs' = regs
    BY <1>4 DEF common_thread_init
  <2>2. NIds \in Nat /\ NIds > 0
    BY ThreadsAssumption, FS_CardinalityType
  <2>3. next_tid' \in Nat
    BY <2>1, <2>2 DEF Types
  <2>4. thread' \in [ThreadSet -> [state : States, tid : Nat, space : Spaces \cup {Null}]]
    BY <2>1 DEF Types, States
  <2>5. QED BY <2>1, <2>3, <2>4 DEF Types, Stages
<1>5. ASSUME NEW t \in ThreadSet, NEW state \in States, SetState(t, state) PROVE Types'
  <2>1. /\ thread' = [thread EXCEPT ![t].state = state]
        /\ making' = [t |-> t, stage |-> "state"]
        /\ mode' = mode /\ mode = "kernel" /\ sched' = sched /\ next_tid' = next_tid /\ regs' = regs
    BY <1>5 DEF SetState
  <2>2. thread' \in [ThreadSet -> [state : States, tid : Nat, space : Spaces \cup {Null}]]
    BY <2>1 DEF Types
  <2>3. QED BY <2>1, <2>2 DEF Types, Stages
<1>6. ASSUME NEW t \in ThreadSet, common_scheduler_thread_add(t) PROVE Types'
  <2>1. /\ \/ sched' = AddTo(runnable, t) /\ making' = [t |-> t, stage |-> "added"]
           \/ sched' = AddTo(waiting, t) /\ making' = Nobody
           \/ sched' = sched /\ making' = Nobody
        /\ mode' = mode /\ mode = "kernel" /\ thread' = thread /\ next_tid' = next_tid /\ regs' = regs
    BY <1>6 DEF common_scheduler_thread_add
  <2>2. sched' \in Links
    <3>1. runnable \in Heads /\ waiting \in Heads
      BY DEF Heads
    <3>2. AddTo(runnable, t) \in Links /\ AddTo(waiting, t) \in Links
      BY <3>1, Insert
    <3>3. QED BY <2>1, <3>2 DEF Types
  <2>3. QED BY <2>1, <2>2 DEF Types, Stages
<1>7. ASSUME Another PROVE Types'
  BY <1>7 DEF Another, Types
<1>8. ASSUME common_scheduler_reschedule PROVE Types'
  <2>1. making \in [t : ThreadSet, stage : Stages]
    BY <1>8, <1>1 DEF common_scheduler_reschedule, Types
  <2>2. making' \in [t : ThreadSet, stage : Stages]
    BY <2>1, <1>8 DEF common_scheduler_reschedule, Stages
  <2>3. QED BY <1>8, <2>2 DEF common_scheduler_reschedule, Types
<1>9. ASSUME SetContext PROVE Types'
  <2>1. making \in [t : ThreadSet, stage : Stages]
    BY <1>9, <1>1 DEF SetContext, Types
  <2>2. making' \in [t : ThreadSet, stage : Stages]
    BY <2>1, <1>9 DEF SetContext, Stages
  <2>3. QED BY <1>9, <2>2 DEF SetContext, Types
<1>10. ASSUME i686_scheduler_resume PROVE Types'
  <2>1. /\ mode' = "entered" /\ regs' = i686_userspace_return(NewContext) /\ making' = Nobody
        /\ thread' = thread /\ sched' = sched /\ next_tid' = next_tid
    BY <1>10, NewContextAccepted DEF i686_scheduler_resume
  <2>2. regs' \in [Registers -> Nat]
    BY <2>1, NewContextAccepted
  <2>3. QED BY <2>1, <2>2 DEF Types
<1>11. ASSUME UserRuns PROVE Types'
  <2>1. regs' \in [Registers -> Nat]
    BY <1>11, SomeNat DEF UserRuns, Types
  <2>2. QED BY <1>11, <2>1 DEF UserRuns, Types
<1>12. ASSUME NEW v \in Exceptions, NEW err \in ErrorCodes, Exception(v, err) PROVE Types'
  BY <1>12 DEF Exception, Types
<1>13. CASE Rest
  BY <1>13 DEF Rest, vars, Types
<1>14. QED BY <1>2, <1>3, <1>4, <1>5, <1>6, <1>7, <1>8, <1>9, <1>10, <1>11, <1>12, <1>13 DEF Next

\* The states that the program can be in, for every number of threads.
THEOREM TypeCorrect == Spec => []Types
<1>1. Init => Types
  <2> SUFFICES ASSUME Init PROVE Types
    OBVIOUS
  <2>1. regs \in [Registers -> Nat]
    BY SomeNat DEF Init, KernelRegs
  <2>2. QED BY <2>1 DEF Init, Types, States, Heads, Links
<1>2. Types /\ UNCHANGED vars => Types'
  BY DEF vars, Types
<1>3. QED BY <1>1, <1>2, TypesStep, PTL DEF Spec

\* What i686_int_entry reads is the exception and the state it interrupted,
\* whatever the error code and the registers.
THEOREM FrameRead == Spec => []FrameIsContext
<1>1. Init => FrameIsContext
  BY DEF Init, FrameIsContext
<1>2. Types /\ FrameIsContext /\ Next => FrameIsContext'
  <2> SUFFICES ASSUME Types, FrameIsContext, Next PROVE FrameIsContext'
    OBVIOUS
  <2>1. ASSUME NEW v \in Exceptions, NEW err \in ErrorCodes, Exception(v, err),
               mode \in {"kernel", "entered", "user"}
        PROVE  FrameIsContext'
    <3> DEFINE ring == IF mode \in {"entered", "user"} THEN 3 ELSE 0
               below == IF ring = 3 THEN <<>> ELSE [i \in DOMAIN Fields |-> 0]
               f == Frame(v, err, ring, regs, below)
    <3>1. /\ trap' = [v |-> v, err |-> IF PushesError(v) THEN err ELSE 0, ring |-> ring, stack |-> f]
          /\ regs' = regs
      BY <2>1 DEF Exception
    <3>2. ring \in {0, 3} /\ err \in Nat /\ regs \in [Registers -> Nat]
      BY ThreadsAssumption DEF Types
    <3>3. below \in Seq(Nat)
      <4>1. [i \in DOMAIN Fields |-> 0] \in [1 .. 19 -> Nat]
        BY FieldsDiffer
      <4>2. [i \in DOMAIN Fields |-> 0] \in Seq(Nat)
        BY <4>1
      <4>3. QED BY <4>2
    <3> HIDE DEF ring, below
    <3>4. ContextOf(Context(f), v, err, ring, regs)
      BY <3>2, <3>3, FrameContext, Zenon
    <3> HIDE DEF f
    <3>5. trap'.v = v /\ trap'.err = (IF PushesError(v) THEN err ELSE 0) /\ trap'.ring = ring /\ trap'.stack = f
      BY <3>1
    <3>6. QED BY <3>1, <3>4, <3>5 DEF FrameIsContext, ContextOf
  <2>2. mode' # "hung" \/ UNCHANGED vars
        \/ \E v \in Exceptions, err \in ErrorCodes :
             Exception(v, err) /\ mode \in {"kernel", "entered", "user"}
    BY DEF Next, i686_cpu_init, thread_alloc, common_thread_init, SetState,
           common_scheduler_thread_add, Another, common_scheduler_reschedule, SetContext,
           i686_scheduler_resume, UserRuns, Rest
  <2>3. ASSUME UNCHANGED vars PROVE FrameIsContext'
    BY <2>3 DEF vars, FrameIsContext
  <2>4. QED BY <2>1, <2>2, <2>3 DEF FrameIsContext
<1>3. FrameIsContext /\ UNCHANGED vars => FrameIsContext'
  BY DEF vars, FrameIsContext
<1>4. QED BY <1>1, <1>2, <1>3, TypeCorrect, PTL DEF Spec
-----------------------------------------------------------------------------
\* The thread just added is the first of the runnable ones, hence the one that
\* scheduler_reschedule chooses, and its address space the one that is set.
Chosen ==
  /\ making.stage = "added" => thread[making.t].state = "RUNNABLE" /\ sched.at[runnable] = making.t
  /\ making.stage \in {"chosen", "go"} => thread[making.t].state = "RUNNABLE" /\ current = making.t
  /\ making.stage = "go" => cr3 = thread[making.t].space

\* A step that leaves these alone.
LEMMA ChosenStays ==
  ASSUME Chosen, making' = Nobody \/ making'.stage \in {"alloc", "init", "state"}
  PROVE  Chosen'
  BY DEF Chosen, Nobody

LEMMA ChosenStep == Types /\ Chosen /\ ResumeEntersThread /\ Next => Chosen' /\ ResumeEntersThread'
<1> SUFFICES ASSUME Types, Chosen, ResumeEntersThread, Next PROVE Chosen' /\ ResumeEntersThread'
  OBVIOUS
<1>1. mode' \notin {"entered", "refused"} => ResumeEntersThread'
  BY DEF ResumeEntersThread
<1>2. ASSUME i686_cpu_init PROVE Chosen' /\ ResumeEntersThread'
  <2>1. making' = Nobody /\ mode' \in {"kernel", "reset"}
    BY <1>2 DEF i686_cpu_init, Types
  <2>2. QED BY <2>1, <1>1, ChosenStays
<1>3. ASSUME NEW t \in ThreadSet, thread_alloc(t) PROVE Chosen' /\ ResumeEntersThread'
  <2>1. (making' = Nobody \/ making' = [t |-> t, stage |-> "alloc"]) /\ mode' \in {"kernel", "wild"}
    BY <1>3 DEF thread_alloc
  <2>2. making' = Nobody \/ making'.stage \in {"alloc", "init", "state"}
    BY <2>1
  <2>3. QED BY <2>1, <2>2, <1>1, ChosenStays
<1>4. ASSUME NEW t \in ThreadSet, NEW as \in Spaces, common_thread_init(t, as)
      PROVE  Chosen' /\ ResumeEntersThread'
  <2>1. making' = [t |-> t, stage |-> "init"] /\ mode' = "kernel"
    BY <1>4 DEF common_thread_init
  <2>2. making'.stage \in {"alloc", "init", "state"}
    BY <2>1
  <2>3. QED BY <2>1, <2>2, <1>1, ChosenStays
<1>5. ASSUME NEW t \in ThreadSet, NEW state \in States, SetState(t, state)
      PROVE  Chosen' /\ ResumeEntersThread'
  <2>1. making' = [t |-> t, stage |-> "state"] /\ mode' = "kernel"
    BY <1>5 DEF SetState
  <2>2. making'.stage \in {"alloc", "init", "state"}
    BY <2>1
  <2>3. QED BY <2>1, <2>2, <1>1, ChosenStays
<1>6. ASSUME NEW t \in ThreadSet, common_scheduler_thread_add(t) PROVE Chosen' /\ ResumeEntersThread'
  <2>1. mode' = "kernel" /\ thread' = thread
    BY <1>6 DEF common_scheduler_thread_add
  <2>2. CASE making' = Nobody
    BY <2>1, <2>2, <1>1, ChosenStays
  <2>3. CASE making' # Nobody
    <3>1. /\ thread[t].state = "RUNNABLE" /\ sched' = AddTo(runnable, t)
          /\ making' = [t |-> t, stage |-> "added"]
      BY <1>6, <2>3 DEF common_scheduler_thread_add
    <3>2. sched'.at = [[sched.at EXCEPT ![t] = sched.at[runnable]] EXCEPT ![runnable] = t]
      BY <3>1 DEF AddTo, LIST_INSERT_HEAD
    <3>3. DOMAIN sched.at = ThreadSet \cup Heads /\ runnable \in Heads
      BY DEF Types, Links, Heads
    <3>4. sched'.at[runnable] = t
      BY <3>2, <3>3
    <3>5. making'.stage = "added" /\ making'.t = t
      BY <3>1
    <3>6. QED BY <2>1, <3>1, <3>4, <3>5, <1>1 DEF Chosen
  <2>4. QED BY <2>2, <2>3
<1>7. ASSUME Another PROVE Chosen' /\ ResumeEntersThread'
  <2>1. making' = Nobody /\ mode' = "kernel"
    BY <1>7 DEF Another
  <2>2. QED BY <2>1, <1>1, ChosenStays
<1>8. ASSUME common_scheduler_reschedule PROVE Chosen' /\ ResumeEntersThread'
  <2>1. /\ making.stage = "added" /\ current' = sched.at[runnable] /\ thread' = thread /\ mode' = "kernel"
        /\ making' = [making EXCEPT !.stage = "chosen"]
    BY <1>8 DEF common_scheduler_reschedule, LIST_FIRST
  <2>2. making \in [t : ThreadSet, stage : Stages]
    BY <2>1 DEF Types, Nobody
  <2>3. making'.t = making.t /\ making'.stage = "chosen"
    BY <2>1, <2>2
  <2>4. thread[making.t].state = "RUNNABLE" /\ sched.at[runnable] = making.t
    BY <2>1 DEF Chosen
  <2>5. QED BY <2>1, <2>3, <2>4, <1>1 DEF Chosen
<1>9. ASSUME SetContext PROVE Chosen' /\ ResumeEntersThread'
  <2>1. /\ making.stage = "chosen" /\ current' = current /\ thread' = thread /\ mode' = "kernel"
        /\ cr3' = thread[making.t].space
        /\ making' = [making EXCEPT !.stage = "go"]
    BY <1>9 DEF SetContext
  <2>2. making \in [t : ThreadSet, stage : Stages]
    BY <2>1 DEF Types, Nobody
  <2>3. making'.t = making.t /\ making'.stage = "go"
    BY <2>1, <2>2
  <2>4. thread[making.t].state = "RUNNABLE" /\ current = making.t
    BY <2>1 DEF Chosen
  <2>5. QED BY <2>1, <2>3, <2>4, <1>1 DEF Chosen
<1>10. ASSUME i686_scheduler_resume PROVE Chosen' /\ ResumeEntersThread'
  <2>1. /\ making.stage = "go" /\ making' = Nobody /\ mode' = "entered"
        /\ regs' = i686_userspace_return(NewContext)
        /\ thread' = thread /\ current' = current /\ cr3' = cr3
    BY <1>10, NewContextAccepted DEF i686_scheduler_resume
  <2>2. making.t \in ThreadSet
    BY <2>1 DEF Types, Nobody
  <2>3. current = making.t /\ thread[current].state = "RUNNABLE" /\ cr3 = thread[current].space
    BY <2>1 DEF Chosen
  <2>4. current # Null
    BY <2>2, <2>3, HeadsApart
  <2>5. /\ \A r \in Registers \ {"esp"} : regs'[r] = NewContext[r]
        /\ regs'["esp"] = NewContext["useresp"]
    BY <2>1, Returned
  <2>6. ResumeEntersThread'
    BY <2>1, <2>3, <2>4, <2>5 DEF ResumeEntersThread
  <2>7. QED BY <2>1, <2>6, ChosenStays
<1>11. ASSUME UserRuns PROVE Chosen' /\ ResumeEntersThread'
  <2>1. /\ mode' = "user" /\ making' = making /\ thread' = thread /\ sched' = sched
        /\ current' = current /\ cr3' = cr3
    BY <1>11 DEF UserRuns
  <2>2. QED BY <2>1, <1>1 DEF Chosen
<1>12. ASSUME NEW v \in Exceptions, NEW err \in ErrorCodes, Exception(v, err)
       PROVE  Chosen' /\ ResumeEntersThread'
  <2>1. /\ mode' = "hung" /\ making' = making /\ thread' = thread /\ sched' = sched
        /\ current' = current /\ cr3' = cr3
    BY <1>12 DEF Exception
  <2>2. QED BY <2>1, <1>1 DEF Chosen
<1>13. CASE Rest
  BY <1>13 DEF Rest, vars, Chosen, ResumeEntersThread
<1>14. QED BY <1>2, <1>3, <1>4, <1>5, <1>6, <1>7, <1>8, <1>9, <1>10, <1>11, <1>12, <1>13 DEF Next

\* The processor accepts the context of a new thread, and what it enters is the
\* current thread, at its first instruction and in its own address space,
\* however many threads were made before.
THEOREM Resumes == Spec => []ResumeEntersThread
<1>1. Init => Chosen /\ ResumeEntersThread
  BY DEF Init, Chosen, ResumeEntersThread, Nobody
<1>2. Chosen /\ ResumeEntersThread /\ UNCHANGED vars => Chosen' /\ ResumeEntersThread'
  BY DEF vars, Chosen, ResumeEntersThread
<1>3. QED BY <1>1, <1>2, ChosenStep, TypeCorrect, PTL DEF Spec
-----------------------------------------------------------------------------
Numbered == {t \in ThreadSet : thread[t].tid # 0}

\* next_thread_id has counted the threads that were initialized, so it has not
\* wrapped, and no two of them have the same identifier.
Ids ==
  /\ next_tid = Cardinality(Numbered) + 1
  /\ \A t \in ThreadSet : thread[t].tid < next_tid
  /\ \A t, u \in ThreadSet : thread[t].tid = thread[u].tid /\ thread[t].tid # 0 => t = u
  /\ \A t \in ThreadSet : thread[t].tid = 0 => thread[t].state = "INIT"
  /\ making.stage = "alloc" => thread[making.t].tid = 0
  /\ making.stage \in Stages \ {"alloc"} => thread[making.t].tid # 0

\* A step that changes no identifier.
LEMMA IdsStay ==
  ASSUME Types, Types', Ids,
         \A t \in ThreadSet : thread'[t].tid = thread[t].tid,
         \A t \in ThreadSet : thread[t].tid = 0 => thread'[t].state = "INIT",
         next_tid' = next_tid,
         making'.stage = "alloc" => thread[making'.t].tid = 0,
         making'.stage \in Stages \ {"alloc"} => thread[making'.t].tid # 0
  PROVE  Ids'
<1>1. Numbered' = Numbered
  BY DEF Numbered
<1>2. Cardinality(Numbered)' = Cardinality(Numbered)
  BY <1>1, Zenon
<1>3. next_tid' = Cardinality(Numbered)' + 1
  BY <1>2 DEF Ids
<1>4. \A t \in ThreadSet : thread'[t].tid < next_tid'
  BY DEF Ids
<1>5. \A t, u \in ThreadSet : thread'[t].tid = thread'[u].tid /\ thread'[t].tid # 0 => t = u
  BY DEF Ids
<1>6. making'.stage \in Stages => making'.t \in ThreadSet
  BY DEF Types, Nobody, Stages
<1>7. "alloc" \in Stages
  BY DEF Stages
<1>8. /\ making'.stage = "alloc" => thread'[making'.t].tid = 0
      /\ making'.stage \in Stages \ {"alloc"} => thread'[making'.t].tid # 0
  BY <1>6, <1>7
<1>9. QED BY <1>3, <1>4, <1>5, <1>8 DEF Ids

LEMMA IdsStep == Types /\ Types' /\ Ids /\ Next => Ids'
<1> SUFFICES ASSUME Types, Types', Ids, Next PROVE Ids'
  OBVIOUS
<1>1. ASSUME thread' = thread, next_tid' = next_tid, making' = making PROVE Ids'
  BY <1>1, IdsStay DEF Ids
<1>2. ASSUME thread' = thread, next_tid' = next_tid, making' = Nobody PROVE Ids'
  <2>1. making'.stage = "none" /\ "none" \notin Stages
    BY <1>2 DEF Nobody, Stages
  <2>2. QED BY <2>1, <1>2, IdsStay DEF Ids
<1>3. ASSUME NEW t \in ThreadSet, thread_alloc(t) PROVE Ids'
  <2>1. /\ thread' = thread /\ next_tid' = next_tid /\ thread[t].tid = 0
        /\ making' = Nobody \/ making' = [t |-> t, stage |-> "alloc"]
    BY <1>3 DEF thread_alloc
  <2>2. CASE making' = Nobody
    BY <2>1, <2>2, <1>2
  <2>3. CASE making' = [t |-> t, stage |-> "alloc"]
    BY <2>1, <2>3, IdsStay DEF Ids
  <2>4. QED BY <2>1, <2>2, <2>3
<1>4. ASSUME NEW t \in ThreadSet, NEW as \in Spaces, common_thread_init(t, as) PROVE Ids'
  <2> DEFINE new == [state |-> "INIT", tid |-> next_tid, space |-> as]
  <2>1. /\ making = [t |-> t, stage |-> "alloc"]
        /\ thread' = [thread EXCEPT ![t] = new]
        /\ next_tid' = (next_tid + 1) % NIds
        /\ making' = [t |-> t, stage |-> "init"]
    BY <1>4 DEF common_thread_init
  <2>2. thread[t].tid = 0
    BY <2>1 DEF Ids
  <2>3. /\ next_tid \in Nat /\ \A u \in ThreadSet : thread[u].tid \in Nat
        /\ thread \in [ThreadSet -> [state : States, tid : Nat, space : Spaces \cup {Null}]]
    BY DEF Types
  <2>4. /\ thread'[t].tid = next_tid /\ thread'[t].state = "INIT"
        /\ \A u \in ThreadSet \ {t} : thread'[u] = thread[u]
    BY <2>1, <2>3
  <2>5. IsFiniteSet(ThreadSet) /\ Cardinality(ThreadSet) \in Nat /\ NIds \in Nat
        /\ Cardinality(ThreadSet) + 1 < NIds
    BY ThreadsAssumption, FS_CardinalityType
  <2>6. IsFiniteSet(Numbered) /\ Cardinality(Numbered) \in Nat
    BY <2>5, FS_Subset, FS_CardinalityType DEF Numbered
  <2>7. next_tid = Cardinality(Numbered) + 1 /\ next_tid # 0
    BY <2>6 DEF Ids
  <2>8. Numbered' = Numbered \cup {t} /\ t \notin Numbered
    BY <2>2, <2>4, <2>7 DEF Numbered
  <2>9. Cardinality(Numbered)' = Cardinality(Numbered) + 1
    <3>1. Cardinality(Numbered \cup {t}) = Cardinality(Numbered) + 1
      BY <2>6, <2>8, FS_AddElement
    <3>2. Cardinality(Numbered)' = Cardinality(Numbered \cup {t})
      BY <2>8, Zenon
    <3>3. QED BY <3>1, <3>2
  <2>10. Cardinality(Numbered)' <= Cardinality(ThreadSet)
    <3>1. Numbered' \in SUBSET ThreadSet
      BY <2>8 DEF Numbered
    <3>2. QED BY <3>1, <2>5, FS_Subset
  <2>11. next_tid + 1 < NIds
    BY <2>3, <2>5, <2>6, <2>7, <2>9, <2>10
  <2>12. next_tid' = next_tid + 1
    BY <2>1, <2>3, <2>5, <2>11
  <2>13. next_tid' = Cardinality(Numbered)' + 1
    BY <2>7, <2>9, <2>12
  <2>14. \A u \in ThreadSet : thread'[u].tid < next_tid'
    BY <2>3, <2>4, <2>12 DEF Ids
  <2>15. \A u, w \in ThreadSet : thread'[u].tid = thread'[w].tid /\ thread'[u].tid # 0 => u = w
    BY <2>3, <2>4 DEF Ids
  <2>16. \A u \in ThreadSet : thread'[u].tid = 0 => thread'[u].state = "INIT"
    BY <2>4 DEF Ids
  <2>17. making'.stage = "init" /\ making'.t = t
    BY <2>1
  <2>18. QED BY <2>4, <2>7, <2>13, <2>14, <2>15, <2>16, <2>17 DEF Ids
<1>5. ASSUME NEW t \in ThreadSet, NEW state \in States, SetState(t, state) PROVE Ids'
  <2>1. /\ making = [t |-> t, stage |-> "init"] /\ making' = [t |-> t, stage |-> "state"]
        /\ thread' = [thread EXCEPT ![t].state = state] /\ next_tid' = next_tid
    BY <1>5 DEF SetState
  <2>2. thread[t].tid # 0
    <3>1. making.stage \in Stages \ {"alloc"} /\ making.t = t
      BY <2>1 DEF Stages
    <3>2. QED BY <3>1 DEF Ids
  <2>3. thread \in [ThreadSet -> [state : States, tid : Nat, space : Spaces \cup {Null}]]
    BY DEF Types
  <2>4. /\ \A u \in ThreadSet : thread'[u].tid = thread[u].tid
        /\ \A u \in ThreadSet \ {t} : thread'[u] = thread[u]
    BY <2>1, <2>3
  <2>5. \A u \in ThreadSet : thread[u].tid = 0 => thread'[u].state = "INIT"
    BY <2>2, <2>4 DEF Ids
  <2>6. making'.stage # "alloc" /\ making'.t = t
    BY <2>1
  <2>7. QED BY <2>1, <2>2, <2>4, <2>5, <2>6, IdsStay
<1>6. ASSUME NEW t \in ThreadSet, common_scheduler_thread_add(t) PROVE Ids'
  <2>1. /\ thread' = thread /\ next_tid' = next_tid /\ making = [t |-> t, stage |-> "state"]
        /\ making' = Nobody \/ making' = [t |-> t, stage |-> "added"]
    BY <1>6 DEF common_scheduler_thread_add
  <2>2. CASE making' = Nobody
    BY <2>1, <2>2, <1>2
  <2>3. CASE making' = [t |-> t, stage |-> "added"]
    <3>1. thread[t].tid # 0
      <4>1. making.stage \in Stages \ {"alloc"} /\ making.t = t
        BY <2>1 DEF Stages
      <4>2. QED BY <4>1 DEF Ids
    <3>2. QED BY <2>1, <2>3, <3>1, IdsStay DEF Ids
  <2>4. QED BY <2>1, <2>2, <2>3
<1>7. ASSUME making.stage \in {"added", "chosen"}, thread' = thread, next_tid' = next_tid,
             NEW s \in {"chosen", "go"}, making' = [making EXCEPT !.stage = s]
      PROVE  Ids'
  <2>1. making \in [t : ThreadSet, stage : Stages]
    BY <1>7 DEF Types, Nobody
  <2>2. making'.t = making.t /\ making'.stage = s
    BY <1>7, <2>1
  <2>3. thread[making.t].tid # 0
    BY <1>7 DEF Ids, Stages
  <2>4. QED BY <1>7, <2>2, <2>3, IdsStay DEF Ids
<1>8. i686_cpu_init => Ids'
  BY <1>1 DEF i686_cpu_init
<1>9. Another => Ids'
  BY <1>2 DEF Another
<1>10. common_scheduler_reschedule => Ids'
  BY <1>7 DEF common_scheduler_reschedule
<1>11. SetContext => Ids'
  BY <1>7 DEF SetContext
<1>12. i686_scheduler_resume => Ids'
  BY <1>2 DEF i686_scheduler_resume
<1>13. UserRuns => Ids'
  BY <1>1 DEF UserRuns
<1>14. \A v \in Exceptions, err \in ErrorCodes : Exception(v, err) => Ids'
  BY <1>1 DEF Exception
<1>15. Rest => Ids'
  BY <1>1 DEF Rest, vars
<1>16. QED BY <1>3, <1>4, <1>5, <1>6, <1>8, <1>9, <1>10, <1>11, <1>12, <1>13, <1>14, <1>15 DEF Next
-----------------------------------------------------------------------------
\* The two lists hold the threads that were accepted, each once.
TwoLists(l, R, W, A) ==
  /\ IsInjective(R) /\ IsInjective(W)
  /\ Range(R) \cap Range(W) = {} /\ Range(R) \cup Range(W) = A
  /\ Represents(l, runnable, R) /\ Represents(l, waiting, W)

Lists ==
  /\ \E R, W \in Seq(ThreadSet) : TwoLists(sched, R, W, Added)
  /\ mode = "boot" => Added = {} /\ sched.at[runnable] = Null /\ sched.at[waiting] = Null

LEMMA Pointers ==
  ASSUME Types
  PROVE  PointersOf(sched, ThreadSet, Heads)
  BY HeadsApart DEF Types, Links, PointersOf, Heads

\* scheduler_thread_add of a thread that is on neither list.
LEMMA Adds ==
  ASSUME Types, NEW t \in ThreadSet, t \notin Added, NEW R \in Seq(ThreadSet), NEW W \in Seq(ThreadSet),
         TwoLists(sched, R, W, Added)
  PROVE  /\ TwoLists(AddTo(runnable, t), <<t>> \o R, W, Added \cup {t})
         /\ TwoLists(AddTo(waiting, t), R, <<t>> \o W, Added \cup {t})
         /\ <<t>> \o R \in Seq(ThreadSet) /\ <<t>> \o W \in Seq(ThreadSet)
<1>1. /\ IsInjective(R) /\ IsInjective(W)
      /\ Range(R) \cap Range(W) = {} /\ Range(R) \cup Range(W) = Added
      /\ Represents(sched, runnable, R) /\ Represents(sched, waiting, W)
      /\ t \notin Range(R) /\ t \notin Range(W)
  BY DEF TwoLists
<1>2. PointersOf(sched, ThreadSet, Heads) /\ runnable \in Heads /\ waiting \in Heads /\ runnable # waiting
  BY Pointers, HeadsApart DEF Heads
<1>3. /\ <<t>> \o R \in Seq(ThreadSet) /\ IsInjective(<<t>> \o R) /\ Range(<<t>> \o R) = Range(R) \cup {t}
  BY <1>1, PrependInjective, ZenonT(60)
<1>4. /\ <<t>> \o W \in Seq(ThreadSet) /\ IsInjective(<<t>> \o W) /\ Range(<<t>> \o W) = Range(W) \cup {t}
  BY <1>1, PrependInjective, ZenonT(60)
<1>5. Range(W) \cap Range(R) = {}
  BY <1>1
<1>6. /\ Represents(LIST_INSERT_HEAD(sched, runnable, t), runnable, <<t>> \o R)
      /\ \A g \in Heads, r \in Seq(ThreadSet) :
           g # runnable /\ t \notin Range(r) /\ Range(r) \cap Range(R) = {} /\ Represents(sched, g, r)
             => Represents(LIST_INSERT_HEAD(sched, runnable, t), g, r)
  BY <1>1, <1>2, InsertHead, Zenon
<1>7. /\ Represents(LIST_INSERT_HEAD(sched, waiting, t), waiting, <<t>> \o W)
      /\ \A g \in Heads, r \in Seq(ThreadSet) :
           g # waiting /\ t \notin Range(r) /\ Range(r) \cap Range(W) = {} /\ Represents(sched, g, r)
             => Represents(LIST_INSERT_HEAD(sched, waiting, t), g, r)
  BY <1>1, <1>2, InsertHead, Zenon
<1>8. /\ Represents(AddTo(runnable, t), runnable, <<t>> \o R)
      /\ Represents(AddTo(runnable, t), waiting, W)
  BY <1>1, <1>2, <1>5, <1>6, Zenon DEF AddTo
<1>9. /\ Represents(AddTo(waiting, t), waiting, <<t>> \o W)
      /\ Represents(AddTo(waiting, t), runnable, R)
  BY <1>1, <1>2, <1>7, Zenon DEF AddTo
<1> DEFINE tR == <<t>> \o R
           tW == <<t>> \o W
<1> HIDE DEF tR, tW
<1>10. /\ Range(tR) = Range(R) \cup {t} /\ Range(tW) = Range(W) \cup {t}
       /\ IsInjective(tR) /\ IsInjective(tW)
       /\ Represents(AddTo(runnable, t), runnable, tR) /\ Represents(AddTo(waiting, t), waiting, tW)
  BY <1>3, <1>4, <1>8, <1>9, Zenon DEF tR, tW
<1>11. /\ Range(tR) \cap Range(W) = {} /\ Range(tR) \cup Range(W) = Added \cup {t}
       /\ Range(R) \cap Range(tW) = {} /\ Range(R) \cup Range(tW) = Added \cup {t}
  BY <1>1, <1>10
<1>12. TwoLists(AddTo(runnable, t), tR, W, Added \cup {t}) /\ TwoLists(AddTo(waiting, t), R, tW, Added \cup {t})
  BY <1>1, <1>8, <1>9, <1>10, <1>11, Zenon DEF TwoLists
<1>13. QED BY <1>3, <1>4, <1>12, Zenon DEF tR, tW

LEMMA ListsStep == Types /\ Ids /\ Lists /\ Next => Lists'
<1> SUFFICES ASSUME Types, Ids, Lists, Next PROVE Lists'
  OBVIOUS
<1>1. ASSUME mode' # "boot", sched' = sched, Added' = Added PROVE Lists'
  BY <1>1, Zenon DEF Lists
<1>2. ASSUME thread' = thread,
             \A u \in ThreadSet : (making'.t = u => making'.stage \notin {"init", "state"})
                                    <=> (making.t = u => making.stage \notin {"init", "state"})
      PROVE  Added' = Added
  BY <1>2 DEF Added
<1>3. Nobody.t = Null /\ Nobody.stage = "none" /\ Null \notin ThreadSet
  BY HeadsApart DEF Nobody
<1>4. ASSUME i686_cpu_init PROVE Lists'
  <2>1. /\ mode = "boot" /\ mode' # "boot" /\ thread' = thread /\ making' = making
        /\ sched' = LIST_INIT(LIST_INIT(sched, runnable), waiting)
    BY <1>4 DEF i686_cpu_init
  <2>2. Added' = Added
    BY <2>1, <1>2
  <2>3. sched.at[runnable] = Null /\ sched.at[waiting] = Null /\ sched \in Links
    BY <2>1 DEF Lists, Types
  <2>4. [sched.at EXCEPT ![runnable] = Null] = sched.at /\ [sched.at EXCEPT ![waiting] = Null] = sched.at
    BY <2>3 DEF Links
  <2>5. LIST_INIT(sched, runnable) = [sched EXCEPT !.at = [sched.at EXCEPT ![runnable] = Null]]
    BY <2>3 DEF LIST_INIT, Links
  <2>6. LIST_INIT(sched, waiting) = [sched EXCEPT !.at = [sched.at EXCEPT ![waiting] = Null]]
    BY <2>3 DEF LIST_INIT, Links
  <2>7. [sched EXCEPT !.at = sched.at] = sched
    BY <2>3 DEF Links
  <2>8. LIST_INIT(sched, runnable) = sched /\ LIST_INIT(sched, waiting) = sched
    BY <2>4, <2>5, <2>6, <2>7, Zenon
  <2>9. sched' = sched
    BY <2>1, <2>8, Zenon
  <2>10. QED BY <2>1, <2>2, <2>9, <1>1
<1>5. ASSUME NEW t \in ThreadSet, thread_alloc(t) PROVE Lists'
  <2>1. /\ thread' = thread /\ sched' = sched /\ mode' # "boot" /\ making = Nobody
        /\ making' = Nobody \/ making' = [t |-> t, stage |-> "alloc"]
    BY <1>5 DEF thread_alloc
  <2>2. making'.stage \notin {"init", "state"} /\ making.stage \notin {"init", "state"}
    BY <2>1, <1>3
  <2>3. QED BY <2>1, <2>2, <1>1, <1>2
<1>6. ASSUME NEW t \in ThreadSet, NEW as \in Spaces, common_thread_init(t, as) PROVE Lists'
  <2>1. /\ making = [t |-> t, stage |-> "alloc"] /\ making' = [t |-> t, stage |-> "init"]
        /\ thread' = [thread EXCEPT ![t] = [state |-> "INIT", tid |-> next_tid, space |-> as]]
        /\ sched' = sched /\ mode' # "boot"
    BY <1>6 DEF common_thread_init
  <2>2. making.t = t /\ making.stage = "alloc" /\ making'.t = t /\ making'.stage = "init"
    BY <2>1
  <2>3. thread[t].state = "INIT"
    BY <2>2 DEF Ids
  <2>4. \A u \in ThreadSet \ {t} : thread'[u] = thread[u]
    BY <2>1 DEF Types
  <2>5. t \notin Added /\ t \notin Added'
    BY <2>2, <2>3 DEF Added
  <2>6. \A u \in ThreadSet \ {t} : u \in Added' <=> u \in Added
    BY <2>2, <2>4 DEF Added
  <2>7. Added' = Added
    BY <2>5, <2>6 DEF Added
  <2>8. QED BY <2>1, <2>7, <1>1
<1>7. ASSUME NEW t \in ThreadSet, NEW state \in States, SetState(t, state) PROVE Lists'
  <2>1. /\ making = [t |-> t, stage |-> "init"] /\ making' = [t |-> t, stage |-> "state"]
        /\ thread' = [thread EXCEPT ![t].state = state]
        /\ sched' = sched /\ mode' # "boot"
    BY <1>7 DEF SetState
  <2>2. making.t = t /\ making.stage = "init" /\ making'.t = t /\ making'.stage = "state"
    BY <2>1
  <2>3. \A u \in ThreadSet \ {t} : thread'[u] = thread[u]
    BY <2>1 DEF Types
  <2>4. t \notin Added /\ t \notin Added'
    BY <2>2 DEF Added
  <2>5. \A u \in ThreadSet \ {t} : u \in Added' <=> u \in Added
    BY <2>2, <2>3 DEF Added
  <2>6. Added' = Added
    BY <2>4, <2>5 DEF Added
  <2>7. QED BY <2>1, <2>6, <1>1
<1>8. ASSUME NEW t \in ThreadSet, common_scheduler_thread_add(t) PROVE Lists'
  <2>1. /\ making = [t |-> t, stage |-> "state"] /\ thread' = thread /\ mode' # "boot"
        /\ making' = Nobody \/ making' = [t |-> t, stage |-> "added"]
        /\ \/ thread[t].state = "RUNNABLE" /\ sched' = AddTo(runnable, t)
           \/ thread[t].state \in {"SLEEPING", "BLOCKED", "STOPPED"} /\ sched' = AddTo(waiting, t)
           \/ thread[t].state = "INIT" /\ sched' = sched
    BY <1>8 DEF common_scheduler_thread_add
  <2>2. making.t = t /\ making.stage = "state" /\ making'.stage \notin {"init", "state"}
    BY <2>1, <1>3
  <2>3. t \notin Added
    BY <2>2 DEF Added
  <2>4. Added' = {u \in ThreadSet : thread[u].state # "INIT"}
    BY <2>1, <2>2 DEF Added
  <2>5. \A u \in ThreadSet \ {t} : u \in Added <=> thread[u].state # "INIT"
    BY <2>2 DEF Added
  <2>6. Added \subseteq ThreadSet
    BY DEF Added
  <2>7. CASE thread[t].state = "INIT"
    <3>1. Added' = Added
      BY <2>3, <2>4, <2>5, <2>6, <2>7
    <3>2. sched' = sched
      BY <2>1, <2>7
    <3>3. QED BY <2>1, <3>1, <3>2, <1>1
  <2>8. CASE thread[t].state # "INIT"
    <3>1. Added' = Added \cup {t}
      BY <2>4, <2>5, <2>6, <2>8
    <3>2. sched' = AddTo(runnable, t) \/ sched' = AddTo(waiting, t)
      BY <2>1, <2>8
    <3>3. PICK R \in Seq(ThreadSet), W \in Seq(ThreadSet) : TwoLists(sched, R, W, Added)
      BY Zenon DEF Lists
    <3>4. /\ TwoLists(AddTo(runnable, t), <<t>> \o R, W, Added \cup {t})
          /\ TwoLists(AddTo(waiting, t), R, <<t>> \o W, Added \cup {t})
          /\ <<t>> \o R \in Seq(ThreadSet) /\ <<t>> \o W \in Seq(ThreadSet)
      BY <2>3, <3>3, Adds, Zenon
    <3>5. \E r, w \in Seq(ThreadSet) : TwoLists(sched', r, w, Added')
      BY <3>1, <3>2, <3>4, Zenon
    <3>6. QED BY <2>1, <3>5, Zenon DEF Lists
  <2>9. QED BY <2>7, <2>8
<1>9. ASSUME mode' # "boot", sched' = sched, thread' = thread,
             making'.stage \notin {"init", "state"}, making.stage \notin {"init", "state"}
      PROVE  Lists'
  BY <1>1, <1>2, <1>9
<1>10. Another => Lists'
  BY <1>3, <1>9 DEF Another
<1>11. ASSUME common_scheduler_reschedule \/ SetContext PROVE Lists'
  <2>1. making.stage \in {"added", "chosen"} /\ sched' = sched /\ thread' = thread /\ mode' # "boot"
    BY <1>11 DEF common_scheduler_reschedule, SetContext
  <2>2. making \in [t : ThreadSet, stage : Stages]
    BY <2>1 DEF Types, Nobody
  <2>3. making'.stage \in {"chosen", "go"}
    BY <1>11, <2>2 DEF common_scheduler_reschedule, SetContext
  <2>4. QED BY <2>1, <2>3, <1>9
<1>12. i686_scheduler_resume => Lists'
  BY <1>3, <1>9 DEF i686_scheduler_resume
<1>13. UserRuns => Lists'
  BY <1>1, <1>2 DEF UserRuns
<1>14. \A v \in Exceptions, err \in ErrorCodes : Exception(v, err) => Lists'
  BY <1>1, <1>2 DEF Exception
<1>15. Rest => Lists'
  BY <1>1, <1>2 DEF Rest, vars
<1>16. QED BY <1>4, <1>5, <1>6, <1>7, <1>8, <1>10, <1>11, <1>12, <1>13, <1>14, <1>15 DEF Next

\* A list of threads without repetition is no longer than there are threads.
LEMMA FewThreads ==
  ASSUME NEW s \in Seq(ThreadSet), IsInjective(s)
  PROVE  Cardinality(ThreadSet) \in Nat /\ Len(s) <= Cardinality(ThreadSet)
<1>1. IsFiniteSet(ThreadSet)
  BY ThreadsAssumption
<1>2. Len(s) \in Nat /\ DOMAIN s = 1 .. Len(s) /\ s \in [1 .. Len(s) -> ThreadSet]
  BY LenProperties
<1>3. \A i, j \in 1 .. Len(s) : s[i] = s[j] => i = j
  BY <1>2 DEF IsInjective
<1>4. s \in Injection(1 .. Len(s), ThreadSet)
  BY <1>2, <1>3 DEF Injection
<1>5. Cardinality(1 .. Len(s)) <= Cardinality(ThreadSet)
  BY <1>1, <1>4, FS_Injection
<1>6. Cardinality(1 .. Len(s)) = Len(s)
  BY <1>2, FS_Interval
<1>7. QED BY <1>1, <1>5, <1>6, FS_CardinalityType

\* The walk over a list finds a thread with the identifier, if there is one.
LEMMA FirstMatchIn ==
  ASSUME Types, NEW h \in Heads, NEW s \in Seq(ThreadSet), IsInjective(s), Represents(sched, h, s), NEW tid
  PROVE  /\ WellFormed(sched, h, Cardinality(ThreadSet))
         /\ \/ FirstMatch(h, tid) = Null /\ \A t \in Range(s) : thread[t].tid # tid
            \/ FirstMatch(h, tid) \in Range(s) /\ thread[FirstMatch(h, tid)].tid = tid
<1> DEFINE n == Cardinality(ThreadSet)
           visit == Visited(sched, h, n)
           hits == {i \in 0 .. n : visit[i] # Null /\ thread[visit[i]].tid = tid}
<1>1. n \in Nat /\ Len(s) <= n
  BY FewThreads
<1>2. Len(s) \in Nat /\ DOMAIN s = 1 .. Len(s) /\ \A i \in 1 .. Len(s) : s[i] \in ThreadSet
  BY LenProperties
<1>3. Null \notin ThreadSet
  BY HeadsApart
<1> HIDE DEF n
<1>4. visit = Walk(s, n) /\ WellFormed(sched, h, n)
  BY <1>1, Pointers, Visiting, Zenon
<1>5. FirstMatch(h, tid) = IF hits = {} THEN Null ELSE visit[Min(hits)]
  BY DEF FirstMatch, n
<1> HIDE DEF visit
<1>6. \A i \in 0 .. n : visit[i] = IF i < Len(s) THEN s[i + 1] ELSE Null
  BY <1>4 DEF Walk
<1>7. CASE hits = {}
  <2>1. FirstMatch(h, tid) = Null
    BY <1>5, <1>7
  <2>2. ASSUME NEW t \in Range(s) PROVE thread[t].tid # tid
    <3>1. PICK i \in 1 .. Len(s) : s[i] = t
      BY <1>2 DEF Range
    <3>2. i - 1 \in 0 .. n /\ visit[i - 1] = s[i] /\ visit[i - 1] # Null
      <4>1. i - 1 \in 0 .. n /\ i - 1 < Len(s) /\ (i - 1) + 1 = i
        BY <1>1, <1>2
      <4>2. QED BY <4>1, <1>2, <1>3, <1>6
    <3>3. i - 1 \notin hits
      BY <1>7
    <3>4. QED BY <3>1, <3>2, <3>3
  <2>3. QED BY <2>1, <2>2, <1>4 DEF n
<1>8. CASE hits # {}
  <2>1. hits \subseteq Nat
    BY <1>1
  <2>2. \E x \in hits : \A y \in hits : x <= y
    BY <2>1, <1>8, LeastNat, Zenon
  <2>3. Min(hits) \in hits
    BY <2>2 DEF Min
  <2>4. FirstMatch(h, tid) = visit[Min(hits)]
    BY <1>5, <1>8
  <2>5. PICK i \in 0 .. n : i = Min(hits) /\ visit[i] # Null /\ thread[visit[i]].tid = tid
    BY <2>3
  <2>6. i < Len(s) /\ visit[i] = s[i + 1]
    BY <2>5, <1>6
  <2>7. i + 1 \in DOMAIN s
    BY <2>6, <1>1, <1>2
  <2>8. visit[i] \in Range(s)
    BY <2>6, <2>7 DEF Range
  <2>9. QED BY <2>4, <2>5, <2>8, <1>4 DEF n
<1>9. QED BY <1>7, <1>8

LEMMA Found == Types /\ Ids /\ Lists => ThreadsFound
<1> SUFFICES ASSUME Types, Ids, Lists PROVE ThreadsFound
  OBVIOUS
<1>1. PICK R \in Seq(ThreadSet), W \in Seq(ThreadSet) : TwoLists(sched, R, W, Added)
  BY Zenon DEF Lists
<1>2. /\ IsInjective(R) /\ IsInjective(W) /\ Range(R) \cup Range(W) = Added
      /\ Represents(sched, runnable, R) /\ Represents(sched, waiting, W)
      /\ runnable \in Heads /\ waiting \in Heads
  BY <1>1 DEF TwoLists, Heads
<1>3. \A h \in {runnable, waiting} : WellFormed(sched, h, Cardinality(ThreadSet))
  <2>1. WellFormed(sched, runnable, Cardinality(ThreadSet))
    BY <1>2, FirstMatchIn, Zenon
  <2>2. WellFormed(sched, waiting, Cardinality(ThreadSet))
    BY <1>2, FirstMatchIn, Zenon
  <2>3. QED BY <2>1, <2>2
<1>4. ASSUME NEW tid \in 1 .. next_tid
      PROVE  LET owners == {t \in Added : thread[t].tid = tid}
             IN IF owners = {} THEN thread_lookup_by_id(tid) = Null
                               ELSE owners = {thread_lookup_by_id(tid)}
  <2> DEFINE owners == {t \in Added : thread[t].tid = tid}
             r == FirstMatch(runnable, tid)
             w == FirstMatch(waiting, tid)
  <2>1. \/ r = Null /\ \A t \in Range(R) : thread[t].tid # tid
        \/ r \in Range(R) /\ thread[r].tid = tid
    BY <1>2, FirstMatchIn, Zenon
  <2>2. \/ w = Null /\ \A t \in Range(W) : thread[t].tid # tid
        \/ w \in Range(W) /\ thread[w].tid = tid
    BY <1>2, FirstMatchIn, Zenon
  <2>3. thread_lookup_by_id(tid) = IF r # Null THEN r ELSE w
    BY DEF thread_lookup_by_id
  <2>4. Added \subseteq ThreadSet /\ Null \notin ThreadSet /\ tid # 0
    BY HeadsApart DEF Added, Types
  <2>5. \A t, u \in owners : t = u
    BY <2>4 DEF Ids
  <2> HIDE DEF r, w
  <2>6. CASE owners = {}
    BY <2>1, <2>2, <2>3, <2>4, <2>6, <1>2
  <2>7. CASE owners # {}
    <3>1. PICK t \in owners : TRUE
      BY <2>7
    <3>2. t \in Range(R) \/ t \in Range(W)
      BY <1>2
    <3>3. thread_lookup_by_id(tid) \in owners
      BY <3>2, <2>1, <2>2, <2>3, <2>4, <1>2
    <3>4. QED BY <2>5, <2>7, <3>3
  <2>8. QED BY <2>6, <2>7
<1>5. QED BY <1>3, <1>4 DEF ThreadsFound

\* Every accepted thread is found by its identifier and by no other, however
\* many threads there are: the pointers of the two lists stay linked.
THEOREM LookupFinds == Spec => []ThreadsFound
<1>1. Init => Ids /\ Lists
  <2> SUFFICES ASSUME Init PROVE Ids /\ Lists
    OBVIOUS
  <2>1. /\ \A t \in ThreadSet : thread[t].tid = 0 /\ thread[t].state = "INIT"
        /\ next_tid = 1 /\ making.stage = "none"
        /\ sched.at[runnable] = Null /\ sched.at[waiting] = Null
    BY DEF Init, Nobody
  <2>2. Numbered = {} /\ Added = {}
    BY <2>1 DEF Numbered, Added
  <2>3. Cardinality(Numbered) = 0
    BY <2>2, FS_EmptySet, Zenon
  <2>4. Ids
    BY <2>1, <2>3 DEF Ids, Stages
  <2>5. /\ <<>> \in Seq(ThreadSet) /\ IsInjective(<<>>) /\ Range(<<>>) = {}
        /\ Represents(sched, runnable, <<>>) /\ Represents(sched, waiting, <<>>)
    BY <2>1 DEF IsInjective, Range, Represents
  <2>6. TwoLists(sched, <<>>, <<>>, Added)
    <3>1. Range(<<>>) \cap Range(<<>>) = {} /\ Range(<<>>) \cup Range(<<>>) = Added
      BY <2>2, <2>5
    <3>2. QED BY <2>5, <3>1, Zenon DEF TwoLists
  <2>7. \E R, W \in Seq(ThreadSet) : TwoLists(sched, R, W, Added)
    BY <2>5, <2>6, Zenon
  <2>8. QED BY <2>1, <2>2, <2>4, <2>7, Zenon DEF Lists
<1>2. Types /\ Types' /\ Ids /\ Lists /\ [Next]_vars => Ids' /\ Lists'
  <2>1. CASE Types /\ Types' /\ Ids /\ Lists /\ Next
    BY <2>1, IdsStep, ListsStep
  <2>2. CASE Ids /\ Lists /\ UNCHANGED vars
    <3>1. /\ mode' = mode /\ thread' = thread /\ sched' = sched /\ next_tid' = next_tid
          /\ making' = making
      BY <2>2 DEF vars
    <3>2. Added' = Added /\ Numbered' = Numbered
      BY <3>1 DEF Added, Numbered
    <3>3. QED BY <2>2, <3>1, <3>2, Zenon DEF Ids, Lists
  <2>3. QED BY <2>1, <2>2
<1>3. QED BY <1>1, <1>2, Found, TypeCorrect, PTL DEF Spec
=============================================================================
