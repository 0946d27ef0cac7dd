---------------------------- MODULE I686_proofs ----------------------------
(***************************************************************************)
(* The safety properties of Mutex, for every set of CPUs, and what the     *)
(* console shows, for every screen.  MutualExclusion is inductive on its   *)
(* own; what blocker says needs it, because the store that names the new   *)
(* holder is protected only by the lock word.  What the screen shows needs *)
(* where the cursor is on the endless sheet, and that the sheet is empty   *)
(* from there on: so a character never covers another, and a row that is   *)
(* scrolled in has nothing on it.                                          *)
(***************************************************************************)
EXTENDS Mutex, Console, ListLemmas, TLAPS

\* The inductive invariant: the four safety properties support one another.
IInv == TypeOK /\ MutualExclusion /\ BlockerIsConcerned /\ HolderNotMisnamed

\* A mutex after mutex_init satisfies the invariant: nobody has it and nobody
\* is named.
LEMMA InitEstablishes == Init => IInv
  BY MutexAssumption DEF Init, IInv, TypeOK, MutualExclusion, Holds,
                         BlockerIsConcerned, HolderNotMisnamed

\* Every step of mutex_lock and mutex_unlock preserves the invariant.
LEMMA StepPreserves == IInv /\ [Next]_vars => IInv'
<1> SUFFICES ASSUME IInv, [Next]_vars PROVE IInv'
  OBVIOUS
<1> USE MutexAssumption
    DEF IInv, TypeOK, MutualExclusion, Holds, BlockerIsConcerned, HolderNotMisnamed, Go
<1>1. CASE UNCHANGED vars
  BY <1>1 DEF vars
<1>2. ASSUME NEW c \in CPUs, Acquire(c) PROVE IInv'
  BY <1>2 DEF Acquire
<1>3. ASSUME NEW c \in CPUs, AcquireFails(c) PROVE IInv'
  BY <1>3 DEF AcquireFails
<1>4. ASSUME NEW c \in CPUs, RecordName(c) PROVE IInv'
  BY <1>4 DEF RecordName
<1>5. ASSUME NEW c \in CPUs, BeginUnlock(c) PROVE IInv'
  BY <1>5 DEF BeginUnlock
<1>6. ASSUME NEW c \in CPUs, ReleaseThenClear(c) PROVE IInv'
  BY <1>6 DEF ReleaseThenClear
<1>7. ASSUME NEW c \in CPUs, ClearThenRelease(c) PROVE IInv'
  BY <1>7 DEF ClearThenRelease
<1> QED
  BY <1>1, <1>2, <1>3, <1>4, <1>5, <1>6, <1>7
     DEF Next, i686_mutex_lock, mutex_unlock

\* All safety properties of the mutex hold in every reachable state.
THEOREM Invariant == Spec => []IInv
<1>1. IInv /\ [Next]_vars => IInv'
  BY StepPreserves
<1> QED
  BY InitEstablishes, <1>1, PTL DEF Spec

\* The lock word, blocker and the callers stay in their domains.
THEOREM TypeCorrect == Spec => []TypeOK
<1>1. IInv => TypeOK
  BY DEF IInv
<1> QED
  BY Invariant, <1>1, PTL

\* i686_mutex_lock excludes: whatever the number of CPUs and however the two
\* stores of mutex_unlock are ordered, at most one caller has the mutex.
THEOREM Exclusion == Spec => []MutualExclusion
<1>1. IInv => MutualExclusion
  BY DEF IInv
<1> QED
  BY Invariant, <1>1, PTL

\* mutex_blocker never names a caller that is not concerned with the mutex.
THEOREM NoBystanderBlamed == Spec => []BlockerIsConcerned
<1>1. IInv => BlockerIsConcerned
  BY DEF IInv
<1> QED
  BY Invariant, <1>1, PTL

\* During a critical section mutex_blocker names its caller or nobody.
THEOREM NoOtherBlamed == Spec => []HolderNotMisnamed
<1>1. IInv => HolderNotMisnamed
  BY DEF IInv
<1> QED
  BY Invariant, <1>1, PTL

-----------------------------------------------------------------------------
\* The sheet.  Its rows and columns so far, and what has been drawn.
Sheets(S) == [row : Nat, col : 0 .. COLS - 1, cell : SUBSET (Nat \X (0 .. COLS - 1) \X S)]

NoSheet == [row |-> 0, col |-> 0, cell |-> {}]

\* The sheets after each character of a text.
Sheeting(f, text) ==
  f = [n \in 0 .. Len(text) |-> IF n = 0 THEN NoSheet ELSE Draw(f[n - 1], text[n])]

\* There are such sheets, for every text.
LEMMA SheetingExists ==
  ASSUME NEW S, NEW text \in Seq(S)
  PROVE  \E f : Sheeting(f, text)
<1> DEFINE Upto(f, m) == f = [n \in 0 .. m |-> IF n = 0 THEN NoSheet ELSE Draw(f[n - 1], text[n])]
           Bad == {m \in Nat : ~\E f : Upto(f, m)}
<1>1. Len(text) \in Nat
  OBVIOUS
<1>2. CASE Bad = {}
  BY <1>1, <1>2 DEF Sheeting
<1>3. CASE Bad # {}
  <2>1. PICK m \in Bad : \A k \in Bad : m <= k
    <3>1. Bad \subseteq Nat
      OBVIOUS
    <3> HIDE DEF Bad
    <3>2. QED BY <3>1, <1>3, LeastNat
  <2>2. m \in Nat /\ ~\E f : Upto(f, m)
    BY <2>1
  <2>3. m # 0
    <3>1. Upto([i \in 0 .. 0 |-> NoSheet], 0)
      OBVIOUS
    <3>2. QED BY <3>1, <2>2
  <2>4. m - 1 \in Nat /\ m - 1 \notin Bad
    BY <2>1, <2>2, <2>3
  <2>5. PICK f : Upto(f, m - 1)
    BY <2>4
  <2> HIDE DEF Bad
  <2> DEFINE g == [i \in 0 .. m |-> IF i = m THEN Draw(f[m - 1], text[m]) ELSE f[i]]
  <2>6. \A i \in 0 .. m - 1 : f[i] = IF i = 0 THEN NoSheet ELSE Draw(f[i - 1], text[i])
    BY <2>5
  <2>7. Upto(g, m)
    <3>1. \A i \in 0 .. m : g[i] = IF i = m THEN Draw(f[m - 1], text[m]) ELSE f[i]
      OBVIOUS
    <3>2. \A i \in 0 .. m - 1 : g[i] = f[i]
      BY <3>1, <2>2
    <3>3. ASSUME NEW i \in 0 .. m PROVE g[i] = IF i = 0 THEN NoSheet ELSE Draw(g[i - 1], text[i])
      <4>1. CASE i = m
        <5>1. m - 1 \in 0 .. m - 1
          BY <2>2, <2>3
        <5>2. g[m - 1] = f[m - 1]
          BY <5>1, <3>2, Zenon
        <5>3. QED BY <4>1, <5>2, <3>1, <2>3
      <4>2. CASE i # m
        <5>1. i \in 0 .. m - 1 /\ (i # 0 => i - 1 \in 0 .. m - 1)
          BY <4>2, <2>2
        <5>2. g[i] = f[i] /\ (i # 0 => g[i - 1] = f[i - 1])
          BY <5>1, <3>2, Zenon
        <5>3. f[i] = IF i = 0 THEN NoSheet ELSE Draw(f[i - 1], text[i])
          BY <5>1, <2>6, Zenon
        <5>4. QED BY <5>2, <5>3, Zenon
      <4>3. QED BY <4>1, <4>2
    <3>4. g = [i \in 0 .. m |-> g[i]]
      OBVIOUS
    <3> HIDE DEF g
    <3>5. QED BY <3>3, <3>4
  <2> HIDE DEF g, Upto
  <2>8. QED BY <2>2, <2>7
<1>4. QED BY <1>2, <1>3

\* The sheet of a text is the last of them.
LEMMA SheetIs ==
  ASSUME NEW S, NEW text \in Seq(S)
  PROVE  \E f : Sheeting(f, text) /\ Sheet(text) = f[Len(text)]
<1> DEFINE v == CHOOSE f : Sheeting(f, text)
<1>1. Sheeting(v, text)
  BY SheetingExists
<1>2. Sheet(text) = v[Len(text)]
  BY DEF Sheet, Sheeting, NoSheet
<1> HIDE DEF v
<1>3. QED BY <1>1, <1>2

\* A text and one more character: the sheet of the text, and the character
\* drawn on it.
LEMMA SheetOfAppend ==
  ASSUME NEW S, NEW text \in Seq(S), NEW c \in S
  PROVE  Sheet(Append(text, c)) = Draw(Sheet(text), c)
<1> DEFINE more == Append(text, c)
           len == Len(text)
<1>1. /\ len \in Nat /\ more \in Seq(S) /\ Len(more) = len + 1 /\ more[len + 1] = c
      /\ \A n \in 1 .. len : more[n] = text[n]
  OBVIOUS
<1>2. PICK f : Sheeting(f, text) /\ Sheet(text) = f[len]
  BY SheetIs
<1>3. PICK g : Sheeting(g, more) /\ Sheet(more) = g[Len(more)]
  BY <1>1, SheetIs
<1>4. \A n \in 0 .. len : f[n] = IF n = 0 THEN NoSheet ELSE Draw(f[n - 1], text[n])
  BY <1>2 DEF Sheeting
<1>5. \A n \in 0 .. len + 1 : g[n] = IF n = 0 THEN NoSheet ELSE Draw(g[n - 1], more[n])
  BY <1>1, <1>3 DEF Sheeting
<1> HIDE DEF len, more
<1> DEFINE Bad == {n \in 0 .. len : f[n] # g[n]}
<1>6. ASSUME Bad # {} PROVE FALSE
  <2>1. PICK m \in Bad : \A k \in Bad : m <= k
    <3>1. Bad \subseteq Nat
      BY <1>1
    <3> HIDE DEF Bad
    <3>2. QED BY <3>1, <1>6, LeastNat
  <2>2. m \in 0 .. len /\ f[m] # g[m]
    BY <2>1
  <2>3. m # 0
    BY <2>2, <1>4, <1>5, <1>1
  <2>4. m - 1 \in 0 .. len /\ m - 1 \notin Bad
    BY <2>1, <2>2, <2>3, <1>1
  <2>5. f[m - 1] = g[m - 1]
    BY <2>4
  <2>6. m \in 0 .. len + 1 /\ m \in 1 .. len
    BY <2>2, <2>3, <1>1
  <2>7. f[m] = Draw(f[m - 1], text[m]) /\ g[m] = Draw(g[m - 1], more[m])
    BY <2>2, <2>3, <2>6, <1>4, <1>5, Zenon
  <2>8. text[m] = more[m]
    BY <2>6, <1>1, Zenon
  <2>9. QED BY <2>2, <2>5, <2>7, <2>8
<1>7. f[len] = g[len]
  BY <1>6, <1>1
<1>8. g[len + 1] = Draw(g[(len + 1) - 1], more[len + 1])
  <2>1. len + 1 \in 0 .. len + 1 /\ len + 1 # 0
    BY <1>1
  <2>2. QED BY <2>1, <1>5, Zenon
<1>9. (len + 1) - 1 = len
  BY <1>1
<1>10. QED BY <1>1, <1>2, <1>3, <1>7, <1>8, <1>9 DEF more

\* No text, an empty sheet.
LEMMA SheetOfNothing == Sheet(<<>>) = NoSheet
<1>1. <<>> \in Seq({}) /\ Len(<<>>) = 0
  OBVIOUS
<1>2. PICK f : Sheeting(f, <<>>) /\ Sheet(<<>>) = f[Len(<<>>)]
  BY <1>1, SheetIs
<1>3. f[0] = NoSheet
  BY <1>1, <1>2 DEF Sheeting
<1>4. QED BY <1>1, <1>2, <1>3
-----------------------------------------------------------------------------
\* The screen.  The cells of a row follow one another, and the next row's follow
\* them.
\* The screen has rows and columns.
LEMMA Screen == COLS \in Nat \ {0} /\ ROWS \in Nat \ {0}
  BY ConsoleAssumption

\* Products of naturals.
LEMMA NatTimes == \A a, b \in Nat : a * b \in Nat
  OBVIOUS

\* The cell of a row and a column, and the one below it.
LEMMA CellOf ==
  ASSUME NEW r \in 0 .. ROWS - 1, NEW k \in 0 .. COLS - 1
  PROVE  /\ (r * COLS) + k \in Cells
         /\ r < ROWS - 1 <=> (r * COLS) + k < (ROWS - 1) * COLS
         /\ ((r * COLS) + k) + COLS = ((r + 1) * COLS) + k
<1>1. COLS \in Nat \ {0} /\ ROWS \in Nat \ {0} /\ r \in Nat /\ k \in Nat /\ k < COLS
  BY Screen
<1>2. /\ r * COLS \in Nat /\ ROWS * COLS \in Nat /\ ((ROWS - 1) - r) * COLS \in Nat
      /\ (r + 1) * COLS \in Nat /\ (ROWS - 1) * COLS \in Nat
  BY <1>1, NatTimes
<1>3. /\ ((ROWS - 1) - r) * COLS = ((ROWS * COLS) - COLS) - (r * COLS)
      /\ (r + 1) * COLS = (r * COLS) + COLS
      /\ (ROWS - 1) * COLS = (ROWS * COLS) - COLS
  BY <1>1
<1>4. (r * COLS) + k \in Cells /\ ((r * COLS) + k) + COLS = ((r + 1) * COLS) + k
  BY <1>1, <1>2, <1>3 DEF Cells
<1>5. CASE r < ROWS - 1
  <2>1. (ROWS - 1) - (r + 1) \in Nat
    BY <1>1, <1>5
  <2>2. ((ROWS - 1) - (r + 1)) * COLS \in Nat
    BY <1>1, <2>1, NatTimes
  <2>3. ((ROWS - 1) - (r + 1)) * COLS = (((ROWS * COLS) - COLS) - (r * COLS)) - COLS
    BY <1>1
  <2>4. (r * COLS) + k < (ROWS - 1) * COLS
    BY <1>1, <1>2, <1>3, <2>2, <2>3
  <2>5. QED BY <1>4, <1>5, <2>4
<1>6. CASE ~(r < ROWS - 1)
  <2>1. r = ROWS - 1
    BY <1>1, <1>6
  <2>2. ~((r * COLS) + k < (ROWS - 1) * COLS)
    BY <2>1, <1>1, <1>2
  <2>3. QED BY <1>4, <1>6, <2>2
<1>7. QED BY <1>5, <1>6

\* No two rows and columns share a cell.
LEMMA CellsApart ==
  ASSUME NEW r \in Nat, NEW k \in 0 .. COLS - 1, NEW q \in Nat, NEW j \in 0 .. COLS - 1,
         (r * COLS) + k = (q * COLS) + j
  PROVE  r = q /\ k = j
<1>1. COLS \in Nat \ {0} /\ k \in Nat /\ j \in Nat /\ k < COLS /\ j < COLS
  BY Screen
<1>2. r * COLS \in Nat /\ q * COLS \in Nat
  BY <1>1, NatTimes
<1>3. ASSUME r > q PROVE FALSE
  <2>1. (r - q) - 1 \in Nat
    BY <1>3
  <2>2. ((r - q) - 1) * COLS \in Nat
    BY <2>1, <1>1, NatTimes
  <2>3. ((r - q) - 1) * COLS = ((r * COLS) - (q * COLS)) - COLS
    BY <1>1
  <2>4. QED BY <2>2, <2>3, <1>1, <1>2
<1>4. ASSUME q > r PROVE FALSE
  <2>1. (q - r) - 1 \in Nat
    BY <1>4
  <2>2. ((q - r) - 1) * COLS \in Nat
    BY <2>1, <1>1, NatTimes
  <2>3. ((q - r) - 1) * COLS = ((q * COLS) - (r * COLS)) - COLS
    BY <1>1
  <2>4. QED BY <2>2, <2>3, <1>1, <1>2
<1>5. r = q
  BY <1>3, <1>4
<1>6. QED BY <1>5, <1>1, <1>2

\* The row and the column of a cell.
LEMMA RowAndColumn ==
  ASSUME NEW i \in Cells
  PROVE  /\ i \div COLS \in 0 .. ROWS - 1 /\ i % COLS \in 0 .. COLS - 1
         /\ i = ((i \div COLS) * COLS) + (i % COLS)
<1>1. /\ COLS \in Nat \ {0} /\ ROWS \in Nat \ {0} /\ ROWS * COLS \in Nat
      /\ i \in Nat /\ i < ROWS * COLS
  BY Screen, NatTimes DEF Cells
<1>2. PICK r \in Int : r = i \div COLS
  BY <1>1
<1>3. PICK k \in 0 .. COLS - 1 : k = i % COLS
  BY <1>1
<1>4. i = (COLS * (i \div COLS)) + (i % COLS)
  BY <1>1
<1>5. i = (r * COLS) + k
  <2>1. COLS * r = r * COLS
    BY <1>1, <1>2
  <2>2. QED BY <1>2, <1>3, <1>4, <2>1
<1>6. r * COLS \in Int /\ k \in Nat /\ k < COLS
  BY <1>1, <1>2, <1>3
<1>7. ASSUME r < 0 PROVE FALSE
  <2>1. -r - 1 \in Nat
    BY <1>7
  <2>2. (-r - 1) * COLS \in Nat
    BY <2>1, <1>1, NatTimes
  <2>3. (-r - 1) * COLS = -(r * COLS) - COLS
    BY <1>1
  <2>4. QED BY <2>2, <2>3, <1>1, <1>5, <1>6
<1>8. ASSUME r >= ROWS PROVE FALSE
  <2>1. r - ROWS \in Nat
    BY <1>1, <1>8
  <2>2. (r - ROWS) * COLS \in Nat
    BY <2>1, <1>1, NatTimes
  <2>3. (r - ROWS) * COLS = (r * COLS) - (ROWS * COLS)
    BY <1>1
  <2>4. QED BY <2>2, <2>3, <1>1, <1>5, <1>6
<1>9. r \in 0 .. ROWS - 1
  BY <1>1, <1>7, <1>8
<1>10. QED BY <1>2, <1>3, <1>5, <1>9

\* A character is the one that the sheet has at a place, or there is none.
Reads(x, cell, row, col) ==
  \/ \E p \in cell : p[1] = row /\ p[2] = col /\ x = p[3]
  \/ x = NUL /\ \A p \in cell : ~(p[1] = row /\ p[2] = col)

\* The screen shows the rows of a sheet from top on.
Shows(v, cell, top) ==
  \A r \in 0 .. ROWS - 1 : \A k \in 0 .. COLS - 1 : Reads(v[(r * COLS) + k], cell, top + r, k)

\* A character put where the sheet has nothing.
LEMMA PutCell ==
  ASSUME NEW v, NEW S, v \in [Cells -> S], NEW cell, NEW top \in Nat, Shows(v, cell, top),
         NEW y \in 0 .. ROWS - 1, NEW x \in 0 .. COLS - 1, NEW c
  PROVE  Shows([v EXCEPT ![(y * COLS) + x] = c], cell \cup {<<top + y, x, c>>}, top)
<1> DEFINE w == [v EXCEPT ![(y * COLS) + x] = c]
           more == cell \cup {<<top + y, x, c>>}
<1>1. ASSUME NEW r \in 0 .. ROWS - 1, NEW k \in 0 .. COLS - 1
      PROVE  Reads(w[(r * COLS) + k], more, top + r, k)
  <2>1. (r * COLS) + k \in Cells /\ (y * COLS) + x \in Cells
    BY CellOf
  <2>2. CASE r = y /\ k = x
    <3>1. w[(r * COLS) + k] = c
      BY <2>1, <2>2
    <3>2. <<top + y, x, c>> \in more
      OBVIOUS
    <3> HIDE DEF more, w
    <3>3. \E p \in more : p[1] = top + r /\ p[2] = k /\ c = p[3]
      BY <3>2, <2>2
    <3>4. QED BY <3>1, <3>3 DEF Reads
  <2>3. CASE ~(r = y /\ k = x)
    <3>1. (r * COLS) + k # (y * COLS) + x
      BY <2>3, CellsApart
    <3>2. w[(r * COLS) + k] = v[(r * COLS) + k]
      BY <3>1, <2>1
    <3>3. PICK z : z = v[(r * COLS) + k] /\ Reads(z, cell, top + r, k)
      BY DEF Shows
    <3>4. ~(top + y = top + r /\ x = k)
      BY <2>3
    <3>5. Reads(z, more, top + r, k)
      BY <3>3, <3>4 DEF Reads
    <3>6. QED BY <3>2, <3>3, <3>5
  <2>4. QED BY <2>2, <2>3
<1>2. QED BY <1>1 DEF Shows

\* A row up: the sheet had nothing yet below the last one.
LEMMA ScrollUp ==
  ASSUME NEW v, NEW S, v \in [Cells -> S], NEW cell, NEW top \in Nat, Shows(v, cell, top),
         \A p \in cell : p[1] \in Nat /\ p[1] < top + ROWS
  PROVE  Shows(RowsUp(v), cell, top + 1)
<1>1. ASSUME NEW r \in 0 .. ROWS - 1, NEW k \in 0 .. COLS - 1
      PROVE  Reads(RowsUp(v)[(r * COLS) + k], cell, (top + 1) + r, k)
  <2>1. PICK i \in Cells : i = (r * COLS) + k
    BY CellOf
  <2>2. RowsUp(v)[i] = IF i < (ROWS - 1) * COLS THEN v[i + COLS] ELSE NUL
    BY DEF RowsUp
  <2>3. CASE r < ROWS - 1
    <3>1. r + 1 \in 0 .. ROWS - 1 /\ top + (r + 1) = (top + 1) + r
      BY <2>3, Screen
    <3>2. RowsUp(v)[i] = v[((r + 1) * COLS) + k]
      <4>1. i < (ROWS - 1) * COLS /\ i + COLS = ((r + 1) * COLS) + k
        BY <2>1, <2>3, CellOf
      <4>2. QED BY <2>2, <4>1
    <3>3. Reads(v[((r + 1) * COLS) + k], cell, top + (r + 1), k)
      BY <3>1 DEF Shows
    <3>4. QED BY <3>1, <3>2, <3>3, <2>1
  <2>4. CASE ~(r < ROWS - 1)
    <3>1. (top + 1) + r = top + ROWS
      BY <2>4, Screen
    <3>2. ~(i < (ROWS - 1) * COLS)
      BY <2>1, <2>4, CellOf
    <3>3. RowsUp(v)[i] = NUL
      BY <2>2, <3>2
    <3>4. \A p \in cell : ~(p[1] = top + ROWS /\ p[2] = k)
      BY Screen
    <3>5. QED BY <2>1, <3>1, <3>3, <3>4 DEF Reads
  <2>5. QED BY <2>3, <2>4
<1>2. QED BY <1>1 DEF Shows

-----------------------------------------------------------------------------
\* The sheet is drawn from left to right and down, never twice in one place.
Before(sheet) ==
  \A p \in sheet.cell : p[1] < sheet.row \/ (p[1] = sheet.row /\ p[2] < sheet.col)

OneEach(cell) == \A p, q \in cell : p[1] = q[1] /\ p[2] = q[2] => p = q

\* The first of the rows on the screen.
Top(row) == IF row < ROWS THEN 0 ELSE (row - ROWS) + 1

\* The screen and its cursor show the end of a sheet.
Screened(sheet, v, x, y, S) ==
  /\ v \in [Cells -> S] /\ sheet \in Sheets(S)
  /\ Before(sheet) /\ OneEach(sheet.cell)
  /\ x = sheet.col /\ y = IF sheet.row < ROWS THEN sheet.row ELSE ROWS - 1
  /\ Shows(v, sheet.cell, Top(sheet.row))

\* A larger set of characters does not matter.
LEMMA ScreenedMore ==
  ASSUME NEW sheet, NEW v, NEW x, NEW y, NEW S, NEW T, S \subseteq T, Screened(sheet, v, x, y, S)
  PROVE  Screened(sheet, v, x, y, T)
<1>1. v \in [Cells -> T]
  BY DEF Screened
<1>2. sheet \in Sheets(T)
  <2>1. sheet = [row |-> sheet.row, col |-> sheet.col, cell |-> sheet.cell]
    BY DEF Screened, Sheets
  <2>2. sheet.row \in Nat /\ sheet.col \in 0 .. COLS - 1
    BY DEF Screened, Sheets
  <2>3. sheet.cell \subseteq Nat \X (0 .. COLS - 1) \X T
    <3>1. sheet.cell \subseteq Nat \X (0 .. COLS - 1) \X S
      BY DEF Screened, Sheets
    <3>2. QED BY <3>1
  <2>4. QED BY <2>1, <2>2, <2>3 DEF Sheets
<1>3. QED BY <1>1, <1>2 DEF Screened

\* The rest of bootvideo_putc when a new row begins, after the character was
\* put: the cursor goes down, or the rows go up.
LEMMA NextRow ==
  ASSUME NEW S, NUL \in S, NEW v \in [Cells -> S], NEW row \in Nat, NEW cell, NEW y,
         \A p \in cell : p[1] \in Nat /\ p[1] <= row,
         y = (IF row < ROWS THEN row ELSE ROWS - 1) + 1, Shows(v, cell, Top(row))
  PROVE  /\ (IF y >= ROWS THEN RowsUp(v) ELSE v) \in [Cells -> S]
         /\ (IF y >= ROWS THEN ROWS - 1 ELSE y) = IF row + 1 < ROWS THEN row + 1 ELSE ROWS - 1
         /\ Shows(IF y >= ROWS THEN RowsUp(v) ELSE v, cell, Top(row + 1))
<1>1. ROWS \in Nat \ {0} /\ y \in Nat
  BY Screen
<1>2. CASE y >= ROWS
  <2>1. /\ ~(row + 1 < ROWS) /\ Top(row) \in Nat
        /\ Top(row + 1) = Top(row) + 1 /\ row < Top(row) + ROWS
    BY <1>1, <1>2 DEF Top
  <2>2. \A p \in cell : p[1] \in Nat /\ p[1] < Top(row) + ROWS
    BY <1>1, <2>1
  <2>3. Shows(RowsUp(v), cell, Top(row) + 1)
    BY <2>1, <2>2, ScrollUp
  <2>4. RowsUp(v) \in [Cells -> S]
    <3>1. ASSUME NEW i \in Cells
          PROVE  (IF i < (ROWS - 1) * COLS THEN v[i + COLS] ELSE NUL) \in S
      <4>1. CASE i < (ROWS - 1) * COLS
        <5>1. i + COLS \in Cells
          <6>1. COLS \in Nat \ {0} /\ i \in Nat /\ ROWS * COLS \in Int /\ (ROWS - 1) * COLS \in Int
            BY Screen DEF Cells
          <6>2. (ROWS - 1) * COLS = (ROWS * COLS) - COLS
            BY Screen
          <6>3. QED BY <6>1, <6>2, <4>1 DEF Cells
        <5>2. QED BY <4>1, <5>1
      <4>2. QED BY <4>1
    <3>2. QED BY <3>1 DEF RowsUp
  <2>5. QED BY <1>2, <2>1, <2>3, <2>4
<1>3. CASE ~(y >= ROWS)
  <2>1. row + 1 < ROWS /\ y = row + 1 /\ Top(row + 1) = Top(row)
    BY <1>1, <1>3 DEF Top
  <2>2. QED BY <1>3, <2>1
<1>4. QED BY <1>2, <1>3

\* A new line.
LEMMA PutNewLine ==
  ASSUME NEW S, NUL \in S, NEW sheet, NEW v, NEW x, NEW y, Screened(sheet, v, x, y, S),
         NEW s, s = bootvideo_putc([v |-> v, x |-> x, y |-> y], NL)
  PROVE  Screened(Draw(sheet, NL), s.v, s.x, s.y, S)
<1> DEFINE row == sheet.row
           cell == sheet.cell
           down == y + 1
<1>1. /\ row \in Nat /\ sheet.col \in 0 .. COLS - 1 /\ cell \subseteq Nat \X (0 .. COLS - 1) \X S
      /\ v \in [Cells -> S] /\ y = IF row < ROWS THEN row ELSE ROWS - 1
      /\ Shows(v, cell, Top(row)) /\ OneEach(cell)
  BY DEF Screened, Sheets
<1>2. \A p \in cell : p[1] \in Nat /\ (p[1] < row \/ (p[1] = row /\ p[2] < sheet.col))
  BY <1>1 DEF Screened, Before
<1>3. COLS \in Nat \ {0} /\ ROWS \in Nat \ {0}
  BY Screen
<1>4. /\ s.v = IF down >= ROWS THEN RowsUp(v) ELSE v
      /\ s.x = 0
      /\ s.y = IF down >= ROWS THEN ROWS - 1 ELSE down
  BY <1>3 DEF bootvideo_putc
<1>5. Draw(sheet, NL) = [row |-> row + 1, col |-> 0, cell |-> cell]
  BY DEF Draw
<1> HIDE DEF row, cell
<1>6. \A p \in cell : p[1] \in Nat /\ p[1] <= row
  BY <1>1, <1>2
<1>7. /\ s.v \in [Cells -> S]
      /\ s.y = IF row + 1 < ROWS THEN row + 1 ELSE ROWS - 1
      /\ Shows(s.v, cell, Top(row + 1))
  BY <1>1, <1>4, <1>6, NextRow
<1>8. PICK n : n = [row |-> row + 1, col |-> 0, cell |-> cell]
  OBVIOUS
<1>9. n.row = row + 1 /\ n.col = 0 /\ n.cell = cell /\ n \in Sheets(S)
  BY <1>1, <1>3, <1>8 DEF Sheets
<1>10. Before(n)
  BY <1>6, <1>9, <1>1 DEF Before
<1>11. QED BY <1>1, <1>4, <1>5, <1>7, <1>8, <1>9, <1>10 DEF Screened

\* Any other character.
LEMMA PutCharacter ==
  ASSUME NEW S, NUL \in S, NEW sheet, NEW v, NEW x, NEW y, Screened(sheet, v, x, y, S),
         NEW c \in S, c # NL,
         NEW s, s = bootvideo_putc([v |-> v, x |-> x, y |-> y], c)
  PROVE  Screened(Draw(sheet, c), s.v, s.x, s.y, S)
<1> DEFINE row == sheet.row
           col == sheet.col
           cell == sheet.cell
           w == [v EXCEPT ![(y * COLS) + x] = c]
           more == cell \cup {<<row, col, c>>}
<1>1. /\ row \in Nat /\ col \in 0 .. COLS - 1 /\ cell \subseteq Nat \X (0 .. COLS - 1) \X S
      /\ v \in [Cells -> S] /\ y = (IF row < ROWS THEN row ELSE ROWS - 1) /\ x = col
      /\ Shows(v, cell, Top(row)) /\ OneEach(cell)
  BY DEF Screened, Sheets
<1>2. \A p \in cell : /\ p[1] \in Nat /\ p[2] \in 0 .. COLS - 1
                      /\ p[1] < row \/ (p[1] = row /\ p[2] < col)
  BY <1>1 DEF Screened, Before
<1>3. COLS \in Nat \ {0} /\ ROWS \in Nat \ {0}
  BY Screen
<1>4. /\ s.v = IF (IF x + 1 >= COLS THEN y + 1 ELSE y) >= ROWS THEN RowsUp(w) ELSE w
      /\ s.x = IF x + 1 >= COLS THEN 0 ELSE x + 1
      /\ s.y = IF (IF x + 1 >= COLS THEN y + 1 ELSE y) >= ROWS THEN ROWS - 1
               ELSE IF x + 1 >= COLS THEN y + 1 ELSE y
  BY DEF bootvideo_putc
<1>5. Draw(sheet, c) = [row |-> IF col = COLS - 1 THEN row + 1 ELSE row,
                        col |-> IF col = COLS - 1 THEN 0 ELSE col + 1,
                        cell |-> more]
  BY DEF Draw
<1> HIDE DEF row, col, cell
<1>6. w \in [Cells -> S]
  BY <1>1
<1>7. Shows(w, more, Top(row))
  <2>1. Top(row) \in Nat /\ y \in 0 .. ROWS - 1 /\ x \in 0 .. COLS - 1
    BY <1>1, <1>3 DEF Top
  <2>2. Top(row) + y = row
    BY <1>1, <1>3 DEF Top
  <2>3. Shows(w, cell \cup {<<Top(row) + y, x, c>>}, Top(row))
    BY <2>1, <1>1, PutCell
  <2>4. QED BY <2>2, <2>3, <1>1
<1>8. more \subseteq Nat \X (0 .. COLS - 1) \X S
  BY <1>1
<1>9. OneEach(more)
  <2>1. \A p \in cell : ~(p[1] = row /\ p[2] = col)
    BY <1>1, <1>2
  <2>2. QED BY <2>1, <1>1 DEF OneEach
<1>10. \A p \in more : /\ p[1] \in Nat /\ p[1] <= row
                       /\ p[1] < row \/ (p[1] = row /\ p[2] < col + 1)
  BY <1>1, <1>2
<1> HIDE DEF w, more
<1>11. CASE col = COLS - 1
  <2> DEFINE down == y + 1
  <2>1. x + 1 >= COLS
    BY <1>1, <1>3, <1>11
  <2>2. /\ s.v = IF down >= ROWS THEN RowsUp(w) ELSE w
        /\ s.x = 0
        /\ s.y = IF down >= ROWS THEN ROWS - 1 ELSE down
    BY <1>4, <2>1
  <2>3. /\ s.v \in [Cells -> S]
        /\ s.y = IF row + 1 < ROWS THEN row + 1 ELSE ROWS - 1
        /\ Shows(s.v, more, Top(row + 1))
    <3>1. down = (IF row < ROWS THEN row ELSE ROWS - 1) + 1
      BY <1>1
    <3>2. row \in Nat /\ \A p \in more : p[1] \in Nat /\ p[1] <= row
      BY <1>1, <1>10
    <3> HIDE DEF down
    <3>3. QED BY <3>1, <3>2, <1>6, <1>7, <2>2, NextRow, SMTT(30)
  <2>4. PICK n : n = [row |-> row + 1, col |-> 0, cell |-> more]
    OBVIOUS
  <2>5. n.row = row + 1 /\ n.col = 0 /\ n.cell = more /\ n \in Sheets(S)
    BY <1>1, <1>3, <1>8, <2>4 DEF Sheets
  <2>6. Before(n)
    BY <1>10, <2>5, <1>1 DEF Before
  <2>7. Draw(sheet, c) = n
    BY <1>5, <1>11, <2>4
  <2>8. QED BY <1>9, <2>2, <2>3, <2>5, <2>6, <2>7 DEF Screened
<1>12. CASE col # COLS - 1
  <2>1. ~(x + 1 >= COLS) /\ col + 1 \in 0 .. COLS - 1 /\ ~(y >= ROWS)
    BY <1>1, <1>3, <1>12
  <2>2. s.v = w /\ s.x = col + 1 /\ s.y = y
    BY <1>1, <1>4, <2>1
  <2>3. PICK n : n = [row |-> row, col |-> col + 1, cell |-> more]
    OBVIOUS
  <2>4. n.row = row /\ n.col = col + 1 /\ n.cell = more /\ n \in Sheets(S)
    BY <1>1, <1>8, <2>1, <2>3 DEF Sheets
  <2>5. Before(n)
    BY <1>10, <2>4, <1>1 DEF Before
  <2>6. Draw(sheet, c) = n
    BY <1>5, <1>12, <2>3
  <2>7. QED BY <1>1, <1>6, <1>7, <1>9, <2>2, <2>4, <2>5, <2>6 DEF Screened
<1>13. QED BY <1>11, <1>12

-----------------------------------------------------------------------------
\* What reached the device, over some set of characters: on the line, with at
\* most one character in the UART; or on the screen.
OnLine(S) ==
  /\ line \in Seq(S) /\ fifo \in Seq(S) /\ line \o fifo = written
  /\ fifo = <<>> \/ \E c \in S : fifo = <<c>>

\* When a new line has faulted the cursor is below the screen, and nothing is
\* put any more.
Below == switched /\ curY \in Nat /\ curY >= ROWS

OnScreen(S) ==
  /\ fifo = <<>>
  /\ \/ Screened(Sheet(written), vmem, curX, curY, S)
     \/ Below /\ \E x, y : Screened(Sheet(written), vmem, x, y, S)

\* The inductive invariant: the cursor is where the sheet ends, and nothing was
\* drawn there or beyond.
ConsoleInv ==
  \E S : /\ NUL \in S /\ written \in Seq(S)
         /\ use_serial => OnLine(S)
         /\ ~use_serial => OnScreen(S)

\* bootvideo_cls leaves an empty screen, and nothing was put.
LEMMA ConsoleInvStarts == ConsoleInit => ConsoleInv
<1> SUFFICES ASSUME ConsoleInit PROVE ConsoleInv
  OBVIOUS
<1>1. written = <<>> /\ line = <<>> /\ fifo = <<>> /\ vmem = Blank /\ curX = 0 /\ curY = 0
  BY DEF ConsoleInit
<1>2. PICK S : S = {NUL}
  OBVIOUS
<1>3. OnLine(S)
  BY <1>1 DEF OnLine
<1>4. Screened(NoSheet, Blank, 0, 0, S)
  <2>1. PICK n : n = NoSheet
    OBVIOUS
  <2>2. n.row = 0 /\ n.col = 0 /\ n.cell = {} /\ n \in Sheets(S)
    BY <2>1, Screen DEF NoSheet, Sheets
  <2>3. Blank \in [Cells -> S] /\ \A i \in Cells : Blank[i] = NUL
    BY <1>2 DEF Blank
  <2>4. Top(0) = 0 /\ 0 < ROWS
    BY Screen DEF Top
  <2>5. Shows(Blank, {}, 0)
    BY <2>3, CellOf DEF Shows, Reads
  <2>6. QED BY <2>1, <2>2, <2>3, <2>4, <2>5 DEF Screened, Before, OneEach
<1>5. OnScreen(S)
  BY <1>1, <1>4, SheetOfNothing DEF OnScreen
<1>6. NUL \in S /\ written \in Seq(S)
  BY <1>1, <1>2
<1>7. QED BY <1>3, <1>5, <1>6 DEF ConsoleInv

\* A character on the screen, and one to the UART.
LEMMA PutKeeps == ConsoleInv /\ Put => ConsoleInv'
<1> SUFFICES ASSUME ConsoleInv, Put PROVE ConsoleInv'
  OBVIOUS
<1>1. PICK R : /\ NUL \in R /\ written \in Seq(R)
               /\ use_serial => OnLine(R)
               /\ ~use_serial => OnScreen(R)
  BY DEF ConsoleInv
<1>2. PICK c : /\ ToScreen(c) \/ i686_tty_putchar(c)
               /\ written' = Append(written, c) /\ use_serial' = use_serial
  BY DEF Put
<1>3. PICK S : S = R \cup {c}
  OBVIOUS
<1>4. /\ NUL \in S /\ c \in S /\ R \subseteq S
      /\ written \in Seq(S) /\ written' \in Seq(S)
  BY <1>1, <1>2, <1>3
<1>5. CASE ToScreen(c)
  <2>1. ~use_serial /\ fifo' = fifo
    BY <1>5 DEF ToScreen
  <2>2. PICK s : s = bootvideo_putc([v |-> vmem, x |-> curX, y |-> curY], c)
    OBVIOUS
  <2>3. vmem' = s.v /\ curX' = s.x /\ curY' = s.y
    BY <1>5, <2>2 DEF ToScreen
  <2>4. fifo = <<>> /\ Screened(Sheet(written), vmem, curX, curY, S)
    <3>1. ~Below
      BY <1>5, Screen DEF ToScreen, TouchesScreen, Below
    <3>2. fifo = <<>> /\ Screened(Sheet(written), vmem, curX, curY, R)
      BY <1>1, <2>1, <3>1 DEF OnScreen
    <3>3. QED BY <1>4, <3>2, ScreenedMore
  <2>5. Screened(Draw(Sheet(written), c), s.v, s.x, s.y, S)
    <3>1. CASE c = NL
      BY <1>4, <2>2, <2>4, <3>1, PutNewLine
    <3>2. CASE c # NL
      BY <1>4, <2>2, <2>4, <3>2, PutCharacter
    <3>3. QED BY <3>1, <3>2
  <2>6. Sheet(written') = Draw(Sheet(written), c)
    BY <1>2, <1>4, SheetOfAppend
  <2>7. OnScreen(S)'
    BY <2>1, <2>3, <2>4, <2>5, <2>6 DEF OnScreen
  <2>8. QED BY <1>2, <1>4, <2>1, <2>7 DEF ConsoleInv
<1>6. CASE i686_tty_putchar(c)
  <2>1. use_serial /\ fifo = <<>> /\ fifo' = <<c>> /\ line' = line
    BY <1>6 DEF i686_tty_putchar
  <2>2. line \in Seq(R) /\ line \o <<>> = written
    BY <1>1, <2>1 DEF OnLine
  <2>3. line = written
    BY <2>2
  <2>4. line \in Seq(S) /\ <<c>> \in Seq(S) /\ line \o <<c>> = Append(line, c)
    BY <1>4, <2>3
  <2>5. OnLine(S)'
    BY <1>2, <1>4, <2>1, <2>3, <2>4 DEF OnLine
  <2>6. QED BY <1>2, <1>4, <2>1, <2>5 DEF ConsoleInv
<1>7. QED BY <1>2, <1>5, <1>6

\* The UART sends its one character.
LEMMA SendKeeps == ConsoleInv /\ Send => ConsoleInv'
<1> SUFFICES ASSUME ConsoleInv, Send PROVE ConsoleInv'
  OBVIOUS
<1>1. PICK S : /\ NUL \in S /\ written \in Seq(S)
               /\ use_serial => OnLine(S)
               /\ ~use_serial => OnScreen(S)
  BY DEF ConsoleInv
<1>2. /\ fifo # <<>> /\ line' = Append(line, Head(fifo)) /\ fifo' = Tail(fifo)
      /\ use_serial' = use_serial /\ written' = written
  BY DEF Send
<1>3. OnLine(S) /\ ~(~use_serial)
  BY <1>1, <1>2 DEF OnScreen
<1>4. PICK c \in S : fifo = <<c>>
  BY <1>2, <1>3 DEF OnLine
<1>5. line' = Append(line, c) /\ fifo' = <<>>
  BY <1>2, <1>4
<1>6. line \in Seq(S) /\ line \o <<c>> = written
  BY <1>3, <1>4 DEF OnLine
<1>7. Append(line, c) \in Seq(S) /\ Append(line, c) \o <<>> = written
  BY <1>6
<1>8. OnLine(S)'
  <2>1. line' \in Seq(S) /\ line' \o <<>> = written' /\ <<>> \in Seq(S)
    BY <1>2, <1>5, <1>7
  <2>2. QED BY <1>5, <2>1, Zenon DEF OnLine
<1>9. QED BY <1>1, <1>2, <1>3, <1>8 DEF ConsoleInv

\* A put that faults shows nothing: either it has changed nothing, or only the
\* cursor, which is then below the screen.
LEMMA FaultKeeps == ConsoleInv /\ PutFaults => ConsoleInv'
<1> SUFFICES ASSUME ConsoleInv, PutFaults PROVE ConsoleInv'
  OBVIOUS
<1>1. PICK S : /\ NUL \in S /\ written \in Seq(S)
               /\ use_serial => OnLine(S)
               /\ ~use_serial => OnScreen(S)
  BY DEF ConsoleInv
<1>2. /\ ~use_serial /\ switched /\ TouchesScreen(debugbuf[pos])
      /\ IF debugbuf[pos] = NL THEN curX' = 0 /\ curY' = curY + 1 ELSE UNCHANGED <<curX, curY>>
      /\ UNCHANGED <<use_serial, switched, vmem, fifo, written>>
  BY DEF PutFaults
<1>3. OnScreen(S)
  BY <1>1, <1>2
<1>4. PICK x, y : Screened(Sheet(written), vmem, x, y, S)
  BY <1>3 DEF OnScreen
<1>5. CASE debugbuf[pos] = NL
  <2>1. curY \in Nat
    <3>1. CASE Screened(Sheet(written), vmem, curX, curY, S)
      BY <3>1, Screen DEF Screened, Sheets
    <3>2. CASE Below
      BY <3>2 DEF Below
    <3>3. QED BY <1>3, <3>1, <3>2 DEF OnScreen
  <2>2. curY' = curY + 1 /\ curY + 1 >= ROWS
    BY <1>2, <1>5 DEF TouchesScreen
  <2>3. Below'
    BY <1>2, <2>1, <2>2 DEF Below
  <2>4. fifo' = <<>> /\ Screened(Sheet(written'), vmem', x, y, S)
    BY <1>2, <1>3, <1>4 DEF OnScreen
  <2>5. OnScreen(S)'
    BY <2>3, <2>4 DEF OnScreen
  <2>6. QED BY <1>1, <1>2, <2>5 DEF ConsoleInv
<1>6. CASE debugbuf[pos] # NL
  <2>1. UNCHANGED <<use_serial, switched, vmem, curX, curY, fifo, written>>
    BY <1>2, <1>6
  <2>2. OnScreen(S)'
    BY <1>3, <2>1 DEF OnScreen, Below
  <2>3. QED BY <1>1, <1>2, <2>2 DEF ConsoleInv
<1>7. QED BY <1>5, <1>6

\* No other step touches a device.
LEMMA ConsoleStep == ConsoleInv /\ [ConsoleNext]_consolevars => ConsoleInv'
<1> SUFFICES ASSUME ConsoleInv, [ConsoleNext]_consolevars PROVE ConsoleInv'
  OBVIOUS
<1>1. ASSUME UNCHANGED <<use_serial, switched, devices, written>> PROVE ConsoleInv'
  BY <1>1 DEF ConsoleInv, OnLine, OnScreen, Below, devices
<1>2. CASE UNCHANGED consolevars
  BY <1>1, <1>2 DEF consolevars
<1>3. ASSUME NEW m \in Messages, Call(m) PROVE ConsoleInv'
  BY <1>1, <1>3 DEF Call
<1>4. CASE FormatMessage
  BY <1>1, <1>4 DEF FormatMessage
<1>5. CASE Put
  BY <1>5, PutKeeps
<1>6. CASE Return
  BY <1>1, <1>6 DEF Return
<1>7. CASE Send
  BY <1>7, SendKeeps
<1>8. ASSUME NEW report \in Reports, Exception(report) PROVE ConsoleInv'
  BY <1>1, <1>8 DEF Exception
<1>9. CASE Hung
  BY <1>1, <1>9 DEF Hung, consolevars
<1>10. CASE SetContext
  <2>1. /\ UNCHANGED <<use_serial, vmem, curX, curY, fifo, line, written>>
        /\ ~switched
    BY <1>10 DEF SetContext, devices
  <2>2. \A S : OnLine(S) => OnLine(S)'
    BY <2>1 DEF OnLine
  <2>3. \A S : OnScreen(S) => OnScreen(S)'
    BY <2>1 DEF OnScreen, Below
  <2>4. QED BY <2>1, <2>2, <2>3 DEF ConsoleInv
<1>11. CASE PutFaults
  BY <1>11, FaultKeeps
<1>12. QED BY <1>2, <1>3, <1>4, <1>5, <1>6, <1>7, <1>8, <1>9, <1>10, <1>11 DEF ConsoleNext

\* What the screen shows is the one thing that the sheet has at each place.
LEMMA ConsoleInvShows == ConsoleInv => ShownInOrder
<1> SUFFICES ASSUME ConsoleInv PROVE ShownInOrder
  OBVIOUS
<1>1. PICK S : /\ NUL \in S /\ written \in Seq(S)
               /\ use_serial => OnLine(S)
               /\ ~use_serial => OnScreen(S)
  BY DEF ConsoleInv
<1>2. CASE use_serial
  BY <1>1, <1>2 DEF OnLine, ShownInOrder
<1>3. CASE ~use_serial
  <2> DEFINE sheet == Sheet(written)
             top == IF sheet.row < ROWS THEN 0 ELSE sheet.row - ROWS + 1
             here(i) == {p \in sheet.cell : p[1] = top + (i \div COLS) /\ p[2] = i % COLS}
             what(i) == IF here(i) = {} THEN NUL ELSE (CHOOSE p \in here(i) : TRUE)[3]
  <2>1. /\ Shows(vmem, sheet.cell, Top(sheet.row)) /\ OneEach(sheet.cell)
        /\ top = Top(sheet.row)
    BY <1>1, <1>3 DEF OnScreen, Screened, Top
  <2> HIDE DEF sheet, top
  <2>2. ASSUME NEW i \in Cells PROVE vmem[i] = what(i)
    <3>1. PICK r \in 0 .. ROWS - 1 : r = i \div COLS
      BY RowAndColumn
    <3>2. PICK k \in 0 .. COLS - 1 : k = i % COLS
      BY RowAndColumn
    <3>3. i = (r * COLS) + k
      BY <3>1, <3>2, RowAndColumn
    <3>4. Reads(vmem[i], sheet.cell, top + r, k)
      BY <2>1, <3>3 DEF Shows
    <3>5. here(i) = {p \in sheet.cell : p[1] = top + r /\ p[2] = k}
      BY <3>1, <3>2
    <3>6. CASE here(i) = {}
      BY <3>4, <3>5, <3>6 DEF Reads
    <3>7. CASE here(i) # {}
      <4>1. PICK q : q = (CHOOSE p \in here(i) : TRUE) /\ q \in here(i)
        BY <3>7
      <4>2. q \in sheet.cell /\ q[1] = top + r /\ q[2] = k
        BY <4>1, <3>5
      <4>3. PICK p \in sheet.cell : p[1] = top + r /\ p[2] = k /\ vmem[i] = p[3]
        BY <3>4, <4>2 DEF Reads
      <4>4. p = q
        BY <2>1, <4>2, <4>3 DEF OneEach
      <4>5. QED BY <3>7, <4>1, <4>3, <4>4
    <3>8. QED BY <3>6, <3>7
  <2>3. QED BY <1>3, <2>2 DEF ShownInOrder, sheet, top
<1>4. QED BY <1>2, <1>3

\* The console's invariant, for every screen, buffer and set of messages.
THEOREM ConsoleInvariant == ConsoleSpec => []ConsoleInv
<1>1. QED BY ConsoleInvStarts, ConsoleStep, PTL DEF ConsoleSpec

\* bootvideo_putc with bootvideo_scroll, and i686_tty_putchar: the screen shows
\* the last rows of all that was put, the line and the UART all of it, in order.
THEOREM ShownAsWritten == ConsoleSpec => []ShownInOrder
<1>1. QED BY ConsoleInvariant, ConsoleInvShows, PTL
=============================================================================
