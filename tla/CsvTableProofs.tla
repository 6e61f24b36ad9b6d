-------------------------- MODULE CsvTableProofs ---------------------------
(***************************************************************************)
(* Theorems about CsvTable, for any fields and settings, any number of     *)
(* calls, and texts and tables of any size whose cells can be counted.     *)
(***************************************************************************)
EXTENDS CsvTable, SequenceTheorems, FiniteSetTheorems, WellFoundedInduction, TLAPS

-----------------------------------------------------------------------------
(* Functions that are defined by recursion exist, by induction over numbers. *)

\* A set of numbers that is not empty has a smallest one.
LEMMA SmallestNumber ==
    ASSUME NEW P \in SUBSET Nat, P # {}
    PROVE  \E m \in P : \A y \in P : m <= y
<1>. DEFINE R == OpToRel(<, Nat)
<1>1. IsWellFoundedOn(R, Nat)
    BY NatLessThanWellFounded
<1>2. \E x \in P : \A y \in P : ~ (<<y, x>> \in R)
  <2>. HIDE DEF R
  <2>. QED  BY <1>1, WFMin
<1>3. PICK x \in P : \A y \in P : ~ (<<y, x>> \in R)
    BY <1>2
<1>4. ASSUME NEW y \in P PROVE x <= y
  <2>1. x \in Nat /\ y \in Nat
      OBVIOUS
  <2>2. y < x => <<y, x>> \in R
      BY <2>1 DEF OpToRel
  <2>. HIDE DEF R
  <2>3. ~ (y < x)
      BY <1>3, <2>2
  <2>. QED  BY <2>1, <2>3
<1>. QED  BY <1>4

\* A set of numbers that has 0 and the successor of each member has them all.
LEMMA NatInd ==
    ASSUME NEW T \in SUBSET Nat, 0 \in T, \A n \in T : n + 1 \in T
    PROVE  T = Nat
<1>. DEFINE U == Nat \ T
<1>1. ASSUME U # {} PROVE FALSE
  <2>1. U \in SUBSET Nat
      OBVIOUS
  <2>2. PICK x \in U : \A y \in U : x <= y
    <3>. HIDE DEF U
    <3>. QED  BY <1>1, <2>1, SmallestNumber
  <2>3. x \in Nat /\ x # 0
      BY <2>2
  <2>4. x - 1 \in Nat /\ x - 1 + 1 = x /\ ~(x <= x - 1)
      BY <2>3
  <2>5. x - 1 \in U
      BY <2>2, <2>4
  <2>. QED  BY <2>2, <2>4, <2>5
<1>. QED  BY <1>1

\* f begins with x and goes on from each value to the next as g says; there is such
\* a function.
Iterates(f, N, x, g) == f[0] = x /\ \A n \in 1..N : f[n] = g[n][f[n - 1]]

LEMMA Recursion ==
    ASSUME NEW N \in Nat, NEW S, NEW x \in S, NEW g \in [1..N -> [S -> S]]
    PROVE  \E f \in [0..N -> S] : Iterates(f, N, x, g)
<1>. DEFINE Up(m) == \E f \in [0..m -> S] : f[0] = x /\ \A n \in 1..m : f[n] = g[n][f[n - 1]]
            T == {m \in Nat : m <= N => Up(m)}
<1>1. 0 \in T
  <2>. DEFINE f == [n \in 0..0 |-> x]
  <2>1. f \in [0..0 -> S] /\ f[0] = x /\ \A n \in 1..0 : f[n] = g[n][f[n - 1]]
      OBVIOUS
  <2>. HIDE DEF f
  <2>2. Up(0)
      BY <2>1
  <2>. QED  BY <2>2
<1>2. ASSUME NEW m \in T PROVE m + 1 \in T
  <2>. SUFFICES ASSUME m + 1 <= N PROVE Up(m + 1)
    <3>. HIDE DEF Up
    <3>. QED  OBVIOUS
  <2>0. Up(m)
    <3>. HIDE DEF Up
    <3>. QED  OBVIOUS
  <2>1. PICK f \in [0..m -> S] : f[0] = x /\ \A n \in 1..m : f[n] = g[n][f[n - 1]]
      BY <2>0
  <2>2. m \in Nat /\ m \in 0..m /\ m + 1 \in 1..N /\ m + 1 \notin 0..m
      OBVIOUS
  <2>3. PICK y : y = g[m + 1][f[m]]
      OBVIOUS
  <2>4. y \in S
      BY <2>1, <2>2, <2>3
  <2>. DEFINE h == [n \in 0..(m + 1) |-> IF n = m + 1 THEN y ELSE f[n]]
  <2>5. \A n \in 0..(m + 1) : n = m + 1 \/ n \in 0..m
      BY <2>2
  <2>6. h \in [0..(m + 1) -> S]
      BY <2>1, <2>4, <2>5
  <2>7. (\A n \in 0..m : h[n] = f[n]) /\ h[m + 1] = y
      BY <2>2
  <2>. HIDE DEF h
  <2>8. ASSUME NEW n \in 1..(m + 1) PROVE h[n] = g[n][h[n - 1]]
    <3>1. CASE n = m + 1
      <4>1. n - 1 = m
          BY <3>1, <2>2
      <4>. QED  BY <3>1, <4>1, <2>3, <2>7, <2>2
    <3>2. CASE n # m + 1
      <4>1. n \in 1..m /\ n - 1 \in 0..m /\ n \in 0..m
          BY <3>2, <2>2
      <4>. QED  BY <4>1, <2>1, <2>7
    <3>. QED  BY <3>1, <3>2
  <2>9. h[0] = x
      BY <2>1, <2>2, <2>7
  <2>. QED  BY <2>6, <2>8, <2>9
<1>3. T = Nat
  <2>1. T \in SUBSET Nat
      OBVIOUS
  <2>. HIDE DEF T
  <2>. QED  BY <1>1, <1>2, <2>1, NatInd
<1>4. PICK f \in [0..N -> S] : f[0] = x /\ \A n \in 1..N : f[n] = g[n][f[n - 1]]
    BY <1>3
<1>. QED  BY <1>4 DEF Iterates

-----------------------------------------------------------------------------
(* Where the cells of a table are.                                           *)

\* Products grow with their factors.
LEMMA Grows ==
    ASSUME NEW c \in Nat, NEW a \in Nat, NEW b \in Nat, a <= b
    PROVE  c * a <= c * b /\ c * a \in Nat /\ c * b \in Nat /\ (c # 0 => a <= c * a)
<1>1. PICK d \in Nat : b = a + d
  <2>1. b - a \in Nat /\ b = a + (b - a)
      OBVIOUS
  <2>. QED  BY <2>1
<1>2. c * b = c * a + c * d
    BY <1>1
<1>3. c * a \in Nat /\ c * d \in Nat
    BY <1>1
<1>4. ASSUME c # 0 PROVE a <= c * a
  <2>1. PICK e \in Nat : c = 1 + e
    <3>1. c - 1 \in Nat /\ c = 1 + (c - 1)
        BY <1>4
    <3>. QED  BY <3>1
  <2>2. c * a = a + e * a /\ e * a \in Nat
      BY <2>1
  <2>. QED  BY <2>2, <1>3
<1>. QED  BY <1>2, <1>3, <1>4

\* Dividing a product by its factor.
LEMMA Divided ==
    ASSUME NEW c \in Nat \ {0}, NEW k \in Nat
    PROVE  (c * k) \div c = k /\ (c * k) % c = 0
OBVIOUS

\* A number without a remainder is a product.
LEMMA NoRemainder ==
    ASSUME NEW c \in Nat \ {0}, NEW n \in Nat, n % c = 0
    PROVE  n \div c \in Nat /\ n = c * (n \div c)
OBVIOUS

\* A cell of one of R rows has its place.
LEMMA Place ==
    ASSUME NEW w \in Nat, NEW R \in Nat, NEW r \in 0..(R - 1), NEW c \in 0..(w - 1)
    PROVE  r * w + c + 1 \in 1..(w * R) /\ r * w + c \in Nat
<1>1. w * (r + 1) <= w * R /\ w * (r + 1) \in Nat
    BY Grows
<1>2. w * (r + 1) = r * w + w /\ r * w \in Nat
    OBVIOUS
<1>. QED  BY <1>1, <1>2

\* and no other cell has it.
LEMMA PlaceOfItsOwn ==
    ASSUME NEW w \in Nat, NEW r \in Nat, NEW c \in 0..(w - 1), NEW q \in Nat, NEW d \in 0..(w - 1),
           r * w + c = q * w + d
    PROVE  r = q /\ c = d
<1>1. ASSUME NEW a \in Nat, NEW b \in Nat, NEW x \in 0..(w - 1), NEW y \in 0..(w - 1), a < b
      PROVE  a * w + x < b * w + y
  <2>1. w * (a + 1) <= w * b /\ w * b \in Nat /\ w * a \in Nat
      BY <1>1, Grows
  <2>2. w * (a + 1) = a * w + w /\ w * b = b * w
      OBVIOUS
  <2>. QED  BY <2>1, <2>2
<1>2. ~(r < q) /\ ~(q < r)
  <2>1. r * w + c \in Int /\ q * w + d \in Int
      OBVIOUS
  <2>2. ~(r < q)
      BY <1>1, <2>1
  <2>3. ~(q < r)
      BY <1>1, <2>1
  <2>. QED  BY <2>2, <2>3
<1>3. r = q
    BY <1>2
<1>4. r * w \in Int
    OBVIOUS
<1>. QED  BY <1>3, <1>4

-----------------------------------------------------------------------------
(* Tables that have all cells of their rows.                                 *)

\* vector::resize() keeps what there is room for, and adds empty cells.
LEMMA ResizedCells ==
    ASSUME NEW s \in Seq(Cell), NEW n \in Nat
    PROVE  /\ Resized(s, n) \in Seq(Cell) /\ Len(Resized(s, n)) = n
           /\ \A i \in 1..n : Resized(s, n)[i] = IF i <= Len(s) THEN s[i] ELSE <<>>
<1>1. Len(s) \in Nat /\ (\A i \in 1..Len(s) : s[i] \in Cell) /\ <<>> \in Cell
    BY LenProperties, ElementOfSeq, EmptySeq DEF Cell
<1>2. \A i \in 1..n : (IF i <= Len(s) THEN s[i] ELSE <<>>) \in Cell
    BY <1>1
<1>3. Resized(s, n) \in [1..n -> Cell]
    BY <1>2 DEF Resized
<1>4. Resized(s, n) \in Seq(Cell) /\ Len(Resized(s, n)) = n
    BY <1>3
<1>. QED  BY <1>4 DEF Resized

\* A table with all cells of R rows
Full(t, R) == t \in Tables /\ t.cols # 0 /\ Len(t.data) = t.cols * R

\* The cell of a table, as the program numbers them
At(t, c, r) == t.data[r * t.cols + c + 1]

\* Such a table has R rows, and a cell in each place of them.
LEMMA FullRows ==
    ASSUME NEW t, NEW R \in Nat, Full(t, R)
    PROVE  /\ NumRows(t) = R /\ t.cols \in Nat \ {0} /\ t.data \in Seq(Cell) /\ Len(t.data) % t.cols = 0
           /\ \A r \in 0..(R - 1), c \in 0..(t.cols - 1) : At(t, c, r) \in Cell
<1>1. t.cols \in Nat \ {0} /\ t.data \in Seq(Cell) /\ Len(t.data) = t.cols * R
    BY DEF Full, Tables, Cell
<1>2. NumRows(t) = R /\ Len(t.data) % t.cols = 0
    BY <1>1, Divided DEF NumRows
<1>3. ASSUME NEW r \in 0..(R - 1), NEW c \in 0..(t.cols - 1) PROVE At(t, c, r) \in Cell
  <2>1. r * t.cols + c + 1 \in 1..(t.cols * R)
      BY <1>1, Place
  <2>2. r * t.cols + c + 1 \in 1..Len(t.data)
      BY <1>1, <2>1
  <2>. QED  BY <1>1, <2>2, ElementOfSeq DEF At
<1>. QED  BY <1>1, <1>2, <1>3

\* rows(n), as long as the cells can be counted
LEMMA RowsSet ==
    ASSUME NEW t, NEW R \in Nat, Full(t, R), NEW n \in Nat, t.cols * n < Wide
    PROVE  /\ Full(SetRows(t, n), n) /\ SetRows(t, n).cols = t.cols
           /\ \A r \in 0..(n - 1), c \in 0..(t.cols - 1) :
                 At(SetRows(t, n), c, r) = IF r < R THEN At(t, c, r) ELSE <<>>
<1>1. t.cols \in Nat \ {0} /\ t.data \in Seq(Cell) /\ Len(t.data) = t.cols * R /\ t \in Tables
    BY FullRows DEF Full
<1>. DEFINE u == SetRows(t, n)
            s == Resized(t.data, t.cols * n)
<1>2. t.cols * n \in Nat /\ (t.cols * n) % Wide = t.cols * n
  <2>1. t.cols * n \in Nat
      BY <1>1
  <2>2. \A x \in Nat : x < Wide => x % Wide = x
      BY TableAssumption
  <2>. QED  BY <2>1, <2>2
<1>3. u = [t EXCEPT !.data = s]
    BY <1>2 DEF SetRows
<1>4. /\ s \in Seq(Cell) /\ Len(s) = t.cols * n
      /\ \A i \in 1..(t.cols * n) : s[i] = IF i <= Len(t.data) THEN t.data[i] ELSE <<>>
    BY <1>1, <1>2, ResizedCells
<1>. HIDE DEF s
<1>5. u.cols = t.cols /\ u.data = s /\ u \in Tables
    BY <1>1, <1>3, <1>4 DEF Tables, Cell
<1>6. Full(u, n)
    BY <1>1, <1>4, <1>5 DEF Full
<1>. HIDE DEF u
<1>7. ASSUME NEW r \in 0..(n - 1), NEW c \in 0..(t.cols - 1)
      PROVE  At(u, c, r) = IF r < R THEN At(t, c, r) ELSE <<>>
  <2>1. PICK i : i = r * t.cols + c + 1
      OBVIOUS
  <2>2. i \in 1..(t.cols * n)
      BY <1>1, <2>1, Place
  <2>3. At(u, c, r) = (IF i <= Len(t.data) THEN t.data[i] ELSE <<>>) /\ At(t, c, r) = t.data[i]
      BY <1>4, <1>5, <2>1, <2>2 DEF At
  <2>4. CASE r < R
    <3>1. r \in 0..(R - 1)
        BY <2>4
    <3>2. i \in 1..(t.cols * R)
        BY <1>1, <2>1, <3>1, Place
    <3>. QED  BY <1>1, <2>3, <2>4, <3>2
  <2>5. CASE ~(r < R)
    <3>1. t.cols * R <= t.cols * r /\ t.cols * R \in Nat
        BY <2>5, <1>1, Grows
    <3>2. t.cols * r = r * t.cols /\ r * t.cols \in Nat
        BY <1>1
    <3>3. PICK z \in Nat : z = r * t.cols
        BY <3>2
    <3>4. Len(t.data) <= z /\ Len(t.data) \in Nat /\ i = z + c + 1 /\ c \in Nat
        BY <1>1, <2>1, <3>1, <3>2, <3>3
    <3>5. ~(i <= Len(t.data))
        BY <3>4
    <3>. QED  BY <2>3, <2>5, <3>5
  <2>. QED  BY <2>4, <2>5
<1>. QED  BY <1>5, <1>6, <1>7 DEF u

\* The rows up to one that is asked for, as long as the cells can be counted
LEMMA RowsReached ==
    ASSUME NEW t, NEW R \in Nat, Full(t, R), t.cols # 0, NEW row \in Nat,
           t.cols * (row + 1) < Wide,
           NEW Q, Q = IF row < R THEN R ELSE row + 1
    PROVE  /\ Full(Reached(t, row), Q) /\ Reached(t, row).cols = t.cols
           /\ \A r \in 0..(Q - 1), c \in 0..(t.cols - 1) :
                 At(Reached(t, row), c, r) = IF r < R THEN At(t, c, r) ELSE <<>>
<1>1. t.cols \in Nat \ {0} /\ NumRows(t) = R /\ Q \in Nat /\ row \in 0..(Q - 1)
    BY FullRows
<1>2. /\ t.cols * (row + 1) \in Nat /\ row + 1 <= t.cols * (row + 1)
  <2>1. row + 1 \in Nat /\ row + 1 <= row + 1
      OBVIOUS
  <2>. QED  BY <1>1, <2>1, Grows
<1>m. \A x \in Nat : x < Wide => x % Wide = x
    BY TableAssumption
<1>3. (row + 1) % Wide = row + 1
  <2>1. row + 1 \in Nat /\ row + 1 < Wide
      BY <1>2, TableAssumption
  <2>. QED  BY <2>1, <1>m
<1>. DEFINE g == Reached(t, row)
<1>4. /\ Full(g, Q) /\ g.cols = t.cols
      /\ \A r \in 0..(Q - 1), c \in 0..(t.cols - 1) : At(g, c, r) = IF r < R THEN At(t, c, r) ELSE <<>>
  <2>1. CASE row < R
    <3>1. g = t /\ Q = R
        BY <1>1, <2>1 DEF Reached
    <3>. HIDE DEF g
    <3>. QED  BY <3>1
  <2>2. CASE ~(row < R)
    <3>1. g = SetRows(t, row + 1) /\ Q = row + 1
        BY <1>1, <1>3, <2>2 DEF Reached
    <3>2. row + 1 \in Nat
        OBVIOUS
    <3>. HIDE DEF g
    <3>. QED  BY <3>1, <3>2, RowsSet
  <2>. QED  BY <2>1, <2>2
<1>. QED  BY <1>4

\* cell(col, row) = f, as long as the cells can be counted: it adds the rows that
\* are missing, assigns to this cell, and leaves all others as they are.
LEMMA Assigned ==
    ASSUME NEW t, NEW R \in Nat, Full(t, R), NEW col \in 0..(t.cols - 1), NEW row \in Nat,
           t.cols * (row + 1) < Wide, NEW f \in Cell,
           NEW Q, Q = IF row < R THEN R ELSE row + 1
    PROVE  /\ Full(Assign(t, col, row, f), Q) /\ Assign(t, col, row, f).cols = t.cols
           /\ \A r \in 0..(Q - 1), c \in 0..(t.cols - 1) :
                 At(Assign(t, col, row, f), c, r) =
                    IF c = col /\ r = row THEN f ELSE IF r < R THEN At(t, c, r) ELSE <<>>
<1>1. t.cols \in Nat \ {0} /\ NumRows(t) = R /\ Q \in Nat /\ row \in 0..(Q - 1)
    BY FullRows
<1>2. /\ t.cols * (row + 1) \in Nat /\ row + 1 <= t.cols * (row + 1)
  <2>1. row + 1 \in Nat /\ row + 1 <= row + 1
      OBVIOUS
  <2>. QED  BY <1>1, <2>1, Grows
<1>m. \A x \in Nat : x < Wide => x % Wide = x
    BY TableAssumption
<1>4. Index(t, col, row) = row * t.cols + col + 1
  <2>1. row + 1 \in Nat /\ row \in 0..(row + 1 - 1)
      OBVIOUS
  <2>2. row * t.cols + col + 1 \in 1..(t.cols * (row + 1)) /\ row * t.cols + col \in Nat
      BY <1>1, <2>1, Place
  <2>3. PICK z \in Nat : z = row * t.cols + col
      BY <2>2
  <2>4. z < Wide
      BY <2>2, <2>3, <1>2, TableAssumption
  <2>. QED  BY <2>3, <2>4, <1>m DEF Index
<1>. DEFINE g == Reached(t, row)
<1>5. /\ Full(g, Q) /\ g.cols = t.cols
      /\ \A r \in 0..(Q - 1), c \in 0..(t.cols - 1) : At(g, c, r) = IF r < R THEN At(t, c, r) ELSE <<>>
    BY <1>1, RowsReached
<1>. DEFINE u == Assign(t, col, row, f)
            d == [i \in DOMAIN g.data |-> IF i = row * t.cols + col + 1 THEN f ELSE g.data[i]]
<1>6. u = [g EXCEPT !.data = d]
  <2>1. ~(col >= t.cols)
      BY <1>1
  <2>. QED  BY <1>4, <2>1 DEF Assign
<1>7. g \in Tables /\ g.data \in Seq(Cell) /\ Len(g.data) = t.cols * Q /\ t.cols * Q \in Nat
  <2>. HIDE DEF g
  <2>1. g \in Tables /\ Len(g.data) = g.cols * Q
      BY <1>5 DEF Full
  <2>2. g.data \in Seq(Cell)
      BY <1>1, <1>5, FullRows
  <2>3. t.cols * Q \in Nat
      BY <1>1
  <2>. QED  BY <1>5, <2>1, <2>2, <2>3
<1>. HIDE DEF g
<1>8. PICK N \in Nat : N = t.cols * Q /\ Len(g.data) = N /\ DOMAIN g.data = 1..N /\ \A i \in 1..N : g.data[i] \in Cell
    BY <1>7, LenProperties, ElementOfSeq
<1>9. d \in [1..N -> Cell]
    BY <1>8
<1>10. d \in Seq(Cell) /\ Len(d) = N
    BY <1>8, <1>9
<1>11. \A i \in 1..N : d[i] = IF i = row * t.cols + col + 1 THEN f ELSE g.data[i]
    BY <1>8
<1>. HIDE DEF d
<1>12. u.cols = t.cols /\ u.data = d /\ u \in Tables
    BY <1>5, <1>6, <1>7, <1>10 DEF Tables, Cell
<1>13. Full(u, Q)
    BY <1>1, <1>8, <1>10, <1>12 DEF Full
<1>. HIDE DEF u
<1>14. ASSUME NEW r \in 0..(Q - 1), NEW c \in 0..(t.cols - 1)
       PROVE  At(u, c, r) = IF c = col /\ r = row THEN f ELSE IF r < R THEN At(t, c, r) ELSE <<>>
  <2>1. r * t.cols + c + 1 \in 1..N
      BY <1>1, <1>8, Place
  <2>2. At(u, c, r) = IF r * t.cols + c + 1 = row * t.cols + col + 1 THEN f ELSE At(g, c, r)
      BY <1>11, <1>12, <1>5, <2>1 DEF At
  <2>3. r * t.cols + c + 1 = row * t.cols + col + 1 => r = row /\ c = col
    <3>1. r \in Nat /\ r * t.cols \in Int /\ row * t.cols \in Int /\ t.cols \in Nat
        BY <1>1
    <3>2. r * t.cols + c + 1 = row * t.cols + col + 1 => r * t.cols + c = row * t.cols + col
        BY <3>1, <1>1
    <3>. QED  BY <3>1, <3>2, PlaceOfItsOwn
  <2>4. At(g, c, r) = IF r < R THEN At(t, c, r) ELSE <<>>
      BY <1>5
  <2>. QED  BY <2>2, <2>3, <2>4
<1>. QED  BY <1>12, <1>13, <1>14 DEF u

\* cell(col, row) = f, also where the sizes wrap, leaves a table.
LEMMA AssignedTable ==
    ASSUME NEW t \in Tables, NEW col \in Nat, NEW row \in Nat, NEW f \in Cell
    PROVE  Assign(t, col, row, f) \in Tables /\ Assign(t, col, row, f).cols = t.cols
<1>1. t.cols \in Nat /\ t.data \in Seq(Cell) /\ (\A x \in Int : x % Wide \in Nat)
    BY TableAssumption DEF Tables, Cell
<1>. DEFINE g == Reached(t, row)
<1>2. g \in Tables /\ g.cols = t.cols
  <2>1. PICK n : n = (t.cols * ((row + 1) % Wide)) % Wide
      OBVIOUS
  <2>i. PICK k : k = (row + 1) % Wide
      OBVIOUS
  <2>j. row + 1 \in Int
      OBVIOUS
  <2>k. k \in Nat
      BY <1>1, <2>i, <2>j
  <2>l. t.cols * k \in Int
      BY <1>1, <2>k
  <2>2. t.cols * ((row + 1) % Wide) \in Int
      BY <2>i, <2>l
  <2>3. n \in Nat
      BY <1>1, <2>1, <2>2
  <2>4. Resized(t.data, n) \in Seq(Cell)
      BY <1>1, <2>3, ResizedCells
  <2>5. SetRows(t, (row + 1) % Wide) = [t EXCEPT !.data = Resized(t.data, n)]
      BY <2>1 DEF SetRows
  <2>6. SetRows(t, (row + 1) % Wide) \in Tables /\ SetRows(t, (row + 1) % Wide).cols = t.cols
      BY <1>1, <2>4, <2>5 DEF Tables, Cell
  <2>. QED  BY <2>6 DEF Reached
<1>. HIDE DEF g
<1>3. g.data \in Seq(Cell)
    BY <1>2 DEF Tables, Cell
<1>4. Len(g.data) \in Nat /\ DOMAIN g.data = 1..Len(g.data) /\ \A i \in 1..Len(g.data) : g.data[i] \in Cell
    BY <1>3, LenProperties, ElementOfSeq
<1>. DEFINE d == [i \in DOMAIN g.data |-> IF i = Index(t, col, row) THEN f ELSE g.data[i]]
<1>5. d \in [1..Len(g.data) -> Cell]
    BY <1>4
<1>6. d \in Seq(Cell)
    BY <1>4, <1>5
<1>7. CASE col >= t.cols
    BY <1>7 DEF Assign
<1>8. CASE ~(col >= t.cols)
  <2>1. Assign(t, col, row, f) = [g EXCEPT !.data = d]
      BY <1>8 DEF Assign, g
  <2>. HIDE DEF d
  <2>. QED  BY <2>1, <1>2, <1>6 DEF Tables, Cell
<1>. QED  BY <1>7, <1>8

-----------------------------------------------------------------------------
(* What readCSV() makes of any text at all.                                  *)

\* The columns are counted before the rows are read, and the rows are filled, as
\* long as their cells can be counted.
Countable(r) == r.t.cols * (r.row + 1) < Wide
Reading(r) ==
    /\ r \in Reader /\ r.at >= 1
    /\ r.header => r.t = Columnless /\ r.row = 0
    /\ ~r.header => /\ r.row >= 1 /\ r.t.cols # 0 /\ r.col < r.t.cols
                    /\ Countable(r) => Full(r.t, r.row) \/ Full(r.t, r.row + 1)

\* Steps that only collect a field.
LEMMA ReadingOn ==
    ASSUME NEW r, Reading(r), NEW q, q \in Reader, q.at >= r.at,
           q.header = r.header, q.t = r.t, q.row = r.row, q.col = r.col
    PROVE  Reading(q)
BY DEF Reading, Countable, Reader

\* It is so before the first character.
LEMMA StartReads == Reading(StartReading)
<1>1. Columnless \in Tables
    BY EmptySeq DEF Columnless, Tables
<1>e. <<>> \in Cell /\ <<>> \in Seq(Cell)
    BY EmptySeq DEF Cell
<1>2. StartReading \in Reader
    BY <1>1, <1>e DEF StartReading, Reader
<1>. QED  BY <1>2 DEF Reading, StartReading

\* The table once a field is in it.
LEMMA FieldIsReady ==
    ASSUME NEW r, Reading(r)
    PROVE  /\ Reading(FieldReady(r))
           /\ r.header => FieldReady(r).h = Append(r.h, r.f) /\ FieldReady(r).t = r.t
           /\ ~r.header => /\ FieldReady(r).h = r.h /\ FieldReady(r).t.cols = r.t.cols
                           /\ FieldReady(r).t = Assign(r.t, r.col, r.row, r.f)
                           /\ Countable(r) => Full(FieldReady(r).t, r.row + 1)
           /\ \A x \in {"at", "good", "st", "header", "quoted", "last", "col", "row"} : FieldReady(r)[x] = r[x]
           /\ FieldReady(r).f = <<>>
<1>1. r \in Reader /\ r.f \in Cell /\ r.h \in Seq(Cell) /\ r.t \in Tables /\ r.col \in Nat /\ r.row \in Nat /\ <<>> \in Cell
    BY EmptySeq DEF Reading, Reader, Cell
<1>. DEFINE q == FieldReady(r)
<1>2. CASE r.header
  <2>1. q = [r EXCEPT !.f = <<>>, !.h = Append(r.h, r.f)]
      BY <1>1, <1>2 DEF FieldReady, Reader
  <2>2. Append(r.h, r.f) \in Seq(Cell)
      BY <1>1, AppendProperties
  <2>. HIDE DEF q
  <2>3. q \in Reader
      BY <1>1, <2>1, <2>2 DEF Reader, Cell
  <2>4. /\ \A x \in {"at", "good", "st", "header", "quoted", "last", "col", "row", "t"} : q[x] = r[x]
        /\ q.h = Append(r.h, r.f) /\ q.f = <<>>
      BY <1>1, <2>1 DEF Reader
  <2>5. q.header = r.header /\ q.t = r.t /\ q.row = r.row /\ q.col = r.col /\ q.at >= r.at
      BY <2>3, <2>4 DEF Reader
  <2>6. Reading(q)
      BY <2>3, <2>5, ReadingOn
  <2>. QED  BY <1>2, <2>4, <2>5, <2>6 DEF q
<1>3. CASE ~r.header
  <2>. DEFINE u == Assign(r.t, r.col, r.row, r.f)
  <2>1. q = [r EXCEPT !.f = <<>>, !.t = u]
      BY <1>1, <1>3 DEF FieldReady, Reader
  <2>2. u \in Tables /\ u.cols = r.t.cols
      BY <1>1, AssignedTable
  <2>3. ASSUME Countable(r) PROVE Full(u, r.row + 1)
    <3>1. r.col \in 0..(r.t.cols - 1) /\ r.t.cols * (r.row + 1) < Wide
        BY <1>1, <1>3, <2>3 DEF Reading, Countable, Tables
    <3>2. CASE Full(r.t, r.row)
      <4>1. r.row + 1 = IF r.row < r.row THEN r.row ELSE r.row + 1
          BY <1>1
      <4>. QED  BY <1>1, <3>1, <3>2, <4>1, Assigned
    <3>3. CASE Full(r.t, r.row + 1)
      <4>1. r.row + 1 = (IF r.row < r.row + 1 THEN r.row + 1 ELSE r.row + 1) /\ r.row + 1 \in Nat
          BY <1>1
      <4>. QED  BY <1>1, <3>1, <3>3, <4>1, Assigned
    <3>. QED  BY <1>3, <2>3, <3>2, <3>3 DEF Reading
  <2>. HIDE DEF u, q
  <2>4. q \in Reader
      BY <1>1, <2>1, <2>2 DEF Reader, Cell
  <2>5. /\ \A x \in {"at", "good", "st", "header", "quoted", "last", "col", "row", "h"} : q[x] = r[x]
        /\ q.t = u /\ q.f = <<>>
      BY <1>1, <2>1 DEF Reader
  <2>6. Reading(q)
    <3>1. q.row = r.row /\ q.col = r.col /\ q.at = r.at /\ q.header = r.header /\ q.t.cols = r.t.cols
        BY <2>5, <2>2
    <3>2. Countable(q) => Full(q.t, q.row + 1)
        BY <2>3, <2>5, <3>1 DEF Countable
    <3>. QED  BY <1>3, <2>4, <3>1, <3>2 DEF Reading
  <2>7. q.h = r.h /\ q.t.cols = r.t.cols /\ q.t = u /\ (Countable(r) => Full(q.t, r.row + 1))
      BY <2>2, <2>3, <2>5
  <2>. QED  BY <1>3, <2>5, <2>6, <2>7 DEF q, u
<1>. QED  BY <1>2, <1>3

-----------------------------------------------------------------------------
(* How the reader goes through a text.                                       *)

\* What the characters are, as far as the provers need to know it
LEMMA Characters ==
    /\ Char = {sep, quote, cr, lf, high, plain, "invalid", "_", "0", "1", "2", "3", "4", "5", "6", "7", "8", "9"}
    /\ sep \in Char /\ quote \in Char /\ cr \in Char /\ lf \in Char
<1>1. ToSet(Digits) = {"0", "1", "2", "3", "4", "5", "6", "7", "8", "9"}
  <2>1. Len(Digits) = 10 /\ DOMAIN Digits = 1..10
      BY DEF Digits
  <2>. QED  BY <2>1 DEF ToSet, Digits
<1>. QED  BY <1>1 DEF Char

\* The end of the stream is none of the characters.
LEMMA EofIsNone == eof \notin Char
BY Characters DEF eof, sep, quote, cr, lf, high, plain

\* A look at any position finds a character, or the end behind the last one.
LEMMA CharOfText ==
    ASSUME NEW s \in Cell, NEW i \in Nat, i >= 1
    PROVE  CharAt(s, i) \in Char \cup {eof} /\ (i <= Len(s) <=> CharAt(s, i) # eof)
<1>1. CASE i <= Len(s)
  <2>1. i \in 1..Len(s)
      BY <1>1, LenProperties DEF Cell
  <2>2. s[i] \in Char
      BY <2>1, ElementOfSeq DEF Cell
  <2>. QED  BY <1>1, <2>2, EofIsNone DEF CharAt
<1>2. CASE ~(i <= Len(s))
    BY <1>2 DEF CharAt
<1>. QED  BY <1>1, <1>2

\* A look at the next character, and a character taken into the field
LEMMA LooksOn ==
    ASSUME NEW r, Reading(r), NEW s \in Cell, NEW i \in Nat
    PROVE  Reading(Looked(r, s, i)) /\ Looked(r, s, i).at = r.at
<1>1. r \in Reader /\ Len(s) \in Nat
    BY LenProperties DEF Reading, Cell
<1>2. Looked(r, s, i) \in Reader
    BY <1>1 DEF Looked, Reader
<1>3. LET q == Looked(r, s, i) IN q.at = r.at /\ q.header = r.header /\ q.t = r.t /\ q.row = r.row /\ q.col = r.col
    BY <1>1 DEF Looked, Reader
<1>4. Looked(r, s, i).at >= r.at
    BY <1>1, <1>3 DEF Reader
<1>. QED  BY <1>2, <1>3, <1>4, ReadingOn

\* Characters are added to the field that is collected.
LEMMA PushesOn ==
    ASSUME NEW r, Reading(r), NEW c \in Char, NEW n \in Nat
    PROVE  Reading(Push(r, c, n)) /\ Push(r, c, n).at = r.at + n
<1>1. r \in Reader /\ r.f \in Cell /\ r.at \in Nat
    BY DEF Reading, Reader, Cell
<1>2. Append(r.f, c) \in Cell /\ r.at + n \in Nat
    BY <1>1, AppendProperties DEF Cell
<1>3. Push(r, c, n) = [r EXCEPT !.f = Append(r.f, c), !.last = "fieldData", !.at = r.at + n]
    BY <1>1 DEF Push, Reader
<1>4. Push(r, c, n) \in Reader
    BY <1>1, <1>2, <1>3 DEF Reader, Cell
<1>5. LET q == Push(r, c, n) IN q.at = r.at + n /\ q.header = r.header /\ q.t = r.t /\ q.row = r.row /\ q.col = r.col
    BY <1>1, <1>3 DEF Reader
<1>6. Push(r, c, n).at >= r.at
    BY <1>1, <1>5
<1>. QED  BY <1>4, <1>5, <1>6, ReadingOn

\* In a quoted field
LEMMA QuotedOn ==
    ASSUME NEW r, Reading(r), NEW s \in Cell, NEW c \in Char \cup {eof}
    PROVE  Reading(Quoted(r, s, c))
<1>1. r \in Reader /\ r.at \in Nat /\ r.at + 1 \in Nat
    BY DEF Reading, Reader
<1>2. cr \in Char /\ lf \in Char /\ quote \in Char
    BY Characters
<1>3. CASE c = eof
  <2>1. Quoted(r, s, c) = [r EXCEPT !.st = "thrown"]
      BY <1>3 DEF Quoted, eof, cr, quote
  <2>2. [r EXCEPT !.st = "thrown"] \in Reader
      BY <1>1 DEF Reader
  <2>3. LET q == [r EXCEPT !.st = "thrown"] IN q.at >= r.at /\ q.header = r.header /\ q.t = r.t /\ q.row = r.row /\ q.col = r.col
      BY <1>1 DEF Reader
  <2>. QED  BY <2>1, <2>2, <2>3, ReadingOn
<1>4. CASE c = cr
  <2>1. Reading(Push(Push(r, cr, 1), lf, 1)) /\ Reading(Looked(Push(r, cr, 1), s, r.at + 1))
      BY <1>1, <1>2, PushesOn, LooksOn
  <2>. QED  BY <1>4, <2>1 DEF Quoted, eof, cr, quote
<1>5. CASE c = quote
  <2>. DEFINE q == [r EXCEPT !.quoted = FALSE, !.last = "endQuote", !.at = @ + 1]
  <2>1. q \in Reader
      BY <1>1 DEF Reader
  <2>2. q.at >= r.at /\ q.header = r.header /\ q.t = r.t /\ q.row = r.row /\ q.col = r.col
      BY <1>1 DEF Reader
  <2>. HIDE DEF q
  <2>3. Reading(q)
      BY <2>1, <2>2, ReadingOn
  <2>4. Reading(Looked(q, s, r.at + 1)) /\ Reading(Push(r, quote, 2))
      BY <1>1, <1>2, <2>3, PushesOn, LooksOn
  <2>. QED  BY <1>5, <2>4 DEF Quoted, eof, cr, quote, q
<1>6. CASE c \notin {eof, cr, quote}
  <2>c. c \in Char
      BY <1>6
  <2>1. Quoted(r, s, c) = Push(r, c, 1)
      BY <1>6 DEF Quoted
  <2>. QED  BY <2>c, <2>1, PushesOn
<1>. QED  BY <1>3, <1>4, <1>5, <1>6

\* A quote elsewhere
LEMMA QuoteOn ==
    ASSUME NEW r, Reading(r)
    PROVE  Reading(Quote(r))
<1>e. <<>> \in Cell
    BY EmptySeq DEF Cell
<1>a. r \in Reader /\ r.at \in Nat /\ r.at + 1 \in Nat
    BY DEF Reading, Reader
<1>1. r \in Reader /\ r.at \in Nat /\ r.at + 1 \in Nat /\ quote \in Char /\ <<>> \in Cell
    BY <1>e, <1>a, Characters
<1>2. CASE r.last = "endQuote"
  <2>1. [r EXCEPT !.st = "thrown"] \in Reader
      BY <1>1 DEF Reader
  <2>2. LET q == [r EXCEPT !.st = "thrown"] IN q.at >= r.at /\ q.header = r.header /\ q.t = r.t /\ q.row = r.row /\ q.col = r.col
      BY <1>1 DEF Reader
  <2>3. Reading([r EXCEPT !.st = "thrown"])
      BY <2>1, <2>2, ReadingOn
  <2>. QED  BY <1>2, <2>3 DEF Quote
<1>3. CASE r.last = "fieldData"
  <2>1. Quote(r) = Push(r, quote, 1)
      BY <1>3 DEF Quote
  <2>. QED  BY <1>1, <2>1, PushesOn
<1>4. CASE r.last \notin {"endQuote", "fieldData"}
  <2>. DEFINE q == [r EXCEPT !.quoted = TRUE, !.f = <<>>, !.at = @ + 1]
  <2>1. Quote(r) = q
      BY <1>4 DEF Quote
  <2>2. q \in Reader
      BY <1>1 DEF Reader, Cell
  <2>3. q.at >= r.at /\ q.header = r.header /\ q.t = r.t /\ q.row = r.row /\ q.col = r.col
      BY <1>1 DEF Reader
  <2>. HIDE DEF q
  <2>. QED  BY <2>1, <2>2, <2>3, ReadingOn
<1>. QED  BY <1>2, <1>3, <1>4

\* A record that ends has all its cells, and the first one says how many they are.
LEMMA EndsRecord ==
    ASSUME NEW r, Reading(r), NEW s \in Cell, NEW c \in Char \cup {eof}
    PROVE  Reading(EndOfRecord(r, s, c))
<1>1. r \in Reader /\ r.at \in Nat /\ r.at + 1 \in Nat
    BY DEF Reading, Reader
<1>. DEFINE n == IF c = cr /\ CharAt(s, r.at + 1) = lf THEN 2 ELSE 1
            seen == IF c = cr THEN Looked(r, s, r.at + 1) ELSE r
            read == [seen EXCEPT !.at = @ + n]
            done == FieldReady(read)
            over == [read EXCEPT !.st = IF CharAt(s, read.at) = eof THEN "returned" ELSE "thrown"]
            full == [done EXCEPT !.st = "thrown"]
            next == [done EXCEPT !.t = IF r.header THEN [cols |-> Len(done.h), data |-> done.h] ELSE @, !.h = <<>>, !.header = FALSE,
                          !.row = @ + 1, !.col = 0, !.last = "startOfRecord"]
<1>2. n \in {1, 2}
    OBVIOUS
<1>3. Reading(seen) /\ seen.at = r.at
  <2>1. Reading(Looked(r, s, r.at + 1)) /\ Looked(r, s, r.at + 1).at = r.at
      BY <1>1, LooksOn
  <2>. QED  BY <2>1
<1>4. seen.header = r.header
    BY <1>1 DEF Looked, Reader
<1>. HIDE DEF n, seen
<1>5. seen \in Reader
    BY <1>3 DEF Reading
<1>a. seen.at + n \in Nat /\ seen.at + n >= seen.at
    BY <1>1, <1>2, <1>3
<1>6. read \in Reader /\ read.header = r.header /\ read.at >= seen.at
      /\ read.t = seen.t /\ read.row = seen.row /\ read.col = seen.col /\ read.header = seen.header
    BY <1>a, <1>4, <1>5 DEF Reader
<1>. HIDE DEF read
<1>7. Reading(read)
    BY <1>3, <1>6, ReadingOn
<1>8. Reading(over)
  <2>1. over \in Reader
      BY <1>6 DEF Reader
  <2>2. over.at >= read.at /\ over.header = read.header /\ over.t = read.t /\ over.row = read.row /\ over.col = read.col
      BY <1>6 DEF Reader
  <2>. HIDE DEF over
  <2>. QED  BY <1>7, <2>1, <2>2, ReadingOn
<1>9. /\ Reading(done) /\ done.header = read.header /\ done.row = read.row
      /\ read.header => done.h = Append(read.h, read.f)
      /\ ~read.header => done.t.cols = read.t.cols /\ (Countable(read) => Full(done.t, read.row + 1))
    BY <1>7, FieldIsReady
<1>. HIDE DEF done
<1>10. done \in Reader /\ <<>> \in Seq(Cell)
    BY <1>9, EmptySeq DEF Reading
<1>11. ASSUME r.header PROVE Reading(next)
  <2>1. done.row = 0 /\ done.row \in Nat /\ done.at >= 1 /\ done.at \in Nat
      BY <1>6, <1>9, <1>11, <1>10 DEF Reading, Reader
  <2>2. done.h \in Seq(Cell) /\ Len(done.h) \in Nat /\ Len(done.h) # 0
    <3>1. read.h \in Seq(Cell) /\ read.f \in Cell
        BY <1>6 DEF Reader
    <3>2. Append(read.h, read.f) \in Seq(Cell) /\ Len(Append(read.h, read.f)) = Len(read.h) + 1 /\ Len(read.h) \in Nat
        BY <3>1, AppendProperties, LenProperties
    <3>3. done.h = Append(read.h, read.f)
        BY <1>6, <1>9, <1>11
    <3>4. Len(Append(read.h, read.f)) \in Nat /\ Len(Append(read.h, read.f)) # 0
        BY <3>2
    <3>. QED  BY <3>2, <3>3, <3>4
  <2>. DEFINE t == [cols |-> Len(done.h), data |-> done.h]
  <2>3. t \in Tables /\ t.cols # 0 /\ t.cols \in Nat /\ Full(t, 1)
      BY <2>2 DEF Tables, Full
  <2>. HIDE DEF t
  <2>4. next = [done EXCEPT !.t = t, !.h = <<>>, !.header = FALSE, !.row = 1, !.col = 0, !.last = "startOfRecord"]
      BY <1>11, <1>10, <2>1 DEF t, Reader
  <2>. HIDE DEF next
  <2>5. next \in Reader /\ ~next.header /\ next.row = 1 /\ next.col = 0 /\ next.t = t /\ next.at = done.at
      BY <1>10, <2>3, <2>4 DEF Reader
  <2>6. next.row >= 1 /\ next.col < next.t.cols /\ next.at >= 1
      BY <2>1, <2>3, <2>5
  <2>7. Reading(next)
      BY <2>3, <2>5, <2>6 DEF Reading
  <2>. QED  BY <1>11, <2>7
<1>12. ASSUME ~r.header PROVE Reading(next)
  <2>1. done.row \in Nat /\ done.at >= 1 /\ done.t \in Tables /\ done.t.cols \in Nat \ {0} /\ read.row \in Nat
      BY <1>6, <1>9, <1>12, <1>10 DEF Reading, Reader, Tables
  <2>2. next = [done EXCEPT !.h = <<>>, !.header = FALSE, !.row = done.row + 1, !.col = 0, !.last = "startOfRecord"]
      BY <1>12, <1>10 DEF Reader
  <2>r. done.row + 1 \in Nat /\ done.row + 1 >= 1
      BY <2>1
  <2>. HIDE DEF next
  <2>3. next \in Reader /\ ~next.header /\ next.row = done.row + 1 /\ next.col = 0 /\ next.t = done.t /\ next.at = done.at
      BY <1>10, <2>r, <2>2 DEF Reader
  <2>4. next.row >= 1 /\ next.col < next.t.cols /\ next.t.cols # 0
      BY <2>1, <2>r, <2>3
  <2>5. ASSUME Countable(next) PROVE Full(next.t, next.row)
    <3>1. done.t.cols * (read.row + 2) < Wide
        BY <2>5, <2>3, <2>1, <1>9 DEF Countable
    <3>2. done.t.cols * (read.row + 1) <= done.t.cols * (read.row + 2)
      <4>1. read.row + 1 \in Nat /\ read.row + 2 \in Nat /\ read.row + 1 <= read.row + 2
          BY <2>1
      <4>. QED  BY <2>1, <4>1, Grows
    <3>3. done.t.cols * (read.row + 1) \in Int /\ done.t.cols * (read.row + 2) \in Int
        BY <2>1
    <3>4. Countable(read)
        BY <3>1, <3>2, <3>3, <1>6, <1>9, <1>12, TableAssumption DEF Countable
    <3>. QED  BY <3>4, <1>6, <1>9, <1>12, <2>3
  <2>6. Reading(next)
      BY <2>1, <2>3, <2>4, <2>5 DEF Reading
  <2>. QED  BY <1>12, <2>6
<1>f. Reading(full)
  <2>1. full \in Reader
      BY <1>10 DEF Reader
  <2>2. full.at >= done.at /\ full.header = done.header /\ full.t = done.t /\ full.row = done.row /\ full.col = done.col
      BY <1>10 DEF Reader
  <2>. HIDE DEF full
  <2>. QED  BY <1>9, <2>1, <2>2, ReadingOn
<1>13. EndOfRecord(r, s, c) = IF r.last = "startOfRecord" THEN over ELSE IF TooMany(r, done) THEN full ELSE next
    BY DEF EndOfRecord, over, full, next, done, read, seen, n
<1>14. Reading(next)
    BY <1>11, <1>12
<1>. HIDE DEF over, full, next
<1>. QED  BY <1>8, <1>13, <1>14, <1>f

\* A separator ends a field that is not the last one of its row.
LEMMA Separates ==
    ASSUME NEW r, Reading(r)
    PROVE  Reading(Separator(r))
<1>. DEFINE g == FieldReady(r)
            done == [g EXCEPT !.last = "separator", !.at = @ + 1]
            over == [done EXCEPT !.st = "thrown"]
            next == [done EXCEPT !.col = @ + 1]
<1>1. /\ Reading(g) /\ g.header = r.header /\ g.col = r.col
      /\ ~r.header => g.t.cols = r.t.cols
    BY FieldIsReady
<1>. HIDE DEF g
<1>2. g \in Reader
    BY <1>1 DEF Reading
<1>a. g.at + 1 \in Nat /\ g.at + 1 >= g.at
    BY <1>2 DEF Reader
<1>3. done \in Reader /\ done.at >= g.at /\ done.header = g.header /\ done.t = g.t /\ done.row = g.row /\ done.col = g.col
    BY <1>2, <1>a DEF Reader
<1>. HIDE DEF done
<1>4. Reading(done)
    BY <1>1, <1>3, ReadingOn
<1>5. Reading(over)
  <2>1. over \in Reader /\ over.at >= done.at /\ over.header = done.header /\ over.t = done.t /\ over.row = done.row /\ over.col = done.col
      BY <1>3 DEF Reader
  <2>. HIDE DEF over
  <2>. QED  BY <1>4, <2>1, ReadingOn
<1>6. ASSUME ~r.header, ~(r.col >= r.t.cols - 1) PROVE Reading(next)
  <2>1. next \in Reader /\ next.at = done.at /\ next.header = done.header /\ next.t = done.t /\ next.row = done.row /\ next.col = done.col + 1
      BY <1>3 DEF Reader
  <2>2. done.col \in Nat /\ done.t.cols \in Nat
      BY <1>3 DEF Reader, Tables
  <2>. HIDE DEF next
  <2>3. next.col < next.t.cols
      BY <1>1, <1>3, <1>6, <2>1, <2>2
  <2>. QED  BY <1>1, <1>3, <1>4, <1>6, <2>1, <2>3 DEF Reading, Countable
<1>7. Separator(r) = IF r.header THEN done ELSE IF r.col >= r.t.cols - 1 THEN over ELSE next
    BY DEF Separator, over, next, done, g
<1>. HIDE DEF over, next
<1>. QED  BY <1>4, <1>5, <1>6, <1>7

\* One turn of the loop, and no turn
LEMMA TurnOn ==
    ASSUME NEW r, Reading(r), NEW s \in Cell
    PROVE  Reading(Turn(r, s))
<1>1. r \in Reader /\ r.at \in Nat /\ r.at >= 1
    BY DEF Reading, Reader
<1>. DEFINE c == CharAt(s, r.at)
            q == Looked(r, s, r.at)
<1>2. c \in Char \cup {eof}
    BY <1>1, CharOfText
<1>3. Reading(q)
    BY <1>1, LooksOn
<1>. HIDE DEF c, q
<1>4. [q EXCEPT !.at = @ + 1] \in Reader /\ Reading([q EXCEPT !.at = @ + 1])
  <2>1. q \in Reader
      BY <1>3 DEF Reading
  <2>2. LET d == [q EXCEPT !.at = @ + 1] IN d \in Reader /\ d.at >= q.at /\ d.header = q.header /\ d.t = q.t /\ d.row = q.row /\ d.col = q.col
      BY <2>1 DEF Reader
  <2>. QED  BY <1>3, <2>2, ReadingOn
<1>5. Reading(Quoted(q, s, c))
    BY <1>2, <1>3, QuotedOn
<1>6. Reading(EndOfRecord(q, s, c))
    BY <1>2, <1>3, EndsRecord
<1>7. Reading(Quote(q))
    BY <1>3, QuoteOn
<1>8. Reading(Separator(q))
    BY <1>3, Separates
<1>. DEFINE skip == r.header /\ r.last = "startOfRecord" /\ c = high
<1>b. r.quoted \in BOOLEAN /\ skip \in BOOLEAN
    BY <1>1 DEF Reader
<1>9. /\ skip => ReadOne(r, s) = [q EXCEPT !.at = @ + 1]
      /\ ~skip /\ r.quoted => ReadOne(r, s) = Quoted(q, s, c)
      /\ ~skip /\ ~r.quoted /\ c \in {cr, lf, eof} => ReadOne(r, s) = EndOfRecord(q, s, c)
      /\ ~skip /\ ~r.quoted /\ c = quote => ReadOne(r, s) = Quote(q)
      /\ ~skip /\ ~r.quoted /\ c = sep => ReadOne(r, s) = Separator(q)
      /\ ~skip /\ ~r.quoted /\ c \notin {cr, lf, eof, quote, sep} => ReadOne(r, s) = Push(q, c, 1)
  <2>1. c = high => c \notin {cr, lf, eof, quote, sep}
      BY DEF high, cr, lf, eof, quote, sep
  <2>2. c \in {cr, lf, eof} => c # quote /\ c # sep
      BY DEF cr, lf, eof, quote, sep
  <2>3. c = quote => c # sep
      BY DEF quote, sep
  <2>4. ReadOne(r, s) = CASE skip                       -> [q EXCEPT !.at = @ + 1]
            [] ~skip /\ r.quoted                 -> Quoted(q, s, c)
            [] ~r.quoted /\ c \in {cr, lf, eof}  -> EndOfRecord(q, s, c)
            [] ~r.quoted /\ c = quote            -> Quote(q)
            [] ~r.quoted /\ c = sep              -> Separator(q)
            [] OTHER                             -> Push(q, c, 1)
      BY DEF ReadOne, c, q
  <2>5. skip => c = high
      OBVIOUS
  <2>. HIDE DEF skip
  <2>6. CASE skip
      BY <2>1, <2>4, <2>5, <2>6
  <2>7. CASE ~skip
      BY <2>2, <2>3, <2>4, <2>7
  <2>. QED  BY <2>6, <2>7
<1>. HIDE DEF skip
<1>10. c \notin {cr, lf, eof, quote, sep} => Reading(Push(q, c, 1))
  <2>1. c \notin {cr, lf, eof, quote, sep} => c \in Char
      BY <1>2
  <2>2. 1 \in Nat
      OBVIOUS
  <2>. QED  BY <1>3, <2>1, <2>2, PushesOn
<1>19. Reading(ReadOne(r, s))
    BY <1>b, <1>4, <1>5, <1>6, <1>7, <1>8, <1>9, <1>10
<1>. QED  BY <1>19 DEF Turn

\* What n turns lead to follows from what n - 1 lead to, and is always good.
LEMMA AfterTurns ==
    ASSUME NEW s \in Cell
    PROVE  /\ Len(s) + 1 \in Nat
           /\ After(s)[0] = StartReading
           /\ \A n \in 1..(Len(s) + 1) : After(s)[n] = Turn(After(s)[n - 1], s)
           /\ \A n \in 0..(Len(s) + 1) : Reading(After(s)[n])
<1>. DEFINE N == Len(s) + 1
            S == {r \in Reader : Reading(r)}
            g == [n \in 1..N |-> [r \in S |-> Turn(r, s)]]
            Body(f) == [n \in 0..N |-> IF n = 0 THEN StartReading ELSE Turn(f[n - 1], s)]
<1>1. N \in Nat
    BY LenProperties DEF Cell
<1>2. StartReading \in S
    BY StartReads DEF Reading
<1>3. \A r \in S : Turn(r, s) \in S
    BY TurnOn DEF Reading
<1>4. g \in [1..N -> [S -> S]]
    BY <1>3
<1>5. PICK f \in [0..N -> S] : Iterates(f, N, StartReading, g)
  <2>. HIDE DEF N, S, g
  <2>. QED  BY <1>1, <1>2, <1>4, Recursion
<1>6. \A n \in 1..N : f[n] = Turn(f[n - 1], s)
  <2>1. \A n \in 1..N : n - 1 \in 0..N
      BY <1>1
  <2>2. \A n \in 1..N, r \in S : g[n][r] = Turn(r, s)
      OBVIOUS
  <2>. HIDE DEF N, S, g
  <2>3. \A n \in 1..N : f[n] = g[n][f[n - 1]]
      BY <1>5 DEF Iterates
  <2>. QED  BY <2>1, <2>2, <2>3
<1>7. f = Body(f)
  <2>. HIDE DEF g, N
  <2>1. \A n \in 0..N : n = 0 \/ n \in 1..N
      BY <1>1
  <2>2. \A n \in 0..N : f[n] = IF n = 0 THEN StartReading ELSE Turn(f[n - 1], s)
      BY <1>5, <1>6, <2>1 DEF Iterates
  <2>. QED  BY <1>5, <2>2
<1>8. After(s) = CHOOSE h : h = Body(h)
    BY DEF After
<1>9. After(s) = Body(After(s))
  <2>. HIDE DEF Body
  <2>. QED  BY <1>7, <1>8
<1>. DEFINE h == After(s)
<1>10. h[0] = StartReading /\ \A n \in 1..N : h[n] = Turn(h[n - 1], s)
  <2>1. 0 \in 0..N /\ \A n \in 1..N : n \in 0..N /\ n # 0
      BY <1>1
  <2>2. h = Body(h)
      BY <1>9
  <2>. HIDE DEF h, N
  <2>. QED  BY <2>1, <2>2
<1>. HIDE DEF h
<1>. DEFINE T == {n \in Nat : n <= N => h[n] \in S}
<1>11. 0 \in T
    BY <1>1, <1>2, <1>10
<1>12. ASSUME NEW n \in T PROVE n + 1 \in T
  <2>. SUFFICES ASSUME n + 1 <= N PROVE h[n + 1] \in S
      OBVIOUS
  <2>1. n + 1 \in 1..N /\ n + 1 - 1 = n /\ n <= N
      BY <1>1
  <2>. HIDE DEF S, N
  <2>2. h[n] \in S
      BY <2>1
  <2>. QED  BY <1>3, <1>10, <2>1, <2>2
<1>13. T = Nat
  <2>1. T \in SUBSET Nat
      OBVIOUS
  <2>. HIDE DEF T
  <2>. QED  BY <1>11, <1>12, <2>1, NatInd
<1>14. \A n \in 0..N : h[n] \in S
    BY <1>1, <1>13
<1>. QED  BY <1>1, <1>10, <1>14 DEF h

\* What readCSV() returns: no table, or one with all its cells.
Complete(t) == t = Columnless \/ \E R \in Nat \ {0} : Full(t, R)

\* As long as its cells can be counted, readCSV() returns such a table.
LEMMA ReadTable ==
    ASSUME NEW s \in Cell, readCSV(s).t.cols * readCSV(s).row <= MaxCells
    PROVE  Complete(readCSV(s).t) /\ readCSV(s).t.cols <= MaxCells
<1>1. PICK r : r = After(s)[Len(s) + 1]
    OBVIOUS
<1>2. Reading(r) /\ readCSV(s).t = r.t /\ readCSV(s).row = r.row
  <2>1. Len(s) + 1 \in 0..(Len(s) + 1)
      BY AfterTurns
  <2>. QED  BY <1>1, <2>1, AfterTurns DEF readCSV
<1>3. r.t.cols \in Nat /\ r.row \in Nat /\ MaxCells \in Nat /\ r \in Reader /\ r.header \in BOOLEAN
  <2>1. r \in Reader
      BY <1>2 DEF Reading
  <2>2. MaxNames - 1 \in Nat
      BY DEF MaxNames
  <2>. QED  BY <2>1, <2>2, CsvTableAssumption DEF Reader, Tables
<1>4. CASE r.header
  <2>1. r.t = Columnless
      BY <1>2, <1>4 DEF Reading
  <2>. QED  BY <1>2, <1>3, <2>1 DEF Complete, Columnless
<1>5. CASE ~r.header
  <2>1. r.row >= 1 /\ r.t.cols # 0 /\ (Countable(r) => Full(r.t, r.row) \/ Full(r.t, r.row + 1))
      BY <1>2, <1>5 DEF Reading
  <2>2. r.t.cols * r.row <= MaxCells
      BY <1>2
  <2>3. r.t.cols * 1 <= r.t.cols * r.row
    <3>1. 1 \in Nat /\ 1 <= r.row
        BY <1>3, <2>1
    <3>. QED  BY <1>3, <3>1, Grows
  <2>4. PICK p \in Nat : p = r.t.cols * r.row
      BY <1>3
  <2>5. r.t.cols <= MaxCells
      BY <1>3, <2>2, <2>3, <2>4
  <2>6. r.t.cols * (r.row + 1) = p + r.t.cols
      BY <1>3, <2>4
  <2>7. Countable(r)
      BY <1>3, <2>2, <2>4, <2>5, <2>6, CsvTableAssumption, TableAssumption DEF Countable
  <2>8. r.row \in Nat \ {0} /\ r.row + 1 \in Nat \ {0}
      BY <1>3, <2>1
  <2>. QED  BY <1>2, <2>1, <2>5, <2>7, <2>8 DEF Complete
<1>. QED  BY <1>3, <1>4, <1>5

-----------------------------------------------------------------------------
(* Induction up to a number, and sequences that are joined.                  *)

\* Induction over the numbers up to N
LEMMA UpTo ==
    ASSUME NEW N \in Nat, NEW P \in SUBSET (0..N), 0 \in P, \A n \in 1..N : n - 1 \in P => n \in P
    PROVE  P = 0..N
<1>. DEFINE T == {n \in Nat : n <= N => n \in P}
<1>1. 0 \in T
    OBVIOUS
<1>2. ASSUME NEW n \in T PROVE n + 1 \in T
  <2>. SUFFICES ASSUME n + 1 <= N PROVE n + 1 \in P
      OBVIOUS
  <2>1. n + 1 \in 1..N /\ n + 1 - 1 = n /\ n \in P
      OBVIOUS
  <2>. QED  BY <2>1
<1>3. T = Nat
  <2>1. T \in SUBSET Nat
      OBVIOUS
  <2>. HIDE DEF T
  <2>. QED  BY <1>1, <1>2, <2>1, NatInd
<1>4. \A n \in 0..N : n \in P
    BY <1>3
<1>. QED  BY <1>4

\* The sequences of a sequence one after another: p[i] are the first i of them.
Joins(p, ss) == p[0] = <<>> /\ \A i \in 1..Len(ss) : p[i] = p[i - 1] \o ss[i]

\* FlattenSeq() joins them one by one.
LEMMA Flattened ==
    ASSUME NEW S, NEW ss \in Seq(Seq(S))
    PROVE  \E p \in [0..Len(ss) -> Seq(S)] : Joins(p, ss) /\ FlattenSeq(ss) = p[Len(ss)]
<1>. DEFINE N == Len(ss)
            C == Seq(S)
            g == [i \in 1..N |-> [y \in C |-> y \o ss[i]]]
            Body(f) == [i \in 1..N |-> IF i = 1 THEN ss[i] ELSE f[i - 1] \o ss[i]]
<1>1. N \in Nat /\ (\A i \in 1..N : ss[i] \in C)
    BY LenProperties, ElementOfSeq
<1>2. <<>> \in C
    BY EmptySeq
<1>3. g \in [1..N -> [C -> C]]
  <2>1. \A i \in 1..N, y \in C : y \o ss[i] \in C
      BY <1>1, ConcatProperties
  <2>. HIDE DEF N, C
  <2>. QED  BY <2>1
<1>4. PICK p \in [0..N -> C] : Iterates(p, N, <<>>, g)
  <2>. HIDE DEF N, C, g
  <2>. QED  BY <1>1, <1>2, <1>3, Recursion
<1>5. \A i \in 0..N : i = 0 \/ (i \in 1..N /\ i - 1 \in 0..N)
    BY <1>1
<1>6. p[0] = <<>> /\ \A i \in 1..N : p[i] = p[i - 1] \o ss[i]
  <2>1. \A i \in 1..N : i - 1 \in 0..N
      BY <1>1
  <2>2. \A i \in 1..N, y \in C : g[i][y] = y \o ss[i]
      OBVIOUS
  <2>3. p[0] = <<>> /\ \A i \in 1..N : p[i] = g[i][p[i - 1]]
      BY <1>4 DEF Iterates
  <2>. HIDE DEF N, C, g
  <2>. QED  BY <2>1, <2>2, <2>3
<1>7. Joins(p, ss)
    BY <1>6 DEF Joins
<1>8. CASE N = 0
  <2>1. ss = <<>>
      BY <1>8, EmptySeq
  <2>. QED  BY <1>1, <1>6, <1>7, <1>8, <2>1 DEF FlattenSeq
<1>9. CASE N # 0
  <2>. DEFINE f == [i \in 1..N |-> p[i]]
  <2>1. 1 \in 1..N /\ 0 \in 0..N /\ \A i \in 1..N : i # 1 => i - 1 \in 1..N
      BY <1>1, <1>9
  <2>2. \A i \in 1..N : p[i] = IF i = 1 THEN ss[i] ELSE p[i - 1] \o ss[i]
    <3>1. p[1] = ss[1]
      <4>0. p[1] = p[1 - 1] \o ss[1]
        <5>. HIDE DEF N
        <5>. QED  BY <1>6, <2>1
      <4>1. p[1] = <<>> \o ss[1]
        <5>1. 1 - 1 = 0
            OBVIOUS
        <5>2. p[1] = p[0] \o ss[1]
          <6>. HIDE DEF N
          <6>. QED  BY <4>0, <5>1
        <5>. QED  BY <1>6, <5>2
      <4>2. ss[1] \in Seq(S)
          BY <1>1, <2>1
      <4>. QED  BY <4>1, <4>2, ConcatEmptySeq
    <3>. QED  BY <1>6, <3>1
  <2>3. f = Body(f)
    <3>. HIDE DEF N
    <3>. QED  BY <2>1, <2>2
  <2>4. PICK h : h = CHOOSE k : k = Body(k)
      OBVIOUS
  <2>5. h = Body(h)
    <3>. HIDE DEF Body
    <3>. QED  BY <2>3, <2>4
  <2>6. FlattenSeq(ss) = h[N]
      BY <1>9, <2>4 DEF FlattenSeq
  <2>7. \A i \in 1..N : h[i] = IF i = 1 THEN ss[i] ELSE h[i - 1] \o ss[i]
    <3>. HIDE DEF N
    <3>. QED  BY <2>5
  <2>. DEFINE P == {i \in 0..N : i # 0 => h[i] = p[i]}
  <2>8. 0 \in P
      BY <1>1
  <2>9. ASSUME NEW i \in 1..N, i - 1 \in P PROVE i \in P
    <3>1. i \in 0..N /\ i # 0 /\ (i # 1 => i - 1 # 0)
        BY <1>1
    <3>2. CASE i = 1
        BY <2>2, <2>7, <3>1, <3>2
    <3>3. CASE i # 1
      <4>1. h[i - 1] = p[i - 1]
          BY <2>9, <3>1, <3>3
      <4>. HIDE DEF N
      <4>2. h[i] = p[i]
          BY <2>2, <2>7, <3>3, <4>1
      <4>. QED  BY <3>1, <4>2
    <3>. QED  BY <3>2, <3>3
  <2>10. P = 0..N
    <3>1. P \in SUBSET (0..N)
        OBVIOUS
    <3>. HIDE DEF P, N
    <3>. QED  BY <1>1, <2>8, <2>9, <3>1, UpTo
  <2>11. h[N] = p[N]
      BY <1>1, <1>9, <2>10
  <2>. QED  BY <1>7, <2>6, <2>11
<1>. QED  BY <1>8, <1>9

\* The texts that are printed are texts.
LEMMA PrintedChars ==
    ASSUME NEW f \in Cell, settings \in Settings
    PROVE  DoubleQuote(f) \in Cell /\ ToPrint(f) \in Cell
<1>. DEFINE ss == [i \in DOMAIN f |-> IF f[i] = quote THEN <<quote, quote>> ELSE <<f[i]>>]
<1>1. Len(f) \in Nat /\ DOMAIN f = 1..Len(f) /\ \A i \in 1..Len(f) : f[i] \in Char
    BY LenProperties, ElementOfSeq DEF Cell
<1>2. ASSUME NEW c \in Char PROVE <<c>> \in Cell
    BY DEF Cell
<1>3. <<quote, quote>> \in Cell /\ <<quote>> \in Cell
  <2>1. PICK q \in Char : q = quote
      BY Characters
  <2>2. <<q, q>> \in Seq(Char) /\ <<q>> \in Seq(Char)
      OBVIOUS
  <2>. QED  BY <2>1, <2>2 DEF Cell
<1>4. ss \in [1..Len(f) -> Cell]
    BY <1>1, <1>2, <1>3
<1>5. ss \in Seq(Seq(Char))
    BY <1>1, <1>4 DEF Cell
<1>6. DoubleQuote(f) \in Cell
  <2>. HIDE DEF ss
  <2>1. PICK p \in [0..Len(ss) -> Seq(Char)] : FlattenSeq(ss) = p[Len(ss)]
      BY <1>5, Flattened
  <2>2. Len(ss) \in 0..Len(ss)
      BY <1>5, LenProperties
  <2>. QED  BY <2>1, <2>2 DEF ss, DoubleQuote, Cell
<1>7. <<quote>> \o DoubleQuote(f) \o <<quote>> \in Cell
  <2>1. <<quote>> \o DoubleQuote(f) \in Seq(Char)
      BY <1>3, <1>6, ConcatProperties DEF Cell
  <2>. QED  BY <1>3, <2>1, ConcatProperties DEF Cell
<1>8. PICK d : d = <<quote>> \o DoubleQuote(f) \o <<quote>>
    OBVIOUS
<1>9. ToPrint(f) = CASE settings.quoting = "never"  -> f
                     [] settings.quoting = "always" -> d
                     [] settings.quoting = "needed" -> IF NeedsQuotes(f) THEN d ELSE DoubleQuote(f)
    BY <1>8 DEF ToPrint
<1>10. settings.quoting \in {"never", "always", "needed"}
    BY CsvAssumption
<1>11. ToPrint(f) \in {f, d, DoubleQuote(f)}
    BY <1>9, <1>10
<1>. QED  BY <1>6, <1>7, <1>8, <1>11

-----------------------------------------------------------------------------
(* What the writer counts.                                                   *)

\* What has been counted is what has been written.
Counting(w) == /\ w \in Writer /\ w.lines = Len(w.rows) /\ w.column = Len(w.begun)
               /\ \A i \in DOMAIN w.rows : Len(w.rows[i]) \in {0, w.columns}

\* Between two calls no row is full.
Rectangular(w) == Counting(w) /\ (w.columns # 0 => w.column < w.columns)

\* A line end behind a row that is full, or the first one
LEMMA LineEnds ==
    ASSUME NEW w, Counting(w), settings \in Settings, w.columns = 0 \/ w.column = w.columns
    PROVE  Rectangular(LineEnd(w))
<1>1. /\ w \in Writer /\ w.column \in Nat /\ w.columns \in Nat /\ w.lines \in Nat /\ w.out \in Seq(Char)
      /\ w.rows \in Seq(Seq(Inputs)) /\ w.begun \in Seq(Inputs)
      /\ w.lines = Len(w.rows) /\ w.column = Len(w.begun)
    BY DEF Counting, Writer
<1>. DEFINE end == IF settings.carriageReturn THEN <<cr, lf>> ELSE <<lf>>
            out == w.out \o end
            width == IF w.columns = 0 THEN w.column ELSE w.columns
            rows == Append(w.rows, w.begun)
            q == LineEnd(w)
<1>2. out \in Seq(Char)
  <2>1. end \in Seq(Char)
    <3>1. PICK a \in Char, b \in Char : a = cr /\ b = lf
        BY Characters
    <3>2. <<a, b>> \in Seq(Char) /\ <<b>> \in Seq(Char)
        OBVIOUS
    <3>. QED  BY <3>1, <3>2
  <2>. HIDE DEF end
  <2>. QED  BY <1>1, <2>1, ConcatProperties
<1>3. rows \in Seq(Seq(Inputs)) /\ Len(rows) = Len(w.rows) + 1
    BY <1>1, AppendProperties
<1>4. \A i \in DOMAIN rows : Len(rows[i]) \in {0, width}
  <2>. SUFFICES ASSUME NEW i \in DOMAIN rows PROVE Len(rows[i]) \in {0, width}
      OBVIOUS
  <2>1. Len(w.rows) \in Nat /\ DOMAIN w.rows = 1..Len(w.rows) /\ DOMAIN rows = 1..(Len(w.rows) + 1)
      BY <1>1, <1>3, LenProperties
  <2>2. CASE i = Len(w.rows) + 1
    <3>1. rows[i] = w.begun
        BY <1>1, <2>2, AppendProperties
    <3>. QED  BY <1>1, <3>1
  <2>3. CASE i # Len(w.rows) + 1
    <3>1. i \in DOMAIN w.rows /\ i \in 1..Len(w.rows)
        BY <2>1, <2>3
    <3>2. rows[i] = w.rows[i]
        BY <1>1, <3>1, AppendProperties
    <3>3. Len(w.rows[i]) \in {0, w.columns}
        BY <3>1 DEF Counting
    <3>. QED  BY <3>2, <3>3
  <2>. QED  BY <2>2, <2>3
<1>5. q = [w EXCEPT !.out = out, !.column = 0, !.lines = w.lines + 1, !.columns = width, !.rows = rows, !.begun = <<>>]
    BY <1>1 DEF LineEnd, Write, Writer
<1>6. width \in Nat /\ w.lines + 1 \in Nat /\ <<>> \in Seq(Inputs)
    BY <1>1, EmptySeq
<1>. HIDE DEF out, width, rows, q
<1>7. /\ q \in Writer /\ q.lines = w.lines + 1 /\ q.rows = rows /\ q.columns = width /\ q.column = 0 /\ q.begun = <<>>
    BY <1>1, <1>2, <1>3, <1>5, <1>6 DEF Writer
<1>8. Len(q.begun) = 0 /\ (q.columns # 0 => q.column < q.columns)
    BY <1>6, <1>7, EmptySeq
<1>. QED  BY <1>1, <1>3, <1>4, <1>7, <1>8 DEF Counting, Rectangular, q

\* An exception is one more thing to know of the writer.
LEMMA ThrowsGood ==
    ASSUME NEW w, Rectangular(w)
    PROVE  Rectangular(Throws(w)) /\ Rectangular([w EXCEPT !.thrown = FALSE])
BY DEF Rectangular, Counting, Throws, Writer

\* endRow() at any time
LEMMA EndsRow ==
    ASSUME NEW w, settings \in Settings,
           Rectangular(w) \/ (Counting(w) /\ w.columns # 0 /\ w.column = w.columns)
    PROVE  Rectangular(EndRow(w))
<1>1. w.column \in Nat /\ w.columns \in Nat /\ Counting(w)
    BY DEF Rectangular, Counting, Writer
<1>2. CASE w.columns # 0 /\ w.column = 0
    BY <1>1, <1>2 DEF EndRow
<1>3. CASE w.columns # 0 /\ w.column # 0 /\ w.column # w.columns
  <2>1. EndRow(w) = Throws(w)
      BY <1>3 DEF EndRow
  <2>. QED  BY <1>3, <2>1, ThrowsGood
<1>4. CASE w.columns = 0 \/ (w.column # 0 /\ w.column = w.columns)
  <2>1. EndRow(w) = LineEnd(w)
      BY <1>4 DEF EndRow
  <2>. QED  BY <1>1, <1>4, <2>1, LineEnds
<1>. QED  BY <1>2, <1>3, <1>4

\* A field that is printed
WithField(w, f) == [Write(w, (IF w.column # 0 THEN <<sep>> ELSE <<>>) \o ToPrint(f)) EXCEPT
                       !.column = @ + 1, !.begun = Append(@, f)]
LEMMA Printed ==
    ASSUME NEW w, settings \in Settings, Rectangular(w), NEW f \in Inputs,
           NEW p, p = WithField(w, f)
    PROVE  /\ Counting(p) /\ (p.columns # 0 => p.column <= p.columns)
           /\ p.rows = w.rows /\ p.lines = w.lines /\ p.columns = w.columns /\ p.begun = Append(w.begun, f)
           /\ p.out = w.out \o ((IF w.column # 0 THEN <<sep>> ELSE <<>>) \o ToPrint(f))
<1>1. /\ w \in Writer /\ w.column \in Nat /\ w.columns \in Nat /\ w.out \in Seq(Char) /\ w.begun \in Seq(Inputs)
      /\ w.column = Len(w.begun) /\ f \in Cell
    BY CsvAssumption DEF Rectangular, Counting, Writer
<1>. DEFINE text == (IF w.column # 0 THEN <<sep>> ELSE <<>>) \o ToPrint(f)
            out == w.out \o text
            begun == Append(w.begun, f)
<1>2. out \in Seq(Char)
  <2>1. PICK c \in Char : c = sep
      BY Characters
  <2>2. <<c>> \in Seq(Char) /\ <<>> \in Seq(Char)
      OBVIOUS
  <2>3. (IF w.column # 0 THEN <<sep>> ELSE <<>>) \in Seq(Char)
      BY <2>1, <2>2
  <2>4. ToPrint(f) \in Seq(Char)
      BY <1>1, PrintedChars DEF Cell
  <2>5. text \in Seq(Char)
      BY <2>3, <2>4, ConcatProperties
  <2>. HIDE DEF text
  <2>. QED  BY <1>1, <2>5, ConcatProperties
<1>3. begun \in Seq(Inputs) /\ Len(begun) = Len(w.begun) + 1 /\ w.column + 1 \in Nat
    BY <1>1, AppendProperties
<1>4. p = [w EXCEPT !.out = out, !.column = w.column + 1, !.begun = begun]
    BY <1>1 DEF WithField, Write, Writer
<1>5. out = w.out \o ((IF w.column # 0 THEN <<sep>> ELSE <<>>) \o ToPrint(f)) /\ begun = Append(w.begun, f)
    OBVIOUS
<1>. HIDE DEF out, begun
<1>6. p \in Writer /\ p.column = w.column + 1 /\ p.begun = begun /\ p.columns = w.columns
      /\ p.rows = w.rows /\ p.lines = w.lines /\ p.out = out
    BY <1>1, <1>2, <1>3, <1>4 DEF Writer
<1>7. Counting(p) /\ (p.columns # 0 => p.column <= p.columns)
    BY <1>1, <1>3, <1>6 DEF Counting, Rectangular
<1>. QED  BY <1>5, <1>6, <1>7

-----------------------------------------------------------------------------
(* How the reader comes through a text.                                      *)

\* The reader of s comes to the state r, in fewer turns than it has read characters.
Reaches(s, r) == \E n \in 0..(Len(s) + 1) : After(s)[n] = r /\ n < r.at

\* It comes to where it starts.
LEMMA StartReached ==
    ASSUME NEW s \in Cell
    PROVE  Reaches(s, StartReading)
<1>1. Len(s) + 1 \in Nat /\ After(s)[0] = StartReading
    BY AfterTurns
<1>2. StartReading.at = 1 /\ 0 \in 0..(Len(s) + 1)
    BY <1>1 DEF StartReading
<1>. QED  BY <1>1, <1>2 DEF Reaches

\* Wherever it comes to, it is in order.
LEMMA ReachedReading ==
    ASSUME NEW s \in Cell, NEW r, Reaches(s, r)
    PROVE  /\ Reading(r) /\ r \in Reader /\ r.at \in Nat /\ r.at >= 1 /\ Len(s) \in Nat
           /\ r.f \in Cell /\ r.h \in Seq(Cell) /\ r.t \in Tables
<1>1. Reading(r)
    BY AfterTurns DEF Reaches
<1>2. r \in Reader /\ r.at >= 1
    BY <1>1 DEF Reading
<1>3. Len(s) \in Nat
    BY LenProperties DEF Cell
<1>. QED  BY <1>1, <1>2, <1>3 DEF Reader

\* From one state it comes to the next, as long as there are characters or the end is ahead.
LEMMA ReachesOn ==
    ASSUME NEW s \in Cell, NEW r, Reaches(s, r), r.good, r.st = "reading", r.at <= Len(s) + 1,
           NEW q, q = ReadOne(r, s), q.at > r.at
    PROVE  Reaches(s, q)
<1>1. PICK n \in 0..(Len(s) + 1) : After(s)[n] = r /\ n < r.at
    BY DEF Reaches
<1>2. Len(s) \in Nat /\ r.at \in Nat
    BY ReachedReading
<1>3. n + 1 \in 1..(Len(s) + 1) /\ n + 1 - 1 = n
    BY <1>1, <1>2
<1>4. After(s)[n + 1] = Turn(r, s)
    BY <1>1, <1>3, AfterTurns
<1>5. Turn(r, s) = q
    BY DEF Turn
<1>6. q.at \in Nat
  <2>1. Reading(q)
      BY <1>3, <1>4, <1>5, AfterTurns
  <2>. QED  BY <2>1 DEF Reading, Reader
<1>7. n + 1 < q.at
    BY <1>1, <1>2, <1>6
<1>. QED  BY <1>3, <1>4, <1>5, <1>7 DEF Reaches

\* Where it stops, it stays.
LEMMA Stopped ==
    ASSUME NEW s \in Cell, NEW r, Reaches(s, r), ~(r.good /\ r.st = "reading")
    PROVE  After(s)[Len(s) + 1] = r
<1>1. PICK n \in 0..(Len(s) + 1) : After(s)[n] = r
    BY DEF Reaches
<1>2. PICK N \in Nat : N = Len(s) + 1
    BY AfterTurns
<1>3. PICK h : h = After(s)
    OBVIOUS
<1>4. \A k \in 1..N : h[k] = Turn(h[k - 1], s)
    BY <1>2, <1>3, AfterTurns
<1>. DEFINE P == {k \in 0..N : k >= n => h[k] = r}
<1>5. 0 \in P
  <2>1. 0 >= n => n = 0
      BY <1>1, <1>2
  <2>. QED  BY <1>1, <1>2, <1>3, <2>1
<1>6. ASSUME NEW k \in 1..N, k - 1 \in P PROVE k \in P
  <2>1. CASE k - 1 >= n
    <3>1. h[k - 1] = r
        BY <1>6, <2>1
    <3>2. Turn(r, s) = r
        BY DEF Turn
    <3>. QED  BY <1>2, <1>4, <3>1, <3>2
  <2>2. CASE ~(k - 1 >= n)
    <3>1. k >= n => k = n
        BY <1>1, <1>2, <2>2
    <3>. QED  BY <1>1, <1>2, <1>3, <3>1
  <2>. QED  BY <2>1, <2>2
<1>7. P = 0..N
  <2>1. P \in SUBSET (0..N)
      OBVIOUS
  <2>. HIDE DEF P
  <2>. QED  BY <1>2, <1>5, <1>6, <2>1, UpTo
<1>8. N \in P /\ N >= n
    BY <1>1, <1>2, <1>7
<1>. QED  BY <1>2, <1>3, <1>8

\* A look at a position that there is changes nothing.
LEMMA LookedAt ==
    ASSUME NEW s, NEW r \in Reader, r.good, NEW i \in Nat, i <= Len(s)
    PROVE  Looked(r, s, i) = r
BY DEF Looked, Reader

\* The field that is collected is f, after the character at a - 1.
Has(r, f, l, a) == [r EXCEPT !.f = f, !.last = l, !.at = a]

\* Before it reads a field, the reader is ready for it, and there is none yet.
Ready(r) == /\ r.good /\ r.st = "reading" /\ ~r.quoted /\ r.f = <<>>
            /\ r.last \in {"startOfRecord", "separator"}

\* The first field does not begin with what may be a byte order mark.
NoMark(r, f) == r.header /\ r.last = "startOfRecord" /\ f # <<>> => f[1] # high

\* A field without anything special, but for quotes behind its first character, is read as it is.
LEMMA PlainRead ==
    ASSUME NEW s \in Cell, NEW r, Reaches(s, r), Ready(r), NEW f \in Cell, NoMark(r, f),
           r.at + Len(f) <= Len(s) + 1,
           \A i \in 1..Len(f) : /\ CharAt(s, r.at + i - 1) = f[i] /\ f[i] \notin {cr, lf, sep}
                                /\ i = 1 => f[i] # quote
    PROVE  Reaches(s, Has(r, f, IF f = <<>> THEN r.last ELSE "fieldData", r.at + Len(f)))
<1>1. /\ r \in Reader /\ r.at \in Nat /\ r.at >= 1 /\ Len(s) \in Nat /\ Len(f) \in Nat /\ f \in Seq(Char)
      /\ \A i \in 1..Len(f) : f[i] \in Char
    BY ReachedReading, LenProperties, ElementOfSeq DEF Cell
<1>. DEFINE l(k) == IF k = 0 THEN r.last ELSE "fieldData"
            R(k) == Has(r, SubSeq(f, 1, k), l(k), r.at + k)
            P == {k \in 0..Len(f) : Reaches(s, R(k))}
<1>2. 0 \in P
  <2>1. SubSeq(f, 1, 0) = <<>> /\ r.at + 0 = r.at
      BY <1>1, SubSeqEmpty
  <2>2. R(0) = r
      BY <1>1, <2>1 DEF Has, Ready, Reader
  <2>. QED  BY <1>1, <2>2
<1>3. ASSUME NEW k \in 1..Len(f), k - 1 \in P PROVE k \in P
  <2>1. PICK x : x = R(k - 1)
      OBVIOUS
  <2>2. PICK g \in Cell : g = SubSeq(f, 1, k - 1) /\ Append(g, f[k]) = SubSeq(f, 1, k)
    <3>1. \A i \in 1..(k - 1) : f[i] \in Char
        BY <1>1
    <3>2. k - 1 \in Nat
        OBVIOUS
    <3>3. SubSeq(f, 1, k - 1) \in Seq(Char)
        BY <1>1, <3>1, <3>2, SubSeqProperties
    <3>4. Append(SubSeq(f, 1, k - 1), f[k]) = SubSeq(f, 1, k)
        BY <1>1, SubSeqRecursiveSecond
    <3>. QED  BY <3>3, <3>4 DEF Cell
  <2>3. /\ x \in Reader /\ x.f = g /\ x.last = l(k - 1) /\ x.at = r.at + (k - 1)
        /\ x.header = r.header /\ x.good = r.good /\ x.st = r.st /\ x.quoted = r.quoted
        /\ x = [r EXCEPT !.f = g, !.last = l(k - 1), !.at = r.at + (k - 1)]
    <3>1. x = [r EXCEPT !.f = g, !.last = l(k - 1), !.at = r.at + (k - 1)]
        BY <2>1, <2>2 DEF Has
    <3>2. l(k - 1) \in {"endQuote", "fieldData", "separator", "startOfRecord"} /\ r.at + (k - 1) \in Nat
        BY <1>1 DEF Reader
    <3>. HIDE DEF l
    <3>. QED  BY <1>1, <2>2, <3>1, <3>2 DEF Reader
  <2>4. Reaches(s, x)
      BY <1>3, <2>1
  <2>5. PICK c \in Char : c = f[k]
      BY <1>1
  <2>6. /\ CharAt(s, x.at) = c /\ c \notin {cr, lf, sep} /\ (k = 1 => c # quote)
        /\ x.at <= Len(s) /\ x.at \in Nat
      BY <1>1, <2>3, <2>5
  <2>7. Looked(x, s, x.at) = x /\ x.good /\ x.st = "reading" /\ ~x.quoted
      BY <2>3, <2>6, LookedAt DEF Ready
  <2>8. c # eof
      BY EofIsNone
  <2>9. ~(x.header /\ x.last = "startOfRecord" /\ c = high)
    <3>1. CASE k = 1
      <4>1. x.last = r.last /\ x.header = r.header /\ f[1] = c
          BY <2>3, <2>5, <3>1
      <4>2. f # <<>>
          BY <1>1, EmptySeq
      <4>. QED  BY <4>1, <4>2 DEF NoMark
    <3>2. CASE k # 1
      <4>1. x.last = "fieldData"
          BY <2>3, <3>2
      <4>. QED  BY <4>1
    <3>. QED  BY <3>1, <3>2
  <2>10. ReadOne(x, s) = Push(x, c, 1)
    <3>1. CASE c # quote
        BY <2>6, <2>7, <2>8, <2>9, <3>1 DEF ReadOne
    <3>2. CASE c = quote
      <4>1. x.last = "fieldData"
          BY <2>3, <2>6, <3>2
      <4>2. Quote(x) = Push(x, quote, 1)
          BY <4>1 DEF Quote
      <4>3. ReadOne(x, s) = Quote(x)
          BY <2>6, <2>7, <2>8, <2>9, <3>2 DEF ReadOne, quote, cr, lf, sep
      <4>. QED  BY <3>2, <4>2, <4>3
    <3>. QED  BY <3>1, <3>2
  <2>11. PICK q : q = Push(x, c, 1)
      OBVIOUS
  <2>12. q = R(k)
    <3>1. q = [x EXCEPT !.f = Append(g, c), !.last = "fieldData", !.at = x.at + 1]
        BY <2>3, <2>11 DEF Push
    <3>2. x.at + 1 = r.at + k /\ Append(g, c) = SubSeq(f, 1, k) /\ l(k) = "fieldData"
      <4>1. k \in Nat /\ k # 0
          OBVIOUS
      <4>2. l(k) = "fieldData"
          BY <4>1
      <4>. HIDE DEF l
      <4>3. x.at + 1 = r.at + k
          BY <1>1, <2>3, <4>1
      <4>. QED  BY <2>2, <2>5, <4>2, <4>3
    <3>. HIDE DEF l
    <3>. QED  BY <1>1, <2>3, <3>1, <3>2 DEF Has, Reader
  <2>13. q.at > x.at
    <3>1. q.at = x.at + 1
        BY <2>3, <2>11 DEF Push, Reader
    <3>. QED  BY <2>6, <3>1
  <2>14. Reaches(s, q)
    <3>1. x.at <= Len(s) + 1 /\ q = ReadOne(x, s)
        BY <1>1, <2>6, <2>10, <2>11
    <3>. QED  BY <2>4, <2>7, <2>13, <3>1, ReachesOn
  <2>. QED  BY <1>1, <2>12, <2>14
<1>4. P = 0..Len(f)
  <2>1. P \in SUBSET (0..Len(f))
      OBVIOUS
  <2>. HIDE DEF P
  <2>. QED  BY <1>1, <1>2, <1>3, <2>1, UpTo
<1>5. Reaches(s, R(Len(f)))
    BY <1>1, <1>4
<1>6. SubSeq(f, 1, Len(f)) = f /\ (Len(f) = 0 <=> f = <<>>)
    BY <1>1, SubSeqFull, EmptySeq
<1>. QED  BY <1>5, <1>6

-----------------------------------------------------------------------------
(* How it reads a field in quotes.                                           *)

\* A beginning of a field that is one character longer.
LEMMA OneMore ==
    ASSUME NEW f \in Cell, NEW k \in 1..Len(f)
    PROVE  SubSeq(f, 1, k - 1) \in Cell /\ f[k] \in Char /\ Append(SubSeq(f, 1, k - 1), f[k]) = SubSeq(f, 1, k)
<1>1. f \in Seq(Char) /\ Len(f) \in Nat /\ k - 1 \in Nat /\ \A i \in 1..Len(f) : f[i] \in Char
    BY LenProperties, ElementOfSeq DEF Cell
<1>2. \A i \in 1..(k - 1) : f[i] \in Char
    BY <1>1
<1>3. SubSeq(f, 1, k - 1) \in Seq(Char)
    BY <1>1, <1>2, SubSeqProperties
<1>4. Append(SubSeq(f, 1, k - 1), f[k]) = SubSeq(f, 1, k)
    BY <1>1, SubSeqRecursiveSecond
<1>. QED  BY <1>1, <1>3, <1>4 DEF Cell

\* The same in quotes, of which the closing one is still ahead.
In(r, f, l, a) == [r EXCEPT !.quoted = TRUE, !.f = f, !.last = l, !.at = a]

\* One turn in quotes
LEMMA QuotedTurn ==
    ASSUME NEW s \in Cell, NEW x, Reaches(s, x), x.good, x.st = "reading", x.quoted,
           NEW c \in Char, c = CharAt(s, x.at), ~(x.header /\ x.last = "startOfRecord" /\ c = high),
           NEW q, q = Quoted(x, s, c), q.at > x.at
    PROVE  Reaches(s, q)
<1>1. x \in Reader /\ x.at \in Nat /\ x.at >= 1 /\ Len(s) \in Nat
    BY ReachedReading
<1>2. c # eof
    BY EofIsNone
<1>3. x.at <= Len(s)
    BY <1>1, <1>2, CharOfText
<1>4. Looked(x, s, x.at) = x
    BY <1>1, <1>3, LookedAt
<1>5. ReadOne(x, s) = Quoted(x, s, c)
    BY <1>4 DEF ReadOne
<1>6. x.at <= Len(s) + 1
    BY <1>1, <1>3
<1>. QED  BY <1>5, <1>6, ReachesOn

\* What the reader has read last when it has a field in its hands
Lasts == {"endQuote", "fieldData", "separator", "startOfRecord"}

\* The reader in a quoted field is a reader.
LEMMA InQuotes ==
    ASSUME NEW r, r \in Reader, NEW g, g \in Cell, NEW l, l \in Lasts, NEW a, a \in Nat, NEW x, x = In(r, g, l, a)
    PROVE  /\ x \in Reader /\ x.f = g /\ x.at = a /\ x.last = l /\ x.quoted
           /\ x.good = r.good /\ x.st = r.st /\ x.header = r.header
BY DEF In, Reader, Lasts

\* A character is added to what was read in quotes.
LEMMA PushedIn ==
    ASSUME NEW r, r \in Reader, NEW g, g \in Cell, NEW l, l \in Lasts, NEW a, a \in Nat, NEW x, x = In(r, g, l, a),
           NEW c, c \in Char, NEW n, n \in Nat
    PROVE  Push(x, c, n) = In(r, Append(g, c), "fieldData", a + n)
<1>1. x \in Reader /\ x.f = g /\ x.at = a
    BY InQuotes
<1>2. Push(x, c, n) = [x EXCEPT !.f = Append(g, c), !.last = "fieldData", !.at = a + n]
    BY <1>1 DEF Push
<1>3. [x EXCEPT !.f = Append(g, c), !.last = "fieldData", !.at = a + n] = In(r, Append(g, c), "fieldData", a + n)
    BY DEF In, Reader
<1>. QED  BY <1>2, <1>3

\* Where the characters of f are when its quotes are doubled.
Doubled(s, f, place) ==
    /\ place \in [0..Len(f) -> Nat \ {0}]
    /\ \A i \in 1..Len(f) : /\ CharAt(s, place[i - 1]) = f[i]
                            /\ place[i] = place[i - 1] + (IF f[i] = quote THEN 2 ELSE 1)
                            /\ f[i] = quote => CharAt(s, place[i - 1] + 1) = quote

\* A field in quotes, its own quotes doubled, is read as it is.
LEMMA QuotedRead ==
    ASSUME NEW s \in Cell, NEW r, Reaches(s, r), Ready(r), NEW f \in Cell, NoMark(r, f),
           CharAt(s, r.at) = quote, NEW place, Doubled(s, f, place), place[0] = r.at + 1,
           CharAt(s, place[Len(f)]) = quote, CharAt(s, place[Len(f)] + 1) \in Char \ {quote}
    PROVE  Reaches(s, Has(r, f, "endQuote", place[Len(f)] + 1))
<1>1. /\ r \in Reader /\ r.at \in Nat /\ r.at >= 1 /\ Len(s) \in Nat /\ Len(f) \in Nat /\ f \in Seq(Char)
      /\ \A i \in 1..Len(f) : f[i] \in Char
    BY ReachedReading, LenProperties, ElementOfSeq DEF Cell
<1>c. quote \in Char /\ cr \in Char /\ lf \in Char /\ quote # high /\ quote # cr /\ quote # lf
    BY Characters DEF quote, high, cr, lf
<1>2. PICK N \in Nat : N = Len(f)
    BY <1>1
<1>3. PICK l : l = [k \in 0..N |-> IF k = 0 THEN r.last ELSE "fieldData"]
    OBVIOUS
<1>4. /\ \A k \in 0..N : l[k] \in Lasts
      /\ \A k \in 1..N : l[k] = "fieldData"
      /\ l[0] = r.last
  <2>1. r.last \in Lasts
      BY <1>1 DEF Reader, Lasts
  <2>. QED  BY <1>2, <1>3, <2>1 DEF Lasts
<1>5. \A k \in 0..N : place[k] \in Nat /\ place[k] >= 1
    BY <1>2 DEF Doubled
<1>6. \A k \in 1..N : /\ CharAt(s, place[k - 1]) = f[k]
                      /\ place[k] = place[k - 1] + (IF f[k] = quote THEN 2 ELSE 1)
                      /\ f[k] = quote => CharAt(s, place[k - 1] + 1) = quote
    BY <1>2 DEF Doubled
\* After the opening quote, and k characters
<1>. DEFINE Q(k) == In(r, SubSeq(f, 1, k), l[k], place[k])
            Pair(k) == k < N /\ f[k] = cr /\ f[k + 1] = lf
            P == {k \in 0..N : Reaches(s, Q(k)) \/ (k >= 1 /\ Pair(k) /\ Reaches(s, Q(k - 1)))}
\* What there is to know of Q(k - 1)
<1>7. ASSUME NEW k \in 1..N
      PROVE  /\ Q(k - 1) \in Reader /\ Q(k - 1).at = place[k - 1] /\ Q(k - 1).good /\ Q(k - 1).st = "reading"
             /\ Q(k - 1).quoted
             /\ \A n \in Nat : place[k] = place[k - 1] + n => Push(Q(k - 1), f[k], n) = Q(k)
             /\ ~(Q(k - 1).header /\ Q(k - 1).last = "startOfRecord" /\ f[k] = high)
  <2>1. PICK g \in Cell : g = SubSeq(f, 1, k - 1) /\ f[k] \in Char /\ Append(g, f[k]) = SubSeq(f, 1, k)
      BY <1>2, OneMore
  <2>2. PICK c \in Char : c = f[k]
      BY <2>1
  <2>3. PICK a \in Nat : a = place[k - 1]
      BY <1>5
  <2>4. PICK m \in Lasts : m = l[k - 1]
      BY <1>4
  <2>5. PICK x : x = In(r, g, m, a)
      OBVIOUS
  <2>6. x = Q(k - 1)
      BY <2>1, <2>3, <2>4, <2>5
  <2>7. /\ x \in Reader /\ x.at = a /\ x.last = m /\ x.quoted
        /\ x.good = r.good /\ x.st = r.st /\ x.header = r.header
        /\ \A n \in Nat : Push(x, c, n) = In(r, Append(g, c), "fieldData", a + n)
    <3>1. ASSUME NEW n \in Nat PROVE Push(x, c, n) = In(r, Append(g, c), "fieldData", a + n)
      <4>1. r \in Reader /\ g \in Cell /\ m \in Lasts /\ a \in Nat /\ x = In(r, g, m, a) /\ c \in Char /\ n \in Nat
          BY <1>1, <2>5
      <4>. QED  BY ONLY <4>1, PushedIn
    <3>3. /\ x \in Reader /\ x.at = a /\ x.last = m /\ x.quoted
          /\ x.good = r.good /\ x.st = r.st /\ x.header = r.header
        BY <1>1, <2>1, <2>5, InQuotes
    <3>. QED  BY <3>1, <3>3
  <2>8. ASSUME NEW n \in Nat, place[k] = place[k - 1] + n PROVE Push(x, f[k], n) = Q(k)
    <3>1. Append(g, c) = SubSeq(f, 1, k) /\ l[k] = "fieldData" /\ a + n = place[k]
        BY <1>4, <2>1, <2>2, <2>3, <2>8
    <3>. QED  BY <2>2, <2>7, <3>1
  <2>9. ~(x.header /\ x.last = "startOfRecord" /\ f[k] = high)
    <3>1. CASE k = 1
      <4>1. m = r.last /\ f # <<>>
          BY <1>1, <1>2, <1>4, <2>4, <3>1, EmptySeq
      <4>. QED  BY <2>7, <3>1, <4>1 DEF NoMark
    <3>2. CASE k # 1
      <4>1. k - 1 \in 1..N
          BY <3>2
      <4>2. m = "fieldData"
          BY <1>4, <2>4, <4>1
      <4>. QED  BY <2>7, <4>2
    <3>. QED  BY <3>1, <3>2
  <2>10. x.good /\ x.st = "reading"
      BY <2>7 DEF Ready
  <2>. HIDE DEF Q
  <2>. QED  BY <2>3, <2>6, <2>7, <2>8, <2>9, <2>10
\* The opening quote
<1>8. 0 \in P
  <2>1. Looked(r, s, r.at) = r /\ r.at <= Len(s) /\ quote # eof
    <3>1. quote # eof
        BY <1>c, EofIsNone
    <3>2. r.at <= Len(s)
        BY <1>1, <3>1, CharOfText
    <3>. QED  BY <1>1, <3>1, <3>2, LookedAt DEF Ready
  <2>2. ReadOne(r, s) = Quote(r)
    <3>1. quote \notin {cr, lf, eof, sep, high}
        BY <1>c, <2>1 DEF sep, quote
    <3>. QED  BY <2>1, <3>1 DEF ReadOne, Ready
  <2>3. Quote(r) = [r EXCEPT !.quoted = TRUE, !.f = <<>>, !.at = @ + 1]
      BY DEF Quote, Ready
  <2>4. SubSeq(f, 1, 0) = <<>>
      BY <1>1, SubSeqEmpty
  <2>5. Q(0) = [r EXCEPT !.quoted = TRUE, !.f = <<>>, !.at = @ + 1]
      BY <1>1, <1>4, <2>4 DEF In, Reader
  <2>6. PICK q : q = ReadOne(r, s)
      OBVIOUS
  <2>7. q = Q(0)
      BY <2>2, <2>3, <2>5, <2>6
  <2>8. q.at > r.at
    <3>1. q.at = r.at + 1
        BY <1>1, <2>2, <2>3, <2>6 DEF Reader
    <3>. QED  BY <1>1, <3>1
  <2>9. Reaches(s, q)
    <3>1. r.at <= Len(s) + 1 /\ r.good /\ r.st = "reading"
        BY <1>1, <2>1 DEF Ready
    <3>. QED  BY <2>6, <2>8, <3>1, ReachesOn
  <2>. QED  BY <1>2, <2>7, <2>9
\* One character more
<1>9. ASSUME NEW k \in 1..N, k - 1 \in P PROVE k \in P
  <2>1. CASE Reaches(s, Q(k - 1))
    <3>1. PICK x : x = Q(k - 1)
        OBVIOUS
    <3>2. /\ x \in Reader /\ x.at = place[k - 1] /\ x.good /\ x.st = "reading" /\ x.quoted /\ Reaches(s, x)
          /\ \A n \in Nat : place[k] = place[k - 1] + n => Push(x, f[k], n) = Q(k)
          /\ ~(x.header /\ x.last = "startOfRecord" /\ f[k] = high)
      <4>. HIDE DEF Q
      <4>. QED  BY <1>7, <2>1, <3>1
    <3>3. PICK c \in Char : c = f[k]
        BY <1>1, <1>2
    <3>4. /\ c = CharAt(s, x.at) /\ place[k] = x.at + (IF c = quote THEN 2 ELSE 1)
          /\ c = quote => CharAt(s, x.at + 1) = quote
        BY <1>6, <3>2, <3>3
    <3>5. x.at \in Nat /\ k \in 0..N /\ c # eof
        BY <1>5, <3>2, EofIsNone
    <3>6. ASSUME Quoted(x, s, c) = Q(k) PROVE k \in P
      <4>1. PICK q : q = Quoted(x, s, c)
          OBVIOUS
      <4>2. q.at = place[k]
          BY <1>1, <3>6, <4>1 DEF In, Reader
      <4>3. q.at > x.at
          BY <3>4, <3>5, <4>2
      <4>4. Reaches(s, q)
          BY <3>2, <3>3, <3>4, <4>1, <4>3, QuotedTurn
      <4>. HIDE DEF Q
      <4>. QED  BY <3>5, <3>6, <4>1, <4>4
    <3>7. CASE c = quote
      <4>1. Quoted(x, s, c) = Push(x, quote, 2)
          BY <1>c, <3>4, <3>5, <3>7 DEF Quoted
      <4>2. place[k] = place[k - 1] + 2
          BY <3>2, <3>4, <3>7
      <4>3. Push(x, f[k], 2) = Q(k)
        <5>. HIDE DEF Q
        <5>. QED  BY <3>2, <4>2
      <4>. HIDE DEF Q, P
      <4>. QED  BY <3>3, <3>6, <3>7, <4>1, <4>3
    <3>8. CASE c # quote /\ c = cr /\ Pair(k)
      <4>1. k >= 1
          OBVIOUS
      <4>. HIDE DEF Q
      <4>. QED  BY <2>1, <3>5, <3>8, <4>1
    <3>9. CASE c # quote /\ c = cr /\ ~Pair(k)
      <4>1. place[k] = x.at + 1 /\ CharAt(s, x.at + 1) = CharAt(s, place[k])
          BY <3>4, <3>9
      <4>2. CharAt(s, x.at + 1) # lf /\ CharAt(s, x.at + 1) # eof
        <5>1. CASE k = N
            BY <1>2, <1>c, <4>1, <5>1, EofIsNone
        <5>2. CASE k # N
          <6>1. k < N /\ k + 1 \in 1..N /\ k + 1 - 1 = k
              BY <5>2
          <6>2. CharAt(s, place[k]) = f[k + 1] /\ f[k + 1] \in Char
              BY <1>1, <1>2, <1>6, <6>1
          <6>3. f[k + 1] # lf
              BY <3>3, <3>9, <6>1
          <6>. QED  BY <4>1, <6>2, <6>3, EofIsNone
        <5>. QED  BY <5>1, <5>2
      <4>3. x.at + 1 <= Len(s)
          BY <3>5, <4>2, CharOfText
      <4>4. PICK y : y = Push(x, cr, 1)
          OBVIOUS
      <4>5. y = Q(k)
        <5>1. place[k] = place[k - 1] + 1
            BY <3>2, <4>1
        <5>. HIDE DEF Q
        <5>. QED  BY <3>2, <3>3, <3>9, <4>4, <5>1
      <4>6. y \in Reader /\ y.good
        <5>1. Reading(y)
          <6>1. Reading(x)
              BY <3>2, ReachedReading
          <6>. QED  BY <1>c, <4>4, <6>1, PushesOn
        <5>2. y.good = x.good
            BY <3>2, <4>4 DEF Push, Reader
        <5>. QED  BY <3>2, <5>1, <5>2 DEF Reading
      <4>7. Looked(y, s, x.at + 1) = y
          BY <3>5, <4>3, <4>6, LookedAt
      <4>8. Quoted(x, s, c) = Looked(y, s, x.at + 1)
          BY <1>c, <3>5, <3>9, <4>2, <4>4 DEF Quoted
      <4>. HIDE DEF Q, P
      <4>. QED  BY <3>6, <4>5, <4>7, <4>8
    <3>10. CASE c # quote /\ c # cr
      <4>1. Quoted(x, s, c) = Push(x, c, 1)
          BY <3>5, <3>10 DEF Quoted
      <4>2. place[k] = place[k - 1] + 1
          BY <3>2, <3>4, <3>10
      <4>3. Push(x, f[k], 1) = Q(k)
        <5>. HIDE DEF Q
        <5>. QED  BY <3>2, <4>2
      <4>. HIDE DEF Q, P
      <4>. QED  BY <3>3, <3>6, <4>1, <4>3
    <3>. QED  BY <3>7, <3>8, <3>9, <3>10
  <2>2. CASE ~Reaches(s, Q(k - 1))
    <3>1. k - 1 \in 1..N /\ k - 1 >= 1 /\ Pair(k - 1) /\ Reaches(s, Q(k - 1 - 1))
      <4>1. k - 1 >= 1 /\ Pair(k - 1) /\ Reaches(s, Q(k - 1 - 1))
        <5>. HIDE DEF Q
        <5>. QED  BY <1>9, <2>2
      <4>2. k - 1 \in 1..N
          BY <4>1
      <4>. QED  BY <4>1, <4>2
    <3>2. PICK j \in 1..N : j = k - 1
        BY <3>1
    <3>3. f[j] = cr /\ f[k] = lf
      <4>1. k = j + 1
          BY <3>2
      <4>. QED  BY <3>1, <3>2, <4>1
    <3>4. PICK x : x = Q(j - 1)
        OBVIOUS
    <3>5. /\ x \in Reader /\ x.at = place[j - 1] /\ x.good /\ x.st = "reading" /\ x.quoted /\ Reaches(s, x)
          /\ \A n \in Nat : place[j] = place[j - 1] + n => Push(x, f[j], n) = Q(j)
          /\ ~(x.header /\ x.last = "startOfRecord" /\ f[j] = high)
      <4>. HIDE DEF Q
      <4>. QED  BY <1>7, <3>1, <3>2, <3>4
    <3>6. CharAt(s, x.at) = cr /\ place[j] = x.at + 1 /\ CharAt(s, x.at + 1) = lf /\ place[k] = x.at + 2 /\ x.at \in Nat
      <4>1. CharAt(s, place[j - 1]) = cr /\ place[j] = place[j - 1] + 1
          BY <1>6, <1>c, <3>3
      <4>2. CharAt(s, place[j]) = lf /\ place[k] = place[j] + 1
          BY <1>6, <1>c, <3>2, <3>3
      <4>3. place[j - 1] \in Nat /\ j - 1 \in 0..N
        <5>1. j - 1 \in 0..N
            OBVIOUS
        <5>. QED  BY <1>5, <5>1
      <4>. QED  BY <3>5, <4>1, <4>2, <4>3
    <3>7. Push(x, cr, 1) = Q(j)
      <4>1. place[j] = place[j - 1] + 1
          BY <3>5, <3>6
      <4>. HIDE DEF Q
      <4>. QED  BY <3>3, <3>5, <4>1
    <3>8. Push(Q(j), lf, 1) = Q(k)
      <4>1. \A n \in Nat : place[k] = place[k - 1] + n => Push(Q(k - 1), f[k], n) = Q(k)
        <5>. HIDE DEF Q
        <5>. QED  BY <1>7
      <4>2. place[k] = place[k - 1] + 1
          BY <3>2, <3>6
      <4>. HIDE DEF Q
      <4>. QED  BY <3>2, <3>3, <4>1, <4>2
    <3>9. cr # eof
        BY <1>c, EofIsNone
    <3>10. Quoted(x, s, cr) = Push(Push(x, cr, 1), lf, 1)
        BY <1>c, <3>6, <3>9 DEF Quoted
    <3>11. PICK q : q = Quoted(x, s, cr)
        OBVIOUS
    <3>12. q = Q(k)
      <4>. HIDE DEF Q
      <4>. QED  BY <3>7, <3>8, <3>10, <3>11
    <3>13. q.at > x.at
      <4>1. q.at = place[k]
          BY <1>1, <3>12 DEF In, Reader
      <4>. QED  BY <3>6, <4>1
    <3>14. Reaches(s, q)
      <4>1. ~(x.header /\ x.last = "startOfRecord" /\ cr = high)
          BY <3>3, <3>5
      <4>. QED  BY <1>c, <3>5, <3>6, <3>11, <3>13, <4>1, QuotedTurn
    <3>15. k \in 0..N
        OBVIOUS
    <3>. HIDE DEF Q
    <3>. QED  BY <3>12, <3>14, <3>15
  <2>. QED  BY <2>1, <2>2
<1>10. P = 0..N
  <2>1. P \in SUBSET (0..N)
      OBVIOUS
  <2>. HIDE DEF P
  <2>. QED  BY <1>2, <1>8, <1>9, <2>1, UpTo
\* The closing quote
<1>11. Reaches(s, Q(N))
  <2>1. N \in P /\ ~(N < N)
      BY <1>2, <1>10
  <2>. HIDE DEF Q
  <2>. QED  BY <2>1
<1>12. PICK x : x = Q(N)
    OBVIOUS
<1>13. /\ x \in Reader /\ x.at = place[N] /\ x.good /\ x.st = "reading" /\ x.quoted /\ x.at \in Nat
       /\ x = In(r, f, l[N], place[N])
  <2>1. SubSeq(f, 1, N) = f
      BY <1>1, <1>2, SubSeqFull
  <2>2. N \in 0..N
      BY <1>2
  <2>3. l[N] \in Lasts /\ place[N] \in Nat
      BY <1>4, <1>5, <2>2
  <2>4. x = In(r, f, l[N], place[N])
      BY <1>12, <2>1
  <2>5. PICK m \in Lasts, a \in Nat : m = l[N] /\ a = place[N]
      BY <2>3
  <2>6. x = In(r, f, m, a)
      BY <2>4, <2>5
  <2>7. x \in Reader /\ x.at = a /\ x.quoted /\ x.good = r.good /\ x.st = r.st
      BY <1>1, <2>6, InQuotes
  <2>. QED  BY <2>4, <2>5, <2>7 DEF Ready
<1>14. PICK b : b = [x EXCEPT !.quoted = FALSE, !.last = "endQuote", !.at = @ + 1]
    OBVIOUS
<1>15. b \in Reader /\ b.good /\ b.at = x.at + 1 /\ b = Has(r, f, "endQuote", place[N] + 1)
  <2>1. b \in Reader /\ b.good /\ b.at = x.at + 1
    <3>1. x.at + 1 \in Nat
        BY <1>13
    <3>. QED  BY <1>13, <1>14, <3>1 DEF Reader
  <2>2. b = Has(r, f, "endQuote", place[N] + 1)
      BY <1>1, <1>13, <1>14 DEF Has, In, Reader, Ready
  <2>. QED  BY <2>1, <2>2
<1>16. CharAt(s, x.at) = quote /\ CharAt(s, x.at + 1) # quote /\ x.at + 1 <= Len(s)
  <2>1. CharAt(s, x.at) = quote /\ CharAt(s, x.at + 1) \in Char \ {quote}
      BY <1>2, <1>13
  <2>2. CharAt(s, x.at + 1) # eof
      BY <2>1, EofIsNone
  <2>. QED  BY <1>13, <2>1, <2>2, CharOfText
<1>17. Looked(b, s, x.at + 1) = b
    BY <1>13, <1>15, <1>16, LookedAt
<1>18. quote # eof
    BY <1>c, EofIsNone
<1>19. Quoted(x, s, quote) = b
    BY <1>c, <1>14, <1>16, <1>17, <1>18 DEF Quoted
<1>20. b.at > x.at
    BY <1>13, <1>15
<1>21. Reaches(s, b)
    BY <1>c, <1>11, <1>12, <1>13, <1>16, <1>19, <1>20, QuotedTurn
<1>. QED  BY <1>2, <1>15, <1>21

-----------------------------------------------------------------------------
(* How it reads a field that the writer prints.                              *)

\* s goes on with d from the place a.
GoesOn(s, a, d) == \A i \in 1..Len(d) : CharAt(s, a + i - 1) = d[i]

\* The text of a character, its quote doubled
Twice(f) == [i \in DOMAIN f |-> IF f[i] = quote THEN <<quote, quote>> ELSE <<f[i]>>]

\* DoubleQuote() joins these.
LEMMA TwiceTexts ==
    ASSUME NEW f \in Cell
    PROVE  /\ Twice(f) \in Seq(Seq(Char)) /\ Len(Twice(f)) = Len(f) /\ DoubleQuote(f) = FlattenSeq(Twice(f))
           /\ \A i \in 1..Len(f) : /\ f[i] = quote => Twice(f)[i] = <<quote, quote>>
                                   /\ f[i] # quote => Twice(f)[i] = <<f[i]>>
<1>1. Len(f) \in Nat /\ DOMAIN f = 1..Len(f) /\ \A i \in 1..Len(f) : f[i] \in Char
    BY LenProperties, ElementOfSeq DEF Cell
<1>2. quote \in Char
    BY Characters
<1>3. <<quote, quote>> \in Seq(Char) /\ \A c \in Char : <<c>> \in Seq(Char)
  <2>1. PICK q \in Char : q = quote
      BY <1>2
  <2>2. <<q, q>> \in Seq(Char) /\ \A c \in Char : <<c>> \in Seq(Char)
      OBVIOUS
  <2>. QED  BY <2>1, <2>2
<1>4. Twice(f) \in [1..Len(f) -> Seq(Char)]
    BY <1>1, <1>3 DEF Twice
<1>5. Twice(f) \in Seq(Seq(Char)) /\ Len(Twice(f)) = Len(f)
    BY <1>1, <1>4
<1>6. DoubleQuote(f) = FlattenSeq(Twice(f))
    BY DEF DoubleQuote, Twice
<1>. QED  BY <1>1, <1>5, <1>6 DEF Twice

\* Where the characters of a field are, once its quotes are doubled.
LEMMA DoubledPlaces ==
    ASSUME NEW s \in Cell, NEW f \in Cell, NEW a \in Nat \ {0}, GoesOn(s, a, DoubleQuote(f))
    PROVE  \E place : Doubled(s, f, place) /\ place[0] = a /\ place[Len(f)] = a + Len(DoubleQuote(f))
<1>1. PICK N \in Nat : N = Len(f)
    BY LenProperties DEF Cell
<1>2. PICK ss \in Seq(Seq(Char)) :
         /\ Len(ss) = N /\ DoubleQuote(f) = FlattenSeq(ss)
         /\ \A i \in 1..N : /\ f[i] = quote => ss[i] = <<quote, quote>>
                            /\ f[i] # quote => ss[i] = <<f[i]>>
    BY <1>1, TwiceTexts
<1>3. PICK p \in [0..N -> Seq(Char)] : Joins(p, ss) /\ FlattenSeq(ss) = p[N]
    BY <1>2, Flattened
<1>4. PICK d \in Seq(Char) : d = p[N] /\ d = DoubleQuote(f)
    BY <1>1, <1>2, <1>3
<1>5. /\ p[0] = <<>> /\ \A i \in 1..N : p[i] = p[i - 1] \o ss[i]
      /\ \A i \in 0..N : p[i] \in Seq(Char) /\ Len(p[i]) \in Nat
      /\ \A i \in 1..N : ss[i] \in Seq(Char) /\ Len(ss[i]) \in Nat
  <2>1. \A i \in 0..N : p[i] \in Seq(Char) /\ Len(p[i]) \in Nat
      BY <1>3, LenProperties
  <2>2. \A i \in 1..N : ss[i] \in Seq(Char)
      BY <1>2, ElementOfSeq
  <2>3. \A i \in 1..N : Len(ss[i]) \in Nat
      BY <2>2, LenProperties
  <2>. QED  BY <1>2, <1>3, <2>1, <2>2, <2>3 DEF Joins
<1>6. \A i \in 1..N : /\ i - 1 \in 0..N /\ i \in 0..N
                      /\ Len(p[i]) = Len(p[i - 1]) + Len(ss[i])
                      /\ \A j \in 1..Len(p[i]) : p[i][j] = IF j <= Len(p[i - 1]) THEN p[i - 1][j]
                                                           ELSE ss[i][j - Len(p[i - 1])]
  <2>. SUFFICES ASSUME NEW i \in 1..N
                PROVE  /\ i - 1 \in 0..N /\ i \in 0..N
                       /\ Len(p[i]) = Len(p[i - 1]) + Len(ss[i])
                       /\ \A j \in 1..Len(p[i]) : p[i][j] = IF j <= Len(p[i - 1]) THEN p[i - 1][j]
                                                            ELSE ss[i][j - Len(p[i - 1])]
      OBVIOUS
  <2>1. i - 1 \in 0..N /\ i \in 0..N
      OBVIOUS
  <2>2. PICK x \in Seq(Char), y \in Seq(Char) : x = p[i - 1] /\ y = ss[i]
      BY <1>5, <2>1
  <2>3. PICK z : z = x \o y
      OBVIOUS
  <2>4. p[i] = z
      BY <1>5, <2>2, <2>3
  <2>5. PICK m \in Nat, n \in Nat : m = Len(x) /\ n = Len(y)
      BY LenProperties
  <2>6. Len(z) = m + n /\ \A j \in 1..(m + n) : z[j] = IF j <= m THEN x[j] ELSE y[j - m]
      BY <2>3, <2>5, ConcatProperties
  <2>. QED  BY <2>1, <2>2, <2>4, <2>5, <2>6
\* p[i] is what d begins with.
<1>. DEFINE Begins(i) == Len(p[i]) <= Len(d) /\ \A j \in 1..Len(p[i]) : p[i][j] = d[j]
            P == {k \in 0..N : Begins(N - k)}
<1>7. Len(d) \in Nat
    BY LenProperties
<1>8. 0 \in P
  <2>1. N - 0 = N /\ 0 \in 0..N
      OBVIOUS
  <2>2. Begins(N)
      BY <1>4, <1>7
  <2>. HIDE DEF Begins
  <2>. QED  BY <2>1, <2>2
<1>9. ASSUME NEW k \in 1..N, k - 1 \in P PROVE k \in P
  <2>1. PICK i \in 1..N : i = N - (k - 1) /\ i - 1 = N - k /\ k \in 0..N
    <3>1. N - (k - 1) \in 1..N /\ N - (k - 1) - 1 = N - k /\ k \in 0..N
        OBVIOUS
    <3>. QED  BY <3>1
  <2>2. Begins(i)
    <3>. HIDE DEF Begins
    <3>. QED  BY <1>9, <2>1
  <2>3. Begins(i - 1)
    <3>1. PICK m \in Nat, n \in Nat : m = Len(p[i - 1]) /\ n = Len(ss[i])
        BY <1>5, <1>6
    <3>2. Len(p[i]) = m + n
        BY <1>6, <3>1
    <3>3. ASSUME NEW j \in 1..m PROVE p[i - 1][j] = d[j]
      <4>1. j \in 1..(m + n) /\ j <= m
          OBVIOUS
      <4>2. p[i][j] = p[i - 1][j]
          BY <1>6, <3>1, <3>2, <4>1
      <4>. QED  BY <2>2, <3>2, <4>1, <4>2
    <3>4. m <= Len(d)
      <4>1. m + n <= Len(d)
          BY <2>2, <3>2
      <4>. QED  BY <1>7, <4>1
    <3>. QED  BY <3>1, <3>3, <3>4
  <2>. HIDE DEF Begins
  <2>. QED  BY <2>1, <2>3
<1>10. \A i \in 0..N : Begins(i)
  <2>1. P \in SUBSET (0..N)
      OBVIOUS
  <2>2. P = 0..N
    <3>. HIDE DEF P
    <3>. QED  BY <1>8, <1>9, <2>1, UpTo
  <2>3. ASSUME NEW i \in 0..N PROVE Begins(i)
    <3>1. N - i \in 0..N /\ N - (N - i) = i
        OBVIOUS
    <3>2. N - i \in P
        BY <2>2, <3>1
    <3>. HIDE DEF Begins
    <3>. QED  BY <3>1, <3>2
  <2>. HIDE DEF Begins
  <2>. QED  BY <2>3
<1>11. PICK place : place = [i \in 0..N |-> a + Len(p[i])]
    OBVIOUS
<1>12. /\ place \in [0..N -> Nat \ {0}] /\ place[0] = a /\ place[N] = a + Len(d)
       /\ \A i \in 0..N : place[i] = a + Len(p[i])
  <2>1. Len(p[0]) = 0 /\ a + 0 = a /\ 0 \in 0..N /\ N \in 0..N
      BY <1>5, EmptySeq
  <2>2. \A i \in 0..N : a + Len(p[i]) \in Nat \ {0}
      BY <1>5
  <2>. QED  BY <1>4, <1>11, <2>1, <2>2
\* Every character, and the second one of a quote
<1>13. ASSUME NEW i \in 1..N
       PROVE  /\ CharAt(s, place[i - 1]) = f[i]
              /\ place[i] = place[i - 1] + (IF f[i] = quote THEN 2 ELSE 1)
              /\ f[i] = quote => CharAt(s, place[i - 1] + 1) = quote
  <2>1. PICK m \in Nat : m = Len(p[i - 1]) /\ place[i - 1] = a + m
      BY <1>5, <1>6, <1>12
  <2>2. Len(ss[i]) = (IF f[i] = quote THEN 2 ELSE 1) /\ ss[i][1] = f[i] /\ (f[i] = quote => ss[i][2] = quote)
    <3>1. CASE f[i] = quote
      <4>1. ss[i] = <<quote, quote>>
          BY <1>2, <3>1
      <4>. QED  BY <3>1, <4>1
    <3>2. CASE f[i] # quote
      <4>1. ss[i] = <<f[i]>>
          BY <1>2, <3>2
      <4>. QED  BY <3>2, <4>1
    <3>. QED  BY <3>1, <3>2
  <2>3. PICK n \in Nat : n = Len(p[i]) /\ n = m + Len(ss[i]) /\ place[i] = a + n
      BY <1>5, <1>6, <1>12, <2>1
  <2>4. n <= Len(d) /\ \A j \in 1..n : p[i][j] = d[j]
    <3>1. Begins(i)
      <4>. HIDE DEF Begins
      <4>. QED  BY <1>6, <1>10
    <3>. QED  BY <2>3, <3>1
  <2>5. ASSUME NEW j \in 1..Len(ss[i]) PROVE CharAt(s, a + m + j - 1) = ss[i][j]
    <3>1. m + j \in 1..n /\ m + j \in 1..Len(d) /\ ~(m + j <= m) /\ m + j - m = j
      <4>1. PICK k \in Nat : k = Len(ss[i])
          BY <1>5
      <4>2. j \in Nat /\ j >= 1 /\ j <= k /\ n = m + k
          BY <2>3, <4>1
      <4>. QED  BY <1>7, <2>4, <4>2
    <3>2. p[i][m + j] = ss[i][j]
      <4>1. PICK e \in Nat : e = m + j
          BY <3>1
      <4>a. e \in 1..n /\ ~(e <= m) /\ e - m = j
          BY <3>1, <4>1
      <4>2. e \in 1..Len(p[i]) /\ ~(e <= Len(p[i - 1])) /\ e - Len(p[i - 1]) = j
          BY ONLY <2>1, <2>3, <4>a
      <4>3. p[i][e] = ss[i][e - Len(p[i - 1])]
          BY <1>6, <4>2
      <4>. QED  BY <4>1, <4>2, <4>3
    <3>3. CharAt(s, a + (m + j) - 1) = d[m + j]
        BY <1>4, <3>1 DEF GoesOn
    <3>4. a + (m + j) - 1 = a + m + j - 1
        BY <3>1
    <3>. QED  BY <2>4, <3>1, <3>2, <3>3, <3>4
  <2>6. 1 \in 1..Len(ss[i]) /\ (f[i] = quote => 2 \in 1..Len(ss[i])) /\ a + m + 1 - 1 = a + m /\ a + m + 2 - 1 = a + m + 1
      BY <2>2
  <2>7. CharAt(s, a + m) = ss[i][1]
      BY <2>5, <2>6
  <2>8. f[i] = quote => CharAt(s, a + m + 1) = ss[i][2]
      BY <2>5, <2>6
  <2>9. place[i] = place[i - 1] + (IF f[i] = quote THEN 2 ELSE 1)
    <3>1. a + n = a + m + Len(ss[i])
        BY <2>2, <2>3
    <3>. QED  BY <2>1, <2>2, <2>3, <3>1
  <2>. QED  BY <2>1, <2>2, <2>7, <2>8, <2>9
<1>14. Doubled(s, f, place)
    BY <1>1, <1>12, <1>13 DEF Doubled
<1>. QED  BY <1>1, <1>4, <1>12, <1>14

\* A field without quotes is what it is.
LEMMA NoneDoubled ==
    ASSUME NEW f \in Cell, \A i \in 1..Len(f) : f[i] # quote
    PROVE  DoubleQuote(f) = f
<1>1. PICK N \in Nat : N = Len(f)
    BY LenProperties DEF Cell
<1>2. PICK ss \in Seq(Seq(Char)) :
         /\ Len(ss) = N /\ DoubleQuote(f) = FlattenSeq(ss)
         /\ \A i \in 1..N : ss[i] = <<f[i]>>
    BY <1>1, TwiceTexts
<1>3. PICK p \in [0..N -> Seq(Char)] : Joins(p, ss) /\ FlattenSeq(ss) = p[N]
    BY <1>2, Flattened
<1>. DEFINE P == {k \in 0..N : p[k] = SubSeq(f, 1, k)}
<1>4. 0 \in P
  <2>1. SubSeq(f, 1, 0) = <<>>
      BY SubSeqEmpty
  <2>. QED  BY <1>3, <2>1 DEF Joins
<1>5. ASSUME NEW k \in 1..N, k - 1 \in P PROVE k \in P
  <2>1. PICK g \in Seq(Char), c \in Char : g = SubSeq(f, 1, k - 1) /\ c = f[k] /\ Append(g, c) = SubSeq(f, 1, k)
      BY <1>1, OneMore DEF Cell
  <2>2. p[k] = g \o <<c>>
    <3>1. p[k] = p[k - 1] \o ss[k]
        BY <1>2, <1>3 DEF Joins
    <3>2. ss[k] = <<c>>
        BY <1>2, <2>1
    <3>3. p[k - 1] = g
        BY <1>5, <2>1
    <3>. QED  BY <3>1, <3>2, <3>3
  <2>3. g \o <<c>> = Append(g, c)
      BY AppendIsConcat
  <2>4. k \in 0..N
      OBVIOUS
  <2>. QED  BY <2>1, <2>2, <2>3, <2>4
<1>6. P = 0..N
  <2>1. P \in SUBSET (0..N)
      OBVIOUS
  <2>. HIDE DEF P
  <2>. QED  BY <1>4, <1>5, <2>1, UpTo
<1>7. p[N] = SubSeq(f, 1, N)
  <2>1. N \in 0..N
      OBVIOUS
  <2>. QED  BY <1>6, <2>1
<1>8. SubSeq(f, 1, Len(f)) = f
    BY SubSeqFull DEF Cell
<1>. QED  BY <1>1, <1>2, <1>3, <1>7, <1>8

\* A text in quotes
LEMMA Surrounded ==
    ASSUME NEW d \in Cell, NEW p, p = <<quote>> \o d \o <<quote>>
    PROVE  /\ Len(p) = Len(d) + 2 /\ p[1] = quote /\ p[Len(d) + 2] = quote
           /\ \A i \in 1..Len(d) : p[i + 1] = d[i]
<1>1. PICK q \in Char : q = quote
    BY Characters
<1>2. PICK o \in Seq(Char) : o = <<q>> /\ Len(o) = 1 /\ o[1] = q
  <2>1. PICK o : o = <<q>>
      OBVIOUS
  <2>2. o \in Seq(Char) /\ Len(o) = 1 /\ o[1] = q
      BY <2>1
  <2>. QED  BY <2>1, <2>2
<1>3. PICK e \in Seq(Char) : e = d
    BY DEF Cell
<1>4. PICK n \in Nat : n = Len(e)
    BY LenProperties
<1>5. PICK x : x = o \o e
    OBVIOUS
<1>6. /\ x \in Seq(Char) /\ Len(x) = 1 + n
      /\ \A i \in 1..(1 + n) : x[i] = IF i <= 1 THEN o[i] ELSE e[i - 1]
    BY <1>2, <1>4, <1>5, ConcatProperties
<1>7. PICK y : y = x \o o
    OBVIOUS
<1>8. PICK m \in Nat : m = Len(x) /\ m = n + 1
    BY <1>6
<1>9. /\ Len(y) = m + 1
      /\ \A i \in 1..(m + 1) : y[i] = IF i <= m THEN x[i] ELSE o[i - m]
    BY <1>2, <1>6, <1>7, <1>8, ConcatProperties
<1>10. p = y
    BY <1>1, <1>2, <1>3, <1>5, <1>7
<1>11. Len(y) = n + 2 /\ y[1] = q /\ y[n + 2] = q
  <2>1. m + 1 = n + 2 /\ 1 \in 1..(m + 1) /\ n + 2 \in 1..(m + 1) /\ ~(n + 2 <= m) /\ n + 2 - m = 1 /\ 1 <= m /\ 1 \in 1..(1 + n)
      BY <1>8
  <2>. QED  BY <1>2, <1>6, <1>9, <2>1
<1>12. ASSUME NEW i \in 1..n PROVE y[i + 1] = e[i]
  <2>1. i + 1 \in 1..(m + 1) /\ i + 1 <= m /\ i + 1 \in 1..(1 + n) /\ ~(i + 1 <= 1) /\ i + 1 - 1 = i
      BY <1>8
  <2>. QED  BY <1>6, <1>9, <2>1
<1>. QED  BY <1>1, <1>3, <1>4, <1>10, <1>11, <1>12

\* A field that is printed in quotes
LEMMA SurroundedRead ==
    ASSUME NEW s \in Cell, NEW r, Reaches(s, r), Ready(r), NEW f \in Cell, NoMark(r, f),
           NEW p, p = <<quote>> \o DoubleQuote(f) \o <<quote>>, GoesOn(s, r.at, p), DoubleQuote(f) \in Cell,
           CharAt(s, r.at + Len(p)) \in Char \ {quote}
    PROVE  Reaches(s, Has(r, f, "endQuote", r.at + Len(p)))
<1>1. r.at \in Nat /\ r.at >= 1
    BY ReachedReading
<1>2. PICK d \in Cell : d = DoubleQuote(f)
    OBVIOUS
<1>3. PICK n \in Nat : n = Len(d)
    BY LenProperties DEF Cell
<1>4. /\ Len(p) = n + 2 /\ p[1] = quote /\ p[n + 2] = quote /\ \A i \in 1..n : p[i + 1] = d[i]
    BY <1>2, <1>3, Surrounded
<1>b. PICK b \in Nat : b = r.at /\ b >= 1
    BY <1>1
<1>5. PICK a \in Nat \ {0} : a = r.at + 1 /\ a = b + 1
    BY <1>b
<1>6. \A i \in 1..(n + 2) : CharAt(s, r.at + i - 1) = p[i]
    BY <1>4 DEF GoesOn
<1>7. CharAt(s, r.at) = quote
  <2>1. 1 \in 1..(n + 2) /\ r.at + 1 - 1 = r.at
      BY <1>1
  <2>. QED  BY <1>4, <1>6, <2>1
<1>8. GoesOn(s, a, d)
  <2>. SUFFICES ASSUME NEW i \in 1..n PROVE CharAt(s, a + i - 1) = d[i]
      BY <1>3 DEF GoesOn
  <2>1. i + 1 \in 1..(n + 2) /\ a + i - 1 = r.at + (i + 1) - 1
      BY <1>1, <1>5
  <2>. QED  BY <1>4, <1>6, <2>1
<1>9. CharAt(s, a + n) = quote
  <2>1. n + 2 \in 1..(n + 2) /\ a + n = b + (n + 2) - 1
      BY <1>5
  <2>. QED  BY <1>4, <1>6, <1>b, <2>1
<1>10. PICK place : Doubled(s, f, place) /\ place[0] = a /\ place[Len(f)] = a + n
  <2>1. s \in Cell /\ f \in Cell /\ a \in Nat \ {0} /\ GoesOn(s, a, DoubleQuote(f))
      BY <1>2, <1>8
  <2>2. \E place : Doubled(s, f, place) /\ place[0] = a /\ place[Len(f)] = a + Len(DoubleQuote(f))
      BY ONLY <2>1, DoubledPlaces
  <2>. QED  BY <1>2, <1>3, <2>2
<1>11. a + n + 1 = r.at + Len(p)
  <2>1. a + n + 1 = b + (n + 2)
      BY <1>5
  <2>. QED  BY <1>4, <1>b, <2>1
<1>12. CharAt(s, place[Len(f)]) = quote /\ CharAt(s, place[Len(f)] + 1) \in Char \ {quote} /\ place[0] = r.at + 1
    BY <1>5, <1>9, <1>10, <1>11
<1>13. Reaches(s, Has(r, f, "endQuote", place[Len(f)] + 1))
    BY <1>7, <1>10, <1>12, QuotedRead
<1>. QED  BY <1>10, <1>11, <1>13

\* The characters that end a field
Ends == {sep, cr, lf}

\* They are characters of their own.
LEMMA EndChars == Ends \subseteq Char /\ quote \notin Ends /\ eof \notin Ends /\ high \notin Ends
BY Characters, EofIsNone DEF Ends, sep, cr, lf, quote, high

\* Fields that are printed as they are, and read as they are
Unquoted(f) == ~HasAny(f, {cr, lf, sep}) /\ ~BeginsWith(f, quote)

\* With the field f in its hands, the reader comes to n.  It does not take it for none, unless
\* it is nothing and not quoted.
FieldHeld(s, r, f, n) == \E l \in Lasts : /\ Reaches(s, Has(r, f, l, n))
                                          /\ l = "startOfRecord" => f = <<>> /\ settings.quoting # "always" /\ r.last = l

\* A field that is printed is read, with or without quotes.  It is not taken for none,
\* unless it is nothing and not quoted.
LEMMA FieldRead ==
    ASSUME settings \in Settings, NEW s \in Cell, NEW r, Reaches(s, r), Ready(r), NEW f \in Cell, NoMark(r, f),
           settings.quoting = "never" => Unquoted(f),
           NEW p, p = ToPrint(f), GoesOn(s, r.at, p), CharAt(s, r.at + Len(p)) \in Ends
    PROVE  FieldHeld(s, r, f, r.at + Len(p))
<1>1. r.at \in Nat /\ r.at >= 1 /\ r \in Reader /\ Len(f) \in Nat /\ \A i \in 1..Len(f) : f[i] \in Char
    BY ReachedReading, LenProperties, ElementOfSeq DEF Cell
<1>2. p \in Cell /\ DoubleQuote(f) \in Cell /\ Len(p) \in Nat
    BY PrintedChars, LenProperties DEF Cell
<1>3. CharAt(s, r.at + Len(p)) \in Char \ {quote, eof}
    BY EndChars
<1>4. settings.quoting \in {"never", "always", "needed"}
    BY CsvAssumption
<1>5. ASSUME p = f, Unquoted(f), settings.quoting # "always"
      PROVE  FieldHeld(s, r, f, r.at + Len(p))
  <2>1. r.at + Len(f) <= Len(s) + 1
    <3>1. r.at + Len(f) \in Nat /\ r.at + Len(f) >= 1
        BY <1>1
    <3>2. r.at + Len(f) <= Len(s)
        BY <1>3, <1>5, <3>1, CharOfText
    <3>3. Len(s) \in Nat
        BY LenProperties DEF Cell
    <3>. QED  BY <3>1, <3>2, <3>3
  <2>2. \A i \in 1..Len(f) : /\ CharAt(s, r.at + i - 1) = f[i] /\ f[i] \notin {cr, lf, sep}
                             /\ i = 1 => f[i] # quote
    <3>1. DOMAIN f = 1..Len(f)
        BY LenProperties DEF Cell
    <3>2. \A i \in 1..Len(f) : f[i] \notin {cr, lf, sep}
        BY <1>5, <3>1 DEF Unquoted, HasAny
    <3>3. \A i \in 1..Len(f) : i = 1 => f[i] # quote
      <4>1. f = <<>> => Len(f) = 0
          BY EmptySeq
      <4>. QED  BY <1>5, <4>1 DEF Unquoted, BeginsWith
    <3>. QED  BY <1>5, <3>2, <3>3 DEF GoesOn
  <2>3. PICK l : l = IF f = <<>> THEN r.last ELSE "fieldData"
      OBVIOUS
  <2>4. Reaches(s, Has(r, f, l, r.at + Len(f)))
      BY <2>1, <2>2, <2>3, PlainRead
  <2>5. l \in Lasts
      BY <1>1, <2>3 DEF Lasts, Reader
  <2>6. l = "startOfRecord" => f = <<>> /\ r.last = l
      BY <2>3
  <2>. QED  BY <1>5, <2>4, <2>5, <2>6 DEF FieldHeld
<1>6. ASSUME p = <<quote>> \o DoubleQuote(f) \o <<quote>>
      PROVE  FieldHeld(s, r, f, r.at + Len(p))
  <2>1. Reaches(s, Has(r, f, "endQuote", r.at + Len(p)))
      BY <1>2, <1>3, <1>6, SurroundedRead
  <2>2. "endQuote" \in Lasts
      BY DEF Lasts
  <2>. QED  BY <2>1, <2>2 DEF FieldHeld
<1>7. PICK u : u = <<quote>> \o DoubleQuote(f) \o <<quote>>
    OBVIOUS
<1>8. p = CASE settings.quoting = "never"  -> f
            [] settings.quoting = "always" -> u
            [] settings.quoting = "needed" -> IF NeedsQuotes(f) THEN u ELSE DoubleQuote(f)
    BY <1>7 DEF ToPrint
<1>9. CASE settings.quoting = "never"
  <2>1. p = f
      BY <1>8, <1>9
  <2>. QED  BY <1>5, <1>9, <2>1
<1>10. CASE settings.quoting = "always" \/ (settings.quoting = "needed" /\ NeedsQuotes(f))
  <2>1. p = u
      BY <1>8, <1>10
  <2>. QED  BY <1>6, <1>7, <2>1
<1>11. CASE settings.quoting = "needed" /\ ~NeedsQuotes(f)
  <2>1. p = DoubleQuote(f)
      BY <1>8, <1>11
  <2>2. DOMAIN f = 1..Len(f)
      BY LenProperties DEF Cell
  <2>3. \A i \in 1..Len(f) : f[i] # quote /\ f[i] \notin {cr, lf, sep}
      BY <1>11, <2>2 DEF NeedsQuotes, HasAny
  <2>4. DoubleQuote(f) = f
      BY <2>3, NoneDoubled
  <2>5. Unquoted(f)
    <3>1. f # <<>> => 1 \in 1..Len(f)
        BY EmptySeq DEF Cell
    <3>. QED  BY <2>2, <2>3, <3>1 DEF Unquoted, HasAny, BeginsWith
  <2>. QED  BY <1>5, <1>11, <2>1, <2>4, <2>5
<1>. QED  BY <1>4, <1>9, <1>10, <1>11

-----------------------------------------------------------------------------
(* The rows it has read.                                                     *)

\* The table has the cells of these rows of W cells, and then those of b.
Holds(t, W, rows, b) ==
    /\ t.cols = W /\ Full(t, Len(rows) + (IF b = <<>> THEN 0 ELSE 1))
    /\ \A i \in 0..(Len(rows) - 1), c \in 0..(W - 1) : At(t, c, i) = rows[i + 1][c + 1]
    /\ \A c \in 0..(Len(b) - 1) : At(t, c, Len(rows)) = b[c + 1]

\* A cell more in the row that is begun
LEMMA HoldsCell ==
    ASSUME NEW rows \in Seq(Seq(Cell)), NEW b \in Seq(Cell), NEW t, NEW W, Holds(t, W, rows, b),
           NEW f \in Cell, Len(b) < W, W * (Len(rows) + 1) < Wide
    PROVE  Holds(Assign(t, Len(b), Len(rows), f), W, rows, Append(b, f))
<1>1. PICK n \in Nat, m \in Nat : n = Len(rows) /\ m = Len(b)
    BY LenProperties
<1>2. PICK R \in Nat : R = n + (IF b = <<>> THEN 0 ELSE 1)
    BY <1>1
<1>3. Full(t, R) /\ t.cols = W /\ W \in Nat \ {0}
    BY <1>1, <1>2, FullRows DEF Holds
<1>4. m \in 0..(t.cols - 1) /\ t.cols * (n + 1) < Wide
    BY <1>1, <1>3
<1>5. PICK u : u = Assign(t, m, n, f)
    OBVIOUS
<1>6. n + 1 = IF n < R THEN R ELSE n + 1
    BY <1>2
<1>7. /\ Full(u, n + 1) /\ u.cols = W
      /\ \A r \in 0..(n + 1 - 1), c \in 0..(W - 1) :
            At(u, c, r) = IF c = m /\ r = n THEN f ELSE IF r < R THEN At(t, c, r) ELSE <<>>
  <2>1. PICK Q \in Nat : Q = n + 1
      OBVIOUS
  <2>2. Q = IF n < R THEN R ELSE n + 1
      BY <1>6, <2>1
  <2>3. Full(t, R) /\ m \in 0..(t.cols - 1) /\ n \in Nat /\ R \in Nat /\ t.cols * (n + 1) < Wide /\ f \in Cell
      BY <1>3, <1>4
  <2>4. /\ Full(Assign(t, m, n, f), Q) /\ Assign(t, m, n, f).cols = t.cols
        /\ \A r \in 0..(Q - 1), c \in 0..(t.cols - 1) :
              At(Assign(t, m, n, f), c, r) = IF c = m /\ r = n THEN f ELSE IF r < R THEN At(t, c, r) ELSE <<>>
      BY ONLY <2>2, <2>3, Assigned
  <2>. QED  BY <1>3, <1>5, <2>1, <2>4
<1>d. PICK d : d = Append(b, f)
    OBVIOUS
<1>8. /\ d \in Seq(Cell) /\ d = Append(b, f) /\ d # <<>> /\ Len(d) = m + 1 /\ d[m + 1] = f
      /\ \A i \in 1..m : d[i] = b[i]
    BY <1>1, <1>d, AppendProperties
<1>9. ASSUME NEW i \in 0..(n - 1), NEW c \in 0..(W - 1) PROVE At(u, c, i) = rows[i + 1][c + 1]
  <2>1. i \in 0..(n + 1 - 1) /\ i # n /\ i < R
      BY <1>2
  <2>2. At(t, c, i) = rows[i + 1][c + 1]
      BY <1>1 DEF Holds
  <2>. QED  BY <1>7, <2>1, <2>2
<1>10. ASSUME NEW c \in 0..(m + 1 - 1) PROVE At(u, c, n) = d[c + 1]
  <2>1. n \in 0..(n + 1 - 1) /\ c \in 0..(W - 1)
      BY <1>3, <1>4
  <2>2. CASE c = m
      BY <1>7, <1>8, <2>1, <2>2
  <2>3. CASE c # m
    <3>1. c \in 0..(m - 1) /\ c + 1 \in 1..m /\ m # 0
        BY <2>3
    <3>2. b # <<>>
        BY <1>1, <3>1, EmptySeq
    <3>3. n < R
        BY <1>2, <3>2
    <3>4. At(t, c, n) = b[c + 1]
        BY <1>1, <3>1 DEF Holds
    <3>. QED  BY <1>7, <1>8, <2>1, <2>3, <3>1, <3>3, <3>4
  <2>. QED  BY <2>2, <2>3
<1>11. Full(u, Len(rows) + (IF d = <<>> THEN 0 ELSE 1))
    BY <1>1, <1>7, <1>8
<1>12. Holds(u, W, rows, d)
    BY <1>1, <1>7, <1>8, <1>9, <1>10, <1>11 DEF Holds
<1>. QED  BY <1>1, <1>5, <1>8, <1>12

\* The row that is begun becomes one of the rows.
LEMMA HoldsRow ==
    ASSUME NEW rows \in Seq(Seq(Cell)), NEW b \in Seq(Cell), NEW t, NEW W, Holds(t, W, rows, b),
           b # <<>>, Len(b) = W
    PROVE  Holds(t, W, Append(rows, b), <<>>)
<1>1. PICK n \in Nat : n = Len(rows)
    BY LenProperties
<1>d. PICK d : d = Append(rows, b)
    OBVIOUS
<1>2. /\ d \in Seq(Seq(Cell)) /\ d = Append(rows, b) /\ Len(d) = n + 1 /\ d[n + 1] = b
      /\ \A i \in 1..n : d[i] = rows[i]
    BY <1>1, <1>d, AppendProperties
<1>3. Full(t, n + 1) /\ n + 1 = Len(d) + 0
    BY <1>1, <1>2 DEF Holds
<1>4. ASSUME NEW i \in 0..(n + 1 - 1), NEW c \in 0..(W - 1) PROVE At(t, c, i) = d[i + 1][c + 1]
  <2>1. CASE i = n
      BY <1>1, <1>2, <2>1 DEF Holds
  <2>2. CASE i # n
    <3>1. i \in 0..(n - 1) /\ i + 1 \in 1..n
        BY <2>2
    <3>. QED  BY <1>1, <1>2, <3>1 DEF Holds
  <2>. QED  BY <2>1, <2>2
<1>5. Len(<<>>) = 0 /\ \A c \in 0..(0 - 1) : FALSE
    BY EmptySeq
<1>6. Full(t, Len(d) + (IF <<>> = <<>> THEN 0 ELSE 1))
    BY <1>3
<1>. QED  BY <1>2, <1>4, <1>5, <1>6 DEF Holds

\* The header makes a table of one row.
LEMMA HoldsHeader ==
    ASSUME NEW h \in Seq(Cell), h # <<>>, NEW t, t = [cols |-> Len(h), data |-> h]
    PROVE  Holds(t, Len(h), <<h>>, <<>>)
<1>1. PICK W \in Nat \ {0} : W = Len(h)
    BY EmptySeq
<1>2. t.cols = W /\ t.data = h /\ t \in Tables
    BY <1>1 DEF Tables
<1>3. Full(t, 1)
    BY <1>1, <1>2 DEF Full
<1>d. PICK d : d = <<h>>
    OBVIOUS
<1>4. d = <<h>> /\ Len(d) = 1 /\ d[1] = h
    BY <1>d
<1>5. ASSUME NEW i \in 0..(1 - 1), NEW c \in 0..(W - 1) PROVE At(t, c, i) = d[i + 1][c + 1]
  <2>1. i = 0
      OBVIOUS
  <2>2. i * t.cols + c + 1 = c + 1
      BY <1>2, <2>1
  <2>3. i + 1 = 1
      BY <2>1
  <2>. QED  BY <1>2, <1>4, <2>2, <2>3 DEF At
<1>6. Len(<<>>) = 0 /\ \A c \in 0..(0 - 1) : FALSE
    BY EmptySeq
<1>7. Full(t, Len(d) + (IF <<>> = <<>> THEN 0 ELSE 1))
    BY <1>3, <1>4
<1>. QED  BY <1>1, <1>2, <1>4, <1>5, <1>6, <1>7 DEF Holds

\* The reader has read these rows, and of the next one the fields b, and is before another field.
Before(r, rows, b) ==
    /\ Ready(r) /\ r.last = (IF b = <<>> THEN "startOfRecord" ELSE "separator")
    /\ r.row = Len(rows) /\ (r.header <=> rows = <<>>)
    /\ rows = <<>> => r.h = b
    /\ rows # <<>> => r.h = <<>> /\ r.col = Len(b) /\ Holds(r.t, Len(rows[1]), rows, b)

\* The reader with a field in its hands
LEMMA HasFields ==
    ASSUME NEW r, r \in Reader, NEW f, f \in Cell, NEW l, l \in Lasts, NEW a, a \in Nat, NEW x, x = Has(r, f, l, a)
    PROVE  /\ x \in Reader /\ x.f = f /\ x.at = a /\ x.last = l
           /\ \A k \in {"good", "st", "header", "quoted", "h", "col", "row", "t"} : x[k] = r[k]
<1>1. x \in Reader /\ x.f = f /\ x.at = a /\ x.last = l
    BY DEF Has, Reader, Lasts
<1>2. /\ x.good = r.good /\ x.st = r.st /\ x.header = r.header /\ x.quoted = r.quoted
      /\ x.h = r.h /\ x.col = r.col /\ x.row = r.row /\ x.t = r.t
    BY DEF Has, Reader
<1>. QED  BY <1>1, <1>2

-----------------------------------------------------------------------------
(* What ends a field, a row and the text.                                    *)

\* Where the reader is with a field in its hands: all there is to know of it.
LEMMA InHands ==
    ASSUME NEW s \in Cell, NEW rows \in Seq(Seq(Cell)), NEW b \in Seq(Cell), NEW r \in Reader, Before(r, rows, b),
           NEW f \in Cell, NEW l \in Lasts, NEW a \in Nat, NEW x, x = Has(r, f, l, a), Reaches(s, x)
    PROVE  /\ Reading(x) /\ x \in Reader /\ x.f = f /\ x.at = a /\ x.last = l /\ x.good /\ x.st = "reading" /\ ~x.quoted
           /\ x.row = Len(rows) /\ (x.header <=> rows = <<>>) /\ a >= 1
           /\ rows = <<>> => x.h = b
           /\ rows # <<>> => x.h = <<>> /\ x.col = Len(b) /\ Holds(x.t, Len(rows[1]), rows, b)
<1>1. Reading(x) /\ x.at >= 1
    BY ReachedReading DEF Reading
<1>2. /\ x \in Reader /\ x.f = f /\ x.at = a /\ x.last = l
      /\ x.good = r.good /\ x.st = r.st /\ x.header = r.header /\ x.quoted = r.quoted
      /\ x.h = r.h /\ x.col = r.col /\ x.row = r.row /\ x.t = r.t
    BY HasFields
<1>. QED  BY <1>1, <1>2 DEF Before, Ready

\* What a field in its hands becomes
LEMMA HandedOn ==
    ASSUME NEW x, Reading(x), NEW g, g = FieldReady(x)
    PROVE  /\ Reading(g) /\ g \in Reader /\ g.f = <<>>
           /\ g.at = x.at /\ g.good = x.good /\ g.st = x.st /\ g.header = x.header /\ g.quoted = x.quoted
           /\ g.last = x.last /\ g.col = x.col /\ g.row = x.row
           /\ x.header => g.h = Append(x.h, x.f)
           /\ ~x.header => g.h = x.h /\ g.t = Assign(x.t, x.col, x.row, x.f)
<1>1. g \in Reader /\ Reading(g)
    BY FieldIsReady DEF Reading
<1>. QED  BY <1>1, FieldIsReady

\* The reader comes to n, where the fields of b are read and the next one begins.
ComesTo(s, rows, b, n) == \E q : Reaches(s, q) /\ Before(q, rows, b) /\ q.at = n

\* A separator behind a field, if the row goes on
LEMMA SeparatorRead ==
    ASSUME NEW s \in Cell, NEW rows \in Seq(Seq(Cell)), NEW b \in Seq(Cell), NEW r \in Reader, Before(r, rows, b),
           NEW f \in Cell, NEW l \in Lasts, NEW a \in Nat, NEW x, x = Has(r, f, l, a), Reaches(s, x),
           CharAt(s, a) = sep,
           rows # <<>> => Len(b) + 1 < Len(rows[1]) /\ Len(rows[1]) * (Len(rows) + 1) < Wide
    PROVE  ComesTo(s, rows, Append(b, f), a + 1)
<1>1. /\ Reading(x) /\ x \in Reader /\ x.f = f /\ x.at = a /\ x.last = l /\ x.good /\ x.st = "reading" /\ ~x.quoted
      /\ x.row = Len(rows) /\ (x.header <=> rows = <<>>) /\ a >= 1
      /\ rows = <<>> => x.h = b
      /\ rows # <<>> => x.h = <<>> /\ x.col = Len(b) /\ Holds(x.t, Len(rows[1]), rows, b)
    BY InHands
<1>2. sep \in Char /\ sep # eof /\ sep \notin {cr, lf, quote, high} /\ Len(s) \in Nat
    BY Characters, EofIsNone, LenProperties DEF sep, cr, lf, quote, high, Cell
<1>3. a <= Len(s)
    BY <1>1, <1>2, CharOfText
<1>4. Looked(x, s, x.at) = x
    BY <1>1, <1>3, LookedAt
<1>5. ReadOne(x, s) = Separator(x)
    BY <1>1, <1>2, <1>4 DEF ReadOne
<1>6. PICK g : g = FieldReady(x)
    OBVIOUS
<1>7. /\ g \in Reader /\ g.f = <<>>
      /\ g.at = x.at /\ g.good = x.good /\ g.st = x.st /\ g.header = x.header /\ g.quoted = x.quoted
      /\ g.col = x.col /\ g.row = x.row
      /\ x.header => g.h = Append(x.h, x.f)
      /\ ~x.header => g.h = x.h /\ g.t = Assign(x.t, x.col, x.row, x.f)
  <2>1. Reading(x) /\ g = FieldReady(x)
      BY <1>1, <1>6
  <2>. QED  BY ONLY <2>1, HandedOn
<1>8. PICK d : d = [g EXCEPT !.last = "separator", !.at = @ + 1]
    OBVIOUS
<1>9. /\ d \in Reader /\ d.last = "separator" /\ d.at = a + 1 /\ d.f = <<>>
      /\ d.good /\ d.st = "reading" /\ ~d.quoted /\ d.header = x.header /\ d.row = Len(rows) /\ d.col = x.col
      /\ d.h = g.h /\ d.t = g.t
  <2>1. g.at + 1 \in Nat /\ g.at + 1 = a + 1
      BY <1>1, <1>7
  <2>. QED  BY <1>1, <1>7, <1>8, <2>1 DEF Reader
<1>10. PICK bf : bf = Append(b, f)
    OBVIOUS
<1>11. bf \in Seq(Cell) /\ bf # <<>> /\ Len(bf) = Len(b) + 1 /\ Len(b) \in Nat
    BY <1>10, AppendProperties, LenProperties
<1>12. ASSUME NEW q, ReadOne(x, s) = q, q.at = a + 1 PROVE Reaches(s, q)
  <2>1. q.at > x.at /\ x.at <= Len(s) + 1
      BY <1>1, <1>2, <1>3, <1>12
  <2>. QED  BY <1>1, <1>12, <2>1, ReachesOn
<1>13. CASE rows = <<>>
  <2>1. Separator(x) = d
      BY <1>1, <1>6, <1>8, <1>13 DEF Separator
  <2>2. Reaches(s, d)
      BY <1>5, <1>9, <1>12, <2>1
  <2>3. d.h = bf
      BY <1>1, <1>7, <1>9, <1>10, <1>13
  <2>4. Before(d, rows, bf)
      BY <1>1, <1>9, <1>11, <1>13, <2>3 DEF Before, Ready
  <2>. QED  BY <1>9, <1>10, <2>2, <2>4 DEF ComesTo
<1>14. CASE rows # <<>>
  <2>1. PICK W : W = Len(rows[1])
      OBVIOUS
  <2>2. Holds(x.t, W, rows, b) /\ x.t.cols = W /\ W \in Nat
      BY <1>1, <1>14, <2>1 DEF Holds, Reader, Tables
  <2>3. PICK m \in Nat : m = Len(b)
      BY <1>11
  <2>4. ~x.header /\ x.col = m /\ m + 1 < W
      BY <1>1, <1>14, <2>1, <2>3
  <2>5. ~(x.col >= x.t.cols - 1)
      BY <2>2, <2>4
  <2>6. PICK q : q = [d EXCEPT !.col = @ + 1]
      OBVIOUS
  <2>7. Separator(x) = q
      BY <1>6, <1>8, <2>4, <2>5, <2>6 DEF Separator
  <2>8. /\ q.last = "separator" /\ q.at = a + 1 /\ q.f = <<>>
        /\ q.good /\ q.st = "reading" /\ ~q.quoted /\ q.header = x.header /\ q.row = Len(rows) /\ q.col = m + 1
        /\ q.h = <<>> /\ q.t = Assign(x.t, Len(b), Len(rows), f)
    <3>1. q.last = d.last /\ q.at = d.at /\ q.f = d.f /\ q.good = d.good /\ q.st = d.st /\ q.quoted = d.quoted
          /\ q.header = d.header /\ q.row = d.row /\ q.col = d.col + 1 /\ q.h = d.h /\ q.t = d.t
        BY <1>9, <2>6 DEF Reader
    <3>2. g.h = x.h /\ g.t = Assign(x.t, x.col, x.row, x.f) /\ x.h = <<>>
        BY <1>1, <1>7, <1>14
    <3>. QED  BY <1>1, <1>9, <1>14, <2>3, <2>4, <3>1, <3>2
  <2>9. Holds(q.t, W, rows, bf)
    <3>0. Len(b) < W
        BY <2>2, <2>3, <2>4
    <3>1. Len(b) < W /\ W * (Len(rows) + 1) < Wide
        BY <1>14, <2>1, <3>0
    <3>. QED  BY <1>10, <2>2, <2>8, <3>1, HoldsCell
  <2>10. Reaches(s, q)
      BY <1>5, <1>12, <2>7, <2>8
  <2>11. Before(q, rows, bf)
      BY <1>1, <1>11, <1>14, <2>1, <2>3, <2>8, <2>9 DEF Before, Ready
  <2>. QED  BY <1>10, <2>8, <2>10, <2>11 DEF ComesTo
<1>. QED  BY <1>13, <1>14

\* A line end of n characters is at a.
LineEndsAt(s, a, n) == \/ CharAt(s, a) = lf /\ n = 1
                       \/ CharAt(s, a) = cr /\ CharAt(s, a + 1) = lf /\ n = 2

\* A row that is not beyond the cells there are is not the last that has a number.
LEMMA BelowLast ==
    ASSUME NEW k \in Nat, NEW m \in Nat, NEW z \in Nat, NEW w \in Nat, k + 1 = m, m <= z, z < w
    PROVE  k # w - 1
    BY SMT

\* A line end behind the last field of a row
LEMMA LineEndRead ==
    ASSUME NEW s \in Cell, NEW rows \in Seq(Seq(Cell)), NEW b \in Seq(Cell), NEW r \in Reader, Before(r, rows, b),
           NEW f \in Cell, NEW l \in Lasts, l # "startOfRecord", NEW a \in Nat, NEW x, x = Has(r, f, l, a), Reaches(s, x),
           NEW n, LineEndsAt(s, a, n), rows = <<>> => Len(b) + 1 < MaxColumns,
           rows # <<>> => Len(b) + 1 = Len(rows[1]) /\ Len(rows[1]) * (Len(rows) + 1) < Wide
    PROVE  ComesTo(s, Append(rows, Append(b, f)), <<>>, a + n)
<1>1. /\ Reading(x) /\ x \in Reader /\ x.f = f /\ x.at = a /\ x.last = l /\ x.good /\ x.st = "reading" /\ ~x.quoted
      /\ x.row = Len(rows) /\ (x.header <=> rows = <<>>) /\ a >= 1
      /\ rows = <<>> => x.h = b
      /\ rows # <<>> => x.h = <<>> /\ x.col = Len(b) /\ Holds(x.t, Len(rows[1]), rows, b)
    BY InHands
<1>c. /\ cr \in Char /\ lf \in Char /\ cr # eof /\ lf # eof /\ cr # lf
      /\ {cr, lf} \cap {high, quote, sep} = {}
      /\ Len(s) \in Nat /\ a + 1 \in Nat
  <2>1. cr \in Char /\ lf \in Char /\ cr # eof /\ lf # eof
      BY Characters, EofIsNone
  <2>2. cr # lf /\ {cr, lf} \cap {high, quote, sep} = {}
      BY DEF cr, lf, high, quote, sep
  <2>3. Len(s) \in Nat
      BY LenProperties DEF Cell
  <2>. QED  BY <2>1, <2>2, <2>3
<1>2. PICK c \in {cr, lf} : c = CharAt(s, a)
    BY DEF LineEndsAt
<1>3. n \in {1, 2} /\ n = (IF c = cr /\ CharAt(s, a + 1) = lf THEN 2 ELSE 1) /\ (c = cr => CharAt(s, a + 1) = lf)
    BY <1>c, <1>2 DEF LineEndsAt
<1>4. a <= Len(s)
    BY <1>1, <1>c, <1>2, CharOfText
<1>5. Looked(x, s, x.at) = x
    BY <1>1, <1>4, LookedAt
<1>6. ReadOne(x, s) = EndOfRecord(x, s, c)
  <2>1. CharAt(s, x.at) = c /\ c \in {cr, lf, eof} /\ c # high /\ c # quote /\ c # sep
      BY <1>1, <1>c, <1>2
  <2>. QED  BY <1>1, <1>5, <2>1 DEF ReadOne
<1>7. (IF c = cr THEN Looked(x, s, x.at + 1) ELSE x) = x
  <2>1. CASE c = cr
    <3>1. a + 1 <= Len(s)
        BY <1>1, <1>c, <1>3, <2>1, CharOfText
    <3>. QED  BY <1>1, <1>c, <3>1, LookedAt
  <2>. QED  BY <2>1
<1>8. PICK y : y = [x EXCEPT !.at = @ + n]
    OBVIOUS
<1>9. /\ y \in Reader /\ y.at = a + n /\ y.f = f /\ y.last = l /\ y.good /\ y.st = "reading" /\ ~y.quoted
      /\ y.row = Len(rows) /\ y.header = x.header /\ y.h = x.h /\ y.col = x.col /\ y.t = x.t
  <2>1. x.at + n \in Nat /\ x.at + n = a + n
      BY <1>1, <1>3
  <2>. QED  BY <1>1, <1>8, <2>1 DEF Reader
<1>10. Reading(y)
  <2>1. y.at >= x.at
      BY <1>1, <1>3, <1>9
  <2>. QED  BY <1>1, <1>9, <2>1, ReadingOn
<1>11. PICK g : g = FieldReady(y)
    OBVIOUS
<1>12. /\ g \in Reader /\ g.f = <<>>
       /\ g.at = y.at /\ g.good = y.good /\ g.st = y.st /\ g.header = y.header /\ g.quoted = y.quoted
       /\ g.col = y.col /\ g.row = y.row
       /\ y.header => g.h = Append(y.h, y.f)
       /\ ~y.header => g.h = y.h /\ g.t = Assign(y.t, y.col, y.row, y.f)
  <2>1. Reading(y) /\ g = FieldReady(y)
      BY <1>10, <1>11
  <2>. QED  BY ONLY <2>1, HandedOn
<1>13. PICK t : t = IF x.header THEN [cols |-> Len(g.h), data |-> g.h] ELSE g.t
    OBVIOUS
<1>14. PICK q : q = [g EXCEPT !.t = t, !.h = <<>>, !.header = FALSE, !.row = @ + 1, !.col = 0, !.last = "startOfRecord"]
    OBVIOUS
<1>15. ReadOne(x, s) = q
  <2>1. x.last # "startOfRecord"
      BY <1>1
  <2>f. ~TooMany(x, g)
    <3>1. CASE rows = <<>>
      <4>1. x.header /\ g.h = Append(b, f) /\ Len(Append(b, f)) = Len(b) + 1 /\ Len(b) \in Nat
          BY <1>1, <1>9, <1>12, <3>1, AppendProperties, LenProperties
      <4>. QED  BY <3>1, <4>1, ReadCSVAssumption DEF TooMany
    <3>2. CASE rows # <<>>
      <4>1. PICK W \in Nat \ {0}, m \in Nat : W = Len(rows[1]) /\ m = Len(rows) + 1 /\ x.row + 1 = m
        <5>1. Len(b) \in Nat /\ Len(rows) \in Nat
            BY LenProperties
        <5>. QED  BY <1>1, <3>2, <5>1
      <4>2. m <= W * m /\ W * m \in Nat
        <5>1. W \in Nat /\ W # 0 /\ m \in Nat /\ m <= m
            BY <4>1
        <5>. QED  BY ONLY <5>1, Grows
      <4>3. W * m < Wide
        <5>1. Len(rows[1]) * (Len(rows) + 1) < Wide
            BY <3>2
        <5>2. Len(rows[1]) = W /\ Len(rows) + 1 = m
            BY <1>1, <4>1
        <5>. QED  BY ONLY <5>1, <5>2
      <4>4. x.row # Wide - 1
        <5>1. PICK z \in Nat : z = W * m
            BY <4>2
        <5>2. m <= z /\ z < Wide
            BY <4>2, <4>3, <5>1
        <5>3. m \in Nat /\ x.row + 1 = m /\ x.row \in Nat /\ Wide \in Nat
            BY <1>1, <4>1, TableAssumption DEF Reader
        <5>. QED  BY ONLY <5>2, <5>3, BelowLast
      <4>. QED  BY <1>1, <3>2, <4>4 DEF TooMany
    <3>. QED  BY <3>1, <3>2
  <2>2. [g EXCEPT !.t = IF x.header THEN [cols |-> Len(g.h), data |-> g.h] ELSE @, !.h = <<>>, !.header = FALSE,
                  !.row = @ + 1, !.col = 0, !.last = "startOfRecord"] = q
      BY <1>12, <1>13, <1>14 DEF Reader
  <2>3. EndOfRecord(x, s, c) =
           [g EXCEPT !.t = IF x.header THEN [cols |-> Len(g.h), data |-> g.h] ELSE @, !.h = <<>>, !.header = FALSE,
                     !.row = @ + 1, !.col = 0, !.last = "startOfRecord"]
    <3>1. n = IF c = cr /\ CharAt(s, x.at + 1) = lf THEN 2 ELSE 1
        BY <1>1, <1>3
    <3>. QED  BY <1>7, <1>8, <1>11, <2>1, <2>f, <3>1 DEF EndOfRecord
  <2>. QED  BY <1>6, <2>2, <2>3
<1>16. /\ q.at = a + n /\ q.f = <<>> /\ q.good /\ q.st = "reading" /\ ~q.quoted /\ q.last = "startOfRecord"
       /\ q.row = Len(rows) + 1 /\ ~q.header /\ q.h = <<>> /\ q.col = 0 /\ q.t = t
  <2>1. q.at = g.at /\ q.f = g.f /\ q.good = g.good /\ q.st = g.st /\ q.quoted = g.quoted /\ q.last = "startOfRecord"
        /\ q.row = g.row + 1 /\ ~q.header /\ q.h = <<>> /\ q.col = 0 /\ q.t = t
      BY <1>12, <1>14 DEF Reader
  <2>. QED  BY <1>9, <1>12, <2>1
<1>17. Reaches(s, q)
  <2>1. q.at > x.at /\ x.at <= Len(s) + 1
      BY <1>1, <1>c, <1>3, <1>4, <1>16
  <2>. QED  BY <1>1, <1>15, <2>1, ReachesOn
<1>18. PICK d : d = Append(b, f)
    OBVIOUS
<1>19. d \in Seq(Cell) /\ d # <<>> /\ Len(d) = Len(b) + 1 /\ Len(b) \in Nat
    BY <1>18, AppendProperties, LenProperties
<1>20. PICK w : w = Append(rows, d)
    OBVIOUS
<1>21. /\ w \in Seq(Seq(Cell)) /\ w # <<>> /\ Len(w) = Len(rows) + 1 /\ Len(rows) \in Nat
       /\ \A i \in 1..Len(rows) : w[i] = rows[i]
    BY <1>19, <1>20, AppendProperties, LenProperties
<1>22. Holds(t, Len(w[1]), w, <<>>)
  <2>1. CASE rows = <<>>
    <3>1. t = [cols |-> Len(d), data |-> d]
        BY <1>1, <1>9, <1>12, <1>13, <1>18, <2>1
    <3>2. w = <<d>> /\ w[1] = d
        BY <1>20, <2>1
    <3>. QED  BY <1>19, <3>1, <3>2, HoldsHeader
  <2>2. CASE rows # <<>>
    <3>1. PICK W : W = Len(rows[1])
        OBVIOUS
    <3>2. Holds(x.t, W, rows, b) /\ x.t.cols = W /\ W \in Nat
        BY <1>1, <2>2, <3>1 DEF Holds, Reader, Tables
    <3>3. t = Assign(x.t, Len(b), Len(rows), f)
        BY <1>1, <1>9, <1>12, <1>13, <2>2
    <3>4. Len(b) + 1 = W /\ W * (Len(rows) + 1) < Wide
        BY <2>2, <3>1
    <3>5. Len(b) < W
        BY <1>19, <3>4
    <3>6. Holds(t, W, rows, d)
        BY <1>18, <3>2, <3>3, <3>4, <3>5, HoldsCell
    <3>7. Len(d) = W
        BY <1>19, <3>4
    <3>8. Holds(t, W, w, <<>>)
        BY <1>19, <1>20, <3>6, <3>7, HoldsRow
    <3>9. w[1] = rows[1]
      <4>1. 1 \in 1..Len(rows)
          BY <2>2, EmptySeq
      <4>. QED  BY <1>21, <4>1
    <3>. QED  BY <3>1, <3>8, <3>9
  <2>. QED  BY <2>1, <2>2
<1>23. Len(<<>>) = 0
    OBVIOUS
<1>24. Before(q, w, <<>>)
    BY <1>16, <1>21, <1>22, <1>23 DEF Before, Ready
<1>. QED  BY <1>16, <1>17, <1>18, <1>20, <1>24 DEF ComesTo

\* The rows of a table that holds these rows and no others
LEMMA RowsHeld ==
    ASSUME NEW rows \in Seq(Seq(Cell)), NEW t, NEW W, Holds(t, W, rows, <<>>), \A i \in 1..Len(rows) : Len(rows[i]) = W
    PROVE  RowsOf(t) = rows
<1>1. PICK n \in Nat : n = Len(rows)
    BY LenProperties
<1>2. Full(t, n)
    BY <1>1 DEF Holds
<1>3. NumRows(t) = n /\ t.cols = W /\ W \in Nat \ {0} /\ t.data \in Seq(Cell) /\ Len(t.data) = W * n
    BY <1>2, FullRows DEF Holds, Full
<1>4. \A i \in 1..n : rows[i] \in Seq(Cell) /\ Len(rows[i]) = W
    BY <1>1, ElementOfSeq
<1>5. ASSUME NEW i \in 1..n PROVE SubSeq(t.data, (i - 1) * t.cols + 1, i * t.cols) = rows[i]
  <2>1. PICK z \in Nat : z = (i - 1) * W /\ i * W = z + W
    <3>1. (i - 1) * W \in Nat
        BY <1>3
    <3>2. i * W = (i - 1) * W + W
        BY <1>3
    <3>. QED  BY <3>1, <3>2
  <2>2. PICK v : v = SubSeq(t.data, z + 1, z + W)
      OBVIOUS
  <2>3. v = SubSeq(t.data, (i - 1) * t.cols + 1, i * t.cols)
      BY <1>3, <2>1, <2>2
  <2>4. ASSUME NEW j \in 1..W PROVE z + j \in 1..Len(t.data) /\ t.data[z + j] = rows[i][j]
    <3>1. i - 1 \in 0..(n - 1) /\ j - 1 \in 0..(W - 1) /\ i - 1 + 1 = i /\ j - 1 + 1 = j
        BY <1>3
    <3>2. (i - 1) * W + (j - 1) + 1 \in 1..(W * n)
        BY <1>3, <3>1, Place
    <3>3. (i - 1) * W + (j - 1) + 1 = z + j
        BY <2>1
    <3>4. At(t, j - 1, i - 1) = rows[i][j]
      <4>1. At(t, j - 1, i - 1) = rows[i - 1 + 1][j - 1 + 1]
          BY <1>1, <3>1 DEF Holds
      <4>. QED  BY <3>1, <4>1
    <3>5. At(t, j - 1, i - 1) = t.data[z + j]
        BY <1>3, <3>3 DEF At
    <3>. QED  BY <1>3, <3>2, <3>3, <3>4, <3>5
  <2>5. \A k \in (z + 1)..(z + W) : t.data[k] \in Cell
    <3>. SUFFICES ASSUME NEW k \in (z + 1)..(z + W) PROVE t.data[k] \in Cell
        OBVIOUS
    <3>1. PICK j \in 1..W : k = z + j
      <4>1. k - z \in 1..W /\ k = z + (k - z)
          BY <1>3
      <4>. QED  BY <4>1
    <3>. QED  BY <1>3, <2>4, <3>1, ElementOfSeq
  <2>6. v \in Seq(Cell) /\ Len(v) = W /\ \A j \in 1..W : v[j] = t.data[z + j]
    <3>1. z + 1 \in Int /\ z + W \in Int /\ z + W - (z + 1) + 1 = W /\ z + 1 <= z + W
          /\ \A j \in 1..W : z + 1 + j - 1 = z + j
        BY <1>3
    <3>2. PICK e \in Int, k \in Int, u \in Seq(Cell) : e = z + 1 /\ k = z + W /\ u = t.data
        BY <1>3, <3>1
    <3>3. v = SubSeq(u, e, k) /\ \A j \in e..k : u[j] \in Cell
        BY <2>2, <2>5, <3>2
    <3>4. /\ SubSeq(u, e, k) \in Seq(Cell)
          /\ Len(SubSeq(u, e, k)) = IF e <= k THEN k - e + 1 ELSE 0
          /\ \A j \in 1..(k - e + 1) : SubSeq(u, e, k)[j] = u[e + j - 1]
        BY ONLY <3>2, <3>3, SubSeqProperties
    <3>5. k - e + 1 = W /\ e <= k /\ \A j \in 1..W : e + j - 1 = z + j
      <4>1. e = z + 1 /\ k = z + W /\ W \in Nat \ {0} /\ z \in Nat
          BY <1>3, <3>2
      <4>. QED  BY ONLY <4>1
    <3>. QED  BY <3>2, <3>3, <3>4, <3>5
  <2>7. \A j \in 1..Len(v) : v[j] = rows[i][j]
      BY <2>4, <2>6
  <2>8. v = rows[i]
      BY <1>4, <2>6, <2>7, SeqEqual
  <2>. QED  BY <2>3, <2>8
<1>6. RowsOf(t) = [i \in 1..n |-> rows[i]]
    BY <1>3, <1>5 DEF RowsOf
<1>7. rows = [i \in 1..n |-> rows[i]]
    BY <1>1, LenProperties
<1>. QED  BY <1>6, <1>7

\* The end of the stream behind the last row
LEMMA EndReached ==
    ASSUME NEW rows \in Seq(Seq(Cell)), rows # <<>>, NEW s \in Cell, NEW r, Reaches(s, r), Before(r, rows, <<>>),
           r.at = Len(s) + 1
    PROVE  ~readCSV(s).thrown /\ readCSV(s).t = r.t
<1>1. r \in Reader /\ r.at \in Nat /\ r.at >= 1 /\ Len(s) \in Nat
    BY ReachedReading
<1>2. r.good /\ r.st = "reading" /\ ~r.quoted /\ r.last = "startOfRecord" /\ ~r.header
    BY DEF Before, Ready
<1>3. PICK n \in Nat : n = Len(s) /\ r.at = n + 1
    BY <1>1
<1>4. CharAt(s, n + 1) = eof /\ CharAt(s, n + 2) = eof
    BY <1>3 DEF CharAt
<1>5. PICK x : x = Looked(r, s, r.at)
    OBVIOUS
<1>6. x = [r EXCEPT !.good = FALSE]
  <2>1. (r.good /\ r.at <= Len(s)) = FALSE
      BY <1>3
  <2>. QED  BY <1>5, <2>1 DEF Looked
<1>7. x \in Reader /\ x.at = n + 1 /\ x.st = "reading" /\ x.t = r.t /\ ~x.good /\ x.last = "startOfRecord"
    BY <1>1, <1>2, <1>3, <1>6 DEF Reader
<1>8. eof \notin {cr, lf, high, quote, sep}
    BY DEF eof, cr, lf, high, quote, sep
<1>9. ReadOne(r, s) = EndOfRecord(x, s, eof)
  <2>1. CharAt(s, r.at) = eof /\ eof \in {cr, lf, eof} /\ eof # high /\ eof # quote /\ eof # sep
      BY <1>3, <1>4, <1>8
  <2>. QED  BY <1>2, <1>5, <2>1 DEF ReadOne
<1>10. PICK q : q = [x EXCEPT !.at = n + 2, !.st = "returned"]
    OBVIOUS
<1>11. q.at = n + 2 /\ q.st = "returned" /\ q.t = r.t /\ ~q.good
    BY <1>7, <1>10 DEF Reader
<1>12. EndOfRecord(x, s, eof) = q
  <2>1. PICK y : y = [x EXCEPT !.at = @ + 1]
      OBVIOUS
  <2>2. y.at = n + 2 /\ y = [x EXCEPT !.at = n + 2]
    <3>1. x.at + 1 = n + 2
        BY <1>7
    <3>. QED  BY <1>7, <2>1, <3>1 DEF Reader
  <2>3. EndOfRecord(x, s, eof) = [y EXCEPT !.st = IF CharAt(s, y.at) = eof THEN "returned" ELSE "thrown"]
      BY <1>7, <1>8, <2>1 DEF EndOfRecord
  <2>4. [y EXCEPT !.st = "returned"] = q
      BY <1>7, <1>10, <2>2 DEF Reader
  <2>. QED  BY <1>4, <2>2, <2>3, <2>4
<1>13. Reaches(s, q)
  <2>1. q.at > r.at /\ r.at <= Len(s) + 1
      BY <1>3, <1>11
  <2>. QED  BY <1>2, <1>9, <1>12, <2>1, ReachesOn
<1>14. After(s)[Len(s) + 1] = q
    BY <1>11, <1>13, Stopped
<1>. QED  BY <1>11, <1>14 DEF readCSV

-----------------------------------------------------------------------------
(* The reader comes to where the writer is, whatever is written then.        *)

\* At n comes x, if anything.
Follows(s, n, x) == x # <<>> => CharAt(s, n) = x[1]

\* Three texts one after another
LEMMA TextParts ==
    ASSUME NEW o \in Cell, NEW p \in Cell, NEW x \in Cell, NEW s, s = o \o (p \o x)
    PROVE  /\ s \in Cell /\ o \o p \in Cell /\ (o \o p) \o x = s /\ p \o x \in Cell
           /\ Len(o) \in Nat /\ Len(p) \in Nat /\ Len(o \o p) = Len(o) + Len(p)
           /\ GoesOn(s, Len(o) + 1, p)
           /\ Follows(s, Len(o) + 1 + Len(p), x)
<1>1. o \in Seq(Char) /\ p \in Seq(Char) /\ x \in Seq(Char)
    BY DEF Cell
<1>2. PICK n \in Nat, m \in Nat, k \in Nat : n = Len(o) /\ m = Len(p) /\ k = Len(x)
    BY <1>1, LenProperties
<1>3. PICK y : y = p \o x
    OBVIOUS
<1>4. /\ y \in Seq(Char) /\ Len(y) = m + k
      /\ \A i \in 1..(m + k) : y[i] = IF i <= m THEN p[i] ELSE x[i - m]
    BY <1>1, <1>2, <1>3, ConcatProperties
<1>5. PICK h \in Nat : h = m + k
    OBVIOUS
<1>6. /\ s \in Seq(Char) /\ Len(s) = n + h
      /\ \A i \in 1..(n + h) : s[i] = IF i <= n THEN o[i] ELSE y[i - n]
  <2>1. o \in Seq(Char) /\ y \in Seq(Char) /\ s = o \o y /\ Len(o) = n /\ Len(y) = h
      BY <1>1, <1>2, <1>3, <1>4, <1>5
  <2>2. /\ o \o y \in Seq(Char) /\ Len(o \o y) = Len(o) + Len(y)
        /\ \A i \in 1..(Len(o) + Len(y)) : (o \o y)[i] = IF i <= Len(o) THEN o[i] ELSE y[i - Len(o)]
      BY ONLY <2>1, ConcatProperties
  <2>. QED  BY ONLY <2>1, <2>2
<1>7. ASSUME NEW i \in 1..m PROVE CharAt(s, n + 1 + i - 1) = p[i]
  <2>1. PICK j \in Nat : j = n + i
      OBVIOUS
  <2>2. n + 1 + i - 1 = j /\ j \in 1..(n + h) /\ ~(j <= n) /\ j - n = i /\ i \in 1..(m + k) /\ j <= n + h
      BY <1>5, <2>1
  <2>3. s[j] = y[i]
      BY <1>6, <2>2
  <2>4. y[i] = p[i]
      BY <1>4, <2>2
  <2>5. CharAt(s, j) = s[j]
      BY <1>6, <2>2 DEF CharAt
  <2>. QED  BY <2>2, <2>3, <2>4, <2>5
<1>8. ASSUME x # <<>> PROVE CharAt(s, n + 1 + m) = x[1]
  <2>1. k >= 1
      BY <1>1, <1>2, <1>8, EmptySeq
  <2>2. PICK j \in Nat, e \in Nat : j = n + 1 + m /\ e = m + 1
      OBVIOUS
  <2>3. j \in 1..(n + h) /\ ~(j <= n) /\ j - n = e /\ j <= n + h
        /\ e \in 1..(m + k) /\ ~(e <= m) /\ e - m = 1
      BY <1>5, <2>1, <2>2
  <2>4. s[j] = y[e]
      BY <1>6, <2>3
  <2>5. y[e] = x[1]
      BY <1>4, <2>3
  <2>6. CharAt(s, j) = s[j]
      BY <1>6, <2>3 DEF CharAt
  <2>. QED  BY <2>2, <2>4, <2>5, <2>6
<1>9. o \o p \in Seq(Char) /\ Len(o \o p) = n + m
    BY <1>1, <1>2, ConcatProperties
<1>10. (o \o p) \o x = s
    BY <1>1, ConcatAssociative
<1>11. GoesOn(s, Len(o) + 1, p)
    BY <1>2, <1>7 DEF GoesOn
<1>12. Follows(s, Len(o) + 1 + Len(p), x)
    BY <1>2, <1>8 DEF Follows
<1>. QED  BY <1>2, <1>3, <1>4, <1>6, <1>9, <1>10, <1>11, <1>12 DEF Cell

\* Rows that readCSV() reads as they are written, with fields quoted as k says; in
\* the row that is begun, there may be more to come.
LegibleRow(k, row) == /\ row # <<>> /\ (k # "always" => row # <<<<>>>>)
                      /\ k = "never" => \A j \in DOMAIN row : ~BeginsWith(row[j], quote)
Readable(k, w) ==
    /\ \A i \in DOMAIN w.rows : LegibleRow(k, w.rows[i])
    /\ k = "never" => \A j \in DOMAIN w.begun : ~BeginsWith(w.begun[j], quote)
    /\ w.rows # <<>> => ~BeginsWith(w.rows[1][1], high)
    /\ w.rows = <<>> /\ w.begun # <<>> => ~BeginsWith(w.begun[1], high)
    /\ w.columns < MaxColumns /\ w.columns * (w.lines + (IF w.begun = <<>> THEN 0 ELSE 1)) < Wide

\* The reader stands where the writer does: before a field, or with the last one
\* in its hands.
Stands(r, w, k) ==
    /\ r.at = Len(w.out) + 1
    /\ w.begun = <<>> => Before(r, w.rows, <<>>)
    /\ w.begun # <<>> =>
          \E q \in Reader, b \in Seq(Cell), f \in Cell, l \in Lasts :
             /\ w.begun = Append(b, f) /\ Before(q, w.rows, b) /\ r = Has(q, f, l, Len(w.out) + 1)
             /\ l = "startOfRecord" => w.begun = <<<<>>>> /\ k # "always"

\* Whatever the text will be, as long as it goes on like one of a CsvWriter.
Continues(w, x) == w.begun # <<>> => x # <<>> /\ x[1] \in Ends
ReadsBack(k, w) ==
    /\ w.rows = <<>> => w.columns = 0
    /\ Readable(k, w) => \A x \in Cell : Continues(w, x) => \E r : Reaches(w.out \o x, r) /\ Stands(r, w, k)

\* Nothing is written, and nothing read.
LEMMA NothingBack == \A k : ReadsBack(k, NewWriter)
<1>. SUFFICES ASSUME NEW k, NEW x \in Cell PROVE \E r : Reaches(NewWriter.out \o x, r) /\ Stands(r, NewWriter, k)
    BY DEF ReadsBack, NewWriter
<1>1. NewWriter.out \o x = x
    BY ConcatEmptySeq DEF NewWriter, Cell
<1>2. Reaches(x, StartReading)
    BY StartReached
<1>3. Len(<<>>) = 0
    OBVIOUS
<1>4. Before(StartReading, <<>>, <<>>)
    BY <1>3 DEF Before, Ready, StartReading
<1>5. Stands(StartReading, NewWriter, k)
    BY <1>3, <1>4 DEF Stands, NewWriter, StartReading
<1>. QED  BY <1>1, <1>2, <1>5

\* The same text and the same rows are read alike.
LEMMA SameBack ==
    ASSUME NEW k, NEW w, ReadsBack(k, w), NEW v, v.rows = w.rows, v.begun = w.begun, v.out = w.out,
           v.lines = w.lines, v.columns = w.columns
    PROVE  ReadsBack(k, v)
<1>1. Readable(k, v) <=> Readable(k, w)
    BY DEF Readable
<1>2. \A x : Continues(v, x) <=> Continues(w, x)
    BY DEF Continues
<1>3. \A r : Stands(r, v, k) <=> Stands(r, w, k)
    BY DEF Stands
<1>. QED  BY <1>1, <1>2, <1>3 DEF ReadsBack

\* What was written are texts, and the rows are as long as they should be.
LEMMA WrittenTexts ==
    ASSUME NEW w, Counting(w)
    PROVE  /\ w.rows \in Seq(Seq(Cell)) /\ w.begun \in Seq(Cell) /\ w.out \in Cell
           /\ w.column \in Nat /\ w.columns \in Nat /\ w.lines \in Nat
           /\ w.lines = Len(w.rows) /\ w.column = Len(w.begun)
           /\ (w.column = 0 <=> w.begun = <<>>)
<1>1. /\ w.rows \in Seq(Seq(Inputs)) /\ w.begun \in Seq(Inputs) /\ w.out \in Cell
      /\ w.column \in Nat /\ w.columns \in Nat /\ w.lines \in Nat
      /\ w.lines = Len(w.rows) /\ w.column = Len(w.begun)
    BY DEF Counting, Writer, Cell
<1>2. \A q \in Seq(Inputs) : q \in Seq(Cell)
    BY CsvAssumption, SeqMonotonic
<1>3. Seq(Inputs) \subseteq Seq(Cell)
    BY <1>2
<1>4. w.rows \in Seq(Seq(Cell))
    BY <1>1, <1>3, SeqMonotonic
<1>. QED  BY <1>1, <1>2, <1>4, EmptySeq

\* Rows that can be read are all of one length.
LEMMA ReadableRows ==
    ASSUME NEW w, Counting(w), NEW k, Readable(k, w)
    PROVE  /\ \A i \in 1..Len(w.rows) : Len(w.rows[i]) = w.columns
           /\ w.rows # <<>> => Len(w.rows[1]) = w.columns /\ w.columns # 0
<1>1. w.rows \in Seq(Seq(Cell)) /\ DOMAIN w.rows = 1..Len(w.rows)
    BY WrittenTexts, LenProperties
<1>2. ASSUME NEW i \in 1..Len(w.rows) PROVE Len(w.rows[i]) = w.columns /\ w.columns # 0
  <2>1. w.rows[i] \in Seq(Cell) /\ w.rows[i] # <<>>
      BY <1>1, ElementOfSeq DEF Readable, LegibleRow
  <2>2. Len(w.rows[i]) # 0
      BY <2>1, EmptySeq
  <2>3. Len(w.rows[i]) \in {0, w.columns}
      BY <1>1 DEF Counting
  <2>. QED  BY <2>2, <2>3
<1>3. w.rows # <<>> => 1 \in 1..Len(w.rows)
    BY <1>1, EmptySeq
<1>. QED  BY <1>2, <1>3

\* Before the writer prints a field, the reader can come to where it begins.
LEMMA FieldBegins ==
    ASSUME NEW w, Rectangular(w), NEW k, ReadsBack(k, w), Readable(k, w),
           w.begun # <<>> => w.columns * (w.lines + 1) < Wide,
           NEW o, o = w.out \o (IF w.column # 0 THEN <<sep>> ELSE <<>>),
           NEW y \in Cell, NEW s, s = o \o y
    PROVE  ComesTo(s, w.rows, w.begun, Len(o) + 1)
<1>1. /\ w.rows \in Seq(Seq(Cell)) /\ w.begun \in Seq(Cell) /\ w.out \in Cell
      /\ w.column \in Nat /\ w.columns \in Nat /\ w.lines \in Nat
      /\ w.lines = Len(w.rows) /\ w.column = Len(w.begun)
      /\ (w.column = 0 <=> w.begun = <<>>)
    BY WrittenTexts DEF Rectangular
<1>2. CASE w.begun = <<>>
  <2>1. o = w.out
      BY <1>1, <1>2, ConcatEmptySeq DEF Cell
  <2>2. Continues(w, y)
      BY <1>2 DEF Continues
  <2>3. PICK r : Reaches(s, r) /\ Stands(r, w, k)
      BY <2>1, <2>2 DEF ReadsBack
  <2>. QED  BY <1>2, <2>1, <2>3 DEF Stands, ComesTo
<1>3. CASE w.begun # <<>>
  <2>1. PICK p \in Cell : p = <<sep>> /\ Len(p) = 1 /\ p[1] = sep
    <3>1. PICK c \in Char : c = sep
        BY Characters
    <3>2. PICK p : p = <<c>>
        OBVIOUS
    <3>3. p \in Seq(Char) /\ Len(p) = 1 /\ p[1] = c
        BY <3>2
    <3>. QED  BY <3>1, <3>2, <3>3 DEF Cell
  <2>2. o = w.out \o p
      BY <1>1, <1>3, <2>1
  <2>3. PICK x : x = p \o y
      OBVIOUS
  <2>4. PICK n \in Nat : n = Len(w.out)
      BY <1>1, LenProperties DEF Cell
  <2>5. /\ s \in Cell /\ x \in Cell /\ s = w.out \o x /\ Len(o) = n + 1
        /\ GoesOn(s, n + 1, p)
    <3>1. PICK v \in Cell : v = w.out
        BY <1>1
    <3>2. PICK u : u = v \o (p \o y)
        OBVIOUS
    <3>3. v \in Cell /\ p \in Cell /\ y \in Cell
        OBVIOUS
    <3>4. u \in Cell
        BY ONLY <3>2, <3>3, TextParts
    <3>5. (v \o p) \o y = u
        BY ONLY <3>2, <3>3, TextParts
    <3>6. p \o y \in Cell
        BY ONLY <3>2, <3>3, TextParts
    <3>7. Len(v \o p) = Len(v) + Len(p)
        BY ONLY <3>2, <3>3, TextParts
    <3>8. GoesOn(u, Len(v) + 1, p)
        BY ONLY <3>2, <3>3, TextParts
    <3>9. s = u /\ o = v \o p /\ x = p \o y /\ Len(v) = n
        BY <2>2, <2>3, <2>4, <3>1, <3>2, <3>5
    <3>. QED  BY <2>1, <2>4, <3>1, <3>2, <3>4, <3>6, <3>7, <3>8, <3>9
  <2>6. x # <<>> /\ x[1] = sep
    <3>1. x = <<sep>> \o y /\ Len(x) = 1 + Len(y) /\ Len(y) \in Nat /\ p \in Seq(Char) /\ y \in Seq(Char)
        BY <2>1, <2>3, ConcatProperties, LenProperties DEF Cell
    <3>2. 1 \in 1..(Len(p) + Len(y)) /\ 1 <= Len(p)
        BY <2>1, <3>1
    <3>3. x[1] = p[1]
      <4>1. x = p \o y /\ p \in Seq(Char) /\ y \in Seq(Char)
          BY <2>3, <3>1
      <4>2. \A i \in 1..(Len(p) + Len(y)) : x[i] = IF i <= Len(p) THEN p[i] ELSE y[i - Len(p)]
          BY ONLY <4>1, ConcatProperties
      <4>. QED  BY <3>2, <4>2
    <3>4. Len(x) # 0
        BY <3>1
    <3>. QED  BY <2>1, <3>3, <3>4, EmptySeq
  <2>7. Continues(w, x)
      BY <2>6 DEF Continues, Ends
  <2>8. PICK r : Reaches(s, r) /\ Stands(r, w, k)
      BY <2>5, <2>7 DEF ReadsBack
  <2>9. PICK h \in Reader, b \in Seq(Cell), f \in Cell, l \in Lasts :
           w.begun = Append(b, f) /\ Before(h, w.rows, b) /\ r = Has(h, f, l, Len(w.out) + 1)
      BY <1>3, <2>8 DEF Stands
  <2>10. PICK a \in Nat : a = n + 1
      OBVIOUS
  <2>11. r = Has(h, f, l, a)
      BY <2>4, <2>9, <2>10
  <2>12. CharAt(s, a) = sep
    <3>1. 1 \in 1..Len(p) /\ n + 1 + 1 - 1 = a
        BY <2>1, <2>10
    <3>. QED  BY <2>1, <2>5, <3>1 DEF GoesOn
  <2>13. ASSUME w.rows # <<>> PROVE Len(b) + 1 < Len(w.rows[1]) /\ Len(w.rows[1]) * (Len(w.rows) + 1) < Wide
    <3>1. Len(w.rows[1]) = w.columns /\ w.columns # 0
        BY <2>13, ReadableRows DEF Rectangular
    <3>2. w.column = Len(b) + 1
        BY <1>1, <2>9, AppendProperties
    <3>3. w.column < w.columns
        BY <3>1 DEF Rectangular
    <3>. QED  BY <1>1, <1>3, <3>1, <3>2, <3>3
  <2>14. PICK q : Reaches(s, q) /\ Before(q, w.rows, Append(b, f)) /\ q.at = a + 1
    <3>1. PICK rows \in Seq(Seq(Cell)) : rows = w.rows
        BY <1>1
    <3>2. /\ Before(h, rows, b) /\ r = Has(h, f, l, a) /\ Reaches(s, r) /\ CharAt(s, a) = sep
          /\ rows # <<>> => Len(b) + 1 < Len(rows[1]) /\ Len(rows[1]) * (Len(rows) + 1) < Wide
          /\ s \in Cell /\ b \in Seq(Cell) /\ h \in Reader /\ f \in Cell /\ l \in Lasts /\ a \in Nat
        BY <2>5, <2>8, <2>9, <2>11, <2>12, <2>13, <3>1
    <3>3. ComesTo(s, rows, Append(b, f), a + 1)
        BY ONLY <3>1, <3>2, SeparatorRead
    <3>. QED  BY <3>1, <3>3 DEF ComesTo
  <2>15. q.at = Len(o) + 1
      BY <2>5, <2>10, <2>14
  <2>. QED  BY <2>9, <2>14, <2>15 DEF ComesTo
<1>. QED  BY <1>2, <1>3

\* With one field less, the rows are no harder to read.
LEMMA ReadableLess ==
    ASSUME NEW w, Counting(w), NEW f \in Inputs, NEW k, NEW v, Readable(k, v),
           v.rows = w.rows, v.lines = w.lines, v.columns = w.columns, v.begun = Append(w.begun, f)
    PROVE  /\ Readable(k, w) /\ w.columns * (w.lines + 1) < Wide
           /\ k = "never" => ~BeginsWith(f, quote)
           /\ w.rows = <<>> /\ w.begun = <<>> => ~BeginsWith(f, high)
<1>1. /\ w.begun \in Seq(Cell) /\ w.columns \in Nat /\ w.lines \in Nat /\ f \in Cell
      /\ (w.column = 0 <=> w.begun = <<>>)
    BY WrittenTexts, CsvAssumption
<1>2. PICK m \in Nat : m = Len(w.begun)
    BY <1>1, LenProperties
<1>3. PICK d : d = v.begun
    OBVIOUS
<1>4. /\ d \in Seq(Cell) /\ Len(d) = m + 1 /\ d # <<>> /\ d[m + 1] = f
      /\ \A j \in 1..m : d[j] = w.begun[j]
    BY <1>1, <1>2, <1>3, AppendProperties
<1>5. DOMAIN d = 1..(m + 1) /\ DOMAIN w.begun = 1..m
    BY <1>1, <1>2, <1>4, LenProperties
<1>6. k = "never" => \A j \in 1..(m + 1) : ~BeginsWith(d[j], quote)
    BY <1>3, <1>5 DEF Readable
<1>7. k = "never" => \A j \in DOMAIN w.begun : ~BeginsWith(w.begun[j], quote)
  <2>. SUFFICES ASSUME k = "never", NEW j \in 1..m PROVE ~BeginsWith(w.begun[j], quote)
      BY <1>5
  <2>1. j \in 1..(m + 1)
      OBVIOUS
  <2>. QED  BY <1>4, <1>6, <2>1
<1>8. k = "never" => ~BeginsWith(f, quote)
  <2>1. m + 1 \in 1..(m + 1)
      OBVIOUS
  <2>. QED  BY <1>4, <1>6, <2>1
<1>9. w.rows = <<>> => ~BeginsWith(d[1], high)
    BY <1>3, <1>4 DEF Readable
<1>10. w.begun # <<>> => d[1] = w.begun[1]
  <2>1. w.begun # <<>> => 1 \in 1..m
      BY <1>1, <1>2, EmptySeq
  <2>. QED  BY <1>4, <2>1
<1>11. w.begun = <<>> => d[1] = f
  <2>1. w.begun = <<>> => m = 0
      BY <1>2, EmptySeq
  <2>. QED  BY <1>4, <2>1
<1>12. w.columns * (w.lines + 1) < Wide
  <2>1. v.begun # <<>>
      BY <1>3, <1>4
  <2>. QED  BY <2>1 DEF Readable
<1>13. w.columns * (w.lines + (IF w.begun = <<>> THEN 0 ELSE 1)) < Wide
  <2>1. PICK c \in Nat, n \in Nat, h \in Nat : c = w.columns /\ n = w.lines /\ h = w.lines + 1
      BY <1>1
  <2>2. c * n <= c * h /\ c * n \in Nat /\ c * h \in Nat
      BY <2>1, Grows
  <2>3. c * h < Wide /\ Wide \in Nat
      BY <1>12, <2>1, TableAssumption
  <2>4. c * n < Wide
      BY <2>2, <2>3
  <2>5. CASE w.begun = <<>>
    <3>1. w.lines + (IF w.begun = <<>> THEN 0 ELSE 1) = n
        BY <2>1, <2>5
    <3>. QED  BY <2>1, <2>4, <3>1
  <2>6. CASE w.begun # <<>>
      BY <1>12, <2>6
  <2>. QED  BY <2>5, <2>6
<1>14. \A i \in DOMAIN w.rows : LegibleRow(k, w.rows[i])
    BY DEF Readable
<1>15. w.rows # <<>> => ~BeginsWith(w.rows[1][1], high)
    BY DEF Readable
<1>16. w.columns < MaxColumns
    BY DEF Readable
<1>. QED  BY <1>7, <1>8, <1>9, <1>10, <1>11, <1>12, <1>13, <1>14, <1>15, <1>16 DEF Readable

\* A field more, and the reader has it in its hands.
LEMMA FieldBack ==
    ASSUME NEW w, Rectangular(w), settings \in Settings, ReadsBack(settings.quoting, w), NEW f \in Inputs,
           ~(settings.quoting = "never" /\ HasAny(f, {cr, lf, sep})),
           NEW v, v.rows = w.rows, v.lines = w.lines, v.columns = w.columns, v.begun = Append(w.begun, f),
           v.out = w.out \o ((IF w.column # 0 THEN <<sep>> ELSE <<>>) \o ToPrint(f))
    PROVE  ReadsBack(settings.quoting, v)
<1>k. PICK k : k = settings.quoting
    OBVIOUS
<1>1. /\ w.begun \in Seq(Cell) /\ w.out \in Cell /\ f \in Cell
      /\ (w.column = 0 <=> w.begun = <<>>) /\ w.rows \in Seq(Seq(Cell)) /\ Counting(w)
    BY WrittenTexts, CsvAssumption DEF Rectangular
<1>2. w.rows = <<>> => w.columns = 0
    BY DEF ReadsBack
<1>a. ReadsBack(k, w)
    BY <1>k
<1>3. ASSUME Readable(k, v), NEW x \in Cell, Continues(v, x)
      PROVE  \E r : Reaches(v.out \o x, r) /\ Stands(r, v, k)
  <2>1. /\ Readable(k, w) /\ w.columns * (w.lines + 1) < Wide
        /\ k = "never" => ~BeginsWith(f, quote)
        /\ w.rows = <<>> /\ w.begun = <<>> => ~BeginsWith(f, high)
      BY <1>1, <1>3, ReadableLess
  <2>2. PICK p \in Cell : p = ToPrint(f)
      BY <1>1, PrintedChars
  <2>3. PICK g \in Cell : g = IF w.column # 0 THEN <<sep>> ELSE <<>>
    <3>1. PICK c \in Char : c = sep
        BY Characters
    <3>2. <<c>> \in Seq(Char) /\ <<>> \in Seq(Char)
        OBVIOUS
    <3>. QED  BY <3>1, <3>2 DEF Cell
  <2>4. PICK a \in Cell : a = w.out
      BY <1>1
  <2>5. PICK o \in Cell : o = a \o g
      BY ConcatProperties DEF Cell
  <2>6. v.out = o \o p
    <3>1. v.out = a \o (g \o p)
        BY <2>2, <2>3, <2>4
    <3>2. a \in Seq(Char) /\ g \in Seq(Char) /\ p \in Seq(Char)
        BY DEF Cell
    <3>3. a \o (g \o p) = (a \o g) \o p
        BY ONLY <3>2, ConcatAssociative
    <3>. QED  BY <2>5, <3>1, <3>3
  <2>7. PICK y : y = p \o x
      OBVIOUS
  <2>8. PICK s : s = o \o (p \o x)
      OBVIOUS
  <2>9. o \in Cell /\ p \in Cell /\ x \in Cell
      OBVIOUS
  <2>10. s \in Cell
      BY ONLY <2>8, <2>9, TextParts
  <2>11. (o \o p) \o x = s
      BY ONLY <2>8, <2>9, TextParts
  <2>12. p \o x \in Cell
      BY ONLY <2>8, <2>9, TextParts
  <2>13. GoesOn(s, Len(o) + 1, p)
      BY ONLY <2>8, <2>9, TextParts
  <2>14. Follows(s, Len(o) + 1 + Len(p), x)
      BY ONLY <2>8, <2>9, TextParts
  <2>15. PICK i \in Nat, j \in Nat : i = Len(o) /\ j = Len(p) /\ Len(v.out) = i + j
    <3>1. Len(o \o p) = Len(o) + Len(p)
        BY ONLY <2>8, <2>9, TextParts
    <3>2. Len(o) \in Nat /\ Len(p) \in Nat
        BY <2>9, LenProperties DEF Cell
    <3>3. Len(v.out) = Len(o) + Len(p)
        BY <2>6, <3>1
    <3>. QED  BY <3>2, <3>3
  <2>16. v.begun # <<>>
    <3>1. PICK d : d = Append(w.begun, f)
        OBVIOUS
    <3>2. d # <<>>
        BY <1>1, <3>1, AppendProperties
    <3>. QED  BY <3>1, <3>2
  <2>17. x # <<>> /\ x[1] \in Ends
      BY <1>3, <2>16 DEF Continues
  <2>18. PICK q \in Reader : Reaches(s, q) /\ Before(q, w.rows, w.begun) /\ q.at = Len(o) + 1
    <3>1. o = w.out \o (IF w.column # 0 THEN <<sep>> ELSE <<>>) /\ y \in Cell /\ s = o \o y
        BY <2>3, <2>4, <2>5, <2>7, <2>8, <2>12
    <3>2. Rectangular(w) /\ ReadsBack(k, w) /\ Readable(k, w) /\ w.columns * (w.lines + 1) < Wide
        BY <1>a, <2>1
    <3>3. w.begun # <<>> => w.columns * (w.lines + 1) < Wide
        BY <3>2
    <3>4. ComesTo(s, w.rows, w.begun, Len(o) + 1)
        BY ONLY <3>1, <3>2, <3>3, FieldBegins
    <3>5. PICK q : Reaches(s, q) /\ Before(q, w.rows, w.begun) /\ q.at = Len(o) + 1
        BY <3>4 DEF ComesTo
    <3>6. q \in Reader
        BY <2>10, <3>5, ReachedReading
    <3>. QED  BY <3>5, <3>6
  <2>19. Ready(q) /\ q.last = (IF w.begun = <<>> THEN "startOfRecord" ELSE "separator") /\ (q.header <=> w.rows = <<>>)
      BY <2>18 DEF Before
  <2>20. NoMark(q, f)
      BY <2>1, <2>19 DEF NoMark, BeginsWith
  <2>21. k = "never" => Unquoted(f)
      BY <1>k, <2>1 DEF Unquoted
  <2>22. CharAt(s, q.at + Len(p)) \in Ends /\ GoesOn(s, q.at, p)
      BY <2>13, <2>14, <2>17, <2>18 DEF Follows
  <2>23. PICK l \in Lasts : /\ Reaches(s, Has(q, f, l, q.at + Len(p)))
                            /\ l = "startOfRecord" => f = <<>> /\ k # "always" /\ q.last = l
    <3>1. /\ settings \in Settings /\ s \in Cell /\ Reaches(s, q) /\ Ready(q) /\ f \in Cell /\ NoMark(q, f)
          /\ settings.quoting = "never" => Unquoted(f)
          /\ p = ToPrint(f) /\ GoesOn(s, q.at, p) /\ CharAt(s, q.at + Len(p)) \in Ends
        BY <1>1, <1>k, <2>2, <2>10, <2>18, <2>19, <2>20, <2>21, <2>22
    <3>2. FieldHeld(s, q, f, q.at + Len(p))
        BY ONLY <3>1, FieldRead
    <3>. QED  BY <1>k, <3>2 DEF FieldHeld
  <2>24. q.at + Len(p) = Len(v.out) + 1
    <3>1. q.at = i + 1 /\ i \in Nat /\ j \in Nat /\ Len(p) = j /\ Len(v.out) = i + j
        BY <2>15, <2>18
    <3>. QED  BY ONLY <3>1
  <2>25. PICK r : r = Has(q, f, l, Len(v.out) + 1)
      OBVIOUS
  <2>26. Reaches(v.out \o x, r)
      BY <2>6, <2>11, <2>23, <2>24, <2>25
  <2>27. r.at = Len(v.out) + 1
    <3>1. Len(v.out) + 1 \in Nat
      <4>1. i \in Nat /\ j \in Nat /\ Len(v.out) = i + j
          BY <2>15
      <4>. QED  BY ONLY <4>1
    <3>2. PICK n \in Nat : n = Len(v.out) + 1
        BY <3>1
    <3>3. q \in Reader /\ f \in Cell /\ l \in Lasts /\ n \in Nat /\ r = Has(q, f, l, n)
        BY <1>1, <2>25, <3>2
    <3>4. r.at = n
        BY ONLY <3>3, HasFields
    <3>. QED  BY <3>2, <3>4
  <2>28. l = "startOfRecord" => v.begun = <<<<>>>> /\ k # "always"
    <3>1. l = "startOfRecord" => w.begun = <<>> /\ f = <<>> /\ k # "always"
        BY <2>19, <2>23
    <3>2. w.begun = <<>> /\ f = <<>> => v.begun = <<<<>>>>
        OBVIOUS
    <3>. QED  BY <3>1, <3>2
  <2>29. Stands(r, v, k)
    <3>. QED  BY <1>1, <2>16, <2>18, <2>25, <2>27, <2>28 DEF Stands
  <2>. QED  BY <2>26, <2>29
<1>. QED  BY <1>k, <1>2, <1>3 DEF ReadsBack

\* What a line end makes of a writer
LEMMA AfterLineEnd ==
    ASSUME NEW w, Counting(w), NEW v, v = LineEnd(w)
    PROVE  /\ v.out = w.out \o (IF settings.carriageReturn THEN <<cr, lf>> ELSE <<lf>>)
           /\ v.rows = Append(w.rows, w.begun) /\ v.begun = <<>> /\ v.lines = w.lines + 1
           /\ v.columns = IF w.columns = 0 THEN w.column ELSE w.columns
BY DEF Counting, Writer, LineEnd, Write

\* A row is as hard to read when it is begun as when it is ended.
LEMMA ReadableBegun ==
    ASSUME NEW w, Counting(w), NEW k, NEW v, Readable(k, v),
           v.rows = Append(w.rows, w.begun), v.begun = <<>>, v.lines = w.lines + 1,
           v.columns = IF w.columns = 0 THEN w.column ELSE w.columns
    PROVE  /\ Readable(k, w) /\ LegibleRow(k, w.begun) /\ v.columns < MaxColumns
           /\ w.columns # 0 => w.columns * (w.lines + 1) < Wide
<1>1. w.rows \in Seq(Seq(Cell)) /\ w.begun \in Seq(Cell) /\ w.columns \in Nat /\ w.lines \in Nat
    BY WrittenTexts
<1>2. PICK n \in Nat : n = Len(w.rows)
    BY <1>1, LenProperties
<1>3. PICK d : d = v.rows
    OBVIOUS
<1>4. PICK z \in Seq(Cell) : z = w.begun
    BY <1>1
<1>5. d \in Seq(Seq(Cell)) /\ Len(d) = n + 1 /\ d # <<>> /\ d[n + 1] = z /\ \A i \in 1..n : d[i] = w.rows[i]
  <2>1. d = Append(w.rows, z)
      BY <1>3, <1>4
  <2>. QED  BY <1>1, <1>2, <2>1, AppendProperties
<1>6. DOMAIN d = 1..(n + 1) /\ DOMAIN w.rows = 1..n
    BY <1>1, <1>2, <1>5, LenProperties
<1>7. \A i \in 1..(n + 1) : LegibleRow(k, d[i])
    BY <1>3, <1>6 DEF Readable
<1>8. \A i \in DOMAIN w.rows : LegibleRow(k, w.rows[i])
  <2>. SUFFICES ASSUME NEW i \in 1..n PROVE LegibleRow(k, w.rows[i])
      BY <1>6
  <2>1. i \in 1..(n + 1)
      OBVIOUS
  <2>. QED  BY <1>5, <1>7, <2>1
<1>9. LegibleRow(k, w.begun)
  <2>1. n + 1 \in 1..(n + 1)
      OBVIOUS
  <2>. QED  BY <1>4, <1>5, <1>7, <2>1
<1>10. ~BeginsWith(d[1][1], high)
    BY <1>3, <1>5 DEF Readable
<1>11. w.rows # <<>> => d[1] = w.rows[1]
  <2>1. w.rows # <<>> => 1 \in 1..n
      BY <1>1, <1>2, EmptySeq
  <2>. QED  BY <1>5, <2>1
<1>12. w.rows = <<>> => d[1] = w.begun
  <2>1. w.rows = <<>> => n = 0
      BY <1>2, EmptySeq
  <2>. QED  BY <1>4, <1>5, <2>1
<1>13. w.columns # 0 => w.columns * (w.lines + 1) < Wide
  <2>1. v.columns * (v.lines + (IF v.begun = <<>> THEN 0 ELSE 1)) < Wide
      BY DEF Readable
  <2>2. v.lines + (IF v.begun = <<>> THEN 0 ELSE 1) = w.lines + 1
      BY <1>1
  <2>3. w.columns # 0 => v.columns = w.columns
      OBVIOUS
  <2>. QED  BY <2>1, <2>2, <2>3
<1>14. w.columns * (w.lines + (IF w.begun = <<>> THEN 0 ELSE 1)) < Wide
  <2>1. w.begun # <<>>
      BY <1>9 DEF LegibleRow
  <2>2. CASE w.columns # 0
      BY <1>13, <2>1, <2>2
  <2>3. CASE w.columns = 0
    <3>1. w.columns * (w.lines + (IF w.begun = <<>> THEN 0 ELSE 1)) = 0
        BY <1>1, <2>1, <2>3
    <3>2. 0 < Wide
        BY TableAssumption
    <3>. QED  BY <3>1, <3>2
  <2>. QED  BY <2>2, <2>3
<1>15. k = "never" => \A j \in DOMAIN w.begun : ~BeginsWith(w.begun[j], quote)
    BY <1>9 DEF LegibleRow
<1>16. v.columns < MaxColumns /\ w.columns < MaxColumns
  <2>1. v.columns < MaxColumns
      BY DEF Readable
  <2>. QED  BY <2>1, ReadCSVAssumption
<1>. QED  BY <1>8, <1>9, <1>10, <1>11, <1>12, <1>13, <1>14, <1>15, <1>16 DEF Readable

\* A line end, and the reader is before the next row.
LEMMA LineBack ==
    ASSUME NEW w, Counting(w), settings \in Settings, w.columns = 0 \/ w.column = w.columns,
           NEW k, ReadsBack(k, w), NEW v, v = LineEnd(w)
    PROVE  ReadsBack(k, v)
<1>1. /\ w.rows \in Seq(Seq(Cell)) /\ w.begun \in Seq(Cell) /\ w.out \in Cell
      /\ w.column \in Nat /\ w.columns \in Nat /\ w.lines \in Nat
      /\ w.lines = Len(w.rows) /\ w.column = Len(w.begun)
    BY WrittenTexts
<1>2. PICK end \in Cell : end = IF settings.carriageReturn THEN <<cr, lf>> ELSE <<lf>>
  <2>1. PICK a \in Char, b \in Char : a = cr /\ b = lf
      BY Characters
  <2>2. <<a, b>> \in Seq(Char) /\ <<b>> \in Seq(Char)
      OBVIOUS
  <2>. QED  BY <2>1, <2>2 DEF Cell
<1>3. /\ v.out = w.out \o end /\ v.rows = Append(w.rows, w.begun) /\ v.begun = <<>> /\ v.lines = w.lines + 1
      /\ v.columns = IF w.columns = 0 THEN w.column ELSE w.columns
    BY <1>2, AfterLineEnd
<1>4. v.rows # <<>>
  <2>1. PICK d : d = Append(w.rows, w.begun)
      OBVIOUS
  <2>2. d # <<>>
      BY <1>1, <2>1, AppendProperties
  <2>. QED  BY <1>3, <2>1, <2>2
<1>5. ASSUME Readable(k, v), NEW x \in Cell
      PROVE  \E r : Reaches(v.out \o x, r) /\ Stands(r, v, k)
  <2>1. /\ Readable(k, w) /\ LegibleRow(k, w.begun) /\ v.columns < MaxColumns
        /\ w.columns # 0 => w.columns * (w.lines + 1) < Wide
    <3>1. /\ Counting(w) /\ Readable(k, v) /\ v.rows = Append(w.rows, w.begun) /\ v.begun = <<>>
          /\ v.lines = w.lines + 1 /\ v.columns = IF w.columns = 0 THEN w.column ELSE w.columns
        BY <1>3, <1>5
    <3>. QED  BY ONLY <3>1, ReadableBegun
  <2>2. PICK o \in Cell : o = w.out
      BY <1>1
  <2>3. PICK s : s = o \o (end \o x)
      OBVIOUS
  <2>4. o \in Cell /\ end \in Cell /\ x \in Cell
      OBVIOUS
  <2>5. s \in Cell
      BY ONLY <2>3, <2>4, TextParts
  <2>6. (o \o end) \o x = s
      BY ONLY <2>3, <2>4, TextParts
  <2>7. end \o x \in Cell
      BY ONLY <2>3, <2>4, TextParts
  <2>8. GoesOn(s, Len(o) + 1, end)
      BY ONLY <2>3, <2>4, TextParts
  <2>9. Len(o \o end) = Len(o) + Len(end)
      BY ONLY <2>3, <2>4, TextParts
  <2>10. PICK i \in Nat : i = Len(o)
      BY LenProperties DEF Cell
  <2>11. PICK m \in {1, 2} : m = Len(end) /\ LineEndsAt(s, i + 1, m)
    <3>1. \A j \in 1..Len(end) : CharAt(s, i + 1 + j - 1) = end[j]
        BY <2>8, <2>10 DEF GoesOn
    <3>2. CASE end = <<cr, lf>>
      <4>1. Len(end) = 2 /\ end[1] = cr /\ end[2] = lf
          BY <3>2
      <4>2. 1 \in 1..2 /\ 2 \in 1..2 /\ i + 1 + 1 - 1 = i + 1 /\ i + 1 + 2 - 1 = i + 1 + 1
          OBVIOUS
      <4>3. CharAt(s, i + 1) = cr /\ CharAt(s, i + 1 + 1) = lf
          BY <3>1, <4>1, <4>2
      <4>. QED  BY <4>1, <4>3 DEF LineEndsAt
    <3>3. CASE end = <<lf>>
      <4>1. Len(end) = 1 /\ end[1] = lf
          BY <3>3
      <4>2. 1 \in 1..1 /\ i + 1 + 1 - 1 = i + 1
          OBVIOUS
      <4>3. CharAt(s, i + 1) = lf
          BY <3>1, <4>1, <4>2
      <4>. QED  BY <4>1, <4>3 DEF LineEndsAt
    <3>. QED  BY <1>2, <3>2, <3>3
  <2>12. PICK y : y = end \o x
      OBVIOUS
  <2>13. y # <<>> /\ y[1] \in Ends
    <3>1. end \in Seq(Char) /\ x \in Seq(Char) /\ y = end \o x /\ Len(x) \in Nat
        BY <2>12, LenProperties DEF Cell
    <3>2. Len(y) = Len(end) + Len(x) /\ \A j \in 1..(Len(end) + Len(x)) : y[j] = IF j <= Len(end) THEN end[j] ELSE x[j - Len(end)]
        BY ONLY <3>1, ConcatProperties
    <3>3. 1 \in 1..(Len(end) + Len(x)) /\ 1 <= Len(end) /\ Len(end) + Len(x) # 0
        BY <2>11, <3>1
    <3>4. y[1] = end[1] /\ Len(y) # 0
        BY <3>2, <3>3
    <3>5. end[1] \in {cr, lf}
      <4>1. end = <<cr, lf>> => end[1] = cr
          OBVIOUS
      <4>2. end = <<lf>> => end[1] = lf
          OBVIOUS
      <4>. QED  BY <1>2, <4>1, <4>2
    <3>. QED  BY <3>4, <3>5, EmptySeq DEF Ends
  <2>14. PICK r : Reaches(s, r) /\ Stands(r, w, k)
    <3>1. y \in Cell /\ s = w.out \o y /\ Continues(w, y)
        BY <2>2, <2>3, <2>7, <2>12, <2>13 DEF Continues
    <3>. QED  BY <2>1, <3>1 DEF ReadsBack
  <2>15. w.begun # <<>> /\ (k # "always" => w.begun # <<<<>>>>)
      BY <2>1 DEF LegibleRow
  <2>16. PICK h \in Reader, b \in Seq(Cell), f \in Cell, l \in Lasts :
            /\ w.begun = Append(b, f) /\ Before(h, w.rows, b) /\ r = Has(h, f, l, Len(w.out) + 1)
            /\ l = "startOfRecord" => w.begun = <<<<>>>> /\ k # "always"
      BY <2>14, <2>15 DEF Stands
  <2>17. l # "startOfRecord"
      BY <2>15, <2>16
  <2>18. PICK a \in Nat : a = i + 1
      OBVIOUS
  <2>19. ASSUME w.rows # <<>> PROVE Len(b) + 1 = Len(w.rows[1]) /\ Len(w.rows[1]) * (Len(w.rows) + 1) < Wide
    <3>1. Len(w.rows[1]) = w.columns /\ w.columns # 0
        BY <2>1, <2>19, ReadableRows
    <3>2. w.column = Len(b) + 1
        BY <1>1, <2>16, AppendProperties
    <3>. QED  BY <1>1, <2>1, <3>1, <3>2
  <2>c. ASSUME w.rows = <<>> PROVE Len(b) + 1 < MaxColumns
    <3>1. w.columns = 0
        BY <2>c DEF ReadsBack
    <3>2. w.column = Len(b) + 1
        BY <1>1, <2>16, AppendProperties
    <3>. QED  BY <1>3, <2>1, <3>1, <3>2
  <2>20. PICK rows \in Seq(Seq(Cell)) : rows = w.rows
      BY <1>1
  <2>21. ComesTo(s, Append(rows, Append(b, f)), <<>>, a + m)
    <3>1. /\ Before(h, rows, b) /\ r = Has(h, f, l, a) /\ Reaches(s, r) /\ LineEndsAt(s, a, m) /\ l # "startOfRecord"
          /\ rows = <<>> => Len(b) + 1 < MaxColumns
          /\ rows # <<>> => Len(b) + 1 = Len(rows[1]) /\ Len(rows[1]) * (Len(rows) + 1) < Wide
          /\ s \in Cell /\ rows \in Seq(Seq(Cell)) /\ b \in Seq(Cell) /\ h \in Reader /\ f \in Cell /\ l \in Lasts /\ a \in Nat
      <4>1. r = Has(h, f, l, a)
          BY <2>2, <2>10, <2>16, <2>18
      <4>. QED  BY <2>5, <2>11, <2>14, <2>16, <2>17, <2>18, <2>19, <2>c, <2>20, <4>1
    <3>. QED  BY ONLY <3>1, LineEndRead
  <2>22. PICK q : Reaches(s, q) /\ Before(q, v.rows, <<>>) /\ q.at = a + m
    <3>1. Append(rows, Append(b, f)) = v.rows
        BY <1>3, <2>16, <2>20
    <3>. QED  BY <2>21, <3>1 DEF ComesTo
  <2>23. q.at = Len(v.out) + 1
    <3>1. Len(v.out) = i + m
        BY <1>3, <2>2, <2>9, <2>10, <2>11
    <3>2. a = i + 1 /\ q.at = a + m /\ m \in {1, 2} /\ i \in Nat
        BY <2>18, <2>22
    <3>. QED  BY ONLY <3>1, <3>2
  <2>24. Stands(q, v, k)
      BY <1>3, <2>22, <2>23 DEF Stands
  <2>25. s = v.out \o x
      BY <1>3, <2>2, <2>6
  <2>. QED  BY <2>22, <2>24, <2>25
<1>. QED  BY <1>4, <1>5 DEF ReadsBack

-----------------------------------------------------------------------------
(* Every call of the writer.                                                 *)

\* What several fields keep, if each of them does, as far as they come
LEMMA FieldsKeep ==
    ASSUME NEW S, NEW w \in S, NEW fs \in Seq(Inputs),
           \A v \in S : Throws(v) \in S /\ \A f \in Inputs : QuotedField(v, f) \in S
    PROVE  WriteFields(w, fs) \in S
<1>. DEFINE N == Len(fs)
            g == [n \in 1..N |-> [v \in S |-> IF v.thrown THEN v ELSE QuotedField(v, fs[n])]]
            Body(f) == [n \in 0..N |-> IF n = 0 THEN w ELSE IF f[n - 1].thrown THEN f[n - 1] ELSE QuotedField(f[n - 1], fs[n])]
<1>1. N \in Nat /\ \A n \in 1..N : fs[n] \in Inputs
    BY LenProperties, ElementOfSeq
<1>3. \A n \in 1..N, v \in S : (IF v.thrown THEN v ELSE QuotedField(v, fs[n])) \in S
    BY <1>1
<1>4. g \in [1..N -> [S -> S]]
  <2>. HIDE DEF N
  <2>. QED  BY <1>3
<1>5. PICK f \in [0..N -> S] : Iterates(f, N, w, g)
  <2>. HIDE DEF N, g
  <2>. QED  BY <1>1, <1>4, Recursion
<1>6. \A n \in 1..N : f[n] = IF f[n - 1].thrown THEN f[n - 1] ELSE QuotedField(f[n - 1], fs[n])
  <2>1. \A n \in 1..N : n - 1 \in 0..N
      BY <1>1
  <2>2. \A n \in 1..N, v \in S : g[n][v] = IF v.thrown THEN v ELSE QuotedField(v, fs[n])
      OBVIOUS
  <2>3. \A n \in 1..N : f[n] = g[n][f[n - 1]]
      BY <1>5 DEF Iterates
  <2>. HIDE DEF N, g
  <2>. QED  BY <2>1, <2>2, <2>3
<1>7. f = Body(f)
  <2>. HIDE DEF g, N
  <2>1. \A n \in 0..N : n = 0 \/ n \in 1..N
      BY <1>1
  <2>2. \A n \in 0..N : f[n] = IF n = 0 THEN w ELSE IF f[n - 1].thrown THEN f[n - 1] ELSE QuotedField(f[n - 1], fs[n])
      BY <1>5, <1>6, <2>1 DEF Iterates
  <2>. QED  BY <1>5, <2>2
<1>. DEFINE h == CHOOSE k : k = Body(k)
<1>8. h = Body(h)
  <2>. HIDE DEF Body
  <2>. QED  BY <1>7
<1>9. WriteFields(w, fs) = IF w.columns # 0 /\ w.column + Len(fs) > w.columns THEN Throws(w) ELSE h[N]
    BY DEF WriteFields
<1>. HIDE DEF h
<1>10. h[0] = w /\ \A n \in 1..N : h[n] = IF h[n - 1].thrown THEN h[n - 1] ELSE QuotedField(h[n - 1], fs[n])
  <2>1. 0 \in 0..N /\ \A n \in 1..N : n \in 0..N /\ n # 0
      BY <1>1
  <2>. HIDE DEF N
  <2>. QED  BY <1>8, <2>1
<1>. DEFINE P == {n \in 0..N : h[n] \in S}
<1>11. P = 0..N
  <2>. HIDE DEF N
  <2>1. 0 \in P /\ P \in SUBSET (0..N)
      BY <1>1, <1>10
  <2>2. ASSUME NEW n \in 1..N, n - 1 \in P PROVE n \in P
    <3>1. n \in 0..N
        BY <1>1
    <3>2. h[n - 1] \in S
        BY <2>2
    <3>3. h[n] \in S
        BY <1>3, <1>10, <3>2
    <3>. QED  BY <3>1, <3>3
  <2>. HIDE DEF P
  <2>. QED  BY <1>1, <2>1, <2>2, UpTo
<1>12. h[N] \in S
    BY <1>1, <1>11
<1>. QED  BY <1>9, <1>12

\* What is written: rows that are rectangular, and read as they are.
Written(k, w) == Rectangular(w) /\ ReadsBack(k, w)

\* It stays so when an exception is thrown, and when the program has seen it,
LEMMA ThrowsWritten ==
    ASSUME NEW k, NEW w, Written(k, w)
    PROVE  Written(k, Throws(w)) /\ Written(k, [w EXCEPT !.thrown = FALSE])
<1>1. Rectangular(w) /\ ReadsBack(k, w)
    BY DEF Written
<1>2. \A v : v.rows = w.rows /\ v.begun = w.begun /\ v.out = w.out /\ v.lines = w.lines /\ v.columns = w.columns
         => ReadsBack(k, v)
    BY <1>1, SameBack
<1>3. \A v \in {Throws(w), [w EXCEPT !.thrown = FALSE]} :
         v.rows = w.rows /\ v.begun = w.begun /\ v.out = w.out /\ v.lines = w.lines /\ v.columns = w.columns
    BY <1>1 DEF Rectangular, Counting, Writer, Throws
<1>. QED  BY <1>1, <1>2, <1>3, ThrowsGood DEF Written

\* when there is a stream to write to,
LEMMA OpenWritten ==
    ASSUME NEW k, NEW w, Written(k, w)
    PROVE  Written(k, [w EXCEPT !.open = TRUE])
<1>1. Rectangular(w) /\ ReadsBack(k, w)
    BY DEF Written
<1>2. PICK v : v = [w EXCEPT !.open = TRUE]
    OBVIOUS
<1>3. /\ v.rows = w.rows /\ v.begun = w.begun /\ v.out = w.out /\ v.lines = w.lines /\ v.columns = w.columns
      /\ v.column = w.column /\ v \in Writer
    BY <1>1, <1>2 DEF Rectangular, Counting, Writer
<1>4. ReadsBack(k, v)
    BY <1>1, <1>3, SameBack
<1>5. Rectangular(v)
    BY <1>1, <1>3 DEF Rectangular, Counting
<1>. QED  BY <1>2, <1>4, <1>5 DEF Written

\* with endRow() at any time,
LEMMA EndWritten ==
    ASSUME NEW k, NEW w, settings \in Settings, ReadsBack(k, w),
           Rectangular(w) \/ (Counting(w) /\ w.columns # 0 /\ w.column = w.columns)
    PROVE  Written(k, EndRow(w))
<1>1. Rectangular(EndRow(w))
    BY EndsRow
<1>2. Counting(w)
    BY DEF Rectangular
<1>3. CASE w.columns # 0 /\ w.column = 0
  <2>1. EndRow(w) = w
      BY <1>3 DEF EndRow
  <2>. QED  BY <1>1, <2>1 DEF Written
<1>4. CASE w.columns # 0 /\ w.column # 0 /\ w.column # w.columns
  <2>1. EndRow(w) = Throws(w)
      BY <1>4 DEF EndRow
  <2>2. Written(k, w)
      BY <1>4 DEF Written
  <2>. QED  BY <2>1, <2>2, ThrowsWritten
<1>5. CASE w.columns = 0 \/ (w.column # 0 /\ w.column = w.columns)
  <2>1. EndRow(w) = LineEnd(w)
      BY <1>5 DEF EndRow
  <2>2. ReadsBack(k, LineEnd(w))
      BY <1>2, <1>5, LineBack
  <2>. QED  BY <1>1, <2>1, <2>2 DEF Written
<1>. QED  BY <1>3, <1>4, <1>5

\* with a field, which may end its row,
LEMMA FieldWritten ==
    ASSUME NEW w, settings \in Settings, Written(settings.quoting, w), NEW f \in Inputs
    PROVE  Written(settings.quoting, QuotedField(w, f))
<1>1. Rectangular(w) /\ ReadsBack(settings.quoting, w)
    BY DEF Written
<1>2. PICK k : k = settings.quoting
    OBVIOUS
<1>3. CASE "invalid" \in ToSet(f) \/ (settings.quoting = "never" /\ HasAny(f, {cr, lf, sep}))
  <2>1. QuotedField(w, f) = Throws(w)
      BY <1>3 DEF QuotedField
  <2>. QED  BY <2>1, ThrowsWritten
<1>4. CASE ~("invalid" \in ToSet(f) \/ (settings.quoting = "never" /\ HasAny(f, {cr, lf, sep})))
  <2>1. PICK p : p = WithField(w, f)
      OBVIOUS
  <2>2. /\ Counting(p) /\ (p.columns # 0 => p.column <= p.columns)
        /\ p.rows = w.rows /\ p.lines = w.lines /\ p.columns = w.columns /\ p.begun = Append(w.begun, f)
        /\ p.out = w.out \o ((IF w.column # 0 THEN <<sep>> ELSE <<>>) \o ToPrint(f))
      BY <1>1, <2>1, Printed
  <2>3. ReadsBack(settings.quoting, p)
    <3>1. ~(settings.quoting = "never" /\ HasAny(f, {cr, lf, sep}))
        BY <1>4
    <3>. QED  BY <1>1, <2>2, <3>1, FieldBack
  <2>4. QuotedField(w, f) = IF p.columns # 0 /\ p.column = p.columns THEN EndRow(p) ELSE p
      BY <1>4, <2>1 DEF QuotedField, WithField
  <2>5. CASE p.columns # 0 /\ p.column = p.columns
    <3>1. Counting(p) /\ ReadsBack(k, p)
        BY <1>2, <2>2, <2>3
    <3>2. Written(k, EndRow(p))
        BY <2>5, <3>1, EndWritten
    <3>. QED  BY <1>2, <2>4, <2>5, <3>2
  <2>6. CASE ~(p.columns # 0 /\ p.column = p.columns)
    <3>1. p.columns \in Nat /\ p.column \in Nat
        BY <2>2 DEF Counting, Writer
    <3>2. Rectangular(p)
        BY <2>2, <2>6, <3>1 DEF Rectangular
    <3>. QED  BY <2>3, <2>4, <2>6, <3>2 DEF Written
  <2>. QED  BY <2>5, <2>6
<1>. QED  BY <1>3, <1>4

\* and with several, as far as they come.
LEMMA FieldsWritten ==
    ASSUME NEW w, settings \in Settings, Written(settings.quoting, w), NEW fs \in Seq(Inputs)
    PROVE  Written(settings.quoting, WriteFields(w, fs))
<1>. DEFINE S == {v \in Writer : Written(settings.quoting, v)}
<1>1. \A v : Written(settings.quoting, v) => v \in S
    BY DEF Written, Rectangular, Counting
<1>2. ASSUME NEW v \in S PROVE Throws(v) \in S /\ \A f \in Inputs : QuotedField(v, f) \in S
  <2>1. Written(settings.quoting, Throws(v))
      BY ThrowsWritten
  <2>2. \A f \in Inputs : Written(settings.quoting, QuotedField(v, f))
      BY FieldWritten
  <2>. HIDE DEF S
  <2>. QED  BY <1>1, <2>1, <2>2
<1>3. WriteFields(w, fs) \in S
  <2>1. w \in S
      BY <1>1
  <2>. HIDE DEF S
  <2>. QED  BY <1>2, <2>1, FieldsKeep
<1>. QED  BY <1>3

\* The writer's part of the invariant
WriterGood == Written(settings.quoting, writer) /\ settings \in Settings /\ calls \in 0..MaxCalls

\* Before anything is written, there is nothing to count or read.
LEMMA WriterStarts == \A k : Written(k, NewWriter)
<1>1. <<>> \in Seq(Char) /\ <<>> \in Seq(Seq(Inputs)) /\ <<>> \in Seq(Inputs) /\ Len(<<>>) = 0 /\ DOMAIN <<>> = {}
    BY EmptySeq
<1>2. NewWriter \in Writer
    BY <1>1 DEF NewWriter, Writer
<1>3. Rectangular(NewWriter)
    BY <1>1, <1>2 DEF NewWriter, Counting, Rectangular
<1>. QED  BY <1>3, NothingBack DEF Written

\* Whatever the program calls, and whatever that throws, that is what is written.
LEMMA Wrote ==
    ASSUME WriterGood, WriterNext
    PROVE  WriterGood'
<1>1. Written(settings.quoting, writer) /\ settings \in Settings /\ settings' = settings /\ calls \in 0..MaxCalls /\ MaxCalls \in Nat
    BY CsvAssumption DEF WriterGood, WriterNext
<1>2. ASSUME NEW w, Written(settings.quoting, w), Goes(w) PROVE Written(settings.quoting, writer')
  <2>1. PICK k, v : k = settings.quoting /\ v = [w EXCEPT !.thrown = FALSE]
      OBVIOUS
  <2>2. Written(k, v)
      BY <1>2, <2>1, ThrowsWritten
  <2>3. writer' = v
      BY <1>2, <2>1 DEF Goes
  <2>. QED  BY <2>1, <2>2, <2>3
<1>3. Counted => calls' \in 0..MaxCalls
    BY <1>1 DEF Counted
<1>4. ASSUME NEW fs \in Rows PROVE fs \in Seq(Inputs)
  <2>1. PICK n \in 1..2 : fs \in [1..n -> Inputs]
      BY DEF Rows
  <2>2. n \in Nat
      OBVIOUS
  <2>. QED  BY <2>1, <2>2
<1>5. CASE Destination
  <2>1. writer' = [writer EXCEPT !.open = TRUE] /\ calls' = calls
      BY <1>5 DEF Destination
  <2>2. Written(settings.quoting, writer')
      BY <1>1, <2>1, OpenWritten
  <2>. QED  BY <1>1, <2>1, <2>2 DEF WriterGood
<1>6. CASE Field \/ Header
  <2>1. PICK f \in Inputs : Goes(QuotedField(writer, f))
      BY <1>6 DEF Field, Header
  <2>2. Written(settings.quoting, writer')
      BY <1>1, <1>2, <2>1, FieldWritten
  <2>. QED  BY <1>1, <1>3, <1>6, <2>2 DEF WriterGood, Field, Header
<1>7. CASE Fields \/ Headers
  <2>1. PICK fs \in Rows : Goes(WriteFields(writer, fs))
      BY <1>7 DEF Fields, Headers
  <2>2. Written(settings.quoting, writer')
      BY <1>1, <1>2, <1>4, <2>1, FieldsWritten
  <2>. QED  BY <1>1, <1>3, <1>7, <2>2 DEF WriterGood, Fields, Headers
<1>8. CASE End
  <2>1. Goes(EndRow(writer)) /\ calls' = calls
      BY <1>8 DEF End
  <2>2. Rectangular(writer) /\ ReadsBack(settings.quoting, writer)
      BY <1>1 DEF Written
  <2>3. Written(settings.quoting, EndRow(writer))
      BY <1>1, <2>2, EndWritten
  <2>4. Written(settings.quoting, writer')
      BY <1>2, <2>1, <2>3
  <2>. QED  BY <1>1, <2>1, <2>4 DEF WriterGood
<1>. QED  BY <1>5, <1>6, <1>7, <1>8 DEF WriterNext

-----------------------------------------------------------------------------
(* Numbers behind names.                                                     *)

\* A number is made of its tenth and its last digit.
LEMMA Tenths ==
    ASSUME NEW a \in Nat
    PROVE  /\ a \div 10 \in Nat /\ a % 10 \in 0..9 /\ a = 10 * (a \div 10) + (a % 10)
           /\ a \div 10 \in 0..a /\ (a >= 10 => a \div 10 # a /\ a \div 10 >= 1)
<1>1. a \div 10 \in Nat /\ a % 10 \in 0..9 /\ a = 10 * (a \div 10) + (a % 10)
    OBVIOUS
<1>. QED  BY <1>1

\* The digits are characters, no two of them the same.
LEMMA DigitChars ==
    /\ \A d \in 0..9 : Digits[d + 1] \in Char
    /\ \A d, e \in 0..9 : Digits[d + 1] = Digits[e + 1] => d = e
<1>1. \A d \in 0..9 : d \in {0, 1, 2, 3, 4, 5, 6, 7, 8, 9}
    OBVIOUS
<1>2. /\ Digits[0 + 1] = "0" /\ Digits[1 + 1] = "1" /\ Digits[2 + 1] = "2" /\ Digits[3 + 1] = "3" /\ Digits[4 + 1] = "4"
      /\ Digits[5 + 1] = "5" /\ Digits[6 + 1] = "6" /\ Digits[7 + 1] = "7" /\ Digits[8 + 1] = "8" /\ Digits[9 + 1] = "9"
    BY DEF Digits
<1>3. \A d \in 0..9 : Digits[d + 1] \in Char
    BY <1>1, <1>2, Characters
<1>4. ASSUME NEW d \in 0..9, NEW e \in 0..9, Digits[d + 1] = Digits[e + 1] PROVE d = e
    BY <1>1, <1>2, <1>4
<1>. QED  BY <1>3, <1>4

\* A number is written digit by digit.
Spelled(f, a) == IF a < 10 THEN <<Digits[a + 1]>> ELSE Append(f[a \div 10], Digits[(a % 10) + 1])

\* The recursive function does that for all the numbers it is asked for.
LEMMA Spelling ==
    /\ to_string \in [0..MaxNames -> Cell]
    /\ \A a \in 0..MaxNames : to_string[a] = Spelled(to_string, a)
<1>. DEFINE Up(m) == \E f \in [0..m -> Cell] : \A a \in 0..m : f[a] = Spelled(f, a)
            T == {m \in Nat : Up(m)}
<1>m. MaxNames \in Nat
    BY DEF MaxNames
<1>0. ASSUME NEW d \in 0..9 PROVE <<Digits[d + 1]>> \in Cell
  <2>1. PICK c \in Char : c = Digits[d + 1]
      BY DigitChars
  <2>2. <<c>> \in Seq(Char)
      OBVIOUS
  <2>. QED  BY <2>1, <2>2 DEF Cell
<1>1. 0 \in T
  <2>. DEFINE f == [n \in 0..0 |-> <<Digits[0 + 1]>>]
  <2>1. <<Digits[0 + 1]>> \in Cell
      BY <1>0
  <2>2. f \in [0..0 -> Cell] /\ \A a \in 0..0 : f[a] = <<Digits[0 + 1]>>
      BY <2>1
  <2>. HIDE DEF f
  <2>3. \A a \in 0..0 : f[a] = Spelled(f, a)
      BY <2>2 DEF Spelled
  <2>4. Up(0)
      BY <2>2, <2>3
  <2>. HIDE DEF Up
  <2>. QED  BY <2>4
<1>2. ASSUME NEW m \in T PROVE m + 1 \in T
  <2>. SUFFICES Up(m + 1)
    <3>. HIDE DEF Up
    <3>. QED  OBVIOUS
  <2>0. Up(m)
    <3>. HIDE DEF Up
    <3>. QED  OBVIOUS
  <2>1. PICK f \in [0..m -> Cell] : \A a \in 0..m : f[a] = Spelled(f, a)
      BY <2>0
  <2>2. m \in Nat /\ m + 1 \in Nat /\ m + 1 \notin 0..m
      OBVIOUS
  <2>3. PICK y : y = Spelled(f, m + 1)
      OBVIOUS
  <2>4. y \in Cell
    <3>1. CASE m + 1 < 10
      <4>1. m + 1 \in 0..9
          BY <2>2, <3>1
      <4>2. y = <<Digits[m + 1 + 1]>>
          BY <2>3, <3>1 DEF Spelled
      <4>. QED  BY <1>0, <4>1, <4>2
    <3>2. CASE ~(m + 1 < 10)
      <4>1. (m + 1) \div 10 \in 0..m /\ (m + 1) % 10 \in 0..9
          BY <2>2, <3>2
      <4>2. Digits[((m + 1) % 10) + 1] \in Char
          BY <4>1, DigitChars
      <4>3. f[(m + 1) \div 10] \in Seq(Char)
          BY <2>1, <4>1 DEF Cell
      <4>. QED  BY <2>3, <3>2, <4>2, <4>3, AppendProperties DEF Spelled, Cell
    <3>. QED  BY <3>1, <3>2
  <2>. DEFINE h == [n \in 0..(m + 1) |-> IF n = m + 1 THEN y ELSE f[n]]
  <2>5. \A n \in 0..(m + 1) : n = m + 1 \/ n \in 0..m
      BY <2>2
  <2>6. h \in [0..(m + 1) -> Cell]
      BY <2>1, <2>4, <2>5
  <2>7. (\A n \in 0..m : h[n] = f[n]) /\ h[m + 1] = y
      BY <2>2
  <2>. HIDE DEF h
  <2>8. ASSUME NEW n \in 0..(m + 1) PROVE Spelled(h, n) = Spelled(f, n)
    <3>1. CASE n < 10
        BY <3>1 DEF Spelled
    <3>2. CASE ~(n < 10)
      <4>1. n \div 10 \in 0..m
          BY <2>2, <3>2
      <4>. QED  BY <2>7, <3>2, <4>1 DEF Spelled
    <3>. QED  BY <3>1, <3>2
  <2>9. ASSUME NEW n \in 0..(m + 1) PROVE h[n] = Spelled(h, n)
    <3>1. CASE n = m + 1
        BY <2>3, <2>7, <2>8, <3>1
    <3>2. CASE n \in 0..m
        BY <2>1, <2>7, <2>8, <3>2
    <3>. QED  BY <2>5, <3>1, <3>2
  <2>. QED  BY <2>6, <2>9
<1>3. T = Nat
  <2>1. T \in SUBSET Nat
      OBVIOUS
  <2>. HIDE DEF T
  <2>. QED  BY <1>1, <1>2, <2>1, NatInd
<1>4. Up(MaxNames)
  <2>. HIDE DEF Up
  <2>. QED  BY <1>3, <1>m
<1>5. PICK f \in [0..MaxNames -> Cell] : \A a \in 0..MaxNames : f[a] = Spelled(f, a)
    BY <1>4
<1>. DEFINE Body(k) == [a \in 0..MaxNames |-> IF a < 10 THEN <<Digits[a + 1]>> ELSE Append(k[a \div 10], Digits[(a % 10) + 1])]
<1>6. f = Body(f)
  <2>1. \A a \in 0..MaxNames : f[a] = IF a < 10 THEN <<Digits[a + 1]>> ELSE Append(f[a \div 10], Digits[(a % 10) + 1])
      BY <1>5 DEF Spelled
  <2>. QED  BY <1>5, <2>1
<1>7. to_string = CHOOSE k : k = Body(k)
    BY DEF to_string
<1>8. to_string = Body(to_string)
  <2>. HIDE DEF Body
  <2>. QED  BY <1>6, <1>7
<1>9. \A a \in 0..MaxNames : to_string[a] = Spelled(to_string, a)
    BY <1>8 DEF Spelled
<1>. DEFINE P == {m \in Nat : \A a \in 0..m : a <= MaxNames => to_string[a] = f[a]}
<1>10. 0 \in P
  <2>1. 0 \in 0..MaxNames
      BY <1>m
  <2>2. \A a \in 0..0 : a = 0
      OBVIOUS
  <2>3. to_string[0] = f[0]
      BY <1>5, <1>9, <2>1 DEF Spelled
  <2>. QED  BY <2>2, <2>3
<1>11. ASSUME NEW m \in P PROVE m + 1 \in P
  <2>. SUFFICES ASSUME NEW a \in 0..(m + 1), a <= MaxNames PROVE to_string[a] = f[a]
      OBVIOUS
  <2>1. \A b \in 0..m : b <= MaxNames => to_string[b] = f[b]
      OBVIOUS
  <2>2. CASE a \in 0..m
      BY <2>1, <2>2
  <2>3. CASE a \notin 0..m
    <3>1. a \in 0..MaxNames /\ a = m + 1 /\ m \in Nat
        BY <2>3, <1>m
    <3>2. to_string[a] = Spelled(to_string, a) /\ f[a] = Spelled(f, a)
        BY <1>5, <1>9, <3>1
    <3>3. CASE a < 10
        BY <3>2, <3>3 DEF Spelled
    <3>4. CASE ~(a < 10)
      <4>1. a \div 10 \in 0..m /\ a \div 10 <= MaxNames
          BY <1>m, <3>1, <3>4
      <4>. QED  BY <2>1, <3>2, <3>4, <4>1 DEF Spelled
    <3>. QED  BY <3>3, <3>4
  <2>. QED  BY <2>2, <2>3
<1>12. P = Nat
  <2>1. P \in SUBSET Nat
      OBVIOUS
  <2>. HIDE DEF P
  <2>. QED  BY <1>10, <1>11, <2>1, NatInd
<1>13. \A a \in 0..MaxNames : to_string[a] = f[a]
    BY <1>12
<1>14. to_string \in [0..MaxNames -> Cell]
    BY <1>5, <1>8, <1>13
<1>. QED  BY <1>9, <1>14

\* No two numbers are written alike.
LEMMA SpelledApart ==
    \A a, b \in 0..MaxNames : to_string[a] = to_string[b] => a = b
<1>m. MaxNames \in Nat
    BY DEF MaxNames
<1>1. ASSUME NEW a \in 0..MaxNames
      PROVE  /\ to_string[a] \in Seq(Char) /\ Len(to_string[a]) \in Nat
             /\ a < 10 => to_string[a] = <<Digits[a + 1]>> /\ Len(to_string[a]) = 1
             /\ a >= 10 => /\ a \div 10 \in 0..MaxNames /\ a % 10 \in 0..9 /\ to_string[a \div 10] \in Seq(Char)
                           /\ to_string[a] = Append(to_string[a \div 10], Digits[(a % 10) + 1])
                           /\ Len(to_string[a]) = Len(to_string[a \div 10]) + 1
  <2>1. to_string[a] \in Seq(Char) /\ Len(to_string[a]) \in Nat
      BY Spelling, LenProperties DEF Cell
  <2>2. CASE a < 10
    <3>1. to_string[a] = <<Digits[a + 1]>>
        BY <2>2, Spelling DEF Spelled
    <3>. QED  BY <1>m, <2>1, <2>2, <3>1
  <2>3. CASE ~(a < 10)
    <3>1. a \div 10 \in 0..MaxNames /\ a % 10 \in 0..9
        BY <1>m
    <3>2. to_string[a \div 10] \in Seq(Char) /\ Digits[(a % 10) + 1] \in Char
        BY <3>1, Spelling, DigitChars DEF Cell
    <3>3. to_string[a] = Append(to_string[a \div 10], Digits[(a % 10) + 1])
        BY <2>3, Spelling DEF Spelled
    <3>4. Len(to_string[a]) = Len(to_string[a \div 10]) + 1
        BY <3>2, <3>3, AppendProperties
    <3>. QED  BY <2>1, <2>3, <3>1, <3>2, <3>3, <3>4
  <2>. QED  BY <2>2, <2>3
<1>2. ASSUME NEW a \in 0..MaxNames PROVE Len(to_string[a]) >= 1
  <2>1. CASE a < 10
      BY <1>1, <2>1
  <2>2. CASE a >= 10
    <3>1. Len(to_string[a]) = Len(to_string[a \div 10]) + 1 /\ a \div 10 \in 0..MaxNames
        BY <1>1, <2>2
    <3>2. Len(to_string[a \div 10]) \in Nat
        BY <1>1, <3>1
    <3>. QED  BY <3>1, <3>2
  <2>3. a < 10 \/ a >= 10
      OBVIOUS
  <2>. QED  BY <2>1, <2>2, <2>3
<1>. DEFINE P == {m \in Nat : \A a, b \in 0..m : a <= MaxNames /\ b <= MaxNames /\ to_string[a] = to_string[b] => a = b}
<1>3. 0 \in P
    OBVIOUS
<1>4. ASSUME NEW m \in P PROVE m + 1 \in P
  <2>. SUFFICES ASSUME NEW a \in 0..(m + 1), NEW b \in 0..(m + 1), a <= MaxNames, b <= MaxNames, to_string[a] = to_string[b]
                PROVE  a = b
      OBVIOUS
  <2>1. \A c, d \in 0..m : c <= MaxNames /\ d <= MaxNames /\ to_string[c] = to_string[d] => c = d
      OBVIOUS
  <2>2. m \in Nat /\ a \in 0..MaxNames /\ b \in 0..MaxNames
      BY <1>m
  <2>3. CASE a < 10 /\ b < 10
    <3>1. <<Digits[a + 1]>> = <<Digits[b + 1]>> /\ a \in 0..9 /\ b \in 0..9
        BY <1>1, <2>2, <2>3
    <3>2. Digits[a + 1] = Digits[b + 1]
        BY <3>1
    <3>. QED  BY <3>1, <3>2, DigitChars
  <2>4. ASSUME NEW c \in 0..MaxNames, NEW d \in 0..MaxNames, c < 10, d >= 10, to_string[c] = to_string[d] PROVE FALSE
    <3>1. Len(to_string[c]) = 1 /\ Len(to_string[d]) = Len(to_string[d \div 10]) + 1 /\ d \div 10 \in 0..MaxNames
        BY <1>1, <2>4
    <3>2. Len(to_string[d \div 10]) >= 1 /\ Len(to_string[d \div 10]) \in Nat
        BY <1>1, <1>2, <3>1
    <3>3. PICK l \in Nat : l = Len(to_string[d \div 10]) /\ l >= 1
        BY <3>2
    <3>4. Len(to_string[c]) = Len(to_string[d])
        BY <2>4
    <3>5. 1 = l + 1
        BY <3>1, <3>3, <3>4
    <3>. QED  BY <3>3, <3>5
  <2>5. CASE a >= 10 /\ b >= 10
    <3>1. /\ a \div 10 \in 0..m /\ b \div 10 \in 0..m /\ a \div 10 <= MaxNames /\ b \div 10 <= MaxNames
          /\ a = 10 * (a \div 10) + (a % 10) /\ b = 10 * (b \div 10) + (b % 10)
        BY <1>m, <2>2, <2>5
    <3>2. /\ Append(to_string[a \div 10], Digits[(a % 10) + 1]) = Append(to_string[b \div 10], Digits[(b % 10) + 1])
          /\ to_string[a \div 10] \in Seq(Char) /\ to_string[b \div 10] \in Seq(Char)
          /\ a % 10 \in 0..9 /\ b % 10 \in 0..9
        BY <1>1, <2>2, <2>5
    <3>3. Digits[(a % 10) + 1] \in Char /\ Digits[(b % 10) + 1] \in Char
        BY <3>2, DigitChars
    <3>4. to_string[a \div 10] = to_string[b \div 10] /\ Digits[(a % 10) + 1] = Digits[(b % 10) + 1]
      <4>1. PICK s \in Seq(Char), t \in Seq(Char), e \in Char, f \in Char :
                 /\ s = to_string[a \div 10] /\ t = to_string[b \div 10]
                 /\ e = Digits[(a % 10) + 1] /\ f = Digits[(b % 10) + 1]
          BY <3>2, <3>3
      <4>2. Append(s, e) = Append(t, f)
          BY <3>2, <4>1
      <4>3. s = t /\ e = f
          BY <4>2, AppendInjective
      <4>. QED  BY <4>1, <4>3
    <3>5. a % 10 = b % 10
        BY <3>2, <3>4, DigitChars
    <3>6. a \div 10 = b \div 10
        BY <2>1, <3>1, <3>4
    <3>. QED  BY <3>1, <3>5, <3>6
  <2>6. (a < 10 /\ b < 10) \/ (a < 10 /\ b >= 10) \/ (a >= 10 /\ b < 10) \/ (a >= 10 /\ b >= 10)
      BY <2>2
  <2>. QED  BY <2>2, <2>3, <2>4, <2>5, <2>6
<1>5. P = Nat
  <2>1. P \in SUBSET Nat
      OBVIOUS
  <2>. HIDE DEF P
  <2>. QED  BY <1>3, <1>4, <2>1, NatInd
<1>. QED  BY <1>m, <1>5

\* What follows a text can be told from the whole.
LEMMA Cancel ==
    ASSUME NEW S, NEW p \in Seq(S), NEW x \in Seq(S), NEW y \in Seq(S), p \o x = p \o y
    PROVE  x = y
<1>1. Len(p) \in Nat /\ Len(x) \in Nat /\ Len(y) \in Nat
    BY LenProperties
<1>2. Len(p \o x) = Len(p) + Len(x) /\ Len(p \o y) = Len(p) + Len(y)
    BY ConcatProperties
<1>3. Len(x) = Len(y)
    BY <1>1, <1>2
<1>4. ASSUME NEW i \in 1..Len(x) PROVE x[i] = y[i]
  <2>1. Len(p) + i \in 1..(Len(p) + Len(x)) /\ ~(Len(p) + i <= Len(p)) /\ Len(p) + i - Len(p) = i
      BY <1>1
  <2>2. (p \o x)[Len(p) + i] = x[i]
      BY <2>1, ConcatProperties
  <2>3. (p \o y)[Len(p) + i] = y[i]
      BY <1>3, <2>1, ConcatProperties
  <2>. QED  BY <2>2, <2>3
<1>. QED  BY <1>3, <1>4, SeqEqual

\* A sequence begins with another one if it has all its elements.
LEMMA BeginsAlike ==
    ASSUME NEW S, NEW s \in Seq(S), NEW t \in Seq(S)
    PROVE  IsPrefix(s, t) <=> Len(s) <= Len(t) /\ \A i \in 1..Len(s) : s[i] = t[i]
<1>1. Len(s) \in Nat /\ Len(t) \in Nat
    BY LenProperties
<1>3. SubSeq(s, 1, Len(s)) = s
    BY SubSeqFull
<1>4. CASE Len(s) <= Len(t)
  <2>1. \A i \in 1..Len(s) : t[i] \in S /\ 1 + i - 1 = i /\ i \in 1..(Len(s) - 1 + 1)
      BY <1>1, <1>4, ElementOfSeq
  <2>2. PICK u : u = SubSeq(t, 1, Len(s))
      OBVIOUS
  <2>3. /\ u \in Seq(S) /\ Len(u) = IF 1 <= Len(s) THEN Len(s) - 1 + 1 ELSE 0
        /\ \A i \in 1..(Len(s) - 1 + 1) : u[i] = t[1 + i - 1]
      BY <1>1, <2>1, <2>2, SubSeqProperties
  <2>4. Len(u) = Len(s) /\ \A i \in 1..Len(s) : u[i] = t[i]
      BY <1>1, <2>1, <2>3
  <2>5. (\A i \in 1..Len(s) : s[i] = t[i]) => s = u
      BY <2>3, <2>4, SeqEqual
  <2>6. IsPrefix(s, t) <=> s = u
      BY <1>3, <1>4, <2>2 DEF IsPrefix
  <2>. QED  BY <1>4, <2>4, <2>5, <2>6
<1>5. CASE ~(Len(s) <= Len(t))
    BY <1>5 DEF IsPrefix
<1>. QED  BY <1>4, <1>5

\* A name with a number is a name, and one of its own.
LEMMA NumberedName ==
    ASSUME NEW f \in Cell, NEW a \in 0..MaxNames
    PROVE  /\ Numbered(f, a) \in Cell /\ IsPrefix(f, Numbered(f, a))
           /\ \A b \in 0..MaxNames : Numbered(f, a) = Numbered(f, b) => a = b
<1>1. <<"_">> \in Seq(Char)
  <2>1. PICK c \in Char : c = "_"
      BY Characters
  <2>2. <<c>> \in Seq(Char)
      OBVIOUS
  <2>. QED  BY <2>1, <2>2
<1>2. PICK p : p = f \o <<"_">>
    OBVIOUS
<1>3. f \in Seq(Char) /\ p \in Seq(Char) /\ Len(p) = Len(f) + Len(<<"_">>) /\ \A i \in 1..Len(f) : p[i] = f[i]
  <2>1. f \in Seq(Char) /\ Len(f) \in Nat /\ Len(<<"_">>) \in Nat
      BY <1>1, LenProperties DEF Cell
  <2>2. /\ p \in Seq(Char) /\ Len(p) = Len(f) + Len(<<"_">>)
        /\ \A i \in 1..(Len(f) + Len(<<"_">>)) : p[i] = IF i <= Len(f) THEN f[i] ELSE <<"_">>[i - Len(f)]
      BY <1>1, <1>2, <2>1, ConcatProperties
  <2>3. \A i \in 1..Len(f) : i \in 1..(Len(f) + Len(<<"_">>)) /\ i <= Len(f)
      BY <2>1
  <2>. QED  BY <2>1, <2>2, <2>3
<1>4. \A b \in 0..MaxNames : Numbered(f, b) = p \o to_string[b] /\ to_string[b] \in Seq(Char)
    BY <1>2, Spelling DEF Numbered, Cell
<1>5. Numbered(f, a) \in Seq(Char) /\ IsPrefix(f, Numbered(f, a))
  <2>1. PICK t \in Seq(Char) : t = to_string[a]
      BY <1>4
  <2>2. Len(f) \in Nat /\ Len(p) \in Nat /\ Len(t) \in Nat /\ Len(<<"_">>) \in Nat
      BY <1>1, <1>3, LenProperties
  <2>3. /\ p \o t \in Seq(Char) /\ Len(p \o t) = Len(p) + Len(t)
        /\ \A i \in 1..(Len(p) + Len(t)) : (p \o t)[i] = IF i <= Len(p) THEN p[i] ELSE t[i - Len(p)]
    <3>1. p \in Seq(Char)
        BY <1>3
    <3>. QED  BY <3>1, <2>1, ConcatProperties
  <2>4. \A i \in 1..Len(f) : i \in 1..(Len(p) + Len(t)) /\ i <= Len(p)
      BY <1>3, <2>2
  <2>5. Len(f) <= Len(p \o t) /\ \A i \in 1..Len(f) : f[i] = (p \o t)[i]
      BY <1>3, <2>2, <2>3, <2>4
  <2>6. IsPrefix(f, p \o t)
      BY <1>3, <2>3, <2>5, BeginsAlike
  <2>. QED  BY <1>4, <2>1, <2>3, <2>6
<1>6. ASSUME NEW b \in 0..MaxNames, Numbered(f, a) = Numbered(f, b) PROVE a = b
  <2>1. to_string[a] = to_string[b]
      BY <1>3, <1>4, <1>6, Cancel
  <2>. QED  BY <2>1, SpelledApart
<1>. QED  BY <1>5, <1>6 DEF Cell

\* There is a number that makes a new name, because there are more numbers than names.
LEMMA NewName ==
    ASSUME NEW names \in Seq(Cell), Len(names) <= MaxNames, NEW f \in Cell
    PROVE  UniqueName(names, f) \in Cell \ ToSet(names) /\ IsPrefix(f, UniqueName(names, f))
<1>1. Len(names) \in Nat /\ MaxNames \in Nat /\ DOMAIN names = 1..Len(names)
  <2>1. MaxNames \in Nat
      BY DEF MaxNames
  <2>. QED  BY <2>1, LenProperties
<1>. DEFINE N == Len(names)
            Free == {n \in 0..N : Numbered(f, n) \notin ToSet(names)}
<1>2. \A n \in 0..N : n \in 0..MaxNames
    BY <1>1
<1>3. Free # {}
  <2>. SUFFICES ASSUME Free = {} PROVE FALSE
      OBVIOUS
  <2>1. \A n \in 0..N : \E i \in 1..N : names[i] = Numbered(f, n)
      BY <1>1 DEF ToSet
  <2>. DEFINE h == [n \in 0..N |-> CHOOSE i \in 1..N : names[i] = Numbered(f, n)]
  <2>2. h \in [0..N -> 1..N] /\ \A n \in 0..N : names[h[n]] = Numbered(f, n)
      BY <2>1
  <2>3. IsFiniteSet(0..N) /\ IsFiniteSet(1..N) /\ Cardinality(0..N) = N + 1 /\ Cardinality(1..N) = N
    <3>1. N \in Int /\ 0 \in Int /\ 1 \in Int /\ N - 0 + 1 = N + 1 /\ N - 1 + 1 = N /\ ~(0 > N) /\ (1 > N => N = 0)
        BY <1>1
    <3>2. IsFiniteSet(0..N) /\ Cardinality(0..N) = IF 0 > N THEN 0 ELSE N - 0 + 1
        BY <3>1, FS_Interval
    <3>3. IsFiniteSet(1..N) /\ Cardinality(1..N) = IF 1 > N THEN 0 ELSE N - 1 + 1
        BY <3>1, FS_Interval
    <3>. QED  BY <3>1, <3>2, <3>3
  <2>. HIDE DEF h
  <2>4. Cardinality(1..N) < Cardinality(0..N)
      BY <1>1, <2>3
  <2>5. \E x, y \in 0..N : x # y /\ h[x] = h[y]
    <3>1. PICK A, B : A = 0..N /\ B = 1..N
        OBVIOUS
    <3>. HIDE DEF N
    <3>2. IsFiniteSet(A) /\ IsFiniteSet(B) /\ Cardinality(B) < Cardinality(A) /\ h \in [A -> B]
        BY <2>2, <2>3, <2>4, <3>1
    <3>3. \E x, y \in A : x # y /\ h[x] = h[y]
        BY <3>2, FS_PigeonHole
    <3>. QED  BY <3>1, <3>3
  <2>6. PICK x \in 0..N, y \in 0..N : x # y /\ h[x] = h[y]
      BY <2>5
  <2>7. Numbered(f, x) = Numbered(f, y)
      BY <2>2, <2>6
  <2>. QED  BY <1>2, <2>6, <2>7, NumberedName
<1>4. PICK a \in Free : \A n \in Free : a <= n
  <2>1. Free \in SUBSET Nat
      BY <1>1
  <2>. HIDE DEF Free
  <2>. QED  BY <1>3, <2>1, SmallestNumber
<1>5. a \in 0..N /\ Numbered(f, a) \notin ToSet(names) /\ \A m \in 0..(a - 1) : Numbered(f, m) \in ToSet(names)
  <2>1. \A m \in 0..(a - 1) : m \in 0..N /\ ~(a <= m)
      BY <1>1
  <2>. QED  BY <1>4, <2>1
<1>6. PICK b : b = CHOOSE n \in 0..N : /\ Numbered(f, n) \notin ToSet(names)
                                       /\ \A m \in 0..(n - 1) : Numbered(f, m) \in ToSet(names)
    OBVIOUS
<1>7. b \in 0..N /\ Numbered(f, b) \notin ToSet(names)
    BY <1>5, <1>6
<1>8. UniqueName(names, f) = Numbered(f, b)
    BY <1>6 DEF UniqueName
<1>. QED  BY <1>2, <1>7, <1>8, NumberedName

-----------------------------------------------------------------------------
(* Names that are made unique.                                               *)

\* A row of W names
RowOf(W) == {s \in Seq(Cell) : Len(s) = W}

\* Every name is still there, in its own column with or without something behind it,
\* and as it is in this column or one before.
Extends(s, u) == \A e \in DOMAIN s : /\ IsPrefix(s[e], u[e])
                                     /\ \E b \in 1..e : u[b] = s[e]

\* The first c names differ from all behind them.
Apart(s, c) == \A a, b \in DOMAIN s : a <= c /\ a < b => s[a] # s[b]

\* Such a row has a name in every column.
LEMMA RowFacts ==
    ASSUME NEW W \in Nat, NEW s \in RowOf(W)
    PROVE  s \in Seq(Cell) /\ Len(s) = W /\ DOMAIN s = 1..W /\ \A i \in 1..W : s[i] \in Cell
BY LenProperties, ElementOfSeq DEF RowOf

\* The beginning of a beginning is one, too.
LEMMA PrefixOrder ==
    /\ \A f \in Cell : IsPrefix(f, f)
    /\ \A f, g, h \in Cell : IsPrefix(f, g) /\ IsPrefix(g, h) => IsPrefix(f, h)
<1>1. ASSUME NEW f \in Cell PROVE IsPrefix(f, f)
    BY BeginsAlike, LenProperties DEF Cell
<1>2. ASSUME NEW f \in Cell, NEW g \in Cell, NEW h \in Cell, IsPrefix(f, g), IsPrefix(g, h) PROVE IsPrefix(f, h)
  <2>1. f \in Seq(Char) /\ g \in Seq(Char) /\ h \in Seq(Char)
      BY DEF Cell
  <2>2. Len(f) \in Nat /\ Len(g) \in Nat /\ Len(h) \in Nat
      BY <2>1, LenProperties
  <2>3. Len(f) <= Len(g) /\ \A i \in 1..Len(f) : f[i] = g[i]
      BY <1>2, <2>1, BeginsAlike
  <2>4. Len(g) <= Len(h) /\ \A i \in 1..Len(g) : g[i] = h[i]
      BY <1>2, <2>1, BeginsAlike
  <2>5. Len(f) <= Len(h) /\ \A i \in 1..Len(f) : f[i] = h[i]
      BY <2>2, <2>3, <2>4
  <2>. QED  BY <2>1, <2>5, BeginsAlike
<1>. QED  BY <1>1, <1>2

\* So does Extends, for rows.
LEMMA ExtendsOrder ==
    ASSUME NEW W \in Nat
    PROVE  /\ \A s \in RowOf(W) : Extends(s, s)
           /\ \A s, t, u \in RowOf(W) : Extends(s, t) /\ Extends(t, u) => Extends(s, u)
<1>1. ASSUME NEW s \in RowOf(W) PROVE Extends(s, s)
  <2>1. \A e \in 1..W : e \in 1..e
      OBVIOUS
  <2>. QED  BY <2>1, RowFacts, PrefixOrder DEF Extends
<1>2. ASSUME NEW s \in RowOf(W), NEW t \in RowOf(W), NEW u \in RowOf(W), Extends(s, t), Extends(t, u)
      PROVE  Extends(s, u)
  <2>1. DOMAIN s = 1..W /\ DOMAIN t = 1..W /\ \A i \in 1..W : s[i] \in Cell /\ t[i] \in Cell /\ u[i] \in Cell
      BY RowFacts
  <2>2. ASSUME NEW e \in 1..W PROVE IsPrefix(s[e], u[e]) /\ \E b \in 1..e : u[b] = s[e]
    <3>1. IsPrefix(s[e], t[e]) /\ IsPrefix(t[e], u[e])
        BY <1>2, <2>1 DEF Extends
    <3>2. PICK b \in 1..e : t[b] = s[e]
        BY <1>2, <2>1 DEF Extends
    <3>3. b \in 1..W
        OBVIOUS
    <3>4. PICK a \in 1..b : u[a] = t[b]
        BY <1>2, <2>1, <3>3 DEF Extends
    <3>5. a \in 1..e
        BY <3>3
    <3>. QED  BY <2>1, <3>1, <3>2, <3>4, <3>5, PrefixOrder
  <2>. QED  BY <2>1, <2>2 DEF Extends
<1>. QED  BY <1>1, <1>2

\* The name in column d is called like that in column c before it.
Renaming(s, c, d) == IF c < d /\ s[c] = s[d] THEN [s EXCEPT ![d] = UniqueName(s, @)] ELSE s

\* The name in column c differs from all behind it up to d.
Differs(s, c, d) == \A b \in (c + 1)..d : s[c] # s[b]

\* Then it gets a name that no column has, and begins as before.
LEMMA OneRenamed ==
    ASSUME NEW W \in Nat, W <= MaxNames, NEW s \in RowOf(W), NEW c \in 1..W, NEW d \in 1..W,
           NEW u, u = Renaming(s, c, d)
    PROVE  /\ u \in RowOf(W) /\ Extends(s, u)
           /\ Apart(s, c - 1) => Apart(u, c - 1)
           /\ Differs(s, c, d - 1) => Differs(u, c, d)
<1>1. s \in Seq(Cell) /\ Len(s) = W /\ DOMAIN s = 1..W /\ \A i \in 1..W : s[i] \in Cell
    BY RowFacts
<1>2. CASE ~(c < d /\ s[c] = s[d])
  <2>1. u = s
      BY <1>2 DEF Renaming
  <2>2. \A b \in (c + 1)..d : b = d \/ b \in (c + 1)..(d - 1)
      OBVIOUS
  <2>3. (\A b \in (c + 1)..(d - 1) : s[c] # s[b]) => (\A b \in (c + 1)..d : u[c] # u[b])
      BY <1>2, <2>1, <2>2
  <2>. QED  BY <2>1, <2>3, ExtendsOrder DEF Differs
<1>3. CASE c < d /\ s[c] = s[d]
  <2>1. PICK x : x = UniqueName(s, s[d])
      OBVIOUS
  <2>2. x \in Cell /\ IsPrefix(s[d], x) /\ \A i \in 1..W : s[i] # x
    <3>1. s[d] \in Cell
        BY <1>1
    <3>2. x \in Cell \ ToSet(s) /\ IsPrefix(s[d], x)
        BY <1>1, <2>1, <3>1, NewName
    <3>. QED  BY <1>1, <3>2 DEF ToSet
  <2>3. u = [s EXCEPT ![d] = x]
      BY <1>3, <2>1 DEF Renaming
  <2>4. u \in Seq(Cell) /\ Len(u) = W /\ DOMAIN u = 1..W /\ \A i \in 1..W : u[i] = IF i = d THEN x ELSE s[i]
      BY <1>1, <2>2, <2>3, ExceptSeq
  <2>5. u \in RowOf(W)
      BY <2>4 DEF RowOf
  <2>6. ASSUME NEW e \in 1..W PROVE IsPrefix(s[e], u[e]) /\ \E b \in 1..e : u[b] = s[e]
    <3>1. CASE e = d
      <4>1. c \in 1..e /\ c # d /\ u[c] = s[e]
          BY <1>3, <2>4, <3>1
      <4>. QED  BY <2>2, <2>4, <3>1, <4>1
    <3>2. CASE e # d
      <4>1. u[e] = s[e] /\ e \in 1..e /\ s[e] \in Cell
          BY <1>1, <2>4, <3>2
      <4>. QED  BY <4>1, PrefixOrder
    <3>. QED  BY <3>1, <3>2
  <2>7. Extends(s, u)
      BY <1>1, <2>6 DEF Extends
  <2>8. ASSUME Apart(s, c - 1), NEW a \in 1..W, NEW b \in 1..W, a <= c - 1, a < b PROVE u[a] # u[b]
    <3>1. s[a] # s[b] /\ a # d
        BY <1>1, <1>3, <2>8 DEF Apart
    <3>. QED  BY <2>2, <2>4, <3>1
  <2>9. Apart(s, c - 1) => Apart(u, c - 1)
      BY <2>4, <2>8 DEF Apart
  <2>10. ASSUME \A b \in (c + 1)..(d - 1) : s[c] # s[b], NEW b \in (c + 1)..d PROVE u[c] # u[b]
    <3>1. u[c] = s[c] /\ b \in 1..W
        BY <1>3, <2>4
    <3>2. CASE b = d
        BY <2>2, <2>4, <3>1, <3>2
    <3>3. CASE b # d
      <4>1. b \in (c + 1)..(d - 1)
          BY <3>3
      <4>. QED  BY <2>4, <2>10, <3>1, <3>3, <4>1
    <3>. QED  BY <3>2, <3>3
  <2>11. Differs(s, c, d - 1) => Differs(u, c, d)
      BY <2>10 DEF Differs
  <2>. QED  BY <2>5, <2>7, <2>9, <2>11
<1>. QED  BY <1>2, <1>3

\* After the loop over d, column c has a name of its own.
LEMMA RenamedRow ==
    ASSUME NEW W \in Nat, W <= MaxNames, NEW names \in RowOf(W), NEW c \in 1..W, Apart(names, c - 1)
    PROVE  Renamed(names, c) \in RowOf(W) /\ Extends(names, Renamed(names, c)) /\ Apart(Renamed(names, c), c)
<1>. DEFINE S == RowOf(W)
            g == [d \in 1..W |-> [s \in S |-> Renaming(s, c, d)]]
            Body(f) == [d \in 0..W |-> IF d = 0 THEN names
                                       ELSE LET s == f[d - 1]
                                            IN  IF c < d /\ s[c] = s[d] THEN [s EXCEPT ![d] = UniqueName(s, @)] ELSE s]
<1>1. Len(names) = W
    BY DEF RowOf
<1>2. \A d \in 1..W, s \in S : Renaming(s, c, d) \in S
    BY OneRenamed
<1>3. g \in [1..W -> [S -> S]]
  <2>. HIDE DEF S
  <2>. QED  BY <1>2
<1>4. PICK f \in [0..W -> S] : Iterates(f, W, names, g)
  <2>. HIDE DEF S, g
  <2>. QED  BY <1>3, Recursion DEF S
<1>5. \A d \in 1..W : f[d] = Renaming(f[d - 1], c, d)
  <2>1. \A d \in 1..W : d - 1 \in 0..W
      OBVIOUS
  <2>2. \A d \in 1..W, s \in S : g[d][s] = Renaming(s, c, d)
      OBVIOUS
  <2>3. \A d \in 1..W : f[d] = g[d][f[d - 1]]
      BY <1>4 DEF Iterates
  <2>. HIDE DEF S, g
  <2>. QED  BY <2>1, <2>2, <2>3
<1>6. \A d \in 0..W : d = 0 \/ d \in 1..W
    OBVIOUS
<1>7. f = Body(f)
  <2>1. \A d \in 0..W : f[d] = IF d = 0 THEN names ELSE Renaming(f[d - 1], c, d)
      BY <1>4, <1>5, <1>6 DEF Iterates
  <2>2. \A d \in 0..W : f[d] = IF d = 0 THEN names
                                       ELSE LET s == f[d - 1]
                                            IN  IF c < d /\ s[c] = s[d] THEN [s EXCEPT ![d] = UniqueName(s, @)] ELSE s
      BY <2>1 DEF Renaming
  <2>. QED  BY <1>4, <2>2
<1>. DEFINE h == CHOOSE k : k = Body(k)
<1>8. h = Body(h)
  <2>. HIDE DEF Body
  <2>. QED  BY <1>7
<1>9. Renamed(names, c) = h[W]
    BY <1>1 DEF Renamed
<1>. HIDE DEF h
<1>10. h[0] = names /\ \A d \in 1..W : h[d] = Renaming(h[d - 1], c, d)
  <2>1. \A d \in 0..W : h[d] = IF d = 0 THEN names
                                       ELSE LET s == h[d - 1]
                                            IN  IF c < d /\ s[c] = s[d] THEN [s EXCEPT ![d] = UniqueName(s, @)] ELSE s
      BY <1>8
  <2>2. 0 \in 0..W /\ \A d \in 1..W : d \in 0..W /\ d # 0
      OBVIOUS
  <2>. HIDE DEF Body
  <2>. QED  BY <2>1, <2>2 DEF Renaming
<1>. DEFINE Ok(d) == /\ h[d] \in S /\ Extends(names, h[d]) /\ Apart(h[d], c - 1)
                     /\ Differs(h[d], c, d)
            P == {d \in 0..W : Ok(d)}
<1>11. 0 \in P
  <2>1. Extends(names, names)
      BY ExtendsOrder
  <2>2. (c + 1)..0 = {} /\ 0 \in 0..W
      OBVIOUS
  <2>. QED  BY <1>10, <2>1, <2>2 DEF Differs
<1>12. ASSUME NEW d \in 1..W, d - 1 \in P PROVE d \in P
  <2>1. Ok(d - 1) /\ d \in 0..W
      BY <1>12
  <2>2. PICK s : s = h[d - 1]
      OBVIOUS
  <2>3. s \in RowOf(W) /\ Extends(names, s) /\ Apart(s, c - 1) /\ Differs(s, c, d - 1)
      BY <2>1, <2>2
  <2>4. h[d] = Renaming(s, c, d)
      BY <1>10, <2>2
  <2>5. /\ h[d] \in RowOf(W) /\ Extends(s, h[d]) /\ (Apart(s, c - 1) => Apart(h[d], c - 1))
        /\ Differs(s, c, d - 1) => Differs(h[d], c, d)
    <3>1. PICK u : u = Renaming(s, c, d)
        OBVIOUS
    <3>2. /\ u \in RowOf(W) /\ Extends(s, u) /\ (Apart(s, c - 1) => Apart(u, c - 1))
          /\ Differs(s, c, d - 1) => Differs(u, c, d)
      <4>1. s \in RowOf(W) /\ d \in 1..W
          BY <2>3
      <4>. QED  BY <4>1, <3>1, OneRenamed
    <3>. QED  BY <2>4, <3>1, <3>2
  <2>6. Extends(names, h[d])
      BY <2>3, <2>5, ExtendsOrder
  <2>. QED  BY <2>1, <2>3, <2>5, <2>6
<1>13. P = 0..W
  <2>1. P \in SUBSET (0..W)
      OBVIOUS
  <2>. HIDE DEF P
  <2>. QED  BY <1>11, <1>12, <2>1, UpTo
<1>14. Ok(W)
    BY <1>13
<1>15. Apart(h[W], c)
  <2>1. DOMAIN h[W] = 1..W
      BY <1>14, RowFacts
  <2>2. ASSUME NEW a \in 1..W, NEW b \in 1..W, a <= c, a < b PROVE h[W][a] # h[W][b]
    <3>1. CASE a = c
      <4>1. b \in (c + 1)..W
          BY <2>2, <3>1
      <4>. QED  BY <1>14, <3>1, <4>1 DEF Differs
    <3>2. CASE a # c
      <4>1. a <= c - 1
          BY <2>2, <3>2
      <4>. QED  BY <1>14, <2>1, <2>2, <4>1 DEF Apart
    <3>. QED  BY <3>1, <3>2
  <2>. QED  BY <2>1, <2>2 DEF Apart
<1>. QED  BY <1>9, <1>14, <1>15

\* After the loop over c, all names differ.
LEMMA UniqueRow ==
    ASSUME NEW W \in Nat, W <= MaxNames, NEW names \in RowOf(W)
    PROVE  MadeUnique(names) \in RowOf(W) /\ Extends(names, MadeUnique(names)) /\ Apart(MadeUnique(names), W)
<1>. DEFINE S(c) == {s \in RowOf(W) : Extends(names, s) /\ Apart(s, c)}
            R == RowOf(W)
            Next1(s, c) == IF s \in S(c - 1) THEN Renamed(s, c) ELSE names
            g == [c \in 1..W |-> [s \in R |-> Next1(s, c)]]
            Body(f) == [c \in 0..W |-> IF c = 0 THEN names ELSE Renamed(f[c - 1], c)]
<1>1. Len(names) = W /\ names \in R
    BY DEF RowOf
<1>2. ASSUME NEW c \in 1..W, NEW s \in S(c - 1) PROVE Renamed(s, c) \in S(c)
  <2>1. s \in RowOf(W) /\ Extends(names, s) /\ Apart(s, c - 1)
      OBVIOUS
  <2>2. Renamed(s, c) \in RowOf(W) /\ Extends(s, Renamed(s, c)) /\ Apart(Renamed(s, c), c)
      BY <2>1, RenamedRow
  <2>3. Extends(names, Renamed(s, c))
      BY <2>1, <2>2, ExtendsOrder
  <2>. QED  BY <2>2, <2>3
<1>3. \A c \in 1..W, s \in R : Next1(s, c) \in R
  <2>. SUFFICES ASSUME NEW c \in 1..W, NEW s \in R PROVE Next1(s, c) \in R
      OBVIOUS
  <2>1. s \in S(c - 1) => Renamed(s, c) \in R
      BY <1>2
  <2>. HIDE DEF S, R
  <2>. QED  BY <1>1, <2>1
<1>4. g \in [1..W -> [R -> R]]
  <2>. HIDE DEF R, Next1
  <2>. QED  BY <1>3
<1>5. PICK f \in [0..W -> R] : Iterates(f, W, names, g)
  <2>. HIDE DEF R, g
  <2>. QED  BY <1>1, <1>4, Recursion
<1>6. f[0] = names /\ \A c \in 1..W : f[c] = Next1(f[c - 1], c)
  <2>1. \A c \in 1..W : c - 1 \in 0..W
      OBVIOUS
  <2>. HIDE DEF Next1
  <2>2. \A c \in 1..W, s \in R : g[c][s] = Next1(s, c)
      OBVIOUS
  <2>3. f[0] = names /\ \A c \in 1..W : f[c] = g[c][f[c - 1]]
      BY <1>5 DEF Iterates
  <2>. HIDE DEF R, g
  <2>. QED  BY <2>1, <2>2, <2>3
<1>. DEFINE P == {c \in 0..W : f[c] \in S(c)}
<1>7. 0 \in P
  <2>1. Extends(names, names) /\ 0 \in 0..W
      BY ExtendsOrder
  <2>2. Apart(names, 0)
      BY RowFacts DEF Apart
  <2>. QED  BY <1>6, <2>1, <2>2
<1>8. ASSUME NEW c \in 1..W, c - 1 \in P PROVE c \in P
  <2>1. f[c - 1] \in S(c - 1) /\ c \in 0..W
      BY <1>8
  <2>2. f[c] = Renamed(f[c - 1], c)
    <3>. HIDE DEF S
    <3>. QED  BY <1>6, <2>1
  <2>3. PICK s : s = f[c - 1]
      OBVIOUS
  <2>4. Renamed(s, c) \in S(c)
    <3>. HIDE DEF S
    <3>. QED  BY <1>2, <2>1, <2>3
  <2>. HIDE DEF S
  <2>. QED  BY <2>1, <2>2, <2>3, <2>4
<1>9. P = 0..W
  <2>1. P \in SUBSET (0..W)
      OBVIOUS
  <2>. HIDE DEF P
  <2>. QED  BY <1>7, <1>8, <2>1, UpTo
<1>10. \A c \in 1..W : f[c] = Renamed(f[c - 1], c)
  <2>1. \A c \in 1..W : f[c - 1] \in S(c - 1)
    <3>1. \A c \in 1..W : c - 1 \in 0..W
        OBVIOUS
    <3>. HIDE DEF S
    <3>. QED  BY <1>9, <3>1
  <2>. HIDE DEF S
  <2>. QED  BY <1>6, <2>1
<1>11. f = Body(f)
  <2>1. \A c \in 0..W : c = 0 \/ c \in 1..W
      OBVIOUS
  <2>2. \A c \in 0..W : f[c] = IF c = 0 THEN names ELSE Renamed(f[c - 1], c)
      BY <1>6, <1>10, <2>1
  <2>. QED  BY <1>5, <2>2
<1>. DEFINE h == CHOOSE k : k = Body(k)
<1>12. h = Body(h)
  <2>. HIDE DEF Body
  <2>. QED  BY <1>11
<1>13. MadeUnique(names) = h[W]
    BY <1>1 DEF MadeUnique
<1>. HIDE DEF h
<1>14. h[0] = names /\ \A c \in 1..W : h[c] = Renamed(h[c - 1], c)
  <2>1. 0 \in 0..W /\ \A c \in 1..W : c \in 0..W /\ c # 0
      OBVIOUS
  <2>. QED  BY <1>12, <2>1
<1>. DEFINE Q == {c \in 0..W : h[c] = f[c]}
<1>15. Q = 0..W
  <2>1. 0 \in Q /\ Q \in SUBSET (0..W)
      BY <1>6, <1>14
  <2>2. ASSUME NEW c \in 1..W, c - 1 \in Q PROVE c \in Q
    <3>1. h[c - 1] = f[c - 1] /\ c \in 0..W
        BY <2>2
    <3>. QED  BY <1>10, <1>14, <3>1
  <2>. HIDE DEF Q
  <2>. QED  BY <2>1, <2>2, UpTo
<1>16. h[W] \in S(W)
  <2>1. W \in 0..W
      OBVIOUS
  <2>2. h[W] = f[W]
      BY <1>15, <2>1
  <2>. HIDE DEF S
  <2>. QED  BY <1>9, <2>1, <2>2
<1>. QED  BY <1>13, <1>16

\* Names that differ are cached, each with its column.
Cached(h, names) == /\ DOMAIN h = ToSet(names)
                    /\ \A c \in DOMAIN names : h[names[c]] = c

\* Names that are not empty are cached in this way, or none are.
LEMMA CacheLeads ==
    ASSUME NEW W \in Nat, NEW names \in RowOf(W), Apart(names, W)
    PROVE  /\ Cache(names) = NoNames \/ Cached(Cache(names), names)
           /\ \A f \in DOMAIN Cache(names) : f # <<>> /\ Cache(names)[f] \in 1..W /\ names[Cache(names)[f]] = f
<1>1. DOMAIN names = 1..W
    BY RowFacts
<1>2. CASE <<>> \in ToSet(names)
  <2>1. Cache(names) = NoNames
      BY <1>2 DEF Cache
  <2>. QED  BY <2>1 DEF NoNames
<1>3. CASE <<>> \notin ToSet(names)
  <2>. DEFINE h == [f \in ToSet(names) |-> CHOOSE c \in DOMAIN names : names[c] = f]
  <2>1. Cache(names) = h
      BY <1>3 DEF Cache
  <2>2. \A f \in ToSet(names) : \E c \in 1..W : names[c] = f
      BY <1>1 DEF ToSet
  <2>3. \A f \in ToSet(names) : h[f] \in 1..W /\ names[h[f]] = f
      BY <1>1, <2>2
  <2>4. DOMAIN h = ToSet(names)
      OBVIOUS
  <2>. HIDE DEF h
  <2>5. ASSUME NEW c \in 1..W PROVE h[names[c]] = c
    <3>1. names[c] \in ToSet(names)
        BY <1>1 DEF ToSet
    <3>2. PICK d : d = h[names[c]]
        OBVIOUS
    <3>3. d \in 1..W /\ names[d] = names[c]
        BY <2>3, <3>1, <3>2
    <3>4. ~(d < c) /\ ~(c < d)
        BY <1>1, <3>3 DEF Apart
    <3>. QED  BY <3>2, <3>3, <3>4
  <2>6. \A f \in DOMAIN h : f # <<>>
      BY <1>3, <2>4
  <2>. QED  BY <1>1, <2>1, <2>3, <2>4, <2>5, <2>6 DEF Cached
<1>. QED  BY <1>2, <1>3

-----------------------------------------------------------------------------
(* The header of a table.                                                    *)

\* The header row is the first one there is.
LEMMA HeaderOf ==
    ASSUME NEW t, NEW R \in Nat, Full(t, R), R # 0
    PROVE  /\ HeaderRow(t) \in RowOf(t.cols) /\ NumRows(t) = R /\ t.cols \in Nat /\ t.cols >= 1
           /\ \A c \in 1..t.cols : HeaderRow(t)[c] = At(t, c - 1, 0)
<1>1. NumRows(t) = R /\ t.cols \in Nat \ {0} /\ t.data \in Seq(Cell) /\ Len(t.data) = t.cols * R
    BY FullRows DEF Full
<1>2. PICK w \in Nat : w = t.cols /\ w >= 1
    BY <1>1
<1>3. w <= Len(t.data) /\ Len(t.data) \in Nat
  <2>1. 1 \in Nat /\ 1 <= R
      OBVIOUS
  <2>2. w * 1 <= w * R
      BY <2>1, <1>2, Grows
  <2>. QED  BY <1>1, <1>2, <2>2, LenProperties
<1>4. \A i \in 1..w : t.data[i] \in Cell
    BY <1>1, <1>3, ElementOfSeq
<1>5. PICK h : h = SubSeq(t.data, 1, w)
    OBVIOUS
<1>6. h \in Seq(Cell) /\ Len(h) = w /\ \A i \in 1..w : h[i] = t.data[i]
  <2>1. /\ h \in Seq(Cell) /\ Len(h) = IF 1 <= w THEN w - 1 + 1 ELSE 0
        /\ \A i \in 1..(w - 1 + 1) : h[i] = t.data[1 + i - 1]
      BY <1>4, <1>5, SubSeqProperties
  <2>2. Len(h) = w /\ \A i \in 1..w : i \in 1..(w - 1 + 1) /\ 1 + i - 1 = i
      BY <1>2, <2>1
  <2>. QED  BY <2>1, <2>2
<1>7. HeaderRow(t) = h
    BY <1>1, <1>2, <1>5 DEF HeaderRow
<1>8. \A c \in 1..w : 0 * w + (c - 1) + 1 = c
    BY <1>2
<1>. QED  BY <1>1, <1>2, <1>6, <1>7, <1>8 DEF RowOf, At

\* A table without rows has no header.
LEMMA NoHeader ==
    ASSUME NEW t, t.cols = 0 \/ Full(t, 0)
    PROVE  NumRows(t) = 0 /\ HeaderRow(t) = <<>>
BY FullRows DEF NumRows, HeaderRow

\* Tables that can be counted, and stay so with as many rows as a program asks for
Sized(t) == /\ t \in Tables /\ (t.cols <= 2 \/ t.cols <= MaxCells)
            /\ t.cols = 0 => t.data = <<>>
            /\ t.cols # 0 => \E R \in Nat : Full(t, R)

\* What the bounds have to do with each other.
LEMMA Bounds == MaxNames \in Nat /\ MaxCells \in Nat /\ MaxCells <= MaxNames /\ 2 <= MaxNames /\ MaxRows \in Nat
BY CsvTableAssumption, HeaderedTableAssumption DEF MaxNames

\* The cells of any number of rows that a program asks for can be counted.
LEMMA CanBeCounted ==
    ASSUME NEW t, Sized(t), NEW n \in 0..MaxRows
    PROVE  t.cols * n < Wide
<1>1. t.cols \in Nat /\ n \in Nat /\ n <= MaxRows /\ MaxRows \in Nat /\ MaxCells \in Nat
    BY Bounds DEF Sized, Tables
<1>2. ASSUME NEW k \in Nat, t.cols <= k, k * MaxRows < Wide PROVE t.cols * n < Wide
  <2>1. k * n <= k * MaxRows /\ k * n \in Nat /\ k * MaxRows \in Nat
      BY <1>1, Grows
  <2>2. n * t.cols <= n * k /\ n * t.cols \in Nat
      BY <1>1, <1>2, Grows
  <2>3. n * t.cols = t.cols * n /\ n * k = k * n
      BY <1>1
  <2>4. PICK x \in Nat, y \in Nat, z \in Nat : x = t.cols * n /\ y = k * n /\ z = k * MaxRows
      BY <2>1, <2>2, <2>3
  <2>5. x <= y /\ y <= z /\ z < Wide
      BY <1>2, <2>1, <2>2, <2>3, <2>4
  <2>6. x < Wide
      BY <2>5, TableAssumption
  <2>. QED  BY <2>4, <2>6
<1>3. CASE t.cols <= 2
  <2>1. 2 \in Nat /\ 2 * MaxRows < Wide
      BY CsvTableAssumption
  <2>. QED  BY <1>2, <1>3, <2>1
<1>4. CASE t.cols <= MaxCells
    BY <1>1, <1>2, <1>4, CsvTableAssumption
<1>. QED  BY <1>3, <1>4 DEF Sized

\* makeHeadersUnique_() writes to the first row only.
LEMMA HeaderWritten ==
    ASSUME NEW t, NEW R \in Nat, Full(t, R), R # 0, NEW names \in RowOf(t.cols)
    PROVE  /\ Full(WithHeader(t, names), R) /\ WithHeader(t, names).cols = t.cols
           /\ HeaderRow(WithHeader(t, names)) = names
<1>1. NumRows(t) = R /\ t.cols \in Nat \ {0} /\ t.data \in Seq(Cell) /\ Len(t.data) = t.cols * R /\ t \in Tables
    BY FullRows DEF Full
<1>2. PICK w \in Nat, n \in Nat : w = t.cols /\ w >= 1 /\ n = Len(t.data)
    BY <1>1, LenProperties
<1>3. w <= n
  <2>1. 1 \in Nat /\ 1 <= R
      OBVIOUS
  <2>2. w * 1 <= w * R
      BY <2>1, <1>2, Grows
  <2>. QED  BY <1>1, <1>2, <2>2
<1>4. names \in Seq(Cell) /\ Len(names) = w /\ \A i \in 1..w : names[i] \in Cell
    BY <1>2, RowFacts
<1>5. PICK rest : rest = SubSeq(t.data, w + 1, n)
    OBVIOUS
<1>6. rest \in Seq(Cell) /\ Len(rest) = n - w
  <2>1. w + 1 \in Int /\ n \in Int /\ \A i \in (w + 1)..n : i \in 1..n
      BY <1>2
  <2>2. \A i \in (w + 1)..n : t.data[i] \in Cell
      BY <1>1, <1>2, <2>1, ElementOfSeq
  <2>3. rest \in Seq(Cell) /\ Len(rest) = IF w + 1 <= n THEN n - (w + 1) + 1 ELSE 0
      BY <1>5, <2>1, <2>2, SubSeqProperties
  <2>. QED  BY <1>2, <1>3, <2>3
<1>7. PICK d : d = names \o rest
    OBVIOUS
<1>8. d \in Seq(Cell) /\ Len(d) = n /\ \A i \in 1..w : d[i] = names[i]
  <2>1. /\ d \in Seq(Cell) /\ Len(d) = Len(names) + Len(rest)
        /\ \A i \in 1..(Len(names) + Len(rest)) : d[i] = IF i <= Len(names) THEN names[i] ELSE rest[i - Len(names)]
      BY <1>4, <1>6, <1>7, ConcatProperties
  <2>2. Len(names) + Len(rest) = n
      BY <1>4, <1>6
  <2>3. \A i \in 1..w : i \in 1..n /\ i <= w
      BY <1>3
  <2>. QED  BY <1>4, <2>1, <2>2, <2>3
<1>9. PICK u : u = WithHeader(t, names)
    OBVIOUS
<1>10. u = [t EXCEPT !.data = d]
    BY <1>2, <1>5, <1>7, <1>9 DEF WithHeader
<1>11. u \in Tables /\ u.cols = t.cols /\ u.data = d
    BY <1>1, <1>8, <1>10 DEF Tables
<1>12. Full(u, R)
    BY <1>1, <1>2, <1>8, <1>11 DEF Full
<1>13. HeaderRow(u) = names
  <2>1. /\ HeaderRow(u) \in RowOf(w) /\ \A c \in 1..w : HeaderRow(u)[c] = At(u, c - 1, 0)
      BY <1>2, <1>11, <1>12, HeaderOf
  <2>2. ASSUME NEW c \in 1..w PROVE HeaderRow(u)[c] = names[c]
    <3>1. 0 * w + (c - 1) + 1 = c
        OBVIOUS
    <3>. QED  BY <1>2, <1>8, <1>11, <2>1, <3>1 DEF At
  <2>3. HeaderRow(u) \in Seq(Cell) /\ Len(HeaderRow(u)) = w
      BY <2>1, RowFacts
  <2>. QED  BY <1>4, <2>2, <2>3, SeqEqual
<1>. QED  BY <1>9, <1>11, <1>12, <1>13

-----------------------------------------------------------------------------
(* The inductive invariant.                                                  *)

\* The names a program gave are the names of their columns, or what these begin
\* with, and each of them is the name of this column or one before.
Keeps(g, names) == /\ DOMAIN g = DOMAIN names
                   /\ \A c \in DOMAIN names : /\ g[c] \in Cell /\ IsPrefix(g[c], names[c])
                                              /\ g[c] # <<>> => \E b \in 1..c : names[b] = g[c]

\* As long as the program leaves names alone, and for a cache that is filled
Named == ~rewritten =>
            /\ NumRows(table) = 0 => given = <<>> /\ hdrs = NoNames
            /\ Keeps(given, HeaderRow(table))
            /\ hdrs # NoNames => Cached(hdrs, HeaderRow(table))

\* The cache leads to columns, whatever the program does to names.
Leads == \A f \in DOMAIN hdrs : hdrs[f] \in 1..table.cols

TableGood == Sized(table) /\ Leads /\ rewritten \in BOOLEAN /\ Named

IInv == WriterGood /\ TableGood

\* A header that is given is what the program gave.
LEMMA KeepsItself ==
    ASSUME NEW W \in Nat, NEW s \in RowOf(W)
    PROVE  Keeps(s, s)
<1>1. DOMAIN s = 1..W /\ \A c \in 1..W : s[c] \in Cell /\ c \in 1..c
    BY RowFacts
<1>. QED  BY <1>1, PrefixOrder DEF Keeps

\* What the program gave stays so when names are extended.
LEMMA KeepsOn ==
    ASSUME NEW W \in Nat, NEW s \in RowOf(W), NEW u \in RowOf(W), Extends(s, u), NEW g, Keeps(g, s)
    PROVE  Keeps(g, u)
<1>1. DOMAIN s = 1..W /\ DOMAIN u = 1..W /\ \A c \in 1..W : s[c] \in Cell /\ u[c] \in Cell
    BY RowFacts
<1>2. ASSUME NEW c \in 1..W
      PROVE  g[c] \in Cell /\ IsPrefix(g[c], u[c]) /\ (g[c] # <<>> => \E b \in 1..c : u[b] = g[c])
  <2>1. g[c] \in Cell /\ IsPrefix(g[c], s[c]) /\ (g[c] # <<>> => \E b \in 1..c : s[b] = g[c])
      BY <1>1 DEF Keeps
  <2>2. IsPrefix(g[c], u[c])
      BY <1>1, <2>1, PrefixOrder DEF Extends
  <2>3. ASSUME g[c] # <<>> PROVE \E b \in 1..c : u[b] = g[c]
    <3>1. PICK b \in 1..c : s[b] = g[c]
        BY <2>1, <2>3
    <3>2. b \in 1..W
        OBVIOUS
    <3>3. PICK a \in 1..b : u[a] = s[b]
        BY <1>1, <3>2 DEF Extends
    <3>4. a \in 1..c
        OBVIOUS
    <3>. QED  BY <3>1, <3>3, <3>4
  <2>. QED  BY <2>1, <2>2, <2>3
<1>. QED  BY <1>1, <1>2 DEF Keeps

\* What there is to know of a table that is good.
LEMMA GoodHeader ==
    ASSUME NEW t, Sized(t)
    PROVE  /\ NumRows(t) \in Nat /\ t.cols \in Nat /\ t.cols <= MaxNames
           /\ NumRows(t) = 0 => HeaderRow(t) = <<>>
           /\ NumRows(t) # 0 => HeaderRow(t) \in RowOf(t.cols) /\ t.cols >= 1
           /\ t.cols # 0 => Full(t, NumRows(t))
<1>1. t.cols \in Nat /\ t.cols <= MaxNames
  <2>1. t.cols \in Nat /\ (t.cols <= 2 \/ t.cols <= MaxCells)
      BY DEF Sized, Tables
  <2>. QED  BY <2>1, Bounds
<1>2. CASE t.cols = 0
    BY <1>1, <1>2, NoHeader
<1>3. CASE t.cols # 0
  <2>1. PICK R \in Nat : Full(t, R)
      BY <1>3 DEF Sized
  <2>2. NumRows(t) = R
      BY <2>1, FullRows
  <2>3. R = 0 => HeaderRow(t) = <<>>
      BY <2>1, NoHeader
  <2>4. R # 0 => HeaderRow(t) \in RowOf(t.cols) /\ t.cols >= 1
      BY <2>1, HeaderOf
  <2>. QED  BY <1>1, <2>1, <2>2, <2>3, <2>4
<1>. QED  BY <1>2, <1>3

\* Other cells in the same columns change nothing of that.
LEMMA SizedOn ==
    ASSUME NEW t, Sized(t), NEW u, NEW R \in Nat, Full(u, R), u.cols = t.cols
    PROVE  Sized(u)
BY DEF Sized, Full

\* The program writes to the table by the numbers of its cells.
LEMMA RenamesOn ==
    ASSUME TableGood, Sized(table'), table'.cols = table.cols, Renames(table'), hdrs' = hdrs
    PROVE  TableGood'
<1>. DEFINE old == HeaderRow(table)
            new == HeaderRow(table')
            W == table.cols
<1>1. /\ W \in Nat /\ (NumRows(table) = 0 => old = <<>>) /\ (NumRows(table') = 0 => new = <<>>)
      /\ NumRows(table) # 0 => old \in RowOf(W) /\ W >= 1
      /\ NumRows(table') # 0 => new \in RowOf(W) /\ W >= 1
    BY GoodHeader DEF TableGood
<1>2. /\ NumRows(table) # 0 => old # <<>> /\ DOMAIN old = 1..W /\ \A c \in 1..W : old[c] \in Cell
      /\ NumRows(table') # 0 => new # <<>> /\ DOMAIN new = 1..W /\ \A c \in 1..W : new[c] \in Cell
  <2>1. ASSUME NEW s \in RowOf(W), W >= 1 PROVE s # <<>> /\ DOMAIN s = 1..W /\ \A c \in 1..W : s[c] \in Cell
    <3>1. Len(s) # 0
        BY <1>1, <2>1, RowFacts
    <3>2. Len(<<>>) = 0
        BY EmptySeq
    <3>. QED  BY <1>1, <3>1, <3>2, RowFacts
  <2>. HIDE DEF old, new
  <2>. QED  BY <1>1, <2>1
<1>3. Leads' /\ rewritten' \in BOOLEAN
    BY DEF TableGood, Leads, Renames
<1>4. CASE old = new
  <2>1. UNCHANGED <<given, rewritten>>
      BY <1>4 DEF Renames
  <2>2. NumRows(table') = 0 => NumRows(table) = 0
      BY <1>1, <1>2, <1>4
  <2>3. Named'
      BY <1>4, <2>1, <2>2 DEF TableGood, Named
  <2>. QED  BY <1>3, <2>3 DEF TableGood
<1>5. CASE old # new
  <2>1. /\ given' = [c \in 1..W |->
                            IF c \in DOMAIN old /\ c \in DOMAIN new /\ old[c] = new[c] THEN given[c]
                            ELSE IF c \in DOMAIN new THEN new[c] ELSE <<>>]
        /\ rewritten' = \/ rewritten \/ hdrs # NoNames \/ new = <<>>
                        \/ \E c \in DOMAIN old : old[c] # <<>> /\ old[c] # new[c]
      BY <1>5 DEF Renames
  <2>2. ASSUME ~rewritten'
        PROVE  /\ NumRows(table') # 0 /\ hdrs = NoNames /\ Keeps(given', new)
    <3>1. ~rewritten /\ hdrs = NoNames /\ new # <<>> /\ \A c \in DOMAIN old : old[c] = <<>> \/ old[c] = new[c]
        BY <2>1, <2>2
    <3>2. NumRows(table') # 0 /\ DOMAIN new = 1..W /\ \A c \in 1..W : new[c] \in Cell
        BY <1>1, <1>2, <3>1
    <3>3. Keeps(given, old)
        BY <3>1 DEF TableGood, Named
    <3>4. DOMAIN old = 1..W \/ DOMAIN old = {}
        BY <1>1, <1>2
    <3>5. PICK g : g = given'
        OBVIOUS
    <3>6. \A c \in 1..W : g[c] = IF c \in DOMAIN old /\ old[c] = new[c] THEN given[c] ELSE new[c]
        BY <2>1, <3>2, <3>5
    <3>7. DOMAIN g = 1..W
        BY <2>1, <3>5
    <3>. HIDE DEF old, new, W
    <3>8. ASSUME NEW c \in 1..W
          PROVE  g[c] \in Cell /\ IsPrefix(g[c], new[c]) /\ (g[c] # <<>> => \E b \in 1..c : new[b] = g[c])
      <4>1. CASE c \in DOMAIN old /\ old[c] = new[c]
        <5>1. g[c] = given[c]
            BY <3>6, <4>1
        <5>2. given[c] \in Cell /\ IsPrefix(given[c], new[c]) /\ (given[c] # <<>> => \E b \in 1..c : old[b] = given[c])
            BY <3>3, <4>1 DEF Keeps
        <5>3. \A b \in 1..c : b \in DOMAIN old
            BY <1>1, <3>4, <4>1
        <5>4. given[c] # <<>> => \E b \in 1..c : new[b] = given[c]
            BY <3>1, <5>2, <5>3
        <5>. QED  BY <5>1, <5>2, <5>4
      <4>2. CASE ~(c \in DOMAIN old /\ old[c] = new[c])
        <5>1. g[c] = new[c] /\ new[c] \in Cell /\ c \in 1..c
            BY <1>1, <3>2, <3>6, <4>2
        <5>. QED  BY <5>1, PrefixOrder
      <4>. QED  BY <4>1, <4>2
    <3>9. Keeps(g, new)
        BY <3>2, <3>7, <3>8 DEF Keeps
    <3>. QED  BY <3>1, <3>2, <3>5, <3>9
  <2>3. Named'
      BY <2>2 DEF Named
  <2>. QED  BY <1>3, <2>3 DEF TableGood
<1>. QED  BY <1>4, <1>5

-----------------------------------------------------------------------------
(* What a program does with a table keeps it.                                *)

\* columns(n), on a table without columns
LEMMA ColumnsKeep ==
    ASSUME TableGood, NEW n \in 1..2, Columns(n)
    PROVE  TableGood'
<1>1. table \in Tables /\ table.cols = 0 /\ table.data = <<>> /\ table' = [table EXCEPT !.cols = n]
      /\ UNCHANGED <<hdrs, given, rewritten>>
    BY DEF TableGood, Sized, Columns
<1>2. table' \in Tables /\ table'.cols = n /\ table'.data = <<>> /\ n \in Nat
    BY <1>1 DEF Tables
<1>3. Full(table', 0)
  <2>1. Len(<<>>) = 0 /\ n * 0 = 0 /\ n # 0
      BY <1>2, EmptySeq
  <2>. QED  BY <1>2, <2>1 DEF Full
<1>4. Sized(table')
    BY <1>2, <1>3 DEF Sized
<1>5. NumRows(table) = 0 /\ HeaderRow(table) = <<>> /\ NumRows(table') = 0 /\ HeaderRow(table') = <<>>
    BY <1>1, <1>3, NoHeader
<1>6. Leads'
  <2>1. ASSUME NEW g \in DOMAIN hdrs PROVE FALSE
    <3>1. hdrs[g] \in 1..0
        BY <1>1 DEF TableGood, Leads
    <3>. QED  BY <3>1
  <2>. QED  BY <1>1, <2>1 DEF Leads
<1>7. Named'
    BY <1>1, <1>5 DEF TableGood, Named
<1>. QED  BY <1>1, <1>4, <1>6, <1>7 DEF TableGood

\* rows(n)
LEMMA RowCountKeeps ==
    ASSUME TableGood, NEW n \in 0..MaxRows, SetRowCount(n)
    PROVE  TableGood'
<1>1. Sized(table) /\ table.cols # 0 /\ table' = SetRows(table, n) /\ Renames(table') /\ hdrs' = hdrs
    BY DEF TableGood, SetRowCount
<1>2. NumRows(table) \in Nat /\ Full(table, NumRows(table))
    BY <1>1, GoodHeader
<1>3. n \in Nat /\ table.cols * n < Wide
    BY <1>1, CanBeCounted, Bounds
<1>4. Full(table', n) /\ table'.cols = table.cols
    BY <1>1, <1>2, <1>3, RowsSet
<1>5. Sized(table')
    BY <1>1, <1>3, <1>4, SizedOn
<1>. QED  BY <1>1, <1>4, <1>5, RenamesOn

\* cell(col, row) = f
LEMMA PutKeeps ==
    ASSUME TableGood, NEW col \in 0..table.cols, NEW row \in 0..(MaxRows - 1), NEW f \in Texts, Put(col, row, f)
    PROVE  TableGood'
<1>1. Sized(table) /\ table.cols # 0 /\ table' = Assign(table, col, row, f) /\ Renames(table') /\ hdrs' = hdrs
    BY DEF TableGood, Put
<1>2. NumRows(table) \in Nat /\ Full(table, NumRows(table)) /\ table.cols \in Nat
    BY <1>1, GoodHeader
<1>3. CASE col >= table.cols
  <2>1. table' = table
      BY <1>1, <1>3 DEF Assign
  <2>. QED  BY <1>1, <2>1, RenamesOn
<1>4. CASE ~(col >= table.cols)
  <2>1. col \in 0..(table.cols - 1) /\ row \in Nat /\ row + 1 \in 0..MaxRows /\ f \in Cell
      BY <1>2, <1>4, Bounds, HeaderedTableAssumption
  <2>2. table.cols * (row + 1) < Wide
      BY <1>1, <2>1, CanBeCounted
  <2>3. PICK Q : Q = IF row < NumRows(table) THEN NumRows(table) ELSE row + 1
      OBVIOUS
  <2>4. Full(table', Q) /\ table'.cols = table.cols
      BY <1>1, <1>2, <2>1, <2>2, <2>3, Assigned
  <2>5. Q \in Nat
      BY <1>2, <2>1, <2>3
  <2>6. Sized(table')
      BY <1>1, <2>4, <2>5, SizedOn
  <2>. QED  BY <1>1, <2>4, <2>6, RenamesOn
<1>. QED  BY <1>3, <1>4

\* cell(name, row), with or without the names in the cache.
LEMMA PutNamedKeeps ==
    ASSUME TableGood, NEW name, NEW row \in 0..(MaxRows - 1), NEW f \in Texts, PutNamed(name, row, f)
    PROVE  TableGood'
<1>. DEFINE R == NumRows(table)
            W == table.cols
            H == HeaderRow(table)
<1>1. /\ Sized(table) /\ R \in Nat /\ R # 0 /\ W \in Nat /\ W <= MaxNames /\ W >= 1
      /\ H \in RowOf(W) /\ Full(table, R)
  <2>1. Sized(table) /\ NumRows(table) # 0
      BY DEF TableGood, PutNamed
  <2>. QED  BY <2>1, GoodHeader
<1>2. PICK unique : unique = IF hdrs = NoNames THEN MadeUnique(H) ELSE H
    OBVIOUS
<1>3. PICK read : read = WithHeader(table, unique)
    OBVIOUS
<1>4. PICK cached : cached = IF hdrs = NoNames THEN Cache(unique) ELSE hdrs
    OBVIOUS
<1>5. /\ hdrs' = cached /\ given' = given
      /\ name \in DOMAIN cached =>
           \/ table' = Reached(read, row) /\ rewritten' = rewritten
           \/ /\ table' = Assign(read, cached[name] - 1, row, f)
              /\ rewritten' = (rewritten \/ (row = 0 /\ f # name))
      /\ name \notin DOMAIN cached => table' = read /\ rewritten' = rewritten
    BY <1>2, <1>3, <1>4 DEF PutNamed
<1>. HIDE DEF R, W, H
<1>6. unique \in RowOf(W) /\ Extends(H, unique) /\ (hdrs = NoNames => Apart(unique, W))
    BY <1>1, <1>2, UniqueRow, ExtendsOrder
<1>7. Full(read, R) /\ read.cols = W /\ HeaderRow(read) = unique
  <2>1. unique \in RowOf(table.cols)
      BY <1>6 DEF W
  <2>. QED  BY <1>1, <1>3, <2>1, HeaderWritten DEF W
<1>8. \A g \in DOMAIN cached : cached[g] \in 1..W
  <2>1. CASE hdrs = NoNames
      BY <1>1, <1>4, <1>6, <2>1, CacheLeads
  <2>2. CASE hdrs # NoNames
      BY <1>4, <2>2 DEF TableGood, Leads, W
  <2>. QED  BY <2>1, <2>2
<1>9. ASSUME ~rewritten
      PROVE  /\ Keeps(given, unique) /\ (cached # NoNames => Cached(cached, unique))
             /\ \A g \in DOMAIN cached : unique[cached[g]] = g
  <2>1. Keeps(given, H)
      BY <1>9 DEF TableGood, Named, H
  <2>2. Keeps(given, unique)
      BY <1>1, <1>6, <2>1, KeepsOn
  <2>3. CASE hdrs = NoNames
      BY <1>1, <1>4, <1>6, <2>2, <2>3, CacheLeads
  <2>4. CASE hdrs # NoNames
    <3>1. cached = hdrs /\ unique = H /\ Cached(hdrs, H)
        BY <1>2, <1>4, <1>9, <2>4 DEF TableGood, Named, H
    <3>2. ASSUME NEW g \in DOMAIN cached PROVE unique[cached[g]] = g
      <4>1. PICK c \in DOMAIN H : H[c] = g
          BY <3>1 DEF Cached, ToSet
      <4>. QED  BY <3>1, <4>1 DEF Cached
    <3>. QED  BY <2>2, <3>1, <3>2
  <2>. QED  BY <2>3, <2>4
<1>10. /\ row \in Nat /\ row + 1 \in 0..MaxRows /\ f \in Cell /\ read.cols * (row + 1) < Wide
  <2>1. row \in Nat /\ row + 1 \in 0..MaxRows /\ f \in Cell
      BY Bounds, HeaderedTableAssumption
  <2>2. table.cols * (row + 1) < Wide
      BY <1>1, <2>1, CanBeCounted
  <2>. QED  BY <1>7, <2>1, <2>2 DEF W
<1>11. PICK Q \in Nat : Q = (IF row < R THEN R ELSE row + 1) /\ Q # 0 /\ row \in 0..(Q - 1) /\ 0 < Q
    BY <1>1, <1>10
\* Whatever becomes of the rows, the header is the unique one, unless the program rewrites it.
<1>12. ASSUME NEW u, NEW P \in Nat, P # 0, Full(u, P), u.cols = W, table' = u,
              \A c \in 1..W : At(u, c - 1, 0) = unique[c] \/ rewritten'
       PROVE  TableGood'
  <2>1. Sized(u)
      BY <1>1, <1>12, SizedOn DEF W
  <2>2. Leads'
      BY <1>5, <1>8, <1>12 DEF Leads
  <2>3. rewritten' \in BOOLEAN /\ (~rewritten' => ~rewritten)
    <3>1. rewritten \in BOOLEAN
        BY DEF TableGood
    <3>2. rewritten' = rewritten \/ rewritten' = (rewritten \/ (row = 0 /\ f # name))
        BY <1>5
    <3>3. CASE rewritten' = rewritten
        BY <3>1, <3>3
    <3>4. CASE rewritten' = (rewritten \/ (row = 0 /\ f # name))
        BY <3>1, <3>4, Zenon
    <3>. QED  BY <3>2, <3>3, <3>4
  <2>4. NumRows(u) = P /\ HeaderRow(u) \in RowOf(W) /\ \A c \in 1..W : HeaderRow(u)[c] = At(u, c - 1, 0)
      BY <1>12, HeaderOf
  <2>5. ASSUME ~rewritten' PROVE HeaderRow(u) = unique
    <3>1. /\ HeaderRow(u) \in Seq(Cell) /\ unique \in Seq(Cell) /\ Len(HeaderRow(u)) = W /\ Len(unique) = W
        BY <1>6, <2>4, RowFacts DEF RowOf
    <3>2. \A c \in 1..W : HeaderRow(u)[c] = unique[c]
        BY <1>12, <2>4, <2>5
    <3>. QED  BY <3>1, <3>2, SeqEqual
  <2>6. Named'
      BY <1>5, <1>9, <1>12, <2>3, <2>4, <2>5 DEF Named
  <2>. QED  BY <1>12, <2>1, <2>2, <2>3, <2>6 DEF TableGood
<1>13. \A c \in 1..W : At(read, c - 1, 0) = unique[c]
    BY <1>1, <1>7, HeaderOf
<1>14. CASE table' = read
    BY <1>1, <1>7, <1>12, <1>13, <1>14
<1>15. CASE table' = Reached(read, row)
  <2>1. /\ Full(table', Q) /\ table'.cols = W
        /\ \A r \in 0..(Q - 1), c \in 0..(read.cols - 1) :
                 At(table', c, r) = IF r < R THEN At(read, c, r) ELSE <<>>
    <3>1. R \in Nat /\ Full(read, R) /\ read.cols # 0 /\ row \in Nat /\ read.cols * (row + 1) < Wide
        BY <1>1, <1>7, <1>10
    <3>2. Q = IF row < R THEN R ELSE row + 1
        BY <1>11
    <3>3. PICK u : u = Reached(read, row)
        OBVIOUS
    <3>4. /\ Full(u, Q) /\ u.cols = read.cols
          /\ \A r \in 0..(Q - 1), c \in 0..(read.cols - 1) : At(u, c, r) = IF r < R THEN At(read, c, r) ELSE <<>>
        BY <3>1, <3>2, <3>3, RowsReached
    <3>5. table' = u
        BY <1>15, <3>3
    <3>. QED  BY <1>7, <3>4, <3>5
  <2>2. 0 \in 0..(Q - 1) /\ 0 < R /\ \A c \in 1..W : c - 1 \in 0..(read.cols - 1)
      BY <1>1, <1>7, <1>11
  <2>3. \A c \in 1..W : At(table', c - 1, 0) = unique[c]
      BY <1>13, <2>1, <2>2
  <2>. QED  BY <1>11, <1>12, <2>1, <2>3
<1>16. ASSUME name \in DOMAIN cached, table' = Assign(read, cached[name] - 1, row, f),
              rewritten' = (rewritten \/ (row = 0 /\ f # name))
       PROVE  TableGood'
  <2>1. PICK k \in 1..W : k = cached[name]
      BY <1>8, <1>16
  <2>2. k - 1 \in 0..(read.cols - 1)
      BY <1>7, <1>1
  <2>3. /\ Full(table', Q) /\ table'.cols = W
        /\ \A r \in 0..(Q - 1), c \in 0..(read.cols - 1) :
                 At(table', c, r) = IF c = k - 1 /\ r = row THEN f ELSE IF r < R THEN At(read, c, r) ELSE <<>>
    <3>1. R \in Nat /\ Full(read, R) /\ row \in Nat /\ f \in Cell /\ read.cols * (row + 1) < Wide
        BY <1>1, <1>7, <1>10
    <3>2. Q = IF row < R THEN R ELSE row + 1
        BY <1>11
    <3>3. PICK j \in 0..(read.cols - 1) : j = k - 1
        BY <2>2
    <3>4. PICK u : u = Assign(read, j, row, f)
        OBVIOUS
    <3>5. /\ Full(u, Q) /\ u.cols = read.cols
          /\ \A r \in 0..(Q - 1), c \in 0..(read.cols - 1) :
                 At(u, c, r) = IF c = j /\ r = row THEN f ELSE IF r < R THEN At(read, c, r) ELSE <<>>
        BY <3>1, <3>2, <3>4, Assigned
    <3>6. table' = u
        BY <1>16, <2>1, <3>3, <3>4
    <3>. QED  BY <1>7, <3>3, <3>5, <3>6
  <2>4. 0 \in 0..(Q - 1) /\ 0 < R /\ \A c \in 1..W : c - 1 \in 0..(read.cols - 1)
      BY <1>1, <1>7, <1>11
  <2>5. ASSUME NEW c \in 1..W, ~rewritten' PROVE At(table', c - 1, 0) = unique[c]
    <3>1. ~rewritten /\ (row = 0 => f = name)
        BY <1>16, <2>5
    <3>2. unique[k] = name
        BY <1>9, <1>16, <2>1, <3>1
    <3>3. CASE c - 1 = k - 1 /\ 0 = row
      <4>1. c = k
          BY <3>3
      <4>. QED  BY <2>3, <2>4, <3>1, <3>2, <3>3, <4>1
    <3>4. CASE ~(c - 1 = k - 1 /\ 0 = row)
        BY <1>13, <2>3, <2>4, <3>4
    <3>. QED  BY <3>3, <3>4
  <2>. QED  BY <1>11, <1>12, <2>3, <2>5
<1>. QED  BY <1>5, <1>14, <1>15, <1>16

-----------------------------------------------------------------------------
(* The invariant holds initially, and every step keeps it.                   *)

\* A setting is chosen from those there are.
LEMMA SettingsChosen ==
    ASSUME settings \in Settings
    PROVE  SomeSettings \in Settings
BY DEF SomeSettings

\* HeaderedTable t(readCSV(stream))
LEMMA ReadsKeep ==
    ASSUME IInv, Reads
    PROVE  IInv'
<1>1. PICK out \in Cell : out = writer.out
    BY DEF IInv, WriterGood, Written, Rectangular, Counting, Writer, Cell
<1>2. PICK read : read = readCSV(out)
    OBVIOUS
<1>3. /\ read.t.cols * read.row <= MaxCells
      /\ table' = read.t /\ hdrs' = NoNames /\ given' = HeaderRow(read.t) /\ rewritten' = FALSE
      /\ writer' = NewWriter /\ settings' = SomeSettings /\ calls' = 0
    BY <1>1, <1>2 DEF Reads
<1>4. Complete(read.t) /\ read.t.cols <= MaxCells
    BY <1>2, <1>3, ReadTable
<1>5. WriterGood'
  <2>1. settings \in Settings
      BY DEF IInv, WriterGood
  <2>2. SomeSettings \in Settings
      BY <2>1, SettingsChosen
  <2>. QED  BY <1>3, <2>2, WriterStarts, CsvAssumption DEF WriterGood
<1>6. PICK t : t = read.t
    OBVIOUS
<1>7. Sized(t) /\ Keeps(HeaderRow(t), HeaderRow(t)) /\ (NumRows(t) = 0 => HeaderRow(t) = <<>>)
  <2>1. CASE t = Columnless
    <3>1. t.cols = 0 /\ t.data = <<>> /\ t \in Tables
        BY <2>1, EmptySeq DEF Columnless, Tables
    <3>2. HeaderRow(t) = <<>>
        BY <3>1, NoHeader
    <3>. QED  BY <3>1, <3>2 DEF Sized, Keeps
  <2>2. CASE t # Columnless
    <3>1. PICK R \in Nat \ {0} : Full(t, R)
        BY <1>4, <1>6, <2>2 DEF Complete
    <3>2. R \in Nat /\ R # 0 /\ t.cols # 0 /\ t \in Tables
        BY <3>1 DEF Full
    <3>3. HeaderRow(t) \in RowOf(t.cols) /\ NumRows(t) = R /\ t.cols \in Nat
        BY <3>1, <3>2, HeaderOf
    <3>4. Keeps(HeaderRow(t), HeaderRow(t))
        BY <3>3, KeepsItself
    <3>. QED  BY <1>4, <1>6, <3>1, <3>2, <3>3, <3>4 DEF Sized
  <2>. QED  BY <2>1, <2>2
<1>8. TableGood'
  <2>1. Leads'
      BY <1>3 DEF Leads, NoNames
  <2>2. Named'
      BY <1>3, <1>6, <1>7 DEF Named
  <2>. QED  BY <1>3, <1>6, <1>7, <2>1, <2>2 DEF TableGood
<1>. QED  BY <1>5, <1>8 DEF IInv

\* Nothing is written at first, and the table has no columns.
LEMMA InitIInv == Init => IInv
<1>. SUFFICES ASSUME Init PROVE IInv
    OBVIOUS
<1>1. writer = NewWriter /\ settings \in Settings /\ calls = 0
    BY DEF Init, WriterInit
<1>2. table = Columnless /\ hdrs = <<>> /\ given = <<>> /\ rewritten = FALSE
    BY DEF Init, TableInit, NoNames
<1>3. WriterGood
    BY <1>1, WriterStarts, CsvAssumption DEF WriterGood
<1>4. table.cols = 0 /\ table.data = <<>> /\ table \in Tables
    BY <1>2, EmptySeq DEF Columnless, Tables
<1>5. NumRows(table) = 0 /\ HeaderRow(table) = <<>>
    BY <1>4, NoHeader
<1>6. Sized(table) /\ Leads
    BY <1>2, <1>4 DEF Sized, Leads
<1>7. Named
    BY <1>2, <1>5 DEF Named, Keeps, NoNames
<1>. QED  BY <1>2, <1>3, <1>6, <1>7 DEF IInv, TableGood

\* Every step keeps it.
LEMMA StepIInv == IInv /\ [Next]_vars => IInv'
<1>. SUFFICES ASSUME IInv, [Next]_vars PROVE IInv'
    OBVIOUS
<1>1. CASE Writes
  <2>1. WriterGood'
      BY <1>1, Wrote DEF IInv, Writes
  <2>2. TableGood'
      BY <1>1 DEF IInv, Writes, tableVars, TableGood, Sized, Leads, Named
  <2>. QED  BY <2>1, <2>2 DEF IInv
<1>2. CASE Reads
    BY <1>2, ReadsKeep
<1>3. CASE Uses
  <2>1. WriterGood'
      BY <1>3 DEF IInv, Uses, writerVars, WriterGood
  <2>2. TableGood /\ TableNext
      BY <1>3 DEF IInv, Uses
  <2>3. TableGood'
    <3>1. CASE \E n \in 1..2 : Columns(n)
      <4>1. PICK n \in 1..2 : Columns(n)
          BY <3>1
      <4>. QED  BY <2>2, <4>1, ColumnsKeep
    <3>2. CASE \E n \in 0..MaxRows : SetRowCount(n)
      <4>1. PICK n \in 0..MaxRows : SetRowCount(n)
          BY <3>2
      <4>. QED  BY <2>2, <4>1, RowCountKeeps
    <3>3. CASE \E row \in 0..(MaxRows - 1), f \in Texts, col \in 0..table.cols : Put(col, row, f)
      <4>1. PICK row \in 0..(MaxRows - 1), f \in Texts, col \in 0..table.cols : Put(col, row, f)
          BY <3>3
      <4>. QED  BY <2>2, <4>1, PutKeeps
    <3>4. CASE \E row \in 0..(MaxRows - 1), f \in Texts, name \in Names : PutNamed(name, row, f)
      <4>1. PICK row \in 0..(MaxRows - 1), f \in Texts, name \in Names : PutNamed(name, row, f)
          BY <3>4
      <4>. QED  BY <2>2, <4>1, PutNamedKeeps
    <3>. QED  BY <2>2, <3>1, <3>2, <3>3, <3>4 DEF TableNext
  <2>. QED  BY <2>1, <2>3 DEF IInv
<1>4. CASE UNCHANGED vars
    BY <1>4 DEF IInv, vars, writerVars, tableVars, WriterGood, TableGood, Sized, Leads, Named
<1>. QED  BY <1>1, <1>2, <1>3, <1>4 DEF Next

\* The writer's rows are rectangular, the table's are filled, and the names in the
\* cache are those of the header.
LEMMA Invariant == Spec => []IInv
<1>. QED  BY InitIInv, StepIInv, PTL DEF Spec

-----------------------------------------------------------------------------
(* The theorems.                                                             *)

\* The writer counts rows that are rectangular, cells fill their rows, and the
\* cache leads to columns (CsvWriter.cpp:34-119, Table.hpp, HeaderedTable.cpp).
THEOREM CsvTypes == Spec => []TypeOK
<1>1. ASSUME IInv PROVE TypeOK
  <2>1. WriterTypeOK
      BY <1>1 DEF IInv, WriterGood, Written, WriterTypeOK, Rectangular, Counting
  <2>2. table \in Tables /\ rewritten \in BOOLEAN /\ \A f \in DOMAIN hdrs : hdrs[f] \in 1..table.cols
      BY <1>1 DEF IInv, TableGood, Sized, Leads
  <2>3. ASSUME table.cols # 0 PROVE Len(table.data) % table.cols = 0
    <3>1. PICK R \in Nat : Full(table, R)
        BY <1>1, <2>3 DEF IInv, TableGood, Sized
    <3>. QED  BY <3>1, FullRows
  <2>. QED  BY <2>1, <2>2, <2>3 DEF TypeOK, TableTypeOK
<1>. QED  BY <1>1, Invariant, PTL

\* Where a program assigns, this cell has what was assigned and no other changes.
LEMMA CellsStay ==
    ASSUME IInv
    PROVE  CellsKept
<1>. SUFFICES ASSUME NEW row \in 0..(Wide - 1), NEW col \in 0..(table.cols - 1), NEW f \in Texts,
                     table.cols * (row + 1) < Wide
              PROVE  LET t == Assign(table, col, row, f)
                         at(x, c, r) == IF r < NumRows(x) THEN x.data[r * x.cols + c + 1] ELSE <<>>
                     IN  /\ NumRows(t) = IF row < NumRows(table) THEN NumRows(table) ELSE row + 1
                         /\ \A c \in 0..(table.cols - 1), r \in 0..(NumRows(t) - 1) :
                               at(t, c, r) = IF c = col /\ r = row THEN f ELSE at(table, c, r)
    BY DEF CellsKept
<1>1. row \in Nat /\ f \in Cell /\ table.cols \in Nat /\ table.cols # 0
  <2>1. table.cols \in Nat
      BY DEF IInv, TableGood, Sized, Tables
  <2>. QED  BY <2>1, TableAssumption, HeaderedTableAssumption
<1>2. PICK R \in Nat : Full(table, R)
    BY <1>1 DEF IInv, TableGood, Sized
<1>3. PICK t : t = Assign(table, col, row, f)
    OBVIOUS
<1>4. PICK Q \in Nat : Q = IF row < R THEN R ELSE row + 1
    BY <1>1
<1>5. /\ Full(t, Q) /\ t.cols = table.cols
      /\ \A r \in 0..(Q - 1), c \in 0..(table.cols - 1) :
            At(t, c, r) = IF c = col /\ r = row THEN f ELSE IF r < R THEN At(table, c, r) ELSE <<>>
  <2>1. PICK s : s = table
      OBVIOUS
  <2>2. Full(s, R) /\ R \in Nat /\ row \in Nat /\ s.cols * (row + 1) < Wide
      BY <1>1, <1>2, <2>1
  <2>5. PICK b \in 0..(s.cols - 1) : b = col
      BY <2>1
  <2>6. Q = IF row < R THEN R ELSE row + 1
      BY <1>4
  <2>3. PICK g \in Cell : g = f
      BY <1>1
  <2>4. /\ Full(Assign(s, b, row, g), Q) /\ Assign(s, b, row, g).cols = s.cols
        /\ \A r \in 0..(Q - 1), c \in 0..(s.cols - 1) :
              At(Assign(s, b, row, g), c, r) = IF c = b /\ r = row THEN g ELSE IF r < R THEN At(s, c, r) ELSE <<>>
      BY <2>2, <2>6, Assigned
  <2>. QED  BY <1>3, <2>1, <2>3, <2>4, <2>5
<1>6. Q \in Nat /\ NumRows(t) = Q /\ NumRows(table) = R
    BY <1>1, <1>2, <1>4, <1>5, FullRows
<1>7. ASSUME NEW c \in 0..(table.cols - 1), NEW r \in 0..(Q - 1)
      PROVE  (IF r < NumRows(t) THEN t.data[r * t.cols + c + 1] ELSE <<>>) =
                IF c = col /\ r = row THEN f
                ELSE IF r < NumRows(table) THEN table.data[r * table.cols + c + 1] ELSE <<>>
    BY <1>5, <1>6 DEF At
<1>. QED  BY <1>3, <1>4, <1>6, <1>7

\* A name in the cache is that of its column, and what a program gave is found.
LEMMA NamesStay ==
    ASSUME IInv
    PROVE  NamedColumns
<1>. SUFFICES ASSUME hdrs # NoNames, ~rewritten
              PROVE  /\ DOMAIN hdrs = ToSet(HeaderRow(table))
                     /\ \A c \in 1..table.cols :
                           /\ hdrs[HeaderRow(table)[c]] = c
                           /\ IsPrefix(given[c], HeaderRow(table)[c])
                           /\ given[c] # <<>> => given[c] \in DOMAIN hdrs /\ hdrs[given[c]] <= c
    BY DEF NamedColumns
<1>1. PICK H : H = HeaderRow(table)
    OBVIOUS
<1>2. Keeps(given, H) /\ Cached(hdrs, H) /\ NumRows(table) # 0
    BY <1>1 DEF IInv, TableGood, Named
<1>3. H \in RowOf(table.cols) /\ table.cols \in Nat
    BY <1>1, <1>2, GoodHeader DEF IInv, TableGood
<1>4. DOMAIN H = 1..table.cols
    BY <1>3, RowFacts
<1>5. DOMAIN hdrs = ToSet(H) /\ \A c \in 1..table.cols : hdrs[H[c]] = c
    BY <1>2, <1>4 DEF Cached
<1>6. ASSUME NEW c \in 1..table.cols
      PROVE  IsPrefix(given[c], H[c]) /\ (given[c] # <<>> => given[c] \in DOMAIN hdrs /\ hdrs[given[c]] <= c)
  <2>1. IsPrefix(given[c], H[c]) /\ (given[c] # <<>> => \E b \in 1..c : H[b] = given[c])
      BY <1>2, <1>4 DEF Keeps
  <2>2. ASSUME given[c] # <<>> PROVE given[c] \in DOMAIN hdrs /\ hdrs[given[c]] <= c
    <3>1. PICK b \in 1..c : H[b] = given[c]
        BY <2>1, <2>2
    <3>2. b \in 1..table.cols /\ b <= c
        BY <1>3
    <3>3. H[b] \in ToSet(H)
        BY <1>4, <3>2 DEF ToSet
    <3>. QED  BY <1>5, <3>1, <3>2, <3>3
  <2>. QED  BY <2>1, <2>2
<1>. QED  BY <1>1, <1>5, <1>6

\* Wherever a program assigns, that cell and no other changes as long as cells can
\* be counted; and once names are cached every column is found by a name of its
\* own, whatever failed before (Table.hpp:56-125, HeaderedTable.cpp:24-112).
THEOREM CellsAreFound == Spec => []CellsFound
<1>1. IInv => CellsFound
    BY CellsStay, NamesStay DEF CellsFound
<1>. QED  BY <1>1, Invariant, PTL

\* Rows that are complete and legible can be read, and the reader has come to their end.
LEMMA BackAgain ==
    ASSUME IInv
    PROVE  RoundTrip
<1>. SUFFICES ASSUME writer.begun = <<>>, writer.rows # <<>>, Legible(writer.rows),
                     writer.columns < MaxColumns, writer.columns * writer.lines < Wide
              PROVE  ~readCSV(writer.out).thrown /\ RowsOf(readCSV(writer.out).t) = writer.rows
    BY DEF RoundTrip
<1>1. PICK k : k = settings.quoting
    OBVIOUS
<1>2. Counting(writer) /\ ReadsBack(k, writer)
    BY <1>1 DEF IInv, WriterGood, Written, Rectangular
<1>3. writer.rows \in Seq(Seq(Cell)) /\ writer.out \in Cell /\ writer.lines \in Nat /\ writer.columns \in Nat
    BY <1>2, WrittenTexts
<1>4. Readable(k, writer)
  <2>1. \A i \in DOMAIN writer.rows : LegibleRow(k, writer.rows[i])
      BY <1>1 DEF Legible, LegibleRow
  <2>2. DOMAIN writer.begun = {}
      BY EmptySeq
  <2>3. writer.lines + (IF writer.begun = <<>> THEN 0 ELSE 1) = writer.lines
      BY <1>3
  <2>. QED  BY <2>1, <2>2, <2>3 DEF Readable, Legible
<1>5. PICK x \in Cell : x = <<>>
    BY EmptySeq DEF Cell
<1>6. PICK r : Reaches(writer.out \o x, r) /\ Stands(r, writer, k)
  <2>1. Continues(writer, x)
      BY DEF Continues
  <2>. QED  BY <1>2, <1>4, <2>1 DEF ReadsBack
<1>7. PICK s \in Cell : s = writer.out
    BY <1>3
<1>8. writer.out \o x = s
    BY <1>5, <1>7, ConcatEmptySeq DEF Cell
<1>9. PICK rows \in Seq(Seq(Cell)) : rows = writer.rows
    BY <1>3
<1>10. Reaches(s, r) /\ Before(r, rows, <<>>) /\ r.at = Len(s) + 1 /\ rows # <<>>
    BY <1>6, <1>7, <1>8, <1>9 DEF Stands
<1>11. ~readCSV(s).thrown /\ readCSV(s).t = r.t
    BY <1>10, EndReached
<1>12. Holds(r.t, Len(rows[1]), rows, <<>>)
    BY <1>10 DEF Before
<1>13. \A i \in 1..Len(rows) : Len(rows[i]) = Len(rows[1])
    BY <1>2, <1>4, <1>9, <1>10, ReadableRows
<1>14. RowsOf(r.t) = rows
    BY <1>12, <1>13, RowsHeld
<1>. QED  BY <1>7, <1>9, <1>11, <1>14

\* What readCSV() returns for what a CsvWriter has written is the rows it was
\* given, whatever they hold and whichever calls threw (CsvWriter.cpp, readCSV.cpp).
THEOREM WrittenIsReadBack == Spec => []RoundTrip
<1>1. IInv => RoundTrip
    BY BackAgain
<1>. QED  BY <1>1, Invariant, PTL
=============================================================================
