-------------------------- MODULE ObservableProofs --------------------------
(***************************************************************************)
(* Theorems about Observable, for any number of threads, observers and     *)
(* values, any nesting of set() calls and any length of the list.          *)
(***************************************************************************)
EXTENDS Observable, SequenceTheorems, WellFoundedInduction, TLAPS

-----------------------------------------------------------------------------
(* Sets of natural numbers, and induction over them                          *)

\* A set of numbers that is not empty has a smallest one.
LEMMA SmallestNumber ==
    ASSUME NEW P \in SUBSET Nat, P # {}
    PROVE  \E m \in P : \A y \in P : m <= y
<1>. DEFINE R == OpToRel(<, Nat)
<1>1. IsWellFoundedOn(R, Nat)
    BY NatLessThanWellFounded
<1>2. \E x \in P : \A y \in P : ~ (<<y, x>> \in R)
  <2>. HIDE DEF R
  <2>. QED  BY <1>1, WFMin
<1>3. PICK x \in P : \A y \in P : ~ (<<y, x>> \in R)
    BY <1>2
<1>4. ASSUME NEW y \in P PROVE x <= y
  <2>1. x \in Nat /\ y \in Nat
      OBVIOUS
  <2>2. y < x => <<y, x>> \in R
      BY <2>1 DEF OpToRel
  <2>. HIDE DEF R
  <2>3. ~ (y < x)
      BY <1>3, <2>2
  <2>. QED  BY <2>1, <2>3
<1>. QED  BY <1>4

\* A set of numbers that has 0 and the successor of each member has them all.
LEMMA NatInd ==
    ASSUME NEW T \in SUBSET Nat, 0 \in T, \A n \in T : n + 1 \in T
    PROVE  T = Nat
<1>. DEFINE U == Nat \ T
<1>1. ASSUME U # {} PROVE FALSE
  <2>1. U \in SUBSET Nat
      OBVIOUS
  <2>2. PICK x \in U : \A y \in U : x <= y
    <3>. HIDE DEF U
    <3>. QED  BY <1>1, <2>1, SmallestNumber
  <2>3. x \in Nat /\ x # 0
      BY <2>2
  <2>4. x - 1 \in Nat /\ x - 1 + 1 = x /\ ~(x <= x - 1)
      BY <2>3
  <2>5. x - 1 \in U
      BY <2>2, <2>4
  <2>. QED  BY <2>2, <2>4, <2>5
<1>. QED  BY <1>1

-----------------------------------------------------------------------------
(* Induction over the length of a list, for what Erased computes.            *)

Steps(kept, s, X) ==
    /\ kept[0] = <<>>
    /\ \A i \in 1..Len(s) :
          kept[i] = IF s[i] \in X THEN kept[i - 1] ELSE Append(kept[i - 1], s[i])

\* The function Erased is defined by exists, and has the values it says.
LEMMA ErasedSteps ==
    ASSUME NEW S, NEW s \in Seq(S), NEW X
    PROVE  \E kept \in [0..Len(s) -> Seq(S)] : Steps(kept, s, X) /\ Erased(s, X) = kept[Len(s)]
<1>. DEFINE Next1(f, i) == IF s[i] \in X THEN f[i - 1] ELSE Append(f[i - 1], s[i])
            Body(f, i) == IF i = 0 THEN <<>> ELSE Next1(f, i)
            Up(m) == \E f \in [0..m -> Seq(S)] : \A i \in 0..m : f[i] = Body(f, i)
            T == {m \in Nat : m <= Len(s) => Up(m)}
<1>1. Len(s) \in Nat /\ \A i \in 1..Len(s) : s[i] \in S
    BY LenProperties, ElementOfSeq
<1>2. 0 \in T
  <2>. DEFINE f == [i \in 0..0 |-> <<>>]
  <2>1. f \in [0..0 -> Seq(S)] /\ \A i \in 0..0 : f[i] = Body(f, i)
      BY EmptySeq
  <2>. QED  BY <2>1
<1>3. ASSUME NEW m \in T PROVE m + 1 \in T
  <2>. SUFFICES ASSUME m + 1 <= Len(s) PROVE Up(m + 1)
    <3>. HIDE DEF Up
    <3>. QED  OBVIOUS
  <2>0. Up(m)
    <3>. HIDE DEF Up
    <3>. QED  BY <1>1
  <2>1. PICK f \in [0..m -> Seq(S)] : \A i \in 0..m : f[i] = Body(f, i)
      BY <2>0
  <2>2. Next1(f, m + 1) \in Seq(S)
    <3>1. m + 1 \in 1..Len(s) /\ m + 1 - 1 = m /\ m \in 0..m
        BY <1>1
    <3>2. s[m + 1] \in S /\ f[m] \in Seq(S)
        BY <1>1, <2>1, <3>1
    <3>. QED  BY <3>1, <3>2, AppendProperties
  <2>. DEFINE g == [i \in 0..(m + 1) |-> IF i = m + 1 THEN Next1(f, m + 1) ELSE f[i]]
  <2>3. g \in [0..(m + 1) -> Seq(S)]
    <3>1. \A i \in 0..(m + 1) : i # m + 1 => i \in 0..m
        OBVIOUS
    <3>. HIDE DEF Next1
    <3>. QED  BY <2>1, <2>2, <3>1
  <2>4. ASSUME NEW i \in 0..(m + 1) PROVE g[i] = Body(g, i)
    <3>1. \A k \in 0..m : g[k] = f[k] /\ k \in 0..(m + 1)
        OBVIOUS
    <3>2. g[m + 1] = Next1(f, m + 1)
        OBVIOUS
    <3>. HIDE DEF g
    <3>3. CASE i = m + 1
      <4>1. i # 0 /\ i - 1 = m /\ m \in 0..m
          BY <3>3
      <4>2. g[i - 1] = f[m + 1 - 1]
          BY <3>1, <4>1, <3>3
      <4>. QED  BY <3>2, <3>3, <4>1, <4>2
    <3>4. CASE i # m + 1
      <4>1. i \in 0..m /\ (i # 0 => i - 1 \in 0..m)
          BY <3>4
      <4>2. g[i] = Body(f, i)
          BY <2>1, <3>1, <4>1
      <4>. QED  BY <3>1, <4>1, <4>2
    <3>. QED  BY <3>3, <3>4
  <2>. QED  BY <2>3, <2>4
<1>4. T = Nat
  <2>1. T \in SUBSET Nat
      OBVIOUS
  <2>. HIDE DEF T
  <2>. QED  BY <1>2, <1>3, <2>1, NatInd
<1>5. PICK f \in [0..Len(s) -> Seq(S)] : \A i \in 0..Len(s) : f[i] = Body(f, i)
    BY <1>1, <1>4
<1>. DEFINE kept == CHOOSE k : k = [i \in 0..Len(s) |-> Body(k, i)]
<1>6. kept = [i \in 0..Len(s) |-> Body(kept, i)]
  <2>1. f = [i \in 0..Len(s) |-> Body(f, i)]
    <3>. HIDE DEF Body
    <3>. QED  BY <1>5
  <2>. HIDE DEF Body
  <2>. QED  BY <2>1
<1>7. Erased(s, X) = kept[Len(s)]
    BY DEF Erased
<1>. HIDE DEF kept
<1>8. kept[0] = <<>> /\ \A i \in 1..Len(s) : kept[i] = Next1(kept, i)
  <2>1. \A i \in 0..Len(s) : kept[i] = Body(kept, i)
    <3>. HIDE DEF Body
    <3>. QED  BY <1>6
  <2>. QED  BY <1>1, <2>1
<1>. DEFINE V == {m \in Nat : m <= Len(s) => kept[m] \in Seq(S)}
<1>9. V = Nat
  <2>1. 0 \in V
      BY <1>8, EmptySeq
  <2>2. ASSUME NEW m \in V, m + 1 <= Len(s) PROVE kept[m + 1] \in Seq(S)
    <3>1. kept[m] \in Seq(S) /\ m + 1 - 1 = m /\ m + 1 \in 1..Len(s)
        BY <1>1, <2>2
    <3>2. kept[m + 1] = IF s[m + 1] \in X THEN kept[m] ELSE Append(kept[m], s[m + 1])
        BY <1>8, <3>1
    <3>3. s[m + 1] \in S
        BY <1>1, <3>1
    <3>. QED  BY <3>1, <3>2, <3>3, AppendProperties
  <2>3. V \in SUBSET Nat /\ \A m \in V : m + 1 \in V
      BY <2>2
  <2>. HIDE DEF V
  <2>. QED  BY <2>1, <2>3, NatInd
<1>10. kept \in [0..Len(s) -> Seq(S)]
  <2>1. \A m \in 0..Len(s) : kept[m] \in Seq(S)
      BY <1>1, <1>9
  <2>. HIDE DEF Body
  <2>. QED  BY <1>6, <2>1
<1>11. Steps(kept, s, X)
    BY <1>8 DEF Steps
<1>. QED  BY <1>7, <1>10, <1>11

\* Erased leaves the elements that are not in X, in the order they had, so what
\* was injective stays injective.
LEMMA ErasedProperties ==
    ASSUME NEW S, NEW s \in Seq(S), NEW X
    PROVE  /\ Erased(s, X) \in Seq(S)
           /\ ToSet(Erased(s, X)) = ToSet(s) \ X
           /\ IsInjective(s) => IsInjective(Erased(s, X))
<1>1. Len(s) \in Nat /\ DOMAIN s = 1..Len(s) /\ \A i \in 1..Len(s) : s[i] \in S
    BY LenProperties, ElementOfSeq
<1>0. PICK kept \in [0..Len(s) -> Seq(S)] : Steps(kept, s, X) /\ Erased(s, X) = kept[Len(s)]
    BY ErasedSteps
<1>2. /\ kept[0] = <<>>
      /\ \A i \in 1..Len(s) :
            kept[i] = IF s[i] \in X THEN kept[i - 1] ELSE Append(kept[i - 1], s[i])
    BY <1>0 DEF Steps
<1>3. \A m \in 0..Len(s) : kept[m] \in Seq(S) /\ Len(kept[m]) \in Nat /\ DOMAIN kept[m] = 1..Len(kept[m])
    BY <1>2, LenProperties
<1>. DEFINE Members(m) == \A x : (\E j \in 1..Len(kept[m]) : kept[m][j] = x)
                                    <=> x \notin X /\ \E j \in 1..m : s[j] = x
            Distinct(m) == \A i, j \in 1..Len(kept[m]) : kept[m][i] = kept[m][j] => i = j
            P(m) == Members(m) /\ (IsInjective(s) => Distinct(m))
            T == {m \in Nat : m <= Len(s) => P(m)}
<1>4. P(0)
    BY <1>2, EmptySeq
<1>5. ASSUME NEW m \in Nat, m + 1 <= Len(s), P(m) PROVE P(m + 1)
  <2>1. m + 1 \in 1..Len(s) /\ m + 1 - 1 = m /\ m \in 0..Len(s) /\ s[m + 1] \in S
      BY <1>1, <1>5
  <2>2. \A j : j \in 1..(m + 1) <=> j \in 1..m \/ j = m + 1
      OBVIOUS
  <2>3. CASE s[m + 1] \in X
    <3>1. kept[m + 1] = kept[m]
        BY <1>2, <2>1, <2>3
    <3>2. Members(m + 1)
        BY <1>5, <2>2, <2>3, <3>1
    <3>. QED  BY <1>5, <3>1, <3>2
  <2>4. CASE s[m + 1] \notin X
    <3>. DEFINE a == kept[m]
                l == Len(a)
    <3>0. kept[m + 1] = IF s[m + 1] \in X THEN kept[m] ELSE Append(kept[m], s[m + 1])
        BY <1>2, <2>1
    <3>1. kept[m + 1] = Append(a, s[m + 1]) /\ a \in Seq(S) /\ l \in Nat
        BY <1>3, <2>1, <2>4, <3>0
    <3>2. /\ Len(kept[m + 1]) = l + 1 /\ kept[m + 1][l + 1] = s[m + 1]
          /\ \A j \in 1..l : kept[m + 1][j] = a[j]
        BY <2>1, <3>1, AppendProperties
    <3>3. \A j : j \in 1..(l + 1) <=> j \in 1..l \/ j = l + 1
        BY <3>1
    <3>. HIDE DEF a, l
    <3>4. \A x : (\E j \in 1..l : a[j] = x) <=> x \notin X /\ \E j \in 1..m : s[j] = x
        BY <1>5 DEF a, l
    <3>5. Members(m + 1)
        BY <2>2, <2>4, <3>2, <3>3, <3>4
    <3>6. ASSUME IsInjective(s) PROVE Distinct(m + 1)
      <4>1. \A j \in 1..l : a[j] # s[m + 1]
        <5>1. \A j \in 1..m : s[j] # s[m + 1]
          <6>. SUFFICES ASSUME NEW j \in 1..m, s[j] = s[m + 1] PROVE FALSE
              OBVIOUS
          <6>1. j \in DOMAIN s /\ m + 1 \in DOMAIN s
              BY <1>1, <2>1
          <6>2. j = m + 1
              BY <3>6, <6>1 DEF IsInjective
          <6>. QED  BY <6>2
        <5>. QED  BY <3>4, <5>1
      <4>2. \A i, j \in 1..l : a[i] = a[j] => i = j
          BY <1>5, <3>6 DEF a, l
      <4>. QED  BY <3>2, <3>3, <4>1, <4>2
    <3>. QED  BY <3>5, <3>6
  <2>. QED  BY <2>3, <2>4
<1>. HIDE DEF P
<1>6. T = Nat
  <2>1. T \in SUBSET Nat /\ 0 \in T
      BY <1>4
  <2>2. \A m \in T : m + 1 \in T
      BY <1>1, <1>5
  <2>. HIDE DEF T
  <2>. QED  BY <2>1, <2>2, NatInd
<1>7. P(Len(s))
    BY <1>1, <1>6
<1>8. Erased(s, X) = kept[Len(s)] /\ Len(s) \in 0..Len(s)
    BY <1>0, <1>1
<1>9. Erased(s, X) \in Seq(S) /\ DOMAIN Erased(s, X) = 1..Len(kept[Len(s)])
    BY <1>3, <1>8
<1>10. ToSet(Erased(s, X)) = ToSet(s) \ X
  <2>1. Members(Len(s))
      BY <1>7 DEF P
  <2>2. \A x : (\E j \in DOMAIN Erased(s, X) : Erased(s, X)[j] = x) <=> x \notin X /\ \E j \in DOMAIN s : s[j] = x
      BY <1>1, <1>8, <1>9, <2>1
  <2>. QED  BY <2>2 DEF ToSet
<1>11. IsInjective(s) => IsInjective(Erased(s, X))
    BY <1>7, <1>8, <1>9 DEF P, IsInjective
<1>. QED  BY <1>9, <1>10, <1>11

-----------------------------------------------------------------------------
(* Sequences *)

\* The elements of a list, by positions.
LEMMA Elements ==
    ASSUME NEW S, NEW s \in Seq(S)
    PROVE  \A x : x \in ToSet(s) <=> \E k \in 1..Len(s) : s[k] = x
BY LenProperties DEF ToSet

\* Two parts without an element in common.
LEMMA Joined ==
    ASSUME NEW S, NEW s \in Seq(S), NEW r \in Seq(S)
    PROVE  /\ s \o r \in Seq(S)
           /\ ToSet(s \o r) = ToSet(s) \cup ToSet(r)
           /\ IsInjective(s) /\ IsInjective(r) /\ ToSet(s) \cap ToSet(r) = {} => IsInjective(s \o r)
<1>. DEFINE m == Len(s)
            n == Len(r)
            j == s \o r
<1>1. /\ m \in Nat /\ n \in Nat /\ DOMAIN s = 1..m /\ DOMAIN r = 1..n
      /\ j \in Seq(S) /\ Len(j) = m + n
      /\ \A i \in 1..(m + n) : j[i] = IF i <= m THEN s[i] ELSE r[i - m]
    BY LenProperties, ConcatProperties
<1>2. DOMAIN j = 1..(m + n)
    BY <1>1, LenProperties
<1>. HIDE DEF m, n, j
<1>3. /\ \A i \in 1..m : i \in 1..(m + n) /\ j[i] = s[i]
      /\ \A i \in 1..n : m + i \in 1..(m + n) /\ j[m + i] = r[i]
  <2>1. \A i \in 1..m : i \in 1..(m + n) /\ i <= m
      BY <1>1
  <2>2. \A i \in 1..n : m + i \in 1..(m + n) /\ ~(m + i <= m) /\ m + i - m = i
      BY <1>1
  <2>. QED  BY <1>1, <2>1, <2>2
<1>4. \A i \in 1..(m + n) : i \in 1..m \/ \E k \in 1..n : i = m + k
  <2>. TAKE i \in 1..(m + n)
  <2>1. CASE i <= m
      BY <1>1, <2>1
  <2>2. CASE ~(i <= m)
    <3>1. i - m \in 1..n /\ i = m + (i - m)
        BY <1>1, <2>2
    <3>. QED  BY <3>1
  <2>. QED  BY <2>1, <2>2
<1>5. ToSet(j) = ToSet(s) \cup ToSet(r)
  <2>1. /\ \A x : x \in ToSet(s) <=> \E k \in 1..m : s[k] = x
        /\ \A x : x \in ToSet(r) <=> \E k \in 1..n : r[k] = x
        /\ \A x : x \in ToSet(j) <=> \E k \in 1..(m + n) : j[k] = x
      BY <1>1, Elements DEF m, n
  <2>. QED  BY <1>3, <1>4, <2>1
<1>6. ASSUME IsInjective(s), IsInjective(r), ToSet(s) \cap ToSet(r) = {},
             NEW a \in 1..(m + n), NEW b \in 1..(m + n), j[a] = j[b]
      PROVE  a = b
  <2>1. \A i \in 1..m, k \in 1..n : s[i] # r[k]
      BY <1>1, <1>6 DEF ToSet
  <2>2. /\ \A i, k \in 1..m : s[i] = s[k] => i = k
        /\ \A i, k \in 1..n : r[i] = r[k] => i = k
      BY <1>1, <1>6 DEF IsInjective
  <2>3. CASE a \in 1..m /\ b \in 1..m
      BY <1>3, <1>6, <2>2, <2>3
  <2>4. CASE a \in 1..m /\ b \notin 1..m
      BY <1>3, <1>4, <1>6, <2>1, <2>4
  <2>5. CASE a \notin 1..m /\ b \in 1..m
      BY <1>3, <1>4, <1>6, <2>1, <2>5
  <2>6. CASE a \notin 1..m /\ b \notin 1..m
    <3>1. PICK i \in 1..n, k \in 1..n : a = m + i /\ b = m + k
        BY <1>4, <2>6
    <3>2. r[i] = r[k]
        BY <1>3, <1>6, <3>1
    <3>. QED  BY <2>2, <3>1, <3>2
  <2>. QED  BY <2>3, <2>4, <2>5, <2>6
<1>7. IsInjective(s) /\ IsInjective(r) /\ ToSet(s) \cap ToSet(r) = {} => IsInjective(j)
    BY <1>2, <1>6 DEF IsInjective
<1>. QED  BY <1>1, <1>5, <1>7 DEF j

\* A list cut in two.
LEMMA Cut ==
    ASSUME NEW S, NEW s \in Seq(S), NEW i \in 1..Len(s)
    PROVE  LET b == SubSeq(s, 1, i)
               a == SubSeq(s, i + 1, Len(s))
           IN  /\ b \in Seq(S) /\ a \in Seq(S)
               /\ ToSet(b) \cup ToSet(a) = ToSet(s) /\ s[i] \in ToSet(b)
               /\ IsInjective(s) => IsInjective(b) /\ IsInjective(a) /\ ToSet(b) \cap ToSet(a) = {}
<1>. DEFINE n == Len(s)
            b == SubSeq(s, 1, i)
            a == SubSeq(s, i + 1, n)
<1>1. n \in Nat /\ DOMAIN s = 1..n /\ \A k \in 1..n : s[k] \in S
    BY LenProperties, ElementOfSeq
<1>. HIDE DEF n
<1>2. i \in 1..n /\ i \in Nat
    BY <1>1 DEF n
<1>3. b \in Seq(S) /\ Len(b) = i /\ \A k \in 1..i : b[k] = s[k]
  <2>1. \A k \in 1..i : s[k] \in S
      BY <1>1, <1>2
  <2>2. /\ b \in Seq(S) /\ Len(b) = (IF 1 <= i THEN i - 1 + 1 ELSE 0)
        /\ \A k \in 1..(i - 1 + 1) : b[k] = s[1 + k - 1]
      BY <1>2, <2>1, SubSeqProperties
  <2>3. \A k \in 1..i : k \in 1..(i - 1 + 1) /\ 1 + k - 1 = k
      BY <1>2
  <2>. QED  BY <1>2, <2>2, <2>3
<1>4. a \in Seq(S) /\ Len(a) = n - i /\ \A k \in 1..(n - i) : a[k] = s[i + k]
  <2>1. \A k \in (i + 1)..n : s[k] \in S
      BY <1>1, <1>2
  <2>2. /\ a \in Seq(S) /\ Len(a) = (IF i + 1 <= n THEN n - (i + 1) + 1 ELSE 0)
        /\ \A k \in 1..(n - (i + 1) + 1) : a[k] = s[i + 1 + k - 1]
      BY <1>1, <1>2, <2>1, SubSeqProperties
  <2>3. \A k \in 1..(n - i) : k \in 1..(n - (i + 1) + 1) /\ i + 1 + k - 1 = i + k
      BY <1>1, <1>2
  <2>. QED  BY <1>1, <1>2, <2>2, <2>3
<1>5. DOMAIN b = 1..i /\ DOMAIN a = 1..(n - i)
    BY <1>3, <1>4, LenProperties
<1>. HIDE DEF a, b
<1>6. \A k \in 1..n : k \in 1..i \/ \E j \in 1..(n - i) : k = i + j
  <2>. TAKE k \in 1..n
  <2>1. CASE k <= i
      BY <1>1, <1>2, <2>1
  <2>2. CASE ~(k <= i)
    <3>1. k - i \in 1..(n - i) /\ k = i + (k - i)
        BY <1>1, <1>2, <2>2
    <3>. QED  BY <3>1
  <2>. QED  BY <2>1, <2>2
<1>7. /\ \A k \in 1..i : k \in 1..n
      /\ \A k \in 1..(n - i) : i + k \in 1..n /\ i + k \notin 1..i
    BY <1>1, <1>2
<1>8. ToSet(b) \cup ToSet(a) = ToSet(s)
  <2>0. /\ \A x : x \in ToSet(s) <=> \E k \in 1..n : s[k] = x
        /\ \A x : x \in ToSet(b) <=> \E k \in 1..i : b[k] = x
        /\ \A x : x \in ToSet(a) <=> \E k \in 1..(n - i) : a[k] = x
    <3>1. \A x : x \in ToSet(s) <=> \E k \in 1..n : s[k] = x
        BY Elements DEF n
    <3>2. \A x : x \in ToSet(b) <=> \E k \in 1..Len(b) : b[k] = x
        BY <1>3, Elements
    <3>3. \A x : x \in ToSet(a) <=> \E k \in 1..Len(a) : a[k] = x
        BY <1>4, Elements
    <3>. QED  BY <1>3, <1>4, <3>1, <3>2, <3>3
  <2>1. ASSUME NEW x \in ToSet(s) PROVE x \in ToSet(b) \cup ToSet(a)
    <3>1. PICK k \in 1..n : s[k] = x
        BY <2>0
    <3>. QED  BY <1>3, <1>4, <1>6, <2>0, <3>1
  <2>2. ASSUME NEW x \in ToSet(b) \cup ToSet(a) PROVE x \in ToSet(s)
    <3>1. CASE x \in ToSet(b)
        BY <1>3, <1>7, <2>0, <3>1
    <3>2. CASE x \in ToSet(a)
        BY <1>4, <1>7, <2>0, <3>2
    <3>. QED  BY <2>2, <3>1, <3>2
  <2>. QED  BY <2>1, <2>2
<1>9. s[i] \in ToSet(b)
    BY <1>2, <1>3, <1>5 DEF ToSet
<1>10. ASSUME IsInjective(s)
       PROVE  IsInjective(b) /\ IsInjective(a) /\ ToSet(b) \cap ToSet(a) = {}
  <2>1. \A k, l \in 1..n : s[k] = s[l] => k = l
      BY <1>1, <1>10 DEF IsInjective
  <2>2. IsInjective(b)
      BY <1>3, <1>5, <1>7, <2>1 DEF IsInjective
  <2>3. \A k, l \in 1..(n - i) : a[k] = a[l] => i + k = i + l
      BY <1>4, <1>7, <2>1
  <2>4. IsInjective(a)
      BY <1>1, <1>2, <1>5, <2>3 DEF IsInjective
  <2>5. \A k \in 1..i, l \in 1..(n - i) : b[k] # a[l]
      BY <1>3, <1>4, <1>7, <2>1
  <2>6. ToSet(b) \cap ToSet(a) = {}
      BY <1>5, <2>5 DEF ToSet
  <2>. QED  BY <2>2, <2>4, <2>6
<1>. QED  BY <1>3, <1>4, <1>8, <1>9, <1>10 DEF a, b, n

\* What add/removeObserver() leave of the list around the place of o.
LEMMA SweptProperties ==
    ASSUME observers \in Seq(Observers), NEW o \in Observers
    PROVE  LET b == Swept(o).before
               a == Swept(o).after
           IN  /\ b \in Seq(Observers) /\ a \in Seq(Observers)
               /\ IsInjective(observers) =>
                     /\ IsInjective(b) /\ IsInjective(a) /\ ToSet(b) \cap ToSet(a) = {}
                     /\ o \notin ToSet(b) /\ o \notin ToSet(a)
<1>1. CASE \E i \in 1..Len(observers) : observers[i] = o
  <2>. DEFINE i == CHOOSE i \in 1..Len(observers) : observers[i] = o
              b0 == SubSeq(observers, 1, i)
              a == SubSeq(observers, i + 1, Len(observers))
              b == Erased(b0, Expired \cup {o})
  <2>1. i \in 1..Len(observers) /\ observers[i] = o
      BY <1>1
  <2>2. Swept(o).before = b /\ Swept(o).after = a
      BY <1>1 DEF Swept
  <2>. HIDE DEF i
  <2>3. /\ b0 \in Seq(Observers) /\ a \in Seq(Observers) /\ o \in ToSet(b0)
        /\ IsInjective(observers) => IsInjective(b0) /\ IsInjective(a) /\ ToSet(b0) \cap ToSet(a) = {}
      BY <2>1, Cut
  <2>. HIDE DEF b0, a
  <2>4. /\ b \in Seq(Observers) /\ ToSet(b) = ToSet(b0) \ (Expired \cup {o})
        /\ IsInjective(b0) => IsInjective(b)
      BY <2>3, ErasedProperties
  <2>. HIDE DEF b
  <2>. QED  BY <2>2, <2>3, <2>4
<1>2. CASE ~ \E i \in 1..Len(observers) : observers[i] = o
  <2>. DEFINE b == Erased(observers, Expired)
  <2>1. Swept(o).before = b /\ Swept(o).after = <<>>
      BY <1>2 DEF Swept
  <2>2. o \notin ToSet(observers)
      BY <1>2, LenProperties DEF ToSet
  <2>3. /\ b \in Seq(Observers) /\ ToSet(b) = ToSet(observers) \ Expired
        /\ IsInjective(observers) => IsInjective(b)
      BY ErasedProperties
  <2>4. <<>> \in Seq(Observers) /\ ToSet(<<>>) = {} /\ IsInjective(<<>>)
      BY EmptySeq DEF ToSet, IsInjective
  <2>. HIDE DEF b
  <2>. QED  BY <2>1, <2>2, <2>3, <2>4
<1>. QED  BY <1>1, <1>2
-----------------------------------------------------------------------------
(* Stacks *)

\* The set() a thread is in, and those around it.
LEMMA Calls ==
    ASSUME TypeOK, NEW t \in Threads, Busy(t)
    PROVE  LET n == Len(stack[t])
           IN  /\ n \in Nat /\ n \in DOMAIN stack[t] /\ n >= 1 /\ DOMAIN stack[t] = 1..n
               /\ Top(t) = stack[t][n] /\ Top(t) \in Frame
<1>1. stack[t] \in Seq(Frame) /\ stack[t] # <<>>
    BY DEF TypeOK, Busy
<1>. HIDE DEF Frame
<1>2. stack[t][Len(stack[t])] \in Frame /\ Len(stack[t]) >= 1
    BY <1>1, EmptySeq, ElementOfSeq, LenProperties
<1>. QED  BY <1>1, <1>2, LenProperties DEF Top, Last

\* The innermost set() of t goes on to f.
LEMMA GoesOn ==
    ASSUME TypeOK, NEW t \in Threads, Busy(t), NEW f \in Frame, SetTop(t, f),
           f.told => f.now # NoObserver
    PROVE  /\ stack' \in [Threads -> Seq(Frame)]
           /\ \A u \in Threads : \A i \in DOMAIN stack'[u] :
                 stack'[u][i].told => stack'[u][i].now # NoObserver
           /\ \A u \in Threads : DOMAIN stack'[u] = DOMAIN stack[u]
           /\ \A u \in Threads : \A i \in DOMAIN stack[u] :
                 stack'[u][i] = IF u = t /\ i = Len(stack[t]) THEN f ELSE stack[u][i]
<1>. DEFINE s == stack[t]
            n == Len(s)
            r == [s EXCEPT ![n] = f]
<1>1. s \in Seq(Frame) /\ n \in 1..Len(s) /\ n \in DOMAIN s
    BY Calls DEF TypeOK
<1>2. /\ r \in Seq(Frame) /\ DOMAIN r = DOMAIN s
      /\ \A i \in DOMAIN s : r[i] = IF i = n THEN f ELSE s[i]
  <2>. HIDE DEF s, n, Frame
  <2>. QED  BY <1>1, ExceptSeq
<1>3. /\ stack' \in [Threads -> Seq(Frame)] /\ stack'[t] = r
      /\ \A u \in Threads \ {t} : stack'[u] = stack[u]
    BY <1>2 DEF SetTop, TypeOK
<1>. HIDE DEF r
<1>4. \A u \in Threads : DOMAIN stack'[u] = DOMAIN stack[u]
    BY <1>2, <1>3
<1>5. \A u \in Threads : \A i \in DOMAIN stack[u] :
         stack'[u][i] = IF u = t /\ i = n THEN f ELSE stack[u][i]
    BY <1>2, <1>3
<1>6. \A u \in Threads : \A i \in DOMAIN stack[u] : stack[u][i].told => stack[u][i].now # NoObserver
    BY DEF TypeOK
<1>7. ASSUME NEW u \in Threads, NEW i \in DOMAIN stack'[u], stack'[u][i].told
      PROVE  stack'[u][i].now # NoObserver
  <2>. HIDE DEF n, s
  <2>1. i \in DOMAIN stack[u]
      BY <1>4
  <2>2. CASE u = t /\ i = n
      BY <1>5, <1>7, <2>1, <2>2
  <2>3. CASE ~(u = t /\ i = n)
      BY <1>5, <1>6, <1>7, <2>1, <2>3
  <2>. QED  BY <2>2, <2>3
<1>. QED  BY <1>3, <1>4, <1>5, <1>7

\* The innermost set() of t returns.
LEMMA Returns ==
    ASSUME TypeOK, NEW t \in Threads, Busy(t), Return(t)
    PROVE  /\ stack' \in [Threads -> Seq(Frame)]
           /\ \A u \in Threads : \A i \in DOMAIN stack'[u] : i \in DOMAIN stack[u] /\ stack'[u][i] = stack[u][i]
           /\ \A u \in Threads : \A i \in DOMAIN stack[u] :
                 i \in DOMAIN stack'[u] \/ (u = t /\ stack[u][i] = Top(t))
<1>. DEFINE s == stack[t]
            n == Len(s)
            r == Front(s)
<1>1. s \in Seq(Frame) /\ n \in Nat /\ n >= 1 /\ DOMAIN s = 1..n /\ Top(t) = s[n]
    BY Calls DEF TypeOK
<1>2. /\ r \in Seq(Frame) /\ DOMAIN r = 1..(n - 1)
      /\ \A i \in 1..(n - 1) : r[i] = s[i]
  <2>1. \A i \in 1..(n - 1) : s[i] \in Frame
    <3>. HIDE DEF Frame
    <3>. QED  BY <1>1, ElementOfSeq
  <2>2. n - 1 \in Nat
      BY <1>1
  <2>. HIDE DEF s, n, Frame
  <2>. DEFINE q == SubSeq(s, 1, n - 1)
  <2>3. /\ q \in Seq(Frame)
        /\ Len(q) = IF 1 <= n - 1 THEN n - 1 - 1 + 1 ELSE 0
        /\ \A i \in 1..(n - 1 - 1 + 1) : q[i] = s[1 + i - 1]
      BY <2>1, <2>2, SubSeqProperties
  <2>4. Len(q) = n - 1 /\ \A i \in 1..(n - 1) : q[i] = s[i]
      BY <2>2, <2>3
  <2>5. DOMAIN q = 1..(n - 1)
      BY <2>3, <2>4, LenProperties
  <2>. QED  BY <2>3, <2>4, <2>5 DEF Front, n
<1>3. /\ stack' \in [Threads -> Seq(Frame)] /\ stack'[t] = r
      /\ \A u \in Threads \ {t} : stack'[u] = stack[u]
    BY <1>2 DEF Return, TypeOK
<1>. HIDE DEF r, s, n
<1>4. \A i \in DOMAIN r : i \in DOMAIN s /\ r[i] = s[i]
    BY <1>1, <1>2
<1>5. \A i \in DOMAIN s : i \in DOMAIN r \/ s[i] = Top(t)
    BY <1>1, <1>2
<1>. QED  BY <1>3, <1>4, <1>5 DEF s

\* t enters a set().
LEMMA Enters ==
    ASSUME TypeOK, NEW t \in Threads, NEW f \in Frame, ~f.told,
           stack' = [stack EXCEPT ![t] = Append(@, f)]
    PROVE  /\ stack' \in [Threads -> Seq(Frame)]
           /\ \A u \in Threads : \A i \in DOMAIN stack[u] : i \in DOMAIN stack'[u] /\ stack'[u][i] = stack[u][i]
           /\ \A u \in Threads : \A i \in DOMAIN stack'[u] :
                 i \in DOMAIN stack[u] \/ stack'[u][i] = f
           /\ \E i \in DOMAIN stack'[t] : stack'[t][i] = f
<1>. DEFINE s == stack[t]
            n == Len(s)
            r == Append(s, f)
<1>1. s \in Seq(Frame) /\ n \in Nat /\ DOMAIN s = 1..n
    BY LenProperties DEF TypeOK
<1>2. /\ r \in Seq(Frame) /\ Len(r) = n + 1 /\ r[n + 1] = f
      /\ \A i \in 1..n : r[i] = s[i]
  <2>. HIDE DEF Frame, s
  <2>. QED  BY <1>1, AppendProperties
<1>3. /\ stack' \in [Threads -> Seq(Frame)] /\ stack'[t] = r
      /\ \A u \in Threads \ {t} : stack'[u] = stack[u]
    BY <1>2 DEF TypeOK
<1>4. DOMAIN r = 1..(n + 1)
    BY <1>2, LenProperties
<1>. HIDE DEF r, s, n
<1>5. \A i \in DOMAIN s : i \in DOMAIN r /\ r[i] = s[i]
    BY <1>1, <1>2, <1>4
<1>6. \A i \in DOMAIN r : i \in DOMAIN s \/ r[i] = f
    BY <1>1, <1>2, <1>4
<1>7. n + 1 \in DOMAIN r
    BY <1>1, <1>4
<1>. QED  BY <1>2, <1>3, <1>5, <1>6, <1>7 DEF s

-----------------------------------------------------------------------------
(* The inductive invariant: the three together.  An observer that is owed the  *)
(* value and has been told is told again in no call; one that was not told is  *)
(* in the rest of a copy, or being called.                                     *)

IInv == TypeOK /\ NoDuplicates /\ UpdateOnItsWay

\* Frame f has yet to tell o.
ToTell(f, o) == o \in ToSet(f.todo) \/ (f.now = o /\ ~f.told)

\* UpdateOnItsWay, by calls.
LEMMA OnItsWay ==
    UpdateOnItsWay <=> \A o \in owed : \/ seen[o] = value
                                      \/ ~Alive(o)
                                      \/ \E t \in Threads : \E i \in DOMAIN stack[t] : ToTell(stack[t][i], o)
BY DEF UpdateOnItsWay, ToTell

\* set() goes on in its loop: what it has to tell it tells or leaves to the rest.
LEMMA LoopKeeps ==
    ASSUME IInv, NEW t \in Threads, Busy(t), NEW f \in Frame, SetTop(t, f),
           f.told => f.now # NoObserver,
           seen' \in [Observers -> Values], owner' \in Threads \cup {NoThread},
           UNCHANGED <<value, observers, asks, owned, owed>>,
           f.now \in Observers => f.now = Top(t).now \/ Alive(f.now),
           \A o \in owed : seen[o] = value => seen'[o] = value,
           \A o \in owed : ToTell(Top(t), o) => ToTell(f, o) \/ seen'[o] = value \/ ~Alive(o)
    PROVE  IInv'
<1>. DEFINE n == Len(stack[t])
<1>1. TypeOK /\ NoDuplicates /\ UpdateOnItsWay
    BY DEF IInv
<1>2. /\ stack' \in [Threads -> Seq(Frame)]
      /\ \A u \in Threads : \A i \in DOMAIN stack'[u] :
            stack'[u][i].told => stack'[u][i].now # NoObserver
      /\ \A u \in Threads : DOMAIN stack'[u] = DOMAIN stack[u]
      /\ \A u \in Threads : \A i \in DOMAIN stack[u] :
            stack'[u][i] = IF u = t /\ i = n THEN f ELSE stack[u][i]
    BY <1>1, GoesOn
<1>3. n \in DOMAIN stack[t] /\ Top(t) = stack[t][n]
    BY <1>1, Calls
<1>. HIDE DEF n
<1>4. TypeOK'
    BY <1>1, <1>2 DEF TypeOK
<1>5. NoDuplicates'
    BY <1>1 DEF NoDuplicates
<1>6. UpdateOnItsWay'
  <2>. SUFFICES ASSUME NEW o \in owed
                PROVE  \/ seen'[o] = value
                       \/ ~Alive(o)'
                       \/ \E u \in Threads : \E i \in DOMAIN stack'[u] : ToTell(stack'[u][i], o)
      BY DEF UpdateOnItsWay, ToTell
  <2>1. o \in Observers
      BY <1>1 DEF TypeOK
  <2>2. ~Alive(o) => ~Alive(o)'
    <3>. SUFFICES ASSUME Alive(o)' PROVE Alive(o)
        OBVIOUS
    <3>1. CASE o \in owned'
        BY <3>1 DEF Alive
    <3>2. CASE \E u \in Threads : Asking(u, o)'
        BY <3>2 DEF Alive, Asking
    <3>3. CASE o \notin owned' /\ ~ \E u \in Threads : Asking(u, o)'
      <4>0. PICK u \in Threads : \E i \in DOMAIN stack'[u] : stack'[u][i].now = o
          BY <3>3 DEF Alive, Calling
      <4>1. PICK i \in DOMAIN stack'[u] : stack'[u][i].now = o
          BY <4>0
      <4>2. i \in DOMAIN stack[u]
          BY <1>2
      <4>3. CASE u = t /\ i = n
        <5>1. f.now = o
            BY <1>2, <4>1, <4>2, <4>3
        <5>2. f.now = Top(t).now \/ Alive(o)
            BY <2>1, <5>1
        <5>. QED  BY <1>3, <5>1, <5>2 DEF Alive, Calling
      <4>4. CASE ~(u = t /\ i = n)
        <5>1. stack[u][i].now = o
            BY <1>2, <4>1, <4>2, <4>4
        <5>. QED  BY <4>2, <5>1 DEF Alive, Calling
      <4>. QED  BY <4>3, <4>4
    <3>. QED  BY <3>1, <3>2, <3>3
  <2>3. CASE seen[o] = value
      BY <2>3
  <2>4. CASE \E u \in Threads : \E i \in DOMAIN stack[u] : ToTell(stack[u][i], o)
    <3>0. PICK u \in Threads : \E i \in DOMAIN stack[u] : ToTell(stack[u][i], o)
        BY <2>4
    <3>1. PICK i \in DOMAIN stack[u] : ToTell(stack[u][i], o)
        BY <3>0
    <3>2. CASE u = t /\ i = n
      <4>1. ToTell(f, o) \/ seen'[o] = value \/ ~Alive(o)
          BY <1>3, <3>1, <3>2
      <4>2. stack'[t][n] = f /\ n \in DOMAIN stack'[t]
          BY <1>2, <1>3
      <4>. QED  BY <2>2, <4>1, <4>2
    <3>3. CASE ~(u = t /\ i = n)
      <4>1. stack'[u][i] = stack[u][i] /\ i \in DOMAIN stack'[u]
          BY <1>2, <3>3
      <4>. QED  BY <3>1, <4>1
    <3>. QED  BY <3>2, <3>3
  <2>. QED  BY <1>1, <2>2, <2>3, <2>4, OnItsWay
<1>. QED  BY <1>4, <1>5, <1>6 DEF IInv

\* What is called next, and what is left.
LEMMA NextOne ==
    ASSUME NEW S, NEW s \in Seq(S), s # <<>>
    PROVE  /\ Head(s) \in S /\ Tail(s) \in Seq(S)
           /\ ToSet(s) = {Head(s)} \cup ToSet(Tail(s))
<1>. DEFINE r == Tail(s)
            n == Len(s)
<1>1. /\ Head(s) = s[1] /\ s[1] \in S /\ r \in Seq(S) /\ Len(r) = n - 1 /\ n \in Nat /\ n >= 1
      /\ \A i \in 1..(n - 1) : r[i] = s[i + 1]
    BY HeadTailProperties, EmptySeq, LenProperties, ElementOfSeq
<1>2. /\ \A x : x \in ToSet(s) <=> \E k \in 1..n : s[k] = x
      /\ \A x : x \in ToSet(r) <=> \E k \in 1..(n - 1) : r[k] = x
  <2>1. \A x : x \in ToSet(r) <=> \E k \in 1..Len(r) : r[k] = x
    <3>. HIDE DEF r
    <3>. QED  BY <1>1, Elements
  <2>. QED  BY <1>1, <2>1, Elements
<1>. HIDE DEF r, n
<1>3. /\ \A k \in 1..n : k = 1 \/ (k - 1 \in 1..(n - 1) /\ k - 1 + 1 = k)
      /\ \A k \in 1..(n - 1) : k + 1 \in 1..n
      /\ 1 \in 1..n
    BY <1>1
<1>4. ASSUME NEW x \in ToSet(s) PROVE x = s[1] \/ x \in ToSet(r)
  <2>1. PICK k \in 1..n : s[k] = x
      BY <1>2
  <2>2. CASE k # 1
    <3>1. k - 1 \in 1..(n - 1) /\ r[k - 1] = x
        BY <1>1, <1>3, <2>1, <2>2
    <3>. QED  BY <1>2, <3>1
  <2>. QED  BY <2>1, <2>2
<1>5. ASSUME NEW x, x = s[1] \/ x \in ToSet(r) PROVE x \in ToSet(s)
    BY <1>1, <1>2, <1>3, <1>5
<1>. QED  BY <1>1, <1>4, <1>5 DEF r

-----------------------------------------------------------------------------
(* One lemma per action. *)

\* Unlocking changes where the call is, and nothing of what it has to tell.
LEMMA UnlockKeeps ==
    ASSUME IInv, NEW t \in Threads, Unlock(t)
    PROVE  IInv'
<1>. DEFINE f == [Top(t) EXCEPT !.at = "loop"]
<1>1. Busy(t) /\ SetTop(t, f) /\ owner' = NoThread /\ UNCHANGED <<value, observers, asks, owned, seen, owed>>
    BY DEF Unlock
<1>2. Top(t) \in Frame /\ (Top(t).told => Top(t).now # NoObserver)
    BY <1>1, Calls DEF IInv, TypeOK
<1>3. f \in Frame /\ f.now = Top(t).now /\ f.told = Top(t).told /\ f.todo = Top(t).todo
    BY <1>2 DEF Frame
<1>. HIDE DEF f
<1>4. \A o : ToTell(Top(t), o) => ToTell(f, o)
    BY <1>3 DEF ToTell
<1>5. seen' \in [Observers -> Values] /\ owner' \in Threads \cup {NoThread}
    BY <1>1 DEF IInv, TypeOK
<1>. QED  BY <1>1, <1>2, <1>3, <1>4, <1>5, LoopKeeps

\* The expired observer that is skipped need not be told.
LEMMA SkipKeeps ==
    ASSUME IInv, NEW t \in Threads, Skip(t)
    PROVE  IInv'
<1>. DEFINE f == [Top(t) EXCEPT !.todo = Tail(@), !.found = TRUE]
            h == Head(Top(t).todo)
<1>1. /\ Busy(t) /\ Top(t).now = NoObserver /\ Top(t).todo # <<>> /\ ~Alive(h)
      /\ SetTop(t, f) /\ UNCHANGED <<value, observers, owner, asks, owned, seen, owed>>
    BY DEF Skip, AtNext
<1>2. Top(t) \in Frame /\ (Top(t).told => Top(t).now # NoObserver)
    BY <1>1, Calls DEF IInv, TypeOK
<1>3. Top(t).todo \in Seq(Observers)
    BY <1>2 DEF Frame
<1>4. Tail(Top(t).todo) \in Seq(Observers) /\ ToSet(Top(t).todo) = {h} \cup ToSet(Tail(Top(t).todo))
    BY <1>1, <1>3, NextOne
<1>5. f \in Frame /\ f.now = Top(t).now /\ f.told = Top(t).told /\ f.todo = Tail(Top(t).todo)
    BY <1>2, <1>4 DEF Frame
<1>. HIDE DEF f, h
<1>6. \A o : ToTell(Top(t), o) => ToTell(f, o) \/ ~Alive(o)
    BY <1>1, <1>4, <1>5 DEF ToTell
<1>7. seen' \in [Observers -> Values] /\ owner' \in Threads \cup {NoThread}
    BY <1>1 DEF IInv, TypeOK
<1>. QED  BY <1>1, <1>2, <1>5, <1>6, <1>7, LoopKeeps

\* The observer that is called is not told yet.
LEMMA NotifyKeeps ==
    ASSUME IInv, NEW t \in Threads, Notify(t)
    PROVE  IInv'
<1>. DEFINE h == Head(Top(t).todo)
            f == [Top(t) EXCEPT !.todo = Tail(@), !.now = Head(Top(t).todo)]
<1>1. /\ Busy(t) /\ Top(t).now = NoObserver /\ Top(t).todo # <<>> /\ Alive(h)
      /\ SetTop(t, f) /\ UNCHANGED <<value, observers, owner, asks, owned, seen, owed>>
    BY DEF Notify, AtNext
<1>2. Top(t) \in Frame /\ ~Top(t).told
    BY <1>1, Calls DEF IInv, TypeOK, Frame
<1>3. Top(t).todo \in Seq(Observers)
    BY <1>2 DEF Frame
<1>4. /\ h \in Observers /\ Tail(Top(t).todo) \in Seq(Observers)
      /\ ToSet(Top(t).todo) = {h} \cup ToSet(Tail(Top(t).todo))
    BY <1>1, <1>3, NextOne
<1>5. f \in Frame /\ f.now = h /\ ~f.told /\ f.todo = Tail(Top(t).todo)
    BY <1>2, <1>4 DEF Frame
<1>. HIDE DEF f, h
<1>6. \A o \in owed : ToTell(Top(t), o) => ToTell(f, o)
  <2>1. \A o \in owed : o # NoObserver
      BY ObservableAssumption DEF IInv, TypeOK
  <2>. QED  BY <1>1, <1>4, <1>5, <2>1 DEF ToTell
<1>7. seen' \in [Observers -> Values] /\ owner' \in Threads \cup {NoThread}
    BY <1>1 DEF IInv, TypeOK
<1>. QED  BY <1>1, <1>2, <1>5, <1>6, <1>7, LoopKeeps

\* What it is told is the present value, whoever set it.
LEMMA TellKeeps ==
    ASSUME IInv, NEW t \in Threads, Tell(t)
    PROVE  IInv'
<1>. DEFINE f == [Top(t) EXCEPT !.told = TRUE]
            o1 == Top(t).now
<1>1. /\ Busy(t) /\ o1 # NoObserver /\ ~Top(t).told
      /\ SetTop(t, f) /\ seen' = [seen EXCEPT ![o1] = value]
      /\ UNCHANGED <<value, observers, owner, asks, owned, owed>>
    BY DEF Tell, InCallback
<1>2. Top(t) \in Frame
    BY <1>1, Calls DEF IInv
<1>3. f \in Frame /\ f.now = o1 /\ f.todo = Top(t).todo /\ o1 \in Observers
    BY <1>1, <1>2 DEF Frame
<1>. HIDE DEF f, o1
<1>4. seen' \in [Observers -> Values] /\ owner' \in Threads \cup {NoThread} /\ seen'[o1] = value
    BY <1>1, <1>3 DEF IInv, TypeOK
<1>5. \A o \in owed : seen[o] = value => seen'[o] = value
    BY <1>1, <1>3 DEF IInv, TypeOK
<1>6. \A o : ToTell(Top(t), o) => ToTell(f, o) \/ seen'[o] = value
    BY <1>3, <1>4 DEF ToTell, o1
<1>7. f.now = Top(t).now
    BY <1>3 DEF o1
<1>. QED  BY <1>1, <1>3, <1>4, <1>5, <1>6, <1>7, LoopKeeps

\* A callback that returns has read the value.
LEMMA ToldKeeps ==
    ASSUME IInv, NEW t \in Threads, Told(t)
    PROVE  IInv'
<1>. DEFINE f == [Top(t) EXCEPT !.now = NoObserver, !.told = FALSE]
<1>1. /\ Busy(t) /\ Top(t).told
      /\ SetTop(t, f) /\ UNCHANGED <<value, observers, owner, asks, owned, seen, owed>>
    BY DEF Told, InCallback
<1>2. Top(t) \in Frame
    BY <1>1, Calls DEF IInv
<1>3. f \in Frame /\ f.now = NoObserver /\ ~f.told /\ f.todo = Top(t).todo
    BY <1>2 DEF Frame
<1>. HIDE DEF f
<1>4. \A o : ToTell(Top(t), o) => ToTell(f, o)
    BY <1>1, <1>3 DEF ToTell
<1>5. /\ seen' \in [Observers -> Values] /\ owner' \in Threads \cup {NoThread}
      /\ f.now \notin Observers
    BY <1>1, <1>3, ObservableAssumption DEF IInv, TypeOK
<1>. QED  BY <1>1, <1>3, <1>4, <1>5, LoopKeeps

\* A set() that returns has nobody left to tell.
LEMMA ReturnKeeps ==
    ASSUME IInv, NEW t \in Threads, AtEnd(t), Return(t), UNCHANGED <<value, asks, owned, seen, owed>>
    PROVE  /\ stack' \in [Threads -> Seq(Frame)]
           /\ \A u \in Threads : \A i \in DOMAIN stack'[u] :
                 stack'[u][i].told => stack'[u][i].now # NoObserver
           /\ UpdateOnItsWay'
<1>1. TypeOK /\ Busy(t) /\ Top(t).now = NoObserver /\ Top(t).todo = <<>>
    BY DEF AtEnd, IInv
<1>2. /\ stack' \in [Threads -> Seq(Frame)]
      /\ \A u \in Threads : \A i \in DOMAIN stack'[u] : i \in DOMAIN stack[u] /\ stack'[u][i] = stack[u][i]
      /\ \A u \in Threads : \A i \in DOMAIN stack[u] :
            i \in DOMAIN stack'[u] \/ (u = t /\ stack[u][i] = Top(t))
    BY <1>1, Returns
<1>3. \A u \in Threads : \A i \in DOMAIN stack'[u] :
         stack'[u][i].told => stack'[u][i].now # NoObserver
  <2>1. \A u \in Threads : \A i \in DOMAIN stack[u] : stack[u][i].told => stack[u][i].now # NoObserver
      BY <1>1 DEF TypeOK
  <2>. QED  BY <1>2, <2>1
<1>4. UpdateOnItsWay'
  <2>. SUFFICES ASSUME NEW o \in owed
                PROVE  \/ seen[o] = value
                       \/ ~Alive(o)'
                       \/ \E u \in Threads : \E i \in DOMAIN stack'[u] : ToTell(stack'[u][i], o)
      BY DEF UpdateOnItsWay, ToTell
  <2>1. o \in Observers /\ o # NoObserver
      BY <1>1, ObservableAssumption DEF TypeOK
  <2>2. ~Alive(o) => ~Alive(o)'
    <3>1. owned' = owned /\ asks' = asks
        OBVIOUS
    <3>. QED  BY <1>2, <3>1 DEF Alive, Calling, Asking
  <2>3. ~ToTell(Top(t), o)
    <3>1. ToSet(<<>>) = {}
        BY EmptySeq DEF ToSet
    <3>. QED  BY <1>1, <2>1, <3>1 DEF ToTell
  <2>4. CASE \E u \in Threads : \E i \in DOMAIN stack[u] : ToTell(stack[u][i], o)
    <3>1. PICK u \in Threads : \E i \in DOMAIN stack[u] : ToTell(stack[u][i], o)
        BY <2>4
    <3>2. PICK i \in DOMAIN stack[u] : ToTell(stack[u][i], o)
        BY <3>1
    <3>3. i \in DOMAIN stack'[u] /\ stack'[u][i] = stack[u][i]
        BY <1>2, <2>3, <3>2
    <3>. QED  BY <3>2, <3>3
  <2>. QED  BY <2>2, <2>4, OnItsWay DEF IInv
<1>. QED  BY <1>2, <1>3, <1>4

\* The last step of set() that found expired observers erases them.
LEMMA SweepKeeps ==
    ASSUME IInv, NEW t \in Threads, Sweep(t)
    PROVE  IInv'
<1>1. /\ AtEnd(t) /\ Return(t) /\ observers' = Erased(observers, Expired)
      /\ UNCHANGED <<value, owner, asks, owned, seen, owed>>
    BY DEF Sweep
<1>2. observers \in Seq(Observers) /\ IsInjective(observers)
    BY DEF IInv, TypeOK, NoDuplicates
<1>3. observers' \in Seq(Observers) /\ IsInjective(observers')
  <2>. DEFINE X == Expired
  <2>1. observers' = Erased(observers, X)
      BY <1>1
  <2>. HIDE DEF X
  <2>. QED  BY <1>2, <2>1, ErasedProperties
<1>4. /\ stack' \in [Threads -> Seq(Frame)]
      /\ \A u \in Threads : \A i \in DOMAIN stack'[u] :
            stack'[u][i].told => stack'[u][i].now # NoObserver
      /\ UpdateOnItsWay'
    BY <1>1, ReturnKeeps
<1>5. TypeOK'
    BY <1>1, <1>3, <1>4 DEF IInv, TypeOK
<1>. QED  BY <1>3, <1>4, <1>5 DEF IInv, NoDuplicates

\* The last step of set() that found none only returns.
LEMMA FinishKeeps ==
    ASSUME IInv, NEW t \in Threads, Finish(t)
    PROVE  IInv'
<1>1. AtEnd(t) /\ Return(t) /\ UNCHANGED <<value, observers, owner, asks, owned, seen, owed>>
    BY DEF Finish
<1>2. /\ stack' \in [Threads -> Seq(Frame)]
      /\ \A u \in Threads : \A i \in DOMAIN stack'[u] :
            stack'[u][i].told => stack'[u][i].now # NoObserver
      /\ UpdateOnItsWay'
    BY <1>1, ReturnKeeps
<1>3. TypeOK' /\ NoDuplicates'
    BY <1>1, <1>2 DEF IInv, TypeOK, NoDuplicates
<1>. QED  BY <1>2, <1>3 DEF IInv

\* What the types of the calls are made of.
LEMMA CallTypes == /\ NoCall \notin OnList \cup Setting /\ OnList \cap Setting = {}
                   /\ \A c \in OnList : c.o \in Observers
                   /\ \A c \in Setting : c.value_i \in Values
<1>1. \A c \in OnList : c.op \in {"add", "remove"} /\ c.o \in Observers
    BY ObservableAssumption DEF OnList
<1>2. \A c \in Setting : c.op = "set" /\ c.value_i \in Values
    BY DEF Setting
<1>3. NoCall.op = "none"
    BY DEF NoCall
<1>. QED  BY <1>1, <1>2, <1>3

\* A call gets the mutex, and lets go of psp when it returns.
LEMMA GetsKeeps ==
    ASSUME IInv, NEW t \in Threads, NEW calls, Gets(t, calls)
    PROVE  /\ asks' \in [Threads -> {NoCall} \cup OnList \cup Setting]
           /\ \A o : \A u \in Threads : Asking(u, o)' => Asking(u, o)
<1>1. asks \in [Threads -> {NoCall} \cup OnList \cup Setting] /\ asks' = [asks EXCEPT ![t] = NoCall]
    BY DEF IInv, TypeOK, Gets
<1>2. asks' \in [Threads -> {NoCall} \cup OnList \cup Setting]
    BY <1>1
<1>3. asks'[t] = NoCall /\ \A u \in Threads \ {t} : asks'[u] = asks[u]
    BY <1>1
<1>4. NoCall \notin OnList
    BY CallTypes
<1>. QED  BY <1>2, <1>3, <1>4 DEF Asking

\* The program makes a call, of an observer that is alive.
LEMMA AskKeeps ==
    ASSUME IInv, NEW t \in Threads, NEW call \in OnList \cup Setting, Ask(t, call),
           call \in OnList => Alive(call.o)
    PROVE  IInv'
<1>1. /\ asks \in [Threads -> {NoCall} \cup OnList \cup Setting] /\ asks' = [asks EXCEPT ![t] = call]
      /\ UNCHANGED <<value, observers, owner, stack, owned, seen, owed>>
    BY DEF IInv, TypeOK, Ask
<1>2. asks' \in [Threads -> {NoCall} \cup OnList \cup Setting]
    BY <1>1
<1>3. TypeOK' /\ NoDuplicates'
    BY <1>1, <1>2 DEF IInv, TypeOK, NoDuplicates
<1>4. asks'[t] = call /\ \A u \in Threads \ {t} : asks'[u] = asks[u]
    BY <1>1
<1>5. \A o : Alive(o)' => Alive(o)
    BY <1>1, <1>4 DEF Alive, Calling, Asking
<1>6. UpdateOnItsWay'
    BY <1>1, <1>5 DEF IInv, UpdateOnItsWay
<1>. QED  BY <1>3, <1>6 DEF IInv

\* Everybody who is owed the new value is in the copy.
LEMMA SetKeeps ==
    ASSUME IInv, NEW t \in Threads, Set(t)
    PROVE  IInv'
<1>. DEFINE v == asks[t].value_i
            f == [value_i |-> v, at |-> "locked", todo |-> observers, found |-> FALSE,
                  now |-> NoObserver, told |-> FALSE]
<1>0. Gets(t, Setting)
    BY DEF Set
<1>1. /\ v \in Values /\ value' = v /\ owner' = t /\ owed' = ToSet(observers)
      /\ stack' = [stack EXCEPT ![t] = Append(@, f)]
      /\ UNCHANGED <<observers, owned, seen>>
    BY <1>0, CallTypes DEF Set, Gets
<1>. HIDE DEF v
<1>2. f \in Frame /\ f.todo = observers /\ ~f.told
    BY <1>1 DEF IInv, TypeOK, Frame
<1>. HIDE DEF f
<1>3. /\ stack' \in [Threads -> Seq(Frame)]
      /\ \A u \in Threads : \A i \in DOMAIN stack[u] : i \in DOMAIN stack'[u] /\ stack'[u][i] = stack[u][i]
      /\ \A u \in Threads : \A i \in DOMAIN stack'[u] :
            i \in DOMAIN stack[u] \/ stack'[u][i] = f
      /\ \E i \in DOMAIN stack'[t] : stack'[t][i] = f
    BY <1>1, <1>2, Enters DEF IInv
<1>4. \A u \in Threads : \A i \in DOMAIN stack'[u] :
         stack'[u][i].told => stack'[u][i].now # NoObserver
  <2>1. \A u \in Threads : \A i \in DOMAIN stack[u] : stack[u][i].told => stack[u][i].now # NoObserver
      BY DEF IInv, TypeOK
  <2>. QED  BY <1>2, <1>3, <2>1
<1>5. ToSet(observers) \in SUBSET Observers
  <2>1. \A x : x \in ToSet(observers) <=> \E k \in 1..Len(observers) : observers[k] = x
      BY Elements DEF IInv, TypeOK
  <2>2. \A k \in 1..Len(observers) : observers[k] \in Observers
      BY ElementOfSeq DEF IInv, TypeOK
  <2>. QED  BY <2>1, <2>2
<1>6. TypeOK' /\ NoDuplicates'
    BY <1>0, <1>1, <1>3, <1>4, <1>5, GetsKeeps DEF IInv, TypeOK, NoDuplicates
<1>7. UpdateOnItsWay'
  <2>1. \A o \in ToSet(observers) : ToTell(f, o)
      BY <1>2 DEF ToTell
  <2>2. \A o \in owed' : \E u \in Threads : \E i \in DOMAIN stack'[u] : ToTell(stack'[u][i], o)
      BY <1>1, <1>3, <2>1
  <2>. QED  BY <2>2 DEF UpdateOnItsWay, ToTell
<1>. QED  BY <1>6, <1>7 DEF IInv

\* The list changes, and nobody becomes owed anything by that.
LEMMA ListKeeps ==
    ASSUME IInv, NEW t \in Threads, NEW calls, Gets(t, calls),
           observers' \in Seq(Observers), IsInjective(observers'), owed' \in SUBSET owed,
           UNCHANGED <<value, owner, stack, owned, seen>>
    PROVE  IInv'
<1>0. /\ asks' \in [Threads -> {NoCall} \cup OnList \cup Setting]
      /\ \A o : \A u \in Threads : Asking(u, o)' => Asking(u, o)
    BY GetsKeeps
<1>1. TypeOK' /\ NoDuplicates'
    BY <1>0 DEF IInv, TypeOK, NoDuplicates
<1>2. \A o : Alive(o)' => Alive(o)
    BY <1>0 DEF Alive, Calling
<1>3. UpdateOnItsWay'
    BY <1>2 DEF IInv, UpdateOnItsWay
<1>. QED  BY <1>1, <1>3 DEF IInv

\* addObserver() erases the observer and puts it at the end.
LEMMA AddObserverKeeps ==
    ASSUME IInv, NEW t \in Threads, AddObserver(t)
    PROVE  IInv'
<1>. DEFINE o == asks[t].o
            b == Swept(o).before
            a == Swept(o).after
<1>0. Gets(t, OnList) /\ o \in Observers
    BY CallTypes DEF AddObserver, RemoveObserver, Gets
<1>1. /\ observers' = b \o <<o>> \o a
      /\ UNCHANGED <<value, owner, stack, owned, seen, owed>>
    BY DEF AddObserver
<1>2. /\ b \in Seq(Observers) /\ a \in Seq(Observers) /\ IsInjective(b) /\ IsInjective(a)
      /\ ToSet(b) \cap ToSet(a) = {} /\ o \notin ToSet(b) /\ o \notin ToSet(a)
    BY <1>0, SweptProperties DEF IInv, TypeOK, NoDuplicates
<1>. HIDE DEF a, b, o
<1>3. <<o>> \in Seq(Observers) /\ IsInjective(<<o>>) /\ ToSet(<<o>>) = {o}
  <2>1. <<o>> \in Seq(Observers) /\ DOMAIN <<o>> = {1} /\ <<o>>[1] = o
      BY <1>0
  <2>. QED  BY <2>1 DEF IsInjective, ToSet
<1>. DEFINE c == <<o>>
            d == b \o c
<1>. HIDE DEF c
<1>4. ToSet(b) \cap ToSet(c) = {}
    BY <1>2, <1>3 DEF c
<1>5. d \in Seq(Observers) /\ IsInjective(d) /\ ToSet(d) = ToSet(b) \cup {o}
  <2>1. c \in Seq(Observers) /\ IsInjective(c) /\ ToSet(c) = {o}
      BY <1>3 DEF c
  <2>. QED  BY <1>2, <1>4, <2>1, Joined
<1>. HIDE DEF d
<1>6. ToSet(d) \cap ToSet(a) = {}
    BY <1>2, <1>5
<1>7. d \o a \in Seq(Observers) /\ IsInjective(d \o a)
    BY <1>2, <1>5, <1>6, Joined
<1>8. observers' \in Seq(Observers) /\ IsInjective(observers')
    BY <1>1, <1>7 DEF c, d
<1>. QED  BY <1>0, <1>1, <1>8, ListKeeps

\* removeObserver() erases it; nothing is owed to it any more.
LEMMA RemoveObserverKeeps ==
    ASSUME IInv, NEW t \in Threads, RemoveObserver(t)
    PROVE  IInv'
<1>. DEFINE o == asks[t].o
            b == Swept(o).before
            a == Swept(o).after
<1>0. Gets(t, OnList) /\ o \in Observers
    BY CallTypes DEF AddObserver, RemoveObserver, Gets
<1>1. /\ observers' = b \o a /\ owed' = owed \ {o}
      /\ UNCHANGED <<value, owner, stack, owned, seen>>
    BY DEF RemoveObserver
<1>2. /\ b \in Seq(Observers) /\ a \in Seq(Observers) /\ IsInjective(b) /\ IsInjective(a)
      /\ ToSet(b) \cap ToSet(a) = {}
    BY <1>0, SweptProperties DEF IInv, TypeOK, NoDuplicates
<1>. HIDE DEF a, b, o
<1>3. b \o a \in Seq(Observers) /\ IsInjective(b \o a)
    BY <1>2, Joined
<1>. QED  BY <1>0, <1>1, <1>3, ListKeeps

\* set() of the value that is there returns.
LEMMA SetEqualKeeps ==
    ASSUME IInv, NEW t \in Threads, SetEqual(t)
    PROVE  IInv'
<1>1. Gets(t, Setting) /\ UNCHANGED <<value, observers, owner, stack, owned, seen, owed>>
    BY DEF SetEqual
<1>. QED  BY <1>1, ListKeeps DEF IInv, TypeOK, NoDuplicates

\* An observer that expires need not be told any more.
LEMMA DropKeeps ==
    ASSUME IInv, NEW o \in Transient, Drop(o)
    PROVE  IInv'
<1>1. owned' = owned \ {o} /\ UNCHANGED <<value, observers, owner, stack, asks, seen, owed>>
    BY DEF Drop
<1>2. TypeOK' /\ NoDuplicates'
    BY <1>1 DEF IInv, TypeOK, NoDuplicates
<1>3. UpdateOnItsWay'
  <2>1. \A x : Alive(x)' => Alive(x)
      BY <1>1 DEF Alive, Calling, Asking
  <2>. QED  BY <1>1, <2>1 DEF IInv, UpdateOnItsWay
<1>. QED  BY <1>2, <1>3 DEF IInv

-----------------------------------------------------------------------------
(* The theorems. *)

\* The invariant holds at the start,
LEMMA InitIInv == Init => IInv
<1>. SUFFICES ASSUME Init PROVE IInv
    OBVIOUS
<1>1. \A t \in Threads : stack[t] \in Seq(Frame) /\ DOMAIN stack[t] = {}
    BY EmptySeq DEF Init
<1>2. TypeOK
    BY <1>1, EmptySeq DEF Init, TypeOK
<1>3. NoDuplicates /\ UpdateOnItsWay
    BY EmptySeq DEF Init, NoDuplicates, IsInjective, UpdateOnItsWay
<1>. QED  BY <1>2, <1>3 DEF IInv

\* every step keeps it,
LEMMA StepIInv == IInv /\ [Next]_vars => IInv'
<1>. SUFFICES ASSUME IInv, [Next]_vars PROVE IInv'
    OBVIOUS
<1>1. CASE NewCall
  <2>1. ASSUME NEW t \in Threads, NEW call \in OnList, CallOnList(t, call) PROVE IInv'
      BY <2>1, AskKeeps DEF CallOnList
  <2>2. ASSUME NEW t \in Threads, NEW call \in Setting, CallSet(t, call) PROVE IInv'
    <3>1. call \notin OnList
        BY CallTypes
    <3>. QED  BY <2>2, <3>1, AskKeeps DEF CallSet
  <2>. QED  BY <1>1, <2>1, <2>2 DEF NewCall
<1>2. ASSUME NEW t \in Threads, Step(t) PROVE IInv'
    BY <1>2, AddObserverKeeps, RemoveObserverKeeps, SetEqualKeeps, SetKeeps, UnlockKeeps, SkipKeeps,
       NotifyKeeps, TellKeeps, ToldKeeps, SweepKeeps, FinishKeeps DEF Step
<1>3. ASSUME NEW o \in Transient, Drop(o) PROVE IInv'
    BY <1>3, DropKeeps
<1>4. CASE UNCHANGED vars
  <2>1. TypeOK' /\ NoDuplicates'
      BY <1>4 DEF vars, IInv, TypeOK, NoDuplicates
  <2>2. \A o : Alive(o)' => Alive(o)
      BY <1>4 DEF vars, Alive, Calling, Asking
  <2>3. UpdateOnItsWay'
      BY <1>4, <2>2 DEF vars, IInv, UpdateOnItsWay
  <2>. QED  BY <2>1, <2>3 DEF IInv
<1>. QED  BY <1>1, <1>2, <1>3, <1>4 DEF Next

\* and so it holds in every reachable state.
LEMMA Invariant == Spec => []IInv
BY InitIInv, StepIInv, PTL DEF Spec

\* Every reachable state is well typed, and a callback that has read the value
\* is one that runs.
THEOREM TypeCorrect == Spec => []TypeOK
<1>1. IInv => TypeOK
    BY DEF IInv
<1>. QED  BY <1>1, Invariant, PTL

\* An observer stands in the list once at most, for any list and any mix of
\* registrations, removals, sweeps and expiries.
THEOREM RegisteredOnce == Spec => []NoDuplicates
<1>1. IInv => NoDuplicates
    BY DEF IInv
<1>. QED  BY <1>1, Invariant, PTL

\* An observer registered at the last change and since knows the present value,
\* has expired, or has a call coming, however many set() calls overlap or nest.
THEOREM NoMissedUpdate == Spec => []UpdateOnItsWay
<1>1. IInv => UpdateOnItsWay
    BY DEF IInv
<1>. QED  BY <1>1, Invariant, PTL
=============================================================================
