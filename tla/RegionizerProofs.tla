-------------------------- MODULE RegionizerProofs --------------------------
(***************************************************************************)
(* Theorems of Regionizer: the two loops that sort an array of edges do,    *)
(* the subregions cover the damaged area once, a layer's index leads to its *)
(* own buffer, a frame that repeats the last ones costs no blit, no blit    *)
(* reaches outside the screen or its buffer, and every pixel shows what its *)
(* layers ask for, redrawn or left alone. They hold for any screen, any     *)
(* layers and any attributes that satisfy the assumptions, for any bound on *)
(* the passed frames.                                                       *)
(***************************************************************************)
EXTENDS Regionizer, FiniteSetTheorems, SequenceTheorems, WellFoundedInduction, TLAPS

-----------------------------------------------------------------------------
(* Induction and recursion over an interval, for sets and functions.        *)

\* A set of naturals that is not empty has a least element.
LEMMA LeastNatural ==
  ASSUME NEW T, T \subseteq Nat, T # {}
  PROVE  \E n \in T : \A m \in T : n <= m
<1> DEFINE R == OpToRel(<, Nat)
<1>1. IsWellFoundedOn(R, Nat)
  BY NatLessThanWellFounded
<1>2. \A a, b \in Nat : a < b => <<a, b>> \in R
  BY DEF OpToRel
<1> HIDE DEF R
<1>3. PICK n \in T : \A m \in T : ~ (<<m, n>> \in R)
  BY <1>1, WFMin
<1>4. \A m \in T : ~(m < n)
  BY <1>2, <1>3
<1>5. \A m \in T : m \in Nat /\ n \in Nat
  OBVIOUS
<1> QED
  BY <1>4, <1>5

\* What holds at 0 and from each number to the next one holds up to n.
LEMMA UpTo ==
  ASSUME NEW n \in Nat, NEW T, 0 \in T, \A k \in 1 .. n : k - 1 \in T => k \in T
  PROVE  \A k \in 0 .. n : k \in T
<1> DEFINE Bad == (0 .. n) \ T
<1>1. SUFFICES ASSUME Bad # {} PROVE FALSE
  OBVIOUS
<1>2. PICK m \in Bad : \A c \in Bad : m <= c
  <2>1. Bad \subseteq Nat
    OBVIOUS
  <2> HIDE DEF Bad
  <2> QED
    BY <1>1, <2>1, LeastNatural
<1>3. m \in 1 .. n /\ m \notin T /\ m - 1 \in 0 .. n
  OBVIOUS
<1>4. m - 1 \in T
  BY <1>2, <1>3
<1> QED
  BY <1>3, <1>4

\* A function defined by recursion exists: v at 0, then g of a number and what the
\* function is before it.
Recursive(n, v, g, f) == f[0] = v /\ \A k \in 1 .. n : f[k] = g[k][f[k - 1]]

\* There is a function for each such recursion: what CHOOSE finds is one.
LEMMA Recursion ==
  ASSUME NEW n \in Nat, NEW V, NEW v \in V, NEW g \in [1 .. n -> [V -> V]]
  PROVE  \E f \in [0 .. n -> V] : Recursive(n, v, g, f)
<1> DEFINE T == {m \in 0 .. n : \E f \in [0 .. m -> V] : Recursive(m, v, g, f)}
<1>1. 0 \in T
  <2> DEFINE f == [k \in 0 .. 0 |-> v]
  <2>1. f \in [0 .. 0 -> V] /\ f[0] = v
    OBVIOUS
  <2>2. Recursive(0, v, g, f)
    BY <2>1 DEF Recursive
  <2> QED
    BY <2>1, <2>2
<1>2. ASSUME NEW m \in 1 .. n, m - 1 \in T
      PROVE  m \in T
  <2>1. PICK s \in [0 .. m - 1 -> V] : Recursive(m - 1, v, g, s)
    BY <1>2
  <2> DEFINE f == [k \in 0 .. m |-> IF k = m THEN g[m][s[m - 1]] ELSE s[k]]
  <2>2. m \in Nat /\ m - 1 \in 0 .. m - 1 /\ \A k \in 0 .. m : k # m => k \in 0 .. m - 1
    BY <1>2
  <2>3. g[m][s[m - 1]] \in V
    BY <2>1, <2>2
  <2>4. f \in [0 .. m -> V]
    BY <2>1, <2>2, <2>3
  <2>5. f[0] = v
    BY <2>1, <2>2 DEF Recursive
  <2>6. ASSUME NEW k \in 1 .. m
        PROVE  f[k] = g[k][f[k - 1]]
    <3>1. k - 1 \in 0 .. m /\ k \in 0 .. m /\ k - 1 # m
      BY <1>2
    <3>2. f[k - 1] = s[k - 1]
      BY <3>1
    <3>3. CASE k = m
      BY <3>1, <3>2, <3>3
    <3>4. CASE k # m
      <4>1. k \in 1 .. m - 1
        BY <1>2, <3>4
      <4> QED
        BY <2>1, <3>1, <3>2, <3>4, <4>1 DEF Recursive
    <3> QED
      BY <3>3, <3>4
  <2> HIDE DEF f
  <2> QED
    <3>1. Recursive(m, v, g, f)
      BY <2>5, <2>6 DEF Recursive
    <3> QED
      BY <2>2, <2>4, <3>1
<1> HIDE DEF T
<1>3. n \in T
  <2>1. \A k \in 0 .. n : k \in T
    BY <1>1, <1>2, UpTo
  <2> QED
    BY <2>1
<1> QED
  BY <1>3 DEF T

-----------------------------------------------------------------------------
(* Ascending(S) lists a finite set of integers.                             *)

Below(S, x) == Cardinality({y \in S : y < x})

Lists(a, S) ==
  /\ \A i \in DOMAIN a : a[i] \in S
  /\ \A x \in S : \E i \in DOMAIN a : a[i] = x
  /\ \A i, j \in DOMAIN a : i < j => a[i] < a[j]

\* How many members of S are less than x grows with x.
LEMMA BelowGrows ==
  ASSUME NEW S \in SUBSET Int, IsFiniteSet(S), NEW x \in S, NEW y \in S
  PROVE  /\ Below(S, x) \in 0 .. Cardinality(S) - 1
         /\ x < y => Below(S, x) < Below(S, y)
<1> DEFINE P(z) == {w \in S : w < z}
<1>1. \A z \in S : IsFiniteSet(P(z)) /\ Cardinality(P(z)) \in Nat
  BY FS_Subset, FS_CardinalityType
<1>2. \A z \in S : x \notin P(x)
  OBVIOUS
<1> DEFINE Q == P(x) \cup {x}
<1>3. IsFiniteSet(Q) /\ Cardinality(Q) = Cardinality(P(x)) + 1
  <2> HIDE DEF P
  <2> QED
    BY <1>1, <1>2, FS_AddElement
<1>4. Q \subseteq S /\ (x < y => Q \subseteq P(y))
  <2>1. x \in Int /\ y \in Int /\ \A w \in S : w \in Int
    OBVIOUS
  <2>2. ASSUME x < y, NEW w \in Q PROVE w \in P(y)
    BY <2>1, <2>2
  <2> QED
    BY <2>2
<1>5. Cardinality(S) \in Nat
  BY FS_CardinalityType
<1>6. Cardinality(Q) <= Cardinality(S)
  BY <1>3, <1>4, FS_Subset
<1>7. x < y => Cardinality(Q) <= Cardinality(P(y))
  <2> HIDE DEF P, Q
  <2> QED
    BY <1>1, <1>4, FS_Subset
<1>8. Below(S, x) = Cardinality(P(x)) /\ Below(S, y) = Cardinality(P(y))
  BY DEF Below
<1> HIDE DEF P, Q
<1> QED
  BY <1>1, <1>3, <1>5, <1>6, <1>7, <1>8

\* Ascending(S) lists the members of S once each, the least one first.
LEMMA AscendingLists ==
  ASSUME NEW S \in SUBSET Int, IsFiniteSet(S)
  PROVE  /\ Ascending(S) \in [1 .. Cardinality(S) -> S]
         /\ Lists(Ascending(S), S)
         /\ \A i \in 1 .. Cardinality(S) : Below(S, Ascending(S)[i]) = i - 1
<1> DEFINE n == Cardinality(S)
           r == [x \in S |-> Below(S, x)]
<1>1. n \in Nat
  BY FS_CardinalityType
<1>2. r \in Injection(S, 0 .. n - 1)
  <2>1. r \in [S -> 0 .. n - 1]
    BY BelowGrows
  <2>2. \A x, y \in S : x # y => r[x] # r[y]
    <3>1. SUFFICES ASSUME NEW x \in S, NEW y \in S, x < y
                   PROVE  r[x] # r[y]
      OBVIOUS
    <3>2. Below(S, x) < Below(S, y) /\ Below(S, x) \in Int /\ Below(S, y) \in Int
      BY <3>1, BelowGrows, <1>1
    <3> QED
      BY <3>2
  <2> QED
    BY <2>1, <2>2 DEF Injection, IsInjective
<1>3. IsFiniteSet(0 .. n - 1) /\ Cardinality(0 .. n - 1) = n
  <2>1. 0 \in Int /\ n - 1 \in Int
    BY <1>1
  <2>2. \A k \in Int : IsFiniteSet(0 .. k) /\ Cardinality(0 .. k) = IF 0 > k THEN 0 ELSE k - 0 + 1
    BY FS_Interval
  <2>3. Cardinality(0 .. n - 1) = IF 0 > n - 1 THEN 0 ELSE n - 1 - 0 + 1
    BY <2>1, <2>2
  <2> QED
    BY <1>1, <2>1, <2>2, <2>3
<1>4. r \in Surjection(S, 0 .. n - 1)
  <2> HIDE DEF r, n
  <2> QED
    BY <1>2, <1>3, FS_Injection DEF n
<1>5. \A i \in 1 .. n : \E x \in S : Below(S, x) = i - 1
  <2>1. \A k \in 0 .. n - 1 : \E x \in S : r[x] = k
    BY <1>4 DEF Surjection
  <2>2. \A i \in 1 .. n : i - 1 \in 0 .. n - 1
    BY <1>1
  <2> QED
    BY <2>1, <2>2
<1>6. \A i \in 1 .. n : Ascending(S)[i] \in S /\ Below(S, Ascending(S)[i]) = i - 1
  BY <1>5 DEF Ascending, Below
<1>7. DOMAIN Ascending(S) = 1 .. n /\ Ascending(S) \in [1 .. n -> S]
  BY <1>6 DEF Ascending
<1>8. \A x, y \in S : Below(S, x) = Below(S, y) => x = y
  BY <1>2 DEF Injection, IsInjective
<1>9. ASSUME NEW x \in S
      PROVE  \E i \in 1 .. n : Ascending(S)[i] = x
  <2>1. Below(S, x) + 1 \in 1 .. n /\ Below(S, x) \in Int
    BY BelowGrows, <1>1
  <2>2. Below(S, Ascending(S)[Below(S, x) + 1]) = Below(S, x)
    BY <1>6, <2>1
  <2> QED
    BY <1>6, <1>8, <2>1, <2>2
<1>10. ASSUME NEW i \in 1 .. n, NEW j \in 1 .. n, i < j
       PROVE  Ascending(S)[i] < Ascending(S)[j]
  <2> DEFINE x == Ascending(S)[i]
             y == Ascending(S)[j]
  <2>1. x \in S /\ y \in S /\ Below(S, x) = i - 1 /\ Below(S, y) = j - 1
    BY <1>6
  <2>2. x # y
    BY <1>1, <1>10, <2>1
  <2>3. ~(y < x)
    <3>1. y < x => Below(S, y) < Below(S, x)
      BY <2>1, BelowGrows
    <3> QED
      BY <1>1, <1>10, <2>1, <3>1
  <2>4. x \in Int /\ y \in Int
    BY <2>1
  <2> HIDE DEF x, y
  <2>5. x < y
    BY <2>2, <2>3, <2>4
  <2> QED
    BY <2>5 DEF x, y
<1> QED
  BY <1>6, <1>7, <1>9, <1>10 DEF Lists

\* There is one list of a set only.
LEMMA OneList ==
  ASSUME NEW S \in SUBSET Int, NEW n \in Nat, NEW a \in [1 .. n -> S], Lists(a, S)
  PROVE  IsFiniteSet(S) /\ n = Cardinality(S) /\ a = Ascending(S)
<1>1. a \in Bijection(1 .. n, S)
  <2>1. \A i, j \in 1 .. n : a[i] = a[j] => i = j
    <3>1. SUFFICES ASSUME NEW i \in 1 .. n, NEW j \in 1 .. n, i < j
                   PROVE  a[i] # a[j]
      OBVIOUS
    <3>2. a[i] < a[j] /\ a[i] \in Int /\ a[j] \in Int
      BY <3>1 DEF Lists
    <3> QED
      BY <3>2
  <2>2. \A x \in S : \E i \in 1 .. n : a[i] = x
    BY DEF Lists
  <2> QED
    BY <2>1, <2>2 DEF Bijection, Injection, Surjection, IsInjective
<1>2. IsFiniteSet(1 .. n) /\ Cardinality(1 .. n) = n
  <2>1. \A k \in Int : IsFiniteSet(1 .. k) /\ Cardinality(1 .. k) = IF 1 > k THEN 0 ELSE k - 1 + 1
    BY FS_Interval
  <2>2. Cardinality(1 .. n) = IF 1 > n THEN 0 ELSE n - 1 + 1
    BY <2>1
  <2> QED
    BY <2>1, <2>2
<1>3. IsFiniteSet(S) /\ Cardinality(S) = n
  BY <1>1, <1>2, FS_Bijection DEF ExistsBijection
<1>4. ASSUME NEW T, NEW e, Lists(e, S), e \in [1 .. n -> S], T = {k \in 0 .. n : \A i \in 1 .. k : e[i] = a[i]}
      PROVE  e = a
  <2>1. 0 \in T
    BY <1>4
  <2>2. ASSUME NEW k \in 1 .. n, k - 1 \in T
        PROVE  k \in T
    <3>1. \A i \in 1 .. k - 1 : e[i] = a[i]
      BY <1>4, <2>2
    <3>2. PICK i \in 1 .. n : e[i] = a[k]
      BY <1>4 DEF Lists
    <3>3. PICK j \in 1 .. n : a[j] = e[k]
      BY <1>4 DEF Lists
    <3>4. \A p, q \in 1 .. n : p < q => e[p] < e[q] /\ a[p] < a[q]
      BY <1>4 DEF Lists
    <3>5. \A p \in 1 .. n : e[p] \in Int /\ a[p] \in Int
      BY <1>4
    <3>6. ~(i < k)
      <4>1. i < k => i \in 1 .. k - 1
        OBVIOUS
      <4>2. i < k => a[i] = a[k] /\ a[i] < a[k]
        BY <3>1, <3>2, <3>4, <4>1
      <4> QED
        BY <3>5, <4>2
    <3>7. ~(j < k)
      <4>1. j < k => j \in 1 .. k - 1
        OBVIOUS
      <4>2. j < k => e[j] = e[k] /\ e[j] < e[k]
        BY <3>1, <3>3, <3>4, <4>1
      <4> QED
        BY <3>5, <4>2
    <3>8. e[k] <= e[i] /\ a[k] <= a[j]
      <4>1. (i = k \/ k < i) /\ (j = k \/ k < j)
        BY <3>6, <3>7
      <4> QED
        BY <3>4, <3>5, <4>1
    <3>9. e[k] = a[k]
      BY <3>2, <3>3, <3>5, <3>8
    <3>10. \A m \in 1 .. k : m = k \/ m \in 1 .. k - 1
      OBVIOUS
    <3>11. k \in 0 .. n
      OBVIOUS
    <3> QED
      BY <1>4, <3>1, <3>9, <3>10, <3>11
  <2>3. \A k \in 0 .. n : k \in T
    BY <2>1, <2>2, UpTo
  <2>4. \A i \in 1 .. n : e[i] = a[i]
    BY <1>4, <2>3
  <2> QED
    BY <1>4, <2>4
<1>5. Lists(Ascending(S), S) /\ Ascending(S) \in [1 .. n -> S]
  BY <1>3, AscendingLists
<1> QED
  BY <1>3, <1>4, <1>5

-----------------------------------------------------------------------------
(* The sorting loops.                                                       *)

\* The first n elements are in order.
Weakly(a, n) == \A i, j \in 1 .. n : i < j => a[i] <= a[j]

\* Arrays that hold each other's elements have the same set of them.
LEMMA SameElements ==
  ASSUME NEW a, NEW b,
         \A k \in DOMAIN a : \E m \in DOMAIN b : a[k] = b[m],
         \A k \in DOMAIN b : \E m \in DOMAIN a : b[k] = a[m]
  PROVE  Elements(a) = Elements(b)
<1>1. ASSUME NEW x \in Elements(a) PROVE x \in Elements(b)
  <2>1. PICK k \in DOMAIN a : x = a[k]
    BY DEF Elements
  <2> QED
    BY <2>1 DEF Elements
<1>2. ASSUME NEW x \in Elements(b) PROVE x \in Elements(a)
  <2>1. PICK k \in DOMAIN b : x = b[k]
    BY DEF Elements
  <2> QED
    BY <2>1 DEF Elements
<1> QED
  BY <1>1, <1>2

\* Element i has passed those before j.
SunkUpTo(b, a, n, i, j) ==
  /\ b \in [1 .. n -> Int] /\ Elements(b) = Elements(a)
  /\ Weakly(b, i - 1)
  /\ \A k \in 1 .. j : b[k] <= b[i]

\* One comparison of the inner loop of rgz_bsort moves its invariant on by one.
LEMMA SwapKeeps ==
  ASSUME NEW n \in Nat, NEW a, NEW b, NEW i \in 1 .. n, NEW j \in 1 .. i - 1,
         SunkUpTo(b, a, n, i, j - 1), NEW c, c = IF b[i] < b[j] THEN Swapped(b, i, j) ELSE b
  PROVE  SunkUpTo(c, a, n, i, j)
<1>1. /\ b \in [1 .. n -> Int] /\ Weakly(b, i - 1)
      /\ \A k \in 1 .. j - 1 : b[k] <= b[i]
  BY DEF SunkUpTo
<1>2. j \in 1 .. n /\ i # j /\ i \in Int /\ j \in Int /\ \A k \in 1 .. i - 1 : k \in 1 .. n /\ k # i
  OBVIOUS
<1>3. CASE ~(b[i] < b[j])
  <2>1. b[j] <= b[i]
    BY <1>1, <1>2, <1>3
  <2>2. \A k \in 1 .. j : k = j \/ k \in 1 .. j - 1
    OBVIOUS
  <2> QED
    BY <1>1, <1>3, <2>1, <2>2 DEF SunkUpTo
<1>4. CASE b[i] < b[j]
  <2>1. /\ c \in [1 .. n -> Int] /\ c[i] = b[j] /\ c[j] = b[i]
        /\ \A k \in 1 .. n : k # i /\ k # j => c[k] = b[k]
    BY <1>1, <1>2, <1>4 DEF Swapped
  <2>2. Elements(c) = Elements(b)
    <3>1. DOMAIN c = 1 .. n /\ DOMAIN b = 1 .. n
      BY <1>1, <2>1
    <3>2. \A k \in 1 .. n : \E m \in 1 .. n : c[k] = b[m]
      BY <1>2, <2>1
    <3>3. \A k \in 1 .. n : \E m \in 1 .. n : b[k] = c[m]
      BY <1>2, <2>1
    <3>4. \A k \in DOMAIN c : \E m \in DOMAIN b : c[k] = b[m]
      BY <3>1, <3>2
    <3>5. \A k \in DOMAIN b : \E m \in DOMAIN c : b[k] = c[m]
      BY <3>1, <3>3
    <3> QED
      BY <3>4, <3>5, SameElements
  <2>3. ASSUME NEW k \in 1 .. i - 1, NEW m \in 1 .. i - 1, k < m
        PROVE  c[k] <= c[m]
    <3>1. b[k] <= b[m] /\ (j < m => b[j] <= b[m]) /\ (k < j => b[k] <= b[i])
      BY <1>1, <2>3 DEF Weakly
    <3>2. /\ c[k] = IF k = j THEN b[i] ELSE b[k]
          /\ c[m] = IF m = j THEN b[i] ELSE b[m]
      BY <1>2, <2>1
    <3>3. b[k] \in Int /\ b[m] \in Int /\ b[i] \in Int /\ b[j] \in Int
      BY <1>1, <1>2
    <3>4. CASE k = j
      BY <1>4, <2>3, <3>1, <3>2, <3>3, <3>4
    <3>5. CASE m = j
      BY <1>4, <2>3, <3>1, <3>2, <3>3, <3>5
    <3>6. CASE k # j /\ m # j
      BY <3>1, <3>2, <3>6
    <3> QED
      BY <3>4, <3>5, <3>6
  <2>4. ASSUME NEW k \in 1 .. j
        PROVE  c[k] <= c[i]
    <3>1. k \in 1 .. n /\ k # i /\ (k = j \/ k \in 1 .. j - 1)
      BY <1>2
    <3>2. b[k] \in Int /\ b[i] \in Int /\ b[j] \in Int
      BY <1>1, <1>2, <3>1
    <3>3. CASE k = j
      BY <1>4, <2>1, <3>2, <3>3
    <3>4. CASE k # j
      <4>1. c[k] = b[k] /\ b[k] <= b[i]
        BY <1>1, <2>1, <3>1, <3>4
      <4> QED
        BY <1>4, <2>1, <3>2, <4>1
    <3> QED
      BY <3>3, <3>4
  <2> QED
    BY <2>1, <2>2, <2>3, <2>4 DEF SunkUpTo, Weakly
<1> QED
  BY <1>3, <1>4

\* The inner loop of rgz_bsort puts element i in its place among those before it.
LEMMA SunkRight ==
  ASSUME NEW n \in Nat, NEW a \in [1 .. n -> Int], NEW i \in 1 .. n, Weakly(a, i - 1)
  PROVE  /\ Sunk(a, i) \in [1 .. n -> Int] /\ Elements(Sunk(a, i)) = Elements(a)
         /\ Weakly(Sunk(a, i), i)
<1> DEFINE V == [1 .. n -> Int]
           Turn(b, j) == IF b[i] < b[j] THEN Swapped(b, i, j) ELSE b
           g == [j \in 1 .. i - 1 |-> [b \in V |-> Turn(b, j)]]
           F(p) == [j \in 0 .. i - 1 |-> IF j = 0 THEN a ELSE Turn(p[j - 1], j)]
           sunk == CHOOSE p : p = F(p)
<1>1. i - 1 \in Nat
  OBVIOUS
<1>2. g \in [1 .. i - 1 -> [V -> V]]
  <2>1. ASSUME NEW j \in 1 .. i - 1, NEW b \in V
        PROVE  Turn(b, j) \in V
    <3>1. j \in 1 .. n
      OBVIOUS
    <3>2. Swapped(b, i, j) \in V
      BY <3>1 DEF Swapped
    <3> QED
      BY <3>2
  <2> HIDE DEF V, Turn
  <2> QED
    BY <2>1
<1>3. \E p : p = F(p)
  <2>1. PICK p \in [0 .. i - 1 -> V] : Recursive(i - 1, a, g, p)
    <3> HIDE DEF V, g
    <3>1. a \in V
      BY DEF V
    <3> QED
      BY <1>1, <1>2, <3>1, Recursion
  <2>2. ASSUME NEW j \in 0 .. i - 1
        PROVE  p[j] = F(p)[j]
    <3>1. CASE j = 0
      BY <2>1, <3>1 DEF Recursive
    <3>2. CASE j # 0
      <4>1. j \in 1 .. i - 1 /\ j - 1 \in 0 .. i - 1
        BY <3>2
      <4>2. p[j] = g[j][p[j - 1]] /\ p[j - 1] \in V
        BY <2>1, <4>1 DEF Recursive
      <4>3. g[j][p[j - 1]] = Turn(p[j - 1], j)
        <5> HIDE DEF V, Turn
        <5> QED
          BY <4>1, <4>2
      <4> QED
        BY <3>2, <4>2, <4>3
    <3> QED
      BY <3>1, <3>2
  <2> QED
    BY <2>1, <2>2
<1>4. sunk = F(sunk)
  <2> HIDE DEF F
  <2> QED
    BY <1>3
<1>5. Sunk(a, i) = sunk[i - 1]
  BY DEF Sunk
<1> HIDE DEF sunk
<1>6. sunk[0] = a /\ \A j \in 1 .. i - 1 : sunk[j] = Turn(sunk[j - 1], j)
  <2> HIDE DEF Turn
  <2>1. \A j \in 1 .. i - 1 : j \in 0 .. i - 1 /\ j # 0
    OBVIOUS
  <2>2. 0 \in 0 .. i - 1
    BY <1>1
  <2> QED
    BY <1>4, <2>1, <2>2
<1> DEFINE T == {j \in 0 .. i - 1 : SunkUpTo(sunk[j], a, n, i, j)}
<1>7. 0 \in T
  BY <1>1, <1>6 DEF SunkUpTo
<1>8. ASSUME NEW j \in 1 .. i - 1, j - 1 \in T
      PROVE  j \in T
  <2>1. SunkUpTo(sunk[j - 1], a, n, i, j - 1)
    BY <1>8
  <2>2. SunkUpTo(sunk[j], a, n, i, j)
    BY <1>6, <2>1, SwapKeeps
  <2> QED
    BY <2>2
<1> HIDE DEF T
<1>9. i - 1 \in T
  <2>1. \A k \in 0 .. i - 1 : k \in T
    BY <1>1, <1>7, <1>8, UpTo
  <2> QED
    BY <1>1, <2>1
<1>10. SunkUpTo(sunk[i - 1], a, n, i, i - 1)
  BY <1>9 DEF T
<1> DEFINE b == sunk[i - 1]
<1>11. ASSUME NEW k \in 1 .. i, NEW m \in 1 .. i, k < m
       PROVE  b[k] <= b[m]
  <2>1. k \in 1 .. i - 1 /\ (m = i \/ m \in 1 .. i - 1)
    BY <1>11
  <2> QED
    BY <1>10, <1>11, <2>1 DEF SunkUpTo, Weakly
<1> QED
  BY <1>5, <1>10, <1>11 DEF SunkUpTo, Weakly

\* rgz_bsort sorts: the elements are the same and none is greater than the next.
LEMMA BSortRight ==
  ASSUME NEW a \in Seq(Int)
  PROVE  /\ BSort(a) \in [1 .. Len(a) -> Int] /\ Elements(BSort(a)) = Elements(a)
         /\ Weakly(BSort(a), Len(a))
<1> DEFINE n == Len(a)
           V == [1 .. n -> Int]
           F(p) == [i \in 0 .. n |-> IF i = 0 THEN a ELSE Sunk(p[i - 1], i)]
           sorted == CHOOSE p : p = F(p)
           Right(b, i) == b \in V /\ Elements(b) = Elements(a) /\ Weakly(b, i)
           g == [i \in 1 .. n |-> [b \in V |-> IF Weakly(b, i - 1) THEN Sunk(b, i) ELSE b]]
<1>1. n \in Nat /\ a \in V
  OBVIOUS
<1>2. \A i \in 1 .. n, b \in V : Weakly(b, i - 1) =>
        Sunk(b, i) \in V /\ Elements(Sunk(b, i)) = Elements(b) /\ Weakly(Sunk(b, i), i)
  BY <1>1, SunkRight
<1> HIDE DEF n, V
<1>3. g \in [1 .. n -> [V -> V]]
  BY <1>2
<1>4. PICK p \in [0 .. n -> V] : Recursive(n, a, g, p)
  <2> HIDE DEF g
  <2> QED
    BY <1>1, <1>3, Recursion
<1> DEFINE T == {i \in 0 .. n : Right(p[i], i)}
<1>5. 0 \in T
  <2>1. p[0] = a /\ Weakly(a, 0)
    BY <1>4 DEF Recursive, Weakly
  <2> QED
    BY <1>1, <2>1
<1>6. ASSUME NEW i \in 1 .. n, Right(p[i - 1], i - 1)
      PROVE  p[i] = Sunk(p[i - 1], i) /\ Right(p[i], i)
  <2>1. p[i] = g[i][p[i - 1]]
    BY <1>4 DEF Recursive
  <2>2. g[i][p[i - 1]] = Sunk(p[i - 1], i)
    BY <1>6
  <2> QED
    BY <1>2, <1>6, <2>1, <2>2
<1>7. \A i \in 0 .. n : Right(p[i], i)
  <2>1. \A i \in 1 .. n : i - 1 \in T => i \in T
    BY <1>1, <1>6
  <2> HIDE DEF Right
  <2>2. \A i \in 0 .. n : i \in T
    <3> HIDE DEF T
    <3> QED
      BY <1>1, <1>5, <2>1, UpTo
  <2> QED
    BY <2>2
<1> HIDE DEF Right
<1>8. ASSUME NEW i \in 0 .. n
      PROVE  p[i] = F(p)[i]
  <2>1. CASE i = 0
    BY <1>4, <2>1 DEF Recursive
  <2>2. CASE i # 0
    <3>1. i \in 1 .. n /\ i - 1 \in 0 .. n
      BY <1>1, <2>2
    <3> QED
      BY <1>6, <1>7, <2>2, <3>1
  <2> QED
    BY <2>1, <2>2
<1>9. p = F(p)
  BY <1>4, <1>8
<1>10. sorted = F(sorted)
  <2> HIDE DEF F
  <2> QED
    BY <1>9
<1>11. BSort(a) = sorted[n]
  BY DEF BSort, n
<1> HIDE DEF sorted
<1>12. sorted[0] = a /\ \A i \in 1 .. n : sorted[i] = Sunk(sorted[i - 1], i)
  <2>1. \A i \in 1 .. n : i \in 0 .. n /\ i # 0
    BY <1>1
  <2>2. 0 \in 0 .. n
    BY <1>1
  <2> QED
    BY <1>10, <2>1, <2>2
<1> DEFINE U == {i \in 0 .. n : sorted[i] = p[i]}
<1>13. n \in U
  <2>1. 0 \in U
    BY <1>1, <1>4, <1>12 DEF Recursive
  <2>2. \A i \in 1 .. n : i - 1 \in U => i \in U
    <3>1. ASSUME NEW i \in 1 .. n, i - 1 \in U
          PROVE  i \in U
      <4>1. i - 1 \in 0 .. n /\ i \in 0 .. n
        BY <1>1
      <4> QED
        BY <1>6, <1>7, <1>12, <3>1, <4>1
    <3> QED
      BY <3>1
  <2>3. \A i \in 0 .. n : i \in U
    <3> HIDE DEF U
    <3> QED
      BY <1>1, <2>1, <2>2, UpTo
  <2> QED
    BY <1>1, <2>3
<1>14. BSort(a) = p[n] /\ Right(p[n], n)
  BY <1>1, <1>7, <1>11, <1>13
<1> QED
  BY <1>14 DEF Right, V, n

-----------------------------------------------------------------------------
(* Dropping duplicates.                                                     *)

\* The first n elements are in order and differ.
Strictly(a, n) == \A i, j \in 1 .. n : i < j => a[i] < a[j]

States(N) == [a: [1 .. N -> Int], base: 1 .. N, unique: 1 .. N, done: BOOLEAN]

\* After turn n: the elements up to unique are the different ones so far.
UniqueUpTo(s, a, N, n) ==
  /\ s \in States(N) /\ Elements(s.a) = Elements(a)
  /\ s.unique = s.base
  /\ Weakly(s.a, N) /\ Strictly(s.a, s.base)
  /\ IF s.done THEN \A k \in s.base .. N : s.a[k] = s.a[s.base] ELSE s.base = n + 1

\* The scan of rgz_bunique ends at the last duplicate of the element at base.
LEMMA LastIsLast ==
  ASSUME NEW N \in Nat, NEW a \in [1 .. N -> Int], NEW base \in 1 .. N
  PROVE  /\ LastDuplicate(a, base) \in base .. N
         /\ \A m \in base .. LastDuplicate(a, base) : a[m] = a[base]
         /\ LastDuplicate(a, base) < N => a[LastDuplicate(a, base) + 1] # a[base]
<1>1. Len(a) = N /\ base \in Int
  OBVIOUS
<1> DEFINE same == Duplicates(a, base)
           skip == LastDuplicate(a, base)
<1>0. \A k : k \in same <=> k \in base .. N /\ \A m \in base .. k : a[m] = a[base]
  BY <1>1 DEF Duplicates
<1>11. skip = CHOOSE k \in same : k + 1 \notin same
  BY DEF LastDuplicate
<1> HIDE DEF same, skip
<1> DEFINE Out == {k \in base .. N + 1 : k \notin same}
<1>2. PICK o \in Out : \A k \in Out : o <= k
  <2>1. N + 1 \in Out /\ Out \subseteq Nat
    BY <1>0, <1>1
  <2> HIDE DEF Out
  <2> QED
    BY <2>1, LeastNatural
<1>3. base \in same
  <2>1. \A m \in base .. base : m = base
    OBVIOUS
  <2> QED
    BY <1>0, <1>1, <2>1
<1>4. o \in base + 1 .. N + 1 /\ o \notin same
  <2>1. o \in base .. N + 1 /\ o \notin same
    BY DEF Out
  <2>2. o # base
    BY <1>3, <2>1
  <2> HIDE DEF Out
  <2> QED
    BY <1>1, <2>1, <2>2
<1>5. o - 1 \in same /\ (o - 1) + 1 \notin same
  <2>1. o - 1 \in base .. N /\ ~(o <= o - 1) /\ o \in Int /\ N \in Int
    BY <1>1, <1>4
  <2>2. o - 1 \notin Out
    BY <1>2, <2>1
  <2>3. o - 1 \in base .. N + 1
    BY <1>1, <2>1
  <2> HIDE DEF Out
  <2>4. o - 1 \in same
    BY <2>2, <2>3 DEF Out
  <2>5. (o - 1) + 1 = o
    BY <2>1
  <2> QED
    BY <1>4, <2>4, <2>5
<1>6. skip \in same /\ skip + 1 \notin same
  BY <1>5, <1>11
<1>7. skip \in base .. N /\ \A m \in base .. skip : a[m] = a[base]
  BY <1>0, <1>6
<1>8. ASSUME skip < N, a[skip + 1] = a[base]
      PROVE  FALSE
  <2>0. skip \in Int /\ N \in Int /\ base \in Int /\ base <= skip
    BY <1>1, <1>7
  <2>1. skip + 1 \in base .. Len(a)
    BY <1>1, <1>8, <2>0
  <2>2. \A m \in base .. skip + 1 : m = skip + 1 \/ m \in base .. skip
    BY <2>0
  <2>3. \A m \in base .. skip + 1 : a[m] = a[base]
    BY <1>7, <1>8, <2>2
  <2> QED
    BY <1>0, <1>1, <1>6, <2>1, <2>3
<1>9. skip < N => a[skip + 1] # a[base]
  BY <1>8
<1> QED
  BY <1>7, <1>9 DEF skip

\* The duplicates from at on, up to skip, overwritten with what follows them.
Overwrites(c, b, N, at, skip) ==
  /\ b \in [1 .. N -> Int] /\ c \in [1 .. N -> Int]
  /\ at \in 1 .. N - 1 /\ skip \in at .. N - 1
  /\ Weakly(b, N) /\ Strictly(b, at)
  /\ \A m \in at .. skip : b[m] = b[at]
  /\ b[skip + 1] # b[at]
  /\ \A k \in 1 .. N : c[k] = IF k \in at + 1 .. skip THEN b[skip + 1] ELSE b[k]

\* Copying the next value over the duplicates loses no value and keeps the order.
LEMMA Overwritten ==
  ASSUME NEW N \in Nat, NEW b, NEW c, NEW at, NEW skip, Overwrites(c, b, N, at, skip)
  PROVE  /\ Elements(c) = Elements(b)
         /\ Weakly(c, N) /\ Strictly(c, at + 1)
<1>0. /\ b \in [1 .. N -> Int] /\ c \in [1 .. N -> Int]
      /\ at \in 1 .. N - 1 /\ skip \in at .. N - 1
      /\ Weakly(b, N) /\ Strictly(b, at)
      /\ \A m \in at .. skip : b[m] = b[at]
      /\ b[skip + 1] # b[at]
      /\ \A k \in 1 .. N : c[k] = IF k \in at + 1 .. skip THEN b[skip + 1] ELSE b[k]
  BY DEF Overwrites
<1> DEFINE x == b[at]
           y == b[skip + 1]
<1>1. /\ at \in Int /\ skip \in Int /\ at \in 1 .. N /\ skip \in 1 .. N /\ skip + 1 \in 1 .. N
      /\ at <= skip /\ skip < N /\ at + 1 \in 1 .. N
  BY <1>0
<1>2. x \in Int /\ y \in Int /\ \A k \in 1 .. N : b[k] \in Int
  BY <1>0, <1>1
<1>3. \A i, j \in 1 .. N : i <= j => b[i] <= b[j]
  <2>1. SUFFICES ASSUME NEW i \in 1 .. N, NEW j \in 1 .. N, i <= j PROVE b[i] <= b[j]
    OBVIOUS
  <2>2. i = j \/ i < j
    BY <2>1
  <2> QED
    BY <1>0, <1>2, <2>2 DEF Weakly
<1>4. x < y
  <2>1. x <= y
    BY <1>1, <1>3
  <2> QED
    BY <1>0, <1>2, <2>1
<1>5. c \in [1 .. N -> Int] /\ \A k \in 1 .. N : c[k] = IF k \in at + 1 .. skip THEN y ELSE b[k]
  BY <1>0
<1> HIDE DEF x, y
<1>6. ASSUME NEW i \in 1 .. N, NEW j \in 1 .. N, i < j
      PROVE  c[i] <= c[j]
  <2>1. i \in Int /\ j \in Int /\ b[i] \in Int /\ b[j] \in Int /\ b[i] <= b[j]
    BY <1>2, <1>3, <1>6
  <2>2. i <= skip + 1 => b[i] <= y
    BY <1>1, <1>3 DEF y
  <2>3. skip + 1 <= j => y <= b[j]
    BY <1>1, <1>3 DEF y
  <2>4. CASE i \in at + 1 .. skip /\ j \in at + 1 .. skip
    BY <1>2, <1>5, <2>4
  <2>5. CASE i \in at + 1 .. skip /\ j \notin at + 1 .. skip
    <3>1. skip + 1 <= j
      BY <1>1, <1>6, <2>1, <2>5
    <3> QED
      BY <1>5, <2>3, <2>5, <3>1
  <2>6. CASE i \notin at + 1 .. skip /\ j \in at + 1 .. skip
    <3>1. i <= skip + 1
      BY <1>1, <1>6, <2>1, <2>6
    <3> QED
      BY <1>5, <2>2, <2>6, <3>1
  <2>7. CASE i \notin at + 1 .. skip /\ j \notin at + 1 .. skip
    BY <1>5, <2>1, <2>7
  <2> QED
    BY <2>4, <2>5, <2>6, <2>7
<1>7. ASSUME NEW i \in 1 .. at + 1, NEW j \in 1 .. at + 1, i < j
      PROVE  c[i] < c[j]
  <2>1. i \in 1 .. at /\ i \in 1 .. N /\ i \notin at + 1 .. skip /\ j \in 1 .. N /\ i \in Int /\ j \in Int
    BY <1>1, <1>7
  <2>2. c[i] = b[i] /\ b[i] \in Int
    BY <1>2, <1>5, <2>1
  <2>3. CASE j \in 1 .. at
    <3>1. j \notin at + 1 .. skip
      BY <1>1, <2>3
    <3>2. c[j] = b[j]
      BY <1>5, <2>1, <3>1
    <3> QED
      BY <1>7, <2>1, <2>2, <2>3, <3>2, <1>0 DEF Strictly
  <2>4. CASE j = at + 1
    <3>1. b[i] <= x
      BY <1>1, <1>3, <2>1 DEF x
    <3>2. c[j] = y
      <4>1. CASE j \in at + 1 .. skip
        BY <1>5, <2>1, <4>1
      <4>2. CASE j \notin at + 1 .. skip
        <5>1. j = skip + 1
          BY <1>1, <2>4, <4>2
        <5> QED
          BY <1>5, <2>1, <4>2, <5>1 DEF y
      <4> QED
        BY <4>1, <4>2
    <3> QED
      BY <1>2, <1>4, <2>2, <3>1, <3>2
  <2> QED
    BY <1>1, <2>1, <2>3, <2>4
<1>8. Elements(c) = Elements(b)
  <2>1. ASSUME NEW k \in 1 .. N
        PROVE  (\E m \in 1 .. N : c[k] = b[m]) /\ (\E m \in 1 .. N : b[k] = c[m])
    <3>1. CASE k \in at + 1 .. skip
      <4>1. c[k] = b[skip + 1]
        BY <1>5, <3>1 DEF y
      <4>2. k \in at .. skip
        BY <1>1, <3>1
      <4>3. b[k] = b[at] /\ at \notin at + 1 .. skip
        BY <1>0, <1>1, <4>2
      <4>4. b[k] = c[at]
        BY <1>1, <1>5, <4>3
      <4> QED
        BY <1>1, <4>1, <4>4
    <3>2. CASE k \notin at + 1 .. skip
      BY <1>5, <3>2
    <3> QED
      BY <3>1, <3>2
  <2>2. DOMAIN c = 1 .. N /\ DOMAIN b = 1 .. N
    BY <1>0, <1>5
  <2>3. \A k \in DOMAIN c : \E m \in DOMAIN b : c[k] = b[m]
    BY <2>1, <2>2
  <2>4. \A k \in DOMAIN b : \E m \in DOMAIN c : b[k] = c[m]
    BY <2>1, <2>2
  <2> QED
    BY <2>3, <2>4, SameElements
<1>9. Weakly(c, N)
  BY <1>6 DEF Weakly
<1>10. Strictly(c, at + 1)
  BY <1>7 DEF Strictly
<1> QED
  BY <1>5, <1>8, <1>9, <1>10

\* A turn of rgz_bunique's loop either finds the next different element or ends.
LEMMA TurnRight ==
  ASSUME NEW N \in Nat, NEW a, NEW n \in 1 .. N, NEW s, UniqueUpTo(s, a, N, n - 1)
  PROVE  UniqueUpTo(UniqueTurn(s), a, N, n)
<1> DEFINE b == s.a
           at == s.base
           skip == LastDuplicate(b, at)
           on   == [s EXCEPT !.base = @ + 1, !.unique = @ + 1]
           stop == [s EXCEPT !.done = TRUE]
           c    == [k \in DOMAIN b |-> IF k \in at + 1 .. skip THEN b[skip + 1] ELSE b[k]]
           over == [on EXCEPT !.a = c]
           t    == UniqueTurn(s)
<1>1. /\ s \in States(N) /\ Elements(b) = Elements(a) /\ s.unique = at
      /\ Weakly(b, N) /\ Strictly(b, at)
      /\ IF s.done THEN \A k \in at .. N : b[k] = b[at] ELSE at = n
  BY DEF UniqueUpTo
<1>2. b \in [1 .. N -> Int] /\ at \in 1 .. N /\ Len(b) = N /\ DOMAIN b = 1 .. N /\ s.done \in BOOLEAN
  BY <1>1 DEF States
<1>3. t = CASE s.done \/ at + 1 > Len(b) -> stop
            [] ~s.done /\ at + 1 <= Len(b) /\ skip = at -> on
            [] ~s.done /\ at + 1 <= Len(b) /\ skip = Len(b) -> stop
            [] OTHER -> over
  BY DEF UniqueTurn
<1>4. stop \in States(N) /\ stop.a = b /\ stop.base = at /\ stop.unique = at /\ stop.done = TRUE
  BY <1>1 DEF States
<1>5. on.a = b /\ on.base = at + 1 /\ on.unique = at + 1 /\ on.done = s.done
  BY <1>1 DEF States
<1>6. over.a = c /\ over.base = at + 1 /\ over.unique = at + 1 /\ over.done = s.done
  BY <1>1 DEF States
<1>7. at + 1 \in 1 .. N => on \in States(N)
  BY <1>1 DEF States
<1>8. at + 1 \in 1 .. N /\ c \in [1 .. N -> Int] => over \in States(N)
  <2> HIDE DEF c
  <2> QED
    BY <1>1 DEF States
<1>9. c = [k \in 1 .. N |-> IF k \in at + 1 .. skip THEN b[skip + 1] ELSE b[k]]
  BY <1>2
<1>11. skip = LastDuplicate(b, at)
  OBVIOUS
<1> SUFFICES UniqueUpTo(t, a, N, n)
  OBVIOUS
<1> HIDE DEF t, stop, on, over, c, skip, b, at
<1>12. skip \in at .. N /\ (\A m \in at .. skip : b[m] = b[at]) /\ (skip < N => b[skip + 1] # b[at])
  <2>1. N \in Nat /\ b \in [1 .. N -> Int] /\ at \in 1 .. N
    BY <1>2
  <2>2. /\ LastDuplicate(b, at) \in at .. N
        /\ \A m \in at .. LastDuplicate(b, at) : b[m] = b[at]
        /\ LastDuplicate(b, at) < N => b[LastDuplicate(b, at) + 1] # b[at]
    BY ONLY <2>1, LastIsLast, Zenon
  <2> QED
    BY <1>11, <2>2, Zenon
<1>13. ASSUME t = stop, \A k \in at .. N : b[k] = b[at]
       PROVE  UniqueUpTo(t, a, N, n)
  BY <1>1, <1>4, <1>13 DEF UniqueUpTo
<1>14. CASE s.done \/ at + 1 > Len(b)
  <2>0. ~(~s.done /\ at + 1 <= Len(b))
    BY <1>2, <1>14
  <2>1. t = stop
    BY <1>3, <1>14, <2>0
  <2>2. CASE s.done
    BY <1>1, <1>13, <2>1, <2>2
  <2>3. CASE at + 1 > Len(b)
    <3>1. \A k \in at .. N : k = at
      BY <1>2, <2>3
    <3> QED
      BY <1>13, <2>1, <3>1
  <2> QED
    BY <1>14, <2>2, <2>3
<1>15. CASE ~s.done /\ at + 1 <= Len(b) /\ skip = Len(b) /\ skip # at
  <2>1. t = stop
    BY <1>3, <1>2, <1>15
  <2>2. \A k \in at .. N : b[k] = b[at]
    BY <1>2, <1>12, <1>15
  <2> QED
    BY <1>13, <2>1, <2>2
<1>16. CASE ~s.done /\ at + 1 <= Len(b) /\ (skip = at \/ skip # Len(b))
  <2>1. at \in 1 .. N - 1 /\ at + 1 \in 1 .. N /\ at = n
    BY <1>1, <1>2, <1>16
  <2>2. skip \in at .. N - 1 /\ b[skip + 1] # b[at]
    <3>1. skip \in Int /\ N \in Int /\ at \in Int /\ at < N
      BY <1>12, <2>1
    <3>2. skip < N
      BY <1>2, <1>12, <1>16, <3>1
    <3> QED
      BY <1>12, <3>1, <3>2
  <2>3. c \in [1 .. N -> Int] /\ Elements(c) = Elements(b) /\ Weakly(c, N) /\ Strictly(c, at + 1)
    <3>1. b[skip + 1] \in Int /\ \A k \in 1 .. N : b[k] \in Int
      BY <1>2, <2>2, <2>1
    <3>2. /\ c \in [1 .. N -> Int]
          /\ \A k \in 1 .. N : c[k] = IF k \in at + 1 .. skip THEN b[skip + 1] ELSE b[k]
      BY <1>9, <3>1
    <3>3. /\ N \in Nat /\ b \in [1 .. N -> Int] /\ at \in 1 .. N - 1 /\ skip \in at .. N - 1
          /\ Weakly(b, N) /\ Strictly(b, at)
          /\ \A m \in at .. skip : b[m] = b[at]
          /\ b[skip + 1] # b[at]
      BY <1>1, <1>2, <1>12, <2>1, <2>2
    <3>4. Overwrites(c, b, N, at, skip)
      BY <3>2, <3>3 DEF Overwrites
    <3>5. Elements(c) = Elements(b) /\ Weakly(c, N) /\ Strictly(c, at + 1)
      BY <3>4, Overwritten
    <3> QED
      BY <3>2, <3>5
  <2>4. t = IF skip = at THEN on ELSE over
    <3>1. ~s.done /\ at + 1 <= Len(b) /\ ~(at + 1 > Len(b))
      BY <1>2, <1>16
    <3> QED
      BY <1>3, <1>16, <3>1
  <2>5. skip = at => c = b
    <3>1. skip = at => \A k \in 1 .. N : k \notin at + 1 .. skip
      BY <1>2
    <3>2. skip = at => c = [k \in 1 .. N |-> b[k]]
      BY <1>9, <3>1
    <3> QED
      BY <1>2, <3>2
  <2>6. /\ t \in States(N) /\ t.a = c /\ t.base = at + 1 /\ t.unique = at + 1 /\ t.done = s.done
    BY <1>5, <1>6, <1>7, <1>8, <2>1, <2>3, <2>4, <2>5
  <2> QED
    BY <1>1, <1>16, <2>1, <2>3, <2>6 DEF UniqueUpTo
<1>17. Len(b) = N /\ N \in Nat /\ s.done \in BOOLEAN /\ at \in 1 .. N
  BY <1>2
<1>18. \/ s.done \/ at + 1 > Len(b)
       \/ ~s.done /\ at + 1 <= Len(b) /\ skip = Len(b) /\ skip # at
       \/ ~s.done /\ at + 1 <= Len(b) /\ (skip = at \/ skip # Len(b))
  BY <1>17
<1> QED
  BY <1>14, <1>15, <1>16, <1>18

-----------------------------------------------------------------------------
(* All turns.                                                               *)

\* What rgz_bunique leaves of a sorted array: its elements, ascending, once each.
LEMMA BUniqueRight ==
  ASSUME NEW N \in Nat, N > 0, NEW a \in [1 .. N -> Int], Weakly(a, N)
  PROVE  BUnique(a) = Ascending(Elements(a))
<1> DEFINE V == States(N)
           s0 == [a |-> a, base |-> 1, unique |-> 1, done |-> FALSE]
           F(p) == [n \in 0 .. Len(a) |-> IF n = 0 THEN s0 ELSE UniqueTurn(p[n - 1])]
           After == CHOOSE p : p = F(p)
           Right(s, n) == UniqueUpTo(s, a, N, n)
           g == [n \in 1 .. N |-> [s \in V |-> IF Right(s, n - 1) THEN UniqueTurn(s) ELSE s]]
<1>1. Len(a) = N
  OBVIOUS
<1>2. s0 \in V /\ Right(s0, 0)
  <2>1. s0 \in V
    BY DEF States
  <2>2. \A i, j \in 1 .. 1 : ~(i < j)
    OBVIOUS
  <2>3. Strictly(a, 1)
    BY <2>2 DEF Strictly
  <2> QED
    BY <2>1, <2>3 DEF UniqueUpTo
<1>3. \A n \in 1 .. N, s \in V : Right(s, n - 1) => Right(UniqueTurn(s), n)
  BY TurnRight
<1>4. \A s : \A n \in 0 .. N : Right(s, n) => s \in V
  BY DEF UniqueUpTo
<1>5. After = CHOOSE p : p = F(p)
  OBVIOUS
<1>6. BUnique(a) = SubSeq(After[N].a, 1, After[N].unique)
  BY <1>1 DEF BUnique
<1> HIDE DEF V, s0, Right, After
<1>7. g \in [1 .. N -> [V -> V]]
  <2>1. ASSUME NEW n \in 1 .. N, NEW s \in V
        PROVE  (IF Right(s, n - 1) THEN UniqueTurn(s) ELSE s) \in V
    <3>1. Right(s, n - 1) => UniqueTurn(s) \in V
      <4>1. n \in 0 .. N
        OBVIOUS
      <4> QED
        BY <1>3, <1>4, <4>1
    <3> QED
      BY <3>1
  <2> QED
    BY <2>1
<1>8. PICK p \in [0 .. N -> V] : Recursive(N, s0, g, p)
  <2> HIDE DEF g
  <2> QED
    BY <1>2, <1>7, Recursion
<1>9. p[0] = s0 /\ \A n \in 1 .. N : p[n] = g[n][p[n - 1]]
  BY <1>8 DEF Recursive
<1>10. ASSUME NEW n \in 1 .. N, Right(p[n - 1], n - 1)
       PROVE  p[n] = UniqueTurn(p[n - 1]) /\ Right(p[n], n)
  <2>1. p[n - 1] \in V
    BY <1>8
  <2>2. p[n] = UniqueTurn(p[n - 1])
    BY <1>9, <1>10, <2>1
  <2> QED
    BY <1>3, <1>10, <2>1, <2>2
<1> DEFINE T == {n \in 0 .. N : Right(p[n], n)}
<1>11. \A n \in 0 .. N : Right(p[n], n)
  <2>1. 0 \in T
    BY <1>2, <1>9
  <2>2. \A n \in 1 .. N : n - 1 \in T => n \in T
    BY <1>10
  <2>3. \A n \in 0 .. N : n \in T
    <3> HIDE DEF T
    <3> QED
      BY <2>1, <2>2, UpTo
  <2> QED
    BY <2>3
<1>12. p = F(p)
  <2>1. ASSUME NEW n \in 0 .. N
        PROVE  p[n] = F(p)[n]
    <3>1. CASE n = 0
      BY <1>1, <1>9, <3>1
    <3>2. CASE n # 0
      <4>1. n \in 1 .. N /\ n - 1 \in 0 .. N
        BY <3>2
      <4>2. p[n] = UniqueTurn(p[n - 1])
        BY <1>10, <1>11, <4>1
      <4> QED
        BY <1>1, <3>2, <4>2
    <3> QED
      BY <3>1, <3>2
  <2>2. DOMAIN p = 0 .. N
    BY <1>8
  <2> QED
    BY <1>1, <2>1, <2>2, <1>8
<1>13. After = F(After)
  <2> HIDE DEF F
  <2> QED
    BY <1>5, <1>12
<1>14. After[0] = s0 /\ \A n \in 1 .. N : After[n] = UniqueTurn(After[n - 1])
  <2>1. \A n \in 1 .. N : n \in 0 .. N /\ n # 0
    OBVIOUS
  <2>2. 0 \in 0 .. N
    OBVIOUS
  <2> QED
    BY <1>1, <1>13, <2>1, <2>2
<1> DEFINE U == {n \in 0 .. N : After[n] = p[n]}
<1>15. N \in U
  <2>1. 0 \in U
    BY <1>9, <1>14
  <2>2. ASSUME NEW n \in 1 .. N, n - 1 \in U
        PROVE  n \in U
    <3>1. n - 1 \in 0 .. N /\ n \in 0 .. N
      OBVIOUS
    <3>2. p[n] = UniqueTurn(p[n - 1])
      BY <1>10, <1>11, <3>1
    <3> QED
      BY <1>14, <2>2, <3>1, <3>2
  <2>3. \A n \in 0 .. N : n \in U
    <3> HIDE DEF U
    <3> QED
      BY <2>1, <2>2, UpTo
  <2> QED
    BY <2>3
<1> DEFINE s == After[N]
           u == s.unique
           c == s.a
           S == Elements(a)
<1>16. UniqueUpTo(s, a, N, N)
  BY <1>11, <1>15 DEF Right
<1>17. /\ s \in States(N) /\ Elements(c) = S /\ u = s.base
       /\ Strictly(c, u)
       /\ IF s.done THEN \A k \in s.base .. N : c[k] = c[s.base] ELSE s.base = N + 1
  BY <1>16 DEF UniqueUpTo
<1>18. c \in [1 .. N -> Int] /\ u \in 1 .. N /\ s.base \in 1 .. N /\ s.done \in BOOLEAN
  BY <1>17 DEF States
<1>19. BUnique(a) = SubSeq(c, 1, u)
  BY <1>6
<1> HIDE DEF s, c, u
<1>20. \A k \in u .. N : c[k] = c[u]
  BY <1>17, <1>18
<1> DEFINE r == SubSeq(c, 1, u)
<1>21. r \in [1 .. u -> Int] /\ \A i \in 1 .. u : r[i] = c[i]
  <2>1. c \in Seq(Int) /\ Len(c) = N
    BY <1>18
  <2>2. Len(r) = u /\ r \in Seq(Int) /\ \A i \in 1 .. u : r[i] = c[i]
    BY <1>18, <2>1, SubSeqProperties
  <2> HIDE DEF r
  <2> QED
    BY <1>18, <2>2
<1>22. S \in SUBSET Int
  BY DEF Elements
<1> HIDE DEF r, S
<1>23. \A k \in 1 .. N : c[k] \in S
  BY <1>17, <1>18 DEF Elements
<1>24. \A x \in S : \E k \in 1 .. N : c[k] = x
  BY <1>17, <1>18 DEF Elements
<1>25. r \in [1 .. u -> S]
  BY <1>18, <1>21, <1>23
<1>26. Lists(r, S)
  <2>1. \A x \in S : \E i \in 1 .. u : r[i] = x
    <3>1. SUFFICES ASSUME NEW x \in S, NEW k \in 1 .. N, c[k] = x
                   PROVE  \E i \in 1 .. u : r[i] = x
      BY <1>24
    <3>2. CASE k \in 1 .. u
      BY <1>21, <3>1, <3>2
    <3>3. CASE k \in u .. N
      <4>1. r[u] = x /\ u \in 1 .. u
        BY <1>18, <1>20, <1>21, <3>1, <3>3
      <4> QED
        BY <4>1
    <3> QED
      BY <1>18, <3>2, <3>3
  <2>2. \A i, j \in 1 .. u : i < j => r[i] < r[j]
    BY <1>17, <1>21 DEF Strictly
  <2>3. DOMAIN r = 1 .. u
    BY <1>21
  <2> QED
    BY <1>25, <2>1, <2>2, <2>3 DEF Lists
<1>27. r = Ascending(S)
  <2>1. u \in Nat
    BY <1>18
  <2> QED
    BY <1>22, <1>25, <1>26, <2>1, OneList
<1> QED
  BY <1>19, <1>27 DEF r, S

\* Sorting and dropping duplicates, for every array that is not empty.
LEMMA SortUniqueRight ==
  ASSUME NEW a \in Seq(Int), a # <<>>
  PROVE  SortUnique(a) = Ascending(Elements(a))
<1>1. Len(a) \in Nat /\ Len(a) > 0
  OBVIOUS
<1> DEFINE b == BSort(a)
<1>2. b \in [1 .. Len(a) -> Int] /\ Elements(b) = Elements(a) /\ Weakly(b, Len(a))
  BY BSortRight
<1> HIDE DEF b
<1>3. BUnique(b) = Ascending(Elements(b))
  BY <1>1, <1>2, BUniqueRight
<1> QED
  BY <1>2, <1>3 DEF SortUnique, b

-----------------------------------------------------------------------------
(* Choosing from a sequence, and concatenating many.                        *)

\* What the loops that skip some elements leave: the others, in their order.
Picks(t, s, I) ==
  /\ IsFiniteSet(I) /\ Cardinality(I) \in Nat
  /\ t = [k \in 1 .. Cardinality(I) |-> s[Ascending(I)[k]]]
  /\ \A k \in 1 .. Cardinality(I) :
       Ascending(I)[k] \in I /\ t[k] = s[Ascending(I)[k]] /\ Below(I, Ascending(I)[k]) = k - 1
  /\ \A i \in I : /\ Below(I, i) + 1 \in 1 .. Cardinality(I)
                  /\ Ascending(I)[Below(I, i) + 1] = i /\ t[Below(I, i) + 1] = s[i]
  /\ \A j, k \in 1 .. Cardinality(I) : j < k => Ascending(I)[j] < Ascending(I)[k]

\* Chosen(s, I) is what Picks says, of any places of a sequence.
LEMMA ChosenRight ==
  ASSUME NEW n \in Nat, NEW s, NEW I \in SUBSET (1 .. n)
  PROVE  Picks(Chosen(s, I), s, I)
<1>1. IsFiniteSet(1 .. n)
  BY FS_Interval
<1>2. IsFiniteSet(I) /\ Cardinality(I) \in Nat
  BY <1>1, FS_Subset, FS_CardinalityType
<1>3. I \in SUBSET Int
  OBVIOUS
<1> DEFINE c == Cardinality(I)
           a == Ascending(I)
<1>4. /\ a \in [1 .. c -> I] /\ Lists(a, I)
      /\ \A i \in 1 .. c : Below(I, a[i]) = i - 1
  BY <1>2, <1>3, AscendingLists
<1>5. Chosen(s, I) = [k \in 1 .. c |-> s[a[k]]]
  BY DEF Chosen
<1> HIDE DEF a
<1>6. \A k \in 1 .. c : a[k] \in I /\ Chosen(s, I)[k] = s[a[k]] /\ Below(I, a[k]) = k - 1
  BY <1>4, <1>5
<1>8. ASSUME NEW i \in I
      PROVE  /\ Below(I, i) + 1 \in 1 .. c /\ a[Below(I, i) + 1] = i
             /\ Chosen(s, I)[Below(I, i) + 1] = s[i]
  <2>1. PICK k \in 1 .. c : a[k] = i
    BY <1>4 DEF Lists
  <2>2. Below(I, i) + 1 = k
    BY <1>6, <2>1
  <2> QED
    BY <1>6, <2>1, <2>2
<1>9. \A j, k \in 1 .. c : j < k => a[j] < a[k]
  BY <1>4 DEF Lists
<1> QED
  BY <1>2, <1>5, <1>6, <1>8, <1>9 DEF a, Picks

\* What is chosen from a sequence of V is a sequence of V.
LEMMA ChosenType ==
  ASSUME NEW n \in Nat, NEW V, NEW s \in [1 .. n -> V], NEW I \in SUBSET (1 .. n)
  PROVE  Chosen(s, I) \in [1 .. Cardinality(I) -> V] /\ Cardinality(I) \in Nat
<1>1. /\ Chosen(s, I) = [k \in 1 .. Cardinality(I) |-> s[Ascending(I)[k]]]
      /\ Cardinality(I) \in Nat
      /\ \A k \in 1 .. Cardinality(I) : Ascending(I)[k] \in I
  BY ChosenRight DEF Picks
<1> QED
  BY <1>1

\* Where a concatenation has the elements of the sequences it is made of.
Laid(f, seqs, n, off) ==
  /\ off[0] = 0 /\ Len(f) = off[n]
  /\ \A i \in 1 .. n : off[i] = off[i - 1] + Len(seqs[i])
  /\ \A i \in 1 .. n : \A k \in 1 .. Len(seqs[i]) :
       off[i - 1] + k \in 1 .. Len(f) /\ f[off[i - 1] + k] = seqs[i][k]
  /\ \A j \in 1 .. Len(f) : \E i \in 1 .. n : \E k \in 1 .. Len(seqs[i]) : j = off[i - 1] + k

\* Appending the next sequence lays it out behind those before it.
LEMMA LaidMore ==
  ASSUME NEW S, NEW n \in Nat, NEW m \in 1 .. n, NEW seqs \in [1 .. n -> Seq(S)],
         NEW f \in Seq(S), NEW off \in [0 .. n -> Nat], Laid(f, seqs, m - 1, off),
         off[m] = Len(f \o seqs[m])
  PROVE  Laid(f \o seqs[m], seqs, m, off)
<1> DEFINE t == seqs[m]
           g == f \o t
<1>1. m - 1 \in 0 .. n /\ m \in 0 .. n /\ m \in 1 .. n
  OBVIOUS
<1>2. t \in Seq(S)
  OBVIOUS
<1>3. /\ g \in Seq(S) /\ Len(g) = Len(f) + Len(t) /\ Len(f) \in Nat /\ Len(t) \in Nat
      /\ \A j \in 1 .. Len(f) : g[j] = f[j]
      /\ \A k \in 1 .. Len(t) : g[Len(f) + k] = t[k]
  BY <1>2
<1> HIDE DEF g
<1>4. off[0] = 0 /\ off[m - 1] = Len(f) /\ off[m] = Len(g)
  BY DEF Laid, g
<1>5. ASSUME NEW i \in 1 .. m
      PROVE  /\ off[i] = off[i - 1] + Len(seqs[i])
             /\ \A k \in 1 .. Len(seqs[i]) : off[i - 1] + k \in 1 .. Len(g) /\ g[off[i - 1] + k] = seqs[i][k]
  <2>1. CASE i = m
    <3>1. off[i] = off[i - 1] + Len(seqs[i])
      BY <1>3, <1>4, <2>1
    <3>2. ASSUME NEW k \in 1 .. Len(t)
          PROVE  Len(f) + k \in 1 .. Len(g) /\ g[Len(f) + k] = t[k]
      BY <1>3
    <3> QED
      BY <1>4, <2>1, <3>1, <3>2
  <2>2. CASE i \in 1 .. m - 1
    <3>1. off[i] = off[i - 1] + Len(seqs[i])
      BY <2>2 DEF Laid
    <3>2. \A k \in 1 .. Len(seqs[i]) : off[i - 1] + k \in 1 .. Len(f) /\ f[off[i - 1] + k] = seqs[i][k]
      BY <2>2 DEF Laid
    <3>3. \A j \in 1 .. Len(f) : j \in 1 .. Len(g) /\ g[j] = f[j]
      BY <1>3
    <3> QED
      BY <3>1, <3>2, <3>3
  <2> QED
    BY <2>1, <2>2
<1>6. ASSUME NEW j \in 1 .. Len(g)
      PROVE  \E i \in 1 .. m : \E k \in 1 .. Len(seqs[i]) : j = off[i - 1] + k
  <2>1. CASE j \in 1 .. Len(f)
    <3>1. PICK i \in 1 .. m - 1 : \E k \in 1 .. Len(seqs[i]) : j = off[i - 1] + k
      BY <2>1 DEF Laid
    <3>2. i \in 1 .. m
      OBVIOUS
    <3> QED
      BY <3>1, <3>2
  <2>2. CASE j \notin 1 .. Len(f)
    <3> DEFINE k == j - Len(f)
    <3>1. k \in 1 .. Len(seqs[m]) /\ j = off[m - 1] + k
      BY <1>3, <1>4, <2>2
    <3>2. m \in 1 .. m
      OBVIOUS
    <3> QED
      BY <3>1, <3>2
  <2> QED
    BY <2>1, <2>2
<1> QED
  BY <1>4, <1>5, <1>6 DEF Laid, g

\* FlattenSeq lays the sequences out one after the other.
LEMMA Flattened ==
  ASSUME NEW S, NEW n \in Nat, NEW seqs \in [1 .. n -> Seq(S)]
  PROVE  /\ FlattenSeq(seqs) \in Seq(S)
         /\ \E off \in [0 .. n -> Nat] : Laid(FlattenSeq(seqs), seqs, n, off)
<1> DEFINE V == Seq(S)
           g == [i \in 1 .. n |-> [f \in V |-> f \o seqs[i]]]
           F(p) == [i \in 1 .. Len(seqs) |-> IF i = 1 THEN seqs[i] ELSE p[i - 1] \o seqs[i]]
           flatten == CHOOSE p : p = F(p)
<1>1. Len(seqs) = n
  OBVIOUS
<1>2. PICK p \in [0 .. n -> V] : Recursive(n, <<>>, g, p)
  <2>1. g \in [1 .. n -> [V -> V]] /\ <<>> \in V
    OBVIOUS
  <2> HIDE DEF g, V
  <2> QED
    BY <2>1, Recursion
<1>3. p[0] = <<>> /\ \A i \in 1 .. n : p[i] = p[i - 1] \o seqs[i]
  <2>1. \A i \in 1 .. n : p[i] = g[i][p[i - 1]] /\ p[i - 1] \in V
    <3> HIDE DEF g, V
    <3>1. \A i \in 1 .. n : p[i] = g[i][p[i - 1]]
      BY <1>2 DEF Recursive
    <3>2. \A i \in 1 .. n : i - 1 \in 0 .. n
      OBVIOUS
    <3> QED
      BY <1>2, <3>1, <3>2
  <2>2. p[0] = <<>>
    BY <1>2 DEF Recursive
  <2> QED
    BY <2>1, <2>2
<1> DEFINE off == [i \in 0 .. n |-> Len(p[i])]
<1>4. off \in [0 .. n -> Nat]
  OBVIOUS
<1> DEFINE T == {i \in 0 .. n : Laid(p[i], seqs, i, off)}
<1>5. 0 \in T
  BY <1>3 DEF Laid
<1>6. ASSUME NEW i \in 1 .. n, i - 1 \in T
      PROVE  i \in T
  <2>1. i \in 0 .. n /\ i - 1 \in 0 .. n
    OBVIOUS
  <2>2. p[i - 1] \in Seq(S) /\ p[i] = p[i - 1] \o seqs[i]
    BY <1>3, <2>1
  <2>3. off[i] = Len(p[i - 1] \o seqs[i])
    BY <2>1, <2>2
  <2>4. Laid(p[i - 1], seqs, i - 1, off)
    BY <1>6
  <2> HIDE DEF off
  <2>5. Laid(p[i], seqs, i, off)
    BY <1>4, <2>2, <2>3, <2>4, LaidMore
  <2> QED
    BY <2>1, <2>5
<1>7. Laid(p[n], seqs, n, off)
  <2>1. \A i \in 0 .. n : i \in T
    <3> HIDE DEF T
    <3> QED
      BY <1>5, <1>6, UpTo
  <2>2. n \in T
    <3> HIDE DEF T
    <3> QED
      BY <2>1
  <2> HIDE DEF off, V
  <2> QED
    BY <2>2
<1>8. FlattenSeq(seqs) = p[n]
  <2>1. CASE n = 0
    <3>1. FlattenSeq(seqs) = seqs
      BY <1>1, <2>1 DEF FlattenSeq
    <3>2. seqs = <<>>
      BY <2>1
    <3> QED
      BY <1>3, <2>1, <3>1, <3>2
  <2>2. CASE n # 0
    <3>1. FlattenSeq(seqs) = flatten[n]
      BY <1>1, <2>2 DEF FlattenSeq
    <3> DEFINE q == [i \in 1 .. n |-> p[i]]
    <3>2. q = F(q)
      <4>1. ASSUME NEW i \in 1 .. n
            PROVE  q[i] = IF i = 1 THEN seqs[i] ELSE q[i - 1] \o seqs[i]
        <5>1. CASE i = 1
          <6>1. p[1] = <<>> \o seqs[1] /\ seqs[1] \in Seq(S)
            <7>1. 1 \in 1 .. n /\ 1 - 1 = 0
              BY <5>1
            <7>2. p[1] = p[0] \o seqs[1]
              BY <1>3, <7>1
            <7> QED
              BY <1>3, <7>1, <7>2
          <6> QED
            BY <5>1, <6>1
        <5>2. CASE i # 1
          <6>1. i - 1 \in 1 .. n
            BY <5>2
          <6> QED
            BY <1>3, <5>2, <6>1
        <5> QED
          BY <5>1, <5>2
      <4> QED
        BY <1>1, <4>1
    <3>3. flatten = F(flatten)
      <4> HIDE DEF F
      <4> QED
        BY <3>2
    <3> HIDE DEF flatten
    <3>4. \A i \in 1 .. n : flatten[i] = IF i = 1 THEN seqs[i] ELSE flatten[i - 1] \o seqs[i]
      BY <1>1, <3>3
    <3> DEFINE U == {i \in 0 .. n : i > 0 => flatten[i] = p[i]}
    <3>5. 0 \in U
      OBVIOUS
    <3>6. ASSUME NEW i \in 1 .. n, i - 1 \in U
          PROVE  i \in U
      <4>1. CASE i = 1
        <5>1. p[1] = <<>> \o seqs[1] /\ seqs[1] \in Seq(S)
          <6>1. 1 \in 1 .. n /\ 1 - 1 = 0
            BY <4>1
          <6>2. p[1] = p[0] \o seqs[1]
            BY <1>3, <6>1
          <6> QED
            BY <1>3, <6>1, <6>2
        <5> QED
          BY <3>4, <4>1, <5>1
      <4>2. CASE i # 1
        <5>1. i - 1 > 0 /\ flatten[i - 1] = p[i - 1]
          BY <3>6, <4>2
        <5>2. flatten[i] = flatten[i - 1] \o seqs[i]
          BY <3>4, <4>2
        <5>3. p[i] = p[i - 1] \o seqs[i]
          BY <1>3
        <5>4. flatten[i] = p[i]
          BY ONLY <5>1, <5>2, <5>3
        <5> QED
          BY <5>4
      <4> QED
        BY <4>1, <4>2
    <3>7. \A i \in 0 .. n : i \in U
      <4> HIDE DEF U
      <4> QED
        BY <3>5, <3>6, UpTo
    <3> QED
      BY <2>2, <3>1, <3>7
  <2> QED
    BY <2>1, <2>2
<1> HIDE DEF off
<1>9. p[n] \in Seq(S)
  OBVIOUS
<1> QED
  BY <1>4, <1>7, <1>8, <1>9

\* A concatenation has the elements of its parts and no other.
MadeOf(f, seqs, n) ==
  /\ \A j \in 1 .. Len(f) : \E i \in 1 .. n : \E k \in 1 .. Len(seqs[i]) : f[j] = seqs[i][k]
  /\ \A i \in 1 .. n : \A k \in 1 .. Len(seqs[i]) : \E j \in 1 .. Len(f) : f[j] = seqs[i][k]

\* A concatenation has the elements of its sequences and no others.
LEMMA FlatElements ==
  ASSUME NEW S, NEW n \in Nat, NEW seqs \in [1 .. n -> Seq(S)]
  PROVE  MadeOf(FlattenSeq(seqs), seqs, n)
<1> DEFINE f == FlattenSeq(seqs)
<1>1. PICK off \in [0 .. n -> Nat] : Laid(f, seqs, n, off)
  BY Flattened
<1> HIDE DEF f
<1>2. ASSUME NEW j \in 1 .. Len(f)
      PROVE  \E i \in 1 .. n : \E k \in 1 .. Len(seqs[i]) : f[j] = seqs[i][k]
  <2>1. PICK i \in 1 .. n : \E k \in 1 .. Len(seqs[i]) : j = off[i - 1] + k
    BY <1>1 DEF Laid
  <2>2. PICK k \in 1 .. Len(seqs[i]) : j = off[i - 1] + k
    BY <2>1
  <2>3. f[off[i - 1] + k] = seqs[i][k]
    BY <1>1 DEF Laid
  <2> QED
    BY <2>2, <2>3
<1>3. ASSUME NEW i \in 1 .. n, NEW k \in 1 .. Len(seqs[i])
      PROVE  \E j \in 1 .. Len(f) : f[j] = seqs[i][k]
  BY <1>1 DEF Laid
<1> QED
  BY <1>2, <1>3 DEF f, MadeOf

\* Parts of two elements each.
LEMMA FlatPairs ==
  ASSUME NEW S, NEW n \in Nat, NEW seqs \in [1 .. n -> Seq(S)],
         \A i \in 1 .. n : Len(seqs[i]) = 2
  PROVE  Len(FlattenSeq(seqs)) = 2 * n
<1> DEFINE f == FlattenSeq(seqs)
<1>1. PICK off \in [0 .. n -> Nat] : Laid(f, seqs, n, off)
  BY Flattened
<1> HIDE DEF f
<1>2. off[0] = 0 /\ Len(f) = off[n] /\ \A i \in 1 .. n : off[i] = off[i - 1] + 2
  BY <1>1 DEF Laid
<1> DEFINE T == {i \in 0 .. n : off[i] = 2 * i}
<1>3. 0 \in T
  BY <1>2
<1>4. ASSUME NEW i \in 1 .. n, i - 1 \in T
      PROVE  i \in T
  BY <1>2, <1>4
<1>5. \A i \in 0 .. n : i \in T
  <2> HIDE DEF T
  <2> QED
    BY <1>3, <1>4, UpTo
<1> QED
  BY <1>2, <1>5 DEF f

-----------------------------------------------------------------------------
(* Rectangles and the arrays of their edges.                                *)

\* Rectangles, and those that lie on the screen.
IntRect == [left: Int, top: Int, right: Int, bottom: Int]
OnScreen == [left: 0 .. Width, top: 0 .. Height, right: 0 .. Width, bottom: 0 .. Height]

\* The screen has an area, and rectangles on it have integer sides.
LEMMA Screen ==
  /\ Width \in Nat /\ Height \in Nat /\ Width > 0 /\ Height > 0
  /\ ScreenRect \in OnScreen /\ EmptyRect \in OnScreen /\ OnScreen \subseteq IntRect
<1>1. Width \in Nat \ {0} /\ Height \in Nat \ {0}
  BY ScreenAssumption
<1>2. Width \in Nat /\ Height \in Nat /\ Width > 0 /\ Height > 0
  BY <1>1
<1>3. ScreenRect \in OnScreen /\ EmptyRect \in OnScreen
  BY <1>2 DEF ScreenRect, EmptyRect, Rect, OnScreen
<1>4. OnScreen \subseteq IntRect
  BY <1>2 DEF OnScreen, IntRect
<1> QED
  BY <1>2, <1>3, <1>4

\* An array has finitely many elements.
LEMMA FiniteElements ==
  ASSUME NEW n \in Nat, NEW V, NEW a \in [1 .. n -> V]
  PROVE  IsFiniteSet(Elements(a)) /\ \A k \in 1 .. n : a[k] \in Elements(a)
<1>1. IsFiniteSet(1 .. n)
  BY FS_Interval
<1>2. a \in Surjection(1 .. n, Elements(a))
  BY DEF Surjection, Elements
<1>3. IsFiniteSet(Elements(a))
  BY <1>1, <1>2, FS_Surjection
<1> QED
  BY <1>3 DEF Elements

\* The ends of a list are the least and the greatest.
LEMMA FiniteEnds ==
  ASSUME NEW S \in SUBSET Int, IsFiniteSet(S), S # {}
  PROVE  /\ Cardinality(S) \in Nat /\ Cardinality(S) > 0
         /\ Max(S) \in S /\ \A y \in S : y <= Max(S) /\ y <= Ascending(S)[Cardinality(S)]
         /\ Min(S) \in S /\ \A y \in S : Min(S) <= y /\ Ascending(S)[1] <= y
<1> DEFINE n == Cardinality(S)
           a == Ascending(S)
<1>1. n \in Nat /\ n # 0
  BY FS_CardinalityType, FS_EmptySet
<1>2. a \in [1 .. n -> S] /\ Lists(a, S)
  BY AscendingLists
<1> HIDE DEF n, a
<1>3. 1 \in 1 .. n /\ n \in 1 .. n
  BY <1>1
<1>4. ASSUME NEW y \in S
      PROVE  a[1] <= y /\ y <= a[n]
  <2>1. PICK i \in 1 .. n : a[i] = y
    BY <1>2 DEF Lists
  <2>2. a[1] \in Int /\ a[n] \in Int /\ a[i] \in Int
    BY <1>2, <1>3
  <2>3. 1 = i \/ 1 < i
    BY <1>1
  <2>4. i = n \/ i < n
    BY <1>1
  <2>5. (1 < i => a[1] < a[i]) /\ (i < n => a[i] < a[n])
    BY <1>2, <1>3 DEF Lists
  <2> QED
    BY <2>1, <2>2, <2>3, <2>4, <2>5
<1>5. a[1] \in S /\ a[n] \in S
  BY <1>2, <1>3
<1>6. \A x, y \in S : x >= y <=> y <= x
  OBVIOUS
<1>7. Max(S) \in S /\ \A y \in S : Max(S) >= y
  <2>1. \A y \in S : a[n] >= y
    BY <1>4, <1>5, <1>6
  <2> QED
    BY <1>5, <2>1 DEF Max
<1>8. Min(S) \in S /\ \A y \in S : Min(S) <= y
  BY <1>4, <1>5 DEF Min
<1>9. n > 0
  BY <1>1
<1> QED
  BY <1>1, <1>4, <1>6, <1>7, <1>8, <1>9 DEF n, a

\* What rgz_add_to_damaged_area makes is on the screen.
LEMMA AroundOnScreen ==
  ASSUME NEW frames \in SUBSET IntRect
  PROVE  Around(frames) \in OnScreen
<1> DEFINE on == {ClipToScreen(f) : f \in {g \in frames : Intersects(ScreenRect, g)}}
           B(e) == e
<1>1. ASSUME NEW f \in IntRect, Intersects(ScreenRect, f)
      PROVE  ClipToScreen(f) \in OnScreen
  <2>1. /\ f.left \in Int /\ f.top \in Int /\ f.right \in Int /\ f.bottom \in Int
    BY DEF IntRect
  <2>2. f.left < Width /\ f.right > 0 /\ f.top < Height /\ f.bottom > 0
    BY <1>1, <2>1, Screen DEF Intersects, ScreenRect, Rect
  <2> QED
    BY <2>1, <2>2, Screen DEF ClipToScreen, Rect, Greatest, Least, OnScreen
<1>2. on \subseteq OnScreen
  BY <1>1
<1>3. CASE on = {}
  BY <1>3, Screen DEF Around
<1>4. CASE on # {}
  <2> HIDE DEF on
  <2> DEFINE L == {r.left : r \in on}
             T == {r.top : r \in on}
             R == {r.right : r \in on}
             D == {r.bottom : r \in on}
  <2>1. /\ L \subseteq 0 .. Width /\ T \subseteq 0 .. Height
        /\ R \subseteq 0 .. Width /\ D \subseteq 0 .. Height
    BY <1>2 DEF OnScreen
  <2>2. L # {} /\ T # {} /\ R # {} /\ D # {}
    BY <1>4
  <2> HIDE DEF L, T, R, D
  <2>3. \A m \in {Width, Height} : IsFiniteSet(0 .. m) /\ 0 .. m \subseteq Int
    BY Screen, FS_Interval
  <2>4. IsFiniteSet(L) /\ IsFiniteSet(T) /\ IsFiniteSet(R) /\ IsFiniteSet(D)
    BY <2>1, <2>3, FS_Subset
  <2>5. L \in SUBSET Int /\ T \in SUBSET Int /\ R \in SUBSET Int /\ D \in SUBSET Int
    BY <2>1, <2>3
  <2>6. Min(L) \in L /\ Min(T) \in T /\ Max(R) \in R /\ Max(D) \in D
    BY <2>2, <2>4, <2>5, FiniteEnds
  <2>7. Min(L) \in 0 .. Width /\ Min(T) \in 0 .. Height /\ Max(R) \in 0 .. Width /\ Max(D) \in 0 .. Height
    BY <2>1, <2>6
  <2>8. Around(frames) = Rect(Min(L), Min(T), Max(R), Max(D))
    BY <1>4 DEF Around, on, L, T, R, D
  <2> QED
    BY <2>7, <2>8 DEF Rect, OnScreen
<1> QED
  BY <1>3, <1>4

-----------------------------------------------------------------------------
(* A frame's layers.                                                        *)

RgzLayer == [id: Ids \cup {"background"}, buf: Int, frame: IntRect, handle: Int, dirty: 0 .. NumFb]

\* The layers of a frame: the background behind layers that meet the screen.
Stack(L) ==
  /\ L \in Seq(RgzLayer) /\ Len(L) > 0
  /\ L[1].frame = ScreenRect /\ L[1].buf = BackgroundBuf
  /\ \A i \in 2 .. Len(L) : /\ L[i].id \in Ids /\ L[i].buf >= ClearHintBuf
                            /\ Intersects(L[i].frame, ScreenRect)

\* The pairs of edges on an axis, as YArray and XArray collect them.
Pairs(n, lo, hi) == [i \in 1 .. n |-> <<lo[i], hi[i]>>]

HoldsEdges(r, n, a, b, lo, hi) ==
  /\ r \in Seq(Int) /\ Len(r) = 2 * n + 2
  /\ \A x : x \in Elements(r) <=> x = a \/ x = b \/ \E i \in 1 .. n : x = lo[i] \/ x = hi[i]

\* An array that starts with two edges and goes on with the pairs of each layer.
LEMMA EdgesHeld ==
  ASSUME NEW n \in Nat, NEW a \in Int, NEW b \in Int, NEW lo \in [1 .. n -> Int], NEW hi \in [1 .. n -> Int]
  PROVE  HoldsEdges(<<a, b>> \o FlattenSeq(Pairs(n, lo, hi)), n, a, b, lo, hi)
<1> DEFINE s == Pairs(n, lo, hi)
           f == FlattenSeq(s)
           r == <<a, b>> \o f
<1>0. n \in Nat /\ s \in [1 .. n -> Seq(Int)]
  BY DEF Pairs
<1>1. \A i \in 1 .. n : Len(s[i]) = 2 /\ s[i][1] = lo[i] /\ s[i][2] = hi[i]
  BY DEF Pairs
<1> HIDE DEF s
<1>2. f \in Seq(Int) /\ Len(f) = 2 * n
  <2>1. f \in Seq(Int)
    BY ONLY <1>0, Flattened, Zenon
  <2>2. \A i \in 1 .. n : Len(s[i]) = 2
    BY <1>1
  <2>3. Len(f) = 2 * n
    BY ONLY <1>0, <2>2, FlatPairs, Zenon
  <2> QED
    BY <2>1, <2>3
<1>14. MadeOf(f, s, n)
  BY ONLY <1>0, FlatElements, Zenon
<1>5. r = <<a, b>> \o f
  OBVIOUS
<1> HIDE DEF f, r
<1>3. \A j \in 1 .. Len(f) : \E i \in 1 .. n : \E k \in 1 .. Len(s[i]) : f[j] = s[i][k]
  BY <1>14 DEF MadeOf
<1>4. \A i \in 1 .. n : \A k \in 1 .. Len(s[i]) : \E j \in 1 .. Len(f) : f[j] = s[i][k]
  BY <1>14 DEF MadeOf
<1>6. /\ r \in Seq(Int) /\ Len(r) = 2 * n + 2 /\ r[1] = a /\ r[2] = b
      /\ \A j \in 1 .. 2 * n : r[2 + j] = f[j]
  BY <1>2, <1>5
<1>7. ASSUME NEW x, x \in Elements(r)
      PROVE  x = a \/ x = b \/ \E i \in 1 .. n : x = lo[i] \/ x = hi[i]
  <2>1. PICK m \in 1 .. 2 * n + 2 : r[m] = x
    BY <1>6, <1>7 DEF Elements
  <2>2. CASE m \in {1, 2}
    BY <1>6, <2>1, <2>2
  <2>3. CASE m \notin {1, 2}
    <3>1. m - 2 \in 1 .. 2 * n /\ m = 2 + (m - 2)
      BY <2>3
    <3>2. x = f[m - 2] /\ m - 2 \in 1 .. Len(f)
      BY <1>2, <1>6, <2>1, <3>1
    <3>3. PICK i \in 1 .. n : \E k \in 1 .. Len(s[i]) : f[m - 2] = s[i][k]
      BY <1>3, <3>2
    <3>4. PICK k \in 1 .. Len(s[i]) : f[m - 2] = s[i][k]
      BY <3>3
    <3>5. k = 1 \/ k = 2
      <4>1. Len(s[i]) = 2
        BY <1>1
      <4> QED
        BY <4>1
    <3> QED
      BY <1>1, <3>2, <3>4, <3>5
  <2> QED
    BY <2>2, <2>3
<1>8. ASSUME NEW j \in 1 .. Len(f)
      PROVE  f[j] \in Elements(r)
  <2>1. j \in 1 .. 2 * n /\ 2 + j \in DOMAIN r
    BY <1>2, <1>6
  <2> QED
    BY <1>6, <2>1 DEF Elements
<1>9. ASSUME NEW i \in 1 .. n
      PROVE  lo[i] \in Elements(r) /\ hi[i] \in Elements(r)
  <2>1. 1 \in 1 .. Len(s[i]) /\ 2 \in 1 .. Len(s[i])
    BY <1>1
  <2>2. (\E j \in 1 .. Len(f) : f[j] = s[i][1]) /\ (\E j \in 1 .. Len(f) : f[j] = s[i][2])
    BY <1>4, <2>1
  <2> QED
    BY <1>1, <1>8, <2>2
<1>10. a \in Elements(r) /\ b \in Elements(r)
  <2>1. 1 \in DOMAIN r /\ 2 \in DOMAIN r
    BY <1>6
  <2> QED
    BY <1>6, <2>1 DEF Elements
<1>11. \A x : x \in Elements(r) => x = a \/ x = b \/ \E i \in 1 .. n : x = lo[i] \/ x = hi[i]
  BY <1>7
<1>12. \A x : x \in Elements(r) <=> x = a \/ x = b \/ \E i \in 1 .. n : x = lo[i] \/ x = hi[i]
  BY <1>9, <1>10, <1>11
<1>13. HoldsEdges(r, n, a, b, lo, hi)
  BY <1>6, <1>12 DEF HoldsEdges
<1> QED
  BY <1>13 DEF r, f, s

\* A layer's edges, clipped to the screen on their side only.
Tops(L) == [i \in DOMAIN L |-> Greatest(0, L[i].frame.top)]
Bottoms(L) == [i \in DOMAIN L |-> Least(L[i].frame.bottom, Height)]
Lefts(L) == [i \in DOMAIN L |-> Greatest(0, L[i].frame.left)]
Rights(L) == [i \in DOMAIN L |-> Least(L[i].frame.right, Width)]

\* What gen_blitregions and gen_subregions put into their arrays before sorting.
LEMMA ArraysRight ==
  ASSUME NEW n \in Nat, NEW L, L \in Seq(RgzLayer), Len(L) = n, NEW dmg \in IntRect
  PROVE  /\ HoldsEdges(YArray(L, dmg), n, dmg.top, dmg.bottom, Tops(L), Bottoms(L))
         /\ HoldsEdges(XArray(L, dmg), n, dmg.left, dmg.right, Lefts(L), Rights(L))
<1>1. DOMAIN L = 1 .. n
  OBVIOUS
<1>2. \A i \in 1 .. n : L[i].frame \in IntRect
  <2>1. \A i \in 1 .. n : L[i] \in RgzLayer
    OBVIOUS
  <2> QED
    BY <2>1 DEF RgzLayer
<1>3. dmg.top \in Int /\ dmg.bottom \in Int /\ dmg.left \in Int /\ dmg.right \in Int
  BY DEF IntRect
<1>4. ASSUME NEW i \in 1 .. n
      PROVE  /\ L[i].frame.top \in Int /\ L[i].frame.bottom \in Int
             /\ L[i].frame.left \in Int /\ L[i].frame.right \in Int
  <2> DEFINE f == L[i].frame
  <2>1. f \in IntRect
    BY <1>2
  <2> HIDE DEF f
  <2>2. f.top \in Int /\ f.bottom \in Int /\ f.left \in Int /\ f.right \in Int
    BY <2>1 DEF IntRect
  <2> QED
    BY <2>2 DEF f
<1>5. Width \in Int /\ Height \in Int
  BY Screen
<1>6. /\ Tops(L) \in [1 .. n -> Int] /\ Bottoms(L) \in [1 .. n -> Int]
      /\ Lefts(L) \in [1 .. n -> Int] /\ Rights(L) \in [1 .. n -> Int]
  BY <1>1, <1>4, <1>5 DEF Tops, Bottoms, Lefts, Rights, Greatest, Least
<1>7. /\ Pairs(n, Tops(L), Bottoms(L))
           = [i \in DOMAIN L |-> <<Greatest(0, L[i].frame.top), Least(L[i].frame.bottom, Height)>>]
      /\ Pairs(n, Lefts(L), Rights(L))
           = [i \in DOMAIN L |-> <<Greatest(0, L[i].frame.left), Least(L[i].frame.right, Width)>>]
  BY <1>1 DEF Pairs, Tops, Bottoms, Lefts, Rights
<1>8. /\ YArray(L, dmg) = <<dmg.top, dmg.bottom>> \o FlattenSeq(Pairs(n, Tops(L), Bottoms(L)))
      /\ XArray(L, dmg) = <<dmg.left, dmg.right>> \o FlattenSeq(Pairs(n, Lefts(L), Rights(L)))
  BY <1>7 DEF YArray, XArray
<1>9. n \in Nat
  OBVIOUS
<1> QED
  BY ONLY <1>3, <1>6, <1>8, <1>9, EdgesHeld

-----------------------------------------------------------------------------
(* What prepare passes to the regionizer.                                   *)

\* A layer as RgzLayers describes it to the regionizer.
Described(c, i, l, h) ==
  [id |-> c[i].id, frame |-> c[i].frame, dirty |-> 0,
   buf    |-> IF c[i].dss THEN ClearHintBuf
              ELSE Len(Overlays(l)) + Cardinality({j \in 1 .. i - 1 : ~c[j].dss}),
   handle |-> IF c[i].dss THEN Dummy ELSE h[c[i].id]]

\* The lists SurfaceFlinger passes, split into candidates and overlays.
LEMMA InputRight ==
  ASSUME NEW l \in Inputs
  PROVE  /\ l \in Seq(HwcLayer) /\ Len(l) \in Nat
         /\ \A i \in 1 .. Len(l) : /\ l[i] \in HwcLayer /\ l[i].id \in Ids /\ l[i].frame \in IntRect
                                   /\ l[i].dss \in BOOLEAN /\ Intersects(l[i].frame, ScreenRect)
         /\ \A i, j \in 1 .. Len(l) : l[i].id = l[j].id => i = j
         /\ Candidates(l) \in Seq(HwcLayer) /\ Overlays(l) \in Seq(HwcLayer)
         /\ Len(Candidates(l)) \in Nat /\ Len(Overlays(l)) \in Nat
         /\ \A k \in 1 .. Len(Candidates(l)) : \E i \in 1 .. Len(l) : Candidates(l)[k] = l[i]
<1> DEFINE n == Len(l)
           C == {i \in DOMAIN l : ~l[i].dss \/ HasClearHint(l[i], l)}
           O == {i \in DOMAIN l : l[i].dss}
<1>1. l \in Seq(HwcLayer) /\ n \in Nat /\ DOMAIN l = 1 .. n /\ l \in [1 .. n -> HwcLayer]
  BY InputsAssumption
<1>2. /\ \A i \in DOMAIN l : Intersects(l[i].frame, ScreenRect)
      /\ \A i, j \in DOMAIN l : l[i].id = l[j].id => i = j
  BY InputsAssumption
<1>3. \A i \in 1 .. n : /\ l[i] \in HwcLayer /\ l[i].id \in Ids /\ l[i].frame \in IntRect
                        /\ l[i].dss \in BOOLEAN
  <2>1. \A i \in 1 .. n : l[i] \in HwcLayer
    BY <1>1
  <2>2. \A x \in HwcLayer : x.id \in Ids /\ x.frame \in IntRect /\ x.dss \in BOOLEAN
    BY DEF HwcLayer, IntRect
  <2> QED
    BY <2>1, <2>2
<1>4. C \in SUBSET (1 .. n) /\ O \in SUBSET (1 .. n)
  BY <1>1
<1>5. Candidates(l) = Chosen(l, C) /\ Overlays(l) = Chosen(l, O)
  BY DEF Candidates, Overlays
<1> HIDE DEF C, O, n
<1>6. /\ Cardinality(C) \in Nat /\ Chosen(l, C) \in [1 .. Cardinality(C) -> HwcLayer]
      /\ \A k \in 1 .. Cardinality(C) : Ascending(C)[k] \in C /\ Chosen(l, C)[k] = l[Ascending(C)[k]]
  <2>1. Cardinality(C) \in Nat /\ Chosen(l, C) \in [1 .. Cardinality(C) -> HwcLayer]
    BY <1>1, <1>4, ChosenType
  <2>2. \A k \in 1 .. Cardinality(C) : Ascending(C)[k] \in C /\ Chosen(l, C)[k] = l[Ascending(C)[k]]
    <3>1. Picks(Chosen(l, C), l, C)
      BY <1>1, <1>4, ChosenRight
    <3> QED
      BY <3>1 DEF Picks
  <2> QED
    BY <2>1, <2>2
<1>7. Cardinality(O) \in Nat /\ Chosen(l, O) \in [1 .. Cardinality(O) -> HwcLayer]
  BY <1>1, <1>4, ChosenType
<1>8. /\ Candidates(l) \in Seq(HwcLayer) /\ Len(Candidates(l)) = Cardinality(C)
      /\ Overlays(l) \in Seq(HwcLayer) /\ Len(Overlays(l)) = Cardinality(O)
  BY <1>5, <1>6, <1>7
<1>9. ASSUME NEW k \in 1 .. Len(Candidates(l))
      PROVE  \E i \in 1 .. n : Candidates(l)[k] = l[i]
  <2>1. Ascending(C)[k] \in 1 .. n /\ Candidates(l)[k] = l[Ascending(C)[k]]
    BY <1>4, <1>5, <1>6, <1>8
  <2> QED
    BY <2>1
<1> QED
  BY <1>1, <1>2, <1>3, <1>6, <1>7, <1>8, <1>9 DEF n

\* rgz_in_hwccheck describes a list as a stack: the background, then each candidate.
LEMMA LayersRight ==
  ASSUME NEW l \in Inputs, NEW h \in [Ids -> {0, 1}]
  PROVE  /\ Stack(RgzLayers(l, h)) /\ Len(RgzLayers(l, h)) = Len(Candidates(l)) + 1
         /\ RgzLayers(l, h)[1] = Background
         /\ \A i \in 1 .. Len(Candidates(l)) : RgzLayers(l, h)[i + 1] = Described(Candidates(l), i, l, h)
<1> DEFINE c == Candidates(l)
           n == Len(c)
           d == [i \in 1 .. n |-> Described(c, i, l, h)]
           L == RgzLayers(l, h)
<1>1. c \in Seq(HwcLayer) /\ n \in Nat /\ DOMAIN c = 1 .. n
  BY InputRight
<1>2. \A i \in 1 .. n : /\ c[i].id \in Ids /\ c[i].frame \in IntRect /\ c[i].dss \in BOOLEAN
                        /\ Intersects(c[i].frame, ScreenRect)
  BY InputRight
<1>3. L = <<Background>> \o d
  BY <1>1 DEF RgzLayers, Described
<1>4. \A i \in 1 .. n : d[i] = Described(c, i, l, h)
  OBVIOUS
<1>5. ASSUME NEW i \in 1 .. n
      PROVE  /\ Described(c, i, l, h) \in RgzLayer
             /\ Described(c, i, l, h).id \in Ids /\ Described(c, i, l, h).buf >= ClearHintBuf
             /\ Described(c, i, l, h).frame = c[i].frame
  <2> DEFINE own == {j \in 1 .. i - 1 : ~c[j].dss}
  <2>1. Cardinality(own) \in Nat
    <3>1. IsFiniteSet(1 .. i - 1)
      BY FS_Interval
    <3> QED
      BY <3>1, FS_Subset, FS_CardinalityType
  <2>2. Len(Overlays(l)) \in Nat
    BY InputRight
  <2>3. h[c[i].id] \in Int
    BY <1>2
  <2> DEFINE b == IF c[i].dss THEN ClearHintBuf ELSE Len(Overlays(l)) + Cardinality(own)
             v == IF c[i].dss THEN Dummy ELSE h[c[i].id]
             f == c[i].frame
             e == c[i].id
             x == [id |-> e, frame |-> f, dirty |-> 0, buf |-> b, handle |-> v]
  <2>4. b \in Int /\ b >= ClearHintBuf
    <3> HIDE DEF own
    <3> QED
      BY <2>1, <2>2 DEF ClearHintBuf
  <2>5. v \in Int
    BY <2>3 DEF Dummy
  <2>6. f \in IntRect /\ e \in Ids
    BY <1>2
  <2>7. Described(c, i, l, h) = x
    BY DEF Described
  <2> HIDE DEF b, v, f, e, c
  <2>8. x \in RgzLayer /\ x.id \in Ids /\ x.buf = b /\ x.frame = f
    BY <2>4, <2>5, <2>6 DEF RgzLayer, NumFb
  <2> QED
    BY <2>4, <2>7, <2>8 DEF f
<1> HIDE DEF d, c
<1>6. Background \in RgzLayer /\ Background.frame = ScreenRect /\ Background.buf = BackgroundBuf
  BY Screen DEF Background, RgzLayer, BackgroundBuf, Dummy, NumFb
<1>7. d \in Seq(RgzLayer) /\ Len(d) = n
  BY <1>1, <1>4, <1>5 DEF d
<1> HIDE DEF n
<1>8. /\ L \in Seq(RgzLayer) /\ Len(L) = n + 1 /\ L[1] = Background
      /\ \A i \in 1 .. n : L[i + 1] = d[i]
  <2> HIDE DEF L
  <2> QED
    BY <1>1, <1>3, <1>6, <1>7
<1> HIDE DEF L
<1>9. ASSUME NEW i \in 2 .. Len(L)
      PROVE  /\ L[i].id \in Ids /\ L[i].buf >= ClearHintBuf
             /\ Intersects(L[i].frame, ScreenRect)
  <2>1. i - 1 \in 1 .. n /\ i = (i - 1) + 1
    BY <1>1, <1>8
  <2>2. L[i] = Described(c, i - 1, l, h)
    BY <1>4, <1>8, <2>1
  <2> QED
    BY <1>2, <1>5, <2>1, <2>2
<1>10. Len(L) > 0
  BY <1>1, <1>8
<1>11. Stack(L)
  BY <1>6, <1>8, <1>9, <1>10 DEF Stack
<1> QED
  BY <1>4, <1>8, <1>11 DEF L, n, c

\* A layer with another dirty count.
WithDirty(x, d) == [x EXCEPT !.dirty = d]

\* Setting the dirty count of a layer leaves the rest of it.
LEMMA DirtyOnly ==
  ASSUME NEW x \in RgzLayer, NEW d \in 0 .. NumFb
  PROVE  /\ WithDirty(x, d) \in RgzLayer /\ WithDirty(x, d).dirty = d
         /\ WithDirty(x, d).id = x.id /\ WithDirty(x, d).buf = x.buf
         /\ WithDirty(x, d).frame = x.frame /\ WithDirty(x, d).handle = x.handle
BY DEF WithDirty, RgzLayer

\* The frame's layers with the dirty counts of rgz_in_hwccheck.
Counted(cur, layers) ==
  /\ cur \in Seq(RgzLayer) /\ Len(cur) = Len(layers)
  /\ \A i \in 1 .. Len(layers) : cur[i] = WithDirty(layers[i], cur[i].dirty)

\* A dirty count never exceeds the number of framebuffers.
LEMMA CountRight ==
  ASSUME NEW layers \in Seq(RgzLayer), NEW prev \in Seq(RgzLayer), NEW tgt, NEW i \in 1 .. Len(layers)
  PROVE  DirtyCount(i, layers, prev, tgt) \in 0 .. NumFb
<1> DEFINE p == Previous(i, layers, prev)
           same == \E q \in p : ~ContentChanged(layers[i], q)
           last == CHOOSE q \in p : TRUE
<1>1. \A q \in p : q \in RgzLayer
  <2>1. \A j \in DOMAIN prev : prev[j] \in RgzLayer
    OBVIOUS
  <2>2. prev # <<>> => 1 \in DOMAIN prev
    OBVIOUS
  <2> QED
    BY <2>1, <2>2 DEF Previous, Find
<1>2. same => last \in RgzLayer
  <2> HIDE DEF p
  <2> QED
    BY <1>1
<1>3. DirtyCount(i, layers, prev, tgt) =
        IF ~same \/ (i > 1 /\ Moved(layers[i], tgt)) THEN NumFb ELSE Greatest(0, last.dirty - 1)
  BY DEF DirtyCount
<1> HIDE DEF last, same
<1>4. last \in RgzLayer => last.dirty \in 0 .. NumFb
  BY DEF RgzLayer
<1>5. last \in RgzLayer => Greatest(0, last.dirty - 1) \in 0 .. NumFb
  BY <1>4 DEF Greatest, NumFb
<1>6. NumFb \in 0 .. NumFb
  BY DEF NumFb
<1> QED
  BY <1>2, <1>3, <1>5, <1>6

-----------------------------------------------------------------------------
(* The invariant.                                                           *)

\* The types of the fields of rgz_t.
RgzState == [state: SUBSET {"init", "regions"}, cur: Seq(RgzLayer), idx: 0 .. NumFb - 1,
             states: [0 .. NumFb - 1 -> Seq(RgzLayer)]]

\* What was left in the framebuffers are stacks of layers; the last one, if the
\* blitter drew it, is what the layers passed last were described as.
RgzInv ==
  /\ blt_mode \in Modes
  /\ list \in Inputs \cup {<<>>}
  /\ handle \in [Ids -> {0, 1}]
  /\ rgz \in RgzState
  /\ \A f \in 0 .. NumFb - 1 : rgz.states[f] # <<>> => Stack(rgz.states[f])
  /\ drawn = "blitter" =>
       /\ list \in Inputs /\ AllBlittable(list)
       /\ Counted(rgz.cur, RgzLayers(list, handle))
       /\ rgz.states[rgz.idx] = rgz.cur
       /\ blt_mode = "region" => (Len(rgz.cur) + 1) * 2 <= SubregionMax

\* After rgz_release no framebuffer is known to hold anything.
LEMMA ReleasedRight ==
  Released \in RgzState /\ \A f \in 0 .. NumFb - 1 : Released.states[f] = <<>>
BY DEF Released, RgzState, NumFb

\* rgz_in_hwccheck turns to the next framebuffer, and describes the frame in it as
\* the layers passed with the dirty counts it works out from the last two frames.
LEMMA CheckedRight ==
  ASSUME NEW r \in RgzState, \A f \in 0 .. NumFb - 1 : r.states[f] # <<>> => Stack(r.states[f]),
         NEW layers, Stack(layers)
  PROVE  /\ Checked(r, layers) \in RgzState
         /\ \A f \in 0 .. NumFb - 1 : Checked(r, layers).states[f] # <<>> => Stack(Checked(r, layers).states[f])
         /\ Counted(Checked(r, layers).cur, layers)
         /\ Checked(r, layers).idx = (r.idx + 1) % NumFb
         /\ Checked(r, layers).states[Checked(r, layers).idx] = Checked(r, layers).cur
         /\ Checked(r, layers).states[r.idx] = r.states[r.idx]
         /\ \A i \in 1 .. Len(layers) : Checked(r, layers).cur[i].dirty =
              DirtyCount(i, layers, r.states[r.idx], r.states[(r.idx + 1) % NumFb])
<1> DEFINE prev == r.states[r.idx]
           next == (r.idx + 1) % NumFb
           tgt  == r.states[next]
           cur  == [i \in DOMAIN layers |->
                      [layers[i] EXCEPT !.dirty = DirtyCount(i, layers, prev, tgt)]]
           t == Checked(r, layers)
           n == Len(layers)
<1>1. r.idx \in 0 .. 1 /\ next \in 0 .. 1 /\ next # r.idx
  BY DEF RgzState, NumFb
<1>2. r.states \in [0 .. 1 -> Seq(RgzLayer)] /\ prev \in Seq(RgzLayer) /\ tgt \in Seq(RgzLayer)
  BY <1>1 DEF RgzState, NumFb
<1>3. layers \in Seq(RgzLayer) /\ n \in Nat /\ n > 0 /\ DOMAIN layers = 1 .. n
  BY DEF Stack
<1> DEFINE D(i) == DirtyCount(i, layers, prev, tgt)
<1>4. \A i \in 1 .. n : D(i) \in 0 .. NumFb
  BY <1>2, <1>3, CountRight
<1>5. cur = [i \in 1 .. n |-> WithDirty(layers[i], D(i))]
  BY <1>3 DEF WithDirty
<1>6. t = [r EXCEPT !.state = {"init"}, !.cur = cur, !.idx = next, !.states[next] = cur]
  BY DEF Checked
<1> HIDE DEF prev, next, tgt, D, t, n
<1>7. \A i \in 1 .. n : /\ cur[i] = WithDirty(layers[i], D(i)) /\ cur[i] \in RgzLayer
                        /\ cur[i].dirty = D(i)
                        /\ cur[i].id = layers[i].id /\ cur[i].buf = layers[i].buf /\ cur[i].frame = layers[i].frame
  <2>2. \A i \in 1 .. n : layers[i] \in RgzLayer
    BY <1>3 DEF n
  <2>3. \A i \in 1 .. n : cur[i] = WithDirty(layers[i], D(i))
    BY <1>5
  <2> HIDE DEF cur
  <2>4. ASSUME NEW i \in 1 .. n
        PROVE  /\ cur[i] \in RgzLayer /\ cur[i].dirty = D(i)
               /\ cur[i].id = layers[i].id /\ cur[i].buf = layers[i].buf /\ cur[i].frame = layers[i].frame
    <3>1. layers[i] \in RgzLayer /\ D(i) \in 0 .. NumFb /\ cur[i] = WithDirty(layers[i], D(i))
      BY <1>4, <2>2, <2>3
    <3> QED
      BY <3>1, DirtyOnly
  <2> QED
    BY <2>3, <2>4
<1>8. cur \in [1 .. n -> RgzLayer]
  <2>1. DOMAIN cur = 1 .. n /\ cur = [i \in DOMAIN cur |-> cur[i]]
    BY <1>3 DEF n
  <2> HIDE DEF cur
  <2> QED
    BY <1>7, <2>1
<1> HIDE DEF cur
<1>9. cur \in Seq(RgzLayer) /\ Len(cur) = n
  BY <1>3, <1>8
<1>10. Stack(cur)
  <2>1. 1 \in 1 .. n /\ \A i \in 2 .. n : i \in 1 .. n
    BY <1>3
  <2> QED
    BY <1>3, <1>7, <1>9, <2>1 DEF Stack, n
<1>11. /\ t \in RgzState /\ t.cur = cur /\ t.idx = next
       /\ \A f \in 0 .. 1 : t.states[f] = IF f = next THEN cur ELSE r.states[f]
  <2>1. r.state \in SUBSET {"init", "regions"}
    BY DEF RgzState
  <2> QED
    BY <1>1, <1>2, <1>6, <1>9 DEF RgzState, NumFb
<1>12. \A f \in 0 .. NumFb - 1 : t.states[f] # <<>> => Stack(t.states[f])
  BY <1>10, <1>11 DEF NumFb
<1>13. Counted(cur, layers)
  BY <1>7, <1>9 DEF Counted, n
<1>14. t.states[r.idx] = prev
  BY <1>1, <1>11 DEF prev
<1>15. \A i \in 1 .. n : t.cur[i].dirty = D(i)
  BY <1>7, <1>11
<1> QED
  BY <1>1, <1>11, <1>12, <1>13, <1>14, <1>15 DEF t, next, n, D, prev, tgt

\* The inductive invariant holds before the first frame.
LEMMA RgzInitial == Init => RgzInv
<1> SUFFICES ASSUME Init PROVE RgzInv
  OBVIOUS
<1>1. handle \in [Ids -> {0, 1}]
  BY DEF Init
<1> QED
  BY <1>1, ReleasedRight DEF Init, RgzInv

\* What the regionizer is released to or left with is a state of it.
LEMMA BeforeRight ==
  ASSUME RgzInv
  PROVE  Before \in RgzState /\ \A f \in 0 .. NumFb - 1 : Before.states[f] # <<>> => Stack(Before.states[f])
BY ReleasedRight DEF RgzInv, Before

\* Entering the regions (rgz_in_hwc) leaves the layers of the frame.
LEMMA RegionsAdded ==
  ASSUME NEW r \in RgzState, NEW t, t = [r EXCEPT !.state = IF blt_mode = "paint" THEN @ ELSE @ \cup {"regions"}]
  PROVE  t \in RgzState /\ t.cur = r.cur /\ t.idx = r.idx /\ t.states = r.states
BY DEF RgzState

\* SurfaceFlinger's layers, whoever draws them.
LEMMA PassedRight ==
  ASSUME RgzInv, NEW l \in Inputs, NEW S \in Updates, Passed(l, S)
  PROVE  list' = l /\ blt_mode' = blt_mode /\ blt_mode' \in Modes /\ handle' \in [Ids -> {0, 1}]
<1>1. handle \in [Ids -> {0, 1}] /\ blt_mode \in Modes
  BY DEF RgzInv
<1>2. \A i \in Ids : (IF i \in S THEN 1 - handle[i] ELSE handle[i]) \in {0, 1}
  BY <1>1
<1> QED
  BY <1>1, <1>2 DEF Passed

\* A frame drawn by the blitter.
LEMMA BlitRight ==
  ASSUME RgzInv, NEW l \in Inputs, NEW S \in Updates, BlitFrame(l, S)
  PROVE  /\ rgz' \in RgzState
         /\ \A f \in 0 .. NumFb - 1 : rgz'.states[f] # <<>> => Stack(rgz'.states[f])
         /\ AllBlittable(l) /\ Stack(RgzLayers(l, handle'))
         /\ Counted(rgz'.cur, RgzLayers(l, handle'))
         /\ rgz'.idx = (Before.idx + 1) % NumFb
         /\ rgz'.states[rgz'.idx] = rgz'.cur
         /\ rgz'.states[Before.idx] = Before.states[Before.idx]
         /\ \A i \in 1 .. Len(RgzLayers(l, handle')) : rgz'.cur[i].dirty =
              DirtyCount(i, RgzLayers(l, handle'), Before.states[Before.idx], Before.states[(Before.idx + 1) % NumFb])
         /\ blt_mode = "region" => (Len(rgz'.cur) + 1) * 2 <= SubregionMax
         /\ drawn' = "blitter"
<1> DEFINE L == RgzLayers(l, handle')
           r == Checked(Before, L)
<1>1. handle' \in [Ids -> {0, 1}]
  BY PassedRight DEF BlitFrame
<1>2. Stack(L)
  BY <1>1, LayersRight
<1>3. /\ AllBlittable(l) /\ drawn' = "blitter"
      /\ blt_mode = "region" => (Len(r.cur) + 1) * 2 <= SubregionMax
      /\ rgz' = [r EXCEPT !.state = IF blt_mode = "paint" THEN @ ELSE @ \cup {"regions"}]
  BY DEF BlitFrame
<1>4. Before \in RgzState /\ \A f \in 0 .. NumFb - 1 : Before.states[f] # <<>> => Stack(Before.states[f])
  BY BeforeRight
<1> HIDE DEF L, r
<1>5. /\ r \in RgzState
      /\ \A f \in 0 .. NumFb - 1 : r.states[f] # <<>> => Stack(r.states[f])
      /\ Counted(r.cur, L)
      /\ r.idx = (Before.idx + 1) % NumFb /\ r.states[r.idx] = r.cur
      /\ r.states[Before.idx] = Before.states[Before.idx]
      /\ \A i \in 1 .. Len(L) : r.cur[i].dirty =
           DirtyCount(i, L, Before.states[Before.idx], Before.states[(Before.idx + 1) % NumFb])
  BY <1>2, <1>4, CheckedRight DEF r
<1>6. rgz' \in RgzState /\ rgz'.cur = r.cur /\ rgz'.idx = r.idx /\ rgz'.states = r.states
  BY <1>3, <1>5, RegionsAdded
<1> QED
  BY <1>2, <1>3, <1>5, <1>6 DEF L

\* Neither a frame the blitter draws nor one the GPU draws disturbs the invariant.
LEMMA RgzStep == RgzInv /\ [Next]_vars => RgzInv'
<1> SUFFICES ASSUME RgzInv, [Next]_vars PROVE RgzInv'
  OBVIOUS
<1>1. ASSUME NEW l \in Inputs, NEW S \in Updates, BlitFrame(l, S)
      PROVE  RgzInv'
  <2>1. list' = l /\ blt_mode' = blt_mode /\ blt_mode' \in Modes /\ handle' \in [Ids -> {0, 1}]
    BY <1>1, PassedRight DEF BlitFrame
  <2>2. /\ rgz' \in RgzState
        /\ \A f \in 0 .. NumFb - 1 : rgz'.states[f] # <<>> => Stack(rgz'.states[f])
        /\ AllBlittable(l)
        /\ Counted(rgz'.cur, RgzLayers(l, handle'))
        /\ rgz'.states[rgz'.idx] = rgz'.cur
        /\ blt_mode = "region" => (Len(rgz'.cur) + 1) * 2 <= SubregionMax
    BY <1>1, BlitRight
  <2> QED
    BY <2>1, <2>2 DEF RgzInv
<1>2. ASSUME NEW l \in Inputs, NEW S \in Updates, SgxFrame(l, S) \/ DssFrame(l, S)
      PROVE  RgzInv'
  <2>1. list' = l /\ blt_mode' = blt_mode /\ blt_mode' \in Modes /\ handle' \in [Ids -> {0, 1}]
    BY <1>2, PassedRight DEF SgxFrame, DssFrame
  <2>2. rgz' = Released /\ drawn' # "blitter"
    BY <1>2 DEF SgxFrame, DssFrame
  <2> QED
    BY <2>1, <2>2, ReleasedRight DEF RgzInv
<1>3. CASE UNCHANGED vars
  BY <1>3 DEF vars, RgzInv
<1> QED
  BY <1>1, <1>2, <1>3 DEF Next

\* The framebuffers hold stacks of on-screen layers or nothing, and the current frame
\* is what the layers last passed were described as, in its own framebuffer; in region
\* mode its edges fit the arrays that are sorted.
THEOREM RegionizerStates == Spec => []RgzInv
BY RgzInitial, RgzStep, PTL DEF Spec

\* The damaged areas that are asked about lie on the screen.
LEMMA AreasRight == Areas \subseteq OnScreen
<1>1. ASSUME NEW S \in SUBSET UNION {Frames(l) : l \in Inputs}
      PROVE  Around(S) \in OnScreen
  <2>1. ASSUME NEW f \in S
        PROVE  f \in IntRect
    <3>1. PICK l \in Inputs : f \in Frames(l)
      BY <2>1
    <3>2. PICK i \in DOMAIN l : f = l[i].frame
      BY <3>1 DEF Frames
    <3> QED
      BY <3>2, InputRight
  <2> QED
    BY <2>1, AroundOnScreen
<1> QED
  BY <1>1 DEF Areas

\* The last frame's layers, if the blitter drew it.
LEMMA LastFrame ==
  ASSUME RgzInv, drawn = "blitter"
  PROVE  /\ list \in Inputs /\ handle \in [Ids -> {0, 1}]
         /\ Stack(rgz.cur) /\ Len(rgz.cur) = Len(RgzLayers(list, handle))
         /\ \A i \in 1 .. Len(rgz.cur) :
              LET x == RgzLayers(list, handle)[i] IN
              /\ rgz.cur[i].id = x.id /\ rgz.cur[i].buf = x.buf
              /\ rgz.cur[i].frame = x.frame /\ rgz.cur[i].handle = x.handle
<1> DEFINE L == RgzLayers(list, handle)
           cur == rgz.cur
           n == Len(L)
<1>1. /\ list \in Inputs /\ handle \in [Ids -> {0, 1}]
      /\ Counted(cur, L)
  BY DEF RgzInv
<1>2. Stack(L)
  BY <1>1, LayersRight
<1> HIDE DEF L, cur
<1>3. cur \in Seq(RgzLayer) /\ Len(cur) = n /\ \A i \in 1 .. n : cur[i] = WithDirty(L[i], cur[i].dirty)
  BY <1>1 DEF Counted
<1>4. L \in Seq(RgzLayer) /\ n > 0 /\ n \in Nat
  BY <1>2 DEF Stack
<1>5. ASSUME NEW i \in 1 .. n
      PROVE  /\ cur[i].id = L[i].id /\ cur[i].buf = L[i].buf
             /\ cur[i].frame = L[i].frame /\ cur[i].handle = L[i].handle
  <2>1. L[i] \in RgzLayer /\ cur[i] \in RgzLayer
    BY <1>3, <1>4
  <2>2. cur[i].dirty \in 0 .. NumFb
    BY <2>1 DEF RgzLayer
  <2> DEFINE d == cur[i].dirty
  <2>3. cur[i] = WithDirty(L[i], d)
    BY <1>3
  <2> HIDE DEF d
  <2>4. d \in 0 .. NumFb
    BY <2>2 DEF d
  <2> QED
    BY <2>1, <2>3, <2>4, DirtyOnly
<1>6. Stack(cur)
  <2>1. 1 \in 1 .. n /\ \A i \in 2 .. n : i \in 1 .. n
    BY <1>4
  <2> QED
    BY <1>2, <1>3, <1>4, <1>5, <2>1 DEF Stack
<1> QED
  BY <1>1, <1>3, <1>5, <1>6 DEF L, cur, n

\* rgz_bsort and rgz_bunique leave the ascending coordinates, each once, of every
\* frame the blitter draws and every damaged area, and the arrays hold them.
THEOREM EdgesSorted == Spec => []SortsRight
<1>1. RgzInv => SortsRight
  <2> SUFFICES ASSUME RgzInv, drawn = "blitter",
                      NEW dmg \in Areas, NEW a \in {YArray(rgz.cur, dmg), XArray(rgz.cur, dmg)}
               PROVE  /\ SortUnique(a) = Ascending(Elements(a))
                      /\ blt_mode = "region" => Len(a) <= SubregionMax
    BY DEF SortsRight
  <2>1. Stack(rgz.cur) /\ dmg \in IntRect
    BY LastFrame, AreasRight, Screen
  <2>2. rgz.cur \in Seq(RgzLayer) /\ Len(rgz.cur) \in Nat
    BY <2>1 DEF Stack
  <2>3. a \in Seq(Int) /\ Len(a) = 2 * Len(rgz.cur) + 2
    BY <2>1, <2>2, ArraysRight DEF HoldsEdges
  <2>4. a # <<>>
    BY <2>2, <2>3
  <2>5. blt_mode = "region" => (Len(rgz.cur) + 1) * 2 <= SubregionMax
    BY DEF RgzInv
  <2> QED
    BY <2>2, <2>3, <2>4, <2>5, SortUniqueRight
<1> QED
  BY <1>1, RegionizerStates, PTL

-----------------------------------------------------------------------------
(* Cutting the screen.                                                      *)

\* Coordinates that cut 0 .. N.
Cuts(S, N) == S \subseteq 0 .. N /\ 0 \in S /\ N \in S /\ IsFiniteSet(S)

\* The pieces between neighbouring coordinates of S: a[i] to a[i + 1].
Pieces(a, m, S, N) ==
  /\ m \in Nat /\ a \in [1 .. m -> S]
  /\ \A i \in 1 .. m - 1 : /\ a[i] \in 0 .. N /\ a[i + 1] \in 0 .. N /\ a[i] < a[i + 1]
                           /\ \A e \in S : e <= a[i] \/ e >= a[i + 1]
  /\ \A x \in 0 .. N - 1 : \E i \in 1 .. m - 1 : a[i] <= x /\ x < a[i + 1]
  /\ \A x \in 0 .. N - 1 : \A i, j \in 1 .. m - 1 :
       a[i] <= x /\ x < a[i + 1] /\ a[j] <= x /\ x < a[j + 1] => i = j

\* Consecutive members of a set of cuts bound pieces that cover 0 .. N once.
LEMMA PiecesRight ==
  ASSUME NEW N \in Nat, N > 0, NEW S, Cuts(S, N)
  PROVE  Pieces(Ascending(S), Cardinality(S), S, N)
<1> DEFINE m == Cardinality(S)
           a == Ascending(S)
<1>1. S \in SUBSET Int /\ IsFiniteSet(S) /\ S # {} /\ S \subseteq 0 .. N /\ 0 \in S /\ N \in S
  BY DEF Cuts
<1>2. /\ m \in Nat /\ m > 0
      /\ \A y \in S : y <= a[m] /\ a[1] <= y
  BY <1>1, FiniteEnds
<1>3. a \in [1 .. m -> S] /\ Lists(a, S)
  BY <1>1, AscendingLists
<1> HIDE DEF m, a
<1>4. 1 \in 1 .. m /\ m \in 1 .. m
  BY <1>2
<1>5. \A i \in 1 .. m : a[i] \in 0 .. N /\ a[i] \in Int
  BY <1>1, <1>3
<1>6. a[1] = 0 /\ a[m] = N
  <2>1. a[1] \in 0 .. N /\ a[m] \in 0 .. N /\ a[1] <= 0 /\ N <= a[m]
    BY <1>1, <1>2, <1>4, <1>5
  <2> QED
    BY <2>1
<1>7. \A i, j \in 1 .. m : i < j => a[i] < a[j]
  BY <1>3 DEF Lists
<1>8. \A i \in 1 .. m - 1 : i \in 1 .. m /\ i + 1 \in 1 .. m /\ i < i + 1
  BY <1>2
<1>9. ASSUME NEW i \in 1 .. m - 1, NEW e \in S
      PROVE  e <= a[i] \/ e >= a[i + 1]
  <2>1. PICK k \in 1 .. m : a[k] = e
    BY <1>3 DEF Lists
  <2>2. k <= i \/ k >= i + 1
    BY <1>8
  <2>3. k = i \/ k < i \/ k = i + 1 \/ k > i + 1
    BY <1>8, <2>2
  <2>4. e \in Int /\ a[i] \in Int /\ a[i + 1] \in Int
    BY <1>1, <1>5, <1>8
  <2>5. (k < i => a[k] < a[i]) /\ (i + 1 < k => a[i + 1] < a[k])
    BY <1>7, <1>8
  <2> QED
    BY <2>1, <2>3, <2>4, <2>5
<1>10. ASSUME NEW x \in 0 .. N - 1
       PROVE  \E i \in 1 .. m - 1 : a[i] <= x /\ x < a[i + 1]
  <2> DEFINE T == {i \in 1 .. m : x < a[i]}
  <2>1. T \subseteq Nat /\ m \in T
    BY <1>4, <1>6
  <2>2. PICK i \in T : \A k \in T : i <= k
    <3> HIDE DEF T
    <3> QED
      BY <2>1, LeastNatural
  <2>3. i \in 1 .. m /\ x < a[i] /\ i # 1
    BY <1>6
  <2>4. i - 1 \in 1 .. m - 1 /\ i - 1 \in 1 .. m /\ ~(i <= i - 1) /\ (i - 1) + 1 = i
    BY <2>3, <1>2
  <2>5. ~(x < a[i - 1])
    BY <2>2, <2>4
  <2>6. a[i - 1] \in Int /\ x \in Int
    BY <1>5, <2>4
  <2> QED
    BY <2>3, <2>4, <2>5, <2>6
<1>11. ASSUME NEW x \in 0 .. N - 1, NEW i \in 1 .. m - 1, NEW j \in 1 .. m - 1,
              a[i] <= x, x < a[i + 1], a[j] <= x, x < a[j + 1]
       PROVE  i = j
  <2>1. /\ a[i] \in Int /\ a[i + 1] \in Int /\ a[j] \in Int /\ a[j + 1] \in Int /\ x \in Int
        /\ i \in Int /\ j \in Int
    BY <1>5, <1>8
  <2>2. ~(i < j)
    <3>1. i < j => i + 1 = j \/ i + 1 < j
      BY <2>1
    <3>2. i + 1 < j => a[i + 1] < a[j]
      BY <1>7, <1>8
    <3> QED
      BY <1>11, <2>1, <3>1, <3>2
  <2>3. ~(j < i)
    <3>1. j < i => j + 1 = i \/ j + 1 < i
      BY <2>1
    <3>2. j + 1 < i => a[j + 1] < a[i]
      BY <1>7, <1>8
    <3> QED
      BY <1>11, <2>1, <3>1, <3>2
  <2> QED
    BY <2>1, <2>2, <2>3
<1>12. \A i \in 1 .. m - 1 : a[i] \in 0 .. N /\ a[i + 1] \in 0 .. N /\ a[i] < a[i + 1]
  BY <1>5, <1>7, <1>8
<1> QED
  BY <1>2, <1>3, <1>9, <1>10, <1>11, <1>12 DEF Pieces, m, a

\* A layer of a stack has a frame that shows on the screen.
LEMMA StackFrame ==
  ASSUME NEW L, Stack(L), NEW i \in 1 .. Len(L)
  PROVE  /\ L[i] \in RgzLayer /\ L[i].frame \in IntRect /\ Intersects(L[i].frame, ScreenRect)
         /\ L[i].frame.left \in Int /\ L[i].frame.top \in Int
         /\ L[i].frame.right \in Int /\ L[i].frame.bottom \in Int
         /\ L[i].frame.left < Width /\ L[i].frame.top < Height
         /\ L[i].frame.right > 0 /\ L[i].frame.bottom > 0
<1>1. L[i] \in RgzLayer /\ Len(L) \in Nat
  BY DEF Stack
<1> DEFINE f == L[i].frame
<1>2. f \in IntRect
  BY <1>1 DEF RgzLayer
<1>3. Intersects(f, ScreenRect)
  <2>1. CASE i = 1
    BY <2>1, Screen DEF Stack, Intersects, ScreenRect, Rect
  <2>2. CASE i # 1
    BY <1>1, <2>2 DEF Stack
  <2> QED
    BY <2>1, <2>2
<1> HIDE DEF f
<1>4. f.left \in Int /\ f.top \in Int /\ f.right \in Int /\ f.bottom \in Int
  BY <1>2 DEF IntRect
<1>5. f.left < Width /\ f.top < Height /\ f.right > 0 /\ f.bottom > 0
  BY <1>3, <1>4, Screen DEF Intersects, ScreenRect, Rect
<1> QED
  BY <1>1, <1>2, <1>3, <1>4, <1>5 DEF f

\* The edges of the layers and of the damaged area cut the screen.
LEMMA EdgesCut ==
  ASSUME NEW L, Stack(L), NEW dmg \in OnScreen
  PROVE  /\ Cuts(Elements(YArray(L, dmg)), Height)
         /\ Cuts(Elements(XArray(L, dmg)), Width)
         /\ dmg.top \in Elements(YArray(L, dmg)) /\ dmg.bottom \in Elements(YArray(L, dmg))
         /\ dmg.left \in Elements(XArray(L, dmg)) /\ dmg.right \in Elements(XArray(L, dmg))
         /\ \A i \in 1 .. Len(L) :
              /\ Greatest(0, L[i].frame.top) \in Elements(YArray(L, dmg))
              /\ Least(L[i].frame.bottom, Height) \in Elements(YArray(L, dmg))
              /\ Greatest(0, L[i].frame.left) \in Elements(XArray(L, dmg))
              /\ Least(L[i].frame.right, Width) \in Elements(XArray(L, dmg))
<1> DEFINE n == Len(L)
           Y == YArray(L, dmg)
           X == XArray(L, dmg)
<1>1. L \in Seq(RgzLayer) /\ n \in Nat /\ n > 0 /\ DOMAIN L = 1 .. n /\ L[1].frame = ScreenRect
  BY DEF Stack
<1>2. dmg \in IntRect
  BY Screen
<1>3. dmg.left \in 0 .. Width /\ dmg.right \in 0 .. Width /\ dmg.top \in 0 .. Height /\ dmg.bottom \in 0 .. Height
  BY DEF OnScreen
<1>4. /\ HoldsEdges(Y, n, dmg.top, dmg.bottom, Tops(L), Bottoms(L))
      /\ HoldsEdges(X, n, dmg.left, dmg.right, Lefts(L), Rights(L))
  BY <1>1, <1>2, ArraysRight
<1>5. \A i \in 1 .. n : /\ Tops(L)[i] = Greatest(0, L[i].frame.top)
                        /\ Bottoms(L)[i] = Least(L[i].frame.bottom, Height)
                        /\ Lefts(L)[i] = Greatest(0, L[i].frame.left)
                        /\ Rights(L)[i] = Least(L[i].frame.right, Width)
  BY <1>1 DEF Tops, Bottoms, Lefts, Rights
<1>6. \A i \in 1 .. n : /\ Tops(L)[i] \in 0 .. Height /\ Bottoms(L)[i] \in 0 .. Height
                        /\ Lefts(L)[i] \in 0 .. Width /\ Rights(L)[i] \in 0 .. Width
  <2> SUFFICES ASSUME NEW i \in 1 .. n
               PROVE  /\ Tops(L)[i] \in 0 .. Height /\ Bottoms(L)[i] \in 0 .. Height
                      /\ Lefts(L)[i] \in 0 .. Width /\ Rights(L)[i] \in 0 .. Width
    OBVIOUS
  <2> DEFINE f == L[i].frame
  <2>1. /\ f.left \in Int /\ f.top \in Int /\ f.right \in Int /\ f.bottom \in Int
        /\ f.left < Width /\ f.top < Height /\ f.right > 0 /\ f.bottom > 0
    BY StackFrame
  <2>2. /\ Tops(L)[i] = Greatest(0, f.top) /\ Bottoms(L)[i] = Least(f.bottom, Height)
        /\ Lefts(L)[i] = Greatest(0, f.left) /\ Rights(L)[i] = Least(f.right, Width)
    BY <1>5
  <2> HIDE DEF f
  <2> QED
    BY <2>1, <2>2, Screen DEF Greatest, Least
<1>7. Tops(L)[1] = 0 /\ Bottoms(L)[1] = Height /\ Lefts(L)[1] = 0 /\ Rights(L)[1] = Width
  BY <1>1, <1>5, Screen DEF Greatest, Least, ScreenRect, Rect
<1> HIDE DEF n, Y, X
<1>8. /\ Y \in Seq(Int)
      /\ \A x : x \in Elements(Y) <=> x = dmg.top \/ x = dmg.bottom \/ \E i \in 1 .. n : x = Tops(L)[i] \/ x = Bottoms(L)[i]
  BY <1>4 DEF HoldsEdges
<1>9. /\ X \in Seq(Int)
      /\ \A x : x \in Elements(X) <=> x = dmg.left \/ x = dmg.right \/ \E i \in 1 .. n : x = Lefts(L)[i] \/ x = Rights(L)[i]
  BY <1>4 DEF HoldsEdges
<1>10. IsFiniteSet(Elements(Y)) /\ IsFiniteSet(Elements(X))
  <2>1. ASSUME NEW a \in Seq(Int)
        PROVE  IsFiniteSet(Elements(a))
    <3>1. Len(a) \in Nat /\ a \in [1 .. Len(a) -> Int]
      OBVIOUS
    <3> QED
      BY <3>1, FiniteElements
  <2> QED
    BY <1>8, <1>9, <2>1
<1>11. 1 \in 1 .. n
  BY <1>1
<1>12. Cuts(Elements(Y), Height)
  BY <1>3, <1>6, <1>7, <1>8, <1>10, <1>11 DEF Cuts
<1>13. Cuts(Elements(X), Width)
  BY <1>3, <1>6, <1>7, <1>9, <1>10, <1>11 DEF Cuts
<1>14. /\ dmg.top \in Elements(Y) /\ dmg.bottom \in Elements(Y)
       /\ dmg.left \in Elements(X) /\ dmg.right \in Elements(X)
  BY <1>8, <1>9
<1>15. \A i \in 1 .. n : /\ Tops(L)[i] \in Elements(Y) /\ Bottoms(L)[i] \in Elements(Y)
                         /\ Lefts(L)[i] \in Elements(X) /\ Rights(L)[i] \in Elements(X)
  BY <1>8, <1>9
<1> QED
  BY <1>5, <1>12, <1>13, <1>14, <1>15 DEF n, Y, X

\* The layers that meet a rectangle on the screen: the background behind others.
LEMMA MeetingRight ==
  ASSUME NEW L, Stack(L), NEW r, Intersects(r, ScreenRect)
  PROVE  /\ Stack(Meeting(L, r))
         /\ \A k \in 1 .. Len(Meeting(L, r)) : \E i \in 1 .. Len(L) :
              Meeting(L, r)[k] = L[i] /\ Intersects(r, L[i].frame)
         /\ \A i \in 1 .. Len(L) : Intersects(r, L[i].frame) =>
              \E k \in 1 .. Len(Meeting(L, r)) : Meeting(L, r)[k] = L[i]
<1> DEFINE n == Len(L)
           I == {i \in DOMAIN L : Intersects(r, L[i].frame)}
           c == Cardinality(I)
           t == Meeting(L, r)
<1>1. /\ L \in Seq(RgzLayer) /\ n \in Nat /\ n > 0 /\ DOMAIN L = 1 .. n /\ L \in [1 .. n -> RgzLayer]
      /\ L[1].frame = ScreenRect
  BY DEF Stack
<1>2. I \in SUBSET (1 .. n) /\ t = Chosen(L, I)
  BY <1>1 DEF Meeting
<1>3. Picks(t, L, I)
  BY <1>1, <1>2, ChosenRight
<1>4. t \in [1 .. c -> RgzLayer] /\ c \in Nat
  <2>1. L \in [1 .. n -> RgzLayer] /\ n \in Nat /\ I \in SUBSET (1 .. n)
    BY <1>1, <1>2
  <2> HIDE DEF I, n
  <2>2. Chosen(L, I) \in [1 .. Cardinality(I) -> RgzLayer] /\ Cardinality(I) \in Nat
    BY ONLY <2>1, ChosenType, Zenon
  <2> QED
    BY <1>2, <2>2
<1>5. \A i \in I : i \in 1 .. n /\ Intersects(r, L[i].frame)
  BY <1>1
<1>6. 1 \in I
  BY <1>1
<1>12. \A i \in 1 .. n : Intersects(r, L[i].frame) => i \in I
  BY <1>1
<1> HIDE DEF I, c, t, n
<1>7. /\ \A k \in 1 .. c : Ascending(I)[k] \in I /\ t[k] = L[Ascending(I)[k]]
      /\ \A i \in I : Below(I, i) + 1 \in 1 .. c /\ t[Below(I, i) + 1] = L[i]
      /\ \A j, k \in 1 .. c : j < k => Ascending(I)[j] < Ascending(I)[k]
  BY <1>3 DEF Picks, c
<1>8. t \in Seq(RgzLayer) /\ Len(t) = c
  BY <1>4
<1>9. Below(I, 1) = 0
  <2>1. {y \in I : y < 1} = {}
    BY <1>5
  <2> QED
    BY <2>1, FS_EmptySet DEF Below
<1>10. 1 \in 1 .. c /\ t[1] = L[1]
  BY <1>6, <1>7, <1>9
<1>11. ASSUME NEW k \in 2 .. c
       PROVE  \E i \in 2 .. n : t[k] = L[i]
  <2>1. k \in 1 .. c /\ 1 < k
    OBVIOUS
  <2>2. Ascending(I)[1] \in 1 .. n /\ Ascending(I)[k] \in 1 .. n /\ Ascending(I)[1] < Ascending(I)[k]
    BY <1>5, <1>7, <1>10, <2>1
  <2>3. Ascending(I)[k] \in 2 .. n
    BY <2>2
  <2> QED
    BY <1>7, <2>1, <2>3
<1>13. Stack(t)
  <2>1. \A i \in 2 .. n : L[i].id \in Ids /\ L[i].buf >= ClearHintBuf /\ Intersects(L[i].frame, ScreenRect)
    BY DEF Stack, n
  <2>2. L[1].buf = BackgroundBuf
    BY DEF Stack
  <2>3. c > 0
    BY <1>4, <1>10
  <2> QED
    BY <1>1, <1>8, <1>10, <1>11, <2>1, <2>2, <2>3 DEF Stack
<1>14. ASSUME NEW k \in 1 .. c
       PROVE  \E i \in 1 .. n : t[k] = L[i] /\ Intersects(r, L[i].frame)
  BY <1>5, <1>7
<1>15. ASSUME NEW i \in 1 .. n, Intersects(r, L[i].frame)
       PROVE  \E k \in 1 .. c : t[k] = L[i]
  BY <1>7, <1>12, <1>15
<1> QED
  BY <1>8, <1>13, <1>14, <1>15 DEF t, n

-----------------------------------------------------------------------------
(* Regions.                                                                 *)

\* The horizontal regions reach over the whole screen.
LEMMA RightIsWidth ==
  ASSUME NEW L, Stack(L), NEW dmg \in OnScreen
  PROVE  Least(Width, Max({f.right : f \in Frames(L) \cup {dmg}})) = Width
<1> DEFINE n == Len(L)
           ends == [i \in 1 .. n |-> L[i].frame.right]
           E == {f.right : f \in Frames(L) \cup {dmg}}
<1>1. L \in Seq(RgzLayer) /\ n \in Nat /\ n > 0 /\ DOMAIN L = 1 .. n /\ L[1].frame = ScreenRect
  BY DEF Stack
<1>2. dmg.right \in Int
  BY Screen DEF IntRect
<1>3. E = Elements(ends) \cup {dmg.right}
  BY <1>1 DEF Elements, Frames
<1>4. \A i \in 1 .. n : ends[i] \in Int
  BY StackFrame
<1>5. ends \in [1 .. n -> Int]
  BY <1>4
<1>6. IsFiniteSet(Elements(ends)) /\ \A i \in 1 .. n : ends[i] \in Elements(ends)
  <2> HIDE DEF ends, n
  <2> QED
    BY <1>1, <1>5, FiniteElements
<1>7. IsFiniteSet(E)
  BY <1>3, <1>6, FS_AddElement
<1>8. E \in SUBSET Int
  BY <1>2, <1>3, <1>4 DEF Elements
<1>9. Width \in E
  <2>1. ends[1] = Width /\ 1 \in 1 .. n
    BY <1>1 DEF ScreenRect, Rect
  <2> QED
    BY <1>3, <1>6, <2>1
<1> HIDE DEF E
<1>10. Max(E) \in E /\ Width <= Max(E)
  BY <1>7, <1>8, <1>9, FiniteEnds
<1>11. Max(E) \in Int /\ Width \in Int
  <2>1. \A x \in E : x \in Int
    BY <1>8
  <2> QED
    BY <1>10, <2>1, Screen
<1> QED
  BY <1>10, <1>11 DEF Least, E

\* The strip of the screen between two consecutive y edges.
Strip(ys, i) == Rect(0, ys[i], Width, ys[i + 1])

\* The horizontal regions are the strips between consecutive y edges.
LEMMA HRegionsRight ==
  ASSUME NEW L, Stack(L), NEW dmg \in OnScreen, NEW S, S = Elements(YArray(L, dmg))
  PROVE  /\ Pieces(Ascending(S), Cardinality(S), S, Height)
         /\ HRegions(L, dmg) = [i \in 1 .. Cardinality(S) - 1 |->
              [rect |-> Strip(Ascending(S), i), layers |-> Meeting(L, Strip(Ascending(S), i))]]
<1>1. Cuts(S, Height)
  BY EdgesCut
<1>2. Pieces(Ascending(S), Cardinality(S), S, Height)
  BY <1>1, PiecesRight, Screen
<1>3. Len(Ascending(S)) = Cardinality(S)
  BY <1>2 DEF Pieces
<1> QED
  BY <1>2, <1>3, RightIsWidth DEF HRegions, Strip

\* The subregions of a strip lie between its consecutive x edges.
LEMMA SubregionsRight ==
  ASSUME NEW h, Stack(h.layers), NEW dmg \in OnScreen, NEW S, S = Elements(XArray(h.layers, dmg))
  PROVE  /\ Pieces(Ascending(S), Cardinality(S), S, Width)
         /\ Subregions(h, dmg) = [i \in 1 .. Cardinality(S) - 1 |->
              Rect(Ascending(S)[i], h.rect.top, Ascending(S)[i + 1], h.rect.bottom)]
<1>1. Cuts(S, Width)
  BY EdgesCut
<1>2. Pieces(Ascending(S), Cardinality(S), S, Width)
  BY <1>1, PiecesRight, Screen
<1>3. Len(Ascending(S)) = Cardinality(S)
  BY <1>2 DEF Pieces
<1> QED
  BY <1>2, <1>3 DEF Subregions

\* A rectangle between edges that meets what has these edges is inside of it.
Within(sub, r) == /\ r.left <= sub.left /\ sub.right <= r.right
                  /\ r.top <= sub.top /\ sub.bottom <= r.bottom

Tile(L, dmg, sub) ==
  /\ sub \in OnScreen /\ sub.left < sub.right /\ sub.top < sub.bottom
  /\ \A r \in Frames(L) \cup {dmg} : Intersects(sub, r) => Within(sub, r)

\* An interval [a, b[ that no clipped end of [c, d[ is inside of.
LEMMA Between ==
  ASSUME NEW N \in Int, NEW a \in 0 .. N, NEW b \in 0 .. N, a < b,
         NEW c \in Int, NEW d \in Int,
         Greatest(0, c) <= a \/ Greatest(0, c) >= b,
         Least(d, N) <= a \/ Least(d, N) >= b,
         b > c, a < d
  PROVE  c <= a /\ b <= d
BY DEF Greatest, Least

\* The subregions of a horizontal region.
LEMMA TileRight ==
  ASSUME NEW L, Stack(L), NEW dmg \in OnScreen, NEW i \in DOMAIN HRegions(L, dmg)
  PROVE  /\ Subregions(HRegions(L, dmg)[i], dmg) \in Seq(OnScreen)
         /\ \A s \in DOMAIN Subregions(HRegions(L, dmg)[i], dmg) :
              Tile(L, dmg, Subregions(HRegions(L, dmg)[i], dmg)[s])
<1> DEFINE S == Elements(YArray(L, dmg))
           ys == Ascending(S)
           m == Cardinality(S)
           h == HRegions(L, dmg)[i]
           T == Elements(XArray(h.layers, dmg))
           xs == Ascending(T)
           k == Cardinality(T)
           subs == Subregions(h, dmg)
<1>1. Pieces(ys, m, S, Height)
  BY HRegionsRight
<1>2. i \in 1 .. m - 1 /\ h = [rect |-> Strip(ys, i), layers |-> Meeting(L, Strip(ys, i))]
  <2>1. HRegions(L, dmg) = [j \in 1 .. m - 1 |-> [rect |-> Strip(ys, j), layers |-> Meeting(L, Strip(ys, j))]]
    BY HRegionsRight
  <2> HIDE DEF ys, m
  <2> QED
    BY <2>1
<1> HIDE DEF ys, m, h
<1>3. ys[i] \in 0 .. Height /\ ys[i + 1] \in 0 .. Height /\ ys[i] < ys[i + 1]
  BY <1>1, <1>2 DEF Pieces
<1>4. \A e \in S : e <= ys[i] \/ e >= ys[i + 1]
  BY <1>1, <1>2 DEF Pieces
<1> DEFINE top == ys[i]
           bot == ys[i + 1]
<1>5. h.rect = Rect(0, top, Width, bot) /\ h.layers = Meeting(L, h.rect)
  BY <1>2 DEF Strip
<1> HIDE DEF top, bot
<1>6. top \in 0 .. Height /\ bot \in 0 .. Height /\ top < bot
  BY <1>3 DEF top, bot
<1>7. h.rect.top = top /\ h.rect.bottom = bot /\ h.rect.left = 0 /\ h.rect.right = Width
  BY <1>5 DEF Rect
<1>8. Intersects(h.rect, ScreenRect)
  BY <1>6, <1>7, Screen DEF Intersects, ScreenRect, Rect
<1> DEFINE q == h.rect
<1>9. /\ Stack(h.layers)
      /\ \A j \in 1 .. Len(L) : Intersects(h.rect, L[j].frame) =>
           \E c \in 1 .. Len(h.layers) : h.layers[c] = L[j]
  <2>1. Intersects(q, ScreenRect) /\ h.layers = Meeting(L, q)
    BY <1>5, <1>8
  <2> HIDE DEF q
  <2>2. /\ Stack(Meeting(L, q))
        /\ \A j \in 1 .. Len(L) : Intersects(q, L[j].frame) =>
              \E c \in 1 .. Len(Meeting(L, q)) : Meeting(L, q)[c] = L[j]
    BY <2>1, MeetingRight
  <2>3. /\ Stack(h.layers)
        /\ \A j \in 1 .. Len(L) : Intersects(q, L[j].frame) =>
              \E c \in 1 .. Len(h.layers) : h.layers[c] = L[j]
    BY <2>1, <2>2
  <2> QED
    BY <2>3 DEF q
<1>10. /\ Pieces(xs, k, T, Width)
       /\ subs = [s \in 1 .. k - 1 |-> Rect(xs[s], top, xs[s + 1], bot)]
  BY <1>7, <1>9, SubregionsRight
<1>11. /\ dmg.left \in T /\ dmg.right \in T /\ dmg.top \in S /\ dmg.bottom \in S
       /\ \A j \in 1 .. Len(L) : Greatest(0, L[j].frame.top) \in S /\ Least(L[j].frame.bottom, Height) \in S
       /\ \A c \in 1 .. Len(h.layers) : /\ Greatest(0, h.layers[c].frame.left) \in T
                                        /\ Least(h.layers[c].frame.right, Width) \in T
  BY <1>9, EdgesCut
<1> HIDE DEF xs, k, S, T, subs, q
<1>12. ASSUME NEW s \in 1 .. k - 1
       PROVE  Tile(L, dmg, Rect(xs[s], top, xs[s + 1], bot))
  <2> DEFINE sub == Rect(xs[s], top, xs[s + 1], bot)
             a == xs[s]
             b == xs[s + 1]
  <2>1. sub.left = a /\ sub.right = b /\ sub.top = top /\ sub.bottom = bot
    BY DEF Rect
  <2>2. a \in 0 .. Width /\ b \in 0 .. Width /\ a < b
    BY <1>10 DEF Pieces
  <2>3. \A e \in T : e <= a \/ e >= b
    BY <1>10 DEF Pieces
  <2>4. sub \in OnScreen
    BY <1>6, <2>2 DEF OnScreen, Rect
  <2>5. \A e \in S : e <= top \/ e >= bot
    BY <1>4 DEF top, bot
  <2> HIDE DEF sub, a, b
  <2>6. ASSUME NEW r, NEW l0, NEW t0, NEW r0, NEW b0,
               r.left = l0, r.top = t0, r.right = r0, r.bottom = b0,
               Intersects(sub, r)
        PROVE  bot > t0 /\ top < b0 /\ b > l0 /\ a < r0
    BY <2>1, <2>6 DEF Intersects
  <2>7. ASSUME Intersects(sub, dmg)
        PROVE  Within(sub, dmg)
    <3>1. /\ dmg.left \in Int /\ dmg.right \in Int /\ dmg.top \in Int /\ dmg.bottom \in Int
      BY Screen DEF IntRect
    <3>2. bot > dmg.top /\ top < dmg.bottom /\ b > dmg.left /\ a < dmg.right
      BY <2>7, <2>1 DEF Intersects
    <3>3. dmg.top <= top \/ dmg.top >= bot
      BY <1>11, <2>5
    <3>4. dmg.bottom <= top \/ dmg.bottom >= bot
      BY <1>11, <2>5
    <3>5. (dmg.left <= a \/ dmg.left >= b) /\ (dmg.right <= a \/ dmg.right >= b)
      BY <1>11, <2>3
    <3>6. a \in Int /\ b \in Int /\ top \in Int /\ bot \in Int
      BY <1>6, <2>2
    <3> QED
      BY <2>1, <3>1, <3>2, <3>3, <3>4, <3>5, <3>6 DEF Within
  <2>8. ASSUME NEW j \in 1 .. Len(L), Intersects(sub, L[j].frame)
        PROVE  Within(sub, L[j].frame)
    <3> DEFINE f == L[j].frame
    <3>1. f.left \in Int /\ f.top \in Int /\ f.right \in Int /\ f.bottom \in Int
      BY StackFrame
    <3>2. bot > f.top /\ top < f.bottom /\ b > f.left /\ a < f.right
      BY <2>8, <2>1 DEF Intersects
    <3>3. Intersects(h.rect, f)
      <4>1. 0 < f.right /\ Width > f.left
        <5> HIDE DEF f
        <5> QED
          BY <2>2, <3>1, <3>2, Screen
      <4> QED
        BY <1>7, <3>2, <4>1 DEF Intersects
    <3>4. PICK c \in 1 .. Len(h.layers) : h.layers[c] = L[j]
      BY <1>9, <3>3
    <3>5. Greatest(0, f.left) \in T /\ Least(f.right, Width) \in T
      BY <1>11, <3>4
    <3>6. Greatest(0, f.top) \in S /\ Least(f.bottom, Height) \in S
      BY <1>11
    <3> HIDE DEF f
    <3>7. f.top <= top /\ bot <= f.bottom
      <4>1. Greatest(0, f.top) <= top \/ Greatest(0, f.top) >= bot
        BY <2>5, <3>6
      <4>2. Least(f.bottom, Height) <= top \/ Least(f.bottom, Height) >= bot
        BY <2>5, <3>6
      <4> QED
        BY <1>6, <3>1, <3>2, <4>1, <4>2, Between, Screen
    <3>8. f.left <= a /\ b <= f.right
      <4>1. Greatest(0, f.left) <= a \/ Greatest(0, f.left) >= b
        BY <2>3, <3>5
      <4>2. Least(f.right, Width) <= a \/ Least(f.right, Width) >= b
        BY <2>3, <3>5
      <4> QED
        BY <2>2, <3>1, <3>2, <4>1, <4>2, Between, Screen
    <3>9. Within(sub, f)
      BY <2>1, <3>7, <3>8 DEF Within
    <3> QED
      BY <3>9 DEF f
  <2>9. \A r \in Frames(L) \cup {dmg} : Intersects(sub, r) => Within(sub, r)
    <3>1. DOMAIN L = 1 .. Len(L)
      BY DEF Stack
    <3> QED
      BY <2>7, <2>8, <3>1 DEF Frames
  <2>10. sub.left < sub.right /\ sub.top < sub.bottom
    BY <1>6, <2>1, <2>2
  <2>11. Tile(L, dmg, sub)
    BY <2>4, <2>9, <2>10 DEF Tile
  <2> QED
    BY <2>11 DEF sub, a, b
<1>13. k \in Nat
  BY <1>10 DEF Pieces
<1>14. \A s \in 1 .. k - 1 : subs[s] \in OnScreen /\ Tile(L, dmg, subs[s])
  BY <1>10, <1>12 DEF Tile
<1>15. subs \in Seq(OnScreen) /\ DOMAIN subs = 1 .. k - 1
  <2>1. subs \in [1 .. k - 1 -> OnScreen]
    BY <1>10, <1>14
  <2>2. k - 1 \in Nat \/ 1 .. k - 1 = 1 .. 0
    BY <1>13
  <2> QED
    BY <2>1, <2>2, <1>10, <1>13
<1> QED
  BY <1>14, <1>15 DEF subs, h

\* Pixel p is in one subregion: number s of horizontal region i.
LEMMA OneTile ==
  ASSUME NEW L, Stack(L), NEW dmg \in OnScreen, NEW p \in Pixels
  PROVE  /\ \E i \in DOMAIN HRegions(L, dmg) : \E s \in DOMAIN Subregions(HRegions(L, dmg)[i], dmg) :
              InRect(p, Subregions(HRegions(L, dmg)[i], dmg)[s])
         /\ \A i, j \in DOMAIN HRegions(L, dmg) :
            \A s \in DOMAIN Subregions(HRegions(L, dmg)[i], dmg) :
            \A t \in DOMAIN Subregions(HRegions(L, dmg)[j], dmg) :
              InRect(p, Subregions(HRegions(L, dmg)[i], dmg)[s])
              /\ InRect(p, Subregions(HRegions(L, dmg)[j], dmg)[t]) => i = j /\ s = t
<1> DEFINE S == Elements(YArray(L, dmg))
           ys == Ascending(S)
           m == Cardinality(S)
           H == HRegions(L, dmg)
           T(h) == Elements(XArray(h.layers, dmg))
           X(h) == Ascending(T(h))
           K(h) == Cardinality(T(h))
<1>1. p[1] \in 0 .. Width - 1 /\ p[2] \in 0 .. Height - 1
  BY DEF Pixels
<1>2. Pieces(ys, m, S, Height)
  BY HRegionsRight
<1>3. H = [i \in 1 .. m - 1 |-> [rect |-> Strip(ys, i), layers |-> Meeting(L, Strip(ys, i))]]
  BY HRegionsRight
<1> HIDE DEF ys, m, H
<1>4. DOMAIN H = 1 .. m - 1
  BY <1>3
<1>5. ASSUME NEW i \in 1 .. m - 1
      PROVE  /\ H[i].rect.top = ys[i] /\ H[i].rect.bottom = ys[i + 1]
             /\ Stack(H[i].layers)
  <2> DEFINE q == Strip(ys, i)
  <2>1. H[i] = [rect |-> q, layers |-> Meeting(L, q)]
    BY <1>3
  <2>2. q.top = ys[i] /\ q.bottom = ys[i + 1] /\ q.left = 0 /\ q.right = Width
    BY DEF Strip, Rect
  <2>3. ys[i] \in 0 .. Height /\ ys[i + 1] \in 0 .. Height /\ ys[i] < ys[i + 1]
    BY <1>2 DEF Pieces
  <2>4. Intersects(q, ScreenRect)
    BY <2>2, <2>3, Screen DEF Intersects, ScreenRect, Rect
  <2> HIDE DEF q
  <2>5. Stack(Meeting(L, q))
    BY <2>4, MeetingRight
  <2> QED
    BY <2>1, <2>2, <2>5
<1>6. ASSUME NEW i \in 1 .. m - 1
      PROVE  /\ Pieces(X(H[i]), K(H[i]), T(H[i]), Width)
             /\ DOMAIN Subregions(H[i], dmg) = 1 .. K(H[i]) - 1
             /\ \A s \in 1 .. K(H[i]) - 1 :
                  InRect(p, Subregions(H[i], dmg)[s]) <=>
                    /\ X(H[i])[s] <= p[1] /\ p[1] < X(H[i])[s + 1]
                    /\ ys[i] <= p[2] /\ p[2] < ys[i + 1]
  <2> DEFINE h == H[i]
             k == K(h)
             xs == X(h)
  <2>1. Stack(h.layers) /\ h.rect.top = ys[i] /\ h.rect.bottom = ys[i + 1]
    BY <1>5
  <2> HIDE DEF h
  <2>2. /\ Pieces(xs, k, T(h), Width)
        /\ Subregions(h, dmg) = [s \in 1 .. k - 1 |-> Rect(xs[s], ys[i], xs[s + 1], ys[i + 1])]
    BY <2>1, SubregionsRight
  <2> HIDE DEF k, xs
  <2>3. ASSUME NEW s \in 1 .. k - 1
        PROVE  InRect(p, Subregions(h, dmg)[s]) <=>
                 xs[s] <= p[1] /\ p[1] < xs[s + 1] /\ ys[i] <= p[2] /\ p[2] < ys[i + 1]
    <3> DEFINE r == Rect(xs[s], ys[i], xs[s + 1], ys[i + 1])
    <3>1. Subregions(h, dmg)[s] = r
      BY <2>2
    <3>2. r.left = xs[s] /\ r.top = ys[i] /\ r.right = xs[s + 1] /\ r.bottom = ys[i + 1]
      BY DEF Rect
    <3>3. xs[s] \in 0 .. Width /\ xs[s + 1] \in 0 .. Width
      BY <2>2 DEF Pieces
    <3>4. ys[i] \in 0 .. Height /\ ys[i + 1] \in 0 .. Height
      BY <1>2 DEF Pieces
    <3> HIDE DEF r
    <3> QED
      BY <1>1, <3>1, <3>2, <3>3, <3>4, Screen DEF InRect
  <2>4. DOMAIN Subregions(h, dmg) = 1 .. k - 1
    BY <2>2
  <2> QED
    BY <2>2, <2>3, <2>4 DEF h, k, xs
<1> HIDE DEF X, K, T
<1>7. \E i \in DOMAIN H : \E s \in DOMAIN Subregions(H[i], dmg) : InRect(p, Subregions(H[i], dmg)[s])
  <2>1. PICK i \in 1 .. m - 1 : ys[i] <= p[2] /\ p[2] < ys[i + 1]
    BY <1>1, <1>2 DEF Pieces
  <2>2. Pieces(X(H[i]), K(H[i]), T(H[i]), Width)
    BY <1>6
  <2>3. PICK s \in 1 .. K(H[i]) - 1 : X(H[i])[s] <= p[1] /\ p[1] < X(H[i])[s + 1]
    BY <1>1, <2>2 DEF Pieces
  <2>4. s \in DOMAIN Subregions(H[i], dmg) /\ InRect(p, Subregions(H[i], dmg)[s])
    BY <1>6, <2>1, <2>3
  <2> QED
    BY <1>4, <2>4
<1>8. ASSUME NEW i \in DOMAIN H, NEW j \in DOMAIN H,
             NEW s \in DOMAIN Subregions(H[i], dmg), NEW t \in DOMAIN Subregions(H[j], dmg),
             InRect(p, Subregions(H[i], dmg)[s]), InRect(p, Subregions(H[j], dmg)[t])
      PROVE  i = j /\ s = t
  <2>1. i \in 1 .. m - 1 /\ j \in 1 .. m - 1
    BY <1>4
  <2>2. /\ s \in 1 .. K(H[i]) - 1
        /\ X(H[i])[s] <= p[1] /\ p[1] < X(H[i])[s + 1] /\ ys[i] <= p[2] /\ p[2] < ys[i + 1]
    BY <1>6, <1>8, <2>1
  <2>3. /\ t \in 1 .. K(H[j]) - 1
        /\ X(H[j])[t] <= p[1] /\ p[1] < X(H[j])[t + 1] /\ ys[j] <= p[2] /\ p[2] < ys[j + 1]
    BY <1>6, <1>8, <2>1
  <2>4. i = j
    BY <1>1, <1>2, <2>1, <2>2, <2>3 DEF Pieces
  <2>5. Pieces(X(H[i]), K(H[i]), T(H[i]), Width)
    BY <1>6, <2>1
  <2>6. s = t
    BY <1>1, <2>2, <2>3, <2>4, <2>5 DEF Pieces
  <2> QED
    BY <2>4, <2>6
<1> QED
  BY <1>7, <1>8 DEF H

\* The subregions of all horizontal regions, one after the other.
Tiles(L, dmg) ==
  FlattenSeq([i \in DOMAIN HRegions(L, dmg) |-> Subregions(HRegions(L, dmg)[i], dmg)])

\* Every pixel of the screen is in one subregion of one horizontal region.
LEMMA TilesRight ==
  ASSUME NEW L, Stack(L), NEW dmg \in OnScreen, NEW p \in Pixels
  PROVE  /\ \A j \in DOMAIN Tiles(L, dmg) : Tile(L, dmg, Tiles(L, dmg)[j])
         /\ \E j \in DOMAIN Tiles(L, dmg) : {i \in DOMAIN Tiles(L, dmg) : InRect(p, Tiles(L, dmg)[i])} = {j}
<1> DEFINE H == HRegions(L, dmg)
           seqs == [i \in DOMAIN H |-> Subregions(H[i], dmg)]
           f == Tiles(L, dmg)
           S == Elements(YArray(L, dmg))
           m == Cardinality(S)
<1>1. DOMAIN H = 1 .. m - 1 /\ m - 1 \in Nat
  <2>1. Pieces(Ascending(S), m, S, Height) /\ DOMAIN H = 1 .. m - 1
    BY HRegionsRight
  <2>2. 0 \in 0 .. Height - 1
    BY Screen
  <2>3. \E i \in 1 .. m - 1 : TRUE
    BY <2>1, <2>2 DEF Pieces
  <2>4. m \in Nat
    BY <2>1 DEF Pieces
  <2> QED
    BY <2>1, <2>3, <2>4
<1> DEFINE n == m - 1
<1>2. \A i \in 1 .. n : /\ seqs[i] \in Seq(OnScreen) /\ seqs[i] = Subregions(H[i], dmg)
                        /\ \A s \in DOMAIN seqs[i] : Tile(L, dmg, seqs[i][s])
  BY <1>1, TileRight
<1>3. f = FlattenSeq(seqs)
  BY DEF Tiles
<1>4. /\ \E i \in 1 .. n : \E s \in DOMAIN seqs[i] : InRect(p, seqs[i][s])
      /\ \A i, j \in 1 .. n : \A s \in DOMAIN seqs[i] : \A t \in DOMAIN seqs[j] :
           InRect(p, seqs[i][s]) /\ InRect(p, seqs[j][t]) => i = j /\ s = t
  <2>1. /\ \E i \in DOMAIN H : \E s \in DOMAIN Subregions(H[i], dmg) : InRect(p, Subregions(H[i], dmg)[s])
        /\ \A i, j \in DOMAIN H :
           \A s \in DOMAIN Subregions(H[i], dmg) : \A t \in DOMAIN Subregions(H[j], dmg) :
             InRect(p, Subregions(H[i], dmg)[s]) /\ InRect(p, Subregions(H[j], dmg)[t]) => i = j /\ s = t
    BY OneTile
  <2>2. \A i \in DOMAIN H : seqs[i] = Subregions(H[i], dmg)
    OBVIOUS
  <2>3. DOMAIN H = 1 .. n
    BY <1>1
  <2> HIDE DEF seqs, H, n
  <2>4. \E i \in 1 .. n : \E s \in DOMAIN seqs[i] : InRect(p, seqs[i][s])
    BY <2>1, <2>2, <2>3
  <2>5. ASSUME NEW i \in 1 .. n, NEW j \in 1 .. n, NEW s \in DOMAIN seqs[i], NEW t \in DOMAIN seqs[j],
               InRect(p, seqs[i][s]), InRect(p, seqs[j][t])
        PROVE  i = j /\ s = t
    <3>1. seqs[i] = Subregions(H[i], dmg) /\ seqs[j] = Subregions(H[j], dmg)
      BY <2>2, <2>3
    <3> QED
      BY <2>1, <2>3, <2>5, <3>1
  <2> QED
    BY <2>4, <2>5
<1>5. seqs = [i \in 1 .. n |-> seqs[i]]
  BY <1>1
<1> HIDE DEF n, seqs, f
<1>6. seqs \in [1 .. n -> Seq(OnScreen)] /\ n \in Nat
  BY <1>1, <1>2, <1>5 DEF n
<1>7. /\ f \in Seq(OnScreen)
      /\ \E off \in [0 .. n -> Nat] : Laid(f, seqs, n, off)
  BY ONLY <1>3, <1>6, Flattened
<1>8. PICK off \in [0 .. n -> Nat] : Laid(f, seqs, n, off)
  BY <1>7
<1>9. DOMAIN f = 1 .. Len(f) /\ \A i \in 1 .. n : DOMAIN seqs[i] = 1 .. Len(seqs[i])
  BY <1>6, <1>7
<1>10. ASSUME NEW j \in DOMAIN f
       PROVE  \E i \in 1 .. n : \E s \in DOMAIN seqs[i] : j = off[i - 1] + s /\ f[j] = seqs[i][s]
  BY <1>8, <1>9 DEF Laid
<1>11. \A j \in DOMAIN f : Tile(L, dmg, f[j])
  BY <1>2, <1>10
<1>12. PICK i \in 1 .. n : \E s \in DOMAIN seqs[i] : InRect(p, seqs[i][s])
  BY <1>4
<1>13. PICK s \in DOMAIN seqs[i] : InRect(p, seqs[i][s])
  BY <1>12
<1> DEFINE j == off[i - 1] + s
<1>14. j \in DOMAIN f /\ f[j] = seqs[i][s]
  BY <1>8, <1>9 DEF Laid
<1>15. ASSUME NEW c \in DOMAIN f, InRect(p, f[c])
       PROVE  c = j
  <2>1. PICK a \in 1 .. n : \E t \in DOMAIN seqs[a] : c = off[a - 1] + t /\ f[c] = seqs[a][t]
    BY <1>10
  <2>2. PICK t \in DOMAIN seqs[a] : c = off[a - 1] + t /\ f[c] = seqs[a][t]
    BY <2>1
  <2>3. InRect(p, seqs[a][t])
    BY <1>15, <2>2
  <2>4. a = i /\ t = s
    BY <1>4, <1>13, <2>3
  <2> QED
    BY <2>2, <2>4
<1> HIDE DEF j
<1>16. {c \in DOMAIN f : InRect(p, f[c])} = {j}
  BY <1>13, <1>14, <1>15
<1> QED
  BY <1>11, <1>14, <1>16 DEF f

\* Of every frame the blitter draws and every damaged area, the subregions cover
\* each pixel of the screen once, each of them inside or outside of a layer.
THEOREM RegionsCover == Spec => []RegionsTile
<1>1. RgzInv => RegionsTile
  <2> DEFINE L == rgz.cur
  <2> SUFFICES ASSUME RgzInv, drawn = "blitter", NEW dmg \in Areas, NEW p \in Pixels
               PROVE  LET hs == HRegions(L, dmg)
                          subs == FlattenSeq([i \in DOMAIN hs |-> Subregions(hs[i], dmg)])
                          around == {i \in DOMAIN subs : InRect(p, subs[i])}
                      IN  /\ Cardinality(around) = 1
                          /\ \A i \in around, r \in Frames(L) \cup {dmg} :
                               InRect(p, r) <=> Intersects(subs[i], r)
    BY DEF RegionsTile
  <2>1. Stack(L) /\ dmg \in OnScreen
    BY LastFrame, AreasRight
  <2> HIDE DEF L
  <2> DEFINE subs == Tiles(L, dmg)
             around == {i \in DOMAIN subs : InRect(p, subs[i])}
  <2>2. /\ \A j \in DOMAIN subs : Tile(L, dmg, subs[j])
        /\ \E j \in DOMAIN subs : around = {j}
    BY <2>1, TilesRight
  <2> HIDE DEF subs
  <2>3. Cardinality(around) = 1
    BY <2>2, FS_Singleton
  <2>4. ASSUME NEW i \in around, NEW r \in Frames(L) \cup {dmg}
        PROVE  InRect(p, r) <=> Intersects(subs[i], r)
    <3> DEFINE s == subs[i]
    <3>1. Tile(L, dmg, s) /\ InRect(p, s)
      BY <2>2
    <3> HIDE DEF s
    <3>2. p[1] \in Int /\ p[2] \in Int
      BY DEF Pixels
    <3>3. r.left \in Int /\ r.top \in Int /\ r.right \in Int /\ r.bottom \in Int
      <4>1. CASE r = dmg
        BY <2>1, <4>1, Screen DEF IntRect
      <4>2. CASE r \in Frames(L)
        <5>1. PICK c \in 1 .. Len(L) : r = L[c].frame
          BY <2>1, <4>2 DEF Frames, Stack
        <5> QED
          BY <2>1, <5>1, StackFrame
      <4> QED
        BY <4>1, <4>2
    <3>4. s.left \in Int /\ s.top \in Int /\ s.right \in Int /\ s.bottom \in Int
      BY <3>1, Screen DEF Tile, OnScreen
    <3>5. s.left <= p[1] /\ p[1] < s.right /\ s.top <= p[2] /\ p[2] < s.bottom
      BY <3>1 DEF InRect
    <3>6. InRect(p, r) => Intersects(s, r)
      BY <3>2, <3>3, <3>4, <3>5 DEF InRect, Intersects
    <3>7. Intersects(s, r) => InRect(p, r)
      <4>1. Intersects(s, r) => Within(s, r)
        BY <3>1 DEF Tile
      <4> QED
        BY <3>2, <3>3, <3>4, <3>5, <4>1 DEF InRect, Within
    <3> QED
      BY <3>6, <3>7 DEF s
  <2> QED
    BY <2>3, <2>4 DEF subs, Tiles
<1> QED
  BY <1>1, RegionizerStates, PTL

-----------------------------------------------------------------------------
(* Buffers.                                                                 *)

\* The places of a sequence can be counted.
LEMMA CountIsNat ==
  ASSUME NEW n \in Int, NEW A \in SUBSET (1 .. n)
  PROVE  IsFiniteSet(A) /\ Cardinality(A) \in Nat
<1>1. IsFiniteSet(1 .. n)
  BY FS_Interval
<1>2. IsFiniteSet(A)
  BY <1>1, FS_Subset
<1> QED
  BY <1>2, FS_CardinalityType

\* Moving places up by one does not change how many they are.
LEMMA ShiftedCount ==
  ASSUME NEW n \in Nat, NEW A \in SUBSET (1 .. n)
  PROVE  Cardinality({j + 1 : j \in A}) = Cardinality(A)
<1> DEFINE B == {j + 1 : j \in A}
           f == [j \in A |-> j + 1]
<1>1. IsFiniteSet(A)
  <2>1. n \in Int /\ A \in SUBSET (1 .. n)
    OBVIOUS
  <2> QED
    BY ONLY <2>1, CountIsNat
<1>2. f \in Bijection(A, B)
  <2>1. f \in [A -> B] /\ \A b \in B : \E a \in A : f[a] = b
    OBVIOUS
  <2>2. \A a, b \in A : f[a] = f[b] => a = b
    OBVIOUS
  <2> QED
    BY <2>1, <2>2 DEF Bijection, Injection, Surjection, IsInjective
<1>3. ExistsBijection(A, B)
  BY <1>2 DEF ExistsBijection
<1> HIDE DEF B
<1>4. Cardinality(A) = Cardinality(B)
  BY <1>1, <1>3, FS_Bijection
<1> QED
  BY <1>4 DEF B

\* The gap that hwc_set closes: the place of the framebuffer.
LEMMA GapClosed ==
  ASSUME NEW V, NEW x \in V, NEW a \in Seq(V), NEW b \in Seq(V)
  PROVE  LET t == Tail((<<x>> \o a) \o b)
         IN  Len(t) = Len(a) + Len(b) /\ \A k \in 1 .. Len(b) : t[Len(a) + k] = b[k]
<1> DEFINE u == (<<x>> \o a) \o b
           t == Tail(u)
<1>1. /\ u \in Seq(V) /\ Len(u) = 1 + Len(a) + Len(b)
      /\ \A k \in 1 .. Len(b) : u[1 + Len(a) + k] = b[k]
  <2> DEFINE w == <<x>> \o a
  <2>1. w \in Seq(V) /\ Len(w) = 1 + Len(a)
    OBVIOUS
  <2> HIDE DEF w
  <2>2. w \o b \in Seq(V) /\ Len(w \o b) = Len(w) + Len(b) /\ \A k \in 1 .. Len(b) : (w \o b)[Len(w) + k] = b[k]
    BY <2>1
  <2> QED
    BY <2>1, <2>2 DEF w
<1> HIDE DEF u
<1>2. t = Tail(u) /\ u # <<>>
  BY <1>1
<1> HIDE DEF t
<1>3. Len(t) = Len(u) - 1 /\ \A k \in 1 .. Len(u) - 1 : t[k] = u[k + 1]
  <2>1. u \in Seq(V) /\ u # <<>>
    BY <1>1, <1>2
  <2>2. Len(Tail(u)) = Len(u) - 1
    BY <2>1
  <2>3. \A k \in 1 .. Len(u) - 1 : Tail(u)[k] = u[k + 1]
    BY <2>1
  <2> QED
    BY <1>2, <2>2, <2>3
<1>4. ASSUME NEW k \in 1 .. Len(b)
      PROVE  t[Len(a) + k] = b[k]
  <2>1. Len(a) + k \in 1 .. Len(u) - 1 /\ (Len(a) + k) + 1 = 1 + Len(a) + k
    BY <1>1
  <2> QED
    BY <1>1, <1>3, <2>1
<1>5. Len(a) \in Nat /\ Len(b) \in Nat
  OBVIOUS
<1>6. Len(t) = Len(a) + Len(b)
  BY <1>1, <1>3, <1>5
<1> QED
  BY <1>4, <1>6 DEF t, u

\* The buffers to blit among the layers: which, and how many come before one.
LEMMA OwnBuffer ==
  ASSUME RgzInv, drawn = "blitter", NEW i \in 1 .. Len(rgz.cur), rgz.cur[i].buf >= 0
  PROVE  /\ BlitHandles(rgz) \in Seq(Ids \X Int)
         /\ rgz.cur[i].buf - Len(Overlays(list)) + 1 \in 1 .. Len(BlitHandles(rgz))
         /\ BlitHandles(rgz)[rgz.cur[i].buf - Len(Overlays(list)) + 1]
              = <<rgz.cur[i].id, handle[rgz.cur[i].id]>>
<1> DEFINE cur == rgz.cur
           c == Candidates(list)
           n == Len(c)
           O == {j \in DOMAIN cur : cur[j].buf >= 0}
           own == Chosen(cur, O)
           w == Len(Overlays(list))
           L == RgzLayers(list, handle)
<1>1. /\ list \in Inputs /\ handle \in [Ids -> {0, 1}] /\ Stack(cur) /\ Len(cur) = Len(L)
      /\ \A j \in 1 .. Len(cur) : cur[j].id = L[j].id /\ cur[j].buf = L[j].buf /\ cur[j].handle = L[j].handle
  BY LastFrame
<1>2. /\ Len(L) = n + 1 /\ n \in Nat /\ w \in Nat
      /\ \A j \in 1 .. n : L[j + 1] = Described(c, j, list, handle)
  BY <1>1, LayersRight, InputRight
<1>3. /\ cur \in Seq(RgzLayer) /\ DOMAIN cur = 1 .. n + 1 /\ cur[1].buf = BackgroundBuf
      /\ \A j \in 2 .. n + 1 : cur[j].id \in Ids
      /\ \A j \in 1 .. n + 1 : cur[j] \in RgzLayer
      /\ i \in DOMAIN cur /\ cur[i].buf >= 0
  BY <1>1, <1>2 DEF Stack
<1>4. \A j \in 1 .. n : c[j].dss \in BOOLEAN
  BY <1>1, InputRight
<1> HIDE DEF cur, L, w, c, n
<1>5. ASSUME NEW j \in 1 .. n
      PROVE  /\ cur[j + 1].buf = IF c[j].dss THEN ClearHintBuf ELSE w + Cardinality({k \in 1 .. j - 1 : ~c[k].dss})
             /\ cur[j + 1].id = c[j].id
             /\ cur[j + 1].handle = IF c[j].dss THEN Dummy ELSE handle[c[j].id]
  <2>1. j + 1 \in 1 .. Len(cur) /\ L[j + 1] = Described(c, j, list, handle)
    BY <1>1, <1>2
  <2>2. cur[j + 1].buf = L[j + 1].buf /\ cur[j + 1].id = L[j + 1].id /\ cur[j + 1].handle = L[j + 1].handle
    BY <1>1, <2>1
  <2>3. /\ Described(c, j, list, handle).id = c[j].id
        /\ Described(c, j, list, handle).handle = IF c[j].dss THEN Dummy ELSE handle[c[j].id]
        /\ Described(c, j, list, handle).buf = IF c[j].dss THEN ClearHintBuf
              ELSE w + Cardinality({k \in 1 .. j - 1 : ~c[k].dss})
    BY DEF Described, w
  <2> QED
    BY <2>1, <2>2, <2>3
<1>6. ASSUME NEW j \in 1 .. n
      PROVE  cur[j + 1].buf >= 0 <=> ~c[j].dss
  <2>1. CASE c[j].dss
    <3>1. cur[j + 1].buf = ClearHintBuf
      BY <1>5, <2>1
    <3> QED
      BY <2>1, <3>1 DEF ClearHintBuf
  <2>2. CASE ~c[j].dss
    <3> DEFINE A == {k \in 1 .. j - 1 : ~c[k].dss}
    <3>1. Cardinality(A) \in Nat
      <4>1. A \in SUBSET (1 .. j - 1) /\ j - 1 \in Int
        OBVIOUS
      <4> HIDE DEF A
      <4> QED
        BY <4>1, CountIsNat
    <3> HIDE DEF A
    <3>2. cur[j + 1].buf = w + Cardinality(A)
      BY <1>5, <2>2 DEF A
    <3> QED
      BY <1>2, <2>2, <3>1, <3>2
  <2> QED
    BY <2>1, <2>2
<1>7. \A x : x \in O <=> \E j \in 1 .. n : x = j + 1 /\ ~c[j].dss
  <2>1. ASSUME NEW x \in O
        PROVE  \E j \in 1 .. n : x = j + 1 /\ ~c[j].dss
    <3>1. x # 1 /\ x \in 1 .. n + 1 /\ cur[x].buf >= 0
      BY <1>3 DEF BackgroundBuf
    <3>2. x - 1 \in 1 .. n /\ x = (x - 1) + 1
      BY <1>2, <3>1
    <3> QED
      BY <1>6, <3>1, <3>2
  <2>2. ASSUME NEW j \in 1 .. n, ~c[j].dss
        PROVE  j + 1 \in O
    <3>1. j + 1 \in 1 .. n + 1
      BY <1>2
    <3> QED
      BY <1>3, <1>6, <2>2, <3>1
  <2> QED
    BY <2>1, <2>2
<1>8. O \in SUBSET (1 .. n + 1) /\ n + 1 \in Nat
  BY <1>2, <1>3
<1>9. i \in O
  <2>1. i \in DOMAIN cur /\ cur[i].buf >= 0
    BY <1>3
  <2> QED
    BY <2>1, Zenon
<1>10. BlitHandles(rgz) = [k \in DOMAIN own |-> <<own[k].id, own[k].handle>>]
  BY DEF BlitHandles, cur
<1> HIDE DEF O, own
<1>11. Picks(own, cur, O)
  BY <1>8, ChosenRight DEF own
<1> DEFINE a == Cardinality(O)
<1>12. a \in Nat /\ DOMAIN own = 1 .. a /\ \A k \in 1 .. a : \E j \in O : own[k] = cur[j]
  BY <1>11 DEF Picks
<1>13. Below(O, i) + 1 \in 1 .. a /\ own[Below(O, i) + 1] = cur[i]
  BY <1>9, <1>11 DEF Picks
<1> HIDE DEF a
<1>14. PICK j \in 1 .. n : i = j + 1 /\ ~c[j].dss
  BY <1>7, <1>9
<1>15. Below(O, i) = Cardinality({k \in 1 .. j - 1 : ~c[k].dss})
  <2> DEFINE A == {k \in 1 .. j - 1 : ~c[k].dss}
  <2>1. {y \in O : y < i} = {k + 1 : k \in A}
    <3>1. ASSUME NEW y \in O, y < i
          PROVE  y \in {k + 1 : k \in A}
      <4>1. PICK k \in 1 .. n : y = k + 1 /\ ~c[k].dss
        BY <1>7
      <4>2. k \in 1 .. j - 1
        BY <1>14, <3>1, <4>1
      <4> QED
        BY <4>1, <4>2
    <3>2. ASSUME NEW k \in A
          PROVE  k + 1 \in O /\ k + 1 < i
      <4>1. k \in 1 .. n /\ k + 1 < i
        BY <1>2, <1>14
      <4> QED
        BY <1>7, <4>1
    <3> QED
      BY <3>1, <3>2
  <2>2. A \in SUBSET (1 .. j - 1) /\ j - 1 \in Nat
    OBVIOUS
  <2> HIDE DEF A
  <2>3. Cardinality({k + 1 : k \in A}) = Cardinality(A)
    BY <2>2, ShiftedCount
  <2> QED
    BY <2>1, <2>3 DEF A, Below
<1>16. cur[i].buf = w + Below(O, i) /\ cur[i].handle = handle[cur[i].id]
  BY <1>5, <1>14, <1>15
<1>17. \A k \in 1 .. a : own[k].id \in Ids /\ own[k].handle \in Int
  <2>1. ASSUME NEW y \in O
        PROVE  cur[y].id \in Ids /\ cur[y].handle \in Int
    <3>1. y \in 2 .. n + 1 /\ y \in DOMAIN cur
      BY <1>2, <1>3, <1>7
    <3>2. cur[y] \in RgzLayer
      BY <1>3, <3>1
    <3> QED
      BY <1>3, <3>1, <3>2 DEF RgzLayer
  <2> QED
    BY <1>12, <2>1
<1>18. BlitHandles(rgz) \in Seq(Ids \X Int) /\ Len(BlitHandles(rgz)) = a
  BY <1>10, <1>12, <1>17
<1> DEFINE b == Below(O, i)
<1>19. b + 1 \in 1 .. a
  BY <1>13
<1>20. BlitHandles(rgz)[b + 1] = <<cur[i].id, handle[cur[i].id]>>
  BY <1>10, <1>12, <1>13, <1>16
<1>21. b \in Int
  <2>1. IsFiniteSet({y \in O : y < i})
    <3>1. IsFiniteSet(O)
      BY <1>11 DEF Picks
    <3> QED
      BY <3>1, FS_Subset
  <2> QED
    BY <2>1, FS_CardinalityType DEF Below
<1>22. cur[i].buf = w + b
  BY <1>16
<1> HIDE DEF b
<1>23. cur[i].buf - w + 1 = b + 1
  BY <1>2, <1>21, <1>22
<1> QED
  BY <1>18, <1>19, <1>20, <1>23 DEF cur, w

\* The command's buffer index finds the layer's buffer among those posted, of
\* every list of layers and whichever overlays come before the buffers to blit.
THEOREM BuffersFound == Spec => []BuffersMatch
<1>1. RgzInv => BuffersMatch
  <2> DEFINE cur == rgz.cur
             h == BlitHandles(rgz)
             o == Overlays(list)
             p == [k \in DOMAIN o |-> <<o[k].id, handle[o[k].id]>>]
             b == PostedBuffers(rgz, list, handle)
  <2> SUFFICES ASSUME RgzInv, drawn = "blitter", NEW i \in DOMAIN cur, cur[i].buf >= 0
               PROVE  cur[i].buf < Len(b) /\ b[cur[i].buf + 1] = <<cur[i].id, handle[cur[i].id]>>
    BY DEF BuffersMatch
  <2>1. Stack(cur) /\ list \in Inputs /\ handle \in [Ids -> {0, 1}]
    BY LastFrame
  <2>2. i \in 1 .. Len(cur) /\ cur[i] \in RgzLayer
    BY <2>1 DEF Stack
  <2>3. cur[i].buf \in Int
    BY <2>2 DEF RgzLayer
  <2> DEFINE e == cur[i].buf - Len(o) + 1
  <2>4. h \in Seq(Ids \X Int) /\ e \in 1 .. Len(h) /\ h[e] = <<cur[i].id, handle[cur[i].id]>>
    BY <2>2, OwnBuffer
  <2>5. o \in Seq(HwcLayer) /\ Len(o) \in Nat
    BY <2>1, InputRight
  <2>6. h # <<>>
    BY <2>4
  <2>7. CASE o = <<>>
    <3>1. b = <<>> \o h /\ Len(o) = 0
      BY <2>7 DEF PostedBuffers, PreparedBuffers
    <3> HIDE DEF b, h, o, cur
    <3>2. b = h
      BY <2>4, <3>1
    <3>3. e = cur[i].buf + 1
      BY <2>3, <3>1
    <3> QED
      BY <2>3, <2>4, <3>2, <3>3
  <2>8. CASE o # <<>>
    <3>1. b = Tail((<<"framebuffer">> \o p) \o h)
      BY <2>6, <2>8 DEF PostedBuffers, PreparedBuffers
    <3> DEFINE V == {"framebuffer"} \cup (Ids \X Int)
    <3>2. "framebuffer" \in V /\ h \in Seq(V)
      BY <2>4
    <3>3. p \in Seq(V) /\ Len(p) = Len(o)
      <4>1. ASSUME NEW k \in DOMAIN o
            PROVE  o[k].id \in Ids /\ handle[o[k].id] \in Int
        <5>1. o[k] \in HwcLayer
          BY <2>5
        <5> QED
          BY <2>1, <5>1 DEF HwcLayer
      <4>2. DOMAIN o = 1 .. Len(o)
        BY <2>5
      <4>3. \A k \in 1 .. Len(o) : <<o[k].id, handle[o[k].id]>> \in V
        BY <4>1, <4>2
      <4> HIDE DEF V
      <4> QED
        BY <2>5, <4>2, <4>3
    <3> HIDE DEF V, b, p, h, o, cur
    <3>4. Len(b) = Len(p) + Len(h) /\ \A k \in 1 .. Len(h) : b[Len(p) + k] = h[k]
      <4>1. p \in Seq(V)
        BY <3>3
      <4>2. h \in Seq(V)
        BY <3>2
      <4>3. "framebuffer" \in V
        BY <3>2
      <4> DEFINE x == "framebuffer"
      <4>4. b = Tail((<<x>> \o p) \o h) /\ x \in V
        BY <3>1, <4>3
      <4> HIDE DEF x
      <4>5. LET t == Tail((<<x>> \o p) \o h)
            IN  Len(t) = Len(p) + Len(h) /\ \A k \in 1 .. Len(h) : t[Len(p) + k] = h[k]
        BY ONLY <4>1, <4>2, <4>4, GapClosed
      <4> QED
        BY <4>4, <4>5
    <3>5. Len(p) + e = cur[i].buf + 1 /\ Len(h) \in Nat
      BY <2>3, <2>4, <2>5, <3>3
    <3>6. b[Len(p) + e] = h[e]
      BY <2>4, <3>4
    <3>7. b[cur[i].buf + 1] = <<cur[i].id, handle[cur[i].id]>>
      BY <2>4, <3>5, <3>6
    <3>8. cur[i].buf < Len(b)
      <4>1. e <= Len(h) /\ e \in Int /\ Len(p) \in Int
        BY <2>4, <2>5, <3>3, <3>5
      <4> QED
        BY <2>3, <3>4, <3>5, <4>1
    <3> QED
      BY <3>7, <3>8
  <2> QED
    BY <2>7, <2>8
<1> QED
  BY <1>1, RegionizerStates, PTL

-----------------------------------------------------------------------------
(* What is blitted in a subregion.                                          *)

\* The layers of a horizontal region: a stack of the frame's.
LEMMA RegionLayers ==
  ASSUME NEW L, Stack(L), NEW dmg \in OnScreen, NEW i \in DOMAIN HRegions(L, dmg)
  PROVE  /\ Stack(HRegions(L, dmg)[i].layers)
         /\ \A k \in 1 .. Len(HRegions(L, dmg)[i].layers) : \E j \in 1 .. Len(L) :
              HRegions(L, dmg)[i].layers[k] = L[j]
<1> DEFINE S == Elements(YArray(L, dmg))
           ys == Ascending(S)
           m == Cardinality(S)
           h == HRegions(L, dmg)[i]
           q == Strip(ys, i)
<1>1. Pieces(ys, m, S, Height)
  BY HRegionsRight
<1>2. i \in 1 .. m - 1 /\ h = [rect |-> Strip(ys, i), layers |-> Meeting(L, Strip(ys, i))]
  <2>1. HRegions(L, dmg) = [j \in 1 .. m - 1 |-> [rect |-> Strip(ys, j), layers |-> Meeting(L, Strip(ys, j))]]
    BY HRegionsRight
  <2> HIDE DEF ys, m
  <2> QED
    BY <2>1
<1> HIDE DEF ys, m, h, S
<1>3. ys[i] \in 0 .. Height /\ ys[i + 1] \in 0 .. Height /\ ys[i] < ys[i + 1]
  BY <1>1, <1>2 DEF Pieces
<1>4. q.top = ys[i] /\ q.bottom = ys[i + 1] /\ q.left = 0 /\ q.right = Width
  BY DEF Strip, Rect
<1>5. Intersects(q, ScreenRect)
  BY <1>3, <1>4, Screen DEF Intersects, ScreenRect, Rect
<1>6. h.layers = Meeting(L, q)
  BY <1>2
<1> HIDE DEF q
<1>7. /\ Stack(Meeting(L, q))
      /\ \A k \in 1 .. Len(Meeting(L, q)) : \E j \in 1 .. Len(L) : Meeting(L, q)[k] = L[j]
  BY <1>5, MeetingRight
<1> QED
  BY <1>6, <1>7 DEF h

\* get_layer_ops leaves at least one layer, each of them of the region and meeting the
\* subregion; all but the first one have a buffer.
LEMMA OpsRight ==
  ASSUME NEW h, Stack(h.layers), NEW sub, Intersects(sub, ScreenRect)
  PROVE  /\ LayerOps(h, sub) \in Seq(RgzLayer) /\ Len(LayerOps(h, sub)) > 0
         /\ \A i \in 1 .. Len(LayerOps(h, sub)) : \E j \in 1 .. Len(h.layers) :
              LayerOps(h, sub)[i] = h.layers[j] /\ Intersects(sub, h.layers[j].frame)
         /\ LayerOps(h, sub)[1].buf >= 0 => LayerOps(h, sub)[1].id \in Ids
         /\ \A i \in 2 .. Len(LayerOps(h, sub)) :
              LayerOps(h, sub)[i].buf >= 0 /\ LayerOps(h, sub)[i].id \in Ids
<1> DEFINE here == Meeting(h.layers, sub)
           n == Len(here)
           base == {i \in DOMAIN here : Opaque(here[i])}
           b == IF base = {} THEN 1 ELSE Max(base)
           ops == LayerOps(h, sub)
<1>1. /\ Stack(here)
      /\ \A k \in 1 .. n : \E i \in 1 .. Len(h.layers) :
           here[k] = h.layers[i] /\ Intersects(sub, h.layers[i].frame)
  BY MeetingRight
<1>2. ops = SubSeq(here, b, n)
  BY DEF LayerOps
<1> HIDE DEF here, ops
<1>3. /\ here \in Seq(RgzLayer) /\ n \in Nat /\ n > 0 /\ DOMAIN here = 1 .. n
      /\ here[1].buf = BackgroundBuf
      /\ \A i \in 2 .. n : here[i].id \in Ids
  BY <1>1 DEF Stack
<1>4. 1 \in base
  BY <1>3 DEF Opaque, BackgroundBuf
<1>5. base \in SUBSET (1 .. n)
  BY <1>3
<1>6. b \in 1 .. n /\ b \in base /\ \A y \in base : y <= b
  <2>1. IsFiniteSet(base) /\ base # {} /\ base \in SUBSET Int
    <3>1. n \in Int /\ base \in SUBSET (1 .. n)
      BY <1>3, <1>5
    <3>2. IsFiniteSet(base)
      BY ONLY <3>1, CountIsNat
    <3> QED
      BY <1>4, <1>5, <3>2
  <2> HIDE DEF base
  <2>2. Max(base) \in base /\ \A y \in base : y <= Max(base)
    BY <2>1, FiniteEnds
  <2> QED
    BY <1>5, <2>1, <2>2
<1> HIDE DEF b
<1>7. ops \in Seq(RgzLayer) /\ Len(ops) = n - b + 1 /\ \A i \in 1 .. n - b + 1 : ops[i] = here[b + i - 1]
  <2>1. b \in Int /\ n \in Int /\ 1 <= b /\ b <= n /\ here \in Seq(RgzLayer) /\ Len(here) = n
    BY <1>3, <1>6
  <2> HIDE DEF n
  <2>2. SubSeq(here, b, n) \in Seq(RgzLayer) /\ Len(SubSeq(here, b, n)) = n - b + 1
    BY <2>1
  <2>3. \A i \in 1 .. n - b + 1 : SubSeq(here, b, n)[i] = here[b + i - 1]
    BY <2>1
  <2> QED
    BY <1>2, <2>2, <2>3
<1>8. ASSUME NEW i \in 1 .. Len(ops)
      PROVE  b + i - 1 \in 1 .. n /\ ops[i] = here[b + i - 1]
  BY <1>3, <1>6, <1>7
<1>9. ASSUME NEW i \in 2 .. Len(ops)
      PROVE  ops[i].buf >= 0 /\ ops[i].id \in Ids
  <2>1. i \in 1 .. Len(ops)
    OBVIOUS
  <2>2. b + i - 1 \in 2 .. n /\ ops[i] = here[b + i - 1] /\ ~(b + i - 1 <= b)
    BY <1>6, <1>8, <2>1
  <2>3. b + i - 1 \notin base /\ b + i - 1 \in DOMAIN here
    BY <1>3, <1>6, <2>2
  <2>4. ~(ops[i].buf < 0)
    BY <2>2, <2>3 DEF Opaque
  <2>5. ops[i] \in RgzLayer
    BY <1>7, <2>1
  <2>6. ops[i].buf \in Int
    BY <2>5 DEF RgzLayer
  <2> QED
    BY <1>3, <2>2, <2>4, <2>6
<1>10. Len(ops) > 0
  BY <1>3, <1>6, <1>7
<1>11. ops[1].buf >= 0 => ops[1].id \in Ids
  <2>1. ops[1] = here[b]
    <3>1. b \in Int /\ n \in Int /\ b <= n /\ b + 1 - 1 = b
      BY <1>3, <1>6
    <3>2. 1 \in 1 .. n - b + 1
      BY <3>1
    <3>3. ops[1] = here[b + 1 - 1]
      BY <1>7, <3>2
    <3> QED
      BY <3>1, <3>3
  <2>2. b = 1 \/ b \in 2 .. n
    BY <1>6
  <2> QED
    BY <1>3, <2>1, <2>2 DEF BackgroundBuf
<1>12. \A i \in 1 .. Len(ops) : \E j \in 1 .. Len(h.layers) :
         ops[i] = h.layers[j] /\ Intersects(sub, h.layers[j].frame)
  BY <1>1, <1>8
<1> QED
  BY <1>7, <1>9, <1>10, <1>11, <1>12 DEF ops

-----------------------------------------------------------------------------
(* A still screen.                                                          *)

\* A layer is in a frame once.
LEMMA OnceInFrame ==
  ASSUME RgzInv, drawn = "blitter", NEW i \in 2 .. Len(rgz.cur), NEW j \in 2 .. Len(rgz.cur),
         rgz.cur[i].id = rgz.cur[j].id
  PROVE  i = j
<1> DEFINE l == list
           L == RgzLayers(list, handle)
           n == Len(l)
           C == {k \in DOMAIN l : ~l[k].dss \/ HasClearHint(l[k], l)}
           c == Candidates(list)
           a == Ascending(C)
<1>1. /\ list \in Inputs /\ handle \in [Ids -> {0, 1}] /\ Len(rgz.cur) = Len(L)
      /\ \A k \in 1 .. Len(rgz.cur) : rgz.cur[k].id = L[k].id
  BY LastFrame
<1>2. /\ Len(L) = Len(c) + 1 /\ Len(c) \in Nat
      /\ \A k \in 1 .. Len(c) : L[k + 1] = Described(c, k, list, handle)
  BY <1>1, LayersRight, InputRight
<1>3. /\ DOMAIN l = 1 .. n /\ n \in Nat
      /\ \A k, m \in 1 .. n : l[k].id = l[m].id => k = m
  <2>1. l \in Seq(HwcLayer)
    BY <1>1, InputRight
  <2> QED
    BY <1>1, <2>1, InputRight
<1>4. c = Chosen(l, C) /\ C \in SUBSET (1 .. n)
  BY <1>3 DEF Candidates
<1> HIDE DEF C, c, l, L, n
<1>5. Picks(c, l, C)
  BY <1>3, <1>4, ChosenRight
<1> HIDE DEF a
<1>6. /\ Cardinality(C) \in Nat /\ c = [k \in 1 .. Cardinality(C) |-> l[a[k]]]
      /\ \A k \in 1 .. Cardinality(C) : a[k] \in C
      /\ \A k, m \in 1 .. Cardinality(C) : k < m => a[k] < a[m]
  BY <1>5 DEF Picks, a
<1>7. Len(c) = Cardinality(C) /\ \A k \in 1 .. Len(c) : c[k] = l[a[k]] /\ a[k] \in 1 .. n
  BY <1>4, <1>6
<1>8. ASSUME NEW k \in 1 .. Len(c)
      PROVE  rgz.cur[k + 1].id = l[a[k]].id
  <2>1. k + 1 \in 1 .. Len(rgz.cur) /\ L[k + 1] = Described(c, k, list, handle)
    BY <1>1, <1>2
  <2>2. Described(c, k, list, handle).id = c[k].id
    BY DEF Described
  <2> QED
    BY <1>1, <1>7, <2>1, <2>2
<1>9. i - 1 \in 1 .. Len(c) /\ j - 1 \in 1 .. Len(c) /\ i = (i - 1) + 1 /\ j = (j - 1) + 1
  BY <1>1, <1>2
<1>10. l[a[i - 1]].id = l[a[j - 1]].id
  BY <1>8, <1>9
<1>11. a[i - 1] = a[j - 1] /\ a[i - 1] \in Int
  BY <1>3, <1>7, <1>9, <1>10
<1>12. ~(i - 1 < j - 1) /\ ~(j - 1 < i - 1)
  BY <1>6, <1>7, <1>9, <1>11
<1> QED
  BY <1>9, <1>12

\* Concatenating empty sequences gives the empty sequence.
LEMMA NothingFlat ==
  ASSUME NEW n \in Nat, NEW t \in [1 .. n -> {<<>>}]
  PROVE  FlattenSeq(t) = <<>>
<1> DEFINE f == FlattenSeq(t)
<1>1. t \in [1 .. n -> Seq(Int)] /\ \A i \in 1 .. n : t[i] = <<>>
  <2>1. \A i \in 1 .. n : t[i] = <<>>
    OBVIOUS
  <2>2. <<>> \in Seq(Int)
    OBVIOUS
  <2>3. \A i \in 1 .. n : t[i] \in Seq(Int)
    BY <2>1, <2>2
  <2> DEFINE V == Seq(Int)
  <2>4. \A i \in 1 .. n : t[i] \in V
    BY <2>3
  <2> HIDE DEF V
  <2>5. t \in [1 .. n -> V]
    BY <2>4
  <2> QED
    BY <2>1, <2>5 DEF V
<1>2. n \in Nat /\ t \in [1 .. n -> Seq(Int)]
  BY <1>1
<1>3. f \in Seq(Int)
  BY ONLY <1>2, Flattened
<1>4. MadeOf(f, t, n)
  BY ONLY <1>2, FlatElements
<1> HIDE DEF f
<1>5. \A j \in 1 .. Len(f) : \E i \in 1 .. n : \E k \in 1 .. Len(t[i]) : TRUE
  BY <1>4 DEF MadeOf
<1>6. ~(1 \in 1 .. Len(f))
  BY <1>1, <1>5
<1>7. f = <<>>
  BY <1>3, <1>6
<1> QED
  BY <1>7 DEF f

\* Layers that are not dirty cost nothing where nothing is damaged.
LEMMA CleanCostsNothing ==
  ASSUME NEW L, Stack(L), \A i \in 1 .. Len(L) : L[i].dirty = 0
  PROVE  Len(RegionBlits(HRegions(L, EmptyRect), EmptyRect)) = 0
<1> DEFINE dmg == EmptyRect
           H == HRegions(L, dmg)
<1>1. ASSUME NEW i \in DOMAIN H, NEW s \in DOMAIN Subregions(H[i], dmg)
      PROVE  SubregionBlits(H[i], Subregions(H[i], dmg)[s], dmg) = <<>>
  <2> DEFINE sub == Subregions(H[i], dmg)[s]
             h == H[i]
             ops == LayerOps(h, sub)
  <2>1. Tile(L, dmg, sub)
    BY TileRight, Screen
  <2>2. /\ Stack(h.layers)
        /\ \A k \in 1 .. Len(h.layers) : \E j \in 1 .. Len(L) : h.layers[k] = L[j]
    BY RegionLayers, Screen
  <2> HIDE DEF sub, h, dmg
  <2>3. sub \in OnScreen /\ sub.left < sub.right /\ sub.top < sub.bottom
    BY <2>1 DEF Tile
  <2>4. sub.left \in 0 .. Width /\ sub.right \in 0 .. Width /\ sub.top \in 0 .. Height /\ sub.bottom \in 0 .. Height
    BY <2>3 DEF OnScreen
  <2>5. Intersects(sub, ScreenRect)
    BY <2>3, <2>4, Screen DEF Intersects, ScreenRect, Rect
  <2>6. /\ ops \in Seq(RgzLayer)
        /\ \A k \in 1 .. Len(ops) : \E j \in 1 .. Len(h.layers) : ops[k] = h.layers[j]
    BY <2>2, <2>5, OpsRight
  <2>7. ~Intersects(dmg, sub)
    BY <2>4 DEF dmg, Intersects, EmptyRect, Rect
  <2>8. \A k \in DOMAIN ops : ~(ops[k].dirty > 0)
    <3> HIDE DEF ops
    <3>1. DOMAIN ops = 1 .. Len(ops)
      BY <2>6
    <3>2. ASSUME NEW k \in DOMAIN ops
          PROVE  ops[k].dirty = 0
      <4>1. PICK j \in 1 .. Len(h.layers) : ops[k] = h.layers[j]
        BY <2>6, <3>1
      <4>2. PICK m \in 1 .. Len(L) : h.layers[j] = L[m]
        BY <2>2
      <4> QED
        BY <4>1, <4>2
    <3> QED
      BY <3>2
  <2>9. ~Dirty(ops, sub, dmg)
    BY <2>7, <2>8 DEF Dirty
  <2> HIDE DEF ops
  <2>10. LayerOps(h, sub) = ops
    BY DEF ops
  <2>11. SubregionBlits(h, sub, dmg) = <<>>
    BY <2>9, <2>10 DEF SubregionBlits
  <2> QED
    BY <2>11 DEF h, sub, dmg
<1> DEFINE Of(h) == FlattenSeq([s \in DOMAIN Subregions(h, dmg) |-> SubregionBlits(h, Subregions(h, dmg)[s], dmg)])
<1>2. RegionBlits(H, dmg) = FlattenSeq([i \in DOMAIN H |-> Of(H[i])])
  BY DEF RegionBlits
<1>3. dmg \in OnScreen
  BY Screen
<1> HIDE DEF dmg
<1>4. ASSUME NEW i \in DOMAIN H
      PROVE  Of(H[i]) = <<>>
  <2> DEFINE subs == Subregions(H[i], dmg)
             n == Len(subs)
             t == [s \in 1 .. n |-> SubregionBlits(H[i], subs[s], dmg)]
  <2>1. subs \in Seq(OnScreen)
    BY <1>3, TileRight
  <2>2. n \in Nat /\ DOMAIN subs = 1 .. n
    BY <2>1
  <2>3. Of(H[i]) = FlattenSeq(t)
    BY <2>2
  <2>4. \A s \in 1 .. n : SubregionBlits(H[i], subs[s], dmg) = <<>>
    BY <1>1, <2>2 DEF dmg
  <2> HIDE DEF subs, n
  <2>5. t \in [1 .. n -> {<<>>}]
    BY <2>4
  <2> HIDE DEF t, H, Of
  <2>6. FlattenSeq(t) = <<>>
    BY <2>2, <2>5, NothingFlat
  <2> QED
    BY <2>3, <2>6
<1> DEFINE m == Cardinality(Elements(YArray(L, dmg)))
           t == [i \in DOMAIN H |-> Of(H[i])]
<1>5. DOMAIN H = 1 .. m - 1 /\ m \in Nat
  BY <1>3, HRegionsRight DEF Pieces
<1> HIDE DEF Of, H, m
<1>6. PICK n \in Nat : DOMAIN H = 1 .. n
  <2>1. CASE m = 0
    <3>1. 1 .. m - 1 = 1 .. 0
      BY <2>1
    <3> QED
      BY <1>5, <3>1
  <2>2. CASE m # 0
    <3>1. m - 1 \in Nat
      BY <1>5, <2>2
    <3> QED
      BY <1>5, <3>1
  <2> QED
    BY <2>1, <2>2
<1>7. t \in [1 .. n -> {<<>>}]
  BY <1>4, <1>6
<1> HIDE DEF t
<1>8. FlattenSeq(t) = <<>>
  BY <1>7, NothingFlat
<1>9. RegionBlits(H, dmg) = <<>>
  BY <1>2, <1>8 DEF t
<1> QED
  BY <1>9 DEF H, dmg

\* What both framebuffers were left with is found in either.
LEMMA SamePlaces ==
  ASSUME NEW L \in Seq(RgzLayer), NEW T \in Seq(RgzLayer), Placed(L) = Placed(T),
         NEW i \in 1 .. Len(L)
  PROVE  \E j \in 1 .. Len(T) : /\ T[j].id = L[i].id /\ T[j].frame = L[i].frame
                                /\ T[j].handle = L[i].handle /\ T[j].buf = L[i].buf
<1>1. L[i] \in Elements(L)
  BY DEF Elements
<1>2. <<L[i].id, L[i].frame, L[i].handle, L[i].buf>> \in Placed(T)
  BY <1>1 DEF Placed
<1>3. PICK x \in Elements(T) : <<x.id, x.frame, x.handle, x.buf>> = <<L[i].id, L[i].frame, L[i].handle, L[i].buf>>
  BY <1>2 DEF Placed
<1>4. PICK j \in 1 .. Len(T) : x = T[j]
  BY DEF Elements
<1> QED
  BY <1>3, <1>4

\* The frame after one the blitter drew, with the same layers: nothing is damaged
\* and none is dirty.
LEMMA StillFrame ==
  ASSUME RgzInv, drawn = "blitter", blt_mode = "region",
         Placed(rgz.states[0]) = Placed(rgz.states[1]),
         \A i \in DOMAIN rgz.cur : rgz.cur[i].dirty <= 1,
         NEW L, L = RgzLayers(list, handle)
  PROVE  /\ DamagedArea(rgz, L) = EmptyRect
         /\ \A i \in 1 .. Len(L) :
              DirtyCount(i, L, rgz.states[rgz.idx], rgz.states[(rgz.idx + 1) % NumFb]) = 0
<1> DEFINE prev == rgz.states[rgz.idx]
           tgt  == rgz.states[(rgz.idx + 1) % NumFb]
           n    == Len(L)
<1>1. /\ Stack(rgz.cur) /\ Len(rgz.cur) = n /\ list \in Inputs /\ handle \in [Ids -> {0, 1}]
      /\ \A i \in 1 .. n : /\ rgz.cur[i].id = L[i].id /\ rgz.cur[i].buf = L[i].buf
                           /\ rgz.cur[i].frame = L[i].frame /\ rgz.cur[i].handle = L[i].handle
  BY LastFrame
<1>2. prev = rgz.cur /\ rgz \in RgzState
  BY DEF RgzInv
<1>3. /\ rgz.idx \in {0, 1} /\ (rgz.idx + 1) % NumFb \in {0, 1}
      /\ (rgz.idx + 1) % NumFb # rgz.idx
  BY <1>2 DEF RgzState, NumFb
<1>4. prev \in Seq(RgzLayer) /\ tgt \in Seq(RgzLayer) /\ (tgt # <<>> => Stack(tgt))
  BY <1>2, <1>3 DEF RgzState, RgzInv, NumFb
<1>5. Placed(prev) = Placed(tgt)
  BY <1>3
<1>6. \A i \in 2 .. n : \A j \in 2 .. n : prev[i].id = prev[j].id => i = j
  BY <1>1, <1>2, OnceInFrame
<1>7. /\ Stack(prev) /\ Len(prev) = n /\ n \in Nat /\ n > 0 /\ DOMAIN prev = 1 .. n
      /\ \A i \in 1 .. n : /\ prev[i].id = L[i].id /\ prev[i].buf = L[i].buf
                           /\ prev[i].frame = L[i].frame /\ prev[i].handle = L[i].handle
                           /\ prev[i].dirty <= 1 /\ prev[i] \in RgzLayer
  BY <1>1, <1>2 DEF Stack
<1>8. DamagedArea(rgz, L) = Damaged(L, prev, tgt)
  BY DEF DamagedArea
<1>9. DOMAIN L = 1 .. n /\ L \in Seq(RgzLayer)
  BY <1>1, LayersRight DEF Stack
<1> HIDE DEF prev, tgt, n
<1>10. ASSUME NEW i \in 2 .. n
       PROVE  \E j \in 2 .. Len(tgt) : tgt[j].id = L[i].id /\ tgt[j].frame = L[i].frame
  <2>1. i \in 1 .. n /\ i \in 1 .. Len(prev)
    BY <1>7
  <2>2. PICK j \in 1 .. Len(tgt) : tgt[j].id = prev[i].id /\ tgt[j].frame = prev[i].frame /\ tgt[j].buf = prev[i].buf
    BY <1>4, <1>5, <2>1, SamePlaces
  <2>3. prev[i].buf >= ClearHintBuf
    BY <1>7 DEF Stack
  <2>4. j # 1
    <3>1. tgt # <<>>
      BY <1>4, <2>2
    <3>2. tgt[1].buf = BackgroundBuf
      BY <1>4, <3>1 DEF Stack
    <3> QED
      BY <2>2, <2>3, <3>2 DEF BackgroundBuf, ClearHintBuf
  <2>5. j \in 2 .. Len(tgt)
    BY <1>4, <2>4
  <2> QED
    BY <1>7, <2>1, <2>2, <2>5
<1>11. ASSUME NEW j \in 2 .. Len(tgt)
       PROVE  \E i \in 2 .. n : /\ tgt[j].id = L[i].id /\ tgt[j].frame = L[i].frame
  <2>1. j \in 1 .. Len(tgt)
    BY <1>4
  <2>2. PICK i \in 1 .. Len(prev) : tgt[j].id = prev[i].id /\ tgt[j].frame = prev[i].frame /\ tgt[j].buf = prev[i].buf
    BY <1>4, <1>5, <2>1, SamePlaces
  <2>3. tgt[j].buf >= ClearHintBuf
    BY <1>4, <2>1 DEF Stack
  <2>4. i # 1
    BY <1>7, <2>2, <2>3 DEF Stack, BackgroundBuf, ClearHintBuf
  <2>5. i \in 2 .. n /\ i \in 1 .. n
    BY <1>7, <2>4
  <2> QED
    BY <1>7, <2>2, <2>5
<1>12. \A i \in 2 .. n : \A j \in 2 .. n : L[i].id = L[j].id => i = j
  <2>1. \A i \in 2 .. n : i \in 1 .. n
    OBVIOUS
  <2> QED
    BY <1>6, <1>7, <2>1
<1>13. ASSUME NEW i \in 2 .. n
       PROVE  ~Moved(L[i], tgt) /\ Find(tgt, L[i].id) # {}
  <2>1. DOMAIN tgt = 1 .. Len(tgt) /\ Len(tgt) \in Nat
    BY <1>4
  <2>2. \A t \in Find(tgt, L[i].id) : t.frame = L[i].frame
    <3>1. ASSUME NEW j \in DOMAIN tgt, j > 1, tgt[j].id = L[i].id
          PROVE  tgt[j].frame = L[i].frame
      <4>1. j \in 2 .. Len(tgt)
        BY <2>1, <3>1
      <4>2. PICK k \in 2 .. n : tgt[j].id = L[k].id /\ tgt[j].frame = L[k].frame
        BY <1>11, <4>1
      <4> QED
        BY <1>12, <3>1, <4>2
    <3> QED
      BY <3>1 DEF Find
  <2>3. PICK j \in 2 .. Len(tgt) : tgt[j].id = L[i].id
    BY <1>10
  <2>4. j \in DOMAIN tgt /\ j > 1
    BY <2>1
  <2>5. tgt[j] \in Find(tgt, L[i].id)
    BY <2>3, <2>4 DEF Find
  <2> QED
    BY <2>2, <2>5 DEF Moved
<1>14. ASSUME NEW i \in 1 .. n
       PROVE  prev[i] \in Previous(i, L, prev) /\ \A q \in Previous(i, L, prev) : \E j \in 1 .. n : q = prev[j]
  <2>1. CASE i = 1
    BY <1>7, <2>1 DEF Previous, Stack
  <2>2. CASE i > 1
    BY <1>7, <2>2 DEF Previous, Find
  <2> QED
    BY <2>1, <2>2
<1>15. ASSUME NEW i \in 1 .. n
       PROVE  DirtyCount(i, L, prev, tgt) = 0
  <2> DEFINE p == Previous(i, L, prev)
             same == \E q \in p : ~ContentChanged(L[i], q)
             last == CHOOSE q \in p : TRUE
  <2>1. DirtyCount(i, L, prev, tgt) =
          IF ~same \/ (i > 1 /\ Moved(L[i], tgt)) THEN NumFb ELSE Greatest(0, last.dirty - 1)
    BY DEF DirtyCount
  <2>2. same
    BY <1>7, <1>14 DEF ContentChanged
  <2>3. last \in p
    BY <1>14
  <2>4. PICK j \in 1 .. n : last = prev[j]
    BY <1>14, <2>3
  <2> HIDE DEF same, last, p
  <2>5. last.dirty \in 0 .. NumFb /\ last.dirty <= 1
    BY <1>7, <2>4 DEF RgzLayer
  <2>6. ~(i > 1 /\ Moved(L[i], tgt))
    <3>1. i > 1 => i \in 2 .. n
      OBVIOUS
    <3> QED
      BY <1>13, <3>1
  <2> QED
    BY <2>1, <2>2, <2>5, <2>6 DEF Greatest, NumFb
<1>16. Damaged(L, prev, tgt) = EmptyRect
  <2> DEFINE changed == {i \in DOMAIN L :
                           \/ Previous(i, L, prev) = {}
                           \/ i > 1 /\ (Find(tgt, L[i].id) = {} \/ Moved(L[i], tgt))}
             left == {t \in 2 .. Len(tgt) :
                        \/ Find(L, tgt[t].id) = {}
                        \/ \E i \in changed : /\ i > 1 /\ L[i].id = tgt[t].id
                                               /\ Previous(i, L, prev) # {}}
  <2>1. changed = {}
    <3>1. ASSUME NEW i \in 1 .. n
          PROVE  Previous(i, L, prev) # {} /\ ~(i > 1 /\ (Find(tgt, L[i].id) = {} \/ Moved(L[i], tgt)))
      <4>1. i > 1 => i \in 2 .. n
        OBVIOUS
      <4> QED
        BY <1>13, <1>14, <4>1
    <3> QED
      BY <1>9, <3>1
  <2>2. left = {}
    <3>1. ASSUME NEW t \in 2 .. Len(tgt)
          PROVE  Find(L, tgt[t].id) # {}
      <4>1. PICK i \in 2 .. n : tgt[t].id = L[i].id
        BY <1>11
      <4>2. i \in DOMAIN L /\ i > 1
        BY <1>9
      <4> QED
        BY <4>1, <4>2 DEF Find
    <3> HIDE DEF changed
    <3> QED
      BY <2>1, <3>1
  <2>3. Damaged(L, prev, tgt) = Around({L[i].frame : i \in changed} \cup {tgt[t].frame : t \in left})
    BY DEF Damaged
  <2> HIDE DEF changed, left
  <2>4. {L[i].frame : i \in changed} \cup {tgt[t].frame : t \in left} = {}
    BY <2>1, <2>2
  <2>5. Around({}) = EmptyRect
    BY DEF Around
  <2> QED
    BY <2>3, <2>4, <2>5
<1> QED
  BY <1>8, <1>15, <1>16 DEF prev, tgt, n

\* A frame like the last two costs no blit, whatever they show.
THEOREM StillIsFree == Spec => StillCostsNothing
<1>1. ASSUME RgzInv, [Next]_vars, drawn = "blitter", drawn' = "blitter", blt_mode = "region",
             list' = list, handle' = handle,
             Placed(rgz.states[0]) = Placed(rgz.states[1]),
             \A i \in DOMAIN rgz.cur : rgz.cur[i].dirty <= 1
      PROVE  blit_num' = 0 \/ UNCHANGED vars
  <2> SUFFICES ASSUME NEW l \in Inputs, NEW S \in Updates, BlitFrame(l, S)
               PROVE  blit_num' = 0
    BY <1>1 DEF Next, SgxFrame, DssFrame
  <2> DEFINE L == RgzLayers(list, handle)
             r == Checked(rgz, L)
  <2>1. l = list /\ Before = rgz
    BY <1>1 DEF BlitFrame, Passed, Before
  <2>2. RgzLayers(l, handle') = L
    BY <1>1, <2>1
  <2>3. blit_num' = Len(RegionBlits(HRegions(r.cur, DamagedArea(rgz, L)), DamagedArea(rgz, L)))
    BY <1>1, <2>1, <2>2 DEF BlitFrame, Regions, Blits
  <2>4. /\ DamagedArea(rgz, L) = EmptyRect
        /\ \A i \in 1 .. Len(L) :
             DirtyCount(i, L, rgz.states[rgz.idx], rgz.states[(rgz.idx + 1) % NumFb]) = 0
    BY <1>1, StillFrame
  <2>5. Stack(L) /\ rgz \in RgzState /\ \A f \in 0 .. NumFb - 1 : rgz.states[f] # <<>> => Stack(rgz.states[f])
    BY <1>1, LastFrame, LayersRight DEF RgzInv
  <2> HIDE DEF L
  <2>6. /\ Counted(r.cur, L)
        /\ \A i \in 1 .. Len(L) : r.cur[i].dirty =
             DirtyCount(i, L, rgz.states[rgz.idx], rgz.states[(rgz.idx + 1) % NumFb])
        /\ r.states[r.idx] = r.cur
        /\ \A f \in 0 .. NumFb - 1 : r.states[f] # <<>> => Stack(r.states[f])
        /\ r \in RgzState
    BY <2>5, CheckedRight
  <2> HIDE DEF r
  <2>7. Len(r.cur) = Len(L) /\ r.cur \in Seq(RgzLayer) /\ Len(L) > 0
    BY <2>5, <2>6 DEF Counted, Stack
  <2>8. Stack(r.cur)
    <3>1. r.idx \in 0 .. NumFb - 1
      BY <2>6 DEF RgzState
    <3>2. r.cur # <<>>
      BY <2>7
    <3> QED
      BY <2>6, <3>1, <3>2
  <2>9. \A i \in 1 .. Len(r.cur) : r.cur[i].dirty = 0
    BY <2>4, <2>6, <2>7
  <2> QED
    BY <2>3, <2>4, <2>8, <2>9, CleanCostsNothing
<1>2. RgzInv /\ [Next]_vars =>
        [/\ drawn = "blitter" /\ drawn' = "blitter" /\ blt_mode = "region"
         /\ list' = list /\ handle' = handle
         /\ Placed(rgz.states[0]) = Placed(rgz.states[1])
         /\ \A i \in DOMAIN rgz.cur : rgz.cur[i].dirty <= 1
         => blit_num' = 0]_vars
  BY <1>1
<1> QED
  BY <1>2, RegionizerStates, PTL DEF Spec, StillCostsNothing

-----------------------------------------------------------------------------
(* Bounds of the commands.                                                  *)

Sized(r, w, h) == r \in IntRect /\ Inside(r, w, h)

\* Turning keeps what is inside of a surface inside.
LEMMA TurnedInside ==
  ASSUME NEW w \in Int, NEW h \in Int, NEW r, Sized(r, w, h), NEW a \in Degrees \cup {360}
  PROVE  InsideTurned(RotatedView(Rect(0, 0, w, h), r, a), a, w, h)
<1> DEFINE o == Rect(0, 0, w, h)
           v == RotatedView(o, r, a)
<1>1. /\ r.left \in Int /\ r.top \in Int /\ r.right \in Int /\ r.bottom \in Int
      /\ r.left >= 0 /\ r.top >= 0 /\ r.right <= w /\ r.bottom <= h
  BY DEF Sized, IntRect, Inside
<1>2. o.left = 0 /\ o.top = 0 /\ o.right = w /\ o.bottom = h
  BY DEF Rect
<1>3. Wide(o) = w /\ High(o) = h /\ Wide(r) = r.right - r.left /\ High(r) = r.bottom - r.top
  BY <1>2 DEF Wide, High
<1> HIDE DEF o
<1>4. ASSUME a = 0 \/ a = 360
      PROVE  InsideTurned(v, a, w, h)
  <2>1. a % 360 = 0 /\ a % 180 = 0
    BY <1>4
  <2>2. v = Rect(r.left, r.top, r.left + (r.right - r.left), r.top + (r.bottom - r.top))
    BY <1>1, <1>2, <1>3, <2>1 DEF RotatedView
  <2> HIDE DEF v
  <2> QED
    BY <1>1, <2>1, <2>2 DEF InsideTurned, Inside, Rect
<1>5. ASSUME a = 180
      PROVE  InsideTurned(v, a, w, h)
  <2>1. a % 360 = 180 /\ a % 180 = 0
    BY <1>5
  <2> DEFINE l == w - (r.right - r.left) - r.left
             t == h - (r.bottom - r.top) - r.top
  <2>2. v = Rect(l, t, l + (r.right - r.left), t + (r.bottom - r.top))
    BY <1>1, <1>2, <1>3, <2>1 DEF RotatedView
  <2> HIDE DEF v
  <2> QED
    BY <1>1, <2>1, <2>2 DEF InsideTurned, Inside, Rect
<1>6. ASSUME a = 90
      PROVE  InsideTurned(v, a, w, h)
  <2>1. a % 360 = 90 /\ a % 180 # 0
    BY <1>6
  <2> DEFINE l == h - (r.bottom - r.top) - r.top
             t == r.left
  <2>2. v = Rect(l, t, l + (r.bottom - r.top), t + (r.right - r.left))
    BY <1>1, <1>2, <1>3, <2>1 DEF RotatedView
  <2> HIDE DEF v
  <2> QED
    BY <1>1, <2>1, <2>2 DEF InsideTurned, Inside, Rect
<1>7. ASSUME a = 270
      PROVE  InsideTurned(v, a, w, h)
  <2>1. a % 360 = 270 /\ a % 180 # 0
    BY <1>7
  <2> DEFINE l == r.top
             t == w - (r.right - r.left) - r.left
  <2>2. v = Rect(l, t, l + (r.bottom - r.top), t + (r.right - r.left))
    BY <1>1, <1>2, <1>3, <2>1 DEF RotatedView
  <2> HIDE DEF v
  <2> QED
    BY <1>1, <2>1, <2>2 DEF InsideTurned, Inside, Rect
<1>8. InsideTurned(v, a, w, h)
  BY <1>4, <1>5, <1>6, <1>7 DEF Degrees
<1> QED
  BY <1>8 DEF o

\* A layer's attributes.
LEMMA AttrRight ==
  ASSUME NEW i \in Ids
  PROVE  /\ Attr[i].trans \in Degrees /\ Attr[i].w \in Int /\ Attr[i].h \in Int
         /\ Sized(Attr[i].crop, Attr[i].w, Attr[i].h)
<1>1. Attr[i] \in Attributes /\ Attr[i].crop.right <= Attr[i].w /\ Attr[i].crop.bottom <= Attr[i].h
  BY AttrAssumption, CropAssumption
<1> DEFINE c == Attr[i].crop
<1>2. c \in [left: Nat, top: Nat, right: Nat, bottom: Nat] /\ Attr[i].trans \in Degrees
      /\ Attr[i].w \in Int /\ Attr[i].h \in Int
  BY <1>1 DEF Attributes
<1> HIDE DEF c
<1>3. c \in IntRect /\ c.left >= 0 /\ c.top >= 0
  BY <1>2 DEF IntRect
<1> QED
  BY <1>1, <1>2, <1>3 DEF c, Sized, Inside

\* Turning back by a quarter circle is turning on by three.
LEMMA NegatedTurns ==
  ASSUME NEW t \in Int, NEW u \in Int, u + t = 0
  PROVE  /\ t = 90  => u % 360 = 270 /\ u % 180 # 0
         /\ t = 180 => u % 360 = 180 /\ u % 180 = 0
         /\ t = 270 => u % 360 = 90 /\ u % 180 # 0
<1>1. CASE t = 90
  BY <1>1
<1>2. CASE t = 180
  BY <1>2
<1>3. CASE t = 270
  BY <1>3
<1> QED
  BY <1>1, <1>2, <1>3

\* What the blitter is told to read of a layer: inside of its buffers.
LEMMA SourceInside ==
  ASSUME NEW x \in RgzLayer, x.id \in Ids, NEW sub \in IntRect, Within(sub, x.frame)
  PROVE  Sized(SrcRect(x, sub), Attr[x.id].w, Attr[x.id].h)
<1> DEFINE e == x.id
           a == Attr[e]
           f == x.frame
           c == a.crop
           d == 0 - a.trans
           v == RotatedView(f, sub, d)
           w == a.w
           h == a.h
<1>1. a.trans \in Degrees /\ w \in Int /\ h \in Int /\ Sized(c, w, h)
  BY AttrRight
<1>2. f \in IntRect
  BY DEF RgzLayer
<1>3. CASE Scaled(x)
  BY <1>1, <1>3 DEF SrcRect
<1>4. CASE ~Scaled(x)
  <2>1. SrcRect(x, sub) = Shifted(v, c.left, c.top)
    BY <1>4 DEF SrcRect
  <2>2. /\ Wide(f) = IF a.trans % 180 # 0 THEN High(c) ELSE Wide(c)
        /\ High(f) = IF a.trans % 180 # 0 THEN Wide(c) ELSE High(c)
    BY <1>4 DEF Scaled
  <2>3. /\ f.left <= sub.left /\ sub.right <= f.right /\ f.top <= sub.top /\ sub.bottom <= f.bottom
    BY DEF Within
  <2> HIDE DEF e, a, f, c, v, w, h
  <2>4. /\ f.left \in Int /\ f.top \in Int /\ f.right \in Int /\ f.bottom \in Int
        /\ sub.left \in Int /\ sub.top \in Int /\ sub.right \in Int /\ sub.bottom \in Int
    BY <1>2 DEF IntRect
  <2>5. /\ c.left \in Int /\ c.top \in Int /\ c.right \in Int /\ c.bottom \in Int
        /\ c.left >= 0 /\ c.top >= 0 /\ c.right <= w /\ c.bottom <= h
    BY <1>1 DEF Sized, IntRect, Inside
  <2>6. a.trans \in Int /\ d \in Int /\ d + a.trans = 0
    <3>1. a.trans \in Int
      BY <1>1 DEF Degrees
    <3> QED
      BY <3>1
  <2> HIDE DEF d
  <2>7. /\ v.left \in Int /\ v.top \in Int /\ v.right \in Int /\ v.bottom \in Int
        /\ v.left >= 0 /\ v.top >= 0 /\ v.right <= Wide(c) /\ v.bottom <= High(c)
    <3>1. CASE a.trans = 0
      <4>1. d % 360 = 0 /\ d % 180 = 0 /\ a.trans % 180 = 0
        BY <2>6, <3>1
      <4>2. v = Rect(sub.left - f.left, sub.top - f.top,
                     (sub.left - f.left) + (sub.right - sub.left), (sub.top - f.top) + (sub.bottom - sub.top))
        BY <4>1 DEF v, RotatedView, Wide, High
      <4> QED
        BY <2>2, <2>3, <2>4, <2>5, <4>1, <4>2 DEF Rect, Wide, High
    <3>2. CASE a.trans = 90
      <4>1. d % 360 = 270 /\ d % 180 # 0 /\ a.trans % 180 # 0
        <5>1. d % 360 = 270 /\ d % 180 # 0
          BY <2>6, <3>2, NegatedTurns
        <5> QED
          BY <3>2, <5>1
      <4> DEFINE l == sub.top - f.top
                 t == (f.right - f.left) - (sub.right - sub.left) - (sub.left - f.left)
      <4>2. v = Rect(l, t, l + (sub.bottom - sub.top), t + (sub.right - sub.left))
        BY <4>1 DEF v, RotatedView, Wide, High
      <4> QED
        BY <2>2, <2>3, <2>4, <2>5, <4>1, <4>2 DEF Rect, Wide, High
    <3>3. CASE a.trans = 180
      <4>1. d % 360 = 180 /\ d % 180 = 0 /\ a.trans % 180 = 0
        <5>1. d % 360 = 180 /\ d % 180 = 0
          BY <2>6, <3>3, NegatedTurns
        <5> QED
          BY <3>3, <5>1
      <4> DEFINE l == (f.right - f.left) - (sub.right - sub.left) - (sub.left - f.left)
                 t == (f.bottom - f.top) - (sub.bottom - sub.top) - (sub.top - f.top)
      <4>2. v = Rect(l, t, l + (sub.right - sub.left), t + (sub.bottom - sub.top))
        BY <4>1 DEF v, RotatedView, Wide, High
      <4> QED
        BY <2>2, <2>3, <2>4, <2>5, <4>1, <4>2 DEF Rect, Wide, High
    <3>4. CASE a.trans = 270
      <4>1. d % 360 = 90 /\ d % 180 # 0 /\ a.trans % 180 # 0
        <5>1. d % 360 = 90 /\ d % 180 # 0
          BY <2>6, <3>4, NegatedTurns
        <5> QED
          BY <3>4, <5>1
      <4> DEFINE l == (f.bottom - f.top) - (sub.bottom - sub.top) - (sub.top - f.top)
                 t == sub.left - f.left
      <4>2. v = Rect(l, t, l + (sub.bottom - sub.top), t + (sub.right - sub.left))
        BY <4>1 DEF v, RotatedView, Wide, High
      <4> QED
        BY <2>2, <2>3, <2>4, <2>5, <4>1, <4>2 DEF Rect, Wide, High
    <3> QED
      BY <1>1, <3>1, <3>2, <3>3, <3>4 DEF Degrees
  <2>8. Sized(Shifted(v, c.left, c.top), w, h)
    BY <1>1, <2>5, <2>7 DEF Shifted, Rect, Wide, High, Sized, IntRect, Inside
  <2> QED
    BY <2>1, <2>8 DEF w, h, a, e, c
<1> QED
  BY <1>3, <1>4

\* The rectangle read from a layer that covers the subregion lies in its buffer.
LEMMA ReadableRight ==
  ASSUME NEW x \in RgzLayer, x.id \in Ids, NEW sub \in IntRect, Within(sub, x.frame),
         NEW angle \in {0, Attr[x.id].trans}
  PROVE  Readable(Source(x, sub, angle))
<1> DEFINE r == SrcRect(x, sub)
           w == Attr[x.id].w
           h == Attr[x.id].h
           s == Source(x, sub, angle)
<1>1. Sized(r, w, h)
  BY SourceInside
<1>2. w \in Int /\ h \in Int /\ angle \in Degrees
  BY AttrRight DEF Degrees
<1>3. /\ s.id = x.id /\ s.angle = angle
      /\ s.rect = IF angle = 0 THEN r ELSE RotatedView(Rect(0, 0, w, h), r, angle)
  BY DEF Source
<1> HIDE DEF r, w, h, s
<1>4. InsideTurned(s.rect, angle, w, h)
  <2>1. CASE angle = 0
    BY <1>1, <1>3, <2>1 DEF InsideTurned, Sized
  <2>2. CASE angle # 0
    <3>1. InsideTurned(RotatedView(Rect(0, 0, w, h), r, angle), angle, w, h)
      BY <1>1, <1>2, TurnedInside
    <3> QED
      BY <1>3, <2>2, <3>1
  <2> QED
    BY <2>1, <2>2
<1> QED
  BY <1>3, <1>4 DEF Readable, w, h, s

\* Commands within bounds.
Good(e) ==
  /\ InsideTurned(e.clip, e.angle, Width, Height)
  /\ \A k \in DOMAIN e.src1 : Readable(e.src1[k])
  /\ \A k \in DOMAIN e.src2 : Readable(e.src2[k])

Commands ==
  {Clear(s) : s \in IntRect}
    \cup {Entry(op, x, s) : op \in {"copy", "blend"}, x \in RgzLayer, s \in IntRect}
    \cup {BlendLayers(x, y, s) : x \in RgzLayer, y \in RgzLayer, s \in IntRect}
GoodCommands == {e \in Commands : Good(e)}

\* A rectangle that shows on the screen and a layer that it is inside of.
Covering(x, sub) == x \in RgzLayer /\ x.id \in Ids /\ Within(sub, x.frame)

\* Clipping keeps what is written on the screen.
LEMMA ClippedInside ==
  ASSUME NEW sub \in IntRect, Intersects(sub, ScreenRect)
  PROVE  Sized(ClipToScreen(sub), Width, Height)
<1>1. /\ sub.left \in Int /\ sub.top \in Int /\ sub.right \in Int /\ sub.bottom \in Int
  BY DEF IntRect
<1> QED
  BY <1>1, Screen DEF ClipToScreen, Rect, Greatest, Least, Sized, Inside, IntRect

\* A clear writes inside of the screen.
LEMMA ClearGood ==
  ASSUME NEW sub \in IntRect, Intersects(sub, ScreenRect)
  PROVE  Clear(sub) \in GoodCommands
<1>1. /\ Clear(sub).clip = ClipToScreen(sub) /\ Clear(sub).angle = 0
      /\ Clear(sub).src1 = <<>> /\ Clear(sub).src2 = <<>>
  BY DEF Clear
<1>2. Sized(ClipToScreen(sub), Width, Height)
  BY ClippedInside
<1>3. Good(Clear(sub))
  <2>1. InsideTurned(ClipToScreen(sub), 0, Width, Height)
    BY <1>2 DEF InsideTurned, Sized
  <2> QED
    BY <1>1, <2>1 DEF Good
<1> QED
  BY <1>3 DEF GoodCommands, Commands

\* The parts of an entry that the bounds are about.
EntryAngle(x) == IF IsNV12(x) THEN 360 - Attr[x.id].trans ELSE 0
EntrySource(x, sub) ==
  Source(x, IF Scaled(x) THEN x.frame ELSE sub, IF IsNV12(x) THEN 0 ELSE Attr[x.id].trans)
EntryClip(x, sub) ==
  IF EntryAngle(x) = 0 THEN ClipToScreen(sub)
  ELSE RotatedView(ScreenRect, ClipToScreen(sub), EntryAngle(x))

\* The parts of a command that reads one layer.
LEMMA EntryParts ==
  ASSUME NEW op, NEW x, NEW sub
  PROVE  /\ Entry(op, x, sub).angle = EntryAngle(x) /\ Entry(op, x, sub).clip = EntryClip(x, sub)
         /\ Entry(op, x, sub).src1 = <<EntrySource(x, sub)>> /\ Entry(op, x, sub).src2 = <<>>
BY DEF Entry, EntryAngle, EntryClip, EntrySource

\* A command for a layer that covers the subregion writes on the turned screen and
\* reads from the layer's buffer.
LEMMA EntryInside ==
  ASSUME NEW sub \in IntRect, Intersects(sub, ScreenRect), NEW x, Covering(x, sub)
  PROVE  /\ InsideTurned(EntryClip(x, sub), EntryAngle(x), Width, Height)
         /\ Readable(EntrySource(x, sub))
<1>1. x \in RgzLayer /\ x.id \in Ids /\ Within(sub, x.frame) /\ x.frame \in IntRect
  BY DEF Covering, RgzLayer
<1>2. Attr[x.id].trans \in Degrees
  BY <1>1, AttrRight
<1>3. Readable(EntrySource(x, sub))
  <2> DEFINE whole == IF Scaled(x) THEN x.frame ELSE sub
             angle == IF IsNV12(x) THEN 0 ELSE Attr[x.id].trans
  <2>1. Within(x.frame, x.frame)
    <3> DEFINE f == x.frame
    <3>1. f.left \in Int /\ f.top \in Int /\ f.right \in Int /\ f.bottom \in Int
      BY <1>1 DEF IntRect
    <3> HIDE DEF f
    <3>2. Within(f, f)
      BY <3>1 DEF Within
    <3> QED
      BY <3>2 DEF f
  <2>2. whole \in IntRect /\ Within(whole, x.frame) /\ angle \in {0, Attr[x.id].trans}
    BY <1>1, <2>1
  <2> HIDE DEF whole, angle
  <2>3. Readable(Source(x, whole, angle))
    BY <1>1, <2>2, ReadableRight
  <2> QED
    BY <2>3 DEF whole, angle, EntrySource
<1>4. InsideTurned(EntryClip(x, sub), EntryAngle(x), Width, Height)
  <2> DEFINE a == EntryAngle(x)
             c == ClipToScreen(sub)
  <2>1. Sized(c, Width, Height)
    BY ClippedInside
  <2>2. a \in Degrees \cup {360}
    BY <1>2 DEF Degrees, EntryAngle
  <2>3. EntryClip(x, sub) = IF a = 0 THEN c ELSE RotatedView(Rect(0, 0, Width, Height), c, a)
    BY DEF EntryClip, ScreenRect
  <2> HIDE DEF a, c
  <2>4. CASE a = 0
    BY <2>1, <2>3, <2>4 DEF InsideTurned, Sized, a
  <2>5. CASE a # 0
    <3>1. InsideTurned(RotatedView(Rect(0, 0, Width, Height), c, a), a, Width, Height)
      <4>1. Width \in Int /\ Height \in Int
        BY Screen
      <4> QED
        BY <2>1, <2>2, <4>1, TurnedInside
    <3> QED
      BY <2>3, <2>5, <3>1 DEF a
  <2> QED
    BY <2>4, <2>5
<1> QED
  BY <1>3, <1>4

\* Copying a layer, and blending one onto the screen, stay inside.
LEMMA EntryGood ==
  ASSUME NEW sub \in IntRect, Intersects(sub, ScreenRect), NEW x, Covering(x, sub)
  PROVE  CopyLayer(x, sub) \in GoodCommands /\ BlendLayer(x, sub) \in GoodCommands
<1>1. ASSUME NEW op \in {"copy", "blend"}
      PROVE  Entry(op, x, sub) \in GoodCommands
  <2> DEFINE e == Entry(op, x, sub)
  <2>1. e.angle = EntryAngle(x) /\ e.clip = EntryClip(x, sub) /\ e.src1 = <<EntrySource(x, sub)>> /\ e.src2 = <<>>
    BY EntryParts
  <2>2. e \in Commands
    BY DEF Covering, Commands
  <2> HIDE DEF e
  <2>3. Good(e)
    BY <2>1, EntryInside DEF Good
  <2> QED
    BY <2>2, <2>3 DEF GoodCommands, e
<1> QED
  BY <1>1 DEF CopyLayer, BlendLayer

\* Blending two layers that cover the subregion stays inside.
LEMMA BlendGood ==
  ASSUME NEW sub \in IntRect, Intersects(sub, ScreenRect), NEW x, Covering(x, sub),
         NEW y, Covering(y, sub)
  PROVE  BlendLayers(x, y, sub) \in GoodCommands
<1> DEFINE e == BlendLayers(x, y, sub)
           s == Source(y, sub, Attr[y.id].trans)
<1>1. e.angle = EntryAngle(x) /\ e.clip = EntryClip(x, sub) /\ e.src1 = <<EntrySource(x, sub)>> /\ e.src2 = <<s>>
  BY DEF BlendLayers, Entry, EntryAngle, EntryClip, EntrySource
<1>2. Readable(s)
  BY ReadableRight DEF Covering
<1>3. e \in Commands
  BY DEF Covering, Commands
<1> HIDE DEF e, s
<1>4. Good(e)
  BY <1>1, <1>2, EntryInside DEF Good
<1> QED
  BY <1>3, <1>4 DEF GoodCommands, e

\* The commands of a subregion.
LEMMA SubregionGood ==
  ASSUME NEW L, Stack(L), NEW dmg \in OnScreen, NEW h, Stack(h.layers), NEW sub, Tile(L, dmg, sub),
         \A k \in 1 .. Len(h.layers) : \E j \in 1 .. Len(L) : h.layers[k] = L[j]
  PROVE  SubregionBlits(h, sub, dmg) \in Seq(GoodCommands)
<1> DEFINE ops == LayerOps(h, sub)
           over == IF ops[1].buf < 0 THEN Tail(ops) ELSE ops
<1>1. /\ sub \in OnScreen /\ sub.left < sub.right /\ sub.top < sub.bottom
      /\ \A r \in Frames(L) : Intersects(sub, r) => Within(sub, r)
  BY DEF Tile
<1>2. Intersects(sub, ScreenRect) /\ sub \in IntRect
  <2>1. sub.left \in 0 .. Width /\ sub.right \in 0 .. Width /\ sub.top \in 0 .. Height /\ sub.bottom \in 0 .. Height
    BY <1>1 DEF OnScreen
  <2>2. Intersects(sub, ScreenRect)
    BY <1>1, <2>1, Screen DEF Intersects, ScreenRect, Rect
  <2> QED
    BY <1>1, <2>2, Screen
<1>3. /\ ops \in Seq(RgzLayer) /\ Len(ops) > 0
      /\ \A i \in 1 .. Len(ops) : \E j \in 1 .. Len(h.layers) :
           ops[i] = h.layers[j] /\ Intersects(sub, h.layers[j].frame)
      /\ ops[1].buf >= 0 => ops[1].id \in Ids
      /\ \A i \in 2 .. Len(ops) : ops[i].buf >= 0 /\ ops[i].id \in Ids
  BY <1>2, OpsRight
<1> HIDE DEF ops
<1>4. ASSUME NEW i \in 1 .. Len(ops), ops[i].id \in Ids
      PROVE  Covering(ops[i], sub)
  <2>1. PICK k \in 1 .. Len(h.layers) : ops[i] = h.layers[k] /\ Intersects(sub, h.layers[k].frame)
    BY <1>3
  <2>2. PICK j \in 1 .. Len(L) : h.layers[k] = L[j]
    OBVIOUS
  <2>3. ops[i].frame \in Frames(L) /\ Intersects(sub, ops[i].frame)
    <3>1. DOMAIN L = 1 .. Len(L)
      BY DEF Stack
    <3> QED
      BY <2>1, <2>2, <3>1 DEF Frames
  <2>4. ops[i] \in RgzLayer
    BY <1>3
  <2> QED
    BY <1>1, <1>4, <2>3, <2>4 DEF Covering
<1>5. ops[1] \in RgzLayer /\ ops[1].buf \in Int /\ Len(ops) \in Nat
  <2>1. 1 \in 1 .. Len(ops)
    BY <1>3
  <2>2. ops[1] \in RgzLayer
    BY <1>3, <2>1
  <2> QED
    BY <1>3, <2>2 DEF RgzLayer
<1>6. over \in Seq(RgzLayer) /\ \A i \in 1 .. Len(over) : Covering(over[i], sub)
  <2>1. CASE ops[1].buf < 0
    <3>1. Tail(ops) \in Seq(RgzLayer) /\ Len(Tail(ops)) = Len(ops) - 1
          /\ \A i \in 1 .. Len(ops) - 1 : Tail(ops)[i] = ops[i + 1]
      <4>1. ops # <<>>
        BY <1>3
      <4>2. Tail(ops) \in Seq(RgzLayer) /\ Len(Tail(ops)) = Len(ops) - 1
        BY <1>3, <4>1
      <4>3. \A i \in 1 .. Len(ops) - 1 : Tail(ops)[i] = ops[i + 1]
        BY <1>3, <4>1
      <4> QED
        BY <4>2, <4>3
    <3>2. ASSUME NEW i \in 1 .. Len(ops) - 1
          PROVE  Covering(Tail(ops)[i], sub)
      <4>1. i + 1 \in 2 .. Len(ops) /\ i + 1 \in 1 .. Len(ops)
        BY <1>5
      <4> QED
        BY <1>3, <1>4, <3>1, <4>1
    <3> QED
      BY <2>1, <3>1, <3>2
  <2>2. CASE ~(ops[1].buf < 0)
    <3>1. ops[1].buf >= 0
      BY <1>5, <2>2
    <3>2. ASSUME NEW i \in 1 .. Len(ops)
          PROVE  Covering(ops[i], sub)
      <4>1. i = 1 \/ i \in 2 .. Len(ops)
        BY <1>5
      <4> QED
        BY <1>3, <1>4, <3>1, <4>1
    <3> QED
      BY <1>3, <2>2, <3>2
  <2> QED
    BY <2>1, <2>2
<1> HIDE DEF over
<1>7. /\ over = <<>> \/ Len(over) = 1 \/ Len(over) >= 2
      /\ Len(over) >= 1 => over # <<>>
  <2>1. over \in Seq(RgzLayer)
    BY <1>6
  <2>2. Len(over) \in Nat /\ (Len(over) = 0 <=> over = <<>>)
    BY <2>1
  <2> DEFINE n == Len(over)
  <2>3. n \in Nat /\ (n = 0 <=> over = <<>>)
    BY <2>2
  <2> HIDE DEF n
  <2>4. (n = 0 \/ n = 1 \/ n >= 2) /\ (n >= 1 => n # 0)
    BY <2>3
  <2> QED
    BY <2>3, <2>4, Zenon DEF n
<1> USE DEF over
<1> DEFINE D == Dirty(ops, sub, dmg)
<1>8. SubregionBlits(h, sub, dmg) =
        CASE ~D -> <<>>
          [] D /\ over = <<>> -> <<Clear(sub)>>
          [] D /\ Len(over) = 1 -> <<CopyLayer(over[1], sub)>>
          [] OTHER -> BlendOps(over, sub)
  BY DEF SubregionBlits, ops
<1>9. D \in BOOLEAN
  BY DEF Dirty, Intersects
<1> HIDE DEF over, D
<1>10. <<Clear(sub)>> \in Seq(GoodCommands)
  BY <1>2, ClearGood
<1>11. ASSUME Len(over) >= 1
       PROVE  <<CopyLayer(over[1], sub)>> \in Seq(GoodCommands)
  <2>1. 1 \in 1 .. Len(over)
    BY <1>6, <1>11
  <2>2. CopyLayer(over[1], sub) \in GoodCommands
    BY <1>2, <1>6, <2>1, EntryGood
  <2> QED
    BY <2>2
<1>12. ASSUME Len(over) >= 2
       PROVE  BlendOps(over, sub) \in Seq(GoodCommands)
  <2> DEFINE x == over[2]
             y == over[1]
             first == IF CanBlendTogether(x, y) THEN <<BlendLayers(x, y, sub)>>
                      ELSE <<CopyLayer(y, sub), BlendLayer(x, sub)>>
             n == Len(over) - 2
             rest == [i \in 1 .. n |-> BlendLayer(over[i + 2], sub)]
  <2>1. n \in Nat /\ 1 \in 1 .. Len(over) /\ 2 \in 1 .. Len(over)
    BY <1>6, <1>12
  <2>2. Covering(x, sub) /\ Covering(y, sub)
    BY <1>6, <2>1
  <2> HIDE DEF x, y
  <2>3. /\ BlendLayers(x, y, sub) \in GoodCommands /\ CopyLayer(y, sub) \in GoodCommands
        /\ BlendLayer(x, sub) \in GoodCommands
    BY <1>2, <2>2, EntryGood, BlendGood
  <2>4. first \in Seq(GoodCommands)
    BY <2>3
  <2>5. ASSUME NEW i \in 1 .. n
        PROVE  BlendLayer(over[i + 2], sub) \in GoodCommands
    <3>1. i + 2 \in 1 .. Len(over)
      BY <2>1
    <3>2. Covering(over[i + 2], sub)
      BY <1>6, <3>1
    <3> QED
      BY <1>2, <3>2, EntryGood
  <2>6. rest \in Seq(GoodCommands)
    <3> HIDE DEF n
    <3> QED
      BY <2>1, <2>5
  <2>7. BlendOps(over, sub) = first \o rest
    BY DEF BlendOps, x, y
  <2> HIDE DEF first, rest
  <2> QED
    BY <2>4, <2>6, <2>7
<1>13. CASE ~D
  BY <1>8, <1>13
<1>14. CASE D /\ over = <<>>
  BY <1>8, <1>10, <1>14
<1>15. CASE D /\ Len(over) = 1
  <2>1. over # <<>>
    BY <1>7, <1>15
  <2>2. SubregionBlits(h, sub, dmg) = <<CopyLayer(over[1], sub)>>
    BY <1>8, <1>15, <2>1
  <2> QED
    BY <1>11, <1>15, <2>2
<1>16. CASE D /\ Len(over) >= 2
  <2>1. over # <<>> /\ Len(over) # 1
    BY <1>6, <1>16
  <2>2. SubregionBlits(h, sub, dmg) = BlendOps(over, sub)
    BY <1>8, <1>16, <2>1
  <2> QED
    BY <1>12, <1>16, <2>2
<1> QED
  BY <1>7, <1>9, <1>13, <1>14, <1>15, <1>16

\* The commands of all regions.
LEMMA RegionsGood ==
  ASSUME NEW L, Stack(L), NEW dmg \in OnScreen
  PROVE  RegionBlits(HRegions(L, dmg), dmg) \in Seq(GoodCommands)
<1> DEFINE H == HRegions(L, dmg)
           Of(h) == FlattenSeq([s \in DOMAIN Subregions(h, dmg) |-> SubregionBlits(h, Subregions(h, dmg)[s], dmg)])
           m == Cardinality(Elements(YArray(L, dmg)))
           t == [i \in DOMAIN H |-> Of(H[i])]
<1>1. ASSUME NEW i \in DOMAIN H
      PROVE  Of(H[i]) \in Seq(GoodCommands)
  <2> DEFINE h == H[i]
             subs == Subregions(h, dmg)
             n == Len(subs)
             u == [s \in 1 .. n |-> SubregionBlits(h, subs[s], dmg)]
  <2>1. subs \in Seq(OnScreen) /\ \A s \in DOMAIN subs : Tile(L, dmg, subs[s])
    BY TileRight
  <2>2. /\ Stack(h.layers)
        /\ \A k \in 1 .. Len(h.layers) : \E j \in 1 .. Len(L) : h.layers[k] = L[j]
    BY RegionLayers
  <2> HIDE DEF h, subs
  <2>3. n \in Nat /\ DOMAIN subs = 1 .. n
    BY <2>1
  <2>4. Of(h) = FlattenSeq(u)
    BY <2>3 DEF subs
  <2> HIDE DEF n
  <2>5. ASSUME NEW s \in 1 .. n
        PROVE  SubregionBlits(h, subs[s], dmg) \in Seq(GoodCommands)
    <3>1. Tile(L, dmg, subs[s])
      BY <2>1, <2>3
    <3> QED
      BY <2>2, <3>1, SubregionGood
  <2>6. u \in [1 .. n -> Seq(GoodCommands)]
    BY <2>5
  <2> HIDE DEF u, Of
  <2>7. FlattenSeq(u) \in Seq(GoodCommands)
    BY ONLY <2>3, <2>6, Flattened
  <2> QED
    BY <2>4, <2>7 DEF h
<1>2. RegionBlits(H, dmg) = FlattenSeq(t)
  BY DEF RegionBlits
<1>3. DOMAIN H = 1 .. m - 1 /\ m \in Nat
  BY HRegionsRight DEF Pieces
<1> HIDE DEF Of, H, m
<1>4. PICK n \in Nat : DOMAIN H = 1 .. n
  <2>1. CASE m = 0
    <3>1. 1 .. m - 1 = 1 .. 0
      BY <2>1
    <3> QED
      BY <1>3, <3>1
  <2>2. CASE m # 0
    <3>1. m - 1 \in Nat
      BY <1>3, <2>2
    <3> QED
      BY <1>3, <3>1
  <2> QED
    BY <2>1, <2>2
<1>5. t \in [1 .. n -> Seq(GoodCommands)]
  BY <1>1, <1>4
<1> HIDE DEF t
<1>6. FlattenSeq(t) \in Seq(GoodCommands)
  BY ONLY <1>4, <1>5, Flattened
<1> QED
  BY <1>2, <1>6 DEF H

\* The commands that paint a frame whole.
LEMMA PaintGood ==
  ASSUME NEW r \in RgzState, Stack(r.cur)
  PROVE  PaintBlits(r) \in Seq(GoodCommands)
<1> DEFINE n == Len(r.cur) - 1
           C(x) == IF x.buf = ClearHintBuf THEN Clear(ClipToScreen(x.frame)) ELSE LayerBlit(x)
           p == [i \in 1 .. n |-> C(r.cur[i + 1])]
<1>1. n \in Nat
  BY DEF Stack
<1>2. ScreenRect \in IntRect /\ Intersects(ScreenRect, ScreenRect)
  BY Screen DEF Intersects, ScreenRect, Rect
<1>3. <<Clear(ScreenRect)>> \in Seq(GoodCommands)
  BY <1>2, ClearGood
<1>4. ASSUME NEW i \in 1 .. n
      PROVE  C(r.cur[i + 1]) \in GoodCommands
  <2> DEFINE x == r.cur[i + 1]
             f == x.frame
  <2>1. i + 1 \in 1 .. Len(r.cur) /\ i + 1 \in 2 .. Len(r.cur)
    BY <1>1
  <2>2. x \in RgzLayer /\ x.id \in Ids /\ f \in IntRect /\ Intersects(f, ScreenRect)
    BY <2>1, StackFrame DEF Stack
  <2>3. f.left \in Int /\ f.top \in Int /\ f.right \in Int /\ f.bottom \in Int
    BY <2>1, StackFrame
  <2>4. Covering(x, f)
    BY <2>2, <2>3 DEF Covering, Within
  <2> HIDE DEF x, f
  <2>5. CopyLayer(x, f) \in GoodCommands /\ BlendLayer(x, f) \in GoodCommands
    BY <2>2, <2>4, EntryGood
  <2>6. LayerBlit(x) \in GoodCommands
    BY <2>5 DEF LayerBlit, f
  <2>7. x.buf = ClearHintBuf => Clear(ClipToScreen(f)) \in GoodCommands
    <3> DEFINE c == ClipToScreen(f)
    <3>1. f.left < Width /\ f.top < Height /\ f.right > 0 /\ f.bottom > 0
      BY <2>2, <2>3, Screen DEF Intersects, ScreenRect, Rect
    <3>2. /\ c.left = Greatest(0, f.left) /\ c.top = Greatest(0, f.top)
          /\ c.right = Least(Width, f.right) /\ c.bottom = Least(Height, f.bottom)
      BY DEF ClipToScreen, Rect
    <3>3. c \in IntRect
      BY <2>2, ClippedInside DEF Sized
    <3> HIDE DEF c
    <3>4. Intersects(c, ScreenRect)
      BY <2>3, <3>1, <3>2, Screen DEF Intersects, ScreenRect, Rect, Greatest, Least
    <3>5. Clear(c) \in GoodCommands
      BY <3>3, <3>4, ClearGood
    <3> QED
      BY <3>5 DEF c
  <2>8. C(x) \in GoodCommands
    BY <2>6, <2>7 DEF f
  <2> QED
    BY <2>8 DEF x
<1>5. PaintBlits(r) = <<Clear(ScreenRect)>> \o p
  BY DEF PaintBlits
<1>6. p = [i \in 1 .. n |-> p[i]] /\ \A i \in 1 .. n : p[i] \in GoodCommands
  BY <1>4, Zenon
<1> HIDE DEF p, n
<1>7. p \in Seq(GoodCommands)
  BY <1>1, <1>6
<1> QED
  BY <1>3, <1>5, <1>7

\* Of every frame the blitter draws and every damaged area, no command writes
\* outside of the screen or reads outside of a layer's buffer.
THEOREM NoBlitStrays == Spec => []BlitsInBounds
<1>1. RgzInv => BlitsInBounds
  <2> DEFINE cs(dmg) == Blits(Regions(rgz, dmg), rgz, dmg)
  <2> SUFFICES ASSUME RgzInv, drawn = "blitter", NEW dmg \in Areas, NEW i \in DOMAIN cs(dmg)
               PROVE  Good(cs(dmg)[i])
    BY DEF BlitsInBounds, Good
  <2>1. Stack(rgz.cur) /\ dmg \in OnScreen /\ rgz \in RgzState
    BY LastFrame, AreasRight DEF RgzInv
  <2>2. cs(dmg) \in Seq(GoodCommands)
    BY <2>1, PaintGood, RegionsGood DEF Blits, Regions
  <2>3. cs(dmg)[i] \in GoodCommands
    <3> HIDE DEF cs
    <3> QED
      BY <2>2
  <2> QED
    BY <2>3 DEF GoodCommands
<1> QED
  BY <1>1, RegionizerStates, PTL

=============================================================================
