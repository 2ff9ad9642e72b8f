--------------------------- MODULE SortingProofs ---------------------------
(***************************************************************************)
(* Every array can be sorted, and the k-th entry of a sorted one has at    *)
(* most k entries below it and more than k not above it.                   *)
(*                                                                         *)
(* Both are inductions over data.  They are argued by a least              *)
(* counterexample, whose existence is the well-foundedness of < on the     *)
(* natural numbers.                                                        *)
(***************************************************************************)
EXTENDS Sorting, FiniteSets, FunctionTheorems, FiniteSetTheorems, WellFoundedInduction, TLAPS

(* A set of natural numbers that is not empty has a least element.         *)
LEMMA LeastNumber ==
  ASSUME NEW T, T \subseteq Nat, T # {}
  PROVE  \E n \in T : \A m \in T : n <= m
<1> DEFINE R == {ss \in Nat \X Nat : ss[1] < ss[2]}
<1>1. R = OpToRel(<, Nat)
  BY Zenon DEF OpToRel
<1>2. IsWellFoundedOn(R, Nat)
  BY <1>1, NatLessThanWellFounded, Zenon
<1>3. \A a, b \in Nat : a < b => <<a, b>> \in R
  OBVIOUS
<1> HIDE DEF R
<1>4. PICK x \in T : \A y \in T : ~ (<<y, x>> \in R)
  BY <1>2, WFMin, Zenon
<1>5. \A y \in T : ~ (y < x)
  BY <1>3, <1>4, Zenon
<1> QED
  BY <1>5

-----------------------------------------------------------------------------
(* The sorting of one entry more: p sorts the first n entries, entry n     *)
(* goes to place j, and what stood from there on moves up by one.          *)
Inserted(p, n, j) ==
  [q \in Places(n + 1) |-> IF q < j THEN p[q] ELSE IF q = j THEN n ELSE p[q - 1]]

(* Inserting keeps a rearrangement one.                                    *)
LEMMA InsertedIsBijection ==
  ASSUME NEW n \in Nat, NEW p \in Bijection(Places(n), Places(n)), NEW j \in 0 .. n
  PROVE  Inserted(p, n, j) \in Bijection(Places(n + 1), Places(n + 1))
<1> DEFINE g == Inserted(p, n, j)
<1>1. /\ p \in [Places(n) -> Places(n)]
      /\ \A a, b \in Places(n) : p[a] = p[b] => a = b
      /\ \A t \in Places(n) : \E s \in Places(n) : p[s] = t
  BY Fun_BijectionProperties
<1>2. /\ \A q \in Places(n + 1) : q < j => g[q] = p[q] /\ q \in Places(n)
      /\ g[j] = n /\ j \in Places(n + 1)
      /\ \A q \in Places(n + 1) : q > j => g[q] = p[q - 1] /\ q - 1 \in Places(n)
  BY DEF Inserted, Places
<1>3. \A s \in Places(n) : p[s] \in Places(n) /\ p[s] # n /\ p[s] \in Places(n + 1)
  BY <1>1 DEF Places
<1>4. g \in [Places(n + 1) -> Places(n + 1)]
  <2>1. n \in Places(n + 1)
    BY DEF Places
  <2>2. ASSUME NEW q \in Places(n + 1) PROVE g[q] \in Places(n + 1)
    <3>1. q < j \/ q = j \/ q > j
      BY DEF Places
    <3> QED
      BY <1>2, <1>3, <2>1, <3>1
  <2> QED
    BY <2>2 DEF Inserted
<1> HIDE DEF g
<1>5. ASSUME NEW a \in Places(n + 1), NEW b \in Places(n + 1), g[a] = g[b]
      PROVE  a = b
  <2>1. a \in Int /\ b \in Int /\ j \in Int
    BY DEF Places
  <2>2. CASE a = j
    BY <1>2, <1>3, <1>5, <2>1, <2>2
  <2>3. CASE b = j
    BY <1>2, <1>3, <1>5, <2>1, <2>3
  <2>4. CASE a < j /\ b < j
    BY <1>1, <1>2, <1>5, <2>4
  <2>5. CASE a > j /\ b > j
    <3>1. a - 1 = b - 1
      BY <1>1, <1>2, <1>5, <2>5
    <3> QED
      BY <2>1, <3>1
  <2>6. CASE a < j /\ b > j
    <3>1. a = b - 1
      BY <1>1, <1>2, <1>5, <2>6
    <3> QED
      BY <2>1, <2>6, <3>1
  <2>7. CASE a > j /\ b < j
    <3>1. a - 1 = b
      BY <1>1, <1>2, <1>5, <2>7
    <3> QED
      BY <2>1, <2>7, <3>1
  <2> QED
    BY <2>1, <2>2, <2>3, <2>4, <2>5, <2>6, <2>7
<1>6. ASSUME NEW t \in Places(n + 1) PROVE \E q \in Places(n + 1) : g[q] = t
  <2>1. CASE t = n
    BY <1>2, <2>1
  <2>2. CASE t # n
    <3>1. t \in Places(n)
      BY <2>2 DEF Places
    <3>2. PICK s \in Places(n) : p[s] = t
      BY <1>1, <3>1
    <3>3. CASE s < j
      <4>1. s \in Places(n + 1)
        BY DEF Places
      <4> QED
        BY <1>2, <3>2, <3>3, <4>1
    <3>4. CASE s >= j
      <4>1. s + 1 \in Places(n + 1) /\ s + 1 > j /\ (s + 1) - 1 = s
        BY <3>4 DEF Places
      <4>2. g[s + 1] = p[(s + 1) - 1]
        BY <1>2, <4>1
      <4> QED
        BY <3>2, <4>1, <4>2
    <3> QED
      BY <3>3, <3>4 DEF Places
  <2> QED
    BY <2>1, <2>2
<1> QED
  BY <1>4, <1>5, <1>6, Fun_IsBij DEF g

(* Inserting in front of the entries that are larger, and only of those,   *)
(* keeps the order.                                                        *)
LEMMA InsertedIsSorting ==
  ASSUME NEW n \in Nat, NEW f, \A i \in Places(n + 1) : f[i] \in Int,
         NEW p \in Sortings(f, n), NEW j \in 0 .. n,
         \A q \in Places(n) : q < j => f[p[q]] <= f[n],
         \A q \in Places(n) : q >= j => f[n] <= f[p[q]]
  PROVE  Inserted(p, n, j) \in Sortings(f, n + 1)
<1> DEFINE g == Inserted(p, n, j)
<1>1. /\ p \in Bijection(Places(n), Places(n))
      /\ \A i, k \in Places(n) : i < k => f[p[i]] <= f[p[k]]
  BY DEF Sortings
<1>2. g \in Bijection(Places(n + 1), Places(n + 1))
  BY <1>1, InsertedIsBijection
<1>3. /\ \A q \in Places(n + 1) : q < j => g[q] = p[q] /\ q \in Places(n)
      /\ g[j] = n
      /\ \A q \in Places(n + 1) : q > j => g[q] = p[q - 1] /\ q - 1 \in Places(n)
  BY DEF Inserted, Places
<1>4. /\ \A q \in Places(n) : f[p[q]] \in Int
      /\ f[n] \in Int
  <2>1. p \in [Places(n) -> Places(n)]
    BY <1>1, Fun_BijectionProperties
  <2> QED
    BY <2>1 DEF Places
<1> HIDE DEF g
<1>5. ASSUME NEW a \in Places(n + 1), NEW b \in Places(n + 1), a < b
      PROVE  f[g[a]] <= f[g[b]]
  <2>1. a \in Int /\ b \in Int /\ j \in Int
    BY DEF Places
  <2>2. CASE b < j
    <3>1. g[a] = p[a] /\ g[b] = p[b] /\ a \in Places(n) /\ b \in Places(n)
      BY <1>3, <1>5, <2>1, <2>2
    <3> QED
      BY <1>1, <1>5, <3>1
  <2>3. CASE b = j
    <3>1. g[a] = p[a] /\ g[b] = n /\ a \in Places(n)
      BY <1>3, <1>5, <2>1, <2>3
    <3> QED
      BY <1>5, <2>3, <3>1
  <2>4. CASE a = j
    <3>1. g[b] = p[b - 1] /\ g[a] = n /\ b - 1 \in Places(n) /\ b - 1 >= j
      BY <1>3, <1>5, <2>1, <2>4
    <3> QED
      BY <3>1
  <2>5. CASE a > j
    <3>1. /\ g[a] = p[a - 1] /\ g[b] = p[b - 1] /\ a - 1 < b - 1
          /\ a - 1 \in Places(n) /\ b - 1 \in Places(n)
      BY <1>3, <1>5, <2>1, <2>5
    <3> QED
      BY <1>1, <3>1
  <2>6. CASE a < j /\ b > j
    <3>1. /\ g[a] = p[a] /\ g[b] = p[b - 1] /\ b - 1 >= j
          /\ a \in Places(n) /\ b - 1 \in Places(n)
      BY <1>3, <2>1, <2>6
    <3>2. f[p[a]] <= f[n] /\ f[n] <= f[p[b - 1]]
      BY <2>6, <3>1
    <3>3. f[p[a]] \in Int /\ f[p[b - 1]] \in Int
      BY <1>4, <3>1
    <3>4. f[p[a]] <= f[p[b - 1]]
      BY <1>4, <3>2, <3>3
    <3> QED
      BY <3>1, <3>4
  <2> QED
    BY <1>5, <2>1, <2>2, <2>3, <2>4, <2>5, <2>6
<1> QED
  BY <1>2, <1>5 DEF Sortings, g

(* There is a place to insert at.                                          *)
LEMMA InsertionPlace ==
  ASSUME NEW n \in Nat, NEW f, \A i \in Places(n + 1) : f[i] \in Int,
         NEW p \in Sortings(f, n)
  PROVE  \E j \in 0 .. n : /\ \A q \in Places(n) : q < j => f[p[q]] <= f[n]
                           /\ \A q \in Places(n) : q >= j => f[n] <= f[p[q]]
<1> DEFINE T == { j \in 0 .. n : j < n => f[n] < f[p[j]] }
<1>1. /\ p \in [Places(n) -> Places(n)]
      /\ \A i, k \in Places(n) : i < k => f[p[i]] <= f[p[k]]
  BY Fun_BijectionProperties DEF Sortings
<1>2. /\ \A q \in Places(n) : f[p[q]] \in Int
      /\ f[n] \in Int
  BY <1>1 DEF Places
<1>3. n \in T /\ T \subseteq Nat
  OBVIOUS
<1>4. PICK j \in T : \A m \in T : j <= m
  BY <1>3, LeastNumber
<1>5. ASSUME NEW q \in Places(n), q < j PROVE f[p[q]] <= f[n]
  <2>1. q \notin T
    BY <1>4, <1>5 DEF Places
  <2>2. q \in 0 .. n /\ q < n
    BY DEF Places
  <2> QED
    BY <1>2, <2>1, <2>2
<1>6. ASSUME NEW q \in Places(n), q >= j PROVE f[n] <= f[p[q]]
  <2>1. j \in Places(n) /\ f[n] < f[p[j]]
    BY <1>6 DEF Places
  <2>2. q = j \/ f[p[j]] <= f[p[q]]
    BY <1>1, <1>6, <2>1 DEF Places
  <2> QED
    BY <1>2, <2>1, <2>2
<1> QED
  BY <1>4, <1>5, <1>6

(* Every array can be sorted: otherwise there were a least length at which *)
(* some array cannot, but one entry less can be, and the last inserted.    *)
THEOREM SortingExists ==
  ASSUME NEW n \in Nat, NEW f, \A i \in Places(n) : f[i] \in Int
  PROVE  Sortings(f, n) # {}
<1> DEFINE Bad == { k \in 0 .. n : Sortings(f, k) = {} }
<1> SUFFICES ASSUME Bad # {} PROVE FALSE
  OBVIOUS
<1>1. PICK k \in Bad : \A m \in Bad : k <= m
  <2>1. Bad \subseteq Nat
    OBVIOUS
  <2> QED
    BY <2>1, LeastNumber, Zenon
<1>2. k \in 0 .. n /\ Sortings(f, k) = {}
  OBVIOUS
<1>3. CASE k = 0
  <2> DEFINE p == [i \in Places(0) |-> i]
  <2>1. \A i : i \notin Places(0)
    BY DEF Places
  <2>2. p \in Bijection(Places(0), Places(0))
    <3>1. p \in [Places(0) -> Places(0)]
      OBVIOUS
    <3> QED
      BY <2>1, <3>1, Fun_IsBij, Zenon
  <2>3. p \in Sortings(f, 0)
    BY <2>1, <2>2, Zenon DEF Sortings
  <2> QED
    BY <1>2, <1>3, <2>3
<1>4. CASE k # 0
  <2>1. k - 1 \in Nat /\ (k - 1) + 1 = k /\ k - 1 \in 0 .. n /\ ~ (k <= k - 1)
    BY <1>2, <1>4
  <2>2. k - 1 \notin Bad
    BY <1>1, <2>1
  <2>3. PICK p : p \in Sortings(f, k - 1)
    BY <2>1, <2>2
  <2>4. \A i \in Places((k - 1) + 1) : f[i] \in Int
    BY <1>2, <2>1 DEF Places
  <2>5. \E j \in 0 .. k - 1 : Inserted(p, k - 1, j) \in Sortings(f, (k - 1) + 1)
    BY <2>1, <2>3, <2>4, InsertionPlace, InsertedIsSorting
  <2> QED
    BY <1>2, <2>1, <2>5
<1> QED
  BY <1>3, <1>4

-----------------------------------------------------------------------------
(* The entries of w below v, and those that do not exceed it.              *)
Below(w, n, v) == { i \in 1 .. n : w[i] < v }

AtMost(w, n, v) == { i \in 1 .. n : w[i] <= v }

(* The entry at place k of a sorted rearrangement g of the entries of w:   *)
(* at most k of them are smaller, and more than k are not larger.          *)
THEOREM RankOfSorted ==
  ASSUME NEW n \in Nat, NEW w, NEW g, NEW k \in Places(n),
         NEW p \in Bijection(Places(n), 1 .. n),
         \A i \in Places(n) : g[i] \in Int /\ g[i] = w[p[i]],
         \A i, j \in Places(n) : i < j => g[i] <= g[j]
  PROVE  /\ Cardinality(Below(w, n, g[k])) <= k
         /\ k < Cardinality(AtMost(w, n, g[k]))
<1> DEFINE below  == { i \in 1 .. n : w[i] < g[k] }
           atMost == { i \in 1 .. n : w[i] <= g[k] }
           place  == [i \in 1 .. n |-> CHOOSE q \in Places(n) : p[q] = i]
<1>1. /\ p \in [Places(n) -> 1 .. n]
      /\ \A a, b \in Places(n) : p[a] = p[b] => a = b
      /\ \A t \in 1 .. n : \E s \in Places(n) : p[s] = t
  BY DEF Bijection, Injection, Surjection, IsInjective
<1>2. \A i \in 1 .. n : place[i] \in Places(n) /\ p[place[i]] = i
  BY <1>1
<1> HIDE DEF place
<1>3. Cardinality(below) <= k
  <2> DEFINE h == [i \in below |-> place[i]]
  <2>1. ASSUME NEW i \in below PROVE place[i] \in 0 .. k - 1
    <3>1. g[place[i]] = w[i] /\ place[i] \in Places(n) /\ w[i] < g[k]
      BY <1>2
    <3>2. ~ (k < place[i]) /\ k # place[i]
      BY <3>1
    <3> QED
      BY <3>1, <3>2 DEF Places
  <2>2. \A a, b \in below : h[a] = h[b] => a = b
    BY <1>2
  <2>3. h \in Injection(below, 0 .. k - 1)
    BY <2>1, <2>2, Fun_IsInj
  <2>4. IsFiniteSet(0 .. k - 1) /\ Cardinality(0 .. k - 1) = k
    <3>1. k \in Nat /\ 0 \in Int /\ k - 1 \in Int
      BY DEF Places
    <3>2. /\ IsFiniteSet(0 .. k - 1)
          /\ Cardinality(0 .. k - 1) = IF 0 > k - 1 THEN 0 ELSE (k - 1) - 0 + 1
      BY <3>1, FS_Interval, Zenon
    <3> QED
      BY <3>1, <3>2
  <2> QED
    BY <2>3, <2>4, FS_Injection
<1>4. k < Cardinality(atMost)
  <2> DEFINE h == [q \in 0 .. k |-> p[q]]
  <2>1. ASSUME NEW q \in 0 .. k PROVE q \in Places(n) /\ p[q] \in atMost
    <3>1. q \in Places(n) /\ (q < k \/ q = k)
      BY DEF Places
    <3>2. g[q] <= g[k] /\ w[p[q]] = g[q] /\ p[q] \in 1 .. n
      BY <1>1, <3>1
    <3> QED
      BY <3>1, <3>2
  <2>2. \A a, b \in 0 .. k : h[a] = h[b] => a = b
    BY <1>1, <2>1
  <2>3. h \in Injection(0 .. k, atMost)
    BY <2>1, <2>2, Fun_IsInj
  <2>4. IsFiniteSet(atMost)
    BY FS_Interval, FS_Subset
  <2>5. Cardinality(0 .. k) = k + 1 /\ Cardinality(atMost) \in Nat
    BY <2>4, FS_Interval, FS_CardinalityType DEF Places
  <2>6. Cardinality(0 .. k) <= Cardinality(atMost)
    BY <2>3, <2>4, FS_Injection
  <2> QED
    BY <2>5, <2>6 DEF Places
<1> QED
  BY <1>3, <1>4 DEF Below, AtMost
=============================================================================
