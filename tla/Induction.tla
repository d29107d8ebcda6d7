------------------------------ MODULE Induction ------------------------------
(***************************************************************************)
(* Induction without operator parameters.  The library states induction    *)
(* for a predicate P(_), which the provers cannot instantiate.  The lemmas *)
(* here state what the models need of it for sets and functions instead:   *)
(* a set of naturals has a least element, a bounded one a greatest, a      *)
(* sequence of values defined step by step exists, and a sum of integers   *)
(* is an integer.  All of them come from the library's theorem that a      *)
(* well-founded relation has minimal elements.                             *)
(***************************************************************************)
EXTENDS Integers, FiniteSetsExt, FiniteSetTheorems, WellFoundedInduction, TLAPS

(* Least number principle. *)
LEMMA LeastNatural ==
  ASSUME NEW T \in SUBSET Nat, T # {}
  PROVE  \E n \in T : \A k \in T : n <= k
<1> DEFINE R == OpToRel(<, Nat)
<1>1. \E n \in T : \A k \in T : ~(<<k, n>> \in R)
  <2>1. IsWellFoundedOn(R, Nat)
    BY NatLessThanWellFounded
  <2>2. T \subseteq Nat
    OBVIOUS
  <2> HIDE DEF R
  <2> QED
    BY <2>1, <2>2, WFMin
<1>2. PICK n \in T : \A k \in T : ~(<<k, n>> \in R)
  BY <1>1
<1>3. ASSUME NEW k \in T
      PROVE  n <= k
  <2>1. <<k, n>> \in R <=> k < n
    BY DEF OpToRel
  <2>2. ~(k < n)
    BY <1>2, <2>1
  <2> QED
    BY <2>2
<1> QED
  BY <1>3

(* A bounded set of naturals has a greatest element. *)
LEMMA GreatestNatural ==
  ASSUME NEW b \in Nat, NEW T \in SUBSET (0 .. b), T # {}
  PROVE  \E n \in T : \A k \in T : k <= n
<1> DEFINE above == {u \in Nat : \A k \in T : k <= u}
<1>1. b \in above
  OBVIOUS
<1>2. PICK n \in above : \A u \in above : n <= u
  BY <1>1, LeastNatural, Zenon
<1>3. n \in Nat /\ \A k \in T : k <= n
  BY <1>2
<1>4. n \in T
  <2>1. SUFFICES ASSUME n \notin T
                 PROVE  FALSE
    OBVIOUS
  <2>2. PICK k \in T : TRUE
    OBVIOUS
  <2>3. \A j \in T : j <= n - 1 /\ j \in Nat
    BY <1>3, <2>1
  <2>4. n - 1 \in above
    BY <2>2, <2>3, <1>3
  <2> QED
    BY <1>2, <1>3, <2>4
<1> QED
  BY <1>3, <1>4

(* The least of naturals, as Min chooses it. *)
LEMMA MinOfNaturals ==
  ASSUME NEW T \in SUBSET Nat, T # {}
  PROVE  Min(T) \in T /\ \A k \in T : Min(T) <= k
BY LeastNatural, Zenon DEF Min

(* The greatest of naturals that are bounded, as Max chooses it. *)
LEMMA MaxOfNaturals ==
  ASSUME NEW b \in Nat, NEW T \in SUBSET (0 .. b), T # {}
  PROVE  Max(T) \in T /\ \A k \in T : k <= Max(T)
<1>1. \E n \in T : \A k \in T : k <= n
  BY GreatestNatural
<1>2. \E n \in T : \A k \in T : n >= k
  BY <1>1
<1>3. Max(T) \in T /\ \A k \in T : Max(T) >= k
  BY <1>2, Zenon DEF Max
<1> QED
  BY <1>3

Climbs(T, lo, hi) ==
  lo \in T /\ \A k \in lo .. hi - 1 : k \in T => k + 1 \in T

(* A set that an induction starts with and every step stays in.  The usual *)
(* form of a proof by induction over an interval.                          *)
LEMMA IntervalInduction ==
  ASSUME NEW lo \in Int, NEW hi \in Int, NEW T, Climbs(T, lo, hi)
  PROVE  \A k \in lo .. hi : k \in T
<1>c. lo \in T /\ \A k \in lo .. hi - 1 : k \in T => k + 1 \in T
  BY DEF Climbs
<1> DEFINE bad == {n \in Nat : lo + n <= hi /\ lo + n \notin T}
<1>1. SUFFICES ASSUME bad # {}
               PROVE  FALSE
  <2>1. ASSUME NEW k \in lo .. hi, k \notin T
        PROVE  k - lo \in bad
    BY <2>1
  <2> QED
    BY <1>1, <2>1
<1>2. PICK n \in bad : \A j \in bad : n <= j
  BY <1>1, LeastNatural, Zenon
<1>3. n \in Nat /\ lo + n <= hi /\ lo + n \notin T
  BY <1>2
<1>4. n # 0
  BY <1>c, <1>3
<1>5. n - 1 \in Nat /\ n - 1 \notin bad
  BY <1>2, <1>3, <1>4
<1>6. lo + (n - 1) \in T /\ lo + (n - 1) \in lo .. hi - 1
  BY <1>3, <1>5
<1>7. (lo + (n - 1)) + 1 = lo + n
  BY <1>3
<1> QED
  BY <1>c, <1>3, <1>6, <1>7

StepFunctions(S, hi) == [S \X (1 .. hi) -> S]

Stepwise(g, S, a, F, hi) ==
  /\ g \in [0 .. hi -> S]
  /\ g[0] = a
  /\ \A i \in 1 .. hi : g[i] = F[<<g[i - 1], i>>]

(* There is a function whose value at 0 is a and whose every later value   *)
(* is computed from the one before: F[<<x, i>>] is the value at i when x   *)
(* is the value at i - 1.                                                  *)
LEMMA StepwiseExists ==
  ASSUME NEW hi \in Nat, NEW S, NEW a \in S, NEW F \in StepFunctions(S, hi)
  PROVE  \E g : Stepwise(g, S, a, F, hi)
<1> DEFINE Upto(k) == {g \in [0 .. k -> S] :
                         /\ g[0] = a
                         /\ \A i \in 1 .. k : g[i] = F[<<g[i - 1], i>>]}
           T == {k \in 0 .. hi : Upto(k) # {}}
<1> USE DEF StepFunctions
<1>1. 0 \in T
  <2>1. [i \in 0 .. 0 |-> a] \in Upto(0)
    OBVIOUS
  <2> QED
    BY <2>1
<1>2. ASSUME NEW k \in 0 .. hi - 1, k \in T
      PROVE  k + 1 \in T
  <2>1. PICK g \in Upto(k) : TRUE
    BY <1>2
  <2>2. /\ g \in [0 .. k -> S] /\ g[0] = a
        /\ \A i \in 1 .. k : g[i] = F[<<g[i - 1], i>>]
    BY <2>1
  <2>3. F[<<g[k], k + 1>>] \in S
    <3>1. g[k] \in S /\ k + 1 \in 1 .. hi
      BY <2>2
    <3> QED
      BY <3>1
  <2> DEFINE h == [i \in 0 .. k + 1 |->
                     IF i <= k THEN g[i] ELSE F[<<g[k], k + 1>>]]
  <2>4. h \in [0 .. k + 1 -> S]
    BY <2>2, <2>3
  <2>5. h[0] = a
    BY <2>2
  <2>6. ASSUME NEW i \in 1 .. k + 1
        PROVE  h[i] = F[<<h[i - 1], i>>]
    <3>1. i - 1 \in 0 .. k /\ h[i - 1] = g[i - 1]
      OBVIOUS
    <3>2. CASE i <= k
      <4>1. h[i] = g[i] /\ i \in 1 .. k
        BY <3>2
      <4> HIDE DEF h
      <4> QED
        BY <2>2, <3>1, <4>1
    <3>3. CASE i = k + 1
      <4>1. h[i] = F[<<g[k], k + 1>>] /\ i - 1 = k
        BY <3>3
      <4> HIDE DEF h
      <4> QED
        BY <3>1, <3>3, <4>1
    <3> QED
      BY <3>2, <3>3
  <2> HIDE DEF h
  <2>7. h \in Upto(k + 1)
    BY <2>4, <2>5, <2>6
  <2> QED
    BY <2>7
<1> HIDE DEF T
<1>i. Climbs(T, 0, hi)
  BY <1>1, <1>2 DEF Climbs
<1>3. \A k \in 0 .. hi : k \in T
  BY <1>i, IntervalInduction
<1>4. hi \in T
  BY <1>3
<1> QED
  BY <1>4 DEF T, Stepwise

(* Of finitely many integers one is the least. *)
LEMMA LeastOfMany ==
  ASSUME NEW n \in Nat, NEW f, \A i \in 0 .. n : f[i] \in Int
  PROVE  \E i \in 0 .. n : \A j \in 0 .. n : f[i] <= f[j]
<1> DEFINE T == {k \in 0 .. n : \E i \in 0 .. k : \A j \in 0 .. k : f[i] <= f[j]}
<1>1. 0 \in T
  OBVIOUS
<1>2. ASSUME NEW k \in 0 .. n - 1, k \in T
      PROVE  k + 1 \in T
  <2>1. PICK i \in 0 .. k : \A j \in 0 .. k : f[i] <= f[j]
    BY <1>2
  <2>2. f[i] \in Int /\ f[k + 1] \in Int /\ \A j \in 0 .. k : f[j] \in Int
    OBVIOUS
  <2>3. \A j \in 0 .. k + 1 : j = k + 1 \/ j \in 0 .. k
    OBVIOUS
  <2>4. CASE f[i] <= f[k + 1]
    <3>1. \A j \in 0 .. k + 1 : f[i] <= f[j]
      BY <2>1, <2>3, <2>4
    <3> QED
      BY <3>1
  <2>5. CASE f[k + 1] < f[i]
    <3>1. \A j \in 0 .. k + 1 : f[k + 1] <= f[j]
      BY <2>1, <2>2, <2>3, <2>5
    <3> QED
      BY <3>1
  <2> QED
    BY <2>2, <2>4, <2>5
<1> HIDE DEF T
<1>i. Climbs(T, 0, n)
  BY <1>1, <1>2 DEF Climbs
<1>3. \A k \in 0 .. n : k \in T
  BY <1>i, IntervalInduction
<1>4. n \in T
  BY <1>3
<1> QED
  BY <1>4 DEF T

(* The sum over a set of rows of one entry, w, of each. *)
SumAt(rows, w, S) == MapThenSumSet(LAMBDA v : rows[v][w], S)

(* MapThenSumSet is defined by recursion on the subsets: the sums over the  *)
(* subsets of a set, each one element and the sum over the others.         *)
PickOf(s) == CHOOSE x \in s : TRUE

SumTable(h, rows, w, S) ==
  /\ h \in [SUBSET S -> Int]
  /\ \A s \in SUBSET S :
       /\ h[s] = SumAt(rows, w, s)
       /\ h[s] = IF s = {} THEN 0
                 ELSE rows[PickOf(s)][w] + h[s \ {PickOf(s)}]

(* There is such a table.                                                  *)
LEMMA SumTableExists ==
  ASSUME NEW S, IsFiniteSet(S), NEW rows, NEW w,
         \A v \in S : rows[v][w] \in Int
  PROVE  \E h : SumTable(h, rows, w, S)
<1> DEFINE pick(s) == PickOf(s)
           Sums(h, s) == h[s] = IF s = {} THEN 0
                                ELSE rows[pick(s)][w] + h[s \ {pick(s)}]
           Good(k) == {h \in [SUBSET S -> Int] :
                         \A s \in SUBSET S : Cardinality(s) <= k => Sums(h, s)}
           T == {k \in 0 .. Cardinality(S) : Good(k) # {}}
<1>1. /\ Cardinality(S) \in Nat
      /\ \A s \in SUBSET S : /\ Cardinality(s) \in 0 .. Cardinality(S)
                             /\ Cardinality(s) = 0 <=> s = {}
  BY FS_CardinalityType, FS_Subset, FS_EmptySet
<1>2. ASSUME NEW s \in SUBSET S, s # {}
      PROVE  /\ pick(s) \in s
             /\ s \ {pick(s)} \in SUBSET S
             /\ Cardinality(s \ {pick(s)}) = Cardinality(s) - 1
             /\ rows[pick(s)][w] \in Int
  <2>1. pick(s) \in s
    BY <1>2 DEF PickOf
  <2> HIDE DEF pick
  <2>2. IsFiniteSet(s)
    BY FS_Subset
  <2> QED
    BY <2>1, <2>2, FS_RemoveElement
<1> HIDE DEF pick
<1>3. 0 \in T
  <2> DEFINE h == [s \in SUBSET S |-> 0]
  <2>1. h \in [SUBSET S -> Int]
    OBVIOUS
  <2>2. ASSUME NEW s \in SUBSET S, Cardinality(s) <= 0
        PROVE  Sums(h, s)
    BY <1>1, <2>2
  <2> HIDE DEF h, Sums
  <2>3. h \in Good(0)
    BY <2>1, <2>2
  <2> QED
    BY <1>1, <2>3
<1>4. ASSUME NEW k \in 0 .. Cardinality(S) - 1, k \in T
      PROVE  k + 1 \in T
  <2>1. PICK h \in Good(k) : TRUE
    BY <1>4
  <2>2. /\ h \in [SUBSET S -> Int]
        /\ \A s \in SUBSET S : Cardinality(s) <= k => Sums(h, s)
    BY <2>1
  <2> DEFINE g == [s \in SUBSET S |->
                     IF s = {} \/ Cardinality(s) <= k THEN h[s]
                     ELSE rows[pick(s)][w] + h[s \ {pick(s)}]]
  <2>3. g \in [SUBSET S -> Int]
    <3>1. ASSUME NEW s \in SUBSET S
          PROVE  g[s] \in Int
      BY <1>2, <2>2
    <3> QED
      BY <3>1
  <2>4. ASSUME NEW s \in SUBSET S, Cardinality(s) <= k + 1
        PROVE  Sums(g, s)
    <3>1. CASE s = {}
      <4>1. Sums(h, s)
        <5>1. Cardinality(s) <= k
          BY <1>1, <3>1
        <5> QED
          BY <2>2, <5>1
      <4>2. g[s] = h[s]
        BY <3>1
      <4> HIDE DEF g
      <4> QED
        BY <3>1, <4>1, <4>2
    <3>2. CASE s # {}
      <4>1. /\ s \ {pick(s)} \in SUBSET S
            /\ Cardinality(s \ {pick(s)}) <= k
        BY <1>1, <1>2, <2>4, <3>2
      <4>2. g[s \ {pick(s)}] = h[s \ {pick(s)}]
        BY <4>1
      <4>3. g[s] = rows[pick(s)][w] + h[s \ {pick(s)}]
        BY <2>2, <3>2
      <4> HIDE DEF g
      <4> QED
        BY <3>2, <4>2, <4>3
    <3> QED
      BY <3>1, <3>2
  <2> HIDE DEF g, Sums
  <2>5. g \in Good(k + 1)
    BY <2>3, <2>4
  <2> QED
    BY <1>1, <2>5
<1>5. PICK h \in [SUBSET S -> Int] : \A s \in SUBSET S : Sums(h, s)
  <2> HIDE DEF T
  <2>i. Climbs(T, 0, Cardinality(S))
    BY <1>1, <1>3, <1>4 DEF Climbs
  <2>1. \A k \in 0 .. Cardinality(S) : k \in T
    BY <1>1, <2>i, IntervalInduction
  <2>2. Cardinality(S) \in T
    BY <1>1, <2>1
  <2>3. PICK h \in Good(Cardinality(S)) : TRUE
    BY <2>2 DEF T
  <2>4. h \in [SUBSET S -> Int]
    BY <2>3
  <2>5. ASSUME NEW s \in SUBSET S
        PROVE  Sums(h, s)
    <3>1. Cardinality(s) <= Cardinality(S)
      BY <1>1
    <3> HIDE DEF Sums
    <3> QED
      BY <2>3, <3>1
  <2> QED
    BY <2>4, <2>5
<1>6. ASSUME NEW s \in SUBSET S
      PROVE  SumAt(rows, w, s) = h[s]
  <2> DEFINE g == [r \in SUBSET s |-> h[r]]
             P(it) == it = [r \in SUBSET s |->
                              IF r = {} THEN 0
                              ELSE rows[pick(r)][w] + it[r \ {pick(r)}]]
  <2>1. P(g)
    <3>1. ASSUME NEW r \in SUBSET s
          PROVE  g[r] = IF r = {} THEN 0
                        ELSE rows[pick(r)][w] + g[r \ {pick(r)}]
      <4>1. r \in SUBSET S /\ r \ {pick(r)} \in SUBSET s
        OBVIOUS
      <4>2. Sums(h, r)
        BY <1>5, <4>1
      <4> QED
        BY <4>1, <4>2
    <3> QED
      BY <3>1
  <2>2. ASSUME NEW iter, P(iter)
        PROVE  iter = g
    <3>1. SUFFICES ASSUME iter # g
                   PROVE  FALSE
      OBVIOUS
    <3> DEFINE off == {r \in SUBSET s : iter[r] # h[r]}
               sizes == {Cardinality(r) : r \in off}
    <3>2. sizes # {} /\ sizes \in SUBSET Nat
      <4>1. PICK r \in SUBSET s : iter[r] # h[r]
        BY <2>2, <3>1
      <4>2. Cardinality(r) \in sizes
        BY <4>1
      <4>3. \A q \in off : Cardinality(q) \in Nat
        BY <1>1
      <4> QED
        BY <4>2, <4>3
    <3>3. PICK n \in sizes : \A m \in sizes : n <= m
      BY <3>2, LeastNatural, Zenon
    <3>4. PICK r \in SUBSET s : iter[r] # h[r] /\ n = Cardinality(r)
      BY <3>3
    <3>5. Sums(h, r) /\ r \in SUBSET S
      BY <1>5
    <3>6. r # {}
      BY <2>2, <3>4, <3>5
    <3>7. iter[r \ {pick(r)}] # h[r \ {pick(r)}]
      BY <2>2, <3>4, <3>5, <3>6
    <3>8. Cardinality(r \ {pick(r)}) \in sizes
      <4>1. r \ {pick(r)} \in off
        BY <3>7
      <4> QED
        BY <4>1
    <3>9. n <= n - 1 /\ n \in Nat
      BY <1>1, <1>2, <3>3, <3>4, <3>5, <3>6, <3>8
    <3> QED
      BY <3>9
  <2>3. (CHOOSE it : P(it)) = g
    <3> HIDE DEF P, g
    <3>1. P(CHOOSE it : P(it))
      BY <2>1, Zenon
    <3> QED
      BY <2>2, <3>1, Zenon
  <2>4. SumAt(rows, w, s) = g[s]
    BY <2>3 DEF SumAt, MapThenSumSet, MapThenFoldSet, pick, PickOf
  <2> QED
    BY <2>4
<1> QED
  BY <1>5, <1>6 DEF SumTable, pick

(* Such a sum over a finite set is an integer. *)
LEMMA SumIsInt ==
  ASSUME NEW S, IsFiniteSet(S), NEW rows, NEW w,
         \A v \in S : rows[v][w] \in Int
  PROVE  SumAt(rows, w, S) \in Int
<1>1. PICK h : SumTable(h, rows, w, S)
  BY SumTableExists
<1> QED
  BY <1>1 DEF SumTable

(* No rows sum to zero. *)
LEMMA SumNone ==
  ASSUME NEW rows, NEW w
  PROVE  SumAt(rows, w, {}) = 0
<1>1. IsFiniteSet({}) /\ \A v \in {} : rows[v][w] \in Int
  BY FS_EmptySet
<1>2. PICK h : SumTable(h, rows, w, {})
  BY <1>1, SumTableExists
<1>3. {} \in SUBSET {}
  OBVIOUS
<1> QED
  BY <1>2, <1>3 DEF SumTable

(* The sum over one row more is its entry more.                            *)
AddsOne(rows, w, S, x) ==
  SumAt(rows, w, S \cup {x}) = SumAt(rows, w, S) + rows[x][w]

(* That is so of every row, not just of the one that the recursion picks.  *)
LEMMA SumAdds ==
  ASSUME NEW S, IsFiniteSet(S), NEW x, x \notin S, NEW rows, NEW w,
         \A v \in S \cup {x} : rows[v][w] \in Int
  PROVE  AddsOne(rows, w, S, x)
<1> DEFINE U == S \cup {x}
           Adds(h, s, y) == h[s] = h[s \ {y}] + rows[y][w]
<1>1. IsFiniteSet(U)
  BY FS_AddElement
<1>2. \A v \in U : rows[v][w] \in Int
  OBVIOUS
<1>3. S \in SUBSET U /\ {} \in SUBSET U /\ U \ {x} = S
  OBVIOUS
<1> HIDE DEF U
<1>4. PICK h : SumTable(h, rows, w, U)
  BY <1>1, <1>2, SumTableExists
<1>h. /\ \A s \in SUBSET U : h[s] \in Int /\ h[s] = SumAt(rows, w, s)
      /\ h[{}] = 0
      /\ \A s \in SUBSET U : s # {} =>
           h[s] = rows[PickOf(s)][w] + h[s \ {PickOf(s)}]
  BY <1>3, <1>4 DEF SumTable
<1>5. ASSUME NEW s \in SUBSET U, NEW y \in s
      PROVE  /\ Cardinality(s) \in Nat /\ s \ {y} \in SUBSET U
             /\ Cardinality(s \ {y}) = Cardinality(s) - 1
  BY <1>1, FS_Subset, FS_RemoveElement, FS_CardinalityType
<1>6. \A s \in SUBSET U : \A y \in s : Adds(h, s, y)
  <2> DEFINE off == {s \in SUBSET U : \E y \in s : ~Adds(h, s, y)}
             sizes == {Cardinality(s) : s \in off}
  <2>1. SUFFICES ASSUME off # {}
                 PROVE  FALSE
    OBVIOUS
  <2>2. sizes # {} /\ sizes \in SUBSET Nat
    <3>1. \A s \in off : Cardinality(s) \in Nat
      BY <1>5
    <3> QED
      BY <2>1, <3>1
  <2>3. PICK n \in sizes : \A m \in sizes : n <= m
    BY <2>2, LeastNatural, Zenon
  <2>4. PICK s \in SUBSET U : n = Cardinality(s) /\ \E y \in s : ~Adds(h, s, y)
    BY <2>3
  <2>5. PICK y \in s : ~Adds(h, s, y)
    BY <2>4
  <2>6. PICK c \in s : h[s] = rows[c][w] + h[s \ {c}]
    <3>1. s # {} /\ PickOf(s) \in s
      BY <2>5 DEF PickOf
    <3> QED
      BY <1>h, <3>1
  <2>7. rows[c][w] \in Int /\ rows[y][w] \in Int
    BY <1>2
  <2>8. /\ s \ {c} \in SUBSET U /\ s \ {y} \in SUBSET U
        /\ (s \ {c}) \ {y} \in SUBSET U
        /\ (s \ {c}) \ {y} = (s \ {y}) \ {c}
    OBVIOUS
  <2>9. CASE c = y
    <3>1. h[s \ {c}] \in Int
      BY <1>h, <2>8
    <3> QED
      BY <2>5, <2>6, <2>7, <2>9, <3>1
  <2>10. CASE c # y
    <3>1. n \in Nat /\ n - 1 \notin sizes
      <4>1. n \in Nat
        <5> HIDE DEF sizes
        <5> QED
          BY <2>2, <2>3
      <4>2. \A m \in sizes : n <= m
        BY <2>3
      <4>3. ~ (n <= n - 1)
        BY <4>1
      <4> HIDE DEF sizes
      <4> QED
        BY <4>1, <4>2, <4>3
    <3>2. /\ Cardinality(s \ {c}) = n - 1
          /\ Cardinality(s \ {y}) = n - 1
      BY <1>5, <2>4
    <3>3. s \ {c} \notin off /\ s \ {y} \notin off
      BY <3>1, <3>2
    <3>4. Adds(h, s \ {c}, y)
      BY <2>8, <2>10, <3>3
    <3>5. Adds(h, s \ {y}, c)
      BY <2>8, <2>10, <3>3
    <3>6. PICK i \in Int, j \in Int, k \in Int :
            i = h[s \ {c}] /\ j = h[s \ {y}] /\ k = h[(s \ {c}) \ {y}]
      BY <1>h, <2>8
    <3>7. i = k + rows[y][w] /\ j = k + rows[c][w]
      BY <2>8, <3>4, <3>5, <3>6
    <3>8. h[s] = rows[c][w] + i
      BY <2>6, <3>6
    <3>9. h[s] = j + rows[y][w]
      BY <2>7, <3>7, <3>8
    <3> QED
      BY <2>5, <3>6, <3>9
  <2> QED
    BY <2>9, <2>10
<1>7. h[U] = h[S] + rows[x][w]
  <2>1. U \in SUBSET U /\ x \in U
    BY DEF U
  <2>2. Adds(h, U, x)
    BY <1>6, <2>1
  <2> QED
    BY <1>3, <2>2
<1> QED
  BY <1>3, <1>7, <1>h DEF U, AddsOne
=============================================================================
