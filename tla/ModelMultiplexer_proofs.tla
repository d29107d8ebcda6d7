------------------------ MODULE ModelMultiplexer_proofs ------------------------
(***************************************************************************)
(* Theorems about the stack of simple models, for any number of levels,    *)
(* any characters and delimiters, texts of any length and summaries of any *)
(* number of words.                                                        *)
(***************************************************************************)
EXTENDS ModelMultiplexer, Induction, SequenceTheorems

(***************************************************************************)
(* Folds.  FoldLeft is defined by recursion on the sets of places of a     *)
(* sequence, the last place first.                                         *)
(***************************************************************************)

(* The places up to the k-th: the last of them, and those before it. *)
LEMMA LastPlace ==
  ASSUME NEW k \in Nat \ {0}
  PROVE  Max(1 .. k) = k /\ (1 .. k) \ {k} = 1 .. k - 1
<1>1. 1 .. k \in SUBSET (0 .. k) /\ 1 .. k # {}
  OBVIOUS
<1>2. Max(1 .. k) \in 1 .. k /\ \A j \in 1 .. k : j <= Max(1 .. k)
  BY <1>1, MaxOfNaturals
<1>3. k \in 1 .. k
  OBVIOUS
<1>4. PICK m \in 1 .. k : m = Max(1 .. k)
  BY <1>2
<1>5. k <= m
  BY <1>2, <1>3, <1>4
<1>6. m = k
  BY <1>4, <1>5
<1> QED
  BY <1>4, <1>6

FoldStep(h, seq, a, F, s) ==
  h[s] = IF s = {} THEN a ELSE F[<<h[s \ {Max(s)}], seq[Max(s)]>>]

FoldTable(h, n, S, seq, a, F) ==
  /\ h \in [SUBSET (1 .. n) -> S]
  /\ \A s \in SUBSET (1 .. n) : FoldStep(h, seq, a, F, s)

(* A fold with a step that stays in a set exists. *)
LEMMA FoldExists ==
  ASSUME NEW n \in Nat, NEW S, NEW T, NEW a \in S, NEW F \in [S \X T -> S],
         NEW seq, \A i \in 1 .. n : seq[i] \in T
  PROVE  \E h : FoldTable(h, n, S, seq, a, F)
<1> DEFINE P == SUBSET (1 .. n)
           Good(k) == {h \in [P -> S] :
                         \A s \in SUBSET (1 .. k) : FoldStep(h, seq, a, F, s)}
           T1 == {k \in 0 .. n : Good(k) # {}}
<1>1. 0 \in T1
  <2> DEFINE h == [s \in P |-> a]
  <2>1. h \in [P -> S]
    OBVIOUS
  <2>2. ASSUME NEW s \in SUBSET (1 .. 0)
        PROVE  FoldStep(h, seq, a, F, s)
    <3>1. s = {} /\ s \in P
      OBVIOUS
    <3>2. h[s] = a
      BY <3>1
    <3> HIDE DEF h
    <3> QED
      BY <3>1, <3>2 DEF FoldStep
  <2> HIDE DEF h
  <2>3. h \in Good(0)
    BY <2>1, <2>2
  <2> QED
    BY <2>3
<1>2. ASSUME NEW k \in 0 .. n - 1, k \in T1
      PROVE  k + 1 \in T1
  <2>1. PICK h \in Good(k) : TRUE
    BY <1>2
  <2>2. /\ h \in [P -> S]
        /\ \A s \in SUBSET (1 .. k) : FoldStep(h, seq, a, F, s)
    BY <2>1
  <2>3. seq[k + 1] \in T
    OBVIOUS
  <2>4. ASSUME NEW s \in SUBSET (1 .. k + 1), s \notin SUBSET (1 .. k)
        PROVE  /\ k + 1 \in s /\ Max(s) = k + 1
               /\ s \ {k + 1} \in SUBSET (1 .. k) /\ s \ {k + 1} \in P
               /\ s \in P
    <3>1. k + 1 \in s
      BY <2>4
    <3>2. s \in SUBSET (0 .. k + 1) /\ k + 1 \in Nat /\ s # {}
      BY <3>1
    <3>3. Max(s) \in s /\ \A j \in s : j <= Max(s)
      BY <3>2, MaxOfNaturals
    <3>4. Max(s) = k + 1
      <4>1. PICK m \in 1 .. k + 1 : m = Max(s)
        BY <3>3
      <4>2. k + 1 <= m
        BY <3>1, <3>3, <4>1
      <4> QED
        BY <4>1, <4>2
    <3> QED
      BY <3>1, <3>4
  <2> DEFINE g == [s \in P |-> IF s \in SUBSET (1 .. k) THEN h[s]
                               ELSE IF s \in SUBSET (1 .. k + 1)
                                 THEN F[<<h[s \ {k + 1}], seq[k + 1]>>]
                               ELSE a]
  <2>5. g \in [P -> S]
    <3>1. ASSUME NEW s \in P
          PROVE  g[s] \in S
      <4>1. CASE s \in SUBSET (1 .. k)
        BY <2>2, <4>1
      <4>2. CASE s \notin SUBSET (1 .. k) /\ s \in SUBSET (1 .. k + 1)
        <5>1. h[s \ {k + 1}] \in S
          BY <2>2, <2>4, <4>2
        <5>2. g[s] = F[<<h[s \ {k + 1}], seq[k + 1]>>]
          BY <4>2
        <5> HIDE DEF g
        <5> QED
          BY <2>3, <5>1, <5>2
      <4>3. CASE s \notin SUBSET (1 .. k) /\ s \notin SUBSET (1 .. k + 1)
        BY <4>3
      <4> QED
        BY <4>1, <4>2, <4>3
    <3> QED
      BY <3>1
  <2>6. ASSUME NEW s \in SUBSET (1 .. k + 1)
        PROVE  FoldStep(g, seq, a, F, s)
    <3>1. \A r \in SUBSET (1 .. k) : r \in P /\ g[r] = h[r]
      OBVIOUS
    <3>2. CASE s \in SUBSET (1 .. k)
      <4>1. FoldStep(h, seq, a, F, s)
        BY <2>2, <3>2
      <4>2. s \ {Max(s)} \in SUBSET (1 .. k)
        BY <3>2
      <4> HIDE DEF g
      <4> QED
        BY <3>1, <3>2, <4>1, <4>2 DEF FoldStep
    <3>3. CASE s \notin SUBSET (1 .. k)
      <4>1. g[s] = F[<<h[s \ {k + 1}], seq[k + 1]>>] /\ s # {}
        BY <2>4, <3>3
      <4>2. g[s \ {k + 1}] = h[s \ {k + 1}]
        BY <2>4, <3>1, <3>3
      <4> HIDE DEF g
      <4> QED
        BY <2>4, <3>3, <4>1, <4>2 DEF FoldStep
    <3> QED
      BY <3>2, <3>3
  <2> HIDE DEF g
  <2>7. g \in Good(k + 1)
    BY <2>5, <2>6
  <2> QED
    BY <2>7
<1> HIDE DEF T1
<1>3. Climbs(T1, 0, n)
  BY <1>1, <1>2 DEF Climbs
<1>4. \A k \in 0 .. n : k \in T1
  BY <1>3, IntervalInduction
<1>5. n \in T1
  BY <1>4
<1> QED
  BY <1>5 DEF T1, FoldTable

(***************************************************************************)
(* The summary.                                                            *)
(***************************************************************************)

(* The list top with i behind its first j, its last dropped if it is full. *)
Inserted(top, i, j) ==
  [n \in 1 .. (IF Len(top) < top_word_number THEN Len(top) + 1 ELSE Len(top)) |->
     IF n <= j THEN top[n] ELSE IF n = j + 1 THEN i ELSE top[n - 1]]

(* Where print_summary puts word i. *)
PlaceFor(p, top, i, j) ==
  /\ j \in 0 .. Len(top)
  /\ j > 0 => p.counts[top[j]] >= p.counts[i]
  /\ \A n \in j + 1 .. Len(top) : ~ (p.counts[top[n]] >= p.counts[i])

(* Ranked puts a word behind the words that are as frequent. *)
LEMMA RankedInserts ==
  ASSUME NEW p, NEW N \in Nat, NEW top \in Seq(1 .. N), NEW i \in 1 .. N
  PROVE  \E j : PlaceFor(p, top, i, j) /\ Ranked(p, top, i) = Inserted(top, i, j)
<1> DEFINE AtLeast == {n \in DOMAIN top : p.counts[top[n]] >= p.counts[i]}
           j == IF AtLeast = {} THEN 0
                ELSE CHOOSE n \in AtLeast : \A m \in AtLeast : m <= n
           grown == IF Len(top) < top_word_number THEN Append(top, i) ELSE top
<1>1. PICK L \in Nat : L = Len(top) /\ DOMAIN top = 1 .. L
  BY LenProperties
<1>2. PlaceFor(p, top, i, j)
  <2>1. CASE AtLeast = {}
    <3>1. j = 0
      BY <2>1
    <3>2. \A n \in 1 .. L : ~ (p.counts[top[n]] >= p.counts[i])
      BY <1>1, <2>1
    <3> HIDE DEF j
    <3> QED
      BY <1>1, <3>1, <3>2 DEF PlaceFor
  <2>2. CASE AtLeast # {}
    <3>1. AtLeast \in SUBSET (0 .. L)
      BY <1>1
    <3>2. \E n \in AtLeast : \A m \in AtLeast : m <= n
      <4> HIDE DEF AtLeast
      <4> QED
        BY <1>1, <2>2, <3>1, GreatestNatural
    <3>3. j \in AtLeast /\ \A m \in AtLeast : m <= j
      <4> HIDE DEF AtLeast
      <4>1. j = CHOOSE n \in AtLeast : \A m \in AtLeast : m <= n
        BY <2>2
      <4> QED
        BY <3>2, <4>1, Zenon
    <3> HIDE DEF j
    <3>4. j \in 1 .. L /\ p.counts[top[j]] >= p.counts[i]
      BY <1>1, <3>3
    <3>5. ASSUME NEW n \in j + 1 .. L
          PROVE  ~ (p.counts[top[n]] >= p.counts[i])
      <4>1. n \in 1 .. L /\ ~ (n <= j)
        BY <3>4
      <4>2. n \notin AtLeast
        BY <3>3, <4>1
      <4> QED
        BY <1>1, <4>1, <4>2
    <3> QED
      BY <1>1, <3>4, <3>5 DEF PlaceFor
  <2> QED
    BY <2>1, <2>2
<1>3. Ranked(p, top, i) = [n \in DOMAIN grown |-> CASE n <= j -> top[n]
                               [] n = j + 1 -> i
                               [] OTHER -> top[n - 1]]
  BY DEF Ranked
<1> HIDE DEF j, AtLeast
<1>4. j \in Nat
  BY <1>1, <1>2 DEF PlaceFor
<1>5. DOMAIN grown =
        1 .. (IF Len(top) < top_word_number THEN Len(top) + 1 ELSE Len(top))
  <2>1. DOMAIN Append(top, i) = 1 .. L + 1
    BY <1>1, AppendProperties
  <2> QED
    BY <1>1, <2>1
<1>6. PICK M : M = DOMAIN grown
  OBVIOUS
<1>7. M \subseteq Nat
  BY <1>1, <1>5, <1>6, TopAssumption
<1> HIDE DEF grown
<1>8. [n \in M |-> CASE n <= j -> top[n]
                     [] n = j + 1 -> i
                     [] OTHER -> top[n - 1]]
        = [n \in M |-> IF n <= j THEN top[n] ELSE IF n = j + 1 THEN i
                       ELSE top[n - 1]]
  <2>1. ASSUME NEW n \in M
        PROVE  ~ (n <= j /\ n = j + 1)
    BY <1>4, <1>7
  <2> QED
    BY <2>1
<1>9. Ranked(p, top, i) = Inserted(top, i, j)
  BY <1>3, <1>5, <1>6, <1>8 DEF Inserted
<1> QED
  BY <1>2, <1>9

(* A list with one word more is a list of words. *)
LEMMA InsertedType ==
  ASSUME NEW N \in Nat, NEW top \in Seq(1 .. N), NEW i \in 1 .. N,
         NEW j \in 0 .. Len(top)
  PROVE  Inserted(top, i, j) \in Seq(1 .. N)
<1>1. PICK L \in Nat : L = Len(top) /\ \A n \in 1 .. L : top[n] \in 1 .. N
  BY LenProperties, ElementOfSeq
<1>2. PICK M \in Nat : /\ M = IF Len(top) < top_word_number
                               THEN Len(top) + 1 ELSE Len(top)
                       /\ M <= L + 1
                       /\ Len(top) = top_word_number \/ L < M \/ L = M
  BY <1>1
<1>3. ASSUME NEW n \in 1 .. M
      PROVE  (IF n <= j THEN top[n] ELSE IF n = j + 1 THEN i ELSE top[n - 1])
               \in 1 .. N
  <2>1. CASE n <= j
    BY <1>1, <2>1
  <2>2. CASE n > j /\ n # j + 1
    <3>1. n - 1 \in 1 .. L
      BY <1>1, <1>2, <2>2
    <3> QED
      BY <1>1, <2>2, <3>1
  <2>3. CASE n = j + 1
    BY <2>3
  <2> QED
    BY <2>1, <2>2, <2>3
<1> DEFINE f == [n \in 1 .. M |-> IF n <= j THEN top[n]
                                  ELSE IF n = j + 1 THEN i ELSE top[n - 1]]
<1>4. f \in [1 .. M -> 1 .. N]
  BY <1>3
<1>5. f = Inserted(top, i, j)
  BY <1>2 DEF Inserted
<1> HIDE DEF f
<1> QED
  BY <1>4, <1>5, SeqDef

(* The list of the first k words: the most frequent, in order, and all of  *)
(* them as long as it is not full.                                         *)
Holds(top, w) == \E n \in 1 .. Len(top) : top[n] = w

TopOf(counts, top, k) ==
  /\ top \in Seq(1 .. k)
  /\ Len(top) <= top_word_number
  /\ Len(top) = top_word_number \/ \A w \in 1 .. k : Holds(top, w)
  /\ \A m, n \in 1 .. Len(top) : top[m] = top[n] => m = n
  /\ \A m, n \in 1 .. Len(top) : m < n => counts[top[m]] >= counts[top[n]]
  /\ \A w \in 1 .. k :
       ~Holds(top, w) => \A n \in 1 .. Len(top) : counts[top[n]] >= counts[w]

(* Inserting the next word where print_summary does keeps the list right.  *)
LEMMA InsertedIsTop ==
  ASSUME NEW N \in Nat, NEW counts \in [1 .. N -> Nat],
         NEW k \in Nat, k + 1 <= N, NEW top, TopOf(counts, top, k),
         NEW j \in 0 .. Len(top),
         j > 0 => counts[top[j]] >= counts[k + 1],
         \A n \in j + 1 .. Len(top) : ~ (counts[top[n]] >= counts[k + 1])
  PROVE  TopOf(counts, Inserted(top, k + 1, j), k + 1)
<1> DEFINE new == Inserted(top, k + 1, j)
<1>1. PICK L \in Nat : L = Len(top) /\ \A n \in 1 .. L : top[n] \in 1 .. k
  BY LenProperties, ElementOfSeq DEF TopOf
<1>2. PICK M \in Nat : /\ M = IF Len(top) < top_word_number
                               THEN Len(top) + 1 ELSE Len(top)
                       /\ \/ M = L + 1 /\ L < top_word_number
                          \/ M = L /\ L = top_word_number
  BY <1>1, TopAssumption DEF TopOf
<1>3. /\ \A m, n \in 1 .. L : top[m] = top[n] => m = n
      /\ \A w \in 1 .. k : ~Holds(top, w) =>
           \A n \in 1 .. L : counts[top[n]] >= counts[w]
      /\ L = top_word_number \/ \A w \in 1 .. k : Holds(top, w)
      /\ j \in 0 .. L
  BY <1>1 DEF TopOf
<1>4. /\ DOMAIN new = 1 .. M /\ Len(new) = M
      /\ \A n \in 1 .. M : new[n] = IF n <= j THEN top[n]
                                    ELSE IF n = j + 1 THEN k + 1
                                    ELSE top[n - 1]
  BY <1>1, <1>2 DEF Inserted
<1>5. new \in Seq(1 .. k + 1)
  <2>1. PICK e \in 1 .. k + 1 : e = k + 1
    OBVIOUS
  <2>2. top \in Seq(1 .. k + 1)
    <3>1. top \in Seq(1 .. k) /\ 1 .. k \subseteq 1 .. k + 1
      BY DEF TopOf
    <3> QED
      BY <3>1, SeqMonotonic
  <2>3. PICK K \in Nat : K = k + 1
    OBVIOUS
  <2>4. Inserted(top, e, j) \in Seq(1 .. K)
    BY <2>1, <2>2, <2>3, InsertedType
  <2> QED
    BY <2>1, <2>3, <2>4
<1> DEFINE a == [n \in 1 .. L |-> counts[top[n]]]
           b == counts[k + 1]
<1>6. a \in [1 .. L -> Nat] /\ b \in Nat
  BY <1>1
<1>7. /\ \A n \in 1 .. L : counts[top[n]] = a[n]
      /\ counts[k + 1] = b
  OBVIOUS
<1>8. /\ \A m, n \in 1 .. L : m < n => a[m] >= a[n]
      /\ j > 0 => a[j] >= b
      /\ \A n \in j + 1 .. L : a[n] < b
  <2>1. \A m, n \in 1 .. L : m < n => a[m] >= a[n]
    BY <1>1 DEF TopOf
  <2>2. j > 0 => a[j] >= b
    BY <1>3
  <2>3. \A n \in j + 1 .. L : ~ (a[n] >= b)
    BY <1>1, <1>3
  <2> HIDE DEF a, b
  <2>4. \A n \in j + 1 .. L : a[n] < b
    BY <1>3, <1>6, <2>3
  <2> QED
    BY <2>1, <2>2, <2>4
<1> HIDE DEF new, a, b
(* What was counted of an entry of the new list. *)
<1>9. ASSUME NEW n \in 1 .. M
      PROVE  \/ n <= j /\ n \in 1 .. L /\ new[n] = top[n]
                /\ counts[new[n]] = a[n]
             \/ n = j + 1 /\ new[n] = k + 1 /\ counts[new[n]] = b
             \/ n > j + 1 /\ n - 1 \in j + 1 .. L /\ new[n] = top[n - 1]
                /\ counts[new[n]] = a[n - 1]
  <2>1. CASE n <= j
    BY <1>3, <1>4, <1>7, <2>1
  <2>2. CASE n = j + 1
    BY <1>3, <1>4, <1>7, <2>2
  <2>3. CASE n > j + 1
    <3>1. n - 1 \in j + 1 .. L
      BY <1>2, <1>3, <2>3
    <3>2. new[n] = top[n - 1]
      BY <1>3, <1>4, <2>3
    <3> QED
      BY <1>3, <1>7, <2>3, <3>1, <3>2
  <2> QED
    BY <1>3, <2>1, <2>2, <2>3
<1>10. ASSUME NEW m \in 1 .. M, NEW n \in 1 .. M, new[m] = new[n]
       PROVE  m = n
  <2>1. ASSUME NEW x \in 1 .. M, NEW y \in 1 .. M, x < y
        PROVE  new[x] # new[y]
    <3>1. \A q \in 1 .. L : top[q] # k + 1
      BY <1>1
    <3>2. CASE y <= j
      <4>1. x <= j /\ x \in 1 .. L /\ y \in 1 .. L
        BY <1>3, <2>1, <3>2
      <4>2. new[x] = top[x] /\ new[y] = top[y]
        BY <1>4, <3>2, <4>1
      <4> QED
        BY <1>3, <2>1, <4>1, <4>2
    <3>3. CASE y = j + 1
      <4>1. x <= j /\ x \in 1 .. L
        BY <1>3, <2>1, <3>3
      <4>2. new[x] = top[x] /\ new[y] = k + 1
        BY <1>3, <1>4, <3>3, <4>1
      <4> QED
        BY <3>1, <4>1, <4>2
    <3>4. CASE y > j + 1
      <4>1. PICK q \in j + 1 .. L : q = y - 1 /\ new[y] = top[q]
        BY <1>3, <1>9, <3>4
      <4>2. q \in 1 .. L
        BY <1>3
      <4>3. CASE x <= j
        <5>1. x \in 1 .. L /\ new[x] = top[x] /\ x # q
          BY <1>3, <1>4, <4>1, <4>3
        <5> QED
          BY <1>3, <4>1, <4>2, <5>1
      <4>4. CASE x = j + 1
        <5>1. new[x] = k + 1
          BY <1>3, <1>4, <4>4
        <5> QED
          BY <3>1, <4>1, <4>2, <5>1
      <4>5. CASE x > j + 1
        <5>0. new[x] = top[x - 1] /\ x - 1 \in j + 1 .. L
          BY <1>2, <1>3, <1>4, <4>5
        <5>1. PICK z \in j + 1 .. L : z = x - 1 /\ new[x] = top[z]
          BY <5>0
        <5>2. z \in 1 .. L /\ z # q
          BY <1>3, <2>1, <4>1, <5>1
        <5> QED
          BY <1>3, <4>1, <4>2, <5>1, <5>2
      <4> QED
        BY <1>3, <4>3, <4>4, <4>5
    <3> QED
      BY <1>3, <3>2, <3>3, <3>4
  <2>2. m < n \/ n < m \/ m = n
    OBVIOUS
  <2> QED
    BY <1>10, <2>1, <2>2
<1>11. ASSUME NEW m \in 1 .. M, NEW n \in 1 .. M, m < n
       PROVE  counts[new[m]] >= counts[new[n]]
  <2>1. CASE n <= j
    BY <1>8, <1>9, <1>11, <2>1
  <2>2. CASE n = j + 1
    <3>1. m <= j /\ counts[new[m]] = a[m] /\ counts[new[n]] = b
          /\ m \in 1 .. L /\ j \in 1 .. L /\ a[j] >= b
      BY <1>3, <1>8, <1>9, <1>11, <2>2
    <3>2. a[m] >= a[j] /\ a[m] \in Nat /\ a[j] \in Nat
      BY <1>6, <1>8, <3>1
    <3> QED
      BY <1>6, <3>1, <3>2
  <2>3. CASE n > j + 1
    <3>1. PICK q \in j + 1 .. L : q = n - 1 /\ counts[new[n]] = a[q]
      BY <1>9, <2>3, <1>3
    <3>2. a[q] < b /\ q \in 1 .. L /\ a[q] \in Nat
      BY <1>3, <1>6, <1>8
    <3>3. CASE m <= j
      <4>1. m \in 1 .. L /\ m < q
        BY <1>3, <3>1, <3>3
      <4>2. counts[new[m]] = a[m]
        BY <1>9, <3>3
      <4>3. a[m] >= a[q]
        BY <1>8, <3>2, <4>1
      <4> QED
        BY <3>1, <4>2, <4>3
    <3>4. CASE m = j + 1
      <4>1. counts[new[m]] = b
        BY <1>3, <1>9, <3>4
      <4> QED
        BY <1>6, <3>1, <3>2, <4>1
    <3>5. CASE m > j + 1
      <4>0. m - 1 \in j + 1 .. L /\ counts[new[m]] = a[m - 1]
        <5>1. m - 1 \in j + 1 .. L
          BY <1>2, <1>3, <3>5
        <5> QED
          BY <1>9, <3>5, <5>1
      <4>1. PICK r \in j + 1 .. L : r = m - 1 /\ counts[new[m]] = a[r]
        BY <4>0
      <4>2. r \in 1 .. L /\ r < q
        BY <1>3, <1>11, <3>1, <4>1
      <4> QED
        BY <1>8, <3>1, <3>2, <4>1, <4>2
    <3> QED
      BY <1>3, <3>3, <3>4, <3>5
  <2> QED
    BY <1>3, <2>1, <2>2, <2>3
<1>12. ASSUME NEW w \in 1 .. k + 1, ~Holds(new, w), NEW n \in 1 .. M
       PROVE  M = top_word_number /\ counts[new[n]] >= counts[w]
  <2>1. \A m \in 1 .. M : new[m] # w
    BY <1>4, <1>12 DEF Holds
  <2>2. CASE w = k + 1
    <3>1. j + 1 \notin 1 .. M
      <4>1. SUFFICES ASSUME j + 1 \in 1 .. M
                     PROVE  FALSE
        OBVIOUS
      <4>2. new[j + 1] = k + 1
        BY <1>3, <1>4, <4>1
      <4> QED
        BY <2>1, <2>2, <4>1, <4>2
    <3>2. j = L /\ M = L /\ L = top_word_number
      BY <1>2, <1>3, <3>1
    <3>3. n <= j /\ n \in 1 .. L /\ counts[new[n]] = a[n]
      BY <1>9, <3>2
    <3>4. a[n] >= a[j] /\ a[j] >= b
      <4>1. j \in 1 .. L /\ a[n] \in Nat
        BY <1>6, <3>2, <3>3
      <4>2. n = j \/ n < j
        BY <3>3
      <4> QED
        BY <1>8, <3>3, <4>1, <4>2
    <3>5. counts[w] = b /\ a[n] \in Nat /\ a[j] \in Nat
      BY <1>6, <1>7, <2>2, <3>2, <3>3
    <3> QED
      BY <1>6, <3>2, <3>3, <3>4, <3>5
  <2>3. CASE w # k + 1
    <3>1. w \in 1 .. k
      BY <2>3
    <3>2. ASSUME NEW q \in 1 .. L, top[q] = w
          PROVE  M = L /\ q = L /\ j < L
      <4>1. ~ (q <= j)
        <5>1. SUFFICES ASSUME q <= j
                       PROVE  FALSE
          OBVIOUS
        <5>2. q \in 1 .. M /\ new[q] = top[q]
          BY <1>2, <1>4, <5>1
        <5> QED
          BY <2>1, <3>2, <5>2
      <4>2. q + 1 \notin 1 .. M
        <5>1. SUFFICES ASSUME q + 1 \in 1 .. M
                       PROVE  FALSE
          OBVIOUS
        <5>2. new[q + 1] = top[(q + 1) - 1] /\ (q + 1) - 1 = q
          BY <1>3, <1>4, <4>1, <5>1
        <5> QED
          BY <2>1, <3>2, <5>1, <5>2
      <4> QED
        BY <1>2, <1>3, <4>1, <4>2
    <3>3. CASE Holds(top, w)
      <4>1. PICK q \in 1 .. L : top[q] = w
        BY <1>1, <3>3 DEF Holds
      <4>2. M = L /\ q = L /\ j < L /\ counts[w] = a[L]
        BY <1>7, <3>2, <4>1
      <4>3. M = top_word_number
        BY <1>2, <4>2
      <4>4. L \in 1 .. L /\ a[L] \in Nat /\ a[L] < b
        BY <1>3, <1>6, <1>8, <4>2
      <4>5. \A r \in 1 .. L : a[r] >= a[L]
        <5>1. ASSUME NEW r \in 1 .. L
              PROVE  a[r] >= a[L]
          <6>1. (r = L \/ r < L) /\ a[r] \in Nat
            BY <1>6
          <6> QED
            BY <1>8, <4>4, <6>1
        <5> QED
          BY <5>1
      <4>6. counts[new[n]] >= a[L]
        <5>1. CASE n <= j
          BY <1>9, <4>5, <5>1
        <5>2. CASE n = j + 1
          <6>1. counts[new[n]] = b
            BY <1>3, <1>9, <5>2
          <6> QED
            BY <1>6, <4>4, <6>1
        <5>3. CASE n > j + 1
          <6>1. PICK r \in j + 1 .. L : counts[new[n]] = a[r]
            BY <1>3, <1>9, <5>3
          <6>2. r \in 1 .. L
            BY <1>3
          <6> QED
            BY <4>5, <6>1, <6>2
        <5> QED
          BY <1>3, <5>1, <5>2, <5>3
      <4> QED
        BY <4>2, <4>3, <4>6
    <3>4. CASE ~Holds(top, w)
      <4>1. /\ L = top_word_number /\ M = L
            /\ \A r \in 1 .. L : a[r] >= counts[w]
        BY <1>2, <1>3, <1>7, <3>1, <3>4
      <4>2. counts[w] \in Nat
        BY <3>1
      <4>3. CASE n <= j
        BY <1>9, <4>1, <4>3
      <4>4. CASE n = j + 1
        <5>1. counts[new[n]] = b /\ n \in 1 .. L /\ n \in j + 1 .. L
          BY <1>3, <1>9, <4>1, <4>4
        <5>2. a[n] < b /\ a[n] >= counts[w] /\ a[n] \in Nat
          BY <1>6, <1>8, <4>1, <5>1
        <5> QED
          BY <1>6, <4>1, <4>2, <5>1, <5>2
      <4>5. CASE n > j + 1
        <5>1. PICK r \in j + 1 .. L : counts[new[n]] = a[r]
          BY <1>3, <1>9, <4>5
        <5>2. r \in 1 .. L
          BY <1>3
        <5> QED
          BY <4>1, <5>1, <5>2
      <4> QED
        BY <1>3, <4>1, <4>3, <4>4, <4>5
    <3> QED
      BY <3>3, <3>4
  <2> QED
    BY <2>2, <2>3
<1>13. M = top_word_number \/ \A w \in 1 .. k + 1 : Holds(new, w)
  <2>1. SUFFICES ASSUME NEW w \in 1 .. k + 1, ~Holds(new, w)
                 PROVE  M = top_word_number
    OBVIOUS
  <2>2. CASE M = 0
    BY <1>2, <2>2, TopAssumption
  <2>3. CASE M # 0
    <3>1. 1 \in 1 .. M
      BY <2>3
    <3> QED
      BY <1>12, <2>1, <3>1
  <2> QED
    BY <2>2, <2>3
<1>14. M <= top_word_number
  BY <1>2, TopAssumption
<1>15. TopOf(counts, new, k + 1)
  BY <1>4, <1>5, <1>10, <1>11, <1>12, <1>13, <1>14 DEF TopOf
<1> QED
  BY <1>15 DEF new

(* The list that print_summary makes of a parser's words. *)
LEMMA TopWords ==
  ASSUME NEW p, NEW N \in Nat, Len(p.words) = N, p.counts \in [1 .. N -> Nat]
  PROVE  TopOf(p.counts, top_words(p), N)
<1> DEFINE seq == [i \in 1 .. N |-> i]
           S == Seq(1 .. N)
           F == [z \in S \X (1 .. N) |-> Ranked(p, z[1], z[2])]
           P(it) == it = [s \in SUBSET (1 .. N) |->
                            IF s = {} THEN << >>
                            ELSE Ranked(p, it[s \ {Max(s)}], seq[Max(s)])]
           it == CHOOSE h : P(h)
<1>1. ASSUME NEW top \in S, NEW i \in 1 .. N
      PROVE  Ranked(p, top, i) \in S
  <2>1. PICK j : PlaceFor(p, top, i, j) /\ Ranked(p, top, i) = Inserted(top, i, j)
    BY RankedInserts
  <2>2. j \in 0 .. Len(top)
    BY <2>1 DEF PlaceFor
  <2> QED
    BY <2>1, <2>2, InsertedType
<1>2. F \in [S \X (1 .. N) -> S]
  BY <1>1
<1>3. << >> \in S /\ \A i \in 1 .. N : seq[i] \in 1 .. N
  BY EmptySeq
<1> HIDE DEF F
<1>4. PICK h : FoldTable(h, N, S, seq, << >>, F)
  BY <1>2, <1>3, FoldExists
<1>5. P(h)
  <2>1. h = [s \in SUBSET (1 .. N) |-> h[s]]
    BY <1>4 DEF FoldTable
  <2>2. ASSUME NEW s \in SUBSET (1 .. N)
        PROVE  h[s] = IF s = {} THEN << >>
                      ELSE Ranked(p, h[s \ {Max(s)}], seq[Max(s)])
    <3>1. FoldStep(h, seq, << >>, F, s)
      BY <1>4 DEF FoldTable
    <3>2. CASE s = {}
      BY <3>1, <3>2 DEF FoldStep
    <3>3. CASE s # {}
      <4>1. Max(s) \in 1 .. N
        <5>1. s \in SUBSET (0 .. N)
          OBVIOUS
        <5>2. Max(s) \in s
          BY <3>3, <5>1, MaxOfNaturals
        <5> QED
          BY <5>2
      <4>2. s \ {Max(s)} \in SUBSET (1 .. N)
        OBVIOUS
      <4>3. h[s \ {Max(s)}] \in S
        BY <1>4, <4>2 DEF FoldTable
      <4>4. h[s] = F[<<h[s \ {Max(s)}], seq[Max(s)]>>]
        BY <3>1, <3>3 DEF FoldStep
      <4>5. F[<<h[s \ {Max(s)}], seq[Max(s)]>>] =
              Ranked(p, h[s \ {Max(s)}], seq[Max(s)])
        BY <4>1, <4>3 DEF F
      <4> QED
        BY <3>3, <4>4, <4>5
    <3> QED
      BY <3>2, <3>3
  <2> QED
    BY <2>1, <2>2
<1>6. P(it)
  <2> HIDE DEF P
  <2> QED
    BY <1>5, Zenon
<1>7. top_words(p) = it[1 .. N]
  BY DEF top_words, FoldLeft, MapThenFoldSet
<1> HIDE DEF it
<1>8. it[1 .. 0] = << >>
  <2>1. 1 .. 0 = {} /\ {} \in SUBSET (1 .. N)
    OBVIOUS
  <2> QED
    BY <1>6, <2>1
<1>9. ASSUME NEW k \in 1 .. N
      PROVE  it[1 .. k] = Ranked(p, it[1 .. k - 1], k)
  <2>1. Max(1 .. k) = k /\ (1 .. k) \ {k} = 1 .. k - 1
    BY LastPlace
  <2>2. 1 .. k \in SUBSET (1 .. N) /\ 1 .. k # {} /\ seq[k] = k
    <3>1. \A x \in 1 .. k : x \in 1 .. N
      OBVIOUS
    <3>2. k \in 1 .. k
      OBVIOUS
    <3> QED
      BY <3>1, <3>2
  <2>3. it[1 .. k] = Ranked(p, it[(1 .. k) \ {Max(1 .. k)}], seq[Max(1 .. k)])
    BY <1>6, <2>2
  <2> HIDE DEF P, seq
  <2> QED
    BY <2>1, <2>2, <2>3
<1> HIDE DEF P
<1> DEFINE T == {k \in 0 .. N : TopOf(p.counts, it[1 .. k], k)}
<1>10. 0 \in T
  <2>1. TopOf(p.counts, << >>, 0)
    <3>1. << >> \in Seq(1 .. 0) /\ Len(<< >>) = 0
      BY EmptySeq
    <3> QED
      BY <3>1, TopAssumption DEF TopOf
  <2> QED
    BY <1>8, <2>1
<1>11. ASSUME NEW k \in 0 .. N - 1, k \in T
       PROVE  k + 1 \in T
  <2>1. PICK top : top = it[1 .. k] /\ TopOf(p.counts, top, k)
    BY <1>11
  <2>2. PICK i \in 1 .. N : i = k + 1 /\ i - 1 = k
    OBVIOUS
  <2>3. it[1 .. i] = Ranked(p, top, i)
    BY <1>9, <2>1, <2>2
  <2>4. top \in S
    <3>1. top \in Seq(1 .. k) /\ 1 .. k \subseteq 1 .. N
      BY <2>1 DEF TopOf
    <3> QED
      BY <3>1, SeqMonotonic
  <2>5. PICK j : PlaceFor(p, top, i, j) /\ Ranked(p, top, i) = Inserted(top, i, j)
    BY <2>4, RankedInserts
  <2>6. /\ j \in 0 .. Len(top)
        /\ j > 0 => p.counts[top[j]] >= p.counts[k + 1]
        /\ \A n \in j + 1 .. Len(top) : ~ (p.counts[top[n]] >= p.counts[k + 1])
    BY <2>2, <2>5 DEF PlaceFor
  <2>7. k \in Nat /\ k + 1 <= N
    OBVIOUS
  <2>8. TopOf(p.counts, Inserted(top, k + 1, j), k + 1)
    BY <2>1, <2>6, <2>7, InsertedIsTop
  <2> QED
    BY <2>2, <2>3, <2>5, <2>8
<1> HIDE DEF T
<1>12. Climbs(T, 0, N)
  BY <1>10, <1>11 DEF Climbs
<1>13. \A k \in 0 .. N : k \in T
  BY <1>12, IntervalInduction
<1>14. N \in T
  BY <1>13
<1> QED
  BY <1>7, <1>14 DEF T

(***************************************************************************)
(* Counting places.                                                        *)
(***************************************************************************)
Word == Seq(Characters)

(* How often w stands in W, and a before b. *)
Times(W, w) == Cardinality({n \in 1 .. Len(W) : W[n] = w})

Pairs(W, a, b) ==
  Cardinality({n \in 1 .. Len(W) - 1 : W[n] = a /\ W[n + 1] = b})

Occurs(W, w) == \E n \in 1 .. Len(W) : W[n] = w

(* The places of a word in a text, with one place more. *)
LEMMA PlacesCounted ==
  ASSUME NEW L \in Nat, NEW A \in SUBSET (1 .. L)
  PROVE  /\ IsFiniteSet(A) /\ Cardinality(A) \in Nat
         /\ Cardinality(A \cup {L + 1}) = Cardinality(A) + 1
         /\ Cardinality(A) = 0 <=> A = {}
<1>1. IsFiniteSet(1 .. L)
  BY FS_Interval
<1>2. IsFiniteSet(A)
  BY <1>1, FS_Subset
<1>3. L + 1 \notin A
  OBVIOUS
<1>4. Cardinality(A) \in Nat /\ (Cardinality(A) = 0 <=> A = {})
  BY <1>2, FS_CardinalityType, FS_EmptySet
<1>5. Cardinality(A \cup {L + 1}) = Cardinality(A) + 1
  BY <1>2, <1>3, FS_AddElement
<1> QED
  BY <1>2, <1>4, <1>5

(* What one word more changes. *)
LEMMA TimesAppend ==
  ASSUME NEW W \in Seq(Word), NEW w \in Word, NEW x
  PROVE  /\ Times(W, x) \in Nat
         /\ Times(Append(W, w), x) = Times(W, x) + (IF x = w THEN 1 ELSE 0)
         /\ Times(W, x) = 0 <=> ~Occurs(W, x)
<1> DEFINE V == Append(W, w)
           A == {n \in 1 .. Len(W) : W[n] = x}
           B == {n \in 1 .. Len(V) : V[n] = x}
<1>1. PICK L \in Nat : L = Len(W)
  BY LenProperties
<1>2. /\ Len(V) = L + 1 /\ V[L + 1] = w
      /\ \A n \in 1 .. L : V[n] = W[n]
  BY <1>1, AppendProperties
<1>3. A \in SUBSET (1 .. L)
  BY <1>1
<1>4. B = IF x = w THEN A \cup {L + 1} ELSE A
  <2>1. \A n \in 1 .. L + 1 : n \in 1 .. L \/ n = L + 1
    OBVIOUS
  <2>2. \A n \in 1 .. L : n \in 1 .. L + 1 /\ n # L + 1
    OBVIOUS
  <2>3. L + 1 \in 1 .. L + 1
    OBVIOUS
  <2> HIDE DEF V
  <2>4. \A n : n \in B <=> n \in 1 .. L + 1 /\ V[n] = x
    BY <1>2
  <2>5. \A n : n \in A <=> n \in 1 .. L /\ W[n] = x
    BY <1>1
  <2> HIDE DEF A, B
  <2> QED
    BY <1>2, <2>1, <2>2, <2>3, <2>4, <2>5
<1> HIDE DEF A
<1>5. /\ Cardinality(A) \in Nat
      /\ Cardinality(A \cup {L + 1}) = Cardinality(A) + 1
      /\ Cardinality(A) = 0 <=> A = {}
  BY <1>3, PlacesCounted
<1>6. Cardinality(B) = Cardinality(A) + (IF x = w THEN 1 ELSE 0)
  <2> HIDE DEF B
  <2>1. CASE x = w
    BY <1>4, <1>5, <2>1
  <2>2. CASE x # w
    BY <1>4, <1>5, <2>2
  <2> QED
    BY <2>1, <2>2
<1>7. Times(W, x) = Cardinality(A) /\ Times(V, x) = Cardinality(B)
  BY DEF Times, A
<1>8. A = {} <=> ~Occurs(W, x)
  BY DEF A, Occurs
<1> QED
  BY <1>5, <1>6, <1>7, <1>8

(* One more word makes one more pair, with the last word before it. *)
LEMMA PairsAppend ==
  ASSUME NEW W \in Seq(Word), W # << >>, NEW w \in Word, NEW a, NEW b
  PROVE  /\ Pairs(W, a, b) \in Nat
         /\ Pairs(Append(W, w), a, b) =
              Pairs(W, a, b) + (IF a = W[Len(W)] /\ b = w THEN 1 ELSE 0)
<1> DEFINE V == Append(W, w)
           A == {n \in 1 .. Len(W) - 1 : W[n] = a /\ W[n + 1] = b}
           B == {n \in 1 .. Len(V) - 1 : V[n] = a /\ V[n + 1] = b}
<1>1. PICK L \in Nat : L + 1 = Len(W)
  <2>1. Len(W) \in Nat /\ Len(W) # 0
    BY LenProperties, EmptySeq
  <2> QED
    BY <2>1
<1>2. /\ Len(V) = (L + 1) + 1 /\ V[(L + 1) + 1] = w
      /\ \A n \in 1 .. L + 1 : V[n] = W[n]
  BY <1>1, AppendProperties
<1>3. A \in SUBSET (1 .. L)
  BY <1>1
<1> DEFINE last == a = W[L + 1] /\ b = w
<1>4. B = IF last THEN A \cup {L + 1} ELSE A
  <2>1. \A n \in 1 .. L + 1 : n \in 1 .. L \/ n = L + 1
    OBVIOUS
  <2>2. \A n \in 1 .. L : n \in 1 .. L + 1 /\ n + 1 \in 1 .. L + 1 /\ n # L + 1
    OBVIOUS
  <2>3. L + 1 \in 1 .. L + 1
    OBVIOUS
  <2> HIDE DEF V
  <2>4. \A n : n \in B <=> n \in 1 .. L + 1 /\ V[n] = a /\ V[n + 1] = b
    BY <1>2
  <2>5. \A n : n \in A <=> n \in 1 .. L /\ W[n] = a /\ W[n + 1] = b
    BY <1>1
  <2> HIDE DEF A, B
  <2>6. L + 1 \in B <=> last
    BY <1>2, <2>3, <2>4
  <2>7. \A n \in 1 .. L : n \in B <=> n \in A
    BY <1>2, <2>2, <2>4, <2>5
  <2> HIDE DEF last
  <2>8. \A n : n \in B => n \in 1 .. L + 1
    BY <2>4
  <2>9. \A n : n \in A => n \in 1 .. L
    BY <2>5
  <2>10. CASE last
    <3>1. \A n : n \in B <=> n \in A \/ n = L + 1
      BY <2>1, <2>6, <2>7, <2>8, <2>9, <2>10
    <3> QED
      BY <2>10, <3>1
  <2>11. CASE ~last
    <3>1. \A n : n \in B <=> n \in A
      BY <2>1, <2>6, <2>7, <2>8, <2>9, <2>11
    <3> QED
      BY <2>11, <3>1
  <2> QED
    BY <2>10, <2>11
<1> HIDE DEF A
<1>5. /\ Cardinality(A) \in Nat
      /\ Cardinality(A \cup {L + 1}) = Cardinality(A) + 1
  BY <1>3, PlacesCounted
<1>6. Cardinality(B) = Cardinality(A) + (IF last THEN 1 ELSE 0)
  <2> HIDE DEF B, last
  <2>1. CASE last
    BY <1>4, <1>5, <2>1
  <2>2. CASE ~last
    BY <1>4, <1>5, <2>2
  <2> QED
    BY <2>1, <2>2
<1>7. Pairs(W, a, b) = Cardinality(A) /\ Pairs(V, a, b) = Cardinality(B)
  BY DEF Pairs, A
<1> QED
  BY <1>1, <1>5, <1>6, <1>7

(***************************************************************************)
(* A parser that has read the words W, the empty one first.                *)
(***************************************************************************)

(* How often z is in a bag. *)
Copies(B, z) == IF BagIn(z, B) THEN B[z] ELSE 0

Shape(p, N) ==
  /\ p = [words |-> p.words, counts |-> p.counts,
          nonzero_pairs |-> p.nonzero_pairs, pair_counts |-> p.pair_counts,
          last_index |-> p.last_index]
  /\ p.words \in Seq(Word) /\ Len(p.words) = N
  /\ p.counts \in Seq(Nat) /\ Len(p.counts) = N
  /\ p.nonzero_pairs \in Seq(Seq(1 .. N)) /\ Len(p.nonzero_pairs) = N
  /\ p.last_index \in 1 .. N
  /\ DOMAIN p.pair_counts \subseteq (1 .. N) \X (1 .. N)
  /\ \A a, b \in 1 .. N : p.words[a] = p.words[b] => a = b

Text(W) ==
  /\ W \in Seq(Word) /\ W # << >> /\ W[1] = << >>
  /\ \A n \in 2 .. Len(W) : W[n] # << >>

Follower(p, a, b) ==
  \E n \in 1 .. Len(p.nonzero_pairs[a]) : p.nonzero_pairs[a][n] = b

Counted(p, W, N) ==
  /\ \A n \in 1 .. Len(W) : Occurs(p.words, W[n])
  /\ p.words[p.last_index] = W[Len(W)]
  /\ \A a \in 1 .. N : p.counts[a] = Times(W, p.words[a])
  /\ \A a, b \in 1 .. N :
       /\ pair_count(p, a, b) = Pairs(W, p.words[a], p.words[b])
       /\ pair_count(p, a, b) > 0 <=> Follower(p, a, b)

Reads(p, W) ==
  /\ Text(W)
  /\ Shape(p, Len(p.words))
  /\ Counted(p, W, Len(p.words))
  /\ \A a \in 1 .. Len(p.words) : Occurs(W, p.words[a])

(* A word that never occurs is in no pair. *)
LEMMA NoPairs ==
  ASSUME NEW W \in Seq(Word), NEW a, NEW b, ~Occurs(W, a) \/ ~Occurs(W, b)
  PROVE  Pairs(W, a, b) = 0
<1>1. Len(W) \in Nat
  BY LenProperties
<1>2. {n \in 1 .. Len(W) - 1 : W[n] = a /\ W[n + 1] = b} = {}
  BY <1>1 DEF Occurs
<1> QED
  BY <1>2, FS_EmptySet DEF Pairs

(* A bag with one more y. *)
OneMore(B, C, y) == C = B (+) SetToBag({y})

(* A pair put into the bag is counted once more, and no other is. *)
LEMMA OneMoreCopy ==
  ASSUME NEW B, NEW y, NEW z, Copies(B, z) \in Nat,
         NEW C, OneMore(B, C, y)
  PROVE  Copies(C, z) = Copies(B, z) + (IF z = y THEN 1 ELSE 0)
<1>1. DOMAIN C = DOMAIN B \cup {y}
  BY DEF OneMore, (+), SetToBag
<1>2. ASSUME NEW x \in DOMAIN B \cup {y}
      PROVE  C[x] = (IF x \in DOMAIN B THEN B[x] ELSE 0)
                      + (IF x \in {y} THEN 1 ELSE 0)
  BY DEF OneMore, (+), SetToBag
<1>4. /\ Copies(B, z) = IF z \in DOMAIN B THEN B[z] ELSE 0
      /\ Copies(C, z) = IF z \in DOMAIN C THEN C[z] ELSE 0
  BY DEF Copies, BagIn, BagToSet
<1>5. CASE z \in DOMAIN B \cup {y}
  <2>1. Copies(C, z) = C[z]
    BY <1>1, <1>4, <1>5
  <2>2. C[z] = Copies(B, z) + (IF z \in {y} THEN 1 ELSE 0)
    BY <1>2, <1>4, <1>5
  <2> QED
    BY <2>1, <2>2
<1>6. CASE z \notin DOMAIN B \cup {y}
  <2>1. Copies(C, z) = 0 /\ Copies(B, z) = 0 /\ z # y
    BY <1>1, <1>4, <1>6
  <2> QED
    BY <2>1
<1> QED
  BY <1>5, <1>6

(* pair_count reads the count the bag has for the pair. *)
LEMMA PairCountIsCopies ==
  ASSUME NEW p, NEW a, NEW b
  PROVE  pair_count(p, a, b) = Copies(p.pair_counts, <<a, b>>)
BY DEF pair_count, Copies

(* add_pair makes place for a word that is new. *)
Prepared(q, W, w, N) ==
  /\ Shape(q, N)
  /\ Counted(q, W, N)
  /\ Occurs(q.words, w)
  /\ \A a \in 1 .. N : q.words[a] = w \/ Occurs(W, q.words[a])

(* The word to be added has an index, with no count if it is new. *)
LEMMA WithWordPrepares ==
  ASSUME NEW p, NEW W, Reads(p, W), NEW w \in Word
  PROVE  /\ Prepared(WithWord(p, w), W, w, Len(WithWord(p, w).words))
         /\ WithWord(p, w).last_index = p.last_index
<1>1. PICK N \in Nat : N = Len(p.words)
  BY LenProperties DEF Reads, Shape
<1>2. /\ Text(W) /\ Shape(p, N) /\ Counted(p, W, N)
      /\ \A a \in 1 .. N : Occurs(W, p.words[a])
  BY <1>1 DEF Reads
<1>3. ToSet(p.words) = {p.words[a] : a \in 1 .. N}
  BY <1>1, <1>2, LenProperties DEF ToSet, Shape
<1>4. CASE w \in ToSet(p.words)
  <2>1. WithWord(p, w) = p
    BY <1>4 DEF WithWord
  <2>2. Occurs(p.words, w)
    BY <1>1, <1>3, <1>4 DEF Occurs
  <2> QED
    BY <1>1, <1>2, <2>1, <2>2 DEF Prepared
<1>5. CASE w \notin ToSet(p.words)
  <2>1. PICK q : q = WithWord(p, w)
    OBVIOUS
  <2>2. /\ q = [words |-> q.words, counts |-> q.counts,
                nonzero_pairs |-> q.nonzero_pairs,
                pair_counts |-> q.pair_counts, last_index |-> q.last_index]
        /\ q.words = Append(p.words, w)
        /\ q.counts = Append(p.counts, 0)
        /\ q.nonzero_pairs = Append(p.nonzero_pairs, << >>)
        /\ q.pair_counts = p.pair_counts
        /\ q.last_index = p.last_index
    <3> DEFINE ws == p.words
               cs == p.counts
               nz == p.nonzero_pairs
               pc == p.pair_counts
               l == p.last_index
    <3>1. p = [words |-> ws, counts |-> cs, nonzero_pairs |-> nz,
               pair_counts |-> pc, last_index |-> l]
      BY <1>2 DEF Shape
    <3>2. q = [p EXCEPT !.words = Append(@, w), !.counts = Append(@, 0),
                        !.nonzero_pairs = Append(@, << >>)]
      BY <1>5, <2>1 DEF WithWord
    <3> HIDE DEF ws, cs, nz, pc, l
    <3>3. q = [words |-> Append(ws, w), counts |-> Append(cs, 0),
               nonzero_pairs |-> Append(nz, << >>), pair_counts |-> pc,
               last_index |-> l]
      BY <3>1, <3>2
    <3> QED
      BY <3>3 DEF ws, cs, nz, pc, l
  <2>3. PICK M \in Nat : M = N + 1
    OBVIOUS
  <2>4. /\ q.words \in Seq(Word) /\ Len(q.words) = M /\ q.words[M] = w
        /\ \A a \in 1 .. N : q.words[a] = p.words[a]
    BY <1>2, <2>2, <2>3, AppendProperties DEF Shape
  <2>5. /\ q.counts \in Seq(Nat) /\ Len(q.counts) = M /\ q.counts[M] = 0
        /\ \A a \in 1 .. N : q.counts[a] = p.counts[a]
    BY <1>2, <2>2, <2>3, AppendProperties DEF Shape
  <2>6. /\ q.nonzero_pairs \in Seq(Seq(1 .. M)) /\ Len(q.nonzero_pairs) = M
        /\ q.nonzero_pairs[M] = << >>
        /\ \A a \in 1 .. N : q.nonzero_pairs[a] = p.nonzero_pairs[a]
    <3>1. p.nonzero_pairs \in Seq(Seq(1 .. M))
      <4>1. Seq(1 .. N) \subseteq Seq(1 .. M)
        <5>1. 1 .. N \subseteq 1 .. M
          BY <2>3
        <5> QED
          BY <5>1, SeqMonotonic
      <4>2. p.nonzero_pairs \in Seq(Seq(1 .. N))
        BY <1>2 DEF Shape
      <4> QED
        BY <4>1, <4>2, SeqMonotonic
    <3>2. << >> \in Seq(1 .. M)
      BY EmptySeq
    <3>3. Len(p.nonzero_pairs) = N
      BY <1>2 DEF Shape
    <3> QED
      BY <2>2, <2>3, <3>1, <3>2, <3>3, AppendProperties
  <2>7. \A a \in 1 .. M : a \in 1 .. N \/ a = M
    BY <2>3
  <2>8. \A a \in 1 .. N : a \in 1 .. M /\ a # M /\ p.words[a] # w
    BY <1>3, <1>5, <2>3
  <2>9. M \in 1 .. M
    BY <2>3
  <2>10. Shape(q, M)
    <3>1. q.last_index \in 1 .. M
      BY <1>2, <2>2, <2>8 DEF Shape
    <3>2. DOMAIN q.pair_counts \subseteq (1 .. M) \X (1 .. M)
      <4>1. DOMAIN p.pair_counts \subseteq (1 .. N) \X (1 .. N)
        BY <1>2 DEF Shape
      <4> QED
        BY <2>2, <2>8, <4>1
    <3>3. \A a, b \in 1 .. M : q.words[a] = q.words[b] => a = b
      <4>1. \A a, b \in 1 .. N : p.words[a] = p.words[b] => a = b
        BY <1>2 DEF Shape
      <4> QED
        BY <2>4, <2>7, <2>8, <4>1
    <3>4. q = [words |-> q.words, counts |-> q.counts,
               nonzero_pairs |-> q.nonzero_pairs,
               pair_counts |-> q.pair_counts, last_index |-> q.last_index]
      BY <2>2
    <3> QED
      BY <2>4, <2>5, <2>6, <3>1, <3>2, <3>3, <3>4 DEF Shape
  <2>11. ~Occurs(W, w)
    <3>1. \A n \in 1 .. Len(W) : \E a \in 1 .. N : p.words[a] = W[n]
      BY <1>1, <1>2 DEF Counted, Occurs
    <3> QED
      BY <2>8, <3>1 DEF Occurs
  <2>12. W \in Seq(Word)
    BY <1>2 DEF Text
  <2>13. Counted(q, W, M)
    <3>1. \A n \in 1 .. Len(W) : Occurs(q.words, W[n])
      <4>1. \A n \in 1 .. Len(W) : \E a \in 1 .. N : p.words[a] = W[n]
        BY <1>1, <1>2 DEF Counted, Occurs
      <4> QED
        BY <2>4, <2>8, <4>1 DEF Occurs
    <3>2. q.words[q.last_index] = W[Len(W)]
      <4>1. p.last_index \in 1 .. N /\ p.words[p.last_index] = W[Len(W)]
        BY <1>2 DEF Shape, Counted
      <4> QED
        BY <2>2, <2>4, <4>1
    <3>3. ASSUME NEW a \in 1 .. M
          PROVE  q.counts[a] = Times(W, q.words[a])
      <4>1. CASE a \in 1 .. N
        BY <1>2, <2>4, <2>5, <4>1 DEF Counted
      <4>2. CASE a = M
        <5>1. Times(W, w) = 0
          BY <2>11, <2>12, TimesAppend
        <5> QED
          BY <2>4, <2>5, <4>2, <5>1
      <4> QED
        BY <2>7, <4>1, <4>2
    <3>4. ASSUME NEW a \in 1 .. M, NEW b \in 1 .. M
          PROVE  /\ pair_count(q, a, b) = Pairs(W, q.words[a], q.words[b])
                 /\ pair_count(q, a, b) > 0 <=> Follower(q, a, b)
      <4>1. pair_count(q, a, b) = pair_count(p, a, b)
        BY <2>2, PairCountIsCopies
      <4>2. CASE a \in 1 .. N /\ b \in 1 .. N
        <5>1. Follower(q, a, b) <=> Follower(p, a, b)
          BY <2>6, <4>2 DEF Follower
        <5> QED
          BY <1>2, <2>4, <4>1, <4>2, <5>1 DEF Counted
      <4>3. CASE a = M \/ b = M
        <5>1. <<a, b>> \notin DOMAIN p.pair_counts
          <6>1. DOMAIN p.pair_counts \subseteq (1 .. N) \X (1 .. N)
            BY <1>2 DEF Shape
          <6> QED
            BY <2>8, <4>3, <6>1
        <5>2. pair_count(q, a, b) = 0
          BY <4>1, <5>1, PairCountIsCopies DEF Copies, BagIn, BagToSet
        <5>3. q.words[a] = w \/ q.words[b] = w
          BY <2>4, <4>3
        <5>4. Pairs(W, q.words[a], q.words[b]) = 0
          BY <2>11, <2>12, <5>3, NoPairs
        <5>5. ~Follower(q, a, b)
          <6>1. CASE a = M
            <7>1. Len(q.nonzero_pairs[a]) = 0
              BY <2>6, <6>1
            <7> QED
              BY <7>1 DEF Follower
          <6>2. CASE a # M /\ b = M
            <7>1. a \in 1 .. N
              BY <2>7, <6>2
            <7>2. p.nonzero_pairs \in Seq(Seq(1 .. N)) /\ Len(p.nonzero_pairs) = N
              BY <1>2 DEF Shape
            <7>3. p.nonzero_pairs[a] \in Seq(1 .. N)
              BY <7>1, <7>2, ElementOfSeq
            <7>4. \A n \in 1 .. Len(p.nonzero_pairs[a]) :
                    p.nonzero_pairs[a][n] \in 1 .. N
              BY <7>3, ElementOfSeq
            <7> QED
              BY <2>6, <2>8, <6>2, <7>1, <7>4 DEF Follower
          <6> QED
            BY <4>3, <6>1, <6>2
        <5> QED
          BY <5>2, <5>4, <5>5
      <4> QED
        BY <2>7, <4>2, <4>3
    <3> QED
      BY <3>1, <3>2, <3>3, <3>4 DEF Counted
  <2>14. Occurs(q.words, w)
    BY <2>4, <2>9 DEF Occurs
  <2>15. \A a \in 1 .. M : q.words[a] = w \/ Occurs(W, q.words[a])
    BY <1>2, <2>4, <2>7
  <2>16. Prepared(q, W, w, M)
    BY <2>10, <2>13, <2>14, <2>15 DEF Prepared
  <2> QED
    BY <2>1, <2>2, <2>4, <2>16
<1> QED
  BY <1>4, <1>5

(* A word more in a text. *)
LEMMA TextAppend ==
  ASSUME NEW W, Text(W), NEW w \in Word, w # << >>
  PROVE  /\ Text(Append(W, w))
         /\ Append(W, w)[Len(Append(W, w))] = w
         /\ \A x : Occurs(Append(W, w), x) <=> Occurs(W, x) \/ x = w
<1> DEFINE V == Append(W, w)
<1>1. PICK L \in Nat : L = Len(W) /\ L # 0
  BY LenProperties, EmptySeq DEF Text
<1>2. /\ V \in Seq(Word) /\ Len(V) = L + 1 /\ V[L + 1] = w
      /\ \A n \in 1 .. L : V[n] = W[n]
  BY <1>1, AppendProperties DEF Text
<1>3. /\ \A n \in 1 .. L + 1 : n \in 1 .. L \/ n = L + 1
      /\ \A n \in 1 .. L : n \in 1 .. L + 1
      /\ L + 1 \in 1 .. L + 1 /\ 1 \in 1 .. L
      /\ \A n \in 2 .. L + 1 : n \in 2 .. L \/ n = L + 1
  BY <1>1
<1> HIDE DEF V
<1>4. \A x : Occurs(V, x) <=> Occurs(W, x) \/ x = w
  BY <1>1, <1>2, <1>3 DEF Occurs
<1>5. Text(V)
  <2>1. V # << >>
    BY <1>2, EmptySeq
  <2>2. \A n \in 2 .. L : n \in 1 .. L
    OBVIOUS
  <2> QED
    BY <1>1, <1>2, <1>3, <2>1, <2>2 DEF Text
<1> QED
  BY <1>2, <1>4, <1>5 DEF V

(* What add_word makes of the parser that has place for the word. *)
Added(r, q, l, i) ==
  r = [words |-> q.words,
       counts |-> [q.counts EXCEPT ![i] = @ + 1],
       nonzero_pairs |-> [q.nonzero_pairs EXCEPT ![l] = Append(@, i)],
       pair_counts |-> q.pair_counts (+) SetToBag({<<l, i>>}),
       last_index |-> i]

(* add_word counts the word, and its pair with the word before. *)
LEMMA AddWordAdds ==
  ASSUME NEW p, NEW W, Reads(p, W), NEW w \in Word, w # << >>
  PROVE  \E q : LET N == Len(q.words) IN
           /\ Prepared(q, W, w, N)
           /\ \E i \in 1 .. N : /\ q.words[i] = w
                                /\ Added(add_word(p, w), q, q.last_index, i)
<1>1. PICK q : q = WithWord(p, w)
  OBVIOUS
<1>2. PICK N \in Nat : N = Len(q.words)
  <2>1. Prepared(q, W, w, Len(q.words))
    BY <1>1, WithWordPrepares
  <2> QED
    BY <2>1, LenProperties DEF Prepared, Shape
<1>3. Prepared(q, W, w, N) /\ q.last_index = p.last_index
  BY <1>1, <1>2, WithWordPrepares
<1>4. PICK i \in 1 .. N : q.words[i] = w
  BY <1>2, <1>3 DEF Prepared, Occurs
<1>5. DOMAIN q.words = 1 .. N
  BY <1>2, <1>3, LenProperties DEF Prepared, Shape
<1>6. index(q, w) = i
  <2>1. \A n \in DOMAIN q.words : q.words[n] = w => n = i
    BY <1>3, <1>4, <1>5 DEF Prepared, Shape
  <2>2. i \in DOMAIN q.words /\ q.words[i] = w
    BY <1>4, <1>5
  <2> QED
    BY <2>1, <2>2 DEF index
<1>7. N > 1
  <2>1. Text(W)
    BY DEF Reads
  <2>2. 1 \in 1 .. Len(W) /\ W[1] = << >>
    BY <2>1, LenProperties, EmptySeq DEF Text
  <2>3. Occurs(q.words, << >>)
    BY <1>3, <2>2 DEF Prepared, Counted
  <2>4. PICK e \in 1 .. N : q.words[e] = << >>
    BY <1>2, <2>3 DEF Occurs
  <2>5. e # i
    BY <1>4, <2>4
  <2> QED
    BY <2>5
<1> DEFINE ws == q.words
           cs == q.counts
           nz == q.nonzero_pairs
           pc == q.pair_counts
           l == q.last_index
<1>8. q = [words |-> ws, counts |-> cs, nonzero_pairs |-> nz,
           pair_counts |-> pc, last_index |-> l]
  BY <1>3 DEF Prepared, Shape
<1>9. add_word(p, w) =
        [[q EXCEPT !.counts[i] = @ + 1, !.last_index = i] EXCEPT
           !.pair_counts = @ (+) SetToBag({<<l, i>>}),
           !.nonzero_pairs[l] = Append(@, i)]
  <2>1. Len(q.words) > 1
    BY <1>2, <1>7
  <2> QED
    BY <1>1, <1>3, <1>6, <2>1 DEF add_word
<1> HIDE DEF ws, cs, nz, pc, l
<1>10. [q EXCEPT !.counts[i] = @ + 1, !.last_index = i] =
         [words |-> ws, counts |-> [cs EXCEPT ![i] = @ + 1],
          nonzero_pairs |-> nz, pair_counts |-> pc, last_index |-> i]
  <2>1. q.counts = cs
    BY <1>8
  <2>2. PICK e : e = cs[i] + 1
    OBVIOUS
  <2>3. PICK es : es = [cs EXCEPT ![i] = e]
    OBVIOUS
  <2>4. [q EXCEPT !.counts[i] = @ + 1, !.last_index = i] =
          [q EXCEPT !.counts = es, !.last_index = i]
    BY <2>1, <2>2, <2>3
  <2>5. [q EXCEPT !.counts = es, !.last_index = i] =
          [words |-> ws, counts |-> es,
           nonzero_pairs |-> nz, pair_counts |-> pc, last_index |-> i]
    <3>1. PICK t : t = [q EXCEPT !.counts = es, !.last_index = i]
      OBVIOUS
    <3>2. /\ t = [f \in DOMAIN q |-> t[f]]
          /\ DOMAIN t = DOMAIN q
      BY <3>1
    <3>3. /\ t.words = ws /\ t.counts = es /\ t.nonzero_pairs = nz
          /\ t.pair_counts = pc /\ t.last_index = i
      BY <1>8, <3>1
    <3>4. DOMAIN q = {"words", "counts", "nonzero_pairs", "pair_counts",
                      "last_index"}
      BY <1>8
    <3>5. t = [words |-> ws, counts |-> es, nonzero_pairs |-> nz,
               pair_counts |-> pc, last_index |-> i]
      BY <3>2, <3>3, <3>4
    <3> QED
      BY <3>1, <3>5
  <2>6. es = [cs EXCEPT ![i] = @ + 1]
    BY <2>2, <2>3
  <2> QED
    BY <2>4, <2>5, <2>6, Zenon
<1>11. add_word(p, w) =
         [words |-> ws, counts |-> [cs EXCEPT ![i] = @ + 1],
          nonzero_pairs |-> [nz EXCEPT ![l] = Append(@, i)],
          pair_counts |-> pc (+) SetToBag({<<l, i>>}), last_index |-> i]
  BY <1>9, <1>10
<1>12. Added(add_word(p, w), q, q.last_index, i)
  BY <1>11 DEF Added, ws, cs, nz, pc, l
<1> QED
  BY <1>2, <1>3, <1>4, <1>12

(* add_word counts the word and the pair it makes with the last one. *)
LEMMA AddWordReads ==
  ASSUME NEW p, NEW W, Reads(p, W), NEW w \in Word, w # << >>
  PROVE  Reads(add_word(p, w), Append(W, w))
<1>1. PICK q : LET N == Len(q.words) IN
           /\ Prepared(q, W, w, N)
           /\ \E i \in 1 .. N : /\ q.words[i] = w
                                /\ Added(add_word(p, w), q, q.last_index, i)
  BY AddWordAdds
<1>2. PICK N \in Nat : N = Len(q.words)
  BY <1>1, LenProperties DEF Prepared, Shape
<1>3. /\ Shape(q, N) /\ Counted(q, W, N)
      /\ \A a \in 1 .. N : q.words[a] = w \/ Occurs(W, q.words[a])
  BY <1>1, <1>2 DEF Prepared
<1>4. PICK i \in 1 .. N : q.words[i] = w /\ Added(add_word(p, w), q, q.last_index, i)
  BY <1>1, <1>2
<1>5. PICK r : r = add_word(p, w)
  OBVIOUS
<1>6. PICK l \in 1 .. N : l = q.last_index
  BY <1>3 DEF Shape
<1>7. PICK V : V = Append(W, w)
  OBVIOUS
<1>8. Text(W) /\ W \in Seq(Word) /\ W # << >>
  BY DEF Reads, Text
<1>9. /\ Text(V) /\ V[Len(V)] = w
      /\ \A x : Occurs(V, x) <=> Occurs(W, x) \/ x = w
  BY <1>7, <1>8, TextAppend
<1>10. /\ r.words = q.words
       /\ r.counts = [q.counts EXCEPT ![i] = @ + 1]
       /\ r.nonzero_pairs = [q.nonzero_pairs EXCEPT ![l] = Append(@, i)]
       /\ r.pair_counts = q.pair_counts (+) SetToBag({<<l, i>>})
       /\ r.last_index = i
       /\ r = [words |-> r.words, counts |-> r.counts,
               nonzero_pairs |-> r.nonzero_pairs,
               pair_counts |-> r.pair_counts, last_index |-> r.last_index]
  BY <1>4, <1>5, <1>6 DEF Added
<1>11. /\ q.words \in Seq(Word) /\ q.counts \in Seq(Nat) /\ Len(q.counts) = N
       /\ q.nonzero_pairs \in Seq(Seq(1 .. N)) /\ Len(q.nonzero_pairs) = N
       /\ DOMAIN q.pair_counts \subseteq (1 .. N) \X (1 .. N)
       /\ \A a, b \in 1 .. N : q.words[a] = q.words[b] => a = b
  BY <1>3 DEF Shape
<1>12. /\ DOMAIN q.counts = 1 .. N
       /\ DOMAIN q.nonzero_pairs = 1 .. N
       /\ \A a \in 1 .. N : q.counts[a] \in Nat
       /\ \A a \in 1 .. N : q.nonzero_pairs[a] \in Seq(1 .. N)
  BY <1>11, LenProperties, ElementOfSeq
<1>13. /\ r.counts \in Seq(Nat) /\ Len(r.counts) = N
       /\ \A a \in 1 .. N : r.counts[a] = q.counts[a] + (IF a = i THEN 1 ELSE 0)
  <2>1. PICK e \in Nat : e = q.counts[i] + 1
    <3>1. q.counts[i] \in Nat
      BY <1>12
    <3> QED
      BY <3>1
  <2>2. r.counts \in Seq(Nat) /\ Len(r.counts) = Len(q.counts)
    <3>1. i \in 1 .. Len(q.counts)
      BY <1>11
    <3>2. r.counts = [q.counts EXCEPT ![i] = e]
      BY <1>10, <2>1
    <3>3. \A u \in Nat : [q.counts EXCEPT ![i] = u] \in Seq(Nat)
                         /\ Len([q.counts EXCEPT ![i] = u]) = Len(q.counts)
      BY <1>11, <3>1, ExceptSeq
    <3>4. [q.counts EXCEPT ![i] = e] \in Seq(Nat)
          /\ Len([q.counts EXCEPT ![i] = e]) = Len(q.counts)
      BY <3>3, Zenon
    <3> QED
      BY <3>2, <3>4
  <2>3. \A a \in 1 .. N : a # i => r.counts[a] = q.counts[a]
    BY <1>10, <1>12
  <2>4. r.counts[i] = q.counts[i] + 1
    BY <1>10, <1>12
  <2>5. ASSUME NEW a \in 1 .. N
        PROVE  r.counts[a] = q.counts[a] + (IF a = i THEN 1 ELSE 0)
    <3>1. q.counts[a] \in Nat
      BY <1>12
    <3>2. CASE a = i
      BY <2>4, <3>2
    <3>3. CASE a # i
      BY <2>3, <3>1, <3>3
    <3> QED
      BY <3>2, <3>3
  <2> QED
    BY <1>11, <2>2, <2>5
<1>14. /\ r.nonzero_pairs \in Seq(Seq(1 .. N)) /\ Len(r.nonzero_pairs) = N
       /\ \A a, b \in 1 .. N :
            Follower(r, a, b) <=> Follower(q, a, b) \/ (a = l /\ b = i)
  <2>1. /\ Append(q.nonzero_pairs[l], i) \in Seq(1 .. N)
        /\ Len(Append(q.nonzero_pairs[l], i)) = Len(q.nonzero_pairs[l]) + 1
        /\ \A n \in 1 .. Len(q.nonzero_pairs[l]) :
             Append(q.nonzero_pairs[l], i)[n] = q.nonzero_pairs[l][n]
        /\ Append(q.nonzero_pairs[l], i)[Len(q.nonzero_pairs[l]) + 1] = i
    BY <1>12, AppendProperties
  <2>2. r.nonzero_pairs \in Seq(Seq(1 .. N))
        /\ Len(r.nonzero_pairs) = Len(q.nonzero_pairs)
    <3>1. l \in 1 .. Len(q.nonzero_pairs)
      BY <1>11
    <3>2. r.nonzero_pairs =
            [q.nonzero_pairs EXCEPT ![l] = Append(q.nonzero_pairs[l], i)]
      BY <1>10
    <3>3. \A u \in Seq(1 .. N) :
            [q.nonzero_pairs EXCEPT ![l] = u] \in Seq(Seq(1 .. N))
            /\ Len([q.nonzero_pairs EXCEPT ![l] = u]) = Len(q.nonzero_pairs)
      BY <1>11, <3>1, ExceptSeq
    <3> QED
      BY <2>1, <3>2, <3>3, Zenon
  <2>3. \A a \in 1 .. N : a # l => r.nonzero_pairs[a] = q.nonzero_pairs[a]
    BY <1>10, <1>12
  <2>4. r.nonzero_pairs[l] = Append(q.nonzero_pairs[l], i)
    BY <1>10, <1>12
  <2>5. ASSUME NEW a \in 1 .. N, NEW b \in 1 .. N
        PROVE  Follower(r, a, b) <=> Follower(q, a, b) \/ (a = l /\ b = i)
    <3>1. CASE a # l
      BY <2>3, <3>1 DEF Follower
    <3>2. CASE a = l
      <4>1. PICK K \in Nat : K = Len(q.nonzero_pairs[l])
        BY <1>12, LenProperties
      <4>2. /\ \A n \in 1 .. K + 1 : n \in 1 .. K \/ n = K + 1
            /\ \A n \in 1 .. K : n \in 1 .. K + 1
            /\ K + 1 \in 1 .. K + 1
        OBVIOUS
      <4>3. Len(r.nonzero_pairs[l]) = K + 1
            /\ r.nonzero_pairs[l][K + 1] = i
            /\ \A n \in 1 .. K : r.nonzero_pairs[l][n] = q.nonzero_pairs[l][n]
        BY <2>1, <2>4, <4>1
      <4> QED
        BY <3>2, <4>1, <4>2, <4>3 DEF Follower
    <3> QED
      BY <3>1, <3>2
  <2> QED
    BY <1>11, <2>2, <2>5
<1>15. DOMAIN r.pair_counts \subseteq (1 .. N) \X (1 .. N)
  <2>1. DOMAIN r.pair_counts = DOMAIN q.pair_counts \cup {<<l, i>>}
    BY <1>10 DEF (+), SetToBag
  <2> QED
    BY <1>11, <2>1
<1>16. Shape(r, N)
  BY <1>2, <1>10, <1>11, <1>13, <1>14, <1>15 DEF Shape
<1>17. \A a, b \in 1 .. N :
         /\ Pairs(W, q.words[a], q.words[b]) \in Nat
         /\ pair_count(q, a, b) = Pairs(W, q.words[a], q.words[b])
         /\ pair_count(q, a, b) > 0 <=> Follower(q, a, b)
  BY <1>3, <1>8, PairsAppend DEF Counted
<1>18. ASSUME NEW a \in 1 .. N, NEW b \in 1 .. N
       PROVE  pair_count(r, a, b) =
                pair_count(q, a, b) + (IF a = l /\ b = i THEN 1 ELSE 0)
  <2>1. Copies(q.pair_counts, <<a, b>>) \in Nat
    BY <1>17, PairCountIsCopies
  <2>2. PICK y : y = <<l, i>>
    OBVIOUS
  <2>3. PICK z : z = <<a, b>>
    OBVIOUS
  <2>4. PICK B : B = q.pair_counts
    OBVIOUS
  <2>5. PICK C : C = r.pair_counts
    OBVIOUS
  <2>6. OneMore(B, C, y) /\ Copies(B, z) \in Nat
    BY <1>10, <2>1, <2>2, <2>3, <2>4, <2>5 DEF OneMore
  <2>7. Copies(C, z) = Copies(B, z) + (IF z = y THEN 1 ELSE 0)
    BY <2>6, OneMoreCopy
  <2>8. z = y <=> a = l /\ b = i
    BY <2>2, <2>3
  <2>9. /\ pair_count(r, a, b) = Copies(C, z)
        /\ pair_count(q, a, b) = Copies(B, z)
    BY <2>3, <2>4, <2>5, PairCountIsCopies
  <2> QED
    BY <2>7, <2>8, <2>9
<1>19. q.words[l] = W[Len(W)]
  BY <1>3, <1>6 DEF Counted
<1>20. ASSUME NEW a \in 1 .. N, NEW b \in 1 .. N
       PROVE  /\ pair_count(r, a, b) = Pairs(V, r.words[a], r.words[b])
              /\ pair_count(r, a, b) > 0 <=> Follower(r, a, b)
  <2>1. Pairs(V, r.words[a], r.words[b]) = Pairs(W, q.words[a], q.words[b])
          + (IF q.words[a] = q.words[l] /\ q.words[b] = w THEN 1 ELSE 0)
    BY <1>7, <1>8, <1>10, <1>19, PairsAppend
  <2>2. q.words[a] = q.words[l] /\ q.words[b] = w <=> a = l /\ b = i
    BY <1>4, <1>11
  <2>3. Follower(r, a, b) <=> Follower(q, a, b) \/ (a = l /\ b = i)
    BY <1>14
  <2>4. /\ pair_count(q, a, b) \in Nat
        /\ pair_count(q, a, b) = Pairs(W, q.words[a], q.words[b])
        /\ pair_count(q, a, b) > 0 <=> Follower(q, a, b)
    BY <1>17
  <2>5. pair_count(r, a, b) =
          pair_count(q, a, b) + (IF a = l /\ b = i THEN 1 ELSE 0)
    BY <1>18
  <2>6. CASE a = l /\ b = i
    BY <2>1, <2>2, <2>3, <2>4, <2>5, <2>6
  <2>7. CASE ~ (a = l /\ b = i)
    BY <2>1, <2>2, <2>3, <2>4, <2>5, <2>7
  <2> QED
    BY <2>6, <2>7
<1>21. ASSUME NEW a \in 1 .. N
       PROVE  r.counts[a] = Times(V, r.words[a])
  <2>1. Times(V, r.words[a]) =
          Times(W, q.words[a]) + (IF q.words[a] = w THEN 1 ELSE 0)
    BY <1>7, <1>8, <1>10, TimesAppend
  <2>2. q.words[a] = w <=> a = i
    BY <1>4, <1>11
  <2>3. q.counts[a] = Times(W, q.words[a])
    BY <1>3 DEF Counted
  <2> QED
    BY <1>13, <2>1, <2>2, <2>3
<1>22. \A n \in 1 .. Len(V) : Occurs(r.words, V[n])
  <2>1. \A n \in 1 .. Len(W) : Occurs(q.words, W[n])
    BY <1>3 DEF Counted
  <2>2. \A x : Occurs(W, x) => Occurs(q.words, x)
    BY <2>1 DEF Occurs
  <2>3. Occurs(q.words, w)
    BY <1>2, <1>4 DEF Occurs
  <2>4. \A n \in 1 .. Len(V) : Occurs(V, V[n])
    BY DEF Occurs
  <2> QED
    BY <1>9, <1>10, <2>2, <2>3, <2>4
<1>23. Counted(r, V, N)
  BY <1>4, <1>9, <1>10, <1>20, <1>21, <1>22 DEF Counted
<1>24. \A a \in 1 .. N : Occurs(V, r.words[a])
  BY <1>3, <1>9, <1>10
<1> QED
  BY <1>2, <1>5, <1>7, <1>9, <1>10, <1>16, <1>23, <1>24 DEF Reads

(* A parser that has read nothing but the empty word it starts with. *)
Fresh == <<(<< >>)>>

(* A new parser holds the empty word, once. *)
LEMMA NewParserIs ==
  NewParser = [words |-> Fresh, counts |-> <<1>>, nonzero_pairs |-> Fresh,
               pair_counts |-> EmptyBag, last_index |-> 1]
<1> DEFINE p == [words |-> << >>, counts |-> << >>, nonzero_pairs |-> << >>,
                 pair_counts |-> EmptyBag, last_index |-> 1]
           q == [words |-> Fresh, counts |-> <<0>>, nonzero_pairs |-> Fresh,
                 pair_counts |-> EmptyBag, last_index |-> 1]
<1> PICK E : E = EmptyBag
  OBVIOUS
<1> PICK e : e = << >>
  OBVIOUS
<1>1. << >> \notin ToSet(p.words)
  <2>1. p.words = << >>
    OBVIOUS
  <2>2. DOMAIN << >> = {}
    BY EmptySeq
  <2> HIDE DEF p
  <2> QED
    BY <2>1, <2>2 DEF ToSet
<1>2. /\ Append(<< >>, e) = <<e>>
      /\ Append(<< >>, 0) = <<0>>
  OBVIOUS
<1>3. WithWord(p, << >>) = q
  <2>1. WithWord(p, << >>) =
          [p EXCEPT !.words = Append(@, << >>), !.counts = Append(@, 0),
                    !.nonzero_pairs = Append(@, << >>)]
    BY <1>1 DEF WithWord
  <2> QED
    BY <1>2, <2>1 DEF Fresh
<1>4. DOMAIN Fresh = 1 .. 1 /\ Fresh[1] = << >> /\ Len(Fresh) = 1
  BY DEF Fresh
<1>5. index(q, << >>) = 1
  <2>1. q.words = Fresh
    OBVIOUS
  <2> HIDE DEF q
  <2>2. 1 \in 1 .. 1 /\ \A n \in 1 .. 1 : n = 1
    OBVIOUS
  <2> QED
    BY <1>4, <2>1, <2>2 DEF index
<1>6. add_word(p, << >>) = [q EXCEPT !.counts[1] = @ + 1, !.last_index = 1]
  <2>1. ~(Len(q.words) > 1)
    <3>1. q.words = Fresh
      OBVIOUS
    <3>2. PICK one : one = Len(Fresh)
      OBVIOUS
    <3>3. one = 1 /\ ~(one > 1)
      BY <1>4, <3>2
    <3> HIDE DEF q
    <3>4. Len(q.words) = one
      BY <3>1, <3>2, Zenon
    <3> QED
      BY <3>3, <3>4, Zenon
  <2> HIDE DEF p, q
  <2> QED
    BY <1>3, <1>5, <2>1 DEF add_word
<1>7. [q EXCEPT !.counts[1] = @ + 1, !.last_index = 1] =
        [words |-> Fresh, counts |-> <<1>>, nonzero_pairs |-> Fresh,
         pair_counts |-> EmptyBag, last_index |-> 1]
  <2>1. [<<0>> EXCEPT ![1] = @ + 1] = <<1>>
    OBVIOUS
  <2>2. PICK t : t = [q EXCEPT !.counts[1] = @ + 1, !.last_index = 1]
    OBVIOUS
  <2>3. /\ t = [f \in DOMAIN t |-> t[f]]
        /\ DOMAIN t = {"words", "counts", "nonzero_pairs", "pair_counts",
                       "last_index"}
    BY <2>2
  <2>4. /\ t.words = Fresh /\ t.counts = <<1>> /\ t.nonzero_pairs = Fresh
        /\ t.pair_counts = EmptyBag /\ t.last_index = 1
    BY <2>1, <2>2
  <2> QED
    BY <2>2, <2>3, <2>4
<1>8. NewParser = add_word(p, << >>)
  BY DEF NewParser
<1> QED
  BY <1>6, <1>7, <1>8

(* A new parser has read the empty word. *)
LEMMA NewParserReads == Reads(NewParser, Fresh)
<1> PICK p : p = NewParser
  OBVIOUS
<1>1. /\ p.words = Fresh /\ p.counts = <<1>> /\ p.nonzero_pairs = Fresh
      /\ p.pair_counts = EmptyBag /\ p.last_index = 1
      /\ p = [words |-> p.words, counts |-> p.counts,
              nonzero_pairs |-> p.nonzero_pairs,
              pair_counts |-> p.pair_counts, last_index |-> p.last_index]
  BY NewParserIs
<1>2. /\ Len(Fresh) = 1 /\ Fresh[1] = << >> /\ Fresh # << >>
      /\ \A n \in 1 .. 1 : n = 1
      /\ 1 \in 1 .. 1 /\ Len(<<1>>) = 1 /\ <<1>>[1] = 1
  BY DEF Fresh
<1>3. Fresh \in Seq(Word) /\ Fresh \in Seq(Seq(1 .. 1)) /\ <<1>> \in Seq(Nat)
  <2>1. << >> \in Word /\ << >> \in Seq(1 .. 1)
    BY EmptySeq DEF Word
  <2> QED
    BY <2>1 DEF Fresh
<1>4. DOMAIN p.pair_counts = {}
  BY <1>1 DEF EmptyBag, SetToBag
<1>5. Shape(p, 1)
  BY <1>1, <1>2, <1>3, <1>4 DEF Shape
<1>6. Text(Fresh)
  <2>1. \A n \in 2 .. 1 : FALSE
    OBVIOUS
  <2> QED
    BY <1>2, <1>3, <2>1 DEF Text
<1>7. Times(Fresh, << >>) = 1
  <2>1. {n \in 1 .. Len(Fresh) : Fresh[n] = << >>} = {1}
    BY <1>2
  <2>2. Cardinality({1}) = 1
    BY FS_Singleton
  <2> QED
    BY <2>1, <2>2 DEF Times
<1>8. Pairs(Fresh, << >>, << >>) = 0
  <2>1. {n \in 1 .. Len(Fresh) - 1 : Fresh[n] = << >> /\ Fresh[n + 1] = << >>} = {}
    BY <1>2
  <2> QED
    BY <2>1, FS_EmptySet DEF Pairs
<1>9. pair_count(p, 1, 1) = 0
  BY <1>4, PairCountIsCopies DEF Copies, BagIn, BagToSet
<1>10. ~Follower(p, 1, 1)
  <2>1. Len(<< >>) = 0 /\ \A n \in 1 .. 0 : FALSE
    OBVIOUS
  <2>2. p.nonzero_pairs[1] = << >>
    BY <1>1, <1>2
  <2> QED
    BY <2>1, <2>2 DEF Follower
<1>11. Counted(p, Fresh, 1)
  <2>1. Occurs(p.words, << >>)
    BY <1>1, <1>2 DEF Occurs
  <2>2. p.counts[1] = 1
    BY <1>1, <1>2
  <2>3. \A a \in 1 .. 1 : p.counts[a] = Times(Fresh, p.words[a])
    BY <1>1, <1>2, <1>7, <2>2
  <2>4. ~(0 > 0)
    OBVIOUS
  <2>5. \A a, b \in 1 .. 1 :
          /\ pair_count(p, a, b) = Pairs(Fresh, p.words[a], p.words[b])
          /\ pair_count(p, a, b) > 0 <=> Follower(p, a, b)
    <3>1. ASSUME NEW a \in 1 .. 1, NEW b \in 1 .. 1
          PROVE  /\ pair_count(p, a, b) = Pairs(Fresh, p.words[a], p.words[b])
                 /\ pair_count(p, a, b) > 0 <=> Follower(p, a, b)
      <4>1. a = 1 /\ b = 1
        OBVIOUS
      <4>2. p.words[1] = << >>
        BY <1>1, <1>2
      <4> QED
        BY <1>8, <1>9, <1>10, <2>4, <4>1, <4>2
    <3> QED
      BY <3>1
  <2> QED
    BY <1>1, <1>2, <2>1, <2>3, <2>5 DEF Counted
<1>12. \A a \in 1 .. 1 : Occurs(Fresh, p.words[a])
  BY <1>1, <1>2 DEF Occurs
<1> QED
  BY <1>1, <1>2, <1>5, <1>6, <1>11, <1>12 DEF Reads

(***************************************************************************)
(* Reading a text.                                                         *)
(***************************************************************************)
Nothing == [letters |-> << >>, words |-> << >>, word |-> << >>]

Readings == [letters : Seq(Word), words : Seq(Word), word : Word]

(* Each character changes what was read to something of its kind. *)
LEMMA ReadTyped ==
  ASSUME NEW t \in Readings, NEW c \in Characters
  PROVE  Read(t, c) \in Readings
<1> DEFINE ls == t.letters
           ws == t.words
           w == t.word
<1>1. /\ t = [letters |-> ls, words |-> ws, word |-> w]
      /\ ls \in Seq(Word) /\ ws \in Seq(Word) /\ w \in Word
  BY DEF Readings
<1> HIDE DEF ls, ws, w
<1>2. PICK one : one = <<c>>
  OBVIOUS
<1>3. one \in Word
  BY <1>2 DEF Word
<1>4. /\ Append(ls, one) \in Seq(Word)
      /\ Append(ws, w) \in Seq(Word)
      /\ Append(w, c) \in Word
  BY <1>1, <1>3, AppendProperties DEF Word
<1>5. w # << >> => Front(w) \in Word
  <2>1. SUFFICES ASSUME w # << >>
                 PROVE  Front(w) \in Word
    OBVIOUS
  <2>2. Len(w) \in Nat /\ Len(w) # 0
    BY <1>1, <2>1, LenProperties, EmptySeq DEF Word
  <2>3. /\ 1 \in Nat /\ Len(w) - 1 \in Nat
        /\ \A n \in 1 .. Len(w) - 1 : n \in 1 .. Len(w)
    BY <2>2
  <2>4. \A n \in 1 .. Len(w) : w[n] \in Characters
    BY <1>1, ElementOfSeq DEF Word
  <2>5. SubSeq(w, 1, Len(w) - 1) \in Seq(Characters)
    BY <1>1, <2>3, <2>4, SubSeqProperties DEF Word
  <2> QED
    BY <2>5 DEF Front, Word
<1>6. << >> \in Word
  BY EmptySeq DEF Word
<1>7. CASE c = EndOfStream
  <2>1. one \notin Delimiters /\ c # Backspace
    BY <1>2, <1>7, DelimitersAssumption
  <2>2. Read(t, c) = t
    BY <1>2, <1>7, <2>1 DEF Read
  <2> QED
    BY <2>2
<1>8. CASE c # EndOfStream /\ c = Backspace
  <2>1. Read(t, c) = [t EXCEPT !.word = IF @ = << >> THEN @ ELSE Front(@)]
    <3>1. one \notin Delimiters
      BY <1>2, <1>8, DelimitersAssumption
    <3> QED
      BY <1>2, <1>8, <3>1 DEF Read
  <2>2. PICK v : v = IF w = << >> THEN w ELSE Front(w)
    OBVIOUS
  <2>3. v \in Word
    BY <1>1, <1>5, <2>2
  <2>4. t.word = w
    BY DEF w
  <2>5. Read(t, c) = [t EXCEPT !.word = v]
    BY <2>1, <2>2, <2>4
  <2> QED
    BY <2>3, <2>5 DEF Readings
<1>9. CASE c # EndOfStream /\ c # Backspace /\ one \in Delimiters
  <2>1. PICK v : v = IF w = << >> THEN ws ELSE Append(ws, w)
    OBVIOUS
  <2>2. v \in Seq(Word)
    BY <1>1, <1>4, <2>1
  <2>3. Read(t, c) = [letters |-> Append(ls, one), words |-> v, word |-> << >>]
    BY <1>2, <1>9, <2>1 DEF Read, ls, ws, w
  <2> QED
    BY <1>4, <1>6, <2>2, <2>3 DEF Readings
<1>10. CASE c # EndOfStream /\ c # Backspace /\ one \notin Delimiters
  <2>1. Read(t, c) = [t EXCEPT !.letters = Append(@, one), !.word = Append(@, c)]
    BY <1>2, <1>10 DEF Read
  <2>2. PICK v : v = Append(ls, one)
    OBVIOUS
  <2>3. PICK u : u = Append(w, c)
    OBVIOUS
  <2>4. Read(t, c) = [t EXCEPT !.letters = v, !.word = u]
    BY <2>1, <2>2, <2>3 DEF ls, w
  <2> QED
    BY <1>4, <2>2, <2>3, <2>4 DEF Readings
<1> QED
  BY <1>7, <1>8, <1>9, <1>10

ReadTable(g, n, text) ==
  /\ g \in [0 .. n -> Readings]
  /\ g[0] = Nothing
  /\ \A k \in 1 .. n : g[k] = Read(g[k - 1], text[k])

(* What was read after each character of a text. *)
LEMMA TextTable ==
  ASSUME NEW text \in Seq(Characters), NEW N \in Nat, N = Len(text)
  PROVE  \E g : ReadTable(g, N, text) /\ TextRead(text) = g[N]
<1> DEFINE S == Readings
           F == [z \in S \X Characters |-> Read(z[1], z[2])]
           P(it) == it = [s \in SUBSET (1 .. N) |->
                            IF s = {} THEN Nothing
                            ELSE Read(it[s \ {Max(s)}], text[Max(s)])]
           it == CHOOSE h : P(h)
<1>1. F \in [S \X Characters -> S]
  BY ReadTyped
<1>2. Nothing \in S /\ \A i \in 1 .. N : text[i] \in Characters
  BY EmptySeq, ElementOfSeq DEF Nothing, Readings, Word
<1> HIDE DEF F
<1>4. PICK h : FoldTable(h, N, S, text, Nothing, F)
  BY <1>1, <1>2, FoldExists
<1>5. P(h)
  <2>1. h = [s \in SUBSET (1 .. N) |-> h[s]]
    BY <1>4 DEF FoldTable
  <2>2. ASSUME NEW s \in SUBSET (1 .. N)
        PROVE  h[s] = IF s = {} THEN Nothing
                      ELSE Read(h[s \ {Max(s)}], text[Max(s)])
    <3>1. FoldStep(h, text, Nothing, F, s)
      BY <1>4 DEF FoldTable
    <3>2. CASE s = {}
      BY <3>1, <3>2 DEF FoldStep
    <3>3. CASE s # {}
      <4>1. Max(s) \in 1 .. N
        <5>1. s \in SUBSET (0 .. N)
          OBVIOUS
        <5>2. Max(s) \in s
          BY <3>3, <5>1, MaxOfNaturals
        <5> QED
          BY <5>2
      <4>2. s \ {Max(s)} \in SUBSET (1 .. N)
        OBVIOUS
      <4>3. h[s \ {Max(s)}] \in S
        BY <1>4, <4>2 DEF FoldTable
      <4>4. h[s] = F[<<h[s \ {Max(s)}], text[Max(s)]>>]
        BY <3>1, <3>3 DEF FoldStep
      <4>5. text[Max(s)] \in Characters
        BY <1>2, <4>1
      <4>6. F[<<h[s \ {Max(s)}], text[Max(s)]>>] =
              Read(h[s \ {Max(s)}], text[Max(s)])
        BY <4>3, <4>5 DEF F
      <4> QED
        BY <3>3, <4>4, <4>6
    <3> QED
      BY <3>2, <3>3
  <2> QED
    BY <2>1, <2>2
<1>6. P(it)
  <2> HIDE DEF P
  <2> QED
    BY <1>5, Zenon
<1>7. TextRead(text) = it[1 .. N]
  <2>1. DOMAIN text = 1 .. N
    BY LenProperties
  <2> QED
    BY <2>1 DEF TextRead, FoldLeft, MapThenFoldSet, Nothing
<1> HIDE DEF it
<1>8. it[1 .. 0] = Nothing
  <2>1. 1 .. 0 = {} /\ {} \in SUBSET (1 .. N)
    OBVIOUS
  <2> QED
    BY <1>6, <2>1
<1>9. ASSUME NEW k \in 1 .. N
      PROVE  it[1 .. k] = Read(it[1 .. k - 1], text[k])
  <2>1. Max(1 .. k) = k /\ (1 .. k) \ {k} = 1 .. k - 1
    BY LastPlace
  <2>2. 1 .. k \in SUBSET (1 .. N) /\ 1 .. k # {}
    <3>1. \A x \in 1 .. k : x \in 1 .. N
      OBVIOUS
    <3>2. k \in 1 .. k
      OBVIOUS
    <3> QED
      BY <3>1, <3>2
  <2>3. it[1 .. k] = Read(it[(1 .. k) \ {Max(1 .. k)}], text[Max(1 .. k)])
    BY <1>6, <2>2
  <2> HIDE DEF P
  <2> QED
    BY <2>1, <2>3
<1> HIDE DEF P
<1> DEFINE g == [k \in 0 .. N |-> it[1 .. k]]
           T == {k \in 0 .. N : g[k] \in S}
<1>10. /\ g[0] = Nothing
       /\ g[N] = TextRead(text)
       /\ \A k \in 1 .. N : g[k] = Read(g[k - 1], text[k])
  <2>1. g[0] = it[1 .. 0] /\ g[N] = it[1 .. N]
    OBVIOUS
  <2>2. ASSUME NEW k \in 1 .. N
        PROVE  g[k] = Read(g[k - 1], text[k])
    <3>1. g[k] = it[1 .. k] /\ g[k - 1] = it[1 .. k - 1]
      OBVIOUS
    <3> HIDE DEF g
    <3> QED
      BY <1>9, <3>1
  <2> HIDE DEF g
  <2> QED
    BY <1>7, <1>8, <2>1, <2>2
<1>11. DOMAIN g = 0 .. N /\ g = [k \in 0 .. N |-> g[k]]
  OBVIOUS
<1> HIDE DEF g
<1>12. Climbs(T, 0, N)
  <2>1. 0 \in T
    BY <1>2, <1>10
  <2>2. ASSUME NEW k \in 0 .. N - 1, k \in T
        PROVE  k + 1 \in T
    <3>1. PICK i \in 1 .. N : i = k + 1 /\ i - 1 = k
      OBVIOUS
    <3>2. g[i] = Read(g[k], text[i]) /\ g[k] \in S /\ text[i] \in Characters
      BY <1>2, <1>10, <2>2, <3>1
    <3>3. g[i] \in S
      BY <3>2, ReadTyped
    <3> QED
      BY <3>1, <3>3
  <2> HIDE DEF T
  <2> QED
    BY <2>1, <2>2 DEF Climbs
<1> HIDE DEF T
<1>13. \A k \in 0 .. N : k \in T
  BY <1>12, IntervalInduction
<1>14. \A k \in 0 .. N : g[k] \in S
  BY <1>13 DEF T
<1>15. ReadTable(g, N, text)
  BY <1>10, <1>11, <1>14 DEF ReadTable
<1> QED
  BY <1>10, <1>15

(* A text is read character by character. *)
LEMMA TextReadStep ==
  /\ TextRead(<< >>) = Nothing
  /\ \A text \in Seq(Characters) :
       /\ TextRead(text) \in Readings
       /\ \A c \in Characters : TextRead(Append(text, c)) = Read(TextRead(text), c)
<1>1. TextRead(<< >>) = Nothing
  <2>1. << >> \in Seq(Characters) /\ Len(<< >>) = 0
    BY EmptySeq
  <2>2. PICK e \in Seq(Characters) : e = << >> /\ 0 = Len(e)
    BY <2>1
  <2>3. PICK g : ReadTable(g, 0, e) /\ TextRead(e) = g[0]
    BY <2>2, TextTable
  <2> QED
    BY <2>2, <2>3 DEF ReadTable
<1>2. ASSUME NEW text \in Seq(Characters)
      PROVE  /\ TextRead(text) \in Readings
             /\ \A c \in Characters :
                  TextRead(Append(text, c)) = Read(TextRead(text), c)
  <2>1. PICK N \in Nat : N = Len(text)
    BY LenProperties
  <2>2. PICK g : ReadTable(g, N, text) /\ TextRead(text) = g[N]
    BY <2>1, TextTable
  <2>3. TextRead(text) \in Readings
    BY <2>2 DEF ReadTable
  <2>4. ASSUME NEW c \in Characters
        PROVE  TextRead(Append(text, c)) = Read(TextRead(text), c)
    <3>1. PICK more \in Seq(Characters) : more = Append(text, c)
      BY AppendProperties
    <3>2. PICK M \in Nat : M = N + 1
      OBVIOUS
    <3>3. M = Len(more) /\ more[M] = c /\ \A k \in 1 .. N : more[k] = text[k]
      BY <2>1, <3>1, <3>2, AppendProperties
    <3>4. PICK h : ReadTable(h, M, more) /\ TextRead(more) = h[M]
      BY <3>3, TextTable
    <3> DEFINE T == {k \in 0 .. N : h[k] = g[k]}
    <3>5. Climbs(T, 0, N)
      <4>1. 0 \in T
        BY <2>2, <3>4 DEF ReadTable
      <4>2. ASSUME NEW k \in 0 .. N - 1, k \in T
            PROVE  k + 1 \in T
        <5>1. PICK i \in 1 .. N : i = k + 1 /\ i - 1 = k
          OBVIOUS
        <5>2. i \in 1 .. M
          BY <3>2
        <5>3. g[i] = Read(g[k], text[i])
          BY <2>2, <5>1 DEF ReadTable
        <5>4. h[i] = Read(h[k], more[i])
          BY <3>4, <5>1, <5>2 DEF ReadTable
        <5>5. h[i] = g[i]
          BY <3>3, <4>2, <5>3, <5>4
        <5> QED
          BY <5>1, <5>5
      <4> HIDE DEF T
      <4> QED
        BY <4>1, <4>2 DEF Climbs
    <3> HIDE DEF T
    <3>6. \A k \in 0 .. N : k \in T
      BY <3>5, IntervalInduction
    <3>7. h[N] = g[N]
      BY <3>6 DEF T
    <3>8. h[M] = Read(h[N], more[M])
      <4>1. M \in 1 .. M /\ M - 1 = N
        BY <3>2
      <4> QED
        BY <3>4, <4>1 DEF ReadTable
    <3> QED
      BY <2>2, <3>1, <3>3, <3>4, <3>7, <3>8
  <2> QED
    BY <2>3, <2>4
<1> QED
  BY <1>1, <1>2

(***************************************************************************)
(* The inductive invariant.                                                *)
(***************************************************************************)

(* A mode that is not the empty word is that of a word that was followed.  *)
ModesKnown(modes, W) ==
  \A w \in DOMAIN modes :
    modes[w] # << >> => \E n \in 1 .. Len(W) - 1 : W[n] = w

(* A prediction followed the last word as often as any other did. *)
Best(prediction, weight, W) ==
  LET last == W[Len(W)]
  IN /\ \A w \in Word :
          Occurs(W, w) => Pairs(W, last, w) <= Pairs(W, last, prediction)
     /\ Pairs(W, last, prediction) = 0 => prediction = << >>
     /\ weight = Pairs(W, last, prediction)

ModelOf(m, W, word) ==
  /\ m = [parser |-> m.parser, input |-> m.input, word_modes |-> m.word_modes,
          detected_interface |-> m.detected_interface,
          prediction |-> m.prediction, weight |-> m.weight]
  /\ m.detected_interface \in BOOLEAN
  /\ m.input = word
  /\ Reads(m.parser, W)
  /\ ModesKnown(m.word_modes, W)
  /\ IF Len(W) = 1 THEN m.prediction = << >> ELSE Best(m.prediction, m.weight, W)

(* What level i has read, and what it has of the word under way. *)
LevelText(t, i) == Fresh \o (IF i = 1 THEN t.letters ELSE t.words)
LevelInput(t, i) == IF i = 1 THEN << >> ELSE t.word

(* No character of the word is a delimiter. *)
Plain(word) == \A n \in 1 .. Len(word) : <<word[n]>> \notin Delimiters

(* Where the levels find themselves: no character of the word under way is *)
(* a delimiter, the lowest level is at an interface just behind one, and   *)
(* the others are at one only before the first word.                       *)
Placed(t, ms) ==
  /\ Plain(t.word)
  /\ t.word # << >> \/ t.words # << >> =>
       /\ t.letters # << >>
       /\ \A i \in 2 .. Levels : ~ms[i].detected_interface
  /\ t.letters # << >> =>
       (ms[1].detected_interface <=> t.letters[Len(t.letters)] \in Delimiters)
  /\ t.word # << >> => t.letters[Len(t.letters)] \notin Delimiters

(* The stack has learnt what was read of the text. *)
Stacked(t, ms) ==
  /\ t \in Readings
  /\ \A i \in 1 .. Levels : ModelOf(ms[i], LevelText(t, i), LevelInput(t, i))
  /\ Placed(t, ms)

StackInv ==
  /\ typed \in Seq(Characters)
  /\ Stacked(TextRead(typed), models)

(***************************************************************************)
(* Training.                                                               *)
(***************************************************************************)
Scores == [word : Word, count : Nat]

NoScore == [word |-> << >>, count |-> 0]

Better(p, i, mode, j) ==
  IF pair_count(p, i, j) > mode.count
    THEN [word |-> p.words[j], count |-> pair_count(p, i, j)]
    ELSE mode

ScoreTable(g, p, i, K) ==
  /\ g \in [0 .. K -> Scores]
  /\ g[0] = NoScore
  /\ \A k \in 1 .. K : g[k] = Better(p, i, g[k - 1], p.nonzero_pairs[i][k])

(* The best of the words that followed word i, one after the other. *)
LEMMA ModeTable ==
  ASSUME NEW p, NEW N \in Nat, Shape(p, N), NEW i \in 1 .. N,
         \A j \in 1 .. N : pair_count(p, i, j) \in Nat,
         NEW K \in Nat, K = Len(p.nonzero_pairs[i])
  PROVE  \E g : ScoreTable(g, p, i, K) /\ ModeOf(p, i) = g[K].word
<1> DEFINE S == Scores
           nz == p.nonzero_pairs[i]
           F == [z \in S \X (1 .. N) |-> Better(p, i, z[1], z[2])]
           P(it) == it = [s \in SUBSET (1 .. K) |->
                            IF s = {} THEN NoScore
                            ELSE Better(p, i, it[s \ {Max(s)}], nz[Max(s)])]
           it == CHOOSE h : P(h)
<1>0. nz \in Seq(1 .. N) /\ p.words \in Seq(Word) /\ Len(p.words) = N
  BY ElementOfSeq DEF Shape
<1>1. ASSUME NEW mode \in S, NEW j \in 1 .. N
      PROVE  Better(p, i, mode, j) \in S
  <2>1. p.words[j] \in Word
    BY <1>0, ElementOfSeq
  <2>2. [word |-> p.words[j], count |-> pair_count(p, i, j)] \in S
    BY <2>1 DEF Scores
  <2> QED
    BY <2>2 DEF Better
<1>2. /\ F \in [S \X (1 .. N) -> S]
      /\ NoScore \in S
      /\ \A k \in 1 .. K : nz[k] \in 1 .. N
  <2>1. F \in [S \X (1 .. N) -> S]
    BY <1>1
  <2>2. NoScore \in S
    BY EmptySeq DEF NoScore, Scores, Word
  <2>3. \A k \in 1 .. K : nz[k] \in 1 .. N
    BY <1>0, ElementOfSeq
  <2> QED
    BY <2>1, <2>2, <2>3
<1>3. DOMAIN nz = 1 .. K
  BY <1>0, LenProperties
<1> HIDE DEF F, nz
<1>4. PICK h : FoldTable(h, K, S, nz, NoScore, F)
  BY <1>2, FoldExists
<1>5. P(h)
  <2>1. h = [s \in SUBSET (1 .. K) |-> h[s]]
    BY <1>4 DEF FoldTable
  <2>2. ASSUME NEW s \in SUBSET (1 .. K)
        PROVE  h[s] = IF s = {} THEN NoScore
                      ELSE Better(p, i, h[s \ {Max(s)}], nz[Max(s)])
    <3>1. FoldStep(h, nz, NoScore, F, s)
      BY <1>4 DEF FoldTable
    <3>2. CASE s = {}
      BY <3>1, <3>2 DEF FoldStep
    <3>3. CASE s # {}
      <4>1. Max(s) \in 1 .. K
        <5>1. s \in SUBSET (0 .. K)
          OBVIOUS
        <5>2. Max(s) \in s
          BY <3>3, <5>1, MaxOfNaturals
        <5> QED
          BY <5>2
      <4>2. s \ {Max(s)} \in SUBSET (1 .. K)
        OBVIOUS
      <4>3. h[s \ {Max(s)}] \in S
        BY <1>4, <4>2 DEF FoldTable
      <4>4. h[s] = F[<<h[s \ {Max(s)}], nz[Max(s)]>>]
        BY <3>1, <3>3 DEF FoldStep
      <4>5. nz[Max(s)] \in 1 .. N
        BY <1>2, <4>1
      <4>6. F[<<h[s \ {Max(s)}], nz[Max(s)]>>] =
              Better(p, i, h[s \ {Max(s)}], nz[Max(s)])
        BY <4>3, <4>5 DEF F
      <4> QED
        BY <3>3, <4>4, <4>6
    <3> QED
      BY <3>2, <3>3
  <2> QED
    BY <2>1, <2>2
<1>6. P(it)
  <2> HIDE DEF P
  <2> QED
    BY <1>5, Zenon
<1>7. ModeOf(p, i) = it[1 .. K].word
  BY <1>3 DEF ModeOf, FoldLeft, MapThenFoldSet, NoScore, Better, nz
<1> HIDE DEF it
<1>8. it[1 .. 0] = NoScore
  <2>1. 1 .. 0 = {} /\ {} \in SUBSET (1 .. K)
    OBVIOUS
  <2> QED
    BY <1>6, <2>1
<1>9. ASSUME NEW k \in 1 .. K
      PROVE  it[1 .. k] = Better(p, i, it[1 .. k - 1], nz[k])
  <2>1. Max(1 .. k) = k /\ (1 .. k) \ {k} = 1 .. k - 1
    BY LastPlace
  <2>2. 1 .. k \in SUBSET (1 .. K) /\ 1 .. k # {}
    <3>1. \A x \in 1 .. k : x \in 1 .. K
      OBVIOUS
    <3>2. k \in 1 .. k
      OBVIOUS
    <3> QED
      BY <3>1, <3>2
  <2>3. it[1 .. k] = Better(p, i, it[(1 .. k) \ {Max(1 .. k)}], nz[Max(1 .. k)])
    BY <1>6, <2>2
  <2> HIDE DEF P
  <2> QED
    BY <2>1, <2>3
<1> HIDE DEF P
<1> DEFINE g == [k \in 0 .. K |-> it[1 .. k]]
           T == {k \in 0 .. K : g[k] \in S}
<1>10. /\ g[0] = NoScore
       /\ g[K].word = ModeOf(p, i)
       /\ \A k \in 1 .. K : g[k] = Better(p, i, g[k - 1], nz[k])
  <2>1. g[0] = it[1 .. 0] /\ g[K] = it[1 .. K]
    OBVIOUS
  <2>2. ASSUME NEW k \in 1 .. K
        PROVE  g[k] = Better(p, i, g[k - 1], nz[k])
    <3>1. g[k] = it[1 .. k] /\ g[k - 1] = it[1 .. k - 1]
      OBVIOUS
    <3> HIDE DEF g
    <3> QED
      BY <1>9, <3>1
  <2> HIDE DEF g
  <2> QED
    BY <1>7, <1>8, <2>1, <2>2
<1>11. DOMAIN g = 0 .. K /\ g = [k \in 0 .. K |-> g[k]]
  OBVIOUS
<1> HIDE DEF g
<1>12. Climbs(T, 0, K)
  <2>1. 0 \in T
    BY <1>2, <1>10
  <2>2. ASSUME NEW k \in 0 .. K - 1, k \in T
        PROVE  k + 1 \in T
    <3>1. PICK n \in 1 .. K : n = k + 1 /\ n - 1 = k
      OBVIOUS
    <3>2. g[n] = Better(p, i, g[k], nz[n]) /\ g[k] \in S /\ nz[n] \in 1 .. N
      BY <1>2, <1>10, <2>2, <3>1
    <3>3. g[n] \in S
      BY <1>1, <3>2
    <3> QED
      BY <3>1, <3>3
  <2> HIDE DEF T
  <2> QED
    BY <2>1, <2>2 DEF Climbs
<1> HIDE DEF T
<1>13. \A k \in 0 .. K : k \in T
  BY <1>12, IntervalInduction
<1>14. \A k \in 0 .. K : g[k] \in S
  BY <1>13 DEF T
<1>15. ScoreTable(g, p, i, K)
  BY <1>10, <1>11, <1>14 DEF ScoreTable, nz
<1> QED
  BY <1>10, <1>15

(* What is at most a number is at most every greater one. *)
LEMMA LowerThanMore ==
  \A x, y, z \in Nat : y <= x /\ z > x => y <= z
OBVIOUS

(* The mode of a word that was followed has followed it as often as any     *)
(* other word.                                                              *)
LEMMA ModeIsBest ==
  ASSUME NEW p, NEW N \in Nat, Shape(p, N), NEW i \in 1 .. N,
         \A j \in 1 .. N : /\ pair_count(p, i, j) \in Nat
                           /\ pair_count(p, i, j) > 0 <=> Follower(p, i, j),
         p.nonzero_pairs[i] # << >>
  PROVE  \E b \in 1 .. N : /\ ModeOf(p, i) = p.words[b]
                           /\ pair_count(p, i, b) > 0
                           /\ \A c \in 1 .. N :
                                pair_count(p, i, c) <= pair_count(p, i, b)
<1> DEFINE nz == p.nonzero_pairs[i]
<1>0. nz \in Seq(1 .. N)
  BY ElementOfSeq DEF Shape
<1>1. PICK K \in Nat : K = Len(nz) /\ K # 0
  BY <1>0, LenProperties, EmptySeq
<1>2. PICK g : ScoreTable(g, p, i, K) /\ ModeOf(p, i) = g[K].word
  BY <1>1, ModeTable
<1>3. \A k \in 1 .. K : nz[k] \in 1 .. N
  BY <1>0, <1>1, ElementOfSeq
<1>4. PICK pc \in [1 .. N -> Nat] : \A j \in 1 .. N : pc[j] = pair_count(p, i, j)
  <2>1. [j \in 1 .. N |-> pair_count(p, i, j)] \in [1 .. N -> Nat]
    OBVIOUS
  <2> QED
    BY <2>1
<1>5. PICK f : f = nz
  OBVIOUS
<1>6. /\ \A k \in 0 .. K : g[k].count \in Nat
      /\ g[0].count = 0 /\ g[0].word = << >>
      /\ \A k \in 1 .. K : g[k] = Better(p, i, g[k - 1], f[k])
      /\ \A k \in 1 .. K : f[k] \in 1 .. N
  BY <1>2, <1>3, <1>5 DEF ScoreTable, Scores, NoScore
<1> DEFINE Leads(k) ==
             /\ \A n \in 1 .. k : pc[f[n]] <= g[k].count
             /\ g[k].count = 0 \/ \E b \in 1 .. N : /\ g[k].word = p.words[b]
                                                    /\ g[k].count = pc[b]
           T == {k \in 0 .. K : Leads(k)}
<1>7. Climbs(T, 0, K)
  <2>1. 0 \in T
    <3>1. \A n \in 1 .. 0 : FALSE
      OBVIOUS
    <3> QED
      BY <1>6, <3>1
  <2>2. ASSUME NEW k \in 0 .. K - 1, k \in T
        PROVE  k + 1 \in T
    <3>1. PICK m \in 1 .. K : m = k + 1 /\ m - 1 = k /\ m \in 0 .. K
      OBVIOUS
    <3>2. PICK j \in 1 .. N : j = f[m]
      BY <1>6
    <3>3. g[m] = IF pc[j] > g[k].count
                   THEN [word |-> p.words[j], count |-> pc[j]] ELSE g[k]
      BY <1>4, <1>6, <3>1, <3>2 DEF Better
    <3>4. PICK x \in Nat : x = g[k].count
      BY <1>6
    <3>5. pc[j] \in Nat
      BY <1>4
    <3>6. \A n \in 1 .. k : pc[f[n]] <= x /\ pc[f[n]] \in Nat
      <4>1. \A n \in 1 .. k : n \in 1 .. K
        OBVIOUS
      <4> QED
        BY <1>4, <1>6, <2>2, <3>4, <4>1
    <3>7. \A n \in 1 .. m : n \in 1 .. k \/ n = m
      BY <3>1
    <3>8. CASE pc[j] > x
      <4>1. g[m].word = p.words[j] /\ g[m].count = pc[j]
        BY <3>3, <3>4, <3>8
      <4>2. ASSUME NEW n \in 1 .. k
            PROVE  pc[f[n]] <= pc[j]
        <5>1. PICK y \in Nat : y = pc[f[n]] /\ y <= x
          BY <3>6
        <5>2. PICK z \in Nat : z = pc[j] /\ z > x
          BY <3>5, <3>8
        <5>3. y <= z
          BY <3>4, <5>1, <5>2, LowerThanMore, Zenon
        <5> QED
          BY <5>1, <5>2, <5>3, Zenon
      <4>3. pc[f[m]] <= pc[j]
        BY <3>2, <3>5
      <4>4. \A n \in 1 .. m : pc[f[n]] <= g[m].count
        <5>1. ASSUME NEW n \in 1 .. m
              PROVE  pc[f[n]] <= pc[j]
          <6>1. n \in 1 .. k \/ n = m
            BY <3>7
          <6> QED
            BY <4>2, <4>3, <6>1, Zenon
        <5> QED
          BY <4>1, <5>1, Zenon
      <4>5. Leads(m)
        BY <4>1, <4>4
      <4> QED
        BY <3>1, <4>5
    <3>9. CASE ~(pc[j] > x)
      <4>1. g[m] = g[k]
        BY <3>3, <3>4, <3>9
      <4>2. pc[f[m]] <= x
        BY <3>2, <3>5, <3>9
      <4>3. \A n \in 1 .. m : pc[f[n]] <= g[m].count
        <5>1. ASSUME NEW n \in 1 .. m
              PROVE  pc[f[n]] <= x
          <6>1. n \in 1 .. k \/ n = m
            BY <3>7
          <6> QED
            BY <3>6, <4>2, <6>1, Zenon
        <5> QED
          BY <3>4, <4>1, <5>1, Zenon
      <4>4. Leads(m)
        BY <2>2, <4>1, <4>3
      <4> QED
        BY <3>1, <4>4
    <3> QED
      BY <3>8, <3>9
  <2> HIDE DEF T
  <2> QED
    BY <2>1, <2>2 DEF Climbs
<1> HIDE DEF T
<1>8. \A k \in 0 .. K : k \in T
  BY <1>7, IntervalInduction
<1>9. K \in T
  BY <1>8
<1>10. Leads(K)
  BY <1>9 DEF T
<1>11. PICK x \in Nat : x = g[K].count
  BY <1>6
<1>12. PICK e \in 1 .. N : e = f[1] /\ pc[e] > 0 /\ pc[e] <= x
  <2>1. 1 \in 1 .. K
    BY <1>1
  <2>2. f[1] \in 1 .. N /\ pc[f[1]] <= x
    BY <1>6, <1>10, <1>11, <2>1
  <2>3. Follower(p, i, f[1])
    BY <1>1, <1>5, <2>1 DEF Follower
  <2>4. pc[f[1]] > 0
    BY <1>4, <2>2, <2>3
  <2> QED
    BY <2>2, <2>4
<1>13. x # 0 /\ pc[e] \in Nat
  BY <1>4, <1>12
<1>14. PICK b \in 1 .. N : g[K].word = p.words[b] /\ x = pc[b]
  BY <1>10, <1>11, <1>13
<1>15. ASSUME NEW c \in 1 .. N
       PROVE  pc[c] <= x
  <2>1. CASE Follower(p, i, c)
    <3>1. PICK n \in 1 .. K : f[n] = c
      BY <1>1, <1>5, <2>1 DEF Follower
    <3> QED
      BY <1>10, <1>11, <3>1
  <2>2. CASE ~Follower(p, i, c)
    <3>1. ~(pc[c] > 0) /\ pc[c] \in Nat
      BY <1>4, <2>2
    <3> QED
      BY <3>1
  <2> QED
    BY <2>1, <2>2
<1>16. x > 0
  BY <1>13
<1> QED
  BY <1>2, <1>4, <1>14, <1>15, <1>16

(* Every word has one index. *)
LEMMA IndexIs ==
  ASSUME NEW p, NEW N \in Nat, Shape(p, N)
  PROVE  /\ DOMAIN p.words = 1 .. N
         /\ \A a \in 1 .. N : index(p, p.words[a]) = a
         /\ \A a, b \in 1 .. N :
              count(p, p.words[a], p.words[b]) = pair_count(p, a, b)
<1>1. DOMAIN p.words = 1 .. N
  BY LenProperties DEF Shape
<1>2. ASSUME NEW a \in 1 .. N
      PROVE  index(p, p.words[a]) = a
  <2>1. \A n \in DOMAIN p.words : p.words[n] = p.words[a] => n = a
    BY <1>1 DEF Shape
  <2> QED
    BY <1>1, <2>1 DEF index
<1>3. ASSUME NEW a \in 1 .. N, NEW b \in 1 .. N
      PROVE  count(p, p.words[a], p.words[b]) = pair_count(p, a, b)
  <2>1. {p.words[a], p.words[b]} \subseteq ToSet(p.words)
    BY <1>1 DEF ToSet
  <2> QED
    BY <1>2, <2>1 DEF count
<1> QED
  BY <1>1, <1>2, <1>3

(* do_train gives the words that were followed their modes, and leaves the *)
(* others theirs.                                                          *)
LEMMA Trained ==
  ASSUME NEW p, NEW N \in Nat, Shape(p, N), NEW modes, NEW t, t = do_train(p, modes)
  PROVE  /\ \A x : x \in DOMAIN t <=>
                     \/ x \in DOMAIN modes
                     \/ \E a \in 1 .. N : p.nonzero_pairs[a] # << >> /\ p.words[a] = x
         /\ \A a \in 1 .. N : p.nonzero_pairs[a] # << >> => t[p.words[a]] = ModeOf(p, a)
         /\ \A x \in DOMAIN modes :
              (\A a \in 1 .. N : p.nonzero_pairs[a] # << >> => p.words[a] # x)
                => t[x] = modes[x]
<1> DEFINE followed == {i \in DOMAIN p.words : p.nonzero_pairs[i] # << >>}
           trained == {p.words[i] : i \in followed}
<1>1. \A x : x \in trained <=>
               \E a \in 1 .. N : p.nonzero_pairs[a] # << >> /\ p.words[a] = x
  BY IndexIs
<1>2. t = [w \in DOMAIN modes \cup trained |->
             IF w \in trained THEN ModeOf(p, index(p, w)) ELSE modes[w]]
  BY DEF do_train
<1> HIDE DEF trained, followed
<1>3. ASSUME NEW a \in 1 .. N, p.nonzero_pairs[a] # << >>
      PROVE  t[p.words[a]] = ModeOf(p, a)
  <2>1. p.words[a] \in trained
    BY <1>1, <1>3
  <2>2. t[p.words[a]] = ModeOf(p, index(p, p.words[a]))
    BY <1>2, <2>1
  <2>3. index(p, p.words[a]) = a
    BY IndexIs
  <2> QED
    BY <2>2, <2>3
<1>4. ASSUME NEW x \in DOMAIN modes,
             \A a \in 1 .. N : p.nonzero_pairs[a] # << >> => p.words[a] # x
      PROVE  t[x] = modes[x]
  <2>1. x \notin trained
    BY <1>1, <1>4
  <2> QED
    BY <1>2, <2>1
<1>5. \A x : x \in DOMAIN t <=> x \in DOMAIN modes \/ x \in trained
  BY <1>2
<1> QED
  BY <1>1, <1>3, <1>4, <1>5

(* Pairs are none exactly when the first word is never before the second.  *)
LEMMA PairsPositive ==
  ASSUME NEW W \in Seq(Word), W # << >>, NEW a, NEW b
  PROVE  /\ Pairs(W, a, b) \in Nat
         /\ Pairs(W, a, b) # 0 <=> \E n \in 1 .. Len(W) - 1 : W[n] = a /\ W[n + 1] = b
<1> DEFINE A == {n \in 1 .. Len(W) - 1 : W[n] = a /\ W[n + 1] = b}
<1>1. PICK L \in Nat : L = Len(W) - 1
  <2>1. Len(W) \in Nat /\ Len(W) # 0
    BY LenProperties, EmptySeq
  <2> QED
    BY <2>1
<1>2. A \in SUBSET (1 .. L)
  BY <1>1
<1>3. Pairs(W, a, b) = Cardinality(A)
  BY DEF Pairs
<1>4. A # {} <=> \E n \in 1 .. Len(W) - 1 : W[n] = a /\ W[n + 1] = b
  OBVIOUS
<1> HIDE DEF A
<1>5. Cardinality(A) \in Nat /\ (Cardinality(A) = 0 <=> A = {})
  BY <1>2, PlacesCounted
<1> QED
  BY <1>3, <1>4, <1>5

(* The words that were followed in the text are those with nonzero pairs.  *)
LEMMA FollowedInText ==
  ASSUME NEW p, NEW W, Reads(p, W), NEW N \in Nat, N = Len(p.words),
         NEW a \in 1 .. N
  PROVE  p.nonzero_pairs[a] # << >> <=> \E n \in 1 .. Len(W) - 1 : W[n] = p.words[a]
<1>1. /\ Text(W) /\ Shape(p, N) /\ Counted(p, W, N)
  BY DEF Reads
<1>2. W \in Seq(Word) /\ W # << >>
  BY <1>1 DEF Text
<1>3. PICK L \in Nat : L = Len(W)
  BY <1>2, LenProperties
<1>4. ASSUME NEW b \in 1 .. N
      PROVE  Follower(p, a, b) <=>
               \E n \in 1 .. L - 1 : W[n] = p.words[a] /\ W[n + 1] = p.words[b]
  <2>1. pair_count(p, a, b) = Pairs(W, p.words[a], p.words[b])
        /\ (pair_count(p, a, b) > 0 <=> Follower(p, a, b))
    BY <1>1 DEF Counted
  <2>2. /\ Pairs(W, p.words[a], p.words[b]) \in Nat
        /\ Pairs(W, p.words[a], p.words[b]) # 0 <=>
             \E n \in 1 .. L - 1 : W[n] = p.words[a] /\ W[n + 1] = p.words[b]
    <3>1. \A x, y :
            /\ Pairs(W, x, y) \in Nat
            /\ Pairs(W, x, y) # 0 <=> \E n \in 1 .. L - 1 : W[n] = x /\ W[n + 1] = y
      BY <1>2, <1>3, PairsPositive
    <3> QED
      BY <3>1, Zenon
  <2>3. pair_count(p, a, b) > 0 <=> Pairs(W, p.words[a], p.words[b]) # 0
    BY <2>1, <2>2
  <2> QED
    BY <2>1, <2>2, <2>3
<1>5. p.nonzero_pairs[a] \in Seq(1 .. N)
  BY <1>1, ElementOfSeq DEF Shape
<1>6. ASSUME p.nonzero_pairs[a] # << >>
      PROVE  \E n \in 1 .. L - 1 : W[n] = p.words[a]
  <2>1. 1 \in 1 .. Len(p.nonzero_pairs[a])
    BY <1>5, <1>6, LenProperties, EmptySeq
  <2>2. p.nonzero_pairs[a][1] \in 1 .. N
    BY <1>5, <2>1, ElementOfSeq
  <2>3. Follower(p, a, p.nonzero_pairs[a][1])
    BY <2>1 DEF Follower
  <2> QED
    BY <1>4, <2>2, <2>3
<1>7. ASSUME NEW n \in 1 .. L - 1, W[n] = p.words[a]
      PROVE  p.nonzero_pairs[a] # << >>
  <2>1. n + 1 \in 1 .. L
    OBVIOUS
  <2>2. Occurs(p.words, W[n + 1])
    BY <1>1, <1>3, <2>1 DEF Counted
  <2>3. PICK b \in 1 .. N : p.words[b] = W[n + 1]
    BY <2>2 DEF Occurs
  <2>4. Follower(p, a, b)
    BY <1>4, <1>7, <2>3
  <2>5. Len(p.nonzero_pairs[a]) # 0
    <3>1. PICK K \in Nat : K = Len(p.nonzero_pairs[a])
      BY <1>5, LenProperties
    <3>2. \E k \in 1 .. K : p.nonzero_pairs[a][k] = b
      BY <2>4, <3>1 DEF Follower
    <3> QED
      BY <3>1, <3>2
  <2> QED
    BY <2>5, EmptySeq
<1> QED
  BY <1>3, <1>6, <1>7

(* interface at a word: the parser reads it, and its mode is predicted. *)
LEMMA LearnsWord ==
  ASSUME NEW m, NEW W, NEW w \in Word, w # << >>, ModelOf(m, W, w)
  PROVE  /\ ModelOf(interface(m, TRUE), Append(W, w), << >>)
         /\ interface(m, TRUE).detected_interface = m.detected_interface
<1>1. PICK p : p = add_word(m.parser, w)
  OBVIOUS
<1>2. PICK V : V = Append(W, w)
  OBVIOUS
<1>3. Reads(m.parser, W) /\ Reads(p, V)
  BY <1>1, <1>2, AddWordReads DEF ModelOf
<1>4. PICK N \in Nat : N = Len(p.words)
  BY <1>3, LenProperties DEF Reads, Shape
<1>5. Text(V) /\ Shape(p, N) /\ Counted(p, V, N)
  BY <1>3, <1>4 DEF Reads
<1>6. V \in Seq(Word) /\ V # << >> /\ W \in Seq(Word) /\ W # << >>
  BY <1>3, <1>5 DEF Text, Reads
<1>7. PICK L \in Nat \ {0} : /\ L = Len(W) /\ Len(V) = L + 1 /\ V[L + 1] = w
                             /\ \A n \in 1 .. L : V[n] = W[n]
  <2>1. Len(W) \in Nat /\ Len(W) # 0
    BY <1>6, LenProperties, EmptySeq
  <2> QED
    BY <1>2, <1>6, <2>1, AppendProperties
<1>8. PICK i \in 1 .. N : p.words[i] = w
  <2>1. p.last_index \in 1 .. N /\ p.words[p.last_index] = w
    BY <1>5, <1>7 DEF Shape, Counted
  <2> QED
    BY <2>1
<1>9. PICK t : t = do_train(p, m.word_modes)
  OBVIOUS
<1>10. /\ \A x : x \in DOMAIN t <=>
                     \/ x \in DOMAIN m.word_modes
                     \/ \E a \in 1 .. N : p.nonzero_pairs[a] # << >> /\ p.words[a] = x
       /\ \A a \in 1 .. N : p.nonzero_pairs[a] # << >> => t[p.words[a]] = ModeOf(p, a)
       /\ \A x \in DOMAIN m.word_modes :
            (\A a \in 1 .. N : p.nonzero_pairs[a] # << >> => p.words[a] # x)
              => t[x] = m.word_modes[x]
  BY <1>5, <1>9, Trained
<1>11. \A a \in 1 .. N :
         p.nonzero_pairs[a] # << >> <=> \E n \in 1 .. L : V[n] = p.words[a]
  <2>1. \A a \in 1 .. N :
          p.nonzero_pairs[a] # << >> <=>
            \E n \in 1 .. Len(V) - 1 : V[n] = p.words[a]
    BY <1>3, <1>4, FollowedInText
  <2>2. Len(V) - 1 = L
    BY <1>7
  <2> QED
    BY <2>1, <2>2
<1> DEFINE modes == [x \in DOMAIN t \cup {w} |-> IF x \in DOMAIN t THEN t[x] ELSE << >>]
<1>12. /\ DOMAIN modes = DOMAIN t \cup {w}
       /\ \A x \in DOMAIN t : modes[x] = t[x]
       /\ w \notin DOMAIN t => modes[w] = << >>
  OBVIOUS
<1>13. PICK prediction : prediction = modes[w]
  OBVIOUS
<1>14. PICK weight : weight = count(p, w, prediction)
  OBVIOUS
<1>15. /\ m = [parser |-> m.parser, input |-> m.input,
               word_modes |-> m.word_modes,
               detected_interface |-> m.detected_interface,
               prediction |-> m.prediction, weight |-> m.weight]
       /\ m.input = w /\ m.detected_interface \in BOOLEAN
       /\ ModesKnown(m.word_modes, W)
  BY DEF ModelOf
<1>16. interface(m, TRUE) =
         [m EXCEPT !.parser = p, !.word_modes = modes, !.prediction = prediction,
                   !.weight = weight, !.input = << >>]
  BY <1>1, <1>9, <1>13, <1>14, <1>15 DEF interface
<1> HIDE DEF modes
<1>17. PICK new : new = interface(m, TRUE)
  OBVIOUS
<1>18. /\ new = [parser |-> new.parser, input |-> new.input,
                 word_modes |-> new.word_modes,
                 detected_interface |-> new.detected_interface,
                 prediction |-> new.prediction, weight |-> new.weight]
       /\ new.parser = p /\ new.input = << >> /\ new.word_modes = modes
       /\ new.detected_interface = m.detected_interface
       /\ new.prediction = prediction /\ new.weight = weight
  <2>1. DOMAIN m = {"parser", "input", "word_modes", "detected_interface",
                    "prediction", "weight"}
    BY <1>15
  <2>2. new = [f \in DOMAIN new |-> new[f]] /\ DOMAIN new = DOMAIN m
    BY <1>16, <1>17
  <2>3. /\ new.parser = p /\ new.input = << >> /\ new.word_modes = modes
        /\ new.detected_interface = m.detected_interface
        /\ new.prediction = prediction /\ new.weight = weight
    BY <1>16, <1>17, <2>1
  <2> QED
    BY <2>1, <2>2, <2>3
<1>19. ASSUME NEW x \in DOMAIN modes, modes[x] # << >>
       PROVE  \E n \in 1 .. L : V[n] = x
  <2>1. CASE \E a \in 1 .. N : p.nonzero_pairs[a] # << >> /\ p.words[a] = x
    BY <1>11, <2>1
  <2>2. CASE ~\E a \in 1 .. N : p.nonzero_pairs[a] # << >> /\ p.words[a] = x
    <3>1. x \in DOMAIN m.word_modes /\ modes[x] = m.word_modes[x]
      BY <1>10, <1>12, <1>19, <2>2
    <3>2. PICK n \in 1 .. L - 1 : W[n] = x
      BY <1>7, <1>15, <1>19, <3>1 DEF ModesKnown
    <3>3. n \in 1 .. L
      OBVIOUS
    <3> QED
      BY <1>7, <3>2, <3>3
  <2> QED
    BY <2>1, <2>2
<1>20. ModesKnown(modes, V)
  <2>1. Len(V) - 1 = L
    BY <1>7
  <2> QED
    BY <1>19, <2>1 DEF ModesKnown
<1>21. \A b \in 1 .. N :
         /\ count(p, w, p.words[b]) = Pairs(V, w, p.words[b])
         /\ pair_count(p, i, b) = Pairs(V, w, p.words[b])
         /\ pair_count(p, i, b) \in Nat
         /\ pair_count(p, i, b) > 0 <=> Follower(p, i, b)
  <2>1. \A b \in 1 .. N :
          /\ pair_count(p, i, b) = Pairs(V, w, p.words[b])
          /\ pair_count(p, i, b) > 0 <=> Follower(p, i, b)
    BY <1>5, <1>8 DEF Counted
  <2>2. \A x : Pairs(V, w, x) \in Nat
    BY <1>6, PairsPositive
  <2>3. \A b \in 1 .. N : count(p, w, p.words[b]) = pair_count(p, i, b)
    BY <1>5, <1>8, IndexIs
  <2> QED
    BY <2>1, <2>2, <2>3
<1>22. \A x : Occurs(V, x) => \E c \in 1 .. N : p.words[c] = x
  BY <1>4, <1>5 DEF Counted, Occurs
<1>23. Best(prediction, weight, V)
  <2>1. V[Len(V)] = w
    BY <1>7
  <2>2. CASE p.nonzero_pairs[i] # << >>
    <3>1. PICK b \in 1 .. N : /\ ModeOf(p, i) = p.words[b]
                              /\ pair_count(p, i, b) > 0
                              /\ \A c \in 1 .. N :
                                   pair_count(p, i, c) <= pair_count(p, i, b)
      BY <1>5, <1>21, <2>2, ModeIsBest
    <3>2. prediction = p.words[b]
      BY <1>8, <1>10, <1>12, <1>13, <2>2, <3>1
    <3>3. PICK k \in Nat : k = Pairs(V, w, prediction)
                           /\ k = pair_count(p, i, b) /\ weight = k
      BY <1>14, <1>21, <3>2
    <3>4. k # 0
      BY <3>1, <3>3
    <3>5. ASSUME NEW x, Occurs(V, x)
          PROVE  Pairs(V, w, x) <= k
      <4>1. PICK c \in 1 .. N : p.words[c] = x
        BY <1>22, <3>5
      <4>2. Pairs(V, w, x) = pair_count(p, i, c)
        BY <1>21, <4>1
      <4> QED
        BY <3>1, <3>3, <4>2
    <3> QED
      BY <2>1, <3>3, <3>4, <3>5 DEF Best
  <2>3. CASE p.nonzero_pairs[i] = << >>
    <3>1. ~\E n \in 1 .. L : V[n] = w
      BY <1>8, <1>11, <2>3
    <3>2. prediction = << >>
      BY <1>12, <1>13, <1>19, <3>1
    <3>3. \A x : Pairs(V, w, x) = 0
      <4>1. \A x : Pairs(V, w, x) # 0 =>
                     \E n \in 1 .. Len(V) - 1 : V[n] = w /\ V[n + 1] = x
        BY <1>6, PairsPositive
      <4>2. Len(V) - 1 = L
        BY <1>7
      <4> QED
        BY <3>1, <4>1, <4>2
    <3>4. PICK e \in 1 .. N : p.words[e] = << >>
      <4>1. 1 \in 1 .. Len(V) /\ V[1] = << >>
        BY <1>5, <1>7 DEF Text
      <4>2. Occurs(V, << >>)
        BY <4>1 DEF Occurs
      <4> QED
        BY <1>22, <4>2
    <3>5. weight = 0
      BY <1>14, <1>21, <3>2, <3>3, <3>4
    <3>6. 0 <= 0
      OBVIOUS
    <3> QED
      BY <2>1, <3>2, <3>3, <3>5, <3>6 DEF Best
  <2> QED
    BY <2>2, <2>3
<1>24. ModelOf(new, V, << >>)
  <2>1. Len(V) # 1
    BY <1>7
  <2> QED
    BY <1>3, <1>15, <1>18, <1>20, <1>23, <2>1 DEF ModelOf
<1> QED
  BY <1>2, <1>17, <1>18, <1>24

(***************************************************************************)
(* The steps of the stack.                                                 *)
(***************************************************************************)

(* putc changes the input of a model and finds out whether it is a         *)
(* delimiter; at an empty input an interface changes nothing.              *)
LEMMA PutcModel ==
  ASSUME NEW m, NEW W, NEW word, ModelOf(m, W, word), NEW c
  PROVE  /\ c = EndOfStream \/ (c = Backspace /\ word = << >>) => putc(m, c) = m
         /\ c # EndOfStream /\ c = Backspace /\ word # << >> =>
              /\ ModelOf(putc(m, c), W, Front(word))
              /\ putc(m, c).detected_interface <=> Front(word) \in Delimiters
         /\ c # EndOfStream /\ c # Backspace =>
              /\ ModelOf(putc(m, c), W, Append(word, c))
              /\ putc(m, c).detected_interface <=> Append(word, c) \in Delimiters
         /\ word = << >> => interface(m, TRUE) = m
<1>1. /\ m = [parser |-> m.parser, input |-> m.input,
              word_modes |-> m.word_modes,
              detected_interface |-> m.detected_interface,
              prediction |-> m.prediction, weight |-> m.weight]
      /\ m.input = word /\ m.detected_interface \in BOOLEAN
      /\ Reads(m.parser, W) /\ ModesKnown(m.word_modes, W)
      /\ IF Len(W) = 1 THEN m.prediction = << >>
                       ELSE Best(m.prediction, m.weight, W)
  BY DEF ModelOf
<1>2. ASSUME NEW input, NEW new,
             new = [m EXCEPT !.input = input,
                             !.detected_interface = Delimiters = {} \/ input \in Delimiters]
      PROVE  ModelOf(new, W, input)
             /\ (new.detected_interface <=> input \in Delimiters)
  <2>1. PICK d \in BOOLEAN : d = (Delimiters = {} \/ input \in Delimiters)
    OBVIOUS
  <2>2. d <=> input \in Delimiters
    BY <2>1, DelimitersAssumption
  <2>3. new = [m EXCEPT !.input = input, !.detected_interface = d]
    BY <1>2, <2>1
  <2>4. DOMAIN m = {"parser", "input", "word_modes", "detected_interface",
                    "prediction", "weight"}
    BY <1>1
  <2>5. new = [f \in DOMAIN new |-> new[f]] /\ DOMAIN new = DOMAIN m
    BY <2>3
  <2>6. /\ new.parser = m.parser /\ new.input = input
        /\ new.word_modes = m.word_modes
        /\ new.detected_interface = d
        /\ new.prediction = m.prediction /\ new.weight = m.weight
    BY <2>3, <2>4
  <2>7. new = [parser |-> new.parser, input |-> new.input,
               word_modes |-> new.word_modes,
               detected_interface |-> new.detected_interface,
               prediction |-> new.prediction, weight |-> new.weight]
    BY <2>4, <2>5
  <2> QED
    BY <1>1, <2>2, <2>6, <2>7 DEF ModelOf
<1>3. c = EndOfStream \/ (c = Backspace /\ word = << >>) => putc(m, c) = m
  BY <1>1 DEF putc
<1>4. ASSUME c # EndOfStream, c = Backspace, word # << >>
      PROVE  putc(m, c) =
               [m EXCEPT !.input = Front(word),
                         !.detected_interface =
                            Delimiters = {} \/ Front(word) \in Delimiters]
  BY <1>1, <1>4 DEF putc
<1>5. ASSUME c # EndOfStream, c # Backspace
      PROVE  putc(m, c) =
               [m EXCEPT !.input = Append(word, c),
                         !.detected_interface =
                            Delimiters = {} \/ Append(word, c) \in Delimiters]
  BY <1>1, <1>5 DEF putc
<1>6. word = << >> => interface(m, TRUE) = m
  BY <1>1 DEF interface
<1>7. ASSUME c # EndOfStream, c = Backspace, word # << >>
      PROVE  /\ ModelOf(putc(m, c), W, Front(word))
             /\ putc(m, c).detected_interface <=> Front(word) \in Delimiters
  BY <1>2, <1>4, <1>7
<1>8. ASSUME c # EndOfStream, c # Backspace
      PROVE  /\ ModelOf(putc(m, c), W, Append(word, c))
             /\ putc(m, c).detected_interface <=> Append(word, c) \in Delimiters
  BY <1>2, <1>5, <1>8
<1> QED
  BY <1>3, <1>6, <1>7, <1>8

(* A plain word is no delimiter; a character more or less leaves it plain. *)
LEMMA PlainWords ==
  ASSUME NEW word \in Word, Plain(word)
  PROVE  /\ word \notin Delimiters
         /\ word # << >> => Plain(Front(word)) /\ Front(word) \notin Delimiters
         /\ \A c \in Characters : <<c>> \notin Delimiters =>
              Plain(Append(word, c)) /\ Append(word, c) \notin Delimiters
<1>1. ASSUME NEW u, Plain(u)
      PROVE  u \notin Delimiters
  <2>1. SUFFICES ASSUME u \in Delimiters
                 PROVE  FALSE
    OBVIOUS
  <2>2. PICK d : u = <<d>>
    BY <2>1, DelimitersAssumption
  <2>3. Len(u) = 1 /\ u[1] = d /\ 1 \in 1 .. 1
    BY <2>2
  <2> QED
    BY <1>1, <2>1, <2>2, <2>3 DEF Plain
<1>2. PICK L \in Nat : L = Len(word)
  BY LenProperties DEF Word
<1>3. ASSUME word # << >>
      PROVE  Plain(Front(word))
  <2>1. L # 0
    BY <1>2, <1>3, EmptySeq DEF Word
  <2>2. PICK K \in Nat : K = L - 1 /\ K + 1 = L
    BY <2>1
  <2>3. \A n \in 1 .. K : n \in 1 .. L /\ word[n] \in Characters
    BY <1>2, <2>2, ElementOfSeq DEF Word
  <2>4. PICK f : f = SubSeq(word, 1, K)
    OBVIOUS
  <2>5. /\ Len(f) = K /\ \A n \in 1 .. K : f[n] = word[n]
    BY <2>3, <2>4
  <2>6. Front(word) = f
    BY <1>2, <2>2, <2>4 DEF Front
  <2> QED
    BY <1>2, <2>3, <2>5, <2>6 DEF Plain
<1>4. ASSUME NEW c \in Characters, <<c>> \notin Delimiters
      PROVE  Plain(Append(word, c))
  <2>1. PICK u : u = Append(word, c)
    OBVIOUS
  <2>2. /\ Len(u) = L + 1 /\ u[L + 1] = c
        /\ \A n \in 1 .. L : u[n] = word[n]
    BY <1>2, <2>1, AppendProperties DEF Word
  <2>3. \A n \in 1 .. L + 1 : n \in 1 .. L \/ n = L + 1
    OBVIOUS
  <2> QED
    BY <1>2, <1>4, <2>1, <2>2, <2>3 DEF Plain
<1> QED
  BY <1>1, <1>3, <1>4

(* The words behind the empty one. *)
LEMMA FreshAppend ==
  ASSUME NEW ws \in Seq(Word), NEW x \in Word
  PROVE  Fresh \o Append(ws, x) = Append(Fresh \o ws, x)
<1>1. Fresh \in Seq(Word)
  <2>1. << >> \in Word
    BY EmptySeq DEF Word
  <2> QED
    BY <2>1 DEF Fresh
<1>2. <<x>> \in Seq(Word)
  OBVIOUS
<1>3. Fresh \o ws \in Seq(Word)
  BY <1>1, ConcatProperties
<1>4. /\ Append(ws, x) = ws \o <<x>>
      /\ Append(Fresh \o ws, x) = (Fresh \o ws) \o <<x>>
  BY <1>3, AppendIsConcat
<1>5. (Fresh \o ws) \o <<x>> = Fresh \o (ws \o <<x>>)
  BY <1>1, <1>2, ConcatAssociative
<1> QED
  BY <1>4, <1>5

(* No character is typed and every model is new. *)
LEMMA StackInit == Init => StackInv
<1> SUFFICES ASSUME Init
             PROVE  StackInv
  OBVIOUS
<1>1. typed = << >> /\ models \in [1 .. Levels -> NewModels]
  BY DEF Init
<1>2. typed \in Seq(Characters)
  BY <1>1, EmptySeq
<1>3. TextRead(typed) = Nothing
  BY <1>1, TextReadStep
<1>4. \A i \in 1 .. Levels : LevelText(Nothing, i) = Fresh /\ LevelInput(Nothing, i) = << >>
  <2>1. Fresh \o << >> = Fresh
    <3>1. << >> \in Word
      BY EmptySeq DEF Word
    <3>2. Fresh \in Seq(Word)
      BY <3>1 DEF Fresh
    <3> QED
      BY <3>2, ConcatEmptySeq
  <2> QED
    BY <2>1 DEF LevelText, LevelInput, Nothing
<1>5. ASSUME NEW m \in NewModels
      PROVE  ModelOf(m, Fresh, << >>)
  <2>1. /\ m.parser = NewParser /\ m.input = << >>
        /\ m.word_modes = [w \in {} |-> << >>]
        /\ m.detected_interface \in BOOLEAN
        /\ m.prediction = << >> /\ m.weight = 0
        /\ m = [parser |-> m.parser, input |-> m.input,
                word_modes |-> m.word_modes,
                detected_interface |-> m.detected_interface,
                prediction |-> m.prediction, weight |-> m.weight]
    BY DEF NewModels
  <2>2. ModesKnown(m.word_modes, Fresh)
    <3>1. DOMAIN m.word_modes = {}
      BY <2>1
    <3> QED
      BY <3>1 DEF ModesKnown
  <2>3. Len(Fresh) = 1
    BY DEF Fresh
  <2>4. Reads(m.parser, Fresh)
    BY <2>1, NewParserReads
  <2> QED
    BY <2>1, <2>2, <2>3, <2>4 DEF ModelOf
<1>6. \A i \in 1 .. Levels :
        ModelOf(models[i], LevelText(Nothing, i), LevelInput(Nothing, i))
  BY <1>1, <1>4, <1>5
<1>7. Placed(Nothing, models)
  <2>1. Len(<< >>) = 0 /\ \A n \in 1 .. 0 : FALSE
    OBVIOUS
  <2> QED
    BY <2>1 DEF Placed, Nothing, Plain
<1>8. Nothing \in Readings
  BY <1>2, <1>3, TextReadStep
<1> QED
  BY <1>2, <1>3, <1>6, <1>7, <1>8 DEF StackInv, Stacked

(* What a character is in a text. *)
LEMMA ReadCases ==
  ASSUME NEW t \in Readings, NEW c \in Characters
  PROVE  /\ c = EndOfStream \/ (c = Backspace /\ t.word = << >>) => Read(t, c) = t
         /\ c # EndOfStream /\ c = Backspace /\ t.word # << >> =>
              /\ Read(t, c).letters = t.letters /\ Read(t, c).words = t.words
              /\ Read(t, c).word = Front(t.word)
         /\ c # EndOfStream /\ c # Backspace /\ <<c>> \in Delimiters =>
              /\ Read(t, c).letters = Append(t.letters, <<c>>)
              /\ Read(t, c).words = IF t.word = << >> THEN t.words
                                    ELSE Append(t.words, t.word)
              /\ Read(t, c).word = << >>
         /\ c # EndOfStream /\ c # Backspace /\ <<c>> \notin Delimiters =>
              /\ Read(t, c).letters = Append(t.letters, <<c>>)
              /\ Read(t, c).words = t.words
              /\ Read(t, c).word = Append(t.word, c)
<1> DEFINE ls == t.letters
           ws == t.words
           w == t.word
<1>1. t = [letters |-> ls, words |-> ws, word |-> w]
  BY DEF Readings
<1>2. PICK one : one = <<c>>
  OBVIOUS
<1>3. t.letters = ls /\ t.words = ws /\ t.word = w
  OBVIOUS
<1> HIDE DEF ls, ws, w
<1>4. c = EndOfStream \/ c = Backspace => one \notin Delimiters
  BY <1>2, DelimitersAssumption
<1>5. CASE c = EndOfStream
  <2>1. Read(t, c) = t
    BY <1>2, <1>4, <1>5, DelimitersAssumption DEF Read
  <2> QED
    BY <1>5, <2>1
<1>6. CASE c # EndOfStream /\ c = Backspace
  <2>1. PICK v : v = IF w = << >> THEN w ELSE Front(w)
    OBVIOUS
  <2>2. Read(t, c) = [t EXCEPT !.word = v]
    BY <1>2, <1>3, <1>4, <1>6, <2>1 DEF Read
  <2>3. Read(t, c) = [letters |-> ls, words |-> ws, word |-> v]
    BY <1>1, <2>2
  <2>4. w = << >> => Read(t, c) = t
    BY <1>1, <2>1, <2>3
  <2>5. /\ Read(t, c).letters = ls /\ Read(t, c).words = ws
        /\ Read(t, c).word = v
    BY <2>3
  <2> QED
    BY <1>3, <1>6, <2>1, <2>4, <2>5
<1>7. CASE c # EndOfStream /\ c # Backspace /\ one \in Delimiters
  <2>1. Read(t, c) = [letters |-> Append(ls, one),
                      words |-> IF w = << >> THEN ws ELSE Append(ws, w),
                      word |-> << >>]
    BY <1>2, <1>3, <1>7 DEF Read
  <2> QED
    BY <1>2, <1>3, <1>7, <2>1
<1>8. CASE c # EndOfStream /\ c # Backspace /\ one \notin Delimiters
  <2>1. PICK v : v = Append(ls, one)
    OBVIOUS
  <2>2. PICK u : u = Append(w, c)
    OBVIOUS
  <2>3. Read(t, c) = [t EXCEPT !.letters = v, !.word = u]
    BY <1>2, <1>3, <1>8, <2>1, <2>2 DEF Read
  <2>4. Read(t, c).letters = v /\ Read(t, c).words = ws /\ Read(t, c).word = u
    BY <1>1, <2>3
  <2> QED
    BY <1>2, <1>3, <1>8, <2>1, <2>2, <2>4
<1> QED
  BY <1>2, <1>5, <1>6, <1>7, <1>8

(* How a character c makes the stack ms2 of the stack ms. *)
Passes(ms, ms2, c) ==
  /\ ms2[1] = interface(putc(ms[1], c), TRUE)
  /\ \A i \in 2 .. Levels :
       \/ /\ \A j \in 1 .. i - 1 : ~putc(ms[j], c).detected_interface
          /\ ms2[i] = putc(ms[i], c)
       \/ /\ \E j \in 1 .. i - 1 : putc(ms[j], c).detected_interface
          /\ ms2[i] = interface(ms[i], TRUE)

(* The end of stream, and a backspace before the word, change nothing.     *)
LEMMA NothingRead ==
  ASSUME NEW t, NEW ms, NEW ms2, Stacked(t, ms), NEW c \in Characters,
         Passes(ms, ms2, c), c = EndOfStream \/ (c = Backspace /\ t.word = << >>)
  PROVE  Stacked(t, ms2)
<1>1. Levels \in Nat \ {0} /\ 1 \in 1 .. Levels
  BY LevelsAssumption
<1>2. \A i \in 1 .. Levels :
        /\ putc(ms[i], c) = ms[i]
        /\ LevelInput(t, i) = << >> => interface(ms[i], TRUE) = ms[i]
  <2>1. \A i \in 1 .. Levels :
          /\ ModelOf(ms[i], LevelText(t, i), LevelInput(t, i))
          /\ c = EndOfStream \/ (c = Backspace /\ LevelInput(t, i) = << >>)
    BY DEF Stacked, LevelInput
  <2>2. \A m, W, w : /\ ModelOf(m, W, w)
                     /\ c = EndOfStream \/ (c = Backspace /\ w = << >>)
                     => /\ putc(m, c) = m
                        /\ w = << >> => interface(m, TRUE) = m
    BY PutcModel
  <2> QED
    BY <2>1, <2>2, Zenon
<1>3. ms2[1] = ms[1]
  BY <1>1, <1>2 DEF Passes, LevelInput
<1>4. ASSUME NEW i \in 2 .. Levels
      PROVE  ms2[i] = ms[i]
  <2>1. i \in 1 .. Levels /\ i # 1 /\ \A j \in 1 .. i - 1 : j \in 1 .. Levels
    BY <1>1
  <2>2. CASE ms2[i] = putc(ms[i], c)
    BY <1>2, <2>1, <2>2
  <2>3. CASE /\ \E j \in 1 .. i - 1 : putc(ms[j], c).detected_interface
             /\ ms2[i] = interface(ms[i], TRUE)
    <3>1. PICK j \in 1 .. i - 1 : ms[j].detected_interface
      BY <1>2, <2>1, <2>3
    <3>2. j = 1 \/ j \in 2 .. Levels
      BY <1>1, <3>1
    <3>3. t.word = << >>
      BY <3>1, <3>2 DEF Stacked, Placed
    <3> QED
      BY <1>2, <2>1, <2>3, <3>3 DEF LevelInput
  <2> QED
    BY <2>2, <2>3 DEF Passes
<1>5. \A i \in 1 .. Levels : ms2[i] = ms[i]
  <2>1. \A i \in 1 .. Levels : i = 1 \/ i \in 2 .. Levels
    BY <1>1
  <2> QED
    BY <1>3, <1>4, <2>1
<1>6. \A i \in 2 .. Levels : i \in 1 .. Levels
  OBVIOUS
<1> QED
  BY <1>1, <1>5, <1>6 DEF Stacked, Placed

(* A backspace within a word takes a character of it from every level above *)
(* the lowest.                                                              *)
LEMMA BackspaceRead ==
  ASSUME NEW t, NEW ms, NEW ms2, Stacked(t, ms), NEW c \in Characters,
         Passes(ms, ms2, c), c # EndOfStream, c = Backspace, t.word # << >>,
         NEW t2, t2 = Read(t, c)
  PROVE  Stacked(t2, ms2)
<1>1. Levels \in Nat \ {0} /\ 1 \in 1 .. Levels
  BY LevelsAssumption
<1>2. /\ t2 \in Readings
      /\ t2.letters = t.letters /\ t2.words = t.words /\ t2.word = Front(t.word)
  BY ReadTyped, ReadCases DEF Stacked
<1>3. \A i \in 1 .. Levels : ModelOf(ms[i], LevelText(t, i), LevelInput(t, i))
  BY DEF Stacked
<1>4. Plain(Front(t.word)) /\ Front(t.word) \notin Delimiters
  <2>1. t.word \in Word /\ Plain(t.word)
    BY DEF Stacked, Readings, Placed
  <2> QED
    BY <2>1, PlainWords
<1>5. putc(ms[1], c) = ms[1] /\ interface(ms[1], TRUE) = ms[1]
  <2>1. ModelOf(ms[1], LevelText(t, 1), << >>)
    BY <1>1, <1>3 DEF LevelInput
  <2> QED
    BY <2>1, PutcModel
<1>6. ASSUME NEW i \in 2 .. Levels
      PROVE  /\ ModelOf(putc(ms[i], c), LevelText(t, i), Front(t.word))
             /\ ~putc(ms[i], c).detected_interface
  <2>1. i \in 1 .. Levels /\ i # 1
    OBVIOUS
  <2>2. PICK m : m = ms[i]
    OBVIOUS
  <2>3. PICK W : W = LevelText(t, i)
    OBVIOUS
  <2>4. PICK w : w = t.word
    OBVIOUS
  <2>5. ModelOf(m, W, w)
    BY <1>3, <2>1, <2>2, <2>3, <2>4 DEF LevelInput
  <2>6. /\ ModelOf(putc(m, c), W, Front(w))
        /\ putc(m, c).detected_interface <=> Front(w) \in Delimiters
    BY <2>4, <2>5, PutcModel
  <2> QED
    BY <1>4, <2>2, <2>3, <2>4, <2>6
<1>7. ~ms[1].detected_interface
  BY DEF Stacked, Placed
<1>8. ASSUME NEW i \in 2 .. Levels
      PROVE  ms2[i] = putc(ms[i], c)
  <2>1. ASSUME NEW j \in 1 .. i - 1
        PROVE  ~putc(ms[j], c).detected_interface
    <3>1. j = 1 \/ j \in 2 .. Levels
      BY <1>1
    <3> QED
      BY <1>5, <1>6, <1>7, <3>1
  <2> QED
    BY <2>1 DEF Passes
<1>9. ms2[1] = ms[1]
  BY <1>5 DEF Passes
<1>10. ASSUME NEW i \in 1 .. Levels
       PROVE  ModelOf(ms2[i], LevelText(t2, i), LevelInput(t2, i))
  <2>1. LevelText(t2, i) = LevelText(t, i)
    BY <1>2 DEF LevelText
  <2>2. CASE i = 1
    BY <1>3, <1>9, <2>1, <2>2 DEF LevelInput
  <2>3. CASE i # 1
    <3>1. i \in 2 .. Levels
      BY <2>3
    <3> QED
      BY <1>2, <1>6, <1>8, <2>1, <2>3, <3>1 DEF LevelInput
  <2> QED
    BY <2>2, <2>3
<1>11. Placed(t2, ms2)
  <2>1. /\ t.letters # << >>
        /\ t.letters[Len(t.letters)] \notin Delimiters
    BY DEF Stacked, Placed
  <2> QED
    BY <1>2, <1>4, <1>6, <1>7, <1>8, <1>9, <2>1 DEF Placed
<1> QED
  BY <1>2, <1>10, <1>11 DEF Stacked

(* What a letter or delimiter makes of the lowest level.                   *)
LEMMA LetterLearnt ==
  ASSUME NEW t, NEW ms, NEW ms2, Stacked(t, ms), NEW c \in Characters,
         Passes(ms, ms2, c), c # EndOfStream, c # Backspace,
         NEW t2, t2 = Read(t, c)
  PROVE  /\ ModelOf(ms2[1], LevelText(t2, 1), LevelInput(t2, 1))
         /\ putc(ms[1], c).detected_interface <=> <<c>> \in Delimiters
         /\ ms2[1].detected_interface <=> <<c>> \in Delimiters
         /\ t2.letters # << >> /\ t2.letters[Len(t2.letters)] = <<c>>
<1> PICK one : one = <<c>>
  OBVIOUS
<1>1. Levels \in Nat \ {0} /\ 1 \in 1 .. Levels
  BY LevelsAssumption
<1>2. t2 \in Readings /\ t2.letters = Append(t.letters, one)
  BY ReadTyped, ReadCases DEF Stacked
<1>3. /\ one \in Word /\ one # << >> /\ one = Append(<< >>, c)
      /\ t.letters \in Seq(Word)
  BY DEF Word, Stacked, Readings
<1>4. ModelOf(ms[1], LevelText(t, 1), << >>)
  BY <1>1 DEF Stacked, LevelInput
<1>5. PICK d : d = putc(ms[1], c)
  OBVIOUS
<1>6. /\ ModelOf(d, LevelText(t, 1), one)
      /\ d.detected_interface <=> one \in Delimiters
  <2>1. PICK e : e = << >>
    OBVIOUS
  <2>2. /\ ModelOf(putc(ms[1], c), LevelText(t, 1), Append(e, c))
        /\ putc(ms[1], c).detected_interface <=> Append(e, c) \in Delimiters
    BY <1>4, <2>1, PutcModel
  <2> QED
    BY <1>3, <1>5, <2>1, <2>2
<1>7. ms2[1] = interface(d, TRUE)
  BY <1>5 DEF Passes
<1>8. /\ ModelOf(ms2[1], Append(LevelText(t, 1), one), << >>)
      /\ ms2[1].detected_interface = d.detected_interface
  BY <1>3, <1>6, <1>7, LearnsWord
<1>9. LevelText(t2, 1) = Append(LevelText(t, 1), one)
  BY <1>2, <1>3, FreshAppend DEF LevelText
<1>10. t2.letters # << >> /\ t2.letters[Len(t2.letters)] = one
  <2>1. PICK L \in Nat : L = Len(t.letters)
    BY <1>3, LenProperties
  <2>2. Len(t2.letters) = L + 1 /\ t2.letters[L + 1] = one
    BY <1>2, <1>3, <2>1, AppendProperties
  <2>3. L + 1 # 0
    BY <2>1
  <2> QED
    BY <2>2, <2>3, EmptySeq
<1> QED
  BY <1>5, <1>6, <1>8, <1>9, <1>10 DEF LevelInput

(* A delimiter ends the word: every level above the lowest learns it.       *)
LEMMA DelimiterRead ==
  ASSUME NEW t, NEW ms, NEW ms2, Stacked(t, ms), NEW c \in Characters,
         Passes(ms, ms2, c), c # EndOfStream, c # Backspace,
         <<c>> \in Delimiters, NEW t2, t2 = Read(t, c)
  PROVE  Stacked(t2, ms2)
<1>1. Levels \in Nat \ {0} /\ 1 \in 1 .. Levels
  BY LevelsAssumption
<1>2. /\ t \in Readings /\ t2 \in Readings
      /\ t2.words = IF t.word = << >> THEN t.words ELSE Append(t.words, t.word)
      /\ t2.word = << >>
  BY ReadTyped, ReadCases DEF Stacked
<1>3. /\ ModelOf(ms2[1], LevelText(t2, 1), LevelInput(t2, 1))
      /\ putc(ms[1], c).detected_interface
      /\ ms2[1].detected_interface
      /\ t2.letters # << >> /\ t2.letters[Len(t2.letters)] \in Delimiters
  BY LetterLearnt
<1>4. ASSUME NEW i \in 2 .. Levels
      PROVE  /\ ModelOf(ms2[i], LevelText(t2, i), << >>)
             /\ ms2[i].detected_interface = ms[i].detected_interface
  <2>1. i \in 1 .. Levels /\ i # 1 /\ 1 \in 1 .. i - 1
    OBVIOUS
  <2>2. ms2[i] = interface(ms[i], TRUE)
    BY <1>3, <2>1 DEF Passes
  <2>3. ModelOf(ms[i], LevelText(t, i), t.word)
    BY <2>1 DEF Stacked, LevelInput
  <2>4. LevelText(t, i) = Fresh \o t.words /\ LevelText(t2, i) = Fresh \o t2.words
    BY <2>1 DEF LevelText
  <2>5. CASE t.word = << >>
    <3>1. ms2[i] = ms[i]
      BY <2>2, <2>3, <2>5, PutcModel
    <3> QED
      BY <1>2, <2>3, <2>4, <2>5, <3>1
  <2>6. CASE t.word # << >>
    <3>1. t.word \in Word /\ t.words \in Seq(Word)
      BY <1>2 DEF Readings
    <3>2. LevelText(t2, i) = Append(LevelText(t, i), t.word)
      BY <1>2, <2>4, <2>6, <3>1, FreshAppend
    <3> QED
      BY <2>2, <2>3, <2>6, <3>1, <3>2, LearnsWord
  <2> QED
    BY <2>5, <2>6
<1>5. ASSUME NEW i \in 1 .. Levels
      PROVE  ModelOf(ms2[i], LevelText(t2, i), LevelInput(t2, i))
  <2>1. i = 1 \/ (i # 1 /\ i \in 2 .. Levels)
    OBVIOUS
  <2> QED
    BY <1>2, <1>3, <1>4, <2>1 DEF LevelInput
<1>6. Placed(t2, ms2)
  <2>1. Plain(<< >>)
    <3>1. Len(<< >>) = 0 /\ \A n \in 1 .. 0 : FALSE
      OBVIOUS
    <3> QED
      BY <3>1 DEF Plain
  <2>2. ASSUME t2.words # << >>, NEW i \in 2 .. Levels
        PROVE  ~ms2[i].detected_interface
    <3>1. t.word # << >> \/ t.words # << >>
      BY <1>2, <2>2
    <3>2. ~ms[i].detected_interface
      BY <3>1 DEF Stacked, Placed
    <3> QED
      BY <1>4, <3>2
  <2> QED
    BY <1>2, <1>3, <2>1, <2>2 DEF Placed
<1> QED
  BY <1>2, <1>5, <1>6 DEF Stacked

(* Any other character is the next of the word.                            *)
LEMMA LetterRead ==
  ASSUME NEW t, NEW ms, NEW ms2, Stacked(t, ms), NEW c \in Characters,
         Passes(ms, ms2, c), c # EndOfStream, c # Backspace,
         <<c>> \notin Delimiters, NEW t2, t2 = Read(t, c)
  PROVE  Stacked(t2, ms2)
<1>1. Levels \in Nat \ {0} /\ 1 \in 1 .. Levels
  BY LevelsAssumption
<1>2. /\ t \in Readings /\ t2 \in Readings
      /\ t2.words = t.words
      /\ t2.word = Append(t.word, c)
  BY ReadTyped, ReadCases DEF Stacked
<1>3. /\ ModelOf(ms2[1], LevelText(t2, 1), LevelInput(t2, 1))
      /\ ~putc(ms[1], c).detected_interface
      /\ ~ms2[1].detected_interface
      /\ t2.letters # << >> /\ t2.letters[Len(t2.letters)] \notin Delimiters
  BY LetterLearnt
<1>4. Plain(t2.word) /\ t2.word \notin Delimiters
  <2>1. t.word \in Word /\ Plain(t.word)
    BY DEF Stacked, Readings, Placed
  <2> QED
    BY <1>2, <2>1, PlainWords
<1>5. ASSUME NEW i \in 2 .. Levels
      PROVE  /\ ModelOf(putc(ms[i], c), LevelText(t, i), t2.word)
             /\ ~putc(ms[i], c).detected_interface
  <2>1. i \in 1 .. Levels /\ i # 1
    OBVIOUS
  <2>2. PICK m : m = ms[i]
    OBVIOUS
  <2>3. PICK W : W = LevelText(t, i)
    OBVIOUS
  <2>4. PICK w : w = t.word
    OBVIOUS
  <2>5. ModelOf(m, W, w)
    BY <2>1, <2>2, <2>3, <2>4 DEF Stacked, LevelInput
  <2>6. /\ ModelOf(putc(m, c), W, Append(w, c))
        /\ putc(m, c).detected_interface <=> Append(w, c) \in Delimiters
    BY <2>5, PutcModel
  <2> QED
    BY <1>2, <1>4, <2>2, <2>3, <2>4, <2>6
<1>6. ASSUME NEW i \in 2 .. Levels
      PROVE  ms2[i] = putc(ms[i], c)
  <2>1. ASSUME NEW j \in 1 .. i - 1
        PROVE  ~putc(ms[j], c).detected_interface
    <3>1. j = 1 \/ j \in 2 .. Levels
      BY <1>1
    <3> QED
      BY <1>3, <1>5, <3>1
  <2> QED
    BY <2>1 DEF Passes
<1>7. ASSUME NEW i \in 1 .. Levels
      PROVE  ModelOf(ms2[i], LevelText(t2, i), LevelInput(t2, i))
  <2>1. i = 1 \/ (i # 1 /\ i \in 2 .. Levels)
    OBVIOUS
  <2>2. i # 1 => LevelText(t2, i) = LevelText(t, i)
    BY <1>2 DEF LevelText
  <2> QED
    BY <1>3, <1>5, <1>6, <2>1, <2>2 DEF LevelInput
<1>8. Placed(t2, ms2)
  BY <1>3, <1>4, <1>5, <1>6 DEF Placed
<1> QED
  BY <1>2, <1>7, <1>8 DEF Stacked

(* Every character keeps what the stack has learnt to what was read of the  *)
(* text.                                                                    *)
LEMMA StackKeeps ==
  ASSUME StackInv, NEW c \in Characters, Putc(c)
  PROVE  StackInv'
<1>1. PICK t : t = TextRead(typed)
  OBVIOUS
<1>2. PICK ms : ms = models
  OBVIOUS
<1>3. PICK ms2 : ms2 = models'
  OBVIOUS
<1>4. PICK t2 : t2 = Read(t, c)
  OBVIOUS
<1>5. Stacked(t, ms) /\ typed \in Seq(Characters)
  BY <1>1, <1>2 DEF StackInv
<1>6. /\ typed' = Append(typed, c)
      /\ models' = [i \in 1 .. Levels |-> Passed(c, i)]
  BY DEF Putc
<1>7. typed' \in Seq(Characters) /\ TextRead(typed') = t2
  <2>1. PICK text \in Seq(Characters) : text = typed
    BY <1>5
  <2>2. TextRead(Append(text, c)) = Read(TextRead(text), c)
    BY TextReadStep
  <2>3. Append(text, c) \in Seq(Characters)
    BY AppendProperties
  <2> QED
    BY <1>1, <1>4, <1>6, <2>1, <2>2, <2>3
<1>8. Passes(ms, ms2, c)
  <2>1. Levels \in Nat \ {0} /\ 1 \in 1 .. Levels
    BY LevelsAssumption
  <2>2. \A i \in 1 .. Levels : ms2[i] = Passed(c, i)
    BY <1>3, <1>6
  <2>3. ms2[1] = interface(putc(ms[1], c), TRUE)
    BY <1>2, <2>1, <2>2 DEF Passed
  <2>4. ASSUME NEW i \in 2 .. Levels
        PROVE  \/ /\ \A j \in 1 .. i - 1 : ~putc(ms[j], c).detected_interface
                  /\ ms2[i] = putc(ms[i], c)
               \/ /\ \E j \in 1 .. i - 1 : putc(ms[j], c).detected_interface
                  /\ ms2[i] = interface(ms[i], TRUE)
    <3>1. i \in 1 .. Levels /\ i # 1
      OBVIOUS
    <3>2. ms2[i] = IF Takes(c, i) THEN putc(ms[i], c) ELSE interface(ms[i], TRUE)
      BY <1>2, <2>2, <3>1 DEF Passed
    <3>3. Takes(c, i) <=> \A j \in 1 .. i - 1 : ~putc(ms[j], c).detected_interface
      BY <1>2 DEF Takes
    <3>4. CASE Takes(c, i)
      BY <3>2, <3>3, <3>4
    <3>5. CASE ~Takes(c, i)
      BY <3>2, <3>3, <3>5
    <3> QED
      BY <3>4, <3>5
  <2> QED
    BY <2>3, <2>4 DEF Passes
<1>9. Stacked(t2, ms2)
  <2>1. CASE c = EndOfStream \/ (c = Backspace /\ t.word = << >>)
    <3>1. t2 = t
      BY <1>4, <1>5, <2>1, ReadCases DEF Stacked
    <3> QED
      BY <1>5, <1>8, <2>1, <3>1, NothingRead
  <2>2. CASE c # EndOfStream /\ c = Backspace /\ t.word # << >>
    BY <1>4, <1>5, <1>8, <2>2, BackspaceRead
  <2>3. CASE c # EndOfStream /\ c # Backspace /\ <<c>> \in Delimiters
    BY <1>4, <1>5, <1>8, <2>3, DelimiterRead
  <2>4. CASE c # EndOfStream /\ c # Backspace /\ <<c>> \notin Delimiters
    BY <1>4, <1>5, <1>8, <2>4, LetterRead
  <2> QED
    BY <2>1, <2>2, <2>3, <2>4
<1>10. /\ typed' \in Seq(Characters)
       /\ Stacked(TextRead(typed'), models')
  BY <1>3, <1>7, <1>9
<1> QED
  BY <1>10 DEF StackInv

(***************************************************************************)
(* What follows from it.                                                   *)
(***************************************************************************)

(* The parser of each level has read the words of the level.               *)
LEMMA LevelReads ==
  ASSUME StackInv, NEW i \in 1 .. Levels
  PROVE  /\ Reads(models[i].parser, Fresh \o Learnt(i))
         /\ Learnt(i) \in Seq(Word)
         /\ models[i].input = IF i = 1 THEN << >> ELSE TextRead(typed).word
<1>1. PICK t : t = TextRead(typed)
  OBVIOUS
<1>2. Stacked(t, models)
  BY <1>1 DEF StackInv
<1>3. /\ ModelOf(models[i], LevelText(t, i), LevelInput(t, i))
      /\ t.letters \in Seq(Word) /\ t.words \in Seq(Word)
  BY <1>2 DEF Stacked, Readings
<1>4. Learnt(i) = IF i = 1 THEN t.letters ELSE t.words
  BY <1>1 DEF Learnt
<1>5. /\ Reads(models[i].parser, LevelText(t, i))
      /\ models[i].input = LevelInput(t, i)
  BY <1>3 DEF ModelOf
<1>6. LevelText(t, i) = Fresh \o Learnt(i)
  BY <1>4 DEF LevelText
<1> QED
  BY <1>1, <1>3, <1>4, <1>5, <1>6 DEF LevelInput

(* The words a summary names are the most frequent.                        *)
LEMMA SummaryFollows == StackInv => SummaryNamesTheTop
<1> SUFFICES ASSUME StackInv, NEW i \in 1 .. Levels
             PROVE  LET p == models[i].parser
                        top == top_words(p)
                        left == DOMAIN p.words \ ToSet(top)
                    IN /\ IsInjective(top)
                       /\ left = {} \/ Len(top) = top_word_number
                       /\ \A m, n \in DOMAIN top :
                            m < n => p.counts[top[m]] >= p.counts[top[n]]
                       /\ \A n \in DOMAIN top, w \in left :
                            p.counts[top[n]] >= p.counts[w]
  BY DEF SummaryNamesTheTop
<1>1. PICK p : p = models[i].parser
  OBVIOUS
<1>2. Shape(p, Len(p.words))
  BY <1>1, LevelReads DEF Reads
<1>3. PICK N \in Nat : N = Len(p.words)
  BY <1>2, LenProperties DEF Shape
<1>4. /\ DOMAIN p.words = 1 .. N
      /\ p.counts \in [1 .. N -> Nat]
  <2>1. /\ p.words \in Seq(Word) /\ Len(p.words) = N
        /\ p.counts \in Seq(Nat) /\ Len(p.counts) = N
    BY <1>2, <1>3 DEF Shape
  <2> QED
    BY <2>1, LenProperties
<1>5. PICK top : top = top_words(p)
  OBVIOUS
<1>6. TopOf(p.counts, top, N)
  BY <1>3, <1>4, <1>5, TopWords
<1>7. PICK L \in Nat : L = Len(top) /\ DOMAIN top = 1 .. L
  BY <1>6, LenProperties DEF TopOf
<1>8. IsInjective(top)
  BY <1>6, <1>7 DEF TopOf, IsInjective
<1>9. \A w \in 1 .. N : w \notin ToSet(top) <=> ~Holds(top, w)
  BY <1>7 DEF ToSet, Holds
<1>10. DOMAIN p.words \ ToSet(top) = {} \/ Len(top) = top_word_number
  BY <1>4, <1>6, <1>9 DEF TopOf
<1>11. \A m, n \in DOMAIN top : m < n => p.counts[top[m]] >= p.counts[top[n]]
  BY <1>6, <1>7 DEF TopOf
<1>12. \A n \in DOMAIN top, w \in DOMAIN p.words \ ToSet(top) :
         p.counts[top[n]] >= p.counts[w]
  BY <1>4, <1>6, <1>7, <1>9 DEF TopOf
<1> QED
  BY <1>1, <1>5, <1>8, <1>10, <1>11, <1>12

(* The empty word in front of some words.                                  *)
LEMMA FreshText ==
  ASSUME NEW ws \in Seq(Word), NEW L \in Nat, L = Len(ws)
  PROVE  /\ Fresh \o ws \in Seq(Word)
         /\ Len(Fresh \o ws) = L + 1
         /\ (Fresh \o ws)[1] = << >>
         /\ \A n \in 1 .. L : (Fresh \o ws)[n + 1] = ws[n]
<1>1. Fresh \in Seq(Word) /\ Len(Fresh) = 1 /\ Fresh[1] = << >>
  <2>1. << >> \in Word
    BY EmptySeq DEF Word
  <2> QED
    BY <2>1 DEF Fresh
<1>2. /\ Fresh \o ws \in Seq(Word)
      /\ Len(Fresh \o ws) = 1 + L
      /\ \A n \in 1 .. 1 + L :
           (Fresh \o ws)[n] = IF n <= 1 THEN Fresh[n] ELSE ws[n - 1]
  <2>1. PICK f \in Seq(Word) : f = Fresh
    BY <1>1
  <2>2. /\ f \o ws \in Seq(Word)
        /\ Len(f \o ws) = Len(f) + Len(ws)
        /\ \A n \in 1 .. Len(f) + Len(ws) :
             (f \o ws)[n] = IF n <= Len(f) THEN f[n] ELSE ws[n - Len(f)]
    BY ConcatProperties
  <2>3. Len(f) = 1 /\ Len(ws) = L
    BY <1>1, <2>1
  <2> QED
    BY <2>1, <2>2, <2>3
<1> PICK V : V = Fresh \o ws
  OBVIOUS
<1>3. V[1] = << >>
  <2>1. 1 \in 1 .. 1 + L /\ 1 <= 1
    OBVIOUS
  <2> QED
    BY <1>1, <1>2, <2>1
<1>4. ASSUME NEW n \in 1 .. L
      PROVE  V[n + 1] = ws[n]
  <2>1. PICK k \in 1 .. 1 + L : k = n + 1 /\ ~(k <= 1) /\ k - 1 = n
    OBVIOUS
  <2> QED
    BY <1>2, <2>1
<1> QED
  BY <1>2, <1>3, <1>4

(* The empty word a parser starts with counts only for itself. *)
LEMMA TimesFresh ==
  ASSUME NEW ws \in Seq(Word), NEW x
  PROVE  Times(Fresh \o ws, x) = Times(ws, x) + (IF x = << >> THEN 1 ELSE 0)
<1>1. PICK L \in Nat : L = Len(ws)
  BY LenProperties
<1>2. PICK V : V = Fresh \o ws
  OBVIOUS
<1>3. /\ V \in Seq(Word) /\ Len(V) = L + 1 /\ V[1] = << >>
      /\ \A n \in 1 .. L : V[n + 1] = ws[n]
  BY <1>1, <1>2, FreshText
<1> DEFINE A == {n \in 1 .. L : ws[n] = x}
           B == {n \in 2 .. L + 1 : V[n] = x}
           C == {n \in 1 .. L + 1 : V[n] = x}
           f == [n \in A |-> n + 1]
<1>4. f \in [A -> B]
  BY <1>3
<1>5. \A a, b \in A : f[a] = f[b] => a = b
  OBVIOUS
<1>6. \A b \in B : \E a \in A : f[a] = b
  <2>1. ASSUME NEW b \in B
        PROVE  \E a \in A : f[a] = b
    <3>1. PICK a \in 1 .. L : b = a + 1
      OBVIOUS
    <3>2. a \in A
      BY <1>3, <3>1
    <3> QED
      BY <3>1, <3>2
  <2> QED
    BY <2>1
<1>7. IsFiniteSet(A) /\ IsFiniteSet(B) /\ Cardinality(A) \in Nat
  <2>1. A \in SUBSET (1 .. L) /\ B \in SUBSET (2 .. L + 1)
    OBVIOUS
  <2> HIDE DEF A, B
  <2>2. PICK K \in Nat : K = L + 1
    OBVIOUS
  <2>3. IsFiniteSet(1 .. L) /\ IsFiniteSet(2 .. K)
    BY FS_Interval
  <2>4. IsFiniteSet(A)
    BY <2>1, <2>3, FS_Subset
  <2>5. IsFiniteSet(B)
    BY <2>1, <2>2, <2>3, FS_Subset
  <2> QED
    BY <2>4, <2>5, FS_CardinalityType
<1>8. C = IF x = << >> THEN B \cup {1} ELSE B
  <2>1. \A n : n \in C <=> n \in B \/ (n = 1 /\ x = << >>)
    BY <1>3
  <2> HIDE DEF B, C
  <2>2. CASE x = << >>
    <3>1. \A n : n \in C <=> n \in B \cup {1}
      BY <2>1, <2>2
    <3> QED
      BY <2>2, <3>1
  <2>3. CASE x # << >>
    <3>1. \A n : n \in C <=> n \in B
      BY <2>1, <2>3
    <3> QED
      BY <2>3, <3>1
  <2> QED
    BY <2>2, <2>3
<1>9. 1 \notin B
  OBVIOUS
<1>10. Times(V, x) = Cardinality(C) /\ Times(ws, x) = Cardinality(A)
  BY <1>1, <1>3 DEF Times
<1> HIDE DEF A, B, C, f
<1>11. f \in Bijection(A, B)
  <2>1. DOMAIN f = A
    BY <1>4
  <2>2. f \in Injection(A, B)
    BY <1>4, <1>5, <2>1 DEF Injection, IsInjective
  <2>3. f \in Surjection(A, B)
    BY <1>4, <1>6 DEF Surjection
  <2> QED
    BY <2>2, <2>3 DEF Bijection
<1>12. Cardinality(B) = Cardinality(A)
  <2>1. ExistsBijection(A, B)
    BY <1>11 DEF ExistsBijection
  <2> QED
    BY <1>7, <2>1, FS_Bijection
<1>13. Cardinality(B \cup {1}) = Cardinality(B) + 1
  BY <1>7, <1>9, FS_AddElement
<1>14. CASE x = << >>
  BY <1>2, <1>7, <1>8, <1>10, <1>12, <1>13, <1>14
<1>15. CASE x # << >>
  BY <1>2, <1>7, <1>8, <1>10, <1>12, <1>15
<1> QED
  BY <1>14, <1>15

(* Each level has counted every word of its text, and every pair.          *)
LEMMA TextFollows == StackInv => LearnsTheText
<1> SUFFICES ASSUME StackInv, NEW i \in 1 .. Levels
             PROVE  LET p == models[i].parser
                        ws == Learnt(i)
                    IN /\ ToSet(p.words) = {<< >>} \cup ToSet(ws)
                       /\ \A a, b \in ToSet(p.words) :
                            count(p, a, b) = Follows(ws, a, b)
                       /\ \A a \in DOMAIN p.words :
                            p.counts[a] =
                              Cardinality({n \in DOMAIN ws : ws[n] = p.words[a]})
                                + (IF p.words[a] = << >> THEN 1 ELSE 0)
                       /\ models[i].input =
                            IF i = 1 THEN << >> ELSE TextRead(typed).word
  BY DEF LearnsTheText
<1>1. PICK p : p = models[i].parser
  OBVIOUS
<1>2. PICK ws \in Seq(Word) : ws = Learnt(i)
  BY LevelReads
<1>3. PICK W : W = Fresh \o ws
  OBVIOUS
<1>4. Reads(p, W)
  BY <1>1, <1>2, <1>3, LevelReads
<1>5. PICK N \in Nat : N = Len(p.words)
  BY <1>4, LenProperties DEF Reads, Shape
<1>6. /\ Shape(p, N) /\ Counted(p, W, N)
      /\ \A a \in 1 .. N : Occurs(W, p.words[a])
  BY <1>4, <1>5 DEF Reads
<1>7. PICK L \in Nat : L = Len(ws)
  BY LenProperties
<1>8. /\ DOMAIN ws = 1 .. L /\ DOMAIN p.words = 1 .. N
      /\ Len(W) = L + 1 /\ W[1] = << >>
      /\ \A n \in 1 .. L : W[n + 1] = ws[n]
  BY <1>3, <1>6, <1>7, FreshText, IndexIs, LenProperties
<1>9. ToSet(p.words) = {<< >>} \cup ToSet(ws)
  <2>1. \A x : x \in ToSet(p.words) <=> Occurs(W, x)
    <3>1. \A x : x \in ToSet(p.words) <=> \E a \in 1 .. N : p.words[a] = x
      BY <1>8 DEF ToSet
    <3>2. \A x : Occurs(W, x) => \E a \in 1 .. N : p.words[a] = x
      BY <1>5, <1>6 DEF Counted, Occurs
    <3> QED
      BY <1>6, <3>1, <3>2
  <2>2. \A x : Occurs(W, x) <=> x = << >> \/ \E n \in 1 .. L : ws[n] = x
    <3>1. ASSUME NEW k \in 1 .. L + 1
          PROVE  k = 1 \/ \E n \in 1 .. L : k = n + 1
      <4>1. k = 1 \/ k - 1 \in 1 .. L
        OBVIOUS
      <4> QED
        BY <4>1
    <3>2. 1 \in 1 .. L + 1 /\ \A n \in 1 .. L : n + 1 \in 1 .. L + 1
      OBVIOUS
    <3>3. \A x : Occurs(W, x) <=> \E k \in 1 .. L + 1 : W[k] = x
      BY <1>8 DEF Occurs
    <3>4. ASSUME NEW x, Occurs(W, x)
          PROVE  x = << >> \/ \E n \in 1 .. L : ws[n] = x
      <4>1. PICK k \in 1 .. L + 1 : W[k] = x
        BY <3>3, <3>4
      <4>2. CASE k = 1
        BY <1>8, <4>1, <4>2
      <4>3. CASE \E n \in 1 .. L : k = n + 1
        BY <1>8, <4>1, <4>3
      <4> QED
        BY <3>1, <4>2, <4>3
    <3>5. ASSUME NEW x, x = << >> \/ \E n \in 1 .. L : ws[n] = x
          PROVE  Occurs(W, x)
      BY <1>8, <3>2, <3>3, <3>5
    <3> QED
      BY <3>4, <3>5
  <2>3. \A x : x \in ToSet(ws) <=> \E n \in 1 .. L : ws[n] = x
    BY <1>8 DEF ToSet
  <2> QED
    BY <2>1, <2>2, <2>3
<1>10. ASSUME NEW a \in ToSet(p.words), NEW b \in ToSet(p.words)
       PROVE  count(p, a, b) = Follows(ws, a, b)
  <2>1. PICK j \in 1 .. N, k \in 1 .. N : a = p.words[j] /\ b = p.words[k]
    BY <1>8 DEF ToSet
  <2>2. count(p, a, b) = pair_count(p, j, k)
    BY <1>6, <2>1, IndexIs
  <2>3. pair_count(p, j, k) = Pairs(W, a, b)
    BY <1>6, <2>1 DEF Counted
  <2>4. Follows(ws, a, b) = Pairs(W, a, b)
    BY <1>3 DEF Follows, Pairs, Fresh
  <2> QED
    BY <2>2, <2>3, <2>4
<1>11. ASSUME NEW a \in 1 .. N
       PROVE  p.counts[a] = Cardinality({n \in DOMAIN ws : ws[n] = p.words[a]})
                              + (IF p.words[a] = << >> THEN 1 ELSE 0)
  <2>1. p.counts[a] = Times(W, p.words[a])
    BY <1>6 DEF Counted
  <2>2. PICK x : x = p.words[a]
    OBVIOUS
  <2>3. Times(W, x) = Times(ws, x) + (IF x = << >> THEN 1 ELSE 0)
    BY <1>3, TimesFresh
  <2>4. Times(ws, x) = Cardinality({n \in DOMAIN ws : ws[n] = x})
    BY <1>7, <1>8 DEF Times
  <2> QED
    BY <2>1, <2>2, <2>3, <2>4
<1>12. models[i].input = IF i = 1 THEN << >> ELSE TextRead(typed).word
  BY LevelReads
<1> QED
  BY <1>1, <1>2, <1>8, <1>9, <1>10, <1>11, <1>12

(* get_prediction asks the first level that is not at an interface, or the  *)
(* highest.                                                                 *)
Answers(i) ==
  /\ i = Levels \/ ~models[i].detected_interface
  /\ \A n \in 1 .. i - 1 : models[n].detected_interface

(* One level answers: the first whose interface is not detected. *)
LEMMA AnsweringIs ==
  /\ Answering \in 1 .. Levels
  /\ Answers(Answering)
  /\ \A i \in 1 .. Levels : Answers(i) => Answering = i
<1> DEFINE T == {i \in 1 .. Levels : i = Levels \/ ~models[i].detected_interface}
<1>1. Levels \in Nat \ {0}
  BY LevelsAssumption
<1>2. PICK i \in T : \A k \in T : i <= k
  <2>1. T \in SUBSET Nat /\ T # {}
    BY <1>1
  <2> HIDE DEF T
  <2> QED
    BY <2>1, LeastNatural
<1>3. Answers(i) /\ i \in 1 .. Levels
  <2>1. ASSUME NEW n \in 1 .. i - 1
        PROVE  models[n].detected_interface
    <3>1. ~(i <= n) /\ n \in 1 .. Levels
      BY <1>1
    <3>2. n \notin T
      BY <1>2, <3>1
    <3> QED
      BY <3>1, <3>2
  <2> QED
    BY <2>1 DEF Answers
<1>4. ASSUME NEW a \in 1 .. Levels, NEW b \in 1 .. Levels, Answers(a), Answers(b)
      PROVE  a = b
  <2>1. ASSUME NEW x \in 1 .. Levels, NEW y \in 1 .. Levels, Answers(x), Answers(y)
        PROVE  ~(x < y)
    <3>1. SUFFICES ASSUME x < y
                   PROVE  FALSE
      OBVIOUS
    <3>2. x \in 1 .. y - 1 /\ x # Levels
      BY <1>1, <3>1
    <3> QED
      BY <2>1, <3>2 DEF Answers
  <2>2. ~(a < b) /\ ~(b < a)
    BY <1>4, <2>1
  <2> QED
    BY <2>2
<1>5. Answering = CHOOSE k \in 1 .. Levels : Answers(k)
  BY DEF Answering, Answers
<1> HIDE DEF T
<1>6. Answering \in 1 .. Levels /\ Answers(Answering)
  BY <1>3, <1>5, Zenon
<1> QED
  BY <1>4, <1>6

(* What is predicted followed the last word most often.                    *)
LEMMA PredictionFollows == StackInv => PredictsTheMostFrequent
<1> SUFFICES ASSUME StackInv
             PROVE  PredictsTheMostFrequent
  OBVIOUS
<1>1. PICK t : t = TextRead(typed)
  OBVIOUS
<1>2. Stacked(t, models)
  BY <1>1 DEF StackInv
<1>3. Levels \in Nat \ {0} /\ 1 \in 1 .. Levels
  BY LevelsAssumption
<1>4. /\ t.letters \in Seq(Word) /\ t.words \in Seq(Word)
      /\ Learnt(1) = t.letters /\ Learnt(2) = t.words
  BY <1>1, <1>2 DEF Stacked, Readings, Learnt
<1> DEFINE letters == Learnt(1)
           inWord == letters # << >> /\ Last(letters) \notin Delimiters
           ws == IF inWord \/ Levels = 1 THEN Learnt(1) ELSE Learnt(2)
<1>5. inWord <=> letters # << >> /\ t.letters[Len(t.letters)] \notin Delimiters
  BY <1>4 DEF Last
<1>6. PICK k : k = Answering
  OBVIOUS
<1>7. k \in 1 .. Levels /\ Answers(k) /\ \A i \in 1 .. Levels : Answers(i) => k = i
  BY <1>6, AnsweringIs
<1>8. get_prediction = models[k].prediction
  BY <1>6 DEF get_prediction
<1>9. Placed(t, models)
  BY <1>2 DEF Stacked
<1>10. ModelOf(models[k], LevelText(t, k), LevelInput(t, k))
  BY <1>2, <1>7 DEF Stacked
<1>11. \A n \in 1 .. 1 - 1 : FALSE
  OBVIOUS
<1>12. inWord \/ Levels = 1 => k = 1
  <2>1. inWord => ~models[1].detected_interface
    BY <1>4, <1>5, <1>9 DEF Placed
  <2>2. inWord \/ Levels = 1 => Answers(1)
    BY <1>11, <2>1 DEF Answers
  <2> HIDE DEF inWord
  <2> QED
    BY <1>3, <1>7, <2>2
<1>13. ASSUME ~(inWord \/ Levels = 1), t.words # << >>
       PROVE  k = 2
  <2>1. 2 \in 2 .. Levels /\ 2 \in 1 .. Levels
    BY <1>3, <1>13
  <2>2. /\ t.letters # << >>
        /\ ~models[2].detected_interface
    BY <1>9, <1>13, <2>1 DEF Placed
  <2>3. models[1].detected_interface
    BY <1>4, <1>5, <1>9, <1>13, <2>2 DEF Placed
  <2>4. \A n \in 1 .. 2 - 1 : n = 1
    OBVIOUS
  <2>5. Answers(2)
    BY <2>2, <2>3, <2>4 DEF Answers
  <2> QED
    BY <1>7, <2>1, <2>5
<1>14. ASSUME ~(inWord \/ Levels = 1), t.words = << >>
       PROVE  k # 1 \/ t.letters = << >>
  <2>1. SUFFICES ASSUME k = 1, t.letters # << >>
                 PROVE  FALSE
    OBVIOUS
  <2>2. models[1].detected_interface
    BY <1>4, <1>5, <1>9, <1>14, <2>1 DEF Placed
  <2> QED
    BY <1>7, <1>14, <2>1, <2>2 DEF Answers
<1>15. ws \in Seq(Word)
  BY <1>4
<1>16. PICK W : W = Fresh \o ws
  OBVIOUS
<1>17. PICK L \in Nat : L = Len(ws)
  BY <1>15, LenProperties
<1>18. /\ W \in Seq(Word) /\ Len(W) = L + 1
       /\ \A n \in 1 .. L : W[n + 1] = ws[n]
  <2> HIDE DEF ws
  <2> QED
    BY <1>15, <1>16, <1>17, FreshText
<1>19. CASE ws = << >>
  <2>1. LevelText(t, k) = W
    <3>1. CASE inWord \/ Levels = 1
      <4>1. ws = t.letters /\ k = 1
        BY <1>4, <1>12, <3>1
      <4> HIDE DEF ws, inWord
      <4> QED
        BY <1>16, <4>1 DEF LevelText
    <3>2. CASE ~(inWord \/ Levels = 1)
      <4>1. t.words = << >>
        BY <1>4, <1>19, <3>2
      <4>2. k # 1 \/ t.letters = << >>
        BY <1>14, <3>2, <4>1
      <4> HIDE DEF ws, inWord
      <4> QED
        BY <1>16, <1>19, <4>1, <4>2 DEF LevelText
    <3> QED
      BY <3>1, <3>2
  <2>2. L = 0 /\ L + 1 = 1
    BY <1>17, <1>19
  <2> HIDE DEF ws, inWord
  <2>3. Len(W) = 1
    BY <1>18, <2>2
  <2>4. models[k].prediction = << >>
    BY <1>10, <2>1, <2>3 DEF ModelOf
  <2> QED
    BY <1>8, <1>19, <2>4 DEF PredictsTheMostFrequent, ws, inWord
<1>20. CASE ws # << >>
  <2>1. LevelText(t, k) = W
    <3>1. CASE inWord \/ Levels = 1
      <4>1. ws = t.letters /\ k = 1
        BY <1>4, <1>12, <3>1
      <4> HIDE DEF ws, inWord
      <4> QED
        BY <1>16, <4>1 DEF LevelText
    <3>2. CASE ~(inWord \/ Levels = 1)
      <4>1. ws = t.words
        BY <1>4, <3>2
      <4>2. k = 2
        BY <1>13, <1>20, <3>2, <4>1
      <4> HIDE DEF ws, inWord
      <4> QED
        BY <1>16, <4>1, <4>2 DEF LevelText
    <3> QED
      BY <3>1, <3>2
  <2> DEFINE TimesOf(w) == Follows(ws, Last(ws), w)
  <2>2. PICK last : last = Last(ws)
    OBVIOUS
  <2>3. \A w : TimesOf(w) = Pairs(W, last, w)
    BY <1>16, <2>2 DEF Follows, Pairs, Fresh
  <2> HIDE DEF ws, inWord
  <2>4. L # 0 /\ L \in 1 .. L
    BY <1>15, <1>17, <1>20, EmptySeq
  <2>5. Len(W) # 1 /\ W[Len(W)] = last
    BY <1>17, <1>18, <2>2, <2>4 DEF Last
  <2>6. Best(models[k].prediction, models[k].weight, W)
    BY <1>10, <2>1, <2>5 DEF ModelOf
  <2>7. ASSUME NEW w \in ToSet(ws)
        PROVE  w \in Word /\ Occurs(W, w)
    <3>1. PICK n \in 1 .. L : ws[n] = w
      BY <1>15, <1>17, LenProperties DEF ToSet
    <3>2. n + 1 \in 1 .. L + 1 /\ W[n + 1] = w
      BY <1>18, <3>1
    <3> QED
      BY <1>15, <1>17, <1>18, <3>1, <3>2, ElementOfSeq DEF Occurs
  <2>8. PICK v : v = models[k].prediction
    OBVIOUS
  <2>9. /\ \A w \in ToSet(ws) : Pairs(W, last, w) <= Pairs(W, last, v)
        /\ Pairs(W, last, v) = 0 => v = << >>
        /\ models[k].weight = Pairs(W, last, v)
    BY <2>5, <2>6, <2>7, <2>8 DEF Best
  <2>10. /\ \A w \in ToSet(ws) : TimesOf(w) <= TimesOf(v)
         /\ TimesOf(v) = 0 => v = << >>
         /\ models[k].weight = TimesOf(v)
    <3> HIDE DEF TimesOf
    <3> QED
      BY <2>3, <2>9
  <2> QED
    BY <1>6, <1>8, <1>20, <2>8, <2>10 DEF PredictsTheMostFrequent, ws, inWord
<1> HIDE DEF ws
<1> QED
  BY <1>19, <1>20

(* Every character typed keeps the invariant, so it holds for ever. *)
LEMMA StackInvAlways == Spec => []StackInv
<1>1. Init => StackInv
  BY StackInit
<1>2. StackInv /\ [Next]_vars => StackInv'
  <2> SUFFICES ASSUME StackInv, [Next]_vars
               PROVE  StackInv'
    OBVIOUS
  <2>1. CASE Next
    BY <2>1, StackKeeps DEF Next
  <2>2. CASE UNCHANGED vars
    BY <2>2 DEF vars, StackInv
  <2> QED
    BY <2>1, <2>2
<1> QED
  BY <1>1, <1>2, PTL DEF Spec

(* For a stack of any height and any text, every level has counted exactly *)
(* the words and the pairs of words that putc of the multiplexer should    *)
(* have passed on to it.                                                   *)
THEOREM TextAlwaysLearnt == Spec => []LearnsTheText
<1>1. StackInv => LearnsTheText
  BY TextFollows
<1> QED
  BY <1>1, StackInvAlways, PTL

(* Whatever backspaces take away, no word has followed the last one more   *)
(* often than the word that the answering level predicts.                  *)
THEOREM PredictsAlwaysTheMostFrequent == Spec => []PredictsTheMostFrequent
<1>1. StackInv => PredictsTheMostFrequent
  BY PredictionFollows
<1> QED
  BY <1>1, StackInvAlways, PTL

(* A summary of any length names the words met most often, in their order. *)
THEOREM SummaryAlwaysNamesTheTop == Spec => []SummaryNamesTheTop
<1>1. StackInv => SummaryNamesTheTop
  BY SummaryFollows
<1> QED
  BY <1>1, StackInvAlways, PTL
=============================================================================
