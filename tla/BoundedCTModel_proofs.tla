------------------------- MODULE BoundedCTModel_proofs -------------------------
(***************************************************************************)
(* Theorems about the bounded context tree model, for every pool size,     *)
(* bound, set of characters and set of ids a caller may come up with.      *)
(***************************************************************************)
EXTENDS LossHistory, ContextTree_proofs

(* PoolPartition is not inductive alone: an id that validate_id accepts is *)
(* only known to be in use if it is not the length of the array, so the    *)
(* ids the model itself remembers have to be followed too.                 *)
GoodIds == Nat \ {MaxContexts}

PoolInv ==
  /\ PoolPartition
  /\ prediction_id \in GoodIds

(* reinforce and regret leave the pool a partition, whatever the id. *)
LEMMA LearnedPool ==
  ASSUME PoolPartition, NEW id \in GoodIds, NEW w, NEW delta, NEW kept
  PROVE  IsPartition(Learned(id, w, delta, kept).pool)
<1>1. CASE ValidId(pool, id)
  <2>1. Learned(id, w, delta, kept).pool = Deactivated(pool, id)
    BY <1>1 DEF Learned
  <2>2. id \in ToSet(pool.active)
    BY <1>1, ValidIdIsActive DEF PoolPartition, GoodIds
  <2> QED
    BY <2>1, <2>2, DeactivatedPartition DEF PoolPartition
<1>2. CASE ~ValidId(pool, id)
  BY <1>2 DEF Learned, PoolPartition
<1> QED
  BY <1>1, <1>2

(* The constructor. *)
LEMMA InitPoolInv == Init => PoolInv
<1>1. Init => pool = InitialPool /\ prediction_id \in UninitIds
  BY DEF Init, TreeInit
<1> QED
  BY <1>1, InitialPoolPartition, UninitAssumption, NoIdPastTheEnd
  DEF PoolInv, PoolPartition, GoodIds

(* do_predict gives back the context of a mistaken prediction and takes    *)
(* one for the next.                                                       *)
LEMMA InterfacePool == PoolInv /\ Interface => PoolInv'
<1> SUFFICES ASSUME PoolInv, NEW kept, DoPredict(kept)
             PROVE  PoolInv'
  BY DEF Interface
<1> DEFINE s == IF prediction # WordIndex
                  THEN Learned(prediction_id, WordIndex, -1, kept)
                  ELSE [tree |-> tree, pool |-> pool, weights |-> weights,
                        root_weights |-> root_weights]
<1>1. pool' = Activated(s.pool) /\ prediction_id' = NextId(s.pool)
  BY DEF DoPredict
<1>2. IsPartition(s.pool)
  BY LearnedPool DEF PoolInv, PoolPartition
<1>3. IsPartition(pool') /\ prediction_id' \in ContextIds
  BY <1>1, <1>2, ActivatedPartition
<1>4. prediction_id' \in GoodIds
  BY <1>3, MaxContextsAssumption DEF ContextIds, GoodIds
<1> QED
  BY <1>3, <1>4 DEF PoolInv, PoolPartition

(* prediction_result, with the model's id or one of the caller's. *)
LEMMA PredictionResultPool ==
  ASSUME PoolInv, NEW id \in CallerIds \cup {prediction_id},
         PredictionResult(id)
  PROVE  PoolInv'
<1>1. id \in GoodIds
  BY CallerAssumption, NoIdPastTheEnd DEF PoolInv, GoodIds
<1>2. PICK kept : pool' = Learned(id, prediction, 1, kept).pool
  BY DEF PredictionResult
<1>3. prediction_id' = prediction_id
  BY DEF PredictionResult
<1> QED
  BY <1>1, <1>2, <1>3, LearnedPool DEF PoolInv, PoolPartition

(* Every operation keeps the deques a partition. *)
LEMMA NextPoolInv == PoolInv /\ [Next]_vars => PoolInv'
<1> SUFFICES ASSUME PoolInv, [Next]_vars
             PROVE  PoolInv'
  OBVIOUS
<1>1. ASSUME pool' = pool, prediction_id' \in GoodIds
      PROVE  PoolInv'
  BY <1>1 DEF PoolInv, PoolPartition
<1>2. CASE \E c \in Chars : PutC(c)
  BY <1>1, <1>2 DEF PutC, treeVars, modelVars, PoolInv
<1>3. CASE Backspace
  BY <1>1, <1>3 DEF Backspace, treeVars, modelVars, PoolInv
<1>4. CASE Interface
  BY <1>4, InterfacePool
<1>5. CASE \E id \in CallerIds \cup {prediction_id} : PredictionResult(id)
  BY <1>5, PredictionResultPool
<1>6. CASE \E id \in CallerIds : GetPrediction(id)
  BY <1>1, <1>6, CallerAssumption, NoIdPastTheEnd
  DEF GetPrediction, treeVars, GoodIds
<1>7. CASE WriteSummary
  BY <1>1, <1>7 DEF WriteSummary, modelVars, PoolInv
<1>8. CASE UNCHANGED vars
  BY <1>1, <1>8 DEF vars, treeVars, modelVars, PoolInv
<1> QED
  BY <1>2, <1>3, <1>4, <1>5, <1>6, <1>7, <1>8 DEF Next

(* Whatever words are typed, predictions released, flushed or lost and     *)
(* ids made up, the deques of the pool hold every id exactly once.         *)
THEOREM PoolAlwaysPartition == Spec => []PoolPartition
<1>1. PoolInv => PoolPartition
  BY DEF PoolInv
<1> QED
  BY InitPoolInv, NextPoolInv, <1>1, PTL DEF Spec

(***************************************************************************)
(* What a context remembers, and what a tree looks like that may take it.  *)
(***************************************************************************)

(* The path leads down from the root, a vertex a step, and ends at the     *)
(* leaf; something is left to add below it, and both together are no       *)
(* longer than the current context.                                        *)
GoodContext(con, k, n, d, longest) ==
  /\ con = [path |-> con.path, leaf |-> con.leaf, additions |-> con.additions]
  /\ con.path \in Seq(0 .. n - 1)
  /\ Len(con.path) > 0
  /\ \A i \in 1 .. Len(con.path) : d[con.path[i]] = i - 1
  /\ con.leaf = con.path[Len(con.path)]
  /\ con.additions \in Seq(1 .. k - 1)
  /\ Len(con.additions) > 0
  /\ Len(con.path) + Len(con.additions) <= longest + 1

Shallow(d, n, longest) == \A v \in 0 .. n - 1 : d[v] <= longest /\ d[v] < Bound

(* Two depths that agree on the vertices below n. *)
Agree(d2, d, n) == \A v \in 0 .. n - 1 : d2[v] = d[v]

(* Neither of the two sequences of a context is empty. *)
LEMMA GoodContextLengths ==
  ASSUME NEW con, NEW k, NEW n, NEW d, NEW longest, GoodContext(con, k, n, d, longest)
  PROVE  /\ Len(con.path) \in Nat /\ Len(con.path) > 0
         /\ Len(con.additions) \in Nat /\ Len(con.additions) > 0
<1>1. con.path \in Seq(0 .. n - 1) /\ con.additions \in Seq(1 .. k - 1)
  BY DEF GoodContext
<1>2. Len(con.path) \in Nat /\ Len(con.additions) \in Nat
  BY <1>1, LenProperties
<1> QED
  BY <1>2 DEF GoodContext

(* The visitor is shown the whole path. *)
LEMMA ShownIsPath ==
  ASSUME NEW con, NEW k \in Nat, NEW n \in Nat, NEW d, NEW longest \in Nat,
         GoodContext(con, k, n, d, longest)
  PROVE  Shown(con) = con.path
<1> DEFINE T == {i \in DOMAIN con.path : con.path[i] = con.leaf}
<1>p. PICK p : p \in Nat /\ p > 0 /\ p = Len(con.path)
  BY GoodContextLengths
<1>1. /\ con.path \in Seq(0 .. n - 1) /\ DOMAIN con.path = 1 .. p
      /\ \A i \in 1 .. p : d[con.path[i]] = i - 1
      /\ con.leaf = con.path[p]
  BY <1>p DEF GoodContext
<1>2. p \in T
  BY <1>p, <1>1
<1>3. ASSUME NEW i \in T
      PROVE  i = p
  <2>1. i \in 1 .. p /\ p \in 1 .. p /\ con.path[i] = con.path[p]
    BY <1>p, <1>1
  <2>2. i - 1 = p - 1
    BY <1>1, <2>1
  <2> QED
    BY <1>p, <2>1, <2>2
<1>4. Min(T) = p
  <2>1. T \in SUBSET Nat /\ T # {}
    BY <1>1, <1>2
  <2> HIDE DEF T
  <2>2. Min(T) \in T
    BY <2>1, MinOfNaturals
  <2> QED
    BY <1>3, <2>2
<1>5. Shown(con) = SubSeq(con.path, 1, p)
  BY <1>4 DEF Shown
<1> DEFINE path == con.path
<1>6. path \in Seq(0 .. n - 1) /\ p = Len(path)
  BY <1>1, <1>p
<1> HIDE DEF path
<1>7. SubSeq(path, 1, p) = path
  BY <1>6
<1> QED
  BY <1>5, <1>7 DEF path

(* The vertices added: the first of those left, not below the bound. *)
LEMMA AddedFacts ==
  ASSUME NEW con, NEW k \in Nat, NEW n \in Nat, NEW d, NEW longest \in Nat,
         GoodContext(con, k, n, d, longest), Shallow(d, n, longest)
  PROVE  /\ Added(con, Bound) \in Seq(1 .. k - 1)
         /\ Len(con.path) + Len(Added(con, Bound)) <= longest + 1
         /\ Len(con.path) + Len(Added(con, Bound)) <= Bound
         /\ con.leaf \in 0 .. n - 1
         /\ d[con.leaf] = Len(con.path) - 1
         /\ Added(con, Bound) # << >> => Added(con, Bound)[1] = con.additions[1]
<1>p. PICK p : p \in Nat /\ p > 0 /\ p = Len(con.path)
  BY GoodContextLengths
<1>a. PICK a : a \in Nat /\ a > 0 /\ a = Len(con.additions)
  BY GoodContextLengths
<1>b. Bound \in Nat
  BY BoundAssumption
<1>1. /\ con.path \in Seq(0 .. n - 1)
      /\ \A i \in 1 .. p : d[con.path[i]] = i - 1
      /\ con.leaf = con.path[p]
      /\ con.additions \in Seq(1 .. k - 1)
      /\ p + a <= longest + 1
  BY <1>p, <1>a DEF GoodContext
<1>2. con.leaf \in 0 .. n - 1 /\ d[con.leaf] = p - 1
  <2>1. p \in 1 .. p
    BY <1>p
  <2>2. con.path[p] \in 0 .. n - 1
    BY <1>p, <1>1, <2>1, ElementOfSeq
  <2> QED
    BY <1>1, <2>1, <2>2
<1>3. p <= Bound
  BY <1>p, <1>2, <1>b DEF Shallow
<1> DEFINE T == {a, Bound - p}
           q == Min(T)
<1>4. q \in T /\ q <= a /\ q <= Bound - p
  <2>1. T \in SUBSET Nat /\ T # {}
    BY <1>p, <1>a, <1>b, <1>3
  <2>2. a \in T /\ Bound - p \in T
    OBVIOUS
  <2> HIDE DEF T
  <2> QED
    BY <2>1, <2>2, MinOfNaturals
<1>5. q \in 0 .. a
  BY <1>p, <1>a, <1>b, <1>3, <1>4
<1>6. Added(con, Bound) = SubSeq(con.additions, 1, q)
  <2>1. Len(Shown(con)) = p
    BY <1>p, ShownIsPath
  <2> QED
    BY <1>a, <2>1 DEF Added
<1> HIDE DEF q
<1> DEFINE adds == con.additions
           S == 1 .. k - 1
<1>7. adds \in Seq(S) /\ Len(adds) = a
  BY <1>1, <1>a
<1> HIDE DEF adds, S
<1>8. /\ SubSeq(adds, 1, q) \in Seq(S)
      /\ Len(SubSeq(adds, 1, q)) = q
      /\ SubSeq(adds, 1, q) # << >> => SubSeq(adds, 1, q)[1] = adds[1]
  BY <1>5, <1>7, <1>a
<1>9. p + q <= longest + 1 /\ p + q <= Bound
  <2>1. q \in Nat
    BY <1>5
  <2>2. p + a <= longest + 1
    BY <1>1
  <2>3. q <= a /\ q <= Bound - p
    BY <1>4
  <2> HIDE DEF T
  <2>n. p \in Nat /\ a \in Nat
    BY <1>p, <1>a
  <2>4. p + q <= longest + 1
    BY <2>n, <2>1, <2>2, <2>3
  <2>5. p + q <= Bound
    BY <1>p, <1>b, <2>1, <2>3
  <2> QED
    BY <2>4, <2>5
<1> QED
  BY <1>p, <1>2, <1>6, <1>8, <1>9 DEF adds, S

(* A context stays good when the tree grows and the context with it. *)
LEMMA GoodContextGrows ==
  ASSUME NEW con, NEW k \in Nat, NEW n \in Nat, NEW d, NEW longest \in Nat,
         GoodContext(con, k, n, d, longest),
         NEW k2 \in Nat, NEW n2 \in Nat, NEW d2, NEW longest2 \in Nat,
         k <= k2, n <= n2, longest <= longest2, Agree(d2, d, n)
  PROVE  GoodContext(con, k2, n2, d2, longest2)
<1> DEFINE V == 0 .. n - 1
           V2 == 0 .. n2 - 1
           K == 1 .. k - 1
           K2 == 1 .. k2 - 1
<1>1. V \subseteq V2 /\ K \subseteq K2
  OBVIOUS
<1>2. con.path \in Seq(V) /\ con.additions \in Seq(K)
      /\ \A i \in 1 .. Len(con.path) : d[con.path[i]] = i - 1
  BY DEF GoodContext
<1>3. \A v \in V : d2[v] = d[v]
  BY DEF Agree
<1> HIDE DEF V, V2, K, K2
<1>4. con.path \in Seq(V2) /\ con.additions \in Seq(K2)
  BY <1>1, <1>2
<1>5. \A i \in 1 .. Len(con.path) : d2[con.path[i]] = i - 1
  <2>1. \A i \in 1 .. Len(con.path) : con.path[i] \in V
    BY <1>2
  <2> QED
    BY <1>2, <1>3, <2>1
<1>6. Len(con.path) + Len(con.additions) <= longest2 + 1
  <2>p. PICK p : p \in Nat /\ p = Len(con.path)
    BY GoodContextLengths
  <2>a. PICK a : a \in Nat /\ a = Len(con.additions)
    BY GoodContextLengths
  <2>1. p + a <= longest + 1
    BY <2>p, <2>a DEF GoodContext
  <2>2. p \in Nat /\ a \in Nat
    BY <2>p, <2>a
  <2>3. p + a <= longest2 + 1
    BY <2>1, <2>2
  <2> QED
    BY <2>p, <2>a, <2>3
<1>7. /\ Len(con.path) > 0 /\ Len(con.additions) > 0
      /\ con.leaf = con.path[Len(con.path)]
      /\ con = [path |-> con.path, leaf |-> con.leaf, additions |-> con.additions]
  BY DEF GoodContext
<1> QED
  BY <1>4, <1>5, <1>6, <1>7 DEF GoodContext, V2, K2

(* A tree t2 with l vertices more than one with n, in which they lie no    *)
(* deeper than the contexts reach.                                         *)
Deepened(t2, k, n, l, d, longest) ==
  /\ IsTree(t2, k)
  /\ Len(t2) = n + l
  /\ \E d2 : Depths(t2, d2) /\ Shallow(d2, Len(t2), longest) /\ Agree(d2, d, n)

(* con_add_nodes on a tree a context is good for. *)
LEMMA ChainBounds ==
  ASSUME NEW k \in Nat, NEW t, IsTree(t, k), NEW n \in Nat, n = Len(t),
         NEW d, NEW longest \in Nat, Depths(t, d), Shallow(d, n, longest),
         NEW con, GoodContext(con, k, n, d, longest), NEW kept,
         NEW t2, t2 = WithChain(t, con.leaf, Added(con, Bound), kept)
  PROVE  Deepened(t2, k, n, Len(Added(con, Bound)), d, longest)
<1>k. PICK toks : toks = Added(con, Bound)
  OBVIOUS
<1>l. PICK leaf : leaf = con.leaf
  OBVIOUS
<1>1. /\ toks \in Seq(1 .. k - 1)
      /\ leaf \in 0 .. n - 1
      /\ d[leaf] + 1 + Len(toks) <= longest + 1
      /\ d[leaf] + 1 + Len(toks) <= Bound
      /\ d[leaf] \in Nat
  <2>1. /\ toks \in Seq(1 .. k - 1)
        /\ Len(con.path) + Len(toks) <= longest + 1
        /\ Len(con.path) + Len(toks) <= Bound
        /\ leaf \in 0 .. n - 1
        /\ d[leaf] = Len(con.path) - 1
    BY <1>k, <1>l, AddedFacts
  <2>2. Len(con.path) \in Nat /\ Len(con.path) > 0
    BY GoodContextLengths
  <2>3. d[leaf] + 1 = Len(con.path) /\ d[leaf] \in Nat
    BY <2>1, <2>2
  <2> QED
    BY <2>1, <2>3
<1>2. PICK l : l \in Nat /\ l = Len(toks)
  BY <1>1, LenProperties
<1>3. CASE toks = << >>
  <2>1. t2 = t
    BY <1>k, <1>l, <1>3 DEF WithChain
  <2>2. Len(toks) = 0
    BY <1>3
  <2>3. Agree(d, d, n)
    BY DEF Agree
  <2> QED
    BY <1>k, <2>1, <2>2, <2>3 DEF Deepened
<1>4. CASE toks # << >>
  <2>1. toks \in Seq(0 .. k - 1)
    <3> DEFINE A == 1 .. k - 1
               B == 0 .. k - 1
    <3>1. A \subseteq B /\ toks \in Seq(A)
      BY <1>1
    <3> HIDE DEF A, B
    <3>2. toks \in Seq(B)
      BY <3>1
    <3> QED
      BY <3>2 DEF B
  <2>2. leaf \in 0 .. Len(t) - 1
    BY <1>1
  <2>3. IsTree(t2, k) /\ Grafted(t2, t, n, leaf, toks, kept)
    <3>1. /\ IsTree(WithChain(t, leaf, toks, kept), k)
          /\ Grafted(WithChain(t, leaf, toks, kept), t, Len(t), leaf, toks, kept)
      BY <1>4, <2>1, <2>2, ChainGrafted
    <3> QED
      BY <1>k, <1>l, <3>1
  <2>4. Len(t2) = n + l
    BY <1>2, <2>3 DEF Grafted
  <2>d. PICK d2 : d2 = DeeperBy(d, n, l, leaf)
    OBVIOUS
  <2>5. Depths(t2, d2)
    BY <1>1, <1>2, <1>4, <2>1, <2>3, <2>d, ChainDepths
  <2>6. ASSUME NEW v \in 0 .. (n + l) - 1
        PROVE  d2[v] = IF v < n THEN d[v] ELSE d[leaf] + 1 + (v - n)
    BY <2>d DEF DeeperBy
  <2>7. Agree(d2, d, n)
    <3>1. \A v \in 0 .. n - 1 : v \in 0 .. (n + l) - 1 /\ v < n
      BY <1>2
    <3> QED
      BY <2>6, <3>1 DEF Agree
  <2>8. ASSUME NEW v \in 0 .. (n + l) - 1
        PROVE  d2[v] <= longest /\ d2[v] < Bound
    <3>1. CASE v < n
      <4>1. v \in 0 .. n - 1
        BY <3>1
      <4>2. d[v] <= longest /\ d[v] < Bound
        BY <4>1 DEF Shallow
      <4> QED
        BY <2>6, <3>1, <4>2
    <3>2. CASE ~(v < n)
      <4>1. v - n <= l - 1 /\ v - n \in Nat
        BY <1>2, <3>2
      <4>2. d2[v] = d[leaf] + 1 + (v - n)
        BY <2>6, <3>2
      <4>3. d[leaf] + 1 + l <= longest + 1 /\ d[leaf] + 1 + l <= Bound
        BY <1>1, <1>2
      <4>4. Bound \in Nat /\ d[leaf] \in Nat
        BY <1>1, BoundAssumption
      <4>5. v - n \in Int
        BY <4>1
      <4> QED
        BY <1>2, <4>1, <4>2, <4>3, <4>4, <4>5
    <3> QED
      BY <3>1, <3>2
  <2>9. Shallow(d2, Len(t2), longest)
    BY <2>4, <2>8 DEF Shallow
  <2> QED
    BY <1>k, <1>2, <2>3, <2>4, <2>5, <2>7, <2>9 DEF Deepened
<1> QED
  BY <1>3, <1>4

(***************************************************************************)
(* The weights.                                                            *)
(***************************************************************************)
WeightMaps(m) == PartialMaps(0 .. m - 1, Int)

WeightsFit(wts, n, m) == wts \in Seq(WeightMaps(m)) /\ Len(wts) = n - 1

RootFits(rw, m) == rw \in Seq(Int) /\ Len(rw) = m

(* Weights of words that are known are weights of words of a longer list. *)
LEMMA WeightMapsGrow ==
  ASSUME NEW m \in Nat, NEW m2 \in Nat, m <= m2
  PROVE  WeightMaps(m) \subseteq WeightMaps(m2)
<1>1. 0 .. m - 1 \subseteq 0 .. m2 - 1
  OBVIOUS
<1> QED
  BY <1>1, PartialMapsGrow DEF WeightMaps

(* push_regret and push_reinforce. *)
LEMMA PushedFacts ==
  ASSUME NEW m \in Nat, NEW wts \in WeightMaps(m), NEW w \in 0 .. m - 1,
         NEW delta \in Int
  PROVE  Pushed(wts, w, delta) \in WeightMaps(m)
<1> DEFINE A == 0 .. m - 1
           f == Pushed(wts, w, delta)
<1>1. wts \in PartialMaps(A, Int) /\ w \in A
  BY DEF WeightMaps
<1> HIDE DEF A
<1>2. DOMAIN wts \subseteq A /\ \A u \in DOMAIN wts : wts[u] \in Int
  BY <1>1, PartialMap
<1>3. f = [u \in DOMAIN wts \cup {w} |->
             IF u # w THEN wts[u]
             ELSE IF w \in DOMAIN wts THEN wts[w] + delta ELSE delta]
  BY DEF Pushed
<1> HIDE DEF f
<1>4. /\ DOMAIN f \subseteq A
      /\ f = [u \in DOMAIN f |-> f[u]]
      /\ \A u \in DOMAIN f : f[u] \in Int
  BY <1>1, <1>2, <1>3
<1>5. f \in PartialMaps(A, Int)
  BY <1>4, PartialMap
<1> QED
  BY <1>5 DEF WeightMaps, A, f

(* The weights of a vertex that is added. *)
LEMMA FirstWeight ==
  ASSUME NEW m \in Nat, NEW w \in 0 .. m - 1, NEW delta \in Int
  PROVE  [u \in {w} |-> delta] \in WeightMaps(m)
<1> DEFINE f == [u \in {w} |-> delta]
           A == 0 .. m - 1
<1>1. DOMAIN f \subseteq A /\ f = [u \in DOMAIN f |-> f[u]]
      /\ \A u \in DOMAIN f : f[u] \in Int
  OBVIOUS
<1> HIDE DEF f, A
<1>2. f \in PartialMaps(A, Int)
  BY <1>1, PartialMap
<1> QED
  BY <1>2 DEF WeightMaps, f, A

(* The weight at the root, dropped where there is no room for it. *)
LEMMA RootPushedFacts ==
  ASSUME NEW m \in Nat, NEW rw, RootFits(rw, m), NEW w \in Nat, NEW delta \in Int
  PROVE  RootFits(RootPushed(rw, w, delta), m)
<1>1. rw \in Seq(Int) /\ Len(rw) = m
  BY DEF RootFits
<1>2. CASE w < m
  <2>1. w + 1 \in DOMAIN rw /\ rw[w + 1] \in Int
    BY <1>1, <1>2
  <2>2. rw[w + 1] + delta \in Int
    BY <2>1
  <2>3. RootPushed(rw, w, delta) = [rw EXCEPT ![w + 1] = rw[w + 1] + delta]
    BY <1>1, <1>2 DEF RootPushed
  <2> QED
    BY <1>1, <2>1, <2>2, <2>3 DEF RootFits
<1>3. CASE ~(w < m)
  BY <1>1, <1>3 DEF RootPushed, RootFits
<1> QED
  BY <1>2, <1>3

PushedAlong(wts, shown, w, delta, l) ==
  [v \in DOMAIN wts |->
     IF v \in shown THEN Pushed(wts[v], w, delta) ELSE wts[v]]
  \o [i \in 1 .. l |-> [u \in {w} |-> delta]]

(* The weights after reinforce and regret: the old vertices keep theirs,   *)
(* up to the push, and the new ones have one each.                         *)
LEMMA WeightsPushed ==
  ASSUME NEW m \in Nat, NEW m2 \in Nat, m <= m2, NEW n \in Nat, n > 0, NEW l \in Nat,
         NEW wts, WeightsFit(wts, n, m), NEW shown, NEW w \in 0 .. m2 - 1,
         NEW delta \in Int
  PROVE  WeightsFit(PushedAlong(wts, shown, w, delta, l), n + l, m2)
<1> DEFINE M == WeightMaps(m2)
           f == [v \in DOMAIN wts |->
                   IF v \in shown THEN Pushed(wts[v], w, delta) ELSE wts[v]]
           e == [u \in {w} |-> delta]
           g == [i \in 1 .. l |-> e]
<1>1. wts \in Seq(M) /\ Len(wts) = n - 1 /\ DOMAIN wts = 1 .. n - 1
  <2>1. WeightMaps(m) \subseteq M
    BY WeightMapsGrow
  <2> HIDE DEF M
  <2>2. wts \in Seq(WeightMaps(m)) /\ Len(wts) = n - 1
    BY DEF WeightsFit
  <2> QED
    BY <2>1, <2>2
<1>2. \A x \in M : Pushed(x, w, delta) \in M
  BY PushedFacts
<1>3. e \in M
  BY FirstWeight
<1> HIDE DEF M, e
<1>4. \A v \in 1 .. n - 1 : wts[v] \in M
  BY <1>1
<1>5. f \in Seq(M) /\ Len(f) = n - 1
  <2>1. \A v \in 1 .. n - 1 : f[v] \in M
    BY <1>1, <1>2, <1>4
  <2>2. DOMAIN f = 1 .. n - 1 /\ f = [v \in 1 .. n - 1 |-> f[v]]
    BY <1>1
  <2> HIDE DEF f
  <2> QED
    BY <2>1, <2>2
<1>6. g \in Seq(M) /\ Len(g) = l
  BY <1>3
<1> HIDE DEF f, g
<1>7. f \o g \in Seq(M) /\ Len(f \o g) = (n - 1) + l
  BY <1>5, <1>6, ConcatProperties
<1>8. (n - 1) + l = (n + l) - 1
  OBVIOUS
<1> QED
  BY <1>7, <1>8 DEF WeightsFit, PushedAlong, M, f, g, e

(***************************************************************************)
(* Tree, weights, pool and contexts fit each other.                        *)
(***************************************************************************)
Fits(t, d, k, longest, cons, ids) ==
  /\ Depths(t, d)
  /\ Shallow(d, Len(t), longest)
  /\ \A id \in ids : GoodContext(cons[id], k, Len(t), d, longest)

Sound(s, cons, k, longest, m) ==
  /\ IsTree(s.tree, k)
  /\ WeightsFit(s.weights, Len(s.tree), m)
  /\ IsPartition(s.pool)
  /\ \E d : Fits(s.tree, d, k, longest, cons, ToSet(s.pool.active))

Now == [tree |-> tree, pool |-> pool, weights |-> weights,
        root_weights |-> root_weights]

(* What reinforce and regret leave fits again, and no context is active    *)
(* that was not.                                                           *)
LEMMA LearnedSound ==
  ASSUME NEW k \in Nat, NEW longest \in Nat, NEW m \in Nat, NEW m2 \in Nat,
         m <= m2, Sound(Now, contexts, k, longest, m), RootFits(root_weights, m),
         NEW id \in GoodIds, NEW w \in 0 .. m2 - 1, NEW delta \in Int, NEW kept
  PROVE  LET s == Learned(id, w, delta, kept)
         IN /\ Sound(s, contexts, k, longest, m2)
            /\ RootFits(s.root_weights, m)
            /\ ToSet(s.pool.active) \subseteq ToSet(pool.active)
<1> DEFINE s == Learned(id, w, delta, kept)
           con == contexts[id]
           toks == Added(con, Bound)
           t2 == WithChain(tree, con.leaf, toks, kept)
<1>n. PICK n : n \in Nat /\ n > 0 /\ n = Len(tree)
  BY DEF Sound, Now, IsTree
<1>1. /\ IsTree(tree, k) /\ WeightsFit(weights, n, m) /\ IsPartition(pool)
  BY <1>n DEF Sound, Now
<1>2. PICK d : Fits(tree, d, k, longest, contexts, ToSet(pool.active))
  BY DEF Sound, Now
<1>3. CASE ValidId(pool, id)
  <2>1. id \in ToSet(pool.active)
    BY <1>1, <1>3, ValidIdIsActive DEF GoodIds
  <2>2. s = [tree |-> t2, pool |-> Deactivated(pool, id),
             weights |-> [v \in DOMAIN weights |->
                            IF v \in ToSet(Shown(con))
                              THEN Pushed(weights[v], w, delta) ELSE weights[v]]
                         \o [i \in DOMAIN toks |-> [u \in {w} |-> delta]],
             root_weights |-> RootPushed(root_weights, w, delta)]
    BY <1>3 DEF Learned
  <2>3. GoodContext(con, k, n, d, longest) /\ Shallow(d, n, longest)
        /\ Depths(tree, d)
    BY <1>n, <1>2, <2>1 DEF Fits
  <2>t. toks \in Seq(1 .. k - 1)
    BY <1>n, <2>3, AddedFacts
  <2>l. PICK l : l \in Nat /\ l = Len(toks) /\ DOMAIN toks = 1 .. l
    BY <2>t, LenProperties
  <2>4. /\ IsTree(t2, k)
        /\ Len(t2) = n + l
        /\ \E d2 : /\ Depths(t2, d2) /\ Shallow(d2, Len(t2), longest)
                   /\ Agree(d2, d, n)
    <3>1. Deepened(t2, k, n, Len(toks), d, longest)
      BY <1>n, <1>1, <2>3, ChainBounds
    <3> HIDE DEF t2, toks
    <3> QED
      BY <2>l, <3>1 DEF Deepened
  <2>5. PICK d2 : /\ Depths(t2, d2) /\ Shallow(d2, Len(t2), longest)
                  /\ Agree(d2, d, n)
    BY <2>4
  <2> HIDE DEF t2, toks
  <2>6. ASSUME NEW other \in ToSet(pool.active)
        PROVE  GoodContext(contexts[other], k, n + l, d2, longest)
    <3>1. GoodContext(contexts[other], k, n, d, longest)
      BY <1>n, <1>2 DEF Fits
    <3>2. n <= n + l /\ n + l \in Nat
      BY <1>n, <2>l
    <3> QED
      BY <1>n, <2>5, <3>1, <3>2, GoodContextGrows
  <2>7. /\ ToSet(Deactivated(pool, id).active) \subseteq ToSet(pool.active)
        /\ IsPartition(Deactivated(pool, id))
    BY <1>1, <2>1, DeactivatedActive, DeactivatedPartition
  <2>8. WeightsFit(s.weights, n + l, m2)
    <3>1. s.weights = PushedAlong(weights, ToSet(Shown(con)), w, delta, l)
      BY <2>2, <2>l DEF PushedAlong
    <3> HIDE DEF s, con
    <3>2. \A shown : WeightsFit(PushedAlong(weights, shown, w, delta, l), n + l, m2)
      BY <1>n, <1>1, <2>l, WeightsPushed
    <3> QED
      BY <3>1, <3>2
  <2>9. RootFits(s.root_weights, m)
    <3>1. w \in Nat
      OBVIOUS
    <3> QED
      BY <2>2, <3>1, RootPushedFacts
  <2>10. Fits(t2, d2, k, longest, contexts, ToSet(s.pool.active))
    BY <2>2, <2>4, <2>5, <2>6, <2>7 DEF Fits
  <2>11. s.tree = t2 /\ s.pool = Deactivated(pool, id)
    BY <2>2
  <2> HIDE DEF s
  <2>12. Sound(s, contexts, k, longest, m2)
    BY <2>4, <2>7, <2>8, <2>10, <2>11 DEF Sound
  <2> QED
    BY <2>7, <2>9, <2>11, <2>12 DEF s
<1>4. CASE ~ValidId(pool, id)
  <2>1. s.tree = tree /\ s.pool = pool /\ s.weights = weights
        /\ s.root_weights = root_weights
    BY <1>4 DEF Learned
  <2>2. WeightsFit(weights, n, m2)
    <3> DEFINE A == WeightMaps(m)
               B == WeightMaps(m2)
    <3>1. A \subseteq B
      BY WeightMapsGrow
    <3>2. weights \in Seq(A) /\ Len(weights) = n - 1
      BY <1>1 DEF WeightsFit
    <3> HIDE DEF A, B
    <3>3. weights \in Seq(B)
      BY <3>1, <3>2
    <3> QED
      BY <3>2, <3>3 DEF WeightsFit, B
  <2> HIDE DEF s
  <2>3. Sound(s, contexts, k, longest, m2)
    BY <1>n, <1>1, <1>2, <2>1, <2>2 DEF Sound
  <2> QED
    BY <2>1, <2>3 DEF s
<1> QED
  BY <1>3, <1>4

(***************************************************************************)
(* The next prediction.                                                    *)
(***************************************************************************)

(* A loss is an integer. *)
LEMMA LossesFacts ==
  ASSUME NEW m \in Nat, NEW m2, NEW rw, RootFits(rw, m),
         NEW n \in Nat, NEW wts, WeightsFit(wts, n, m2),
         NEW path \in Seq(0 .. n - 1)
  PROVE  /\ DOMAIN Losses(rw, wts, path) = 0 .. m - 1
         /\ \A w \in 0 .. m - 1 : Losses(rw, wts, path)[w] \in Int
<1>1. rw \in Seq(Int) /\ Len(rw) = m /\ DOMAIN rw = 1 .. m
  BY DEF RootFits
<1>2. IsFiniteSet(ToSet(path))
  <2>1. PICK l : l \in Nat /\ DOMAIN path = 1 .. l
    OBVIOUS
  <2>2. IsFiniteSet(1 .. l)
    BY <2>1, FS_Interval
  <2>3. path \in Surjection(1 .. l, ToSet(path))
    BY <2>1 DEF ToSet, Surjection
  <2> QED
    BY <2>2, <2>3, FS_Surjection
<1>3. \A v \in ToSet(path) \ {Root} :
        v \in 1 .. n - 1 /\ wts[v] \in WeightMaps(m2)
  <2>1. ASSUME NEW v \in ToSet(path) \ {Root}
        PROVE  v \in 1 .. n - 1 /\ wts[v] \in WeightMaps(m2)
    <3>1. v \in 0 .. n - 1 /\ v # 0
      BY DEF ToSet, Root
    <3>2. v \in 1 .. n - 1
      BY <3>1
    <3>3. wts \in Seq(WeightMaps(m2)) /\ Len(wts) = n - 1
      BY DEF WeightsFit
    <3>4. wts[v] \in WeightMaps(m2)
      BY <3>2, <3>3, ElementOfSeq
    <3> QED
      BY <3>2, <3>4
  <2> QED
    BY <2>1
<1>4. ASSUME NEW w \in 0 .. m - 1
      PROVE  SumAt(wts, w, {v \in ToSet(path) \ {Root} : w \in DOMAIN wts[v]})
               \in Int
  <2> DEFINE S == {v \in ToSet(path) \ {Root} : w \in DOMAIN wts[v]}
  <2>1. IsFiniteSet(S)
    <3>1. S \subseteq ToSet(path)
      OBVIOUS
    <3> QED
      BY <1>2, <3>1, FS_Subset
  <2>2. \A v \in S : wts[v][w] \in Int
    BY <1>3, PartialMap DEF WeightMaps
  <2>3. SumAt(wts, w, S) \in Int
    <3> HIDE DEF S
    <3> QED
      BY <2>1, <2>2, SumIsInt
  <2> QED
    BY <2>3
<1>5. ASSUME NEW w \in 0 .. m - 1
      PROVE  Losses(rw, wts, path)[w] \in Int
  <2>1. w + 1 \in 1 .. m
    OBVIOUS
  <2>2. rw[w + 1] \in Int
    BY <1>1, <2>1
  <2>3. w \in 0 .. Len(rw) - 1
    BY <1>1
  <2>4. Losses(rw, wts, path)[w] =
          rw[w + 1] + SumAt(wts, w,
                            {v \in ToSet(path) \ {Root} : w \in DOMAIN wts[v]})
    BY <2>3 DEF Losses, SumAt
  <2> QED
    BY <1>4, <2>2, <2>4
<1>6. DOMAIN Losses(rw, wts, path) = 0 .. m - 1
  BY <1>1 DEF Losses
<1> QED
  BY <1>5, <1>6

(* The word of least loss is a word that has a loss. *)
LEMMA LeastLossFacts ==
  ASSUME NEW n \in Nat, n > 0, NEW data, DOMAIN data = 0 .. n - 1,
         \A w \in 0 .. n - 1 : data[w] \in Int, NEW limit \in Int
  PROVE  LeastLoss(data, limit) \in 0 .. n - 1
<1> DEFINE T == {data[w] : w \in DOMAIN data}
           least == Min(T)
           U == {w \in DOMAIN data : data[w] = least}
<1>1. PICK i \in 0 .. n - 1 : \A j \in 0 .. n - 1 : data[i] <= data[j]
  <2>1. \E i \in 0 .. n - 1 : \A j \in 0 .. n - 1 : data[i] <= data[j]
    <3>1. n - 1 \in Nat /\ \A w \in 0 .. n - 1 : data[w] \in Int
      OBVIOUS
    <3> QED
      BY <3>1, LeastOfMany
  <2> QED
    BY <2>1
<1>2. data[i] \in T /\ \A y \in T : data[i] <= y
  BY <1>1
<1>3. least \in T
  <2> HIDE DEF T
  <2> QED
    BY <1>2, Zenon DEF Min
<1> HIDE DEF least
<1>4. U \in SUBSET Nat /\ U # {} /\ U \subseteq 0 .. n - 1
  BY <1>3
<1>5. Min(U) \in 0 .. n - 1
  <2> HIDE DEF U
  <2> QED
    BY <1>4, MinOfNaturals
<1>6. LeastLoss(data, limit) = IF least < limit THEN Min(U) ELSE NullWord
  BY DEF LeastLoss, least
<1> HIDE DEF U
<1>7. NullWord \in 0 .. n - 1
  BY DEF NullWord
<1> QED
  BY <1>5, <1>6, <1>7

(* The weights at the root are as many as the words, one of which is new   *)
(* at most and weighs the quotient of the mistakes by the words before it. *)
GrowsBy(rw, mis, m, n) ==
  Grown(rw, mis, n) = IF n = m THEN rw ELSE Append(rw, mis \div m)

(* That is what finish_predict makes of them.                              *)
LEMMA GrownIs ==
  ASSUME NEW m \in Nat, m > 0, NEW rw, RootFits(rw, m), NEW mis \in Nat,
         NEW n \in {m, m + 1}
  PROVE  GrowsBy(rw, mis, m, n)
<1>1. rw \in Seq(Int) /\ Len(rw) = m
  BY DEF RootFits
<1> DEFINE P(h) == h = [k \in m .. n |->
                          IF k = m THEN rw ELSE Append(h[k - 1], mis \div (k - 1))]
           g == [k \in m .. n |->
                   IF k = m THEN rw ELSE Append(rw, mis \div (k - 1))]
           grow == CHOOSE h : P(h)
<1>2. ASSUME NEW k \in m .. n, k # m
      PROVE  k = m + 1 /\ k - 1 = m
  BY <1>2
<1>3. P(g)
  <2>1. \A k \in m .. n : k # m => g[k - 1] = rw
    <3>1. m \in m .. n
      OBVIOUS
    <3>2. g[m] = rw
      BY <3>1
    <3> HIDE DEF g
    <3> QED
      BY <1>2, <3>2
  <2>2. \A k \in m .. n :
          (IF k = m THEN rw ELSE Append(rw, mis \div (k - 1))) =
          (IF k = m THEN rw ELSE Append(g[k - 1], mis \div (k - 1)))
    BY <2>1
  <2> QED
    BY <2>2
<1>4. Grown(rw, mis, n) = grow[n]
  BY <1>1 DEF Grown
<1>5. P(grow)
  <2> HIDE DEF P
  <2> QED
    BY <1>3, Zenon
<1> HIDE DEF grow
<1>6. m \in m .. n /\ n \in m .. n
  OBVIOUS
<1>7. grow[m] = rw
  BY <1>5, <1>6
<1>8. CASE n = m
  BY <1>1, <1>4, <1>7, <1>8 DEF GrowsBy
<1>9. CASE n = m + 1
  <2>1. n # m /\ n - 1 = m
    BY <1>9
  <2>2. grow[n] = Append(rw, mis \div m)
    BY <1>5, <1>6, <1>7, <2>1
  <2> QED
    BY <1>4, <2>1, <2>2 DEF GrowsBy
<1> QED
  BY <1>8, <1>9

(* The weights at the root follow the words, which a word at a time joins. *)
LEMMA GrownFacts ==
  ASSUME NEW m \in Nat, m > 0, NEW rw, RootFits(rw, m), NEW mis \in Nat,
         NEW n \in {m, m + 1}
  PROVE  RootFits(Grown(rw, mis, n), n)
<1>1. rw \in Seq(Int) /\ Len(rw) = m
  BY DEF RootFits
<1>2. Grown(rw, mis, n) = IF n = m THEN rw ELSE Append(rw, mis \div m)
  <2>1. GrowsBy(rw, mis, m, n)
    BY GrownIs
  <2> QED
    BY <2>1 DEF GrowsBy
<1>3. mis \div m \in Int
  OBVIOUS
<1> QED
  BY <1>1, <1>2, <1>3, AppendProperties DEF RootFits

(* The current context is cut to its last words. *)
LEMMA TrimmedFacts ==
  ASSUME NEW S, NEW c \in Seq(S), NEW w \in S
  PROVE  LET t == Trimmed(Append(c, w))
         IN /\ t \in Seq(S)
            /\ Len(t) \in 1 .. Bound
            /\ Len(t) <= Len(c) + 1
            /\ Len(t) = Len(c) + 1 \/ Len(t) = Bound
            /\ Recent(t, 1) = w
            /\ \A i \in 2 .. Len(t) : \E j \in 1 .. Len(c) : Recent(t, i) = c[j]
<1>b. Bound \in Nat /\ Bound > 0
  BY BoundAssumption
<1>n. PICK n : n \in Nat /\ n = Len(c)
  OBVIOUS
<1> DEFINE T == {0, n + 1 - Bound}
           cut == Max(T)
           a == Append(c, w)
           t == Trimmed(a)
<1>1. a \in Seq(S) /\ Len(a) = n + 1 /\ a[n + 1] = w /\ \A j \in 1 .. n : a[j] = c[j]
  BY <1>n
<1> HIDE DEF a
<1>2. cut \in T /\ 0 <= cut /\ n + 1 - Bound <= cut
  <2>1. \E x \in T : \A y \in T : x >= y
    BY <1>n, <1>b
  <2>2. 0 \in T /\ n + 1 - Bound \in T
    OBVIOUS
  <2> HIDE DEF T
  <2>3. cut \in T /\ \A y \in T : cut >= y
    BY <2>1, Zenon DEF Max
  <2>4. 0 \in Int /\ n + 1 - Bound \in Int /\ cut \in Int
    BY <1>n, <1>b, <2>3 DEF T
  <2> QED
    BY <2>2, <2>3, <2>4
<1>3. t = SubSeq(a, 1 + cut, n + 1)
  <2>1. t = SubSeq(a, 1 + Max({0, Len(a) - Bound}), Len(a))
    BY DEF Trimmed
  <2>a. Len(a) = n + 1
    BY <1>1
  <2>b. Len(a) - Bound = n + 1 - Bound
    BY <1>b, <1>n, <2>a
  <2>2. {0, Len(a) - Bound} = T
    BY <2>b
  <2> HIDE DEF T, t
  <2> QED
    BY <1>1, <2>1, <2>2
<1>c. cut \in 0 .. n /\ (cut = 0 \/ cut = n + 1 - Bound)
  BY <1>n, <1>b, <1>2
<1> HIDE DEF cut
<1>4. PICK l : l \in Nat /\ l = n + 1 - cut
  BY <1>n, <1>c
<1>5. /\ t \in Seq(S) /\ Len(t) = l
      /\ \A i \in 1 .. l : t[i] = a[cut + i]
  <2>1. 1 + cut \in 1 .. Len(a) + 1 /\ n + 1 \in 0 .. Len(a)
    BY <1>n, <1>1, <1>c
  <2>2. SubSeq(a, 1 + cut, n + 1) \in Seq(S)
    BY <1>n, <1>1, <1>c
  <2>3. Len(SubSeq(a, 1 + cut, n + 1)) = l
    BY <1>n, <1>1, <1>c, <1>4
  <2>4. ASSUME NEW i \in 1 .. l
        PROVE  SubSeq(a, 1 + cut, n + 1)[i] = a[cut + i]
    <3>1. SubSeq(a, 1 + cut, n + 1)[i] = a[(1 + cut) + i - 1]
      BY <1>n, <1>1, <1>c, <1>4
    <3>2. (1 + cut) + i - 1 = cut + i
      BY <1>c
    <3> QED
      BY <3>1, <3>2
  <2> QED
    BY <1>3, <2>2, <2>3, <2>4
<1> HIDE DEF t
<1>6. l \in 1 .. Bound /\ l <= n + 1 /\ (l = n + 1 \/ l = Bound)
  BY <1>n, <1>b, <1>2, <1>c, <1>4
<1>7. \A i \in 1 .. l : Recent(t, i) = a[n + 2 - i]
  <2>1. ASSUME NEW i \in 1 .. l
        PROVE  Recent(t, i) = a[n + 2 - i]
    <3>1. l - i + 1 \in 1 .. l /\ cut + (l - i + 1) = n + 2 - i
      BY <1>n, <1>c, <1>4
    <3>2. Recent(t, i) = t[l - i + 1]
      BY <1>5 DEF Recent
    <3> QED
      BY <1>5, <3>1, <3>2
  <2> QED
    BY <2>1
<1>8. Recent(t, 1) = w
  <2>1. 1 \in 1 .. l /\ n + 2 - 1 = n + 1
    BY <1>n, <1>6
  <2> QED
    BY <1>1, <1>7, <2>1
<1>9. ASSUME NEW i \in 2 .. l
      PROVE  \E j \in 1 .. n : Recent(t, i) = c[j]
  <2>1. i \in 1 .. l /\ n + 2 - i \in 1 .. n
    BY <1>n, <1>6
  <2> QED
    BY <1>1, <1>7, <2>1
<1> QED
  BY <1>n, <1>5, <1>6, <1>8, <1>9 DEF t, a

(* The tokens of n words, the model's own two apart. *)
TokensUpto(n) == [w \in 2 .. n - 1 |-> w - 1]

(* A context of known words leaves data_map_ as it is; a new word, the     *)
(* most recent of its context, takes the next token and stops the walk at  *)
(* the root.                                                               *)
LEMMA TokensFollow ==
  ASSUME NEW n \in Nat, n >= 2, NEW t, IsTree(t, n - 1),
         NEW dm, dm = TokensUpto(n),
         NEW frag \in Seq(2 .. n), Len(frag) >= 1,
         \A i \in 2 .. Len(frag) : Recent(frag, i) \in 2 .. n - 1
  PROVE  /\ Recent(frag, 1) = n =>
              /\ DataMapAfter(t, dm, n - 1, frag) = TokensUpto(n + 1)
              /\ Registers(t, dm, frag)
              /\ Matched(t, dm, frag) = 0
         /\ Recent(frag, 1) # n =>
              /\ DataMapAfter(t, dm, n - 1, frag) = dm
              /\ ~Registers(t, dm, frag)
<1>1. DOMAIN dm = 2 .. n - 1 /\ dm = [c \in DOMAIN dm |-> dm[c]]
      /\ \A c \in 2 .. n - 1 : dm[c] = c - 1
  BY DEF TokensUpto
<1>k. n - 1 \in Nat
  OBVIOUS
<1>2. CASE Recent(frag, 1) = n
  <2>1. Recent(frag, 1) \notin DOMAIN dm
    BY <1>1, <1>2
  <2>2. \A i \in 2 .. Len(frag) : Recent(frag, i) \in DOMAIN dm \cup {Recent(frag, 1)}
    BY <1>1
  <2>3. /\ Matched(t, dm, frag) = 0
        /\ Registers(t, dm, frag)
        /\ DataMapAfter(t, dm, n - 1, frag) =
             [c \in DOMAIN dm \cup {Recent(frag, 1)} |->
                IF c \in DOMAIN dm THEN dm[c] ELSE n - 1]
    <3> DEFINE k == n - 1
               D == 2 .. n
    <3>1. k \in Nat /\ IsTree(t, k) /\ frag \in Seq(D)
      BY <1>k
    <3> HIDE DEF k, D
    <3>2. /\ Matched(t, dm, frag) = 0
          /\ Registers(t, dm, frag)
          /\ DataMapAfter(t, dm, k, frag) = Inserted(dm, Recent(frag, 1), k)
      BY <2>1, <2>2, <3>1, DataMapNew
    <3> QED
      BY <3>2 DEF k, Inserted
  <2>4. DOMAIN dm \cup {Recent(frag, 1)} = 2 .. (n + 1) - 1
    BY <1>1, <1>2
  <2>5. \A c \in 2 .. (n + 1) - 1 : (IF c \in DOMAIN dm THEN dm[c] ELSE n - 1) = c - 1
    <3>1. ASSUME NEW c \in 2 .. (n + 1) - 1
          PROVE  (IF c \in DOMAIN dm THEN dm[c] ELSE n - 1) = c - 1
      <4>1. (c \in 2 .. n - 1) \/ (c = n /\ n \notin 2 .. n - 1)
        OBVIOUS
      <4> QED
        BY <1>1, <4>1
    <3> QED
      BY <3>1
  <2>6. DataMapAfter(t, dm, n - 1, frag) = TokensUpto(n + 1)
    BY <2>3, <2>4, <2>5 DEF TokensUpto
  <2> QED
    BY <1>2, <2>3, <2>6
<1>3. CASE Recent(frag, 1) # n
  <2>1. Recent(frag, 1) \in 2 .. n
    <3>1. 1 \in 1 .. Len(frag) /\ Len(frag) - 1 + 1 = Len(frag)
          /\ Len(frag) \in 1 .. Len(frag)
      OBVIOUS
    <3>2. Recent(frag, 1) = frag[Len(frag)]
      BY <3>1 DEF Recent
    <3>3. frag[Len(frag)] \in 2 .. n
      BY <3>1, ElementOfSeq
    <3> QED
      BY <3>2, <3>3
  <2>2. \A i \in 1 .. Len(frag) : Recent(frag, i) \in DOMAIN dm
    <3>1. ASSUME NEW i \in 1 .. Len(frag)
          PROVE  Recent(frag, i) \in DOMAIN dm
      <4>1. i = 1 \/ i \in 2 .. Len(frag)
        OBVIOUS
      <4>2. Recent(frag, 1) \in 2 .. n - 1
        BY <1>3, <2>1
      <4> QED
        BY <1>1, <4>1, <4>2
    <3> QED
      BY <3>1
  <2> QED
    BY <1>k, <1>1, <1>3, <2>2, DataMapKnown
<1> QED
  BY <1>2, <1>3

(* The context of the next prediction is longer than the tree is deep: its *)
(* walk stops in it and something is left to add.                          *)
LEMMA NewContextGood ==
  ASSUME NEW k \in Nat, NEW t, IsTree(t, k), NEW n \in Nat, n = Len(t), NEW d,
         NEW longest \in Nat, Depths(t, d), Shallow(d, n, longest),
         NEW D, NEW frag \in Seq(D), NEW dm, NEW next,
         Len(frag) = longest + 1 \/ Len(frag) = Bound,
         NEW k2 \in Nat,
         \A i \in 1 .. Len(frag) :
           DataMapAfter(t, dm, next, frag)[Recent(frag, i)] \in 1 .. k2 - 1
  PROVE  /\ GoodContext(ContextOf(t, dm, next, frag), k2, n, d, Len(frag))
         /\ Matched(t, dm, frag) < Len(frag)
<1> DEFINE m == Matched(t, dm, frag)
           con == ContextOf(t, dm, next, frag)
           tokens == DataMapAfter(t, dm, next, frag)
<1>r. Remembers(con, t, dm, tokens, frag, m)
  BY ContextFacts
<1>f. PICK f : f \in Nat /\ f = Len(frag)
  BY LenProperties
<1>m. m \in 0 .. f /\ m \in Nat
  BY <1>r, <1>f DEF Remembers
<1> HIDE DEF m, con, tokens
<1>1. /\ m \in 0 .. Len(frag)
      /\ con = [path |-> con.path, leaf |-> con.leaf, additions |-> con.additions]
      /\ con.path \in Seq(0 .. n - 1)
      /\ Len(con.path) = m + 1
      /\ con.path[1] = Root
      /\ \A i \in 1 .. m : con.path[i + 1] \in Children(t, con.path[i])
      /\ con.leaf = IF m = Len(frag) THEN Root ELSE con.path[m + 1]
      /\ \A i \in 1 .. Len(frag) - m : con.additions[i] = tokens[Recent(frag, m + i)]
      /\ con.additions = [i \in 1 .. Len(frag) - m |-> con.additions[i]]
  BY <1>r DEF Remembers
<1>2. \A i \in 1 .. m + 1 : con.path[i] \in 0 .. n - 1
  BY <1>1, <1>m, ElementOfSeq
<1>3. \A i \in 1 .. m + 1 : d[con.path[i]] = i - 1
  <2>1. WayDown(t, con.path, m)
    BY <1>1, <1>2 DEF WayDown
  <2> QED
    BY <1>m, <2>1, PathDepth
<1>4. m < f
  <2>1. m + 1 \in 1 .. m + 1 /\ (m + 1) - 1 = m
    BY <1>m
  <2>2. d[con.path[m + 1]] = m /\ con.path[m + 1] \in 0 .. n - 1
    BY <1>2, <1>3, <2>1
  <2>3. m <= longest /\ m < Bound
    BY <2>2 DEF Shallow
  <2>4. f = longest + 1 \/ f = Bound
    BY <1>f
  <2> QED
    BY <1>m, <1>f, <2>3, <2>4, BoundAssumption
<1>5. con.additions \in Seq(1 .. k2 - 1) /\ Len(con.additions) = f - m
  <2> DEFINE K == 1 .. k2 - 1
             adds == con.additions
  <2>1. \A i \in 1 .. f - m : adds[i] \in K
    <3>1. ASSUME NEW i \in 1 .. f - m
          PROVE  adds[i] \in K
      <4>1. m + i \in 1 .. Len(frag)
        BY <1>f, <1>m
      <4> QED
        BY <1>1, <1>f, <4>1 DEF tokens
    <3> QED
      BY <3>1
  <2>2. f - m \in Nat
    BY <1>m, <1>4, <1>f
  <2>3. adds = [i \in 1 .. f - m |-> adds[i]]
    BY <1>1, <1>f
  <2> HIDE DEF K, adds
  <2>4. adds \in Seq(K) /\ Len(adds) = f - m
    BY <2>1, <2>2, <2>3
  <2> QED
    BY <2>4 DEF K, adds
<1>6. /\ con.leaf = con.path[Len(con.path)]
      /\ Len(con.path) > 0
      /\ Len(con.additions) > 0
      /\ Len(con.path) + Len(con.additions) <= f + 1
  <2>1. m # f /\ f - m > 0 /\ m + 1 > 0 /\ (m + 1) + (f - m) <= f + 1
    BY <1>f, <1>m, <1>4
  <2> QED
    BY <1>1, <1>f, <1>5, <2>1
<1>7. \A i \in 1 .. Len(con.path) : d[con.path[i]] = i - 1
  BY <1>1, <1>3
<1> QED
  BY <1>1, <1>f, <1>4, <1>5, <1>6, <1>7 DEF GoodContext, con, m

(* Weights of a shorter list of words fit a longer one. *)
LEMMA SoundGrows ==
  ASSUME NEW k, NEW longest, NEW m \in Nat, NEW m2 \in Nat, m <= m2, NEW cons,
         NEW s, Sound(s, cons, k, longest, m)
  PROVE  Sound(s, cons, k, longest, m2)
<1> DEFINE A == WeightMaps(m)
           B == WeightMaps(m2)
<1>1. A \subseteq B
  BY WeightMapsGrow
<1>2. s.weights \in Seq(A) /\ Len(s.weights) = Len(s.tree) - 1
  BY DEF Sound, WeightsFit
<1> HIDE DEF A, B
<1>3. s.weights \in Seq(B)
  BY <1>1, <1>2
<1>4. WeightsFit(s.weights, Len(s.tree), m2)
  BY <1>2, <1>3 DEF WeightsFit, B
<1> QED
  BY <1>4 DEF Sound

(***************************************************************************)
(* The inductive invariant.                                                *)
(***************************************************************************)
WordsInv ==
  /\ words \in Seq(Seq(Chars) \cup {InterfaceToken})
  /\ Len(words) >= 2 /\ words[1] = << >> /\ words[2] = InterfaceToken
  /\ current_string \in Seq(Chars)

TokensInv ==
  /\ token_number = Len(words) - 1
  /\ data_map = TokensUpto(Len(words))

RecentInv ==
  /\ prediction_context \in Seq(2 .. Len(words) - 1)
  /\ Len(prediction_context) <= Bound

CountsInv ==
  /\ RootFits(root_weights, Len(words))
  /\ prediction \in 0 .. Len(words) - 1
  /\ mistakes \in 0 .. MaxMistakes
  /\ detected_interface \in BOOLEAN

HeldInv ==
  /\ prediction_id \in GoodIds
  /\ contexts = [id \in ToSet(pool.active) |-> contexts[id]]
  /\ Sound(Now, contexts, token_number, Len(prediction_context), Len(words))

IInv == WordsInv /\ TokensInv /\ RecentInv /\ CountsInv /\ HeldInv

(* A word typed is no word of the model's own: it is one met before, or    *)
(* the next.                                                               *)
LEMMA WordIndexFacts ==
  ASSUME WordsInv, current_string # << >>
  PROVE  /\ Known => WordIndex \in 2 .. Len(words) - 1
         /\ ~Known => WordIndex = Len(words)
<1> DEFINE T == {i \in DOMAIN words : words[i] = current_string}
<1>n. PICK n : n \in Nat /\ n = Len(words) /\ n >= 2 /\ DOMAIN words = 1 .. n
  BY DEF WordsInv
<1>1. ASSUME Known
      PROVE  Min(T) \in 3 .. n
  <2>1. T \in SUBSET Nat /\ T # {}
    BY <1>n, <1>1 DEF Known
  <2>2. Min(T) \in T
    <3> HIDE DEF T
    <3> QED
      BY <2>1, MinOfNaturals
  <2>3. 1 \notin T /\ 2 \notin T
    BY CharsAssumption DEF WordsInv
  <2> QED
    BY <1>n, <2>2, <2>3
<1>2. ASSUME Known
      PROVE  WordIndex \in 2 .. n - 1
  <2>1. WordIndex = Min(T) - 1
    BY <1>2 DEF WordIndex
  <2> HIDE DEF T
  <2> QED
    BY <1>n, <1>1, <1>2, <2>1
<1> QED
  BY <1>n, <1>2 DEF WordIndex

(* The constructor. *)
LEMMA InitIInv == Init => IInv
<1> SUFFICES ASSUME Init
             PROVE  IInv
  OBVIOUS
<1>1. /\ tree = <<NewVertex(RootToken)>> /\ data_map = << >>
      /\ token_number = 1 /\ contexts = << >> /\ pool = InitialPool
      /\ words = << << >>, InterfaceToken >> /\ weights = << >>
      /\ root_weights = <<1, 0>> /\ prediction_context = << >>
      /\ prediction = NullWord /\ prediction_id \in UninitIds /\ mistakes = 0
      /\ current_string = << >> /\ detected_interface = FALSE
  BY DEF Init, TreeInit
<1>2. WordsInv
  BY <1>1 DEF WordsInv
<1>n. Len(words) = 2
  BY <1>1
<1>3. TokensInv
  <2>1. TokensUpto(2) = << >>
    <3>1. 2 .. 2 - 1 = {}
      OBVIOUS
    <3> QED
      BY <3>1 DEF TokensUpto
  <2> QED
    BY <1>1, <1>n, <2>1 DEF TokensInv
<1>4. RecentInv
  <2>1. << >> \in Seq(2 .. 2 - 1) /\ Len(<< >>) = 0
    OBVIOUS
  <2> QED
    BY <1>1, <1>n, <2>1, BoundAssumption DEF RecentInv
<1>5. CountsInv
  <2>1. RootFits(root_weights, 2)
    BY <1>1 DEF RootFits
  <2>2. prediction \in 0 .. 2 - 1
    BY <1>1 DEF NullWord
  <2>3. mistakes \in 0 .. MaxMistakes
    BY <1>1, BoundsAssumption
  <2>4. detected_interface \in BOOLEAN
    BY <1>1
  <2> QED
    BY <1>n, <2>1, <2>2, <2>3, <2>4 DEF CountsInv
<1>6. HeldInv
  <2>1. prediction_id \in GoodIds
    BY <1>1, UninitAssumption, NoIdPastTheEnd DEF GoodIds
  <2>2. ToSet(pool.active) = {} /\ IsPartition(pool)
    <3>1. pool.active = << >>
      BY <1>1 DEF InitialPool
    <3> QED
      BY <1>1, <3>1, InitialPoolPartition DEF ToSet
  <2>3. contexts = [id \in ToSet(pool.active) |-> contexts[id]]
    BY <1>1, <2>2
  <2> DEFINE V == 0 .. 1 - 1
  <2>4. /\ Len(tree) = 1 /\ DOMAIN tree = {1}
        /\ tree[1].token = 0 /\ tree[1].edges = << >> /\ tree[1].subtree = << >>
        /\ tree[1] = [token |-> 0, edges |-> << >>, subtree |-> << >>]
    BY <1>1 DEF NewVertex, RootToken
  <2>5. IsTree(tree, 1)
    <3>1. << >> \in PartialMaps(V, V)
      <4>1. << >> = [x \in DOMAIN << >> |-> << >>[x]] /\ DOMAIN << >> = {}
        OBVIOUS
      <4> HIDE DEF V
      <4> QED
        BY <4>1, PartialMap
    <3>2. << >> \in Seq(V) /\ 0 \in V
      OBVIOUS
    <3> HIDE DEF V
    <3>3. tree[1] \in [token : V, edges : Seq(V), subtree : PartialMaps(V, V)]
      BY <2>4, <3>1, <3>2
    <3>4. tree[1] \in Nodes(1, 1)
      BY <3>3 DEF Nodes, V
    <3>5. tree = <<tree[1]>>
      BY <1>1
    <3> DEFINE N == Nodes(1, 1)
    <3>6. \A x \in N : <<x>> \in Seq(N)
      <4> HIDE DEF N
      <4> QED
        OBVIOUS
    <3>7. tree \in Seq(Nodes(1, 1))
      BY <3>4, <3>5, <3>6
    <3> QED
      BY <2>4, <3>7 DEF IsTree
  <2>6. WeightsFit(weights, 1, 2)
    <3>1. << >> \in Seq(WeightMaps(2)) /\ Len(<< >>) = 0
      OBVIOUS
    <3> QED
      BY <1>1, <3>1 DEF WeightsFit
  <2> DEFINE d == [v \in V |-> 0]
  <2>7. Fits(tree, d, 1, 0, contexts, ToSet(pool.active))
    <3>1. Children(tree, 0) = {}
      <4>1. DOMAIN << >> = {} /\ ToSet(<< >>) = {}
        BY DEF ToSet
      <4> QED
        BY <2>4, <4>1 DEF Children
    <3>2. V = {0} /\ d \in [V -> Nat] /\ d[0] = 0
      OBVIOUS
    <3>3. Depths(tree, d)
      BY <2>4, <3>1, <3>2 DEF Depths, Root
    <3>4. Shallow(d, 1, 0)
      BY <3>2, BoundAssumption DEF Shallow
    <3> QED
      BY <2>2, <2>4, <3>3, <3>4 DEF Fits
  <2>8. Now.tree = tree /\ Now.weights = weights /\ Now.pool = pool
    BY DEF Now
  <2>9. Sound(Now, contexts, 1, 0, 2)
    <3> HIDE DEF d, V
    <3> QED
      BY <2>2, <2>4, <2>5, <2>6, <2>7, <2>8 DEF Sound
  <2>10. Len(prediction_context) = 0
    BY <1>1
  <2> QED
    BY <1>1, <1>n, <2>1, <2>3, <2>9, <2>10 DEF HeldInv
<1> QED
  BY <1>2, <1>3, <1>4, <1>5, <1>6 DEF IInv

(***************************************************************************)
(* do_predict.                                                             *)
(***************************************************************************)

(* The tokens of a context are those of k - 1 words. *)
Tokened(t, dm, next, frag, k) ==
  \A i \in 1 .. Len(frag) :
    DataMapAfter(t, dm, next, frag)[Recent(frag, i)] \in 1 .. k - 1

(* A context is taken into those held. *)
Joined(cons2, ids2, cons, ids, new, con) ==
  /\ ids2 \subseteq ids \cup {new}
  /\ \A id \in ids2 : cons2[id] = IF id = new THEN con ELSE cons[id]

(* The contexts held after a prediction: those held before and the new     *)
(* one, longer than the tree is deep.                                      *)
LEMMA PredictedFits ==
  ASSUME NEW k \in Nat, NEW k2 \in Nat, k <= k2,
         NEW t, IsTree(t, k), NEW d, NEW longest \in Nat, longest <= Bound,
         NEW cons, NEW ids, Fits(t, d, k, longest, cons, ids),
         NEW D, NEW frag \in Seq(D), NEW dm, NEW next,
         Len(frag) = longest + 1 \/ Len(frag) = Bound,
         Tokened(t, dm, next, frag, k2), NEW cons2, NEW ids2, NEW new,
         Joined(cons2, ids2, cons, ids, new, ContextOf(t, dm, next, frag))
  PROVE  Fits(t, d, k2, Len(frag), cons2, ids2)
<1>n. PICK n : n \in Nat /\ n = Len(t)
  <2>1. Len(t) \in Nat
    BY LenProperties DEF IsTree
  <2> QED
    BY <2>1
<1>f. PICK f : f \in Nat /\ f = Len(frag) /\ (f = longest + 1 \/ f = Bound)
  <2>1. Len(frag) \in Nat
    BY LenProperties
  <2> QED
    BY <2>1
<1>d. /\ Depths(t, d) /\ Shallow(d, n, longest)
      /\ \A id \in ids : GoodContext(cons[id], k, n, d, longest)
  BY <1>n DEF Fits
<1>b. Bound \in Nat /\ longest <= f
  BY <1>f, BoundAssumption
<1>1. GoodContext(ContextOf(t, dm, next, frag), k2, n, d, f)
  BY <1>n, <1>f, <1>d, NewContextGood DEF Tokened
<1>2. ASSUME NEW id \in ids
      PROVE  GoodContext(cons[id], k2, n, d, f)
  <2>1. Agree(d, d, n)
    BY DEF Agree
  <2>2. GoodContext(cons[id], k, n, d, longest) /\ n <= n
    BY <1>n, <1>d
  <2> QED
    BY <1>n, <1>f, <1>b, <2>1, <2>2, GoodContextGrows
<1>3. Shallow(d, n, f)
  <2>1. ASSUME NEW v \in 0 .. n - 1
        PROVE  d[v] <= f /\ d[v] < Bound
    <3>1. d[v] \in Nat
      BY <1>n, <1>d DEF Depths
    <3>2. d[v] <= longest /\ d[v] < Bound
      BY <1>d DEF Shallow
    <3> QED
      BY <1>b, <1>f, <3>1, <3>2
  <2> QED
    BY <2>1 DEF Shallow
<1>4. ASSUME NEW id \in ids2
      PROVE  GoodContext(cons2[id], k2, n, d, f)
  <2>1. CASE id = new
    <3>1. cons2[id] = ContextOf(t, dm, next, frag)
      BY <2>1 DEF Joined
    <3> QED
      BY <1>1, <3>1
  <2>2. CASE id # new
    <3>1. cons2[id] = cons[id] /\ id \in ids
      BY <2>2 DEF Joined
    <3> QED
      BY <1>2, <3>1
  <2> QED
    BY <2>1, <2>2
<1> QED
  BY <1>n, <1>f, <1>d, <1>3, <1>4 DEF Fits

(* The tree, the pool and the weights once a mistake is learned from, and  *)
(* the current context with the word typed.                                *)
Corrected(kept) ==
  IF prediction # WordIndex THEN Learned(prediction_id, WordIndex, -1, kept)
  ELSE Now

NewContext == Trimmed(Append(prediction_context, WordIndex))

(* They fit, the word typed is one of the words, and no context has become *)
(* active.                                                                 *)
LEMMA CorrectedSound ==
  ASSUME IInv, current_string # << >>, NEW kept,
         NEW n \in Nat, n = Len(words), NEW m, m = IF Known THEN n ELSE n + 1
  PROVE  /\ m \in Nat /\ n >= 2 /\ n <= m
         /\ WordIndex \in 2 .. m - 1
         /\ Sound(Corrected(kept), contexts, n - 1, Len(prediction_context), m)
         /\ RootFits(Corrected(kept).root_weights, n)
         /\ ToSet(Corrected(kept).pool.active) \subseteq ToSet(pool.active)
<1> DEFINE l == Len(prediction_context)
<1>n. n >= 2 /\ n <= m /\ m \in Nat /\ n - 1 \in Nat
  BY DEF IInv, WordsInv
<1>l. l \in Nat
  BY LenProperties DEF IInv, RecentInv
<1>1. WordIndex \in 2 .. m - 1
  BY <1>n, WordIndexFacts DEF IInv
<1>2. Sound(Now, contexts, n - 1, l, n) /\ RootFits(root_weights, n)
  BY DEF IInv, HeldInv, TokensInv, CountsInv
<1>3. CASE prediction # WordIndex
  <2>1. Corrected(kept) = Learned(prediction_id, WordIndex, -1, kept)
    BY <1>3 DEF Corrected
  <2>2. prediction_id \in GoodIds /\ -1 \in Int /\ WordIndex \in 0 .. m - 1
    BY <1>1, <1>n DEF IInv, HeldInv
  <2> HIDE DEF l
  <2>3. /\ Sound(Learned(prediction_id, WordIndex, -1, kept), contexts, n - 1, l, m)
        /\ RootFits(Learned(prediction_id, WordIndex, -1, kept).root_weights, n)
        /\ ToSet(Learned(prediction_id, WordIndex, -1, kept).pool.active)
             \subseteq ToSet(pool.active)
    BY <1>n, <1>l, <1>2, <2>2, LearnedSound
  <2> QED
    BY <1>n, <1>1, <2>1, <2>3 DEF l
<1>4. CASE prediction = WordIndex
  <2>1. Corrected(kept) = Now
    BY <1>4 DEF Corrected
  <2>2. Now.root_weights = root_weights /\ Now.pool = pool
    BY DEF Now
  <2> HIDE DEF l
  <2>3. Sound(Now, contexts, n - 1, l, m)
    BY <1>n, <1>2, SoundGrows
  <2> QED
    BY <1>n, <1>1, <1>2, <2>1, <2>2, <2>3 DEF l
<1> QED
  BY <1>3, <1>4

(* The current context: its words but the last are words of before.        *)
LEMMA NewContextFacts ==
  ASSUME IInv, NEW n \in Nat, n = Len(words), n >= 2, NEW m \in Nat, n <= m,
         WordIndex \in 2 .. m - 1
  PROVE  /\ NewContext \in Seq(2 .. m - 1)
         /\ Len(NewContext) \in 1 .. Bound
         /\ \/ Len(NewContext) = Len(prediction_context) + 1
            \/ Len(NewContext) = Bound
         /\ Recent(NewContext, 1) = WordIndex
         /\ \A i \in 2 .. Len(NewContext) : Recent(NewContext, i) \in 2 .. n - 1
<1> DEFINE S == 2 .. m - 1
           R == 2 .. n - 1
<1>1. R \subseteq S
  OBVIOUS
<1>2. prediction_context \in Seq(R)
  BY DEF IInv, RecentInv
<1>3. WordIndex \in S
  OBVIOUS
<1> HIDE DEF S, R
<1>4. prediction_context \in Seq(S)
  BY <1>1, <1>2
<1>5. /\ NewContext \in Seq(S)
      /\ Len(NewContext) \in 1 .. Bound
      /\ \/ Len(NewContext) = Len(prediction_context) + 1
         \/ Len(NewContext) = Bound
      /\ Recent(NewContext, 1) = WordIndex
      /\ \A i \in 2 .. Len(NewContext) :
           \E j \in 1 .. Len(prediction_context) :
             Recent(NewContext, i) = prediction_context[j]
  BY <1>3, <1>4, TrimmedFacts DEF NewContext
<1>6. \A j \in 1 .. Len(prediction_context) : prediction_context[j] \in R
  BY <1>2, ElementOfSeq
<1> QED
  BY <1>5, <1>6 DEF S, R

(* The tokens after the prediction are those of the words after it.        *)
LEMMA NewTokens ==
  ASSUME IInv, current_string # << >>, NEW n \in Nat, n = Len(words), n >= 2,
         NEW m \in Nat, m = IF Known THEN n ELSE n + 1, WordIndex \in 2 .. m - 1,
         NEW t, IsTree(t, n - 1)
  PROVE  /\ DataMapAfter(t, data_map, token_number, NewContext) = TokensUpto(m)
         /\ m - 1 = IF Registers(t, data_map, NewContext)
                    THEN token_number + 1 ELSE token_number
         /\ ~Known => Matched(t, data_map, NewContext) = 0
         /\ \A i \in 1 .. Len(NewContext) :
              DataMapAfter(t, data_map, token_number, NewContext)
                [Recent(NewContext, i)] \in 1 .. (m - 1) - 1
<1>1. token_number = n - 1 /\ data_map = TokensUpto(n)
  BY DEF IInv, TokensInv
<1>2. n <= m
  OBVIOUS
<1>3. /\ NewContext \in Seq(2 .. m - 1)
      /\ Len(NewContext) \in 1 .. Bound
      /\ Recent(NewContext, 1) = WordIndex
      /\ \A i \in 2 .. Len(NewContext) : Recent(NewContext, i) \in 2 .. n - 1
  BY <1>2, NewContextFacts
<1>l. PICK l : l \in Nat /\ l = Len(NewContext) /\ l >= 1
  <2>1. Bound \in Nat /\ Len(NewContext) \in 1 .. Bound
    BY <1>3, BoundAssumption, Zenon
  <2> QED
    BY <2>1
<1>4. NewContext \in Seq(2 .. n)
  <2> DEFINE S == 2 .. m - 1
             R == 2 .. n
  <2>1. S \subseteq R /\ NewContext \in Seq(S)
    BY <1>3
  <2> HIDE DEF S, R
  <2>2. NewContext \in Seq(R)
    BY <2>1
  <2> QED
    BY <2>2 DEF R
<1>5. /\ Recent(NewContext, 1) = n =>
           /\ DataMapAfter(t, data_map, n - 1, NewContext) = TokensUpto(n + 1)
           /\ Registers(t, data_map, NewContext)
           /\ Matched(t, data_map, NewContext) = 0
      /\ Recent(NewContext, 1) # n =>
           /\ DataMapAfter(t, data_map, n - 1, NewContext) = data_map
           /\ ~Registers(t, data_map, NewContext)
  BY <1>1, <1>3, <1>4, <1>l, TokensFollow
<1>6. Known <=> Recent(NewContext, 1) # n
  BY <1>3, WordIndexFacts DEF IInv
<1>7. DataMapAfter(t, data_map, token_number, NewContext) = TokensUpto(m)
  BY <1>1, <1>5, <1>6
<1>8. \A i \in 1 .. Len(NewContext) :
        TokensUpto(m)[Recent(NewContext, i)] \in 1 .. (m - 1) - 1
  <2>1. ASSUME NEW i \in 1 .. Len(NewContext)
        PROVE  Recent(NewContext, i) \in 2 .. m - 1
    <3>1. CASE i = 1
      BY <1>3, <3>1
    <3>2. CASE i # 1
      <4>1. i \in 2 .. Len(NewContext)
        BY <1>l, <3>2
      <4> QED
        BY <1>2, <1>3, <4>1
    <3> QED
      BY <3>1, <3>2
  <2>2. \A w \in 2 .. m - 1 : TokensUpto(m)[w] \in 1 .. (m - 1) - 1
    BY DEF TokensUpto
  <2> QED
    BY <2>1, <2>2
<1> QED
  BY <1>1, <1>5, <1>6, <1>7, <1>8

(* The step, in terms of the two. *)
LEMMA DoPredictSteps ==
  ASSUME IInv, NEW kept, DoPredict(kept)
  PROVE  LET s == Corrected(kept)
             con == ContextOf(s.tree, data_map, token_number, NewContext)
         IN /\ current_string # << >>
            /\ words' = IF Known THEN words ELSE Append(words, current_string)
            /\ mistakes' \in 0 .. MaxMistakes
            /\ tree' = s.tree
            /\ weights' = s.weights
            /\ prediction_context' = NewContext
            /\ pool' = Activated(s.pool)
            /\ prediction_id' = NextId(s.pool)
            /\ contexts' = [id \in {NextId(s.pool)} \cup
                                   (DOMAIN contexts \cap ToSet(pool'.active)) |->
                              IF id = NextId(s.pool) THEN con ELSE contexts[id]]
            /\ data_map' =
                 DataMapAfter(s.tree, data_map, token_number, NewContext)
            /\ token_number' = IF Registers(s.tree, data_map, NewContext)
                                 THEN token_number + 1 ELSE token_number
            /\ prediction' =
                 LeastLoss(Losses(s.root_weights, s.weights, con.path), mistakes')
            /\ root_weights' = Grown(s.root_weights, mistakes', Len(words'))
            /\ detected_interface' \in BOOLEAN
            /\ current_string' = << >>
<1> DEFINE s == IF prediction # WordIndex
                  THEN Learned(prediction_id, WordIndex, -1, kept)
                  ELSE [tree |-> tree, pool |-> pool, weights |-> weights,
                        root_weights |-> root_weights]
           c == Trimmed(Append(prediction_context, WordIndex))
           con == ContextOf(s.tree, data_map, token_number, c)
<1>1. /\ current_string # << >>
      /\ prediction # WordIndex => mistakes < MaxMistakes
      /\ words' = IF Known THEN words ELSE Append(words, current_string)
      /\ mistakes' = IF prediction # WordIndex THEN mistakes + 1 ELSE mistakes
      /\ tree' = s.tree
      /\ weights' = s.weights
      /\ prediction_context' = c
      /\ pool' = Activated(s.pool)
      /\ prediction_id' = NextId(s.pool)
      /\ contexts' = [id \in {prediction_id'} \cup DOMAIN Remembered(pool') |->
                        IF id = prediction_id' THEN con ELSE contexts[id]]
      /\ data_map' = DataMapAfter(s.tree, data_map, token_number, c)
      /\ token_number' = IF Registers(s.tree, data_map, c)
                           THEN token_number + 1 ELSE token_number
      /\ prediction' = LeastLoss(Losses(s.root_weights, s.weights, con.path),
                                 mistakes')
      /\ root_weights' = Grown(s.root_weights, mistakes', Len(words'))
      /\ detected_interface' = (prediction_id' = InterfaceId)
      /\ current_string' = << >>
  BY Zenon DEF DoPredict
<1>2. s = Corrected(kept) /\ c = NewContext
  BY DEF Corrected, NewContext, Now
<1> HIDE DEF s, c
<1>3. mistakes' \in 0 .. MaxMistakes
  <2>1. mistakes \in 0 .. MaxMistakes
    BY DEF IInv, CountsInv
  <2> QED
    BY <1>1, <2>1, BoundsAssumption
<1>4. DOMAIN Remembered(pool') = DOMAIN contexts \cap ToSet(pool'.active)
  BY DEF Remembered
<1>5. detected_interface' \in BOOLEAN
  BY <1>1
<1> QED
  BY <1>1, <1>2, <1>3, <1>4, <1>5

(* The words after it. *)
LEMMA NextWords ==
  ASSUME WordsInv, current_string # << >>, NEW n \in Nat, n = Len(words),
         NEW m, m = IF Known THEN n ELSE n + 1,
         NEW words2,
         words2 = IF Known THEN words ELSE Append(words, current_string)
  PROVE  /\ words2 \in Seq(Seq(Chars) \cup {InterfaceToken})
         /\ Len(words2) = m
         /\ words2[1] = << >> /\ words2[2] = InterfaceToken
<1> DEFINE W == Seq(Chars) \cup {InterfaceToken}
<1>1. /\ words \in Seq(W) /\ current_string \in W
      /\ n >= 2 /\ words[1] = << >> /\ words[2] = InterfaceToken
  BY DEF WordsInv
<1> HIDE DEF W
<1>2. CASE Known
  BY <1>1, <1>2 DEF W
<1>3. CASE ~Known
  <2>1. words2 = Append(words, current_string)
    BY <1>3
  <2>2. /\ Append(words, current_string) \in Seq(W)
        /\ Len(Append(words, current_string)) = n + 1
        /\ Append(words, current_string)[1] = words[1]
        /\ Append(words, current_string)[2] = words[2]
    BY <1>1
  <2> QED
    BY <1>1, <1>3, <2>1, <2>2 DEF W
<1> QED
  BY <1>2, <1>3

(* What finish_predict makes of the counts. *)
LEMMA NextCounts ==
  ASSUME NEW n \in Nat, n > 0, NEW m \in {n, n + 1}, NEW rw, RootFits(rw, n),
         NEW k, NEW longest, NEW cons, NEW s, Sound(s, cons, k, longest, m),
         NEW l \in Nat, l = Len(s.tree), NEW path \in Seq(0 .. l - 1),
         NEW mis \in Nat
  PROVE  /\ RootFits(Grown(rw, mis, m), m)
         /\ LeastLoss(Losses(rw, s.weights, path), mis) \in 0 .. m - 1
<1>1. RootFits(Grown(rw, mis, m), m)
  BY GrownFacts
<1>2. WeightsFit(s.weights, l, m)
  BY DEF Sound
<1> DEFINE data == Losses(rw, s.weights, path)
<1>3. DOMAIN data = 0 .. n - 1 /\ \A w \in 0 .. n - 1 : data[w] \in Int
  BY <1>2, LossesFacts
<1> HIDE DEF data
<1>4. LeastLoss(data, mis) \in 0 .. n - 1
  <2>1. n \in Nat /\ n > 0 /\ mis \in Int
    OBVIOUS
  <2> QED
    BY <1>3, <2>1, LeastLossFacts
<1> QED
  BY <1>1, <1>4 DEF data

(* The path of the new context, the root alone if no token is found. *)
LEMMA PathOfContext ==
  ASSUME NEW k \in Nat, NEW t, IsTree(t, k), NEW dm, NEW next, NEW D,
         NEW frag \in Seq(D), NEW h \in Nat, h = Len(t)
  PROVE  /\ ContextOf(t, dm, next, frag).path \in Seq(0 .. h - 1)
         /\ Matched(t, dm, frag) = 0 =>
              ContextOf(t, dm, next, frag).path = <<Root>>
<1> DEFINE con == ContextOf(t, dm, next, frag)
           matched == Matched(t, dm, frag)
           tokens == DataMapAfter(t, dm, next, frag)
<1>r. Remembers(con, t, dm, tokens, frag, matched)
  BY ContextFacts
<1> HIDE DEF matched, con, tokens
<1>1. /\ con.path \in Seq(0 .. h - 1)
      /\ Len(con.path) = matched + 1
      /\ con.path[1] = Root
  BY <1>r DEF Remembers
<1>2. ASSUME matched = 0
      PROVE  con.path = <<Root>>
  <2> DEFINE path == con.path
  <2>1. /\ DOMAIN path = 1 .. 1 /\ path[1] = Root
        /\ path = [i \in DOMAIN path |-> path[i]]
    BY <1>1, <1>2
  <2> HIDE DEF path
  <2>2. path = <<Root>>
    BY <2>1
  <2> QED
    BY <2>2 DEF path
<1> QED
  BY <1>1, <1>2 DEF con, matched

(* do_predict keeps everything that fits fitting; the root's weights are   *)
(* the words known before it, and a word met in it leaves the path of the  *)
(* next prediction at the root.                                            *)
LEMMA InterfaceInv ==
  ASSUME IInv, NEW kept, DoPredict(kept)
  PROVE  /\ IInv'
         /\ Len(words') # Len(words) =>
              contexts'[prediction_id'].path = <<Root>>
         /\ Len(root_weights) = Len(words)
<1> DEFINE s == Corrected(kept)
           con == ContextOf(s.tree, data_map, token_number, NewContext)
<1>1. /\ current_string # << >>
      /\ words' = IF Known THEN words ELSE Append(words, current_string)
      /\ mistakes' \in 0 .. MaxMistakes
      /\ tree' = s.tree
      /\ weights' = s.weights
      /\ prediction_context' = NewContext
      /\ pool' = Activated(s.pool)
      /\ prediction_id' = NextId(s.pool)
      /\ contexts' = [id \in {NextId(s.pool)} \cup
                             (DOMAIN contexts \cap ToSet(pool'.active)) |->
                        IF id = NextId(s.pool) THEN con ELSE contexts[id]]
      /\ data_map' = DataMapAfter(s.tree, data_map, token_number, NewContext)
      /\ token_number' = IF Registers(s.tree, data_map, NewContext)
                           THEN token_number + 1 ELSE token_number
      /\ prediction' =
           LeastLoss(Losses(s.root_weights, s.weights, con.path), mistakes')
      /\ root_weights' = Grown(s.root_weights, mistakes', Len(words'))
      /\ detected_interface' \in BOOLEAN
      /\ current_string' = << >>
  BY DoPredictSteps
<1>n. PICK n : n \in Nat /\ n = Len(words)
  BY LenProperties DEF IInv, WordsInv
<1>m. PICK m : m = IF Known THEN n ELSE n + 1
  OBVIOUS
<1>l. PICK l : l \in Nat /\ l = Len(prediction_context) /\ l <= Bound
  BY LenProperties DEF IInv, RecentInv
<1>2. /\ m \in Nat /\ n >= 2 /\ n <= m /\ m \in {n, n + 1}
      /\ WordIndex \in 2 .. m - 1
      /\ Sound(s, contexts, n - 1, l, m)
      /\ RootFits(s.root_weights, n)
      /\ ToSet(s.pool.active) \subseteq ToSet(pool.active)
  <2>1. /\ m \in Nat /\ n >= 2 /\ n <= m
        /\ WordIndex \in 2 .. m - 1
        /\ Sound(s, contexts, n - 1, Len(prediction_context), m)
        /\ RootFits(s.root_weights, n)
        /\ ToSet(s.pool.active) \subseteq ToSet(pool.active)
    BY <1>1, <1>n, <1>m, CorrectedSound
  <2> QED
    BY <1>m, <1>l, <2>1
<1> HIDE DEF s
<1>a. /\ n \in Nat /\ n > 0 /\ m \in Nat /\ m \in {n, n + 1}
      /\ n - 1 \in Nat /\ m - 1 \in Nat /\ n - 1 <= m - 1
  <2>1. n \in Nat /\ n >= 2 /\ m \in {n, n + 1}
    BY <1>n, <1>2
  <2> QED
    BY <2>1
<1>3. IsTree(s.tree, n - 1) /\ IsPartition(s.pool)
  BY <1>2 DEF Sound
<1>4. /\ data_map' = TokensUpto(m)
      /\ token_number' = m - 1
      /\ ~Known => Matched(s.tree, data_map, NewContext) = 0
      /\ \A i \in 1 .. Len(NewContext) :
           DataMapAfter(s.tree, data_map, token_number, NewContext)
             [Recent(NewContext, i)] \in 1 .. (m - 1) - 1
  BY <1>1, <1>n, <1>m, <1>2, <1>3, NewTokens
<1>5. /\ NewContext \in Seq(2 .. m - 1)
      /\ Len(NewContext) \in 1 .. Bound
      /\ Len(NewContext) = l + 1 \/ Len(NewContext) = Bound
  BY <1>n, <1>l, <1>2, NewContextFacts
<1>t. PICK h : h \in Nat /\ h = Len(s.tree)
  BY <1>3, LenProperties DEF IsTree
<1>6. WordsInv' /\ Len(words') = m
  <2>1. /\ words' \in Seq(Seq(Chars) \cup {InterfaceToken})
        /\ Len(words') = m
        /\ words'[1] = << >> /\ words'[2] = InterfaceToken
    BY <1>1, <1>n, <1>m, NextWords DEF IInv
  <2>2. current_string' \in Seq(Chars)
    BY <1>1
  <2> QED
    BY <1>2, <2>1, <2>2 DEF WordsInv
<1>7. TokensInv'
  BY <1>4, <1>6 DEF TokensInv
<1>8. RecentInv'
  BY <1>1, <1>5, <1>6, BoundAssumption DEF RecentInv
<1>9. con.path \in Seq(0 .. h - 1) /\ (~Known => con.path = <<Root>>)
  <2>2. /\ con.path \in Seq(0 .. h - 1)
        /\ Matched(s.tree, data_map, NewContext) = 0 => con.path = <<Root>>
    BY <1>3, <1>5, <1>t, <1>a, PathOfContext
  <2> QED
    BY <1>4, <2>2
<1> HIDE DEF con
<1>10. CountsInv'
  <2>1. mistakes' \in Nat
    BY <1>1
  <2>2. /\ RootFits(Grown(s.root_weights, mistakes', m), m)
        /\ LeastLoss(Losses(s.root_weights, s.weights, con.path), mistakes')
             \in 0 .. m - 1
    <3> DEFINE rw == s.root_weights
               path == con.path
               mis == mistakes'
               k == n - 1
    <3>1. /\ RootFits(rw, n)
          /\ Sound(s, contexts, k, l, m)
          /\ path \in Seq(0 .. h - 1)
          /\ mis \in Nat
      BY <1>2, <1>9, <2>1
    <3> HIDE DEF rw, path, mis, k
    <3>2. n \in Nat /\ n > 0 /\ m \in {n, n + 1} /\ h \in Nat /\ h = Len(s.tree)
      BY <1>a, <1>t
    <3>3. /\ RootFits(Grown(rw, mis, m), m)
          /\ LeastLoss(Losses(rw, s.weights, path), mis) \in 0 .. m - 1
      BY <3>1, <3>2, NextCounts
    <3> QED
      BY <3>3 DEF rw, path, mis
  <2> QED
    BY <1>1, <1>6, <2>2 DEF CountsInv
<1>11. HeldInv'
  <2>1. /\ IsPartition(pool') /\ prediction_id' \in ContextIds
        /\ prediction_id' \in ToSet(pool'.active)
        /\ ToSet(pool'.active) \subseteq
             ToSet(s.pool.active) \cup {prediction_id'}
    BY <1>1, <1>3, ActivatedPartition, ActivatedActive
  <2>2. prediction_id' \in GoodIds
    BY <2>1, MaxContextsAssumption DEF ContextIds, GoodIds
  <2>3. DOMAIN contexts = ToSet(pool.active)
    BY DEF IInv, HeldInv
  <2>4. {prediction_id'} \cup (DOMAIN contexts \cap ToSet(pool'.active)) =
          ToSet(pool'.active)
    BY <1>2, <2>1, <2>3
  <2>5. contexts' = [id \in ToSet(pool'.active) |->
                       IF id = prediction_id' THEN con ELSE contexts[id]]
    BY <1>1, <2>4
  <2>6. contexts' = [id \in ToSet(pool'.active) |-> contexts'[id]]
    BY <2>5
  <2>7. \A id \in ToSet(pool'.active) :
          contexts'[id] = IF id = prediction_id' THEN con ELSE contexts[id]
    BY <2>5
  <2>8. PICK d : Fits(s.tree, d, n - 1, l, contexts, ToSet(s.pool.active))
    BY <1>2 DEF Sound
  <2>9. Fits(s.tree, d, m - 1, Len(NewContext), contexts', ToSet(pool'.active))
    <3>1. n - 1 \in Nat /\ m - 1 \in Nat /\ n - 1 <= m - 1
      BY <1>a
    <3> DEFINE k == n - 1
               k2 == m - 1
               ids == ToSet(s.pool.active)
               ids2 == ToSet(pool'.active)
               new == prediction_id'
               t == s.tree
               cons2 == contexts'
    <3>2. /\ k \in Nat /\ k2 \in Nat /\ k <= k2 /\ IsTree(t, k)
          /\ Fits(t, d, k, l, contexts, ids)
      BY <1>3, <2>8, <3>1
    <3>3. Joined(cons2, ids2, contexts, ids, new,
                 ContextOf(t, data_map, token_number, NewContext))
      BY <2>1, <2>7 DEF con, Joined
    <3>4. Tokened(t, data_map, token_number, NewContext, k2)
      BY <1>4 DEF Tokened
    <3> HIDE DEF k, k2, ids, ids2, new, t, cons2
    <3>5. Fits(t, d, k2, Len(NewContext), cons2, ids2)
      BY <1>5, <1>l, <3>2, <3>3, <3>4, PredictedFits
    <3> QED
      BY <3>5 DEF k2, ids2, t, cons2
  <2>10. IsTree(s.tree, m - 1)
    BY <1>3, <1>a, TreeGrows
  <2>11. WeightsFit(s.weights, Len(s.tree), m)
    BY <1>2 DEF Sound
  <2>12. Sound(Now', contexts', m - 1, Len(NewContext), m)
    <3>1. Now'.tree = s.tree /\ Now'.weights = s.weights /\ Now'.pool = pool'
      BY <1>1 DEF Now
    <3> QED
      BY <2>1, <2>9, <2>10, <2>11, <3>1 DEF Sound
  <2> QED
    BY <1>1, <1>4, <1>6, <2>2, <2>6, <2>12 DEF HeldInv
<1>12. Len(words') # Len(words) => contexts'[prediction_id'].path = <<Root>>
  <2>1. contexts'[prediction_id'] = con
    BY <1>1
  <2>2. Len(words') # Len(words) => ~Known
    BY <1>1
  <2> QED
    BY <1>9, <2>1, <2>2
<1>13. Len(root_weights) = Len(words)
  BY DEF IInv, CountsInv, RootFits
<1> QED
  BY <1>6, <1>7, <1>8, <1>10, <1>11, <1>12, <1>13 DEF IInv

(***************************************************************************)
(* The other operations.                                                   *)
(***************************************************************************)

(* prediction_result: the context regretted is given back. *)
LEMMA PredictionResultInv ==
  ASSUME IInv, NEW id \in GoodIds, PredictionResult(id)
  PROVE  IInv'
<1> PICK kept : kept \in KeptEdges(id)
      /\ tree' = Learned(id, prediction, 1, kept).tree
      /\ pool' = Learned(id, prediction, 1, kept).pool
      /\ weights' = Learned(id, prediction, 1, kept).weights
      /\ root_weights' = Learned(id, prediction, 1, kept).root_weights
  BY Zenon DEF PredictionResult
<1> DEFINE s == Learned(id, prediction, 1, kept)
<1>1. /\ contexts' = [c \in DOMAIN contexts \cap ToSet(pool'.active) |-> contexts[c]]
      /\ UNCHANGED <<data_map, token_number, words, prediction_context,
                     prediction, prediction_id, mistakes, current_string,
                     detected_interface>>
  BY DEF PredictionResult, Remembered
<1>n. PICK n : n \in Nat /\ n = Len(words) /\ n >= 2
  BY LenProperties DEF IInv, WordsInv
<1>l. PICK l : l \in Nat /\ l = Len(prediction_context)
  BY LenProperties DEF IInv, RecentInv
<1>2. Sound(Now, contexts, n - 1, l, n) /\ RootFits(root_weights, n)
  BY <1>n, <1>l DEF IInv, HeldInv, TokensInv, CountsInv
<1>3. /\ Sound(s, contexts, n - 1, l, n)
      /\ RootFits(s.root_weights, n)
      /\ ToSet(s.pool.active) \subseteq ToSet(pool.active)
  <2>1. n - 1 \in Nat /\ n <= n /\ 1 \in Int /\ prediction \in 0 .. n - 1
    BY <1>n DEF IInv, CountsInv
  <2> QED
    BY <1>n, <1>l, <1>2, <2>1, LearnedSound
<1> HIDE DEF s
<1>4. /\ tree' = s.tree /\ pool' = s.pool /\ weights' = s.weights
      /\ root_weights' = s.root_weights
  BY DEF s
<1>5. contexts' = [c \in ToSet(pool'.active) |-> contexts[c]]
  <2>1. DOMAIN contexts = ToSet(pool.active)
    BY DEF IInv, HeldInv
  <2>2. DOMAIN contexts \cap ToSet(pool'.active) = ToSet(pool'.active)
    BY <1>3, <1>4, <2>1
  <2> QED
    BY <1>1, <2>2
<1>6. Sound(Now', contexts', n - 1, l, n)
  <2>1. Now'.tree = s.tree /\ Now'.weights = s.weights /\ Now'.pool = s.pool
    BY <1>4 DEF Now
  <2>2. PICK d : Fits(s.tree, d, n - 1, l, contexts, ToSet(s.pool.active))
    BY <1>3 DEF Sound
  <2>3. Fits(s.tree, d, n - 1, l, contexts', ToSet(s.pool.active))
    <3>1. \A c \in ToSet(s.pool.active) : contexts'[c] = contexts[c]
      BY <1>4, <1>5
    <3> QED
      BY <2>2, <3>1 DEF Fits
  <2> QED
    BY <1>3, <2>1, <2>3 DEF Sound
<1>7. WordsInv' /\ TokensInv' /\ RecentInv'
  BY <1>1 DEF IInv, WordsInv, TokensInv, RecentInv
<1>8. CountsInv'
  BY <1>1, <1>3, <1>4, <1>n DEF IInv, CountsInv
<1>9. HeldInv'
  <2>1. contexts' = [c \in ToSet(pool'.active) |-> contexts'[c]]
    BY <1>5
  <2>2. token_number' = n - 1 /\ Len(prediction_context') = l /\ Len(words') = n
    BY <1>1, <1>n, <1>l DEF IInv, TokensInv
  <2>3. prediction_id' \in GoodIds
    BY <1>1 DEF IInv, HeldInv
  <2> QED
    BY <1>6, <2>1, <2>2, <2>3 DEF HeldInv
<1> QED
  BY <1>7, <1>8, <1>9 DEF IInv

(* write_summary: the tree printed is as deep as it was. *)
LEMMA WriteSummaryInv == IInv /\ WriteSummary => IInv'
<1> SUFFICES ASSUME IInv, WriteSummary
             PROVE  IInv'
  OBVIOUS
<1>1. /\ tree' = AfterWriteGraph(tree)
      /\ UNCHANGED <<data_map, token_number, contexts, pool, words, weights,
                     root_weights, prediction_context, prediction,
                     prediction_id, mistakes, detected_interface,
                     current_string>>
  BY DEF WriteSummary, modelVars
<1>n. PICK n : n \in Nat /\ n = Len(words) /\ n >= 2
  BY LenProperties DEF IInv, WordsInv
<1>l. PICK l : l \in Nat /\ l = Len(prediction_context)
  BY LenProperties DEF IInv, RecentInv
<1>2. Sound(Now, contexts, n - 1, l, n)
  BY <1>n, <1>l DEF IInv, HeldInv, TokensInv
<1>3. /\ IsTree(tree, n - 1) /\ WeightsFit(weights, Len(tree), n)
      /\ IsPartition(pool)
      /\ \E d : Fits(tree, d, n - 1, l, contexts, ToSet(pool.active))
  BY <1>2 DEF Sound, Now
<1>4. IsTree(tree', n - 1) /\ Printed(tree', tree, Len(tree))
  <2>1. n - 1 \in Nat
    BY <1>n
  <2> QED
    BY <1>1, <1>3, <2>1, WriteGraphPrints
<1>5. PICK d : Fits(tree, d, n - 1, l, contexts, ToSet(pool.active))
  BY <1>3
<1>6. Fits(tree', d, n - 1, l, contexts, ToSet(pool.active))
  <2>1. PICK h : h \in Nat /\ h = Len(tree)
    BY <1>3, LenProperties DEF IsTree
  <2>2. Depths(tree', d)
    BY <1>4, <1>5, <2>1, PrintedDepths DEF Fits
  <2>3. Len(tree') = Len(tree)
    BY <1>4 DEF Printed
  <2> QED
    BY <1>5, <2>2, <2>3 DEF Fits
<1>7. Sound(Now', contexts, n - 1, l, n)
  <2>1. /\ Now'.tree = tree' /\ Now'.weights = weights /\ Now'.pool = pool
        /\ Len(tree') = Len(tree)
    BY <1>1, <1>4 DEF Now, Printed
  <2> QED
    BY <1>3, <1>4, <1>6, <2>1 DEF Sound
<1>8. WordsInv' /\ TokensInv' /\ RecentInv' /\ CountsInv'
  BY <1>1 DEF IInv, WordsInv, TokensInv, RecentInv, CountsInv
<1>9. HeldInv'
  <2>1. token_number' = n - 1 /\ Len(prediction_context') = l /\ Len(words') = n
    BY <1>1, <1>n, <1>l DEF IInv, TokensInv
  <2>2. /\ prediction_id' \in GoodIds
        /\ contexts' = [c \in ToSet(pool'.active) |-> contexts'[c]]
        /\ contexts' = contexts
    BY <1>1 DEF IInv, HeldInv
  <2> QED
    BY <1>7, <2>1, <2>2 DEF HeldInv
<1> QED
  BY <1>8, <1>9 DEF IInv

(* A step that leaves tree, pool, weights, words and recent words alone. *)
LEMMA ElsewhereInv ==
  ASSUME IInv,
         UNCHANGED <<treeVars, words, weights, root_weights, prediction_context,
                     prediction, mistakes, detected_interface>>,
         prediction_id' \in GoodIds, current_string' \in Seq(Chars)
  PROVE  IInv'
<1>1. UNCHANGED <<tree, data_map, token_number, contexts, pool, words, weights,
                  root_weights, prediction_context, prediction, mistakes,
                  detected_interface>>
  BY DEF treeVars
<1>2. WordsInv' /\ TokensInv' /\ RecentInv' /\ CountsInv'
  BY <1>1 DEF IInv, WordsInv, TokensInv, RecentInv, CountsInv
<1>3. HeldInv'
  <2>1. Now' = Now /\ Len(words') = Len(words)
        /\ Len(prediction_context') = Len(prediction_context)
    BY <1>1 DEF Now
  <2>2. /\ contexts = [c \in ToSet(pool.active) |-> contexts[c]]
        /\ Sound(Now, contexts, token_number, Len(prediction_context), Len(words))
    BY DEF IInv, HeldInv
  <2>3. contexts' = [c \in ToSet(pool'.active) |-> contexts'[c]]
    BY <1>1, <2>2
  <2>4. Sound(Now', contexts', token_number', Len(prediction_context'), Len(words'))
    BY <1>1, <2>1, <2>2
  <2> QED
    BY <2>3, <2>4 DEF HeldInv
<1> QED
  BY <1>2, <1>3 DEF IInv

(* Every step keeps the invariant. *)
LEMMA NextIInv == IInv /\ [Next]_vars => IInv'
<1> SUFFICES ASSUME IInv, [Next]_vars
             PROVE  IInv'
  OBVIOUS
<1>i. prediction_id \in GoodIds /\ current_string \in Seq(Chars)
  BY DEF IInv, HeldInv, WordsInv
<1>c. CallerIds \subseteq GoodIds
  BY CallerAssumption, NoIdPastTheEnd DEF GoodIds
<1>1. ASSUME NEW c \in Chars, PutC(c)
      PROVE  IInv'
  <2>1. current_string' = Append(current_string, c)
        /\ UNCHANGED <<treeVars, modelVars>>
    BY <1>1 DEF PutC
  <2>2. current_string' \in Seq(Chars)
    BY <1>i, <2>1
  <2> QED
    BY <1>i, <2>1, <2>2, ElsewhereInv DEF modelVars
<1>2. ASSUME Backspace
      PROVE  IInv'
  <2>1. /\ current_string # << >>
        /\ current_string' = Front(current_string)
        /\ UNCHANGED <<treeVars, modelVars>>
    BY <1>2 DEF Backspace
  <2>2. current_string' \in Seq(Chars)
    <3>1. Front(current_string) = SubSeq(current_string, 1, Len(current_string) - 1)
      BY DEF Front
    <3>2. \A i \in 1 .. Len(current_string) - 1 : current_string[i] \in Chars
      BY <1>i, ElementOfSeq
    <3> QED
      BY <1>i, <2>1, <3>1, <3>2
  <2> QED
    BY <1>i, <2>1, <2>2, ElsewhereInv DEF modelVars
<1>3. ASSUME Interface
      PROVE  IInv'
  BY <1>3, InterfaceInv DEF Interface
<1>4. ASSUME NEW id \in CallerIds \cup {prediction_id}, PredictionResult(id)
      PROVE  IInv'
  BY <1>4, <1>i, <1>c, PredictionResultInv
<1>5. ASSUME NEW id \in CallerIds, GetPrediction(id)
      PROVE  IInv'
  <2>1. /\ prediction_id' = id
        /\ UNCHANGED <<treeVars, words, weights, root_weights,
                       prediction_context, prediction, mistakes,
                       current_string, detected_interface>>
    BY <1>5 DEF GetPrediction
  <2> QED
    BY <1>i, <1>c, <2>1, ElsewhereInv
<1>6. ASSUME WriteSummary
      PROVE  IInv'
  BY <1>6, WriteSummaryInv
<1>7. ASSUME UNCHANGED vars
      PROVE  IInv'
  <2>1. UNCHANGED <<treeVars, modelVars, current_string>>
    BY <1>7 DEF vars
  <2> QED
    BY <1>i, <2>1, ElsewhereInv DEF modelVars
<1> QED
  BY <1>1, <1>2, <1>3, <1>4, <1>5, <1>6, <1>7 DEF Next

(* The invariant always holds. *)
LEMMA IInvAlways == Spec => []IInv
BY InitIInv, NextIInv, PTL DEF Spec

(* The invariant gives every variable its type. *)
LEMMA IInvTypes == IInv => TypeOK
<1> SUFFICES ASSUME IInv
             PROVE  TypeOK
  OBVIOUS
<1>n. PICK n : n \in Nat /\ n = Len(words) /\ n >= 2
  BY LenProperties DEF IInv, WordsInv
<1>l. PICK l : l \in Nat /\ l = Len(prediction_context)
  BY LenProperties DEF IInv, RecentInv
<1>k. PICK k : k \in Nat /\ k = n - 1 /\ token_number = k
  BY <1>n DEF IInv, TokensInv
<1>1. Sound(Now, contexts, k, l, n)
  BY <1>n, <1>l, <1>k DEF IInv, HeldInv
<1>h. PICK h : h \in Nat /\ h = Len(tree) /\ h > 0
  BY <1>1, LenProperties DEF Sound, Now, IsTree
<1>2. /\ IsTree(tree, k) /\ WeightsFit(weights, h, n)
      /\ \E d : Fits(tree, d, k, l, contexts, ToSet(pool.active))
  BY <1>1, <1>h DEF Sound, Now
<1> DEFINE V == 0 .. h - 1
           K == 0 .. k - 1
<1>v. Vertices = V
  BY <1>h DEF Vertices
<1>3. ASSUME NEW v \in DOMAIN tree
      PROVE  /\ tree[v].token \in K
             /\ tree[v].edges \in Seq(V)
             /\ tree[v].subtree \in [DOMAIN tree[v].subtree -> V]
             /\ DOMAIN tree[v].subtree \subseteq K
  <2>1. v - 1 \in 0 .. Len(tree) - 1 /\ (v - 1) + 1 = v
    BY <1>2, <1>h DEF IsTree
  <2>2. /\ tree[v].token \in K
        /\ tree[v].edges \in Seq(V)
        /\ tree[v].subtree \in PartialMaps(K, V)
    BY <1>2, <1>h, <1>k, <2>1, NodeFacts
  <2> HIDE DEF K, V
  <2> QED
    BY <2>2 DEF PartialMaps
<1>4. /\ data_map \in [DOMAIN data_map -> K]
      /\ DOMAIN data_map \subseteq 0 .. n - 1
  <2>1. data_map = TokensUpto(n)
    BY <1>n DEF IInv, TokensInv
  <2> QED
    BY <1>n, <1>k, <2>1 DEF TokensUpto
<1>5. contexts \in [ToSet(pool.active) ->
                      [path : Seq(V), leaf : V, additions : Seq(K)]]
  <2>1. PICK d : Fits(tree, d, k, l, contexts, ToSet(pool.active))
    BY <1>2
  <2>2. ASSUME NEW id \in ToSet(pool.active)
        PROVE  contexts[id] \in [path : Seq(V), leaf : V, additions : Seq(K)]
    <3> DEFINE con == contexts[id]
               A == 1 .. k - 1
    <3>1. GoodContext(con, k, h, d, l)
      BY <1>h, <2>1 DEF Fits
    <3>2. /\ con = [path |-> con.path, leaf |-> con.leaf,
                    additions |-> con.additions]
          /\ con.path \in Seq(V)
          /\ con.leaf = con.path[Len(con.path)]
          /\ con.additions \in Seq(A)
          /\ Len(con.path) \in Nat /\ Len(con.path) > 0
      BY <3>1, GoodContextLengths DEF GoodContext
    <3>3. A \subseteq K
      OBVIOUS
    <3> HIDE DEF A, K, V, con
    <3>4. con.additions \in Seq(K)
      BY <3>2, <3>3
    <3>5. con.leaf \in V
      BY <3>2, ElementOfSeq
    <3>6. con \in [path : Seq(V), leaf : V, additions : Seq(K)]
      BY <3>2, <3>4, <3>5
    <3> QED
      BY <3>6 DEF con
  <2>3. contexts = [id \in ToSet(pool.active) |-> contexts[id]]
    BY DEF IInv, HeldInv
  <2> HIDE DEF K, V
  <2> QED
    BY <2>2, <2>3
<1>6. /\ Len(weights) = h - 1
      /\ \A v \in DOMAIN weights :
           /\ weights[v] \in [DOMAIN weights[v] -> Int]
           /\ DOMAIN weights[v] \subseteq 0 .. n - 1
  <2> DEFINE W == PartialMaps(0 .. n - 1, Int)
  <2>1. weights \in Seq(W) /\ Len(weights) = h - 1
    BY <1>2 DEF WeightsFit, WeightMaps
  <2>2. \A v \in DOMAIN weights : weights[v] \in W
    <3> HIDE DEF W
    <3> QED
      BY <2>1
  <2> QED
    BY <2>1, <2>2 DEF PartialMaps
<1>7. /\ root_weights \in Seq(Int) /\ Len(root_weights) = n
      /\ prediction_context \in Seq(2 .. n - 1)
      /\ prediction \in 0 .. n - 1
      /\ mistakes \in 0 .. MaxMistakes
      /\ detected_interface \in BOOLEAN
  BY <1>n DEF IInv, RecentInv, CountsInv, RootFits
<1>8. token_number \in 1 .. n
  BY <1>n, <1>k
<1> QED
  BY <1>n, <1>k, <1>h, <1>v, <1>3, <1>4, <1>5, <1>6, <1>7, <1>8 DEF TypeOK

(* Every vertex number, token, weight and remembered context of the model  *)
(* is one it can use, for every text typed and every id a caller makes up. *)
THEOREM TypesAlwaysOK == Spec => []TypeOK
BY IInvAlways, IInvTypes, PTL

(* Every word met has the token before its index, and so has every word of *)
(* the current context: write_graph labels each vertex with the word its   *)
(* token stands for.                                                       *)
THEOREM TokensAlwaysFollowWords == Spec => []TokensFollowWords
<1>1. IInv => TokensFollowWords
  <2> SUFFICES ASSUME IInv
               PROVE  TokensFollowWords
    OBVIOUS
  <2>1. data_map = TokensUpto(Len(words))
    BY DEF IInv, TokensInv
  <2> DEFINE S == 2 .. Len(words) - 1
  <2>2. DOMAIN data_map = S /\ \A w \in DOMAIN data_map : data_map[w] = w - 1
    BY <2>1 DEF TokensUpto
  <2>3. prediction_context \in Seq(S)
    BY DEF IInv, RecentInv
  <2>4. ToSet(prediction_context) \subseteq S
    <3> HIDE DEF S
    <3> QED
      BY <2>3 DEF ToSet
  <2> QED
    BY <2>2, <2>4 DEF TokensFollowWords
<1> QED
  BY <1>1, IInvAlways, PTL

(* The leaf every context remembers is the last vertex of its path: the    *)
(* walk of predict never follows the whole context, because the tree is    *)
(* never deeper than the current context, and less deep than the bound.    *)
THEOREM LeafAlwaysEndsPath == Spec => []LeafEndsPath
<1>1. IInv => LeafEndsPath
  <2> SUFFICES ASSUME IInv, NEW i \in DOMAIN pool.active
               PROVE  contexts[pool.active[i]].leaf =
                        Last(contexts[pool.active[i]].path)
    BY DEF LeafEndsPath
  <2>1. pool.active[i] \in ToSet(pool.active)
    BY DEF ToSet
  <2>2. PICK d : Fits(tree, d, token_number, Len(prediction_context), contexts,
                      ToSet(pool.active))
    BY DEF IInv, HeldInv, Sound, Now
  <2>3. GoodContext(contexts[pool.active[i]], token_number, Len(tree), d,
                    Len(prediction_context))
    BY <2>1, <2>2 DEF Fits
  <2> QED
    BY <2>3 DEF GoodContext, Last
<1> QED
  BY <1>1, IInvAlways, PTL

(* The weights along the path of the context just made or renewed are      *)
(* those of words that start_predict made room for.                        *)
LEMMA LookupsAfterNext ==
  ASSUME IInv, [Next]_vars, TypeOK', pool' # pool, prediction_id' \in ToSet(pool'.active),
         NEW v \in ToSet(contexts'[prediction_id'].path) \ {Root}
  PROVE  DOMAIN weights'[v] \subseteq 0 .. Len(root_weights) - 1
<1>1. IInv' /\ TypeOK'
  BY NextIInv
<1>2. \/ Len(words') = Len(words)
      \/ contexts'[prediction_id'].path = <<Root>>
  <2>1. ASSUME NEW kept, DoPredict(kept)
        PROVE  \/ Len(words') = Len(words)
               \/ contexts'[prediction_id'].path = <<Root>>
    BY <2>1, InterfaceInv
  <2>2. ASSUME NEW id, PredictionResult(id)
        PROVE  Len(words') = Len(words)
    BY <2>2 DEF PredictionResult
  <2> QED
    BY <2>1, <2>2 DEF Next, Interface, PutC, Backspace, GetPrediction,
                      WriteSummary, treeVars, vars
<1>3. Len(words') = Len(words)
  <2>1. ToSet(<<Root>>) = {Root}
    BY DEF ToSet
  <2> QED
    BY <1>2, <2>1
<1>4. DOMAIN weights'[v] \subseteq 0 .. Len(words') - 1
  <2>1. v \in Vertices' /\ v # Root
    <3>1. contexts'[prediction_id'] \in
            [path : Seq(Vertices'), leaf : Vertices',
             additions : Seq(0 .. token_number' - 1)]
      BY <1>1 DEF TypeOK
    <3> DEFINE path == contexts'[prediction_id'].path
               V == Vertices'
    <3>2. path \in Seq(V) /\ v \in ToSet(path)
      BY <3>1
    <3> HIDE DEF path, V
    <3>3. v \in V
      BY <3>2 DEF ToSet
    <3> QED
      BY <3>3 DEF V
  <2>2. v \in DOMAIN weights'
    <3>1. Len(weights') = Len(tree') - 1 /\ Len(tree') \in Nat
      BY <1>1, LenProperties DEF TypeOK, IInv, HeldInv, Sound, Now, IsTree
    <3>2. DOMAIN weights' = 1 .. Len(weights')
      BY <1>1 DEF IInv, HeldInv, Sound, Now, WeightsFit
    <3> QED
      BY <2>1, <3>1, <3>2 DEF Vertices, Root
  <2> QED
    BY <1>1, <2>2 DEF TypeOK
<1>5. Len(root_weights) = Len(words)
  BY DEF IInv, CountsInv, RootFits
<1> QED
  BY <1>3, <1>4, <1>5

(* push_predict never adds a weight to a word that the data of the         *)
(* prediction, sized by start_predict before the word just met has a       *)
(* weight at the root, has no room for.                                    *)
THEOREM LookupsAlwaysInRange == Spec => LookupsInRange
<1>1. IInv /\ [Next]_vars /\ TypeOK' =>
        [pool' # pool /\ prediction_id' \in ToSet(pool'.active) =>
           \A v \in ToSet(contexts'[prediction_id'].path) \ {Root} :
             DOMAIN weights'[v] \subseteq 0 .. Len(root_weights) - 1]_vars
  BY LookupsAfterNext
<1> QED
  BY <1>1, IInvAlways, TypesAlwaysOK, PTL DEF Spec, LookupsInRange

(***************************************************************************)
(* The tree is a trie: for callers that give the model no id of a context  *)
(* but the one it handed out last.  A context that is older may have had   *)
(* its next token added below its leaf for another, and reinforce and      *)
(* regret do not look.                                                     *)
(***************************************************************************)

(* The leaf of the context has no child for the first token to be added. *)
FreshFor(t, con) == ChildOf(t, con.leaf, con.additions[1]) = NoVertex

TrieInv ==
  /\ IsTrie(tree, Len(tree))
  /\ prediction_id \in ToSet(pool.active) =>
       FreshFor(tree, contexts[prediction_id])

(* descend finds no child for a token no vertex has. *)
LEMMA NoChildFor ==
  ASSUME NEW k \in Nat, NEW t, IsTree(t, k), NEW v \in 0 .. Len(t) - 1,
         NEW tok, tok \notin 0 .. k - 1
  PROVE  ChildOf(t, v, tok) = NoVertex
<1>1. /\ t[v + 1].edges \in Seq(0 .. Len(t) - 1)
      /\ t[v + 1].subtree \in PartialMaps(0 .. k - 1, 0 .. Len(t) - 1)
  BY NodeFacts
<1>2. CASE HasSubtree(t, v)
  <2>1. DOMAIN t[v + 1].subtree \subseteq 0 .. k - 1
    BY <1>1, PartialMap
  <2> QED
    BY <1>2, <2>1, ChildInMap
<1>3. CASE ~HasSubtree(t, v)
  <2>1. Hits(t, v, tok) = {}
    <3>1. ASSUME NEW i \in DOMAIN t[v + 1].edges
          PROVE  t[t[v + 1].edges[i] + 1].token \in 0 .. k - 1
      <4> DEFINE V == 0 .. Len(t) - 1
                 edges == t[v + 1].edges
      <4>1. edges \in Seq(V) /\ i \in DOMAIN edges
        BY <1>1
      <4> HIDE DEF V, edges
      <4>2. edges[i] \in V
        BY <4>1
      <4>3. t[v + 1].edges[i] \in 0 .. Len(t) - 1
        BY <4>2 DEF V, edges
      <4> QED
        BY <4>3, NodeFacts
    <3> QED
      BY <3>1 DEF Hits
  <2> QED
    BY <1>3, <2>1, ChildByEdge
<1> QED
  BY <1>2, <1>3

(* What reinforce and regret leave is a trie, and the id is a context's no *)
(* longer.                                                                 *)
LEMMA LearnedTrie ==
  ASSUME NEW k \in Nat, NEW longest \in Nat, NEW m \in Nat,
         Sound(Now, contexts, k, longest, m), IsTrie(tree, Len(tree)),
         NEW id \in GoodIds, NEW w, NEW delta, NEW kept,
         id \in ToSet(pool.active) => FreshFor(tree, contexts[id])
  PROVE  LET s == Learned(id, w, delta, kept)
         IN /\ IsTrie(s.tree, Len(s.tree))
            /\ id \notin ToSet(s.pool.active)
<1> DEFINE s == Learned(id, w, delta, kept)
           con == contexts[id]
           toks == Added(con, Bound)
<1>n. PICK n : n \in Nat /\ n > 0 /\ n = Len(tree)
  BY DEF Sound, Now, IsTree
<1>1. IsTree(tree, k) /\ IsPartition(pool)
  BY DEF Sound, Now
<1>2. PICK d : Fits(tree, d, k, longest, contexts, ToSet(pool.active))
  BY DEF Sound, Now
<1>3. CASE ValidId(pool, id)
  <2>1. id \in ToSet(pool.active)
    BY <1>1, <1>3, ValidIdIsActive DEF GoodIds
  <2>2. /\ s.tree = WithChain(tree, con.leaf, toks, kept)
        /\ s.pool = Deactivated(pool, id)
    BY <1>3 DEF Learned
  <2>3. id \notin ToSet(s.pool.active)
    BY <1>1, <2>1, <2>2, DeactivatedActive
  <2>4. GoodContext(con, k, n, d, longest) /\ Shallow(d, n, longest)
    BY <1>n, <1>2, <2>1 DEF Fits
  <2>5. /\ toks \in Seq(1 .. k - 1)
        /\ con.leaf \in 0 .. n - 1
        /\ toks # << >> => toks[1] = con.additions[1]
    BY <1>n, <2>4, AddedFacts
  <2>6. FreshFor(tree, con)
    BY <2>1
  <2> DEFINE K == 0 .. k - 1
             A == 1 .. k - 1
  <2>7. toks \in Seq(K)
    <3>1. A \subseteq K /\ toks \in Seq(A)
      BY <2>5
    <3> HIDE DEF A, K, toks
    <3> QED
      BY <3>1
  <2> HIDE DEF toks, con
  <2>8. IsTrie(s.tree, Len(s.tree))
    <3>1. CASE toks = << >>
      <4>1. s.tree = tree
        BY <2>2, <3>1 DEF WithChain
      <4> QED
        BY <4>1
    <3>2. CASE toks # << >>
      <4> DEFINE t2 == WithChain(tree, con.leaf, toks, kept)
      <4>1. Grafted(t2, tree, n, con.leaf, toks, kept)
        BY <1>n, <1>1, <2>5, <2>7, <3>2, ChainGrafted
      <4>2. ChildOf(tree, con.leaf, toks[1]) = NoVertex
        BY <2>5, <2>6, <3>2 DEF FreshFor
      <4> HIDE DEF t2
      <4>3. IsTrie(t2, n + Len(toks))
        BY <1>n, <1>1, <2>5, <2>7, <3>2, <4>1, <4>2, ChainTrie
      <4>4. Len(t2) = n + Len(toks)
        BY <4>1 DEF Grafted
      <4> QED
        BY <2>2, <4>3, <4>4 DEF t2
    <3> QED
      BY <3>1, <3>2
  <2> QED
    BY <2>3, <2>8
<1>4. CASE ~ValidId(pool, id)
  <2>1. s.tree = tree /\ s.pool = pool
    BY <1>4 DEF Learned
  <2>2. id \notin ToSet(pool.active)
    <3>1. id \in Nat
      BY DEF GoodIds
    <3>2. id \in ContextIds => id \notin ToSet(pool.active)
      <4>1. id \in ContextIds => id <= MaxContexts
        BY <3>1, MaxContextsAssumption DEF ContextIds
      <4> QED
        BY <1>1, <1>4, <4>1, PartitionFacts DEF ValidId
    <3>3. ToSet(pool.active) \subseteq ContextIds
      BY <1>1, PartitionFacts
    <3> QED
      BY <3>2, <3>3
  <2> QED
    BY <2>1, <2>2
<1> QED
  BY <1>3, <1>4

(* The new context is fresh: its walk stopped where there was no child for *)
(* the next token, or at a word whose token no vertex has yet.             *)
LEMMA NewContextFresh ==
  ASSUME NEW n \in Nat, n >= 2, NEW m \in Nat, n <= m,
         NEW t, IsTree(t, n - 1), NEW dm, dm = TokensUpto(n), NEW next,
         NEW frag \in Seq(2 .. m - 1),
         DataMapAfter(t, dm, next, frag) = TokensUpto(m),
         Matched(t, dm, frag) < Len(frag)
  PROVE  FreshFor(t, ContextOf(t, dm, next, frag))
<1> DEFINE con == ContextOf(t, dm, next, frag)
           D == 2 .. m - 1
<1>1. n - 1 \in Nat /\ frag \in Seq(D)
  OBVIOUS
<1> HIDE DEF D
<1>h. PICK h : h \in Nat /\ h = Len(t)
  BY LenProperties DEF IsTree
<1>k. PICK k : k \in Nat /\ k = n - 1 /\ IsTree(t, k)
  BY <1>1
<1>2. PICK w \in D : StopsBefore(con, t, dm, TokensUpto(m), w)
  BY <1>1, <1>k, ContextStops
<1> HIDE DEF con
<1>3. /\ con.leaf \in 0 .. h - 1
      /\ con.additions[1] = TokensUpto(m)[w]
      /\ w \in DOMAIN dm => ChildOf(t, con.leaf, dm[w]) = NoVertex
  BY <1>2, <1>h DEF StopsBefore
<1>4. w \in 2 .. m - 1
  BY DEF D
<1>5. con.additions[1] = w - 1
  BY <1>3, <1>4 DEF TokensUpto
<1>7. CASE w \in 2 .. n - 1
  <2>1. w \in DOMAIN dm /\ dm[w] = w - 1
    BY <1>7 DEF TokensUpto
  <2>2. ChildOf(t, con.leaf, w - 1) = NoVertex
    BY <1>3, <2>1
  <2> QED
    BY <1>5, <2>2 DEF FreshFor, con
<1>8. CASE w \notin 2 .. n - 1
  <2>1. w - 1 \notin 0 .. (n - 1) - 1
    BY <1>4, <1>8
  <2>2. ChildOf(t, con.leaf, w - 1) = NoVertex
    BY <1>k, <1>3, <1>h, <2>1, NoChildFor
  <2> QED
    BY <1>5, <2>2 DEF FreshFor, con
<1> QED
  BY <1>7, <1>8

(* do_predict leaves a trie and a fresh context. *)
LEMMA InterfaceTrie ==
  ASSUME IInv, TrieInv, NEW kept, DoPredict(kept)
  PROVE  TrieInv'
<1> DEFINE s == Corrected(kept)
           con == ContextOf(s.tree, data_map, token_number, NewContext)
<1>1. /\ current_string # << >>
      /\ tree' = s.tree
      /\ prediction_id' = NextId(s.pool)
      /\ contexts' = [id \in {NextId(s.pool)} \cup
                             (DOMAIN contexts \cap ToSet(pool'.active)) |->
                        IF id = NextId(s.pool) THEN con ELSE contexts[id]]
  BY DoPredictSteps
<1>n. PICK n : n \in Nat /\ n = Len(words)
  BY LenProperties DEF IInv, WordsInv
<1>m. PICK m : m = IF Known THEN n ELSE n + 1
  OBVIOUS
<1>l. PICK l : l \in Nat /\ l = Len(prediction_context) /\ l <= Bound
  BY LenProperties DEF IInv, RecentInv
<1>2. /\ m \in Nat /\ n >= 2 /\ n <= m
      /\ WordIndex \in 2 .. m - 1
      /\ Sound(s, contexts, n - 1, l, m)
  <2>1. /\ m \in Nat /\ n >= 2 /\ n <= m
        /\ WordIndex \in 2 .. m - 1
        /\ Sound(s, contexts, n - 1, Len(prediction_context), m)
    BY <1>1, <1>n, <1>m, CorrectedSound
  <2> QED
    BY <1>l, <2>1
<1>3. IsTrie(s.tree, Len(s.tree))
  <2>1. CASE prediction # WordIndex
    <3>1. s = Learned(prediction_id, WordIndex, -1, kept)
      BY <2>1 DEF Corrected
    <3>2. n - 1 \in Nat /\ Sound(Now, contexts, n - 1, l, n)
      BY <1>n, <1>l, <1>2 DEF IInv, HeldInv, TokensInv
    <3> HIDE DEF s
    <3>3. /\ prediction_id \in GoodIds
          /\ IsTrie(tree, Len(tree))
          /\ prediction_id \in ToSet(pool.active) =>
               FreshFor(tree, contexts[prediction_id])
      BY DEF IInv, HeldInv, TrieInv
    <3> QED
      BY <1>n, <1>l, <3>1, <3>2, <3>3, LearnedTrie
  <2>2. CASE prediction = WordIndex
    BY <2>2 DEF Corrected, Now, TrieInv
  <2> QED
    BY <2>1, <2>2
<1> HIDE DEF s
<1>4. IsTree(s.tree, n - 1)
  BY <1>2 DEF Sound
<1>5. /\ DataMapAfter(s.tree, data_map, token_number, NewContext) = TokensUpto(m)
      /\ \A i \in 1 .. Len(NewContext) :
           DataMapAfter(s.tree, data_map, token_number, NewContext)
             [Recent(NewContext, i)] \in 1 .. (m - 1) - 1
  BY <1>1, <1>n, <1>m, <1>2, <1>4, NewTokens
<1>6. /\ NewContext \in Seq(2 .. m - 1)
      /\ Len(NewContext) = l + 1 \/ Len(NewContext) = Bound
  BY <1>n, <1>l, <1>2, NewContextFacts
<1>7. Matched(s.tree, data_map, NewContext) < Len(NewContext)
  <2>1. PICK d : /\ Depths(s.tree, d)
                 /\ Shallow(d, Len(s.tree), l)
    BY <1>2 DEF Sound, Fits
  <2>2. PICK k : k \in Nat /\ k = n - 1 /\ IsTree(s.tree, k)
    BY <1>2, <1>n, <1>4
  <2>3. PICK h : h \in Nat /\ h = Len(s.tree)
    BY <1>4, LenProperties DEF IsTree
  <2>4. PICK k2 : k2 \in Nat /\ k2 = m - 1
    BY <1>2
  <2>5. Shallow(d, h, l)
    BY <2>1, <2>3
  <2> QED
    BY <1>5, <1>6, <1>l, <2>1, <2>2, <2>3, <2>4, <2>5, NewContextGood
<1>8. FreshFor(s.tree, con)
  <2>1. data_map = TokensUpto(n)
    BY <1>n DEF IInv, TokensInv
  <2> QED
    BY <1>n, <1>2, <1>4, <1>5, <1>6, <1>7, <2>1, NewContextFresh
<1>9. contexts'[prediction_id'] = con
  BY <1>1
<1> QED
  BY <1>1, <1>3, <1>8, <1>9 DEF TrieInv

(* Every step leaves a trie, if the caller's ids are no contexts'.         *)
LEMMA NextTrieInv ==
  ASSUME CallerIds \cap ContextIds = {}, IInv, TrieInv, [Next]_vars
  PROVE  TrieInv'
<1>n. PICK n : n \in Nat /\ n = Len(words) /\ n >= 2
  BY LenProperties DEF IInv, WordsInv
<1>l. PICK l : l \in Nat /\ l = Len(prediction_context)
  BY LenProperties DEF IInv, RecentInv
<1>k. PICK k : k \in Nat /\ k = n - 1
  BY <1>n
<1>s. Sound(Now, contexts, k, l, n)
  BY <1>n, <1>l, <1>k DEF IInv, HeldInv, TokensInv
<1>p. IsPartition(pool) /\ IsTree(tree, k)
  BY <1>s DEF Sound, Now
<1>c. \A id \in CallerIds : id \in GoodIds /\ id \notin ToSet(pool.active)
  <2>1. ToSet(pool.active) \subseteq ContextIds
    BY <1>p, PartitionFacts
  <2> QED
    BY <2>1, CallerAssumption, NoIdPastTheEnd DEF GoodIds
<1>i. prediction_id \in GoodIds
  BY DEF IInv, HeldInv
<1>1. ASSUME UNCHANGED <<tree, pool, contexts, prediction_id>>
      PROVE  TrieInv'
  BY <1>1 DEF TrieInv
<1>2. ASSUME NEW kept, DoPredict(kept)
      PROVE  TrieInv'
  BY <1>2, InterfaceTrie
<1>3. ASSUME NEW id \in CallerIds \cup {prediction_id}, PredictionResult(id)
      PROVE  TrieInv'
  <2> PICK kept : kept \in KeptEdges(id)
        /\ tree' = Learned(id, prediction, 1, kept).tree
        /\ pool' = Learned(id, prediction, 1, kept).pool
    BY <1>3, Zenon DEF PredictionResult
  <2>1. /\ contexts' = Remembered(pool')
        /\ prediction_id' = prediction_id
    BY <1>3 DEF PredictionResult
  <2>2. id \in GoodIds /\ (id # prediction_id => id \notin ToSet(pool.active))
    BY <1>c, <1>i
  <2>3. id \in ToSet(pool.active) => FreshFor(tree, contexts[id])
    BY <2>2 DEF TrieInv
  <2>4. /\ IsTrie(Learned(id, prediction, 1, kept).tree,
                  Len(Learned(id, prediction, 1, kept).tree))
        /\ id \notin ToSet(Learned(id, prediction, 1, kept).pool.active)
    BY <1>n, <1>l, <1>k, <1>s, <2>2, <2>3, LearnedTrie DEF TrieInv
  <2>5. CASE id = prediction_id
    BY <2>1, <2>4, <2>5 DEF TrieInv
  <2>6. CASE id # prediction_id
    <3>1. id \notin ToSet(pool.active)
      BY <2>2, <2>6
    <3>2. ~ValidId(pool, id)
      BY <1>p, <2>2, <3>1, ValidIdIsActive DEF GoodIds
    <3>3. tree' = tree /\ pool' = pool
      BY <3>2 DEF Learned
    <3>4. contexts' = [c \in DOMAIN contexts \cap ToSet(pool.active) |-> contexts[c]]
      BY <2>1, <3>3 DEF Remembered
    <3>5. DOMAIN contexts = ToSet(pool.active)
      BY DEF IInv, HeldInv
    <3>6. prediction_id \in ToSet(pool.active) =>
            contexts'[prediction_id] = contexts[prediction_id]
      BY <3>4, <3>5
    <3> QED
      BY <2>1, <3>3, <3>6 DEF TrieInv
  <2> QED
    BY <2>5, <2>6
<1>4. ASSUME NEW id \in CallerIds, GetPrediction(id)
      PROVE  TrieInv'
  <2>1. tree' = tree /\ pool' = pool /\ prediction_id' = id
    BY <1>4 DEF GetPrediction, treeVars
  <2> QED
    BY <1>c, <2>1 DEF TrieInv
<1>5. ASSUME WriteSummary
      PROVE  TrieInv'
  <2>1. /\ tree' = AfterWriteGraph(tree) /\ pool' = pool
        /\ contexts' = contexts /\ prediction_id' = prediction_id
    BY <1>5 DEF WriteSummary, modelVars
  <2>2. Printed(tree', tree, Len(tree))
    BY <1>k, <1>p, <2>1, WriteGraphPrints
  <2>3. PICK h : h \in Nat /\ h = Len(tree)
    BY <1>p, LenProperties DEF IsTree
  <2>4. IsTrie(tree', Len(tree'))
    <3>1. IsTrie(tree', h)
      BY <2>2, <2>3, PrintedTrie DEF TrieInv
    <3> QED
      BY <2>2, <2>3, <3>1 DEF Printed
  <2>5. ASSUME prediction_id \in ToSet(pool.active)
        PROVE  FreshFor(tree', contexts[prediction_id])
    <3>1. PICK d : Fits(tree, d, k, l, contexts, ToSet(pool.active))
      BY <1>s DEF Sound, Now
    <3>2. GoodContext(contexts[prediction_id], k, h, d, l) /\ Shallow(d, h, l)
      BY <2>3, <2>5, <3>1 DEF Fits
    <3>3. contexts[prediction_id].leaf \in 0 .. h - 1
      BY <1>k, <1>l, <2>3, <3>2, AddedFacts
    <3>4. FreshFor(tree, contexts[prediction_id])
      BY <2>5 DEF TrieInv
    <3> QED
      BY <2>2, <2>3, <3>3, <3>4 DEF FreshFor, Printed
  <2> QED
    BY <2>1, <2>4, <2>5 DEF TrieInv
<1> QED
  BY <1>1, <1>2, <1>3, <1>4, <1>5
     DEF Next, Interface, PutC, Backspace, treeVars, modelVars, vars

(* For callers that name no context but the one handed out last: however   *)
(* its vertices' children move from edges to a btree_map, whichever edges  *)
(* the split leaves behind and whatever is printed, the tree is a trie.    *)
THEOREM TreeAlwaysTrie ==
  ASSUME CallerIds \cap ContextIds = {}
  PROVE  Spec => []TreeIsTrie
<1>1. Init => TrieInv
  <2> SUFFICES ASSUME Init
               PROVE  TrieInv
    OBVIOUS
  <2>1. Len(tree) = 1 /\ pool.active = << >>
    BY DEF Init, TreeInit, InitialPool
  <2>2. ToSet(pool.active) = {}
    BY <2>1 DEF ToSet
  <2> QED
    BY <2>1, <2>2 DEF TrieInv, IsTrie
<1>2. IInv /\ TrieInv /\ [Next]_vars => TrieInv'
  BY NextTrieInv
<1>3. IInv /\ TrieInv => TreeIsTrie
  <2> SUFFICES ASSUME IInv, TrieInv
               PROVE  TreeIsTrie
    OBVIOUS
  <2>1. PICK h : h \in Nat /\ h = Len(tree) /\ h > 0
    BY LenProperties DEF IInv, HeldInv, Sound, Now, IsTree
  <2>2. \A v \in 1 .. h - 1 : \E p \in 0 .. v - 1 : HasParent(tree, h, v, p)
    BY <2>1 DEF TrieInv, IsTrie
  <2>3. Vertices = 0 .. h - 1 /\ Vertices \ {Root} = 1 .. h - 1
    BY <2>1 DEF Vertices, Root
  <2> QED
    BY <2>2, <2>3 DEF TreeIsTrie, HasParent
<1> QED
  BY <1>1, <1>2, <1>3, IInvAlways, PTL DEF Spec

(***************************************************************************)
(* The tree, the pool and the weights implement the table of losses of     *)
(* ContextLoss.  Spells gives every vertex the words on the way to it,     *)
(* Tabled says that a table holds the weights of the vertices at the words *)
(* they spell, and Follows that a context of the pool is made of the last  *)
(* words.  Told is kept by the chain that reinforce and regret graft       *)
(* (LearnedTold) and by write_graph (PrintedTold), and is true of one      *)
(* table only (TableUnique), the one that the history variable records.    *)
(* LossInv is the invariant that holds them together.                      *)
(***************************************************************************)

(***************************************************************************)
(* The table of losses.  Every vertex spells a context, the words whose    *)
(* tokens lie on the way to it; the weights of the vertices are the losses *)
(* of the words after the contexts they spell.                             *)
(***************************************************************************)

(* s gives each of the n vertices what its parent has and a word more.     *)
Spells(t, n, s) ==
  /\ s \in [0 .. n - 1 -> Seq(Nat)]
  /\ s[Root] = << >>
  /\ \A v \in 1 .. n - 1 : \A u \in 0 .. n - 1 :
       v \in Children(t, u) => s[v] = Append(s[u], t[v + 1].token + 1)

(* Every vertex but the root hangs below one before it. *)
LEMMA TrieParent ==
  ASSUME NEW k \in Nat, NEW t, IsTree(t, k), NEW n \in Nat, n = Len(t), IsTrie(t, n),
         NEW v \in 1 .. n - 1
  PROVE  \E p \in 0 .. v - 1 :
           /\ p \in 0 .. n - 1 /\ v \in Children(t, p)
           /\ ChildOf(t, p, t[v + 1].token) = v
           /\ \A u \in 0 .. n - 1 : v \in Children(t, u) => u = p
<1>1. PICK p \in 0 .. v - 1 : HasParent(t, n, v, p)
  BY DEF IsTrie
<1>2. p \in 0 .. n - 1
  OBVIOUS
<1>3. ChildOf(t, p, t[v + 1].token) = v
  BY <1>1 DEF HasParent
<1>4. v \in Children(t, p)
  <2>1. ChildOf(t, p, t[v + 1].token) \in Children(t, p) \cup {NoVertex}
    BY <1>2, ChildOfFacts
  <2> QED
    BY <1>3, <2>1 DEF NoVertex
<1>5. \A u \in 0 .. n - 1 : v \in Children(t, u) => u = p
  BY <1>1 DEF HasParent
<1> QED
  BY <1>2, <1>3, <1>4, <1>5

(* There is one way to spell. *)
LEMMA SpellingsAgree ==
  ASSUME NEW k \in Nat, NEW t, IsTree(t, k), NEW n \in Nat, n = Len(t), IsTrie(t, n),
         NEW s, Spells(t, n, s), NEW r, Spells(t, n, r)
  PROVE  s = r
<1> DEFINE T == {v \in 0 .. n - 1 : \A u \in 0 .. v : s[u] = r[u]}
<1>1. n > 0
  BY DEF IsTree
<1>2. 0 \in T
  <2>1. \A u \in 0 .. 0 : u = Root
    BY DEF Root
  <2> QED
    BY <1>1, <2>1 DEF Spells
<1>3. ASSUME NEW v \in 0 .. (n - 1) - 1, v \in T
      PROVE  v + 1 \in T
  <2>1. PICK w : w = v + 1 /\ w \in 1 .. n - 1
    OBVIOUS
  <2>2. PICK p \in 0 .. w - 1 : p \in 0 .. n - 1 /\ w \in Children(t, p)
    BY <2>1, TrieParent
  <2>3. s[p] = r[p]
    <3>1. p \in 0 .. v
      BY <2>1, <2>2
    <3> QED
      BY <1>3, <3>1
  <2>4. s[w] = r[w]
    <3>1. s[w] = Append(s[p], t[w + 1].token + 1)
      BY <2>1, <2>2 DEF Spells
    <3>2. r[w] = Append(r[p], t[w + 1].token + 1)
      BY <2>1, <2>2 DEF Spells
    <3> QED
      BY <2>3, <3>1, <3>2
  <2>5. \A u \in 0 .. w : u \in 0 .. v \/ u = w
    BY <2>1
  <2> QED
    BY <1>3, <2>1, <2>4, <2>5
<1>4. Climbs(T, 0, n - 1)
  <2> HIDE DEF T
  <2> QED
    BY <1>2, <1>3 DEF Climbs
<1>5. \A v \in 0 .. n - 1 : v \in T
  <2> HIDE DEF T
  <2> QED
    BY <1>4, IntervalInduction
<1>6. \A v \in 0 .. n - 1 : s[v] = r[v]
  BY <1>5
<1> QED
  BY <1>6 DEF Spells

(* Vertex v, if it spells a and the word w, hangs below one that spells a. *)
HangsBelow(t, n, s, v, a, w) ==
  s[v] = Append(a, w) =>
    \E p \in 0 .. n - 1 :
      /\ s[p] = a /\ t[v + 1].token + 1 = w /\ t[v + 1].token \in Nat
      /\ ChildOf(t, p, t[v + 1].token) = v

(* A vertex that spells a word after a is the child, under the word's      *)
(* token, of a vertex that spells a.                                       *)
LEMMA SpelledBelow ==
  ASSUME NEW k \in Nat, NEW t, IsTree(t, k), NEW n \in Nat, n = Len(t), IsTrie(t, n),
         NEW s, Spells(t, n, s)
  PROVE  \A v \in 0 .. n - 1 : \A a \in Seq(Nat) : \A w \in Nat :
           HangsBelow(t, n, s, v, a, w)
<1> SUFFICES ASSUME NEW v \in 0 .. n - 1, NEW a \in Seq(Nat), NEW w \in Nat
             PROVE  HangsBelow(t, n, s, v, a, w)
  OBVIOUS
<1> SUFFICES ASSUME s[v] = Append(a, w)
             PROVE  \E p \in 0 .. n - 1 :
                      /\ s[p] = a /\ t[v + 1].token + 1 = w
                      /\ t[v + 1].token \in Nat
                      /\ ChildOf(t, p, t[v + 1].token) = v
  BY DEF HangsBelow
<1>1. v # 0
  <2>1. SUFFICES ASSUME v = Root
                 PROVE  FALSE
    BY DEF Root
  <2>2. Append(a, w) = << >>
    BY <2>1 DEF Spells
  <2>3. Len(Append(a, w)) = Len(a) + 1 /\ Len(a) \in Nat
    BY AppendProperties, LenProperties
  <2> QED
    BY <2>2, <2>3
<1>2. PICK p \in 0 .. n - 1 : /\ v \in Children(t, p)
                              /\ ChildOf(t, p, t[v + 1].token) = v
  <2>1. v \in 1 .. n - 1
    BY <1>1
  <2>2. \E p \in 0 .. v - 1 : /\ p \in 0 .. n - 1 /\ v \in Children(t, p)
                             /\ ChildOf(t, p, t[v + 1].token) = v
    BY <2>1, TrieParent
  <2> QED
    BY <2>2
<1>3. PICK b \in Seq(Nat) : b = s[p]
  BY DEF Spells
<1>4. t[v + 1].token \in Nat
  <2>1. v \in 0 .. Len(t) - 1
    OBVIOUS
  <2>2. t[v + 1].token \in 0 .. k - 1
    BY <2>1, NodeFacts
  <2> QED
    BY <2>2
<1>5. Append(b, t[v + 1].token + 1) = Append(a, w)
  <2>1. v \in 1 .. n - 1
    BY <1>1
  <2>2. s[v] = Append(s[p], t[v + 1].token + 1)
    BY <1>2, <2>1 DEF Spells
  <2> QED
    BY <1>3, <2>2
<1>6. b = a /\ t[v + 1].token + 1 = w
  <2>1. PICK y \in Nat : y = t[v + 1].token + 1
    BY <1>4
  <2>2. Append(b, y) = Append(a, w)
    BY <1>5, <2>1
  <2>3. b = a /\ y = w
    BY <2>2, AppendInjective
  <2> QED
    BY <2>1, <2>3
<1> QED
  BY <1>2, <1>3, <1>4, <1>6

(* No two vertices spell the same context. *)
LEMMA SpellingInjective ==
  ASSUME NEW k \in Nat, NEW t, IsTree(t, k), NEW n \in Nat, n = Len(t), IsTrie(t, n),
         NEW s, Spells(t, n, s)
  PROVE  \A v \in 0 .. n - 1 : \A u \in 0 .. n - 1 : s[u] = s[v] => u = v
<1> DEFINE Alone(v) == \A u \in 0 .. n - 1 : s[u] = s[v] => u = v
           T == {v \in 0 .. n - 1 : \A x \in 0 .. v : Alone(x)}
<1>b. \A v \in 0 .. n - 1 : \A a \in Seq(Nat) : \A w \in Nat :
        HangsBelow(t, n, s, v, a, w)
  BY SpelledBelow
<1>1. n > 0
  BY DEF IsTree
<1>2. \A v \in 0 .. n - 1 : s[v] \in Seq(Nat)
  BY DEF Spells
<1>3. ASSUME NEW v \in 1 .. n - 1
      PROVE  \E p \in 0 .. v - 1 : \E w \in Nat :
               /\ p \in 0 .. n - 1 /\ s[v] = Append(s[p], w)
               /\ w = t[v + 1].token + 1 /\ ChildOf(t, p, t[v + 1].token) = v
  <2>1. PICK p \in 0 .. v - 1 : /\ p \in 0 .. n - 1 /\ v \in Children(t, p)
                                /\ ChildOf(t, p, t[v + 1].token) = v
    BY TrieParent
  <2>2. t[v + 1].token + 1 \in Nat
    <3>1. v \in 0 .. Len(t) - 1
      OBVIOUS
    <3>2. t[v + 1].token \in 0 .. k - 1
      BY <3>1, NodeFacts
    <3> QED
      BY <3>2
  <2>3. s[v] = Append(s[p], t[v + 1].token + 1)
    BY <2>1 DEF Spells
  <2> QED
    BY <2>1, <2>2, <2>3
<1>4. Alone(0)
  <2>1. SUFFICES ASSUME NEW u \in 1 .. n - 1
                 PROVE  s[u] # s[0]
    OBVIOUS
  <2>2. PICK p \in 0 .. n - 1, w \in Nat : s[u] = Append(s[p], w)
    BY <1>3
  <2>3. s[p] \in Seq(Nat)
    BY <1>2
  <2>4. Append(s[p], w) # << >>
    BY <2>3, AppendProperties
  <2>5. s[0] = << >>
    BY DEF Spells, Root
  <2> QED
    BY <2>2, <2>4, <2>5
<1>5. ASSUME NEW v \in 0 .. (n - 1) - 1, v \in T
      PROVE  v + 1 \in T
  <2>1. PICK x : x = v + 1 /\ x \in 1 .. n - 1
    OBVIOUS
  <2>2. PICK p \in 0 .. x - 1, w \in Nat :
          /\ p \in 0 .. n - 1 /\ s[x] = Append(s[p], w)
          /\ w = t[x + 1].token + 1 /\ ChildOf(t, p, t[x + 1].token) = x
    BY <1>3, <2>1, Zenon
  <2>3. Alone(p)
    <3>1. p \in 0 .. v
      BY <2>1
    <3> QED
      BY <1>5, <3>1
  <2>4. ASSUME NEW u \in 0 .. n - 1, s[u] = s[x]
        PROVE  u = x
    <3>1. PICK a \in Seq(Nat) : a = s[p] /\ s[u] = Append(a, w)
      BY <1>2, <2>2, <2>4
    <3>2. PICK q \in 0 .. n - 1 :
            /\ s[q] = s[p] /\ t[u + 1].token + 1 = w /\ t[u + 1].token \in Nat
            /\ ChildOf(t, q, t[u + 1].token) = u
      <4>1. \E q \in 0 .. n - 1 :
              /\ s[q] = a /\ t[u + 1].token + 1 = w /\ t[u + 1].token \in Nat
              /\ ChildOf(t, q, t[u + 1].token) = u
        <5>1. HangsBelow(t, n, s, u, a, w)
          BY <1>b
        <5> QED
          BY <3>1, <5>1 DEF HangsBelow
      <4> QED
        BY <3>1, <4>1
    <3>3. q = p
      BY <2>3, <3>2
    <3>4. t[x + 1].token \in Nat
      <4>1. x \in 0 .. Len(t) - 1
        BY <2>1
      <4>2. t[x + 1].token \in 0 .. k - 1
        BY <4>1, NodeFacts
      <4> QED
        BY <4>2
    <3>5. t[u + 1].token = t[x + 1].token
      <4>1. PICK i \in Nat, j \in Nat : i = t[u + 1].token /\ j = t[x + 1].token
        BY <3>2, <3>4
      <4>2. i + 1 = w /\ j + 1 = w
        BY <2>2, <3>2, <4>1
      <4>3. i = j
        BY <4>2
      <4> QED
        BY <4>1, <4>3, Zenon
    <3>6. PICK y : y = t[x + 1].token /\ y = t[u + 1].token
      BY <3>5
    <3>7. ChildOf(t, q, y) = u /\ ChildOf(t, p, y) = x
      BY <2>2, <3>2, <3>6
    <3> QED
      BY <3>3, <3>7
  <2>5. Alone(x)
    BY <2>4
  <2>6. \A y \in 0 .. x : y \in 0 .. v \/ y = x
    BY <2>1
  <2>7. x \in 0 .. n - 1
    BY <2>1
  <2> QED
    BY <1>5, <2>1, <2>5, <2>6, <2>7
<1>6. 0 \in T
  <2>1. \A x \in 0 .. 0 : x = 0
    OBVIOUS
  <2> QED
    BY <1>1, <1>4, <2>1
<1>7. Climbs(T, 0, n - 1)
  <2> HIDE DEF T
  <2> QED
    BY <1>5, <1>6 DEF Climbs
<1>8. \A v \in 0 .. n - 1 : v \in T
  <2> HIDE DEF T
  <2> QED
    BY <1>7, IntervalInduction
<1>9. \A v \in 0 .. n - 1 : Alone(v)
  BY <1>8
<1> QED
  BY <1>9

(* A vertex found under a token has that token.  The edges are searched    *)
(* for it; the btree_map is filled with it.                                *)
Tagged(t, n) ==
  \A u \in 0 .. n - 1 : \A x :
    ChildOf(t, u, x) # NoVertex => t[ChildOf(t, u, x) + 1].token = x

(* The edges of a vertex that has no btree_map lead to what they show. *)
LEMMA EdgesTagged ==
  ASSUME NEW k \in Nat, NEW t, IsTree(t, k), NEW v \in 0 .. Len(t) - 1,
         ~HasSubtree(t, v), NEW x, ChildOf(t, v, x) # NoVertex
  PROVE  t[ChildOf(t, v, x) + 1].token = x
<1>1. Hits(t, v, x) # {}
  BY FoundByEdge
<1>2. Min(Hits(t, v, x)) \in Hits(t, v, x)
  BY <1>1, FirstHit
<1>3. ChildOf(t, v, x) = t[v + 1].edges[Min(Hits(t, v, x))]
  BY <1>1, ChildByEdge
<1> QED
  BY <1>2, <1>3 DEF Hits

(* What con_add_nodes adds is found under its token, and what was found    *)
(* still is.                                                               *)
LEMMA ChainTagged ==
  ASSUME NEW k \in Nat, NEW t, IsTree(t, k), NEW n \in Nat, n = Len(t),
         NEW leaf \in 0 .. n - 1,
         NEW toks \in Seq(0 .. k - 1), toks # << >>, NEW kept,
         NEW t2, IsTree(t2, k), Grafted(t2, t, n, leaf, toks, kept),
         Tagged(t, n), ChildOf(t, leaf, toks[1]) = NoVertex
  PROVE  Tagged(t2, n + Len(toks))
<1>1. FindsGrafted(t2, t, n, leaf, toks)
  BY ChainFinds
<1>2. Len(toks) \in Nat /\ Len(toks) > 0 /\ Len(t2) = n + Len(toks)
  BY DEF Grafted
<1>c. \A i \in 1 .. Len(toks) : t2[n + i].token = toks[i] /\ t2[n + i].subtree = << >>
  <2>1. ASSUME NEW i \in 1 .. Len(toks)
        PROVE  /\ t2[n + i].token = toks[i]
               /\ t2[n + i].edges = IF i < Len(toks) THEN <<n + i>> ELSE << >>
               /\ t2[n + i].subtree = << >>
    BY ChainNodes
  <2> QED
    BY <2>1
<1>3. ASSUME NEW u \in 0 .. (n + Len(toks)) - 1, NEW x,
             ChildOf(t2, u, x) # NoVertex
      PROVE  t2[ChildOf(t2, u, x) + 1].token = x
  <2>1. CASE u < n
    <3>1. u \in 0 .. n - 1 /\ u \in 0 .. Len(t) - 1
      BY <2>1
    <3>2. CASE ChildOf(t, u, x) # NoVertex
      <4>1. ChildOf(t2, u, x) = ChildOf(t, u, x)
        BY <1>1, <3>1, <3>2 DEF FindsGrafted
      <4>2. ChildOf(t, u, x) \in 0 .. n - 1
        BY <3>1, <3>2, ChildOfFacts
      <4>3. t2[ChildOf(t, u, x) + 1].token = t[ChildOf(t, u, x) + 1].token
        BY <4>2 DEF Grafted
      <4> QED
        BY <3>1, <3>2, <4>1, <4>3 DEF Tagged
    <3>3. CASE ChildOf(t, u, x) = NoVertex
      <4>1. u = leaf /\ x = toks[1]
        BY <1>1, <1>3, <3>1, <3>3 DEF FindsGrafted
      <4>2. ChildOf(t2, u, x) = n
        BY <1>1, <4>1 DEF FindsGrafted
      <4>3. t2[n + 1].token = toks[1]
        <5>1. 1 \in 1 .. Len(toks)
          BY <1>2
        <5> QED
          BY <1>c, <5>1
      <4> QED
        BY <4>1, <4>2, <4>3
    <3> QED
      BY <3>2, <3>3
  <2>2. CASE u >= n
    <3>1. PICK i \in 1 .. Len(toks) : u = n + i - 1
      <4>1. u - n + 1 \in 1 .. Len(toks) /\ u = n + (u - n + 1) - 1
        BY <1>2, <2>2
      <4> QED
        BY <4>1
    <3>2. ~HasSubtree(t2, u)
      <4>1. t2[n + i].subtree = << >>
        BY <1>c
      <4>2. u + 1 = n + i
        BY <1>2, <3>1
      <4> QED
        BY <4>1, <4>2 DEF HasSubtree
    <3>3. u \in 0 .. Len(t2) - 1
      BY <1>2
    <3> QED
      BY <1>3, <3>2, <3>3, EdgesTagged
  <2> QED
    BY <1>2, <2>1, <2>2
<1> QED
  BY <1>3 DEF Tagged

(* Printing the tree changes nothing that is found. *)
LEMMA PrintedTagged ==
  ASSUME NEW k \in Nat, NEW t, IsTree(t, k), NEW n \in Nat, n = Len(t),
         NEW t2, Printed(t2, t, n), Tagged(t, n)
  PROVE  Tagged(t2, n)
<1>1. ASSUME NEW u \in 0 .. n - 1, NEW x, ChildOf(t2, u, x) # NoVertex
      PROVE  t2[ChildOf(t2, u, x) + 1].token = x
  <2>1. ChildOf(t2, u, x) = ChildOf(t, u, x)
    BY DEF Printed
  <2>2. ChildOf(t, u, x) \in 0 .. n - 1
    <3>1. u \in 0 .. Len(t) - 1
      OBVIOUS
    <3> QED
      BY <1>1, <2>1, <3>1, ChildOfFacts
  <2>3. t2[ChildOf(t, u, x) + 1].token = t[ChildOf(t, u, x) + 1].token
    BY <2>2 DEF Printed
  <2> QED
    BY <1>1, <2>1, <2>3 DEF Tagged
<1> QED
  BY <1>1 DEF Tagged

(* The new vertices spell what r says: the leaf's context and a word more  *)
(* each.                                                                   *)
Continues(r, a, toks) ==
  /\ r \in [1 .. Len(toks) -> Seq(Nat)]
  /\ r[1] = Append(a, toks[1] + 1)
  /\ \A i \in 1 .. Len(toks) - 1 : r[i + 1] = Append(r[i], toks[i + 1] + 1)

Lengthened(s, n, r, l) ==
  [v \in 0 .. (n + l) - 1 |-> IF v < n THEN s[v] ELSE r[v - n + 1]]

(* Grafting the chain lengthens a spelling: what the old vertices spell    *)
(* stays, and the new ones continue what the leaf spells.                  *)
LEMMA ChainSpells ==
  ASSUME NEW k \in Nat, NEW t, IsTree(t, k), NEW n \in Nat, n = Len(t),
         NEW leaf \in 0 .. n - 1,
         NEW toks \in Seq(0 .. k - 1), toks # << >>, NEW kept,
         NEW t2, Grafted(t2, t, n, leaf, toks, kept),
         NEW s, Spells(t, n, s), NEW r, Continues(r, s[leaf], toks)
  PROVE  Spells(t2, n + Len(toks), Lengthened(s, n, r, Len(toks)))
<1> DEFINE s2 == Lengthened(s, n, r, Len(toks))
<1>1. PICK l \in Nat : l = Len(toks) /\ l > 0
  OBVIOUS
<1>2. n > 0
  BY DEF IsTree
<1>3. /\ \A u \in 0 .. n - 1 : u # leaf => Children(t2, u) = Children(t, u)
      /\ Children(t2, leaf) \subseteq Children(t, leaf) \cup {n}
      /\ \A i \in 1 .. l :
           Children(t2, n + i - 1) = IF i < l THEN {n + i} ELSE {}
  <2>1. ChildrenGrafted(t2, t, n, leaf, Len(toks))
    BY ChainChildren
  <2> QED
    BY <1>1, <2>1 DEF ChildrenGrafted
<1>4. /\ s2 = [v \in 0 .. (n + l) - 1 |-> IF v < n THEN s[v] ELSE r[v - n + 1]]
      /\ \A v \in 0 .. n - 1 : s2[v] = s[v]
      /\ \A i \in 1 .. l : s2[n + i - 1] = r[i]
  <2>1. s2 = [v \in 0 .. (n + l) - 1 |-> IF v < n THEN s[v] ELSE r[v - n + 1]]
    BY <1>1 DEF Lengthened
  <2> HIDE DEF s2
  <2>2. ASSUME NEW i \in 1 .. l
        PROVE  s2[n + i - 1] = r[i]
    <3>1. /\ n + i - 1 \in 0 .. (n + l) - 1 /\ ~(n + i - 1 < n)
          /\ (n + i - 1) - n + 1 = i
      OBVIOUS
    <3> QED
      BY <2>1, <3>1
  <2>3. \A v \in 0 .. n - 1 : v \in 0 .. (n + l) - 1 /\ v < n
    OBVIOUS
  <2> QED
    BY <2>1, <2>2, <2>3
<1> HIDE DEF s2
<1>5. ASSUME NEW i \in 1 .. l
      PROVE  t2[n + i].token = toks[i]
  <2>1. /\ t2[n + i].token = toks[i]
        /\ t2[n + i].edges = IF i < Len(toks) THEN <<n + i>> ELSE << >>
        /\ t2[n + i].subtree = << >>
    <3>1. i \in 1 .. Len(toks)
      BY <1>1
    <3> QED
      BY <3>1, ChainNodes
  <2> QED
    BY <2>1
<1>6. \A u \in 0 .. n - 1 : t2[u + 1].token = t[u + 1].token
  BY DEF Grafted
<1>7. \A u \in 0 .. n - 1 : Children(t, u) \subseteq 0 .. n - 1
  BY ChildrenFacts
<1>8. ASSUME NEW v \in 1 .. n - 1, NEW u \in 0 .. n - 1, v \in Children(t, u)
      PROVE  s2[v] = Append(s2[u], t2[v + 1].token + 1)
  <2>1. s[v] = Append(s[u], t[v + 1].token + 1)
    BY <1>8 DEF Spells
  <2>2. s2[v] = s[v] /\ s2[u] = s[u]
    BY <1>4
  <2>3. t2[v + 1].token = t[v + 1].token
    BY <1>6
  <2> QED
    BY <2>1, <2>2, <2>3, Zenon
<1>9. ASSUME NEW v \in 1 .. (n + l) - 1, NEW u \in 0 .. (n + l) - 1,
             v \in Children(t2, u)
      PROVE  s2[v] = Append(s2[u], t2[v + 1].token + 1)
  <2>1. CASE u < n /\ v \in Children(t, u)
    <3>1. u \in 0 .. n - 1
      BY <2>1
    <3>2. v \in 0 .. n - 1
      BY <1>7, <2>1, <3>1
    <3>3. v \in 1 .. n - 1
      BY <3>2
    <3> QED
      BY <1>8, <2>1, <3>1, <3>3
  <2>2. CASE u = leaf /\ v = n
    <3>1. 1 \in 1 .. l
      BY <1>1
    <3>2. s2[n + 1 - 1] = r[1] /\ t2[n + 1].token = toks[1] /\ n + 1 - 1 = n
      BY <1>4, <1>5, <3>1
    <3>3. r[1] = Append(s[leaf], toks[1] + 1)
      BY DEF Continues
    <3>4. s2[n] = r[1] /\ s2[leaf] = s[leaf]
      BY <1>4, <3>2
    <3> QED
      BY <2>2, <3>2, <3>3, <3>4
  <2>3. CASE u >= n
    <3>1. PICK i \in 1 .. l : u = n + i - 1
      <4>1. u - n + 1 \in 1 .. l /\ u = n + (u - n + 1) - 1
        BY <2>3
      <4> QED
        BY <4>1
    <3>2. i < l /\ v = n + i
      BY <1>3, <1>9, <3>1
    <3>3. i + 1 \in 1 .. l /\ i \in 1 .. Len(toks) - 1
      BY <1>1, <3>2
    <3>4. s2[n + (i + 1) - 1] = r[i + 1] /\ t2[n + (i + 1)].token = toks[i + 1]
      BY <1>4, <1>5, <3>3
    <3>5. n + (i + 1) - 1 = v /\ n + (i + 1) = v + 1
      BY <3>2
    <3>6. r[i + 1] = Append(r[i], toks[i + 1] + 1)
      BY <3>3 DEF Continues
    <3>7. s2[u] = r[i]
      BY <1>4, <3>1
    <3> QED
      BY <3>4, <3>5, <3>6, <3>7
  <2>4. u < n \/ u >= n
    OBVIOUS
  <2>5. u < n => v \in Children(t, u) \/ (u = leaf /\ v = n)
    <3>1. SUFFICES ASSUME u < n
                   PROVE  v \in Children(t, u) \/ (u = leaf /\ v = n)
      OBVIOUS
    <3>2. u \in 0 .. n - 1
      BY <3>1
    <3>3. CASE u = leaf
      BY <1>3, <1>9, <3>3
    <3>4. CASE u # leaf
      BY <1>3, <1>9, <3>2, <3>4
    <3> QED
      BY <3>3, <3>4
  <2> QED
    BY <2>1, <2>2, <2>3, <2>4, <2>5
<1>10. s2 \in [0 .. (n + l) - 1 -> Seq(Nat)]
  <2>1. ASSUME NEW v \in 0 .. (n + l) - 1
        PROVE  s2[v] \in Seq(Nat)
    <3>1. CASE v < n
      <4>1. v \in 0 .. n - 1
        BY <3>1
      <4> QED
        BY <1>4, <4>1 DEF Spells
    <3>2. CASE v >= n
      <4>1. v - n + 1 \in 1 .. l /\ n + (v - n + 1) - 1 = v
        BY <3>2
      <4>2. s2[n + (v - n + 1) - 1] = r[v - n + 1]
        BY <1>4, <4>1
      <4>3. r[v - n + 1] \in Seq(Nat)
        BY <1>1, <4>1 DEF Continues
      <4> QED
        BY <4>1, <4>2, <4>3
    <3> QED
      BY <3>1, <3>2
  <2> QED
    BY <1>4, <2>1
<1>11. s2[Root] = << >>
  <2>1. Root \in 0 .. n - 1
    BY <1>2 DEF Root
  <2> QED
    BY <1>4, <2>1 DEF Spells
<1>12. Spells(t2, n + l, s2)
  BY <1>9, <1>10, <1>11 DEF Spells
<1> QED
  BY <1>1, <1>12 DEF s2

(* Printing the tree leaves what the vertices spell. *)
LEMMA PrintedSpells ==
  ASSUME NEW t, NEW n \in Nat, NEW t2, Printed(t2, t, n), NEW s, Spells(t, n, s)
  PROVE  Spells(t2, n, s)
<1>1. ASSUME NEW v \in 1 .. n - 1, NEW u \in 0 .. n - 1, v \in Children(t2, u)
      PROVE  s[v] = Append(s[u], t2[v + 1].token + 1)
  <2>1. v \in Children(t, u)
    BY <1>1 DEF Printed
  <2>2. s[v] = Append(s[u], t[v + 1].token + 1)
    BY <2>1 DEF Spells
  <2>3. t2[v + 1].token = t[v + 1].token
    BY DEF Printed
  <2> QED
    BY <2>2, <2>3
<1> QED
  BY <1>1 DEF Spells

(* A model that has just seen ctx is in its most recent Bound - 1 words.   *)
LEMMA DepthFacts ==
  ASSUME NEW ctx, Len(ctx) \in Nat
  PROVE  /\ Losing!Depth(ctx) = IF Len(ctx) < Bound THEN Len(ctx) ELSE Bound - 1
         /\ Losing!Depth(ctx) \in Nat /\ Losing!Depth(ctx) <= Len(ctx)
<1> DEFINE T == {Len(ctx), Bound - 1}
<1>1. T \in SUBSET Nat /\ T # {}
  BY BoundAssumption
<1>2. \E m \in T : m = Losing!Depth(ctx) /\ \A j \in T : m <= j
  <2>1. PICK m \in T : \A j \in T : m <= j
    BY <1>1, LeastNatural, Zenon
  <2>2. Losing!Depth(ctx) = CHOOSE x \in T : \A y \in T : x <= y
    BY DEF Losing!Depth, Losing!Min
  <2> HIDE DEF T
  <2> QED
    BY <2>1, <2>2, Zenon
<1>3. PICK m \in T : m = Losing!Depth(ctx) /\ \A j \in T : m <= j
  BY <1>2
<1>4. m <= Len(ctx) /\ m <= Bound - 1 /\ (m = Len(ctx) \/ m = Bound - 1)
  BY <1>3
<1> QED
  BY <1>3, <1>4, BoundAssumption

(* What a recent context is. *)
LEMMA RecentFacts ==
  ASSUME NEW S, NEW ctx \in Seq(S), S \subseteq Nat, NEW j \in 0 .. Len(ctx)
  PROVE  /\ Losing!Recent(ctx, j) \in Seq(Nat)
         /\ Len(Losing!Recent(ctx, j)) = j
         /\ \A i \in 1 .. j : Losing!Recent(ctx, j)[i] = Recent(ctx, i)
         /\ j > 0 => Losing!Recent(ctx, j) =
                       Append(Losing!Recent(ctx, j - 1), Recent(ctx, j))
<1>1. PICK n \in Nat : n = Len(ctx)
  OBVIOUS
<1>2. \A i \in 1 .. n : Recent(ctx, i) \in Nat
  <2>1. ASSUME NEW i \in 1 .. n
        PROVE  ctx[n - i + 1] \in Nat
    <3>1. n - i + 1 \in 1 .. Len(ctx)
      BY <1>1
    <3>2. ctx[n - i + 1] \in S
      BY <3>1, ElementOfSeq
    <3> QED
      BY <3>2
  <2> QED
    BY <1>1, <2>1 DEF Recent
<1>3. \A h \in 0 .. n : Losing!Recent(ctx, h) = [i \in 1 .. h |-> Recent(ctx, i)]
  BY DEF Losing!Recent, Recent
<1>4. \A h \in 0 .. n : /\ Losing!Recent(ctx, h) \in Seq(Nat)
                        /\ Len(Losing!Recent(ctx, h)) = h
  <2>1. ASSUME NEW h \in 0 .. n
        PROVE  [i \in 1 .. h |-> Recent(ctx, i)] \in Seq(Nat)
    <3>1. \A i \in 1 .. h : Recent(ctx, i) \in Nat
      BY <1>2
    <3> QED
      BY <3>1
  <2>2. ASSUME NEW h \in 0 .. n
        PROVE  Len([i \in 1 .. h |-> Recent(ctx, i)]) = h
    OBVIOUS
  <2> QED
    BY <1>3, <2>1, <2>2
<1>5. \A i \in 1 .. j : Losing!Recent(ctx, j)[i] = Recent(ctx, i)
  BY <1>1, <1>3
<1>6. ASSUME j > 0
      PROVE  Losing!Recent(ctx, j) =
               Append(Losing!Recent(ctx, j - 1), Recent(ctx, j))
  <2>1. PICK h \in 0 .. n : h = j - 1 /\ j = h + 1 /\ j \in 1 .. n
    BY <1>1, <1>6
  <2>2. PICK a \in Seq(Nat) : a = Losing!Recent(ctx, h) /\ Len(a) = h
    BY <1>4
  <2>3. PICK b \in Seq(Nat) : b = Losing!Recent(ctx, j) /\ Len(b) = j
    BY <1>4, <2>1
  <2>4. PICK x \in Nat : x = Recent(ctx, j)
    BY <1>2, <2>1
  <2>5. /\ Append(a, x) \in Seq(Nat) /\ Len(Append(a, x)) = h + 1
        /\ \A i \in 1 .. h : Append(a, x)[i] = a[i]
        /\ Append(a, x)[h + 1] = x
    BY <2>2, AppendProperties
  <2>6. \A i \in 1 .. h : b[i] = a[i]
    BY <1>3, <2>1, <2>2, <2>3
  <2>7. b[h + 1] = x
    BY <1>5, <2>1, <2>3, <2>4
  <2>8. \A i \in 1 .. h + 1 : b[i] = Append(a, x)[i]
    BY <2>5, <2>6, <2>7
  <2>9. b = Append(a, x)
    BY <2>1, <2>3, <2>5, <2>8, SeqEqual
  <2> QED
    BY <2>1, <2>2, <2>3, <2>4, <2>9
<1> QED
  BY <1>1, <1>4, <1>5, <1>6

(* A context follows the words ctx: its path spells the most recent ones,  *)
(* and its additions are the tokens of the older ones.                     *)
Follows(con, s, ctx) ==
  /\ Len(con.path) + Len(con.additions) = Len(ctx) + 1
  /\ \A i \in 1 .. Len(con.path) : s[con.path[i]] = Losing!Recent(ctx, i - 1)
  /\ \A i \in 1 .. Len(con.additions) :
       con.additions[i] + 1 = Recent(ctx, Len(con.path) - 1 + i)

(* What is so of the context of a prediction that can be learned from: it  *)
(* is good, it follows the words the prediction was made for, and descend  *)
(* did not find the next of them.                                          *)
Placed(con, t, k, n, s, d, ctx) ==
  /\ IsTree(t, k) /\ n = Len(t) /\ IsTrie(t, n) /\ Spells(t, n, s)
  /\ ctx \in Seq(Nat) /\ Len(ctx) <= Bound
  /\ GoodContext(con, k, n, d, Len(ctx)) /\ Shallow(d, n, Len(ctx))
  /\ Follows(con, s, ctx)
  /\ FreshFor(t, con)

(* The path of such a context starts at the root, stays in the tree and    *)
(* spells the most recent words, and no two vertices spell the same.       *)
LEMMA PlacedFacts ==
  ASSUME NEW con, NEW t, NEW k \in Nat, NEW n \in Nat, NEW s, NEW d, NEW ctx,
         Placed(con, t, k, n, s, d, ctx)
  PROVE  /\ Len(con.path) \in Nat /\ Len(con.path) > 0
         /\ Len(con.path) <= Len(ctx) /\ Len(con.path) <= Bound
         /\ \A i \in 1 .. Len(con.path) : con.path[i] \in 0 .. n - 1
         /\ \A i \in 1 .. Len(con.path) :
              s[con.path[i]] = Losing!Recent(ctx, i - 1)
         /\ \A v \in 0 .. n - 1 : \A u \in 0 .. n - 1 : s[u] = s[v] => u = v
         /\ con.path[1] = Root
<1>1. /\ Len(con.path) \in Nat /\ Len(con.path) > 0
      /\ Len(con.additions) \in Nat /\ Len(con.additions) > 0
  BY GoodContextLengths DEF Placed
<1>2. /\ con.path \in Seq(0 .. n - 1)
      /\ \A i \in 1 .. Len(con.path) : d[con.path[i]] = i - 1
      /\ \A v \in 0 .. n - 1 : d[v] < Bound
      /\ Len(con.path) + Len(con.additions) = Len(ctx) + 1
      /\ \A i \in 1 .. Len(con.path) : s[con.path[i]] = Losing!Recent(ctx, i - 1)
      /\ ctx \in Seq(Nat)
  BY DEF Placed, GoodContext, Shallow, Follows
<1>3. \A i \in 1 .. Len(con.path) : con.path[i] \in 0 .. n - 1
  BY <1>1, <1>2
<1>4. Len(con.path) <= Bound
  <2>1. PICK l \in Nat : l = Len(con.path) /\ l \in 1 .. l
    BY <1>1
  <2>2. d[con.path[l]] = l - 1 /\ con.path[l] \in 0 .. n - 1
    BY <1>2, <1>3, <2>1
  <2>3. l - 1 < Bound
    BY <1>2, <2>2
  <2> QED
    BY <2>1, <2>3, BoundAssumption
<1>5. Len(con.path) <= Len(ctx)
  <2>1. PICK x \in Nat, y \in Nat, z \in Nat :
          x = Len(con.path) /\ y = Len(con.additions) /\ z = Len(ctx) /\ y > 0
    BY <1>1, <1>2
  <2>2. x + y = z + 1 /\ y > 0
    BY <1>2, <2>1
  <2>3. x <= z
    BY <2>2
  <2> QED
    BY <2>1, <2>3
<1>6. \A v \in 0 .. n - 1 : \A u \in 0 .. n - 1 : s[u] = s[v] => u = v
  <2>1. IsTree(t, k) /\ n = Len(t) /\ IsTrie(t, n) /\ Spells(t, n, s)
    BY DEF Placed
  <2> QED
    BY <2>1, SpellingInjective
<1>7. con.path[1] = Root
  <2>1. 1 \in 1 .. Len(con.path)
    BY <1>1
  <2>2. s[con.path[1]] = Losing!Recent(ctx, 0)
    BY <1>2, <2>1
  <2>3. Losing!Recent(ctx, 0) = << >>
    <3>1. 0 \in 0 .. Len(ctx) /\ Nat \subseteq Nat
      BY <1>2
    <3>2. PICK e : e = Losing!Recent(ctx, 0)
      OBVIOUS
    <3>3. e \in Seq(Nat) /\ Len(e) = 0
      BY <1>2, <3>1, <3>2, RecentFacts
    <3> QED
      BY <3>2, <3>3, EmptySeq
  <2>4. s[Root] = << >>
    BY DEF Placed, Spells
  <2>5. Root \in 0 .. n - 1 /\ con.path[1] \in 0 .. n - 1
    <3>1. con.path[1] \in 0 .. n - 1
      BY <1>3, <2>1
    <3> QED
      BY <3>1 DEF Root
  <2> QED
    BY <1>6, <2>2, <2>3, <2>4, <2>5
<1> QED
  BY <1>1, <1>2, <1>3, <1>4, <1>5, <1>6, <1>7

(* The context that follows ctx stops because no vertex spells a longer    *)
(* piece of it.                                                            *)
LEMMA NotSpelled ==
  ASSUME NEW con, NEW t, NEW k \in Nat, NEW n \in Nat, NEW s, NEW d, NEW ctx,
         Placed(con, t, k, n, s, d, ctx)
  PROVE  \A j \in Len(con.path) .. Len(ctx) : \A v \in 0 .. n - 1 :
           s[v] # Losing!Recent(ctx, j)
<1> DEFINE Free(j) == \A v \in 0 .. n - 1 : s[v] # Losing!Recent(ctx, j)
<1>0. /\ Len(con.path) \in Nat /\ Len(con.path) > 0
      /\ Len(con.path) <= Len(ctx) /\ Len(con.path) <= Bound
      /\ \A i \in 1 .. Len(con.path) : con.path[i] \in 0 .. n - 1
      /\ \A i \in 1 .. Len(con.path) :
           s[con.path[i]] = Losing!Recent(ctx, i - 1)
      /\ \A v \in 0 .. n - 1 : \A u \in 0 .. n - 1 : s[u] = s[v] => u = v
      /\ con.path[1] = Root
  BY PlacedFacts
<1>b. \A v \in 0 .. n - 1 : \A a \in Seq(Nat) : \A w \in Nat :
        HangsBelow(t, n, s, v, a, w)
  <2>1. IsTree(t, k) /\ n = Len(t) /\ IsTrie(t, n) /\ Spells(t, n, s)
    BY DEF Placed
  <2> QED
    BY <2>1, SpelledBelow
<1>1. PICK l \in Nat, h \in Nat : l = Len(con.path) /\ l > 0 /\ h = Len(ctx) /\ l <= h
  <2>1. Len(ctx) \in Nat
    BY DEF Placed
  <2> QED
    BY <1>0, <2>1
<1>2. \A j \in 0 .. h : Losing!Recent(ctx, j) \in Seq(Nat)
  <2>1. ctx \in Seq(Nat) /\ Nat \subseteq Nat
    BY DEF Placed
  <2> QED
    BY <1>1, <2>1, RecentFacts
<1>3. \A j \in 1 .. h : /\ Losing!Recent(ctx, j) =
                              Append(Losing!Recent(ctx, j - 1), Recent(ctx, j))
                        /\ Recent(ctx, j) \in Nat
  <2>1. ctx \in Seq(Nat) /\ Nat \subseteq Nat
    BY DEF Placed
  <2>2. ASSUME NEW j \in 1 .. h
        PROVE  Losing!Recent(ctx, j) =
                 Append(Losing!Recent(ctx, j - 1), Recent(ctx, j))
    <3>1. j \in 0 .. Len(ctx) /\ j > 0
      BY <1>1
    <3> QED
      BY <2>1, <3>1, RecentFacts
  <2>3. ASSUME NEW j \in 1 .. h
        PROVE  Recent(ctx, j) \in Nat
    <3>1. h - j + 1 \in 1 .. Len(ctx)
      BY <1>1
    <3>2. ctx[h - j + 1] \in Nat
      BY <2>1, <3>1, ElementOfSeq
    <3> QED
      BY <1>1, <3>2 DEF Recent
  <2> QED
    BY <2>2, <2>3
<1>4. ASSUME NEW j \in 1 .. h, NEW v \in 0 .. n - 1, s[v] = Losing!Recent(ctx, j)
      PROVE  \E p \in 0 .. n - 1 :
               /\ s[p] = Losing!Recent(ctx, j - 1)
               /\ ChildOf(t, p, t[v + 1].token) = v
               /\ t[v + 1].token + 1 = Recent(ctx, j) /\ t[v + 1].token \in Nat
  <2>1. PICK a \in Seq(Nat) : a = Losing!Recent(ctx, j - 1)
    <3>1. j - 1 \in 0 .. h
      OBVIOUS
    <3> QED
      BY <1>2, <3>1
  <2>2. PICK w \in Nat : w = Recent(ctx, j)
    BY <1>3
  <2>3. s[v] = Append(a, w)
    BY <1>3, <1>4, <2>1, <2>2
  <2>5. \E p \in 0 .. n - 1 :
          /\ s[p] = a /\ t[v + 1].token + 1 = w /\ t[v + 1].token \in Nat
          /\ ChildOf(t, p, t[v + 1].token) = v
    <3>1. HangsBelow(t, n, s, v, a, w)
      BY <1>b
    <3> QED
      BY <2>3, <3>1 DEF HangsBelow
  <2> QED
    BY <2>1, <2>2, <2>5
<1>5. Free(l)
  <2>1. SUFFICES ASSUME NEW v \in 0 .. n - 1, s[v] = Losing!Recent(ctx, l)
                 PROVE  FALSE
    OBVIOUS
  <2>2. l \in 1 .. h /\ l \in 1 .. Len(con.path)
    BY <1>1
  <2>3. PICK p \in 0 .. n - 1 :
          /\ s[p] = Losing!Recent(ctx, l - 1)
          /\ ChildOf(t, p, t[v + 1].token) = v
          /\ t[v + 1].token + 1 = Recent(ctx, l) /\ t[v + 1].token \in Nat
    BY <1>4, <2>1, <2>2
  <2>4. con.path[l] = p
    <3>1. s[con.path[l]] = Losing!Recent(ctx, l - 1) /\ con.path[l] \in 0 .. n - 1
      BY <1>0, <2>2
    <3>2. \A x \in 0 .. n - 1 : \A u \in 0 .. n - 1 : s[u] = s[x] => u = x
      BY <1>0
    <3> QED
      BY <2>3, <3>1, <3>2
  <2>5. con.leaf = con.path[l]
    BY <1>1 DEF Placed, GoodContext
  <2>6. con.additions[1] = t[v + 1].token
    <3>1. /\ con.additions \in Seq(1 .. k - 1) /\ Len(con.additions) > 0
          /\ \A i \in 1 .. Len(con.additions) :
               con.additions[i] + 1 = Recent(ctx, Len(con.path) - 1 + i)
      BY DEF Placed, GoodContext, Follows
    <3>2. 1 \in 1 .. Len(con.additions) /\ con.additions[1] \in Nat
      <4>1. 1 \in 1 .. Len(con.additions)
        BY <3>1
      <4>2. con.additions[1] \in 1 .. k - 1
        BY <3>1, <4>1
      <4> QED
        BY <4>1, <4>2
    <3>3. con.additions[1] + 1 = Recent(ctx, Len(con.path) - 1 + 1)
      BY <3>1, <3>2
    <3>4. Len(con.path) - 1 + 1 = l
      BY <1>1
    <3>5. PICK x \in Nat, y \in Nat : x = con.additions[1] /\ y = t[v + 1].token
      BY <2>3, <3>2
    <3>6. x + 1 = y + 1
      BY <2>3, <3>3, <3>4, <3>5
    <3> QED
      BY <3>5, <3>6
  <2>7. ChildOf(t, con.leaf, con.additions[1]) = NoVertex
    BY DEF Placed, FreshFor
  <2> QED
    BY <2>3, <2>4, <2>5, <2>6, <2>7 DEF NoVertex
<1> DEFINE T == {j \in l .. h : Free(j)}
<1>6. ASSUME NEW j \in l .. h - 1, j \in T
      PROVE  j + 1 \in T
  <2>1. j + 1 \in 1 .. h /\ (j + 1) - 1 = j /\ j + 1 \in l .. h
    BY <1>1
  <2>2. ASSUME NEW v \in 0 .. n - 1, s[v] = Losing!Recent(ctx, j + 1)
        PROVE  FALSE
    <3>1. PICK p \in 0 .. n - 1 : s[p] = Losing!Recent(ctx, (j + 1) - 1)
      BY <1>4, <2>1, <2>2
    <3> QED
      BY <1>6, <2>1, <3>1
  <2> QED
    BY <2>1, <2>2
<1>7. l \in T
  BY <1>1, <1>5
<1>8. Climbs(T, l, h)
  <2> HIDE DEF T
  <2> QED
    BY <1>6, <1>7 DEF Climbs
<1>9. \A j \in l .. h : j \in T
  <2> HIDE DEF T
  <2> QED
    BY <1>8, IntervalInduction
<1> QED
  BY <1>1, <1>9

(* The contexts that are charged are those the path but the root spells,   *)
(* and the ones that the vertices to be added will.                        *)
LEMMA SuffixSpelled ==
  ASSUME NEW con, NEW t, NEW k \in Nat, NEW n \in Nat, NEW s, NEW d, NEW ctx,
         Placed(con, t, k, n, s, d, ctx)
  PROVE  \A v \in 1 .. n - 1 :
           s[v] \in Losing!Suffixes(ctx) <=> v \in ToSet(con.path)
<1>0. /\ Len(con.path) \in Nat /\ Len(con.path) > 0
      /\ Len(con.path) <= Len(ctx) /\ Len(con.path) <= Bound
      /\ \A i \in 1 .. Len(con.path) : con.path[i] \in 0 .. n - 1
      /\ \A i \in 1 .. Len(con.path) :
           s[con.path[i]] = Losing!Recent(ctx, i - 1)
      /\ \A v \in 0 .. n - 1 : \A u \in 0 .. n - 1 : s[u] = s[v] => u = v
      /\ con.path[1] = Root
  BY PlacedFacts
<1>1. \A j \in Len(con.path) .. Len(ctx) : \A v \in 0 .. n - 1 :
        s[v] # Losing!Recent(ctx, j)
  BY NotSpelled
<1>2. Len(ctx) \in Nat
  BY DEF Placed
<1>3. PICK l \in Nat, h \in Nat : l = Len(con.path) /\ l > 0 /\ h = Len(ctx) /\ l <= h
  BY <1>0, <1>2
<1>4. PICK q \in Nat : /\ q = Losing!Depth(ctx) /\ q <= h
                       /\ q = IF h < Bound THEN h ELSE Bound - 1
  BY <1>2, <1>3, DepthFacts
<1>5. l - 1 <= q
  <2>1. l <= Bound
    BY <1>0, <1>3
  <2> QED
    BY <1>3, <1>4, <2>1, BoundAssumption
<1>6. Losing!Suffixes(ctx) = {Losing!Recent(ctx, j) : j \in 1 .. q}
  BY <1>4 DEF Losing!Suffixes
<1>7. ToSet(con.path) = {con.path[i] : i \in 1 .. l}
  <2>1. con.path \in Seq(0 .. n - 1)
    BY DEF Placed, GoodContext
  <2> QED
    BY <1>3, <2>1 DEF ToSet
<1>8. ASSUME NEW v \in 1 .. n - 1, s[v] \in Losing!Suffixes(ctx)
      PROVE  v \in ToSet(con.path)
  <2>1. PICK j \in 1 .. q : s[v] = Losing!Recent(ctx, j)
    BY <1>6, <1>8
  <2>2. j < l
    <3>1. v \in 0 .. n - 1
      OBVIOUS
    <3>2. ~(j \in Len(con.path) .. Len(ctx))
      BY <1>1, <2>1, <3>1
    <3> QED
      BY <1>3, <1>4, <3>2
  <2>3. PICK i \in 1 .. l : i = j + 1 /\ i - 1 = j
    BY <2>2
  <2>4. s[con.path[i]] = s[v] /\ con.path[i] \in 0 .. n - 1
    BY <1>0, <1>3, <2>1, <2>3
  <2>5. v = con.path[i]
    BY <1>0, <2>4
  <2> QED
    BY <1>7, <2>5
<1>9. ASSUME NEW v \in 1 .. n - 1, v \in ToSet(con.path)
      PROVE  s[v] \in Losing!Suffixes(ctx)
  <2>1. PICK i \in 1 .. l : v = con.path[i]
    BY <1>7, <1>9
  <2>2. i # 1
    BY <1>0, <2>1 DEF Root
  <2>3. i - 1 \in 1 .. q
    BY <1>5, <2>2
  <2>4. s[v] = Losing!Recent(ctx, i - 1)
    BY <1>0, <1>3, <2>1
  <2> QED
    BY <1>6, <2>3, <2>4
<1> QED
  BY <1>8, <1>9

(* The table that the vertices' weights make up, with what they spell.     *)
Tabled(tab, s, wts, n) ==
  /\ tab = [e \in DOMAIN tab |-> tab[e]]
  /\ \A e : e \in DOMAIN tab <=>
              \E v \in 1 .. n - 1 : \E w \in DOMAIN wts[v] : e = <<s[v], w>>
  /\ \A v \in 1 .. n - 1 : \A w \in DOMAIN wts[v] : tab[<<s[v], w>>] = wts[v][w]

Weighs(wts, v, w) == IF w \in DOMAIN wts[v] THEN wts[v][w] ELSE 0

(* A word's loss after a context is its weight at the vertex that spells   *)
(* the context, and zero when none does.                                   *)
LEMMA TabledLoss ==
  ASSUME NEW tab, NEW s, NEW wts, NEW n \in Nat, Tabled(tab, s, wts, n),
         \A v \in 0 .. n - 1 : \A u \in 0 .. n - 1 : s[u] = s[v] => u = v
  PROVE  /\ \A v \in 1 .. n - 1 : \A w :
              /\ <<s[v], w>> \in DOMAIN tab <=> w \in DOMAIN wts[v]
              /\ Losing!LossOf(tab, s[v], w) = Weighs(wts, v, w)
         /\ \A a, w : (\A v \in 1 .. n - 1 : s[v] # a) =>
              /\ <<a, w>> \notin DOMAIN tab
              /\ Losing!LossOf(tab, a, w) = 0
<1>1. ASSUME NEW v \in 1 .. n - 1, NEW w
      PROVE  <<s[v], w>> \in DOMAIN tab <=> w \in DOMAIN wts[v]
  <2>1. ASSUME <<s[v], w>> \in DOMAIN tab
        PROVE  w \in DOMAIN wts[v]
    <3>1. PICK u \in 1 .. n - 1 : \E x \in DOMAIN wts[u] : <<s[v], w>> = <<s[u], x>>
      BY <2>1 DEF Tabled
    <3>2. s[v] = s[u] /\ w \in DOMAIN wts[u]
      BY <3>1
    <3>3. u = v
      <4>1. u \in 0 .. n - 1 /\ v \in 0 .. n - 1
        OBVIOUS
      <4> QED
        BY <3>2, <4>1
    <3> QED
      BY <3>2, <3>3
  <2>2. ASSUME w \in DOMAIN wts[v]
        PROVE  <<s[v], w>> \in DOMAIN tab
    BY <2>2 DEF Tabled
  <2> QED
    BY <2>1, <2>2
<1>2. ASSUME NEW v \in 1 .. n - 1, NEW w
      PROVE  Losing!LossOf(tab, s[v], w) = Weighs(wts, v, w)
  <2>1. w \in DOMAIN wts[v] => tab[<<s[v], w>>] = wts[v][w]
    BY DEF Tabled
  <2> QED
    BY <1>1, <2>1 DEF Losing!LossOf, Weighs
<1>3. ASSUME NEW a, NEW w, \A v \in 1 .. n - 1 : s[v] # a
      PROVE  <<a, w>> \notin DOMAIN tab
  <2>1. ASSUME NEW v \in 1 .. n - 1, NEW x
        PROVE  <<a, w>> # <<s[v], x>>
    BY <1>3
  <2>2. <<a, w>> \in DOMAIN tab =>
          \E v \in 1 .. n - 1 : \E x \in DOMAIN wts[v] : <<a, w>> = <<s[v], x>>
    BY DEF Tabled
  <2> QED
    BY <2>1, <2>2
<1>4. ASSUME NEW a, NEW w, \A v \in 1 .. n - 1 : s[v] # a
      PROVE  Losing!LossOf(tab, a, w) = 0
  BY <1>3, <1>4 DEF Losing!LossOf
<1> QED
  BY <1>1, <1>2, <1>3, <1>4

(* A table stands for a tree and its weights if they make it up.           *)
Stands(tab, t, n, wts) == \E s : Spells(t, n, s) /\ Tabled(tab, s, wts, n)

(* Only one does. *)
LEMMA StandsAlone ==
  ASSUME NEW k \in Nat, NEW t, IsTree(t, k), NEW n \in Nat, n = Len(t), IsTrie(t, n),
         NEW wts, NEW tab, Stands(tab, t, n, wts), NEW tab2, Stands(tab2, t, n, wts)
  PROVE  tab = tab2
<1>1. PICK s : Spells(t, n, s) /\ Tabled(tab, s, wts, n)
  BY DEF Stands
<1>2. PICK s2 : Spells(t, n, s2) /\ Tabled(tab2, s2, wts, n)
  BY DEF Stands
<1>3. s = s2
  BY <1>1, <1>2, SpellingsAgree
<1>4. Tabled(tab2, s, wts, n)
  BY <1>2, <1>3
<1>5. \A e : e \in DOMAIN tab <=> e \in DOMAIN tab2
  BY <1>1, <1>4 DEF Tabled
<1>6. DOMAIN tab = DOMAIN tab2
  BY <1>5
<1>7. ASSUME NEW e \in DOMAIN tab
      PROVE  tab[e] = tab2[e]
  <2>1. PICK v \in 1 .. n - 1 : \E w \in DOMAIN wts[v] : e = <<s[v], w>>
    BY <1>1 DEF Tabled
  <2>2. PICK w \in DOMAIN wts[v] : e = <<s[v], w>>
    BY <2>1
  <2>3. tab[<<s[v], w>>] = wts[v][w] /\ tab2[<<s[v], w>>] = wts[v][w]
    BY <1>1, <1>4 DEF Tabled
  <2> QED
    BY <2>2, <2>3
<1>8. tab = [e \in DOMAIN tab |-> tab[e]] /\ tab2 = [e \in DOMAIN tab2 |-> tab2[e]]
  BY <1>1, <1>4 DEF Tabled
<1> QED
  BY <1>6, <1>7, <1>8

(* con_add_nodes takes the first additions, as many as reach the depth.    *)
LEMMA AddedLength ==
  ASSUME NEW con, NEW k \in Nat, NEW n \in Nat, NEW d, NEW longest \in Nat,
         GoodContext(con, k, n, d, longest), Len(con.path) <= Bound
  PROVE  /\ Len(Added(con, Bound)) \in 0 .. Len(con.additions)
         /\ \/ /\ Len(Added(con, Bound)) = Len(con.additions)
               /\ Len(con.path) + Len(con.additions) <= Bound
            \/ Len(con.path) + Len(Added(con, Bound)) = Bound
         /\ \A i \in 1 .. Len(Added(con, Bound)) :
              Added(con, Bound)[i] = con.additions[i]
<1>p. PICK p : p \in Nat /\ p = Len(con.path)
  BY GoodContextLengths
<1>a. PICK a : a \in Nat /\ a = Len(con.additions)
  BY GoodContextLengths
<1>b. PICK b : b \in Nat /\ b = Bound /\ p <= b
  BY <1>p, BoundAssumption
<1> DEFINE T == {a, b - p}
           q == Min(T)
<1>1. q \in T /\ q <= a /\ q <= b - p
  <2>1. T \in SUBSET Nat /\ T # {}
    BY <1>p, <1>a, <1>b
  <2>2. a \in T /\ b - p \in T
    OBVIOUS
  <2> HIDE DEF T
  <2> QED
    BY <2>1, <2>2, MinOfNaturals
<1>i. a \in Nat /\ b \in Nat /\ p \in Nat /\ p <= b
  BY <1>p, <1>a, <1>b
<1>2. q \in 0 .. a
  BY <1>i, <1>1
<1>3. Added(con, Bound) = SubSeq(con.additions, 1, q)
  <2>1. Len(Shown(con)) = p
    BY <1>p, ShownIsPath
  <2> QED
    BY <1>a, <1>b, <2>1 DEF Added
<1>4. (q = a /\ p + a <= b) \/ p + q = b
  BY <1>i, <1>1
<1> HIDE DEF q
<1> DEFINE adds == con.additions
           S == 1 .. k - 1
<1>5. adds \in Seq(S) /\ Len(adds) = a
  BY <1>a DEF GoodContext
<1> HIDE DEF adds, S
<1>6. /\ Len(SubSeq(adds, 1, q)) = q
      /\ \A i \in 1 .. q : SubSeq(adds, 1, q)[i] = adds[i]
  BY <1>2, <1>5, <1>a
<1> QED
  BY <1>p, <1>a, <1>b, <1>2, <1>3, <1>4, <1>6 DEF adds

(* The contexts that l vertices below the path of con would spell.         *)
Older(con, ctx, l) == [i \in 1 .. l |-> Losing!Recent(ctx, Len(con.path) - 1 + i)]

(* The tokens to be added take the leaf's context, a vertex each, to the   *)
(* longest context that is charged.                                        *)
AddsOlder(con, k, s, ctx, toks) ==
  /\ toks \in Seq(0 .. k - 1) /\ Len(toks) \in Nat
  /\ Len(con.path) - 1 + Len(toks) = Losing!Depth(ctx)
  /\ toks # << >> => Continues(Older(con, ctx, Len(toks)), s[con.leaf], toks)

(* What reinforce and regret add to the tree continues the leaf's context  *)
(* word by word, up to the longest context that is charged.                *)
LEMMA AddedFollow ==
  ASSUME NEW con, NEW t, NEW k \in Nat, NEW n \in Nat, NEW s, NEW d, NEW ctx,
         Placed(con, t, k, n, s, d, ctx), NEW toks, toks = Added(con, Bound)
  PROVE  AddsOlder(con, k, s, ctx, toks)
<1>0. /\ Len(con.path) \in Nat /\ Len(con.path) > 0
      /\ Len(con.path) <= Len(ctx) /\ Len(con.path) <= Bound
      /\ \A i \in 1 .. Len(con.path) : con.path[i] \in 0 .. n - 1
      /\ \A i \in 1 .. Len(con.path) :
           s[con.path[i]] = Losing!Recent(ctx, i - 1)
      /\ \A v \in 0 .. n - 1 : \A u \in 0 .. n - 1 : s[u] = s[v] => u = v
      /\ con.path[1] = Root
  BY PlacedFacts
<1>1. /\ Len(ctx) \in Nat /\ ctx \in Seq(Nat)
      /\ GoodContext(con, k, n, d, Len(ctx)) /\ Shallow(d, n, Len(ctx))
  BY DEF Placed
<1>2. PICK p \in Nat, a \in Nat, h \in Nat :
        /\ p = Len(con.path) /\ p > 0 /\ p <= Bound
        /\ a = Len(con.additions) /\ h = Len(ctx) /\ p + a = h + 1
  <2>1. Len(con.additions) \in Nat
    BY <1>1, GoodContextLengths
  <2> QED
    BY <1>0, <1>1, <2>1 DEF Placed, Follows
<1>3. PICK l \in Nat : /\ l = Len(toks) /\ l \in 0 .. a
                       /\ (l = a /\ p + a <= Bound) \/ p + l = Bound
                       /\ \A i \in 1 .. l : toks[i] = con.additions[i]
  <2>0. /\ Len(Added(con, Bound)) \in 0 .. Len(con.additions)
        /\ \/ /\ Len(Added(con, Bound)) = Len(con.additions)
              /\ Len(con.path) + Len(con.additions) <= Bound
           \/ Len(con.path) + Len(Added(con, Bound)) = Bound
        /\ \A i \in 1 .. Len(Added(con, Bound)) :
             Added(con, Bound)[i] = con.additions[i]
    BY <1>0, <1>1, AddedLength
  <2>1. /\ Len(Added(con, Bound)) \in 0 .. a
        /\ \/ (Len(Added(con, Bound)) = a /\ p + a <= Bound)
           \/ p + Len(Added(con, Bound)) = Bound
        /\ \A i \in 1 .. Len(Added(con, Bound)) :
             Added(con, Bound)[i] = con.additions[i]
    BY <1>2, <2>0
  <2>2. Len(toks) \in Nat
    BY <2>1
  <2> QED
    BY <2>1, <2>2
<1>4. toks \in Seq(1 .. k - 1)
  BY <1>1, AddedFacts
<1>5. toks \in Seq(0 .. k - 1)
  BY <1>4
<1>6. p - 1 + l = Losing!Depth(ctx)
  <2>1. PICK b \in Nat, q \in Int :
          b = Bound /\ q = Losing!Depth(ctx) /\ q = IF h < b THEN h ELSE b - 1
    BY <1>1, <1>2, DepthFacts, BoundAssumption
  <2>2. /\ l \in 0 .. a /\ p + a = h + 1
        /\ (l = a /\ p + a <= b) \/ p + l = b
    BY <1>2, <1>3, <2>1
  <2>3. p - 1 + l = q
    BY <2>1, <2>2
  <2> QED
    BY <2>1, <2>3
<1>7. ASSUME NEW i \in 1 .. l
      PROVE  /\ Losing!Recent(ctx, p - 1 + i) \in Seq(Nat)
             /\ Losing!Recent(ctx, p - 1 + i) =
                  Append(Losing!Recent(ctx, p - 1 + i - 1), toks[i] + 1)
  <2>1. PICK j \in 0 .. Len(ctx) : j = p - 1 + i /\ j > 0
    <3>a. p + a = h + 1 /\ p > 0
      BY <1>2
    <3>b. l \in 0 .. a
      BY <1>3
    <3>1. i \in Int /\ i >= 1 /\ i <= l /\ l <= a /\ p + a = h + 1 /\ p > 0
      BY <3>a, <3>b
    <3>2. p - 1 + i \in 0 .. h /\ p - 1 + i > 0
      BY <3>1
    <3> QED
      BY <1>2, <3>2
  <2>2. /\ Losing!Recent(ctx, j) \in Seq(Nat)
        /\ Losing!Recent(ctx, j) =
             Append(Losing!Recent(ctx, j - 1), Recent(ctx, j))
    <3>1. Nat \subseteq Nat
      OBVIOUS
    <3> QED
      BY <1>1, <2>1, <3>1, RecentFacts
  <2>3. toks[i] + 1 = Recent(ctx, p - 1 + i)
    <3>1. i \in 1 .. Len(con.additions)
      BY <1>2, <1>3
    <3>2. con.additions[i] + 1 = Recent(ctx, Len(con.path) - 1 + i)
      BY <3>1 DEF Placed, Follows
    <3> QED
      BY <1>2, <1>3, <3>2
  <2> QED
    BY <2>1, <2>2, <2>3
<1>8. ASSUME l > 0
      PROVE  Continues(Older(con, ctx, l), s[con.leaf], toks)
  <2> DEFINE r == Older(con, ctx, l)
  <2>1. r = [i \in 1 .. l |-> Losing!Recent(ctx, p - 1 + i)]
    BY <1>2 DEF Older
  <2> HIDE DEF r
  <2>2. r \in [1 .. Len(toks) -> Seq(Nat)]
    BY <1>3, <1>7, <2>1
  <2>3. s[con.leaf] = Losing!Recent(ctx, p - 1)
    <3>1. p \in 1 .. Len(con.path)
      BY <1>2
    <3>2. con.leaf = con.path[p]
      BY <1>1, <1>2 DEF GoodContext
    <3> QED
      BY <1>0, <3>1, <3>2
  <2>4. r[1] = Append(s[con.leaf], toks[1] + 1)
    <3>1. 1 \in 1 .. l /\ p - 1 + 1 - 1 = p - 1
      BY <1>8
    <3>2. Losing!Recent(ctx, p - 1 + 1) =
            Append(Losing!Recent(ctx, p - 1 + 1 - 1), toks[1] + 1)
      BY <1>7, <3>1
    <3> QED
      BY <2>1, <2>3, <3>1, <3>2
  <2>5. ASSUME NEW i \in 1 .. Len(toks) - 1
        PROVE  r[i + 1] = Append(r[i], toks[i + 1] + 1)
    <3>1. i + 1 \in 1 .. l /\ i \in 1 .. l /\ p - 1 + (i + 1) - 1 = p - 1 + i
      BY <1>3
    <3>2. Losing!Recent(ctx, p - 1 + (i + 1)) =
            Append(Losing!Recent(ctx, p - 1 + (i + 1) - 1), toks[i + 1] + 1)
      BY <1>7, <3>1
    <3>3. r[i + 1] = Losing!Recent(ctx, p - 1 + (i + 1))
      BY <2>1, <3>1
    <3>4. r[i] = Losing!Recent(ctx, p - 1 + i)
      BY <2>1, <3>1
    <3> QED
      BY <3>1, <3>2, <3>3, <3>4
  <2>6. Continues(r, s[con.leaf], toks)
    BY <2>2, <2>4, <2>5 DEF Continues
  <2> QED
    BY <2>6 DEF r
<1>9. toks # << >> => l > 0
  BY <1>3, <1>4
<1> QED
  BY <1>2, <1>3, <1>5, <1>6, <1>8, <1>9 DEF AddsOlder

(* The weights after reinforce and regret, vertex by vertex.               *)
Along(wts2, wts, n, shown, w, delta, l) ==
  /\ \A v \in 1 .. n - 1 :
       wts2[v] = IF v \in shown THEN Pushed(wts[v], w, delta) ELSE wts[v]
  /\ \A i \in 1 .. l : wts2[n + i - 1] = [u \in {w} |-> delta]

(* The push on the vertices shown and the vertices added after them leave  *)
(* just these weights.                                                     *)
LEMMA PushedAlongFacts ==
  ASSUME NEW m \in Nat, NEW n \in Nat, n > 0, NEW wts, WeightsFit(wts, n, m),
         NEW shown, NEW w, NEW delta, NEW l \in Nat
  PROVE  Along(PushedAlong(wts, shown, w, delta, l), wts, n, shown, w, delta, l)
<1> DEFINE f == [v \in DOMAIN wts |->
                   IF v \in shown THEN Pushed(wts[v], w, delta) ELSE wts[v]]
           e == [u \in {w} |-> delta]
           g == [i \in 1 .. l |-> e]
           S == {f[v] : v \in 1 .. n - 1} \cup {e}
<1>1. DOMAIN wts = 1 .. n - 1 /\ n - 1 \in Nat
  BY DEF WeightsFit
<1>2. /\ f = [v \in 1 .. n - 1 |-> f[v]]
      /\ \A v \in 1 .. n - 1 :
           f[v] = IF v \in shown THEN Pushed(wts[v], w, delta) ELSE wts[v]
  BY <1>1
<1>3. g = [i \in 1 .. l |-> g[i]] /\ \A i \in 1 .. l : g[i] = e
  OBVIOUS
<1> HIDE DEF f, e, g
<1>4. f \in Seq(S) /\ Len(f) = n - 1
  BY <1>1, <1>2
<1>5. g \in Seq(S) /\ Len(g) = l
  BY <1>3
<1> HIDE DEF S
<1>6. /\ \A v \in 1 .. n - 1 : (f \o g)[v] = f[v]
      /\ \A i \in 1 .. l : (f \o g)[n - 1 + i] = g[i]
  <2>1. ASSUME NEW i \in 1 .. l
        PROVE  (f \o g)[n - 1 + i] = g[i]
    <3>1. n - 1 + i \in (n - 1) + 1 .. (n - 1) + l /\ (n - 1 + i) - (n - 1) = i
      OBVIOUS
    <3>2. /\ n - 1 + i \in 1 .. Len(f) + Len(g) /\ ~(n - 1 + i <= Len(f))
          /\ (n - 1 + i) - Len(f) = i
      BY <1>1, <1>4, <1>5, <3>1
    <3> QED
      BY <1>4, <1>5, <3>2, ConcatProperties
  <2>2. ASSUME NEW v \in 1 .. n - 1
        PROVE  (f \o g)[v] = f[v]
    BY <1>1, <1>4, <1>5, ConcatProperties
  <2> QED
    BY <2>1, <2>2
<1>7. PushedAlong(wts, shown, w, delta, l) = f \o g
  BY DEF PushedAlong, f, g, e
<1>8. \A i \in 1 .. l : n + i - 1 = n - 1 + i
  OBVIOUS
<1> QED
  BY <1>2, <1>3, <1>6, <1>7, <1>8 DEF e, Along

(* The table after a charge stands for the tree and the weights after      *)
(* reinforce or regret.                                                    *)
LEMMA ChargedTabled ==
  ASSUME NEW con, NEW t, NEW k \in Nat, NEW n \in Nat, NEW s, NEW d, NEW ctx,
         Placed(con, t, k, n, s, d, ctx), NEW m \in Nat, NEW wts,
         WeightsFit(wts, n, m), Tabled(loss, s, wts, n), NEW w, NEW delta \in Int,
         NEW l \in Nat, Len(con.path) - 1 + l = Losing!Depth(ctx)
  PROVE  Tabled(Losing!Charged(ctx, w, delta),
                Lengthened(s, n, Older(con, ctx, l), l),
                PushedAlong(wts, ToSet(con.path), w, delta, l), n + l)
<1> DEFINE tab == Losing!Charged(ctx, w, delta)
           s2 == Lengthened(s, n, Older(con, ctx, l), l)
           shown == ToSet(con.path)
           wts2 == PushedAlong(wts, shown, w, delta, l)
           sfx == Losing!Suffixes(ctx)
<1>0. /\ Len(con.path) \in Nat /\ Len(con.path) > 0
      /\ Len(con.path) <= Len(ctx) /\ Len(con.path) <= Bound
      /\ \A i \in 1 .. Len(con.path) : con.path[i] \in 0 .. n - 1
      /\ \A i \in 1 .. Len(con.path) :
           s[con.path[i]] = Losing!Recent(ctx, i - 1)
      /\ \A v \in 0 .. n - 1 : \A u \in 0 .. n - 1 : s[u] = s[v] => u = v
      /\ con.path[1] = Root
  BY PlacedFacts
<1>1. PICK p \in Nat, h \in Nat : p = Len(con.path) /\ p > 0 /\ h = Len(ctx)
  <2>1. Len(ctx) \in Nat
    BY DEF Placed
  <2> QED
    BY <1>0, <2>1
<1>n. n > 0
  BY DEF Placed, IsTree
<1>2. Losing!Depth(ctx) = p - 1 + l /\ p - 1 + l <= h
  <2>1. Len(ctx) \in Nat
    BY <1>1
  <2> QED
    BY <1>1, <2>1, DepthFacts
<1>3. sfx = {Losing!Recent(ctx, j) : j \in 1 .. p - 1 + l}
  BY <1>2 DEF Losing!Suffixes
<1>4. /\ tab = [e \in DOMAIN tab |-> tab[e]]
      /\ DOMAIN tab = DOMAIN loss \cup (sfx \X {w})
      /\ \A e \in DOMAIN tab :
           tab[e] = Losing!LossOf(loss, e[1], e[2])
                    + IF e \in sfx \X {w} THEN delta ELSE 0
  BY DEF Losing!Charged
<1>5. /\ \A v \in 0 .. n - 1 : s2[v] = s[v]
      /\ \A i \in 1 .. l : s2[n + i - 1] = Losing!Recent(ctx, p - 1 + i)
  <2> DEFINE r == Older(con, ctx, l)
  <2>1. \A i \in 1 .. l : r[i] = Losing!Recent(ctx, p - 1 + i)
    BY <1>1 DEF Older
  <2> HIDE DEF r
  <2>2. s2 = [v \in 0 .. (n + l) - 1 |-> IF v < n THEN s[v] ELSE r[v - n + 1]]
    BY DEF Lengthened, r
  <2> HIDE DEF s2
  <2>3. ASSUME NEW i \in 1 .. l
        PROVE  s2[n + i - 1] = r[i]
    <3>1. /\ n + i - 1 \in 0 .. (n + l) - 1 /\ ~(n + i - 1 < n)
          /\ (n + i - 1) - n + 1 = i
      OBVIOUS
    <3> QED
      BY <2>2, <3>1
  <2>4. \A v \in 0 .. n - 1 : v \in 0 .. (n + l) - 1 /\ v < n
    OBVIOUS
  <2> QED
    BY <2>1, <2>2, <2>3, <2>4
<1>6. /\ \A v \in 1 .. n - 1 :
           wts2[v] = IF v \in shown THEN Pushed(wts[v], w, delta) ELSE wts[v]
      /\ \A i \in 1 .. l : wts2[n + i - 1] = [u \in {w} |-> delta]
  <2>1. Along(wts2, wts, n, shown, w, delta, l)
    BY <1>n, PushedAlongFacts
  <2> HIDE DEF wts2, shown
  <2> QED
    BY <2>1 DEF Along
<1>7. \A v \in 1 .. n - 1 : s[v] \in sfx <=> v \in shown
  BY SuffixSpelled
<1>8. /\ \A v \in 1 .. n - 1 : \A x :
           /\ <<s[v], x>> \in DOMAIN loss <=> x \in DOMAIN wts[v]
           /\ Losing!LossOf(loss, s[v], x) = Weighs(wts, v, x)
      /\ \A a, x : (\A v \in 1 .. n - 1 : s[v] # a) =>
           /\ <<a, x>> \notin DOMAIN loss
           /\ Losing!LossOf(loss, a, x) = 0
  BY <1>0, TabledLoss
<1>9. \A v \in 1 .. n - 1 : \A x \in DOMAIN wts[v] : wts[v][x] \in Int
  <2>1. ASSUME NEW v \in 1 .. n - 1
        PROVE  \A x \in DOMAIN wts[v] : wts[v][x] \in Int
    <3>1. wts \in Seq(WeightMaps(m)) /\ Len(wts) = n - 1
      BY DEF WeightsFit
    <3>2. wts[v] \in PartialMaps(0 .. m - 1, Int)
      BY <3>1, ElementOfSeq DEF WeightMaps
    <3> QED
      BY <3>2, PartialMap
  <2> QED
    BY <2>1
<1>10. ASSUME NEW i \in 1 .. l
       PROVE  /\ \A v \in 1 .. n - 1 : s[v] # Losing!Recent(ctx, p - 1 + i)
              /\ Losing!Recent(ctx, p - 1 + i) \in sfx
  <2>1. p - 1 + i \in 1 .. p - 1 + l
    BY <1>1
  <2>2. p - 1 + i \in Len(con.path) .. Len(ctx)
    <3>1. p - 1 + i \in p .. h
      BY <1>2
    <3> QED
      BY <1>1, <3>1
  <2>3. \A v \in 0 .. n - 1 : s[v] # Losing!Recent(ctx, p - 1 + i)
    BY <2>2, NotSpelled
  <2> QED
    BY <1>3, <2>1, <2>3
<1>11. ASSUME NEW j \in 1 .. p - 1
       PROVE  \E v \in 1 .. n - 1 : v \in shown /\ s[v] = Losing!Recent(ctx, j)
  <2>1. j + 1 \in 1 .. Len(con.path) /\ (j + 1) - 1 = j
    BY <1>1
  <2>2. PICK v \in 0 .. n - 1 : v = con.path[j + 1]
    BY <1>0, <2>1
  <2>3. s[v] = Losing!Recent(ctx, j)
    BY <1>0, <2>1, <2>2
  <2>4. v # 0
    <3>1. SUFFICES ASSUME v = Root
                   PROVE  FALSE
      BY DEF Root
    <3>2. Losing!Recent(ctx, j) = << >>
      BY <2>3, <3>1 DEF Placed, Spells
    <3>3. Len(Losing!Recent(ctx, j)) = j
      <4>1. j \in 0 .. Len(ctx)
        BY <1>1, <1>2
      <4>2. ctx \in Seq(Nat) /\ Nat \subseteq Nat
        BY DEF Placed
      <4> QED
        BY <4>1, <4>2, RecentFacts
    <3> QED
      BY <3>2, <3>3
  <2>5. v \in shown
    <3>1. con.path \in Seq(0 .. n - 1)
      BY DEF Placed, GoodContext
    <3> QED
      BY <2>1, <2>2, <3>1 DEF ToSet
  <2> QED
    BY <2>3, <2>4, <2>5
<1> HIDE DEF tab, s2, wts2, sfx, shown
<1>d. \A v \in 1 .. n - 1 : DOMAIN Pushed(wts[v], w, delta) = DOMAIN wts[v] \cup {w}
  BY DEF Pushed
<1>u. \A v \in 1 .. n - 1 : v \in 0 .. n - 1 /\ v \in 1 .. (n + l) - 1
  OBVIOUS
<1>v. \A i \in 1 .. l : n + i - 1 \in 1 .. (n + l) - 1
  BY <1>n
<1>w. ASSUME NEW v \in 1 .. (n + l) - 1
      PROVE  v \in 1 .. n - 1 \/ \E i \in 1 .. l : v = n + i - 1
  <2>1. CASE v < n
    BY <2>1
  <2>2. CASE v >= n
    <3>1. v - n + 1 \in 1 .. l /\ v = n + (v - n + 1) - 1
      BY <2>2
    <3> QED
      BY <3>1
  <2> QED
    BY <2>1, <2>2
<1>12. ASSUME NEW e \in DOMAIN tab
       PROVE  \E v \in 1 .. (n + l) - 1 : \E u \in DOMAIN wts2[v] : e = <<s2[v], u>>
  <2>1. CASE e \in DOMAIN loss
    <3>1. PICK v \in 1 .. n - 1 : \E u \in DOMAIN wts[v] : e = <<s[v], u>>
      BY <2>1 DEF Tabled
    <3>2. PICK u \in DOMAIN wts[v] : e = <<s[v], u>>
      BY <3>1
    <3>3. u \in DOMAIN wts2[v]
      BY <1>6, <1>d, <3>2
    <3> QED
      BY <1>5, <1>u, <3>2, <3>3
  <2>2. CASE e \in sfx \X {w}
    <3>1. PICK j \in 1 .. p - 1 + l : e = <<Losing!Recent(ctx, j), w>>
      BY <1>3, <2>2
    <3>2. CASE j \in 1 .. p - 1
      <4>1. PICK v \in 1 .. n - 1 : v \in shown /\ s[v] = Losing!Recent(ctx, j)
        BY <1>11, <3>2
      <4>2. w \in DOMAIN wts2[v]
        BY <1>6, <1>d, <4>1
      <4> QED
        BY <1>5, <1>u, <3>1, <4>1, <4>2
    <3>3. CASE j >= p
      <4>1. PICK i \in 1 .. l : j = p - 1 + i
        <5>1. j - p + 1 \in 1 .. l /\ j = p - 1 + (j - p + 1)
          BY <3>3
        <5> QED
          BY <5>1
      <4>2. s2[n + i - 1] = Losing!Recent(ctx, j)
        BY <1>5, <4>1
      <4>3. w \in DOMAIN wts2[n + i - 1]
        BY <1>6
      <4> QED
        BY <1>v, <3>1, <4>2, <4>3
    <3>4. j \in 1 .. p - 1 \/ j >= p
      OBVIOUS
    <3> QED
      BY <3>2, <3>3, <3>4
  <2> QED
    BY <1>4, <2>1, <2>2
<1>13. ASSUME NEW v \in 1 .. (n + l) - 1, NEW u \in DOMAIN wts2[v]
       PROVE  <<s2[v], u>> \in DOMAIN tab /\ tab[<<s2[v], u>>] = wts2[v][u]
  <2>1. CASE v \in 1 .. n - 1
    <3>1. s2[v] = s[v]
      BY <1>5, <1>u, <2>1
    <3>2. /\ <<s[v], u>> \in DOMAIN loss <=> u \in DOMAIN wts[v]
          /\ Losing!LossOf(loss, s[v], u) = Weighs(wts, v, u)
      BY <1>8, <2>1
    <3>3. <<s[v], u>> \in sfx \X {w} <=> v \in shown /\ u = w
      BY <1>7, <2>1
    <3>4. <<s[v], u>> \in DOMAIN tab
      <4>1. CASE v \in shown
        <5>1. u \in DOMAIN wts[v] \cup {w}
          BY <1>6, <1>d, <2>1, <4>1
        <5> QED
          BY <1>4, <3>2, <3>3, <4>1, <5>1
      <4>2. CASE v \notin shown
        <5>1. u \in DOMAIN wts[v]
          BY <1>6, <2>1, <4>2
        <5> QED
          BY <1>4, <3>2, <5>1
      <4> QED
        BY <4>1, <4>2
    <3>5. tab[<<s[v], u>>] = Losing!LossOf(loss, s[v], u)
                             + IF v \in shown /\ u = w THEN delta ELSE 0
      <4>1. tab[<<s[v], u>>] =
              Losing!LossOf(loss, <<s[v], u>>[1], <<s[v], u>>[2])
              + IF <<s[v], u>> \in sfx \X {w} THEN delta ELSE 0
        BY <1>4, <3>4, Zenon
      <4>2. <<s[v], u>>[1] = s[v] /\ <<s[v], u>>[2] = u
        OBVIOUS
      <4> QED
        BY <3>3, <4>1, <4>2
    <3>6. PICK x \in Int : x = Losing!LossOf(loss, s[v], u) /\ x = Weighs(wts, v, u)
      BY <1>9, <2>1, <3>2 DEF Weighs
    <3>7. tab[<<s[v], u>>] = IF v \in shown /\ u = w THEN x + delta ELSE x
      BY <3>5, <3>6
    <3>8. wts2[v][u] = IF v \in shown /\ u = w THEN x + delta ELSE x
      <4>1. CASE v \in shown
        <5>1. wts2[v] = Pushed(wts[v], w, delta)
          BY <1>6, <2>1, <4>1
        <5>2. wts2[v][u] = IF u # w THEN wts[v][u]
                           ELSE IF w \in DOMAIN wts[v] THEN wts[v][w] + delta ELSE delta
          BY <5>1 DEF Pushed
        <5>3. u # w => u \in DOMAIN wts[v]
          BY <1>d, <2>1, <5>1
        <5>4. CASE u # w
          BY <3>6, <5>2, <5>3, <5>4 DEF Weighs
        <5>5. CASE u = w /\ w \in DOMAIN wts[v]
          BY <3>6, <4>1, <5>2, <5>5 DEF Weighs
        <5>6. CASE u = w /\ w \notin DOMAIN wts[v]
          BY <3>6, <4>1, <5>2, <5>6 DEF Weighs
        <5> QED
          BY <5>4, <5>5, <5>6
      <4>2. CASE v \notin shown
        <5>1. wts2[v] = wts[v]
          BY <1>6, <2>1, <4>2
        <5> QED
          BY <3>6, <4>2, <5>1 DEF Weighs
      <4> QED
        BY <4>1, <4>2
    <3> QED
      BY <3>1, <3>4, <3>7, <3>8
  <2>2. ASSUME NEW i \in 1 .. l, v = n + i - 1
        PROVE  <<s2[v], u>> \in DOMAIN tab /\ tab[<<s2[v], u>>] = wts2[v][u]
    <3>1. PICK a : a = s2[v] /\ a = Losing!Recent(ctx, p - 1 + i)
      BY <1>5, <2>2
    <3>2. a \in sfx /\ \A x \in 1 .. n - 1 : s[x] # a
      BY <1>10, <3>1
    <3>3. wts2[v] = [x \in {w} |-> delta]
      BY <1>6, <2>2
    <3>4. u = w /\ wts2[v][u] = delta
      BY <3>3
    <3>5. <<a, u>> \in sfx \X {w}
      BY <3>2, <3>4
    <3>6. Losing!LossOf(loss, a, u) = 0
      BY <1>8, <3>2
    <3>7. <<a, u>> \in DOMAIN tab
      BY <1>4, <3>5
    <3>8. tab[<<a, u>>] = Losing!LossOf(loss, <<a, u>>[1], <<a, u>>[2])
                          + IF <<a, u>> \in sfx \X {w} THEN delta ELSE 0
      BY <1>4, <3>7, Zenon
    <3>9. <<a, u>>[1] = a /\ <<a, u>>[2] = u
      OBVIOUS
    <3>10. tab[<<a, u>>] = delta
      BY <3>5, <3>6, <3>8, <3>9
    <3> QED
      BY <3>1, <3>4, <3>7, <3>10
  <2> QED
    BY <1>w, <2>1, <2>2
<1>14. Tabled(tab, s2, wts2, n + l)
  <2>1. \A e : (\E v \in 1 .. (n + l) - 1 : \E u \in DOMAIN wts2[v] : e = <<s2[v], u>>)
          => e \in DOMAIN tab
    BY <1>13
  <2>2. \A v \in 1 .. (n + l) - 1 : \A u \in DOMAIN wts2[v] :
          tab[<<s2[v], u>>] = wts2[v][u]
    BY <1>13
  <2>3. tab = [e \in DOMAIN tab |-> tab[e]]
    BY <1>4
  <2> QED
    BY <1>12, <2>1, <2>2, <2>3 DEF Tabled
<1> QED
  BY <1>14 DEF tab, s2, wts2, shown

(* The total loss of a word, context by context.                           *)
Totals(g, a, tab, ctx, w, q) ==
  /\ g[0] = a
  /\ \A i \in 1 .. q :
       g[i] = g[i - 1] + Losing!LossOf(tab, Losing!Recent(ctx, i), w)

(* The total loss of a word, defined by recursion, is what these steps     *)
(* add up to.                                                              *)
LEMMA TotalSteps ==
  ASSUME NEW rw, NEW tab, NEW ctx, NEW w, NEW q \in Nat, q = Losing!Depth(ctx),
         rw[w + 1] \in Int,
         \A i \in 1 .. q : Losing!LossOf(tab, Losing!Recent(ctx, i), w) \in Int
  PROVE  \E g : /\ Totals(g, rw[w + 1], tab, ctx, w, q)
                /\ Losing!Total(rw, tab, ctx, w) = g[q]
<1> DEFINE Step(x, i) == x + Losing!LossOf(tab, Losing!Recent(ctx, i), w)
           a == rw[w + 1]
<1>1. ASSUME NEW x \in Int, NEW i \in 1 .. q
      PROVE  Step(x, i) \in Int
  OBVIOUS
<1> HIDE DEF Step
<1>2. PICK F \in StepFunctions(Int, q) :
        \A x \in Int, i \in 1 .. q : F[<<x, i>>] = Step(x, i)
  <2> DEFINE f == [p \in Int \X (1 .. q) |-> Step(p[1], p[2])]
  <2>1. f \in StepFunctions(Int, q)
    BY <1>1 DEF StepFunctions
  <2>2. \A x \in Int, i \in 1 .. q : f[<<x, i>>] = Step(x, i)
    OBVIOUS
  <2> HIDE DEF f
  <2> QED
    BY <2>1, <2>2
<1>3. PICK g : Stepwise(g, Int, a, F, q)
  <2>1. a \in Int
    OBVIOUS
  <2> HIDE DEF a
  <2> QED
    BY <2>1, StepwiseExists
<1>4. /\ g \in [0 .. q -> Int] /\ g[0] = a
      /\ \A i \in 1 .. q : g[i] = F[<<g[i - 1], i>>]
  BY <1>3 DEF Stepwise
<1>5. ASSUME NEW i \in 1 .. q
      PROVE  g[i] = Step(g[i - 1], i)
  <2>1. g[i - 1] \in Int
    BY <1>4
  <2> QED
    BY <1>2, <1>4, <2>1
<1> DEFINE P(h) == h = [i \in 0 .. q |-> IF i = 0 THEN a ELSE Step(h[i - 1], i)]
           sum == CHOOSE h : P(h)
<1>6. P(g)
  BY <1>4, <1>5
<1>7. P(sum)
  <2> HIDE DEF P
  <2> QED
    BY <1>6, Zenon
<1>8. Losing!Total(rw, tab, ctx, w) = sum[q]
  BY DEF Losing!Total, Step
<1> HIDE DEF sum
<1>9. sum[0] = a
  <2>1. 0 \in 0 .. q
    OBVIOUS
  <2> QED
    BY <1>7, <2>1
<1>10. ASSUME NEW i \in 1 .. q
       PROVE  sum[i] = sum[i - 1] + Losing!LossOf(tab, Losing!Recent(ctx, i), w)
  <2>1. i \in 0 .. q /\ i # 0
    OBVIOUS
  <2>2. sum[i] = Step(sum[i - 1], i)
    BY <1>7, <2>1
  <2> QED
    BY <2>2 DEF Step
<1>11. Totals(sum, rw[w + 1], tab, ctx, w, q)
  BY <1>9, <1>10 DEF Totals
<1> QED
  BY <1>8, <1>11

(* The data of a prediction, the losses at the root and along the path,    *)
(* are the total losses of the words.                                      *)
LEMMA TotalIsLoss ==
  ASSUME NEW con, NEW t, NEW k \in Nat, NEW n \in Nat, NEW s, NEW d, NEW ctx,
         Placed(con, t, k, n, s, d, ctx), NEW m2 \in Nat, NEW wts,
         WeightsFit(wts, n, m2), NEW tab, Tabled(tab, s, wts, n),
         NEW m \in Nat, NEW rw, RootFits(rw, m), NEW w \in 0 .. m - 1
  PROVE  Losing!Total(rw, tab, ctx, w) = Losses(rw, wts, con.path)[w]
<1> DEFINE R(j) == Losing!Recent(ctx, j)
           L(j) == Losing!LossOf(tab, R(j), w)
<1> HIDE DEF R, L
<1>0. /\ Len(con.path) \in Nat /\ Len(con.path) > 0
      /\ Len(con.path) <= Len(ctx) /\ Len(con.path) <= Bound
      /\ \A i \in 1 .. Len(con.path) : con.path[i] \in 0 .. n - 1
      /\ \A i \in 1 .. Len(con.path) :
           s[con.path[i]] = Losing!Recent(ctx, i - 1)
      /\ \A v \in 0 .. n - 1 : \A u \in 0 .. n - 1 : s[u] = s[v] => u = v
      /\ con.path[1] = Root
  BY PlacedFacts
<1>1. PICK p \in Nat, h \in Nat : p = Len(con.path) /\ p > 0 /\ h = Len(ctx)
  <2>1. Len(ctx) \in Nat
    BY DEF Placed
  <2> QED
    BY <1>0, <2>1
<1>2. PICK l \in Nat : Losing!Depth(ctx) = p - 1 + l /\ p - 1 + l <= h
  <2>1. PICK toks : toks = Added(con, Bound)
    OBVIOUS
  <2>2. Len(toks) \in Nat /\ Len(con.path) - 1 + Len(toks) = Losing!Depth(ctx)
    <3>1. AddsOlder(con, k, s, ctx, toks)
      BY <2>1, AddedFollow
    <3> QED
      BY <3>1 DEF AddsOlder
  <2>3. Losing!Depth(ctx) <= Len(ctx)
    BY <1>1, DepthFacts
  <2> QED
    BY <1>1, <2>2, <2>3
<1>3. /\ \A v \in 1 .. n - 1 : \A x :
           /\ <<s[v], x>> \in DOMAIN tab <=> x \in DOMAIN wts[v]
           /\ Losing!LossOf(tab, s[v], x) = Weighs(wts, v, x)
      /\ \A a, x : (\A v \in 1 .. n - 1 : s[v] # a) =>
           /\ <<a, x>> \notin DOMAIN tab
           /\ Losing!LossOf(tab, a, x) = 0
  <2>1. \A v \in 0 .. n - 1 : \A u \in 0 .. n - 1 : s[u] = s[v] => u = v
    BY <1>0
  <2> QED
    BY <2>1, TabledLoss
<1>4. \A v \in 1 .. n - 1 : \A x \in DOMAIN wts[v] : wts[v][x] \in Int
  <2>1. ASSUME NEW v \in 1 .. n - 1
        PROVE  \A x \in DOMAIN wts[v] : wts[v][x] \in Int
    <3>1. wts \in Seq(WeightMaps(m2)) /\ Len(wts) = n - 1
      BY DEF WeightsFit
    <3>2. wts[v] \in PartialMaps(0 .. m2 - 1, Int)
      BY <3>1, ElementOfSeq DEF WeightMaps
    <3> QED
      BY <3>2, PartialMap
  <2> QED
    BY <2>1
<1>5. ASSUME NEW i \in 1 .. p, NEW j \in 1 .. p, con.path[i] = con.path[j]
      PROVE  i = j
  <2>1. d[con.path[i]] = i - 1 /\ d[con.path[j]] = j - 1
    BY <1>1 DEF Placed, GoodContext
  <2> QED
    BY <1>5, <2>1
<1>6. ASSUME NEW i \in 2 .. p
      PROVE  con.path[i] \in 1 .. n - 1
  <2>1. i \in 1 .. p /\ 1 \in 1 .. p /\ i # 1
    OBVIOUS
  <2>2. con.path[i] # con.path[1]
    BY <1>5, <2>1
  <2>3. con.path[i] \in 0 .. n - 1
    BY <1>0, <1>1, <2>1
  <2> QED
    BY <1>0, <2>2, <2>3 DEF Root
<1>7. ASSUME NEW j \in 1 .. p - 1
      PROVE  L(j) = Weighs(wts, con.path[j + 1], w)
  <2>1. j + 1 \in 2 .. p /\ j + 1 \in 1 .. Len(con.path) /\ (j + 1) - 1 = j
    BY <1>1
  <2>2. PICK v \in 1 .. n - 1 : v = con.path[j + 1]
    BY <1>6, <2>1
  <2>3. s[v] = R(j)
    BY <1>0, <2>1, <2>2 DEF R
  <2> QED
    BY <1>3, <2>2, <2>3 DEF L
<1>8. ASSUME NEW j \in p .. p - 1 + l
      PROVE  L(j) = 0
  <2>1. j \in Len(con.path) .. Len(ctx)
    BY <1>1, <1>2
  <2>2. \A v \in 0 .. n - 1 : s[v] # R(j)
    BY <2>1, NotSpelled DEF R
  <2>3. \A v \in 1 .. n - 1 : s[v] # R(j)
    BY <2>2
  <2> QED
    BY <1>3, <2>3 DEF L
<1>9. \A j \in 1 .. p - 1 + l : L(j) \in Int
  <2>1. ASSUME NEW j \in 1 .. p - 1 + l
        PROVE  L(j) \in Int
    <3>1. CASE j \in 1 .. p - 1
      <4>1. j + 1 \in 2 .. p
        BY <3>1
      <4>2. con.path[j + 1] \in 1 .. n - 1
        BY <1>6, <4>1
      <4> QED
        BY <1>4, <1>7, <3>1, <4>2 DEF Weighs
    <3>2. CASE j \in p .. p - 1 + l
      BY <1>8, <3>2
    <3>3. j \in 1 .. p - 1 \/ j \in p .. p - 1 + l
      OBVIOUS
    <3> QED
      BY <3>1, <3>2, <3>3
  <2> QED
    BY <2>1
<1>10. PICK a \in Int : a = rw[w + 1]
  <2>1. rw \in Seq(Int) /\ Len(rw) = m
    BY DEF RootFits
  <2>2. w + 1 \in 1 .. Len(rw)
    BY <2>1
  <2> QED
    BY <2>1, <2>2, ElementOfSeq
<1>11. PICK g : /\ g[0] = a
                /\ \A j \in 1 .. p - 1 + l : g[j] = g[j - 1] + L(j)
                /\ Losing!Total(rw, tab, ctx, w) = g[p - 1 + l]
  <2>1. PICK q \in Nat : q = p - 1 + l
    <3>1. p > 0
      BY <1>1
    <3>2. p - 1 + l \in Nat
      BY <3>1
    <3> QED
      BY <3>2
  <2>2. \A j \in 1 .. q : Losing!LossOf(tab, Losing!Recent(ctx, j), w) \in Int
    BY <1>9, <2>1 DEF L, R
  <2>3. q = Losing!Depth(ctx) /\ rw[w + 1] \in Int
    BY <1>2, <1>10, <2>1
  <2>4. PICK g : /\ Totals(g, rw[w + 1], tab, ctx, w, q)
                 /\ Losing!Total(rw, tab, ctx, w) = g[q]
    BY <2>2, <2>3, TotalSteps
  <2> QED
    BY <1>10, <2>1, <2>4 DEF Totals, L, R
<1> DEFINE Part(j) == {v \in {con.path[i] : i \in 2 .. j + 1} : w \in DOMAIN wts[v]}
<1>12. ASSUME NEW j \in 0 .. p - 1
       PROVE  /\ IsFiniteSet(Part(j))
              /\ \A v \in Part(j) : v \in 1 .. n - 1 /\ wts[v][w] \in Int
              /\ SumAt(wts, w, Part(j)) \in Int
  <2>1. \A v \in Part(j) : v \in 1 .. n - 1 /\ wts[v][w] \in Int
    <3>1. ASSUME NEW v \in Part(j)
          PROVE  v \in 1 .. n - 1 /\ wts[v][w] \in Int
      <4>1. PICK i \in 2 .. j + 1 : v = con.path[i]
        OBVIOUS
      <4>2. i \in 2 .. p
        OBVIOUS
      <4>3. v \in 1 .. n - 1
        BY <1>6, <4>1, <4>2
      <4> QED
        BY <1>4, <4>3
    <3> QED
      BY <3>1
  <2>2. IsFiniteSet(Part(j))
    <3>1. Part(j) \subseteq 1 .. n - 1
      BY <2>1
    <3>2. IsFiniteSet(1 .. n - 1)
      BY FS_Interval
    <3> HIDE DEF Part
    <3> QED
      BY <3>1, <3>2, FS_Subset
  <2> HIDE DEF Part
  <2>3. SumAt(wts, w, Part(j)) \in Int
    BY <2>1, <2>2, SumIsInt
  <2> QED
    BY <2>1, <2>2, <2>3
<1>13. Part(0) = {}
  OBVIOUS
<1>14. ASSUME NEW j \in 1 .. p - 1
       PROVE  SumAt(wts, w, Part(j)) = SumAt(wts, w, Part(j - 1)) + L(j)
  <2>1. j + 1 \in 2 .. p /\ (j - 1) + 1 = j /\ j - 1 \in 0 .. p - 1 /\ j \in 0 .. p - 1
    OBVIOUS
  <2>2. PICK v \in 1 .. n - 1 : v = con.path[j + 1]
    BY <1>6, <2>1
  <2>3. {con.path[i] : i \in 2 .. j + 1} = {con.path[i] : i \in 2 .. j} \cup {v}
    <3>1. \A i \in 2 .. j + 1 : i \in 2 .. j \/ i = j + 1
      OBVIOUS
    <3>2. \A i \in 2 .. j : i \in 2 .. j + 1
      OBVIOUS
    <3>3. j + 1 \in 2 .. j + 1
      OBVIOUS
    <3> QED
      BY <2>2, <3>1, <3>2, <3>3
  <2>4. v \notin {con.path[i] : i \in 2 .. j}
    <3>1. ASSUME NEW i \in 2 .. j
          PROVE  con.path[i] # v
      <4>1. i \in 1 .. p /\ j + 1 \in 1 .. p /\ i # j + 1
        OBVIOUS
      <4> QED
        BY <1>5, <2>2, <4>1
    <3> QED
      BY <3>1
  <2>5. L(j) = Weighs(wts, v, w)
    BY <1>7, <2>2
  <2>6. Part(j - 1) = {x \in {con.path[i] : i \in 2 .. j} : w \in DOMAIN wts[x]}
    BY <2>1
  <2>7. CASE w \in DOMAIN wts[v]
    <3>1. Part(j) = Part(j - 1) \cup {v} /\ v \notin Part(j - 1)
      BY <2>3, <2>4, <2>6, <2>7
    <3>2. L(j) = wts[v][w] /\ wts[v][w] \in Int
      BY <1>4, <2>5, <2>7 DEF Weighs
    <3>3. /\ IsFiniteSet(Part(j - 1))
          /\ \A x \in Part(j - 1) : wts[x][w] \in Int
      BY <1>12, <2>1
    <3> HIDE DEF Part
    <3>4. PICK S : S = Part(j - 1)
      OBVIOUS
    <3>5. SumAt(wts, w, S \cup {v}) = SumAt(wts, w, S) + wts[v][w]
      <4>1. IsFiniteSet(S)
        BY <3>3, <3>4
      <4>2. v \notin S
        BY <3>1, <3>4
      <4>3. \A x \in S \cup {v} : wts[x][w] \in Int
        BY <3>2, <3>3, <3>4
      <4>4. AddsOne(wts, w, S, v)
        BY <4>1, <4>2, <4>3, SumAdds
      <4> QED
        BY <4>4 DEF AddsOne
    <3> QED
      BY <3>1, <3>2, <3>4, <3>5
  <2>8. CASE w \notin DOMAIN wts[v]
    <3>1. Part(j) = Part(j - 1)
      BY <2>3, <2>6, <2>8
    <3>2. L(j) = 0
      BY <2>5, <2>8 DEF Weighs
    <3>3. SumAt(wts, w, Part(j - 1)) \in Int
      BY <1>12, <2>1
    <3> HIDE DEF Part
    <3> QED
      BY <3>1, <3>2, <3>3
  <2> QED
    BY <2>7, <2>8
<1> HIDE DEF Part
<1> DEFINE T == {j \in 0 .. p - 1 : g[j] = a + SumAt(wts, w, Part(j))}
           U == {j \in p - 1 .. p - 1 + l : g[j] = g[p - 1] /\ g[p - 1] \in Int}
<1>15. \A j \in 0 .. p - 1 : j \in T
  <2>1. 0 \in T
    <3>1. SumAt(wts, w, Part(0)) = 0
      BY <1>13, SumNone
    <3> QED
      BY <1>1, <1>11, <3>1
  <2>2. ASSUME NEW j \in 0 .. (p - 1) - 1, j \in T
        PROVE  j + 1 \in T
    <3>1. /\ j + 1 \in 1 .. p - 1 /\ (j + 1) - 1 = j /\ j \in 0 .. p - 1
          /\ j + 1 \in 1 .. p - 1 + l /\ j + 1 \in 0 .. p - 1
      BY <1>1, <1>2
    <3>2. PICK x \in Int : x = SumAt(wts, w, Part(j)) /\ g[j] = a + x
      BY <1>12, <2>2, <3>1
    <3>3. PICK y \in Int : y = L(j + 1)
      BY <1>9, <3>1
    <3>4. SumAt(wts, w, Part(j + 1)) = x + y
      BY <1>14, <3>1, <3>2, <3>3
    <3>5. g[j + 1] = (a + x) + y
      BY <1>11, <3>1, <3>2, <3>3
    <3> QED
      BY <3>1, <3>4, <3>5
  <2>3. Climbs(T, 0, p - 1)
    <3> HIDE DEF T
    <3> QED
      BY <2>1, <2>2 DEF Climbs
  <2> HIDE DEF T
  <2> QED
    BY <1>1, <2>3, IntervalInduction
<1>16. g[p - 1] = a + SumAt(wts, w, Part(p - 1)) /\ SumAt(wts, w, Part(p - 1)) \in Int
  <2>1. p - 1 \in 0 .. p - 1
    BY <1>1
  <2> QED
    BY <1>12, <1>15, <2>1
<1>17. \A j \in p - 1 .. p - 1 + l : j \in U
  <2>1. p - 1 \in U
    BY <1>1, <1>16
  <2>2. ASSUME NEW j \in p - 1 .. (p - 1 + l) - 1, j \in U
        PROVE  j + 1 \in U
    <3>1. /\ j + 1 \in p .. p - 1 + l /\ (j + 1) - 1 = j
          /\ j + 1 \in 1 .. p - 1 + l /\ j + 1 \in p - 1 .. p - 1 + l
      BY <1>1
    <3>2. L(j + 1) = 0
      BY <1>8, <3>1
    <3>3. g[j + 1] = g[j] + 0
      BY <1>11, <3>1, <3>2
    <3> QED
      BY <2>2, <3>1, <3>3
  <2>3. Climbs(U, p - 1, p - 1 + l)
    <3> HIDE DEF U
    <3> QED
      BY <2>1, <2>2 DEF Climbs
  <2> HIDE DEF U
  <2>4. p - 1 \in Int /\ p - 1 + l \in Int
    BY <1>1
  <2> QED
    BY <2>3, <2>4, IntervalInduction
<1>18. Losing!Total(rw, tab, ctx, w) = a + SumAt(wts, w, Part(p - 1))
  <2>1. p - 1 + l \in p - 1 .. p - 1 + l
    BY <1>1
  <2>2. g[p - 1 + l] = g[p - 1]
    BY <1>17, <2>1
  <2> QED
    BY <1>11, <1>16, <2>2
<1>19. Part(p - 1) = {v \in ToSet(con.path) \ {Root} : w \in DOMAIN wts[v]}
  <2>1. ToSet(con.path) = {con.path[i] : i \in 1 .. p}
    <3>1. con.path \in Seq(0 .. n - 1)
      BY DEF Placed, GoodContext
    <3> QED
      BY <1>1, <3>1 DEF ToSet
  <2>2. (p - 1) + 1 = p
    OBVIOUS
  <2>3. {con.path[i] : i \in 2 .. p} = {con.path[i] : i \in 1 .. p} \ {Root}
    <3>1. ASSUME NEW i \in 2 .. p
          PROVE  i \in 1 .. p /\ con.path[i] # Root
      BY <1>6 DEF Root
    <3>2. ASSUME NEW i \in 1 .. p, con.path[i] # Root
          PROVE  i \in 2 .. p
      <4>1. i # 1
        BY <1>0, <3>2
      <4> QED
        BY <4>1
    <3> QED
      BY <3>1, <3>2
  <2> QED
    BY <2>1, <2>2, <2>3 DEF Part
<1>20. Losses(rw, wts, con.path)[w] =
         rw[w + 1] + SumAt(wts, w, {v \in ToSet(con.path) \ {Root} : w \in DOMAIN wts[v]})
  <2>1. w \in 0 .. Len(rw) - 1
    BY DEF RootFits
  <2> QED
    BY <2>1 DEF Losses, SumAt
<1> QED
  BY <1>10, <1>18, <1>19, <1>20

(* finish_predict chooses what the table calls the best word. *)
LEMMA LeastIsBest ==
  ASSUME NEW m \in Nat, m > 0, NEW rw, RootFits(rw, m), NEW limit \in Int,
         NEW data, DOMAIN data = 0 .. m - 1, \A w \in 0 .. m - 1 : data[w] \in Int,
         NEW tab, NEW ctx, \A w \in 0 .. m - 1 : Losing!Total(rw, tab, ctx, w) = data[w]
  PROVE  Losing!Best(rw, tab, ctx, limit, LeastLoss(data, limit))
<1> DEFINE T == {data[w] : w \in DOMAIN data}
           least == Min(T)
           U == {w \in DOMAIN data : data[w] = least}
<1>1. PICK i \in 0 .. m - 1 : \A j \in 0 .. m - 1 : data[i] <= data[j]
  <2>1. \E i \in 0 .. m - 1 : \A j \in 0 .. m - 1 : data[i] <= data[j]
    <3>1. m - 1 \in Nat /\ \A w \in 0 .. m - 1 : data[w] \in Int
      OBVIOUS
    <3> QED
      BY <3>1, LeastOfMany
  <2> QED
    BY <2>1
<1>2. data[i] \in T /\ \A y \in T : data[i] <= y
  BY <1>1
<1>3. least \in T /\ \A y \in T : least <= y
  <2> HIDE DEF T
  <2> QED
    BY <1>2, Zenon DEF Min
<1> HIDE DEF least
<1>4. U \in SUBSET Nat /\ U # {} /\ U \subseteq 0 .. m - 1
  BY <1>3
<1>5. Min(U) \in U /\ \A x \in U : Min(U) <= x
  <2> HIDE DEF U
  <2> QED
    BY <1>4, MinOfNaturals
<1>6. LeastLoss(data, limit) = IF least < limit THEN Min(U) ELSE NullWord
  BY DEF LeastLoss, least
<1>7. PICK b : b = LeastLoss(data, limit)
  OBVIOUS
<1>8. Len(rw) = m
  BY DEF RootFits
<1>9. \A w \in 0 .. m - 1 : least <= data[w]
  BY <1>3
<1>10. least \in Int
  BY <1>3
<1>11. CASE least < limit
  <2>1. b \in 0 .. m - 1 /\ data[b] = least
    BY <1>4, <1>5, <1>6, <1>7, <1>11
  <2>2. \A x \in 0 .. m - 1 : x < b => data[b] # data[x]
    <3>1. ASSUME NEW x \in 0 .. m - 1, x < b, data[b] = data[x]
          PROVE  FALSE
      <4>1. x \in U
        BY <2>1, <3>1
      <4>2. b <= x
        BY <1>5, <1>6, <1>7, <1>11, <4>1
      <4> HIDE DEF U, T
      <4> QED
        BY <2>1, <3>1, <4>2
    <3> QED
      BY <3>1
  <2> HIDE DEF U, T
  <2>3. /\ b \in 0 .. Len(rw) - 1
        /\ Losing!Total(rw, tab, ctx, b) < limit
        /\ \A x \in 0 .. Len(rw) - 1 :
             /\ Losing!Total(rw, tab, ctx, b) <= Losing!Total(rw, tab, ctx, x)
             /\ x < b => Losing!Total(rw, tab, ctx, b) # Losing!Total(rw, tab, ctx, x)
    BY <1>8, <1>9, <1>11, <2>1, <2>2
  <2>4. Losing!Best(rw, tab, ctx, limit, b)
    BY <2>3 DEF Losing!Best
  <2> QED
    BY <1>7, <2>4
<1>12. CASE ~ (least < limit)
  <2> HIDE DEF U, T
  <2>1. b = 0
    BY <1>6, <1>7, <1>12 DEF NullWord
  <2>2. \A x \in 0 .. Len(rw) - 1 : Losing!Total(rw, tab, ctx, x) >= limit
    BY <1>8, <1>9, <1>10, <1>12
  <2>3. Losing!Best(rw, tab, ctx, limit, b)
    BY <2>1, <2>2 DEF Losing!Best
  <2> QED
    BY <1>7, <2>3
<1> QED
  BY <1>11, <1>12

(* Cutting the context drops its oldest word when it is too long. *)
LEMMA TrimmedIs ==
  ASSUME NEW S, NEW c \in Seq(S), NEW w \in S, Len(c) <= Bound
  PROVE  Trimmed(Append(c, w)) =
           IF Len(Append(c, w)) > Bound THEN Tail(Append(c, w)) ELSE Append(c, w)
<1>b. Bound \in Nat /\ Bound > 0
  BY BoundAssumption
<1>1. PICK a : a = Append(c, w)
  OBVIOUS
<1>2. PICK n \in Nat : n = Len(a) /\ n > 0 /\ n <= Bound + 1
  BY <1>b, <1>1
<1>3. a \in Seq(S)
  BY <1>1
<1> DEFINE T == {0, n - Bound}
<1>4. Max(T) = IF n > Bound THEN 1 ELSE 0
  <2>1. \E x \in T : \A y \in T : x >= y
    BY <1>2, <1>b
  <2>2. 0 \in T /\ n - Bound \in T /\ \A x \in T : x = 0 \/ x = n - Bound
    OBVIOUS
  <2> HIDE DEF T
  <2>3. Max(T) \in T /\ \A y \in T : Max(T) >= y
    BY <2>1, Zenon DEF Max
  <2> QED
    BY <1>b, <1>2, <2>2, <2>3
<1>5. Trimmed(a) = SubSeq(a, 1 + Max(T), n)
  <2>1. Trimmed(a) = SubSeq(a, 1 + Max({0, Len(a) - Bound}), Len(a))
    BY DEF Trimmed
  <2> QED
    BY <1>2, <2>1
<1> HIDE DEF T
<1>6. CASE n > Bound
  <2>1. Trimmed(a) = SubSeq(a, 2, n)
    BY <1>4, <1>5, <1>6
  <2>2. Tail(a) = SubSeq(a, 2, n)
    BY <1>2, <1>3
  <2> QED
    BY <1>1, <1>2, <1>6, <2>1, <2>2
<1>7. CASE ~ (n > Bound)
  <2>1. Trimmed(a) = SubSeq(a, 1, n)
    BY <1>4, <1>5, <1>7
  <2>2. a = SubSeq(a, 1, n)
    BY <1>2, <1>3
  <2> QED
    BY <1>1, <1>2, <1>7, <2>1, <2>2
<1> QED
  BY <1>6, <1>7

(* validate_id accepts the ids of the contexts in use, and no other that   *)
(* the model can hold.                                                     *)
LEMMA ValidIsActive ==
  ASSUME NEW p, IsPartition(p), NEW id \in GoodIds
  PROVE  ValidId(p, id) <=> id \in ToSet(p.active)
<1>1. ValidId(p, id) => id \in ToSet(p.active)
  BY ValidIdIsActive DEF GoodIds
<1>2. ASSUME id \in ToSet(p.active)
      PROVE  ValidId(p, id)
  <2>1. id \in ContextIds /\ id \notin ToSet(p.inactive)
    BY <1>2, PartitionFacts
  <2>2. id <= MaxContexts
    BY <2>1, MaxContextsAssumption DEF ContextIds
  <2> QED
    BY <2>1, <2>2 DEF ValidId
<1> QED
  BY <1>1, <1>2

(* Only the root has token 0. *)
Positive(t, n) == \A v \in 1 .. n - 1 : t[v + 1].token >= 1

(* What a tree and its weights must be for a table to stand for them, as   *)
(* reinforce and regret leave them.                                        *)
Told(r, tab) ==
  /\ Stands(tab, r.tree, Len(r.tree), r.weights)
  /\ Tagged(r.tree, Len(r.tree))
  /\ Positive(r.tree, Len(r.tree))

(* The vertices added below the leaf have tokens of words. *)
LEMMA ChainPositive ==
  ASSUME NEW k \in Nat, NEW t, NEW n \in Nat, n > 0, NEW leaf,
         NEW toks \in Seq(1 .. k - 1), NEW kept,
         NEW t2, Grafted(t2, t, n, leaf, toks, kept), Positive(t, n)
  PROVE  Positive(t2, n + Len(toks))
<1>a. ASSUME NEW i \in 1 .. Len(toks)
      PROVE  t2[n + i].token = toks[i]
  <2>1. t2[n + i] = ChainNode(n, toks, i)
    BY DEF Grafted
  <2>2. ChainNode(n, toks, i).token = toks[i]
    BY DEF ChainNode
  <2> QED
    BY <2>1, <2>2
<1>1. ASSUME NEW v \in 1 .. (n + Len(toks)) - 1
      PROVE  t2[v + 1].token >= 1
  <2>1. CASE v < n
    <3>1. v \in 0 .. n - 1 /\ v \in 1 .. n - 1
      BY <2>1
    <3>2. t2[v + 1].token = t[v + 1].token
      BY <3>1 DEF Grafted
    <3> QED
      BY <3>1, <3>2 DEF Positive
  <2>2. CASE v >= n
    <3>1. PICK i \in 1 .. Len(toks) : i = v - n + 1 /\ n + i = v + 1
      BY <2>2
    <3>2. t2[n + i].token = toks[i]
      BY <1>a
    <3>3. toks[i] \in 1 .. k - 1
      BY <3>1, ElementOfSeq
    <3> QED
      BY <3>1, <3>2, <3>3
  <2>3. v < n \/ v >= n
    OBVIOUS
  <2> QED
    BY <2>1, <2>2, <2>3
<1> QED
  BY <1>1 DEF Positive

(* Learning under the id of the current prediction charges the word in     *)
(* every context that prediction was made in.                              *)
LEMMA LearnedTold ==
  ASSUME NEW k \in Nat, NEW m \in Nat, NEW ctx, ctx \in Seq(Nat), Len(ctx) <= Bound,
         Sound(Now, contexts, k, Len(ctx), m),
         IsTrie(tree, Len(tree)), Told(Now, loss),
         NEW id \in ToSet(pool.active), FreshFor(tree, contexts[id]),
         NEW s, Spells(tree, Len(tree), s), Follows(contexts[id], s, ctx),
         NEW w, NEW delta \in Int, NEW kept
  PROVE  Told(Learned(id, w, delta, kept), Losing!Charged(ctx, w, delta))
<1>1. PICK con : con = contexts[id]
  OBVIOUS
<1>n. PICK n \in Nat : n > 0 /\ n = Len(tree)
  BY DEF Sound, Now, IsTree
<1>2. /\ IsTree(tree, k) /\ WeightsFit(weights, n, m) /\ IsPartition(pool)
  BY <1>n DEF Sound, Now
<1>3. PICK d : Fits(tree, d, k, Len(ctx), contexts, ToSet(pool.active))
  BY DEF Sound, Now
<1>4. GoodContext(con, k, n, d, Len(ctx)) /\ Shallow(d, n, Len(ctx))
  BY <1>1, <1>n, <1>3 DEF Fits
<1>5. Placed(con, tree, k, n, s, d, ctx)
  BY <1>1, <1>n, <1>2, <1>4 DEF Placed
<1>6. PICK toks : toks = Added(con, Bound)
  OBVIOUS
<1>7. /\ toks \in Seq(0 .. k - 1) /\ Len(toks) \in Nat
      /\ Len(con.path) - 1 + Len(toks) = Losing!Depth(ctx)
      /\ toks # << >> => Continues(Older(con, ctx, Len(toks)), s[con.leaf], toks)
  <2>1. AddsOlder(con, k, s, ctx, toks)
    BY <1>5, <1>6, AddedFollow
  <2> QED
    BY <2>1 DEF AddsOlder
<1>8. /\ toks \in Seq(1 .. k - 1)
      /\ con.leaf \in 0 .. n - 1
      /\ toks # << >> => toks[1] = con.additions[1]
  <2>1. Len(ctx) \in Nat
    OBVIOUS
  <2> QED
    BY <1>4, <1>6, <2>1, AddedFacts
<1>9. PICK l \in Nat : l = Len(toks) /\ DOMAIN toks = 1 .. l
  BY <1>8, LenProperties
<1>10. Stands(loss, tree, n, weights) /\ Tagged(tree, n) /\ Positive(tree, n)
  BY <1>n DEF Told, Now
<1>11. Tabled(loss, s, weights, n)
  <2>1. PICK r : Spells(tree, n, r) /\ Tabled(loss, r, weights, n)
    BY <1>10 DEF Stands
  <2>2. r = s
    BY <1>n, <1>2, <2>1, SpellingsAgree
  <2> QED
    BY <2>1, <2>2
<1>12. Tabled(Losing!Charged(ctx, w, delta), Lengthened(s, n, Older(con, ctx, l), l),
              PushedAlong(weights, ToSet(con.path), w, delta, l), n + l)
  BY <1>2, <1>5, <1>7, <1>9, <1>11, ChargedTabled
<1>13. PICK t2 : t2 = WithChain(tree, con.leaf, toks, kept)
  OBVIOUS
<1>14. /\ Learned(id, w, delta, kept).tree = t2
       /\ Learned(id, w, delta, kept).weights =
            PushedAlong(weights, ToSet(con.path), w, delta, l)
  <2>1. ValidId(pool, id)
    <3>1. id \in ContextIds
      BY <1>2, PartitionFacts
    <3>2. id \in GoodIds
      BY <3>1, MaxContextsAssumption DEF ContextIds, GoodIds
    <3> QED
      BY <1>2, <3>2, ValidIsActive
  <2>2. Shown(con) = con.path
    <3>1. Len(ctx) \in Nat
      OBVIOUS
    <3> QED
      BY <1>4, <3>1, ShownIsPath
  <2>3. Learned(id, w, delta, kept) =
          [tree |-> t2, pool |-> Deactivated(pool, id),
           weights |-> [v \in DOMAIN weights |->
                          IF v \in ToSet(con.path)
                            THEN Pushed(weights[v], w, delta) ELSE weights[v]]
                       \o [i \in DOMAIN toks |-> [u \in {w} |-> delta]],
           root_weights |-> RootPushed(root_weights, w, delta)]
    BY <1>1, <1>6, <1>13, <2>1, <2>2 DEF Learned
  <2> QED
    BY <1>9, <2>3 DEF PushedAlong
<1>15. CASE toks = << >>
  <2>1. l = 0 /\ t2 = tree
    BY <1>9, <1>13, <1>15 DEF WithChain
  <2>2. Lengthened(s, n, Older(con, ctx, l), l) = s
    <3>1. s = [v \in 0 .. n - 1 |-> s[v]]
      BY <1>n DEF Spells
    <3>2. (n + l) - 1 = n - 1
      BY <2>1
    <3>3. Lengthened(s, n, Older(con, ctx, l), l) =
            [v \in 0 .. n - 1 |-> IF v < n THEN s[v] ELSE Older(con, ctx, l)[v - n + 1]]
      BY <3>2 DEF Lengthened
    <3>4. \A v \in 0 .. n - 1 : v < n
      OBVIOUS
    <3> QED
      BY <3>1, <3>3, <3>4
  <2>3. n + l = n
    BY <2>1
  <2>4. Tabled(Losing!Charged(ctx, w, delta), s,
               PushedAlong(weights, ToSet(con.path), w, delta, l), n)
    BY <1>12, <2>2, <2>3
  <2>5. Stands(Losing!Charged(ctx, w, delta), tree, n,
               PushedAlong(weights, ToSet(con.path), w, delta, l))
    BY <1>n, <2>4 DEF Stands
  <2> QED
    BY <1>n, <1>10, <1>14, <2>1, <2>5 DEF Told
<1>16. CASE toks # << >>
  <2>1. IsTree(t2, k) /\ Grafted(t2, tree, n, con.leaf, toks, kept)
    BY <1>n, <1>2, <1>7, <1>8, <1>13, <1>16, ChainGrafted
  <2>2. ChildOf(tree, con.leaf, toks[1]) = NoVertex
    BY <1>1, <1>8, <1>16 DEF FreshFor
  <2>3. Tagged(t2, n + l)
    BY <1>n, <1>2, <1>7, <1>8, <1>9, <1>10, <1>16, <2>1, <2>2, ChainTagged
  <2>4. Positive(t2, n + l)
    BY <1>n, <1>8, <1>9, <1>10, <2>1, ChainPositive
  <2>5. Spells(t2, n + l, Lengthened(s, n, Older(con, ctx, l), l))
    <3>1. Continues(Older(con, ctx, l), s[con.leaf], toks)
      BY <1>7, <1>9, <1>16
    <3>2. Spells(tree, n, s)
      BY <1>n
    <3> QED
      BY <1>n, <1>2, <1>7, <1>8, <1>9, <1>16, <2>1, <3>1, <3>2, ChainSpells
  <2>6. Len(t2) = n + l
    BY <1>9, <2>1 DEF Grafted
  <2>7. Stands(Losing!Charged(ctx, w, delta), t2, n + l,
               PushedAlong(weights, ToSet(con.path), w, delta, l))
    BY <1>12, <2>5 DEF Stands
  <2> QED
    BY <1>14, <2>3, <2>4, <2>6, <2>7 DEF Told
<1> QED
  BY <1>15, <1>16

(* Printing the tree changes nothing of what it tells. *)
LEMMA PrintedTold ==
  ASSUME NEW k \in Nat, NEW r, IsTree(r.tree, k), NEW tab, Told(r, tab),
         NEW r2, Printed(r2.tree, r.tree, Len(r.tree)), r2.weights = r.weights
  PROVE  Told(r2, tab)
<1>n. PICK n \in Nat : n > 0 /\ n = Len(r.tree)
  BY DEF IsTree
<1>1. Len(r2.tree) = n /\ Printed(r2.tree, r.tree, n)
  BY <1>n DEF Printed
<1>2. Stands(tab, r.tree, n, r.weights) /\ Tagged(r.tree, n) /\ Positive(r.tree, n)
  BY <1>n DEF Told
<1>3. PICK s : Spells(r.tree, n, s) /\ Tabled(tab, s, r.weights, n)
  BY <1>2 DEF Stands
<1>4. Spells(r2.tree, n, s)
  BY <1>1, <1>3, PrintedSpells
<1>5. Stands(tab, r2.tree, n, r2.weights)
  BY <1>3, <1>4 DEF Stands
<1>6. Tagged(r2.tree, n)
  BY <1>n, <1>1, <1>2, PrintedTagged
<1>7. Positive(r2.tree, n)
  <2>1. \A v \in 1 .. n - 1 : r2.tree[v + 1].token = r.tree[v + 1].token
    BY <1>1 DEF Printed
  <2> QED
    BY <1>2, <2>1 DEF Positive
<1> QED
  BY <1>1, <1>5, <1>6, <1>7 DEF Told

(* The words have their tokens in order. *)
LEMMA WordOfToken ==
  ASSUME NEW m \in Nat, data_map = TokensUpto(m), NEW tok \in 1 .. m - 2
  PROVE  WordWith(tok) = tok + 1
<1>1. DOMAIN data_map = 2 .. m - 1 /\ \A w \in 2 .. m - 1 : data_map[w] = w - 1
  BY DEF TokensUpto
<1>2. tok + 1 \in 2 .. m - 1 /\ (tok + 1) - 1 = tok
  OBVIOUS
<1>3. \E w \in DOMAIN data_map : data_map[w] = tok
  BY <1>1, <1>2
<1>4. WordWith(tok) \in DOMAIN data_map /\ data_map[WordWith(tok)] = tok
  <2>1. \A x : x = WordWith(tok) => x \in DOMAIN data_map /\ data_map[x] = tok
    BY <1>3 DEF WordWith
  <2> QED
    BY <2>1
<1>5. PICK x \in 2 .. m - 1 : x = WordWith(tok) /\ x - 1 = tok
  BY <1>1, <1>4
<1> QED
  BY <1>5

(* The parent that Spelled looks for is the one vertex above. *)
LEMMA ParentIs ==
  ASSUME NEW k \in Nat, IsTree(tree, k), NEW n \in Nat, n = Len(tree),
         IsTrie(tree, n), NEW v \in 1 .. n - 1
  PROVE  ParentOf(v) \in 0 .. v - 1 /\ v \in Children(tree, ParentOf(v))
<1>0. PICK t : t = tree
  OBVIOUS
<1>1. PICK p \in 0 .. v - 1 : v \in Children(tree, p)
  <2>1. IsTree(t, k) /\ n = Len(t) /\ IsTrie(t, n)
    BY <1>0
  <2>2. \E p \in 0 .. v - 1 :
           /\ p \in 0 .. n - 1 /\ v \in Children(t, p)
           /\ ChildOf(t, p, t[v + 1].token) = v
           /\ \A u \in 0 .. n - 1 : v \in Children(t, u) => u = p
    BY <2>1, TrieParent
  <2> QED
    BY <1>0, <2>2
<1> DEFINE P == {u \in 0 .. v - 1 : v \in Children(tree, u)}
<1>2. p \in P
  BY <1>1
<1>3. ParentOf(v) = CHOOSE u \in P : TRUE
  BY <1>2 DEF ParentOf
<1>4. ParentOf(v) \in P
  <2> HIDE DEF P
  <2> QED
    BY <1>2, <1>3
<1> QED
  BY <1>4

(* Spelled is the spelling. *)
LEMMA SpelledIs ==
  ASSUME NEW m \in Nat, m >= 2, data_map = TokensUpto(m), IsTree(tree, m - 1),
         NEW n \in Nat, n = Len(tree), IsTrie(tree, n), Positive(tree, n),
         NEW s, Spells(tree, n, s)
  PROVE  Spelled = s
<1>k. PICK k \in Nat : k = m - 1
  OBVIOUS
<1>1. IsTree(tree, k) /\ n > 0
  BY <1>k DEF IsTree
<1>2. Vertices = 0 .. n - 1
  BY DEF Vertices
<1> DEFINE F(h) == [v \in Vertices |->
                      IF v = Root THEN << >>
                      ELSE Append(h[ParentOf(v)], WordWith(tree[v + 1].token))]
           P(h) == h = F(h)
           f == CHOOSE h : P(h)
<1>3. ASSUME NEW v \in 1 .. n - 1
      PROVE  /\ ParentOf(v) \in 0 .. v - 1 /\ ParentOf(v) \in 0 .. n - 1
             /\ s[v] = Append(s[ParentOf(v)], WordWith(tree[v + 1].token))
  <2>1. PICK p \in 0 .. v - 1 : p = ParentOf(v) /\ v \in Children(tree, p)
    BY <1>1, ParentIs
  <2>2. p \in 0 .. n - 1
    OBVIOUS
  <2>3. s[v] = Append(s[p], tree[v + 1].token + 1)
    BY <2>1, <2>2 DEF Spells
  <2>4. tree[v + 1].token \in 0 .. k - 1
    BY <1>1, NodeFacts
  <2>5. tree[v + 1].token >= 1
    BY DEF Positive
  <2>6. tree[v + 1].token \in 1 .. m - 2
    BY <1>k, <2>4, <2>5
  <2>7. WordWith(tree[v + 1].token) = tree[v + 1].token + 1
    BY <2>6, WordOfToken
  <2> QED
    BY <2>1, <2>2, <2>3, <2>7
<1>4. s = [v \in 0 .. n - 1 |-> s[v]] /\ s[Root] = << >>
  BY DEF Spells
<1>5. P(s)
  <2>1. \A v \in 0 .. n - 1 :
          s[v] = IF v = Root THEN << >>
                 ELSE Append(s[ParentOf(v)], WordWith(tree[v + 1].token))
    <3>1. ASSUME NEW v \in 0 .. n - 1, v # Root
          PROVE  s[v] = Append(s[ParentOf(v)], WordWith(tree[v + 1].token))
      <4>1. v \in 1 .. n - 1
        BY <3>1 DEF Root
      <4> QED
        BY <1>3, <4>1
    <3> QED
      BY <1>4, <3>1
  <2> QED
    BY <1>2, <1>4, <2>1, Zenon
<1>6. Spelled = f
  BY DEF Spelled
<1>7. P(f)
  <2> HIDE DEF P
  <2> QED
    BY <1>5, Zenon
<1> HIDE DEF f
<1>8. /\ DOMAIN f = 0 .. n - 1
      /\ f = [v \in 0 .. n - 1 |-> f[v]]
      /\ f[Root] = << >>
      /\ \A v \in 1 .. n - 1 :
           f[v] = Append(f[ParentOf(v)], WordWith(tree[v + 1].token))
  <2>1. DOMAIN f = 0 .. n - 1 /\ f = [v \in 0 .. n - 1 |-> f[v]]
    BY <1>2, <1>7
  <2>2. Root \in 0 .. n - 1
    BY <1>1 DEF Root
  <2>3. f[Root] = << >>
    BY <1>2, <1>7, <2>2
  <2>4. \A v \in 1 .. n - 1 : v \in 0 .. n - 1 /\ v # Root
    BY DEF Root
  <2>5. \A v \in 1 .. n - 1 :
          f[v] = Append(f[ParentOf(v)], WordWith(tree[v + 1].token))
    BY <1>2, <1>7, <2>4
  <2> QED
    BY <2>1, <2>3, <2>5
<1> HIDE DEF P, F
<1>9. \A v \in 0 .. n - 1 : f[v] = s[v]
  <2> DEFINE off == {v \in 0 .. n - 1 : f[v] # s[v]}
  <2>1. SUFFICES ASSUME off # {}
                 PROVE  FALSE
    OBVIOUS
  <2>2. off \in SUBSET Nat
    OBVIOUS
  <2>3. PICK v \in off : \A u \in off : v <= u
    BY <2>1, <2>2, LeastNatural, Zenon
  <2>4. v \in 0 .. n - 1 /\ f[v] # s[v]
    BY <2>3
  <2>5. v \in 1 .. n - 1
    BY <1>4, <1>8, <2>4 DEF Root
  <2>6. PICK p \in 0 .. v - 1 : p = ParentOf(v) /\ p \in 0 .. n - 1
    BY <1>3, <2>5
  <2>7. p \notin off
    <3>1. ~ (v <= p)
      BY <2>5
    <3> HIDE DEF off
    <3> QED
      BY <2>3, <3>1
  <2>8. f[p] = s[p]
    BY <2>6, <2>7
  <2> QED
    BY <1>3, <1>8, <2>4, <2>5, <2>6, <2>8
<1> QED
  BY <1>4, <1>6, <1>8, <1>9

(* Table stands for the weights of the tree. *)
LEMMA TableStands ==
  ASSUME NEW m \in Nat, m >= 2, data_map = TokensUpto(m), IsTree(tree, m - 1),
         NEW n \in Nat, n = Len(tree), IsTrie(tree, n), Positive(tree, n),
         DOMAIN weights = 1 .. n - 1, NEW s, Spells(tree, n, s)
  PROVE  Tabled(Table, s, weights, n)
<1>k. PICK k \in Nat : k = m - 1
  OBVIOUS
<1>1. IsTree(tree, k) /\ n > 0
  BY <1>k DEF IsTree
<1>2. \A v \in 0 .. n - 1 : \A u \in 0 .. n - 1 : s[u] = s[v] => u = v
  BY <1>1, SpellingInjective
<1>3. Spelled = s
  BY SpelledIs
<1> DEFINE E == UNION {{s[v]} \X DOMAIN weights[v] : v \in 1 .. n - 1}
           V(a) == CHOOSE v \in 1 .. n - 1 : s[v] = a
<1>4. Table = [e \in E |-> weights[V(e[1])][e[2]]]
  BY <1>3 DEF Table
<1>5. \A v \in 1 .. n - 1 : V(s[v]) = v
  <2>1. ASSUME NEW v \in 1 .. n - 1
        PROVE  V(s[v]) = v
    <3>1. V(s[v]) \in 1 .. n - 1 /\ s[V(s[v])] = s[v]
      <4>1. \E u \in 1 .. n - 1 : s[u] = s[v]
        OBVIOUS
      <4> QED
        BY <4>1
    <3>2. V(s[v]) \in 0 .. n - 1 /\ v \in 0 .. n - 1
      BY <3>1
    <3> HIDE DEF V
    <3> QED
      BY <1>2, <3>1, <3>2
  <2> QED
    BY <2>1
<1> HIDE DEF V
<1>6. \A e : e \in E <=>
               \E v \in 1 .. n - 1 : \E w \in DOMAIN weights[v] : e = <<s[v], w>>
  OBVIOUS
<1>7. \A v \in 1 .. n - 1 : \A w \in DOMAIN weights[v] :
        Table[<<s[v], w>>] = weights[v][w]
  <2>1. ASSUME NEW v \in 1 .. n - 1, NEW w \in DOMAIN weights[v]
        PROVE  Table[<<s[v], w>>] = weights[v][w]
    <3>1. <<s[v], w>> \in E
      OBVIOUS
    <3>2. <<s[v], w>>[1] = s[v] /\ <<s[v], w>>[2] = w
      OBVIOUS
    <3> HIDE DEF E
    <3> QED
      BY <1>4, <1>5, <3>1, <3>2
  <2> QED
    BY <2>1
<1> HIDE DEF E
<1>8. DOMAIN Table = E /\ Table = [e \in DOMAIN Table |-> Table[e]]
  BY <1>4
<1> QED
  BY <1>6, <1>7, <1>8 DEF Tabled

(* The tokens along a path are those of the q most recent words. *)
TokensAlong(path, q, t, dm, frag) ==
  \A i \in 1 .. q : t[path[i + 1] + 1].token = dm[Recent(frag, i)]

(* A vertex of the path of a new context has the token of the word it      *)
(* stands for.                                                             *)
LEMMA PathTokens ==
  ASSUME NEW k \in Nat, NEW t, IsTree(t, k), NEW n \in Nat, n = Len(t), Tagged(t, n),
         NEW dm, NEW next, NEW D, NEW frag \in Seq(D), NEW con,
         con = ContextOf(t, dm, next, frag), NEW q, q = Matched(t, dm, frag)
  PROVE  /\ q \in 0 .. Len(frag)
         /\ \A i \in 1 .. q : Recent(frag, i) \in DOMAIN dm
         /\ TokensAlong(con.path, q, t, dm, frag)
<1>1. PICK walk : walk = Walk(t, dm, frag)
  OBVIOUS
<1>f. PICK f \in Nat : f = Len(frag)
  OBVIOUS
<1>2. /\ q \in 0 .. f
      /\ \A i \in 0 .. q : walk[i] \in 0 .. n - 1
      /\ \A i \in 1 .. q : Recent(frag, i) \in DOMAIN dm
  BY <1>1, <1>f, MatchedFacts
<1>3. \A i \in 1 .. f :
        walk[i] = IF walk[i - 1] = NoVertex \/ Recent(frag, i) \notin DOMAIN dm
                  THEN NoVertex
                  ELSE ChildOf(t, walk[i - 1], dm[Recent(frag, i)])
  BY <1>1, <1>f, WalkSteps
<1>4. con.path = [i \in 1 .. q + 1 |-> walk[i - 1]]
  BY <1>1 DEF ContextOf
<1>5. ASSUME NEW i \in 1 .. q
      PROVE  t[con.path[i + 1] + 1].token = dm[Recent(frag, i)]
  <2>1. i \in 1 .. f /\ i \in 0 .. q /\ i - 1 \in 0 .. q /\ i + 1 \in 1 .. q + 1
        /\ (i + 1) - 1 = i
    BY <1>2
  <2>2. con.path[i + 1] = walk[i]
    BY <1>4, <2>1
  <2>3. PICK u \in 0 .. n - 1 : u = walk[i - 1]
    BY <1>2, <2>1
  <2>4. PICK v \in 0 .. n - 1 : v = walk[i]
    BY <1>2, <2>1
  <2>5. v # NoVertex /\ u # NoVertex
    BY DEF NoVertex
  <2>6. PICK x : x = dm[Recent(frag, i)]
    OBVIOUS
  <2>7. v = ChildOf(t, u, x)
    BY <1>3, <2>1, <2>3, <2>4, <2>5, <2>6
  <2>8. t[v + 1].token = x
    BY <2>5, <2>7 DEF Tagged
  <2> QED
    BY <2>2, <2>4, <2>6, <2>8
<1> QED
  BY <1>f, <1>2, <1>5 DEF TokensAlong

(* A new context follows the words it is made for. *)
LEMMA NewContextFollows ==
  ASSUME NEW k \in Nat, NEW t, IsTree(t, k), NEW n \in Nat, n = Len(t), Tagged(t, n),
         NEW s, Spells(t, n, s), NEW d, Depths(t, d),
         NEW b \in Nat, NEW m \in Nat, NEW dm, dm = TokensUpto(b), NEW next,
         NEW ctx \in Seq(2 .. m - 1), DataMapAfter(t, dm, next, ctx) = TokensUpto(m)
  PROVE  Follows(ContextOf(t, dm, next, ctx), s, ctx)
<1>1. PICK con : con = ContextOf(t, dm, next, ctx)
  OBVIOUS
<1>2. PICK q : q = Matched(t, dm, ctx)
  OBVIOUS
<1>f. PICK f \in Nat : f = Len(ctx)
  OBVIOUS
<1> DEFINE D == 2 .. m - 1
<1>3. ctx \in Seq(D)
  OBVIOUS
<1>d. D \subseteq Nat
  OBVIOUS
<1>4. \A i \in 1 .. f : Recent(ctx, i) \in 2 .. m - 1
  <2>1. ASSUME NEW i \in 1 .. f
        PROVE  Recent(ctx, i) \in D
    <3>1. f - i + 1 \in 1 .. f
      OBVIOUS
    <3> HIDE DEF D
    <3> QED
      BY <1>3, <1>f, <3>1, ElementOfSeq DEF Recent
  <2> QED
    BY <2>1
<1> HIDE DEF D
<1>5. Remembers(con, t, dm, TokensUpto(m), ctx, q)
  BY <1>1, <1>2, <1>3, ContextFacts
<1>6. /\ q \in 0 .. f
      /\ \A i \in 1 .. q : Recent(ctx, i) \in DOMAIN dm
      /\ \A i \in 1 .. q : t[con.path[i + 1] + 1].token = dm[Recent(ctx, i)]
  <2>1. q \in 0 .. Len(ctx)
    BY <1>1, <1>2, <1>3, PathTokens
  <2>2. \A i \in 1 .. q : Recent(ctx, i) \in DOMAIN dm
    BY <1>1, <1>2, <1>3, PathTokens
  <2>3. TokensAlong(con.path, q, t, dm, ctx)
    BY <1>1, <1>2, <1>3, PathTokens
  <2> QED
    BY <1>f, <2>1, <2>2, <2>3 DEF TokensAlong
<1>7. /\ con.path \in Seq(0 .. n - 1)
      /\ Len(con.path) = q + 1
      /\ con.path[1] = Root
      /\ \A i \in 1 .. q : con.path[i + 1] \in Children(t, con.path[i])
      /\ \A i \in 1 .. f - q : con.additions[i] = TokensUpto(m)[Recent(ctx, q + i)]
      /\ con.additions = [i \in 1 .. f - q |-> con.additions[i]]
  BY <1>5, <1>f DEF Remembers
<1>8. Len(con.additions) = f - q
  <2>1. f - q \in Nat
    BY <1>6
  <2> QED
    BY <1>7, <2>1
<1>9. \A i \in 1 .. q + 1 : con.path[i] \in 0 .. n - 1
  BY <1>7, ElementOfSeq
<1> DEFINE R(j) == Losing!Recent(ctx, j)
           T == {i \in 1 .. q + 1 : s[con.path[i]] = R(i - 1)}
<1>10. 1 \in T
  <2>1. PICK e : e = Losing!Recent(ctx, 0)
    OBVIOUS
  <2>2. e \in Seq(Nat) /\ Len(e) = 0
    <3>1. 0 \in 0 .. Len(ctx)
      BY <1>f
    <3> QED
      BY <1>3, <1>d, <2>1, <3>1, RecentFacts
  <2>3. e = << >>
    BY <2>2
  <2>4. s[con.path[1]] = << >>
    BY <1>7 DEF Spells
  <2>5. 1 \in 1 .. q + 1 /\ 1 - 1 = 0
    BY <1>6
  <2> QED
    BY <2>1, <2>3, <2>4, <2>5
<1>11. ASSUME NEW i \in 1 .. (q + 1) - 1, i \in T
       PROVE  i + 1 \in T
  <2>1. /\ i \in 1 .. q /\ i \in 1 .. q + 1 /\ i + 1 \in 1 .. q + 1 /\ i \in 1 .. f
        /\ (i + 1) - 1 = i /\ i \in 0 .. Len(ctx) /\ i > 0
    <3> HIDE DEF T
    <3>1. q \in 0 .. f
      BY <1>6
    <3>2. /\ i \in 1 .. q /\ i \in 1 .. q + 1 /\ i + 1 \in 1 .. q + 1 /\ i \in 1 .. f
          /\ (i + 1) - 1 = i /\ i \in 0 .. f /\ i > 0
      BY <3>1
    <3> QED
      BY <1>f, <3>2
  <2>2. PICK u \in 0 .. n - 1 : u = con.path[i]
    BY <1>9, <2>1
  <2>3. PICK v \in 0 .. n - 1 : v = con.path[i + 1]
    BY <1>9, <2>1
  <2>4. v \in Children(t, u)
    BY <1>7, <2>1, <2>2, <2>3
  <2>5. v \in 1 .. n - 1
    <3>1. d[v] = d[u] + 1 /\ d[u] \in Nat /\ d[Root] = 0
      BY <2>4 DEF Depths
    <3>2. v # Root
      BY <3>1
    <3> QED
      BY <3>2 DEF Root
  <2>6. s[v] = Append(s[u], t[v + 1].token + 1)
    BY <2>4, <2>5 DEF Spells
  <2>7. t[v + 1].token = dm[Recent(ctx, i)] /\ Recent(ctx, i) \in DOMAIN dm
    BY <1>6, <2>1, <2>3
  <2>8. PICK w \in 2 .. m - 1 : w = Recent(ctx, i)
    BY <1>4, <2>1
  <2>9. dm[w] = w - 1
    BY <2>7, <2>8 DEF TokensUpto
  <2>10. t[v + 1].token + 1 = Recent(ctx, i)
    BY <2>7, <2>8, <2>9
  <2>11. Losing!Recent(ctx, i) = Append(Losing!Recent(ctx, i - 1), Recent(ctx, i))
    BY <1>3, <1>d, <2>1, RecentFacts
  <2>12. s[u] = Losing!Recent(ctx, i - 1)
    BY <1>11, <2>2
  <2>13. s[v] = R(i)
    BY <2>6, <2>10, <2>11, <2>12
  <2> QED
    BY <2>1, <2>3, <2>13
<1>12. \A i \in 1 .. q + 1 : i \in T
  <2>1. Climbs(T, 1, q + 1)
    <3> HIDE DEF T
    <3> QED
      BY <1>10, <1>11 DEF Climbs
  <2> HIDE DEF T
  <2>2. q + 1 \in Int
    BY <1>6
  <2> QED
    BY <2>1, <2>2, IntervalInduction
<1>13. \A i \in 1 .. Len(con.path) : s[con.path[i]] = Losing!Recent(ctx, i - 1)
  BY <1>7, <1>12
<1> HIDE DEF T, R
<1>14. \A i \in 1 .. Len(con.additions) :
         con.additions[i] + 1 = Recent(ctx, Len(con.path) - 1 + i)
  <2>1. ASSUME NEW i \in 1 .. f - q
        PROVE  con.additions[i] + 1 = Recent(ctx, q + i)
    <3>1. q + i \in 1 .. f
      BY <1>6
    <3>2. PICK w \in 2 .. m - 1 : w = Recent(ctx, q + i)
      BY <1>4, <3>1
    <3>3. con.additions[i] = w - 1
      BY <1>7, <3>2 DEF TokensUpto
    <3> QED
      BY <3>2, <3>3
  <2>2. Len(con.path) - 1 = q
    BY <1>6, <1>7
  <2> QED
    BY <1>8, <2>1, <2>2
<1>15. Len(con.path) + Len(con.additions) = Len(ctx) + 1
  <2>1. (q + 1) + (f - q) = f + 1
    BY <1>6
  <2> QED
    BY <1>f, <1>7, <1>8, <2>1
<1> QED
  BY <1>1, <1>13, <1>14, <1>15 DEF Follows

(* The table is the only one the tree and its weights tell. *)
TableAgrees == IInv /\ TrieInv => \A tab : Told(Now, tab) => tab = Table

(* The table that is told is Table. *)
LEMMA TableUnique == TableAgrees
<1> SUFFICES ASSUME IInv, TrieInv, NEW tab, Told(Now, tab)
             PROVE  tab = Table
  BY DEF TableAgrees
<1>m. PICK m \in Nat : m = Len(words) /\ m >= 2
  BY LenProperties DEF IInv, WordsInv
<1>k. PICK k \in Nat : k = m - 1
  BY <1>m
<1>1. /\ data_map = TokensUpto(m) /\ token_number = m - 1
      /\ Sound(Now, contexts, token_number, Len(prediction_context), m)
  BY <1>m DEF IInv, TokensInv, HeldInv
<1>2. IsTree(tree, k) /\ IsTree(tree, m - 1) /\ WeightsFit(weights, Len(tree), m)
  BY <1>k, <1>1 DEF Sound, Now
<1>n. PICK n \in Nat : n > 0 /\ n = Len(tree)
  BY <1>2 DEF IsTree
<1>3. IsTrie(tree, n)
  BY <1>n DEF TrieInv
<1>4. Stands(tab, tree, n, weights) /\ Positive(tree, n)
  BY <1>n DEF Told, Now
<1>5. PICK s : Spells(tree, n, s)
  BY <1>4 DEF Stands
<1>6. DOMAIN weights = 1 .. n - 1
  BY <1>2, <1>n, LenProperties DEF WeightsFit
<1>7. Tabled(Table, s, weights, n)
  BY <1>m, <1>n, <1>1, <1>2, <1>3, <1>4, <1>5, <1>6, TableStands
<1>8. Stands(Table, tree, n, weights)
  BY <1>5, <1>7 DEF Stands
<1>9. PICK t : t = tree
  OBVIOUS
<1>10. PICK tab2 : tab2 = Table
  OBVIOUS
<1>11. PICK wts : wts = weights
  OBVIOUS
<1>12. /\ IsTree(t, k) /\ n = Len(t) /\ IsTrie(t, n)
       /\ Stands(tab, t, n, wts) /\ Stands(tab2, t, n, wts)
  BY <1>n, <1>2, <1>3, <1>4, <1>8, <1>9, <1>10, <1>11
<1>13. tab = tab2
  BY <1>12, StandsAlone
<1> QED
  BY <1>10, <1>13

(* The table is told, and the context of the current prediction, if it can *)
(* still be learned from, follows the last words.                          *)
LossInv ==
  /\ Told(Now, loss)
  /\ prediction_id \in ToSet(pool.active) =>
       \E s : /\ Spells(tree, Len(tree), s)
              /\ Follows(contexts[prediction_id], s, prediction_context)

(* The words of a state, and how its tree, contexts and weights fit them.  *)
Held ==
  \E m \in Nat, k \in Nat :
    /\ m = Len(words) /\ m >= 2 /\ k = m - 1 /\ token_number = k
    /\ data_map = TokensUpto(m)
    /\ prediction_context \in Seq(Nat) /\ Len(prediction_context) \in Nat
    /\ Len(prediction_context) <= Bound
    /\ Sound(Now, contexts, k, Len(prediction_context), m)
    /\ IsPartition(pool) /\ prediction_id \in GoodIds
    /\ RootFits(root_weights, m)

(* The inductive invariant holds them together. *)
LEMMA HeldFacts == IInv => Held
<1> SUFFICES ASSUME IInv
             PROVE  Held
  OBVIOUS
<1>m. PICK m \in Nat : m = Len(words) /\ m >= 2
  BY LenProperties DEF IInv, WordsInv
<1>k. PICK k \in Nat : k = m - 1
  BY <1>m
<1>1. /\ data_map = TokensUpto(m) /\ token_number = m - 1
      /\ Sound(Now, contexts, token_number, Len(prediction_context), m)
      /\ prediction_id \in GoodIds
      /\ RootFits(root_weights, m)
  BY <1>m DEF IInv, TokensInv, HeldInv, CountsInv
<1> DEFINE D == 2 .. m - 1
<1>2. prediction_context \in Seq(D) /\ Len(prediction_context) <= Bound
  BY <1>m DEF IInv, RecentInv
<1>3. D \subseteq Nat
  OBVIOUS
<1> HIDE DEF D
<1>4. prediction_context \in Seq(Nat) /\ Len(prediction_context) \in Nat
  <2>1. PICK c \in Seq(D) : c = prediction_context
    BY <1>2
  <2> DEFINE N == Nat
  <2>2. c \in Seq(N)
    <3>1. D \subseteq N
      BY <1>3
    <3> HIDE DEF N
    <3> QED
      BY <3>1
  <2>3. Len(c) \in Nat
    BY <2>2
  <2> QED
    BY <2>1, <2>2, <2>3
<1>5. IsPartition(pool)
  BY <1>1 DEF Sound, Now
<1> QED
  BY <1>m, <1>k, <1>1, <1>2, <1>4, <1>5 DEF Held

(* reinforce at an interface charges the word to the contexts of the       *)
(* prediction, if they are still there.                                    *)
LEMMA CorrectedTold ==
  ASSUME IInv, TrieInv, LossInv, NEW kept
  PROVE  Told(Corrected(kept),
              IF prediction # WordIndex /\ prediction_id \in ToSet(pool.active)
                THEN Losing!Charged(prediction_context, WordIndex, -1) ELSE loss)
<1>m. PICK m \in Nat, k \in Nat :
           /\ m = Len(words) /\ m >= 2 /\ k = m - 1 /\ token_number = k
           /\ data_map = TokensUpto(m)
           /\ prediction_context \in Seq(Nat) /\ Len(prediction_context) \in Nat
           /\ Len(prediction_context) <= Bound
           /\ Sound(Now, contexts, k, Len(prediction_context), m)
           /\ IsPartition(pool) /\ prediction_id \in GoodIds
           /\ RootFits(root_weights, m)
  BY HeldFacts DEF Held
<1>0. Told(Now, loss)
  BY DEF LossInv
<1>1. CASE prediction # WordIndex /\ prediction_id \in ToSet(pool.active)
  <2>1. PICK s : /\ Spells(tree, Len(tree), s)
                 /\ Follows(contexts[prediction_id], s, prediction_context)
    BY <1>1 DEF LossInv
  <2>2. IsTrie(tree, Len(tree)) /\ FreshFor(tree, contexts[prediction_id])
    BY <1>1 DEF TrieInv
  <2>3. Told(Learned(prediction_id, WordIndex, -1, kept),
             Losing!Charged(prediction_context, WordIndex, -1))
    BY <1>m, <1>0, <1>1, <2>1, <2>2, LearnedTold
  <2> QED
    BY <1>1, <2>3 DEF Corrected
<1>2. CASE prediction # WordIndex /\ prediction_id \notin ToSet(pool.active)
  <2>1. ~ValidId(pool, prediction_id)
    BY <1>m, <1>2, ValidIsActive
  <2>2. /\ Learned(prediction_id, WordIndex, -1, kept).tree = tree
        /\ Learned(prediction_id, WordIndex, -1, kept).weights = weights
    BY <2>1 DEF Learned
  <2>3. Told(Learned(prediction_id, WordIndex, -1, kept), loss)
    BY <1>0, <2>2 DEF Told, Now
  <2> QED
    BY <1>2, <2>3 DEF Corrected
<1>3. CASE prediction = WordIndex
  BY <1>0, <1>3 DEF Corrected
<1> QED
  BY <1>1, <1>2, <1>3

(* The next loss is what the next tree tells. *)
LEMMA NextLossIs ==
  ASSUME IInv', TrieInv', LossInv, NEW tab, Told(Now', tab),
         loss' = IF UNCHANGED <<tree, weights, data_map>> THEN loss ELSE Table'
  PROVE  loss' = tab
<1>1. TableAgrees'
  BY TableUnique, PTL
<1>2. \A x : Told(Now', x) => x = Table'
  BY <1>1 DEF TableAgrees
<1>3. tab = Table'
  BY <1>2
<1>4. CASE UNCHANGED <<tree, weights, data_map>>
  <2>1. loss' = loss
    BY <1>4
  <2>2. Told(Now, loss)
    BY DEF LossInv
  <2>3. /\ Now.tree = tree /\ Now'.tree = tree'
        /\ Now.weights = weights /\ Now'.weights = weights'
    BY DEF Now
  <2>4. PICK x : x = loss
    OBVIOUS
  <2>5. Told(Now', x)
    BY <1>4, <2>2, <2>3, <2>4 DEF Told
  <2> QED
    BY <1>2, <1>3, <2>1, <2>4, <2>5
<1>5. CASE ~ UNCHANGED <<tree, weights, data_map>>
  BY <1>3, <1>5
<1> QED
  BY <1>4, <1>5

(* The word of least loss along the path of the current prediction is the  *)
(* best word of the table after the last words.                            *)
PredictsBest ==
  IInv /\ TrieInv /\ LossInv /\ prediction_id \in ToSet(pool.active) =>
    \A m \in Nat : \A rw : \A limit \in Int : m > 0 /\ RootFits(rw, m) =>
      /\ Losing!Best(rw, loss, prediction_context, limit,
                     LeastLoss(Losses(rw, weights, contexts[prediction_id].path), limit))
      /\ LeastLoss(Losses(rw, weights, contexts[prediction_id].path), limit) \in 0 .. m - 1

(* So it is, by what the table is. *)
LEMMA LeastAlwaysBest == PredictsBest
<1> SUFFICES ASSUME IInv, TrieInv, LossInv, prediction_id \in ToSet(pool.active),
                    NEW m \in Nat, NEW rw, NEW limit \in Int, m > 0, RootFits(rw, m)
             PROVE  /\ Losing!Best(rw, loss, prediction_context, limit,
                         LeastLoss(Losses(rw, weights, contexts[prediction_id].path), limit))
                    /\ LeastLoss(Losses(rw, weights, contexts[prediction_id].path), limit)
                         \in 0 .. m - 1
  BY DEF PredictsBest
<1>m. PICK m2 \in Nat, k \in Nat :
           /\ m2 = Len(words) /\ m2 >= 2 /\ k = m2 - 1 /\ token_number = k
           /\ data_map = TokensUpto(m2)
           /\ prediction_context \in Seq(Nat) /\ Len(prediction_context) \in Nat
           /\ Len(prediction_context) <= Bound
           /\ Sound(Now, contexts, k, Len(prediction_context), m2)
           /\ IsPartition(pool) /\ prediction_id \in GoodIds
           /\ RootFits(root_weights, m2)
  BY HeldFacts DEF Held
<1>c. PICK ctx : ctx = prediction_context
  OBVIOUS
<1>con. PICK con : con = contexts[prediction_id]
  OBVIOUS
<1>t. PICK t : t = tree
  OBVIOUS
<1>w. PICK wts : wts = weights
  OBVIOUS
<1>tab. PICK tab : tab = loss
  OBVIOUS
<1>1. ctx \in Seq(Nat) /\ Len(ctx) <= Bound
  BY <1>m, <1>c
<1>2. IsTree(t, k) /\ WeightsFit(wts, Len(t), m2)
  BY <1>m, <1>t, <1>w DEF Sound, Now
<1>n. PICK n \in Nat : n > 0 /\ n = Len(t)
  BY <1>2 DEF IsTree
<1>3. PICK d : Fits(t, d, k, Len(ctx), contexts, ToSet(pool.active))
  BY <1>m, <1>c, <1>t DEF Sound, Now
<1>4. GoodContext(con, k, n, d, Len(ctx)) /\ Shallow(d, n, Len(ctx))
  BY <1>con, <1>n, <1>3 DEF Fits
<1>5. PICK s : Spells(t, n, s) /\ Follows(con, s, ctx)
  BY <1>t, <1>n, <1>c, <1>con DEF LossInv
<1>6. IsTrie(t, n) /\ FreshFor(t, con)
  BY <1>t, <1>n, <1>con DEF TrieInv
<1>7. Placed(con, t, k, n, s, d, ctx)
  BY <1>n, <1>1, <1>2, <1>4, <1>5, <1>6 DEF Placed
<1>8. Tabled(tab, s, wts, n)
  <2>1. Stands(tab, t, n, wts)
    BY <1>n, <1>t, <1>w, <1>tab DEF LossInv, Told, Now
  <2>2. PICK r : Spells(t, n, r) /\ Tabled(tab, r, wts, n)
    BY <2>1 DEF Stands
  <2>3. r = s
    BY <1>n, <1>2, <1>5, <1>6, <2>2, SpellingsAgree
  <2> QED
    BY <2>2, <2>3
<1>9. PICK data : data = Losses(rw, wts, con.path)
  OBVIOUS
<1>10. con.path \in Seq(0 .. n - 1)
  BY <1>4 DEF GoodContext
<1>11. DOMAIN data = 0 .. m - 1 /\ \A w \in 0 .. m - 1 : data[w] \in Int
  <2>1. WeightsFit(wts, n, m2)
    BY <1>2, <1>n
  <2>2. PICK path \in Seq(0 .. n - 1) : path = con.path
    BY <1>10
  <2>3. /\ DOMAIN Losses(rw, wts, path) = 0 .. m - 1
        /\ \A w \in 0 .. m - 1 : Losses(rw, wts, path)[w] \in Int
    BY <2>1, LossesFacts
  <2> QED
    BY <1>9, <2>2, <2>3
<1>12. ASSUME NEW w \in 0 .. m - 1
       PROVE  Losing!Total(rw, tab, ctx, w) = data[w]
  <2>1. WeightsFit(wts, n, m2)
    BY <1>2, <1>n
  <2>2. Losing!Total(rw, tab, ctx, w) = Losses(rw, wts, con.path)[w]
    BY <1>7, <1>8, <2>1, TotalIsLoss
  <2> QED
    BY <1>9, <2>2
<1>13. Losing!Best(rw, tab, ctx, limit, LeastLoss(data, limit))
  BY <1>11, <1>12, LeastIsBest
<1>14. LeastLoss(data, limit) \in 0 .. m - 1
  BY <1>11, LeastLossFacts
<1> QED
  BY <1>c, <1>con, <1>w, <1>tab, <1>9, <1>13, <1>14

(* What reinforce leaves of the weights at the root. *)
LEMMA CorrectedRoot ==
  ASSUME IInv, NEW kept
  PROVE  Corrected(kept).root_weights =
           IF /\ prediction # WordIndex /\ prediction_id \in ToSet(pool.active)
              /\ WordIndex < Len(root_weights)
           THEN [root_weights EXCEPT ![WordIndex + 1] = @ + (-1)] ELSE root_weights
<1>m. IsPartition(pool) /\ prediction_id \in GoodIds
  BY HeldFacts DEF Held
<1>1. ValidId(pool, prediction_id) <=> prediction_id \in ToSet(pool.active)
  BY <1>m, ValidIsActive
<1>2. CASE prediction # WordIndex /\ prediction_id \in ToSet(pool.active)
  <2>1. Corrected(kept).root_weights = RootPushed(root_weights, WordIndex, -1)
    BY <1>1, <1>2 DEF Corrected, Learned
  <2> QED
    BY <1>2, <2>1 DEF RootPushed
<1>3. CASE prediction # WordIndex /\ prediction_id \notin ToSet(pool.active)
  <2>1. Learned(prediction_id, WordIndex, -1, kept).root_weights = root_weights
    BY <1>1, <1>3 DEF Learned
  <2> QED
    BY <1>3, <2>1 DEF Corrected
<1>4. CASE prediction = WordIndex
  BY <1>4 DEF Corrected, Now
<1> QED
  BY <1>2, <1>3, <1>4

(* do_predict charges the word to the contexts of a mistaken prediction,   *)
(* and the new context follows the words it is made for.                   *)
LEMMA InterfaceLoss ==
  ASSUME IInv, TrieInv, LossInv, NEW kept, DoPredict(kept),
         loss' = IF UNCHANGED <<tree, weights, data_map>> THEN loss ELSE Table'
  PROVE  /\ LossInv'
         /\ prediction_id' \in ToSet(pool'.active)
         /\ loss' = IF prediction # WordIndex /\ prediction_id \in ToSet(pool.active)
                      THEN Losing!Charged(prediction_context, WordIndex, -1) ELSE loss
<1> DEFINE s == Corrected(kept)
           con == ContextOf(s.tree, data_map, token_number, NewContext)
<1>1. /\ current_string # << >>
      /\ tree' = s.tree
      /\ weights' = s.weights
      /\ pool' = Activated(s.pool)
      /\ prediction_id' = NextId(s.pool)
      /\ prediction_context' = NewContext
      /\ contexts' = [id \in {NextId(s.pool)} \cup
                             (DOMAIN contexts \cap ToSet(pool'.active)) |->
                        IF id = NextId(s.pool) THEN con ELSE contexts[id]]
  BY DoPredictSteps
<1>n. PICK n : n \in Nat /\ n = Len(words)
  BY LenProperties DEF IInv, WordsInv
<1>m. PICK m : m = IF Known THEN n ELSE n + 1
  OBVIOUS
<1>l. PICK l : l \in Nat /\ l = Len(prediction_context) /\ l <= Bound
  BY LenProperties DEF IInv, RecentInv
<1>2. /\ m \in Nat /\ n >= 2 /\ n <= m
      /\ WordIndex \in 2 .. m - 1
      /\ Sound(s, contexts, n - 1, l, m)
  <2>1. /\ m \in Nat /\ n >= 2 /\ n <= m
        /\ WordIndex \in 2 .. m - 1
        /\ Sound(s, contexts, n - 1, Len(prediction_context), m)
    BY <1>1, <1>n, <1>m, CorrectedSound
  <2> QED
    BY <1>l, <2>1
<1>x. PICK x : x = IF prediction # WordIndex /\ prediction_id \in ToSet(pool.active)
                     THEN Losing!Charged(prediction_context, WordIndex, -1) ELSE loss
  OBVIOUS
<1>3. Told(s, x)
  BY <1>x, CorrectedTold
<1> HIDE DEF s
<1>4. IInv' /\ TrieInv'
  BY InterfaceInv, InterfaceTrie
<1>5. Told(Now', x)
  <2>1. Now'.tree = s.tree /\ Now'.weights = s.weights
    BY <1>1 DEF Now
  <2> QED
    BY <1>3, <2>1 DEF Told
<1>6. loss' = x
  BY <1>4, <1>5, NextLossIs
<1>7. prediction_id' \in ToSet(pool'.active)
  <2>1. IsPartition(s.pool)
    BY <1>2 DEF Sound
  <2> QED
    BY <1>1, <2>1, ActivatedPartition
<1>k. PICK k : k \in Nat /\ k = n - 1
  BY <1>n, <1>2
<1>t. PICK t : t = s.tree
  OBVIOUS
<1>8. IsTree(t, k) /\ IsTree(t, n - 1)
  BY <1>2, <1>k, <1>t DEF Sound
<1>h. PICK h : h \in Nat /\ h = Len(t)
  BY <1>8, LenProperties DEF IsTree
<1>9. PICK d : Depths(t, d)
  BY <1>2, <1>t DEF Sound, Fits
<1>10. PICK r : Tagged(t, h) /\ Spells(t, h, r)
  BY <1>3, <1>t, <1>h DEF Told, Stands
<1>11. data_map = TokensUpto(n)
  BY <1>n DEF IInv, TokensInv
<1>12. DataMapAfter(t, data_map, token_number, NewContext) = TokensUpto(m)
  BY <1>1, <1>n, <1>m, <1>2, <1>8, NewTokens
<1>13. NewContext \in Seq(2 .. m - 1)
  BY <1>n, <1>2, NewContextFacts
<1>14. Follows(con, r, NewContext)
  <2>1. PICK c \in Seq(2 .. m - 1) : c = NewContext
    BY <1>13
  <2>2. PICK dm : dm = data_map
    OBVIOUS
  <2>3. PICK next : next = token_number
    OBVIOUS
  <2>4. dm = TokensUpto(n) /\ DataMapAfter(t, dm, next, c) = TokensUpto(m)
    BY <1>11, <1>12, <2>1, <2>2, <2>3
  <2>5. Follows(ContextOf(t, dm, next, c), r, c)
    BY <1>n, <1>2, <1>k, <1>8, <1>h, <1>9, <1>10, <2>4, NewContextFollows
  <2> QED
    BY <1>t, <2>1, <2>2, <2>3, <2>5
<1>15. contexts'[prediction_id'] = con
  BY <1>1
<1> HIDE DEF con
<1>16. /\ Spells(tree', Len(tree'), r)
       /\ Follows(contexts'[prediction_id'], r, prediction_context')
  BY <1>1, <1>t, <1>h, <1>10, <1>14, <1>15
<1>17. LossInv'
  BY <1>5, <1>6, <1>16 DEF LossInv
<1> QED
  BY <1>6, <1>7, <1>17, <1>x

(* do_predict does what the table does for a word. *)
LEMMA InterfaceIsToken ==
  ASSUME IInv, TrieInv, LossInv, NEW kept, DoPredict(kept),
         loss' = IF UNCHANGED <<tree, weights, data_map>> THEN loss ELSE Table'
  PROVE  WordIndex \in 2 .. Len(root_weights) /\ Losing!Token(WordIndex)
<1> DEFINE s == Corrected(kept)
           con == ContextOf(s.tree, data_map, token_number, NewContext)
           learns == prediction # WordIndex /\ prediction_id \in ToSet(pool.active)
           lowered == [root_weights EXCEPT ![WordIndex + 1] = @ - 1]
           rw == IF learns /\ WordIndex < Len(root_weights) THEN lowered
                 ELSE root_weights
<1>1. /\ current_string # << >>
      /\ words' = IF Known THEN words ELSE Append(words, current_string)
      /\ tree' = s.tree
      /\ weights' = s.weights
      /\ prediction_id' = NextId(s.pool)
      /\ prediction_context' = NewContext
      /\ contexts' = [id \in {NextId(s.pool)} \cup
                             (DOMAIN contexts \cap ToSet(pool'.active)) |->
                        IF id = NextId(s.pool) THEN con ELSE contexts[id]]
      /\ prediction' =
           LeastLoss(Losses(s.root_weights, s.weights, con.path), mistakes')
      /\ root_weights' = Grown(s.root_weights, mistakes', Len(words'))
      /\ mistakes' \in 0 .. MaxMistakes
  BY DoPredictSteps
<1>2. mistakes' = IF prediction # WordIndex THEN mistakes + 1 ELSE mistakes
  BY DEF DoPredict
<1>n. PICK n : n \in Nat /\ n = Len(words)
  BY LenProperties DEF IInv, WordsInv
<1>m. PICK m : m = IF Known THEN n ELSE n + 1
  OBVIOUS
<1>3. /\ m \in Nat /\ n >= 2 /\ n <= m
      /\ WordIndex \in 2 .. m - 1
      /\ RootFits(s.root_weights, n)
  BY <1>1, <1>n, <1>m, CorrectedSound
<1>4. RootFits(root_weights, n) /\ Len(root_weights) = n
  BY <1>n DEF IInv, CountsInv, RootFits
<1>5. WordIndex \in 2 .. n /\ (Known <=> WordIndex # n)
  <2>1. WordsInv
    BY DEF IInv
  <2>2. /\ Known => WordIndex \in 2 .. Len(words) - 1
        /\ ~Known => WordIndex = Len(words)
    BY <1>1, <2>1, WordIndexFacts
  <2> QED
    BY <1>n, <1>3, <2>2
<1>6. s.root_weights = rw
  <2>1. s.root_weights =
           IF /\ prediction # WordIndex /\ prediction_id \in ToSet(pool.active)
              /\ WordIndex < Len(root_weights)
           THEN [root_weights EXCEPT ![WordIndex + 1] = @ + (-1)] ELSE root_weights
    BY CorrectedRoot
  <2>2. CASE learns /\ WordIndex < Len(root_weights)
    <3>1. PICK x \in Int : x = root_weights[WordIndex + 1]
      <4>1. WordIndex + 1 \in 1 .. n
        BY <1>4, <1>5, <2>2
      <4>2. root_weights \in Seq(Int)
        BY <1>4 DEF RootFits
      <4> QED
        BY <1>4, <4>1, <4>2, ElementOfSeq
    <3>2. x + (-1) = x - 1
      OBVIOUS
    <3>3. s.root_weights = [root_weights EXCEPT ![WordIndex + 1] = x + (-1)]
      BY <2>1, <2>2, <3>1
    <3>4. rw = [root_weights EXCEPT ![WordIndex + 1] = x - 1]
      BY <2>2, <3>1
    <3> QED
      BY <3>2, <3>3, <3>4
  <2>3. CASE ~ (learns /\ WordIndex < Len(root_weights))
    BY <2>1, <2>3
  <2> QED
    BY <2>2, <2>3
<1>7. /\ LossInv'
      /\ prediction_id' \in ToSet(pool'.active)
      /\ loss' = IF learns THEN Losing!Charged(prediction_context, WordIndex, -1)
                 ELSE loss
  BY InterfaceLoss
<1>8. IInv' /\ TrieInv'
  BY InterfaceInv, InterfaceTrie
<1>9. contexts'[prediction_id'] = con
  BY <1>1
<1> HIDE DEF s, con, rw
<1>10. /\ Losing!Best(rw, loss', prediction_context', mistakes', prediction')
       /\ prediction' \in 0 .. Len(root_weights) - 1
  <2>1. PredictsBest'
    BY LeastAlwaysBest, PTL
  <2>2. PICK q : q = rw /\ RootFits(q, n)
    BY <1>3, <1>6
  <2>3. PICK limit \in Int : limit = mistakes'
    BY <1>1
  <2>4. n \in Nat /\ n > 0
    BY <1>n, <1>3
  <2>5. /\ Losing!Best(q, loss', prediction_context', limit,
                       LeastLoss(Losses(q, weights', contexts'[prediction_id'].path), limit))
        /\ LeastLoss(Losses(q, weights', contexts'[prediction_id'].path), limit)
             \in 0 .. n - 1
    BY <1>7, <1>8, <2>1, <2>2, <2>4 DEF PredictsBest
  <2>6. prediction' =
          LeastLoss(Losses(q, weights', contexts'[prediction_id'].path), limit)
    BY <1>1, <1>6, <1>9, <2>2, <2>3
  <2> QED
    BY <1>4, <2>2, <2>3, <2>5, <2>6
<1>11. prediction_context' =
         IF Len(Append(prediction_context, WordIndex)) > Bound
           THEN Tail(Append(prediction_context, WordIndex))
           ELSE Append(prediction_context, WordIndex)
  <2>1. prediction_context \in Seq(Nat) /\ Len(prediction_context) <= Bound
    BY HeldFacts DEF Held
  <2>2. WordIndex \in Nat
    BY <1>5
  <2>3. Trimmed(Append(prediction_context, WordIndex)) =
          IF Len(Append(prediction_context, WordIndex)) > Bound
            THEN Tail(Append(prediction_context, WordIndex))
            ELSE Append(prediction_context, WordIndex)
    BY <2>1, <2>2, TrimmedIs
  <2> QED
    BY <1>1, <2>3 DEF NewContext
<1>12. root_weights' = IF WordIndex = Len(root_weights)
                         THEN Append(rw, mistakes' \div Len(root_weights)) ELSE rw
  <2>1. Len(words') = m
    BY <1>1, <1>n, <1>m, NextWords DEF IInv
  <2>2. PICK mis \in Nat : mis = mistakes'
    BY <1>1
  <2>3. m \in {n, n + 1} /\ n > 0
    BY <1>m, <1>3
  <2>4. PICK q : q = rw /\ RootFits(q, n)
    BY <1>3, <1>6
  <2>5. Grown(q, mis, m) = IF m = n THEN q ELSE Append(q, mis \div n)
    BY <1>n, <2>3, <2>4, GrownIs DEF GrowsBy
  <2>6. root_weights' = Grown(q, mis, m)
    BY <1>1, <1>6, <2>1, <2>2, <2>4
  <2>7. m = n <=> WordIndex # n
    BY <1>n, <1>m, <1>5
  <2> QED
    BY <1>4, <2>2, <2>4, <2>5, <2>6, <2>7
<1>13. WordIndex \in 2 .. Len(root_weights)
  BY <1>4, <1>5
<1>14. (prediction_id \in ToSet(pool.active))' = TRUE
  BY <1>7
<1>15. Losing!Token(WordIndex)
  BY <1>2, <1>7, <1>10, <1>11, <1>12, <1>14 DEF Losing!Token, rw
<1> QED
  BY <1>13, <1>15

(* prediction_result under the id of the prediction regrets it in the      *)
(* table; under any other id, or none that is in use, nothing changes.     *)
LEMMA RegretLoss ==
  ASSUME CallerIds \cap ContextIds = {}, IInv, TrieInv, LossInv, IInv', TrieInv',
         NEW id \in CallerIds \cup {prediction_id}, PredictionResult(id),
         loss' = IF UNCHANGED <<tree, weights, data_map>> THEN loss ELSE Table'
  PROVE  LossInv' /\ (Losing!Regret \/ UNCHANGED Losing!vars)
<1> PICK kept : kept \in KeptEdges(id)
      /\ tree' = Learned(id, prediction, 1, kept).tree
      /\ pool' = Learned(id, prediction, 1, kept).pool
      /\ weights' = Learned(id, prediction, 1, kept).weights
      /\ root_weights' = Learned(id, prediction, 1, kept).root_weights
  BY Zenon DEF PredictionResult
<1> DEFINE s == Learned(id, prediction, 1, kept)
<1>1. /\ contexts' = [c \in DOMAIN contexts \cap ToSet(pool'.active) |-> contexts[c]]
      /\ UNCHANGED <<data_map, token_number, words, prediction_context,
                     prediction, prediction_id, mistakes>>
  BY DEF PredictionResult, Remembered
<1>m. PICK m \in Nat, k \in Nat :
           /\ m = Len(words) /\ m >= 2 /\ k = m - 1 /\ token_number = k
           /\ data_map = TokensUpto(m)
           /\ prediction_context \in Seq(Nat) /\ Len(prediction_context) \in Nat
           /\ Len(prediction_context) <= Bound
           /\ Sound(Now, contexts, k, Len(prediction_context), m)
           /\ IsPartition(pool) /\ prediction_id \in GoodIds
           /\ RootFits(root_weights, m)
  BY HeldFacts DEF Held
<1>2. Told(Now, loss) /\ prediction \in 0 .. m - 1
  BY <1>m DEF LossInv, IInv, CountsInv
<1>3. id \in GoodIds /\ (id # prediction_id => id \notin ToSet(pool.active))
  <2>1. ToSet(pool.active) \subseteq ContextIds
    BY <1>m, PartitionFacts
  <2>2. \A c \in CallerIds : c \in GoodIds
    BY CallerAssumption, NoIdPastTheEnd DEF GoodIds
  <2> QED
    BY <1>m, <2>1, <2>2
<1>4. CASE id \in ToSet(pool.active)
  <2>1. id = prediction_id
    BY <1>3, <1>4
  <2>2. PICK x : x = Losing!Charged(prediction_context, prediction, 1)
    OBVIOUS
  <2>3. Told(s, x)
    <3>1. PICK r : /\ Spells(tree, Len(tree), r)
                   /\ Follows(contexts[id], r, prediction_context)
      BY <1>4, <2>1 DEF LossInv
    <3>2. IsTrie(tree, Len(tree)) /\ FreshFor(tree, contexts[id])
      BY <1>4, <2>1 DEF TrieInv
    <3>3. Told(Learned(id, prediction, 1, kept),
               Losing!Charged(prediction_context, prediction, 1))
      BY <1>m, <1>2, <1>4, <3>1, <3>2, LearnedTold
    <3> QED
      BY <2>2, <3>3
  <2>4. /\ ToSet(s.pool.active) = ToSet(pool.active) \ {id}
        /\ s.root_weights = RootPushed(root_weights, prediction, 1)
    <3>1. ValidId(pool, id)
      BY <1>m, <1>3, <1>4, ValidIsActive
    <3>2. s.pool = Deactivated(pool, id)
          /\ s.root_weights = RootPushed(root_weights, prediction, 1)
      BY <3>1 DEF Learned
    <3> QED
      BY <1>m, <1>4, <3>2, DeactivatedActive
  <2> HIDE DEF s
  <2>5. /\ tree' = s.tree /\ pool' = s.pool /\ weights' = s.weights
        /\ root_weights' = s.root_weights
    BY DEF s
  <2>6. Told(Now', x)
    <3>1. Now'.tree = s.tree /\ Now'.weights = s.weights
      BY <2>5 DEF Now
    <3> QED
      BY <2>3, <3>1 DEF Told
  <2>7. loss' = x
    BY <2>6, NextLossIs
  <2>8. prediction_id' \notin ToSet(pool'.active)
    BY <1>1, <2>1, <2>4, <2>5
  <2>9. LossInv'
    BY <2>6, <2>7, <2>8 DEF LossInv
  <2>10. root_weights' = [root_weights EXCEPT ![prediction + 1] = @ + 1]
    <3>1. prediction < Len(root_weights)
      BY <1>m, <1>2 DEF RootFits
    <3> QED
      BY <2>4, <2>5, <3>1 DEF RootPushed
  <2>11. (prediction_id \in ToSet(pool.active))' = FALSE
    BY <2>8
  <2>12. prediction_id \in ToSet(pool.active)
    BY <1>4, <2>1
  <2>13. Losing!Regret
    BY <1>1, <2>2, <2>7, <2>10, <2>11, <2>12 DEF Losing!Regret
  <2> QED
    BY <2>9, <2>13
<1>5. CASE id \notin ToSet(pool.active)
  <2>1. ~ValidId(pool, id)
    BY <1>m, <1>3, <1>5, ValidIsActive
  <2>2. /\ tree' = tree /\ pool' = pool /\ weights' = weights
        /\ root_weights' = root_weights
    BY <2>1 DEF Learned
  <2>3. loss' = loss
    BY <1>1, <2>2
  <2>4. Told(Now', loss')
    <3>1. Now.tree = tree /\ Now'.tree = tree' /\ Now.weights = weights
          /\ Now'.weights = weights'
      BY DEF Now
    <3> QED
      BY <1>2, <2>2, <2>3, <3>1 DEF Told
  <2>5. prediction_id \in ToSet(pool.active) =>
          contexts'[prediction_id] = contexts[prediction_id]
    <3>1. DOMAIN contexts = ToSet(pool.active)
      BY DEF IInv, HeldInv
    <3> QED
      BY <1>1, <2>2, <3>1
  <2>6. LossInv'
    BY <1>1, <2>2, <2>4, <2>5 DEF LossInv
  <2>7. UNCHANGED Losing!vars
    BY <1>1, <2>2, <2>3 DEF Losing!vars
  <2> QED
    BY <2>6, <2>7
<1> QED
  BY <1>4, <1>5

(* A step that leaves the tree, the weights and the contexts alone leaves  *)
(* the table alone, and loses the prediction at most.                      *)
LEMMA ElsewhereLoss ==
  ASSUME LossInv,
         UNCHANGED <<tree, weights, data_map, pool, contexts, root_weights,
                     prediction_context, prediction, mistakes>>,
         prediction_id' = prediction_id \/ prediction_id' \notin ToSet(pool.active),
         loss' = IF UNCHANGED <<tree, weights, data_map>> THEN loss ELSE Table'
  PROVE  LossInv' /\ (Losing!Disown \/ UNCHANGED Losing!vars)
<1>1. loss' = loss
  OBVIOUS
<1>2. Told(Now', loss')
  <2>1. Now.tree = tree /\ Now'.tree = tree' /\ Now.weights = weights
        /\ Now'.weights = weights'
    BY DEF Now
  <2>2. Told(Now, loss)
    BY DEF LossInv
  <2> QED
    BY <1>1, <2>1, <2>2 DEF Told
<1>3. LossInv'
  BY <1>2 DEF LossInv
<1>4. CASE prediction_id' = prediction_id
  BY <1>1, <1>3, <1>4 DEF Losing!vars
<1>5. CASE prediction_id' \notin ToSet(pool.active)
  <2>1. (prediction_id \in ToSet(pool.active))' = FALSE
    BY <1>5
  <2>2. Losing!Disown
    BY <1>1, <2>1 DEF Losing!Disown
  <2> QED
    BY <1>3, <2>2
<1> QED
  BY <1>4, <1>5

(* write_summary tells what it prints. *)
LEMMA WriteSummaryLoss ==
  ASSUME IInv, LossInv, IInv', TrieInv', WriteSummary,
         loss' = IF UNCHANGED <<tree, weights, data_map>> THEN loss ELSE Table'
  PROVE  LossInv' /\ UNCHANGED Losing!vars
<1>1. /\ tree' = AfterWriteGraph(tree)
      /\ UNCHANGED <<pool, contexts, weights, root_weights, prediction_context,
                     prediction, prediction_id, mistakes>>
  BY DEF WriteSummary, modelVars
<1>m. PICK m \in Nat, k \in Nat : Sound(Now, contexts, k, Len(prediction_context), m)
  BY HeldFacts DEF Held
<1>2. IsTree(tree, k)
  BY <1>m DEF Sound, Now
<1>n. PICK n : n \in Nat /\ n = Len(tree)
  BY <1>2, LenProperties DEF IsTree
<1>3. Printed(tree', tree, n) /\ Len(tree') = n
  <2>1. Printed(tree', tree, Len(tree))
    BY <1>1, <1>2, WriteGraphPrints
  <2> QED
    BY <1>n, <2>1 DEF Printed
<1>4. Told(Now', loss)
  <2>1. /\ Now.tree = tree /\ Now'.tree = tree'
        /\ Now'.weights = Now.weights
    BY <1>1 DEF Now
  <2>2. Told(Now, loss)
    BY DEF LossInv
  <2>3. PICK r : r = Now
    OBVIOUS
  <2>4. PICK r2 : r2 = Now'
    OBVIOUS
  <2>5. PICK x : x = loss
    OBVIOUS
  <2>6. IsTree(r.tree, k) /\ Told(r, x) /\ Printed(r2.tree, r.tree, Len(r.tree))
        /\ r2.weights = r.weights
    BY <1>2, <1>3, <1>n, <2>1, <2>2, <2>3, <2>4, <2>5
  <2>7. Told(r2, x)
    BY <2>6, PrintedTold
  <2> QED
    BY <2>4, <2>5, <2>7
<1>5. loss' = loss
  BY <1>4, NextLossIs
<1>6. prediction_id' \in ToSet(pool'.active) =>
        \E s : /\ Spells(tree', Len(tree'), s)
               /\ Follows(contexts'[prediction_id'], s, prediction_context')
  <2> SUFFICES ASSUME prediction_id \in ToSet(pool.active)
               PROVE  \E s : /\ Spells(tree', Len(tree'), s)
                             /\ Follows(contexts[prediction_id], s, prediction_context)
    BY <1>1
  <2>1. PICK s : /\ Spells(tree, n, s)
                 /\ Follows(contexts[prediction_id], s, prediction_context)
    BY <1>n DEF LossInv
  <2>2. Spells(tree', n, s)
    <3>1. PICK t : t = tree
      OBVIOUS
    <3>2. PICK t2 : t2 = tree'
      OBVIOUS
    <3>3. Printed(t2, t, n) /\ Spells(t, n, s)
      BY <1>3, <2>1, <3>1, <3>2
    <3>4. Spells(t2, n, s)
      BY <1>n, <3>3, PrintedSpells
    <3> QED
      BY <3>2, <3>4
  <2> QED
    BY <1>3, <2>1, <2>2
<1>7. LossInv'
  BY <1>4, <1>5, <1>6 DEF LossInv
<1> QED
  BY <1>1, <1>5, <1>7 DEF Losing!vars

(* Every step of the model is a step of the table, or leaves it alone.     *)
LEMMA NextLoss ==
  ASSUME CallerIds \cap ContextIds = {}, IInv, TrieInv, LossInv,
         [LossNext]_<<vars, loss>>
  PROVE  LossInv' /\ [Losing!Next]_(Losing!vars)
<1>0. [Next]_vars
  BY DEF LossNext
<1>i. IInv' /\ TrieInv'
  BY <1>0, NextIInv, NextTrieInv
<1>e. Losing!Regret \/ Losing!Disown => Losing!Next
  BY DEF Losing!Next
<1>1. ASSUME UNCHANGED <<vars, loss>>
      PROVE  LossInv' /\ UNCHANGED Losing!vars
  <2>1. UNCHANGED <<tree, data_map, token_number, contexts, pool, words, weights,
                    root_weights, prediction_context, prediction, prediction_id,
                    mistakes, loss>>
    BY <1>1 DEF vars, treeVars, modelVars
  <2>2. LossInv'
    <3>1. Now.tree = tree /\ Now'.tree = tree' /\ Now.weights = weights
          /\ Now'.weights = weights'
      BY DEF Now
    <3>2. Told(Now, loss)
      BY DEF LossInv
    <3>3. Told(Now', loss')
      BY <2>1, <3>1, <3>2 DEF Told
    <3> QED
      BY <2>1, <3>3 DEF LossInv
  <2> QED
    BY <2>1, <2>2 DEF Losing!vars
<1>2. ASSUME LossNext
      PROVE  LossInv' /\ [Losing!Next]_(Losing!vars)
  <2>0. loss' = IF UNCHANGED <<tree, weights, data_map>> THEN loss ELSE Table'
    BY <1>2 DEF LossNext
  <2>1. ASSUME NEW kept, DoPredict(kept)
        PROVE  LossInv' /\ Losing!Next
    <3>1. LossInv'
      BY <2>0, <2>1, InterfaceLoss
    <3>2. WordIndex \in 2 .. Len(root_weights) /\ Losing!Token(WordIndex)
      BY <2>0, <2>1, InterfaceIsToken
    <3> QED
      BY <3>1, <3>2 DEF Losing!Next
  <2>2. ASSUME NEW id \in CallerIds \cup {prediction_id}, PredictionResult(id)
        PROVE  LossInv' /\ (Losing!Regret \/ UNCHANGED Losing!vars)
    BY <1>i, <2>0, <2>2, RegretLoss
  <2>3. ASSUME NEW id \in CallerIds, GetPrediction(id)
        PROVE  LossInv' /\ (Losing!Disown \/ UNCHANGED Losing!vars)
    <3>1. ToSet(pool.active) \subseteq ContextIds
      BY HeldFacts, PartitionFacts DEF Held
    <3>2. id \notin ToSet(pool.active)
      BY <3>1
    <3>3. UNCHANGED <<tree, weights, data_map, pool, contexts, root_weights,
                      prediction_context, prediction, mistakes>>
          /\ prediction_id' = id
      BY <2>3 DEF GetPrediction, treeVars
    <3> QED
      BY <2>0, <3>2, <3>3, ElsewhereLoss
  <2>4. ASSUME UNCHANGED <<treeVars, modelVars>>
        PROVE  LossInv' /\ (Losing!Disown \/ UNCHANGED Losing!vars)
    <3>1. UNCHANGED <<tree, weights, data_map, pool, contexts, root_weights,
                      prediction_context, prediction, mistakes>>
          /\ prediction_id' = prediction_id
      BY <2>4 DEF treeVars, modelVars
    <3> QED
      BY <2>0, <3>1, ElsewhereLoss
  <2>5. ASSUME WriteSummary
        PROVE  LossInv' /\ UNCHANGED Losing!vars
    BY <1>i, <2>0, <2>5, WriteSummaryLoss
  <2>6. \/ UNCHANGED <<treeVars, modelVars>>
        \/ \E kept \in KeptEdges(prediction_id) : DoPredict(kept)
        \/ \E id \in CallerIds \cup {prediction_id} : PredictionResult(id)
        \/ \E id \in CallerIds : GetPrediction(id)
        \/ WriteSummary
    <3>1. Next
      BY <1>2 DEF LossNext
    <3> QED
      BY <3>1 DEF Next, PutC, Backspace, Interface
  <2> QED
    BY <1>e, <2>1, <2>2, <2>3, <2>4, <2>5, <2>6
<1> QED
  BY <1>1, <1>2

(* The model starts with an empty tree, which tells the empty table. *)
LEMMA InitLoss == LossInit => TrieInv /\ LossInv /\ Losing!Init
<1> SUFFICES ASSUME LossInit
             PROVE  TrieInv /\ LossInv /\ Losing!Init
  OBVIOUS
<1>1. /\ tree = <<NewVertex(RootToken)>> /\ pool = InitialPool
      /\ weights = << >> /\ root_weights = <<1, 0>> /\ prediction_context = << >>
      /\ prediction = 0 /\ mistakes = 0
      /\ loss = Table
  BY DEF LossInit, Init, TreeInit, NullWord
<1>2. IInv
  BY InitIInv DEF LossInit
<1>3. ToSet(pool.active) = {}
  <2>1. pool.active = << >>
    BY <1>1 DEF InitialPool
  <2> QED
    BY <2>1 DEF ToSet
<1>4. Len(tree) = 1 /\ tree[1].edges = << >> /\ tree[1].subtree = << >>
  BY <1>1 DEF NewVertex
<1>5. TrieInv
  BY <1>3, <1>4 DEF TrieInv, IsTrie
<1>6. Told(Now, << >>)
  <2>1. Now.tree = tree /\ Now.weights = << >>
    BY <1>1 DEF Now
  <2> DEFINE s == [v \in 0 .. 1 - 1 |-> << >>]
  <2>2. Spells(tree, 1, s)
    <3>1. s \in [0 .. 1 - 1 -> Seq(Nat)] /\ s[Root] = << >>
      BY DEF Root
    <3> QED
      BY <3>1 DEF Spells
  <2>3. Tabled(<< >>, s, << >>, 1)
    <3>1. << >> = [e \in DOMAIN << >> |-> << >>[e]] /\ DOMAIN << >> = {}
      OBVIOUS
    <3>2. 1 .. 1 - 1 = {}
      OBVIOUS
    <3> HIDE DEF s
    <3> QED
      BY <3>1, <3>2 DEF Tabled
  <2>4. Tagged(tree, 1)
    <3> SUFFICES ASSUME NEW u \in 0 .. 1 - 1, NEW x, ChildOf(tree, u, x) # NoVertex
                 PROVE  tree[ChildOf(tree, u, x) + 1].token = x
      BY DEF Tagged
    <3>1. u = 0
      OBVIOUS
    <3>2. ~HasSubtree(tree, u) /\ DOMAIN tree[u + 1].edges = {}
      BY <1>4, <3>1 DEF HasSubtree
    <3> QED
      BY <3>2 DEF ChildOf
  <2>5. Positive(tree, 1)
    BY DEF Positive
  <2>6. Stands(<< >>, tree, 1, << >>)
    BY <2>2, <2>3 DEF Stands
  <2> QED
    BY <1>4, <2>1, <2>4, <2>5, <2>6 DEF Told
<1>7. loss = << >>
  BY <1>1, <1>2, <1>5, <1>6, TableUnique DEF TableAgrees
<1>8. LossInv
  BY <1>3, <1>6, <1>7 DEF LossInv
<1>9. Losing!Init
  BY <1>1, <1>3, <1>7 DEF Losing!Init
<1> QED
  BY <1>5, <1>8, <1>9

(* For callers that name no context but the one handed out last, the tree, *)
(* the pool of contexts and the sparse weights implement the table of      *)
(* losses: every mistake and every regret is charged to the words of the   *)
(* contexts it was made in, whichever vertices were added, split, printed  *)
(* or flushed in between, and the word of least total loss is predicted.   *)
THEOREM TreeImplementsTable ==
  ASSUME CallerIds \cap ContextIds = {}
  PROVE  LossSpec => ImplementsContextLoss
<1>1. LossInit => IInv /\ TrieInv /\ LossInv /\ Losing!Init
  BY InitIInv, InitLoss DEF LossInit
<1>2. IInv /\ TrieInv /\ LossInv /\ [LossNext]_<<vars, loss>>
        => IInv' /\ TrieInv' /\ LossInv' /\ [Losing!Next]_(Losing!vars)
  <2> SUFFICES ASSUME IInv, TrieInv, LossInv, [LossNext]_<<vars, loss>>
               PROVE  IInv' /\ TrieInv' /\ LossInv' /\ [Losing!Next]_(Losing!vars)
    OBVIOUS
  <2>1. [Next]_vars
    BY DEF LossNext
  <2>2. IInv' /\ TrieInv'
    BY <2>1, NextIInv, NextTrieInv
  <2>3. LossInv' /\ [Losing!Next]_(Losing!vars)
    BY NextLoss
  <2> QED
    BY <2>2, <2>3
<1> QED
  BY <1>1, <1>2, PTL DEF LossSpec, ImplementsContextLoss, Losing!Spec
=============================================================================
