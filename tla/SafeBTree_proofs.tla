--------------------------- MODULE SafeBTree_proofs ---------------------------
(***************************************************************************)
(* Theorems about the safe containers, for any containers, iterators and   *)
(* finite set of keys.                                                     *)
(***************************************************************************)
EXTENDS SafeBTree, WellFoundedInduction, FiniteSetTheorems, TLAPS

(* Sets of numbers have a least and a greatest element. *)
LEMMA LeastOfNat ==
  ASSUME NEW T \in SUBSET Nat, T # {}
  PROVE  \E x \in T : \A y \in T : x <= y
<1>1. \E R : IsWellFoundedOn(R, Nat) /\ \A x, y \in Nat : y < x => <<y, x>> \in R
  <2> WITNESS OpToRel(<, Nat)
  <2>1. IsWellFoundedOn(OpToRel(<, Nat), Nat)
    BY NatLessThanWellFounded
  <2>2. \A x, y \in Nat : y < x => <<y, x>> \in OpToRel(<, Nat)
    BY DEF OpToRel
  <2> QED BY <2>1, <2>2
<1>2. PICK R : IsWellFoundedOn(R, Nat) /\ \A x, y \in Nat : y < x => <<y, x>> \in R
  BY <1>1
<1>3. \E x \in T : \A y \in T : ~ (<<y, x>> \in R)
  BY <1>2, WFMin
<1>4. PICK x \in T : \A y \in T : ~ (<<y, x>> \in R)
  BY <1>3
<1>5. ASSUME NEW y \in T PROVE x <= y
  <2>1. x \in Nat /\ y \in Nat /\ ~(y < x)
    BY <1>2, <1>4
  <2> QED BY <2>1
<1> QED BY <1>5

(* A set of integers that is bounded below has a least element. *)
LEMMA LeastExists ==
  ASSUME NEW T \in SUBSET Int, T # {}, NEW b \in Int, \A x \in T : x >= b
  PROVE  \E x \in T : \A y \in T : x <= y
<1> DEFINE S == {x - b : x \in T}
<1>1. \A x \in T : x - b \in Nat
  OBVIOUS
<1>2. S \in SUBSET Nat /\ S # {}
  BY <1>1
<1>3. PICK s \in S : \A y \in S : s <= y
  BY <1>2, LeastOfNat
<1>4. PICK x \in T : s = x - b
  OBVIOUS
<1>5. ASSUME NEW y \in T PROVE x <= y
  <2>1. s <= y - b
    BY <1>3
  <2> QED BY <2>1, <1>4
<1> QED BY <1>5

(* The element with the fewest above it is the greatest. *)
LEMMA GreatestExists ==
  ASSUME NEW T \in SUBSET Int, T # {}, IsFiniteSet(T)
  PROVE  \E x \in T : \A y \in T : x >= y
<1> DEFINE Above(x) == {z \in T : z > x}
           N == {Cardinality(Above(x)) : x \in T}
<1>1. \A x \in T : IsFiniteSet(Above(x)) /\ Cardinality(Above(x)) \in Nat
  BY FS_Subset, FS_CardinalityType
<1>2. N \in SUBSET Nat /\ N # {}
  BY <1>1
<1>3. PICK n \in N : \A m \in N : n <= m
  BY <1>2, LeastOfNat
<1>4. PICK x \in T : n = Cardinality(Above(x))
  OBVIOUS
<1>5. ASSUME NEW y \in T, ~(x >= y) PROVE FALSE
  <2>0. x \in Int /\ y \in Int /\ y > x
    BY <1>5
  <2>1. Above(y) \subseteq Above(x) /\ y \in Above(x) /\ y \notin Above(y)
    <3>1. \A z \in T : z > y => z > x
      BY <2>0
    <3>2. ~(y > y)
      BY <2>0
    <3> QED BY <2>0, <3>1, <3>2
  <2>2. Above(y) # Above(x)
    BY <2>1
  <2>3. Cardinality(Above(y)) < Cardinality(Above(x))
    BY <2>1, <2>2, <1>1, FS_Subset
  <2>4. n <= Cardinality(Above(y))
    BY <1>3
  <2> QED BY <2>3, <2>4, <1>4, <1>1
<1> QED BY <1>5

-----------------------------------------------------------------------------
(* The places the tree is asked for are places there are. *)
LEMMA PlacesThere ==
  ASSUME NEW ks \in SUBSET Keys
  PROVE  /\ \A k \in Int : LowerBound(ks, k) \in Places(ks)
         /\ \A k \in Int : Following(ks, k) \in Places(ks)
         /\ \A p \in Places(ks) : Before(ks, p) # {} => Preceding(ks, p) \in ks
<1>0. ks \in SUBSET Int
  BY KeysAssumption
<1>1. ASSUME NEW k \in Int, NEW T \in SUBSET ks, \A x \in T : x >= k
      PROVE  LeastOf(T) \in Places(ks)
  <2>1. CASE T = {}
    BY <2>1 DEF LeastOf, Places
  <2>2. CASE T # {}
    <3>1. \E x \in T : \A y \in T : x <= y
      BY <1>0, <1>1, <2>2, LeastExists
    <3> QED BY <2>2, <3>1 DEF LeastOf, Places
  <2> QED BY <2>1, <2>2
<1>2. ASSUME NEW k \in Int
      PROVE  LowerBound(ks, k) \in Places(ks) /\ Following(ks, k) \in Places(ks)
  <2>1. \A x \in {y \in ks : y >= k} : x >= k
    OBVIOUS
  <2>2. \A x \in {y \in ks : y > k} : x >= k
    BY <1>0
  <2> QED BY <1>1, <2>1, <2>2 DEF LowerBound, Following
<1>3. ASSUME NEW p \in Places(ks), Before(ks, p) # {}
      PROVE  Preceding(ks, p) \in ks
  <2>1. Before(ks, p) \subseteq ks
    BY DEF Before
  <2>2. Before(ks, p) \in SUBSET Int /\ IsFiniteSet(Before(ks, p))
    BY <1>0, <2>1, KeysAssumption, FS_Subset
  <2>3. \E x \in Before(ks, p) : \A y \in Before(ks, p) : x >= y
    BY <1>3, <2>2, GreatestExists
  <2> QED BY <2>1, <2>3 DEF Preceding
<1> QED BY <1>2, <1>3

-----------------------------------------------------------------------------
(***************************************************************************)
(* The generation an iterator remembers is none the tree has yet to reach; *)
(* when it is the tree's own, the iterator is where it says it is.  The    *)
(* first half is what makes a change of the tree, which counts it up,      *)
(* outdate all of the tree's iterators at once.                            *)
(***************************************************************************)
Held == [tree : Trees, generation : Int, key : Int,
         into : Trees \cup {Gone}, on : Int \cup {End}]

Current(it, gs) == it.generation \in {gs[it.tree], -gs[it.tree]}

InPlace(it, ks) ==
  /\ it.into = it.tree
  /\ it.on = IF it.generation > 0 THEN it.key ELSE End
  /\ it.on \in Places(ks[it.tree])

Good(it, ks, gs) ==
  /\ it \in Held
  /\ it.generation # 0
  /\ -gs[it.tree] <= it.generation /\ it.generation <= gs[it.tree]
  /\ Current(it, gs) => InPlace(it, ks)

TreesOK ==
  /\ keys \in [Trees -> SUBSET Keys]
  /\ generation \in [Trees -> Nat \ {0}]

IInv ==
  /\ TreesOK
  /\ iters \in [Iterators -> Held]
  /\ \A i \in Iterators : Good(iters[i], keys, generation)

(* An iterator that is brought up to date is at a place of its tree. *)
LEMMA UpdatedGood ==
  ASSUME NEW ks \in [Trees -> SUBSET Keys], NEW gs \in [Trees -> Nat \ {0}],
         NEW it \in Held, it.into = it.tree, it.on \in Places(ks[it.tree])
  PROVE  /\ Good(Updated(it, gs[it.tree]), ks, gs)
         /\ Current(Updated(it, gs[it.tree]), gs)
         /\ Updated(it, gs[it.tree]).tree = it.tree
         /\ Updated(it, gs[it.tree]).on = it.on
<1>1. it.tree \in Trees /\ gs[it.tree] \in Nat \ {0} /\ End \notin Int
  BY KeysAssumption DEF Held
<1>2. CASE it.on = End
  <2> DEFINE v == Updated(it, gs[it.tree])
  <2>1. v = [it EXCEPT !.generation = -gs[it.tree]]
    BY <1>2 DEF Updated
  <2>2. v \in Held /\ v.tree = it.tree /\ v.into = it.into /\ v.on = End
        /\ v.generation = -gs[it.tree]
    BY <1>1, <1>2, <2>1 DEF Held
  <2> HIDE DEF v
  <2>3. Good(v, ks, gs) /\ Current(v, gs)
    BY <1>1, <1>2, <2>2 DEF Good, Current, InPlace
  <2> QED BY <1>2, <2>2, <2>3 DEF v
<1>3. CASE it.on # End
  <2> DEFINE v == Updated(it, gs[it.tree])
  <2>1. v = [it EXCEPT !.generation = gs[it.tree], !.key = it.on]
    BY <1>3 DEF Updated
  <2>2. v \in Held /\ v.tree = it.tree /\ v.into = it.into /\ v.on = it.on
        /\ v.key = it.on /\ v.generation = gs[it.tree]
    <3>1. it.on \in Int /\ gs[it.tree] \in Int
      BY <1>1, <1>3 DEF Held
    <3>2. v = [tree |-> it.tree, generation |-> gs[it.tree], key |-> it.on,
               into |-> it.into, on |-> it.on]
      BY <2>1 DEF Held
    <3> HIDE DEF v
    <3> QED BY <3>1, <3>2 DEF Held
  <2> HIDE DEF v
  <2>3. Good(v, ks, gs) /\ Current(v, gs)
    BY <1>1, <1>3, <2>2 DEF Good, Current, InPlace
  <2> QED BY <2>2, <2>3 DEF v
<1> QED BY <1>2, <1>3

(* An iterator made anew is at a place of its tree. *)
LEMMA AnewGood ==
  ASSUME NEW ks \in [Trees -> SUBSET Keys], NEW gs \in [Trees -> Nat \ {0}],
         NEW t \in Trees, NEW p \in Places(ks[t])
  PROVE  Good(Anew(t, p, gs[t]), ks, gs)
<1> DEFINE it == [tree |-> t, generation |-> 0, key |-> 0, into |-> t, on |-> p]
<1>1. p \in Int \cup {End}
  BY KeysAssumption DEF Places
<1>2. it \in Held /\ it.into = it.tree /\ it.on \in Places(ks[it.tree]) /\ it.tree = t
  BY <1>1 DEF Held
<1>3. Good(Updated(it, gs[it.tree]), ks, gs)
  BY <1>2, UpdatedGood
<1> QED BY <1>2, <1>3 DEF Anew

(* Validation finds the place an iterator stands for. *)
LEMMA ValidatedGood ==
  ASSUME TreesOK, NEW it, Good(it, keys, generation)
  PROVE  /\ Good(Validated(it), keys, generation)
         /\ Current(Validated(it), generation)
         /\ Validated(it).tree = it.tree
         /\ Current(it, generation) => Validated(it) = it
<1> DEFINE g == generation[it.tree]
           found == [it EXCEPT !.into = it.tree,
                               !.on = LowerBound(keys[it.tree], it.key)]
<1>1. it \in Held /\ it.tree \in Trees /\ it.key \in Int /\ it.generation \in Int
      /\ g \in Nat \ {0} /\ keys[it.tree] \in SUBSET Keys
  BY DEF TreesOK, Good, Held
<1>2. CASE Current(it, generation)
  <2>1. Validated(it) = it
    BY <1>1, <1>2 DEF Current, Validated
  <2> QED BY <1>2, <2>1
<1>3. CASE ~Current(it, generation) /\ it.generation > 0
  <2>1. LowerBound(keys[it.tree], it.key) \in Places(keys[it.tree])
    BY <1>1, PlacesThere
  <2>2. LowerBound(keys[it.tree], it.key) \in Int \cup {End}
    BY <1>1, <2>1, KeysAssumption DEF Places
  <2>3. found \in Held /\ found.into = found.tree /\ found.tree = it.tree
        /\ found.on \in Places(keys[found.tree])
    BY <1>1, <2>1, <2>2 DEF Held
  <2>4. Validated(it) = Updated(found, generation[found.tree])
    BY <1>1, <1>3, <2>3 DEF Current, Validated
  <2> HIDE DEF found
  <2> QED BY <1>3, <2>3, <2>4, UpdatedGood DEF TreesOK
<1>4. CASE ~Current(it, generation) /\ ~(it.generation > 0)
  <2>1. Validated(it) = [it EXCEPT !.into = it.tree, !.on = End, !.generation = -g]
    BY <1>1, <1>4 DEF Current, Validated
  <2> DEFINE v == Validated(it)
  <2>2. v \in Held /\ v.tree = it.tree /\ v.into = it.tree /\ v.on = End
        /\ v.generation = -g
    <3>1. -g \in Int /\ it.tree \in Trees /\ it.key \in Int
      BY <1>1
    <3>2. v = [tree |-> it.tree, generation |-> -g, key |-> it.key,
               into |-> it.tree, on |-> End]
      BY <1>1, <2>1 DEF Held
    <3> HIDE DEF v, g
    <3> QED BY <3>1, <3>2 DEF Held
  <2> HIDE DEF v
  <2>3. Good(v, keys, generation) /\ Current(v, generation)
    BY <1>1, <2>2 DEF Good, Current, InPlace, Places
  <2> QED BY <1>4, <2>2, <2>3 DEF v
<1> QED BY <1>2, <1>3, <1>4

(* When the trees of a set change, each counts it and only iterators into   *)
(* their nodes are redirected: none that is outdated becomes current.       *)
LEMMA ChangedGood ==
  ASSUME TreesOK, NEW S \in SUBSET Trees,
         NEW ks \in [Trees -> SUBSET Keys], NEW gs \in [Trees -> Nat \ {0}],
         \A t \in S : gs[t] = generation[t] + 1,
         \A t \in Trees \ S : gs[t] = generation[t] /\ ks[t] = keys[t],
         NEW it, Good(it, keys, generation), NEW into \in Trees \cup {Gone},
         it.into \notin S => into = it.into
  PROVE  Good([it EXCEPT !.into = into], ks, gs)
<1> DEFINE v == [it EXCEPT !.into = into]
           g == generation[it.tree]
<1>1. it \in Held /\ it.tree \in Trees /\ it.generation \in Int /\ it.generation # 0
      /\ g \in Nat \ {0} /\ -g <= it.generation /\ it.generation <= g
  BY DEF TreesOK, Good, Held
<1>2. v \in Held /\ v.tree = it.tree /\ v.into = into /\ v.on = it.on
      /\ v.key = it.key /\ v.generation = it.generation
  BY <1>1 DEF Held
<1> HIDE DEF v
<1>3. CASE it.tree \in S
  <2>1. gs[it.tree] = g + 1
    BY <1>3
  <2>2. -gs[v.tree] <= v.generation /\ v.generation <= gs[v.tree] /\ ~Current(v, gs)
    BY <1>1, <1>2, <2>1 DEF Current
  <2> QED BY <1>1, <1>2, <2>2 DEF Good, v
<1>4. CASE it.tree \notin S
  <2>1. gs[it.tree] = g /\ ks[it.tree] = keys[it.tree]
    BY <1>1, <1>4
  <2>2. Current(v, gs) => Current(it, generation)
    BY <1>2, <2>1 DEF Current
  <2>3. Current(it, generation) => InPlace(it, keys)
    BY DEF Good
  <2>4. Current(v, gs) => InPlace(v, ks)
    BY <1>2, <1>4, <2>1, <2>2, <2>3 DEF InPlace
  <2> QED BY <1>1, <1>2, <2>1, <2>4 DEF Good, v
<1> QED BY <1>3, <1>4

(* The same for one tree, as the actions put it. *)
LEMMA DanglingGood ==
  ASSUME TreesOK, NEW t \in Trees, NEW k \in SUBSET Keys, Changed(t, k),
         NEW its \in [Iterators -> Held],
         \A i \in Iterators : Good(its[i], keys, generation)
  PROVE  /\ TreesOK'
         /\ its \in [Iterators -> Held] /\ Dangling(t, its) \in [Iterators -> Held]
         /\ \A i \in Iterators : /\ Good(its[i], keys', generation')
                                /\ Good(Dangling(t, its)[i], keys', generation')
<1>1. /\ keys' = [keys EXCEPT ![t] = k]
      /\ generation' = [generation EXCEPT ![t] = @ + 1]
  BY DEF Changed
<1>2. TreesOK'
  BY <1>1 DEF TreesOK
<1>3. /\ generation'[t] = generation[t] + 1
      /\ \A u \in Trees \ {t} : generation'[u] = generation[u] /\ keys'[u] = keys[u]
  BY <1>1 DEF TreesOK
<1>4. ASSUME NEW i \in Iterators
      PROVE  /\ Good(its[i], keys', generation')
             /\ Good(Dangling(t, its)[i], keys', generation')
             /\ Dangling(t, its)[i] \in Held
  <2>1. its[i] \in Held /\ its[i].into \in Trees \cup {Gone}
    BY DEF Held
  <2>2. \A into \in Trees \cup {Gone} : 
          (its[i].into \notin {t} => into = its[i].into) =>
             Good([its[i] EXCEPT !.into = into], keys', generation')
    <3> TAKE into \in Trees \cup {Gone}
    <3> HAVE its[i].into \notin {t} => into = its[i].into
    <3>1. {t} \in SUBSET Trees /\ Good(its[i], keys, generation)
          /\ (\A u \in {t} : generation'[u] = generation[u] + 1)
      BY <1>3
    <3>2. keys' \in [Trees -> SUBSET Keys] /\ generation' \in [Trees -> Nat \ {0}]
      BY <1>2 DEF TreesOK
    <3> QED BY <1>3, <3>1, <3>2, ChangedGood
  <2>3. [its[i] EXCEPT !.into = its[i].into] = its[i]
    BY <2>1 DEF Held
  <2>4. Good(its[i], keys', generation')
    BY <2>1, <2>2, <2>3
  <2>5. its[i].into = t => Good([its[i] EXCEPT !.into = Gone], keys', generation')
    BY <2>2
  <2>6. Good(Dangling(t, its)[i], keys', generation')
    BY <2>4, <2>5 DEF Dangling
  <2> QED BY <2>4, <2>6 DEF Good
<1> QED BY <1>2, <1>4 DEF Dangling

-----------------------------------------------------------------------------
(* At the start every iterator is at the end of its tree. *)
LEMMA InitIInv == Init => IInv
<1> SUFFICES ASSUME Init PROVE IInv
  OBVIOUS
<1>1. TreesOK
  BY DEF Init, TreesOK
<1>2. ASSUME NEW t \in Trees
      PROVE  Good(Anew(t, End, 1), keys, generation) /\ Anew(t, End, 1) \in Held
  <2>1. generation[t] = 1 /\ End \in Places(keys[t])
    BY DEF Init, Places
  <2>2. Good(Anew(t, End, 1), keys, generation)
    BY <1>1, <2>1, AnewGood DEF TreesOK
  <2> QED BY <2>2 DEF Good
<1>3. \A i \in Iterators : \E t \in Trees : iters[i] = Anew(t, End, 1)
  BY DEF Init
<1>4. iters \in [Iterators -> Held] /\ \A i \in Iterators : Good(iters[i], keys, generation)
  <2>1. iters \in [Iterators -> {Anew(t, End, 1) : t \in Trees}]
    BY DEF Init
  <2> QED BY <1>2, <1>3, <2>1
<1> QED BY <1>1, <1>4 DEF IInv

(* What a step finds when it brings an iterator up to date. *)
LEMMA FoundPlace ==
  ASSUME IInv, NEW i \in Iterators
  PROVE  /\ iters[i] \in Held /\ iters[i].tree \in Trees
         /\ Validated(iters[i]) \in Held
         /\ Good(Validated(iters[i]), keys, generation)
         /\ Validated(iters[i]).tree = iters[i].tree
         /\ Validated(iters[i]).into = iters[i].tree
         /\ Validated(iters[i]).on \in Places(keys[iters[i].tree])
         /\ Current(iters[i], generation) => Validated(iters[i]) = iters[i]
<1>1. TreesOK /\ Good(iters[i], keys, generation)
  BY DEF IInv
<1> QED BY <1>1, ValidatedGood DEF Good, InPlace, Held

(* A lookup makes a good iterator. *)
LEMMA LookUpGood ==
  ASSUME IInv, NEW i \in Iterators, NEW t \in Trees, LookUp(i, t)
  PROVE  IInv'
<1>1. PICK p \in Places(keys[t]) :
        iters' = [iters EXCEPT ![i] = Anew(t, p, generation[t])]
  BY DEF LookUp
<1>2. Good(Anew(t, p, generation[t]), keys, generation)
  BY AnewGood DEF IInv, TreesOK
<1> QED BY <1>1, <1>2 DEF IInv, TreesOK, LookUp, Good

(* An iterator that is used is validated. *)
LEMMA UseGood ==
  ASSUME IInv, NEW i \in Iterators, Use(i)
  PROVE  IInv'
BY FoundPlace DEF IInv, TreesOK, Use

(* ++ and -- put the validated iterator on another place of its tree. *)
LEMMA MovedGood ==
  ASSUME IInv, NEW i \in Iterators, NEW p \in Places(keys[iters[i].tree])
  PROVE  Good(Updated([Validated(iters[i]) EXCEPT !.on = p],
                      generation[iters[i].tree]), keys, generation)
<1> DEFINE it == [Validated(iters[i]) EXCEPT !.on = p]
<1>1. p \in Int \cup {End}
  BY FoundPlace, KeysAssumption DEF Places, IInv, TreesOK
<1>2. it \in Held /\ it.tree = iters[i].tree /\ it.into = it.tree /\ it.on = p
  BY <1>1, FoundPlace DEF Held
<1> HIDE DEF it
<1>3. Good(Updated(it, generation[it.tree]), keys, generation)
  BY <1>2, UpdatedGood DEF IInv, TreesOK
<1> QED BY <1>2, <1>3 DEF it

(* ++ goes to the next key of the tree as it now is. *)
LEMMA IncrementGood ==
  ASSUME IInv, NEW i \in Iterators, Increment(i)
  PROVE  IInv'
<1> DEFINE v == Validated(iters[i])
<1>1. v.tree = iters[i].tree /\ v.tree \in Trees /\ v.on \in keys[v.tree]
  BY FoundPlace DEF Increment, Places
<1>2. keys[v.tree] \in SUBSET Keys /\ v.on \in Int
  BY <1>1, KeysAssumption DEF IInv, TreesOK
<1>3. Following(keys[v.tree], v.on) \in Places(keys[v.tree])
  BY <1>2, PlacesThere
<1>4. iters' = [iters EXCEPT ![i] =
         Updated([v EXCEPT !.on = Following(keys[v.tree], v.on)], generation[v.tree])]
  BY DEF Increment
<1> HIDE DEF v
<1>5. Good(Updated([v EXCEPT !.on = Following(keys[v.tree], v.on)], generation[v.tree]),
           keys, generation)
  BY <1>1, <1>3, MovedGood DEF v
<1> QED BY <1>4, <1>5 DEF IInv, TreesOK, Increment, Good

(* -- goes to the key before. *)
LEMMA DecrementGood ==
  ASSUME IInv, NEW i \in Iterators, Decrement(i)
  PROVE  IInv'
<1> DEFINE v == Validated(iters[i])
<1>1. v.tree = iters[i].tree /\ v.tree \in Trees /\ v.on \in Places(keys[v.tree])
  BY FoundPlace
<1>2. keys[v.tree] \in SUBSET Keys
  BY <1>1 DEF IInv, TreesOK
<1>3. Preceding(keys[v.tree], v.on) \in Places(keys[v.tree])
  BY <1>1, <1>2, PlacesThere DEF Decrement, Places
<1>4. iters' = [iters EXCEPT ![i] =
         Updated([v EXCEPT !.on = Preceding(keys[v.tree], v.on)], generation[v.tree])]
  BY DEF Decrement
<1> HIDE DEF v
<1>5. Good(Updated([v EXCEPT !.on = Preceding(keys[v.tree], v.on)], generation[v.tree]),
           keys, generation)
  BY <1>1, <1>3, MovedGood DEF v
<1> QED BY <1>4, <1>5 DEF IInv, TreesOK, Decrement, Good

(* A copy remembers the old generation: as stale as what it was made of, it *)
(* may hold a place already brought up to date.                             *)
LEMMA ConstructGood ==
  ASSUME IInv, NEW i \in Iterators, NEW j \in Iterators, Construct(i, j)
  PROVE  IInv'
<1> DEFINE v == Validated(iters[i])
           c == [iters[i] EXCEPT !.into = v.into, !.on = v.on]
<1>1. iters' = [iters EXCEPT ![i] = v, ![j] = c]
  BY DEF Construct
<1>2. iters[i] \in Held /\ v \in Held /\ Good(v, keys, generation)
      /\ (Current(iters[i], generation) => v = iters[i])
      /\ Good(iters[i], keys, generation)
  BY FoundPlace DEF IInv
<1> HIDE DEF v
<1>3. c \in Held /\ c.tree = iters[i].tree /\ c.generation = iters[i].generation
  BY <1>2 DEF Held
<1>4. Current(iters[i], generation) => c = iters[i]
  BY <1>2 DEF Held
<1> HIDE DEF c
<1>5. Good(c, keys, generation)
  BY <1>2, <1>3, <1>4 DEF Good, Current
<1> QED BY <1>1, <1>2, <1>3, <1>5 DEF IInv, TreesOK, Construct

(* A copy is as good as what it copies. *)
LEMMA CopyGood ==
  ASSUME IInv, NEW i \in Iterators, NEW j \in Iterators, Copy(i, j)
  PROVE  IInv'
BY DEF IInv, TreesOK, Copy

-----------------------------------------------------------------------------
(* A change that gives iterator i a place in the new tree. *)
LEMMA RenewedGood ==
  ASSUME IInv, NEW i \in Iterators, NEW t \in Trees, NEW k \in SUBSET Keys,
         Changed(t, k), NEW its \in [Iterators -> Held],
         \A n \in Iterators : Good(its[n], keys, generation),
         NEW p \in Places(k)
  PROVE  /\ iters' = [its EXCEPT ![i] = Anew(t, p, generation'[t])] => IInv'
         /\ iters' = [Dangling(t, its) EXCEPT ![i] = Anew(t, p, generation'[t])] => IInv'
<1>1. TreesOK' /\ Dangling(t, its) \in [Iterators -> Held]
      /\ \A n \in Iterators : /\ Good(its[n], keys', generation')
                             /\ Good(Dangling(t, its)[n], keys', generation')
  BY DanglingGood DEF IInv
<1>2. keys' \in [Trees -> SUBSET Keys] /\ generation' \in [Trees -> Nat \ {0}]
  BY <1>1 DEF TreesOK
<1>3. keys'[t] = k
  BY DEF Changed, IInv, TreesOK
<1>4. Good(Anew(t, p, generation'[t]), keys', generation')
  BY <1>2, <1>3, AnewGood
<1>5. Anew(t, p, generation'[t]) \in Held
  BY <1>4 DEF Good
<1> QED BY <1>1, <1>4, <1>5 DEF IInv

(* An insertion leaves every iterator a key or the end to find. *)
LEMMA InsertUniqueGood ==
  ASSUME IInv, NEW i \in Iterators, NEW t \in Trees, NEW k \in Keys,
         InsertUnique(i, t, k)
  PROVE  IInv'
<1>1. CASE k \in keys[t]
  <2>1. Good(Anew(t, k, generation[t]), keys, generation)
    BY <1>1, AnewGood DEF IInv, TreesOK, Places
  <2> QED BY <1>1, <2>1 DEF InsertUnique, IInv, TreesOK, Good
<1>2. CASE k \notin keys[t]
  <2>1. Changed(t, keys[t] \cup {k}) /\ (keys[t] \cup {k}) \in SUBSET Keys
        /\ k \in Places(keys[t] \cup {k})
        /\ iters' = [Dangling(t, iters) EXCEPT ![i] = Anew(t, k, generation'[t])]
    BY <1>2 DEF InsertUnique, IInv, TreesOK, Places
  <2> QED BY <2>1, RenewedGood DEF IInv
<1> QED BY <1>1, <1>2

(* An insertion with a hint validates the hint first. *)
LEMMA InsertHintGood ==
  ASSUME IInv, NEW i \in Iterators, NEW j \in Iterators, NEW k \in Keys,
         InsertHint(i, j, k)
  PROVE  IInv'
<1> DEFINE t == iters[j].tree
           its == [iters EXCEPT ![j] = Validated(@)]
<1>1. t \in Trees /\ keys[t] \in SUBSET Keys
  BY FoundPlace DEF IInv, TreesOK
<1>2. its \in [Iterators -> Held] /\ \A n \in Iterators : Good(its[n], keys, generation)
  BY FoundPlace DEF IInv
<1>3. /\ Changed(t, keys[t] \cup {k}) /\ (keys[t] \cup {k}) \in SUBSET Keys
      /\ k \in Places(keys[t] \cup {k})
      /\ \/ iters' = [its EXCEPT ![i] = Anew(t, k, generation'[t])]
         \/ iters' = [Dangling(t, its) EXCEPT ![i] = Anew(t, k, generation'[t])]
  BY <1>1 DEF InsertHint, Places
<1> HIDE DEF its, t
<1> QED BY <1>1, <1>2, <1>3, RenewedGood

(* erase(iterator) leaves the iterators at the erased key without it. *)
LEMMA EraseIterGood ==
  ASSUME IInv, NEW i \in Iterators, NEW j \in Iterators, EraseIter(i, j)
  PROVE  IInv'
<1> DEFINE t == iters[j].tree
           p == Validated(iters[j]).on
           its == [iters EXCEPT ![j] = Validated(@)]
<1>1. t \in Trees /\ keys[t] \in SUBSET Keys /\ p \in keys[t]
  BY FoundPlace DEF IInv, TreesOK, EraseIter, Places
<1>2. its \in [Iterators -> Held] /\ \A n \in Iterators : Good(its[n], keys, generation)
  BY FoundPlace DEF IInv
<1>3. Following(keys[t], p) \in Places(keys[t] \ {p})
  <2>1. p \in Int
    BY <1>1, KeysAssumption
  <2>2. Following(keys[t], p) = Following(keys[t] \ {p}, p)
    <3>1. {x \in keys[t] : x > p} = {x \in keys[t] \ {p} : x > p}
      BY <2>1
    <3> HIDE DEF p, t
    <3> QED BY <3>1 DEF Following
  <2>3. keys[t] \ {p} \in SUBSET Keys
    BY <1>1
  <2> HIDE DEF p, t
  <2> QED BY <2>1, <2>2, <2>3, PlacesThere
<1>4. /\ Changed(t, keys[t] \ {p}) /\ keys[t] \ {p} \in SUBSET Keys
      /\ iters' = [Dangling(t, its) EXCEPT
                     ![i] = Anew(t, Following(keys[t], p), generation'[t])]
  BY <1>1 DEF EraseIter
<1> HIDE DEF its, t, p
<1> QED BY <1>1, <1>2, <1>3, <1>4, RenewedGood

(* erase(first, last) validates both ends first. *)
LEMMA EraseRangeGood ==
  ASSUME IInv, NEW i \in Iterators, NEW j \in Iterators, EraseRange(i, j)
  PROVE  IInv'
<1> DEFINE t == iters[i].tree
           its == [iters EXCEPT ![i] = Validated(@), ![j] = Validated(@)]
<1>1. t \in Trees /\ keys[t] \in SUBSET Keys
  BY FoundPlace DEF IInv, TreesOK
<1>2. its \in [Iterators -> Held] /\ \A n \in Iterators : Good(its[n], keys, generation)
  <2>1. \A n \in Iterators : 
          /\ Validated(iters[n]) \in Held
          /\ Good(Validated(iters[n]), keys, generation)
          /\ Validated(Validated(iters[n])) = Validated(iters[n])
    BY FoundPlace, ValidatedGood DEF IInv
  <2> QED BY <2>1 DEF IInv
<1>3. PICK ks \in SUBSET Keys :
        Changed(t, ks) /\ (iters' = its \/ iters' = Dangling(t, its))
  BY <1>1 DEF EraseRange
<1> HIDE DEF its, t
<1> QED BY <1>1, <1>2, <1>3, DanglingGood DEF IInv

(* clear, assignment and swap leave no iterator a node to read. *)
LEMMA WholeTreeGood ==
  ASSUME IInv, NEW t \in Trees, NEW ks \in SUBSET Keys, Changed(t, ks),
         iters' = Dangling(t, iters)
  PROVE  IInv'
BY DanglingGood DEF IInv

(* swap changes the generations of both trees. *)
LEMMA SwapGood ==
  ASSUME IInv, NEW t \in Trees, NEW u \in Trees, Swap(t, u)
  PROVE  IInv'
<1>1. /\ t # u
      /\ keys' = [keys EXCEPT ![t] = keys[u], ![u] = keys[t]]
      /\ generation' = [generation EXCEPT ![t] = @ + 1, ![u] = @ + 1]
  BY DEF Swap, Exchanged
<1>2. TreesOK'
  BY <1>1 DEF IInv, TreesOK
<1>3. /\ \A n \in {t, u} : generation'[n] = generation[n] + 1
      /\ \A n \in Trees \ {t, u} : generation'[n] = generation[n] /\ keys'[n] = keys[n]
  BY <1>1 DEF IInv, TreesOK
<1>4. ASSUME NEW i \in Iterators
      PROVE  Good(iters'[i], keys', generation')
  <2>1. PICK into \in Trees \cup {Gone} :
          /\ iters'[i] = [iters[i] EXCEPT !.into = into]
          /\ iters[i].into \notin {t, u} => into = iters[i].into
    <3>1. iters[i] \in Held /\ iters[i].into \in Trees \cup {Gone}
      BY DEF IInv, Held
    <3>2. [iters[i] EXCEPT !.into = iters[i].into] = iters[i]
      BY <3>1 DEF Held
    <3> QED BY <3>1, <3>2 DEF Swap, Exchanged
  <2> DEFINE S == {t, u}
  <2>2. /\ TreesOK /\ S \in SUBSET Trees /\ Good(iters[i], keys, generation)
        /\ keys' \in [Trees -> SUBSET Keys] /\ generation' \in [Trees -> Nat \ {0}]
        /\ \A n \in S : generation'[n] = generation[n] + 1
        /\ \A n \in Trees \ S : generation'[n] = generation[n] /\ keys'[n] = keys[n]
        /\ iters[i].into \notin S => into = iters[i].into
    BY <1>2, <1>3, <2>1 DEF IInv, TreesOK
  <2> HIDE DEF S
  <2>3. Good([iters[i] EXCEPT !.into = into], keys', generation')
    BY <2>2, ChangedGood
  <2> QED BY <2>1, <2>3
<1>5. iters' \in [Iterators -> Held]
  <2>1. \A i \in Iterators : iters'[i] \in Held
    BY <1>4 DEF Good
  <2> QED BY <2>1 DEF Swap, Exchanged
<1> QED BY <1>2, <1>4, <1>5 DEF IInv

(* Every step keeps the inductive invariant. *)
LEMMA StepIInv == IInv /\ [Next]_vars => IInv'
<1> SUFFICES ASSUME IInv, [Next]_vars PROVE IInv'
  OBVIOUS
<1>1. CASE UNCHANGED vars
  BY <1>1 DEF vars, IInv, TreesOK
<1>2. ASSUME NEW i \in Iterators, NEW t \in Trees, LookUp(i, t) PROVE IInv'
  BY <1>2, LookUpGood
<1>3. ASSUME NEW i \in Iterators, Use(i) \/ Increment(i) \/ Decrement(i) PROVE IInv'
  BY <1>3, UseGood, IncrementGood, DecrementGood
<1>4. ASSUME NEW i \in Iterators, NEW j \in Iterators,
             Construct(i, j) \/ Copy(i, j) \/ EraseIter(i, j) \/ EraseRange(i, j)
      PROVE  IInv'
  BY <1>4, ConstructGood, CopyGood, EraseIterGood, EraseRangeGood
<1>5. ASSUME NEW i \in Iterators, NEW t \in Trees, NEW k \in Keys,
             InsertUnique(i, t, k)
      PROVE  IInv'
  BY <1>5, InsertUniqueGood
<1>6. ASSUME NEW i \in Iterators, NEW j \in Iterators, NEW k \in Keys,
             InsertHint(i, j, k)
      PROVE  IInv'
  BY <1>6, InsertHintGood
<1>7. ASSUME NEW t \in Trees, NEW k \in Keys, EraseUnique(t, k) PROVE IInv'
  <2>1. keys[t] \ {k} \in SUBSET Keys
    BY DEF IInv, TreesOK
  <2> QED BY <1>7, <2>1, WholeTreeGood DEF EraseUnique
<1>8. ASSUME NEW t \in Trees, Clear(t) PROVE IInv'
  <2>1. {} \in SUBSET Keys
    OBVIOUS
  <2> QED BY <1>8, <2>1, WholeTreeGood DEF Clear
<1>9. ASSUME NEW t \in Trees, NEW u \in Trees, Assign(t, u) PROVE IInv'
  <2>1. keys[u] \in SUBSET Keys
    BY DEF IInv, TreesOK
  <2> QED BY <1>9, <2>1, WholeTreeGood DEF Assign
<1>10. ASSUME NEW t \in Trees, NEW u \in Trees, Swap(t, u) PROVE IInv'
  BY <1>10, SwapGood
<1> QED BY <1>1, <1>2, <1>3, <1>4, <1>5, <1>6, <1>7, <1>8, <1>9, <1>10 DEF Next

(***************************************************************************)
(* Whatever callers insert, erase, assign or swap, an iterator used as it  *)
(* is points to the key it remembers in its own tree (the check of the     *)
(* generations in mutable_iter, safe_btree.h).                             *)
(***************************************************************************)
THEOREM NeverDanglingAlways == Spec => []NeverDangling
<1>1. IInv => NeverDangling
  BY DEF IInv, NeverDangling, Good, Current, InPlace
<1> QED BY InitIInv, StepIInv, <1>1, PTL DEF Spec

-----------------------------------------------------------------------------
(* What the iterators mark. *)
LEMMA UpdatedMark ==
  ASSUME NEW it \in Held, NEW g \in Nat \ {0}
  PROVE  MarkOf(Updated(it, g)) = [tree |-> it.tree, on |-> it.on]
<1>1. CASE it.on = End
  <2>1. Updated(it, g) = [it EXCEPT !.generation = -g]
    BY <1>1 DEF Updated
  <2> QED BY <1>1, <2>1 DEF Held, MarkOf
<1>2. CASE it.on # End
  <2>1. Updated(it, g) = [it EXCEPT !.generation = g, !.key = it.on]
    BY <1>2 DEF Updated
  <2> QED BY <1>2, <2>1 DEF Held, MarkOf
<1> QED BY <1>1, <1>2

(* An iterator made anew has the mark of its place. *)
LEMMA AnewMark ==
  ASSUME NEW t \in Trees, NEW p \in Int \cup {End}, NEW g \in Nat \ {0}
  PROVE  MarkOf(Anew(t, p, g)) = SafeMapOf!Mark(t, p)
<1> DEFINE it == [tree |-> t, generation |-> 0, key |-> 0, into |-> t, on |-> p]
<1>1. it \in Held /\ it.tree = t /\ it.on = p
  BY DEF Held
<1> QED BY <1>1, UpdatedMark DEF Anew, SafeMapOf!Mark

(* The first key from a key that is there is that key. *)
LEMMA LowerBoundThere ==
  ASSUME NEW ks \in SUBSET Keys, NEW k \in ks
  PROVE  LowerBound(ks, k) = k
<1> DEFINE T == {x \in ks : x >= k}
<1>1. ks \in SUBSET Int
  BY KeysAssumption
<1>2. k \in T /\ T # {} /\ \A y \in T : k <= y /\ y \in Int
  BY <1>1
<1>3. \A x \in T : (\A y \in T : x <= y) => x = k
  BY <1>2
<1> HIDE DEF T
<1>4. LeastOf(T) = k
  BY <1>2, <1>3 DEF LeastOf
<1> QED BY <1>4 DEF LowerBound, T

(* Bringing an iterator up to date settles what it marks. *)
LEMMA ValidatedMark ==
  ASSUME IInv, NEW i \in Iterators
  PROVE  /\ MarkOf(Validated(iters[i])) = SafeMapOf!Settled(MarkOf(iters[i]))
         /\ SafeMapOf!Settled(MarkOf(iters[i])) =
              SafeMapOf!Mark(iters[i].tree, Validated(iters[i]).on)
<1> DEFINE it == iters[i]
           ks == keys[it.tree]
           g == generation[it.tree]
           found == [it EXCEPT !.into = it.tree, !.on = LowerBound(ks, it.key)]
<1>1. it \in Held /\ it.tree \in Trees /\ it.key \in Int /\ it.generation \in Int
      /\ g \in Nat \ {0} /\ ks \in SUBSET Keys /\ End \notin Int
      /\ (Current(it, generation) => InPlace(it, keys))
  BY FoundPlace, KeysAssumption DEF IInv, TreesOK, Held, Good
<1>2. MarkOf(it) = [tree |-> it.tree, on |-> IF it.generation > 0 THEN it.key ELSE End]
  BY DEF MarkOf
<1>3. SafeMapOf!Settled(MarkOf(it)) =
        [tree |-> it.tree, on |-> IF it.generation > 0 THEN LowerBound(ks, it.key) ELSE End]
  <2>1. \A S : SafeMapOf!LeastOf(S) = LeastOf(S)
    BY DEF SafeMapOf!LeastOf, LeastOf
  <2>2. SafeMapOf!LowerBound(ks, it.key) = LowerBound(ks, it.key)
    BY <2>1 DEF SafeMapOf!LowerBound, LowerBound
  <2> QED BY <1>1, <1>2, <2>2 DEF SafeMapOf!Settled, SafeMapOf!Mark
<1>4. CASE Current(it, generation) /\ it.generation > 0
  <2>1. Validated(it) = it /\ it.on = it.key /\ it.key \in ks
    BY <1>1, <1>4, FoundPlace DEF InPlace, Places
  <2>2. LowerBound(ks, it.key) = it.key
    BY <1>1, <2>1, LowerBoundThere
  <2> QED BY <1>2, <1>3, <1>4, <2>1, <2>2 DEF SafeMapOf!Mark
<1>5. CASE ~Current(it, generation) /\ it.generation > 0
  <2>1. LowerBound(ks, it.key) \in Int \cup {End}
    BY <1>1, PlacesThere, KeysAssumption DEF Places
  <2>2. found \in Held /\ found.tree = it.tree /\ found.on = LowerBound(ks, it.key)
    BY <1>1, <2>1 DEF Held
  <2>3. Validated(it) = Updated(found, g)
    BY <1>1, <1>5 DEF Current, Validated
  <2> HIDE DEF found
  <2>4. MarkOf(Validated(it)) = [tree |-> it.tree, on |-> LowerBound(ks, it.key)]
    BY <1>1, <2>2, <2>3, UpdatedMark
  <2>5. Validated(it).on = LowerBound(ks, it.key)
    BY <2>2, <2>3 DEF Updated, Held
  <2> QED BY <1>3, <1>5, <2>4, <2>5 DEF SafeMapOf!Mark
<1>6. CASE ~(it.generation > 0)
  <2>1. Validated(it).on = End /\ Validated(it).tree = it.tree
        /\ ~(Validated(it).generation > 0)
    <3>1. CASE Current(it, generation)
      BY <1>1, <1>6, <3>1, FoundPlace DEF InPlace
    <3>2. CASE ~Current(it, generation)
      <4>1. Validated(it) = [it EXCEPT !.into = it.tree, !.on = End, !.generation = -g]
        BY <1>1, <1>6, <3>2 DEF Current, Validated
      <4> QED BY <1>1, <4>1 DEF Held
    <3> QED BY <3>1, <3>2
  <2> QED BY <1>3, <1>6, <2>1 DEF MarkOf, SafeMapOf!Mark
<1> QED BY <1>4, <1>5, <1>6

-----------------------------------------------------------------------------
(* Each step of the containers is one of SafeMap. *)
Marks == [i \in Iterators |-> MarkOf(iters[i])]

(* The order of the keys is that of the abstract map. *)
LEMMA SameOrder ==
  /\ \A ks : SafeMapOf!Places(ks) = Places(ks)
  /\ \A ks, k : SafeMapOf!Following(ks, k) = Following(ks, k)
  /\ \A ks, p : SafeMapOf!Before(ks, p) = Before(ks, p)
  /\ \A ks, p : SafeMapOf!Preceding(ks, p) = Preceding(ks, p)
  /\ \A ks, p, q : SafeMapOf!Between(ks, p, q) = Between(ks, p, q)
<1>1. \A S : SafeMapOf!LeastOf(S) = LeastOf(S)
  BY DEF SafeMapOf!LeastOf, LeastOf
<1>2. \A ks, p : SafeMapOf!Before(ks, p) = Before(ks, p)
  BY DEF SafeMapOf!Before, Before
<1>3. \A ks, k : SafeMapOf!Following(ks, k) = Following(ks, k)
  BY <1>1 DEF SafeMapOf!Following, Following
<1>4. \A ks, p : SafeMapOf!Preceding(ks, p) = Preceding(ks, p)
  BY <1>2 DEF SafeMapOf!Preceding, Preceding
<1>5. \A ks, p, q : SafeMapOf!Between(ks, p, q) = Between(ks, p, q)
  BY <1>2 DEF SafeMapOf!Between, Between
<1> QED BY <1>2, <1>3, <1>4, <1>5 DEF SafeMapOf!Places, Places

(* An iterator whose node went has the mark it had. *)
LEMMA DanglingMark ==
  ASSUME NEW t, NEW its \in [Iterators -> Held], NEW i \in Iterators
  PROVE  MarkOf(Dangling(t, its)[i]) = MarkOf(its[i])
<1>1. its[i] \in Held
  OBVIOUS
<1>2. MarkOf([its[i] EXCEPT !.into = Gone]) = MarkOf(its[i])
  BY <1>1 DEF MarkOf, Held
<1> QED BY <1>2 DEF Dangling

(* So has one made at the generation before or after the step. *)
LEMMA NewMark ==
  ASSUME IInv, NEW t \in Trees, NEW p \in Int \cup {End}
  PROVE  /\ MarkOf(Anew(t, p, generation[t])) = SafeMapOf!Mark(t, p)
         /\ TreesOK' => MarkOf(Anew(t, p, generation'[t])) = SafeMapOf!Mark(t, p)
<1>1. generation[t] \in Nat \ {0}
  BY DEF IInv, TreesOK
<1>2. TreesOK' => generation'[t] \in Nat \ {0}
  BY DEF TreesOK
<1> QED BY <1>1, <1>2, AnewMark

(* A place is a key or the end. *)
LEMMA PlacesTyped ==
  ASSUME IInv, NEW t \in Trees, NEW p \in Places(keys[t])
  PROVE  p \in Int \cup {End}
BY KeysAssumption DEF IInv, TreesOK, Places

(* A lookup is a lookup of the abstract map. *)
LEMMA LookUpMaps ==
  ASSUME IInv, NEW i \in Iterators, NEW t \in Trees, LookUp(i, t)
  PROVE  SafeMapOf!LookUp(i, t)
<1>1. PICK p \in Places(keys[t]) :
        iters' = [iters EXCEPT ![i] = Anew(t, p, generation[t])]
  BY DEF LookUp
<1>2. MarkOf(Anew(t, p, generation[t])) = SafeMapOf!Mark(t, p)
  BY PlacesTyped, NewMark
<1>3. Marks' = [Marks EXCEPT ![i] = SafeMapOf!Mark(t, p)]
  BY <1>1, <1>2 DEF Marks, IInv
<1>4. p \in SafeMapOf!Places(keys[t])
  BY SameOrder
<1> QED BY <1>3, <1>4 DEF SafeMapOf!LookUp, Marks, LookUp

(* A use settles the mark. *)
LEMMA UseMaps ==
  ASSUME IInv, NEW i \in Iterators, Use(i)
  PROVE  SafeMapOf!Use(i)
<1>1. Marks' = [Marks EXCEPT ![i] = SafeMapOf!Settled(@)]
  BY ValidatedMark DEF Use, Marks, IInv
<1> QED BY <1>1 DEF SafeMapOf!Use, Marks, Use

(* What an iterator marks once it is brought up to date. *)
LEMMA SettledMark ==
  ASSUME IInv, NEW i \in Iterators
  PROVE  /\ Marks[i] = MarkOf(iters[i])
         /\ SafeMapOf!Settled(Marks[i]).tree = iters[i].tree
         /\ SafeMapOf!Settled(Marks[i]).on = Validated(iters[i]).on
<1>1. Marks[i] = MarkOf(iters[i])
  BY DEF Marks
<1>2. SafeMapOf!Settled(MarkOf(iters[i])) =
        [tree |-> iters[i].tree, on |-> Validated(iters[i]).on]
  BY ValidatedMark DEF SafeMapOf!Mark
<1> QED BY <1>1, <1>2

(* An iterator that is moved has the mark of the place it is moved to. *)
LEMMA MovedMarks ==
  ASSUME IInv, NEW i \in Iterators, NEW p \in Places(keys[iters[i].tree]),
         iters' = [iters EXCEPT ![i] =
                     Updated([Validated(iters[i]) EXCEPT !.on = p],
                             generation[iters[i].tree])]
  PROVE  Marks' = [Marks EXCEPT ![i].on = p]
<1> DEFINE v == Validated(iters[i])
           w == [v EXCEPT !.on = p]
           m == MarkOf(Updated(w, generation[iters[i].tree]))
<1>1. v \in Held /\ v.tree = iters[i].tree /\ iters[i].tree \in Trees
  BY FoundPlace
<1>2. p \in Int \cup {End}
  BY <1>1, PlacesTyped
<1> HIDE DEF v
<1>3. w \in Held /\ w.tree = iters[i].tree /\ w.on = p
  BY <1>1, <1>2 DEF Held
<1>4. generation[iters[i].tree] \in Nat \ {0}
  BY <1>1 DEF IInv, TreesOK
<1> HIDE DEF w
<1>5. m = [tree |-> iters[i].tree, on |-> p]
  BY <1>3, <1>4, UpdatedMark
<1>6. [Marks[i] EXCEPT !.on = p] = m
  BY <1>5 DEF Marks, MarkOf
<1>7. iters' = [iters EXCEPT ![i] = Updated(w, generation[iters[i].tree])]
  BY DEF v, w
<1>8. Marks' = [Marks EXCEPT ![i] = m]
  BY <1>7 DEF Marks, IInv
<1> HIDE DEF m
<1> QED BY <1>6, <1>8

(* ++ is a step of the abstract map. *)
LEMMA IncrementMaps ==
  ASSUME IInv, NEW i \in Iterators, Increment(i)
  PROVE  SafeMapOf!Step(i)
<1> DEFINE v == Validated(iters[i])
           t == iters[i].tree
           p == Following(keys[t], v.on)
<1>1. v.tree = t /\ v.on # End /\ v.on \in keys[t] /\ keys[t] \in SUBSET Keys
  BY FoundPlace DEF Increment, Places, IInv, TreesOK
<1>2. p \in Places(keys[t])
  BY <1>1, PlacesThere, KeysAssumption
<1>3. iters' = [iters EXCEPT ![i] = Updated([v EXCEPT !.on = p], generation[t])]
  BY <1>1 DEF Increment
<1>4. Marks' = [Marks EXCEPT ![i].on = p]
  BY <1>2, <1>3, MovedMarks
<1>5. SafeMapOf!Following(keys[t], v.on) = p
  BY SameOrder
<1> HIDE DEF v, t, p
<1> QED BY <1>1, <1>4, <1>5, SettledMark DEF SafeMapOf!Step, Marks, Increment, t, v

(* -- is a step of the abstract map. *)
LEMMA DecrementMaps ==
  ASSUME IInv, NEW i \in Iterators, Decrement(i)
  PROVE  SafeMapOf!Step(i)
<1> DEFINE v == Validated(iters[i])
           t == iters[i].tree
           p == Preceding(keys[t], v.on)
<1>1. v.tree = t /\ v.on \in Places(keys[t]) /\ keys[t] \in SUBSET Keys
      /\ Before(keys[t], v.on) # {}
  BY FoundPlace DEF Decrement, IInv, TreesOK
<1>2. p \in Places(keys[t])
  BY <1>1, PlacesThere DEF Places
<1>3. iters' = [iters EXCEPT ![i] = Updated([v EXCEPT !.on = p], generation[t])]
  BY <1>1 DEF Decrement
<1>4. Marks' = [Marks EXCEPT ![i].on = p]
  BY <1>2, <1>3, MovedMarks
<1>5. SafeMapOf!Preceding(keys[t], v.on) = p /\ SafeMapOf!Before(keys[t], v.on) # {}
  BY <1>1, SameOrder
<1> HIDE DEF v, t, p
<1> QED BY <1>1, <1>4, <1>5, SettledMark DEF SafeMapOf!Step, Marks, Decrement, t, v

(* A construction from an iterator is one of the abstract map. *)
LEMMA ConstructMaps ==
  ASSUME IInv, NEW i \in Iterators, NEW j \in Iterators, Construct(i, j)
  PROVE  SafeMapOf!Construct(i, j)
<1> DEFINE v == Validated(iters[i])
           c == [iters[i] EXCEPT !.into = v.into, !.on = v.on]
<1>1. iters[i] \in Held /\ i # j
  BY FoundPlace DEF Construct
<1>2. MarkOf(c) = MarkOf(iters[i])
  BY <1>1 DEF MarkOf, Held
<1>3. iters' = [iters EXCEPT ![i] = v, ![j] = c]
  BY DEF Construct
<1> HIDE DEF c
<1>4. Marks' = [Marks EXCEPT ![i] = SafeMapOf!Settled(@), ![j] = Marks[i]]
  BY <1>1, <1>2, <1>3, ValidatedMark DEF Marks, IInv
<1> QED BY <1>1, <1>4 DEF SafeMapOf!Construct, Marks, Construct

(* A copy is a copy of the abstract map. *)
LEMMA CopyMaps ==
  ASSUME IInv, NEW i \in Iterators, NEW j \in Iterators, Copy(i, j)
  PROVE  SafeMapOf!Copy(i, j)
BY DEF IInv, Copy, SafeMapOf!Copy

(* A change of a tree leaves the marks, but for the iterator made anew. *)
LEMMA RenewedMarks ==
  ASSUME IInv, TreesOK', NEW i \in Iterators, NEW t \in Trees,
         NEW p \in Int \cup {End}, NEW its \in [Iterators -> Held],
         \/ iters' = [its EXCEPT ![i] = Anew(t, p, generation'[t])]
         \/ iters' = [Dangling(t, its) EXCEPT ![i] = Anew(t, p, generation'[t])]
  PROVE  Marks' = [[n \in Iterators |-> MarkOf(its[n])]
                     EXCEPT ![i] = SafeMapOf!Mark(t, p)]
<1>1. MarkOf(Anew(t, p, generation'[t])) = SafeMapOf!Mark(t, p)
  BY NewMark
<1>2. \A n \in Iterators : MarkOf(Dangling(t, its)[n]) = MarkOf(its[n])
  BY DanglingMark
<1>3. DOMAIN Dangling(t, its) = Iterators
  BY DEF Dangling
<1>4. \A n \in Iterators :
        MarkOf(iters'[n]) = IF n = i THEN SafeMapOf!Mark(t, p) ELSE MarkOf(its[n])
  BY <1>1, <1>2, <1>3
<1> QED BY <1>4 DEF Marks

(* Iterators whose nodes went have the marks they had. *)
LEMMA DanglingMarks ==
  ASSUME NEW t, NEW its \in [Iterators -> Held],
         iters' = its \/ iters' = Dangling(t, its)
  PROVE  Marks' = [n \in Iterators |-> MarkOf(its[n])]
<1>1. \A n \in Iterators : MarkOf(iters'[n]) = MarkOf(its[n])
  BY DanglingMark
<1> QED BY <1>1 DEF Marks

(* An insertion is one of the abstract map. *)
LEMMA InsertUniqueMaps ==
  ASSUME IInv, NEW i \in Iterators, NEW t \in Trees, NEW k \in Keys,
         InsertUnique(i, t, k)
  PROVE  SafeMapOf!Insert(i, t, k)
<1>1. k \in Int /\ TreesOK' /\ TreesOK /\ iters \in [Iterators -> Held]
  BY KeysAssumption, InsertUniqueGood DEF IInv
<1>2. /\ \/ iters' = [iters EXCEPT ![i] = Anew(t, k, generation'[t])]
         \/ iters' = [Dangling(t, iters) EXCEPT ![i] = Anew(t, k, generation'[t])]
      /\ keys' = [keys EXCEPT ![t] = keys[t] \cup {k}]
  <2>1. CASE k \in keys[t]
    <3>1. keys[t] \cup {k} = keys[t]
      BY <2>1
    <3> QED BY <1>1, <2>1, <3>1 DEF InsertUnique, TreesOK
  <2>2. CASE k \notin keys[t]
    BY <2>2 DEF InsertUnique, Changed
  <2> QED BY <2>1, <2>2
<1>3. Marks' = [Marks EXCEPT ![i] = SafeMapOf!Mark(t, k)]
  <2>1. Marks' = [[n \in Iterators |-> MarkOf(iters[n])]
                    EXCEPT ![i] = SafeMapOf!Mark(t, k)]
    BY <1>1, <1>2, RenewedMarks
  <2> QED BY <2>1 DEF Marks
<1> QED BY <1>2, <1>3 DEF SafeMapOf!Insert, Marks

(* An insertion with a hint is one of the abstract map. *)
LEMMA InsertHintMaps ==
  ASSUME IInv, NEW i \in Iterators, NEW j \in Iterators, NEW k \in Keys,
         InsertHint(i, j, k)
  PROVE  SafeMapOf!InsertHint(i, j, k)
<1> DEFINE t == iters[j].tree
           its == [iters EXCEPT ![j] = Validated(@)]
<1>1. k \in Int /\ TreesOK' /\ t \in Trees /\ its \in [Iterators -> Held]
  BY KeysAssumption, InsertHintGood, FoundPlace DEF IInv
<1>2. /\ \/ iters' = [its EXCEPT ![i] = Anew(t, k, generation'[t])]
         \/ iters' = [Dangling(t, its) EXCEPT ![i] = Anew(t, k, generation'[t])]
      /\ keys' = [keys EXCEPT ![t] = keys[t] \cup {k}]
  BY DEF InsertHint, Changed
<1>3. [n \in Iterators |-> MarkOf(its[n])] = [Marks EXCEPT ![j] = SafeMapOf!Settled(@)]
  BY ValidatedMark DEF Marks, IInv
<1>4. Marks[j].tree = t
  BY DEF Marks, MarkOf
<1> HIDE DEF t, its
<1>5. Marks' = [[Marks EXCEPT ![j] = SafeMapOf!Settled(@)]
                  EXCEPT ![i] = SafeMapOf!Mark(t, k)]
  <2>1. Marks' = [[n \in Iterators |-> MarkOf(its[n])]
                    EXCEPT ![i] = SafeMapOf!Mark(t, k)]
    BY <1>1, <1>2, RenewedMarks
  <2> QED BY <1>3, <2>1
<1> QED BY <1>2, <1>4, <1>5 DEF SafeMapOf!InsertHint, Marks

(* erase(iterator) is one of the abstract map. *)
LEMMA EraseIterMaps ==
  ASSUME IInv, NEW i \in Iterators, NEW j \in Iterators, EraseIter(i, j)
  PROVE  SafeMapOf!EraseIter(i, j)
<1> DEFINE t == iters[j].tree
           p == Validated(iters[j]).on
           its == [iters EXCEPT ![j] = Validated(@)]
           m == SafeMapOf!Settled(Marks[j])
<1>1. TreesOK' /\ t \in Trees /\ its \in [Iterators -> Held]
  BY EraseIterGood, FoundPlace DEF IInv
<1>2. /\ iters' = [Dangling(t, its) EXCEPT
                     ![i] = Anew(t, Following(keys[t], p), generation'[t])]
      /\ keys' = [keys EXCEPT ![t] = keys[t] \ {p}]
      /\ p # End
  BY DEF EraseIter, Changed
<1>3. [n \in Iterators |-> MarkOf(its[n])] = [Marks EXCEPT ![j] = m]
  BY ValidatedMark DEF Marks, IInv
<1>4. m.tree = t /\ m.on = p
  BY SettledMark
<1>5. Following(keys[t], p) \in Int \cup {End}
  <2>1. p \in keys[t] /\ keys[t] \in SUBSET Keys
    BY <1>1, <1>2, FoundPlace DEF Places, IInv, TreesOK
  <2>2. p \in Int
    BY <2>1, KeysAssumption
  <2>3. Following(keys[t], p) \in Places(keys[t])
    BY <2>1, <2>2, PlacesThere
  <2> QED BY <1>1, <2>3, PlacesTyped
<1>6. SafeMapOf!Following(keys[t], p) = Following(keys[t], p)
  BY SameOrder
<1> HIDE DEF t, p, its, m
<1>7. Marks' = [[Marks EXCEPT ![j] = m]
                  EXCEPT ![i] = SafeMapOf!Mark(t, Following(keys[t], p))]
  <2>1. ASSUME NEW q \in Int \cup {End},
               iters' = [Dangling(t, its) EXCEPT ![i] = Anew(t, q, generation'[t])]
        PROVE  Marks' = [[n \in Iterators |-> MarkOf(its[n])]
                           EXCEPT ![i] = SafeMapOf!Mark(t, q)]
    <3>1. \/ iters' = [its EXCEPT ![i] = Anew(t, q, generation'[t])]
          \/ iters' = [Dangling(t, its) EXCEPT ![i] = Anew(t, q, generation'[t])]
      BY <2>1
    <3> QED BY <1>1, <3>1, RenewedMarks
  <2> QED BY <1>2, <1>3, <1>5, <2>1
<1> QED BY <1>2, <1>4, <1>6, <1>7 DEF SafeMapOf!EraseIter, Marks, m

(* erase(first, last) is one of the abstract map. *)
LEMMA EraseRangeMaps ==
  ASSUME IInv, NEW i \in Iterators, NEW j \in Iterators, EraseRange(i, j)
  PROVE  SafeMapOf!EraseRange(i, j)
<1> DEFINE t == iters[i].tree
           v == Validated(iters[i])
           w == Validated(iters[j])
           its == [iters EXCEPT ![i] = Validated(@), ![j] = Validated(@)]
           m == SafeMapOf!Settled(Marks[i])
           n == SafeMapOf!Settled(Marks[j])
<1>1. t \in Trees /\ iters[j].tree = t /\ v.tree = t /\ w.tree = t
  BY FoundPlace DEF EraseRange
<1>2. its \in [Iterators -> Held] /\ its = [iters EXCEPT ![i] = v, ![j] = w]
  <2>1. v \in Held /\ w \in Held /\ Validated(v) = v
    BY FoundPlace, ValidatedGood DEF IInv
  <2> QED BY <2>1 DEF IInv
<1>3. /\ iters' = its \/ iters' = Dangling(t, its)
      /\ keys' = [keys EXCEPT ![t] = keys[t] \ Between(keys[t], v.on, w.on)]
  BY DEF EraseRange, Changed
<1>4. m.tree = t /\ m.on = v.on /\ n.tree = t /\ n.on = w.on
      /\ m = MarkOf(v) /\ n = MarkOf(w)
  BY <1>1, SettledMark, ValidatedMark
<1>5. SafeMapOf!Between(keys[t], v.on, w.on) = Between(keys[t], v.on, w.on)
  BY SameOrder
<1> HIDE DEF t, v, w, its
<1>6. [a \in Iterators |-> MarkOf(its[a])] = [Marks EXCEPT ![i] = m, ![j] = n]
  <2> HIDE DEF m, n
  <2> QED BY <1>2, <1>4 DEF Marks, IInv
<1>7. Marks' = [Marks EXCEPT ![i] = m, ![j] = n]
  <2>1. Marks' = [a \in Iterators |-> MarkOf(its[a])]
    BY <1>2, <1>3, DanglingMarks
  <2> QED BY <1>6, <2>1
<1> HIDE DEF m, n
<1> QED BY <1>3, <1>4, <1>5, <1>7 DEF SafeMapOf!EraseRange, Marks, m, n

(* A change of a whole tree leaves every mark. *)
LEMMA WholeTreeMaps ==
  ASSUME IInv, NEW t \in Trees, NEW ks, Changed(t, ks), iters' = Dangling(t, iters)
  PROVE  keys' = [keys EXCEPT ![t] = ks] /\ Marks' = Marks
BY DanglingMarks DEF Changed, IInv, Marks

(* swap is the swap of the abstract map. *)
LEMMA SwapMaps ==
  ASSUME IInv, NEW t \in Trees, NEW u \in Trees, Swap(t, u)
  PROVE  SafeMapOf!Swap(t, u)
<1>1. ASSUME NEW i \in Iterators PROVE MarkOf(iters'[i]) = MarkOf(iters[i])
  <2>1. iters[i] \in Held
    BY DEF IInv
  <2>2. \A into : MarkOf([iters[i] EXCEPT !.into = into]) = MarkOf(iters[i])
    BY <2>1 DEF MarkOf, Held
  <2> QED BY <2>2 DEF Swap, Exchanged
<1>2. Marks' = Marks
  BY <1>1 DEF Marks
<1> QED BY <1>2 DEF SafeMapOf!Swap, Marks, Swap, Exchanged

(* The initial states are initial states of the abstract map. *)
LEMMA InitMaps == Init => SafeMapOf!Init
<1> SUFFICES ASSUME Init PROVE SafeMapOf!Init
  OBVIOUS
<1>1. \A t \in Trees : MarkOf(Anew(t, End, 1)) = SafeMapOf!Mark(t, End)
  <2>1. 1 \in Nat \ {0} /\ End \in Int \cup {End}
    OBVIOUS
  <2> QED BY <2>1, AnewMark
<1>2. \A i \in Iterators : MarkOf(iters[i]) \in {SafeMapOf!Mark(t, End) : t \in Trees}
  BY <1>1 DEF Init
<1> QED BY <1>2 DEF Init, SafeMapOf!Init

(* Every step is a step of the abstract map or none. *)
LEMMA StepMaps == IInv /\ [Next]_vars => [SafeMapOf!Next]_SafeMapOf!vars
<1> SUFFICES ASSUME IInv, [Next]_vars PROVE [SafeMapOf!Next]_SafeMapOf!vars
  OBVIOUS
<1>1. CASE UNCHANGED vars
  BY <1>1 DEF vars, SafeMapOf!vars
<1>2. ASSUME NEW i \in Iterators, NEW t \in Trees, LookUp(i, t) PROVE SafeMapOf!Next
  BY <1>2, LookUpMaps DEF SafeMapOf!Next
<1>3. ASSUME NEW i \in Iterators, Use(i) \/ Increment(i) \/ Decrement(i)
      PROVE  SafeMapOf!Next
  BY <1>3, UseMaps, IncrementMaps, DecrementMaps DEF SafeMapOf!Next
<1>4. ASSUME NEW i \in Iterators, NEW j \in Iterators,
             Construct(i, j) \/ Copy(i, j) \/ EraseIter(i, j) \/ EraseRange(i, j)
      PROVE  SafeMapOf!Next
  BY <1>4, ConstructMaps, CopyMaps, EraseIterMaps, EraseRangeMaps DEF SafeMapOf!Next
<1>5. ASSUME NEW i \in Iterators, NEW t \in Trees, NEW k \in Keys,
             InsertUnique(i, t, k)
      PROVE  SafeMapOf!Next
  BY <1>5, InsertUniqueMaps DEF SafeMapOf!Next
<1>6. ASSUME NEW i \in Iterators, NEW j \in Iterators, NEW k \in Keys,
             InsertHint(i, j, k)
      PROVE  SafeMapOf!Next
  BY <1>6, InsertHintMaps DEF SafeMapOf!Next
<1>7. ASSUME NEW t \in Trees, NEW k \in Keys, EraseUnique(t, k)
      PROVE  SafeMapOf!Next
  <2>1. SafeMapOf!EraseUnique(t, k)
    BY <1>7, WholeTreeMaps DEF EraseUnique, SafeMapOf!EraseUnique, Marks
  <2> QED BY <2>1 DEF SafeMapOf!Next
<1>8. ASSUME NEW t \in Trees, Clear(t) PROVE SafeMapOf!Next
  <2>1. SafeMapOf!Clear(t)
    BY <1>8, WholeTreeMaps DEF Clear, SafeMapOf!Clear, Marks
  <2> QED BY <2>1 DEF SafeMapOf!Next
<1>9. ASSUME NEW t \in Trees, NEW u \in Trees, Assign(t, u) PROVE SafeMapOf!Next
  <2>1. SafeMapOf!Assign(t, u)
    BY <1>9, WholeTreeMaps DEF Assign, SafeMapOf!Assign, Marks
  <2> QED BY <2>1 DEF SafeMapOf!Next
<1>10. ASSUME NEW t \in Trees, NEW u \in Trees, Swap(t, u) PROVE SafeMapOf!Next
  BY <1>10, SwapMaps DEF SafeMapOf!Next
<1> QED BY <1>1, <1>2, <1>3, <1>4, <1>5, <1>6, <1>7, <1>8, <1>9, <1>10 DEF Next

(***************************************************************************)
(* For their callers the safe containers are SafeMap: an iterator stays on *)
(* the key it marks through every change, and moves to the first key       *)
(* behind it only when that key is gone (safe_btree.h:15-23).              *)
(***************************************************************************)
THEOREM ImplementsSafeMapAlways == Spec => ImplementsSafeMap
<1> QED BY InitIInv, StepIInv, InitMaps, StepMaps, PTL
        DEF Spec, ImplementsSafeMap, SafeMapOf!Spec
=============================================================================
