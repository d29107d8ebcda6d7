------------------------------ MODULE SafeBTree ------------------------------
(***************************************************************************)
(* The safe containers of include/btree/safe_btree.h: a tree that counts   *)
(* its changes, its generation, and iterators that notice by the           *)
(* generation they remember that the iterator of the tree they hold may    *)
(* dangle, and find their place again by the key they remember.  A tree is *)
(* seen as its set of keys (BTree has the nodes below).                    *)
(***************************************************************************)
EXTENDS KeyOrder

CONSTANTS
  Trees,            \* the containers
  Iterators,        \* the iterators that callers hold
  MaxGeneration,    \* bound on the changes of a tree
  Gone              \* where an iterator of btree.h points that dangles

ASSUME GoneAssumption == Gone \notin Trees /\ MaxGeneration \in Nat

VARIABLES
  keys,             \* of each tree
  generation,       \* of each tree
  iters             \* what each iterator holds: its tree_, generation_, key_
                    \* and iter_, which points into the nodes of a tree, on a
                    \* key there or the end

vars == <<keys, generation, iters>>

(* update: remember the key the iterator of the tree is on; the generation *)
(* turned negative says that it is the end.                                *)
Updated(it, gen) ==
  IF it.on # End THEN [it EXCEPT !.generation = gen, !.key = it.on]
                 ELSE [it EXCEPT !.generation = -gen]

(* A new iterator of tree t on p.  The first key_ is never looked at. *)
Anew(t, p, gen) ==
  Updated([tree |-> t, generation |-> 0, key |-> 0, into |-> t, on |-> p], gen)

(* mutable_iter; in the mutant the sign of the generation is forgotten. *)
ValidatedByNumber(it) ==
  IF it.generation \in {generation[it.tree], -generation[it.tree]} THEN it
  ELSE Updated([it EXCEPT !.into = it.tree, !.on = LowerBound(keys[it.tree], it.key)],
               generation[it.tree])

Validated(it) ==
  CASE it.generation = generation[it.tree] -> it
    [] it.generation # generation[it.tree] /\ it.generation > 0 ->
         Updated([it EXCEPT !.into = it.tree,
                            !.on = LowerBound(keys[it.tree], it.key)],
                 generation[it.tree])
    [] it.generation <= 0 /\ -it.generation # generation[it.tree] ->
         [it EXCEPT !.into = it.tree, !.on = End,
                    !.generation = -generation[it.tree]]
    [] OTHER -> it

(* Once the nodes of t change the iterators into them dangle. *)
Dangling(t, its) ==
  [i \in Iterators |-> IF its[i].into = t THEN [its[i] EXCEPT !.into = Gone]
                       ELSE its[i]]

-----------------------------------------------------------------------------
(* begin, end, find, lower_bound and upper_bound give any place of a tree. *)
LookUp(i, t) ==
  /\ \E p \in Places(keys[t]) :
       iters' = [iters EXCEPT ![i] = Anew(t, p, generation[t])]
  /\ UNCHANGED <<keys, generation>>

(* A comparison or, on a key, an access. *)
Use(i) ==
  /\ iters' = [iters EXCEPT ![i] = Validated(@)]
  /\ UNCHANGED <<keys, generation>>

(* The callers compared i with end() before, or with begin(). *)
Increment(i) ==
  LET it == Validated(iters[i])
  IN /\ it.on # End
     /\ iters' = [iters EXCEPT ![i] =
          Updated([it EXCEPT !.on = Following(keys[it.tree], it.on)],
                  generation[it.tree])]
     /\ UNCHANGED <<keys, generation>>

Decrement(i) ==
  LET it == Validated(iters[i])
  IN /\ Before(keys[it.tree], it.on) # {}
     /\ iters' = [iters EXCEPT ![i] =
          Updated([it EXCEPT !.on = Preceding(keys[it.tree], it.on)],
                  generation[it.tree])]
     /\ UNCHANGED <<keys, generation>>

(* j is constructed from i, as every parameter passed by value is: the     *)
(* generation and key are copied before iter() brings i up to date, so     *)
(* that j stays stale if i was.                                            *)
Construct(i, j) ==
  /\ i # j
  /\ iters' = [iters EXCEPT ![i] = Validated(@),
                            ![j] = [iters[i] EXCEPT
                                      !.into = Validated(iters[i]).into,
                                      !.on = Validated(iters[i]).on]]
  /\ UNCHANGED <<keys, generation>>

(* j = i, or a const_iterator made of another: nothing is brought up. *)
Copy(i, j) ==
  /\ iters' = [iters EXCEPT ![j] = iters[i]]
  /\ UNCHANGED <<keys, generation>>

-----------------------------------------------------------------------------
(* Tree t changes to the keys ks: its generation goes up, and the iterator *)
(* i, if there is one, is made anew on p.                                  *)
Changed(t, ks) ==
  /\ generation[t] < MaxGeneration
  /\ keys' = [keys EXCEPT ![t] = ks]
  /\ generation' = [generation EXCEPT ![t] = @ + 1]

InsertUnique(i, t, k) ==
  IF k \in keys[t]
    THEN /\ iters' = [iters EXCEPT ![i] = Anew(t, k, generation[t])]
         /\ UNCHANGED <<keys, generation>>
    ELSE /\ Changed(t, keys[t] \cup {k})
         /\ iters' = [Dangling(t, iters) EXCEPT ![i] = Anew(t, k, generation'[t])]

(* Passing the hint brings j up to date.  The generation goes up whether   *)
(* or not the key is there already.                                        *)
InsertHint(i, j, k) ==
  LET t == iters[j].tree
      its == [iters EXCEPT ![j] = Validated(@)]
  IN /\ Changed(t, keys[t] \cup {k})
     /\ iters' = [(IF k \in keys[t] THEN its ELSE Dangling(t, its))
                    EXCEPT ![i] = Anew(t, k, generation'[t])]

(* erase of what j is on, which passing j brings up to date. *)
EraseIter(i, j) ==
  LET t == iters[j].tree
      p == Validated(iters[j]).on
  IN /\ p # End
     /\ Changed(t, keys[t] \ {p})
     /\ iters' = [Dangling(t, [iters EXCEPT ![j] = Validated(@)]) EXCEPT
                    ![i] = Anew(t, Following(keys[t], p), generation'[t])]

(* erase of the keys from i to j, which are brought up to date before. *)
EraseRange(i, j) ==
  LET t == iters[i].tree
      from == Validated(iters[i]).on
      to == Validated(iters[j]).on
      erased == Between(keys[t], from, to)
  IN /\ iters[j].tree = t
     /\ to # End => from \in Before(keys[t], to) \cup {to}
     /\ Changed(t, keys[t] \ erased)
     /\ iters' = LET its == [iters EXCEPT ![i] = Validated(@), ![j] = Validated(@)]
                 IN IF erased = {} THEN its ELSE Dangling(t, its)

EraseUnique(t, k) ==
  /\ k \in keys[t]
  /\ Changed(t, keys[t] \ {k})
  /\ iters' = Dangling(t, iters)

Clear(t) ==
  /\ Changed(t, {})
  /\ iters' = Dangling(t, iters)

Assign(t, u) ==
  /\ t # u
  /\ Changed(t, keys[u])
  /\ iters' = Dangling(t, iters)

(* The trees change places, nodes and all, so the iterators into the nodes *)
(* of one now point into the other's; the mutant leaves the generations.   *)
Exchanged(t, u) ==
  /\ keys' = [keys EXCEPT ![t] = keys[u], ![u] = keys[t]]
  /\ iters' = [i \in Iterators |->
                 CASE iters[i].into = t -> [iters[i] EXCEPT !.into = u]
                   [] iters[i].into = u -> [iters[i] EXCEPT !.into = t]
                   [] OTHER -> iters[i]]

SwapSilently(t, u) ==
  /\ t # u
  /\ Exchanged(t, u)
  /\ UNCHANGED generation

Swap(t, u) ==
  /\ t # u
  /\ generation[t] < MaxGeneration
  /\ generation[u] < MaxGeneration
  /\ Exchanged(t, u)
  /\ generation' = [generation EXCEPT ![t] = @ + 1, ![u] = @ + 1]

(* A copy of a container starts with its keys and the first generation. *)
Init ==
  /\ keys \in [Trees -> SUBSET Keys]
  /\ generation = [t \in Trees |-> 1]
  /\ iters \in [Iterators -> {Anew(t, End, 1) : t \in Trees}]

Next ==
  \/ \E i \in Iterators, t \in Trees : LookUp(i, t)
  \/ \E i \in Iterators : Use(i) \/ Increment(i) \/ Decrement(i)
  \/ \E i, j \in Iterators :
       Construct(i, j) \/ Copy(i, j) \/ EraseIter(i, j) \/ EraseRange(i, j)
  \/ \E i \in Iterators, t \in Trees, k \in Keys : InsertUnique(i, t, k)
  \/ \E i, j \in Iterators, k \in Keys : InsertHint(i, j, k)
  \/ \E t \in Trees, k \in Keys : EraseUnique(t, k)
  \/ \E t \in Trees : Clear(t)
  \/ \E t, u \in Trees : Assign(t, u) \/ Swap(t, u)

Spec == Init /\ [][Next]_vars

-----------------------------------------------------------------------------
(* An iterator whose generation is the tree's is used as it is.  It then   *)
(* points into the nodes of its own tree, on a key that is there, the one  *)
(* it remembers, or on the end: no change by another caller went unnoticed.*)
NeverDangling ==
  \A i \in Iterators :
    LET it == iters[i]
    IN it.generation \in {generation[it.tree], -generation[it.tree]} =>
         /\ it.into = it.tree
         /\ it.on = IF it.generation > 0 THEN it.key ELSE End
         /\ it.on \in Places(keys[it.tree])

(* The generations and remembered keys implement iterators that mark keys: *)
(* mutable_iter finds the key or the first behind it, end() stays end(),   *)
(* and no change of a tree moves an iterator any further.                  *)
MarkOf(it) ==
  [tree |-> it.tree, on |-> IF it.generation > 0 THEN it.key ELSE End]

SafeMapOf ==
  INSTANCE SafeMap WITH marks <- [i \in Iterators |-> MarkOf(iters[i])]

ImplementsSafeMap == SafeMapOf!Spec
=============================================================================
