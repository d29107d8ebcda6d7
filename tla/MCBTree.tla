------------------------------- MODULE MCBTree -------------------------------
(* Trees of nodes of four values: every tree of up to seven keys, larger   *)
(* ones that were filled in order or in reverse, whose upper nodes a few   *)
(* keys more or less make split, pass values, merge and shrink, and multi  *)
(* containers with one key in many nodes.                                  *)
EXTENDS BTree, TLC

VARIABLES contents, at

Map(keys) == {<<k, 1>> : k \in keys}
Twins(keys) == keys \X {1, 2}
Ascending(n) == [i \in 1 .. n |-> <<i, 1>>]
Descending(n) == [i \in 1 .. n |-> <<n + 1 - i, 1>>]
Same(n, k) == [i \in 1 .. n |-> <<k, 1>>]

Use(max, load, offers) ==
  [multi |-> FALSE, max |-> max, load |-> load, offers |-> offers]
MultiUse(max, load, offers) ==
  [multi |-> TRUE, max |-> max, load |-> load, offers |-> offers]

MCUses ==
  {Use(8, << >>, Map(1 .. 7) \cup {<<3, 2>>}),
   Use(30, Ascending(26), Map({18, 20, 23})),
   Use(30, Descending(25), Map({1, 2, 7})),
   Use(50, Descending(44), Map({5, 0, -1})),
   MultiUse(6, << >>, Twins({1, 2})),
   MultiUse(10, Same(8, 5), {<<5, 2>>})}

(* The refinement mapping, kept in variables: the values in the order of a *)
(* walk w, and the place of the iterator there, 0 if it is on no value.    *)
RankIn(w, h, it) ==
  IF it = End(h) THEN Len(w) + 1 ELSE SelectInSeq(w, LAMBDA x : x = it)

MCInit ==
  /\ Init
  /\ contents = Contents(heap)
  /\ at = RankIn(Walk(heap), heap, iter)

MCNext ==
  /\ Next
  /\ \E w \in {Walk(heap')} :
       /\ contents' = [i \in DOMAIN w |-> ValueAt(heap', w[i])]
       /\ at' = RankIn(w, heap', iter')

MCSpec == MCInit /\ [][MCNext]_<<vars, contents, at>>

OrderedMapOf ==
  INSTANCE OrderedMap WITH
    Values <- UNION {u.offers \cup ToSet(u.load) : u \in Uses},
    multi <- use.multi

(* The tree of nodes implements the ordered map: every call leaves the     *)
(* right values in the right order, whatever was split, merged or moved    *)
(* on the way, and the iterator it returns stands where the map says: on   *)
(* the value inserted or found, or on the one behind those erased.         *)
ImplementsOrderedMap == OrderedMapOf!Spec
=============================================================================
