----------------------------- MODULE OrderedMap -----------------------------
(***************************************************************************)
(* What the containers of include/btree promise, without their tree: the   *)
(* values in the order of their keys, at most one of a key in a btree_map  *)
(* or btree_set and any number in a btree_multimap or btree_multiset, and  *)
(* an iterator, which is a place in that order.  BTree implements it.      *)
(***************************************************************************)
EXTENDS Integers, Sequences, FiniteSets, SequencesExt

CONSTANT
  Values        \* pairs <<key, data>>; a key is a number

VARIABLES
  multi,        \* the container is a multimap or multiset
  contents,     \* its values, <<key, data>>, in order
  at            \* where the iterator stands: Len(contents) + 1 is end()

vars == <<multi, contents, at>>

KeyOf(v) == v[1]
Below(k) == {i \in DOMAIN contents : KeyOf(contents[i]) < k}
UpTo(k) == {i \in DOMAIN contents : KeyOf(contents[i]) <= k}

(* The first place whose key is not less, and the first whose is greater. *)
Lower(k) == Cardinality(Below(k)) + 1
Upper(k) == Cardinality(UpTo(k)) + 1
Present(k) == Lower(k) # Upper(k)
End == Len(contents) + 1

Ordered(s) == \A i \in 1 .. Len(s) - 1 : KeyOf(s[i]) <= KeyOf(s[i + 1])

Init ==
  /\ multi \in BOOLEAN
  /\ contents \in Seq(Values)
  /\ Ordered(contents)
  /\ at = 1

(* A map leaves the value alone that its key has. *)
InsertUnique(v) ==
  /\ ~multi
  /\ at' = Lower(KeyOf(v))
  /\ contents' = IF Present(KeyOf(v)) THEN contents
                 ELSE InsertAt(contents, at', v)
  /\ UNCHANGED multi

(* A multimap puts a value behind those with its key, or, asked to insert  *)
(* it near an iterator, anywhere among them.                               *)
InsertBehind(v) ==
  /\ multi
  /\ at' = Upper(KeyOf(v))
  /\ contents' = InsertAt(contents, at', v)
  /\ UNCHANGED multi

InsertAmong(v) ==
  /\ multi
  /\ at' \in Lower(KeyOf(v)) .. Upper(KeyOf(v))
  /\ contents' = InsertAt(contents, at', v)
  /\ UNCHANGED multi

(* Erasing n values leaves the iterator on the value behind them. *)
EraseRange(n) ==
  /\ at + n <= End
  /\ UNCHANGED <<multi, at>>
  /\ contents' = SubSeq(contents, 1, at - 1) \o
                 SubSeq(contents, at + n, Len(contents))

(* Erasing a key erases all that has it; the iterators are void then. *)
EraseKey(k) ==
  /\ at' = 1
  /\ contents' = SubSeq(contents, 1, Lower(k) - 1) \o
                 SubSeq(contents, Upper(k), Len(contents))
  /\ UNCHANGED multi

Clear ==
  /\ contents' = << >>
  /\ at' = 1
  /\ UNCHANGED multi

(* A copy has the same values in the same order. *)
Copy ==
  /\ at' = 1
  /\ UNCHANGED <<multi, contents>>

Find(k) ==
  /\ UNCHANGED <<multi, contents>>
  /\ at' = IF Present(k) THEN Lower(k) ELSE End

Bound(k) ==
  /\ UNCHANGED <<multi, contents>>
  /\ at' \in {Lower(k), Upper(k)}

Next ==
  \/ \E k \in {KeyOf(v) : v \in Values} : Find(k) \/ Bound(k) \/ EraseKey(k)
  \/ \E n \in 1 .. Len(contents) : EraseRange(n)
  \/ \E v \in Values : InsertUnique(v) \/ InsertBehind(v) \/ InsertAmong(v)
  \/ Clear
  \/ Copy

Spec == Init /\ [][Next]_vars
=============================================================================
