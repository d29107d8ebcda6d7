------------------------------ MODULE BTreeNode ------------------------------
(***************************************************************************)
(* The nodes of include/btree/btree.h (btree_node, btree_iterator and the  *)
(* allocation of nodes) as operators over a heap h:                        *)
(*   h.node       the allocated nodes, under their addresses               *)
(*   h.root       the root, Null in an empty tree                          *)
(*   h.rightmost  the fields only an internal root has: the last leaf and  *)
(*   h.size       the number of values; Null and 0 when there is none      *)
(* A node holds its values, the addresses of its children if it is not a   *)
(* leaf, and the links back: its parent and its position there.  The       *)
(* parent of the root is the leftmost leaf.  Positions count from 0 as in  *)
(* the source: value i of a node is values[i + 1], child i children[i + 1].*)
(***************************************************************************)
EXTENDS Integers, Sequences, FiniteSets, SequencesExt

CONSTANT kNodeValues    \* values a node has room for

ASSUME NodeValuesAssumption == kNodeValues \in Nat /\ kNodeValues >= 3

Null == 0
KeyOf(v) == v[1]

EmptyHeap == [node |-> << >>, root |-> Null, rightmost |-> Null, size |-> 0]

(* Reading the heap. *)
Leaf(h, n) == h.node[n].leaf
Count(h, n) == Len(h.node[n].values)
KeyAt(h, it) == KeyOf(h.node[it.node].values[it.position + 1])
Child(h, n, i) == h.node[n].children[i + 1]
Parent(h, n) == h.node[n].parent
Position(h, n) == h.node[n].position
Full(h, n) == Count(h, n) = h.node[n].max_count
IsRoot(h, n) == Leaf(h, Parent(h, n))

Leftmost(h) == IF h.root = Null THEN Null ELSE Parent(h, h.root)
Rightmost(h) ==
  IF h.root = Null \/ Leaf(h, h.root) THEN h.root ELSE h.rightmost

(* Allocating and freeing. *)
Fresh(h) ==
  CHOOSE n \in 1 .. Cardinality(DOMAIN h.node) + 1 : n \notin DOMAIN h.node

NewNode(leaf, parent, max) ==
  [leaf |-> leaf, position |-> 0, max_count |-> max, values |-> << >>,
   children |-> << >>, parent |-> parent]

Allocated(h, n, record) ==
  [h EXCEPT !.node = [m \in DOMAIN @ \cup {n} |->
                        IF m = n THEN record ELSE @[m]]]

Freed(h, n) == [h EXCEPT !.node = [m \in DOMAIN @ \ {n} |-> @[m]]]

(* Node n gets these values and children; set_child makes the children     *)
(* know their parent and their position in it.  In the mutant those that   *)
(* only move along within n keep their old position.                       *)
FilledUnplaced(h, n, values, children) ==
  LET place == [c \in ToSet(children) |->
                  CHOOSE i \in DOMAIN children : children[i] = c]
  IN [h EXCEPT !.node =
       [m \in DOMAIN @ |->
         CASE m = n -> [@[m] EXCEPT !.values = values, !.children = children]
           [] m \in DOMAIN place /\ m # n /\ @[m].parent # n ->
                [@[m] EXCEPT !.parent = n, !.position = place[m] - 1]
           [] OTHER -> @[m]]]

Filled(h, n, values, children) ==
  LET place == [c \in ToSet(children) |->
                  CHOOSE i \in DOMAIN children : children[i] = c]
  IN [h EXCEPT !.node =
       [m \in DOMAIN @ |->
         CASE m = n -> [@[m] EXCEPT !.values = values, !.children = children]
           [] m \in DOMAIN place /\ m # n ->
                [@[m] EXCEPT !.parent = n, !.position = place[m] - 1]
           [] OTHER -> @[m]]]

First(s, k) == SubSeq(s, 1, IF k < Len(s) THEN k ELSE Len(s))
After(s, k) == SubSeq(s, k + 1, Len(s))

Inserted(h, n, i, v) ==
  Filled(h, n, InsertAt(h.node[n].values, i + 1, v), h.node[n].children)

(* remove_value: an internal node loses the child behind the value too. *)
Removed(h, n, i) ==
  LET r == h.node[n]
  IN Filled(h, n, RemoveAt(r.values, i + 1),
            IF r.leaf THEN << >> ELSE RemoveAt(r.children, i + 2))

(* The siblings left and right pass k values through their parent. *)
RightToLeft(h, left, right, k) ==
  LET p == Parent(h, left)
      i == Position(h, left) + 1
      l == h.node[left]
      r == h.node[right]
      h1 == [h EXCEPT !.node[p].values[i] = r.values[k]]
      h2 == Filled(h1, left,
                   l.values \o <<h.node[p].values[i]>> \o First(r.values, k - 1),
                   l.children \o First(r.children, k))
  IN Filled(h2, right, After(r.values, k), After(r.children, k))

LeftToRight(h, left, right, k) ==
  LET p == Parent(h, left)
      i == Position(h, left) + 1
      l == h.node[left]
      r == h.node[right]
      keep == Len(l.values) - k
      h1 == [h EXCEPT !.node[p].values[i] = l.values[keep + 1]]
      h2 == Filled(h1, left, First(l.values, keep), First(l.children, keep + 1))
  IN Filled(h2, right,
            After(l.values, keep + 1) \o <<h.node[p].values[i]>> \o r.values,
            After(l.children, keep + 1) \o r.children)

(* split: n keeps the lower part, dest gets the upper part, and the key    *)
(* between them goes up; where the next value will go decides the parts.   *)
Split(h, n, dest, insert_position) ==
  LET r == h.node[n]
      p == h.node[r.parent]
      count == Len(r.values)
      moved == CASE insert_position = 0 -> count - 1
                 [] insert_position = r.max_count -> 0
                 [] OTHER -> count \div 2
      keep == count - moved - 1
      h1 == Filled(h, r.parent,
                   InsertAt(p.values, r.position + 1, r.values[keep + 1]),
                   InsertAt(p.children, r.position + 2, dest))
      h2 == Filled(h1, n, First(r.values, keep), First(r.children, keep + 1))
  IN Filled(h2, dest, After(r.values, keep + 1), After(r.children, keep + 1))

(* merge: left takes the delimiting value and all of right, which is left  *)
(* without values and loses its place in the parent.                       *)
Merged(h, left, right) ==
  LET l == h.node[left]
      r == h.node[right]
      delimiter == h.node[l.parent].values[l.position + 1]
      h1 == Filled(h, left, l.values \o <<delimiter>> \o r.values,
                   l.children \o r.children)
      h2 == Filled(h1, right, << >>, << >>)
  IN Removed(h2, l.parent, l.position)
=============================================================================
