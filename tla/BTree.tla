-------------------------------- MODULE BTree --------------------------------
(***************************************************************************)
(* The B-tree of include/btree/btree.h, on which btree_map, btree_set and  *)
(* their multi variants are built (btree_container.h): the btree_map holds *)
(* the children of a context tree's wide vertices.  A call of the library  *)
(* is one action; the caller keeps the iterator the last call gave it,     *)
(* as every other one is void after a change.                              *)
(***************************************************************************)
EXTENDS BTreeNode

CONSTANT
  Uses      \* how a container is used: [multi, load, offers, max], whether it
            \* is a multi container, the values it is filled with, those the
            \* caller goes on inserting, looking up and erasing, and the bound
            \* on its values

VARIABLES
  use,      \* one of Uses
  heap,     \* the nodes of the tree
  iter      \* the caller's iterator, [node, position]

vars == <<use, heap, iter>>

kMinNodeValues == kNodeValues \div 2

At(n, i) == [node |-> n, position |-> i]
Nowhere == At(Null, 0)

Begin(h) == At(Leftmost(h), 0)
End(h) ==
  LET r == Rightmost(h) IN At(r, IF r = Null THEN 0 ELSE Count(h, r))
InternalEnd(h, it) == IF it.node = Null THEN End(h) ELSE it

-----------------------------------------------------------------------------
(* Iterators: up from the end or the front of a node, down to a leaf. *)
RECURSIVE Ascend(_, _), Descend(_, _), FirstLeaf(_, _), LastLeaf(_, _)

Ascend(h, it) ==
  IF it.position = Count(h, it.node) /\ ~IsRoot(h, it.node)
    THEN Ascend(h, At(Parent(h, it.node), Position(h, it.node)))
    ELSE it

Descend(h, it) ==
  IF it.position < 0 /\ ~IsRoot(h, it.node)
    THEN Descend(h, At(Parent(h, it.node), Position(h, it.node) - 1))
    ELSE it

FirstLeaf(h, n) == IF Leaf(h, n) THEN n ELSE FirstLeaf(h, Child(h, n, 0))
LastLeaf(h, n) ==
  IF Leaf(h, n) THEN n ELSE LastLeaf(h, Child(h, n, Count(h, n)))

Increment(h, it) ==
  LET next == [it EXCEPT !.position = @ + 1]
      up   == Ascend(h, next)
  IN CASE ~Leaf(h, it.node) ->
            At(FirstLeaf(h, Child(h, it.node, it.position + 1)), 0)
       [] OTHER -> IF up.position = Count(h, up.node) THEN next ELSE up

Decrement(h, it) ==
  LET previous == [it EXCEPT !.position = @ - 1]
      up       == Descend(h, previous)
      down     == LastLeaf(h, Child(h, it.node, it.position))
  IN CASE ~Leaf(h, it.node) -> At(down, Count(h, down) - 1)
       [] OTHER -> IF up.position < 0 THEN previous ELSE up

(* n places on; a leaf is crossed in one stride. *)
RECURSIVE IncrementBy(_, _, _)
IncrementBy(h, it, n) ==
  LET rest   == IF Leaf(h, it.node) THEN Count(h, it.node) - it.position ELSE 1
      stride == [it EXCEPT !.position = @ + (IF n < rest THEN n ELSE rest) - 1]
  IN CASE n <= 0 -> it
       [] n > 0 /\ Leaf(h, it.node) /\ n < rest -> [it EXCEPT !.position = @ + n]
       [] OTHER -> IncrementBy(h, Increment(h, stride), n - rest)

InternalLast(h, it) ==
  LET up == Ascend(h, it)
  IN IF up.position = Count(h, up.node) THEN Nowhere ELSE up

-----------------------------------------------------------------------------
(* Searching: the linear search of integral keys, the binary searches of   *)
(* the others, with a comparison that says less or one that says equal too.*)
LinearSearch(h, n, Before(_)) ==
  LET stop == SelectInSeq(h.node[n].values, LAMBDA v : ~Before(KeyOf(v)))
  IN IF stop = 0 THEN Count(h, n) ELSE stop - 1

LinearSearchCompareTo(keys, k) ==
  LET stop == SelectInSeq(keys, LAMBDA x : x >= k)
  IN CASE stop = 0 -> [at |-> Len(keys), exact |-> FALSE]
       [] OTHER -> [at |-> stop - 1, exact |-> keys[stop] = k]

RECURSIVE BinarySearch(_, _, _, _), BinarySearchCompareTo(_, _, _, _)
BinarySearch(keys, k, s, e) ==
  LET mid == (s + e) \div 2
  IN IF s = e THEN s
     ELSE IF keys[mid + 1] < k THEN BinarySearch(keys, k, mid + 1, e)
                               ELSE BinarySearch(keys, k, s, mid)

BinarySearchStopping(keys, k, s, e) ==    \* mutant: stops at any match
  LET mid == (s + e) \div 2
  IN CASE s = e -> [at |-> s, exact |-> FALSE]
       [] s # e /\ keys[mid + 1] < k -> BinarySearchCompareTo(keys, k, mid + 1, e)
       [] s # e /\ keys[mid + 1] > k -> BinarySearchCompareTo(keys, k, s, mid)
       [] OTHER -> [at |-> mid, exact |-> TRUE]

BinarySearchCompareTo(keys, k, s, e) ==
  LET mid == (s + e) \div 2
      rest == CASE keys[mid + 1] < k -> BinarySearchCompareTo(keys, k, mid + 1, e)
                [] keys[mid + 1] > k -> BinarySearchCompareTo(keys, k, s, mid)
                [] OTHER ->
                     [BinarySearchCompareTo(keys, k, s, mid) EXCEPT !.exact = TRUE]
  IN IF s = e THEN [at |-> s, exact |-> FALSE] ELSE rest

NodeLowerBound(h, n, k) == LinearSearch(h, n, LAMBDA x : x < k)
NodeUpperBound(h, n, k) == LinearSearch(h, n, LAMBDA x : x <= k)

RECURSIVE Locate(_, _, _), LocateUpper(_, _, _), LocateCompareTo(_, _, _)
Locate(h, n, k) ==
  LET i == NodeLowerBound(h, n, k)
  IN IF Leaf(h, n) THEN At(n, i) ELSE Locate(h, Child(h, n, i), k)

LocateUpper(h, n, k) ==
  LET i == NodeUpperBound(h, n, k)
  IN IF Leaf(h, n) THEN At(n, i) ELSE LocateUpper(h, Child(h, n, i), k)

(* With a comparison that says equal the search ends where it meets k. *)
LocateCompareTo(h, n, k) ==
  LET keys == [i \in 1 .. Count(h, n) |-> KeyOf(h.node[n].values[i])]
      found == BinarySearchCompareTo(keys, k, 0, Len(keys))
  IN IF found.exact THEN At(n, found.at)
     ELSE IF Leaf(h, n) THEN Nowhere
     ELSE LocateCompareTo(h, Child(h, n, found.at), k)

LowerBound(h, k) ==
  IF h.root = Null THEN Nowhere ELSE InternalLast(h, Locate(h, h.root, k))
UpperBound(h, k) ==
  IF h.root = Null THEN Nowhere ELSE InternalLast(h, LocateUpper(h, h.root, k))

(* find_unique and find_multi. *)
Find(h, k) ==
  LET it == LowerBound(h, k)
  IN IF it.node # Null /\ ~(k < KeyAt(h, it)) THEN it ELSE Nowhere

-----------------------------------------------------------------------------
(* Insertion. *)
NewLeafRoot(h, max, values) ==
  LET n == Fresh(h)
      record == [NewNode(TRUE, n, max) EXCEPT !.values = values]
  IN [Allocated(h, n, record) EXCEPT !.root = n]

(* The room to make on a sibling for the value to come; the code fills the *)
(* sibling up when values come in order.                                   *)
Room(h, sibling, spread) ==
  LET spare == h.node[sibling].max_count - Count(h, sibling)
      k == IF spread THEN spare \div 2 ELSE spare
  IN IF k < 1 THEN 1 ELSE k

LeftRoom(h, it) ==
  LET left == Child(h, Parent(h, it.node), Position(h, it.node) - 1)
  IN Room(h, left, it.position < h.node[left].max_count)

RightRoom(h, it) ==
  LET right == Child(h, Parent(h, it.node), Position(h, it.node) + 1)
  IN Room(h, right, it.position > 0)

MovesLeft(h, it) ==
  LET n == it.node
      left == Child(h, Parent(h, n), Position(h, n) - 1)
      k == LeftRoom(h, it)
  IN /\ n # h.root
     /\ Position(h, n) > 0
     /\ ~Full(h, left)
     /\ it.position - k >= 0 \/ Count(h, left) + k < h.node[left].max_count

MovesRight(h, it) ==
  LET n == it.node
      right == Child(h, Parent(h, n), Position(h, n) + 1)
      k == RightRoom(h, it)
  IN /\ n # h.root
     /\ Position(h, n) < Count(h, Parent(h, n))
     /\ ~Full(h, right)
     /\ \/ it.position <= Count(h, n) - k
        \/ Count(h, right) + k < h.node[right].max_count

MoveLeft(h, it) ==
  LET left == Child(h, Parent(h, it.node), Position(h, it.node) - 1)
      h1 == RightToLeft(h, left, it.node, LeftRoom(h, it))
      i  == it.position - LeftRoom(h, it)
  IN [heap |-> h1,
      iter |-> IF i < 0 THEN At(left, i + Count(h1, left) + 1)
                        ELSE At(it.node, i)]

MoveRight(h, it) ==
  LET right == Child(h, Parent(h, it.node), Position(h, it.node) + 1)
      h1 == LeftToRight(h, it.node, right, RightRoom(h, it))
      i  == it.position - Count(h1, it.node) - 1
  IN [heap |-> h1, iter |-> IF i >= 0 THEN At(right, i) ELSE it]

(* A full leaf that is the root gets a root above it.  A full internal     *)
(* root stays, and a new node below it takes over what it held.            *)
RootAbove(h) ==
  LET n == Fresh(h)
      h1 == Allocated(h, n, NewNode(FALSE, Leftmost(h), kNodeValues))
  IN [Filled(h1, n, << >>, <<h.root>>) EXCEPT
        !.root = n, !.rightmost = Leftmost(h), !.size = Count(h, Leftmost(h))]

RootBelow(h) ==
  LET n == Fresh(h)
      r == h.node[h.root]
      h1 == Allocated(h, n, NewNode(FALSE, h.root, kNodeValues))
      h2 == Filled(h1, n, r.values, r.children)
  IN Filled(h2, h.root, << >>, <<n>>)

PartedRightmost(h, it, dest, h1) ==    \* mutant: the last leaf is not noted
  LET i == it.position - Count(h1, it.node) - 1
  IN [heap |-> h1, iter |-> IF i >= 0 THEN At(dest, i) ELSE it]

Parted(h, it, dest, h1) ==
  LET i == it.position - Count(h1, it.node) - 1
  IN [heap |-> IF Leaf(h, it.node) /\ Rightmost(h) = it.node
                 THEN [h1 EXCEPT !.rightmost = dest] ELSE h1,
      iter |-> IF i >= 0 THEN At(dest, i) ELSE it]

SplitNode(h, it) ==
  LET n == it.node
      dest == Fresh(h)
      h1 == Allocated(h, dest, NewNode(Leaf(h, n), Parent(h, n), kNodeValues))
  IN Parted(h, it, dest, Split(h1, n, dest, it.position))

RECURSIVE RebalanceOrSplit(_, _)
RebalanceOrSplit(h, it) ==
  LET p == Parent(h, it.node)
      roomy == IF Full(h, p)
                 THEN RebalanceOrSplit(h, At(p, Position(h, it.node))).heap
                 ELSE h
  IN IF MovesLeft(h, it) THEN MoveLeft(h, it)
     ELSE IF MovesRight(h, it) THEN MoveRight(h, it)
     ELSE IF it.node # h.root THEN SplitNode(roomy, it)
     ELSE IF Leaf(h, h.root) THEN SplitNode(RootAbove(h), it)
     ELSE SplitNode(RootBelow(h), [it EXCEPT !.node = Fresh(h)])

Grown(h) == [h EXCEPT !.size = IF Leaf(h, h.root) THEN 0 ELSE @ + 1]

(* A small root leaf is replaced by one of twice the room. *)
LargerRoot(h, it) ==
  LET r == h.node[h.root]
      twice == 2 * r.max_count
      larger == NewLeafRoot(h, IF twice < kNodeValues THEN twice ELSE kNodeValues,
                            r.values)
  IN [heap |-> Freed(larger, h.root), iter |-> [it EXCEPT !.node = larger.root]]

MakeRoom(h, it) ==
  CASE ~Full(h, it.node) -> [heap |-> Grown(h), iter |-> it]
    [] Full(h, it.node) /\ h.node[it.node].max_count < kNodeValues ->
         LargerRoot(h, it)
    [] OTHER -> [RebalanceOrSplit(h, it) EXCEPT !.heap = Grown(@)]

PutAt(room, v) ==
  [room EXCEPT !.heap = Inserted(@, room.iter.node, room.iter.position, v)]

(* internal_insert: v goes in front of the value at it. *)
InternalInsert(h, it, v) ==
  LET leafIt == IF Leaf(h, it.node) THEN it
                ELSE [Decrement(h, it) EXCEPT !.position = @ + 1]
  IN PutAt(MakeRoom(h, leafIt), v)

OrNew(h) == IF h.root = Null THEN NewLeafRoot(h, 1, << >>) ELSE h

InsertUnique(h0, v) ==
  LET h == OrNew(h0)
      it == Locate(h, h.root, KeyOf(v))
      last == InternalLast(h, it)
  IN IF last.node # Null /\ ~(KeyOf(v) < KeyAt(h, last))
       THEN [heap |-> h, iter |-> last]
       ELSE InternalInsert(h, it, v)

InsertMulti(h0, v) ==
  LET h == OrNew(h0)
  IN InternalInsert(h, InternalEnd(h, UpperBound(h, KeyOf(v))), v)

(* Is k at home before the hint, or just behind it?  LessUnique and        *)
(* LessMulti are the orders the neighbours must be in.                     *)
BeforeHint(h, it, k, Less(_, _)) ==
  /\ it = End(h) \/ Less(k, KeyAt(h, it))
  /\ it = Begin(h) \/ Less(KeyAt(h, Decrement(h, it)), k)

BehindHint(h, it, k, Less(_, _)) ==
  LET next == Increment(h, it)
  IN /\ it # End(h)
     /\ KeyAt(h, it) < k
     /\ next = End(h) \/ Less(k, KeyAt(h, next))

InsertUniqueHint(h, it, v) ==
  LET k == KeyOf(v)
      less(x, y) == x < y
  IN CASE h.root # Null /\ BeforeHint(h, it, k, less) -> InternalInsert(h, it, v)
       [] h.root # Null /\ BehindHint(h, it, k, less) ->
            InternalInsert(h, Increment(h, it), v)
       [] h.root # Null /\ it # End(h) /\ KeyAt(h, it) = k ->
            [heap |-> h, iter |-> it]
       [] OTHER -> InsertUnique(h, v)

InsertMultiHint(h, it, v) ==
  LET k == KeyOf(v)
      less(x, y) == x <= y
  IN CASE h.root # Null /\ BeforeHint(h, it, k, less) -> InternalInsert(h, it, v)
       [] h.root # Null /\ BehindHint(h, it, k, less) ->
            InternalInsert(h, Increment(h, it), v)
       [] OTHER -> InsertMulti(h, v)

-----------------------------------------------------------------------------
(* Removal. *)
MergeNodesKept(h, left, right) ==    \* mutant: the node is not deleted
  LET h1 == Merged(h, left, right)
  IN IF Leaf(h, right) /\ Rightmost(h) = right
       THEN [h1 EXCEPT !.rightmost = left] ELSE h1

MergeNodes(h, left, right) ==
  LET h1 == Freed(Merged(h, left, right), right)
  IN IF Leaf(h, right) /\ Rightmost(h) = right
       THEN [h1 EXCEPT !.rightmost = left] ELSE h1

(* An underfull node is merged with a sibling, failing that it gets values *)
(* of one, but not where it was erased from its very front or back.        *)
TryMergeOrRebalance(h, it) ==
  LET n == it.node
      p == Parent(h, n)
      i == Position(h, n)
      left == Child(h, p, i - 1)
      right == Child(h, p, i + 1)
      hasLeft == i > 0
      hasRight == i < Count(h, p)
      fits(x) == 1 + Count(h, n) + Count(h, x) <= h.node[x].max_count
      toMove(x) == LET half == (Count(h, x) - Count(h, n)) \div 2
                   IN IF half < Count(h, x) THEN half ELSE Count(h, x) - 1
      result(h1, it1, merged) == [heap |-> h1, iter |-> it1, merged |-> merged]
  IN IF hasLeft /\ fits(left)
       THEN result(MergeNodes(h, left, n),
                   At(left, it.position + 1 + Count(h, left)), TRUE)
     ELSE IF hasRight /\ fits(right)
       THEN result(MergeNodes(h, n, right), it, TRUE)
     ELSE IF /\ hasRight
             /\ Count(h, right) > kMinNodeValues
             /\ Count(h, n) = 0 \/ it.position > 0
       THEN result(RightToLeft(h, n, right, toMove(right)), it, FALSE)
     ELSE IF /\ hasLeft
             /\ Count(h, left) > kMinNodeValues
             /\ Count(h, n) = 0 \/ it.position < Count(h, n)
       THEN result(LeftToRight(h, left, n, toMove(left)),
                   [it EXCEPT !.position = @ + toMove(left)], FALSE)
     ELSE result(h, it, FALSE)

(* A root without values goes: its only child becomes the root, or, if the *)
(* child is internal, the root takes over what the child holds.            *)
TryShrink(h) ==
  LET child == Child(h, h.root, 0)
      c == h.node[child]
      alone == [h EXCEPT !.node[child].parent = Leftmost(h)]
  IN CASE Count(h, h.root) > 0 -> h
       [] Count(h, h.root) = 0 /\ Leaf(h, h.root) ->
            [Freed(h, h.root) EXCEPT !.root = Null]
       [] OTHER ->
            IF c.leaf
              THEN [Freed(alone, h.root) EXCEPT
                      !.root = child, !.rightmost = Null, !.size = 0]
              ELSE Freed(Filled(h, h.root, c.values, c.children), child)

RECURSIVE RebalanceUp(_, _, _), OnceRebalanced(_, _)
RebalanceUp(h, it, res) ==
  CASE it.node = h.root -> [heap |-> TryShrink(h), iter |-> res]
    [] it.node # h.root /\ Count(h, it.node) >= kMinNodeValues ->
         [heap |-> h, iter |-> res]
    [] OTHER -> OnceRebalanced(TryMergeOrRebalance(h, it), res)

OnceRebalanced(m, res) ==
  LET res1 == IF Leaf(m.heap, m.iter.node) THEN m.iter ELSE res
  IN IF m.merged
       THEN RebalanceUp(m.heap, [m.iter EXCEPT !.node = Parent(m.heap, @)], res1)
       ELSE [heap |-> m.heap, iter |-> res1]

(* Where erase leaves the iterator that came back as at: behind a value    *)
(* that ended its node, and behind the one that left an internal node.     *)
BehindErasedOnce(h, at, internal) ==    \* mutant: no second ++res
  IF at.position = Count(h, at.node)
    THEN Increment(h, [at EXCEPT !.position = @ - 1]) ELSE at

BehindErased(h, at, internal) ==
  LET next == IF at.position = Count(h, at.node)
                THEN Increment(h, [at EXCEPT !.position = @ - 1]) ELSE at
  IN IF internal THEN Increment(h, next) ELSE next

Returned(up, internal) ==
  [up EXCEPT !.iter = IF up.heap.root = Null THEN End(up.heap)
                      ELSE BehindErased(up.heap, @, internal)]

(* erase: a value of an internal node first changes places with the one in *)
(* front of it, which is on a leaf.                                        *)
Erase(h, it) ==
  LET internal == ~Leaf(h, it.node)
      leafIt == IF internal THEN Decrement(h, it) ELSE it
      v == h.node[leafIt.node].values[leafIt.position + 1]
      h1 == IF internal
              THEN [h EXCEPT !.node[it.node].values[it.position + 1] = v,
                             !.size = @ - 1]
              ELSE [h EXCEPT !.size = IF Leaf(h, h.root) THEN 0 ELSE @ - 1]
      h2 == Removed(h1, leafIt.node, leafIt.position)
  IN Returned(RebalanceUp(h2, leafIt, leafIt), internal)

EraseRange(h, it, n) ==
  FoldLeft(LAMBDA r, i : Erase(r.heap, r.iter),
           [heap |-> h, iter |-> it], [i \in 1 .. n |-> i])

RECURSIVE Distance(_, _, _)
Distance(h, from, to) ==
  IF from = to THEN 0 ELSE 1 + Distance(h, Increment(h, from), to)

EraseUnique(h, k) ==
  LET it == Find(h, k) IN IF it.node = Null THEN h ELSE Erase(h, it).heap

EraseMulti(h, k) ==
  LET first == LowerBound(h, k)
      last == InternalEnd(h, UpperBound(h, k))
  IN IF first.node = Null THEN h
     ELSE EraseRange(h, first, Distance(h, first, last)).heap

(* internal_clear: what is below a node is deleted before the node itself. *)
(* A node already deleted cannot be read.                                  *)
RECURSIVE InternalClear(_, _)
InternalClear(h, n) ==
  LET below == [i \in 1 .. Count(h, n) + 1 |-> Child(h, n, i - 1)]
  IN Freed(IF Leaf(h, n) THEN h
           ELSE FoldLeft(LAMBDA g, child : InternalClear(g, child), h, below), n)

(* clear; the fields of the root that know the last leaf and the size are  *)
(* gone with it.                                                           *)
Cleared(h) ==
  [(IF h.root = Null THEN h ELSE InternalClear(h, h.root)) EXCEPT
     !.root = Null, !.rightmost = Null, !.size = 0]

-----------------------------------------------------------------------------
(* The iterators over the values below node n from its i-th child on. *)
RECURSIVE Below(_, _, _)
Below(h, n, i) ==
  LET own == IF i < Count(h, n) THEN <<At(n, i)>> \o Below(h, n, i + 1) ELSE << >>
  IN IF Leaf(h, n) THEN own ELSE Below(h, Child(h, n, i), 0) \o own

Walk(h) == IF h.root = Null THEN << >> ELSE Below(h, h.root, 0)
ValueAt(h, it) == h.node[it.node].values[it.position + 1]
Contents(h) == LET w == Walk(h) IN [i \in DOMAIN w |-> ValueAt(h, w[i])]

(* assign: the values vs, one by one, at the end of an empty tree. *)
RECURSIVE Assigned(_, _)
Assigned(h, vs) ==
  CASE vs = << >> -> h
    [] vs # << >> /\ h.root = Null ->
         Assigned(InsertMulti(h, Head(vs)).heap, Tail(vs))
    [] vs # << >> /\ h.root # Null ->
         Assigned(InternalInsert(h, End(h), Head(vs)).heap, Tail(vs))

(* A range of values, each put near the end. *)
RECURSIVE InsertRange(_, _, _)
InsertRange(h, u, vs) ==
  IF vs = << >> \/ Len(Walk(h)) = u.max THEN h
  ELSE InsertRange((IF u.multi THEN InsertMultiHint(h, End(h), Head(vs))
                    ELSE InsertUniqueHint(h, End(h), Head(vs))).heap,
                   u, Tail(vs))

-----------------------------------------------------------------------------
(* A call of the container, and the iterator it leaves the caller with. *)
Returns(result) == heap' = result.heap /\ iter' = result.iter

Insert(v) ==
  /\ Len(Walk(heap)) < use.max
  /\ Returns(IF use.multi THEN InsertMulti(heap, v) ELSE InsertUnique(heap, v))
  /\ UNCHANGED use

InsertHint(v) ==
  /\ Len(Walk(heap)) < use.max
  /\ Returns(IF use.multi THEN InsertMultiHint(heap, iter, v)
             ELSE InsertUniqueHint(heap, iter, v))
  /\ UNCHANGED use

(* The caller erases a run of values it may erase, from its iterator on. *)
EraseIter(n) ==
  /\ LET w == Walk(heap)
         start == SelectInSeq(w, LAMBDA it : it = iter)
     IN /\ start # 0
        /\ start + n - 1 <= Len(w)
        /\ \A i \in start .. start + n - 1 : ValueAt(heap, w[i]) \in use.offers
  /\ Returns(EraseRange(heap, iter, n))
  /\ UNCHANGED use

EraseKey(k) ==
  /\ heap' = IF use.multi THEN EraseMulti(heap, k) ELSE EraseUnique(heap, k)
  /\ iter' = Begin(heap')
  /\ UNCHANGED use

Clear ==
  /\ heap' = Cleared(heap)
  /\ iter' = Begin(heap')
  /\ UNCHANGED use

Assign ==
  /\ heap' = Assigned(Cleared(heap), Contents(heap))
  /\ iter' = Begin(heap')
  /\ UNCHANGED use

LookUp(k) ==
  /\ iter' \in {InternalEnd(heap, it) :
                  it \in {Find(heap, k), LowerBound(heap, k), UpperBound(heap, k)}}
  /\ UNCHANGED <<use, heap>>

Init ==
  /\ use \in Uses
  /\ heap = InsertRange(EmptyHeap, use, use.load)
  /\ iter = Begin(heap)

Offered == {KeyOf(v) : v \in use.offers}

Next ==
  \/ \E v \in use.offers : Insert(v) \/ InsertHint(v)
  \/ \E n \in 1 .. 3 : EraseIter(n)
  \/ \E k \in Offered : EraseKey(k) \/ LookUp(k)
  \/ Clear
  \/ Assign

Spec == Init /\ [][Next]_vars

-----------------------------------------------------------------------------
ReachableNodes(h) == IF h.root = Null THEN {} ELSE {it.node : it \in ToSet(Walk(h))}

RECURSIVE Depth(_, _)
Depth(h, n) == IF n = h.root THEN 0 ELSE 1 + Depth(h, Parent(h, n))

(* What verify() and internal_verify() assert of the tree (btree.h:1969,   *)
(* 2363), after any splits, moves, merges and shrinking: nodes hold values *)
(* and no more than fit, children know their parent and their position in  *)
(* it, and the root knows the first leaf, the last leaf and the number of  *)
(* values; moreover all leaves are equally deep.                           *)
Verified ==
  heap.root # Null =>
    /\ \A n \in ReachableNodes(heap) :
         /\ Count(heap, n) \in 1 .. heap.node[n].max_count
         /\ ~Leaf(heap, n) =>
              /\ Len(heap.node[n].children) = Count(heap, n) + 1
              /\ \A i \in 0 .. Count(heap, n) :
                   /\ Parent(heap, Child(heap, n, i)) = n
                   /\ Position(heap, Child(heap, n, i)) = i
    /\ Leftmost(heap) = FirstLeaf(heap, heap.root)
    /\ Rightmost(heap) = LastLeaf(heap, heap.root)
    /\ ~Leaf(heap, heap.root) => heap.size = Len(Walk(heap))
    /\ \A n \in {m \in ReachableNodes(heap) : Leaf(heap, m)} :
         Depth(heap, n) = Depth(heap, Leftmost(heap))

(* The nodes allocated are those the tree reaches: no merge, shrinking,    *)
(* growing of a small root or clearing frees a node in use or forgets one. *)
NothingLeaks == DOMAIN heap.node = ReachableNodes(heap)

(* Going up and down the links, increment and decrement of an iterator     *)
(* step through all the values in order, from begin() to end() and back.   *)
WalksBothWays ==
  LET w == Walk(heap) \o <<End(heap)>>
  IN /\ w[1] = Begin(heap)
     /\ \A i \in 1 .. Len(w) - 1 :
          /\ Increment(heap, w[i]) = w[i + 1]
          /\ Decrement(heap, w[i + 1]) = w[i]
          /\ IncrementBy(heap, w[1], i) = w[i + 1]
          /\ IncrementBy(heap, w[i], Len(w) - i) = End(heap)

(* Which search of a node runs depends on the type of key and comparison:  *)
(* the binary ones find the same places as the linear one, the first among *)
(* equal keys too, and a lookup that stops in an upper node the same value.*)
SearchesAgree ==
  /\ \A n \in ReachableNodes(heap), k \in Offered :
       LET keys == [i \in 1 .. Count(heap, n) |-> KeyOf(heap.node[n].values[i])]
           linear == NodeLowerBound(heap, n, k)
           result == [at |-> linear, exact |-> k \in ToSet(keys)]
       IN /\ BinarySearch(keys, k, 0, Len(keys)) = linear
          /\ LinearSearchCompareTo(keys, k) = result
          /\ BinarySearchCompareTo(keys, k, 0, Len(keys)) = result
  /\ ~use.multi /\ heap.root # Null =>
       \A k \in Offered : LocateCompareTo(heap, heap.root, k) = Find(heap, k)
=============================================================================
