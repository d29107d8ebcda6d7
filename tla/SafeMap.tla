------------------------------- MODULE SafeMap -------------------------------
(***************************************************************************)
(* What the safe containers promise (btree/README, safe_btree.h:15): an    *)
(* iterator stays good whatever is inserted or erased.  It marks a key, or *)
(* the end for good; used, it is on that key or, if that was erased, on    *)
(* the first one behind it.  SafeBTree implements it.                      *)
(***************************************************************************)
EXTENDS KeyOrder

CONSTANTS Trees, Iterators

VARIABLES
  keys,         \* of each container
  marks         \* of each iterator: its container and the place it marks

vars == <<keys, marks>>

Mark(t, p) == [tree |-> t, on |-> p]
Settled(m) ==
  IF m.on = End THEN m ELSE Mark(m.tree, LowerBound(keys[m.tree], m.on))

LookUp(i, t) ==
  /\ \E p \in Places(keys[t]) : marks' = [marks EXCEPT ![i] = Mark(t, p)]
  /\ UNCHANGED keys

Use(i) ==
  /\ marks' = [marks EXCEPT ![i] = Settled(@)]
  /\ UNCHANGED keys

Step(i) ==
  LET m == Settled(marks[i])
      ks == keys[m.tree]
  IN /\ \/ m.on # End /\ marks' = [marks EXCEPT ![i].on = Following(ks, m.on)]
        \/ /\ Before(ks, m.on) # {}
           /\ marks' = [marks EXCEPT ![i].on = Preceding(ks, m.on)]
     /\ UNCHANGED keys

Construct(i, j) ==
  /\ i # j
  /\ marks' = [marks EXCEPT ![i] = Settled(@), ![j] = marks[i]]
  /\ UNCHANGED keys

Copy(i, j) ==
  /\ marks' = [marks EXCEPT ![j] = marks[i]]
  /\ UNCHANGED keys

Insert(i, t, k) ==
  /\ keys' = [keys EXCEPT ![t] = @ \cup {k}]
  /\ marks' = [marks EXCEPT ![i] = Mark(t, k)]

InsertHint(i, j, k) ==
  LET t == marks[j].tree
  IN /\ keys' = [keys EXCEPT ![t] = @ \cup {k}]
     /\ marks' = [marks EXCEPT ![j] = Settled(@), ![i] = Mark(t, k)]

EraseIter(i, j) ==
  LET m == Settled(marks[j])
  IN /\ m.on # End
     /\ keys' = [keys EXCEPT ![m.tree] = @ \ {m.on}]
     /\ marks' = [marks EXCEPT ![j] = m,
                    ![i] = Mark(m.tree, Following(keys[m.tree], m.on))]

EraseRange(i, j) ==
  LET m == Settled(marks[i])
      n == Settled(marks[j])
  IN /\ m.tree = n.tree
     /\ keys' = [keys EXCEPT ![m.tree] = @ \ Between(@, m.on, n.on)]
     /\ marks' = [marks EXCEPT ![i] = m, ![j] = n]

(* Changes of the contents that leave every iterator where it is. *)
EraseUnique(t, k) == keys' = [keys EXCEPT ![t] = @ \ {k}] /\ UNCHANGED marks
Clear(t) == keys' = [keys EXCEPT ![t] = {}] /\ UNCHANGED marks
Assign(t, u) == keys' = [keys EXCEPT ![t] = keys[u]] /\ UNCHANGED marks
Swap(t, u) ==
  /\ keys' = [keys EXCEPT ![t] = keys[u], ![u] = keys[t]]
  /\ UNCHANGED marks

Init ==
  /\ keys \in [Trees -> SUBSET Keys]
  /\ marks \in [Iterators -> {Mark(t, End) : t \in Trees}]

Next ==
  \/ \E i \in Iterators : Use(i) \/ Step(i)
  \/ \E i \in Iterators, t \in Trees : LookUp(i, t)
  \/ \E i, j \in Iterators :
       Construct(i, j) \/ Copy(i, j) \/ EraseIter(i, j) \/ EraseRange(i, j)
  \/ \E i \in Iterators, t \in Trees, k \in Keys : Insert(i, t, k)
  \/ \E i, j \in Iterators, k \in Keys : InsertHint(i, j, k)
  \/ \E t \in Trees, k \in Keys : EraseUnique(t, k)
  \/ \E t \in Trees : Clear(t)
  \/ \E t, u \in Trees : Assign(t, u) \/ Swap(t, u)

Spec == Init /\ [][Next]_vars
=============================================================================
