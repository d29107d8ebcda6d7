----------------------------- MODULE ContextPool -----------------------------
(***************************************************************************)
(* The pool of prediction contexts of a ContextTree                        *)
(* (include/context_tree.hpp).  Every prediction takes a context out of a  *)
(* fixed array of MaxContexts; the context's index is the prediction id    *)
(* that a later reinforce or regret presents.  Two deques partition the    *)
(* ids: active_ids, oldest prediction first, and inactive_ids, the ids     *)
(* free for reuse.                                                         *)
(*                                                                         *)
(* The module has no behaviour of its own: its operators map one value of  *)
(* a pool, a record of the two deques, to the next, because one call of    *)
(* the model (do_predict) releases one context and takes another.          *)
(***************************************************************************)
EXTENDS Integers, Sequences, SequencesExt

CONSTANT MaxContexts    \* the length of the array contexts_ (20 in the model)

ASSUME MaxContextsAssumption == MaxContexts \in Nat \ {0}

ContextIds == 0 .. MaxContexts - 1

(* The constructor: every id is inactive, in increasing order. *)
InitialPool ==
  [active |-> << >>, inactive |-> [i \in 1 .. MaxContexts |-> i - 1]]

(* flush_ids: the oldest predictions lose their contexts until half of the *)
(* ids are free.  It is called only when no id is.                         *)
FlushCount == (MaxContexts + 1) \div 2

(* Mutant: the flushed ids stay active. *)
FlushedKeeping(p) ==
  [active   |-> p.active,
   inactive |-> p.inactive \o SubSeq(p.active, 1, FlushCount)]

Flushed(p) ==
  [active   |-> SubSeq(p.active, FlushCount + 1, Len(p.active)),
   inactive |-> p.inactive \o SubSeq(p.active, 1, FlushCount)]

(* activate_context: the pool it takes an id from, the id, and the pool it *)
(* leaves.                                                                 *)
Replenished(p) == IF p.inactive = << >> THEN Flushed(p) ELSE p

NextId(p) == Head(Replenished(p).inactive)

Activated(p) ==
  [active   |-> Append(Replenished(p).active, NextId(p)),
   inactive |-> Tail(Replenished(p).inactive)]

(* deactivate_context. *)
Deactivated(p, id) ==
  [active   |-> RemoveFirst(p.active, id),
   inactive |-> Append(p.inactive, id)]

(* validate_id: the bound it tests is the length of the array, not the     *)
(* last index.                                                             *)
ValidId(p, id) ==
  /\ id <= MaxContexts
  /\ id \notin ToSet(p.inactive)

(* Every id is in exactly one of the deques, exactly once. *)
NoRepeats(s) == \A i, j \in DOMAIN s : s[i] = s[j] => i = j

Pools == [active : Seq(ContextIds), inactive : Seq(ContextIds)]

IsPartition(p) ==
  /\ p \in Pools
  /\ Len(p.active) + Len(p.inactive) = MaxContexts
  /\ NoRepeats(p.active)
  /\ NoRepeats(p.inactive)
  /\ ToSet(p.active) \cap ToSet(p.inactive) = {}
  /\ ToSet(p.active) \cup ToSet(p.inactive) = ContextIds
=============================================================================
