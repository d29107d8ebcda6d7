---------------------------- MODULE LossHistory ----------------------------
(***************************************************************************)
(* The bounded context tree model with the table of losses it stands for   *)
(* in a variable of its own, which no operation reads: the refinement of   *)
(* ContextLoss, to be checked and to be proved.                            *)
(***************************************************************************)
EXTENDS BoundedCTModel

VARIABLE loss       \* history: Table

LossInit == Init /\ loss = Table

LossNext ==
  /\ Next
  /\ loss' = IF UNCHANGED <<tree, weights, data_map>> THEN loss ELSE Table'

LossSpec == LossInit /\ [][LossNext]_<<vars, loss>>

Losing == INSTANCE ContextLoss WITH
  root <- root_weights, context <- prediction_context,
  open <- prediction_id \in ToSet(pool.active)

(* The tree, the pool and the sparse weights implement the table of losses *)
(* of ContextLoss, whatever is flushed, split, regretted or asked between  *)
(* two words: every mistake is charged to the words of the context it was  *)
(* made in, and the word of least loss is predicted.                       *)
ImplementsContextLoss == Losing!Spec
=============================================================================
