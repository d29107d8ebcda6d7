----------------------------- MODULE ContextLoss -----------------------------
(***************************************************************************)
(* What the bounded context tree model promises, without its tree: a table *)
(* of losses, one for every word after every context of fewer than Bound   *)
(* words, all zero to begin with.  A context is a sequence of words, the   *)
(* most recent first.  The model predicts the word of least total loss     *)
(* over all the contexts it is in; a mistake lowers the loss of the right  *)
(* word in each of them, a regret raises the loss of the predicted one.    *)
(* BoundedCTModel implements this table with a tree, a pool of contexts    *)
(* and sparse weights.                                                     *)
(***************************************************************************)
EXTENDS Integers, Sequences, FiniteSetsExt

CONSTANT Bound

VARIABLES
  loss,         \* <<context, word>> -> loss, where it was ever changed
  root,         \* word -> loss in the empty context
  context,      \* the last Bound words, oldest first
  prediction,
  mistakes,
  open          \* the current prediction can still be learned from

vars == <<loss, root, context, prediction, mistakes, open>>

Init ==
  /\ loss = << >>
  /\ root = <<1, 0>>
  /\ context = << >>
  /\ prediction = 0
  /\ mistakes = 0
  /\ open = FALSE

(* The non-empty contexts a model that has just seen ctx is in. *)
Depth(ctx) == Min({Len(ctx), Bound - 1})
Recent(ctx, k) == [i \in 1 .. k |-> ctx[Len(ctx) - i + 1]]
Suffixes(ctx) == {Recent(ctx, k) : k \in 1 .. Depth(ctx)}

LossOf(table, s, w) ==
  IF <<s, w>> \in DOMAIN table THEN table[<<s, w>>] ELSE 0

Charged(ctx, w, delta) ==
  LET charged == Suffixes(ctx) \X {w}
  IN [p \in DOMAIN loss \cup charged |->
        LossOf(loss, p[1], p[2]) + IF p \in charged THEN delta ELSE 0]

(* Word w has the least total loss of all words, none before it has that   *)
(* loss, and it beats the limit; word 0 stands in when no word does.       *)
Total(rw, table, ctx, w) ==
  LET sum[k \in 0 .. Depth(ctx)] ==
        IF k = 0 THEN rw[w + 1] ELSE sum[k - 1] + LossOf(table, Recent(ctx, k), w)
  IN sum[Depth(ctx)]

Best(rw, table, ctx, limit, w) ==
  LET known == 0 .. Len(rw) - 1
      total == [x \in known |-> Total(rw, table, ctx, x)]
  IN \/ /\ w \in known
        /\ total[w] < limit
        /\ \A x \in known : total[w] <= total[x] /\ (x < w => total[w] # total[x])
     \/ /\ w = 0
        /\ \A x \in known : total[x] >= limit

(* The next word is w: a known one, or the first unknown number.  A word   *)
(* met for the first time has no weight at the root to lower; it is given  *)
(* one after the prediction that follows it.                               *)
Token(w) ==
  LET mistaken == w # prediction
      learns   == mistaken /\ open
      rw == IF learns /\ w < Len(root)
              THEN [root EXCEPT ![w + 1] = @ - 1] ELSE root
      seen == Append(context, w)
  IN /\ context' = IF Len(seen) > Bound THEN Tail(seen) ELSE seen
     /\ mistakes' = IF mistaken THEN mistakes + 1 ELSE mistakes
     /\ loss' = IF learns THEN Charged(context, w, -1) ELSE loss
     /\ prediction' \in 0 .. Len(root) - 1
     /\ Best(rw, loss', context', mistakes', prediction')
     /\ root' = IF w = Len(root)
                  THEN Append(rw, mistakes' \div Len(root)) ELSE rw
     /\ open' = TRUE

(* The prediction was not used. *)
Regret ==
  /\ open
  /\ loss' = Charged(context, prediction, 1)
  /\ root' = [root EXCEPT ![prediction + 1] = @ + 1]
  /\ open' = FALSE
  /\ UNCHANGED <<context, prediction, mistakes>>

(* The prediction's id is lost. *)
Disown ==
  /\ open' = FALSE
  /\ UNCHANGED <<loss, root, context, prediction, mistakes>>

Next ==
  \/ \E w \in 2 .. Len(root) : Token(w)
  \/ Regret
  \/ Disown

Spec == Init /\ [][Next]_vars
=============================================================================
