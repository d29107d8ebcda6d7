--------------------------- MODULE BoundedCTModel ---------------------------
(***************************************************************************)
(* The bounded context tree model, lib/bounded_context_tree_model.cpp, the *)
(* word model behind the server: characters typed between two interfaces   *)
(* form a word, and at every interface the model compares the word with    *)
(* what it predicted, learns from the mistake and predicts the next one.   *)
(*                                                                         *)
(* Words are known by index, from 0: words[w + 1] is word w, and           *)
(* root_weights[w + 1] its weight at the root.  weights[v] are the weights *)
(* of vertex v >= 1, as in the source, where the root's are kept apart.    *)
(* Weights are losses: doubles in the code that only ever hold integers.   *)
(***************************************************************************)
EXTENDS ContextTree

CONSTANTS
  Bound,            \* the longest context remembered (5 in the server)
  Chars,            \* characters that may be typed
  InterfaceToken,   \* INTERFACE_TOKEN, a word that is never typed
  UninitIds,        \* values prediction_id_ may hold before it is assigned
  CallerIds,        \* prediction ids a caller may come up with
  MaxString,        \* bound: characters in a word
  MaxMistakes,      \* bound: mistakes
  MaxLoss           \* bound: the loss a caller's regrets may build up

ASSUME BoundAssumption == Bound \in Nat \ {0}
ASSUME UninitAssumption == UninitIds \subseteq Nat /\ UninitIds # {}
ASSUME CallerAssumption == CallerIds \subseteq Nat
(* Not a fact of the code: validate_id accepts MaxContexts as well, and    *)
(* reads past the array with it; ValidIdsAreContexts is about that.        *)
ASSUME NoIdPastTheEnd == MaxContexts \notin UninitIds \cup CallerIds
ASSUME CharsAssumption == InterfaceToken \notin Seq(Chars) \cup {<< >>}
ASSUME BoundsAssumption ==
  MaxString \in Nat /\ MaxMistakes \in Nat /\ MaxLoss \in Int

VARIABLES
  words,                \* index -> word
  weights,              \* vertex -> word -> loss, sparse
  root_weights,         \* word -> loss
  prediction_context,   \* the last words, oldest first
  prediction,           \* the word predicted
  prediction_id,        \* the context of that prediction
  mistakes,
  current_string,       \* characters since the last interface
  detected_interface

modelVars == <<words, weights, root_weights, prediction_context, prediction,
               prediction_id, mistakes, detected_interface>>

vars == <<treeVars, modelVars, current_string>>

NullWord == 0
InterfaceId == 1

Init ==
  /\ TreeInit
  /\ words = << << >>, InterfaceToken >>
  /\ weights = << >>
  /\ root_weights = <<1, 0>>
  /\ prediction_context = << >>
  /\ prediction = NullWord
  /\ prediction_id \in UninitIds
  /\ mistakes = 0
  /\ current_string = << >>
  /\ detected_interface = FALSE

(***************************************************************************)
(* The callbacks of the context tree.                                      *)
(***************************************************************************)

(* push_regret (delta 1) and push_reinforce (delta -1) on a weight map. *)
PushedAfresh(wts, w, delta) ==    \* mutant: no find
  [u \in DOMAIN wts \cup {w} |-> IF u = w THEN delta ELSE wts[u]]

Pushed(wts, w, delta) ==
  [u \in DOMAIN wts \cup {w} |->
     IF u # w THEN wts[u]
     ELSE IF w \in DOMAIN wts THEN wts[w] + delta ELSE delta]

(* root_weights_ is grown only when the next prediction finishes, so the   *)
(* weight of a word just met lies one place past its end, and the write is *)
(* undefined.  It changes no weight: it goes to spare capacity, where the  *)
(* growth overwrites it, or, if there is none, past the allocation, from   *)
(* where the growth copies nothing.  What else it may destroy there is not *)
(* modelled.                                                               *)
RootPushed(rw, w, delta) ==
  IF w < Len(rw) THEN [rw EXCEPT ![w + 1] = @ + delta] ELSE rw

(* What ContextTree::reinforce and regret leave of the tree, the pool and  *)
(* the weights: the push on every vertex shown, a vertex with that weight  *)
(* for every one added, and the context back in the pool.                  *)
Learned(id, w, delta, kept) ==
  LET con   == contexts[id]
      shown == ToSet(Shown(con))
      toks  == Added(con, Bound)
  IN IF ValidId(pool, id)
     THEN [tree |-> WithChain(tree, con.leaf, toks, kept),
           pool |-> Deactivated(pool, id),
           weights |-> [v \in DOMAIN weights |->
                          IF v \in shown THEN Pushed(weights[v], w, delta)
                          ELSE weights[v]]
                       \o [i \in DOMAIN toks |-> [u \in {w} |-> delta]],
           root_weights |-> RootPushed(root_weights, w, delta)]
     ELSE [tree |-> tree, pool |-> pool, weights |-> weights,
           root_weights |-> root_weights]

(* Some edges of a vertex that is about to be split; see Adopt. *)
KeptEdges(id) ==
  IF ValidId(pool, id)
    THEN SUBSET ToSet(tree[contexts[id].leaf + 1].edges) ELSE {{}}

(* start_predict and push_predict: the loss of every word at the root, and *)
(* on top of it the losses along the path.                                 *)
Losses(rw, wts, path) ==
  [w \in 0 .. Len(rw) - 1 |->
     rw[w + 1] + MapThenSumSet(LAMBDA v : wts[v][w],
                   {v \in ToSet(path) \ {Root} : w \in DOMAIN wts[v]})]

(* finish_predict: the first word of least loss, provided it beats the     *)
(* number of mistakes.                                                     *)
LeastLoss(data, limit) ==
  LET least == Min({data[w] : w \in DOMAIN data})
  IN IF least < limit THEN Min({w \in DOMAIN data : data[w] = least})
     ELSE NullWord

(* finish_predict also gives a weight to every word that has none: the     *)
(* quotient of two integers.                                               *)
GrownTooLittle(rw, m, n) ==    \* mutant: the loop stops one word early
  LET grow[k \in Len(rw) .. n] ==
        IF k <= Len(rw) + 1 THEN rw ELSE Append(grow[k - 1], m \div (k - 1))
  IN grow[n]

Grown(rw, m, n) ==
  LET grow[k \in Len(rw) .. n] ==
        IF k = Len(rw) THEN rw ELSE Append(grow[k - 1], m \div (k - 1))
  IN grow[n]

(***************************************************************************)
(* Operations.                                                             *)
(***************************************************************************)

(* putc of an ordinary character. *)
PutC(c) ==
  /\ Len(current_string) < MaxString
  /\ current_string' = Append(current_string, c)
  /\ UNCHANGED <<treeVars, modelVars>>

(* putc of a backspace. *)
Backspace ==
  /\ current_string # << >>
  /\ current_string' = Front(current_string)
  /\ UNCHANGED <<treeVars, modelVars>>

(* interface(true) at the end of a word: do_predict. *)
Known == \E i \in DOMAIN words : words[i] = current_string

WordIndex ==
  IF Known THEN Min({i \in DOMAIN words : words[i] = current_string}) - 1
  ELSE Len(words)

TrimmedAtEnd(context) ==    \* mutant: pop_back
  SubSeq(context, 1, Min({Bound, Len(context)}))

Trimmed(context) ==
  SubSeq(context, 1 + Max({0, Len(context) - Bound}), Len(context))

DoPredict(kept) ==
  LET mistaken == prediction # WordIndex
      s == IF mistaken THEN Learned(prediction_id, WordIndex, -1, kept)
           ELSE [tree |-> tree, pool |-> pool, weights |-> weights,
                 root_weights |-> root_weights]
      context == Trimmed(Append(prediction_context, WordIndex))
      con == ContextOf(s.tree, data_map, token_number, context)
  IN /\ current_string # << >>
     /\ mistaken => mistakes < MaxMistakes
     /\ words' = IF Known THEN words ELSE Append(words, current_string)
     /\ mistakes' = IF mistaken THEN mistakes + 1 ELSE mistakes
     /\ tree' = s.tree
     /\ weights' = s.weights
     /\ prediction_context' = context
     /\ pool' = Activated(s.pool)
     /\ prediction_id' = NextId(s.pool)
     /\ contexts' = [id \in {prediction_id'} \cup DOMAIN Remembered(pool') |->
                       IF id = prediction_id' THEN con ELSE contexts[id]]
     /\ data_map' = DataMapAfter(s.tree, data_map, token_number, context)
     /\ token_number' = IF Registers(s.tree, data_map, context)
                          THEN token_number + 1 ELSE token_number
     /\ prediction' = LeastLoss(Losses(s.root_weights, s.weights, con.path),
                                mistakes')
     /\ root_weights' = Grown(s.root_weights, mistakes', Len(words'))
     /\ detected_interface' = (prediction_id' = InterfaceId)
     /\ current_string' = << >>

Interface == \E kept \in KeptEdges(prediction_id) : DoPredict(kept)

(* prediction_result with the outcome that the prediction was not used.    *)
(* The opposite outcome does nothing.                                      *)
PredictionResult(id) ==
  \E kept \in KeptEdges(id) :
    LET s == Learned(id, prediction, 1, kept)
    IN /\ root_weights[prediction + 1] < MaxLoss
       /\ tree' = s.tree
       /\ pool' = s.pool
       /\ weights' = s.weights
       /\ root_weights' = s.root_weights
       /\ contexts' = Remembered(pool')
       /\ UNCHANGED <<data_map, token_number, words, prediction_context,
                      prediction, prediction_id, mistakes, current_string,
                      detected_interface>>

(* get_prediction with a pointer: the caller's id replaces the model's. *)
GetPrediction(id) ==
  /\ prediction_id' = id
  /\ UNCHANGED <<treeVars, words, weights, root_weights, prediction_context,
                 prediction, mistakes, current_string, detected_interface>>

(* write_summary prints the tree. *)
WriteSummary ==
  /\ tree' = AfterWriteGraph(tree)
  /\ UNCHANGED <<data_map, token_number, contexts, pool, modelVars,
                 current_string>>

Next ==
  \/ \E c \in Chars : PutC(c)
  \/ Backspace
  \/ Interface
  \/ \E id \in CallerIds \cup {prediction_id} : PredictionResult(id)
  \/ \E id \in CallerIds : GetPrediction(id)
  \/ WriteSummary

Spec == Init /\ [][Next]_vars

(***************************************************************************)
(* Properties.                                                             *)
(***************************************************************************)
Vertices == 0 .. Len(tree) - 1

TypeOK ==
  /\ \A v \in DOMAIN tree :
       /\ tree[v].token \in 0 .. token_number - 1
       /\ tree[v].edges \in Seq(Vertices)
       /\ tree[v].subtree \in [DOMAIN tree[v].subtree -> Vertices]
       /\ DOMAIN tree[v].subtree \subseteq 0 .. token_number - 1
  /\ data_map \in [DOMAIN data_map -> 0 .. token_number - 1]
  /\ DOMAIN data_map \subseteq 0 .. Len(words) - 1
  /\ token_number \in 1 .. Len(words)
  /\ contexts \in [ToSet(pool.active) ->
                     [path : Seq(Vertices), leaf : Vertices,
                      additions : Seq(0 .. token_number - 1)]]
  /\ Len(weights) = Len(tree) - 1
  /\ \A v \in DOMAIN weights :
       weights[v] \in [DOMAIN weights[v] -> Int] /\
       DOMAIN weights[v] \subseteq 0 .. Len(words) - 1
  /\ root_weights \in Seq(Int) /\ Len(root_weights) = Len(words)
  /\ prediction_context \in Seq(2 .. Len(words) - 1)
  /\ prediction \in 0 .. Len(words) - 1
  /\ mistakes \in 0 .. MaxMistakes
  /\ detected_interface \in BOOLEAN

(* The deques of the pool always hold every prediction id exactly once,    *)
(* whatever is released, flushed or rejected: activate_context never hands *)
(* out an id that is still in use, and never runs out.                     *)
PoolPartition == IsPartition(pool)

(* The tree is a trie: every vertex but the root is found by descend from  *)
(* exactly one parent under its own token, before and after its parent's   *)
(* children move from edges to a btree_map and whichever edges the split   *)
(* leaves behind.                                                          *)
TreeIsTrie ==
  \A v \in Vertices \ {Root} :
    \E p \in 0 .. v - 1 :
      /\ ChildOf(tree, p, tree[v + 1].token) = v
      /\ \A u \in Vertices \ {p} : v \notin Children(tree, u)

(* predict stops at the last vertex of its path and calls it the leaf.     *)
(* That is only so because the walk never follows the whole context: when  *)
(* it does, the loop breaks before the leaf is set and reinforce stops at  *)
(* the root.                                                               *)
LeafEndsPath ==
  \A i \in DOMAIN pool.active :
    LET con == contexts[pool.active[i]] IN con.leaf = Last(con.path)

(* write_graph labels a vertex with words_[token + 1]: the words get their *)
(* tokens in the order of their indices, none shares a token, none is left *)
(* with token 0 by the operator[] that inserts it, and every word of the   *)
(* context has one.                                                        *)
TokensFollowWords ==
  /\ \A w \in DOMAIN data_map : data_map[w] = w - 1
  /\ ToSet(prediction_context) \subseteq DOMAIN data_map

(* Every weight that push_predict adds to the data of a prediction is that *)
(* of a word the data, sized by start_predict, has room for: a word met at *)
(* this very interface has weights in the tree but none at the root.       *)
LookupsInRange ==
  [][pool' # pool /\ prediction_id' \in ToSet(pool'.active) =>
       \A v \in ToSet(contexts'[prediction_id'].path) \ {Root} :
         DOMAIN weights'[v] \subseteq 0 .. Len(root_weights) - 1]_vars

(* The table of losses (ContextLoss) that the tree, the pool and the sparse *)
(* weights stand for: it has an entry for every weight of a vertex, at the *)
(* words spelled on the way to the vertex.                                 *)
WordWith(tok) == CHOOSE w \in DOMAIN data_map : data_map[w] = tok

ParentOf(v) ==
  LET parents == {u \in 0 .. v - 1 : v \in Children(tree, u)}
  IN IF parents = {} THEN Root ELSE CHOOSE u \in parents : TRUE

Spelled ==
  LET s[v \in Vertices] ==
        IF v = Root THEN << >>
        ELSE Append(s[ParentOf(v)], WordWith(tree[v + 1].token))
  IN s

Table ==
  LET spelled == Spelled
  IN [e \in UNION {{spelled[v]} \X DOMAIN weights[v] : v \in DOMAIN weights} |->
        weights[CHOOSE v \in DOMAIN weights : spelled[v] = e[1]][e[2]]]

(***************************************************************************)
(* Statements of the comments that the code contradicts.                   *)
(***************************************************************************)

(* "automatically passes on first pass because both are 0": the first word *)
(* is compared with prediction 0, the null string, and no word typed has   *)
(* that index; it counts as a mistake.                                     *)
FirstPassIsNoMistake ==
  [][prediction_context = << >> => mistakes' = mistakes]_vars

(* "The passed integer will be set to a prediction_id": asking for the     *)
(* prediction leaves the model's own id what the prediction made it.  The  *)
(* code assigns the caller's integer to it instead, and the next mistake   *)
(* is then charged to no context.                                          *)
QueryKeepsId ==
  [][pool' = pool => prediction_id' = prediction_id]_vars

(* "check if id is valid": an id that validate_id accepts is the index of  *)
(* a context.  It accepts the length of the array.                         *)
ValidIdsAreContexts ==
  \A id \in 0 .. MaxContexts + 1 : ValidId(pool, id) => id \in ContextIds
=============================================================================
