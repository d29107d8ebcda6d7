----------------------------- MODULE ContextTree -----------------------------
(***************************************************************************)
(* The context tree of include/context_tree.hpp: a tree of the contexts    *)
(* seen so far, one vertex per context, whose path from the root spells    *)
(* the context from the most recent datum to the oldest.  A prediction     *)
(* walks down as far as the tree follows the current context and remembers *)
(* the vertices it passed and the ones it would have liked to pass; a      *)
(* later reinforce or regret weights the former and adds the latter.       *)
(*                                                                         *)
(* Vertices are numbered from 0 as in the source (vertex_number_), so      *)
(* vertex v is tree[v + 1]; its id, its descriptor and its number are the  *)
(* same.  A data item is any value, its token the number under which       *)
(* data_map_ knows it; data_list_ is written and never read, and left out. *)
(*                                                                         *)
(* The callbacks of the visitor are those of the module that extends this  *)
(* one: here are the tree, the contexts and how each operation changes     *)
(* them, as operators over their values.                                   *)
(***************************************************************************)
EXTENDS ContextPool, FiniteSetsExt

CONSTANT MaxDegree      \* children a vertex holds as edges (10 in the model)

ASSUME MaxDegreeAssumption == MaxDegree \in Nat /\ MaxDegree >= 2

VARIABLES
  tree,          \* sequence of vertices
  data_map,      \* data item -> token
  token_number,  \* the next token
  contexts,      \* active id -> what its prediction remembered
  pool           \* active_ids_ and inactive_ids_, a ContextPool

treeVars == <<tree, data_map, token_number, contexts, pool>>

Root == 0
RootToken == 0

(* A vertex holds its children as edges, or in a btree_map from token to   *)
(* child once they exceed MaxDegree.  A vertex without a btree_map (a NULL *)
(* subtree) has the empty map: a btree_map is never created empty.         *)
NewVertex(tok) == [token |-> tok, edges |-> << >>, subtree |-> << >>]

HasSubtree(t, v) == DOMAIN t[v + 1].subtree # {}

(* boost::graph's edge list and the btree_map as a dictionary: what the    *)
(* child of v for a token is, in either representation (descend).          *)
NoVertex == -1

ChildOf(t, v, tok) ==
  LET edges == t[v + 1].edges
      hits  == {i \in DOMAIN edges : t[edges[i] + 1].token = tok}
  IN CASE HasSubtree(t, v) ->
            IF tok \in DOMAIN t[v + 1].subtree
              THEN t[v + 1].subtree[tok] ELSE NoVertex
       [] OTHER -> IF hits = {} THEN NoVertex ELSE edges[Min(hits)]

(* The vertices that v's edges or its btree_map lead to. *)
Children(t, v) ==
  ToSet(t[v + 1].edges) \cup
  {t[v + 1].subtree[tok] : tok \in DOMAIN t[v + 1].subtree}

(***************************************************************************)
(* predict.  frag is the context, oldest datum first.                      *)
(***************************************************************************)

(* data_frag[length - i - 1] in round i - 1: the i-th most recent datum. *)
Recent(frag, i) == frag[Len(frag) - i + 1]

(* The vertex the walk is at after i rounds, or NoVertex once it stopped. *)
Walk(t, dm, frag) ==
  LET at[i \in 0 .. Len(frag)] ==
        IF i = 0 THEN Root
        ELSE IF at[i - 1] = NoVertex \/ Recent(frag, i) \notin DOMAIN dm
          THEN NoVertex
          ELSE ChildOf(t, at[i - 1], dm[Recent(frag, i)])
  IN at

Matched(t, dm, frag) ==
  LET walk == Walk(t, dm, frag)
  IN Max({i \in 0 .. Len(frag) : walk[i] # NoVertex})

(* data_map_ after the walk: the datum at which it stopped gets the next   *)
(* token if it is new; the older data, read with operator[], are inserted  *)
(* under token 0 if they are unknown.                                      *)
(* Mutant of Registers: a known datum without a vertex takes a token too. *)
RegistersAgain(t, dm, frag) == Matched(t, dm, frag) < Len(frag)

Registers(t, dm, frag) ==
  /\ Matched(t, dm, frag) < Len(frag)
  /\ Recent(frag, Matched(t, dm, frag) + 1) \notin DOMAIN dm

DataMapAfter(t, dm, next, frag) ==
  LET m == Matched(t, dm, frag)
      wanted == {Recent(frag, i) : i \in m + 1 .. Len(frag)}
  IN [c \in DOMAIN dm \cup wanted |->
        CASE c \in DOMAIN dm -> dm[c]
          [] c \notin DOMAIN dm /\ Registers(t, dm, frag)
               /\ c = Recent(frag, m + 1) -> next
          [] OTHER -> RootToken]

(* What a context remembers: the vertices passed, the leaf, and the tokens *)
(* of the vertices to add below it.  A walk that follows the whole context *)
(* breaks out of the loop before the leaf is set, and leaves it at the     *)
(* root where activate_context put it.                                     *)
ContextOf(t, dm, next, frag) ==
  LET m == Matched(t, dm, frag)
      walk == Walk(t, dm, frag)
      tokens == DataMapAfter(t, dm, next, frag)
  IN [path      |-> [i \in 1 .. m + 1 |-> walk[i - 1]],
      leaf      |-> IF m = Len(frag) THEN Root ELSE walk[m],
      additions |-> [i \in 1 .. Len(frag) - m |-> tokens[Recent(frag, m + i)]]]

(* The contexts p still holds.  A released context keeps its contents in   *)
(* the array, where nothing reads them: validate_id rejects its id, and    *)
(* predict overwrites them when the id is handed out again.                *)
Remembered(p) ==
  [id \in DOMAIN contexts \cap ToSet(p.active) |-> contexts[id]]

(***************************************************************************)
(* reinforce and regret.                                                   *)
(***************************************************************************)

(* The vertices the visitor is shown: the path up to the leaf. *)
Shown(con) ==
  SubSeq(con.path, 1, Min({i \in DOMAIN con.path : con.path[i] = con.leaf}))

(* con_add_nodes adds no vertex at a depth of depth or more.  The mutant   *)
(* tests i <= depth.                                                       *)
AddedOneMore(con, depth) ==
  SubSeq(con.additions, 1,
         Min({Len(con.additions), depth + 1 - Len(Shown(con))}))

Added(con, depth) ==
  SubSeq(con.additions, 1,
         Min({Len(con.additions), depth - Len(Shown(con))}))

(* The edges left when those to other children are removed. *)
EdgesLeft(edges, kept) ==
  LET left[i \in 0 .. Len(edges)] ==
        IF i = 0 THEN << >>
        ELSE IF edges[i] \in kept THEN Append(left[i - 1], edges[i])
        ELSE left[i - 1]
  IN left[Len(edges)]

(* The leaf takes child v.  At MaxDegree edges it gets a btree_map of all  *)
(* its children (split_vertex).  The loop that should then remove the      *)
(* edges dereferences the end iterator: which of them, if any, it removes  *)
(* is not defined, and the edges kept are a parameter.  insert is a no-op  *)
(* on a token that is there.                                               *)
SplitSubtreeAllButFirst(t, v) ==    \* mutant: the loop starts at 1
  [tok \in {t[c + 1].token : c \in ToSet(Tail(t[v + 1].edges))} |->
     ChildOf(t, v, tok)]

SplitSubtree(t, v) ==
  [tok \in {t[c + 1].token : c \in ToSet(t[v + 1].edges)} |->
     ChildOf(t, v, tok)]

Inserted(map, tok, child) ==
  [k \in DOMAIN map \cup {tok} |-> IF k \in DOMAIN map THEN map[k] ELSE child]

Splits(t, v) == ~HasSubtree(t, v) /\ Len(t[v + 1].edges) = MaxDegree

(* The node of the vertex that takes the child. *)
Parent(t, v, child, tok, kept) ==
  LET node == t[v + 1]
  IN CASE HasSubtree(t, v) ->
            [node EXCEPT !.subtree = Inserted(@, tok, child)]
       [] Splits(t, v) ->
            [node EXCEPT !.subtree = Inserted(SplitSubtree(t, v), tok, child),
                         !.edges = EdgesLeft(@, kept)]
       [] OTHER -> [node EXCEPT !.edges = Append(@, child)]

Adopt(t, v, child, tok, kept) ==
  [t EXCEPT ![v + 1] = Parent(t, v, child, tok, kept)]

(* con_add_nodes: a chain of new vertices below the leaf. *)
WithChain(t, leaf, toks, kept) ==
  IF toks = << >> THEN t
  ELSE LET n == Len(t)
           chain == [i \in DOMAIN toks |->
                       [NewVertex(toks[i]) EXCEPT !.edges =
                          IF i < Len(toks) THEN <<n + i>> ELSE @]]
       IN Adopt(t, leaf, n, toks[1], kept) \o chain

(***************************************************************************)
(* write_graph prints the tree through temporary edges, one per entry of a *)
(* btree_map, and then removes every edge to those children.               *)
(***************************************************************************)
AfterWriteGraph(t) ==
  [i \in DOMAIN t |->
     [t[i] EXCEPT !.edges =
        EdgesLeft(@, ToSet(@) \ {t[i].subtree[tok] :
                                    tok \in DOMAIN t[i].subtree})]]

(* The constructor. *)
TreeInit ==
  /\ tree = <<NewVertex(RootToken)>>
  /\ data_map = << >>
  /\ token_number = 1
  /\ contexts = << >>
  /\ pool = InitialPool
=============================================================================
