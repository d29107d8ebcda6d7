# Verification of WordModel

WordModel predicts the next word (or character) of a text while it is typed and
serves those predictions over TCP.  This directory holds TLA+ models of its
programs and libraries, TLC configurations that check them, and TLAPS proofs of
the theorems that matter most.  Paths below are those of the repository
(`src/` is its root).

## The system

| Part | Source | State | Operations | Talks to |
|---|---|---|---|---|
| Context pool | `include/context_tree.hpp` | `active_ids_`, `inactive_ids_` | activate, deactivate, flush, validate | called by the tree |
| Context tree | `include/context_tree.hpp` | `tree_` (edges or a `btree_map` per vertex), `data_map_`, `token_number_`, `contexts_` | `predict`, `reinforce`, `regret`, `write_graph` | calls its visitor back on every vertex |
| Bounded context tree model | `lib/bounded_context_tree_model.cpp` | `words_`, `weights_`, `root_weights_`, `prediction_context_`, `prediction_`, `prediction_id_`, `mistakes_`, `current_string_` | `putc`, `interface`, `get_prediction`, `prediction_result`, `write_summary` | owns a tree and is its visitor |
| B-tree map | `include/btree/btree.h`, `btree_container.h`, `btree_map.h`, `btree_set.h` | nodes, root, rightmost leaf, size | insert, erase, find, bounds, iterate, swap, clear | children of the context tree's wide vertices |
| Safe B-tree | `include/btree/safe_btree*.h` | a tree, its generation; per iterator a tree, a generation, a key | the same, with iterators that outlive changes | several holders of iterators |
| Parser, simple model | `lib/parser.cpp`, `lib/simple_model.cpp` | words, counts, pairs; input, modes, prediction | `add_word`, `putc`, `interface`, `do_train`, `print_summary` | a level of the multiplexer |
| Model multiplexer | `include/model_multiplexer.hpp` | a stack of models, `interface_` | `putc`, `get_prediction`, `write_summary` | passes characters and interfaces up the stack |
| Packet | `src/packet.hpp`, `nodejs/packet.js` | header and body | encode, decode | the wire format of all programs |
| Model server | `src/model_server.hpp`, `src/model_server.cpp` | per session: `read_packet_`, `write_packets_`, a model; the dispatcher's acceptor | read header, read body, process, write; accept | completion handlers of one `io_service` |
| Service client, stdin_tcp | `src/service_client.hpp`, `src/stdin_tcp.cpp` | `write_packets_`, `read_packet_`, socket, the word under way | write, close, connect, read | the keyboard thread posts to the io thread |
| Echo server | `src/echo_server.cpp` | one packet, one socket, one queue | accept, read, echo | the client's counterpart in tests |
| Node adaptor | `nodejs/model_adaptor.js`, `packet.js`, `socket_server.js` | a socket per browser | predict, train, summary, data event | browser on one side, model server on the other |

Where it is hard:

* *The context tree* is a trie in two representations whose switch from edges to
  a `btree_map` contains undefined behaviour, learned from through contexts that
  are taken out of a fixed pool, recycled and named by ids that outlive them.
  Its invariants are held by the order of statements in `do_predict` and by
  facts nobody wrote down (the tree is always shallower than the context).
* *The weights* are split over sparse maps per vertex and a dense vector at the
  root that grows one prediction late.
* *The B-tree* moves values between nodes while an iterator has to follow them:
  before an insertion to find its place, after an erasure to be returned.  The
  safe variant lets iterators go stale and recognises it by a number whose sign
  has a meaning of its own.
* *The multiplexer* decides which level sees a character by what the levels
  below answered for the same character, one of them from an uninitialised flag.
* *The server* is single-threaded, but reads, writes and accepts interleave;
  requests arrive while replies are being written; a connection may end
  anywhere, in the middle of a body included; header and body must
  stay in step on the byte stream.
* *The client* has two threads, a connect in flight and a close that overtakes
  queued writes.
* *The adaptor* takes what a stream delivers for whole packets, on the one thread
  that all browsers share, and writes headers with a byte of garbage.

What makes each part correct: the pool partitions the ids; the tree is a trie
that `descend` navigates; tree, pool and weights together are the plain table of
losses that the algorithm is about; the B-tree is an ordered map and its safe
iterators never dangle; a stack of models counts the words and pairs of the text
and nothing else; a session answers well-formed requests one by one, in order,
with one write at a time; the dispatcher serves everybody; words typed are
neither lost, doubled nor overtaken on their way, and the programs end.

## Modules

| Module | Models | Kind |
|---|---|---|
| `ContextPool` | the two deques of ids | operators on a pool value |
| `ContextTree` | tree, token map, contexts (extends `ContextPool`) | variables and operators |
| `BoundedCTModel` | the word model (extends `ContextTree`): one action per public operation | specification |
| `ContextLoss` | what the word model promises: a table of losses | abstract specification |
| `LossHistory` | the word model with that table in a variable (extends `BoundedCTModel`) | refinement mapping |
| `BTreeNode` | nodes on a heap of addresses: slots, links, allocation | operators on a heap |
| `BTree` | the containers (extends `BTreeNode`): one action per call | specification |
| `OrderedMap` | what they promise: values in order and an iterator among them | abstract specification |
| `KeyOrder` | places among keys | operators |
| `SafeBTree` | generations and iterators (extends `KeyOrder`) | specification |
| `SafeMap` | what they promise: iterators that mark a key for good | abstract specification |
| `Parser`, `SimpleModel` | one level of the stack | operators on a model value |
| `ModelMultiplexer` | the stack (extends `SimpleModel`) | specification |
| `ModelServer` | sessions, dispatcher, clients and byte stream | specification |
| `NodeAdaptor` | browsers and adaptors (extends `ModelServer`, whose clients they are) | composition |
| `Connection` | a TCP connection | external |
| `ServiceClient`, `EchoServer` | the client's two threads; the server (both extend `Connection`) | components |
| `EchoSession` | the three composed | composition |
| `MC...` | instances for TLC, and refinement mappings kept in variables | |
| `Induction` | intervals, stepwise functions, least and greatest naturals, sums | lemmas |
| `ContextTree_proofs` | what the operators of pool and tree return and keep | lemmas |
| other `..._proofs` | theorems about the specification they are named after | theorems |

Names are those of the source, with the trailing underscore of members where two
things would otherwise share a name.  Operators marked *mutant* are plausible
bugs of the operator after them: each property is known to fail when its mutant
takes that operator's place.

### The bounded context tree model

Every public operation of `BoundedCTModel` is one action, and contains every
call it makes: `Interface` is `do_predict` with the comparison, the reinforce
with all its callbacks, `con_add_nodes` and `split_vertex`, the release of the
context, the trimming of the context, the activation (and flush) of the next
one, the walk, the prediction and the growth of the root weights.  Its parts are
operators named after the functions they come from.

* Vertex `v` is `tree[v + 1]`; its number, id and descriptor coincide in the
  code.  A vertex has `edges` and a `subtree` (the map; empty means `NULL`).
* `split_vertex` dereferences the end iterator when it removes the edges.  Which
  edges remain is undefined: `KeptEdges` takes every subset.
* The write past the end of `root_weights_` for a word just met (line 232 of the
  source) is undefined and changes no weight in the model.  `TypeOK` fixes where
  it goes: one place past the end, as there is a weight for every word between
  operations.  With spare capacity the `push_back` that follows overwrites that
  place; when size equals capacity the write lands past the allocation, and the
  growth copies nothing from there.  What it may destroy in the second case is
  outside the model, and no property sees it.
* `prediction_id_` starts uninitialised: `UninitIds` holds an id that is
  inactive and one that is no id.  `MaxContexts` itself, which `validate_id`
  wrongly accepts, is excluded by the assumption `NoIdPastTheEnd` and is what
  the run `valid_ids` is about.
* A context keeps its tokens and vertices only while its id is active; a released
  one's are overwritten before they can be read.
* Not modelled: the scratch array `data` of a context (rebuilt by every
  prediction), `data_list_` and `hash_fn_` (never read), the null character
  (ignored by `putc`), `prediction_result` with outcome true (does nothing).
  `get_prediction` never tells a caller an id, and nothing in the repository
  regrets; callers that regret the id of an older, still active prediction are
  therefore not enumerated in the TLC instance.  The proofs cover them, but for
  `TreeIsTrie`, which they may break, and what rests on it (see Proofs).

`ContextLoss` says the same without tree, pool or sparse maps: a table from
context and word to loss, `Token`, `Regret` and `Disown` (the id of the
prediction is lost).  `LossHistory!ImplementsContextLoss` maps every vertex
to the words on its path and its weights to entries of the table (`Table`); the
table is kept in the history variable `loss`, which no operation reads, so that
TLC computes it once per state.

### The B-trees

A heap maps addresses to nodes with their values, children and links back; a call
allocates and frees addresses.  `BTree` holds one container, chosen from `Uses`:
a map or set, or a multi container, the values it is loaded with, and those its
caller goes on inserting, looking up and erasing.  Every call is one action:
the descent to a leaf, `rebalance_or_split` up to the root or
`merge_nodes`, `rebalance` and `try_shrink` behind an erasure, and the iterator
that is returned; `Cleared` frees node after node as `internal_clear` does, so that
a node left behind or freed while something is still read from it would show.
The caller keeps that iterator, the only one that is good
after a change, and uses it for hints, steps and erasures.  Values are pairs of
a key and data; byte sizes, allocators and the compare-to variants of the
comparison choose among node sizes and searches, which `kNodeValues` and
`SearchesAgree` stand for.

`SafeBTree` sees a tree as its set of keys.  An iterator holds `tree_`,
`generation_`, `key_` and `iter_`; what `iter_` points into becomes `Gone` when a
change of a tree may have moved or freed it, so that using it without another
look-up is visible as such.  Two trees and several iterators make swaps,
assignments and iterators of another tree possible.  `insert_multi` and
`erase_multi` are not modelled: there is no safe container of equal keys.

### The models of words

A parser is a value: its words in the order they were met, their counts, a bag of
pairs, and for each word those that followed.  Operators are named after the
functions and written on it; `SimpleModel` adds the input, the modes and the
prediction, and `ModelMultiplexer` is the one machine, whose step is a character.
The server as it is built has none of these: `model_server.cpp` defines
`BOUNDED` and stacks one `BoundedCTModel`, and the stack of two simple models
under `#ifndef BOUNDED` is compiled out; the model is of the template with the
simple models it can be made with, at any height.
`detected_interface_` of every level starts uninitialised.  The history `typed`
is the text, and the properties are about what it means: `TextRead` reads it
into words.  `Parser`'s index past the end (`get_word`), which no caller passes,
and the id of a prediction, which none reads, are not modelled.

### The programs

*The model server.*  One action per completion handler, run to its end as the
single thread of `io_service.run` does.  `reading[c]` is the outstanding read of
the session of client `c`; `writes[c]` are the packets of its outstanding
`async_write`s, a sequence although it should never hold two.  The byte stream is
a sequence of cells of `header_length` bytes.  `decode_header` is modelled by
what `sscanf` finds in a cell: a length and a type, a length alone, or nothing;
the rest stays as it was (`Scanned`).  The model of words is seen through
`ReplySizes`, the number of packets that answer a request.  `sent`, `processed`
and `answers` are histories for the properties.  Errors of `async_accept` change
nothing and are left out; a header cut off within its five bytes is the loss of a
cell.

*The Node adaptor.*  `NodeAdaptor` takes the server's handlers as they are and
puts adaptors in the clients' place.  `HeaderBytes` are the five bytes that
`encode_packet` writes, with `Junk` for those it does not, and `HeaderCell` what
`sscanf` makes of them; lengths are the real ones, in cells.  A data event holds
any part of the replies that arrived; its loop is one action, as nothing else
runs on Node's thread meanwhile, and `hung` says that it does not end.

*The terminal client.*  `ServiceClient` has the keyboard thread's steps, the
queue of posted handlers, and one action per handler on the io thread; the
operating system's half of each asynchronous operation is an action of its own
(`Connect`, `Read`, `Write`, `Fail`), so that a close finds operations under way,
done, or done but not handled.  A packet is the number of its word.
`EchoSession` composes it with `EchoServer` over a `Connection` that may be
refused or lost with part of what was under way.

## Runs

| Run | Shows | Instance |
|---|---|---|
| `bounded_model` | `TypeOK`, `PoolPartition`, `TreeIsTrie`, `LeafEndsPath`, `TokensFollowWords`, `LookupsInRange`, `ImplementsContextLoss` | 3 characters, 3 contexts, split at 2 children, bound 3, 4 mistakes, losses to 1 |
| `btree` | `Verified`, `NothingLeaks`, `WalksBothWays`, `SearchesAgree`, `ImplementsOrderedMap` | nodes of 4 values, six uses |
| `safe_btree` | `NeverDangling`, `ImplementsSafeMap` | 2 trees, 2 iterators, 2 keys, 2 changes of each tree |
| `words` | `LearnsTheText`, `PredictsTheMostFrequent`, `SummaryNamesTheTop` | 3 levels, texts of up to 7 characters of 5, 2 top words |
| `model_server` | `TypeOK`, `OneWriteAtFront`, `RepliesInOrder`, `RequestsInOrder` | 2 clients, 3 requests of 7 kinds, summaries of up to 2 packets |
| `node_adaptor` | `RepliesReachTheBrowser`, `EveryClientIsServed`, `RequestsAreAnswered`, `ShortRequestsAreTold` | 2 browsers, 2 requests of 5 kinds, `NodeSpec` |
| `echo_session` | `EveryWordOnItsWay`, `WordsAnswered`, `EndsAfterInput` | 4 words |
| `first_pass` | finding: the first word is a mistake | as `bounded_model`, unconstrained |
| `query_keeps_id` | finding: `get_prediction` overwrites the model's id | as `first_pass` |
| `valid_ids` | finding: `validate_id` accepts the array's length | as `first_pass` |
| `sessions_end` | finding: sessions never end | 2 clients, 2 requests, `FairSpec` |
| `last_words` | finding: the last words are not sent | 2 words |

Why the bounds are enough.

*`bounded_model`.*  The pool of 3 is flushed (two ids freed of three, an odd
size) and every mixture of released, flushed and lost ids occurs.  A vertex
splits at its third child, so with three words and three mistakes the root
splits, and the tree is two levels deep below it, the most that bound 3 allows;
the fourth mistake learns over a split root.  `Explored` bounds the words
whose loss regrets have raised: two behind the third mistake, none behind the
fourth.  Words have one character, as the server makes them: it signals an
interface after every one.  Characters are symmetric: no operation compares
them but for equality.

*`btree`.*  Four values are the fewest for which a node has room to pass values
to a sibling and does not only split.  The uses are: everything that can be done with
seven keys; trees of 26 and 25 keys, filled in order and in reverse (the two
biases of a split), on which a few keys more or less make leaves and the nodes
above them split, pass values, merge and shrink; one of 44, whose inner nodes have
several children; and multi containers with one key over several nodes.

*`safe_btree`.*  Two changes of each tree make an iterator one and two
generations old; a swap or assignment needs two trees; erasing through one
iterator makes the other stale.  The theorems hold for any number.

*`words`.*  Seven characters hold three words of a text, a pair that repeats, a
backspace within a word, at its start and behind a delimiter.  Three levels show
what two do not: the level that is told of an interface by one
that has not taken the character.  Two top words of up to six make the list
overflow.

*`model_server`.*  Two clients for the dispatcher and for independence, and two
requests of one client for a reply that finds a write in flight; a third lets one
come while a summary's second packet waits.  `MaxRequests` counts the requests of
all clients.

*`node_adaptor`.*  Lengths of 2, 10 and 20 bytes are on both sides of each
boundary of `encode_packet`; the byte left unwritten is a digit, white space or
neither.  Two requests give up to four packets of replies, of which an event
holds any part.  A second browser shows what one's endless event does to another.

*`echo_session`.*  With four words, one is posted, one queued, one on its way and
one being read.  The theorem holds for any number.

`CHECK_DEADLOCK FALSE` where the system may stop: clients that have sent
all they will and were answered, a text that is at its end, a program that has
ended.

Fairness.  `io_service.run` calls the handler of every operation that completed,
and a read completes when its bytes are there or the connection ended, a write
and an accept when the kernel gets to them: weak fairness of `Accept`, and per
session of the read handlers and of the write handlers.  `NodeSpec` adds that
Node's loop gives what arrived to a data event.  In `EchoSession` the operating
system completes the operations under way, both threads go on, and the handlers
that are ready run.  Nothing is assumed of people and networks: clients need not
send, connect or stay, a user need not type, and a connection need not fail.

## Proofs

| Theorem | Says |
|---|---|
| `PoolAlwaysPartition` (`BoundedCTModel_proofs`) | `Spec => []PoolPartition` |
| `TypesAlwaysOK` (`BoundedCTModel_proofs`) | `Spec => []TypeOK` |
| `TokensAlwaysFollowWords` (`BoundedCTModel_proofs`) | `Spec => []TokensFollowWords` |
| `LeafAlwaysEndsPath` (`BoundedCTModel_proofs`) | `Spec => []LeafEndsPath` |
| `LookupsAlwaysInRange` (`BoundedCTModel_proofs`) | `Spec => LookupsInRange`, an action property |
| `TreeAlwaysTrie` (`BoundedCTModel_proofs`) | `Spec => []TreeIsTrie`, if `CallerIds \cap ContextIds = {}` |
| `TreeImplementsTable` (`BoundedCTModel_proofs`) | `LossSpec => ImplementsContextLoss`, if `CallerIds \cap ContextIds = {}` |
| `ServerType` (`ModelServer_proofs`) | `Spec => []TypeOK` |
| `OneWriteAlways` (`ModelServer_proofs`) | `Spec => []OneWriteAtFront` |
| `RepliesAlwaysInOrder` (`ModelServer_proofs`) | `Spec => []RepliesInOrder` |
| `RequestsAlwaysInOrder` (`ModelServer_proofs`) | `Spec => []RequestsInOrder` |
| `NeverDanglingAlways` (`SafeBTree_proofs`) | `Spec => []NeverDangling` |
| `ImplementsSafeMapAlways` (`SafeBTree_proofs`) | `Spec => ImplementsSafeMap` |
| `EveryWordAlways` (`EchoSession_proofs`) | `Spec => []EveryWordOnItsWay` |
| `BrowsersAreTold` (`NodeAdaptor_proofs`) | `NodeSpec => [](RepliesReachTheBrowser /\ OneWriteAtFront /\ RepliesInOrder)` |
| `TextAlwaysLearnt` (`ModelMultiplexer_proofs`) | `Spec => []LearnsTheText` |
| `PredictsAlwaysTheMostFrequent` (`ModelMultiplexer_proofs`) | `Spec => []PredictsTheMostFrequent` |
| `SummaryAlwaysNamesTheTop` (`ModelMultiplexer_proofs`) | `Spec => []SummaryNamesTheTop` |

They hold for every value of the constants under the named assumptions of the
modules, all of which TLC evaluates in the runs.

*The pool.*  `ContextTree_proofs` shows that the constructor makes a partition
and that activation (with its flush, for odd and even sizes) and release keep
it, given that a released id is in use.  `PoolPartition` alone does not give
that: `validate_id` accepts `MaxContexts`, which is in no deque, so `PoolInv`
adds that the model's own id is never that number.  It starts so by assumption
on the uninitialised value, activation hands out indices, and callers' ids are
assumed so; without `NoIdPastTheEnd` the theorem is false.

*The word model.*  `IInv` of `BoundedCTModel_proofs` says how words, tokens,
weights, tree, pool and contexts fit each other.  Its heart is a number the code
does not keep, the depth of each vertex (`Depths`, a function that grows by one
from a vertex to its children), and two facts about it that hold each other up:

* no vertex is deeper than the current context is long, and none as deep as the
  bound (`Shallow`);
* what an active context has still to add, together with its path, is at most
  the current context (`GoodContext`), so that adding it keeps the first fact.

From the first follows that the walk of `predict` stops before the context ends
(`NewContextGood`): the leaf is set, and something is left to add.  That the
current context never shrinks (it is trimmed to `Bound`, where it stays) carries
both facts over `do_predict`.  The tokens are the words' indices less one,
because a walk meets a new word first of all and stops at the root there
(`TokensFollow`); that is also why the weights a new word already has at
vertices are never looked up by the prediction that would have no room for them.
`InterfaceInv` puts the parts of `do_predict` together in the order of the code.

`TreeIsTrie` needs one fact more: the leaf of the model's own context has no
child for the first token to be added (`FreshFor`), as `predict` has just
looked (`NewContextFresh`), and nothing is added in between.  An older context
that is still active has no such warrant: the same token may have been added
below its leaf for another, `reinforce` and `regret` do not look again, and the
second child would be hidden from `descend`.  So the theorem has a hypothesis
about callers, `CallerIds \cap ContextIds = {}`: they may release the prediction
handed out last, and come up with any number that is no context, but not name
another context.  Nothing in the repository does.  The refinement of `ContextLoss`
rests on the trie and has the same hypothesis; all other theorems about the
model hold without it.

*The table of losses.*  `TreeImplementsTable` says that `LossSpec` implements
`ContextLoss`.  A spelling gives every vertex the words on the way to it
(`Spells`); a trie has just one (`SpellingsAgree`), in which no two vertices
spell the same (`SpelledBelow`), so that a table which holds the weights of the
vertices at the words they spell (`Told`) is the only one (`TableUnique`) and is
what the history variable holds.  `LossInv` adds that the context of the model's
own prediction, while it is active, follows the current words (`Follows`): its
path spells the last ones, its additions are the tokens of the older ones.  Then
`reinforce` and `regret` charge the contexts that `ContextLoss` charges, no more
and no fewer: the vertices shown spell the shorter ones, the vertices added the
longer ones, up to the bound (`AddedFollow`, `LearnedTold`); `write_graph` leaves
the spelling (`PrintedTold`), and the walk of the next `predict` spells the next
context (`NewContextFollows`).  The losses summed over the path are the total
loss in the table, so the first word of least loss is `ContextLoss`'s choice
(`LeastAlwaysBest`).  One lemma per action maps it to `Token`, `Regret`, `Disown`
or a stutter (`InterfaceIsToken`, `RegretLoss`, `ElsewhereLoss`,
`WriteSummaryLoss`), and `NextLoss` joins them.

The lemmas below it are `ContextTree_proofs`: `WalkSteps` and `ContextFacts` say
what the recursive walk returns, `ChainGrafted`, `ChainFinds` and `ChainTrie` what
`con_add_nodes` does to a tree, vertex by vertex, for either representation of a
leaf's children and any edges that a split leaves (`ParentFinds`),
`WriteGraphPrints` that a summary changes nothing `descend` can see.

*Induction.*  The library's induction theorems have an operator parameter, but
`WFMin` has none: `Induction` derives from it, for sets instead of operators,
induction over an interval, the existence of functions computed step by step,
and that minimum, maximum and sum are what they should be.  That is enough for
everything the model computes by recursive functions and folds.

*The sessions.*  `SessionInv` joins the types with two facts about each session:
its outstanding writes are exactly the front of its queue (or none, if the
client is gone), and what was received followed by what is queued is what was
answered.  Neither is inductive without the other: a write delivers the front of
the queue only because it is the sole one, and the queue loses the packet that
was delivered for the same reason.  A session whose write failed keeps a queue
that nothing writes; `WritesOK` allows that state and shows it is never left.

*The requests.*  `RequestsInOrder` is about what the byte stream carries.
`Stream` is a witness for where each request that is not yet read begins
(`Layout`), says that the cells there are its header and body (`Carries`), and
that all has arrived but what a lost connection cut off (`Arrived`).  `InStep`
ties it to a session: what was processed is the first requests sent, and the
outstanding read, of a header or of a body, stands at the right cell.  A handler
drops the cells it read (`StreamDrops`); a client adds a request at the end.  The
induction over the stream's length that a parse would need is avoided: where
requests begin is part of the witness.

*The safe iterators.*  `NeverDangling` speaks of iterators whose generation is
their tree's, by its absolute value.  To be inductive it needs to know where that
number may be: in `IInv` it lies between the generation of the tree and its
negative and is never zero, so that a change, which counts the generation up,
makes every iterator of the tree stale at once, whatever its sign; and it is
negative exactly for an iterator that was at the end.  The refinement maps an
iterator with a negative generation to a mark on the end and any other to a mark
on its key: then validating an iterator is a stutter of the mark, and a
step of each operation is the operation of `SafeMap`.  Assumed are finitely many
keys that are integers (`KeysAssumption`).

*The words on their way.*  `EveryWordOnItsWay` is a sequence of seven pieces. It
is kept with the types and `Operations`: a write is under way only while the
queue is not empty, a read packet is there only while a body has been read, and no
close is posted while the user types.  Each step then moves a word from the front of
a piece to the end of the next (`MovedOn`), or adds the next one at the end
(`AddedLast`, `OneMoreWord`), or ends the premise.

*The browsers.*  `AdaptorInv` adds to `SessionInv`, which holds of sessions
whatever their clients send, how far each adaptor has read: `ToldInOrder` says it
stands between two packets and has told the browser of exactly those before.
What a data event decodes is a recursion on the position in the buffer; on whole
packets it comes to the replies from there on (`Says`), by a descent over the
interval of packets left.  Two adaptors are independent but for `hung`, which no
packet boundary can set.  Assumed is `AdaptorsAssumption`: browsers ask with
requests that `encode_packet` can make.  Garbled headers are among them, so
nothing is assumed of what the sessions make of them.

*The stack.*  `StackInv` says that every model is what reading its text makes of
one: `Reads` gives the parser's words, counts, pairs and followers for a
sequence of words, `Best` the prediction, `ModesKnown` the modes, and the text
of a level is what `TextRead` of the typed characters says, the first level's
the characters and delimiters, the others' the words between delimiters.  The
properties only mention what a reader sees; to be inductive they need `Placed`,
where the levels are: the lowest is at an interface exactly behind a delimiter,
the others never after the first word, and the word under way has no delimiter
in it.  That is why a character reaches each level once, and why the level that
is told of an interface by one that has not taken the character changes nothing.
`AddWordAdds` is the parser's insertion, `ModeIsBest` the search for the mode as
a fold over the followers, `InsertedIsTop` one round of the insertion into the
summary's list: the word that falls out, or past the end, is no more frequent than
those that stay.  Assumed are delimiters of one character, none of them a
backspace or an end of stream (`DelimitersAssumption`).

Only model-checked: of the B-tree, everything, `OrderedMap`'s refinement and the
four invariants `Verified`, `NothingLeaks`, `WalksBothWays` and `SearchesAgree`,
because its model descends, rebalances and searches by `RECURSIVE` operators,
which the provers cannot be used with, over nodes whose invariants are
themselves recursive; and what no installed prover can do: liveness under
fairness (`EveryClientIsServed`, `RequestsAreAnswered`, `ShortRequestsAreTold`
and those of the server and the echo session).

## Findings

1. The first word is counted as a mistake, against the comment at
   `lib/bounded_context_tree_model.cpp:108`.
2. `get_prediction` with a pointer stores the caller's integer instead of
   reporting the id (`include/word_model.hpp:54`).
3. `validate_id` accepts the length of the array of contexts
   (`include/context_tree.hpp:344`).
4. The session of a client that is gone restarts its read for ever
   (`src/model_server.hpp:149`); its destructor never runs.
5. At the end of the input the client closes its socket under the words still
   queued (`src/service_client.hpp:27`), which are never sent.

Seen while modelling, and part of the models as they are:

* From nineteen characters on, `encode_packet` (`nodejs/packet.js:19`) leaves a
  byte of the header unwritten.  The session then may wait for a body that never
  comes, or take a prediction for training.  `ShortRequestsAreTold` excepts such
  requests, and fails without the exception.
* A data event that ends within a packet makes the next one's loop endless
  (`nodejs/model_adaptor.js:21`): `RepliesReachTheBrowser` and
  `ShortRequestsAreTold` hold up to the first such event, after which all
  adaptors may be stuck.
* The echo server's second accept is on the socket of its one connection, fails
  at once and is started again without end; the socket is never closed.  The
  failing accepts change nothing and are no steps of the model, so the
  properties of the echo session say nothing of them.
* `print_summary` writes a word that is less frequent than a full list past the
  list's end (`lib/parser.cpp:96`); nothing reads it there, and the model drops
  the write.
* All levels of the multiplexer above the second learn the same words as the
  second.
* `putc` of the simple model returns true at a delimiter also when it has no new
  prediction, which `include/word_model.hpp:43` does not say.
* `operator*` of a safe iterator asserts a positive generation before it
  revalidates (`include/btree/safe_btree.h:125`), so that an iterator that
  would settle on the end passes the assertion.
* `increment_by` (`include/btree/btree.h`) does not end past the last value;
  callers must not ask for it.

## Not modelled, and what is left

* Regrets of older predictions: nothing holds an id, and no document says which
  word such a regret is to charge.
* Words longer than `stdin_tcp`'s buffer, and an index past the parser's words:
  undefined memory, of no state that a model could relate.
* The training file (`train` is one request whose characters are words), the
  layout of summaries and the colours of the terminal.
* The drivers and benchmark of the B-tree, the repository's tests and corpora
  (read as documentation), the web page and its static server, and
  `regularizer.hpp` (an interface without an implementation).

Left to prove: the B-tree, for which its recursive operators would first become
functions.
