------------------------------- MODULE Parser -------------------------------
(***************************************************************************)
(* Parser of lib/parser.cpp: the words met so far, how often each was met, *)
(* and how often one followed another.  The place of a word in words is    *)
(* its index; a word is a sequence of characters, <<>> the empty one every *)
(* parser starts with.                                                     *)
(***************************************************************************)
EXTENDS Integers, Bags, SequencesExt

CONSTANT top_word_number    \* words a summary names; 20 in the code

ASSUME TopAssumption == top_word_number \in Nat \ {0}

index(p, word) == CHOOSE n \in DOMAIN p.words : p.words[n] = word
pair_count(p, i, j) ==
  IF BagIn(<<i, j>>, p.pair_counts) THEN p.pair_counts[<<i, j>>] ELSE 0

(* count of two words, 0 when one of them was never met. *)
count(p, word_i, word_j) ==
  IF {word_i, word_j} \subseteq ToSet(p.words)
    THEN pair_count(p, index(p, word_i), index(p, word_j))
    ELSE 0

WithWord(p, word) ==
  IF word \in ToSet(p.words) THEN p
  ELSE [p EXCEPT !.words = Append(@, word),
                 !.counts = Append(@, 0),
                 !.nonzero_pairs = Append(@, <<>>)]

(* add_word, which is add_pair behind the last word: the first word makes  *)
(* no pair.                                                                *)
add_word(p, word) ==
  LET q == WithWord(p, word)
      i == index(q, word)
      counted == [q EXCEPT !.counts[i] = @ + 1, !.last_index = i]
  IN IF Len(q.words) > 1
       THEN [counted EXCEPT
               !.pair_counts = @ (+) SetToBag({<<p.last_index, i>>}),
               !.nonzero_pairs[p.last_index] = Append(@, i)]
       ELSE counted

NewParser ==
  add_word([words |-> <<>>, counts |-> <<>>, nonzero_pairs |-> <<>>,
            pair_counts |-> EmptyBag, last_index |-> 1], <<>>)

(* print_summary: word i goes behind the last top word that was met at     *)
(* least as often.  Behind the end of a full list it is written past the   *)
(* end, where nothing is read.  The mutant replaces the last top word.     *)
RankedLast(p, top, i) ==
  IF Len(top) < top_word_number THEN Append(top, i) ELSE [top EXCEPT ![Len(top)] = i]

Ranked(p, top, i) ==
  LET AtLeast == {n \in DOMAIN top : p.counts[top[n]] >= p.counts[i]}
      j == IF AtLeast = {} THEN 0 ELSE CHOOSE n \in AtLeast : \A m \in AtLeast : m <= n
      grown == IF Len(top) < top_word_number THEN Append(top, i) ELSE top
  IN [n \in DOMAIN grown |-> CASE n <= j -> top[n]
                               [] n = j + 1 -> i
                               [] OTHER -> top[n - 1]]

top_words(p) ==
  FoldLeft(LAMBDA top, i : Ranked(p, top, i), <<>>,
           [i \in 1 .. Len(p.words) |-> i])
=============================================================================
