---------------------------- MODULE SimpleModel ----------------------------
(***************************************************************************)
(* SimpleModel of lib/simple_model.cpp: a model that predicts the word     *)
(* that followed the last one most often.                                  *)
(***************************************************************************)
EXTENDS Parser

CONSTANTS
  Delimiters,       \* words, of one character in the default constructor
  Backspace, EndOfStream

(* detected_interface_ is not initialized. *)
NewModels ==
  [parser : {NewParser}, input : {<<>>}, word_modes : {[w \in {} |-> <<>>]},
   detected_interface : BOOLEAN, prediction : {<<>>}, weight : {0}]

(* The whole of the input is compared with the delimiters. *)
putc(m, c) ==
  IF c = EndOfStream \/ (c = Backspace /\ m.input = <<>>) THEN m
  ELSE LET input == IF c = Backspace THEN Front(m.input) ELSE Append(m.input, c)
       IN [m EXCEPT !.input = input,
                    !.detected_interface = Delimiters = {} \/ input \in Delimiters]

(* The first of the words that followed word i most often; the mutant      *)
(* does not remember how often.                                            *)
LastOf(p, i) ==
  FoldLeft(LAMBDA mode, j : IF pair_count(p, i, j) > 0 THEN p.words[j] ELSE mode,
           <<>>, p.nonzero_pairs[i])

ModeOf(p, i) ==
  FoldLeft(LAMBDA mode, j : IF pair_count(p, i, j) > mode.count
                              THEN [word |-> p.words[j], count |-> pair_count(p, i, j)]
                              ELSE mode,
           [word |-> <<>>, count |-> 0], p.nonzero_pairs[i]).word

(* do_train: the modes of the words that were followed. *)
do_train(p, modes) ==
  LET followed == {i \in DOMAIN p.words : p.nonzero_pairs[i] # <<>>}
      trained == {p.words[i] : i \in followed}
  IN [w \in DOMAIN modes \cup trained |->
        IF w \in trained THEN ModeOf(p, index(p, w)) ELSE modes[w]]

(* interface: the input becomes a word; [] makes a mode it does not have. *)
interface(m, at) ==
  IF ~at \/ m.input = <<>> THEN m
  ELSE LET parser == add_word(m.parser, m.input)
           trained == do_train(parser, m.word_modes)
           modes == [w \in DOMAIN trained \cup {m.input} |->
                       IF w \in DOMAIN trained THEN trained[w] ELSE <<>>]
       IN [m EXCEPT !.parser = parser,
                    !.word_modes = modes,
                    !.prediction = modes[m.input],
                    !.weight = count(parser, m.input, modes[m.input]),
                    !.input = <<>>]
=============================================================================
