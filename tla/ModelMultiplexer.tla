-------------------------- MODULE ModelMultiplexer --------------------------
(***************************************************************************)
(* ModelMultiplexer of include/model_multiplexer.hpp over simple models:   *)
(* the lowest level takes every character for a word, and the levels above *)
(* it take what stands between two delimiters.  The server as it is built  *)
(* stacks a single bounded context tree model instead (BOUNDED is defined  *)
(* in model_server.cpp), which BoundedCTModel is about; the stack of two   *)
(* simple models beside it is compiled out.                                *)
(***************************************************************************)
EXTENDS SimpleModel

CONSTANTS
  Levels,           \* of the stack
  Characters,       \* that are typed, Backspace and EndOfStream among them
  MaxTyped          \* bound on how many

ASSUME LevelsAssumption == Levels \in Nat \ {0} /\ MaxTyped \in Nat

(* TOKENIZER_DELIMS: the models are made by the default constructor. *)
ASSUME DelimitersAssumption ==
  /\ Delimiters # {}
  /\ Delimiters \subseteq {<<c>> : c \in Characters \ {Backspace, EndOfStream}}
  /\ Backspace # EndOfStream

VARIABLES
  models,           \* models_, from the lowest to the highest
  interface_,       \* what putc returned last
  typed             \* history: the characters so far

vars == <<models, interface_, typed>>

(* A level takes the character if no level below it found an interface in  *)
(* it; those above one that did are told of the interface instead.         *)
Takes(c, i) == \A j \in 1 .. i - 1 : ~putc(models[j], c).detected_interface

(* The mutant: a level at an interface still takes the character. *)
PassedTwice(c, i) ==
  IF i = 1 THEN interface(putc(models[1], c), TRUE)
  ELSE putc(interface(models[i], ~Takes(c, i)), c)

Passed(c, i) ==
  IF i = 1 THEN interface(putc(models[1], c), TRUE)
  ELSE IF Takes(c, i) THEN putc(models[i], c)
  ELSE interface(models[i], TRUE)

Putc(c) ==
  /\ Len(typed) < MaxTyped
  /\ models' = [i \in 1 .. Levels |-> Passed(c, i)]
  /\ interface_' = ~Takes(c, Levels + 1)
  /\ typed' = Append(typed, c)

(* get_prediction answers from the first level that is not at an interface, *)
(* or from the highest.                                                     *)
Answering ==
  CHOOSE i \in 1 .. Levels :
    /\ i = Levels \/ ~models[i].detected_interface
    /\ \A n \in 1 .. i - 1 : models[n].detected_interface

get_prediction == models[Answering].prediction

Init ==
  /\ models \in [1 .. Levels -> NewModels]
  /\ interface_ \in BOOLEAN
  /\ typed = <<>>

Next == \E c \in Characters : Putc(c)

Spec == Init /\ [][Next]_vars

-----------------------------------------------------------------------------
(* What the text makes of it: a text is read into its letters, as words of *)
(* one character, the words that stand between its delimiters and the word *)
(* under way, which a backspace takes back by a character and no further.  *)
Read(t, c) ==
  CASE c = EndOfStream -> t
    [] c = Backspace -> [t EXCEPT !.word = IF @ = <<>> THEN @ ELSE Front(@)]
    [] <<c>> \in Delimiters ->
         [letters |-> Append(t.letters, <<c>>),
          words |-> IF t.word = <<>> THEN t.words ELSE Append(t.words, t.word),
          word |-> <<>>]
    [] OTHER -> [t EXCEPT !.letters = Append(@, <<c>>), !.word = Append(@, c)]

TextRead(text) ==
  FoldLeft(Read, [letters |-> <<>>, words |-> <<>>, word |-> <<>>], text)

(* The words each level should have learnt. *)
Learnt(i) == IF i = 1 THEN TextRead(typed).letters ELSE TextRead(typed).words

(* How often b follows a in a sequence of words that begins with <<>>. *)
Follows(ws, a, b) ==
  LET s == <<(<<>>)>> \o ws
  IN Cardinality({n \in 1 .. Len(s) - 1 : s[n] = a /\ s[n + 1] = b})

(* The lowest level has learnt every character, and each higher one every  *)
(* whole word of the text, in order, backspaces undone and the word under  *)
(* way left out: each word and each pair of words is counted as often as   *)
(* it stands there, whatever the levels answered to each other on the way. *)
LearnsTheText ==
  \A i \in 1 .. Levels :
    LET p == models[i].parser
        ws == Learnt(i)
    IN /\ ToSet(p.words) = {<<>>} \cup ToSet(ws)
       /\ \A a, b \in ToSet(p.words) : count(p, a, b) = Follows(ws, a, b)
       /\ \A a \in DOMAIN p.words :
            p.counts[a] = Cardinality({n \in DOMAIN ws : ws[n] = p.words[a]})
                            + (IF p.words[a] = <<>> THEN 1 ELSE 0)
       /\ models[i].input = IF i = 1 THEN <<>> ELSE TextRead(typed).word

(* What is predicted followed the last word, or within a word the last     *)
(* character, as often as any other did; the empty word only when nothing  *)
(* ever followed.                                                          *)
PredictsTheMostFrequent ==
  LET letters == Learnt(1)
      inWord == letters # <<>> /\ Last(letters) \notin Delimiters
      ws == IF inWord \/ Levels = 1 THEN Learnt(1) ELSE Learnt(2)
      Times(w) == Follows(ws, Last(ws), w)
  IN IF ws = <<>> THEN get_prediction = <<>>
     ELSE /\ \A w \in ToSet(ws) : Times(w) <= Times(get_prediction)
          /\ Times(get_prediction) = 0 => get_prediction = <<>>
          /\ models[Answering].weight = Times(get_prediction)

(* The summary of a level names the words it met most often, in order, and *)
(* as many as it can (print_summary).                                      *)
SummaryNamesTheTop ==
  \A i \in 1 .. Levels :
    LET p == models[i].parser
        top == top_words(p)
        left == DOMAIN p.words \ ToSet(top)
    IN /\ IsInjective(top)
       /\ left = {} \/ Len(top) = top_word_number
       /\ \A m, n \in DOMAIN top : m < n => p.counts[top[m]] >= p.counts[top[n]]
       /\ \A n \in DOMAIN top, w \in left : p.counts[top[n]] >= p.counts[w]
=============================================================================
