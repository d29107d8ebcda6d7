-------------------------- MODULE MCBoundedCTModel --------------------------
(* Three characters, words of one character as the server feeds them, a     *)
(* tree that splits at two children and a pool that is flushed at the      *)
(* fourth unreleased prediction.                                           *)
EXTENDS LossHistory, TLC

CONSTANTS a, b, c, interface_token

MCChars == {a, b, c}
MCInterfaceToken == <<interface_token>>
MCUninitIds == {1, MaxContexts + 1}
MCCallerIds == {MaxContexts + 1}

CharSymmetry == Permutations(MCChars)

(* Bound: words of positive loss, two behind the third mistake, none       *)
(* behind the fourth.                                                      *)
Explored ==
  Cardinality({w \in DOMAIN root_weights \ {1} : root_weights[w] > 0})
    <= 2 * (MaxMistakes - mistakes)
=============================================================================
