------------------------- MODULE MCModelMultiplexer -------------------------
(* Three levels and texts of seven characters: two letters, a space, the   *)
(* backspace and the end of stream.                                        *)
EXTENDS ModelMultiplexer

MCCharacters == {"a", "b", " ", "backspace", "end"}
MCDelimiters == {<<" ">>}
=============================================================================
