--------------------------- MODULE MCModelServer ---------------------------
(* Every kind of request, of bodies of zero to two cells, and three   *)
(* kinds of header that do not announce their body.                        *)
EXTENDS ModelServer, TLC

CONSTANTS c1, c2

MCClients == {c1, c2}

Text(n) == [i \in 1 .. n |-> [text |-> i]]

Request(type, n) ==
  [type |-> type, body |-> Text(n),
   header |-> [length |-> n, type |-> type]]

MCRequests ==
  {Request("PREDICT", 1), Request("TRAIN", 0), Request("SUMMARY", 0),
   Request("PREDICTION", 0), Request("PREDICT", MaxBody + 1),
   [Request("PREDICT", 1) EXCEPT !.header = Garbled],
   [Request("PREDICT", 1) EXCEPT !.header = [length |-> 1]]}

ClientSymmetry == Permutations(MCClients)
=============================================================================
