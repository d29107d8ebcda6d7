--------------------------- MODULE MCNodeAdaptor ---------------------------
(* Two browsers that ask for strings on both sides of the boundaries of    *)
(* encode_packet: lengths of one and two digits, and one that leaves a     *)
(* byte of the header unwritten.                                           *)
EXTENDS NodeAdaptor

CONSTANTS c1, c2

MCClients == {c1, c2}

MCAsks ==
  [type : {"PREDICT"}, size : {2, 10, 20}] \cup
  [type : {"TRAIN", "SUMMARY"}, size : {1}]

MCJunk == {0, Blank, Other}
=============================================================================
