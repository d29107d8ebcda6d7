----------------------------- MODULE MCSafeBTree -----------------------------
(* Two containers that start with any of two keys and change twice each,   *)
(* and two iterators.                                                      *)
EXTENDS SafeBTree

MCKeys == 1 .. 2
=============================================================================
