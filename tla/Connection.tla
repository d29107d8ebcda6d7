----------------------------- MODULE Connection -----------------------------
(***************************************************************************)
(* The TCP connection between a client and a server, as both see it: what  *)
(* was sent arrives in order, until the connection is lost and the end of  *)
(* what was under way with it.                                             *)
(***************************************************************************)
EXTENDS Integers, Sequences

VARIABLES
  link,             \* "connecting", "up" or "down"
  toServer,         \* packets under way
  toClient

connectionVars == <<link, toServer, toClient>>

Established == link = "connecting" /\ link' = "up" /\ UNCHANGED <<toServer, toClient>>

Refused == link = "connecting" /\ link' = "down" /\ UNCHANGED <<toServer, toClient>>

Lost ==
  /\ link = "up"
  /\ link' = "down"
  /\ \E m \in 0 .. Len(toServer), n \in 0 .. Len(toClient) :
       /\ toServer' = SubSeq(toServer, 1, m)
       /\ toClient' = SubSeq(toClient, 1, n)
=============================================================================
