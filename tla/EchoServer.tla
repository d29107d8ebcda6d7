----------------------------- MODULE EchoServer -----------------------------
(***************************************************************************)
(* The echo server (echo_server.cpp): every packet read goes back.  It     *)
(* accepts on the one socket it has: after the first connection, which it  *)
(* never closes, every accept fails at once and is started again, so that  *)
(* it serves one client and the steps of accepting change nothing.         *)
(***************************************************************************)
EXTENDS Connection

VARIABLES
  accepted,         \* whether the socket has its connection
  receiving,        \* the read under way: "none", "header" or "body"
  echo_packets_,    \* write_packets_ of the server
  echoing           \* whether a write is under way

serverVars == <<accepted, receiving, echo_packets_, echoing>>

ServerInit ==
  accepted = FALSE /\ receiving = "none" /\ echo_packets_ = <<>> /\ echoing = FALSE

Accept ==
  /\ link = "up" /\ ~accepted
  /\ accepted' = TRUE
  /\ receiving' = "header"
  /\ UNCHANGED <<echo_packets_, echoing, connectionVars>>

ReceiveHeader ==
  /\ receiving = "header" /\ toServer # <<>>
  /\ receiving' = "body"
  /\ UNCHANGED <<accepted, echo_packets_, echoing, connectionVars>>

(* deliver_packet and do_read_header. *)
ReceiveBody ==
  /\ receiving = "body" /\ toServer # <<>>
  /\ toServer' = Tail(toServer)
  /\ echo_packets_' = Append(echo_packets_, Head(toServer))
  /\ echoing' = (echoing \/ echo_packets_ = <<>>)
  /\ receiving' = "header"
  /\ UNCHANGED <<accepted, link, toClient>>

Echo ==
  /\ echoing /\ link = "up"
  /\ toClient' = Append(toClient, Head(echo_packets_))
  /\ echo_packets_' = Tail(echo_packets_)
  /\ echoing' = (Len(echo_packets_) > 1)
  /\ UNCHANGED <<accepted, receiving, link, toServer>>

(* After an error reading, or writing, ends; nothing is closed. *)
ServerError ==
  /\ link = "down"
  /\ \/ receiving # "none" /\ receiving' = "none" /\ UNCHANGED echoing
     \/ echoing /\ echoing' = FALSE /\ UNCHANGED receiving
  /\ UNCHANGED <<accepted, echo_packets_, connectionVars>>

ServerNext == Accept \/ ReceiveHeader \/ ReceiveBody \/ Echo \/ ServerError
=============================================================================
