---------------------------- MODULE EchoSession ----------------------------
(***************************************************************************)
(* The terminal client and the echo server it talks to.                    *)
(***************************************************************************)
EXTENDS ServiceClient, EchoServer

vars == <<clientVars, serverVars, connectionVars>>

Init ==
  /\ ClientInit /\ ServerInit
  /\ link = "connecting" /\ toServer = <<>> /\ toClient = <<>>

Next ==
  \/ ClientNext /\ UNCHANGED serverVars
  \/ ServerNext /\ UNCHANGED clientVars
  \/ Lost /\ UNCHANGED <<clientVars, serverVars>>

(* The operating system completes what it can, and the threads of both run *)
(* what is ready.  The user need not type, and nothing need fail.          *)
Fairness ==
  /\ WF_vars(Connect /\ UNCHANGED serverVars)
  /\ WF_vars(Write /\ UNCHANGED serverVars)
  /\ WF_vars(Read /\ UNCHANGED serverVars)
  /\ WF_vars(Fail /\ UNCHANGED serverVars)
  /\ WF_vars(HandlePostedClose /\ UNCHANGED serverVars)
  /\ WF_vars(HandlePostedWrite /\ UNCHANGED serverVars)
  /\ WF_vars(HandleConnect /\ UNCHANGED serverVars)
  /\ WF_vars(HandleWritten /\ UNCHANGED serverVars)
  /\ WF_vars(HandleWriteFailed /\ UNCHANGED serverVars)
  /\ WF_vars(HandleRead /\ UNCHANGED serverVars)
  /\ WF_vars(HandleReadFailed /\ UNCHANGED serverVars)
  /\ WF_vars(RunReturns /\ UNCHANGED serverVars)
  /\ WF_vars(Join /\ UNCHANGED serverVars)
  /\ WF_vars(Accept /\ UNCHANGED clientVars)
  /\ WF_vars(ReceiveHeader /\ UNCHANGED clientVars)
  /\ WF_vars(ReceiveBody /\ UNCHANGED clientVars)
  /\ WF_vars(Echo /\ UNCHANGED clientVars)

Spec == Init /\ [][Next]_vars /\ Fairness

-----------------------------------------------------------------------------
(* While nothing has failed every word typed is in one place on its way to *)
(* the server and back, in the order they were typed: the handlers the     *)
(* main thread posts, the two queues and the packets being read and        *)
(* written lose, double and overtake nothing.                              *)
Unwritten == IF writing = "written" THEN Tail(write_packets_) ELSE write_packets_
PostedWords ==    \* Close is posted last
  IF posted # <<>> /\ posted[Len(posted)] = Close
    THEN SubSeq(posted, 1, Len(posted) - 1) ELSE posted
Arrived == IF read_packet_ = Nothing THEN <<>> ELSE <<read_packet_>>

EveryWordOnItsWay ==
  link # "down" /\ socket_ = "open" =>
    printed \o Arrived \o toClient \o echo_packets_ \o toServer \o Unwritten
      \o PostedWords = [n \in 1 .. words |-> n]

(* Every word is answered, typed before the connection was made or after,  *)
(* unless the connection or the input ends first.                          *)
WordsAnswered ==
  \A n \in 1 .. MaxWords :
    words >= n ~> Len(printed) >= n \/ link = "down" \/ main # "typing"

(* At the end of the input the program ends, whatever is still connecting, *)
(* being read or being written.                                            *)
EndsAfterInput == main = "joining" ~> main = "ended"

(* "An async io package that sends stdin to a server": when the program    *)
(* has ended over a connection that never failed, no word waits to be      *)
(* sent.  The code closes the socket under the words still queued, and     *)
(* under the connect if the input ends before it is through.               *)
StdinIsSent ==
  main = "ended" /\ link # "down" => Unwritten = <<>> /\ PostedWords = <<>>
=============================================================================
