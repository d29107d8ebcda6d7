---------------------------- MODULE ServiceClient ----------------------------
(***************************************************************************)
(* The terminal client: stdin_tcp.cpp's main thread reads the keyboard and *)
(* posts a packet for every word; a second thread runs the io_service, and *)
(* on it the handlers of ServiceClient (service_client.hpp).  A packet is  *)
(* seen as the number of its word.                                         *)
(***************************************************************************)
EXTENDS Connection

CONSTANT MaxWords   \* bound on the words typed

ASSUME WordsAssumption == MaxWords \in Nat

VARIABLES
  main,             \* of the main thread: "typing", "joining", then "ended"
  underWay,         \* whether a word has letters already (read_count > 0)
  words,            \* how many words were typed
  posted,           \* handlers the main thread has posted: a packet or Close
  running,          \* whether io_service.run() has not returned
  socket_,          \* "open" or "closed"
  connecting,       \* the asynchronous operations: "none", under way, done or
  reading,          \* "failed", the handler of which has yet to run
  writing,
  read_packet_,
  write_packets_,
  printed           \* history: the predictions output

keyboardVars == <<main, underWay, words>>
operationVars == <<socket_, connecting, reading, writing>>
packetVars == <<read_packet_, write_packets_, printed>>
clientVars ==
  <<keyboardVars, posted, running, operationVars, packetVars>>

Close == -1         \* among the posted handlers
Nothing == 0        \* in read_packet_

ClientInit ==
  /\ main = "typing" /\ underWay = FALSE /\ words = 0
  /\ posted = <<>> /\ running = TRUE
  /\ socket_ = "open" /\ connecting = "connecting"
  /\ reading = "none" /\ writing = "none"
  /\ read_packet_ = Nothing /\ write_packets_ = <<>> /\ printed = <<>>

-----------------------------------------------------------------------------
(* The main thread.  White space without a word does nothing; the word     *)
(* under way at the end of the input is dropped.                           *)
Letter ==
  /\ main = "typing" /\ words < MaxWords
  /\ underWay' = TRUE
  /\ UNCHANGED <<main, words, posted, running, operationVars, packetVars, connectionVars>>

Space ==
  /\ main = "typing" /\ underWay
  /\ underWay' = FALSE
  /\ words' = words + 1
  /\ posted' = Append(posted, words + 1)
  /\ UNCHANGED <<main, running, operationVars, packetVars, connectionVars>>

EndOfInput ==
  /\ main = "typing"
  /\ main' = "joining"
  /\ posted' = Append(posted, Close)
  /\ UNCHANGED <<underWay, words, running, operationVars, packetVars, connectionVars>>

Join ==
  /\ main = "joining" /\ ~running
  /\ main' = "ended"
  /\ UNCHANGED <<underWay, words, posted, running, operationVars, packetVars, connectionVars>>

-----------------------------------------------------------------------------
(* What becomes of the operations.  One started before the connection is   *)
(* made waits for it; one started on a closed socket fails.                *)
Started(operation) == IF socket_ = "open" THEN operation ELSE "failed"

Connect ==
  /\ connecting = "connecting"
  /\ \/ Established /\ connecting' = "connected"
     \/ Refused /\ connecting' = "failed"
  /\ UNCHANGED <<keyboardVars, posted, running, socket_, reading, writing, packetVars>>

Write ==
  /\ writing = "writing" /\ link = "up"
  /\ toServer' = Append(toServer, Head(write_packets_))
  /\ writing' = "written"
  /\ UNCHANGED <<keyboardVars, posted, running, socket_, connecting, reading, packetVars,
                 link, toClient>>

Read ==
  /\ toClient # <<>>
  /\ \/ /\ reading = "header"
        /\ reading' = "headerRead"
        /\ UNCHANGED <<toClient, read_packet_>>
     \/ /\ reading = "body"
        /\ reading' = "bodyRead"
        /\ read_packet_' = Head(toClient)
        /\ toClient' = Tail(toClient)
  /\ UNCHANGED <<keyboardVars, posted, running, socket_, connecting, writing,
                 write_packets_, printed, link, toServer>>

Fail ==
  /\ link = "down"
  /\ \/ reading \in {"header", "body"} /\ reading' = "failed" /\ UNCHANGED writing
     \/ writing = "writing" /\ writing' = "failed" /\ UNCHANGED reading
  /\ UNCHANGED <<keyboardVars, posted, running, socket_, connecting, packetVars,
                 connectionVars>>

-----------------------------------------------------------------------------
(* The handlers, run one at a time by the other thread.  Closing the       *)
(* socket aborts the operations under way.                                 *)
Aborted(operation) ==
  IF operation \in {"connecting", "header", "body", "writing"} THEN "failed"
                                                              ELSE operation
CloseSocket ==
  /\ socket_' = "closed"
  /\ connecting' = Aborted(connecting)
  /\ reading' = Aborted(reading)
  /\ writing' = Aborted(writing)

(* close.  The mutant does not close under words that are still queued. *)
HandlePostedCloseIfSent ==
  /\ running /\ posted # <<>> /\ Head(posted) = Close
  /\ IF write_packets_ = <<>> THEN CloseSocket ELSE UNCHANGED operationVars
  /\ posted' = Tail(posted)
  /\ UNCHANGED <<keyboardVars, running, packetVars, connectionVars>>

HandlePostedClose ==
  /\ running /\ posted # <<>> /\ Head(posted) = Close
  /\ CloseSocket
  /\ posted' = Tail(posted)
  /\ UNCHANGED <<keyboardVars, running, packetVars, connectionVars>>

(* write: the queue is not empty while its front is being written.  The    *)
(* mutant starts a write whatever is under way.                            *)
HandlePostedWriteAtOnce ==
  /\ running /\ posted # <<>> /\ Head(posted) # Close
  /\ write_packets_' = Append(write_packets_, Head(posted))
  /\ writing' = Started("writing")
  /\ posted' = Tail(posted)
  /\ UNCHANGED <<keyboardVars, running, socket_, connecting, reading, read_packet_,
                 printed, connectionVars>>

HandlePostedWrite ==
  /\ running /\ posted # <<>> /\ Head(posted) # Close
  /\ write_packets_' = Append(write_packets_, Head(posted))
  /\ writing' = IF write_packets_ = <<>> THEN Started("writing") ELSE writing
  /\ posted' = Tail(posted)
  /\ UNCHANGED <<keyboardVars, running, socket_, connecting, reading, read_packet_,
                 printed, connectionVars>>

HandleConnect ==
  /\ running
  /\ \/ connecting = "connected" /\ reading' = Started("header")
     \/ connecting = "failed" /\ UNCHANGED reading
  /\ connecting' = "none"
  /\ UNCHANGED <<keyboardVars, posted, running, socket_, writing, packetVars,
                 connectionVars>>

(* In the mutant what is left of the queue waits for the next word. *)
HandleWrittenOne ==
  /\ running /\ writing = "written"
  /\ write_packets_' = Tail(write_packets_)
  /\ writing' = "none"
  /\ UNCHANGED <<keyboardVars, posted, running, socket_, connecting, reading,
                 read_packet_, printed, connectionVars>>

HandleWritten ==
  /\ running /\ writing = "written"
  /\ write_packets_' = Tail(write_packets_)
  /\ writing' = IF Len(write_packets_) > 1 THEN Started("writing") ELSE "none"
  /\ UNCHANGED <<keyboardVars, posted, running, socket_, connecting, reading,
                 read_packet_, printed, connectionVars>>

(* A packet that could not be written stays in the queue, before all that  *)
(* come after it.                                                          *)
HandleWriteFailed ==
  /\ running /\ writing = "failed"
  /\ socket_' = "closed"
  /\ connecting' = Aborted(connecting)
  /\ reading' = Aborted(reading)
  /\ writing' = "none"
  /\ UNCHANGED <<keyboardVars, posted, running, packetVars, connectionVars>>

HandleRead ==
  /\ running
  /\ \/ /\ reading = "headerRead"
        /\ reading' = Started("body")
        /\ UNCHANGED printed
     \/ /\ reading = "bodyRead"
        /\ printed' = Append(printed, read_packet_)
        /\ reading' = Started("header")
  /\ read_packet_' = IF reading = "bodyRead" THEN Nothing ELSE read_packet_
  /\ UNCHANGED <<keyboardVars, posted, running, socket_, connecting, writing,
                 write_packets_, connectionVars>>

HandleReadFailed ==
  /\ running /\ reading = "failed"
  /\ socket_' = "closed"
  /\ connecting' = Aborted(connecting)
  /\ writing' = Aborted(writing)
  /\ reading' = "none"
  /\ UNCHANGED <<keyboardVars, posted, running, packetVars, connectionVars>>

(* run() returns when there is nothing left to do; what is posted later is *)
(* never done.                                                             *)
RunReturns ==
  /\ running
  /\ posted = <<>>
  /\ connecting = "none" /\ reading = "none" /\ writing = "none"
  /\ running' = FALSE
  /\ UNCHANGED <<keyboardVars, posted, operationVars, packetVars, connectionVars>>

Handler ==
  \/ HandlePostedClose \/ HandlePostedWrite
  \/ HandleConnect
  \/ HandleWritten \/ HandleWriteFailed
  \/ HandleRead \/ HandleReadFailed

ClientNext ==
  \/ Letter \/ Space \/ EndOfInput \/ Join
  \/ Connect \/ Write \/ Read \/ Fail
  \/ Handler \/ RunReturns
=============================================================================
