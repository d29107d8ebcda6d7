---------------------------- MODULE ModelServer ----------------------------
(***************************************************************************)
(* The model server, src/model_server.hpp and src/model_server.cpp: a      *)
(* dispatcher that accepts connections and, for each of them, a session    *)
(* that reads request packets, hands them to a word model of its own and   *)
(* writes the replies.  Everything runs as completion handlers of one      *)
(* io_service in one thread: an action is one handler, run to its end.     *)
(*                                                                         *)
(* A session holds an asynchronous read (of a header, or of the body that  *)
(* the header announced) and, while it has replies to send, an asynchronous*)
(* write of the oldest one; each of them keeps the session alive.          *)
(*                                                                         *)
(* The byte stream is a sequence of cells of Packet::header_length bytes:  *)
(* a header cell, then the cells of the body.  A cell that is not a header *)
(* where one is expected is what decode_header finds no number in.  The    *)
(* word model (BoundedCTModel and ModelMultiplexer) is seen here only      *)
(* through the number of packets that it makes of a request.               *)
(***************************************************************************)
EXTENDS Integers, Sequences, SequencesExt, FiniteSetsExt

CONSTANTS
  Clients,
  Requests,        \* what a client may send: [type, body, header]
  MaxBody,         \* Packet::max_body_length, in cells
  MaxParts,        \* bound: packets in a summary
  MaxRequests      \* bound: requests of all clients together

ASSUME BoundsAssumption == MaxBody \in Nat /\ MaxParts \in Nat /\ MaxRequests \in Nat

Types == {"TRAIN", "PREDICT", "PREDICTION", "SUMMARY"}

(* What sscanf finds in a cell: a length and a type, a length only, or     *)
(* neither.  A well-formed header tells the truth about its body; a        *)
(* garbled one reads like text.                                            *)
Headers == [length : Nat, type : Types]
LengthCells == [length : Nat]
TextCells == [text : Nat]
Garbled == [text |-> 0]
NetCells == Headers \cup LengthCells \cup TextCells

ASSUME RequestsAssumption ==
  \A r \in Requests :
    /\ r.type \in Types
    /\ r.body \in Seq(TextCells)
    /\ r.header \in Headers \cup LengthCells \cup {Garbled}

WellFormed(r) ==
  /\ r.header = [length |-> Len(r.body), type |-> r.type]
  /\ Len(r.body) <= MaxBody

Cells(r) == <<r.header>> \o r.body

VARIABLES
  conn,           \* client -> "away", "open" or "closed", as the client sees it
  backlog,        \* connections the listening socket holds, oldest first
  accepting,      \* an async_accept is outstanding
  reading,        \* session -> its outstanding read; "none": no session yet
  read_packet,    \* session -> length and type of the last header
  net_in,         \* session -> cells that arrived and were not read
  write_packets,  \* session -> replies to write, the one in flight included
  writes,         \* session -> packets of the outstanding async_writes
  received,       \* client -> replies that reached it
  sent,           \* history: client -> its requests
  processed,      \* history: session -> the requests it processed
  answers         \* history: session -> the replies it made

sessionVars == <<reading, read_packet, net_in, write_packets, writes,
                 received, processed, answers>>

vars == <<conn, backlog, accepting, sent, sessionVars>>

Init ==
  /\ conn = [c \in Clients |-> "away"]
  /\ backlog = << >>
  /\ accepting = TRUE
  /\ reading = [c \in Clients |-> "none"]
  /\ read_packet = [c \in Clients |-> [length |-> 0, type |-> "TRAIN"]]
  /\ net_in = [c \in Clients |-> << >>]
  /\ write_packets = [c \in Clients |-> << >>]
  /\ writes = [c \in Clients |-> << >>]
  /\ received = [c \in Clients |-> << >>]
  /\ sent = [c \in Clients |-> << >>]
  /\ processed = [c \in Clients |-> << >>]
  /\ answers = [c \in Clients |-> << >>]

(***************************************************************************)
(* The clients and the network.                                            *)
(***************************************************************************)
Connect(c) ==
  /\ conn[c] = "away"
  /\ conn' = [conn EXCEPT ![c] = "open"]
  /\ backlog' = Append(backlog, c)
  /\ UNCHANGED <<accepting, sent, sessionVars>>

Send(c, r) ==
  /\ conn[c] = "open"
  /\ MapThenSumSet(LAMBDA d : Len(sent[d]), Clients) < MaxRequests
  /\ sent' = [sent EXCEPT ![c] = Append(@, r)]
  /\ net_in' = [net_in EXCEPT ![c] = @ \o Cells(r)]
  /\ UNCHANGED <<conn, backlog, accepting, reading, read_packet,
                 write_packets, writes, received, processed, answers>>

(* The connection ends; what has not been read arrives up to some point. *)
Disconnect(c, n) ==
  /\ conn[c] = "open"
  /\ conn' = [conn EXCEPT ![c] = "closed"]
  /\ net_in' = [net_in EXCEPT ![c] = SubSeq(@, 1, n)]
  /\ UNCHANGED <<backlog, accepting, sent, reading, read_packet,
                 write_packets, writes, received, processed, answers>>

(***************************************************************************)
(* ModelDispatcher::process_connect: a session for the oldest connection,  *)
(* whose start() reads a header, and the next accept.                      *)
(***************************************************************************)
AcceptOnce ==    \* mutant: no accept after the first
  /\ accepting
  /\ backlog # << >>
  /\ backlog' = Tail(backlog)
  /\ reading' = [reading EXCEPT ![Head(backlog)] = "header"]
  /\ accepting' = FALSE
  /\ UNCHANGED <<conn, sent, read_packet, net_in, write_packets, writes,
                 received, processed, answers>>

Accept ==
  /\ accepting
  /\ backlog # << >>
  /\ backlog' = Tail(backlog)
  /\ reading' = [reading EXCEPT ![Head(backlog)] = "header"]
  /\ accepting' = TRUE
  /\ UNCHANGED <<conn, sent, read_packet, net_in, write_packets, writes,
                 received, processed, answers>>

(***************************************************************************)
(* Packet::decode_header.  sscanf leaves alone what it finds no number     *)
(* for: the length or type of the packet before stays.  A length above the *)
(* limit is reset and the header rejected.                                 *)
(***************************************************************************)
Scanned(old, cell) ==
  [length |-> IF cell \in TextCells THEN old.length ELSE cell.length,
   type   |-> IF cell \in Headers THEN cell.type ELSE old.type]

Accepted(old, cell) == Scanned(old, cell).length <= MaxBody

DecodedTooLong(old, cell) == Scanned(old, cell)    \* mutant: no reset

Decoded(old, cell) ==
  [Scanned(old, cell) EXCEPT !.length = IF Accepted(old, cell) THEN @ ELSE 0]

(* The handler of read_header: a header that decodes is followed by its    *)
(* body, any other by another header.                                      *)
HeaderRead(c) ==
  /\ reading[c] = "header"
  /\ net_in[c] # << >>
  /\ net_in' = [net_in EXCEPT ![c] = Tail(@)]
  /\ read_packet' = [read_packet EXCEPT ![c] = Decoded(@, Head(net_in[c]))]
  /\ reading' = [reading EXCEPT ![c] =
                   IF Accepted(read_packet[c], Head(net_in[c]))
                     THEN "body" ELSE "header"]
  /\ UNCHANGED <<conn, backlog, accepting, sent, write_packets, writes,
                 received, processed, answers>>

(* End of file: the handler reads a header again. *)
HeaderFailed(c) ==
  /\ reading[c] = "header"
  /\ conn[c] = "closed"
  /\ net_in[c] = << >>
  /\ UNCHANGED vars

(***************************************************************************)
(* process_packet: how many packets may answer a request of a type.  An    *)
(* empty prediction is not sent; a summary takes at least one packet.      *)
(***************************************************************************)
ReplySizes(type) ==
  CASE type = "TRAIN"      -> {1}
    [] type = "PREDICT"    -> {0, 1}
    [] type = "SUMMARY"    -> 1 .. MaxParts
    [] type = "PREDICTION" -> {0}

(* A write of the oldest reply, started by the reply that finds the queue  *)
(* empty.  The mutant forgets b_writing.                                   *)
StartedAlways(queue, ops, new) ==
  IF new # << >> THEN Append(ops, Head(queue \o new)) ELSE ops

Started(queue, ops, new) ==
  IF queue = << >> /\ new # << >> THEN Append(ops, Head(new)) ELSE ops

(* send_prediction, train, send_summary: n replies to a request. *)
Replies(c, n) ==
  [i \in 1 .. n |-> [request |-> Len(processed[c]) + 1, part |-> i]]

Reply(c, n) ==
  /\ write_packets' = [write_packets EXCEPT ![c] = @ \o Replies(c, n)]
  /\ writes' = [writes EXCEPT ![c] =
                   Started(write_packets[c], @, Replies(c, n))]
  /\ answers' = [answers EXCEPT ![c] = @ \o Replies(c, n)]

(* The handler of read_body. *)
BodyRead(c) ==
  LET n == read_packet[c].length
      type == read_packet[c].type
  IN /\ reading[c] = "body"
     /\ Len(net_in[c]) >= n
     /\ net_in' = [net_in EXCEPT ![c] = SubSeq(@, n + 1, Len(@))]
     /\ processed' = [processed EXCEPT ![c] =
          Append(@, [type |-> type, body |-> SubSeq(net_in[c], 1, n)])]
     /\ \E k \in ReplySizes(type) : Reply(c, k)
     /\ reading' = [reading EXCEPT ![c] = "header"]
     /\ UNCHANGED <<conn, backlog, accepting, sent, read_packet, received>>

(* The connection ended within a body: nothing is processed.  The mutant   *)
(* does not look at the error code.                                        *)
BodyFailedUnseen(c) ==
  /\ reading[c] = "body"
  /\ conn[c] = "closed"
  /\ Len(net_in[c]) < read_packet[c].length
  /\ net_in' = [net_in EXCEPT ![c] = << >>]
  /\ processed' = [processed EXCEPT ![c] =
       Append(@, [type |-> read_packet[c].type, body |-> net_in[c]])]
  /\ reading' = [reading EXCEPT ![c] = "header"]
  /\ UNCHANGED <<conn, backlog, accepting, sent, read_packet, write_packets,
                 writes, received, answers>>

BodyFailed(c) ==
  /\ reading[c] = "body"
  /\ conn[c] = "closed"
  /\ Len(net_in[c]) < read_packet[c].length
  /\ net_in' = [net_in EXCEPT ![c] = << >>]
  /\ reading' = [reading EXCEPT ![c] = "header"]
  /\ UNCHANGED <<conn, backlog, accepting, sent, read_packet, write_packets,
                 writes, received, processed, answers>>

(***************************************************************************)
(* The handler of write.  The bytes written after the client is gone reach *)
(* nobody.                                                                 *)
(***************************************************************************)
NextWriteBeforePop(queue, ops) ==    \* mutant of NextWrite: write(); pop_front()
  IF Tail(queue) # << >> THEN Append(Tail(ops), Head(queue))
  ELSE Tail(ops)

NextWriteMissing(queue, ops) == Tail(ops)    \* mutant: no write() in the handler

NextWrite(queue, ops) ==
  IF Tail(queue) # << >> THEN Append(Tail(ops), Head(Tail(queue)))
  ELSE Tail(ops)

WriteDone(c) ==
  /\ writes[c] # << >>
  /\ received' = [received EXCEPT ![c] =
                    IF conn[c] # "closed" THEN Append(@, Head(writes[c])) ELSE @]
  /\ write_packets' = [write_packets EXCEPT ![c] = Tail(@)]
  /\ writes' = [writes EXCEPT ![c] = NextWrite(write_packets[c], @)]
  /\ UNCHANGED <<conn, backlog, accepting, sent, reading, read_packet, net_in,
                 processed, answers>>

(* A write that fails leaves its packet at the front of the queue, and     *)
(* nothing writes again.                                                   *)
WriteFailed(c) ==
  /\ writes[c] # << >>
  /\ conn[c] = "closed"
  /\ writes' = [writes EXCEPT ![c] = Tail(@)]
  /\ UNCHANGED <<conn, backlog, accepting, sent, reading, read_packet, net_in,
                 write_packets, received, processed, answers>>

Handler(c) ==
  \/ HeaderRead(c)
  \/ BodyRead(c)
  \/ BodyFailed(c)

WriteHandler(c) == WriteDone(c) \/ WriteFailed(c)

Next ==
  \/ Accept
  \/ \E c \in Clients :
       \/ Connect(c)
       \/ \E r \in Requests : Send(c, r)
       \/ \E n \in 0 .. Len(net_in[c]) : Disconnect(c, n)
       \/ Handler(c)
       \/ HeaderFailed(c)
       \/ WriteHandler(c)

(* io_service.run calls every handler whose operation completed. *)
Fairness ==
  /\ WF_vars(Accept)
  /\ \A c \in Clients : WF_vars(Handler(c)) /\ WF_vars(WriteHandler(c))

Spec == Init /\ [][Next]_vars

FairSpec == Spec /\ Fairness

(***************************************************************************)
(* Properties.                                                             *)
(***************************************************************************)
Packets == [request : Nat \ {0}, part : Nat \ {0}]

TypeOK ==
  /\ conn \in [Clients -> {"away", "open", "closed"}]
  /\ backlog \in Seq(Clients)
  /\ accepting \in BOOLEAN
  /\ reading \in [Clients -> {"none", "header", "body"}]
  /\ read_packet \in [Clients -> [length : 0 .. MaxBody, type : Types]]
  /\ net_in \in [Clients -> Seq(NetCells)]
  /\ write_packets \in [Clients -> Seq(Packets)]
  /\ writes \in [Clients -> Seq(Packets)]
  /\ received \in [Clients -> Seq(Packets)]
  /\ answers \in [Clients -> Seq(Packets)]
  /\ sent \in [Clients -> Seq(Requests)]
  /\ processed \in [Clients -> Seq([type : Types, body : Seq(NetCells)])]

(* One write at a time, of the oldest reply: two would mix their bytes on  *)
(* the socket, none with replies waiting would leave them there for good,  *)
(* and a write of a packet no longer at the front would read freed memory. *)
(* Only a client that is gone stops the writes.                            *)
OneWriteAtFront ==
  \A c \in Clients :
    \/ writes[c] = << >> /\ (write_packets[c] = << >> \/ conn[c] = "closed")
    \/ write_packets[c] # << >> /\ writes[c] = <<Head(write_packets[c])>>

(* The client gets the replies in the order they were made, none twice and *)
(* none left out as long as it stays connected, however requests arrive    *)
(* while replies are being written.                                        *)
RepliesInOrder ==
  \A c \in Clients :
    /\ IsPrefix(received[c], answers[c])
    /\ conn[c] # "closed" => received[c] \o write_packets[c] = answers[c]

(* A client that sends only well-formed packets has them processed as it   *)
(* sent them, one by one and in order: header and body stay in step on the *)
(* stream, whatever is cut off when the connection ends and whatever the   *)
(* other clients send.                                                     *)
RequestsInOrder ==
  \A c \in Clients :
    (\A i \in DOMAIN sent[c] : WellFormed(sent[c][i])) =>
      /\ Len(processed[c]) <= Len(sent[c])
      /\ \A i \in DOMAIN processed[c] :
           /\ processed[c][i].type = sent[c][i].type
           /\ processed[c][i].body = sent[c][i].body

(* The dispatcher serves every client that connects, those that come while *)
(* others are being served included.                                       *)
EveryClientIsServed ==
  \A c \in Clients : conn[c] = "open" ~> reading[c] # "none"

(* A client that sends only well-formed packets and stays connected has    *)
(* all of them processed and gets all the replies.                         *)
Settled(c) ==
  /\ Len(processed[c]) = Len(sent[c])
  /\ received[c] = answers[c]

RequestsAreAnswered ==
  \A c \in Clients :
    conn[c] = "open" ~>
      \/ Settled(c)
      \/ conn[c] = "closed"
      \/ \E i \in DOMAIN sent[c] : ~WellFormed(sent[c][i])

(* "Model server done, bye bye!": the session of a client that is gone is  *)
(* destroyed, once no operation refers to it.  The read of a header is     *)
(* started again after every error, end of file included.                  *)
SessionsEnd ==
  \A c \in Clients :
    conn[c] = "closed" ~> (reading[c] = "none" /\ writes[c] = << >>)
=============================================================================
