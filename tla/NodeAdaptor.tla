----------------------------- MODULE NodeAdaptor -----------------------------
(***************************************************************************)
(* The Node side of the model server: nodejs/socket_server.js gives every  *)
(* browser an adaptor (nodejs/model_adaptor.js) with a connection of its   *)
(* own to the model server, writes the browser's requests to it as packets *)
(* (nodejs/packet.js) and emits the packets that come back to the browser. *)
(* Composed with ModelServer, whose clients the adaptors are.              *)
(*                                                                         *)
(* Node runs every callback of every adaptor on one thread: a data event   *)
(* whose loop does not end stops them all.  A browser that leaves changes  *)
(* nothing here: close only lets the process end before the connection.    *)
(***************************************************************************)
EXTENDS ModelServer

CONSTANTS
  Asks,            \* what a browser may ask: [type, size], the size in bytes
  Junk             \* what a byte of a fresh Buffer may hold

Digits == 0 .. 9
Blank == 10        \* a byte that is white space, which sscanf skips
Other == 11        \* one that is neither white space nor a digit

ASSUME AsksAssumption == Asks \subseteq [type : Types, size : Nat \ {0}]

ASSUME JunkAssumption == Junk \subseteq Digits \cup {Blank, Other}

VARIABLES
  taken,           \* adaptor -> cells of replies that data events have held
  told,            \* browser -> what was emitted to it
  split,           \* history: some data event ended within a packet
  hung             \* a data event's loop goes round for ever

adaptorVars == <<taken, told, split, hung>>
nodeVars == <<vars, adaptorVars>>

NodeInit ==
  /\ Init
  /\ taken = [c \in Clients |-> 0]
  /\ told = [c \in Clients |-> << >>]
  /\ split = FALSE
  /\ hung = FALSE

(***************************************************************************)
(* encode_packet: zeros while i < 3 - length / 10, the length, and the     *)
(* type at byte four.  The quotient is a fraction, so that a length of     *)
(* twenty or more leaves bytes before the type unwritten.                  *)
(***************************************************************************)
ZerosRoundedDown(n) ==    \* mutant: while i < 3 - Math.ceil(length / 10)
  IF n >= 30 THEN 0 ELSE (30 - n) \div 10

Zeros(n) == IF n >= 30 THEN 0 ELSE (39 - n) \div 10

Decimal(n) ==
  LET places == CHOOSE d \in 1 .. 4 : n < 10 ^ d /\ (d = 1 \/ n >= 10 ^ (d - 1))
  IN [i \in 1 .. places |-> (n \div 10 ^ (places - i)) % 10]

TypeCode == [TRAIN |-> 0, PREDICT |-> 1, PREDICTION |-> 2, SUMMARY |-> 3]

HeaderBytes(ask) ==
  LET start == [i \in 1 .. Zeros(ask.size) |-> 0] \o Decimal(ask.size)
  IN {start \o junk \o <<TypeCode[ask.type]>> :
        junk \in [1 .. 4 - Len(start) -> Junk]}

(***************************************************************************)
(* What sscanf of decode_header makes of five bytes: up to four digits are *)
(* the length, the next digit after white space is the type, and anything  *)
(* else ends the scan.  Cells stand for header_length bytes each.          *)
(***************************************************************************)
CellsOf(bytes) == IF bytes > 512 THEN MaxBody + 1 ELSE (bytes + 4) \div 5

(* process_packet does as little for a code that names no type as for a    *)
(* PREDICTION.                                                             *)
TypeFor(code) == IF code > 3 THEN 2 ELSE code

HeaderCell(bytes) ==
  LET run  == Max({d \in 0 .. 4 : \A i \in 1 .. d : bytes[i] \in Digits})
      size == FoldLeft(LAMBDA n, d : 10 * n + d, 0, SubSeq(bytes, 1, run))
      rest == SelectSeq(SubSeq(bytes, run + 1, 5), LAMBDA b : b # Blank)
      code == Head(rest)
  IN IF code = Other THEN [length |-> CellsOf(size)]
     ELSE [length |-> CellsOf(size),
           type |-> CHOOSE t \in Types : TypeCode[t] = TypeFor(code)]

Body(size) == [i \in 1 .. CellsOf(size) |-> Garbled]

Encoded(ask) ==
  {[type |-> ask.type, body |-> Body(ask.size), header |-> HeaderCell(bytes),
    size |-> ask.size] : bytes \in HeaderBytes(ask)}

AdaptorRequests == UNION {Encoded(ask) : ask \in Asks}

(* What the adaptors write is among what the server's clients may send. *)
ASSUME AdaptorsAssumption == AdaptorRequests \subseteq Requests

(***************************************************************************)
(* The browser's events predict, train and summary.  What is written       *)
(* before the connection is made Node keeps and sends then.                *)
(***************************************************************************)
Ask(c) ==
  /\ ~hung
  /\ \E ask \in Asks : \E r \in Encoded(ask) : Send(c, r)
  /\ UNCHANGED adaptorVars

AskEarly(c) ==
  /\ ~hung
  /\ conn[c] = "away"
  /\ MapThenSumSet(LAMBDA d : Len(sent[d]), Clients) < MaxRequests
  /\ \E ask \in Asks : \E r \in Encoded(ask) :
       sent' = [sent EXCEPT ![c] = Append(@, r)]
  /\ UNCHANGED <<conn, backlog, accepting, sessionVars, adaptorVars>>

Connected(c) ==
  /\ conn[c] = "away"
  /\ conn' = [conn EXCEPT ![c] = "open"]
  /\ backlog' = Append(backlog, c)
  /\ net_in' = [net_in EXCEPT ![c] =
       FlattenSeq([i \in DOMAIN sent[c] |-> Cells(sent[c][i])])]
  /\ UNCHANGED <<accepting, sent, reading, read_packet, write_packets, writes,
                 received, processed, answers, adaptorVars>>

Refused(c) ==
  /\ conn[c] = "away"
  /\ conn' = [conn EXCEPT ![c] = "closed"]
  /\ UNCHANGED <<backlog, accepting, sent, sessionVars, adaptorVars>>

(***************************************************************************)
(* The data event.  The replies are a stream of cells, a header and a body *)
(* each, of which an event holds the next few.  Its loop decodes a packet  *)
(* and goes on with what remains behind it.  A header whose body has not   *)
(* come gives an empty string; a body where a header should be gives a     *)
(* length that is not a number, and all of the data remains.  An event     *)
(* that ends within a cell is taken for one that ends with it.             *)
(***************************************************************************)
IsHeader(k) == k % 2 = 1

ReplyAt(c, k) == received[c][(k + 1) \div 2]

Endless == [event |-> "none"]

(* The event that the type of a packet is emitted as; the server answers a *)
(* PREDICT with a PREDICTION and the others with packets of their type.    *)
EventOf(c, reply) ==
  CASE processed[c][reply.request].type = "PREDICT" -> "prediction"
    [] processed[c][reply.request].type = "SUMMARY" -> "summary"
    [] processed[c][reply.request].type = "TRAIN"   -> "train"

Emitted(c, k, last) ==
  [event |-> EventOf(c, ReplyAt(c, k)), reply |-> ReplyAt(c, k),
   whole |-> k < last]

OnlyTheFirst(k, last) == last + 1    \* mutant: no loop over what remains

Remaining(k, last) == Min({k + 2, last + 1})

DecodedIn(c, first, last) ==
  LET from[k \in first .. last + 1] ==
        IF k > last THEN << >>
        ELSE IF ~IsHeader(k) THEN <<Endless>>
        ELSE <<Emitted(c, k, last)>> \o from[Remaining(k, last)]
  IN from[first]

(* A loop that does not end has emitted what it decoded before. *)
EmittedBy(decoded) ==
  IF Contains(decoded, Endless) THEN Front(decoded) ELSE decoded

DataEvent(c) ==
  /\ ~hung
  /\ \E last \in taken[c] + 1 .. 2 * Len(received[c]) :
       LET decoded == DecodedIn(c, taken[c] + 1, last)
       IN /\ taken' = [taken EXCEPT ![c] = last]
          /\ told' = [told EXCEPT ![c] = @ \o EmittedBy(decoded)]
          /\ split' = (split \/ IsHeader(last))
          /\ hung' = Contains(decoded, Endless)
  /\ UNCHANGED vars

Server ==
  /\ \/ Accept
     \/ \E c \in Clients :
          \/ \E n \in 0 .. Len(net_in[c]) : Disconnect(c, n)
          \/ Handler(c)
          \/ HeaderFailed(c)
          \/ WriteHandler(c)
  /\ UNCHANGED adaptorVars

NodeNext ==
  \/ Server
  \/ \E c \in Clients :
       \/ Connected(c)
       \/ Refused(c)
       \/ Ask(c)
       \/ AskEarly(c)
       \/ DataEvent(c)

(* Node's loop gives what arrived to a data event; the server's fairness   *)
(* is its own.                                                             *)
NodeSpec ==
  /\ NodeInit /\ [][NodeNext]_nodeVars
  /\ Fairness
  /\ \A c \in Clients : WF_nodeVars(DataEvent(c))

(***************************************************************************)
(* Properties.                                                             *)
(***************************************************************************)

(* As long as every data event of every adaptor ended where a packet ends, *)
(* each browser was told the replies to its requests whole, in their       *)
(* order, under their names and none twice, and no event goes on for ever: *)
(* the handler at model_adaptor.js:20 takes an event for whole packets.    *)
RepliesReachTheBrowser ==
  ~split =>
    /\ ~hung
    /\ \A c \in Clients :
         /\ Len(told[c]) <= Len(answers[c])
         /\ \A i \in DOMAIN told[c] :
              told[c][i] = [event |-> EventOf(c, answers[c][i]),
                            reply |-> answers[c][i], whole |-> TRUE]

(* A browser that asks for short strings only, before or after the         *)
(* connection is made, has all of its requests processed and is told every *)
(* reply, unless the connection ends or an event splits a packet.  From    *)
(* nineteen characters on, encode_packet (packet.js:19) leaves a byte of   *)
(* the header unwritten and the session may wait for a body for ever.      *)
ShortRequestsAreTold ==
  \A c \in Clients :
    conn[c] = "open" ~>
      \/ Len(processed[c]) = Len(sent[c]) /\ Len(told[c]) = Len(answers[c])
      \/ conn[c] = "closed"
      \/ split
      \/ \E i \in DOMAIN sent[c] : sent[c][i].size >= 20
=============================================================================
