-------------------------- MODULE ModelServer_proofs --------------------------
(***************************************************************************)
(* Theorems about the sessions of the model server, for any number of      *)
(* clients, any requests, well-formed or not, and any disconnections.      *)
(***************************************************************************)
EXTENDS ModelServer, TLAPS, SequenceTheorems

(***************************************************************************)
(* The queue of replies and the writes that drain it.                      *)
(***************************************************************************)

(* The outstanding writes of a queue are none if it is empty, and the one  *)
(* of its front if it is not.                                              *)
WritesFront(queue, ops) ==
  \/ queue = << >> /\ ops = << >>
  \/ queue # << >> /\ ops = <<Head(queue)>>

(* write() is called by the reply that finds the queue empty, and by no    *)
(* other.                                                                  *)
LEMMA StartedWrites ==
  ASSUME NEW S, NEW queue \in Seq(S), NEW new \in Seq(S), NEW ops,
         WritesFront(queue, ops)
  PROVE  WritesFront(queue \o new, Started(queue, ops, new))
<1>1. CASE queue = << >> /\ new = << >>
  BY <1>1, ConcatEmptySeq DEF WritesFront, Started
<1>2. CASE queue = << >> /\ new # << >>
  <2>1. queue \o new = new
    BY <1>2, ConcatEmptySeq
  <2>2. Started(queue, ops, new) = <<Head(new)>>
    BY <1>2 DEF WritesFront, Started
  <2> QED
    BY <1>2, <2>1, <2>2 DEF WritesFront
<1>3. CASE queue # << >>
  <2>1. Len(queue) \in Nat \ {0} /\ Len(new) \in Nat
    BY <1>3, EmptySeq, LenProperties
  <2>2. (queue \o new) # << >> /\ Head(queue \o new) = Head(queue)
    BY <2>1, ConcatProperties, EmptySeq
  <2>3. Started(queue, ops, new) = <<Head(queue)>>
    BY <1>3 DEF WritesFront, Started
  <2> QED
    BY <2>2, <2>3 DEF WritesFront
<1> QED
  BY <1>1, <1>2, <1>3

(* The handler of a write goes on with the next reply. *)
LEMMA NextWriteWrites ==
  ASSUME NEW S, NEW queue \in Seq(S), NEW ops,
         WritesFront(queue, ops), ops # << >>
  PROVE  /\ queue # << >>
         /\ WritesFront(Tail(queue), NextWrite(queue, ops))
<1>1. queue # << >> /\ ops = <<Head(queue)>>
  BY DEF WritesFront
<1>2. Tail(ops) = << >>
  BY <1>1
<1>3. CASE Tail(queue) # << >>
  <2>1. NextWrite(queue, ops) = Append(<< >>, Head(Tail(queue)))
    BY <1>2, <1>3 DEF NextWrite
  <2>2. Append(<< >>, Head(Tail(queue))) = <<Head(Tail(queue))>>
    OBVIOUS
  <2> QED
    BY <1>1, <1>3, <2>1, <2>2, Zenon DEF WritesFront
<1>4. CASE Tail(queue) = << >>
  BY <1>1, <1>2, <1>4, Zenon DEF NextWrite, WritesFront
<1> QED
  BY <1>3, <1>4

(* An element moved from the front of a queue to the end of another. *)
LEMMA FrontMoves ==
  ASSUME NEW S, NEW r \in Seq(S), NEW q \in Seq(S), q # << >>
  PROVE  Append(r, Head(q)) \o Tail(q) = r \o q
<1>1. Head(q) \in S /\ Tail(q) \in Seq(S)
  BY HeadTailProperties
<1>2. Append(r, Head(q)) = r \o <<Head(q)>>
  BY <1>1, AppendIsConcat
<1>3. <<Head(q)>> \o Tail(q) = q
  <2>1. q = SubSeq(q, 1, Len(q)) /\ Len(q) \in Nat \ {0}
    BY SubSeqFull, EmptySeq
  <2>2. q = <<q[1]>> \o SubSeq(q, 2, Len(q))
    BY <2>1, SubSeqRecursiveFirst
  <2>3. Tail(q) = SubSeq(q, 2, Len(q)) /\ Head(q) = q[1]
    BY TailIsSubSeq
  <2> QED
    BY <2>2, <2>3
<1>4. <<Head(q)>> \in Seq(S)
  BY <1>1
<1> QED
  BY <1>1, <1>2, <1>3, <1>4, ConcatAssociative

(* What went out first begins the whole. *)
LEMMA PrefixOfConcat ==
  ASSUME NEW S, NEW r \in Seq(S), NEW q \in Seq(S)
  PROVE  IsPrefix(r, r \o q)
<1>1. CASE r = << >>
  BY <1>1, EmptySeq, ConcatEmptySeq, SubSeqEmpty, LenProperties DEF IsPrefix
<1>2. CASE r # << >>
  <2>1. Len(r) \in Nat \ {0} /\ Len(q) \in Nat /\ Len(r \o q) = Len(r) + Len(q)
    BY <1>2, EmptySeq, LenProperties, ConcatProperties
  <2>2. SubSeq(r \o q, 1, Len(r)) = SubSeq(r, 1, Len(r))
    BY <2>1, SubSeqOfConcat1
  <2> QED
    BY <2>1, <2>2 DEF IsPrefix
<1> QED
  BY <1>1, <1>2

(* A prefix stays one when the whole grows at its end. *)
LEMMA PrefixOfLonger ==
  ASSUME NEW S, NEW r \in Seq(S), NEW a \in Seq(S), NEW n \in Seq(S),
         IsPrefix(r, a)
  PROVE  IsPrefix(r, a \o n)
<1>1. Len(a \o n) = Len(a) + Len(n) /\ Len(a) \in Nat /\ Len(n) \in Nat
      /\ Len(r) \in Nat /\ Len(r) <= Len(a)
  BY ConcatProperties, LenProperties DEF IsPrefix
<1>2. SubSeq(a \o n, 1, Len(r)) = SubSeq(a, 1, Len(r))
  <2>1. CASE Len(r) = 0
    BY <2>1, SubSeqEmpty
  <2>2. CASE Len(r) # 0
    BY <1>1, <2>2, SubSeqOfConcat1
  <2> QED
    BY <2>1, <2>2
<1> QED
  BY <1>1, <1>2 DEF IsPrefix

(***************************************************************************)
(* The types.                                                              *)
(***************************************************************************)

(* A request of the client is cells on the stream. *)
LEMMA CellsType ==
  ASSUME NEW r \in Requests
  PROVE  Cells(r) \in Seq(NetCells)
<1>1. r.body \in Seq(NetCells) /\ r.header \in NetCells
  <2>1. /\ r.body \in Seq(TextCells)
        /\ r.header \in Headers \cup LengthCells \cup {Garbled}
    BY RequestsAssumption
  <2>2. /\ TextCells \subseteq NetCells /\ Headers \subseteq NetCells
        /\ LengthCells \subseteq NetCells
    BY DEF NetCells
  <2>3. Garbled \in TextCells
    BY DEF Garbled, TextCells
  <2> QED
    BY <2>1, <2>2, <2>3, SeqMonotonic
<1>2. <<r.header>> \in Seq(NetCells)
  BY <1>1
<1> QED
  BY <1>1, <1>2, ConcatProperties DEF Cells

(* decode_header never announces a body longer than a packet holds. *)
LEMMA DecodedType ==
  ASSUME NEW old \in [length : 0 .. MaxBody, type : Types],
         NEW cell \in NetCells
  PROVE  Decoded(old, cell) \in [length : 0 .. MaxBody, type : Types]
<1> DEFINE scanned == Scanned(old, cell)
<1>1. scanned.length \in Nat /\ scanned.type \in Types
  <2>1. cell \in TextCells \/ cell.length \in Nat
    BY DEF NetCells, Headers, LengthCells
  <2>2. cell \notin Headers \/ cell.type \in Types
    BY DEF Headers
  <2> QED
    BY <2>1, <2>2, BoundsAssumption DEF Scanned
<1>2. scanned = [length |-> scanned.length, type |-> scanned.type]
  BY DEF Scanned
<1> HIDE DEF scanned
<1>3. Decoded(old, cell) =
        [length |-> IF scanned.length <= MaxBody THEN scanned.length ELSE 0,
         type |-> scanned.type]
  BY <1>2 DEF Decoded, Accepted, scanned
<1> QED
  BY <1>1, <1>3, BoundsAssumption

(* The replies to a request are packets. *)
LEMMA RepliesType ==
  ASSUME NEW S, NEW c \in Clients, processed[c] \in Seq(S),
         NEW type \in Types, NEW n \in ReplySizes(type)
  PROVE  Replies(c, n) \in Seq(Packets)
<1>1. n \in Nat
  BY BoundsAssumption DEF ReplySizes, Types
<1>2. Len(processed[c]) + 1 \in Nat \ {0}
  BY LenProperties
<1> QED
  BY <1>1, <1>2 DEF Replies, Packets

(* The server starts well typed. *)
LEMMA InitType == Init => TypeOK
BY BoundsAssumption, EmptySeq DEF Init, TypeOK, Types

(* One step for each conjunct of TypeOK that an action can disturb. *)
LEMMA ClientType ==
  ASSUME TypeOK, NEW c \in Clients,
         \/ Connect(c)
         \/ \E r \in Requests : Send(c, r)
         \/ \E n \in 0 .. Len(net_in[c]) : Disconnect(c, n)
  PROVE  TypeOK'
<1>1. CASE Connect(c)
  <2>1. Append(backlog, c) \in Seq(Clients)
    BY AppendProperties DEF TypeOK
  <2> QED
    BY <1>1, <2>1 DEF Connect, sessionVars, TypeOK
<1>2. ASSUME NEW r \in Requests, Send(c, r)
      PROVE  TypeOK'
  <2>1. net_in[c] \o Cells(r) \in Seq(NetCells)
    BY CellsType, ConcatProperties DEF TypeOK
  <2>2. Append(sent[c], r) \in Seq(Requests)
    BY AppendProperties DEF TypeOK
  <2> QED
    BY <1>2, <2>1, <2>2 DEF Send, TypeOK
<1>3. ASSUME NEW n \in 0 .. Len(net_in[c]), Disconnect(c, n)
      PROVE  TypeOK'
  <2>1. net_in[c] \in Seq(NetCells) /\ Len(net_in[c]) \in Nat
    BY LenProperties DEF TypeOK
  <2>2. SubSeq(net_in[c], 1, n) \in Seq(NetCells)
    BY <2>1, ElementOfSeq, SubSeqProperties, Z3
  <2> QED
    BY <1>3, <2>2 DEF Disconnect, TypeOK
<1> QED
  BY <1>1, <1>2, <1>3

(* Accepting a connection keeps the types. *)
LEMMA AcceptType == TypeOK /\ Accept => TypeOK'
<1> SUFFICES ASSUME TypeOK, Accept
             PROVE  TypeOK'
  OBVIOUS
<1>1. Head(backlog) \in Clients /\ Tail(backlog) \in Seq(Clients)
  BY HeadTailProperties DEF TypeOK, Accept
<1> QED
  BY <1>1 DEF Accept, TypeOK

(* Reading a header keeps the types. *)
LEMMA HeaderReadType ==
  ASSUME TypeOK, NEW c \in Clients, HeaderRead(c)
  PROVE  TypeOK'
<1>1. net_in[c] \in Seq(NetCells) /\ net_in[c] # << >>
  BY DEF TypeOK, HeaderRead
<1>2. Head(net_in[c]) \in NetCells /\ Tail(net_in[c]) \in Seq(NetCells)
  BY <1>1, HeadTailProperties
<1>3. Decoded(read_packet[c], Head(net_in[c]))
        \in [length : 0 .. MaxBody, type : Types]
  BY <1>2, DecodedType DEF TypeOK
<1> QED
  BY <1>2, <1>3 DEF HeaderRead, TypeOK

(* Reading a body, and handling the packet, keeps the types. *)
LEMMA BodyReadType ==
  ASSUME TypeOK, NEW c \in Clients, BodyRead(c)
  PROVE  TypeOK'
<1> DEFINE n == read_packet[c].length
           type == read_packet[c].type
<1>1. /\ net_in[c] \in Seq(NetCells) /\ Len(net_in[c]) \in Nat
      /\ n \in Nat /\ n <= Len(net_in[c]) /\ type \in Types
  BY LenProperties, BoundsAssumption DEF TypeOK, BodyRead
<1> HIDE DEF n, type
<1>2. SubSeq(net_in[c], n + 1, Len(net_in[c])) \in Seq(NetCells)
  BY <1>1, ElementOfSeq, SubSeqProperties, Z3
<1>3. SubSeq(net_in[c], 1, n) \in Seq(NetCells)
  BY <1>1, ElementOfSeq, SubSeqProperties, Z3
<1>4. Append(processed[c], [type |-> type, body |-> SubSeq(net_in[c], 1, n)])
        \in Seq([type : Types, body : Seq(NetCells)])
  BY <1>1, <1>3, AppendProperties DEF TypeOK
<1>5. PICK k \in ReplySizes(type) : Reply(c, k)
  BY DEF BodyRead, type
<1>6. Replies(c, k) \in Seq(Packets)
  BY <1>1, RepliesType DEF TypeOK
<1>7. /\ write_packets[c] \o Replies(c, k) \in Seq(Packets)
      /\ answers[c] \o Replies(c, k) \in Seq(Packets)
  BY <1>6, ConcatProperties DEF TypeOK
<1>8. Started(write_packets[c], writes[c], Replies(c, k)) \in Seq(Packets)
  <2>1. CASE write_packets[c] = << >> /\ Replies(c, k) # << >>
    <3>1. Head(Replies(c, k)) \in Packets
      BY <1>6, <2>1, HeadTailProperties
    <3> QED
      BY <2>1, <3>1, AppendProperties DEF Started, TypeOK
  <2>2. CASE ~ (write_packets[c] = << >> /\ Replies(c, k) # << >>)
    BY <2>2 DEF Started, TypeOK
  <2> QED
    BY <2>1, <2>2
<1>9. /\ write_packets' \in [Clients -> Seq(Packets)]
      /\ writes' \in [Clients -> Seq(Packets)]
      /\ answers' \in [Clients -> Seq(Packets)]
  BY <1>5, <1>7, <1>8 DEF Reply, TypeOK
<1>10. /\ net_in' \in [Clients -> Seq(NetCells)]
       /\ processed' \in
            [Clients -> Seq([type : Types, body : Seq(NetCells)])]
       /\ reading' \in [Clients -> {"none", "header", "body"}]
  BY <1>2, <1>4 DEF BodyRead, TypeOK, n, type
<1> QED
  BY <1>9, <1>10 DEF BodyRead, TypeOK

(* A write that completes keeps the types. *)
LEMMA WriteDoneType ==
  ASSUME TypeOK, NEW c \in Clients, WriteDone(c),
         WritesFront(write_packets[c], writes[c])
  PROVE  TypeOK'
<1>1. write_packets[c] # << >> /\ writes[c] = <<Head(write_packets[c])>>
  BY DEF WriteDone, WritesFront
<1>2. /\ write_packets[c] \in Seq(Packets) /\ received[c] \in Seq(Packets)
      /\ writes[c] \in Seq(Packets)
  BY DEF TypeOK
<1>3. Head(writes[c]) \in Packets /\ Tail(writes[c]) \in Seq(Packets)
  BY <1>1, <1>2, HeadTailProperties
<1>4. Tail(write_packets[c]) \in Seq(Packets)
  BY <1>1, <1>2, HeadTailProperties
<1>5. Append(received[c], Head(writes[c])) \in Seq(Packets)
  BY <1>2, <1>3, AppendProperties
<1>6. NextWrite(write_packets[c], writes[c]) \in Seq(Packets)
  <2>1. CASE Tail(write_packets[c]) # << >>
    <3>1. Head(Tail(write_packets[c])) \in Packets
      BY <1>4, <2>1, HeadTailProperties
    <3> QED
      BY <1>3, <2>1, <3>1, AppendProperties DEF NextWrite
  <2>2. CASE Tail(write_packets[c]) = << >>
    BY <1>3, <2>2 DEF NextWrite
  <2> QED
    BY <2>1, <2>2
<1> QED
  BY <1>4, <1>5, <1>6 DEF WriteDone, TypeOK

(* A write that fails keeps the types. *)
LEMMA WriteFailedType ==
  ASSUME TypeOK, NEW c \in Clients, WriteFailed(c)
  PROVE  TypeOK'
<1>1. Tail(writes[c]) \in Seq(Packets)
  BY HeadTailProperties DEF WriteFailed, TypeOK
<1> QED
  BY <1>1 DEF WriteFailed, TypeOK

(* A body that does not come keeps the types. *)
LEMMA BodyFailedType ==
  ASSUME TypeOK, NEW c \in Clients, BodyFailed(c)
  PROVE  TypeOK'
BY EmptySeq DEF BodyFailed, TypeOK

(***************************************************************************)
(* The inductive invariant: types, and for each session what its write     *)
(* chain and its queue hold.  OneWriteAtFront and RepliesInOrder need each *)
(* other: what a write delivers is the front of the queue only because no  *)
(* other write is outstanding.                                             *)
(***************************************************************************)
WritesOK(c) ==
  \/ WritesFront(write_packets[c], writes[c])
  \/ writes[c] = << >> /\ conn[c] = "closed"

RepliesOK(c) ==
  /\ IsPrefix(received[c], answers[c])
  /\ conn[c] # "closed" => received[c] \o write_packets[c] = answers[c]

SessionInv ==
  /\ TypeOK
  /\ \A c \in Clients : WritesOK(c) /\ RepliesOK(c)

(* The inductive invariant says what the runs check. *)
LEMMA SessionInvImplies ==
  SessionInv => TypeOK /\ OneWriteAtFront /\ RepliesInOrder
BY DEF SessionInv, WritesOK, WritesFront, RepliesOK, OneWriteAtFront,
       RepliesInOrder

(* The inductive invariant holds at the start. *)
LEMMA InitSessionInv == Init => SessionInv
<1> SUFFICES ASSUME Init
             PROVE  SessionInv
  OBVIOUS
<1>1. TypeOK
  BY InitType
<1>2. ASSUME NEW c \in Clients
      PROVE  WritesOK(c) /\ RepliesOK(c)
  <2>1. << >> \in Seq(Packets)
    BY EmptySeq
  <2>2. << >> \o << >> = << >>
    BY <2>1, ConcatEmptySeq
  <2>3. IsPrefix(<< >>, << >> \o << >>)
    BY <2>1, PrefixOfConcat
  <2> QED
    BY <2>2, <2>3 DEF Init, WritesOK, WritesFront, RepliesOK
<1> QED
  BY <1>1, <1>2 DEF SessionInv

(* A step that leaves the writes and replies of a session alone, and does  *)
(* not revive its client, keeps what is known of them.                     *)
LEMMA SameReplies ==
  ASSUME NEW c \in Clients, WritesOK(c), RepliesOK(c),
         conn[c] = "closed" => conn'[c] = "closed",
         write_packets'[c] = write_packets[c], writes'[c] = writes[c],
         received'[c] = received[c], answers'[c] = answers[c]
  PROVE  WritesOK(c)' /\ RepliesOK(c)'
BY DEF WritesOK, WritesFront, RepliesOK

(* Concatenation, the other way round. *)
LEMMA ConcatAssociates ==
  ASSUME NEW S, NEW s \in Seq(S), NEW t \in Seq(S), NEW u \in Seq(S)
  PROVE  s \o (t \o u) = (s \o t) \o u
BY ConcatAssociative

(* The replies that a request adds. *)
LEMMA ReplyKeeps ==
  ASSUME TypeOK, NEW c \in Clients, WritesOK(c), RepliesOK(c),
         NEW new \in Seq(Packets), conn' = conn, received' = received,
         write_packets'[c] = write_packets[c] \o new,
         writes'[c] = Started(write_packets[c], writes[c], new),
         answers'[c] = answers[c] \o new
  PROVE  WritesOK(c)' /\ RepliesOK(c)'
<1>1. /\ write_packets[c] \in Seq(Packets) /\ received[c] \in Seq(Packets)
      /\ answers[c] \in Seq(Packets)
  BY DEF TypeOK
<1>2. WritesOK(c)'
  <2>1. CASE WritesFront(write_packets[c], writes[c])
    <3>1. WritesFront(write_packets[c] \o new,
                      Started(write_packets[c], writes[c], new))
      BY <1>1, <2>1, StartedWrites
    <3> QED
      BY <3>1 DEF WritesOK, WritesFront
  <2>2. CASE ~ WritesFront(write_packets[c], writes[c])
    <3>1. /\ writes[c] = << >> /\ conn[c] = "closed"
          /\ write_packets[c] # << >>
      BY <2>2 DEF WritesOK, WritesFront
    <3>2. Started(write_packets[c], writes[c], new) = << >>
      BY <3>1 DEF Started
    <3> QED
      BY <3>1, <3>2 DEF WritesOK
  <2> QED
    BY <2>1, <2>2
<1>3. IsPrefix(received[c], answers[c] \o new)
  BY <1>1, PrefixOfLonger DEF RepliesOK
<1>4. received[c] \o (write_packets[c] \o new) =
        (received[c] \o write_packets[c]) \o new
  <2>1. \A r, q, n \in Seq(Packets) : r \o (q \o n) = (r \o q) \o n
    BY ConcatAssociates
  <2> HIDE DEF Packets
  <2> QED
    BY <1>1, <2>1, Zenon
<1> QED
  BY <1>2, <1>3, <1>4 DEF RepliesOK

(* A write that completes moves the front of the queue to the client. *)
LEMMA WriteDoneKeeps ==
  ASSUME TypeOK, NEW c \in Clients, WritesOK(c), RepliesOK(c), WriteDone(c)
  PROVE  /\ WritesFront(write_packets[c], writes[c])
         /\ WritesOK(c)' /\ RepliesOK(c)'
<1>1. WritesFront(write_packets[c], writes[c]) /\ writes[c] # << >>
  BY DEF WriteDone, WritesOK
<1>2. /\ write_packets[c] \in Seq(Packets) /\ received[c] \in Seq(Packets)
      /\ answers[c] \in Seq(Packets)
  BY DEF TypeOK
<1>3. /\ write_packets[c] # << >>
      /\ Head(writes[c]) = Head(write_packets[c])
  BY <1>1 DEF WritesFront
<1>4. /\ write_packets'[c] = Tail(write_packets[c])
      /\ writes'[c] = NextWrite(write_packets[c], writes[c])
      /\ conn' = conn /\ answers' = answers
      /\ received'[c] = IF conn[c] # "closed"
                          THEN Append(received[c], Head(write_packets[c]))
                          ELSE received[c]
  BY <1>3 DEF WriteDone, TypeOK
<1>5. WritesFront(Tail(write_packets[c]),
                  NextWrite(write_packets[c], writes[c]))
  BY <1>1, <1>2, NextWriteWrites
<1>6. WritesOK(c)'
  BY <1>4, <1>5 DEF WritesOK, WritesFront
<1>7. RepliesOK(c)'
  <2>1. CASE conn[c] = "closed"
    BY <1>4, <2>1 DEF RepliesOK
  <2>2. CASE conn[c] # "closed"
    <3>1. received'[c] \o write_packets'[c] = answers'[c]
      BY <1>2, <1>3, <1>4, <2>2, FrontMoves DEF RepliesOK
    <3>2. received'[c] \in Seq(Packets) /\ write_packets'[c] \in Seq(Packets)
      BY <1>2, <1>3, <1>4, <2>2, HeadTailProperties, AppendProperties
    <3>3. IsPrefix(received'[c], answers'[c])
      BY <3>1, <3>2, PrefixOfConcat
    <3> QED
      BY <3>1, <3>3 DEF RepliesOK
  <2> QED
    BY <2>1, <2>2
<1> QED
  BY <1>1, <1>6, <1>7

(***************************************************************************)
(* Every step keeps the invariant.                                         *)
(***************************************************************************)
LEMMA NextSessionInv == SessionInv /\ [Next]_vars => SessionInv'
<1> SUFFICES ASSUME SessionInv, [Next]_vars
             PROVE  SessionInv'
  OBVIOUS
<1>1. TypeOK /\ \A c \in Clients : WritesOK(c) /\ RepliesOK(c)
  BY DEF SessionInv
<1> DEFINE Quiet == /\ UNCHANGED <<write_packets, writes, received, answers>>
                    /\ \A c \in Clients :
                         conn[c] = "closed" => conn'[c] = "closed"
<1>2. ASSUME TypeOK', Quiet
      PROVE  SessionInv'
  BY <1>1, <1>2, SameReplies DEF SessionInv
<1>3. CASE Accept
  BY <1>1, <1>2, <1>3, AcceptType DEF Accept
<1>4. ASSUME NEW c \in Clients, Connect(c)
      PROVE  SessionInv'
  <2>1. Quiet
    BY <1>1, <1>4 DEF Connect, sessionVars, TypeOK
  <2> QED
    BY <1>1, <1>2, <1>4, <2>1, ClientType
<1>5. ASSUME NEW c \in Clients, NEW r \in Requests, Send(c, r)
      PROVE  SessionInv'
  BY <1>1, <1>2, <1>5, ClientType DEF Send
<1>6. ASSUME NEW c \in Clients, NEW n \in 0 .. Len(net_in[c]),
             Disconnect(c, n)
      PROVE  SessionInv'
  <2>1. Quiet
    BY <1>1, <1>6 DEF Disconnect, TypeOK
  <2> QED
    BY <1>1, <1>2, <1>6, <2>1, ClientType
<1>7. ASSUME NEW c \in Clients, HeaderRead(c)
      PROVE  SessionInv'
  BY <1>1, <1>2, <1>7, HeaderReadType DEF HeaderRead
<1>8. ASSUME NEW c \in Clients, BodyFailed(c)
      PROVE  SessionInv'
  BY <1>1, <1>2, <1>8, BodyFailedType DEF BodyFailed
<1>9. ASSUME NEW c \in Clients, BodyRead(c)
      PROVE  SessionInv'
  <2>1. TypeOK'
    BY <1>1, <1>9, BodyReadType
  <2>2. PICK k \in ReplySizes(read_packet[c].type) : Reply(c, k)
    BY <1>9 DEF BodyRead
  <2>3. Replies(c, k) \in Seq(Packets)
    <3>1. read_packet[c].type \in Types
      BY <1>1 DEF TypeOK
    <3> QED
      BY <1>1, <3>1, RepliesType DEF TypeOK
  <2>4. conn' = conn /\ received' = received
    BY <1>9 DEF BodyRead
  <2>5. WritesOK(c)' /\ RepliesOK(c)'
    <3>1. /\ write_packets'[c] = write_packets[c] \o Replies(c, k)
          /\ writes'[c] = Started(write_packets[c], writes[c], Replies(c, k))
          /\ answers'[c] = answers[c] \o Replies(c, k)
      BY <1>1, <2>2 DEF Reply, TypeOK
    <3> QED
      BY <1>1, <2>3, <2>4, <3>1, ReplyKeeps
  <2>6. ASSUME NEW d \in Clients, d # c
        PROVE  WritesOK(d)' /\ RepliesOK(d)'
    <3>1. /\ write_packets'[d] = write_packets[d] /\ writes'[d] = writes[d]
          /\ answers'[d] = answers[d]
      BY <1>1, <2>2, <2>6 DEF Reply, TypeOK
    <3> QED
      BY <1>1, <2>4, <3>1, SameReplies
  <2> QED
    BY <2>1, <2>5, <2>6 DEF SessionInv
<1>10. ASSUME NEW c \in Clients, WriteDone(c)
       PROVE  SessionInv'
  <2>1. /\ WritesFront(write_packets[c], writes[c])
        /\ WritesOK(c)' /\ RepliesOK(c)'
    BY <1>1, <1>10, WriteDoneKeeps
  <2>2. TypeOK'
    BY <1>1, <1>10, <2>1, WriteDoneType
  <2>3. ASSUME NEW d \in Clients, d # c
        PROVE  WritesOK(d)' /\ RepliesOK(d)'
    <3>1. /\ write_packets'[d] = write_packets[d] /\ writes'[d] = writes[d]
          /\ answers'[d] = answers[d] /\ received'[d] = received[d]
          /\ conn' = conn
      BY <1>1, <1>10, <2>3 DEF WriteDone, TypeOK
    <3> QED
      BY <1>1, <3>1, SameReplies
  <2> QED
    BY <2>1, <2>2, <2>3 DEF SessionInv
<1>11. ASSUME NEW c \in Clients, WriteFailed(c)
       PROVE  SessionInv'
  <2>1. TypeOK'
    BY <1>1, <1>11, WriteFailedType
  <2>2. /\ conn' = conn /\ conn[c] = "closed" /\ write_packets' = write_packets
        /\ received' = received /\ answers' = answers
        /\ writes'[c] = Tail(writes[c]) /\ writes[c] # << >>
        /\ \A d \in Clients : d # c => writes'[d] = writes[d]
    BY <1>1, <1>11 DEF WriteFailed, TypeOK
  <2>3. Tail(writes[c]) = << >>
    <3>1. writes[c] = <<Head(write_packets[c])>>
      BY <1>1, <2>2 DEF WritesOK, WritesFront
    <3>2. \A e : Tail(<<e>>) = << >>
      OBVIOUS
    <3> QED
      BY <3>1, <3>2
  <2>4. WritesOK(c)' /\ RepliesOK(c)'
    BY <1>1, <2>2, <2>3 DEF WritesOK, RepliesOK
  <2>5. ASSUME NEW d \in Clients, d # c
        PROVE  WritesOK(d)' /\ RepliesOK(d)'
    BY <1>1, <2>2, <2>5, SameReplies
  <2> QED
    BY <2>1, <2>4, <2>5 DEF SessionInv
<1>12. CASE UNCHANGED vars
  <2>1. TypeOK'
    BY <1>1, <1>12 DEF vars, sessionVars, TypeOK
  <2> QED
    BY <1>2, <1>12, <2>1 DEF vars, sessionVars
<1> QED
  BY <1>3, <1>4, <1>5, <1>6, <1>7, <1>8, <1>9, <1>10, <1>11, <1>12
  DEF Next, Handler, WriteHandler, HeaderFailed

(* Every variable of the server keeps its type, and in particular no       *)
(* header makes a session read more than a packet holds.                   *)
THEOREM ServerType == Spec => []TypeOK
BY InitSessionInv, NextSessionInv, SessionInvImplies, PTL DEF Spec

(* A session never has two writes outstanding, never leaves replies        *)
(* waiting without one, and always writes the front of its queue.          *)
THEOREM OneWriteAlways == Spec => []OneWriteAtFront
BY InitSessionInv, NextSessionInv, SessionInvImplies, PTL DEF Spec

(* Each client gets the replies made for it in the order they were made,   *)
(* all of them while it stays connected.                                   *)
THEOREM RepliesAlwaysInOrder == Spec => []RepliesInOrder
BY InitSessionInv, NextSessionInv, SessionInvImplies, PTL DEF Spec

(***************************************************************************)
(* The stream of cells on which a session of the model server finds its    *)
(* requests: a client that sends only well-formed packets has them         *)
(* processed as it sent them.                                              *)
(*                                                                         *)
(* Nothing on the stream marks where a packet begins: what keeps the       *)
(* reading in step is that every header announces its body and that the    *)
(* handlers take exactly what was announced.  The invariant therefore      *)
(* follows the offset at[i] of every request i that has not been processed:*)
(* the number of unread cells before it, or -1 when the next cell is the   *)
(* one after its header.                                                   *)
(***************************************************************************)

Size(r) == Len(Cells(r))

(* The requests from the number `from' on lie one after the other, the     *)
(* first of them at the offset `first'.                                    *)
Layout(at, reqs, from, first) ==
  /\ at \in [Nat -> Int]
  /\ at[from] = first
  /\ \A i \in from .. Len(reqs) :
       /\ at[i + 1] = at[i] + Size(reqs[i])
       /\ at[i + 1] <= at[Len(reqs) + 1]

(* The cells that arrived are those of the requests at their places. *)
Carries(net, at, reqs, from) ==
  \A i \in from .. Len(reqs) :
    \A j \in 1 .. Size(reqs[i]) :
      at[i] + j \in 1 .. Len(net) => net[at[i] + j] = Cells(reqs[i])[j]

(* All of the cells, or those before the connection was cut. *)
Arrived(net, at, reqs, state) ==
  /\ Len(net) <= at[Len(reqs) + 1]
  /\ state # "closed" => Len(net) = at[Len(reqs) + 1]

Stream(net, reqs, from, first, state) ==
  \E at : /\ Layout(at, reqs, from, first)
          /\ Carries(net, at, reqs, from)
          /\ Arrived(net, at, reqs, state)

(* One cell before others. *)
Joined(s, t) == s \o t

(* The cells of the one, then those of the other. *)
LEMMA JoinedType ==
  ASSUME NEW S, NEW s \in Seq(S), NEW t \in Seq(S)
  PROVE  /\ Joined(s, t) \in Seq(S)
         /\ Len(Joined(s, t)) = Len(s) + Len(t)
         /\ \A i \in 1 .. Len(s) + Len(t) :
              Joined(s, t)[i] = IF i <= Len(s) THEN s[i] ELSE t[i - Len(s)]
BY ConcatProperties DEF Joined

(* One cell in front moves the others by one. *)
LEMMA JoinedCells ==
  ASSUME NEW S, NEW h \in Seq(S), NEW b \in Seq(S), Len(h) = 1
  PROVE  /\ Joined(h, b) \in Seq(S)
         /\ Len(Joined(h, b)) = Len(b) + 1
         /\ Joined(h, b)[1] = h[1]
         /\ \A j \in 1 .. Len(b) : Joined(h, b)[j + 1] = b[j]
<1>1. Len(b) \in Nat
  BY LenProperties
<1>2. /\ Joined(h, b) \in Seq(S)
      /\ Len(Joined(h, b)) = Len(h) + Len(b)
      /\ \A i \in 1 .. Len(h) + Len(b) :
           Joined(h, b)[i] = IF i <= Len(h) THEN h[i] ELSE b[i - Len(h)]
  BY JoinedType
<1> QED
  BY <1>1, <1>2

(* A request is its header and the cells of its body. *)
LEMMA CellsOfRequest ==
  ASSUME NEW r \in Requests
  PROVE  /\ Cells(r) \in Seq(NetCells)
         /\ Size(r) = Len(r.body) + 1
         /\ Size(r) \in Nat \ {0} /\ Len(r.body) \in Nat
         /\ Cells(r)[1] = r.header
         /\ \A j \in 1 .. Len(r.body) : Cells(r)[j + 1] = r.body[j]
<1>1. r.body \in Seq(NetCells) /\ r.header \in NetCells
  <2>1. /\ r.body \in Seq(TextCells)
        /\ r.header \in Headers \cup LengthCells \cup {Garbled}
    BY RequestsAssumption
  <2>2. TextCells \subseteq NetCells /\ Garbled \in NetCells
    BY DEF NetCells, Garbled, TextCells
  <2>3. r.body \in Seq(NetCells)
    BY <2>1, <2>2, SeqMonotonic
  <2> QED
    BY <2>1, <2>2, <2>3 DEF NetCells
<1>2. <<r.header>> \in Seq(NetCells) /\ Len(<<r.header>>) = 1
      /\ <<r.header>>[1] = r.header
  BY <1>1
<1>3. Len(r.body) \in Nat
  BY <1>1, LenProperties
<1> DEFINE h == <<r.header>>
           b == r.body
<1>4. Cells(r) = Joined(h, b)
  BY DEF Cells, Joined
<1>5. h \in Seq(NetCells) /\ b \in Seq(NetCells) /\ Len(h) = 1
  BY <1>1, <1>2
<1> HIDE DEF h, b
<1>6. /\ Joined(h, b) \in Seq(NetCells)
      /\ Len(Joined(h, b)) = Len(b) + 1
      /\ Joined(h, b)[1] = h[1]
      /\ \A j \in 1 .. Len(b) : Joined(h, b)[j + 1] = b[j]
  BY <1>5, JoinedCells
<1> QED
  BY <1>2, <1>3, <1>4, <1>6 DEF Size, h, b

(* The empty stream of a client that sent nothing. *)
LEMMA StreamStarts ==
  ASSUME NEW state
  PROVE  Stream(<< >>, << >>, 1, 0, state)
<1> DEFINE at == [i \in Nat |-> 0]
<1>1. Layout(at, << >>, 1, 0) /\ Carries(<< >>, at, << >>, 1)
      /\ Arrived(<< >>, at, << >>, state)
  BY DEF Layout, Carries, Arrived
<1> QED
  BY <1>1 DEF Stream

(* Every request not yet read takes at least a cell, its header. *)
LEMMA SizesOf ==
  ASSUME NEW reqs \in Seq(Requests), NEW from \in Nat \ {0}
  PROVE  \A i \in from .. Len(reqs) :
           i \in Nat /\ reqs[i] \in Requests /\ Size(reqs[i]) \in Nat \ {0}
<1>1. Len(reqs) \in Nat
  BY LenProperties
<1>2. ASSUME NEW i \in from .. Len(reqs)
      PROVE  i \in Nat /\ i \in 1 .. Len(reqs)
  BY <1>1
<1> QED
  BY <1>2, ElementOfSeq, CellsOfRequest

(* The connection ends: what arrived is a prefix of what was sent. *)
LEMMA StreamCut ==
  ASSUME NEW net \in Seq(NetCells), NEW reqs \in Seq(Requests),
         NEW from \in Nat, NEW first, NEW n \in 0 .. Len(net),
         NEW state, state # "closed",
         Stream(net, reqs, from, first, state)
  PROVE  Stream(SubSeq(net, 1, n), reqs, from, first, "closed")
<1>1. PICK at : /\ Layout(at, reqs, from, first)
                /\ Carries(net, at, reqs, from)
                /\ Arrived(net, at, reqs, state)
  BY DEF Stream
<1> DEFINE cutNet == SubSeq(net, 1, n)
<1>2. /\ Len(cutNet) = n /\ n <= Len(net) /\ n \in Nat /\ Len(net) \in Nat
      /\ \A k \in 1 .. n : cutNet[k] = net[k]
  BY LenProperties
<1> HIDE DEF cutNet
<1>3. Carries(cutNet, at, reqs, from)
  <2>1. \A k \in 1 .. Len(cutNet) : k \in 1 .. Len(net) /\ cutNet[k] = net[k]
    BY <1>2
  <2> QED
    BY <1>1, <2>1 DEF Carries
<1>4. Arrived(cutNet, at, reqs, "closed")
  <2>1. at[Len(reqs) + 1] \in Int
    BY <1>1, LenProperties DEF Layout
  <2> QED
    BY <1>1, <1>2, <2>1 DEF Arrived
<1>5. Stream(cutNet, reqs, from, first, "closed")
  BY <1>1, <1>3, <1>4 DEF Stream
<1> QED
  BY <1>5 DEF cutNet

(* A handler takes the first n cells. *)
Dropped(net, n) == SubSeq(net, n + 1, Len(net))

(* The cells behind those taken move up. *)
LEMMA DroppedCells ==
  ASSUME NEW net \in Seq(NetCells), NEW n \in 0 .. Len(net)
  PROVE  /\ Dropped(net, n) \in Seq(NetCells)
         /\ Len(Dropped(net, n)) = Len(net) - n
         /\ \A k \in 1 .. Len(net) - n : Dropped(net, n)[k] = net[k + n]
<1>1. Len(net) \in Nat /\ n \in Nat /\ n <= Len(net)
  BY LenProperties
<1> QED
  BY <1>1, ElementOfSeq, SubSeqProperties, Z3 DEF Dropped

(* Where the requests lie once n cells are taken. *)
LEMMA LayoutShifts ==
  ASSUME NEW reqs \in Seq(Requests), NEW from \in Nat \ {0}, NEW to \in Nat,
         from <= to, NEW n \in Int, NEW at, NEW first,
         Layout(at, reqs, from, first)
  PROVE  Layout([i \in Nat |-> at[i] - n], reqs, to, at[to] - n)
<1> DEFINE later == [i \in Nat |-> at[i] - n]
<1>1. /\ later \in [Nat -> Int]
      /\ \A i \in Nat : at[i] \in Int /\ later[i] = at[i] - n
  BY DEF Layout
<1> HIDE DEF later
<1>2. Len(reqs) \in Nat
  BY LenProperties
<1>3. ASSUME NEW i \in to .. Len(reqs)
      PROVE  /\ later[i + 1] = later[i] + Size(reqs[i])
             /\ later[i + 1] <= later[Len(reqs) + 1]
  <2>1. i \in Nat /\ i \in from .. Len(reqs)
    BY <1>2
  <2>2. /\ at[i + 1] = at[i] + Size(reqs[i])
        /\ at[i + 1] <= at[Len(reqs) + 1]
        /\ Size(reqs[i]) \in Nat
    BY <2>1, SizesOf DEF Layout
  <2>3. /\ at[i] \in Int /\ later[i] = at[i] - n
        /\ at[i + 1] \in Int /\ later[i + 1] = at[i + 1] - n
        /\ at[Len(reqs) + 1] \in Int
        /\ later[Len(reqs) + 1] = at[Len(reqs) + 1] - n
    <3>1. i + 1 \in Nat /\ Len(reqs) + 1 \in Nat
      BY <1>2, <2>1
    <3> QED
      BY <1>1, <2>1, <3>1, Zenon
  <2>4. PICK a, b, size, end :
          /\ a \in Int /\ b \in Int /\ size \in Int /\ end \in Int
          /\ a = at[i] /\ b = at[i + 1] /\ size = Size(reqs[i])
          /\ end = at[Len(reqs) + 1]
    BY <2>2, <2>3
  <2>5. b = a + size /\ b <= end
    BY <2>2, <2>4, Zenon
  <2>6. b - n = (a - n) + size /\ b - n <= end - n
    BY <2>4, <2>5
  <2> QED
    BY <2>3, <2>4, <2>6, Zenon
<1>4. later[to] = at[to] - n
  BY <1>1
<1>5. Layout(later, reqs, to, at[to] - n)
  BY <1>1, <1>3, <1>4 DEF Layout
<1> QED
  BY <1>5 DEF later

(* A handler takes cells off the front: what is left still carries the     *)
(* requests from the next one on.                                          *)
LEMMA StreamDrops ==
  ASSUME NEW net \in Seq(NetCells), NEW reqs \in Seq(Requests),
         NEW from \in Nat \ {0}, NEW to \in Nat, from <= to,
         NEW n \in 0 .. Len(net), NEW state, NEW at, NEW first,
         Layout(at, reqs, from, first), Carries(net, at, reqs, from),
         Arrived(net, at, reqs, state)
  PROVE  Stream(Dropped(net, n), reqs, to, at[to] - n, state)
<1> DEFINE later == [i \in Nat |-> at[i] - n]
           rest == Dropped(net, n)
<1>1. n \in Nat /\ Len(net) \in Nat /\ Len(reqs) \in Nat /\ n <= Len(net)
  BY LenProperties
<1>2. /\ Len(rest) = Len(net) - n
      /\ \A k \in 1 .. Len(net) - n : rest[k] = net[k + n]
  BY DroppedCells
<1>3. /\ later \in [Nat -> Int]
      /\ \A i \in Nat : at[i] \in Int /\ later[i] = at[i] - n
  BY <1>1 DEF Layout
<1>4. at[Len(reqs) + 1] \in Int /\ later[Len(reqs) + 1] = at[Len(reqs) + 1] - n
  BY <1>1, <1>3
<1>5. \A i \in to .. Len(reqs) :
        /\ i \in Nat /\ i + 1 \in Nat /\ i \in from .. Len(reqs)
        /\ Size(reqs[i]) \in Nat
  <2>1. ASSUME NEW i \in to .. Len(reqs)
        PROVE  i \in Nat /\ i + 1 \in Nat /\ i \in from .. Len(reqs)
    BY <1>1
  <2> QED
    BY <2>1, SizesOf
<1> HIDE DEF later, rest
<1>6. Layout(later, reqs, to, at[to] - n)
  BY <1>1, LayoutShifts DEF later
<1>7. Carries(rest, later, reqs, to)
  <2>1. ASSUME NEW i \in to .. Len(reqs), NEW j \in 1 .. Size(reqs[i]),
               later[i] + j \in 1 .. Len(rest)
        PROVE  rest[later[i] + j] = Cells(reqs[i])[j]
    <3>1. at[i] \in Int /\ later[i] = at[i] - n /\ j \in Nat
      <4>1. i \in Nat /\ Size(reqs[i]) \in Nat
        BY <1>5
      <4>2. j \in Nat
        BY <4>1
      <4> QED
        BY <1>3, <4>1, <4>2, Zenon
    <3>2. later[i] + j \in 1 .. Len(net) - n /\ later[i] + j + n = at[i] + j
      BY <1>1, <1>2, <2>1, <3>1
    <3>3. at[i] + j \in 1 .. Len(net)
      <4>1. PICK p, q : /\ p \in Int /\ p = later[i] + j
                        /\ q \in Nat /\ q = Len(net)
        BY <1>1, <3>1
      <4>2. p \in 1 .. q - n /\ p + n = at[i] + j
        BY <3>2, <4>1, Zenon
      <4>3. p + n \in 1 .. q
        BY <1>1, <4>1, <4>2
      <4> QED
        BY <4>1, <4>2, <4>3, Zenon
    <3>4. net[at[i] + j] = Cells(reqs[i])[j]
      BY <1>5, <3>3 DEF Carries
    <3> QED
      BY <1>2, <3>2, <3>4
  <2> QED
    BY <2>1 DEF Carries
<1>8. Arrived(rest, later, reqs, state)
  <2>1. Len(net) <= at[Len(reqs) + 1] => Len(rest) <= later[Len(reqs) + 1]
    BY <1>1, <1>2, <1>4
  <2>2. Len(net) = at[Len(reqs) + 1] => Len(rest) = later[Len(reqs) + 1]
    BY <1>1, <1>2, <1>4
  <2> QED
    BY <2>1, <2>2, Zenon DEF Arrived
<1>9. Stream(rest, reqs, to, at[to] - n, state)
  BY <1>6, <1>7, <1>8 DEF Stream
<1> QED
  BY <1>9 DEF rest

(* The first cell of the next request is its header. *)
LEMMA StreamHeader ==
  ASSUME NEW net \in Seq(NetCells), net # << >>, NEW reqs \in Seq(Requests),
         NEW from \in 1 .. Len(reqs) + 1, NEW state,
         Stream(net, reqs, from, 0, state)
  PROVE  /\ from <= Len(reqs)
         /\ Head(net) = reqs[from].header
         /\ Stream(Tail(net), reqs, from, -1, state)
<1>1. PICK at : /\ Layout(at, reqs, from, 0)
                /\ Carries(net, at, reqs, from)
                /\ Arrived(net, at, reqs, state)
  BY DEF Stream
<1>2. /\ Len(net) \in Nat \ {0} /\ Len(reqs) \in Nat
      /\ from \in Nat \ {0} /\ from <= Len(reqs) + 1
  BY EmptySeq, LenProperties
<1>3. at[from] = 0
  BY <1>1 DEF Layout
<1>4. from <= Len(reqs)
  <2>1. Len(net) <= at[Len(reqs) + 1]
    BY <1>1 DEF Arrived
  <2>2. SUFFICES ASSUME from = Len(reqs) + 1
                 PROVE  FALSE
    BY <1>2
  <2> QED
    BY <1>2, <1>3, <2>1, <2>2
<1>5. net[1] = reqs[from].header
  <2>1. from \in from .. Len(reqs)
    BY <1>2, <1>4
  <2>2. Size(reqs[from]) \in Nat \ {0} /\ reqs[from] \in Requests
    BY <1>2, <2>1, SizesOf
  <2>3. 1 \in 1 .. Size(reqs[from])
    BY <2>2
  <2>4. at[from] + 1 = 1 /\ 1 \in 1 .. Len(net)
    BY <1>2, <1>3
  <2>5. net[1] = Cells(reqs[from])[1]
    BY <1>1, <2>1, <2>3, <2>4 DEF Carries
  <2> QED
    BY <2>2, <2>5, CellsOfRequest
<1>6. Stream(Dropped(net, 1), reqs, from, at[from] - 1, state)
  <2>1. 1 \in 0 .. Len(net)
    BY <1>2
  <2> QED
    BY <1>1, <1>2, <2>1, StreamDrops
<1>7. Dropped(net, 1) = Tail(net) /\ Head(net) = net[1]
  BY TailIsSubSeq, HeadTailProperties DEF Dropped
<1>8. at[from] - 1 = -1
  BY <1>3
<1> QED
  BY <1>4, <1>5, <1>6, <1>7, <1>8, Zenon

(* The cells after the header of a request are those of its body. *)
LEMMA StreamBody ==
  ASSUME NEW net \in Seq(NetCells), NEW reqs \in Seq(Requests),
         NEW from \in 1 .. Len(reqs), NEW state, NEW n,
         n = Len(reqs[from].body), n <= Len(net),
         Stream(net, reqs, from, -1, state)
  PROVE  /\ SubSeq(net, 1, n) = reqs[from].body
         /\ Stream(Dropped(net, n), reqs, from + 1, 0, state)
<1>1. PICK at : /\ Layout(at, reqs, from, -1)
                /\ Carries(net, at, reqs, from)
                /\ Arrived(net, at, reqs, state)
  BY DEF Stream
<1>2. Len(net) \in Nat /\ Len(reqs) \in Nat /\ from \in Nat \ {0}
  BY LenProperties
<1>3. from \in from .. Len(reqs) /\ from + 1 \in Nat \ {0} /\ from <= from + 1
  BY <1>2
<1>4. reqs[from] \in Requests
  BY <1>2, <1>3, SizesOf
<1>5. n \in Nat /\ n \in 0 .. Len(net) /\ Size(reqs[from]) = n + 1
  BY <1>2, <1>4, CellsOfRequest
<1>6. at[from] = -1 /\ at[from + 1] = n
  BY <1>1, <1>3, <1>5 DEF Layout
<1>7. SubSeq(net, 1, n) = reqs[from].body
  <2>1. ASSUME NEW j \in 1 .. n
        PROVE  net[j] = reqs[from].body[j]
    <3>1. j \in Nat /\ j + 1 \in 1 .. Size(reqs[from]) /\ j \in 1 .. Len(net)
      BY <1>2, <1>5
    <3>2. at[from] + (j + 1) = j
      BY <1>6, <3>1
    <3>3. net[j] = Cells(reqs[from])[j + 1]
      BY <1>1, <1>3, <3>1, <3>2 DEF Carries
    <3> QED
      BY <1>4, <3>3, CellsOfRequest
  <2> DEFINE front == SubSeq(net, 1, n)
  <2>2. front \in Seq(NetCells) /\ Len(front) = n /\ \A j \in 1 .. n : front[j] = net[j]
    <3>1. \A j \in 1 .. n : net[j] \in NetCells
      BY <1>2, <1>5, ElementOfSeq
    <3> QED
      BY <1>2, <1>5, <3>1, SubSeqProperties
  <2> HIDE DEF front
  <2>3. reqs[from].body \in Seq(TextCells)
    BY <1>4, RequestsAssumption
  <2>4. \A j \in 1 .. Len(front) : front[j] = reqs[from].body[j]
    BY <2>1, <2>2
  <2>5. front = reqs[from].body
    BY <2>2, <2>3, <2>4, SeqEqual
  <2> QED
    BY <2>5 DEF front
<1>8. Stream(Dropped(net, n), reqs, from + 1, at[from + 1] - n, state)
  BY <1>1, <1>2, <1>3, <1>5, StreamDrops
<1> QED
  BY <1>5, <1>6, <1>7, <1>8

(* A body that the cut left incomplete: nothing follows it. *)
LEMMA StreamEnds ==
  ASSUME NEW net \in Seq(NetCells), NEW reqs \in Seq(Requests),
         NEW from \in 1 .. Len(reqs), Stream(net, reqs, from, -1, "closed")
  PROVE  Stream(<< >>, reqs, from, 0, "closed")
<1>1. PICK at : Layout(at, reqs, from, -1)
  BY DEF Stream
<1> DEFINE later == [i \in Nat |-> at[i] - (-1)]
<1>2. Len(reqs) \in Nat /\ from \in Nat \ {0} /\ from \in from .. Len(reqs)
  BY LenProperties
<1>3. at[from] = -1 /\ at \in [Nat -> Int]
  BY <1>1 DEF Layout
<1>4. at[from] - (-1) = 0
  BY <1>3
<1>5. Layout(later, reqs, from, 0)
  <2>1. Layout(later, reqs, from, at[from] - (-1))
    BY <1>1, <1>2, LayoutShifts
  <2> QED
    BY <1>4, <2>1, Zenon
<1>6. Len(<< >>) <= later[Len(reqs) + 1]
  <2>1. /\ at[from + 1] = at[from] + Size(reqs[from])
        /\ at[from + 1] <= at[Len(reqs) + 1]
        /\ Size(reqs[from]) \in Nat \ {0}
    BY <1>1, <1>2, SizesOf DEF Layout
  <2>2. at[Len(reqs) + 1] \in Int /\ at[from + 1] \in Int
    BY <1>2, <1>3
  <2>3. at[from + 1] >= 0
    BY <1>3, <2>1, <2>2
  <2>4. at[Len(reqs) + 1] - (-1) >= 0
    BY <2>1, <2>2, <2>3
  <2>5. later[Len(reqs) + 1] = at[Len(reqs) + 1] - (-1)
    BY <1>2
  <2>6. Len(<< >>) = 0
    OBVIOUS
  <2> HIDE DEF later
  <2> QED
    BY <2>2, <2>4, <2>5, <2>6
<1>7. Carries(<< >>, later, reqs, from)
  BY DEF Carries
<1>8. Arrived(<< >>, later, reqs, "closed")
  BY <1>6 DEF Arrived
<1> QED
  BY <1>5, <1>7, <1>8 DEF Stream

(* A request that the client sends comes after all others. *)
LEMMA StreamGrows ==
  ASSUME NEW net \in Seq(NetCells), NEW reqs \in Seq(Requests),
         NEW from \in 1 .. Len(reqs) + 1, NEW first, NEW r \in Requests,
         NEW state, state # "closed",
         Stream(net, reqs, from, first, state)
  PROVE  Stream(Joined(net, Cells(r)), Append(reqs, r), from, first, state)
<1>1. PICK at : /\ Layout(at, reqs, from, first)
                /\ Carries(net, at, reqs, from)
                /\ Arrived(net, at, reqs, state)
  BY DEF Stream
<1> DEFINE last == Len(reqs) + 1
           longer == [at EXCEPT ![last + 1] = at[last] + Size(r)]
           more == Append(reqs, r)
           wire == Joined(net, Cells(r))
<1>2. /\ Len(reqs) \in Nat /\ Len(net) \in Nat
      /\ from \in Nat \ {0} /\ from <= last
      /\ Size(r) \in Nat \ {0} /\ Cells(r) \in Seq(NetCells)
      /\ last \in Nat
  BY LenProperties, CellsOfRequest
<1>3. /\ more \in Seq(Requests) /\ Len(more) = last
      /\ more[last] = r
      /\ \A i \in 1 .. Len(reqs) : more[i] = reqs[i]
  BY AppendProperties
<1>4. /\ Len(wire) = Len(net) + Size(r)
      /\ \A k \in 1 .. Len(net) : wire[k] = net[k]
      /\ \A j \in 1 .. Size(r) : wire[Len(net) + j] = Cells(r)[j]
  <2>1. /\ Len(wire) = Len(net) + Len(Cells(r))
        /\ \A i \in 1 .. Len(net) + Len(Cells(r)) :
             wire[i] = IF i <= Len(net) THEN net[i] ELSE Cells(r)[i - Len(net)]
    BY <1>2, JoinedType
  <2> HIDE DEF wire
  <2>2. /\ Len(wire) = Len(net) + Size(r)
        /\ \A i \in 1 .. Len(net) + Size(r) :
             wire[i] = IF i <= Len(net) THEN net[i] ELSE Cells(r)[i - Len(net)]
    BY <2>1 DEF Size
  <2>3. ASSUME NEW j \in 1 .. Size(r)
        PROVE  wire[Len(net) + j] = Cells(r)[j]
    <3>1. /\ Len(net) + j \in 1 .. Len(net) + Size(r)
          /\ ~ (Len(net) + j <= Len(net)) /\ (Len(net) + j) - Len(net) = j
      BY <1>2
    <3> QED
      BY <2>2, <3>1
  <2>4. \A k \in 1 .. Len(net) : wire[k] = net[k]
    BY <1>2, <2>2
  <2> QED
    BY <2>2, <2>3, <2>4
<1>5. /\ longer \in [Nat -> Int]
      /\ longer[last + 1] = at[last] + Size(r)
      /\ \A i \in 1 .. last : longer[i] = at[i]
      /\ at[last] \in Int
  <2>1. at \in [Nat -> Int]
    BY <1>1 DEF Layout
  <2>2. PICK place : place \in Int /\ place = at[last] + Size(r)
    BY <1>2, <2>1
  <2>3. longer = [at EXCEPT ![last + 1] = place]
    BY <2>2
  <2> HIDE DEF longer
  <2>4. last + 1 \in Nat /\ \A i \in 1 .. last : i \in Nat /\ i # last + 1
    BY <1>2
  <2> QED
    BY <1>2, <2>1, <2>2, <2>3, <2>4
<1>6. /\ Len(net) = at[last] /\ at[last] \in Int /\ Size(r) \in Nat
      /\ longer[last + 1] = at[last] + Size(r)
  BY <1>1, <1>2, <1>5 DEF Arrived
<1> HIDE DEF longer, more, wire, last
<1>7. ASSUME NEW i \in from .. last
      PROVE  /\ longer[i + 1] = longer[i] + Size(more[i])
             /\ longer[i + 1] <= longer[last + 1]
             /\ longer[i] = at[i] /\ at[i] \in Int
             /\ \A j \in 1 .. Size(more[i]) :
                  longer[i] + j \in 1 .. Len(wire) =>
                    wire[longer[i] + j] = Cells(more[i])[j]
  <2>1. i \in 1 .. last /\ i \in Nat /\ longer[i] = at[i] /\ at[i] \in Int
    <3>1. i \in 1 .. last /\ i \in Nat
      BY <1>2
    <3> QED
      BY <1>1, <1>5, <3>1 DEF Layout
  <2>2. CASE i = last
    <3>1. /\ more[i] = r
          /\ longer[i + 1] = longer[i] + Size(more[i])
          /\ longer[i + 1] <= longer[last + 1]
      BY <1>2, <1>3, <1>5, <2>1, <2>2
    <3>2. \A j \in 1 .. Size(r) : wire[longer[i] + j] = Cells(r)[j]
      BY <1>4, <1>6, <2>1, <2>2
    <3> QED
      BY <2>1, <3>1, <3>2
  <2>3. CASE i # last
    <3>1. /\ i \in from .. Len(reqs) /\ i \in 1 .. Len(reqs)
          /\ i + 1 \in 1 .. last /\ i + 1 \in Nat
      BY <1>2, <2>1, <2>3 DEF last
    <3>2. /\ at[i + 1] = at[i] + Size(reqs[i])
          /\ at[i + 1] <= at[last] /\ at[i + 1] \in Int
      BY <1>1, <3>1 DEF Layout, last
    <3>3. more[i] = reqs[i] /\ Size(reqs[i]) \in Nat
      BY <1>2, <1>3, <3>1, SizesOf
    <3>4. longer[i + 1] = at[i + 1]
      BY <1>5, <3>1
    <3>5. longer[i + 1] <= longer[last + 1]
      BY <1>6, <3>2, <3>4
    <3>6. ASSUME NEW j \in 1 .. Size(reqs[i]), at[i] + j \in 1 .. Len(wire)
          PROVE  wire[at[i] + j] = Cells(reqs[i])[j]
      <4>1. at[i] + j <= at[last]
        <5>1. PICK a, size, end :
                /\ a \in Int /\ size \in Int /\ end \in Int
                /\ a = at[i] /\ size = Size(reqs[i]) /\ end = at[last]
          BY <1>6, <2>1, <3>3
        <5>2. a + size <= end
          BY <3>2, <5>1, Zenon
        <5>3. a + j <= end
          BY <3>3, <5>1, <5>2
        <5> QED
          BY <5>1, <5>3, Zenon
      <4>2. at[i] + j \in 1 .. Len(net)
        BY <1>2, <1>6, <3>6, <4>1
      <4>3. net[at[i] + j] = Cells(reqs[i])[j]
        BY <1>1, <3>1, <4>2 DEF Carries
      <4> QED
        BY <1>4, <4>2, <4>3
    <3>7. longer[i + 1] = longer[i] + Size(more[i])
      BY <2>1, <3>2, <3>3, <3>4
    <3> QED
      BY <2>1, <3>3, <3>5, <3>6, <3>7
  <2> QED
    BY <2>2, <2>3
<1>8. Layout(longer, more, from, first)
  <2>1. longer[from] = first
    BY <1>1, <1>2, <1>5 DEF Layout
  <2> QED
    BY <1>3, <1>5, <1>7, <2>1 DEF Layout
<1>9. Carries(wire, longer, more, from)
  BY <1>3, <1>7 DEF Carries
<1>10. Arrived(wire, longer, more, state)
  <2>1. Len(wire) = longer[last + 1]
    BY <1>2, <1>4, <1>5, <1>6
  <2>2. Len(wire) \in Nat
    BY <1>2, <1>4
  <2> QED
    BY <1>3, <2>1, <2>2 DEF Arrived
<1>11. Stream(wire, more, from, first, state)
  BY <1>8, <1>9, <1>10 DEF Stream
<1> QED
  BY <1>11 DEF wire, more

(***************************************************************************)
(* The invariant.  done are the requests processed, reqs those sent, net   *)
(* the cells not read, packet the last header, reads the outstanding read  *)
(* and state that of the connection.                                       *)
(***************************************************************************)
AllWellFormed(reqs) == \A i \in DOMAIN reqs : WellFormed(reqs[i])

Offset(reads) == IF reads = "body" THEN -1 ELSE 0

ProcessedAsSent(done, reqs) ==
  /\ Len(done) <= Len(reqs)
  /\ \A i \in DOMAIN done :
       done[i].type = reqs[i].type /\ done[i].body = reqs[i].body

InStep(done, reqs, net, packet, reads, state) ==
  AllWellFormed(reqs) =>
    /\ ProcessedAsSent(done, reqs)
    /\ Stream(net, reqs, Len(done) + 1, Offset(reads), state)
    /\ reads = "body" =>
         Len(done) < Len(reqs) /\ packet = reqs[Len(done) + 1].header

SessionInStep(c) ==
  InStep(processed[c], sent[c], net_in[c], read_packet[c], reading[c], conn[c])

(* The dispatcher makes one session per client: were a connection in the   *)
(* backlog twice, its session would be made to read a header while it      *)
(* reads a body.                                                           *)
BacklogIsNew ==
  /\ \A i, j \in DOMAIN backlog : backlog[i] = backlog[j] => i = j
  /\ \A i \in DOMAIN backlog :
       reading[backlog[i]] = "none" /\ conn[backlog[i]] # "away"
  /\ \A c \in Clients : conn[c] = "away" => reading[c] = "none"

StreamInv == BacklogIsNew /\ \A c \in Clients : SessionInStep(c)

(* A server in step with its clients has processed their requests as sent. *)
LEMMA StreamInvImplies == StreamInv => RequestsInOrder
BY DEF StreamInv, SessionInStep, InStep, AllWellFormed, ProcessedAsSent,
       RequestsInOrder

(* Nobody has connected, nothing is sent. *)
LEMMA InitStreamInv == Init => StreamInv
<1> SUFFICES ASSUME Init
             PROVE  StreamInv
  OBVIOUS
<1>1. BacklogIsNew
  BY DEF Init, BacklogIsNew
<1>2. ASSUME NEW c \in Clients
      PROVE  SessionInStep(c)
  <2>1. /\ processed[c] = << >> /\ sent[c] = << >> /\ net_in[c] = << >>
        /\ reading[c] = "none"
    BY DEF Init
  <2>2. Stream(<< >>, << >>, 1, 0, conn[c])
    BY StreamStarts
  <2>3. Len(<< >>) + 1 = 1 /\ Offset("none") = 0
    BY DEF Offset
  <2>4. ProcessedAsSent(<< >>, << >>)
    BY DEF ProcessedAsSent
  <2> QED
    BY <2>1, <2>2, <2>3, <2>4 DEF SessionInStep, InStep
<1> QED
  BY <1>1, <1>2 DEF StreamInv

(* Connecting, and the session's first read, move nothing on the stream. *)
LEMMA StreamOpen ==
  ASSUME NEW net, NEW reqs, NEW from, NEW first,
         Stream(net, reqs, from, first, "away")
  PROVE  Stream(net, reqs, from, first, "open")
BY DEF Stream, Arrived

(* A client connects: nothing it sent is on the wire yet. *)
LEMMA InStepOpens ==
  ASSUME NEW done, NEW reqs, NEW net, NEW packet, NEW reads,
         InStep(done, reqs, net, packet, reads, "away")
  PROVE  InStep(done, reqs, net, packet, reads, "open")
BY StreamOpen DEF InStep

(* A session starts to read at a header. *)
LEMMA InStepStarts ==
  ASSUME NEW done, NEW reqs, NEW net, NEW packet, NEW state,
         InStep(done, reqs, net, packet, "none", state)
  PROVE  InStep(done, reqs, net, packet, "header", state)
BY DEF InStep, Offset

(* Sending. *)
LEMMA InStepSends ==
  ASSUME NEW T, NEW done \in Seq(T), NEW reqs \in Seq(Requests),
         NEW net \in Seq(NetCells), NEW packet, NEW reads, NEW state,
         NEW r \in Requests, state # "closed",
         InStep(done, reqs, net, packet, reads, state)
  PROVE  InStep(done, Append(reqs, r), Joined(net, Cells(r)), packet, reads,
                state)
<1> DEFINE more == Append(reqs, r)
<1>1. /\ Len(more) = Len(reqs) + 1 /\ Len(reqs) \in Nat
      /\ DOMAIN reqs = 1 .. Len(reqs) /\ DOMAIN more = 1 .. Len(more)
      /\ Len(done) \in Nat /\ DOMAIN done = 1 .. Len(done)
      /\ \A i \in 1 .. Len(reqs) : more[i] = reqs[i]
  BY AppendProperties, LenProperties
<1>2. Stream(net, reqs, Len(done) + 1, Offset(reads), state)
        /\ Len(done) <= Len(reqs) =>
      Stream(Joined(net, Cells(r)), more, Len(done) + 1, Offset(reads), state)
  <2>1. Len(done) <= Len(reqs) => Len(done) + 1 \in 1 .. Len(reqs) + 1
    BY <1>1
  <2> QED
    BY <2>1, StreamGrows
<1> HIDE DEF more
<1>3. SUFFICES ASSUME AllWellFormed(more)
               PROVE  /\ ProcessedAsSent(done, more)
                      /\ Stream(Joined(net, Cells(r)), more, Len(done) + 1,
                                Offset(reads), state)
                      /\ reads = "body" =>
                           /\ Len(done) < Len(more)
                           /\ packet = more[Len(done) + 1].header
  BY DEF InStep, more
<1>4. AllWellFormed(reqs)
  BY <1>1, <1>3 DEF AllWellFormed
<1>5. /\ ProcessedAsSent(done, reqs)
      /\ Stream(net, reqs, Len(done) + 1, Offset(reads), state)
      /\ reads = "body" =>
           Len(done) < Len(reqs) /\ packet = reqs[Len(done) + 1].header
  BY <1>4 DEF InStep
<1>6. ProcessedAsSent(done, more)
  BY <1>1, <1>5 DEF ProcessedAsSent
<1>7. Len(done) <= Len(reqs)
  BY <1>5 DEF ProcessedAsSent
<1>8. reads = "body" =>
        Len(done) < Len(more) /\ packet = more[Len(done) + 1].header
  <2>1. Len(done) < Len(reqs) => Len(done) + 1 \in 1 .. Len(reqs)
                                 /\ Len(done) < Len(more)
    BY <1>1
  <2> QED
    BY <1>1, <1>5, <2>1
<1> QED
  BY <1>2, <1>5, <1>6, <1>7, <1>8

(* The connection ends. *)
LEMMA InStepCuts ==
  ASSUME NEW T, NEW done \in Seq(T), NEW reqs \in Seq(Requests),
         NEW net \in Seq(NetCells), NEW packet, NEW reads, NEW state,
         NEW n \in 0 .. Len(net), state # "closed",
         InStep(done, reqs, net, packet, reads, state)
  PROVE  InStep(done, reqs, SubSeq(net, 1, n), packet, reads, "closed")
<1>1. Len(done) + 1 \in Nat
  BY LenProperties
<1>2. Stream(net, reqs, Len(done) + 1, Offset(reads), state) =>
      Stream(SubSeq(net, 1, n), reqs, Len(done) + 1, Offset(reads), "closed")
  BY <1>1, StreamCut
<1> QED
  BY <1>2 DEF InStep

(* decode_header reads a well-formed header for what it says. *)
LEMMA WellFormedDecodes ==
  ASSUME NEW r \in Requests, WellFormed(r), NEW old
  PROVE  Accepted(old, r.header) /\ Decoded(old, r.header) = r.header
<1>1. r.header = [length |-> Len(r.body), type |-> r.type]
      /\ Len(r.body) <= MaxBody /\ Len(r.body) \in Nat /\ r.type \in Types
  BY RequestsAssumption, LenProperties DEF WellFormed
<1>2. r.header \in Headers /\ r.header \notin TextCells
  BY <1>1 DEF Headers, TextCells
<1>3. Scanned(old, r.header) = r.header
  BY <1>1, <1>2 DEF Scanned
<1>4. Accepted(old, r.header)
  BY <1>1, <1>3 DEF Accepted
<1> QED
  BY <1>1, <1>3, <1>4 DEF Decoded

(* The handler of read_header. *)
LEMMA InStepReadsHeader ==
  ASSUME NEW T, NEW done \in Seq(T), NEW reqs \in Seq(Requests),
         NEW net \in Seq(NetCells), net # << >>, NEW packet, NEW state,
         InStep(done, reqs, net, packet, "header", state)
  PROVE  InStep(done, reqs, Tail(net), Decoded(packet, Head(net)),
                IF Accepted(packet, Head(net)) THEN "body" ELSE "header",
                state)
<1>1. SUFFICES ASSUME AllWellFormed(reqs)
               PROVE  InStep(done, reqs, Tail(net), Decoded(packet, Head(net)),
                             IF Accepted(packet, Head(net))
                               THEN "body" ELSE "header", state)
  BY DEF InStep
<1> DEFINE from == Len(done) + 1
<1>2. Len(done) \in Nat /\ Len(reqs) \in Nat
  BY LenProperties
<1>3. /\ ProcessedAsSent(done, reqs)
      /\ Stream(net, reqs, from, 0, state)
  BY <1>1 DEF InStep, Offset
<1>4. from \in 1 .. Len(reqs) + 1
  BY <1>2, <1>3 DEF ProcessedAsSent
<1>5. /\ from <= Len(reqs)
      /\ Head(net) = reqs[from].header
      /\ Stream(Tail(net), reqs, from, -1, state)
  <2> HIDE DEF from
  <2> QED
    BY <1>3, <1>4, StreamHeader
<1>6. from \in 1 .. Len(reqs) /\ reqs[from] \in Requests
  BY <1>2, <1>5, ElementOfSeq
<1>7. WellFormed(reqs[from])
  BY <1>1, <1>6 DEF AllWellFormed
<1>8. /\ Accepted(packet, Head(net))
      /\ Decoded(packet, Head(net)) = reqs[from].header
  BY <1>5, <1>6, <1>7, WellFormedDecodes
<1>9. Offset("body") = -1 /\ Len(done) < Len(reqs)
  BY <1>2, <1>5 DEF Offset
<1>10. InStep(done, reqs, Tail(net), reqs[from].header, "body", state)
  BY <1>3, <1>5, <1>9 DEF InStep
<1> QED
  BY <1>8, <1>10

(* The handler of read_body. *)
LEMMA InStepReadsBody ==
  ASSUME NEW T, NEW done \in Seq(T), NEW reqs \in Seq(Requests),
         NEW net \in Seq(NetCells), NEW packet, NEW state,
         InStep(done, reqs, net, packet, "body", state),
         packet.length <= Len(net),
         NEW request \in T, request.type = packet.type,
         request.body = SubSeq(net, 1, packet.length)
  PROVE  InStep(Append(done, request), reqs, Dropped(net, packet.length),
                packet, "header", state)
<1>1. SUFFICES ASSUME AllWellFormed(reqs)
               PROVE  InStep(Append(done, request), reqs,
                             Dropped(net, packet.length), packet, "header",
                             state)
  BY DEF InStep
<1> DEFINE from == Len(done) + 1
           more == Append(done, request)
<1>2. /\ Len(done) \in Nat /\ Len(reqs) \in Nat /\ Len(more) = from
      /\ DOMAIN more = 1 .. from /\ DOMAIN done = 1 .. Len(done)
      /\ more[from] = request
      /\ \A i \in 1 .. Len(done) : more[i] = done[i]
  BY LenProperties, AppendProperties
<1>3. /\ ProcessedAsSent(done, reqs)
      /\ Stream(net, reqs, from, -1, state)
      /\ Len(done) < Len(reqs) /\ packet = reqs[from].header
  BY <1>1 DEF InStep, Offset
<1>4. from \in 1 .. Len(reqs) /\ reqs[from] \in Requests
  BY <1>2, <1>3, ElementOfSeq
<1>5. WellFormed(reqs[from])
  BY <1>1, <1>4 DEF AllWellFormed
<1>6. packet.length = Len(reqs[from].body) /\ packet.type = reqs[from].type
  BY <1>3, <1>5 DEF WellFormed
<1> HIDE DEF from, more
<1>7. /\ SubSeq(net, 1, packet.length) = reqs[from].body
      /\ Stream(Dropped(net, packet.length), reqs, from + 1, 0, state)
  BY <1>3, <1>4, <1>6, StreamBody
<1>8. ProcessedAsSent(more, reqs)
  <2>1. ASSUME NEW i \in 1 .. from
        PROVE  /\ more[i].type = reqs[i].type
               /\ more[i].body = reqs[i].body
    <3>1. CASE i = from
      BY <1>2, <1>6, <1>7, <3>1
    <3>2. CASE i # from
      <4>1. i \in 1 .. Len(done)
        BY <1>2, <3>2 DEF from
      <4> QED
        BY <1>2, <1>3, <4>1 DEF ProcessedAsSent
    <3> QED
      BY <3>1, <3>2
  <2>2. from <= Len(reqs)
    BY <1>4
  <2> QED
    BY <1>2, <2>1, <2>2 DEF ProcessedAsSent
<1>9. Offset("header") = 0
  BY DEF Offset
<1>10. InStep(more, reqs, Dropped(net, packet.length), packet, "header", state)
  BY <1>2, <1>7, <1>8, <1>9 DEF InStep
<1> QED
  BY <1>10 DEF more

(* The handler of a read_body that failed. *)
LEMMA InStepFails ==
  ASSUME NEW T, NEW done \in Seq(T), NEW reqs \in Seq(Requests),
         NEW net \in Seq(NetCells), NEW packet,
         InStep(done, reqs, net, packet, "body", "closed")
  PROVE  InStep(done, reqs, << >>, packet, "header", "closed")
<1>1. /\ Offset("header") = 0 /\ Offset("body") = -1
      /\ Len(done) \in Nat /\ Len(reqs) \in Nat
  BY LenProperties DEF Offset
<1>2. Len(done) < Len(reqs) => Len(done) + 1 \in 1 .. Len(reqs)
  BY <1>1
<1>3. Stream(net, reqs, Len(done) + 1, -1, "closed") /\ Len(done) < Len(reqs)
        => Stream(<< >>, reqs, Len(done) + 1, 0, "closed")
  BY <1>2, StreamEnds
<1> QED
  BY <1>1, <1>3 DEF InStep

(* A step that touches nothing of a session keeps it in step. *)
LEMMA SameSession ==
  ASSUME NEW c \in Clients, SessionInStep(c),
         processed'[c] = processed[c], sent'[c] = sent[c],
         net_in'[c] = net_in[c], read_packet'[c] = read_packet[c],
         reading'[c] = reading[c], conn'[c] = conn[c]
  PROVE  SessionInStep(c)'
BY DEF SessionInStep

(***************************************************************************)
(* Every step keeps the invariant: first the actions of the dispatcher and *)
(* the clients, which the backlog is about, then the handlers.             *)
(***************************************************************************)
LEMMA ConnectInStep ==
  ASSUME TypeOK, StreamInv, NEW c \in Clients, Connect(c)
  PROVE  StreamInv'
<1>1. /\ conn[c] = "away" /\ conn' = [conn EXCEPT ![c] = "open"]
      /\ backlog' = Append(backlog, c)
      /\ UNCHANGED <<reading, processed, sent, net_in, read_packet>>
  BY DEF Connect, sessionVars
<1>2. /\ backlog \in Seq(Clients) /\ Len(backlog) \in Nat
      /\ DOMAIN backlog = 1 .. Len(backlog)
      /\ DOMAIN backlog' = 1 .. Len(backlog) + 1
      /\ backlog'[Len(backlog) + 1] = c
      /\ \A i \in 1 .. Len(backlog) : backlog'[i] = backlog[i]
  BY <1>1, AppendProperties, LenProperties DEF TypeOK
<1>3. /\ conn'[c] = "open" /\ reading'[c] = "none"
      /\ \A d \in Clients : d # c => conn'[d] = conn[d]
  BY <1>1 DEF TypeOK, StreamInv, BacklogIsNew
<1>4. \A i \in 1 .. Len(backlog) : backlog[i] # c /\ backlog[i] \in Clients
  BY <1>1, <1>2, ElementOfSeq DEF StreamInv, BacklogIsNew
<1>5. BacklogIsNew'
  <2>1. ASSUME NEW i \in 1 .. Len(backlog) + 1,
               NEW j \in 1 .. Len(backlog) + 1, backlog'[i] = backlog'[j]
        PROVE  i = j
    BY <1>2, <1>4, <2>1 DEF StreamInv, BacklogIsNew
  <2>2. ASSUME NEW i \in 1 .. Len(backlog) + 1
        PROVE  reading'[backlog'[i]] = "none" /\ conn'[backlog'[i]] # "away"
    <3>1. CASE i = Len(backlog) + 1
      BY <1>2, <1>3, <3>1
    <3>2. CASE i # Len(backlog) + 1
      <4>1. i \in 1 .. Len(backlog)
        BY <1>2, <3>2
      <4> QED
        BY <1>1, <1>2, <1>3, <1>4, <4>1 DEF StreamInv, BacklogIsNew
    <3> QED
      BY <3>1, <3>2
  <2>3. ASSUME NEW d \in Clients, conn'[d] = "away"
        PROVE  reading'[d] = "none"
    BY <1>1, <1>3, <2>3 DEF StreamInv, BacklogIsNew
  <2> QED
    BY <1>2, <2>1, <2>2, <2>3 DEF BacklogIsNew
<1>6. SessionInStep(c)'
  BY <1>1, <1>3, InStepOpens DEF StreamInv, SessionInStep
<1>7. ASSUME NEW d \in Clients, d # c
      PROVE  SessionInStep(d)'
  BY <1>1, <1>3, <1>7, SameSession DEF StreamInv
<1> QED
  BY <1>5, <1>6, <1>7 DEF StreamInv

(* The server accepts the next client, and starts to read its headers. *)
LEMMA AcceptInStep ==
  ASSUME TypeOK, StreamInv, Accept
  PROVE  StreamInv'
<1> PICK c \in Clients : c = Head(backlog)
  BY HeadTailProperties DEF Accept, TypeOK
<1>1. /\ backlog # << >> /\ backlog' = Tail(backlog)
      /\ reading' = [reading EXCEPT ![c] = "header"]
      /\ UNCHANGED <<conn, processed, sent, net_in, read_packet>>
  BY DEF Accept
<1>2. /\ backlog \in Seq(Clients) /\ Len(backlog) \in Nat \ {0}
      /\ DOMAIN backlog = 1 .. Len(backlog)
      /\ DOMAIN backlog' = 1 .. Len(backlog) - 1
      /\ c = backlog[1]
      /\ \A i \in 1 .. Len(backlog) - 1 : backlog'[i] = backlog[i + 1]
  BY <1>1, HeadTailProperties, EmptySeq, LenProperties DEF TypeOK
<1>3. /\ reading[c] = "none" /\ conn[c] # "away" /\ reading'[c] = "header"
      /\ \A d \in Clients : d # c => reading'[d] = reading[d]
  <2>1. 1 \in DOMAIN backlog
    BY <1>2
  <2> QED
    BY <1>1, <1>2, <2>1 DEF TypeOK, StreamInv, BacklogIsNew
<1>4. \A i \in 1 .. Len(backlog) - 1 :
        i + 1 \in DOMAIN backlog /\ backlog[i + 1] # c
        /\ backlog[i + 1] \in Clients
  <2>1. ASSUME NEW i \in 1 .. Len(backlog) - 1
        PROVE  /\ i + 1 \in 1 .. Len(backlog) /\ i + 1 # 1
               /\ 1 \in 1 .. Len(backlog)
    BY <1>2
  <2>2. \A k, j \in 1 .. Len(backlog) : backlog[k] = backlog[j] => k = j
    BY <1>2 DEF StreamInv, BacklogIsNew
  <2> QED
    BY <1>2, <2>1, <2>2, ElementOfSeq
<1>5. BacklogIsNew'
  <2>1. ASSUME NEW i \in 1 .. Len(backlog) - 1,
               NEW j \in 1 .. Len(backlog) - 1, backlog'[i] = backlog'[j]
        PROVE  i = j
    <3>1. i + 1 = j + 1
      BY <1>2, <1>4, <2>1 DEF StreamInv, BacklogIsNew
    <3> QED
      BY <1>2, <3>1
  <2>2. ASSUME NEW i \in 1 .. Len(backlog) - 1
        PROVE  reading'[backlog'[i]] = "none" /\ conn'[backlog'[i]] # "away"
    BY <1>1, <1>2, <1>3, <1>4 DEF StreamInv, BacklogIsNew
  <2>3. ASSUME NEW d \in Clients, conn'[d] = "away"
        PROVE  reading'[d] = "none"
    BY <1>1, <1>3, <2>3 DEF StreamInv, BacklogIsNew
  <2> QED
    BY <1>2, <2>1, <2>2, <2>3 DEF BacklogIsNew
<1>6. SessionInStep(c)'
  BY <1>1, <1>2, <1>3, InStepStarts DEF StreamInv, SessionInStep
<1>7. ASSUME NEW d \in Clients, d # c
      PROVE  SessionInStep(d)'
  BY <1>1, <1>3, <1>7, SameSession DEF StreamInv
<1> QED
  BY <1>5, <1>6, <1>7 DEF StreamInv

(* What a step of one session, or of its client, leaves alone. *)
LEMMA OneSession ==
  ASSUME TypeOK, StreamInv, NEW c \in Clients, SessionInStep(c)',
         backlog' = backlog, conn[c] # "away", conn'[c] # "away",
         reading'[c] = "none" <=> reading[c] = "none",
         \A d \in Clients : d # c =>
           /\ processed'[d] = processed[d] /\ sent'[d] = sent[d]
           /\ net_in'[d] = net_in[d] /\ read_packet'[d] = read_packet[d]
           /\ reading'[d] = reading[d] /\ conn'[d] = conn[d]
  PROVE  StreamInv'
<1>1. \A d \in Clients : SessionInStep(d)'
  BY SameSession DEF StreamInv
<1>2. \A i \in DOMAIN backlog : backlog[i] \in Clients
  BY LenProperties, ElementOfSeq DEF TypeOK
<1>3. /\ \A d \in Clients : reading'[d] = "none" <=> reading[d] = "none"
      /\ \A d \in Clients : conn'[d] = "away" <=> conn[d] = "away"
  OBVIOUS
<1>4. BacklogIsNew'
  BY <1>2, <1>3 DEF StreamInv, BacklogIsNew
<1> QED
  BY <1>1, <1>4 DEF StreamInv

(* Every step keeps server and clients in step. *)
LEMMA NextStreamInv == TypeOK /\ StreamInv /\ [Next]_vars => StreamInv'
<1> SUFFICES ASSUME TypeOK, StreamInv, [Next]_vars
             PROVE  StreamInv'
  OBVIOUS
<1> USE DEF StreamInv
<1>1. ASSUME NEW c \in Clients
      PROVE  /\ processed[c] \in Seq([type : Types, body : Seq(NetCells)])
             /\ sent[c] \in Seq(Requests) /\ net_in[c] \in Seq(NetCells)
             /\ SessionInStep(c)
             /\ conn[c] = "away" => reading[c] = "none"
  BY DEF TypeOK, BacklogIsNew
<1>2. CASE Accept
  BY <1>2, AcceptInStep
<1>3. ASSUME NEW c \in Clients, Connect(c)
      PROVE  StreamInv'
  BY <1>3, ConnectInStep
<1>4. ASSUME NEW c \in Clients, NEW r \in Requests, Send(c, r)
      PROVE  StreamInv'
  <2>1. /\ conn[c] = "open" /\ conn' = conn /\ backlog' = backlog
        /\ sent' = [sent EXCEPT ![c] = Append(@, r)]
        /\ net_in' = [net_in EXCEPT ![c] = @ \o Cells(r)]
        /\ UNCHANGED <<reading, read_packet, processed>>
    BY <1>4 DEF Send
  <2>2. /\ sent'[c] = Append(sent[c], r)
        /\ net_in'[c] = Joined(net_in[c], Cells(r))
        /\ \A d \in Clients : d # c => sent'[d] = sent[d]
                                       /\ net_in'[d] = net_in[d]
    BY <2>1 DEF TypeOK, Joined
  <2>3. SessionInStep(c)'
    BY <1>1, <2>1, <2>2, InStepSends DEF SessionInStep
  <2> QED
    BY <2>1, <2>2, <2>3, OneSession
<1>5. ASSUME NEW c \in Clients, NEW n \in 0 .. Len(net_in[c]),
             Disconnect(c, n)
      PROVE  StreamInv'
  <2>1. /\ conn[c] = "open" /\ conn' = [conn EXCEPT ![c] = "closed"]
        /\ net_in' = [net_in EXCEPT ![c] = SubSeq(@, 1, n)]
        /\ UNCHANGED <<backlog, sent, reading, read_packet, processed>>
    BY <1>5 DEF Disconnect
  <2>2. /\ conn'[c] = "closed" /\ net_in'[c] = SubSeq(net_in[c], 1, n)
        /\ \A d \in Clients : d # c => conn'[d] = conn[d]
                                       /\ net_in'[d] = net_in[d]
    BY <2>1 DEF TypeOK
  <2>3. InStep(processed[c], sent[c], SubSeq(net_in[c], 1, n),
               read_packet[c], reading[c], "closed")
    BY <1>1, <2>1, InStepCuts DEF SessionInStep
  <2>4. SessionInStep(c)'
    BY <2>1, <2>2, <2>3 DEF SessionInStep
  <2> QED
    BY <2>1, <2>2, <2>4, OneSession
<1>6. ASSUME NEW c \in Clients, HeaderRead(c)
      PROVE  StreamInv'
  <2>1. /\ reading[c] = "header" /\ net_in[c] # << >>
        /\ net_in' = [net_in EXCEPT ![c] = Tail(@)]
        /\ read_packet' =
             [read_packet EXCEPT ![c] = Decoded(@, Head(net_in[c]))]
        /\ reading' = [reading EXCEPT ![c] =
             IF Accepted(read_packet[c], Head(net_in[c]))
               THEN "body" ELSE "header"]
        /\ UNCHANGED <<backlog, conn, sent, processed>>
    BY <1>6 DEF HeaderRead
  <2>2. /\ net_in'[c] = Tail(net_in[c])
        /\ read_packet'[c] = Decoded(read_packet[c], Head(net_in[c]))
        /\ reading'[c] = IF Accepted(read_packet[c], Head(net_in[c]))
                           THEN "body" ELSE "header"
        /\ \A d \in Clients : d # c =>
             /\ net_in'[d] = net_in[d] /\ read_packet'[d] = read_packet[d]
             /\ reading'[d] = reading[d]
    BY <2>1 DEF TypeOK
  <2>3. InStep(processed[c], sent[c], net_in[c], read_packet[c], "header",
               conn[c])
    BY <1>1, <2>1 DEF SessionInStep
  <2>4. SessionInStep(c)'
    BY <1>1, <2>1, <2>2, <2>3, InStepReadsHeader DEF SessionInStep
  <2>5. conn[c] # "away" /\ reading'[c] # "none" /\ reading[c] # "none"
    BY <1>1, <2>1, <2>2
  <2> QED
    BY <2>1, <2>2, <2>4, <2>5, OneSession
<1>7. ASSUME NEW c \in Clients, BodyRead(c)
      PROVE  StreamInv'
  <2> DEFINE n == read_packet[c].length
             request == [type |-> read_packet[c].type,
                         body |-> SubSeq(net_in[c], 1, n)]
  <2>1. /\ reading[c] = "body" /\ Len(net_in[c]) >= n
        /\ net_in' = [net_in EXCEPT ![c] = SubSeq(@, n + 1, Len(@))]
        /\ processed' = [processed EXCEPT ![c] = Append(@, request)]
        /\ reading' = [reading EXCEPT ![c] = "header"]
        /\ UNCHANGED <<backlog, conn, sent, read_packet>>
    BY <1>7 DEF BodyRead
  <2>2. /\ net_in'[c] = Dropped(net_in[c], n)
        /\ processed'[c] = Append(processed[c], request)
        /\ reading'[c] = "header"
        /\ \A d \in Clients : d # c =>
             /\ net_in'[d] = net_in[d] /\ processed'[d] = processed[d]
             /\ reading'[d] = reading[d]
    BY <2>1 DEF TypeOK, Dropped
  <2>3. request \in [type : Types, body : Seq(NetCells)]
    <3>1. /\ n \in Nat /\ read_packet[c].type \in Types
          /\ Len(net_in[c]) \in Nat
      BY <1>1, BoundsAssumption, LenProperties DEF TypeOK
    <3>2. SubSeq(net_in[c], 1, n) \in Seq(NetCells)
      <4> HIDE DEF n
      <4> QED
        BY <1>1, <2>1, <3>1, ElementOfSeq, SubSeqProperties, Z3
    <3> QED
      BY <3>1, <3>2
  <2>4. InStep(processed[c], sent[c], net_in[c], read_packet[c], "body",
               conn[c])
    BY <1>1, <2>1 DEF SessionInStep
  <2>5. /\ request.type = read_packet[c].type
        /\ request.body = SubSeq(net_in[c], 1, n) /\ n <= Len(net_in[c])
    BY <1>1, <2>1, BoundsAssumption, LenProperties DEF TypeOK
  <2> HIDE DEF request
  <2>6. InStep(Append(processed[c], request), sent[c],
               Dropped(net_in[c], n), read_packet[c], "header", conn[c])
    BY <1>1, <2>3, <2>4, <2>5, InStepReadsBody
  <2>7. SessionInStep(c)'
    BY <2>1, <2>2, <2>6 DEF SessionInStep
  <2> QED
    BY <1>1, <2>1, <2>2, <2>7, OneSession
<1>8. ASSUME NEW c \in Clients, BodyFailed(c)
      PROVE  StreamInv'
  <2>1. /\ reading[c] = "body" /\ conn[c] = "closed"
        /\ net_in' = [net_in EXCEPT ![c] = << >>]
        /\ reading' = [reading EXCEPT ![c] = "header"]
        /\ UNCHANGED <<backlog, conn, sent, read_packet, processed>>
    BY <1>8 DEF BodyFailed
  <2>2. /\ net_in'[c] = << >> /\ reading'[c] = "header"
        /\ \A d \in Clients : d # c => net_in'[d] = net_in[d]
                                       /\ reading'[d] = reading[d]
    BY <2>1 DEF TypeOK
  <2>3. SessionInStep(c)'
    BY <1>1, <2>1, <2>2, InStepFails DEF SessionInStep
  <2> QED
    BY <2>1, <2>2, <2>3, OneSession
<1>9. ASSUME UNCHANGED <<conn, backlog, sent, reading, read_packet, net_in,
                         processed>>
      PROVE  StreamInv'
  BY <1>9 DEF BacklogIsNew, SessionInStep
<1>10. ASSUME NEW c \in Clients, WriteDone(c) \/ WriteFailed(c)
       PROVE  StreamInv'
  BY <1>9, <1>10 DEF WriteDone, WriteFailed
<1>11. CASE UNCHANGED vars
  BY <1>9, <1>11 DEF vars, sessionVars
<1> QED
  BY <1>2, <1>3, <1>4, <1>5, <1>6, <1>7, <1>8, <1>10, <1>11
  DEF Next, Handler, WriteHandler, HeaderFailed

(* A client that sends only well-formed packets has them processed as it   *)
(* sent them, one by one and in order, however many there are, wherever    *)
(* the connection is cut and whatever the other clients send.              *)
THEOREM RequestsAlwaysInOrder == Spec => []RequestsInOrder
<1>1. Spec => []StreamInv
  BY InitStreamInv, NextStreamInv, ServerType, PTL DEF Spec
<1> QED
  BY <1>1, StreamInvImplies, PTL
=============================================================================
