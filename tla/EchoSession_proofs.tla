------------------------- MODULE EchoSession_proofs -------------------------
(***************************************************************************)
(* The theorem about the terminal client and the echo server, for any      *)
(* number of words.                                                        *)
(***************************************************************************)
EXTENDS EchoSession, SequenceTheorems, TLAPS

Packets == Nat \ {0}

-----------------------------------------------------------------------------
(* A sequence with a length has an element. *)
LEMMA NotEmpty ==
  \A s : Len(s) > 0 => s # <<>>
<1>1. Len(<<>>) = 0
  BY EmptySeq
<1> QED BY <1>1

(* The provers match these names where they would expand what they name. *)
Joined(x, y) == x \o y
Onto(a, b) == Append(a, Head(b))
Rest(b) == Tail(b)
Extended(a, e) == Append(a, e)

(* Two queues one after the other are a queue. *)
LEMMA JoinedType ==
  ASSUME NEW S, NEW x \in Seq(S), NEW y \in Seq(S)
  PROVE  Joined(x, y) \in Seq(S)
  BY ConcatProperties DEF Joined

(* It is all one how the queues on the way are grouped. *)
LEMMA JoinedAssociative ==
  ASSUME NEW S, NEW x \in Seq(S), NEW y \in Seq(S), NEW z \in Seq(S)
  PROVE  Joined(Joined(x, y), z) = Joined(x, Joined(y, z))
  BY ConcatAssociative DEF Joined

(* An element that moves on from the front of one sequence to the end of   *)
(* the one before it leaves the whole as it was.                           *)
LEMMA MovedOn ==
  ASSUME NEW S, NEW x \in Seq(S), NEW a \in Seq(S), NEW b \in Seq(S), b # <<>>
  PROVE  Joined(Joined(x, Onto(a, b)), Rest(b)) = Joined(Joined(x, a), b)
<1> DEFINE h == <<Head(b)>>
           r == Tail(b)
<1>1. Head(b) \in S /\ r \in Seq(S) /\ h \in Seq(S)
  BY HeadTailProperties
<1>2. Onto(a, b) = Joined(a, h)
  BY <1>1, AppendIsConcat DEF Onto, Joined
<1>3. b = Joined(h, r)
  <2>1. Len(h \o Tail(b)) = Len(b) /\ h \o Tail(b) \in Seq(S)
    BY <1>1, HeadTailProperties, ConcatProperties
  <2>2. ASSUME NEW i \in 1 .. Len(b) PROVE b[i] = (h \o Tail(b))[i]
    BY <1>1, HeadTailProperties, ConcatProperties
  <2> QED BY <2>1, <2>2, SeqEqual DEF Joined
<1>4. Rest(b) = r
  BY DEF Rest
<1> HIDE DEF h, r
<1>5. Joined(x, Joined(a, h)) = Joined(Joined(x, a), h)
  BY <1>1, JoinedAssociative
<1>6. Joined(x, a) \in Seq(S)
  BY JoinedType
<1>7. Joined(Joined(Joined(x, a), h), r) = Joined(Joined(x, a), Joined(h, r))
  BY <1>1, <1>6, JoinedAssociative
<1> QED BY <1>2, <1>3, <1>4, <1>5, <1>7

(* What is put on the last queue comes last of all. *)
LEMMA AddedLast ==
  ASSUME NEW S, NEW x \in Seq(S), NEW a \in Seq(S), NEW e \in S
  PROVE  Joined(x, Extended(a, e)) = Extended(Joined(x, a), e)
<1> DEFINE l == <<e>>
<1>1. l \in Seq(S)
  OBVIOUS
<1>2. \A q \in Seq(S) : Extended(q, e) = Joined(q, l)
  BY AppendIsConcat DEF Extended, Joined
<1> HIDE DEF l
<1>3. Joined(x, a) \in Seq(S)
  BY JoinedType
<1>4. Joined(x, Joined(a, l)) = Joined(Joined(x, a), l)
  BY <1>1, JoinedAssociative
<1> QED BY <1>2, <1>3, <1>4

(* The words among the posted handlers. *)
WordsOf(p) ==
  IF p # <<>> /\ p[Len(p)] = Close THEN SubSeq(p, 1, Len(p) - 1) ELSE p

(* The close posted behind the words is not a word. *)
LEMMA WordsOfPosted ==
  ASSUME NEW p \in Seq(Packets \cup {Close})
  PROVE  /\ WordsOf(p) \in Seq(Packets \cup {Close})
         /\ \A e \in Packets : p \in Seq(Packets) =>
              WordsOf(p) = p /\ WordsOf(Append(p, e)) = Append(p, e)
         /\ p \in Seq(Packets) => WordsOf(Append(p, Close)) = p
         /\ p # <<>> /\ Head(p) # Close =>
              /\ WordsOf(p) # <<>>
              /\ Head(WordsOf(p)) = Head(p)
              /\ Tail(WordsOf(p)) = WordsOf(Tail(p))
<1> DEFINE S == Packets \cup {Close}
<1>0. Close \notin Packets
  BY DEF Close, Packets
<1>1. WordsOf(p) \in Seq(S)
  <2>1. p # <<>> => Len(p) - 1 \in 0 .. Len(p)
    OBVIOUS
  <2> QED BY <2>1, SubSeqProperties DEF WordsOf
<1>2. ASSUME NEW e \in Packets, p \in Seq(Packets)
      PROVE  WordsOf(p) = p /\ WordsOf(Append(p, e)) = Append(p, e)
  <2>1. p # <<>> => p[Len(p)] # Close
    BY <1>0, <1>2, ElementOfSeq
  <2>2. Append(p, e)[Len(Append(p, e))] # Close
    BY <1>0, <1>2, AppendProperties
  <2> QED BY <2>1, <2>2 DEF WordsOf
<1>3. ASSUME p \in Seq(Packets) PROVE WordsOf(Append(p, Close)) = p
  <2>1. /\ Append(p, Close) # <<>>
        /\ Len(Append(p, Close)) = Len(p) + 1
        /\ Append(p, Close)[Len(p) + 1] = Close
    BY AppendProperties
  <2>2. SubSeq(Append(p, Close), 1, Len(p)) = p
    BY AppendProperties
  <2> QED BY <2>1, <2>2 DEF WordsOf
<1>4. ASSUME p # <<>>, Head(p) # Close
      PROVE  /\ WordsOf(p) # <<>>
             /\ Head(WordsOf(p)) = Head(p)
             /\ Tail(WordsOf(p)) = WordsOf(Tail(p))
  <2>1. /\ Tail(p) \in Seq(S) /\ Len(Tail(p)) = Len(p) - 1
        /\ \A i \in 1 .. Len(Tail(p)) : Tail(p)[i] = p[i + 1]
    BY <1>4, HeadTailProperties
  <2>2. CASE p[Len(p)] = Close
    <3>1. Len(p) > 1
      BY <1>4, <2>2
    <3>2. Tail(p) # <<>> /\ Tail(p)[Len(Tail(p))] = Close
      <4>1. Len(p) \in Nat /\ Len(p) - 1 \in 1 .. Len(Tail(p)) /\ (Len(p) - 1) + 1 = Len(p)
        BY <2>1, <3>1, LenProperties
      <4>2. Tail(p)[Len(p) - 1] = p[(Len(p) - 1) + 1]
        BY <2>1, <4>1
      <4>3. Tail(p) # <<>>
        <5>1. Len(Tail(p)) > 0
          BY <2>1, <3>1
        <5> QED BY <5>1, NotEmpty, Zenon
      <4> QED BY <2>1, <2>2, <4>1, <4>2, <4>3
    <3>3. WordsOf(p) = SubSeq(p, 1, Len(p) - 1)
      BY <1>4, <2>2 DEF WordsOf
    <3>4. WordsOf(Tail(p)) = SubSeq(Tail(p), 1, Len(p) - 2)
      BY <2>1, <3>2 DEF WordsOf
    <3>5. Head(SubSeq(p, 1, Len(p) - 1)) = p[1]
          /\ Tail(SubSeq(p, 1, Len(p) - 1)) = SubSeq(p, 2, Len(p) - 1)
          /\ SubSeq(p, 1, Len(p) - 1) # <<>>
      <4>1. 1 \in 1 .. Len(p) /\ Len(p) - 1 \in 1 .. Len(p)
        BY <3>1
      <4>2. Len(SubSeq(p, 1, Len(p) - 1)) = Len(p) - 1
        BY <3>1
      <4>3. SubSeq(p, 1, Len(p) - 1) # <<>>
        <5>1. Len(SubSeq(p, 1, Len(p) - 1)) > 0
          BY <3>1, <4>2
        <5> QED BY <5>1, NotEmpty, Zenon
      <4> QED BY <4>1, <4>3, HeadTailOfSubSeq
    <3>6. SubSeq(Tail(p), 1, Len(p) - 2) = SubSeq(p, 2, Len(p) - 1)
      <4>1. /\ Len(SubSeq(Tail(p), 1, Len(p) - 2)) = Len(p) - 2
            /\ Len(SubSeq(p, 2, Len(p) - 1)) = Len(p) - 2
            /\ SubSeq(Tail(p), 1, Len(p) - 2) \in Seq(S)
            /\ SubSeq(p, 2, Len(p) - 1) \in Seq(S)
        BY <2>1, <3>1
      <4>2. ASSUME NEW i \in 1 .. Len(p) - 2
            PROVE  SubSeq(Tail(p), 1, Len(p) - 2)[i] = SubSeq(p, 2, Len(p) - 1)[i]
        BY <2>1, <3>1
      <4> QED BY <4>1, <4>2, SeqEqual
    <3>7. Head(p) = p[1]
      BY <1>4
    <3> QED BY <3>3, <3>4, <3>5, <3>6, <3>7
  <2>3. CASE p[Len(p)] # Close
    <3>1. WordsOf(p) = p
      BY <2>3 DEF WordsOf
    <3>2. Tail(p) # <<>> => Tail(p)[Len(Tail(p))] # Close
      <4>1. ASSUME Tail(p) # <<>> PROVE Tail(p)[Len(Tail(p))] # Close
        <5>1. Len(p) \in Nat /\ Len(Tail(p)) \in Nat
          BY <2>1, LenProperties
        <5>2. Len(Tail(p)) # 0
          BY <2>1, <4>1, EmptySeq
        <5>3. Len(p) - 1 \in 1 .. Len(Tail(p)) /\ (Len(p) - 1) + 1 = Len(p)
          BY <2>1, <5>1, <5>2
        <5>4. Tail(p)[Len(p) - 1] = p[(Len(p) - 1) + 1]
          BY <2>1, <5>3
        <5> QED BY <2>1, <2>3, <5>3, <5>4
      <4> QED BY <4>1
    <3>3. WordsOf(Tail(p)) = Tail(p)
      BY <3>2 DEF WordsOf
    <3> QED BY <1>4, <3>1, <3>3
  <2> QED BY <2>2, <2>3
<1> QED BY <1>1, <1>2, <1>3, <1>4
-----------------------------------------------------------------------------
(***************************************************************************)
(* What the handlers rely on: something is written while a write is under  *)
(* way, a packet is held only between the read of its body and its output, *)
(* and nothing is read before the connection is made.                      *)
(***************************************************************************)
Types ==
  /\ words \in Nat
  /\ posted \in Seq(Packets \cup {Close})
  /\ main = "typing" => posted \in Seq(Packets)
  /\ write_packets_ \in Seq(Packets)
  /\ toServer \in Seq(Packets)
  /\ echo_packets_ \in Seq(Packets)
  /\ toClient \in Seq(Packets)
  /\ printed \in Seq(Packets)
  /\ read_packet_ \in Packets \cup {Nothing}

Operations ==
  /\ writing \in {"writing", "written"} => write_packets_ # <<>>
  /\ reading = "bodyRead" <=> read_packet_ # Nothing
  /\ connecting \in {"connecting", "connected"} => reading = "none"
  /\ echoing => echo_packets_ # <<>>

(* The program starts with nothing under way. *)
LEMMA InitControl == Init => Types /\ Operations
  BY EmptySeq DEF Init, ClientInit, ServerInit, Types, Operations, Nothing, Packets

(* No step leaves the types, or starts a second read or write. *)
LEMMA KeepsControl ==
  Types /\ Operations /\ [Next]_vars => Types' /\ Operations'
<1> SUFFICES ASSUME Types, Operations, [Next]_vars PROVE Types' /\ Operations'
  OBVIOUS
<1> USE DEF Types, Operations
<1>0. /\ Nothing \notin Packets /\ Close \notin Packets /\ Close # Nothing
      /\ words + 1 \in Packets
  BY DEF Nothing, Packets, Close
<1>1. \A S, q : q \in Seq(S) /\ q # <<>> =>
        Head(q) \in S /\ Tail(q) \in Seq(S) /\ Len(Tail(q)) = Len(q) - 1
  BY HeadTailProperties
<1>2. \A S, q, e : q \in Seq(S) /\ e \in S => Append(q, e) \in Seq(S) /\ Append(q, e) # <<>>
  BY AppendProperties
<1>3. \A S, q, n : q \in Seq(S) /\ n \in 0 .. Len(q) => SubSeq(q, 1, n) \in Seq(S)
  BY SubSeqProperties
<1>4. \A S, q : q \in Seq(S) /\ Len(q) > 1 => q # <<>> /\ Tail(q) # <<>>
  <2>1. ASSUME NEW S, NEW q \in Seq(S), Len(q) > 1 PROVE q # <<>> /\ Tail(q) # <<>>
    <3>1. Len(q) > 0
      BY <2>1
    <3>2. q # <<>>
      BY <3>1, NotEmpty, Zenon
    <3>3. Len(Tail(q)) > 0
      BY <1>1, <2>1, <3>2
    <3> QED BY <3>2, <3>3, NotEmpty, Zenon
  <2> QED BY <2>1
<1>5. posted \in Seq(Packets) => \A e \in Packets : Append(posted, e) \in Seq(Packets)
  BY <1>2
<1> DEFINE S == Packets \cup {Close}
<1>10. ASSUME Letter, UNCHANGED serverVars PROVE Types' /\ Operations'
  BY <1>10 DEF Letter, operationVars, packetVars, connectionVars, serverVars
<1>11. ASSUME Space, UNCHANGED serverVars PROVE Types' /\ Operations'
  <2>1. posted' \in Seq(S) /\ posted' \in Seq(Packets) /\ words' \in Nat
    BY <1>0, <1>2, <1>11 DEF Space
  <2> QED BY <1>11, <2>1 DEF Space, operationVars, packetVars, connectionVars, serverVars
<1>12. ASSUME EndOfInput, UNCHANGED serverVars PROVE Types' /\ Operations'
  <2>1. posted' \in Seq(S) /\ main' # "typing"
    BY <1>2, <1>12 DEF EndOfInput
  <2> QED BY <1>12, <2>1 DEF EndOfInput, operationVars, packetVars, connectionVars, serverVars
<1>13. ASSUME Join, UNCHANGED serverVars PROVE Types' /\ Operations'
  BY <1>13 DEF Join, operationVars, packetVars, connectionVars, serverVars
<1>14. ASSUME Connect, UNCHANGED serverVars PROVE Types' /\ Operations'
  BY <1>14 DEF Connect, Established, Refused, keyboardVars, packetVars, serverVars
<1>15. ASSUME Write, UNCHANGED serverVars PROVE Types' /\ Operations'
  <2>1. toServer' \in Seq(Packets)
    BY <1>1, <1>2, <1>15 DEF Write
  <2> QED BY <1>15, <2>1 DEF Write, keyboardVars, packetVars, serverVars
<1>16. ASSUME Read, UNCHANGED serverVars PROVE Types' /\ Operations'
  <2>1. CASE reading = "header"
    BY <1>16, <2>1 DEF Read, keyboardVars, serverVars
  <2>2. CASE reading = "body"
    <3>1. read_packet_' \in Packets /\ toClient' \in Seq(Packets)
      BY <1>1, <1>16, <2>2 DEF Read
    <3> QED BY <1>0, <1>16, <2>2, <3>1 DEF Read, keyboardVars, serverVars
  <2> QED BY <1>16, <2>1, <2>2 DEF Read
<1>17. ASSUME Fail, UNCHANGED serverVars PROVE Types' /\ Operations'
  BY <1>17 DEF Fail, keyboardVars, packetVars, connectionVars, serverVars
<1>18. ASSUME HandlePostedClose, UNCHANGED serverVars PROVE Types' /\ Operations'
  <2>1. posted' \in Seq(S) /\ (posted \in Seq(Packets) => posted' \in Seq(Packets))
    BY <1>1, <1>18 DEF HandlePostedClose
  <2> QED BY <1>18, <2>1 DEF HandlePostedClose, CloseSocket, Aborted,
               keyboardVars, packetVars, connectionVars, serverVars
<1>19. ASSUME HandlePostedWrite, UNCHANGED serverVars PROVE Types' /\ Operations'
  <2>1. posted' \in Seq(S) /\ (posted \in Seq(Packets) => posted' \in Seq(Packets))
    BY <1>1, <1>19 DEF HandlePostedWrite
  <2>2. write_packets_' \in Seq(Packets) /\ write_packets_' # <<>>
    BY <1>1, <1>2, <1>19 DEF HandlePostedWrite
  <2> QED BY <1>19, <2>1, <2>2 DEF HandlePostedWrite, keyboardVars, connectionVars, serverVars
<1>20. ASSUME HandleConnect, UNCHANGED serverVars PROVE Types' /\ Operations'
  BY <1>20 DEF HandleConnect, Started, keyboardVars, packetVars, connectionVars, serverVars
<1>21. ASSUME HandleWritten, UNCHANGED serverVars PROVE Types' /\ Operations'
  <2>1. write_packets_' \in Seq(Packets)
    BY <1>1, <1>21 DEF HandleWritten
  <2>2. writing' \in {"writing", "written"} => write_packets_' # <<>>
    BY <1>4, <1>21 DEF HandleWritten, Started
  <2> QED BY <1>21, <2>1, <2>2 DEF HandleWritten, keyboardVars, connectionVars, serverVars
<1>22. ASSUME HandleWriteFailed, UNCHANGED serverVars PROVE Types' /\ Operations'
  BY <1>22 DEF HandleWriteFailed, Aborted, keyboardVars, packetVars, connectionVars, serverVars
<1>23. ASSUME HandleRead, UNCHANGED serverVars PROVE Types' /\ Operations'
  <2>1. printed' \in Seq(Packets)
    BY <1>2, <1>23 DEF HandleRead
  <2> QED BY <1>23, <2>1 DEF HandleRead, Started, keyboardVars, connectionVars, serverVars
<1>24. ASSUME HandleReadFailed, UNCHANGED serverVars PROVE Types' /\ Operations'
  BY <1>24 DEF HandleReadFailed, Aborted, keyboardVars, packetVars, connectionVars, serverVars
<1>25. ASSUME RunReturns, UNCHANGED serverVars PROVE Types' /\ Operations'
  BY <1>25 DEF RunReturns, keyboardVars, operationVars, packetVars, connectionVars, serverVars
<1>26. ASSUME ServerNext, UNCHANGED clientVars PROVE Types' /\ Operations'
  <2> USE DEF clientVars, keyboardVars, operationVars, packetVars
  <2>1. CASE Accept
    BY <1>26, <2>1 DEF Accept, connectionVars
  <2>2. CASE ReceiveHeader
    BY <1>26, <2>2 DEF ReceiveHeader, connectionVars
  <2>3. CASE ReceiveBody
    <3>1. toServer' \in Seq(Packets) /\ echo_packets_' \in Seq(Packets) /\ echo_packets_' # <<>>
      BY <1>1, <1>2, <2>3 DEF ReceiveBody
    <3> QED BY <1>26, <2>3, <3>1 DEF ReceiveBody
  <2>4. CASE Echo
    <3>1. toClient' \in Seq(Packets) /\ echo_packets_' \in Seq(Packets)
      BY <1>1, <1>2, <2>4 DEF Echo
    <3>2. echoing' => echo_packets_' # <<>>
      BY <1>4, <2>4 DEF Echo
    <3> QED BY <1>26, <2>4, <3>1, <3>2 DEF Echo
  <2>5. CASE ServerError
    BY <1>26, <2>5 DEF ServerError, connectionVars
  <2> QED BY <1>26, <2>1, <2>2, <2>3, <2>4, <2>5 DEF ServerNext
<1>27. ASSUME Lost, UNCHANGED <<clientVars, serverVars>> PROVE Types' /\ Operations'
  <2>1. toServer' \in Seq(Packets) /\ toClient' \in Seq(Packets)
    BY <1>3, <1>27 DEF Lost
  <2> QED BY <1>27, <2>1 DEF clientVars, keyboardVars, operationVars, packetVars, serverVars
<1>28. ASSUME UNCHANGED vars PROVE Types' /\ Operations'
  BY <1>28 DEF vars, clientVars, keyboardVars, operationVars, packetVars, serverVars,
               connectionVars
<1> QED
  BY <1>10, <1>11, <1>12, <1>13, <1>14, <1>15, <1>16, <1>17, <1>18, <1>19, <1>20,
     <1>21, <1>22, <1>23, <1>24, <1>25, <1>26, <1>27, <1>28
  DEF Next, ClientNext, Handler
-----------------------------------------------------------------------------
(* The words in the order the property puts them: printed, being read,     *)
(* under way to the client, in the server, under way to it, queued, posted.*)
InOrder(p, a, c, e, s, u, w) ==
  Joined(Joined(Joined(Joined(Joined(Joined(p, a), c), e), s), u), w)

Arranged ==
  InOrder(printed, Arrived, toClient, echo_packets_, toServer, Unwritten, PostedWords)

WordsUpTo(n) == [i \in 1 .. n |-> i]

(* Whatever moves from the front of one of them to the end of the one     *)
(* before leaves the whole as it was; a word more at the end is one more.  *)
MovesKeep(S, p, a, c, e, s, u, w) ==
  /\ c # <<>> => InOrder(p, Onto(a, c), Rest(c), e, s, u, w)
                     = InOrder(p, a, c, e, s, u, w)
  /\ e # <<>> => InOrder(p, a, Onto(c, e), Rest(e), s, u, w)
                     = InOrder(p, a, c, e, s, u, w)
  /\ s # <<>> => InOrder(p, a, c, Onto(e, s), Rest(s), u, w)
                     = InOrder(p, a, c, e, s, u, w)
  /\ u # <<>> => InOrder(p, a, c, e, Onto(s, u), Rest(u), w)
                     = InOrder(p, a, c, e, s, u, w)
  /\ w # <<>> => InOrder(p, a, c, e, s, Onto(u, w), Rest(w))
                     = InOrder(p, a, c, e, s, u, w)
  /\ \A n \in S : InOrder(p, a, c, e, s, u, Extended(w, n))
                     = Extended(InOrder(p, a, c, e, s, u, w), n)

(* An element that moves on to the next queue keeps its place among all. *)
LEMMA InOrderMoves ==
  ASSUME NEW S, NEW p \in Seq(S), NEW a \in Seq(S), NEW c \in Seq(S), NEW e \in Seq(S),
         NEW s \in Seq(S), NEW u \in Seq(S), NEW w \in Seq(S)
  PROVE  MovesKeep(S, p, a, c, e, s, u, w)
<1> DEFINE pa == Joined(p, a)
           pac == Joined(pa, c)
           pace == Joined(pac, e)
           paces == Joined(pace, s)
           pacesu == Joined(paces, u)
<1>1. pa \in Seq(S)
  BY JoinedType
<1>2. pac \in Seq(S)
  <2> HIDE DEF pa
  <2> QED BY <1>1, JoinedType
<1>3. pace \in Seq(S)
  <2> HIDE DEF pac
  <2> QED BY <1>2, JoinedType
<1>4. paces \in Seq(S)
  <2> HIDE DEF pace
  <2> QED BY <1>3, JoinedType
<1>5. pacesu \in Seq(S)
  <2> HIDE DEF paces
  <2> QED BY <1>4, JoinedType
<1>6. c # <<>> => Joined(Joined(p, Onto(a, c)), Rest(c)) = pac
  BY MovedOn
<1>7. e # <<>> => Joined(Joined(pa, Onto(c, e)), Rest(e)) = pace
  <2> HIDE DEF pa
  <2> QED BY <1>1, MovedOn
<1>8. s # <<>> => Joined(Joined(pac, Onto(e, s)), Rest(s)) = paces
  <2> HIDE DEF pac
  <2> QED BY <1>2, MovedOn
<1>9. u # <<>> => Joined(Joined(pace, Onto(s, u)), Rest(u)) = pacesu
  <2> HIDE DEF pace
  <2> QED BY <1>3, MovedOn
<1>10. w # <<>> => Joined(Joined(paces, Onto(u, w)), Rest(w)) = Joined(pacesu, w)
  <2> HIDE DEF paces
  <2> QED BY <1>4, MovedOn
<1>11. ASSUME NEW n \in S PROVE Joined(pacesu, Extended(w, n)) = Extended(Joined(pacesu, w), n)
  <2> HIDE DEF pacesu
  <2> QED BY <1>5, AddedLast
<1> QED BY <1>6, <1>7, <1>8, <1>9, <1>10, <1>11 DEF InOrder, MovesKeep

(* The words up to the next one are the words so far and that one. *)
LEMMA OneMoreWord ==
  ASSUME NEW n \in Nat
  PROVE  Append(WordsUpTo(n), n + 1) = WordsUpTo(n + 1)
<1>1. /\ WordsUpTo(n) \in Seq(Int) /\ Len(WordsUpTo(n)) = n
      /\ WordsUpTo(n + 1) \in Seq(Int) /\ Len(WordsUpTo(n + 1)) = n + 1
  BY DEF WordsUpTo
<1>2. /\ Append(WordsUpTo(n), n + 1) \in Seq(Int)
      /\ Len(Append(WordsUpTo(n), n + 1)) = n + 1
  BY <1>1, AppendProperties
<1>3. ASSUME NEW i \in 1 .. n + 1
      PROVE  Append(WordsUpTo(n), n + 1)[i] = WordsUpTo(n + 1)[i]
  BY <1>1, AppendProperties DEF WordsUpTo
<1> QED BY <1>1, <1>2, <1>3, SeqEqual

(* The property, said of the queues joined from the far end. *)
LEMMA EveryWordInOrder ==
  EveryWordOnItsWay <=> (link # "down" /\ socket_ = "open" => Arranged = WordsUpTo(words))
  BY DEF EveryWordOnItsWay, Arranged, InOrder, Joined, WordsUpTo
-----------------------------------------------------------------------------
(* A step either leaves every word where it is, moves one on, or adds the  *)
(* next one; one that closes the socket or loses the connection is free.   *)
LEMMA KeepsOrder ==
  Types /\ Operations /\ EveryWordOnItsWay /\ [Next]_vars => EveryWordOnItsWay'
<1> SUFFICES ASSUME Types, Operations, EveryWordOnItsWay, [Next]_vars,
                    link' # "down", socket_' = "open"
             PROVE  Arranged' = WordsUpTo(words')
  BY DEF EveryWordOnItsWay, Arranged, InOrder, Joined, WordsUpTo
<1> DEFINE S == Packets \cup {Close}
<1>0. link # "down" /\ socket_ = "open"
  BY DEF Next, ClientNext, ServerNext, Handler, vars, clientVars, serverVars, keyboardVars,
         operationVars, packetVars, connectionVars, Letter, Space, EndOfInput, Join,
         Connect, Established, Refused, Write, Read, Fail, HandlePostedClose, CloseSocket,
         HandlePostedWrite, HandleConnect, HandleWritten, HandleWriteFailed, HandleRead,
         HandleReadFailed, RunReturns, Accept, ReceiveHeader, ReceiveBody, Echo,
         ServerError, Lost
<1>1. Arranged = WordsUpTo(words)
  BY <1>0, EveryWordInOrder
<1>2. \A q : q \in Seq(Packets) => q \in Seq(S)
  BY SeqMonotonic
<1>3. PostedWords = WordsOf(posted) /\ PostedWords' = WordsOf(posted')
  BY DEF PostedWords, WordsOf
<1>4. /\ printed \in Seq(S) /\ toClient \in Seq(S) /\ echo_packets_ \in Seq(S)
      /\ toServer \in Seq(S) /\ write_packets_ \in Seq(S)
  BY <1>2 DEF Types
<1>5. Arrived \in Seq(S) /\ Unwritten \in Seq(S) /\ PostedWords \in Seq(S)
  <2>1. Arrived \in Seq(S)
    <3>1. CASE read_packet_ = Nothing
      BY <3>1, EmptySeq DEF Arrived
    <3>2. CASE read_packet_ # Nothing
      <4>1. read_packet_ \in Packets /\ Arrived = <<read_packet_>>
        BY <3>2 DEF Types, Arrived
      <4>2. <<read_packet_>> \in Seq(Packets)
        BY <4>1
      <4> QED BY <1>2, <4>1, <4>2
    <3> QED BY <3>1, <3>2
  <2>2. Unwritten \in Seq(S)
    BY <1>4, HeadTailProperties DEF Operations, Unwritten
  <2>3. PostedWords \in Seq(S)
    BY <1>3, WordsOfPosted DEF Types
  <2> QED BY <2>1, <2>2, <2>3
<1>6. /\ toClient # <<>> =>
           InOrder(printed, Onto(Arrived, toClient), Rest(toClient), echo_packets_,
                   toServer, Unwritten, PostedWords) = Arranged
      /\ echo_packets_ # <<>> =>
           InOrder(printed, Arrived, Onto(toClient, echo_packets_),
                   Rest(echo_packets_), toServer, Unwritten, PostedWords) = Arranged
      /\ toServer # <<>> =>
           InOrder(printed, Arrived, toClient, Onto(echo_packets_, toServer),
                   Rest(toServer), Unwritten, PostedWords) = Arranged
      /\ Unwritten # <<>> =>
           InOrder(printed, Arrived, toClient, echo_packets_,
                   Onto(toServer, Unwritten), Rest(Unwritten), PostedWords) = Arranged
      /\ PostedWords # <<>> =>
           InOrder(printed, Arrived, toClient, echo_packets_, toServer,
                   Onto(Unwritten, PostedWords), Rest(PostedWords)) = Arranged
      /\ \A n \in S :
           InOrder(printed, Arrived, toClient, echo_packets_, toServer, Unwritten,
                   Extended(PostedWords, n)) = Extended(Arranged, n)
  <2> HIDE DEF S
  <2>1. MovesKeep(S, printed, Arrived, toClient, echo_packets_, toServer, Unwritten, PostedWords)
    BY <1>4, <1>5, InOrderMoves
  <2> QED BY <2>1 DEF MovesKeep, Arranged
<1>7. ASSUME words' = words, printed' = printed, Arrived' = Arrived, toClient' = toClient,
             echo_packets_' = echo_packets_, toServer' = toServer,
             Unwritten' = Unwritten, PostedWords' = PostedWords
      PROVE  Arranged' = WordsUpTo(words')
  BY <1>1, <1>7 DEF Arranged
<1>8. UNCHANGED <<words, printed, read_packet_, toClient, echo_packets_, toServer,
                  write_packets_, posted>> /\ (writing' = "written" <=> writing = "written")
        => Arranged' = WordsUpTo(words')
  <2> SUFFICES ASSUME UNCHANGED <<words, printed, read_packet_, toClient, echo_packets_,
                                  toServer, write_packets_, posted>>,
                      writing' = "written" <=> writing = "written"
               PROVE  Arranged' = WordsUpTo(words')
    OBVIOUS
  <2>1. Arrived' = Arrived /\ Unwritten' = Unwritten /\ PostedWords' = PostedWords
    BY DEF Arrived, Unwritten, PostedWords
  <2> QED BY <1>7, <2>1
<1> HIDE DEF S
<1> USE DEF serverVars, keyboardVars, operationVars, packetVars, connectionVars
<1>10. ASSUME Letter, UNCHANGED serverVars PROVE Arranged' = WordsUpTo(words')
  BY <1>8, <1>10 DEF Letter
<1>11. ASSUME Space, UNCHANGED serverVars PROVE Arranged' = WordsUpTo(words')
  <2>1. words + 1 \in S /\ words + 1 \in Packets
    BY DEF Types, S, Packets
  <2>2. PostedWords' = Append(PostedWords, words + 1)
    <3>1. posted \in Seq(Packets) /\ posted' = Append(posted, words + 1)
      BY <1>11 DEF Space, Types
    <3> QED BY <1>3, <2>1, <3>1, WordsOfPosted DEF Types
  <2>3. Arrived' = Arrived /\ Unwritten' = Unwritten
    BY <1>11 DEF Space, Arrived, Unwritten
  <2>4. Arranged' = InOrder(printed, Arrived, toClient, echo_packets_, toServer, Unwritten,
                            Extended(PostedWords, words + 1))
    BY <1>11, <2>2, <2>3 DEF Extended, Arranged, Space
  <2>5. Arranged' = Extended(WordsUpTo(words), words + 1)
    BY <1>1, <1>6, <2>1, <2>4
  <2>6. words' = words + 1 /\ words \in Nat
    BY <1>11 DEF Space, Types
  <2> QED BY <2>5, <2>6, OneMoreWord DEF Extended
<1>12. ASSUME EndOfInput, UNCHANGED serverVars PROVE Arranged' = WordsUpTo(words')
  <2>1. PostedWords' = PostedWords
    <3>1. posted \in Seq(Packets) /\ posted' = Append(posted, Close)
      BY <1>12 DEF EndOfInput, Types
    <3>2. WordsOf(Append(posted, Close)) = posted
      BY <3>1, WordsOfPosted DEF Types
    <3>3. WordsOf(posted) = posted
      <4>1. 1 \in Packets
        BY DEF Packets
      <4> QED BY <3>1, <4>1, WordsOfPosted DEF Types
    <3> QED BY <1>3, <3>1, <3>2, <3>3
  <2>2. Arrived' = Arrived /\ Unwritten' = Unwritten
    BY <1>12 DEF EndOfInput, Arrived, Unwritten
  <2> QED BY <1>7, <1>12, <2>1, <2>2 DEF EndOfInput
<1>13. ASSUME Join, UNCHANGED serverVars PROVE Arranged' = WordsUpTo(words')
  BY <1>8, <1>13 DEF Join
<1>14. ASSUME Connect, UNCHANGED serverVars PROVE Arranged' = WordsUpTo(words')
  BY <1>8, <1>14 DEF Connect, Established, Refused
<1>15. ASSUME Write, UNCHANGED serverVars PROVE Arranged' = WordsUpTo(words')
  <2>1. /\ toServer' = Append(toServer, Head(Unwritten))
        /\ Unwritten' = Tail(Unwritten) /\ Unwritten # <<>>
    BY <1>15 DEF Write, Operations, Unwritten
  <2>2. Arrived' = Arrived /\ PostedWords' = PostedWords /\ words' = words
    BY <1>15 DEF Write, Arrived, PostedWords
  <2>3. Arranged' = InOrder(printed, Arrived, toClient, echo_packets_,
                            Onto(toServer, Unwritten), Rest(Unwritten), PostedWords)
    BY <1>15, <2>1, <2>2 DEF Onto, Rest, Write, Arranged
  <2> QED BY <1>1, <1>6, <2>1, <2>2, <2>3
<1>16. ASSUME Read, UNCHANGED serverVars PROVE Arranged' = WordsUpTo(words')
  <2>1. CASE reading = "header"
    BY <1>8, <1>16, <2>1 DEF Read
  <2>2. CASE reading = "body"
    <3>1. /\ Arrived = <<>> /\ toClient # <<>>
          /\ read_packet_' = Head(toClient) /\ toClient' = Tail(toClient)
      BY <1>16, <2>2 DEF Read, Operations, Arrived
    <3>2. Head(toClient) # Nothing
      BY <3>1, HeadTailProperties DEF Types, Nothing, Packets
    <3>3. Arrived' = Append(Arrived, Head(toClient))
      BY <3>1, <3>2 DEF Arrived
    <3>4. /\ printed' = printed /\ echo_packets_' = echo_packets_ /\ toServer' = toServer
          /\ Unwritten' = Unwritten /\ PostedWords' = PostedWords /\ words' = words
      BY <1>16 DEF Read, Unwritten, PostedWords
    <3>5. Arranged' = InOrder(printed, Onto(Arrived, toClient), Rest(toClient),
                              echo_packets_, toServer, Unwritten, PostedWords)
      BY <3>1, <3>3, <3>4 DEF Onto, Rest, Arranged
    <3> QED BY <1>1, <1>6, <3>1, <3>4, <3>5
  <2> QED BY <1>16, <2>1, <2>2 DEF Read
<1>17. ASSUME Fail, UNCHANGED serverVars PROVE Arranged' = WordsUpTo(words')
  BY <1>0, <1>17 DEF Fail
<1>18. ASSUME HandlePostedClose, UNCHANGED serverVars PROVE Arranged' = WordsUpTo(words')
  BY <1>18 DEF HandlePostedClose, CloseSocket
<1>19. ASSUME HandlePostedWrite, UNCHANGED serverVars PROVE Arranged' = WordsUpTo(words')
  <2>1. /\ PostedWords # <<>> /\ Head(PostedWords) = Head(posted)
        /\ PostedWords' = Tail(PostedWords)
    BY <1>3, <1>19, WordsOfPosted DEF HandlePostedWrite, Types
  <2>2. Unwritten' = Append(Unwritten, Head(posted))
    <3>1. Head(posted) \in Packets
      BY <1>19, HeadTailProperties DEF HandlePostedWrite, Types
    <3>2. CASE writing = "written"
      <4>1. /\ writing' = "written" /\ write_packets_ # <<>>
            /\ write_packets_' = Append(write_packets_, Head(posted))
        BY <1>19, <3>2 DEF HandlePostedWrite, Operations
      <4>2. Tail(Append(write_packets_, Head(posted)))
              = Append(Tail(write_packets_), Head(posted))
        BY <3>1, <4>1, HeadTailAppend DEF Types
      <4> QED BY <3>2, <4>1, <4>2 DEF Unwritten
    <3>3. CASE writing # "written"
      BY <1>0, <1>19, <3>3 DEF HandlePostedWrite, Started, Unwritten
    <3> QED BY <3>2, <3>3
  <2>3. Arrived' = Arrived /\ words' = words
    BY <1>19 DEF HandlePostedWrite, Arrived
  <2>4. Arranged' = InOrder(printed, Arrived, toClient, echo_packets_, toServer,
                            Onto(Unwritten, PostedWords), Rest(PostedWords))
    BY <1>19, <2>1, <2>2, <2>3 DEF Onto, Rest, HandlePostedWrite, Arranged
  <2> QED BY <1>1, <1>6, <2>1, <2>3, <2>4
<1>20. ASSUME HandleConnect, UNCHANGED serverVars PROVE Arranged' = WordsUpTo(words')
  BY <1>8, <1>20 DEF HandleConnect
<1>21. ASSUME HandleWritten, UNCHANGED serverVars PROVE Arranged' = WordsUpTo(words')
  <2>1. Unwritten' = Unwritten
    BY <1>0, <1>21 DEF HandleWritten, Started, Unwritten
  <2>2. Arrived' = Arrived /\ PostedWords' = PostedWords
    BY <1>21 DEF HandleWritten, Arrived, PostedWords
  <2> QED BY <1>7, <1>21, <2>1, <2>2 DEF HandleWritten
<1>22. ASSUME HandleWriteFailed, UNCHANGED serverVars PROVE Arranged' = WordsUpTo(words')
  BY <1>22 DEF HandleWriteFailed
<1>23. ASSUME HandleRead, UNCHANGED serverVars PROVE Arranged' = WordsUpTo(words')
  <2>1. CASE reading = "headerRead"
    BY <1>8, <1>23, <2>1 DEF HandleRead
  <2>2. CASE reading = "bodyRead"
    <3>1. /\ read_packet_ \in Packets /\ Arrived = <<read_packet_>> /\ Arrived' = <<>>
          /\ printed' = Append(printed, read_packet_)
      BY <1>23, <2>2 DEF HandleRead, Operations, Types, Arrived
    <3>2. printed' = printed \o Arrived /\ printed \o Arrived \in Seq(S)
      BY <1>4, <1>5, <3>1, AppendIsConcat, ConcatProperties DEF Types
    <3>3. printed' \o Arrived' = printed \o Arrived
      BY <3>1, <3>2, ConcatEmptySeq
    <3>4. /\ toClient' = toClient /\ echo_packets_' = echo_packets_ /\ toServer' = toServer
          /\ Unwritten' = Unwritten /\ PostedWords' = PostedWords /\ words' = words
      BY <1>23 DEF HandleRead, Unwritten, PostedWords
    <3> QED BY <1>1, <3>3, <3>4 DEF Arranged, InOrder, Joined
  <2> QED BY <1>23, <2>1, <2>2 DEF HandleRead
<1>24. ASSUME HandleReadFailed, UNCHANGED serverVars PROVE Arranged' = WordsUpTo(words')
  BY <1>24 DEF HandleReadFailed
<1>25. ASSUME RunReturns, UNCHANGED serverVars PROVE Arranged' = WordsUpTo(words')
  BY <1>8, <1>25 DEF RunReturns
<1>26. ASSUME ServerNext, UNCHANGED clientVars PROVE Arranged' = WordsUpTo(words')
  <2>0. /\ Arrived' = Arrived /\ Unwritten' = Unwritten /\ PostedWords' = PostedWords
        /\ words' = words /\ printed' = printed
    BY <1>26 DEF clientVars, Arrived, Unwritten, PostedWords
  <2>1. CASE Accept \/ ReceiveHeader \/ ServerError
    BY <1>7, <2>0, <2>1 DEF Accept, ReceiveHeader, ServerError
  <2>2. CASE ReceiveBody
    <3>1. Arranged' = InOrder(printed, Arrived, toClient,
                              Onto(echo_packets_, toServer), Rest(toServer),
                              Unwritten, PostedWords)
      BY <2>0, <2>2 DEF Onto, Rest, ReceiveBody, Arranged
    <3>2. toServer # <<>>
      BY <2>2 DEF ReceiveBody
    <3> QED BY <1>1, <1>6, <2>0, <3>1, <3>2
  <2>3. CASE Echo
    <3>1. Arranged' = InOrder(printed, Arrived, Onto(toClient, echo_packets_),
                              Rest(echo_packets_), toServer, Unwritten, PostedWords)
      BY <2>0, <2>3 DEF Onto, Rest, Echo, Arranged
    <3>2. echo_packets_ # <<>>
      BY <2>3 DEF Echo, Operations
    <3> QED BY <1>1, <1>6, <2>0, <3>1, <3>2
  <2> QED BY <1>26, <2>1, <2>2, <2>3 DEF ServerNext
<1>27. ASSUME Lost, UNCHANGED <<clientVars, serverVars>> PROVE Arranged' = WordsUpTo(words')
  BY <1>27 DEF Lost
<1>28. ASSUME UNCHANGED vars PROVE Arranged' = WordsUpTo(words')
  BY <1>8, <1>28 DEF vars, clientVars
<1> QED
  BY <1>10, <1>11, <1>12, <1>13, <1>14, <1>15, <1>16, <1>17, <1>18, <1>19, <1>20,
     <1>21, <1>22, <1>23, <1>24, <1>25, <1>26, <1>27, <1>28
  DEF Next, ClientNext, Handler

(* At the start no word is on its way. *)
LEMMA InitOrder == Init => EveryWordOnItsWay
<1> SUFFICES ASSUME Init PROVE Arranged = WordsUpTo(words)
  BY EveryWordInOrder
<1>1. Arranged = ((((((<<>> \o <<>>) \o <<>>) \o <<>>) \o <<>>) \o <<>>) \o <<>>)
  BY DEF Init, ClientInit, ServerInit, Arranged, InOrder, Joined, Arrived, Unwritten, PostedWords
<1>2. <<>> \o <<>> = <<>>
  BY ConcatEmptySeq, EmptySeq
<1>3. WordsUpTo(0) = <<>>
  BY DEF WordsUpTo
<1> QED BY <1>1, <1>2, <1>3 DEF Init, ClientInit

(* However the two threads, the connection and the server take turns, and  *)
(* however many words are typed, no word is lost, doubled or overtaken as  *)
(* long as nothing has failed.                                             *)
THEOREM EveryWordAlways == Spec => []EveryWordOnItsWay
<1>1. Init => Types /\ Operations /\ EveryWordOnItsWay
  BY InitControl, InitOrder
<1>2. Types /\ Operations /\ EveryWordOnItsWay /\ [Next]_vars
        => (Types /\ Operations /\ EveryWordOnItsWay)'
  BY KeepsControl, KeepsOrder
<1> QED BY <1>1, <1>2, PTL DEF Spec
=============================================================================
