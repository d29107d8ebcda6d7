-------------------------- MODULE NodeAdaptor_proofs --------------------------
(***************************************************************************)
(* Theorems about the Node side of the model server, for any number of     *)
(* browsers, any requests they ask, any bytes that a fresh Buffer holds    *)
(* and any events that the replies arrive in.                              *)
(***************************************************************************)
EXTENDS NodeAdaptor, ModelServer_proofs, Induction

(***************************************************************************)
(* The loop of a data event.                                               *)
(***************************************************************************)

(* What a browser is told of a reply: its i-th, and the b after its a-th. *)
Say(c, i) ==
  [event |-> EventOf(c, received[c][i]), reply |-> received[c][i],
   whole |-> TRUE]

Says(c, a, b) == [j \in 1 .. b |-> Say(c, a + j)]

(* The equation of the loop: what it emits from a cell of the event on. *)
LoopAt(g, c, last, k) ==
  IF k > last THEN << >>
  ELSE IF ~IsHeader(k) THEN <<Endless>>
  ELSE <<Emitted(c, k, last)>> \o g[Remaining(k, last)]

Loop(g, c, first, last) ==
  g = [k \in first .. last + 1 |-> LoopAt(g, c, last, k)]

(* decode_packet leaves what stands behind a header and a body. *)
LEMMA RemainingIsBehind ==
  ASSUME NEW k \in Nat, NEW last \in Nat, k <= last
  PROVE  Remaining(k, last) = IF k < last THEN k + 2 ELSE last + 1
<1> DEFINE r == Min({k + 2, last + 1})
<1>1. r \in {k + 2, last + 1} /\ \A j \in {k + 2, last + 1} : r <= j
  <2>1. {k + 2, last + 1} \in SUBSET Nat /\ {k + 2, last + 1} # {}
    OBVIOUS
  <2> QED
    BY <2>1, MinOfNaturals
<1>2. Remaining(k, last) = r
  BY DEF Remaining
<1> HIDE DEF r
<1>3. (r = k + 2 \/ r = last + 1) /\ r <= k + 2 /\ r <= last + 1
  BY <1>1
<1> QED
  BY <1>2, <1>3

(* The i-th header begins the i-th reply, and its body is there too.  *)
LEMMA HeaderOfReply ==
  ASSUME NEW c, NEW i \in Nat \ {0}, NEW m \in Nat, i <= m
  PROVE  /\ IsHeader(2 * i - 1)
         /\ Emitted(c, 2 * i - 1, 2 * m) = Say(c, i)
<1>1. (2 * i - 1) % 2 = 1 /\ ((2 * i - 1) + 1) \div 2 = i /\ 2 * i - 1 < 2 * m
  OBVIOUS
<1>2. ReplyAt(c, 2 * i - 1) = received[c][i]
  BY <1>1 DEF ReplyAt
<1> QED
  BY <1>1, <1>2 DEF IsHeader, Emitted, Say

(* What is said is a sequence, of as many announcements as were asked for. *)
LEMMA SaysSequence ==
  ASSUME NEW c, NEW a \in Nat, NEW b \in Nat
  PROVE  /\ Says(c, a, b) \in Seq({Say(c, i) : i \in Nat})
         /\ Len(Says(c, a, b)) = b
         /\ \A j \in 1 .. b : Says(c, a, b)[j] = Say(c, a + j)
<1>1. \A j \in 1 .. b : Say(c, a + j) \in {Say(c, i) : i \in Nat}
  OBVIOUS
<1> QED
  BY <1>1 DEF Says

(* Two runs of announcements that meet are one. *)
LEMMA SaysMeet ==
  ASSUME NEW c, NEW a \in Nat, NEW b \in Nat, NEW d \in Nat
  PROVE  Says(c, a, b) \o Says(c, a + b, d) = Says(c, a, b + d)
<1> DEFINE S == {Say(c, i) : i \in Nat}
           x == Says(c, a, b)
           y == Says(c, a + b, d)
           z == Says(c, a, b + d)
<1>1. /\ x \in Seq(S) /\ Len(x) = b
      /\ \A j \in 1 .. b : x[j] = Say(c, a + j)
  BY SaysSequence
<1>2. /\ y \in Seq(S) /\ Len(y) = d
      /\ \A j \in 1 .. d : y[j] = Say(c, a + b + j)
  <2>1. PICK e \in Nat : e = a + b
    OBVIOUS
  <2>2. /\ Says(c, e, d) \in Seq(S) /\ Len(Says(c, e, d)) = d
        /\ \A j \in 1 .. d : Says(c, e, d)[j] = Say(c, e + j)
    BY SaysSequence
  <2> QED
    BY <2>1, <2>2
<1>3. /\ z \in Seq(S) /\ Len(z) = b + d
      /\ \A j \in 1 .. b + d : z[j] = Say(c, a + j)
  BY SaysSequence
<1> HIDE DEF S, x, y, z
<1>4. /\ x \o y \in Seq(S) /\ Len(x \o y) = b + d
      /\ \A j \in 1 .. b + d :
           (x \o y)[j] = IF j <= b THEN x[j] ELSE y[j - b]
  BY <1>1, <1>2, ConcatProperties
<1>5. ASSUME NEW j \in 1 .. b + d
      PROVE  (x \o y)[j] = z[j]
  <2>1. CASE j <= b
    BY <1>1, <1>3, <1>4, <2>1
  <2>2. CASE j > b
    <3>1. PICK i \in 1 .. d : i = j - b /\ a + b + i = a + j
      BY <2>2
    <3>2. (x \o y)[j] = y[i]
      BY <1>4, <2>2, <3>1
    <3>3. y[i] = Say(c, a + j)
      BY <1>2, <3>1
    <3>4. z[j] = Say(c, a + j)
      BY <1>3
    <3> QED
      BY <3>2, <3>3, <3>4
  <2>3. j <= b \/ j > b
    OBVIOUS
  <2> QED
    BY <2>1, <2>2, <2>3, Zenon
<1>6. x \o y = z
  BY <1>3, <1>4, <1>5, SeqEqual
<1> QED
  BY <1>6 DEF x, y, z

(* The loop over an event that begins with the header of one reply and     *)
(* ends with the body of another emits these and those between them.       *)
LEMMA LoopEmitsReplies ==
  ASSUME NEW c, NEW n \in Nat, NEW m \in Nat, n < m,
         NEW g, Loop(g, c, 2 * n + 1, 2 * m)
  PROVE  g[2 * n + 1] = Says(c, n, m - n)
<1> DEFINE T == {k \in 0 .. m - n : g[2 * (m - k) + 1] = Says(c, m - k, k)}
<1>1. ASSUME NEW k \in 2 * n + 1 .. 2 * m + 1
      PROVE  g[k] = LoopAt(g, c, 2 * m, k)
  BY DEF Loop
<1>2. 0 \in T
  <2>1. g[2 * m + 1] = << >>
    <3>1. 2 * m + 1 \in 2 * n + 1 .. 2 * m + 1 /\ 2 * m + 1 > 2 * m
      OBVIOUS
    <3> QED
      BY <1>1, <3>1 DEF LoopAt
  <2>2. Says(c, m, 0) = << >>
    BY DEF Says
  <2>3. m - 0 = m /\ 0 \in 0 .. m - n
    OBVIOUS
  <2> QED
    BY <2>1, <2>2, <2>3
<1>3. ASSUME NEW k \in 0 .. (m - n) - 1, k \in T
      PROVE  k + 1 \in T
  <2>1. PICK i \in Nat \ {0} : i = m - k
    OBVIOUS
  <2>2. /\ i <= m /\ i - 1 \in Nat /\ n <= i - 1
        /\ m - (k + 1) = i - 1
    BY <2>1
  <2>3. PICK q \in Nat : q = 2 * i - 1
    OBVIOUS
  <2>4. /\ q \in 2 * n + 1 .. 2 * m + 1 /\ q < 2 * m /\ q + 2 = 2 * i + 1
        /\ 2 * (i - 1) + 1 = q
    BY <2>2, <2>3
  <2>5. IsHeader(q) /\ Emitted(c, q, 2 * m) = Say(c, i)
    BY <2>2, <2>3, HeaderOfReply
  <2>6. Remaining(q, 2 * m) = 2 * i + 1
    <3>1. PICK w \in Nat : w = 2 * m
      OBVIOUS
    <3>2. Remaining(q, w) = q + 2
      BY <2>4, <3>1, RemainingIsBehind
    <3> QED
      BY <2>4, <3>1, <3>2
  <2>7. g[q] = <<Say(c, i)>> \o g[2 * i + 1]
    <3>1. g[q] = LoopAt(g, c, 2 * m, q)
      BY <1>1, <2>4
    <3>2. ~ (q > 2 * m)
      BY <2>4
    <3> QED
      BY <2>5, <2>6, <3>1, <3>2, Zenon DEF LoopAt
  <2>8. g[2 * i + 1] = Says(c, i, k)
    BY <1>3, <2>1
  <2>9. <<Say(c, i)>> = Says(c, i - 1, 1)
    BY DEF Says
  <2>10. Says(c, i - 1, 1) \o Says(c, i, k) = Says(c, i - 1, k + 1)
    <3>1. PICK a \in Nat : a = i - 1
      BY <2>2
    <3>2. Says(c, a, 1) \o Says(c, a + 1, k) = Says(c, a, 1 + k)
      <4>1. PICK one \in Nat, d \in Nat : one = 1 /\ d = k
        OBVIOUS
      <4>2. \A y, z \in Nat : Says(c, a, y) \o Says(c, a + y, z) =
                                 Says(c, a, y + z)
        BY SaysMeet
      <4>3. Says(c, a, one) \o Says(c, a + one, d) = Says(c, a, one + d)
        BY <4>2, Zenon
      <4> QED
        BY <4>1, <4>3
    <3>3. a + 1 = i /\ 1 + k = k + 1
      BY <3>1
    <3> QED
      BY <3>1, <3>2, <3>3
  <2>11. g[2 * (m - (k + 1)) + 1] = Says(c, m - (k + 1), k + 1)
    BY <2>2, <2>4, <2>7, <2>8, <2>9, <2>10
  <2> QED
    BY <2>11
<1> HIDE DEF T
<1>4. Climbs(T, 0, m - n)
  BY <1>2, <1>3 DEF Climbs
<1>5. m - n \in 0 .. m - n /\ m - n \in Int
  OBVIOUS
<1>6. \A k \in 0 .. m - n : k \in T
  BY <1>4, <1>5, IntervalInduction
<1>7. m - n \in T
  BY <1>5, <1>6
<1>8. m - (m - n) = n
  OBVIOUS
<1> QED
  BY <1>7, <1>8 DEF T

(* The loop over such an event ends. *)
LEMMA LoopExists ==
  ASSUME NEW c, NEW n \in Nat, NEW m \in Nat, n < m
  PROVE  \E g : Loop(g, c, 2 * n + 1, 2 * m)
<1> DEFINE D == 2 * n + 1 .. 2 * m + 1
           g == [k \in D |->
                   IF k > 2 * m THEN << >>
                   ELSE IF ~IsHeader(k) THEN <<Endless>>
                   ELSE Says(c, (k - 1) \div 2, m - (k - 1) \div 2)]
<1>1. ASSUME NEW i \in n .. m
      PROVE  2 * i + 1 \in D /\ g[2 * i + 1] = Says(c, i, m - i)
  <2>1. /\ 2 * i + 1 \in D /\ ((2 * i + 1) - 1) \div 2 = i
        /\ (2 * i + 1) % 2 = 1 /\ i \in Nat
    OBVIOUS
  <2>2. CASE i = m
    <3>1. Says(c, i, m - i) = << >>
      BY <2>2 DEF Says
    <3> QED
      BY <2>1, <2>2, <3>1
  <2>3. CASE i < m
    <3>1. ~ (2 * i + 1 > 2 * m)
      BY <2>3
    <3> QED
      BY <2>1, <3>1 DEF IsHeader
  <2> QED
    BY <2>2, <2>3
<1>2. ASSUME NEW k \in D
      PROVE  g[k] = LoopAt(g, c, 2 * m, k)
  <2>1. CASE k > 2 * m
    BY <2>1 DEF LoopAt
  <2>2. CASE k <= 2 * m /\ ~IsHeader(k)
    BY <2>2 DEF LoopAt
  <2>3. CASE k <= 2 * m /\ IsHeader(k)
    <3>1. PICK i \in Nat \ {0} : k = 2 * i - 1
      <4>1. k \in Nat /\ k % 2 = 1
        BY <2>3 DEF IsHeader
      <4>2. (k + 1) \div 2 \in Nat \ {0} /\ k = 2 * ((k + 1) \div 2) - 1
        BY <4>1
      <4> QED
        BY <4>2
    <3>2. PICK a \in Nat : a = i - 1
      OBVIOUS
    <3>3. /\ k = 2 * a + 1 /\ a \in n .. m /\ i \in n .. m /\ a + 1 = i
          /\ i <= m /\ k < 2 * m
      BY <2>3, <3>1, <3>2
    <3>4. g[k] = Says(c, a, m - a)
      BY <1>1, <3>3
    <3>5. g[2 * i + 1] = Says(c, i, m - i)
      BY <1>1, <3>3
    <3> HIDE DEF g, D
    <3>6. Remaining(k, 2 * m) = 2 * i + 1
      <4>1. PICK w \in Nat : w = 2 * m
        OBVIOUS
      <4>2. k \in Nat /\ k < w /\ k + 2 = 2 * i + 1
        BY <3>1, <3>3, <4>1
      <4>3. Remaining(k, w) = k + 2
        BY <4>2, RemainingIsBehind
      <4> QED
        BY <4>1, <4>2, <4>3
    <3>7. Emitted(c, k, 2 * m) = Say(c, i)
      BY <3>1, <3>3, HeaderOfReply
    <3>8. <<Say(c, i)>> = Says(c, a, 1)
      BY <3>3 DEF Says
    <3>9. Says(c, a, 1) \o Says(c, i, m - i) = Says(c, a, m - a)
      <4>1. PICK one \in Nat, d \in Nat :
              one = 1 /\ d = m - i /\ a + one = i /\ one + d = m - a
        BY <3>3
      <4>2. \A y, z \in Nat : Says(c, a, y) \o Says(c, a + y, z) =
                                 Says(c, a, y + z)
        BY SaysMeet
      <4>3. Says(c, a, one) \o Says(c, a + one, d) = Says(c, a, one + d)
        BY <4>2, Zenon
      <4> QED
        BY <4>1, <4>3
    <3>10. LoopAt(g, c, 2 * m, k) = <<Say(c, i)>> \o Says(c, i, m - i)
      <4>1. ~ (k > 2 * m)
        BY <3>1, <3>3
      <4> QED
        BY <2>3, <3>5, <3>6, <3>7, <4>1, Zenon DEF LoopAt
    <3> QED
      BY <3>4, <3>8, <3>9, <3>10
  <2>4. k <= 2 * m \/ k > 2 * m
    OBVIOUS
  <2> QED
    BY <2>1, <2>2, <2>3, <2>4, Zenon
<1>3. g = [k \in D |-> LoopAt(g, c, 2 * m, k)]
  <2>1. g = [k \in D |-> g[k]]
    OBVIOUS
  <2> HIDE DEF g
  <2> QED
    BY <1>2, <2>1
<1>4. Loop(g, c, 2 * n + 1, 2 * m)
  <2> HIDE DEF g
  <2> QED
    BY <1>3 DEF Loop
<1> QED
  BY <1>4

(* An event of whole replies: the n-th is the last before it, the m-th the *)
(* last in it.                                                             *)
LEMMA WholeEvent ==
  ASSUME NEW c, NEW n \in Nat, NEW m \in Nat, n < m
  PROVE  DecodedIn(c, 2 * n + 1, 2 * m) = Says(c, n, m - n)
<1> DEFINE first == 2 * n + 1
           last == 2 * m
           from == CHOOSE g : Loop(g, c, first, last)
<1>1. DecodedIn(c, first, last) = from[first]
  BY DEF DecodedIn, Loop, LoopAt
<1>2. \E g : Loop(g, c, first, last)
  BY LoopExists
<1>3. Loop(from, c, first, last)
  BY <1>2, Zenon
<1> HIDE DEF from
<1>4. from[first] = Says(c, n, m - n)
  BY <1>3, LoopEmitsReplies
<1> QED
  BY <1>1, <1>4

(***************************************************************************)
(* The inductive invariant.  As long as no event has split a packet, an    *)
(* adaptor has taken whole replies, the first ones that reached it, and    *)
(* the browser was told these.  What it is told of a reply does not change *)
(* any more: the reply answers a request that was processed.               *)
(***************************************************************************)
ToldInOrder(c) ==
  \E n \in 0 .. Len(received[c]) :
    taken[c] = 2 * n /\ told[c] = Says(c, 0, n)

AnswersRefer(c) ==
  \A i \in 1 .. Len(answers[c]) :
    answers[c][i].request \in 1 .. Len(processed[c])

AdaptorInv ==
  /\ SessionInv
  /\ taken \in [Clients -> Nat]
  /\ told = [c \in Clients |-> told[c]]
  /\ split \in BOOLEAN
  /\ \A c \in Clients : AnswersRefer(c)
  /\ ~split => ~hung /\ \A c \in Clients : ToldInOrder(c)

(* t begins with s: what stands in s stands there in t too. *)
Extends(s, t) ==
  /\ Len(s) <= Len(t)
  /\ \A i \in 1 .. Len(s) : t[i] = s[i]

(* A prefix, element by element. *)
LEMMA PrefixExtends ==
  ASSUME NEW S, NEW s \in Seq(S), NEW t \in Seq(S), IsPrefix(s, t)
  PROVE  Extends(s, t)
<1>1. Len(s) \in Nat /\ Len(t) \in Nat /\ Len(s) <= Len(t)
      /\ SubSeq(s, 1, Len(s)) = SubSeq(t, 1, Len(s))
  BY LenProperties DEF IsPrefix
<1>2. SubSeq(s, 1, Len(s)) = s
  BY SubSeqFull
<1>3. ASSUME NEW i \in 1 .. Len(s)
      PROVE  t[i] = s[i]
  <2>1. SubSeq(t, 1, Len(s)) = [j \in 1 .. Len(s) |-> t[j]]
    BY <1>1, SubSeqProperties
  <2> QED
    BY <1>1, <1>2, <2>1
<1> QED
  BY <1>1, <1>3 DEF Extends

(* A sequence with another behind it extends it. *)
LEMMA ConcatExtends ==
  ASSUME NEW S, NEW s \in Seq(S), NEW t \in Seq(S)
  PROVE  Extends(s, s \o t)
BY ConcatProperties, LenProperties DEF Extends

(* A sequence with one element more extends it. *)
LEMMA AppendExtends ==
  ASSUME NEW S, NEW s \in Seq(S), NEW e \in S
  PROVE  Extends(s, Append(s, e))
BY AppendProperties, LenProperties DEF Extends

(* The invariant says what the browsers are promised. *)
LEMMA AdaptorInvImplies == AdaptorInv => RepliesReachTheBrowser
<1> SUFFICES ASSUME AdaptorInv, ~split
             PROVE  /\ ~hung
                    /\ \A c \in Clients :
                         /\ Len(told[c]) <= Len(answers[c])
                         /\ \A i \in DOMAIN told[c] :
                              told[c][i] =
                                [event |-> EventOf(c, answers[c][i]),
                                 reply |-> answers[c][i], whole |-> TRUE]
  BY DEF RepliesReachTheBrowser
<1>1. ~hung
  BY DEF AdaptorInv
<1>2. ASSUME NEW c \in Clients
      PROVE  /\ Len(told[c]) <= Len(answers[c])
             /\ \A i \in DOMAIN told[c] :
                  told[c][i] = [event |-> EventOf(c, answers[c][i]),
                                reply |-> answers[c][i], whole |-> TRUE]
  <2>1. PICK n \in 0 .. Len(received[c]) : told[c] = Says(c, 0, n)
    BY DEF AdaptorInv, ToldInOrder
  <2>2. /\ received[c] \in Seq(Packets) /\ answers[c] \in Seq(Packets)
        /\ IsPrefix(received[c], answers[c])
    BY DEF AdaptorInv, SessionInv, TypeOK, RepliesOK
  <2>3. Extends(received[c], answers[c])
    BY <2>2, PrefixExtends
  <2>4. /\ Len(received[c]) \in Nat /\ Len(answers[c]) \in Nat /\ n \in Nat
        /\ n <= Len(received[c])
    BY <2>2, LenProperties
  <2>5. Len(told[c]) = n /\ DOMAIN told[c] = 1 .. n
    BY <2>1, <2>4 DEF Says
  <2>6. ASSUME NEW i \in 1 .. n
        PROVE  told[c][i] = [event |-> EventOf(c, answers[c][i]),
                             reply |-> answers[c][i], whole |-> TRUE]
    <3>1. told[c][i] = Say(c, 0 + i) /\ 0 + i = i
      BY <2>1 DEF Says
    <3>2. received[c][i] = answers[c][i]
      BY <2>3, <2>4 DEF Extends
    <3> QED
      BY <3>1, <3>2 DEF Say
  <2>7. Len(told[c]) <= Len(answers[c])
    BY <2>3, <2>4, <2>5 DEF Extends
  <2> QED
    BY <2>5, <2>6, <2>7
<1> QED
  BY <1>1, <1>2

(* What was said of a reply stays true when replies and requests come.     *)
LEMMA SaidForGood ==
  ASSUME NEW c \in Clients, TypeOK, RepliesOK(c), AnswersRefer(c),
         Extends(received[c], received'[c]),
         Extends(processed[c], processed'[c]),
         NEW i \in 1 .. Len(received[c])
  PROVE  Say(c, i)' = Say(c, i)
<1>1. received'[c][i] = received[c][i]
  BY DEF Extends
<1>2. /\ received[c] \in Seq(Packets) /\ answers[c] \in Seq(Packets)
      /\ IsPrefix(received[c], answers[c])
  BY DEF TypeOK, RepliesOK
<1>3. Extends(received[c], answers[c])
  BY <1>2, PrefixExtends
<1>4. i \in 1 .. Len(answers[c]) /\ answers[c][i] = received[c][i]
  BY <1>2, <1>3, LenProperties DEF Extends
<1>5. received[c][i].request \in 1 .. Len(processed[c])
  BY <1>4 DEF AnswersRefer
<1>6. processed'[c][received[c][i].request] =
        processed[c][received[c][i].request]
  BY <1>5 DEF Extends
<1>7. EventOf(c, received[c][i])' = EventOf(c, received[c][i])
  BY <1>1, <1>6 DEF EventOf
<1> QED
  BY <1>1, <1>7 DEF Say

(* A step of the server, or of a client, tells the browser nothing.        *)
LEMMA NothingTold ==
  ASSUME AdaptorInv, SessionInv', UNCHANGED adaptorVars,
         \A c \in Clients : /\ Extends(received[c], received'[c])
                            /\ Extends(processed[c], processed'[c])
                            /\ AnswersRefer(c)'
  PROVE  AdaptorInv'
<1>1. /\ taken' = taken /\ told' = told /\ split' = split /\ hung' = hung
  BY DEF adaptorVars
<1>2. ASSUME NEW c \in Clients, ToldInOrder(c)
      PROVE  ToldInOrder(c)'
  <2>1. PICK n \in 0 .. Len(received[c]) :
          taken[c] = 2 * n /\ told[c] = Says(c, 0, n)
    BY <1>2 DEF ToldInOrder
  <2>2. /\ Len(received[c]) \in Nat /\ Len(received'[c]) \in Nat
        /\ Len(received[c]) <= Len(received'[c])
    BY LenProperties DEF AdaptorInv, SessionInv, TypeOK, Extends
  <2>3. \A j \in 1 .. n : Say(c, j)' = Say(c, j)
    BY <2>2, SaidForGood DEF AdaptorInv, SessionInv
  <2>4. Says(c, 0, n)' = Says(c, 0, n)
    BY <2>3 DEF Says
  <2> QED
    BY <1>1, <2>1, <2>2, <2>4 DEF ToldInOrder
<1> QED
  BY <1>1, <1>2 DEF AdaptorInv

(***************************************************************************)
(* The steps.                                                              *)
(***************************************************************************)
LEMMA NodeInitInv == NodeInit => AdaptorInv
<1> SUFFICES ASSUME NodeInit
             PROVE  AdaptorInv
  OBVIOUS
<1>1. SessionInv
  BY InitSessionInv DEF NodeInit
<1>2. ASSUME NEW c \in Clients
      PROVE  AnswersRefer(c) /\ ToldInOrder(c)
  <2>1. answers[c] = << >> /\ received[c] = << >>
    BY DEF NodeInit, Init
  <2>2. taken[c] = 2 * 0 /\ told[c] = << >> /\ Says(c, 0, 0) = << >>
    BY DEF NodeInit, Says
  <2>3. 0 \in 0 .. Len(received[c])
    BY <2>1
  <2> QED
    BY <2>1, <2>2, <2>3 DEF AnswersRefer, ToldInOrder
<1> QED
  BY <1>1, <1>2 DEF NodeInit, AdaptorInv

(* What the connection is given to send is cells: FlattenSeq, defined by   *)
(* recursion on the requests, puts theirs one after the other.             *)
LEMMA FlattenedCells ==
  ASSUME NEW S, NEW s, NEW k \in Nat, DOMAIN s = 1 .. k, Len(s) = k,
         s = [i \in 1 .. k |-> s[i]],
         \A i \in 1 .. k : s[i] \in Seq(S)
  PROVE  FlattenSeq(s) \in Seq(S)
<1>1. CASE k = 0
  <2>1. s = << >>
    BY <1>1
  <2> QED
    BY <1>1, <2>1, EmptySeq DEF FlattenSeq
<1>2. CASE k # 0
  <2> DEFINE Flat(f) ==
        f = [i \in 1 .. k |-> IF i = 1 THEN s[i] ELSE f[i - 1] \o s[i]]
             flatten == CHOOSE f : Flat(f)
  <2>1. FlattenSeq(s) = flatten[k]
    BY <1>2 DEF FlattenSeq
  <2>2. \E f : Flat(f)
    <3> DEFINE F == [x \in Seq(S) \X (1 .. k) |-> x[1] \o s[x[2]]]
    <3>1. F \in StepFunctions(Seq(S), k)
      <4>1. ASSUME NEW x \in Seq(S) \X (1 .. k)
            PROVE  x[1] \o s[x[2]] \in Seq(S)
        BY ConcatProperties
      <4> QED
        BY <4>1 DEF StepFunctions
    <3>2. << >> \in Seq(S)
      BY EmptySeq
    <3> HIDE DEF F
    <3>3. PICK g : Stepwise(g, Seq(S), << >>, F, k)
      BY <3>1, <3>2, StepwiseExists
    <3>4. ASSUME NEW i \in 1 .. k
          PROVE  g[i] = g[i - 1] \o s[i] /\ g[i - 1] \in Seq(S)
      <4>1. g[i - 1] \in Seq(S) /\ g[i] = F[<<g[i - 1], i>>]
        BY <3>3 DEF Stepwise
      <4> QED
        BY <4>1 DEF F
    <3>5. g[0] = << >>
      BY <3>3 DEF Stepwise
    <3> DEFINE f == [i \in 1 .. k |-> g[i]]
    <3>6. ASSUME NEW i \in 1 .. k
          PROVE  f[i] = IF i = 1 THEN s[i] ELSE f[i - 1] \o s[i]
      <4>1. CASE i = 1
        <5>0. i - 1 = 0
          BY <4>1
        <5>1. g[1] = g[0] \o s[1] /\ s[1] \in Seq(S)
          BY <3>4, <4>1, <5>0
        <5>2. << >> \o s[1] = s[1]
          BY <5>1, ConcatEmptySeq
        <5> QED
          BY <3>5, <4>1, <5>1, <5>2
      <4>2. CASE i # 1
        <5>1. f[i - 1] = g[i - 1]
          BY <4>2
        <5> QED
          BY <3>4, <4>2, <5>1
      <4> QED
        BY <4>1, <4>2
    <3>7. f = [i \in 1 .. k |-> f[i]]
      OBVIOUS
    <3> HIDE DEF f
    <3>8. Flat(f)
      BY <3>6, <3>7
    <3> QED
      BY <3>8
  <2>3. Flat(flatten)
    <3> HIDE DEF Flat
    <3> QED
      BY <2>2, Zenon
  <2> HIDE DEF flatten
  <2>4. /\ flatten[1] = s[1]
        /\ \A i \in 1 .. k - 1 : flatten[i + 1] = flatten[i] \o s[i + 1]
    <3>1. ASSUME NEW i \in 1 .. k
          PROVE  flatten[i] = IF i = 1 THEN s[i] ELSE flatten[i - 1] \o s[i]
      BY <2>3
    <3> HIDE DEF Flat
    <3>2. flatten[1] = s[1]
      BY <1>2, <3>1
    <3>3. ASSUME NEW i \in 1 .. k - 1
          PROVE  flatten[i + 1] = flatten[i] \o s[i + 1]
      <4>1. i + 1 \in 1 .. k /\ i + 1 # 1 /\ (i + 1) - 1 = i
        OBVIOUS
      <4> QED
        BY <3>1, <4>1
    <3> QED
      BY <3>2, <3>3
  <2> DEFINE T == {i \in 1 .. k : flatten[i] \in Seq(S)}
  <2>5. 1 \in T
    BY <1>2, <2>4
  <2>6. ASSUME NEW i \in 1 .. k - 1, i \in T
        PROVE  i + 1 \in T
    <3>1. flatten[i] \in Seq(S) /\ s[i + 1] \in Seq(S) /\ i + 1 \in 1 .. k
      BY <2>6
    <3>2. flatten[i + 1] = flatten[i] \o s[i + 1]
      BY <2>4
    <3>3. flatten[i + 1] \in Seq(S)
      BY <3>1, <3>2, ConcatProperties
    <3> QED
      BY <3>1, <3>3
  <2> HIDE DEF T
  <2>7. Climbs(T, 1, k)
    BY <2>5, <2>6 DEF Climbs
  <2>8. \A i \in 1 .. k : i \in T
    BY <2>7, IntervalInduction
  <2>9. k \in T
    BY <1>2, <2>8
  <2> QED
    BY <2>1, <2>9 DEF T
<1> QED
  BY <1>1, <1>2

(* The replies of every session stay as they are. *)
LEMMA QuietStep ==
  ASSUME AdaptorInv, TypeOK',
         UNCHANGED <<write_packets, writes, received, answers, processed>>,
         UNCHANGED adaptorVars,
         \A c \in Clients : conn[c] = "closed" => conn'[c] = "closed"
  PROVE  AdaptorInv'
<1>1. SessionInv'
  <2>1. ASSUME NEW c \in Clients
        PROVE  WritesOK(c)' /\ RepliesOK(c)'
    <3>1. WritesOK(c) /\ RepliesOK(c)
      BY DEF AdaptorInv, SessionInv
    <3> QED
      BY <3>1, SameReplies
  <2> QED
    BY <2>1 DEF SessionInv
<1>2. ASSUME NEW c \in Clients
      PROVE  /\ Extends(received[c], received'[c])
             /\ Extends(processed[c], processed'[c])
             /\ AnswersRefer(c)'
  <2>1. /\ received[c] \in Seq(Packets)
        /\ processed[c] \in Seq([type : Types, body : Seq(NetCells)])
        /\ AnswersRefer(c)
    BY DEF AdaptorInv, SessionInv, TypeOK
  <2>2. Len(received[c]) \in Nat /\ Len(processed[c]) \in Nat
    BY <2>1, LenProperties
  <2> QED
    BY <2>1, <2>2 DEF Extends, AnswersRefer
<1> QED
  BY <1>1, <1>2, NothingTold

(* An adaptor writes only what the server's clients may send. *)
LEMMA AsksAreRequests ==
  ASSUME NEW ask \in Asks, NEW r \in Encoded(ask)
  PROVE  r \in Requests
BY AdaptorsAssumption DEF AdaptorRequests

(* A browser that asks before the model server has answered the connect. *)
LEMMA AskEarlyKeeps ==
  ASSUME AdaptorInv, NEW c \in Clients, AskEarly(c)
  PROVE  AdaptorInv'
<1>1. TypeOK
  BY DEF AdaptorInv, SessionInv
<1>2. PICK ask \in Asks : \E r \in Encoded(ask) :
        sent' = [sent EXCEPT ![c] = Append(@, r)]
  BY DEF AskEarly
<1>r. PICK r \in Encoded(ask) : sent' = [sent EXCEPT ![c] = Append(@, r)]
  BY <1>2
<1>3. Append(sent[c], r) \in Seq(Requests)
  BY <1>1, AsksAreRequests, AppendProperties DEF TypeOK
<1>4. sent' \in [Clients -> Seq(Requests)]
  BY <1>1, <1>r, <1>3 DEF TypeOK
<1>5. /\ conn' = conn /\ backlog' = backlog /\ accepting' = accepting
      /\ reading' = reading /\ read_packet' = read_packet /\ net_in' = net_in
      /\ write_packets' = write_packets /\ writes' = writes
      /\ received' = received /\ processed' = processed /\ answers' = answers
      /\ UNCHANGED adaptorVars
  BY DEF AskEarly, sessionVars
<1>6. TypeOK'
  BY <1>1, <1>4, <1>5 DEF TypeOK
<1> QED
  BY <1>5, <1>6, QuietStep

(* The connection to the model server is made: what waited is sent. *)
LEMMA ConnectedKeeps ==
  ASSUME AdaptorInv, NEW c \in Clients, Connected(c)
  PROVE  AdaptorInv'
<1>1. TypeOK
  BY DEF AdaptorInv, SessionInv
<1> DEFINE cells == [i \in DOMAIN sent[c] |-> Cells(sent[c][i])]
<1>2. FlattenSeq(cells) \in Seq(NetCells)
  <2>1. sent[c] \in Seq(Requests)
    BY <1>1 DEF TypeOK
  <2>2. PICK k \in Nat : k = Len(sent[c])
    BY <2>1, LenProperties
  <2>3. DOMAIN sent[c] = 1 .. k /\ \A i \in 1 .. k : sent[c][i] \in Requests
    BY <2>1, <2>2, ElementOfSeq
  <2>4. \A i \in 1 .. k : cells[i] \in Seq(NetCells)
    BY <2>3, CellsType
  <2>5. /\ DOMAIN cells = 1 .. k /\ Len(cells) = k
        /\ cells = [i \in 1 .. k |-> cells[i]]
    BY <2>3
  <2> HIDE DEF cells
  <2> QED
    BY <2>4, <2>5, FlattenedCells
<1>3. /\ conn[c] = "away" /\ conn' = [conn EXCEPT ![c] = "open"]
      /\ backlog' = Append(backlog, c)
      /\ net_in' = [net_in EXCEPT ![c] = FlattenSeq(cells)]
      /\ accepting' = accepting /\ sent' = sent
      /\ reading' = reading /\ read_packet' = read_packet
      /\ write_packets' = write_packets /\ writes' = writes
      /\ received' = received /\ processed' = processed /\ answers' = answers
      /\ UNCHANGED adaptorVars
  BY DEF Connected, adaptorVars
<1> HIDE DEF cells
<1>4. Append(backlog, c) \in Seq(Clients)
  BY <1>1, AppendProperties DEF TypeOK
<1>5. net_in' \in [Clients -> Seq(NetCells)]
  BY <1>1, <1>2, <1>3 DEF TypeOK
<1>6. TypeOK'
  BY <1>1, <1>3, <1>4, <1>5 DEF TypeOK
<1>7. \A d \in Clients : conn[d] = "closed" => conn'[d] = "closed"
  BY <1>1, <1>3 DEF TypeOK
<1> QED
  BY <1>3, <1>6, <1>7, QuietStep

(* The model server is not there: the socket of the adaptor closes. *)
LEMMA RefusedKeeps ==
  ASSUME AdaptorInv, NEW c \in Clients, Refused(c)
  PROVE  AdaptorInv'
<1>1. TypeOK
  BY DEF AdaptorInv, SessionInv
<1>2. /\ conn' = [conn EXCEPT ![c] = "closed"]
      /\ backlog' = backlog /\ accepting' = accepting /\ sent' = sent
      /\ reading' = reading /\ read_packet' = read_packet /\ net_in' = net_in
      /\ write_packets' = write_packets /\ writes' = writes
      /\ received' = received /\ processed' = processed /\ answers' = answers
      /\ UNCHANGED adaptorVars
  BY DEF Refused, sessionVars
<1>3. TypeOK'
  BY <1>1, <1>2 DEF TypeOK
<1>4. \A d \in Clients : conn[d] = "closed" => conn'[d] = "closed"
  BY <1>1, <1>2 DEF TypeOK
<1> QED
  BY <1>2, <1>3, <1>4, QuietStep

(* A browser that asks over a connection that is made. *)
LEMMA AskKeeps ==
  ASSUME AdaptorInv, NEW c \in Clients, Ask(c)
  PROVE  AdaptorInv'
<1>1. TypeOK
  BY DEF AdaptorInv, SessionInv
<1>2. PICK ask \in Asks : \E r \in Encoded(ask) : Send(c, r)
  BY DEF Ask
<1>r. PICK r \in Encoded(ask) : Send(c, r)
  BY <1>2
<1>3. r \in Requests
  BY AsksAreRequests
<1>4. TypeOK'
  BY <1>1, <1>r, <1>3, ClientType
<1>5. /\ conn' = conn
      /\ UNCHANGED <<write_packets, writes, received, answers, processed>>
  BY <1>r DEF Send
<1>6. UNCHANGED adaptorVars
  BY DEF Ask
<1> QED
  BY <1>4, <1>5, <1>6, QuietStep

(* The server's steps: a reply refers to the request it answers, which is  *)
(* processed by the step that makes the reply.                             *)
LEMMA ServerKeeps ==
  ASSUME AdaptorInv, Server
  PROVE  AdaptorInv'
<1>1. TypeOK /\ SessionInv
  BY DEF AdaptorInv, SessionInv
<1>2. UNCHANGED adaptorVars
  BY DEF Server
<1>3. Next
  BY DEF Server, Next, WriteHandler
<1>4. SessionInv'
  BY <1>1, <1>3, NextSessionInv
<1>5. TypeOK'
  BY <1>4 DEF SessionInv
<1> DEFINE Quiet ==
      /\ UNCHANGED <<write_packets, writes, received, answers, processed>>
      /\ \A d \in Clients : conn[d] = "closed" => conn'[d] = "closed"
           Same(d) == /\ Extends(received[d], received'[d])
                      /\ Extends(processed[d], processed'[d])
                      /\ AnswersRefer(d)'
<1>6. ASSUME Quiet
      PROVE  AdaptorInv'
  BY <1>2, <1>5, <1>6, QuietStep
<1>7. ASSUME NEW d \in Clients, received'[d] = received[d],
             processed'[d] = processed[d], answers'[d] = answers[d]
      PROVE  Same(d)
  <2>1. /\ Len(received[d]) \in Nat /\ Len(processed[d]) \in Nat
        /\ AnswersRefer(d)
    BY <1>1, LenProperties DEF AdaptorInv, TypeOK
  <2> QED
    BY <1>7, <2>1 DEF Extends, AnswersRefer
<1>8. ASSUME \A d \in Clients : Same(d)
      PROVE  AdaptorInv'
  BY <1>2, <1>4, <1>8, NothingTold
<1>9. CASE Accept
  BY <1>6, <1>9 DEF Accept
<1>10. ASSUME NEW c \in Clients, NEW n \in 0 .. Len(net_in[c]),
              Disconnect(c, n)
       PROVE  AdaptorInv'
  <2>1. Quiet
    BY <1>1, <1>10 DEF Disconnect, TypeOK
  <2> QED
    BY <1>6, <2>1
<1>11. ASSUME NEW c \in Clients, HeaderRead(c)
       PROVE  AdaptorInv'
  BY <1>6, <1>11 DEF HeaderRead
<1>12. ASSUME NEW c \in Clients, BodyFailed(c)
       PROVE  AdaptorInv'
  BY <1>6, <1>12 DEF BodyFailed
<1>13. ASSUME NEW c \in Clients, HeaderFailed(c)
       PROVE  AdaptorInv'
  BY <1>6, <1>13 DEF HeaderFailed, vars, sessionVars
<1>14. ASSUME NEW c \in Clients, BodyRead(c)
       PROVE  AdaptorInv'
  <2> DEFINE n == read_packet[c].length
             type == read_packet[c].type
             request == [type |-> type, body |-> SubSeq(net_in[c], 1, n)]
  <2>1. PICK k \in ReplySizes(type) : Reply(c, k)
    BY <1>14 DEF BodyRead
  <2>2. /\ received' = received
        /\ processed' = [processed EXCEPT ![c] = Append(@, request)]
        /\ answers' = [answers EXCEPT ![c] = @ \o Replies(c, k)]
    BY <1>14, <2>1 DEF BodyRead, Reply
  <2> HIDE DEF request
  <2>3. ASSUME NEW d \in Clients, d # c
        PROVE  Same(d)
    <3>1. processed'[d] = processed[d] /\ answers'[d] = answers[d]
      BY <1>1, <2>2, <2>3 DEF TypeOK
    <3> QED
      BY <1>7, <2>2, <3>1
  <2>4. Same(c)
    <3>1. /\ processed'[c] = Append(processed[c], request)
          /\ answers'[c] = answers[c] \o Replies(c, k)
      BY <1>1, <2>2 DEF TypeOK
    <3>2. PICK p \in Nat : p = Len(processed[c])
      BY <1>1, LenProperties DEF TypeOK
    <3>3. Len(processed'[c]) = p + 1
      BY <1>1, <3>1, <3>2 DEF TypeOK
    <3>4. \A i \in 1 .. p : processed'[c][i] = processed[c][i]
      BY <1>1, <3>1, <3>2 DEF TypeOK
    <3>5. Extends(processed[c], processed'[c])
      BY <3>2, <3>3, <3>4 DEF Extends
    <3>6. Extends(received[c], received'[c])
      BY <1>1, <2>2, LenProperties DEF TypeOK, Extends
    <3>7. type \in Types /\ k \in Nat
      <4>1. type \in Types
        BY <1>1 DEF TypeOK
      <4> HIDE DEF type
      <4>2. k \in Nat
        BY <4>1, BoundsAssumption DEF ReplySizes, Types
      <4> QED
        BY <4>1, <4>2
    <3>8. Replies(c, k) \in Seq(Packets)
      BY <1>1, <3>7, RepliesType DEF TypeOK
    <3>9. \A i \in 1 .. Len(Replies(c, k)) : Replies(c, k)[i].request = p + 1
      BY <3>2, <3>7 DEF Replies
    <3>10. answers[c] \in Seq(Packets)
      BY <1>1 DEF TypeOK
    <3>11. PICK a \in Nat, b \in Nat :
             a = Len(answers[c]) /\ b = Len(Replies(c, k))
      BY <3>8, <3>10, LenProperties
    <3>12. /\ Len(answers'[c]) = a + b
           /\ \A i \in 1 .. a + b :
                answers'[c][i] = IF i <= a THEN answers[c][i]
                                 ELSE Replies(c, k)[i - a]
      BY <3>1, <3>8, <3>10, <3>11, ConcatProperties
    <3>13. ASSUME NEW i \in 1 .. a + b
           PROVE  answers'[c][i].request \in 1 .. p + 1
      <4>1. CASE i <= a
        <5>1. answers'[c][i] = answers[c][i] /\ i \in 1 .. a
          BY <3>12, <4>1
        <5>2. answers[c][i].request \in 1 .. p
          BY <3>2, <3>11, <5>1 DEF AdaptorInv, AnswersRefer
        <5> QED
          BY <5>1, <5>2
      <4>2. CASE ~ (i <= a)
        <5>1. PICK j \in 1 .. b : j = i - a
          BY <4>2
        <5>2. answers'[c][i] = Replies(c, k)[j]
          BY <3>12, <4>2, <5>1
        <5>3. Replies(c, k)[j].request = p + 1
          BY <3>9, <3>11
        <5> QED
          BY <5>2, <5>3
      <4> QED
        BY <4>1, <4>2
    <3>14. AnswersRefer(c)'
      BY <3>3, <3>12, <3>13 DEF AnswersRefer
    <3> QED
      BY <3>5, <3>6, <3>14
  <2> HIDE DEF Same
  <2> QED
    BY <1>8, <2>3, <2>4
<1>15. ASSUME NEW c \in Clients, WriteDone(c)
       PROVE  AdaptorInv'
  <2>1. processed' = processed /\ answers' = answers
    BY <1>15 DEF WriteDone
  <2>2. ASSUME NEW d \in Clients, d # c
        PROVE  Same(d)
    <3>1. received'[d] = received[d]
      BY <1>1, <1>15, <2>2 DEF WriteDone, TypeOK
    <3> QED
      BY <1>7, <2>1, <3>1
  <2>3. Same(c)
    <3>1. WritesFront(write_packets[c], writes[c])
      BY <1>1, <1>15, WriteDoneKeeps DEF SessionInv
    <3>2. writes[c] # << >> /\ writes[c] \in Seq(Packets)
      BY <1>1, <1>15 DEF WriteDone, TypeOK
    <3>3. Head(writes[c]) \in Packets
      BY <3>2, HeadTailProperties
    <3>4. \/ received'[c] = received[c]
          \/ received'[c] = Append(received[c], Head(writes[c]))
      BY <1>1, <1>15 DEF WriteDone, TypeOK
    <3>5. received[c] \in Seq(Packets)
      BY <1>1 DEF TypeOK
    <3>6. Extends(received[c], Append(received[c], Head(writes[c])))
      BY <3>3, <3>5, AppendExtends
    <3>7. Extends(received[c], received[c])
      BY <3>5, LenProperties DEF Extends
    <3>8. Extends(processed[c], processed'[c]) /\ AnswersRefer(c)'
      BY <1>1, <2>1, LenProperties
         DEF Extends, AnswersRefer, AdaptorInv, TypeOK
    <3> QED
      BY <3>4, <3>6, <3>7, <3>8
  <2> HIDE DEF Same
  <2> QED
    BY <1>8, <2>2, <2>3
<1>16. ASSUME NEW c \in Clients, WriteFailed(c)
       PROVE  AdaptorInv'
  <2>1. received' = received /\ processed' = processed /\ answers' = answers
    BY <1>16 DEF WriteFailed
  <2>2. ASSUME NEW d \in Clients
        PROVE  Same(d)
    BY <1>7, <2>1
  <2> HIDE DEF Same
  <2> QED
    BY <1>8, <2>2
<1>17. ASSUME NEW c \in Clients,
              \/ \E n \in 0 .. Len(net_in[c]) : Disconnect(c, n)
              \/ Handler(c)
              \/ HeaderFailed(c)
              \/ WriteHandler(c)
       PROVE  AdaptorInv'
  <2>1. CASE \E n \in 0 .. Len(net_in[c]) : Disconnect(c, n)
    BY <1>10, <2>1
  <2>2. CASE Handler(c)
    BY <1>11, <1>12, <1>14, <2>2 DEF Handler
  <2>3. CASE HeaderFailed(c)
    BY <1>13, <2>3
  <2>4. CASE WriteHandler(c)
    BY <1>15, <1>16, <2>4 DEF WriteHandler
  <2> QED
    BY <1>17, <2>1, <2>2, <2>3, <2>4
<1> HIDE DEF Quiet, Same
<1> QED
  BY <1>9, <1>17 DEF Server

(* A data event that splits no packet takes whole replies, and tells the   *)
(* browser these.                                                          *)
LEMMA DataEventKeeps ==
  ASSUME AdaptorInv, NEW c \in Clients, DataEvent(c)
  PROVE  AdaptorInv'
<1>1. PICK last \in taken[c] + 1 .. 2 * Len(received[c]) :
        LET decoded == DecodedIn(c, taken[c] + 1, last)
        IN /\ taken' = [taken EXCEPT ![c] = last]
           /\ told' = [told EXCEPT ![c] = @ \o EmittedBy(decoded)]
           /\ split' = (split \/ IsHeader(last))
           /\ hung' = Contains(decoded, Endless)
  BY DEF DataEvent
<1> DEFINE decoded == DecodedIn(c, taken[c] + 1, last)
<1>2. /\ taken' = [taken EXCEPT ![c] = last]
      /\ told' = [told EXCEPT ![c] = @ \o EmittedBy(decoded)]
      /\ split' = (split \/ IsHeader(last))
      /\ hung' = Contains(decoded, Endless)
  BY <1>1
<1> HIDE DEF decoded
<1>3. /\ SessionInv /\ TypeOK /\ taken \in [Clients -> Nat]
      /\ told = [d \in Clients |-> told[d]] /\ split \in BOOLEAN
      /\ \A d \in Clients : AnswersRefer(d)
  BY DEF AdaptorInv, SessionInv
<1>4. /\ conn' = conn /\ backlog' = backlog /\ accepting' = accepting
      /\ reading' = reading /\ read_packet' = read_packet /\ net_in' = net_in
      /\ write_packets' = write_packets /\ writes' = writes /\ sent' = sent
      /\ received' = received /\ processed' = processed /\ answers' = answers
  BY DEF DataEvent, vars, sessionVars
<1>5. SessionInv' /\ \A d \in Clients : AnswersRefer(d)'
  <2>1. TypeOK'
    BY <1>3, <1>4 DEF TypeOK
  <2>2. \A d \in Clients : WritesOK(d)' /\ RepliesOK(d)'
    BY <1>3, <1>4, SameReplies DEF SessionInv
  <2>3. \A d \in Clients : AnswersRefer(d)'
    BY <1>3, <1>4 DEF AnswersRefer
  <2> QED
    BY <2>1, <2>2, <2>3 DEF SessionInv
<1>6. PICK r \in Nat : r = Len(received[c])
  BY <1>3, LenProperties DEF TypeOK
<1>7. last \in Nat /\ taken[c] \in Nat /\ taken[c] < last /\ last <= 2 * r
  BY <1>3, <1>6
<1>8. /\ taken' \in [Clients -> Nat]
      /\ told' = [d \in Clients |-> told'[d]]
      /\ split' \in BOOLEAN
  <2>1. taken' \in [Clients -> Nat]
    BY <1>2, <1>3, <1>7
  <2>2. split' \in BOOLEAN
    BY <1>2
  <2>3. told' = [d \in Clients |-> told'[d]]
    BY <1>2, <1>3
  <2> QED
    BY <2>1, <2>2, <2>3
<1>9. ASSUME ~split'
      PROVE  ~hung' /\ \A d \in Clients : ToldInOrder(d)'
  <2>1. ~split /\ ~IsHeader(last)
    BY <1>2, <1>9
  <2>2. \A d \in Clients : ToldInOrder(d)
    BY <2>1 DEF AdaptorInv
  <2>3. PICK n \in 0 .. Len(received[c]) :
          taken[c] = 2 * n /\ told[c] = Says(c, 0, n)
    BY <2>2 DEF ToldInOrder
  <2>4. PICK m \in Nat : last = 2 * m
    <3>1. last % 2 # 1
      BY <2>1 DEF IsHeader
    <3>2. last \div 2 \in Nat /\ last = 2 * (last \div 2)
      BY <1>7, <3>1
    <3> QED
      BY <3>2
  <2>5. n \in Nat /\ n < m /\ m <= r
    BY <1>6, <1>7, <2>3, <2>4
  <2>6. PICK d \in Nat : d = m - n
    BY <2>5
  <2>7. decoded = Says(c, n, d)
    BY <2>3, <2>4, <2>5, <2>6, WholeEvent DEF decoded
  <2>8. /\ decoded \in Seq({Say(c, i) : i \in Nat}) /\ Len(decoded) = d
        /\ \A j \in 1 .. d : decoded[j] = Say(c, n + j)
    BY <2>5, <2>7, SaysSequence
  <2>9. \A j \in 1 .. Len(decoded) : decoded[j] # Endless
    <3>1. \A i : Say(c, i) # Endless
      BY DEF Say, Endless
    <3> QED
      BY <2>8, <3>1
  <2>10. ~ Contains(decoded, Endless)
    BY <2>9 DEF Contains
  <2>11. EmittedBy(decoded) = decoded
    BY <2>10 DEF EmittedBy
  <2>12. Says(c, 0, n) \o Says(c, n, d) = Says(c, 0, m)
    <3>1. PICK a \in Nat : a = 0
      OBVIOUS
    <3>2. \A x, y, z \in Nat : Says(c, x, y) \o Says(c, x + y, z) =
                                  Says(c, x, y + z)
      BY SaysMeet
    <3>3. Says(c, a, n) \o Says(c, a + n, d) = Says(c, a, n + d)
      BY <2>5, <3>2, Zenon
    <3>4. a + n = n /\ n + d = m
      BY <2>5, <2>6, <3>1
    <3> QED
      BY <3>1, <3>3, <3>4
  <2>13. told'[c] = Says(c, 0, m) /\ taken'[c] = 2 * m
    <3>1. told'[c] = told[c] \o EmittedBy(decoded) /\ taken'[c] = last
      BY <1>2, <1>3
    <3> QED
      BY <2>3, <2>4, <2>7, <2>11, <2>12, <3>1
  <2>14. \A e \in Clients : \A i : Say(e, i)' = Say(e, i)
    BY <1>4 DEF Say, EventOf
  <2>15. \A e \in Clients : \A k : Says(e, 0, k)' = Says(e, 0, k)
    BY <2>14 DEF Says
  <2>16. ToldInOrder(c)'
    <3>1. m \in 0 .. Len(received'[c])
      BY <1>4, <1>6, <2>5
    <3> QED
      BY <2>13, <2>15, <3>1 DEF ToldInOrder
  <2>17. ASSUME NEW e \in Clients, e # c
         PROVE  ToldInOrder(e)'
    <3>1. taken'[e] = taken[e] /\ told'[e] = told[e]
      BY <1>2, <1>3, <2>17
    <3> QED
      BY <1>4, <2>2, <2>15, <3>1 DEF ToldInOrder
  <2> QED
    BY <1>2, <2>10, <2>16, <2>17
<1> QED
  BY <1>5, <1>8, <1>9 DEF AdaptorInv

(* Every step of the server, of the adaptor and of the browsers. *)
LEMMA NodeNextInv == AdaptorInv /\ [NodeNext]_nodeVars => AdaptorInv'
<1> SUFFICES ASSUME AdaptorInv, [NodeNext]_nodeVars
             PROVE  AdaptorInv'
  OBVIOUS
<1>1. CASE Server
  BY <1>1, ServerKeeps
<1>2. ASSUME NEW c \in Clients, Connected(c)
      PROVE  AdaptorInv'
  BY <1>2, ConnectedKeeps
<1>3. ASSUME NEW c \in Clients, Refused(c)
      PROVE  AdaptorInv'
  BY <1>3, RefusedKeeps
<1>4. ASSUME NEW c \in Clients, Ask(c)
      PROVE  AdaptorInv'
  BY <1>4, AskKeeps
<1>5. ASSUME NEW c \in Clients, AskEarly(c)
      PROVE  AdaptorInv'
  BY <1>5, AskEarlyKeeps
<1>6. ASSUME NEW c \in Clients, DataEvent(c)
      PROVE  AdaptorInv'
  BY <1>6, DataEventKeeps
<1>7. CASE UNCHANGED nodeVars
  <2>1. TypeOK'
    BY <1>7 DEF AdaptorInv, SessionInv, TypeOK, nodeVars, vars, sessionVars
  <2> QED
    BY <1>7, <2>1, QuietStep DEF nodeVars, vars, sessionVars
<1> QED
  BY <1>1, <1>2, <1>3, <1>4, <1>5, <1>6, <1>7, Zenon DEF NodeNext

(* For any number of browsers and whatever they ask: as long as every data *)
(* event ends where a packet ends, each of them is told the replies to its *)
(* requests whole, in order and under their names, and no loop is endless. *)
(* The sessions behind the adaptors keep one write of the oldest reply and *)
(* their order of replies, requests kept from before the connection        *)
(* included.                                                               *)
THEOREM BrowsersAreTold ==
  NodeSpec => [](RepliesReachTheBrowser /\ OneWriteAtFront /\ RepliesInOrder)
<1>1. NodeInit => AdaptorInv
  BY NodeInitInv
<1>2. AdaptorInv /\ [NodeNext]_nodeVars => AdaptorInv'
  BY NodeNextInv
<1>3. AdaptorInv =>
        RepliesReachTheBrowser /\ OneWriteAtFront /\ RepliesInOrder
  BY AdaptorInvImplies, SessionInvImplies DEF AdaptorInv
<1> QED
  BY <1>1, <1>2, <1>3, PTL DEF NodeSpec
=============================================================================
