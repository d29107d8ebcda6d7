-------------------------- MODULE ContextTree_proofs --------------------------
(***************************************************************************)
(* Lemmas about the operators of the pool of contexts and of the context   *)
(* tree: what keeps the pool a partition, what a walk finds, what          *)
(* a context remembers, and what adding a chain of vertices and printing   *)
(* the tree leave unchanged.  The theorems about the model that keeps such *)
(* a tree rest on them.                                                    *)
(***************************************************************************)
EXTENDS ContextTree, Induction, SequenceTheorems

(***************************************************************************)
(* What the operations of the pool of contexts preserve: each maps a       *)
(* partition of the ids into active and inactive ones to another.          *)
(***************************************************************************)

(* A sequence without repetitions loses exactly one element when it is     *)
(* removed: deactivate_context's erase.                                    *)
LEMMA RemoveFirstOnce ==
  ASSUME NEW S, NEW s \in Seq(S), NoRepeats(s), NEW k \in DOMAIN s
  PROVE  /\ RemoveFirst(s, s[k]) \in Seq(S)
         /\ Len(RemoveFirst(s, s[k])) = Len(s) - 1
         /\ \A i \in 1 .. Len(s) - 1 :
              RemoveFirst(s, s[k])[i] = IF i < k THEN s[i] ELSE s[i + 1]
<1>1. DOMAIN s = 1 .. Len(s) /\ Len(s) \in Nat /\ k \in 1 .. Len(s)
  BY LenProperties
<1>2. {i \in 1 .. Len(s) : s[i] = s[k]} = {k}
  BY <1>1 DEF NoRepeats
<1>3. Min({k}) = k
  BY <1>1 DEF Min
<1> DEFINE before == SubSeq(s, 1, k - 1)
           after == SubSeq(s, k + 1, Len(s))
<1>4. RemoveFirst(s, s[k]) = before \o after
  BY <1>1, <1>2, <1>3 DEF RemoveFirst, RemoveAt, SelectInSeq
<1>5. /\ before \in Seq(S)
      /\ Len(before) = k - 1
      /\ \A i \in 1 .. k - 1 : before[i] = s[i]
  BY <1>1, ElementOfSeq, SubSeqProperties, Z3
<1>6. /\ after \in Seq(S)
      /\ Len(after) = Len(s) - k
      /\ \A i \in 1 .. Len(s) - k : after[i] = s[k + i]
  BY <1>1, ElementOfSeq, SubSeqProperties, Z3
<1> HIDE DEF before, after
<1>7. /\ before \o after \in Seq(S)
      /\ Len(before \o after) = Len(before) + Len(after)
      /\ \A i \in 1 .. Len(before) + Len(after) :
           (before \o after)[i] =
             IF i <= Len(before) THEN before[i] ELSE after[i - Len(before)]
  BY <1>5, <1>6, ConcatProperties
<1>8. ASSUME NEW i \in 1 .. Len(s) - 1
      PROVE  (before \o after)[i] = IF i < k THEN s[i] ELSE s[i + 1]
  <2>1. CASE i < k
    BY <1>1, <1>5, <1>6, <1>7, <2>1
  <2>2. CASE i >= k
    <3>1. i - (k - 1) \in 1 .. Len(s) - k /\ ~ (i <= k - 1)
      BY <1>1, <2>2
    <3>2. after[i - (k - 1)] = s[k + (i - (k - 1))]
      BY <1>6, <3>1
    <3>3. k + (i - (k - 1)) = i + 1 /\ ~ (i < k)
      BY <1>1, <2>2
    <3>4. i \in 1 .. Len(before) + Len(after) /\ Len(before) = k - 1
      BY <1>1, <1>5, <1>6
    <3>5. (before \o after)[i] = after[i - (k - 1)]
      BY <1>7, <3>1, <3>4
    <3> QED
      BY <3>2, <3>3, <3>5
  <2>3. i < k \/ i >= k
    BY <1>1
  <2> QED
    BY <2>1, <2>2, <2>3
<1> QED
  BY <1>1, <1>4, <1>5, <1>6, <1>7, <1>8

(* What an erase, a push_back and a pop_front make of the set of elements  *)
(* of a sequence without repetitions.                                      *)
LEMMA RemoveFirstSet ==
  ASSUME NEW S, NEW s \in Seq(S), NoRepeats(s), NEW k \in DOMAIN s
  PROVE  /\ NoRepeats(RemoveFirst(s, s[k]))
         /\ ToSet(RemoveFirst(s, s[k])) = ToSet(s) \ {s[k]}
<1> DEFINE r == RemoveFirst(s, s[k])
<1>1. /\ r \in Seq(S)
      /\ Len(r) = Len(s) - 1
      /\ \A i \in 1 .. Len(s) - 1 : r[i] = IF i < k THEN s[i] ELSE s[i + 1]
  BY RemoveFirstOnce
<1>2. DOMAIN s = 1 .. Len(s) /\ Len(s) \in Nat /\ k \in 1 .. Len(s)
  BY LenProperties
<1> HIDE DEF r
<1>3. DOMAIN r = 1 .. Len(s) - 1
  BY <1>1, LenProperties
<1>4. NoRepeats(r)
  BY <1>1, <1>2, <1>3, Z3 DEF NoRepeats
<1>5. ASSUME NEW i \in DOMAIN r
      PROVE  r[i] \in ToSet(s) \ {s[k]}
  <2>1. PICK j \in DOMAIN s : j # k /\ r[i] = s[j]
    <3>1. CASE i < k
      BY <1>1, <1>2, <1>3, <3>1
    <3>2. CASE ~(i < k)
      <4>1. i + 1 \in DOMAIN s /\ i + 1 # k
        BY <1>2, <1>3, <3>2
      <4>2. r[i] = s[i + 1]
        BY <1>1, <1>3, <3>2
      <4> QED
        BY <4>1, <4>2
    <3> QED
      BY <3>1, <3>2
  <2>2. s[j] # s[k]
    BY <1>2, <2>1 DEF NoRepeats
  <2> QED
    BY <2>1, <2>2 DEF ToSet
<1>6. ASSUME NEW j \in DOMAIN s, s[j] # s[k]
      PROVE  \E i \in DOMAIN r : r[i] = s[j]
  <2>1. CASE j < k
    BY <1>1, <1>2, <1>3, <2>1
  <2>2. CASE j > k
    <3>1. j - 1 \in DOMAIN r /\ ~ (j - 1 < k) /\ (j - 1) + 1 = j
      BY <1>2, <1>3, <2>2
    <3> QED
      BY <1>1, <1>3, <3>1
  <2> QED
    BY <1>2, <1>6, <2>1, <2>2
<1>7. ToSet(r) = ToSet(s) \ {s[k]}
  <2>1. ASSUME NEW x \in ToSet(r)
        PROVE  x \in ToSet(s) \ {s[k]}
    BY <1>5 DEF ToSet
  <2>2. ASSUME NEW x \in ToSet(s), x # s[k]
        PROVE  x \in ToSet(r)
    <3>1. PICK j \in DOMAIN s : x = s[j]
      BY DEF ToSet
    <3>2. PICK i \in DOMAIN r : r[i] = s[j]
      BY <1>6, <2>2, <3>1
    <3> QED
      BY <3>1, <3>2 DEF ToSet
  <2> QED
    BY <2>1, <2>2
<1> QED
  BY <1>4, <1>7 DEF r

(* push_back of an id that is not in the deque. *)
LEMMA AppendSet ==
  ASSUME NEW S, NEW s \in Seq(S), NoRepeats(s), NEW e \in S, e \notin ToSet(s)
  PROVE  /\ Append(s, e) \in Seq(S)
         /\ Len(Append(s, e)) = Len(s) + 1
         /\ NoRepeats(Append(s, e))
         /\ ToSet(Append(s, e)) = ToSet(s) \cup {e}
<1> DEFINE t == Append(s, e)
<1>1. /\ t \in Seq(S)
      /\ Len(t) = Len(s) + 1
      /\ \A i \in 1 .. Len(s) : t[i] = s[i]
      /\ t[Len(s) + 1] = e
  BY AppendProperties
<1> HIDE DEF t
<1>2. /\ DOMAIN s = 1 .. Len(s) /\ Len(s) \in Nat
      /\ DOMAIN t = 1 .. Len(s) + 1
  BY <1>1, LenProperties
<1>3. NoRepeats(t)
  BY <1>1, <1>2, Z3 DEF NoRepeats, ToSet
<1>4. ToSet(t) = ToSet(s) \cup {e}
  BY <1>1, <1>2, Z3 DEF ToSet
<1> QED
  BY <1>1, <1>3, <1>4 DEF t

(* pop_front. *)
LEMMA TailSet ==
  ASSUME NEW S, NEW s \in Seq(S), NoRepeats(s), s # << >>
  PROVE  /\ Head(s) \in ToSet(s)
         /\ Tail(s) \in Seq(S)
         /\ Len(Tail(s)) = Len(s) - 1
         /\ NoRepeats(Tail(s))
         /\ ToSet(Tail(s)) = ToSet(s) \ {Head(s)}
<1> DEFINE t == Tail(s)
<1>1. /\ t \in Seq(S)
      /\ Len(t) = Len(s) - 1
      /\ \A i \in 1 .. Len(t) : t[i] = s[i + 1]
  BY HeadTailProperties
<1> HIDE DEF t
<1>2. /\ DOMAIN s = 1 .. Len(s) /\ Len(s) \in Nat \ {0}
      /\ DOMAIN t = 1 .. Len(s) - 1
  BY <1>1, LenProperties, EmptySeq
<1>3. Head(s) = s[1] /\ 1 \in DOMAIN s
  BY <1>2
<1>4. NoRepeats(t)
  BY <1>1, <1>2, Z3 DEF NoRepeats
<1>5. ASSUME NEW i \in DOMAIN t
      PROVE  t[i] \in ToSet(s) \ {s[1]}
  BY <1>1, <1>2, Z3 DEF NoRepeats, ToSet
<1>6. ASSUME NEW j \in DOMAIN s, s[j] # s[1]
      PROVE  \E i \in DOMAIN t : t[i] = s[j]
  <2>1. j - 1 \in DOMAIN t /\ (j - 1) + 1 = j
    BY <1>2, <1>6
  <2> QED
    BY <1>1, <1>2, <2>1
<1>7. ToSet(t) = ToSet(s) \ {s[1]}
  <2>1. ASSUME NEW x \in ToSet(t)
        PROVE  x \in ToSet(s) \ {s[1]}
    BY <1>5 DEF ToSet
  <2>2. ASSUME NEW x \in ToSet(s), x # s[1]
        PROVE  x \in ToSet(t)
    <3>1. PICK j \in DOMAIN s : x = s[j]
      BY DEF ToSet
    <3>2. PICK i \in DOMAIN t : t[i] = s[j]
      BY <1>6, <2>2, <3>1
    <3> QED
      BY <3>1, <3>2 DEF ToSet
  <2> QED
    BY <2>1, <2>2
<1> QED
  BY <1>1, <1>3, <1>4, <1>7 DEF t, ToSet

(* A cut in two, as flush_ids makes it: the parts share no element and     *)
(* have all of them.                                                       *)
LEMMA CutSet ==
  ASSUME NEW S, NEW s \in Seq(S), NoRepeats(s), NEW n \in 0 .. Len(s)
  PROVE  LET a == SubSeq(s, 1, n)
             b == SubSeq(s, n + 1, Len(s))
         IN /\ a \in Seq(S) /\ b \in Seq(S)
            /\ Len(a) = n /\ Len(b) = Len(s) - n
            /\ NoRepeats(a) /\ NoRepeats(b)
            /\ ToSet(a) \cap ToSet(b) = {}
            /\ ToSet(a) \cup ToSet(b) = ToSet(s)
<1> DEFINE a == SubSeq(s, 1, n)
           b == SubSeq(s, n + 1, Len(s))
<1>1. DOMAIN s = 1 .. Len(s) /\ Len(s) \in Nat /\ n \in Int
  BY LenProperties
<1>2. /\ a \in Seq(S)
      /\ Len(a) = n
      /\ \A i \in 1 .. n : a[i] = s[i]
  BY <1>1, ElementOfSeq, SubSeqProperties, Z3
<1>3. /\ b \in Seq(S)
      /\ Len(b) = Len(s) - n
      /\ \A i \in 1 .. Len(s) - n : b[i] = s[n + i]
  BY <1>1, ElementOfSeq, SubSeqProperties, Z3
<1> HIDE DEF a, b
<1>4. DOMAIN a = 1 .. n /\ DOMAIN b = 1 .. Len(s) - n
  BY <1>2, <1>3, LenProperties
<1>a. ASSUME NEW i \in DOMAIN a
      PROVE  i \in DOMAIN s /\ i <= n /\ a[i] = s[i] /\ i \in Int
  BY <1>1, <1>2, <1>4
<1>b. ASSUME NEW i \in DOMAIN b
      PROVE  n + i \in DOMAIN s /\ n + i > n /\ b[i] = s[n + i] /\ i \in Int
  BY <1>1, <1>3, <1>4
<1>5. NoRepeats(a)
  BY <1>a DEF NoRepeats
<1>6. NoRepeats(b)
  <2>1. ASSUME NEW i \in DOMAIN b, NEW j \in DOMAIN b, b[i] = b[j]
        PROVE  i = j
    <3>1. n + i = n + j
      BY <1>b, <2>1 DEF NoRepeats
    <3> QED
      BY <1>1, <1>b, <3>1
  <2> QED
    BY <2>1 DEF NoRepeats
<1>7. ToSet(a) \cap ToSet(b) = {}
  <2>1. ASSUME NEW i \in DOMAIN a, NEW j \in DOMAIN b
        PROVE  a[i] # b[j]
    <3>1. i # n + j
      BY <1>1, <1>a, <1>b
    <3> QED
      BY <1>a, <1>b, <3>1 DEF NoRepeats
  <2> QED
    BY <2>1 DEF ToSet
<1>8. ASSUME NEW x \in ToSet(a) \cup ToSet(b)
      PROVE  x \in ToSet(s)
  BY <1>a, <1>b DEF ToSet
<1>9. ASSUME NEW j \in DOMAIN s
      PROVE  s[j] \in ToSet(a) \cup ToSet(b)
  <2>1. CASE j <= n
    BY <1>1, <1>2, <1>4, <2>1 DEF ToSet
  <2>2. CASE j > n
    <3>1. j - n \in DOMAIN b /\ n + (j - n) = j
      BY <1>1, <1>4, <2>2
    <3> QED
      BY <1>3, <1>4, <3>1 DEF ToSet
  <2> QED
    BY <1>1, <2>1, <2>2
<1>10. ToSet(a) \cup ToSet(b) = ToSet(s)
  BY <1>8, <1>9 DEF ToSet
<1> QED
  BY <1>2, <1>3, <1>5, <1>6, <1>7, <1>10 DEF a, b

(* What IsPartition says of the two deques, and that it says no more. *)
LEMMA PartitionFacts ==
  ASSUME NEW p, IsPartition(p)
  PROVE  /\ p.active \in Seq(ContextIds) /\ p.inactive \in Seq(ContextIds)
         /\ Len(p.active) \in Nat /\ Len(p.inactive) \in Nat
         /\ Len(p.active) + Len(p.inactive) = MaxContexts
         /\ NoRepeats(p.active) /\ NoRepeats(p.inactive)
         /\ ToSet(p.active) \cap ToSet(p.inactive) = {}
         /\ ToSet(p.active) \cup ToSet(p.inactive) = ContextIds
<1>1. p.active \in Seq(ContextIds) /\ p.inactive \in Seq(ContextIds)
  BY DEF IsPartition, Pools
<1> QED
  BY <1>1, LenProperties DEF IsPartition

(* Two deques without repetition that share no id and hold all. *)
LEMMA PartitionOf ==
  ASSUME NEW a \in Seq(ContextIds), NEW b \in Seq(ContextIds),
         Len(a) + Len(b) = MaxContexts,
         NoRepeats(a), NoRepeats(b),
         ToSet(a) \cap ToSet(b) = {},
         ToSet(a) \cup ToSet(b) = ContextIds
  PROVE  IsPartition([active |-> a, inactive |-> b])
BY DEF IsPartition, Pools

(* The constructor's pool is a partition. *)
LEMMA InitialPoolPartition == IsPartition(InitialPool)
<1> DEFINE free == [i \in 1 .. MaxContexts |-> i - 1]
<1>1. /\ free \in Seq(ContextIds)
      /\ Len(free) = MaxContexts
      /\ DOMAIN free = 1 .. MaxContexts
  BY MaxContextsAssumption DEF ContextIds
<1>2. NoRepeats(free)
  BY MaxContextsAssumption DEF NoRepeats
<1>3. ToSet(free) = ContextIds
  <2>1. ASSUME NEW id \in ContextIds
        PROVE  id + 1 \in DOMAIN free /\ free[id + 1] = id
    BY MaxContextsAssumption DEF ContextIds
  <2>2. ASSUME NEW i \in DOMAIN free
        PROVE  free[i] \in ContextIds
    BY MaxContextsAssumption DEF ContextIds
  <2> HIDE DEF free
  <2> QED
    BY <2>1, <2>2 DEF ToSet
<1> HIDE DEF free
<1>4. /\ << >> \in Seq(ContextIds)
      /\ Len(<< >>) = 0
      /\ NoRepeats(<< >>)
      /\ ToSet(<< >>) = {}
  BY EmptySeq DEF NoRepeats, ToSet
<1>5. InitialPool = [active |-> << >>, inactive |-> free]
  BY DEF InitialPool, free
<1> QED
  BY <1>1, <1>2, <1>3, <1>4, <1>5, MaxContextsAssumption
  DEF IsPartition, Pools

(* deactivate_context on an id in use. *)
LEMMA DeactivatedPartition ==
  ASSUME NEW p, IsPartition(p), NEW id \in ToSet(p.active)
  PROVE  IsPartition(Deactivated(p, id))
<1>1. /\ id \in ContextIds
      /\ id \notin ToSet(p.inactive)
      /\ p.inactive \in Seq(ContextIds) /\ NoRepeats(p.inactive)
      /\ Len(p.active) \in Nat /\ Len(p.inactive) \in Nat
      /\ Len(p.active) + Len(p.inactive) = MaxContexts
  BY PartitionFacts
<1>2. PICK k \in DOMAIN p.active : p.active[k] = id
  BY DEF ToSet
<1> DEFINE act == RemoveFirst(p.active, id)
           inact == Append(p.inactive, id)
<1>3. /\ act \in Seq(ContextIds)
      /\ Len(act) = Len(p.active) - 1
      /\ NoRepeats(act)
      /\ ToSet(act) = ToSet(p.active) \ {id}
  BY <1>2, PartitionFacts, RemoveFirstOnce, RemoveFirstSet
<1>4. /\ inact \in Seq(ContextIds)
      /\ Len(inact) = Len(p.inactive) + 1
      /\ NoRepeats(inact)
      /\ ToSet(inact) = ToSet(p.inactive) \cup {id}
  BY <1>1, AppendSet
<1> HIDE DEF act, inact
<1>5. Deactivated(p, id) = [active |-> act, inactive |-> inact]
  BY DEF Deactivated, act, inact
<1>6. Len(act) + Len(inact) = MaxContexts
  <2> DEFINE used == Len(p.active)
             free == Len(p.inactive)
             usedNow == Len(act)
             freeNow == Len(inact)
  <2>1. used \in Nat /\ free \in Nat /\ used + free = MaxContexts
    BY <1>1
  <2>2. usedNow = used - 1
    BY <1>3
  <2>3. freeNow = free + 1
    BY <1>4
  <2> HIDE DEF used, free, usedNow, freeNow
  <2>4. usedNow + freeNow = MaxContexts
    BY <2>1, <2>2, <2>3
  <2> QED
    BY <2>4 DEF usedNow, freeNow
<1>7. /\ ToSet(act) \cap ToSet(inact) = {}
      /\ ToSet(act) \cup ToSet(inact) = ContextIds
  BY <1>3, <1>4, PartitionFacts
<1> QED
  BY <1>3, <1>4, <1>5, <1>6, <1>7, PartitionOf

(* flush_ids, called when no id is free: it frees at least one. *)
LEMMA FlushedPartition ==
  ASSUME NEW p, IsPartition(p), p.inactive = << >>
  PROVE  IsPartition(Flushed(p)) /\ Flushed(p).inactive # << >>
<1>1. /\ p.active \in Seq(ContextIds)
      /\ NoRepeats(p.active)
      /\ Len(p.active) = MaxContexts
      /\ ToSet(p.active) = ContextIds
  <2>1. Len(p.inactive) = 0 /\ ToSet(p.inactive) = {}
    BY EmptySeq DEF ToSet
  <2>2. /\ p.active \in Seq(ContextIds)
        /\ NoRepeats(p.active)
        /\ Len(p.active) \in Nat
        /\ Len(p.active) + Len(p.inactive) = MaxContexts
        /\ ToSet(p.active) \cup ToSet(p.inactive) = ContextIds
    BY PartitionFacts, Zenon
  <2>3. Len(p.active) = MaxContexts
    BY <2>1, <2>2
  <2> QED
    BY <2>1, <2>2, <2>3
<1>2. FlushCount \in 1 .. Len(p.active)
  BY <1>1, MaxContextsAssumption DEF FlushCount
<1> DEFINE freed == SubSeq(p.active, 1, FlushCount)
           act == SubSeq(p.active, FlushCount + 1, Len(p.active))
<1>3. FlushCount \in 0 .. Len(p.active) /\ FlushCount \in Int
  BY <1>1, <1>2
<1>4. /\ freed \in Seq(ContextIds) /\ act \in Seq(ContextIds)
      /\ Len(freed) = FlushCount /\ Len(act) = Len(p.active) - FlushCount
      /\ NoRepeats(freed) /\ NoRepeats(act)
      /\ ToSet(freed) \cap ToSet(act) = {}
      /\ ToSet(freed) \cup ToSet(act) = ToSet(p.active)
  BY <1>1, <1>3, CutSet
<1>5. p.inactive \o freed = freed
  BY <1>4, ConcatEmptySeq
<1> HIDE DEF freed, act
<1>6. Flushed(p) = [active |-> act, inactive |-> freed]
  BY <1>5 DEF Flushed, freed, act
<1>7. Len(act) + Len(freed) = MaxContexts
  BY <1>1, <1>3, <1>4, MaxContextsAssumption
<1>8. IsPartition(Flushed(p))
  BY <1>1, <1>4, <1>6, <1>7, PartitionOf
<1>9. freed # << >>
  BY <1>2, <1>4, EmptySeq
<1> QED
  BY <1>6, <1>8, <1>9

(* activate_context never runs out of ids. *)
LEMMA ReplenishedPartition ==
  ASSUME NEW p, IsPartition(p)
  PROVE  IsPartition(Replenished(p)) /\ Replenished(p).inactive # << >>
BY FlushedPartition DEF Replenished

(* activate_context leaves a partition and hands out an id that no active  *)
(* context has.                                                            *)
LEMMA ActivatedPartition ==
  ASSUME NEW p, IsPartition(p)
  PROVE  /\ IsPartition(Activated(p))
         /\ NextId(p) \in ContextIds
         /\ NextId(p) \notin ToSet(Replenished(p).active)
         /\ NextId(p) \in ToSet(Activated(p).active)
<1> DEFINE q == Replenished(p)
           id == NextId(p)
           act == Append(q.active, id)
           inact == Tail(q.inactive)
<1>1. IsPartition(q) /\ q.inactive # << >>
  BY ReplenishedPartition
<1> HIDE DEF q
<1>2. /\ q.active \in Seq(ContextIds) /\ q.inactive \in Seq(ContextIds)
      /\ Len(q.active) \in Nat /\ Len(q.inactive) \in Nat
      /\ Len(q.active) + Len(q.inactive) = MaxContexts
      /\ NoRepeats(q.active) /\ NoRepeats(q.inactive)
      /\ ToSet(q.active) \cap ToSet(q.inactive) = {}
      /\ ToSet(q.active) \cup ToSet(q.inactive) = ContextIds
  BY <1>1, PartitionFacts
<1>3. id = Head(q.inactive)
  BY DEF NextId, q
<1> HIDE DEF id
<1>4. /\ id \in ToSet(q.inactive)
      /\ inact \in Seq(ContextIds)
      /\ Len(inact) = Len(q.inactive) - 1
      /\ NoRepeats(inact)
      /\ ToSet(inact) = ToSet(q.inactive) \ {id}
  BY <1>1, <1>2, <1>3, TailSet
<1>5. id \in ContextIds /\ id \notin ToSet(q.active)
  BY <1>2, <1>4
<1>6. /\ act \in Seq(ContextIds)
      /\ Len(act) = Len(q.active) + 1
      /\ NoRepeats(act)
      /\ ToSet(act) = ToSet(q.active) \cup {id}
  BY <1>2, <1>5, AppendSet
<1>7. Activated(p) = [active |-> act, inactive |-> inact]
  BY DEF Activated, q, id
<1> HIDE DEF act, inact
<1>8. Len(act) + Len(inact) = MaxContexts
  <2> DEFINE used == Len(q.active)
             free == Len(q.inactive)
             usedNow == Len(act)
             freeNow == Len(inact)
  <2>1. used \in Nat /\ free \in Nat /\ used + free = MaxContexts
    BY <1>2
  <2>2. usedNow = used + 1
    BY <1>6
  <2>3. freeNow = free - 1
    BY <1>4
  <2> HIDE DEF used, free, usedNow, freeNow
  <2>4. usedNow + freeNow = MaxContexts
    BY <2>1, <2>2, <2>3
  <2> QED
    BY <2>4 DEF usedNow, freeNow
<1>9. /\ ToSet(act) \cap ToSet(inact) = {}
      /\ ToSet(act) \cup ToSet(inact) = ContextIds
  BY <1>2, <1>4, <1>6
<1>10. IsPartition(Activated(p))
  BY <1>4, <1>6, <1>7, <1>8, <1>9, PartitionOf
<1> QED
  BY <1>5, <1>6, <1>7, <1>10 DEF q, id

(* validate_id: an id it accepts is in use, the length of the array aside. *)
LEMMA ValidIdIsActive ==
  ASSUME NEW p, IsPartition(p), NEW id \in Nat \ {MaxContexts}, ValidId(p, id)
  PROVE  id \in ToSet(p.active)
<1>1. id \in ContextIds
  BY MaxContextsAssumption DEF ValidId, ContextIds
<1> QED
  BY <1>1, PartitionFacts DEF ValidId

(* The id released is the only one no longer active. *)
LEMMA DeactivatedActive ==
  ASSUME NEW p, IsPartition(p), NEW id \in ToSet(p.active)
  PROVE  ToSet(Deactivated(p, id).active) = ToSet(p.active) \ {id}
<1>1. p.active \in Seq(ContextIds) /\ NoRepeats(p.active)
  BY PartitionFacts
<1>2. PICK k \in DOMAIN p.active : id = p.active[k]
  BY DEF ToSet
<1>3. Deactivated(p, id).active = RemoveFirst(p.active, id)
  BY DEF Deactivated
<1> QED
  BY <1>1, <1>2, <1>3, RemoveFirstSet

(* The id handed out is the only one newly active. *)
LEMMA ActivatedActive ==
  ASSUME NEW p, IsPartition(p)
  PROVE  ToSet(Activated(p).active) \subseteq ToSet(p.active) \cup {NextId(p)}
<1> DEFINE q == Replenished(p)
<1>1. IsPartition(q) /\ q.inactive # << >>
  BY ReplenishedPartition
<1>2. ToSet(q.active) \subseteq ToSet(p.active)
  <2>1. CASE p.inactive # << >>
    BY <2>1 DEF Replenished
  <2>2. CASE p.inactive = << >>
    <3>1. /\ p.active \in Seq(ContextIds) /\ NoRepeats(p.active)
          /\ Len(p.active) = MaxContexts
      <4>1. /\ p.active \in Seq(ContextIds) /\ NoRepeats(p.active)
            /\ Len(p.active) \in Nat
            /\ Len(p.active) + Len(p.inactive) = MaxContexts
        BY PartitionFacts
      <4>2. Len(p.inactive) = 0
        BY <2>2
      <4> QED
        BY <4>1, <4>2
    <3>2. FlushCount \in 0 .. Len(p.active)
      BY <3>1, MaxContextsAssumption DEF FlushCount
    <3>3. ToSet(SubSeq(p.active, FlushCount + 1, Len(p.active)))
            \subseteq ToSet(p.active)
      BY <3>1, <3>2, CutSet
    <3>4. q.active = SubSeq(p.active, FlushCount + 1, Len(p.active))
      BY <2>2 DEF Replenished, Flushed
    <3> QED
      BY <3>3, <3>4
  <2> QED
    BY <2>1, <2>2
<1>3. Activated(p).active = Append(q.active, NextId(p))
  BY DEF Activated
<1>4. NextId(p) \in ContextIds /\ NextId(p) \notin ToSet(q.active)
  BY ActivatedPartition
<1>5. q.active \in Seq(ContextIds) /\ NoRepeats(q.active)
  BY <1>1, PartitionFacts
<1> HIDE DEF q
<1>6. ToSet(Activated(p).active) = ToSet(q.active) \cup {NextId(p)}
  BY <1>3, <1>4, <1>5, AppendSet
<1> QED
  BY <1>2, <1>6

(***************************************************************************)
(* Maps that have a value for some keys: the C++ maps of the code.         *)
(***************************************************************************)
PartialMaps(A, B) == UNION {[D -> B] : D \in SUBSET A}

(* What it is to be one. *)
LEMMA PartialMap ==
  ASSUME NEW A, NEW B, NEW f
  PROVE  f \in PartialMaps(A, B) <=>
           /\ f = [x \in DOMAIN f |-> f[x]]
           /\ DOMAIN f \subseteq A
           /\ \A x \in DOMAIN f : f[x] \in B
<1>1. ASSUME f \in PartialMaps(A, B)
      PROVE  /\ f = [x \in DOMAIN f |-> f[x]]
             /\ DOMAIN f \subseteq A
             /\ \A x \in DOMAIN f : f[x] \in B
  BY <1>1 DEF PartialMaps
<1>2. ASSUME f = [x \in DOMAIN f |-> f[x]], DOMAIN f \subseteq A,
             \A x \in DOMAIN f : f[x] \in B
      PROVE  f \in PartialMaps(A, B)
  <2>1. f \in [DOMAIN f -> B]
    BY <1>2
  <2> QED
    BY <1>2, <2>1 DEF PartialMaps
<1> QED
  BY <1>1, <1>2

(* A map between sets is one between larger ones. *)
LEMMA PartialMapsGrow ==
  ASSUME NEW A, NEW B, NEW A2, NEW B2, A \subseteq A2, B \subseteq B2
  PROVE  PartialMaps(A, B) \subseteq PartialMaps(A2, B2)
BY PartialMap

(* btree_map::insert. *)
Extends(g, f, x, y) ==
  /\ DOMAIN g = DOMAIN f \cup {x}
  /\ \A u \in DOMAIN f : g[u] = f[u]
  /\ x \notin DOMAIN f => g[x] = y

(* insert adds a key that is new, and changes no value. *)
LEMMA InsertedMap ==
  ASSUME NEW A, NEW B, NEW f \in PartialMaps(A, B), NEW x \in A, NEW y \in B
  PROVE  /\ Inserted(f, x, y) \in PartialMaps(A, B)
         /\ Extends(Inserted(f, x, y), f, x, y)
<1> DEFINE g == Inserted(f, x, y)
<1>1. g = [u \in DOMAIN f \cup {x} |-> IF u \in DOMAIN f THEN f[u] ELSE y]
  BY DEF Inserted
<1>2. DOMAIN f \subseteq A /\ \A u \in DOMAIN f : f[u] \in B
  BY PartialMap
<1>3. /\ DOMAIN g = DOMAIN f \cup {x}
      /\ g = [u \in DOMAIN g |-> g[u]]
      /\ \A u \in DOMAIN f : g[u] = f[u]
      /\ x \notin DOMAIN f => g[x] = y
  BY <1>1
<1> HIDE DEF g
<1>4. g \in PartialMaps(A, B)
  BY <1>2, <1>3, PartialMap
<1> QED
  BY <1>3, <1>4 DEF g, Extends

(***************************************************************************)
(* Trees of vertices, with tokens below k.                                 *)
(***************************************************************************)
Nodes(n, k) ==
  [token : 0 .. k - 1, edges : Seq(0 .. n - 1),
   subtree : PartialMaps(0 .. k - 1, 0 .. n - 1)]

IsTree(t, k) == t \in Seq(Nodes(Len(t), k)) /\ Len(t) > 0

(* The parts of a vertex. *)
LEMMA NodeFacts ==
  ASSUME NEW k \in Nat, NEW t, IsTree(t, k), NEW v \in 0 .. Len(t) - 1
  PROVE  /\ v + 1 \in DOMAIN t
         /\ t[v + 1] \in Nodes(Len(t), k)
         /\ t[v + 1].token \in 0 .. k - 1
         /\ t[v + 1].edges \in Seq(0 .. Len(t) - 1)
         /\ t[v + 1].subtree \in PartialMaps(0 .. k - 1, 0 .. Len(t) - 1)
<1>1. v + 1 \in DOMAIN t /\ t[v + 1] \in Nodes(Len(t), k)
  BY DEF IsTree
<1> QED
  BY <1>1 DEF Nodes

(* Children are vertices. *)
LEMMA ChildrenFacts ==
  ASSUME NEW k \in Nat, NEW t, IsTree(t, k), NEW v \in 0 .. Len(t) - 1
  PROVE  Children(t, v) \subseteq 0 .. Len(t) - 1
<1> DEFINE edges == t[v + 1].edges
           subtree == t[v + 1].subtree
<1>1. /\ edges \in Seq(0 .. Len(t) - 1)
      /\ subtree \in PartialMaps(0 .. k - 1, 0 .. Len(t) - 1)
  BY NodeFacts
<1> HIDE DEF edges, subtree
<1>2. \A tok \in DOMAIN subtree : subtree[tok] \in 0 .. Len(t) - 1
  BY <1>1, PartialMap
<1>3. \A i \in DOMAIN edges : edges[i] \in 0 .. Len(t) - 1
  BY <1>1
<1> QED
  BY <1>2, <1>3 DEF Children, ToSet, edges, subtree

(* The edges that lead to a child with a token. *)
Hits(t, v, tok) ==
  {i \in DOMAIN t[v + 1].edges : t[t[v + 1].edges[i] + 1].token = tok}

(* descend, in either representation of the children. *)
LEMMA ChildInMap ==
  ASSUME NEW t, NEW v, NEW tok, HasSubtree(t, v)
  PROVE  ChildOf(t, v, tok) =
           IF tok \in DOMAIN t[v + 1].subtree THEN t[v + 1].subtree[tok]
           ELSE NoVertex
BY DEF ChildOf

(* descend in the edges: the first that leads to the token. *)
LEMMA ChildByEdge ==
  ASSUME NEW t, NEW v, NEW tok, ~HasSubtree(t, v)
  PROVE  ChildOf(t, v, tok) =
           IF Hits(t, v, tok) = {} THEN NoVertex
           ELSE t[v + 1].edges[Min(Hits(t, v, tok))]
BY DEF ChildOf, Hits

(* The first of the edges that lead to a child with the token. *)
LEMMA FirstHit ==
  ASSUME NEW k \in Nat, NEW t, IsTree(t, k), NEW v \in 0 .. Len(t) - 1,
         NEW tok, Hits(t, v, tok) # {}
  PROVE  /\ Min(Hits(t, v, tok)) \in Hits(t, v, tok)
         /\ \A i \in Hits(t, v, tok) : Min(Hits(t, v, tok)) <= i
         /\ Min(Hits(t, v, tok)) \in DOMAIN t[v + 1].edges
<1>1. t[v + 1].edges \in Seq(0 .. Len(t) - 1)
  BY NodeFacts
<1>2. DOMAIN t[v + 1].edges \subseteq Nat
  BY <1>1
<1>3. Hits(t, v, tok) \subseteq DOMAIN t[v + 1].edges
  BY DEF Hits
<1>4. Hits(t, v, tok) \in SUBSET Nat
  BY <1>2, <1>3
<1> HIDE DEF Hits
<1>5. /\ Min(Hits(t, v, tok)) \in Hits(t, v, tok)
      /\ \A i \in Hits(t, v, tok) : Min(Hits(t, v, tok)) <= i
  BY <1>4, MinOfNaturals
<1> QED
  BY <1>3, <1>5

(* The child found is one of the children, and has the token. *)
LEMMA ChildOfFacts ==
  ASSUME NEW k \in Nat, NEW t, IsTree(t, k), NEW v \in 0 .. Len(t) - 1,
         NEW tok
  PROVE  /\ ChildOf(t, v, tok) \in Children(t, v) \cup {NoVertex}
         /\ ChildOf(t, v, tok) \in 0 .. Len(t) - 1 \cup {NoVertex}
<1>1. CASE HasSubtree(t, v)
  <2>1. CASE tok \in DOMAIN t[v + 1].subtree
    BY <1>1, <2>1, ChildInMap, ChildrenFacts DEF Children
  <2>2. CASE tok \notin DOMAIN t[v + 1].subtree
    BY <1>1, <2>2, ChildInMap
  <2> QED
    BY <2>1, <2>2
<1>2. CASE ~HasSubtree(t, v)
  <2>1. CASE Hits(t, v, tok) = {}
    BY <1>2, <2>1, ChildByEdge
  <2>2. CASE Hits(t, v, tok) # {}
    <3>1. Min(Hits(t, v, tok)) \in DOMAIN t[v + 1].edges
      BY <2>2, FirstHit
    <3>2. t[v + 1].edges[Min(Hits(t, v, tok))] \in Children(t, v)
      BY <3>1 DEF Children, ToSet
    <3> QED
      BY <1>2, <2>2, <3>2, ChildByEdge, ChildrenFacts
  <2> QED
    BY <2>1, <2>2
<1> QED
  BY <1>1, <1>2

(***************************************************************************)
(* predict.                                                                *)
(***************************************************************************)

(* Walk is defined by recursion on the rounds; it takes the steps its      *)
(* definition says.                                                        *)
LEMMA WalkSteps ==
  ASSUME NEW k \in Nat, NEW t, IsTree(t, k), NEW dm, NEW D, NEW frag \in Seq(D)
  PROVE  LET walk == Walk(t, dm, frag)
         IN /\ walk \in [0 .. Len(frag) -> 0 .. Len(t) - 1 \cup {NoVertex}]
            /\ walk[0] = Root
            /\ \A i \in 1 .. Len(frag) :
                 walk[i] =
                   IF walk[i - 1] = NoVertex \/ Recent(frag, i) \notin DOMAIN dm
                   THEN NoVertex
                   ELSE ChildOf(t, walk[i - 1], dm[Recent(frag, i)])
<1>n. PICK n \in Nat : n = Len(frag)
  OBVIOUS
<1> DEFINE S == 0 .. Len(t) - 1 \cup {NoVertex}
           Step(x, i) == IF x = NoVertex \/ Recent(frag, i) \notin DOMAIN dm
                         THEN NoVertex ELSE ChildOf(t, x, dm[Recent(frag, i)])
<1>1. Root \in S /\ NoVertex \in S
  BY DEF IsTree, Root
<1>2. ASSUME NEW x \in S, NEW i \in 1 .. n
      PROVE  Step(x, i) \in S
  BY ChildOfFacts
<1> HIDE DEF S, Step
<1>3. PICK F \in StepFunctions(S, n) :
        \A x \in S, i \in 1 .. n : F[<<x, i>>] = Step(x, i)
  <2> DEFINE f == [p \in S \X (1 .. n) |-> Step(p[1], p[2])]
  <2>1. f \in StepFunctions(S, n)
    BY <1>2 DEF StepFunctions
  <2>2. \A x \in S, i \in 1 .. n : f[<<x, i>>] = Step(x, i)
    OBVIOUS
  <2> HIDE DEF f
  <2> QED
    BY <2>1, <2>2
<1>4. PICK g : Stepwise(g, S, Root, F, n)
  BY <1>1, StepwiseExists
<1>a. /\ g \in [0 .. n -> S] /\ g[0] = Root
      /\ \A i \in 1 .. n : g[i] = F[<<g[i - 1], i>>]
  BY <1>4 DEF Stepwise
<1>5. ASSUME NEW i \in 1 .. n
      PROVE  g[i] = Step(g[i - 1], i)
  <2>1. g[i - 1] \in S
    BY <1>a
  <2> QED
    BY <1>3, <1>a, <2>1
<1> DEFINE P(w) == w = [i \in 0 .. n |-> IF i = 0 THEN Root ELSE Step(w[i - 1], i)]
<1>6. P(g)
  BY <1>a, <1>5
<1>7. Walk(t, dm, frag) = CHOOSE w : P(w)
  BY <1>n DEF Walk, Step
<1>8. P(Walk(t, dm, frag))
  <2> HIDE DEF P
  <2> QED
    BY <1>6, <1>7, Zenon
<1> DEFINE walk == Walk(t, dm, frag)
           T == {i \in 0 .. n : walk[i] \in S}
<1> HIDE DEF walk
<1>9. walk = [i \in 0 .. n |-> IF i = 0 THEN Root ELSE Step(walk[i - 1], i)]
  BY <1>8 DEF walk
<1>10. \A i \in 0 .. n : i \in T
  <2>1. 0 \in T
    BY <1>1, <1>9
  <2>2. ASSUME NEW i \in 0 .. n - 1, i \in T
        PROVE  i + 1 \in T
    <3>1. walk[i + 1] = Step(walk[i], i + 1)
      BY <1>1, <1>9
    <3>2. walk[i] \in S /\ i + 1 \in 1 .. n
      BY <1>1, <2>2
    <3>3. Step(walk[i], i + 1) \in S
      BY <1>2, <3>2
    <3> QED
      BY <1>1, <3>1, <3>3
  <2> HIDE DEF T
  <2>i. Climbs(T, 0, n)
    BY <2>1, <2>2 DEF Climbs
  <2> QED
    BY <2>i, IntervalInduction
<1>11. walk \in [0 .. n -> S]
  BY <1>9, <1>10
<1>12. walk[0] = Root /\ \A i \in 1 .. n : walk[i] = Step(walk[i - 1], i)
  BY <1>1, <1>9
<1> QED
  BY <1>n, <1>11, <1>12 DEF walk, S, Step

(* The walk goes from parent to child for Matched rounds and stops there.  *)
LEMMA MatchedFacts ==
  ASSUME NEW k \in Nat, NEW t, IsTree(t, k), NEW dm, NEW D, NEW frag \in Seq(D)
  PROVE  LET m == Matched(t, dm, frag)
             walk == Walk(t, dm, frag)
         IN /\ m \in 0 .. Len(frag)
            /\ walk[0] = Root
            /\ \A i \in 0 .. m : walk[i] \in 0 .. Len(t) - 1
            /\ \A i \in 1 .. m : walk[i] \in Children(t, walk[i - 1])
            /\ \A i \in 1 .. m : Recent(frag, i) \in DOMAIN dm
            /\ m < Len(frag) =>
                 \/ Recent(frag, m + 1) \notin DOMAIN dm
                 \/ ChildOf(t, walk[m], dm[Recent(frag, m + 1)]) = NoVertex
<1> DEFINE walk == Walk(t, dm, frag)
           m == Matched(t, dm, frag)
           T == {i \in 0 .. Len(frag) : walk[i] # NoVertex}
<1>n. Len(frag) \in Nat
  OBVIOUS
<1>1. /\ walk \in [0 .. Len(frag) -> 0 .. Len(t) - 1 \cup {NoVertex}]
      /\ walk[0] = Root
      /\ \A i \in 1 .. Len(frag) :
           walk[i] = IF walk[i - 1] = NoVertex \/ Recent(frag, i) \notin DOMAIN dm
                     THEN NoVertex
                     ELSE ChildOf(t, walk[i - 1], dm[Recent(frag, i)])
  BY WalkSteps
<1> HIDE DEF walk
<1>2. m = Max(T)
  BY DEF Matched, walk
<1> HIDE DEF m
<1>3. 0 \in T
  BY <1>1, <1>n DEF Root, NoVertex
<1>4. m \in T /\ \A i \in T : i <= m
  <2> HIDE DEF T
  <2>1. T \in SUBSET (0 .. Len(frag))
    BY DEF T
  <2> QED
    BY <1>2, <1>3, <1>n, <2>1, MaxOfNaturals
<1>5. m \in 0 .. Len(frag) /\ walk[m] # NoVertex
  BY <1>4
<1>6. ASSUME NEW i \in 1 .. Len(frag), walk[i] # NoVertex
      PROVE  /\ walk[i - 1] # NoVertex
             /\ Recent(frag, i) \in DOMAIN dm
             /\ walk[i] = ChildOf(t, walk[i - 1], dm[Recent(frag, i)])
  BY <1>1, <1>6
<1>7. \A i \in 0 .. m : walk[i] # NoVertex
  <2> DEFINE U == {j \in 0 .. m : walk[m - j] # NoVertex}
  <2>1. 0 \in U
    BY <1>5
  <2>2. ASSUME NEW j \in 0 .. m - 1, j \in U
        PROVE  j + 1 \in U
    <3>1. m - j \in 1 .. Len(frag) /\ walk[m - j] # NoVertex
      BY <1>5, <2>2
    <3>2. walk[(m - j) - 1] # NoVertex
      BY <1>6, <3>1
    <3>3. (m - j) - 1 = m - (j + 1)
      BY <1>5
    <3> QED
      BY <1>5, <3>2, <3>3
  <2>3. \A j \in 0 .. m : j \in U
    <3> HIDE DEF U
    <3>1. Climbs(U, 0, m)
      BY <2>1, <2>2 DEF Climbs
    <3> QED
      BY <1>5, <3>1, IntervalInduction
  <2>4. ASSUME NEW i \in 0 .. m
        PROVE  walk[i] # NoVertex
    <3>1. m - i \in 0 .. m
      BY <1>5
    <3>a. m - i \in U
      BY <2>3, <3>1
    <3>2. m - (m - i) = i
      BY <1>5
    <3> QED
      BY <3>a, <3>2
  <2> QED
    BY <2>4
<1>8. ASSUME NEW i \in 0 .. m
      PROVE  walk[i] \in 0 .. Len(t) - 1
  <2>1. i \in 0 .. Len(frag)
    BY <1>5
  <2>2. walk[i] # NoVertex
    BY <1>7
  <2> QED
    BY <1>1, <2>1, <2>2
<1>9. ASSUME NEW i \in 1 .. m
      PROVE  walk[i] \in Children(t, walk[i - 1]) /\ Recent(frag, i) \in DOMAIN dm
  <2>1. i \in 1 .. Len(frag) /\ i \in 0 .. m /\ i - 1 \in 0 .. m
    BY <1>5
  <2>2. walk[i] = ChildOf(t, walk[i - 1], dm[Recent(frag, i)])
    BY <1>6, <1>7, <2>1
  <2>3. walk[i - 1] \in 0 .. Len(t) - 1 /\ walk[i] # NoVertex
    BY <1>7, <1>8, <2>1
  <2> QED
    BY <1>6, <2>1, <2>2, <2>3, ChildOfFacts
<1>10. ASSUME m < Len(frag)
       PROVE  \/ Recent(frag, m + 1) \notin DOMAIN dm
              \/ ChildOf(t, walk[m], dm[Recent(frag, m + 1)]) = NoVertex
  <2>1. m + 1 \in 1 .. Len(frag) /\ (m + 1) - 1 = m
    BY <1>5, <1>10
  <2>2. m + 1 \notin T
    BY <1>4, <1>5
  <2>3. walk[m + 1] = NoVertex
    BY <2>1, <2>2
  <2> QED
    BY <1>1, <1>5, <2>1, <2>3
<1> QED
  BY <1>1, <1>5, <1>8, <1>9, <1>10 DEF m, walk

(* What predict leaves in a context after m of the data are matched: the   *)
(* way down from the root, the vertex it ends at, and one token for every  *)
(* datum that is left, the first of which the leaf has no child for.       *)
Remembers(con, t, dm, tokens, frag, m) ==
  /\ m \in 0 .. Len(frag)
  /\ con = [path |-> con.path, leaf |-> con.leaf, additions |-> con.additions]
  /\ con.path \in Seq(0 .. Len(t) - 1)
  /\ Len(con.path) = m + 1
  /\ con.path[1] = Root
  /\ \A i \in 1 .. m : con.path[i + 1] \in Children(t, con.path[i])
  /\ con.leaf = IF m = Len(frag) THEN Root ELSE con.path[m + 1]
  /\ \A i \in 1 .. Len(frag) - m : con.additions[i] = tokens[Recent(frag, m + i)]
  /\ con.additions = [i \in 1 .. Len(frag) - m |-> con.additions[i]]
  /\ m < Len(frag) =>
       \/ Recent(frag, m + 1) \notin DOMAIN dm
       \/ ChildOf(t, con.leaf, dm[Recent(frag, m + 1)]) = NoVertex

(* predict leaves such a context. *)
LEMMA ContextFacts ==
  ASSUME NEW k \in Nat, NEW t, IsTree(t, k), NEW dm, NEW next, NEW D,
         NEW frag \in Seq(D)
  PROVE  Remembers(ContextOf(t, dm, next, frag), t, dm,
                   DataMapAfter(t, dm, next, frag), frag, Matched(t, dm, frag))
<1> DEFINE walk == Walk(t, dm, frag)
           m == Matched(t, dm, frag)
           con == ContextOf(t, dm, next, frag)
           tokens == DataMapAfter(t, dm, next, frag)
<1>1. /\ m \in 0 .. Len(frag)
      /\ walk[0] = Root
      /\ \A i \in 0 .. m : walk[i] \in 0 .. Len(t) - 1
      /\ \A i \in 1 .. m : walk[i] \in Children(t, walk[i - 1])
      /\ m < Len(frag) =>
           \/ Recent(frag, m + 1) \notin DOMAIN dm
           \/ ChildOf(t, walk[m], dm[Recent(frag, m + 1)]) = NoVertex
  BY MatchedFacts
<1>2. con = [path |-> [i \in 1 .. m + 1 |-> walk[i - 1]],
             leaf |-> IF m = Len(frag) THEN Root ELSE walk[m],
             additions |-> [i \in 1 .. Len(frag) - m |->
                              tokens[Recent(frag, m + i)]]]
  BY DEF ContextOf
<1> HIDE DEF m, walk, con, tokens
<1>3. /\ con.path = [i \in 1 .. m + 1 |-> walk[i - 1]]
      /\ con.leaf = IF m = Len(frag) THEN Root ELSE walk[m]
      /\ con.additions = [i \in 1 .. Len(frag) - m |-> tokens[Recent(frag, m + i)]]
      /\ con = [path |-> con.path, leaf |-> con.leaf, additions |-> con.additions]
  BY <1>2
<1>4. m \in Nat
  BY <1>1
<1>5. con.path \in Seq(0 .. Len(t) - 1) /\ Len(con.path) = m + 1
  <2> DEFINE V == 0 .. Len(t) - 1
             p == [i \in 1 .. m + 1 |-> walk[i - 1]]
  <2>1. \A i \in 1 .. m + 1 : walk[i - 1] \in V
    BY <1>1, <1>4
  <2> HIDE DEF V
  <2>2. p \in Seq(V) /\ Len(p) = m + 1
    BY <1>4, <2>1
  <2> QED
    BY <1>3, <2>2 DEF V
<1>6. \A i \in 1 .. m + 1 : con.path[i] = walk[i - 1]
  BY <1>3
<1>7. con.path[1] = Root /\ con.path[m + 1] = walk[m]
  <2>1. con.path[1] = walk[1 - 1] /\ con.path[m + 1] = walk[(m + 1) - 1]
    BY <1>4, <1>6
  <2>2. (m + 1) - 1 = m
    BY <1>4
  <2> QED
    BY <1>1, <2>1, <2>2
<1>8. ASSUME NEW i \in 1 .. m
      PROVE  con.path[i + 1] \in Children(t, con.path[i])
  <2>1. con.path[i] = walk[i - 1] /\ con.path[i + 1] = walk[(i + 1) - 1]
    BY <1>4, <1>6
  <2>2. (i + 1) - 1 = i
    OBVIOUS
  <2> QED
    BY <1>1, <2>1, <2>2
<1>9. /\ \A i \in 1 .. Len(frag) - m : con.additions[i] = tokens[Recent(frag, m + i)]
      /\ con.additions = [i \in 1 .. Len(frag) - m |-> con.additions[i]]
  BY <1>3
<1>10. con.leaf = IF m = Len(frag) THEN Root ELSE con.path[m + 1]
  BY <1>3, <1>7
<1>11. m < Len(frag) =>
         \/ Recent(frag, m + 1) \notin DOMAIN dm
         \/ ChildOf(t, con.leaf, dm[Recent(frag, m + 1)]) = NoVertex
  <2>1. m < Len(frag) => con.leaf = walk[m]
    BY <1>1, <1>3
  <2> QED
    BY <1>1, <2>1
<1> QED
  BY <1>1, <1>3, <1>5, <1>7, <1>8, <1>9, <1>10, <1>11
  DEF m, con, tokens, Remembers

(* The walk to the context's leaf stopped before the datum w, for whose    *)
(* token, if it has one, the leaf has no child.                            *)
StopsBefore(con, t, dm, tokens, w) ==
  /\ con.leaf \in 0 .. Len(t) - 1
  /\ con.additions[1] = tokens[w]
  /\ w \in DOMAIN dm => ChildOf(t, con.leaf, dm[w]) = NoVertex

(* A walk that does not follow the whole context stops before some datum.  *)
LEMMA ContextStops ==
  ASSUME NEW k \in Nat, NEW t, IsTree(t, k), NEW dm, NEW next, NEW D,
         NEW frag \in Seq(D), Matched(t, dm, frag) < Len(frag)
  PROVE  \E w \in D :
           StopsBefore(ContextOf(t, dm, next, frag), t, dm,
                       DataMapAfter(t, dm, next, frag), w)
<1> DEFINE m == Matched(t, dm, frag)
           con == ContextOf(t, dm, next, frag)
           tokens == DataMapAfter(t, dm, next, frag)
<1>1. Remembers(con, t, dm, tokens, frag, m)
  BY ContextFacts
<1>h. PICK h : h \in Nat /\ h = Len(t)
  BY LenProperties DEF IsTree
<1>f. PICK f : f \in Nat /\ f = Len(frag)
  BY LenProperties
<1>m. m \in Nat /\ m < f
  BY <1>1, <1>f DEF Remembers
<1> HIDE DEF m, con, tokens
<1>p. /\ con.path \in Seq(0 .. h - 1)
      /\ Len(con.path) = m + 1
      /\ con.leaf = IF m = Len(frag) THEN Root ELSE con.path[m + 1]
      /\ \A i \in 1 .. Len(frag) - m :
           con.additions[i] = tokens[Recent(frag, m + i)]
      /\ m < Len(frag) =>
           \/ Recent(frag, m + 1) \notin DOMAIN dm
           \/ ChildOf(t, con.leaf, dm[Recent(frag, m + 1)]) = NoVertex
  BY <1>1, <1>h DEF Remembers
<1>2. Recent(frag, m + 1) \in D
  <2>1. Len(frag) - (m + 1) + 1 \in 1 .. Len(frag)
    BY <1>f, <1>m
  <2> QED
    BY <2>1, ElementOfSeq DEF Recent
<1>3. con.additions[1] = tokens[Recent(frag, m + 1)]
  <2>1. 1 \in 1 .. Len(frag) - m
    BY <1>f, <1>m
  <2> QED
    BY <1>p, <2>1
<1>4. con.leaf \in 0 .. h - 1
  <2> DEFINE V == 0 .. h - 1
             path == con.path
  <2>1. path \in Seq(V) /\ Len(path) = m + 1 /\ con.leaf = path[m + 1]
    BY <1>p, <1>f, <1>m
  <2> HIDE DEF V, path
  <2>2. m + 1 \in 1 .. Len(path)
    BY <1>m, <2>1
  <2>3. path[m + 1] \in V
    BY <2>1, <2>2, ElementOfSeq
  <2> QED
    BY <2>1, <2>3 DEF V
<1> QED
  BY <1>p, <1>h, <1>f, <1>m, <1>2, <1>3, <1>4 DEF con, tokens, StopsBefore

(* The depth of the vertices. *)
Depths(t, d) ==
  /\ d \in [0 .. Len(t) - 1 -> Nat]
  /\ d[Root] = 0
  /\ \A v \in 0 .. Len(t) - 1 : \A u \in Children(t, v) : d[u] = d[v] + 1

(* A way of m steps from the root, each to a child. *)
WayDown(t, path, m) ==
  /\ path[1] = Root
  /\ \A i \in 1 .. m + 1 : path[i] \in 0 .. Len(t) - 1
  /\ \A i \in 1 .. m : path[i + 1] \in Children(t, path[i])

(* A way down from the root is one deeper at every step. *)
LEMMA PathDepth ==
  ASSUME NEW t, NEW d, Depths(t, d), NEW path, NEW m \in Nat,
         WayDown(t, path, m)
  PROVE  \A i \in 1 .. m + 1 : d[path[i]] = i - 1
<1> DEFINE T == {i \in 1 .. m + 1 : d[path[i]] = i - 1}
<1>1. 1 \in T
  BY DEF Depths, WayDown
<1>2. ASSUME NEW i \in 1 .. (m + 1) - 1, i \in T
      PROVE  i + 1 \in T
  <2>1. i \in 1 .. m /\ i \in 1 .. m + 1 /\ i + 1 \in 1 .. m + 1
    OBVIOUS
  <2>2. path[i + 1] \in Children(t, path[i]) /\ path[i] \in 0 .. Len(t) - 1
    BY <2>1 DEF WayDown
  <2>3. d[path[i + 1]] = d[path[i]] + 1
    BY <2>2 DEF Depths
  <2>4. d[path[i]] = i - 1
    BY <1>2
  <2> QED
    BY <2>1, <2>3, <2>4
<1> HIDE DEF T
<1>i. Climbs(T, 1, m + 1)
  BY <1>1, <1>2 DEF Climbs
<1>3. \A i \in 1 .. m + 1 : i \in T
  BY <1>i, IntervalInduction
<1> QED
  BY <1>3 DEF T

(* A context of known data leaves data_map_ as it is. *)
LEMMA DataMapKnown ==
  ASSUME NEW k \in Nat, NEW t, IsTree(t, k), NEW dm, NEW next, NEW D,
         NEW frag \in Seq(D),
         dm = [c \in DOMAIN dm |-> dm[c]],
         \A i \in 1 .. Len(frag) : Recent(frag, i) \in DOMAIN dm
  PROVE  /\ ~Registers(t, dm, frag)
         /\ DataMapAfter(t, dm, next, frag) = dm
<1> DEFINE m == Matched(t, dm, frag)
           wanted == {Recent(frag, i) : i \in m + 1 .. Len(frag)}
           after == DataMapAfter(t, dm, next, frag)
<1>1. m \in 0 .. Len(frag) /\ Len(frag) \in Nat
  BY MatchedFacts
<1>2. after = [c \in DOMAIN dm \cup wanted |->
                 CASE c \in DOMAIN dm -> dm[c]
                   [] c \notin DOMAIN dm /\ Registers(t, dm, frag)
                        /\ c = Recent(frag, m + 1) -> next
                   [] OTHER -> RootToken]
  BY DEF DataMapAfter
<1>r. ~Registers(t, dm, frag)
  <2>1. ASSUME m < Len(frag)
        PROVE  Recent(frag, m + 1) \in DOMAIN dm
    <3>1. m + 1 \in 1 .. Len(frag)
      BY <1>1, <2>1
    <3> QED
      BY <3>1
  <2> QED
    BY <2>1 DEF Registers
<1> HIDE DEF m, after
<1>3. \A i \in m + 1 .. Len(frag) : i \in 1 .. Len(frag)
  BY <1>1
<1>4. wanted \subseteq DOMAIN dm
  BY <1>3
<1> HIDE DEF wanted
<1>5. DOMAIN dm \cup wanted = DOMAIN dm
  BY <1>4
<1>6. after = [c \in DOMAIN dm |-> dm[c]]
  BY <1>2, <1>5
<1> QED
  BY <1>6, <1>r DEF after

(* A datum never met stops the walk at the root and takes the next token.  *)
LEMMA DataMapNew ==
  ASSUME NEW k \in Nat, NEW t, IsTree(t, k), NEW dm, NEW next, NEW D,
         NEW frag \in Seq(D), Len(frag) >= 1,
         Recent(frag, 1) \notin DOMAIN dm,
         \A i \in 2 .. Len(frag) :
           Recent(frag, i) \in DOMAIN dm \cup {Recent(frag, 1)}
  PROVE  /\ Matched(t, dm, frag) = 0
         /\ Registers(t, dm, frag)
         /\ DataMapAfter(t, dm, next, frag) = Inserted(dm, Recent(frag, 1), next)
<1> DEFINE m == Matched(t, dm, frag)
           wanted == {Recent(frag, i) : i \in m + 1 .. Len(frag)}
           after == DataMapAfter(t, dm, next, frag)
<1>1. /\ m \in 0 .. Len(frag) /\ Len(frag) \in Nat
      /\ \A i \in 1 .. m : Recent(frag, i) \in DOMAIN dm
  BY MatchedFacts
<1>2. after = [c \in DOMAIN dm \cup wanted |->
                 CASE c \in DOMAIN dm -> dm[c]
                   [] c \notin DOMAIN dm /\ Registers(t, dm, frag)
                        /\ c = Recent(frag, m + 1) -> next
                   [] OTHER -> RootToken]
  BY DEF DataMapAfter
<1>3. m = 0
  <2>1. 1 \notin 1 .. m
    BY <1>1
  <2> HIDE DEF m
  <2> QED
    BY <1>1, <2>1
<1>r. Registers(t, dm, frag)
  <2>1. m < Len(frag) /\ m + 1 = 1
    BY <1>1, <1>3
  <2>2. Recent(frag, m + 1) \notin DOMAIN dm
    BY <2>1
  <2> QED
    BY <2>1, <2>2 DEF Registers
<1> HIDE DEF m, after
<1>4. 1 \in m + 1 .. Len(frag) /\ m + 1 .. Len(frag) = 1 .. Len(frag) /\ m + 1 = 1
  BY <1>1, <1>3
<1>5. wanted = {Recent(frag, i) : i \in 1 .. Len(frag)}
  BY <1>4
<1>6. DOMAIN dm \cup wanted = DOMAIN dm \cup {Recent(frag, 1)}
  <2>1. \A i \in 1 .. Len(frag) : i = 1 \/ i \in 2 .. Len(frag)
    BY <1>1
  <2>2. 1 \in 1 .. Len(frag)
    BY <1>1
  <2> QED
    BY <1>5, <2>1, <2>2
<1> HIDE DEF wanted
<1>7. after = [c \in DOMAIN dm \cup {Recent(frag, 1)} |->
                 IF c \in DOMAIN dm THEN dm[c] ELSE next]
  BY <1>2, <1>4, <1>6, <1>r
<1> QED
  BY <1>3, <1>r, <1>7 DEF after, m, Inserted

(***************************************************************************)
(* reinforce, regret and write_graph.                                      *)
(***************************************************************************)

(* Removing edges leaves some of them, and all of them if none has to go.  *)
LEMMA EdgesLeftFacts ==
  ASSUME NEW S, NEW edges \in Seq(S), NEW kept
  PROVE  /\ EdgesLeft(edges, kept) \in Seq(S)
         /\ ToSet(EdgesLeft(edges, kept)) \subseteq ToSet(edges)
         /\ ToSet(edges) \subseteq kept => EdgesLeft(edges, kept) = edges
<1> DEFINE V == ToSet(edges)
           Step(s, i) == IF edges[i] \in kept THEN Append(s, edges[i]) ELSE s
<1>n. PICK n : n \in Nat /\ n = Len(edges)
  OBVIOUS
<1>1. ASSUME NEW s \in Seq(V), NEW i \in 1 .. n
      PROVE  Step(s, i) \in Seq(V)
  <2>1. edges[i] \in V
    BY <1>n DEF ToSet
  <2> HIDE DEF V
  <2> QED
    BY <2>1
<1>2. << >> \in Seq(V)
  OBVIOUS
<1> HIDE DEF Step, V
<1>3. PICK F : /\ F \in StepFunctions(Seq(V), n)
               /\ \A s \in Seq(V), i \in 1 .. n : F[<<s, i>>] = Step(s, i)
  <2> DEFINE f == [p \in Seq(V) \X (1 .. n) |-> Step(p[1], p[2])]
  <2>1. f \in StepFunctions(Seq(V), n)
    BY <1>1 DEF StepFunctions
  <2>2. \A s \in Seq(V), i \in 1 .. n : f[<<s, i>>] = Step(s, i)
    OBVIOUS
  <2> HIDE DEF f
  <2> QED
    BY <2>1, <2>2
<1>4. PICK g : Stepwise(g, Seq(V), << >>, F, n)
  BY <1>n, <1>2, <1>3, StepwiseExists
<1>5. /\ g \in [0 .. n -> Seq(V)] /\ g[0] = << >>
      /\ \A i \in 1 .. n : g[i] = F[<<g[i - 1], i>>]
  BY <1>4 DEF Stepwise
<1>6. ASSUME NEW i \in 1 .. n
      PROVE  g[i] = Step(g[i - 1], i)
  <2>1. i - 1 \in 0 .. n
    BY <1>n
  <2>2. g[i - 1] \in Seq(V)
    BY <1>5, <2>1
  <2> QED
    BY <1>3, <1>5, <2>2
<1> DEFINE P(h) == h = [i \in 0 .. n |-> IF i = 0 THEN << >> ELSE Step(h[i - 1], i)]
           left == CHOOSE h : P(h)
<1>7. EdgesLeft(edges, kept) = left[n]
  BY <1>n DEF EdgesLeft, Step
<1>8. P(g)
  BY <1>5, <1>6
<1>9. P(left)
  <2> HIDE DEF P
  <2> QED
    BY <1>8, Zenon
<1> HIDE DEF left
<1>10. /\ left[0] = << >>
       /\ \A i \in 1 .. n : left[i] = Step(left[i - 1], i)
  BY <1>n, <1>9
<1> HIDE DEF P
<1>11. left[n] \in Seq(V)
  <2> DEFINE T == {i \in 0 .. n : left[i] \in Seq(V)}
  <2>1. 0 \in T
    <3>1. left[0] \in Seq(V)
      BY <1>2, <1>10, Zenon
    <3> QED
      BY <1>n, <3>1
  <2>2. ASSUME NEW i \in 0 .. n - 1, i \in T
        PROVE  i + 1 \in T
    <3>1. i + 1 \in 1 .. n /\ (i + 1) - 1 = i
      BY <1>n
    <3>2. left[i + 1] = Step(left[i], i + 1)
      BY <1>10, <3>1
    <3>3. left[i] \in Seq(V)
      BY <2>2
    <3> QED
      BY <1>n, <1>1, <3>1, <3>2, <3>3
  <2> HIDE DEF T
  <2>i. Climbs(T, 0, n)
    BY <1>n, <2>1, <2>2 DEF Climbs
  <2>3. \A i \in 0 .. n : i \in T
    BY <1>n, <2>i, IntervalInduction
  <2> QED
    BY <1>n, <2>3 DEF T
<1>12. ASSUME V \subseteq kept
       PROVE  left[n] = edges
  <2> DEFINE T == {i \in 0 .. n : /\ Len(left[i]) = i
                                  /\ left[i] \in Seq(V)
                                  /\ \A j \in 1 .. i : left[i][j] = edges[j]}
  <2>1. 0 \in T
    <3>1. left[0] \in Seq(V) /\ left[0] = << >>
      BY <1>2, <1>10, Zenon
    <3>2. Len(left[0]) = 0
      BY <3>1
    <3>3. \A j \in 1 .. 0 : left[0][j] = edges[j]
      OBVIOUS
    <3>4. 0 \in 0 .. n
      BY <1>n
    <3> QED
      BY <3>1, <3>2, <3>3, <3>4
  <2>2. ASSUME NEW i \in 0 .. n - 1, i \in T
        PROVE  i + 1 \in T
    <3>1. i + 1 \in 1 .. n /\ (i + 1) - 1 = i /\ i + 1 \in 0 .. n
      BY <1>n
    <3>2. edges[i + 1] \in V
      BY <1>n, <3>1 DEF V, ToSet
    <3>3. left[i + 1] = Append(left[i], edges[i + 1])
      BY <1>10, <1>12, <3>1, <3>2 DEF Step
    <3>4. /\ Len(left[i]) = i /\ left[i] \in Seq(V)
          /\ \A j \in 1 .. i : left[i][j] = edges[j]
      BY <2>2
    <3>5. Len(left[i + 1]) = i + 1 /\ left[i + 1] \in Seq(V)
      BY <3>2, <3>3, <3>4
    <3>6. \A j \in 1 .. i + 1 : left[i + 1][j] = edges[j]
      BY <3>3, <3>4
    <3> QED
      BY <3>1, <3>5, <3>6
  <2> HIDE DEF T
  <2>i. Climbs(T, 0, n)
    BY <1>n, <2>1, <2>2 DEF Climbs
  <2>3. \A i \in 0 .. n : i \in T
    BY <1>n, <2>i, IntervalInduction
  <2>4. /\ Len(left[n]) = n /\ left[n] \in Seq(V)
        /\ \A j \in 1 .. n : left[n][j] = edges[j]
    BY <1>n, <2>3 DEF T
  <2> QED
    BY <1>n, <2>4, SeqEqual
<1>13. Seq(V) \subseteq Seq(S) /\ \A s \in Seq(V) : ToSet(s) \subseteq V
  BY DEF V, ToSet
<1> QED
  BY <1>7, <1>11, <1>12, <1>13 DEF V

(* Two trees that agree on a vertex and on the tokens of its children      *)
(* agree on what descend finds there.                                      *)
LooksTheSame(t2, t, v) ==
  /\ t2[v + 1] = t[v + 1]
  /\ \A u \in 0 .. Len(t) - 1 : t2[u + 1].token = t[u + 1].token

(* A node whose cell is unchanged has the children it had. *)
LEMMA SameChildren ==
  ASSUME NEW k \in Nat, NEW t, IsTree(t, k), NEW v \in 0 .. Len(t) - 1,
         NEW t2, LooksTheSame(t2, t, v)
  PROVE  /\ Children(t2, v) = Children(t, v)
         /\ \A x : ChildOf(t2, v, x) = ChildOf(t, v, x)
<1>s. /\ t2[v + 1] = t[v + 1]
      /\ \A u \in 0 .. Len(t) - 1 : t2[u + 1].token = t[u + 1].token
  BY DEF LooksTheSame
<1>1. t[v + 1].edges \in Seq(0 .. Len(t) - 1)
  BY NodeFacts
<1>2. ASSUME NEW x
      PROVE  Hits(t2, v, x) = Hits(t, v, x)
  <2>1. \A i \in DOMAIN t[v + 1].edges : t[v + 1].edges[i] \in 0 .. Len(t) - 1
    BY <1>1
  <2>2. \A i \in DOMAIN t[v + 1].edges :
          t2[t[v + 1].edges[i] + 1].token = t[t[v + 1].edges[i] + 1].token
    BY <1>s, <2>1
  <2> QED
    BY <1>s, <2>2 DEF Hits
<1>3. HasSubtree(t2, v) <=> HasSubtree(t, v)
  BY <1>s DEF HasSubtree
<1>4. ASSUME NEW x
      PROVE  ChildOf(t2, v, x) = ChildOf(t, v, x)
  <2>1. CASE HasSubtree(t, v)
    BY <1>s, <1>3, <2>1, ChildInMap
  <2>2. CASE ~HasSubtree(t, v)
    BY <1>s, <1>2, <1>3, <2>2, ChildByEdge
  <2> QED
    BY <2>1, <2>2
<1> QED
  BY <1>s, <1>4 DEF Children

(* A token is that of an edge just when descend finds a child for it.      *)
LEMMA FoundByEdge ==
  ASSUME NEW k \in Nat, NEW t, IsTree(t, k), NEW v \in 0 .. Len(t) - 1,
         ~HasSubtree(t, v), NEW x
  PROVE  Hits(t, v, x) # {} <=> ChildOf(t, v, x) # NoVertex
<1>1. CASE Hits(t, v, x) = {}
  BY <1>1, ChildByEdge
<1>2. CASE Hits(t, v, x) # {}
  <2>1. Min(Hits(t, v, x)) \in DOMAIN t[v + 1].edges
    BY <1>2, FirstHit
  <2>2. t[v + 1].edges \in Seq(0 .. Len(t) - 1)
    BY NodeFacts
  <2>3. t[v + 1].edges[Min(Hits(t, v, x))] \in 0 .. Len(t) - 1
    BY <2>1, <2>2
  <2>4. t[v + 1].edges[Min(Hits(t, v, x))] # NoVertex
    BY <2>3 DEF NoVertex
  <2> QED
    BY <1>2, <2>4, ChildByEdge
<1> QED
  BY <1>1, <1>2

(* split_vertex puts every child that descend finds into the btree_map.    *)
LEMMA SplitSubtreeFacts ==
  ASSUME NEW k \in Nat, NEW t, IsTree(t, k), NEW v \in 0 .. Len(t) - 1,
         ~HasSubtree(t, v)
  PROVE  LET sub == SplitSubtree(t, v)
         IN /\ sub \in PartialMaps(0 .. k - 1, 0 .. Len(t) - 1)
            /\ \A x : x \in DOMAIN sub <=> ChildOf(t, v, x) # NoVertex
            /\ \A x \in DOMAIN sub : sub[x] = ChildOf(t, v, x)
            /\ \A x \in DOMAIN sub : sub[x] \in Children(t, v)
<1> DEFINE sub == SplitSubtree(t, v)
           toks == {t[c + 1].token : c \in ToSet(t[v + 1].edges)}
<1>1. t[v + 1].edges \in Seq(0 .. Len(t) - 1)
  BY NodeFacts
<1>2. sub = [x \in toks |-> ChildOf(t, v, x)]
  BY DEF SplitSubtree
<1>3. ASSUME NEW x
      PROVE  x \in toks <=> Hits(t, v, x) # {}
  BY DEF Hits, ToSet
<1>4. toks \subseteq 0 .. k - 1
  <2>1. \A i \in DOMAIN t[v + 1].edges : t[v + 1].edges[i] \in 0 .. Len(t) - 1
    BY <1>1
  <2>2. \A c \in 0 .. Len(t) - 1 : t[c + 1].token \in 0 .. k - 1
    BY NodeFacts
  <2>3. \A i \in DOMAIN t[v + 1].edges :
          t[t[v + 1].edges[i] + 1].token \in 0 .. k - 1
    BY <2>1, <2>2
  <2> QED
    BY <2>3 DEF ToSet
<1> HIDE DEF sub, toks
<1>5. \A x : x \in toks <=> ChildOf(t, v, x) # NoVertex
  BY <1>3, FoundByEdge
<1>6. \A x \in toks : /\ ChildOf(t, v, x) \in Children(t, v)
                      /\ ChildOf(t, v, x) \in 0 .. Len(t) - 1
  BY <1>5, ChildOfFacts
<1>7. sub \in PartialMaps(0 .. k - 1, 0 .. Len(t) - 1)
  <2>1. /\ DOMAIN sub = toks
        /\ sub = [x \in DOMAIN sub |-> sub[x]]
        /\ \A x \in DOMAIN sub : sub[x] = ChildOf(t, v, x)
    BY <1>2
  <2> QED
    BY <1>4, <1>6, <2>1, PartialMap
<1> QED
  BY <1>2, <1>5, <1>6, <1>7 DEF sub

(* The three ways in which a leaf takes a child and becomes p. *)
TakesChild(p, t, v, child, tok, kept) ==
  /\ p = [token |-> p.token, edges |-> p.edges, subtree |-> p.subtree]
  /\ p.token = t[v + 1].token
  /\ HasSubtree(t, v) =>
       /\ p.edges = t[v + 1].edges
       /\ p.subtree = Inserted(t[v + 1].subtree, tok, child)
  /\ Splits(t, v) =>
       /\ p.edges = EdgesLeft(t[v + 1].edges, kept)
       /\ p.subtree = Inserted(SplitSubtree(t, v), tok, child)
  /\ ~HasSubtree(t, v) /\ ~Splits(t, v) =>
       /\ p.edges = Append(t[v + 1].edges, child)
       /\ p.subtree = t[v + 1].subtree

(* They are those of add_child. *)
LEMMA ParentCases ==
  ASSUME NEW k \in Nat, NEW t, IsTree(t, k), NEW v \in 0 .. Len(t) - 1,
         NEW child, NEW tok, NEW kept
  PROVE  TakesChild(Parent(t, v, child, tok, kept), t, v, child, tok, kept)
<1> DEFINE node == t[v + 1]
           p == Parent(t, v, child, tok, kept)
<1>1. PICK tk, es, sub :
        node = [token |-> tk, edges |-> es, subtree |-> sub]
  BY NodeFacts DEF Nodes
<1>2. Splits(t, v) => ~HasSubtree(t, v)
  BY DEF Splits
<1>3. CASE HasSubtree(t, v)
  <2>1. p = [node EXCEPT !.subtree = Inserted(@, tok, child)]
    BY <1>2, <1>3 DEF Parent
  <2> HIDE DEF p, node
  <2>2. p = [token |-> tk, edges |-> es, subtree |-> Inserted(sub, tok, child)]
    BY <1>1, <2>1
  <2> QED
    BY <1>1, <1>2, <1>3, <2>2 DEF p, node, TakesChild
<1>4. CASE Splits(t, v)
  <2>1. p = [node EXCEPT !.subtree = Inserted(SplitSubtree(t, v), tok, child),
                         !.edges = EdgesLeft(@, kept)]
    BY <1>2, <1>4 DEF Parent
  <2> HIDE DEF p, node
  <2>2. p = [token |-> tk, edges |-> EdgesLeft(es, kept),
             subtree |-> Inserted(SplitSubtree(t, v), tok, child)]
    BY <1>1, <2>1
  <2> QED
    BY <1>1, <1>2, <1>4, <2>2 DEF p, node, TakesChild
<1>5. CASE ~HasSubtree(t, v) /\ ~Splits(t, v)
  <2>1. p = [node EXCEPT !.edges = Append(@, child)]
    BY <1>5 DEF Parent
  <2> HIDE DEF p, node
  <2>2. p = [token |-> tk, edges |-> Append(es, child), subtree |-> sub]
    BY <1>1, <2>1
  <2> QED
    BY <1>1, <1>5, <2>2 DEF p, node, TakesChild
<1> QED
  BY <1>3, <1>4, <1>5

(* A leaf that takes a child is a vertex of the larger tree, and has no    *)
(* children but those it had and the new one.                              *)
LEMMA ParentFacts ==
  ASSUME NEW k \in Nat, NEW t, IsTree(t, k), NEW v \in 0 .. Len(t) - 1,
         NEW tok \in 0 .. k - 1, NEW kept
  PROVE  LET p == Parent(t, v, Len(t), tok, kept)
         IN /\ p \in Nodes(Len(t) + 1, k)
            /\ ToSet(p.edges) \subseteq Children(t, v) \cup {Len(t)}
            /\ \A x \in DOMAIN p.subtree :
                 p.subtree[x] \in Children(t, v) \cup {Len(t)}
<1> DEFINE p == Parent(t, v, Len(t), tok, kept)
           node == t[v + 1]
           old == 0 .. Len(t) - 1
           new == 0 .. (Len(t) + 1) - 1
           toks == 0 .. k - 1
           C == Children(t, v) \cup {Len(t)}
<1>1. /\ node.edges \in Seq(old)
      /\ node.subtree \in PartialMaps(toks, old)
      /\ node.token \in toks
  BY NodeFacts
<1>2. old \subseteq new /\ Len(t) \in new
  BY DEF IsTree
<1>3. ToSet(node.edges) \subseteq C
      /\ \A x \in DOMAIN node.subtree : node.subtree[x] \in C
  BY DEF Children
<1>4. /\ p = [token |-> p.token, edges |-> p.edges, subtree |-> p.subtree]
      /\ p.token = node.token
      /\ HasSubtree(t, v) =>
           /\ p.edges = node.edges
           /\ p.subtree = Inserted(node.subtree, tok, Len(t))
      /\ Splits(t, v) =>
           /\ p.edges = EdgesLeft(node.edges, kept)
           /\ p.subtree = Inserted(SplitSubtree(t, v), tok, Len(t))
      /\ ~HasSubtree(t, v) /\ ~Splits(t, v) =>
           /\ p.edges = Append(node.edges, Len(t))
           /\ p.subtree = node.subtree
  <2>1. TakesChild(p, t, v, Len(t), tok, kept)
    BY ParentCases
  <2> HIDE DEF p
  <2> QED
    BY <2>1 DEF TakesChild
<1>5. PartialMaps(toks, old) \subseteq PartialMaps(toks, new)
      /\ Seq(old) \subseteq Seq(new)
  BY <1>2, PartialMapsGrow
<1>6. ASSUME NEW m \in PartialMaps(toks, old), \A x \in DOMAIN m : m[x] \in C
      PROVE  LET i == Inserted(m, tok, Len(t))
             IN i \in PartialMaps(toks, new) /\ \A x \in DOMAIN i : i[x] \in C
  <2> DEFINE i == Inserted(m, tok, Len(t))
  <2>1. m \in PartialMaps(toks, new)
    BY <1>5
  <2> HIDE DEF toks, new, old, C
  <2>2. i \in PartialMaps(toks, new) /\ Extends(i, m, tok, Len(t))
    <3>1. tok \in toks /\ Len(t) \in new
      BY <1>2 DEF toks
    <3> QED
      BY <2>1, <3>1, InsertedMap
  <2>3. Len(t) \in C
    BY DEF C
  <2> QED
    BY <1>6, <2>2, <2>3 DEF Extends
<1> HIDE DEF p, node, old, new, toks, C
<1>7. CASE HasSubtree(t, v)
  <2>1. p.edges \in Seq(new) /\ p.subtree \in PartialMaps(toks, new)
    BY <1>1, <1>3, <1>4, <1>5, <1>6, <1>7
  <2>2. ToSet(p.edges) \subseteq C /\ \A x \in DOMAIN p.subtree : p.subtree[x] \in C
    BY <1>1, <1>3, <1>4, <1>6, <1>7
  <2> QED
    BY <1>1, <1>4, <2>1, <2>2 DEF Nodes, p, new, toks, C, node
<1>8. CASE Splits(t, v)
  <2>1. ~HasSubtree(t, v)
    BY <1>8 DEF Splits
  <2>2. /\ SplitSubtree(t, v) \in PartialMaps(toks, old)
        /\ \A x \in DOMAIN SplitSubtree(t, v) : SplitSubtree(t, v)[x] \in C
    BY <2>1, SplitSubtreeFacts DEF toks, old, C
  <2>3. /\ EdgesLeft(node.edges, kept) \in Seq(old)
        /\ ToSet(EdgesLeft(node.edges, kept)) \subseteq ToSet(node.edges)
    BY <1>1, EdgesLeftFacts
  <2>4. p.edges \in Seq(new) /\ p.subtree \in PartialMaps(toks, new)
    BY <1>4, <1>5, <1>6, <1>8, <2>2, <2>3
  <2>5. ToSet(p.edges) \subseteq C /\ \A x \in DOMAIN p.subtree : p.subtree[x] \in C
    BY <1>3, <1>4, <1>6, <1>8, <2>2, <2>3
  <2> QED
    BY <1>1, <1>4, <2>4, <2>5 DEF Nodes, p, new, toks, C, node
<1>9. CASE ~HasSubtree(t, v) /\ ~Splits(t, v)
  <2>1. node.edges \in Seq(new)
    BY <1>1, <1>5
  <2>2. p.edges = Append(node.edges, Len(t)) /\ p.subtree = node.subtree
    BY <1>4, <1>9
  <2>3. p.edges \in Seq(new) /\ p.subtree \in PartialMaps(toks, new)
    BY <1>1, <1>2, <1>5, <2>1, <2>2
  <2>4. ToSet(p.edges) \subseteq ToSet(node.edges) \cup {Len(t)}
    BY <2>1, <2>2 DEF ToSet
  <2>5. ToSet(p.edges) \subseteq C /\ \A x \in DOMAIN p.subtree : p.subtree[x] \in C
    BY <1>3, <2>2, <2>4 DEF C
  <2> QED
    BY <1>1, <1>4, <2>3, <2>5 DEF Nodes, p, new, toks, C, node
<1> QED
  BY <1>7, <1>8, <1>9

(* What descend finds below a leaf that took a child: what it found before *)
(* and, if it found nothing for the child's token, the child.              *)
LEMMA ParentFinds ==
  ASSUME NEW k \in Nat, NEW t, IsTree(t, k), NEW v \in 0 .. Len(t) - 1,
         NEW tok \in 0 .. k - 1, NEW kept, NEW t2,
         t2[v + 1] = Parent(t, v, Len(t), tok, kept),
         \A u \in 0 .. Len(t) - 1 : t2[u + 1].token = t[u + 1].token,
         t2[Len(t) + 1].token = tok,
         NEW x
  PROVE  ChildOf(t2, v, x) =
           IF ChildOf(t, v, x) # NoVertex THEN ChildOf(t, v, x)
           ELSE IF x = tok THEN Len(t) ELSE NoVertex
<1> DEFINE node == t[v + 1]
           p == t2[v + 1]
           n == Len(t)
<1>1. /\ node.edges \in Seq(0 .. n - 1)
      /\ node.subtree \in PartialMaps(0 .. k - 1, 0 .. n - 1)
  BY NodeFacts
<1>2. /\ HasSubtree(t, v) => p.subtree = Inserted(node.subtree, tok, n)
      /\ Splits(t, v) => p.subtree = Inserted(SplitSubtree(t, v), tok, n)
      /\ ~HasSubtree(t, v) /\ ~Splits(t, v) =>
           /\ p.edges = Append(node.edges, n)
           /\ p.subtree = node.subtree
  <2>1. TakesChild(p, t, v, n, tok, kept)
    BY ParentCases
  <2> HIDE DEF p, n
  <2> QED
    BY <2>1 DEF TakesChild
<1>3. n \in Nat /\ n > 0
  BY DEF IsTree
<1>4. ASSUME NEW m \in PartialMaps(0 .. k - 1, 0 .. n - 1),
             \A y : y \in DOMAIN m <=> ChildOf(t, v, y) # NoVertex,
             \A y \in DOMAIN m : m[y] = ChildOf(t, v, y),
             p.subtree = Inserted(m, tok, n)
      PROVE  ChildOf(t2, v, x) = IF ChildOf(t, v, x) # NoVertex
                                 THEN ChildOf(t, v, x)
                                 ELSE IF x = tok THEN n ELSE NoVertex
  <2>1. m \in PartialMaps(0 .. k - 1, 0 .. n)
    <3>1. 0 .. n - 1 \subseteq 0 .. n
      BY <1>3
    <3> QED
      BY <3>1, PartialMapsGrow
  <2>2. n \in 0 .. n
    BY <1>3
  <2>3. /\ DOMAIN p.subtree = DOMAIN m \cup {tok}
        /\ \A y \in DOMAIN m : p.subtree[y] = m[y]
        /\ tok \notin DOMAIN m => p.subtree[tok] = n
    <3>1. Extends(Inserted(m, tok, n), m, tok, n)
      BY <2>1, <2>2, InsertedMap
    <3> QED
      BY <1>4, <3>1 DEF Extends
  <2>4. HasSubtree(t2, v)
    BY <2>3 DEF HasSubtree
  <2>5. ChildOf(t2, v, x) = IF x \in DOMAIN p.subtree THEN p.subtree[x]
                            ELSE NoVertex
    BY <2>4, ChildInMap
  <2> HIDE DEF p, n
  <2> QED
    BY <1>4, <2>3, <2>5
<1>5. CASE HasSubtree(t, v)
  <2>1. \A y : ChildOf(t, v, y) = IF y \in DOMAIN node.subtree
                                  THEN node.subtree[y] ELSE NoVertex
    BY <1>5, ChildInMap
  <2>2. \A y \in DOMAIN node.subtree : node.subtree[y] # NoVertex
    BY <1>1, PartialMap DEF NoVertex
  <2> HIDE DEF p, node, n
  <2>3. /\ \A y : y \in DOMAIN node.subtree <=> ChildOf(t, v, y) # NoVertex
        /\ \A y \in DOMAIN node.subtree : node.subtree[y] = ChildOf(t, v, y)
    BY <2>1, <2>2
  <2> QED
    BY <1>1, <1>2, <1>4, <1>5, <2>3 DEF n
<1>6. CASE Splits(t, v)
  <2>1. ~HasSubtree(t, v)
    BY <1>6 DEF Splits
  <2>2. LET sub == SplitSubtree(t, v)
        IN /\ sub \in PartialMaps(0 .. k - 1, 0 .. n - 1)
           /\ \A y : y \in DOMAIN sub <=> ChildOf(t, v, y) # NoVertex
           /\ \A y \in DOMAIN sub : sub[y] = ChildOf(t, v, y)
    BY <2>1, SplitSubtreeFacts
  <2> HIDE DEF p, node
  <2> QED
    BY <1>2, <1>4, <1>6, <2>2
<1>7. CASE ~HasSubtree(t, v) /\ ~Splits(t, v)
  <2> DEFINE L == Len(node.edges)
             H == Hits(t, v, x)
             H2 == Hits(t2, v, x)
  <2>1. p.edges = Append(node.edges, n) /\ p.subtree = node.subtree
    BY <1>2, <1>7
  <2>2. ~HasSubtree(t2, v)
    BY <1>7, <2>1 DEF HasSubtree
  <2>3. /\ DOMAIN node.edges = 1 .. L /\ L \in Nat
        /\ \A i \in 1 .. L : node.edges[i] \in 0 .. n - 1
    <3> HIDE DEF node, n
    <3>1. node.edges \in Seq(0 .. n - 1)
      BY <1>1
    <3> QED
      BY <3>1, LenProperties, ElementOfSeq
  <2>4. /\ DOMAIN p.edges = 1 .. L + 1
        /\ \A i \in 1 .. L : p.edges[i] = node.edges[i]
        /\ p.edges[L + 1] = n
    BY <1>1, <2>1
  <2> HIDE DEF L, n
  <2>5. \A i \in 1 .. L : t2[p.edges[i] + 1].token = t[node.edges[i] + 1].token
    BY <2>3, <2>4 DEF n
  <2>6. t2[p.edges[L + 1] + 1].token = tok
    BY <2>4 DEF n
  <2> HIDE DEF p, node
  <2>7. H = {i \in 1 .. L : t[node.edges[i] + 1].token = x}
    BY <2>3 DEF Hits, node
  <2>8. H2 = {i \in 1 .. L + 1 : t2[p.edges[i] + 1].token = x}
    BY <2>4 DEF Hits, p
  <2> HIDE DEF H, H2
  <2>9. \A i \in 1 .. L + 1 : i \in 1 .. L \/ i = L + 1
    BY <2>3
  <2>10. 1 .. L \subseteq 1 .. L + 1 /\ L + 1 \in 1 .. L + 1 /\ L + 1 \notin 1 .. L
    BY <2>3
  <2>11. H2 = H \cup (IF x = tok THEN {L + 1} ELSE {})
    BY <2>5, <2>6, <2>7, <2>8, <2>9, <2>10
  <2>12. ChildOf(t, v, x) = IF H = {} THEN NoVertex ELSE node.edges[Min(H)]
    BY <1>7, ChildByEdge DEF H, node
  <2>13. ChildOf(t2, v, x) = IF H2 = {} THEN NoVertex ELSE p.edges[Min(H2)]
    BY <2>2, ChildByEdge DEF H2, p
  <2>14. H # {} <=> ChildOf(t, v, x) # NoVertex
    BY <1>7, FoundByEdge DEF H
  <2>15. H \subseteq 1 .. L /\ H2 \subseteq 1 .. L + 1
    BY <2>7, <2>8
  <2>16. H # {} => Min(H) \in H /\ \A i \in H : Min(H) <= i
    <3>1. H \in SUBSET Nat
      BY <2>3, <2>15
    <3> QED
      BY <3>1, MinOfNaturals
  <2>17. H2 # {} => Min(H2) \in H2 /\ \A i \in H2 : Min(H2) <= i
    <3>1. H2 \in SUBSET Nat
      BY <2>3, <2>15
    <3> QED
      BY <3>1, MinOfNaturals
  <2>18. CASE H # {}
    <3>1. H2 # {} /\ Min(H) \in H2 /\ Min(H) \in 1 .. L
      BY <2>11, <2>15, <2>16, <2>18
    <3>2. Min(H2) <= Min(H) /\ Min(H2) \in H2 /\ Min(H2) \in 1 .. L + 1
      BY <2>15, <2>17, <3>1
    <3>3. Min(H2) # L + 1
      BY <2>3, <3>1, <3>2
    <3>4. Min(H2) \in H
      BY <2>11, <3>2, <3>3
    <3>5. Min(H) <= Min(H2)
      BY <2>16, <2>18, <3>4
    <3>6. Min(H) = Min(H2)
      BY <2>3, <3>1, <3>2, <3>5
    <3> QED
      BY <2>4, <2>12, <2>13, <2>14, <2>18, <3>1, <3>6
  <2>19. CASE H = {} /\ x = tok
    <3>1. H2 = {L + 1}
      BY <2>11, <2>19
    <3>2. Min(H2) = L + 1
      BY <2>17, <3>1
    <3> QED
      BY <2>4, <2>13, <2>14, <2>19, <3>1, <3>2 DEF n
  <2>20. CASE H = {} /\ x # tok
    BY <2>11, <2>13, <2>14, <2>20
  <2> QED
    BY <2>18, <2>19, <2>20
<1> QED
  BY <1>5, <1>6, <1>7

(* A tree of fewer tokens is a tree of more. *)
LEMMA TreeGrows ==
  ASSUME NEW k \in Nat, NEW k2 \in Nat, k <= k2, NEW t, IsTree(t, k)
  PROVE  IsTree(t, k2)
<1> DEFINE V == 0 .. Len(t) - 1
           A == 0 .. k - 1
           B == 0 .. k2 - 1
<1>1. A \subseteq B
  OBVIOUS
<1>2. Nodes(Len(t), k) = [token : A, edges : Seq(V), subtree : PartialMaps(A, V)]
      /\ Nodes(Len(t), k2) = [token : B, edges : Seq(V), subtree : PartialMaps(B, V)]
  BY DEF Nodes
<1> HIDE DEF A, B, V
<1>3. PartialMaps(A, V) \subseteq PartialMaps(B, V)
  BY <1>1, PartialMapsGrow
<1>4. Nodes(Len(t), k) \subseteq Nodes(Len(t), k2)
  BY <1>1, <1>2, <1>3
<1> QED
  BY <1>4 DEF IsTree

(* con_add_nodes: the tree keeps its vertices, the leaf takes a child and  *)
(* every new vertex but the last has the next one below it.                *)
ChainNode(n, toks, i) ==
  [token |-> toks[i], edges |-> IF i < Len(toks) THEN <<n + i>> ELSE << >>,
   subtree |-> << >>]

(* con_add_nodes vertex by vertex: the old ones keep token and place, the  *)
(* leaf adopts the first new one, and each new one holds the next.         *)
LEMMA ChainFacts ==
  ASSUME NEW k \in Nat, NEW t, IsTree(t, k), NEW leaf \in 0 .. Len(t) - 1,
         NEW toks \in Seq(0 .. k - 1), toks # << >>, NEW kept
  PROVE  LET t2 == WithChain(t, leaf, toks, kept)
         IN /\ IsTree(t2, k)
            /\ Len(t2) = Len(t) + Len(toks)
            /\ \A u \in 0 .. Len(t) - 1 : t2[u + 1].token = t[u + 1].token
            /\ t2[leaf + 1] = Parent(t, leaf, Len(t), toks[1], kept)
            /\ \A u \in 0 .. Len(t) - 1 \ {leaf} : t2[u + 1] = t[u + 1]
            /\ \A i \in 1 .. Len(toks) : t2[Len(t) + i] = ChainNode(Len(t), toks, i)
<1>n. PICK n : n \in Nat /\ n > 0 /\ n = Len(t)
  BY DEF IsTree
<1>l. PICK l : l \in Nat /\ l > 0 /\ l = Len(toks)
  OBVIOUS
<1> DEFINE p == Parent(t, leaf, n, toks[1], kept)
           adopted == [t EXCEPT ![leaf + 1] = p]
           chain == [i \in 1 .. l |-> ChainNode(n, toks, i)]
           t2 == WithChain(t, leaf, toks, kept)
           N == Nodes(n + l, k)
<1>1. \A i \in 1 .. l : toks[i] \in 0 .. k - 1
  BY <1>l
<1>2. t2 = adopted \o chain
  <2> DEFINE made == [i \in DOMAIN toks |->
                        [NewVertex(toks[i]) EXCEPT !.edges =
                           IF i < Len(toks) THEN <<Len(t) + i>> ELSE @]]
  <2>1. DOMAIN toks = 1 .. l
    BY <1>l
  <2>2. \A i \in 1 .. l :
          [NewVertex(toks[i]) EXCEPT !.edges =
             IF i < Len(toks) THEN <<Len(t) + i>> ELSE @] = ChainNode(n, toks, i)
    <3>1. ASSUME NEW tk, NEW es
          PROVE  [NewVertex(tk) EXCEPT !.edges = es] =
                   [token |-> tk, edges |-> es, subtree |-> << >>]
      BY DEF NewVertex
    <3>2. \A tk : NewVertex(tk).edges = << >>
      BY DEF NewVertex
    <3> QED
      BY <1>n, <3>1, <3>2 DEF ChainNode
  <2>3. made = chain
    BY <2>1, <2>2
  <2>4. t2 = Adopt(t, leaf, Len(t), toks[1], kept) \o made
    BY DEF WithChain
  <2>5. Adopt(t, leaf, Len(t), toks[1], kept) = adopted
    BY <1>n DEF Adopt
  <2> QED
    BY <2>3, <2>4, <2>5
<1>3. /\ p \in Nodes(n + 1, k)
      /\ p.token = t[leaf + 1].token
  <2>1. toks[1] \in 0 .. k - 1
    BY <1>l, <1>1
  <2>2. Parent(t, leaf, Len(t), toks[1], kept) \in Nodes(Len(t) + 1, k)
    BY <2>1, ParentFacts
  <2>3. Parent(t, leaf, Len(t), toks[1], kept).token = t[leaf + 1].token
    BY ParentCases DEF TakesChild
  <2> QED
    BY <1>n, <2>2, <2>3
<1> HIDE DEF p, t2, chain, N
<1>4. \A j \in 0 .. n + l : Nodes(j, k) \subseteq N
  <2>1. ASSUME NEW j \in 0 .. n + l
        PROVE  Nodes(j, k) \subseteq N
    <3>1. 0 .. j - 1 \subseteq 0 .. (n + l) - 1
      BY <1>n, <1>l
    <3> DEFINE A == 0 .. j - 1
               B == 0 .. (n + l) - 1
               K == 0 .. k - 1
    <3> HIDE DEF A, B, K
    <3>2. Seq(A) \subseteq Seq(B)
      <4>1. A \subseteq B
        BY <3>1 DEF A, B
      <4> QED
        BY <4>1
    <3>3. PartialMaps(K, A) \subseteq PartialMaps(K, B)
      <4>1. A \subseteq B /\ K \subseteq K
        BY <3>1 DEF A, B
      <4> QED
        BY <4>1, PartialMapsGrow
    <3>4. /\ Nodes(j, k) = [token : K, edges : Seq(A), subtree : PartialMaps(K, A)]
          /\ N = [token : K, edges : Seq(B), subtree : PartialMaps(K, B)]
      BY DEF N, Nodes, A, B, K
    <3> QED
      BY <3>2, <3>3, <3>4
  <2> QED
    BY <2>1
<1>5. /\ DOMAIN t = 1 .. n
      /\ \A i \in 1 .. n : t[i] \in N
  <2>1. t \in Seq(Nodes(n, k))
    BY <1>n DEF IsTree
  <2>2. n \in 0 .. n + l
    BY <1>n, <1>l
  <2> QED
    BY <1>n, <1>4, <2>1, <2>2
<1>6. p \in N
  <2>1. n + 1 \in 0 .. n + l
    BY <1>n, <1>l
  <2> QED
    BY <1>3, <1>4, <2>1
<1>7. leaf + 1 \in 1 .. n
  BY <1>n
<1>8. /\ adopted \in Seq(N)
      /\ Len(adopted) = n
      /\ adopted[leaf + 1] = p
      /\ \A i \in 1 .. n : i # leaf + 1 => adopted[i] = t[i]
  <2>1. t \in Seq(N) /\ Len(t) = n
    <3>1. t \in Seq(Nodes(n, k)) /\ Nodes(n, k) \subseteq N
      BY <1>n, <1>l, <1>4 DEF IsTree
    <3> QED
      BY <1>n, <3>1
  <2> HIDE DEF N
  <2> QED
    BY <1>5, <1>6, <1>7, <1>n, <2>1
<1> HIDE DEF adopted
<1>9. ASSUME NEW i \in 1 .. l
      PROVE  ChainNode(n, toks, i) \in N
  <2>1. n + i \in 0 .. (n + l) - 1 \/ ~(i < l)
    BY <1>n, <1>l
  <2>2. (IF i < Len(toks) THEN <<n + i>> ELSE << >>) \in Seq(0 .. (n + l) - 1)
    <3> DEFINE B == 0 .. (n + l) - 1
    <3>1. n + i \in B \/ ~(i < l)
      BY <2>1
    <3> HIDE DEF B
    <3>2. \A b \in B : <<b>> \in Seq(B)
      OBVIOUS
    <3>3. << >> \in Seq(B)
      OBVIOUS
    <3>4. (IF i < Len(toks) THEN <<n + i>> ELSE << >>) \in Seq(B)
      BY <1>l, <3>1, <3>2, <3>3, Zenon
    <3> QED
      BY <3>4 DEF B
  <2>3. << >> \in PartialMaps(0 .. k - 1, 0 .. (n + l) - 1)
    <3>1. DOMAIN << >> = {} /\ << >> = [x \in {} |-> 0]
      OBVIOUS
    <3>2. [x \in {} |-> 0] \in [{} -> 0 .. (n + l) - 1]
      OBVIOUS
    <3> QED
      BY <3>1, <3>2 DEF PartialMaps
  <2> QED
    BY <1>1, <2>2, <2>3 DEF N, Nodes, ChainNode
<1>10. chain \in Seq(N) /\ Len(chain) = l /\ \A i \in 1 .. l : chain[i] = ChainNode(n, toks, i)
  BY <1>l, <1>9 DEF chain
<1>11. /\ t2 \in Seq(N) /\ Len(t2) = n + l
       /\ \A i \in 1 .. n + l : t2[i] = IF i <= n THEN adopted[i] ELSE chain[i - n]
  <2> HIDE DEF N
  <2>1. /\ adopted \o chain \in Seq(N)
        /\ Len(adopted \o chain) = Len(adopted) + Len(chain)
        /\ \A i \in 1 .. Len(adopted) + Len(chain) :
             (adopted \o chain)[i] = IF i <= Len(adopted) THEN adopted[i]
                                     ELSE chain[i - Len(adopted)]
    BY <1>8, <1>10, ConcatProperties
  <2> QED
    BY <1>2, <1>8, <1>10, <2>1
<1>12. ASSUME NEW u \in 0 .. n - 1
       PROVE  t2[u + 1] = IF u = leaf THEN p ELSE t[u + 1]
  <2>1. u + 1 \in 1 .. n + l /\ u + 1 \in 1 .. n /\ u + 1 <= n
    BY <1>n, <1>l
  <2>2. t2[u + 1] = adopted[u + 1]
    BY <1>11, <2>1
  <2>3. u # leaf => u + 1 # leaf + 1
    BY <1>n
  <2> QED
    BY <1>8, <2>1, <2>2, <2>3
<1>13. ASSUME NEW i \in 1 .. l
       PROVE  t2[n + i] = ChainNode(n, toks, i)
  <2>1. n + i \in 1 .. n + l /\ ~(n + i <= n) /\ (n + i) - n = i
    BY <1>n, <1>l
  <2> QED
    BY <1>10, <1>11, <2>1
<1>14. IsTree(t2, k)
  BY <1>n, <1>l, <1>11 DEF IsTree, N
<1> QED
  BY <1>n, <1>l, <1>3, <1>11, <1>12, <1>13, <1>14 DEF t2, p

(* The same, said of any tree that is the larger one. *)
Grafted(t2, t, n, leaf, toks, kept) ==
  /\ Len(t2) = n + Len(toks)
  /\ \A u \in 0 .. n - 1 : t2[u + 1].token = t[u + 1].token
  /\ t2[leaf + 1] = Parent(t, leaf, n, toks[1], kept)
  /\ \A u \in 0 .. n - 1 : u # leaf => t2[u + 1] = t[u + 1]
  /\ \A i \in 1 .. Len(toks) : t2[n + i] = ChainNode(n, toks, i)

(* con_add_nodes grafts the new vertices below the leaf. *)
LEMMA ChainGrafted ==
  ASSUME NEW k \in Nat, NEW t, IsTree(t, k), NEW leaf \in 0 .. Len(t) - 1,
         NEW toks \in Seq(0 .. k - 1), toks # << >>, NEW kept
  PROVE  /\ IsTree(WithChain(t, leaf, toks, kept), k)
         /\ Grafted(WithChain(t, leaf, toks, kept), t, Len(t), leaf, toks, kept)
<1> DEFINE t2 == WithChain(t, leaf, toks, kept)
<1>1. /\ IsTree(t2, k)
      /\ Len(t2) = Len(t) + Len(toks)
      /\ \A u \in 0 .. Len(t) - 1 : t2[u + 1].token = t[u + 1].token
      /\ t2[leaf + 1] = Parent(t, leaf, Len(t), toks[1], kept)
      /\ \A u \in 0 .. Len(t) - 1 \ {leaf} : t2[u + 1] = t[u + 1]
      /\ \A i \in 1 .. Len(toks) : t2[Len(t) + i] = ChainNode(Len(t), toks, i)
  BY ChainFacts
<1> HIDE DEF t2
<1>2. \A u \in 0 .. Len(t) - 1 : u # leaf => t2[u + 1] = t[u + 1]
  BY <1>1
<1> QED
  BY <1>1, <1>2 DEF Grafted, t2

(* The nodes of the chain. *)
LEMMA ChainNodes ==
  ASSUME NEW n \in Nat, NEW t2, NEW t, NEW leaf, NEW toks, NEW kept,
         Grafted(t2, t, n, leaf, toks, kept), NEW i \in 1 .. Len(toks)
  PROVE  /\ t2[n + i].token = toks[i]
         /\ t2[n + i].edges = IF i < Len(toks) THEN <<n + i>> ELSE << >>
         /\ t2[n + i].subtree = << >>
<1>1. t2[n + i] = ChainNode(n, toks, i)
  BY DEF Grafted
<1> QED
  BY <1>1 DEF ChainNode

(* The children in the tree with the chain. *)
ChildrenGrafted(t2, t, n, leaf, l) ==
  /\ \A u \in 0 .. n - 1 : u # leaf => Children(t2, u) = Children(t, u)
  /\ Children(t2, leaf) \subseteq Children(t, leaf) \cup {n}
  /\ \A i \in 1 .. l :
       Children(t2, n + i - 1) = IF i < l THEN {n + i} ELSE {}

(* A chain adds the first new vertex to the children of the leaf, and each *)
(* new vertex to those of the one before.                                  *)
LEMMA ChainChildren ==
  ASSUME NEW k \in Nat, NEW t, IsTree(t, k), NEW n \in Nat, n = Len(t),
         NEW leaf \in 0 .. n - 1,
         NEW toks \in Seq(0 .. k - 1), toks # << >>, NEW kept,
         NEW t2, Grafted(t2, t, n, leaf, toks, kept)
  PROVE  ChildrenGrafted(t2, t, n, leaf, Len(toks))
<1>n. n > 0 /\ Len(toks) \in Nat /\ Len(toks) > 0
  BY DEF IsTree
<1>1. /\ \A u \in 0 .. Len(t) - 1 : t2[u + 1].token = t[u + 1].token
      /\ t2[leaf + 1] = Parent(t, leaf, Len(t), toks[1], kept)
      /\ \A u \in 0 .. n - 1 : u # leaf => t2[u + 1] = t[u + 1]
  BY DEF Grafted
<1>2. ASSUME NEW u \in 0 .. n - 1, u # leaf
      PROVE  Children(t2, u) = Children(t, u)
  <2>1. t2[u + 1] = t[u + 1] /\ u \in 0 .. Len(t) - 1
    BY <1>1, <1>2
  <2>2. LooksTheSame(t2, t, u)
    BY <1>1, <2>1 DEF LooksTheSame
  <2> QED
    BY <2>1, <2>2, SameChildren
<1>3. Children(t2, leaf) \subseteq Children(t, leaf) \cup {n}
  <2>1. toks[1] \in 0 .. k - 1 /\ leaf \in 0 .. Len(t) - 1
    BY <1>n
  <2>2. /\ ToSet(t2[leaf + 1].edges) \subseteq Children(t, leaf) \cup {n}
        /\ \A x \in DOMAIN t2[leaf + 1].subtree :
             t2[leaf + 1].subtree[x] \in Children(t, leaf) \cup {n}
    BY <1>1, <2>1, ParentFacts
  <2>3. Children(t2, leaf) =
          ToSet(t2[leaf + 1].edges) \cup
          {t2[leaf + 1].subtree[x] : x \in DOMAIN t2[leaf + 1].subtree}
    BY DEF Children
  <2> QED
    BY <2>2, <2>3
<1>4. ASSUME NEW i \in 1 .. Len(toks)
      PROVE  Children(t2, n + i - 1) = IF i < Len(toks) THEN {n + i} ELSE {}
  <2>1. (n + i - 1) + 1 = n + i
    OBVIOUS
  <2>2. /\ t2[n + i].edges = IF i < Len(toks) THEN <<n + i>> ELSE << >>
        /\ t2[n + i].subtree = << >>
    BY ChainNodes
  <2>3. Children(t2, n + i - 1) =
          ToSet(t2[n + i].edges) \cup
          {t2[n + i].subtree[x] : x \in DOMAIN t2[n + i].subtree}
    BY <2>1 DEF Children
  <2>4. DOMAIN << >> = {} /\ ToSet(<< >>) = {} /\ \A c : ToSet(<<c>>) = {c}
    BY DEF ToSet
  <2>5. {t2[n + i].subtree[x] : x \in DOMAIN t2[n + i].subtree} = {}
    BY <2>2, <2>4
  <2>6. ToSet(t2[n + i].edges) = IF i < Len(toks) THEN {n + i} ELSE {}
    BY <2>2, <2>4
  <2> QED
    BY <2>3, <2>5, <2>6
<1> QED
  BY <1>2, <1>3, <1>4 DEF ChildrenGrafted

(* What descend finds in the tree with the chain. *)
FindsGrafted(t2, t, n, leaf, toks) ==
  /\ \A u \in 0 .. n - 1 : \A x :
       ChildOf(t, u, x) # NoVertex => ChildOf(t2, u, x) = ChildOf(t, u, x)
  /\ \A u \in 0 .. n - 1 : \A x :
       u # leaf \/ x # toks[1] => ChildOf(t2, u, x) = ChildOf(t, u, x)
  /\ ChildOf(t, leaf, toks[1]) = NoVertex => ChildOf(t2, leaf, toks[1]) = n
  /\ \A i \in 1 .. Len(toks) - 1 :
       ChildOf(t2, n + i - 1, toks[i + 1]) = n + i

(* Every child found before is still found; the leaf's new token leads to  *)
(* the first new vertex unless it led somewhere, and from each new vertex  *)
(* descend finds the next.                                                 *)
LEMMA ChainFinds ==
  ASSUME NEW k \in Nat, NEW t, IsTree(t, k), NEW n \in Nat, n = Len(t),
         NEW leaf \in 0 .. n - 1,
         NEW toks \in Seq(0 .. k - 1), toks # << >>, NEW kept,
         NEW t2, Grafted(t2, t, n, leaf, toks, kept)
  PROVE  FindsGrafted(t2, t, n, leaf, toks)
<1>n. n > 0 /\ Len(toks) \in Nat /\ Len(toks) > 0
  BY DEF IsTree
<1>1. /\ Len(t2) = n + Len(toks)
      /\ \A u \in 0 .. Len(t) - 1 : t2[u + 1].token = t[u + 1].token
      /\ t2[leaf + 1] = Parent(t, leaf, Len(t), toks[1], kept)
      /\ \A u \in 0 .. n - 1 : u # leaf => t2[u + 1] = t[u + 1]
  BY DEF Grafted
<1>0. ASSUME NEW i \in 1 .. Len(toks)
      PROVE  /\ t2[n + i].token = toks[i]
             /\ t2[n + i].edges = IF i < Len(toks) THEN <<n + i>> ELSE << >>
             /\ t2[n + i].subtree = << >>
  BY ChainNodes
<1>2. ASSUME NEW u \in 0 .. n - 1, u # leaf
      PROVE  \A x : ChildOf(t2, u, x) = ChildOf(t, u, x)
  <2>1. t2[u + 1] = t[u + 1] /\ u \in 0 .. Len(t) - 1
    BY <1>1, <1>2
  <2>2. LooksTheSame(t2, t, u)
    BY <1>1, <2>1 DEF LooksTheSame
  <2> QED
    BY <2>1, <2>2, SameChildren
<1>3. ASSUME NEW x
      PROVE  ChildOf(t2, leaf, x) =
               IF ChildOf(t, leaf, x) # NoVertex THEN ChildOf(t, leaf, x)
               ELSE IF x = toks[1] THEN n ELSE NoVertex
  <2> DEFINE tok == toks[1]
  <2>1. tok \in 0 .. k - 1 /\ 1 \in 1 .. Len(toks) /\ leaf \in 0 .. Len(t) - 1
    BY <1>n
  <2>2. t2[n + 1].token = tok
    BY <1>0, <2>1
  <2>3. t2[Len(t) + 1].token = tok
    BY <2>2
  <2>b. t2[leaf + 1] = Parent(t, leaf, Len(t), tok, kept)
    BY <1>1
  <2>c. \A u \in 0 .. Len(t) - 1 : t2[u + 1].token = t[u + 1].token
    BY <1>1
  <2> HIDE DEF tok
  <2>4. ChildOf(t2, leaf, x) =
          IF ChildOf(t, leaf, x) # NoVertex THEN ChildOf(t, leaf, x)
          ELSE IF x = tok THEN Len(t) ELSE NoVertex
    BY <2>1, <2>3, <2>b, <2>c, ParentFinds
  <2> QED
    BY <2>4 DEF tok
<1>4. ASSUME NEW i \in 1 .. Len(toks) - 1
      PROVE  ChildOf(t2, n + i - 1, toks[i + 1]) = n + i
  <2> DEFINE v == n + i - 1
             x == toks[i + 1]
  <2>1. /\ v + 1 = n + i /\ (n + i) + 1 = n + (i + 1)
        /\ i \in 1 .. Len(toks) /\ i + 1 \in 1 .. Len(toks) /\ i < Len(toks)
    BY <1>n
  <2>2. /\ t2[n + i].edges = <<n + i>> /\ t2[n + i].subtree = << >>
        /\ t2[n + (i + 1)].token = x
    <3>1. /\ t2[n + i].edges = IF i < Len(toks) THEN <<n + i>> ELSE << >>
          /\ t2[n + i].subtree = << >>
      <4>1. i \in 1 .. Len(toks)
        BY <2>1
      <4> QED
        BY <1>0, <4>1, Zenon
    <3>2. t2[n + (i + 1)].token = toks[i + 1]
      <4> DEFINE j == i + 1
      <4>1. j \in 1 .. Len(toks)
        BY <2>1
      <4> HIDE DEF j
      <4>2. t2[n + j].token = toks[j]
        BY <1>0, <4>1, Zenon
      <4> QED
        BY <4>2 DEF j
    <3> QED
      BY <2>1, <3>1, <3>2
  <2> HIDE DEF v, x
  <2>3. ~HasSubtree(t2, v)
    <3>1. t2[v + 1].subtree = << >>
      BY <2>1, <2>2, Zenon
    <3>2. DOMAIN << >> = {}
      OBVIOUS
    <3> QED
      BY <3>1, <3>2 DEF HasSubtree
  <2>4. Hits(t2, v, x) = {1}
    <3>1. /\ DOMAIN t2[v + 1].edges = {1} /\ t2[v + 1].edges[1] = n + i
          /\ t2[(n + i) + 1].token = x
      BY <2>1, <2>2
    <3> QED
      BY <3>1 DEF Hits
  <2>5. Min({1}) = 1
    <3>1. {1} \in SUBSET Nat /\ {1} # {}
      OBVIOUS
    <3>2. Min({1}) \in {1}
      BY <3>1, MinOfNaturals
    <3> QED
      BY <3>2
  <2>6. ChildOf(t2, v, x) = t2[v + 1].edges[1]
    BY <2>3, <2>4, <2>5, ChildByEdge
  <2>7. t2[v + 1].edges[1] = n + i
    <3>1. v + 1 = n + i
      BY <2>1
    <3>2. <<n + i>>[1] = n + i
      OBVIOUS
    <3> QED
      BY <2>2, <3>1, <3>2, Zenon
  <2>8. ChildOf(t2, v, x) = n + i
    BY <2>6, <2>7, Zenon
  <2> QED
    BY <2>8 DEF v, x
<1>5. ASSUME NEW u \in 0 .. n - 1, NEW x, ChildOf(t, u, x) # NoVertex
      PROVE  ChildOf(t2, u, x) = ChildOf(t, u, x)
  BY <1>2, <1>3, <1>5
<1>6. ASSUME NEW u \in 0 .. n - 1, NEW x, u # leaf \/ x # toks[1]
      PROVE  ChildOf(t2, u, x) = ChildOf(t, u, x)
  <2>1. CASE u # leaf
    BY <1>2, <2>1
  <2>2. CASE u = leaf
    BY <1>3, <1>6, <2>2
  <2> QED
    BY <2>1, <2>2
<1> QED
  BY <1>3, <1>4, <1>5, <1>6 DEF FindsGrafted

(* The tree with the chain has depths if the tree had: the new vertices    *)
(* lie one, two and more below the leaf.                                   *)
DeeperBy(d, n, l, leaf) ==
  [v \in 0 .. (n + l) - 1 |-> IF v < n THEN d[v] ELSE d[leaf] + 1 + (v - n)]

(* The new vertices lie below the leaf, each one deeper than the last. *)
LEMMA ChainDepths ==
  ASSUME NEW k \in Nat, NEW t, IsTree(t, k), NEW n \in Nat, n = Len(t),
         NEW leaf \in 0 .. n - 1,
         NEW toks \in Seq(0 .. k - 1), toks # << >>, NEW kept,
         NEW t2, Grafted(t2, t, n, leaf, toks, kept),
         NEW d, Depths(t, d)
  PROVE  Depths(t2, DeeperBy(d, n, Len(toks), leaf))
<1> DEFINE e == DeeperBy(d, n, Len(toks), leaf)
<1>n. PICK l : l \in Nat /\ l > 0 /\ l = Len(toks) /\ n > 0
  BY DEF IsTree
<1>1. Len(t2) = n + l
  BY <1>n DEF Grafted
<1>2. /\ \A u \in 0 .. n - 1 : u # leaf => Children(t2, u) = Children(t, u)
      /\ Children(t2, leaf) \subseteq Children(t, leaf) \cup {n}
      /\ \A i \in 1 .. l : Children(t2, n + i - 1) = IF i < l THEN {n + i} ELSE {}
  <2>1. ChildrenGrafted(t2, t, n, leaf, l)
    BY <1>n, ChainChildren
  <2> QED
    BY <2>1 DEF ChildrenGrafted
<1>3. \A u \in 0 .. n - 1 : Children(t, u) \subseteq 0 .. n - 1
  BY ChildrenFacts
<1>4. /\ d \in [0 .. n - 1 -> Nat] /\ d[Root] = 0
      /\ \A v \in 0 .. n - 1 : \A u \in Children(t, v) : d[u] = d[v] + 1
  BY DEF Depths
<1>l. leaf \in 0 .. n - 1 /\ d[leaf] \in Nat
  BY <1>4
<1>e. e = [v \in 0 .. (n + l) - 1 |-> IF v < n THEN d[v] ELSE d[leaf] + 1 + (v - n)]
  BY <1>n DEF DeeperBy
<1> HIDE DEF e
<1>5. ASSUME NEW v \in 0 .. (n + l) - 1
      PROVE  /\ e[v] = IF v < n THEN d[v] ELSE d[leaf] + 1 + (v - n)
             /\ e[v] \in Nat
  <2>1. e[v] = IF v < n THEN d[v] ELSE d[leaf] + 1 + (v - n)
    BY <1>e
  <2>2. CASE v < n
    <3>1. v \in 0 .. n - 1
      BY <2>2
    <3>2. d[v] \in Nat
      BY <1>4, <3>1
    <3> QED
      BY <2>1, <2>2, <3>2
  <2>3. CASE ~(v < n)
    <3>1. v - n \in Nat
      BY <2>3
    <3>2. d[leaf] + 1 + (v - n) \in Nat
      BY <1>l, <3>1
    <3> QED
      BY <2>1, <2>3, <3>2
  <2> QED
    BY <2>1, <2>2, <2>3
<1>6. e \in [0 .. (n + l) - 1 -> Nat]
  BY <1>e, <1>5
<1>7. e[Root] = 0
  <2>1. 0 \in 0 .. (n + l) - 1 /\ 0 < n
    BY <1>n
  <2> QED
    BY <1>4, <1>5, <2>1 DEF Root
<1>8. ASSUME NEW v \in 0 .. (n + l) - 1, NEW u \in Children(t2, v)
      PROVE  e[u] = e[v] + 1
  <2>1. CASE v < n /\ u # n
    <3>1. v \in 0 .. n - 1
      BY <2>1
    <3>2. u \in Children(t, v) /\ u \in 0 .. n - 1
      BY <1>2, <1>3, <2>1, <3>1
    <3>3. d[u] = d[v] + 1
      BY <1>4, <3>1, <3>2
    <3>4. u \in 0 .. (n + l) - 1 /\ u < n
      BY <1>n, <3>2
    <3> QED
      BY <1>5, <2>1, <3>3, <3>4
  <2>2. CASE v < n /\ u = n
    <3>1. v \in 0 .. n - 1
      BY <2>2
    <3>2. v = leaf
      <4>1. n \notin Children(t, v)
        BY <1>3, <3>1
      <4> QED
        BY <1>2, <2>2, <3>1, <4>1
    <3>3. n \in 0 .. (n + l) - 1 /\ ~(n < n)
      BY <1>n
    <3>4. e[n] = d[leaf] + 1 + (n - n) /\ e[leaf] = d[leaf]
      BY <1>5, <2>2, <3>2, <3>3
    <3> QED
      BY <1>l, <2>2, <3>2, <3>4
  <2>3. CASE ~(v < n)
    <3> DEFINE i == v - n + 1
    <3>1. i \in 1 .. l /\ n + i - 1 = v
      BY <1>n, <2>3
    <3> HIDE DEF i
    <3>2. i < l /\ u = n + i
      BY <1>2, <3>1
    <3>3. u = v + 1 /\ u \in 0 .. (n + l) - 1 /\ ~(u < n)
      BY <1>n, <2>3, <3>1, <3>2
    <3>4. e[u] = d[leaf] + 1 + (u - n) /\ e[v] = d[leaf] + 1 + (v - n)
      BY <1>5, <2>3, <3>3
    <3>5. (v + 1) - n = (v - n) + 1 /\ v - n \in Int
      BY <1>n
    <3>6. PICK base : base \in Nat /\ base = d[leaf]
      BY <1>l
    <3>7. PICK gap : gap \in Int /\ gap = v - n
      BY <3>5
    <3>8. e[u] = base + 1 + (gap + 1) /\ e[v] = base + 1 + gap
      BY <3>3, <3>4, <3>5, <3>6, <3>7, Zenon
    <3>9. base + 1 + (gap + 1) = (base + 1 + gap) + 1
      BY <3>6, <3>7
    <3> QED
      BY <3>8, <3>9, Zenon
  <2> QED
    BY <2>1, <2>2, <2>3
<1>9. Depths(t2, e)
  BY <1>1, <1>6, <1>7, <1>8 DEF Depths
<1> QED
  BY <1>9 DEF e

(***************************************************************************)
(* The tree as a trie.                                                     *)
(***************************************************************************)

(* Vertex v has one parent, which finds it by its token. *)
HasParent(t, n, v, p) ==
  /\ ChildOf(t, p, t[v + 1].token) = v
  /\ \A u \in 0 .. n - 1 : u # p => v \notin Children(t, u)

IsTrie(t, n) == \A v \in 1 .. n - 1 : \E p \in 0 .. v - 1 : HasParent(t, n, v, p)

(* A chain below a leaf that has no child for its first token: the tree    *)
(* stays a trie.                                                           *)
LEMMA ChainTrie ==
  ASSUME NEW k \in Nat, NEW t, IsTree(t, k), NEW n \in Nat, n = Len(t),
         NEW leaf \in 0 .. n - 1,
         NEW toks \in Seq(0 .. k - 1), toks # << >>, NEW kept,
         NEW t2, Grafted(t2, t, n, leaf, toks, kept),
         ChildOf(t, leaf, toks[1]) = NoVertex,
         IsTrie(t, n)
  PROVE  IsTrie(t2, n + Len(toks))
<1>n. PICK l : l \in Nat /\ l > 0 /\ l = Len(toks) /\ n > 0
  BY DEF IsTree
<1>1. /\ \A u \in 0 .. n - 1 : u # leaf => Children(t2, u) = Children(t, u)
      /\ Children(t2, leaf) \subseteq Children(t, leaf) \cup {n}
      /\ \A i \in 1 .. l : Children(t2, n + i - 1) = IF i < l THEN {n + i} ELSE {}
  <2>1. ChildrenGrafted(t2, t, n, leaf, l)
    BY <1>n, ChainChildren
  <2> QED
    BY <2>1 DEF ChildrenGrafted
<1>2. /\ \A u \in 0 .. n - 1 : \A x :
           ChildOf(t, u, x) # NoVertex => ChildOf(t2, u, x) = ChildOf(t, u, x)
      /\ ChildOf(t2, leaf, toks[1]) = n
      /\ \A i \in 1 .. l - 1 : ChildOf(t2, n + i - 1, toks[i + 1]) = n + i
  <2>1. FindsGrafted(t2, t, n, leaf, toks)
    BY ChainFinds
  <2> QED
    BY <1>n, <2>1 DEF FindsGrafted
<1>3. \A u \in 0 .. n - 1 : Children(t, u) \subseteq 0 .. n - 1
  BY ChildrenFacts
<1>4. \A u \in 0 .. n - 1 : t2[u + 1].token = t[u + 1].token
  BY DEF Grafted
<1>5. ASSUME NEW i \in 1 .. l
      PROVE  t2[n + i].token = toks[i]
  <2>1. t2[n + i] = ChainNode(n, toks, i)
    BY <1>n DEF Grafted
  <2> QED
    BY <2>1 DEF ChainNode
<1>6. ASSUME NEW u \in n .. (n + l) - 1
      PROVE  Children(t2, u) \subseteq {u + 1}
  <2> DEFINE i == u - n + 1
  <2>1. i \in 1 .. l /\ n + i - 1 = u /\ n + i = u + 1
    BY <1>n
  <2> HIDE DEF i
  <2> QED
    BY <1>1, <2>1
<1>7. ASSUME NEW v \in 1 .. n - 1
      PROVE  \E p \in 0 .. v - 1 : HasParent(t2, n + l, v, p)
  <2>1. PICK p \in 0 .. v - 1 : HasParent(t, n, v, p)
    BY DEF IsTrie
  <2>2. /\ p \in 0 .. n - 1 /\ v \in 0 .. n - 1
        /\ v # NoVertex /\ v # n
    BY DEF NoVertex
  <2>3. ChildOf(t2, p, t2[v + 1].token) = v
    <3>1. t2[v + 1].token = t[v + 1].token
      BY <1>4, <2>2
    <3>2. ChildOf(t, p, t[v + 1].token) = v
      BY <2>1 DEF HasParent
    <3> QED
      BY <1>2, <2>2, <3>1, <3>2
  <2>4. ASSUME NEW u \in 0 .. (n + l) - 1, u # p
        PROVE  v \notin Children(t2, u)
    <3>1. CASE u < n
      <4>1. u \in 0 .. n - 1
        BY <3>1
      <4>2. v \notin Children(t, u)
        BY <2>1, <2>4, <4>1 DEF HasParent
      <4> QED
        BY <1>1, <2>2, <4>1, <4>2
    <3>2. CASE ~(u < n)
      <4>1. u \in n .. (n + l) - 1 /\ v # u + 1
        BY <1>n, <3>2
      <4> QED
        BY <1>6, <4>1
    <3> QED
      BY <3>1, <3>2
  <2>5. HasParent(t2, n + l, v, p)
    BY <2>3, <2>4 DEF HasParent
  <2> QED
    BY <2>5
<1>8. HasParent(t2, n + l, n, leaf)
  <2>1. ChildOf(t2, leaf, t2[n + 1].token) = n
    <3>1. 1 \in 1 .. l
      BY <1>n
    <3> QED
      BY <1>2, <1>5, <3>1
  <2>2. ASSUME NEW u \in 0 .. (n + l) - 1, u # leaf
        PROVE  n \notin Children(t2, u)
    <3>1. CASE u < n
      <4>1. u \in 0 .. n - 1 /\ n \notin 0 .. n - 1
        BY <3>1
      <4> QED
        BY <1>1, <1>3, <2>2, <4>1
    <3>2. CASE ~(u < n)
      <4>1. u \in n .. (n + l) - 1 /\ n # u + 1
        BY <1>n, <3>2
      <4> QED
        BY <1>6, <4>1
    <3> QED
      BY <3>1, <3>2
  <2> QED
    BY <2>1, <2>2 DEF HasParent
<1>9. ASSUME NEW i \in 1 .. l - 1
      PROVE  HasParent(t2, n + l, n + i, n + i - 1)
  <2>1. ChildOf(t2, n + i - 1, t2[(n + i) + 1].token) = n + i
    <3>1. i + 1 \in 1 .. l /\ (n + i) + 1 = n + (i + 1)
      BY <1>n
    <3>2. t2[n + (i + 1)].token = toks[i + 1]
      BY <1>5, <3>1
    <3>3. ChildOf(t2, n + i - 1, toks[i + 1]) = n + i
      BY <1>2
    <3> QED
      BY <3>1, <3>2, <3>3
  <2>2. ASSUME NEW u \in 0 .. (n + l) - 1, u # n + i - 1
        PROVE  n + i \notin Children(t2, u)
    <3>1. CASE u < n
      <4>1. u \in 0 .. n - 1 /\ n + i \notin 0 .. n - 1 /\ n + i # n
        BY <3>1
      <4>2. Children(t2, u) \subseteq 0 .. n - 1 \cup {n}
        BY <1>1, <1>3, <4>1
      <4> QED
        BY <4>1, <4>2
    <3>2. CASE ~(u < n)
      <4>1. u \in n .. (n + l) - 1 /\ n + i # u + 1
        BY <1>n, <2>2, <3>2
      <4> QED
        BY <1>6, <4>1
    <3> QED
      BY <3>1, <3>2
  <2> QED
    BY <2>1, <2>2 DEF HasParent
<1>10. ASSUME NEW v \in 1 .. (n + l) - 1
       PROVE  \E p \in 0 .. v - 1 : HasParent(t2, n + l, v, p)
  <2>1. CASE v < n
    BY <1>7, <2>1
  <2>2. CASE v = n
    <3>1. leaf \in 0 .. v - 1
      BY <2>2
    <3> QED
      BY <1>8, <2>2, <3>1
  <2>3. CASE v > n
    <3>1. PICK i : i \in 1 .. l - 1 /\ n + i = v /\ n + i - 1 \in 0 .. v - 1
      <4>1. v - n \in 1 .. l - 1 /\ n + (v - n) = v /\ n + (v - n) - 1 \in 0 .. v - 1
        BY <1>n, <2>3
      <4> QED
        BY <4>1
    <3> QED
      BY <1>9, <3>1
  <2> QED
    BY <2>1, <2>2, <2>3
<1> QED
  BY <1>n, <1>10 DEF IsTrie

(* Printing the tree takes edges away that lead where a btree_map leads:   *)
(* descend finds what it found, and no vertex has a child it had not.      *)
Printed(t2, t, n) ==
  /\ Len(t2) = n
  /\ \A u \in 0 .. n - 1 : t2[u + 1].token = t[u + 1].token
  /\ \A u \in 0 .. n - 1 : \A x : ChildOf(t2, u, x) = ChildOf(t, u, x)
  /\ \A u \in 0 .. n - 1 : Children(t2, u) \subseteq Children(t, u)

(* write_graph leaves the tree as descend sees it. *)
LEMMA WriteGraphPrints ==
  ASSUME NEW k \in Nat, NEW t, IsTree(t, k)
  PROVE  /\ IsTree(AfterWriteGraph(t), k)
         /\ Printed(AfterWriteGraph(t), t, Len(t))
<1> DEFINE t2 == AfterWriteGraph(t)
           Gone(i) == {t[i].subtree[tok] : tok \in DOMAIN t[i].subtree}
           Left(i) == EdgesLeft(t[i].edges, ToSet(t[i].edges) \ Gone(i))
           K == 0 .. k - 1
<1>n. PICK n : n \in Nat /\ n > 0 /\ n = Len(t)
  BY DEF IsTree
<1> DEFINE V == 0 .. n - 1
           N == Nodes(n, k)
<1>N. N = [token : K, edges : Seq(V), subtree : PartialMaps(K, V)]
  BY DEF Nodes
<1> HIDE DEF N
<1>1. t \in Seq(N) /\ DOMAIN t = 1 .. n /\ \A i \in 1 .. n : t[i] \in N
  BY <1>n DEF IsTree, N
<1>2. t2 = [i \in 1 .. n |-> [t[i] EXCEPT !.edges = Left(i)]]
  BY <1>1 DEF AfterWriteGraph
<1> HIDE DEF t2, Gone, Left, K, V
<1>3. ASSUME NEW i \in 1 .. n
      PROVE  /\ t[i].token \in K /\ t[i].edges \in Seq(V)
             /\ t[i].subtree \in PartialMaps(K, V)
             /\ Left(i) \in Seq(V)
             /\ ToSet(Left(i)) \subseteq ToSet(t[i].edges)
             /\ t2[i] \in N
             /\ t2[i].token = t[i].token
             /\ t2[i].edges = Left(i)
             /\ t2[i].subtree = t[i].subtree
             /\ t[i].subtree = << >> => t2[i] = t[i]
  <2>1. t[i] \in [token : K, edges : Seq(V), subtree : PartialMaps(K, V)]
    BY <1>1, <1>N
  <2>2. PICK tk \in K, es \in Seq(V), sub \in PartialMaps(K, V) :
          t[i] = [token |-> tk, edges |-> es, subtree |-> sub]
    BY <2>1
  <2>3. /\ Left(i) \in Seq(V)
        /\ ToSet(Left(i)) \subseteq ToSet(es)
        /\ Gone(i) = {} => Left(i) = es
    <3>1. Left(i) = EdgesLeft(es, ToSet(es) \ Gone(i))
      BY <2>2 DEF Left
    <3>2. Gone(i) = {} => ToSet(es) \subseteq ToSet(es) \ Gone(i)
      OBVIOUS
    <3> QED
      BY <3>1, <3>2, EdgesLeftFacts
  <2>4. t2[i] = [token |-> tk, edges |-> Left(i), subtree |-> sub]
    BY <1>2, <2>2
  <2>5. sub = << >> => Gone(i) = {}
    BY <2>2 DEF Gone
  <2>6. t2[i] \in N
    BY <1>N, <2>3, <2>4
  <2>7. t[i].token = tk /\ t[i].edges = es /\ t[i].subtree = sub
    BY <2>2
  <2>8. t2[i].token = tk /\ t2[i].edges = Left(i) /\ t2[i].subtree = sub
    BY <2>4
  <2>9. ASSUME sub = << >>
        PROVE  t2[i] = t[i]
    BY <2>2, <2>3, <2>4, <2>5, <2>9
  <2> QED
    BY <2>3, <2>6, <2>7, <2>8, <2>9
<1>4. Len(t2) = n /\ t2 \in Seq(N)
  <2>1. \A i \in 1 .. n : t2[i] \in N
    BY <1>3
  <2>2. t2 = [i \in 1 .. n |-> t2[i]]
    BY <1>2
  <2> QED
    BY <1>n, <2>1, <2>2
<1>5. IsTree(t2, k)
  BY <1>n, <1>4 DEF IsTree, N
<1>6. ASSUME NEW u \in 0 .. n - 1
      PROVE  t2[u + 1].token = t[u + 1].token
  <2>1. PICK i : i \in 1 .. n /\ i = u + 1
    BY <1>n
  <2> QED
    BY <1>3, <2>1
<1>7. ASSUME NEW u \in 0 .. n - 1
      PROVE  Children(t2, u) \subseteq Children(t, u)
  <2>1. PICK i : i \in 1 .. n /\ i = u + 1
    BY <1>n
  <2>2. /\ ToSet(t2[i].edges) \subseteq ToSet(t[i].edges)
        /\ t2[i].subtree = t[i].subtree
    BY <1>3, <2>1
  <2> QED
    BY <2>1, <2>2 DEF Children
<1>8. ASSUME NEW u \in 0 .. n - 1
      PROVE  \A x : ChildOf(t2, u, x) = ChildOf(t, u, x)
  <2>1. PICK i : i \in 1 .. n /\ i = u + 1
    BY <1>n
  <2>2. t2[i].subtree = t[i].subtree
    BY <1>3, <2>1
  <2>3. CASE HasSubtree(t, u)
    <3>1. HasSubtree(t2, u)
      BY <2>1, <2>2, <2>3 DEF HasSubtree
    <3> QED
      BY <2>1, <2>2, <2>3, <3>1, ChildInMap
  <2>4. CASE ~HasSubtree(t, u)
    <3>1. t[i].subtree = << >>
      <4> DEFINE sub == t[i].subtree
      <4>0. sub \in PartialMaps(K, V)
        BY <1>3, <2>1
      <4> HIDE DEF sub
      <4>1. sub = [x \in DOMAIN sub |-> sub[x]]
        BY <4>0, PartialMap
      <4>2. DOMAIN sub = {}
        BY <2>1, <2>4 DEF HasSubtree, sub
      <4>3. sub = [x \in {} |-> sub[x]]
        BY <4>1, <4>2
      <4>4. \A f : [x \in {} |-> f[x]] = << >>
        OBVIOUS
      <4> QED
        BY <4>3, <4>4 DEF sub
    <3>2. t2[u + 1] = t[u + 1]
      BY <1>3, <2>1, <3>1
    <3>3. u \in 0 .. Len(t) - 1
          /\ \A w \in 0 .. Len(t) - 1 : t2[w + 1].token = t[w + 1].token
      BY <1>n, <1>6
    <3>4. LooksTheSame(t2, t, u)
      BY <3>2, <3>3 DEF LooksTheSame
    <3> QED
      BY <3>3, <3>4, SameChildren
  <2> QED
    BY <2>3, <2>4
<1>9. Printed(t2, t, n)
  BY <1>4, <1>6, <1>7, <1>8 DEF Printed
<1> QED
  BY <1>n, <1>5, <1>9 DEF t2

(* A printed tree has the depths it had. *)
LEMMA PrintedDepths ==
  ASSUME NEW t, NEW t2, NEW n \in Nat, n = Len(t), Printed(t2, t, n), NEW d,
         Depths(t, d)
  PROVE  Depths(t2, d)
BY DEF Printed, Depths

(* A printed trie is a trie. *)
LEMMA PrintedTrie ==
  ASSUME NEW t, NEW t2, NEW n \in Nat, n = Len(t), Printed(t2, t, n),
         IsTrie(t, n)
  PROVE  IsTrie(t2, n)
<1>1. ASSUME NEW v \in 1 .. n - 1
      PROVE  \E p \in 0 .. v - 1 : HasParent(t2, n, v, p)
  <2>1. PICK p \in 0 .. v - 1 : HasParent(t, n, v, p)
    BY DEF IsTrie
  <2>2. p \in 0 .. n - 1 /\ v \in 0 .. n - 1
    OBVIOUS
  <2>3. HasParent(t2, n, v, p)
    BY <2>1, <2>2 DEF HasParent, Printed
  <2> QED
    BY <2>3
<1> QED
  BY <1>1 DEF IsTrie
=============================================================================
