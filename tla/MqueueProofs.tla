---------------------------- MODULE MqueueProofs ----------------------------
(***************************************************************************)
(* Proofs about a message queue of mqueue.h, for any number of threads,    *)
(* priorities and messages: the sorted list with its count implements the  *)
(* abstract bounded priority queue, and no wakeup is lost.                 *)
(***************************************************************************)
EXTENDS Mqueue, SequenceTheorems, FiniteSetTheorems, WellFoundedInduction, TLAPS

-----------------------------------------------------------------------------
(* The list at mq->head. *)

Msg == [prio : Prios, seq : Nat]

Sorted(q) ==
  \A i, j \in 1..Len(q) : i < j => Abstract!Before(q[i], q[j])

\* A non-empty set of naturals has a least element.
LEMMA LeastNat ==
  ASSUME NEW I \in SUBSET Nat, I # {}
  PROVE  \E i \in I : \A j \in I : i <= j
<1> DEFINE R == {ss \in Nat \X Nat : ss[1] < ss[2]}
<1>1. IsWellFoundedOn(R, Nat)
  BY NatLessThanWellFounded, Zenon DEF OpToRel
<1> HIDE DEF R
<1>2. PICK i \in I : \A j \in I : <<j, i>> \notin R
  BY <1>1, WFMin
<1>3. ASSUME NEW j \in I PROVE i <= j
  <2>1. i \in Nat /\ j \in Nat
    OBVIOUS
  <2>2. ~(j < i)
    BY <1>2, <2>1 DEF R
  <2> QED
    BY <2>1, <2>2
<1> QED
  BY <1>3

\* The first of a set of positions is one of them and before the others.
LEMMA LeastMin ==
  ASSUME NEW I \in SUBSET Nat, I # {}
  PROVE  Min(I) \in I /\ \A j \in I : Min(I) <= j
  BY LeastNat DEF Min

\* The place Insert finds: past every message of the same or a higher priority.
LEMMA InsertPlace ==
  ASSUME NEW q \in Seq(Msg), NEW m \in Msg, Sorted(q)
  PROVE  \E k \in 1..(Len(q) + 1) :
           /\ Insert(q, m) = InsertAt(q, k, m)
           /\ \A j \in 1..Len(q) : j < k => q[j].prio >= m.prio
           /\ \A j \in 1..Len(q) : j >= k => q[j].prio < m.prio
<1> DEFINE I == {i \in 1..Len(q) : q[i].prio < m.prio}
<1>0. Len(q) \in Nat /\ m.prio \in Nat /\ \A j \in 1..Len(q) : q[j].prio \in Nat
  <2>1. \A n \in Msg : n.prio \in Nat
    BY PriosAssumption DEF Msg
  <2> QED
    BY <2>1
<1>1. CASE I = {}
  <2>1. Insert(q, m) = InsertAt(q, Len(q) + 1, m)
    BY <1>1 DEF Insert, SelectInSeq
  <2> QED
    BY <1>0, <1>1, <2>1
<1>2. CASE I # {}
  <2>1. Min(I) \in I /\ \A j \in I : Min(I) <= j
    <3>1. I \in SUBSET Nat
      BY <1>0
    <3> HIDE DEF I
    <3> QED
      BY <1>2, <3>1, LeastMin
  <2>2. Insert(q, m) = InsertAt(q, Min(I), m)
    BY <1>2, <2>1 DEF Insert, SelectInSeq
  <2>3. ASSUME NEW j \in 1..Len(q), j >= Min(I) PROVE q[j].prio < m.prio
    BY <1>0, <2>1, <2>3 DEF Sorted, Abstract!Before
  <2> QED
    <3> DEFINE k == Min(I)
    <3>1. k \in 1..Len(q) /\ k \in 1..(Len(q) + 1)
      BY <1>0, <2>1
    <3>2. \A j \in 1..Len(q) : j < k => ~(q[j].prio < m.prio)
      BY <2>1, <3>1
    <3> HIDE DEF k
    <3>3. \A j \in 1..Len(q) : j < k => q[j].prio >= m.prio
      BY <1>0, <3>2
    <3> QED
      BY <2>2, <2>3, <3>1, <3>3 DEF k
<1> QED
  BY <1>1, <1>2

\* The list with m put in at place k.
LEMMA InsertAtProperties ==
  ASSUME NEW S, NEW q \in Seq(S), NEW m \in S, NEW k \in 1..(Len(q) + 1)
  PROVE  LET r == InsertAt(q, k, m)
         IN  /\ r \in Seq(S) /\ Len(r) = Len(q) + 1
             /\ \A j \in 1..Len(r) :
                  r[j] = IF j < k THEN q[j] ELSE IF j = k THEN m ELSE q[j - 1]
<1> DEFINE a == SubSeq(q, 1, k - 1)
           b == SubSeq(q, k, Len(q))
<1>0. Len(q) \in Nat /\ k \in Nat
  BY LenProperties
<1>1. /\ a \in Seq(S) /\ Len(a) = k - 1
      /\ \A i \in 1..(k - 1) : a[i] = q[i]
  <2>1. \A i \in 1..(k - 1) : q[i] \in S
    BY <1>0, ElementOfSeq
  <2>2. /\ a \in Seq(S) /\ Len(a) = IF 1 <= k - 1 THEN (k - 1) - 1 + 1 ELSE 0
        /\ \A i \in 1..((k - 1) - 1 + 1) : a[i] = q[1 + i - 1]
    BY <1>0, <2>1, SubSeqProperties
  <2> QED
    BY <1>0, <2>2
<1>2. /\ b \in Seq(S) /\ Len(b) = Len(q) - k + 1
      /\ \A i \in 1..(Len(q) - k + 1) : b[i] = q[k + i - 1]
  <2>1. \A i \in k..Len(q) : q[i] \in S
    BY <1>0, ElementOfSeq
  <2>2. /\ b \in Seq(S) /\ Len(b) = IF k <= Len(q) THEN Len(q) - k + 1 ELSE 0
        /\ \A i \in 1..(Len(q) - k + 1) : b[i] = q[k + i - 1]
    BY <1>0, <2>1, SubSeqProperties
  <2> QED
    BY <1>0, <2>2
<1> HIDE DEF a, b
<1>3. /\ a \o <<m>> \in Seq(S) /\ Len(a \o <<m>>) = k
      /\ \A i \in 1..k : (a \o <<m>>)[i] = IF i < k THEN q[i] ELSE m
  BY <1>0, <1>1
<1> DEFINE c == a \o <<m>>
           r == c \o b
<1> HIDE DEF c
<1>4. /\ c \in Seq(S) /\ Len(c) = k
      /\ \A i \in 1..k : c[i] = IF i < k THEN q[i] ELSE m
  BY <1>3 DEF c
<1>5. /\ r \in Seq(S) /\ Len(r) = Len(c) + Len(b)
      /\ \A i \in 1..(Len(c) + Len(b)) : r[i] = IF i <= Len(c) THEN c[i] ELSE b[i - Len(c)]
  BY <1>2, <1>4, ConcatProperties
<1> HIDE DEF r
<1>6. Len(r) = Len(q) + 1
  BY <1>0, <1>2, <1>4, <1>5
<1>7. ASSUME NEW j \in 1..Len(r)
      PROVE  r[j] = IF j < k THEN q[j] ELSE IF j = k THEN m ELSE q[j - 1]
  <2>1. CASE j <= k
    BY <1>0, <1>2, <1>4, <1>5, <1>6, <2>1
  <2>2. CASE j > k
    <3>1. r[j] = b[j - k] /\ j - k \in 1..(Len(q) - k + 1)
      BY <1>0, <1>2, <1>4, <1>5, <1>6, <2>2
    <3>2. b[j - k] = q[k + (j - k) - 1]
      BY <1>2, <3>1
    <3>3. k + (j - k) - 1 = j - 1
      BY <1>0, <1>6
    <3> QED
      BY <1>0, <1>6, <2>2, <3>1, <3>2, <3>3
  <2> QED
    BY <1>0, <1>6, <2>1, <2>2
<1>8. InsertAt(q, k, m) = r
  BY DEF InsertAt, a, b, c, r
<1> QED
  BY <1>5, <1>6, <1>7, <1>8

\* mq_send's insertion adds one message, loses none and keeps the list sorted,
\* when m was sent after all the others.
LEMMA InsertProperties ==
  ASSUME NEW q \in Seq(Msg), NEW m \in Msg, Sorted(q),
         \A i \in 1..Len(q) : q[i].seq < m.seq
  PROVE  LET r == Insert(q, m)
         IN  /\ r \in Seq(Msg) /\ Len(r) = Len(q) + 1
             /\ ToSet(r) = ToSet(q) \cup {m}
             /\ Sorted(r)
<1>0. Len(q) \in Nat /\ m.prio \in Nat /\ \A j \in 1..Len(q) : q[j].prio \in Nat
  <2>1. \A n \in Msg : n.prio \in Nat
    BY PriosAssumption DEF Msg
  <2> QED
    BY <2>1
<1>1. PICK k \in 1..(Len(q) + 1) :
        /\ Insert(q, m) = InsertAt(q, k, m)
        /\ \A j \in 1..Len(q) : j < k => q[j].prio >= m.prio
        /\ \A j \in 1..Len(q) : j >= k => q[j].prio < m.prio
  BY InsertPlace
<1> DEFINE r == Insert(q, m)
<1>2. /\ r \in Seq(Msg) /\ Len(r) = Len(q) + 1
      /\ \A j \in 1..Len(r) :
           r[j] = IF j < k THEN q[j] ELSE IF j = k THEN m ELSE q[j - 1]
  BY <1>1, InsertAtProperties
<1> HIDE DEF r
<1>3. ToSet(r) = ToSet(q) \cup {m}
  <2>0. DOMAIN r = 1..Len(r) /\ DOMAIN q = 1..Len(q)
    BY <1>2, LenProperties
  <2>1. ASSUME NEW j \in 1..Len(r) PROVE r[j] \in ToSet(q) \cup {m}
    <3>1. CASE j < k
      BY <1>0, <1>2, <2>0, <3>1 DEF ToSet
    <3>2. CASE j = k
      BY <1>0, <1>2, <3>2
    <3>3. CASE j > k
      <4>1. j - 1 \in 1..Len(q) /\ r[j] = q[j - 1]
        BY <1>0, <1>2, <3>3
      <4> QED
        BY <2>0, <4>1 DEF ToSet
    <3> QED
      BY <1>0, <1>2, <3>1, <3>2, <3>3
  <2>2. ASSUME NEW j \in 1..Len(q) PROVE \E i \in 1..Len(r) : r[i] = q[j]
    <3>1. CASE j < k
      <4>1. j \in 1..Len(r) /\ r[j] = q[j]
        BY <1>0, <1>2, <3>1
      <4> QED
        BY <4>1
    <3>2. CASE j >= k
      <4>1. j + 1 \in 1..Len(r) /\ ~(j + 1 < k) /\ j + 1 # k /\ (j + 1) - 1 = j
        BY <1>0, <1>2, <3>2
      <4>2. r[j + 1] = q[j]
        BY <1>2, <4>1
      <4> QED
        BY <4>1, <4>2
    <3> QED
      BY <1>0, <3>1, <3>2
  <2>3. k \in 1..Len(r) /\ r[k] = m
    BY <1>0, <1>2
  <2> QED
    BY <2>0, <2>1, <2>2, <2>3 DEF ToSet
<1>4. ASSUME NEW i \in 1..Len(r), NEW j \in 1..Len(r), i < j
      PROVE  Abstract!Before(r[i], r[j])
  <2>0. i \in Nat /\ j \in Nat /\ k \in Nat
    BY <1>0, <1>2
  <2>1. CASE j < k
    BY <1>0, <1>2, <1>4, <2>0, <2>1 DEF Sorted
  <2>2. CASE j = k
    <3>1. i \in 1..Len(q) /\ r[i] = q[i] /\ r[j] = m
      BY <1>0, <1>2, <1>4, <2>0, <2>2
    <3>2. q[i].prio >= m.prio /\ q[i].seq < m.seq
      BY <1>1, <1>4, <2>2, <3>1
    <3> QED
      BY <1>0, <3>1, <3>2 DEF Abstract!Before
  <2>3. CASE j > k
    <3>1. j - 1 \in 1..Len(q) /\ r[j] = q[j - 1] /\ j - 1 >= k
      BY <1>0, <1>2, <2>0, <2>3
    <3>2. CASE i < k
      <4>1. i \in 1..Len(q) /\ r[i] = q[i] /\ i < j - 1
        BY <1>0, <1>2, <2>0, <2>3, <3>2
      <4> QED
        BY <3>1, <4>1 DEF Sorted
    <3>3. CASE i = k
      <4>1. r[i] = m /\ q[j - 1].prio < m.prio
        BY <1>1, <1>2, <2>0, <3>1, <3>3
      <4> QED
        BY <1>0, <3>1, <4>1 DEF Abstract!Before
    <3>4. CASE i > k
      <4>1. i - 1 \in 1..Len(q) /\ r[i] = q[i - 1] /\ i - 1 < j - 1
        BY <1>0, <1>2, <1>4, <2>0, <3>4
      <4> QED
        BY <3>1, <4>1 DEF Sorted
    <3> QED
      BY <2>0, <3>2, <3>3, <3>4
  <2> QED
    BY <2>0, <2>1, <2>2, <2>3
<1> QED
  BY <1>2, <1>3, <1>4 DEF Sorted, r

\* mq_receive's removal of the head takes the message that goes before all others.
LEMMA TailProperties ==
  ASSUME NEW q \in Seq(Msg), q # <<>>, Sorted(q)
  PROVE  /\ Tail(q) \in Seq(Msg) /\ Len(Tail(q)) = Len(q) - 1
         /\ \A i \in 1..Len(Tail(q)) : Tail(q)[i] = q[i + 1] /\ i + 1 \in 1..Len(q)
         /\ Sorted(Tail(q))
         /\ Head(q) \in ToSet(q)
         /\ ToSet(Tail(q)) = ToSet(q) \ {Head(q)}
         /\ \A n \in ToSet(q) \ {Head(q)} : Abstract!Before(Head(q), n)
<1> DEFINE r == Tail(q)
<1>0. Len(q) \in Nat \ {0} /\ DOMAIN q = 1..Len(q) /\ Head(q) = q[1]
  BY LenProperties, EmptySeq
<1>1. /\ r \in Seq(Msg) /\ Len(r) = Len(q) - 1
      /\ \A i \in 1..Len(r) : r[i] = q[i + 1]
  BY HeadTailProperties
<1> HIDE DEF r
<1>2. \A i \in 1..Len(r) : i + 1 \in 1..Len(q)
  BY <1>0, <1>1
<1>3. Sorted(r)
  BY <1>0, <1>1, <1>2 DEF Sorted
<1>4. DOMAIN r = 1..Len(r)
  BY <1>1, LenProperties
<1>5. ASSUME NEW i \in 1..Len(q), i # 1
      PROVE  /\ Abstract!Before(q[1], q[i]) /\ q[i] # q[1]
             /\ i - 1 \in 1..Len(r) /\ r[i - 1] = q[i]
  <2>1. Abstract!Before(q[1], q[i])
    BY <1>0, <1>5 DEF Sorted
  <2>2. q[1] \in Msg /\ q[1].prio \in Nat /\ q[1].seq \in Nat
    <3>1. \A n \in Msg : n.prio \in Nat /\ n.seq \in Nat
      BY PriosAssumption DEF Msg
    <3> QED
      BY <1>0, <3>1, ElementOfSeq
  <2>3. q[i] # q[1]
    BY <2>1, <2>2 DEF Abstract!Before
  <2>4. i - 1 \in 1..Len(r) /\ (i - 1) + 1 = i
    BY <1>0, <1>1, <1>5
  <2>5. r[i - 1] = q[i]
    BY <1>1, <2>4
  <2> QED
    BY <2>1, <2>3, <2>4, <2>5
<1>6. Head(q) \in ToSet(q)
  BY <1>0 DEF ToSet
<1>7. \A n \in ToSet(q) \ {Head(q)} : Abstract!Before(Head(q), n) /\ n \in ToSet(r)
  BY <1>0, <1>4, <1>5 DEF ToSet
<1>8. \A i \in 1..Len(r) : r[i] \in ToSet(q) \ {Head(q)}
  <2> SUFFICES ASSUME NEW i \in 1..Len(r) PROVE r[i] \in ToSet(q) \ {Head(q)}
    OBVIOUS
  <2>1. i + 1 \in 1..Len(q) /\ i + 1 # 1 /\ r[i] = q[i + 1]
    BY <1>0, <1>1, <1>2
  <2> QED
    BY <1>0, <1>5, <2>1 DEF ToSet
<1>9. ToSet(r) = ToSet(q) \ {Head(q)}
  BY <1>4, <1>7, <1>8 DEF ToSet
<1> QED
  BY <1>1, <1>2, <1>3, <1>6, <1>7, <1>9 DEF r

\* The box the list stands for holds no more than the list.
LEMMA BoxSize ==
  ASSUME NEW q \in Seq(Msg)
  PROVE  IsFiniteSet(ToSet(q)) /\ Abstract!Cardinality(ToSet(q)) <= Len(q)
         /\ Abstract!Cardinality(ToSet(q)) \in Nat
<1>1. Len(q) \in Nat /\ DOMAIN q = 1..Len(q)
  BY LenProperties
<1>2. IsFiniteSet(1..Len(q)) /\ Cardinality(1..Len(q)) = Len(q)
  <2>1. IsFiniteSet(1..Len(q))
        /\ Cardinality(1..Len(q)) = IF 1 > Len(q) THEN 0 ELSE Len(q) - 1 + 1
    BY <1>1, FS_Interval
  <2> QED
    BY <1>1, <2>1
<1>3. q \in Surjection(1..Len(q), ToSet(q))
  BY <1>1 DEF Surjection, ToSet
<1>4. IsFiniteSet(ToSet(q)) /\ Cardinality(ToSet(q)) <= Cardinality(1..Len(q))
  BY <1>2, <1>3, FS_Surjection
<1>5. Abstract!Cardinality(ToSet(q)) = Cardinality(ToSet(q))
  BY DEF Abstract!Cardinality, Cardinality
<1> QED
  BY <1>2, <1>4, <1>5, FS_CardinalityType

-----------------------------------------------------------------------------
(* Senders and receivers. *)

MqTypes ==
  /\ queue \in Seq(Msg)
  /\ sent \in Nat
  /\ DOMAIN pc = Threads /\ DOMAIN op = Threads
  /\ prio \in [Threads -> Prios \cup {LowPrio}]
  /\ \A t \in Threads : op[t] \in Sends => prio[t] \in Prios

\* The list is sorted, older messages of a priority first, and as long as
\* mq_curmsgs says.
MqList ==
  /\ curmsgs = Len(queue) /\ Len(queue) <= MaxMsg
  /\ Sorted(queue)
  /\ \A i \in 1..Len(queue) : queue[i].seq < sent

MqInv == MqTypes /\ MqList /\ NoLostWakeup

\* mq_open makes an empty queue that nobody waits for.
LEMMA MqInit == Init => MqInv
<1> SUFFICES ASSUME Init PROVE MqInv
  OBVIOUS
<1>1. MqTypes
  BY DEF Init, MqTypes, Sends
<1>2. MqList
  BY BoundsAssumption DEF Init, MqList, Sorted
<1>3. NoLostWakeup
  BY DEF Init, NoLostWakeup, Waiting
<1> QED
  BY <1>1, <1>2, <1>3 DEF MqInv

\* The section of mq_send that finds room.
LEMMA SendStep ==
  ASSUME MqInv, NEW t \in Threads, Send(t)
  PROVE  MqInv' /\ [Abstract!Next]_(Abstract!vars)
<1> DEFINE m == [prio |-> prio[t], seq |-> sent]
<1>0. m \in Msg /\ m.seq = sent /\ prio[t] \in Prios
  BY DEF MqInv, MqTypes, Send, Msg
<1> HIDE DEF m
<1>1. queue' = Insert(queue, m)
  BY DEF Send, m
<1>2. queue \in Seq(Msg) /\ Sorted(queue) /\ \A i \in 1..Len(queue) : queue[i].seq < m.seq
  BY <1>0 DEF MqInv, MqTypes, MqList
<1>3. /\ queue' \in Seq(Msg) /\ Len(queue') = Len(queue) + 1
      /\ ToSet(queue') = ToSet(queue) \cup {m}
      /\ Sorted(queue')
  BY <1>0, <1>1, <1>2, InsertProperties
<1>4. MqTypes'
  BY <1>3 DEF MqInv, MqTypes, Send, Broadcast, Return, Sends
<1>5. MqList'
  <2>1. ASSUME NEW i \in 1..Len(queue') PROVE queue'[i].seq < sent'
    <3>1. DOMAIN queue' = 1..Len(queue') /\ DOMAIN queue = 1..Len(queue)
      BY <1>2, <1>3, LenProperties
    <3>2. queue'[i] \in ToSet(queue) \cup {m}
      BY <1>3, <3>1 DEF ToSet
    <3>3. \A n \in ToSet(queue) \cup {m} : n.seq \in Nat /\ n.seq <= sent
      <4>1. \A n \in Msg : n.seq \in Nat
        BY DEF Msg
      <4>2. \A j \in 1..Len(queue) : queue[j] \in Msg /\ queue[j].seq < sent
        BY <1>0, <1>2, ElementOfSeq
      <4> QED
        BY <1>0, <3>1, <4>1, <4>2 DEF ToSet, MqInv, MqTypes
    <3> QED
      BY <3>2, <3>3 DEF Send, MqInv, MqTypes
  <2>2. curmsgs' = Len(queue') /\ Len(queue') <= MaxMsg
    BY <1>2, <1>3, BoundsAssumption, LenProperties DEF MqInv, MqList, Send
  <2> QED
    BY <1>3, <2>1, <2>2 DEF MqList
<1>6. NoLostWakeup'
  BY DEF NoLostWakeup, Waiting, Send, Broadcast
<1>7. Abstract!Next
  <2>1. Abstract!Cardinality(ToSet(queue)) < MaxMsg
    <3>1. Len(queue) \in Nat /\ DOMAIN queue = 1..Len(queue) /\ Len(queue) < MaxMsg
      BY <1>2, LenProperties DEF MqInv, MqList, Send
    <3> QED
      BY <1>2, <3>1, BoxSize, BoundsAssumption
  <2> QED
    BY <1>0, <1>3, <2>1 DEF Abstract!Next, Abstract!Put, Send, m
<1> QED
  BY <1>4, <1>5, <1>6, <1>7 DEF MqInv

\* The section of mq_receive that finds a message and takes it.
LEMMA ReceiveStep ==
  ASSUME MqInv, NEW t \in Threads, Receive(t)
  PROVE  MqInv' /\ [Abstract!Next]_(Abstract!vars)
<1>1. queue \in Seq(Msg) /\ queue # <<>> /\ Sorted(queue) /\ queue' = Tail(queue)
  BY DEF MqInv, MqTypes, MqList, Receive
<1>2. /\ queue' \in Seq(Msg) /\ Len(queue') = Len(queue) - 1
      /\ \A i \in 1..Len(queue') : queue'[i] = queue[i + 1] /\ i + 1 \in 1..Len(queue)
      /\ Sorted(queue')
      /\ Head(queue) \in ToSet(queue)
      /\ ToSet(queue') = ToSet(queue) \ {Head(queue)}
      /\ \A n \in ToSet(queue) \ {Head(queue)} : Abstract!Before(Head(queue), n)
  BY <1>1, TailProperties
<1>3. MqTypes'
  BY <1>2 DEF MqInv, MqTypes, Receive, Broadcast, Return, Sends
<1>4. MqList'
  <2>1. Len(queue) \in Nat
    BY <1>1, LenProperties
  <2>2. curmsgs' = Len(queue') /\ Len(queue') <= MaxMsg
    BY <1>2, <2>1, BoundsAssumption DEF MqInv, MqList, Receive
  <2>3. \A i \in 1..Len(queue') : queue'[i].seq < sent'
    BY <1>2 DEF MqInv, MqList, Receive
  <2> QED
    BY <1>2, <2>2, <2>3 DEF MqList
<1>5. NoLostWakeup'
  BY DEF NoLostWakeup, Waiting, Receive, Broadcast
<1>6. Abstract!Next
  BY <1>2 DEF Abstract!Next, Abstract!Take, Receive
<1> QED
  BY <1>3, <1>4, <1>5, <1>6 DEF MqInv

\* Every other step leaves the list alone, and lets a thread wait only where the
\* list gives it a reason to.
LEMMA OtherSteps ==
  ASSUME MqInv, NEW t \in Threads,
         \/ Call(t) \/ SendFull(t) \/ ReceiveShort(t) \/ ReceiveEmpty(t)
         \/ Notify(t) \/ NotifyCopy(t) \/ NotifyFire(t)
         \/ WakeAlone(t) \/ Register(t) \/ SetAttr(t)
  PROVE  MqInv' /\ [Abstract!Next]_(Abstract!vars)
<1> USE DEF queuevars, notevars, Return, Deregister
<1>1. UNCHANGED <<queue, curmsgs, sent>>
  BY DEF Call, SendFull, ReceiveShort, ReceiveEmpty, Notify, NotifyCopy, NotifyFire,
         WakeAlone, Register, SetAttr
<1>2. MqList'
  BY <1>1 DEF MqInv, MqList, Sorted
<1>3. MqTypes'
  <2> USE DEF MqInv, MqTypes
  <2>1. CASE Call(t)
    BY <1>1, <2>1 DEF Call, Sends, Receives
  <2>2. CASE SendFull(t) \/ ReceiveShort(t) \/ ReceiveEmpty(t) \/ WakeAlone(t)
    BY <1>1, <2>2 DEF SendFull, ReceiveShort, ReceiveEmpty, WakeAlone, Sends
  <2>3. CASE Notify(t) \/ NotifyCopy(t) \/ NotifyFire(t) \/ Register(t) \/ SetAttr(t)
    BY <1>1, <2>3 DEF Notify, NotifyCopy, NotifyFire, Register, SetAttr
  <2> QED
    BY <2>1, <2>2, <2>3
<1>4. NoLostWakeup'
  <2> USE DEF MqInv, MqTypes, NoLostWakeup, Waiting
  <2>1. CASE Call(t)
    BY <1>1, <2>1 DEF Call
  <2>2. CASE SendFull(t)
    <3>1. Len(queue) = MaxMsg /\ op[t] \notin Receives
      BY <2>2, LenProperties, BoundsAssumption DEF SendFull, MqList, Sends, Receives
    <3> QED
      BY <1>1, <2>2, <3>1 DEF SendFull
  <2>3. CASE ReceiveShort(t) \/ ReceiveEmpty(t)
    BY <1>1, <2>3 DEF ReceiveShort, ReceiveEmpty
  <2>4. CASE WakeAlone(t)
    BY <1>1, <2>4 DEF WakeAlone
  <2>5. CASE Notify(t) \/ NotifyCopy(t) \/ NotifyFire(t) \/ Register(t) \/ SetAttr(t)
    BY <1>1, <2>5 DEF Notify, NotifyCopy, NotifyFire, Register, SetAttr
  <2> QED
    BY <2>1, <2>2, <2>3, <2>4, <2>5
<1> QED
  BY <1>1, <1>2, <1>3, <1>4 DEF MqInv, Abstract!vars

\* Every step keeps the invariant and is a step of the abstract queue, or none.
LEMMA MqNext ==
  ASSUME MqInv, [Next]_vars
  PROVE  MqInv' /\ [Abstract!Next]_(Abstract!vars)
<1>1. CASE UNCHANGED vars
  BY <1>1
  DEF vars, MqInv, MqTypes, MqList, Sorted, NoLostWakeup, Waiting, Abstract!vars
<1>2. ASSUME NEW t \in Threads,
             Call(t) \/ Steps(t) \/ WakeAlone(t) \/ Register(t) \/ SetAttr(t)
      PROVE  MqInv' /\ [Abstract!Next]_(Abstract!vars)
  BY <1>2, SendStep, ReceiveStep, OtherSteps DEF Steps
<1> QED
  BY <1>1, <1>2 DEF Next

\* The queue's list, its count and its waiters agree at every step of any number
\* of senders and receivers.
THEOREM MqInvariance == Spec => []MqInv
<1>1. MqInv /\ [Next]_vars => MqInv'
  BY MqNext
<1> QED
  BY <1>1, MqInit, PTL DEF Spec

\* One condition variable serves senders and receivers, and no broadcast is missed:
\* whoever waits in mq_send, mq_receive or their timed forms has a reason to.
THEOREM WaitersHaveReason == Spec => []NoLostWakeup
<1>1. MqInv => NoLostWakeup
  BY DEF MqInv
<1> QED
  BY <1>1, MqInvariance, PTL

\* mq_send and mq_receive on the sorted list implement the abstract queue: bounded
\* by mq_maxmsg, highest priority first, oldest first within a priority, every
\* message received once at most.
THEOREM MqueueImplements == Spec => ImplementsMqueueSpec
<1>1. Init => Abstract!Init
  BY DEF Init, Abstract!Init, ToSet
<1>2. MqInv /\ [Next]_vars => [Abstract!Next]_(Abstract!vars)
  BY MqNext
<1> QED
  BY <1>1, <1>2, MqInvariance, PTL DEF Spec, Abstract!Spec, ImplementsMqueueSpec

=============================================================================
