------------------------------- MODULE SysvMsg -------------------------------
(***************************************************************************)
(* The System V message queues of include/sys/msg.h: a table of queues,    *)
(* each a singly linked list with a tail pointer and a count of bytes.     *)
(* The code takes no lock, so the calls are those of one thread.           *)
(***************************************************************************)
EXTENDS Naturals, Integers, Sequences, FiniteSetsExt

CONSTANTS Queues,     \* 1..JACL_MSQ_MAX_QUEUES
          Keys, Private,
          Nodes,      \* the blocks malloc may give out
          Nil,
          Types,      \* message types
          Sizes,      \* message and buffer sizes
          QBytes,     \* the values of msg_qbytes; the default is their maximum
          MaxCalls    \* bound on the calls in a behaviour

VARIABLES
  reg,                \* __jacl_msq_registry
  next_id,            \* __jacl_msq_next_id
  node,               \* the nodes that are allocated: mtype, len, next
  sent,               \* ghost: the list of what is queued, by queue
  calls               \* ghost: calls made

vars == <<reg, next_id, node, sent, calls>>

Default == Max(QBytes)
NoQueue == [active |-> FALSE, id |-> 0, key |-> Private, head |-> Nil, tail |-> Nil,
            bytes |-> 0, qnum |-> 0, qbytes |-> Default]

Init ==
  /\ reg = [q \in Queues |-> NoQueue] /\ next_id = 1
  /\ node = [n \in {} |-> Nil]
  /\ sent = [q \in Queues |-> <<>>]
  /\ calls = 0

Begin == calls < MaxCalls /\ calls' = calls + 1

\* msgget: EEXIST or the queue of that key, ENOENT, ENOSPC, or a new queue.
MsgGet ==
  /\ Begin
  /\ \E key \in Keys \cup {Private}, creat \in BOOLEAN :
       LET found == key # Private /\ \E q \in Queues : reg[q].active /\ reg[q].key = key
           free == {q \in Queues : ~reg[q].active}
       IN  IF found \/ ~creat \/ free = {} THEN UNCHANGED <<reg, next_id, sent>>
           ELSE /\ reg' = [reg EXCEPT ![Min(free)] =
                     [NoQueue EXCEPT !.active = TRUE, !.id = next_id, !.key = key]]
                /\ next_id' = next_id + 1
                /\ sent' = [sent EXCEPT ![Min(free)] = <<>>]
  /\ UNCHANGED node

\* Mutant: the tail is not moved to the new node.
MutSendTail(r, n) == IF r.tail = Nil THEN n ELSE r.tail

\* The tail after n was appended.
SendTail(r, n) == n

\* msgsnd: EINVAL, EAGAIN when the bytes would exceed msg_qbytes, ENOMEM, or
\* a node at the tail.
MsgSnd ==
  /\ Begin
  /\ \E q \in Queues, t \in Types, len \in Sizes :
       LET r == reg[q]
           n == Min(Nodes \ DOMAIN node)
       IN  /\ r.active /\ DOMAIN node # Nodes /\ r.bytes + len <= r.qbytes
           /\ node' = [m \in DOMAIN node \cup {n} |->
                         IF m = n THEN [mtype |-> t, len |-> len, next |-> Nil]
                         ELSE IF m = r.tail THEN [node[m] EXCEPT !.next = n] ELSE node[m]]
           /\ reg' = [reg EXCEPT ![q] = [@ EXCEPT
                        !.head = IF r.tail = Nil THEN n ELSE @, !.tail = SendTail(r, n),
                        !.bytes = @ + len, !.qnum = @ + 1]]
           /\ sent' = [sent EXCEPT ![q] = Append(@, n)]
  /\ UNCHANGED next_id

\* The list from node n on.
Chain(n) ==
  LET walk[k \in 0..Cardinality(Nodes), m \in Nodes \cup {Nil}] ==
        IF m = Nil \/ k = 0 THEN <<>> ELSE <<m>> \o walk[k - 1, node[m].next]
  IN  walk[Cardinality(Nodes), n]

\* The loop of msgrcv: the position in the list of the message it settles on,
\* 0 for none.  With a negative msgtyp it keeps the first of the lowest type.
Found(list, typ) ==
  LET Type(k) == node[list[k]].mtype
      hits == {k \in DOMAIN list : \/ typ = 0
                                   \/ typ > 0 /\ Type(k) = typ
                                   \/ typ < 0 /\ Type(k) <= -typ}
      best == IF typ >= 0 THEN hits ELSE {k \in hits : \A j \in hits : Type(k) <= Type(j)}
  IN  IF hits = {} THEN 0 ELSE Min(best)

\* Mutant: taking the last node of several out leaves the tail pointing to it.
MutReceiveTail(r, list, k) == IF Len(list) = 1 THEN Nil ELSE r.tail

\* The tail after the k-th node of the list was taken out.
ReceiveTail(r, list, k) ==
  IF r.tail # list[k] THEN r.tail ELSE IF k = 1 THEN Nil ELSE list[k - 1]

\* msgrcv: EINVAL, ENOMSG, E2BIG without MSG_NOERROR, or unlink the node and
\* free it.
MsgRcv ==
  /\ Begin
  /\ \E q \in Queues, typ \in {0} \cup Types \cup {-t : t \in Types}, room \in Sizes, cut \in BOOLEAN :
       LET r == reg[q]
           list == Chain(r.head)
           k == Found(list, typ)
           n == list[k]
       IN  /\ r.active /\ k # 0
           /\ node[n].len > room => cut
           /\ node' = [m \in DOMAIN node \ {n} |->
                         IF k > 1 /\ m = list[k - 1]
                         THEN [node[m] EXCEPT !.next = node[n].next] ELSE node[m]]
           /\ reg' = [reg EXCEPT ![q] = [@ EXCEPT
                        !.head = IF k = 1 THEN node[n].next ELSE @,
                        !.tail = ReceiveTail(r, list, k),
                        !.bytes = @ - node[n].len, !.qnum = @ - 1]]
           /\ sent' = [sent EXCEPT ![q] = SelectSeq(@, LAMBDA m : m # n)]
  /\ UNCHANGED next_id

\* msgctl: IPC_SET changes msg_qbytes, whatever is queued; IPC_RMID frees the
\* nodes.
MsgCtl ==
  /\ Begin
  /\ \E q \in Queues :
       /\ reg[q].active
       /\ \/ /\ \E b \in QBytes : reg' = [reg EXCEPT ![q].qbytes = b]
             /\ UNCHANGED <<node, sent>>
          \/ LET list == Chain(reg[q].head) IN
             /\ node' = [m \in DOMAIN node \ {list[k] : k \in DOMAIN list} |-> node[m]]
             /\ reg' = [reg EXCEPT ![q] = [@ EXCEPT !.active = FALSE, !.head = Nil,
                          !.tail = Nil, !.bytes = 0, !.qnum = 0]]
             /\ sent' = [sent EXCEPT ![q] = <<>>]
  /\ UNCHANGED next_id

Next == MsgGet \/ MsgSnd \/ MsgRcv \/ MsgCtl
Spec == Init /\ [][Next]_vars

-----------------------------------------------------------------------------
\* The list of each queue holds what was sent and not yet received, in that
\* order, and ends at the tail; bytes and msg_qnum count it; every allocated
\* node is in one list, so none is freed twice or lost, whichever message of
\* a list is taken out.
ListsSound ==
  /\ \A q \in Queues :
       /\ Chain(reg[q].head) = sent[q]
       /\ reg[q].tail = IF sent[q] = <<>> THEN Nil ELSE sent[q][Len(sent[q])]
       /\ reg[q].qnum = Len(sent[q])
       /\ reg[q].bytes = MapThenSumSet(LAMBDA k : node[sent[q][k]].len, DOMAIN sent[q])
  /\ DOMAIN node = UNION {{sent[q][k] : k \in DOMAIN sent[q]} : q \in Queues}

\* An identifier is never that of two queues, and a key leads to one queue.
OneQueuePerKey ==
  \A p, q \in Queues : (p # q /\ reg[p].active /\ reg[q].active) =>
    reg[p].id # reg[q].id /\ (reg[p].key = reg[q].key => reg[p].key = Private)
=============================================================================
