------------------------------- MODULE Mqueue -------------------------------
(***************************************************************************)
(* The data path of include/mqueue.h: the threads of a process send to and *)
(* receive from one open queue, with and without a deadline, change its    *)
(* O_NONBLOCK flag and register for notification.  MqueueRegistry has the  *)
(* other half of the file, how queues and descriptors come and go.         *)
(*                                                                         *)
(* A section under mq->lock is one step: PthreadMutex implements MutexSpec *)
(* and PthreadCond shows that pthread_cond_wait gives the lock up and      *)
(* starts to wait without a gap that a broadcast could fall into.  The     *)
(* notification fields are also touched outside that lock, so those steps  *)
(* are separate.  Messages carry the order they were sent in as a ghost.   *)
(***************************************************************************)
EXTENDS Naturals, FiniteSets, SequencesExt

CONSTANTS Threads,
          Prios,      \* the priorities messages are sent with
          MaxMsg,     \* attr.mq_maxmsg
          MaxSends,   \* bound on the messages sent in a behaviour
          MaxRegs     \* bound on the registrations in a behaviour

ASSUME PriosAssumption == Prios \subseteq Nat
ASSUME BoundsAssumption ==
  /\ MaxMsg \in Nat \ {0}
  /\ MaxSends \in Nat
  /\ MaxRegs \in Nat

VARIABLES
  queue,              \* the list at mq->head
  curmsgs,            \* mq->attr.mq_curmsgs
  nonblock,           \* O_NONBLOCK in mq->attr.mq_flags
  reg,                \* the registration in __jacl_mq_notify, 0 for none
  pc,                 \* where each thread is in its call
  op,                 \* the send or receive each thread is in
  prio,               \* the priority each sender sends with
  copied,             \* do_notify: the registration a thread copied
  sent,               \* ghost: messages sent so far
  regs,               \* ghost: registrations made so far
  fired               \* ghost: how often each registration was notified

queuevars == <<queue, curmsgs, nonblock, sent>>
notevars == <<reg, regs, fired>>
vars == <<queue, curmsgs, nonblock, sent, reg, regs, fired, pc, op, prio, copied>>

Sends == {"mq_send", "mq_timedsend"}
Receives == {"mq_receive", "mq_timedreceive"}
Timed == {"mq_timedsend", "mq_timedreceive"}
LowPrio == CHOOSE p \in Prios : \A q \in Prios : p <= q

-----------------------------------------------------------------------------
\* A queue just created, with or without O_NONBLOCK.
Init ==
  /\ queue = <<>>
  /\ curmsgs = 0
  /\ nonblock \in BOOLEAN
  /\ reg = 0
  /\ pc = [t \in Threads |-> "idle"]
  /\ op = [t \in Threads |-> "none"]
  /\ prio = [t \in Threads |-> LowPrio]
  /\ copied = [t \in Threads |-> 0]
  /\ sent = 0
  /\ regs = 0
  /\ fired = [r \in 1..MaxRegs |-> 0]

\* The threads waiting on mq->cond.
Waiting == {t \in Threads : pc[t] = "wait"}

\* The call of t returns; what it held in locals is gone.
Return(t) ==
  /\ op' = [op EXCEPT ![t] = "none"]
  /\ prio' = [prio EXCEPT ![t] = LowPrio]

\* pc after t, moving on to label, broadcasts mq->cond.
Broadcast(t, label) ==
  pc' = [u \in Threads |-> IF u = t THEN label
                           ELSE IF u \in Waiting THEN "again" ELSE pc[u]]

\* A call passes its checks and is about to take mq->lock.
Call(t) ==
  /\ pc[t] = "idle"
  /\ \/ /\ sent + Cardinality({u \in Threads : op[u] \in Sends}) < MaxSends
        /\ \E o \in Sends : op' = [op EXCEPT ![t] = o]
        /\ \E p \in Prios : prio' = [prio EXCEPT ![t] = p]
     \/ \E o \in Receives : op' = [op EXCEPT ![t] = o] /\ UNCHANGED prio
  /\ pc' = [pc EXCEPT ![t] = "enter"]
  /\ UNCHANGED <<queuevars, notevars, copied>>

\* Mutant: the walk stops at a message of the same priority.
MutInsert(q, m) ==
  LET i == SelectInSeq(q, LAMBDA n : n.prio <= m.prio)
  IN  InsertAt(q, IF i = 0 THEN Len(q) + 1 ELSE i, m)

\* The walk from mq->head past every message of the same or a higher priority.
Insert(q, m) ==
  LET i == SelectInSeq(q, LAMBDA n : n.prio < m.prio)
  IN  InsertAt(q, IF i = 0 THEN Len(q) + 1 ELSE i, m)

\* Mutant: the sender wakes waiters only when the queue was empty.
MutSend(t) ==
  /\ pc[t] \in {"enter", "again"} /\ op[t] \in Sends
  /\ curmsgs < MaxMsg
  /\ queue' = Insert(queue, [prio |-> prio[t], seq |-> sent])
  /\ curmsgs' = curmsgs + 1
  /\ sent' = sent + 1
  /\ LET label == IF curmsgs' = 1 THEN "note" ELSE "idle"
     IN  \/ Waiting = {} /\ pc' = [pc EXCEPT ![t] = label]
         \/ \E u \in Waiting : pc' = [pc EXCEPT ![t] = label, ![u] = "again"]
  /\ Return(t)
  /\ UNCHANGED <<nonblock, notevars, copied>>

\* The section of mq_send and mq_timedsend that finds room: insert, count,
\* broadcast, unlock; the sender that made the queue non-empty goes on to
\* __jacl_mq_do_notify.
Send(t) ==
  /\ pc[t] \in {"enter", "again"} /\ op[t] \in Sends
  /\ curmsgs < MaxMsg
  /\ queue' = Insert(queue, [prio |-> prio[t], seq |-> sent])
  /\ curmsgs' = curmsgs + 1
  /\ sent' = sent + 1
  /\ Broadcast(t, IF curmsgs' = 1 THEN "note" ELSE "idle")
  /\ Return(t)
  /\ UNCHANGED <<nonblock, notevars, copied>>

\* It finds none: EAGAIN for mq_send on an O_NONBLOCK queue, which
\* mq_timedsend does not look at; otherwise wait.
SendFull(t) ==
  /\ pc[t] \in {"enter", "again"} /\ op[t] \in Sends
  /\ curmsgs >= MaxMsg
  /\ IF nonblock /\ op[t] \notin Timed
     THEN pc' = [pc EXCEPT ![t] = "idle"] /\ Return(t)
     ELSE pc' = [pc EXCEPT ![t] = "wait"] /\ UNCHANGED <<op, prio>>
  /\ UNCHANGED <<queuevars, notevars, copied>>

\* The first section of a receive drops the registration, whether or not
\* there is a message; a retry after a wait does not.
Deregister(t) ==
  /\ reg' = IF pc[t] = "enter" THEN 0 ELSE reg
  /\ UNCHANGED <<regs, fired>>

\* Mutant: the count is left alone when a message is taken.
MutReceive(t) ==
  /\ pc[t] \in {"enter", "again"} /\ op[t] \in Receives
  /\ queue # <<>>
  /\ Deregister(t)
  /\ queue' = Tail(queue)
  /\ Broadcast(t, "idle")
  /\ Return(t)
  /\ UNCHANGED <<curmsgs, nonblock, sent, copied>>

\* mq_receive and mq_timedreceive with a message there: take the head.
Receive(t) ==
  /\ pc[t] \in {"enter", "again"} /\ op[t] \in Receives
  /\ queue # <<>>
  /\ Deregister(t)
  /\ queue' = Tail(queue)
  /\ curmsgs' = curmsgs - 1
  /\ Broadcast(t, "idle")
  /\ Return(t)
  /\ UNCHANGED <<nonblock, sent, copied>>

\* The caller's buffer is too small for the head: EMSGSIZE, and it stays.
ReceiveShort(t) ==
  /\ pc[t] \in {"enter", "again"} /\ op[t] \in Receives
  /\ queue # <<>>
  /\ Deregister(t)
  /\ pc' = [pc EXCEPT ![t] = "idle"]
  /\ Return(t)
  /\ UNCHANGED <<queuevars, copied>>

ReceiveEmpty(t) ==
  /\ pc[t] \in {"enter", "again"} /\ op[t] \in Receives
  /\ queue = <<>>
  /\ Deregister(t)
  /\ IF nonblock /\ op[t] \notin Timed
     THEN pc' = [pc EXCEPT ![t] = "idle"] /\ Return(t)
     ELSE pc' = [pc EXCEPT ![t] = "wait"] /\ UNCHANGED <<op, prio>>
  /\ UNCHANGED <<queuevars, copied>>

\* pthread_cond_wait returns without a broadcast, or the deadline passes:
\* pthread_cond_timedwait returns ETIMEDOUT, and so does the call, without
\* looking at the queue again.
WakeAlone(t) ==
  /\ \/ pc[t] = "wait" /\ pc' = [pc EXCEPT ![t] = "again"] /\ UNCHANGED <<op, prio>>
     \/ /\ pc[t] \in {"wait", "again"} /\ op[t] \in Timed
        /\ pc' = [pc EXCEPT ![t] = "idle"]
        /\ Return(t)
  /\ UNCHANGED <<queuevars, notevars, copied>>

\* __jacl_mq_do_notify, without a lock: the test,
Notify(t) ==
  /\ pc[t] = "note"
  /\ pc' = [pc EXCEPT ![t] = IF reg = 0 THEN "idle" ELSE "copy"]
  /\ UNCHANGED <<queuevars, notevars, op, prio, copied>>

\* the copy of sev and notify_pid,
NotifyCopy(t) ==
  /\ pc[t] = "copy"
  /\ copied' = [copied EXCEPT ![t] = reg]
  /\ pc' = [pc EXCEPT ![t] = "clear"]
  /\ UNCHANGED <<queuevars, notevars, op, prio>>

\* and the deregistration and delivery (nobody's registration: a copy of the
\* fields another thread had already cleared).
NotifyFire(t) ==
  /\ pc[t] = "clear"
  /\ reg' = 0
  /\ fired' = [r \in DOMAIN fired |-> IF r = copied[t] THEN fired[r] + 1 ELSE fired[r]]
  /\ copied' = [copied EXCEPT ![t] = 0]
  /\ pc' = [pc EXCEPT ![t] = "idle"]
  /\ UNCHANGED <<queuevars, regs, op, prio>>

\* mq_notify, under the global lock, which none of the above takes: register
\* (EBUSY when somebody is, which changes nothing) or deregister, which
\* mq_close of a descriptor of the queue does too.
Register(t) ==
  /\ pc[t] = "idle"
  /\ \/ /\ reg = 0 /\ regs < MaxRegs
        /\ reg' = regs + 1
        /\ regs' = regs + 1
     \/ reg # 0 /\ reg' = 0 /\ UNCHANGED regs
  /\ UNCHANGED <<queuevars, fired, pc, op, prio, copied>>

\* mq_setattr, and mq_open of the same queue with O_NONBLOCK.
SetAttr(t) ==
  /\ pc[t] = "idle"
  /\ nonblock' \in BOOLEAN
  /\ UNCHANGED <<queue, curmsgs, sent, notevars, pc, op, prio, copied>>

\* What a running thread does by itself inside a call.
Steps(t) ==
  \/ Send(t) \/ SendFull(t) \/ Receive(t) \/ ReceiveShort(t) \/ ReceiveEmpty(t)
  \/ Notify(t) \/ NotifyCopy(t) \/ NotifyFire(t)

Next ==
  \E t \in Threads :
    Call(t) \/ Steps(t) \/ WakeAlone(t) \/ Register(t) \/ SetAttr(t)

Spec == Init /\ [][Next]_vars

-----------------------------------------------------------------------------
TypeOK ==
  /\ queue \in Seq([prio : Prios, seq : Nat])
  /\ curmsgs = Len(queue) /\ curmsgs <= MaxMsg
  /\ nonblock \in BOOLEAN
  /\ reg \in 0..MaxRegs /\ regs \in 0..MaxRegs /\ sent \in 0..MaxSends
  /\ pc \in [Threads -> {"idle", "enter", "again", "wait", "note", "copy", "clear"}]
  /\ op \in [Threads -> Sends \cup Receives \cup {"none"}]
  /\ prio \in [Threads -> Prios]
  /\ copied \in [Threads -> 0..MaxRegs]
  /\ fired \in [1..MaxRegs -> Nat]

\* Senders and receivers wait on one condition variable, and nobody waits
\* there for something that has already happened: a waiting receiver means an
\* empty queue, a waiting sender a full one.
NoLostWakeup ==
  \A t \in Waiting :
    IF op[t] \in Receives THEN queue = <<>> ELSE Len(queue) = MaxMsg

\* The sorted list with its count is the abstract queue: a receiver takes the
\* oldest message of the highest priority, every message once, and the queue
\* never holds more than mq_maxmsg.
Abstract == INSTANCE MqueueSpec WITH box <- ToSet(queue)

\* Every behaviour of the senders and receivers is one of the abstract queue.
ImplementsMqueueSpec == Abstract!Spec

\* A registration is notified once at most, as __jacl_mq_do_notify's comment
\* says ("one-shot per empty-to-nonempty").
OneShot == \A r \in 1..MaxRegs : fired[r] <= 1

=============================================================================
