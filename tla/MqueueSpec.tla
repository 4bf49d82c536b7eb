----------------------------- MODULE MqueueSpec -----------------------------
(***************************************************************************)
(* What a POSIX message queue promises, without lists, locks or waiting: a *)
(* bounded box of messages from which a receiver takes the one of highest  *)
(* priority and, among those, the one that was sent first.                 *)
(***************************************************************************)
EXTENDS Naturals, FiniteSets

CONSTANTS Prios,      \* message priorities
          MaxMsg      \* attr.mq_maxmsg

VARIABLES
  box,                \* the messages sent and not received yet
  sent                \* how many messages were sent; stamps the next one

vars == <<box, sent>>

Init == box = {} /\ sent = 0

\* m leaves the queue before n.
Before(m, n) == m.prio > n.prio \/ (m.prio = n.prio /\ m.seq < n.seq)

Put ==
  /\ Cardinality(box) < MaxMsg
  /\ \E p \in Prios : box' = box \cup {[prio |-> p, seq |-> sent]}
  /\ sent' = sent + 1

Take ==
  /\ \E m \in box :
       /\ \A n \in box \ {m} : Before(m, n)
       /\ box' = box \ {m}
  /\ UNCHANGED sent

Next == Put \/ Take

Spec == Init /\ [][Next]_vars

=============================================================================
