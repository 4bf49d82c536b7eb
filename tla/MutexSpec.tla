----------------------------- MODULE MutexSpec -----------------------------
(***************************************************************************)
(* What a pthread mutex promises its callers, without futex words, owner   *)
(* fields or wake-ups: at any time one thread at most is inside, and it is *)
(* inside as many times as its successful lock calls exceed its unlocks.   *)
(* PthreadMutex implements this specification; PthreadCond and the modules *)
(* of the message queues and semaphores use the lock at this level.        *)
(***************************************************************************)
EXTENDS Naturals

CONSTANT Threads

VARIABLE depth      \* depth[t]: nested acquisitions thread t holds

Init == depth = [t \in Threads |-> 0]

\* A lock, trylock or timedlock call returns 0.
Acquire(t) ==
  /\ \A u \in Threads \ {t} : depth[u] = 0
  /\ depth' = [depth EXCEPT ![t] = @ + 1]

\* An unlock call begins.
Release(t) ==
  /\ depth[t] > 0
  /\ depth' = [depth EXCEPT ![t] = @ - 1]

Next == \E t \in Threads : Acquire(t) \/ Release(t)

Spec == Init /\ [][Next]_depth

=============================================================================
