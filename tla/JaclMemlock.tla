---------------------------- MODULE JaclMemlock ----------------------------
(***************************************************************************)
(* The ticket lock of include/core/memory.h that guards the bins of the    *)
(* allocator: two counters of one width, the next ticket and the ticket    *)
(* being served.  Both wrap around at Width (2^32 in the code), so a       *)
(* ticket number comes back while the lock is in use.                      *)
(*                                                                         *)
(* queue is a history variable: the threads in the order in which they     *)
(* took their tickets.                                                     *)
(***************************************************************************)
EXTENDS Naturals, FiniteSets, Sequences

CONSTANTS Threads, Width

\* More tickets than threads: nobody can take a ticket still in use.
ASSUME WidthAssumption ==
  IsFiniteSet(Threads) /\ Width \in Nat /\ Cardinality(Threads) < Width

VARIABLES next, owner,      \* the fields of the lock
          pc, ticket, queue

vars == <<next, owner, pc, ticket, queue>>

\* __jacl_memlock_blank; the counters may have run before.
Init ==
  /\ next \in 0..(Width - 1)
  /\ owner = next
  /\ pc = [t \in Threads |-> "idle"]
  /\ ticket = [t \in Threads |-> 0]
  /\ queue = <<>>

Inc(n) == IF n = Width - 1 THEN 0 ELSE n + 1

\* __jacl_memlock_acquire: the ticket.
Take(t) ==
  /\ pc[t] = "idle"
  /\ pc' = [pc EXCEPT ![t] = "spin"]
  /\ ticket' = [ticket EXCEPT ![t] = next]
  /\ next' = Inc(next)
  /\ queue' = Append(queue, t)
  /\ UNCHANGED owner

\* Mutant: a ticket below the one being served is let in too.
MutEnter(t) ==
  /\ pc[t] = "spin"
  /\ ticket[t] <= owner
  /\ pc' = [pc EXCEPT ![t] = "in"]
  /\ UNCHANGED <<next, owner, ticket, queue>>

\* Mutant: the counter served is a bit narrower than the ticket, so the last
\* ticket before the wrap-around is never seen served.
MutEnterNarrow(t) ==
  /\ pc[t] = "spin"
  /\ IF owner = ticket[t] /\ ticket[t] < Width - 1
     THEN pc' = [pc EXCEPT ![t] = "in"] /\ UNCHANGED <<next, owner, ticket, queue>>
     ELSE UNCHANGED vars

\* The loop that waits for it, left.
Enter(t) ==
  /\ pc[t] = "spin"
  /\ owner = ticket[t]
  /\ pc' = [pc EXCEPT ![t] = "in"]
  /\ UNCHANGED <<next, owner, ticket, queue>>

\* __jacl_memlock_release
Release(t) ==
  /\ pc[t] = "in"
  /\ pc' = [pc EXCEPT ![t] = "idle"]
  /\ owner' = Inc(owner)
  /\ queue' = Tail(queue)
  /\ UNCHANGED <<next, ticket>>

Next == \E t \in Threads : Take(t) \/ Enter(t) \/ Release(t)

Spec == Init /\ [][Next]_vars

\* A thread that spins runs, and a thread that has the lock releases it.
FairSpec == Spec /\ \A t \in Threads : WF_vars(Enter(t) \/ Release(t))

-----------------------------------------------------------------------------
TypeOK ==
  /\ next \in 0..(Width - 1) /\ owner \in 0..(Width - 1)
  /\ pc \in [Threads -> {"idle", "spin", "in"}]
  /\ ticket \in [Threads -> 0..(Width - 1)]

\* One thread at most is between acquire and release, wrap-around included.
Exclusion == \A t, u \in Threads : pc[t] = "in" /\ pc[u] = "in" => t = u

\* The lock is given in the order in which acquire was called.
FirstComeFirstServed ==
  \A t \in Threads : pc[t] = "in" => queue # <<>> /\ Head(queue) = t

\* Whoever takes a ticket is served.
EveryoneServed == \A t \in Threads : (pc[t] = "spin") ~> (pc[t] = "in")

=============================================================================
