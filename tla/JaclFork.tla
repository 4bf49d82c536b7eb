------------------------------ MODULE JaclFork ------------------------------
(***************************************************************************)
(* fork of include/core/unistd.h against the allocator's locks.  Before    *)
(* the system call fork takes every ticket lock of core/memory.h, so that  *)
(* no malloc is half done in the memory the child gets a copy of; after it *)
(* the parent releases them, and so does the child in its own copy.  Of    *)
(* the child there is only the thread that called fork.                    *)
(*                                                                         *)
(* Locks are numbered in the order __jacl_memlock_block takes them: the    *)
(* bins, then growth, which malloc also takes while it holds a bin, to     *)
(* link a new segment.  Tickets wrap around at ForkWidth.                  *)
(***************************************************************************)
EXTENDS Naturals, FiniteSets

CONSTANTS Mallocs,      \* the parent's threads that call malloc
          Forker,       \* the parent's thread that calls fork
          Child,        \* the thread of the child process
          Bins,         \* the number of bins, JACL_CONCURENCY
          ForkWidth     \* the tickets of a lock

Growth == Bins + 1
Locks == 1..Growth
All == Mallocs \cup {Forker, Child}

\* At least as many tickets as the parent has threads.
ForkSetting ==
  /\ IsFiniteSet(Mallocs) /\ Forker \notin Mallocs
  /\ Child \notin Mallocs \cup {Forker}
  /\ Bins \in Nat
  /\ ForkWidth \in Nat /\ Cardinality(Mallocs) < ForkWidth

Process(t) == IF t = Child THEN "child" ELSE "parent"

VARIABLES
  f_next, f_owner,  \* of each process and lock
  f_pc,
  f_cur,            \* the lock a thread is taking or releasing
  f_ticket,         \* its ticket there
  f_bin             \* the bin its malloc holds, 0 if none

forkvars == <<f_next, f_owner, f_pc, f_cur, f_ticket, f_bin>>

ForkInit ==
  /\ f_next = [p \in {"parent", "child"} |-> [l \in Locks |-> 0]]
  /\ f_owner = f_next
  /\ f_pc = [t \in All |-> IF t = Child THEN "unborn" ELSE "idle"]
  /\ f_cur = [t \in All |-> 1]
  /\ f_ticket = [t \in All |-> 0]
  /\ f_bin = [t \in All |-> 0]

Goto(t, label) == f_pc' = [f_pc EXCEPT ![t] = label]

\* __jacl_memlock_acquire(l): the ticket, and the wait for it at label "spin".
Acquire(t, l) ==
  /\ f_cur' = [f_cur EXCEPT ![t] = l]
  /\ f_ticket' = [f_ticket EXCEPT ![t] = f_next[Process(t)][l]]
  /\ f_next' = [f_next EXCEPT ![Process(t)][l] = (@ + 1) % ForkWidth]
  /\ Goto(t, "spin")
  /\ UNCHANGED <<f_owner, f_bin>>

\* __jacl_memlock_release(l)
ReleaseLock(t, l) == f_owner' = [f_owner EXCEPT ![Process(t)][l] = (@ + 1) % ForkWidth]

-----------------------------------------------------------------------------
\* malloc takes the lock of its bin.
Malloc(t, b) ==
  /\ f_pc[t] = "idle" /\ b # Growth
  /\ Acquire(t, b)

\* The wait is over: a malloc that had no bin has one now, one that had is
\* linking its segment; fork goes on to the next lock.
GotLock(t) ==
  /\ f_pc[t] = "spin" /\ f_owner[Process(t)][f_cur[t]] = f_ticket[t]
  /\ f_bin' = [f_bin EXCEPT ![t] = IF @ = 0 /\ t # Forker THEN f_cur[t] ELSE @]
  /\ Goto(t, IF t = Forker THEN "block"
             ELSE IF f_cur[t] = Growth THEN "link" ELSE "alloc")
  /\ UNCHANGED <<f_next, f_owner, f_cur, f_ticket>>

\* Nothing free in the bins: __jacl_grow_heap, up to the growth lock.
Grow(t) == f_pc[t] = "alloc" /\ Acquire(t, Growth)

\* __jacl_segment_link is done.
Linked(t) ==
  /\ f_pc[t] = "link"
  /\ ReleaseLock(t, Growth)
  /\ Goto(t, "done")
  /\ UNCHANGED <<f_next, f_cur, f_ticket, f_bin>>

MallocReturns(t) ==
  /\ f_pc[t] \in {"alloc", "done"}
  /\ ReleaseLock(t, f_bin[t])
  /\ f_bin' = [f_bin EXCEPT ![t] = 0]
  /\ Goto(t, "idle")
  /\ UNCHANGED <<f_next, f_cur, f_ticket>>

-----------------------------------------------------------------------------
\* fork begins: __jacl_memlock_block.
Fork == f_pc[Forker] = "idle" /\ f_pc[Child] = "unborn" /\ Acquire(Forker, 1)

\* Mutant: the last bin and growth are not taken.
MutBlock ==
  /\ f_pc[Forker] = "block"
  /\ \/ f_cur[Forker] + 2 < Growth /\ Acquire(Forker, f_cur[Forker] + 1)
     \/ /\ f_cur[Forker] + 2 >= Growth
        /\ Goto(Forker, "fork")
        /\ UNCHANGED <<f_next, f_owner, f_cur, f_ticket, f_bin>>

Block ==
  /\ f_pc[Forker] = "block"
  /\ \/ f_cur[Forker] < Growth /\ Acquire(Forker, f_cur[Forker] + 1)
     \/ /\ f_cur[Forker] = Growth
        /\ Goto(Forker, "fork")
        /\ UNCHANGED <<f_next, f_owner, f_cur, f_ticket, f_bin>>

\* The system call: the child starts with a copy of the memory.
SysFork ==
  /\ f_pc[Forker] = "fork"
  /\ f_pc' = [f_pc EXCEPT ![Forker] = "clear", ![Child] = "clear"]
  /\ f_cur' = [f_cur EXCEPT ![Forker] = 1, ![Child] = 1]
  /\ f_next' = [f_next EXCEPT !["child"] = f_next["parent"]]
  /\ f_owner' = [f_owner EXCEPT !["child"] = f_owner["parent"]]
  /\ UNCHANGED <<f_ticket, f_bin>>

\* Mutant: the loop counter does not move.
MutClear(t) ==
  /\ t \in {Forker, Child} /\ f_pc[t] = "clear"
  /\ ReleaseLock(t, f_cur[t])
  /\ IF f_cur[t] < Growth
     THEN UNCHANGED <<f_cur, f_pc>>
     ELSE Goto(t, "idle") /\ UNCHANGED f_cur
  /\ UNCHANGED <<f_next, f_ticket, f_bin>>

\* __jacl_memlock_clear, in the parent and (from memlock_reset) in the child.
Clear(t) ==
  /\ t \in {Forker, Child} /\ f_pc[t] = "clear"
  /\ ReleaseLock(t, f_cur[t])
  /\ IF f_cur[t] < Growth
     THEN f_cur' = [f_cur EXCEPT ![t] = @ + 1] /\ UNCHANGED f_pc
     ELSE Goto(t, "idle") /\ UNCHANGED f_cur
  /\ UNCHANGED <<f_next, f_ticket, f_bin>>

-----------------------------------------------------------------------------
Steps(t) ==
  GotLock(t) \/ Linked(t) \/ MallocReturns(t) \/ Clear(t)

ForkNext ==
  \/ \E t \in Mallocs \cup {Child} : Grow(t) \/ \E b \in 1..Bins : Malloc(t, b)
  \/ \E t \in All : Steps(t)
  \/ Fork \/ Block \/ SysFork

ForkSpec == ForkInit /\ [][ForkNext]_forkvars

\* Threads run; nobody is obliged to call malloc, fork or to need a segment.
ForkFairSpec ==
  /\ ForkSpec
  /\ \A t \in All : WF_forkvars(Steps(t))
  /\ WF_forkvars(Block \/ SysFork)

-----------------------------------------------------------------------------
ForkTypeOK ==
  /\ f_next \in [{"parent", "child"} -> [Locks -> 0..(ForkWidth - 1)]]
  /\ f_owner \in [{"parent", "child"} -> [Locks -> 0..(ForkWidth - 1)]]
  /\ f_pc \in [All -> {"idle", "spin", "alloc", "link", "done", "block", "fork",
                     "clear", "unborn"}]
  /\ f_cur \in [All -> Locks]
  /\ f_ticket \in [All -> 0..(ForkWidth - 1)]
  /\ f_bin \in [All -> 0..Bins]

\* When the memory is copied nobody is inside malloc: the child's heap is one
\* that no allocation is in the middle of changing.
SnapshotConsistent ==
  f_pc[Forker] = "fork" => \A t \in Mallocs : f_bin[t] = 0 /\ f_pc[t] \in {"idle", "spin"}

\* Every malloc and every fork of the parent comes to its end: taking all the
\* locks does not deadlock with a malloc that takes two of them.
ParentProceeds ==
  \A t \in Mallocs \cup {Forker} : (f_pc[t] # "idle") ~> (f_pc[t] = "idle")

\* malloc works in the child after __jacl_memlock_reset.
ChildProceeds == (f_pc[Child] = "spin") ~> (f_pc[Child] = "idle")

=============================================================================
