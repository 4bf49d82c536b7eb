------------------------------- MODULE MCAio -------------------------------
(***************************************************************************)
(* Asynchronous I/O for TLC: the io_uring ring, and the thread pool that   *)
(* takes what the ring does not.  They share no state; which of them is    *)
(* looked at is chosen at the start, and the other one does not move.      *)
(***************************************************************************)
EXTENDS AioPool

CONSTANTS Threads, RingCbs, Null, Entries, Width, Tries, RingCalls, Ops, Faults

VARIABLES
  kind,
  up, initialized, use_fallback, sqHead, sqTail, sqes, cqHead, cqTail, cqes, kernel,
  r_state, pooled, pc, op, list, i, lo, hi, looks, r_calls, accepted, disowned, fault

Ring == INSTANCE AioRing WITH Cbs <- RingCbs, MaxCalls <- RingCalls,
          state <- r_state, calls <- r_calls

ringvars == <<up, initialized, use_fallback, sqHead, sqTail, sqes, cqHead, cqTail, cqes,
              kernel, r_state, pooled, pc, op, list, i, lo, hi, looks, r_calls, accepted,
              disowned, fault>>
all == <<poolvars, ringvars, kind>>

InRing == kind = "ring" /\ UNCHANGED <<poolvars, kind>>
InPool == kind = "pool" /\ UNCHANGED <<ringvars, kind>>

MCInit == PoolInit /\ Ring!Init /\ kind \in {"ring", "pool"}

\* Workers wait when the program makes no more calls.
Stopped == kind = "pool" /\ UNCHANGED all

MCNext ==
  \/ InRing /\ Ring!Next
  \/ InPool /\ PoolNext
  \/ Stopped

MCSpec ==
  /\ MCInit /\ [][MCNext]_all
  /\ \A t \in Threads :
       WF_all(InRing /\ Ring!Step(t)) /\ WF_all(InRing /\ Ring!CallReap(t))
  /\ WF_all(InRing /\ Ring!Post)
  /\ WF_all(InRing /\ Ring!PoolDone)
  /\ \A u \in Users : WF_all(InPool /\ ~dead /\ UserStep(u))
  /\ \A v \in Workers : WF_all(InPool /\ ~dead /\ WorkerStep(v))

-----------------------------------------------------------------------------
\* A control block reads EINPROGRESS for as long as the kernel may use its
\* buffer, and neither ring holds more than it has slots for.
RingSound == Ring!NoEarlyCompletion /\ Ring!RingBounded

\* A request that the ring accepted completes.
AcceptedCompletes == Ring!AcceptedCompletes

\* A request queued for the pool is done, and aio_destroy comes back.
PoolProceeds == QueuedDone /\ DestroyReturns
=============================================================================
