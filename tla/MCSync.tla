------------------------------- MODULE MCSync -------------------------------
(***************************************************************************)
(* The barrier, pthread_once and the thread-specific data keys of          *)
(* pthread.h for TLC.  They share no state; which of them the threads use  *)
(* is chosen at the start, and the others stay as they were initialised.   *)
(***************************************************************************)
EXTENDS PthreadBarrier

CONSTANTS KeyThreads, MaxKeys, Iterations, MaxCounter, None

ASSUME KeysAssumption == MaxKeys \in Nat

VARIABLES kind,
          done, once_pc, started, complete,
          counter, values, destructors, key_pc, k, iterations, had_values,
          created

Once == INSTANCE PthreadOnce WITH pc <- once_pc
Tsd == INSTANCE PthreadKeys WITH Threads <- KeyThreads, pc <- key_pc

oncevars == <<done, once_pc, started, complete>>
keyvars == <<counter, values, destructors, key_pc, k, iterations, had_values, created>>
all == <<vars, oncevars, keyvars, kind>>

MCInit ==
  /\ Init /\ Once!Init /\ Tsd!Init
  /\ kind \in {"barrier", "once", "keys"}

MCNext ==
  \/ kind = "barrier" /\ Next /\ UNCHANGED <<oncevars, keyvars, kind>>
  \/ kind = "once" /\ Once!Next /\ UNCHANGED <<vars, keyvars, kind>>
  \/ kind = "keys" /\ Tsd!Next /\ UNCHANGED <<vars, oncevars, kind>>

MCSpec ==
  /\ MCInit /\ [][MCNext]_all
  /\ \A t \in Threads :
       WF_all(kind = "barrier" /\ Steps(t) /\ UNCHANGED <<oncevars, keyvars, kind>>)
  /\ \A t \in KeyThreads :
       WF_all(kind = "keys" /\ Tsd!Steps(t) /\ UNCHANGED <<vars, oncevars, kind>>)

\* The init routine of pthread_once is entered once, however many calls race,
\* and pthread_key_create gives no key to two callers, nor the key of
\* pthread_self.
OnceAndKeys == Once!InitOnce /\ Tsd!KeysDistinct

\* pthread_exit gets past destructors that set their keys again.
DestroyEnds == Tsd!DestroyEnds

=============================================================================
