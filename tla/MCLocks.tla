------------------------------ MODULE MCLocks ------------------------------
(***************************************************************************)
(* The locks of pthread.h for TLC: a mutex, a read-write lock, and a       *)
(* condition variable with its mutex.  They share no state; which of them  *)
(* the threads use is chosen at the start, and the others stay as they     *)
(* were initialised.                                                       *)
(***************************************************************************)
EXTENDS PthreadMutex, FiniteSets

CONSTANTS Readers, Writers, Consumers, Producers, MaxPuts

ASSUME ClientsAssumption ==
  /\ IsFiniteSet(Consumers) /\ IsFiniteSet(Producers)
  /\ Consumers \cap Producers = {}

ASSUME UsersAssumption ==
  /\ IsFiniteSet(Readers) /\ IsFiniteSet(Writers)
  /\ Readers \cap Writers = {}
  /\ None \notin Readers \cup Writers

VARIABLES
  kind,
  readers, writers, write_waiters, writer_tid, rw_pc, rw_call, rw_holds,
  c_futex, waiters, c_depth, c_pc, c_old, w, timed, tokens, puts

Rw == INSTANCE PthreadRwlock WITH pc <- rw_pc, call <- rw_call, holds <- rw_holds

Cond == INSTANCE PthreadCond WITH futex <- c_futex, depth <- c_depth, pc <- c_pc,
          old <- c_old

rwvars == <<readers, writers, write_waiters, writer_tid, rw_pc, rw_call, rw_holds>>
condvars == <<c_futex, waiters, c_depth, c_pc, c_old, w, timed, tokens, puts>>
all == <<vars, rwvars, condvars, kind>>

\* A step of one part leaves the others alone.
InMutex == kind = "mutex" /\ UNCHANGED <<rwvars, condvars, kind>>
InRwlock == kind = "rwlock" /\ UNCHANGED <<vars, condvars, kind>>
InCond == kind = "cond" /\ UNCHANGED <<vars, rwvars, kind>>

MCInit ==
  /\ Init /\ Rw!Init /\ Cond!Init
  /\ \/ kind = "mutex"
     \/ kind \in {"rwlock", "cond"} /\ type = "NORMAL"

\* Consumers wait when the producers have put all their tokens.
Stopped == kind = "cond" /\ UNCHANGED all

MCNext ==
  \/ InMutex /\ Next
  \/ InRwlock /\ Rw!Next
  \/ InCond /\ Cond!Next
  \/ Stopped

MCSpec ==
  /\ MCInit /\ [][MCNext]_all
  /\ \A t \in Threads : WF_all(InMutex /\ Steps(t))
  /\ \A c \in Consumers : WF_all(InCond /\ Cond!ConsumerSteps(c))
  /\ \A p \in Producers : WF_all(InCond /\ Cond!ProducerSteps(p))

-----------------------------------------------------------------------------
\* readers and write_waiters of a read-write lock count the threads that read
\* and that wait to write, so pthread_rwlock_unlock tells readers and the
\* writer apart; a writer that has the lock is recorded in writers and
\* writer_tid.
RwlockExact == Rw!CountsExact /\ Rw!WriterRecorded

\* While a consumer is held back in pthread_cond_wait, as many signals and
\* consumers that will look are under way as there are tokens; waiters counts
\* exactly the threads between its increment and its decrement.
SignalInFlight == Cond!SignalInFlight /\ Cond!WaitersExact

\* A consumer does not stay in pthread_cond_wait while there are tokens for it.
NoLostWakeup == Cond!NoLostWakeup
=============================================================================
