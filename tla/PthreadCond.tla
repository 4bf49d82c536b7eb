---------------------------- MODULE PthreadCond ----------------------------
(***************************************************************************)
(* pthread_cond_t of include/pthread.h: a futex word that counts signals   *)
(* and a count of waiters, used with the mutex of MutexSpec (which         *)
(* PthreadMutex implements).                                               *)
(*                                                                         *)
(* The callers are the standard ones.  A consumer locks the mutex, waits   *)
(* while there is no token, takes one and unlocks.  A producer adds a      *)
(* token under the mutex and calls signal or broadcast, before or after it *)
(* unlocks.  A wait may be timed (pthread_cond_timedwait, which polls      *)
(* instead of sleeping); a consumer whose wait timed out looks once more   *)
(* and leaves.  The kernel may end a FUTEX_WAIT at any time: with EINTR,   *)
(* after which the code polls the word, or spuriously.                     *)
(***************************************************************************)
EXTENDS Naturals, FiniteSets

CONSTANTS Consumers, Producers,
          MaxPuts           \* bound on the tokens each producer adds

Clients == Consumers \cup Producers

VARIABLES
  futex, waiters,           \* cond->futex, cond->waiters
  depth,                    \* the mutex
  pc,
  old,                      \* the local old of each waiter
  w,                        \* the wake count of each signaller
  timed,                    \* the waiter is in pthread_cond_timedwait
  tokens, puts              \* the predicate, and the tokens added so far

vars == <<futex, waiters, depth, pc, old, w, timed, tokens, puts>>
client == <<tokens, puts>>
locals == <<old, w, timed>>

Mutex == INSTANCE MutexSpec WITH Threads <- Clients

WaitLabels == {"load", "unlock", "sleep", "asleep", "poll", "relock", "dec"}
Labels == {"idle", "locked", "leave", "signal", "inc", "wake"} \cup WaitLabels

Init ==
  /\ futex = 0 /\ waiters = 0
  /\ Mutex!Init
  /\ pc = [t \in Clients |-> "idle"]
  /\ old = [t \in Consumers |-> 0]
  /\ timed = [t \in Consumers |-> FALSE]
  /\ w = [t \in Producers |-> 0]
  /\ tokens = 0
  /\ puts = [t \in Producers |-> 0]

Goto(t, label) == pc' = [pc EXCEPT ![t] = label]
From(t, here, there) == pc[t] = here /\ Goto(t, there)

-----------------------------------------------------------------------------
\* The callers.
LockMutex(t) ==
  /\ t \in Producers => puts[t] < MaxPuts
  /\ From(t, "idle", "locked")
  /\ Mutex!Acquire(t)
  /\ UNCHANGED <<futex, waiters, locals, client>>

Take(c) ==
  /\ tokens > 0
  /\ tokens' = tokens - 1
  /\ From(c, "locked", "leave")
  /\ UNCHANGED <<futex, waiters, depth, locals, puts>>

\* The token is added; the producer signals with or without the mutex.
Put(p) ==
  /\ tokens' = tokens + 1
  /\ puts' = [puts EXCEPT ![p] = @ + 1]
  /\ From(p, "locked", "signal")
  /\ \/ Mutex!Release(p) \/ UNCHANGED depth
  /\ UNCHANGED <<futex, waiters, locals>>

Leave(t) ==
  /\ From(t, "leave", "idle")
  /\ \/ Mutex!Release(t)
     \/ depth[t] = 0 /\ UNCHANGED depth
  /\ UNCHANGED <<futex, waiters, locals, client>>

-----------------------------------------------------------------------------
\* pthread_cond_wait and pthread_cond_timedwait.
Wait(c) ==
  /\ tokens = 0
  /\ From(c, "locked", "load")
  /\ waiters' = waiters + 1
  /\ \E b \in BOOLEAN : timed' = [timed EXCEPT ![c] = b]
  /\ UNCHANGED <<futex, depth, old, w, client>>

WaitLoad(c) ==
  /\ From(c, "load", "unlock")
  /\ old' = [old EXCEPT ![c] = futex]
  /\ UNCHANGED <<futex, waiters, depth, w, timed, client>>

WaitUnlock(c) ==
  /\ From(c, "unlock", IF timed[c] THEN "poll" ELSE "sleep")
  /\ Mutex!Release(c)
  /\ UNCHANGED <<futex, waiters, locals, client>>

\* Mutant: the word is read after the mutex is released.
MutWaitSleep(c) ==
  /\ From(c, "sleep", "asleep")
  /\ old' = [old EXCEPT ![c] = futex]
  /\ UNCHANGED <<futex, waiters, depth, w, timed, client>>

\* FUTEX_WAIT(&futex, old): EAGAIN sends the waiter on through the poll loop.
WaitSleep(c) ==
  /\ From(c, "sleep", IF futex = old[c] THEN "asleep" ELSE "poll")
  /\ UNCHANGED <<futex, waiters, depth, locals, client>>

\* The sleep ends without a FUTEX_WAKE: EINTR, or spuriously with 0.
SpuriousWake(c) ==
  /\ \/ From(c, "asleep", "poll")
     \/ From(c, "asleep", "relock")
  /\ UNCHANGED <<futex, waiters, depth, locals, client>>

\* One look at the word in the poll loop that ends it.
Poll(c) ==
  /\ futex # old[c]
  /\ From(c, "poll", "relock")
  /\ UNCHANGED <<futex, waiters, depth, locals, client>>

Relock(c) ==
  /\ From(c, "relock", "dec")
  /\ Mutex!Acquire(c)
  /\ UNCHANGED <<futex, waiters, locals, client>>

\* Mutant: a timeout uncounts the waiter, and so does the common exit.
MutTimedOut(c) ==
  /\ timed[c]
  /\ From(c, "poll", "relock")
  /\ waiters' = waiters - 1
  /\ UNCHANGED <<futex, depth, locals, client>>

\* The poll loop of timedwait gives up; it too returns with the mutex locked.
TimedOut(c) ==
  /\ timed[c]
  /\ From(c, "poll", "relock")
  /\ UNCHANGED <<futex, waiters, depth, locals, client>>

\* Mutant: wait returns without uncounting the waiter.
MutWaitReturn(c) ==
  /\ From(c, "dec", "locked")
  /\ UNCHANGED <<futex, waiters, depth, locals, client>>

\* The waiter is uncounted and wait returns; after a timeout the consumer may
\* leave instead of waiting again.
WaitReturn(c) ==
  /\ \/ From(c, "dec", "locked")
     \/ timed[c] /\ tokens = 0 /\ From(c, "dec", "leave")
  /\ waiters' = waiters - 1
  /\ UNCHANGED <<futex, depth, locals, client>>

-----------------------------------------------------------------------------
\* pthread_cond_signal and pthread_cond_broadcast: the load of waiters.
SignalLoad(p) ==
  /\ From(p, "signal", IF waiters > 0 THEN "inc" ELSE "leave")
  /\ \E n \in {1, waiters} : w' = [w EXCEPT ![p] = n]
  /\ UNCHANGED <<futex, waiters, depth, old, timed, client>>

SignalInc(p) ==
  /\ From(p, "inc", "wake")
  /\ futex' = futex + 1
  /\ UNCHANGED <<waiters, depth, locals, client>>

Asleep == {c \in Consumers : pc[c] = "asleep"}

\* FUTEX_WAKE(&futex, n): n sleepers, or all when they are fewer.
Woken(n) ==
  IF Cardinality(Asleep) <= n
  THEN {Asleep}
  ELSE {S \in SUBSET Asleep : Cardinality(S) = n}

\* Mutant: the increment without the wake-up.
MutSignalWake(p) ==
  /\ From(p, "wake", "leave")
  /\ UNCHANGED <<futex, waiters, depth, locals, client>>

SignalWake(p) ==
  /\ pc[p] = "wake"
  /\ \E S \in Woken(w[p]) :
       pc' = [t \in Clients |-> IF t \in S THEN "relock"
                                ELSE IF t = p THEN "leave" ELSE pc[t]]
  /\ UNCHANGED <<futex, waiters, depth, locals, client>>

-----------------------------------------------------------------------------
ConsumerSteps(c) ==
  \/ Take(c) \/ Wait(c) \/ WaitLoad(c) \/ WaitUnlock(c) \/ WaitSleep(c)
  \/ Poll(c) \/ Relock(c) \/ WaitReturn(c) \/ Leave(c)

ProducerSteps(p) ==
  Put(p) \/ SignalLoad(p) \/ SignalInc(p) \/ SignalWake(p) \/ Leave(p)

Next ==
  \/ \E t \in Clients : LockMutex(t)
  \/ \E c \in Consumers : ConsumerSteps(c) \/ SpuriousWake(c) \/ TimedOut(c)
  \/ \E p \in Producers : ProducerSteps(p)

Spec == Init /\ [][Next]_vars

\* Runnable threads run.  Nobody is obliged to start a call, and a timeout or
\* an interrupted sleep need never come.
FairSpec ==
  /\ Spec
  /\ \A c \in Consumers : WF_vars(ConsumerSteps(c))
  /\ \A p \in Producers : WF_vars(ProducerSteps(p))

-----------------------------------------------------------------------------
TypeOK ==
  /\ futex \in Nat /\ waiters \in 0..Cardinality(Consumers)
  /\ depth \in [Clients -> 0..1]
  /\ pc \in [Clients -> Labels]
  /\ old \in [Consumers -> Nat]
  /\ timed \in [Consumers -> BOOLEAN]
  /\ w \in [Producers -> 0..Cardinality(Consumers)]
  /\ tokens \in Nat
  /\ puts \in [Producers -> 0..MaxPuts]

\* In pthread_cond_wait and not yet on the way out of it.
Waiting(c) == pc[c] \in {"load", "unlock", "sleep", "asleep", "poll"}

\* The kernel or the poll loop would still hold back this waiter.
Blocked(c) ==
  \/ pc[c] = "asleep"
  \/ pc[c] \in {"unlock", "sleep", "poll"} /\ futex = old[c]

\* Producers that have yet to complete their wake-up, and consumers that hold
\* or are about to lock the mutex and will look at the tokens.
UnderWay ==
  {p \in Producers : pc[p] \in {"signal", "inc", "wake"}}
    \cup {c \in Consumers : pc[c] \in {"relock", "dec", "locked"}}
    \cup {c \in Consumers : pc[c] \in {"sleep", "poll"} /\ futex # old[c]}

\* While a waiter is held back, every token has somebody under way for it: one
\* wake-up per token is enough, although interrupted, timed out and newly
\* come consumers take tokens too.  This is what counting waiters under the
\* mutex before reading the word is for.
SignalInFlight ==
  (\E c \in Consumers : Blocked(c)) => tokens <= Cardinality(UnderWay)

\* No wake-up is lost: a consumer does not stay in pthread_cond_wait while
\* there are tokens for it.
NoLostWakeup ==
  \A c \in Consumers :
    (Waiting(c) /\ tokens > 0) ~> (~Waiting(c) \/ tokens = 0)

\* waiters counts exactly the threads between its increment and decrement, so
\* signal never skips a sleeper it should have counted.
WaitersExact == waiters = Cardinality({c \in Consumers : pc[c] \in WaitLabels})

=============================================================================
