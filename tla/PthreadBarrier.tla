--------------------------- MODULE PthreadBarrier ---------------------------
(***************************************************************************)
(* pthread_barrier_t of include/pthread.h, used again and again by exactly *)
(* as many threads as pthread_barrier_init was given (POSIX's use of it):  *)
(* an arrival counter, a phase word that is also the futex, and a limit.   *)
(*                                                                         *)
(* A thread reads the phase, then adds itself to the count, as two atomic  *)
(* operations.  The last to arrive resets the count, advances the phase    *)
(* and wakes the sleepers, as three.  round[t] counts the calls of t that  *)
(* have begun; it is what the properties are stated with.  The waiters     *)
(* field of the barrier is added to and never read: it is left out.        *)
(***************************************************************************)
EXTENDS Naturals, FiniteSets

CONSTANTS Threads,
          MaxRounds     \* bound on the rounds the threads make

ASSUME ThreadsAssumption == IsFiniteSet(Threads) /\ Threads # {}
ASSUME RoundsAssumption == MaxRounds \in Nat

limit == Cardinality(Threads)

VARIABLES
  count, phase,             \* the fields of the barrier
  pc,
  myPhase,                  \* the local phase of each thread
  round,                    \* calls of pthread_barrier_wait begun
  serial                    \* returns of PTHREAD_BARRIER_SERIAL_THREAD so far

vars == <<count, phase, pc, myPhase, round, serial>>

Labels == {"idle", "arrive", "test", "sleep", "asleep",
           "reset", "advance", "wake"}

\* pthread_barrier_init
Init ==
  /\ count = 0 /\ phase = 0
  /\ pc = [t \in Threads |-> "idle"]
  /\ myPhase = [t \in Threads |-> 0]
  /\ round = [t \in Threads |-> 0]
  /\ serial = 0

From(t, here, there) == pc[t] = here /\ pc' = [pc EXCEPT ![t] = there]

-----------------------------------------------------------------------------
\* The call begins and loads the phase.
Wait(t) ==
  /\ round[t] < MaxRounds
  /\ From(t, "idle", "arrive")
  /\ round' = [round EXCEPT ![t] = @ + 1]
  /\ myPhase' = [myPhase EXCEPT ![t] = phase]
  /\ UNCHANGED <<count, phase, serial>>

\* Mutant: the thread before the last opens the barrier.
MutArrive(t) ==
  /\ From(t, "arrive", IF count + 2 < limit THEN "test" ELSE "reset")
  /\ count' = count + 1
  /\ UNCHANGED <<phase, myPhase, round, serial>>

Arrive(t) ==
  /\ From(t, "arrive", IF count + 1 < limit THEN "test" ELSE "reset")
  /\ count' = count + 1
  /\ UNCHANGED <<phase, myPhase, round, serial>>

\* while (phase == my phase) futex_wait: the test, and the return.
Test(t) ==
  /\ From(t, "test", IF phase = myPhase[t] THEN "sleep" ELSE "idle")
  /\ UNCHANGED <<count, phase, myPhase, round, serial>>

FutexWait(t) ==
  /\ From(t, "sleep", IF phase = myPhase[t] THEN "asleep" ELSE "test")
  /\ UNCHANGED <<count, phase, myPhase, round, serial>>

SpuriousWake(t) ==
  /\ From(t, "asleep", "test")
  /\ UNCHANGED <<count, phase, myPhase, round, serial>>

\* Mutant: the count is not reset.
MutReset(t) ==
  /\ From(t, "reset", "advance")
  /\ UNCHANGED <<count, phase, myPhase, round, serial>>

\* The last thread: count = 0, then phase + 1, then FUTEX_WAKE(limit - 1).
Reset(t) ==
  /\ From(t, "reset", "advance")
  /\ count' = 0
  /\ UNCHANGED <<phase, myPhase, round, serial>>

Advance(t) ==
  /\ From(t, "advance", "wake")
  /\ phase' = phase + 1
  /\ UNCHANGED <<count, myPhase, round, serial>>

\* Mutant: one sleeper too few is woken.
MutWake(t) ==
  /\ pc[t] = "wake"
  /\ \E u \in Threads \ {t} :
       pc' = [v \in Threads |-> IF pc[v] = "asleep" /\ v # u THEN "test"
                                ELSE IF v = t THEN "idle" ELSE pc[v]]
  /\ serial' = serial + 1
  /\ UNCHANGED <<count, phase, myPhase, round>>

Wake(t) ==
  /\ pc[t] = "wake"
  /\ \E S \in SUBSET {u \in Threads : pc[u] = "asleep"} :
       /\ \/ Cardinality(S) = limit - 1
          \/ S = {u \in Threads : pc[u] = "asleep"} /\ Cardinality(S) < limit
       /\ pc' = [u \in Threads |-> IF u \in S THEN "test"
                                   ELSE IF u = t THEN "idle" ELSE pc[u]]
  /\ serial' = serial + 1
  /\ UNCHANGED <<count, phase, myPhase, round>>

Steps(t) ==
  \/ Arrive(t) \/ Test(t) \/ FutexWait(t)
  \/ Reset(t) \/ Advance(t) \/ Wake(t)

Next == \E t \in Threads : Wait(t) \/ Steps(t) \/ SpuriousWake(t)

Spec == Init /\ [][Next]_vars

\* The kernel runs every runnable thread; nobody is obliged to call wait.
FairSpec == Spec /\ \A t \in Threads : WF_vars(Steps(t))

-----------------------------------------------------------------------------
TypeOK ==
  /\ count \in 0..limit /\ phase \in Nat /\ serial \in Nat
  /\ pc \in [Threads -> Labels]
  /\ myPhase \in [Threads -> Nat]
  /\ round \in [Threads -> Nat]

\* The rounds t has come back from, and the rounds it has been counted in.
Returned(t) == IF pc[t] = "idle" THEN round[t] ELSE round[t] - 1
Arrived(t) == IF pc[t] = "arrive" THEN round[t] - 1 ELSE round[t]

\* The barrier holds: nobody comes back from round k of pthread_barrier_wait
\* before everybody has been counted in round k.  The phase is read before the
\* count is taken and the count is reset before the phase moves, so a fast
\* thread is in the next round while slow ones still leave this one.
BarrierHolds == \A t, u \in Threads : Returned(t) <= Arrived(u)

Waking == {t \in Threads : pc[t] = "wake"}

\* Exactly one thread per round gets PTHREAD_BARRIER_SERIAL_THREAD: a thread
\* that has come back from k rounds finds k of them given out, the one still
\* in its wake-up call included.
OneSerialPerRound ==
  \A t \in Threads :
    pc[t] = "idle" => serial + Cardinality(Waking) = round[t]

\* When all have arrived in round k, all come back from it: the wake-up of
\* the last thread reaches every sleeper, or finds it awake.
BarrierOpens ==
  \A k \in 1..MaxRounds :
    (\A t \in Threads : Arrived(t) >= k) ~> (\A t \in Threads : Returned(t) >= k)

=============================================================================
