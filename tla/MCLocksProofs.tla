--------------------------- MODULE MCLocksProofs ---------------------------
(***************************************************************************)
(* Proofs about the mutex, the condition variable and the read-write lock  *)
(* of pthread.h, as MCLocks composes them.                                 *)
(*                                                                         *)
(* The mutex, for any set of threads, any mutex types and any nesting      *)
(* bound: mutual exclusion, exactness of the owner field, the pending      *)
(* wake-up, and that the futex mutex implements the abstract mutex.  The   *)
(* other two, for any sets of threads: the counts they keep, and that the  *)
(* signals under way suffice.                                              *)
(***************************************************************************)
EXTENDS MCLocks, FiniteSetTheorems, TLAPS

-----------------------------------------------------------------------------
(* The mutex. *)

\* The futex word is 1 exactly while some thread is inside.
WordTellsInside == futex = 1 <=> \E t \in Threads : Inside(t)

\* What a thread holds while it is at each point of its call: a thread in the
\* lock loop of pthread_mutex_lock, or between winning the word and recording
\* itself, or between clearing the owner and freeing the word, holds nothing.
HoldsNothing ==
  \A t \in Threads :
    pc[t] \in {"cas", "wait", "asleep", "own", "store"} => held[t] = 0

\* Only a RECURSIVE mutex is held more than once.
DepthByType ==
  \A t \in Threads : type # "RECURSIVE" => held[t] <= 1

\* The inductive invariant.  Mutual exclusion needs the word to agree with
\* Inside; that needs the owner field exact, or the prologue of lock would let
\* a thread in past the word.
IInv ==
  /\ TypeOK
  /\ MutualExclusion
  /\ OwnerExact
  /\ WordTellsInside
  /\ HoldsNothing
  /\ DepthByType
  /\ WakeupPending

-----------------------------------------------------------------------------
\* pthread_mutex_init establishes the invariant.
LEMMA InitIInv == Init => IInv
  BY NoneAssumption, MaxDepthAssumption
  DEF Init, IInv, TypeOK, MutualExclusion, OwnerExact, WordTellsInside,
      HoldsNothing, DepthByType, WakeupPending, Inside, Labels, Results

\* No step of any thread leaves the invariant.
LEMMA NextIInv == IInv /\ [Next]_vars => IInv'
<1> SUFFICES ASSUME IInv, [Next]_vars PROVE IInv'
  OBVIOUS
<1> USE NoneAssumption, MaxDepthAssumption
    DEF IInv, TypeOK, MutualExclusion, OwnerExact, WordTellsInside,
        HoldsNothing, DepthByType, WakeupPending, Inside, Labels, Results,
        Goto, Return
<1>1. ASSUME NEW t \in Threads, Lock(t) PROVE IInv'
  BY <1>1, TypesAssumption DEF Lock, Enter
<1>2. ASSUME NEW t \in Threads, TryLock(t) PROVE IInv'
  BY <1>2 DEF TryLock, Enter
<1>3. ASSUME NEW t \in Threads, TimedLock(t) PROVE IInv'
  BY <1>3 DEF TimedLock, Enter
<1>4. ASSUME NEW t \in Threads, Acquire(t) PROVE IInv'
  BY <1>4 DEF Acquire
<1>5. ASSUME NEW t \in Threads, Contended(t) PROVE IInv'
  BY <1>5 DEF Contended
<1>6. ASSUME NEW t \in Threads, FutexWait(t) PROVE IInv'
  BY <1>6 DEF FutexWait
<1>7. ASSUME NEW t \in Threads, SpuriousWake(t) PROVE IInv'
  BY <1>7 DEF SpuriousWake
<1>8. ASSUME NEW t \in Threads, SetOwner(t) PROVE IInv'
  BY <1>8 DEF SetOwner
<1>9. ASSUME NEW t \in Threads, Unlock(t) PROVE IInv'
  BY <1>9 DEF Unlock
<1>10. ASSUME NEW t \in Threads, UnlockStore(t) PROVE IInv'
  BY <1>10 DEF UnlockStore
<1>11. ASSUME NEW t \in Threads, UnlockWake(t) PROVE IInv'
  BY <1>11 DEF UnlockWake
<1>12. ASSUME NEW t \in Threads, Destroy(t) PROVE IInv'
  BY <1>12 DEF Destroy
<1>13. CASE UNCHANGED vars
  BY <1>13 DEF vars
<1> QED
  BY <1>1, <1>2, <1>3, <1>4, <1>5, <1>6, <1>7, <1>8, <1>9, <1>10, <1>11,
     <1>12, <1>13
  DEF Next, Calls, Steps

\* The invariant holds in every reachable state.
THEOREM Invariance == Spec => []IInv
  BY InitIInv, NextIInv, PTL DEF Spec

\* Every reachable state is well typed.
THEOREM TypeCorrect == Spec => []TypeOK
<1>1. IInv => TypeOK
  BY DEF IInv
<1> QED
  BY <1>1, Invariance, PTL

\* pthread_mutex_lock, trylock and timedlock never let two threads in.
THEOREM Exclusion == Spec => []MutualExclusion
<1>1. IInv => MutualExclusion
  BY DEF IInv
<1> QED
  BY <1>1, Invariance, PTL

\* The unsynchronised reads of owner and recursive_count are never misled.
THEOREM OwnerIsHolder == Spec => []OwnerExact
<1>1. IInv => OwnerExact
  BY DEF IInv
<1> QED
  BY <1>1, Invariance, PTL

\* Waking one sleeper per unlock is enough: a free mutex with sleepers always
\* has a thread on its way to take it or to wake one of them.
THEOREM WakeupNeverLost == Spec => []WakeupPending
<1>1. IInv => WakeupPending
  BY DEF IInv
<1> QED
  BY <1>1, Invariance, PTL

-----------------------------------------------------------------------------
\* Initial states of the futex mutex are initial states of the abstract one.
LEMMA InitRefines == Init => Abstract!Init
  BY DEF Init, Abstract!Init

\* A step that changes who holds the mutex is an abstract Acquire or Release;
\* every other step leaves the abstract mutex alone.
LEMMA StepRefines == IInv /\ [Next]_vars => [Abstract!Next]_held
<1> SUFFICES ASSUME IInv, [Next]_vars PROVE Abstract!Next \/ held' = held
  BY DEF Abstract!Next
<1> USE DEF IInv, TypeOK, Goto, Return
<1>1. ASSUME NEW t \in Threads, Lock(t) \/ TryLock(t) \/ TimedLock(t)
      PROVE  Abstract!Next \/ held' = held
  <2>1. CASE held' = [held EXCEPT ![t] = @ + 1] /\ owner = t
    <3>1. \A u \in Threads \ {t} : held[u] = 0
      BY <2>1, MaxDepthAssumption DEF OwnerExact
    <3> QED
      BY <2>1, <3>1 DEF Abstract!Next, Abstract!Acquire
  <2> QED
    BY <1>1, <2>1 DEF Lock, TryLock, TimedLock, Enter
<1>2. ASSUME NEW t \in Threads, SetOwner(t)
      PROVE  Abstract!Next \/ held' = held
  <2>1. \A u \in Threads \ {t} : held[u] = 0
    BY <1>2, MaxDepthAssumption DEF SetOwner, MutualExclusion, Inside
  <2> QED
    BY <1>2, <2>1 DEF SetOwner, Abstract!Next, Abstract!Acquire
<1>3. ASSUME NEW t \in Threads, Unlock(t)
      PROVE  Abstract!Next \/ held' = held
  BY <1>3 DEF Unlock, Abstract!Next, Abstract!Release
<1>4. ASSUME NEW t \in Threads,
             \/ Acquire(t) \/ Contended(t) \/ FutexWait(t) \/ SpuriousWake(t)
             \/ UnlockStore(t) \/ UnlockWake(t) \/ Destroy(t)
      PROVE  held' = held
  BY <1>4 DEF Acquire, Contended, FutexWait, SpuriousWake, UnlockStore,
              UnlockWake, Destroy
<1>5. CASE UNCHANGED vars
  BY <1>5 DEF vars
<1> QED
  BY <1>1, <1>2, <1>3, <1>4, <1>5 DEF Next, Calls, Steps

\* The futex mutex implements the abstract mutex.
THEOREM Refinement == Spec => ImplementsMutexSpec
<1>1. Init /\ [][Next]_vars /\ []IInv => Abstract!Init /\ [][Abstract!Next]_held
  BY InitRefines, StepRefines, PTL
<1> QED
  BY <1>1, Invariance, PTL DEF Spec, ImplementsMutexSpec, Abstract!Spec

-----------------------------------------------------------------------------
(* Counting. *)

\* A set that gains and loses no more than stated has the size stated.
LEMMA Gains ==
  ASSUME NEW S, IsFiniteSet(S), NEW x, x \notin S
  PROVE  /\ IsFiniteSet(S \cup {x})
         /\ Cardinality(S \cup {x}) = Cardinality(S) + 1
         /\ Cardinality(S) \in Nat
  BY FS_AddElement, FS_CardinalityType

\* Taking an element out leaves one less.
LEMMA Loses ==
  ASSUME NEW S, IsFiniteSet(S), NEW x \in S
  PROVE  /\ IsFiniteSet(S \ {x})
         /\ Cardinality(S \ {x}) = Cardinality(S) - 1
         /\ Cardinality(S) \in Nat
  BY FS_RemoveElement, FS_CardinalityType

\* A subset is finite and no larger.
LEMMA NoFewer ==
  ASSUME NEW S, NEW T, IsFiniteSet(T), S \subseteq T
  PROVE  /\ IsFiniteSet(S)
         /\ Cardinality(S) \in Nat /\ Cardinality(T) \in Nat
         /\ Cardinality(S) <= Cardinality(T)
  BY FS_Subset, FS_CardinalityType

\* All of S but one element is in T.
LEMMA OneLess ==
  ASSUME NEW S, NEW T, IsFiniteSet(S), IsFiniteSet(T), NEW x, S \ {x} \subseteq T
  PROVE  Cardinality(S) <= Cardinality(T) + 1
<1>1. /\ Cardinality(S \ {x}) <= Cardinality(T)
      /\ Cardinality(T) \in Nat /\ Cardinality(S \ {x}) \in Nat
  BY NoFewer
<1>2. Cardinality(S) \in Nat
  BY FS_CardinalityType
<1>3. x \in S => Cardinality(S \ {x}) = Cardinality(S) - 1
  BY Loses
<1>4. x \notin S => Cardinality(S \ {x}) = Cardinality(S)
  BY FS_RemoveElement
<1> QED
  BY <1>1, <1>2, <1>3, <1>4

\* T has all of S and another element.
LEMMA OneMore ==
  ASSUME NEW S, NEW T, IsFiniteSet(T), NEW x \in T, x \notin S, S \subseteq T
  PROVE  Cardinality(S) + 1 <= Cardinality(T)
<1>1. S \cup {x} \subseteq T /\ IsFiniteSet(S)
  BY NoFewer
<1>2. Cardinality(S \cup {x}) <= Cardinality(T)
  BY <1>1, NoFewer
<1> QED
  BY <1>1, <1>2, Gains

\* One leaves and another one comes.
LEMMA Swap ==
  ASSUME NEW S, NEW T, IsFiniteSet(S), IsFiniteSet(T), NEW x,
         NEW y \in T, y \notin S, S \ {x} \subseteq T
  PROVE  Cardinality(S) <= Cardinality(T)
<1>1. Cardinality(S \ {x}) + 1 <= Cardinality(T)
  BY OneMore
<1>2. IsFiniteSet(S \ {x}) /\ S \ {x} \subseteq S
  BY FS_RemoveElement
<1>3. Cardinality(S) <= Cardinality(S \ {x}) + 1
  BY <1>2, OneLess
<1>4. Cardinality(S) \in Nat /\ Cardinality(T) \in Nat /\ Cardinality(S \ {x}) \in Nat
  BY <1>2, FS_CardinalityType
<1> QED
  BY <1>1, <1>3, <1>4

-----------------------------------------------------------------------------
(* The condition variable. *)

\* The instance counts as this module does.
LEMMA CondCardinality == ASSUME NEW S PROVE Cond!Cardinality(S) = Cardinality(S)
  BY DEF Cond!Cardinality, Cardinality

ConsumerLabels == {"idle", "locked", "leave"} \cup Cond!WaitLabels
ProducerLabels == {"idle", "locked", "signal", "inc", "wake", "leave"}

CondTypes ==
  /\ c_futex \in Nat /\ tokens \in Nat
  /\ c_depth \in [Cond!Clients -> {0, 1}]
  /\ c_pc \in [Cond!Clients -> Cond!Labels]
  /\ \A c \in Consumers : c_pc[c] \in ConsumerLabels
  /\ \A p \in Producers : c_pc[p] \in ProducerLabels
  /\ c_old \in [Consumers -> Nat] /\ timed \in [Consumers -> BOOLEAN]
  /\ w \in [Producers -> Nat] /\ puts \in [Producers -> Nat]

\* Who is inside the mutex, and that there is one of them at most.
CondMutex ==
  /\ \A t, u \in Cond!Clients : c_depth[t] = 1 /\ c_depth[u] = 1 => t = u
  /\ \A c \in Consumers :
       c_depth[c] = 1 <=> c_pc[c] \in {"locked", "load", "unlock", "dec", "leave"}
  /\ \A p \in Producers : /\ c_pc[p] = "locked" => c_depth[p] = 1
                          /\ c_pc[p] = "idle" => c_depth[p] = 0

\* A consumer that still has the mutex in wait has seen that there is no
\* token; the word it read is no later than the word now; a signaller has
\* somebody to wake.
CondReads ==
  /\ \A c \in Consumers : c_pc[c] \in {"load", "unlock"} => tokens = 0
  /\ \A c \in Consumers :
       c_pc[c] \in {"unlock", "sleep", "asleep", "poll"} => c_old[c] <= c_futex
  /\ \A p \in Producers : c_pc[p] \in {"inc", "wake"} => w[p] >= 1

CondBase == CondTypes /\ CondMutex /\ CondReads

\* pthread_cond_init and the callers' first states.
LEMMA CondBaseInit == Cond!Init => CondBase
  BY ClientsAssumption
  DEF Cond!Init, Cond!Mutex!Init, CondBase, CondTypes, CondMutex, CondReads,
      Cond!Clients, Cond!Labels, Cond!WaitLabels, ConsumerLabels, ProducerLabels

\* The threads that cond->waiters counts.
Counted == {c \in Consumers : c_pc[c] \in Cond!WaitLabels}

\* The consumers counted in waiters are finitely many.
LEMMA CountedFinite ==
  /\ IsFiniteSet(Counted) /\ IsFiniteSet(Counted')
  /\ Cardinality(Counted) \in Nat /\ Cardinality(Counted') \in Nat
<1>1. Counted \subseteq Consumers /\ Counted' \subseteq Consumers
  BY DEF Counted
<1> QED
  BY <1>1, ClientsAssumption, NoFewer

\* No step of a client leaves it.
LEMMA CondBaseNext ==
  CondBase /\ Cond!WaitersExact /\ [Cond!Next]_(Cond!vars) => CondBase'
<1> SUFFICES ASSUME CondBase, Cond!WaitersExact, [Cond!Next]_(Cond!vars)
             PROVE  CondBase'
  OBVIOUS
<1>0. waiters \in Nat
  BY CountedFinite, CondCardinality DEF Counted, Cond!WaitersExact
<1> USE ClientsAssumption
    DEF CondBase, CondTypes, CondMutex, CondReads, Cond!Clients, Cond!Labels,
        Cond!WaitLabels, ConsumerLabels, ProducerLabels, Cond!From, Cond!Goto,
        Cond!locals, Cond!client
<1>1. ASSUME NEW t \in Cond!Clients, Cond!LockMutex(t) PROVE CondBase'
  BY <1>1 DEF Cond!LockMutex, Cond!Mutex!Acquire
<1>2. ASSUME NEW c \in Consumers, Cond!Take(c) PROVE CondBase'
  BY <1>2 DEF Cond!Take
<1>3. ASSUME NEW c \in Consumers, Cond!Wait(c) PROVE CondBase'
  BY <1>3 DEF Cond!Wait
<1>4. ASSUME NEW c \in Consumers, Cond!WaitLoad(c) PROVE CondBase'
  BY <1>4 DEF Cond!WaitLoad
<1>5. ASSUME NEW c \in Consumers, Cond!WaitUnlock(c) PROVE CondBase'
  BY <1>5 DEF Cond!WaitUnlock, Cond!Mutex!Release
<1>6. ASSUME NEW c \in Consumers, Cond!WaitSleep(c) PROVE CondBase'
  BY <1>6 DEF Cond!WaitSleep
<1>7. ASSUME NEW c \in Consumers, Cond!Poll(c) PROVE CondBase'
  BY <1>7 DEF Cond!Poll
<1>8. ASSUME NEW c \in Consumers, Cond!Relock(c) PROVE CondBase'
  BY <1>8 DEF Cond!Relock, Cond!Mutex!Acquire
<1>9. ASSUME NEW c \in Consumers, Cond!WaitReturn(c) PROVE CondBase'
  BY <1>9 DEF Cond!WaitReturn
<1>10. ASSUME NEW c \in Consumers, Cond!SpuriousWake(c) PROVE CondBase'
  BY <1>10 DEF Cond!SpuriousWake
<1>11. ASSUME NEW c \in Consumers, Cond!TimedOut(c) PROVE CondBase'
  BY <1>11 DEF Cond!TimedOut
<1>12. ASSUME NEW p \in Producers, Cond!Put(p) PROVE CondBase'
  BY <1>12 DEF Cond!Put, Cond!Mutex!Release
<1>13. ASSUME NEW p \in Producers, Cond!SignalLoad(p) PROVE CondBase'
  BY <1>0, <1>13 DEF Cond!SignalLoad
<1>14. ASSUME NEW p \in Producers, Cond!SignalInc(p) PROVE CondBase'
  BY <1>14 DEF Cond!SignalInc
<1>15. ASSUME NEW p \in Producers, Cond!SignalWake(p) PROVE CondBase'
  BY <1>15 DEF Cond!SignalWake, Cond!Woken, Cond!Asleep
<1>16. ASSUME NEW t \in Cond!Clients, Cond!Leave(t) PROVE CondBase'
  BY <1>16 DEF Cond!Leave, Cond!Mutex!Release
<1>17. CASE UNCHANGED Cond!vars
  BY <1>17 DEF Cond!vars
<1> QED
  BY <1>1, <1>2, <1>3, <1>4, <1>5, <1>6, <1>7, <1>8, <1>9, <1>10, <1>11, <1>12, <1>13, <1>14, <1>15, <1>16, <1>17
  DEF Cond!Next, Cond!ConsumerSteps, Cond!ProducerSteps

\* waiters goes up and down with the threads it counts.
LEMMA CondCountNext ==
  CondBase /\ Cond!WaitersExact /\ [Cond!Next]_(Cond!vars) => Cond!WaitersExact'
<1> SUFFICES ASSUME CondBase, waiters = Cardinality(Counted), [Cond!Next]_(Cond!vars)
             PROVE  waiters' = Cardinality(Counted')
  BY CondCardinality DEF Cond!WaitersExact, Counted
<1> USE DEF Cond!From, Cond!Goto
<1>1. ASSUME NEW c \in Consumers, Cond!Wait(c)
      PROVE  waiters' = Cardinality(Counted')
  <2>1. c \notin Counted /\ Counted' = Counted \cup {c}
    BY <1>1 DEF Cond!Wait, Counted, CondBase, CondTypes, Cond!WaitLabels, Cond!Clients
  <2> QED
    BY <1>1, <2>1, CountedFinite, Gains DEF Cond!Wait
<1>2. ASSUME NEW c \in Consumers, Cond!WaitReturn(c)
      PROVE  waiters' = Cardinality(Counted')
  <2>1. c \in Counted /\ Counted' = Counted \ {c}
    BY <1>2 DEF Cond!WaitReturn, Counted, CondBase, CondTypes, Cond!WaitLabels, Cond!Clients
  <2> QED
    BY <1>2, <2>1, CountedFinite, Loses DEF Cond!WaitReturn
<1>3. ASSUME UNCHANGED waiters,
             \A c \in Consumers :
               c_pc'[c] \in Cond!WaitLabels <=> c_pc[c] \in Cond!WaitLabels
      PROVE  waiters' = Cardinality(Counted')
  BY <1>3 DEF Counted
<1> USE ClientsAssumption
    DEF CondBase, CondTypes, ConsumerLabels, ProducerLabels, Cond!WaitLabels, Cond!Clients
<1>4. ASSUME NEW t \in Cond!Clients, Cond!LockMutex(t) \/ Cond!Leave(t)
      PROVE  waiters' = Cardinality(Counted')
  BY <1>3, <1>4 DEF Cond!LockMutex, Cond!Leave
<1>5. ASSUME NEW c \in Consumers,
             \/ Cond!Take(c) \/ Cond!WaitLoad(c) \/ Cond!WaitUnlock(c)
             \/ Cond!WaitSleep(c) \/ Cond!Poll(c) \/ Cond!Relock(c)
             \/ Cond!SpuriousWake(c) \/ Cond!TimedOut(c)
      PROVE  waiters' = Cardinality(Counted')
  BY <1>3, <1>5
  DEF Cond!Take, Cond!WaitLoad, Cond!WaitUnlock, Cond!WaitSleep, Cond!Poll,
      Cond!Relock, Cond!SpuriousWake, Cond!TimedOut
<1>6. ASSUME NEW p \in Producers,
             Cond!Put(p) \/ Cond!SignalLoad(p) \/ Cond!SignalInc(p)
      PROVE  waiters' = Cardinality(Counted')
  BY <1>3, <1>6 DEF Cond!Put, Cond!SignalLoad, Cond!SignalInc
<1>7. ASSUME NEW p \in Producers, Cond!SignalWake(p)
      PROVE  waiters' = Cardinality(Counted')
  BY <1>3, <1>7 DEF Cond!SignalWake, Cond!Woken, Cond!Asleep
<1>8. CASE UNCHANGED Cond!vars
  BY <1>3, <1>8 DEF Cond!vars
<1> QED
  BY <1>1, <1>2, <1>4, <1>5, <1>6, <1>7, <1>8
  DEF Cond!Next, Cond!ConsumerSteps, Cond!ProducerSteps

\* Those under way who have not yet incremented the word or will look at the
\* tokens: a waiter that has read the present word can count on them, while a
\* producer between its increment and its FUTEX_WAKE only helps a sleeper.
Coming ==
  {p \in Producers : c_pc[p] \in {"signal", "inc"}}
    \cup {c \in Consumers : c_pc[c] \in {"relock", "dec", "locked"}}
    \cup {c \in Consumers : c_pc[c] \in {"sleep", "poll"} /\ c_futex # c_old[c]}

\* A waiter that the present word holds back.
Current(c) ==
  c_pc[c] \in {"unlock", "sleep", "asleep", "poll"} /\ c_futex = c_old[c]

CondEnough ==
  /\ \A c \in Consumers : Current(c) => tokens <= Cardinality(Coming)
  /\ \A c \in Consumers : c_pc[c] = "asleep" => tokens <= Cardinality(Cond!UnderWay)

\* The inductive invariant of the condition variable.
CondInv == CondBase /\ Cond!WaitersExact /\ CondEnough

\* Those on their way to look are finitely many.
LEMMA UnderWayFinite ==
  /\ Coming \subseteq Cond!UnderWay
  /\ IsFiniteSet(Coming) /\ IsFiniteSet(Coming')
  /\ IsFiniteSet(Cond!UnderWay) /\ IsFiniteSet(Cond!UnderWay')
  /\ Cardinality(Coming) \in Nat /\ Cardinality(Coming') \in Nat
  /\ Cardinality(Cond!UnderWay) \in Nat /\ Cardinality(Cond!UnderWay') \in Nat
  /\ Cardinality(Coming) <= Cardinality(Cond!UnderWay)
<1>1. IsFiniteSet(Consumers \cup Producers)
  BY ClientsAssumption, FS_Union
<1>2. /\ Cond!UnderWay \subseteq Consumers \cup Producers
      /\ Cond!UnderWay' \subseteq Consumers \cup Producers
      /\ Coming \subseteq Cond!UnderWay
      /\ Coming' \subseteq Consumers \cup Producers
  BY DEF Coming, Cond!UnderWay
<1>3. IsFiniteSet(Cond!UnderWay) /\ Cardinality(Cond!UnderWay) \in Nat
  BY <1>1, <1>2, NoFewer
<1>4. IsFiniteSet(Cond!UnderWay') /\ Cardinality(Cond!UnderWay') \in Nat
  BY <1>1, <1>2, NoFewer
<1>5. IsFiniteSet(Coming') /\ Cardinality(Coming') \in Nat
  BY <1>1, <1>2, NoFewer
<1>6. /\ IsFiniteSet(Coming) /\ Cardinality(Coming) \in Nat
      /\ Cardinality(Coming) <= Cardinality(Cond!UnderWay)
  BY <1>2, <1>3, NoFewer
<1> QED
  BY <1>2, <1>3, <1>4, <1>5, <1>6

\* A step in which nobody leaves and no waiter is newly held back.
LEMMA NobodyLeaves ==
  ASSUME CondTypes, CondEnough, tokens' = tokens,
         Coming \subseteq Coming', Cond!UnderWay \subseteq Cond!UnderWay',
         \A c \in Consumers : Current(c)' => Current(c),
         \A c \in Consumers : c_pc'[c] = "asleep" => c_pc[c] = "asleep" \/ Current(c)
  PROVE  CondEnough'
<1>1. Cardinality(Coming) <= Cardinality(Coming')
  BY UnderWayFinite, NoFewer
<1>2. Cardinality(Cond!UnderWay) <= Cardinality(Cond!UnderWay')
  BY UnderWayFinite, NoFewer
<1>3. ASSUME NEW c \in Consumers, Current(c)' PROVE tokens <= Cardinality(Coming')
  <2>1. tokens <= Cardinality(Coming)
    BY <1>3 DEF CondEnough
  <2> QED
    BY <1>1, <2>1, UnderWayFinite DEF CondTypes
<1>4. ASSUME NEW c \in Consumers, c_pc'[c] = "asleep"
      PROVE  tokens <= Cardinality(Cond!UnderWay')
  <2>1. tokens <= Cardinality(Cond!UnderWay) \/ tokens <= Cardinality(Coming)
    BY <1>4 DEF CondEnough
  <2> QED
    BY <1>2, <2>1, UnderWayFinite DEF CondTypes
<1> QED
  BY <1>3, <1>4 DEF CondEnough

\* Nobody waits for anything when there is no token.
LEMMA NothingToTake == ASSUME tokens' = 0 PROVE CondEnough'
  BY UnderWayFinite DEF CondEnough

\* A token comes with the producer that will signal for it.
LEMMA PutEnough ==
  ASSUME CondBase, CondEnough, NEW p \in Producers, Cond!Put(p) PROVE CondEnough'
<1> USE ClientsAssumption
    DEF Cond!From, Cond!Goto, CondBase, CondTypes, Cond!Clients, Cond!locals
<1>1. /\ p \notin Coming /\ p \in Coming' /\ Coming \subseteq Coming'
      /\ p \notin Cond!UnderWay /\ p \in Cond!UnderWay'
      /\ Cond!UnderWay \subseteq Cond!UnderWay'
  BY DEF Cond!Put, Coming, Cond!UnderWay
<1>2. /\ Cardinality(Coming) + 1 <= Cardinality(Coming')
      /\ Cardinality(Cond!UnderWay) + 1 <= Cardinality(Cond!UnderWay')
  BY <1>1, UnderWayFinite, OneMore
<1>3. /\ \A c \in Consumers : Current(c)' => Current(c)
      /\ \A c \in Consumers : c_pc'[c] = c_pc[c]
      /\ tokens' = tokens + 1
  BY DEF Cond!Put, Current
<1> QED
  BY <1>2, <1>3, UnderWayFinite DEF CondEnough

\* A token goes with the consumer that takes it.
LEMMA TakeEnough ==
  ASSUME CondBase, CondEnough, NEW c \in Consumers, Cond!Take(c) PROVE CondEnough'
<1> USE ClientsAssumption
    DEF Cond!From, Cond!Goto, CondBase, CondTypes, Cond!Clients, Cond!locals
<1>1. Coming \ {c} \subseteq Coming' /\ Cond!UnderWay \ {c} \subseteq Cond!UnderWay'
  BY DEF Cond!Take, Coming, Cond!UnderWay
<1>2. /\ Cardinality(Coming) <= Cardinality(Coming') + 1
      /\ Cardinality(Cond!UnderWay) <= Cardinality(Cond!UnderWay') + 1
  BY <1>1, UnderWayFinite, OneLess
<1>3. /\ \A d \in Consumers : Current(d)' => Current(d)
      /\ \A d \in Consumers : c_pc'[d] = "asleep" => c_pc[d] = "asleep"
      /\ tokens' = tokens - 1
  BY DEF Cond!Take, Current
<1> QED
  BY <1>2, <1>3, UnderWayFinite DEF CondEnough

\* pthread_cond_signal returns without a FUTEX_WAKE only if nobody waits.
LEMMA SignalLoadEnough ==
  ASSUME CondBase, Cond!WaitersExact, CondEnough,
         NEW p \in Producers, Cond!SignalLoad(p)
  PROVE  CondEnough'
<1> USE ClientsAssumption
    DEF Cond!From, Cond!Goto, CondBase, CondTypes, Cond!Clients, Cond!locals, Cond!client
<1>1. CASE waiters > 0
  <2>1. Coming \subseteq Coming' /\ Cond!UnderWay \subseteq Cond!UnderWay'
    BY <1>1 DEF Cond!SignalLoad, Coming, Cond!UnderWay
  <2>2. /\ \A c \in Consumers : Current(c)' => Current(c)
        /\ \A c \in Consumers : c_pc'[c] = c_pc[c]
        /\ tokens' = tokens
    BY <1>1 DEF Cond!SignalLoad, Current
  <2> QED
    BY <2>1, <2>2, NobodyLeaves
<1>2. CASE ~(waiters > 0)
  <2>1. Cardinality(Counted) = 0
    BY <1>2, CountedFinite, CondCardinality DEF Cond!WaitersExact, Counted
  <2>2. Counted = {}
    BY <2>1, CountedFinite, FS_EmptySet
  <2>3. \A c \in Consumers : ~Current(c)' /\ c_pc'[c] # "asleep"
    BY <2>2 DEF Cond!SignalLoad, Current, Counted, Cond!WaitLabels
  <2> QED
    BY <2>3 DEF CondEnough
<1> QED
  BY <1>1, <1>2

\* The increment lets every waiter go that is not asleep yet.
LEMMA SignalIncEnough ==
  ASSUME CondBase, CondEnough, NEW p \in Producers, Cond!SignalInc(p) PROVE CondEnough'
<1> USE ClientsAssumption
    DEF Cond!From, Cond!Goto, CondBase, CondTypes, Cond!Clients, Cond!locals, Cond!client
<1>1. Cond!UnderWay \subseteq Cond!UnderWay'
  BY DEF Cond!SignalInc, Cond!UnderWay, CondReads
<1>2. Cardinality(Cond!UnderWay) <= Cardinality(Cond!UnderWay')
  BY <1>1, UnderWayFinite, NoFewer
<1>3. \A c \in Consumers : ~Current(c)'
  BY DEF Cond!SignalInc, Current, CondReads
<1>4. tokens' = tokens /\ \A c \in Consumers : c_pc'[c] = c_pc[c]
  BY DEF Cond!SignalInc
<1> QED
  BY <1>2, <1>3, <1>4, UnderWayFinite DEF CondEnough

\* FUTEX_WAKE sends somebody in the producer's place if anybody stays asleep.
LEMMA SignalWakeEnough ==
  ASSUME CondBase, CondEnough, NEW p \in Producers, Cond!SignalWake(p) PROVE CondEnough'
<1> USE ClientsAssumption
    DEF CondBase, CondTypes, Cond!Clients, Cond!locals, Cond!client
<1>1. PICK S \in Cond!Woken(w[p]) :
        c_pc' = [t \in Cond!Clients |-> IF t \in S THEN "relock"
                                       ELSE IF t = p THEN "leave" ELSE c_pc[t]]
  BY DEF Cond!SignalWake
<1>2. S \subseteq Cond!Asleep
  BY DEF Cond!Woken
<1>3. c_pc[p] = "wake" /\ UNCHANGED <<c_futex, c_old, tokens>>
  BY DEF Cond!SignalWake
<1>4. Coming \subseteq Coming'
  BY <1>1, <1>2, <1>3 DEF Coming, Cond!Asleep
<1>5. Cardinality(Coming) <= Cardinality(Coming')
  BY <1>4, UnderWayFinite, NoFewer
<1>6. \A c \in Consumers : Current(c)' => Current(c)
  BY <1>1, <1>3 DEF Current
<1>7. ASSUME NEW c \in Consumers, c_pc'[c] = "asleep"
      PROVE  tokens' <= Cardinality(Cond!UnderWay')
  <2>1. c_pc[c] = "asleep" /\ c \notin S /\ c \in Cond!Asleep
    BY <1>1, <1>7 DEF Cond!Asleep
  <2>2. Cond!Cardinality(S) = w[p]
    BY <2>1 DEF Cond!Woken
  <2>3. S # {}
    <3>1. w[p] # 0
      BY <1>3 DEF CondReads
    <3>2. Cond!Cardinality({}) = 0
      BY CondCardinality, FS_EmptySet
    <3> QED
      BY <2>2, <3>1, <3>2
  <2>4. PICK d : d \in S
    BY <2>3
  <2>5. d \notin Cond!UnderWay /\ d \in Cond!UnderWay'
    BY <1>1, <1>2, <2>4 DEF Cond!UnderWay, Cond!Asleep
  <2>6. Cond!UnderWay \ {p} \subseteq Cond!UnderWay'
    BY <1>1, <1>2, <1>3 DEF Cond!UnderWay, Cond!Asleep
  <2>7. Cardinality(Cond!UnderWay) <= Cardinality(Cond!UnderWay')
    BY <2>5, <2>6, UnderWayFinite, Swap
  <2>8. tokens <= Cardinality(Cond!UnderWay)
    BY <2>1 DEF CondEnough
  <2> QED
    BY <1>3, <2>7, <2>8, UnderWayFinite
<1>8. ASSUME NEW c \in Consumers, Current(c)'
      PROVE  tokens' <= Cardinality(Coming')
  <2>1. tokens <= Cardinality(Coming)
    BY <1>6, <1>8 DEF CondEnough
  <2> QED
    BY <1>3, <1>5, <2>1, UnderWayFinite
<1> QED
  BY <1>7, <1>8 DEF CondEnough

\* Every other step keeps everybody under way.
LEMMA CondEnoughNext == CondInv /\ [Cond!Next]_(Cond!vars) => CondEnough'
<1> SUFFICES ASSUME CondInv, [Cond!Next]_(Cond!vars) PROVE CondEnough'
  OBVIOUS
<1> USE DEF CondInv
<1>1. ASSUME NEW c \in Consumers, Cond!Take(c) PROVE CondEnough'
  BY <1>1, TakeEnough
<1>2. ASSUME NEW p \in Producers, Cond!Put(p) PROVE CondEnough'
  BY <1>2, PutEnough
<1>3. ASSUME NEW p \in Producers, Cond!SignalLoad(p) PROVE CondEnough'
  BY <1>3, SignalLoadEnough
<1>4. ASSUME NEW p \in Producers, Cond!SignalInc(p) PROVE CondEnough'
  BY <1>4, SignalIncEnough
<1>5. ASSUME NEW p \in Producers, Cond!SignalWake(p) PROVE CondEnough'
  BY <1>5, SignalWakeEnough
<1> USE ClientsAssumption
    DEF Cond!From, Cond!Goto, CondBase, CondTypes, Cond!Clients, Cond!locals, Cond!client
<1>6. ASSUME NEW c \in Consumers, Cond!Wait(c) PROVE CondEnough'
  BY <1>6, NothingToTake DEF Cond!Wait
<1>7. ASSUME NEW c \in Consumers, Cond!WaitLoad(c) PROVE CondEnough'
  BY <1>7, NothingToTake DEF Cond!WaitLoad, CondReads
<1>8. ASSUME UNCHANGED <<tokens, c_futex, c_old>>,
             Coming \subseteq Coming', Cond!UnderWay \subseteq Cond!UnderWay',
             \A c \in Consumers : Current(c)' => Current(c),
             \A c \in Consumers : c_pc'[c] = "asleep" => c_pc[c] = "asleep" \/ Current(c)
      PROVE  CondEnough'
  BY <1>8, NobodyLeaves
<1>9. ASSUME NEW c \in Consumers, Cond!WaitReturn(c) PROVE CondEnough'
  <2>1. CASE c_pc'[c] = "leave"
    BY <1>9, <2>1, NothingToTake DEF Cond!WaitReturn
  <2>2. CASE c_pc'[c] = "locked"
    BY <1>8, <1>9, <2>2 DEF Cond!WaitReturn, Coming, Cond!UnderWay, Current
  <2> QED
    BY <1>9, <2>1, <2>2 DEF Cond!WaitReturn
<1>10. ASSUME NEW t \in Cond!Clients, Cond!LockMutex(t) PROVE CondEnough'
  BY <1>8, <1>10 DEF Cond!LockMutex, Coming, Cond!UnderWay, Current
<1>11. ASSUME NEW t \in Cond!Clients, Cond!Leave(t) PROVE CondEnough'
  BY <1>8, <1>11 DEF Cond!Leave, Coming, Cond!UnderWay, Current
<1>12. ASSUME NEW c \in Consumers, Cond!WaitUnlock(c) PROVE CondEnough'
  BY <1>8, <1>12 DEF Cond!WaitUnlock, Coming, Cond!UnderWay, Current
<1>13. ASSUME NEW c \in Consumers, Cond!WaitSleep(c) PROVE CondEnough'
  BY <1>8, <1>13 DEF Cond!WaitSleep, Coming, Cond!UnderWay, Current
<1>14. ASSUME NEW c \in Consumers, Cond!SpuriousWake(c) PROVE CondEnough'
  BY <1>8, <1>14 DEF Cond!SpuriousWake, Coming, Cond!UnderWay, Current
<1>15. ASSUME NEW c \in Consumers, Cond!Poll(c) \/ Cond!TimedOut(c) PROVE CondEnough'
  BY <1>8, <1>15 DEF Cond!Poll, Cond!TimedOut, Coming, Cond!UnderWay, Current
<1>16. ASSUME NEW c \in Consumers, Cond!Relock(c) PROVE CondEnough'
  BY <1>8, <1>16 DEF Cond!Relock, Coming, Cond!UnderWay, Current
<1>17. CASE UNCHANGED Cond!vars
  BY <1>8, <1>17 DEF Cond!vars, Coming, Cond!UnderWay, Current
<1> QED
  BY <1>1, <1>2, <1>3, <1>4, <1>5, <1>6, <1>7, <1>9, <1>10, <1>11, <1>12,
     <1>13, <1>14, <1>15, <1>16, <1>17
  DEF Cond!Next, Cond!ConsumerSteps, Cond!ProducerSteps

\* The invariant of the condition variable and its clients.
THEOREM CondInvariance == Cond!Spec => []CondInv
<1>1. Cond!Init => CondInv
  <2> SUFFICES ASSUME Cond!Init PROVE CondInv
    OBVIOUS
  <2>1. Counted = {} /\ Cardinality(Counted) = 0
    BY FS_EmptySet DEF Cond!Init, Counted, Cond!Clients, Cond!WaitLabels
  <2>2. Cond!WaitersExact
    BY <2>1, CondCardinality DEF Cond!Init, Cond!WaitersExact, Counted
  <2>3. CondEnough
    BY UnderWayFinite DEF Cond!Init, CondEnough
  <2> QED
    BY <2>2, <2>3, CondBaseInit DEF CondInv
<1>2. CondInv /\ [Cond!Next]_(Cond!vars) => CondInv'
  BY CondBaseNext, CondCountNext, CondEnoughNext DEF CondInv
<1> QED
  BY <1>1, <1>2, PTL DEF Cond!Spec

\* The invariant says what the run checks.
LEMMA CondInvImplies == CondInv => SignalInFlight
<1> SUFFICES ASSUME CondInv, NEW c \in Consumers, Cond!Blocked(c)
             PROVE  tokens <= Cond!Cardinality(Cond!UnderWay)
  BY DEF CondInv, SignalInFlight, Cond!SignalInFlight
<1>1. CASE c_pc[c] = "asleep"
  BY <1>1, CondCardinality DEF CondInv, CondEnough
<1>2. CASE Current(c)
  BY <1>2, CondCardinality, UnderWayFinite DEF CondInv, CondEnough, CondBase, CondTypes
<1> QED
  BY <1>1, <1>2 DEF Cond!Blocked, Current

\* In the composition the condition variable makes its own steps or none.
LEMMA CondPart == MCSpec => Cond!Spec
<1>1. MCInit => Cond!Init
  BY DEF MCInit
<1>2. [MCNext]_all => [Cond!Next]_(Cond!vars)
  BY DEF MCNext, InMutex, InRwlock, InCond, Stopped, all, condvars, Cond!vars
<1> QED
  BY <1>1, <1>2, PTL DEF MCSpec, Cond!Spec

\* pthread_cond_signal wakes enough: while a consumer is held back in
\* pthread_cond_wait, every token has a signal or a consumer under way for it,
\* and waiters counts the threads that wait.
THEOREM SignalsSuffice == MCSpec => []SignalInFlight
  BY CondPart, CondInvariance, CondInvImplies, PTL

-----------------------------------------------------------------------------
(* The read-write lock. *)

\* The read-write lock counts with the same Cardinality.
LEMMA RwCardinality == ASSUME NEW S PROVE Rw!Cardinality(S) = Cardinality(S)
  BY DEF Rw!Cardinality, Cardinality

RwTypes ==
  /\ rw_pc \in [Rw!Users -> Rw!Labels]
  /\ rw_holds \in [Rw!Users -> {"none", "read", "write"}]

\* The writers that write_waiters counts.
Queued == {t \in Rw!Users : rw_pc[t] \in Rw!WrLabels}

WaitersCounted == write_waiters = Cardinality(Queued)

\* The threads waiting to write are finitely many.
LEMMA QueuedFinite ==
  /\ IsFiniteSet(Queued) /\ IsFiniteSet(Queued')
  /\ Cardinality(Queued) \in Nat /\ Cardinality(Queued') \in Nat
<1>1. IsFiniteSet(Rw!Users)
  BY UsersAssumption, FS_Union DEF Rw!Users
<1>2. Queued \subseteq Rw!Users /\ Queued' \subseteq Rw!Users
  BY DEF Queued
<1> QED
  BY <1>1, <1>2, NoFewer

\* Every step keeps the fields and threads of the read-write lock in their types.
LEMMA RwTypesNext == RwTypes /\ [Rw!Next]_(Rw!vars) => RwTypes'
<1> SUFFICES ASSUME RwTypes, [Rw!Next]_(Rw!vars) PROVE RwTypes'
  OBVIOUS
<1> USE DEF RwTypes, Rw!Labels, Rw!RdLabels, Rw!WrLabels, Rw!From, Rw!Goto, Rw!Hold, Rw!Users
<1>1. ASSUME NEW t \in Readers, Rw!RdLock(t) \/ Rw!RdTimeout(t) PROVE RwTypes'
  BY <1>1 DEF Rw!RdLock, Rw!RdTimeout
<1>2. ASSUME NEW t \in Writers, Rw!WrLock(t) \/ Rw!WrTimeout(t) \/ Rw!TryWrLock(t)
      PROVE  RwTypes'
  BY <1>2 DEF Rw!WrLock, Rw!WrTimeout, Rw!TryWrLock
<1>3. ASSUME NEW t \in Rw!Users, Rw!RdSteps(t) PROVE RwTypes'
  BY <1>3 DEF Rw!RdSteps, Rw!RdWriters, Rw!RdWaiters, Rw!RdWait, Rw!RdInc, Rw!Refused
<1>4. ASSUME NEW t \in Rw!Users, Rw!WrSteps(t) PROVE RwTypes'
  BY <1>4
  DEF Rw!WrSteps, Rw!WrReaders, Rw!WrWriters, Rw!WrWait, Rw!WrDec, Rw!WrStore, Rw!WrTid
<1>5. ASSUME NEW t \in Rw!Users, Rw!TrySteps(t) PROVE RwTypes'
  BY <1>5 DEF Rw!TrySteps, Rw!TryReaders, Rw!TryWord, Rw!TryCas
<1>6. ASSUME NEW t \in Rw!Users, Rw!UnSteps(t) PROVE RwTypes'
  <2>1. CASE Rw!UnWake(t)
    BY <2>1 DEF Rw!UnWake, Rw!WakeOne
  <2> QED
    BY <1>6, <2>1
    DEF Rw!UnSteps, Rw!Unlock, Rw!UnWriters, Rw!UnTid, Rw!UnClear, Rw!UnClearTid, Rw!UnDec
<1>7. ASSUME NEW t \in Rw!Users, Rw!SpuriousWake(t) PROVE RwTypes'
  BY <1>7 DEF Rw!SpuriousWake
<1>8. CASE UNCHANGED Rw!vars
  BY <1>8 DEF Rw!vars
<1> QED
  BY <1>1, <1>2, <1>3, <1>4, <1>5, <1>6, <1>7, <1>8 DEF Rw!Next, Rw!Steps

\* Every call that begins to wait to write counts itself once and uncounts
\* itself once, whichever way it ends.
LEMMA WaitersCountedNext ==
  RwTypes /\ WaitersCounted /\ [Rw!Next]_(Rw!vars) => WaitersCounted'
<1> SUFFICES ASSUME RwTypes, WaitersCounted, [Rw!Next]_(Rw!vars) PROVE WaitersCounted'
  OBVIOUS
<1> USE DEF RwTypes, Rw!From, Rw!Goto, Rw!Users
<1>1. ASSUME Queued' = Queued, write_waiters' = write_waiters PROVE WaitersCounted'
  BY <1>1 DEF WaitersCounted
<1>2. ASSUME NEW t \in Queued, Queued' = Queued \ {t}, write_waiters' = write_waiters - 1
      PROVE  WaitersCounted'
  BY <1>2, Loses, QueuedFinite DEF WaitersCounted
<1>3. ASSUME NEW t \in Readers, Rw!RdLock(t) \/ Rw!RdTimeout(t) PROVE WaitersCounted'
  BY <1>1, <1>3 DEF Rw!RdLock, Rw!RdTimeout, Rw!fields, Queued, Rw!WrLabels
<1>4. ASSUME NEW t \in Writers, Rw!WrLock(t) PROVE WaitersCounted'
  <2>1. t \notin Queued /\ Queued' = Queued \cup {t}
    BY <1>4 DEF Rw!WrLock, Queued, Rw!WrLabels
  <2>2. write_waiters' = write_waiters + 1
    BY <1>4 DEF Rw!WrLock
  <2> QED
    BY <2>1, <2>2, Gains, QueuedFinite DEF WaitersCounted
<1>5. ASSUME NEW t \in Writers, Rw!WrTimeout(t) PROVE WaitersCounted'
  <2>1. t \in Queued /\ Queued' = Queued \ {t}
    BY <1>5 DEF Rw!WrTimeout, Queued, Rw!WrLabels
  <2> QED
    BY <1>2, <1>5, <2>1 DEF Rw!WrTimeout
<1>6. ASSUME NEW t \in Writers, Rw!TryWrLock(t) PROVE WaitersCounted'
  BY <1>1, <1>6 DEF Rw!TryWrLock, Rw!fields, Queued, Rw!WrLabels
<1>7. ASSUME NEW t \in Rw!Users, Rw!RdSteps(t) PROVE WaitersCounted'
  BY <1>1, <1>7
  DEF Rw!RdSteps, Rw!RdWriters, Rw!RdWaiters, Rw!RdWait, Rw!RdInc, Rw!Refused, Rw!fields,
      Queued, Rw!WrLabels
<1>8. ASSUME NEW t \in Rw!Users, Rw!WrSteps(t) PROVE WaitersCounted'
  <2>1. CASE Rw!WrDec(t)
    <3>1. t \in Queued /\ Queued' = Queued \ {t}
      BY <2>1 DEF Rw!WrDec, Queued, Rw!WrLabels
    <3> QED
      BY <1>2, <2>1, <3>1 DEF Rw!WrDec
  <2>2. CASE Rw!WrReaders(t) \/ Rw!WrWriters(t) \/ Rw!WrWait(t)
    BY <1>1, <2>2
    DEF Rw!WrReaders, Rw!WrWriters, Rw!WrWait, Rw!fields, Queued, Rw!WrLabels
  <2>3. CASE Rw!WrStore(t) \/ Rw!WrTid(t)
    BY <1>1, <2>3 DEF Rw!WrStore, Rw!WrTid, Queued, Rw!WrLabels
  <2> QED
    BY <1>8, <2>1, <2>2, <2>3 DEF Rw!WrSteps
<1>9. ASSUME NEW t \in Rw!Users, Rw!TrySteps(t) PROVE WaitersCounted'
  BY <1>1, <1>9
  DEF Rw!TrySteps, Rw!TryReaders, Rw!TryWord, Rw!TryCas, Rw!fields, Queued, Rw!WrLabels
<1>10. ASSUME NEW t \in Rw!Users, Rw!UnSteps(t) PROVE WaitersCounted'
  <2>1. CASE Rw!UnWake(t)
    BY <1>1, <2>1 DEF Rw!UnWake, Rw!WakeOne, Rw!fields, Queued, Rw!WrLabels
  <2>2. CASE Rw!Unlock(t) \/ Rw!UnWriters(t) \/ Rw!UnTid(t)
    BY <1>1, <2>2 DEF Rw!Unlock, Rw!UnWriters, Rw!UnTid, Rw!fields, Queued, Rw!WrLabels
  <2>3. CASE Rw!UnClear(t) \/ Rw!UnClearTid(t) \/ Rw!UnDec(t)
    BY <1>1, <2>3 DEF Rw!UnClear, Rw!UnClearTid, Rw!UnDec, Queued, Rw!WrLabels
  <2> QED
    BY SMTT(30), <1>10, <2>1, <2>2, <2>3 DEF Rw!UnSteps
<1>11. ASSUME NEW t \in Rw!Users, Rw!SpuriousWake(t) PROVE WaitersCounted'
  BY <1>1, <1>11 DEF Rw!SpuriousWake, Rw!fields, Queued, Rw!WrLabels
<1>12. CASE UNCHANGED Rw!vars
  BY SMTT(30), <1>1, <1>12 DEF Rw!vars, Queued
<1> QED
  BY <1>3, <1>4, <1>5, <1>6, <1>7, <1>8, <1>9, <1>10, <1>11, <1>12 DEF Rw!Next, Rw!Steps

\* How unlock tells the two sides apart, when there is one writer: a reader in
\* unlock holds the lock for reading and is never the writer_tid; once wrlock has
\* returned, and as long as unlock still has to find it out, the fields name it.
Given == {"idle", "un_writers", "un_tid", "un_clear"}

ReaderRole(t) ==
  /\ rw_pc[t] \in Rw!RdLabels \cup {"idle", "un_writers", "un_tid", "un_dec", "un_wakelast"}
  /\ rw_holds[t] \in {"none", "read"}
  /\ rw_pc[t] \in {"un_writers", "un_tid", "un_dec"} => rw_holds[t] = "read"
  /\ rw_pc[t] \in Rw!RdLabels => rw_holds[t] = "none"

WriterRole(t) ==
  /\ rw_pc[t] \notin Rw!RdLabels \cup {"un_dec", "un_wakelast"}
  /\ rw_holds[t] \in {"none", "write"}
  /\ rw_pc[t] \in Given \ {"idle"} => rw_holds[t] = "write"
  /\ rw_pc[t] = "wr_tid" => writers = 1
  /\ rw_holds[t] = "write" => rw_pc[t] \in Given /\ writers = 1 /\ writer_tid = t

RwRoles ==
  /\ writer_tid \in Writers \cup {None}
  /\ \A t \in Readers : ReaderRole(t)
  /\ \A t \in Writers : WriterRole(t)

\* The threads that readers counts.
Reading == {t \in Rw!Users : rw_holds[t] = "read"}

ReadersCounted == readers = Cardinality(Reading)

OneWriter == \A a, b \in Writers : a = b

\* A step of t that leaves every other thread where it is.
Alone(t) == \A u \in Rw!Users \ {t} : rw_pc'[u] = rw_pc[u] /\ rw_holds'[u] = rw_holds[u]

\* A step of one reader is judged by the role of that reader alone.
LEMMA ReaderMoves ==
  ASSUME RwRoles, NEW t \in Readers, Alone(t), UNCHANGED <<writers, writer_tid>>,
         ReaderRole(t)'
  PROVE  RwRoles'
<1>1. ASSUME NEW u \in Readers PROVE ReaderRole(u)'
  BY <1>1 DEF RwRoles, ReaderRole, Alone, Rw!Users
<1>2. ASSUME NEW u \in Writers PROVE WriterRole(u)'
  BY <1>2, UsersAssumption DEF RwRoles, WriterRole, Alone, Rw!Users
<1> QED
  BY <1>1, <1>2 DEF RwRoles

\* A step of the one writer is judged by the role of the writer alone.
LEMMA WriterMoves ==
  ASSUME OneWriter, RwRoles, NEW t \in Writers, Alone(t), writer_tid' \in Writers \cup {None},
         WriterRole(t)'
  PROVE  RwRoles'
<1>1. ASSUME NEW u \in Readers PROVE ReaderRole(u)'
  BY <1>1, UsersAssumption DEF RwRoles, ReaderRole, Alone, Rw!Users
<1>2. ASSUME NEW u \in Writers PROVE WriterRole(u)'
  BY <1>2 DEF OneWriter
<1> QED
  BY <1>1, <1>2 DEF RwRoles

\* Where a step of t leads, and that it leads nobody else anywhere.
LEMMA Walks ==
  ASSUME RwTypes, NEW t \in Rw!Users, NEW here, NEW there, Rw!From(t, here, there)
  PROVE  /\ rw_pc[t] = here /\ rw_pc'[t] = there
         /\ rw_holds' = rw_holds => Alone(t)
         /\ \A what : Rw!Hold(t, what) => Alone(t) /\ rw_holds'[t] = what
BY DEF RwTypes, Rw!From, Rw!Goto, Rw!Hold, Alone

\* A reader keeps its role in rdlock and in its half of unlock.
LEMMA ReaderSteps ==
  ASSUME RwTypes, RwRoles, NEW t \in Readers,
         \/ Rw!RdLock(t) \/ Rw!RdTimeout(t) \/ Rw!RdSteps(t) \/ Rw!SpuriousWake(t)
         \/ Rw!Unlock(t) \/ Rw!UnWriters(t) \/ Rw!UnTid(t) \/ Rw!UnDec(t)
  PROVE  RwRoles'
<1> t \in Rw!Users /\ t \notin Writers /\ writer_tid # t
  BY UsersAssumption DEF RwRoles, Rw!Users
<1>0. ReaderRole(t)
  BY DEF RwRoles
<1>1. ASSUME NEW here, NEW there, Rw!From(t, here, there), UNCHANGED <<writers, writer_tid>>,
             \/ rw_holds' = rw_holds /\ rw_holds[t] = "none"
                  /\ there \in Rw!RdLabels \cup {"idle", "un_wakelast"}
             \/ rw_holds' = rw_holds /\ rw_holds[t] = "read"
                  /\ there \in {"idle", "un_writers", "un_tid", "un_dec"}
             \/ Rw!Hold(t, "read") /\ there = "idle"
             \/ Rw!Hold(t, "none") /\ there \in {"idle", "un_wakelast"}
      PROVE  RwRoles'
  <2>1. Alone(t) /\ rw_pc'[t] = there
    BY <1>1, Walks
  <2>2. ReaderRole(t)'
    BY <1>1, <2>1, Walks DEF ReaderRole, Rw!RdLabels
  <2> QED
    BY <1>1, <2>1, <2>2, ReaderMoves
<1>2. CASE Rw!RdLock(t) \/ Rw!RdTimeout(t)
  <2>1. rw_holds[t] = "none"
    BY <1>0, <1>2 DEF Rw!RdLock, Rw!RdTimeout, Rw!From, ReaderRole, Rw!RdLabels
  <2> QED
    BY <1>1, <1>2, <2>1 DEF Rw!RdLock, Rw!RdTimeout, Rw!fields, Rw!RdLabels
<1>3. CASE Rw!RdWriters(t) \/ Rw!RdWaiters(t) \/ Rw!RdWait(t)
  <2>1. rw_holds[t] = "none"
    BY <1>0, <1>3 DEF Rw!RdWriters, Rw!RdWaiters, Rw!RdWait, Rw!From, ReaderRole, Rw!RdLabels
  <2> QED
    BY <1>1, <1>3, <2>1
    DEF Rw!RdWriters, Rw!RdWaiters, Rw!RdWait, Rw!Refused, Rw!fields, Rw!RdLabels
<1>4. CASE Rw!RdInc(t) \/ Rw!UnDec(t)
  BY <1>1, <1>4 DEF Rw!RdInc, Rw!UnDec
<1>5. CASE Rw!SpuriousWake(t)
  <2>1. rw_holds[t] = "none" /\ Rw!From(t, "rd_asleep", "rd_writers")
    BY <1>0, <1>5 DEF Rw!SpuriousWake, Rw!From, ReaderRole, Rw!RdLabels
  <2> QED
    BY <1>1, <1>5, <2>1 DEF Rw!SpuriousWake, Rw!fields, Rw!RdLabels
<1>6. CASE Rw!Unlock(t) \/ Rw!UnWriters(t) \/ Rw!UnTid(t)
  <2>1. rw_holds[t] = "read"
    BY <1>0, <1>6 DEF Rw!Unlock, Rw!UnWriters, Rw!UnTid, Rw!From, ReaderRole
  <2> QED
    BY <1>1, <1>6, <2>1 DEF Rw!Unlock, Rw!UnWriters, Rw!UnTid, Rw!fields
<1> QED
  BY <1>2, <1>3, <1>4, <1>5, <1>6 DEF Rw!RdSteps

\* The one writer keeps its role in wrlock, trywrlock and its half of unlock.
LEMMA WriterSteps ==
  ASSUME OneWriter, RwTypes, RwRoles, NEW t \in Writers,
         \/ Rw!WrLock(t) \/ Rw!WrTimeout(t) \/ Rw!TryWrLock(t) \/ Rw!WrSteps(t)
         \/ Rw!TrySteps(t) \/ Rw!SpuriousWake(t) \/ Rw!Unlock(t) \/ Rw!UnWriters(t)
         \/ Rw!UnTid(t) \/ Rw!UnClear(t) \/ Rw!UnClearTid(t)
  PROVE  RwRoles'
<1> t \in Rw!Users
  BY DEF Rw!Users
<1> DEFINE Apart == Rw!WrLabels \cup {"idle", "wr_store", "try_readers", "try_writers",
                                      "try_cas", "un_cleartid", "un_wakew"}
<1>0. WriterRole(t) /\ writer_tid \in Writers \cup {None}
  BY DEF RwRoles
<1>1. ASSUME NEW here, NEW there, Rw!From(t, here, there),
             writer_tid' \in Writers \cup {None},
             \/ rw_holds' = rw_holds /\ rw_holds[t] = "none"
                  /\ there \in Apart \cup {"wr_tid"} /\ (there = "wr_tid" => writers' = 1)
             \/ rw_holds' = rw_holds /\ rw_holds[t] = "write" /\ there \in Given
                  /\ writers' = 1 /\ writer_tid' = t
             \/ Rw!Hold(t, "write") /\ there = "idle" /\ writers' = 1 /\ writer_tid' = t
             \/ Rw!Hold(t, "none") /\ there = "un_cleartid"
      PROVE  RwRoles'
  <2>1. Alone(t) /\ rw_pc'[t] = there
    BY <1>1, Walks
  <2>2. \/ rw_holds'[t] = "none" /\ there \in Apart \cup {"wr_tid"}
           /\ (there = "wr_tid" => writers' = 1)
        \/ rw_holds'[t] = "write" /\ there \in Given /\ writers' = 1 /\ writer_tid' = t
    BY <1>1, Walks DEF Given
  <2>3. WriterRole(t)'
    BY <2>1, <2>2 DEF WriterRole, Given, Rw!RdLabels, Rw!WrLabels
  <2> QED
    BY <1>1, <2>1, <2>3, WriterMoves
<1>2. CASE Rw!WrLock(t) \/ Rw!WrTimeout(t) \/ Rw!TryWrLock(t)
  <2>1. rw_holds[t] = "none"
    BY <1>0, <1>2 DEF Rw!WrLock, Rw!WrTimeout, Rw!TryWrLock, Rw!From, WriterRole, Given
  <2> QED
    BY <1>0, <1>1, <1>2, <2>1 DEF Rw!WrLock, Rw!WrTimeout, Rw!TryWrLock, Rw!fields, Rw!WrLabels
<1>3. CASE Rw!WrReaders(t) \/ Rw!WrWriters(t) \/ Rw!WrWait(t)
  <2>1. rw_holds[t] = "none"
    BY <1>0, <1>3 DEF Rw!WrReaders, Rw!WrWriters, Rw!WrWait, Rw!From, WriterRole, Given
  <2> QED
    BY <1>0, <1>1, <1>3, <2>1 DEF Rw!WrReaders, Rw!WrWriters, Rw!WrWait, Rw!fields, Rw!WrLabels
<1>4. CASE Rw!WrDec(t) \/ Rw!WrStore(t)
  <2>1. rw_holds[t] = "none"
    BY <1>0, <1>4 DEF Rw!WrDec, Rw!WrStore, Rw!From, WriterRole, Given
  <2> QED
    BY <1>0, <1>1, <1>4, <2>1 DEF Rw!WrDec, Rw!WrStore
<1>5. CASE Rw!WrTid(t)
  <2>1. writers = 1
    BY <1>0, <1>5 DEF Rw!WrTid, Rw!From, WriterRole
  <2> QED
    BY <1>1, <1>5, <2>1 DEF Rw!WrTid
<1>6. CASE Rw!TrySteps(t)
  <2>1. rw_holds[t] = "none"
    BY <1>0, <1>6
    DEF Rw!TrySteps, Rw!TryReaders, Rw!TryWord, Rw!TryCas, Rw!From, WriterRole, Given
  <2> QED
    BY <1>0, <1>1, <1>6, <2>1
    DEF Rw!TrySteps, Rw!TryReaders, Rw!TryWord, Rw!TryCas, Rw!fields
<1>7. CASE Rw!SpuriousWake(t)
  <2>1. rw_holds[t] = "none" /\ Rw!From(t, "wr_asleep", "wr_readers")
    BY <1>0, <1>7 DEF Rw!SpuriousWake, Rw!From, WriterRole, Given, Rw!RdLabels
  <2> QED
    BY <1>0, <1>1, <1>7, <2>1 DEF Rw!SpuriousWake, Rw!fields, Rw!WrLabels
<1>8. CASE Rw!Unlock(t) \/ Rw!UnWriters(t) \/ Rw!UnTid(t)
  <2>1. rw_holds[t] = "write" /\ writers = 1 /\ writer_tid = t
    BY <1>0, <1>8 DEF Rw!Unlock, Rw!UnWriters, Rw!UnTid, Rw!From, WriterRole, Given
  <2> QED
    BY <1>1, <1>8, <2>1 DEF Rw!Unlock, Rw!UnWriters, Rw!UnTid, Rw!fields, Given
<1>9. CASE Rw!UnClear(t)
  BY <1>0, <1>1, <1>9 DEF Rw!UnClear
<1>10. CASE Rw!UnClearTid(t)
  <2>1. rw_holds[t] = "none"
    BY <1>0, <1>10 DEF Rw!UnClearTid, Rw!From, WriterRole, Given
  <2> QED
    BY <1>1, <1>10, <2>1 DEF Rw!UnClearTid
<1> QED
  BY <1>2, <1>3, <1>4, <1>5, <1>6, <1>7, <1>8, <1>9, <1>10 DEF Rw!WrSteps

\* unlock's FUTEX_WAKE moves two threads, each within its role.
LEMMA WakeSteps ==
  ASSUME RwTypes, RwRoles, NEW t \in Rw!Users, Rw!UnWake(t)
  PROVE  RwRoles'
<1>1. UNCHANGED <<writers, writer_tid, rw_holds>>
  BY DEF Rw!UnWake, Rw!WakeOne, Rw!fields
<1>2. ASSUME NEW u \in Rw!Users
      PROVE  \/ rw_pc'[u] = rw_pc[u]
             \/ rw_pc[u] = "un_wakew" /\ rw_pc'[u] = "un_waker"
             \/ rw_pc[u] \in {"un_waker", "un_wakelast"} /\ rw_pc'[u] = "idle"
             \/ rw_pc[u] = "wr_asleep" /\ rw_pc'[u] = "wr_readers"
             \/ rw_pc[u] = "rd_asleep" /\ rw_pc'[u] = "rd_writers"
  BY DEF RwTypes, Rw!UnWake, Rw!WakeOne, Rw!Goto
<1>3. ASSUME NEW u \in Readers PROVE ReaderRole(u)'
  <2>1. ReaderRole(u) /\ u \in Rw!Users
    BY DEF RwRoles, Rw!Users
  <2> QED
    BY <1>1, <1>2, <2>1 DEF ReaderRole, Rw!RdLabels
<1>4. ASSUME NEW u \in Writers PROVE WriterRole(u)'
  <2>1. WriterRole(u) /\ u \in Rw!Users
    BY DEF RwRoles, Rw!Users
  <2> QED
    BY <1>1, <1>2, <2>1 DEF WriterRole, Given, Rw!RdLabels
<1> QED
  BY <1>1, <1>3, <1>4 DEF RwRoles

\* Every step keeps readers and the one writer in their roles.
LEMMA RwRolesNext ==
  ASSUME OneWriter, RwTypes, RwRoles, [Rw!Next]_(Rw!vars)
  PROVE  RwRoles'
<1>1. ASSUME NEW t \in Rw!Users, Rw!RdSteps(t) PROVE RwRoles'
  <2>1. t \in Readers
    BY <1>1 DEF Rw!RdSteps, Rw!RdWriters, Rw!RdWaiters, Rw!RdWait, Rw!RdInc, Rw!From,
                Rw!RdLabels, RwRoles, WriterRole, Rw!Users
  <2> QED
    BY <1>1, <2>1, ReaderSteps
<1>2. ASSUME NEW t \in Rw!Users, Rw!WrSteps(t) \/ Rw!TrySteps(t) PROVE RwRoles'
  <2>1. rw_pc[t] \in Rw!WrLabels \cup {"wr_store", "wr_tid", "try_readers", "try_writers",
                                        "try_cas"}
    BY <1>2 DEF Rw!WrSteps, Rw!WrReaders, Rw!WrWriters, Rw!WrWait, Rw!WrDec, Rw!WrStore,
                Rw!WrTid, Rw!TrySteps, Rw!TryReaders, Rw!TryWord, Rw!TryCas, Rw!From,
                Rw!WrLabels
  <2>2. t \in Writers
    BY <2>1 DEF Rw!WrLabels, Rw!RdLabels, RwRoles, ReaderRole, Rw!Users
  <2> QED
    BY <1>2, <2>2, WriterSteps
<1>3. ASSUME NEW t \in Rw!Users, Rw!UnSteps(t) PROVE RwRoles'
  <2>1. CASE Rw!UnWake(t)
    BY <2>1, WakeSteps
  <2>2. CASE Rw!Unlock(t) \/ Rw!UnWriters(t) \/ Rw!UnTid(t)
    BY <2>2, ReaderSteps, WriterSteps DEF Rw!Users
  <2>3. CASE Rw!UnClear(t) \/ Rw!UnClearTid(t)
    <3>1. t \in Writers
      BY <2>3 DEF Rw!UnClear, Rw!UnClearTid, Rw!From, Rw!RdLabels, RwRoles, ReaderRole,
                  Rw!Users
    <3> QED
      BY <2>3, <3>1, WriterSteps
  <2>4. CASE Rw!UnDec(t)
    <3>1. t \in Readers
      BY <2>4 DEF Rw!UnDec, Rw!From, RwRoles, WriterRole, Rw!Users
    <3> QED
      BY <2>4, <3>1, ReaderSteps
  <2> QED
    BY <1>3, <2>1, <2>2, <2>3, <2>4 DEF Rw!UnSteps
<1>4. ASSUME NEW t \in Rw!Users, Rw!SpuriousWake(t) PROVE RwRoles'
  BY <1>4, ReaderSteps, WriterSteps DEF Rw!Users
<1>5. CASE UNCHANGED Rw!vars
  BY <1>5 DEF Rw!vars, RwRoles, ReaderRole, WriterRole
<1> QED
  BY <1>1, <1>2, <1>3, <1>4, <1>5, ReaderSteps, WriterSteps DEF Rw!Next, Rw!Steps

\* readers moves with the threads that hold the lock for reading: only a reader
\* reaches the decrement of unlock, and it holds the lock there.
LEMMA ReadersCountedNext ==
  ASSUME RwTypes, RwRoles, ReadersCounted, [Rw!Next]_(Rw!vars)
  PROVE  ReadersCounted'
<1> USE UsersAssumption DEF RwTypes, Rw!From, Rw!Goto, Rw!Users
<1>0. IsFiniteSet(Reading)
  <2>1. IsFiniteSet(Rw!Users) /\ Reading \subseteq Rw!Users
    BY FS_Union DEF Reading
  <2> QED
    BY <2>1, NoFewer
<1>1. ASSUME Reading' = Reading, readers' = readers PROVE ReadersCounted'
  BY <1>1 DEF ReadersCounted
<1>2. ASSUME NEW t \in Rw!Users, Rw!RdInc(t) PROVE ReadersCounted'
  <2>1. t \notin Reading
    BY <1>2 DEF Rw!RdInc, RwRoles, ReaderRole, WriterRole, Rw!RdLabels, Reading
  <2>2. Reading' = Reading \cup {t} /\ readers' = readers + 1
    BY <1>2 DEF Rw!RdInc, Rw!Hold, Reading
  <2> QED
    BY <1>0, <2>1, <2>2, Gains DEF ReadersCounted
<1>3. ASSUME NEW t \in Rw!Users, Rw!UnDec(t) PROVE ReadersCounted'
  <2>1. t \in Reading
    BY <1>3 DEF Rw!UnDec, RwRoles, ReaderRole, WriterRole, Reading
  <2>2. Reading' = Reading \ {t} /\ readers' = readers - 1
    BY SMTT(30), <1>3 DEF Rw!UnDec, Rw!Hold, Reading
  <2> QED
    BY <1>0, <2>1, <2>2, Loses DEF ReadersCounted
<1>4. ASSUME NEW t \in Rw!Users, Rw!WrTid(t) \/ Rw!UnClear(t) PROVE ReadersCounted'
  BY <1>1, <1>4 DEF Rw!WrTid, Rw!UnClear, Rw!Hold, RwRoles, ReaderRole, WriterRole, Rw!RdLabels,
                 Reading
<1>5. ASSUME UNCHANGED <<readers, rw_holds>> PROVE ReadersCounted'
  BY <1>1, <1>5 DEF Reading
<1>6. ASSUME NEW t \in Rw!Users, Rw!RdSteps(t) PROVE ReadersCounted'
  BY SMTT(30), <1>2, <1>5, <1>6
  DEF Rw!RdSteps, Rw!RdWriters, Rw!RdWaiters, Rw!RdWait, Rw!fields
<1>7. ASSUME NEW t \in Rw!Users, Rw!WrSteps(t) PROVE ReadersCounted'
  BY <1>4, <1>5, <1>7
  DEF Rw!WrSteps, Rw!WrReaders, Rw!WrWriters, Rw!WrWait, Rw!WrDec, Rw!WrStore, Rw!fields
<1>8. ASSUME NEW t \in Rw!Users, Rw!TrySteps(t) PROVE ReadersCounted'
  BY SMTT(30), <1>5, <1>8 DEF Rw!TrySteps, Rw!TryReaders, Rw!TryWord, Rw!TryCas, Rw!fields
<1>9. ASSUME NEW t \in Rw!Users, Rw!UnSteps(t) PROVE ReadersCounted'
  <2>1. CASE Rw!Unlock(t) \/ Rw!UnWriters(t) \/ Rw!UnTid(t)
    BY <1>5, <2>1 DEF Rw!Unlock, Rw!UnWriters, Rw!UnTid, Rw!fields
  <2>2. CASE Rw!UnClearTid(t)
    BY <1>5, <2>2 DEF Rw!UnClearTid
  <2>3. CASE Rw!UnWake(t)
    BY <1>5, <2>3 DEF Rw!UnWake, Rw!WakeOne, Rw!fields
  <2> QED
    BY <1>3, <1>4, <1>9, <2>1, <2>2, <2>3 DEF Rw!UnSteps
<1>10. ASSUME NEW t \in Rw!Users, Rw!SpuriousWake(t) \/ Rw!RdLock(t) \/ Rw!RdTimeout(t)
                  \/ Rw!WrLock(t) \/ Rw!WrTimeout(t) \/ Rw!TryWrLock(t)
       PROVE  ReadersCounted'
  BY <1>5, <1>10
  DEF Rw!SpuriousWake, Rw!RdLock, Rw!RdTimeout, Rw!WrLock, Rw!WrTimeout, Rw!TryWrLock,
      Rw!fields
<1>11. CASE UNCHANGED Rw!vars
  BY <1>5, <1>11 DEF Rw!vars
<1> QED
  BY SMTT(30), <1>6, <1>7, <1>8, <1>9, <1>10, <1>11 DEF Rw!Next, Rw!Steps

\* pthread_rwlock_t with any number of readers and of writers: write_waiters is the
\* number of threads inside the waiting part of wrlock and timedwrlock.
THEOREM WaitersCountedInvariance == Rw!Spec => [](RwTypes /\ WaitersCounted)
<1>1. Rw!Init => RwTypes /\ WaitersCounted
  <2> SUFFICES ASSUME Rw!Init PROVE RwTypes /\ WaitersCounted
    OBVIOUS
  <2>1. Queued = {}
    BY DEF Rw!Init, Queued, Rw!WrLabels
  <2> QED
    BY <2>1, FS_EmptySet DEF Rw!Init, RwTypes, WaitersCounted, Rw!Labels
<1> QED
  BY <1>1, RwTypesNext, WaitersCountedNext, PTL DEF Rw!Spec

\* pthread_rwlock_t with any number of readers and at most one writer: its counts
\* are exact, and it names its writer from the return of wrlock or trywrlock
\* until unlock has recognised it.
THEOREM RwlockInvariance ==
  ASSUME OneWriter
  PROVE  Rw!Spec => [](RwTypes /\ WaitersCounted /\ RwRoles /\ ReadersCounted)
<1>1. Rw!Init => RwTypes /\ RwRoles /\ ReadersCounted
  <2> SUFFICES ASSUME Rw!Init PROVE RwTypes /\ RwRoles /\ ReadersCounted
    OBVIOUS
  <2>1. Reading = {}
    BY DEF Rw!Init, Reading
  <2>2. ReadersCounted
    BY <2>1, FS_EmptySet DEF Rw!Init, ReadersCounted
  <2> QED
    BY <2>2, UsersAssumption
    DEF Rw!Init, RwTypes, RwRoles, ReaderRole, WriterRole, Given, Rw!Labels, Rw!RdLabels, Rw!Users
<1>2. RwTypes /\ RwRoles /\ ReadersCounted /\ [Rw!Next]_(Rw!vars)
        => (RwTypes /\ RwRoles /\ ReadersCounted)'
  BY RwTypesNext, RwRolesNext, ReadersCountedNext
<1> QED
  BY <1>1, <1>2, WaitersCountedInvariance, PTL DEF Rw!Spec

\* The read-write lock of MCLocks behaves as one by itself.
LEMMA RwPart == MCSpec => Rw!Spec
<1>1. MCInit => Rw!Init
  BY DEF MCInit
<1>2. [MCNext]_all => [Rw!Next]_(Rw!vars)
  BY DEF MCNext, InMutex, InRwlock, InCond, Stopped, all, rwvars, Rw!vars
<1> QED
  BY <1>1, <1>2, PTL DEF MCSpec, Rw!Spec

\* The fields of the read-write lock are exact for any set of readers and one
\* writer: readers and write_waiters count who reads and who waits to write, and
\* writers and writer_tid name the thread whose wrlock returned.
THEOREM RwlockFieldsExact ==
  ASSUME OneWriter
  PROVE  MCSpec => []RwlockExact
<1>1. WaitersCounted /\ RwRoles /\ ReadersCounted => RwlockExact
  <2> SUFFICES ASSUME WaitersCounted, RwRoles, ReadersCounted PROVE RwlockExact
    OBVIOUS
  <2>1. Rw!CountsExact
    BY RwCardinality DEF WaitersCounted, ReadersCounted, Reading, Queued, Rw!CountsExact
  <2>2. Rw!WriterRecorded
    BY DEF RwRoles, ReaderRole, WriterRole, Given, Rw!WriterRecorded, Rw!Users
  <2> QED
    BY <2>1, <2>2 DEF RwlockExact
<1> QED
  BY <1>1, RwPart, RwlockInvariance, PTL

=============================================================================
