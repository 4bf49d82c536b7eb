---------------------------- MODULE PthreadMutex ----------------------------
(***************************************************************************)
(* pthread_mutex_t of include/pthread.h on Linux: a futex word, an owner   *)
(* field and a recursion count, used by the threads of one process.        *)
(*                                                                         *)
(* Every atomic operation and every futex system call is a step of its     *)
(* own, so any other thread may run between two of them.  A thread that    *)
(* sleeps in FUTEX_WAIT has pc "asleep".  The kernel may end the sleep at  *)
(* any time (EINTR or a spurious wake-up), and FUTEX_WAKE picks any        *)
(* sleeper.  compare_exchange_weak is modelled as the strong form: when it *)
(* fails on a free word, FUTEX_WAIT returns EAGAIN and the loop tries      *)
(* again, which are the steps from "wait" to "cas" below.                  *)
(*                                                                         *)
(* Callers are the ones POSIX defines: a thread unlocks what it holds, and *)
(* does not call pthread_mutex_lock on a NORMAL or ROBUST mutex it holds.  *)
(***************************************************************************)
EXTENDS Naturals

CONSTANTS Threads,    \* the threads, identified by their kernel tid
          None,       \* tid 0, the value of owner in a mutex nobody owns
          Types,      \* the mutex types pthread_mutex_init is called with
          MaxDepth    \* bound on nested locking of a RECURSIVE mutex

ASSUME NoneAssumption == None \notin Threads
ASSUME TypesAssumption ==
  Types \subseteq {"NORMAL", "RECURSIVE", "ERRORCHECK", "ROBUST"}
ASSUME MaxDepthAssumption == MaxDepth \in Nat \ {0}

VARIABLES
  futex,              \* mutex->futex
  owner,              \* mutex->owner
  type,               \* mutex->type
  recursive_count,    \* mutex->recursive_count
  pc,                 \* where each thread is in its current call
  ret,                \* what each thread's last call returned
  held                \* each thread's successful locks less its unlocks

vars == <<futex, owner, type, recursive_count, pc, ret, held>>

Labels == {"idle", "cas", "wait", "asleep", "try", "tcas", "own", "store", "wake"}
Results == {"0", "EDEADLK", "EBUSY", "ETIMEDOUT"}

-----------------------------------------------------------------------------
\* pthread_mutex_init, before the mutex is shared.
Init ==
  /\ futex = 0
  /\ owner = None
  /\ type \in Types
  /\ recursive_count = 0
  /\ pc = [t \in Threads |-> "idle"]
  /\ ret = [t \in Threads |-> "0"]
  /\ held = [t \in Threads |-> 0]

Goto(t, label) == pc' = [pc EXCEPT ![t] = label]

\* The call of t returns r.
Return(t, r) ==
  /\ Goto(t, "idle")
  /\ ret' = [ret EXCEPT ![t] = r]

\* The prologue lock, trylock and timedlock share: what they do when t already
\* owns an ERRORCHECK or RECURSIVE mutex, and otherwise on to the loop at label.
Enter(t, label) ==
  /\ pc[t] = "idle"
  /\ \/ /\ type = "ERRORCHECK" /\ owner = t
        /\ Return(t, "EDEADLK")
        /\ UNCHANGED <<recursive_count, held>>
     \/ /\ type = "RECURSIVE" /\ owner = t
        /\ held[t] < MaxDepth
        /\ recursive_count' = recursive_count + 1
        /\ held' = [held EXCEPT ![t] = @ + 1]
        /\ Return(t, "0")
     \/ /\ ~(type \in {"ERRORCHECK", "RECURSIVE"} /\ owner = t)
        /\ Goto(t, label)
        /\ UNCHANGED <<recursive_count, held, ret>>
  /\ UNCHANGED <<futex, owner, type>>

Lock(t) ==
  /\ type \in {"NORMAL", "ROBUST"} => held[t] = 0
  /\ Enter(t, "cas")

TryLock(t) == Enter(t, "try")

TimedLock(t) == Enter(t, "tcas")

\* Mutant: the word is tested before, not by, the exchange.
MutAcquireBlind(t) ==
  /\ pc[t] \in {"cas", "try", "tcas"}
  /\ futex' = 1
  /\ Goto(t, "own")
  /\ UNCHANGED <<owner, type, recursive_count, ret, held>>

\* compare_exchange(&futex, 0, 1) succeeds in one of the three functions.
Acquire(t) ==
  /\ pc[t] \in {"cas", "try", "tcas"}
  /\ futex = 0
  /\ futex' = 1
  /\ Goto(t, "own")
  /\ UNCHANGED <<owner, type, recursive_count, ret, held>>

\* It fails: lock waits, trylock gives up, timedlock gives up once its time
\* is over (until then it sleeps and tries again, which changes nothing).
Contended(t) ==
  /\ futex = 1
  /\ \/ pc[t] = "cas" /\ Goto(t, "wait") /\ UNCHANGED ret
     \/ pc[t] = "try" /\ Return(t, "EBUSY")
     \/ pc[t] = "tcas" /\ Return(t, "ETIMEDOUT")
  /\ UNCHANGED <<futex, owner, type, recursive_count, held>>

\* Mutant: the sleeper does not compare the word again.
MutFutexWaitBlind(t) ==
  /\ pc[t] = "wait"
  /\ Goto(t, "asleep")
  /\ UNCHANGED <<futex, owner, type, recursive_count, ret, held>>

\* FUTEX_WAIT(&futex, 1): the kernel compares and queues in one step.
FutexWait(t) ==
  /\ pc[t] = "wait"
  /\ Goto(t, IF futex = 1 THEN "asleep" ELSE "cas")
  /\ UNCHANGED <<futex, owner, type, recursive_count, ret, held>>

\* The sleep ends without a FUTEX_WAKE.
SpuriousWake(t) ==
  /\ pc[t] = "asleep"
  /\ Goto(t, "cas")
  /\ UNCHANGED <<futex, owner, type, recursive_count, ret, held>>

\* The winner of the compare-exchange records itself and returns 0.
SetOwner(t) ==
  /\ pc[t] = "own"
  /\ owner' = t
  /\ recursive_count' = IF type = "RECURSIVE" THEN 1 ELSE recursive_count
  /\ held' = [held EXCEPT ![t] = @ + 1]
  /\ Return(t, "0")
  /\ UNCHANGED <<futex, type>>

\* Mutant: the nested unlock of a RECURSIVE mutex forgets to decrement.
MutUnlockNoDecrement(t) ==
  /\ pc[t] = "idle"
  /\ held[t] > 1
  /\ held' = [held EXCEPT ![t] = @ - 1]
  /\ Return(t, "0")
  /\ UNCHANGED <<futex, owner, type, recursive_count>>

\* Mutant: unlock leaves the owner in place.
MutUnlockKeepsOwner(t) ==
  /\ pc[t] = "idle"
  /\ held[t] = 1
  /\ held' = [held EXCEPT ![t] = 0]
  /\ recursive_count' = 0
  /\ Goto(t, "store")
  /\ UNCHANGED <<futex, owner, type, ret>>

\* pthread_mutex_unlock up to the store of the futex word.
Unlock(t) ==
  /\ pc[t] = "idle"
  /\ held[t] > 0
  /\ held' = [held EXCEPT ![t] = @ - 1]
  /\ \/ /\ type = "RECURSIVE" /\ recursive_count > 1
        /\ recursive_count' = recursive_count - 1
        /\ Return(t, "0")
        /\ UNCHANGED owner
     \/ /\ ~(type = "RECURSIVE" /\ recursive_count > 1)
        /\ owner' = None
        /\ recursive_count' = IF type = "RECURSIVE" THEN 0 ELSE recursive_count
        /\ Goto(t, "store")
        /\ UNCHANGED ret
  /\ UNCHANGED <<futex, type>>

UnlockStore(t) ==
  /\ pc[t] = "store"
  /\ futex' = 0
  /\ Goto(t, "wake")
  /\ UNCHANGED <<owner, type, recursive_count, ret, held>>

\* Mutant: unlock returns without the wake-up.
MutUnlockNoWake(t) ==
  /\ pc[t] = "wake"
  /\ Return(t, "0")
  /\ UNCHANGED <<futex, owner, type, recursive_count, held>>

\* FUTEX_WAKE(&futex, 1), and unlock returns.
UnlockWake(t) ==
  /\ pc[t] = "wake"
  /\ LET Asleep == {u \in Threads : pc[u] = "asleep"}
     IN  \/ /\ Asleep = {}
            /\ Goto(t, "idle")
         \/ \E u \in Asleep : pc' = [pc EXCEPT ![u] = "cas", ![t] = "idle"]
  /\ ret' = [ret EXCEPT ![t] = "0"]
  /\ UNCHANGED <<futex, owner, type, recursive_count, held>>

\* pthread_mutex_destroy of a valid mutex: it only reports.
Destroy(t) ==
  /\ pc[t] = "idle"
  /\ Return(t, IF futex # 0 THEN "EBUSY" ELSE "0")
  /\ UNCHANGED <<futex, owner, type, recursive_count, held>>

Calls(t) == Lock(t) \/ TryLock(t) \/ TimedLock(t) \/ Unlock(t) \/ Destroy(t)

\* The steps a running thread takes by itself inside a call.
Steps(t) ==
  \/ Acquire(t) \/ Contended(t) \/ FutexWait(t) \/ SetOwner(t)
  \/ UnlockStore(t) \/ UnlockWake(t)

Next == \E t \in Threads : Calls(t) \/ Steps(t) \/ SpuriousWake(t)

Spec == Init /\ [][Next]_vars

\* The kernel runs every runnable thread; nobody is obliged to make calls.
FairSpec == Spec /\ \A t \in Threads : WF_vars(Steps(t))

-----------------------------------------------------------------------------
TypeOK ==
  /\ futex \in {0, 1}
  /\ owner \in Threads \cup {None}
  /\ type \in Types
  /\ recursive_count \in 0..MaxDepth
  /\ pc \in [Threads -> Labels]
  /\ ret \in [Threads -> Results]
  /\ held \in [Threads -> 0..MaxDepth]

\* Inside from the compare-exchange that wins the word to the store that
\* frees it.
Inside(t) == held[t] > 0 \/ pc[t] \in {"own", "store"}

\* Two threads are never inside together, between the compare-exchange in
\* pthread_mutex_lock and the store in pthread_mutex_unlock.
MutualExclusion == \A t, u \in Threads : Inside(t) /\ Inside(u) => t = u

\* The owner field that lock reads without synchronisation never tells a
\* thread that it owns a mutex it does not hold, nor hides one it holds; and
\* the recursion count is the holder's nesting depth.  A stale owner would let
\* a second thread into a RECURSIVE mutex, or fail an ERRORCHECK one.
OwnerExact ==
  \A t \in Threads :
    /\ owner = t <=> held[t] > 0
    /\ type = "RECURSIVE" /\ held[t] > 0 => recursive_count = held[t]

\* A thread never sleeps on a free mutex without somebody under way who will
\* take it or wake it: unlock wakes one sleeper only, and whoever is woken may
\* lose the race for the word.
WakeupPending ==
  futex = 0 /\ (\E t \in Threads : pc[t] = "asleep")
    => \E t \in Threads : pc[t] \in {"wake", "cas", "wait"}

\* A mutex that sleepers wait for does not stay free: the wake-up that
\* pthread_mutex_unlock sends after its store is never lost.
NoStrandedSleeper ==
  (futex = 0 /\ \E t \in Threads : pc[t] = "asleep") ~> (futex = 1)

\* The mutex is the abstract one, entered when lock returns 0 and left when
\* unlock is called.
Abstract == INSTANCE MutexSpec WITH depth <- held

\* Every behaviour of the futex mutex is a behaviour of the abstract mutex.
ImplementsMutexSpec == Abstract!Spec

=============================================================================
