------------------------------ MODULE PosixSem ------------------------------
(***************************************************************************)
(* One POSIX semaphore of include/sys/sem.h: threads call sem_wait,        *)
(* sem_timedwait, sem_trywait and sem_post.  A section under p->lock is    *)
(* one step, and pthread_cond_wait gives the lock up and starts to wait in *)
(* one step (PthreadMutex, PthreadCond).                                   *)
(***************************************************************************)
EXTENDS Naturals, FiniteSets

CONSTANTS Threads,
          Initial,    \* the value given to sem_init
          Modulus,    \* 2^w for the w bits of p->value
          MaxPosts    \* bound on the calls of sem_post

VARIABLES
  value, ncnt,        \* p->value and p->ncnt
  pc, op,             \* where each thread is, and in which call
  posts, taken        \* ghost: sem_posts, and waits that returned 0

vars == <<value, ncnt, pc, op, posts, taken>>

Init ==
  /\ value = Initial /\ ncnt = 0
  /\ pc = [t \in Threads |-> "idle"] /\ op = [t \in Threads |-> "none"]
  /\ posts = 0 /\ taken = 0

Call(t) ==
  /\ pc[t] = "idle"
  /\ \E o \in {"sem_wait", "sem_timedwait", "sem_trywait"} : op' = [op EXCEPT ![t] = o]
  /\ pc' = [pc EXCEPT ![t] = "test"]
  /\ UNCHANGED <<value, ncnt, posts, taken>>

Return(t) == pc' = [pc EXCEPT ![t] = "idle"] /\ op' = [op EXCEPT ![t] = "none"]

\* Mutant: a woken waiter takes the semaphore without testing it again.
MutTest(t) ==
  /\ \/ pc[t] = "test" /\ value # 0 /\ UNCHANGED ncnt
     \/ pc[t] = "woken" /\ ncnt' = ncnt - 1
  /\ value' = (value + Modulus - 1) % Modulus /\ taken' = taken + 1
  /\ Return(t)
  /\ UNCHANGED posts

\* The loop of __jacl_sem_wait_core, and sem_trywait, find the value positive:
\* first or after a wait, which uncounts the waiter.
Test(t) ==
  /\ pc[t] \in {"test", "woken"} /\ value # 0
  /\ ncnt' = IF pc[t] = "woken" THEN ncnt - 1 ELSE ncnt
  /\ value' = (value + Modulus - 1) % Modulus /\ taken' = taken + 1
  /\ Return(t)
  /\ UNCHANGED posts

\* They find it zero: EAGAIN, or count the waiter and wait.
Block(t) ==
  /\ pc[t] \in {"test", "woken"} /\ value = 0
  /\ IF op[t] = "sem_trywait"
     THEN Return(t) /\ UNCHANGED ncnt
     ELSE /\ pc' = [pc EXCEPT ![t] = "wait"]
          /\ ncnt' = IF pc[t] = "woken" THEN ncnt ELSE ncnt + 1
          /\ UNCHANGED op
  /\ UNCHANGED <<value, posts, taken>>

\* pthread_cond_timedwait gives ETIMEDOUT, also to a thread that a post has
\* just woken: the call fails without looking at the value again.
TimeOut(t) ==
  /\ pc[t] \in {"wait", "woken"} /\ op[t] = "sem_timedwait"
  /\ ncnt' = ncnt - 1
  /\ Return(t)
  /\ UNCHANGED <<value, posts, taken>>

\* Mutant: one waiter is woken instead of all.
MutPost(t) ==
  /\ pc[t] = "idle" /\ posts < MaxPosts
  /\ value' = (value + 1) % Modulus /\ posts' = posts + 1
  /\ \/ (\A u \in Threads : pc[u] # "wait") /\ UNCHANGED pc
     \/ \E u \in Threads : pc[u] = "wait" /\ pc' = [pc EXCEPT ![u] = "woken"]
  /\ UNCHANGED <<ncnt, op, taken>>

\* sem_post: no test against SEM_VALUE_MAX; wakes every waiter.
Post(t) ==
  /\ pc[t] = "idle" /\ posts < MaxPosts
  /\ value' = (value + 1) % Modulus /\ posts' = posts + 1
  /\ pc' = [u \in Threads |-> IF pc[u] = "wait" THEN "woken" ELSE pc[u]]
  /\ UNCHANGED <<ncnt, op, taken>>

Next == \E t \in Threads : Call(t) \/ Test(t) \/ Block(t) \/ TimeOut(t) \/ Post(t)
Spec == Init /\ [][Next]_vars

-----------------------------------------------------------------------------
\* Never more waits succeed than the semaphore was worth, however posts,
\* timeouts and wake-ups fall, and also once the value has wrapped; no thread
\* sleeps while the value is positive, so a timed wait that gives up after it
\* was woken takes nobody else's wake-up; ncnt is the number of waiters.
NeverOvertaken ==
  /\ taken <= Initial + posts
  /\ value > 0 => \A t \in Threads : pc[t] # "wait"
  /\ ncnt = Cardinality({t \in Threads : pc[t] \in {"wait", "woken"}})
=============================================================================
