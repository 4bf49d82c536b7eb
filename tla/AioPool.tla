------------------------------- MODULE AioPool -------------------------------
(***************************************************************************)
(* The thread pool of include/aio.h, where requests go when the ring is    *)
(* not available or full: worker threads take control blocks from a        *)
(* bounded queue, do the transfer and store the outcome; aio_destroy stops *)
(* the workers and the next request starts them again.                     *)
(*                                                                         *)
(* A section under the pool's lock is one step (PthreadMutex, PthreadCond).*)
(* The circular array between queue_head and queue_tail is a sequence.     *)
(***************************************************************************)
EXTENDS Naturals, Sequences, FiniteSets

CONSTANTS Users,      \* the program's threads
          Workers,    \* the worker threads asked for (4 in the code)
          Cbs,        \* control blocks
          NoCb,
          QueueSize,  \* queue_size: room for one request less (1024 in the code)
          MaxCalls    \* bound on submissions and calls of aio_destroy

ASSUME QueueAssumption == QueueSize \in Nat /\ QueueSize > 0

VARIABLES
  running,            \* the workers created: num_threads is their number
  shutdown,           \* shutdown flag
  allocated,          \* queue # NULL
  queue,              \* the control blocks from queue_head to queue_tail
  state,              \* __jacl_state of each control block
  wpc, wcb,           \* where each worker is, and with which control block
  upc, ucb,           \* the same for the program's threads
  calls,              \* ghost: calls made
  owed,               \* ghost: accepted submissions of c not yet taken from the queue
  barren,             \* ghost: no worker could be created
  dead                \* the process wrote through a null queue

pool == <<running, shutdown, allocated, queue>>
user == <<upc, ucb, calls>>
ghosts == <<owed, barren, dead>>
poolvars == <<pool, state, wpc, wcb, user, ghosts>>

PoolInit ==
  /\ running = {} /\ shutdown = FALSE /\ allocated = FALSE /\ queue = <<>>
  /\ state = [c \in Cbs |-> 0]
  /\ wpc = [w \in Workers |-> "none"]
  /\ wcb = [w \in Workers |-> NoCb]
  /\ upc = [u \in Users |-> "idle"]
  /\ ucb = [u \in Users |-> NoCb]
  /\ calls = 0
  /\ owed = [c \in Cbs |-> 0] /\ barren = FALSE /\ dead = FALSE

Waiting == {w \in Workers : wpc[w] = "wait"}

-----------------------------------------------------------------------------
\* A request turns to __jacl_aio_queue_fallback.  A program reuses a control
\* block when it has seen it done, and does not submit during aio_destroy.
Call(u) ==
  /\ upc[u] = "idle" /\ calls < MaxCalls /\ calls' = calls + 1
  /\ \A v \in Users : upc[v] \notin {"join", "reset"}
  /\ \E c \in Cbs :
       /\ \A v \in Users : ucb[v] # c
       /\ owed[c] = 0 /\ \A w \in Workers : wcb[w] # c
       /\ ucb' = [ucb EXCEPT ![u] = c]
  /\ upc' = [upc EXCEPT ![u] = "init"]
  /\ UNCHANGED <<pool, state, wpc, wcb, ghosts>>

\* __jacl_aio_init_thread_pool, which does nothing if there are workers: some
\* of the threads may be created, or none; the caller does not look.
InitPool(u) ==
  /\ upc[u] = "init"
  /\ IF running # {}
     THEN UNCHANGED <<pool, wpc, barren>>
     ELSE \E created \in SUBSET Workers :
            /\ running' = created
            /\ shutdown' = FALSE
            /\ allocated' = (created # {})
            /\ barren' = (created = {})
            /\ wpc' = [w \in Workers |-> IF w \in created THEN "top" ELSE "none"]
            /\ UNCHANGED queue
  /\ upc' = [upc EXCEPT ![u] = "queue"]
  /\ UNCHANGED <<state, wcb, ucb, calls, owed, dead>>

\* Mutant: nobody is told of the request.
MutSignal == UNCHANGED wpc

\* pthread_cond_signal.
Signal ==
  \/ Waiting = {} /\ UNCHANGED wpc
  \/ \E w \in Waiting : wpc' = [wpc EXCEPT ![w] = "lock"]

\* The section of __jacl_aio_queue_fallback: put the request at the tail and
\* signal one worker.  The control block's state is left as it is.
Enqueue(u) ==
  /\ upc[u] = "queue"
  /\ Len(queue) < QueueSize - 1
  /\ IF allocated
     THEN /\ queue' = Append(queue, ucb[u])
          /\ owed' = [owed EXCEPT ![ucb[u]] = @ + 1]
          /\ UNCHANGED dead
          /\ Signal
     ELSE dead' = TRUE /\ UNCHANGED <<queue, owed, wpc>>
  /\ upc' = [upc EXCEPT ![u] = "idle"]
  /\ ucb' = [ucb EXCEPT ![u] = NoCb]
  /\ UNCHANGED <<running, shutdown, allocated, state, wcb, calls, barren>>

\* The queue is full: EAGAIN.
Refuse(u) ==
  /\ upc[u] = "queue"
  /\ Len(queue) = QueueSize - 1
  /\ upc' = [upc EXCEPT ![u] = "idle"]
  /\ ucb' = [ucb EXCEPT ![u] = NoCb]
  /\ UNCHANGED <<pool, state, wpc, wcb, calls, ghosts>>

\* aio_destroy: under the lock set shutdown and wake every worker, then
Shutdown(u) ==
  /\ \A v \in Users : upc[v] = "idle"
  /\ calls < MaxCalls /\ calls' = calls + 1
  /\ running # {}
  /\ shutdown' = TRUE
  /\ wpc' = [w \in Workers |-> IF w \in Waiting THEN "lock" ELSE wpc[w]]
  /\ upc' = [upc EXCEPT ![u] = "join"]
  /\ UNCHANGED <<running, allocated, queue, state, wcb, ucb, ghosts>>

\* Mutant: the workers are not joined.
MutJoin(u) ==
  /\ upc[u] = "join"
  /\ upc' = [upc EXCEPT ![u] = "reset"]
  /\ UNCHANGED <<pool, state, wpc, wcb, ucb, calls, ghosts>>

\* join each of them
Join(u) ==
  /\ upc[u] = "join"
  /\ \A w \in running : wpc[w] = "exited"
  /\ upc' = [upc EXCEPT ![u] = "reset"]
  /\ UNCHANGED <<pool, state, wpc, wcb, ucb, calls, ghosts>>

\* and, without the lock, free and forget; what was queued is dropped.
ResetPool(u) ==
  /\ upc[u] = "reset"
  /\ running' = {} /\ shutdown' = FALSE /\ allocated' = FALSE /\ queue' = <<>>
  /\ owed' = [c \in Cbs |-> 0]
  /\ upc' = [upc EXCEPT ![u] = "idle"]
  /\ UNCHANGED <<state, wpc, wcb, ucb, calls, barren, dead>>

-----------------------------------------------------------------------------
\* __jacl_aio_thread_worker: the head of the loop, without the lock;
Top(w) ==
  /\ wpc[w] = "top"
  /\ wpc' = [wpc EXCEPT ![w] = IF shutdown THEN "exited" ELSE "lock"]
  /\ UNCHANGED <<pool, state, wcb, user, ghosts>>

\* under the lock: leave, or wait for a request, or take the oldest one.
TakeOne(w) ==
  /\ wpc[w] = "lock"
  /\ IF shutdown
     THEN wpc' = [wpc EXCEPT ![w] = "exited"] /\ UNCHANGED <<queue, wcb, owed>>
     ELSE IF queue = <<>>
     THEN wpc' = [wpc EXCEPT ![w] = "wait"] /\ UNCHANGED <<queue, wcb, owed>>
     ELSE /\ wcb' = [wcb EXCEPT ![w] = Head(queue)]
          /\ owed' = [owed EXCEPT ![Head(queue)] = @ - 1]
          /\ queue' = Tail(queue)
          /\ wpc' = [wpc EXCEPT ![w] = "run"]
  /\ UNCHANGED <<running, shutdown, allocated, state, user, barren, dead>>

\* pthread_cond_wait may return on its own.
Spurious(w) ==
  /\ wpc[w] = "wait"
  /\ wpc' = [wpc EXCEPT ![w] = "lock"]
  /\ UNCHANGED <<pool, state, wcb, user, ghosts>>

\* The transfer ends, and its outcome is stored and notified; a control block
\* whose state is not 0 is skipped.
Run(w) ==
  /\ wpc[w] = "run"
  /\ \/ state[wcb[w]] # 0 /\ UNCHANGED state
     \/ state[wcb[w]] = 0 /\ \E s \in {1, 2} : state' = [state EXCEPT ![wcb[w]] = s]
  /\ wcb' = [wcb EXCEPT ![w] = NoCb]
  /\ wpc' = [wpc EXCEPT ![w] = "top"]
  /\ UNCHANGED <<pool, user, ghosts>>

UserStep(u) == InitPool(u) \/ Enqueue(u) \/ Refuse(u) \/ Join(u) \/ ResetPool(u)
WorkerStep(w) == Top(w) \/ TakeOne(w) \/ Run(w)

PoolNext ==
  /\ ~dead
  /\ \/ \E u \in Users : Call(u) \/ Shutdown(u) \/ UserStep(u)
     \/ \E w \in Workers : WorkerStep(w) \/ Spurious(w)

PoolSpec == PoolInit /\ [][PoolNext]_poolvars

\* Threads inside a call and workers that can run go on.
Fairness ==
  /\ \A u \in Users : WF_poolvars(~dead /\ UserStep(u))
  /\ \A w \in Workers : WF_poolvars(~dead /\ WorkerStep(w))

PoolFairSpec == PoolSpec /\ Fairness

-----------------------------------------------------------------------------
\* Workers use the queue only while it is there: aio_destroy frees it when all
\* of them are gone, and a worker of an earlier pool never lives on into the
\* next.  The queue never takes more than queue_size - 1 requests.  A request
\* goes through a null queue only if no worker thread could be created, since
\* __jacl_aio_queue_fallback does not look at the result of
\* __jacl_aio_init_thread_pool.
WorkersOwnQueue ==
  /\ \A w \in Workers : wpc[w] \notin {"none", "exited"} => w \in running /\ allocated
  /\ Len(queue) <= QueueSize - 1
  /\ dead => barren

\* A request that was queued for the first time is done in the end, unless
\* aio_destroy drops it.
QueuedDone ==
  \A c \in Cbs : (owed[c] > 0) ~> (state[c] # 0 \/ shutdown \/ dead)

\* aio_destroy comes back: every worker sees the flag, also one that was
\* waiting or in a transfer.
DestroyReturns ==
  \A u \in Users : (upc[u] = "join") ~> (upc[u] = "idle" \/ dead)
=============================================================================
