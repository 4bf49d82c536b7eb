---------------------------- MODULE MCSyncProofs ----------------------------
(***************************************************************************)
(* Proofs about the barrier, pthread_once and the keys of pthread.h, for   *)
(* any finite set of threads and any number of rounds, calls and keys, as  *)
(* MCSync composes them, about the worker threads of aio.h, for any sets   *)
(* of threads, workers and control blocks and any size of the queue, and   *)
(* about the POSIX semaphores of sys/sem.h.                                *)
(***************************************************************************)
EXTENDS MCSync, AioPool, FiniteSetTheorems, TLAPS

-----------------------------------------------------------------------------
(* The worker pool of aio.h. *)

Destroying == {"join", "reset"}
Gone == {"none", "exited"}

PoolTypes ==
  /\ running \subseteq Workers
  /\ shutdown \in BOOLEAN /\ allocated \in BOOLEAN
  /\ barren \in BOOLEAN /\ dead \in BOOLEAN
  /\ queue \in Seq(Cbs)
  /\ wpc \in [Workers -> Gone \cup {"top", "lock", "wait", "run"}]
  /\ upc \in [Users -> {"idle", "init", "queue"} \cup Destroying]
  /\ ucb \in [Users -> Cbs \cup {NoCb}]
  /\ \A u \in Users : upc[u] = "queue" \/ upc[u] = "init" => ucb[u] \in Cbs

\* The queue is there exactly while there are workers, and only they move.
OfThisPool ==
  /\ allocated <=> running # {}
  /\ \A w \in Workers : wpc[w] \notin Gone => w \in running

\* aio_destroy runs alone; past its joins no worker is left.
DestroysAlone ==
  \A u \in Users :
    /\ upc[u] \in Destroying => \A v \in Users \ {u} : upc[v] = "idle"
    /\ upc[u] = "reset" => \A w \in running : wpc[w] = "exited"

\* A request finds no queue only if the last __jacl_aio_init_thread_pool got no
\* worker.
NoQueueIsBarren == (\E u \in Users : upc[u] = "queue") /\ ~allocated => barren

\* The inductive invariant: WorkersOwnQueue needs the workers of a pool to be
\* gone when it is freed, and that no request waits there meanwhile.
PoolInv ==
  /\ PoolTypes /\ OfThisPool /\ DestroysAlone /\ NoQueueIsBarren
  /\ Len(queue) <= QueueSize - 1
  /\ dead => barren

\* The pool starts with no queue and no call in progress.
LEMMA PoolInitKeeps ==
  ASSUME PoolInit
  PROVE  PoolInv
<1>1. queue \in Seq(Cbs) /\ Len(queue) = 0
  BY DEF PoolInit
<1>2. PoolTypes
  BY <1>1, Zenon DEF PoolInit, PoolTypes, Gone, Destroying
<1>3. OfThisPool /\ DestroysAlone /\ NoQueueIsBarren
  BY DEF PoolInit, OfThisPool, DestroysAlone, NoQueueIsBarren, Gone, Destroying
<1> QED
  BY <1>1, <1>2, <1>3, QueueAssumption DEF PoolInit, PoolInv

\* The steps of the program's threads.
LEMMA CallKeeps ==
  ASSUME PoolInv, NEW u \in Users, Call(u)
  PROVE  PoolInv'
<1>1. PICK c \in Cbs : ucb' = [ucb EXCEPT ![u] = c]
  BY Zenon DEF Call
<1>2. /\ upc[u] = "idle" /\ upc' = [upc EXCEPT ![u] = "init"]
      /\ \A v \in Users : upc[v] \notin Destroying
      /\ UNCHANGED <<running, shutdown, allocated, queue, wpc, barren, dead>>
  BY DEF Call, pool, ghosts, Destroying
<1>3. PoolTypes'
  BY <1>1, <1>2 DEF PoolInv, PoolTypes
<1>4. OfThisPool' /\ DestroysAlone' /\ NoQueueIsBarren'
  BY <1>2 DEF PoolInv, PoolTypes, OfThisPool, DestroysAlone, NoQueueIsBarren, Destroying
<1> QED
  BY <1>2, <1>3, <1>4 DEF PoolInv

\* The first request allocates the queue and starts the workers.
LEMMA InitPoolKeeps ==
  ASSUME PoolInv, ~dead, NEW u \in Users, InitPool(u)
  PROVE  PoolInv'
<1>1. /\ upc[u] = "init" /\ upc' = [upc EXCEPT ![u] = "queue"]
      /\ UNCHANGED <<queue, ucb, dead>>
  BY DEF InitPool, pool
<1>2. \A v \in Users : upc[v] \notin Destroying
  BY <1>1 DEF PoolInv, DestroysAlone, Destroying
<1>3. CASE running # {}
  <2>1. UNCHANGED <<running, shutdown, allocated, wpc, barren>>
    BY <1>3 DEF InitPool, pool
  <2>2. PoolTypes'
    BY <1>1, <2>1 DEF PoolInv, PoolTypes
  <2>3. OfThisPool' /\ NoQueueIsBarren'
    BY <1>3, <2>1 DEF PoolInv, OfThisPool, NoQueueIsBarren
  <2>4. DestroysAlone'
    BY <1>1, <1>2 DEF PoolInv, PoolTypes, DestroysAlone, Destroying
  <2> QED
    BY <1>1, <2>1, <2>2, <2>3, <2>4 DEF PoolInv
<1>4. CASE running = {}
  <2>1. PICK got \in SUBSET Workers :
          /\ running' = got /\ shutdown' = FALSE
          /\ allocated' = (got # {}) /\ barren' = (got = {})
          /\ wpc' = [w \in Workers |-> IF w \in got THEN "top" ELSE "none"]
    BY <1>4 DEF InitPool
  <2>2. PoolTypes'
    BY <1>1, <2>1, Zenon DEF PoolInv, PoolTypes, Gone
  <2>3. OfThisPool'
    BY <2>1, Zenon DEF OfThisPool, Gone
  <2>4. DestroysAlone'
    BY <1>1, <1>2 DEF PoolInv, PoolTypes, DestroysAlone, Destroying
  <2>5. NoQueueIsBarren' /\ (dead' => barren')
    BY <1>1, <2>1, Zenon DEF NoQueueIsBarren
  <2> QED
    BY <1>1, <2>2, <2>3, <2>4, <2>5 DEF PoolInv
<1> QED
  BY <1>3, <1>4

\* Queueing a request while there is room for one more.
LEMMA EnqueueKeeps ==
  ASSUME PoolInv, NEW u \in Users, Enqueue(u)
  PROVE  PoolInv'
<1>1. /\ upc[u] = "queue" /\ upc' = [upc EXCEPT ![u] = "idle"]
      /\ ucb' = [ucb EXCEPT ![u] = NoCb] /\ Len(queue) < QueueSize - 1
      /\ UNCHANGED <<running, shutdown, allocated, barren>>
  BY DEF Enqueue
<1>2. \A v \in Users : upc[v] \notin Destroying
  BY <1>1 DEF PoolInv, DestroysAlone, Destroying
<1>3. queue' \in Seq(Cbs) /\ Len(queue') <= QueueSize - 1
  <2>1. queue \in Seq(Cbs) /\ ucb[u] \in Cbs
    BY <1>1 DEF PoolInv, PoolTypes
  <2>2. queue' = queue \/ queue' = Append(queue, ucb[u])
    BY DEF Enqueue
  <2> QED
    BY <1>1, <2>1, <2>2, QueueAssumption
<1>4. \/ wpc' = wpc
      \/ \E w \in Workers : wpc[w] = "wait" /\ wpc' = [wpc EXCEPT ![w] = "lock"]
  BY DEF Enqueue, Signal, Waiting
<1>5. dead' \in BOOLEAN /\ (dead' => barren')
  <2>1. CASE allocated
    BY <1>1, <2>1 DEF PoolInv, PoolTypes, Enqueue
  <2>2. CASE ~allocated
    <3>1. dead' = TRUE
      BY <2>2 DEF Enqueue
    <3>2. barren
      BY <1>1, <2>2 DEF PoolInv, NoQueueIsBarren
    <3> QED
      BY <1>1, <3>1, <3>2
  <2> QED
    BY <2>1, <2>2
<1>6. PoolTypes'
  <2>1. wpc' \in [Workers -> Gone \cup {"top", "lock", "wait", "run"}]
    BY <1>4 DEF PoolInv, PoolTypes
  <2> QED
    BY <1>1, <1>3, <1>5, <2>1 DEF PoolInv, PoolTypes
<1>7. OfThisPool'
  BY <1>1, <1>4 DEF PoolInv, PoolTypes, OfThisPool, Gone
<1>8. DestroysAlone' /\ NoQueueIsBarren'
  BY <1>1, <1>2 DEF PoolInv, PoolTypes, DestroysAlone, NoQueueIsBarren, Destroying
<1> QED
  BY <1>3, <1>5, <1>6, <1>7, <1>8 DEF PoolInv

\* Turning a request away when the queue is full.
LEMMA RefuseKeeps ==
  ASSUME PoolInv, NEW u \in Users, Refuse(u)
  PROVE  PoolInv'
<1>1. /\ upc[u] = "queue" /\ upc' = [upc EXCEPT ![u] = "idle"]
      /\ ucb' = [ucb EXCEPT ![u] = NoCb]
      /\ UNCHANGED <<running, shutdown, allocated, queue, wpc, barren, dead>>
  BY DEF Refuse, pool, ghosts
<1>2. PoolTypes'
  BY <1>1 DEF PoolInv, PoolTypes
<1>3. OfThisPool' /\ DestroysAlone' /\ NoQueueIsBarren'
  BY <1>1 DEF PoolInv, PoolTypes, OfThisPool, DestroysAlone, NoQueueIsBarren, Destroying
<1> QED
  BY <1>1, <1>2, <1>3 DEF PoolInv

\* aio_destroy.
LEMMA ShutdownKeeps ==
  ASSUME PoolInv, NEW u \in Users, Shutdown(u)
  PROVE  PoolInv'
<1>1. /\ \A v \in Users : upc[v] = "idle"
      /\ upc' = [upc EXCEPT ![u] = "join"] /\ shutdown' = TRUE
      /\ wpc' = [w \in Workers |-> IF wpc[w] = "wait" THEN "lock" ELSE wpc[w]]
      /\ UNCHANGED <<running, allocated, queue, ucb, barren, dead>>
  BY DEF Shutdown, Waiting, ghosts
<1>2. PoolTypes'
  BY <1>1 DEF PoolInv, PoolTypes, Gone, Destroying
<1>3. OfThisPool'
  BY <1>1 DEF PoolInv, OfThisPool, Gone
<1>4. DestroysAlone' /\ NoQueueIsBarren'
  BY <1>1 DEF PoolInv, PoolTypes, DestroysAlone, NoQueueIsBarren, Destroying
<1> QED
  BY <1>1, <1>2, <1>3, <1>4 DEF PoolInv

\* aio_destroy waits until the workers have ended.
LEMMA JoinKeeps ==
  ASSUME PoolInv, NEW u \in Users, Join(u)
  PROVE  PoolInv'
<1>1. /\ upc[u] = "join" /\ upc' = [upc EXCEPT ![u] = "reset"]
      /\ \A w \in running : wpc[w] = "exited"
      /\ UNCHANGED <<running, shutdown, allocated, queue, wpc, ucb, barren, dead>>
  BY DEF Join, pool, ghosts
<1>2. PoolTypes'
  BY <1>1 DEF PoolInv, PoolTypes, Destroying
<1>3. OfThisPool' /\ DestroysAlone' /\ NoQueueIsBarren'
  BY <1>1 DEF PoolInv, PoolTypes, OfThisPool, DestroysAlone, NoQueueIsBarren, Destroying
<1> QED
  BY <1>1, <1>2, <1>3 DEF PoolInv

\* aio_destroy frees the queue once no worker is left.
LEMMA ResetKeeps ==
  ASSUME PoolInv, NEW u \in Users, ResetPool(u)
  PROVE  PoolInv'
<1>1. /\ upc[u] = "reset" /\ upc' = [upc EXCEPT ![u] = "idle"]
      /\ running' = {} /\ shutdown' = FALSE /\ allocated' = FALSE /\ queue' = <<>>
      /\ UNCHANGED <<wpc, ucb, barren, dead>>
  BY DEF ResetPool
<1>2. \A v \in Users \ {u} : upc[v] = "idle"
  BY <1>1 DEF PoolInv, DestroysAlone, Destroying
<1>3. queue' \in Seq(Cbs) /\ Len(queue') <= QueueSize - 1
  BY <1>1, QueueAssumption
<1>4. PoolTypes'
  BY <1>1, <1>3, Zenon DEF PoolInv, PoolTypes
<1>5. \A w \in Workers : wpc[w] \in Gone
  BY <1>1 DEF PoolInv, OfThisPool, DestroysAlone, Gone
<1>6. \A v \in Users : upc'[v] = "idle"
  BY <1>1, <1>2 DEF PoolInv, PoolTypes
<1>7. OfThisPool' /\ DestroysAlone' /\ NoQueueIsBarren'
  BY <1>1, <1>5, <1>6 DEF OfThisPool, DestroysAlone, NoQueueIsBarren, Destroying
<1> QED
  BY <1>1, <1>3, <1>4, <1>7 DEF PoolInv

\* The steps of a worker: it takes requests, and can only leave.
LEMMA WorkerKeeps ==
  ASSUME PoolInv, NEW w \in Workers, WorkerStep(w) \/ Spurious(w)
  PROVE  PoolInv'
<1>1. /\ wpc[w] \notin Gone
      /\ \E p \in {"exited", "top", "lock", "wait", "run"} : wpc' = [wpc EXCEPT ![w] = p]
      /\ UNCHANGED <<running, shutdown, allocated, upc, ucb, barren, dead>>
  BY DEF WorkerStep, Top, TakeOne, Run, Spurious, pool,
         user, ghosts, Gone
<1>2. queue' = queue \/ (queue # <<>> /\ queue' = Tail(queue))
  BY DEF WorkerStep, Top, TakeOne, Run, Spurious, pool
<1>3. queue' \in Seq(Cbs) /\ Len(queue') <= QueueSize - 1
  <2>1. queue \in Seq(Cbs) /\ Len(queue) <= QueueSize - 1 /\ Len(queue) \in Nat
    BY DEF PoolInv, PoolTypes
  <2>2. CASE queue' = queue
    BY <2>1, <2>2
  <2>3. CASE queue # <<>> /\ queue' = Tail(queue)
    <3>1. Tail(queue) \in Seq(Cbs) /\ Len(Tail(queue)) = Len(queue) - 1
      BY <2>1, <2>3
    <3> QED
      BY <2>1, <2>3, <3>1, QueueAssumption
  <2> QED
    BY <1>2, <2>2, <2>3
<1>4. w \in running
  BY <1>1 DEF PoolInv, OfThisPool
<1>5. PoolTypes'
  BY <1>1, <1>3 DEF PoolInv, PoolTypes, Gone
<1>6. OfThisPool'
  BY <1>1, <1>4 DEF PoolInv, PoolTypes, OfThisPool
<1>7. DestroysAlone' /\ NoQueueIsBarren'
  BY <1>1, <1>4 DEF PoolInv, PoolTypes, DestroysAlone, NoQueueIsBarren, Gone
<1> QED
  BY <1>1, <1>3, <1>5, <1>6, <1>7 DEF PoolInv

\* Every step of users and workers keeps the invariant.
LEMMA PoolNextKeeps ==
  ASSUME PoolInv, [PoolNext]_poolvars
  PROVE  PoolInv'
<1>1. CASE PoolNext
  BY <1>1, CallKeeps, InitPoolKeeps, EnqueueKeeps, RefuseKeeps, ShutdownKeeps, JoinKeeps,
     ResetKeeps, WorkerKeeps
  DEF PoolNext, UserStep
<1>2. CASE UNCHANGED poolvars
  BY <1>2 DEF poolvars, pool, user, ghosts, PoolInv, PoolTypes, OfThisPool,
     DestroysAlone, NoQueueIsBarren
<1> QED
  BY <1>1, <1>2

\* The invariant of the pool holds in every reachable state.
THEOREM PoolInvariance == PoolSpec => []PoolInv
<1>1. PoolInit => PoolInv
  BY PoolInitKeeps
<1>2. PoolInv /\ [PoolNext]_poolvars => PoolInv'
  BY PoolNextKeeps
<1> QED
  BY <1>1, <1>2, PTL DEF PoolSpec

\* Workers touch the queue only while it is allocated, across any number of
\* aio_destroy and restarts; the queue keeps one slot free; a request meets a
\* null queue only if no worker could be created.
THEOREM WorkersKeepQueue == PoolSpec => []WorkersOwnQueue
<1>1. PoolInv => WorkersOwnQueue
  BY DEF PoolInv, OfThisPool, WorkersOwnQueue, Gone
<1> QED
  BY <1>1, PoolInvariance, PTL

-----------------------------------------------------------------------------
(* The barrier. *)

Waits == {"test", "sleep", "asleep"}

\* The threads counted in the current round.
InRound ==
  {t \in Threads : (pc[t] \in Waits /\ myPhase[t] = phase) \/ pc[t] = "reset"}

\* The phase is the number of completed rounds, and no thread is more than
\* one round away from it.
Lockstep ==
  \A t \in Threads :
    /\ pc[t] \in {"idle", "wake"} => round[t] = phase
    /\ pc[t] \in {"arrive", "reset", "advance"}
         => myPhase[t] = phase /\ round[t] = phase + 1
    /\ pc[t] \in Waits => round[t] = myPhase[t] + 1
    /\ pc[t] \in Waits => myPhase[t] <= phase /\ phase <= myPhase[t] + 1

\* The count is the number of threads in the round, except between its reset
\* and the step to the next phase.
CountExact ==
  (\A t \in Threads : pc[t] # "advance") => count = Cardinality(InRound)

\* While the last thread opens the barrier all others are waiting in it.
OthersWait(t) ==
  \A u \in Threads \ {t} : pc[u] \in Waits /\ myPhase[u] = phase

LastAlone ==
  \A t \in Threads :
    /\ pc[t] \in {"reset", "advance"} => OthersWait(t)
    /\ pc[t] = "advance" => count = 0

SerialExact == serial + Cardinality(Waking) = phase

IInv == TypeOK /\ Lockstep /\ CountExact /\ LastAlone /\ SerialExact

-----------------------------------------------------------------------------
\* The set of threads is finite, and so are its subsets.
LEMMA Finiteness ==
  /\ limit \in Nat
  /\ IsFiniteSet(InRound) /\ Cardinality(InRound) \in 0..limit
  /\ IsFiniteSet(Waking) /\ Cardinality(Waking) \in Nat
<1>1. InRound \in SUBSET Threads /\ Waking \in SUBSET Threads
  BY DEF InRound, Waking
<1> QED
  BY <1>1, ThreadsAssumption, FS_Subset, FS_CardinalityType DEF limit

\* pthread_barrier_init establishes the invariant.
LEMMA InitIInv == Init => IInv
<1> SUFFICES ASSUME Init PROVE IInv
  OBVIOUS
<1>1. InRound = {} /\ Waking = {}
  BY DEF Init, InRound, Waking, Waits
<1>2. Cardinality(InRound) = 0 /\ Cardinality(Waking) = 0
  BY <1>1, FS_EmptySet
<1> QED
  BY <1>2, Finiteness
  DEF Init, IInv, TypeOK, Lockstep, CountExact, LastAlone, SerialExact,
      OthersWait, Labels, Waits

\* A thread that has not arrived leaves room in the count, and the thread that
\* fills it finds everybody else waiting.
LEMMA Arrival ==
  ASSUME IInv, NEW t \in Threads, Arrive(t)
  PROVE  /\ \A u \in Threads : pc[u] \notin {"reset", "advance"}
         /\ InRound' = InRound \cup {t}
         /\ count' = Cardinality(InRound') /\ count' <= limit
         /\ count' >= limit => InRound' = Threads
<1> USE DEF IInv, TypeOK, Labels, Waits
<1>1. \A u \in Threads : pc[u] \notin {"reset", "advance"}
  BY DEF Arrive, From, LastAlone, OthersWait
<1>2. count = Cardinality(InRound)
  BY <1>1 DEF CountExact
<1>3. t \notin InRound
  BY DEF InRound, Arrive, From
<1>4. InRound' = InRound \cup {t}
  <2>1. \A u \in Threads : u \in InRound' <=> u \in InRound \/ u = t
    BY DEF InRound, Arrive, From, Lockstep
  <2> QED
    BY <2>1 DEF InRound
<1>5. Cardinality(InRound') = count + 1
  BY <1>2, <1>3, <1>4, Finiteness, FS_AddElement, Zenon
<1>6. InRound' \in SUBSET Threads
  BY DEF InRound
<1>7. Cardinality(InRound') <= limit /\ (Cardinality(InRound') = limit => InRound' = Threads)
  BY <1>6, ThreadsAssumption, FS_Subset DEF limit
<1> QED
  BY <1>1, <1>4, <1>5, <1>7, Finiteness DEF Arrive

\* Every step of pthread_barrier_wait preserves the invariant.
LEMMA NextIInv == IInv /\ [Next]_vars => IInv'
<1> SUFFICES ASSUME IInv, [Next]_vars PROVE IInv'
  OBVIOUS
<1> USE DEF IInv, TypeOK, Labels, Waits, From
<1>1. ASSUME NEW t \in Threads, Wait(t) PROVE IInv'
  <2>1. \A u \in Threads : pc[u] \notin {"reset", "advance"}
    BY <1>1 DEF Wait, LastAlone, OthersWait
  <2>2. InRound' = InRound /\ Waking' = Waking
    BY <1>1 DEF Wait, InRound, Waking
  <2>3. TypeOK' /\ Lockstep'
    BY <1>1 DEF Wait, Lockstep
  <2>4. CountExact' /\ LastAlone' /\ SerialExact'
    BY <1>1, <2>1, <2>2
    DEF Wait, CountExact, LastAlone, SerialExact
  <2> QED
    BY <2>3, <2>4
<1>2. ASSUME NEW t \in Threads, Arrive(t) PROVE IInv'
  <2>1. /\ \A u \in Threads : pc[u] \notin {"reset", "advance"}
        /\ InRound' = InRound \cup {t}
        /\ count' = Cardinality(InRound') /\ count' <= limit
        /\ count' >= limit => InRound' = Threads
    BY <1>2, Arrival
  <2>2. TypeOK' /\ Lockstep'
    BY <1>2, <2>1, Finiteness DEF Arrive, Lockstep
  <2>3. Waking' = Waking
    BY <1>2 DEF Arrive, Waking
  <2>4. CountExact' /\ SerialExact'
    BY <1>2, <2>1, <2>3 DEF Arrive, CountExact, SerialExact
  <2>5. LastAlone'
    <3>1. CASE count + 1 < limit
      BY <1>2, <2>1, <3>1 DEF Arrive, LastAlone
    <3>2. CASE ~(count + 1 < limit)
      <4>1. InRound' = Threads
        BY <1>2, <2>1, <3>2, Finiteness DEF Arrive
      <4>2. OthersWait(t)'
        BY <1>2, <2>1, <4>1 DEF Arrive, OthersWait, InRound
      <4> QED
        BY <1>2, <2>1, <4>2 DEF Arrive, LastAlone
    <3> QED
      BY <3>1, <3>2
  <2> QED
    BY <2>2, <2>4, <2>5
<1>3. ASSUME NEW t \in Threads, Test(t) \/ FutexWait(t) \/ SpuriousWake(t)
      PROVE  IInv'
  <2> USE DEF Test, FutexWait, SpuriousWake
  <2>1. InRound' = InRound /\ Waking' = Waking
    BY <1>3 DEF InRound, Waking
  <2>2. TypeOK' /\ Lockstep'
    BY <1>3 DEF Lockstep
  <2>3. CountExact' /\ SerialExact'
    BY <1>3, <2>1 DEF CountExact, SerialExact
  <2>4. LastAlone'
    BY <1>3 DEF LastAlone, OthersWait
  <2> QED
    BY <2>2, <2>3, <2>4
<1>4. ASSUME NEW t \in Threads, Reset(t) PROVE IInv'
  <2>1. Waking' = Waking
    BY <1>4 DEF Reset, Waking
  <2>2. TypeOK' /\ Lockstep'
    BY <1>4, Finiteness DEF Reset, Lockstep
  <2>3. CountExact' /\ SerialExact'
    BY <1>4, <2>1 DEF Reset, CountExact, SerialExact
  <2>4. LastAlone'
    BY <1>4 DEF Reset, LastAlone, OthersWait
  <2> QED
    BY <2>2, <2>3, <2>4
<1>5. ASSUME NEW t \in Threads, Advance(t) PROVE IInv'
  <2>1. OthersWait(t) /\ count = 0
    BY <1>5 DEF Advance, LastAlone
  <2>2. InRound' = {}
    BY <1>5, <2>1 DEF Advance, InRound, OthersWait
  <2>3. TypeOK' /\ Lockstep'
    BY <1>5, <2>1, Finiteness DEF Advance, Lockstep, OthersWait
  <2>4. CountExact'
    BY <1>5, <2>1, <2>2, FS_EmptySet DEF Advance, CountExact
  <2>5. LastAlone'
    BY <1>5, <2>1 DEF Advance, LastAlone, OthersWait
  <2>6. Waking' = Waking \cup {t} /\ t \notin Waking
    BY <1>5 DEF Advance, Waking
  <2>7. Cardinality(Waking') = Cardinality(Waking) + 1
    BY <2>6, Finiteness, FS_AddElement, Zenon
  <2>8. SerialExact'
    BY <1>5, <2>7, Finiteness DEF Advance, SerialExact
  <2> QED
    BY <2>3, <2>4, <2>5, <2>8
<1>6. ASSUME NEW t \in Threads, Wake(t) PROVE IInv'
  <2>1. PICK S \in SUBSET {u \in Threads : pc[u] = "asleep"} :
          pc' = [u \in Threads |-> IF u \in S THEN "test"
                                   ELSE IF u = t THEN "idle" ELSE pc[u]]
    BY <1>6 DEF Wake
  <2>2. \A u \in Threads : pc[u] \notin {"reset", "advance"}
    BY <1>6 DEF Wake, LastAlone, OthersWait
  <2>3. InRound' = InRound
    BY <1>6, <2>1 DEF Wake, InRound
  <2>4. Waking' = Waking \ {t} /\ t \in Waking
    BY <1>6, <2>1 DEF Wake, Waking
  <2>5. Cardinality(Waking') = Cardinality(Waking) - 1
    BY <2>4, Finiteness, FS_RemoveElement, Zenon
  <2>6. TypeOK' /\ Lockstep'
    <3>1. TypeOK'
      BY <1>6, <2>1 DEF Wake
    <3>2. Lockstep'
      BY <1>6, <2>1 DEF Wake, Lockstep
    <3> QED
      BY <3>1, <3>2
  <2>7. CountExact' /\ LastAlone'
    BY <1>6, <2>1, <2>2, <2>3 DEF Wake, CountExact, LastAlone
  <2>8. SerialExact'
    BY <1>6, <2>5, Finiteness DEF Wake, SerialExact
  <2> QED
    BY <2>6, <2>7, <2>8
<1>7. CASE UNCHANGED vars
  BY <1>7 DEF vars, Lockstep, CountExact, LastAlone, SerialExact, OthersWait,
     InRound, Waking
<1> QED
  BY <1>1, <1>2, <1>3, <1>4, <1>5, <1>6, <1>7 DEF Next, Steps

-----------------------------------------------------------------------------
\* The invariant holds in every reachable state.
THEOREM Invariance == Spec => []IInv
  BY InitIInv, NextIInv, PTL DEF Spec

\* Every reachable state is well typed; the count never passes the limit.
THEOREM TypeCorrect == Spec => []TypeOK
<1>1. IInv => TypeOK
  BY DEF IInv
<1> QED
  BY <1>1, Invariance, PTL

\* Nobody comes back from a round of pthread_barrier_wait that somebody has
\* not been counted in, however many threads and rounds there are.
THEOREM Holds == Spec => []BarrierHolds
<1>1. IInv => BarrierHolds
  <2> SUFFICES ASSUME IInv, NEW t \in Threads, NEW u \in Threads
               PROVE  Returned(t) <= Arrived(u)
    BY DEF BarrierHolds
  <2>1. Returned(t) <= phase
    BY DEF IInv, TypeOK, Labels, Waits, Lockstep, Returned
  <2>2. phase <= Arrived(u)
    BY DEF IInv, TypeOK, Labels, Waits, Lockstep, Arrived
  <2>3. Returned(t) \in Int /\ Arrived(u) \in Int /\ phase \in Int
    BY DEF IInv, TypeOK, Returned, Arrived
  <2> QED
    BY <2>1, <2>2, <2>3
<1> QED
  BY <1>1, Invariance, PTL

\* Every round has one serial thread and only one.
THEOREM Serial == Spec => []OneSerialPerRound
<1>1. IInv => OneSerialPerRound
  BY DEF IInv, Lockstep, SerialExact, OneSerialPerRound
<1> QED
  BY <1>1, Invariance, PTL

-----------------------------------------------------------------------------
(* pthread_once. *)

\* The caller that moves done from 0 to 1 is the only one that gets to run the
\* initialiser, and it is there until the initialiser has returned.
OnceInv ==
  /\ DOMAIN once_pc = Threads
  /\ done \in {0, 1} /\ started = done /\ complete \in BOOLEAN
  /\ complete => done = 1
  /\ \A t, u \in Threads : once_pc[t] = "init" /\ once_pc[u] = "init" => t = u
  /\ \A t \in Threads : once_pc[t] = "init" => done = 1 /\ ~complete
  /\ done = 1 /\ ~complete => \E t \in Threads : once_pc[t] = "init"

\* pthread_once of any number of callers.
THEOREM OnceInvariance == Once!Spec => []OnceInv
<1>1. Once!Init => OnceInv
  <2> SUFFICES ASSUME Once!Init PROVE OnceInv
    OBVIOUS
  <2>1. ~complete /\ complete \in BOOLEAN
    BY Zenon DEF Once!Init
  <2>2. /\ done = 0 /\ started = 0
        /\ DOMAIN once_pc = Threads /\ \A t \in Threads : once_pc[t] # "init"
    BY DEF Once!Init
  <2> QED
    BY <2>1, <2>2 DEF OnceInv
<1>2. OnceInv /\ [Once!Next]_(Once!vars) => OnceInv'
  <2> SUFFICES ASSUME OnceInv, [Once!Next]_(Once!vars) PROVE OnceInv'
    OBVIOUS
  <2> USE DEF OnceInv, Once!Goto
  <2>1. ASSUME NEW t \in Threads, Once!Call(t) PROVE OnceInv'
    BY <2>1 DEF Once!Call
  <2>2. ASSUME NEW t \in Threads, Once!Cas(t) PROVE OnceInv'
    <3>1. CASE done = 0
      BY <2>2, <3>1 DEF Once!Cas
    <3>2. CASE done = 1
      BY <2>2, <3>2 DEF Once!Cas
    <3> QED
      BY <3>1, <3>2
  <2>3. ASSUME NEW t \in Threads, Once!Initialised(t) PROVE OnceInv'
    BY <2>3 DEF Once!Initialised
  <2>4. CASE UNCHANGED Once!vars
    BY <2>4 DEF Once!vars
  <2> QED
    BY <2>1, <2>2, <2>3, <2>4 DEF Once!Next
<1> QED
  BY <1>1, <1>2, PTL DEF Once!Spec

\* The invariant says what the run checks.
LEMMA OnceInvImplies == OnceInv => Once!InitOnce
<1> SUFFICES ASSUME OnceInv PROVE Once!InitOnce
  OBVIOUS
<1> DEFINE S == {t \in Threads : once_pc[t] = "init"}
<1>1. ASSUME done = 1, ~complete PROVE Once!Cardinality(S) = 1
  <2>1. PICK t \in Threads : S = {t}
    BY <1>1 DEF OnceInv
  <2>2. Once!Cardinality(S) = Cardinality(S)
    BY DEF Once!Cardinality, Cardinality
  <2> HIDE DEF S
  <2> QED
    BY <2>1, <2>2, FS_Singleton
<1> QED
  BY <1>1 DEF OnceInv, Once!InitOnce

-----------------------------------------------------------------------------
(* pthread_key_create. *)

\* Keys handed out, or about to be, lie below the counter, and no two callers
\* are about to return the same one.
KeysInv ==
  /\ DOMAIN key_pc = KeyThreads /\ DOMAIN k = KeyThreads
  /\ counter \in Nat /\ counter >= 1
  /\ \A i \in created : i \in Nat /\ i < counter
  /\ \A t \in KeyThreads :
       key_pc[t] = "store" => /\ k[t] \in Nat /\ 1 <= k[t] /\ k[t] < MaxKeys
                              /\ k[t] < counter /\ k[t] \notin created
  /\ \A t, u \in KeyThreads :
       key_pc[t] = "store" /\ key_pc[u] = "store" /\ k[t] = k[u] => t = u

\* pthread_key_create and the destructor loops of any number of threads.
THEOREM KeysInvariance == Tsd!Spec => []KeysInv
<1>1. Tsd!Init => KeysInv
  BY DEF Tsd!Init, KeysInv
<1>2. KeysInv /\ [Tsd!Next]_(Tsd!vars) => KeysInv'
  <2> SUFFICES ASSUME KeysInv, [Tsd!Next]_(Tsd!vars) PROVE KeysInv'
    OBVIOUS
  <2> USE DEF KeysInv, Tsd!From
  <2>1. ASSUME NEW t \in KeyThreads, Tsd!KeyCreate(t) PROVE KeysInv'
    <3>1. CASE counter >= MaxKeys
      BY <2>1, <3>1 DEF Tsd!KeyCreate
    <3>2. CASE ~(counter >= MaxKeys)
      <4>1. /\ key_pc' = [key_pc EXCEPT ![t] = "store"] /\ k' = [k EXCEPT ![t] = counter]
            /\ counter' = counter + 1 /\ created' = created
        BY <2>1, <3>2 DEF Tsd!KeyCreate
      <4>2. counter < MaxKeys
        BY <3>2, KeysAssumption
      <4> QED
        BY <4>1, <4>2
    <3> QED
      BY <3>1, <3>2
  <2>2. ASSUME NEW t \in KeyThreads, Tsd!KeyCreated(t) PROVE KeysInv'
    BY <2>2 DEF Tsd!KeyCreated
  \* The other steps leave the keys alone.
  <2> DEFINE Leaves ==
        /\ DOMAIN key_pc' = KeyThreads /\ DOMAIN k' = KeyThreads
        /\ counter' = counter /\ created' = created
        /\ \A u \in KeyThreads :
             key_pc'[u] = "store" => key_pc[u] = "store" /\ k'[u] = k[u]
  <2>3. ASSUME Leaves PROVE KeysInv'
    BY <2>3
  <2>4. ASSUME NEW t \in KeyThreads, NEW i, Tsd!KeyDelete(t, i) PROVE Leaves
    BY <2>4 DEF Tsd!KeyDelete
  <2>5. ASSUME NEW t \in KeyThreads, NEW i, Tsd!SetSpecific(t, i) PROVE Leaves
    BY <2>5 DEF Tsd!SetSpecific
  <2>6. ASSUME NEW t \in KeyThreads, Tsd!GetSpecific(t) PROVE Leaves
    BY <2>6 DEF Tsd!GetSpecific
  <2>7. ASSUME NEW t \in KeyThreads, Tsd!Exit(t) PROVE Leaves
    BY <2>7 DEF Tsd!Exit
  <2>8. ASSUME NEW t \in KeyThreads, Tsd!DestroyKey(t) PROVE Leaves
    <3>1. PICK next : key_pc[t] = "loop" /\ key_pc' = [key_pc EXCEPT ![t] = next]
                      /\ next # "store"
      BY <2>8, Zenon DEF Tsd!DestroyKey
    <3>2. counter' = counter /\ created' = created /\ DOMAIN k' = KeyThreads
          /\ \A u \in KeyThreads \ {t} : k'[u] = k[u]
      BY <2>8 DEF Tsd!DestroyKey
    <3> QED
      BY <3>1, <3>2
  <2>9. ASSUME NEW t \in KeyThreads, Tsd!Destructor(t) PROVE Leaves
    BY <2>9 DEF Tsd!Destructor
  <2>10. ASSUME NEW t \in KeyThreads, Tsd!RoundEnds(t) PROVE Leaves
    BY <2>10 DEF Tsd!RoundEnds
  <2>11. CASE UNCHANGED Tsd!vars
    BY <2>11 DEF Tsd!vars
  <2> HIDE DEF Leaves, KeysInv
  <2> QED
    BY <2>1, <2>2, <2>3, <2>4, <2>5, <2>6, <2>7, <2>8, <2>9, <2>10, <2>11
    DEF Tsd!Next, Tsd!Steps
<1> QED
  BY <1>1, <1>2, PTL DEF Tsd!Spec

-----------------------------------------------------------------------------
(* The three together. *)

\* Each part of MCSync behaves as one by itself.
LEMMA Parts == MCSpec => Spec /\ Once!Spec /\ Tsd!Spec
<1>1. MCInit => Init /\ Once!Init /\ Tsd!Init
  BY DEF MCInit
<1>2. [MCNext]_all => [Next]_vars /\ [Once!Next]_(Once!vars) /\ [Tsd!Next]_(Tsd!vars)
  BY DEF MCNext, all, vars, oncevars, keyvars, Once!vars, Tsd!vars
<1> QED
  BY <1>1, <1>2, PTL DEF MCSpec, Spec, Once!Spec, Tsd!Spec

\* However many calls of pthread_once race, one of them runs the initialiser, and
\* it is run; pthread_key_create gives no two callers the same key, nor a key that
\* was given before, nor the key of pthread_self.
THEOREM OnceAndKeysHold == MCSpec => []OnceAndKeys
<1>1. KeysInv => Tsd!KeysDistinct
  BY KeysAssumption DEF KeysInv, Tsd!KeysDistinct, Tsd!Keys
<1>2. OnceInv /\ KeysInv => OnceAndKeys
  BY <1>1, OnceInvImplies DEF OnceAndKeys
<1> QED
  BY <1>2, Parts, OnceInvariance, KeysInvariance, PTL

-----------------------------------------------------------------------------
(* The POSIX semaphores of sys/sem.h. *)

CONSTANTS SemThreads, Initial, Modulus, MaxPosts
VARIABLES value, ncnt, s_pc, s_op, posts, taken

Sem == INSTANCE PosixSem WITH Threads <- SemThreads, pc <- s_pc, op <- s_op

\* Finitely many threads, and an initial value that fits.
SemSetting ==
  /\ IsFiniteSet(SemThreads)
  /\ Modulus \in Nat /\ Modulus > 1
  /\ Initial \in 0..(Modulus - 1)

Counted == {t \in SemThreads : s_pc[t] \in {"wait", "woken"}}

\* The inductive invariant: what was taken and what the value still allows never
\* exceed the posts, also where the value wraps to zero.
SemInv ==
  /\ value \in 0..(Modulus - 1) /\ posts \in Nat /\ taken \in Nat
  /\ s_pc \in [SemThreads -> {"idle", "test", "wait", "woken"}]
  /\ s_op \in [SemThreads -> {"none", "sem_wait", "sem_timedwait", "sem_trywait"}]
  /\ \A t \in SemThreads : s_pc[t] \in {"wait", "woken"} => s_op[t] # "sem_trywait"
  /\ taken + value <= Initial + posts
  /\ value > 0 => \A t \in SemThreads : s_pc[t] # "wait"
  /\ ncnt = Cardinality(Counted)

\* sem_post adds one to the value or wraps it to zero.
LEMMA PostValue ==
  ASSUME SemSetting, NEW v \in 0..(Modulus - 1)
  PROVE  /\ (v + 1) % Modulus \in 0..(Modulus - 1)
         /\ (v + 1) % Modulus <= v + 1
<1>1. CASE v + 1 < Modulus
  <2>1. (v + 1) % Modulus = v + 1
    BY <1>1 DEF SemSetting
  <2> QED
    BY <2>1, <1>1 DEF SemSetting
<1>2. CASE v + 1 = Modulus
  <2>1. (v + 1) % Modulus = 0
    BY <1>2 DEF SemSetting
  <2> QED
    BY <2>1, <1>2 DEF SemSetting
<1> QED
  BY <1>1, <1>2 DEF SemSetting

\* A wait that succeeds takes one from a positive value.
LEMMA TakeValue ==
  ASSUME SemSetting, NEW v \in 1..(Modulus - 1)
  PROVE  (v + Modulus - 1) % Modulus = v - 1
<1> DEFINE w == v - 1
<1>1. w \in 0..(Modulus - 1) /\ v + Modulus - 1 = w + Modulus
  BY DEF SemSetting
<1>2. (w + Modulus) % Modulus = w
  <2> HIDE DEF w
  <2> QED
    BY <1>1 DEF SemSetting
<1> QED
  BY <1>1, <1>2

\* One thread comes to wait, or stops waiting.
LEMMA CountedChanges ==
  ASSUME SemSetting, NEW S \in SUBSET SemThreads, NEW t \in SemThreads
  PROVE  /\ Cardinality(S) \in Nat
         /\ t \notin S => Cardinality(S \cup {t}) = Cardinality(S) + 1
         /\ t \in S => Cardinality(S \ {t}) = Cardinality(S) - 1
<1>1. IsFiniteSet(S) /\ Cardinality(S) \in Nat
  BY FS_Subset, FS_CardinalityType DEF SemSetting
<1> QED
  BY <1>1, FS_AddElement, FS_RemoveElement, Zenon

\* Cardinality means the same in the instance.
LEMMA SameCardinality == \A S : Sem!Cardinality(S) = Cardinality(S)
  BY DEF Sem!Cardinality, Cardinality

\* One post covers one more unit of the value.
LEMMA OneMore ==
  ASSUME NEW a \in Nat, NEW v \in Nat, NEW w \in Nat, NEW i \in Nat, NEW p \in Nat,
         a + v <= i + p, w <= v + 1
  PROVE  a + w <= i + (p + 1)
  OBVIOUS

\* Every call of the semaphore keeps the invariant.
LEMMA SemStep ==
  ASSUME SemSetting, SemInv, [Sem!Next]_(Sem!vars)
  PROVE  SemInv'
<1>0. /\ value \in Nat /\ value < Modulus /\ Modulus \in Nat /\ Initial \in Nat
  BY DEF SemSetting, SemInv
<1>1. ASSUME NEW t \in SemThreads, Sem!Call(t) PROVE SemInv'
  <2>1. Counted' = Counted
    BY <1>1 DEF Counted, Sem!Call, SemInv
  <2>2. /\ s_pc' \in [SemThreads -> {"idle", "test", "wait", "woken"}]
        /\ s_op' \in [SemThreads -> {"none", "sem_wait", "sem_timedwait", "sem_trywait"}]
        /\ \A u \in SemThreads : s_pc'[u] \in {"wait", "woken"} => s_op'[u] # "sem_trywait"
        /\ value > 0 => \A u \in SemThreads : s_pc'[u] # "wait"
    BY <1>1 DEF Sem!Call, SemInv
  <2> QED
    BY <1>1, <2>1, <2>2 DEF Sem!Call, SemInv
<1>2. ASSUME NEW t \in SemThreads, Sem!Test(t) PROVE SemInv'
  <2>1. value' = value - 1 /\ value > 0
    <3>1. value # 0 /\ value' = (value + Modulus - 1) % Modulus
      BY <1>2 DEF Sem!Test
    <3>2. value \in 1..(Modulus - 1)
      BY <3>1, <1>0
    <3> QED
      BY <3>1, <3>2, TakeValue
  <2>2. /\ s_pc' \in [SemThreads -> {"idle", "test", "wait", "woken"}]
        /\ s_op' \in [SemThreads -> {"none", "sem_wait", "sem_timedwait", "sem_trywait"}]
        /\ \A u \in SemThreads : s_pc'[u] \in {"wait", "woken"} => s_op'[u] # "sem_trywait"
        /\ \A u \in SemThreads : s_pc'[u] # "wait"
    BY <1>2, <2>1 DEF Sem!Test, Sem!Return, SemInv
  <2>3. Counted' = Counted \ {t} /\ Counted \in SUBSET SemThreads
    BY <1>2 DEF Counted, Sem!Test, Sem!Return, SemInv
  <2>4. ncnt' = Cardinality(Counted')
    <3>1. CASE s_pc[t] = "woken"
      BY <1>2, <2>3, <3>1, CountedChanges DEF Counted, Sem!Test, SemInv
    <3>2. CASE s_pc[t] = "test"
      <4>1. Counted' = Counted
        BY <3>2, <2>3 DEF Counted
      <4> QED
        BY <1>2, <4>1, <3>2 DEF Sem!Test, SemInv
    <3> QED
      BY <1>2, <3>1, <3>2 DEF Sem!Test
  <2> QED
    BY <1>2, <1>0, <2>1, <2>2, <2>4, SMTT(30) DEF Sem!Test, SemInv
<1>3. ASSUME NEW t \in SemThreads, Sem!Block(t) PROVE SemInv'
  <2>1. /\ s_pc' \in [SemThreads -> {"idle", "test", "wait", "woken"}]
        /\ s_op' \in [SemThreads -> {"none", "sem_wait", "sem_timedwait", "sem_trywait"}]
        /\ \A u \in SemThreads : s_pc'[u] \in {"wait", "woken"} => s_op'[u] # "sem_trywait"
    BY <1>3 DEF Sem!Block, Sem!Return, SemInv
  <2>2. ncnt' = Cardinality(Counted')
    <3>0. Counted \in SUBSET SemThreads
      BY DEF Counted
    <3>1. CASE s_op[t] = "sem_trywait"
      <4>1. Counted' = Counted
        BY <1>3, <3>1 DEF Counted, Sem!Block, Sem!Return, SemInv
      <4> QED
        BY <4>1, <1>3, <3>1 DEF Sem!Block, SemInv
    <3>2. CASE s_op[t] # "sem_trywait"
      <4>1. Counted' = Counted \cup {t}
        BY <1>3, <3>2 DEF Counted, Sem!Block, SemInv
      <4>2. CASE s_pc[t] = "woken"
        <5>1. Counted' = Counted
          BY <4>1, <4>2 DEF Counted
        <5> QED
          BY <5>1, <1>3, <3>2, <4>2 DEF Sem!Block, SemInv
      <4>3. CASE s_pc[t] = "test"
        BY <1>3, <3>0, <3>2, <4>1, <4>3, CountedChanges, SMTT(30) DEF Counted, Sem!Block, SemInv
      <4> QED
        BY <1>3, <4>2, <4>3 DEF Sem!Block
    <3> QED
      BY <3>1, <3>2
  <2> QED
    BY <1>3, <1>0, <2>1, <2>2, SMTT(30) DEF Sem!Block, SemInv
<1>4. ASSUME NEW t \in SemThreads, Sem!TimeOut(t) PROVE SemInv'
  <2>1. /\ s_pc' \in [SemThreads -> {"idle", "test", "wait", "woken"}]
        /\ s_op' \in [SemThreads -> {"none", "sem_wait", "sem_timedwait", "sem_trywait"}]
        /\ \A u \in SemThreads : s_pc'[u] \in {"wait", "woken"} => s_op'[u] # "sem_trywait"
        /\ value > 0 => \A u \in SemThreads : s_pc'[u] # "wait"
    BY <1>4 DEF Sem!TimeOut, Sem!Return, SemInv
  <2>2. Counted' = Counted \ {t} /\ t \in Counted /\ Counted \in SUBSET SemThreads
    BY <1>4 DEF Counted, Sem!TimeOut, Sem!Return, SemInv
  <2>3. ncnt' = Cardinality(Counted')
    BY <1>4, <2>2, CountedChanges DEF Sem!TimeOut, SemInv
  <2> QED
    BY <1>4, <2>1, <2>3 DEF Sem!TimeOut, SemInv
<1>5. ASSUME NEW t \in SemThreads, Sem!Post(t) PROVE SemInv'
  <2>1. /\ s_pc' \in [SemThreads -> {"idle", "test", "wait", "woken"}]
        /\ \A u \in SemThreads : s_pc'[u] \in {"wait", "woken"} => s_op'[u] # "sem_trywait"
        /\ \A u \in SemThreads : s_pc'[u] # "wait"
    BY <1>5 DEF Sem!Post, SemInv
  <2>2. Counted' = Counted
    BY <1>5 DEF Counted, Sem!Post, SemInv
  <2>3. value' \in 0..(Modulus - 1) /\ value' <= value + 1
    BY <1>5, PostValue DEF Sem!Post, SemInv
  <2>4. posts' = posts + 1 /\ ncnt' = ncnt /\ s_op' = s_op /\ taken' = taken
    BY <1>5 DEF Sem!Post
  <2>5. posts' \in Nat /\ taken' + value' <= Initial + posts'
    <3>1. value' \in Nat /\ value' <= value + 1
      BY <1>0, <2>3
    <3>2. posts \in Nat /\ taken \in Nat /\ taken + value <= Initial + posts
      BY DEF SemInv
    <3>3. posts' \in Nat
      BY <2>4, <3>2
    <3>4. taken + value' <= Initial + (posts + 1)
      BY <1>0, <3>1, <3>2, OneMore, Zenon
    <3> QED
      BY <1>0, <2>4, <3>3, <3>4, <3>2
  <2> QED
    BY <2>1, <2>2, <2>3, <2>4, <2>5 DEF SemInv
<1>6. CASE UNCHANGED Sem!vars
  BY <1>6 DEF Sem!vars, SemInv, Counted
<1> QED
  BY <1>1, <1>2, <1>3, <1>4, <1>5, <1>6 DEF Sem!Next

\* The value, the count of waiters and what was taken stay as SemInv says.
THEOREM PosixSemInvariance ==
  ASSUME SemSetting
  PROVE  Sem!Spec => []SemInv
<1>1. Sem!Init => SemInv
  <2> SUFFICES ASSUME Sem!Init PROVE SemInv
    OBVIOUS
  <2>1. Counted = {}
    BY DEF Counted, Sem!Init
  <2>2. Cardinality(Counted) = 0
    BY <2>1, FS_EmptySet
  <2> QED
    BY <2>2 DEF Sem!Init, SemInv, SemSetting
<1>2. SemInv /\ [Sem!Next]_(Sem!vars) => SemInv'
  BY SemStep
<1> QED
  BY <1>1, <1>2, PTL DEF Sem!Spec

\* No more waits succeed than the initial value and the posts allow, nobody sleeps
\* while the value is positive, and ncnt counts the waiters, for any number of
\* threads and posts and any width of the value.
THEOREM SemaphoreNeverOvertaken ==
  ASSUME SemSetting
  PROVE  Sem!Spec => []Sem!NeverOvertaken
<1>1. SemInv => Sem!NeverOvertaken
  BY SameCardinality DEF SemInv, Sem!NeverOvertaken, Counted, SemSetting
<1> QED
  BY <1>1, PosixSemInvariance, PTL
=============================================================================
