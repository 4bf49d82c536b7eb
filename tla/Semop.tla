------------------------------- MODULE Semop -------------------------------
(***************************************************************************)
(* One System V semaphore set of include/sys/sem.h, used by the threads of *)
(* a process: semop with its locks taken slot by slot, its test, its wait  *)
(* and its undo log; semctl SETVAL (SETALL is a row of them, each under    *)
(* its own lock); and the undo clean-up that exit() runs.                  *)
(*                                                                         *)
(* A mutex is used as MutexSpec has it, and pthread_cond_wait gives its    *)
(* lock up and starts to wait in one step, as PthreadCond shows.  Waiting  *)
(* ends with a broadcast: pthread_cond_wait looks at its word again after  *)
(* every interruption.                                                     *)
(***************************************************************************)
EXTENDS Integers, FiniteSets, SequencesExt, TLC,
        FiniteSetTheorems, WellFoundedInduction, TLAPS

CONSTANTS Threads,
          NoThread,   \* the owner of a free mutex
          Sems,       \* the slots of the set's semaphores
          Vectors,    \* operation vectors: sequences of [sem, op, undo]
          SetVals,    \* the values SETVAL is called with
          Exits,      \* whether a thread may call exit()
          Modulus,    \* 2^w for the w bits of a value
          MaxCalls    \* bound on the calls in a behaviour

ASSUME NoThreadAssumption == NoThread \notin Threads
ASSUME SemsAssumption ==
  /\ Sems \subseteq Nat
  /\ Modulus \in Nat \ {0} /\ SetVals \subseteq 0..(Modulus - 1)
  /\ Exits \in BOOLEAN /\ MaxCalls \in Nat
ASSUME VectorsAssumption ==
  /\ IsFiniteSet(Sems)
  /\ \A v \in Vectors : v \in Seq([sem : Sems, op : Int, undo : BOOLEAN])

VARIABLES
  value,              \* p->value of each slot
  lock,               \* the owner of each slot's p->lock
  ncnt, zcnt,         \* p->ncnt and p->zcnt
  undo_lock,          \* the owner of __jacl_sem_undo_lock
  entries,            \* the slots of this process's undo entries, oldest first
  adjust,             \* and the adjustment in it
  pc,                 \* where each thread is in its call
  sops,               \* the vector of each thread's semop
  nowait,             \* whether it has IPC_NOWAIT
  k,                  \* __jacl_sem_apply_ops: the next operation
  blocker,            \* the operation that blocked
  calls               \* ghost: calls made so far

undovars == <<undo_lock, entries, adjust>>
args == <<sops, nowait, calls>>
vars == <<value, lock, ncnt, zcnt, undo_lock, entries, adjust, pc, sops, nowait, k,
          blocker, calls>>

NoOp == [sem |-> CHOOSE s \in Sems : TRUE, op |-> 0, undo |-> FALSE]

-----------------------------------------------------------------------------
\* semget has just made the set.
Init ==
  /\ value = [s \in Sems |-> 0]
  /\ lock = [s \in Sems |-> NoThread]
  /\ ncnt = [s \in Sems |-> 0]
  /\ zcnt = [s \in Sems |-> 0]
  /\ undo_lock = NoThread
  /\ entries = <<>>
  /\ adjust = [s \in Sems |-> 0]
  /\ pc = [t \in Threads |-> "idle"]
  /\ sops = [t \in Threads |-> <<>>]
  /\ nowait = [t \in Threads |-> FALSE]
  /\ k = [t \in Threads |-> 1]
  /\ blocker = [t \in Threads |-> NoOp]
  /\ calls = 0

Goto(t, label) == pc' = [pc EXCEPT ![t] = label]

\* pc once t, moving on to label, has broadcast the condition of slot s.
Broadcast(t, label, s) ==
  pc' = [u \in Threads |->
           IF u = t THEN label
           ELSE IF pc[u] = "wait" /\ blocker[u].sem = s THEN "woken" ELSE pc[u]]

\* The slots whose lock t holds, and all that its vector names.
Held(t) == {s \in Sems : lock[s] = t}
Needed(t) == {sops[t][i].sem : i \in DOMAIN sops[t]}
UnlockAll(t) == lock' = [s \in Sems |-> IF lock[s] = t THEN NoThread ELSE lock[s]]

\* semop returns.
Return(t) ==
  /\ Goto(t, "idle")
  /\ sops' = [sops EXCEPT ![t] = <<>>]
  /\ nowait' = [nowait EXCEPT ![t] = FALSE]
  /\ k' = [k EXCEPT ![t] = 1]

Call(t) ==
  /\ pc[t] = "idle" /\ calls < MaxCalls
  /\ \E v \in Vectors : sops' = [sops EXCEPT ![t] = v]
  /\ \E b \in BOOLEAN : nowait' = [nowait EXCEPT ![t] = b]
  /\ calls' = calls + 1
  /\ Goto(t, "lock")
  /\ UNCHANGED <<value, lock, ncnt, zcnt, undovars, k, blocker>>

\* Mutant: the locks are taken in array order.
MutNextSlot(t) ==
  LET i == SelectInSeq(sops[t], LAMBDA o : o.sem \notin Held(t)) IN sops[t][i].sem

\* __jacl_sem_build_sorted_indices: slots are locked in increasing order.
NextSlot(t) == Min(Needed(t) \ Held(t))

\* One round of __jacl_sem_lock_slots.
LockSlot(t) ==
  /\ pc[t] = "lock"
  /\ Needed(t) \ Held(t) # {}
  /\ lock[NextSlot(t)] = NoThread
  /\ lock' = [lock EXCEPT ![NextSlot(t)] = t]
  /\ UNCHANGED <<value, ncnt, zcnt, undovars, pc, args, k, blocker>>

\* Mutant: only the first operation is tested.
MutBlocks(v) ==
  IF (IF v[1].op = 0 THEN value[v[1].sem] # 0 ELSE value[v[1].sem] < -v[1].op) THEN 1 ELSE 0

\* __jacl_sem_check_block: the first operation that would block, each tested
\* against the values as they are; 0 if none would.
Blocks(v) ==
  SelectInSeq(v, LAMBDA o : IF o.op = 0 THEN value[o.sem] # 0 ELSE value[o.sem] < -o.op)

\* With all locks held: on to the operations, or give the locks up and, unless
\* the vector has IPC_NOWAIT (then EAGAIN), wait.
Check(t) ==
  /\ pc[t] = "lock"
  /\ Needed(t) \subseteq Held(t)
  /\ LET i == Blocks(sops[t])
     IN  \/ i = 0 /\ Goto(t, "apply") /\ UNCHANGED <<lock, blocker, sops, nowait, k>>
         \/ i # 0 /\ nowait[t] /\ UnlockAll(t) /\ Return(t) /\ UNCHANGED blocker
         \/ /\ i # 0 /\ ~nowait[t]
            /\ UnlockAll(t)
            /\ blocker' = [blocker EXCEPT ![t] = sops[t][i]]
            /\ Goto(t, "block")
            /\ UNCHANGED <<sops, nowait, k>>
  /\ UNCHANGED <<value, ncnt, zcnt, undovars, calls>>

\* One round of __jacl_sem_apply_ops; an operation with SEM_UNDO also takes
\* and releases the undo lock, in __jacl_sem_undo_add.
Apply(t) ==
  /\ pc[t] = "apply" /\ k[t] <= Len(sops[t])
  /\ LET o == sops[t][k[t]]
         undo == o.undo /\ o.op # 0
     IN  /\ undo => undo_lock = NoThread
         /\ value' = [value EXCEPT ![o.sem] = (@ + o.op) % Modulus]
         /\ entries' = IF undo /\ ~Contains(entries, o.sem)
                       THEN Append(entries, o.sem) ELSE entries
         /\ adjust' = IF undo THEN [adjust EXCEPT ![o.sem] = @ + o.op] ELSE adjust
         /\ IF o.op = 0 THEN UNCHANGED pc ELSE Broadcast(t, "apply", o.sem)
  /\ k' = [k EXCEPT ![t] = @ + 1]
  /\ UNCHANGED <<lock, ncnt, zcnt, undo_lock, args, blocker>>

\* semop unlocks everything and returns 0.
Done(t) ==
  /\ pc[t] = "apply" /\ k[t] > Len(sops[t])
  /\ UnlockAll(t)
  /\ Return(t)
  /\ UNCHANGED <<value, ncnt, zcnt, undovars, blocker, calls>>

\* The waiters that __jacl_sem_wait_blocker counts on t's semaphore, plus n.
Count(t, n) ==
  LET s == blocker[t].sem
  IN  IF blocker[t].op = 0 THEN zcnt' = [zcnt EXCEPT ![s] = @ + n] /\ UNCHANGED ncnt
                           ELSE ncnt' = [ncnt EXCEPT ![s] = @ + n] /\ UNCHANGED zcnt

\* __jacl_sem_wait_blocker: lock the semaphore that blocked again and wait on
\* it, whatever its value is by now.
Wait(t) ==
  /\ pc[t] = "block"
  /\ lock[blocker[t].sem] = NoThread
  /\ Count(t, 1)
  /\ Goto(t, "wait")
  /\ UNCHANGED <<value, lock, undovars, args, k, blocker>>

\* The wait returns with the lock held; uncount, unlock, and start over.
Woken(t) ==
  /\ pc[t] = "woken"
  /\ lock[blocker[t].sem] = NoThread
  /\ Count(t, -1)
  /\ Goto(t, "lock")
  /\ blocker' = [blocker EXCEPT ![t] = NoOp]
  /\ UNCHANGED <<value, lock, undovars, args, k>>

\* semctl SETVAL.
SetVal(t) ==
  /\ pc[t] = "idle" /\ calls < MaxCalls
  /\ \E s \in Sems, n \in SetVals :
       /\ lock[s] = NoThread
       /\ value' = [value EXCEPT ![s] = n]
       /\ Broadcast(t, "idle", s)
  /\ calls' = calls + 1
  /\ UNCHANGED <<lock, ncnt, zcnt, undovars, sops, nowait, k, blocker>>

\* exit() runs __jacl_sem_undo_cleanup, once: it takes the undo lock,
Exit(t) ==
  /\ Exits
  /\ pc[t] = "idle"
  /\ \A u \in Threads : pc[u] \notin {"exit", "undo", "exited"}
  /\ Goto(t, "exit")
  /\ UNCHANGED <<value, lock, ncnt, zcnt, undovars, args, k, blocker>>

ExitLock(t) ==
  /\ pc[t] = "exit"
  /\ undo_lock = NoThread
  /\ undo_lock' = t
  /\ Goto(t, "undo")
  /\ UNCHANGED <<value, lock, ncnt, zcnt, entries, adjust, args, k, blocker>>

\* takes each entry back under the lock of its slot,
Undo(t) ==
  /\ pc[t] = "undo" /\ entries # <<>>
  /\ LET s == Head(entries)
     IN  /\ lock[s] = NoThread
         /\ value' = [value EXCEPT ![s] = (@ - adjust[s]) % Modulus]
         /\ Broadcast(t, "undo", s)
         /\ entries' = Tail(entries)
         /\ adjust' = [adjust EXCEPT ![s] = 0]
  /\ UNCHANGED <<lock, ncnt, zcnt, undo_lock, args, k, blocker>>

\* and is done.
Exited(t) ==
  /\ pc[t] = "undo" /\ entries = <<>>
  /\ undo_lock' = NoThread
  /\ Goto(t, "exited")
  /\ UNCHANGED <<value, lock, ncnt, zcnt, entries, adjust, args, k, blocker>>

\* What a running thread does by itself inside a call.
Steps(t) ==
  \/ LockSlot(t) \/ Check(t) \/ Apply(t) \/ Done(t) \/ Wait(t) \/ Woken(t)
  \/ ExitLock(t) \/ Undo(t) \/ Exited(t)

Next == \E t \in Threads : Call(t) \/ SetVal(t) \/ Exit(t) \/ Steps(t)

Spec == Init /\ [][Next]_vars

\* Running threads keep running, and the calls of a behaviour are finite, so
\* a lock that is released is not kept from a thread for ever.
FairSpec == Spec /\ \A t \in Threads : WF_vars(Steps(t))

-----------------------------------------------------------------------------
TypeOK ==
  /\ value \in [Sems -> 0..(Modulus - 1)]
  /\ lock \in [Sems -> Threads \cup {NoThread}]
  /\ ncnt \in [Sems -> 0..Cardinality(Threads)]
  /\ zcnt \in [Sems -> 0..Cardinality(Threads)]
  /\ undo_lock \in Threads \cup {NoThread}
  /\ entries \in Seq(Sems) /\ adjust \in [Sems -> Int]
  /\ pc \in [Threads -> {"idle", "lock", "block", "wait", "woken", "apply",
                         "exit", "undo", "exited"}]
  /\ sops \in [Threads -> Vectors \cup {<<>>}] /\ nowait \in [Threads -> BOOLEAN]
  /\ k \in [Threads -> Nat] /\ calls \in 0..MaxCalls

\* Whom thread t, in semop, waits for: the owner of the mutex it needs next.
WaitsFor(t) ==
  CASE pc[t] = "lock" /\ Needed(t) \ Held(t) # {} -> {lock[NextSlot(t)]}
    [] pc[t] \in {"block", "woken"} -> {lock[blocker[t].sem]}
    [] pc[t] = "apply" /\ k[t] <= Len(sops[t]) /\ sops[t][k[t]].undo -> {undo_lock}
    [] OTHER -> {}

\* The threads in semop never wait for one another in a circle, whichever
\* semaphores their vectors name in whichever order.  A thread in exit() may
\* be part of one: see ExitEnds.
NoCircularWait ==
  ~ \E S \in SUBSET {t \in Threads : pc[t] \notin {"exit", "undo"}} :
      /\ S # {}
      /\ \A t \in S : WaitsFor(t) # {} /\ WaitsFor(t) \subseteq S

\* The value of semaphore s to everyone but a thread in the middle of its
\* vector, whose operations are taken back.
Settled(s) ==
  LET t == lock[s]
      done == IF t # NoThread /\ pc[t] = "apply" THEN SubSeq(sops[t], 1, k[t] - 1) ELSE <<>>
  IN  (value[s] - FoldSeq(LAMBDA o, sum : IF o.sem = s THEN sum + o.op ELSE sum, 0, done))
        % Modulus

Abstract == INSTANCE SemSpec WITH vals <- [s \in Sems |-> Settled(s)]

\* semop carries its vector out as a whole or not at all, and only when none
\* of its operations would block.
ImplementsSemSpec == Abstract!Spec

\* A decrement lowers the value: __jacl_sem_check_block has found that no
\* operation of the vector would block.
DecrementLowers ==
  [][\A t \in Threads :
       pc[t] = "apply" /\ k'[t] > k[t] /\ sops[t][k[t]].op < 0
         => value'[sops[t][k[t]].sem] < value[sops[t][k[t]].sem]]_vars

\* A thread does not go on waiting in semop on a semaphore that has come to
\* the value its operation needs.
SemopWakes ==
  \A t \in Threads :
    LET s == blocker[t].sem
        n == blocker[t].op
        Met == IF n = 0 THEN value[s] = 0 ELSE value[s] >= -n
    IN  (pc[t] = "wait" /\ Met) ~> ~(pc[t] = "wait" /\ Met)

\* The undo clean-up that exit() runs comes to its end.
ExitEnds == \A t \in Threads : (pc[t] = "exit") ~> (pc[t] = "exited")

-----------------------------------------------------------------------------
(* Values of the constants for TLC. *)

Symmetry == Permutations(Threads)
Sop(s, n, u) == [sem |-> s, op |-> n, undo |-> u]

\* Vectors that name a semaphore once, in both orders, with and without undo.
OnceEach ==
  { <<Sop(0, -1, FALSE)>>, <<Sop(1, 0, FALSE)>>, <<Sop(1, 1, TRUE)>>,
    <<Sop(0, 1, FALSE), Sop(1, -1, TRUE)>>, <<Sop(1, 1, FALSE), Sop(0, 1, FALSE)>>,
    <<Sop(1, -1, FALSE), Sop(0, -1, FALSE)>> }

\* A post and a wait on one semaphore.
PostWait == { <<Sop(0, 1, FALSE)>>, <<Sop(0, -1, FALSE)>> }

\* Two operations of one vector on one semaphore.
Twice == { <<Sop(0, 1, FALSE)>>, <<Sop(0, -1, FALSE), Sop(0, -1, FALSE)>> }

\* A post with SEM_UNDO.
UndoPost == { <<Sop(0, 1, TRUE)>> }

-----------------------------------------------------------------------------
(* Proofs, for any number of threads, any semaphores and any vectors of        *)
(* operations: the threads in semop never wait for one another in a circle.    *)

\* A thread owns slots only between __jacl_sem_lock_slots and its unlocking, and
\* only slots that its vector names.
OwnersInSemop ==
  \A s \in Sems, t \in Threads :
    lock[s] = t => pc[t] \in {"lock", "apply"} /\ s \in Needed(t)

\* While it locks, the slots it has lie below those it still needs.
LocksUpwards ==
  \A t \in Threads :
    pc[t] = "lock" => \A a \in Held(t), b \in Needed(t) \ Held(t) : a < b

\* The undo lock is kept across steps only by exit(); a semaphore that blocked is
\* one of the set; a vector is one of those called with.
SemTypes ==
  /\ DOMAIN lock = Sems /\ DOMAIN pc = Threads
  /\ DOMAIN sops = Threads /\ DOMAIN blocker = Threads
  /\ \A t \in Threads : sops[t] \in Vectors \cup {<<>>}
  /\ \A t \in Threads : pc[t] \in {"block", "wait", "woken"} => blocker[t].sem \in Sems
  /\ undo_lock # NoThread => undo_lock \in Threads /\ pc[undo_lock] = "undo"

\* The inductive invariant.  Locking upwards alone does not exclude a circle: the
\* undo lock and the slot that a waiter locks again must not be held by a thread
\* that waits for slots in another order.
SemInv == SemTypes /\ OwnersInSemop /\ LocksUpwards

-----------------------------------------------------------------------------
(* Slots. *)

\* A non-empty set of naturals has a least element.
LEMMA LeastNat ==
  ASSUME NEW I \in SUBSET Nat, I # {}
  PROVE  \E i \in I : \A j \in I : i <= j
<1> DEFINE R == {ss \in Nat \X Nat : ss[1] < ss[2]}
<1>1. IsWellFoundedOn(R, Nat)
  BY NatLessThanWellFounded, Zenon DEF OpToRel
<1> HIDE DEF R
<1>2. PICK i \in I : \A j \in I : <<j, i>> \notin R
  BY <1>1, WFMin
<1>3. ASSUME NEW j \in I PROVE i <= j
  <2>1. i \in Nat /\ j \in Nat
    OBVIOUS
  <2>2. ~(j < i)
    BY <1>2, <2>1 DEF R
  <2> QED
    BY <2>1, <2>2
<1> QED
  BY <1>3

\* The slot at the head of the sorted indices.
LEMMA LeastMin ==
  ASSUME NEW I \in SUBSET Nat, I # {}
  PROVE  Min(I) \in I /\ \A j \in I : Min(I) <= j
  BY LeastNat DEF Min

\* A vector names slots of the set.
LEMMA VectorSlots ==
  ASSUME SemTypes, NEW t \in Threads
  PROVE  /\ Len(sops[t]) \in Nat /\ DOMAIN sops[t] = 1..Len(sops[t])
         /\ \A i \in DOMAIN sops[t] : sops[t][i].sem \in Sems
<1>1. CASE sops[t] = <<>>
  BY <1>1
<1>2. CASE sops[t] \in Vectors
  <2> DEFINE Ops == [sem : Sems, op : Int, undo : BOOLEAN]
  <2>1. sops[t] \in Seq(Ops)
    BY <1>2, VectorsAssumption
  <2>2. \A o \in Ops : o.sem \in Sems
    OBVIOUS
  <2> HIDE DEF Ops
  <2> QED
    BY <2>1, <2>2
<1> QED
  BY <1>1, <1>2 DEF SemTypes

\* So the slots it needs are of the set, and numbers.
LEMMA NeededSlots ==
  ASSUME SemTypes, NEW t \in Threads
  PROVE  Needed(t) \in SUBSET Sems /\ Needed(t) \in SUBSET Nat
  BY VectorSlots, SemsAssumption DEF Needed

\* The operation that blocked is one of the vector.
LEMMA BlockerSlot ==
  ASSUME SemTypes, NEW t \in Threads, Blocks(sops[t]) # 0
  PROVE  sops[t][Blocks(sops[t])].sem \in Sems
<1> DEFINE v == sops[t]
           I == {i \in 1..Len(v) : IF v[i].op = 0 THEN value[v[i].sem] # 0
                                   ELSE value[v[i].sem] < -v[i].op}
<1>1. Len(v) \in Nat /\ DOMAIN v = 1..Len(v) /\ \A i \in DOMAIN v : v[i].sem \in Sems
  BY VectorSlots
<1>2. Blocks(v) = IF I # {} THEN Min(I) ELSE 0
  BY DEF Blocks, SelectInSeq
<1>3. I \in SUBSET Nat /\ I \subseteq 1..Len(v)
  BY <1>1
<1> HIDE DEF I
<1>4. Blocks(v) \in 1..Len(v)
  BY <1>2, <1>3, LeastMin
<1> QED
  BY <1>1, <1>4

-----------------------------------------------------------------------------
(* Steps. *)

\* semget's set has no owners.
LEMMA SemInit == Init => SemInv
  BY NoThreadAssumption
  DEF Init, SemInv, SemTypes, OwnersInSemop, LocksUpwards, Held

\* What a step of t does to the other threads: a broadcast may wake them.
OthersStay(t) ==
  /\ DOMAIN pc' = Threads
  /\ \A u \in Threads \ {t} :
       pc'[u] = pc[u] \/ (pc[u] = "wait" /\ pc'[u] = "woken")

\* pthread_cond_broadcast, or a move of t alone, does no more than that.
LEMMA BroadcastStays ==
  ASSUME NEW t \in Threads, NEW label, NEW s, DOMAIN pc = Threads,
         Broadcast(t, label, s) \/ Goto(t, label)
  PROVE  OthersStay(t) /\ pc'[t] = label
  BY DEF Broadcast, Goto, OthersStay

\* A step that gives and takes no slot lock, and leaves the vectors alone.
LEMMA KeepsLocks ==
  ASSUME SemInv, NEW t \in Threads, OthersStay(t), UNCHANGED <<lock, sops>>,
         pc'[t] = "lock" => pc[t] = "lock" \/ Held(t) = {},
         pc[t] \in {"lock", "apply"} => pc'[t] \in {"lock", "apply"},
         DOMAIN blocker' = Threads,
         \A u \in Threads : blocker'[u] = blocker[u] \/ pc'[u] \notin {"block", "wait", "woken"},
         pc'[t] \in {"block", "wait", "woken"} => pc[t] \in {"block", "wait", "woken"},
         undo_lock' # NoThread => undo_lock' \in Threads /\ pc'[undo_lock'] = "undo"
  PROVE  SemInv'
<1>1. \A u \in Threads : Held(u)' = Held(u) /\ Needed(u)' = Needed(u)
  BY DEF Held, Needed
<1>2. SemTypes'
  BY DEF SemInv, SemTypes, OthersStay
<1>3. OwnersInSemop'
  BY <1>1 DEF SemInv, OwnersInSemop, OthersStay
<1>4. LocksUpwards'
  <2> SUFFICES ASSUME NEW u \in Threads, pc'[u] = "lock",
                      NEW a \in Held(u), NEW b \in Needed(u) \ Held(u)
               PROVE  a < b
    BY <1>1 DEF LocksUpwards
  <2>1. pc[u] = "lock" \/ Held(u) = {}
    BY DEF OthersStay
  <2> QED
    BY <2>1 DEF SemInv, LocksUpwards
<1> QED
  BY <1>2, <1>3, <1>4 DEF SemInv

\* A step that gives all of t's locks back and ends at a point without any.
LEMMA GivesLocks ==
  ASSUME SemInv, NEW t \in Threads, OthersStay(t), UnlockAll(t),
         DOMAIN sops' = Threads, sops'[t] \in Vectors \cup {<<>>},
         \A u \in Threads \ {t} : sops'[u] = sops[u],
         pc'[t] \in {"idle", "block"},
         DOMAIN blocker' = Threads,
         \A u \in Threads \ {t} : blocker'[u] = blocker[u],
         pc'[t] = "block" => blocker'[t].sem \in Sems,
         undo_lock' = undo_lock, pc[t] # "undo"
  PROVE  SemInv'
<1>1. \A u \in Threads \ {t} : Held(u)' = Held(u) /\ Needed(u)' = Needed(u)
  BY NoThreadAssumption DEF Held, Needed, UnlockAll, SemInv, SemTypes
<1>2. \A s \in Sems : lock'[s] # t
  BY NoThreadAssumption DEF UnlockAll
<1>3. SemTypes'
  BY DEF SemInv, SemTypes, OthersStay, UnlockAll
<1>4. OwnersInSemop'
  BY <1>1, <1>2, NoThreadAssumption DEF SemInv, OwnersInSemop, OthersStay, UnlockAll
<1>5. LocksUpwards'
  BY <1>1 DEF SemInv, LocksUpwards, OthersStay
<1> QED
  BY <1>3, <1>4, <1>5 DEF SemInv

\* semop begins, with no lock.
LEMMA CallStep ==
  ASSUME SemInv, NEW t \in Threads, Call(t)
  PROVE  SemInv'
<1>1. /\ OthersStay(t) /\ pc'[t] = "lock" /\ pc[t] = "idle"
      /\ UNCHANGED <<lock, blocker, undo_lock>>
  BY DEF Call, Goto, OthersStay, SemInv, SemTypes, undovars
<1>2. /\ DOMAIN sops' = Threads /\ sops'[t] \in Vectors
      /\ \A u \in Threads \ {t} : sops'[u] = sops[u]
  BY DEF Call, SemInv, SemTypes
<1>3. Held(t)' = {} /\ Held(t) = {}
  BY <1>1 DEF Held, SemInv, OwnersInSemop
<1>4. \A u \in Threads \ {t} : Held(u)' = Held(u) /\ Needed(u)' = Needed(u)
  BY <1>1, <1>2 DEF Held, Needed
<1>5. SemTypes'
  BY <1>1, <1>2 DEF SemInv, SemTypes, OthersStay
<1>6. OwnersInSemop'
  BY <1>1, <1>3, <1>4 DEF SemInv, OwnersInSemop, OthersStay, Held
<1>7. LocksUpwards'
  BY <1>1, <1>3, <1>4 DEF SemInv, LocksUpwards, OthersStay
<1> QED
  BY <1>5, <1>6, <1>7 DEF SemInv

\* A round of __jacl_sem_lock_slots takes the least slot that is missing.
LEMMA LockSlotStep ==
  ASSUME SemInv, NEW t \in Threads, LockSlot(t)
  PROVE  SemInv'
<1> DEFINE n == NextSlot(t)
<1>1. Needed(t) \ Held(t) \in SUBSET Nat /\ Needed(t) \in SUBSET Sems
  BY NeededSlots DEF SemInv
<1>2. /\ n \in Needed(t) \ Held(t)
      /\ \A j \in Needed(t) \ Held(t) : n <= j
  BY <1>1, LeastMin DEF LockSlot, NextSlot
<1>3. PICK m : m = n
  OBVIOUS
<1>4. /\ m \in Needed(t) \ Held(t) /\ \A j \in Needed(t) \ Held(t) : m <= j
      /\ m \in Sems /\ m \in Nat
  BY <1>1, <1>2, <1>3, SemsAssumption
<1>5. /\ lock[m] = NoThread /\ lock' = [lock EXCEPT ![m] = t] /\ pc[t] = "lock"
      /\ UNCHANGED <<pc, sops, blocker, undo_lock>>
  BY <1>3 DEF LockSlot, undovars, args
<1> HIDE DEF n
<1>6. \A u \in Threads : Needed(u)' = Needed(u)
  BY <1>5 DEF Needed
<1>7. /\ Held(t)' = Held(t) \cup {m}
      /\ \A u \in Threads \ {t} : Held(u)' = Held(u)
  BY <1>4, <1>5, NoThreadAssumption DEF Held, SemInv, SemTypes
<1>8. SemTypes'
  BY <1>5 DEF SemInv, SemTypes
<1>9. OwnersInSemop'
  BY <1>4, <1>5, <1>6 DEF SemInv, SemTypes, OwnersInSemop
<1>10. LocksUpwards'
  <2>1. ASSUME NEW a \in Held(t)', NEW b \in Needed(t)' \ Held(t)'
        PROVE  a < b
    <3>1. b \in Needed(t) \ Held(t) /\ b # m /\ b \in Nat
      BY <1>1, <1>6, <1>7, <2>1
    <3>2. CASE a = m
      BY <1>4, <3>1, <3>2
    <3>3. CASE a \in Held(t)
      BY <1>5, <3>1, <3>3 DEF SemInv, LocksUpwards
    <3> QED
      BY <1>7, <2>1, <3>2, <3>3
  <2> QED
    BY <1>5, <1>6, <1>7, <2>1 DEF SemInv, LocksUpwards
<1> QED
  BY <1>8, <1>9, <1>10 DEF SemInv

\* With all locks held the vector goes on to its operations, fails or blocks.
LEMMA CheckStep ==
  ASSUME SemInv, NEW t \in Threads, Check(t)
  PROVE  SemInv'
<1>1. pc[t] = "lock" /\ undo_lock' = undo_lock
  BY DEF Check, undovars
<1>2. CASE Goto(t, "apply") /\ UNCHANGED <<lock, blocker, sops, nowait, k>>
  <2>1. OthersStay(t) /\ pc'[t] = "apply"
    BY <1>2, BroadcastStays DEF SemInv, SemTypes
  <2>2. undo_lock' # NoThread => undo_lock' \in Threads /\ pc'[undo_lock'] = "undo"
    BY <1>1, <2>1 DEF SemInv, SemTypes, OthersStay
  <2> QED
    BY <1>1, <1>2, <2>1, <2>2, KeepsLocks DEF SemInv, SemTypes
<1>3. CASE UnlockAll(t) /\ Return(t) /\ UNCHANGED blocker
  <2>1. OthersStay(t) /\ pc'[t] = "idle"
    BY <1>3, BroadcastStays DEF SemInv, SemTypes, Return
  <2> QED
    BY <1>1, <1>3, <2>1, GivesLocks DEF Return, SemInv, SemTypes
<1>4. CASE /\ UnlockAll(t) /\ Blocks(sops[t]) # 0
           /\ blocker' = [blocker EXCEPT ![t] = sops[t][Blocks(sops[t])]]
           /\ Goto(t, "block")
           /\ UNCHANGED <<sops, nowait, k>>
  <2>1. OthersStay(t) /\ pc'[t] = "block"
    BY <1>4, BroadcastStays DEF SemInv, SemTypes
  <2>2. blocker'[t].sem \in Sems
    BY <1>4, BlockerSlot DEF SemInv, SemTypes
  <2> QED
    BY <1>1, <1>4, <2>1, <2>2, GivesLocks DEF SemInv, SemTypes
<1> QED
  BY <1>2, <1>3, <1>4 DEF Check

\* The operations are carried out under the locks, and then given back.
LEMMA ApplyStep ==
  ASSUME SemInv, NEW t \in Threads, Apply(t) \/ Done(t)
  PROVE  SemInv'
<1>0. pc[t] = "apply" /\ undo_lock' = undo_lock /\ blocker' = blocker /\ DOMAIN pc = Threads
  BY DEF Apply, Done, undovars, SemInv, SemTypes
<1>1. CASE Apply(t)
  <2>1. UNCHANGED <<lock, sops>>
    BY <1>1 DEF Apply, args
  <2>2. OthersStay(t) /\ pc'[t] = "apply"
    <3>1. CASE UNCHANGED pc
      BY <1>0, <3>1 DEF OthersStay
    <3>2. CASE Broadcast(t, "apply", sops[t][k[t]].sem)
      BY <1>0, <3>2, BroadcastStays
    <3> QED
      BY <1>1, <3>1, <3>2 DEF Apply
  <2>3. undo_lock' # NoThread => undo_lock' \in Threads /\ pc'[undo_lock'] = "undo"
    BY <1>0, <2>2 DEF SemInv, SemTypes, OthersStay
  <2> QED
    BY <1>0, <2>1, <2>2, <2>3, KeepsLocks DEF SemInv, SemTypes
<1>2. CASE Done(t)
  <2>1. OthersStay(t) /\ pc'[t] = "idle"
    BY <1>0, <1>2, BroadcastStays DEF Done, Return
  <2> QED
    BY <1>0, <1>2, <2>1, GivesLocks DEF Done, Return, SemInv, SemTypes
<1> QED
  BY <1>1, <1>2

\* A blocked thread holds nothing, before, during and after its wait.
LEMMA WaitStep ==
  ASSUME SemInv, NEW t \in Threads, Wait(t) \/ Woken(t)
  PROVE  SemInv'
<1>1. /\ pc[t] \in {"block", "woken"} /\ DOMAIN pc = Threads
      /\ UNCHANGED <<lock, sops, undo_lock>>
  BY DEF Wait, Woken, undovars, args, SemInv, SemTypes
<1>2. OthersStay(t) /\ pc'[t] \in {"wait", "lock"}
  <2>1. CASE Wait(t)
    BY <1>1, <2>1, BroadcastStays DEF Wait
  <2>2. CASE Woken(t)
    BY <1>1, <2>2, BroadcastStays DEF Woken
  <2> QED
    BY <2>1, <2>2
<1>3. Held(t) = {}
  BY <1>1 DEF Held, SemInv, OwnersInSemop
<1>4. undo_lock' # NoThread => undo_lock' \in Threads /\ pc'[undo_lock'] = "undo"
  BY <1>1, <1>2 DEF SemInv, SemTypes, OthersStay
<1>5. CASE Wait(t)
  BY <1>1, <1>2, <1>3, <1>4, <1>5, KeepsLocks DEF Wait, SemInv, SemTypes
<1>6. CASE Woken(t)
  <2>1. pc'[t] = "lock" /\ DOMAIN blocker' = Threads
        /\ \A u \in Threads \ {t} : blocker'[u] = blocker[u]
    BY <1>6 DEF Woken, Goto, SemInv, SemTypes
  <2> QED
    BY <1>1, <1>2, <1>3, <1>4, <2>1, KeepsLocks
<1> QED
  BY <1>5, <1>6

\* SETVAL, and the clean-up of exit, which keeps the undo lock from ExitLock on.
LEMMA OutsideStep ==
  ASSUME SemInv, NEW t \in Threads,
         SetVal(t) \/ Exit(t) \/ ExitLock(t) \/ Undo(t) \/ Exited(t)
  PROVE  SemInv'
<1>1. /\ pc[t] \in {"idle", "exit", "undo"} /\ DOMAIN pc = Threads
      /\ UNCHANGED <<lock, sops, blocker>>
  BY DEF SetVal, Exit, ExitLock, Undo, Exited, args, SemInv, SemTypes
<1>2. OthersStay(t) /\ pc'[t] \in {"idle", "exit", "undo", "exited"}
  <2>1. CASE SetVal(t)
    <3>1. PICK s \in Sems : Broadcast(t, "idle", s)
      BY <2>1 DEF SetVal
    <3> QED
      BY <1>1, <3>1, BroadcastStays
  <2>2. CASE Undo(t)
    <3>1. Broadcast(t, "undo", Head(entries))
      BY <2>2 DEF Undo
    <3> QED
      BY <1>1, <3>1, BroadcastStays
  <2>3. CASE Exit(t) \/ ExitLock(t) \/ Exited(t)
    <3>1. PICK l \in {"exit", "undo", "exited"} : Goto(t, l)
      BY <2>3 DEF Exit, ExitLock, Exited
    <3> QED
      BY <1>1, <3>1, BroadcastStays
  <2> QED
    BY <2>1, <2>2, <2>3
<1>3. undo_lock' # NoThread => undo_lock' \in Threads /\ pc'[undo_lock'] = "undo"
  <2>1. CASE SetVal(t) \/ Exit(t)
    BY <1>2, <2>1 DEF SetVal, Exit, undovars, SemInv, SemTypes, OthersStay
  <2>2. CASE ExitLock(t)
    BY <2>2, <1>1 DEF ExitLock, Goto
  <2>3. CASE Undo(t)
    BY <1>2, <2>3 DEF Undo, Broadcast, SemInv, SemTypes, OthersStay
  <2>4. CASE Exited(t)
    BY <2>4 DEF Exited
  <2> QED
    BY <2>1, <2>2, <2>3, <2>4
<1> QED
  BY <1>1, <1>2, <1>3, KeepsLocks DEF SemInv, SemTypes

\* Every step keeps the invariant.
LEMMA SemNext == SemInv /\ [Next]_vars => SemInv'
<1> SUFFICES ASSUME SemInv, [Next]_vars PROVE SemInv'
  OBVIOUS
<1>1. CASE UNCHANGED vars
  BY <1>1 DEF vars, SemInv, SemTypes, OwnersInSemop, LocksUpwards, Held, Needed
<1> QED
  BY <1>1, CallStep, LockSlotStep, CheckStep, ApplyStep, WaitStep, OutsideStep
  DEF Next, Steps

\* The invariant holds in every reachable state.
THEOREM SemInvariance == Spec => []SemInv
  BY SemInit, SemNext, PTL DEF Spec

-----------------------------------------------------------------------------
(* No circle. *)

\* The slots above the one a thread waits for.
Above(t) == {s \in Sems : s > NextSlot(t)}

\* There are fewer of them above a higher slot.
LEMMA FewerAbove ==
  ASSUME NEW a \in Nat, NEW b \in Sems, a < b
  PROVE  /\ {s \in Sems : s > b} \subseteq {s \in Sems : s > a}
         /\ b \in {s \in Sems : s > a} /\ b \notin {s \in Sems : s > b}
<1>1. b \in Nat /\ \A s \in Sems : s \in Nat
  BY SemsAssumption
<1>2. \A s \in Sems : s > b => s > a
  BY <1>1
<1>3. b > a /\ ~(b > b)
  BY <1>1
<1> QED
  BY <1>2, <1>3

\* In a circle everybody would wait for a thread that is locking slots itself,
\* and that one waits for a higher slot: somebody waits for the highest.
LEMMA NoCircle == SemInv => NoCircularWait
<1> SUFFICES ASSUME SemInv,
                    NEW S \in SUBSET {t \in Threads : pc[t] \notin {"exit", "undo"}},
                    S # {},
                    \A t \in S : WaitsFor(t) # {} /\ WaitsFor(t) \subseteq S
             PROVE  FALSE
  BY DEF NoCircularWait
<1> DEFINE Locking(t) == t \in S /\ pc[t] = "lock" /\ Needed(t) \ Held(t) # {}
           Height(t) == Cardinality(Above(t))
<1>1. ASSUME NEW t \in S
      PROVE  \/ Locking(t) /\ lock[NextSlot(t)] \in S
             \/ /\ pc[t] \in {"block", "woken"}
                /\ blocker[t].sem \in Sems /\ lock[blocker[t].sem] \in S
  <2>1. CASE pc[t] = "lock" /\ Needed(t) \ Held(t) # {}
    BY <2>1 DEF WaitsFor
  <2>2. CASE pc[t] \in {"block", "woken"}
    BY <2>2 DEF WaitsFor, SemInv, SemTypes
  <2>3. CASE pc[t] = "apply"
    <3>1. undo_lock \in S
      BY <2>3 DEF WaitsFor
    <3> QED
      BY <3>1, NoThreadAssumption DEF SemInv, SemTypes
  <2>4. CASE /\ pc[t] \notin {"block", "woken", "apply"}
             /\ ~(pc[t] = "lock" /\ Needed(t) \ Held(t) # {})
    BY <2>4 DEF WaitsFor
  <2> QED
    BY <2>1, <2>2, <2>3, <2>4
<1>2. ASSUME NEW s \in Sems, lock[s] \in S
      PROVE  Locking(lock[s]) /\ s \in Held(lock[s])
  BY <1>1, <1>2 DEF SemInv, OwnersInSemop, Held
<1>3. ASSUME NEW t, Locking(t)
      PROVE  /\ NextSlot(t) \in Needed(t) \ Held(t) /\ NextSlot(t) \in Sems
             /\ NextSlot(t) \in Nat
  <2>1. Needed(t) \ Held(t) \in SUBSET Nat /\ Needed(t) \in SUBSET Sems
    BY <1>3, NeededSlots DEF SemInv
  <2> QED
    BY <1>3, <2>1, LeastMin DEF NextSlot
<1>4. \E t : Locking(t)
  BY <1>1, <1>2
<1>5. \A t : Above(t) \subseteq Sems /\ IsFiniteSet(Above(t)) /\ Height(t) \in Nat
  BY VectorsAssumption, FS_Subset, FS_CardinalityType DEF Above
<1>6. PICK t : Locking(t) /\ \A u : Locking(u) => Height(t) <= Height(u)
  <2> DEFINE Heights == {Height(u) : u \in {v \in S : Locking(v)}}
  <2>1. Heights \in SUBSET Nat /\ Heights # {}
    BY <1>4, <1>5
  <2>2. PICK h \in Heights : \A j \in Heights : h <= j
    BY <2>1, LeastNat
  <2> QED
    BY <2>2
<1> DEFINE u == lock[NextSlot(t)]
<1>7. Locking(u) /\ NextSlot(t) \in Held(u)
  BY <1>1, <1>2, <1>3, <1>6
<1>8. NextSlot(t) < NextSlot(u)
  BY <1>3, <1>7 DEF SemInv, LocksUpwards
<1>9. Above(u) \subseteq Above(t) /\ NextSlot(u) \in Above(t) /\ NextSlot(u) \notin Above(u)
  <2>1. PICK a, b : a = NextSlot(t) /\ b = NextSlot(u)
    OBVIOUS
  <2>2. a \in Nat /\ b \in Nat /\ b \in Sems /\ a < b
    BY <1>3, <1>6, <1>7, <1>8, <2>1
  <2>3. Above(t) = {s \in Sems : s > a} /\ Above(u) = {s \in Sems : s > b}
    BY <2>1 DEF Above
  <2> QED
    BY <2>1, <2>2, <2>3, FewerAbove
<1>10. Height(u) < Height(t)
  <2>1. Above(u) # Above(t)
    BY <1>9
  <2> QED
    BY <1>5, <1>9, <2>1, FS_Subset
<1> QED
  BY <1>5, <1>6, <1>7, <1>10

\* Vectors that name semaphores in different orders, waits that lock their slot
\* again and operations with SEM_UNDO never hold one another up for ever: the
\* threads in semop form no circle of waits.
THEOREM SemopNoCircle == Spec => []NoCircularWait
  BY SemInvariance, NoCircle, PTL

=============================================================================
