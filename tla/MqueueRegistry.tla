--------------------------- MODULE MqueueRegistry ---------------------------
(***************************************************************************)
(* How the queues and descriptors of include/mqueue.h come and go: the     *)
(* pool of queues, the table of descriptors, and mq_open, mq_close and     *)
(* mq_unlink under the global mutex.                                       *)
(*                                                                         *)
(* mq_close and the calls on a queue test the descriptor before they take  *)
(* any lock, and a call holds on to its queue until it returns; both gaps  *)
(* are separate steps here.  A section under the global mutex is one step. *)
(* gen is a ghost that tells the successive queues of one slot apart.      *)
(***************************************************************************)
EXTENDS Integers, FiniteSets

CONSTANTS Openers,
          Names,      \* valid queue names
          NoName,     \* the name of a slot never used
          PoolMax,    \* __JACL_MQ_MAX
          DescMax,    \* __JACL_MQ_DESC_MAX
          BadAttr,    \* whether mq_open is also called with a bad mq_attr
          Shared,     \* whether threads close what another thread opened
          MaxOpens    \* bound on the slots allocated in a behaviour

\* Two tables, and threads that close what they opened themselves.
RegistrySetting == PoolMax \in Nat /\ DescMax \in Nat /\ Shared = FALSE

VARIABLES
  pool,               \* __jacl_mq_pool
  descs,              \* __jacl_mq_descs
  r_pc,                 \* where each thread is in its call
  arg,                \* the descriptor a thread's call was given
  mq,                 \* the queue (slot and generation) a call works on
  err,                \* errno of the last call that returned
  opener,             \* ghost: who opened each descriptor, and which queue
  gens,               \* ghost: slots allocated so far
  live                \* ghost: generations that some mq_open returned

regvars == <<pool, descs, r_pc, arg, mq, err, opener, gens, live>>

Slots == 0..(PoolMax - 1)
Descs == 0..(DescMax - 1)
Free == [active |-> FALSE, name |-> NoName, refcount |-> 0, unlinked |-> FALSE, gen |-> 0]

\* The first element, in array order, of a set of indices.
First(S) == CHOOSE i \in S : \A j \in S : i <= j

-----------------------------------------------------------------------------
RegInit ==
  /\ pool = [i \in Slots |-> Free]
  /\ descs = [d \in Descs |-> [active |-> FALSE, idx |-> 0]]
  /\ r_pc = [t \in Openers |-> "idle"]
  /\ arg = [t \in Openers |-> 0]
  /\ mq = [t \in Openers |-> [idx |-> 0, gen |-> 0]]
  /\ err = "0"
  /\ opener = [d \in Descs |-> [thread |-> {}, gen |-> 0]]
  /\ gens = 0
  /\ live = {}

\* Mutant: a queue that nobody has open is not found.
MutFind(name) ==
  {i \in Slots : /\ pool[i].active /\ ~pool[i].unlinked /\ pool[i].name = name
                 /\ pool[i].refcount > 0}

\* __jacl_mq_find: the slots it would return, none or one.
Find(name) == {i \in Slots : pool[i].active /\ ~pool[i].unlinked /\ pool[i].name = name}

\* __jacl_mq_alloc in slot i of pool p.
Alloc(p, i, name) ==
  [p EXCEPT ![i] = [active |-> TRUE, name |-> name, refcount |-> 0,
                    unlinked |-> FALSE, gen |-> gens + 1]]

\* mq_open's tail: __jacl_mq_desc_alloc for slot i of pool p, and one more
\* reference.  Without a descriptor the pool stays as it is by then.
OpenDesc(t, p, i) ==
  LET free == {d \in Descs : ~descs[d].active}
  IN  IF free = {}
      THEN pool' = p /\ err' = "EMFILE" /\ UNCHANGED <<descs, opener, live>>
      ELSE LET d == First(free)
           IN  /\ descs' = [descs EXCEPT ![d] = [active |-> TRUE, idx |-> i]]
               /\ pool' = [p EXCEPT ![i].refcount = @ + 1]
               /\ opener' = [opener EXCEPT ![d] = [thread |-> {t}, gen |-> p[i].gen]]
               /\ live' = live \cup {p[i].gen}
               /\ err' = "0"

\* mq_open of a name that exists: EEXIST if O_CREAT is given, with or without
\* O_EXCL.
OpenExisting(t, name, creat) ==
  /\ Find(name) # {}
  /\ IF creat THEN err' = "EEXIST" /\ UNCHANGED <<pool, descs, opener, live>>
              ELSE OpenDesc(t, pool, First(Find(name)))
  /\ UNCHANGED gens

\* mq_open of a name that does not: the slot is taken before the attributes
\* are looked at, and an error after that leaves it taken.
OpenNew(t, name, creat, ok) ==
  LET free == {i \in Slots : ~pool[i].active}
  IN  /\ Find(name) = {}
      /\ \/ /\ ~creat
            /\ err' = "ENOENT"
            /\ UNCHANGED <<pool, descs, opener, gens, live>>
         \/ /\ creat /\ free = {}
            /\ err' = "ENFILE"
            /\ UNCHANGED <<pool, descs, opener, gens, live>>
         \/ /\ creat /\ free # {} /\ gens < MaxOpens
            /\ gens' = gens + 1
            /\ IF ok THEN OpenDesc(t, Alloc(pool, First(free), name), First(free))
               ELSE /\ pool' = Alloc(pool, First(free), name)
                    /\ err' = "EINVAL"
                    /\ UNCHANGED <<descs, opener, live>>

Open(t) ==
  /\ r_pc[t] = "idle"
  /\ \E name \in Names, creat \in BOOLEAN, ok \in {TRUE, ~BadAttr} :
       OpenExisting(t, name, creat) \/ OpenNew(t, name, creat, ok)
  /\ UNCHANGED <<r_pc, arg, mq>>

\* The descriptors t may name in a call: its own, or any it could have heard of.
Known(t) == {d \in Descs : IF Shared THEN opener[d].thread # {} ELSE t \in opener[d].thread}

\* mq_close up to the lock: the descriptor is tested.
Close(t) ==
  /\ r_pc[t] = "idle"
  /\ \E d \in Known(t) :
       IF descs[d].active
       THEN r_pc' = [r_pc EXCEPT ![t] = "close"] /\ arg' = [arg EXCEPT ![t] = d] /\ UNCHANGED err
       ELSE err' = "EBADF" /\ UNCHANGED <<r_pc, arg>>
  /\ UNCHANGED <<pool, descs, mq, opener, gens, live>>

\* __jacl_mq_destroy of slot i of pool p: the slot may be allocated again.
Destroy(p, i) ==
  /\ pool' = [p EXCEPT ![i].active = FALSE]
  /\ live' = live \ {p[i].gen}

\* Mutant: an unlinked queue is destroyed by the first close.
MutDrop(p, i) ==
  IF p[i].unlinked THEN Destroy(p, i) ELSE pool' = p /\ UNCHANGED live

\* Destroy slot i of pool p if it is unlinked and nobody has it open.
Drop(p, i) ==
  IF p[i].refcount = 0 /\ p[i].unlinked THEN Destroy(p, i) ELSE pool' = p /\ UNCHANGED live

\* Mutant: mq_close forgets the reference of the descriptor.
MutCloseLocked(t) ==
  /\ r_pc[t] = "close"
  /\ descs' = [descs EXCEPT ![arg[t]].active = FALSE]
  /\ Drop(pool, descs[arg[t]].idx)
  /\ err' = "0"
  /\ r_pc' = [r_pc EXCEPT ![t] = "idle"]
  /\ arg' = [arg EXCEPT ![t] = 0]
  /\ UNCHANGED <<mq, opener, gens>>

\* The rest of mq_close, under the lock, without a second test.
CloseLocked(t) ==
  /\ r_pc[t] = "close"
  /\ LET i == descs[arg[t]].idx
     IN  Drop([pool EXCEPT ![i].refcount = @ - 1], i)
  /\ descs' = [descs EXCEPT ![arg[t]].active = FALSE]
  /\ err' = "0"
  /\ r_pc' = [r_pc EXCEPT ![t] = "idle"]
  /\ arg' = [arg EXCEPT ![t] = 0]
  /\ UNCHANGED <<mq, opener, gens>>

\* mq_unlink: the name goes, the queue goes with its last descriptor.
Unlink(t) ==
  /\ r_pc[t] = "idle"
  /\ \E name \in Names :
       IF Find(name) = {} THEN err' = "ENOENT" /\ UNCHANGED <<pool, live>>
       ELSE LET i == First(Find(name))
            IN  Drop([pool EXCEPT ![i].unlinked = TRUE], i) /\ err' = "0"
  /\ UNCHANGED <<descs, r_pc, arg, mq, opener, gens>>

\* mq_send, mq_receive, their timed forms, mq_getattr, mq_setattr and mq_notify
\* find their queue through the descriptor, and keep the pointer.
Use(t) ==
  /\ r_pc[t] = "idle"
  /\ \E d \in Known(t) :
       LET i == descs[d].idx
       IN  IF descs[d].active /\ pool[i].active
           THEN /\ r_pc' = [r_pc EXCEPT ![t] = "use"]
                /\ mq' = [mq EXCEPT ![t] = [idx |-> i, gen |-> pool[i].gen]]
                /\ UNCHANGED err
           ELSE err' = "EBADF" /\ UNCHANGED <<r_pc, mq>>
  /\ UNCHANGED <<pool, descs, arg, opener, gens, live>>

\* That call returns.
UseEnd(t) ==
  /\ r_pc[t] = "use"
  /\ r_pc' = [r_pc EXCEPT ![t] = "idle"]
  /\ mq' = [mq EXCEPT ![t] = [idx |-> 0, gen |-> 0]]
  /\ err' = "0"
  /\ UNCHANGED <<pool, descs, arg, opener, gens, live>>

RegNext ==
  \E t \in Openers :
    Open(t) \/ Close(t) \/ CloseLocked(t) \/ Unlink(t) \/ Use(t) \/ UseEnd(t)

RegSpec == RegInit /\ [][RegNext]_regvars

-----------------------------------------------------------------------------
RegTypeOK ==
  /\ pool \in [Slots -> [active : BOOLEAN, name : Names \cup {NoName}, refcount : 0..DescMax,
                         unlinked : BOOLEAN, gen : 0..MaxOpens]]
  /\ descs \in [Descs -> [active : BOOLEAN, idx : Slots]]
  /\ r_pc \in [Openers -> {"idle", "close", "use"}]
  /\ arg \in [Openers -> Descs]
  /\ mq \in [Openers -> [idx : Slots, gen : 0..MaxOpens]]
  /\ err \in {"0", "EBADF", "EEXIST", "EINVAL", "EMFILE", "ENFILE", "ENOENT"}
  /\ opener \in [Descs -> [thread : SUBSET Openers, gen : 0..MaxOpens]]
  /\ gens \in 0..MaxOpens
  /\ live \subseteq 1..MaxOpens

\* The reference count of a queue is the number of open descriptors on it,
\* through every order of opens, closes and unlinks.
RefsExact ==
  \A i \in Slots :
    pool[i].active =>
      pool[i].refcount = Cardinality({d \in Descs : descs[d].active /\ descs[d].idx = i})

\* An open descriptor leads to the queue it was opened on, and a call in
\* progress works on a queue that exists: unlinking, and closing other
\* descriptors, neither destroys a queue in use nor lets its slot be reused.
OpenQueueLives ==
  /\ \A d \in Descs :
       descs[d].active =>
         pool[descs[d].idx].active /\ pool[descs[d].idx].gen = opener[d].gen
  /\ \A t \in Openers :
       r_pc[t] = "use" => pool[mq[t].idx].active /\ pool[mq[t].idx].gen = mq[t].gen

\* No two linked queues have the same name, whatever was unlinked, left
\* without descriptors or left behind by a failed mq_open in between.
OneQueuePerName ==
  \A i, j \in Slots :
    /\ pool[i].active /\ ~pool[i].unlinked
    /\ pool[j].active /\ ~pool[j].unlinked
    /\ pool[i].name = pool[j].name
    => i = j

\* The tables stay sound, for programs whose threads close what they opened.
RegistrySound == RefsExact /\ OpenQueueLives /\ OneQueuePerName

\* Of two mq_close calls on one descriptor one fails with EBADF, as the test
\* mq_close_double expects: a close that goes through finds it open.
CloseOnce ==
  [][\A t \in Openers : r_pc[t] = "close" /\ r_pc'[t] = "idle" => descs[arg[t]].active]_regvars

\* mq_open fails with ENFILE only when the pool holds as many queues as fit,
\* as the test mq_open_pool_exhaustion expects.
EnfileMeansFull ==
  [][err # "ENFILE" /\ err' = "ENFILE" => Cardinality(live) = PoolMax]_regvars

=============================================================================
