---------------------------- MODULE SemRegistry ----------------------------
(***************************************************************************)
(* How the semaphores of include/sys/sem.h come and go.  Anonymous, named  *)
(* and System V semaphores share one table of slots; named ones have a     *)
(* registry with reference counts, and System V sets a table of their own, *)
(* each under a lock of its own.                                           *)
(*                                                                         *)
(* A section under a lock is one step, __jacl_sem_slot_alloc inside it     *)
(* included (the slot lock is always the inner one); what happens after    *)
(* the unlock, and the tests made before a lock is taken, are steps of     *)
(* their own.  Values and waiting are in PosixSem and Semop.               *)
(***************************************************************************)
EXTENDS Naturals, FiniteSetsExt

CONSTANTS Threads,
          Slots,      \* 0..__JACL_SEM_SLOT_MAX - 1
          NamedMax,   \* __JACL_SEM_NAMED_MAX
          SetMax,     \* __JACL_SYSV_SEMSET_MAX
          Names, Keys, Private,  \* names, keys and IPC_PRIVATE
          Sizes,      \* the values of nsems
          None,
          MaxCalls,   \* bound on the calls in a behaviour
          TwoRemovers \* whether two threads may remove one set at once

VARIABLES
  active,             \* the slots in use
  named,              \* __jacl_sem_named
  semsets,            \* __jacl_sysv_semsets
  anon,               \* the program's anonymous semaphores
  handles,            \* ghost: open handles of each slot of a named semaphore
  pc, arg,            \* where each thread is, and the slot or set it is at
  calls               \* ghost: calls made

vars == <<active, named, semsets, anon, handles, pc, arg, calls>>

FreeName == [active |-> FALSE, name |-> None, unlinked |-> FALSE, refcount |-> 0, slot |-> 0]
FreeSet == [active |-> FALSE, key |-> None, slots |-> {}]

Init ==
  /\ active = {} /\ anon = {} /\ handles = [s \in Slots |-> 0]
  /\ named = [n \in 1..NamedMax |-> FreeName]
  /\ semsets = [n \in 1..SetMax |-> FreeSet]
  /\ pc = [t \in Threads |-> "idle"]
  /\ arg = [t \in Threads |-> 0]
  /\ calls = 0

\* The first of the entries a search of a table may stop at, 0 if there is none.
First(hits) == IF hits = {} THEN 0 ELSE Min(hits)

ByName(name) == First({n \in DOMAIN named : named[n].active /\ ~named[n].unlinked /\ named[n].name = name})
BySlot(slot) == First({n \in DOMAIN named : named[n].active /\ named[n].slot = slot})
ByKey(key) == First({n \in DOMAIN semsets : semsets[n].active /\ semsets[n].key = key})

Begin(t) == pc[t] = "idle" /\ calls < MaxCalls /\ calls' = calls + 1
Goto(t, label, x) == pc' = [pc EXCEPT ![t] = label] /\ arg' = [arg EXCEPT ![t] = x]

-----------------------------------------------------------------------------
\* sem_init: the lowest free slot, or ENOSPC.
SemInit(t) ==
  /\ Begin(t)
  /\ IF Slots = active THEN UNCHANGED <<active, anon>>
     ELSE LET s == Min(Slots \ active) IN active' = active \cup {s} /\ anon' = anon \cup {s}
  /\ UNCHANGED <<named, semsets, handles, pc, arg>>

\* sem_destroy of an anonymous semaphore, once.
SemDestroy(t) ==
  /\ Begin(t)
  /\ \E s \in anon : active' = active \ {s} /\ anon' = anon \ {s}
  /\ UNCHANGED <<named, semsets, handles, pc, arg>>

\* sem_open: EEXIST, a reference to the semaphore of that name, ENOENT,
\* ENFILE, ENOSPC, or a new one.
SemOpen(t) ==
  /\ Begin(t)
  /\ \E name \in Names, creat, excl \in BOOLEAN :
       LET n == ByName(name)
           free == First({k \in DOMAIN named : ~named[k].active})
       IN  /\ excl => creat
           /\ IF n # 0
              THEN IF excl THEN UNCHANGED <<active, named, handles>>
                   ELSE /\ named' = [named EXCEPT ![n].refcount = @ + 1]
                        /\ handles' = [handles EXCEPT ![named[n].slot] = @ + 1]
                        /\ UNCHANGED active
              ELSE IF ~creat \/ free = 0 \/ Slots = active THEN UNCHANGED <<active, named, handles>>
              ELSE LET s == Min(Slots \ active) IN
                   /\ active' = active \cup {s}
                   /\ named' = [named EXCEPT ![free] =
                        [active |-> TRUE, name |-> name, unlinked |-> FALSE,
                         refcount |-> 1, slot |-> s]]
                   /\ handles' = [handles EXCEPT ![s] = 1]
  /\ UNCHANGED <<semsets, anon, pc, arg>>

\* sem_close of an open handle: the last one of an unlinked semaphore gives
\* up the registry entry here, and the slot after the unlock.
SemClose(t) ==
  /\ Begin(t)
  /\ \E s \in Slots :
       LET n == BySlot(s)
           last == named[n].refcount = 1 /\ named[n].unlinked
       IN  /\ handles[s] > 0
           /\ handles' = [handles EXCEPT ![s] = @ - 1]
           /\ n # 0 /\ named[n].refcount > 0
           /\ named' = [named EXCEPT ![n] =
                         IF last THEN FreeName ELSE [@ EXCEPT !.refcount = named[n].refcount - 1]]
           /\ IF last THEN Goto(t, "free", s) ELSE UNCHANGED <<pc, arg>>
  /\ UNCHANGED <<active, semsets, anon>>

\* Mutant: unlinking drops the semaphore although it is open.
MutUnused(e) == TRUE

\* Nobody has it open.
Unused(e) == e.refcount = 0

\* sem_unlink: ENOENT, or the name goes; so does the semaphore if nobody has
\* it open.
SemUnlink(t) ==
  /\ Begin(t)
  /\ \E name \in Names :
       LET n == ByName(name)
           last == Unused(named[n])
       IN  /\ n # 0
           /\ named' = [named EXCEPT ![n] = IF last THEN FreeName ELSE [@ EXCEPT !.unlinked = TRUE]]
           /\ IF last THEN Goto(t, "free", named[n].slot) ELSE UNCHANGED <<pc, arg>>
  /\ UNCHANGED <<active, semsets, anon, handles>>

\* __jacl_sem_slot_free, after the registry's lock was released.
SlotFree(t) ==
  /\ pc[t] = "free"
  /\ active' = active \ {arg[t]}
  /\ Goto(t, "idle", 0)
  /\ UNCHANGED <<named, semsets, anon, handles, calls>>

\* The n lowest free slots; the semaphores of a set have them in this order.
Lowest(n) == {s \in Slots \ active : Cardinality({r \in Slots \ active : r < s}) < n}

\* Mutant: the slots that were taken are kept.
MutGiveBack == Slots

\* The slots in use after semget found too few: those it took are freed again.
GiveBack == active

\* semget: EEXIST or the set of that key, ENOENT, ENOSPC for lack of a set or
\* of slots (those already taken are given back), or a new set.
SemGet(t) ==
  /\ Begin(t)
  /\ \E key \in Keys \cup {Private}, creat, excl \in BOOLEAN, nsems \in Sizes :
       LET n == IF key = Private THEN 0 ELSE ByKey(key)
           free == First({k \in DOMAIN semsets : ~semsets[k].active})
       IN  IF n # 0 \/ (~creat /\ key # Private) \/ free = 0
           THEN UNCHANGED <<active, semsets>>
           ELSE IF Cardinality(Slots \ active) < nsems
           THEN active' = GiveBack /\ UNCHANGED semsets
           ELSE /\ active' = active \cup Lowest(nsems)
                /\ semsets' = [semsets EXCEPT ![free] =
                     [active |-> TRUE, key |-> key, slots |-> Lowest(nsems)]]
  /\ UNCHANGED <<named, anon, handles, pc, arg>>

\* semctl finds the set active, without the lock,
SemCtl(t) ==
  /\ Begin(t)
  /\ \E n \in 1..SetMax :
       /\ semsets[n].active
       /\ TwoRemovers \/ \A u \in Threads : ~(pc[u] = "rmid" /\ arg[u] = n)
       /\ Goto(t, "rmid", n)
  /\ UNCHANGED <<active, named, semsets, anon, handles>>

\* and __jacl_semctl_rmid frees its slots.
Rmid(t) ==
  /\ pc[t] = "rmid"
  /\ active' = active \ semsets[arg[t]].slots
  /\ semsets' = [semsets EXCEPT ![arg[t]].active = FALSE]
  /\ Goto(t, "idle", 0)
  /\ UNCHANGED <<named, anon, handles, calls>>

Next ==
  \E t \in Threads :
    \/ SemInit(t) \/ SemDestroy(t) \/ SemOpen(t) \/ SemClose(t) \/ SemUnlink(t)
    \/ SlotFree(t) \/ SemGet(t) \/ SemCtl(t) \/ Rmid(t)

Spec == Init /\ [][Next]_vars

-----------------------------------------------------------------------------
\* The owners of slot s: a program's anonymous semaphore, a registry entry, a
\* set, or a thread about to free it.
Owners(s) ==
  {<<"anon", s>> : x \in {s} \cap anon}
    \cup {<<"named", n>> : n \in {m \in 1..NamedMax : named[m].active /\ named[m].slot = s}}
    \cup {<<"set", n>> : n \in {m \in 1..SetMax :
                                  semsets[m].active /\ s \in semsets[m].slots}}
    \cup {<<"free", t>> : t \in {u \in Threads : pc[u] = "free" /\ arg[u] = s}}

\* A slot in use has exactly one owner and a free one has none: no kind of
\* semaphore ever gets a slot that another still uses, and none is lost, also
\* when semget runs out of slots half way.
OneOwner ==
  \A s \in Slots : Cardinality(Owners(s)) = IF s \in active THEN 1 ELSE 0

\* The reference count of a named semaphore is the number of its open handles,
\* and it stays until the last one is closed, unlinked or not; no two linked
\* semaphores have one name.
NamedLives ==
  /\ \A s \in Slots : handles[s] > 0 =>
       /\ s \in active
       /\ BySlot(s) # 0 /\ named[BySlot(s)].refcount = handles[s]
  /\ \A m, n \in 1..NamedMax :
       (m # n /\ named[m].active /\ named[n].active /\ ~named[m].unlinked /\ ~named[n].unlinked)
         => named[m].name # named[n].name
=============================================================================
