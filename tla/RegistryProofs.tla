--------------------------- MODULE RegistryProofs ----------------------------
(***************************************************************************)
(* Proofs about the tables that named objects live in: mq_open, mq_close   *)
(* and mq_unlink, for any number of threads, names, queues and             *)
(* descriptors, where a thread closes what it opened itself; and the slots *)
(* of semaphores that sem_init, sem_open and semget share, for any number  *)
(* of threads, slots, names and sets, where a set has one remover.         *)
(***************************************************************************)
EXTENDS MqueueRegistry, FiniteSetTheorems, WellFoundedInduction, TLAPS

-----------------------------------------------------------------------------
(* The registry: the pool p of queues and the table ds of descriptors, with   *)
(* who opened each descriptor on which queue.                                *)

Pools == [Slots -> [active : BOOLEAN, name : Names \cup {NoName}, refcount : Int,
                        unlinked : BOOLEAN, gen : Nat]]

OpenOn(ds, i) == {d \in Descs : ds[d].active /\ ds[d].idx = i}

Linked(p, i) == p[i].active /\ ~p[i].unlinked

PoolSound(p, ds, who) ==
  /\ p \in Pools
  /\ ds \in [Descs -> [active : BOOLEAN, idx : Nat]]
  /\ who \in [Descs -> [thread : SUBSET Openers, gen : Nat]]
  /\ \A i \in Slots : p[i].active => p[i].refcount = Cardinality(OpenOn(ds, i))
  /\ \A d \in Descs :
       ds[d].active =>
         /\ ds[d].idx \in Slots
         /\ p[ds[d].idx].active
         /\ p[ds[d].idx].gen = who[d].gen
  /\ \A i, j \in Slots :
       Linked(p, i) /\ Linked(p, j) /\ p[i].name = p[j].name => i = j

\* A queue has finitely many descriptors.
LEMMA OpenOnFinite ==
  ASSUME RegistrySetting, NEW ds, NEW i
  PROVE  IsFiniteSet(OpenOn(ds, i)) /\ Cardinality(OpenOn(ds, i)) \in Nat
<1>1. IsFiniteSet(Descs)
  BY FS_Interval DEF Descs, RegistrySetting
<1>2. OpenOn(ds, i) \subseteq Descs
  BY DEF OpenOn
<1> QED
  BY <1>1, <1>2, FS_Subset, FS_CardinalityType

\* __jacl_mq_alloc takes a slot that no open descriptor leads to, for a name that
\* no linked queue has.
LEMMA AllocSound ==
  ASSUME RegistrySetting, NEW p, NEW ds, NEW who, PoolSound(p, ds, who),
         NEW i \in Slots, ~p[i].active,
         NEW name \in Names, \A j \in Slots : Linked(p, j) => p[j].name # name,
         NEW g \in Nat
  PROVE  PoolSound([p EXCEPT ![i] = [active |-> TRUE, name |-> name, refcount |-> 0,
                                     unlinked |-> FALSE, gen |-> g]], ds, who)
<1> DEFINE q == [p EXCEPT ![i] = [active |-> TRUE, name |-> name, refcount |-> 0,
                                  unlinked |-> FALSE, gen |-> g]]
<1>1. q \in Pools
  BY DEF PoolSound, Pools
<1>2. /\ q[i] = [active |-> TRUE, name |-> name, refcount |-> 0, unlinked |-> FALSE, gen |-> g]
      /\ \A j \in Slots \ {i} : q[j] = p[j]
  BY DEF PoolSound, Pools
<1> HIDE DEF q
<1>3. OpenOn(ds, i) = {}
  BY DEF OpenOn, PoolSound
<1>4. \A j \in Slots : q[j].active => q[j].refcount = Cardinality(OpenOn(ds, j))
  <2>1. q[i].refcount = Cardinality(OpenOn(ds, i))
    BY <1>2, <1>3, FS_EmptySet
  <2>2. \A j \in Slots \ {i} : q[j].active => q[j].refcount = Cardinality(OpenOn(ds, j))
    BY <1>2 DEF PoolSound
  <2> QED
    BY <2>1, <2>2
<1>5. \A d \in Descs : ds[d].active => ds[d].idx # i
  BY DEF PoolSound
<1>6. \A j, k \in Slots :
        Linked(q, j) /\ Linked(q, k) /\ q[j].name = q[k].name => j = k
  BY <1>2 DEF PoolSound, Linked
<1> QED
  BY <1>1, <1>2, <1>4, <1>5, <1>6, Zenon DEF PoolSound, q

\* __jacl_mq_desc_alloc and the reference mq_open takes for it.
LEMMA OpenSound ==
  ASSUME RegistrySetting, NEW p, NEW ds, NEW who, PoolSound(p, ds, who),
         NEW i \in Slots, p[i].active, NEW d \in Descs, ~ds[d].active,
         NEW t \in Openers
  PROVE  PoolSound([p EXCEPT ![i].refcount = @ + 1],
                   [ds EXCEPT ![d] = [active |-> TRUE, idx |-> i]],
                   [who EXCEPT ![d] = [thread |-> {t}, gen |-> p[i].gen]])
<1> DEFINE q == [p EXCEPT ![i].refcount = @ + 1]
           es == [ds EXCEPT ![d] = [active |-> TRUE, idx |-> i]]
           him == [who EXCEPT ![d] = [thread |-> {t}, gen |-> p[i].gen]]
<1>0. i \in Nat /\ p[i].gen \in Nat
  BY DEF Slots, PoolSound, Pools, RegistrySetting
<1>1. /\ q \in Pools
      /\ es \in [Descs -> [active : BOOLEAN, idx : Nat]]
      /\ him \in [Descs -> [thread : SUBSET Openers, gen : Nat]]
  BY <1>0 DEF PoolSound, Pools
<1>2. /\ q[i].refcount = p[i].refcount + 1
      /\ \A j \in Slots \ {i} : q[j] = p[j]
      /\ \A j \in Slots : /\ q[j].active = p[j].active /\ q[j].unlinked = p[j].unlinked
                              /\ q[j].name = p[j].name /\ q[j].gen = p[j].gen
  BY DEF PoolSound, Pools
<1>3. /\ es[d].active /\ es[d].idx = i /\ him[d].gen = p[i].gen
      /\ \A e \in Descs \ {d} : es[e] = ds[e] /\ him[e] = who[e]
  BY DEF PoolSound
<1> HIDE DEF q, es, him
<1>4. OpenOn(es, i) = OpenOn(ds, i) \cup {d} /\ d \notin OpenOn(ds, i)
  BY <1>3 DEF OpenOn
<1>5. \A j \in Slots \ {i} : OpenOn(es, j) = OpenOn(ds, j)
  BY <1>3 DEF OpenOn
<1>6. Cardinality(OpenOn(es, i)) = Cardinality(OpenOn(ds, i)) + 1
  BY <1>4, OpenOnFinite, FS_AddElement, Zenon
<1>7. \A j \in Slots : q[j].active => q[j].refcount = Cardinality(OpenOn(es, j))
  BY <1>2, <1>5, <1>6 DEF PoolSound
<1>8. \A j, k \in Slots :
        Linked(q, j) /\ Linked(q, k) /\ q[j].name = q[k].name => j = k
  BY <1>2 DEF PoolSound, Linked
<1>9. \A e \in Descs :
        es[e].active => /\ es[e].idx \in Slots
                        /\ q[es[e].idx].active
                        /\ q[es[e].idx].gen = him[e].gen
  BY <1>2, <1>3 DEF PoolSound
<1> QED
  BY <1>1, <1>7, <1>8, <1>9, Zenon DEF PoolSound, q, es, him

\* mq_close gives back the descriptor and its reference.
LEMMA CloseSound ==
  ASSUME RegistrySetting, NEW p, NEW ds, NEW who, PoolSound(p, ds, who),
         NEW d \in Descs, ds[d].active
  PROVE  LET i == ds[d].idx
         IN  /\ i \in Slots /\ p[i].active
             /\ PoolSound([p EXCEPT ![i].refcount = @ - 1],
                          [ds EXCEPT ![d].active = FALSE], who)
<1> DEFINE i == ds[d].idx
           q == [p EXCEPT ![i].refcount = @ - 1]
           es == [ds EXCEPT ![d].active = FALSE]
<1>0. i \in Slots /\ p[i].active
  BY DEF PoolSound
<1> HIDE DEF i
<1>1. q \in Pools /\ es \in [Descs -> [active : BOOLEAN, idx : Nat]]
  <2>0. p \in Pools
    BY DEF PoolSound
  <2>1. q \in Pools
    BY <1>0, <2>0 DEF Pools
  <2>2. es \in [Descs -> [active : BOOLEAN, idx : Nat]]
    BY Zenon DEF PoolSound
  <2> QED
    BY <2>1, <2>2
<1>2. /\ q[i].refcount = p[i].refcount - 1
      /\ \A j \in Slots \ {i} : q[j] = p[j]
      /\ \A j \in Slots : /\ q[j].active = p[j].active /\ q[j].unlinked = p[j].unlinked
                              /\ q[j].name = p[j].name /\ q[j].gen = p[j].gen
  BY <1>0 DEF PoolSound, Pools
<1>3. ~es[d].active /\ \A e \in Descs \ {d} : es[e] = ds[e]
  BY DEF PoolSound
<1> HIDE DEF q, es
<1>4. OpenOn(es, i) = OpenOn(ds, i) \ {d} /\ d \in OpenOn(ds, i)
  BY <1>3 DEF OpenOn, i
<1>5. \A j \in Slots \ {i} : OpenOn(es, j) = OpenOn(ds, j)
  BY <1>3 DEF OpenOn, i
<1>6. Cardinality(OpenOn(es, i)) = Cardinality(OpenOn(ds, i)) - 1
  BY <1>4, OpenOnFinite, FS_RemoveElement, Zenon
<1>7. \A j \in Slots : q[j].active => q[j].refcount = Cardinality(OpenOn(es, j))
  BY <1>2, <1>5, <1>6 DEF PoolSound
<1>8. \A j, k \in Slots :
        Linked(q, j) /\ Linked(q, k) /\ q[j].name = q[k].name => j = k
  BY <1>2 DEF PoolSound, Linked
<1>9. \A e \in Descs :
        es[e].active => /\ es[e].idx \in Slots
                        /\ q[es[e].idx].active
                        /\ q[es[e].idx].gen = who[e].gen
  BY <1>2, <1>3 DEF PoolSound
<1>10. PoolSound(q, es, who)
  BY <1>1, <1>7, <1>8, <1>9 DEF PoolSound
<1> QED
  BY <1>0, <1>10 DEF q, es, i

\* mq_unlink takes the name away, and nothing else.
LEMMA UnlinkSound ==
  ASSUME RegistrySetting, NEW p, NEW ds, NEW who, PoolSound(p, ds, who), NEW i \in Slots
  PROVE  PoolSound([p EXCEPT ![i].unlinked = TRUE], ds, who)
<1> DEFINE q == [p EXCEPT ![i].unlinked = TRUE]
<1>0. p \in Pools
  BY DEF PoolSound
<1>1. q \in Pools
  BY <1>0, Zenon DEF Pools
<1>2. \A j \in Slots :
        /\ q[j].active = p[j].active /\ q[j].name = p[j].name
        /\ q[j].gen = p[j].gen /\ q[j].refcount = p[j].refcount
        /\ p[j].unlinked => q[j].unlinked
  BY DEF PoolSound, Pools
<1> HIDE DEF q
<1> QED
  BY <1>1, <1>2 DEF PoolSound, Linked, q

\* __jacl_mq_destroy of a queue with no references closes nobody's queue.
LEMMA DestroySound ==
  ASSUME RegistrySetting, NEW p, NEW ds, NEW who, PoolSound(p, ds, who),
         NEW i \in Slots, p[i].active, p[i].refcount = 0
  PROVE  PoolSound([p EXCEPT ![i].active = FALSE], ds, who)
<1> DEFINE q == [p EXCEPT ![i].active = FALSE]
<1>0. p \in Pools
  BY DEF PoolSound
<1>1. q \in Pools
  BY <1>0, Zenon DEF Pools
<1>2. /\ ~q[i].active
      /\ \A j \in Slots \ {i} : q[j] = p[j]
  BY DEF PoolSound, Pools
<1> HIDE DEF q
<1>3. OpenOn(ds, i) = {}
  BY OpenOnFinite, FS_EmptySet DEF PoolSound
<1>4. \A d \in Descs : ds[d].active => ds[d].idx # i
  BY <1>3 DEF OpenOn
<1> QED
  BY <1>1, <1>2, <1>4 DEF PoolSound, Linked, q

\* The end of mq_close and mq_unlink.
LEMMA DropSound ==
  ASSUME RegistrySetting, NEW p, NEW ds, NEW who, PoolSound(p, ds, who),
         NEW i \in Slots, p[i].active, Drop(p, i)
  PROVE  PoolSound(pool', ds, who)
  BY DestroySound DEF Drop, Destroy

\* A non-empty set of naturals has a least element.
LEMMA LeastNat ==
  ASSUME NEW I \in SUBSET Nat, I # {}
  PROVE  \E i \in I : \A j \in I : i <= j
<1> DEFINE R == {ss \in Nat \X Nat : ss[1] < ss[2]}
<1>1. IsWellFoundedOn(R, Nat)
  BY NatLessThanWellFounded, Zenon DEF OpToRel
<1> HIDE DEF R
<1>2. PICK i \in I : \A j \in I : <<j, i>> \notin R
  BY <1>1, WFMin, Zenon
<1>3. ASSUME NEW j \in I PROVE i <= j
  <2>1. i \in Nat /\ j \in Nat
    OBVIOUS
  <2>2. ~(j < i)
    BY <1>2, <2>1, Zenon DEF R
  <2> QED
    BY <2>1, <2>2
<1> QED
  BY <1>3

\* The slot a search stops at is one it looked for.
LEMMA FirstIn ==
  ASSUME RegistrySetting, NEW S \in SUBSET Nat, S # {}
  PROVE  First(S) \in S
  BY LeastNat, Zenon DEF First

\* Between the test and the lock of mq_close, and while a call works on its queue,
\* the thread has a descriptor of its own open, so nobody else can close it.
Mine(t, d) == d \in Descs /\ descs[d].active /\ opener[d].thread = {t}

Holding ==
  /\ \A t \in Openers : r_pc[t] = "close" => Mine(t, arg[t])
  /\ \A t \in Openers :
       r_pc[t] = "use" =>
         \E d \in Descs :
           Mine(t, d) /\ descs[d].idx = mq[t].idx /\ opener[d].gen = mq[t].gen

RegTypes ==
  /\ gens \in Nat
  /\ r_pc \in [Openers -> {"idle", "close", "use"}]
  /\ DOMAIN arg = Openers /\ DOMAIN mq = Openers
  /\ \A d \in Descs, t \in Openers : t \in opener[d].thread => opener[d].thread = {t}

RegInv == PoolSound(pool, descs, opener) /\ Holding /\ RegTypes

\* A step that changes no descriptor of a thread in the middle of a call.
LEMMA HoldingKept ==
  ASSUME RegistrySetting, Holding, UNCHANGED <<r_pc, arg, mq>>,
         \A d \in Descs :
           descs[d].active => descs'[d] = descs[d] /\ opener'[d] = opener[d]
  PROVE  Holding'
<1>1. \A t, d : Mine(t, d) => Mine(t, d)' /\ descs'[d] = descs[d] /\ opener'[d] = opener[d]
  BY DEF Mine
<1>2. ASSUME NEW t \in Openers, r_pc'[t] = "close" PROVE Mine(t, arg[t])'
  BY <1>1, <1>2 DEF Holding, Mine
<1>3. ASSUME NEW t \in Openers, r_pc'[t] = "use"
      PROVE  \E d \in Descs :
               Mine(t, d)' /\ descs'[d].idx = mq'[t].idx /\ opener'[d].gen = mq'[t].gen
  <2>1. PICK d \in Descs :
          Mine(t, d) /\ descs[d].idx = mq[t].idx /\ opener[d].gen = mq[t].gen
    BY <1>3 DEF Holding
  <2> QED
    BY <1>1, <2>1
<1> QED
  BY <1>2, <1>3 DEF Holding

\* mq_open's tail on a sound pool p, in slot i.
LEMMA OpenDescStep ==
  ASSUME RegistrySetting, RegInv, NEW t \in Openers, NEW p, NEW i \in Slots, p[i].active,
         PoolSound(p, descs, opener), OpenDesc(t, p, i),
         UNCHANGED <<r_pc, arg, mq>>, gens' \in Nat
  PROVE  RegInv'
<1> DEFINE free == {d \in Descs : ~descs[d].active}
           d == First(free)
<1>1. CASE free = {}
  <2>1. pool' = p /\ UNCHANGED <<descs, opener>>
    BY <1>1 DEF OpenDesc
  <2>2. Holding'
    BY <2>1, HoldingKept DEF RegInv
  <2>3. PoolSound(pool', descs', opener')
    BY <2>1
  <2> QED
    BY <2>1, <2>2, <2>3 DEF RegInv, RegTypes
<1>2. CASE free # {}
  <2>1. d \in Descs /\ ~descs[d].active
    <3>1. free \in SUBSET Nat
      BY DEF Descs, RegistrySetting
    <3> HIDE DEF free
    <3>2. d \in free
      BY <1>2, <3>1, FirstIn
    <3> QED
      BY <3>2 DEF free
  <2>2. /\ descs' = [descs EXCEPT ![d] = [active |-> TRUE, idx |-> i]]
        /\ pool' = [p EXCEPT ![i].refcount = @ + 1]
        /\ opener' = [opener EXCEPT ![d] = [thread |-> {t}, gen |-> p[i].gen]]
    BY <1>2 DEF OpenDesc
  <2> HIDE DEF d
  <2>3. PoolSound(pool', descs', opener')
    BY <2>1, <2>2, OpenSound, Zenon
  <2>4. Holding'
    <3>1. \A e \in Descs :
            descs[e].active => descs'[e] = descs[e] /\ opener'[e] = opener[e]
      BY <2>1, <2>2 DEF RegInv, PoolSound
    <3> QED
      BY <3>1, HoldingKept DEF RegInv
  <2>5. RegTypes'
    <3>1. \A e \in Descs, u \in Openers :
            u \in opener'[e].thread => opener'[e].thread = {u}
      BY <2>2 DEF RegInv, RegTypes, PoolSound
    <3> QED
      BY <3>1 DEF RegInv, RegTypes
  <2> QED
    BY <2>3, <2>4, <2>5 DEF RegInv
<1> QED
  BY <1>1, <1>2

\* mq_open, whatever it finds and whether it succeeds.
LEMMA OpenStep ==
  ASSUME RegistrySetting, RegInv, NEW t \in Openers, Open(t)
  PROVE  RegInv'
<1>0. UNCHANGED <<r_pc, arg, mq>>
  BY DEF Open
<1>1. PICK name \in Names, creat \in BOOLEAN, ok \in {TRUE, ~TRUE} :
        OpenExisting(t, name, creat) \/ OpenNew(t, name, creat, ok)
  BY Zenon DEF Open
<1>2. ASSUME UNCHANGED <<descs, opener>>, PoolSound(pool', descs, opener), gens' \in Nat
      PROVE  RegInv'
  BY <1>0, <1>2, HoldingKept DEF RegInv, RegTypes
<1>3. gens \in Nat /\ PoolSound(pool, descs, opener)
  BY DEF RegInv, RegTypes
<1>4. Slots \subseteq Nat
  BY DEF Slots, RegistrySetting
<1>5. CASE OpenExisting(t, name, creat)
  <2> DEFINE S == Find(name)
  <2>1. CASE creat
    BY <1>2, <1>3, <1>5, <2>1 DEF OpenExisting
  <2>2. CASE ~creat
    <3>1. S \in SUBSET Nat /\ S # {}
      BY <1>4, <1>5, Zenon DEF OpenExisting, Find
    <3>2. First(S) \in S
      BY <3>1, FirstIn
    <3>3. First(S) \in Slots /\ pool[First(S)].active
      BY <3>2 DEF Find
    <3>4. OpenDesc(t, pool, First(S)) /\ gens' = gens
      BY <1>5, <2>2 DEF OpenExisting
    <3> QED
      BY <1>0, <1>3, <3>3, <3>4, OpenDescStep
  <2> QED
    BY <2>1, <2>2
<1>6. CASE OpenNew(t, name, creat, ok)
  <2> DEFINE free == {i \in Slots : ~pool[i].active}
             i == First(free)
             p == Alloc(pool, i, name)
  <2>1. CASE UNCHANGED <<pool, descs, opener, gens, live>>
    BY <1>2, <1>3, <2>1
  <2>2. CASE /\ free # {}
             /\ gens' = gens + 1
             /\ \/ OpenDesc(t, p, i)
                \/ pool' = p /\ UNCHANGED <<descs, opener, live>>
    <3>1. i \in Slots /\ ~pool[i].active
      <4>1. free \in SUBSET Nat
        BY <1>4, Zenon
      <4> HIDE DEF free
      <4>2. i \in free
        BY <2>2, <4>1, FirstIn
      <4> QED
        BY <4>2 DEF free
    <3>2. \A j \in Slots : Linked(pool, j) => pool[j].name # name
      BY <1>6 DEF OpenNew, Find, Linked
    <3> HIDE DEF i
    <3>3. p = [pool EXCEPT ![i] = [active |-> TRUE, name |-> name, refcount |-> 0,
                                   unlinked |-> FALSE, gen |-> gens + 1]]
      BY DEF Alloc
    <3>4. PoolSound(p, descs, opener)
      <4>1. gens + 1 \in Nat
        BY <1>3
      <4> HIDE DEF p
      <4> QED
        BY <1>3, <3>1, <3>2, <3>3, <4>1, AllocSound, Zenon
    <3>5. p[i].active
      BY <1>3, <3>1, <3>3 DEF PoolSound, Pools
    <3>6. gens' \in Nat
      BY <1>3, <2>2
    <3> HIDE DEF p
    <3> QED
      BY <1>0, <1>2, <2>2, <3>1, <3>4, <3>5, <3>6, OpenDescStep
  <2> QED
    BY <1>6, <2>1, <2>2 DEF OpenNew
<1> QED
  BY <1>1, <1>5, <1>6

\* The locked half of mq_close: the descriptor is still open, and the thread's own.
LEMMA CloseLockedStep ==
  ASSUME RegistrySetting, RegInv, NEW t \in Openers, CloseLocked(t)
  PROVE  RegInv'
<1> DEFINE d == arg[t]
           i == descs[d].idx
           p == [pool EXCEPT ![i].refcount = @ - 1]
<1>1. Mine(t, d) /\ r_pc[t] = "close"
  BY DEF RegInv, Holding, CloseLocked
<1>2. /\ Drop(p, i)
      /\ descs' = [descs EXCEPT ![d].active = FALSE]
      /\ r_pc' = [r_pc EXCEPT ![t] = "idle"]
      /\ arg' = [arg EXCEPT ![t] = 0]
      /\ UNCHANGED <<mq, opener, gens>>
  BY DEF CloseLocked
<1> HIDE DEF d
<1>3. /\ i \in Slots /\ pool[i].active
      /\ PoolSound(p, [descs EXCEPT ![d].active = FALSE], opener)
  BY <1>1, CloseSound, Zenon DEF Mine, RegInv
<1>4. p[i].active
  <2>1. pool \in Pools
    BY DEF RegInv, PoolSound
  <2> HIDE DEF i
  <2> QED
    BY <1>3, <2>1 DEF Pools
<1>5. PoolSound(pool', descs', opener')
  <2> HIDE DEF p, i
  <2> QED
    BY <1>2, <1>3, <1>4, DropSound
<1>6. \A u \in Openers, e \in Descs :
        u # t /\ Mine(u, e) => e # d /\ descs'[e] = descs[e] /\ opener'[e] = opener[e]
  <2>1. DOMAIN descs = Descs
    BY DEF RegInv, PoolSound
  <2>2. \A e \in Descs : e # d => descs'[e] = descs[e]
    BY <1>2, <2>1
  <2>3. \A u \in Openers, e \in Descs : u # t /\ Mine(u, e) => e # d
    BY <1>1 DEF Mine
  <2> QED
    BY <1>2, <2>2, <2>3
<1>7. Holding'
  <2>1. ASSUME NEW u \in Openers, r_pc'[u] = "close" PROVE Mine(u, arg[u])' /\ u # t
    <3>1. u # t /\ r_pc[u] = "close" /\ arg'[u] = arg[u]
      BY <1>2, <2>1 DEF RegInv, RegTypes
    <3>2. Mine(u, arg[u])
      BY <3>1 DEF RegInv, Holding
    <3>3. arg[u] \in Descs
      BY <3>2 DEF Mine
    <3>4. descs'[arg[u]] = descs[arg[u]] /\ opener'[arg[u]] = opener[arg[u]]
      BY <1>6, <3>1, <3>2, <3>3
    <3> QED
      BY <3>1, <3>2, <3>4 DEF Mine
  <2>2. ASSUME NEW u \in Openers, r_pc'[u] = "use"
        PROVE  \E e \in Descs :
                 Mine(u, e)' /\ descs'[e].idx = mq'[u].idx /\ opener'[e].gen = mq'[u].gen
    <3>1. u # t /\ r_pc[u] = "use"
      BY <1>2, <2>2 DEF RegInv, RegTypes
    <3>2. PICK e \in Descs :
            Mine(u, e) /\ descs[e].idx = mq[u].idx /\ opener[e].gen = mq[u].gen
      BY <3>1 DEF RegInv, Holding
    <3> QED
      BY <1>2, <1>6, <3>1, <3>2 DEF Mine
  <2> QED
    BY <2>1, <2>2 DEF Holding
<1>8. RegTypes'
  BY <1>2 DEF RegInv, RegTypes
<1> QED
  BY <1>5, <1>7, <1>8 DEF RegInv

\* mq_unlink takes the name away and frees a queue nobody has open.
LEMMA UnlinkStep ==
  ASSUME RegistrySetting, RegInv, NEW t \in Openers, Unlink(t)
  PROVE  RegInv'
<1>0. UNCHANGED <<descs, r_pc, arg, mq, opener, gens>>
  BY DEF Unlink
<1>1. PoolSound(pool, descs, opener)
  BY DEF RegInv
<1>2. PICK name \in Names :
        IF Find(name) = {} THEN UNCHANGED <<pool, live>>
        ELSE LET i == First(Find(name))
             IN  Drop([pool EXCEPT ![i].unlinked = TRUE], i)
  BY Zenon DEF Unlink
<1>3. PoolSound(pool', descs, opener)
  <2>1. CASE Find(name) = {}
    BY <1>1, <1>2, <2>1
  <2>2. CASE Find(name) # {}
    <3> DEFINE i == First(Find(name))
               p == [pool EXCEPT ![i].unlinked = TRUE]
    <3>1. Find(name) \in SUBSET Nat
      BY DEF Find, Slots, RegistrySetting
    <3>2. i \in Find(name)
      BY <2>2, <3>1, FirstIn
    <3>3. i \in Slots /\ pool[i].active
      BY <3>2 DEF Find
    <3>4. Drop(p, i)
      BY <1>2, <2>2
    <3> HIDE DEF i
    <3>5. PoolSound(p, descs, opener)
      BY <1>1, <3>3, UnlinkSound
    <3>6. p[i].active
      <4>1. pool \in Pools
        BY <1>1 DEF PoolSound
      <4> QED
        BY <3>3, <4>1 DEF Pools
    <3> HIDE DEF p
    <3> QED
      BY <3>3, <3>4, <3>5, <3>6, DropSound
  <2> QED
    BY <2>1, <2>2
<1>4. Holding'
  BY <1>0, HoldingKept DEF RegInv
<1> QED
  BY <1>0, <1>3, <1>4 DEF RegInv, RegTypes

\* The steps that only look at the tables.
LEMMA LookStep ==
  ASSUME RegistrySetting, RegInv, NEW t \in Openers, Close(t) \/ Use(t) \/ UseEnd(t)
  PROVE  RegInv'
<1>0. UNCHANGED <<pool, descs, opener, gens>>
  BY DEF Close, Use, UseEnd
<1>1. \A u, d : Mine(u, d)' <=> Mine(u, d)
  BY <1>0 DEF Mine
<1>2. \A d \in Descs : d \in Known(t) /\ descs[d].active => Mine(t, d)
  BY DEF Known, RegistrySetting, Mine, RegInv, RegTypes
<1>3. PoolSound(pool', descs', opener')
  BY <1>0 DEF RegInv
<1>4. CASE UNCHANGED <<r_pc, arg, mq>>
  BY <1>0, <1>3, <1>4, HoldingKept DEF RegInv, RegTypes
<1>5. CASE Close(t) /\ r_pc' # r_pc
  <2>1. PICK d \in Descs :
          /\ Mine(t, d)
          /\ r_pc' = [r_pc EXCEPT ![t] = "close"] /\ arg' = [arg EXCEPT ![t] = d]
    BY <1>2, <1>5 DEF Close, Known, RegistrySetting
  <2>2. mq' = mq
    BY <1>5 DEF Close
  <2>3. Holding'
    BY <1>0, <1>1, <2>1, <2>2 DEF RegInv, RegTypes, Holding
  <2>4. RegTypes'
    BY <1>0, <2>1, <2>2 DEF RegInv, RegTypes
  <2> QED
    BY <1>3, <2>3, <2>4 DEF RegInv
<1>6. CASE Use(t) /\ r_pc' # r_pc
  <2>1. PICK d \in Descs :
          /\ Mine(t, d) /\ pool[descs[d].idx].active
          /\ r_pc' = [r_pc EXCEPT ![t] = "use"]
          /\ mq' = [mq EXCEPT ![t] = [idx |-> descs[d].idx, gen |-> pool[descs[d].idx].gen]]
    BY <1>2, <1>6, Zenon DEF Use, Known, RegistrySetting
  <2>2. arg' = arg
    BY <1>6, Zenon DEF Use
  <2>3. opener[d].gen = pool[descs[d].idx].gen
    BY <2>1, Zenon DEF Mine, RegInv, PoolSound
  <2>4. mq'[t].idx = descs[d].idx /\ mq'[t].gen = opener[d].gen
        /\ \A u \in Openers \ {t} : mq'[u] = mq[u] /\ r_pc'[u] = r_pc[u]
    BY <2>1, <2>3, Zenon DEF RegInv, RegTypes
  <2>5. Holding'
    <3>1. ASSUME NEW u \in Openers, r_pc'[u] = "close" PROVE Mine(u, arg[u])'
      BY <1>1, <2>1, <2>2, <3>1 DEF RegInv, RegTypes, Holding
    <3>2. ASSUME NEW u \in Openers, r_pc'[u] = "use"
          PROVE  \E e \in Descs :
                   Mine(u, e)' /\ descs'[e].idx = mq'[u].idx /\ opener'[e].gen = mq'[u].gen
      <4>1. CASE u = t
        BY <1>0, <1>1, <2>1, <2>4, <4>1
      <4>2. CASE u # t
        BY <1>0, <1>1, <2>4, <3>2, <4>2 DEF RegInv, Holding
      <4> QED
        BY <4>1, <4>2
    <3> QED
      BY <3>1, <3>2 DEF Holding
  <2>6. RegTypes'
    BY <1>0, <2>1, <2>2 DEF RegInv, RegTypes
  <2> QED
    BY <1>3, <2>5, <2>6 DEF RegInv
<1>7. CASE UseEnd(t)
  <2>1. /\ r_pc' = [r_pc EXCEPT ![t] = "idle"] /\ arg' = arg
        /\ mq' = [mq EXCEPT ![t] = [idx |-> 0, gen |-> 0]]
    BY <1>7 DEF UseEnd
  <2>2. \A u \in Openers : r_pc'[u] # "idle" => u # t /\ r_pc'[u] = r_pc[u] /\ mq'[u] = mq[u]
    BY <2>1 DEF RegInv, RegTypes
  <2>3. Holding'
    <3>1. ASSUME NEW u \in Openers, r_pc'[u] = "close" PROVE Mine(u, arg[u])'
      BY <1>1, <2>1, <2>2, <3>1 DEF RegInv, Holding
    <3>2. ASSUME NEW u \in Openers, r_pc'[u] = "use"
          PROVE  \E e \in Descs :
                   Mine(u, e)' /\ descs'[e].idx = mq'[u].idx /\ opener'[e].gen = mq'[u].gen
      BY <1>0, <1>1, <2>2, <3>2, Zenon DEF RegInv, Holding
    <3> QED
      BY <3>1, <3>2 DEF Holding
  <2>4. RegTypes'
    BY <1>0, <2>1 DEF RegInv, RegTypes
  <2> QED
    BY <1>3, <2>3, <2>4 DEF RegInv
<1>8. ASSUME Close(t) \/ Use(t), r_pc' = r_pc PROVE UNCHANGED <<r_pc, arg, mq>>
  BY <1>8, Zenon DEF Close, Use, RegInv, RegTypes
<1> QED
  BY <1>4, <1>5, <1>6, <1>7, <1>8

\* The pool and the descriptor table start empty.
LEMMA RegInitSound == RegInit => RegInv
<1> SUFFICES ASSUME RegInit PROVE RegInv
  OBVIOUS
<1>1. PoolSound(pool, descs, opener)
  <2>1. pool \in Pools /\ \A i \in Slots : ~pool[i].active
    BY DEF RegInit, Free, Pools
  <2>2. /\ descs \in [Descs -> [active : BOOLEAN, idx : Nat]]
        /\ \A d \in Descs : ~descs[d].active
    BY DEF RegInit
  <2>3. opener \in [Descs -> [thread : SUBSET Openers, gen : Nat]]
    BY DEF RegInit
  <2> QED
    BY <2>1, <2>2, <2>3 DEF PoolSound, Linked
<1>2. Holding
  BY DEF RegInit, Holding
<1>3. RegTypes
  BY DEF RegInit, RegTypes
<1> QED
  BY <1>1, <1>2, <1>3 DEF RegInv

\* mq_open, mq_close and mq_unlink of any number of threads, each closing what it
\* opened: a queue exists as long as a descriptor or a call in progress needs it.
THEOREM RegistryInvariance ==
  ASSUME RegistrySetting
  PROVE  RegSpec => []RegInv
<1>1. RegInv /\ [RegNext]_regvars => RegInv'
  <2> SUFFICES ASSUME RegInv, [RegNext]_regvars PROVE RegInv'
    OBVIOUS
  <2>1. CASE UNCHANGED regvars
    <3>1. UNCHANGED <<pool, descs, opener, r_pc, arg, mq, gens>>
      BY <2>1 DEF regvars
    <3> QED
      BY <3>1, HoldingKept DEF RegInv, RegTypes
  <2> QED
    BY <2>1, OpenStep, CloseLockedStep, UnlinkStep, LookStep DEF RegNext
<1> QED
  BY <1>1, RegInitSound, PTL DEF RegSpec

\* The invariant says what the run checks.
LEMMA RegInvImplies == RegInv => RegistrySound
<1> SUFFICES ASSUME RegInv PROVE RegistrySound
  OBVIOUS
<1>1. RefsExact
  BY DEF RegInv, PoolSound, OpenOn, RefsExact
<1>2. OpenQueueLives
  <2>1. \A d \in Descs :
          descs[d].active =>
            pool[descs[d].idx].active /\ pool[descs[d].idx].gen = opener[d].gen
    BY DEF RegInv, PoolSound
  <2>2. \A t \in Openers :
          r_pc[t] = "use" => pool[mq[t].idx].active /\ pool[mq[t].idx].gen = mq[t].gen
    BY <2>1 DEF RegInv, Holding, Mine
  <2> QED
    BY <2>1, <2>2 DEF OpenQueueLives
<1>3. OneQueuePerName
  BY DEF RegInv, PoolSound, Linked, OneQueuePerName
<1> QED
  BY <1>1, <1>2, <1>3 DEF RegistrySound

\* The reference counts, the descriptors and the names of the registry stay sound
\* for any number of queues, descriptors, names and threads.
THEOREM RegistryStaysSound ==
  ASSUME RegistrySetting
  PROVE  RegSpec => []RegistrySound
  BY RegistryInvariance, RegInvImplies, PTL

-----------------------------------------------------------------------------
(* The semaphores of sys/sem.h: slots shared by sem_init, the registry of     *)
(* names and the System V sets.  The mutexes make every section one step; a   *)
(* slot is given back after its entry.                                        *)

CONSTANTS SemThreads, SemSlots, NamedMax, SetMax, SemNames, Keys, Private, Sizes, None,
          MaxCalls, TwoRemovers
VARIABLES active, named, semsets, anon, handles, t_pc, t_arg, calls

Tables == INSTANCE SemRegistry WITH Threads <- SemThreads, Slots <- SemSlots,
  Names <- SemNames, pc <- t_pc, arg <- t_arg

\* Any slots and tables, and one thread at a time that removes a set.
TablesSetting ==
  /\ SemSlots \subseteq Nat
  /\ NamedMax \in Nat /\ SetMax \in Nat
  /\ ~TwoRemovers

\* The named semaphores, the System V sets and the calls about to free it, at slot s.
NamedAt(s) == {n \in 1..NamedMax : named[n].active /\ named[n].slot = s}
SetsAt(s) == {n \in 1..SetMax : semsets[n].active /\ s \in semsets[n].slots}
FreersAt(s) == {t \in SemThreads : t_pc[t] = "free" /\ t_arg[t] = s}

\* Exactly one owner, of one of the four kinds.
OneOf(a, N, S, F) ==
  \/ a /\ N = {} /\ S = {} /\ F = {}
  \/ ~a /\ (\E n : N = {n}) /\ S = {} /\ F = {}
  \/ ~a /\ N = {} /\ (\E n : S = {n}) /\ F = {}
  \/ ~a /\ N = {} /\ S = {} /\ (\E t : F = {t})

\* A slot in use has one owner, a free slot has none.
Owned(s) ==
  IF s \in active THEN OneOf(s \in anon, NamedAt(s), SetsAt(s), FreersAt(s))
  ELSE s \notin anon /\ NamedAt(s) = {} /\ SetsAt(s) = {} /\ FreersAt(s) = {}

NameLinked(n) == named[n].active /\ ~named[n].unlinked

NamedEntry == [active : BOOLEAN, name : SemNames \cup {None}, unlinked : BOOLEAN,
               refcount : Nat, slot : Nat]
NamedTable == [1..NamedMax -> NamedEntry]
SetTable == [1..SetMax -> [active : BOOLEAN, key : Keys \cup {Private, None},
                           slots : SUBSET SemSlots]]

TablesTypes ==
  /\ active \subseteq SemSlots
  /\ handles \in [SemSlots -> Nat]
  /\ named \in NamedTable
  /\ semsets \in SetTable
  /\ t_pc \in [SemThreads -> {"idle", "free", "rmid"}]
  /\ t_arg \in [SemThreads -> Nat]

\* An entry counts the open handles of its slot, and a name leads to one entry.
NamedSound ==
  /\ \A n \in 1..NamedMax :
       named[n].active => /\ named[n].slot \in SemSlots
                          /\ named[n].refcount = handles[named[n].slot]
  /\ \A s \in SemSlots : handles[s] > 0 => NamedAt(s) # {}
  /\ \A m, n \in 1..NamedMax :
       NameLinked(m) /\ NameLinked(n) /\ named[m].name = named[n].name => m = n

\* A set is removed by one call of semctl.
RemoversSound ==
  /\ \A t \in SemThreads :
       t_pc[t] = "rmid" => t_arg[t] \in 1..SetMax /\ semsets[t_arg[t]].active
  /\ \A t, u \in SemThreads :
       t_pc[t] = "rmid" /\ t_pc[u] = "rmid" /\ t_arg[t] = t_arg[u] => t = u

\* The inductive invariant: OneOwner alone does not say that the slot a call is
\* about to free has left its table, nor NamedLives that the entry counts handles.
TablesInv ==
  /\ TablesTypes
  /\ NamedSound
  /\ RemoversSound
  /\ \A s \in SemSlots : Owned(s)

\* The entry a search stops at is one it looked for.
LEMMA TablesFirst ==
  ASSUME NEW S \in SUBSET (Nat \ {0})
  PROVE  IF S = {} THEN Tables!First(S) = 0 ELSE Tables!First(S) \in S
  BY LeastNat, Zenon DEF Tables!First, Tables!Min

\* The slot taken for a new semaphore is a free one.
LEMMA LowestSlot ==
  ASSUME TablesSetting, TablesTypes, SemSlots # active
  PROVE  Tables!Min(SemSlots \ active) \in SemSlots \ active
<1>1. SemSlots \ active \in SUBSET Nat /\ SemSlots \ active # {}
  BY Zenon DEF TablesSetting, TablesTypes
<1> QED
  BY <1>1, LeastNat, Zenon DEF Tables!Min

\* sem_init
LEMMA SemInitStep ==
  ASSUME TablesSetting, TablesInv, NEW t \in SemThreads, Tables!SemInit(t)
  PROVE  TablesInv'
<1>1. UNCHANGED <<named, semsets, handles, t_pc, t_arg>>
  BY DEF Tables!SemInit
<1>2. NamedSound' /\ RemoversSound'
  BY <1>1, Zenon DEF NamedSound, RemoversSound, NamedAt, NameLinked, TablesInv
<1>3. \A s \in SemSlots : NamedAt(s)' = NamedAt(s) /\ SetsAt(s)' = SetsAt(s) /\ FreersAt(s)' = FreersAt(s)
  BY <1>1 DEF NamedAt, SetsAt, FreersAt
<1>4. CASE SemSlots = active
  <2>1. active' = active /\ anon' = anon
    BY <1>4 DEF Tables!SemInit
  <2> QED
    BY <1>1, <1>2, <1>3, <2>1 DEF TablesInv, TablesTypes, Owned
<1>5. CASE SemSlots # active
  <2>1. PICK s \in SemSlots \ active : active' = active \cup {s} /\ anon' = anon \cup {s}
    BY <1>5, LowestSlot DEF Tables!SemInit, TablesInv
  <2>2. \A r \in SemSlots : Owned(r)'
    BY <1>3, <2>1, Zenon DEF Owned, OneOf, TablesInv
  <2>3. TablesTypes'
    BY <1>1, <2>1 DEF TablesInv, TablesTypes
  <2> QED
    BY <1>2, <2>2, <2>3 DEF TablesInv
<1> QED
  BY <1>4, <1>5

\* sem_destroy
LEMMA SemDestroyStep ==
  ASSUME TablesSetting, TablesInv, NEW t \in SemThreads, Tables!SemDestroy(t)
  PROVE  TablesInv'
<1>1. UNCHANGED <<named, semsets, handles, t_pc, t_arg>>
  BY DEF Tables!SemDestroy
<1>2. NamedSound' /\ RemoversSound'
  BY <1>1, Zenon DEF NamedSound, RemoversSound, NamedAt, NameLinked, TablesInv
<1>3. \A s \in SemSlots : NamedAt(s)' = NamedAt(s) /\ SetsAt(s)' = SetsAt(s) /\ FreersAt(s)' = FreersAt(s)
  BY <1>1 DEF NamedAt, SetsAt, FreersAt
<1>4. PICK s \in anon : active' = active \ {s} /\ anon' = anon \ {s}
  BY DEF Tables!SemDestroy
<1>5. \A r \in SemSlots : Owned(r)'
  BY <1>3, <1>4, Zenon DEF Owned, OneOf, TablesInv
<1>6. TablesTypes'
  BY <1>1, <1>4 DEF TablesInv, TablesTypes
<1> QED
  BY <1>2, <1>5, <1>6 DEF TablesInv

\* A slot has one registry entry at most, and then no other owner.
LEMMA OneEntry ==
  ASSUME TablesSetting, TablesInv, NEW n \in 1..NamedMax, named[n].active
  PROVE  LET s == named[n].slot IN
         /\ s \in SemSlots /\ s \in active /\ s \notin anon
         /\ NamedAt(s) = {n} /\ SetsAt(s) = {} /\ FreersAt(s) = {}
<1> DEFINE s == named[n].slot
<1>1. s \in SemSlots
  BY DEF TablesInv, NamedSound
<1>2. n \in NamedAt(s)
  BY DEF NamedAt
<1>3. Owned(s)
  BY <1>1 DEF TablesInv
<1> HIDE DEF s
<1>4. /\ s \in active /\ s \notin anon
      /\ NamedAt(s) = {n} /\ SetsAt(s) = {} /\ FreersAt(s) = {}
  BY <1>2, <1>3 DEF Owned, OneOf
<1> QED
  BY <1>1, <1>4 DEF s

\* A call that fails leaves the tables alone.
LEMMA NothingChanges ==
  ASSUME TablesInv, UNCHANGED <<active, named, semsets, anon, handles, t_pc, t_arg>>
  PROVE  TablesInv'
<1>1. \A s \in SemSlots : NamedAt(s)' = NamedAt(s) /\ SetsAt(s)' = SetsAt(s) /\ FreersAt(s)' = FreersAt(s)
  BY Zenon DEF NamedAt, SetsAt, FreersAt
<1>2. NamedSound' /\ RemoversSound'
  BY Zenon DEF NamedSound, RemoversSound, NamedAt, NameLinked, TablesInv
<1> QED
  BY <1>1, <1>2 DEF TablesInv, TablesTypes, Owned

\* Entries keep their type when the count or the name goes.
LEMMA EntryTypes ==
  ASSUME NEW e \in NamedEntry, NEW k \in Nat, NEW gone \in BOOLEAN
  PROVE  [e EXCEPT !.refcount = k, !.unlinked = gone] \in NamedEntry
  BY Zenon DEF NamedEntry

\* The three updates of an entry are of the form EntryTypes speaks of.
LEMMA EntryUpdates ==
  ASSUME NEW e \in NamedEntry
  PROVE  /\ [e EXCEPT !.refcount = e.refcount + 1] = [e EXCEPT !.refcount = e.refcount + 1, !.unlinked = e.unlinked]
         /\ [e EXCEPT !.refcount = e.refcount - 1] = [e EXCEPT !.refcount = e.refcount - 1, !.unlinked = e.unlinked]
         /\ [e EXCEPT !.unlinked = TRUE] = [e EXCEPT !.refcount = e.refcount, !.unlinked = TRUE]
  BY Zenon DEF NamedEntry

\* An entry stays, with another number of open handles or without its name.
LEMMA EntryStaysStep ==
  ASSUME TablesSetting, TablesInv, NEW n \in 1..NamedMax, named[n].active,
         NEW k \in Nat, NEW gone \in BOOLEAN, named[n].unlinked => gone,
         named' = [named EXCEPT ![n] = [@ EXCEPT !.refcount = k, !.unlinked = gone]],
         handles' \in [SemSlots -> Nat], handles'[named[n].slot] = k,
         \A r \in SemSlots \ {named[n].slot} : handles'[r] = handles[r],
         UNCHANGED <<active, semsets, anon, t_pc, t_arg>>
  PROVE  TablesInv'
<1>0. PICK s \in SemSlots : s = named[n].slot
  BY OneEntry
<1>1. s \in SemSlots /\ NamedAt(s) = {n}
  BY <1>0, OneEntry
<1>2. /\ named'[n].refcount = k /\ (named[n].unlinked => named'[n].unlinked)
      /\ \A m \in 1..NamedMax \ {n} : named'[m] = named[m]
      /\ \A m \in 1..NamedMax :
           /\ named'[m].active = named[m].active
           /\ named'[m].name = named[m].name /\ named'[m].slot = named[m].slot
  BY DEF TablesInv, TablesTypes, NamedTable, NamedEntry
<1>3. TablesTypes'
  <2>1. [named[n] EXCEPT !.refcount = k, !.unlinked = gone] \in NamedEntry
    BY EntryTypes, Zenon DEF TablesInv, TablesTypes, NamedTable
  <2>2. named' \in NamedTable
    BY <2>1 DEF TablesInv, TablesTypes, NamedTable
  <2> QED
    BY <2>2 DEF TablesInv, TablesTypes
<1>4. handles'[s] = k /\ \A r \in SemSlots \ {s} : handles'[r] = handles[r]
  BY <1>0
<1>5. \A r \in SemSlots : NamedAt(r)' = NamedAt(r) /\ SetsAt(r)' = SetsAt(r) /\ FreersAt(r)' = FreersAt(r)
  BY <1>2 DEF NamedAt, SetsAt, FreersAt
<1>6. \A m \in 1..NamedMax : named[m].active /\ m # n => named[m].slot # s
  BY <1>1 DEF NamedAt
<1>7. NamedSound'
  <2>1. \A m \in 1..NamedMax :
          named'[m].active => /\ named'[m].slot \in SemSlots
                              /\ named'[m].refcount = handles'[named'[m].slot]
    BY <1>0, <1>2, <1>4, <1>6 DEF TablesInv, NamedSound
  <2>2. \A r \in SemSlots : handles'[r] > 0 => NamedAt(r)' # {}
    BY <1>1, <1>4, <1>5 DEF TablesInv, NamedSound
  <2>3. \A m, j \in 1..NamedMax :
          NameLinked(m)' /\ NameLinked(j)' /\ named'[m].name = named'[j].name => m = j
    BY <1>2 DEF TablesInv, NamedSound, NameLinked
  <2> QED
    BY <2>1, <2>2, <2>3 DEF NamedSound
<1>8. RemoversSound'
  BY DEF RemoversSound, TablesInv
<1> QED
  BY <1>3, <1>5, <1>7, <1>8 DEF TablesInv, Owned

\* sem_open of a new name.
LEMMA CreateStep ==
  ASSUME TablesSetting, TablesInv, NEW n \in 1..NamedMax, ~named[n].active,
         NEW s \in SemSlots \ active, NEW name \in SemNames,
         \A m \in 1..NamedMax : NameLinked(m) => named[m].name # name,
         active' = active \cup {s},
         named' = [named EXCEPT ![n] = [active |-> TRUE, name |-> name, unlinked |-> FALSE,
                                        refcount |-> 1, slot |-> s]],
         handles' = [handles EXCEPT ![s] = 1],
         UNCHANGED <<semsets, anon, t_pc, t_arg>>
  PROVE  TablesInv'
<1>1. /\ named'[n] = [active |-> TRUE, name |-> name, unlinked |-> FALSE, refcount |-> 1, slot |-> s]
      /\ \A m \in 1..NamedMax \ {n} : named'[m] = named[m]
  BY Zenon DEF TablesInv, TablesTypes, NamedTable, NamedEntry
<1>2. handles'[s] = 1 /\ \A r \in SemSlots \ {s} : handles'[r] = handles[r]
  BY DEF TablesInv, TablesTypes, NamedTable, NamedEntry
<1>3. TablesTypes'
  BY DEF TablesInv, TablesTypes, NamedTable, NamedEntry, TablesSetting
<1>4. /\ NamedAt(s)' = NamedAt(s) \cup {n}
      /\ \A r \in SemSlots \ {s} : NamedAt(r)' = NamedAt(r)
      /\ \A r \in SemSlots : SetsAt(r)' = SetsAt(r) /\ FreersAt(r)' = FreersAt(r)
  <2>1. \A m \in 1..NamedMax \ {n} : named'[m].active = named[m].active /\ named'[m].slot = named[m].slot
    BY <1>1, Zenon
  <2>2. named'[n].active /\ named'[n].slot = s
    BY <1>1
  <2>3. NamedAt(s)' = NamedAt(s) \cup {n}
    BY <2>1, <2>2 DEF NamedAt
  <2>4. \A r \in SemSlots \ {s} : NamedAt(r)' = NamedAt(r)
    <3> SUFFICES ASSUME NEW r \in SemSlots \ {s} PROVE NamedAt(r)' = NamedAt(r)
      OBVIOUS
    <3>1. \A m \in 1..NamedMax :
            (named'[m].active /\ named'[m].slot = r) <=> (named[m].active /\ named[m].slot = r)
      <4> SUFFICES ASSUME NEW m \in 1..NamedMax
                   PROVE  (named'[m].active /\ named'[m].slot = r)
                            <=> (named[m].active /\ named[m].slot = r)
        OBVIOUS
      <4>1. CASE m = n
        BY <2>2, <4>1, Zenon
      <4>2. CASE m # n
        BY <2>1, <4>2
      <4> QED
        BY <4>1, <4>2
    <3> QED
      BY <3>1, Zenon DEF NamedAt
  <2>5. \A r \in SemSlots : SetsAt(r)' = SetsAt(r) /\ FreersAt(r)' = FreersAt(r)
    BY Zenon DEF SetsAt, FreersAt
  <2> QED
    BY <2>3, <2>4, <2>5
<1>5. Owned(s) /\ NamedAt(s) = {}
  BY DEF TablesInv, Owned
<1>6. \A r \in SemSlots : Owned(r)'
  <2>1. Owned(s)'
    BY <1>4, <1>5, Zenon DEF Owned, OneOf
  <2>2. \A r \in SemSlots \ {s} : Owned(r)'
    BY <1>4 DEF Owned, TablesInv
  <2> QED
    BY <2>1, <2>2
<1>7. \A m \in 1..NamedMax \ {n} : named'[m].active => named'[m].slot # s
  BY <1>1, <1>5 DEF NamedAt
<1>8. NamedSound'
  <2>1. \A m \in 1..NamedMax :
          named'[m].active => /\ named'[m].slot \in SemSlots
                              /\ named'[m].refcount = handles'[named'[m].slot]
    <3> SUFFICES ASSUME NEW m \in 1..NamedMax, named'[m].active
                 PROVE  /\ named'[m].slot \in SemSlots
                        /\ named'[m].refcount = handles'[named'[m].slot]
      OBVIOUS
    <3>1. CASE m = n
      BY <1>1, <1>2, <3>1
    <3>2. CASE m # n
      <4>1. named'[m] = named[m] /\ named[m].slot # s
        BY <1>1, <1>7, <3>2
      <4>2. named[m].slot \in SemSlots /\ named[m].refcount = handles[named[m].slot]
        BY <4>1, Zenon DEF TablesInv, NamedSound
      <4>3. handles'[named[m].slot] = handles[named[m].slot]
        BY <1>2, <4>1, <4>2, Zenon
      <4> QED
        BY <4>1, <4>2, <4>3, Zenon
    <3> QED
      BY <3>1, <3>2
  <2>2. \A r \in SemSlots : handles'[r] > 0 => NamedAt(r)' # {}
    BY <1>2, <1>4, Zenon DEF TablesInv, NamedSound
  <2>3. \A m, k \in 1..NamedMax :
          NameLinked(m)' /\ NameLinked(k)' /\ named'[m].name = named'[k].name => m = k
    <3>1. \A m, k \in 1..NamedMax :
            NameLinked(m) /\ NameLinked(k) /\ named[m].name = named[k].name => m = k
      BY Zenon DEF TablesInv, NamedSound
    <3>2. \A m \in 1..NamedMax \ {n} :
            /\ named'[m].name = named[m].name
            /\ NameLinked(m)' <=> NameLinked(m)
            /\ NameLinked(m) => named'[m].name # name
      BY <1>1, Zenon DEF NameLinked
    <3>3. named'[n].name = name
      BY <1>1
    <3> QED
      BY <3>1, <3>2, <3>3, Zenon
  <2> QED
    BY <2>1, <2>2, <2>3, Zenon DEF NamedSound
<1>9. RemoversSound'
  BY Zenon DEF RemoversSound, TablesInv
<1> QED
  BY <1>3, <1>6, <1>8, <1>9 DEF TablesInv

\* sem_open
LEMMA SemOpenStep ==
  ASSUME TablesSetting, TablesInv, NEW t \in SemThreads, Tables!SemOpen(t)
  PROVE  TablesInv'
<1>1. UNCHANGED <<semsets, anon, t_pc, t_arg>>
  BY DEF Tables!SemOpen
<1>2. DOMAIN named = 1..NamedMax /\ 1..NamedMax \in SUBSET (Nat \ {0})
  BY DEF TablesInv, TablesTypes, NamedTable, NamedEntry, TablesSetting
<1> DEFINE free == Tables!First({k \in DOMAIN named : ~named[k].active})
<1>3. PICK name \in SemNames, creat \in BOOLEAN, excl \in BOOLEAN :
        LET n == Tables!ByName(name) IN
        \/ UNCHANGED <<active, named, handles>>
        \/ /\ n # 0
           /\ named' = [named EXCEPT ![n].refcount = @ + 1]
           /\ handles' = [handles EXCEPT ![named[n].slot] = @ + 1]
           /\ UNCHANGED active
        \/ /\ n = 0 /\ free # 0 /\ SemSlots # active
           /\ active' = active \cup {Tables!Min(SemSlots \ active)}
           /\ named' = [named EXCEPT ![free] =
                [active |-> TRUE, name |-> name, unlinked |-> FALSE,
                 refcount |-> 1, slot |-> Tables!Min(SemSlots \ active)]]
           /\ handles' = [handles EXCEPT ![Tables!Min(SemSlots \ active)] = 1]
  BY Zenon DEF Tables!SemOpen
<1> DEFINE n == Tables!ByName(name)
           hits == {k \in DOMAIN named : named[k].active /\ ~named[k].unlinked /\ named[k].name = name}
<1>4. IF hits = {} THEN n = 0 ELSE n \in hits
  BY <1>2, TablesFirst DEF Tables!ByName
<1>5. free # 0 => free \in 1..NamedMax /\ ~named[free].active
  BY <1>2, TablesFirst
<1>6. n # 0 => n \in 1..NamedMax /\ named[n].active
  BY <1>2, <1>4
<1>7. n = 0 => \A m \in 1..NamedMax : NameLinked(m) => named[m].name # name
  BY <1>2, <1>4 DEF NameLinked
<1> HIDE DEF n, free
<1>8. SemSlots # active => Tables!Min(SemSlots \ active) \in SemSlots \ active
  BY LowestSlot DEF TablesInv
<1>9. CASE UNCHANGED <<active, named, handles>>
  BY <1>1, <1>9, NothingChanges
<1>10. CASE /\ n # 0
            /\ named' = [named EXCEPT ![n].refcount = @ + 1]
            /\ handles' = [handles EXCEPT ![named[n].slot] = @ + 1]
            /\ UNCHANGED active
  <2>1. PICK s \in SemSlots : s = named[n].slot
    BY <1>6, <1>10, OneEntry
  <2>2. /\ named[n] \in NamedEntry /\ named[n].refcount \in Nat /\ named[n].unlinked \in BOOLEAN
        /\ handles[s] = named[n].refcount /\ handles \in [SemSlots -> Nat]
    <3>1. named[n] \in NamedEntry /\ handles \in [SemSlots -> Nat]
      BY <1>6, <1>10 DEF TablesInv, TablesTypes, NamedTable
    <3>2. named[n].refcount = handles[s]
      BY <1>6, <1>10, <2>1 DEF TablesInv, NamedSound
    <3> QED
      BY <3>1, <3>2 DEF NamedEntry
  <2>3. PICK k \in Nat, gone \in BOOLEAN : k = named[n].refcount + 1 /\ gone = named[n].unlinked
    BY <2>2
  <2>4. named' = [named EXCEPT ![n] = [@ EXCEPT !.refcount = k, !.unlinked = gone]]
    <3>1. named' = [named EXCEPT ![n] = [named[n] EXCEPT !.refcount = named[n].refcount + 1]]
      BY <1>10
    <3> QED
      BY <2>2, <2>3, <3>1, EntryUpdates, Zenon
  <2>5. handles' = [handles EXCEPT ![s] = k]
    BY <1>10, <2>1, <2>2, <2>3
  <2>6. /\ handles' \in [SemSlots -> Nat] /\ handles'[s] = k
        /\ \A r \in SemSlots \ {s} : handles'[r] = handles[r]
    BY <2>2, <2>5
  <2>7. /\ handles'[named[n].slot] = k /\ (named[n].unlinked => gone)
        /\ \A r \in SemSlots \ {named[n].slot} : handles'[r] = handles[r]
    BY <2>1, <2>3, <2>6
  <2>8. n \in 1..NamedMax /\ named[n].active /\ active' = active
    BY <1>6, <1>10
  <2> QED
    BY <1>1, <2>4, <2>6, <2>7, <2>8, EntryStaysStep, Zenon
<1>11. CASE /\ n = 0 /\ free # 0 /\ SemSlots # active
            /\ active' = active \cup {Tables!Min(SemSlots \ active)}
            /\ named' = [named EXCEPT ![free] =
                 [active |-> TRUE, name |-> name, unlinked |-> FALSE,
                  refcount |-> 1, slot |-> Tables!Min(SemSlots \ active)]]
            /\ handles' = [handles EXCEPT ![Tables!Min(SemSlots \ active)] = 1]
  BY <1>1, <1>5, <1>7, <1>8, <1>11, CreateStep, Zenon
<1> QED
  BY <1>3, <1>9, <1>10, <1>11 DEF n

\* The registry gives up an entry without open handles; the thread still has to
\* free the slot.
LEMMA GiveUpStep ==
  ASSUME TablesSetting, TablesInv, NEW t \in SemThreads, t_pc[t] = "idle",
         NEW n \in 1..NamedMax, named[n].active,
         named' = [named EXCEPT ![n] = Tables!FreeName],
         handles' \in [SemSlots -> Nat], handles'[named[n].slot] = 0,
         \A r \in SemSlots \ {named[n].slot} : handles'[r] = handles[r],
         t_pc' = [t_pc EXCEPT ![t] = "free"], t_arg' = [t_arg EXCEPT ![t] = named[n].slot],
         UNCHANGED <<active, semsets, anon>>
  PROVE  TablesInv'
<1>0. PICK s \in SemSlots : s = named[n].slot
  BY OneEntry, Zenon
<1>1. /\ s \in SemSlots /\ s \in active /\ s \notin anon
      /\ NamedAt(s) = {n} /\ SetsAt(s) = {} /\ FreersAt(s) = {}
  BY <1>0, OneEntry, Zenon
<1>2. ~named'[n].active /\ \A m \in 1..NamedMax \ {n} : named'[m] = named[m]
  BY Zenon DEF TablesInv, TablesTypes, NamedTable, NamedEntry, Tables!FreeName
<1>3. TablesTypes'
  <2>1. named' \in NamedTable
    BY Zenon DEF TablesInv, TablesTypes, NamedTable, NamedEntry, Tables!FreeName
  <2>2. s \in Nat
    BY DEF TablesSetting
  <2>3. t_pc' \in [SemThreads -> {"idle", "free", "rmid"}] /\ t_arg' \in [SemThreads -> Nat]
    BY <1>0, <2>2 DEF TablesInv, TablesTypes
  <2> QED
    BY <2>1, <2>3 DEF TablesInv, TablesTypes
<1>4. /\ t_pc'[t] = "free" /\ t_arg'[t] = s
      /\ \A u \in SemThreads \ {t} : t_pc'[u] = t_pc[u] /\ t_arg'[u] = t_arg[u]
  BY <1>0 DEF TablesInv, TablesTypes, NamedTable, NamedEntry
<1>5. handles'[s] = 0 /\ \A r \in SemSlots \ {s} : handles'[r] = handles[r]
  BY <1>0, Zenon
<1>6. \A m \in 1..NamedMax : named[m].active /\ m # n => named[m].slot # s
  BY <1>1, Zenon DEF NamedAt
<1>7. /\ NamedAt(s)' = {} /\ FreersAt(s)' = {t}
      /\ \A r \in SemSlots \ {s} : NamedAt(r)' = NamedAt(r) /\ FreersAt(r)' = FreersAt(r)
      /\ \A r \in SemSlots : SetsAt(r)' = SetsAt(r)
  <2>1. NamedAt(s)' = {}
    <3>1. \A m \in 1..NamedMax : ~(named'[m].active /\ named'[m].slot = s)
      <4> SUFFICES ASSUME NEW m \in 1..NamedMax PROVE ~(named'[m].active /\ named'[m].slot = s)
        OBVIOUS
      <4>1. CASE m = n
        BY <1>2, <4>1, Zenon
      <4>2. CASE m # n
        <5>1. named'[m] = named[m]
          BY <1>2, <4>2
        <5> QED
          BY <1>6, <4>2, <5>1, Zenon
      <4> QED
        BY <4>1, <4>2, Zenon
    <3> QED
      BY <3>1, Zenon DEF NamedAt
  <2>2. FreersAt(s)' = {t}
    <3>1. \A u \in SemThreads \ {t} : (t_pc'[u] = "free" /\ t_arg'[u] = s) <=> (t_pc[u] = "free" /\ t_arg[u] = s)
      BY <1>4, Zenon
    <3>2. \A u \in SemThreads : ~(t_pc[u] = "free" /\ t_arg[u] = s)
      BY <1>1, Zenon DEF FreersAt
    <3>3. \A u \in SemThreads : (t_pc'[u] = "free" /\ t_arg'[u] = s) <=> u = t
      BY <1>4, <3>1, <3>2, Zenon
    <3> QED
      BY <3>3, Zenon DEF FreersAt
  <2>3. \A r \in SemSlots \ {s} : NamedAt(r)' = NamedAt(r)
    <3> SUFFICES ASSUME NEW r \in SemSlots \ {s} PROVE NamedAt(r)' = NamedAt(r)
      OBVIOUS
    <3>1. \A m \in 1..NamedMax :
            (named'[m].active /\ named'[m].slot = r) <=> (named[m].active /\ named[m].slot = r)
      <4> SUFFICES ASSUME NEW m \in 1..NamedMax
                   PROVE  (named'[m].active /\ named'[m].slot = r)
                            <=> (named[m].active /\ named[m].slot = r)
        OBVIOUS
      <4>1. CASE m = n
        BY <1>0, <1>2, <4>1
      <4>2. CASE m # n
        BY <1>2, <4>2
      <4> QED
        BY <4>1, <4>2, Zenon
    <3> QED
      BY <3>1, Zenon DEF NamedAt
  <2>4. \A r \in SemSlots \ {s} : FreersAt(r)' = FreersAt(r)
    BY <1>4 DEF FreersAt
  <2> QED
    BY <2>1, <2>2, <2>3, <2>4, Zenon DEF SetsAt
<1>8. \A r \in SemSlots : Owned(r)'
  <2>1. Owned(s)'
    BY <1>1, <1>7, Zenon DEF Owned, OneOf
  <2>2. \A r \in SemSlots \ {s} : Owned(r)'
    BY <1>7, Zenon DEF Owned, TablesInv
  <2> QED
    BY <2>1, <2>2
<1>9. NamedSound'
  <2>1. \A m \in 1..NamedMax :
          named'[m].active => /\ named'[m].slot \in SemSlots
                              /\ named'[m].refcount = handles'[named'[m].slot]
    <3>1. \A m \in 1..NamedMax :
            named[m].active => /\ named[m].slot \in SemSlots
                               /\ named[m].refcount = handles[named[m].slot]
      BY Zenon DEF TablesInv, NamedSound
    <3>2. ASSUME NEW m \in 1..NamedMax, named'[m].active
          PROVE  /\ named'[m].slot \in SemSlots
                 /\ named'[m].refcount = handles'[named'[m].slot]
      <4>1. m # n
        BY <1>2, <3>2, Zenon
      <4>2. named'[m] = named[m]
        BY <1>2, <4>1
      <4>3. named[m].active
        BY <3>2, <4>2
      <4>4. named[m].slot \in SemSlots \ {s} /\ named[m].refcount = handles[named[m].slot]
        BY <1>6, <3>1, <4>1, <4>3, Zenon
      <4>5. handles'[named[m].slot] = handles[named[m].slot]
        BY <1>5, <4>4
      <4> QED
        BY <4>2, <4>4, <4>5, Zenon
    <3> QED
      BY <3>2, Zenon
  <2>2. \A r \in SemSlots : handles'[r] > 0 => NamedAt(r)' # {}
    <3>1. \A r \in SemSlots : handles[r] > 0 => NamedAt(r) # {}
      BY Zenon DEF TablesInv, NamedSound
    <3>2. ASSUME NEW r \in SemSlots, handles'[r] > 0
          PROVE  NamedAt(r)' # {}
      <4>0. ~(0 > 0)
        OBVIOUS
      <4>1. r # s
        BY <1>5, <3>2, <4>0, Zenon
      <4>2. handles[r] > 0
        BY <1>5, <3>2, <4>1, Zenon
      <4>3. NamedAt(r)' = NamedAt(r)
        BY <1>7, <4>1, Zenon
      <4> QED
        BY <3>1, <4>2, <4>3, Zenon
    <3> QED
      BY <3>2
  <2>3. \A m, k \in 1..NamedMax :
          NameLinked(m)' /\ NameLinked(k)' /\ named'[m].name = named'[k].name => m = k
    <3>1. \A m, k \in 1..NamedMax :
            NameLinked(m) /\ NameLinked(k) /\ named[m].name = named[k].name => m = k
      BY Zenon DEF TablesInv, NamedSound
    <3>2. ~NameLinked(n)'
      BY <1>2, Zenon DEF NameLinked
    <3>3. \A m \in 1..NamedMax \ {n} :
            named'[m].name = named[m].name /\ (NameLinked(m)' <=> NameLinked(m))
      BY <1>2, Zenon DEF NameLinked
    <3> QED
      <4> SUFFICES ASSUME NEW m \in 1..NamedMax, NEW k \in 1..NamedMax,
                          NameLinked(m)', NameLinked(k)', named'[m].name = named'[k].name
                   PROVE  m = k
        BY Zenon
      <4>1. m # n /\ k # n
        BY <3>2, Zenon
      <4>2. m \in 1..NamedMax \ {n} /\ k \in 1..NamedMax \ {n}
        BY <4>1, Zenon
      <4>3. NameLinked(m) /\ NameLinked(k) /\ named[m].name = named[k].name
        BY <3>3, <4>2, Zenon
      <4> QED
        BY <3>1, <4>3, Zenon
  <2> QED
    BY <2>1, <2>2, <2>3, Zenon DEF NamedSound
<1>10. RemoversSound'
  <2>1. RemoversSound
    BY DEF TablesInv
  <2>2. \A u \in SemThreads : t_pc'[u] = "rmid" => t_pc[u] = "rmid" /\ t_arg'[u] = t_arg[u]
    BY <1>4
  <2>3. \A u \in SemThreads : t_pc'[u] = "rmid" => t_arg'[u] \in 1..SetMax /\ semsets'[t_arg'[u]].active
    BY <2>1, <2>2, Zenon DEF RemoversSound
  <2>4. \A u, v \in SemThreads :
          t_pc'[u] = "rmid" /\ t_pc'[v] = "rmid" /\ t_arg'[u] = t_arg'[v] => u = v
    <3> SUFFICES ASSUME NEW u \in SemThreads, NEW v \in SemThreads,
                        t_pc'[u] = "rmid", t_pc'[v] = "rmid", t_arg'[u] = t_arg'[v]
                 PROVE  u = v
      OBVIOUS
    <3>1. t_pc[u] = "rmid" /\ t_pc[v] = "rmid" /\ t_arg[u] = t_arg[v]
      BY <2>2, Zenon
    <3> QED
      BY <2>1, <3>1, Zenon DEF RemoversSound
  <2> QED
    BY <2>3, <2>4, Zenon DEF RemoversSound
<1> QED
  BY <1>3, <1>8, <1>9, <1>10 DEF TablesInv

\* sem_close
LEMMA SemCloseStep ==
  ASSUME TablesSetting, TablesInv, NEW t \in SemThreads, Tables!SemClose(t)
  PROVE  TablesInv'
<1>1. t_pc[t] = "idle" /\ UNCHANGED <<active, semsets, anon>>
  BY DEF Tables!SemClose, Tables!Begin
<1>2. PICK s \in SemSlots :
        LET n == Tables!BySlot(s)
            last == named[n].refcount = 1 /\ named[n].unlinked
        IN  /\ handles[s] > 0
            /\ handles' = [handles EXCEPT ![s] = @ - 1]
            /\ n # 0 /\ named[n].refcount > 0
            /\ named' = [named EXCEPT ![n] = IF last THEN Tables!FreeName
                                             ELSE [@ EXCEPT !.refcount = named[n].refcount - 1]]
            /\ IF last THEN Tables!Goto(t, "free", s) ELSE UNCHANGED <<t_pc, t_arg>>
  BY Zenon DEF Tables!SemClose
<1>3. PICK n : n = Tables!BySlot(s)
  OBVIOUS
<1>4. n \in 1..NamedMax /\ named[n].active /\ named[n].slot = s
  <2>1. DOMAIN named = 1..NamedMax /\ 1..NamedMax \in SUBSET (Nat \ {0})
    BY DEF TablesInv, TablesTypes, NamedTable, TablesSetting
  <2> DEFINE hits == {m \in DOMAIN named : named[m].active /\ named[m].slot = s}
  <2>2. hits \in SUBSET (Nat \ {0}) /\ n = Tables!First(hits)
    BY <1>3, <2>1 DEF Tables!BySlot
  <2>3. n \in hits
    BY <1>2, <1>3, <2>2, TablesFirst
  <2> QED
    BY <2>1, <2>3
<1>5. named[n] \in NamedEntry /\ named[n].refcount \in Nat /\ named[n].unlinked \in BOOLEAN
  BY <1>4, Zenon DEF TablesInv, TablesTypes, NamedTable, NamedEntry
<1>6. /\ handles[s] = named[n].refcount /\ handles[s] > 0
      /\ handles' = [handles EXCEPT ![s] = @ - 1]
  BY <1>2, <1>4 DEF TablesInv, NamedSound
<1>7. /\ handles' \in [SemSlots -> Nat] /\ handles'[s] = named[n].refcount - 1
      /\ \A r \in SemSlots \ {s} : handles'[r] = handles[r]
  BY <1>5, <1>6 DEF TablesInv, TablesTypes
<1>8. CASE named[n].refcount = 1 /\ named[n].unlinked
  <2>1. named' = [named EXCEPT ![n] = Tables!FreeName] /\ Tables!Goto(t, "free", s)
    BY <1>2, <1>3, <1>8
  <2>2. t_pc' = [t_pc EXCEPT ![t] = "free"] /\ t_arg' = [t_arg EXCEPT ![t] = named[n].slot]
    BY <2>1, <1>4 DEF Tables!Goto
  <2>3. handles'[named[n].slot] = 0
    BY <1>4, <1>7, <1>8
  <2> QED
    BY <1>1, <1>4, <1>7, <2>1, <2>2, <2>3, GiveUpStep, Zenon
<1>9. CASE ~(named[n].refcount = 1 /\ named[n].unlinked)
  <2>1. /\ named' = [named EXCEPT ![n] = [named[n] EXCEPT !.refcount = named[n].refcount - 1]]
        /\ UNCHANGED <<t_pc, t_arg>>
    <3> DEFINE last == named[n].refcount = 1 /\ named[n].unlinked
    <3>1. /\ named' = [named EXCEPT ![n] = IF last THEN Tables!FreeName
                                          ELSE [@ EXCEPT !.refcount = named[n].refcount - 1]]
          /\ IF last THEN Tables!Goto(t, "free", s) ELSE UNCHANGED <<t_pc, t_arg>>
      BY <1>2, <1>3
    <3>2. ~last
      BY <1>9
    <3> HIDE DEF last
    <3>3. t_pc' = t_pc /\ t_arg' = t_arg
      BY <3>1, <3>2
    <3> QED
      BY <3>1, <3>2, <3>3
  <2>2. PICK k \in Nat, gone \in BOOLEAN : k = named[n].refcount - 1 /\ gone = named[n].unlinked
    BY <1>5, <1>6
  <2>3. named' = [named EXCEPT ![n] = [@ EXCEPT !.refcount = k, !.unlinked = gone]]
    BY <2>1, <2>2, <1>5, EntryUpdates, Zenon
  <2>4. handles'[named[n].slot] = k /\ (named[n].unlinked => gone)
    BY <1>4, <1>7, <2>2
  <2> QED
    BY <1>1, <1>4, <1>7, <2>1, <2>3, <2>4, EntryStaysStep, ZenonT(30)
<1> QED
  BY <1>8, <1>9

\* sem_unlink
LEMMA SemUnlinkStep ==
  ASSUME TablesSetting, TablesInv, NEW t \in SemThreads, Tables!SemUnlink(t)
  PROVE  TablesInv'
<1>1. t_pc[t] = "idle" /\ UNCHANGED <<active, semsets, anon, handles>>
  BY DEF Tables!SemUnlink, Tables!Begin
<1>2. PICK name \in SemNames :
        LET n == Tables!ByName(name)
            last == Tables!Unused(named[n])
        IN  /\ n # 0
            /\ named' = [named EXCEPT ![n] = IF last THEN Tables!FreeName
                                             ELSE [@ EXCEPT !.unlinked = TRUE]]
            /\ IF last THEN Tables!Goto(t, "free", named[n].slot) ELSE UNCHANGED <<t_pc, t_arg>>
  BY Zenon DEF Tables!SemUnlink
<1>3. PICK n : n = Tables!ByName(name)
  OBVIOUS
<1>4. n \in 1..NamedMax /\ named[n].active
  <2>1. DOMAIN named = 1..NamedMax /\ 1..NamedMax \in SUBSET (Nat \ {0})
    BY DEF TablesInv, TablesTypes, NamedTable, TablesSetting
  <2> DEFINE hits == {m \in DOMAIN named : named[m].active /\ ~named[m].unlinked /\ named[m].name = name}
  <2>2. hits \in SUBSET (Nat \ {0}) /\ n = Tables!First(hits)
    BY <1>3, <2>1 DEF Tables!ByName
  <2>3. n \in hits
    BY <1>2, <1>3, <2>2, TablesFirst
  <2> QED
    BY <2>1, <2>3
<1>5. named[n] \in NamedEntry /\ named[n].refcount \in Nat
  BY <1>4 DEF TablesInv, TablesTypes, NamedTable, NamedEntry
<1>6. /\ handles' \in [SemSlots -> Nat] /\ handles'[named[n].slot] = named[n].refcount
      /\ \A r \in SemSlots \ {named[n].slot} : handles'[r] = handles[r]
  BY <1>1, <1>4, Zenon DEF TablesInv, TablesTypes, NamedSound
<1>7. CASE Tables!Unused(named[n])
  <2>1. named' = [named EXCEPT ![n] = Tables!FreeName] /\ Tables!Goto(t, "free", named[n].slot)
    BY <1>2, <1>3, <1>7
  <2>2. t_pc' = [t_pc EXCEPT ![t] = "free"] /\ t_arg' = [t_arg EXCEPT ![t] = named[n].slot]
    BY <2>1 DEF Tables!Goto
  <2>3. handles'[named[n].slot] = 0
    BY <1>6, <1>7 DEF Tables!Unused
  <2> QED
    BY <1>1, <1>4, <1>6, <2>1, <2>2, <2>3, GiveUpStep, Zenon
<1>8. CASE ~Tables!Unused(named[n])
  <2>1. /\ named' = [named EXCEPT ![n] = [named[n] EXCEPT !.unlinked = TRUE]]
        /\ UNCHANGED <<t_pc, t_arg>>
    BY <1>2, <1>3, <1>8
  <2>2. PICK k \in Nat : k = named[n].refcount
    BY <1>5
  <2>3. named' = [named EXCEPT ![n] = [@ EXCEPT !.refcount = k, !.unlinked = TRUE]]
    BY <2>1, <2>2, <1>5, EntryUpdates, Zenon
  <2> QED
    BY <1>1, <1>4, <1>6, <2>1, <2>2, <2>3, EntryStaysStep, Zenon
<1> QED
  BY <1>7, <1>8

\* __jacl_sem_slot_free by a thread that took the entry out.
LEMMA SlotFreeStep ==
  ASSUME TablesSetting, TablesInv, NEW t \in SemThreads, Tables!SlotFree(t)
  PROVE  TablesInv'
<1>1. /\ t_pc[t] = "free" /\ active' = active \ {t_arg[t]}
      /\ t_pc' = [t_pc EXCEPT ![t] = "idle"] /\ t_arg' = [t_arg EXCEPT ![t] = 0]
      /\ UNCHANGED <<named, semsets, anon, handles>>
  BY DEF Tables!SlotFree, Tables!Goto
<1>2. PICK s : s = t_arg[t]
  OBVIOUS
<1>3. /\ t_pc'[t] = "idle"
      /\ \A u \in SemThreads \ {t} : t_pc'[u] = t_pc[u] /\ t_arg'[u] = t_arg[u]
  BY <1>1 DEF TablesInv, TablesTypes
<1>4. TablesTypes'
  BY <1>1 DEF TablesInv, TablesTypes
<1>5. \A r \in SemSlots : NamedAt(r)' = NamedAt(r) /\ SetsAt(r)' = SetsAt(r)
  BY <1>1, Zenon DEF NamedAt, SetsAt
<1>6. \A r \in SemSlots \ {s} : FreersAt(r)' = FreersAt(r)
  BY <1>2, <1>3 DEF FreersAt
<1>7. ASSUME s \in SemSlots PROVE Owned(s)'
  <2>1. t \in FreersAt(s) /\ Owned(s)
    BY <1>1, <1>2, <1>7 DEF FreersAt, TablesInv
  <2>2. FreersAt(s) = {t} /\ s \notin anon /\ NamedAt(s) = {} /\ SetsAt(s) = {}
    BY <2>1 DEF Owned, OneOf
  <2>3. FreersAt(s)' = {}
    BY <2>2, <1>3 DEF FreersAt
  <2> QED
    BY <1>1, <1>2, <1>5, <1>7, <2>2, <2>3 DEF Owned
<1>8. \A r \in SemSlots : Owned(r)'
  <2>1. \A r \in SemSlots \ {s} : Owned(r)'
    BY <1>1, <1>2, <1>5, <1>6 DEF Owned, TablesInv
  <2> QED
    BY <2>1, <1>7
<1>9. NamedSound'
  BY <1>1, Zenon DEF NamedSound, NamedAt, NameLinked, TablesInv
<1>10. RemoversSound'
  BY <1>1, <1>3 DEF RemoversSound, TablesInv
<1> QED
  BY <1>4, <1>8, <1>9, <1>10 DEF TablesInv

\* semget
LEMMA SemGetStep ==
  ASSUME TablesSetting, TablesInv, NEW t \in SemThreads, Tables!SemGet(t)
  PROVE  TablesInv'
<1>1. UNCHANGED <<named, anon, handles, t_pc, t_arg>>
  BY DEF Tables!SemGet
<1> DEFINE free == Tables!First({k \in DOMAIN semsets : ~semsets[k].active})
<1>2. PICK key \in Keys \cup {Private}, nsems \in Sizes :
        \/ active' = active /\ semsets' = semsets
        \/ /\ free # 0
           /\ active' = active \cup Tables!Lowest(nsems)
           /\ semsets' = [semsets EXCEPT ![free] =
                [active |-> TRUE, key |-> key, slots |-> Tables!Lowest(nsems)]]
  BY Zenon DEF Tables!SemGet, Tables!GiveBack
<1>3. CASE active' = active /\ semsets' = semsets
  BY <1>1, <1>3, NothingChanges
<1>4. CASE /\ free # 0
           /\ active' = active \cup Tables!Lowest(nsems)
           /\ semsets' = [semsets EXCEPT ![free] =
                [active |-> TRUE, key |-> key, slots |-> Tables!Lowest(nsems)]]
  <2>1. PICK f \in 1..SetMax : f = free /\ ~semsets[f].active
    <3>1. DOMAIN semsets = 1..SetMax /\ 1..SetMax \in SUBSET (Nat \ {0})
      BY DEF TablesInv, TablesTypes, SetTable, TablesSetting
    <3> DEFINE hits == {k \in DOMAIN semsets : ~semsets[k].active}
    <3>2. hits \in SUBSET (Nat \ {0})
      BY <3>1
    <3>3. free \in hits
      BY <1>4, <3>2, TablesFirst, Zenon
    <3> QED
      BY <3>1, <3>3, Zenon
  <2>2. PICK S \in SUBSET (SemSlots \ active) : S = Tables!Lowest(nsems)
    BY Zenon DEF Tables!Lowest
  <2>3. /\ active' = active \cup S
        /\ semsets' = [semsets EXCEPT ![f] = [active |-> TRUE, key |-> key, slots |-> S]]
    BY <1>4, <2>1, <2>2, Zenon
  <2>4. /\ semsets'[f] = [active |-> TRUE, key |-> key, slots |-> S]
        /\ \A m \in 1..SetMax \ {f} : semsets'[m] = semsets[m]
    BY <2>3 DEF TablesInv, TablesTypes, SetTable
  <2>5. TablesTypes'
    <3>1. semsets' \in SetTable
      BY <2>3 DEF TablesInv, TablesTypes, SetTable
    <3> QED
      BY <1>1, <2>3, <3>1, Zenon DEF TablesInv, TablesTypes
  <2>6. \A r \in SemSlots : NamedAt(r)' = NamedAt(r) /\ FreersAt(r)' = FreersAt(r)
    BY <1>1, Zenon DEF NamedAt, FreersAt
  <2>7. \A r \in SemSlots : SetsAt(r)' = IF r \in S THEN SetsAt(r) \cup {f} ELSE SetsAt(r)
    <3> SUFFICES ASSUME NEW r \in SemSlots
                 PROVE  SetsAt(r)' = IF r \in S THEN SetsAt(r) \cup {f} ELSE SetsAt(r)
      OBVIOUS
    <3>1. \A m \in 1..SetMax \ {f} :
            (semsets'[m].active /\ r \in semsets'[m].slots) <=> (semsets[m].active /\ r \in semsets[m].slots)
      BY <2>4, Zenon
    <3>2. (semsets'[f].active /\ r \in semsets'[f].slots) <=> r \in S
      <4> DEFINE entry == [active |-> TRUE, key |-> key, slots |-> S]
      <4>0. entry.active /\ entry.slots = S /\ semsets'[f] = entry
        BY <2>4, Zenon
      <4> HIDE DEF entry
      <4>1. semsets'[f].active /\ semsets'[f].slots = S
        BY <4>0, Zenon
      <4> QED
        BY <4>1, Zenon
    <3>3. ~semsets[f].active
      BY <2>1
    <3> QED
      BY <3>1, <3>2, <3>3, Zenon DEF SetsAt
  <2>8. \A r \in SemSlots : Owned(r)'
    <3> SUFFICES ASSUME NEW r \in SemSlots PROVE Owned(r)'
      OBVIOUS
    <3>1. Owned(r)
      BY DEF TablesInv
    <3>2. CASE r \in S
      BY <1>1, <2>3, <2>6, <2>7, <3>1, <3>2, Zenon DEF Owned, OneOf
    <3>3. CASE r \notin S
      BY <1>1, <2>3, <2>6, <2>7, <3>1, <3>3, Zenon DEF Owned
    <3> QED
      BY <3>2, <3>3
  <2>9. NamedSound'
    BY <1>1, Zenon DEF NamedSound, NamedAt, NameLinked, TablesInv
  <2>10. RemoversSound'
    BY <1>1, <2>1, <2>4, Zenon DEF RemoversSound, TablesInv
  <2> QED
    BY <2>5, <2>8, <2>9, <2>10 DEF TablesInv
<1> QED
  BY <1>2, <1>3, <1>4, Zenon

\* semctl with IPC_RMID, up to the lock.
LEMMA SemCtlStep ==
  ASSUME TablesSetting, TablesInv, NEW t \in SemThreads, Tables!SemCtl(t)
  PROVE  TablesInv'
<1>1. t_pc[t] = "idle" /\ UNCHANGED <<active, named, semsets, anon, handles>>
  BY Zenon DEF Tables!SemCtl, Tables!Begin
<1>2. PICK n \in 1..SetMax :
        /\ semsets[n].active
        /\ \A u \in SemThreads : ~(t_pc[u] = "rmid" /\ t_arg[u] = n)
        /\ t_pc' = [t_pc EXCEPT ![t] = "rmid"] /\ t_arg' = [t_arg EXCEPT ![t] = n]
  BY Zenon DEF Tables!SemCtl, Tables!Goto, TablesSetting
<1>3. /\ t_pc'[t] = "rmid" /\ t_arg'[t] = n
      /\ \A u \in SemThreads \ {t} : t_pc'[u] = t_pc[u] /\ t_arg'[u] = t_arg[u]
  BY <1>2 DEF TablesInv, TablesTypes
<1>4. TablesTypes'
  BY <1>1, <1>2 DEF TablesInv, TablesTypes, TablesSetting
<1>5. \A r \in SemSlots : NamedAt(r)' = NamedAt(r) /\ SetsAt(r)' = SetsAt(r) /\ FreersAt(r)' = FreersAt(r)
  BY <1>1, <1>3, Zenon DEF NamedAt, SetsAt, FreersAt
<1>6. NamedSound'
  BY <1>1, Zenon DEF NamedSound, NamedAt, NameLinked, TablesInv
<1>7. RemoversSound'
  <2>1. RemoversSound
    BY DEF TablesInv
  <2>2. \A u \in SemThreads :
          t_pc'[u] = "rmid" => u = t \/ (t_pc[u] = "rmid" /\ t_arg'[u] = t_arg[u] /\ t_arg[u] # n)
    BY <1>2, <1>3
  <2>3. \A u \in SemThreads : t_pc'[u] = "rmid" => t_arg'[u] \in 1..SetMax /\ semsets'[t_arg'[u]].active
    BY <1>1, <1>2, <1>3, <2>1, <2>2, Zenon DEF RemoversSound
  <2>4. \A u, v \in SemThreads :
          t_pc'[u] = "rmid" /\ t_pc'[v] = "rmid" /\ t_arg'[u] = t_arg'[v] => u = v
    BY <1>3, <2>1, <2>2, Zenon DEF RemoversSound
  <2> QED
    BY <2>3, <2>4, Zenon DEF RemoversSound
<1> QED
  BY <1>1, <1>4, <1>5, <1>6, <1>7 DEF TablesInv, Owned

\* __jacl_semctl_rmid
LEMMA RmidStep ==
  ASSUME TablesSetting, TablesInv, NEW t \in SemThreads, Tables!Rmid(t)
  PROVE  TablesInv'
<1>1. /\ t_pc[t] = "rmid" /\ active' = active \ semsets[t_arg[t]].slots
      /\ semsets' = [semsets EXCEPT ![t_arg[t]].active = FALSE]
      /\ t_pc' = [t_pc EXCEPT ![t] = "idle"] /\ t_arg' = [t_arg EXCEPT ![t] = 0]
      /\ UNCHANGED <<named, anon, handles>>
  BY DEF Tables!Rmid, Tables!Goto
<1>2. PICK n \in 1..SetMax : n = t_arg[t] /\ semsets[n].active
  BY <1>1 DEF TablesInv, RemoversSound
<1>3. PICK S \in SUBSET SemSlots : S = semsets[n].slots
  BY DEF TablesInv, TablesTypes, SetTable
<1>4. /\ t_pc'[t] = "idle"
      /\ \A u \in SemThreads \ {t} : t_pc'[u] = t_pc[u] /\ t_arg'[u] = t_arg[u]
  BY <1>1 DEF TablesInv, TablesTypes
<1>5. ~semsets'[n].active /\ \A m \in 1..SetMax \ {n} : semsets'[m] = semsets[m]
  BY <1>1, <1>2 DEF TablesInv, TablesTypes, SetTable
<1>6. TablesTypes'
  <2>1. semsets' \in SetTable
    <3>1. [semsets[n] EXCEPT !.active = FALSE] \in
            [active : BOOLEAN, key : Keys \cup {Private, None}, slots : SUBSET SemSlots]
      BY Zenon DEF TablesInv, TablesTypes, SetTable
    <3>2. semsets' = [semsets EXCEPT ![n] = [semsets[n] EXCEPT !.active = FALSE]]
      BY <1>1, <1>2
    <3> QED
      BY <3>1, <3>2, Zenon DEF TablesInv, TablesTypes, SetTable
  <2> QED
    BY <1>1, <2>1 DEF TablesInv, TablesTypes
<1>7. \A r \in SemSlots : NamedAt(r)' = NamedAt(r) /\ FreersAt(r)' = FreersAt(r)
  BY <1>1, <1>4 DEF NamedAt, FreersAt
<1>8. \A r \in SemSlots : SetsAt(r)' = SetsAt(r) \ {n} /\ (n \in SetsAt(r) <=> r \in S)
  BY <1>2, <1>3, <1>5, Zenon DEF SetsAt
<1>9. \A r \in SemSlots : Owned(r)'
  <2> SUFFICES ASSUME NEW r \in SemSlots PROVE Owned(r)'
    OBVIOUS
  <2>1. Owned(r)
    BY DEF TablesInv
  <2>2. CASE r \in S
    BY <1>1, <1>2, <1>3, <1>7, <1>8, <2>1, <2>2 DEF Owned, OneOf
  <2>3. CASE r \notin S
    <3>1. SetsAt(r)' = SetsAt(r) /\ (r \in active' <=> r \in active) /\ anon' = anon
      BY <1>1, <1>2, <1>3, <1>8, <2>3, Zenon
    <3> QED
      BY <1>7, <2>1, <3>1 DEF Owned
  <2> QED
    BY <2>2, <2>3
<1>10. NamedSound'
  BY <1>1 DEF NamedSound, NamedAt, NameLinked, TablesInv
<1>11. RemoversSound'
  <2>1. \A u \in SemThreads : t_pc'[u] = "rmid" => u # t /\ t_pc[u] = "rmid" /\ t_arg'[u] = t_arg[u]
    BY <1>4
  <2>2. \A u \in SemThreads : t_pc'[u] = "rmid" => t_arg[u] \in 1..SetMax \ {n} /\ semsets[t_arg[u]].active
    BY <1>1, <1>2, <2>1 DEF TablesInv, RemoversSound
  <2> QED
    <3>1. \A u, v \in SemThreads :
            t_pc[u] = "rmid" /\ t_pc[v] = "rmid" /\ t_arg[u] = t_arg[v] => u = v
      BY Zenon DEF TablesInv, RemoversSound
    <3>2. \A u \in SemThreads : t_pc'[u] = "rmid" => t_arg'[u] \in 1..SetMax /\ semsets'[t_arg'[u]].active
      BY <1>5, <2>1, <2>2, Zenon
    <3>3. \A u, v \in SemThreads :
            t_pc'[u] = "rmid" /\ t_pc'[v] = "rmid" /\ t_arg'[u] = t_arg'[v] => u = v
      BY <2>1, <3>1, Zenon
    <3> QED
      BY <3>2, <3>3, Zenon DEF RemoversSound
<1> QED
  BY <1>6, <1>9, <1>10, <1>11 DEF TablesInv

\* The slots, names, sets and handles stay as TablesInv says, through every call.
THEOREM TablesInvariance ==
  ASSUME TablesSetting
  PROVE  Tables!Spec => []TablesInv
<1>1. Tables!Init => TablesInv
  <2> SUFFICES ASSUME Tables!Init PROVE TablesInv
    OBVIOUS
  <2>1. TablesTypes
    BY Zenon DEF Tables!Init, TablesTypes, NamedTable, NamedEntry, SetTable, Tables!FreeName, Tables!FreeSet
  <2>2. /\ \A n \in 1..NamedMax : ~named[n].active
        /\ \A n \in 1..SetMax : ~semsets[n].active
    BY Zenon DEF Tables!Init, Tables!FreeName, Tables!FreeSet
  <2>3. \A s \in SemSlots : NamedAt(s) = {} /\ SetsAt(s) = {} /\ FreersAt(s) = {}
    BY <2>2, Zenon DEF NamedAt, SetsAt, FreersAt, Tables!Init
  <2>4. NamedSound /\ RemoversSound
    <3>1. NamedSound
      <4>1. \A s \in SemSlots : ~(handles[s] > 0)
        BY DEF Tables!Init
      <4> QED
        BY <2>2, <4>1, Zenon DEF NamedSound, NameLinked
    <3>2. RemoversSound
      BY Zenon DEF RemoversSound, Tables!Init
    <3> QED
      BY <3>1, <3>2
  <2> QED
    BY <2>1, <2>3, <2>4 DEF Tables!Init, TablesInv, Owned
<1>2. TablesInv /\ [Tables!Next]_(Tables!vars) => TablesInv'
  <2> SUFFICES ASSUME TablesInv, [Tables!Next]_(Tables!vars) PROVE TablesInv'
    OBVIOUS
  <2>1. CASE UNCHANGED Tables!vars
    BY <2>1, NothingChanges DEF Tables!vars
  <2> QED
    BY <2>1, SemInitStep, SemDestroyStep, SemOpenStep, SemCloseStep, SemUnlinkStep,
       SlotFreeStep, SemGetStep, SemCtlStep, RmidStep DEF Tables!Next
<1> QED
  BY <1>1, <1>2, PTL DEF Tables!Spec

\* Cardinality means the same in the instance.
LEMMA TablesCardinality == \A S : Tables!Cardinality(S) = Cardinality(S)
  BY DEF Tables!Cardinality, Cardinality

\* Owners of the four kinds, one in all.
LEMMA OwnersCounted ==
  ASSUME TablesSetting, NEW s \in SemSlots, Owned(s)
  PROVE  Cardinality(Tables!Owners(s)) = IF s \in active THEN 1 ELSE 0
<1> DEFINE A == {<<"anon", s>> : x \in {s} \cap anon}
           N == {<<"named", n>> : n \in NamedAt(s)}
           S == {<<"set", n>> : n \in SetsAt(s)}
           F == {<<"free", t>> : t \in FreersAt(s)}
<1>1. Tables!Owners(s) = A \cup N \cup S \cup F
  BY Zenon DEF Tables!Owners, NamedAt, SetsAt, FreersAt
<1>2. /\ A = IF s \in anon THEN {<<"anon", s>>} ELSE {}
      /\ NamedAt(s) = {} => N = {}
      /\ SetsAt(s) = {} => S = {}
      /\ FreersAt(s) = {} => F = {}
      /\ \A n : NamedAt(s) = {n} => N = {<<"named", n>>}
      /\ \A n : SetsAt(s) = {n} => S = {<<"set", n>>}
      /\ \A t : FreersAt(s) = {t} => F = {<<"free", t>>}
  BY Zenon
<1> HIDE DEF A, N, S, F
<1>3. CASE s \notin active
  <2>1. Tables!Owners(s) = {}
    BY <1>1, <1>2, <1>3, Zenon DEF Owned
  <2> QED
    BY <1>3, <2>1, FS_EmptySet
<1>4. CASE s \in active
  <2>1. OneOf(s \in anon, NamedAt(s), SetsAt(s), FreersAt(s))
    BY <1>4 DEF Owned
  <2>2. \E o : Tables!Owners(s) = {o}
    <3>1. CASE s \in anon /\ NamedAt(s) = {} /\ SetsAt(s) = {} /\ FreersAt(s) = {}
      <4>1. Tables!Owners(s) = {<<"anon", s>>}
        BY <1>1, <1>2, <3>1
      <4> QED
        BY <4>1, Zenon
    <3>2. CASE s \notin anon /\ (\E n : NamedAt(s) = {n}) /\ SetsAt(s) = {} /\ FreersAt(s) = {}
      <4>1. PICK n : NamedAt(s) = {n}
        BY <3>2
      <4>2. Tables!Owners(s) = {<<"named", n>>}
        BY <1>1, <1>2, <3>2, <4>1
      <4> QED
        BY <4>2, Zenon
    <3>3. CASE s \notin anon /\ NamedAt(s) = {} /\ (\E n : SetsAt(s) = {n}) /\ FreersAt(s) = {}
      <4>1. PICK n : SetsAt(s) = {n}
        BY <3>3
      <4>2. Tables!Owners(s) = {<<"set", n>>}
        BY <1>1, <1>2, <3>3, <4>1
      <4> QED
        BY <4>2, Zenon
    <3>4. CASE s \notin anon /\ NamedAt(s) = {} /\ SetsAt(s) = {} /\ (\E t : FreersAt(s) = {t})
      <4>1. PICK t : FreersAt(s) = {t}
        BY <3>4
      <4>2. Tables!Owners(s) = {<<"free", t>>}
        BY <1>1, <1>2, <3>4, <4>1
      <4> QED
        BY <4>2, Zenon
    <3> QED
      BY <2>1, <3>1, <3>2, <3>3, <3>4, Zenon DEF OneOf
  <2> QED
    BY <1>4, <2>2, FS_Singleton
<1> QED
  BY <1>3, <1>4

\* Every slot in use belongs to one semaphore, whatever sem_init, sem_open,
\* sem_close, sem_unlink, semget and semctl do at once, and a handle of sem_open
\* leads to a registered semaphore; with one caller of IPC_RMID for a set.
THEOREM SlotsHaveOneOwner ==
  ASSUME TablesSetting
  PROVE  Tables!Spec => [](Tables!OneOwner /\ Tables!NamedLives)
<1>1. TablesInv => Tables!OneOwner
  BY OwnersCounted, TablesCardinality DEF TablesInv, Tables!OneOwner
<1>2. TablesInv => Tables!NamedLives
  <2> SUFFICES ASSUME TablesInv PROVE Tables!NamedLives
    OBVIOUS
  <2>1. ASSUME NEW s \in SemSlots, handles[s] > 0
        PROVE  s \in active /\ Tables!BySlot(s) # 0 /\ named[Tables!BySlot(s)].refcount = handles[s]
    <3>1. DOMAIN named = 1..NamedMax /\ NamedAt(s) \in SUBSET (Nat \ {0}) /\ NamedAt(s) # {}
      <4>1. DOMAIN named = 1..NamedMax
        BY DEF TablesInv, TablesTypes, NamedTable
      <4>2. NamedAt(s) \in SUBSET (1..NamedMax)
        BY Zenon DEF NamedAt
      <4>3. 1..NamedMax \in SUBSET (Nat \ {0})
        BY DEF TablesSetting
      <4>4. NamedAt(s) # {}
        BY <2>1, Zenon DEF TablesInv, NamedSound
      <4> QED
        BY <4>1, <4>2, <4>3, <4>4, Zenon
    <3>2. Tables!BySlot(s) = Tables!First(NamedAt(s))
      BY <3>1 DEF Tables!BySlot, NamedAt
    <3>3. PICK n : n = Tables!BySlot(s) /\ n \in NamedAt(s) /\ n # 0
      BY <3>1, <3>2, TablesFirst
    <3>4. n \in 1..NamedMax /\ named[n].active /\ named[n].slot = s
      BY <3>3 DEF NamedAt
    <3>5. s \in active /\ named[n].refcount = handles[s]
      BY <3>4, OneEntry, Zenon DEF TablesInv, NamedSound
    <3> QED
      BY <3>3, <3>5
  <2> QED
    BY <2>1, Zenon DEF Tables!NamedLives, TablesInv, NamedSound, NameLinked
<1> QED
  BY <1>1, <1>2, TablesInvariance, PTL
=============================================================================
