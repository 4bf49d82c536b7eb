--------------------------- MODULE JaclForkProofs ---------------------------
(***************************************************************************)
(* Proofs about fork against the allocator's locks, for any number of      *)
(* threads and of locks and any width of the counters that is large enough *)
(* for the threads.                                                        *)
(***************************************************************************)
EXTENDS JaclFork, FiniteSetTheorems, TLAPS

-----------------------------------------------------------------------------
(* The locks that fork takes. *)

\* A counter of Width values goes from the last one to zero.
LEMMA Wraps ==
  ASSUME ForkSetting, NEW n \in 0..(ForkWidth - 1)
  PROVE  (n + 1) % ForkWidth = IF n = ForkWidth - 1 THEN 0 ELSE n + 1
  BY FS_CardinalityType DEF ForkSetting

\* The tickets of one lock, and the number k of tickets after a.
Tks == 0..(ForkWidth - 1)
Succ(n) == IF n = ForkWidth - 1 THEN 0 ELSE n + 1
Plus(a, k) == IF a + k < ForkWidth THEN a + k ELSE (a + k) - ForkWidth
Dist(a, b) == IF b >= a THEN b - a ELSE (b + ForkWidth) - a

Parents == Mallocs \cup {Forker}

\* A lock with next ticket n that serves ticket o, the set H of threads that hold
\* it and the set W of threads that wait with the tickets tk: one holder at most,
\* and the waiters' tickets lie between the one served and the next one, each once.
LockSound(n, o, W, H, tk) ==
  /\ n \in Tks /\ o \in Tks
  /\ W \subseteq Parents /\ H \subseteq Parents /\ W \cap H = {}
  /\ \A t, u \in H : t = u
  /\ n = Plus(o, Cardinality(W \cup H))
  /\ \A t \in W : tk[t] \in Tks /\ Dist(o, tk[t]) < Cardinality(W \cup H)
  /\ \A t, u \in W : tk[t] = tk[u] => t = u
  /\ \A t \in W : H # {} => tk[t] # o

\* There are no more threads than tickets to give them.
LEMMA ParentsFinite ==
  ASSUME ForkSetting, NEW S, S \subseteq Parents
  PROVE  IsFiniteSet(S) /\ Cardinality(S) \in Nat /\ Cardinality(S) <= ForkWidth
<1>1. IsFiniteSet(Parents) /\ Cardinality(Parents) = Cardinality(Mallocs) + 1
  BY FS_AddElement DEF Parents, ForkSetting
<1>2. Cardinality(Mallocs) \in Nat
  BY FS_CardinalityType DEF ForkSetting
<1>3. IsFiniteSet(S) /\ Cardinality(S) <= Cardinality(Parents) /\ Cardinality(S) \in Nat
  BY <1>1, FS_Subset, FS_CardinalityType
<1> QED
  BY <1>1, <1>2, <1>3 DEF ForkSetting

\* Counting round.
LEMMA RoundFork ==
  ASSUME ForkSetting, NEW a \in Tks, NEW b \in Tks, NEW k \in Nat, k <= ForkWidth
  PROVE  /\ Succ(a) \in Tks
         /\ Dist(a, b) \in Nat /\ Dist(a, b) < ForkWidth
         /\ Dist(a, b) = 0 => a = b
         /\ k < ForkWidth => Dist(a, Plus(a, k)) = k
         /\ k < ForkWidth => Succ(Plus(a, k)) = Plus(a, k + 1)
         /\ k > 0 => Plus(Succ(a), k - 1) = Plus(a, k)
         /\ a # b => Dist(Succ(a), b) = Dist(a, b) - 1
  BY DEF Tks, Succ, Plus, Dist, ForkSetting

\* __jacl_memlock_acquire takes a ticket nobody has.
LEMMA TakeSound ==
  ASSUME ForkSetting, NEW n, NEW o, NEW W, NEW H, NEW tk, NEW tk2, LockSound(n, o, W, H, tk),
         NEW t \in Parents, t \notin W \cup H,
         tk2[t] = n, \A u \in W : tk2[u] = tk[u]
  PROVE  LockSound(Succ(n), o, W \cup {t}, H, tk2)
<1> DEFINE S == W \cup H
           k == Cardinality(S)
<1>1. /\ IsFiniteSet(S) /\ k \in Nat
      /\ Cardinality((W \cup {t}) \cup H) = k + 1 /\ k + 1 <= ForkWidth
  <2>1. S \subseteq Parents /\ (W \cup {t}) \cup H = S \cup {t}
    BY DEF LockSound
  <2> HIDE DEF S
  <2>2. IsFiniteSet(S) /\ k \in Nat
    BY <2>1, ParentsFinite
  <2>3. Cardinality(S \cup {t}) = k + 1
    <3>1. t \notin S
      BY DEF S
    <3> QED
      BY <2>2, <3>1, FS_AddElement
  <2>4. Cardinality(S \cup {t}) <= ForkWidth
    <3>1. S \cup {t} \subseteq Parents
      BY <2>1
    <3> QED
      BY <3>1, ParentsFinite
  <2> QED
    BY <2>1, <2>2, <2>3, <2>4
<1>2. n \in Tks /\ o \in Tks /\ n = Plus(o, k)
  BY DEF LockSound
<1> HIDE DEF k
<1>3. Succ(n) \in Tks /\ Dist(o, n) = k /\ Succ(n) = Plus(o, k + 1)
  <2>1. k \in Nat /\ k <= ForkWidth /\ k < ForkWidth
    BY <1>1 DEF ForkSetting
  <2> QED
    BY <1>2, <2>1, RoundFork
<1>4. \A u \in W : tk2[u] \in Tks /\ Dist(o, tk2[u]) < k /\ Dist(o, tk2[u]) \in Nat
  <2>1. \A u \in W : tk2[u] \in Tks /\ Dist(o, tk2[u]) < k
    BY DEF LockSound, k
  <2>2. \A b \in Tks : Dist(o, b) \in Nat
    BY <1>2 DEF Tks, Dist, ForkSetting
  <2> QED
    BY <2>1, <2>2
<1>5. \A u \in W : tk2[u] # n
  BY <1>3, <1>4, <1>1
<1>6. \A u \in W \cup {t} : tk2[u] \in Tks /\ Dist(o, tk2[u]) < k + 1
  BY <1>1, <1>2, <1>3, <1>4
<1>7. \A u, v \in W \cup {t} : tk2[u] = tk2[v] => u = v
  BY <1>5 DEF LockSound
<1>8. \A u \in W \cup {t} : H # {} => tk2[u] # o
  <2>1. ASSUME H # {} PROVE n # o
    <3>1. S # {} /\ k # 0
      BY <1>1, <2>1, FS_EmptySet DEF k
    <3>2. Dist(o, o) = 0
      BY <1>2 DEF Dist, Tks, ForkSetting
    <3> QED
      BY <1>3, <3>1, <3>2
  <2> QED
    BY <2>1 DEF LockSound
<1> QED
  BY <1>1, <1>2, <1>3, <1>6, <1>7, <1>8 DEF LockSound

\* Its loop lets in the thread whose ticket is served, and nobody holds the lock.
LEMMA ServeSound ==
  ASSUME ForkSetting, NEW n, NEW o, NEW W, NEW H, NEW tk, LockSound(n, o, W, H, tk),
         NEW t \in W
  PROVE  tk[t] = o => H = {} /\ LockSound(n, o, W \ {t}, H \cup {t}, tk)
<1> HAVE tk[t] = o
<1>1. H = {}
  BY DEF LockSound
<1>2. (W \ {t}) \cup (H \cup {t}) = W \cup H
  OBVIOUS
<1> QED
  BY <1>1, <1>2 DEF LockSound

\* __jacl_memlock_release serves the next ticket.
LEMMA ReleaseSound ==
  ASSUME ForkSetting, NEW n, NEW o, NEW W, NEW H, NEW tk, LockSound(n, o, W, H, tk), NEW t \in H
  PROVE  LockSound(n, Succ(o), W, H \ {t}, tk)
<1> DEFINE S == W \cup H
           k == Cardinality(S)
<1>1. H = {t} /\ H \ {t} = {} /\ t \notin W
  BY DEF LockSound
<1>2. Cardinality(W \cup (H \ {t})) = k - 1 /\ k \in Nat /\ k > 0 /\ k <= ForkWidth
  <2>1. S \subseteq Parents /\ W \cup (H \ {t}) = S \ {t} /\ t \in S
    BY <1>1 DEF LockSound
  <2> HIDE DEF S
  <2>2. IsFiniteSet(S) /\ k \in Nat /\ k <= ForkWidth
    BY <2>1, ParentsFinite
  <2>3. Cardinality(S \ {t}) = k - 1
    BY <2>1, <2>2, FS_RemoveElement
  <2>4. Cardinality(S \ {t}) \in Nat
    <3>1. S \ {t} \subseteq Parents
      BY <2>1
    <3> QED
      BY <3>1, ParentsFinite
  <2>5. k > 0
    <3> HIDE DEF k
    <3> QED
      BY <2>2, <2>3, <2>4
  <2> QED
    BY <2>1, <2>2, <2>3, <2>5
<1>3. n \in Tks /\ o \in Tks /\ n = Plus(o, k)
  BY DEF LockSound
<1>4. \A u \in W : tk[u] \in Tks /\ Dist(o, tk[u]) < k /\ tk[u] # o
  BY <1>1 DEF LockSound
<1> HIDE DEF k
<1>5. Succ(o) \in Tks /\ n = Plus(Succ(o), k - 1)
  BY <1>2, <1>3, RoundFork
<1>6. \A u \in W : Dist(Succ(o), tk[u]) < k - 1
  <2> SUFFICES ASSUME NEW u \in W PROVE Dist(Succ(o), tk[u]) < k - 1
    OBVIOUS
  <2>1. Dist(Succ(o), tk[u]) = Dist(o, tk[u]) - 1 /\ Dist(o, tk[u]) \in Nat
    BY <1>2, <1>3, <1>4, RoundFork
  <2> QED
    BY <1>2, <1>4, <2>1
<1> QED
  BY <1>1, <1>2, <1>3, <1>4, <1>5, <1>6 DEF LockSound

\* The tickets of threads that do not wait for the lock do not matter.
LEMMA TicketsOfOthers ==
  ASSUME ForkSetting, NEW n, NEW o, NEW W, NEW H, NEW tk, NEW tk2, LockSound(n, o, W, H, tk),
         \A u \in W : tk2[u] = tk[u]
  PROVE  LockSound(n, o, W, H, tk2)
  BY DEF LockSound

-----------------------------------------------------------------------------
\* What a parent's thread has of lock l: it waits there with its ticket, or holds
\* it.  fork holds the locks up to the one it takes, and later from the one it
\* releases; malloc holds its bin, and the growth lock while it links a segment.
WaitsAt(t, l) == f_pc[t] = "spin" /\ f_cur[t] = l

HoldsAt(t, l) ==
  IF t = Forker
  THEN \/ f_pc[t] = "spin" /\ l < f_cur[t]
       \/ f_pc[t] = "block" /\ l <= f_cur[t]
       \/ f_pc[t] = "fork"
       \/ f_pc[t] = "clear" /\ f_cur[t] <= l
  ELSE f_bin[t] = l \/ (f_pc[t] = "link" /\ l = Growth)

WaitSet(l) == {t \in Parents : WaitsAt(t, l)}
HoldSet(l) == {t \in Parents : HoldsAt(t, l)}

LocksSound ==
  \A l \in Locks :
    LockSound(f_next["parent"][l], f_owner["parent"][l], WaitSet(l), HoldSet(l), f_ticket)

ForkDomains ==
  /\ DOMAIN f_pc = All /\ DOMAIN f_cur = All
  /\ DOMAIN f_ticket = All /\ DOMAIN f_bin = All
  /\ DOMAIN f_next = {"parent", "child"} /\ DOMAIN f_next["parent"] = Locks
  /\ DOMAIN f_owner = {"parent", "child"} /\ DOMAIN f_owner["parent"] = Locks

\* Where a malloc of the parent can be, and whether it has a bin there.
MallocShape(t) ==
  /\ f_pc[t] \in {"idle", "spin", "alloc", "link", "done"}
  /\ f_bin[t] \in 0..Bins
  /\ f_pc[t] = "idle" => f_bin[t] = 0
  /\ f_pc[t] \in {"alloc", "link", "done"} => f_bin[t] # 0
  /\ f_pc[t] = "spin" => (f_bin[t] # 0 <=> f_cur[t] = Growth)

ForkShape ==
  /\ ForkDomains
  /\ \A t \in Parents : f_cur[t] \in Locks
  /\ f_pc[Forker] \in {"idle", "spin", "block", "fork", "clear"}
  /\ \A t \in Mallocs : MallocShape(t)

ForkInv == ForkShape /\ LocksSound

\* What a step of t leaves alone: the other threads of the parent.
OthersSame(t) ==
  \A u \in Parents \ {t} :
    /\ f_pc'[u] = f_pc[u] /\ f_cur'[u] = f_cur[u]
    /\ f_bin'[u] = f_bin[u] /\ f_ticket'[u] = f_ticket[u]

\* Then the sets of lock l change by t only, and as t does.
Moves(t, l) ==
  /\ t \in WaitSet(l) <=> WaitsAt(t, l)
  /\ t \in HoldSet(l) <=> HoldsAt(t, l)
  /\ WaitSet(l)' = IF WaitsAt(t, l)' THEN WaitSet(l) \cup {t} ELSE WaitSet(l) \ {t}
  /\ HoldSet(l)' = IF HoldsAt(t, l)' THEN HoldSet(l) \cup {t} ELSE HoldSet(l) \ {t}

\* A step of t leaves the tickets and places of the other threads alone.
LEMMA OthersKept ==
  ASSUME ForkSetting, NEW t \in Parents, OthersSame(t), NEW l
  PROVE  Moves(t, l)
<1>1. \A u \in Parents \ {t} :
        (WaitsAt(u, l)' <=> WaitsAt(u, l)) /\ (HoldsAt(u, l)' <=> HoldsAt(u, l))
  BY DEF OthersSame, WaitsAt, HoldsAt
<1>2. WaitSet(l)' = {u \in Parents : WaitsAt(u, l)'}
  BY DEF WaitSet
<1>3. HoldSet(l)' = {u \in Parents : HoldsAt(u, l)'}
  BY DEF HoldSet
<1>4. WaitSet(l)' = IF WaitsAt(t, l)' THEN WaitSet(l) \cup {t} ELSE WaitSet(l) \ {t}
  BY <1>1, <1>2 DEF WaitSet
<1>5. HoldSet(l)' = IF HoldsAt(t, l)' THEN HoldSet(l) \cup {t} ELSE HoldSet(l) \ {t}
  BY <1>1, <1>3 DEF HoldSet
<1> QED
  BY <1>4, <1>5 DEF Moves, WaitSet, HoldSet

\* A thread of the parent takes a ticket of lock m.
LEMMA TakeStep ==
  ASSUME ForkSetting, ForkShape, LocksSound, NEW t \in Parents, NEW m \in Locks, OthersSame(t),
         f_pc[t] # "spin", ~HoldsAt(t, m), \A l \in Locks : HoldsAt(t, l)' <=> HoldsAt(t, l),
         f_pc'[t] = "spin", f_cur'[t] = m, f_ticket'[t] = f_next["parent"][m],
         f_owner'["parent"] = f_owner["parent"],
         f_next'["parent"] = [f_next["parent"] EXCEPT ![m] = (@ + 1) % ForkWidth]
  PROVE  LocksSound'
<1> SUFFICES ASSUME NEW l \in Locks
             PROVE  LockSound(f_next'["parent"][l], f_owner'["parent"][l],
                              WaitSet(l)', HoldSet(l)', f_ticket')
  BY DEF LocksSound
<1>0. LockSound(f_next["parent"][l], f_owner["parent"][l], WaitSet(l), HoldSet(l), f_ticket)
  BY DEF LocksSound
<1> Moves(t, l)
  BY OthersKept
<1>1. t \notin WaitSet(l) /\ HoldSet(l)' = HoldSet(l)
  BY DEF Moves, WaitsAt
<1>2. \A u \in WaitSet(l) : f_ticket'[u] = f_ticket[u]
  BY <1>1 DEF OthersSame, WaitSet
<1>3. CASE l = m
  <2>1. WaitSet(l)' = WaitSet(l) \cup {t} /\ t \notin HoldSet(l)
    BY <1>1, <1>3 DEF Moves, WaitsAt
  <2>2. f_next'["parent"][l] = Succ(f_next["parent"][l])
    <3>1. f_next["parent"][l] \in 0..(ForkWidth - 1)
      BY <1>0 DEF LockSound, Tks
    <3>2. f_next'["parent"][l] = (f_next["parent"][l] + 1) % ForkWidth
      BY <1>3 DEF ForkShape, ForkDomains
    <3> QED
      BY <3>1, <3>2, Wraps DEF Succ
  <2> QED
    BY <1>0, <1>1, <1>2, <1>3, <2>1, <2>2, TakeSound
<1>4. CASE l # m
  <2>1. WaitSet(l)' = WaitSet(l)
    BY <1>1, <1>4 DEF Moves, WaitsAt
  <2>2. f_next'["parent"][l] = f_next["parent"][l]
    BY <1>4 DEF ForkShape, ForkDomains
  <2> QED
    BY <1>0, <1>1, <1>2, <2>1, <2>2, TicketsOfOthers
<1> QED
  BY <1>3, <1>4

\* A thread of the parent is let into lock m.
LEMMA ServeStep ==
  ASSUME ForkSetting, LocksSound, NEW t \in Parents, NEW m \in Locks, OthersSame(t),
         WaitsAt(t, m), f_owner["parent"][m] = f_ticket[t], HoldsAt(t, m)',
         \A l \in Locks : l # m => (HoldsAt(t, l)' <=> HoldsAt(t, l)),
         f_pc'[t] # "spin", UNCHANGED <<f_next, f_owner, f_ticket>>
  PROVE  LocksSound'
<1> SUFFICES ASSUME NEW l \in Locks
             PROVE  LockSound(f_next["parent"][l], f_owner["parent"][l],
                              WaitSet(l)', HoldSet(l)', f_ticket)
  BY DEF LocksSound
<1>0. LockSound(f_next["parent"][l], f_owner["parent"][l], WaitSet(l), HoldSet(l), f_ticket)
  BY DEF LocksSound
<1> Moves(t, l)
  BY OthersKept
<1>1. ~WaitsAt(t, l)'
  BY DEF WaitsAt
<1>2. CASE l = m
  <2>1. /\ t \in WaitSet(l)
        /\ WaitSet(l)' = WaitSet(l) \ {t} /\ HoldSet(l)' = HoldSet(l) \cup {t}
    BY <1>1, <1>2 DEF Moves
  <2>2. f_ticket[t] = f_owner["parent"][l]
    BY <1>2
  <2>3. LockSound(f_next["parent"][l], f_owner["parent"][l],
                  WaitSet(l) \ {t}, HoldSet(l) \cup {t}, f_ticket)
    <3> DEFINE n == f_next["parent"][l]
               o == f_owner["parent"][l]
               W == WaitSet(l)
               H == HoldSet(l)
    <3>1. LockSound(n, o, W, H, f_ticket) /\ t \in W /\ f_ticket[t] = o
      BY <1>0, <2>1, <2>2
    <3> HIDE DEF n, o, W, H
    <3>2. LockSound(n, o, W \ {t}, H \cup {t}, f_ticket)
      BY <3>1, ServeSound
    <3> QED
      BY <3>2 DEF n, o, W, H
  <2> QED
    BY <2>1, <2>3
<1>3. CASE l # m
  <2>1. WaitSet(l)' = WaitSet(l) /\ HoldSet(l)' = HoldSet(l)
    <3>1. ~WaitsAt(t, l)
      BY <1>3 DEF WaitsAt
    <3> QED
      BY <1>1, <1>3, <3>1 DEF Moves
  <2> QED
    BY <1>0, <2>1
<1> QED
  BY <1>2, <1>3

\* A thread of the parent releases lock m.
LEMMA ReleaseStep ==
  ASSUME ForkSetting, ForkShape, LocksSound, NEW t \in Parents, NEW m \in Locks, OthersSame(t),
         HoldsAt(t, m), ~HoldsAt(t, m)',
         \A l \in Locks : l # m => (HoldsAt(t, l)' <=> HoldsAt(t, l)),
         f_pc[t] # "spin", f_pc'[t] # "spin", UNCHANGED <<f_next, f_ticket>>,
         f_owner'["parent"] = [f_owner["parent"] EXCEPT ![m] = (@ + 1) % ForkWidth]
  PROVE  LocksSound'
<1> SUFFICES ASSUME NEW l \in Locks
             PROVE  LockSound(f_next["parent"][l], f_owner'["parent"][l],
                              WaitSet(l)', HoldSet(l)', f_ticket)
  BY DEF LocksSound
<1>0. LockSound(f_next["parent"][l], f_owner["parent"][l], WaitSet(l), HoldSet(l), f_ticket)
  BY DEF LocksSound
<1> Moves(t, l)
  BY OthersKept
<1>1. WaitSet(l)' = WaitSet(l)
  BY DEF Moves, WaitsAt
<1>2. CASE l = m
  <2>1. t \in HoldSet(l) /\ HoldSet(l)' = HoldSet(l) \ {t}
    BY <1>2 DEF Moves
  <2>2. f_owner'["parent"][l] = Succ(f_owner["parent"][l])
    <3>1. f_owner["parent"][l] \in 0..(ForkWidth - 1)
      BY <1>0 DEF LockSound, Tks
    <3>2. f_owner'["parent"][l] = (f_owner["parent"][l] + 1) % ForkWidth
      BY <1>2 DEF ForkShape, ForkDomains
    <3> QED
      BY <3>1, <3>2, Wraps DEF Succ
  <2> QED
    BY <1>0, <1>1, <2>1, <2>2, ReleaseSound
<1>3. CASE l # m
  <2>1. HoldSet(l)' = HoldSet(l)
    BY <1>3 DEF Moves
  <2>2. f_owner'["parent"][l] = f_owner["parent"][l]
    BY <1>3 DEF ForkShape, ForkDomains
  <2> QED
    BY <1>0, <1>1, <2>1, <2>2
<1> QED
  BY <1>2, <1>3

\* A step that takes and releases no lock of the parent.
LEMMA StayStep ==
  ASSUME ForkSetting, LocksSound, NEW t \in Parents, OthersSame(t), f_ticket'[t] = f_ticket[t],
         f_next'["parent"] = f_next["parent"], f_owner'["parent"] = f_owner["parent"],
         \A l \in Locks : (WaitsAt(t, l)' <=> WaitsAt(t, l)) /\ (HoldsAt(t, l)' <=> HoldsAt(t, l))
  PROVE  LocksSound'
<1> SUFFICES ASSUME NEW l \in Locks
             PROVE  LockSound(f_next'["parent"][l], f_owner'["parent"][l],
                              WaitSet(l)', HoldSet(l)', f_ticket')
  BY DEF LocksSound
<1>0. LockSound(f_next["parent"][l], f_owner["parent"][l], WaitSet(l), HoldSet(l), f_ticket)
  BY DEF LocksSound
<1> Moves(t, l)
  BY OthersKept
<1>1. WaitSet(l)' = WaitSet(l) /\ HoldSet(l)' = HoldSet(l)
  BY DEF Moves
<1>2. \A u \in WaitSet(l) : f_ticket'[u] = f_ticket[u]
  BY DEF OthersSame, WaitSet
<1> QED
  BY <1>0, <1>1, <1>2, TicketsOfOthers

\* The steps of JaclFork, the parent's threads first.
LEMMA ParentIs ==
  ASSUME ForkSetting, NEW t \in Parents
  PROVE  t \in All /\ Process(t) = "parent" /\ (t # Forker <=> t \in Mallocs)
  BY DEF Parents, All, Process, ForkSetting

\* What the fetch-and-add of __jacl_memlock_acquire changes.
LEMMA TakesIn ==
  ASSUME ForkSetting, ForkDomains, NEW t \in Parents, NEW m \in Locks, Acquire(t, m)
  PROVE  /\ ForkDomains' /\ OthersSame(t)
         /\ f_pc'[t] = "spin" /\ f_cur'[t] = m /\ f_bin' = f_bin
         /\ f_ticket'[t] = f_next["parent"][m]
         /\ f_owner' = f_owner
         /\ f_next'["parent"] = [f_next["parent"] EXCEPT ![m] = (@ + 1) % ForkWidth]
<1>1. t \in All /\ Process(t) = "parent" /\ Parents \subseteq All
  BY ParentIs DEF Parents, All
<1>2. /\ f_next' = [f_next EXCEPT !["parent"][m] = (@ + 1) % ForkWidth]
      /\ f_ticket' = [f_ticket EXCEPT ![t] = f_next["parent"][m]]
      /\ f_cur' = [f_cur EXCEPT ![t] = m]
      /\ f_pc' = [f_pc EXCEPT ![t] = "spin"]
      /\ f_owner' = f_owner /\ f_bin' = f_bin
  BY <1>1 DEF Acquire, Goto
<1>3. ForkDomains'
  BY <1>1, <1>2 DEF ForkDomains
<1>4. OthersSame(t)
  BY <1>1, <1>2 DEF ForkDomains, OthersSame
<1>5. f_next'["parent"] = [f_next["parent"] EXCEPT ![m] = (@ + 1) % ForkWidth]
  BY <1>2 DEF ForkDomains
<1>6. f_pc'[t] = "spin" /\ f_cur'[t] = m /\ f_ticket'[t] = f_next["parent"][m]
  BY <1>1, <1>2 DEF ForkDomains
<1> QED
  BY <1>2, <1>3, <1>4, <1>5, <1>6

\* A step of t keeps the shape of the calls in progress.
LEMMA ShapeKept ==
  ASSUME ForkSetting, ForkShape, ForkDomains', NEW t \in Parents, OthersSame(t), f_cur'[t] \in Locks,
         f_pc'[Forker] \in {"idle", "spin", "block", "fork", "clear"},
         t \in Mallocs => MallocShape(t)'
  PROVE  ForkShape'
<1>1. \A u \in Parents : f_cur'[u] \in Locks
  BY DEF ForkShape, OthersSame
<1>2. ASSUME NEW u \in Mallocs PROVE MallocShape(u)'
  <2>1. CASE u = t
    BY <2>1
  <2>2. CASE u # t
    BY <2>2 DEF ForkShape, MallocShape, OthersSame, Parents
  <2> QED
    BY <2>1, <2>2
<1> QED
  BY <1>1, <1>2 DEF ForkShape

\* A malloc starts to wait for its bin, or for the growth lock.
LEMMA MallocTakes ==
  ASSUME ForkSetting, ForkInv, NEW t \in Mallocs, NEW m \in Locks, Acquire(t, m),
         \/ f_pc[t] = "idle" /\ m # Growth
         \/ f_pc[t] = "alloc" /\ m = Growth
  PROVE  ForkInv'
<1>1. t \in Parents /\ t # Forker /\ ForkDomains
  BY DEF Parents, ForkInv, ForkShape, ForkSetting
<1>2. /\ ForkDomains' /\ OthersSame(t)
      /\ f_pc'[t] = "spin" /\ f_cur'[t] = m /\ f_bin' = f_bin
      /\ f_ticket'[t] = f_next["parent"][m]
      /\ f_owner' = f_owner
      /\ f_next'["parent"] = [f_next["parent"] EXCEPT ![m] = (@ + 1) % ForkWidth]
  BY <1>1, TakesIn
<1>3. ForkShape'
  <2>1. f_pc'[Forker] \in {"idle", "spin", "block", "fork", "clear"} /\ MallocShape(t)'
    BY <1>1, <1>2 DEF ForkInv, ForkShape, MallocShape, OthersSame, Parents
  <2> QED
    BY <1>1, <1>2, <2>1, ShapeKept DEF ForkInv
<1>4. ~HoldsAt(t, m) /\ f_pc[t] # "spin"
  BY <1>1 DEF HoldsAt, ForkInv, ForkShape, MallocShape, Growth, Locks, ForkSetting
<1>5. \A l \in Locks : HoldsAt(t, l)' <=> HoldsAt(t, l)
  BY <1>1, <1>2 DEF HoldsAt
<1>6. LocksSound'
  BY <1>1, <1>2, <1>4, <1>5, TakeStep DEF ForkInv
<1> QED
  BY <1>3, <1>6 DEF ForkInv

\* fork starts to wait for its next lock.
LEMMA ForkTakes ==
  ASSUME ForkSetting, ForkInv, NEW m \in Locks, Acquire(Forker, m),
         \/ f_pc[Forker] = "idle" /\ m = 1
         \/ f_pc[Forker] = "block" /\ m = f_cur[Forker] + 1
  PROVE  ForkInv'
<1>1. Forker \in Parents /\ Forker \notin Mallocs /\ ForkDomains
  BY DEF Parents, ForkInv, ForkShape, ForkSetting
<1>2. /\ ForkDomains' /\ OthersSame(Forker)
      /\ f_pc'[Forker] = "spin" /\ f_cur'[Forker] = m /\ f_bin' = f_bin
      /\ f_ticket'[Forker] = f_next["parent"][m]
      /\ f_owner' = f_owner
      /\ f_next'["parent"] = [f_next["parent"] EXCEPT ![m] = (@ + 1) % ForkWidth]
  BY <1>1, TakesIn
<1>3. ForkShape'
  BY <1>1, <1>2, ShapeKept DEF ForkInv
<1>4. f_cur[Forker] \in Nat /\ Locks = 1..Growth /\ Growth \in Nat
  BY <1>1 DEF ForkInv, ForkShape, Locks, Growth, ForkSetting
<1>5. ~HoldsAt(Forker, m) /\ f_pc[Forker] # "spin"
  BY <1>4 DEF HoldsAt
<1>6. ASSUME NEW l \in Locks PROVE HoldsAt(Forker, l)' <=> HoldsAt(Forker, l)
  <2>1. HoldsAt(Forker, l)' <=> l < m
    BY <1>2 DEF HoldsAt
  <2>2. CASE f_pc[Forker] = "idle" /\ m = 1
    BY <1>4, <2>1, <2>2 DEF HoldsAt
  <2>3. CASE f_pc[Forker] = "block" /\ m = f_cur[Forker] + 1
    BY <1>4, <2>1, <2>3 DEF HoldsAt
  <2> QED
    BY <2>2, <2>3
<1>7. LocksSound'
  BY <1>1, <1>2, <1>5, <1>6, TakeStep DEF ForkInv
<1> QED
  BY <1>3, <1>7 DEF ForkInv

\* The wait of a malloc, and of fork, is over.
LEMMA ServedIn ==
  ASSUME ForkSetting, ForkInv, NEW t \in Parents, GotLock(t)
  PROVE  ForkInv'
<1>0. PICK m \in Locks : m = f_cur[t]
  BY DEF ForkInv, ForkShape
<1>1. t \in All /\ Process(t) = "parent" /\ Parents \subseteq All /\ ForkDomains
  BY ParentIs DEF Parents, All, ForkInv, ForkShape
<1>2. /\ f_pc[t] = "spin" /\ f_owner["parent"][m] = f_ticket[t]
      /\ f_bin' = [f_bin EXCEPT ![t] = IF @ = 0 /\ t # Forker THEN m ELSE @]
      /\ f_pc' = [f_pc EXCEPT ![t] = IF t = Forker THEN "block"
                                     ELSE IF m = Growth THEN "link" ELSE "alloc"]
      /\ UNCHANGED <<f_next, f_owner, f_cur, f_ticket>>
  BY <1>1, <1>0 DEF GotLock, Goto
<1>3. ForkDomains' /\ OthersSame(t)
  BY <1>1, <1>2 DEF ForkDomains, OthersSame
<1>5. /\ f_bin'[t] = IF f_bin[t] = 0 /\ t # Forker THEN m ELSE f_bin[t]
      /\ f_pc'[t] = IF t = Forker THEN "block" ELSE IF m = Growth THEN "link" ELSE "alloc"
      /\ f_cur'[t] = m
  BY <1>1, <1>2, <1>0 DEF ForkDomains
<1>6. m \in 1..Growth /\ Growth = Bins + 1 /\ Bins \in Nat /\ Locks = 1..Growth
  BY <1>0 DEF Growth, Locks, ForkSetting
<1>7. t \in Mallocs => MallocShape(t)
  BY DEF ForkInv, ForkShape
<1>8. ForkShape'
  <2>1. t \in Mallocs => MallocShape(t)'
    BY <1>2, <1>0, <1>5, <1>6, <1>7, ParentIs DEF MallocShape
  <2>2. f_pc'[Forker] \in {"idle", "spin", "block", "fork", "clear"}
    BY <1>3, <1>5 DEF ForkInv, ForkShape, OthersSame, Parents
  <2> QED
    BY <1>3, <1>0, <1>5, <2>1, <2>2, ShapeKept DEF ForkInv
<1>9. HoldsAt(t, m)' /\ \A l \in Locks : l # m => (HoldsAt(t, l)' <=> HoldsAt(t, l))
  <2>1. CASE t = Forker
    BY <1>2, <1>0, <1>5, <1>6, <2>1 DEF HoldsAt
  <2>2. CASE t # Forker
    BY <1>2, <1>0, <1>5, <1>6, <1>7, <2>2, ParentIs DEF HoldsAt, MallocShape
  <2> QED
    BY <2>1, <2>2
<1>10. WaitsAt(t, m) /\ f_pc'[t] # "spin"
  BY <1>2, <1>0, <1>5 DEF WaitsAt
<1>11. LocksSound'
  BY <1>2, <1>3, <1>9, <1>10, ServeStep DEF ForkInv
<1> QED
  BY <1>8, <1>11 DEF ForkInv

\* A parent's thread releases lock m, whatever else it does.
LEMMA ReleasesIn ==
  ASSUME ForkSetting, ForkDomains, NEW t \in Parents, NEW m \in Locks, ReleaseLock(t, m)
  PROVE  /\ f_owner'["parent"] = [f_owner["parent"] EXCEPT ![m] = (@ + 1) % ForkWidth]
         /\ DOMAIN f_owner' = {"parent", "child"} /\ DOMAIN f_owner'["parent"] = Locks
<1>1. f_owner' = [f_owner EXCEPT !["parent"][m] = (@ + 1) % ForkWidth]
  BY ParentIs DEF ReleaseLock
<1> QED
  BY <1>1 DEF ForkDomains

\* malloc has linked a grown segment and gives the growth lock back.
LEMMA LinkedIn ==
  ASSUME ForkSetting, ForkInv, NEW t \in Parents, Linked(t)
  PROVE  ForkInv'
<1>1. Parents \subseteq All /\ ForkDomains
  BY DEF Parents, All, ForkInv, ForkShape
<1>2. /\ f_pc[t] = "link" /\ ReleaseLock(t, Growth)
      /\ f_pc' = [f_pc EXCEPT ![t] = "done"] /\ UNCHANGED <<f_next, f_cur, f_ticket, f_bin>>
  BY DEF Linked, Goto
<1>3. t \in Mallocs /\ t # Forker /\ MallocShape(t)
  <2>1. t # Forker
    BY <1>2 DEF ForkInv, ForkShape
  <2> QED
    BY <2>1, ParentIs DEF ForkInv, ForkShape
<1>4. Growth \in Locks /\ Growth \notin 0..Bins
  BY DEF Locks, Growth, ForkSetting
<1>5. /\ f_owner'["parent"] = [f_owner["parent"] EXCEPT ![Growth] = (@ + 1) % ForkWidth]
      /\ DOMAIN f_owner' = {"parent", "child"} /\ DOMAIN f_owner'["parent"] = Locks
  BY <1>1, <1>2, <1>4, ReleasesIn
<1>6. ForkDomains' /\ OthersSame(t) /\ f_pc'[t] = "done"
  BY <1>1, <1>2, <1>5 DEF ForkDomains, OthersSame
<1>7. ForkShape'
  <2>1. MallocShape(t)' /\ f_cur'[t] \in Locks
    BY <1>2, <1>3, <1>6 DEF MallocShape, ForkInv, ForkShape
  <2>2. f_pc'[Forker] \in {"idle", "spin", "block", "fork", "clear"}
    BY <1>3, <1>6 DEF ForkInv, ForkShape, OthersSame, Parents
  <2> QED
    BY <1>6, <2>1, <2>2, ShapeKept DEF ForkInv
<1>8. /\ HoldsAt(t, Growth) /\ ~HoldsAt(t, Growth)'
      /\ \A l \in Locks : l # Growth => (HoldsAt(t, l)' <=> HoldsAt(t, l))
  BY <1>2, <1>3, <1>4, <1>6 DEF HoldsAt, MallocShape
<1>9. LocksSound'
  BY <1>2, <1>4, <1>5, <1>6, <1>8, ReleaseStep DEF ForkInv
<1> QED
  BY <1>7, <1>9 DEF ForkInv

\* malloc releases the lock of its bin and returns.
LEMMA MallocReturnsIn ==
  ASSUME ForkSetting, ForkInv, NEW t \in Parents, MallocReturns(t)
  PROVE  ForkInv'
<1>1. Parents \subseteq All /\ ForkDomains
  BY DEF Parents, All, ForkInv, ForkShape
<1>2. f_pc[t] \in {"alloc", "done"}
  BY DEF MallocReturns
<1>3. t \in Mallocs /\ t # Forker /\ MallocShape(t)
  <2>1. t # Forker
    BY <1>2 DEF ForkInv, ForkShape
  <2> QED
    BY <2>1, ParentIs DEF ForkInv, ForkShape
<1>4. PICK m \in Locks : m = f_bin[t]
  <2>1. f_bin[t] \in 0..Bins /\ f_bin[t] # 0
    BY <1>2, <1>3 DEF MallocShape
  <2> QED
    BY <2>1 DEF Locks, Growth, ForkSetting
<1>5. /\ ReleaseLock(t, m)
      /\ f_bin' = [f_bin EXCEPT ![t] = 0]
      /\ f_pc' = [f_pc EXCEPT ![t] = "idle"] /\ UNCHANGED <<f_next, f_cur, f_ticket>>
  BY <1>4 DEF MallocReturns, Goto
<1>6. /\ f_owner'["parent"] = [f_owner["parent"] EXCEPT ![m] = (@ + 1) % ForkWidth]
      /\ DOMAIN f_owner' = {"parent", "child"} /\ DOMAIN f_owner'["parent"] = Locks
  BY <1>1, <1>5, ReleasesIn
<1>7. ForkDomains' /\ OthersSame(t) /\ f_pc'[t] = "idle" /\ f_bin'[t] = 0
  BY <1>1, <1>5, <1>6 DEF ForkDomains, OthersSame
<1>8. ForkShape'
  <2>1. MallocShape(t)' /\ f_cur'[t] \in Locks
    BY <1>5, <1>3, <1>7 DEF MallocShape, ForkInv, ForkShape, ForkSetting
  <2>2. f_pc'[Forker] \in {"idle", "spin", "block", "fork", "clear"}
    BY <1>3, <1>7 DEF ForkInv, ForkShape, OthersSame, Parents
  <2> QED
    BY <1>7, <2>1, <2>2, ShapeKept DEF ForkInv
<1>9. /\ HoldsAt(t, m) /\ ~HoldsAt(t, m)'
      /\ \A l \in Locks : l # m => (HoldsAt(t, l)' <=> HoldsAt(t, l))
  <2>1. 0 \notin Locks
    BY DEF Locks
  <2> QED
    BY <1>2, <1>3, <1>4, <1>7, <2>1 DEF HoldsAt
<1>10. LocksSound'
  BY <1>2, <1>5, <1>6, <1>7, <1>9, ReleaseStep DEF ForkInv
<1> QED
  BY <1>8, <1>10 DEF ForkInv

\* fork releases the locks in the parent, one by one.
LEMMA ClearIn ==
  ASSUME ForkSetting, ForkInv, Clear(Forker)
  PROVE  ForkInv'
<1>0. Forker \in Parents /\ Forker \notin Mallocs
  BY DEF Parents, ForkSetting
<1>1. Parents \subseteq All /\ ForkDomains
  BY DEF Parents, All, ForkInv, ForkShape
<1>2. PICK m \in Locks : m = f_cur[Forker]
  BY <1>0 DEF ForkInv, ForkShape
<1>3. /\ f_pc[Forker] = "clear" /\ ReleaseLock(Forker, m)
      /\ IF m < Growth
         THEN f_cur' = [f_cur EXCEPT ![Forker] = @ + 1] /\ f_pc' = f_pc
         ELSE f_pc' = [f_pc EXCEPT ![Forker] = "idle"] /\ f_cur' = f_cur
      /\ UNCHANGED <<f_next, f_ticket, f_bin>>
  BY <1>2 DEF Clear, Goto
<1>4. Locks = 1..Growth /\ Growth \in Nat
  BY DEF Locks, Growth, ForkSetting
<1>5. /\ f_owner'["parent"] = [f_owner["parent"] EXCEPT ![m] = (@ + 1) % ForkWidth]
      /\ DOMAIN f_owner' = {"parent", "child"} /\ DOMAIN f_owner'["parent"] = Locks
  BY <1>0, <1>1, <1>3, ReleasesIn
<1>6. ForkDomains' /\ OthersSame(Forker)
  <2>1. DOMAIN f_cur' = DOMAIN f_cur /\ DOMAIN f_pc' = DOMAIN f_pc
    <3>1. CASE m < Growth
      BY <1>3, <3>1
    <3>2. CASE ~(m < Growth)
      BY <1>3, <3>2
    <3> QED
      BY <3>1, <3>2
  <2>2. \A u \in Parents \ {Forker} : f_cur'[u] = f_cur[u] /\ f_pc'[u] = f_pc[u]
    BY <1>1, <1>3 DEF ForkDomains
  <2>3. f_next' = f_next /\ f_ticket' = f_ticket /\ f_bin' = f_bin
    BY <1>3
  <2>4. ForkDomains'
    BY <1>1, <1>5, <2>1, <2>3 DEF ForkDomains
  <2> QED
    BY <2>2, <2>3, <2>4 DEF OthersSame
<1>7. IF m < Growth THEN f_cur'[Forker] = m + 1 /\ f_pc'[Forker] = "clear"
                      ELSE f_cur'[Forker] = m /\ f_pc'[Forker] = "idle"
  BY <1>0, <1>1, <1>2, <1>3 DEF ForkDomains
<1>8. ForkShape'
  <2>1. f_cur'[Forker] \in Locks /\ f_pc'[Forker] \in {"idle", "clear"}
    BY <1>4, <1>7
  <2> QED
    BY <1>0, <1>6, <2>1, ShapeKept DEF ForkInv
<1>9. /\ HoldsAt(Forker, m) /\ ~HoldsAt(Forker, m)'
      /\ \A l \in Locks : l # m => (HoldsAt(Forker, l)' <=> HoldsAt(Forker, l))
  BY <1>2, <1>3, <1>4, <1>7 DEF HoldsAt
<1>10. f_pc[Forker] # "spin" /\ f_pc'[Forker] # "spin"
  BY <1>3, <1>7
<1>11. LocksSound'
  BY <1>0, <1>3, <1>5, <1>6, <1>9, <1>10, ReleaseStep DEF ForkInv
<1> QED
  BY <1>8, <1>11 DEF ForkInv

\* The last lock is taken, and the system call: fork holds every lock before and
\* after.
LEMMA BlockIn ==
  ASSUME ForkSetting, ForkInv, Block
  PROVE  ForkInv'
<1>1. Forker \in Parents /\ Forker \notin Mallocs /\ Parents \subseteq All /\ ForkDomains
  BY DEF Parents, All, ForkInv, ForkShape, ForkSetting
<1>2. f_cur[Forker] \in Locks /\ Locks = 1..Growth /\ Growth \in Nat
  BY <1>1 DEF ForkInv, ForkShape, Locks, Growth, ForkSetting
<1>3. CASE f_cur[Forker] < Growth /\ Acquire(Forker, f_cur[Forker] + 1)
  <2>1. PICK m \in Locks : m = f_cur[Forker] + 1
    BY <1>2, <1>3
  <2>2. Acquire(Forker, m) /\ f_pc[Forker] = "block"
    BY <1>3, <2>1 DEF Block
  <2> QED
    BY <2>1, <2>2, ForkTakes
<1>4. CASE /\ f_cur[Forker] = Growth /\ f_pc' = [f_pc EXCEPT ![Forker] = "fork"]
           /\ UNCHANGED <<f_next, f_owner, f_cur, f_ticket, f_bin>>
  <2>1. ForkDomains' /\ OthersSame(Forker) /\ f_pc'[Forker] = "fork"
    BY <1>1, <1>4 DEF ForkDomains, OthersSame
  <2>2. f_pc[Forker] = "block"
    BY DEF Block
  <2>3. ForkShape'
    BY <1>1, <1>2, <1>4, <2>1, ShapeKept DEF ForkInv
  <2>4. \A l \in Locks : ~WaitsAt(Forker, l)' /\ ~WaitsAt(Forker, l)
    BY <2>1, <2>2 DEF WaitsAt
  <2>5. \A l \in Locks : HoldsAt(Forker, l)' /\ HoldsAt(Forker, l)
    BY <1>2, <1>4, <2>1, <2>2 DEF HoldsAt
  <2>6. LocksSound'
    BY <1>1, <1>4, <2>1, <2>4, <2>5, StayStep DEF ForkInv
  <2> QED
    BY <2>3, <2>6 DEF ForkInv
<1> QED
  BY <1>3, <1>4 DEF Block, Goto

\* The fork system call copies the memory.
LEMMA SysForkIn ==
  ASSUME ForkSetting, ForkInv, SysFork
  PROVE  ForkInv'
<1>1. /\ Forker \in Parents /\ Forker \notin Mallocs /\ Parents \subseteq All
      /\ Child \notin Parents /\ ForkDomains
  BY DEF Parents, All, ForkInv, ForkShape, ForkSetting
<1>2. 1 \in Locks /\ Locks = 1..Growth /\ Growth \in Nat
  BY DEF Locks, Growth, ForkSetting
<1>3. ForkDomains' /\ OthersSame(Forker) /\ f_pc'[Forker] = "clear" /\ f_cur'[Forker] = 1
  <2>1. ForkDomains'
    BY <1>1 DEF ForkDomains, SysFork
  <2>2. OthersSame(Forker)
    BY <1>1 DEF ForkDomains, OthersSame, SysFork
  <2>3. Forker # Child
    BY <1>1
  <2>4. f_pc'[Forker] = "clear" /\ f_cur'[Forker] = 1
    BY <1>1, <2>3 DEF ForkDomains, SysFork
  <2> QED
    BY <2>1, <2>2, <2>4
<1>4. f_next'["parent"] = f_next["parent"] /\ f_owner'["parent"] = f_owner["parent"]
  BY <1>1 DEF ForkDomains, SysFork
<1>5. f_pc[Forker] = "fork" /\ f_ticket' = f_ticket
  BY DEF SysFork
<1>6. ForkShape'
  <2>1. f_cur'[Forker] \in Locks /\ f_pc'[Forker] \in {"idle", "spin", "block", "fork", "clear"}
    BY <1>2, <1>3
  <2> QED
    BY <1>1, <1>3, <2>1, ShapeKept DEF ForkInv
<1>7. \A l \in Locks : ~WaitsAt(Forker, l)' /\ ~WaitsAt(Forker, l)
  BY <1>3, <1>5 DEF WaitsAt
<1>8. \A l \in Locks : HoldsAt(Forker, l)' /\ HoldsAt(Forker, l)
  <2>1. \A l \in Locks : f_cur'[Forker] <= l
    BY <1>2, <1>3
  <2>2. \A l \in Locks : HoldsAt(Forker, l)'
    BY <1>3, <2>1 DEF HoldsAt
  <2>3. \A l \in Locks : HoldsAt(Forker, l)
    BY <1>5 DEF HoldsAt
  <2> QED
    BY <2>2, <2>3
<1>9. LocksSound'
  BY <1>1, <1>3, <1>4, <1>5, <1>7, <1>8, StayStep DEF ForkInv
<1> QED
  BY <1>6, <1>9 DEF ForkInv

\* The child works on its own copy, so the parent does not see its steps.
ParentSame ==
  /\ \A u \in Parents : /\ f_pc'[u] = f_pc[u] /\ f_cur'[u] = f_cur[u]
                        /\ f_bin'[u] = f_bin[u] /\ f_ticket'[u] = f_ticket[u]
  /\ f_next'["parent"] = f_next["parent"] /\ f_owner'["parent"] = f_owner["parent"]

\* What does not touch the parent keeps its locks sound.
LEMMA ParentKept ==
  ASSUME ForkSetting, ForkInv, ForkDomains', ParentSame
  PROVE  ForkInv'
<1>1. Forker \in Parents /\ Forker \notin Mallocs /\ OthersSame(Forker)
  BY DEF Parents, OthersSame, ParentSame, ForkSetting
<1>2. ForkShape'
  <2>1. f_cur'[Forker] \in Locks /\ f_pc'[Forker] \in {"idle", "spin", "block", "fork", "clear"}
    BY <1>1 DEF ForkInv, ForkShape, ParentSame
  <2> QED
    BY <1>1, <2>1, ShapeKept DEF ForkInv
<1>3. \A l \in Locks : /\ WaitsAt(Forker, l)' <=> WaitsAt(Forker, l)
                       /\ HoldsAt(Forker, l)' <=> HoldsAt(Forker, l)
  BY <1>1 DEF WaitsAt, HoldsAt, ParentSame
<1>4. LocksSound'
  BY <1>1, <1>3, StayStep DEF ForkInv, ParentSame
<1> QED
  BY <1>2, <1>4 DEF ForkInv

\* The child only moves in its own copy.
LEMMA ChildSteps ==
  ASSUME ForkSetting, ForkInv,
         \/ \E l \in Locks : Acquire(Child, l)
         \/ Steps(Child)
  PROVE  ForkInv'
<1>1. Parents \subseteq All /\ Child \notin Parents /\ ForkDomains /\ Process(Child) = "child"
  BY DEF Parents, All, ForkInv, ForkShape, Process, ForkSetting
<1>2. ASSUME NEW l, Acquire(Child, l) PROVE ForkDomains' /\ ParentSame
  BY <1>1, <1>2 DEF Acquire, Goto, ForkDomains, ParentSame
<1>3. CASE GotLock(Child)
  BY <1>1, <1>3, ParentKept DEF GotLock, Goto, ForkDomains, ParentSame
<1>4. ASSUME NEW l, ReleaseLock(Child, l)
      PROVE  /\ DOMAIN f_owner' = {"parent", "child"} /\ DOMAIN f_owner'["parent"] = Locks
             /\ f_owner'["parent"] = f_owner["parent"]
  BY <1>1, <1>4 DEF ReleaseLock, ForkDomains
<1>5. CASE Linked(Child)
  BY <1>1, <1>4, <1>5, ParentKept DEF Linked, Goto, ForkDomains, ParentSame
<1>6. CASE MallocReturns(Child)
  BY <1>1, <1>4, <1>6, ParentKept DEF MallocReturns, Goto, ForkDomains, ParentSame
<1>7. CASE Clear(Child)
  <2>1. DOMAIN f_cur' = DOMAIN f_cur /\ DOMAIN f_pc' = DOMAIN f_pc
    BY <1>7 DEF Clear, Goto
  <2>2. \A u \in Parents : f_cur'[u] = f_cur[u] /\ f_pc'[u] = f_pc[u]
    BY <1>1, <1>7 DEF Clear, Goto, ForkDomains
  <2> QED
    BY <1>1, <1>4, <1>7, <2>1, <2>2, ParentKept DEF Clear, ForkDomains, ParentSame
<1> QED
  BY <1>2, <1>3, <1>5, <1>6, <1>7, ParentKept DEF Steps

\* All locks are free at the start.
LEMMA ForkInitSound ==
  ASSUME ForkSetting, ForkInit
  PROVE  ForkInv
<1>1. Forker \in Parents /\ Forker \notin Mallocs /\ Parents \subseteq All /\ Child \notin Parents
  BY DEF Parents, All, ForkSetting
<1>2. 1 \in Locks /\ Growth \in Locks /\ 0 \notin Locks
  BY DEF Locks, Growth, ForkSetting
<1>3. \A t \in Parents : f_pc[t] = "idle" /\ f_cur[t] = 1 /\ f_bin[t] = 0
  BY <1>1 DEF ForkInit
<1>4. ForkDomains
  BY DEF ForkInit, ForkDomains
<1>5. \A t \in Mallocs : MallocShape(t)
  BY <1>3 DEF MallocShape, Parents, ForkSetting
<1>6. ForkShape
  BY <1>1, <1>2, <1>3, <1>4, <1>5 DEF ForkShape
<1>7. ASSUME NEW l \in Locks
      PROVE  LockSound(f_next["parent"][l], f_owner["parent"][l], WaitSet(l), HoldSet(l), f_ticket)
  <2>1. WaitSet(l) = {} /\ HoldSet(l) = {}
    BY <1>2, <1>3 DEF WaitSet, HoldSet, WaitsAt, HoldsAt
  <2>2. f_next["parent"][l] = 0 /\ f_owner["parent"][l] = 0
    BY DEF ForkInit
  <2>3. Cardinality({} \cup {}) = 0 /\ 0 \in Tks /\ Plus(0, 0) = 0
    <3>1. Cardinality({}) = 0 /\ {} \cup {} = {}
      BY FS_EmptySet
    <3>2. ForkWidth \in Nat /\ ForkWidth > 0
      BY ParentsFinite, FS_CardinalityType DEF ForkSetting
    <3> QED
      BY <3>1, <3>2 DEF Tks, Plus
  <2> QED
    BY <2>1, <2>2, <2>3 DEF LockSound
<1> QED
  BY <1>6, <1>7 DEF ForkInv, LocksSound

\* Every step of the parent and the child keeps the invariant.
LEMMA ForkNextSound ==
  ASSUME ForkSetting, ForkInv, [ForkNext]_forkvars
  PROVE  ForkInv'
<1>1. CASE \E t \in Mallocs \cup {Child} : Grow(t) \/ \E b \in 1..Bins : Malloc(t, b)
  <2>1. PICK t \in Mallocs \cup {Child} : Grow(t) \/ \E b \in 1..Bins : Malloc(t, b)
    BY <1>1
  <2>2. PICK m \in Locks : /\ Acquire(t, m)
                           /\ \/ f_pc[t] = "idle" /\ m # Growth
                              \/ f_pc[t] = "alloc" /\ m = Growth
    <3>1. Growth \in Locks /\ 1..Bins \subseteq Locks
      BY DEF Locks, Growth, ForkSetting
    <3> QED
      BY <2>1, <3>1 DEF Grow, Malloc
  <2>3. CASE t \in Mallocs
    BY <2>2, <2>3, MallocTakes
  <2>4. CASE t = Child
    BY <2>2, <2>4, ChildSteps
  <2> QED
    BY <2>1, <2>3, <2>4
<1>2. CASE \E t \in All : Steps(t)
  <2>1. PICK t \in All : Steps(t)
    BY <1>2
  <2>2. CASE t = Child
    BY <2>1, <2>2, ChildSteps
  <2>3. CASE t # Child
    <3>1. t \in Parents
      BY <2>3 DEF All, Parents
    <3>2. Clear(t) => t = Forker
      BY <2>3 DEF Clear
    <3> QED
      BY <2>1, <3>1, <3>2, ServedIn, LinkedIn, MallocReturnsIn, ClearIn DEF Steps
  <2> QED
    BY <2>2, <2>3
<1>3. CASE Fork
  <2>1. 1 \in Locks
    BY DEF Locks, Growth, ForkSetting
  <2> QED
    BY <1>3, <2>1, ForkTakes DEF Fork
<1>4. CASE UNCHANGED forkvars
  <2>1. ForkDomains' /\ ParentSame
    BY <1>4 DEF forkvars, ForkInv, ForkShape, ForkDomains, ParentSame
  <2> QED
    BY <2>1, ParentKept
<1> QED
  BY <1>1, <1>2, <1>3, <1>4, BlockIn, SysForkIn DEF ForkNext

\* Every step of malloc, fork and the child keeps the locks of the parent sound.
THEOREM ForkInvariance ==
  ASSUME ForkSetting
  PROVE  ForkSpec => []ForkInv
<1>1. ForkInit => ForkInv
  BY ForkInitSound
<1>2. ForkInv /\ [ForkNext]_forkvars => ForkInv'
  BY ForkNextSound
<1> QED
  BY <1>1, <1>2, PTL DEF ForkSpec

\* The child's heap is one that no allocation is in the middle of changing: when
\* fork copies the memory it holds every lock, each lock has one holder, and a
\* malloc past its wait would hold the lock of its bin.
THEOREM ForkCopiesNoAllocation ==
  ASSUME ForkSetting
  PROVE  ForkSpec => []SnapshotConsistent
<1>1. ASSUME ForkInv, f_pc[Forker] = "fork", NEW t \in Mallocs
      PROVE  f_bin[t] = 0 /\ f_pc[t] \in {"idle", "spin"}
  <2>1. t \in Parents /\ Forker \in Parents /\ t # Forker
    BY DEF Parents, ForkSetting
  <2>2. MallocShape(t)
    BY <1>1 DEF ForkInv, ForkShape
  <2>3. ASSUME f_bin[t] # 0 PROVE FALSE
    <3>1. PICK l \in Locks : l = f_bin[t]
      BY <2>2, <2>3 DEF MallocShape, Locks, Growth, ForkSetting
    <3>2. t \in HoldSet(l) /\ Forker \in HoldSet(l)
      BY <1>1, <2>1, <3>1 DEF HoldSet, HoldsAt
    <3>3. \A u, v \in HoldSet(l) : u = v
      BY <1>1 DEF ForkInv, LocksSound, LockSound
    <3> QED
      BY <2>1, <3>2, <3>3
  <2> QED
    BY <2>2, <2>3 DEF MallocShape
<1>2. ForkInv => SnapshotConsistent
  BY <1>1 DEF SnapshotConsistent
<1> QED
  BY <1>2, ForkInvariance, PTL

=============================================================================
