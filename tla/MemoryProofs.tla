---------------------------- MODULE MemoryProofs ----------------------------
(***************************************************************************)
(* Proofs about core/memory.h: the arena and one ticket lock, for any      *)
(* number of threads, any size of the arena and of its chunks, and any     *)
(* width of the counters that is large enough for the threads.             *)
(* JaclForkProofs has fork against the locks.                              *)
(***************************************************************************)
EXTENDS JaclMemlock, JaclArena, FiniteSetTheorems, SequenceTheorems, TLAPS

-----------------------------------------------------------------------------
(* The arena. *)

\* The threads that a fork has not left behind.
Alive == {t \in Users : a_pc[t] # "gone"}

\* The part of a chunk that a thread may still give out goes from Lo to Hi: the
\* one in its thread_local words, or, while it is storing those, the one the
\* cursor gave it.
Lo(t) == IF a_pc[t] = "setoff" THEN a_cur[t] ELSE Off(t)
Hi(t) == IF a_pc[t] \in {"setoff", "setend"} THEN a_cur[t] + Available(a_cur[t]) ELSE End(t)

\* Nothing between lo and hi is between lo2 and hi2.
Disjoint(lo, hi, lo2, hi2) == lo = hi \/ lo2 = hi2 \/ hi <= lo2 \/ hi2 <= lo

Refilling == {t \in Users : a_pc[t] = "refill"}

ArenaTypes ==
  /\ cursor \in Nat
  /\ tls_off \in [Tls -> Nat] /\ tls_end \in [Tls -> Nat]
  /\ live \subseteq [off : Nat, size : Needs]
  /\ a_pc \in [Users -> {"idle", "refill", "setoff", "setend", "check", "bump", "bins", "gone"}]
  /\ need \in [Users -> Nat] /\ a_cur \in [Users -> Nat]

\* A thread in the middle of a malloc.
Placing(t) ==
  /\ a_pc[t] \notin {"idle", "gone"} => need[t] \in Needs
  /\ a_pc[t] \in {"setoff", "setend"} => a_cur[t] < Limit
  /\ a_pc[t] = "setend" => Off(t) = a_cur[t]
  /\ a_pc[t] = "check" /\ Off(t) + need[t] <= Limit => Off(t) + need[t] <= End(t)
  /\ a_pc[t] = "bump" => a_cur[t] = Off(t) /\ Off(t) + need[t] <= End(t)

Parted ==
  /\ \A t \in Alive : Lo(t) <= Hi(t) /\ Hi(t) <= Limit /\ (Lo(t) = Hi(t) \/ Hi(t) <= cursor)
  /\ \A t, u \in Alive : t # u => Disjoint(Lo(t), Hi(t), Lo(u), Hi(u))
  /\ \A b \in live : b.off + b.size <= Limit /\ b.off + b.size <= cursor
  /\ \A b \in live, t \in Alive : Disjoint(Lo(t), Hi(t), b.off, b.off + b.size)
  /\ \A b, c \in live : b # c => Disjoint(b.off, b.off + b.size, c.off, c.off + c.size)

\* The cursor has not wrapped around, and will not while calls are in progress.
NoWrap == cursor + Chunk * Cardinality(Refilling) <= MaxCursor + Chunk * Cardinality(Users)

ArenaInv == ArenaTypes /\ (\A t \in Users : Placing(t)) /\ Parted /\ NoWrap


\* Counting the threads that are about to move the cursor.
LEMMA Times ==
  ASSUME NEW c \in Nat, NEW k \in Nat, NEW n \in Nat
  PROVE  /\ c * k \in Nat
         /\ c * (k + 1) = c * k + c
         /\ k <= n => c * k <= c * n
<1>1. ASSUME k <= n PROVE c * k <= c * n
  <2>1. PICK d \in Nat : n = k + d
    BY <1>1
  <2>2. c * n = c * k + c * d /\ c * d \in Nat /\ c * k \in Nat
    BY <2>1
  <2> QED
    BY <2>2
<1> QED
  BY <1>1

\* A step of t that leaves the words of the others alone.
OthersAlone(t) ==
  /\ \A u \in Users \ {t} : a_pc'[u] = a_pc[u] /\ a_cur'[u] = a_cur[u] /\ need'[u] = need[u]
  /\ \A u \in Users \ {t} : Off(u)' = Off(u) /\ End(u)' = End(u)

\* The others keep what they have.
LEMMA OthersStay ==
  ASSUME NEW t \in Users, OthersAlone(t), NEW u \in Users \ {t}
  PROVE  /\ Lo(u)' = Lo(u) /\ Hi(u)' = Hi(u)
         /\ Placing(u) => Placing(u)'
         /\ a_pc'[u] = a_pc[u]
  BY DEF OthersAlone, Lo, Hi, Placing, Available, Off, End

\* Storing in the words of t is storing in nobody else's.
LEMMA OwnWords ==
  ASSUME ArenaSetting, ArenaTypes, NEW t \in Users, NEW v \in Nat
  PROVE  /\ [tls_off EXCEPT ![TlsOf[t]] = v] \in [Tls -> Nat]
         /\ [tls_end EXCEPT ![TlsOf[t]] = v] \in [Tls -> Nat]
         /\ [tls_off EXCEPT ![TlsOf[t]] = v][TlsOf[t]] = v
         /\ [tls_end EXCEPT ![TlsOf[t]] = v][TlsOf[t]] = v
         /\ \A u \in Users \ {t} : /\ [tls_off EXCEPT ![TlsOf[t]] = v][TlsOf[u]] = tls_off[TlsOf[u]]
                                   /\ [tls_end EXCEPT ![TlsOf[t]] = v][TlsOf[u]] = tls_end[TlsOf[u]]
         /\ tls_off[TlsOf[t]] \in Nat /\ tls_end[TlsOf[t]] \in Nat
<1>1. TlsOf[t] \in Tls /\ \A u \in Users \ {t} : TlsOf[u] \in Tls /\ TlsOf[u] # TlsOf[t]
  BY DEF Tls, ArenaSetting
<1> QED
  BY <1>1 DEF ArenaTypes

\* The same of the words after a store.
LEMMA StoresOff ==
  ASSUME ArenaSetting, ArenaTypes, NEW t \in Users, NEW v \in Nat,
         tls_off' = [tls_off EXCEPT ![TlsOf[t]] = v]
  PROVE  tls_off' \in [Tls -> Nat] /\ Off(t)' = v /\ \A u \in Users \ {t} : Off(u)' = Off(u)
  BY OwnWords DEF Off

\* The same of the other word.
LEMMA StoresEnd ==
  ASSUME ArenaSetting, ArenaTypes, NEW t \in Users, NEW v \in Nat,
         tls_end' = [tls_end EXCEPT ![TlsOf[t]] = v]
  PROVE  tls_end' \in [Tls -> Nat] /\ End(t)' = v /\ \A u \in Users \ {t} : End(u)' = End(u)
  BY OwnWords DEF End

\* What Lo and Hi are numbers of.
LEMMA RegionNat ==
  ASSUME ArenaSetting, ArenaTypes, NEW t \in Users, Placing(t)
  PROVE  Lo(t) \in Nat /\ Hi(t) \in Nat /\ Off(t) \in Nat /\ End(t) \in Nat
<1>1. Off(t) \in Nat /\ End(t) \in Nat
  BY OwnWords DEF Off, End
<1>2. a_cur[t] \in Nat
  BY DEF ArenaTypes
<1>3. a_cur[t] < Limit => Available(a_cur[t]) \in Nat
  BY <1>2 DEF Available, ArenaSetting
<1> QED
  BY <1>1, <1>2, <1>3 DEF Lo, Hi, Placing

\* A request is for something.
LEMMA SomeNeed ==
  ASSUME ArenaSetting, NEW n \in Needs
  PROVE  n \in Nat /\ n >= 1
<1>1. n \in 1..Chunk /\ Chunk \in Nat
  BY DEF ArenaSetting
<1> QED
  BY <1>1

\* A block has a place and a size.
LEMMA BlockEnds ==
  ASSUME ArenaSetting, NEW b \in [off : Nat, size : Needs]
  PROVE  b.off \in Nat /\ b.size \in Nat /\ b.size >= 1 /\ b.off + b.size \in Nat
<1>1. b.off \in Nat /\ b.size \in Needs
  OBVIOUS
<1>2. \A n \in Needs : n \in Nat /\ n >= 1
  BY DEF ArenaSetting
<1>3. b.size \in Nat /\ b.size >= 1
  BY <1>1, <1>2
<1> QED
  BY <1>1, <1>3

\* Part of what is disjoint is disjoint.
LEMMA DisjointPart ==
  ASSUME NEW a \in Nat, NEW b \in Nat, NEW c \in Nat, NEW d \in Nat,
         NEW x \in Nat, NEW y \in Nat, a <= x, x <= y, y <= b, Disjoint(a, b, c, d)
  PROVE  Disjoint(x, y, c, d) /\ Disjoint(c, d, x, y)
  BY DEF Disjoint

\* What changes in Parted when only t's part does.
LEMMA PartedMoves ==
  ASSUME ArenaSetting, ArenaInv, NEW t \in Users, OthersAlone(t), a_pc[t] # "gone",
         cursor' \in Nat, cursor <= cursor',
         Lo(t)' <= Hi(t)', Hi(t)' <= Limit, Lo(t)' = Hi(t)' \/ Hi(t)' <= cursor',
         \A u \in Alive \ {t} : Disjoint(Lo(t)', Hi(t)', Lo(u), Hi(u)),
         \A b \in live' : /\ b \in [off : Nat, size : Needs]
                          /\ b.off + b.size <= Limit /\ b.off + b.size <= cursor',
         \A b \in live' : Disjoint(Lo(t)', Hi(t)', b.off, b.off + b.size),
         \A b \in live', u \in Alive \ {t} : Disjoint(Lo(u), Hi(u), b.off, b.off + b.size),
         \A b, c \in live' : b # c => Disjoint(b.off, b.off + b.size, c.off, c.off + c.size)
  PROVE  Parted'
<1>1. \A u \in Alive' : u \in Users /\ (u # t => u \in Alive)
  BY OthersStay DEF Alive
<1>2. \A u \in Users \ {t} : Lo(u)' = Lo(u) /\ Hi(u)' = Hi(u)
  BY OthersStay
<1>3. \A u \in Alive : Lo(u) \in Nat /\ Hi(u) \in Nat
  BY RegionNat DEF ArenaInv, Alive
<1>4. \A u \in Alive' : /\ Lo(u)' <= Hi(u)' /\ Hi(u)' <= Limit
                        /\ Lo(u)' = Hi(u)' \/ Hi(u)' <= cursor'
  BY <1>1, <1>2, <1>3 DEF ArenaInv, ArenaTypes, Parted, ArenaSetting
<1>5. \A u, v \in Alive' : u # v => Disjoint(Lo(u)', Hi(u)', Lo(v)', Hi(v)')
  <2>1. ASSUME NEW u \in Alive', NEW v \in Alive', u # v, u # t, v # t
        PROVE  Disjoint(Lo(u)', Hi(u)', Lo(v)', Hi(v)')
    BY <1>1, <1>2, <2>1 DEF ArenaInv, Parted
  <2>2. ASSUME NEW v \in Alive', v # t
        PROVE  Disjoint(Lo(t)', Hi(t)', Lo(v)', Hi(v)') /\ Disjoint(Lo(v)', Hi(v)', Lo(t)', Hi(t)')
    BY <1>1, <1>2, <2>2 DEF Disjoint
  <2> QED
    BY <2>1, <2>2
<1>6. \A b \in live', u \in Alive' : Disjoint(Lo(u)', Hi(u)', b.off, b.off + b.size)
  BY <1>1, <1>2
<1> QED
  BY <1>4, <1>5, <1>6 DEF Parted, Disjoint

\* A step of t that gives up part of what it may give out, or nothing.
LEMMA Shrinks ==
  ASSUME ArenaSetting, ArenaInv, NEW t \in Users, OthersAlone(t),
         a_pc[t] # "gone", cursor' = cursor, live' = live,
         Lo(t)' \in Nat, Hi(t)' \in Nat,
         Lo(t) <= Lo(t)', Lo(t)' <= Hi(t)', Hi(t)' <= Hi(t)
  PROVE  Parted'
<1>0. /\ t \in Alive /\ Lo(t) \in Nat /\ Hi(t) \in Nat /\ Limit \in Nat /\ cursor \in Nat
      /\ \A u \in Alive : Lo(u) \in Nat /\ Hi(u) \in Nat
  BY RegionNat DEF ArenaInv, Alive, ArenaTypes, ArenaSetting
<1>1. ASSUME NEW b \in live PROVE b.off \in Nat /\ b.off + b.size \in Nat
  BY BlockEnds DEF ArenaInv, ArenaTypes
<1>2. Hi(t)' <= Limit /\ (Lo(t)' = Hi(t)' \/ Hi(t)' <= cursor)
  BY <1>0 DEF ArenaInv, Parted
<1>3. ASSUME NEW u \in Alive \ {t} PROVE Disjoint(Lo(t)', Hi(t)', Lo(u), Hi(u))
  BY <1>0, <1>3, DisjointPart DEF ArenaInv, Parted
<1>4. ASSUME NEW b \in live PROVE Disjoint(Lo(t)', Hi(t)', b.off, b.off + b.size)
  <2>1. Disjoint(Lo(t), Hi(t), b.off, b.off + b.size)
    BY <1>0 DEF ArenaInv, Parted
  <2>2. PICK c \in Nat, d \in Nat : c = b.off /\ d = b.off + b.size
    BY <1>1
  <2>3. Disjoint(Lo(t), Hi(t), c, d)
    BY <2>1, <2>2
  <2>4. Disjoint(Lo(t)', Hi(t)', c, d)
    BY <1>0, <2>3, DisjointPart
  <2> QED
    BY <2>2, <2>4
<1> QED
  BY <1>0, <1>2, <1>3, <1>4, PartedMoves DEF ArenaInv, Parted, ArenaTypes

\* A step that moves no thread, at most frees blocks.
LEMMA PartedFewer ==
  ASSUME Parted, cursor' = cursor, live' \subseteq live, Alive' = Alive,
         \A u \in Alive : Lo(u)' = Lo(u) /\ Hi(u)' = Hi(u)
  PROVE  Parted'
<1>1. \A u \in Alive' : Lo(u)' <= Hi(u)' /\ Hi(u)' <= Limit /\ (Lo(u)' = Hi(u)' \/ Hi(u)' <= cursor')
  BY DEF Parted
<1>2. \A u, v \in Alive' : u # v => Disjoint(Lo(u)', Hi(u)', Lo(v)', Hi(v)')
  BY DEF Parted
<1>3. /\ \A b \in live' : b.off + b.size <= Limit /\ b.off + b.size <= cursor'
      /\ \A b, c \in live' : b # c => Disjoint(b.off, b.off + b.size, c.off, c.off + c.size)
  BY DEF Parted
<1>4. \A b \in live', u \in Alive' : Disjoint(Lo(u)', Hi(u)', b.off, b.off + b.size)
  BY DEF Parted
<1> QED
  BY <1>1, <1>2, <1>3, <1>4 DEF Parted, Disjoint

\* The threads about to move the cursor are finitely many.
LEMMA RefillingFinite ==
  ASSUME ArenaSetting
  PROVE  /\ IsFiniteSet(Refilling) /\ Cardinality(Refilling) \in Nat
         /\ Cardinality(Refilling) <= Cardinality(Users) /\ Cardinality(Users) \in Nat
<1>1. Refilling \subseteq Users
  BY DEF Refilling
<1> QED
  BY <1>1, FS_Subset, FS_CardinalityType DEF ArenaSetting

\* No thread begins to refill, and the cursor stays.
LEMMA NoWrapKept ==
  ASSUME ArenaSetting, ArenaTypes, NoWrap, cursor' = cursor, Refilling' \subseteq Refilling
  PROVE  NoWrap'
<1>1. /\ Cardinality(Refilling') \in Nat /\ Cardinality(Refilling) \in Nat
      /\ Cardinality(Refilling') <= Cardinality(Refilling)
  BY RefillingFinite, FS_Subset, FS_CardinalityType
<1>2. /\ Chunk * Cardinality(Refilling') <= Chunk * Cardinality(Refilling)
      /\ Chunk * Cardinality(Refilling') \in Nat /\ Chunk * Cardinality(Refilling) \in Nat
      /\ Chunk * Cardinality(Users) \in Nat
  BY <1>1, RefillingFinite, Times DEF ArenaSetting
<1> QED
  BY <1>2 DEF NoWrap, ArenaTypes, ArenaSetting

\* The steps of t that store in no word and move no cursor.
LEMMA LooksOnly ==
  ASSUME ArenaSetting, ArenaInv, NEW t \in Users, a_pc[t] \in {"idle", "refill", "check", "bins"},
         NEW there \in {"idle", "refill", "check", "bump", "bins"},
         a_pc' = [a_pc EXCEPT ![t] = there],
         UNCHANGED <<cursor, tls_off, tls_end, live>>,
         need' \in [Users -> Nat], a_cur' \in [Users -> Nat],
         \A u \in Users \ {t} : need'[u] = need[u] /\ a_cur'[u] = a_cur[u],
         Placing(t)'
  PROVE  ArenaTypes' /\ (\A u \in Users : Placing(u)') /\ Parted'
<1>1. /\ a_pc' \in [Users -> {"idle", "refill", "setoff", "setend", "check", "bump", "bins", "gone"}]
      /\ a_pc'[t] = there /\ \A u \in Users \ {t} : a_pc'[u] = a_pc[u]
  BY DEF ArenaInv, ArenaTypes
<1>2. ArenaTypes'
  BY <1>1 DEF ArenaInv, ArenaTypes
<1>3. OthersAlone(t)
  BY <1>1 DEF OthersAlone, Off, End
<1>4. \A u \in Users : Placing(u)'
  BY <1>3, OthersStay DEF ArenaInv
<1>5. Lo(t) \in Nat /\ Hi(t) \in Nat /\ Lo(t)' = Lo(t) /\ Hi(t)' = Hi(t) /\ t \in Alive
  BY <1>1, RegionNat DEF Lo, Hi, Off, End, ArenaInv, Alive
<1>6. Lo(t) <= Hi(t)
  BY <1>5 DEF ArenaInv, Parted
<1>7. Parted'
  BY <1>3, <1>5, <1>6, Shrinks
<1> QED
  BY <1>2, <1>4, <1>7

\* __jacl_alloc_arena, up to the choice between the chunk and a new one.
LEMMA MallocIn ==
  ASSUME ArenaSetting, ArenaInv, NEW t \in Users, NEW n \in Needs, ArenaMalloc(t, n)
  PROVE  ArenaInv'
<1>0. n \in Nat /\ need' = [need EXCEPT ![t] = n] /\ a_pc[t] = "idle" /\ cursor < MaxCursor
      /\ UNCHANGED <<cursor, tls_off, tls_end, live, a_cur>>
  BY DEF ArenaMalloc, From, ArenaSetting
<1>1. /\ need' \in [Users -> Nat] /\ a_cur' \in [Users -> Nat] /\ need'[t] = n
      /\ \A u \in Users \ {t} : need'[u] = need[u] /\ a_cur'[u] = a_cur[u]
  BY <1>0 DEF ArenaInv, ArenaTypes
<1>2. PICK there \in {"check", "refill"} :
        /\ a_pc' = [a_pc EXCEPT ![t] = there]
        /\ there = "check" => Off(t) + n <= End(t)
  BY DEF ArenaMalloc, From
<1>3. a_pc'[t] = there /\ \A u \in Users \ {t} : a_pc'[u] = a_pc[u]
  BY <1>2 DEF ArenaInv, ArenaTypes
<1>4. Placing(t)'
  BY <1>0, <1>1, <1>2, <1>3 DEF Placing, Off, End
<1>5. ArenaTypes' /\ (\A u \in Users : Placing(u)') /\ Parted'
  BY <1>0, <1>1, <1>2, <1>4, LooksOnly
<1>6. NoWrap'
  <2>1. CASE there = "check"
    <3>1. Refilling' \subseteq Refilling
      BY <1>3, <2>1 DEF Refilling
    <3> QED
      BY <1>0, <3>1, NoWrapKept DEF ArenaInv
  <2>2. CASE there = "refill"
    <3> DEFINE k == Cardinality(Refilling)
    <3>1. Refilling' = Refilling \cup {t} /\ t \notin Refilling
      BY <1>0, <1>3, <2>2 DEF Refilling
    <3>2. Cardinality(Refilling') = k + 1 /\ k \in Nat
      BY <3>1, RefillingFinite, FS_AddElement
    <3>3. k + 1 <= Cardinality(Users) /\ Cardinality(Users) \in Nat
      <4>1. Refilling' \subseteq Users
        BY DEF Refilling
      <4> QED
        BY <3>2, <4>1, FS_Subset, FS_CardinalityType DEF ArenaSetting
    <3> HIDE DEF k
    <3>4. /\ Chunk * (k + 1) <= Chunk * Cardinality(Users)
          /\ Chunk * (k + 1) \in Nat /\ Chunk * Cardinality(Users) \in Nat
      BY <3>2, <3>3, Times DEF ArenaSetting
    <3> QED
      BY <1>0, <3>2, <3>4 DEF NoWrap, ArenaSetting, ArenaInv, ArenaTypes
  <2> QED
    BY <2>1, <2>2
<1> QED
  BY <1>5, <1>6 DEF ArenaInv

\* The tests against the limit, and the way on to the bins.
LEMMA PlaceIn ==
  ASSUME ArenaSetting, ArenaInv, NEW t \in Users, Place(t) \/ ToBins(t)
  PROVE  ArenaInv'
<1>0. /\ Off(t) \in Nat /\ End(t) \in Nat /\ need[t] \in Nat /\ Limit \in Nat /\ Placing(t)
      /\ UNCHANGED <<cursor, tls_off, tls_end, live>>
  BY RegionNat DEF ArenaInv, ArenaTypes, ArenaSetting, Place, ToBins
<1>1. PICK there \in {"idle", "bump", "bins"} : a_pc' = [a_pc EXCEPT ![t] = there]
  BY DEF Place, ToBins, From
<1>2. a_pc'[t] = there /\ \A u \in Users \ {t} : a_pc'[u] = a_pc[u]
  BY <1>1 DEF ArenaInv, ArenaTypes
<1>3. /\ need' \in [Users -> Nat] /\ a_cur' \in [Users -> Nat]
      /\ \A u \in Users \ {t} : need'[u] = need[u] /\ a_cur'[u] = a_cur[u]
  BY <1>0 DEF ArenaInv, ArenaTypes, Place, ToBins, Return
<1>4. Placing(t)' /\ a_pc[t] \in {"check", "bins"}
  <2>0. Off(t)' = Off(t) /\ End(t)' = End(t)
    BY <1>0 DEF Off, End
  <2>1. CASE Place(t)
    <3>1. /\ a_pc[t] = "check" /\ a_cur'[t] = Off(t) /\ need' = need
          /\ there = IF Off(t) + need[t] > Limit THEN "bins" ELSE "bump"
      BY <1>2, <2>1 DEF Place, From, ArenaInv, ArenaTypes
    <3> QED
      BY <1>0, <1>2, <2>0, <3>1 DEF Placing
  <2>2. CASE ToBins(t)
    <3>1. a_pc[t] = "bins" /\ there = "idle"
      BY <1>2, <2>2 DEF ToBins, From, ArenaInv, ArenaTypes
    <3> QED
      BY <1>2, <3>1 DEF Placing
  <2> QED
    BY <2>1, <2>2
<1>5. Refilling' \subseteq Refilling
  BY <1>2 DEF Refilling
<1>6. ArenaTypes' /\ (\A u \in Users : Placing(u)') /\ Parted'
  BY <1>0, <1>1, <1>3, <1>4, LooksOnly
<1>7. NoWrap'
  BY <1>0, <1>5, NoWrapKept DEF ArenaInv
<1> QED
  BY <1>6, <1>7 DEF ArenaInv

\* The fetch_add on the cursor does not wrap around.
LEMMA CursorMoves ==
  ASSUME ArenaSetting, ArenaInv, NEW t \in Users, Refill(t)
  PROVE  cursor' = cursor + Chunk /\ cursor \in Nat /\ NoWrap'
<1> DEFINE k == Cardinality(Refilling)
<1>1. /\ t \in Refilling /\ Refilling' = Refilling \ {t}
  BY DEF Refill, From, Refilling, ArenaInv, ArenaTypes
<1>2. PICK j \in Nat : k = j + 1 /\ Cardinality(Refilling') = j
  <2>1. Cardinality(Refilling') = k - 1 /\ k \in Nat
    BY <1>1, RefillingFinite, FS_RemoveElement
  <2>2. k # 0
    BY <1>1, RefillingFinite, FS_EmptySet
  <2> HIDE DEF k
  <2> QED
    BY <2>1, <2>2
<1>3. /\ Chunk * k = Chunk * j + Chunk /\ Chunk * j \in Nat /\ Chunk * Cardinality(Users) \in Nat
  BY <1>2, RefillingFinite, Times DEF ArenaSetting
<1> HIDE DEF k
<1>4. cursor + (Chunk * j + Chunk) <= MaxCursor + Chunk * Cardinality(Users) /\ cursor \in Nat
  BY <1>3 DEF ArenaInv, NoWrap, ArenaTypes, k
<1>5. cursor + Chunk < CursorWidth /\ cursor + Chunk \in Nat
  BY <1>3, <1>4 DEF ArenaSetting
<1>6. cursor' = cursor + Chunk
  BY <1>5 DEF Refill, ArenaSetting
<1> QED
  BY <1>2, <1>3, <1>4, <1>6 DEF NoWrap, ArenaSetting

\* __jacl_tls_refill takes what lies past everything given out before.
LEMMA RefillIn ==
  ASSUME ArenaSetting, ArenaInv, NEW t \in Users, Refill(t)
  PROVE  ArenaInv'
<1>0. /\ cursor' = cursor + Chunk /\ cursor \in Nat /\ cursor' \in Nat /\ Limit \in Nat /\ Chunk \in Nat
      /\ NoWrap' /\ cursor <= cursor'
  BY CursorMoves DEF ArenaSetting
<1>1. /\ a_pc[t] = "refill" /\ a_cur' = [a_cur EXCEPT ![t] = cursor]
      /\ UNCHANGED <<tls_off, tls_end, live, need>>
  BY DEF Refill, From
<1>2. PICK there \in {"bins", "setoff"} :
        /\ a_pc' = [a_pc EXCEPT ![t] = there]
        /\ there = "setoff" => cursor < Limit
  <2>1. CASE cursor >= Limit
    BY <2>1 DEF Refill, From
  <2>2. CASE cursor < Limit
    BY <1>0, <2>2 DEF Refill, From
  <2> QED
    BY <1>0, <2>1, <2>2
<1>3. /\ a_pc'[t] = there /\ \A u \in Users \ {t} : a_pc'[u] = a_pc[u]
      /\ a_cur'[t] = cursor /\ \A u \in Users \ {t} : a_cur'[u] = a_cur[u]
  BY <1>1, <1>2 DEF ArenaInv, ArenaTypes
<1>4. ArenaTypes'
  BY <1>0, <1>1, <1>2 DEF ArenaInv, ArenaTypes
<1>5. OthersAlone(t)
  BY <1>1, <1>3 DEF OthersAlone, Off, End
<1>6. Placing(t)'
  BY <1>1, <1>2, <1>3 DEF Placing, ArenaInv
<1>7. \A u \in Users : Placing(u)'
  BY <1>5, <1>6, OthersStay DEF ArenaInv
<1>8. /\ t \in Alive
      /\ \A u \in Alive : Lo(u) \in Nat /\ Hi(u) \in Nat /\ Lo(u) <= Hi(u) /\ Hi(u) <= Limit
      /\ \A u \in Alive : Lo(u) = Hi(u) \/ Hi(u) <= cursor
  BY <1>1, RegionNat DEF ArenaInv, Alive, Parted
<1>9. \A b \in live : /\ b \in [off : Nat, size : Needs] /\ b.off + b.size \in Nat
                      /\ b.off + b.size <= Limit /\ b.off + b.size <= cursor
                      /\ b.off + b.size <= cursor'
  BY <1>0, BlockEnds DEF ArenaInv, ArenaTypes, Parted
<1>10. CASE there = "bins"
  <2>1. Lo(t)' = Lo(t) /\ Hi(t)' = Hi(t)
    BY <1>1, <1>3, <1>10 DEF Lo, Hi, Off, End
  <2>2. Lo(t)' <= Hi(t)' /\ Hi(t)' <= Limit /\ (Lo(t)' = Hi(t)' \/ Hi(t)' <= cursor')
    BY <1>0, <1>8, <2>1
  <2>3. Parted'
    BY <1>0, <1>1, <1>5, <1>8, <1>9, <2>1, <2>2, PartedMoves DEF ArenaInv, Parted
  <2> QED
    BY <1>0, <1>4, <1>7, <2>3 DEF ArenaInv
<1>11. CASE there = "setoff"
  <2>1. Lo(t)' = cursor /\ Hi(t)' = cursor + Available(cursor)
    BY <1>3, <1>11 DEF Lo, Hi, Available
  <2>2. Lo(t)' <= Hi(t)' /\ Hi(t)' <= Limit /\ Hi(t)' <= cursor' /\ Hi(t)' \in Nat
    BY <1>0, <1>2, <1>11, <2>1 DEF Available
  <2>3. \A u \in Alive \ {t} : Disjoint(Lo(t)', Hi(t)', Lo(u), Hi(u))
    BY <1>8, <2>1 DEF Disjoint
  <2>4. \A b \in live : Disjoint(Lo(t)', Hi(t)', b.off, b.off + b.size)
    BY <1>9, <2>1 DEF Disjoint
  <2>5. Parted'
    BY <1>0, <1>1, <1>5, <1>9, <2>2, <2>3, <2>4, PartedMoves DEF ArenaInv, Parted
  <2> QED
    BY <1>0, <1>4, <1>7, <2>5 DEF ArenaInv
<1> QED
  BY <1>2, <1>10, <1>11

\* A chunk that begins below the bins ends there at the latest.
LEMMA ChunkEnd ==
  ASSUME NEW c \in Nat, Limit \in Nat, Chunk \in Nat, c < Limit
  PROVE  LET end == c + Available(c) IN
         end \in Nat /\ end <= Limit /\ (end = Limit \/ end = c + Chunk) /\ c <= end
<1>1. CASE c + Chunk > Limit
  <2>1. c + Available(c) = Limit
    BY <1>1 DEF Available
  <2> QED
    BY <2>1
<1>2. CASE ~(c + Chunk > Limit)
  <2>1. c + Available(c) = c + Chunk
    BY <1>2 DEF Available
  <2> QED
    BY <1>2, <2>1
<1> QED
  BY <1>1, <1>2

\* tls_off and then tls_end are stored: what t may give out is the new chunk.
LEMMA StoreIn ==
  ASSUME ArenaSetting, ArenaInv, NEW t \in Users, RefillOff(t) \/ RefillEnd(t)
  PROVE  ArenaInv'
<1> DEFINE end == a_cur[t] + Available(a_cur[t])
<1>0. /\ a_cur[t] \in Nat /\ need[t] \in Needs /\ a_cur[t] < Limit /\ Limit \in Nat /\ Chunk \in Nat
      /\ \A n \in Needs : n \in Nat /\ n <= Chunk
      /\ a_pc[t] \in {"setoff", "setend"} /\ t \in Alive
      /\ a_pc[t] = "setend" => Off(t) = a_cur[t]
      /\ UNCHANGED <<cursor, live, need, a_cur>>
  BY DEF RefillOff, RefillEnd, From, ArenaInv, ArenaTypes, Placing, ArenaSetting, Alive
<1>1. end \in Nat /\ end <= Limit /\ (end = Limit \/ end = a_cur[t] + Chunk) /\ a_cur[t] <= end
  BY <1>0, ChunkEnd
<1>2. PICK there \in {"setend", "check"} : a_pc' = [a_pc EXCEPT ![t] = there]
  BY DEF RefillOff, RefillEnd, From
<1>3. a_pc'[t] = there /\ \A u \in Users \ {t} : a_pc'[u] = a_pc[u]
  BY <1>2 DEF ArenaInv, ArenaTypes
<1>4. Lo(t) = a_cur[t] /\ Hi(t) = end
  BY <1>0 DEF Lo, Hi
<1>5. /\ tls_off' \in [Tls -> Nat] /\ tls_end' \in [Tls -> Nat]
      /\ \A u \in Users \ {t} : Off(u)' = Off(u) /\ End(u)' = End(u)
      /\ Off(t)' = a_cur[t]
      /\ there = "check" => End(t)' = end
  <2>0. ArenaTypes
    BY DEF ArenaInv
  <2>1. CASE RefillOff(t)
    <3>1. /\ tls_off' = [tls_off EXCEPT ![TlsOf[t]] = a_cur[t]] /\ tls_end' = tls_end
          /\ a_pc'[t] = "setend"
      BY <2>0, <2>1 DEF RefillOff, From, ArenaTypes
    <3>2. \A u \in Users : End(u)' = End(u)
      BY <3>1 DEF End
    <3> QED
      BY <1>0, <1>3, <2>0, <3>1, <3>2, StoresOff DEF ArenaTypes
  <2>2. CASE RefillEnd(t)
    <3>1. /\ tls_end' = [tls_end EXCEPT ![TlsOf[t]] = end] /\ tls_off' = tls_off
          /\ a_pc[t] = "setend"
      BY <2>2 DEF RefillEnd, From
    <3>2. \A u \in Users : Off(u)' = Off(u)
      BY <3>1 DEF Off
    <3> QED
      BY <1>0, <1>1, <2>0, <3>1, <3>2, StoresEnd DEF ArenaTypes
  <2> QED
    BY <2>1, <2>2
<1>6. ArenaTypes'
  BY <1>0, <1>2, <1>5 DEF ArenaInv, ArenaTypes
<1>7. OthersAlone(t)
  BY <1>0, <1>3, <1>5 DEF OthersAlone
<1>8. Lo(t)' = a_cur[t] /\ Hi(t)' = end
  BY <1>0, <1>3, <1>5 DEF Lo, Hi, Available
<1> HIDE DEF end
<1>9. Placing(t)'
  <2>1. /\ a_pc'[t] \in {"setend", "check"} /\ need'[t] \in Needs /\ a_cur'[t] < Limit
        /\ Off(t)' = a_cur'[t]
    BY <1>0, <1>3, <1>5
  <2>2. ASSUME a_pc'[t] = "check", Off(t)' + need'[t] <= Limit
        PROVE  Off(t)' + need'[t] <= End(t)'
    <3>1. Off(t)' = a_cur[t] /\ End(t)' = end /\ need'[t] = need[t]
      BY <1>0, <1>3, <1>5, <2>2
    <3>2. need[t] \in Nat /\ need[t] <= Chunk
      BY <1>0
    <3> QED
      BY <1>0, <1>1, <2>2, <3>1, <3>2
  <2> QED
    BY <2>1, <2>2 DEF Placing
<1>10. \A u \in Users : Placing(u)'
  BY <1>7, <1>9, OthersStay DEF ArenaInv
<1>11. Parted'
  BY <1>0, <1>1, <1>4, <1>7, <1>8, Shrinks
<1>12. Refilling' \subseteq Refilling
  BY <1>3 DEF Refilling
<1>13. NoWrap'
  BY <1>0, <1>12, NoWrapKept DEF ArenaInv
<1> QED
  BY <1>6, <1>10, <1>11, <1>13 DEF ArenaInv

\* A step of an idle or a bumping t that turns the start of what it may give out
\* into part of block b, which ends where that starts: live blocks but one stay.
LEMMA BlockGrows ==
  ASSUME ArenaSetting, ArenaInv, NEW t \in Users, OthersAlone(t), t \in Alive,
         NEW b \in [off : Nat, size : Needs], NEW rest \in SUBSET live,
         cursor' = cursor, live' = rest \cup {b},
         Lo(t)' = b.off + b.size, Hi(t)' = Hi(t), Lo(t) < b.off + b.size, b.off + b.size <= Hi(t),
         \A c \in rest : \/ c.off + c.size <= b.off
                         \/ Lo(t) <= c.off,
         \A u \in Alive \ {t} : Disjoint(Lo(u), Hi(u), b.off, Lo(t)) \/ b.off = Lo(t)
  PROVE  Parted'
<1>0. /\ \A u \in Alive : Lo(u) \in Nat /\ Hi(u) \in Nat
      /\ cursor \in Nat /\ Limit \in Nat /\ Hi(t) <= Limit /\ Lo(t) # Hi(t) /\ Hi(t) <= cursor
      /\ b.off \in Nat /\ b.size \in Nat /\ b.size >= 1 /\ b.off + b.size \in Nat
  <2>1. \A u \in Alive : Lo(u) \in Nat /\ Hi(u) \in Nat
    BY RegionNat DEF ArenaInv, Alive
  <2>2. b.off \in Nat /\ b.size \in Nat /\ b.size >= 1 /\ b.off + b.size \in Nat
    BY BlockEnds
  <2>3. cursor \in Nat /\ Limit \in Nat
    BY DEF ArenaInv, ArenaTypes, ArenaSetting
  <2>4. Lo(t) # Hi(t)
    BY <2>1, <2>2
  <2>5. Hi(t) <= Limit /\ Hi(t) <= cursor
    BY <2>4 DEF ArenaInv, Parted
  <2> QED
    BY <2>1, <2>2, <2>3, <2>4, <2>5
<1>1. ASSUME NEW c \in live
      PROVE  /\ c \in [off : Nat, size : Needs]
             /\ c.off \in Nat /\ c.size \in Nat /\ c.size >= 1 /\ c.off + c.size \in Nat
             /\ c.off + c.size <= Limit /\ c.off + c.size <= cursor
             /\ \A u \in Alive : Disjoint(Lo(u), Hi(u), c.off, c.off + c.size)
             /\ c.off + c.size <= Lo(t) \/ Hi(t) <= c.off
  <2>1. c \in [off : Nat, size : Needs]
    BY DEF ArenaInv, ArenaTypes
  <2>2. c.off \in Nat /\ c.size \in Nat /\ c.size >= 1 /\ c.off + c.size \in Nat
    BY <2>1, BlockEnds
  <2>3. /\ c.off + c.size <= Limit /\ c.off + c.size <= cursor
        /\ \A u \in Alive : Disjoint(Lo(u), Hi(u), c.off, c.off + c.size)
    BY DEF ArenaInv, Parted
  <2> QED
    BY <1>0, <2>1, <2>2, <2>3 DEF Disjoint
<1>2. \A c \in rest : c.off + c.size <= b.off \/ b.off + b.size <= c.off
  BY <1>0, <1>1
<1>3. ASSUME NEW u \in Alive \ {t}
      PROVE  /\ Disjoint(Lo(u), Hi(u), b.off, b.off + b.size)
             /\ Disjoint(Lo(t)', Hi(t)', Lo(u), Hi(u))
  <2>1. Disjoint(Lo(t), Hi(t), Lo(u), Hi(u)) /\ Lo(u) <= Hi(u)
    BY DEF ArenaInv, Parted, Alive
  <2> QED
    BY <1>0, <2>1 DEF Disjoint
<1>4. \A c \in live' : Disjoint(Lo(t)', Hi(t)', c.off, c.off + c.size)
  BY <1>0, <1>1 DEF Disjoint
<1>5. \A c, d \in live' : c # d => Disjoint(c.off, c.off + c.size, d.off, d.off + d.size)
  <2>1. ASSUME NEW c \in rest, NEW d \in rest, c # d
        PROVE  Disjoint(c.off, c.off + c.size, d.off, d.off + d.size)
    BY <2>1 DEF ArenaInv, Parted
  <2>2. ASSUME NEW c \in rest
        PROVE  /\ Disjoint(c.off, c.off + c.size, b.off, b.off + b.size)
               /\ Disjoint(b.off, b.off + b.size, c.off, c.off + c.size)
    BY <1>2, <2>2 DEF Disjoint
  <2> QED
    BY <2>1, <2>2
<1>6. \A c \in live' : /\ c \in [off : Nat, size : Needs]
                       /\ c.off + c.size <= Limit /\ c.off + c.size <= cursor'
  BY <1>0, <1>1
<1>7. \A c \in live', u \in Alive \ {t} : Disjoint(Lo(u), Hi(u), c.off, c.off + c.size)
  BY <1>1, <1>3
<1>8. Lo(t)' <= Hi(t)' /\ Hi(t)' <= Limit /\ Hi(t)' <= cursor' /\ a_pc[t] # "gone"
  BY <1>0 DEF Alive
<1>9. cursor' \in Nat /\ cursor <= cursor'
  BY <1>0
<1>10. \A u \in Alive \ {t} : Disjoint(Lo(t)', Hi(t)', Lo(u), Hi(u))
  BY <1>3
<1> QED
  BY <1>4, <1>5, <1>6, <1>7, <1>8, <1>9, <1>10, PartedMoves

\* A block of the arena that is live lies apart from what t may give out.
LEMMA LiveApart ==
  ASSUME ArenaSetting, ArenaInv, NEW t \in Alive, NEW c \in live
  PROVE  /\ c.off \in Nat /\ c.size \in Nat /\ c.size >= 1 /\ c.off + c.size \in Nat
         /\ Lo(t) < Hi(t) => c.off + c.size <= Lo(t) \/ Hi(t) <= c.off
<1>1. c.off \in Nat /\ c.size \in Nat /\ c.size >= 1 /\ c.off + c.size \in Nat
  BY BlockEnds DEF ArenaInv, ArenaTypes
<1>2. Disjoint(Lo(t), Hi(t), c.off, c.off + c.size)
  BY DEF ArenaInv, Parted
<1>3. Lo(t) \in Nat /\ Hi(t) \in Nat
  BY RegionNat DEF ArenaInv, Alive
<1> QED
  BY <1>1, <1>2, <1>3 DEF Disjoint

\* tls_off moves past the new block, and malloc returns it.
LEMMA BumpIn ==
  ASSUME ArenaSetting, ArenaInv, NEW t \in Users, Bump(t)
  PROVE  ArenaInv'
<1> DEFINE b == ArenaBlock(Off(t), need[t])
           end == Off(t) + need[t]
<1>0. /\ a_pc[t] = "bump" /\ a_cur[t] = Off(t) /\ end <= End(t)
      /\ need[t] \in Needs /\ need[t] \in Nat /\ need[t] >= 1
      /\ Off(t) \in Nat /\ End(t) \in Nat /\ end \in Nat /\ t \in Alive
  <2>1. a_pc[t] = "bump" /\ Placing(t) /\ ArenaTypes
    BY DEF ArenaInv, Bump, From
  <2>2. a_cur[t] = Off(t) /\ end <= End(t) /\ need[t] \in Needs /\ t \in Alive
    BY <2>1 DEF Placing, Alive
  <2>3. Off(t) \in Nat /\ End(t) \in Nat
    BY <2>1, RegionNat
  <2>4. need[t] \in Nat /\ need[t] >= 1
    BY <2>2, SomeNeed
  <2>5. end \in Nat
    BY <2>3, <2>4
  <2> QED
    BY <2>1, <2>2, <2>3, <2>4, <2>5
<1>1. /\ a_pc' = [a_pc EXCEPT ![t] = "idle"]
      /\ tls_off' = [tls_off EXCEPT ![TlsOf[t]] = end]
      /\ live' = live \cup {b} /\ Return(t) /\ UNCHANGED <<cursor, tls_end>>
  BY <1>0 DEF Bump, From, Off
<1>2. /\ tls_off' \in [Tls -> Nat] /\ Off(t)' = end /\ End(t)' = End(t)
      /\ \A u \in Users \ {t} : Off(u)' = Off(u) /\ End(u)' = End(u)
  <2>1. \A u \in Users : End(u)' = End(u)
    BY <1>1 DEF End
  <2> QED
    BY <1>0, <1>1, <2>1, StoresOff DEF ArenaInv
<1>3. /\ a_pc'[t] = "idle" /\ need'[t] = 0
      /\ \A u \in Users \ {t} : /\ a_pc'[u] = a_pc[u] /\ a_cur'[u] = a_cur[u]
                                /\ need'[u] = need[u]
      /\ a_cur' \in [Users -> Nat] /\ need' \in [Users -> Nat]
  BY <1>1 DEF ArenaInv, ArenaTypes, Return
<1>4. b \in [off : Nat, size : Needs] /\ b.off = Off(t) /\ b.off + b.size = end
  BY <1>0 DEF ArenaBlock
<1> HIDE DEF b, end
<1>5. ArenaTypes'
  BY <1>1, <1>2, <1>3, <1>4 DEF ArenaInv, ArenaTypes
<1>6. OthersAlone(t)
  BY <1>2, <1>3 DEF OthersAlone
<1>7. \A u \in Users : Placing(u)'
  <2>1. Placing(t)'
    BY <1>3 DEF Placing
  <2> QED
    BY <1>6, <2>1, OthersStay DEF ArenaInv
<1>8. Lo(t) = Off(t) /\ Hi(t) = End(t) /\ Lo(t)' = end /\ Hi(t)' = End(t) /\ Off(t) < end
  <2>1. Off(t) < end
    BY <1>0 DEF end
  <2>2. Lo(t) = Off(t) /\ Hi(t) = End(t)
    BY <1>0 DEF Lo, Hi
  <2>3. Lo(t)' = Off(t)' /\ Hi(t)' = End(t)'
    BY <1>3 DEF Lo, Hi
  <2> QED
    BY <1>2, <2>1, <2>2, <2>3
<1>9. ASSUME NEW c \in live PROVE c.off + c.size <= b.off \/ Lo(t) <= c.off
  <2>1. Lo(t) < Hi(t)
    BY <1>0, <1>8
  <2>2. c.off \in Nat /\ (c.off + c.size <= Lo(t) \/ Hi(t) <= c.off)
    BY <1>0, <2>1, LiveApart
  <2> QED
    BY <1>0, <1>4, <1>8, <2>1, <2>2
<1>10. Parted'
  <2>1. live \in SUBSET live /\ cursor' = cursor
    BY <1>1
  <2>2. Lo(t) < b.off + b.size /\ b.off + b.size <= Hi(t) /\ b.off = Lo(t)
    BY <1>0, <1>4, <1>8
  <2> QED
    BY <1>0, <1>1, <1>4, <1>6, <1>8, <1>9, <2>1, <2>2, BlockGrows
<1>11. Refilling' \subseteq Refilling
  BY <1>3 DEF Refilling
<1>12. NoWrap'
  BY <1>1, <1>11, NoWrapKept DEF ArenaInv
<1> QED
  BY <1>5, <1>7, <1>10, <1>12 DEF ArenaInv

\* realloc grows the block that ends at tls_off.
LEMMA ReallocIn ==
  ASSUME ArenaSetting, ArenaInv, NEW t \in Users, NEW b \in live, NEW n \in Needs, Realloc(t, b, n)
  PROVE  ArenaInv'
<1> DEFINE g == ArenaBlock(b.off, n)
           end == b.off + n
<1>0. /\ a_pc[t] = "idle" /\ t \in Alive /\ n \in Nat /\ n > b.size
      /\ b.off \in Nat /\ b.size \in Nat /\ b.size >= 1 /\ b.off + b.size = Off(t)
      /\ Off(t) \in Nat /\ End(t) \in Nat /\ Off(t) + (n - b.size) <= End(t)
  <2>1. a_pc[t] = "idle" /\ t \in Alive /\ Placing(t) /\ ArenaTypes
    BY DEF Realloc, Alive, ArenaInv
  <2>2. n > b.size /\ b.off + b.size = Off(t) /\ Off(t) + (n - b.size) <= End(t)
    BY DEF Realloc
  <2>3. b.off \in Nat /\ b.size \in Nat /\ b.size >= 1
    BY <2>1, LiveApart
  <2> QED
    BY <2>1, <2>2, <2>3, RegionNat, SomeNeed
<1>1. Off(t) + (n - b.size) = end /\ end \in Nat /\ Off(t) < end /\ end <= End(t)
  BY <1>0
<1>2. /\ tls_off' = [tls_off EXCEPT ![TlsOf[t]] = end]
      /\ live' = (live \ {b}) \cup {g} /\ UNCHANGED <<cursor, tls_end, a_pc, need, a_cur>>
  BY <1>1 DEF Realloc, Off
<1>3. /\ tls_off' \in [Tls -> Nat] /\ Off(t)' = end /\ End(t)' = End(t)
      /\ \A u \in Users \ {t} : Off(u)' = Off(u) /\ End(u)' = End(u)
  <2>1. \A u \in Users : End(u)' = End(u)
    BY <1>2 DEF End
  <2> QED
    BY <1>1, <1>2, <2>1, StoresOff DEF ArenaInv
<1>4. g \in [off : Nat, size : Needs] /\ g.off = b.off /\ g.off + g.size = end
  BY <1>0 DEF ArenaBlock
<1> HIDE DEF g, end
<1>5. ArenaTypes'
  BY <1>2, <1>3, <1>4 DEF ArenaInv, ArenaTypes
<1>6. OthersAlone(t)
  BY <1>2, <1>3 DEF OthersAlone
<1>7. \A u \in Users : Placing(u)'
  <2>1. Placing(t)'
    BY <1>0, <1>2 DEF Placing
  <2> QED
    BY <1>6, <2>1, OthersStay DEF ArenaInv
<1>8. Lo(t) = Off(t) /\ Hi(t) = End(t) /\ Lo(t)' = end /\ Hi(t)' = End(t)
  BY <1>0, <1>2, <1>3 DEF Lo, Hi
<1>9. \A c \in live \ {b} : c.off + c.size <= g.off \/ Lo(t) <= c.off
  <2>1. \A c \in live \ {b} : Disjoint(c.off, c.off + c.size, b.off, b.off + b.size)
    BY DEF ArenaInv, Parted
  <2> QED
    BY <1>0, <1>4, <1>8, <2>1, LiveApart DEF Disjoint
<1>10. \A u \in Alive \ {t} : Disjoint(Lo(u), Hi(u), g.off, Lo(t))
  BY <1>0, <1>4, <1>8 DEF ArenaInv, Parted
<1>11. Parted'
  <2>1. (live \ {b}) \in SUBSET live /\ cursor' = cursor
    BY <1>2
  <2>2. Lo(t) < g.off + g.size /\ g.off + g.size <= Hi(t)
    BY <1>1, <1>4, <1>8
  <2> QED
    BY <1>0, <1>2, <1>4, <1>6, <1>8, <1>9, <1>10, <2>1, <2>2, BlockGrows
<1>12. NoWrap'
  BY <1>2, NoWrapKept DEF ArenaInv, Refilling
<1> QED
  BY <1>5, <1>7, <1>11, <1>12 DEF ArenaInv

\* A block goes, and in the child of a fork the other threads and the chunk of
\* the one that is left.
LEMMA FreeIn ==
  ASSUME ArenaSetting, ArenaInv, NEW t \in Users, (\E b \in live : Free(t, b)) \/ Reset(t)
  PROVE  ArenaInv'
<1>1. CASE \E b \in live : Free(t, b)
  <2>1. live' \subseteq live /\ UNCHANGED <<cursor, tls_off, tls_end, a_pc, need, a_cur>>
    BY <1>1 DEF Free
  <2>2. ArenaTypes'
    BY <2>1 DEF ArenaInv, ArenaTypes
  <2>3. \A u \in Users : Placing(u)' /\ Lo(u)' = Lo(u) /\ Hi(u)' = Hi(u)
    BY <2>1 DEF ArenaInv, Placing, Lo, Hi, Off, End, Available
  <2>4. Alive' = Alive /\ Refilling' = Refilling
    BY <2>1 DEF Alive, Refilling
  <2>5. Parted'
    <3>1. \A u \in Alive : u \in Users
      BY DEF Alive
    <3> QED
      BY <2>1, <2>3, <2>4, <3>1, PartedFewer DEF ArenaInv
  <2>6. NoWrap'
    BY <2>1, <2>4, NoWrapKept DEF ArenaInv
  <2> QED
    BY <2>2, <2>3, <2>5, <2>6 DEF ArenaInv
<1>2. CASE Reset(t)
  <2>0. Limit \in Nat /\ cursor \in Nat
    BY DEF ArenaSetting, ArenaInv, ArenaTypes
  <2>1. /\ a_pc[t] = "idle" /\ a_pc'[t] = "idle"
        /\ \A u \in Users \ {t} : a_pc'[u] = "gone"
        /\ UNCHANGED <<cursor, live, need, a_cur>>
    BY <1>2 DEF Reset
  <2>2. /\ tls_off' \in [Tls -> Nat] /\ tls_end' \in [Tls -> Nat]
        /\ Off(t)' = Limit /\ End(t)' = Limit
    BY <1>2, <2>0, StoresOff, StoresEnd DEF Reset, ArenaInv
  <2>3. ArenaTypes'
    BY <1>2, <2>1, <2>2 DEF ArenaInv, ArenaTypes, Reset
  <2>4. \A u \in Users : Placing(u)'
    BY <2>1 DEF Placing
  <2>5. Alive' = {t} /\ Lo(t)' = Limit /\ Hi(t)' = Limit
    BY <2>1, <2>2 DEF Alive, Lo, Hi
  <2>6. Parted'
    <3>1. /\ \A b \in live' : b.off + b.size <= Limit /\ b.off + b.size <= cursor'
          /\ \A b, c \in live' : b # c => Disjoint(b.off, b.off + b.size, c.off, c.off + c.size)
      BY <2>1 DEF ArenaInv, Parted
    <3>2. \A u \in Alive' : u = t /\ Lo(u)' = Limit /\ Hi(u)' = Limit
      BY <2>5
    <3>3. \A u \in Alive' : \A b \in live' : Disjoint(Lo(u)', Hi(u)', b.off, b.off + b.size)
      BY <3>2 DEF Disjoint
    <3> QED
      BY <2>0, <3>1, <3>2, <3>3 DEF Parted, Disjoint
  <2>7. Refilling' \subseteq Refilling
    BY <2>1 DEF Refilling
  <2>8. NoWrap'
    BY <2>1, <2>7, NoWrapKept DEF ArenaInv
  <2> QED
    BY <2>3, <2>4, <2>6, <2>8 DEF ArenaInv
<1> QED
  BY <1>1, <1>2

\* The invariant of the arena: what each thread may still give out, the live
\* blocks and what lies past the cursor have no byte in common.
THEOREM ArenaInvariant ==
  ASSUME ArenaSetting
  PROVE  ArenaSpec => []ArenaInv
<1>1. ArenaInit => ArenaInv
  <2> SUFFICES ASSUME ArenaInit PROVE ArenaInv
    OBVIOUS
  <2>1. ArenaTypes
    BY DEF ArenaInit, ArenaTypes
  <2>2. ASSUME NEW t \in Users PROVE Placing(t) /\ Lo(t) = 0 /\ Hi(t) = 0
    BY <2>2 DEF ArenaInit, Placing, Lo, Hi, Off, End, Tls
  <2>3. Parted
    BY <2>2 DEF ArenaInit, Parted, Alive, Disjoint, ArenaSetting
  <2>4. NoWrap
    <3>1. Refilling = {} /\ cursor = 0
      BY DEF ArenaInit, Refilling
    <3>2. Cardinality(Refilling) = 0 /\ Chunk * 0 = 0
      BY <3>1, FS_EmptySet DEF ArenaSetting
    <3>3. Cardinality(Users) \in Nat /\ Chunk \in Nat /\ MaxCursor \in Nat
      BY FS_CardinalityType DEF ArenaSetting
    <3>4. Chunk * Cardinality(Users) \in Nat
      BY <3>3, Times
    <3> QED
      BY <3>1, <3>2, <3>3, <3>4 DEF NoWrap
  <2> QED
    BY <2>1, <2>2, <2>3, <2>4 DEF ArenaInv
<1>2. ArenaInv /\ [ArenaNext]_arenavars => ArenaInv'
  <2> SUFFICES ASSUME ArenaInv, [ArenaNext]_arenavars PROVE ArenaInv'
    OBVIOUS
  <2>1. CASE UNCHANGED arenavars
    <3>1. UNCHANGED <<cursor, tls_off, tls_end, live, a_pc, need, a_cur>>
      BY <2>1 DEF arenavars
    <3>2. ArenaTypes' /\ Alive' = Alive /\ Refilling' = Refilling
      BY <3>1 DEF ArenaInv, ArenaTypes, Alive, Refilling
    <3>3. \A u \in Users : Placing(u)' /\ Lo(u)' = Lo(u) /\ Hi(u)' = Hi(u)
      BY <3>1 DEF ArenaInv, Placing, Lo, Hi, Off, End, Available
    <3>4. \A u \in Alive : u \in Users
      BY DEF Alive
    <3>5. Parted'
      BY <3>1, <3>2, <3>3, <3>4, PartedFewer DEF ArenaInv
    <3> QED
      BY <3>1, <3>2, <3>3, <3>5 DEF ArenaInv, NoWrap
  <2> QED
    BY <2>1, MallocIn, ReallocIn, RefillIn, StoreIn, PlaceIn, BumpIn, FreeIn DEF ArenaNext
<1> QED
  BY <1>1, <1>2, PTL DEF ArenaSpec

\* The blocks of the arena share no byte and stay below the bins, and malloc's
\* assertions hold, for any number of threads and any sizes, as long as each
\* thread has its own thread_local words and the cursor does not wrap around.
THEOREM ArenaStaysSound ==
  ASSUME ArenaSetting
  PROVE  ArenaSpec => []ArenaSound
<1>1. ASSUME ArenaInv PROVE ArenaApart
  <2>1. ASSUME NEW b \in live
        PROVE  /\ b.off \in Nat /\ b.size \in Nat /\ b.size >= 1 /\ b.off + b.size \in Nat
               /\ b.off + b.size <= Limit
    BY <1>1, BlockEnds DEF ArenaInv, ArenaTypes, Parted
  <2>2. \A b \in live : Cells(b) \subseteq 0..(Limit - 1)
    BY <2>1 DEF Cells, ArenaSetting
  <2>3. ASSUME NEW b \in live, NEW c \in live, b # c PROVE Cells(b) \cap Cells(c) = {}
    <3>1. Disjoint(b.off, b.off + b.size, c.off, c.off + c.size)
      BY <1>1, <2>3 DEF ArenaInv, Parted
    <3> QED
      BY <2>1, <3>1 DEF Disjoint, Cells
  <2> QED
    BY <2>2, <2>3 DEF ArenaApart
<1>2. ASSUME ArenaInv, NEW t \in Users, a_pc[t] = "bins"
      PROVE  Off(t) <= Limit /\ End(t) <= Limit /\ Off(t) <= End(t)
  <2>1. t \in Alive /\ Lo(t) = Off(t) /\ Hi(t) = End(t) /\ Lo(t) \in Nat /\ Hi(t) \in Nat
    BY <1>2, RegionNat DEF Alive, Lo, Hi, ArenaInv
  <2>2. Lo(t) <= Hi(t) /\ Hi(t) <= Limit
    BY <1>2, <2>1 DEF ArenaInv, Parted
  <2> QED
    BY <2>1, <2>2 DEF ArenaSetting
<1>3. ArenaInv => ArenaSound
  BY <1>1, <1>2 DEF ArenaSound, AssertsHold
<1> QED
  BY <1>3, ArenaInvariant, PTL

-----------------------------------------------------------------------------
(* One ticket lock. *)

Tickets == 0..(Width - 1)

\* How many tickets ahead of a the ticket b is, going round.
Ahead(a, b) == IF b >= a THEN b - a ELSE (b + Width) - a

Busy == {t \in Threads : pc[t] # "idle"}

\* The queue lists every thread that has a ticket, once.
QueueExact ==
  /\ queue \in Seq(Threads)
  /\ Len(queue) = Cardinality(Busy)
  /\ \A t \in Busy : \E i \in 1..Len(queue) : queue[i] = t
  /\ \A i \in 1..Len(queue) : queue[i] \in Busy
  /\ \A i, j \in 1..Len(queue) : queue[i] = queue[j] => i = j

\* Their tickets are consecutive, from the one served to the next one.
TicketsInOrder ==
  /\ \A i \in 1..Len(queue) : Ahead(owner, ticket[queue[i]]) = i - 1
  /\ Ahead(owner, next) = Len(queue)

Served == \A t \in Threads : pc[t] = "in" => ticket[t] = owner

IInv == TypeOK /\ QueueExact /\ TicketsInOrder /\ Served

-----------------------------------------------------------------------------
\* Facts about counting round.
LEMMA Round ==
  ASSUME NEW a \in Tickets, NEW b \in Tickets
  PROVE  /\ Inc(a) \in Tickets
         /\ Ahead(a, b) \in Tickets
         /\ Ahead(a, b) = 0 => a = b
         /\ Ahead(a, a) = 0
         /\ Ahead(a, b) + 1 < Width => Ahead(a, Inc(b)) = Ahead(a, b) + 1
         /\ Ahead(a, b) > 0 => Ahead(Inc(a), b) = Ahead(a, b) - 1
  BY WidthAssumption DEF Tickets, Inc, Ahead

\* The busy threads are finitely many, fewer than there are tickets.
LEMMA BusyFinite ==
  IsFiniteSet(Busy) /\ Cardinality(Busy) \in Nat /\ Cardinality(Busy) < Width
<1>1. Busy \in SUBSET Threads
  BY DEF Busy
<1> QED
  BY <1>1, WidthAssumption, FS_Subset, FS_CardinalityType

\* A lock just made is in order.
LEMMA InitIInv == Init => IInv
<1> SUFFICES ASSUME Init PROVE IInv
  OBVIOUS
<1>1. Busy = {} /\ Cardinality(Busy) = 0
  BY FS_EmptySet DEF Init, Busy
<1>2. 0 \in Tickets
  BY WidthAssumption, FS_CardinalityType DEF Tickets
<1>3. TypeOK /\ Served
  BY <1>2 DEF Init, TypeOK, Served, Tickets
<1>4. QueueExact
  BY <1>1 DEF Init, QueueExact
<1>5. TicketsInOrder
  BY Round DEF Init, TicketsInOrder, Tickets
<1> QED
  BY <1>3, <1>4, <1>5 DEF IInv

\* A new ticket goes to the end of the queue.
LEMMA TakeIInv == ASSUME IInv, NEW t \in Threads, Take(t) PROVE IInv'
<1> USE DEF IInv, TypeOK
<1>1. t \notin Busy /\ Busy' = Busy \cup {t}
  BY DEF Take, Busy
<1>2. Cardinality(Busy') = Cardinality(Busy) + 1
  BY <1>1, BusyFinite, FS_AddElement
<1>3. Cardinality(Busy) + 1 < Width
  <2>1. Busy' \in SUBSET Threads
    BY <1>1 DEF Busy
  <2>2. Cardinality(Busy') <= Cardinality(Threads)
    BY <2>1, WidthAssumption, FS_Subset
  <2> QED
    BY <1>2, <2>2, BusyFinite, WidthAssumption, FS_CardinalityType
<1>4. /\ queue' \in Seq(Threads) /\ Len(queue') = Len(queue) + 1
      /\ queue'[Len(queue) + 1] = t
      /\ \A i \in 1..Len(queue) : queue'[i] = queue[i]
      /\ Len(queue) \in Nat
  BY AppendProperties DEF Take, QueueExact
<1>5. TypeOK'
  BY Round DEF Take, Tickets
<1>6. QueueExact'
  <2>0. /\ \A n \in 1..Len(queue') : n \in 1..Len(queue) \/ n = Len(queue) + 1
        /\ \A n \in 1..Len(queue) : n \in 1..Len(queue')
        /\ Len(queue) + 1 \in 1..Len(queue')
    BY <1>4
  <2>1. ASSUME NEW u \in Busy' PROVE \E i \in 1..Len(queue') : queue'[i] = u
    <3>1. CASE u = t
      BY <1>4, <2>0, <3>1
    <3>2. CASE u \in Busy
      <4>1. PICK i \in 1..Len(queue) : queue[i] = u
        BY <3>2 DEF QueueExact
      <4> QED
        BY <1>4, <2>0, <4>1
    <3> QED
      BY <1>1, <3>1, <3>2
  <2>2. ASSUME NEW i \in 1..Len(queue') PROVE queue'[i] \in Busy'
    <3>1. CASE i = Len(queue) + 1
      BY <1>1, <1>4, <3>1
    <3>2. CASE i \in 1..Len(queue)
      <4>1. queue[i] \in Busy
        BY <3>2 DEF QueueExact
      <4> QED
        BY <1>1, <1>4, <3>2, <4>1
    <3> QED
      BY <2>0, <3>1, <3>2
  <2>3. ASSUME NEW i \in 1..Len(queue'), NEW j \in 1..Len(queue'),
               queue'[i] = queue'[j]
        PROVE  i = j
    <3>1. \A n \in 1..Len(queue) : queue'[n] = queue[n] /\ queue'[n] # t
      BY <1>1, <1>4 DEF QueueExact
    <3>2. CASE i \in 1..Len(queue) /\ j \in 1..Len(queue)
      <4>1. queue[i] = queue[j]
        BY <2>3, <3>1, <3>2
      <4> QED
        BY <3>2, <4>1 DEF QueueExact
    <3>3. CASE i = Len(queue) + 1 \/ j = Len(queue) + 1
      <4>1. queue'[i] = t /\ queue'[j] = t
        BY <1>4, <2>3, <3>3
      <4>2. i \notin 1..Len(queue) /\ j \notin 1..Len(queue)
        BY <3>1, <4>1
      <4> QED
        BY <2>0, <4>2
    <3> QED
      BY <2>0, <3>2, <3>3
  <2> QED
    BY <1>2, <1>4, <2>1, <2>2, <2>3 DEF QueueExact
<1>7. TicketsInOrder'
  <2>1. ASSUME NEW i \in 1..Len(queue)
        PROVE  Ahead(owner', ticket'[queue'[i]]) = i - 1
    <3>1. queue[i] # t
      BY <1>1 DEF QueueExact
    <3> QED
      BY <1>4, <3>1 DEF Take, TicketsInOrder, QueueExact, Busy, Ahead
  <2>2. Ahead(owner', ticket'[t]) = Len(queue)
    BY DEF Take, TicketsInOrder, Ahead
  <2>3. Ahead(owner', next') = Len(queue) + 1
    <3>0. owner \in Tickets /\ next \in Tickets /\ Ahead(owner, next) = Len(queue)
      BY DEF TicketsInOrder, Tickets
    <3>1. Len(queue) + 1 < Width
      BY <1>3 DEF QueueExact
    <3>2. Ahead(owner, Inc(next)) = Len(queue) + 1
      BY <3>0, <3>1, Round
    <3> QED
      BY <3>2 DEF Take, Ahead
  <2> QED
    BY <1>4, <2>1, <2>2, <2>3 DEF TicketsInOrder
<1>8. Served'
  BY DEF Take, Served
<1> QED
  BY <1>5, <1>6, <1>7, <1>8

\* Only the first of the queue is inside.
LEMMA InsideIsFirst ==
  ASSUME IInv, NEW t \in Threads, pc[t] = "in"
  PROVE  Len(queue) >= 1 /\ queue[1] = t
<1>1. PICK i \in 1..Len(queue) : queue[i] = t
  BY DEF IInv, QueueExact, Busy
<1>2. Ahead(owner, ticket[t]) = 0
  BY Round DEF IInv, TypeOK, Served, Tickets
<1>3. i = 1
  BY <1>1, <1>2 DEF IInv, QueueExact, TicketsInOrder
<1> QED
  BY <1>1, <1>3 DEF IInv, QueueExact

\* The first leaves, and everybody moves up.
LEMMA ReleaseIInv == ASSUME IInv, NEW t \in Threads, Release(t) PROVE IInv'
<1> USE DEF IInv, TypeOK
<1>1. t \in Busy /\ Busy' = Busy \ {t}
  BY DEF Release, Busy
<1>2. Cardinality(Busy') = Cardinality(Busy) - 1
  BY <1>1, BusyFinite, FS_RemoveElement
<1>3. Len(queue) >= 1 /\ queue[1] = t
  BY InsideIsFirst DEF Release
<1>4. /\ queue' \in Seq(Threads) /\ Len(queue') = Len(queue) - 1
      /\ \A i \in 1..Len(queue') : queue'[i] = queue[i + 1]
      /\ Len(queue) \in Nat
  <2>1. queue # <<>> /\ queue \in Seq(Threads)
    BY <1>3 DEF QueueExact
  <2> QED
    BY <2>1, HeadTailProperties DEF Release
<1>5. TypeOK'
  BY Round DEF Release, Tickets
<1>6. QueueExact'
  <2>1. \A u \in Busy' : \E i \in 1..Len(queue') : queue'[i] = u
    <3> SUFFICES ASSUME NEW u \in Busy' PROVE \E i \in 1..Len(queue') : queue'[i] = u
      OBVIOUS
    <3>1. PICK i \in 1..Len(queue) : queue[i] = u
      BY <1>1 DEF QueueExact
    <3>2. i # 1
      BY <1>1, <1>3, <3>1
    <3>3. i - 1 \in 1..Len(queue')
      BY <1>4, <3>2
    <3>4. queue'[i - 1] = u
      BY <1>4, <3>1, <3>3
    <3> QED
      BY <3>3, <3>4
  <2>2. ASSUME NEW i \in 1..Len(queue') PROVE queue'[i] \in Busy'
    <3>1. /\ i + 1 \in 1..Len(queue) /\ 1 \in 1..Len(queue) /\ i + 1 # 1
          /\ queue'[i] = queue[i + 1]
      BY <1>3, <1>4
    <3>2. queue[i + 1] \in Busy /\ queue[i + 1] # queue[1]
      BY <3>1 DEF QueueExact
    <3> QED
      BY <1>1, <1>3, <3>1, <3>2
  <2>3. ASSUME NEW i \in 1..Len(queue'), NEW j \in 1..Len(queue'),
               queue'[i] = queue'[j]
        PROVE  i = j
    <3>1. i + 1 \in 1..Len(queue) /\ j + 1 \in 1..Len(queue)
      BY <1>4
    <3>2. queue[i + 1] = queue[j + 1]
      BY <1>4, <2>3
    <3>3. i + 1 = j + 1
      BY <3>1, <3>2 DEF QueueExact
    <3> QED
      BY <3>3
  <2> QED
    BY <1>2, <1>4, <2>1, <2>2, <2>3 DEF QueueExact
<1>7. TicketsInOrder'
  <2>1. ASSUME NEW i \in 1..Len(queue')
        PROVE  Ahead(owner', ticket'[queue'[i]]) = i - 1
    <3> DEFINE x == ticket[queue[i + 1]]
    <3>1. i + 1 \in 1..Len(queue) /\ queue'[i] = queue[i + 1]
      BY <1>4
    <3>2. x \in Tickets
      BY <3>1 DEF QueueExact, Tickets, Busy
    <3>3. Ahead(owner, x) = (i + 1) - 1
      BY <3>1 DEF TicketsInOrder
    <3>4. Ahead(owner, x) = i /\ i > 0 /\ owner \in Tickets
      BY <1>4, <3>3 DEF Tickets
    <3>5. Ahead(Inc(owner), x) = Ahead(owner, x) - 1
      <4> HIDE DEF x
      <4> QED
        BY <3>2, <3>4, Round
    <3> QED
      BY <3>1, <3>4, <3>5 DEF Release, Ahead
  <2>2. Ahead(owner', next') = Len(queue')
    <3>0. owner \in Tickets /\ next \in Tickets /\ Ahead(owner, next) = Len(queue)
      BY DEF TicketsInOrder, Tickets
    <3>1. Ahead(Inc(owner), next) = Len(queue) - 1
      BY <1>3, <3>0, Round
    <3> QED
      BY <1>4, <3>1 DEF Release, Ahead
  <2> QED
    BY <2>1, <2>2 DEF TicketsInOrder
<1>8. Served'
  <2> SUFFICES ASSUME NEW u \in Threads, pc'[u] = "in" PROVE ticket'[u] = owner'
    BY DEF Served
  <2>1. u # t /\ pc[u] = "in"
    BY DEF Release
  <2>2. queue[1] = u
    BY <2>1, InsideIsFirst
  <2> QED
    BY <1>3, <2>1, <2>2
<1> QED
  BY <1>5, <1>6, <1>7, <1>8

\* Every step preserves the invariant.
LEMMA NextIInv == IInv /\ [Next]_vars => IInv'
<1> SUFFICES ASSUME IInv, [Next]_vars PROVE IInv'
  OBVIOUS
<1>1. ASSUME NEW t \in Threads, Take(t) PROVE IInv'
  BY <1>1, TakeIInv
<1>2. ASSUME NEW t \in Threads, Enter(t) PROVE IInv'
  <2>1. Busy' = Busy
    BY <1>2 DEF Enter, Busy, IInv, TypeOK
  <2> QED
    BY <1>2, <2>1
    DEF Enter, IInv, TypeOK, QueueExact, TicketsInOrder, Served, Ahead
<1>3. ASSUME NEW t \in Threads, Release(t) PROVE IInv'
  BY <1>3, ReleaseIInv
<1>4. CASE UNCHANGED vars
  BY <1>4 DEF vars, IInv, TypeOK, QueueExact, TicketsInOrder, Served, Ahead, Busy
<1> QED
  BY <1>1, <1>2, <1>3, <1>4 DEF Next

-----------------------------------------------------------------------------
\* The invariant holds in every reachable state.
THEOREM Invariance == Spec => []IInv
  BY InitIInv, NextIInv, PTL DEF Spec

\* The lock excludes, although its tickets are used again and again.
THEOREM Excludes == Spec => []Exclusion
<1>1. IInv => Exclusion
  BY InsideIsFirst DEF Exclusion
<1> QED
  BY <1>1, Invariance, PTL

\* Threads are served in the order of their calls of __jacl_memlock_acquire.
THEOREM Fifo == Spec => []FirstComeFirstServed
<1>1. IInv => FirstComeFirstServed
  <2> SUFFICES ASSUME IInv, NEW t \in Threads, pc[t] = "in"
               PROVE  queue # <<>> /\ Head(queue) = t
    BY DEF FirstComeFirstServed
  <2>1. Len(queue) >= 1 /\ queue[1] = t /\ queue \in Seq(Threads)
    BY InsideIsFirst DEF IInv, QueueExact
  <2> QED
    BY <2>1
<1> QED
  BY <1>1, Invariance, PTL

=============================================================================
