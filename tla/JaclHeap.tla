------------------------------ MODULE JaclHeap ------------------------------
(***************************************************************************)
(* The block heap of include/core/memory.h: malloc and free below the      *)
(* small-object arena (JaclArena), that is for requests above              *)
(* JACL_SMALL_MAX and for all requests once the arena is used up.          *)
(*                                                                         *)
(* Sizes and offsets are counted in units of 8 bytes and scaled down: HDR  *)
(* is the header, Linear the largest size with a bin of its own (16 units  *)
(* in the code).  Memory keeps a header that a merge has absorbed; of a    *)
(* program's data there is the word a list link is in, and it is 0.  The locks are used at the level    *)
(* JaclMemlock proves: one holder at a time.  A malloc loads the head of a *)
(* list and stores its successor in two steps; offset 0 ends a list.       *)
(***************************************************************************)
EXTENDS Naturals, Sequences, FiniteSets, FiniteSetsExt, SequencesExt

CONSTANTS Threads, None,
          HDR, Linear, Concurency, COALESCING,
          HeapInit, HeapSeg, HeapMax, Page,
          Memseg,         \* sizeof(__jacl_memseg_t)
          RecSizes,       \* data sizes that are recycled
          RECYCLING,      \* slots per recycled size
          Requests,       \* what malloc is called with
          MaxLive         \* bound: blocks a program has at a time

Offsets == 0..HeapMax
Steps == 0..(HeapMax \div (HDR + 1))    \* enough to walk over all blocks
Bins == 0..(Concurency - 1)

ASSUME HeapAssumption ==
  /\ None \notin Threads
  /\ {HDR, Linear, Concurency, HeapInit, HeapSeg, Page} \subseteq Nat \ {0}
  /\ {COALESCING, Memseg, RECYCLING, MaxLive} \subseteq Nat
  /\ HeapInit <= HeapMax /\ Memseg + HDR < HeapSeg
  /\ Requests \subseteq Nat /\ RecSizes \subseteq Nat

VARIABLES
  heap,           \* the linked segments: headers, list heads and bitmap
  heap_current,   \* __jacl_heap_current
  lock,           \* who holds each of __jacl_locks
  recycling,      \* __jacl_recycling, by data size
  live,           \* the blocks the program has, with the size they were given
  pc, need,
  at,             \* segment, list and offset a thread works on
  grown           \* the thread's malloc has added a segment

vars == <<heap, heap_current, lock, recycling, live, pc, need, at, grown>>

-----------------------------------------------------------------------------
\* __jacl_membin_get: a bin for each small size, then one for each doubling.
MembinGet(sz) ==
  LET doublings(q) == CHOOSE e \in 0..q : 2^e <= q /\ q < 2^(e + 1)
      i == IF sz <= Linear THEN sz ELSE Linear + doublings(sz \div Linear)
  IN  IF i >= Concurency THEN Concurency - 1 ELSE i

AlignUp(n, a) == ((n + a - 1) \div a) * a

\* __jacl_round_size
RoundSize(sz) ==
  IF sz <= Linear THEN sz
  ELSE IF sz <= 4 * Linear THEN AlignUp(sz, 2) ELSE AlignUp(sz, 4)

\* __jacl_alloc_need
AllocNeed(n) == RoundSize((IF n = 0 THEN 1 ELSE n) + HDR)

\* __jacl_membin_push
MembinPush(seg, off) ==
  LET i == MembinGet(seg.mem[off].size)
  IN  [seg EXCEPT !.mem[off].link = seg.bins[i], !.bins[i] = off,
                  !.bitmap = @ \cup {i}]

\* The list of bin i, as far as a walk along it gets.
Walk(seg, i) ==
  LET nth[n \in Steps] ==
        IF n = 0 THEN seg.bins[i]
        ELSE LET o == nth[n - 1] IN IF o = 0 THEN 0 ELSE seg.mem[o].link
  IN  IF seg.bins[i] = 0 THEN {} ELSE {nth[n] : n \in Steps} \ {0}

\* __jacl_membin_remove, which does nothing when off is not in the list.
MembinRemove(seg, off) ==
  LET i == MembinGet(seg.mem[off].size)
      after == seg.mem[off].link
      unlinked ==
        IF seg.bins[i] = off THEN [seg EXCEPT !.bins[i] = after]
        ELSE IF \E p \in Walk(seg, i) : seg.mem[p].link = off
        THEN [seg EXCEPT !.mem[CHOOSE p \in Walk(seg, i) :
                                 seg.mem[p].link = off].link = after]
        ELSE seg
  IN  [unlinked EXCEPT !.bitmap = IF unlinked.bins[i] = 0 THEN @ \ {i} ELSE @]

\* The header behind block off, if there is one, is told the block's size.
TellNext(seg, off) ==
  LET next == off + seg.mem[off].size
  IN  IF next < seg.size
      THEN [seg EXCEPT !.mem[next].prev_size = seg.mem[off].size] ELSE seg

\* The part of __jacl_alloc_bins that hands out block off, cut to size n.
Carve(seg, off, n) ==
  LET have == seg.mem[off].size
      rem == [seg.mem[off + n] EXCEPT !.size = have - n, !.prev_size = n, !.flags = 0]
      cut == IF have >= n + HDR + 1
             THEN MembinPush([seg EXCEPT !.mem[off + n] = rem, !.mem[off].size = n],
                             off + n)
             ELSE seg
  IN  [TellNext(cut, off) EXCEPT !.mem[off].flags = 1, !.mem[off].link = 0]

\* The first half of __jacl_free_coalesce: the free block behind off joins it.
Forward(seg, off) ==
  LET next == off + seg.mem[off].size
  IN  IF next < seg.size /\ seg.mem[next].flags = 0
      THEN LET s == MembinRemove(seg, next)
           IN  TellNext([s EXCEPT !.mem[off].size = @ + s.mem[next].size], off)
      ELSE seg

\* Where the second half finds a free block before off, or off itself.
Before(seg, off) ==
  LET prev_size == seg.mem[off].prev_size
  IN  IF prev_size > 0 /\ prev_size <= off /\ seg.mem[off - prev_size].flags = 0
      THEN off - prev_size ELSE off

Backward(seg, off) ==
  LET prev == Before(seg, off)
      s == MembinRemove(seg, prev)
  IN  IF prev = off THEN seg
      ELSE TellNext([s EXCEPT !.mem[prev].size = @ + s.mem[off].size], prev)

\* __jacl_free_coalesce
FreeCoalesce(seg, off) ==
  IF seg.mem[off].size >= COALESCING
  THEN LET s == Forward(seg, off) IN MembinPush(Backward(s, off), Before(s, off))
  ELSE MembinPush(seg, off)

\* A segment whose memory from base on is one free block.
NewSegment(size, base) ==
  MembinPush([size |-> size, bitmap |-> {}, bins |-> [i \in Bins |-> 0],
              mem |-> [o \in Offsets |->
                        [size |-> IF o = base THEN size - base ELSE 0,
                         prev_size |-> 0, flags |-> 0, link |-> 0]]], base)

Nowhere == [seg |-> 1, bin |-> 0, off |-> 0]

\* __jacl_membin_init; the first quarter of the static heap is the arena.
Init ==
  /\ heap = <<NewSegment(HeapInit, HeapInit \div 4)>>
  /\ heap_current = HeapInit
  /\ lock = [i \in Bins |-> None]
  /\ recycling = [n \in RecSizes |-> <<>>]
  /\ live = {}
  /\ pc = [t \in Threads |-> "idle"]
  /\ need = [t \in Threads |-> 0]
  /\ at = [t \in Threads |-> Nowhere]
  /\ grown = [t \in Threads |-> FALSE]

Goto(t, label) == pc' = [pc EXCEPT ![t] = label]

\* The call of t returns, and its local variables are gone.
Return(t) ==
  /\ Goto(t, "idle")
  /\ need' = [need EXCEPT ![t] = 0]
  /\ at' = [at EXCEPT ![t] = Nowhere]
  /\ grown' = [grown EXCEPT ![t] = FALSE]

Block(s, o, n) == [seg |-> s, off |-> o, size |-> n]
Release(t) == lock' = [i \in Bins |-> IF lock[i] = t THEN None ELSE lock[i]]

\* __jacl_alloc_recycle: the slot filled last.
MallocRecycled(t, n) ==
  /\ pc[t] = "idle" /\ Cardinality(live) < MaxLive
  /\ n \in RecSizes /\ recycling[n] # <<>>
  /\ LET b == Last(recycling[n])
     IN  /\ heap' = [heap EXCEPT ![b.seg].mem[b.off].flags = 1]
         /\ live' = live \cup {Block(b.seg, b.off, AllocNeed(n))}
  /\ recycling' = [recycling EXCEPT ![n] = Front(@)]
  /\ UNCHANGED <<heap_current, lock, pc, need, at, grown>>

\* malloc takes the lock of the bin its size belongs to.
MallocLock(t, n) ==
  /\ pc[t] = "idle" /\ Cardinality(live) < MaxLive
  /\ ~(n \in RecSizes /\ recycling[n] # <<>>)
  /\ lock[MembinGet(AllocNeed(n))] = None
  /\ lock' = [lock EXCEPT ![MembinGet(AllocNeed(n))] = t]
  /\ need' = [need EXCEPT ![t] = AllocNeed(n)]
  /\ at' = [at EXCEPT ![t].seg = 1]
  /\ grown' = [grown EXCEPT ![t] = FALSE]
  /\ Goto(t, "pop")
  /\ UNCHANGED <<heap, heap_current, recycling, live>>

\* The loop of __jacl_alloc_bins goes to the next segment, or is over.
NextSegment(t) ==
  IF at[t].seg < Len(heap)
  THEN at' = [at EXCEPT ![t].seg = @ + 1] /\ Goto(t, "pop")
  ELSE Goto(t, IF grown[t] THEN "fail" ELSE "grow") /\ UNCHANGED at

\* __jacl_membin_pop: the first list at or above the bin that has a block.
PopLoad(t) ==
  /\ pc[t] = "pop"
  /\ LET seg == heap[at[t].seg]
         lists == {i \in seg.bitmap : i >= MembinGet(need[t])}
         i == Min(lists)
     IN  IF lists = {} \/ seg.bins[i] = 0
         THEN /\ heap' = [heap EXCEPT ![at[t].seg].bitmap =
                                        IF lists = {} THEN @ ELSE @ \ {i}]
              /\ NextSegment(t)
         ELSE /\ at' = [at EXCEPT ![t].bin = i, ![t].off = seg.bins[i]]
              /\ Goto(t, "store")
              /\ UNCHANGED heap
  /\ UNCHANGED <<heap_current, lock, recycling, live, need, grown>>

\* Mutant: the list keeps the block.
MutPopStore(t) ==
  /\ pc[t] = "store"
  /\ Goto(t, "carve")
  /\ UNCHANGED <<heap, heap_current, lock, recycling, live, need, at, grown>>

\* Its head becomes the successor, and the bitmap follows.
PopStore(t) ==
  /\ pc[t] = "store"
  /\ LET seg == heap[at[t].seg]
         next == seg.mem[at[t].off].link
     IN  heap' = [heap EXCEPT
           ![at[t].seg].bins[at[t].bin] = next,
           ![at[t].seg].bitmap = IF next = 0 THEN @ \ {at[t].bin} ELSE @]
  /\ Goto(t, "carve")
  /\ UNCHANGED <<heap_current, lock, recycling, live, need, at, grown>>

\* The block is too small and goes back, or malloc returns it.
AllocBins(t) ==
  /\ pc[t] = "carve"
  /\ LET s == at[t].seg
         off == at[t].off
     IN  \/ /\ heap[s].mem[off].size < need[t]
            /\ heap' = [heap EXCEPT ![s] = MembinPush(@, off)]
            /\ NextSegment(t)
            /\ UNCHANGED <<lock, live, need, grown>>
         \/ /\ heap[s].mem[off].size >= need[t]
            /\ heap' = [heap EXCEPT ![s] = Carve(@, off, need[t])]
            /\ live' = live \cup {Block(s, off, need[t])}
            /\ Release(t)
            /\ Return(t)
  /\ UNCHANGED <<heap_current, recycling>>

\* __jacl_grow_size, 0 if the heap may not grow that much.
GrowSize(n) ==
  LET wish == IF n > HeapSeg THEN AlignUp(n, Page) ELSE HeapSeg
      left == HeapMax - heap_current
  IN  IF heap_current + wish <= HeapMax THEN wish
      ELSE IF left < n THEN 0 ELSE left

\* __jacl_grow_heap: a segment from mmap, linked behind the others.
GrowHeap(t) ==
  /\ pc[t] = "grow" /\ heap_current < HeapMax
  /\ LET size == GrowSize(need[t])
     IN  /\ size > 0
         /\ heap' = Append(heap, NewSegment(size - Memseg, HDR))
         /\ heap_current' = heap_current + size
  /\ at' = [at EXCEPT ![t].seg = Len(heap) + 1]
  /\ grown' = [grown EXCEPT ![t] = TRUE]
  /\ Goto(t, "pop")
  /\ UNCHANGED <<lock, recycling, live, need>>

\* malloc returns NULL: growing again failed or was no use, or mmap refused.
MallocFails(t) ==
  /\ pc[t] \in {"grow", "fail"}
  /\ Release(t)
  /\ Return(t)
  /\ UNCHANGED <<heap, heap_current, recycling, live>>

-----------------------------------------------------------------------------
HdrData(b) == heap[b.seg].mem[b.off].size - HDR
Recyclable(b) == HdrData(b) \in RecSizes /\ Len(recycling[HdrData(b)]) < RECYCLING

\* Mutant: free puts the block in its slot and in its bin.
MutFree(t, b) ==
  /\ pc[t] = "idle" /\ b \in live
  /\ live' = live \ {b}
  /\ heap' = [heap EXCEPT ![b.seg].mem[b.off].flags = 0]
  /\ Goto(t, "flock")
  /\ at' = [at EXCEPT ![t] = [seg |-> b.seg, bin |-> 0, off |-> b.off]]
  /\ recycling' = IF Recyclable(b)
                  THEN [recycling EXCEPT ![HdrData(b)] = Append(@, b)] ELSE recycling
  /\ UNCHANGED <<heap_current, lock, need, grown>>

\* free, up to the lock: a block whose flags say it is free is ignored, one of
\* a recycled size goes to its slot.
Free(t, b) ==
  /\ pc[t] = "idle" /\ b \in live
  /\ live' = live \ {b}
  /\ heap' = [heap EXCEPT ![b.seg].mem[b.off].flags = 0]
  /\ IF heap[b.seg].mem[b.off].flags = 0 \/ Recyclable(b)
     THEN UNCHANGED <<pc, at>>
     ELSE /\ Goto(t, "flock")
          /\ at' = [at EXCEPT ![t] = [seg |-> b.seg, bin |-> 0, off |-> b.off]]
  /\ recycling' = IF heap[b.seg].mem[b.off].flags = 1 /\ Recyclable(b)
                  THEN [recycling EXCEPT ![HdrData(b)] = Append(@, b)] ELSE recycling
  /\ UNCHANGED <<heap_current, lock, need, grown>>

\* The rest of free, under the lock of the block's bin.
FreeLocked(t) ==
  /\ pc[t] = "flock"
  /\ lock[MembinGet(heap[at[t].seg].mem[at[t].off].size)] = None
  /\ heap' = [heap EXCEPT ![at[t].seg] = FreeCoalesce(@, at[t].off)]
  /\ Return(t)
  /\ UNCHANGED <<heap_current, lock, recycling, live>>

Next ==
  \E t \in Threads :
    \/ \E n \in Requests : MallocRecycled(t, n) \/ MallocLock(t, n)
    \/ PopLoad(t) \/ PopStore(t) \/ AllocBins(t) \/ GrowHeap(t) \/ MallocFails(t)
    \/ (\E b \in live : Free(t, b)) \/ FreeLocked(t)

Spec == Init /\ [][Next]_vars

-----------------------------------------------------------------------------
Cells(s, o, n) == {s} \X (o..(o + n - 1))

\* Two blocks the program has at the same time share no memory, headers
\* included, and lie within their segment: what one of them holds is never
\* changed through the other.
LiveApart ==
  /\ \A b \in live : b.off + b.size <= heap[b.seg].size
  /\ \A b, c \in live :
       b # c => Cells(b.seg, b.off, b.size) \cap Cells(c.seg, c.off, c.size) = {}

\* The offsets of the blocks a walk over the headers of segment s visits.
Tiles(s) ==
  LET base == IF s = 1 THEN HeapInit \div 4 ELSE HDR
      nth[n \in Steps] ==
        IF n = 0 THEN base
        ELSE LET o == nth[n - 1]
             IN  IF o < heap[s].size THEN o + heap[s].mem[o].size ELSE o
  IN  {nth[n] : n \in Steps}

Slots == UNION {Range(recycling[n]) : n \in RecSizes}
InHand(s) == {at[t].off : t \in {u \in Threads : pc[u] \in {"carve", "flock"}
                                                /\ at[u].seg = s}}

\* Between the program, the lists, the recycling slots and the calls under way
\* no memory is lost and none is in two places: the blocks tile every segment,
\* and each is the program's, in the list of its size, in a slot, or in the
\* hands of the thread that is allocating or freeing it.
HeapAccounted ==
  \A s \in 1..Len(heap) :
    LET seg == heap[s]
        blocks == Tiles(s) \ {seg.size}
        programs == {b.off : b \in {c \in live : c.seg = s}}
        slots == {b.off : b \in {c \in Slots : c.seg = s}}
        listed == UNION {Walk(seg, i) : i \in Bins}
    IN  /\ seg.size \in Tiles(s)
        /\ seg.bitmap = {i \in Bins : seg.bins[i] # 0}
        /\ \A i \in Bins : \A o \in Walk(seg, i) : MembinGet(seg.mem[o].size) = i
        /\ blocks = programs \cup slots \cup listed \cup InHand(s)
        /\ Cardinality(blocks) =
             Cardinality(programs) + Cardinality(slots) + Cardinality(listed) + Cardinality(InHand(s))

\* A malloc that could grow the heap gets its memory: NULL means that the heap
\* is at its limit or that mmap refused.
GrownIsEnough == \A t \in Threads : pc[t] # "fail"

=============================================================================
