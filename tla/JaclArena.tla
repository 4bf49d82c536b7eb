----------------------------- MODULE JaclArena -----------------------------
(***************************************************************************)
(* The arena of include/core/memory.h: requests up to JACL_SMALL_MAX are   *)
(* cut off a chunk that a thread has for itself, from the first quarter of *)
(* the static heap; chunks come from an atomic cursor that only moves up.  *)
(* free marks an arena block and never gives it out again.                 *)
(*                                                                         *)
(* __jacl_tls_off and __jacl_tls_end are thread_local.  TlsOf says whose   *)
(* copy a thread uses: its own, or (threads are cloned without             *)
(* CLONE_SETTLS) its creator's.  The cursor wraps around at CursorWidth,   *)
(* 2^32 in the code.  Loads and stores of the shared words are separate    *)
(* steps.                                                                  *)
(***************************************************************************)
EXTENDS Naturals, FiniteSets

CONSTANTS Users, TlsOf,
          Limit,          \* JACL_HEAP_INIT / 4
          Chunk,          \* JACL_TLS_CHUNK
          MinChunk,       \* 64 in __jacl_tls_refill
          Needs,          \* sizes with their header
          CursorWidth,
          MaxCursor       \* bound: calls end when the cursor has got there

Tls == {TlsOf[t] : t \in Users}

\* The thread_local words are each thread's own, a small request fits in a
\* chunk, and the calls end before the cursor wraps around.
ArenaSetting ==
  /\ IsFiniteSet(Users)
  /\ \A t, u \in Users : TlsOf[t] = TlsOf[u] => t = u
  /\ Limit \in Nat /\ Chunk \in Nat /\ MinChunk \in Nat
  /\ Needs \subseteq 1..Chunk
  /\ MaxCursor \in Nat /\ CursorWidth \in Nat
  /\ MaxCursor + Chunk * Cardinality(Users) < CursorWidth

VARIABLES cursor,             \* __jacl_tls_cursor
          tls_off, tls_end,
          live,               \* the program's blocks in the arena
          a_pc, need,
          a_cur                 \* the chunk, or the offset, a thread has read

arenavars == <<cursor, tls_off, tls_end, live, a_pc, need, a_cur>>

ArenaInit ==
  /\ cursor = 0
  /\ tls_off = [a \in Tls |-> 0] /\ tls_end = [a \in Tls |-> 0]
  /\ live = {}
  /\ a_pc = [t \in Users |-> "idle"]
  /\ need = [t \in Users |-> 0]
  /\ a_cur = [t \in Users |-> 0]

Off(t) == tls_off[TlsOf[t]]
End(t) == tls_end[TlsOf[t]]

\* The call returns, and its local variables are gone.
Return(t) == need' = [need EXCEPT ![t] = 0] /\ a_cur' = [a_cur EXCEPT ![t] = 0]
From(t, here, there) == a_pc[t] = here /\ a_pc' = [a_pc EXCEPT ![t] = there]

ArenaBlock(o, n) == [off |-> o, size |-> n]

-----------------------------------------------------------------------------
\* __jacl_alloc_arena: is there room in the chunk?
ArenaMalloc(t, n) ==
  /\ From(t, "idle", IF Off(t) + n <= End(t) THEN "check" ELSE "refill")
  /\ cursor < MaxCursor
  /\ need' = [need EXCEPT ![t] = n]
  /\ UNCHANGED <<cursor, tls_off, tls_end, live, a_cur>>

\* What __jacl_tls_refill finds at the cursor.
Available(c) == IF c + Chunk > Limit THEN Limit - c ELSE Chunk

\* __jacl_tls_refill: fetch_add on the cursor, and the tests of what it gave.
Refill(t) ==
  /\ From(t, "refill", IF cursor >= Limit THEN "bins"
                       ELSE IF Available(cursor) < MinChunk THEN "bins" ELSE "setoff")
  /\ cursor' = (cursor + Chunk) % CursorWidth
  /\ a_cur' = [a_cur EXCEPT ![t] = cursor]
  /\ UNCHANGED <<tls_off, tls_end, live, need>>

RefillOff(t) ==
  /\ From(t, "setoff", "setend")
  /\ tls_off' = [tls_off EXCEPT ![TlsOf[t]] = a_cur[t]]
  /\ UNCHANGED <<cursor, tls_end, live, need, a_cur>>

\* Mutant: the end of the chunk is not cut off at the limit.
MutRefillEnd(t) ==
  /\ From(t, "setend", "check")
  /\ tls_end' = [tls_end EXCEPT ![TlsOf[t]] = a_cur[t] + Chunk]
  /\ UNCHANGED <<cursor, tls_off, live, need, a_cur>>

RefillEnd(t) ==
  /\ From(t, "setend", "check")
  /\ tls_end' = [tls_end EXCEPT ![TlsOf[t]] = a_cur[t] + Available(a_cur[t])]
  /\ UNCHANGED <<cursor, tls_off, live, need, a_cur>>

\* The test against the limit, and the header at tls_off.
Place(t) ==
  /\ From(t, "check", IF Off(t) + need[t] > Limit THEN "bins" ELSE "bump")
  /\ a_cur' = [a_cur EXCEPT ![t] = Off(t)]
  /\ UNCHANGED <<cursor, tls_off, tls_end, live, need>>

\* tls_off += need, a load and a store, and malloc returns the block.
Bump(t) ==
  /\ From(t, "bump", "idle")
  /\ tls_off' = [tls_off EXCEPT ![TlsOf[t]] = @ + need[t]]
  /\ live' = live \cup {ArenaBlock(a_cur[t], need[t])}
  /\ Return(t)
  /\ UNCHANGED <<cursor, tls_end>>

\* malloc passes its assertions and goes on to the bins (JaclHeap).
ToBins(t) ==
  /\ From(t, "bins", "idle")
  /\ Return(t)
  /\ UNCHANGED <<cursor, tls_off, tls_end, live>>

-----------------------------------------------------------------------------
\* Mutant: a block is grown wherever it lies.
MutRealloc(t, b, n) ==
  /\ a_pc[t] = "idle" /\ n > b.size
  /\ Off(t) + (n - b.size) <= End(t)
  /\ live' = (live \ {b}) \cup {ArenaBlock(b.off, n)}
  /\ tls_off' = [tls_off EXCEPT ![TlsOf[t]] = @ + (n - b.size)]
  /\ UNCHANGED <<cursor, tls_end, a_pc, need, a_cur>>

\* realloc of the topmost arena block grows it in place.  Otherwise realloc is
\* malloc and a copy, and the old arena block stays as it is.
Realloc(t, b, n) ==
  /\ a_pc[t] = "idle" /\ n > b.size
  /\ b.off + b.size = Off(t)
  /\ Off(t) + (n - b.size) <= End(t)
  /\ live' = (live \ {b}) \cup {ArenaBlock(b.off, n)}
  /\ tls_off' = [tls_off EXCEPT ![TlsOf[t]] = @ + (n - b.size)]
  /\ UNCHANGED <<cursor, tls_end, a_pc, need, a_cur>>

\* __jacl_free_arena
Free(t, b) ==
  /\ a_pc[t] = "idle"
  /\ live' = live \ {b}
  /\ UNCHANGED <<cursor, tls_off, tls_end, a_pc, need, a_cur>>

\* fork, seen from the child: t is its only thread, and __jacl_memlock_reset
\* drops the chunk t was using.
Reset(t) ==
  /\ a_pc[t] = "idle"
  /\ a_pc' = [u \in Users |-> IF u = t THEN "idle" ELSE "gone"]
  /\ tls_off' = [tls_off EXCEPT ![TlsOf[t]] = Limit]
  /\ tls_end' = [tls_end EXCEPT ![TlsOf[t]] = Limit]
  /\ UNCHANGED <<cursor, live, need, a_cur>>

ArenaNext ==
  \E t \in Users :
    \/ \E n \in Needs : ArenaMalloc(t, n) \/ \E b \in live : Realloc(t, b, n)
    \/ Refill(t) \/ RefillOff(t) \/ RefillEnd(t) \/ Place(t) \/ Bump(t) \/ ToBins(t)
    \/ (\E b \in live : Free(t, b)) \/ Reset(t)

ArenaSpec == ArenaInit /\ [][ArenaNext]_arenavars

-----------------------------------------------------------------------------
Cells(b) == b.off..(b.off + b.size - 1)

\* The blocks a program has from the arena share no byte and stay below the
\* blocks of JaclHeap, also when one of them is grown in place.
ArenaApart ==
  /\ \A b \in live : Cells(b) \subseteq 0..(Limit - 1)
  /\ \A b, c \in live : b # c => Cells(b) \cap Cells(c) = {}

\* The assertions malloc makes after the arena has refused:
\* tls_off <= JACL_HEAP_INIT / 4, tls_end <= JACL_HEAP_INIT / 4 and
\* tls_off <= tls_end.
AssertsHold ==
  \A t \in Users : a_pc[t] = "bins" =>
    Off(t) <= Limit /\ End(t) <= Limit /\ Off(t) <= End(t)

\* The blocks of the arena share no byte and stay below those of the bins, and
\* the assertions malloc makes after the arena has refused a request hold.
ArenaSound == ArenaApart /\ AssertsHold

=============================================================================
