------------------------------- MODULE AioRing -------------------------------
(***************************************************************************)
(* The io_uring path of include/aio.h on Linux: threads publish entries in *)
(* the submission ring and kick the kernel, which works on the requests    *)
(* and posts completions; every aio_error, aio_suspend and aio_cancel      *)
(* reaps the completion ring into the control blocks.                      *)
(*                                                                         *)
(* The kernel is a separate actor (external).  A request that finds no     *)
(* submission entry goes to the thread pool, which AioPool models; here    *)
(* the pool just completes it some time later.  Calls that fail their      *)
(* argument checks change nothing and are left out.                        *)
(***************************************************************************)
EXTENDS Naturals, Sequences, FiniteSets, Bags, BagsExt

CONSTANTS Threads,
          Cbs,        \* the control blocks of the program
          Null,       \* a zero user_data
          Entries,    \* sq_entries; the completion ring has twice as many
          Width,      \* ring counters are modulo this, a multiple of 2 * Entries
          Tries,      \* how often aio_cancel looks again (100 in the code)
          MaxCalls,   \* bound on the calls other than aio_error in a behaviour
          Ops,        \* the calls the program makes
          Faults      \* whether io_uring_enter may fail

VARIABLES
  up,                 \* __jacl_ring.fd >= 0
  initialized,        \* __jacl_ring.initialized
  use_fallback,       \* __jacl_ring.use_fallback
  sqHead, sqTail, sqes,
  cqHead, cqTail, cqes,
  kernel,             \* bag of what the kernel works on
  state,              \* __jacl_state of each control block
  pooled,             \* control blocks handed to the thread pool
  pc, op,             \* where each thread is, and in which call
  list, i,            \* the control blocks of its call, and the current one
  lo, hi,             \* counters it loaded from a ring
  looks,              \* how often its aio_cancel or aio_suspend has reaped since
  calls,              \* ghost: calls made
  accepted,           \* ghost: control blocks whose last submission returned 0
  disowned,           \* ghost: see NoEarlyCompletion
  fault               \* ghost: a kick failed or a ring was destroyed

sqvars == <<sqHead, sqTail, sqes>>
cqvars == <<cqHead, cqTail, cqes>>
setup == <<up, initialized, use_fallback>>
locals == <<pc, op, list, i, lo, hi, looks>>
ghosts == <<calls, accepted, disowned, fault>>
vars == <<setup, sqvars, cqvars, kernel, state, pooled, locals, ghosts>>

\* Entries of the rings: a request of control block ud, or a cancel entry.
Entry == [kind : {"io", "cancel"}, ud : Cbs \cup {Null}, addr : Cbs \cup {Null}]
ZeroEntry == [kind |-> "io", ud |-> Null, addr |-> Null]
NoCqe == [kind |-> "io", ud |-> Null, res |-> "ok"]

CqEntries == 2 * Entries
Diff(a, b) == (a + Width - b) % Width

-----------------------------------------------------------------------------
\* The rings of a new io_uring.
EmptyRings ==
  /\ sqHead' = 0 /\ sqTail' = 0 /\ sqes' = [n \in 0..Entries-1 |-> ZeroEntry]
  /\ cqHead' = 0 /\ cqTail' = 0 /\ cqes' = [n \in 0..CqEntries-1 |-> NoCqe]

\* Control blocks start zeroed, as programs do it: their state reads 0.
Init ==
  /\ up = FALSE /\ initialized = FALSE /\ use_fallback = FALSE
  /\ sqHead = 0 /\ sqTail = 0 /\ sqes = [n \in 0..Entries-1 |-> ZeroEntry]
  /\ cqHead = 0 /\ cqTail = 0 /\ cqes = [n \in 0..CqEntries-1 |-> NoCqe]
  /\ kernel = EmptyBag
  /\ state = [c \in Cbs |-> 0]
  /\ pooled = {}
  /\ pc = [t \in Threads |-> "idle"]
  /\ op = [t \in Threads |-> "none"]
  /\ list = [t \in Threads |-> <<>>]
  /\ i = [t \in Threads |-> 0]
  /\ lo = [t \in Threads |-> 0]
  /\ hi = [t \in Threads |-> 0]
  /\ looks = [t \in Threads |-> 0]
  /\ calls = 0 /\ accepted = {} /\ disowned = {} /\ fault = FALSE

\* The control block a call is at.
Cb(t) == list[t][i[t]]

Goto(t, label) == pc' = [pc EXCEPT ![t] = label] /\ UNCHANGED <<op, list, i, lo, hi, looks>>

\* A call returns; its locals are gone.
Return(t) ==
  /\ pc' = [pc EXCEPT ![t] = "idle"]
  /\ op' = [op EXCEPT ![t] = "none"]
  /\ list' = [list EXCEPT ![t] = <<>>]
  /\ i' = [i EXCEPT ![t] = 0]
  /\ lo' = [lo EXCEPT ![t] = 0]
  /\ hi' = [hi EXCEPT ![t] = 0]
  /\ looks' = [looks EXCEPT ![t] = 0]

InCall(c) == \E t \in Threads : \E k \in 1..Len(list[t]) : list[t][k] = c

\* A program does not touch a control block another call is using, and does
\* not submit one again before it has seen it done.
Usable(c) == ~InCall(c) /\ (c \in accepted => state[c] # 0)

Begin(t, o, label, s) ==
  /\ pc[t] = "idle"
  /\ o \in Ops
  /\ op' = [op EXCEPT ![t] = o]
  /\ pc' = [pc EXCEPT ![t] = label]
  /\ list' = [list EXCEPT ![t] = s]
  /\ i' = [i EXCEPT ![t] = IF s = <<>> THEN 0 ELSE 1]
  /\ UNCHANGED <<lo, hi, looks, setup, sqvars, cqvars, kernel, state, pooled, disowned, fault>>

\* aio_read, aio_write or aio_fsync; lio_listio and aio_submit_batch.
CallSubmit(t) ==
  /\ calls < MaxCalls /\ calls' = calls + 1
  /\ \E o \in {"aio_read", "LIO_WAIT", "LIO_NOWAIT"}, c, d \in Cbs :
       LET s == IF o = "aio_read" \/ c = d THEN <<c>> ELSE <<c, d>> IN
       /\ Usable(c) /\ Usable(d)
       /\ o = "aio_read" => c = d
       /\ accepted' = accepted \ {c, d}
       /\ Begin(t, o, "next", s)

\* aio_error and aio_return reap first; so do aio_suspend and aio_cancel.
CallReap(t) ==
  \/ /\ Begin(t, "aio_error", "reap", <<>>)
     /\ UNCHANGED <<calls, accepted>>
  \/ /\ calls < MaxCalls /\ calls' = calls + 1
     /\ \E o \in {"aio_suspend", "aio_cancel"}, c \in Cbs : Begin(t, o, "reap", <<c>>)
     /\ UNCHANGED accepted

\* aio_destroy, by a program whose other threads are not inside a call: the
\* ring is closed and unmapped, and what was in it is forgotten.
Destroy(t) ==
  /\ "aio_destroy" \in Ops
  /\ \A u \in Threads : pc[u] = "idle"
  /\ up
  /\ calls < MaxCalls /\ calls' = calls + 1
  /\ up' = FALSE /\ initialized' = FALSE /\ use_fallback' = FALSE
  /\ EmptyRings
  /\ kernel' = EmptyBag
  /\ fault' = TRUE
  /\ UNCHANGED <<state, pooled, locals, accepted, disowned>>

-----------------------------------------------------------------------------
(* Submitting. *)

\* The head of the loop of lio_listio: a LIO_NOP entry is done at once.
Nop(t) ==
  /\ pc[t] = "next" /\ op[t] \in {"LIO_WAIT", "LIO_NOWAIT"}
  /\ i[t] <= Len(list[t])
  /\ state' = [state EXCEPT ![Cb(t)] = 1]
  /\ i' = [i EXCEPT ![t] = @ + 1]
  /\ UNCHANGED <<setup, sqvars, cqvars, kernel, pooled, pc, op, list, lo, hi, looks, ghosts>>

\* __jacl_aio_init_ring, one section under the pool's lock the first time: it
\* may fail, for good (use_fallback) or for now, and is not tried again.
InitRing(t) ==
  /\ pc[t] = "next" /\ i[t] <= Len(list[t])
  /\ \/ initialized /\ Goto(t, "tail") /\ UNCHANGED <<setup, sqvars, cqvars>>
     \/ ~initialized /\ initialized' = TRUE /\ up' = TRUE /\ EmptyRings
        /\ Goto(t, "tail") /\ UNCHANGED use_fallback
     \/ ~initialized /\ initialized' = TRUE /\ use_fallback' \in BOOLEAN
        /\ Goto(t, "pool") /\ UNCHANGED <<up, sqvars, cqvars>>
  /\ UNCHANGED <<kernel, state, pooled, ghosts>>

\* Every entry was submitted: LIO_WAIT goes on to wait for each.
Submitted(t) ==
  /\ pc[t] = "next" /\ i[t] > Len(list[t])
  /\ IF op[t] = "LIO_WAIT"
     THEN /\ i' = [i EXCEPT ![t] = 1]
          /\ pc' = [pc EXCEPT ![t] = "wait"]
          /\ UNCHANGED <<op, list, lo, hi, looks>>
     ELSE Return(t)
  /\ UNCHANGED <<setup, sqvars, cqvars, kernel, state, pooled, ghosts>>

\* __jacl_aio_get_sqe returns NULL: a submission turns to the thread pool,
\* aio_cancel gives up.
NoSqe(t) == IF op[t] = "aio_cancel" THEN Return(t) ELSE Goto(t, "pool")

\* __jacl_aio_get_sqe loads the tail,
LoadTail(t) ==
  /\ pc[t] = "tail"
  /\ IF use_fallback \/ ~up
     THEN NoSqe(t)
     ELSE /\ hi' = [hi EXCEPT ![t] = sqTail]
          /\ pc' = [pc EXCEPT ![t] = "head"]
          /\ UNCHANGED <<op, list, i, lo, looks>>
  /\ UNCHANGED <<setup, sqvars, cqvars, kernel, state, pooled, ghosts>>

\* then the head, and checks for room;
LoadHead(t) ==
  /\ pc[t] = "head"
  /\ IF Diff(hi[t], sqHead) >= Entries THEN NoSqe(t) ELSE Goto(t, "store")
  /\ UNCHANGED <<setup, sqvars, cqvars, kernel, state, pooled, ghosts>>

\* the tail is stored before the entry is filled.  (sq_array[n] is always n.)
StoreTail(t) ==
  /\ pc[t] = "store"
  /\ sqTail' = (hi[t] + 1) % Width
  /\ Goto(t, "fill")
  /\ UNCHANGED <<setup, sqHead, sqes, cqvars, kernel, state, pooled, ghosts>>

\* Mutant: submitting leaves the control block's state as it was.
MutStart(c) == UNCHANGED state

\* __jacl_aio_submit_sqe: the request is in progress.
Start(c) == state' = [state EXCEPT ![c] = 0]

\* The fields of the entry, and __jacl_aio_submit_sqe; aio_cancel fills in no
\* user_data, so its entry keeps the one its slot had before.
Fill(t) ==
  /\ pc[t] = "fill"
  /\ LET n == hi[t] % Entries IN
     IF op[t] = "aio_cancel"
     THEN /\ sqes' = [sqes EXCEPT ![n].kind = "cancel", ![n].addr = Cb(t)]
          /\ UNCHANGED state
     ELSE /\ sqes' = [sqes EXCEPT ![n].kind = "io", ![n].ud = Cb(t)]
          /\ Start(Cb(t))
  /\ Goto(t, "kick")
  /\ UNCHANGED <<setup, sqHead, sqTail, cqvars, kernel, pooled, ghosts>>

\* What follows a submission that returned ok; lio_listio ignores the result.
Done(t, ok) ==
  /\ accepted' = IF ok \/ op[t] # "aio_read" THEN accepted \cup {Cb(t)} ELSE accepted
  /\ pc' = [pc EXCEPT ![t] = "next"]
  /\ i' = [i EXCEPT ![t] = @ + 1]
  /\ UNCHANGED <<op, list, lo, hi, looks>>

\* Reap once more.
LookAgain(t) ==
  /\ looks' = [looks EXCEPT ![t] = @ + 1]
  /\ pc' = [pc EXCEPT ![t] = "reap"]
  /\ UNCHANGED <<op, list, i, lo, hi>>

\* The kernel takes a request (external): a cancel entry may reach the
\* request it is for, if that is still under way.
Take(e) ==
  LET req == [kind |-> "io", ud |-> e.addr]
      own == SetToBag({[kind |-> e.kind, ud |-> e.ud]})
  IN  \/ kernel' = kernel (+) own
      \/ /\ e.kind = "cancel" /\ BagIn(req, kernel)
         /\ kernel' = (kernel (-) SetToBag({req})) (+) own
                        (+) SetToBag({[kind |-> "canceled", ud |-> e.addr]})

\* __jacl_aio_kick: io_uring_enter takes one entry, the oldest, which need
\* not be the caller's.
Kick(t) ==
  /\ pc[t] = "kick"
  /\ IF sqHead = sqTail
     THEN UNCHANGED <<sqHead, kernel>>
     ELSE /\ Take(sqes[sqHead % Entries])
          /\ sqHead' = (sqHead + 1) % Width
  /\ IF op[t] = "aio_cancel" THEN LookAgain(t) /\ UNCHANGED accepted ELSE Done(t, TRUE)
  /\ UNCHANGED <<setup, sqTail, sqes, cqvars, state, pooled, calls, disowned, fault>>

\* It fails, and the entry stays published.
KickFails(t) ==
  /\ pc[t] = "kick"
  /\ Faults
  /\ fault' = TRUE
  /\ IF op[t] = "aio_cancel"
     THEN Return(t) /\ UNCHANGED <<accepted, disowned>>
     ELSE Done(t, FALSE) /\ disowned' = disowned \cup {Cb(t)}
  /\ UNCHANGED <<setup, sqvars, cqvars, kernel, state, pooled, calls>>

\* __jacl_aio_queue_fallback: accepted, or refused with EAGAIN.
ToPool(t) ==
  /\ pc[t] = "pool"
  /\ \/ pooled' = pooled \cup {Cb(t)} /\ Done(t, TRUE) /\ UNCHANGED fault
     \/ UNCHANGED pooled /\ Done(t, FALSE) /\ fault' = TRUE
  /\ UNCHANGED <<setup, sqvars, cqvars, kernel, state, calls, disowned>>

\* LIO_WAIT spins on each state in turn, without reaping, and after 30 s
\* marks the control block failed with ETIME.
ListWait(t) ==
  /\ pc[t] = "wait"
  /\ IF i[t] > Len(list[t])
     THEN Return(t) /\ UNCHANGED <<state, disowned>>
     ELSE /\ i' = [i EXCEPT ![t] = @ + 1]
          /\ state' = [state EXCEPT ![Cb(t)] = IF @ = 0 THEN 2 ELSE @]
          /\ disowned' = IF state[Cb(t)] = 0 THEN disowned \cup {Cb(t)} ELSE disowned
          /\ UNCHANGED <<pc, op, list, lo, hi, looks>>
  /\ UNCHANGED <<setup, sqvars, cqvars, kernel, pooled, calls, accepted, fault>>

-----------------------------------------------------------------------------
(* Reaping. *)

\* Where a call goes on after __jacl_aio_reap_cq.
Then(t) == CASE op[t] = "aio_suspend" -> IF looks[t] = 0 THEN "look" ELSE "over"
             [] op[t] = "aio_cancel"  -> "judge"
             [] OTHER                 -> "over"

\* __jacl_aio_reap_cq loads both counters,
Reap(t) ==
  /\ pc[t] = "reap"
  /\ IF use_fallback \/ ~up
     THEN Goto(t, Then(t))
     ELSE /\ lo' = [lo EXCEPT ![t] = cqHead]
          /\ hi' = [hi EXCEPT ![t] = cqTail]
          /\ pc' = [pc EXCEPT ![t] = "each"]
          /\ UNCHANGED <<op, list, i, looks>>
  /\ UNCHANGED <<setup, sqvars, cqvars, kernel, state, pooled, ghosts>>

Outcome(res) == CASE res = "ok" -> 1 [] res = "ECANCELED" -> 3 [] OTHER -> 2

\* goes through the completions between them,
ReapOne(t) ==
  /\ pc[t] = "each" /\ lo[t] # hi[t]
  /\ LET e == cqes[lo[t] % CqEntries]
         hit == e.ud # Null /\ state[e.ud] = 0
     IN  /\ state' = IF hit THEN [state EXCEPT ![e.ud] = Outcome(e.res)] ELSE state
         /\ disowned' = IF hit /\ e.kind = "cancel" THEN disowned \cup {e.ud} ELSE disowned
  /\ lo' = [lo EXCEPT ![t] = (@ + 1) % Width]
  /\ UNCHANGED <<setup, sqvars, cqvars, kernel, pooled, pc, op, list, i, hi, looks, calls, accepted, fault>>

\* Mutant: the tail is loaded again and stored as the head.
MutNewHead(t) == cqTail

\* What the head becomes: where the loop has come to.
NewHead(t) == lo[t]

\* and stores the head.
ReapEnd(t) ==
  /\ pc[t] = "each" /\ lo[t] = hi[t]
  /\ cqHead' = NewHead(t)
  /\ Goto(t, Then(t))
  /\ UNCHANGED <<setup, sqvars, cqTail, cqes, kernel, state, pooled, ghosts>>

\* aio_error and aio_return read the state and return; so does aio_suspend
\* after its second look.
Over(t) ==
  /\ pc[t] = "over"
  /\ Return(t)
  /\ UNCHANGED <<setup, sqvars, cqvars, kernel, state, pooled, ghosts>>

\* aio_suspend returns at once if the request is done or there is no ring;
\* otherwise it sleeps in io_uring_enter until a completion is posted or its
\* timeout is over, and reaps again, or until a signal.
Suspend(t) ==
  /\ \/ /\ pc[t] = "look"
        /\ IF state[Cb(t)] # 0 \/ ~up THEN Return(t) ELSE Goto(t, "enter")
     \/ /\ pc[t] = "enter"
        /\ LookAgain(t) \/ Return(t)
  /\ UNCHANGED <<setup, sqvars, cqvars, kernel, state, pooled, ghosts>>

\* aio_cancel after each reap: done, or the first time submit the cancel
\* entry, or look again up to Tries times.
Judge(t) ==
  /\ pc[t] = "judge"
  /\ IF state[Cb(t)] # 0 \/ ~up \/ looks[t] = Tries
     THEN Return(t)
     ELSE IF looks[t] = 0 THEN Goto(t, "tail") ELSE LookAgain(t)
  /\ UNCHANGED <<setup, sqvars, cqvars, kernel, state, pooled, ghosts>>

-----------------------------------------------------------------------------
\* The kernel posts a completion (external), when there is room for it.
Post ==
  /\ Diff(cqTail, cqHead) < CqEntries
  /\ \E r \in BagToSet(kernel) :
       /\ kernel' = kernel (-) SetToBag({r})
       /\ \E res \in IF r.kind = "canceled" THEN {"ECANCELED"} ELSE {"ok", "error"} :
            cqes' = [cqes EXCEPT ![cqTail % CqEntries] =
                       [kind |-> r.kind, ud |-> r.ud, res |-> res]]
  /\ cqTail' = (cqTail + 1) % Width
  /\ UNCHANGED <<setup, sqvars, cqHead, state, pooled, locals, ghosts>>

\* The thread pool completes a request (AioPool), unless its state says that
\* it is done.
PoolDone ==
  /\ \E c \in pooled :
       /\ pooled' = pooled \ {c}
       /\ \/ state[c] # 0 /\ UNCHANGED state
          \/ state[c] = 0 /\ \E s \in {1, 2} : state' = [state EXCEPT ![c] = s]
  /\ UNCHANGED <<setup, sqvars, cqvars, kernel, locals, ghosts>>

Step(t) ==
  \/ Nop(t) \/ InitRing(t) \/ Submitted(t)
  \/ LoadTail(t) \/ LoadHead(t) \/ StoreTail(t) \/ Fill(t) \/ Kick(t) \/ KickFails(t)
  \/ ToPool(t) \/ ListWait(t)
  \/ Reap(t) \/ ReapOne(t) \/ ReapEnd(t) \/ Over(t) \/ Suspend(t) \/ Judge(t)

Next ==
  \/ \E t \in Threads : CallSubmit(t) \/ CallReap(t) \/ Destroy(t) \/ Step(t)
  \/ Post
  \/ PoolDone

Spec == Init /\ [][Next]_vars

\* Calls go on once begun, the kernel and the pool finish what they took, and
\* the program keeps asking aio_error.
FairSpec ==
  /\ Spec
  /\ \A t \in Threads : WF_vars(Step(t)) /\ WF_vars(CallReap(t))
  /\ WF_vars(Post)
  /\ WF_vars(PoolDone)

-----------------------------------------------------------------------------
\* The requests of c that are published, with the kernel, or posted and not
\* yet reaped by anyone.
UnderWay(c) ==
  \/ \E k \in 0..Entries-1 : /\ k < Diff(sqTail, sqHead)
                             /\ sqes[(sqHead + k) % Entries].ud = c
                             /\ sqes[(sqHead + k) % Entries].kind = "io"
  \/ BagIn([kind |-> "io", ud |-> c], kernel)
  \/ \E k \in 0..CqEntries-1 : /\ k < Diff(cqTail, cqHead)
                               /\ cqes[(cqHead + k) % CqEntries].ud = c
                               /\ cqes[(cqHead + k) % CqEntries].kind # "cancel"

\* A control block reads EINPROGRESS for as long as the kernel may still use
\* its buffer, except when it was given up: LIO_WAIT ran into its 30 s limit,
\* the kick failed although the entry is published, or a cancel entry took
\* over the user_data its slot had before (aio_cancel does not set it).
NoEarlyCompletion ==
  \A c \in Cbs \ disowned :
    (UnderWay(c) /\ \A t \in Threads : pc[t] \notin {"fill", "each"}) => state[c] = 0

\* The ring never holds more than it has slots for.
RingBounded == Diff(sqTail, sqHead) <= Entries /\ Diff(cqTail, cqHead) <= CqEntries

\* A request that was accepted is completed, if no kick fails and the ring is
\* not destroyed under it.
AcceptedCompletes ==
  \A c \in Cbs : (c \in accepted) ~> (state[c] # 0 \/ c \notin accepted \/ fault)
=============================================================================
