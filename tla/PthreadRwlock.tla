--------------------------- MODULE PthreadRwlock ---------------------------
(***************************************************************************)
(* pthread_rwlock_t of include/pthread.h: counts of readers, writers and   *)
(* waiting writers, and the writer's tid.  Readers sleep on the word       *)
(* "writers" while it is 1, writers on the word "readers" while it is 0.   *)
(*                                                                         *)
(* Every load, store and read-modify-write of a field and every futex call *)
(* is a step of its own.  Readers call rdlock, timedrdlock or tryrdlock,   *)
(* Writers call wrlock, timedwrlock or trywrlock; a thread unlocks what it *)
(* holds.  holds[t] is what t has been given: it is set where the lock     *)
(* function returns 0 and cleared where unlock gives it up.                *)
(***************************************************************************)
EXTENDS Integers, FiniteSets

CONSTANTS Readers, Writers,
          None          \* tid 0

Users == Readers \cup Writers

VARIABLES
  readers, writers, write_waiters, writer_tid,    \* the fields
  pc,
  call,                                           \* "block", "try" or "timed"
  holds                                           \* "none", "read" or "write"

vars == <<readers, writers, write_waiters, writer_tid, pc, call, holds>>
fields == <<readers, writers, write_waiters, writer_tid>>

RdLabels == {"rd_writers", "rd_waiters", "rd_wait", "rd_asleep", "rd_inc"}
WrLabels == {"wr_readers", "wr_writers", "wr_wait", "wr_asleep", "wr_dec"}
Labels == RdLabels \cup WrLabels \cup
  {"idle", "wr_store", "wr_tid", "try_readers", "try_writers", "try_cas",
   "un_writers", "un_tid", "un_clear", "un_cleartid", "un_wakew", "un_waker",
   "un_dec", "un_wakelast"}

\* pthread_rwlock_init
Init ==
  /\ readers = 0 /\ writers = 0 /\ write_waiters = 0 /\ writer_tid = None
  /\ pc = [t \in Users |-> "idle"]
  /\ call = [t \in Users |-> "block"]
  /\ holds = [t \in Users |-> "none"]

Goto(t, label) == pc' = [pc EXCEPT ![t] = label]
From(t, here, there) == pc[t] = here /\ Goto(t, there)
Hold(t, what) == holds' = [holds EXCEPT ![t] = what]
Call(t, kind) == call' = [call EXCEPT ![t] = kind]

-----------------------------------------------------------------------------
\* pthread_rwlock_rdlock, timedrdlock and tryrdlock.
RdLock(t) ==
  /\ holds[t] = "none"
  /\ From(t, "idle", "rd_writers")
  /\ \E kind \in {"block", "try", "timed"} : Call(t, kind)
  /\ UNCHANGED <<fields, holds>>

\* What a reader does that finds a writer: wait, or give up with EBUSY.
Refused(t) == IF call[t] = "try" THEN "idle" ELSE "rd_wait"

RdWriters(t) ==
  /\ From(t, "rd_writers", IF writers # 0 THEN Refused(t) ELSE "rd_waiters")
  /\ UNCHANGED <<fields, call, holds>>

RdWaiters(t) ==
  /\ From(t, "rd_waiters", IF write_waiters > 0 THEN Refused(t) ELSE "rd_inc")
  /\ UNCHANGED <<fields, call, holds>>

\* FUTEX_WAIT(&writers, 1); EAGAIN when the word is not 1.
RdWait(t) ==
  /\ From(t, "rd_wait", IF writers = 1 THEN "rd_asleep" ELSE "rd_writers")
  /\ UNCHANGED <<fields, call, holds>>

\* A timed call returns ETIMEDOUT, before it sleeps.
RdTimeout(t) ==
  /\ call[t] = "timed"
  /\ From(t, "rd_wait", "idle")
  /\ UNCHANGED <<fields, call, holds>>

RdInc(t) ==
  /\ From(t, "rd_inc", "idle")
  /\ readers' = readers + 1
  /\ Hold(t, "read")
  /\ UNCHANGED <<writers, write_waiters, writer_tid, call>>

-----------------------------------------------------------------------------
\* pthread_rwlock_wrlock and timedwrlock.
WrLock(t) ==
  /\ holds[t] = "none"
  /\ From(t, "idle", "wr_readers")
  /\ \E kind \in {"block", "timed"} : Call(t, kind)
  /\ write_waiters' = write_waiters + 1
  /\ UNCHANGED <<readers, writers, writer_tid, holds>>

WrReaders(t) ==
  /\ From(t, "wr_readers", IF readers # 0 THEN "wr_wait" ELSE "wr_writers")
  /\ UNCHANGED <<fields, call, holds>>

WrWriters(t) ==
  /\ From(t, "wr_writers", IF writers # 0 THEN "wr_wait" ELSE "wr_dec")
  /\ UNCHANGED <<fields, call, holds>>

\* FUTEX_WAIT(&readers, 0); EAGAIN when there are readers.
WrWait(t) ==
  /\ From(t, "wr_wait", IF readers = 0 THEN "wr_asleep" ELSE "wr_readers")
  /\ UNCHANGED <<fields, call, holds>>

\* Mutant: a writer that times out stays counted as waiting.
MutWrTimeout(t) ==
  /\ call[t] = "timed"
  /\ From(t, "wr_wait", "idle")
  /\ UNCHANGED <<fields, call, holds>>

\* A timed call uncounts itself and returns ETIMEDOUT, before it sleeps.
WrTimeout(t) ==
  /\ call[t] = "timed"
  /\ From(t, "wr_wait", "idle")
  /\ write_waiters' = write_waiters - 1
  /\ UNCHANGED <<readers, writers, writer_tid, call, holds>>

WrDec(t) ==
  /\ From(t, "wr_dec", "wr_store")
  /\ write_waiters' = write_waiters - 1
  /\ UNCHANGED <<readers, writers, writer_tid, call, holds>>

WrStore(t) ==
  /\ From(t, "wr_store", "wr_tid")
  /\ writers' = 1
  /\ UNCHANGED <<readers, write_waiters, writer_tid, call, holds>>

\* writer_tid = gettid, and wrlock or trywrlock returns 0.
WrTid(t) ==
  /\ From(t, "wr_tid", "idle")
  /\ writer_tid' = t
  /\ Hold(t, "write")
  /\ UNCHANGED <<readers, writers, write_waiters, call>>

-----------------------------------------------------------------------------
\* pthread_rwlock_trywrlock.
TryWrLock(t) ==
  /\ holds[t] = "none"
  /\ From(t, "idle", "try_readers")
  /\ UNCHANGED <<fields, call, holds>>

TryReaders(t) ==
  /\ From(t, "try_readers", IF readers # 0 THEN "idle" ELSE "try_writers")
  /\ UNCHANGED <<fields, call, holds>>

TryWord(t) ==
  /\ From(t, "try_writers", IF writers # 0 THEN "idle" ELSE "try_cas")
  /\ UNCHANGED <<fields, call, holds>>

TryCas(t) ==
  /\ From(t, "try_cas", IF writers = 0 THEN "wr_tid" ELSE "idle")
  /\ writers' = IF writers = 0 THEN 1 ELSE writers
  /\ UNCHANGED <<readers, write_waiters, writer_tid, call, holds>>

-----------------------------------------------------------------------------
\* pthread_rwlock_unlock: a writer when the word and the tid say so, or else a
\* reader.
Unlock(t) ==
  /\ holds[t] # "none"
  /\ From(t, "idle", "un_writers")
  /\ UNCHANGED <<fields, call, holds>>

UnWriters(t) ==
  /\ From(t, "un_writers", IF writers = 1 THEN "un_tid" ELSE "un_dec")
  /\ UNCHANGED <<fields, call, holds>>

\* Mutant: whoever unlocks a write-locked lock is taken for its writer.
MutUnTid(t) ==
  /\ From(t, "un_tid", "un_clear")
  /\ UNCHANGED <<fields, call, holds>>

UnTid(t) ==
  /\ From(t, "un_tid", IF writer_tid = t THEN "un_clear" ELSE "un_dec")
  /\ UNCHANGED <<fields, call, holds>>

UnClear(t) ==
  /\ From(t, "un_clear", "un_cleartid")
  /\ writers' = 0
  /\ Hold(t, "none")
  /\ UNCHANGED <<readers, write_waiters, writer_tid, call>>

UnClearTid(t) ==
  /\ From(t, "un_cleartid", "un_wakew")
  /\ writer_tid' = None
  /\ UNCHANGED <<readers, writers, write_waiters, call, holds>>

UnDec(t) ==
  /\ From(t, "un_dec", IF readers = 1 THEN "un_wakelast" ELSE "idle")
  /\ readers' = readers - 1
  /\ Hold(t, "none")
  /\ UNCHANGED <<writers, write_waiters, writer_tid, call>>

\* FUTEX_WAKE(word, 1): one of the sleepers at label "from" resumes at "to".
WakeOne(t, here, there, from, to) ==
  /\ pc[t] = here
  /\ \/ /\ \A u \in Users : pc[u] # from
        /\ Goto(t, there)
     \/ \E u \in Users :
          pc[u] = from /\ pc' = [pc EXCEPT ![u] = to, ![t] = there]
  /\ UNCHANGED <<fields, call, holds>>

\* On &readers, then on &writers.
UnWake(t) ==
  \/ WakeOne(t, "un_wakew", "un_waker", "wr_asleep", "wr_readers")
  \/ WakeOne(t, "un_waker", "idle", "rd_asleep", "rd_writers")
  \/ WakeOne(t, "un_wakelast", "idle", "wr_asleep", "wr_readers")

\* A sleep that ends without FUTEX_WAKE.
SpuriousWake(t) ==
  /\ \/ From(t, "rd_asleep", "rd_writers")
     \/ From(t, "wr_asleep", "wr_readers")
  /\ UNCHANGED <<fields, call, holds>>

-----------------------------------------------------------------------------
RdSteps(t) == RdWriters(t) \/ RdWaiters(t) \/ RdWait(t) \/ RdInc(t)
WrSteps(t) ==
  WrReaders(t) \/ WrWriters(t) \/ WrWait(t) \/ WrDec(t) \/ WrStore(t) \/ WrTid(t)
TrySteps(t) == TryReaders(t) \/ TryWord(t) \/ TryCas(t)
UnSteps(t) ==
  Unlock(t) \/ UnWriters(t) \/ UnTid(t) \/ UnClear(t) \/ UnClearTid(t)
    \/ UnDec(t) \/ UnWake(t)

Steps(t) == RdSteps(t) \/ WrSteps(t) \/ TrySteps(t) \/ UnSteps(t)

Next ==
  \/ \E t \in Readers : RdLock(t) \/ RdTimeout(t)
  \/ \E t \in Writers : WrLock(t) \/ WrTimeout(t) \/ TryWrLock(t)
  \/ \E t \in Users : Steps(t) \/ SpuriousWake(t)

Spec == Init /\ [][Next]_vars

\* Runnable threads run, and whoever holds the lock gives it back.
FairSpec == Spec /\ \A t \in Users : WF_vars(Steps(t))

-----------------------------------------------------------------------------
TypeOK ==
  /\ readers \in 0..Cardinality(Readers)
  /\ writers \in {0, 1}
  /\ write_waiters \in 0..Cardinality(Writers)
  /\ writer_tid \in Users \cup {None}
  /\ pc \in [Users -> Labels]
  /\ call \in [Users -> {"block", "try", "timed"}]
  /\ holds \in [Users -> {"none", "read", "write"}]

\* The counts are the numbers of threads that read and that wait to write, so
\* a lock that everybody has left is free again.  It needs unlock to tell
\* writers from readers, which it does by fields other threads write.
CountsExact ==
  /\ readers = Cardinality({t \in Users : holds[t] = "read"})
  /\ write_waiters = Cardinality({t \in Users : pc[t] \in WrLabels})

\* After wrlock or trywrlock has returned 0 the lock says that t has it:
\* writers is 1 and writer_tid is t.
WriterRecorded ==
  \A t \in Users :
    pc[t] = "idle" /\ holds[t] = "write" => writers = 1 /\ writer_tid = t

Free == readers = 0 /\ writers = 0

\* wrlock of an unlocked lock returns: a writer does not stay in wrlock while
\* nobody has the lock.
WriterAdmitted ==
  \A t \in Writers :
    (pc[t] \in WrLabels /\ Free) ~> (pc[t] = "idle" \/ ~Free)

\* rdlock of an unlocked lock that no writer waits for returns, likewise.
ReaderAdmitted ==
  LET Open == Free /\ write_waiters = 0
  IN  \A t \in Readers :
        (pc[t] \in RdLabels /\ Open) ~> (pc[t] = "idle" \/ ~Open)

=============================================================================
