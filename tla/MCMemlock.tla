----------------------------- MODULE MCMemlock -----------------------------
(***************************************************************************)
(* The parts of core/memory.h that keep threads apart, for TLC: one ticket *)
(* lock on its own, the locks that fork takes together, and the arena.     *)
(* Which of them is looked at is chosen at the start, and the others do    *)
(* not move.                                                               *)
(***************************************************************************)
EXTENDS JaclMemlock, JaclFork, JaclArena

VARIABLE kind

\* thread_local as the C standard means it.
OwnTls == [t \in Users |-> t]

ASSUME ForkAssumption == ForkSetting
ASSUME ArenaAssumption == ArenaSetting

all == <<vars, forkvars, arenavars, kind>>

MCInit ==
  /\ Init /\ ForkInit /\ ArenaInit
  /\ \/ kind = "lock"
     \/ kind \in {"fork", "arena"} /\ next = 0

MCNext ==
  \/ kind = "lock" /\ Next /\ UNCHANGED <<forkvars, arenavars, kind>>
  \/ kind = "fork" /\ ForkNext /\ UNCHANGED <<vars, arenavars, kind>>
  \/ kind = "arena" /\ ArenaNext /\ UNCHANGED <<vars, forkvars, kind>>

MCSpec ==
  /\ MCInit /\ [][MCNext]_all
  /\ \A t \in Threads :
       WF_all(/\ kind = "lock"
              /\ Enter(t) \/ Release(t)
              /\ UNCHANGED <<forkvars, arenavars, kind>>)
  /\ \A t \in All :
       WF_all(kind = "fork" /\ Steps(t) /\ UNCHANGED <<vars, arenavars, kind>>)
  /\ WF_all(kind = "fork" /\ (Block \/ SysFork) /\ UNCHANGED <<vars, arenavars, kind>>)

=============================================================================
