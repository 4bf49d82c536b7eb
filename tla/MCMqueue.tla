------------------------------ MODULE MCMqueue ------------------------------
(***************************************************************************)
(* Message queues for TLC: what threads do with one queue, and how queues  *)
(* are opened, closed and unlinked.  Which of the two is looked at is      *)
(* chosen at the start, and the other one does not move.                   *)
(***************************************************************************)
EXTENDS Mqueue, MqueueRegistry, TLC

VARIABLE kind

\* The tables have a size, and threads close what they opened themselves.
ASSUME TablesAssumption == RegistrySetting

all == <<vars, regvars, kind>>

MCInit ==
  /\ Init /\ RegInit
  /\ \/ kind = "queue"
     \/ kind = "registry" /\ ~nonblock

MCNext ==
  \/ kind = "queue" /\ Next /\ UNCHANGED <<regvars, kind>>
  \/ kind = "registry" /\ RegNext /\ UNCHANGED <<vars, kind>>

MCSpec == MCInit /\ [][MCNext]_all

\* Threads are interchangeable, and so are names.
Symmetry == Permutations(Threads) \cup Permutations(Openers) \cup Permutations(Names)

=============================================================================
