---------------------------- MODULE PthreadOnce ----------------------------
(***************************************************************************)
(* pthread_once of include/pthread.h, and call_once of include/threads.h   *)
(* over it: the caller whose compare-exchange moves done from 0 to 1 runs  *)
(* the initialiser; everybody else returns.                                *)
(***************************************************************************)
EXTENDS Naturals, FiniteSets

CONSTANT Threads

VARIABLES done,           \* once_control->done
          pc,
          started,        \* how often init_routine was entered
          complete        \* init_routine has returned

vars == <<done, pc, started, complete>>

Init ==
  /\ done = 0
  /\ pc = [t \in Threads |-> "idle"]
  /\ started = 0
  /\ complete = FALSE

Goto(t, here, there) == pc[t] = here /\ pc' = [pc EXCEPT ![t] = there]

Call(t) == pc[t] \in {"idle", "back"} /\ pc' = [pc EXCEPT ![t] = "cas"]
           /\ UNCHANGED <<done, started, complete>>

\* Mutant: done is tested, and set by the initialiser's caller afterwards.
MutCas(t) ==
  /\ Goto(t, "cas", IF done = 0 THEN "init" ELSE "back")
  /\ started' = IF done = 0 THEN started + 1 ELSE started
  /\ UNCHANGED <<done, complete>>

\* The compare-exchange, and the call of the initialiser if it succeeds.
Cas(t) ==
  /\ Goto(t, "cas", IF done = 0 THEN "init" ELSE "back")
  /\ started' = IF done = 0 THEN started + 1 ELSE started
  /\ done' = 1
  /\ UNCHANGED complete

\* The initialiser returns, and pthread_once with it.
Initialised(t) ==
  /\ Goto(t, "init", "back")
  /\ complete' = TRUE
  /\ UNCHANGED <<done, started>>

Next == \E t \in Threads : Call(t) \/ Cas(t) \/ Initialised(t)

Spec == Init /\ [][Next]_vars

-----------------------------------------------------------------------------
\* The initialiser is entered once, however many callers race for it, and from
\* the moment done is set there is a caller that runs it or has run it.
InitOnce ==
  /\ started = done
  /\ done = 1 /\ ~complete => Cardinality({t \in Threads : pc[t] = "init"}) = 1

\* When pthread_once returns 0 the initialiser has run.
OnceMeansDone == \A t \in Threads : pc[t] = "back" => complete

=============================================================================
