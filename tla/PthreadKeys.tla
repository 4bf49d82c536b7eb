---------------------------- MODULE PthreadKeys ----------------------------
(***************************************************************************)
(* Thread-specific data in include/pthread.h: keys, their values and the   *)
(* destructors pthread_exit runs (tss_* of threads.h are wrappers).        *)
(*                                                                         *)
(* __jacl_pthread_tls_values is thread_local, but threads are cloned       *)
(* without CLONE_SETTLS and run with their creator's thread pointer: all   *)
(* of them use one array.  pthread_create calls init_keys, so key 0 is the *)
(* key of pthread_self before a second thread exists.                      *)
(***************************************************************************)
EXTENDS Naturals, FiniteSets

CONSTANTS Threads,      \* each thread sets its own name as a value
          MaxKeys,      \* MAX_TLS_KEYS
          Iterations,   \* PTHREAD_DESTRUCTOR_ITERATIONS
          MaxCounter,   \* bound: calls of pthread_key_create
          None

Keys == 0..(MaxKeys - 1)

VARIABLES
  counter,        \* __jacl_pthread_tls_key_counter
  values,         \* __jacl_pthread_tls_values
  destructors,    \* which keys have one
  pc,
  k,              \* the key or the loop index of a thread
  iterations, had_values,
  created         \* the keys pthread_key_create returned

vars == <<counter, values, destructors, pc, k, iterations, had_values, created>>

Init ==
  /\ counter = 1
  /\ values = [i \in Keys |-> None]
  /\ destructors = {}
  /\ pc = [t \in Threads |-> "run"]
  /\ k = [t \in Threads |-> 0]
  /\ iterations = [t \in Threads |-> Iterations]
  /\ had_values = [t \in Threads |-> FALSE]
  /\ created = {}

From(t, here, there) == pc[t] = here /\ pc' = [pc EXCEPT ![t] = there]

-----------------------------------------------------------------------------
\* Mutant: the counter is read and then written.
MutKeyCreate(t) ==
  /\ counter < MaxCounter
  /\ From(t, "run", IF counter >= MaxKeys THEN "run" ELSE "store")
  /\ k' = [k EXCEPT ![t] = counter]
  /\ UNCHANGED <<counter, values, destructors, iterations, had_values, created>>

\* pthread_key_create: fetch_add, EAGAIN when there are no keys left.
KeyCreate(t) ==
  /\ counter < MaxCounter
  /\ From(t, "run", IF counter >= MaxKeys THEN "run" ELSE "store")
  /\ k' = [k EXCEPT ![t] = IF counter >= MaxKeys THEN 0 ELSE counter]
  /\ counter' = counter + 1
  /\ UNCHANGED <<values, destructors, iterations, had_values, created>>

\* It stores the destructor and returns the key.
KeyCreated(t) ==
  /\ From(t, "store", "run")
  /\ \E d \in SUBSET {k[t]} : destructors' = (destructors \ {k[t]}) \cup d
  /\ created' = created \cup {k[t]}
  /\ k' = [k EXCEPT ![t] = 0]
  /\ UNCHANGED <<counter, values, iterations, had_values>>

\* pthread_key_delete of a key somebody created: only its destructor goes.
KeyDelete(t, i) ==
  /\ pc[t] = "run" /\ i \in destructors
  /\ destructors' = destructors \ {i}
  /\ UNCHANGED <<counter, values, pc, k, iterations, had_values, created>>

\* pthread_setspecific(i, t)
SetSpecific(t, i) ==
  /\ From(t, "run", "set") /\ i \in created
  /\ values' = [values EXCEPT ![i] = t]
  /\ k' = [k EXCEPT ![t] = i]
  /\ UNCHANGED <<counter, destructors, iterations, had_values, created>>

\* pthread_getspecific(i), by the same thread with no other call in between:
\* it returns values[i].
GetSpecific(t) ==
  /\ From(t, "set", "run")
  /\ k' = [k EXCEPT ![t] = 0]
  /\ UNCHANGED <<counter, values, destructors, iterations, had_values, created>>

-----------------------------------------------------------------------------
\* pthread_exit comes to __jacl_pthread_destroy.
Exit(t) ==
  /\ From(t, "run", "loop")
  /\ k' = [k EXCEPT ![t] = 0]
  /\ had_values' = [had_values EXCEPT ![t] = FALSE]
  /\ UNCHANGED <<counter, values, destructors, iterations, created>>

\* One turn of the inner loop: the slot is cleared before its destructor runs.
DestroyKey(t) ==
  /\ k[t] < counter /\ k[t] < MaxKeys
  /\ From(t, "loop", IF values[k[t]] # None /\ k[t] \in destructors
                     THEN "destructor" ELSE "loop")
  /\ \/ /\ values[k[t]] # None /\ k[t] \in destructors
        /\ values' = [values EXCEPT ![k[t]] = None]
        /\ had_values' = [had_values EXCEPT ![t] = TRUE]
        /\ UNCHANGED k
     \/ /\ values[k[t]] = None \/ k[t] \notin destructors
        /\ k' = [k EXCEPT ![t] = @ + 1]
        /\ UNCHANGED <<values, had_values>>
  /\ UNCHANGED <<counter, destructors, iterations, created>>

\* The destructor, which may set its key again, returns.
Destructor(t) ==
  /\ From(t, "destructor", "loop")
  /\ \E v \in {values[k[t]], t} : values' = [values EXCEPT ![k[t]] = v]
  /\ k' = [k EXCEPT ![t] = @ + 1]
  /\ UNCHANGED <<counter, destructors, iterations, had_values, created>>

\* Mutant: the iterations are not counted.
MutRoundEnds(t) ==
  /\ ~(k[t] < counter /\ k[t] < MaxKeys)
  /\ From(t, "loop", IF had_values[t] THEN "loop" ELSE "gone")
  /\ k' = [k EXCEPT ![t] = 0]
  /\ had_values' = [had_values EXCEPT ![t] = FALSE]
  /\ UNCHANGED <<counter, values, destructors, iterations, created>>

\* The condition of the outer loop.
RoundEnds(t) ==
  /\ ~(k[t] < counter /\ k[t] < MaxKeys)
  /\ From(t, "loop", IF had_values[t] /\ iterations[t] > 1 THEN "loop" ELSE "gone")
  /\ iterations' = [iterations EXCEPT ![t] = IF had_values[t] THEN @ - 1 ELSE @]
  /\ k' = [k EXCEPT ![t] = 0]
  /\ had_values' = [had_values EXCEPT ![t] = FALSE]
  /\ UNCHANGED <<counter, values, destructors, created>>

-----------------------------------------------------------------------------
Steps(t) == DestroyKey(t) \/ Destructor(t) \/ RoundEnds(t)

Next ==
  \E t \in Threads :
    \/ KeyCreate(t) \/ KeyCreated(t) \/ GetSpecific(t) \/ Exit(t) \/ Steps(t)
    \/ \E i \in Keys : KeyDelete(t, i) \/ SetSpecific(t, i)

Spec == Init /\ [][Next]_vars

\* A thread that is exiting runs, and destructors return.
FairSpec == Spec /\ \A t \in Threads : WF_vars(Steps(t))

-----------------------------------------------------------------------------
\* No key is handed out twice, nor the key of pthread_self, also when threads
\* create keys at the same time and when they run out.
KeysDistinct ==
  \A t \in Threads : pc[t] = "store" =>
    /\ k[t] \in Keys \ ({0} \cup created)
    /\ \A u \in Threads \ {t} : pc[u] = "store" => k[u] # k[t]

\* pthread_exit gets past the destructors although they may set their keys
\* again: each of the PTHREAD_DESTRUCTOR_ITERATIONS rounds ends.
DestroyEnds == \A t \in Threads : (pc[t] = "loop") ~> (pc[t] = "gone")

\* pthread_getspecific returns what the thread stored with pthread_setspecific.
GetReturnsSet ==
  [][\A t \in Threads : pc[t] = "set" /\ pc'[t] = "run" => values[k[t]] = t]_vars

=============================================================================
