------------------------------ MODULE SemSpec ------------------------------
(***************************************************************************)
(* What a System V semaphore set promises, without locks or waiting: an    *)
(* operation vector is carried out as a whole, in array order, in a state  *)
(* in which none of its operations would block.                            *)
(***************************************************************************)
EXTENDS Integers, Sequences

CONSTANTS Sems,       \* the semaphores of the set
          Vectors,    \* the operation vectors callers pass
          Modulus     \* 2^w for the w bits of a value

VARIABLE vals         \* the value of each semaphore

Init == vals = [s \in Sems |-> 0]

\* The values after the first n operations of v.
After(v, n) ==
  LET a[i \in 0..n] ==
        IF i = 0 THEN vals
        ELSE LET b == a[i - 1] IN [b EXCEPT ![v[i].sem] = (@ + v[i].op) % Modulus]
  IN  a[n]

\* The n-th operation of v does not block once those before it are done.
Ready(v, n) ==
  LET x == After(v, n - 1)[v[n].sem]
  IN  IF v[n].op = 0 THEN x = 0 ELSE x + v[n].op >= 0

Op == \E v \in Vectors :
  /\ \A n \in 1..Len(v) : Ready(v, n)
  /\ vals' = After(v, Len(v))

\* SETVAL.
Set == \E s \in Sems, n \in 0..(Modulus - 1) : vals' = [vals EXCEPT ![s] = n]

Next == Op \/ Set

Spec == Init /\ [][Next]_vals

=============================================================================
