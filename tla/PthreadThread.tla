--------------------------- MODULE PthreadThread ---------------------------
(***************************************************************************)
(* The life of a thread in include/pthread.h: pthread_create and the entry *)
(* function, pthread_self, join, detach, exit and deferred cancellation.   *)
(*                                                                         *)
(* A thread's descriptor (struct __jacl_pthread) is made by its creator,   *)
(* which fills in the tid after clone has returned.  pthread_self looks    *)
(* the descriptor up in the slot of __jacl_pthread_tls_values that belongs *)
(* to it; when the descriptor there has another tid it makes a second one. *)
(* __jacl_arch_clone_thread passes no CLONE_SETTLS, so a new thread runs   *)
(* with its creator's thread pointer and all threads share that slot.      *)
(* Descriptors are never freed.  Mains are threads that create, join,      *)
(* detach and cancel Children; handles are shared between Mains.           *)
(*                                                                         *)
(* Cleanup handlers and key destructors run the caller's code between the  *)
(* store of finished and the end of the thread; they and asynchronous      *)
(* cancellation by signal are left out.                                    *)
(***************************************************************************)
EXTENDS Naturals

CONSTANTS Mains, Children,
          Programs,     \* the sets of ways ("return", "exit", "cancel") in which
                        \* the children of a program may end
          None, Canceled

Threads == Mains \cup Children
Structs == Threads \X {"own", "alias"}
Own(t) == <<t, "own">>
Alias(t) == <<t, "alias">>

ASSUME RolesAssumption ==
  /\ Mains \cap Children = {}
  /\ Programs \subseteq SUBSET {"return", "exit", "cancel"}
  /\ {None, Canceled} \cap Threads = {} /\ None # Canceled

Fresh == [tid |-> None, finished |-> FALSE, detached |-> FALSE,
          joined |-> FALSE, result |-> None, cancel_enabled |-> TRUE,
          canceled |-> FALSE]

VARIABLES
  desc,         \* the descriptors
  slot,         \* __jacl_pthread_tls_values[__jacl_pthread_self_key]
  pc,
  after,        \* where a call of register_self or pthread_self returns to
  self,         \* what pthread_self returned
  arg,          \* the child a main is working on, or pthread_exit's retval
  born,         \* children whose pthread_create has returned
  ends,         \* the program: how its children may end
  outcome       \* each main's last pthread_join: of whom, what it returned

vars == <<desc, slot, pc, after, self, arg, born, ends, outcome>>
locals == <<after, self, arg>>

MainLabels == {"idle", "settid", "j_cas", "j_finished", "j_detached",
               "j_result", "d_cas"}
SelfLabels == {"reg", "regset", "read"}
ChildLabels == {"unborn", "start", "run", "r_finished", "e_result",
                "e_finished", "dying", "dead", "s_disable", "s_enable",
                "t_state", "t_canceled", "t_clear"}

Init ==
  /\ desc = [s \in Structs |-> Fresh]
  /\ slot = None
  /\ pc = [t \in Threads |-> IF t \in Mains THEN "idle" ELSE "unborn"]
  /\ after = [t \in Threads |-> "idle"]
  /\ self = [t \in Threads |-> None]
  /\ arg = [t \in Threads |-> None]
  /\ born = {}
  /\ ends \in Programs
  /\ outcome = [m \in Mains |-> [of |-> None, ret |-> "none", val |-> None]]

Goto(t, label) == pc' = [pc EXCEPT ![t] = label]
From(t, here, there) == pc[t] = here /\ Goto(t, there)

\* t calls pthread_self, or register_self, and goes on at label.
CallSelf(t, here, label) ==
  /\ From(t, here, "reg")
  /\ after' = [after EXCEPT ![t] = label]

-----------------------------------------------------------------------------
\* pthread_detach calls register_self; the others read the slot after it.
Registered(t) == IF after[t] = "d_cas" THEN "d_cas" ELSE "read"

\* __jacl_pthread_register_self: is the descriptor in the slot mine?
Register(t) ==
  /\ From(t, "reg", IF slot # None /\ desc[slot].tid = t
                    THEN Registered(t) ELSE "regset")
  /\ UNCHANGED <<desc, slot, locals, born, outcome>>

\* It is not: a fresh one is made and put there.
RegisterNew(t) ==
  /\ From(t, "regset", Registered(t))
  /\ desc' = [desc EXCEPT ![Alias(t)] = [Fresh EXCEPT !.tid = t]]
  /\ slot' = Alias(t)
  /\ UNCHANGED <<locals, born, outcome>>

\* pthread_self reads the slot again and returns what is there now.
ReadSelf(t) ==
  /\ From(t, "read", after[t])
  /\ self' = [self EXCEPT ![t] = slot]
  /\ after' = [after EXCEPT ![t] = "idle"]
  /\ UNCHANGED <<desc, slot, arg, born, outcome>>

-----------------------------------------------------------------------------
\* pthread_create up to the return of clone.
Create(m, c) ==
  /\ pc[m] = "idle" /\ pc[c] = "unborn"
  /\ pc' = [pc EXCEPT ![m] = "settid", ![c] = "start"]
  /\ \E d \in BOOLEAN : desc' = [desc EXCEPT ![Own(c)].detached = d]
  /\ arg' = [arg EXCEPT ![m] = c]
  /\ UNCHANGED <<slot, after, self, born, outcome>>

\* The creator stores the tid and returns the handle.
SetTid(m) ==
  /\ From(m, "settid", "idle")
  /\ desc' = [desc EXCEPT ![Own(arg[m])].tid = arg[m]]
  /\ born' = born \cup {arg[m]}
  /\ UNCHANGED <<slot, locals, outcome>>

\* __jacl_pthread_entry: the slot, and on to the start routine.
Entry(c) ==
  /\ From(c, "start", "run")
  /\ slot' = Own(c)
  /\ UNCHANGED <<desc, locals, born, outcome>>

\* Mutant: finished is set before the result.
MutStartReturns(c) ==
  /\ "return" \in ends
  /\ From(c, "run", "r_finished")
  /\ desc' = [desc EXCEPT ![Own(c)].finished = TRUE]
  /\ UNCHANGED <<slot, locals, born, outcome>>

\* The start routine of c returns a value, which we call c.
StartReturns(c) ==
  /\ "return" \in ends
  /\ From(c, "run", "r_finished")
  /\ desc' = [desc EXCEPT ![Own(c)].result = c]
  /\ UNCHANGED <<slot, locals, born, outcome>>

\* Mutant: the entry function forgets to set finished.
MutEntryFinish(c) ==
  /\ From(c, "r_finished", "dead")
  /\ UNCHANGED <<desc, slot, locals, born, outcome>>

EntryFinish(c) ==
  /\ From(c, "r_finished", "dead")
  /\ desc' = [desc EXCEPT ![Own(c)].finished = TRUE]
  /\ UNCHANGED <<slot, locals, born, outcome>>

-----------------------------------------------------------------------------
\* pthread_exit(retval), called by the start routine.
Exit(c) ==
  /\ "exit" \in ends
  /\ CallSelf(c, "run", "e_result")
  /\ arg' = [arg EXCEPT ![c] = c]
  /\ UNCHANGED <<desc, slot, self, born, outcome>>

ExitResult(c) ==
  /\ From(c, "e_result", "e_finished")
  /\ desc' = [desc EXCEPT ![self[c]].result = arg[c]]
  /\ UNCHANGED <<slot, locals, born, outcome>>

ExitFinish(c) ==
  /\ From(c, "e_finished", "dying")
  /\ desc' = [desc EXCEPT ![self[c]].finished = TRUE]
  /\ UNCHANGED <<slot, locals, born, outcome>>

\* After the destructors and the cleanup handlers.
Die(c) ==
  /\ From(c, "dying", "dead")
  /\ UNCHANGED <<desc, slot, locals, born, outcome>>

-----------------------------------------------------------------------------
\* pthread_testcancel and pthread_setcancelstate, called by the start routine.
TestCancel(c) ==
  /\ "cancel" \in ends
  /\ CallSelf(c, "run", "t_state")
  /\ UNCHANGED <<desc, slot, self, arg, born, outcome>>

SetCancelState(c) ==
  /\ "cancel" \in ends
  /\ \E store \in {"s_disable", "s_enable"} : CallSelf(c, "run", store)
  /\ UNCHANGED <<desc, slot, self, arg, born, outcome>>

Disable(c) ==
  /\ From(c, "s_disable", "run")
  /\ desc' = [desc EXCEPT ![self[c]].cancel_enabled = FALSE]
  /\ UNCHANGED <<slot, locals, born, outcome>>

\* Enabling ends with pthread_testcancel.
Enable(c) ==
  /\ CallSelf(c, "s_enable", "t_state")
  /\ desc' = [desc EXCEPT ![self[c]].cancel_enabled = TRUE]
  /\ UNCHANGED <<slot, self, arg, born, outcome>>

TestState(c) ==
  /\ From(c, "t_state", IF desc[self[c]].cancel_enabled THEN "t_canceled" ELSE "run")
  /\ UNCHANGED <<desc, slot, locals, born, outcome>>

TestCanceled(c) ==
  /\ From(c, "t_canceled", IF desc[self[c]].canceled THEN "t_clear" ELSE "run")
  /\ UNCHANGED <<desc, slot, locals, born, outcome>>

\* The request is cleared, and pthread_exit(PTHREAD_CANCELED) called.
TestClear(c) ==
  /\ CallSelf(c, "t_clear", "e_result")
  /\ desc' = [desc EXCEPT ![self[c]].canceled = FALSE]
  /\ arg' = [arg EXCEPT ![c] = Canceled]
  /\ UNCHANGED <<slot, self, born, outcome>>

\* pthread_cancel by a main.
Cancel(m, c) ==
  /\ pc[m] = "idle" /\ c \in born
  /\ desc' = [desc EXCEPT ![Own(c)].canceled = TRUE]
  /\ UNCHANGED <<slot, pc, locals, born, outcome>>

-----------------------------------------------------------------------------
\* pthread_detach: after register_self, a compare-exchange of detached.
Detach(m, c) ==
  /\ c \in born
  /\ CallSelf(m, "idle", "d_cas")
  /\ arg' = [arg EXCEPT ![m] = c]
  /\ UNCHANGED <<desc, slot, self, born, outcome>>

DetachCas(m) ==
  /\ From(m, "d_cas", "idle")
  /\ desc' = [desc EXCEPT ![Own(arg[m])].detached = TRUE]
  /\ UNCHANGED <<slot, locals, born, outcome>>

\* The join of m returns ret, with val in *retval.
JoinReturns(m, ret, val) ==
  /\ Goto(m, "idle")
  /\ outcome' = [outcome EXCEPT ![m].ret = ret, ![m].val = val]

\* pthread_join begins, and fails when the thread is detached.
Join(m, c) ==
  /\ pc[m] = "idle" /\ c \in born
  /\ arg' = [arg EXCEPT ![m] = c]
  /\ LET gone == desc[Own(c)].detached
     IN  /\ outcome' = [outcome EXCEPT ![m] =
                          [of |-> c, ret |-> IF gone THEN "EINVAL" ELSE "none",
                           val |-> None]]
         /\ Goto(m, IF gone THEN "idle" ELSE "j_cas")
  /\ UNCHANGED <<desc, slot, after, self, born>>

\* Mutant: joined is tested elsewhere, and set without a test here.
MutJoinCas(m) ==
  /\ From(m, "j_cas", "j_finished")
  /\ desc' = [desc EXCEPT ![Own(arg[m])].joined = TRUE]
  /\ UNCHANGED <<slot, locals, born, outcome>>

JoinCas(m) ==
  /\ pc[m] = "j_cas"
  /\ \/ /\ desc[Own(arg[m])].joined
        /\ JoinReturns(m, "EINVAL", None)
        /\ UNCHANGED desc
     \/ /\ ~desc[Own(arg[m])].joined
        /\ desc' = [desc EXCEPT ![Own(arg[m])].joined = TRUE]
        /\ Goto(m, "j_finished")
        /\ UNCHANGED outcome
  /\ UNCHANGED <<slot, locals, born>>

JoinFinished(m) ==
  /\ From(m, "j_finished",
          IF desc[Own(arg[m])].finished THEN "j_result" ELSE "j_detached")
  /\ UNCHANGED <<desc, slot, locals, born, outcome>>

\* Not finished: ESRCH when somebody has detached it, or else sleep and look
\* again.
JoinDetached(m) ==
  /\ pc[m] = "j_detached"
  /\ \/ desc[Own(arg[m])].detached /\ JoinReturns(m, "ESRCH", None)
     \/ ~desc[Own(arg[m])].detached /\ Goto(m, "j_finished") /\ UNCHANGED outcome
  /\ UNCHANGED <<desc, slot, locals, born>>

JoinCopy(m) ==
  /\ pc[m] = "j_result"
  /\ JoinReturns(m, "0", desc[Own(arg[m])].result)
  /\ UNCHANGED <<desc, slot, locals, born>>

-----------------------------------------------------------------------------
SelfSteps(t) == Register(t) \/ RegisterNew(t) \/ ReadSelf(t)

ChildSteps(c) ==
  \/ Entry(c) \/ StartReturns(c) \/ EntryFinish(c)
  \/ Exit(c) \/ ExitResult(c) \/ ExitFinish(c) \/ Die(c)
  \/ TestCancel(c) \/ SetCancelState(c) \/ Disable(c) \/ Enable(c)
  \/ TestState(c) \/ TestCanceled(c) \/ TestClear(c)

MainSteps(m) ==
  \/ SetTid(m) \/ DetachCas(m)
  \/ JoinCas(m) \/ JoinFinished(m) \/ JoinDetached(m) \/ JoinCopy(m)

Calls(m, c) == Create(m, c) \/ Join(m, c) \/ Detach(m, c) \/ Cancel(m, c)

Next ==
  /\ \/ \E t \in Threads : SelfSteps(t)
     \/ \E c \in Children : ChildSteps(c)
     \/ \E m \in Mains : MainSteps(m) \/ \E c \in Children : Calls(m, c)
  /\ UNCHANGED ends

Spec == Init /\ [][Next]_vars

\* Every thread runs; nobody is obliged to make a call.
FairSpec ==
  /\ Spec
  /\ \A c \in Children : WF_vars((SelfSteps(c) \/ ChildSteps(c)) /\ UNCHANGED ends)
  /\ \A m \in Mains : WF_vars((SelfSteps(m) \/ MainSteps(m)) /\ UNCHANGED ends)

ReturnsOnly == ends = {"return"}

\* The same where it is needed: in programs whose threads all return.
ReturnsFairSpec ==
  /\ Spec
  /\ \A c \in Children :
       WF_vars(ReturnsOnly /\ (SelfSteps(c) \/ ChildSteps(c)) /\ UNCHANGED ends)
  /\ \A m \in Mains :
       WF_vars(ReturnsOnly /\ (SelfSteps(m) \/ MainSteps(m)) /\ UNCHANGED ends)

\* Programs whose threads all return, and programs whose threads end in every
\* way.
AllPrograms == {{"return"}, {"return", "exit", "cancel"}}

-----------------------------------------------------------------------------
TypeOK ==
  /\ desc \in [Structs -> [tid : Threads \cup {None}, finished : BOOLEAN,
                           detached : BOOLEAN, joined : BOOLEAN,
                           result : Children \cup {None, Canceled},
                           cancel_enabled : BOOLEAN, canceled : BOOLEAN]]
  /\ slot \in Structs \cup {None}
  /\ \A m \in Mains : pc[m] \in MainLabels \cup SelfLabels
  /\ \A c \in Children : pc[c] \in ChildLabels \cup SelfLabels
  /\ self \in [Threads -> Structs \cup {None}]
  /\ arg \in [Threads -> Children \cup {None, Canceled}]
  /\ born \subseteq Children
  /\ ends \in Programs

\* Of the threads that join the same child, one at most gets its result.
JoinOnce ==
  \A m, n \in Mains :
    LET Getting(k) == \/ pc[k] = "j_result"
                      \/ pc[k] = "idle" /\ outcome[k].ret = "0"
    IN  Getting(m) /\ Getting(n) /\ outcome[m].of = outcome[n].of => m = n

\* When pthread_join returns 0, the thread it was given has come to its end
\* and the value is the one that thread returned or exited with.
ValueOfJoined ==
  \A m \in Mains :
    LET c == outcome[m].of
    IN  pc[m] = "idle" /\ outcome[m].ret = "0"
          => /\ pc[c] \in {"dying", "dead"}
             /\ outcome[m].val \in {c, Canceled}

\* That holds of a program whose threads all end by returning from their start
\* routine: pthread_exit and cancellation find the descriptor through
\* pthread_self, the entry function has it as its argument.
JoinedValue == ReturnsOnly => ValueOfJoined

\* Of the pthread_join calls on one thread one at most returns 0, and then the
\* thread has come to its end and the value is the one it returned, in
\* programs whose threads return.
JoinResult == JoinOnce /\ JoinedValue

Joining(m, c) ==
  pc[m] \in {"j_finished", "j_detached", "j_result"} /\ arg[m] = c

\* A join of a thread that has ended returns.
JoinOfDeadReturns ==
  \A m \in Mains, c \in Children :
    (Joining(m, c) /\ pc[c] = "dead") ~> (pc[m] = "idle")

\* That holds, likewise, where threads end by returning.
JoinEnds ==
  \A m \in Mains, c \in Children :
    (ReturnsOnly /\ Joining(m, c) /\ pc[c] = "dead") ~> (pc[m] = "idle")

=============================================================================
