------------------------ MODULE PthreadThreadProofs ------------------------
(***************************************************************************)
(* What pthread_join returns, for any number of threads that join, detach  *)
(* and cancel and any number of threads they are given: JoinResult of      *)
(* PthreadThread is proved from the inductive invariant ThreadInv.         *)
(***************************************************************************)
EXTENDS PthreadThread, TLAPS

Labels == MainLabels \cup SelfLabels \cup ChildLabels
Values == Children \cup {None, Canceled}

Descriptor == [tid : Threads \cup {None}, finished : BOOLEAN, detached : BOOLEAN,
               joined : BOOLEAN, result : Values, cancel_enabled : BOOLEAN,
               canceled : BOOLEAN]

Outcome == [of : Children \cup {None}, ret : {"none", "0", "EINVAL", "ESRCH"}, val : Values]

ThreadTypes ==
  /\ desc \in [Structs -> Descriptor]
  /\ pc \in [Threads -> Labels]
  /\ after \in [Threads -> Labels]
  /\ arg \in [Threads -> Values]
  /\ outcome \in [Mains -> Outcome]
  /\ born \subseteq Children

Waiting == {"j_finished", "j_detached", "j_result"}

\* Where a main is, and which child the call it is in is about.
MainAt(m) ==
  /\ pc[m] \in MainLabels \cup {"reg", "regset"}
  /\ pc[m] \in {"reg", "regset"} => after[m] = "d_cas"
  /\ pc[m] # "idle" => arg[m] \in Children
  /\ pc[m] \in {"j_cas"} \cup Waiting => outcome[m].ret = "none" /\ outcome[m].of = arg[m]
  /\ outcome[m].ret = "0" => outcome[m].of \in Children

\* A child never gets to a label of a main.
ChildAt(c) ==
  /\ pc[c] \in ChildLabels \cup SelfLabels
  /\ pc[c] \in SelfLabels => after[c] \in ChildLabels \ {"dead"}

\* m is the one thread whose pthread_join of its child got past the
\* compare-exchange of joined.
Winner(m) == pc[m] \in Waiting \/ outcome[m].ret = "0"

OneWinner ==
  /\ \A m \in Mains : Winner(m) => desc[Own(outcome[m].of)].joined
  /\ \A m, n \in Mains :
       Winner(m) /\ Winner(n) /\ outcome[m].of = outcome[n].of => m = n

\* A child that ends by returning: its result is in its own descriptor before
\* finished is, and both stay.
Returned(c) ==
  /\ pc[c] \in {"unborn", "start", "run", "r_finished", "dead"}
  /\ pc[c] \in {"r_finished", "dead"} => desc[Own(c)].result = c
  /\ desc[Own(c)].finished => pc[c] = "dead"

Fetched(m) ==
  /\ pc[m] = "j_result" => desc[Own(arg[m])].finished
  /\ outcome[m].ret = "0" => pc[outcome[m].of] = "dead" /\ outcome[m].val = outcome[m].of

ReturnsSound ==
  ReturnsOnly => (\A c \in Children : Returned(c)) /\ (\A m \in Mains : Fetched(m))

ThreadInv ==
  /\ ThreadTypes
  /\ (\A m \in Mains : MainAt(m)) /\ (\A c \in Children : ChildAt(c))
  /\ OneWinner
  /\ ReturnsSound

-----------------------------------------------------------------------------
\* A descriptor the creator made is not one that pthread_self made.
LEMMA OwnIsOwn ==
  ASSUME NEW c \in Threads, NEW t \in Threads
  PROVE  /\ Own(c) \in Structs /\ Alias(t) \in Structs
         /\ Own(c) # Alias(t)
         /\ Own(c) = Own(t) => c = t
BY DEF Own, Alias, Structs

\* A step of t by itself moves nobody else.
LEMMA StepsAlone ==
  ASSUME ThreadTypes, NEW t \in Threads, NEW here, NEW there, From(t, here, there)
  PROVE  /\ pc[t] = here /\ pc'[t] = there
         /\ \A u \in Threads \ {t} : pc'[u] = pc[u]
BY DEF ThreadTypes, From, Goto

\* register_self and pthread_self change no descriptor that a creator made, and
\* return to where they were called from.
LEMMA SelfStepFrame ==
  ASSUME ThreadTypes, NEW t \in Threads, SelfSteps(t)
  PROVE  /\ \A u \in Threads \ {t} : pc'[u] = pc[u] /\ after'[u] = after[u]
         /\ arg' = arg /\ outcome' = outcome /\ born' = born
         /\ \A c \in Threads : desc'[Own(c)] = desc[Own(c)]
         /\ desc' \in [Structs -> Descriptor]
         /\ pc' \in [Threads -> Labels] /\ after' \in [Threads -> Labels]
         /\ \/ pc[t] = "reg" /\ pc'[t] \in {Registered(t), "regset"} /\ after'[t] = after[t]
            \/ pc[t] = "regset" /\ pc'[t] = Registered(t) /\ after'[t] = after[t]
            \/ pc[t] = "read" /\ pc'[t] = after[t]
<1> USE DEF ThreadTypes
<1>0. Registered(t) \in Labels /\ {"idle", "regset"} \subseteq Labels
  BY DEF Registered, Labels, MainLabels, SelfLabels
<1>1. CASE Register(t)
  BY <1>0, <1>1 DEF Register, From, Goto, locals
<1>2. CASE RegisterNew(t)
  <2>1. [Fresh EXCEPT !.tid = t] \in Descriptor
    BY DEF Fresh, Descriptor, Values
  <2>2. desc' = [desc EXCEPT ![Alias(t)] = [Fresh EXCEPT !.tid = t]]
    BY <1>2 DEF RegisterNew
  <2>3. \A c \in Threads : desc'[Own(c)] = desc[Own(c)]
    BY <2>2, OwnIsOwn
  <2>4. desc' \in [Structs -> Descriptor]
    BY <2>1, <2>2
  <2> QED
    BY <1>0, <1>2, <2>3, <2>4 DEF RegisterNew, From, Goto, locals
<1>3. CASE ReadSelf(t)
  BY <1>0, <1>3 DEF ReadSelf, From, Goto
<1> QED
  BY <1>1, <1>2, <1>3 DEF SelfSteps

\* Storing in one field of a descriptor leaves the others, and other
\* descriptors, as they are.
LEMMA Stores ==
  ASSUME desc \in [Structs -> Descriptor], NEW s, NEW v \in Values, NEW b \in BOOLEAN
  PROVE  /\ [desc EXCEPT ![s].result = v] \in [Structs -> Descriptor]
         /\ [desc EXCEPT ![s].finished = b] \in [Structs -> Descriptor]
         /\ [desc EXCEPT ![s].detached = b] \in [Structs -> Descriptor]
         /\ [desc EXCEPT ![s].joined = b] \in [Structs -> Descriptor]
         /\ [desc EXCEPT ![s].cancel_enabled = b] \in [Structs -> Descriptor]
         /\ [desc EXCEPT ![s].canceled = b] \in [Structs -> Descriptor]
         /\ v \in Threads \cup {None}
              => [desc EXCEPT ![s].tid = v] \in [Structs -> Descriptor]
<1>1. ASSUME NEW r \in Structs
      PROVE  /\ [desc[r] EXCEPT !.result = v] \in Descriptor
             /\ [desc[r] EXCEPT !.finished = b] \in Descriptor
             /\ [desc[r] EXCEPT !.detached = b] \in Descriptor
             /\ [desc[r] EXCEPT !.joined = b] \in Descriptor
             /\ [desc[r] EXCEPT !.cancel_enabled = b] \in Descriptor
             /\ [desc[r] EXCEPT !.canceled = b] \in Descriptor
             /\ v \in Threads \cup {None} => [desc[r] EXCEPT !.tid = v] \in Descriptor
  BY <1>1 DEF Descriptor
<1> QED
  BY <1>1

\* What a step of a child changes besides its own place: no joined or detached
\* of any descriptor.
LEMMA ChildStepFrame ==
  ASSUME ThreadTypes, NEW c \in Children, ChildSteps(c)
  PROVE  /\ \A u \in Threads \ {c} : pc'[u] = pc[u] /\ after'[u] = after[u] /\ arg'[u] = arg[u]
         /\ outcome' = outcome /\ born' = born
         /\ \A s \in Structs : desc'[s].joined = desc[s].joined
         /\ desc' \in [Structs -> Descriptor]
         /\ pc' \in [Threads -> Labels] /\ after' \in [Threads -> Labels]
         /\ arg' \in [Threads -> Values]
         /\ \/ pc'[c] \in ChildLabels
            \/ pc'[c] = "reg" /\ after'[c] \in ChildLabels \ {"dead"}
<1> USE DEF ThreadTypes
<1>0. c \in Threads /\ c \in Values /\ Canceled \in Values /\ ChildLabels \cup {"reg"} \subseteq Labels
  BY DEF Threads, Values, Labels, SelfLabels
<1>1. ASSUME NEW here, NEW there \in ChildLabels, From(c, here, there), UNCHANGED <<after, arg>>
      PROVE  /\ \A u \in Threads \ {c} : pc'[u] = pc[u] /\ after'[u] = after[u] /\ arg'[u] = arg[u]
             /\ pc' \in [Threads -> Labels] /\ pc'[c] \in ChildLabels
             /\ after' \in [Threads -> Labels] /\ arg' \in [Threads -> Values]
  BY <1>0, <1>1 DEF From, Goto
<1>2. ASSUME NEW here, NEW label \in ChildLabels \ {"dead"}, CallSelf(c, here, label),
             \/ arg' = arg
             \/ \E v \in Values : arg' = [arg EXCEPT ![c] = v]
      PROVE  /\ \A u \in Threads \ {c} : pc'[u] = pc[u] /\ after'[u] = after[u] /\ arg'[u] = arg[u]
             /\ pc' \in [Threads -> Labels] /\ pc'[c] = "reg" /\ after'[c] = label
             /\ after' \in [Threads -> Labels] /\ arg' \in [Threads -> Values]
  BY <1>0, <1>2 DEF CallSelf, From, Goto
<1>3. ASSUME NEW s, NEW v \in Values, NEW b \in BOOLEAN,
             \/ desc' = desc
             \/ desc' = [desc EXCEPT ![s].result = v]
             \/ desc' = [desc EXCEPT ![s].finished = b]
             \/ desc' = [desc EXCEPT ![s].cancel_enabled = b]
             \/ desc' = [desc EXCEPT ![s].canceled = b]
      PROVE  /\ \A r \in Structs : desc'[r].joined = desc[r].joined
             /\ desc' \in [Structs -> Descriptor]
  <2>1. desc' \in [Structs -> Descriptor]
    <3>1. /\ [desc EXCEPT ![s].result = v] \in [Structs -> Descriptor]
          /\ [desc EXCEPT ![s].finished = b] \in [Structs -> Descriptor]
          /\ [desc EXCEPT ![s].cancel_enabled = b] \in [Structs -> Descriptor]
          /\ [desc EXCEPT ![s].canceled = b] \in [Structs -> Descriptor]
      BY Stores
    <3> QED
      BY <1>3, <3>1, Zenon
  <2>2. ASSUME NEW r \in Structs PROVE desc'[r].joined = desc[r].joined
    BY <1>3, <2>2 DEF Descriptor
  <2> QED
    BY <2>1, <2>2
<1>4. CASE Entry(c) \/ StartReturns(c) \/ EntryFinish(c)
  <2>1. \E here, there : there \in ChildLabels /\ From(c, here, there)
    BY <1>4 DEF Entry, StartReturns, EntryFinish, ChildLabels
  <2>2. UNCHANGED <<after, arg, outcome, born>>
    BY <1>4 DEF Entry, StartReturns, EntryFinish, locals
  <2>3. \/ desc' = desc \/ desc' = [desc EXCEPT ![Own(c)].result = c]
        \/ desc' = [desc EXCEPT ![Own(c)].finished = TRUE]
    BY <1>4 DEF Entry, StartReturns, EntryFinish
  <2>4. /\ \A r \in Structs : desc'[r].joined = desc[r].joined
        /\ desc' \in [Structs -> Descriptor]
    BY <1>0, <1>3, <2>3
  <2> QED
    BY <1>1, <2>1, <2>2, <2>4
<1>5. CASE ExitResult(c) \/ ExitFinish(c) \/ Die(c)
  <2>1. \E here, there : there \in ChildLabels /\ From(c, here, there)
    BY <1>5 DEF ExitResult, ExitFinish, Die, ChildLabels
  <2>2. UNCHANGED <<after, arg, outcome, born>>
    BY <1>5 DEF ExitResult, ExitFinish, Die, locals
  <2>3. arg[c] \in Values
    BY <1>0
  <2>4. \/ desc' = desc \/ desc' = [desc EXCEPT ![self[c]].result = arg[c]]
        \/ desc' = [desc EXCEPT ![self[c]].finished = TRUE]
    BY <1>5 DEF ExitResult, ExitFinish, Die
  <2>5. /\ \A r \in Structs : desc'[r].joined = desc[r].joined
        /\ desc' \in [Structs -> Descriptor]
    BY <1>3, <2>3, <2>4
  <2> QED
    BY <1>1, <2>1, <2>2, <2>5
<1>6. CASE Disable(c) \/ TestState(c) \/ TestCanceled(c)
  <2>1. \E here, there : there \in ChildLabels /\ From(c, here, there)
    BY <1>6 DEF Disable, TestState, TestCanceled, ChildLabels
  <2>2. UNCHANGED <<after, arg, outcome, born>>
    BY <1>6 DEF Disable, TestState, TestCanceled, locals
  <2>3. desc' = desc \/ desc' = [desc EXCEPT ![self[c]].cancel_enabled = FALSE]
    BY <1>6 DEF Disable, TestState, TestCanceled
  <2>4. /\ \A r \in Structs : desc'[r].joined = desc[r].joined
        /\ desc' \in [Structs -> Descriptor]
    BY <1>0, <1>3, <2>3
  <2> QED
    BY <1>1, <2>1, <2>2, <2>4
<1>7. CASE Exit(c) \/ TestCancel(c) \/ SetCancelState(c) \/ Enable(c) \/ TestClear(c)
  <2>1. /\ \E here : \E label \in ChildLabels \ {"dead"} : CallSelf(c, here, label)
        /\ arg' = arg \/ \E v \in Values : arg' = [arg EXCEPT ![c] = v]
    BY <1>0, <1>7 DEF Exit, TestCancel, SetCancelState, Enable, TestClear, ChildLabels
  <2>2. UNCHANGED <<outcome, born>>
    BY <1>7 DEF Exit, TestCancel, SetCancelState, Enable, TestClear
  <2>3. \/ desc' = desc \/ desc' = [desc EXCEPT ![self[c]].cancel_enabled = TRUE]
        \/ desc' = [desc EXCEPT ![self[c]].canceled = FALSE]
    BY <1>7 DEF Exit, TestCancel, SetCancelState, Enable, TestClear
  <2>4. /\ \A r \in Structs : desc'[r].joined = desc[r].joined
        /\ desc' \in [Structs -> Descriptor]
    BY <1>0, <1>3, <2>3
  <2> QED
    BY <1>2, <2>1, <2>2, <2>4
<1> QED
  BY <1>4, <1>5, <1>6, <1>7 DEF ChildSteps

-----------------------------------------------------------------------------
\* The part of the invariant that holds of every program.
Placed ==
  /\ ThreadTypes
  /\ (\A m \in Mains : MainAt(m)) /\ (\A c \in Children : ChildAt(c))
  /\ OneWinner

\* Steps of a child keep it: they leave every main, every outcome and every
\* joined alone.
LEMMA ChildKeepsPlaced ==
  ASSUME Placed, NEW c \in Children, SelfSteps(c) \/ ChildSteps(c)
  PROVE  Placed'
<1> USE DEF Placed
<1>0. /\ c \in Threads /\ \A m \in Mains : m \in Threads \ {c}
      /\ \A d \in Children : d \in Threads
  BY RolesAssumption DEF Threads
<1>1. /\ \A u \in Threads \ {c} : pc'[u] = pc[u] /\ after'[u] = after[u] /\ arg'[u] = arg[u]
      /\ outcome' = outcome /\ born' = born
      /\ \A d \in Threads : desc'[Own(d)].joined = desc[Own(d)].joined
      /\ ThreadTypes'
  BY <1>0, SelfStepFrame, ChildStepFrame, OwnIsOwn DEF ThreadTypes
<1>2. ASSUME NEW m \in Mains PROVE MainAt(m)'
  BY <1>0, <1>1, <1>2 DEF MainAt
<1>3. ASSUME NEW d \in Children \ {c} PROVE ChildAt(d)'
  BY <1>0, <1>1, <1>3 DEF ChildAt
<1>4. ChildAt(c)'
  <2>1. CASE SelfSteps(c)
    <3>1. Registered(c) \in {"read", "d_cas"} /\ (Registered(c) = "d_cas" => after[c] = "d_cas")
      BY DEF Registered
    <3>2. ChildAt(c)
      BY <1>0
    <3> QED
      BY <1>0, <2>1, <3>1, <3>2, SelfStepFrame DEF ChildAt, ChildLabels, SelfLabels
  <2>2. CASE ChildSteps(c)
    BY <2>2, ChildStepFrame DEF ChildAt, ChildLabels, SelfLabels
  <2> QED
    BY <2>1, <2>2
<1>5. \A m \in Mains : Winner(m)' <=> Winner(m)
  BY <1>0, <1>1 DEF Winner
<1>6. OneWinner'
  <2>1. ASSUME NEW m \in Mains, Winner(m) PROVE outcome[m].of \in Threads
    BY <1>0, <2>1 DEF Winner, MainAt, Waiting
  <2> QED
    BY <1>1, <1>5, <2>1 DEF OneWinner
<1> QED
  BY <1>1, <1>2, <1>3, <1>4, <1>6

\* A step of main m is judged by the place of m alone, and by whether m wins a
\* child that nobody had won.
MainFrame(m) ==
  /\ \A u \in Mains \ {m} : pc'[u] = pc[u] /\ after'[u] = after[u] /\ arg'[u] = arg[u]
  /\ \A u \in Mains \ {m} : outcome'[u] = outcome[u]
  /\ \A d \in Threads : desc[Own(d)].joined => desc'[Own(d)].joined
  /\ ThreadTypes'
  /\ \A c \in Children : ChildAt(c)'

MainWins(m) ==
  Winner(m)' => \/ Winner(m) /\ outcome'[m].of = outcome[m].of
                \/ ~desc[Own(outcome'[m].of)].joined /\ desc'[Own(outcome'[m].of)].joined

LEMMA MainMoves ==
  ASSUME Placed, NEW m \in Mains, MainFrame(m), MainAt(m)', MainWins(m)
  PROVE  Placed'
<1> USE DEF Placed
<1>1. ASSUME NEW n \in Mains \ {m} PROVE MainAt(n)' /\ (Winner(n)' <=> Winner(n))
  BY <1>1 DEF MainAt, MainFrame, Winner
<1>2. ASSUME NEW n \in Mains, Winner(n)
      PROVE  outcome[n].of \in Threads /\ desc[Own(outcome[n].of)].joined
  BY <1>2 DEF Winner, MainAt, Waiting, Threads, OneWinner
<1>3. ASSUME NEW n \in Mains, Winner(n)' PROVE desc'[Own(outcome'[n].of)].joined
  BY <1>1, <1>2, <1>3 DEF MainFrame, MainWins
<1>4. ASSUME NEW n \in Mains \ {m}, Winner(m)', Winner(n)' PROVE outcome'[m].of # outcome'[n].of
  <2>1. Winner(n) /\ outcome'[n] = outcome[n]
    BY <1>1, <1>4 DEF MainFrame
  <2> QED
    BY <1>2, <1>4, <2>1 DEF MainWins, OneWinner
<1>5. ASSUME NEW n \in Mains \ {m}, NEW k \in Mains \ {m}, Winner(n)', Winner(k)',
             outcome'[n].of = outcome'[k].of
      PROVE  n = k
  BY <1>1, <1>5 DEF MainFrame, OneWinner
<1>6. OneWinner'
  <2>1. ASSUME NEW n \in Mains, NEW k \in Mains, Winner(n)', Winner(k)',
               outcome'[n].of = outcome'[k].of
        PROVE  n = k
    BY <1>4, <1>5, <2>1
  <2> QED
    BY <1>3, <2>1 DEF OneWinner
<1> QED
  BY <1>1, <1>6 DEF MainFrame

\* What a main stores in a descriptor takes no joined back.
LEMMA MainStores ==
  ASSUME desc \in [Structs -> Descriptor], NEW s, NEW c \in Children, NEW b \in BOOLEAN,
         \/ desc' = desc
         \/ desc' = [desc EXCEPT ![s].tid = c]
         \/ desc' = [desc EXCEPT ![s].detached = b]
         \/ desc' = [desc EXCEPT ![s].canceled = b]
         \/ desc' = [desc EXCEPT ![s].joined = TRUE]
  PROVE  /\ \A d \in Threads : desc[Own(d)].joined => desc'[Own(d)].joined
         /\ desc' \in [Structs -> Descriptor]
<1>1. /\ [desc EXCEPT ![s].tid = c] \in [Structs -> Descriptor]
      /\ [desc EXCEPT ![s].detached = b] \in [Structs -> Descriptor]
      /\ [desc EXCEPT ![s].canceled = b] \in [Structs -> Descriptor]
      /\ [desc EXCEPT ![s].joined = TRUE] \in [Structs -> Descriptor]
  BY Stores DEF Values, Threads
<1>2. desc' \in [Structs -> Descriptor]
  BY <1>1, Zenon
<1>3. ASSUME NEW d \in Threads, desc[Own(d)].joined PROVE desc'[Own(d)].joined
  BY <1>3, OwnIsOwn DEF Descriptor
<1> QED
  BY <1>2, <1>3

\* Steps of a main keep it, whichever calls other threads are in.
LEMMA MainKeepsPlaced ==
  ASSUME Placed, NEW m \in Mains, SelfSteps(m) \/ MainSteps(m) \/ \E c \in Children : Calls(m, c)
  PROVE  Placed'
<1> USE DEF Placed
<1>0. /\ m \in Threads /\ m \notin Children /\ MainAt(m)
      /\ Mains \subseteq Threads /\ Children \subseteq Threads
  BY RolesAssumption DEF Threads
<1>a. ASSUME \A u \in Threads \ {m} : pc'[u] = pc[u] /\ after'[u] = after[u]
      PROVE  \A c \in Children : ChildAt(c)'
  BY <1>0, <1>a DEF ChildAt
<1>1. CASE SelfSteps(m)
  <2>1. /\ \A u \in Threads \ {m} : pc'[u] = pc[u] /\ after'[u] = after[u]
        /\ arg' = arg /\ outcome' = outcome /\ born' = born
        /\ \A d \in Threads : desc'[Own(d)] = desc[Own(d)]
        /\ ThreadTypes'
    BY <1>0, <1>1, SelfStepFrame DEF ThreadTypes
  <2>2. after[m] = "d_cas" /\ after'[m] = "d_cas" /\ pc'[m] \in {"regset", "d_cas"} /\ pc[m] # "idle"
        /\ pc[m] \notin {"j_cas"} \cup Waiting
    BY <1>0, <1>1, SelfStepFrame DEF MainAt, MainLabels, Registered, Waiting
  <2>3. MainAt(m)'
    BY <1>0, <2>1, <2>2 DEF MainAt, MainLabels, Waiting
  <2>4. MainWins(m)
    BY <2>1, <2>2 DEF MainWins, Winner, Waiting
  <2> QED
    BY <1>0, <1>a, <2>1, <2>3, <2>4, MainMoves DEF MainFrame
<1>2. ASSUME NEW here \in MainLabels \ Waiting, NEW there \in {"idle", "reg"}, From(m, here, there),
             \/ arg' = arg /\ arg[m] \in Children
             \/ \E c \in Children : arg' = [arg EXCEPT ![m] = c],
             \/ after' = after /\ there = "idle"
             \/ after' = [after EXCEPT ![m] = "d_cas"],
             outcome' = outcome, born' \subseteq Children,
             here \in {"idle", "settid", "d_cas"},
             \E s, b : \/ desc' = desc
                       \/ b \in Children /\ desc' = [desc EXCEPT ![s].tid = b]
                       \/ b \in BOOLEAN /\ desc' = [desc EXCEPT ![s].detached = b]
      PROVE  Placed'
  <2>1. pc[m] = here /\ pc'[m] = there /\ \A u \in Threads \ {m} : pc'[u] = pc[u]
    BY <1>0, <1>2, StepsAlone
  <2>2. \A u \in Threads \ {m} : after'[u] = after[u] /\ arg'[u] = arg[u]
    BY <1>2 DEF ThreadTypes
  <2>3. /\ \A d \in Threads : desc[Own(d)].joined => desc'[Own(d)].joined
        /\ desc' \in [Structs -> Descriptor]
    BY <1>2, MainStores DEF ThreadTypes
  <2>4. ThreadTypes'
    BY <1>0, <1>2, <2>3
    DEF ThreadTypes, From, Goto, Labels, MainLabels, SelfLabels, Values
  <2>5. MainAt(m)'
    BY <1>0, <1>2, <2>1 DEF ThreadTypes, MainAt, MainLabels, Waiting
  <2>6. MainWins(m)
    BY <1>2, <2>1 DEF MainWins, Winner, Waiting
  <2> QED
    BY <1>0, <1>2, <1>a, <2>1, <2>2, <2>3, <2>4, <2>5, <2>6, MainMoves DEF MainFrame
<1>3. CASE SetTid(m)
  BY <1>0, <1>2, <1>3 DEF SetTid, MainAt, From, MainLabels, Waiting, locals, ThreadTypes
<1>4. CASE DetachCas(m)
  BY <1>0, <1>2, <1>4 DEF DetachCas, MainAt, From, MainLabels, Waiting, locals, ThreadTypes
<1>5. ASSUME NEW c \in Children, Detach(m, c) PROVE Placed'
  BY <1>0, <1>2, <1>5 DEF Detach, CallSelf, MainLabels, Waiting, ThreadTypes
<1>6. ASSUME NEW c \in Children, Cancel(m, c) PROVE Placed'
  <2>1. /\ \A d \in Threads : desc[Own(d)].joined => desc'[Own(d)].joined
        /\ desc' \in [Structs -> Descriptor]
    BY <1>6, MainStores DEF Cancel, ThreadTypes
  <2>2. ThreadTypes' /\ UNCHANGED <<pc, after, arg, outcome>>
    BY <1>6, <2>1 DEF Cancel, ThreadTypes, locals
  <2>3. MainAt(m)' /\ MainWins(m)
    BY <1>0, <2>2 DEF MainAt, MainWins, Winner
  <2> QED
    BY <1>a, <2>1, <2>2, <2>3, MainMoves DEF MainFrame
<1>7. ASSUME NEW c \in Children, Create(m, c) PROVE Placed'
  <2>1. /\ \A d \in Threads : desc[Own(d)].joined => desc'[Own(d)].joined
        /\ desc' \in [Structs -> Descriptor]
    BY <1>7, MainStores DEF Create, ThreadTypes
  <2>2. /\ pc[m] = "idle" /\ pc'[m] = "settid" /\ pc'[c] = "start" /\ arg'[m] = c
        /\ \A u \in Threads \ {m, c} : pc'[u] = pc[u]
        /\ \A u \in Threads \ {m} : arg'[u] = arg[u]
        /\ UNCHANGED <<after, outcome, born>>
    BY <1>0, <1>7 DEF Create, ThreadTypes
  <2>3. ThreadTypes'
    BY <1>0, <1>7, <2>1, <2>2 DEF Create, ThreadTypes, Labels, MainLabels, ChildLabels, Values
  <2>4. \A d \in Children : ChildAt(d)'
    BY <1>0, <2>2 DEF ChildAt, ChildLabels, SelfLabels
  <2>5. MainAt(m)' /\ MainWins(m)
    BY <1>0, <2>2 DEF MainAt, MainWins, Winner, MainLabels, Waiting
  <2>6. MainFrame(m)
    BY <1>0, <2>1, <2>2, <2>3, <2>4, RolesAssumption DEF MainFrame
  <2> QED
    BY <2>5, <2>6, MainMoves
<1>8. ASSUME NEW there \in {"idle", "j_cas"} \cup Waiting,
             \A u \in Threads \ {m} : pc'[u] = pc[u] /\ arg'[u] = arg[u],
             pc'[m] = there, arg'[m] \in Children,
             \A u \in Mains \ {m} : outcome'[u] = outcome[u],
             outcome'[m].ret = "none" \/ there = "idle",
             outcome'[m].of = arg'[m],
             UNCHANGED <<after, born>>, ThreadTypes', MainWins(m),
             \A d \in Threads : desc[Own(d)].joined => desc'[Own(d)].joined
      PROVE  Placed'
  <2>1. MainAt(m)'
    BY <1>8 DEF MainAt, MainLabels, Waiting
  <2>2. MainFrame(m)
    BY <1>0, <1>8, <1>a DEF MainFrame
  <2> QED
    BY <1>8, <2>1, <2>2, MainMoves
<1>9. ASSUME NEW c \in Children, Join(m, c) PROVE Placed'
  <2>1. PICK ret \in {"EINVAL", "none"} :
          /\ outcome' = [outcome EXCEPT ![m] = [of |-> c, ret |-> ret, val |-> None]]
          /\ Goto(m, IF ret = "EINVAL" THEN "idle" ELSE "j_cas")
    BY <1>9 DEF Join
  <2>2. arg' = [arg EXCEPT ![m] = c] /\ UNCHANGED <<desc, after, born>>
    BY <1>9 DEF Join
  <2>3. [of |-> c, ret |-> ret, val |-> None] \in Outcome
    BY DEF Outcome, Values
  <2>4. ThreadTypes'
    BY <1>0, <2>1, <2>2, <2>3 DEF ThreadTypes, Goto, Labels, MainLabels, Values
  <2>5. outcome'[m] = [of |-> c, ret |-> ret, val |-> None]
    BY <2>1 DEF ThreadTypes
  <2>6. /\ pc'[m] \in {"idle", "j_cas"} /\ (ret = "none" \/ pc'[m] = "idle") /\ arg'[m] = c
        /\ \A u \in Threads \ {m} : pc'[u] = pc[u] /\ arg'[u] = arg[u]
        /\ \A u \in Mains \ {m} : outcome'[u] = outcome[u]
    BY <1>0, <2>1, <2>2 DEF ThreadTypes, Goto
  <2>7. MainWins(m)
    BY <2>5, <2>6 DEF MainWins, Winner, Waiting
  <2> QED
    BY <1>8, <2>2, <2>4, <2>5, <2>6, <2>7
<1>10. ASSUME pc[m] \in {"j_cas"} \cup Waiting
       PROVE  /\ arg[m] \in Children /\ outcome[m].of = arg[m] /\ outcome[m].ret = "none"
              /\ Own(arg[m]) \in Structs
  BY <1>0, <1>10, OwnIsOwn DEF MainAt, Waiting
<1>11. ASSUME NEW ret \in {"0", "EINVAL", "ESRCH"}, NEW val \in Values,
              pc[m] \in {"j_cas"} \cup Waiting, JoinReturns(m, ret, val),
              UNCHANGED <<desc, after, arg, born>>, ret = "0" => pc[m] \in Waiting
       PROVE  Placed'
  <2>1. /\ outcome'[m].ret = ret /\ outcome'[m].of = arg[m]
        /\ \A u \in Mains \ {m} : outcome'[u] = outcome[u]
        /\ outcome' \in [Mains -> Outcome]
    BY <1>10, <1>11 DEF JoinReturns, ThreadTypes, Outcome
  <2>2. /\ pc'[m] = "idle" /\ \A u \in Threads \ {m} : pc'[u] = pc[u]
        /\ pc' \in [Threads -> Labels]
    BY <1>0, <1>11 DEF JoinReturns, Goto, ThreadTypes, Labels, MainLabels
  <2>3. ThreadTypes'
    BY <1>11, <2>1, <2>2 DEF ThreadTypes
  <2>4. MainWins(m)
    BY <1>10, <1>11, <2>1, <2>2 DEF MainWins, Winner, Waiting
  <2> QED
    BY <1>8, <1>10, <1>11, <2>1, <2>2, <2>3, <2>4
<1>12. CASE JoinCas(m)
  <2>1. pc[m] = "j_cas" /\ UNCHANGED <<after, arg, born>>
    BY <1>12 DEF JoinCas, locals
  <2>2. CASE JoinReturns(m, "EINVAL", None) /\ UNCHANGED desc
    BY <1>11, <2>1, <2>2 DEF Values
  <2>3. CASE /\ ~desc[Own(arg[m])].joined
             /\ desc' = [desc EXCEPT ![Own(arg[m])].joined = TRUE]
             /\ Goto(m, "j_finished")
             /\ UNCHANGED outcome
    <3>1. /\ \A d \in Threads : desc[Own(d)].joined => desc'[Own(d)].joined
          /\ desc' \in [Structs -> Descriptor]
      BY <1>10, <2>1, <2>3, MainStores DEF ThreadTypes
    <3>2. /\ pc'[m] = "j_finished" /\ \A u \in Threads \ {m} : pc'[u] = pc[u]
          /\ pc' \in [Threads -> Labels]
      BY <1>0, <2>3 DEF Goto, ThreadTypes, Labels, MainLabels
    <3>3. ThreadTypes'
      BY <2>1, <2>3, <3>1, <3>2 DEF ThreadTypes
    <3>4. desc'[Own(arg[m])].joined
      BY <1>10, <2>1, <2>3 DEF ThreadTypes, Descriptor
    <3>5. MainWins(m)
      BY <1>10, <2>1, <2>3, <3>4 DEF MainWins
    <3>6. pc'[m] \in Waiting
      BY <3>2 DEF Waiting
    <3> QED
      BY <1>8, <1>10, <2>1, <2>3, <3>1, <3>2, <3>3, <3>5, <3>6
  <2> QED
    BY <1>12, <2>2, <2>3 DEF JoinCas
<1>13. ASSUME NEW there \in Waiting, pc[m] \in Waiting, Goto(m, there),
              UNCHANGED <<desc, after, arg, born, outcome>>
       PROVE  Placed'
  <2>1. /\ pc'[m] = there /\ \A u \in Threads \ {m} : pc'[u] = pc[u]
        /\ pc' \in [Threads -> Labels]
    BY <1>0, <1>13 DEF Goto, ThreadTypes, Labels, MainLabels, Waiting
  <2>2. ThreadTypes'
    BY <1>13, <2>1 DEF ThreadTypes
  <2>3. MainWins(m)
    BY <1>13 DEF MainWins, Winner
  <2> QED
    BY <1>8, <1>10, <1>13, <2>1, <2>2, <2>3
<1>14. CASE JoinFinished(m)
  <2>1. \E there \in Waiting : Goto(m, there)
    BY <1>14 DEF JoinFinished, From, Waiting
  <2>2. pc[m] \in Waiting /\ UNCHANGED <<desc, after, arg, born, outcome>>
    BY <1>14 DEF JoinFinished, From, Waiting, locals
  <2> QED
    BY <1>13, <2>1, <2>2
<1>15. CASE JoinDetached(m)
  <2>1. pc[m] \in Waiting /\ UNCHANGED <<desc, after, arg, born>>
    BY <1>15 DEF JoinDetached, Waiting, locals
  <2>2. CASE JoinReturns(m, "ESRCH", None)
    BY <1>11, <2>1, <2>2 DEF Values
  <2>3. CASE Goto(m, "j_finished") /\ UNCHANGED outcome
    BY <1>13, <2>1, <2>3 DEF Waiting
  <2> QED
    BY <1>15, <2>2, <2>3 DEF JoinDetached
<1>16. CASE JoinCopy(m)
  <2>1. /\ pc[m] \in Waiting /\ UNCHANGED <<desc, after, arg, born>>
        /\ JoinReturns(m, "0", desc[Own(arg[m])].result)
    BY <1>16 DEF JoinCopy, Waiting, locals
  <2>2. desc[Own(arg[m])].result \in Values
    BY <1>10, <2>1 DEF ThreadTypes, Descriptor
  <2> QED
    BY <1>11, <2>1, <2>2
<1> QED
  BY <1>1, <1>3, <1>4, <1>5, <1>6, <1>7, <1>9, <1>12, <1>14, <1>15, <1>16 DEF MainSteps, Calls

\* Where threads end by returning, a child's step keeps its own result and its
\* own finished in order, and touches nobody else's.
LEMMA ChildReturns ==
  ASSUME ThreadInv, ReturnsOnly, NEW c \in Children, SelfSteps(c) \/ ChildSteps(c)
  PROVE  (\A d \in Children : Returned(d)') /\ (\A m \in Mains : Fetched(m)')
<1>0. /\ ThreadTypes /\ Returned(c) /\ c \in Threads /\ Own(c) \in Structs
      /\ \A d \in Children : Returned(d) /\ d \in Threads /\ Own(d) \in Structs
      /\ \A d \in Children \ {c} : Own(d) # Own(c)
  BY OwnIsOwn DEF ThreadInv, ReturnsSound, Threads
<1>1. Entry(c) \/ StartReturns(c) \/ EntryFinish(c)
  <2>1. ~SelfSteps(c)
    BY <1>0, SelfStepFrame DEF Returned
  <2>2. ~(Exit(c) \/ TestCancel(c) \/ SetCancelState(c))
    BY DEF ReturnsOnly, Exit, TestCancel, SetCancelState
  <2>3. ~(ExitResult(c) \/ ExitFinish(c) \/ Die(c) \/ Disable(c) \/ TestState(c) \/ TestCanceled(c))
    BY <1>0 DEF Returned, ExitResult, ExitFinish, Die, Disable, TestState, TestCanceled, From
  <2>4. ~(Enable(c) \/ TestClear(c))
    BY <1>0 DEF Returned, Enable, TestClear, CallSelf, From
  <2> QED
    BY <2>1, <2>2, <2>3, <2>4 DEF ChildSteps
<1>2. /\ \A u \in Threads \ {c} : pc'[u] = pc[u]
      /\ \A d \in Children \ {c} : desc'[Own(d)] = desc[Own(d)]
      /\ UNCHANGED <<arg, outcome>>
  BY <1>0, <1>1 DEF ThreadTypes, Entry, StartReturns, EntryFinish, From, Goto, locals
<1>3. \A d \in Children \ {c} : Returned(d)'
  BY <1>0, <1>2 DEF Returned
<1>4. /\ Returned(c)'
      /\ desc[Own(c)].finished => desc'[Own(c)].finished
      /\ pc[c] = "dead" => pc'[c] = "dead"
  <2>1. CASE Entry(c)
    BY <1>0, <2>1 DEF ThreadTypes, Entry, From, Goto, Returned
  <2>2. CASE StartReturns(c)
    BY <1>0, <2>2 DEF ThreadTypes, Descriptor, StartReturns, From, Goto, Returned
  <2>3. CASE EntryFinish(c)
    BY <1>0, <2>3 DEF ThreadTypes, Descriptor, EntryFinish, From, Goto, Returned
  <2> QED
    BY <1>1, <2>1, <2>2, <2>3
<1>5. ASSUME NEW m \in Mains PROVE Fetched(m)'
  <2>1. Fetched(m) /\ MainAt(m) /\ m \in Threads \ {c}
    BY RolesAssumption DEF ThreadInv, ReturnsSound, Threads
  <2>2. /\ pc'[m] = pc[m]
        /\ pc[m] = "j_result" => arg[m] \in Children
        /\ outcome[m].ret = "0" => outcome[m].of \in Children
    BY <1>2, <2>1 DEF MainAt
  <2>3. \A d \in Children : /\ desc[Own(d)].finished => desc'[Own(d)].finished
                            /\ pc[d] = "dead" => pc'[d] = "dead"
    BY <1>0, <1>2, <1>4
  <2> QED
    BY <1>2, <2>1, <2>2, <2>3 DEF Fetched
<1> QED
  BY <1>3, <1>4, <1>5

\* A main stores in no result and no finished, and moves no child but the one
\* it creates.
LEMMA MainLeavesResults ==
  ASSUME Placed, NEW m \in Mains, SelfSteps(m) \/ MainSteps(m) \/ \E c \in Children : Calls(m, c)
  PROVE  \A d \in Children :
           /\ desc'[Own(d)].result = desc[Own(d)].result
           /\ desc'[Own(d)].finished = desc[Own(d)].finished
           /\ pc'[d] = pc[d] \/ (pc[d] = "unborn" /\ pc'[d] = "start")
<1>0. /\ ThreadTypes /\ m \in Threads /\ m \notin Children
      /\ \A d \in Children : d \in Threads /\ Own(d) \in Structs
  BY RolesAssumption, OwnIsOwn DEF Placed, Threads
<1>1. ASSUME NEW s, NEW v, \/ desc' = desc
                           \/ desc' = [desc EXCEPT ![s].tid = v]
                           \/ desc' = [desc EXCEPT ![s].detached = v]
                           \/ desc' = [desc EXCEPT ![s].joined = v]
                           \/ desc' = [desc EXCEPT ![s].canceled = v]
      PROVE  \A d \in Children : /\ desc'[Own(d)].result = desc[Own(d)].result
                                 /\ desc'[Own(d)].finished = desc[Own(d)].finished
  <2>1. ASSUME NEW d \in Children
        PROVE  /\ desc'[Own(d)].result = desc[Own(d)].result
               /\ desc'[Own(d)].finished = desc[Own(d)].finished
    BY <1>0, <1>1, <2>1 DEF ThreadTypes, Descriptor
  <2> QED
    BY <2>1
<1>2. ASSUME NEW there, Goto(m, there) PROVE \A d \in Children : pc'[d] = pc[d]
  BY <1>0, <1>2 DEF ThreadTypes, Goto
<1>3. CASE SelfSteps(m)
  BY <1>0, <1>3, SelfStepFrame
<1>4. CASE SetTid(m) \/ DetachCas(m)
  <2>1. \E there : Goto(m, there)
    BY <1>4 DEF SetTid, DetachCas, From
  <2>2. \/ desc' = [desc EXCEPT ![Own(arg[m])].tid = arg[m]]
        \/ desc' = [desc EXCEPT ![Own(arg[m])].detached = TRUE]
    BY <1>4 DEF SetTid, DetachCas
  <2> QED
    BY <1>1, <1>2, <2>1, <2>2
<1>5. CASE JoinCas(m) \/ JoinFinished(m) \/ JoinDetached(m) \/ JoinCopy(m)
  <2>1. \E there : Goto(m, there)
    BY <1>5 DEF JoinCas, JoinFinished, JoinDetached, JoinCopy, JoinReturns, From
  <2>2. desc' = desc \/ desc' = [desc EXCEPT ![Own(arg[m])].joined = TRUE]
    BY <1>5 DEF JoinCas, JoinFinished, JoinDetached, JoinCopy
  <2> QED
    BY <1>1, <1>2, <2>1, <2>2
<1>6. ASSUME NEW c \in Children, Join(m, c) \/ Detach(m, c) \/ Cancel(m, c)
      PROVE  \A d \in Children : /\ desc'[Own(d)].result = desc[Own(d)].result
                                 /\ desc'[Own(d)].finished = desc[Own(d)].finished
                                 /\ pc'[d] = pc[d]
  <2>1. pc' = pc \/ \E there : Goto(m, there)
    BY <1>6 DEF Join, Detach, Cancel, CallSelf, From
  <2>2. desc' = desc \/ desc' = [desc EXCEPT ![Own(c)].canceled = TRUE]
    BY <1>6 DEF Join, Detach, Cancel
  <2> QED
    BY <1>1, <1>2, <2>1, <2>2
<1>7. ASSUME NEW c \in Children, Create(m, c)
      PROVE  \A d \in Children : /\ desc'[Own(d)].result = desc[Own(d)].result
                                 /\ desc'[Own(d)].finished = desc[Own(d)].finished
                                 /\ pc'[d] = pc[d] \/ (pc[d] = "unborn" /\ pc'[d] = "start")
  <2>1. \A d \in Children : pc'[d] = pc[d] \/ (pc[d] = "unborn" /\ pc'[d] = "start")
    BY <1>0, <1>7 DEF Create, ThreadTypes
  <2>2. \E v : desc' = [desc EXCEPT ![Own(c)].detached = v]
    BY <1>7 DEF Create
  <2> QED
    BY <1>1, <2>1, <2>2
<1> QED
  BY <1>3, <1>4, <1>5, <1>6, <1>7 DEF MainSteps, Calls

\* Where threads end by returning, a join reaches the result of a child that
\* has finished, and copies it.
LEMMA MainFetches ==
  ASSUME ThreadInv, ReturnsOnly, NEW m \in Mains,
         SelfSteps(m) \/ MainSteps(m) \/ \E c \in Children : Calls(m, c)
  PROVE  (\A d \in Children : Returned(d)') /\ (\A n \in Mains : Fetched(n)')
<1>0. /\ Placed /\ ThreadTypes /\ Mains \subseteq Threads /\ Children \subseteq Threads
      /\ \A d \in Children : Returned(d) /\ Own(d) \in Structs
      /\ \A n \in Mains : Fetched(n) /\ MainAt(n)
  BY OwnIsOwn DEF ThreadInv, ReturnsSound, Threads, Placed
<1>1. \A d \in Children :
        /\ desc'[Own(d)].result = desc[Own(d)].result
        /\ desc'[Own(d)].finished = desc[Own(d)].finished
        /\ pc'[d] = pc[d] \/ (pc[d] = "unborn" /\ pc'[d] = "start")
  BY <1>0, MainLeavesResults
<1>2. \A d \in Children : Returned(d)'
  BY <1>0, <1>1 DEF Returned
<1>3. ASSUME NEW n \in Mains, UNCHANGED <<outcome[n]>>,
             pc'[n] = "j_result" => pc[n] = "j_result" /\ arg'[n] = arg[n]
      PROVE  Fetched(n)'
  <2>1. /\ pc[n] = "j_result" => arg[n] \in Children
        /\ outcome[n].ret = "0" => outcome[n].of \in Children
    BY <1>0 DEF MainAt
  <2>2. ASSUME pc'[n] = "j_result" PROVE desc'[Own(arg'[n])].finished
    <3>1. pc[n] = "j_result" /\ arg'[n] = arg[n] /\ desc[Own(arg[n])].finished
      BY <1>0, <1>3, <2>2 DEF Fetched
    <3> QED
      BY <1>1, <2>1, <3>1
  <2>3. ASSUME outcome'[n].ret = "0"
        PROVE  pc'[outcome'[n].of] = "dead" /\ outcome'[n].val = outcome'[n].of
    <3>1. /\ outcome'[n] = outcome[n] /\ outcome[n].of \in Children
          /\ pc[outcome[n].of] = "dead" /\ outcome[n].val = outcome[n].of
      BY <1>0, <1>3, <2>1, <2>3 DEF Fetched
    <3> QED
      BY <1>1, <3>1
  <2> QED
    BY <2>2, <2>3 DEF Fetched
<1>4. ASSUME NEW n \in Mains \ {m} PROVE Fetched(n)'
  <2>1. pc'[n] = pc[n] /\ arg'[n] = arg[n] /\ outcome'[n] = outcome[n]
    <3>1. CASE SelfSteps(m)
      BY <1>0, <3>1, SelfStepFrame
    <3>2. CASE MainSteps(m)
      BY <1>0, <3>2 DEF MainSteps, SetTid, DetachCas, JoinCas, JoinFinished, JoinDetached,
           JoinCopy, JoinReturns, From, Goto, locals, ThreadTypes
    <3>3. ASSUME NEW c \in Children, Calls(m, c)
          PROVE  pc'[n] = pc[n] /\ arg'[n] = arg[n] /\ outcome'[n] = outcome[n]
      BY <1>0, <3>3, RolesAssumption DEF Calls, Create, Join, Detach, Cancel, CallSelf, From,
           Goto, locals, ThreadTypes
    <3> QED
      BY <3>1, <3>2, <3>3
  <2> QED
    BY <1>3, <2>1
<1>5. Fetched(m)'
  <2>0. m \in Threads /\ ThreadTypes /\ MainAt(m)
    BY <1>0
  <2>1. CASE SelfSteps(m)
    <3>1. pc'[m] # "j_result" /\ outcome' = outcome
      BY <2>0, <2>1, SelfStepFrame DEF MainAt, MainLabels, Registered
    <3> QED
      BY <1>3, <3>1
  <2>2. CASE SetTid(m) \/ DetachCas(m)
    <3>1. pc'[m] # "j_result" /\ outcome' = outcome
      BY <2>0, <2>2 DEF SetTid, DetachCas, From, Goto, ThreadTypes
    <3> QED
      BY <1>3, <3>1
  <2>3. ASSUME NEW ret \in {"EINVAL", "ESRCH"}, JoinReturns(m, ret, None) PROVE Fetched(m)'
    BY <2>0, <2>3 DEF JoinReturns, Goto, ThreadTypes, Outcome, Fetched
  <2>4. ASSUME Goto(m, "j_finished"), outcome' = outcome PROVE Fetched(m)'
    <3>1. pc'[m] # "j_result"
      BY <2>0, <2>4 DEF Goto, ThreadTypes
    <3> QED
      BY <1>3, <2>4, <3>1
  <2>5. CASE JoinCas(m) \/ JoinDetached(m)
    BY <2>3, <2>4, <2>5 DEF JoinCas, JoinDetached
  <2>6. CASE JoinFinished(m)
    <3>1. /\ arg' = arg /\ outcome' = outcome /\ desc' = desc
          /\ pc'[m] = "j_result" => desc[Own(arg[m])].finished
          /\ outcome[m].ret # "0"
      BY <2>0, <2>6 DEF JoinFinished, From, Goto, ThreadTypes, locals, MainAt, Waiting
    <3> QED
      BY <3>1 DEF Fetched
  <2>7. CASE JoinCopy(m)
    <3>1. /\ pc[m] = "j_result" /\ pc'[m] = "idle"
          /\ arg[m] \in Children /\ outcome[m].of = arg[m]
      BY <2>0, <2>7 DEF JoinCopy, JoinReturns, Goto, ThreadTypes, MainAt, Waiting
    <3>2. outcome'[m].val = desc[Own(arg[m])].result /\ outcome'[m].of = outcome[m].of
      BY <2>0, <2>7 DEF JoinCopy, JoinReturns, ThreadTypes, Outcome
    <3>3. pc[arg[m]] = "dead" /\ desc[Own(arg[m])].result = arg[m]
      BY <1>0, <3>1 DEF Fetched, Returned
    <3> QED
      BY <1>1, <3>1, <3>2, <3>3 DEF Fetched
  <2>8. ASSUME NEW c \in Children, Create(m, c) \/ Detach(m, c) \/ Cancel(m, c)
        PROVE  Fetched(m)'
    <3>1. pc'[m] # "j_result" /\ outcome' = outcome
      BY <2>0, <2>8, RolesAssumption DEF Create, Detach, Cancel, CallSelf, From, Goto, ThreadTypes
    <3> QED
      BY <1>3, <3>1
  <2>9. ASSUME NEW c \in Children, Join(m, c) PROVE Fetched(m)'
    <3>1. pc'[m] # "j_result" /\ outcome'[m].ret # "0"
      BY <2>0, <2>9 DEF Join, Goto, ThreadTypes
    <3> QED
      BY <3>1 DEF Fetched
  <2> QED
    BY <2>1, <2>2, <2>5, <2>6, <2>7, <2>8, <2>9 DEF MainSteps, Calls
<1> QED
  BY <1>2, <1>4, <1>5

-----------------------------------------------------------------------------
\* One step from a state of the invariant, of any thread, is in the invariant.
LEMMA ThreadStep ==
  ASSUME ThreadInv, Next
  PROVE  ThreadInv'
<1>0. Placed /\ (ReturnsOnly' <=> ReturnsOnly) /\ UNCHANGED ends
  BY DEF ThreadInv, Placed, Next, ReturnsOnly
<1>1. ASSUME NEW c \in Children, SelfSteps(c) \/ ChildSteps(c) PROVE ThreadInv'
  BY <1>0, <1>1, ChildKeepsPlaced, ChildReturns DEF ThreadInv, Placed, ReturnsSound
<1>2. ASSUME NEW m \in Mains, SelfSteps(m) \/ MainSteps(m) \/ \E c \in Children : Calls(m, c)
      PROVE  ThreadInv'
  BY <1>0, <1>2, MainKeepsPlaced, MainFetches DEF ThreadInv, Placed, ReturnsSound
<1> QED
  BY <1>1, <1>2 DEF Next, Threads

\* The invariant of the threads, their descriptors and the calls of pthread_join,
\* pthread_detach and pthread_cancel on them.
THEOREM ThreadInvariant == Spec => []ThreadInv
<1>1. Init => ThreadInv
  <2> SUFFICES ASSUME Init PROVE ThreadInv
    OBVIOUS
  <2>1. Fresh \in Descriptor /\ [of |-> None, ret |-> "none", val |-> None] \in Outcome
    BY DEF Fresh, Descriptor, Outcome, Values
  <2>2. ThreadTypes
    BY <2>1 DEF Init, ThreadTypes, Labels, MainLabels, ChildLabels, Values
  <2>3. \A m \in Mains : /\ m \in Threads /\ pc[m] = "idle"
                         /\ outcome[m] = [of |-> None, ret |-> "none", val |-> None]
    BY DEF Init, Threads
  <2>4. ASSUME NEW m \in Mains PROVE MainAt(m) /\ ~Winner(m) /\ Fetched(m)
    <3>1. pc[m] = "idle" /\ outcome[m].ret = "none"
      BY <2>3
    <3> QED
      BY <3>1 DEF MainAt, Winner, Fetched, MainLabels, Waiting
  <2>5. ASSUME NEW c \in Children PROVE pc[c] = "unborn" /\ desc[Own(c)] = Fresh
    <3>1. c \in Threads /\ c \notin Mains /\ Own(c) \in Structs
      BY RolesAssumption, OwnIsOwn DEF Threads
    <3> QED
      BY <3>1 DEF Init
  <2>6. \A c \in Children : ChildAt(c) /\ Returned(c)
    BY <2>5 DEF ChildAt, Returned, ChildLabels, SelfLabels, Fresh
  <2> QED
    BY <2>2, <2>4, <2>6 DEF ThreadInv, OneWinner, ReturnsSound
<1>2. ThreadInv /\ UNCHANGED vars => ThreadInv'
  <2> SUFFICES ASSUME ThreadInv, UNCHANGED vars PROVE ThreadInv'
    OBVIOUS
  <2>1. UNCHANGED <<desc, pc, after, arg, born, ends, outcome>>
    BY DEF vars
  <2>2. ThreadTypes'
    BY <2>1 DEF ThreadInv, ThreadTypes
  <2>3. (\A m \in Mains : MainAt(m)') /\ (\A c \in Children : ChildAt(c)')
    BY <2>1 DEF ThreadInv, MainAt, ChildAt
  <2>4. OneWinner'
    BY <2>1 DEF ThreadInv, OneWinner, Winner
  <2>5. ReturnsSound'
    BY <2>1 DEF ThreadInv, ReturnsSound, Returned, Fetched, ReturnsOnly
  <2> QED
    BY <2>2, <2>3, <2>4, <2>5 DEF ThreadInv
<1> QED
  BY <1>1, <1>2, ThreadStep, PTL DEF Spec

\* Of the pthread_join calls on one thread one at most returns 0, whatever the
\* threads do; and where they end by returning, it returns what the thread
\* returned, after its end.
THEOREM JoinResultHolds == Spec => []JoinResult
<1>1. ThreadInv => JoinResult
  <2> SUFFICES ASSUME ThreadInv PROVE JoinResult
    OBVIOUS
  <2>1. JoinOnce
    BY DEF ThreadInv, OneWinner, Winner, Waiting, JoinOnce
  <2>2. JoinedValue
    BY DEF ThreadInv, ReturnsSound, Fetched, JoinedValue, ValueOfJoined
  <2> QED
    BY <2>1, <2>2 DEF JoinResult
<1> QED
  BY <1>1, ThreadInvariant, PTL

=============================================================================
