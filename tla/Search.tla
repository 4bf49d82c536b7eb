------------------------------- MODULE Search -------------------------------
(***************************************************************************)
(* <search.h>: the list of lsearch, the open-addressing table of hsearch   *)
(* and the unbalanced tree of tsearch.  Each keeps beside the code's data  *)
(* the set or the map its caller believes in.  A call is one step: none of *)
(* the three is shared between threads.  They share no state, so that a    *)
(* behaviour uses one of them.                                             *)
(***************************************************************************)
EXTENDS Naturals, FiniteSets, SequencesExt

CONSTANTS
    Keys,      \* what compar and strcmp compare: a set of numbers
    Data,      \* what an ENTRY carries
    Nodes,     \* the tree nodes malloc can give
    Nil,       \* NULL
    MaxCap,    \* the largest table hcreate is asked for
    MaxCalls   \* bound: calls of one behaviour

VARIABLES
    using,     \* "list", "table" or "tree"
    list,      \* lsearch's array, of which *nmemb cells are in use
    cap,       \* __jacl_h_cap
    table,     \* __jacl_h_tbl: [0 .. cap - 1 -> entry], or Nil
    hash,      \* the djb2 hash of every key
    tree,      \* [root, node]: the caller's root pointer and the nodes
    held,      \* the nodes malloc gave and free has not taken
    entries,   \* what the hash table's caller entered: key -> data
    members,   \* what the tree's caller inserted and did not delete
    right,     \* has every call so far returned what the caller expects
    calls

vars == <<using, list, cap, table, hash, tree, held, entries, members, right, calls>>

Call(structure) ==
    /\ using = structure /\ calls < MaxCalls
    /\ calls' = calls + 1 /\ UNCHANGED using

Empty == [key |-> Nil, data |-> Nil]

---------------------------------------------------------------------------
\* lfind's scan, and lsearch's copy behind the last element.
Lfind(k) == \E i \in DOMAIN list : list[i] = k

Lsearch(k) ==
    /\ Call("list")
    /\ list' = IF Lfind(k) THEN list ELSE Append(list, k)
    /\ UNCHANGED <<cap, table, hash, tree, held, entries, members, right>>

---------------------------------------------------------------------------
\* A table exists at most once; calloc may fail, and leaves the capacity set.
Hcreate(nel) ==
    /\ Call("table") /\ table = Nil
    /\ cap' = IF nel > 0 THEN nel ELSE MaxCap
    /\ \/ table' = [i \in 0 .. cap' - 1 |-> Empty]
       \/ table' = Nil
    /\ UNCHANGED <<list, hash, tree, held, entries, members, right>>

Hdestroy ==
    /\ Call("table")
    /\ table' = Nil /\ cap' = 0
    /\ entries' = <<>>
    /\ UNCHANGED <<list, hash, tree, held, members, right>>

\* The slots the do-while visits, in its order.
Probes(k) == [j \in 1 .. cap |-> (hash[k] + j - 1) % cap]

\* ... and where it stops: an unused slot or the key's own; 0 when it comes
\* round to its start.
Stop(k) ==
    SelectInSeq(Probes(k), LAMBDA i : table[i].key \in {Nil, k})

\* An ENTER takes the unused slot or renews the data, a FIND changes nothing.
Hsearch(k, d, action) ==
    /\ Call("table") /\ table # Nil
    /\ LET j == Stop(k)
           i == Probes(k)[j]
           full == \A c \in DOMAIN table : table[c].key # Nil
           known == k \in DOMAIN entries
       IN IF j = 0
          THEN /\ right' = (right /\ full /\ ~known)          \* ENOSPC
               /\ UNCHANGED <<table, entries>>
          ELSE IF action = "FIND"
          THEN /\ right' = (right /\ IF known
                                     THEN table[i] = [key |-> k, data |-> entries[k]]
                                     ELSE table[i].key = Nil)
               /\ UNCHANGED <<table, entries>>
          ELSE /\ table' = [table EXCEPT ![i] = [key |-> k, data |-> d]]
               /\ entries' = [e \in DOMAIN entries \cup {k} |->
                                 IF e = k THEN d ELSE entries[e]]
               /\ UNCHANGED right
    /\ UNCHANGED <<list, cap, hash, tree, held, members>>

---------------------------------------------------------------------------
\* A `__jacl_tnode_t **`: the caller's root pointer, or a child field.
Root == [of |-> Nil, side |-> "root"]
Left(n) == [of |-> n, side |-> "left"]
Right(n) == [of |-> n, side |-> "right"]

At(p) == IF p = Root THEN tree.root ELSE tree.node[p.of][p.side]

Store(t, p, n) ==
    IF p = Root THEN [t EXCEPT !.root = n]
    ELSE [t EXCEPT !.node[p.of][p.side] = n]

\* The loop the three tree functions share: the pointer at which k hangs, or
\* the null pointer at which it would.
RECURSIVE Locate(_, _)
Locate(p, k) ==
    LET n == At(p)
    IN IF n = Nil \/ tree.node[n].key = k THEN p
       ELSE Locate(IF k < tree.node[n].key THEN Left(n) ELSE Right(n), k)

Tfind(k) ==
    /\ Call("tree") /\ tree.root # Nil
    /\ right' = (right /\ (At(Locate(Root, k)) # Nil <=> k \in members))
    /\ UNCHANGED <<list, cap, table, hash, tree, held, entries, members>>

\* A found key is not added; the new node may be refused by malloc.
Tsearch(k) ==
    /\ Call("tree")
    /\ LET p == Locate(Root, k)
       IN \/ /\ At(p) # Nil
             /\ right' = (right /\ k \in members)
             /\ UNCHANGED <<tree, held, members>>
          \/ /\ At(p) = Nil
             /\ held # Nodes
             /\ LET n == CHOOSE n \in Nodes \ held : TRUE
                IN /\ held' = held \cup {n}
                   /\ tree' = Store([tree EXCEPT !.node[n] =
                                       [key |-> k, left |-> Nil, right |-> Nil]], p, n)
             /\ members' = members \cup {k}
             /\ right' = (right /\ k \notin members)
          \/ At(p) = Nil /\ UNCHANGED <<tree, held, members, right>>
    /\ UNCHANGED <<list, cap, table, hash, entries>>

RECURSIVE Leftmost(_)
Leftmost(p) ==
    IF tree.node[At(p)].left = Nil THEN p ELSE Leftmost(Left(At(p)))

\* Mutant: the child on the right of a node that has no other is lost.
MutUnhook(p) ==
    LET n == At(p)
        s == Leftmost(Right(n))
        gone == IF tree.node[n].left # Nil /\ tree.node[n].right # Nil THEN At(s) ELSE n
    IN [node |-> gone,
        tree |-> IF gone # n
                 THEN Store([tree EXCEPT !.node[n].key = tree.node[gone].key], s, Nil)
                 ELSE Store(tree, p, tree.node[n].left)]

\* A node with two children takes its successor's key, and the successor
\* leaves the tree in its stead.
Unhook(p) ==
    LET n == At(p)
        s == Leftmost(Right(n))
        gone == IF tree.node[n].left # Nil /\ tree.node[n].right # Nil THEN At(s) ELSE n
    IN [node |-> gone,
        tree |-> IF gone # n
                 THEN Store([tree EXCEPT !.node[n].key = tree.node[gone].key],
                            s, tree.node[gone].right)
                 ELSE Store(tree, p, IF tree.node[n].left # Nil
                                     THEN tree.node[n].left ELSE tree.node[n].right)]

Tdelete(k) ==
    /\ Call("tree") /\ tree.root # Nil
    /\ LET p == Locate(Root, k)
       IN IF At(p) = Nil
          THEN /\ right' = (right /\ k \notin members)
               /\ UNCHANGED <<tree, held, members>>
          ELSE /\ tree' = Unhook(p).tree
               /\ held' = held \ {Unhook(p).node}
               /\ members' = members \ {k}
               /\ right' = (right /\ k \in members)
    /\ UNCHANGED <<list, cap, table, hash, entries>>

---------------------------------------------------------------------------
Init ==
    /\ using \in {"list", "table", "tree"}
    /\ list = <<>>
    /\ cap = 0 /\ table = Nil
    /\ hash \in IF using = "table" THEN [Keys -> 0 .. MaxCap - 1] ELSE {[k \in Keys |-> 0]}
    /\ tree = [root |-> Nil, node |-> [n \in Nodes |-> [key |-> 0, left |-> Nil, right |-> Nil]]]
    /\ held = {}
    /\ entries = <<>>
    /\ members = {}
    /\ right = TRUE /\ calls = 0

Next ==
    \/ \E k \in Keys : Lsearch(k) \/ Tfind(k) \/ Tsearch(k) \/ Tdelete(k)
    \/ \E nel \in 0 .. MaxCap : Hcreate(nel)
    \/ Hdestroy
    \/ \E k \in Keys, d \in Data, action \in {"FIND", "ENTER"} : Hsearch(k, d, action)

Spec == Init /\ [][Next]_vars

---------------------------------------------------------------------------
RECURSIVE InOrder(_)
InOrder(n) ==
    IF n = Nil THEN <<>>
    ELSE InOrder(tree.node[n].left) \o <<n>> \o InOrder(tree.node[n].right)

\* After any calls of lsearch, hsearch, tsearch and tdelete the three
\* structures hold what their callers put in, and every answer was the one the
\* set or the map gives: no key is twice in the list; every entered key stops
\* its probe sequence at its own slot whatever else was entered; an in-order
\* walk of the tree meets the members in order, and exactly the nodes malloc
\* gave and free has not taken, so that tdelete neither loses a subtree nor
\* frees a node still hooked in.
SearchExact ==
    /\ right
    /\ \A i, j \in DOMAIN list : list[i] = list[j] => i = j
    /\ table # Nil => \A k \in DOMAIN entries :
          /\ Stop(k) # 0
          /\ table[Probes(k)[Stop(k)]] = [key |-> k, data |-> entries[k]]
    /\ LET walk == InOrder(tree.root)
           inOrder == [i \in DOMAIN walk |-> tree.node[walk[i]].key]
       IN /\ ToSet(walk) = held
          /\ ToSet(inOrder) = members
          /\ \A i \in 2 .. Len(inOrder) : inOrder[i - 1] < inOrder[i]
=============================================================================
