------------------------------- MODULE JsTree -------------------------------
(***************************************************************************)
(* core/jsio.h: the tree of values behind js_parse and js_stringify.  The  *)
(* nodes are linked by hand (first child, next sibling, parent, a count of *)
(* children); the model keeps those fields and, beside them, the ordered   *)
(* tree the caller built.  Callers keep to what the functions leave to     *)
(* them: a node that is attached, unshifted or put in another's place      *)
(* hangs nowhere and is not an ancestor of its new place, a child of an    *)
(* object has a key its siblings do not have.                              *)
(*                                                                         *)
(* Text is a sequence of lexemes: punctuation, a quote, a space, and one   *)
(* lexeme for a number, a literal or a key.  JS_PUBLIC_ROOT is NULL in     *)
(* this build, so that js_publish and js_unpublish change nothing, and     *)
(* js_notify is empty.                                                     *)
(***************************************************************************)
EXTENDS Naturals, FiniteSets, SequencesExt

CONSTANTS
    Nodes,     \* the nodes malloc can give: 1 .. n
    Keys,      \* property names
    Scalars,   \* numbers and literals, "null" among them
    MaxCalls   \* bound: calls of one behaviour

VARIABLES
    node,      \* the fields of every node
    live,      \* the nodes js_create gave and js_delete has not freed
    kids,      \* what the caller believes: every node's children in order
    calls

vars == <<node, live, kids, calls>>

Null == 0
NoKey == "nokey"
Fresh(type) ==
    [type |-> type, length |-> 0, key |-> NoKey, next |-> Null, first |-> Null, parent |-> Null]

Call == calls < MaxCalls /\ calls' = calls + 1

---------------------------------------------------------------------------
\* The siblings from c on, along next.
RECURSIVE Chain(_, _)
Chain(h, c) == IF c = Null THEN <<>> ELSE <<c>> \o Chain(h, h[c].next)

Children(h, p) == Chain(h, h[p].first)

\* Behind the last child, whatever that is.
js_attach(h, c, p) ==
    LET tail == Children(h, p)
        at == IF tail = <<>> THEN [h EXCEPT ![p].first = c]
              ELSE [h EXCEPT ![Last(tail)].next = c]
    IN [at EXCEPT ![c].parent = p, ![p].length = @ + 1]

\* Mutant: the siblings of a first child are cut off with it.
MutCut(h, c, i) ==
    LET p == h[c].parent
    IN IF i = 1 THEN [h EXCEPT ![p].first = Null]
       ELSE [h EXCEPT ![Children(h, p)[i - 1]].next = h[c].next]

\* What led to child i leads to the one after it.
Cut(h, c, i) ==
    LET p == h[c].parent
    IN IF i = 1 THEN [h EXCEPT ![p].first = h[c].next]
       ELSE [h EXCEPT ![Children(h, p)[i - 1]].next = h[c].next]

js_detach(h, c) ==
    LET p == h[c].parent
        i == SelectInSeq(Children(h, p), LAMBDA x : x = c)
    IN IF p = Null THEN h
       ELSE [(IF i = 0 THEN h ELSE [Cut(h, c, i) EXCEPT ![p].length = @ - 1])
             EXCEPT ![c].parent = Null, ![c].next = Null]

\* A subtree goes child by child, each detached from its parent first.
RECURSIVE js_delete(_, _)
js_delete(hl, x) ==
    LET h == js_detach(hl[1], x)
        below == FoldLeft(js_delete, <<h, hl[2]>>, Children(h, x))
    IN <<[below[1] EXCEPT ![x] = Fresh("null")], below[2] \ {x}>>

\* n takes o's place: its links, and the link that led to o.
Swap(h, o, n) ==
    LET p == h[o].parent
        i == SelectInSeq(Children(h, p), LAMBDA x : x = o)
        linked == [h EXCEPT ![n].next = h[o].next, ![n].parent = p]
    IN [(IF p = Null THEN linked
         ELSE IF i = 1 THEN [linked EXCEPT ![p].first = n]
         ELSE [linked EXCEPT ![Children(h, p)[i - 1]].next = n])
        EXCEPT ![o].next = Null, ![o].parent = Null]

---------------------------------------------------------------------------
\* Nodes at or above n.
RECURSIVE Above(_)
Above(n) == IF n = Null THEN {} ELSE {n} \cup Above(node[n].parent)

Loose(n) == n \in live /\ node[n].parent = Null
Container(n) == node[n].type \in {"array", "object"}
Named(n, p, others) ==
    node[p].type = "object" =>
       node[n].key # NoKey /\ \A c \in others : node[c].key # node[n].key

Create(type) ==
    /\ Call /\ live # Nodes
    /\ LET x == CHOOSE x \in Nodes \ live : \A y \in Nodes \ live : x <= y
       IN /\ node' = [node EXCEPT ![x] = Fresh(type)]
          /\ live' = live \cup {x}
          /\ kids' = [kids EXCEPT ![x] = <<>>]

\* js_attach, and js_push for an array.
Attach(c, p) ==
    /\ Call /\ Loose(c) /\ p \in live /\ Container(p) /\ c \notin Above(p) /\ Named(c, p, ToSet(kids[p]))
    /\ node' = js_attach(node, c, p)
    /\ kids' = [kids EXCEPT ![p] = Append(@, c)]
    /\ UNCHANGED live

Without(p, c) == SelectSeq(kids[p], LAMBDA x : x # c)

Detach(c) ==
    /\ Call /\ c \in live /\ node[c].parent # Null
    /\ node' = js_detach(node, c)
    /\ kids' = [kids EXCEPT ![node[c].parent] = Without(node[c].parent, c)]
    /\ UNCHANGED live

RECURSIVE Under(_)
Under(x) == {x} \cup UNION {Under(c) : c \in ToSet(kids[x])}

Delete(x) ==
    /\ Call /\ x \in live
    /\ LET left == js_delete(<<node, live>>, x)
       IN node' = left[1] /\ live' = left[2]
    /\ LET p == node[x].parent
           cut == IF p = Null THEN kids ELSE [kids EXCEPT ![p] = Without(p, x)]
       IN kids' = [n \in Nodes |-> IF n \in Under(x) THEN <<>> ELSE cut[n]]

Replace(o, n) ==
    /\ Call /\ o \in live /\ Loose(n) /\ n \notin Above(o) /\ o # n
    /\ node[o].parent # Null => Named(n, node[o].parent, ToSet(kids[node[o].parent]) \ {o})
    /\ LET left == js_delete(<<Swap(node, o, n), live>>, o)
       IN node' = left[1] /\ live' = left[2]
    /\ LET p == node[o].parent
           put == IF p = Null THEN kids
                  ELSE [kids EXCEPT ![p] = [i \in DOMAIN @ |-> IF @[i] = o THEN n ELSE @[i]]]
       IN kids' = [x \in Nodes |-> IF x \in Under(o) THEN <<>> ELSE put[x]]

Pop(a) ==
    /\ Call /\ a \in live /\ node[a].type = "array" /\ node[a].first # Null
    /\ LET cs == Children(node, a)
           c == Last(cs)
           cut == IF Len(cs) > 1 THEN [node EXCEPT ![cs[Len(cs) - 1]].next = Null]
                  ELSE [node EXCEPT ![a].first = Null]
       IN node' = [cut EXCEPT ![c].parent = Null, ![c].next = Null, ![a].length = @ - 1]
    /\ kids' = [kids EXCEPT ![a] = Front(@)]
    /\ UNCHANGED live

Unshift(a, v) ==
    /\ Call /\ a \in live /\ node[a].type = "array" /\ Loose(v) /\ v \notin Above(a)
    /\ node' = [node EXCEPT ![v].next = node[a].first, ![v].parent = a,
                            ![a].first = v, ![a].length = @ + 1]
    /\ kids' = [kids EXCEPT ![a] = <<v>> \o @]
    /\ UNCHANGED live

Shift(a) ==
    /\ Call /\ a \in live /\ node[a].type = "array" /\ node[a].first # Null
    /\ LET c == node[a].first
       IN node' = [node EXCEPT ![a].first = node[c].next, ![a].length = @ - 1,
                               ![c].parent = Null, ![c].next = Null]
    /\ kids' = [kids EXCEPT ![a] = Tail(@)]
    /\ UNCHANGED live

SetKey(x, key) ==
    /\ Call /\ Loose(x) /\ node[x].key # key
    /\ node' = [node EXCEPT ![x].key = key]
    /\ UNCHANGED <<live, kids>>

---------------------------------------------------------------------------
\* js_stringify_value and its array and object writers.
RECURSIVE js_stringify(_)
js_stringify(v) ==
    LET elem(i) == IF node[v].type = "array" THEN js_stringify(Children(node, v)[i])
                   ELSE <<"quote", node[Children(node, v)[i]].key, "quote", ":">>
                        \o js_stringify(Children(node, v)[i])
        body == FoldLeft(LAMBDA text, i : text \o (IF i = 1 THEN <<>> ELSE <<",">>) \o elem(i),
                         <<>>, [i \in DOMAIN Children(node, v) |-> i])
    IN CASE node[v].type = "array" -> <<"[">> \o body \o <<"]">>
         [] node[v].type = "object" -> <<"{">> \o body \o <<"}">>
         [] OTHER -> <<node[v].type>>

\* The parser: what is read, and the place behind it.  A value is a scalar or
\* <<type, elements>>, an element of an object <<key, value>>.
Lex(s, i) == IF i \in DOMAIN s THEN s[i] ELSE "end"

RECURSIVE Skip(_, _, _)
Skip(s, i, set) == IF Lex(s, i) \in set THEN Skip(s, i + 1, set) ELSE i

RECURSIVE Until(_, _, _)
Until(s, i, set) == IF Lex(s, i) \in set \cup {"end"} THEN i ELSE Until(s, i + 1, set)

RECURSIVE js_parse_value(_, _)
RECURSIVE js_parse_array(_, _, _)
RECURSIVE js_parse_object(_, _, _)

js_parse_array(s, i, done) ==
    IF Lex(s, i) \in {"]", "end"} THEN [value |-> <<"array", done>>, at |-> i + 1]
    ELSE LET v == js_parse_value(s, i)
         IN js_parse_array(s, IF Lex(s, v.at) = "," THEN v.at + 1 ELSE v.at,
                           Append(done, v.value))

js_parse_object(s, i, done) ==
    LET start == Skip(s, i, {"space", "quote"})
        stop == Until(s, start, {"quote"})
        colon == Until(s, stop + 1, {":"})
        v == js_parse_value(s, colon + 1)
    IN IF Lex(s, i) \in {"}", "end"} \/ Lex(s, start) \in {"}", "end"}
       THEN [value |-> <<"object", done>>, at |-> IF Lex(s, start) = "}" THEN start + 1 ELSE start]
       ELSE IF Lex(s, stop) = "end" THEN [value |-> <<"object", done>>, at |-> stop]
       ELSE IF Lex(s, colon) = "end" THEN [value |-> "NULL", at |-> colon]
       ELSE js_parse_object(s, IF Lex(s, v.at) = "," THEN v.at + 1 ELSE v.at,
                            Append(done, <<SubSeq(s, start, stop - 1), v.value>>))

js_parse_value(s, from) ==
    LET i == Skip(s, from, {"space"})
    IN CASE Lex(s, i) = "{" -> js_parse_object(s, i + 1, <<>>)
         [] Lex(s, i) = "[" -> js_parse_array(s, i + 1, <<>>)
         [] Lex(s, i) \in Scalars -> [value |-> Lex(s, i), at |-> i + 1]
         [] OTHER -> [value |-> "null", at |-> i]      \* without moving on

\* js_path: a segment per level, the root's own key included, and js_resolve's
\* walk along it.
RECURSIVE js_path(_)
js_path(v) ==
    LET p == node[v].parent
    IN IF p = Null THEN (IF node[v].key = NoKey THEN <<>> ELSE <<<<".", node[v].key>>>>)
       ELSE Append(js_path(p),
                   IF node[p].type = "array"
                   THEN <<"[", SelectInSeq(Children(node, p), LAMBDA x : x = v) - 1>>
                   ELSE <<".", node[v].key>>)

js_index(a, i) ==
    IF node[a].type = "array" /\ i < Len(Children(node, a))
    THEN Children(node, a)[i + 1] ELSE Null

js_property(o, key) ==
    LET hits == SelectSeq(Children(node, o), LAMBDA c : node[c].key = key)
    IN IF node[o].type # "object" \/ hits = <<>> THEN Null ELSE hits[1]

js_resolve(root, path) ==
    FoldLeft(LAMBDA cur, seg : IF cur = Null THEN Null
                               ELSE IF seg[1] = "[" THEN js_index(cur, seg[2])
                               ELSE js_property(cur, seg[2]),
             root, path)

---------------------------------------------------------------------------
Init ==
    /\ node = [n \in Nodes |-> Fresh("null")]
    /\ live = {}
    /\ kids = [n \in Nodes |-> <<>>]
    /\ calls = 0

Next ==
    \/ \E type \in {"array", "object"} \cup Scalars : Create(type)
    \/ \E c, p \in Nodes : Attach(c, p) \/ Replace(c, p) \/ Unshift(c, p)
    \/ \E x \in Nodes : Detach(x) \/ Delete(x) \/ Pop(x) \/ Shift(x)
    \/ \E x \in Nodes, key \in Keys : SetKey(x, key)

Spec == Init /\ [][Next]_vars

---------------------------------------------------------------------------
RECURSIVE Shape(_)
Shape(v) ==
    CASE node[v].type = "array" -> <<"array", [i \in DOMAIN kids[v] |-> Shape(kids[v][i])]>>
      [] node[v].type = "object" ->
            <<"object", [i \in DOMAIN kids[v] |-> <<<<node[kids[v][i]].key>>, Shape(kids[v][i])>>]>>
      [] OTHER -> node[v].type

\* js_attach, js_detach, js_replace, js_delete and the four array functions
\* keep the links a tree: every node's chain of siblings is the list its
\* caller built, all of it live and pointing back at its parent, the count is
\* the list's length, and a node that hangs nowhere has no sibling.
LinksExact ==
    \A n \in live :
       /\ Children(node, n) = kids[n]
       /\ node[n].length = Len(kids[n])
       /\ \A c \in ToSet(kids[n]) : c \in live /\ node[c].parent = n
       /\ node[n].parent = Null => node[n].next = Null
       /\ node[n].parent # Null => n \in ToSet(kids[node[n].parent])

\* What js_stringify writes of any tree without strings, js_parse reads back
\* as the same tree, to the last lexeme; and js_resolve follows js_path from
\* a root without a key back to the very node.
RoundTrips ==
    \A r \in live : Loose(r) =>
       /\ js_parse_value(js_stringify(r), 1) =
             [value |-> Shape(r), at |-> Len(js_stringify(r)) + 1]
       /\ node[r].key = NoKey => \A v \in Under(r) : js_resolve(r, js_path(v)) = v
=============================================================================
