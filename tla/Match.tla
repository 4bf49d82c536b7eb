-------------------------------- MODULE Match --------------------------------
(***************************************************************************)
(* core/match.h: the engine under <regex.h>.  A compiled pattern is a tree *)
(* of records; matchfind walks it from a place of the subject and answers  *)
(* the place behind the match, or NULL.  The context it threads through    *)
(* carries the captures, a depth that most returns leave raised, and one   *)
(* workspace of places and captures that every repetition shares.  The     *)
(* patterns have no repetition inside a repetition and no assertion about  *)
(* one: those the shared workspace and the greedy walk get wrong.          *)
(*                                                                         *)
(* Places are 1 .. Len(subject) + 1, NULL is 0.  A behaviour is one        *)
(* regexec: matchexec tries one start after the other.                     *)
(***************************************************************************)
EXTENDS Integers, SequencesExt

CONSTANTS
    Patterns,    \* compiled patterns
    Subjects,    \* sequences of characters
    Groups,      \* capture numbers
    MaxDepth,    \* MATCH_MAX_DEPTH
    MaxRep       \* MATCH_MAX_BACKTRACK

VARIABLES
    pattern, subject,
    ctx,         \* match_ctx_t
    start,       \* the next place to try
    span         \* [rc, so, eo]: what matchexec answered

vars == <<pattern, subject, ctx, start, span>>

Unset == <<-1, -1>>
End == Len(subject) + 1
Inf == 255
Miss(c) == [r |-> 0, c |-> c]

---------------------------------------------------------------------------
RECURSIVE matchfind(_, _, _)

\* The empty continuation: every primitive ends in it.
Go(c, pos) ==
    IF c.depth + 1 > MaxDepth THEN Miss([c EXCEPT !.error = "EDEPTH"])
    ELSE [r |-> pos, c |-> c]

prim_CHAR(c, n, pos) == IF pos < End /\ subject[pos] \in n.chars THEN Go(c, pos + 1) ELSE Miss(c)
prim_BOL(c, pos) == IF pos = 1 THEN Go(c, pos) ELSE Miss(c)
prim_EOL(c, pos) == IF pos = End THEN Go(c, pos) ELSE Miss(c)

\* A group's old span comes back when its body, or what follows, fails.
prim_CAP(c, n, pos) ==
    LET old == c.caps[n.id]
        f == matchfind([c EXCEPT !.caps[n.id] = <<pos, @[2]>>], n.a, pos)
        g == Go([f.c EXCEPT !.caps[n.id] = <<@[1], f.r>>], f.r)
    IN IF f.c.error # "SUCCESS" \/ f.r = 0 THEN Miss([f.c EXCEPT !.caps[n.id] = old])
       ELSE IF g.r = 0 THEN Miss([g.c EXCEPT !.caps[n.id] = old])
       ELSE g

prim_SEQ(c, n, pos) ==
    LET f == matchfind(c, n.a, pos)
    IN IF f.c.error # "SUCCESS" \/ f.r = 0 THEN Miss(f.c) ELSE matchfind(f.c, n.b, f.r)

prim_ALT(c, n, pos) ==
    LET f == matchfind(c, n.a, pos)
    IN IF f.r # 0 THEN f
       ELSE IF f.c.error = "EDEPTH" THEN Miss(f.c)
       ELSE matchfind([f.c EXCEPT !.caps = c.caps], n.b, pos)

\* The iterations: as many as match something, up to max and the workspace.
RECURSIVE Iterate(_, _, _)
Iterate(c, n, k) ==
    LET f == matchfind([c EXCEPT !.cpath[k + 1] = c.caps], n.a, c.path[k])
    IN IF k >= MaxRep - 1 \/ (n.max # Inf /\ k >= n.max) THEN [k |-> k, c |-> c]
       ELSE IF f.r = 0 \/ f.r = f.c.path[k] THEN [k |-> k, c |-> f.c]
       ELSE Iterate([f.c EXCEPT !.path[k + 1] = f.r, !.cpath[k + 1] = f.c.caps], n, k + 1)

\* What the iterations end in: the last, or the fewest allowed; nothing
\* follows inside the node, so that the first answer is the only one.
Settle(i, it) == [r |-> it.c.path[i], c |-> [it.c EXCEPT !.caps = it.c.cpath[i]]]

prim_REP(c, n, pos) ==
    LET it == Iterate([c EXCEPT !.path[0] = pos, !.cpath[0] = c.caps], n, 0)
    IN IF it.k < n.min THEN Miss(it.c)
       ELSE Settle(IF n.lazy THEN n.min ELSE it.k, it)

\* Looking ahead runs on copies, of the captures too.
prim_LOOK(c, n, pos) ==
    LET found == matchfind(c, n.a, pos).r # 0
    IN IF found # n.neg THEN Go(c, pos) ELSE Miss(c)

prim_BACKREF(c, n, pos) ==
    LET so == c.caps[n.id][1]
        len == c.caps[n.id][2] - so
    IN IF so = -1 \/ pos + len > End \/ SubSeq(subject, pos, pos + len - 1)
                                        # SubSeq(subject, so, so + len - 1)
       THEN Miss(c) ELSE Go(c, pos + len)

matchfind(ctx0, n, pos) ==
    LET c == [ctx0 EXCEPT !.depth = @ + 1]
    IN IF c.depth > MaxDepth THEN Miss([ctx0 EXCEPT !.error = "EDEPTH"])
       ELSE CASE n.type \in {"CHAR", "CLASS", "ANY"} -> prim_CHAR(c, n, pos)
              [] n.type = "BOL" -> prim_BOL(c, pos)
              [] n.type = "EOL" -> prim_EOL(c, pos)
              [] n.type = "CAP" -> prim_CAP(c, n, pos)
              [] n.type = "SEQ" -> prim_SEQ(c, n, pos)
              [] n.type = "ALT" -> prim_ALT(c, n, pos)
              [] n.type = "REP" -> prim_REP(c, n, pos)
              [] n.type = "LOOK" -> prim_LOOK(c, n, pos)
              [] n.type = "BACKREF" -> prim_BACKREF(c, n, pos)
              [] n.type = "ATOMIC" -> matchfind(c, n.a, pos)

---------------------------------------------------------------------------
\* The elements of a pattern, left to right.
RECURSIVE Items(_)
Items(n) == IF n.type = "SEQ" THEN Items(n.a) \o <<n.b>> ELSE <<n>>

\* Mutant: a repeated character counts as part of the literal prefix.
MutLiteral(n) ==
    LET all == Items(n)
        items == IF all[1].type = "BOL" THEN Tail(all) ELSE all
    IN SelectSeq([i \in DOMAIN items |-> IF items[i].type = "REP" THEN items[i].a ELSE items[i]],
                 LAMBDA x : x.type = "CHAR")

\* matchcomp's literal prefix, of the pattern's text: it is given up when a
\* quantifier follows its last character.
Literal(n) ==
    LET all == Items(n)
        items == IF all[1].type = "BOL" THEN Tail(all) ELSE all
        stop == SelectInSeq(items, LAMBDA x : x.type # "CHAR")
        lit == IF stop = 0 THEN items ELSE SubSeq(items, 1, stop - 1)
        quantified == stop # 0 /\ items[stop].type = "REP" /\ items[stop].a.type = "CHAR"
    IN IF n.type = "ALT" \/ quantified THEN <<>> ELSE lit

\* matchgate: the first place the prefix occurs at, 0 for nowhere.
matchgate ==
    LET lit == Literal(pattern)
        at == {p \in 1 .. End - Len(lit) : \A i \in DOMAIN lit : subject[p + i - 1] \in lit[i].chars}
    IN IF lit = <<>> THEN 1
       ELSE IF at = {} THEN 0 ELSE CHOOSE p \in at : \A q \in at : p <= q

Anchored == pattern.type = "BOL"

Fresh(c) == [c EXCEPT !.caps = [g \in Groups |-> Unset]]

Begin ==
    /\ start = 0 /\ span.rc = "running"
    /\ LET g == IF Anchored THEN 1 ELSE matchgate
       IN IF g = 0 THEN span' = [span EXCEPT !.rc = "NOMATCH"] /\ UNCHANGED start
          ELSE start' = g /\ UNCHANGED span
    /\ UNCHANGED <<pattern, subject, ctx>>

Finished(c) == IF c.error # "SUCCESS" THEN c.error ELSE "NOMATCH"

TryStart ==
    /\ start # 0 /\ span.rc = "running"
    /\ IF start > End THEN span' = [span EXCEPT !.rc = Finished(ctx)] /\ UNCHANGED <<ctx, start>>
       ELSE LET f == matchfind(Fresh(ctx), pattern, start)
            IN /\ ctx' = f.c
               /\ CASE f.c.error = "EDEPTH" -> span' = [span EXCEPT !.rc = "EDEPTH"]
                    [] f.c.error # "EDEPTH" /\ f.r = 0 ->
                          IF Anchored THEN span' = [span EXCEPT !.rc = Finished(f.c)]
                          ELSE UNCHANGED span
                    [] f.c.error # "EDEPTH" /\ f.r # 0 ->
                          span' = [rc |-> "SUCCESS", so |-> start, eo |-> f.r]
               /\ start' = start + 1
    /\ UNCHANGED <<pattern, subject>>

Init ==
    /\ pattern \in Patterns /\ subject \in Subjects
    /\ ctx = [caps |-> [g \in Groups |-> Unset], depth |-> 0, error |-> "SUCCESS",
              path |-> [i \in 0 .. MaxRep |-> 0],
              cpath |-> [i \in 0 .. MaxRep |-> [g \in Groups |-> Unset]]]
    /\ start = 0
    /\ span = [rc |-> "running", so |-> 0, eo |-> 0]

Next == Begin \/ TryStart

Spec == Init /\ [][Next]_vars

---------------------------------------------------------------------------
\* The places a pattern may end at, by the meaning of its operators.
RECURSIVE Ends(_, _)
RECURSIVE Repeat(_, _, _)
Repeat(n, from, k) ==
    IF k = 0 THEN from
    ELSE Repeat(n, from \cup UNION {Ends(n, p) : p \in from}, k - 1)
Ends(n, p) ==
    CASE n.type \in {"CHAR", "CLASS", "ANY"} ->
            IF p < End /\ subject[p] \in n.chars THEN {p + 1} ELSE {}
      [] n.type = "BOL" -> {p} \cap {1}
      [] n.type = "EOL" -> {p} \cap {End}
      [] n.type \in {"CAP", "ATOMIC"} -> Ends(n.a, p)
      [] n.type = "SEQ" -> UNION {Ends(n.b, q) : q \in Ends(n.a, p)}
      [] n.type = "ALT" -> Ends(n.a, p) \cup Ends(n.b, p)
      [] n.type = "REP" ->
            LET must == IF n.min = 0 THEN {p} ELSE Ends(n.a, p)     \* min is 0 or 1
                more == IF n.max = Inf THEN Len(subject) ELSE n.max - n.min
            IN Repeat(n.a, must, more)
      [] n.type = "LOOK" -> IF (Ends(n.a, p) # {}) # n.neg THEN {p} ELSE {}
      [] n.type = "BACKREF" -> p .. End

RECURSIVE Bodies(_, _)
Bodies(n, g) ==
    CASE n.type = "CAP" -> (IF n.id = g THEN {n.a} ELSE {}) \cup Bodies(n.a, g)
      [] n.type \in {"SEQ", "ALT"} -> Bodies(n.a, g) \cup Bodies(n.b, g)
      [] n.type \in {"REP", "ATOMIC", "LOOK"} -> Bodies(n.a, g)
      [] OTHER -> {}

\* matchexec never reports what is not there: the span it answers matches the
\* pattern, the literal prefix made it skip no start at which the engine itself
\* would have matched, and every group that is set lies inside the span and
\* holds a match of that group's own body - also when an alternative or an
\* iteration that set the group was given up later.
MatchSound ==
    span.rc = "SUCCESS" =>
       /\ span.eo \in Ends(pattern, span.so)
       /\ \A p \in 1 .. span.so - 1 : matchfind(Fresh([ctx EXCEPT !.depth = 0]), pattern, p).r = 0
       /\ \A g \in Groups : ctx.caps[g] # Unset =>
             /\ span.so <= ctx.caps[g][1] /\ ctx.caps[g][2] <= span.eo
             /\ \E body \in Bodies(pattern, g) : ctx.caps[g][2] \in Ends(body, ctx.caps[g][1])
=============================================================================
