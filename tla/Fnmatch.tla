------------------------------- MODULE Fnmatch -------------------------------
(***************************************************************************)
(* <fnmatch.h>: the recursive matcher of shell patterns.  A pattern is a   *)
(* sequence of characters in which a bracket expression is one element,    *)
(* "[]" or, negated, "[!]", with the characters it lists.  A behaviour is  *)
(* one call.                                                               *)
(***************************************************************************)
EXTENDS Integers, SequencesExt

CONSTANTS
    Patterns, Names,   \* what is matched
    Listed,            \* the characters a bracket expression lists
    FlagSets           \* subsets of {"PATHNAME", "PERIOD", "NOESCAPE"}

VARIABLES pattern, name, flags, answer

vars == <<pattern, name, flags, answer>>

Elem(i) == IF i \in DOMAIN pattern THEN pattern[i] ELSE "end"
Char(j) == IF j \in DOMAIN name THEN name[j] ELSE "end"
IsBracket(e) == e \in {"[]", "[!]"}
Slash(j) == "PATHNAME" \in flags /\ Char(j) = "/"

\* A period that FNM_PERIOD protects; from is where this call's string begins.
Leading(j, from) ==
    "PERIOD" \in flags /\ Char(j) = "." /\ (j = from \/ Char(j - 1) = "/")

---------------------------------------------------------------------------
RECURSIVE jacl_fnmatch(_, _, _)

\* Trailing stars take the rest; any other star tries every later start, as
\* long as characters are left, in a call of its own.
RECURSIVE Stars(_)
Stars(i) == IF Elem(i) = "*" THEN Stars(i + 1) ELSE i

\* Mutant: a star steps over at least one character.
MutReach(j) == {k \in j + 1 .. Len(name) : \A l \in j .. k : ~Slash(l)}

\* The characters a star may step over: up to the next slash of a pathname.
Reach(j) == {k \in j .. Len(name) : \A l \in j .. k : ~Slash(l)}

fnmatch_star(i, j, from) ==
    IF Stars(i) > Len(pattern)
    THEN ~Leading(j, from) /\ \A k \in j .. Len(name) : ~Slash(k)
    ELSE \E k \in Reach(j) : ~Leading(k, from) /\ jacl_fnmatch(Stars(i), k, k)

fnmatch_qmark(j, from) == Char(j) # "end" /\ ~Slash(j) /\ ~Leading(j, from)

fnmatch_bracket(e, j) == (Char(j) \in Listed) # (e = "[!]")

\* An escape takes the next character as it is.
Escaped(i) == Elem(i) = "\\" /\ "NOESCAPE" \notin flags /\ i < Len(pattern)

jacl_fnmatch(i, j, from) ==
    LET e == Elem(i)
    IN IF i > Len(pattern) THEN Char(j) = "end"
       ELSE IF IsBracket(e)
       THEN fnmatch_qmark(j, from) /\ fnmatch_bracket(e, j) /\ jacl_fnmatch(i + 1, j + 1, from)
       ELSE IF e = "?" THEN fnmatch_qmark(j, from) /\ jacl_fnmatch(i + 1, j + 1, from)
       ELSE IF e = "*" THEN fnmatch_star(i, j, from)
       ELSE IF Escaped(i) THEN Elem(i + 1) = Char(j) /\ jacl_fnmatch(i + 2, j + 1, from)
       ELSE e = Char(j) /\ jacl_fnmatch(i + 1, j + 1, from)

Call ==
    /\ answer = "none"
    /\ answer' = IF jacl_fnmatch(1, 1, 1) THEN "MATCH" ELSE "NOMATCH"
    /\ UNCHANGED <<pattern, name, flags>>

Init ==
    /\ pattern \in Patterns /\ name \in Names /\ flags \in FlagSets
    /\ answer = "none"

Next == Call

Spec == Init /\ [][Next]_vars

---------------------------------------------------------------------------
\* What a pattern means, element by element and with every split of a star.
RECURSIVE Means(_, _)
Means(i, j) ==
    LET e == Elem(i)
        one == Char(j) # "end" /\ ~Slash(j)
    IN IF i > Len(pattern) THEN j > Len(name)
       ELSE IF IsBracket(e) THEN one /\ fnmatch_bracket(e, j) /\ Means(i + 1, j + 1)
       ELSE CASE e = "?" -> one /\ Means(i + 1, j + 1)
              [] e = "*" -> Means(i + 1, j) \/ (one /\ Means(i, j + 1))
              [] Escaped(i) -> Elem(i + 1) = Char(j) /\ Means(i + 2, j + 1)
              [] OTHER -> e = Char(j) /\ Means(i + 1, j + 1)

\* fnmatch agrees with the meaning of the pattern however its stars have to be
\* split; with FNM_PATHNAME what it accepts is right, no star, question mark
\* or bracket having passed a slash.
FnmatchExact ==
    answer # "none" =>
       /\ answer = "MATCH" /\ "PERIOD" \notin flags => Means(1, 1)
       /\ answer = "NOMATCH" /\ flags \cap {"PATHNAME", "PERIOD"} = {} => ~Means(1, 1)
=============================================================================
