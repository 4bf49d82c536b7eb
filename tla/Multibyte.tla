------------------------------ MODULE Multibyte ------------------------------
(***************************************************************************)
(* <wchar.h> and <uchar.h>: a text is converted from wide characters to    *)
(* UTF-8 by wcsnrtombs (output in pieces), from UTF-8 back by mbsnrtowcs   *)
(* (input and output in pieces), and character by character through UTF-16 *)
(* by mbrtoc16 and c16rtomb, whose mbstate_t carries half a surrogate pair *)
(* from one call to the next.  Bytes and characters are numbers.           *)
(***************************************************************************)
EXTENDS Integers, SequencesExt

CONSTANTS
    Texts,       \* the texts: sequences of code points, none of them 0
    MaxPiece     \* the largest length a caller passes

VARIABLES
    text,        \* what is converted
    bytes,       \* what wcsnrtombs has written, and how far it read
    wread,
    wide,        \* what mbsnrtowcs has written, and how far it read
    bread,
    units,       \* what mbrtoc16 has written, how far it read, and the
    cread,       \*   mbstate_t its caller keeps
    pending,
    again,       \* what c16rtomb has written, how far it read, and its mbstate_t
    uread,
    high

vars == <<text, bytes, wread, wide, bread, units, cread, pending, again, uread, high>>

\* A C string ends in a 0.
Byte(i) == IF i \in DOMAIN bytes THEN bytes[i] ELSE 0

---------------------------------------------------------------------------
Bits(x, low, n) == (x \div 2^low) % 2^n
Cont(b) == Bits(b, 6, 2) = 2

\* mbrtowc at most n bytes from place i: [ret, wc], ret -1 and -2 as in C.
Tail6(i, k) == FoldLeft(LAMBDA wc, j : wc * 64 + Bits(Byte(i + j), 0, 6), 0, [j \in 1 .. k |-> j])

Decoded(i, n, k, lead, least) ==
    LET wc == lead * 64^k + Tail6(i, k)
    IN IF n < k + 1 THEN [ret |-> -2, wc |-> 0]
       ELSE IF \E j \in 1 .. k : ~Cont(Byte(i + j)) THEN [ret |-> -1, wc |-> 0]
       ELSE IF wc < least \/ (k = 2 /\ Bits(wc, 11, 5) = 27) \/ wc > 1114111
            THEN [ret |-> -1, wc |-> wc]
       ELSE [ret |-> k + 1, wc |-> wc]

mbrtowc(i, n) ==
    LET c == Byte(i)
    IN CASE n = 0 -> [ret |-> -2, wc |-> 0]
         [] n > 0 /\ c < 128 -> [ret |-> IF c = 0 THEN 0 ELSE 1, wc |-> c]
         [] n > 0 /\ Bits(c, 5, 3) = 6 -> Decoded(i, n, 1, Bits(c, 0, 5), 128)
         [] n > 0 /\ Bits(c, 4, 4) = 14 -> Decoded(i, n, 2, Bits(c, 0, 4), 2048)
         [] n > 0 /\ Bits(c, 3, 5) = 30 -> Decoded(i, n, 3, Bits(c, 0, 3), 65536)
         [] OTHER -> [ret |-> -1, wc |-> 0]

\* wcrtomb: the bytes, <<>> for EILSEQ.
wcrtomb(wc) ==
    CASE wc > 1114111 \/ wc \in 55296 .. 57343 -> <<>>
      [] wc < 128 -> <<wc>>
      [] wc \in 128 .. 2047 -> <<192 + Bits(wc, 6, 5), 128 + Bits(wc, 0, 6)>>
      [] wc \in 2048 .. 55295 \cup 57344 .. 65535 ->
            <<224 + Bits(wc, 12, 4), 128 + Bits(wc, 6, 6), 128 + Bits(wc, 0, 6)>>
      [] wc \in 65536 .. 1114111 ->
            <<240 + Bits(wc, 18, 3), 128 + Bits(wc, 12, 6), 128 + Bits(wc, 6, 6),
              128 + Bits(wc, 0, 6)>>

\* How many characters from `from` on, at most nwc, fit into len bytes.
RECURSIVE Fit(_, _, _)
Fit(from, nwc, len) ==
    IF nwc = 0 \/ from > Len(text) \/ Len(wcrtomb(text[from])) > len THEN 0
    ELSE 1 + Fit(from + 1, nwc - 1, len - Len(wcrtomb(text[from])))

\* wcsnrtombs and wcsrtombs: whole characters only, the source left at the
\* first that did not fit.
Wcsnrtombs(nwc, len) ==
    /\ wread < Len(text)
    /\ LET k == Fit(wread + 1, nwc, len)
       IN /\ bytes' = FoldLeft(LAMBDA b, i : b \o wcrtomb(text[i]), bytes,
                               [j \in 1 .. k |-> wread + j])
          /\ wread' = wread + k
    /\ UNCHANGED <<text, wide, bread, units, cread, pending, again, uread, high>>

\* mbsnrtowcs and mbsrtowcs: a character the nms bytes cut short is -1, and
\* the caller begins again where it was with other lengths.
RECURSIVE Gather(_, _, _)
Gather(i, nms, len) ==
    LET d == mbrtowc(i, nms)
    IN IF len = 0 \/ nms = 0 \/ Byte(i) = 0 THEN [ok |-> TRUE, at |-> i, out |-> <<>>]
       ELSE IF d.ret < 0 THEN [ok |-> FALSE, at |-> i, out |-> <<>>]
       ELSE LET more == Gather(i + d.ret, nms - d.ret, len - 1)
            IN [more EXCEPT !.out = <<d.wc>> \o @]

Mbsnrtowcs(nms, len) ==
    /\ wread = Len(text) /\ bread < Len(bytes)
    /\ LET g == Gather(bread + 1, nms, len)
       IN /\ g.ok
          /\ wide' = wide \o g.out
          /\ bread' = g.at - 1
    /\ UNCHANGED <<text, bytes, wread, units, cread, pending, again, uread, high>>

---------------------------------------------------------------------------
\* Mutant: 0x10000 is not taken off first.
MutSurrogates(wc) == <<55296 + wc \div 1024, 56320 + (wc % 1024)>>

Surrogates(wc) == <<55232 + wc \div 1024, 56320 + (wc % 1024)>>

\* mbrtoc16: a low half kept from the call before comes first and reads nothing.
Mbrtoc16(n) ==
    /\ wread = Len(text)
    /\ \/ /\ pending > 0
          /\ units' = Append(units, pending)
          /\ pending' = 0
          /\ UNCHANGED cread
       \/ /\ pending = 0 /\ cread < Len(bytes)
          /\ LET d == mbrtowc(cread + 1, n)
             IN /\ d.ret > 0
                /\ cread' = cread + d.ret
                /\ IF d.wc >= 65536
                   THEN /\ units' = Append(units, Surrogates(d.wc)[1])
                        /\ pending' = Surrogates(d.wc)[2]
                   ELSE units' = Append(units, d.wc) /\ UNCHANGED pending
    /\ UNCHANGED <<text, bytes, wread, wide, bread, again, uread, high>>

\* c16rtomb: a high half is kept, a low half without one is EILSEQ, and so is
\* anything else while one is kept.
C16rtomb ==
    /\ uread < Len(units)
    /\ LET u == units[uread + 1]
           low == u \in 56320 .. 57343
       IN CASE high # 0 ->
                  /\ again' = again \o IF low
                                       THEN wcrtomb(65536 + (high - 55296) * 1024 + (u - 56320))
                                       ELSE <<-1>>
                  /\ high' = 0
            [] high = 0 /\ u \in 55296 .. 56319 -> high' = u /\ UNCHANGED again
            [] high = 0 /\ u \notin 55296 .. 56319 ->
                  again' = again \o (IF low THEN <<-1>> ELSE wcrtomb(u)) /\ UNCHANGED high
    /\ uread' = uread + 1
    /\ UNCHANGED <<text, bytes, wread, wide, bread, units, cread, pending>>

---------------------------------------------------------------------------
Init ==
    /\ text \in Texts
    /\ bytes = <<>> /\ wread = 0
    /\ wide = <<>> /\ bread = 0
    /\ units = <<>> /\ cread = 0 /\ pending = 0
    /\ again = <<>> /\ uread = 0 /\ high = 0

Next ==
    \/ \E nwc, len \in 1 .. MaxPiece : Wcsnrtombs(nwc, len) \/ Mbsnrtowcs(nwc, len)
    \/ \E n \in 1 .. 4 : Mbrtoc16(n)
    \/ C16rtomb

Spec == Init /\ [][Next]_vars

---------------------------------------------------------------------------
\* However the callers cut their buffers, a text comes back from wcsnrtombs
\* and mbsnrtowcs, and from mbrtoc16 and c16rtomb, as it was: what has been
\* read back is at every moment a prefix of it, cut between two characters,
\* and once everything is read it is all of it.  No byte is written twice, a
\* surrogate pair split over two calls is not lost, and a character at the
\* edge of an encoding length (U+7F, U+80, U+7FF, U+800, U+FFFF, U+10000,
\* U+10FFFF) keeps its length.
TextSurvives ==
    /\ wread = Len(text) => /\ IsPrefix(wide, text)
                            /\ bread = Len(bytes) => wide = text
    /\ IsPrefix(again, bytes)
    /\ (wread = Len(text) /\ cread = Len(bytes) /\ pending = 0 /\ uread = Len(units))
          => again = bytes
=============================================================================
