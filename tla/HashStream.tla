----------------------------- MODULE HashStream ------------------------------
(***************************************************************************)
(* The buffering of the hash functions of include/crypto: init, update in  *)
(* pieces, final.  A context keeps the blocks it has compressed, in order  *)
(* and with the counters and flags compressed with them, in place of the   *)
(* chaining value: the rounds are left out, what goes into them is not.    *)
(* The bytes of the message are the numbers 1, 2, ...                      *)
(***************************************************************************)
EXTENDS Integers, Sequences, SequencesExt, FiniteSetsExt

CONSTANTS Algorithms,
          Rate,       \* bytes in a block (64, 128, the rate of the sponge, 16)
          LenBytes,   \* bytes of the length field (8 or 16)
          Word,       \* counters are words modulo this
          Chunk,      \* blocks in a chunk of BLAKE3 (16)
          Digest,     \* bytes of a SHA-3 digest (at most Rate)
          MaxPiece, MaxMessage, MaxOut,
          AnyCut      \* squeeze may be called again at the end of a block

VARIABLES alg, ctx, length, phase, out, todo

vars == <<alg, ctx, length, phase, out, todo>>

Message(from, to) == [i \in 1..(to - from) |-> from + i]
Zeros(n) == [i \in 1..n |-> 0]
Fill(buf, n) == buf \o Zeros(n - Len(buf))
LengthField(n) == [i \in 1..LenBytes |-> <<"length", n>>]

\* A count in two words: adding n to the low one carries when it comes out
\* less than n.
\* Mutant: it also carries when it comes out equal.
MutPlus(t, n) == LET lo == (t[1] + n) % Word IN <<lo, IF lo <= n THEN (t[2] + 1) % Word ELSE t[2]>>
Plus(t, n) == LET lo == (t[1] + n) % Word IN <<lo, IF lo < n THEN (t[2] + 1) % Word ELSE t[2]>>
Counted(n) == <<n % Word, (n \div Word) % Word>>

-----------------------------------------------------------------------------
\* SHA-224/256, SHA-384/512 and MD5.  Lengths are in bytes for bits.
Sha2Init32 == [done |-> <<>>, buf |-> <<>>, count |-> 0]
Sha2Transform32(c, b) == [c EXCEPT !.done = Append(@, b), !.buf = <<>>]

Sha2Update32(c, data) ==
  FoldLeft(LAMBDA d, b : IF Len(d.buf) + 1 = Rate
                         THEN [Sha2Transform32(d, Append(d.buf, b)) EXCEPT !.count = @ + Rate]
                         ELSE [d EXCEPT !.buf = Append(@, b)], c, data)

\* The padding leaves room for the length field, in a block of its own if need be.
\* Mutant: the marker may fill the first byte of the length field.
MutRoom(n) == n <= Rate - LenBytes + 1
Room(n) == n <= Rate - LenBytes

Sha2Final32(c) ==
  LET marked == Append(c.buf, "0x80")
      d == IF Room(Len(marked)) THEN [c EXCEPT !.buf = marked]
           ELSE Sha2Transform32(c, Fill(marked, Rate))
      len == c.count + Len(c.buf)
  IN Sha2Transform32(d, Fill(d.buf, Rate - LenBytes) \o LengthField(len))

Sha2Init64 == [done |-> <<>>, buf |-> <<>>, count |-> <<0, 0>>]
Sha2Transform64(c, b) == [c EXCEPT !.done = Append(@, b), !.buf = <<>>]

Sha2Update64(c, data) ==
  FoldLeft(LAMBDA d, b : IF Len(d.buf) + 1 = Rate
                         THEN [Sha2Transform64(d, Append(d.buf, b)) EXCEPT !.count = Plus(@, Rate)]
                         ELSE [d EXCEPT !.buf = Append(@, b)], c, data)

Sha2Final64(c) ==
  LET marked == Append(c.buf, "0x80")
      d == IF Room(Len(marked)) THEN [c EXCEPT !.buf = marked]
           ELSE Sha2Transform64(c, Fill(marked, Rate))
  IN Sha2Transform64(d, Fill(d.buf, Rate - LenBytes) \o LengthField(Plus(c.count, Len(c.buf))))

Md5Init == Sha2Init32
Md5Transform(c, b) == Sha2Transform32(c, b)
Md5Update(c, data) == Sha2Update32(c, data)
Md5Final(c) == Sha2Final32(c)

-----------------------------------------------------------------------------
\* BLAKE2b and BLAKE2s: a full block stays in the buffer until more is known
\* to follow, for the last one is compressed with the flag f.
Blake2Compress(c, b, f) == [c EXCEPT !.done = Append(@, [b |-> b, t |-> c.t, f |-> f])]

\* Mutant: a full block is compressed at once.
MutMore(n, fill) == n >= fill
More(n, fill) == n > fill

Blake2Block(c, b) == Blake2Compress([c EXCEPT !.t = Plus(@, Rate)], b, FALSE)

Blake2bUpdate(c, data) ==
  LET fill == Rate - Len(c.buf)
      rest == SubSeq(data, fill + 1, Len(data))
      whole == IF rest = <<>> THEN 0 ELSE (Len(rest) - 1) \div Rate
      first == Blake2Block(c, c.buf \o SubSeq(data, 1, fill))
      last == FoldLeft(LAMBDA d, i : Blake2Block(d, SubSeq(rest, (i - 1) * Rate + 1, i * Rate)),
                       first, [i \in 1..whole |-> i])
  IN IF data = <<>> THEN c
     ELSE IF More(Len(data), fill)
     THEN [last EXCEPT !.buf = SubSeq(rest, whole * Rate + 1, Len(rest))]
     ELSE [c EXCEPT !.buf = @ \o data]

\* With a key, the key padded to a block is the first data.
Blake2bInit(key) ==
  LET c == [done |-> <<>>, buf |-> <<>>, t |-> <<0, 0>>] IN
  IF key = <<>> THEN c ELSE Blake2bUpdate(c, Fill(key, Rate))

Blake2bFinal(c) ==
  Blake2Compress([c EXCEPT !.t = Plus(@, Len(c.buf))], Fill(c.buf, Rate), TRUE)

Blake2sInit(key) == Blake2bInit(key)
Blake2sUpdate(c, data) == Blake2bUpdate(c, data)
Blake2sFinal(c) == Blake2bFinal(c)

-----------------------------------------------------------------------------
\* The Keccak sponge of SHA-3 and SHAKE: perms counts the permutations since
\* the padding, and an output byte is <<permutations before it, its place>>.
KeccakInit == [done |-> <<>>, buf |-> <<>>, perms |-> 0, left |-> 0]
KeccakF(c) == [c EXCEPT !.perms = @ + 1]

KeccakAbsorb(c, data) ==
  FoldLeft(LAMBDA d, b : IF Len(d.buf) + 1 = Rate
                         THEN [d EXCEPT !.done = Append(@, Append(d.buf, b)), !.buf = <<>>]
                         ELSE [d EXCEPT !.buf = Append(@, b)], c, data)

KeccakPad(c) ==
  LET b == Fill(Append(c.buf, "delim"), Rate) IN
  [c EXCEPT !.done = Append(@, [b EXCEPT ![Rate] = <<b[Rate], "0x80">>]), !.buf = <<>>]

\* One byte: a fresh block is taken when the last is used up, after a
\* permutation unless the call has just begun.
SqueezeByte(c, i) ==
  LET d == IF c.left > 0 THEN c ELSE [(IF i > 0 THEN KeccakF(c) ELSE c) EXCEPT !.left = Rate]
  IN [d EXCEPT !.left = @ - 1]

RECURSIVE KeccakSqueeze(_, _, _)
KeccakSqueeze(c, i, n) ==
  LET d == SqueezeByte(c, i) IN
  IF i = n THEN [c |-> c, bytes |-> <<>>]
  ELSE LET more == KeccakSqueeze(d, i + 1, n)
       IN [c |-> more.c, bytes |-> << <<d.perms, Rate - d.left>> >> \o more.bytes]

Sha3Final(c) == KeccakSqueeze(KeccakPad(c), 0, Digest)
ShakeFinal(c) == KeccakPad(c)

-----------------------------------------------------------------------------
\* Poly1305.
PolyBlock(c, b) == [c EXCEPT !.done = Append(@, b), !.buf = <<>>]
PolyInit == [done |-> <<>>, buf |-> <<>>]

PolyUpdate(c, data) ==
  FoldLeft(LAMBDA d, b : IF Len(d.buf) + 1 = Rate THEN PolyBlock(d, Append(d.buf, b))
                         ELSE [d EXCEPT !.buf = Append(@, b)], c, data)

PolyFinal(c) == IF c.buf = <<>> THEN c ELSE PolyBlock(c, Fill(Append(c.buf, "0x01"), Rate))

-----------------------------------------------------------------------------
\* BLAKE3: a chunk being filled (its compressed blocks, and a buffer of Rate
\* cells whose first n are in use) and a stack of the roots of complete subtrees.
\* Init leaves the cells as they are, and a compression takes all of them with n.
Blake3Compress(cv, k, flags) ==
  Append(cv, [b |-> k.buf, n |-> k.n, counter |-> k.counter, flags |-> flags])

ChunkInit(k) == [k EXCEPT !.cv = <<>>, !.counter = 0, !.n = 0, !.blocks = 0]
Fresh == [cv |-> <<>>, counter |-> 0, buf |-> [i \in 1..Rate |-> "unset"], n |-> 0, blocks |-> 0]
StartFlag(k) == IF k.blocks = 0 THEN {"START"} ELSE {}

Place(k, b) == [k EXCEPT !.buf[k.n + 1] = b, !.n = @ + 1]

ChunkUpdate(k, data) ==
  FoldLeft(LAMBDA d, b :
             IF d.n < Rate THEN Place(d, b)
             ELSE Place([d EXCEPT !.cv = Blake3Compress(@, d, StartFlag(d)), !.blocks = @ + 1, !.n = 0], b),
           k, data)

ChunkOutput(k, root) == [chunk |-> Blake3Compress(k.cv, k, StartFlag(k) \cup {"END"} \cup root)]

ParentCv(left, right, root) == [left |-> left, right |-> right, flags |-> {"PARENT"} \cup root]

\* Mutant: subtrees are merged at odd counts.
MutMerges(total) == total % 2 = 1
Merges(total) == total % 2 = 0

RECURSIVE AddChunkCv(_, _)
AddChunkCv(stack, total) ==
  LET n == Len(stack) IN
  IF n >= 2 /\ Merges(total)
  THEN AddChunkCv(Append(SubSeq(stack, 1, n - 2), ParentCv(stack[n - 1], stack[n], {})), total \div 2)
  ELSE stack

Blake3Init == [chunk |-> ChunkInit(Fresh), stack |-> <<>>]
ChunkLen == Chunk * Rate
InChunk(c) == c.chunk.blocks * Rate + c.chunk.n
NextCv(c, k) == AddChunkCv(Append(c.stack, ChunkOutput(k, {})), c.chunk.counter + 1)

\* One turn of the loop of blake3_update with data left: the context, and how
\* many bytes the turn uses up.
Blake3Turn(c, data) ==
  LET tmp == [ChunkInit(Fresh) EXCEPT !.counter = c.chunk.counter]
      take == Min({Len(data), ChunkLen - InChunk(c)})
      k == ChunkUpdate(c.chunk, SubSeq(data, 1, take))
  IN IF InChunk(c) = 0 /\ Len(data) >= ChunkLen
     THEN [c |-> [chunk |-> [c.chunk EXCEPT !.counter = @ + 1],
                  stack |-> NextCv(c, ChunkUpdate(tmp, SubSeq(data, 1, ChunkLen)))],
           used |-> ChunkLen]
     ELSE IF k.n = 0 /\ k.blocks = Chunk
     THEN [c |-> [chunk |-> ChunkInit(k), stack |-> NextCv(c, k)], used |-> take]
     ELSE [c |-> [c EXCEPT !.chunk = k], used |-> take]

\* blake3_final folds the stack from its top.
Blake3Final(c) ==
  IF c.stack = <<>> THEN ChunkOutput([c.chunk EXCEPT !.counter = 0], {"ROOT"})
  ELSE FoldLeft(LAMBDA cv, left : ParentCv(left, cv, {"ROOT"}), ChunkOutput(c.chunk, {}), Reverse(c.stack))

-----------------------------------------------------------------------------
Init ==
  /\ alg \in Algorithms
  /\ ctx = CASE alg = "sha256" -> Sha2Init32
             [] alg = "sha512" -> Sha2Init64
             [] alg = "md5" -> Md5Init
             [] alg = "blake2b" -> Blake2bInit(<<>>)
             [] alg = "blake2s" -> Blake2sInit(<<>>)
             [] alg = "blake2_keyed" -> Blake2bInit(<<"key">>)
             [] alg \in {"sha3", "shake"} -> KeccakInit
             [] alg = "poly1305" -> PolyInit
             [] alg = "blake3" -> Blake3Init
  /\ length = 0 /\ phase = "absorbing" /\ out = <<>> /\ todo = 0

\* update with the next n bytes of the message.
Update ==
  \E n \in 0..MaxPiece :
    LET data == Message(length, length + n) IN
    /\ phase = "absorbing" /\ alg # "blake3" /\ length + n <= MaxMessage
    /\ length' = length + n
    /\ ctx' = CASE alg = "sha256" -> Sha2Update32(ctx, data)
                [] alg = "sha512" -> Sha2Update64(ctx, data)
                [] alg = "md5" -> Md5Update(ctx, data)
                [] alg \in {"blake2b", "blake2_keyed"} -> Blake2bUpdate(ctx, data)
                [] alg = "blake2s" -> Blake2sUpdate(ctx, data)
                [] alg \in {"sha3", "shake"} -> KeccakAbsorb(ctx, data)
                [] alg = "poly1305" -> PolyUpdate(ctx, data)
    /\ UNCHANGED <<alg, phase, out, todo>>

\* blake3_update; a piece that would fill a chunk it does not begin is left out
\* unless AnyCut.
UpdateBlake3 ==
  \E n \in 1..(2 * MaxPiece) :
    /\ phase = "absorbing" /\ alg = "blake3" /\ todo = 0 /\ length + n <= 2 * MaxMessage
    /\ AnyCut \/ InChunk(ctx) = 0 \/ InChunk(ctx) + n < ChunkLen
    /\ todo' = n
    /\ UNCHANGED <<alg, ctx, length, phase, out>>

TurnBlake3 ==
  LET x == Blake3Turn(ctx, Message(length, length + todo)) IN
  /\ phase = "absorbing" /\ todo > 0
  /\ ctx' = x.c /\ length' = length + x.used /\ todo' = todo - x.used
  /\ UNCHANGED <<alg, phase, out>>

Final ==
  LET x == Sha3Final(ctx) IN
  /\ phase = "absorbing" /\ todo = 0
  /\ phase' = IF alg = "shake" THEN "squeezing" ELSE "done"
  /\ ctx' = CASE alg = "sha256" -> Sha2Final32(ctx)
              [] alg = "sha512" -> Sha2Final64(ctx)
              [] alg = "md5" -> Md5Final(ctx)
              [] alg \in {"blake2b", "blake2_keyed"} -> Blake2bFinal(ctx)
              [] alg = "blake2s" -> Blake2sFinal(ctx)
              [] alg = "sha3" -> x.c
              [] alg = "shake" -> ShakeFinal(ctx)
              [] alg = "poly1305" -> PolyFinal(ctx)
              [] alg = "blake3" -> ctx
  /\ out' = CASE alg = "blake3" -> Blake3Final(ctx) [] alg = "sha3" -> x.bytes [] OTHER -> out
  /\ UNCHANGED <<alg, length, todo>>

Squeeze ==
  \E n \in 1..MaxOut :
    LET x == KeccakSqueeze(ctx, 0, n) IN
    /\ phase = "squeezing" /\ Len(out) + n <= MaxOut
    /\ AnyCut \/ out = <<>> \/ ctx.left > 0
    /\ ctx' = x.c /\ out' = out \o x.bytes
    /\ UNCHANGED <<alg, length, phase, todo>>

Next == Update \/ UpdateBlake3 \/ TurnBlake3 \/ Final \/ Squeeze

Spec == Init /\ [][Next]_vars

-----------------------------------------------------------------------------
\* What the message, whole, calls for: its blocks after padding.
Blocks(bytes) ==
  [i \in 1..(Len(bytes) \div Rate) |-> SubSeq(bytes, (i - 1) * Rate + 1, i * Rate)]

PaddedMd(len) ==
  LET marked == Append(Message(0, length), "0x80")
      n == CHOOSE n \in 0..(Rate - 1) : (length + 1 + n + LenBytes) % Rate = 0
  IN Blocks(marked \o Zeros(n) \o LengthField(len))

PaddedBlake2(key) ==
  LET bytes == key \o Message(0, length)
      n == Max({1, (Len(bytes) + Rate - 1) \div Rate})
  IN [i \in 1..n |-> [b |-> Blocks(Fill(bytes, n * Rate))[i],
                      t |-> Counted(Min({i * Rate, Len(bytes)})), f |-> i = n]]

PaddedKeccak ==
  LET n == length \div Rate + 1
      bytes == Fill(Append(Message(0, length), "delim"), n * Rate)
  IN Blocks([bytes EXCEPT ![n * Rate] = <<bytes[n * Rate], "0x80">>])

PaddedPoly ==
  LET n == (length + Rate - 1) \div Rate
      bytes == IF length % Rate = 0 THEN Message(0, length)
               ELSE Fill(Append(Message(0, length), "0x01"), n * Rate)
  IN Blocks(bytes)

\* The leaves under a subtree, left to right.
RECURSIVE Leaves(_)
Leaves(cv) == IF "left" \in DOMAIN cv THEN Leaves(cv.left) \o Leaves(cv.right) ELSE <<cv.chunk>>

LeafBytes(cv) == FlattenSeq([i \in DOMAIN cv |-> SubSeq(cv[i].b, 1, cv[i].n)])

\* However a message is cut into pieces, the blocks that are compressed, with
\* their counters and last-block flags, are those of the whole message padded
\* once: none is lost, repeated or compressed too early, a length that leaves no
\* room for the length field gets one block more, the two-word counters carry,
\* and the tree of BLAKE3 has the chunks of the message as its leaves in order.
DigestExact ==
  phase # "absorbing" =>
    CASE alg \in {"sha256", "md5"} -> ctx.done = PaddedMd(length)
      [] alg = "sha512" -> ctx.done = PaddedMd(Counted(length))
      [] alg \in {"blake2b", "blake2s"} -> ctx.done = PaddedBlake2(<<>>)
      [] alg = "blake2_keyed" -> ctx.done = PaddedBlake2(Fill(<<"key">>, Rate))
      [] alg \in {"sha3", "shake"} -> ctx.done = PaddedKeccak
      [] alg = "poly1305" -> ctx.done = PaddedPoly
      [] alg = "blake3" ->
           LET leaves == Leaves(out) IN
           /\ FlattenSeq([i \in DOMAIN leaves |-> LeafBytes(leaves[i])]) = Message(0, length)
           /\ \A i \in DOMAIN leaves : \A j \in DOMAIN leaves[i] : leaves[i][j].counter = i - 1

\* The output of the sponge is the same however it is squeezed out.
OutputExact ==
  alg \in {"sha3", "shake"} =>
    \A i \in DOMAIN out : out[i] = <<(i - 1) \div Rate, ((i - 1) % Rate) + 1>>

\* The subtrees on the stack of BLAKE3 are those of the binary digits of the
\* number of chunks.
SubtreesExact ==
  alg = "blake3" =>
    LET size(i) == Len(Leaves(ctx.stack[i])) IN
    /\ \A i \in DOMAIN ctx.stack : \E e \in 0..4 : size(i) = 2^e
    /\ \A i, j \in DOMAIN ctx.stack : i < j => size(i) > size(j)

\* Each turn of the loop of blake3_update uses up a byte, so that it ends: with
\* data left the chunk is not full.
TurnsMoveOn == todo > 0 => InChunk(ctx) < ChunkLen
=============================================================================
