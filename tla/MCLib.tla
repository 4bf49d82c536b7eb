------------------------------- MODULE MCLib -------------------------------
(***************************************************************************)
(* The parts of the library that are checked for safety only, for TLC: the *)
(* bins of malloc; streams and the records kept in one; hashes; lists,     *)
(* tables and trees; calendar; multibyte text; patterns; and the tables    *)
(* behind semaphores, System V messages and shared memory.                 *)
(*                                                                         *)
(* Which part is looked at is chosen at the start.  The bins keep their    *)
(* own variables; the other parts never run together and share v1 .. v11,  *)
(* of which those a part does not need stay at 0.                          *)
(***************************************************************************)
EXTENDS JaclHeap

CONSTANTS t1, t2, t3, Nil, Private

VARIABLES kind, v1, v2, v3, v4, v5, v6, v7, v8, v9, v10, v11

Stream == INSTANCE StdioStream WITH Ovr <- 1, Bufsiz <- 2, Newline <- 9,
  Modes <- {"r", "w", "r+", "w+", "a"}, Buffering <- {"_IOFBF", "_IOLBF"},
  Files <- {<<1, 9, 2>>}, Bytes <- {5, 9}, Answers <- {1, 2, -1}, MaxCalls <- 4,
  s <- v1, ref <- v2, at <- v3, pushed <- v4, reading <- v5, right <- v6,
  excused <- v7, calls <- v8

Utmp == INSTANCE Utmpx WITH Ovr <- 1, Bufsiz <- 3, Newline <- 9, Ids <- {11, 12},
  Values <- {1, 2}, Stops <- FALSE, MaxUtmpCalls <- 6,
  fp <- v1, records <- v2, told <- v3, used <- v4

Hash == INSTANCE HashStream WITH
  Algorithms <- {"sha256", "md5", "sha512", "blake2b", "blake2s", "blake2_keyed",
                 "sha3", "shake", "poly1305", "blake3"},
  Rate <- 4, LenBytes <- 2, Word <- 8, Chunk <- 2, Digest <- 3,
  MaxPiece <- 10, MaxMessage <- 18, MaxOut <- 9, AnyCut <- FALSE,
  alg <- v1, ctx <- v2, length <- v3, phase <- v4, out <- v5, todo <- v6

Srch == INSTANCE Search WITH Keys <- 1..4, Data <- {t1, t2}, Nodes <- 1..4, MaxCap <- 3,
  MaxCalls <- 5, using <- v1, list <- v2, cap <- v3, table <- v4, hash <- v5,
  tree <- v6, held <- v7, entries <- v8, members <- v9, right <- v10, calls <- v11

Js == INSTANCE JsTree WITH Nodes <- 1..4, Keys <- {"x", "y"}, Scalars <- {"null", "7"},
  MaxCalls <- 6, node <- v1, live <- v2, kids <- v3, calls <- v4

\* Both ends of months and years with and without a 29th of February.
Cal == INSTANCE Calendar WITH Threads <- {t1}, Seconds <- {0, 86399}, MaxCalls <- 1,
  Days <- {0, 1, 30, 31, 58, 59, 60, 89, 364, 365, 788, 789, 790, 1095, 1096,
           10956, 10957, 11015, 11016, 11017, 11322, 11323, 24855, 47481, 47482,
           47539, 47540, 47541, 47846, 47847},
  pc <- v1, op <- v2, when <- v3, static <- v4, text <- v5, result <- v6, back <- v7,
  calls <- v8

\* The last code point of each length in bytes, and the first of the next.
Mb == INSTANCE Multibyte WITH
  Texts <- [1..2 -> {127, 128, 2047, 2048, 65535, 65536, 1114111}], MaxPiece <- 5,
  text <- v1, bytes <- v2, wread <- v3, wide <- v4, bread <- v5, units <- v6,
  cread <- v7, pending <- v8, again <- v9, uread <- v10, high <- v11

-----------------------------------------------------------------------------
\* Patterns as matchcomp builds them: two or three pieces, among them groups,
\* repetitions, alternatives, look-ahead and back references.
Ch(x) == [type |-> "CHAR", chars |-> {x}]
Dot == [type |-> "ANY", chars |-> {"a", "b"}]
Bol == [type |-> "BOL"]
Eol == [type |-> "EOL"]
Back == [type |-> "BACKREF", id |-> 1]
Rep(n, least, most, lazy) == [type |-> "REP", a |-> n, min |-> least, max |-> most, lazy |-> lazy]
Group(n) == [type |-> "CAP", id |-> 1, a |-> n]
Both(x, y) == [type |-> "SEQ", a |-> x, b |-> y]
Either(x, y) == [type |-> "ALT", a |-> x, b |-> y]

Atoms == {Ch("a"), Ch("b"), Dot}
Bodies == Atoms \cup {Group(n) : n \in Atoms \cup {Either(x, y) : x, y \in Atoms}
                                            \cup {Both(x, y) : x, y \in Atoms}}
Pieces ==
  Bodies
    \cup {Rep(n, r[1], r[2], r[3]) : n \in Bodies,
            r \in {<<0, 255, FALSE>>, <<1, 2, FALSE>>, <<0, 1, TRUE>>}}
    \cup {[type |-> "LOOK", neg |-> b, a |-> n] : n \in Atoms, b \in BOOLEAN}
    \cup {Back, Bol, Eol}
Regexes ==
  {Both(x, y) : x \in Pieces, y \in {Ch("a"), Ch("b"), Eol, Back, Rep(Dot, 0, 255, FALSE)}}
    \cup {Either(Both(x, y), z) : x \in Bodies, y, z \in {Ch("a"), Ch("b")}}
    \cup {Both(Both(Ch("a"), x), y) : x \in Pieces, y \in {Ch("b"), Eol}}

Words(chars, n) == UNION {[1..k -> chars] : k \in 0..n}

Rx == INSTANCE Match WITH Patterns <- Regexes, Subjects <- Words({"a", "b"}, 3),
  Groups <- {1}, MaxDepth <- 20, MaxRep <- 3,
  pattern <- v1, subject <- v2, ctx <- v3, start <- v4, span <- v5

Fn == INSTANCE Fnmatch WITH Patterns <- Words({"a", "*", "?", "\\", "/", "[]", "[!]"}, 3),
  Names <- Words({"a", "b", "/", "*"}, 3), Listed <- {"a", "/"},
  FlagSets <- {{}, {"PATHNAME"}, {"NOESCAPE"}},
  pattern <- v1, name <- v2, flags <- v3, answer <- v4

-----------------------------------------------------------------------------
Sem == INSTANCE PosixSem WITH Threads <- {t1, t2, t3}, Initial <- 1, Modulus <- 4,
  MaxPosts <- 4,
  value <- v1, ncnt <- v2, pc <- v3, op <- v4, posts <- v5, taken <- v6

Tables == INSTANCE SemRegistry WITH Threads <- {t1, t2}, Slots <- 0..2, NamedMax <- 2,
  SetMax <- 2, Names <- {"a", "b"}, Keys <- {7}, Sizes <- {1, 2}, MaxCalls <- 5,
  TwoRemovers <- FALSE,
  active <- v1, named <- v2, semsets <- v3, anon <- v4, handles <- v5, pc <- v6,
  arg <- v7, calls <- v8

Msg == INSTANCE SysvMsg WITH Queues <- 1..2, Keys <- {5}, Nodes <- 1..3, Types <- {1, 2},
  Sizes <- 0..2, QBytes <- {1, 3}, MaxCalls <- 5,
  reg <- v1, next_id <- v2, node <- v3, sent <- v4, calls <- v5

Seg == INSTANCE Shm WITH Procs <- {t1, t2}, SegMax <- 2, Keys <- {5}, Sizes <- {2},
  MaxFiles <- 2, MaxRemoves <- 1, MaxAttach <- 2,
  seg <- v1, path <- v2, size <- v3, files <- v4, pc <- v5, key <- v6, want <- v7,
  flags <- v8, fd <- v9, removes <- v10, attached <- v11

-----------------------------------------------------------------------------
\* The variables a part that needs n of them leaves alone.
Spare(n) ==
  /\ n < 5 => v5 = 0
  /\ n < 6 => v6 = 0
  /\ n < 7 => v7 = 0
  /\ n < 8 => v8 = 0
  /\ n < 11 => v9 = 0 /\ v10 = 0 /\ v11 = 0

shared == <<v1, v2, v3, v4, v5, v6, v7, v8, v9, v10, v11>>
all == <<vars, shared, kind>>

MCInit ==
  /\ Init
  /\ \/ kind = "heap" /\ v1 = 0 /\ v2 = 0 /\ v3 = 0 /\ v4 = 0 /\ Spare(4)
     \/ kind = "stream" /\ Stream!Init /\ Spare(8)
     \/ kind = "utmpx" /\ Utmp!UInit /\ Spare(4)
     \/ kind = "hash" /\ Hash!Init /\ Spare(6)
     \/ kind = "search" /\ Srch!Init
     \/ kind = "js" /\ Js!Init /\ Spare(4)
     \/ kind = "calendar" /\ Cal!Init /\ Spare(8)
     \/ kind = "multibyte" /\ Mb!Init
     \/ kind = "match" /\ Rx!Init /\ Spare(5)
     \/ kind = "fnmatch" /\ Fn!Init /\ Spare(4)
     \/ kind = "sem" /\ Sem!Init /\ Spare(6)
     \/ kind = "tables" /\ Tables!Init /\ Spare(8)
     \/ kind = "msg" /\ Msg!Init /\ Spare(5)
     \/ kind = "shm" /\ Seg!Init

\* What a step of a part that needs n of the variables leaves alone.
Keep(n) ==
  /\ UNCHANGED <<vars, kind>>
  /\ n < 5 => UNCHANGED v5
  /\ n < 6 => UNCHANGED v6
  /\ n < 7 => UNCHANGED v7
  /\ n < 8 => UNCHANGED v8
  /\ n < 11 => UNCHANGED <<v9, v10, v11>>

MCNext ==
  \/ kind = "heap" /\ Next /\ UNCHANGED <<shared, kind>>
  \/ kind = "stream" /\ Stream!Next /\ Keep(8)
  \/ kind = "utmpx" /\ Utmp!UNext /\ Keep(4)
  \/ kind = "hash" /\ Hash!Next /\ Keep(6)
  \/ kind = "search" /\ Srch!Next /\ Keep(11)
  \/ kind = "js" /\ Js!Next /\ Keep(4)
  \/ kind = "calendar" /\ Cal!Next /\ Keep(8)
  \/ kind = "multibyte" /\ Mb!Next /\ Keep(11)
  \/ kind = "match" /\ Rx!Next /\ Keep(5)
  \/ kind = "fnmatch" /\ Fn!Next /\ Keep(4)
  \/ kind = "sem" /\ Sem!Next /\ Keep(6)
  \/ kind = "tables" /\ Tables!Next /\ Keep(8)
  \/ kind = "msg" /\ Msg!Next /\ Keep(5)
  \/ kind = "shm" /\ Seg!Next /\ Keep(11)

MCSpec == MCInit /\ [][MCNext]_all

-----------------------------------------------------------------------------
\* Every byte of a bin belongs to one block that is live, free or recycled.
BinsAccounted == kind = "heap" => HeapAccounted

\* What a program reads from a stream is what it wrote there, or what the file
\* held, whatever the buffer and the answers of write(2).
StreamExact == kind = "stream" => Stream!StreamExact

\* pututxline keeps one record for each ut_id, the latest, and getutxid and
\* getutxline find the first that matches.
RecordsExact == kind = "utmpx" => Utmp!RecordsExact

\* The digest of a message does not depend on how it was cut into pieces.
DigestExact ==
  kind = "hash" => /\ Hash!DigestExact /\ Hash!OutputExact
                   /\ Hash!SubtreesExact /\ Hash!TurnsMoveOn

\* lsearch, hsearch, tsearch, tfind and tdelete find exactly what is there.
SearchExact == kind = "search" => Srch!SearchExact

\* The links of the nodes of a document agree with the calls that made it, its
\* text parses to the same document, and the path of a node leads to it.
JsTreeExact == kind = "js" => Js!LinksExact /\ Js!RoundTrips

\* A time is converted to the right date and text, and back.
DatesExact == kind = "calendar" => Cal!DatesExact

\* A text converted in pieces and back is the same text.
TextSurvives == kind = "multibyte" => Mb!TextSurvives

\* matchexec reports only spans and groups that the pattern allows.
MatchSound == kind = "match" => Rx!MatchSound

\* fnmatch answers what the pattern means; with FNM_PATHNAME it accepts nothing
\* else.
FnmatchExact == kind = "fnmatch" => Fn!FnmatchExact

\* No wait on a POSIX semaphore takes what was not posted; every slot has one
\* owner, and an open named semaphore keeps its slot when it is unlinked.
SemSound ==
  /\ kind = "sem" => Sem!NeverOvertaken
  /\ kind = "tables" => Tables!OneOwner /\ Tables!NamedLives

\* The list of a System V queue holds the messages sent and not yet received,
\* in order, with its counters right; no two queues have the same key.
MsgSound == kind = "msg" => Msg!ListsSound /\ Msg!OneQueuePerKey

\* A segment stays mapped for as long as a process is attached to it, and
\* processes that share a key share the memory.
ShmSound == kind = "shm" => Seg!AttachedMapped /\ Seg!KeyShared
=============================================================================
