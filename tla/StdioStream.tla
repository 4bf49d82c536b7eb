----------------------------- MODULE StdioStream -----------------------------
(***************************************************************************)
(* A program using one stream, beside the file it means to read and        *)
(* write: ref is that file, at the position in it, pushed the bytes given  *)
(* to ungetc.  The program keeps the rule of the C standard that a write   *)
(* follows a read only after a seek or the end of the file.  fread and     *)
(* fwrite are used on streams open one way only.                           *)
(***************************************************************************)
EXTENDS Stdio, SequencesExt

CONSTANTS Modes,      \* the modes given to fopen
          Buffering,  \* the modes given to setvbuf before any other call
          Files,      \* what the file may hold when it is opened
          Bytes,      \* the bytes written
          Answers,    \* how write(2) may answer
          MaxCalls

VARIABLES s, ref, at, pushed,
          reading,    \* the last call read, and no seek or end of file since
          right,      \* every call returned what the file ref calls for
          excused,    \* a flush in front of a seek, a switch or a close wrote only a part
          calls

vars == <<s, ref, at, pushed, reading, right, excused, calls>>

Init ==
  /\ \E m \in Modes, f \in Files, b \in Buffering :
       s = Setvbuf(b, Fopen(f, m), Bufsiz).s
  /\ ref = s.file /\ at = s.off
  /\ pushed = <<>> /\ calls = 0
  /\ reading = FALSE /\ right = TRUE /\ excused = FALSE

\* How write(2) may answer in a call that flushes; without bytes to flush it is
\* not asked.
Asked == IF s.wr /\ s.ptr > Data THEN Answers ELSE {Bufsiz}

Left(w) == IF s.wr THEN IF w < 0 THEN Len(Pending(s)) ELSE Len(Pending(s)) - Written(s, Pending(s), w) ELSE 0

Call(x, ok, lost) ==
  /\ calls' = calls + 1
  /\ s' = [x.s EXCEPT !.into = <<>>]
  /\ right' = (right /\ ok)
  /\ excused' = (excused \/ lost)

\* The n bytes the program is to read next, and the file after it has.
Upcoming(n) ==
  LET rest == pushed \o SubSeq(ref, at + 1, Len(ref)) IN SubSeq(rest, 1, Min({n, Len(rest)}))

Taken(n) ==
  /\ pushed' = SubSeq(pushed, Min({n, Len(pushed)}) + 1, Len(pushed))
  /\ at' = at + n - Min({n, Len(pushed)})
  /\ UNCHANGED ref

\* The file after the program wrote bytes.
Given(bytes) ==
  /\ ref' = Put(ref, at, bytes) /\ at' = at + Len(bytes)
  /\ reading' = FALSE
  /\ UNCHANGED pushed

Moved(to) == at' = to /\ pushed' = <<>> /\ reading' = FALSE /\ UNCHANGED ref

Get ==
  \E w \in Asked :
    s.access # "w" /\ \E x \in {Fgetc(s, w)} :
      LET failed == s.wr /\ Flush(s, w).r = EOF
          next == IF failed THEN <<>> ELSE Upcoming(1)
      IN /\ Call(x, x.r = IF next = <<>> THEN EOF ELSE next[1], Left(w) > 0 /\ ~failed)
         /\ Taken(Len(next)) /\ reading' = (IF failed THEN reading ELSE next # <<>>)

GetLine ==
  \E n \in 2..3 :
    s.access # "w" /\ \E x \in {Fgets(n, s, Bufsiz)} :
      LET next == Upcoming(n - 1)
          stops == {i \in DOMAIN next : next[i] = Newline}
          line == IF stops = {} THEN next ELSE SubSeq(next, 1, Min(stops))
      IN /\ Call(x, x.s.into = line, FALSE)
         /\ Taken(Len(line)) /\ reading' = (Len(line) = n - 1 \/ stops # {})

Read ==
  \E n \in 1..3 :
    s.access = "r" /\ \E x \in {Fread(n, s, Bufsiz)} :
      /\ Call(x, x.s.into = Upcoming(n), FALSE)
      /\ Taken(Len(Upcoming(n))) /\ reading' = (Len(Upcoming(n)) = n)

\* A byte the stream does not take is reported (with line buffering a byte that
\* is taken may be reported too).
Putc ==
  \E c \in Bytes, w \in Answers :
    s.access # "r" /\ ~reading /\ pushed = <<>> /\ \E x \in {Fputc(c, s, w)} :
      /\ Call(x, x.r = c \/ w < 0, x.r = EOF /\ s.mode = "_IOLBF")
      /\ IF x.r = EOF THEN UNCHANGED <<ref, at, pushed, reading>> ELSE Given(<<c>>)

WriteBlock ==
  \E bytes \in SeqOf(Bytes, 3) :
    s.access = "w" /\ bytes # <<>> /\ \E x \in {Fwrite(bytes, s, Bufsiz + 1)} :
      /\ Call(x, x.r = Len(bytes), FALSE)
      /\ Given(bytes)

\* Not directly after a write or fflush: _last_op still tells of the write and
\* the next read drops the byte.
Unget ==
  \E c \in Bytes, w \in Asked :
    s.access # "w" /\ s.op # 2 /\ at > Len(pushed) /\ \E x \in {Ungetc(c, s, w)} :
      LET failed == s.wr /\ Flush(s, w).r = EOF
      IN /\ Call(x, x.r = EOF => failed \/ Len(pushed) >= Ovr, Left(w) > 0 /\ ~failed)
         /\ pushed' = IF x.r = EOF THEN pushed ELSE <<c>> \o pushed
         /\ reading' = (reading \/ x.r # EOF)
         /\ UNCHANGED <<ref, at>>

Seek ==
  \E w \in Asked, k \in 0..2, whence \in {"SEEK_SET", "SEEK_CUR", "SEEK_END"} :
    LET offset == IF whence = "SEEK_SET" THEN k ELSE 0 - k
        to == CASE whence = "SEEK_SET" -> k
                [] whence = "SEEK_CUR" -> at - Len(pushed) - k
                [] OTHER -> Len(ref) - k
    IN ~s.append /\ \E x \in {Fseek(offset, whence, s, w)} :
           /\ Call(x, x.r < 0 => to < 0 \/ w < 0, Left(w) > 0 /\ w > 0)
           /\ IF x.r < 0 THEN UNCHANGED <<ref, at, pushed, reading>> ELSE Moved(to)

Back ==
  \E w \in Asked :
    /\ ~s.append
    /\ Call(Rewind(s, w), TRUE, Left(w) > 0)
    /\ Moved(0)

FlushAll ==
  \E w \in Asked : \E x \in {Fflush(s, w)} :
    /\ Call(x, x.r = EOF => w < 0, FALSE)
    /\ UNCHANGED <<ref, at, pushed, reading>>

Close ==
  \E w \in Asked : \E x \in {Fclose(s, w)} :
    /\ Call(x, x.r = EOF \/ x.s.file = ref, Left(w) > 0)
    /\ UNCHANGED <<ref, at, pushed, reading>>

\* The program goes on calling until it has closed the stream.
Next ==
  /\ s.open /\ ~excused /\ calls < MaxCalls
  /\ \/ Get \/ GetLine \/ Read \/ Putc \/ WriteBlock \/ Unget \/ Seek \/ Back
     \/ FlushAll \/ Close

Spec == Init /\ [][Next]_vars

-----------------------------------------------------------------------------
\* What is in the file, with what waits in the buffer, is what the program
\* wrote; the stream stands where the program is; every byte read was the next
\* one, and every byte refused was reported -- across full buffers, reloads,
\* pushed back bytes, seeks, the switches between reading and writing, short
\* writes and failing ones.  Excused is a part of the buffer left over by a
\* short or failing write in front of a seek, a rewind, a read or a close.
StreamExact ==
  ~excused =>
    /\ right
    /\ s.open =>
         /\ ref = IF s.wr THEN Put(s.file, IF s.append THEN Len(s.file) ELSE s.off, Pending(s)) ELSE s.file
         /\ Ftell(s) = at - Len(pushed)
         /\ s.ptr \in 0..End /\ s.ptr + s.cnt <= End
=============================================================================
