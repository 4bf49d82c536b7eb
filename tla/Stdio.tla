-------------------------------- MODULE Stdio --------------------------------
(***************************************************************************)
(* The streams of include/stdio.h on a file descriptor.  A stream is a     *)
(* record: the FILE (flags, buffer, _ptr, _cnt, _last_op) together with    *)
(* the file it is open on and the descriptor's offset, which are external. *)
(* Each function of the library maps a stream to [s |-> the stream         *)
(* afterwards, r |-> what it returns]; w is how write(2) answers during    *)
(* the call: the number of bytes it takes at most, or -1 for an error.     *)
(***************************************************************************)
EXTENDS Integers, Sequences, FiniteSetsExt

CONSTANTS Ovr,      \* OVRSIZ, the pushback area in front of the buffer
          Bufsiz,   \* BUFSIZ
          Newline   \* the byte '\n'

EOF == -1
Zero == 0
Return(s, r) == [s |-> s, r |-> r]

\* File contents after data was written at offset at (external).
Put(file, at, data) ==
  IF data = <<>> THEN file ELSE
  [i \in 1..Max({Len(file), at + Len(data)}) |->
     IF i > at /\ i <= at + Len(data) THEN data[i - at]
     ELSE IF i <= Len(file) THEN file[i] ELSE Zero]

\* write(2) and read(2) on the descriptor (external).
Written(s, data, w) == Min({w, Len(data)})

Write(s, data, w) ==
  LET at == IF s.append THEN Len(s.file) ELSE s.off
      n == Written(s, data, w)
  IN [s EXCEPT !.file = Put(@, at, SubSeq(data, 1, n)), !.off = at + n]

Readable(s, n) == SubSeq(s.file, s.off + 1, Min({s.off + n, Len(s.file)}))

-----------------------------------------------------------------------------
\* __JACL_BUF_DATA, the end of the buffer, __JACL_BUF_RESET.
Data == Ovr
End == Ovr + Bufsiz
BufReset(s) == [s EXCEPT !.cnt = 0, !.ptr = Data]
Pending(s) == [i \in 1..(s.ptr - Data) |-> s.buf[Data + i - 1]]

\* __jacl_flush_partial: what write did not take moves to the front.
\* Mutant: it is forgotten.
MutFlushPartial(s, n) == BufReset(s)

FlushPartial(s, n) ==
  LET rest == s.ptr - Data - n IN
  [s EXCEPT !.buf = [i \in DOMAIN @ |-> IF i \in Data..(Data + rest - 1) THEN @[i + n] ELSE @[i]],
            !.ptr = Data + rest]

\* __jacl_buffer_flush and __jacl_flush_fd.
Flush(s, w) ==
  IF ~s.wr \/ s.ptr = Data THEN Return(s, 0)
  ELSE IF w < 0 \/ s.access = "r" THEN Return([s EXCEPT !.err = TRUE], EOF)
  ELSE LET n == Written(s, Pending(s), w)
           t == FlushPartial(Write(s, Pending(s), w), n)
       IN Return([t EXCEPT !.op = 2], 0)

\* __jacl_buffer_reload: read(2) fills the buffer.
Reload(s) ==
  LET t == BufReset(s)
      bytes == Readable(s, Bufsiz)
  IN IF ~s.rd THEN Return(s, EOF)
     ELSE IF s.access = "w" THEN Return([t EXCEPT !.err = TRUE], EOF)
     ELSE IF bytes = <<>> THEN Return([t EXCEPT !.eof = TRUE], EOF)
     ELSE Return([t EXCEPT !.buf = [i \in DOMAIN @ |->
                                      IF i \in Data..(Data + Len(bytes) - 1) THEN bytes[i - Data + 1] ELSE @[i]],
                           !.off = @ + Len(bytes), !.cnt = Len(bytes) - 1,
                           !.ptr = Data + 1, !.op = 1], bytes[1])

\* __jacl_buffer_input and __jacl_buffer_output.
Input(s, w) ==
  LET t == IF s.op = 2 THEN BufReset(Flush(s, w).s) ELSE s IN
  IF ~s.rd THEN Return(s, EOF)
  ELSE IF t.cnt > 0 THEN Return([t EXCEPT !.cnt = @ - 1, !.ptr = @ + 1], t.buf[t.ptr])
  ELSE Reload(t)

Output(s, w) ==
  IF /\ s.wr
     /\ \/ s.mode = "_IONBF" \/ s.ptr >= End
        \/ s.mode = "_IOLBF" /\ s.ptr > Data /\ s.buf[s.ptr - 1] = Newline
  THEN Flush(s, w) ELSE Return(s, 0)

\* __jacl_switch_to_read, with -1 when the flush fails, and
\* __jacl_switch_to_write.
SwitchToRead(s, w) ==
  LET t == Flush(s, w) IN
  IF ~s.wr THEN Return(s, 0)
  ELSE IF t.r = EOF THEN Return(t.s, -1)
  ELSE Return(BufReset([t.s EXCEPT !.wr = FALSE, !.rd = TRUE]), 0)

SwitchToWrite(s) == IF s.rd /\ ~s.wr THEN BufReset([s EXCEPT !.rd = FALSE, !.wr = TRUE]) ELSE s

-----------------------------------------------------------------------------
\* fgetc.
Fgetc(s, w) ==
  LET t == SwitchToRead(s, w) IN IF t.r < 0 THEN Return(t.s, EOF) ELSE Input(t.s, w)

\* fputc: unbuffered it writes at once; otherwise a full buffer is flushed
\* before the byte and a line after it.
Fputc(c, s, w) ==
  LET t == SwitchToWrite(s)
      u == IF t.op = 1 THEN BufReset(t) ELSE t
      room == IF u.ptr >= End THEN Output(u, w) ELSE Return(u, 0)
      v == [room.s EXCEPT !.buf[room.s.ptr] = c, !.ptr = @ + 1, !.op = 2]
      line == IF v.mode = "_IOLBF" /\ c = Newline THEN Output(v, w) ELSE Return(v, 0)
  IN IF ~t.wr THEN Return(t, EOF)
     ELSE IF u.mode = "_IONBF"
     THEN IF w < 0 THEN Return([u EXCEPT !.err = TRUE], EOF)
          ELSE Return([Write(u, <<c>>, 1) EXCEPT !.op = 2], c)
     ELSE IF room.r = EOF THEN Return(room.s, EOF)
     ELSE Return(line.s, IF line.r = EOF THEN EOF ELSE c)

\* fgets of at most n - 1 bytes: the line goes to s.into.
RECURSIVE FgetsLoop(_, _, _)
FgetsLoop(s, n, w) ==
  LET c == Fgetc(s, w)
      t == [c.s EXCEPT !.into = Append(@, c.r)]
  IN IF n <= 1 THEN s
     ELSE IF c.r = EOF THEN c.s
     ELSE IF c.r = Newline THEN t ELSE FgetsLoop(t, n - 1, w)

Fgets(n, s, w) ==
  LET t == FgetsLoop([s EXCEPT !.into = <<>>], n, w) IN Return(t, Len(t.into))

\* fread of n bytes: the number returned, with the bytes in s.into.
RECURSIVE FreadLoop(_, _, _)
FreadLoop(s, n, w) ==
  LET k == Min({s.cnt, n})
      c == Input(s, w)
  IN IF n = 0 THEN s
     ELSE IF s.cnt > 0
     THEN FreadLoop([s EXCEPT !.into = @ \o [i \in 1..k |-> s.buf[s.ptr + i - 1]],
                              !.ptr = @ + k, !.cnt = @ - k], n - k, w)
     ELSE IF c.r = EOF THEN c.s
     ELSE FreadLoop([c.s EXCEPT !.into = Append(@, c.r)], n - 1, w)

Fread(n, s, w) ==
  LET t == FreadLoop([s EXCEPT !.into = <<>>], n, w) IN Return(t, Len(t.into))

\* fwrite of the bytes: how many went into the buffer or, unbuffered, out.
\* After a flush the code takes the whole buffer to be free.
RECURSIVE FwriteLoop(_, _, _, _)
FwriteLoop(s, bytes, done, w) ==
  LET out == IF s.ptr = End THEN Output(s, w) ELSE Return(s, 0)
      room == IF s.ptr = End THEN Bufsiz ELSE End - s.ptr
      k == Min({room, Len(bytes) - done})
      t == [out.s EXCEPT !.buf = [i \in DOMAIN @ |->
                                    IF i \in out.s.ptr..(out.s.ptr + k - 1) THEN bytes[done + i - out.s.ptr + 1] ELSE @[i]],
                         !.ptr = @ + k]
  IN IF done = Len(bytes) THEN Return(s, done)
     ELSE IF out.r = EOF THEN Return(out.s, done)
     ELSE FwriteLoop(t, bytes, done + k, w)

Fwrite(bytes, s, w) ==
  LET t == FwriteLoop(s, bytes, 0, w)
      line == s.mode = "_IOLBF" /\ \E i \in 1..t.r : bytes[i] = Newline
  IN IF s.mode = "_IONBF"
     THEN IF w < 0 THEN Return([s EXCEPT !.err = TRUE], 0)
          ELSE Return(Write(s, bytes, w), Written(s, bytes, w))
     ELSE Return(IF line THEN Output(t.s, w).s ELSE t.s, t.r)

\* ungetc: the byte goes in front of _ptr, as far as OVRSIZ reaches.
Ungetc(c, s, w) ==
  LET t == SwitchToRead(s, w) IN
  IF t.r < 0 \/ t.s.ptr = 0 THEN Return(t.s, EOF)
  ELSE Return([t.s EXCEPT !.ptr = @ - 1, !.buf[t.s.ptr - 1] = c, !.cnt = @ + 1, !.eof = FALSE], c)

\* fseek: flush, lseek (an offset in front of the file is an error), forget
\* the buffer.
\* Mutant: bytes read ahead are not taken off a relative offset.
MutAhead(s) == 0
Ahead(s) == IF s.rd THEN s.cnt ELSE 0

Fseek(offset, whence, s, w) ==
  LET t == Flush(s, w)
      to == CASE whence = "SEEK_SET" -> offset
              [] whence = "SEEK_CUR" -> t.s.off + offset - Ahead(t.s)
              [] OTHER -> Len(t.s.file) + offset
  IN IF t.r = EOF \/ to < 0 THEN Return(t.s, -1)
     ELSE Return([BufReset(t.s) EXCEPT !.off = to, !.eof = FALSE, !.op = 0], 0)

Ftell(s) == s.off + IF s.wr THEN s.ptr - Data ELSE IF s.rd THEN 0 - s.cnt ELSE 0

\* rewind: a flush of its own, then fseek and clearerr.
Rewind(s, w) ==
  LET t == Flush(s, w).s
      u == Fseek(0, "SEEK_SET", IF s.rd THEN BufReset(t) ELSE t, w).s
  IN Return([u EXCEPT !.eof = FALSE, !.err = FALSE], 0)

\* fflush, and fclose (the file is what is left of the stream).
Fflush(s, w) == Flush(s, w)
Fclose(s, w) == LET t == Flush(s, w) IN Return([t.s EXCEPT !.open = FALSE], t.r)

\* setvbuf with a null buffer and the default size: what a write stream holds
\* goes out only if the rules of the old mode say so, and the rest is dropped.
Setvbuf(mode, s, w) ==
  Return([BufReset(Output(s, w).s) EXCEPT !.mode = mode, !.eof = FALSE, !.err = FALSE], 0)

\* fopen by mode; the static and tmpfile streams are the same with other flags.
Fopen(file, mode) ==
  LET r == mode \in {"r", "r+"}
      plus == mode \in {"r+", "w+", "a+"}
      f == IF mode \in {"w", "w+"} THEN <<>> ELSE file
      end == IF mode \in {"a", "a+"} THEN Len(f) ELSE 0
  IN [open |-> TRUE, file |-> f, off |-> end, append |-> mode \in {"a", "a+"},
      access |-> IF plus THEN "rw" ELSE IF r THEN "r" ELSE "w",
      rd |-> plus \/ r, wr |-> plus \/ ~r, eof |-> FALSE, err |-> FALSE, op |-> 0, mode |-> "_IOFBF",
      buf |-> [i \in 0..(End - 1) |-> Zero], ptr |-> Data, cnt |-> 0, into |-> <<>>]
=============================================================================
