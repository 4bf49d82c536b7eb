-------------------------------- MODULE Utmpx --------------------------------
(***************************************************************************)
(* The user accounting database of include/utmpx.h, on a stream of         *)
(* include/stdio.h opened with "r+b".  A record is the two bytes           *)
(* <<ut_id, ut_line>> of a USER_PROCESS, so that records do not divide the *)
(* buffer evenly.                                                          *)
(***************************************************************************)
EXTENDS Stdio

CONSTANTS Ids, Values,
          Stops,        \* whether a program may stop reading before the last record
          MaxUtmpCalls

VARIABLES fp,           \* __utmpx_fp; fp.open is FALSE for NULL
          records,      \* ghost: the records put, the latest of each ut_id
          told,         \* ghost: every answer was right
          used

uvars == <<fp, records, told, used>>
RecordSize == 2
Full == Bufsiz + RecordSize  \* what write(2) takes at most: all it is given

UInit ==
  /\ fp = [Fopen(<<>>, "w") EXCEPT !.open = FALSE]
  /\ records = <<>> /\ told = TRUE /\ used = 0

\* setutxent: start over, or open (and create) the file.
Setutxent(s) ==
  IF s.open THEN Rewind([Fflush(s, Full).s EXCEPT !.eof = FALSE, !.err = FALSE], Full).s
  ELSE Fopen(s.file, "r+")

\* getutxent: the next record in s.into, or none.
Getutxent(s) == Fread(RecordSize, IF s.open THEN s ELSE Setutxent(s), Full)

\* The records of a file.
Rec(bytes, n) == SubSeq(bytes, n * RecordSize - 1, n * RecordSize)

\* Read on to the record with v in field i; x is the answer of getutxent.
RECURSIVE Find(_, _, _)
Find(i, v, x) ==
  IF x.r < RecordSize \/ x.s.into[i] = v THEN x ELSE Find(i, v, Getutxent(x.s))

Getutxid(id, s) == Find(1, id, Getutxent(Setutxent(s)))

Getutxline(line, s) == Find(2, line, Getutxent(Setutxent(s)))

\* Mutant: the new record is written where the last scan ended.
MutPlace(s, found, idx) == s.off

Place(s, found, idx) == IF found THEN idx * RecordSize ELSE Fseek(0, "SEEK_END", s, Full).s.off

\* Read on to the record with the id, counting; x is the answer of fread.
RECURSIVE Scan(_, _, _)
Scan(id, x, idx) ==
  IF x.r < RecordSize THEN [s |-> x.s, found |-> FALSE, idx |-> idx]
  ELSE IF x.s.into[1] = id THEN [s |-> x.s, found |-> TRUE, idx |-> idx]
  ELSE Scan(id, Fread(RecordSize, x.s, Full), idx + 1)

\* The stream at the start of the file, opened if need be.
Begun(s) == Rewind(IF s.open THEN s ELSE Setutxent(s), Full).s

\* pututxline: scan from the start; write(2) over the record with the id, or
\* behind the last one, past the stream, and forget the buffer.
PutAt(rec, x) ==
  LET t == IF x.found THEN x.s ELSE Fseek(0, "SEEK_END", x.s, Full).s
      u == [t EXCEPT !.off = Place(x.s, x.found, x.idx)]
  IN [BufReset(Write(u, rec, RecordSize)) EXCEPT !.eof = FALSE, !.op = 0]

Pututxline(rec, s) == PutAt(rec, Scan(rec[1], Fread(RecordSize, Begun(s), Full), 0))

-----------------------------------------------------------------------------
Use(s) == used < MaxUtmpCalls /\ used' = used + 1 /\ fp' = [s EXCEPT !.into = <<>>]

Restart == Use(Setutxent(fp)) /\ UNCHANGED <<records, told>>

\* endutxent.
Finish == fp.open /\ Use(Fclose(fp, Full).s) /\ UNCHANGED <<records, told>>

\* A program reads one record, or all that are left.
RECURSIVE ReadOut(_)
ReadOut(x) == IF x.r < RecordSize THEN x.s ELSE ReadOut(Getutxent(x.s))

Known(x) == x.r < RecordSize \/ \E i \in DOMAIN records : records[i] = x.s.into

ReadNext ==
  \E x \in {Getutxent(fp)} :
    /\ Use(IF Stops THEN x.s ELSE ReadOut(Getutxent(x.s)))
    /\ told' = (told /\ Known(x))
    /\ UNCHANGED records

\* x is the answer to a search for v in field i: the first record with it.
First(x, i, v) ==
  LET with == {k \in DOMAIN records : records[k][i] = v} IN
  IF x.r < RecordSize THEN with = {} ELSE with # {} /\ x.s.into = records[Min(with)]

LookupId ==
  \E id \in Ids : \E x \in {Getutxid(id, fp)} :
    /\ Use(IF Stops THEN x.s ELSE ReadOut(Getutxent(x.s)))
    /\ told' = (told /\ First(x, 1, id))
    /\ UNCHANGED records

LookupLine ==
  \E v \in Values : \E x \in {Getutxline(v, fp)} :
    /\ Use(IF Stops THEN x.s ELSE ReadOut(Getutxent(x.s)))
    /\ told' = (told /\ First(x, 2, v))
    /\ UNCHANGED records

PutRecord ==
  \E id \in Ids, v \in Values :
    /\ Use(Pututxline(<<id, v>>, fp))
    /\ records' = IF \E i \in DOMAIN records : records[i][1] = id
                  THEN [i \in DOMAIN records |-> IF records[i][1] = id THEN <<id, v>> ELSE records[i]]
                  ELSE Append(records, <<id, v>>)
    /\ UNCHANGED told

UNext == Restart \/ Finish \/ ReadNext \/ LookupId \/ LookupLine \/ PutRecord

USpec == UInit /\ [][UNext]_uvars

-----------------------------------------------------------------------------
\* The file holds each record that was put once, its latest value, and nothing
\* else; getutxent returns records of it, and getutxid and getutxline the first
\* record that matches, and none when there is none.
RecordsExact ==
  /\ Len(fp.file) = RecordSize * Len(records)
  /\ \A i \in DOMAIN records : Rec(fp.file, i) = records[i]
  /\ told
=============================================================================
