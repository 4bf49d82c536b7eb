------------------------------ MODULE Calendar ------------------------------
(***************************************************************************)
(* <time.h>: from seconds to a date and back.  gmtime fills one static     *)
(* struct tm and asctime one static buffer; gmtime_r, localtime_r,         *)
(* asctime_r and ctime_r call those and then copy, so that the steps of    *)
(* two threads in them interleave.  A time_t is the pair of its quotient   *)
(* and its remainder by 86400, which is what the code makes of it; the     *)
(* text of asctime is the fields it prints.                                *)
(***************************************************************************)
EXTENDS Integers, FiniteSets, SequencesExt

CONSTANTS
    Threads,
    Days,       \* days since 1970-01-01 that are converted
    Seconds,    \* seconds of the day
    MaxCalls    \* bound: calls per thread

VARIABLES
    pc,         \* where each thread is in its call
    op,         \* the function it called
    when,       \* its argument: [day, sec]
    static,     \* __jacl_static_tm
    text,       \* __jacl_time_buf
    result,     \* the caller's own struct tm or buffer
    back,       \* what mktime made of it
    calls

vars == <<pc, op, when, static, text, result, back, calls>>

---------------------------------------------------------------------------
\* Mutant: 2000 is not a leap year.
MutLeap(y) == y % 4 = 0 /\ y % 100 # 0

is_leap_year(y) == (y % 4 = 0 /\ y % 100 # 0) \/ y % 400 = 0

days_in_month(m, y) ==
    IF m = 1 /\ is_leap_year(y) THEN 29
    ELSE <<31, 28, 31, 30, 31, 30, 31, 31, 30, 31, 30, 31>>[m + 1]

days_in_year(y) == IF is_leap_year(y) THEN 366 ELSE 365

\* The sums mktime's loops make ...
DaysTo(year, month) ==
    365 * (year - 1970) + Cardinality({y \in 1970 .. year - 1 : is_leap_year(y)})
    + FoldLeft(LAMBDA n, m : n + days_in_month(m, year), 0, [i \in 1 .. month |-> i - 1])

\* ... and the year and the month at which gmtime's loops stop, each with what
\* is left of the days.
YearLoop(days) ==
    LET y == CHOOSE y \in 1970 .. 1970 + days \div 365 :
                days >= DaysTo(y, 0) /\ days - DaysTo(y, 0) < days_in_year(y)
    IN <<y, days - DaysTo(y, 0)>>

MonthLoop(days, year) ==
    LET before(m) == DaysTo(year, m) - DaysTo(year, 0)
        m == CHOOSE m \in 0 .. 11 :
                days >= before(m) /\ days - before(m) < days_in_month(m, year)
    IN <<m, days - before(m)>>

\* mktime and timegm: the time, and the fields it writes into the argument.
mktime(t) ==
    LET year == t.year + 1900
        days == DaysTo(year, t.mon) + t.mday - 1
        secs == t.hour * 3600 + t.min * 60 + t.sec
    IN IF year < 1970 \/ t.mon \notin 0 .. 11 \/ t.mday \notin 1 .. 31
       THEN [time |-> [day |-> 0, sec |-> -1], tm |-> t]
       ELSE [time |-> [day |-> days + secs \div 86400, sec |-> secs % 86400],
             tm |-> [t EXCEPT !.wday = (days + 4) % 7,
                              !.yday = DaysTo(year, t.mon) - DaysTo(year, 0) + t.mday - 1]]

---------------------------------------------------------------------------
NoTm == [hour |-> 0, min |-> 0, sec |-> 0, wday |-> 0, year |-> 0, yday |-> 0,
         mon |-> 0, mday |-> 0]
NoTime == [day |-> 0, sec |-> 0]

Goto(t, l) == pc' = [pc EXCEPT ![t] = l]

Start(t, f, time) ==
    /\ pc[t] = "idle" /\ calls[t] < MaxCalls
    /\ calls' = [calls EXCEPT ![t] = @ + 1]
    /\ op' = [op EXCEPT ![t] = f]
    /\ when' = [when EXCEPT ![t] = time]
    /\ Goto(t, "clock")
    /\ UNCHANGED <<static, text, result, back>>

\* gmtime's stores, in its order: the time of day and the weekday ...
FillClock(t) ==
    /\ pc[t] = "clock"
    /\ LET s == when[t].sec
       IN static' = [static EXCEPT !.hour = s \div 3600, !.min = (s % 3600) \div 60,
                                   !.sec = s % 60, !.wday = (when[t].day + 4) % 7]
    /\ Goto(t, "year")
    /\ UNCHANGED <<op, when, text, result, back, calls>>

\* ... the year and its day ...
FillYear(t) ==
    /\ pc[t] = "year"
    /\ LET yd == YearLoop(when[t].day)
       IN static' = [static EXCEPT !.year = yd[1] - 1900, !.yday = yd[2]]
    /\ Goto(t, "month")
    /\ UNCHANGED <<op, when, text, result, back, calls>>

\* ... and the month and its day, from locals.
FillMonth(t) ==
    /\ pc[t] = "month"
    /\ LET yd == YearLoop(when[t].day)
           md == MonthLoop(yd[2], yd[1])
       IN static' = [static EXCEPT !.mon = md[1], !.mday = md[2] + 1]
    /\ Goto(t, IF op[t] = "ctime_r" THEN "print" ELSE "copy")
    /\ UNCHANGED <<op, when, text, result, back, calls>>

\* gmtime_r and localtime_r copy the static struct; its owner may hand the
\* copy to mktime.
CopyTm(t) ==
    /\ pc[t] = "copy"
    /\ result' = [result EXCEPT ![t] = static]
    /\ Goto(t, "have")
    /\ UNCHANGED <<op, when, static, text, back, calls>>

Mktime(t) ==
    /\ pc[t] = "have" /\ op[t] # "ctime_r"
    /\ LET m == mktime(result[t])
       IN /\ back' = [back EXCEPT ![t] = m.time]
          /\ result' = [result EXCEPT ![t] = m.tm]
    /\ Goto(t, "made")
    /\ UNCHANGED <<op, when, static, text, calls>>

\* asctime prints the static struct into the static buffer, ctime_r copies it.
PrintText(t) ==
    /\ pc[t] = "print"
    /\ text' = static
    /\ Goto(t, "copytext")
    /\ UNCHANGED <<op, when, static, result, back, calls>>

CopyText(t) ==
    /\ pc[t] = "copytext"
    /\ result' = [result EXCEPT ![t] = text]
    /\ Goto(t, "have")
    /\ UNCHANGED <<op, when, static, text, back, calls>>

Return(t) ==
    /\ pc[t] \in {"have", "made"}
    /\ Goto(t, "idle")
    /\ UNCHANGED <<op, when, static, text, result, back, calls>>

Step(t) ==
    \/ FillClock(t) \/ FillYear(t) \/ FillMonth(t) \/ CopyTm(t)
    \/ Mktime(t) \/ PrintText(t) \/ CopyText(t) \/ Return(t)

Init ==
    /\ pc = [t \in Threads |-> "idle"]
    /\ op = [t \in Threads |-> "gmtime_r"]
    /\ when = [t \in Threads |-> NoTime]
    /\ static = NoTm /\ text = NoTm
    /\ result = [t \in Threads |-> NoTm]
    /\ back = [t \in Threads |-> NoTime]
    /\ calls = [t \in Threads |-> 0]

Next ==
    \E t \in Threads :
       \/ \E f \in {"gmtime_r", "ctime_r"}, d \in Days, s \in Seconds :
             Start(t, f, [day |-> d, sec |-> s])
       \/ Step(t)

Spec == Init /\ [][Next]_vars

---------------------------------------------------------------------------
\* The Gregorian calendar, without the code's loops: the days before a year,
\* and the one date that names a day.
Leaps(y) == (y - 1) \div 4 - (y - 1) \div 100 + (y - 1) \div 400
DaysBefore(y) == 365 * (y - 1970) + Leaps(y) - Leaps(1970)
MonthStart(m, leap) ==
    <<0, 31, 59, 90, 120, 151, 181, 212, 243, 273, 304, 334, 365>>[m + 1]
    + IF leap /\ m > 1 THEN 1 ELSE 0

IsDateOf(tm, day) ==
    LET y == tm.year + 1900
        leap == DaysBefore(y + 1) - DaysBefore(y) = 366
    IN /\ DaysBefore(y) <= day /\ day < DaysBefore(y + 1)
       /\ tm.yday = day - DaysBefore(y)
       /\ tm.mon \in 0 .. 11
       /\ MonthStart(tm.mon, leap) <= tm.yday /\ tm.yday < MonthStart(tm.mon + 1, leap)
       /\ tm.mday = tm.yday - MonthStart(tm.mon, leap) + 1
       /\ tm.wday = (day - 3) % 7        \* day 3 was a Sunday

\* What gmtime_r, localtime_r and ctime_r hand to their caller is the date and
\* the time of day of the argument, leap years and ends of months included,
\* and mktime turns it back into the argument without changing the weekday or
\* the day of the year.
DatesExact ==
    \A t \in Threads : pc[t] \in {"have", "made"} =>
       /\ IsDateOf(result[t], when[t].day)
       /\ result[t].hour * 3600 + result[t].min * 60 + result[t].sec = when[t].sec
       /\ pc[t] = "made" => back[t] = when[t]
=============================================================================
