------------------------------ MODULE CronNext -------------------------------
(***************************************************************************)
(* Schedules of rules (components/cron_parser): the fields of an           *)
(* expression, whether it matches a time, and the search for the next time *)
(* it does, which jumps over months, days, hours and minutes.              *)
(*                                                                         *)
(* The calendar is a small one: MinuteLen seconds to a minute, and so on;  *)
(* the second month has a day more every fourth year.  Local time has no   *)
(* gaps: what the library does when the clocks change is left out, and so  *)
(* are leap seconds.  A field is a star with a step, or a list of ranges.  *)
(***************************************************************************)
EXTENDS Integers, Sequences, SequencesExt, FiniteSetsExt

CONSTANTS
    MinuteLen, HourLen, DayLen, WeekLen,    \* seconds, minutes, hours, days
    MonthLen,                               \* a sequence: days of each month
    Fields                                  \* fields to write an expression with, by name

VARIABLES
    expr,       \* CronExpr: the values of each field, and which day fields are stars; or Refused
    asked,      \* the fields it was read from
    from, t,    \* from_t, and how far the search is
    answer      \* -1 while it searches; 0: no match; otherwise a time

vars == <<expr, asked, from, t, answer>>

Months  == DOMAIN MonthLen
Low     == [sec |-> 0, min |-> 0, hour |-> 0, day |-> 1, month |-> 1, wday |-> 0]
High    == [sec |-> MinuteLen - 1, min |-> HourLen - 1, hour |-> DayLen - 1,
            day |-> Max({MonthLen[m] : m \in Months}) + 1, month |-> Len(MonthLen), wday |-> WeekLen - 1]
Field   == DOMAIN Low
Refused == [sec |-> {}]

\* localtime_r: days and months from 1, years from 1, the fourth a leap year.
YearDays == FoldLeft(+, 0, MonthLen)
Leap(y)     == IF y % 4 = 0 THEN 1 ELSE 0
Before(y)   == (y - 1) * YearDays + (y - 1) \div 4
First(y, m) == Before(y) + FoldLeft(+, 0, SubSeq(MonthLen, 1, m - 1)) + (IF m > 2 THEN Leap(y) ELSE 0)
Date(d) ==
    LET y == Max({z \in 1 .. d \div YearDays + 1 : Before(z) <= d})
        m == Max({n \in Months : First(y, n) <= d})
    IN  [month |-> m, day |-> d - First(y, m) + 1]
DaySecs == MinuteLen * HourLen * DayLen
Day(u)  == u \div DaySecs
Tm(u)   ==
    LET date == Date(Day(u))
    IN  [sec |-> u % MinuteLen, min |-> (u \div MinuteLen) % HourLen, hour |-> (u \div (MinuteLen * HourLen)) % DayLen,
         day |-> date.day, month |-> date.month, wday |-> Day(u) % WeekLen]

-----------------------------------------------------------------------------
\* parse_field: {}, refused.

Clamped(step, k) == IF step > High[k] - Low[k] THEN High[k] - Low[k] + 1 ELSE step
By(step, lo, hi) == {v \in lo..hi : (v - lo) % step = 0}
parse_field(f, k) ==
    IF f.star THEN By(Clamped(f.step, k), Low[k], High[k])
    ELSE IF \E r \in f.ranges : r[1] < Low[k] \/ r[2] > High[k] \/ r[1] > r[2] THEN {}
    ELSE UNION {By(Clamped(r[3], k), r[1], r[2]) : r \in f.ranges}

cron_parse(fs) ==
    LET bits == [k \in Field |-> parse_field(fs[k], k)]
    IN  IF \E k \in Field : bits[k] = {} THEN Refused
        ELSE [k \in Field \cup {"dom_star", "dow_star"} |->
                CASE k = "dom_star" -> fs.day.star [] k = "dow_star" -> fs.wday.star [] OTHER -> bits[k]]

DayOk(e, u) ==
    LET dom == Tm(u).day \in e.day  dow == Tm(u).wday \in e.wday
    IN  CASE e.dom_star /\ e.dow_star   -> TRUE
          [] e.dom_star /\ ~e.dow_star  -> dow
          [] ~e.dom_star /\ e.dow_star  -> dom
          [] OTHER                      -> dom \/ dow

cron_matches(e, u) == /\ \A k \in {"sec", "min", "hour", "month"} : Tm(u)[k] \in e[k]
                      /\ DayOk(e, u)

-----------------------------------------------------------------------------
\* cron_next: one step, one turn of its loop.

Limit     == from + 4 * YearDays * DaySecs
Midnight(d) == d * DaySecs
NextMonth(d) == Min({e \in d + 1 .. d + High.day + 1 : Date(e).day = 1})

Init ==
    \E fs \in [sec : Fields.sec, min : Fields.min, hour : Fields.hour, day : Fields.day, month : Fields.month,
               wday : Fields.wday], u \in Fields.from :
        /\ asked = fs /\ expr = cron_parse(fs) /\ from = u /\ t = u + 1
        /\ answer = IF cron_parse(fs) = Refused THEN 0 ELSE -1

Jump(u) == t' = u /\ UNCHANGED <<expr, asked, from, answer>>
Searching == answer = -1 /\ t < Limit

SkipMonth  == Searching /\ Tm(t).month \notin expr.month /\ Jump(Midnight(NextMonth(Day(t))))
SkipDay    == Searching /\ Tm(t).month \in expr.month /\ ~DayOk(expr, t) /\ Jump(Midnight(Day(t) + 1))
SkipHour   ==
    /\ Searching /\ Tm(t).month \in expr.month /\ DayOk(expr, t) /\ Tm(t).hour \notin expr.hour
    /\ LET h == MinuteLen * HourLen IN Jump((t \div h + 1) * h)
SkipMinute ==
    /\ Searching /\ Tm(t).month \in expr.month /\ DayOk(expr, t) /\ Tm(t).hour \in expr.hour
    /\ Tm(t).min \notin expr.min /\ Jump(t + MinuteLen - Tm(t).sec)
SkipSecond ==
    /\ Searching /\ Tm(t).month \in expr.month /\ DayOk(expr, t) /\ Tm(t).hour \in expr.hour /\ Tm(t).min \in expr.min
    /\ Tm(t).sec \notin expr.sec /\ Jump(t + 1)
Found ==
    /\ Searching /\ cron_matches(expr, t)
    /\ answer' = t /\ UNCHANGED <<expr, asked, from, t>>
None ==
    /\ answer = -1 /\ t >= Limit
    /\ answer' = 0 /\ UNCHANGED <<expr, asked, from, t>>

Next == SkipMonth \/ SkipDay \/ SkipHour \/ SkipMinute \/ SkipSecond \/ Found \/ None

-----------------------------------------------------------------------------
\* What the fields ask for, read plainly; of the two day fields both must agree when one is a star, and one
\* suffices when neither is.
Asks(f, k, v) ==
    IF f.star THEN (v - Low[k]) % f.step = 0 ELSE \E r \in f.ranges : v \in r[1]..r[2] /\ (v - r[1]) % r[3] = 0
Due(u) ==
    LET now == Tm(u)  dom == Asks(asked.day, "day", now.day)  dow == Asks(asked.wday, "wday", now.wday)
    IN  /\ \A k \in {"sec", "min", "hour", "month"} : Asks(asked[k], k, now[k])
        /\ IF asked.day.star \/ asked.wday.star THEN dom /\ dow ELSE dom \/ dow

\* A star with a step in a day field: said to match every Nth day (cron_parser.cpp:36-38, the README:82-100),
\* but DayOk never looks at its step and has every day match.
SteppedDay == \E k \in {"day", "wday"} : asked[k].star /\ asked[k].step > 1

\* Once the search ends it has jumped over no time at which the rule is due, and stops at one that is; it
\* gives up only past its four years of 365 days.  Excused: a schedule with a stepped star for its days.
NextIsFirst ==
    expr # Refused /\ ~SteppedDay /\ answer # -1 =>
        /\ \A u \in from + 1 .. t - 1 : ~Due(u)
        /\ IF answer = 0 THEN t >= Limit ELSE answer = t /\ Due(t)
=============================================================================
