---------------------------- MODULE BalanceHistory ----------------------------
(***************************************************************************)
(* How balance_history of reporting.py computes the closing balances of    *)
(* one account once it has read its postings: the calendar walk of         *)
(* _iter_periods, and the merge of the postings into the periods.          *)
(*                                                                         *)
(* Days are those of Periods.  The calendar is given by the day each month *)
(* begins on and by a day that is a Monday.                                *)
(***************************************************************************)
EXTENDS Accounting, Periods

CONSTANTS
  FirstOf,    \* FirstOf[year][month]: the day that month begins on
  Monday,     \* a day that is a Monday
  Charts      \* what the callers ask, and the postings it is asked of

VARIABLES
  chart,    \* account, granularity, start, end, postings in order of created_at, clock
  cur,      \* the day the current period begins on
  idx,      \* postings merged so far
  running,  \* their sum
  points    \* the periods emitted: their last instant and closing balance

history == <<chart, cur, idx, running, points>>

\* What each posting adds to the account's signed balance.
Effects ==
  [i \in DOMAIN chart.events |->
     Effect(chart.account, chart.events[i].direction, chart.events[i].amount)]

Instants == {chart.events[i].created : i \in DOMAIN chart.events}
first == FirstDay(chart.start, Instants, chart.now)
last == LastDay(chart.start, chart.end, Instants, chart.now)

Weekday(day) == (day - Monday) % 7

\* A month is its year and its number.
Months == {<<y, m>> : y \in DOMAIN FirstOf, m \in 1 .. 12}
Earlier(a, b) == a[1] < b[1] \/ (a[1] = b[1] /\ a[2] < b[2])
NextMonth(month) ==
  IF month[2] = 12 THEN <<month[1] + 1, 1>> ELSE <<month[1], month[2] + 1>>

FirstDayOf(month) == FirstOf[month[1]][month[2]]

\* The calendar has whole years, one after the other, and months of 28 to 31 days.
ASSUME CalendarAssumption ==
  /\ Monday \in Int
  /\ \A y \in DOMAIN FirstOf : y \in Int /\ \A m \in 1 .. 12 : FirstOf[y][m] \in Int
  /\ \A x, y \in DOMAIN FirstOf : x .. y \subseteq DOMAIN FirstOf
  /\ \A a, b \in Months : Earlier(a, b) => FirstDayOf(a) < FirstDayOf(b)
  /\ \A a \in Months : NextMonth(a) \in Months =>
       FirstDayOf(NextMonth(a)) - FirstDayOf(a) \in 28 .. 31

\* The month a day lies in.
MonthOf(day) ==
  CHOOSE month \in Months :
    /\ FirstDayOf(month) <= day
    /\ NextMonth(month) \in Months => day < FirstDayOf(NextMonth(month))

\* The calendar has the month of the day and the next one.
Covered(day) ==
  \E month \in Months : /\ NextMonth(month) \in Months
                        /\ FirstDayOf(month) <= day /\ day < FirstDayOf(NextMonth(month))

\* A chart is asked for with dates that can be read, of postings in the order of
\* their instants, and within the calendar.
ASSUME ChartsAssumption ==
  \A c \in Charts :
    LET instants == {c.events[i].created : i \in DOMAIN c.events}
    IN /\ c.account \in Accounts
       /\ c.granularity \in {"day", "week", "month"}
       /\ Readable(c.start) /\ Readable(c.end) /\ c.now \in Nat
       /\ Len(c.events) \in Nat /\ DOMAIN c.events = 1 .. Len(c.events)
       /\ \A i \in DOMAIN c.events :
            c.events[i].created \in Nat /\ c.events[i].direction \in Direction /\ c.events[i].amount \in Nat
       /\ \A i, j \in DOMAIN c.events : i < j => c.events[i].created <= c.events[j].created
       /\ c.granularity = "month" =>
            /\ Covered(FirstDay(c.start, instants, c.now))
            /\ Covered(LastDay(c.start, c.end, instants, c.now))

\* The first period is the whole one the first day lies in.
PeriodStart(granularity, day) ==
  CASE granularity = "day" -> day
    [] granularity = "week" -> day - Weekday(day)
    [] granularity = "month" -> FirstDayOf(MonthOf(day))

\* The next period begins where this one, which begins on `day`, ends.
NextStart(granularity, day) ==
  CASE granularity = "day" -> day + 1
    [] granularity = "week" -> day + 7
    [] granularity = "month" -> FirstDayOf(NextMonth(MonthOf(day)))

EndInstant == EndOfDay(NextStart(chart.granularity, cur) - 1)

HistoryInit ==
  /\ chart \in Charts
  /\ cur = PeriodStart(chart.granularity, first)
  /\ idx = 0
  /\ running = 0
  /\ points = <<>>

Running == cur <= last

\* MUTANT of Due: the last instant of a period belongs to the next one.
DueBefore == idx < Len(chart.events) /\ chart.events[idx + 1].created < EndInstant

Due == idx < Len(chart.events) /\ chart.events[idx + 1].created <= EndInstant

\* The inner loop: a posting of the period, or of the time before it.
Merge ==
  /\ Running
  /\ Due
  /\ running' = running + Effects[idx + 1]
  /\ idx' = idx + 1
  /\ UNCHANGED <<chart, cur, points>>

\* The period's closing balance, and on to the next one.
Emit ==
  /\ Running
  /\ ~Due
  /\ points' = Append(points, [end |-> EndInstant, closing |-> running])
  /\ cur' = NextStart(chart.granularity, cur)
  /\ UNCHANGED <<chart, idx, running>>

HistoryNext == Merge \/ Emit
===============================================================================
