--------------------------- MODULE ComputationProofs ---------------------------
(***************************************************************************)
(* What balance_history computes (reporting.py), for every calendar, every *)
(* list of postings and every range: the walk over the periods, the merge  *)
(* of the postings into them, and the instants a day ends at.              *)
(***************************************************************************)
EXTENDS Computations, AccountingProofs

-------------------------------------------------------------------------------
(* The calendar. *)

\* A month is a pair, its first day a number.
LEMMA MonthFacts ==
  ASSUME NEW a \in Months
  PROVE  /\ a[1] \in DOMAIN FirstOf /\ a[1] \in Int /\ a[2] \in 1 .. 12 /\ a = <<a[1], a[2]>>
         /\ FirstDayOf(a) \in Int
         /\ NextMonth(a) \in Months <=> NextMonth(a)[1] \in DOMAIN FirstOf
<1>1. PICK y \in DOMAIN FirstOf, m \in 1 .. 12 : a = <<y, m>>
  BY DEF Months
<1>2. a[1] = y /\ a[2] = m
  BY <1>1
<1>3. FirstDayOf(a) \in Int /\ y \in Int
  BY <1>2, CalendarAssumption DEF FirstDayOf
<1>4. NextMonth(a) = IF m = 12 THEN <<y + 1, 1>> ELSE <<y, m + 1>>
  BY <1>2 DEF NextMonth
<1>5. \A z, k : <<z, k>> \in Months <=> z \in DOMAIN FirstOf /\ k \in 1 .. 12
  BY DEF Months
<1>6. NextMonth(a) \in Months <=> NextMonth(a)[1] \in DOMAIN FirstOf
  <2>1. CASE m = 12
    <3>1. NextMonth(a) = <<y + 1, 1>>
      BY <1>4, <2>1
    <3>2. QED
      BY <1>5, <3>1
  <2>2. CASE m # 12
    <3>1. NextMonth(a) = <<y, m + 1>> /\ m + 1 \in 1 .. 12
      BY <1>1, <1>4, <2>2
    <3>2. QED
      BY <1>5, <3>1
  <2>3. QED
    BY <2>1, <2>2
<1>7. QED
  BY <1>1, <1>2, <1>3, <1>6

\* Of two months one is the earlier.
LEMMA MonthsOrdered ==
  ASSUME NEW a \in Months, NEW b \in Months
  PROVE  Earlier(a, b) \/ a = b \/ Earlier(b, a)
<1>1. /\ a[1] \in Int /\ a[2] \in 1 .. 12 /\ a = <<a[1], a[2]>>
      /\ b[1] \in Int /\ b[2] \in 1 .. 12 /\ b = <<b[1], b[2]>>
  BY MonthFacts
<1>2. a[1] = b[1] /\ a[2] = b[2] => a = b
  BY <1>1
<1>3. QED
  BY <1>1, <1>2 DEF Earlier

\* A month with a later one has a next one, which is no later than that.
LEMMA NextIsNext ==
  ASSUME NEW a \in Months, NEW b \in Months, Earlier(a, b)
  PROVE  /\ NextMonth(a) \in Months
         /\ FirstDayOf(NextMonth(a)) <= FirstDayOf(b)
<1>1. /\ a[1] \in Int /\ a[2] \in 1 .. 12 /\ a[1] \in DOMAIN FirstOf
      /\ b[1] \in Int /\ b[2] \in 1 .. 12 /\ b = <<b[1], b[2]>> /\ b[1] \in DOMAIN FirstOf
  BY MonthFacts
<1>2. PICK y, m : y = a[1] /\ m = a[2] /\ y \in Int /\ m \in 1 .. 12
  BY <1>1
<1>3. PICK z, k : z = b[1] /\ k = b[2] /\ z \in Int /\ k \in 1 .. 12
  BY <1>1
<1>4. y < z \/ (y = z /\ m < k)
  BY <1>2, <1>3 DEF Earlier
<1>5. PICK n : n = NextMonth(a)
  OBVIOUS
<1>6. n = IF m = 12 THEN <<y + 1, 1>> ELSE <<y, m + 1>>
  BY <1>2, <1>5 DEF NextMonth
<1>7. /\ m = 12 => n[1] = y + 1 /\ n[2] = 1
      /\ m # 12 => n[1] = y /\ n[2] = m + 1
  BY <1>6
<1>8. n[1] \in y .. z
  BY <1>2, <1>3, <1>4, <1>7
<1>9. n \in Months
  <2>1. y .. z \subseteq DOMAIN FirstOf
    BY <1>1, <1>2, <1>3, CalendarAssumption
  <2>2. QED
    BY <1>5, <1>8, <2>1, MonthFacts
<1>10. n = b \/ Earlier(n, b)
  <2>1. n[1] < z \/ (n[1] = z /\ n[2] <= k)
    BY <1>2, <1>3, <1>4, <1>7
  <2>2. n[1] \in Int /\ n[2] \in 1 .. 12 /\ n = <<n[1], n[2]>>
    BY <1>9, MonthFacts
  <2>3. n[1] = z /\ n[2] = k => n = b
    BY <1>1, <1>3, <2>2
  <2>4. QED
    BY <1>3, <2>1, <2>2, <2>3 DEF Earlier
<1>11. FirstDayOf(n) <= FirstDayOf(b)
  <2>1. FirstDayOf(n) \in Int /\ FirstDayOf(b) \in Int
    BY <1>9, MonthFacts
  <2>2. CASE n = b
    BY <2>1, <2>2
  <2>3. CASE Earlier(n, b)
    <3>1. FirstDayOf(n) < FirstDayOf(b)
      BY <1>9, <2>3, CalendarAssumption
    <3>2. QED
      BY <2>1, <3>1
  <2>4. QED
    BY <1>10, <2>2, <2>3
<1>12. QED
  BY <1>5, <1>9, <1>11

\* The first days of a month and of the next one.
LEMMA MonthLength ==
  ASSUME NEW a \in Months, NextMonth(a) \in Months
  PROVE  /\ FirstDayOf(a) \in Int /\ FirstDayOf(NextMonth(a)) \in Int
         /\ FirstDayOf(a) < FirstDayOf(NextMonth(a))
         /\ FirstDayOf(NextMonth(a)) <= FirstDayOf(a) + 31
<1>1. PICK x \in Int, y \in Int : x = FirstDayOf(a) /\ y = FirstDayOf(NextMonth(a))
  BY MonthFacts
<1>2. y - x \in 28 .. 31
  BY <1>1, CalendarAssumption
<1>3. QED
  BY <1>1, <1>2

\* The month of a day is the one that has begun and whose next has not.
LEMMA MonthOfDay ==
  ASSUME NEW a \in Months, NextMonth(a) \in Months, NEW day \in Int,
         FirstDayOf(a) <= day, day < FirstDayOf(NextMonth(a))
  PROVE  MonthOf(day) = a
<1> DEFINE Fits(b) == /\ FirstDayOf(b) <= day
                      /\ NextMonth(b) \in Months => day < FirstDayOf(NextMonth(b))
<1>1. Fits(a)
  OBVIOUS
<1>2. ASSUME NEW b \in Months, Fits(b)
      PROVE  b = a
  <2>1. FirstDayOf(a) \in Int /\ FirstDayOf(b) \in Int /\ FirstDayOf(NextMonth(a)) \in Int
    BY MonthFacts
  <2>2. ~Earlier(a, b)
    <3>1. SUFFICES ASSUME Earlier(a, b) PROVE FALSE
      OBVIOUS
    <3>2. FirstDayOf(NextMonth(a)) <= FirstDayOf(b)
      BY <3>1, NextIsNext
    <3>3. FirstDayOf(b) <= day
      BY <1>2
    <3>4. QED
      BY <2>1, <3>2, <3>3
  <2>3. ~Earlier(b, a)
    <3>1. SUFFICES ASSUME Earlier(b, a) PROVE FALSE
      OBVIOUS
    <3>2. NextMonth(b) \in Months /\ FirstDayOf(NextMonth(b)) <= FirstDayOf(a)
      BY <3>1, NextIsNext
    <3>3. FirstDayOf(NextMonth(b)) \in Int
      BY <3>2, MonthFacts
    <3>4. day < FirstDayOf(NextMonth(b))
      BY <1>2, <3>2
    <3>5. QED
      BY <2>1, <3>2, <3>3, <3>4
  <2>4. QED
    BY <2>2, <2>3, MonthsOrdered
<1> HIDE DEF Fits
<1>3. MonthOf(day) = CHOOSE b \in Months : Fits(b)
  BY DEF MonthOf, Fits
<1>4. QED
  BY <1>1, <1>2, <1>3

-------------------------------------------------------------------------------
(* The periods. *)

Granularity == {"day", "week", "month"}

OnMonday(day) == (day - Monday) % 7 = 0

\* A period begins with the day.
Begins(granularity, day) ==
  /\ granularity = "week" => OnMonday(day)
  /\ granularity = "month" => \E a \in Months : FirstDayOf(a) = day

\* The calendar has the next month of the one that begins with the day.
HasNext(granularity, day) ==
  granularity = "month" => \E a \in Months : FirstDayOf(a) = day /\ NextMonth(a) \in Months

\* A period ends with a day if the next one begins with the next.
LEMMA EndsBefore ==
  ASSUME NEW g \in Granularity, NEW day \in Int
  PROVE  EndsPeriod(g, day) <=> Begins(g, day + 1)
<1>1. (\E y \in DOMAIN FirstOf : \E m \in 1 .. 12 : FirstOf[y][m] = day + 1) <=>
        \E a \in Months : FirstDayOf(a) = day + 1
  <2>1. ASSUME NEW y \in DOMAIN FirstOf, NEW m \in 1 .. 12, FirstOf[y][m] = day + 1
        PROVE  \E a \in Months : FirstDayOf(a) = day + 1
    <3>1. <<y, m>> \in Months /\ FirstDayOf(<<y, m>>) = day + 1
      BY <2>1 DEF Months, FirstDayOf
    <3>2. QED
      BY <3>1
  <2>2. ASSUME NEW a \in Months, FirstDayOf(a) = day + 1
        PROVE  \E y \in DOMAIN FirstOf : \E m \in 1 .. 12 : FirstOf[y][m] = day + 1
    BY <2>2, MonthFacts DEF FirstDayOf
  <2>3. QED
    BY <2>1, <2>2
<1>2. CASE g = "day"
  BY <1>2 DEF EndsPeriod, Begins
<1>3. CASE g = "week"
  BY <1>3, CalendarAssumption DEF EndsPeriod, Begins, OnMonday
<1>4. CASE g = "month"
  BY <1>1, <1>4 DEF EndsPeriod, Begins
<1>5. QED
  BY <1>2, <1>3, <1>4 DEF Granularity

\* Weeks begin seven days apart.
LEMMA WeekFacts ==
  ASSUME NEW day \in Int
  PROVE  /\ Weekday(day) \in 0 .. 6
         /\ OnMonday(day - Weekday(day))
         /\ OnMonday(day) => OnMonday(day + 7) /\ \A k \in 1 .. 6 : ~OnMonday(day + k)
<1>1. PICK x \in Int : x = day - Monday
  BY CalendarAssumption
<1>2. Monday \in Int
  BY CalendarAssumption
<1>3. x % 7 \in 0 .. 6 /\ (x - (x % 7)) % 7 = 0
  OBVIOUS
<1>4. x % 7 = 0 => (x + 7) % 7 = 0 /\ \A k \in 1 .. 6 : (x + k) % 7 # 0
  OBVIOUS
<1>5. Weekday(day) = x % 7
  BY <1>1 DEF Weekday
<1>6. PICK w \in Int : w = Weekday(day) /\ w = x % 7
  BY <1>3, <1>5
<1>7. day - w - Monday = x - w /\ day + 7 - Monday = x + 7 /\ \A k \in 1 .. 6 : day + k - Monday = x + k
  BY <1>1, <1>2, <1>6
<1>8. OnMonday(day - w)
  BY <1>3, <1>6, <1>7 DEF OnMonday
<1>9. OnMonday(day) => x % 7 = 0
  BY <1>1 DEF OnMonday
<1>10. OnMonday(day + 7) <=> (x + 7) % 7 = 0
  BY <1>2, <1>7 DEF OnMonday
<1>11. \A k \in 1 .. 6 : OnMonday(day + k) <=> (x + k) % 7 = 0
  BY <1>2, <1>7 DEF OnMonday
<1>12. QED
  BY <1>3, <1>4, <1>6, <1>8, <1>9, <1>10, <1>11

\* The next period begins after this one and within 31 days, and none in between.
LEMMA PeriodFacts ==
  ASSUME NEW g \in Granularity, NEW day \in Int, Begins(g, day), HasNext(g, day)
  PROVE  /\ NextStart(g, day) \in Int
         /\ day < NextStart(g, day) /\ NextStart(g, day) <= day + 31
         /\ Begins(g, NextStart(g, day))
         /\ \A d \in Int : day < d /\ d < NextStart(g, day) => ~Begins(g, d)
<1>1. CASE g = "day"
  <2>1. NextStart(g, day) = day + 1
    BY <1>1 DEF NextStart
  <2>2. Begins(g, day + 1)
    BY <1>1 DEF Begins
  <2>3. QED
    BY <2>1, <2>2
<1>2. CASE g = "week"
  <2>1. NextStart(g, day) = day + 7
    BY <1>2 DEF NextStart
  <2>2. OnMonday(day + 7) /\ \A k \in 1 .. 6 : ~OnMonday(day + k)
    BY <1>2, WeekFacts DEF Begins
  <2>3. ASSUME NEW d \in Int, day < d, d < day + 7
        PROVE  ~Begins(g, d)
    <3>1. PICK k \in 1 .. 6 : d = day + k
      <4>1. d - day \in 1 .. 6 /\ d = day + (d - day)
        BY <2>3
      <4>2. QED
        BY <4>1
    <3>2. ~OnMonday(d)
      BY <2>2, <3>1
    <3>3. QED
      BY <1>2, <3>2 DEF Begins
  <2>4. Begins(g, day + 7)
    BY <1>2, <2>2 DEF Begins
  <2>5. QED
    BY <2>1, <2>3, <2>4
<1>3. CASE g = "month"
  <2>1. PICK a \in Months : FirstDayOf(a) = day /\ NextMonth(a) \in Months
    BY <1>3 DEF HasNext
  <2>2. PICK b \in Months : b = NextMonth(a)
    BY <2>1
  <2>3. /\ FirstDayOf(b) \in Int /\ day < FirstDayOf(b) /\ FirstDayOf(b) <= day + 31
    BY <2>1, <2>2, MonthLength
  <2>4. MonthOf(day) = a
    BY <2>1, <2>2, <2>3, MonthOfDay
  <2>5. NextStart(g, day) = FirstDayOf(b)
    BY <1>3, <2>2, <2>4 DEF NextStart
  <2>6. Begins(g, FirstDayOf(b))
    BY <1>3 DEF Begins
  <2>7. ASSUME NEW d \in Int, day < d, d < FirstDayOf(b), Begins(g, d)
        PROVE  FALSE
    <3>1. PICK c \in Months : FirstDayOf(c) = d
      BY <1>3, <2>7 DEF Begins
    <3>2. Earlier(c, a) => FirstDayOf(c) < FirstDayOf(a)
      BY CalendarAssumption
    <3>3. Earlier(a, c) => FirstDayOf(b) <= FirstDayOf(c)
      BY <2>2, NextIsNext
    <3>4. QED
      BY <2>1, <2>3, <2>7, <3>1, <3>2, <3>3, MonthsOrdered
  <2>8. QED
    BY <2>3, <2>5, <2>6, <2>7
<1>4. QED
  BY <1>1, <1>2, <1>3 DEF Granularity

\* The day on which the period of a day ends is the one before the next period begins.
LEMMA LastDayOfPeriod ==
  ASSUME NEW g \in Granularity, NEW day \in Int, Begins(g, day), HasNext(g, day),
         NEW d \in Int, day <= d, d < NextStart(g, day)
  PROVE  LastOfPeriod(g, d) = NextStart(g, day) - 1
<1>1. PICK next \in Int : next = NextStart(g, day)
  BY PeriodFacts
<1>2. /\ day < next /\ next <= day + 31 /\ Begins(g, next)
      /\ \A x \in Int : day < x /\ x < next => ~Begins(g, x)
  BY <1>1, PeriodFacts
<1> DEFINE S == {x \in d .. (d + 31) : EndsPeriod(g, x)}
<1>3. next - 1 \in S
  <2>1. next - 1 \in d .. (d + 31)
    BY <1>1, <1>2
  <2>2. Begins(g, (next - 1) + 1)
    <3>1. (next - 1) + 1 = next
      OBVIOUS
    <3>2. QED
      BY <1>2, <3>1
  <2>3. QED
    BY <2>1, <2>2, EndsBefore
<1>4. \A x \in S : x \in Int /\ next - 1 <= x
  <2>1. SUFFICES ASSUME NEW x \in S, x < next - 1 PROVE FALSE
    OBVIOUS
  <2>2. x \in Int /\ day < x + 1 /\ x + 1 < next
    BY <2>1
  <2>3. Begins(g, x + 1)
    BY EndsBefore
  <2>4. QED
    BY <1>2, <2>2, <2>3
<1>5. LastOfPeriod(g, d) = CHOOSE x \in S : \A y \in S : x <= y
  BY DEF LastOfPeriod, Min
<1> HIDE DEF S
<1>6. PICK m \in S : m = LastOfPeriod(g, d) /\ \A y \in S : m <= y
  <2>1. \E x \in S : \A y \in S : x <= y
    BY <1>3, <1>4
  <2>2. QED
    BY <1>5, <2>1
<1>7. m <= next - 1 /\ next - 1 <= m /\ m \in Int
  BY <1>3, <1>4, <1>6
<1>8. QED
  BY <1>1, <1>6, <1>7

-------------------------------------------------------------------------------
(* Days and instants. *)

\* A day has an end, which is an instant of that day, and a later day a later one.
LEMMA EndOfDayFacts ==
  ASSUME NEW day \in Int
  PROVE  /\ EndOfDay(day) \in Int
         /\ DayOf(EndOfDay(day)) = day
         /\ \A d \in Int : d < day => EndOfDay(d) < EndOfDay(day)
<1>1. DayLength \in Nat /\ DayLength > 0
  BY DayAssumption
<1>2. PICK e \in Int : e = day * DayLength
  BY <1>1
<1>3. EndOfDay(day) = e + DayLength - 1
  BY <1>2 DEF EndOfDay, Midnight
<1>4. (e + DayLength - 1) \div DayLength = day
  <2>1. PICK x \in Int, q \in Int, r \in Int :
          /\ x = e + DayLength - 1 /\ q = x \div DayLength /\ r = x % DayLength
          /\ x = q * DayLength + r /\ 0 <= r /\ r < DayLength
    BY <1>1
  <2>2. PICK k \in Int : k = q - day
    OBVIOUS
  <2>3. k * DayLength = q * DayLength - day * DayLength
    BY <1>1, <2>2
  <2>4. k * DayLength + r = DayLength - 1
    BY <1>1, <1>2, <2>1, <2>3
  <2>5. ~(k >= 1)
    <3>1. SUFFICES ASSUME k >= 1 PROVE FALSE
      OBVIOUS
    <3>2. k * DayLength >= DayLength
      BY <1>1, <3>1
    <3>3. QED
      BY <1>1, <2>1, <2>4, <3>2
  <2>6. ~(k <= -1)
    <3>1. SUFFICES ASSUME k <= -1 PROVE FALSE
      OBVIOUS
    <3>2. k * DayLength <= -DayLength
      BY <1>1, <3>1
    <3>3. QED
      BY <1>1, <2>1, <2>4, <3>2
  <2>7. k = 0
    BY <2>5, <2>6
  <2>8. QED
    BY <2>1, <2>2, <2>7
<1>5. ASSUME NEW d \in Int, d < day
      PROVE  EndOfDay(d) < EndOfDay(day)
  <2>1. d * DayLength < day * DayLength
    <3>1. (day - d) * DayLength >= 1
      BY <1>1, <1>5
    <3>2. (day - d) * DayLength = day * DayLength - d * DayLength
      BY <1>1
    <3>3. d * DayLength \in Int /\ day * DayLength \in Int
      BY <1>1
    <3>4. QED
      BY <3>1, <3>2, <3>3
  <2>2. PICK f \in Int : f = d * DayLength
    BY <1>1
  <2>3. EndOfDay(d) = f + DayLength - 1
    BY <2>2 DEF EndOfDay, Midnight
  <2>4. QED
    BY <1>1, <1>2, <1>3, <2>1, <2>2, <2>3
<1>6. QED
  BY <1>1, <1>3, <1>4, <1>5 DEF DayOf

\* A text that can be read names an instant.
LEMMA ParseInt ==
  ASSUME NEW text, Readable(text), text # NoBound
  PROVE  Parse(text) \in Int
<1>1. text.day \in Int /\ Midnight(text.day) \in Int
  BY DayAssumption DEF Readable, Midnight
<1>2. CASE DateOnly(text)
  BY <1>1, <1>2 DEF Parse
<1>3. CASE ~DateOnly(text)
  BY <1>1, <1>3 DEF Parse, Readable
<1>4. QED
  BY <1>2, <1>3

\* What a chart's assumption says of the present one.
LEMMA ChartFacts ==
  ASSUME chart \in Charts
  PROVE  /\ chart.account \in Accounts
         /\ chart.granularity \in Granularity
         /\ Readable(chart.start) /\ Readable(chart.end) /\ chart.now \in Nat
         /\ Len(chart.events) \in Nat /\ DOMAIN chart.events = 1 .. Len(chart.events)
         /\ \A i \in DOMAIN chart.events :
              /\ chart.events[i].created \in Nat
              /\ chart.events[i].direction \in Direction
              /\ chart.events[i].amount \in Nat
         /\ \A i, j \in DOMAIN chart.events : i < j => chart.events[i].created <= chart.events[j].created
         /\ chart.granularity = "month" => Covered(first) /\ Covered(last)
  BY ChartsAssumption DEF Granularity, first, last, Instants

\* The range of a chart is from day to day.
LEMMA RangeFacts ==
  ASSUME chart \in Charts
  PROVE  first \in Int /\ last \in Int
<1>1. /\ Readable(chart.start) /\ Readable(chart.end) /\ chart.now \in Nat
      /\ Len(chart.events) \in Nat /\ DOMAIN chart.events = 1 .. Len(chart.events)
      /\ \A i \in DOMAIN chart.events : chart.events[i].created \in Nat
  BY ChartFacts
<1>2. Instants \in SUBSET Nat /\ IsFiniteSet(Instants)
  <2>1. IsFiniteSet(1 .. Len(chart.events))
    BY <1>1, PositionsFinite
  <2>2. IsFiniteSet(Instants)
    <3> DEFINE f == [i \in 1 .. Len(chart.events) |-> chart.events[i].created]
    <3>1. f \in Surjection(1 .. Len(chart.events), Instants)
      BY <1>1 DEF Instants, Surjection
    <3> HIDE DEF f
    <3>2. QED
      BY <2>1, <3>1, FS_Surjection
  <2>3. QED
    BY <1>1, <2>2 DEF Instants
<1>3. \A x \in Int : DayOf(x) \in Int
  BY DayAssumption DEF DayOf
<1>4. Instants # {} => Min(Instants) \in Nat /\ Max(Instants) \in Nat
  <2>1. SUFFICES ASSUME Instants # {} PROVE Min(Instants) \in Nat /\ Max(Instants) \in Nat
    OBVIOUS
  <2>2. Min(Instants) \in Instants
    BY <1>2, <2>1, MinFacts
  <2>3. \E x \in Instants : \A y \in Instants : y <= x
    BY <1>2, <2>1, GreatestExists
  <2>4. \E x \in Instants : \A y \in Instants : x >= y
    BY <1>2, <2>3
  <2>5. Max(Instants) \in Instants
    BY <2>4 DEF Max
  <2>6. QED
    BY <1>2, <2>2, <2>5
<1>5. first \in Int
  <2>1. CASE chart.start # NoBound
    BY <1>1, <1>3, <2>1, ParseInt DEF first, FirstDay, Start
  <2>2. CASE chart.start = NoBound /\ Instants # {}
    BY <1>3, <1>4, <2>2 DEF first, FirstDay
  <2>3. CASE chart.start = NoBound /\ Instants = {}
    BY <1>1, <1>3, <2>3 DEF first, FirstDay
  <2>4. QED
    BY <2>1, <2>2, <2>3
<1>6. last \in Int
  <2>1. CASE chart.end # NoBound
    <3>1. PICK x \in Int : x = Parse(chart.end)
      BY <1>1, <2>1, ParseInt
    <3>2. EndExclusive(chart.end) - 1 \in Int
      BY <2>1, <3>1, DayAssumption DEF EndExclusive
    <3>3. QED
      BY <1>3, <2>1, <3>2 DEF last, LastDay
  <2>2. CASE chart.end = NoBound /\ Instants # {}
    <3>1. PICK x, y : x = DayOf(Max(Instants)) /\ y = DayOf(chart.now) /\ x \in Int /\ y \in Int
      <4>1. Max(Instants) \in Int /\ chart.now \in Int
        BY <1>1, <1>4, <2>2
      <4>2. DayOf(Max(Instants)) \in Int /\ DayOf(chart.now) \in Int
        BY <1>3, <4>1
      <4>3. QED
        BY <4>2
    <3>2. Max({x, y}) \in {x, y}
      BY <3>1, GreaterOfTwo
    <3>3. last = Max({x, y})
      BY <2>2, <3>1 DEF last, LastDay
    <3>4. QED
      BY <3>1, <3>2, <3>3
  <2>3. CASE chart.end = NoBound /\ Instants = {}
    BY <1>5, <2>3 DEF last, first, LastDay
  <2>4. QED
    BY <2>1, <2>2, <2>3
<1>7. QED
  BY <1>5, <1>6

-------------------------------------------------------------------------------
(* The single pass over the postings. *)

\* What the first n postings add up to.
SumTo(n) == SumFunctionOnSet(Effects, 1 .. n)

\* Sums of a chart's postings, one by one.
LEMMA SumToFacts ==
  ASSUME chart \in Charts
  PROVE  /\ SumTo(0) = 0
         /\ \A n \in 0 .. Len(chart.events) :
              n < Len(chart.events) => SumTo(n + 1) = SumTo(n) + Effects[n + 1]
<1>1. /\ chart.account \in Accounts
      /\ Len(chart.events) \in Nat /\ DOMAIN chart.events = 1 .. Len(chart.events)
      /\ \A i \in DOMAIN chart.events : chart.events[i].amount \in Nat
  BY ChartFacts
<1>2. \A i \in 1 .. Len(chart.events) : Effects[i] \in Int
  BY <1>1 DEF Effects, Effect
<1>3. SumTo(0) = 0
  <2>1. 1 .. 0 = {}
    OBVIOUS
  <2>2. QED
    BY <2>1, SumEmpty DEF SumTo
<1>4. ASSUME NEW n \in 0 .. Len(chart.events), n < Len(chart.events)
      PROVE  SumTo(n + 1) = SumTo(n) + Effects[n + 1]
  <2>1. PICK f : f = Effects
    OBVIOUS
  <2>2. IsFiniteSet(1 .. n) /\ n + 1 \notin 1 .. n /\ 1 .. (n + 1) = (1 .. n) \union {n + 1}
    BY <1>1, PositionsFinite
  <2>3. \A i \in (1 .. n) \union {n + 1} : f[i] \in Int
    BY <1>1, <1>2, <1>4, <2>1
  <2>4. SumFunctionOnSet(f, (1 .. n) \union {n + 1}) = f[n + 1] + SumFunctionOnSet(f, 1 .. n)
    BY <2>2, <2>3, SumAdd
  <2>5. SumFunctionOnSet(f, 1 .. n) \in Int /\ f[n + 1] \in Int
    BY <2>2, <2>3, SumInt
  <2>6. PICK x \in Int, y \in Int : x = SumFunctionOnSet(f, 1 .. n) /\ y = f[n + 1]
    BY <2>5
  <2>7. SumFunctionOnSet(f, 1 .. (n + 1)) = y + x
    BY <2>2, <2>4, <2>6
  <2>8. SumTo(n + 1) = y + x /\ SumTo(n) = x /\ Effects[n + 1] = y
    BY <2>1, <2>6, <2>7 DEF SumTo
  <2>9. QED
    BY <2>8
<1>5. QED
  BY <1>3, <1>4

\* Where the walk is: at the first day of a period, the first of them around `first`.
Walking ==
  /\ cur \in Int /\ Begins(chart.granularity, cur)
  /\ Running /\ cur <= first => first < NextStart(chart.granularity, cur)

\* What was merged: the first idx postings, and none from after the period.
Merged ==
  /\ idx \in 0 .. Len(chart.events)
  /\ running = SumTo(idx)
  /\ Running => \A i \in 1 .. idx : chart.events[i].created <= EndInstant

\* What was emitted: the periods before the present one, each with its balance.
Emitted ==
  /\ \E S : points \in Seq(S)
  /\ \A i \in DOMAIN points :
       /\ points[i].closing = SumUpTo(points[i].end)
       /\ \E day \in Int : day < cur /\ points[i].end = EndOfDay(day)
  /\ \A i, j \in DOMAIN points : i < j => points[i].end < points[j].end
  /\ first <= last =>
       {points[i].end : i \in DOMAIN points} =
         {EndOfDay(LastOfPeriod(chart.granularity, d)) : d \in {d \in first .. last : d < cur}}

Inv ==
  /\ chart = NoJob => points = <<>>
  /\ chart # NoJob => chart \in Charts /\ Walking /\ Merged /\ Emitted

\* Up to the last day the calendar has the next period.
LEMMA NextCovered ==
  ASSUME chart \in Charts, NEW day \in Int, Begins(chart.granularity, day), day <= last
  PROVE  HasNext(chart.granularity, day)
<1>1. SUFFICES ASSUME chart.granularity = "month"
               PROVE  \E a \in Months : FirstDayOf(a) = day /\ NextMonth(a) \in Months
  BY DEF HasNext
<1>2. PICK a \in Months : FirstDayOf(a) = day
  BY <1>1 DEF Begins
<1>3. PICK b \in Months : /\ NextMonth(b) \in Months
                          /\ FirstDayOf(b) <= last /\ last < FirstDayOf(NextMonth(b))
  BY <1>1, ChartFacts DEF Covered
<1>4. last \in Int
  BY RangeFacts
<1>5. FirstDayOf(NextMonth(b)) \in Int
  BY <1>3, MonthFacts
<1>6. ~Earlier(b, a)
  <2>1. Earlier(b, a) => FirstDayOf(NextMonth(b)) <= FirstDayOf(a)
    BY NextIsNext
  <2>2. QED
    BY <1>2, <1>3, <1>4, <1>5, <2>1
<1>7. Earlier(a, b) => NextMonth(a) \in Months
  BY NextIsNext
<1>8. NextMonth(a) \in Months
  BY <1>3, <1>6, <1>7, MonthsOrdered
<1>9. QED
  BY <1>2, <1>8

\* The first period is that of the first day.
LEMMA InitWalking ==
  ASSUME chart \in Charts, HistoryInit
  PROVE  Walking /\ cur <= first
<1> DEFINE g == chart.granularity
<1>1. first \in Int /\ cur = PeriodStart(g, first) /\ g \in Granularity
  BY RangeFacts, ChartFacts DEF HistoryInit
<1>2. PICK f \in Int : f = first
  BY <1>1
<1>3. CASE g = "day"
  <2>1. cur = f /\ NextStart(g, cur) = f + 1 /\ Begins(g, cur)
    BY <1>1, <1>2, <1>3 DEF PeriodStart, NextStart, Begins
  <2>2. QED
    BY <1>2, <2>1 DEF Walking
<1>4. CASE g = "week"
  <2>1. PICK w \in 0 .. 6 : w = Weekday(f)
    BY <1>2, WeekFacts
  <2>2. cur = f - w
    BY <1>1, <1>2, <1>4, <2>1 DEF PeriodStart
  <2>3. OnMonday(cur)
    BY <1>2, <2>1, <2>2, WeekFacts
  <2>4. NextStart(g, cur) = cur + 7 /\ Begins(g, cur)
    BY <1>4, <2>3 DEF NextStart, Begins
  <2>5. QED
    BY <1>2, <2>1, <2>2, <2>4 DEF Walking
<1>5. CASE g = "month"
  <2>1. PICK a \in Months : /\ NextMonth(a) \in Months
                            /\ FirstDayOf(a) <= f /\ f < FirstDayOf(NextMonth(a))
    BY <1>2, <1>5, ChartFacts DEF Covered
  <2>2. MonthOf(f) = a
    BY <1>2, <2>1, MonthOfDay
  <2>3. cur = FirstDayOf(a)
    BY <1>1, <1>2, <1>5, <2>2 DEF PeriodStart
  <2>4. cur \in Int /\ cur <= f /\ Begins(g, cur)
    BY <1>5, <2>1, <2>3, MonthFacts DEF Begins
  <2>5. MonthOf(cur) = a
    BY <2>1, <2>3, <2>4, MonthLength, MonthOfDay
  <2>6. NextStart(g, cur) = FirstDayOf(NextMonth(a))
    BY <1>5, <2>5 DEF NextStart
  <2>7. QED
    BY <1>2, <2>1, <2>4, <2>6 DEF Walking
<1>6. QED
  BY <1>1, <1>3, <1>4, <1>5 DEF Granularity

\* Before the walk nothing is merged or emitted.
LEMMA InitHistory ==
  ASSUME chart \in Charts, HistoryInit
  PROVE  Walking /\ Merged /\ Emitted
<1>1. Walking /\ cur <= first
  BY InitWalking
<1>2. Merged
  <2>1. idx = 0 /\ running = 0 /\ SumTo(0) = 0 /\ Len(chart.events) \in Nat
    BY SumToFacts, ChartFacts DEF HistoryInit
  <2>2. QED
    BY <2>1 DEF Merged
<1>3. Emitted
  <2>1. points = <<>> /\ <<>> \in Seq({}) /\ DOMAIN points = {}
    BY DEF HistoryInit
  <2>2. cur \in Int /\ first \in Int /\ cur <= first
    BY <1>1, RangeFacts DEF Walking
  <2>3. {d \in first .. last : d < cur} = {}
    BY <2>2, RangeFacts
  <2>4. QED
    BY <2>1, <2>3 DEF Emitted
<1>4. QED
  BY <1>1, <1>2, <1>3

\* A step of the walk leaves the chart alone, and what is computed from it.
LEMMA SameChart ==
  ASSUME chart' = chart
  PROVE  /\ first' = first /\ last' = last /\ Effects' = Effects
         /\ \A n : SumTo(n)' = SumTo(n)
         /\ \A x : SumUpTo(x)' = SumUpTo(x)
<1>1. Instants' = Instants
  BY DEF Instants
<1>2. first' = first /\ last' = last /\ Effects' = Effects
  BY <1>1 DEF first, last, Effects
<1>3. QED
  BY <1>2 DEF SumTo, SumUpTo

\* One more posting is merged.
LEMMA MergeKeeps ==
  ASSUME chart \in Charts, Walking, Merged, Emitted, Merge
  PROVE  chart' \in Charts /\ Walking' /\ Merged' /\ Emitted'
<1>1. /\ Running /\ Due /\ running' = running + Effects[idx + 1] /\ idx' = idx + 1
      /\ chart' = chart /\ cur' = cur /\ points' = points
  BY DEF Merge
<1>2. /\ first' = first /\ last' = last /\ \A n : SumTo(n)' = SumTo(n)
      /\ \A x : SumUpTo(x)' = SumUpTo(x)
  BY <1>1, SameChart
<1>3. Walking' /\ Emitted'
  BY <1>1, <1>2 DEF Walking, Emitted, Running
<1>4. Merged'
  <2>1. /\ idx \in 0 .. Len(chart.events) /\ idx < Len(chart.events)
        /\ chart.events[idx + 1].created <= EndInstant /\ Len(chart.events) \in Nat
    BY <1>1, ChartFacts DEF Merged, Due
  <2>2. SumTo(idx + 1) = SumTo(idx) + Effects[idx + 1]
    BY <2>1, SumToFacts
  <2>3. EndInstant' = EndInstant
    BY <1>1 DEF EndInstant
  <2>4. idx + 1 \in 0 .. Len(chart.events) /\ \A i \in 1 .. (idx + 1) : i \in 1 .. idx \/ i = idx + 1
    BY <2>1
  <2>5. running' = SumTo(idx + 1)
    BY <1>1, <2>2 DEF Merged
  <2>6. \A i \in 1 .. (idx + 1) : chart.events[i].created <= EndInstant
    BY <1>1, <2>1, <2>4 DEF Merged
  <2>7. QED
    BY <1>1, <1>2, <2>3, <2>4, <2>5, <2>6 DEF Merged
<1>5. QED
  BY <1>1, <1>3, <1>4

\* When no posting of the period is left, the merged ones are those up to its end.
LEMMA NothingDue ==
  ASSUME chart \in Charts, Merged, Running, ~Due, EndInstant \in Int
  PROVE  running = SumUpTo(EndInstant)
<1>1. /\ Len(chart.events) \in Nat /\ DOMAIN chart.events = 1 .. Len(chart.events)
      /\ \A i \in DOMAIN chart.events : chart.events[i].created \in Nat
      /\ \A i, j \in DOMAIN chart.events : i < j => chart.events[i].created <= chart.events[j].created
  BY ChartFacts
<1>2. PICK e \in Int : e = EndInstant
  OBVIOUS
<1>3. /\ idx \in 0 .. Len(chart.events) /\ running = SumTo(idx)
      /\ \A i \in 1 .. idx : chart.events[i].created <= e
      /\ ~(idx < Len(chart.events) /\ chart.events[idx + 1].created <= e)
  BY <1>2 DEF Merged, Due
<1>4. {i \in DOMAIN chart.events : chart.events[i].created <= e} = 1 .. idx
  <2>1. ASSUME NEW i \in DOMAIN chart.events, chart.events[i].created <= e, i \notin 1 .. idx
        PROVE  FALSE
    <3>1. idx + 1 \in DOMAIN chart.events /\ idx < Len(chart.events) /\ (i = idx + 1 \/ idx + 1 < i)
      BY <1>1, <1>3, <2>1
    <3>2. chart.events[idx + 1].created <= chart.events[i].created
      BY <1>1, <2>1, <3>1
    <3>3. chart.events[idx + 1].created <= e
      BY <1>1, <2>1, <3>1, <3>2
    <3>4. QED
      BY <1>3, <3>1, <3>3
  <2>2. 1 .. idx \subseteq DOMAIN chart.events
    BY <1>1, <1>3
  <2>3. QED
    BY <1>3, <2>1, <2>2
<1>5. QED
  BY <1>2, <1>3, <1>4 DEF SumTo, SumUpTo

\* A period is emitted.
LEMMA EmitKeeps ==
  ASSUME chart \in Charts, Walking, Merged, Emitted, Emit
  PROVE  chart' \in Charts /\ Walking' /\ Merged' /\ Emitted'
<1>1. /\ Running /\ ~Due
      /\ points' = Append(points, [end |-> EndInstant, closing |-> running])
      /\ cur' = NextStart(chart.granularity, cur)
      /\ chart' = chart /\ idx' = idx /\ running' = running
  BY DEF Emit
<1>2. /\ first' = first /\ last' = last /\ \A n : SumTo(n)' = SumTo(n)
      /\ \A x : SumUpTo(x)' = SumUpTo(x)
  BY <1>1, SameChart
<1>3. PICK g \in Granularity : g = chart.granularity
  BY ChartFacts
<1>4. cur \in Int /\ Begins(g, cur) /\ HasNext(g, cur)
  BY <1>1, <1>3, NextCovered DEF Walking, Running
<1>5. PICK next \in Int : next = NextStart(g, cur)
  BY <1>4, PeriodFacts
<1>6. cur < next /\ Begins(g, next) /\ cur' = next
  BY <1>1, <1>3, <1>4, <1>5, PeriodFacts
<1>7. EndInstant = EndOfDay(next - 1) /\ EndInstant \in Int
  BY <1>3, <1>5, EndOfDayFacts DEF EndInstant
<1>8. first \in Int /\ last \in Int /\ cur <= last
  BY <1>1, RangeFacts DEF Running
<1>9. cur <= first => first < next
  BY <1>1, <1>3, <1>5 DEF Walking
<1>10. Walking'
  <2>1. ~(cur' <= first')
    BY <1>2, <1>4, <1>6, <1>8, <1>9
  <2>2. cur' \in Int /\ Begins(chart.granularity, cur)'
    BY <1>1, <1>3, <1>6 DEF Begins
  <2>3. QED
    BY <2>1, <2>2 DEF Walking
<1>11. Merged'
  <2>1. ASSUME Running'
        PROVE  \A i \in 1 .. idx : chart.events[i].created <= EndInstant'
    <3>1. HasNext(g, next)
      <4>1. next <= last
        BY <1>2, <1>6, <2>1 DEF Running
      <4>2. QED
        BY <1>3, <1>6, <4>1, NextCovered
    <3>2. PICK after \in Int : after = NextStart(g, next) /\ next < after
      BY <1>6, <3>1, PeriodFacts
    <3>3. EndInstant' = EndOfDay(after - 1)
      BY <1>1, <1>3, <1>6, <3>2 DEF EndInstant
    <3>4. EndOfDay(next - 1) < EndOfDay(after - 1) /\ EndOfDay(after - 1) \in Int
      BY <3>2, EndOfDayFacts
    <3>5. \A i \in 1 .. idx : chart.events[i].created <= EndInstant /\ chart.events[i].created \in Nat
      BY <1>1, ChartFacts DEF Merged
    <3>6. QED
      BY <1>7, <3>3, <3>4, <3>5
  <2>2. QED
    BY <1>1, <1>2, <2>1 DEF Merged
<1>12. PICK old, new, p : /\ old = points /\ new = points' /\ new = Append(old, p)
                          /\ p = [end |-> EndInstant, closing |-> running]
  BY <1>1
<1>13. PICK S : old \in Seq(S)
  BY <1>12 DEF Emitted
<1>14. OneLonger(old, new, p)
  BY <1>12, <1>13, AppendGrows
<1>a. PICK n \in Nat : n = Len(old)
  BY <1>14 DEF OneLonger
<1>15. /\ \E T : new \in Seq(T)
       /\ DOMAIN old = 1 .. n /\ DOMAIN new = (1 .. n) \union {n + 1}
       /\ \A i \in 1 .. n : new[i] = old[i]
       /\ new[n + 1] = p
  BY <1>14, <1>a DEF OneLonger
<1>16. p.end = EndOfDay(next - 1) /\ p.closing = SumUpTo(p.end)
  BY <1>1, <1>7, <1>12, NothingDue
<1>17. /\ \A i \in 1 .. n : /\ old[i].closing = SumUpTo(old[i].end)
                            /\ \E day \in Int : day < cur /\ old[i].end = EndOfDay(day)
       /\ \A i, j \in 1 .. n : i < j => old[i].end < old[j].end
       /\ first <= last =>
            {old[i].end : i \in 1 .. n} =
              {EndOfDay(LastOfPeriod(g, d)) : d \in {d \in first .. last : d < cur}}
  BY <1>3, <1>12, <1>15 DEF Emitted
<1>18. \A i \in DOMAIN new : /\ new[i].closing = SumUpTo(new[i].end)
                             /\ \E day \in Int : day < next /\ new[i].end = EndOfDay(day)
  <2>1. ASSUME NEW i \in 1 .. n
        PROVE  /\ new[i].closing = SumUpTo(new[i].end)
               /\ \E day \in Int : day < next /\ new[i].end = EndOfDay(day)
    <3>1. PICK day \in Int : day < cur /\ old[i].end = EndOfDay(day)
      BY <1>17
    <3>2. day < next
      BY <1>4, <1>6, <3>1
    <3>3. QED
      BY <1>15, <1>17, <3>1, <3>2
  <2>2. /\ new[n + 1].closing = SumUpTo(new[n + 1].end)
        /\ \E day \in Int : day < next /\ new[n + 1].end = EndOfDay(day)
    <3>1. next - 1 \in Int /\ next - 1 < next
      OBVIOUS
    <3>2. QED
      BY <1>15, <1>16, <3>1
  <2>3. QED
    BY <1>15, <2>1, <2>2
<1>19. \A i, j \in DOMAIN new : i < j => new[i].end < new[j].end
  <2>1. ASSUME NEW i \in 1 .. n
        PROVE  new[i].end < new[n + 1].end
    <3>1. PICK day \in Int : day < cur /\ old[i].end = EndOfDay(day)
      BY <1>17
    <3>2. day < next - 1
      BY <1>4, <1>6, <3>1
    <3>3. EndOfDay(day) < EndOfDay(next - 1)
      BY <3>2, EndOfDayFacts
    <3>4. QED
      BY <1>15, <1>16, <3>1, <3>3
  <2>2. \A i, j \in 1 .. n : i < j => new[i].end < new[j].end
    BY <1>15, <1>17
  <2>3. \A j \in 1 .. n : ~(n + 1 < j)
    BY <1>a
  <2>4. QED
    BY <1>a, <1>15, <2>1, <2>2, <2>3
<1>20. ASSUME first <= last
       PROVE  {new[i].end : i \in DOMAIN new} =
                {EndOfDay(LastOfPeriod(g, d)) : d \in {d \in first .. last : d < next}}
  <2>1. {new[i].end : i \in DOMAIN new} = {old[i].end : i \in 1 .. n} \union {EndOfDay(next - 1)}
    BY <1>15, <1>16
  <2>2. \A d \in first .. last : cur <= d /\ d < next => LastOfPeriod(g, d) = next - 1
    BY <1>4, <1>5, <1>8, LastDayOfPeriod
  <2>3. PICK d \in first .. last : cur <= d /\ d < next
    <3>1. CASE cur <= first
      BY <1>8, <1>9, <1>20, <3>1
    <3>2. CASE ~(cur <= first)
      BY <1>4, <1>6, <1>8, <1>20, <3>2
    <3>3. QED
      BY <3>1, <3>2
  <2>4. \A x \in first .. last : x < next <=> (x < cur \/ (cur <= x /\ x < next))
    BY <1>4, <1>6, <1>8
  <2>5. ASSUME NEW x \in first .. last, x < next
        PROVE  EndOfDay(LastOfPeriod(g, x)) \in {old[i].end : i \in 1 .. n} \union {EndOfDay(next - 1)}
    BY <1>17, <1>20, <2>2, <2>4, <2>5
  <2>6. ASSUME NEW y \in {old[i].end : i \in 1 .. n} \union {EndOfDay(next - 1)}
        PROVE  \E x \in first .. last : x < next /\ y = EndOfDay(LastOfPeriod(g, x))
    <3>1. CASE y = EndOfDay(next - 1)
      BY <2>2, <2>3, <3>1
    <3>2. CASE y \in {old[i].end : i \in 1 .. n}
      <4>1. PICK x \in first .. last : x < cur /\ y = EndOfDay(LastOfPeriod(g, x))
        BY <1>17, <1>20, <3>2
      <4>2. QED
        BY <2>4, <4>1
    <3>3. QED
      BY <3>1, <3>2
  <2>7. QED
    BY <2>1, <2>5, <2>6
<1>21. Emitted'
  <2>1. points' = new /\ cur' = next /\ chart' = chart /\ chart.granularity = g
    BY <1>1, <1>3, <1>6, <1>12
  <2>2. (\E T : points \in Seq(T))'
    BY <1>15, <2>1
  <2>3. (\A i \in DOMAIN points :
           /\ points[i].closing = SumUpTo(points[i].end)
           /\ \E day \in Int : day < cur /\ points[i].end = EndOfDay(day))'
    BY <1>2, <1>18, <2>1
  <2>4. (\A i, j \in DOMAIN points : i < j => points[i].end < points[j].end)'
    BY <1>19, <2>1
  <2>5. (first <= last =>
           {points[i].end : i \in DOMAIN points} =
             {EndOfDay(LastOfPeriod(chart.granularity, d)) : d \in {d \in first .. last : d < cur}})'
    BY <1>2, <1>20, <2>1
  <2>6. QED
    BY <2>2, <2>3, <2>4, <2>5 DEF Emitted
<1>22. QED
  BY <1>1, <1>10, <1>11, <1>21

\* A job of the other kind leaves the walk alone.
LEMMA IdleKeeps ==
  ASSUME Inv, UNCHANGED history
  PROVE  Inv'
<1>1. chart' = chart /\ cur' = cur /\ idx' = idx /\ running' = running /\ points' = points
  BY DEF history
<1>2. /\ first' = first /\ last' = last /\ \A n : SumTo(n)' = SumTo(n)
      /\ \A x : SumUpTo(x)' = SumUpTo(x)
  BY <1>1, SameChart
<1>3. Walking => Walking'
  BY <1>1, <1>2 DEF Walking, Running
<1>4. Merged => Merged'
  BY <1>1, <1>2 DEF Merged, Running, EndInstant
<1>5. Emitted => Emitted'
  BY <1>1, <1>2 DEF Emitted
<1>6. QED
  BY <1>1, <1>3, <1>4, <1>5 DEF Inv

\* The invariant of the walk and the merge, in every behaviour.
THEOREM WalkInvariant == Spec => []Inv
<1>1. Init => Inv
  <2>1. CASE HistoryInit
    <3>1. chart \in Charts /\ points = <<>>
      BY <2>1 DEF HistoryInit
    <3>2. QED
      BY <2>1, <3>1, InitHistory DEF Inv
  <2>2. CASE chart = NoJob /\ points = <<>>
    BY <2>2 DEF Inv
  <2>3. QED
    BY <2>1, <2>2 DEF Init
<1>2. Inv /\ [Next]_vars => Inv'
  <2> SUFFICES ASSUME Inv, [Next]_vars PROVE Inv'
    OBVIOUS
  <2>1. CASE chart # NoJob /\ HistoryNext
    <3>1. chart' = chart
      BY <2>1 DEF HistoryNext, Merge, Emit
    <3>2. chart \in Charts /\ Walking /\ Merged /\ Emitted
      BY <2>1 DEF Inv
    <3>3. chart' \in Charts /\ Walking' /\ Merged' /\ Emitted'
      BY <2>1, <3>2, MergeKeeps, EmitKeeps DEF HistoryNext
    <3>4. QED
      BY <2>1, <3>1, <3>3 DEF Inv
  <2>2. CASE UNCHANGED history
    BY <2>2, IdleKeeps
  <2>3. QED
    BY <2>1, <2>2 DEF Next, vars
<1>3. QED
  BY <1>1, <1>2, PTL DEF Spec

\* The invariant says what the history should be.
LEMMA InvHistory == Inv => HistoryIsReference
<1>1. SUFFICES ASSUME Inv, chart # NoJob
               PROVE  /\ \A i \in DOMAIN points : points[i].closing = SumUpTo(points[i].end)
                      /\ \A i, j \in DOMAIN points : i < j => points[i].end < points[j].end
                      /\ (~Running /\ first <= last) =>
                           {points[i].end : i \in DOMAIN points} =
                             {EndOfDay(LastOfPeriod(chart.granularity, d)) : d \in first .. last}
  BY DEF HistoryIsReference
<1>2. chart \in Charts /\ Walking /\ Emitted
  BY <1>1 DEF Inv
<1>3. ASSUME ~Running
      PROVE  {d \in first .. last : d < cur} = first .. last
  <2>1. first \in Int /\ last \in Int /\ cur \in Int /\ ~(cur <= last)
    BY <1>2, <1>3, RangeFacts DEF Walking, Running
  <2>2. QED
    BY <2>1
<1>4. QED
  BY <1>2, <1>3 DEF Emitted

\* A balance history (reporting.py) has exactly the periods its range touches, in order,
\* and each closing balance is the sum of all postings up to the period's last instant.
THEOREM HistoriesAreSums == Spec => []HistoryIsReference
<1>1. QED
  BY InvHistory, WalkInvariant, PTL

\* The four readings of a day divide the instants in one place.
LEMMA OnePlace ==
  ASSUME NEW day \in Int
  PROVE  /\ AsOf(Date(day)) = EndOfDay(day)
         /\ EndExclusive(Date(day)) = EndOfDay(day) + 1
         /\ Start(Date(day + 1)) = EndOfDay(day) + 1
<1>1. ASSUME NEW d \in Int
      PROVE  Date(d) # NoBound /\ DateOnly(Date(d)) /\ Date(d).day = d
  <2>1. Date(d) \in [day : Int, time : {NoTime}, offset : {NoOffset}]
    BY DEF Date
  <2>2. QED
    BY <2>1, BoundAssumption DEF Date, DateOnly
<1>2. DayLength \in Int
  BY DayAssumption
<1>3. PICK e \in Int : e = day * DayLength
  BY <1>2
<1>4. (day + 1) * DayLength = e + DayLength
  BY <1>2, <1>3
<1>5. EndOfDay(day) = e + DayLength - 1
  BY <1>3 DEF EndOfDay, Midnight
<1>6. AsOf(Date(day)) = EndOfDay(day)
  BY <1>1 DEF AsOf
<1>7. EndExclusive(Date(day)) = e + DayLength
  BY <1>1, <1>3 DEF EndExclusive, Parse, Midnight
<1>8. Start(Date(day + 1)) = e + DayLength
  <2>1. day + 1 \in Int
    OBVIOUS
  <2>2. Date(day + 1) # NoBound /\ DateOnly(Date(day + 1)) /\ Date(day + 1).day = day + 1
    BY <1>1, <2>1
  <2>3. QED
    BY <1>4, <2>2 DEF Start, Parse, Midnight
<1>9. QED
  BY <1>2, <1>5, <1>6, <1>7, <1>8

\* Every period emitted ends with a day.
LEMMA InvDates == Inv => DatesAgree
<1>1. SUFFICES ASSUME Inv, NEW i \in DOMAIN points,
                      NEW instant \in (points[i].end - DayLength) .. (points[i].end + DayLength)
               PROVE  LET end == points[i].end
                          day == DayOf(end)
                      IN /\ instant <= end <=> instant <= AsOf(Date(day))
                         /\ instant <= end <=> instant < EndExclusive(Date(day))
                         /\ instant <= end <=> ~(instant >= Start(Date(day + 1)))
  BY DEF DatesAgree
<1>2. Emitted
  BY <1>1 DEF Inv
<1>3. PICK day \in Int : points[i].end = EndOfDay(day)
  BY <1>2 DEF Emitted
<1>4. PICK e \in Int : e = EndOfDay(day) /\ DayOf(e) = day
  BY EndOfDayFacts
<1>5. AsOf(Date(day)) = e /\ EndExclusive(Date(day)) = e + 1 /\ Start(Date(day + 1)) = e + 1
  BY <1>4, OnePlace
<1>6. instant \in Int
  BY <1>1, <1>3, <1>4, DayAssumption
<1>7. QED
  BY <1>3, <1>4, <1>5, <1>6

\* The readings of one date agree (period.py): the end of a chart's period, an income range
\* up to it, a balance sheet as of it and a range from the next day on.
THEOREM DatesDivideAlike == Spec => []DatesAgree
<1>1. QED
  BY InvDates, WalkInvariant, PTL
===============================================================================
