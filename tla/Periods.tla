-------------------------------- MODULE Periods --------------------------------
(***************************************************************************)
(* The dates of a report: app/services/period.py, which turns what a       *)
(* caller writes into instants.  Instants are integers, DayLength of them  *)
(* to a UTC day, and day 0 begins at instant 0; one instant stands for a   *)
(* microsecond, the resolution of timestamptz.                             *)
(***************************************************************************)
EXTENDS Integers, FiniteSetsExt

CONSTANTS
  DayLength,
  NoTime,     \* the text is a bare date
  NoOffset,   \* the text names no time zone
  NoBound     \* the caller gives no bound

ASSUME DayAssumption == DayLength \in Nat \ {0}

DayOf(instant) == instant \div DayLength
Midnight(day) == day * DayLength

\* What a caller writes: a day, perhaps a time of that day, perhaps a time zone.
Date(day) == [day |-> day, time |-> NoTime, offset |-> NoOffset]
Timestamp(day, time, offset) == [day |-> day, time |-> time, offset |-> offset]
DateOnly(text) == text.time = NoTime

\* No bound is none of the dates.
ASSUME BoundAssumption == NoBound \notin [day : Int, time : {NoTime}, offset : {NoOffset}]

\* What _parse accepts, or no bound at all.
Readable(text) ==
  text # NoBound =>
    /\ text.day \in Int
    /\ ~DateOnly(text) => text.time \in Int /\ text.offset \in Int \union {NoOffset}

\* The instant a text names, in UTC: a bare date is its midnight, and a time
\* without a zone is taken as UTC.
Parse(text) ==
  IF DateOnly(text) THEN Midnight(text.day)
  ELSE Midnight(text.day) + text.time
       - (IF text.offset = NoOffset THEN 0 ELSE text.offset)

Start(text) == IF text = NoBound THEN NoBound ELSE Parse(text)

\* A named day is included in full; a timestamp is the exact cutoff.
EndExclusive(text) ==
  IF text = NoBound THEN NoBound
  ELSE Parse(text) + (IF DateOnly(text) THEN DayLength ELSE 0)

EndOfDay(day) == Midnight(day) + DayLength - 1

\* MUTANT of AsOf: a bare date means its midnight.
AsOfMidnight(text) == Parse(text)

\* Through the last instant of a named day.
AsOf(text) == IF DateOnly(text) THEN EndOfDay(text.day) ELSE Parse(text)

-------------------------------------------------------------------------------
(* The days balance_history reports on: from the start it is given or the    *)
(* first posting, to the end it is given or the later of the last posting    *)
(* and today.  `instants` are the created_at of the postings, `now` is the   *)
(* application's clock.                                                      *)

FirstDay(start, instants, now) ==
  IF start # NoBound THEN DayOf(Start(start))
  ELSE DayOf(IF instants # {} THEN Min(instants) ELSE now)

\* MUTANT of LastDay: the chart always ends today.
LastDayIsToday(start, end, instants, now) ==
  IF end # NoBound THEN DayOf(EndExclusive(end) - 1) ELSE DayOf(now)

\* An exclusive end belongs to the day of the instant before it.
LastDay(start, end, instants, now) ==
  IF end # NoBound THEN DayOf(EndExclusive(end) - 1)
  ELSE IF instants # {} THEN Max({DayOf(Max(instants)), DayOf(now)})
  ELSE FirstDay(start, instants, now)
===============================================================================
