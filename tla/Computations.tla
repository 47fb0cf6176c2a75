------------------------------ MODULE Computations ------------------------------
(***************************************************************************)
(* The pure computations of the system, one job at a time: a balance       *)
(* history (BalanceHistory) or the way of an amount (Amounts), each judged *)
(* against what it should compute.  The jobs share nothing.                *)
(***************************************************************************)
EXTENDS BalanceHistory, Amounts

CONSTANT NoJob

vars == <<history, amounts>>

Init ==
  \/ HistoryInit /\ entry = NoJob /\ stage = NoJob /\ posted = <<>>
  \/ AmountsInit /\ chart = NoJob /\ cur = 0 /\ idx = 0 /\ running = 0 /\ points = <<>>

Next ==
  \/ chart # NoJob /\ HistoryNext /\ UNCHANGED amounts
  \/ entry # NoJob /\ AmountsNext /\ UNCHANGED history

Spec == Init /\ [][Next]_vars

-------------------------------------------------------------------------------
(* What the computations should yield. *)

\* The postings of a chart up to an instant, summed.
SumUpTo(instant) ==
  SumFunctionOnSet(Effects, {i \in DOMAIN chart.events : chart.events[i].created <= instant})

\* Whether a period of this granularity ends with the day.
EndsPeriod(granularity, day) ==
  CASE granularity = "day" -> TRUE
    [] granularity = "week" -> (day + 1 - Monday) % 7 = 0
    [] granularity = "month" -> \E y \in DOMAIN FirstOf : \E m \in 1 .. 12 : FirstOf[y][m] = day + 1

\* The day on which the period of `day` ends.
LastOfPeriod(granularity, day) ==
  Min({d \in day .. (day + 31) : EndsPeriod(granularity, d)})

\* balance_history emits exactly the periods its range touches, in order, each with
\* the sum of every posting up to its last instant ("cumulative from inception",
\* reporting.py:376): the single pass over the postings (reporting.py:423-426) loses
\* none that lies before the range, in a gap, or on the border of two periods, over
\* the turn of a year and a leap day too.  (Of a range that ends before it starts,
\* the walk still emits the period that holds both.)
HistoryIsReference ==
  chart # NoJob =>
    /\ \A i \in DOMAIN points : points[i].closing = SumUpTo(points[i].end)
    /\ \A i, j \in DOMAIN points : i < j => points[i].end < points[j].end
    /\ (~Running /\ first <= last) =>
         {points[i].end : i \in DOMAIN points} =
           {EndOfDay(LastOfPeriod(chart.granularity, d)) : d \in first .. last}

\* The readings of one date agree: a period of a chart that ends with a day, an
\* income range that ends with it, a balance sheet as of it, and a range that starts
\* with the day after divide the instants in the same place (period.py:3-18).  So
\* the closing balances of a chart are those of the sheets of the same dates, and
\* the retained earnings of a sheet are the income of all time up to its date.
DatesAgree ==
  \A i \in DOMAIN points :
    LET end == points[i].end
        day == DayOf(end)
    IN \A instant \in (end - DayLength) .. (end + DayLength) :
         /\ instant <= end <=> instant <= AsOf(Date(day))
         /\ instant <= end <=> instant < EndExclusive(Date(day))
         /\ instant <= end <=> ~(instant >= Start(Date(day + 1)))

\* m minor units are exactly the amount of the text.
SameValue(m, text, exponent) == m * 10 ^ text.frac = text.coef * 10 ^ exponent

InContext(texts) == \A i \in DOMAIN texts : Digits(texts[i].coef) <= Precision

\* What a form posts is to the last digit what was entered, and what the form lets
\* through and the currency can represent is posted: its BigInt sums and the sums of
\* the engine agree.  Money "refuses any amount that cannot be represented exactly"
\* (money.py:13) as long as the amounts fit into the precision of the decimal
\* context; a longer one is rounded by the multiplication (money.py:49) instead.
FormsExact ==
  (entry # NoJob /\ entry \in Forms /\ InContext(entry.debits) /\ InContext(entry.credits)) =>
    /\ stage = "posted" =>
         /\ \A i \in DOMAIN entry.debits : SameValue(posted[1][i], entry.debits[i], entry.exponent)
         /\ \A i \in DOMAIN entry.credits : SameValue(posted[2][i], entry.credits[i], entry.exponent)
    /\ stage = "rejected" =>
         \E texts \in {entry.debits, entry.credits} : \E i \in DOMAIN texts :
           \A m \in 0 .. 10 ^ Precision : ~SameValue(m, texts[i], entry.exponent)

\* What a connector posts is the upstream amount to the nearest minor unit, and it
\* gives up on none that is worth one: Open Collective's minor units come through
\* unchanged within the context's precision, and a Plaid amount is rejected only when
\* it rounds to nothing.
ImportsNearest ==
  (entry # NoJob /\ entry \in Upstream) =>
    LET n == entry.amount
        off == IF entry.source = "plaid" THEN 10 ^ n.frac ELSE 1
        exact == Abs(n.coef) * (IF entry.source = "plaid" THEN 10 ^ entry.exponent ELSE 1)
    IN (entry.source = "plaid" \/ Digits(n.coef) <= Precision) =>
         /\ stage = "posted" => 2 * Abs(posted[1] * off - exact) <= off
         /\ stage = "rejected" => 2 * exact <= off

\* An amount arrives in the ledger as it was given: entered into a form to the last
\* digit, or sent by a connector to the nearest minor unit.
AmountsArrive == FormsExact /\ ImportsNearest
===============================================================================
