----------------------------- MODULE MCComputations -----------------------------
(***************************************************************************)
(* A calendar around the turn of 2023 and the leap day of 2024, and        *)
(* amounts of up to four digits in a context of three.  Day 0 is           *)
(* 2023-11-01, a Wednesday.  Account 1 is debit-normal, 2 credit-normal.   *)
(***************************************************************************)
EXTENDS Computations

Lengths == [y2023 |-> <<31, 28, 31, 30, 31, 30, 31, 31, 30, 31, 30, 31>>,
            y2024 |-> <<31, 29, 31, 30, 31, 30, 31, 31, 30, 31, 30, 31>>]

\* The day a month of a year begins on, counted from the year's first.
Before(lengths, m) == MapThenSumSet(LAMBDA i : lengths[i], 1 .. (m - 1))
MCFirstOf ==
  [y \in 2023 .. 2024 |->
     IF y = 2023 THEN [m \in 1 .. 12 |-> Before(Lengths.y2023, m) - 304]
     ELSE [m \in 1 .. 12 |-> Before(Lengths.y2024, m) + 61]]

MCTenantOf == [a \in Accounts |-> CHOOSE tenant \in Tenants : TRUE]
MCTypeOf == <<"asset", "revenue">>
MCCurrencyOf == [a \in Accounts |-> CHOOSE currency \in Currencies : TRUE]

debit(created, amount) == [created |-> created, direction |-> "debit", amount |-> amount]
credit(created, amount) == [created |-> created, direction |-> "credit", amount |-> amount]

\* Instants are half days.  Postings around the ends of a day (58, 59), of the year
\* (61) and of February (120), two at once, and none.
EventLists ==
  {<<>>, <<debit(117, 3)>>, <<debit(116, 1), debit(117, 1), credit(118, 2), debit(121, 4)>>,
   <<debit(121, 2), credit(122, 1), debit(122, 5), debit(241, 1)>>}

Starts == {NoBound, Date(40), Date(58), Date(59), Date(119), Timestamp(60, 1, 1)}
Ends == {NoBound, Date(60), Date(121), Date(40), Timestamp(61, 0, NoOffset)}

MCCharts ==
  [account : Accounts, granularity : {"day", "week", "month"}, start : Starts, end : Ends,
   events : EventLists, now : {120, 130}]

dec(c, f) == [coef |-> c, frac |-> f]

Texts == {dec(0, 0), dec(1, 0), dec(2, 0), dec(10, 1), dec(15, 1), dec(5, 1), dec(25, 2), dec(125, 2),
          dec(20, 1), dec(1005, 2), dec(1005, 3), dec(999, 0), dec(9995, 1)}

MCForms ==
  [debits : {<<t>> : t \in Texts} \union {<<s, t>> : s, t \in Texts}, credits : {<<t>> : t \in Texts},
   exponent : 0 .. 2]

MCUpstream ==
  [source : {"plaid"}, amount : {dec(s * t.coef, t.frac) : s \in {-1, 1}, t \in Texts}
                                \union {dec(4, 3), dec(5, 3), dec(15, 3), dec(6, 3)},
   exponent : 0 .. 2]
  \union [source : {"opencollective"}, amount : {dec(c, 0) : c \in {-1005, -999, -15, 0, 1, 100, 120, 1005}},
          exponent : 0 .. 2]
===============================================================================
