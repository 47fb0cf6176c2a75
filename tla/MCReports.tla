-------------------------------- MODULE MCReports --------------------------------
(***************************************************************************)
(* A small instance of Reports: tenant a has the usd accounts 1 (asset), 2 *)
(* (revenue) and 3 (equity) and the eur asset 4; the usd asset 5 is tenant *)
(* b's.  Two entries of a and one of b are there at the start.             *)
(***************************************************************************)
EXTENDS ReportProperties

CONSTANTS ta, tb, k1, usd, eur

MCTenantOf == [a \in Accounts |-> IF a = 5 THEN tb ELSE ta]
MCTypeOf == [a \in Accounts |->
  CASE a = 2 -> "revenue" [] a = 3 -> "equity" [] OTHER -> "asset"]
MCCurrencyOf == [a \in Accounts |-> IF a = 4 THEN eur ELSE usd]

row(a, d, m) == [account |-> a, direction |-> d, amount |-> m]
transfer(from, to, m) == <<row(to, "debit", m), row(from, "credit", m)>>
draftOf(t, k, rs) == [tenant |-> t, key |-> k, rows |-> rs]

MCOpening ==
  <<draftOf(ta, NoKey, transfer(3, 1, 2)), draftOf(tb, NoKey, <<row(5, "debit", 1), row(5, "credit", 1)>>)>>

\* A sale; its refund, to close accounts with; an exchange of two lines on one
\* account.
MCDrafts ==
  {draftOf(ta, k1, transfer(2, 1, 1)),
   draftOf(ta, NoKey, transfer(1, 3, 2)),
   draftOf(ta, NoKey, <<row(1, "debit", 2), row(2, "credit", 1), row(1, "credit", 1)>>)}

ask(op) == [op |-> op, tenant |-> ta]
of(op, a) == [op |-> op, tenant |-> ta, account |-> a]
income(from, to, c) == [op |-> "income", tenant |-> ta, start |-> from, end |-> to, currency |-> c]
sheet(at, c) == [op |-> "sheet", tenant |-> ta, at |-> at, currency |-> c]
history(a, from, to) == [op |-> "history", tenant |-> ta, account |-> a, start |-> from, end |-> to]
search(a, c, least, from, to) ==
  [op |-> "search", tenant |-> ta, account |-> a, currency |-> c, least |-> least,
   start |-> from, end |-> to, limit |-> 1]

MCQuestions ==
  {income(Date(0), Date(0), usd), sheet(Date(0), AnyCurrency), sheet(Timestamp(1, 0, NoOffset), usd),
   ask("trial"), ask("integrity"), ask("portfolio"),
   of("balance", 1), of("balance", 5), of("statement", 1),
   history(1, NoBound, NoBound), history(2, Date(1), NoBound), history(1, Date(0), Date(0)),
   [op |-> "list", tenant |-> ta, limit |-> 1],
   search(NoBound, AnyCurrency, NoBound, NoBound, NoBound),
   search(1, usd, 2, Date(0), Date(1))}
===============================================================================
