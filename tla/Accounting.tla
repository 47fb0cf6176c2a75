------------------------------ MODULE Accounting ------------------------------
(***************************************************************************)
(* The chart of accounts and the double-entry rules every component of the *)
(* ledger shares: app/domain/enums.py, and the arithmetic that the posting *)
(* engine and the reports do on amounts in minor units.                    *)
(*                                                                         *)
(* An account's tenant, type and currency never change after its creation  *)
(* (update_account only takes a name and an external_id), so they are      *)
(* constants.  Account identifiers are naturals: all the code uses of a    *)
(* UUID is equality and the total order it sorts them by.                  *)
(***************************************************************************)
EXTENDS Integers, Sequences, FiniteSetsExt, Functions

CONSTANTS
  Tenants,
  Currencies,
  Accounts,     \* the accounts that exist
  TenantOf,     \* the tenant an account belongs to
  TypeOf,       \* its type, one of the five classical ones
  CurrencyOf    \* its currency

Direction == {"debit", "credit"}
AccountType == {"asset", "liability", "equity", "revenue", "expense"}

ASSUME ChartAssumption ==
  /\ Accounts \subseteq Nat
  /\ IsFiniteSet(Accounts)
  /\ TenantOf \in [Accounts -> Tenants]
  /\ TypeOf \in [Accounts -> AccountType]
  /\ CurrencyOf \in [Accounts -> Currencies]

AccountsOf(tenant) == {a \in Accounts : TenantOf[a] = tenant}

-------------------------------------------------------------------------------

\* MUTANT of Opposite: the direction is kept.
SameDirection(direction) == direction

Opposite(direction) == IF direction = "debit" THEN "credit" ELSE "debit"

NormalBalance(type) == IF type \in {"asset", "expense"} THEN "debit" ELSE "credit"

\* What one posting adds to the account's signed balance: balance_sign * amount.
Effect(a, direction, amount) ==
  IF direction = NormalBalance(TypeOf[a]) THEN amount ELSE -amount

\* Debits and credits are kept apart; the signed balance is derived from them.
Totals == [debits: Nat, credits: Nat]
ZeroTotals == [debits |-> 0, credits |-> 0]

Signed(a, totals) ==
  IF NormalBalance(TypeOf[a]) = "debit"
  THEN totals.debits - totals.credits
  ELSE totals.credits - totals.debits

\* MUTANT of AddTo: every line is added to the debits.
AddToDebits(totals, direction, amount) == [totals EXCEPT !.debits = @ + amount]

AddTo(totals, direction, amount) ==
  IF direction = "debit"
  THEN [totals EXCEPT !.debits = @ + amount]
  ELSE [totals EXCEPT !.credits = @ + amount]

-------------------------------------------------------------------------------

\* Lines as a caller gives them: the accounts may be anything.
AreLines(rows) ==
  /\ Len(rows) \in Nat /\ DOMAIN rows = 1 .. Len(rows)
  /\ \A i \in DOMAIN rows : rows[i].direction \in Direction /\ rows[i].amount \in Nat

\* A line of a transaction once it is validated.
Row == [account: Accounts, direction: Direction, amount: Nat \ {0}]

Touched(rows) == {rows[i].account : i \in DOMAIN rows}

AmountOf(rows) == [i \in DOMAIN rows |-> rows[i].amount]

SumOver(rows, Test(_)) ==
  SumFunctionOnSet(AmountOf(rows), {i \in DOMAIN rows : Test(rows[i])})

SideTotal(rows, currency, direction) ==
  SumOver(rows, LAMBDA row : /\ CurrencyOf[row.account] = currency
                             /\ row.direction = direction)

\* Debits equal credits, currency by currency.
Balanced(rows) ==
  \A c \in Currencies : SideTotal(rows, c, "debit") = SideTotal(rows, c, "credit")

\* What the rows add to the debits and credits of account a.
Delta(a, rows) ==
  [debits |-> SumOver(rows, LAMBDA row : row.account = a /\ row.direction = "debit"),
   credits |-> SumOver(rows, LAMBDA row : row.account = a /\ row.direction = "credit")]

\* The aggregate deltas move each stored balance.
Moved(totals, rows) ==
  [a \in Accounts |-> [debits |-> totals[a].debits + Delta(a, rows).debits,
                       credits |-> totals[a].credits + Delta(a, rows).credits]]

\* Each line is stamped with the account's balance before and after it.
Threaded(totals, rows) ==
  [i \in DOMAIN rows |->
     LET a == rows[i].account
         before == Signed(a, totals[a]) + Signed(a, Delta(a, SubSeq(rows, 1, i - 1)))
     IN [account |-> a, direction |-> rows[i].direction, amount |-> rows[i].amount,
         before |-> before,
         after |-> before + Effect(a, rows[i].direction, rows[i].amount)]]
===============================================================================
