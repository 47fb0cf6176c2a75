----------------------------- MODULE AbstractLedger -----------------------------
(***************************************************************************)
(* What the ledger promises its callers, without requests, locks, keys     *)
(* lookups or snapshots: a book of journal entries that only grows, one    *)
(* whole, balanced entry at a time, and balances that move exactly by what *)
(* the entry says.  README.md of the repository: immutable, double-entry,  *)
(* idempotent on a client key, corrected only by reversing entries.        *)
(***************************************************************************)
EXTENDS Accounting

CONSTANTS Ids, NoKey, NoTxn

VARIABLES
  book,   \* the entries, by transaction id
  net     \* the signed balance of each account

ledger == <<book, net>>

\* What a list of rows adds to the signed balance of account a.
NetEffect(a, entryRows) ==
  Signed(a, [debits |-> SumOver(entryRows, LAMBDA row : row.account = a /\ row.direction = "debit"),
             credits |-> SumOver(entryRows, LAMBDA row : row.account = a /\ row.direction = "credit")])

WellFormed(entry) ==
  /\ Len(entry.rows) >= 2
  /\ Balanced(entry.rows)
  /\ \A i \in DOMAIN entry.rows :
       /\ entry.rows[i].account \in Accounts
       /\ entry.rows[i].amount > 0
       /\ TenantOf[entry.rows[i].account] = entry.tenant

\* A tenant's key is used once.
KeyIsFree(entry) ==
  \A t \in DOMAIN book :
    (entry.key # NoKey /\ book[t].tenant = entry.tenant) => book[t].key # entry.key

\* A reversal names an entry of its tenant that nothing reversed yet, and takes
\* back what that entry did to every account.
ReversesOnce(entry) ==
  entry.reverses # NoTxn =>
    /\ entry.reverses \in DOMAIN book
    /\ book[entry.reverses].tenant = entry.tenant
    /\ \A t \in DOMAIN book : book[t].reverses # entry.reverses
    /\ \A a \in Accounts :
         NetEffect(a, entry.rows) = -NetEffect(a, book[entry.reverses].rows)

Init ==
  /\ book = << >>
  /\ net = [a \in Accounts |-> 0]

\* The entry is whatever the step writes under t; the conjuncts constrain it.
Record(t) ==
  /\ t \notin DOMAIN book
  /\ DOMAIN book' = DOMAIN book \union {t}
  /\ \A u \in DOMAIN book : book'[u] = book[u]
  /\ WellFormed(book'[t])
  /\ KeyIsFree(book'[t])
  /\ ReversesOnce(book'[t])
  /\ net' = [a \in Accounts |-> net[a] + NetEffect(a, book'[t].rows)]

Next == \E t \in Ids : Record(t)

Spec == Init /\ [][Next]_ledger
===============================================================================
