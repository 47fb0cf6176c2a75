-------------------------------- MODULE Reports --------------------------------
(***************************************************************************)
(* The reads of the ledger, next to posts that run: balances.py (balance,  *)
(* statement, trial balance, integrity check), reporting.py (income        *)
(* statement, balance sheet, balance history), search_transactions of      *)
(* ledger.py and portfolio_summary of mcp/portfolio.py.                    *)
(*                                                                         *)
(* A read takes no lock and runs at READ COMMITTED, so each of its SELECTs *)
(* sees what is committed when it begins, and posts commit between two of  *)
(* them.  What a report computes from its rows once it has them is an      *)
(* operator on `got`, the rows each SELECT returned.  Reads never meet     *)
(* each other: one reader, which asks one question, is enough.             *)
(***************************************************************************)
EXTENDS Journal, Periods, SequencesExt

CONSTANTS
  Drafts,       \* what the posting calls ask for
  Questions,    \* what the reader may ask
  NoQuestion,
  AnyCurrency,  \* the report is not restricted to a currency
  AccountsLimit, \* how many accounts portfolio_summary lists: 500
  Skew          \* bound: how far the application's clock is from the database's

\* A draft has lines; a question has its bounds in a form period.py reads, and pages
\* of one entry at the least.
ASSUME QuestionAssumption ==
  /\ AccountsLimit \in Nat \ {0}
  /\ \A d \in Drafts : AreLines(d.rows)
  /\ NoQuestion \notin Questions
  /\ \A q \in Questions :
       /\ q.op = "history" => Readable(q.start) /\ Readable(q.end)
       /\ q.op \in {"search", "list"} => q.limit \in Nat \ {0}

VARIABLES
  question,   \* what the reader asked
  got,        \* what each SELECT of its report returned, and the clock if it read one
  marks       \* how many entries were committed at each of them (no code sees this)

reader == <<question, got, marks>>
vars == <<ledgerVars, reader>>

IncomeTypes == {"revenue", "expense"}
BalanceTypes == {"asset", "liability", "equity"}

ReportsInit ==
  /\ Init
  /\ question = NoQuestion
  /\ got = <<>>
  /\ marks = <<>>

Ask ==
  /\ question = NoQuestion
  /\ question' \in Questions
  /\ UNCHANGED <<ledgerVars, got, marks>>

\* The n-th SELECT of the report `op` returns `result`.
Select(op, n, result) ==
  /\ question # NoQuestion
  /\ question.op = op
  /\ Len(got) = n - 1
  /\ got' = Append(got, result)
  /\ marks' = Append(marks, Len(journal))
  /\ UNCHANGED <<ledgerVars, question>>

-------------------------------------------------------------------------------
(* What the SELECTs compute over the tables. *)

\* The i-th row of the k-th entry.
Posting(entry, k, i) ==
  LET line == entry.lines[i]
  IN [entry |-> k, line |-> i, created |-> entry.created, account |-> line.account,
      direction |-> line.direction, amount |-> line.amount, after |-> line.after]

PostingsOf(entries, ks) ==
  UNION {{Posting(entries[k], k, i) : i \in DOMAIN entries[k].lines} : k \in ks}

\* The postings of a tenant.
Postings(tenant) ==
  PostingsOf(journal, {k \in DOMAIN journal : journal[k].tenant = tenant})

SideSum(postings, direction) ==
  SumFunction([p \in {p \in postings : p.direction = direction} |-> p.amount])

\* GROUP BY account: the debits and the credits of every account that has postings.
ByAccount(postings) ==
  [a \in {p.account : p \in postings} |->
     LET mine == {p \in postings : p.account = a}
     IN [debits |-> SideSum(mine, "debit"), credits |-> SideSum(mine, "credit")]]

\* _account_activity, over the postings its bounds on created_at leave.
Activity(postings, types, currency) ==
  ByAccount({p \in postings : /\ TypeOf[p.account] \in types
                              /\ currency \in {AnyCurrency, CurrencyOf[p.account]}})

\* The total of the signed balances of a type in a currency.
Total(activity, type, currency) ==
  LET mine == {a \in DOMAIN activity : TypeOf[a] = type /\ CurrencyOf[a] = currency}
  IN SumFunction([a \in mine |-> Signed(a, activity[a])])

CurrenciesOf(activity) == {CurrencyOf[a] : a \in DOMAIN activity}

-------------------------------------------------------------------------------
(* income_statement: revenue less expenses over [start, end). *)

InRange(start, end, created) ==
  /\ start # NoBound => start <= created
  /\ end # NoBound => created < end

ReadIncome ==
  Select("income", 1,
    Activity({p \in Postings(question.tenant) :
                InRange(Start(question.start), EndExclusive(question.end), p.created)},
             IncomeTypes, question.currency))

NetIncome(activity, currency) ==
  Total(activity, "revenue", currency) - Total(activity, "expense", currency)

-------------------------------------------------------------------------------
(* balance_sheet: two reads of the activity. *)

ReadSheetBalances ==
  Select("sheet", 1,
    Activity({p \in Postings(question.tenant) : p.created <= AsOf(question.at)},
             BalanceTypes, question.currency))

\* MUTANT of ReadSheetIncome: the second read excludes the instant itself.
ReadSheetIncomeBefore ==
  Select("sheet", 2,
    Activity({p \in Postings(question.tenant) : p.created < AsOf(question.at)},
             IncomeTypes, question.currency))

ReadSheetIncome ==
  Select("sheet", 2,
    Activity({p \in Postings(question.tenant) : p.created <= AsOf(question.at)},
             IncomeTypes, question.currency))

\* assets = liabilities + equity + retained earnings, in minor units.
SheetBalanced(balances, income, currency) ==
  Total(balances, "asset", currency) =
    Total(balances, "liability", currency) + Total(balances, "equity", currency)
    + NetIncome(income, currency)

-------------------------------------------------------------------------------
(* trial_balance: the stored balances by currency. *)

StoredBalances(tenant) == [a \in AccountsOf(tenant) |-> balance[a]]

ReadTrial == Select("trial", 1, StoredBalances(question.tenant))

TrialBalanced(stored) ==
  \A c \in Currencies :
    LET mine == {a \in DOMAIN stored : CurrencyOf[a] = c}
    IN SumFunction([a \in mine |-> stored[a].debits]) =
       SumFunction([a \in mine |-> stored[a].credits])

-------------------------------------------------------------------------------
(* verify_integrity: the postings, then the stored balances. *)

\* MUTANT of ReadPostings: the postings of every tenant.
ReadAllPostings ==
  Select("integrity", 1, ByAccount(UNION {Postings(t) : t \in Tenants}))

ReadPostings == Select("integrity", 1, ByAccount(Postings(question.tenant)))

ReadStored == Select("integrity", 2, StoredBalances(question.tenant))

\* The accounts reported to have drifted; an account missing on a side counts as zero.
Discrepancies(computed, stored) ==
  LET at(f, a) == IF a \in DOMAIN f THEN f[a] ELSE ZeroTotals
  IN {a \in DOMAIN computed \union DOMAIN stored : at(computed, a) # at(stored, a)}

-------------------------------------------------------------------------------
(* get_account_balance and account_statement. *)

\* The account is the tenant's, or the call ends in account_not_found.
Found == question.account \in AccountsOf(question.tenant)

MissAccount ==
  /\ question # NoQuestion
  /\ question.op \in {"balance", "statement", "history"}
  /\ ~Found
  /\ Select(question.op, 1, "account_not_found")

ReadBalance ==
  /\ question # NoQuestion /\ question.op = "balance" /\ Found
  /\ Select("balance", 1, Signed(question.account, balance[question.account]))

AccountPostings == {p \in Postings(question.tenant) : p.account = question.account}

\* MUTANT of StatementOrder: newest first.
NewestFirst(p, q) == p.created >= q.created

\* ORDER BY created_at, id: ids are random, so postings of one instant come in
\* any order.
StatementOrder(p, q) == p.created <= q.created

\* limit is at least the number of postings here: a statement is one page.
ReadStatement ==
  /\ question # NoQuestion /\ question.op = "statement" /\ Found
  /\ \E s \in SetToSeqs(AccountPostings) :
       /\ \A i, j \in DOMAIN s : i < j => StatementOrder(s[i], s[j])
       /\ Select("statement", 1, s)

-------------------------------------------------------------------------------
(* balance_history: the postings, then the application's clock. *)

ReadEvents ==
  /\ question # NoQuestion /\ question.op = "history" /\ Found
  /\ Select("history", 1, AccountPostings)

ReadAppClock ==
  /\ question # NoQuestion /\ question.op = "history" /\ Found
  /\ \E now \in (clock - Skew) .. (clock + Skew) :
       /\ now >= 0
       /\ Select("history", 2, now)

Instants(events) == {p.created : p \in events}

ChartDays(events, now) ==
  FirstDay(question.start, Instants(events), now)
    .. LastDay(question.start, question.end, Instants(events), now)

\* The closing balance of each day of the range, cumulative from inception.  The
\* calendar and the loop that computes it are in BalanceHistory.
Closing(events, day) ==
  LET past == {p \in events : p.created <= EndOfDay(day)}
  IN SumFunction([p \in past |-> Effect(p.account, p.direction, p.amount)])

Points(events, now) == [day \in ChartDays(events, now) |-> Closing(events, day)]

-------------------------------------------------------------------------------
(* portfolio_summary: the active accounts, then one balance after the other. *)

\* list_accounts lists the newest AccountsLimit of them.  Which these are depends on
\* when the accounts were created, which is not kept here: any choice may come.
ListAccounts ==
  /\ question # NoQuestion
  /\ question.op = "portfolio"
  /\ LET open == {a \in AccountsOf(question.tenant) : active[a]}
     IN \E listed \in kSubset(Min({AccountsLimit, Cardinality(open)}), open) :
          Select("portfolio", 1, SetToSeq(listed))

\* MUTANT of ReadOneBalance: debits less credits, whatever the account's type.
ReadOneNetDebit ==
  /\ question # NoQuestion
  /\ question.op = "portfolio"
  /\ got # <<>>
  /\ Len(got) <= Len(got[1])
  /\ LET a == got[1][Len(got)]
     IN Select("portfolio", Len(got) + 1, balance[a].debits - balance[a].credits)

ReadOneBalance ==
  /\ question # NoQuestion
  /\ question.op = "portfolio"
  /\ got # <<>>
  /\ Len(got) <= Len(got[1])
  /\ LET a == got[1][Len(got)]
     IN Select("portfolio", Len(got) + 1, Signed(a, balance[a]))

\* What the rows show of a type in a currency.
Holdings(type, currency) ==
  LET mine == {i \in DOMAIN got[1] : TypeOf[got[1][i]] = type /\ CurrencyOf[got[1][i]] = currency}
  IN SumFunction([i \in mine |-> got[i + 1]])

NetWorth(currency) == Holdings("asset", currency) - Holdings("liability", currency)
ProfitAndLoss(currency) == Holdings("revenue", currency) - Holdings("expense", currency)

-------------------------------------------------------------------------------
(* search_transactions: the count, then the ids of one page.  The entries    *)
(* themselves never change, so loading them shows nothing more.              *)

\* The filters: an account, a currency and a least amount that one posting meets,
\* a range of the header's created_at.
Meets(line) ==
  /\ question.account # NoBound => line.account = question.account
  /\ question.currency \in {AnyCurrency, CurrencyOf[line.account]}
  /\ question.least # NoBound => line.amount >= question.least

Matches ==
  {k \in DOMAIN journal :
     /\ journal[k].tenant = question.tenant
     /\ InRange(Start(question.start), EndExclusive(question.end), journal[k].created)
     /\ \E i \in DOMAIN journal[k].lines : Meets(journal[k].lines[i])}

\* ORDER BY created_at DESC, id: ids are random, and those of the posts are their
\* names, which say nothing of the order they are made in.
Newer(j, k) ==
  \/ journal[j].created > journal[k].created
  \/ journal[j].created = journal[k].created /\ journal[j].id < journal[k].id

\* The n-th of the entries in this order.
Ranked(entries, n) ==
  CHOOSE k \in entries : Cardinality({j \in entries : Newer(j, k)}) = n - 1

\* MUTANT of Page: the offset is counted from one.
PageFromOne(offset, limit) ==
  [i \in 1 .. Min({limit, Cardinality(Matches) - offset - 1}) |->
     journal[Ranked(Matches, offset + 1 + i)].id]

\* LIMIT and OFFSET.
Page(offset, limit) ==
  [i \in 1 .. Min({limit, Cardinality(Matches) - offset}) |->
     journal[Ranked(Matches, offset + i)].id]

\* Pages read so far; each is a call of the tool, with its count and its ids.
PagesRead == Len(got) \div 2

\* The caller asks for the next page until total_count is reached (external).
LastPageRead ==
  /\ PagesRead > 0
  /\ PagesRead * question.limit >= got[2 * PagesRead - 1]

CountMatches ==
  /\ question # NoQuestion
  /\ question.op = "search"
  /\ Len(got) = 2 * PagesRead
  /\ ~LastPageRead
  /\ Select("search", Len(got) + 1, Cardinality(Matches))

ReadPage ==
  /\ question # NoQuestion
  /\ question.op = "search"
  /\ Len(got) = 2 * PagesRead + 1
  /\ Select("search", Len(got) + 1, Page(PagesRead * question.limit, question.limit))

-------------------------------------------------------------------------------
(* list_transactions of the REST API and of the MCP server: one page, ordered *)
(* by created_at alone, so entries of one instant (those of a batch, say)     *)
(* come in an order that may differ from page to page.                        *)

TenantEntries == {k \in DOMAIN journal : journal[k].tenant = question.tenant}

\* The caller asks for the next page until one is not full (external).
ListRead == got # <<>> /\ Len(got[Len(got)]) < question.limit

ReadListPage ==
  /\ question # NoQuestion
  /\ question.op = "list"
  /\ ~ListRead
  /\ \E s \in SetToSeqs(TenantEntries) :
       /\ \A i, j \in DOMAIN s : i < j => journal[s[i]].created >= journal[s[j]].created
       /\ LET offset == Len(got) * question.limit
              size == Min({question.limit, Len(s) - offset})
          IN Select("list", Len(got) + 1, [i \in 1 .. size |-> journal[s[offset + i]].id])

-------------------------------------------------------------------------------

Read ==
  \/ ReadIncome
  \/ ReadSheetBalances \/ ReadSheetIncome
  \/ ReadTrial
  \/ ReadPostings \/ ReadStored
  \/ MissAccount
  \/ ReadBalance
  \/ ReadStatement
  \/ ReadEvents \/ ReadAppClock
  \/ ListAccounts \/ ReadOneBalance
  \/ CountMatches \/ ReadPage
  \/ ReadListPage

Write ==
  \/ Tick
  \/ \E w \in Posts : \E d \in Drafts : Begin(w, d)
  \/ \E w \in Posts : Proceed(w)
  \/ \E a \in Accounts : Deactivate(a)

Next ==
  \/ Write /\ UNCHANGED reader
  \/ Ask
  \/ Read

Spec == ReportsInit /\ [][Next]_vars
===============================================================================
