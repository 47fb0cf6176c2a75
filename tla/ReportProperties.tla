---------------------------- MODULE ReportProperties ----------------------------
(***************************************************************************)
(* What the reads of Reports promise while posts commit around them.       *)
(***************************************************************************)
EXTENDS Reports

\* The report the reader asked for has made n SELECTs (the last one it makes).
Complete(op, n) ==
  /\ question # NoQuestion
  /\ question.op = op
  /\ Len(got) = n

\* The entries committed between the i-th and the j-th SELECT of the report.
CommittedBetween(i, j) == {k \in DOMAIN journal : marks[i] < k /\ k <= marks[j]}

\* A balance sheet is balanced in every currency (reporting.py:241-244 says the
\* equation holds "exactly"), unless a posting of its tenant that it has to count
\* commits between its two reads of the activity (reporting.py:248 and 255): a
\* sheet that does not balance never means more than that.
SheetTornOnlyByPosting ==
  Complete("sheet", 2) =>
    \/ \A c \in CurrenciesOf(got[1]) \union CurrenciesOf(got[2]) : SheetBalanced(got[1], got[2], c)
    \/ \E k \in CommittedBetween(1, 2) :
         journal[k].tenant = question.tenant /\ journal[k].created <= AsOf(question.at)

\* An audit that alarms means something.  The trial balance is one statement, so it
\* balances whatever posts meanwhile: "any non-zero difference signals corruption"
\* (balances.py:147-149).  verify_integrity, "the audit safety net" (balances.py:193),
\* alarms falsely only for an account that a posting touched between its read of the
\* postings and its read of the stored balances, and never for another tenant's.
AuditsTruthful ==
  /\ Complete("trial", 1) => TrialBalanced(got[1])
  /\ Complete("integrity", 2) =>
       \A a \in Discrepancies(got[1], got[2]) :
         \E k \in CommittedBetween(1, 2) : \E i \in DOMAIN journal[k].lines :
           journal[k].tenant = question.tenant /\ journal[k].lines[i].account = a

\* What the account held when the first SELECT of the report ran.
HeldAt(a, mark) ==
  LET mine == {k \in 1 .. mark : \E i \in DOMAIN journal[k].lines : journal[k].lines[i].account = a}
  IN IF mine = {} THEN 0
     ELSE LET last == journal[Max(mine)].lines
          IN last[Max({i \in DOMAIN last : last[i].account = a})].after

\* "The final point equals the account's current balance" (reporting.py:378) when
\* the range is open at its end: also for a posting younger than the application's
\* clock, and for one that began before a day ended and committed after it.
HistoryEndsAtBalance ==
  (Complete("history", 2) /\ question.end = NoBound) =>
    LET points == Points(got[1], got[2])
    IN points # << >> => points[Max(DOMAIN points)] = HeldAt(question.account, marks[1])

\* The transactions a statement shows did not overlap: each began after the one
\* before it was committed; and none of them has two lines on the account.
NoOverlap(s) ==
  /\ \A i, j \in DOMAIN s : s[i].entry < s[j].entry =>
       journal[s[i].entry].committed < journal[s[j].entry].created
  /\ \A i, j \in DOMAIN s : i # j => s[i].entry # s[j].entry

\* A statement is "ready to render" (balances.py:99): the balance on each line is
\* that on the line before it plus its own amount, and the last is the account's
\* balance.  Its order is that of created_at, the snapshots' that of the row locks:
\* they agree whenever the account's transactions did not overlap.
StatementChains ==
  (Complete("statement", 1) /\ Found /\ NoOverlap(got[1])) =>
    \A i \in DOMAIN got[1] :
      /\ got[1][i].after = (IF i = 1 THEN 0 ELSE got[1][i - 1].after)
                           + Effect(got[1][i].account, got[1][i].direction, got[1][i].amount)
      /\ i = Len(got[1]) => got[1][i].after = HeldAt(question.account, marks[1])

\* The figures of the dashboard belong together: if nothing commits while the
\* accounts are read one by one (portfolio.py:40-41), net worth is equity plus
\* profit, as long as the accounts it leaves out are empty.  Those are the closed
\* ones, of which a posting that races with the deactivation can leave one that is
\* not, and all but the newest AccountsLimit of the others (portfolio.py:37).
PortfolioOfOneMoment ==
  LET n == Len(got)
      omitted == AccountsOf(question.tenant) \ Range(got[1])
  IN (/\ question # NoQuestion /\ question.op = "portfolio"
      /\ n > 0 /\ n = Len(got[1]) + 1
      /\ CommittedBetween(1, n) = {}
      /\ \A a \in omitted : HeldAt(a, marks[1]) = 0) =>
        \A c \in Currencies : NetWorth(c) = Holdings("equity", c) + ProfitAndLoss(c)

\* A reader who pages through a search until total_count (ledger.py:682), or through
\* a list until a page is short, sees every entry that was there before the first
\* page.  Later pages may repeat entries when newer ones arrive, but none is skipped:
\* by a search, unless an entry commits between the last page's count and its rows;
\* by a list, unless two entries share an instant, which the order leaves open.
PagingMissesNothing ==
  LET shown(k, pages) == \E p \in pages : \E i \in DOMAIN got[p] : got[p][i] = journal[k].id
  IN /\ (/\ question # NoQuestion /\ question.op = "search"
          /\ Len(got) = 2 * PagesRead /\ LastPageRead
          /\ CommittedBetween(Len(got) - 1, Len(got)) = {}) =>
           \A k \in Matches : k <= marks[1] => shown(k, {2 * p : p \in 1 .. PagesRead})
     /\ (/\ question # NoQuestion /\ question.op = "list" /\ ListRead
          /\ \A j, k \in TenantEntries : j # k => journal[j].created # journal[k].created) =>
           \A k \in TenantEntries : k <= marks[1] => shown(k, DOMAIN got)

-------------------------------------------------------------------------------

\* The income of a tenant before an instant, as income_statement computes it.
IncomeBefore(tenant, instant) ==
  Activity({p \in Postings(tenant) : p.created < instant}, IncomeTypes, AnyCurrency)

\* A closed period is final: once the clock has passed its end and no posting is
\* under way that began before it, no step changes its income any more.  Until
\* then one may: created_at is the start of a posting's transaction.
ClosedPeriodFinal ==
  [][\A tenant \in Tenants : \A day \in 0 .. DayOf(MaxClock) :
       LET end == EndExclusive(Date(day))
       IN (clock >= end /\ \A w \in Posts : pc[w] = "open" => began[w] >= end) =>
            IncomeBefore(tenant, end)' = IncomeBefore(tenant, end)]_vars
===============================================================================
