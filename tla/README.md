# FinLedger: a TLA+ verification project

FinLedger is a multi-tenant, double-entry ledger: a FastAPI service and an MCP
server over PostgreSQL, with connectors that import bank and Open Collective
activity, and a React client. This directory holds TLA+ models of it, the TLC
runs that check them, and the TLAPS proofs of their main properties. Every
definition is translated from the code under `src/`; `PROJECT.json` maps each
one to its lines.

## 1. Inventory

| Component | Source | State | Operations | Hard behaviour |
|---|---|---|---|---|
| Posting engine | `app/services/ledger.py` | transactions, postings with balance snapshots, account balances | post, reverse, batch post, preview, validate, search | concurrent requests at READ COMMITTED, row locks, unique-index races, retries, lost requests |
| Accounting rules | `app/domain/enums.py`, `money.py` | none | signs, normal balances, minor units | per-currency balance, rounding |
| Accounts registry | `app/services/accounts.py` | accounts, `is_active`, `external_id` | create, update, import, deactivate | unlocked read-then-write, unique-index races, savepoints |
| Balances and integrity | `app/services/balances.py` | none (reads) | balance, statement, trial balance, verify_integrity | several statements that see different snapshots |
| Reporting | `app/services/reporting.py`, `period.py` | none (reads) | income statement, balance sheet, balance history | torn reads, period boundaries |
| Sessions | `app/db.py` | one transaction per request, a pool of 10 + 20 connections | begin, rollback on error | rollback on every error path |
| Schema | `app/models.py`, `app/ledger_ddl.py`, `migrations/` | tables, constraints, append-only triggers | upgrade | unique and tenant foreign keys, migration backfills |
| REST API | `app/api/` | none | routes over the services | error mapping |
| MCP server | `app/mcp/` | none | tools over the services, derived idempotency keys | identical retries, API key auth |
| Money | `app/domain/money.py`, `web/src/lib/money.ts` | none | decimals to minor units and back, the form's sums | rounding to the decimal context, scales |
| Connectors | `app/integrations/` | cursor, mapped rows, account cache | Open Collective and Plaid import | pagination over growing data, partial failure, polling, repeated import |
| Web client | `web/` | React state | pages, the transaction form, proxy | stale responses, resubmission |

Requests meet only in the database. Each holds one session, hence one
PostgreSQL transaction; services commit themselves and `get_session` rolls back
on an exception. MCP tools and connectors call the same services in the same
way, so the posting engine is where all concurrency is decided.

What makes each correct:

* *Posting engine*: transactions are whole, balanced per currency and of one
  tenant; an idempotency key or a reversal takes effect once; the stored balance
  equals the sum of the postings; each account's snapshots form one chain; no
  deadlock; every call is answered.
* *Accounts registry*: one account per external id; a closed account is empty
  and stays so; an import reports each item's own outcome.
* *Batch posting*: an atomic batch is whole or nothing; each caller is told what
  became of each item; a key is used once, inside one call too.
* *Reports*: a report of one statement describes one state of the ledger; one of
  several deviates only for a posting that committed between them; a period that is
  over becomes final; a reader who pages misses nothing.
* *Computations*: the closing balances are the sums they stand for; the three
  readings of a date agree; an amount arrives as it was given.
* *Connectors*: every upstream row is posted once at most, and one that is missing
  was reported.
* *Clients*: a retry posts once; a dry run means what it says; what is shown
  belongs to the latest request.

## 2. Plan

The order is that of what can go wrong for a user of the ledger: first the writes
that race, then what reads them, then what feeds them.

1. `Accounting`: the rules everything shares. *Done.*
2. `PostingEngine`, `PostingProperties`, `MCPosting`: post, reverse, deactivate. *Done.*
3. `AbstractLedger`: what the engine promises; refinement checked. *Done.*
4. `PostingProofs`: types, uniqueness, answers, deadlock freedom, snapshots. *Done.*
5. `BatchPosting`, `BatchContract`: one session posts several items. *Done.*
6. `AccountsRegistry`: create, import, update. *Done.*
7. `Journal`, `Periods`, `Reports`: every report, search and list against running
   posts. *Done.*
8. `BalanceHistory`, `Amounts`, `Computations`: the pure computations against a
   reference. *Done.*
9. `Loader`, `OpenCollective`, `Plaid`, `Connectors`: the imports. *Done.*
10. `Clients`: the form's fresh keys, the agent's derived ones, dry runs, the list.
    *Done.*
11. `BatchProofs`, `RegistryProofs`: batches whole and as promised, external ids
    unique, what an import reports holds. *Done.*
12. `AccountingProofs`, `PostingProofs`: stored balances are sums, double entry, reversals, the
    refinement of the contract. *Done.*
13. `ClientProofs`: retries, dry runs, the list. *Done.*
14. `ConnectorProofs`: rows mirrored once, none lost in silence. *Done.*
15. `ReportProofs`: what each report promises while posts commit. *Done.*
16. `ComputationProofs`: balance histories against their reference, dates. *Done.*
17. Liveness and the way of an amount stay with TLC.

## 3. Modules

**`Accounting`** holds the chart of accounts and the rules of `enums.py`: normal
balances, signs, debits and credits kept apart, balance per currency, and what
the lines of an entry add to the balances and are stamped with. Type,
tenant and currency of an account are constants, because no operation changes
them. Amounts are integers in minor units, as in the database.

**`PostingEngine`** models `post_transaction`, `reverse_transaction` and
`deactivate_account`, one handler per request. PostgreSQL runs at READ COMMITTED,
so every SELECT, row lock, INSERT and COMMIT is an action and other requests
interleave between them. How its variables correspond to the code:

| Variable | In the code |
|---|---|
| `transactions`, `history`, `balance`, `active` | the tables: committed headers, postings per account in commit order with their snapshots, `account_balances`, `accounts.is_active` |
| `input`, `lines` | the request: the caller's lines, or the original's postings in whatever order they come back |
| `seen` | the accounts the unlocked SELECT found active |
| `rows`, `deltas` | what `_build_postings` (or the reversal's loop) has built after each line |
| `held`, `stored`, `running` | the rows `_lock_balances` has locked, what it read, the running balance per account |
| `threaded`, `staged` | the rows `_write_postings` has stamped, the postings not yet committed |
| `reply` | the answer: the transaction, an error, a server error, or nothing |

`Answer` is the end of a handler: `get_session` rolls back and the locks are
released. `Commit` moves `staged` and the balances into the tables at once.
`Lose` is a request whose process, connection or client goes away, at any point.
The INSERT waits for an uncommitted row it clashes with and fails on a committed
one, which is what PostgreSQL's unique indexes do.

**`AbstractLedger`** is the contract: a book that grows by one whole, balanced
entry at a time, and balances that move by what the entry says.
`ImplementsLedger` says that each `Commit` is one `Record` and every other step a
stutter.

**`BatchPosting`** models `batch_post_transactions`. An item is its key, the
accounts it locks and whether validation rejects it; its postings are
`PostingEngine`'s. Locks and index entries stay to the end of the batch, since
releasing a savepoint keeps them, so batches can wait in a circle:
`DetectDeadlock` is PostgreSQL's detector, which aborts a call on the circle.
**`BatchContract`** is the promise it implements: a call takes effect in one step,
in which exactly its valid items with new keys reach the journal, or none of an
atomic call that has a bad one.

**`AccountsRegistry`** models `create_account`, `import_accounts` and
`update_account`. `pending` is a request's uncommitted row version: it holds the
row, and in the unique index both the external id it had and the one it takes.
The rename that `update_account` flushes with its next query is a step of its own
(`LockRow`), before the clash is looked for.

**`Journal`** is the ledger as its readers and callers meet it, on top of
`Accounting`: the committed entries with their stamped lines, the stored balances,
`is_active`, and a posting call in two steps, `Begin` (up to the first write) and
`Commit`. The two steps are there for the time an entry carries: `created_at` is
PostgreSQL's `now()`, the start of the transaction, so an entry can appear after a
younger one. `PostingEngine` has the statements in between, and its
`ImplementsLedger` is why one step is enough here.

**`Reports`** has every read of `balances.py`, `reporting.py`,
`search_transactions`, the list routes and `portfolio.py`. `got` holds what each
SELECT of the report returned, and posts commit between two of them; what the code
computes from its rows is an operator on `got`. **`Periods`** is `period.py` and the
first and last day of a history.

**`BalanceHistory`** is the rest of `balance_history`: the calendar walk of
`_iter_periods` and the single pass that merges the postings into the periods, one
loop step at a time; the calendar is a constant that gives the day each month begins
on. **`Amounts`** is the way of an amount: the form's BigInt sums,
`Money.from_decimal` with the rounding of Python's decimal context, and the texts the
connectors make. **`Computations`** runs both and states what they should yield.

**`Loader`** is `FinLedgerClient`, which both connectors share, and the ledger it
talks to; a call may be refused, or its answer lost after it took effect.
**`OpenCollective`** adds the generator that fetches a page only after the last
one's rows were posted, **`Plaid`** the drain of the change log with its polling,
the cut at `--max` and the returned cursor. **`Connectors`** composes them: runs
side by side and one after the other, cut short anywhere, an upstream that moves, an
account that somebody closes.

**`Clients`** puts a person at the transaction form and an agent at the MCP tools in
front of `Journal`. `heard` is what the client knows of a call, `reply` what became
of it. `page` and `loads` are the state of `useAsync`: its nonce, what it shows,
and the requests under way with the nonce each was made for.

`PostingProperties`, `BatchProperties`, `RegistryProperties`, `ReportProperties` and
`ClientProperties` state properties; so do `Computations` and `Connectors`, below
their specifications. The `MC` modules choose accounts and inputs.
`PostingProofs` (in three parts: the protocol, the snapshots, the amounts),
`BatchProofs`, `RegistryProofs`, `ClientProofs`, `ConnectorProofs`, `ReportProofs` and
`ComputationProofs` hold the theorems. `AccountingProofs` has the lemmas several of
them rest on: finite sums that know nothing of ledgers, sequences that grow, and what
the stamped lines of an entry add up to.

A definition that a comment marks as a MUTANT is not part of the specification:
it is a plausible bug in the definition named, kept to show that a property
notices it.

## 4. Runs

| Run | Question |
|---|---|
| `posting` | do the snapshots, the stored balances, idempotency, reversal and the ledger contract survive every interleaving; does anything unbalanced, foreign or partial get in; do the requests ever wait in a circle, and is every call answered? |
| `batch_mixed` | do batches keep their promise whatever other batches do, and do all of them end? |
| `registry` | does everyone who creates under one external id get one account, does what an import reports of each row hold, do updates keep external ids unique and leave nothing when they fail, and does every request end? |
| `reports` | what does each report still promise while posts commit between its SELECTs? |
| `computations` | do the pure computations yield what their callers take them for? |
| `connectors` | do imports mirror each row once and lose none in silence, and do they end? |
| `clients` | what may a client rely on who retries, previews or looks at the list? |
| `posting_race`, `posting_closing`, `posting_late`, `batch_deadlock`, `registry_import` | five statements of the documentation that the code does not keep |

What the reading and calling runs show:

* `reports`: one SELECT is always consistent, so the trial balance never alarms
  without cause. `balance_sheet` and `verify_integrity` read twice and may, but only
  for a posting of the tenant that committed in between and that they had to count.
  A statement, ordered by `created_at`, follows the chain of snapshots unless
  transactions on the account overlapped. A period's income is final once the
  clock has passed its end and every posting that began before it has ended: not at
  the end itself. Paging by offset repeats entries and skips none, if two
  entries of a list never share an instant.
* `computations`: see the properties; beyond the context's 28 digits `money.py` rounds.
* `connectors`: what is in the ledger is there once, and what is not was counted as
  an error, was cut off by `--max`, or belongs to a run that failed and returned no
  cursor.
* `clients`: the agent's derived key makes a repeated call one entry; the form's
  fresh key posts twice only after an answer that was missed. A clean dry run fails
  only for what happened since. The list shows what was posted, or is full of entries
  as new. A repeated call is one that is written alike: the derived key hashes the
  amounts as strings (`server.py:234-241`), so `'10.0'` and `'10.00'` make two keys and
  two postings, and the model, where an amount is a number, does not have that case.

What the last five show:

* `posting_race`: two requests with one idempotency key. The loser's INSERT is
  flushed at `ledger.py:282`, outside the `try` around the commit that should
  answer it with the original, and ends in a server error. Nothing is posted
  twice.
* `posting_closing`: a posting commits between the balance read of
  `deactivate_account` and its UPDATE; a closed account holds a balance.
* `posting_late`: a sale, the closing of an account it left at zero, and the sale's
  reversal, which posts to the closed account: `reverse_transaction` loads the accounts
  without a look at `is_active` (`ledger.py:571-580`; `server.py:939` says postings to
  inactive accounts are rejected).
* `batch_deadlock`: two batches lock two pairs of accounts in opposite orders.
* `registry_import`: an account created between an import's check and
  `create_account`'s own lookup is reported as created, with `skip_existing` off too
  (`accounts.py:213-215` says skipped, or an error). `ImportReportsHold` is what is left
  of the promise: the row names an account that carries its id, and within one import a
  row is created only if no earlier one got an account under its id.

More disagreements between the documentation and the code were seen while modelling
and have no run of their own:

* a reversal under the key of another transaction is answered with that one and
  reverses nothing (`ledger.py:564-567`; `ledger.py:540-542` promises a transaction that mirrors
  every original posting). `AnswersAreCommitted` holds of it all the same: what the caller got is
  committed, only it is no reversal;
* `--max` cuts the rows but not the cursor (`demo.py:59-61`), so what it cut off is in
  neither that sync nor the incremental one that follows (`plaid/README.md:61-62`).
  `CursorLosesNothing` excuses it as cut off;
* the flush that `posting_race` is about, inside a savepoint: the best-effort loop
  catches only `LedgerError` (`ledger.py:424`), so one item that loses its race takes
  the good ones with it;
* the same in `import_accounts` (`accounts.py:273`), where it ends an import whose
  earlier rows were committed, and in `create_account` (`accounts.py:64`), where a
  concurrent retry ends in a server error;
* four concurrent updates that swap the external ids of two accounts can deadlock in
  PostgreSQL (a step of `registry`);
* an amount of more than 28 digits is rounded, not refused (`money.py:49`;
  `money.py:13` says it refuses what cannot be represented exactly);
* the lists are ordered by `created_at` alone (`transactions.py:76`, `server.py:352`),
  which the transactions of a batch share, so pages may skip one of them;
* `--max 0` still imports one Open Collective row, because the limit is looked at
  after a row was yielded (`opencollective.py:268-271`), and no Plaid row;
* a modified Plaid row is posted under the key of the row it modifies
  (`client.py:142`), so the amount first imported stays;
* "a clean dry-run guarantees the real post will pass" (`server.py:742-743`): not if an
  account is closed in between, or if the key already names another transaction;
* a history whose range ends before it starts still emits the period that holds both.

**Bounds.** Three requests (four for updates), two to five accounts, two to four
keys, amounts 1 and 2, at most four lines or three items or rows. Three requests
are a holder, a waiter and one that overtakes, and the least that have a
transaction and two competing reversals. Two accounts are enough to lock in
opposite orders; `posting` has lines in two currencies, a
second tenant and an account that does not exist. Every unique index is exercised
with a holder that commits, one that rolls back and one that is lost. Histories
need no bound: a request runs once, and a retry is another request.

Two runs have a state constraint, `Meeting`, which bounds what meets in one behaviour. In
`posting` it is three requests of the kinds that compete (posts, a retry under the same
key, reversals), or two of any of the others, which are mostly refused. In
`registry` it is three creations or imports, or four updates, each made by a request of
its own. It looks at the inputs only, which `Begin` sets: it keeps a request from being
begun, which nobody has to be, and never stops one that is under way.

The reading side: two posts, a clock of a few instants with two instants a day
(`MaxClock`), an application clock at most `Skew` off, the accounts in `Closable`
closed, one question a behaviour (readers never meet). Two posts are enough for
one to begin first and commit last, and for one between two SELECTs. `computations`
takes every combination of granularity, range, list of postings and clock over two
calendar years with a leap day, and amounts of up to `MaxDigits` digits around a
decimal context of three (`Precision`) instead of 28. `connectors` has two runs,
rows of every fate (unsupported, pending, modified, removed, worth less than half a
minor unit), pages of one and two rows instead of 100, and mirrors one upstream per
behaviour: the keys of the two never meet, because they begin with the source.
`clients` has three calls of the form or two of the agent, one of the clients per
behaviour: they meet only in the ledger, where a call its client no longer waits for
is already a second writer.

The lists that the code cuts are cut here too: `portfolio_summary` lists the three newest
accounts (`AccountsLimit`) instead of 500, of which there may be more, and the page the
two newest entries (`ListLimit`) instead of 100, of three that may be posted. What
`PortfolioOfOneMoment` and `ListShowsPosted` say is said of what such a list leaves out,
too: the figures balance if the accounts left out are empty, and an entry is shown or
pushed off by as many others as new. Which accounts are the newest is not modelled, so
`ListAccounts` takes any.

**Fairness.** In the posting, batch and registry models `FairSpec` has weak fairness
of each handler's steps. The event loop resumes every coroutine whose statement has
returned, and PostgreSQL grants a lock once it is free. In the batch and registry
models it also has weak fairness of the deadlock detector, which PostgreSQL runs for
every backend that waits longer than `deadlock_timeout`. `Begin` and `Lose` are not
fair: nobody has to call, and nothing has to fail. The liveness property of the
registry is checked where no circle of waits exists (three creations or imports) and
where one does (four updates), which the detector breaks. `EveryCallAnswered` and
`EveryRequestAnswered` say that from some moment on no request is under way. That is
that each one begun is answered, since a request is made once and stays answered.
In `Connectors` a run that has been started goes on (it is a loop in one process,
whose HTTP calls have timeouts of 30 seconds), and the deadline of a drain passes;
nobody has to start a run, and the upstream never has to answer with anything.

## 5. Proofs

Every theorem holds for any number of requests, accounts, tenants, currencies and
keys and any set of inputs. The posting theorems assume `ChartAssumption` (accounts
are finitely many and totally ordered, as UUIDs are; each has a tenant, a type and a
currency) and `InputAssumption` (inputs are posts, reversals and deactivations; the
null values are no keys, currencies or requests), the batch's `BatchAssumption`
(inputs are lists of items), the registry's `RegistryAssumption` (the accounts there
are at the start have ids of their own and distinct external ids, and are not named
after a request), the clients' `JournalAssumption` and `ClientsAssumption` (what is
posted are lines with a direction and an amount, as the request schema has them; a
call is the form's or the agent's; the page asks for at least one entry; a hash is
never the missing key), the connectors'
`CollectiveAssumption`, `PlaidAssumption` and `OptionsAssumption` (the upstreams are
finite lists of rows, a page has at least one, `--max` is a number and `--dry-run` a
flag), and there may be any number of runs. The reports take `OpeningAssumption`
besides (the entries that are there at the start passed validation, as every entry
does), `QuestionAssumption` (a posting has lines, as the request schema has them; a
history's bounds are dates or instants that `period.py` can read; a page and the
portfolio's list of accounts hold at least one row) and `DayAssumption` (a day has a length). `BoundAssumption` says that no
date is the missing bound. The computations assume `CalendarAssumption` (whole years,
one after the other, of months that have 28 to 31 days and follow each other without
a gap; some day is a Monday) and `ChartsAssumption` (the account exists, the range can
be read and lies within the calendar, and the postings come in order of their
instants, as the query of `balance_history` returns them).

| Theorem | Module | Statement |
|---|---|---|
| `TypeCorrect` | `PostingProofs` | `Spec => []TypeOK` |
| `UniquePosting` | `PostingProofs` | `Spec => []PostedOnce` |
| `DeadlockFreedom` | `PostingProofs` | `Spec => []NoCircularWait` |
| `SnapshotsChained` | `PostingProofs` | `Spec => []SnapshotChain` |
| `AnswersNameCommitted` | `PostingProofs` | `Spec => []AnswersAreCommitted` |
| `InvariantHolds` | `PostingProofs` | `Spec => []IInv` |
| `BalancesAreSums` | `PostingProofs` | `Spec => []StoredBalancesAreSums` |
| `CommittedWhole` | `PostingProofs` | `Spec => []DoubleEntry` |
| `ReversalsTakeBack` | `PostingProofs` | `Spec => []ReversalMirrors` |
| `Refinement` | `PostingProofs` | `Spec => ImplementsLedger` |
| `KeysUsedOnce` | `BatchProofs` | `Spec => []KeyOnce` |
| `BatchesWhole` | `BatchProofs` | `Spec => []AtomicWhole` |
| `CallersToldTheTruth` | `BatchProofs` | `Spec => []ResultsTruthful` |
| `BatchImplementsContract` | `BatchProofs` | `Spec => ImplementsContract` |
| `ExternalIdsUnique` | `RegistryProofs` | `Spec => []ExternalIdUnique` |
| `FailuresLeaveNoTrace` | `RegistryProofs` | `Spec => []NoTraceOfFailure` |
| `SameAccount` | `RegistryProofs` | `KeepsIds /\ Spec => []SameIdSameAccount` |
| `ReportsHold` | `RegistryProofs` | `KeepsIds /\ Spec => []ImportReportsHold` |
| `RetriesPostOnce` | `ClientProofs` | `Spec => []RetryPostsOnce` |
| `DryRunsHold` | `ClientProofs` | `Spec => []DryRunHolds` |
| `ListsShowPosted` | `ClientProofs` | `Spec => []ListShowsPosted` |
| `ConnectorInvariant` | `ConnectorProofs` | `Spec => []Inv` |
| `RowsMirroredOnce` | `ConnectorProofs` | `Spec => []MirrorsRowsOnce` |
| `ImportsAreComplete` | `ConnectorProofs` | `Spec => []CompleteMirror` |
| `CursorsLoseNothing` | `ConnectorProofs` | `Spec => []CursorLosesNothing` |
| `ReportsInvariant` | `ReportProofs` | `Spec => []Inv` |
| `ClosedPeriodsFinal` | `ReportProofs` | `Spec => ClosedPeriodIsFinal` |
| `AuditsAreTruthful` | `ReportProofs` | `Spec => []AuditsTruthful` |
| `SheetsTornOnlyByPosting` | `ReportProofs` | `Spec => []SheetTornOnlyByPosting` |
| `HistoriesEndAtBalance` | `ReportProofs` | `Spec => []HistoryEndsAtBalance` |
| `StatementsChain` | `ReportProofs` | `Spec => []StatementChains` |
| `PortfoliosOfOneMoment` | `ReportProofs` | `Spec => []PortfolioOfOneMoment` |
| `PagesMissNothing` | `ReportProofs` | `Spec => []PagingMissesNothing` |
| `WalkInvariant` | `ComputationProofs` | `Spec => []Inv` |
| `HistoriesAreSums` | `ComputationProofs` | `Spec => []HistoryIsReference` |
| `DatesDivideAlike` | `ComputationProofs` | `Spec => []DatesAgree` |

**The posting engine.** The inductive invariant is `IInv` of `PostingProperties`,
which `posting` also checks, together with `StoredBalancesAreSums`,
`Answering` and `EachRowPosted` (`Inductive` in `PostingProofs`):

* `TypeOK` alone is not inductive. That a handler finds the fields it reads needs
  `PcFitsInput`: the step a request is at belongs to the operation it was asked
  for, and a reversal's lines are an original's rows.
* `PostedOnce` speaks of committed transactions, but the clash is decided at the
  INSERT. `NoClash` extends it to the inserted ones: an INSERT happens only when
  nothing inserted or committed clashes, and a COMMIT moves a transaction from
  the one set to the other.
* Deadlock freedom follows from `Locking`: locks are taken in ascending order,
  exclusively, and all before the first row is threaded. In a circle consider the
  members that wait for a row lock. If there is one, take the one that wants the
  greatest account: whoever holds that account and waits as well wants a greater
  one. If there is none, all wait on the unique index, and those that wait there
  are not inserted yet, so nobody waits for them.
* The chain of snapshots needs `Snapshots`: what a request read under its lock
  stays the stored balance until it commits (nobody else holds the lock), the
  running balance is that balance plus the deltas of the rows threaded so far,
  and the staged postings chain from the one to the other. At the COMMIT the
  staged chain is appended to the account's and the stored balance moves to its
  end. This is the claim of `ledger.py:130-131`, "the final threaded value equals
  the new stored balance by construction".
* What callers are told (`Answering` in `PostingProofs`) needs three facts: the
  staged postings of a request are its own (`Traced`), nobody is told a failure after
  the COMMIT (`Told`), and a reversal past `LoadOriginal` reverses a committed
  transaction of its own tenant (`OriginalKnown`). The last is what makes the replay
  of an existing reversal, which is found without asking for the tenant, one of the
  caller's tenant all the same. Every step of a handler is one of four kinds
  (`StepAnswers`): it goes on in silence, answers, threads a row or commits.

* The amounts need four more facts. `Validated` follows the rows from the line loop
  through the balance check to the COMMIT. `Mirroring` says that a reversal's lines
  are its original's rows in whatever order the SELECT returned them, so that the
  totals of the two cancel whatever the order was. `StagedRows` compares what is
  staged for an account with the rows threaded so far, line by line: two lines of one
  transaction may be on one account, so it counts how often each posting occurs
  and does not only ask that it is there. `EachRowPosted` is what remains of it after
  the COMMIT, when others append to the same histories.
* The sums themselves are the fold of the community modules, a recursive function
  over finite sets. `AccountingProofs` unfolds it without an induction theorem: of the sets that
  would refute a statement one is minimal under inclusion, since inclusion on the
  subsets of a finite set is well-founded, and the minimal one is refuted by taking
  one term away. That gives sums of unions, of reindexed terms and of concatenated
  sequences, which is all the ledger needs.
* The refinement maps a COMMIT to one `Record` of the contract and every other step
  to a stutter. That the key is free and the original not yet reversed, which
  `Record` asks for at the COMMIT and the code looked up long before, is `NoClash`;
  that the entry is balanced, and the mirror of the one it reverses, is `Validated`
  and `Mirroring`; that the balances move by what the entry says is `Snapshots`.

**The batch.** That a key is used once in the journal is not inductive: a running
batch inserts rows that are not committed yet. `UniqueKeys` says it of what any two
batches can see, the journal and their own rows. `Progress` is what a running batch
knows of the items it has dealt with (posted: written; replayed: the key was
there or written for an earlier item; error: rejected in a best-effort call), and
`Settled` what remains of it after the COMMIT. Under the refinement mapping each
`Commit` is one step of the contract, which takes the call's valid items with new
keys, and everything before it and after it a stutter.

**The registry.** `ExternalIdUnique` follows from `Exclusive`, which says it of
the uncommitted versions too; that a flush waits for the versions of others and
fails on committed rows keeps both. Each request creates its rows under ids of its
own, in turn (`CreatedInTurn`, `VersionOf`), and a name is on a committed row only
when its request can no longer fail (`NamesInTurn`).

`SameIdSameAccount` and `ImportReportsHold` are about clients who create and rename
(`KeepsIds`): an update that moves an external id makes later answers under it name
another account, as it should. Accounts then only grow, and keep their id and
external id: what a report said of a row stays true (`Truthful`), and uniqueness
does the rest. That no row is created where an earlier one got an account needs
`LookingFirst`: a row under an id that an earlier row of the import has got an account
for never comes past its own lookup.

**The clients.** `Inv` ties what a client heard to what the ledger has:

* The journal has no key twice (`KeysDiffer`), since a `Commit` asks for it, so two
  calls of the agent that both posted had different keys, and the derived key is a
  function of the content. For the form this says nothing, its keys are all fresh:
  there it counts that in one opening of the form a call is made only when those
  before it failed or were lost (`OneAtATime`), and that a call which was told of a
  failure recorded nothing (`Heard`, `Entered`).
* The list needs `UpToDate`: every answer on its way that the page would still show,
  that of the present nonce, has the entries whose success was heard before, or is full
  of others as new (`OnList`), which the growing journal cannot undo (`StaysOnList`).
* A dry run tells what posting would do until an entry touches its accounts
  (`TellsTruth`, about the dry run and the journal of the moment). A call that is
  committed in such a quiet time stamps its lines with these balances: the first line
  of an account starts at the stored balance and the last ends at the balance the
  entry leaves (`ThreadedEnds`), by the sums of `AccountingProofs`. Accounts are only closed, never
  opened again, so an account that made a call fail is still closed (`Judged`).

**The connectors.** `Inv` of `ConnectorProofs` says of the ledger that an entry is
named after the row it mirrors and no key is there twice (`KeyedByRow`, hence
`MirrorsRowsOnce`), and of each run what it has done with the rows so far:

* `Importing`: the queue is what follows the rows dealt with, up to the next page, so
  the offset neither skips nor repeats a row although rows are posted between two
  pages; a row dealt with is in the ledger, skipped, or one of the errors counted.
  When no page is left, the run has come to where the collective ended at its start.
* `Draining`: the queue has the updates between the cursor a sync came with and the
  place it is at, each once (`Holds`), in whatever order the pages list them.
* `Loading`: the rows between the cursors that are neither in the ledger nor in the
  queue (`Owed`) are no more than the errors and the updates `--max` cut off.

Other runs, the upstreams and the ledger's other users only make the keys, the
collective and the log grow, which keeps all of this (`KeptRun`). What a page picks
is counted by `PickedFacts`: as many rows as there are places, each place once.
That is why pages pick by `Picked`, which says what `SelectSeq` does without
recursion.

**The reports.** `Inv` of `ReportProofs` has two halves.

* `Ledger` is about the journal, whoever reads it: every entry is balanced, of one
  tenant and committed after it began (`Sound`); the last line of an entry on an
  account shows what all entries up to it add up to (`EndsAt`); the stored balances
  are what all entries add up to (`Booked`); an id names one entry (`IdsDiffer`). A
  `Commit` keeps them because the lines are stamped from the stored balance
  (`ThreadedSums`).
* `Reading` is about the report under way: every SELECT it has made returned what the
  entries committed at its moment, the first `marks[i]` of the journal, answer to that
  query (`Answers`). Entries never change and are only appended (`Grown`), so what was
  an answer about a prefix stays one while posts commit (`Agree`). For the list and
  the search, `Answers` is the page that the offset cuts from that prefix.

So each report's promise is a statement about one or two prefixes of one journal and
their sums. Those are computed in two ways, posting by posting and entry by
entry, and `MassByEntry` says they agree: a posting is counted once, whatever groups
it. From there:

* Entries balance, so what accounts hold on their normal sides cancels
  (`SheetBalances`): the equation of the balance sheet, and of the portfolio's figures.
  On two prefixes it can fail only for an entry between the two.
* `verify_integrity` compares the sums of one prefix with the balances stored at
  another; on an account that no entry between them touches, they are equal.
* A history without an end counts every posting of its prefix from the start on, and
  its opening balance those before; together they are the balance that the last entry on
  the account shows. That an application clock behind the database's loses none is
  part of it.
* In a statement without overlaps the order by `created_at` is the order of the
  journal, and each shown balance is the sum up to it.
* A closed period is final since an entry carries the start of its call: a call that
  commits after the clock passed the end began before it only if it was open then.
* Of paging, order the matches by rank, newest first. New entries only push older ones
  to later ranks, and page after page the offset moves by as much as was read, so what
  was there before the first page is at every moment either shown or still to come
  (`PagesCover`), and at the end nothing is to come. A search ends when its offset
  has reached `total_count`, a number read one SELECT before the rows; that is why the
  property asks that nothing commits between those two of the last page. What
  commits between the others does no harm: the property used to exclude that too,
  until the proof showed that it need not.

**The computations.** `Inv` of `ComputationProofs` is the loop invariant of
`balance_history`, in three parts:

* `Walking`: the current period begins where a period of its granularity does (`Begins`),
  and until the walk has passed the range's first day it is the period of that day. The
  calendar's months begin one after the other, so a day is in one month only and
  `MonthOf` names it (`PeriodFacts`); the next period begins within 31 days and none
  begins in between, which makes its eve the day that the reference finds by looking at
  days one by one (`LastDayOfPeriod`).
* `Merged`: the running balance is the sum of the postings merged (`SumTo`), and all of
  these came before the end of the current period. The postings are in order, so when
  none is due the merged ones are exactly those up to that end (`NothingDue`), the
  ones from before the range included.
* `Emitted`: each point has the sum of every posting up to its end, the ends ascend, and
  they are the ends of the periods that the days from the range's first up to the
  present period touch.

`DatesAgree` follows because a period ends with the last instant of a day, and from there
all readings of the day are the same multiple of its length, or one less.

Only model-checked: liveness, that calls are answered and imports end (out of the
prover's reach); and `AmountsArrive`, for amounts of every length within the bounds. That
one speaks of powers of ten and of digits lost to rounding, and none of the installed
provers knows exponentiation: its laws would have to come from an induction over the
exponent, which they cannot do either.

## 6. Not modelled

* Wording and ranking of a search, and the statement's own paging: a statement is one
  page here. The list's paging stands for it.
* The web client's other pages: they load lists with the same hook and keep no state
  across calls. Layout, settings and the proxy keep none that a property is about.
* Linking a Plaid sandbox item, and what Plaid and Open Collective do beyond
  answering pages of a log that grows.
* The append-only triggers and tenant foreign keys of the schema, which refuse what
  no modelled step does; the migrations, which run alone.
* The connection pool of 10 + 20 connections: a request that waits for one has not
  begun.
* Authentication, configuration, logging, formatting: no state that a property is
  about. An account's `is_active` is not followed in the batch and registry models.
