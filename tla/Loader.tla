--------------------------------- MODULE Loader ---------------------------------
(***************************************************************************)
(* FinLedgerClient, the loader both connectors share, and the ledger it    *)
(* loads into over REST.  A run resolves the two accounts of a row, then   *)
(* posts the row under the key of its upstream id.                         *)
(*                                                                         *)
(* The ledger is what PostingEngine and AccountsRegistry show it to be: a  *)
(* posting is one step and its key is answered once; POST /v1/accounts     *)
(* returns the account that holds the external id, closed or not.  Every   *)
(* call may be turned away, and its answer may be lost after it took       *)
(* effect.                                                                 *)
(***************************************************************************)
EXTENDS Integers, Sequences, SequencesExt, FiniteSets

CONSTANTS
  Runs,       \* the runs of a connector, one after the other or side by side
  NoJob,      \* the run has not been started
  NoLimit,    \* --max is not given
  Closable    \* bound: the external ids of the accounts somebody may close

VARIABLES
  accounts,   \* the ledger's accounts: external id -> is_active
  entries,    \* the ledger's transactions, in commit order
  job,        \* the command line of each run
  phase,      \* "idle", "warming", "fetching", "mapping", "posting", "done" or "failed"
  place,      \* where its next page starts: an offset, or a cursor
  queue,      \* the upstream rows (or mapped rows) the run has still to load
  cache,      \* _account_ids: the external ids it has resolved
  summary     \* its ImportSummary or SyncSummary

ledger == <<accounts, entries>>
runs == <<job, phase, place, queue, cache, summary>>

ZeroSummary == [fetched |-> 0, posted |-> 0, skipped |-> 0, removed |-> 0, errors |-> 0]

LoaderInit ==
  /\ accounts = << >>
  /\ entries = << >>
  /\ job = [r \in Runs |-> NoJob]
  /\ phase = [r \in Runs |-> "idle"]
  /\ place = [r \in Runs |-> 0]
  /\ queue = [r \in Runs |-> << >>]
  /\ cache = [r \in Runs |-> {}]
  /\ summary = [r \in Runs |-> ZeroSummary]

Count(r, field) == summary' = [summary EXCEPT ![r][field] = @ + 1]

Drop(r) == queue' = [queue EXCEPT ![r] = Tail(@)]

\* MUTANT of KeyOf: every run draws its keys afresh.
KeyPerRun(r, row) == <<job[r].source, row.id, r>>

\* The idempotency key, and the external id, of the transaction of a row.
KeyOf(r, row) == <<job[r].source, row.id>>

Keys == {entries[k].key : k \in DOMAIN entries}

\* The debits less the credits of an account.
Holding(x) ==
  FoldSeq(LAMBDA e, total : total + (IF e.debit = x THEN e.amount ELSE 0)
                                  - (IF e.credit = x THEN e.amount ELSE 0), 0, entries)

\* An exception ends the run: its options, what it had in memory, and its summary
\* are gone.
Fail(r) ==
  /\ job' = [job EXCEPT ![r] = [source |-> @.source]]
  /\ phase' = [phase EXCEPT ![r] = "failed"]
  /\ place' = [place EXCEPT ![r] = 0]
  /\ queue' = [queue EXCEPT ![r] = << >>]
  /\ cache' = [cache EXCEPT ![r] = {}]
  /\ summary' = [summary EXCEPT ![r] = ZeroSummary]

\* The run returns its summary and, of a sync, the cursor.
Finish(r) ==
  /\ phase' = [phase EXCEPT ![r] = "done"]
  /\ queue' = [queue EXCEPT ![r] = << >>]
  /\ cache' = [cache EXCEPT ![r] = {}]
  /\ UNCHANGED <<ledger, job, place, summary>>

-------------------------------------------------------------------------------

\* __enter__: the active accounts of the tenant that have an external id.
WarmCache(r, next) ==
  /\ phase[r] = "warming"
  /\ cache' = [cache EXCEPT ![r] = {x \in DOMAIN accounts : accounts[x]}]
  /\ phase' = [phase EXCEPT ![r] = next]
  /\ UNCHANGED <<ledger, job, place, queue, summary>>

\* The legs of the mapped row that the run has not resolved, the debit first.
Unresolved(r, row) == SelectSeq(<<row.debit, row.credit>>, LAMBDA x : x \notin cache[r])

\* ensure_account for the next leg: the POST creates it unless it exists.
EnsureAccount(r, row) ==
  /\ phase[r] = "posting"
  /\ Unresolved(r, row) # << >>
  /\ LET x == Head(Unresolved(r, row))
     IN /\ accounts' = [y \in DOMAIN accounts \union {x} |->
                          IF y \in DOMAIN accounts THEN accounts[y] ELSE TRUE]
        /\ \/ /\ cache' = [cache EXCEPT ![r] = @ \union {x}]
              /\ UNCHANGED <<job, phase, place, queue, summary>>
           \/ Fail(r)
  /\ UNCHANGED entries

\* The ledger records the row: two lines of one positive amount on active accounts.
Postable(row) == accounts[row.debit] /\ accounts[row.credit] /\ row.amount > 0

Record(r, row) ==
  /\ KeyOf(r, row) \notin Keys
  /\ Postable(row)
  /\ entries' = Append(entries, [key |-> KeyOf(r, row), row |-> row.id, debit |-> row.debit,
                                 credit |-> row.credit, amount |-> row.amount])

\* post_transaction, its accounts resolved.  A 2xx, of a replay too, is "posted"; any
\* other answer is an "error" and the run goes on: the ledger refused the row, or
\* turned the request away; a lost answer is an exception and ends the run.
PostTransaction(r, row, next) ==
  /\ phase[r] = "posting"
  /\ Unresolved(r, row) = << >>
  /\ \/ /\ \/ Record(r, row) /\ Count(r, "posted")
           \/ KeyOf(r, row) \in Keys /\ Count(r, "posted") /\ UNCHANGED entries
           \/ Count(r, "errors") /\ UNCHANGED entries
        /\ Drop(r)
        /\ phase' = [phase EXCEPT ![r] = next]
        /\ UNCHANGED <<job, place, cache>>
     \/ Record(r, row) /\ Fail(r)
  /\ UNCHANGED accounts

\* An exception that nobody catches, or the end of the process: an HTTP error of the
\* upstream, of the warm-up or of an account, a timeout, a crash.
Abort(r) ==
  /\ phase[r] \in {"fetching", "warming", "posting"}
  /\ Fail(r)
  /\ UNCHANGED ledger

\* Somebody closes an account at balance zero.
Close(x) ==
  /\ x \in Closable \intersect DOMAIN accounts
  /\ accounts[x]
  /\ Holding(x) = 0
  /\ accounts' = [accounts EXCEPT ![x] = FALSE]
  /\ UNCHANGED <<entries, runs>>

\* The supported currencies: CURRENCY_EXPONENTS.
Supported == {"USD", "EUR", "GBP", "JPY", "INR", "CHF", "CAD", "AUD", "SGD"}
===============================================================================
