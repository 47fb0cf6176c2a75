----------------------------- MODULE PostingEngine -----------------------------
(***************************************************************************)
(* The posting engine of app/services/ledger.py: post_transaction and      *)
(* reverse_transaction, run concurrently by API requests that each hold    *)
(* one database session, together with deactivate_account of accounts.py,  *)
(* the only other writer of what the engine reads.                         *)
(*                                                                         *)
(* PostgreSQL runs at READ COMMITTED: every statement sees what was        *)
(* committed before it began, so each SELECT, each row lock, each INSERT   *)
(* that can wait or fail and each COMMIT is a step of its own, and other   *)
(* requests interleave between them.  Uncommitted work lives in per-       *)
(* request variables and reaches the shared tables in one COMMIT step.     *)
(*                                                                         *)
(* A request posts at most one transaction, whose id is the request's own  *)
(* name; its header (tenant, idempotency key, reversed transaction) is the *)
(* request's input and its postings are rows[t].                           *)
(***************************************************************************)
EXTENDS Accounting

CONSTANTS
  Requests,     \* the API requests, and the ids of the transactions they post
  Keys,         \* idempotency keys a client may send
  NoKey,        \* the request carries no idempotency key
  NoCurrency,   \* the line names no currency of its own
  NoInput,      \* the request has not been made yet
  NoTxn,        \* the reply names no transaction
  Inputs        \* what clients may ask for

(***************************************************************************)
(* What a request asks for.  A line may name an account that does not      *)
(* exist, or one of another tenant, and any amount: validation is the      *)
(* engine's business.                                                      *)
(***************************************************************************)
Line == [account: Nat, direction: Direction, amount: Int,
         currency: Currencies \union {NoCurrency}]
PostInput == [op: {"post"}, tenant: Tenants, key: Keys \union {NoKey}, lines: Seq(Line)]
ReverseInput == [op: {"reverse"}, tenant: Tenants, key: Keys \union {NoKey}, target: Requests]
DeactivateInput == [op: {"deactivate"}, tenant: Tenants, account: Nat]

ASSUME InputAssumption ==
  /\ Inputs \subseteq PostInput \union ReverseInput \union DeactivateInput
  /\ NoInput \notin Inputs
  /\ NoKey \notin Keys
  /\ NoCurrency \notin Currencies
  /\ NoTxn \notin Requests

VARIABLES
  \* The database.
  transactions, \* ids of the committed transactions
  history,      \* postings of each account with their balance snapshot, in commit order
  balance,      \* account_balances: posted_debits, posted_credits, version
  active,       \* accounts.is_active
  \* The requests.
  pc,           \* where each request is in its handler
  input,        \* what it was asked
  lines,        \* the lines it posts: the caller's, or the original's postings
  seen,         \* the accounts its SELECT found active
  rows,         \* the validated rows built so far
  deltas,       \* deltas[r][n + 1] is the dict `deltas` after n rows; the code keeps the last
  held,         \* the balance rows it has locked FOR UPDATE
  stored,       \* their contents, as read under the lock
  running,      \* the running signed balance of each locked account
  threaded,     \* how many rows are threaded
  staged,       \* the postings threaded so far, per account, not yet committed
  reply         \* what the caller was told

database == <<transactions, history, balance, active>>
locals == <<input, lines, seen, rows, deltas, held, stored, running, threaded, staged>>
vars == <<transactions, history, balance, active, pc, input, lines, seen, rows,
          deltas, held, stored, running, threaded, staged, reply>>

-------------------------------------------------------------------------------

\* Steps of a handler between BEGIN and the INSERT of its transaction row, and after it.
Reading == {"lookup", "load", "build", "original", "existing", "check", "close"}
InFlight == {"mirror", "lock", "thread", "commit"}
PC == {"idle", "insert", "reload", "done"} \union Reading \union InFlight

Rejection == {"account_not_found", "inactive_account", "currency_mismatch",
              "validation_error", "unbalanced", "transaction_not_found",
              "already_reversed", "account_not_empty"}
\* "server_error" is the unhandled IntegrityError; "lost" is a request whose
\* process, connection or client went away: nobody knows what became of it.
Status == {"pending", "posted", "replayed", "deactivated", "server_error", "lost"}
          \union Rejection
Reply == [status: Status, txn: Requests \union {NoTxn}]

ZeroDeltas == [a \in Accounts |-> ZeroTotals]
ZeroBalance == [debits |-> 0, credits |-> 0, version |-> 0]

Init ==
  /\ transactions = {}
  /\ history = [a \in Accounts |-> <<>>]
  /\ balance = [a \in Accounts |-> ZeroBalance]
  /\ active = [a \in Accounts |-> TRUE]
  /\ pc = [r \in Requests |-> "idle"]
  /\ input = [r \in Requests |-> NoInput]
  /\ lines = [r \in Requests |-> <<>>]
  /\ seen = [r \in Requests |-> {}]
  /\ rows = [r \in Requests |-> <<>>]
  /\ deltas = [r \in Requests |-> <<ZeroDeltas>>]
  /\ held = [r \in Requests |-> {}]
  /\ stored = [r \in Requests |-> [a \in Accounts |-> ZeroBalance]]
  /\ running = [r \in Requests |-> [a \in Accounts |-> 0]]
  /\ threaded = [r \in Requests |-> 0]
  /\ staged = [r \in Requests |-> [a \in Accounts |-> <<>>]]
  /\ reply = [r \in Requests |-> [status |-> "pending", txn |-> NoTxn]]

Goto(r, from, to) ==
  /\ pc[r] = from
  /\ pc' = [pc EXCEPT ![r] = to]

\* MUTANT of Answer: an error path that never rolls back keeps its row locks.
AnswerKeepsLocks(r, status, txn) ==
  /\ pc' = [pc EXCEPT ![r] = "done"]
  /\ reply' = [reply EXCEPT ![r] = [status |-> status, txn |-> txn]]
  /\ UNCHANGED locals

\* The handler returns or raises: get_session rolls back whatever is not
\* committed, which releases the row locks.
Answer(r, status, txn) ==
  /\ pc' = [pc EXCEPT ![r] = "done"]
  /\ reply' = [reply EXCEPT ![r] = [status |-> status, txn |-> txn]]
  /\ held' = [held EXCEPT ![r] = {}]
  /\ staged' = [staged EXCEPT ![r] = [a \in Accounts |-> <<>>]]
  /\ UNCHANGED <<input, lines, seen, rows, deltas, stored, running, threaded>>

-------------------------------------------------------------------------------
(* Beginning: the client's call reaches its handler. *)

FirstStep(op) ==
  CASE op = "post" -> "lookup" [] op = "reverse" -> "original" [] OTHER -> "check"

Begin(r) ==
  \E i \in Inputs :
    /\ Goto(r, "idle", FirstStep(i.op))
    /\ input' = [input EXCEPT ![r] = i]
    /\ lines' = [lines EXCEPT ![r] = IF i.op = "post" THEN i.lines ELSE <<>>]
    /\ UNCHANGED <<database, seen, rows, deltas, held, stored, running, threaded, staged, reply>>

-------------------------------------------------------------------------------
(* reverse_transaction, up to the lookup of its idempotency key. *)

\* The original's postings come back ordered by created_at, which is the same
\* for all of them, so in any order.
LoadOriginal(r) ==
  /\ pc[r] = "original"
  /\ LET t == input[r].target
         found == t \in transactions /\ input[t].tenant = input[r].tenant
     IN \/ /\ found
           /\ \E order \in Bijection(DOMAIN rows[t], DOMAIN rows[t]) :
                lines' = [lines EXCEPT ![r] = [i \in DOMAIN rows[t] |-> rows[t][order[i]]]]
           /\ pc' = [pc EXCEPT ![r] = "existing"]
           /\ UNCHANGED <<input, seen, rows, deltas, held, stored, running, threaded, staged, reply>>
        \/ ~found /\ Answer(r, "transaction_not_found", NoTxn)
  /\ UNCHANGED database

IsReversalOf(s, t) == input[s].op = "reverse" /\ input[s].target = t

FindReversal(t) == {s \in transactions : IsReversalOf(s, t)}

CheckExisting(r) ==
  /\ pc[r] = "existing"
  /\ LET found == FindReversal(input[r].target)
     IN \/ /\ found = {}
           /\ pc' = [pc EXCEPT ![r] = "lookup"]
           /\ UNCHANGED <<locals, reply>>
        \/ \E s \in found :
             /\ input[r].key # NoKey /\ input[s].key = input[r].key
             /\ Answer(r, "replayed", s)
        \/ \E s \in found :
             /\ input[r].key = NoKey \/ input[s].key # input[r].key
             /\ Answer(r, "already_reversed", NoTxn)
  /\ UNCHANGED database

-------------------------------------------------------------------------------
(* The idempotency key, looked up by both operations. *)

\* MUTANT of FindByKey: the lookup forgets the tenant.
FindByKeyAnyTenant(r) ==
  {t \in transactions : input[r].key # NoKey /\ input[t].key = input[r].key}

FindByKey(r) ==
  {t \in transactions : /\ input[r].key # NoKey
                        /\ input[t].tenant = input[r].tenant
                        /\ input[t].key = input[r].key}

LookupKey(r) ==
  /\ pc[r] = "lookup"
  /\ LET found == FindByKey(r)
     IN \/ /\ found = {}
           /\ pc' = [pc EXCEPT ![r] = IF input[r].op = "post" THEN "load" ELSE "insert"]
           /\ UNCHANGED <<locals, reply>>
        \/ \E t \in found : Answer(r, "replayed", t)
  /\ UNCHANGED database

-------------------------------------------------------------------------------
(* post_transaction: load the accounts, then validate line by line. *)

LoadAccounts(r) ==
  /\ pc[r] = "load"
  /\ \/ /\ Len(lines[r]) >= 2
        /\ pc' = [pc EXCEPT ![r] = "build"]
        /\ seen' = [seen EXCEPT ![r] = {a \in AccountsOf(input[r].tenant) : active[a]}]
        /\ UNCHANGED <<input, lines, rows, deltas, held, stored, running, threaded, staged, reply>>
     \/ /\ Len(lines[r]) < 2
        /\ Answer(r, "validation_error", NoTxn)
  /\ UNCHANGED database

\* What is wrong with a line, in the order the checks are made.
LineError(r, line) ==
  CASE line.account \notin AccountsOf(input[r].tenant) -> "account_not_found"
    [] line.account \notin seen[r] -> "inactive_account"
    [] line.currency \notin {NoCurrency, CurrencyOf[line.account]} -> "currency_mismatch"
    [] line.amount <= 0 -> "validation_error"
    [] OTHER -> "ok"

AddRow(d, row) ==
  [d EXCEPT ![row.account] = AddTo(@, row.direction, row.amount)]

AppendRow(r, row) ==
  /\ rows' = [rows EXCEPT ![r] = Append(@, row)]
  /\ deltas' = [deltas EXCEPT ![r] = Append(@, AddRow(@[Len(@)], row))]
  /\ UNCHANGED <<input, lines, seen, held, stored, running, threaded, staged, reply>>

Built(r) == Len(rows[r]) >= Len(lines[r])

\* One iteration of the loop of _build_postings.
BuildLine(r) ==
  /\ pc[r] = "build"
  /\ ~Built(r)
  /\ LET line == lines[r][Len(rows[r]) + 1]
         error == LineError(r, line)
     IN \/ /\ error = "ok"
           /\ AppendRow(r, [account |-> line.account, direction |-> line.direction,
                            amount |-> line.amount])
           /\ UNCHANGED pc
        \/ error # "ok" /\ Answer(r, error, NoTxn)
  /\ UNCHANGED database

\* MUTANT of CheckBalanced: one total for all currencies.
CheckBalancedOverall(r) ==
  /\ pc[r] = "build"
  /\ Built(r)
  /\ LET total(d) == SumOver(rows[r], LAMBDA row : row.direction = d)
     IN \/ /\ total("debit") = total("credit")
           /\ pc' = [pc EXCEPT ![r] = "insert"]
           /\ UNCHANGED <<locals, reply>>
        \/ total("debit") # total("credit") /\ Answer(r, "unbalanced", NoTxn)
  /\ UNCHANGED database

\* After the loop: debits must equal credits in every currency.
CheckBalanced(r) ==
  /\ pc[r] = "build"
  /\ Built(r)
  /\ \/ /\ Balanced(rows[r])
        /\ pc' = [pc EXCEPT ![r] = "insert"]
        /\ UNCHANGED <<locals, reply>>
     \/ ~Balanced(rows[r]) /\ Answer(r, "unbalanced", NoTxn)
  /\ UNCHANGED database

-------------------------------------------------------------------------------
(* The INSERT of the transaction row, flushed before the postings. *)

\* MUTANT of Clash: no unique constraint on reverses_transaction_id.
ClashOnKeyOnly(r, s) ==
  /\ input[r].key # NoKey
  /\ input[s].key = input[r].key
  /\ input[s].tenant = input[r].tenant

\* The unique constraints (tenant_id, idempotency_key) and reverses_transaction_id.
Clash(r, s) ==
  \/ /\ input[r].key # NoKey
     /\ input[s].key = input[r].key
     /\ input[s].tenant = input[r].tenant
  \/ /\ input[r].op = "reverse"
     /\ IsReversalOf(s, input[r].target)

Inserted == {s \in Requests : pc[s] \in InFlight}

\* MUTANT of InsertTransaction: no unique constraint at all.
InsertUnchecked(r) ==
  /\ pc[r] = "insert"
  /\ pc' = [pc EXCEPT ![r] = IF input[r].op = "post" THEN "lock" ELSE "mirror"]
  /\ UNCHANGED <<database, locals, reply>>

\* PostgreSQL makes the INSERT wait for an uncommitted row it clashes with, and
\* fails it if that row is committed.  The failure is raised by flush(), which
\* no handler of IntegrityError surrounds.  The constraints are checked in one
\* step: their indexes are filled in a fixed order, so waiting half-way through
\* adds no cycle.
InsertTransaction(r) ==
  /\ pc[r] = "insert"
  /\ \A s \in Inserted : ~Clash(r, s)
  /\ \/ /\ \E s \in transactions : Clash(r, s)
        /\ Answer(r, "server_error", NoTxn)
     \/ /\ \A s \in transactions : ~Clash(r, s)
        /\ pc' = [pc EXCEPT ![r] = IF input[r].op = "post" THEN "lock" ELSE "mirror"]
        /\ UNCHANGED <<locals, reply>>
  /\ UNCHANGED database

\* One iteration of reverse_transaction's loop over the original's postings.
MirrorLine(r) ==
  /\ pc[r] = "mirror"
  /\ \/ /\ ~Built(r)
        /\ LET line == lines[r][Len(rows[r]) + 1]
           IN AppendRow(r, [account |-> line.account, amount |-> line.amount,
                            direction |-> Opposite(line.direction)])
        /\ UNCHANGED pc
     \/ /\ Built(r)
        /\ pc' = [pc EXCEPT ![r] = "lock"]
        /\ UNCHANGED <<locals, reply>>
  /\ UNCHANGED database

-------------------------------------------------------------------------------
(* _write_postings. *)

Unlocked(r) == Touched(rows[r]) \ held[r]
\* MUTANT of NextToLock: rows are locked in the order the lines name them.
NextInRowOrder(r) ==
  rows[r][Min({i \in DOMAIN rows[r] : rows[r][i].account \in Unlocked(r)})].account

NextToLock(r) == Min(Unlocked(r))
\* MUTANT of LockedByOthers: the SELECT forgets FOR UPDATE.
LockedByNobody(r) == {}

LockedByOthers(r) == UNION {held[s] : s \in Requests \ {r}}

\* SELECT ... ORDER BY account_id FOR UPDATE locks one row after the other and
\* reads each as it is when its lock is granted.
LockBalance(r) ==
  /\ pc[r] = "lock"
  /\ Unlocked(r) # {}
  /\ LET a == NextToLock(r)
     IN /\ a \notin LockedByOthers(r)
        /\ held' = [held EXCEPT ![r] = @ \union {a}]
        /\ stored' = [stored EXCEPT ![r][a] = balance[a]]
        /\ running' = [running EXCEPT ![r][a] = Signed(a, balance[a])]
  /\ UNCHANGED <<database, pc, input, lines, seen, rows, deltas, threaded, staged, reply>>

AllLocked(r) ==
  /\ Goto(r, "lock", "thread")
  /\ Unlocked(r) = {}
  /\ UNCHANGED <<database, locals, reply>>

\* One iteration of the threading loop: the next row, in order, is stamped with
\* the account's balance before and after it.
ThreadRow(r) ==
  /\ pc[r] = "thread"
  /\ threaded[r] < Len(rows[r])
  /\ LET row == rows[r][threaded[r] + 1]
         before == running[r][row.account]
         after == before + Effect(row.account, row.direction, row.amount)
         posting == [txn |-> r, direction |-> row.direction, amount |-> row.amount,
                     before |-> before, after |-> after]
     IN /\ running' = [running EXCEPT ![r][row.account] = after]
        /\ staged' = [staged EXCEPT ![r][row.account] = Append(@, posting)]
  /\ threaded' = [threaded EXCEPT ![r] = @ + 1]
  /\ UNCHANGED <<database, pc, input, lines, seen, rows, deltas, held, stored, reply>>

AllThreaded(r) ==
  /\ Goto(r, "thread", "commit")
  /\ threaded[r] = Len(rows[r])
  /\ UNCHANGED <<database, locals, reply>>

\* MUTANT of ApplyDelta: credits taken off.
ApplyDeltaSubtracted(b, d) ==
  [debits |-> b.debits + d.debits, credits |-> b.credits - d.credits,
   version |-> b.version + 1]

ApplyDelta(b, d) ==
  [debits |-> b.debits + d.debits, credits |-> b.credits + d.credits,
   version |-> b.version + 1]

\* The balance UPDATEs are flushed by the COMMIT, which publishes the row, its
\* postings and the new balances at once and releases the locks.
Commit(r) ==
  /\ Goto(r, "commit", "reload")
  /\ transactions' = transactions \union {r}
  /\ history' = [a \in Accounts |-> history[a] \o staged[r][a]]
  /\ balance' = [a \in Accounts |->
       IF a \in Touched(rows[r])
       THEN ApplyDelta(stored[r][a], deltas[r][Len(deltas[r])][a])
       ELSE balance[a]]
  /\ held' = [held EXCEPT ![r] = {}]
  /\ staged' = [staged EXCEPT ![r] = [a \in Accounts |-> <<>>]]
  /\ UNCHANGED <<active, input, lines, seen, rows, deltas, stored, running, threaded, reply>>

\* The transaction is read back and returned.
Reload(r) ==
  /\ pc[r] = "reload"
  /\ Answer(r, "posted", r)
  /\ UNCHANGED database

-------------------------------------------------------------------------------
(* deactivate_account. *)

\* The account and its balance row are read, neither of them locked.
CheckEmpty(r) ==
  /\ pc[r] = "check"
  /\ LET a == input[r].account
     IN \/ a \notin AccountsOf(input[r].tenant) /\ Answer(r, "account_not_found", NoTxn)
        \/ /\ a \in AccountsOf(input[r].tenant)
           /\ Signed(a, balance[a]) # 0
           /\ Answer(r, "account_not_empty", NoTxn)
        \/ /\ a \in AccountsOf(input[r].tenant)
           /\ Signed(a, balance[a]) = 0
           /\ pc' = [pc EXCEPT ![r] = "close"]
           /\ UNCHANGED <<locals, reply>>
  /\ UNCHANGED database

\* UPDATE accounts SET is_active = false, and COMMIT.
CloseAccount(r) ==
  /\ pc[r] = "close"
  /\ active' = [active EXCEPT ![input[r].account] = FALSE]
  /\ Answer(r, "deactivated", NoTxn)
  /\ UNCHANGED <<transactions, history, balance>>

-------------------------------------------------------------------------------
(* Failure: the process dies, the connection drops or the client gives up.
   PostgreSQL rolls back what is not committed; a request that had committed
   loses only its answer. *)

Lose(r) ==
  /\ pc[r] \notin {"idle", "done"}
  /\ Answer(r, "lost", NoTxn)
  /\ UNCHANGED database

-------------------------------------------------------------------------------

Step(r) ==
  \/ LoadOriginal(r) \/ CheckExisting(r)
  \/ LookupKey(r) \/ LoadAccounts(r) \/ BuildLine(r) \/ CheckBalanced(r)
  \/ InsertTransaction(r) \/ MirrorLine(r)
  \/ LockBalance(r) \/ AllLocked(r) \/ ThreadRow(r) \/ AllThreaded(r)
  \/ Commit(r) \/ Reload(r)
  \/ CheckEmpty(r) \/ CloseAccount(r)

\* Every client has been answered and none comes back.
Quiet ==
  /\ \A r \in Requests : pc[r] = "done"
  /\ UNCHANGED vars

Next ==
  \/ \E r \in Requests : Begin(r) \/ Step(r) \/ Lose(r)
  \/ Quiet

Spec == Init /\ [][Next]_vars

\* The event loop runs every handler that can go on, and PostgreSQL grants a
\* lock nobody holds; nothing makes a client call or a connection fail.
FairSpec == Spec /\ \A r \in Requests : WF_vars(Step(r))
===============================================================================
