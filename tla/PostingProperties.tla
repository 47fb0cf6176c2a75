--------------------------- MODULE PostingProperties ---------------------------
(***************************************************************************)
(* What PostingEngine must guarantee: the invariants, the refinement and   *)
(* the liveness property of the ledger's core, and the inductive invariant *)
(* behind them, which PostingProofs proves; and what the documentation     *)
(* says of them that the code does not do.                                 *)
(***************************************************************************)
EXTENDS PostingEngine, SequencesExt

Posting == [txn: Requests, direction: Direction, amount: Nat \ {0}, before: Int, after: Int]
Balance == [debits: Nat, credits: Nat, version: Nat]
Original == Line \union Row

\* Every variable holds a value of its kind.
TypeOK ==
  /\ transactions \subseteq Requests
  /\ history \in [Accounts -> Seq(Posting)]
  /\ balance \in [Accounts -> Balance]
  /\ active \in [Accounts -> BOOLEAN]
  /\ pc \in [Requests -> PC]
  /\ input \in [Requests -> Inputs \union {NoInput}]
  /\ lines \in [Requests -> Seq(Original)]
  /\ seen \in [Requests -> SUBSET Accounts]
  /\ rows \in [Requests -> Seq(Row)]
  /\ deltas \in [Requests -> Seq([Accounts -> Totals])]
  /\ held \in [Requests -> SUBSET Accounts]
  /\ stored \in [Requests -> [Accounts -> Balance]]
  /\ running \in [Requests -> [Accounts -> Int]]
  /\ threaded \in [Requests -> Nat]
  /\ staged \in [Requests -> [Accounts -> Seq(Posting)]]
  /\ reply \in [Requests -> Reply]

-------------------------------------------------------------------------------
(* The balance snapshot and the materialised balance. *)

\* The postings s of account a lead from one signed balance to another, each
\* starting where the one before it ended.
Chained(a, s, start, end) ==
  /\ \A i \in 1..Len(s) :
       s[i].after = s[i].before + Effect(a, s[i].direction, s[i].amount)
  /\ \A i \in 1..(Len(s) - 1) : s[i + 1].before = s[i].after
  /\ IF Len(s) = 0 THEN start = end ELSE s[1].before = start /\ s[Len(s)].after = end

\* The snapshots of an account form one unbroken chain from zero to its stored
\* balance, whatever requests interleaved: "the final threaded value equals the
\* new stored balance by construction" (ledger.py 130-131, models.py 248-253).
SnapshotChain ==
  \A a \in Accounts : Chained(a, history[a], 0, Signed(a, balance[a]))

\* What the postings s add up to in one direction.
PostedTotal(s, direction) == SumOver(s, LAMBDA p : p.direction = direction)

\* What verify_integrity recomputes: the stored debits and credits of an account
\* are the sums of its postings, and its version counts the transactions that
\* touched it.
StoredBalancesAreSums ==
  \A a \in Accounts :
    /\ balance[a].debits = PostedTotal(history[a], "debit")
    /\ balance[a].credits = PostedTotal(history[a], "credit")
    /\ balance[a].version = Cardinality({history[a][i].txn : i \in DOMAIN history[a]})

-------------------------------------------------------------------------------
(* Double entry and atomicity. *)

\* How often row occurs among the postings s as posted by t, and among the first
\* n of the rows u.
PostedTimes(s, t, row) ==
  Cardinality({i \in DOMAIN s :
    s[i].txn = t /\ s[i].direction = row.direction /\ s[i].amount = row.amount})

BuiltTimes(u, n, row) == Cardinality({i \in 1..n : u[i] = row})

\* A committed transaction is whole and balanced: at least two lines, debits
\* equal to credits in each currency, every line of it posted exactly once, on
\* accounts of the caller's tenant.
DoubleEntry ==
  \A t \in transactions :
    /\ Len(rows[t]) >= 2
    /\ Balanced(rows[t])
    /\ Touched(rows[t]) \subseteq AccountsOf(input[t].tenant)
    /\ \A i \in DOMAIN rows[t] :
         LET row == rows[t][i]
         IN PostedTimes(history[row.account], t, row) = BuiltTimes(rows[t], Len(rows[t]), row)

-------------------------------------------------------------------------------
(* Idempotency and reversal. *)

\* However the retries interleave, a tenant's idempotency key names one
\* transaction at most, and a transaction has at most one reversal.
PostedOnce ==
  \A t, u \in transactions : t # u =>
    /\ input[t].key = NoKey \/ <<input[t].tenant, input[t].key>> # <<input[u].tenant, input[u].key>>
    /\ ~\E v \in Requests : IsReversalOf(t, v) /\ IsReversalOf(u, v)

\* A reversal takes back exactly what its original posted: on every account the
\* two together change nothing.
ReversalMirrors ==
  \A t \in transactions : input[t].op = "reverse" =>
    LET u == input[t].target
        both == rows[u] \o rows[t]
        total(a, d) == SumOver(both, LAMBDA row : row.account = a /\ row.direction = d)
    IN /\ u \in transactions
       /\ input[u].tenant = input[t].tenant
       /\ \A a \in Accounts : total(a, "debit") = total(a, "credit")

\* A request that is answered with a transaction is answered with a committed
\* one of its own tenant, and a replay with the transaction its key names.
AnswersAreCommitted ==
  \A r \in Requests : reply[r].status \in {"posted", "replayed"} =>
    LET t == reply[r].txn
    IN /\ t \in transactions
       /\ input[t].tenant = input[r].tenant
       /\ reply[r].status = "replayed" => t # r /\ input[t].key = input[r].key

-------------------------------------------------------------------------------
(* Locks. *)

\* r cannot go on before s ends.
WaitsFor(r, s) ==
  /\ r # s
  /\ \/ /\ pc[r] = "lock"
        /\ Unlocked(r) # {}
        /\ NextToLock(r) \in held[s]
     \/ /\ pc[r] = "insert"
        /\ s \in Inserted
        /\ Clash(r, s)

\* Requests never wait in a circle: in any set of them one waits for no other
\* (ledger.py 92-94, "concurrent transactions touching overlapping accounts can
\* never deadlock"), the waits on a unique index included.
NoCircularWait ==
  \A S \in SUBSET Requests : S # {} => \E r \in S : \A s \in S : ~WaitsFor(r, s)

-------------------------------------------------------------------------------
(* The inductive invariant. *)

\* Each step of a handler belongs to its operation; what was inserted or
\* committed is a post or a reversal, and a reversal's lines are an original's
\* rows.
PcFitsInput ==
  /\ \A r \in Requests :
       /\ pc[r] \in {"load", "build"} => input[r] \in PostInput
       /\ pc[r] \in {"original", "existing", "mirror"} => input[r] \in ReverseInput
       /\ pc[r] \in {"lookup", "insert", "lock", "thread", "commit", "reload"} =>
            input[r] \in PostInput \union ReverseInput
       /\ pc[r] \in {"check", "close"} => input[r] \in DeactivateInput
       /\ pc[r] = "close" => input[r].account \in Accounts
       /\ input[r] \in ReverseInput => lines[r] \in Seq(Row)
  /\ \A t \in transactions :
       pc[t] \in {"reload", "done"} /\ input[t] \in PostInput \union ReverseInput

\* No two transactions that are inserted or committed clash on a unique constraint.
Placed == transactions \union Inserted
NoClash == \A t, u \in Placed : t # u => ~Clash(t, u)

\* A request locks the balance rows it touches in ascending order, all before
\* the first line is threaded, and holds them until it ends.
LocksInOrder(r) ==
  /\ held[r] \subseteq Touched(rows[r])
  /\ pc[r] \in {"thread", "commit"} => held[r] = Touched(rows[r])
  /\ pc[r] \notin {"lock", "thread", "commit"} => held[r] = {}
  /\ pc[r] = "lock" => \A a \in held[r] : \A b \in Unlocked(r) : a < b

Locking ==
  /\ \A r \in Requests : LocksInOrder(r)
  /\ \A r, s \in Requests : r # s => held[r] \intersect held[s] = {}

\* deltas follows rows: one entry per row, each adding that row.
DeltasFollow(r) ==
  /\ Len(deltas[r]) = Len(rows[r]) + 1
  /\ deltas[r][1] = ZeroDeltas
  /\ \A i \in 1..Len(rows[r]) : deltas[r][i + 1] = AddRow(deltas[r][i], rows[r][i])

\* A request threads nothing before its locks are all held, and stages postings
\* for no account it did not lock.
ThreadsLast(r) ==
  /\ threaded[r] <= Len(rows[r])
  /\ pc[r] = "commit" => threaded[r] = Len(rows[r])
  /\ pc[r] \in {"idle", "insert", "mirror", "lock"} \union Reading => threaded[r] = 0
  /\ \A a \in Accounts \ held[r] : staged[r][a] = <<>>

\* What it read under its lock stays the stored balance until it commits, and its
\* snapshots lead from there to the balance its deltas give.
Snapshot(r, a) ==
  /\ stored[r][a] = balance[a]
  /\ running[r][a] = Signed(a, balance[a]) + Signed(a, deltas[r][threaded[r] + 1][a])
  /\ Chained(a, staged[r][a], Signed(a, balance[a]), running[r][a])

Snapshots ==
  \A r \in Requests :
    DeltasFollow(r) /\ ThreadsLast(r) /\ \A a \in held[r] : Snapshot(r, a)

\* Rows that may be posted: at least two, balanced, on accounts of the tenant.
Postable(r) ==
  /\ Len(rows[r]) >= 2
  /\ Balanced(rows[r])
  /\ Touched(rows[r]) \subseteq AccountsOf(input[r].tenant)

\* A post is postable once it is validated, a reversal once it has mirrored its
\* original, and both for ever after their COMMIT.
Validated(r) ==
  /\ pc[r] \in {"idle", "lookup", "load", "original", "existing"} => rows[r] = <<>>
  /\ pc[r] = "build" =>
       Len(lines[r]) >= 2 /\ Touched(rows[r]) \subseteq AccountsOf(input[r].tenant)
  /\ pc[r] = "insert" => IF input[r].op = "post" THEN Postable(r) ELSE rows[r] = <<>>
  /\ pc[r] \in {"lock", "thread", "commit"} \/ r \in transactions => Postable(r)

\* The row that takes back a row.
Mirror(row) ==
  [account |-> row.account, amount |-> row.amount, direction |-> Opposite(row.direction)]

\* The sequence s is u in some order.
InSomeOrder(s, u) ==
  \E order \in Bijection(DOMAIN u, DOMAIN u) : s = [i \in DOMAIN u |-> u[order[i]]]

\* The lines a reversal has loaded are its original's rows in some order, and its
\* rows are the mirrors of the first of them, of all when the loop is over.
Mirroring(r) ==
  /\ InSomeOrder(lines[r], rows[input[r].target])
  /\ Len(rows[r]) <= Len(lines[r])
  /\ \A i \in 1..Len(rows[r]) : rows[r][i] = Mirror(lines[r][i])
  /\ pc[r] \in {"lock", "thread", "commit"} \/ r \in transactions =>
       Len(rows[r]) = Len(lines[r])

Reversing(r) ==
  pc[r] \in {"existing", "lookup", "insert"} \union InFlight \/ r \in transactions =>
    (input[r].op = "reverse" => Mirroring(r))

\* What the first n of the rows u add up to on account a in one direction.
LinesTotal(u, n, a, direction) ==
  SumFunctionOnSet(AmountOf(u), {i \in 1..n : u[i].account = a /\ u[i].direction = direction})

\* The postings staged for an account are its rows threaded so far: they add up
\* to the same, and each occurs as often.
StagedRows(r) ==
  /\ \A a \in Accounts : \A d \in Direction :
       PostedTotal(staged[r][a], d) = LinesTotal(rows[r], threaded[r], a, d)
  /\ \A i \in 1..Len(rows[r]) :
       LET row == rows[r][i]
       IN PostedTimes(staged[r][row.account], r, row) = BuiltTimes(rows[r], threaded[r], row)

StagedFollows(r) ==
  IF pc[r] \in {"thread", "commit"} THEN StagedRows(r) ELSE \A a \in Accounts : staged[r][a] = <<>>

IInv ==
  /\ TypeOK /\ PcFitsInput /\ NoClash
  /\ Locking /\ Snapshots /\ SnapshotChain
  /\ \A r \in Requests : Validated(r) /\ Reversing(r) /\ StagedFollows(r)

-------------------------------------------------------------------------------
(* The abstract ledger. *)

Book ==
  [t \in transactions |->
     [tenant |-> input[t].tenant, key |-> input[t].key, rows |-> rows[t],
      reverses |-> IF input[t].op = "reverse" THEN input[t].target ELSE NoTxn]]

Ledger == INSTANCE AbstractLedger WITH
  Ids <- Requests,
  book <- Book,
  net <- [a \in Accounts |-> Signed(a, balance[a])]

\* The engine implements the ledger its callers are promised: each COMMIT is one
\* whole entry of the book, and no other step shows.
ImplementsLedger == Ledger!Spec

-------------------------------------------------------------------------------
(* Progress. *)

\* Every call is answered: no request waits for ever on a row lock or an index
\* entry, whatever the others do, as long as handlers keep running.  A request is
\* made once, so in the end those that were made are done and stay so.
EveryCallAnswered ==
  <>[](\A r \in Requests : pc[r] \in {"idle", "done"})

-------------------------------------------------------------------------------
(* What the documentation says and the code does not do. *)

\* "Lost an idempotency race: another request with the same key won." (ledger.py
\* 320): the loser is answered with the original, never with a server error.
RaceLoserIsAnswered ==
  \A r \in Requests : reply[r].status # "server_error"

\* deactivate_account is "Rejected if the account still holds a non-zero balance"
\* and closes the account "so it can no longer receive postings" (accounts.py
\* 167-171): a closed account stays at zero.
ClosedAccountsAreEmpty ==
  \A a \in Accounts : ~active[a] => Signed(a, balance[a]) = 0

PostsTo(r, a) == \E i \in DOMAIN history[a] : history[a][i].txn = r

\* "Postings to inactive accounts are rejected." (server.py 939): a call that is
\* made when an account is closed already never posts to it, whatever it is.
LatePostingsRejected ==
  \A r \in Requests, a \in Accounts :
    [](pc[r] = "idle" /\ ~active[a] => []~PostsTo(r, a))
===============================================================================
