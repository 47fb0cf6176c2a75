---------------------------------- MODULE Plaid ----------------------------------
(***************************************************************************)
(* The Plaid connector.  It drains the item's change log from a cursor,    *)
(* polling while the history is not there yet, maps all it got, loads it   *)
(* row by row, and returns the cursor to resume from.                      *)
(***************************************************************************)
EXTENDS Loader

CONSTANTS
  Changes,      \* what /transactions/sync will report, in order
  Linked,       \* the currency of each account of the item
  ChangesPage   \* how many changes a page holds

ASSUME PlaidAssumption ==
  /\ Changes \in Seq(ToSet(Changes))
  /\ ChangesPage \in Nat \ {0}

VARIABLES
  known,     \* how many changes there are by now
  ready,     \* whether Plaid has pulled the item's history
  expired    \* of each run: max_wait_seconds have passed

item == <<known, ready, expired>>

ItemInit ==
  /\ known = 0
  /\ ready = FALSE
  /\ expired = [r \in Runs |-> FALSE]

\* The history arrives, and changes after it.
Pull ==
  /\ \/ ~ready /\ known' \in 0 .. Len(Changes)
     \/ ready /\ known < Len(Changes) /\ known' = known + 1
  /\ ready' = TRUE
  /\ UNCHANGED expired

-------------------------------------------------------------------------------

\* quantize: n tenths of a minor unit to the nearest minor unit, half to even.
Quantized(n) ==
  LET m == IF n < 0 THEN -n ELSE n
      low == m \div 10
  IN IF m % 10 > 5 \/ (m % 10 = 5 /\ low % 2 = 1) THEN low + 1 ELSE low

\* map_transaction answers None: a pending row, a currency that is not supported or
\* not its account's, an account that could not be mapped, a zero amount.
ChangeSkipped(change) ==
  \/ change.pending
  \/ change.currency \notin Supported
  \/ change.account \notin {a \in DOMAIN Linked : Linked[a] = change.currency}
  \/ change.amount = 0

\* An outflow is an expense paid from the linked account, an inflow is income.
MapChange(change) ==
  LET linked == <<"plaid", "account", change.account>>
      outflow == change.amount > 0
      other == <<"plaid", IF outflow THEN "expense" ELSE "income", change.currency>>
  IN [id |-> change.id,
      debit |-> IF outflow THEN other ELSE linked,
      credit |-> IF outflow THEN linked ELSE other,
      amount |-> Quantized(change.amount)]

IsUpdate(change) == change.op \in {"added", "modified"}

\* SelectSeq, in a form that can be reasoned about: the k-th of these places, and the
\* rows of s there, in order.
Nth(at, k) == CHOOSE i \in at : Cardinality({j \in at : j <= i}) = k
Picked(s, at) == [k \in 1 .. Cardinality(at) |-> s[Nth(at, k)]]

\* The rows of one kind of a page.
Of(page, op) == Picked(page, {i \in DOMAIN page : page[i].op = op})

\* A page's added rows, then its modified ones.
Updates(page) == Of(page, "added") \o Of(page, "modified")

\* run_sync, from a cursor an earlier run returned or from the beginning.
StartSync(r, from, limit, dry) ==
  /\ phase[r] = "idle"
  /\ from \in {0} \union {place[s] : s \in {s \in Runs : /\ phase[s] = "done"
                                                         /\ job[s].source = "plaid"}}
  /\ job' = [job EXCEPT ![r] = [source |-> "plaid", limit |-> limit, dry |-> dry, from |-> from]]
  /\ place' = [place EXCEPT ![r] = from]
  /\ phase' = [phase EXCEPT ![r] = "fetching"]
  /\ UNCHANGED <<ledger, queue, cache, summary, item>>

\* The page at the run's cursor: none until the history is there.
NextCursor(r) == IF ready THEN Min({place[r] + ChangesPage, known}) ELSE place[r]
HasMore(r) == ready /\ NextCursor(r) < known
Page(r) == SubSeq(Changes, place[r] + 1, NextCursor(r))

\* The page is added to what the run got, and its cursor is the next one.
Collect(r) ==
  /\ place' = [place EXCEPT ![r] = NextCursor(r)]
  /\ queue' = [queue EXCEPT ![r] = @ \o Updates(Page(r))]
  /\ summary' = [summary EXCEPT ![r].removed = @ + Len(Of(Page(r), "removed"))]
  /\ UNCHANGED <<ledger, job, cache, item>>

GotNothing(r) == queue'[r] = << >> /\ summary'[r].removed = 0

\* MUTANT of FetchChanges: each page replaces the one before it.
FetchLastPage(r) ==
  /\ phase[r] = "fetching" /\ job[r].source = "plaid"
  /\ place' = [place EXCEPT ![r] = NextCursor(r)]
  /\ queue' = [queue EXCEPT ![r] = Updates(Page(r))]
  /\ phase' = [phase EXCEPT ![r] =
       IF HasMore(r) \/ (queue'[r] = << >> /\ ~expired[r]) THEN "fetching" ELSE "mapping"]
  /\ UNCHANGED <<ledger, job, cache, summary, item>>

\* MUTANT of FetchChanges: an empty drain polls again whatever the time is.
FetchForever(r) ==
  /\ phase[r] = "fetching" /\ job[r].source = "plaid"
  /\ Collect(r)
  /\ phase' = [phase EXCEPT ![r] = IF HasMore(r) \/ GotNothing(r) THEN "fetching" ELSE "mapping"]

\* The next page.  The run has drained the log when there is no more, except that a
\* drain that got nothing polls again until its deadline.  (An item that is not ready
\* answers with an empty page, or with PRODUCT_NOT_READY, which polls again too.)
FetchChanges(r) ==
  /\ phase[r] = "fetching" /\ job[r].source = "plaid"
  /\ Collect(r)
  /\ phase' = [phase EXCEPT ![r] =
       IF HasMore(r) \/ (GotNothing(r) /\ ~expired[r]) THEN "fetching" ELSE "mapping"]

\* PRODUCT_NOT_READY is raised again, to nobody, once the deadline is over.
GiveUp(r) ==
  /\ phase[r] = "fetching" /\ job[r].source = "plaid"
  /\ ~ready /\ expired[r]
  /\ Fail(r)
  /\ UNCHANGED <<ledger, item>>

\* The deadline of the drain passes.
Expire(r) ==
  /\ phase[r] = "fetching" /\ job[r].source = "plaid"
  /\ ~expired[r]
  /\ expired' = [expired EXCEPT ![r] = TRUE]
  /\ UNCHANGED <<ledger, runs, known, ready>>

\* The rows are cut at max_count, counted, and mapped all at once.
MapAll(r) ==
  /\ phase[r] = "mapping"
  /\ LET kept == IF job[r].limit = NoLimit THEN queue[r]
                 ELSE SubSeq(queue[r], 1, Min({job[r].limit, Len(queue[r])}))
         mapped == Picked(kept, {i \in DOMAIN kept : ~ChangeSkipped(kept[i])})
     IN /\ queue' = [queue EXCEPT ![r] = [i \in DOMAIN mapped |-> MapChange(mapped[i])]]
        /\ summary' = [summary EXCEPT
             ![r].fetched = Len(kept),
             ![r].skipped = Len(kept) - Len(mapped),
             ![r].posted = IF job[r].dry THEN Len(mapped) ELSE 0]
  /\ phase' = [phase EXCEPT ![r] = IF job[r].dry THEN "done" ELSE "warming"]
  /\ UNCHANGED <<ledger, job, place, cache, item>>

\* All rows are loaded: the summary and the cursor are returned.
EndSync(r) ==
  /\ phase[r] = "posting" /\ queue[r] = << >>
  /\ Finish(r)
  /\ UNCHANGED item

\* A run of the connector goes on by itself.
SyncStep(r) ==
  /\ phase[r] # "idle" /\ job[r].source = "plaid"
  /\ \/ FetchChanges(r) \/ GiveUp(r) \/ MapAll(r) \/ EndSync(r)
     \/ WarmCache(r, "posting") /\ UNCHANGED item
     \/ /\ phase[r] = "posting" /\ queue[r] # << >>
        /\ LET row == Head(queue[r])
           IN EnsureAccount(r, row) \/ PostTransaction(r, row, "posting")
        /\ UNCHANGED item
===============================================================================
