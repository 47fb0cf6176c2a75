----------------------------- MODULE OpenCollective -----------------------------
(***************************************************************************)
(* The Open Collective importer.  It pages through a collective's rows by  *)
(* offset, oldest first, and loads each row as it is yielded, so the next  *)
(* page is fetched after the rows of the last one were posted, from a      *)
(* collective that may have grown.                                         *)
(***************************************************************************)
EXTENDS Loader

CONSTANTS
  Nodes,       \* the rows of the collective, in the order of CREATED_AT
  PageSize

ASSUME CollectiveAssumption ==
  /\ Nodes \in Seq(ToSet(Nodes))
  /\ PageSize \in Nat \ {0}

VARIABLES
  listed,      \* how many of them there are by now
  more         \* of each run: whether there is a next page

collective == <<listed, more>>

CollectiveInit ==
  /\ listed = Min({1, Len(Nodes)})
  /\ more = [r \in Runs |-> TRUE]

\* The collective grows at its end.
Publish ==
  /\ listed < Len(Nodes)
  /\ listed' = listed + 1
  /\ UNCHANGED more

-------------------------------------------------------------------------------

IncomeKinds ==
  [CONTRIBUTION |-> "income-contributions",
   ADDED_FUNDS |-> "income-added-funds",
   PLATFORM_TIP |-> "income-platform-tips"]

ExpenseKinds ==
  [EXPENSE |-> "expense-payouts",
   PAYMENT_PROCESSOR_FEE |-> "expense-payment-processor-fees",
   HOST_FEE |-> "expense-host-fees",
   HOST_FEE_SHARE |-> "expense-host-fees",
   PLATFORM_FEE |-> "expense-platform-fees"]

\* The counterparty's role: the kind's, or the fallback of its table.
Counterparty(node) ==
  IF node.type = "CREDIT"
  THEN IF node.kind \in DOMAIN IncomeKinds THEN IncomeKinds[node.kind] ELSE "income-other"
  ELSE IF node.kind \in DOMAIN ExpenseKinds THEN ExpenseKinds[node.kind] ELSE "expense-other"

\* map_transaction answers None.
NodeSkipped(node) == node.currency \notin Supported \/ node.amount = 0

\* A credit takes cash in from the counterparty, any other type pays it out.
MapNode(node) ==
  LET cash == <<"oc", "cash", node.currency>>
      other == <<"oc", Counterparty(node), node.currency>>
      credit == node.type = "CREDIT"
  IN [id |-> node.id,
      debit |-> IF credit THEN cash ELSE other,
      credit |-> IF credit THEN other ELSE cash,
      amount |-> IF node.amount < 0 THEN -node.amount ELSE node.amount]

\* run_import.  `seen` is kept for the properties: what the collective held.
StartImport(r, limit, dry) ==
  /\ phase[r] = "idle"
  /\ job' = [job EXCEPT ![r] = [source |-> "oc", limit |-> limit, dry |-> dry, seen |-> listed]]
  /\ phase' = [phase EXCEPT ![r] = IF dry THEN "fetching" ELSE "warming"]
  /\ UNCHANGED <<ledger, place, queue, cache, summary, collective>>

\* max_count is reached: looked at only after a row was yielded.
LimitReached(r) ==
  /\ job[r].limit # NoLimit
  /\ summary[r].fetched > 0
  /\ summary[r].fetched >= job[r].limit

\* MUTANT of FetchPage: the last full page is taken for the end of the collective.
FetchPageStoppingShort(r) ==
  /\ phase[r] = "fetching" /\ job[r].source = "oc"
  /\ queue[r] = << >> /\ more[r] /\ ~LimitReached(r)
  /\ queue' = [queue EXCEPT ![r] = SubSeq(Nodes, place[r] + 1, Min({place[r] + PageSize, listed}))]
  /\ place' = [place EXCEPT ![r] = @ + PageSize]
  /\ more' = [more EXCEPT ![r] = place[r] + PageSize < listed - 1]
  /\ UNCHANGED <<ledger, job, cache, phase, summary, listed>>

\* The generator's next page; an empty one, or the totalCount of the last, ends it.
FetchPage(r) ==
  /\ phase[r] = "fetching" /\ job[r].source = "oc"
  /\ queue[r] = << >> /\ more[r] /\ ~LimitReached(r)
  /\ queue' = [queue EXCEPT ![r] = SubSeq(Nodes, place[r] + 1, Min({place[r] + PageSize, listed}))]
  /\ place' = [place EXCEPT ![r] = @ + PageSize]
  /\ more' = [more EXCEPT ![r] = place[r] + PageSize < listed]
  /\ UNCHANGED <<ledger, job, cache, phase, summary, listed>>

\* The loop takes the next row of the page: skipped, only shown, or to be posted.
TakeNode(r) ==
  /\ phase[r] = "fetching" /\ job[r].source = "oc"
  /\ queue[r] # << >> /\ ~LimitReached(r)
  /\ LET node == Head(queue[r])
         field == IF NodeSkipped(node) THEN "skipped" ELSE "posted"
     IN IF NodeSkipped(node) \/ job[r].dry
        THEN /\ summary' = [summary EXCEPT ![r]["fetched"] = @ + 1, ![r][field] = @ + 1]
             /\ Drop(r)
             /\ UNCHANGED phase
        ELSE /\ Count(r, "fetched")
             /\ phase' = [phase EXCEPT ![r] = "posting"]
             /\ UNCHANGED queue
  /\ UNCHANGED <<ledger, job, place, cache, collective>>

\* The generator returns.
EndImport(r) ==
  /\ phase[r] = "fetching" /\ job[r].source = "oc"
  /\ LimitReached(r) \/ (queue[r] = << >> /\ ~more[r])
  /\ Finish(r)
  /\ UNCHANGED collective

\* A run of the importer goes on by itself.
ImportStep(r) ==
  /\ phase[r] # "idle" /\ job[r].source = "oc"
  /\ \/ WarmCache(r, "fetching") /\ UNCHANGED collective
     \/ FetchPage(r) \/ TakeNode(r) \/ EndImport(r)
     \/ /\ phase[r] = "posting"
        /\ LET row == MapNode(Head(queue[r]))
           IN EnsureAccount(r, row) \/ PostTransaction(r, row, "fetching")
        /\ UNCHANGED collective
===============================================================================
