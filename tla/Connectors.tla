------------------------------- MODULE Connectors -------------------------------
(***************************************************************************)
(* The connectors at work: runs one after the other or side by side, cut   *)
(* short anywhere, over an upstream that grows and a ledger in which       *)
(* accounts are closed; and what the mirror they keep promises.            *)
(***************************************************************************)
EXTENDS OpenCollective, Plaid

CONSTANT Options   \* the command lines: --max and --dry-run

ASSUME OptionsAssumption ==
  \A option \in Options : option.limit \in Nat \union {NoLimit} /\ option.dry \in BOOLEAN

vars == <<ledger, runs, collective, item>>

Init == LoaderInit /\ CollectiveInit /\ ItemInit

Started == {r \in Runs : phase[r] # "idle"}

\* Bound: the runs of one behaviour mirror one upstream, which moves from the first of
\* them on.  The keys and the external ids of the two never meet: they start with the
\* source.
Mirrored(source) == \A r \in Started : job[r].source = source

\* The runs are numbered as they start.
Start(r) ==
  /\ \A s \in Runs : s < r => s \in Started
  /\ \E option \in Options :
       \/ Mirrored("oc") /\ StartImport(r, option.limit, option.dry) /\ UNCHANGED item
       \/ /\ Mirrored("plaid")
          /\ \E from \in 0 .. Len(Changes) : StartSync(r, from, option.limit, option.dry)
          /\ UNCHANGED collective

\* What happens around the runs.
Upstream ==
  \/ Started # {} /\ Mirrored("oc") /\ Publish /\ UNCHANGED <<ledger, runs, item>>
  \/ Started # {} /\ Mirrored("plaid") /\ Pull /\ UNCHANGED <<ledger, runs, collective>>

Environment ==
  \/ Upstream
  \/ \E x \in Closable : Close(x) /\ UNCHANGED <<collective, item>>
  \/ \E r \in Runs : Abort(r) /\ UNCHANGED <<collective, item>>

\* A run makes its next step.
Step(r) ==
  \/ ImportStep(r) /\ UNCHANGED item
  \/ SyncStep(r) /\ UNCHANGED collective

Next ==
  \/ Environment
  \/ \E r \in Runs : Start(r) \/ Step(r) \/ (Expire(r) /\ UNCHANGED collective)

\* A run that has been started goes on, and time passes.
Fairness ==
  \A r \in Runs : WF_vars(Step(r)) /\ WF_vars(Expire(r) /\ UNCHANGED collective)

Spec == Init /\ [][Next]_vars /\ Fairness

-------------------------------------------------------------------------------

Ended(r, source) ==
  /\ r \in Started
  /\ phase[r] = "done"
  /\ job[r].source = source
  /\ ~job[r].dry

\* The rows of the ledger that an upstream row may have become: every version of it
\* that was delivered, mapped.
Versions(source, id) ==
  IF source = "oc"
  THEN {MapNode(Nodes[i]) : i \in {i \in 1 .. listed : Nodes[i].id = id /\ ~NodeSkipped(Nodes[i])}}
  ELSE {MapChange(Changes[i]) : i \in {i \in 1 .. known : /\ Changes[i].id = id
                                                         /\ IsUpdate(Changes[i])
                                                         /\ ~ChangeSkipped(Changes[i])}}

\* "Re-runs and overlapping sync windows post nothing new" (mapper.py:18-20): however
\* runs overlap, fail and are repeated, the ledger has each upstream row once, as one
\* delivered version of it.
MirrorsRowsOnce ==
  /\ \A j, k \in DOMAIN entries :
       entries[j].key[1] = entries[k].key[1] /\ entries[j].row = entries[k].row => j = k
  /\ \A k \in DOMAIN entries :
       \E version \in Versions(entries[k].key[1], entries[k].row) :
         version.debit = entries[k].debit /\ version.credit = entries[k].credit
           /\ version.amount = entries[k].amount

\* How many of these upstream rows the ledger does not have.
Missing(source, ids) == Cardinality({id \in ids : <<source, id>> \notin Keys})

\* What an import reports is so: every row it read was posted, skipped or in error,
\* and a row that is not in the ledger is one of the errors.  A run without --max has
\* read at the least every row there was when it began, although the pages are cut by
\* offset and the collective grows between them (opencollective.py:249-275).
CompleteMirror ==
  \A r \in Runs :
    Ended(r, "oc") =>
      LET rows == 1 .. summary[r].fetched
          ids == {Nodes[i].id : i \in {i \in rows : ~NodeSkipped(Nodes[i])}}
      IN /\ summary[r].fetched = summary[r].posted + summary[r].skipped + summary[r].errors
         /\ Missing("oc", ids) <= summary[r].errors
         /\ job[r].limit = NoLimit => job[r].seen <= summary[r].fetched

\* The rows the changes from one cursor to another would post.
Due(from, to) ==
  {i \in (from + 1) .. to : IsUpdate(Changes[i]) /\ ~ChangeSkipped(Changes[i])}

\* The cursor that a sync returns loses nothing in silence: a row that changed before
\* it and is not in the ledger was reported as an error, or --max cut it off, which
\* the summary tells by what it fetched (demo.py:60-62: the cursor is that of the
\* whole drain).  A run that fails returns no cursor, so its rows come again.
CursorLosesNothing ==
  \A r \in Runs :
    Ended(r, "plaid") =>
      LET ids == {Changes[i].id : i \in Due(job[r].from, place[r])}
          updates == Cardinality({i \in (job[r].from + 1) .. place[r] : IsUpdate(Changes[i])})
      IN /\ summary[r].fetched = summary[r].posted + summary[r].skipped + summary[r].errors
         /\ Missing("plaid", ids) <= summary[r].errors + (updates - summary[r].fetched)
         /\ updates > summary[r].fetched => job[r].limit = summary[r].fetched

\* Every run comes to an end, also one that polls an item whose history never arrives:
\* client.py's "max_wait_seconds" bounds it.
SyncEnds ==
  \A r \in Runs : (r \in Started) ~> (phase[r] \in {"done", "failed"})
===============================================================================
