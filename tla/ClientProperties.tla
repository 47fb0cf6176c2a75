---------------------------- MODULE ClientProperties ----------------------------
(***************************************************************************)
(* What those who post may rely on, although answers get lost and others   *)
(* post and close accounts meanwhile.                                      *)
(***************************************************************************)
EXTENDS Clients

\* The posting calls whose entry is in the ledger.
Committed == {journal[k].id : k \in DOMAIN journal}

\* Retries: an agent that repeats a call, its lines in any order, posts it once
\* (server.py:228-231), however many answers it missed.  Identical means written alike:
\* the derived key hashes amounts as strings, so '10.0' and '10.00' are two contents
\* where an amount here is a number, written in one way.  One opening of the form posts
\* at most one entry more than the answers it missed (Transactions.tsx:235 draws a
\* fresh key each time): a person who was answered never posted twice.
RetryPostsOnce ==
  /\ \A v, w \in AgentCalls \intersect Committed :
       (v # w /\ asked[v].content.key = asked[w].content.key) =>
         /\ asked[v].content.key = NoKey
         /\ \/ asked[v].content.description # asked[w].content.description
            \/ Lines(draft[v].rows) # Lines(draft[w].rows)
  /\ \A s \in 1 .. form.session :
       LET ofSession == {w \in FormCalls : session[w] = s}
       IN Cardinality(ofSession \intersect Committed)
            <= 1 + Cardinality({w \in ofSession : heard[w] = "lost"})

\* What call w posted, if no entry since the dry run touched its accounts.
Undisturbed(w, k) ==
  \A j \in (asked[w].dry.at + 1) .. (k - 1) : \A i \in DOMAIN journal[j].lines :
    journal[j].lines[i].account \notin Touched(draft[w].rows)

\* "A clean dry-run guarantees the real post will pass" (server.py:742-743), as far as
\* it can: after a clean one the call fails only for an account closed meanwhile, for
\* a race on its key or for a lost transaction, and it posts the balances that were
\* projected unless an entry on these accounts came between.  What a dry run rejects
\* does not post either.
DryRunHolds ==
  \A w \in AgentCalls :
    (pc[w] = "done" /\ asked[w].dry # Never) =>
      /\ asked[w].dry.verdict = "rejected" => reply[w].status \in {"rejected", "replayed"}
      /\ asked[w].dry.verdict = "clean" =>
           /\ reply[w].status # "rejected"
           /\ reply[w].status = "inactive_account" =>
                \E a \in Touched(draft[w].rows) : ~active[a] /\ a \in Closable
           /\ \A k \in DOMAIN journal :
                (journal[k].id = w /\ Undisturbed(w, k)) =>
                  \A a \in Touched(draft[w].rows) :
                    LET mine == {i \in DOMAIN journal[k].lines : journal[k].lines[i].account = a}
                    IN asked[w].dry.lines[a] = [before |-> journal[k].lines[Min(mine)].before,
                                            after |-> journal[k].lines[Max(mine)].after]

\* The entry is not among the listed ones for the list being full of others as new.
PushedOff(id, ids, entries) ==
  \E k \in DOMAIN entries :
    /\ entries[k].id = id
    /\ \E others \in kSubset(ListLimit, DOMAIN entries \ {k}) : \A m \in others :
         entries[m].id \in ids /\ entries[k].created <= entries[m].created

\* Once a person has seen a form close on success and the page has settled, the list
\* shows the entry, unless as many entries as the page asks for are as new: an older
\* list that arrives later does not hide it (useAsync.ts drops the answer of a load
\* that a reload superseded).
ListShowsPosted ==
  (~page.loading /\ ~page.error) =>
    \A w \in FormCalls : heard[w] = "success" =>
      reply[w].txn \in page.shown \/ PushedOff(reply[w].txn, page.shown, journal)
===============================================================================
