--------------------------------- MODULE Clients ---------------------------------
(***************************************************************************)
(* Those who post: a person at the Transactions page of the web client,    *)
(* and an agent that calls the tools of the MCP server.  Both may never    *)
(* hear the answer of a call that took effect, or takes effect later.      *)
(*                                                                         *)
(* The form draws a fresh idempotency key per submission; the tool derives *)
(* one from the content when the agent gives none.  The page shows the     *)
(* list it loaded last, the newest entries only, and reloads after a       *)
(* success.                                                                *)
(***************************************************************************)
EXTENDS Journal

CONSTANTS
  Tenant,      \* whose key both clients hold
  FormCalls,   \* the posting calls the form may make, in order
  AgentCalls,  \* and those of the agent
  ListLimit,   \* how many entries the page asks for: 100
  FormRows,    \* what may be entered into the form
  Contents,    \* what the agent may ask to post: a description, a key, rows
  Never        \* no call, no answer, not read yet

VARIABLES
  form,     \* ComposeModal: whether it is open, the call it waits for, its session
  session,  \* of each call of the form: the opening of the form it was made in
  page,     \* useAsync: the nonce, the entries shown, loading, error
  loads,    \* the list requests under way, each with its nonce
  preview,  \* the agent's last dry run
  asked,    \* of each call of the agent: the content, and the dry run of it before
  heard     \* of each call: "waiting", "success", "error" or "lost"

web == <<form, session, page, loads>>
agent == <<preview, asked>>
vars == <<ledgerVars, web, agent, heard>>

Load(nonce) == [nonce |-> nonce, ids |-> Never]

ClientInit ==
  /\ form = [open |-> FALSE, saving |-> Never, rows |-> << >>, session |-> 0]
  /\ session = [w \in FormCalls |-> 0]
  /\ page = [nonce |-> 0, shown |-> Never, loading |-> TRUE, error |-> FALSE]
  /\ loads = {Load(0)}
  /\ preview = Never
  /\ asked = [w \in AgentCalls |-> Never]
  /\ heard = [w \in Posts |-> Never]

\* The next call of a client.
Next_(callsOf) == {w \in callsOf : heard[w] = Never /\ \A v \in callsOf : v < w => heard[v] # Never}

-------------------------------------------------------------------------------
(* The form. *)

\* "New transaction" needs the data of a first load.
Compose ==
  /\ ~form.open
  /\ page.shown # Never
  /\ \E rows \in FormRows :
       form' = [open |-> TRUE, saving |-> Never, rows |-> rows,
                session |-> 1 + Max({0} \union {session[w] : w \in FormCalls})]
  /\ UNCHANGED <<ledgerVars, session, page, loads, agent, heard>>

\* The form is closed unsent, or while it is saving: its call goes on.
Dismiss ==
  /\ form.open
  /\ form' = [form EXCEPT !.open = FALSE, !.saving = Never]
  /\ UNCHANGED <<ledgerVars, session, page, loads, agent, heard>>

FreshKey(w) == <<"fresh", w>>

Submit(w) ==
  /\ form.open
  /\ form.saving = Never
  /\ Begin(w, [tenant |-> Tenant, key |-> FreshKey(w), rows |-> form.rows])
  /\ form' = [form EXCEPT !.saving = w]
  /\ session' = [session EXCEPT ![w] = form.session]
  /\ heard' = [heard EXCEPT ![w] = "waiting"]
  /\ UNCHANGED <<page, loads, agent>>

Succeeded(w) == pc[w] = "done" /\ reply[w].status \in {"posted", "replayed"}
Failed(w) == pc[w] = "done" /\ reply[w].status \notin {"posted", "replayed"}

\* onPosted: whatever form is open is closed, and the page reloads.
Posted(w) ==
  /\ heard[w] = "waiting"
  /\ Succeeded(w)
  /\ heard' = [heard EXCEPT ![w] = "success"]
  /\ form' = [form EXCEPT !.open = FALSE, !.saving = Never]
  /\ page' = [page EXCEPT !.nonce = @ + 1, !.loading = TRUE, !.error = FALSE]
  /\ loads' = loads \union {Load(page.nonce + 1)}
  /\ UNCHANGED <<ledgerVars, session, agent>>

\* An error answer, or none at all, gives the form back to be submitted again.  The
\* call that was not answered may still commit.
NotPosted(w) ==
  /\ heard[w] = "waiting"
  /\ \/ Failed(w) /\ heard' = [heard EXCEPT ![w] = "error"]
     \/ heard' = [heard EXCEPT ![w] = "lost"]
  /\ form' = IF form.saving = w THEN [form EXCEPT !.saving = Never] ELSE form
  /\ UNCHANGED <<ledgerVars, session, page, loads, agent>>

-------------------------------------------------------------------------------
(* The page. *)

\* The server answers a list request with the ListLimit newest of the entries
\* committed by now, in any order among those of one instant.
ReadList(l) ==
  /\ l.ids = Never
  /\ LET mine == {k \in DOMAIN journal : journal[k].tenant = Tenant}
     IN \E listed \in kSubset(Min({ListLimit, Cardinality(mine)}), mine) :
          /\ \A k \in mine \ listed, m \in listed : journal[k].created <= journal[m].created
          /\ loads' = (loads \ {l}) \union {[l EXCEPT !.ids = {journal[m].id : m \in listed}]}
  /\ UNCHANGED <<ledgerVars, form, session, page, agent, heard>>

\* MUTANT of ShowList: an answer is shown although a reload has superseded it.
ShowAnyList(l) ==
  /\ l.ids # Never
  /\ loads' = loads \ {l}
  /\ page' = [page EXCEPT !.shown = l.ids, !.loading = FALSE]
  /\ UNCHANGED <<ledgerVars, form, session, agent, heard>>

\* The answer arrives: only that of the latest load is active.
ShowList(l) ==
  /\ l.ids # Never
  /\ loads' = loads \ {l}
  /\ page' = IF l.nonce = page.nonce
             THEN [page EXCEPT !.shown = l.ids, !.loading = FALSE]
             ELSE page
  /\ UNCHANGED <<ledgerVars, form, session, agent, heard>>

\* It does not arrive.
LoseList(l) ==
  /\ loads' = loads \ {l}
  /\ page' = IF l.nonce = page.nonce
             THEN [page EXCEPT !.error = TRUE, !.loading = FALSE]
             ELSE page
  /\ UNCHANGED <<ledgerVars, form, session, agent, heard>>

-------------------------------------------------------------------------------
(* The agent. *)

Lines(rows) == [row \in {rows[i] : i \in DOMAIN rows} |-> Cardinality({i \in DOMAIN rows : rows[i] = row})]

\* MUTANT of DerivedKey: the postings are hashed in the order they are given in.
KeyInOrder(c) == <<"mcp", c.description, c.rows>>

\* The hash of the description and the sorted postings.
DerivedKey(c) == <<"mcp", c.description, Lines(c.rows)>>

KeyFor(c) == IF c.key = NoKey THEN DerivedKey(c) ELSE c.key
DraftFor(c) == [tenant |-> Tenant, key |-> KeyFor(c), rows |-> c.rows]

\* The agent waits for no answer.
Free == \A w \in AgentCalls : heard[w] # "waiting"

\* A dry run validates against the accounts as they are, and looks for no key.
DryRunAccounts(c) ==
  /\ Free
  /\ preview' =
       [content |-> c, lines |-> Never, at |-> Never,
        verdict |-> IF ~Acceptable(DraftFor(c)) THEN "rejected"
                    ELSE IF \E a \in Touched(c.rows) : ~active[a] THEN "inactive_account"
                    ELSE "clean"]
  /\ UNCHANGED <<ledgerVars, web, asked, heard>>

\* MUTANT of Projected: the change is debits less credits for every type of account.
ProjectedAsDebits(c) ==
  [a \in Touched(c.rows) |->
     LET before == Signed(a, balance[a])
     IN [before |-> before,
         after |-> before + Delta(a, c.rows).debits - Delta(a, c.rows).credits]]

\* balance_before and balance_after of each account.
Projected(c) ==
  [a \in Touched(c.rows) |->
     LET before == Signed(a, balance[a])
     IN [before |-> before, after |-> before + Signed(a, Delta(a, c.rows))]]

\* Then it reads the balances, without locks.  `at` is kept for the properties.
DryRunBalances ==
  /\ preview # Never
  /\ preview.verdict = "clean" /\ preview.lines = Never
  /\ preview' = [preview EXCEPT !.lines = Projected(preview.content), !.at = Len(journal)]
  /\ UNCHANGED <<ledgerVars, web, asked, heard>>

\* The dry run is over.
Previewed == preview # Never /\ (preview.verdict = "clean" => preview.lines # Never)

\* The agent posts, whatever a dry run said, if it made one; or calls again.
CallTool(w, c) ==
  /\ Free
  /\ preview # Never => Previewed
  /\ Begin(w, DraftFor(c))
  /\ asked' = [asked EXCEPT ![w] =
       [content |-> c, dry |-> IF preview # Never /\ preview.content = c THEN preview ELSE Never]]
  /\ heard' = [heard EXCEPT ![w] = "waiting"]
  /\ UNCHANGED <<web, preview>>

\* The answer arrives, or the agent stops waiting for it.
ToolAnswered(w) ==
  /\ heard[w] = "waiting"
  /\ \/ Succeeded(w) /\ heard' = [heard EXCEPT ![w] = "success"]
     \/ Failed(w) /\ heard' = [heard EXCEPT ![w] = "error"]
     \/ heard' = [heard EXCEPT ![w] = "lost"]
  /\ UNCHANGED <<ledgerVars, web, agent>>

-------------------------------------------------------------------------------

\* A call is the form's or the agent's; `Never` is no call and no answer; the page asks
\* for some entries; what is entered or asked for are lines, and no content has a hash
\* that is no key.
ASSUME ClientsAssumption ==
  /\ FormCalls \subseteq Posts /\ IsFiniteSet(FormCalls)
  /\ AgentCalls \subseteq Posts
  /\ FormCalls \intersect AgentCalls = {}
  /\ Never \notin FormCalls
  /\ ListLimit \in Nat \ {0}
  /\ Never \notin {"waiting", "success", "error", "lost"}
  /\ \A rows \in FormRows : AreLines(rows)
  /\ \A c \in Contents : AreLines(c.rows) /\ DerivedKey(c) # NoKey

InitAll == Init /\ ClientInit

FormStep ==
  \/ Compose \/ Dismiss
  \/ \E w \in Next_(FormCalls) : Submit(w)
  \/ \E w \in FormCalls : Posted(w) \/ NotPosted(w)

PageStep == \E l \in loads : ReadList(l) \/ ShowList(l) \/ LoseList(l)

AgentStep ==
  \/ \E c \in Contents : DryRunAccounts(c)
  \/ DryRunBalances
  \/ \E w \in Next_(AgentCalls), c \in Contents : CallTool(w, c)
  \/ \E w \in AgentCalls : ToolAnswered(w)

LedgerStep ==
  /\ \/ \E w \in Posts : Proceed(w)
     \/ \E a \in Accounts : Deactivate(a)
     \/ Tick
  /\ UNCHANGED <<web, agent, heard>>

\* Bound: one of the clients is at work in a behaviour.  They meet in the ledger
\* only, where a call that a client stopped waiting for is one more poster to it.
AgentIdle == preview = Never /\ \A w \in AgentCalls : heard[w] = Never
WebIdle == form.session = 0 /\ page.loading /\ loads = {Load(0)}

Next ==
  \/ AgentIdle /\ (FormStep \/ PageStep)
  \/ WebIdle /\ AgentStep
  \/ LedgerStep

Spec == InitAll /\ [][Next]_vars
===============================================================================
