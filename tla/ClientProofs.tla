------------------------------ MODULE ClientProofs ------------------------------
(***************************************************************************)
(* What clients may rely on: that retries post once, that a dry run tells  *)
(* what the post will do, and that the list shows what was posted.         *)
(***************************************************************************)
EXTENDS ClientProperties, AccountingProofs

\* Every call is a client's.
Calls == FormCalls \union AgentCalls

\* The entries of the clients' tenant.
Ours == {journal[k].id : k \in {k \in DOMAIN journal : journal[k].tenant = Tenant}}

Form == [open: BOOLEAN, saving: FormCalls \union {Never}, rows: FormRows \union {<< >>},
         session: Nat]
Page == [nonce: Nat, shown: (SUBSET Int) \union {Never}, loading: BOOLEAN, error: BOOLEAN]
Request == [nonce: Nat, ids: (SUBSET Int) \union {Never}]

\* The clients' own state is of its kind.
WebTyping ==
  /\ heard \in [Posts -> {Never, "waiting", "success", "error", "lost"}]
  /\ DOMAIN asked = AgentCalls
  /\ session \in [FormCalls -> Nat]
  /\ form \in Form /\ page \in Page /\ loads \subseteq Request

\* The journal is a sequence, and every call has its place in the tables.
Typing ==
  /\ \E S : journal \in Seq(S)
  /\ \A k \in DOMAIN journal : journal[k].id \in Int
  /\ pc \in [Posts -> {"idle", "open", "done"}]
  /\ DOMAIN draft = Posts /\ DOMAIN reply = Posts
  /\ WebTyping

\* Calls are made by clients, all for one tenant, and heard of once made.
Made ==
  /\ \A w \in Posts : (pc[w] # "idle") <=> (heard[w] # Never)
  /\ \A w \in Posts : pc[w] # "idle" => w \in Calls /\ draft[w].tenant = Tenant
  /\ \A w \in AgentCalls :
       pc[w] # "idle" => asked[w].content \in Contents /\ draft[w] = DraftFor(asked[w].content)

\* An entry is that of the call it is named after, which was told so.
Entered ==
  \A k \in DOMAIN journal : journal[k].id \in Posts =>
    LET w == journal[k].id
    IN /\ pc[w] = "done" /\ reply[w].status = "posted"
       /\ journal[k].tenant = draft[w].tenant /\ journal[k].key = draft[w].key

\* Two calls have no key in common in the journal.
KeysDiffer ==
  \A j, k \in DOMAIN journal :
    (/\ j # k /\ journal[j].id \in Posts /\ journal[k].id \in Posts
     /\ journal[j].tenant = journal[k].tenant)
    => journal[j].key = NoKey \/ journal[j].key # journal[k].key

\* A client that was answered was told what became of its call.
Heard ==
  \A w \in Posts :
    /\ heard[w] = "success" => Succeeded(w)
    /\ heard[w] = "error" => Failed(w)

\* A call that succeeded names an entry of the tenant.
Named == \A w \in Posts : Succeeded(w) => reply[w].txn \in Ours

Done == {"error", "lost"}

\* In one opening of the form a call is made only when those before it failed or got
\* no answer.
OneAtATime ==
  /\ \A w \in FormCalls : (session[w] = 0) <=> (heard[w] = Never)
  /\ form.open => /\ form.session > 0
                  /\ \A w \in FormCalls :
                       session[w] = form.session => heard[w] \in Done \/ form.saving = w
  /\ \A v, w \in FormCalls :
       (v # w /\ session[v] = session[w] /\ session[v] # 0) => heard[v] \in Done \/ heard[w] \in Done

\* A list of `ids` shows the entry, or is full of others as new.
OnList(id, ids, entries) == id \in ids \/ PushedOff(id, ids, entries)

\* What was heard of is on the page, unless it is loading or failed to, and in every
\* answer on its way that the page would show.
UpToDate ==
  /\ \A l \in loads : l.nonce <= page.nonce
  /\ \A w \in FormCalls : heard[w] = "success" =>
       /\ \A l \in loads : l.nonce = page.nonce /\ l.ids # Never =>
            OnList(reply[w].txn, l.ids, journal)
       /\ ~page.loading /\ ~page.error => OnList(reply[w].txn, page.shown, journal)

Inv == Typing /\ Made /\ Entered /\ KeysDiffer /\ Heard /\ Named /\ OneAtATime /\ UpToDate

-------------------------------------------------------------------------------
(* What a step does to the ledger. *)

\* Call w begins with draft d.
Begins(w, d) ==
  /\ Begin(w, d)
  /\ w \in Calls /\ d.tenant = Tenant /\ AreLines(d.rows)
  /\ heard' = [heard EXCEPT ![w] = "waiting"]

\* The entry of call w is committed, or w ends without one.
Enters(w) ==
  /\ pc[w] = "open" /\ Recorded(draft[w]) = {}
  /\ \E e : /\ e.id = w /\ e.tenant = draft[w].tenant /\ e.key = draft[w].key
            /\ e.lines = Threaded(balance, draft[w].rows)
            /\ journal' = Append(journal, e)
  /\ balance' = Moved(balance, draft[w].rows)
  /\ Answered(w, "posted", w)
  /\ UNCHANGED <<active, draft, heard, agent>>

EndsWithout(w) ==
  /\ pc[w] = "open"
  /\ \E status \in {"server_error", "lost"} : Answered(w, status, NoEntry)
  /\ UNCHANGED <<journal, balance, active, draft, heard, agent>>

\* The journal at a commit: the new entry comes last.
LEMMA JournalGrows ==
  ASSUME NEW S, journal \in Seq(S), NEW e, journal' = Append(journal, e)
  PROVE  /\ \E T : journal' \in Seq(T)
         /\ Len(journal) \in Nat /\ DOMAIN journal = 1 .. Len(journal)
         /\ Len(journal') = Len(journal) + 1
         /\ DOMAIN journal' = DOMAIN journal \union {Len(journal) + 1}
         /\ \A k \in DOMAIN journal : journal'[k] = journal[k] /\ k # Len(journal) + 1
         /\ journal'[Len(journal) + 1] = e
<1>1. OneLonger(journal, Append(journal, e), e)
  BY AppendGrows
<1>2. OneLonger(journal, journal', e)
  BY <1>1
<1>3. QED
  BY <1>2 DEF OneLonger

\* A step begins a call, enters or ends one, or leaves them and the journal alone.
LEMMA LedgerStepKinds ==
  ASSUME Typing, [Next]_vars
  PROVE  \/ \E w \in Posts : \E d : Begins(w, d)
         \/ \E w \in Posts : Enters(w) \/ EndsWithout(w)
         \/ UNCHANGED <<journal, balance, pc, draft, reply>>
<1>1. CASE FormStep
  <2>1. CASE Compose \/ Dismiss
    BY <2>1 DEF Compose, Dismiss, ledgerVars, database, calls
  <2>2. CASE \E w \in Next_(FormCalls) : Submit(w)
    <3>1. PICK w \in Next_(FormCalls) : Submit(w)
      BY <2>2
    <3>2. w \in FormCalls /\ w \in Posts /\ w \in Calls
      BY <3>1, ClientsAssumption DEF Next_, Calls
    <3>3. AreLines(form.rows)
      <4>1. form.rows \in FormRows \union {<< >>}
        BY DEF Typing, WebTyping, Form
      <4>2. AreLines(<< >>)
        BY DEF AreLines
      <4>3. QED
        BY <4>1, <4>2, ClientsAssumption
    <3>4. Begins(w, [tenant |-> Tenant, key |-> FreshKey(w), rows |-> form.rows])
      BY <3>1, <3>2, <3>3 DEF Submit, Begins
    <3>5. QED
      BY <3>2, <3>4
  <2>3. CASE \E w \in FormCalls : Posted(w) \/ NotPosted(w)
    BY <2>3 DEF Posted, NotPosted, ledgerVars, database, calls
  <2>4. QED
    BY <1>1, <2>1, <2>2, <2>3 DEF FormStep
<1>2. CASE PageStep
  BY <1>2 DEF PageStep, ReadList, ShowList, LoseList, ledgerVars, database, calls
<1>3. CASE AgentStep
  <2>1. CASE \E c \in Contents : DryRunAccounts(c)
    BY <2>1 DEF DryRunAccounts, ledgerVars, database, calls
  <2>2. CASE DryRunBalances
    BY <2>2 DEF DryRunBalances, ledgerVars, database, calls
  <2>3. CASE \E w \in Next_(AgentCalls), c \in Contents : CallTool(w, c)
    <3>1. PICK w \in Next_(AgentCalls), c \in Contents : CallTool(w, c)
      BY <2>3
    <3>2. w \in Posts /\ w \in Calls
      BY <3>1, ClientsAssumption DEF Next_, Calls
    <3>3. Begins(w, DraftFor(c))
      BY <3>1, <3>2, ClientsAssumption DEF CallTool, Begins, DraftFor
    <3>4. QED
      BY <3>2, <3>3
  <2>4. CASE \E w \in AgentCalls : ToolAnswered(w)
    BY <2>4 DEF ToolAnswered, ledgerVars, database, calls
  <2>5. QED
    BY <1>3, <2>1, <2>2, <2>3, <2>4 DEF AgentStep
<1>4. CASE LedgerStep
  <2>1. CASE Tick \/ \E a \in Accounts : Deactivate(a)
    BY <2>1 DEF Tick, Deactivate, calls
  <2>2. CASE \E w \in Posts : Commit(w)
    <3>1. PICK w \in Posts : Commit(w)
      BY <2>2
    <3>2. CASE Recorded(draft[w]) = {}
      <4>1. journal' = Append(journal, Entry(w, draft[w], balance, began[w], clock))
        BY <3>1, <3>2 DEF Commit
      <4>2. \E e : /\ e.id = w /\ e.tenant = draft[w].tenant /\ e.key = draft[w].key
                   /\ e.lines = Threaded(balance, draft[w].rows)
                   /\ journal' = Append(journal, e)
        <5>1. WITNESS Entry(w, draft[w], balance, began[w], clock)
        <5>2. QED
          BY <4>1 DEF Entry
      <4>3. Enters(w)
        BY <3>1, <3>2, <4>2, <1>4 DEF Commit, Enters, LedgerStep
      <4>4. QED
        BY <4>3
    <3>3. CASE Recorded(draft[w]) # {}
      BY <3>1, <3>3, <1>4 DEF Commit, EndsWithout, LedgerStep
    <3>4. QED
      BY <3>2, <3>3
  <2>3. CASE \E w \in Posts : RollBack(w)
    BY <2>3, <1>4 DEF RollBack, EndsWithout, LedgerStep, database
  <2>4. QED
    BY <1>4, <2>1, <2>2, <2>3 DEF LedgerStep, Proceed
<1>5. CASE UNCHANGED vars
  BY <1>5 DEF vars, ledgerVars, database, calls
<1>6. QED
  BY <1>1, <1>2, <1>3, <1>4, <1>5 DEF Next

\* A call that was made keeps its draft, and one that is done its answer.
Stays(w) ==
  /\ pc[w] # "idle" => pc'[w] # "idle" /\ draft'[w] = draft[w]
  /\ pc[w] = "done" => pc'[w] = "done" /\ reply'[w] = reply[w]

\* Drafts and answers stay.
LEMMA CallsStay ==
  ASSUME Typing, [Next]_vars
  PROVE  \A w \in Posts : Stays(w)
<1> USE DEF Typing
<1>1. CASE \E w \in Posts : \E d : Begins(w, d)
  BY <1>1 DEF Begins, Begin, Answered, Stays
<1>2. CASE \E w \in Posts : Enters(w) \/ EndsWithout(w)
  BY <1>2 DEF Enters, EndsWithout, Answered, Stays
<1>3. CASE UNCHANGED <<journal, balance, pc, draft, reply>>
  BY <1>3 DEF Stays
<1>4. QED
  BY <1>1, <1>2, <1>3, LedgerStepKinds

\* Entries stay in the journal.
LEMMA OursGrows ==
  ASSUME Typing, [Next]_vars
  PROVE  Ours \subseteq Ours'
<1>1. CASE journal' = journal
  BY <1>1 DEF Ours
<1>2. CASE \E e : journal' = Append(journal, e)
  <2>1. PICK S, e : journal \in Seq(S) /\ journal' = Append(journal, e)
    BY <1>2 DEF Typing
  <2>2. \A k \in DOMAIN journal : k \in DOMAIN journal' /\ journal'[k] = journal[k]
    BY <2>1, JournalGrows
  <2>3. QED
    BY <2>2 DEF Ours
<1>3. QED
  BY <1>1, <1>2, LedgerStepKinds DEF Begins, Begin, database, Enters, EndsWithout

-------------------------------------------------------------------------------
(* Types. *)

\* The start is typed.
LEMMA InitTyping == InitAll => Typing
<1> SUFFICES ASSUME InitAll PROVE Typing
  OBVIOUS
<1> USE DEF InitAll, Init, ClientInit
<1>1. Len(Opening) \in Nat
  BY JournalAssumption
<1>2. DOMAIN journal = 1 .. Len(Opening) /\ \A k \in DOMAIN journal : journal[k].id = -k
  BY DEF Entry
<1>3. \E S : journal \in Seq(S)
  <2>1. journal \in Seq({journal[k] : k \in 1 .. Len(Opening)})
    <3>1. journal \in [1 .. Len(Opening) -> {journal[k] : k \in 1 .. Len(Opening)}]
      BY <1>2
    <3>2. QED
      BY <1>1, <3>1, SeqDef
  <2>2. QED
    BY <2>1
<1>4. \A k \in DOMAIN journal : journal[k].id \in Int
  BY <1>1, <1>2
<1>5. pc \in [Posts -> {"idle", "open", "done"}] /\ DOMAIN draft = Posts /\ DOMAIN reply = Posts
  OBVIOUS
<1>6. WebTyping
  BY DEF WebTyping, Form, Page, Request, Load
<1>7. QED
  BY <1>3, <1>4, <1>5, <1>6 DEF Typing

\* A new opening of the form has a number above that of every session so far.
LEMMA SessionsGrow ==
  ASSUME session \in [FormCalls -> Nat]
  PROVE  LET m == Max({0} \union {session[w] : w \in FormCalls})
         IN m \in Nat /\ \A w \in FormCalls : session[w] <= m
<1> DEFINE S == {session[w] : w \in FormCalls}
<1>1. IsFiniteSet(S)
  <2>1. session \in Surjection(FormCalls, S)
    BY DEF Surjection
  <2>2. QED
    BY <2>1, FS_Surjection, ClientsAssumption
<1>2. IsFiniteSet({0} \union S) /\ {0} \union S \in SUBSET Nat
  BY <1>1, FS_AddElement
<1>3. PICK m \in {0} \union S : \A n \in {0} \union S : m >= n
  BY <1>2, GreatestExists
<1>4. Max({0} \union S) \in {0} \union S /\ \A n \in {0} \union S : Max({0} \union S) >= n
  BY <1>3 DEF Max
<1>5. QED
  BY <1>4

\* The form and its calls keep their kinds.
LEMMA FormTyping ==
  ASSUME WebTyping, FormStep
  PROVE  WebTyping'
<1> USE DEF WebTyping
<1>1. CASE Compose
  <2>1. PICK chosen \in FormRows :
          form' = [open |-> TRUE, saving |-> Never, rows |-> chosen,
                   session |-> 1 + Max({0} \union {session[w] : w \in FormCalls})]
    BY <1>1 DEF Compose
  <2>2. 1 + Max({0} \union {session[w] : w \in FormCalls}) \in Nat
    BY SessionsGrow
  <2>3. form' \in Form
    BY <2>1, <2>2 DEF Form
  <2>4. QED
    BY <1>1, <2>3 DEF Compose, agent
<1>2. CASE Dismiss
  <2>1. form' \in Form
    BY <1>2 DEF Dismiss, Form
  <2>2. QED
    BY <1>2, <2>1 DEF Dismiss, agent
<1>3. CASE \E w \in Next_(FormCalls) : Submit(w)
  <2>1. PICK w \in FormCalls : Submit(w)
    BY <1>3 DEF Next_
  <2>2. form' \in Form
    BY <2>1 DEF Submit, Form
  <2>3. heard' \in [Posts -> {Never, "waiting", "success", "error", "lost"}]
    BY <2>1 DEF Submit
  <2>4. session' \in [FormCalls -> Nat]
    BY <2>1 DEF Submit, Form
  <2>5. QED
    BY <2>1, <2>2, <2>3, <2>4 DEF Submit, agent
<1>4. CASE \E w \in FormCalls : Posted(w)
  <2>1. PICK w \in FormCalls : Posted(w)
    BY <1>4
  <2>2. form' \in Form
    BY <2>1 DEF Posted, Form
  <2>3. page' \in Page
    <3>1. page' = [nonce |-> page.nonce + 1, shown |-> page.shown, loading |-> TRUE, error |-> FALSE]
      BY <2>1 DEF Posted, Page
    <3>2. page.nonce + 1 \in Nat /\ page.shown \in (SUBSET Int) \union {Never}
      BY DEF Page
    <3>3. QED
      BY <3>1, <3>2 DEF Page
  <2>4. loads' \subseteq Request
    <3>1. page.nonce + 1 \in Nat
      BY DEF Page
    <3>2. Load(page.nonce + 1) \in Request
      BY <3>1 DEF Load, Request
    <3>3. QED
      BY <2>1, <3>2 DEF Posted
  <2>5. heard' \in [Posts -> {Never, "waiting", "success", "error", "lost"}]
    BY <2>1 DEF Posted
  <2>6. QED
    BY <2>1, <2>2, <2>3, <2>4, <2>5 DEF Posted, agent
<1>5. CASE \E w \in FormCalls : NotPosted(w)
  <2>1. PICK w \in FormCalls : NotPosted(w)
    BY <1>5
  <2>2. form' \in Form
    BY <2>1 DEF NotPosted, Form
  <2>3. heard' \in [Posts -> {Never, "waiting", "success", "error", "lost"}]
    BY <2>1 DEF NotPosted
  <2>4. QED
    BY <2>1, <2>2, <2>3 DEF NotPosted, agent
<1>6. QED
  BY <1>1, <1>2, <1>3, <1>4, <1>5, FormStep DEF FormStep

\* So do the page and its requests.
LEMMA PageTyping ==
  ASSUME WebTyping, Ours \subseteq Int, PageStep
  PROVE  WebTyping'
<1> USE DEF WebTyping
<1>1. PICK l \in loads : ReadList(l) \/ ShowList(l) \/ LoseList(l)
  BY DEF PageStep
<1>2. l \in Request
  OBVIOUS
<1>3. CASE ReadList(l)
  <2>1. PICK ids \in SUBSET Ours : loads' = (loads \ {l}) \union {[l EXCEPT !.ids = ids]}
    BY <1>3 DEF ReadList, Ours, kSubset
  <2>2. [l EXCEPT !.ids = ids] \in Request
    BY <1>2 DEF Request
  <2>3. QED
    BY <1>3, <2>1, <2>2 DEF ReadList, agent
<1>4. CASE ShowList(l)
  <2>1. l.ids \in SUBSET Int
    BY <1>2, <1>4 DEF ShowList, Request
  <2>2. page' \in Page
    BY <1>4, <2>1 DEF ShowList, Page
  <2>3. QED
    BY <1>4, <2>2 DEF ShowList, agent
<1>5. CASE LoseList(l)
  <2>1. page' \in Page
    BY <1>5 DEF LoseList, Page
  <2>2. QED
    BY <1>5, <2>1 DEF LoseList, agent
<1>6. QED
  BY <1>1, <1>3, <1>4, <1>5

\* And the agent's calls.
LEMMA WebTypingKept ==
  ASSUME WebTyping, Ours \subseteq Int, [Next]_vars
  PROVE  WebTyping'
<1>1. CASE AgentStep
  <2> USE DEF WebTyping
  <2>1. CASE \E c \in Contents : DryRunAccounts(c)
    BY <2>1 DEF DryRunAccounts, web
  <2>2. CASE DryRunBalances
    BY <2>2 DEF DryRunBalances, web
  <2>3. CASE \E w \in Next_(AgentCalls), c \in Contents : CallTool(w, c)
    BY <2>3 DEF CallTool, web
  <2>4. CASE \E w \in AgentCalls : ToolAnswered(w)
    BY <2>4 DEF ToolAnswered, web, agent
  <2>5. QED
    BY <1>1, <2>1, <2>2, <2>3, <2>4 DEF AgentStep
<1>2. CASE LedgerStep
  BY <1>2 DEF WebTyping, LedgerStep, web, agent
<1>3. CASE UNCHANGED vars
  BY <1>3 DEF WebTyping, vars, web, agent
<1>4. QED
  BY <1>1, <1>2, <1>3, FormTyping, PageTyping DEF Next

\* Every step keeps the types.
LEMMA NextTyping ==
  ASSUME Typing, [Next]_vars
  PROVE  Typing'
<1>0. WebTyping'
  BY WebTypingKept DEF Typing, Ours
<1>1. CASE \E w \in Posts : \E d : Begins(w, d)
  BY <1>1, <1>0 DEF Typing, Begins, Begin, Answered, database
<1>2. CASE \E w \in Posts : Enters(w)
  <2>1. PICK w \in Posts : Enters(w)
    BY <1>2
  <2>2. PICK S, e : journal \in Seq(S) /\ e.id = w /\ journal' = Append(journal, e)
    BY <2>1 DEF Enters, Typing
  <2>3. \E T : journal' \in Seq(T)
    BY <2>2, JournalGrows
  <2>4. \A k \in DOMAIN journal' : journal'[k].id \in Int
    BY <2>2, JournalGrows, JournalAssumption DEF Typing
  <2>5. /\ pc' \in [Posts -> {"idle", "open", "done"}]
        /\ DOMAIN draft' = Posts /\ DOMAIN reply' = Posts
    BY <2>1 DEF Enters, Answered, Typing
  <2>6. QED
    BY <2>3, <2>4, <2>5, <1>0 DEF Typing
<1>3. CASE \E w \in Posts : EndsWithout(w)
  BY <1>3, <1>0 DEF Typing, EndsWithout, Answered
<1>4. CASE UNCHANGED <<journal, balance, pc, draft, reply>>
  BY <1>4, <1>0 DEF Typing
<1>5. QED
  BY <1>1, <1>2, <1>3, <1>4, LedgerStepKinds

-------------------------------------------------------------------------------
(* Calls, entries and keys. *)

\* Only a call that begins is heard of for the first time.
LEMMA NextMade ==
  ASSUME Typing, Made, [Next]_vars
  PROVE  Made'
<1> USE DEF Typing, WebTyping
<1> USE ClientsAssumption
<1>1. CASE FormStep
  <2>1. CASE \E w \in Next_(FormCalls) : Submit(w)
    <3>1. PICK w \in FormCalls : Submit(w)
      BY <2>1 DEF Next_
    <3>2. /\ pc' = [pc EXCEPT ![w] = pc'[w]] /\ pc'[w] # "idle"
          /\ heard' = [heard EXCEPT ![w] = "waiting"]
          /\ asked' = asked
          /\ draft' = [draft EXCEPT ![w] = draft'[w]] /\ draft'[w].tenant = Tenant
      BY <3>1 DEF Submit, Begin, Answered, agent
    <3>3. QED
      BY <3>1, <3>2 DEF Made, Calls
  <2>2. CASE Compose \/ Dismiss
    BY <2>2 DEF Compose, Dismiss, ledgerVars, calls, agent, Made
  <2>3. CASE \E w \in FormCalls : Posted(w) \/ NotPosted(w)
    BY <2>3 DEF Posted, NotPosted, ledgerVars, calls, agent, Made
  <2>4. QED
    BY <1>1, <2>1, <2>2, <2>3 DEF FormStep
<1>2. CASE PageStep
  BY <1>2 DEF PageStep, ReadList, ShowList, LoseList, ledgerVars, calls, agent, Made
<1>3. CASE AgentStep
  <2>1. CASE \E w \in Next_(AgentCalls), c \in Contents : CallTool(w, c)
    <3>1. PICK w \in AgentCalls, c \in Contents : CallTool(w, c)
      BY <2>1 DEF Next_
    <3>2. /\ pc' = [pc EXCEPT ![w] = pc'[w]] /\ pc'[w] # "idle"
          /\ heard' = [heard EXCEPT ![w] = "waiting"]
          /\ draft' = [draft EXCEPT ![w] = DraftFor(c)]
          /\ asked' = [asked EXCEPT ![w] = asked'[w]] /\ asked'[w].content = c
      BY <3>1 DEF CallTool, Begin, Answered
    <3>3. DraftFor(c).tenant = Tenant
      BY DEF DraftFor
    <3>4. QED
      BY <3>1, <3>2, <3>3 DEF Made, Calls
  <2>2. CASE DryRunBalances \/ \E c \in Contents : DryRunAccounts(c)
    BY <2>2 DEF DryRunAccounts, DryRunBalances, ledgerVars, calls, Made
  <2>3. CASE \E w \in AgentCalls : ToolAnswered(w)
    BY <2>3 DEF ToolAnswered, ledgerVars, calls, agent, Made
  <2>4. QED
    BY <1>3, <2>1, <2>2, <2>3 DEF AgentStep
<1>4. CASE LedgerStep
  <2>1. CASE \E w \in Posts : Proceed(w)
    BY <1>4, <2>1 DEF LedgerStep, Proceed, Commit, RollBack, Answered, agent, Made
  <2>2. CASE Tick \/ \E a \in Accounts : Deactivate(a)
    BY <1>4, <2>2 DEF LedgerStep, Tick, Deactivate, calls, agent, Made
  <2>3. QED
    BY <1>4, <2>1, <2>2 DEF LedgerStep
<1>5. CASE UNCHANGED vars
  BY <1>5 DEF vars, ledgerVars, calls, agent, Made
<1>6. QED
  BY <1>1, <1>2, <1>3, <1>4, <1>5 DEF Next

\* The entry a call adds is its own, under a key of its own.
LEMMA NextEntered ==
  ASSUME Typing, Entered, KeysDiffer, [Next]_vars
  PROVE  Entered' /\ KeysDiffer'
<1>1. \A w \in Posts : Stays(w)
  BY CallsStay
<1>2. CASE journal' = journal
  <2>1. \A w \in Posts : pc[w] = "done" =>
          pc'[w] = "done" /\ reply'[w] = reply[w] /\ draft'[w] = draft[w]
    BY <1>1 DEF Stays
  <2>2. QED
    BY <1>2, <2>1 DEF Entered, KeysDiffer
<1>3. CASE \E w \in Posts : Enters(w)
  <2>1. PICK w \in Posts : Enters(w)
    BY <1>3
  <2>2. PICK S, e : /\ journal \in Seq(S)
                    /\ e.id = w /\ e.tenant = draft[w].tenant /\ e.key = draft[w].key
                    /\ journal' = Append(journal, e)
    BY <2>1 DEF Enters, Typing
  <2> DEFINE last == Len(journal) + 1
  <2>3. /\ DOMAIN journal' = DOMAIN journal \union {last} /\ last \notin DOMAIN journal
        /\ \A k \in DOMAIN journal : journal'[k] = journal[k]
        /\ journal'[last] = e
    BY <2>2, JournalGrows
  <2> HIDE DEF last
  <2>4. pc'[w] = "done" /\ reply'[w].status = "posted" /\ draft' = draft
    BY <2>1 DEF Enters, Answered, Typing
  <2>5. \A v \in Posts : pc[v] = "done" =>
          pc'[v] = "done" /\ reply'[v] = reply[v] /\ draft'[v] = draft[v]
    BY <1>1 DEF Stays
  <2>6. Entered'
    BY <2>2, <2>3, <2>4, <2>5 DEF Entered
  <2>7. \A k \in DOMAIN journal :
          journal[k].tenant = e.tenant => e.key = NoKey \/ journal[k].key # e.key
    BY <2>1, <2>2 DEF Enters, Recorded
  <2>8. KeysDiffer'
    <3>1. SUFFICES ASSUME NEW j \in DOMAIN journal', NEW k \in DOMAIN journal', j # k,
                          journal'[j].id \in Posts, journal'[k].id \in Posts,
                          journal'[j].tenant = journal'[k].tenant
                   PROVE  journal'[j].key = NoKey \/ journal'[j].key # journal'[k].key
      BY DEF KeysDiffer
    <3>2. CASE j # last /\ k # last
      BY <2>3, <3>1, <3>2 DEF KeysDiffer
    <3>3. CASE j = last
      BY <2>3, <2>7, <3>1, <3>3
    <3>4. CASE k = last
      BY <2>3, <2>7, <3>1, <3>4
    <3>5. QED
      BY <3>2, <3>3, <3>4
  <2>9. QED
    BY <2>6, <2>8
<1>4. QED
  BY <1>2, <1>3, LedgerStepKinds DEF Begins, Begin, database, EndsWithout

\* What was heard stays true.
LEMMA NextHeard ==
  ASSUME Typing, Heard, [Next]_vars
  PROVE  Heard'
<1> USE DEF Typing, WebTyping
<1> USE ClientsAssumption
<1>1. \A w \in Posts : Stays(w)
  BY CallsStay
<1>2. \A w \in Posts : (Succeeded(w) => Succeeded(w)') /\ (Failed(w) => Failed(w)')
  BY <1>1 DEF Stays, Succeeded, Failed
<1>3. ASSUME NEW w \in Posts, heard'[w] # heard[w]
      PROVE  \/ heard'[w] = "success" /\ Succeeded(w)
             \/ heard'[w] = "error" /\ Failed(w)
             \/ heard'[w] \in {"waiting", "lost"}
  <2>1. CASE FormStep
    BY <1>3, <2>1 DEF FormStep, Compose, Dismiss, Submit, Posted, NotPosted, Next_
  <2>2. CASE PageStep
    BY <1>3, <2>2 DEF PageStep, ReadList, ShowList, LoseList
  <2>3. CASE AgentStep
    BY <1>3, <2>3 DEF AgentStep, DryRunAccounts, DryRunBalances, CallTool, ToolAnswered, Next_
  <2>4. CASE LedgerStep \/ UNCHANGED vars
    BY <1>3, <2>4 DEF LedgerStep, vars
  <2>5. QED
    BY <2>1, <2>2, <2>3, <2>4 DEF Next
<1>4. QED
  BY <1>2, <1>3 DEF Heard

\* What a call is answered with is an entry of the tenant.
LEMMA NextNamed ==
  ASSUME Typing, Made, Named, [Next]_vars
  PROVE  Named'
<1> USE DEF Typing, WebTyping
<1>1. Ours \subseteq Ours' /\ \A w \in Posts : Stays(w)
  BY OursGrows, CallsStay
<1>2. SUFFICES ASSUME NEW w \in Posts, Succeeded(w)' PROVE reply'[w].txn \in Ours'
  BY DEF Named
<1>3. CASE pc[w] = "done"
  BY <1>1, <1>2, <1>3 DEF Named, Stays, Succeeded
<1>4. CASE pc[w] # "done"
  <2>1. CASE \E v \in Posts : \E d : Begins(v, d)
    <3>1. PICK v, d : v \in Posts /\ Begins(v, d)
      BY <2>1
    <3>2. v = w
      BY <1>2, <1>4, <3>1 DEF Succeeded, Begins, Begin, Answered
    <3>3. PICK k \in Recorded(d) : reply'[w].txn = journal[k].id
      BY <1>2, <1>4, <3>1, <3>2 DEF Succeeded, Begins, Begin, Answered
    <3>4. journal[k].id \in Ours
      BY <3>1, <3>3 DEF Recorded, Ours, Begins
    <3>5. QED
      BY <1>1, <3>3, <3>4
  <2>2. CASE \E v \in Posts : Enters(v)
    <3>1. PICK v \in Posts : Enters(v)
      BY <2>2
    <3>2. v = w /\ reply'[w].txn = w
      BY <1>2, <1>4, <3>1 DEF Succeeded, Enters, Answered
    <3>3. PICK S, e : journal \in Seq(S) /\ e.id = w /\ e.tenant = draft[w].tenant
                      /\ journal' = Append(journal, e)
      BY <3>1, <3>2 DEF Enters
    <3>4. draft[w].tenant = Tenant
      BY <3>1, <3>2 DEF Made, Enters
    <3>5. Len(journal) + 1 \in DOMAIN journal' /\ journal'[Len(journal) + 1] = e
      BY <3>3, JournalGrows
    <3>6. QED
      BY <3>2, <3>3, <3>4, <3>5 DEF Ours
  <2>3. CASE \E v \in Posts : EndsWithout(v)
    BY <1>2, <1>4, <2>3 DEF Succeeded, EndsWithout, Answered
  <2>4. CASE UNCHANGED <<journal, balance, pc, draft, reply>>
    BY <1>2, <1>4, <2>4 DEF Succeeded
  <2>5. QED
    BY <2>1, <2>2, <2>3, <2>4, LedgerStepKinds
<1>5. QED
  BY <1>3, <1>4

-------------------------------------------------------------------------------
(* The form and the page. *)

\* Sessions are numbered afresh, and the form waits for its last call.
LEMMA NextOneAtATime ==
  ASSUME Typing, OneAtATime, [Next]_vars
  PROVE  OneAtATime'
<1> USE DEF Typing, WebTyping, Done
<1> USE ClientsAssumption
<1>1. CASE Compose
  <2> DEFINE m == Max({0} \union {session[w] : w \in FormCalls})
  <2>1. m \in Nat /\ \A w \in FormCalls : session[w] <= m
    BY SessionsGrow
  <2>2. form'.session = 1 + m /\ session' = session /\ heard' = heard
    BY <1>1 DEF Compose
  <2> HIDE DEF m
  <2>3. form'.session > 0 /\ \A w \in FormCalls : session'[w] # form'.session
    BY <2>1, <2>2
  <2>4. QED
    BY <2>2, <2>3 DEF OneAtATime
<1>2. CASE Dismiss
  BY <1>2 DEF Dismiss, OneAtATime, Form
<1>3. CASE \E w \in Next_(FormCalls) : Submit(w)
  <2>1. PICK w \in FormCalls : Submit(w) /\ heard[w] = Never
    BY <1>3 DEF Next_
  <2>2. /\ form.open /\ form.saving = Never
        /\ form'.open /\ form'.saving = w /\ form'.session = form.session
        /\ session' = [session EXCEPT ![w] = form.session]
        /\ heard' = [heard EXCEPT ![w] = "waiting"]
    BY <2>1 DEF Submit, Form
  <2>3. /\ form.session > 0
        /\ \A v \in FormCalls : session[v] = form.session => heard[v] \in Done
    BY <2>2 DEF OneAtATime
  <2>4. \A v \in FormCalls \ {w} : session'[v] = session[v] /\ heard'[v] = heard[v]
    BY <2>2
  <2>5. session'[w] = form.session /\ heard'[w] = "waiting"
    BY <2>1, <2>2
  <2>6. \A v \in FormCalls : (session'[v] = 0) <=> (heard'[v] = Never)
    BY <2>3, <2>4, <2>5 DEF OneAtATime, Form
  <2>7. \A v \in FormCalls : session'[v] = form'.session => heard'[v] \in Done \/ form'.saving = v
    BY <2>2, <2>3, <2>4
  <2>8. \A u, v \in FormCalls :
          (u # v /\ session'[u] = session'[v] /\ session'[u] # 0)
            => heard'[u] \in Done \/ heard'[v] \in Done
    BY <2>3, <2>4, <2>5 DEF OneAtATime
  <2>9. QED
    BY <2>2, <2>3, <2>6, <2>7, <2>8 DEF OneAtATime
<1>4. CASE \E w \in FormCalls : Posted(w)
  <2>1. PICK w \in FormCalls : Posted(w)
    BY <1>4
  <2>2. ~form'.open /\ session' = session /\ heard' = [heard EXCEPT ![w] = "success"]
        /\ heard[w] = "waiting"
    BY <2>1 DEF Posted, Form
  <2>3. QED
    BY <2>2 DEF OneAtATime
<1>5. CASE \E w \in FormCalls : NotPosted(w)
  <2>1. PICK w \in FormCalls : NotPosted(w)
    BY <1>5
  <2>2. /\ session' = session /\ heard[w] = "waiting" /\ heard'[w] \in Done
        /\ \A v \in FormCalls \ {w} : heard'[v] = heard[v]
    BY <2>1 DEF NotPosted
  <2>3. /\ form'.open = form.open /\ form'.session = form.session
        /\ form.saving # w => form'.saving = form.saving
    BY <2>1 DEF NotPosted, Form
  <2>4. QED
    BY <2>2, <2>3 DEF OneAtATime
<1>6. CASE PageStep \/ AgentStep \/ LedgerStep \/ UNCHANGED vars
  <2>1. UNCHANGED <<form, session>> /\ \A w \in FormCalls : heard'[w] = heard[w]
    <3>1. CASE PageStep
      BY <3>1 DEF PageStep, ReadList, ShowList, LoseList
    <3>2. CASE AgentStep
      BY <3>2 DEF AgentStep, DryRunAccounts, DryRunBalances, CallTool, ToolAnswered, Next_, web
    <3>3. CASE LedgerStep \/ UNCHANGED vars
      BY <3>3 DEF LedgerStep, vars, web
    <3>4. QED
      BY <1>6, <3>1, <3>2, <3>3
  <2>2. QED
    BY <2>1 DEF OneAtATime
<1>7. QED
  BY <1>1, <1>2, <1>3, <1>4, <1>5, <1>6 DEF Next, FormStep

\* What is on a list stays there, or is pushed off it, while the journal grows.
LEMMA StaysOnList ==
  ASSUME Typing, [Next]_vars
  PROVE  \A id, ids : OnList(id, ids, journal) => OnList(id, ids, journal')
<1>1. CASE journal' = journal
  BY <1>1
<1>2. CASE \E e : journal' = Append(journal, e)
  <2>1. PICK S, e : journal \in Seq(S) /\ journal' = Append(journal, e)
    BY <1>2 DEF Typing
  <2>2. \A k \in DOMAIN journal : k \in DOMAIN journal' /\ journal'[k] = journal[k]
    BY <2>1, JournalGrows
  <2>3. ASSUME NEW id, NEW ids, PushedOff(id, ids, journal)
        PROVE  PushedOff(id, ids, journal')
    <3>1. PICK k \in DOMAIN journal :
            /\ journal[k].id = id
            /\ \E others \in kSubset(ListLimit, DOMAIN journal \ {k}) : \A m \in others :
                 journal[m].id \in ids /\ journal[k].created <= journal[m].created
      BY <2>3 DEF PushedOff
    <3>2. PICK others \in kSubset(ListLimit, DOMAIN journal \ {k}) : \A m \in others :
            journal[m].id \in ids /\ journal[k].created <= journal[m].created
      BY <3>1
    <3>3. others \subseteq DOMAIN journal \ {k} /\ Cardinality(others) = ListLimit
      BY <3>2 DEF kSubset
    <3>4. others \in kSubset(ListLimit, DOMAIN journal' \ {k})
      BY <2>2, <3>3 DEF kSubset
    <3>5. journal'[k].id = id /\ \A m \in others :
            journal'[m].id \in ids /\ journal'[k].created <= journal'[m].created
      BY <2>2, <3>1, <3>2, <3>3
    <3>6. QED
      BY <2>2, <3>4, <3>5 DEF PushedOff
  <2>4. QED
    BY <2>3 DEF OnList
<1>3. QED
  BY <1>1, <1>2, LedgerStepKinds DEF Begins, Begin, database, Enters, EndsWithout

\* The newest entries of the tenant are a list every entry of it is on.
LEMMA NewestList ==
  ASSUME Typing, NEW l, ReadList(l)
  PROVE  \E ids : /\ loads' = (loads \ {l}) \union {[l EXCEPT !.ids = ids]}
                  /\ \A id \in Ours : OnList(id, ids, journal)
<1> DEFINE mine == {k \in DOMAIN journal : journal[k].tenant = Tenant}
           size == Min({ListLimit, Cardinality(mine)})
<1>1. PICK listed \in kSubset(size, mine) :
        /\ \A k \in mine \ listed, m \in listed : journal[k].created <= journal[m].created
        /\ loads' = (loads \ {l}) \union {[l EXCEPT !.ids = {journal[m].id : m \in listed}]}
  BY DEF ReadList
<1> DEFINE ids == {journal[m].id : m \in listed}
<1>2. listed \subseteq mine /\ Cardinality(listed) = size
  BY <1>1 DEF kSubset
<1>3. IsFiniteSet(mine) /\ Cardinality(mine) \in Nat
  <2>1. Len(journal) \in Nat /\ DOMAIN journal = 1 .. Len(journal)
    BY DEF Typing
  <2>2. IsFiniteSet(DOMAIN journal)
    <3>1. IsFiniteSet(1 .. Len(journal))
      BY <2>1, FS_Interval
    <3>2. QED
      BY <2>1, <3>1
  <2>3. IsFiniteSet(mine)
    BY <2>2, FS_Subset
  <2>4. QED
    BY <2>3, FS_CardinalityType
<1>4. size \in {ListLimit, Cardinality(mine)}
  <2>1. PICK m \in {ListLimit, Cardinality(mine)} : \A n \in {ListLimit, Cardinality(mine)} : m <= n
    BY <1>3, ClientsAssumption
  <2>2. QED
    BY <2>1 DEF Min
<1>5. ASSUME NEW id \in Ours, id \notin ids
      PROVE  PushedOff(id, ids, journal)
  <2>1. PICK k \in mine : journal[k].id = id
    BY <1>5 DEF Ours
  <2>2. k \notin listed
    BY <1>5, <2>1
  <2>3. Cardinality(listed) # Cardinality(mine)
    BY <1>2, <1>3, <2>1, <2>2, FS_Subset
  <2>4. listed \in kSubset(ListLimit, DOMAIN journal \ {k})
    <3>1. Cardinality(listed) = ListLimit
      BY <1>2, <1>4, <2>3
    <3>2. listed \subseteq DOMAIN journal \ {k}
      BY <1>2, <2>2
    <3>3. QED
      BY <3>1, <3>2 DEF kSubset
  <2>5. \A m \in listed : journal[m].id \in ids /\ journal[k].created <= journal[m].created
    BY <1>1, <2>1, <2>2
  <2>6. QED
    BY <2>1, <2>4, <2>5 DEF PushedOff
<1>6. \A id \in Ours : OnList(id, ids, journal)
  BY <1>5 DEF OnList
<1>7. QED
  BY <1>1, <1>6

\* A load that was superseded is never shown, and one that was not was read after
\* every success heard of.
LEMMA NextUpToDate ==
  ASSUME Typing, Heard, Named, UpToDate, [Next]_vars
  PROVE  UpToDate'
<1> USE DEF Typing, WebTyping
<1> USE ClientsAssumption
<1> DEFINE Safe(w) ==
      /\ heard[w] = "success" /\ reply'[w] = reply[w] /\ reply[w].txn \in Ours
      /\ \A ids : OnList(reply[w].txn, ids, journal) => OnList(reply'[w].txn, ids, journal')
<1>0. \A w \in FormCalls : heard[w] = "success" => Safe(w)
  <2>1. \A w \in Posts : Stays(w)
    BY CallsStay
  <2>2. QED
    BY <2>1, StaysOnList DEF Heard, Named, Stays, Succeeded
<1> HIDE DEF Safe
<1>1. ASSUME UNCHANGED <<page, loads>>,
             \A w \in FormCalls : heard'[w] = "success" => heard[w] = "success"
      PROVE  UpToDate'
  BY <1>0, <1>1 DEF UpToDate, Safe
<1>2. CASE FormStep
  <2>1. CASE \E w \in FormCalls : Posted(w)
    <3>1. PICK w \in FormCalls : Posted(w)
      BY <2>1
    <3>2. page'.nonce = page.nonce + 1 /\ page'.loading /\ loads' = loads \union {Load(page.nonce + 1)}
      BY <3>1 DEF Posted, Page
    <3>3. page.nonce \in Nat /\ \A l \in loads : l.nonce \in Nat /\ l.nonce <= page.nonce
      BY DEF UpToDate, Page, Request
    <3>4. Load(page.nonce + 1).nonce = page.nonce + 1 /\ Load(page.nonce + 1).ids = Never
      BY DEF Load
    <3>5. \A l \in loads' : /\ l.nonce <= page'.nonce
                            /\ l.nonce = page'.nonce => l.ids = Never
      BY <3>2, <3>3, <3>4
    <3>6. QED
      BY <3>2, <3>5 DEF UpToDate
  <2>2. CASE \E w \in FormCalls : NotPosted(w)
    BY <1>1, <2>2 DEF NotPosted
  <2>3. CASE Compose \/ Dismiss
    BY <1>1, <2>3 DEF Compose, Dismiss
  <2>4. CASE \E w \in Next_(FormCalls) : Submit(w)
    BY <1>1, <2>4 DEF Submit, Next_
  <2>5. QED
    BY <1>2, <2>1, <2>2, <2>3, <2>4 DEF FormStep
<1>3. CASE PageStep
  <2>1. PICK l \in loads : ReadList(l) \/ ShowList(l) \/ LoseList(l)
    BY <1>3 DEF PageStep
  <2>2. heard' = heard /\ l \in Request /\ l.nonce <= page.nonce
    BY <2>1 DEF ReadList, ShowList, LoseList, UpToDate
  <2>3. CASE ReadList(l)
    <3>1. PICK ids : /\ loads' = (loads \ {l}) \union {[l EXCEPT !.ids = ids]}
                     /\ \A id \in Ours : OnList(id, ids, journal)
      BY <2>3, NewestList
    <3>2. /\ page' = page
          /\ [l EXCEPT !.ids = ids].nonce = l.nonce /\ [l EXCEPT !.ids = ids].ids = ids
      BY <2>2, <2>3 DEF ReadList, Request
    <3>3. QED
      BY <1>0, <2>2, <3>1, <3>2 DEF UpToDate, Safe
  <2>4. CASE ShowList(l)
    <3>1. loads' = loads \ {l} /\ l.ids # Never
      BY <2>4 DEF ShowList
    <3>2. CASE l.nonce = page.nonce
      <4>1. page'.nonce = page.nonce /\ page'.shown = l.ids
        BY <2>4, <3>2 DEF ShowList, Page
      <4>2. \A w \in FormCalls : heard[w] = "success" => OnList(reply[w].txn, l.ids, journal)
        BY <3>1, <3>2 DEF UpToDate
      <4>3. QED
        BY <1>0, <2>2, <3>1, <4>1, <4>2 DEF UpToDate, Safe
    <3>3. CASE l.nonce # page.nonce
      BY <1>0, <2>2, <2>4, <3>1, <3>3 DEF UpToDate, Safe, ShowList
    <3>4. QED
      BY <3>2, <3>3
  <2>5. CASE LoseList(l)
    <3>1. loads' = loads \ {l}
      BY <2>5 DEF LoseList
    <3>2. page' = page \/ (page'.nonce = page.nonce /\ page'.error)
      BY <2>5 DEF LoseList, Page
    <3>3. QED
      BY <1>0, <2>2, <3>1, <3>2 DEF UpToDate, Safe
  <2>6. QED
    BY <2>1, <2>3, <2>4, <2>5
<1>4. CASE AgentStep
  BY <1>1, <1>4 DEF AgentStep, DryRunAccounts, DryRunBalances, CallTool, ToolAnswered, Next_, web
<1>5. CASE LedgerStep \/ UNCHANGED vars
  BY <1>1, <1>5 DEF LedgerStep, vars, web
<1>6. QED
  BY <1>2, <1>3, <1>4, <1>5 DEF Next

-------------------------------------------------------------------------------
(* Dry runs. *)

\* Stored balances are totals, and drafts are lines.
Booked ==
  /\ balance \in [Accounts -> Totals]
  /\ DOMAIN active = Accounts
  /\ \A a \in Accounts : ~active[a] => a \in Closable
  /\ \A w \in Posts : pc[w] # "idle" => AreLines(draft[w].rows)

\* A call is told what its draft and the accounts deserve: one that cannot be accepted
\* is rejected, and an inactive account is on it and stays closed.
Judged ==
  \A w \in Posts :
    /\ pc[w] = "open" => Acceptable(draft[w])
    /\ pc[w] = "done" =>
         IF Acceptable(draft[w]) THEN reply[w].status # "rejected"
         ELSE reply[w].status \in {"rejected", "replayed"}
    /\ pc[w] = "done" /\ reply[w].status = "inactive_account" =>
         \E a \in Touched(draft[w].rows) : ~active[a] /\ a \in Closable

\* No entry since the dry run p read the balances touches its accounts.
Quiet(p, entries) ==
  \A j \in (p.at + 1) .. Len(entries) : \A i \in DOMAIN entries[j].lines :
    entries[j].lines[i].account \notin Touched(p.content.rows)

\* The dry run p told the truth: it is clean only if the lines can be accepted, and what
\* it projected is what posting would do, until an entry touches these accounts.
TellsTruth(p, entries, totals) ==
  /\ DOMAIN p = {"content", "lines", "at", "verdict"}
  /\ p.content \in Contents
  /\ p.verdict = "rejected" <=> ~Acceptable(DraftFor(p.content))
  /\ (p.verdict = "clean" /\ p.lines # Never) =>
       /\ p.at \in 0 .. Len(entries)
       /\ Quiet(p, entries) =>
            \A a \in Touched(p.content.rows) :
              p.lines[a] = [before |-> Signed(a, totals[a]),
                            after |-> Signed(a, totals[a]) + Signed(a, Delta(a, p.content.rows))]

\* The dry run of a call is one of its own content, and is over.
DryRunOf(w, p) ==
  p.content = asked[w].content /\ (p.verdict = "clean" => p.lines # Never)

DryRuns ==
  /\ preview # Never => TellsTruth(preview, journal, balance)
  /\ \A w \in AgentCalls : (pc[w] # "idle" /\ asked[w].dry # Never) =>
       DryRunOf(w, asked[w].dry) /\ TellsTruth(asked[w].dry, journal, balance)

\* The lines of an entry show the balances that `shown` projects for the rows.
Shows(lines, shown, rows) ==
  \A a \in Touched(rows) :
    LET mine == {i \in DOMAIN lines : lines[i].account = a}
    IN shown[a] = [before |-> lines[Min(mine)].before, after |-> lines[Max(mine)].after]

\* What was posted is what was projected, unless an entry came between.
AsProjected(w, k) == Shows(journal[k].lines, asked[w].dry.lines, draft[w].rows)

Projections ==
  \A w \in AgentCalls : (pc[w] = "done" /\ asked[w].dry # Never /\ asked[w].dry.verdict = "clean") =>
    \A k \in DOMAIN journal : (journal[k].id = w /\ Undisturbed(w, k)) => AsProjected(w, k)

DryInv == Booked /\ Judged /\ DryRuns /\ Projections

\* What can be accepted is on existing accounts.
LEMMA AcceptedAccounts ==
  ASSUME NEW d, Acceptable(d)
  PROVE  Touched(d.rows) \subseteq Accounts
  BY DEF Acceptable, AccountsOf

\* The opening balances are totals.
LEMMA OpeningBalanceType == OpeningBalance[Len(Opening)] \in [Accounts -> Totals]
<1> DEFINE N == Len(Opening)
<1>0. N \in Nat
  BY JournalAssumption
<1>1. OpeningBalance = CHOOSE g : BalanceTable(Opening, g, N)
  BY DEF OpeningBalance, BalanceTable
<1>2. BalanceTable(Opening, OpeningBalance, N)
  BY <1>0, <1>1, BalanceTableExists
<1>3. \A i \in 1 .. N : AreLines(Opening[i].rows)
  BY JournalAssumption
<1>4. \A i \in 0 .. N : OpeningBalance[i] \in [Accounts -> Totals]
  BY <1>0, <1>2, <1>3, BalanceTableType
<1>5. QED
  BY <1>0, <1>4

\* Before any dry run there is nothing to keep.
LEMMA InitDryInv == InitAll => DryInv
<1> SUFFICES ASSUME InitAll PROVE DryInv
  OBVIOUS
<1> USE DEF InitAll, Init, ClientInit
<1>1. Booked
  BY OpeningBalanceType DEF Booked
<1>2. Judged
  BY DEF Judged
<1>3. DryRuns /\ Projections
  BY ClientsAssumption DEF DryRuns, Projections
<1>4. QED
  BY <1>1, <1>2, <1>3 DEF DryInv

\* Accounts are only closed, and only those somebody may close.
LEMMA ActiveShrinks ==
  ASSUME Typing, Booked, [Next]_vars
  PROVE  /\ DOMAIN active' = Accounts
         /\ \A a \in Accounts : (~active[a] => ~active'[a]) /\ (~active'[a] => a \in Closable)
<1>1. CASE \E a \in Accounts : Deactivate(a)
  BY <1>1 DEF Deactivate, Booked
<1>2. CASE active' = active
  BY <1>2 DEF Booked
<1>3. active' = active \/ \E a \in Accounts : Deactivate(a)
  <2>1. CASE LedgerStep
    BY <2>1 DEF LedgerStep, Proceed, Commit, RollBack, Tick, database
  <2>2. CASE FormStep
    BY <2>2 DEF FormStep, Compose, Dismiss, Submit, Begin, Posted, NotPosted, ledgerVars, database
  <2>3. CASE PageStep
    BY <2>3 DEF PageStep, ReadList, ShowList, LoseList, ledgerVars, database
  <2>4. CASE AgentStep
    BY <2>4 DEF AgentStep, DryRunAccounts, DryRunBalances, CallTool, ToolAnswered, Begin,
                ledgerVars, database
  <2>5. CASE UNCHANGED vars
    BY <2>5 DEF vars, ledgerVars, database
  <2>6. QED
    BY <2>1, <2>2, <2>3, <2>4, <2>5 DEF Next
<1>4. QED
  BY <1>1, <1>2, <1>3

\* Commits keep the balances totals, and calls begin with lines.
LEMMA NextBooked ==
  ASSUME Typing, Booked, [Next]_vars
  PROVE  Booked'
<1>1. balance' \in [Accounts -> Totals]
  <2>1. CASE \E w \in Posts : Enters(w)
    <3>1. PICK w \in Posts : Enters(w)
      BY <2>1
    <3>2. AreLines(draft[w].rows) /\ balance' = Moved(balance, draft[w].rows)
      BY <3>1 DEF Enters, Booked
    <3>3. QED
      BY <3>2, MovedFacts DEF Booked
  <2>2. CASE balance' = balance
    BY <2>2 DEF Booked
  <2>3. QED
    BY <2>1, <2>2, LedgerStepKinds DEF Begins, Begin, database, EndsWithout
<1>2. \A w \in Posts : pc'[w] # "idle" => AreLines(draft'[w].rows)
  <2>1. SUFFICES ASSUME NEW w \in Posts, pc'[w] # "idle" PROVE AreLines(draft'[w].rows)
    OBVIOUS
  <2>2. CASE pc[w] # "idle"
    BY <2>2, CallsStay DEF Stays, Booked
  <2>3. CASE pc[w] = "idle"
    <3>1. PICK v, d : v \in Posts /\ Begins(v, d)
      BY <2>1, <2>3, LedgerStepKinds DEF Typing, Enters, EndsWithout, Answered
    <3>2. v = w /\ draft'[w] = d
      BY <2>1, <2>3, <3>1 DEF Typing, Begins, Begin, Answered
    <3>3. QED
      BY <3>1, <3>2 DEF Begins
  <2>4. QED
    BY <2>2, <2>3
<1>3. QED
  BY <1>1, <1>2, ActiveShrinks DEF Booked

\* A call is judged when it begins, and accounts only close after that.
LEMMA NextJudged ==
  ASSUME Typing, Booked, Judged, [Next]_vars
  PROVE  Judged'
<1> USE DEF Typing
<1>1. /\ \A w \in Posts : Stays(w)
      /\ \A a \in Accounts : ~active[a] => ~active'[a]
  BY CallsStay, ActiveShrinks
<1> DEFINE JudgedCall(w) ==
      /\ pc'[w] = "open" => Acceptable(draft'[w])
      /\ pc'[w] = "done" =>
           IF Acceptable(draft'[w]) THEN reply'[w].status # "rejected"
           ELSE reply'[w].status \in {"rejected", "replayed"}
      /\ pc'[w] = "done" /\ reply'[w].status = "inactive_account" =>
           \E a \in Touched(draft'[w].rows) : ~active'[a] /\ a \in Closable
<1>2. ASSUME NEW w \in Posts, pc'[w] = pc[w], reply'[w] = reply[w], draft'[w] = draft[w] \/ pc[w] = "idle"
      PROVE  JudgedCall(w)
  <2>1. CASE pc[w] = "idle"
    BY <1>2, <2>1
  <2>2. CASE pc[w] # "idle"
    <3>1. pc[w] = "done" /\ reply[w].status = "inactive_account" =>
            \E a \in Touched(draft[w].rows) : ~active'[a] /\ a \in Closable
      <4>1. SUFFICES ASSUME pc[w] = "done", reply[w].status = "inactive_account"
                     PROVE  \E a \in Touched(draft[w].rows) : ~active'[a] /\ a \in Closable
        OBVIOUS
      <4>2. Acceptable(draft[w])
        BY <4>1 DEF Judged
      <4>3. PICK a \in Touched(draft[w].rows) : ~active[a] /\ a \in Closable
        BY <4>1 DEF Judged
      <4>4. a \in Accounts
        BY <4>2, <4>3, AcceptedAccounts
      <4>5. QED
        BY <1>1, <4>3, <4>4
    <3>2. QED
      BY <1>2, <2>2, <3>1 DEF Judged
  <2>3. QED
    BY <2>1, <2>2
<1>3. ASSUME NEW w \in Posts, NEW d, Begins(w, d)
      PROVE  JudgedCall(w)
  <2>1. draft'[w] = d /\ active' = active
    BY <1>3 DEF Begins, Begin, database
  <2>2. CASE Acceptable(d) /\ pc'[w] = "open"
    BY <2>1, <2>2
  <2>3. CASE pc'[w] = "done" /\ reply'[w].status = "replayed"
    BY <2>1, <2>3
  <2>4. CASE pc'[w] = "done" /\ reply'[w].status = "rejected" /\ ~Acceptable(d)
    BY <2>1, <2>4
  <2>5. CASE /\ pc'[w] = "done" /\ reply'[w].status = "inactive_account"
             /\ Acceptable(d) /\ \E a \in Touched(d.rows) : ~active[a]
    <3>1. PICK a \in Touched(d.rows) : ~active[a]
      BY <2>5
    <3>2. a \in Accounts /\ a \in Closable
      BY <2>5, <3>1, AcceptedAccounts DEF Booked
    <3>3. QED
      BY <2>1, <2>5, <3>1, <3>2
  <2>6. QED
    BY <1>3, <2>2, <2>3, <2>4, <2>5 DEF Begins, Begin, Answered
<1>4. ASSUME NEW w \in Posts, Enters(w) \/ EndsWithout(w)
      PROVE  JudgedCall(w)
  <2>1. pc[w] = "open" /\ draft' = draft /\ Acceptable(draft[w])
    BY <1>4 DEF Enters, EndsWithout, Judged
  <2>2. pc'[w] = "done" /\ reply'[w].status \in {"posted", "server_error", "lost"}
    BY <1>4 DEF Enters, EndsWithout, Answered
  <2>3. QED
    BY <2>1, <2>2
<1> HIDE DEF JudgedCall
<1>5. \A w \in Posts : JudgedCall(w)
  <2>1. CASE \E w \in Posts : \E d : Begins(w, d)
    <3>1. PICK w, d : w \in Posts /\ Begins(w, d)
      BY <2>1
    <3>2. \A v \in Posts \ {w} : pc'[v] = pc[v] /\ reply'[v] = reply[v] /\ draft'[v] = draft[v]
      BY <3>1 DEF Begins, Begin, Answered
    <3>3. QED
      BY <1>2, <1>3, <3>1, <3>2
  <2>2. CASE \E w \in Posts : Enters(w) \/ EndsWithout(w)
    <3>1. PICK w \in Posts : Enters(w) \/ EndsWithout(w)
      BY <2>2
    <3>2. \A v \in Posts \ {w} : pc'[v] = pc[v] /\ reply'[v] = reply[v] /\ draft'[v] = draft[v]
      BY <3>1 DEF Enters, EndsWithout, Answered
    <3>3. QED
      BY <1>2, <1>4, <3>1, <3>2
  <2>3. CASE UNCHANGED <<journal, balance, pc, draft, reply>>
    BY <1>2, <2>3
  <2>4. QED
    BY <2>1, <2>2, <2>3, LedgerStepKinds
<1>6. QED
  BY <1>5 DEF Judged, JudgedCall

\* A dry run that told the truth still does after any step.
LEMMA TruthKept ==
  ASSUME Typing, Booked, [Next]_vars, NEW p, TellsTruth(p, journal, balance)
  PROVE  TellsTruth(p, journal', balance')
<1>1. CASE journal' = journal /\ balance' = balance
  BY <1>1
<1>2. CASE \E w \in Posts : Enters(w)
  <2>1. PICK w \in Posts : Enters(w)
    BY <1>2
  <2>2. PICK S, e : /\ journal \in Seq(S)
                    /\ e.lines = Threaded(balance, draft[w].rows)
                    /\ journal' = Append(journal, e)
    BY <2>1 DEF Enters, Typing
  <2> DEFINE posted == draft[w].rows
             last == Len(journal) + 1
             mine == p.content.rows
  <2>3. /\ Len(journal) \in Nat /\ DOMAIN journal = 1 .. Len(journal)
        /\ Len(journal') = last /\ journal'[last] = e
        /\ \A k \in DOMAIN journal : journal'[k] = journal[k]
    BY <2>2, JournalGrows
  <2>4. AreLines(posted) /\ balance' = Moved(balance, posted)
    BY <2>1 DEF Enters, Booked
  <2> HIDE DEF last, posted
  <2>5. SUFFICES ASSUME p.verdict = "clean", p.lines # Never, Quiet(p, journal'),
                        NEW a \in Touched(mine)
                 PROVE  /\ Quiet(p, journal)
                        /\ a \in Accounts /\ Signed(a, balance'[a]) = Signed(a, balance[a])
    <3>1. p.verdict = "clean" /\ p.lines # Never =>
            p.at \in 0 .. Len(journal') /\ p.at \in 0 .. Len(journal)
      BY <2>3 DEF TellsTruth, last
    <3>2. (p.verdict = "clean" /\ p.lines # Never /\ Quiet(p, journal')) =>
            \A b \in Touched(mine) :
              p.lines[b] = [before |-> Signed(b, balance'[b]),
                            after |-> Signed(b, balance'[b]) + Signed(b, Delta(b, mine))]
      <4>1. SUFFICES ASSUME p.verdict = "clean", p.lines # Never, Quiet(p, journal'),
                            NEW b \in Touched(mine)
                     PROVE  p.lines[b] =
                              [before |-> Signed(b, balance'[b]),
                               after |-> Signed(b, balance'[b]) + Signed(b, Delta(b, mine))]
        OBVIOUS
      <4>2. Quiet(p, journal) /\ Signed(b, balance'[b]) = Signed(b, balance[b])
        BY <2>5, <4>1
      <4>3. p.lines[b] = [before |-> Signed(b, balance[b]),
                          after |-> Signed(b, balance[b]) + Signed(b, Delta(b, mine))]
        BY <4>1, <4>2 DEF TellsTruth
      <4>4. QED
        BY <4>2, <4>3
    <3>3. QED
      BY <3>1, <3>2 DEF TellsTruth
  <2>6. p.at \in 0 .. Len(journal) /\ Acceptable(DraftFor(p.content)) /\ DraftFor(p.content).rows = mine
    BY <2>5 DEF TellsTruth, DraftFor
  <2>7. Quiet(p, journal)
    BY <2>3, <2>5, <2>6 DEF Quiet, last
  <2>8. a \in Accounts
    BY <2>5, <2>6, AcceptedAccounts
  <2>9. \A i \in DOMAIN e.lines : e.lines[i].account # a
    <3>1. last \in (p.at + 1) .. Len(journal')
      BY <2>3, <2>6 DEF last
    <3>2. QED
      BY <2>3, <2>5, <3>1 DEF Quiet
  <2>10. \A i \in (0 + 1) .. Len(posted) : posted[i].account # a
    <3>1. DOMAIN e.lines = 1 .. Len(posted) /\ \A i \in 1 .. Len(posted) : e.lines[i].account = posted[i].account
      <4>1. DOMAIN posted = 1 .. Len(posted) /\ e.lines = Threaded(balance, posted)
        BY <2>2, <2>4 DEF AreLines, posted
      <4>2. QED
        BY <4>1, ThreadedAccounts
    <3>2. QED
      BY <2>9, <3>1
  <2>11. Part(posted, Len(posted), a) = ZeroTotals
    <3>1. 0 \in 0 .. Len(posted) /\ Len(posted) \in 0 .. Len(posted)
      BY <2>4 DEF AreLines
    <3>2. QED
      BY <2>4, <2>10, <3>1, PartIdle, PartEmpty
  <2>12. Signed(a, balance'[a]) = Signed(a, balance[a]) + Signed(a, ZeroTotals)
    BY <2>4, <2>8, <2>11, MovedFacts DEF Booked
  <2>13. Signed(a, ZeroTotals) = 0 /\ Signed(a, balance[a]) \in Int
    BY <2>8 DEF Booked, Signed, ZeroTotals, Totals
  <2>14. QED
    BY <2>7, <2>8, <2>12, <2>13
<1>3. QED
  BY <1>1, <1>2, LedgerStepKinds DEF Begins, Begin, database, EndsWithout

\* The agent's own state changes in its steps only, and its calls begin in them.
LEMMA AgentStepKinds ==
  ASSUME Typing, [Next]_vars
  PROVE  \/ \E w \in AgentCalls, c \in Contents : CallTool(w, c)
         \/ \E c \in Contents : DryRunAccounts(c)
         \/ DryRunBalances
         \/ UNCHANGED agent /\ \A w \in AgentCalls : pc[w] = "idle" => pc'[w] = "idle"
<1> USE DEF Typing
<1> USE ClientsAssumption
<1>1. CASE FormStep
  <2>1. CASE \E w \in Next_(FormCalls) : Submit(w)
    <3>1. PICK w \in FormCalls : Submit(w)
      BY <2>1 DEF Next_
    <3>2. UNCHANGED agent /\ \A v \in Posts \ {w} : pc'[v] = pc[v]
      BY <3>1 DEF Submit, Begin, Answered
    <3>3. QED
      BY <3>2
  <2>2. CASE Compose \/ Dismiss \/ \E w \in FormCalls : Posted(w) \/ NotPosted(w)
    BY <2>2 DEF Compose, Dismiss, Posted, NotPosted, ledgerVars, calls
  <2>3. QED
    BY <1>1, <2>1, <2>2 DEF FormStep
<1>2. CASE PageStep
  BY <1>2 DEF PageStep, ReadList, ShowList, LoseList, ledgerVars, calls
<1>3. CASE AgentStep
  <2>1. CASE \E w \in Next_(AgentCalls), c \in Contents : CallTool(w, c)
    BY <2>1 DEF Next_
  <2>2. CASE \E w \in AgentCalls : ToolAnswered(w)
    BY <2>2 DEF ToolAnswered, ledgerVars, calls
  <2>3. QED
    BY <1>3, <2>1, <2>2 DEF AgentStep
<1>4. CASE LedgerStep
  <2>1. \A w \in AgentCalls : pc[w] = "idle" => pc'[w] = "idle"
    BY <1>4 DEF LedgerStep, Proceed, Commit, RollBack, Deactivate, Tick, Answered, calls
  <2>2. QED
    BY <1>4, <2>1 DEF LedgerStep
<1>5. CASE UNCHANGED vars
  BY <1>5 DEF vars, ledgerVars, calls
<1>6. QED
  BY <1>1, <1>2, <1>3, <1>4, <1>5 DEF Next

\* A call keeps what it was asked.
LEMMA AskedStays ==
  ASSUME Typing, [Next]_vars
  PROVE  \A w \in AgentCalls : pc[w] # "idle" => asked'[w] = asked[w]
<1>1. CASE \E w \in AgentCalls, c \in Contents : CallTool(w, c)
  BY <1>1 DEF Typing, WebTyping, CallTool, Begin
<1>2. CASE DryRunBalances \/ (\E c \in Contents : DryRunAccounts(c)) \/ UNCHANGED agent
  BY <1>2 DEF DryRunAccounts, DryRunBalances, agent
<1>3. QED
  BY <1>1, <1>2, AgentStepKinds

\* A dry run tells the truth when it is made.
LEMMA NextDryRuns ==
  ASSUME Typing, Booked, DryRuns, [Next]_vars
  PROVE  DryRuns'
<1>1. \A p : TellsTruth(p, journal, balance) => TellsTruth(p, journal', balance')
  BY TruthKept
<1>2. ASSUME NEW w \in AgentCalls, pc[w] # "idle", asked'[w].dry # Never
      PROVE  DryRunOf(w, asked[w].dry)' /\ TellsTruth(asked'[w].dry, journal', balance')
  <2>1. asked'[w] = asked[w]
    BY <1>2, AskedStays
  <2>2. DryRunOf(w, asked[w].dry) /\ TellsTruth(asked[w].dry, journal, balance)
    BY <1>2, <2>1 DEF DryRuns
  <2>3. QED
    BY <1>1, <2>1, <2>2 DEF DryRunOf
<1>3. CASE \E w \in AgentCalls, c \in Contents : CallTool(w, c)
  <2>1. PICK w \in AgentCalls, c \in Contents : CallTool(w, c)
    BY <1>3
  <2>2. /\ preview' = preview
        /\ preview # Never => Previewed
        /\ w \in Posts /\ \A v \in Posts \ {w} : pc'[v] = pc[v]
        /\ asked'[w].content = c
        /\ asked'[w].dry = IF preview # Never /\ preview.content = c THEN preview ELSE Never
    BY <2>1, ClientsAssumption DEF CallTool, Begin, Answered, Typing, WebTyping
  <2>3. preview' # Never => TellsTruth(preview', journal', balance')
    BY <1>1, <2>2 DEF DryRuns
  <2>4. asked'[w].dry # Never =>
          DryRunOf(w, asked[w].dry)' /\ TellsTruth(asked'[w].dry, journal', balance')
    <3>1. SUFFICES ASSUME asked'[w].dry # Never
                   PROVE  DryRunOf(w, asked[w].dry)' /\ TellsTruth(asked'[w].dry, journal', balance')
      OBVIOUS
    <3>2. asked'[w].dry = preview /\ preview # Never /\ preview.content = c
      BY <2>2, <3>1
    <3>3. preview.verdict = "clean" => preview.lines # Never
      BY <2>2, <3>2 DEF Previewed
    <3>4. QED
      BY <2>2, <2>3, <3>2, <3>3 DEF DryRunOf
  <2>5. \A v \in AgentCalls : v # w => (pc'[v] # "idle" => pc[v] # "idle")
    BY <2>2, ClientsAssumption
  <2>6. QED
    BY <1>2, <2>3, <2>4, <2>5 DEF DryRuns
<1>4. ASSUME UNCHANGED <<ledgerVars, asked>>, TellsTruth(preview', journal, balance)
      PROVE  DryRuns'
  <2>1. UNCHANGED <<journal, balance, pc>>
    BY <1>4 DEF ledgerVars, database, calls
  <2>2. QED
    BY <1>2, <1>4, <2>1 DEF DryRuns
<1>5. CASE \E c \in Contents : DryRunAccounts(c)
  <2>1. PICK c \in Contents : DryRunAccounts(c)
    BY <1>5
  <2>2. /\ DOMAIN preview' = {"content", "lines", "at", "verdict"}
        /\ preview'.content = c /\ preview'.lines = Never
        /\ preview'.verdict = "rejected" <=> ~Acceptable(DraftFor(c))
        /\ UNCHANGED <<ledgerVars, asked>>
    BY <2>1 DEF DryRunAccounts
  <2>3. TellsTruth(preview', journal, balance)
    BY <2>2 DEF TellsTruth
  <2>4. QED
    BY <1>4, <2>2, <2>3
<1>6. CASE DryRunBalances
  <2>1. TellsTruth(preview, journal, balance)
    BY <1>6 DEF DryRuns, DryRunBalances
  <2>2. /\ DOMAIN preview' = DOMAIN preview
        /\ preview'.content = preview.content /\ preview'.verdict = preview.verdict
        /\ preview'.lines = Projected(preview.content) /\ preview'.at = Len(journal)
        /\ UNCHANGED <<ledgerVars, asked>>
    BY <1>6, <2>1 DEF DryRunBalances, TellsTruth
  <2>3. \A a \in Touched(preview.content.rows) :
          Projected(preview.content)[a] =
            [before |-> Signed(a, balance[a]),
             after |-> Signed(a, balance[a]) + Signed(a, Delta(a, preview.content.rows))]
    BY DEF Projected
  <2>4. Len(journal) \in 0 .. Len(journal)
    BY LenProperties DEF Typing
  <2>5. TellsTruth(preview', journal, balance)
    BY <2>1, <2>2, <2>3, <2>4 DEF TellsTruth
  <2>6. QED
    BY <1>4, <2>2, <2>5
<1>7. CASE UNCHANGED agent /\ \A w \in AgentCalls : pc[w] = "idle" => pc'[w] = "idle"
  <2>1. preview' = preview
    BY <1>7 DEF agent
  <2>2. QED
    BY <1>1, <1>2, <1>7, <2>1 DEF DryRuns
<1>8. QED
  BY <1>3, <1>5, <1>6, <1>7, AgentStepKinds

\* What an entry does is what a quiet dry run of it projected.
LEMMA NextProjections ==
  ASSUME Typing, Made, Entered, Booked, Judged, DryRuns, Projections, [Next]_vars
  PROVE  Projections'
<1> USE ClientsAssumption
<1>1. SUFFICES ASSUME NEW w \in AgentCalls, pc'[w] = "done", asked'[w].dry # Never,
                      asked'[w].dry.verdict = "clean",
                      NEW k \in DOMAIN journal', journal'[k].id = w, Undisturbed(w, k)'
               PROVE  AsProjected(w, k)'
  BY DEF Projections
<1>2. w \in Posts
  OBVIOUS
<1>3. ASSUME k \in DOMAIN journal, \A j \in DOMAIN journal : journal'[j] = journal[j]
      PROVE  AsProjected(w, k)'
  <2>1. pc[w] = "done"
    BY <1>1, <1>2, <1>3 DEF Entered
  <2>2. asked'[w] = asked[w] /\ draft'[w] = draft[w]
    BY <1>2, <2>1, AskedStays, CallsStay DEF Stays
  <2>3. \A j \in (asked[w].dry.at + 1) .. (k - 1) : journal'[j] = journal[j]
    <3>1. asked[w].dry.at \in 0 .. Len(journal)
      BY <1>1, <2>1, <2>2 DEF DryRuns, DryRunOf, TellsTruth
    <3>2. Len(journal) \in Nat /\ DOMAIN journal = 1 .. Len(journal)
      BY LenProperties DEF Typing
    <3>3. \A j \in (asked[w].dry.at + 1) .. (k - 1) : j \in DOMAIN journal
      BY <1>3, <3>1, <3>2
    <3>4. QED
      BY <1>3, <3>3
  <2>4. Undisturbed(w, k)
    BY <1>1, <2>2, <2>3 DEF Undisturbed
  <2>5. AsProjected(w, k)
    BY <1>1, <1>3, <2>1, <2>2, <2>4 DEF Projections
  <2>6. QED
    BY <1>3, <2>2, <2>5 DEF AsProjected
<1>4. CASE \E v \in Posts : Enters(v)
  <2>1. PICK v \in Posts : Enters(v)
    BY <1>4
  <2>2. PICK S, e : /\ journal \in Seq(S) /\ e.id = v
                    /\ e.lines = Threaded(balance, draft[v].rows)
                    /\ journal' = Append(journal, e)
    BY <2>1 DEF Enters, Typing
  <2> DEFINE last == Len(journal) + 1
  <2>3. /\ Len(journal) \in Nat /\ DOMAIN journal = 1 .. Len(journal)
        /\ DOMAIN journal' = DOMAIN journal \union {last}
        /\ \A j \in DOMAIN journal : journal'[j] = journal[j]
        /\ journal'[last] = e
    BY <2>2, JournalGrows
  <2>4. CASE k \in DOMAIN journal
    BY <1>3, <2>3, <2>4
  <2>5. CASE k = last
    <3>1. v = w
      BY <1>1, <2>2, <2>3, <2>5
    <3>2. draft' = draft /\ asked' = asked /\ pc[w] = "open"
      BY <2>1, <3>1 DEF Enters, agent
    <3> DEFINE p == asked[w].dry
    <3>3. DryRunOf(w, p) /\ TellsTruth(p, journal, balance)
      BY <1>1, <3>2 DEF DryRuns
    <3>4. /\ draft[w].rows = p.content.rows
          /\ AreLines(draft[w].rows) /\ Touched(draft[w].rows) \subseteq Accounts
      <4>1. draft[w] = DraftFor(asked[w].content)
        BY <3>2 DEF Made
      <4>2. AreLines(draft[w].rows) /\ Acceptable(draft[w])
        BY <1>2, <3>2 DEF Booked, Judged
      <4>3. QED
        BY <3>3, <4>1, <4>2, AcceptedAccounts DEF DryRunOf, DraftFor
    <3>5. p.at \in 0 .. Len(journal)
      BY <1>1, <3>2, <3>3 DEF DryRunOf, TellsTruth
    <3>6. Quiet(p, journal)
      <4>1. \A j \in (p.at + 1) .. Len(journal) : j \in (p.at + 1) .. (k - 1) /\ journal'[j] = journal[j]
        BY <2>3, <2>5, <3>5
      <4>2. QED
        BY <1>1, <3>2, <3>4, <4>1 DEF Undisturbed, Quiet
    <3>7. \A a \in Touched(draft[w].rows) :
            p.lines[a] = [before |-> Signed(a, balance[a]),
                          after |-> Signed(a, balance[a]) + Signed(a, Delta(a, draft[w].rows))]
      BY <1>1, <3>2, <3>3, <3>4, <3>6 DEF DryRunOf, TellsTruth
    <3>8. Shows(e.lines, p.lines, draft[w].rows)
      <4> HIDE DEF p
      <4>1. SUFFICES ASSUME NEW a \in Touched(draft[w].rows)
                     PROVE  LET mine == {i \in DOMAIN e.lines : e.lines[i].account = a}
                            IN p.lines[a] = [before |-> e.lines[Min(mine)].before,
                                             after |-> e.lines[Max(mine)].after]
        BY DEF Shows
      <4>2. a \in Accounts /\ balance \in [Accounts -> Totals]
        BY <3>4 DEF Booked
      <4>3. QED
        BY <2>2, <3>1, <3>4, <3>7, <4>2, ThreadedEnds
    <3>9. QED
      BY <2>3, <2>5, <3>2, <3>8 DEF AsProjected
  <2>6. QED
    BY <2>3, <2>4, <2>5
<1>5. CASE journal' = journal
  BY <1>1, <1>3, <1>5
<1>6. QED
  BY <1>4, <1>5, LedgerStepKinds DEF Begins, Begin, database, EndsWithout

-------------------------------------------------------------------------------
(* The invariant, and the properties. *)

\* Before anything is called, what was recorded is nobody's call.
LEMMA InitInv == InitAll => Inv
<1> SUFFICES ASSUME InitAll PROVE Inv
  OBVIOUS
<1>1. Typing
  BY InitTyping
<1> USE DEF InitAll, Init, ClientInit
<1>2. \A k \in DOMAIN journal : journal[k].id \notin Posts
  <2>1. Len(Opening) \in Nat /\ Posts \subseteq Nat
    BY JournalAssumption
  <2>2. DOMAIN journal = 1 .. Len(Opening) /\ \A k \in DOMAIN journal : journal[k].id = -k
    BY DEF Entry
  <2>3. QED
    BY <2>1, <2>2
<1>3. \A w \in Posts : pc[w] = "idle" /\ heard[w] = Never
  OBVIOUS
<1>4. Made /\ Entered /\ KeysDiffer /\ Heard /\ Named
  BY <1>2, <1>3, ClientsAssumption DEF Made, Entered, KeysDiffer, Heard, Named, Succeeded, Failed
<1>5. OneAtATime
  BY <1>3, ClientsAssumption DEF OneAtATime
<1>6. UpToDate
  BY <1>3, ClientsAssumption DEF UpToDate, Load
<1>7. QED
  BY <1>1, <1>4, <1>5, <1>6 DEF Inv

\* Every step keeps both parts.
LEMMA NextInv ==
  ASSUME Inv, DryInv, [Next]_vars
  PROVE  Inv' /\ DryInv'
<1> USE DEF Inv, DryInv
<1>1. Typing' /\ Made' /\ Entered'
  BY NextTyping, NextMade, NextEntered
<1>2. KeysDiffer'
  BY NextEntered
<1>3. Heard' /\ Named'
  BY NextHeard, NextNamed
<1>4. OneAtATime'
  BY NextOneAtATime
<1>5. UpToDate'
  BY NextUpToDate
<1>6. Booked' /\ Judged'
  BY NextBooked, NextJudged
<1>7. DryRuns'
  BY NextDryRuns
<1>8. Projections'
  BY NextProjections
<1>9. QED
  BY <1>1, <1>2, <1>3, <1>4, <1>5, <1>6, <1>7, <1>8

\* The invariant holds of every behaviour of the clients.
THEOREM ClientsInvariant == Spec => [](Inv /\ DryInv)
<1>1. InitAll => Inv /\ DryInv
  BY InitInv, InitDryInv
<1>2. Inv /\ DryInv /\ [Next]_vars => (Inv /\ DryInv)'
  BY NextInv
<1>3. QED
  BY <1>1, <1>2, PTL DEF Spec

\* One key, one entry: two calls of the agent that posted had different keys, and so
\* different contents unless each gave no key.
LEMMA AgentsPostOnce ==
  ASSUME Inv,
         NEW v \in AgentCalls \intersect Committed, NEW w \in AgentCalls \intersect Committed,
         v # w, asked[v].content.key = asked[w].content.key
  PROVE  /\ asked[v].content.key = NoKey
         /\ \/ asked[v].content.description # asked[w].content.description
            \/ Lines(draft[v].rows) # Lines(draft[w].rows)
<1> USE DEF Inv
<1>1. PICK j \in DOMAIN journal : journal[j].id = v
  BY DEF Committed
<1>2. PICK k \in DOMAIN journal : journal[k].id = w
  BY DEF Committed
<1>3. v \in Posts /\ w \in Posts
  BY ClientsAssumption
<1>4. /\ pc[v] = "done" /\ journal[j].tenant = draft[v].tenant /\ journal[j].key = draft[v].key
      /\ pc[w] = "done" /\ journal[k].tenant = draft[w].tenant /\ journal[k].key = draft[w].key
  BY <1>1, <1>2, <1>3 DEF Entered
<1>5. draft[v].tenant = Tenant /\ draft[w].tenant = Tenant
  BY <1>3, <1>4 DEF Made
<1> DEFINE c == asked[v].content
           d == asked[w].content
<1>6. c \in Contents /\ d \in Contents /\ draft[v] = DraftFor(c) /\ draft[w] = DraftFor(d)
  BY <1>4 DEF Made
<1>7. draft[v].key = NoKey \/ draft[v].key # draft[w].key
  BY <1>1, <1>2, <1>3, <1>4, <1>5 DEF KeysDiffer
<1>8. KeyFor(c) = NoKey \/ KeyFor(c) # KeyFor(d)
  BY <1>6, <1>7 DEF DraftFor
<1>9. KeyFor(c) # NoKey
  BY <1>6, ClientsAssumption DEF KeyFor
<1>10. c.key = NoKey /\ DerivedKey(c) # DerivedKey(d)
  BY <1>8, <1>9 DEF KeyFor
<1>11. c.description # d.description \/ Lines(c.rows) # Lines(d.rows)
  BY <1>10 DEF DerivedKey
<1>12. draft[v].rows = c.rows /\ draft[w].rows = d.rows
  BY <1>6 DEF DraftFor
<1>13. QED
  BY <1>10, <1>11, <1>12

\* Of the calls of one opening that posted, one at most was not lost: a call that was
\* told of an error recorded nothing.
LEMMA FormPostsOnce ==
  ASSUME Inv, NEW s \in 1 .. form.session
  PROVE  LET ofSession == {w \in FormCalls : session[w] = s}
         IN Cardinality(ofSession \intersect Committed)
              <= 1 + Cardinality({w \in ofSession : heard[w] = "lost"})
<1> USE DEF Inv
<1> DEFINE ofSession == {w \in FormCalls : session[w] = s}
           posted == ofSession \intersect Committed
           lost == {w \in ofSession : heard[w] = "lost"}
<1>1. IsFiniteSet(lost) /\ IsFiniteSet(posted)
  BY ClientsAssumption, FS_Subset
<1>2. \A w \in posted : heard[w] # "error"
  <2>1. SUFFICES ASSUME NEW w \in posted, heard[w] = "error" PROVE FALSE
    OBVIOUS
  <2>2. w \in Posts /\ \E k \in DOMAIN journal : journal[k].id = w
    BY ClientsAssumption DEF Committed
  <2>3. reply[w].status = "posted"
    BY <2>2 DEF Entered
  <2>4. QED
    BY <2>1, <2>2, <2>3 DEF Heard, Failed
<1>3. s # 0
  BY DEF Typing, WebTyping, Form
<1>4. \A v, w \in posted : v # w => v \in lost \/ w \in lost
  BY <1>2, <1>3 DEF OneAtATime, Done
<1>5. Cardinality(lost) \in Nat
  BY <1>1, FS_CardinalityType
<1>6. CASE posted \subseteq lost
  <2>1. Cardinality(posted) \in Nat /\ Cardinality(posted) <= Cardinality(lost)
    BY <1>1, <1>6, FS_Subset, FS_CardinalityType
  <2>2. QED
    BY <1>5, <2>1
<1>7. CASE ~(posted \subseteq lost)
  <2>1. PICK w \in posted : w \notin lost
    BY <1>7
  <2>2. posted \subseteq lost \union {w}
    BY <1>4, <2>1
  <2>3. IsFiniteSet(lost \union {w}) /\ Cardinality(lost \union {w}) = Cardinality(lost) + 1
    BY <1>1, <2>1, FS_AddElement
  <2>4. Cardinality(posted) \in Nat /\ Cardinality(posted) <= Cardinality(lost \union {w})
    BY <1>1, <2>2, <2>3, FS_Subset, FS_CardinalityType
  <2>5. QED
    BY <1>5, <2>3, <2>4
<1>8. QED
  BY <1>6, <1>7

\* Retries post once, whatever answers get lost: a tool call repeated under its derived
\* key (server.py:228-231) posts once, and one opening of the form posts at most one
\* entry more than the answers it missed (Transactions.tsx:235).
THEOREM RetriesPostOnce == Spec => []RetryPostsOnce
<1>1. Inv => RetryPostsOnce
  <2>1. SUFFICES ASSUME Inv PROVE RetryPostsOnce
    OBVIOUS
  <2>2. QED
    BY <2>1, AgentsPostOnce, FormPostsOnce DEF RetryPostsOnce
<1>2. QED
  BY <1>1, ClientsInvariant, PTL

\* A clean dry run promises what it can (server.py:742-743): the call then fails only for
\* an account closed meanwhile, a race on its key or a lost transaction, and it posts the
\* projected balances unless an entry on these accounts came between.
THEOREM DryRunsHold == Spec => []DryRunHolds
<1>1. Inv /\ DryInv => DryRunHolds
  <2>1. SUFFICES ASSUME Inv, DryInv,
                        NEW w \in AgentCalls, pc[w] = "done", asked[w].dry # Never
                 PROVE  /\ asked[w].dry.verdict = "rejected" => reply[w].status \in {"rejected", "replayed"}
                        /\ asked[w].dry.verdict = "clean" =>
                             /\ reply[w].status # "rejected"
                             /\ reply[w].status = "inactive_account" =>
                                  \E a \in Touched(draft[w].rows) : ~active[a] /\ a \in Closable
                             /\ \A k \in DOMAIN journal :
                                  (journal[k].id = w /\ Undisturbed(w, k)) => AsProjected(w, k)
    BY DEF DryRunHolds, AsProjected, Shows
  <2> USE DEF Inv, DryInv
  <2>2. w \in Posts
    BY ClientsAssumption
  <2>3. draft[w] = DraftFor(asked[w].content)
    BY <2>1, <2>2 DEF Made
  <2>4. DryRunOf(w, asked[w].dry) /\ TellsTruth(asked[w].dry, journal, balance)
    BY <2>1 DEF DryRuns
  <2>5. asked[w].dry.verdict = "rejected" <=> ~Acceptable(draft[w])
    BY <2>3, <2>4 DEF DryRunOf, TellsTruth
  <2>6. asked[w].dry.verdict = "rejected" => reply[w].status \in {"rejected", "replayed"}
    BY <2>1, <2>2, <2>5 DEF Judged
  <2>7. asked[w].dry.verdict = "clean" => reply[w].status # "rejected"
    BY <2>1, <2>2, <2>5 DEF Judged
  <2>8. reply[w].status = "inactive_account" =>
          \E a \in Touched(draft[w].rows) : ~active[a] /\ a \in Closable
    BY <2>1, <2>2 DEF Judged
  <2>9. asked[w].dry.verdict = "clean" =>
          \A k \in DOMAIN journal : (journal[k].id = w /\ Undisturbed(w, k)) => AsProjected(w, k)
    BY <2>1 DEF Projections
  <2>10. QED
    BY <2>6, <2>7, <2>8, <2>9
<1>2. QED
  BY <1>1, ClientsInvariant, PTL

\* A settled page shows every entry whose success the form reported, unless it is full of
\* others as new: useAsync drops the answer of a load that a reload superseded.
THEOREM ListsShowPosted == Spec => []ListShowsPosted
<1>1. Inv => ListShowsPosted
  BY DEF Inv, UpToDate, OnList, ListShowsPosted
<1>2. QED
  BY <1>1, ClientsInvariant, PTL
===============================================================================
