---------------------------- MODULE AccountsRegistry ----------------------------
(***************************************************************************)
(* create_account, import_accounts and update_account of                   *)
(* app/services/accounts.py, run by concurrent requests at READ COMMITTED. *)
(* (deactivate_account, which races with postings, is in PostingEngine.)   *)
(*                                                                         *)
(* An account is its id, its external_id and its name; a request names     *)
(* what it creates or renames after itself.  External ids belong to one    *)
(* tenant: tenants share none.  An uncommitted row version is in pending:  *)
(* it holds the row, and the external ids of the row before and after, as  *)
(* a unique index does.                                                    *)
(***************************************************************************)
EXTENDS Integers, Sequences, FiniteSets

CONSTANTS
  Requests,
  ExternalIds,
  NoExternalId,   \* NULL
  NoInput,        \* the request has not been made yet
  Existing,       \* the accounts there are at the start
  Inputs          \* what clients may ask for

Ids == (Requests \X (Nat \ {0})) \union {a.id : a \in Existing}
Account == [id: Ids, ext: ExternalIds \union {NoExternalId},
            name: Requests \union {a.name : a \in Existing}]

\* A row may lack its name, type or currency, or name an unregistered currency.
Row == [ext: ExternalIds \union {NoExternalId}, fault: {"none", "malformed", "currency"}]
CreateInput == [op: {"create"}, rows: {<<row>> : row \in Row}]
\* An empty import does nothing and is left out.
ImportInput == [op: {"import"}, rows: Seq(Row) \ {<<>>}, skip: BOOLEAN]
UpdateInput == [op: {"update"}, target: Ids, ext: ExternalIds \union {NoExternalId},
                rename: BOOLEAN]

ASSUME RegistryAssumption ==
  /\ Inputs \subseteq CreateInput \union ImportInput \union UpdateInput
  /\ NoExternalId \notin ExternalIds
  /\ NoInput \notin Inputs
  /\ \A a, b \in Existing : a # b =>
       a.id # b.id /\ (a.ext # b.ext \/ a.ext = NoExternalId)
  /\ \A a \in Existing : a.id \notin Requests \X (Nat \ {0}) /\ a.name \notin Requests
  /\ Existing \subseteq Account

VARIABLES
  accounts,   \* the committed accounts
  pc,         \* where each request is
  input,      \* what it was asked
  at,         \* the row it creates
  loaded,     \* the account update_account read
  pending,    \* its uncommitted row version, if any
  results,    \* for each row created so far: the status and the accounts it names
  outcome     \* what the caller was told

locals == <<input, at, loaded, pending, results>>
vars == <<accounts, pc, input, at, loaded, pending, results, outcome>>

PC == {"idle", "precheck", "lookup", "insert", "find", "flush", "clash", "save",
       "claim", "commit", "refresh", "done"}
\* "server_error" is an exception nobody maps, "lost" a request whose process or
\* connection went away.
Outcome == {"pending", "answered", "currency_not_found", "account_not_found",
            "duplicate_account", "server_error", "lost"}

Init ==
  /\ accounts = Existing
  /\ pc = [r \in Requests |-> "idle"]
  /\ input = [r \in Requests |-> NoInput]
  /\ at = [r \in Requests |-> 1]
  /\ loaded = [r \in Requests |-> {}]
  /\ pending = [r \in Requests |-> {}]
  /\ results = [r \in Requests |-> <<>>]
  /\ outcome = [r \in Requests |-> "pending"]

-------------------------------------------------------------------------------

ThisRow(r) == input[r].rows[at[r]]
FirstStep(op) ==
  CASE op = "import" -> "precheck" [] op = "create" -> "lookup" [] OTHER -> "find"

\* The handler returns or raises; what is not committed is rolled back.
End(r, out) ==
  /\ pc' = [pc EXCEPT ![r] = "done"]
  /\ outcome' = [outcome EXCEPT ![r] = out]
  /\ pending' = [pending EXCEPT ![r] = {}]
  /\ UNCHANGED <<accounts, input, at, loaded, results>>

Move(r, to) ==
  /\ pc' = [pc EXCEPT ![r] = to]
  /\ UNCHANGED <<accounts, locals, outcome>>

\* A row of an import, or the one row of a creation, is dealt with.
Deliver(r, status, named) ==
  LET last == at[r] >= Len(input[r].rows)
  IN /\ results' = [results EXCEPT ![r] = Append(@, [status |-> status, accounts |-> named])]
     /\ at' = [at EXCEPT ![r] = @ + 1]
     /\ pc' = [pc EXCEPT ![r] = IF last THEN "done" ELSE FirstStep(input[r].op)]
     /\ outcome' = [outcome EXCEPT ![r] = IF last THEN "answered" ELSE @]
     /\ UNCHANGED <<accounts, input, loaded, pending>>

Begin(r) ==
  /\ pc[r] = "idle"
  /\ \E i \in Inputs :
       /\ input' = [input EXCEPT ![r] = i]
       /\ pc' = [pc EXCEPT ![r] = FirstStep(i.op)]
  /\ UNCHANGED <<accounts, at, loaded, pending, results, outcome>>

Holders(ext) == {a \in accounts : ext # NoExternalId /\ a.ext = ext}

-------------------------------------------------------------------------------
(* import_accounts: one row after the other. *)

\* MUTANT of Precheck: the rows of an import are not looked up before they are created.
PrecheckUnchecked(r) ==
  /\ pc[r] = "precheck"
  /\ \/ ThisRow(r).fault = "malformed" /\ Deliver(r, "error", {})
     \/ ThisRow(r).fault # "malformed" /\ Move(r, "lookup")

Precheck(r) ==
  /\ pc[r] = "precheck"
  /\ LET found == Holders(ThisRow(r).ext)
         malformed == ThisRow(r).fault = "malformed"
     IN \/ malformed /\ Deliver(r, "error", {})
        \/ ~malformed /\ found # {} /\ input[r].skip /\ Deliver(r, "skipped", found)
        \/ ~malformed /\ found # {} /\ ~input[r].skip /\ Deliver(r, "error", {})
        \/ ~malformed /\ found = {} /\ Move(r, "lookup")

-------------------------------------------------------------------------------
(* create_account, for its own caller or for a row of an import. *)

Lookup(r) ==
  /\ pc[r] = "lookup"
  /\ LET found == Holders(ThisRow(r).ext)
         unregistered == ThisRow(r).fault = "currency"
     IN \/ unregistered /\ input[r].op = "import" /\ Deliver(r, "error", {})
        \/ unregistered /\ input[r].op = "create" /\ End(r, "currency_not_found")
        \/ ~unregistered /\ found # {} /\ Deliver(r, "created", found)
        \/ ~unregistered /\ found = {} /\ Move(r, "insert")

\* The uncommitted work of s that ext must wait for: a row that takes it, or one
\* that has it until s ends.
Occupies(s, ext) ==
  /\ ext # NoExternalId
  /\ \E v \in pending[s] : v.ext = ext \/ \E a \in accounts : a.id = v.id /\ a.ext = ext

\* MUTANT of InsertAccount: no unique constraint on (tenant_id, external_id).
InsertUnchecked(r) ==
  /\ pc[r] = "insert"
  /\ pending' = [pending EXCEPT ![r] =
       {[id |-> <<r, at[r]>>, ext |-> ThisRow(r).ext, name |-> r]}]
  /\ pc' = [pc EXCEPT ![r] = "commit"]
  /\ UNCHANGED <<accounts, input, at, loaded, results, outcome>>

\* The flushed INSERT waits for an uncommitted clash and fails on a committed
\* one, outside create_account's handler of IntegrityError.
InsertAccount(r) ==
  /\ pc[r] = "insert"
  /\ \A s \in Requests \ {r} : ~Occupies(s, ThisRow(r).ext)
  /\ \/ Holders(ThisRow(r).ext) # {} /\ End(r, "server_error")
     \/ /\ Holders(ThisRow(r).ext) = {}
        /\ pending' = [pending EXCEPT ![r] =
             {[id |-> <<r, at[r]>>, ext |-> ThisRow(r).ext, name |-> r]}]
        /\ pc' = [pc EXCEPT ![r] = "commit"]
        /\ UNCHANGED <<accounts, input, at, loaded, results, outcome>>

-------------------------------------------------------------------------------
(* update_account. *)

Target(r) == {a \in accounts : a.id = input[r].target}
ChangesFrom(r, versions) == \A a \in versions : input[r].ext \notin {NoExternalId, a.ext}
ChangesExt(r) == ChangesFrom(r, loaded[r])

FindAccount(r) ==
  /\ pc[r] = "find"
  /\ \/ Target(r) = {} /\ End(r, "account_not_found")
     \/ /\ Target(r) # {}
        /\ loaded' = [loaded EXCEPT ![r] = Target(r)]
        /\ pc' = [pc EXCEPT ![r] =
             IF ChangesFrom(r, Target(r))
             THEN IF input[r].rename THEN "flush" ELSE "clash"
             ELSE IF input[r].rename THEN "save" ELSE "commit"]
        /\ UNCHANGED <<accounts, input, at, pending, results, outcome>>

\* The first UPDATE takes the row and writes a new name.  A rename is flushed by
\* the query for a clash, another change by the COMMIT.
LockRow(r) ==
  /\ pc[r] \in {"flush", "save"}
  /\ \A s \in Requests \ {r} : \A v \in pending[s] : v.id # input[r].target
  /\ pending' = [pending EXCEPT ![r] =
       {[a EXCEPT !.name = IF input[r].rename THEN r ELSE @] : a \in Target(r)}]
  /\ pc' = [pc EXCEPT ![r] = IF pc[r] = "flush" THEN "clash" ELSE "claim"]
  /\ UNCHANGED <<accounts, input, at, loaded, results, outcome>>

\* MUTANT of CheckClash: the rename is committed before the clash is reported.
CheckClashCommitting(r) ==
  /\ pc[r] = "clash"
  /\ \/ /\ Holders(input[r].ext) \ Target(r) # {}
        /\ accounts' = {a \in accounts : \A v \in pending[r] : v.id # a.id} \union pending[r]
        /\ pc' = [pc EXCEPT ![r] = "done"]
        /\ outcome' = [outcome EXCEPT ![r] = "duplicate_account"]
        /\ pending' = [pending EXCEPT ![r] = {}]
        /\ UNCHANGED <<input, at, loaded, results>>
     \/ /\ Holders(input[r].ext) \ Target(r) = {}
        /\ Move(r, IF pending[r] = {} THEN "save" ELSE "claim")

CheckClash(r) ==
  /\ pc[r] = "clash"
  /\ \/ Holders(input[r].ext) \ Target(r) # {} /\ End(r, "duplicate_account")
     \/ /\ Holders(input[r].ext) \ Target(r) = {}
        /\ Move(r, IF pending[r] = {} THEN "save" ELSE "claim")

\* MUTANT of ClaimExternalId: only update_account's own check keeps ids unique.
ClaimUnchecked(r) ==
  /\ pc[r] = "claim"
  /\ pending' = [pending EXCEPT ![r] =
       {[v EXCEPT !.ext = IF ChangesExt(r) THEN input[r].ext ELSE @] : v \in @}]
  /\ pc' = [pc EXCEPT ![r] = "commit"]
  /\ UNCHANGED <<accounts, input, at, loaded, results, outcome>>

\* The external_id enters the unique index; here the IntegrityError is handled.
ClaimExternalId(r) ==
  /\ pc[r] = "claim"
  /\ LET ext == IF ChangesExt(r) THEN input[r].ext ELSE NoExternalId
     IN /\ \A s \in Requests \ {r} : ~Occupies(s, ext)
        /\ \/ Holders(ext) \ Target(r) # {} /\ End(r, "duplicate_account")
           \/ /\ Holders(ext) \ Target(r) = {}
              /\ pending' = [pending EXCEPT ![r] =
                   {[v EXCEPT !.ext = IF ext = NoExternalId THEN @ ELSE ext] : v \in @}]
              /\ pc' = [pc EXCEPT ![r] = "commit"]
              /\ UNCHANGED <<accounts, input, at, loaded, results, outcome>>

-------------------------------------------------------------------------------

\* MUTANT of Commit: the session never ends its database transaction.
CommitKeepingLocks(r) ==
  /\ pc[r] = "commit"
  /\ accounts' = {a \in accounts : \A v \in pending[r] : v.id # a.id} \union pending[r]
  /\ pc' = [pc EXCEPT ![r] = "refresh"]
  /\ UNCHANGED <<locals, outcome>>

Commit(r) ==
  /\ pc[r] = "commit"
  /\ accounts' = {a \in accounts : \A v \in pending[r] : v.id # a.id} \union pending[r]
  /\ pending' = [pending EXCEPT ![r] = {}]
  /\ pc' = [pc EXCEPT ![r] = "refresh"]
  /\ UNCHANGED <<input, at, loaded, results, outcome>>

\* The account is read back and returned, or the import goes on.
Refresh(r) ==
  /\ pc[r] = "refresh"
  /\ \/ input[r].op = "update" /\ End(r, "answered")
     \/ /\ input[r].op # "update"
        /\ Deliver(r, "created", {a \in accounts : a.id = <<r, at[r]>>})

WaitsFor(r, s) ==
  /\ r # s
  /\ \/ pc[r] = "insert" /\ Occupies(s, ThisRow(r).ext)
     \/ pc[r] = "claim" /\ ChangesExt(r) /\ Occupies(s, input[r].ext)
     \/ pc[r] \in {"flush", "save"} /\ \E v \in pending[s] : v.id = input[r].target

\* As in BatchPosting: r is on a circle of waits.
InCircle(r) ==
  \E S \in SUBSET Requests :
    /\ r \in S
    /\ S = {x \in S : \E y \in S : WaitsFor(x, y)}
    /\ S = {y \in S : \E x \in S : WaitsFor(x, y)}

\* PostgreSQL aborts one of them.
DetectDeadlock(r) == InCircle(r) /\ End(r, "server_error")

\* The process or the connection goes away, before or after a COMMIT.
Lose(r) == pc[r] \notin {"idle", "done"} /\ End(r, "lost")

Step(r) ==
  \/ Precheck(r) \/ Lookup(r) \/ InsertAccount(r)
  \/ FindAccount(r) \/ LockRow(r) \/ CheckClash(r) \/ ClaimExternalId(r)
  \/ Commit(r) \/ Refresh(r)

Quiet == (\A r \in Requests : pc[r] = "done") /\ UNCHANGED vars

Next ==
  \/ \E r \in Requests : Begin(r) \/ Step(r) \/ DetectDeadlock(r) \/ Lose(r)
  \/ Quiet

Spec == Init /\ [][Next]_vars

\* Handlers that can go on do, and PostgreSQL's deadlock detector runs.
FairSpec ==
  Spec /\ \A r \in Requests : WF_vars(Step(r)) /\ WF_vars(DetectDeadlock(r))
===============================================================================
