--------------------------- MODULE RegistryProperties ---------------------------
(***************************************************************************)
(* What the accounts registry must guarantee, and what its documentation   *)
(* says that it does not do.                                               *)
(***************************************************************************)
EXTENDS AccountsRegistry

\* Every variable holds a value of its kind, and an account has one version.
TypeOK ==
  /\ accounts \subseteq Account
  /\ \A a, b \in accounts : a.id = b.id => a = b
  /\ pc \in [Requests -> PC]
  /\ input \in [Requests -> Inputs \union {NoInput}]
  /\ at \in [Requests -> Nat \ {0}]
  /\ \A r \in Requests :
       /\ loaded[r] \subseteq Account
       /\ pending[r] \subseteq Account /\ Cardinality(pending[r]) <= 1
       /\ \A i \in DOMAIN results[r] :
            /\ results[r][i].status \in {"created", "skipped", "error"}
            /\ results[r][i].accounts \subseteq Account
  /\ outcome \in [Requests -> Outcome]

\* An external_id names one account at most, however creations, imports and
\* updates interleave (uq_accounts_tenant_external, models.py 119).
ExternalIdUnique ==
  \A a, b \in accounts : (a.ext # NoExternalId /\ a.ext = b.ext) => a = b

\* As long as nobody changes an external_id, every creation, retry and import
\* row that succeeds under it is answered with the same account.
SameIdSameAccount ==
  \A r, s \in Requests : \A i \in DOMAIN results[r] : \A j \in DOMAIN results[s] :
    LET ext == input[r].rows[i].ext
    IN (ext # NoExternalId /\ ext = input[s].rows[j].ext) =>
         \A a \in results[r][i].accounts : \A b \in results[s][j].accounts : a.id = b.id

\* What is reported of a row holds whatever becomes of the rest of the import and
\* of everyone else's requests: a row in error created nothing, and any other names
\* one account, which exists and carries the row's external_id.  Who created that
\* account is another matter (CreatedMeansCreated); but within one import a row
\* is never "created" under an external_id that an earlier row got an account for:
\* it is skipped or in error (accounts.py 212-215).
ImportReportsHold ==
  \A r \in Requests : \A i \in DOMAIN results[r] :
    LET result == results[r][i]
        ext == input[r].rows[i].ext
    IN /\ result.status = "error" =>
            result.accounts = {} /\ \A a \in accounts : a.id # <<r, i>>
       /\ result.status # "error" =>
            \E a \in accounts : a.ext = ext /\ {b.id : b \in result.accounts} = {a.id}
       /\ input[r].op = "import" /\ result.status = "created" /\ ext # NoExternalId =>
            \A j \in 1 .. (i - 1) :
              results[r][j].status # "error" => input[r].rows[j].ext # ext

\* A creation or update that failed changed nothing: no account it would have created or
\* renamed shows it, a rename flushed before its external_id clashed included.
NoTraceOfFailure ==
  \A r \in Requests :
    (outcome[r] \notin {"pending", "answered", "lost"} /\ input[r].op # "import") =>
      \A a \in accounts : a.name # r

\* Every request is answered, those that PostgreSQL has to abort included: in the end
\* those that were made are done, and stay so.
EveryRequestAnswered == <>[](\A r \in Requests : pc[r] \in {"idle", "done"})

\* What the documentation says and the code does not do: "a row whose external_id
\* already exists is reported as skipped; otherwise it is an error" (accounts.py
\* 213-215), so a row reported as created names the account that row created.
CreatedMeansCreated ==
  \A r \in Requests : \A i \in DOMAIN results[r] :
    input[r].op = "import" /\ results[r][i].status = "created" =>
      {a.id : a \in results[r][i].accounts} = {<<r, i>>}
===============================================================================
