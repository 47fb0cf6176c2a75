------------------------------- MODULE MCRegistry -------------------------------
(***************************************************************************)
(* Small instances of AccountsRegistry: external ids x and y, and up to    *)
(* two accounts that exist at the start.                                   *)
(***************************************************************************)
EXTENDS RegistryProperties

CONSTANTS r1, r2, r3, r4, x, y, old1, old2

account(id, ext) == [id |-> id, ext |-> ext, name |-> id]

row(ext) == [ext |-> ext, fault |-> "none"]
faulty(ext, fault) == [ext |-> ext, fault |-> fault]
create(rw) == [op |-> "create", rows |-> <<rw>>]
import(rows, skip) == [op |-> "import", rows |-> rows, skip |-> skip]
update(id, ext, rename) == [op |-> "update", target |-> id, ext |-> ext, rename |-> rename]

NoAccounts == {}
TwoAccounts == {account(old1, NoExternalId), account(old2, NoExternalId)}

\* Creations and imports that share x and y, with every fault, a repeated row
\* and both settings of skip_existing, and a rename of an account that may not
\* exist yet.
CreationInputs ==
  {create(row(x)), create(faulty(y, "currency")),
   import(<<faulty(NoExternalId, "currency"), row(x)>>, FALSE),
   import(<<row(y), faulty(x, "malformed"), row(y)>>, TRUE),
   update(<<r1, 1>>, NoExternalId, TRUE)}

\* An account and an import of the same external_id.
ImportInputs == {create(row(x)), import(<<row(x)>>, TRUE)}

\* Updates that rename two accounts, and take and free x and y in both ways; with
\* four of them PostgreSQL meets a circle of waits.
UpdateOf == [r \in Requests |->
  CASE r = r1 -> update(old1, x, FALSE) [] r = r2 -> update(old1, y, TRUE)
    [] r = r3 -> update(old2, y, FALSE) [] r = r4 -> update(old2, x, TRUE)]

EveryInput == CreationInputs \union {UpdateOf[r] : r \in Requests}

\* Bound: three creations and imports meet in a behaviour, or the four updates, each
\* by a request of its own.  No update names a request, so who makes which is all one.
Meeting ==
  \/ /\ \A r \in Requests : input[r] \in CreationInputs \union {NoInput}
     /\ input[r4] = NoInput
  \/ \A r \in Requests : input[r] \in {UpdateOf[r], NoInput}
===============================================================================
