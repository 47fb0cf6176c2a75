------------------------------ MODULE BatchPosting ------------------------------
(***************************************************************************)
(* batch_post_transactions of app/services/ledger.py, called by concurrent *)
(* MCP tool calls: several transactions staged in ONE database session,    *)
(* all or nothing (atomic) or each in a savepoint of its own (best-effort).*)
(*                                                                         *)
(* What one transaction writes is PostingEngine's business.  Here an item  *)
(* is its idempotency key (the MCP server always sends one), the accounts  *)
(* it touches and whether validation rejects it; what matters is which     *)
(* items reach the journal, what each caller is told, and that the row     *)
(* locks and index entries of every item are kept to the end of the batch. *)
(* Keys and accounts belong to one tenant: tenants share neither.          *)
(***************************************************************************)
EXTENDS Integers, Sequences, FiniteSetsExt

CONSTANTS
  Batches,   \* the calls
  Keys,      \* idempotency keys
  NoInput,   \* the call has not been made yet
  Inputs     \* the calls clients may make

Item == [key: Keys, accounts: SUBSET Nat, wrong: BOOLEAN]
BatchInput == [atomic: BOOLEAN, items: Seq(Item)]

ASSUME BatchAssumption == Inputs \subseteq BatchInput /\ NoInput \notin Inputs

VARIABLES
  journal,   \* the committed transactions, <<batch, index>>
  pc,        \* where each call is
  input,     \* what it was asked
  at,        \* the item it is at
  written,   \* the items it has inserted and not committed
  held,      \* the accounts whose balance rows it has locked
  results,   \* the BatchItemResults so far, by status
  outcome    \* what became of the call

vars == <<journal, pc, input, at, written, held, results, outcome>>

PC == {"idle", "lookup", "validate", "insert", "lock", "commit", "reload", "done"}
ItemStatus == {"posted", "replayed", "error", "rolled_back"}
\* "server_error" is an exception that is not a LedgerError, "lost" a call whose
\* process or connection went away.
Outcome == {"pending", "answered", "server_error", "lost"}

Items(b) == input[b].items
This(b) == Items(b)[at[b]]
KeyOf(x) == Items(x[1])[x[2]].key
Own(b) == {<<b, i>> : i \in written[b]}

Init ==
  /\ journal = {}
  /\ pc = [b \in Batches |-> "idle"]
  /\ input = [b \in Batches |-> NoInput]
  /\ at = [b \in Batches |-> 1]
  /\ written = [b \in Batches |-> {}]
  /\ held = [b \in Batches |-> {}]
  /\ results = [b \in Batches |-> <<>>]
  /\ outcome = [b \in Batches |-> "pending"]

-------------------------------------------------------------------------------

\* MUTANT of End: the connection goes back to the pool without a rollback.
EndKeepingLocks(b, out) ==
  /\ pc' = [pc EXCEPT ![b] = "done"]
  /\ outcome' = [outcome EXCEPT ![b] = out]
  /\ UNCHANGED <<journal, input, at, written, held>>

\* The call ends and the session closes: what is not committed is rolled back,
\* the locks are released.
End(b, out) ==
  /\ pc' = [pc EXCEPT ![b] = "done"]
  /\ outcome' = [outcome EXCEPT ![b] = out]
  /\ written' = [written EXCEPT ![b] = {}]
  /\ held' = [held EXCEPT ![b] = {}]
  /\ UNCHANGED <<journal, input, at>>

\* The item is dealt with: on to the next one, or to the COMMIT.
Advance(b, status) ==
  /\ results' = [results EXCEPT ![b] = Append(@, status)]
  /\ at' = [at EXCEPT ![b] = @ + 1]
  /\ pc' = [pc EXCEPT ![b] = IF at[b] < Len(Items(b)) THEN "lookup" ELSE "commit"]

Begin(b) ==
  /\ pc[b] = "idle"
  /\ \E i \in Inputs :
       /\ input' = [input EXCEPT ![b] = i]
       /\ pc' = [pc EXCEPT ![b] = IF i.items = <<>> THEN "commit" ELSE "lookup"]
  /\ UNCHANGED <<journal, at, written, held, results, outcome>>

\* _find_by_idempotency_key: committed transactions and the batch's own.
Lookup(b) ==
  /\ pc[b] = "lookup"
  /\ \/ /\ \E x \in journal \union Own(b) : KeyOf(x) = This(b).key
        /\ Advance(b, "replayed")
     \/ /\ \A x \in journal \union Own(b) : KeyOf(x) # This(b).key
        /\ pc' = [pc EXCEPT ![b] = "validate"]
        /\ UNCHANGED <<results, at>>
  /\ UNCHANGED <<journal, input, written, held, outcome>>

\* MUTANT of RejectItem: an atomic batch is treated item by item.
RejectItemAlone(b) ==
  Advance(b, "error") /\ UNCHANGED <<journal, input, written, held, outcome>>

\* MUTANT of RejectItem: the whole session is rolled back, not the savepoint.
RejectItemRollingBack(b) ==
  \/ /\ input[b].atomic
     /\ results' = [results EXCEPT ![b] =
          [i \in DOMAIN Items(b) |-> IF i = at[b] THEN "error" ELSE "rolled_back"]]
     /\ End(b, "answered")
  \/ /\ ~input[b].atomic
     /\ Advance(b, "error")
     /\ written' = [written EXCEPT ![b] = {}]
     /\ UNCHANGED <<journal, input, held, outcome>>

\* A LedgerError: it undoes an atomic batch; in a best-effort one it rolls back
\* the item's savepoint, before the item has written anything.
RejectItem(b) ==
  \/ /\ input[b].atomic
     /\ results' = [results EXCEPT ![b] =
          [i \in DOMAIN Items(b) |-> IF i = at[b] THEN "error" ELSE "rolled_back"]]
     /\ End(b, "answered")
  \/ /\ ~input[b].atomic
     /\ Advance(b, "error")
     /\ UNCHANGED <<journal, input, written, held, outcome>>

Validate(b) ==
  /\ pc[b] = "validate"
  /\ \/ This(b).wrong /\ RejectItem(b)
     \/ /\ ~This(b).wrong
        /\ pc' = [pc EXCEPT ![b] = "insert"]
        /\ UNCHANGED <<journal, input, at, written, held, results, outcome>>

\* An IntegrityError: caught around an atomic batch, where it is reported on
\* every item, and by nobody in a best-effort one.
FailInsert(b) ==
  \/ /\ input[b].atomic
     /\ results' = [results EXCEPT ![b] = [i \in DOMAIN Items(b) |-> "error"]]
     /\ End(b, "answered")
  \/ /\ ~input[b].atomic
     /\ End(b, "server_error")
     /\ UNCHANGED results

\* The uncommitted items whose key the INSERT of b's item clashes with.
Clashing(b) ==
  UNION {{x \in Own(s) : KeyOf(x) = This(b).key} : s \in Batches \ {b}}

\* MUTANT of Insert: no unique constraint on the key.
InsertUnchecked(b) ==
  /\ pc[b] = "insert"
  /\ written' = [written EXCEPT ![b] = @ \union {at[b]}]
  /\ pc' = [pc EXCEPT ![b] = "lock"]
  /\ UNCHANGED <<journal, input, at, held, results, outcome>>

\* The flushed INSERT: it waits for an uncommitted row with its key and fails on
\* a committed one.
Insert(b) ==
  /\ pc[b] = "insert"
  /\ Clashing(b) = {}
  /\ \/ /\ \E x \in journal : KeyOf(x) = This(b).key
        /\ FailInsert(b)
     \/ /\ \A x \in journal : KeyOf(x) # This(b).key
        /\ written' = [written EXCEPT ![b] = @ \union {at[b]}]
        /\ pc' = [pc EXCEPT ![b] = "lock"]
        /\ UNCHANGED <<journal, input, at, held, results, outcome>>

\* _lock_balances: the item's accounts in ascending order.  Releasing a
\* savepoint keeps its locks, so those of earlier items are still held.
Unlocked(b) == This(b).accounts \ held[b]

LockBalance(b) ==
  /\ pc[b] = "lock"
  /\ Unlocked(b) # {}
  /\ \A s \in Batches \ {b} : Min(Unlocked(b)) \notin held[s]
  /\ held' = [held EXCEPT ![b] = @ \union {Min(Unlocked(b))}]
  /\ UNCHANGED <<journal, pc, input, at, written, results, outcome>>

WriteItem(b) ==
  /\ pc[b] = "lock"
  /\ Unlocked(b) = {}
  /\ Advance(b, "posted")
  /\ UNCHANGED <<journal, input, written, held, outcome>>

\* MUTANT of Commit: a best-effort batch is answered without its COMMIT.
CommitAtomicOnly(b) ==
  /\ pc[b] = "commit"
  /\ journal' = IF input[b].atomic THEN journal \union Own(b) ELSE journal
  /\ written' = [written EXCEPT ![b] = {}]
  /\ held' = [held EXCEPT ![b] = {}]
  /\ pc' = [pc EXCEPT ![b] = "reload"]
  /\ UNCHANGED <<input, at, results, outcome>>

Commit(b) ==
  /\ pc[b] = "commit"
  /\ journal' = journal \union Own(b)
  /\ written' = [written EXCEPT ![b] = {}]
  /\ held' = [held EXCEPT ![b] = {}]
  /\ pc' = [pc EXCEPT ![b] = "reload"]
  /\ UNCHANGED <<input, at, results, outcome>>

\* The committed transactions are read back and the call answered.
Reload(b) ==
  /\ pc[b] = "reload"
  /\ End(b, "answered")
  /\ UNCHANGED results

-------------------------------------------------------------------------------
(* Waiting, and PostgreSQL's deadlock detector. *)

WaitsFor(b, s) ==
  /\ b # s
  /\ \/ pc[b] = "lock" /\ Unlocked(b) # {} /\ Min(Unlocked(b)) \in held[s]
     \/ pc[b] = "insert" /\ Own(s) \intersect Clashing(b) # {}

\* Each call waits for one other at most, so b is in a circle when some set of
\* calls around it is mapped onto itself.
InCircle(b) ==
  \E S \in SUBSET Batches :
    /\ b \in S
    /\ S = {x \in S : \E y \in S : WaitsFor(x, y)}
    /\ S = {y \in S : \E x \in S : WaitsFor(x, y)}

\* PostgreSQL aborts one of the calls that wait in a circle; its error is
\* neither a LedgerError nor an IntegrityError.
DetectDeadlock(b) ==
  /\ InCircle(b)
  /\ End(b, "server_error")
  /\ UNCHANGED results

\* The process or the connection goes away at any moment, before or after COMMIT.
Lose(b) ==
  /\ pc[b] \notin {"idle", "done"}
  /\ End(b, "lost")
  /\ UNCHANGED results

-------------------------------------------------------------------------------

Step(b) ==
  \/ Lookup(b) \/ Validate(b) \/ Insert(b) \/ LockBalance(b) \/ WriteItem(b)
  \/ Commit(b) \/ Reload(b)

\* Every call has ended and no other is made.
Quiet == (\A b \in Batches : pc[b] = "done") /\ UNCHANGED vars

Next ==
  \/ \E b \in Batches : Begin(b) \/ Step(b) \/ DetectDeadlock(b) \/ Lose(b)
  \/ Quiet

Spec == Init /\ [][Next]_vars

\* Handlers that can go on do, PostgreSQL grants free locks and its deadlock
\* detector runs.
FairSpec ==
  Spec /\ \A b \in Batches : WF_vars(Step(b)) /\ WF_vars(DetectDeadlock(b))
===============================================================================
