-------------------------------- MODULE Journal --------------------------------
(***************************************************************************)
(* The ledger as those who read it and those who call it meet it: the      *)
(* committed entries, the materialised balances, and the time an entry     *)
(* carries.                                                                *)
(*                                                                         *)
(* PostingEngine has the posting handler statement by statement; what the  *)
(* tables show of it is one COMMIT (its ImplementsLedger), which is the    *)
(* step taken here.  created_at is PostgreSQL's now(), the instant the     *)
(* transaction BEGAN, so an entry may appear in the tables after a younger *)
(* one, and after a report on the time it carries was read.                *)
(***************************************************************************)
EXTENDS Accounting

CONSTANTS
  Posts,      \* the posting calls, and the ids of the entries they record
  NoKey,      \* the call carries no idempotency key
  NoEntry,    \* the call has not been made, or its answer names no entry
  Opening,    \* the drafts recorded before the behaviour starts
  Closable,   \* bound: the accounts somebody may close
  MaxClock    \* bound: the last instant of a behaviour

\* A draft is what a caller asks to post: its tenant, its key and its rows.
ASSUME JournalAssumption ==
  /\ Posts \subseteq Nat
  /\ Len(Opening) \in Nat
  /\ \A n \in 1 .. Len(Opening) : AreLines(Opening[n].rows)
  /\ Closable \subseteq Accounts
  /\ MaxClock \in Nat

VARIABLES
  clock,    \* the database's clock
  journal,  \* the committed entries, in commit order
  balance,  \* account_balances: posted_debits and posted_credits
  active,   \* accounts.is_active
  pc,       \* where each posting call is
  began,    \* when its transaction began: the created_at of what it records
  draft,    \* what it posts
  reply     \* what it is told: its status, and the entry returned

database == <<clock, journal, balance, active>>
calls == <<pc, began, draft, reply>>
ledgerVars == <<database, calls>>

-------------------------------------------------------------------------------

\* An entry at an instant, recorded over the balances `totals`.  No column holds
\* `committed`: it is kept for the properties.
Entry(id, d, totals, created, committed) ==
  [id |-> id, tenant |-> d.tenant, key |-> d.key, created |-> created,
   committed |-> committed, lines |-> Threaded(totals, d.rows)]

\* The balances after the first n of the opening entries.
OpeningBalance[n \in 0 .. Len(Opening)] ==
  IF n = 0 THEN [a \in Accounts |-> ZeroTotals]
  ELSE Moved(OpeningBalance[n - 1], Opening[n].rows)

Init ==
  /\ clock = 0
  /\ journal = [n \in 1 .. Len(Opening) |->
                  Entry(-n, Opening[n], OpeningBalance[n - 1], 0, 0)]
  /\ balance = OpeningBalance[Len(Opening)]
  /\ active = [a \in Accounts |-> TRUE]
  /\ pc = [w \in Posts |-> "idle"]
  /\ began = [w \in Posts |-> 0]
  /\ draft = [w \in Posts |-> NoEntry]
  /\ reply = [w \in Posts |-> [status |-> "pending", txn |-> NoEntry]]

Tick ==
  /\ clock < MaxClock
  /\ clock' = clock + 1
  /\ UNCHANGED <<journal, balance, active, calls>>

-------------------------------------------------------------------------------
(* A posting call. *)

\* The committed entries under the draft's key.
Recorded(d) ==
  {k \in DOMAIN journal : /\ d.key # NoKey
                          /\ journal[k].tenant = d.tenant
                          /\ journal[k].key = d.key}

\* What _build_postings accepts of the accounts as they are read.
Acceptable(d) ==
  /\ Len(d.rows) >= 2
  /\ Balanced(d.rows)
  /\ Touched(d.rows) \subseteq AccountsOf(d.tenant)

\* What is there at the start was posted the same way.
ASSUME OpeningAssumption == \A n \in 1 .. Len(Opening) : Acceptable(Opening[n])

Answered(w, status, id) ==
  /\ pc' = [pc EXCEPT ![w] = "done"]
  /\ reply' = [reply EXCEPT ![w] = [status |-> status, txn |-> id]]

\* BEGIN, the lookup of the key and the validation, up to the first write.  Until
\* the COMMIT nobody sees the call, so these reads are one step with BEGIN: what
\* they would find later they find in a call that begins later.
Begin(w, d) ==
  /\ pc[w] = "idle"
  /\ began' = [began EXCEPT ![w] = clock]
  /\ draft' = [draft EXCEPT ![w] = d]
  /\ \/ /\ Recorded(d) = {}
        /\ Acceptable(d)
        /\ \A a \in Touched(d.rows) : active[a]
        /\ pc' = [pc EXCEPT ![w] = "open"]
        /\ UNCHANGED reply
     \/ \E k \in Recorded(d) : Answered(w, "replayed", journal[k].id)
     \/ /\ Recorded(d) = {} /\ ~Acceptable(d)
        /\ Answered(w, "rejected", NoEntry)
     \/ /\ Recorded(d) = {} /\ Acceptable(d)
        /\ \E a \in Touched(d.rows) : ~active[a]
        /\ Answered(w, "inactive_account", NoEntry)
  /\ UNCHANGED database

\* MUTANT of Commit: the entry carries an earlier instant than its transaction's.
CommitBackdated(w) ==
  /\ pc[w] = "open"
  /\ Recorded(draft[w]) = {}
  /\ journal' = Append(journal, Entry(w, draft[w], balance, Max({0, began[w] - 1}), clock))
  /\ balance' = Moved(balance, draft[w].rows)
  /\ Answered(w, "posted", w)
  /\ UNCHANGED <<clock, active, began, draft>>

\* The INSERTs, the row locks and the COMMIT.  A key recorded since the lookup
\* fails the INSERT, outside the handler of the commit's IntegrityError.
Commit(w) ==
  /\ pc[w] = "open"
  /\ \/ /\ Recorded(draft[w]) = {}
        /\ journal' = Append(journal, Entry(w, draft[w], balance, began[w], clock))
        /\ balance' = Moved(balance, draft[w].rows)
        /\ Answered(w, "posted", w)
     \/ /\ Recorded(draft[w]) # {}
        /\ Answered(w, "server_error", NoEntry)
        /\ UNCHANGED <<journal, balance>>
  /\ UNCHANGED <<clock, active, began, draft>>

\* The process or the connection dies before the COMMIT: get_session rolls back.
RollBack(w) ==
  /\ pc[w] = "open"
  /\ Answered(w, "lost", NoEntry)
  /\ UNCHANGED <<database, began, draft>>

\* An account is closed at balance zero.  A call that read it active still posts.
Deactivate(a) ==
  /\ a \in Closable
  /\ active[a]
  /\ Signed(a, balance[a]) = 0
  /\ active' = [active EXCEPT ![a] = FALSE]
  /\ UNCHANGED <<clock, journal, balance, calls>>

\* A call, once it has begun.
Proceed(w) == Commit(w) \/ RollBack(w)
===============================================================================
