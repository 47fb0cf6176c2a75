---------------------------- MODULE BatchProperties ----------------------------
(***************************************************************************)
(* What batch_post_transactions must guarantee, and a statement of the     *)
(* documentation that it does not keep.                                    *)
(***************************************************************************)
EXTENDS BatchPosting

\* Every variable holds a value of its kind, and a call has one result per item
\* it has dealt with.
TypeOK ==
  /\ journal \subseteq Batches \X Nat
  /\ pc \in [Batches -> PC]
  /\ input \in [Batches -> Inputs \union {NoInput}]
  /\ at \in [Batches -> Nat \ {0}]
  /\ written \in [Batches -> SUBSET Nat]
  /\ held \in [Batches -> SUBSET Nat]
  /\ results \in [Batches -> Seq(ItemStatus)]
  /\ outcome \in [Batches -> Outcome]
  /\ \A b \in Batches : input[b] # NoInput =>
       /\ written[b] \subseteq DOMAIN Items(b)
       /\ Len(results[b]) <= Len(Items(b))

\* However batches interleave, fail or are resent, a key names one committed
\* transaction at most, two items of one batch included.
KeyOnce == \A x, y \in journal : KeyOf(x) = KeyOf(y) => x = y

\* All or nothing: when one item of an atomic batch is in the journal, each of
\* its items is, or was there already under its key.
AtomicWhole ==
  \A x \in journal : input[x[1]].atomic =>
    \A i \in DOMAIN Items(x[1]) :
      \E y \in journal : KeyOf(y) = Items(x[1])[i].key

\* What the caller is told of an item is what became of it: "posted" exactly
\* when the batch committed it, "replayed" only when its key names a committed
\* transaction.
ResultsTruthful ==
  \A b \in Batches : outcome[b] = "answered" =>
    /\ Len(results[b]) = Len(Items(b))
    /\ \A i \in DOMAIN results[b] :
         /\ results[b][i] = "posted" <=> <<b, i>> \in journal
         /\ results[b][i] = "replayed" =>
              \E x \in journal : KeyOf(x) = Items(b)[i].key

Contract == INSTANCE BatchContract

\* A batch takes effect in one step, its COMMIT, exactly as promised, whatever
\* other batches did between its lookups and that step.
ImplementsContract == Contract!Spec

\* Every call ends, even one that PostgreSQL has to abort.
EveryBatchAnswered == \A b \in Batches : (pc[b] # "idle") ~> (pc[b] = "done")

\* Locks are taken in sorted order "so concurrent transactions touching
\* overlapping accounts can never deadlock" (ledger.py 92-94).
NoBatchDeadlock == \A b \in Batches : ~InCircle(b)
===============================================================================
