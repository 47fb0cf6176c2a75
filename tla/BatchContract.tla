----------------------------- MODULE BatchContract -----------------------------
(***************************************************************************)
(* What batch_post_transactions promises (ledger.py 351-357): each call    *)
(* takes effect in one step, in which every item that is valid and whose   *)
(* key is new reaches the journal; an atomic call has no effect unless all *)
(* its items are valid or known.                                           *)
(***************************************************************************)
EXTENDS Integers, Sequences

CONSTANTS Batches, NoInput, Inputs

VARIABLES journal, input

state == <<journal, input>>

Items(b) == input[b].items

\* The key of item i names a committed transaction or an earlier item of the call.
Known(b, i) ==
  \/ \E x \in journal : Items(x[1])[x[2]].key = Items(b)[i].key
  \/ \E j \in 1..(i - 1) : ~Items(b)[j].wrong /\ Items(b)[j].key = Items(b)[i].key

Fresh(b) == {i \in DOMAIN Items(b) : ~Items(b)[i].wrong /\ ~Known(b, i)}

Ask(b) ==
  /\ input[b] = NoInput
  /\ \E i \in Inputs : input' = [input EXCEPT ![b] = i]
  /\ UNCHANGED journal

Decide(b) ==
  /\ input[b] # NoInput
  /\ input[b].atomic =>
       \A i \in DOMAIN Items(b) : ~Items(b)[i].wrong \/ Known(b, i)
  /\ journal' = journal \union {<<b, i>> : i \in Fresh(b)}
  /\ UNCHANGED input

Init == journal = {} /\ input = [b \in Batches |-> NoInput]

Next == \E b \in Batches : Ask(b) \/ Decide(b)

Spec == Init /\ [][Next]_state
===============================================================================
