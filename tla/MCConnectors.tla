------------------------------ MODULE MCConnectors ------------------------------
(***************************************************************************)
(* A small instance of Connectors: a collective of three rows, the second  *)
(* in a currency the ledger does not know; an item whose row p1 rounds to  *)
(* nothing until it is corrected, and is then removed, and whose row p2 is *)
(* pending.                                                                *)
(***************************************************************************)
EXTENDS Connectors

CONSTANTS acct

node(id, kind, type, currency, amount) ==
  [id |-> id, kind |-> kind, type |-> type, currency |-> currency, amount |-> amount]

MCNodes ==
  <<node("t1", "CONTRIBUTION", "CREDIT", "USD", 2),
    node("t2", "CONTRIBUTION", "CREDIT", "XAU", 2),
    node("t3", "REFUND", "DEBIT", "USD", -2)>>

change(op, id, amount, pending) ==
  [op |-> op, id |-> id, account |-> acct, pending |-> pending, currency |-> "USD", amount |-> amount]

MCChanges ==
  <<change("added", "p1", 4, FALSE),
    change("added", "p2", 20, TRUE),
    change("modified", "p1", 25, FALSE),
    change("added", "p3", -15, FALSE),
    change("removed", "p1", 25, FALSE)>>

MCLinked == [a \in {acct} |-> "USD"]

option(limit, dry) == [limit |-> limit, dry |-> dry]
MCOptions == {option(NoLimit, FALSE), option(1, FALSE), option(NoLimit, TRUE)}

MCClosable == {<<"oc", "cash", "USD">>}
===============================================================================
