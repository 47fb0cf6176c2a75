-------------------------------- MODULE MCClients --------------------------------
(***************************************************************************)
(* A small instance of Clients: the form's calls 1 to 3, the agent's 4 and *)
(* 5; the usd accounts 1 (asset) and 2 (revenue).                          *)
(***************************************************************************)
EXTENDS ClientProperties

CONSTANTS ta, usd, memo, k1

MCTenantOf == [a \in Accounts |-> ta]
MCTypeOf == [a \in Accounts |-> IF a = 2 THEN "revenue" ELSE "asset"]
MCCurrencyOf == [a \in Accounts |-> usd]

row(a, d, m) == [account |-> a, direction |-> d, amount |-> m]
content(k, rs) == [description |-> memo, key |-> k, rows |-> rs]

MCOpening == << >>

MCFormRows == {<<row(1, "debit", 1), row(2, "credit", 1)>>}

\* A sale, the same lines the other way round, an unbalanced one, and one under a key.
MCContents ==
  {content(NoKey, <<row(1, "debit", 2), row(2, "credit", 2)>>),
   content(NoKey, <<row(2, "credit", 2), row(1, "debit", 2)>>),
   content(k1, <<row(1, "debit", 2), row(2, "credit", 1)>>),
   content(k1, <<row(1, "credit", 1), row(2, "debit", 1)>>)}
===============================================================================
