-------------------------------- MODULE MCBatch --------------------------------
(***************************************************************************)
(* Small instances of BatchPosting: the calls each run lets clients make,  *)
(* over up to four accounts and four keys.                                 *)
(***************************************************************************)
EXTENDS BatchProperties

CONSTANTS b1, b2, b3, k1, k2, k3, k4

item(k, as) == [key |-> k, accounts |-> as, wrong |-> FALSE]
bad(k, as) == [key |-> k, accounts |-> as, wrong |-> TRUE]
atomic(items) == [atomic |-> TRUE, items |-> items]
best(items) == [atomic |-> FALSE, items |-> items]

\* Batches that take keys and accounts in opposite orders, repeat a key inside
\* one call, carry a wrong item last or in the middle, or nothing at all.
MixedInputs ==
  {atomic(<<>>),
   atomic(<<item(k1, {1, 2}), item(k2, {3})>>),
   atomic(<<item(k2, {2}), bad(k1, {1})>>),
   best(<<item(k2, {3}), bad(k1, {1}), item(k2, {1})>>)}

\* Items over two disjoint pairs of accounts, in opposite orders, keys apart.
LockInputs ==
  {atomic(<<item(k1, {1, 2}), item(k2, {3, 4})>>),
   atomic(<<item(k3, {3, 4}), item(k4, {1, 2})>>)}
===============================================================================
