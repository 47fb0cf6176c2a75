------------------------------- MODULE MCPosting -------------------------------
(***************************************************************************)
(* Small instances of PostingEngine.  Tenant a has three usd accounts, 1   *)
(* (asset), 2 (revenue) and 3 (liability), and the eur asset 4; the usd    *)
(* asset 5 is tenant b's; 9 is nobody's.  Each run takes the accounts and  *)
(* the inputs its question needs.                                          *)
(***************************************************************************)
EXTENDS PostingProperties

CONSTANTS r1, r2, r3, ta, tb, k1, k2, usd, eur

MCTenantOf == [a \in Accounts |-> IF a = 5 THEN tb ELSE ta]
MCTypeOf == [a \in Accounts |->
  CASE a = 2 -> "revenue" [] a = 3 -> "liability" [] OTHER -> "asset"]
MCCurrencyOf == [a \in Accounts |-> IF a = 4 THEN eur ELSE usd]

line(a, d, m) == [account |-> a, direction |-> d, amount |-> m, currency |-> NoCurrency]
transfer(from, to, m) == <<line(to, "debit", m), line(from, "credit", m)>>
post(t, k, ls) == [op |-> "post", tenant |-> t, key |-> k, lines |-> ls]
reverse(t, k, u) == [op |-> "reverse", tenant |-> t, key |-> k, target |-> u]
deactivate(t, a) == [op |-> "deactivate", tenant |-> t, account |-> a]

\* Posts in both directions over the same two accounts, one of them retried
\* under its key, and competing reversals, one of them retried under its key.
ConcurrentInputs ==
  {post(ta, k1, transfer(2, 1, 2)), post(ta, NoKey, transfer(1, 2, 1)),
   reverse(ta, k2, r1), reverse(ta, NoKey, r1)}

\* Every way a line or a transaction can be wrong, next to well-formed ones with
\* three lines, one account twice, two currencies and another tenant's key.
ValidationInputs ==
  {post(ta, k1, <<line(1, "debit", 2), line(2, "credit", 1), line(3, "credit", 1)>>),
   post(ta, NoKey, transfer(1, 2, 1) \o <<line(4, "debit", 1), line(4, "credit", 1)>>),
   post(tb, k1, <<line(5, "debit", 1), line(5, "credit", 1)>>),
   post(ta, NoKey, <<line(1, "debit", 2), line(4, "credit", 2)>>),
   post(ta, NoKey, <<line(1, "debit", 2), line(2, "credit", 1)>>),
   post(ta, NoKey, transfer(5, 1, 1)),
   post(ta, NoKey, transfer(9, 1, 1)),
   post(ta, NoKey, transfer(1, 2, 0)),
   post(ta, NoKey, <<line(1, "debit", 1)>>),
   post(ta, NoKey, <<[line(1, "debit", 1) EXCEPT !.currency = eur], line(2, "credit", 1)>>),
   reverse(ta, k1, r1), reverse(tb, NoKey, r1),
   deactivate(ta, 1), deactivate(tb, 1), deactivate(ta, 9)}

EveryInput == ConcurrentInputs \union ValidationInputs

\* Bound: three requests of the first kind meet in a behaviour, or two of the second.
Meeting ==
  LET made == {input[r] : r \in Requests} \ {NoInput}
  IN made \subseteq ConcurrentInputs \/ (made \subseteq ValidationInputs /\ input[r3] = NoInput)

\* A post, its retry under the same key, and a lost answer in between.
RetryInputs == {post(ta, k1, transfer(2, 1, 2))}

\* A caller closes an account while another posts to it.
ClosingInputs == {post(ta, NoKey, transfer(2, 1, 2)), deactivate(ta, 1)}

\* An account that ends at zero is closed, and its postings are reversed.
LateInputs ==
  {post(ta, NoKey, <<line(1, "debit", 1), line(1, "credit", 1)>>), deactivate(ta, 1),
   reverse(ta, NoKey, r1)}
===============================================================================
