------------------------------ MODULE ReportProofs ------------------------------
(***************************************************************************)
(* What Reports promises, for every number of posts, accounts, currencies  *)
(* and questions: the income of a closed period is final, audits alarm     *)
(* only for cause, and balance sheets, histories, statements, portfolios   *)
(* and pages show what they say while posts commit around them.            *)
(*                                                                         *)
(* The invariant has a part about the ledger, which reads leave alone, and *)
(* one about the reader: each SELECT answered over the entries committed   *)
(* when it ran, and stays so as the journal grows, since no entry changes. *)
(***************************************************************************)
EXTENDS ReportProperties, AccountingProofs

-------------------------------------------------------------------------------
(* What postings add up to. *)

\* Lines that can be added up.
Lined(lines) ==
  /\ DOMAIN lines \in SUBSET Nat /\ IsFiniteSet(DOMAIN lines)
  /\ \A i \in DOMAIN lines : lines[i].direction \in Direction /\ lines[i].amount \in Nat

\* What the lines on the accounts A add up to in one direction.
LinesOn(lines, A, d) == {i \in DOMAIN lines : lines[i].account \in A /\ lines[i].direction = d}
LineSum(lines, A, d) == SumFunctionOnSet(AmountOf(lines), LinesOn(lines, A, d))

\* Finitely many postings, and what they add up to.
Addable(S) == IsFiniteSet(S) /\ \A p \in S : p.amount \in Nat
Amounts(S) == SumFunction([p \in S |-> p.amount])

\* The lines of the k-th entry.
LinesAt(j, k) == j[k].lines

\* Finitely many entries whose lines can be added up.
Counted(j, K) == IsFiniteSet(K) /\ \A k \in K : Lined(LinesAt(j, k))

\* One account, and no other.
Only(a) == {a}

\* The entries L are K and one more.
OneMore(L, K, k) == L = K \union {k} /\ k \notin K

\* The postings of an entry on the accounts A in one direction.
RowsOn(e, k, A, d) ==
  {p \in {Posting(e, k, i) : i \in DOMAIN e.lines} : p.account \in A /\ p.direction = d}

\* The postings of the entries K on the accounts A in one direction.
Of(j, K, A, d) == {p \in PostingsOf(j, K) : p.account \in A /\ p.direction = d}
Mass(j, K, A, d) == Amounts(Of(j, K, A, d))

\* Amounts add up to a natural.
LEMMA AmountsNat ==
  ASSUME NEW S, Addable(S)
  PROVE  Amounts(S) \in Nat
<1> DEFINE f == [p \in S |-> p.amount]
<1>1. IsFiniteSet(S) /\ \A p \in S : f[p] \in Nat
  BY DEF Addable
<1>2. DOMAIN f = S
  OBVIOUS
<1> HIDE DEF f
<1>3. SumFunctionOnSet(f, S) \in Nat
  BY <1>1, SumNat
<1>4. QED
  BY <1>2, <1>3 DEF Amounts, SumFunction, f

\* Disjoint sets of postings add up separately.
LEMMA AmountsUnion ==
  ASSUME NEW S, NEW T, Addable(S), Addable(T), S \intersect T = {}
  PROVE  /\ Addable(S \union T)
         /\ Amounts(S \union T) = Amounts(S) + Amounts(T)
<1> DEFINE U == S \union T
           f == [p \in U |-> p.amount]
           g == [p \in S |-> p.amount]
           h == [p \in T |-> p.amount]
<1>1. IsFiniteSet(S) /\ IsFiniteSet(T) /\ IsFiniteSet(U)
  BY FS_Union DEF Addable
<1>2. /\ \A p \in S \union T : f[p] \in Int
      /\ \A p \in S : g[p] \in Int /\ f[p] = g[p]
      /\ \A p \in T : h[p] \in Int /\ f[p] = h[p]
  BY DEF Addable
<1>3. DOMAIN f = S \union T /\ DOMAIN g = S /\ DOMAIN h = T
  OBVIOUS
<1>4. Addable(S \union T)
  BY <1>1 DEF Addable
<1>5. Amounts(S \union T) = SumFunction(f) /\ Amounts(S) = SumFunction(g) /\ Amounts(T) = SumFunction(h)
  BY DEF Amounts
<1> HIDE DEF f, g, h, U
<1>6. SumFunctionOnSet(f, S \union T) = SumFunctionOnSet(f, S) + SumFunctionOnSet(f, T)
  BY <1>1, <1>2, SumUnion
<1>7. SumFunctionOnSet(g, S) = SumFunctionOnSet(f, S)
  BY <1>1, <1>2, SumSame
<1>8. SumFunctionOnSet(h, T) = SumFunctionOnSet(f, T)
  BY <1>1, <1>2, SumSame
<1>9. QED
  BY <1>3, <1>4, <1>5, <1>6, <1>7, <1>8 DEF SumFunction

\* The postings of one entry add up as its lines do.
LEMMA AmountsOfEntry ==
  ASSUME NEW e, Lined(e.lines), NEW k, NEW A, NEW d
  PROVE  /\ Addable(RowsOn(e, k, A, d))
         /\ Amounts(RowsOn(e, k, A, d)) = LineSum(e.lines, A, d)
<1> DEFINE S == RowsOn(e, k, A, d)
           I == LinesOn(e.lines, A, d)
           h == [i \in I |-> Posting(e, k, i)]
           f == AmountOf(e.lines)
           g == [p \in S |-> p.amount]
<1>1. I \in SUBSET DOMAIN e.lines /\ IsFiniteSet(I)
  <2>1. I \in SUBSET DOMAIN e.lines
    BY DEF LinesOn
  <2> HIDE DEF I
  <2>2. QED
    BY <2>1, FS_Subset DEF Lined
<1>2. \A i \in DOMAIN e.lines :
        LET p == Posting(e, k, i)
        IN p.line = i /\ p.account = e.lines[i].account /\ p.direction = e.lines[i].direction
           /\ p.amount = e.lines[i].amount
  BY DEF Posting
<1>3. S = {h[i] : i \in I}
  <2>1. \A i \in I : h[i] = Posting(e, k, i)
    OBVIOUS
  <2>2. ASSUME NEW p \in S
        PROVE  \E i \in I : p = h[i]
    <3>1. PICK i \in DOMAIN e.lines : p = Posting(e, k, i)
      BY DEF RowsOn
    <3>2. p.account \in A /\ p.direction = d
      BY DEF RowsOn
    <3>3. i \in I
      BY <1>2, <3>1, <3>2 DEF LinesOn
    <3>4. QED
      BY <2>1, <3>1, <3>3
  <2>3. ASSUME NEW i \in I
        PROVE  h[i] \in S
    <3>1. i \in DOMAIN e.lines /\ e.lines[i].account \in A /\ e.lines[i].direction = d
      BY DEF LinesOn
    <3>2. QED
      BY <1>2, <2>1, <3>1 DEF RowsOn
  <2>4. QED
    BY <2>2, <2>3
<1>4. \A i, m \in I : h[i] = h[m] => i = m
  BY <1>1, <1>2
<1>5. \A i \in I : f[i] \in Nat /\ g[h[i]] = f[i]
  <2>1. TAKE i \in I
  <2>2. h[i] \in S /\ h[i] = Posting(e, k, i)
    BY <1>3
  <2>3. g[h[i]] = e.lines[i].amount
    BY <1>1, <1>2, <2>2
  <2>4. f[i] = e.lines[i].amount /\ f[i] \in Nat
    BY <1>1 DEF AmountOf, Lined
  <2>5. QED
    BY <2>3, <2>4
<1>6. \A p \in S : p.amount \in Nat
  BY <1>2 DEF Lined, RowsOn
<1>7. DOMAIN g = S /\ Amounts(S) = SumFunction(g)
  BY DEF Amounts
<1> HIDE DEF f, g, h, I, S
<1>8. IsFiniteSet(S)
  BY <1>1, <1>3, <1>4, CountImage
<1>9. SumFunctionOnSet(f, I) = SumFunctionOnSet(g, {h[i] : i \in I})
  BY <1>1, <1>4, <1>5, SumReindex
<1>10. QED
  BY <1>3, <1>6, <1>7, <1>8, <1>9 DEF Addable, SumFunction, LineSum, f, I, S

\* A posting knows its entry.
LEMMA PostingsOfEntries ==
  ASSUME NEW j, NEW K
  PROVE  \A p \in PostingsOf(j, K) :
           /\ p.entry \in K
           /\ p.line \in DOMAIN j[p.entry].lines
           /\ p = Posting(j[p.entry], p.entry, p.line)
  BY DEF PostingsOf, Posting

\* One more entry.
LEMMA MassGrows ==
  ASSUME NEW j, NEW K, NEW k, NEW L, OneMore(L, K, k), Lined(LinesAt(j, k)), NEW A, NEW d, Addable(Of(j, K, A, d))
  PROVE  /\ Addable(Of(j, L, A, d))
         /\ Mass(j, L, A, d) = Mass(j, K, A, d) + LineSum(LinesAt(j, k), A, d)
<1> DEFINE New == RowsOn(j[k], k, A, d)
<1>1. Of(j, L, A, d) = Of(j, K, A, d) \union New
  BY DEF Of, PostingsOf, RowsOn, OneMore
<1>2. Of(j, K, A, d) \intersect New = {}
  <2>1. \A p \in Of(j, K, A, d) : p.entry \in K
    BY PostingsOfEntries DEF Of
  <2>2. \A p \in New : p.entry = k
    BY DEF Posting, RowsOn
  <2>3. QED
    BY <2>1, <2>2 DEF OneMore
<1>3. Addable(New) /\ Amounts(New) = LineSum(LinesAt(j, k), A, d)
  BY AmountsOfEntry DEF LinesAt
<1> HIDE DEF New
<1>4. QED
  BY <1>1, <1>2, <1>3, AmountsUnion DEF Mass

\* What the lines of an entry add up to is a natural.
LEMMA LineSumNat ==
  ASSUME NEW lines, Lined(lines), NEW A, NEW d
  PROVE  LineSum(lines, A, d) \in Nat
<1>1. LinesOn(lines, A, d) \in SUBSET DOMAIN lines
  BY DEF LinesOn
<1>2. IsFiniteSet(LinesOn(lines, A, d))
  BY <1>1, FS_Subset DEF Lined
<1>3. \A i \in LinesOn(lines, A, d) : AmountOf(lines)[i] \in Nat
  BY <1>1 DEF Lined, AmountOf
<1>4. QED
  BY <1>2, <1>3, SumNat DEF LineSum

\* What entries add up to is the sum over them.
LEMMA MassByEntry ==
  ASSUME NEW j, NEW K, Counted(j, K), NEW A, NEW d
  PROVE  /\ Addable(Of(j, K, A, d))
         /\ Mass(j, K, A, d) \in Nat
         /\ Mass(j, K, A, d) = SumFunctionOnSet([k \in K |-> LineSum(LinesAt(j, k), A, d)], K)
<1> DEFINE f == [k \in K |-> LineSum(LinesAt(j, k), A, d)]
           Good(T) == Addable(Of(j, T, A, d)) /\ Mass(j, T, A, d) = SumFunctionOnSet(f, T)
           B == {T \in SUBSET K : ~Good(T)}
<1>1. B = {}
  <2>1. SUFFICES ASSUME B # {} PROVE FALSE
    OBVIOUS
  <2>2. PICK T \in B : \A U \in B : ~(U \subseteq T /\ U # T)
    <3>1. B \in SUBSET (SUBSET K) /\ IsFiniteSet(K)
      BY DEF Counted
    <3> HIDE DEF B
    <3>2. QED
      BY <2>1, <3>1, SmallestSubset
  <2>3. T # {}
    <3>1. Of(j, {}, A, d) = {}
      BY DEF Of, PostingsOf
    <3>2. Addable({}) /\ Amounts({}) = 0
      BY FS_EmptySet, SumEmpty DEF Addable, Amounts, SumFunction
    <3>3. Good({})
      BY <3>1, <3>2, SumEmpty DEF Mass
    <3> HIDE DEF Good
    <3>4. QED
      BY <2>2, <3>3
  <2>4. PICK k \in T : TRUE
    BY <2>3
  <2> DEFINE U == T \ {k}
  <2>5. T \in SUBSET K /\ U \in SUBSET K /\ U # T /\ U \subseteq T /\ OneMore(T, U, k)
    BY <2>4 DEF OneMore
  <2>6. Good(U)
    BY <2>2, <2>5
  <2>7. Addable(Of(j, T, A, d)) /\ Mass(j, T, A, d) = Mass(j, U, A, d) + LineSum(LinesAt(j, k), A, d)
    <3> HIDE DEF U
    <3>1. Lined(LinesAt(j, k))
      BY <2>5 DEF Counted
    <3>2. QED
      BY <2>5, <2>6, <3>1, MassGrows
  <2>8. IsFiniteSet(T) /\ \A x \in T : f[x] \in Int
    BY <2>5, FS_Subset, LineSumNat DEF Counted
  <2>9. SumFunctionOnSet(f, T) = f[k] + SumFunctionOnSet(f, U)
    BY <2>4, <2>8, SumRemove
  <2>10. SumFunctionOnSet(f, U) \in Int
    <3>1. IsFiniteSet(U) /\ \A x \in U : f[x] \in Int
      BY <2>5, <2>8, FS_Subset
    <3>2. QED
      BY <3>1, SumInt
  <2>11. f[k] = LineSum(LinesAt(j, k), A, d) /\ f[k] \in Int
    BY <2>4, <2>5, <2>8
  <2>12. ~Good(T)
    BY <2>2
  <2> HIDE DEF U, f
  <2>13. QED
    BY <2>6, <2>7, <2>9, <2>10, <2>11, <2>12
<1>2. Good(K)
  BY <1>1
<1>3. QED
  BY <1>2, AmountsNat DEF Mass

\* Entries that are the same have the same postings.
LEMMA SamePostings ==
  ASSUME NEW j, NEW g, NEW K, \A k \in K : g[k] = j[k]
  PROVE  PostingsOf(g, K) = PostingsOf(j, K)
  BY DEF PostingsOf

\* Entries without lines on the accounts change nothing.
LEMMA MassIdle ==
  ASSUME NEW j, NEW K, NEW L, K \subseteq L, NEW A,
         \A k \in L \ K : \A i \in DOMAIN j[k].lines : j[k].lines[i].account \notin A
  PROVE  \A d : Mass(j, L, A, d) = Mass(j, K, A, d)
<1> TAKE d
<1>2. Of(j, K, A, d) \subseteq Of(j, L, A, d)
  BY DEF Of, PostingsOf
<1>3. ASSUME NEW p \in Of(j, L, A, d)
      PROVE  p \in Of(j, K, A, d)
  <2>1. /\ p.entry \in L /\ p.line \in DOMAIN j[p.entry].lines
        /\ p = Posting(j[p.entry], p.entry, p.line)
    BY <1>3, PostingsOfEntries DEF Of
  <2>2. p.account = j[p.entry].lines[p.line].account /\ p.account \in A /\ p.direction = d
    BY <1>3, <2>1 DEF Posting, Of
  <2>3. p.entry \in K
    BY <2>1, <2>2
  <2>4. p \in PostingsOf(j, K)
    BY <2>1, <2>3 DEF PostingsOf
  <2>5. QED
    BY <2>2, <2>4 DEF Of
<1>4. Of(j, L, A, d) = Of(j, K, A, d)
  BY <1>2, <1>3
<1>5. QED
  BY <1>4 DEF Mass

\* Entries whose debits on the accounts equal their credits are balanced together.
LEMMA MassBalanced ==
  ASSUME NEW j, NEW K, Counted(j, K), NEW A,
         \A k \in K : LineSum(LinesAt(j, k), A, "debit") = LineSum(LinesAt(j, k), A, "credit")
  PROVE  Mass(j, K, A, "debit") = Mass(j, K, A, "credit")
<1> DEFINE f(d) == [k \in K |-> LineSum(LinesAt(j, k), A, d)]
<1>1. f("debit") = f("credit")
  OBVIOUS
<1>2. Mass(j, K, A, "debit") = SumFunctionOnSet(f("debit"), K)
  BY MassByEntry
<1>3. Mass(j, K, A, "credit") = SumFunctionOnSet(f("credit"), K)
  BY MassByEntry
<1>4. QED
  BY <1>1, <1>2, <1>3

\* Disjoint sets of accounts add up separately.
LEMMA MassDisjoint ==
  ASSUME NEW j, NEW K, Counted(j, K), NEW A, NEW B,
         A \intersect B = {}, NEW d
  PROVE  Mass(j, K, A \union B, d) = Mass(j, K, A, d) + Mass(j, K, B, d)
<1>1. Of(j, K, A \union B, d) = Of(j, K, A, d) \union Of(j, K, B, d)
  BY DEF Of
<1>2. Of(j, K, A, d) \intersect Of(j, K, B, d) = {}
  BY DEF Of
<1>3. Addable(Of(j, K, A, d)) /\ Addable(Of(j, K, B, d))
  BY MassByEntry
<1>4. QED
  BY <1>1, <1>2, <1>3, AmountsUnion DEF Mass

\* What accounts hold together is the sum over them.
LEMMA MassByAccount ==
  ASSUME NEW j, NEW K, Counted(j, K),
         NEW A, IsFiniteSet(A), NEW d, NEW f, \A a \in A : f[a] = Mass(j, K, Only(a), d)
  PROVE  Mass(j, K, A, d) = SumFunctionOnSet(f, A)
<1> DEFINE Good(T) == Mass(j, K, T, d) = SumFunctionOnSet(f, T)
           B == {T \in SUBSET A : ~Good(T)}
<1>1. SUFFICES ASSUME B # {} PROVE FALSE
  OBVIOUS
<1>2. PICK T \in B : \A U \in B : ~(U \subseteq T /\ U # T)
  <2>1. B \in SUBSET (SUBSET A)
    OBVIOUS
  <2> HIDE DEF B
  <2>2. QED
    BY <1>1, <2>1, SmallestSubset
<1>3. T # {}
  <2>1. Of(j, K, {}, d) = {}
    BY DEF Of
  <2>2. Amounts({}) = 0
    BY SumEmpty DEF Amounts, SumFunction
  <2>3. Good({})
    BY <2>1, <2>2, SumEmpty DEF Mass
  <2> HIDE DEF Good
  <2>4. QED
    BY <1>2, <2>3
<1>4. PICK a \in T : TRUE
  BY <1>3
<1> DEFINE U == T \ {a}
<1>5. T \in SUBSET A /\ U \in SUBSET A /\ U # T /\ U \subseteq T /\ U \intersect {a} = {} /\ U \union {a} = T
  BY <1>4
<1>6. Good(U)
  BY <1>2, <1>5
<1>7. Mass(j, K, T, d) = Mass(j, K, U, d) + Mass(j, K, Only(a), d)
  <2>1. U \intersect Only(a) = {} /\ U \union Only(a) = T
    BY <1>5 DEF Only
  <2> HIDE DEF U
  <2>2. Mass(j, K, U \union Only(a), d) = Mass(j, K, U, d) + Mass(j, K, Only(a), d)
    BY <2>1, MassDisjoint
  <2>3. QED
    BY <2>1, <2>2
<1>8. \A x \in A : f[x] \in Int
  <2>1. TAKE x \in A
  <2>2. Mass(j, K, Only(x), d) \in Nat
    BY MassByEntry
  <2>3. QED
    BY <2>2
<1>9. IsFiniteSet(T) /\ IsFiniteSet(U) /\ (\A x \in T : f[x] \in Int) /\ \A x \in U : f[x] \in Int
  BY <1>5, <1>8, FS_Subset
<1>10. SumFunctionOnSet(f, T) = f[a] + SumFunctionOnSet(f, U)
  BY <1>4, <1>9, SumRemove
<1>11. SumFunctionOnSet(f, U) \in Int
  BY <1>9, SumInt
<1>12. f[a] = Mass(j, K, Only(a), d) /\ f[a] \in Int /\ ~Good(T)
  BY <1>2, <1>4, <1>5, <1>8
<1> HIDE DEF U
<1>13. QED
  BY <1>6, <1>7, <1>10, <1>11, <1>12

-------------------------------------------------------------------------------
(* The totals of accounts. *)

TotalsOf(j, K, a) ==
  [debits |-> Mass(j, K, Only(a), "debit"), credits |-> Mass(j, K, Only(a), "credit")]

\* They are naturals.
LEMMA TotalsType ==
  ASSUME NEW j, NEW K, Counted(j, K), NEW a
  PROVE  TotalsOf(j, K, a) \in Totals
  BY MassByEntry DEF TotalsOf, Totals

\* What lines add to one account.
LEMMA DeltaIsSum ==
  ASSUME NEW lines, NEW a
  PROVE  Delta(a, lines) = [debits |-> LineSum(lines, Only(a), "debit"), credits |-> LineSum(lines, Only(a), "credit")]
<1>1. \A d : {i \in DOMAIN lines : lines[i].account = a /\ lines[i].direction = d} = LinesOn(lines, Only(a), d)
  BY DEF LinesOn, Only
<1>2. QED
  BY <1>1 DEF Delta, SumOver, LineSum

\* One more entry moves them by its delta.
LEMMA TotalsGrow ==
  ASSUME NEW j, NEW K, NEW k, NEW L, OneMore(L, K, k), Counted(j, K), Counted(j, L), NEW a
  PROVE  /\ TotalsOf(j, L, a) =
              [debits |-> TotalsOf(j, K, a).debits + Delta(a, LinesAt(j, k)).debits,
               credits |-> TotalsOf(j, K, a).credits + Delta(a, LinesAt(j, k)).credits]
         /\ Delta(a, LinesAt(j, k)) \in Totals
         /\ Signed(a, TotalsOf(j, L, a)) =
              Signed(a, TotalsOf(j, K, a)) + Signed(a, Delta(a, LinesAt(j, k)))
<1>1. \A d : Mass(j, L, Only(a), d) = Mass(j, K, Only(a), d) + LineSum(LinesAt(j, k), Only(a), d)
  <2>1. TAKE d
  <2> DEFINE one == Only(a)
  <2>2. Addable(Of(j, K, one, d)) /\ Lined(LinesAt(j, k))
    BY MassByEntry DEF Counted, OneMore
  <2> HIDE DEF one
  <2>3. Mass(j, L, one, d) = Mass(j, K, one, d) + LineSum(LinesAt(j, k), one, d)
    BY <2>2, MassGrows
  <2>4. QED
    BY <2>3 DEF one
<1>2. Delta(a, LinesAt(j, k)) = [debits |-> LineSum(LinesAt(j, k), Only(a), "debit"),
                              credits |-> LineSum(LinesAt(j, k), Only(a), "credit")]
  BY DeltaIsSum
<1>3. \A d : LineSum(LinesAt(j, k), Only(a), d) \in Nat /\ Mass(j, K, Only(a), d) \in Nat
  BY LineSumNat, MassByEntry DEF Counted, OneMore
<1> DEFINE before == TotalsOf(j, K, a)
           after == TotalsOf(j, L, a)
           delta == Delta(a, LinesAt(j, k))
<1>4. delta \in Totals
  BY <1>2, <1>3 DEF Totals
<1>5. /\ before.debits = Mass(j, K, Only(a), "debit") /\ before.credits = Mass(j, K, Only(a), "credit")
      /\ after.debits = Mass(j, L, Only(a), "debit")
      /\ after.credits = Mass(j, L, Only(a), "credit")
      /\ delta.debits = LineSum(LinesAt(j, k), Only(a), "debit")
      /\ delta.credits = LineSum(LinesAt(j, k), Only(a), "credit")
  BY <1>2 DEF TotalsOf
<1>6. after.debits = before.debits + delta.debits /\ after.credits = before.credits + delta.credits
  BY <1>1, <1>5
<1>7. after = [debits |-> after.debits, credits |-> after.credits]
  BY DEF TotalsOf
<1>8. /\ before.debits \in Nat /\ before.credits \in Nat
      /\ delta.debits \in Nat /\ delta.credits \in Nat
  BY <1>3, <1>5
<1> HIDE DEF before, after, delta
<1>9. Signed(a, after) = Signed(a, before) + Signed(a, delta)
  BY <1>6, <1>8 DEF Signed
<1>10. after = [debits |-> before.debits + delta.debits, credits |-> before.credits + delta.credits]
  BY <1>6, <1>7
<1>11. QED
  BY <1>4, <1>9, <1>10 DEF before, after, delta

\* Entries that do not touch the account change nothing.
LEMMA TotalsIdle ==
  ASSUME NEW j, NEW K, NEW L, K \subseteq L, NEW a,
         \A k \in L \ K : \A i \in DOMAIN j[k].lines : j[k].lines[i].account # a
  PROVE  TotalsOf(j, L, a) = TotalsOf(j, K, a)
<1>1. \A k \in L \ K : \A i \in DOMAIN j[k].lines : j[k].lines[i].account \notin Only(a)
  BY DEF Only
<1>2. \A d : Mass(j, L, Only(a), d) = Mass(j, K, Only(a), d)
  BY <1>1, MassIdle
<1>3. QED
  BY <1>2 DEF TotalsOf

\* Nor does an account have totals before any entry.
LEMMA TotalsEmpty ==
  ASSUME NEW j, NEW a
  PROVE  TotalsOf(j, {}, a) = ZeroTotals
<1>1. \A d : Of(j, {}, Only(a), d) = {}
  BY DEF Of, PostingsOf
<1>2. Amounts({}) = 0
  BY SumEmpty DEF Amounts, SumFunction
<1>3. QED
  BY <1>1, <1>2 DEF TotalsOf, Mass, ZeroTotals

\* The same entries make the same totals.
LEMMA TotalsSame ==
  ASSUME NEW j, NEW g, NEW K, \A k \in K : g[k] = j[k], NEW a
  PROVE  TotalsOf(g, K, a) = TotalsOf(j, K, a)
<1>1. PostingsOf(g, K) = PostingsOf(j, K)
  BY SamePostings
<1>2. QED
  BY <1>1 DEF TotalsOf, Mass, Of

\* The signed balances of accounts with one normal balance.
Side(n) == IF n = "debit" THEN "credit" ELSE "debit"

\* The signed balances of accounts with one normal side add up to what they hold
\* together on it, less what they hold on the other.
LEMMA SignedSum ==
  ASSUME NEW j, NEW K, Counted(j, K),
         NEW A, IsFiniteSet(A), NEW n \in Direction, \A a \in A : NormalBalance(TypeOf[a]) = n,
         NEW f, \A a \in A : f[a] = Signed(a, TotalsOf(j, K, a))
  PROVE  SumFunctionOnSet(f, A) = Mass(j, K, A, n) - Mass(j, K, A, Side(n))
<1> DEFINE g == [a \in A |-> Mass(j, K, Only(a), n)]
           h == [a \in A |-> Mass(j, K, Only(a), Side(n))]
<1>1. \A a \in A : g[a] = Mass(j, K, Only(a), n) /\ h[a] = Mass(j, K, Only(a), Side(n))
  OBVIOUS
<1>2. \A a \in A : g[a] \in Int /\ h[a] \in Int /\ f[a] = g[a] - h[a]
  <2>1. TAKE a \in A
  <2>2. Mass(j, K, Only(a), n) \in Nat /\ Mass(j, K, Only(a), Side(n)) \in Nat
    BY MassByEntry
  <2>3. f[a] = Signed(a, TotalsOf(j, K, a)) /\ NormalBalance(TypeOf[a]) = n
    OBVIOUS
  <2>4. f[a] = Mass(j, K, Only(a), n) - Mass(j, K, Only(a), Side(n))
    BY <2>3 DEF Signed, TotalsOf, Side, Direction
  <2>5. QED
    BY <1>1, <2>2, <2>4
<1> HIDE DEF g, h
<1>3. SumFunctionOnSet(f, A) = SumFunctionOnSet(g, A) - SumFunctionOnSet(h, A)
  BY <1>2, SumDifference
<1>4. Mass(j, K, A, n) = SumFunctionOnSet(g, A)
  <2>1. \A a \in A : g[a] = Mass(j, K, Only(a), n)
    BY <1>1
  <2>2. QED
    BY <2>1, MassByAccount
<1> DEFINE m == Side(n)
<1>5. Mass(j, K, A, m) = SumFunctionOnSet(h, A)
  <2>1. \A a \in A : h[a] = Mass(j, K, Only(a), m)
    BY <1>1
  <2> HIDE DEF m
  <2>2. QED
    BY <2>1, MassByAccount
<1>6. QED
  BY <1>3, <1>4, <1>5

-------------------------------------------------------------------------------
(* What the SELECTs compute, in terms of the entries they count. *)

\* The accounts that entries touch.
TouchedBy(j, K) == {p.account : p \in PostingsOf(j, K)}

\* Every line of the entries K is on an account of U.
Within(j, K, U) == \A k \in K : \A i \in DOMAIN LinesAt(j, k) : LinesAt(j, k)[i].account \in U

\* Entries that stay within the accounts U touch no other.
LEMMA TouchedWithin ==
  ASSUME NEW j, NEW K, NEW U, Within(j, K, U)
  PROVE  TouchedBy(j, K) \subseteq U
<1>1. ASSUME NEW p \in PostingsOf(j, K)
      PROVE  p.account \in U
  <2>1. p.entry \in K /\ p.line \in DOMAIN j[p.entry].lines /\ p = Posting(j[p.entry], p.entry, p.line)
    BY PostingsOfEntries
  <2>2. p.account = j[p.entry].lines[p.line].account
    BY <2>1 DEF Posting
  <2>3. QED
    BY <2>1, <2>2 DEF Within, LinesAt
<1>2. QED
  BY <1>1 DEF TouchedBy

\* An account no entry touches has no totals.
LEMMA UntouchedTotals ==
  ASSUME NEW j, NEW K, NEW a, a \notin TouchedBy(j, K)
  PROVE  TotalsOf(j, K, a) = ZeroTotals
<1>1. ASSUME NEW k \in K, NEW i \in DOMAIN j[k].lines
      PROVE  j[k].lines[i].account # a
  <2>1. Posting(j[k], k, i) \in PostingsOf(j, K)
    BY DEF PostingsOf
  <2>2. Posting(j[k], k, i).account = j[k].lines[i].account
    BY DEF Posting
  <2>3. QED
    BY <2>1, <2>2 DEF TouchedBy
<1>2. PICK E : E = {}
  OBVIOUS
<1>3. E \subseteq K /\ \A k \in K \ E : \A i \in DOMAIN j[k].lines : j[k].lines[i].account # a
  BY <1>1, <1>2
<1>4. TotalsOf(j, K, a) = TotalsOf(j, E, a)
  BY <1>3, TotalsIdle
<1>5. QED
  BY <1>2, <1>4, TotalsEmpty

\* GROUP BY account over the postings on accounts A: the totals of each.
PostingsOn(j, K, A) == {p \in PostingsOf(j, K) : p.account \in A}

\* GROUP BY account over the postings on A gives each account its totals.
LEMMA ByAccountTotals ==
  ASSUME NEW j, NEW K, NEW A
  PROVE  /\ DOMAIN ByAccount(PostingsOn(j, K, A)) = TouchedBy(j, K) \intersect A
         /\ \A a \in TouchedBy(j, K) \intersect A :
              ByAccount(PostingsOn(j, K, A))[a] = TotalsOf(j, K, a)
<1> DEFINE S == PostingsOn(j, K, A)
<1>1. {p.account : p \in S} = TouchedBy(j, K) \intersect A
  BY DEF TouchedBy, PostingsOn
<1>2. ASSUME NEW a \in TouchedBy(j, K) \intersect A
      PROVE  ByAccount(S)[a] = TotalsOf(j, K, a)
  <2> DEFINE mine == {p \in S : p.account = a}
  <2>1. \A d : {p \in mine : p.direction = d} = Of(j, K, Only(a), d)
    BY DEF Of, Only, PostingsOn
  <2>2. \A d : SideSum(mine, d) = Mass(j, K, Only(a), d)
    BY <2>1 DEF SideSum, Mass, Amounts
  <2>3. ByAccount(S)[a] = [debits |-> SideSum(mine, "debit"), credits |-> SideSum(mine, "credit")]
    BY <1>1 DEF ByAccount
  <2> HIDE DEF mine
  <2>4. QED
    BY <2>2, <2>3 DEF TotalsOf
<1>3. DOMAIN ByAccount(S) = {p.account : p \in S}
  BY DEF ByAccount
<1>4. QED
  BY <1>1, <1>2, <1>3

\* The accounts a report counts: of these types, and of its currency if it has one.
Counts(types, currency) ==
  {a \in Accounts : TypeOf[a] \in types /\ currency \in {AnyCurrency, CurrencyOf[a]}}

ActivityOf(j, K, types, currency) == Activity(PostingsOf(j, K), types, currency)

\* _account_activity gives each account it counts its totals.
LEMMA ActivityTotals ==
  ASSUME NEW j, NEW K, Within(j, K, Accounts), NEW types, NEW currency
  PROVE  /\ DOMAIN ActivityOf(j, K, types, currency) = TouchedBy(j, K) \intersect Counts(types, currency)
         /\ \A a \in DOMAIN ActivityOf(j, K, types, currency) :
              ActivityOf(j, K, types, currency)[a] = TotalsOf(j, K, a)
<1> DEFINE kept == Counts(types, currency)
<1>1. \A p \in PostingsOf(j, K) : p.account \in Accounts
  BY TouchedWithin DEF TouchedBy
<1>2. PostingsOn(j, K, kept) =
        {p \in PostingsOf(j, K) : /\ TypeOf[p.account] \in types
                                  /\ currency \in {AnyCurrency, CurrencyOf[p.account]}}
  BY <1>1 DEF Counts, PostingsOn
<1>3. ActivityOf(j, K, types, currency) = ByAccount(PostingsOn(j, K, kept))
  BY <1>2 DEF Activity, ActivityOf
<1>4. kept = Counts(types, currency)
  OBVIOUS
<1> HIDE DEF kept
<1>5. /\ DOMAIN ByAccount(PostingsOn(j, K, kept)) = TouchedBy(j, K) \intersect kept
      /\ \A a \in TouchedBy(j, K) \intersect kept :
           ByAccount(PostingsOn(j, K, kept))[a] = TotalsOf(j, K, a)
  BY ByAccountTotals
<1>6. QED
  BY <1>3, <1>4, <1>5

\* The accounts of U of one type in one currency, and all of them in it.
OfKind(U, type, c) == {a \in U : TypeOf[a] = type /\ CurrencyOf[a] = c}
InCurrency(U, c) == {a \in U : CurrencyOf[a] = c}

\* Accounts are finitely many.
LEMMA SomeAccounts ==
  ASSUME NEW U, U \subseteq Accounts
  PROVE  /\ IsFiniteSet(U)
         /\ \A type, c : IsFiniteSet(OfKind(U, type, c)) /\ IsFiniteSet(InCurrency(U, c))
<1>1. IsFiniteSet(U)
  BY FS_Subset, ChartAssumption
<1>2. \A type, c : OfKind(U, type, c) \in SUBSET U /\ InCurrency(U, c) \in SUBSET U
  BY DEF OfKind, InCurrency
<1>3. QED
  BY <1>1, <1>2, FS_Subset

\* The signed balance of no totals.
LEMMA SignedZero == \A a : Signed(a, ZeroTotals) = 0
  BY DEF Signed, ZeroTotals

\* A signed balance is an integer.
LEMMA SignedInt ==
  ASSUME NEW t \in Totals, NEW a
  PROVE  Signed(a, t) \in Int
  BY DEF Signed, Totals

\* The total of a type in a currency is what its accounts hold together.
Held(j, K, A, n) == Mass(j, K, A, n) - Mass(j, K, A, Side(n))

\* A total of the report is what the accounts of that type and currency hold together.
LEMMA TotalIsHeld ==
  ASSUME NEW j, NEW K, Counted(j, K), NEW U, U \subseteq Accounts, Within(j, K, U),
         NEW types, NEW type \in types, type \in AccountType,
         NEW currency, NEW c, currency \in {AnyCurrency, c}
  PROVE  Total(ActivityOf(j, K, types, currency), type, c) =
           Held(j, K, OfKind(U, type, c), NormalBalance(type))
<1> DEFINE act == ActivityOf(j, K, types, currency)
           A == OfKind(U, type, c)
           mine == {a \in DOMAIN act : TypeOf[a] = type /\ CurrencyOf[a] = c}
           f == [a \in A |-> Signed(a, TotalsOf(j, K, a))]
           g == [a \in mine |-> Signed(a, act[a])]
<1>1. /\ DOMAIN act = TouchedBy(j, K) \intersect Counts(types, currency)
      /\ \A a \in DOMAIN act : act[a] = TotalsOf(j, K, a)
  <2>1. Within(j, K, Accounts)
    BY DEF Within
  <2>2. QED
    BY <2>1, ActivityTotals
<1>2. TouchedBy(j, K) \subseteq U
  BY TouchedWithin
<1>3. \A a \in A : a \in Accounts /\ TypeOf[a] = type /\ CurrencyOf[a] = c
  BY DEF OfKind
<1>4. mine = TouchedBy(j, K) \intersect A
  BY <1>1, <1>2, <1>3 DEF Counts, OfKind
<1>5. Total(act, type, c) = SumFunction(g)
  BY DEF Total
<1>6. IsFiniteSet(A) /\ mine \in SUBSET A
  BY <1>4, SomeAccounts
<1>7. \A a \in A : f[a] = Signed(a, TotalsOf(j, K, a)) /\ f[a] \in Int
  BY TotalsType, SignedInt
<1>8. \A a \in A \ mine : f[a] = 0
  BY <1>4, <1>7, UntouchedTotals, SignedZero
<1>9. \A a \in mine : f[a] \in Int /\ g[a] = f[a]
  BY <1>1, <1>4, <1>7
<1>10. DOMAIN g = mine /\ IsFiniteSet(mine) /\ NormalBalance(type) \in Direction
       /\ \A a \in A : NormalBalance(TypeOf[a]) = NormalBalance(type)
  BY <1>3, <1>6, FS_Subset DEF NormalBalance, Direction
<1> HIDE DEF f, g, A, mine, act
<1>11. SumFunctionOnSet(f, mine) = SumFunctionOnSet(g, mine)
  BY <1>9, <1>10, SumSame
<1>12. SumFunctionOnSet(f, A) = SumFunctionOnSet(f, mine)
  BY <1>6, <1>7, <1>8, SumNonzero
<1> DEFINE n == NormalBalance(type)
<1>13. SumFunctionOnSet(f, A) = Mass(j, K, A, n) - Mass(j, K, A, Side(n))
  <2>1. n \in Direction /\ \A a \in A : NormalBalance(TypeOf[a]) = n
    BY <1>10
  <2> HIDE DEF n
  <2>2. QED
    BY <1>6, <1>7, <2>1, SignedSum
<1>14. QED
  BY <1>5, <1>10, <1>11, <1>12, <1>13 DEF SumFunction, Held, act, A

\* Every entry balanced: so are the postings of a currency.
LEMMA CurrencyBalanced ==
  ASSUME NEW j, NEW K, Counted(j, K), NEW U, U \subseteq Accounts, Within(j, K, U),
         \A k \in K : Balanced(LinesAt(j, k)), NEW c \in Currencies
  PROVE  Mass(j, K, InCurrency(U, c), "debit") = Mass(j, K, InCurrency(U, c), "credit")
<1> DEFINE A == InCurrency(U, c)
<1>1. ASSUME NEW k \in K
      PROVE  LineSum(LinesAt(j, k), A, "debit") = LineSum(LinesAt(j, k), A, "credit")
  <2> DEFINE lines == LinesAt(j, k)
  <2>1. \A i \in DOMAIN lines : lines[i].account \in A <=> CurrencyOf[lines[i].account] = c
    BY DEF Within, InCurrency
  <2>2. \A d : LinesOn(lines, A, d) = {i \in DOMAIN lines : CurrencyOf[lines[i].account] = c /\ lines[i].direction = d}
    BY <2>1 DEF LinesOn
  <2>3. \A d : LineSum(lines, A, d) = SideTotal(lines, c, d)
    BY <2>2 DEF LineSum, SideTotal, SumOver
  <2>4. Balanced(lines)
    OBVIOUS
  <2> HIDE DEF lines, A
  <2>5. LineSum(lines, A, "debit") = LineSum(lines, A, "credit")
    BY <2>3, <2>4 DEF Balanced
  <2>6. QED
    BY <2>5 DEF lines
<1> HIDE DEF A
<1>2. Mass(j, K, A, "debit") = Mass(j, K, A, "credit")
  BY <1>1, MassBalanced
<1>3. QED
  BY <1>2 DEF A

\* The accounting equation: what is owned is what is owed, invested and earned.
LEMMA Equation ==
  ASSUME NEW j, NEW K, Counted(j, K), NEW U, U \subseteq Accounts, Within(j, K, U),
         \A k \in K : Balanced(LinesAt(j, k)), NEW c \in Currencies
  PROVE  LET total(type) == Held(j, K, OfKind(U, type, c), NormalBalance(type))
         IN /\ \A type \in AccountType : total(type) \in Int
            /\ total("asset") = total("liability") + total("equity") + (total("revenue") - total("expense"))
<1> DEFINE A(type) == OfKind(U, type, c)
           M(X, d) == Mass(j, K, X, d)
<1>1. \A X, d : M(X, d) \in Nat
  BY MassByEntry
<1>2. \A X, Y, d : X \intersect Y = {} => M(X \union Y, d) = M(X, d) + M(Y, d)
  BY MassDisjoint
<1> DEFINE P2 == A("asset") \union A("liability")
           P3 == P2 \union A("equity")
           P4 == P3 \union A("revenue")
           P5 == P4 \union A("expense")
<1>3. P5 = InCurrency(U, c)
  BY ChartAssumption DEF OfKind, InCurrency, AccountType
<1>4. /\ A("asset") \intersect A("liability") = {} /\ P2 \intersect A("equity") = {}
      /\ P3 \intersect A("revenue") = {} /\ P4 \intersect A("expense") = {}
  BY DEF OfKind
<1>5. M(InCurrency(U, c), "debit") = M(InCurrency(U, c), "credit")
  BY CurrencyBalanced
<1>6. \A d : M(P5, d) = M(A("asset"), d) + M(A("liability"), d) + M(A("equity"), d)
                        + M(A("revenue"), d) + M(A("expense"), d)
  <2> HIDE DEF M, A
  <2>1. TAKE d
  <2>2. M(P2, d) = M(A("asset"), d) + M(A("liability"), d)
    BY <1>2, <1>4
  <2>3. M(P3, d) = M(P2, d) + M(A("equity"), d)
    <3> HIDE DEF P2
    <3>1. QED
      BY <1>2, <1>4
  <2>4. M(P4, d) = M(P3, d) + M(A("revenue"), d)
    <3> HIDE DEF P3
    <3>1. QED
      BY <1>2, <1>4
  <2>5. M(P5, d) = M(P4, d) + M(A("expense"), d)
    <3> HIDE DEF P4
    <3>1. QED
      BY <1>2, <1>4
  <2> HIDE DEF P2, P3, P4, P5
  <2>6. QED
    BY <1>1, <2>2, <2>3, <2>4, <2>5
<1> DEFINE total(type) == Held(j, K, A(type), NormalBalance(type))
<1>7. /\ total("asset") = M(A("asset"), "debit") - M(A("asset"), "credit")
      /\ total("expense") = M(A("expense"), "debit") - M(A("expense"), "credit")
      /\ total("liability") = M(A("liability"), "credit") - M(A("liability"), "debit")
      /\ total("equity") = M(A("equity"), "credit") - M(A("equity"), "debit")
      /\ total("revenue") = M(A("revenue"), "credit") - M(A("revenue"), "debit")
  BY DEF Held, NormalBalance, Side
<1>8. M(P5, "debit") = M(P5, "credit")
  BY <1>3, <1>5
<1>9. \A type \in AccountType : total(type) \in Int
  BY <1>1 DEF Held
<1> HIDE DEF M, A, P5
<1>10. total("asset") = total("liability") + total("equity") + (total("revenue") - total("expense"))
  <2> HIDE DEF total
  <2>1. QED
    BY <1>1, <1>6, <1>7, <1>8
<1>11. QED
  BY <1>9, <1>10 DEF A

\* The effects of an account's postings add up to its signed balance.
LEMMA EffectsAddUp ==
  ASSUME NEW j, NEW K, Counted(j, K), NEW a, NEW S, S = {p \in PostingsOf(j, K) : p.account = a}
  PROVE  SumFunction([p \in S |-> Effect(p.account, p.direction, p.amount)]) = Signed(a, TotalsOf(j, K, a))
<1> DEFINE n == NormalBalance(TypeOf[a])
           f == [p \in S |-> Effect(p.account, p.direction, p.amount)]
           g == [p \in S |-> IF p.direction = n THEN p.amount ELSE 0]
           h == [p \in S |-> IF p.direction = n THEN 0 ELSE p.amount]
           X == Of(j, K, Only(a), n)
           Y == Of(j, K, Only(a), Side(n))
           x == [p \in X |-> p.amount]
           y == [p \in Y |-> p.amount]
<1>1. Addable(X) /\ Addable(Y)
  BY MassByEntry
<1>2. ASSUME NEW p \in S
      PROVE  p.direction \in Direction /\ p.amount \in Nat
  <2>1. /\ p.entry \in K /\ p.line \in DOMAIN LinesAt(j, p.entry)
        /\ p = Posting(j[p.entry], p.entry, p.line)
    BY PostingsOfEntries DEF LinesAt
  <2>2. Lined(LinesAt(j, p.entry))
    BY <2>1 DEF Counted
  <2>3. p.direction = LinesAt(j, p.entry)[p.line].direction /\ p.amount = LinesAt(j, p.entry)[p.line].amount
    BY <2>1 DEF Posting, LinesAt
  <2>4. QED
    BY <2>1, <2>2, <2>3 DEF Lined
<1>3. n \in Direction /\ Side(n) \in Direction /\ n # Side(n) /\ \A d \in Direction : d = n \/ d = Side(n)
  BY DEF NormalBalance, Direction, Side
<1>4. X = {p \in S : p.direction = n} /\ Y = {p \in S : p.direction = Side(n)}
  BY DEF Of, Only
<1>5. IsFiniteSet(S)
  <2>1. S = X \union Y
    BY <1>2, <1>3, <1>4
  <2> HIDE DEF X, Y
  <2>2. QED
    BY <1>1, <2>1, FS_Union DEF Addable
<1>6. \A p \in S : g[p] \in Int /\ h[p] \in Int /\ f[p] = g[p] - h[p]
  <2>1. TAKE p \in S
  <2>2. g[p] = (IF p.direction = n THEN p.amount ELSE 0) /\ h[p] = (IF p.direction = n THEN 0 ELSE p.amount)
        /\ f[p] = Effect(p.account, p.direction, p.amount) /\ p.account = a
    OBVIOUS
  <2> HIDE DEF f, g, h
  <2>3. QED
    BY <1>2, <2>2 DEF Effect
<1>7. /\ X \in SUBSET S /\ \A p \in S \ X : g[p] = 0
      /\ Y \in SUBSET S /\ \A p \in S \ Y : h[p] = 0
  BY <1>2, <1>3, <1>4
<1>8. /\ \A p \in X : x[p] \in Int /\ g[p] = x[p]
      /\ \A p \in Y : y[p] \in Int /\ h[p] = y[p]
  BY <1>2, <1>3, <1>4
<1>9. DOMAIN f = S /\ DOMAIN x = X /\ DOMAIN y = Y
  OBVIOUS
<1>10. Mass(j, K, Only(a), n) = SumFunction(x) /\ Mass(j, K, Only(a), Side(n)) = SumFunction(y)
  BY DEF Mass, Amounts
<1>11. Signed(a, TotalsOf(j, K, a)) = Mass(j, K, Only(a), n) - Mass(j, K, Only(a), Side(n))
  BY DEF Signed, TotalsOf, Side, NormalBalance
<1> HIDE DEF n, f, g, h, X, Y, x, y
<1>12. SumFunctionOnSet(f, S) = SumFunctionOnSet(g, S) - SumFunctionOnSet(h, S)
  BY <1>5, <1>6, SumDifference
<1>13. SumFunctionOnSet(g, S) = SumFunctionOnSet(g, X)
  BY <1>5, <1>6, <1>7, SumNonzero
<1>14. SumFunctionOnSet(h, S) = SumFunctionOnSet(h, Y)
  BY <1>5, <1>6, <1>7, SumNonzero
<1>15. SumFunctionOnSet(x, X) = SumFunctionOnSet(g, X)
  BY <1>1, <1>8, SumSame DEF Addable
<1>16. SumFunctionOnSet(y, Y) = SumFunctionOnSet(h, Y)
  BY <1>1, <1>8, SumSame DEF Addable
<1>17. SumFunctionOnSet(f, S) = Signed(a, TotalsOf(j, K, a))
  BY <1>9, <1>10, <1>11, <1>12, <1>13, <1>14, <1>15, <1>16 DEF SumFunction
<1>18. QED
  BY <1>9, <1>17 DEF SumFunction, f

-------------------------------------------------------------------------------
(* One entry, and the journal that grows by it. *)

\* What holds of a committed entry.
Sound(e, now) ==
  /\ Lined(e.lines)
  /\ Balanced(e.lines)
  /\ \A i \in DOMAIN e.lines : e.lines[i].account \in AccountsOf(e.tenant)
  /\ e.created \in Nat /\ e.committed \in Nat /\ e.created <= e.committed /\ e.committed <= now
  /\ e.id \in Int

\* The last line of each account it touches shows what all entries up to it add up to.
LastLine(lines, a) == Max({i \in DOMAIN lines : lines[i].account = a})
EndsAt(j, k) ==
  \A a \in Touched(LinesAt(j, k)) :
    LinesAt(j, k)[LastLine(LinesAt(j, k), a)].after = Signed(a, TotalsOf(j, 1 .. k, a))

\* Stamping the rows changes neither what they add up to nor where.
LEMMA ThreadedSums ==
  ASSUME NEW rows, AreLines(rows), NEW totals, NEW lines, lines = Threaded(totals, rows)
  PROVE  /\ Lined(lines)
         /\ \A a : Delta(a, lines) = Delta(a, rows)
         /\ Balanced(rows) => Balanced(lines)
         /\ Touched(lines) = Touched(rows)
<1>1. /\ DOMAIN lines = DOMAIN rows /\ DOMAIN rows = 1 .. Len(rows) /\ Len(rows) \in Nat
      /\ \A i \in DOMAIN rows : /\ lines[i].account = rows[i].account
                                /\ lines[i].direction = rows[i].direction
                                /\ lines[i].amount = rows[i].amount
                                /\ rows[i].direction \in Direction /\ rows[i].amount \in Nat
  BY DEF Threaded, AreLines
<1>2. IsFiniteSet(1 .. Len(rows)) /\ 1 .. Len(rows) \in SUBSET Nat
  BY <1>1, PositionsFinite
<1>3. AmountOf(lines) = AmountOf(rows)
  BY <1>1 DEF AmountOf
<1>6. \A a : Delta(a, lines) = Delta(a, rows)
  <2>1. TAKE a
  <2> DEFINE at(d) == {i \in DOMAIN lines : lines[i].account = a /\ lines[i].direction = d}
             of(d) == {i \in DOMAIN rows : rows[i].account = a /\ rows[i].direction = d}
  <2>2. at("debit") = of("debit") /\ at("credit") = of("credit")
    BY <1>1
  <2>3. Delta(a, lines) = [debits |-> SumFunctionOnSet(AmountOf(lines), at("debit")),
                           credits |-> SumFunctionOnSet(AmountOf(lines), at("credit"))]
    BY DEF Delta, SumOver
  <2>4. Delta(a, rows) = [debits |-> SumFunctionOnSet(AmountOf(rows), of("debit")),
                          credits |-> SumFunctionOnSet(AmountOf(rows), of("credit"))]
    BY DEF Delta, SumOver
  <2> HIDE DEF at, of
  <2>5. QED
    BY <1>3, <2>2, <2>3, <2>4
<1>7. \A c, d : SideTotal(lines, c, d) = SideTotal(rows, c, d)
  <2>1. TAKE c, d
  <2> DEFINE at == {i \in DOMAIN lines : CurrencyOf[lines[i].account] = c /\ lines[i].direction = d}
             of == {i \in DOMAIN rows : CurrencyOf[rows[i].account] = c /\ rows[i].direction = d}
  <2>2. at = of
    BY <1>1
  <2>3. SideTotal(lines, c, d) = SumFunctionOnSet(AmountOf(lines), at)
    BY DEF SideTotal, SumOver
  <2>4. SideTotal(rows, c, d) = SumFunctionOnSet(AmountOf(rows), of)
    BY DEF SideTotal, SumOver
  <2> HIDE DEF at, of
  <2>5. QED
    BY <1>3, <2>2, <2>3, <2>4
<1>8. Lined(lines)
  BY <1>1, <1>2 DEF Lined
<1>9. Touched(lines) = Touched(rows)
  BY <1>1 DEF Touched
<1>10. Balanced(rows) => Balanced(lines)
  BY <1>7 DEF Balanced
<1>11. QED
  BY <1>6, <1>8, <1>9, <1>10

\* What is recorded of an acceptable draft.
LEMMA EntryFacts ==
  ASSUME NEW d, AreLines(d.rows), Acceptable(d), NEW totals \in [Accounts -> Totals],
         NEW id, NEW created, NEW committed, NEW e, e = Entry(id, d, totals, created, committed)
  PROVE  /\ e.id = id /\ e.tenant = d.tenant /\ e.created = created /\ e.committed = committed
         /\ Lined(e.lines) /\ Balanced(e.lines)
         /\ \A i \in DOMAIN e.lines : e.lines[i].account \in AccountsOf(e.tenant)
         /\ \A a : Delta(a, e.lines) = Delta(a, d.rows)
         /\ \A a \in Touched(e.lines) :
              /\ a \in Accounts
              /\ e.lines[LastLine(e.lines, a)].after = Signed(a, totals[a]) + Signed(a, Delta(a, d.rows))
<1> DEFINE lines == Threaded(totals, d.rows)
<1>1. /\ e.id = id /\ e.tenant = d.tenant /\ e.created = created /\ e.committed = committed
      /\ e.lines = lines
  BY DEF Entry
<1>2. /\ Lined(lines)
      /\ \A a : Delta(a, lines) = Delta(a, d.rows)
      /\ Balanced(d.rows) => Balanced(lines)
      /\ Touched(lines) = Touched(d.rows)
  <2>1. PICK rows : rows = d.rows
    OBVIOUS
  <2>2. AreLines(rows) /\ lines = Threaded(totals, rows)
    BY <2>1
  <2> HIDE DEF lines
  <2>3. QED
    BY <2>1, <2>2, ThreadedSums
<1>3. Balanced(d.rows) /\ Touched(d.rows) \subseteq AccountsOf(d.tenant)
  BY DEF Acceptable
<1>4. \A i \in DOMAIN lines : lines[i].account \in AccountsOf(d.tenant)
  BY <1>2, <1>3 DEF Touched
<1>5. ASSUME NEW a \in Touched(d.rows)
      PROVE  /\ a \in Accounts
             /\ lines[LastLine(lines, a)].after = Signed(a, totals[a]) + Signed(a, Delta(a, d.rows))
  <2>1. a \in Accounts
    BY <1>3 DEF AccountsOf
  <2>2. QED
    BY <2>1, ThreadedEnds DEF LastLine
<1> HIDE DEF lines
<1>6. QED
  BY <1>1, <1>2, <1>3, <1>4, <1>5

\* The first n entries of j and the first n + 1 of g, whose last records a draft over
\* the totals of the others.
LEMMA GrowsByEntry ==
  ASSUME NEW j, NEW n \in Nat, Counted(j, 1 .. n), NEW g, \A k \in 1 .. n : g[k] = j[k],
         NEW d, AreLines(d.rows), Acceptable(d), NEW totals \in [Accounts -> Totals],
         \A a \in Accounts : totals[a] = TotalsOf(j, 1 .. n, a),
         NEW id, NEW created, NEW committed, g[n + 1] = Entry(id, d, totals, created, committed)
  PROVE  /\ Counted(g, 1 .. (n + 1))
         /\ \A a \in Accounts : Moved(totals, d.rows)[a] = TotalsOf(g, 1 .. (n + 1), a)
         /\ EndsAt(g, n + 1)
<1> DEFINE K == 1 .. n
           L == 1 .. (n + 1)
           lines == LinesAt(g, n + 1)
<1>1. OneMore(L, K, n + 1)
  BY DEF OneMore
<1>2. /\ Lined(lines)
      /\ \A a : Delta(a, lines) = Delta(a, d.rows)
      /\ \A a \in Touched(lines) :
           /\ a \in Accounts
           /\ lines[LastLine(lines, a)].after = Signed(a, totals[a]) + Signed(a, Delta(a, d.rows))
  <2>1. PICK e : e = Entry(id, d, totals, created, committed)
    OBVIOUS
  <2>2. e.lines = lines
    BY <2>1 DEF LinesAt
  <2>3. /\ Lined(e.lines)
        /\ \A a : Delta(a, e.lines) = Delta(a, d.rows)
        /\ \A a \in Touched(e.lines) :
             /\ a \in Accounts
             /\ e.lines[LastLine(e.lines, a)].after = Signed(a, totals[a]) + Signed(a, Delta(a, d.rows))
    BY <2>1, EntryFacts
  <2> HIDE DEF lines
  <2>4. QED
    BY <2>2, <2>3
<1>3. Counted(g, K) /\ \A a : TotalsOf(g, K, a) = TotalsOf(j, K, a)
  <2>1. \A k \in K : LinesAt(g, k) = LinesAt(j, k)
    BY DEF LinesAt
  <2>2. Counted(g, K)
    BY <2>1 DEF Counted
  <2>3. \A a : TotalsOf(g, K, a) = TotalsOf(j, K, a)
    <3> HIDE DEF K
    <3>1. \A k \in K : g[k] = j[k]
      BY DEF K
    <3>2. QED
      BY <3>1, TotalsSame
  <2>4. QED
    BY <2>2, <2>3
<1>4. Counted(g, L)
  <2>1. IsFiniteSet(L)
    <3>1. n + 1 \in Nat
      OBVIOUS
    <3>2. QED
      BY <3>1, PositionsFinite
  <2>2. \A k \in L : k \in K \/ k = n + 1
    OBVIOUS
  <2> HIDE DEF K, L
  <2>3. QED
    BY <1>2, <1>3, <2>1, <2>2 DEF Counted, lines
<1> HIDE DEF K, L
<1>5. ASSUME NEW a
      PROVE  /\ TotalsOf(g, L, a) = [debits |-> TotalsOf(j, K, a).debits + Delta(a, d.rows).debits,
                                     credits |-> TotalsOf(j, K, a).credits + Delta(a, d.rows).credits]
             /\ Signed(a, TotalsOf(g, L, a)) = Signed(a, TotalsOf(j, K, a)) + Signed(a, Delta(a, d.rows))
  <2> DEFINE m == n + 1
  <2> HIDE DEF m
  <2>1. OneMore(L, K, m)
    BY <1>1 DEF m
  <2>2. /\ TotalsOf(g, L, a) = [debits |-> TotalsOf(g, K, a).debits + Delta(a, LinesAt(g, m)).debits,
                                credits |-> TotalsOf(g, K, a).credits + Delta(a, LinesAt(g, m)).credits]
        /\ Signed(a, TotalsOf(g, L, a)) = Signed(a, TotalsOf(g, K, a)) + Signed(a, Delta(a, LinesAt(g, m)))
    BY <1>3, <1>4, <2>1, TotalsGrow
  <2>3. Delta(a, LinesAt(g, m)) = Delta(a, d.rows) /\ TotalsOf(g, K, a) = TotalsOf(j, K, a)
    BY <1>2, <1>3 DEF m
  <2>4. QED
    BY <2>2, <2>3
<1>6. \A a \in Accounts : Moved(totals, d.rows)[a] = TotalsOf(g, L, a)
  <2>1. TAKE a \in Accounts
  <2>2. Moved(totals, d.rows)[a] = [debits |-> totals[a].debits + Delta(a, d.rows).debits,
                                    credits |-> totals[a].credits + Delta(a, d.rows).credits]
    BY DEF Moved
  <2>3. QED
    BY <1>5, <2>2 DEF K
<1>7. EndsAt(g, n + 1)
  <2>1. SUFFICES ASSUME NEW a \in Touched(lines)
                 PROVE  lines[LastLine(lines, a)].after = Signed(a, TotalsOf(g, L, a))
    BY DEF EndsAt, L
  <2>2. totals[a] = TotalsOf(j, K, a)
    BY <1>2 DEF K
  <2> HIDE DEF lines
  <2>3. QED
    BY <1>2, <1>5, <2>2
<1>8. QED
  BY <1>4, <1>6, <1>7 DEF L

\* The entries recorded before the behaviour starts, and the balances after them.
LEMMA OpeningFacts ==
  ASSUME Init
  PROVE  /\ Counted(journal, 1 .. Len(Opening))
         /\ \A k \in 1 .. Len(Opening) : Sound(journal[k], 0) /\ EndsAt(journal, k)
         /\ balance \in [Accounts -> Totals]
         /\ \A a \in Accounts : balance[a] = TotalsOf(journal, 1 .. Len(Opening), a)
<1> DEFINE N == Len(Opening)
           Good(n) == /\ OpeningBalance[n] \in [Accounts -> Totals]
                      /\ Counted(journal, 1 .. n)
                      /\ \A a \in Accounts : OpeningBalance[n][a] = TotalsOf(journal, 1 .. n, a)
                      /\ n # 0 => Sound(journal[n], 0) /\ EndsAt(journal, n)
           B == {n \in 0 .. N : ~Good(n)}
<1>0. N \in Nat
  BY JournalAssumption
<1>1. BalanceTable(Opening, OpeningBalance, N)
  <2>1. OpeningBalance = CHOOSE g : BalanceTable(Opening, g, N)
    BY DEF OpeningBalance, BalanceTable
  <2>2. QED
    BY <1>0, <2>1, BalanceTableExists
<1>2. ASSUME B # {} PROVE FALSE
  <2> HIDE DEF N, Good
  <2>1. B \in SUBSET Nat /\ IsFiniteSet(B)
    <3>1. B \in SUBSET (0 .. N)
      OBVIOUS
    <3> HIDE DEF B
    <3>2. 0 .. N \in SUBSET Nat /\ IsFiniteSet(0 .. N)
      BY <1>0, FS_Interval
    <3>3. QED
      BY <3>1, <3>2, FS_Subset
  <2>2. PICK n \in B : \A m \in B : n <= m
    BY <1>2, <2>1, LeastExists
  <2>3. n \in 0 .. N /\ ~Good(n)
    BY <2>2
  <2>4. CASE n = 0
    <3>1. OpeningBalance[0] = [a \in Accounts |-> ZeroTotals]
      BY <1>0, <1>1 DEF BalanceTable
    <3>2. 1 .. 0 = {}
      OBVIOUS
    <3>3. Counted(journal, {}) /\ \A a : TotalsOf(journal, {}, a) = ZeroTotals
      BY FS_EmptySet, TotalsEmpty DEF Counted
    <3>4. Good(0)
      BY <3>1, <3>2, <3>3 DEF Good, ZeroTotals, Totals
    <3>5. QED
      BY <2>3, <2>4, <3>4
  <2>5. CASE n # 0
    <3>1. n - 1 \in Nat /\ n - 1 \in 0 .. N /\ n \in 1 .. N /\ n - 1 \notin B
      BY <1>0, <2>2, <2>3, <2>5
    <3>2. Good(n - 1)
      BY <3>1
    <3>3. AreLines(Opening[n].rows) /\ Acceptable(Opening[n])
      BY <3>1, JournalAssumption, OpeningAssumption DEF N
    <3>4. OpeningBalance[n] = Moved(OpeningBalance[n - 1], Opening[n].rows)
      BY <1>1, <2>3, <2>5 DEF BalanceTable
    <3>5. journal[n] = Entry(-n, Opening[n], OpeningBalance[n - 1], 0, 0)
      BY <3>1 DEF Init, N
    <3>6. OpeningBalance[n] \in [Accounts -> Totals]
      BY <3>2, <3>3, <3>4, MovedFacts DEF Good
    <3>7. PICK m \in Nat : m = n - 1 /\ n = m + 1
      BY <3>1
    <3>8. PICK d : d = Opening[n]
      OBVIOUS
    <3>9. PICK totals \in [Accounts -> Totals] : totals = OpeningBalance[n - 1]
      BY <3>2 DEF Good
    <3>10. /\ Counted(journal, 1 .. (m + 1))
           /\ \A a \in Accounts : Moved(totals, d.rows)[a] = TotalsOf(journal, 1 .. (m + 1), a)
           /\ EndsAt(journal, m + 1)
      <4>1. /\ Counted(journal, 1 .. m) /\ AreLines(d.rows) /\ Acceptable(d)
            /\ \A a \in Accounts : totals[a] = TotalsOf(journal, 1 .. m, a)
            /\ journal[m + 1] = Entry(-n, d, totals, 0, 0)
        BY <3>2, <3>3, <3>5, <3>7, <3>8, <3>9 DEF Good
      <4>2. \A k \in 1 .. m : journal[k] = journal[k]
        OBVIOUS
      <4>3. QED
        BY <4>1, <4>2, GrowsByEntry
    <3>11. Sound(journal[n], 0)
      <4>1. PICK e : e = Entry(-n, d, totals, 0, 0)
        OBVIOUS
      <4>2. /\ e.id = -n /\ e.tenant = d.tenant /\ e.created = 0 /\ e.committed = 0
            /\ Lined(e.lines) /\ Balanced(e.lines)
            /\ \A i \in DOMAIN e.lines : e.lines[i].account \in AccountsOf(e.tenant)
        BY <3>3, <3>8, <4>1, EntryFacts
      <4>3. journal[n] = e
        BY <3>5, <3>8, <3>9, <4>1
      <4>4. QED
        BY <3>1, <4>2, <4>3 DEF Sound
    <3>12. Good(n)
      BY <3>4, <3>6, <3>7, <3>8, <3>9, <3>10, <3>11 DEF Good
    <3>13. QED
      BY <2>3, <3>12
  <2>6. QED
    BY <2>4, <2>5
<1>3. \A n \in 0 .. N : Good(n)
  BY <1>2
<1>4. \A k \in 1 .. N : Sound(journal[k], 0) /\ EndsAt(journal, k)
  BY <1>0, <1>3
<1>5. Good(N) /\ balance = OpeningBalance[N]
  <2>1. balance = OpeningBalance[N]
    BY DEF Init
  <2>2. N \in 0 .. N
    BY <1>0
  <2> HIDE DEF Good, N
  <2>3. QED
    BY <1>3, <2>1, <2>2
<1>6. QED
  BY <1>4, <1>5

-------------------------------------------------------------------------------
(* The ledger: what holds of it whatever is read. *)

LedgerTyping ==
  /\ \E S : journal \in Seq(S)
  /\ clock \in Nat
  /\ balance \in [Accounts -> Totals]
  /\ DOMAIN active = Accounts
  /\ DOMAIN pc = Posts /\ DOMAIN began = Posts /\ DOMAIN draft = Posts

\* A call that is open posts what it validated, and began in the past.
Drafted ==
  \A w \in Posts : pc[w] = "open" =>
    AreLines(draft[w].rows) /\ Acceptable(draft[w]) /\ began[w] \in 0 .. clock

\* Every entry is balanced and its tenant's, was committed after it began, and shows
\* on each account what the entries up to it add up to.
Recordings ==
  \A k \in 1 .. Len(journal) : Sound(journal[k], clock) /\ EndsAt(journal, k)

\* An id names one entry, and an entry of a call is one of a call that is done.
IdsDiffer ==
  /\ \A k \in 1 .. Len(journal) : journal[k].id \in Posts => pc[journal[k].id] = "done"
  /\ \A k, m \in 1 .. Len(journal) : k # m => journal[k].id # journal[m].id

\* The stored balances are what the entries add up to.
Booked == \A a \in Accounts : balance[a] = TotalsOf(journal, 1 .. Len(journal), a)

Ledger == LedgerTyping /\ Drafted /\ Recordings /\ IdsDiffer /\ Booked

\* The journal's positions, and its entries' lines.
LEMMA JournalFacts ==
  ASSUME LedgerTyping, Recordings
  PROVE  /\ Len(journal) \in Nat /\ DOMAIN journal = 1 .. Len(journal)
         /\ IsFiniteSet(DOMAIN journal)
         /\ \A K : K \subseteq DOMAIN journal => Counted(journal, K)
<1>1. Len(journal) \in Nat /\ DOMAIN journal = 1 .. Len(journal)
  BY LenProperties DEF LedgerTyping
<1>2. IsFiniteSet(DOMAIN journal)
  BY <1>1, PositionsFinite
<1>3. ASSUME NEW K, K \subseteq DOMAIN journal
      PROVE  Counted(journal, K)
  <2>1. IsFiniteSet(K)
    BY <1>2, <1>3, FS_Subset
  <2>2. \A k \in K : Lined(LinesAt(journal, k))
    BY <1>1, <1>3 DEF Recordings, Sound, LinesAt
  <2>3. QED
    BY <2>1, <2>2 DEF Counted
<1>4. QED
  BY <1>1, <1>2, <1>3

\* Entries once committed stay as they are.
Grown == \A k \in 1 .. Len(journal) : k \in 1 .. Len(journal') /\ journal'[k] = journal[k]

\* Call w commits.
Enters(w) ==
  /\ pc[w] = "open"
  /\ journal' = Append(journal, Entry(w, draft[w], balance, began[w], clock))
  /\ balance' = Moved(balance, draft[w].rows)
  /\ pc' = [pc EXCEPT ![w] = "done"]
  /\ UNCHANGED <<clock, active, began, draft, reader>>

\* The reader only reads.
LEMMA ReadsOnly ==
  ASSUME Ask \/ Read
  PROVE  UNCHANGED ledgerVars
<1>1. CASE Ask
  BY <1>1 DEF Ask
<1>2. ASSUME NEW op, NEW n, NEW r, Select(op, n, r)
      PROVE  UNCHANGED ledgerVars
  BY <1>2 DEF Select
<1>3. CASE ReadIncome \/ ReadSheetBalances \/ ReadSheetIncome \/ ReadTrial \/ ReadPostings \/ ReadStored
  BY <1>2, <1>3 DEF ReadIncome, ReadSheetBalances, ReadSheetIncome, ReadTrial, ReadPostings, ReadStored
<1>4. CASE MissAccount \/ ReadBalance \/ ReadStatement \/ ReadEvents \/ ReadAppClock
  BY <1>2, <1>4 DEF MissAccount, ReadBalance, ReadStatement, ReadEvents, ReadAppClock
<1>5. CASE ListAccounts \/ ReadOneBalance \/ CountMatches \/ ReadPage \/ ReadListPage
  BY <1>2, <1>5 DEF ListAccounts, ReadOneBalance, CountMatches, ReadPage, ReadListPage
<1>6. QED
  BY <1>1, <1>3, <1>4, <1>5 DEF Read

\* A step commits an entry or leaves the journal and the balances alone.
LEMMA StepKinds ==
  ASSUME Ledger, [Next]_vars
  PROVE  \/ \E w \in Posts : Enters(w)
         \/ /\ UNCHANGED <<journal, balance>>
            /\ clock' \in Nat /\ clock' >= clock
            /\ DOMAIN active' = Accounts /\ \A a \in Accounts : active'[a] => active[a]
            /\ DOMAIN pc' = Posts /\ DOMAIN began' = Posts /\ DOMAIN draft' = Posts
            /\ \A w \in Posts : pc[w] = "done" => pc'[w] = "done"
            /\ \A w \in Posts : pc'[w] = "open" =>
                 \/ pc[w] = "open" /\ draft'[w] = draft[w] /\ began'[w] = began[w]
                 \/ AreLines(draft'[w].rows) /\ Acceptable(draft'[w]) /\ began'[w] = clock /\ clock' = clock
            /\ \/ UNCHANGED reader
               \/ (Ask \/ Read) /\ UNCHANGED ledgerVars
<1> USE DEF Ledger, LedgerTyping
<1>1. CASE Ask \/ Read
  BY <1>1, ReadsOnly DEF ledgerVars, database, calls
<1>2. CASE UNCHANGED vars
  BY <1>2 DEF vars, ledgerVars, database, calls
<1>3. CASE Tick /\ UNCHANGED reader
  BY <1>3 DEF Tick, calls
<1>4. ASSUME NEW w \in Posts, NEW d \in Drafts, Begin(w, d), UNCHANGED reader
      PROVE  /\ UNCHANGED <<journal, balance, clock, active>>
             /\ DOMAIN pc' = Posts /\ DOMAIN began' = Posts /\ DOMAIN draft' = Posts
             /\ \A v \in Posts : pc[v] = "done" => pc'[v] = "done"
             /\ \A v \in Posts : pc'[v] = "open" =>
                  \/ pc[v] = "open" /\ draft'[v] = draft[v] /\ began'[v] = began[v]
                  \/ AreLines(draft'[v].rows) /\ Acceptable(draft'[v]) /\ began'[v] = clock
  <2>1. /\ UNCHANGED <<journal, balance, clock, active>>
        /\ pc[w] = "idle"
        /\ began' = [began EXCEPT ![w] = clock] /\ draft' = [draft EXCEPT ![w] = d]
    BY <1>4 DEF Begin, database
  <2>2. \/ Acceptable(d) /\ pc' = [pc EXCEPT ![w] = "open"]
        \/ pc' = [pc EXCEPT ![w] = "done"]
    BY <1>4 DEF Begin, Answered
  <2>3. AreLines(d.rows)
    BY QuestionAssumption
  <2>4. draft'[w] = d /\ began'[w] = clock
    BY <2>1
  <2>5. \A v \in Posts : v # w => pc'[v] = pc[v] /\ draft'[v] = draft[v] /\ began'[v] = began[v]
    BY <2>1, <2>2
  <2>6. pc'[w] = "open" => Acceptable(d)
    BY <2>2
  <2>7. DOMAIN pc' = Posts /\ DOMAIN began' = Posts /\ DOMAIN draft' = Posts
    BY <2>1, <2>2
  <2>8. QED
    BY <2>1, <2>3, <2>4, <2>5, <2>6, <2>7
<1>5. ASSUME NEW w \in Posts, Commit(w), UNCHANGED reader
      PROVE  \/ Enters(w)
             \/ /\ UNCHANGED <<journal, balance, clock, active, began, draft>>
                /\ pc' = [pc EXCEPT ![w] = "done"]
  BY <1>5 DEF Commit, Enters, Answered
<1>6. ASSUME NEW w \in Posts, RollBack(w)
      PROVE  /\ UNCHANGED <<journal, balance, clock, active, began, draft>>
             /\ pc' = [pc EXCEPT ![w] = "done"]
  BY <1>6 DEF RollBack, Answered, database
<1>7. ASSUME NEW a \in Accounts, Deactivate(a)
      PROVE  /\ UNCHANGED <<journal, balance, clock, pc, began, draft>>
             /\ active' = [active EXCEPT ![a] = FALSE]
  BY <1>7 DEF Deactivate, calls
<1>8. CASE Write /\ UNCHANGED reader
  <2>1. CASE Tick
    BY <1>3, <1>8, <2>1
  <2>2. CASE \E w \in Posts : \E d \in Drafts : Begin(w, d)
    <3>1. PICK w \in Posts, d \in Drafts : Begin(w, d)
      BY <2>2
    <3>2. QED
      BY <1>4, <1>8, <3>1
  <2>3. CASE \E w \in Posts : Commit(w)
    <3>1. PICK w \in Posts : Commit(w)
      BY <2>3
    <3>2. QED
      BY <1>5, <1>8, <3>1
  <2>4. CASE \E w \in Posts : RollBack(w)
    <3>1. PICK w \in Posts : RollBack(w)
      BY <2>4
    <3>2. QED
      BY <1>6, <1>8, <3>1
  <2>5. CASE \E a \in Accounts : Deactivate(a)
    <3>1. PICK a \in Accounts : Deactivate(a)
      BY <2>5
    <3>2. QED
      BY <1>7, <1>8, <3>1
  <2>6. QED
    BY <1>8, <2>1, <2>2, <2>3, <2>4, <2>5 DEF Write, Proceed
<1>9. QED
  BY <1>1, <1>2, <1>8 DEF Next

\* What a commit does.
LEMMA CommitFacts ==
  ASSUME Ledger, NEW w \in Posts, Enters(w)
  PROVE  /\ Grown
         /\ Len(journal) \in Nat /\ Len(journal') = Len(journal) + 1
         /\ DOMAIN journal' = 1 .. (Len(journal) + 1)
         /\ journal'[Len(journal) + 1] = Entry(w, draft[w], balance, began[w], clock)
         /\ \E S : journal' \in Seq(S)
<1>1. PICK S : journal \in Seq(S)
  BY DEF Ledger, LedgerTyping
<1>2. PICK e : e = Entry(w, draft[w], balance, began[w], clock)
  OBVIOUS
<1>3. journal' = Append(journal, e)
  BY <1>2 DEF Enters
<1>4. /\ \E T : journal' \in Seq(T)
      /\ Len(journal) \in Nat /\ DOMAIN journal = 1 .. Len(journal)
      /\ Len(journal') = Len(journal) + 1
      /\ DOMAIN journal' = DOMAIN journal \union {Len(journal) + 1}
      /\ \A k \in DOMAIN journal : journal'[k] = journal[k] /\ k # Len(journal) + 1
      /\ journal'[Len(journal) + 1] = e
  <2>1. OneLonger(journal, Append(journal, e), e)
    BY <1>1, AppendGrows
  <2>2. OneLonger(journal, journal', e)
    BY <1>3, <2>1
  <2>3. QED
    BY <2>2 DEF OneLonger
<1>5. QED
  BY <1>2, <1>4 DEF Grown

\* Nothing is ever taken back.
LEMMA StepGrows ==
  ASSUME Ledger, [Next]_vars
  PROVE  Grown /\ Len(journal) \in Nat /\ Len(journal') \in Nat /\ Len(journal) <= Len(journal')
<1>1. CASE \E w \in Posts : Enters(w)
  BY <1>1, CommitFacts
<1>2. CASE UNCHANGED journal
  BY <1>2, JournalFacts DEF Grown, Ledger
<1>3. QED
  BY <1>1, <1>2, StepKinds

\* A commit keeps what holds of the ledger.
LEMMA CommitLedger ==
  ASSUME Ledger, NEW w \in Posts, Enters(w)
  PROVE  Ledger'
<1> DEFINE n == Len(journal)
           d == draft[w]
           e == Entry(w, d, balance, began[w], clock)
<1>1. /\ Grown /\ n \in Nat /\ Len(journal') = n + 1 /\ journal'[n + 1] = e
      /\ \E S : journal' \in Seq(S)
  BY CommitFacts
<1>2. /\ AreLines(d.rows) /\ Acceptable(d) /\ began[w] \in 0 .. clock /\ clock \in Nat
      /\ balance \in [Accounts -> Totals]
  BY DEF Ledger, LedgerTyping, Drafted, Enters
<1>3. \A k \in 1 .. n : journal'[k] = journal[k]
  BY <1>1 DEF Grown
<1>4. /\ balance' = Moved(balance, d.rows) /\ balance' \in [Accounts -> Totals]
      /\ pc' = [pc EXCEPT ![w] = "done"] /\ UNCHANGED <<clock, active, began, draft>>
  BY <1>2, MovedFacts DEF Enters
<1>5. /\ Counted(journal', 1 .. (n + 1))
      /\ \A a \in Accounts : balance'[a] = TotalsOf(journal', 1 .. (n + 1), a)
      /\ EndsAt(journal', n + 1)
  <2>1. PICK draftOf : draftOf = d
    OBVIOUS
  <2>2. PICK g : g = journal'
    OBVIOUS
  <2>3. PICK m \in Nat : m = n
    BY <1>1
  <2>4. Counted(journal, 1 .. m)
    BY <2>3, JournalFacts DEF Ledger
  <2>5. \A a \in Accounts : balance[a] = TotalsOf(journal, 1 .. m, a)
    BY <2>3 DEF Ledger, Booked
  <2>6. /\ \A k \in 1 .. m : g[k] = journal[k]
        /\ g[m + 1] = Entry(w, draftOf, balance, began[w], clock)
        /\ AreLines(draftOf.rows) /\ Acceptable(draftOf)
    BY <1>1, <1>2, <1>3, <2>1, <2>2, <2>3
  <2>7. /\ Counted(g, 1 .. (m + 1))
        /\ \A a \in Accounts : Moved(balance, draftOf.rows)[a] = TotalsOf(g, 1 .. (m + 1), a)
        /\ EndsAt(g, m + 1)
    BY <1>2, <2>4, <2>5, <2>6, GrowsByEntry
  <2>8. QED
    BY <1>4, <2>1, <2>2, <2>3, <2>7
<1>6. Sound(e, clock) /\ e.id = w
  <2>1. PICK draftOf : draftOf = d
    OBVIOUS
  <2>2. PICK x : x = Entry(w, draftOf, balance, began[w], clock)
    OBVIOUS
  <2>3. /\ x.id = w /\ x.tenant = draftOf.tenant /\ x.created = began[w] /\ x.committed = clock
        /\ Lined(x.lines) /\ Balanced(x.lines)
        /\ \A i \in DOMAIN x.lines : x.lines[i].account \in AccountsOf(x.tenant)
    BY <1>2, <2>1, <2>2, EntryFacts
  <2>4. w \in Int
    BY JournalAssumption
  <2>5. x = e
    BY <2>1, <2>2
  <2> HIDE DEF e
  <2>6. QED
    BY <1>2, <2>3, <2>4, <2>5 DEF Sound
<1>7. \A k \in 1 .. n : EndsAt(journal, k) => EndsAt(journal', k)
  <2>1. TAKE k \in 1 .. n
  <2>2. LinesAt(journal', k) = LinesAt(journal, k)
    BY <1>3 DEF LinesAt
  <2>3. PICK K : K = 1 .. k
    OBVIOUS
  <2>4. PICK g : g = journal'
    OBVIOUS
  <2>5. \A m \in K : g[m] = journal[m]
    BY <1>1, <1>3, <2>3, <2>4
  <2>6. \A a : TotalsOf(g, K, a) = TotalsOf(journal, K, a)
    BY <2>5, TotalsSame
  <2>7. \A a : TotalsOf(journal', 1 .. k, a) = TotalsOf(journal, 1 .. k, a)
    BY <2>3, <2>4, <2>6
  <2>8. QED
    BY <2>2, <2>7 DEF EndsAt
<1> HIDE DEF n, d, e
<1>8. LedgerTyping'
  BY <1>1, <1>4 DEF Ledger, LedgerTyping
<1>9. Drafted'
  <2>1. \A v \in Posts : pc'[v] = "open" => pc[v] = "open"
    BY <1>4 DEF Ledger, LedgerTyping
  <2>2. \A v \in Posts : pc'[v] = "open" =>
          AreLines(draft'[v].rows) /\ Acceptable(draft'[v]) /\ began'[v] \in 0 .. clock'
    BY <1>4, <2>1 DEF Ledger, Drafted
  <2>3. QED
    BY <2>2 DEF Drafted, Acceptable
<1>10. Recordings'
  <2>1. ASSUME NEW k \in 1 .. (n + 1)
        PROVE  Sound(journal'[k], clock) /\ EndsAt(journal', k)
    <3>1. CASE k = n + 1
      BY <1>1, <1>5, <1>6, <3>1
    <3>2. CASE k # n + 1
      <4>1. k \in 1 .. n
        BY <1>1, <3>2
      <4>2. Sound(journal[k], clock) /\ EndsAt(journal, k)
        BY <4>1 DEF n, Ledger, Recordings
      <4>3. QED
        BY <1>3, <1>7, <4>1, <4>2
    <3>3. QED
      BY <3>1, <3>2
  <2>2. QED
    BY <1>1, <1>4, <2>1 DEF Recordings
<1>11. IdsDiffer'
  <2>1. \A k \in 1 .. n : journal[k].id # w
    BY DEF n, Ledger, IdsDiffer, Enters
  <2>2. \A k \in 1 .. (n + 1) : k \in 1 .. n \/ k = n + 1
    BY <1>1
  <2>3. journal'[n + 1].id = w
    BY <1>1, <1>6
  <2>4. \A k, m \in 1 .. n : k # m => journal[k].id # journal[m].id
    BY DEF n, Ledger, IdsDiffer
  <2>5. \A k, m \in 1 .. (n + 1) : k # m => journal'[k].id # journal'[m].id
    BY <1>3, <2>1, <2>2, <2>3, <2>4
  <2>6. \A v \in Posts : pc[v] = "done" \/ v = w => pc'[v] = "done"
    BY <1>4 DEF Ledger, LedgerTyping
  <2>7. \A k \in 1 .. n : journal[k].id \in Posts => pc[journal[k].id] = "done"
    BY DEF n, Ledger, IdsDiffer
  <2>8. \A k \in 1 .. (n + 1) : journal'[k].id \in Posts => pc'[journal'[k].id] = "done"
    BY <1>3, <2>2, <2>3, <2>6, <2>7
  <2>9. QED
    BY <1>1, <2>5, <2>8 DEF IdsDiffer
<1>12. Booked'
  BY <1>1, <1>5 DEF Booked
<1>13. QED
  BY <1>8, <1>9, <1>10, <1>11, <1>12 DEF Ledger

\* It holds at the start.
LEMMA InitLedger == Init => Ledger
<1> SUFFICES ASSUME Init PROVE Ledger
  OBVIOUS
<1> DEFINE N == Len(Opening)
<1>1. N \in Nat
  BY JournalAssumption
<1>2. journal = [n \in 1 .. N |-> Entry(-n, Opening[n], OpeningBalance[n - 1], 0, 0)] /\ clock = 0
  BY DEF Init
<1>3. \E S : journal \in Seq(S)
  <2>1. journal \in Seq({journal[n] : n \in 1 .. N})
    BY <1>1, <1>2, SeqDef
  <2>2. QED
    BY <2>1
<1>4. Len(journal) = N
  BY <1>1, <1>2, <1>3, LenProperties
<1>5. /\ \A k \in 1 .. N : Sound(journal[k], 0) /\ EndsAt(journal, k)
      /\ balance \in [Accounts -> Totals]
      /\ \A a \in Accounts : balance[a] = TotalsOf(journal, 1 .. N, a)
  BY OpeningFacts
<1>6. \A n \in 1 .. N : journal[n].id = -n
  BY <1>2 DEF Entry
<1> HIDE DEF N
<1>7. LedgerTyping
  <2>1. DOMAIN active = Accounts /\ DOMAIN pc = Posts /\ DOMAIN began = Posts /\ DOMAIN draft = Posts
    BY DEF Init
  <2>2. clock \in Nat
    BY <1>2
  <2>3. QED
    BY <1>3, <1>5, <2>1, <2>2 DEF LedgerTyping
<1>8. Drafted
  BY DEF Drafted, Init
<1>9. Recordings
  BY <1>2, <1>4, <1>5 DEF Recordings
<1>10. IdsDiffer
  <2>1. \A n \in 1 .. N : journal[n].id \notin Posts
    BY <1>1, <1>6, JournalAssumption
  <2>2. \A k, m \in 1 .. N : k # m => journal[k].id # journal[m].id
    BY <1>1, <1>6
  <2>3. QED
    BY <1>4, <2>1, <2>2 DEF IdsDiffer
<1>11. Booked
  BY <1>4, <1>5 DEF Booked
<1>12. QED
  BY <1>7, <1>8, <1>9, <1>10, <1>11 DEF Ledger

\* Every step keeps it.
LEMMA NextLedger ==
  ASSUME Ledger, [Next]_vars
  PROVE  Ledger'
<1>1. CASE \E w \in Posts : Enters(w)
  BY <1>1, CommitLedger
<1>2. ASSUME UNCHANGED <<journal, balance>>,
             clock' \in Nat, clock' >= clock, DOMAIN active' = Accounts,
             DOMAIN pc' = Posts, DOMAIN began' = Posts, DOMAIN draft' = Posts,
             \A w \in Posts : pc[w] = "done" => pc'[w] = "done",
             \A w \in Posts : pc'[w] = "open" =>
                 \/ pc[w] = "open" /\ draft'[w] = draft[w] /\ began'[w] = began[w]
                 \/ AreLines(draft'[w].rows) /\ Acceptable(draft'[w]) /\ began'[w] = clock /\ clock' = clock
      PROVE  Ledger'
  <2>1. LedgerTyping'
    BY <1>2 DEF Ledger, LedgerTyping
  <2>2. \A w \in Posts : pc'[w] = "open" =>
          AreLines(draft'[w].rows) /\ Acceptable(draft'[w]) /\ began'[w] \in 0 .. clock'
    BY <1>2 DEF Ledger, LedgerTyping, Drafted
  <2>3. Drafted'
    BY <2>2 DEF Drafted, Acceptable
  <2>4. Recordings'
    <3>1. \A k \in 1 .. Len(journal) : Sound(journal[k], clock')
      BY <1>2 DEF Ledger, LedgerTyping, Recordings, Sound
    <3>2. QED
      BY <1>2, <3>1 DEF Ledger, Recordings
  <2>5. IdsDiffer'
    BY <1>2 DEF Ledger, IdsDiffer
  <2>6. Booked'
    BY <1>2 DEF Ledger, Booked
  <2>7. QED
    BY <2>1, <2>3, <2>4, <2>5, <2>6 DEF Ledger
<1>3. QED
  BY <1>1, <1>2, StepKinds

-------------------------------------------------------------------------------
(* What a SELECT that ran when n entries were committed has to return: an      *)
(* operator on the journal j, which has only grown since.                      *)

Agree(j, g, n) == \A k \in 1 .. n : g[k] = j[k]

\* The entries of a tenant among the first n, and those of them up to an instant.
Seen(j, n, t) == {k \in 1 .. n : j[k].tenant = t}
SeenBy(j, n, t, at) == {k \in Seen(j, n, t) : j[k].created <= at}

\* The stored balances of a tenant.
Stored(j, n, t) == [a \in AccountsOf(t) |-> TotalsOf(j, 1 .. n, a)]

\* The postings of one account.
OnAccount(j, n, t, a) == {p \in PostingsOf(j, Seen(j, n, t)) : p.account = a}

Owned(q) == q.account \in AccountsOf(q.tenant)

\* The entries before entry k in the order of a page, and how many they are.
NewerOf(j, K, k) ==
  {m \in K : \/ j[m].created > j[k].created
             \/ j[m].created = j[k].created /\ j[m].id < j[k].id}
Rank(j, K, k) == Cardinality(NewerOf(j, K, k))

\* The page r from an offset has the ids of the entries whose rank falls in it.
Shows(j, K, r, offset, limit) ==
  \A k \in K : offset <= Rank(j, K, k) /\ Rank(j, K, k) < offset + limit =>
    \E x \in DOMAIN r : r[x] = j[k].id

\* The entries a search is about.
Satisfies(q, line) ==
  /\ q.account # NoBound => line.account = q.account
  /\ q.currency \in {AnyCurrency, CurrencyOf[line.account]}
  /\ q.least # NoBound => line.amount >= q.least
MatchesOf(j, n, q) ==
  {k \in Seen(j, n, q.tenant) :
     /\ InRange(Start(q.start), EndExclusive(q.end), j[k].created)
     /\ \E i \in DOMAIN j[k].lines : Satisfies(q, j[k].lines[i])}

DatesDiffer(j, K) == \A k, m \in K : k # m => j[k].created # j[m].created

SheetAnswer(j, q, i, n, r) ==
  /\ i = 1 => r = ActivityOf(j, SeenBy(j, n, q.tenant, AsOf(q.at)), BalanceTypes, q.currency)
  /\ i = 2 => r = ActivityOf(j, SeenBy(j, n, q.tenant, AsOf(q.at)), IncomeTypes, q.currency)

TrialAnswer(j, q, i, n, r) == i = 1 => r = Stored(j, n, q.tenant)

IntegrityAnswer(j, q, i, n, r) ==
  /\ i = 1 => r = ByAccount(PostingsOf(j, Seen(j, n, q.tenant)))
  /\ i = 2 => r = Stored(j, n, q.tenant)

HistoryAnswer(j, q, i, n, r) ==
  /\ i = 1 /\ Owned(q) => r = OnAccount(j, n, q.tenant, q.account)
  /\ i = 2 => Owned(q) /\ r \in Nat

StatementAnswer(j, q, i, n, r) ==
  i = 1 /\ Owned(q) =>
    /\ r \in SetToSeqs(OnAccount(j, n, q.tenant, q.account))
    /\ \A x, y \in DOMAIN r : x < y => r[x].created <= r[y].created

\* Also what the accounts of a portfolio were read.
PortfolioAnswer(j, q, i, n, first, r) ==
  i > 1 => r = Signed(first[i - 1], TotalsOf(j, 1 .. n, first[i - 1]))

\* The counts are the odd SELECTs of a search, the pages the even ones.
SearchAnswer(j, q, i, n, r) ==
  \A p \in Nat : /\ i = 2 * p + 1 => r = Cardinality(MatchesOf(j, n, q))
                 /\ i = 2 * p + 2 => Shows(j, MatchesOf(j, n, q), r, p * q.limit, q.limit)

ListAnswer(j, q, i, n, r) ==
  /\ DatesDiffer(j, Seen(j, n, q.tenant)) =>
       Shows(j, Seen(j, n, q.tenant), r, (i - 1) * q.limit, q.limit)
  /\ Len(r) < q.limit => Cardinality(Seen(j, n, q.tenant)) < i * q.limit

Answers(j, q, i, n, first, r) ==
  /\ q.op = "sheet" => SheetAnswer(j, q, i, n, r)
  /\ q.op = "trial" => TrialAnswer(j, q, i, n, r)
  /\ q.op = "integrity" => IntegrityAnswer(j, q, i, n, r)
  /\ q.op = "history" => HistoryAnswer(j, q, i, n, r)
  /\ q.op = "statement" => StatementAnswer(j, q, i, n, r)
  /\ q.op = "portfolio" => PortfolioAnswer(j, q, i, n, first, r)
  /\ q.op = "search" => SearchAnswer(j, q, i, n, r)
  /\ q.op = "list" => ListAnswer(j, q, i, n, r)

\* Journals that agree have the same entries to see.
LEMMA SeenAgree ==
  ASSUME NEW j, NEW g, NEW n, Agree(j, g, n)
  PROVE  /\ \A t : Seen(g, n, t) = Seen(j, n, t)
         /\ \A t, at : SeenBy(g, n, t, at) = SeenBy(j, n, t, at)
         /\ \A q : MatchesOf(g, n, q) = MatchesOf(j, n, q)
<1>1. \A t : Seen(g, n, t) = Seen(j, n, t)
  BY DEF Agree, Seen
<1>2. \A t : \A k \in Seen(j, n, t) : g[k] = j[k]
  BY DEF Agree, Seen
<1>3. \A t, at : SeenBy(g, n, t, at) = SeenBy(j, n, t, at)
  BY <1>1, <1>2 DEF SeenBy
<1>4. ASSUME NEW q
      PROVE  MatchesOf(g, n, q) = MatchesOf(j, n, q)
  <2>1. \A k \in Seen(j, n, q.tenant) : g[k] = j[k]
    BY <1>2
  <2>2. QED
    BY <1>1, <2>1 DEF MatchesOf
<1>5. QED
  BY <1>1, <1>3, <1>4

\* They have the same postings, totals and order.
LEMMA EntriesAgree ==
  ASSUME NEW j, NEW g, NEW n, Agree(j, g, n), NEW K, K \subseteq 1 .. n
  PROVE  /\ PostingsOf(g, K) = PostingsOf(j, K)
         /\ \A a : TotalsOf(g, K, a) = TotalsOf(j, K, a)
         /\ \A k \in K : Rank(g, K, k) = Rank(j, K, k) /\ g[k].id = j[k].id
         /\ DatesDiffer(g, K) <=> DatesDiffer(j, K)
<1>1. \A k \in K : g[k] = j[k]
  BY DEF Agree
<1>2. PostingsOf(g, K) = PostingsOf(j, K)
  BY <1>1, SamePostings
<1>3. \A a : TotalsOf(g, K, a) = TotalsOf(j, K, a)
  BY <1>2 DEF TotalsOf, Mass, Of
<1>4. \A k \in K : NewerOf(g, K, k) = NewerOf(j, K, k)
  BY <1>1 DEF NewerOf
<1>5. DatesDiffer(g, K) <=> DatesDiffer(j, K)
  BY <1>1 DEF DatesDiffer
<1>6. QED
  BY <1>1, <1>2, <1>3, <1>4, <1>5 DEF Rank

\* A page shows the same entries.
LEMMA ShowsAgree ==
  ASSUME NEW j, NEW g, NEW n, Agree(j, g, n), NEW K, K \subseteq 1 .. n, NEW r, NEW offset, NEW limit
  PROVE  Shows(g, K, r, offset, limit) <=> Shows(j, K, r, offset, limit)
<1>1. \A k \in K : Rank(g, K, k) = Rank(j, K, k) /\ g[k].id = j[k].id
  BY EntriesAgree
<1>2. QED
  BY <1>1 DEF Shows

\* So an answer stays one.
LEMMA AnswersAgree ==
  ASSUME NEW j, NEW g, NEW n, Agree(j, g, n), NEW q, NEW i, NEW first, NEW r,
         Answers(j, q, i, n, first, r)
  PROVE  Answers(g, q, i, n, first, r)
<1> DEFINE S == Seen(j, n, q.tenant)
           B == SeenBy(j, n, q.tenant, AsOf(q.at))
           M == MatchesOf(j, n, q)
<1>1. S \subseteq 1 .. n /\ B \subseteq 1 .. n /\ M \subseteq 1 .. n
  BY DEF Seen, SeenBy, MatchesOf
<1>2. Seen(g, n, q.tenant) = S /\ SeenBy(g, n, q.tenant, AsOf(q.at)) = B /\ MatchesOf(g, n, q) = M
  BY SeenAgree
<1> HIDE DEF S, B, M
<1>3. PostingsOf(g, S) = PostingsOf(j, S) /\ PostingsOf(g, B) = PostingsOf(j, B)
      /\ (DatesDiffer(g, S) <=> DatesDiffer(j, S))
  BY <1>1, EntriesAgree
<1>4. \A a : TotalsOf(g, 1 .. n, a) = TotalsOf(j, 1 .. n, a)
  <2>1. PICK K : K = 1 .. n
    OBVIOUS
  <2>2. \A k \in K : g[k] = j[k]
    BY <2>1 DEF Agree
  <2>3. PostingsOf(g, K) = PostingsOf(j, K)
    BY <2>2, SamePostings
  <2>4. QED
    BY <2>1, <2>3 DEF TotalsOf, Mass, Of
<1>5. ASSUME q.op = "sheet" PROVE SheetAnswer(g, q, i, n, r)
  <2>1. SheetAnswer(j, q, i, n, r)
    BY <1>5 DEF Answers
  <2>2. QED
    BY <1>2, <1>3, <2>1 DEF SheetAnswer, ActivityOf, B
<1>6. Stored(g, n, q.tenant) = Stored(j, n, q.tenant)
  BY <1>4 DEF Stored
<1>7. OnAccount(g, n, q.tenant, q.account) = OnAccount(j, n, q.tenant, q.account)
  BY <1>2, <1>3 DEF OnAccount, S
<1>8. ASSUME q.op = "integrity" PROVE IntegrityAnswer(g, q, i, n, r)
  <2>1. IntegrityAnswer(j, q, i, n, r)
    BY <1>8 DEF Answers
  <2>2. QED
    BY <1>2, <1>3, <1>6, <2>1 DEF IntegrityAnswer, S
<1>9. ASSUME q.op = "search" PROVE SearchAnswer(g, q, i, n, r)
  <2>1. SearchAnswer(j, q, i, n, r)
    BY <1>9 DEF Answers
  <2>2. ASSUME NEW p \in Nat, i = 2 * p + 2
        PROVE  Shows(g, M, r, p * q.limit, q.limit)
    <3>1. PICK o : o = p * q.limit
      OBVIOUS
    <3>2. Shows(j, M, r, o, q.limit)
      BY <2>1, <2>2, <3>1 DEF SearchAnswer, M
    <3>3. Shows(g, M, r, o, q.limit)
      BY <1>1, <3>2, ShowsAgree
    <3>4. QED
      BY <3>1, <3>3
  <2>3. \A p \in Nat : i = 2 * p + 1 => r = Cardinality(M)
    BY <2>1 DEF SearchAnswer, M
  <2>4. QED
    BY <1>2, <2>2, <2>3 DEF SearchAnswer
<1>10. ASSUME q.op = "list" PROVE ListAnswer(g, q, i, n, r)
  <2>1. ListAnswer(j, q, i, n, r)
    BY <1>10 DEF Answers
  <2>2. PICK o : o = (i - 1) * q.limit
    OBVIOUS
  <2>3. DatesDiffer(j, S) => Shows(j, S, r, o, q.limit)
    BY <2>1, <2>2 DEF ListAnswer, S
  <2>4. DatesDiffer(g, S) => Shows(g, S, r, o, q.limit)
    BY <1>1, <1>3, <2>3, ShowsAgree
  <2>5. Len(r) < q.limit => Cardinality(S) < i * q.limit
    BY <2>1 DEF ListAnswer, S
  <2>6. QED
    BY <1>2, <2>2, <2>4, <2>5 DEF ListAnswer
<1>11. q.op = "trial" => TrialAnswer(g, q, i, n, r)
  BY <1>6 DEF Answers, TrialAnswer
<1>12. q.op = "history" => HistoryAnswer(g, q, i, n, r)
  BY <1>7 DEF Answers, HistoryAnswer
<1>13. q.op = "statement" => StatementAnswer(g, q, i, n, r)
  BY <1>7 DEF Answers, StatementAnswer
<1>14. q.op = "portfolio" => PortfolioAnswer(g, q, i, n, first, r)
  BY <1>4 DEF Answers, PortfolioAnswer
<1>15. QED
  BY <1>5, <1>8, <1>9, <1>10, <1>11, <1>12, <1>13, <1>14 DEF Answers

-------------------------------------------------------------------------------
(* What holds of the reader.                                                   *)

\* The account list of a portfolio: some of those the tenant has.
Listed ==
  question # NoQuestion /\ question.op = "portfolio" /\ got # <<>> =>
    \E S \in SUBSET AccountsOf(question.tenant) : got[1] = SetToSeq(S)

\* Each SELECT saw a prefix of the journal, a later one no less.
Marked ==
  /\ \E S : got \in Seq(S)
  /\ \E S : marks \in Seq(S)
  /\ Len(marks) = Len(got)
  /\ \A i \in 1 .. Len(got) : marks[i] \in 0 .. Len(journal)
  /\ \A i, k \in 1 .. Len(got) : i <= k => marks[i] <= marks[k]

Reading ==
  /\ question \in Questions \union {NoQuestion}
  /\ question = NoQuestion => got = <<>>
  /\ Marked
  /\ \A i \in 1 .. Len(got) : Answers(journal, question, i, marks[i], got[1], got[i])
  /\ Listed

\* It holds at the start.
LEMMA InitReading == ReportsInit => Reading
<1> SUFFICES ASSUME ReportsInit PROVE Reading
  OBVIOUS
<1>1. question = NoQuestion /\ got = <<>> /\ marks = <<>>
  BY DEF ReportsInit
<1>2. Len(got) = 0 /\ Len(marks) = 0 /\ got \in Seq({}) /\ marks \in Seq({})
  BY <1>1
<1>3. Marked
  BY <1>2 DEF Marked
<1>4. Listed
  BY <1>1 DEF Listed
<1>5. QED
  BY <1>1, <1>2, <1>3, <1>4 DEF Reading

\* A step of somebody else.
LEMMA ReadingKept ==
  ASSUME Ledger, Reading, Grown, Len(journal') \in Nat, Len(journal) <= Len(journal'),
         UNCHANGED reader, \A a \in Accounts : active'[a] => active[a]
  PROVE  Reading'
<1>1. question' = question /\ got' = got /\ marks' = marks
  BY DEF reader
<1>2. Len(journal) \in Nat
  BY JournalFacts DEF Ledger
<1>3. Marked'
  BY <1>1, <1>2 DEF Reading, Marked
<1>4. ASSUME NEW i \in 1 .. Len(got)
      PROVE  Answers(journal', question, i, marks[i], got[1], got[i])
  <2>1. PICK n \in 0 .. Len(journal) : n = marks[i]
    BY <1>4 DEF Reading, Marked
  <2>2. PICK g : g = journal'
    OBVIOUS
  <2>3. Agree(journal, g, n)
    BY <1>2, <2>1, <2>2 DEF Grown, Agree
  <2>4. PICK first, r : first = got[1] /\ r = got[i]
    OBVIOUS
  <2>5. Answers(journal, question, i, n, first, r)
    BY <1>4, <2>1, <2>4 DEF Reading
  <2>6. Answers(g, question, i, n, first, r)
    BY <2>3, <2>5, AnswersAgree
  <2>7. QED
    BY <2>1, <2>2, <2>4, <2>6
<1>5. Listed'
  <2>1. AccountsOf(question.tenant) \subseteq Accounts
    BY DEF AccountsOf
  <2>2. QED
    BY <1>1, <2>1 DEF Reading, Listed
<1>6. QED
  BY <1>1, <1>3, <1>4, <1>5 DEF Reading

\* One element more.
LEMMA Appended ==
  ASSUME NEW S, NEW s \in Seq(S), NEW e, NEW t, t = Append(s, e)
  PROVE  /\ \E T : t \in Seq(T)
         /\ Len(s) \in Nat /\ Len(t) = Len(s) + 1 /\ t # <<>>
         /\ \A k \in 1 .. Len(s) : t[k] = s[k]
         /\ t[Len(s) + 1] = e
<1> DEFINE T == S \union {e}
<1>1. s \in Seq(T) /\ e \in T
  BY SeqMonotonic
<1> HIDE DEF T
<1>2. /\ t \in Seq(T)
      /\ Len(t) = Len(s) + 1
      /\ \A i \in 1 .. Len(s) : t[i] = s[i]
      /\ t[Len(s) + 1] = e
  BY <1>1, AppendProperties
<1>3. Len(s) \in Nat
  BY <1>1, LenProperties
<1>4. t # <<>>
  BY <1>2, <1>3
<1>5. QED
  BY <1>2, <1>3, <1>4

\* A SELECT that answers.
LEMMA SelectReading ==
  ASSUME Ledger, Reading, NEW op, NEW n, NEW r, Select(op, n, r), Listed',
         Answers(journal, question, Len(got) + 1, Len(journal), IF got = <<>> THEN r ELSE got[1], r)
  PROVE  Reading'
<1> DEFINE m == Len(got)
<1>1. PICK S : got \in Seq(S)
  BY DEF Reading, Marked
<1>2. PICK T : marks \in Seq(T)
  BY DEF Reading, Marked
<1>3. /\ got' = Append(got, r) /\ marks' = Append(marks, Len(journal))
      /\ question' = question /\ journal' = journal
      /\ question # NoQuestion
  BY DEF Select, ledgerVars, database
<1>4. /\ \E U : got' \in Seq(U)
      /\ m \in Nat /\ Len(got') = m + 1 /\ got' # <<>>
      /\ \A k \in 1 .. m : got'[k] = got[k]
      /\ got'[m + 1] = r
  <2>1. PICK t : t = got'
    OBVIOUS
  <2>2. t = Append(got, r)
    BY <1>3, <2>1
  <2>3. /\ \E U : t \in Seq(U)
        /\ m \in Nat /\ Len(t) = m + 1 /\ t # <<>>
        /\ \A k \in 1 .. m : t[k] = got[k]
        /\ t[m + 1] = r
    BY <1>1, <2>2, Appended
  <2>4. QED
    BY <2>1, <2>3
<1>5. /\ \E U : marks' \in Seq(U)
      /\ Len(marks') = m + 1
      /\ \A k \in 1 .. m : marks'[k] = marks[k]
      /\ marks'[m + 1] = Len(journal)
  <2>1. Len(marks) = m
    BY DEF Reading, Marked
  <2>2. PICK e : e = Len(journal)
    OBVIOUS
  <2>3. marks' = Append(marks, e)
    BY <1>3, <2>2
  <2>4. QED
    BY <1>2, <2>1, <2>2, <2>3, Appended
<1>6. got = <<>> <=> m = 0
  BY <1>1
<1>7. got'[1] = IF got = <<>> THEN r ELSE got[1]
  BY <1>4, <1>6
<1>8. Len(journal) \in Nat
  BY JournalFacts DEF Ledger
<1> HIDE DEF m
<1>9. \A i \in 1 .. (m + 1) : i \in 1 .. m \/ i = m + 1
  BY <1>4
<1>10. Marked'
  <2>1. \A i \in 1 .. m : marks[i] \in 0 .. Len(journal)
    BY DEF Reading, Marked, m
  <2>2. \A i, k \in 1 .. m : i <= k => marks[i] <= marks[k]
    BY DEF Reading, Marked, m
  <2>3. \A i \in 1 .. (m + 1) : marks'[i] \in 0 .. Len(journal)
    BY <1>5, <1>8, <1>9, <2>1
  <2>4. \A i, k \in 1 .. (m + 1) : i <= k => marks'[i] <= marks'[k]
    <3>1. TAKE i, k \in 1 .. (m + 1)
    <3>2. HAVE i <= k
    <3>3. CASE k = m + 1
      BY <1>5, <1>8, <2>3, <3>3
    <3>4. CASE k \in 1 .. m
      <4>1. i \in 1 .. m
        BY <1>4, <3>2, <3>4
      <4>2. QED
        BY <1>5, <2>2, <3>2, <3>4, <4>1
    <3>5. QED
      BY <1>9, <3>3, <3>4
  <2>5. QED
    BY <1>3, <1>4, <1>5, <2>3, <2>4 DEF Marked
<1>11. ASSUME NEW i \in 1 .. (m + 1)
       PROVE  Answers(journal, question, i, marks'[i], got'[1], got'[i])
  <2>1. CASE i = m + 1
    BY <1>4, <1>5, <1>7, <2>1 DEF m
  <2>2. CASE i \in 1 .. m
    <3>1. got # <<>>
      BY <1>4, <1>6, <2>2
    <3>2. Answers(journal, question, i, marks[i], got[1], got[i])
      BY <2>2 DEF Reading, m
    <3>3. QED
      BY <1>4, <1>5, <1>7, <2>2, <3>1, <3>2
  <2>3. QED
    BY <1>9, <1>11, <2>1, <2>2
<1>12. QED
  BY <1>3, <1>4, <1>10, <1>11 DEF Reading

-------------------------------------------------------------------------------
(* Orders.                                                                     *)

\* The sequences of a finite set, each element once.
Permutation(s, S) ==
  /\ Cardinality(S) \in Nat /\ DOMAIN s = 1 .. Cardinality(S) /\ Len(s) = Cardinality(S)
  /\ \A i \in DOMAIN s : s[i] \in S
  /\ \A i, k \in DOMAIN s : s[i] = s[k] => i = k
  /\ \A x \in S : \E i \in DOMAIN s : s[i] = x

\* A sequence of Cardinality(S) different elements of S has them all.
LEMMA InjectionsPermute ==
  ASSUME NEW S, IsFiniteSet(S), NEW s \in [1 .. Cardinality(S) -> S],
         \A i, k \in 1 .. Cardinality(S) : s[i] = s[k] => i = k
  PROVE  Permutation(s, S)
<1> DEFINE n == Cardinality(S)
           Image == {s[i] : i \in 1 .. n}
<1>1. n \in Nat /\ DOMAIN s = 1 .. n /\ IsFiniteSet(1 .. n) /\ Cardinality(1 .. n) = n
  <2>1. n \in Nat
    BY FS_CardinalityType
  <2> HIDE DEF n
  <2>2. IsFiniteSet(1 .. n) /\ Cardinality(1 .. n) = n
    BY <2>1, FS_Interval
  <2>3. QED
    BY <2>1, <2>2 DEF n
<1>2. Len(s) = n
  <2>1. s \in Seq(S)
    BY <1>1, SeqDef
  <2>2. DOMAIN s = 1 .. Len(s) /\ Len(s) \in Nat
    BY <2>1, LenProperties
  <2>3. QED
    BY <1>1, <2>2
<1>3. \A x, y \in 1 .. n : s[x] = s[y] => x = y
  OBVIOUS
<1>4. Cardinality(Image) = n
  <2> HIDE DEF n
  <2>1. PICK D : D = 1 .. n
    OBVIOUS
  <2>2. IsFiniteSet(D) /\ \A x, y \in D : s[x] = s[y] => x = y
    BY <1>1, <1>3, <2>1
  <2>3. Cardinality({s[x] : x \in D}) = Cardinality(D)
    <3>1. IsFiniteSet(D)
      BY <2>2
    <3>2. \A x, y \in D : s[x] = s[y] => x = y
      BY <2>2
    <3>3. QED
      BY ONLY <3>1, <3>2, CountImage
  <2>4. QED
    BY <1>1, <2>1, <2>3
<1>5. Image \in SUBSET S
  OBVIOUS
<1>6. Image = S
  <2> HIDE DEF Image
  <2>1. QED
    BY <1>4, <1>5, FS_Subset
<1>7. QED
  BY <1>1, <1>2, <1>3, <1>6 DEF Permutation

\* An order of the rows is a permutation of them.
LEMMA SeqsPermute ==
  ASSUME NEW S, IsFiniteSet(S), NEW s \in SetToSeqs(S)
  PROVE  Permutation(s, S)
<1>1. s \in [1 .. Cardinality(S) -> S] /\ \A i, k \in 1 .. Cardinality(S) : s[i] = s[k] => i = k
  BY DEF SetToSeqs
<1>2. QED
  BY <1>1, InjectionsPermute

\* So is the order a SELECT without ORDER BY takes.
LEMMA SeqPermutes ==
  ASSUME NEW S, IsFiniteSet(S)
  PROVE  Permutation(SetToSeq(S), S)
<1> DEFINE n == Cardinality(S)
<1>1. PICK f : f \in Bijection(1 .. n, S)
  BY FS_CardinalityType DEF ExistsBijection
<1>2. f \in [1 .. n -> S] /\ \A i, k \in 1 .. n : f[i] = f[k] => i = k
  BY <1>1 DEF Bijection, Injection, IsInjective
<1>3. \A s \in [1 .. n -> S] : IsInjective(s) <=> \A i, k \in 1 .. n : s[i] = s[k] => i = k
  BY DEF IsInjective
<1>4. \E s \in [1 .. n -> S] : IsInjective(s)
  BY <1>2, <1>3
<1>5. SetToSeq(S) \in [1 .. n -> S] /\ IsInjective(SetToSeq(S))
  BY <1>4 DEF SetToSeq
<1>6. PICK s : s = SetToSeq(S)
  OBVIOUS
<1>7. s \in [1 .. n -> S] /\ \A i, k \in 1 .. n : s[i] = s[k] => i = k
  BY <1>3, <1>5, <1>6
<1>8. Permutation(s, S)
  BY <1>7, InjectionsPermute
<1>9. QED
  BY <1>6, <1>8

\* Entries that can be put in order.
Ordered(j, K) ==
  /\ IsFiniteSet(K)
  /\ \A k \in K : j[k].created \in Nat /\ j[k].id \in Int
  /\ \A k, m \in K : k # m => j[k].id # j[m].id

\* No two entries have the same rank, and a rank is smaller than their number.
LEMMA RankFacts ==
  ASSUME NEW j, NEW K, Ordered(j, K), NEW k \in K
  PROVE  /\ Rank(j, K, k) \in Nat /\ Rank(j, K, k) < Cardinality(K) /\ Cardinality(K) \in Nat
         /\ \A m \in K : Rank(j, K, m) = Rank(j, K, k) => m = k
<1>1. \A x \in K : /\ NewerOf(j, K, x) \in SUBSET K /\ x \notin NewerOf(j, K, x)
                   /\ IsFiniteSet(NewerOf(j, K, x)) /\ Rank(j, K, x) \in Nat
                   /\ NewerOf(j, K, x) # K
  <2>1. TAKE x \in K
  <2>2. NewerOf(j, K, x) \in SUBSET K /\ x \notin NewerOf(j, K, x)
    BY DEF NewerOf, Ordered
  <2>3. IsFiniteSet(NewerOf(j, K, x))
    BY <2>2, FS_Subset DEF Ordered
  <2>4. QED
    BY <2>2, <2>3, FS_CardinalityType DEF Rank
<1>2. IsFiniteSet(K) /\ Cardinality(K) \in Nat
  BY FS_CardinalityType DEF Ordered
<1>3. Rank(j, K, k) < Cardinality(K)
  <2> DEFINE T == NewerOf(j, K, k)
  <2>1. T \in SUBSET K /\ T # K
    BY <1>1
  <2> HIDE DEF T
  <2>2. Cardinality(T) <= Cardinality(K) /\ Cardinality(T) # Cardinality(K)
    BY <1>2, <2>1, FS_Subset
  <2>3. Cardinality(T) \in Nat
    BY <1>1 DEF Rank, T
  <2>4. QED
    BY <1>2, <2>2, <2>3 DEF Rank, T
<1>4. ASSUME NEW m \in K, NEW x \in K, m \in NewerOf(j, K, x)
      PROVE  Rank(j, K, m) # Rank(j, K, x)
  <2> DEFINE S == NewerOf(j, K, m)
             T == NewerOf(j, K, x)
  <2>1. S \subseteq T
    BY <1>4 DEF NewerOf, Ordered
  <2>2. m \in T /\ m \notin S
    BY <1>1, <1>4
  <2>3. IsFiniteSet(T) /\ S \in SUBSET T /\ S # T
    BY <1>1, <2>1, <2>2
  <2> HIDE DEF S, T
  <2>4. Cardinality(S) # Cardinality(T)
    BY <2>3, FS_Subset
  <2>5. QED
    BY <2>4 DEF Rank, S, T
<1>5. ASSUME NEW m \in K, Rank(j, K, m) = Rank(j, K, k), m # k
      PROVE  FALSE
  <2>1. m \in NewerOf(j, K, k) \/ k \in NewerOf(j, K, m)
    BY <1>5 DEF NewerOf, Ordered
  <2>2. QED
    BY <1>4, <1>5, <2>1
<1>6. QED
  BY <1>1, <1>2, <1>3, <1>5

\* Fewer entries, lower ranks.
LEMMA RankGrows ==
  ASSUME NEW j, NEW K, NEW L, IsFiniteSet(L), K \subseteq L, NEW k
  PROVE  Rank(j, K, k) <= Rank(j, L, k) /\ Rank(j, K, k) \in Nat /\ Rank(j, L, k) \in Nat
<1> DEFINE S == NewerOf(j, K, k)
           T == NewerOf(j, L, k)
<1>1. S \in SUBSET T /\ T \in SUBSET L
  BY DEF NewerOf
<1> HIDE DEF S, T
<1>2. IsFiniteSet(T) /\ IsFiniteSet(S) /\ Cardinality(S) <= Cardinality(T)
  BY <1>1, FS_Subset
<1>3. Cardinality(S) \in Nat /\ Cardinality(T) \in Nat
  BY <1>2, FS_CardinalityType
<1>4. QED
  BY <1>2, <1>3 DEF Rank, S, T

\* The smaller of two.
LEMMA SmallerOfTwo ==
  ASSUME NEW a \in Int, NEW b \in Int
  PROVE  Min({a, b}) \in {a, b} /\ Min({a, b}) <= a /\ Min({a, b}) <= b
<1>1. \E x \in {a, b} : \A y \in {a, b} : x <= y
  OBVIOUS
<1>2. QED
  BY <1>1 DEF Min

\* The greatest of a finite set.
LEMMA MaxFacts ==
  ASSUME NEW S \in SUBSET Nat, S # {}, IsFiniteSet(S)
  PROVE  Max(S) \in S /\ \A y \in S : y <= Max(S)
<1>1. PICK x \in S : \A y \in S : y <= x
  BY GreatestExists
<1>2. \E z \in S : \A y \in S : z >= y
  BY <1>1
<1>3. QED
  BY <1>2 DEF Max

\* A page by rank.
LEMMA PageShows ==
  ASSUME NEW K, Ordered(journal, K), NEW offset \in Nat, NEW limit \in Nat
  PROVE  Shows(journal, K,
               [i \in 1 .. Min({limit, Cardinality(K) - offset}) |-> journal[Ranked(K, offset + i)].id],
               offset, limit)
<1> DEFINE n == Min({limit, Cardinality(K) - offset})
           r == [i \in 1 .. n |-> journal[Ranked(K, offset + i)].id]
<1>1. SUFFICES ASSUME NEW k \in K, offset <= Rank(journal, K, k), Rank(journal, K, k) < offset + limit
               PROVE  \E x \in DOMAIN r : r[x] = journal[k].id
  BY DEF Shows
<1>2. /\ Rank(journal, K, k) \in Nat /\ Rank(journal, K, k) < Cardinality(K) /\ Cardinality(K) \in Nat
      /\ \A m \in K : Rank(journal, K, m) = Rank(journal, K, k) => m = k
  BY RankFacts
<1> DEFINE x == Rank(journal, K, k) - offset + 1
<1>3. x \in Nat /\ 1 <= x /\ x <= limit /\ x <= Cardinality(K) - offset
      /\ offset + x - 1 = Rank(journal, K, k)
  BY <1>1, <1>2
<1>4. n \in Int /\ x <= n
  <2>1. PICK b \in Int : b = Cardinality(K) - offset
    BY <1>2
  <2>2. Min({limit, b}) \in {limit, b}
    BY SmallerOfTwo
  <2>3. QED
    BY <1>3, <2>1, <2>2
<1>5. \A m \in K : {l \in K : Newer(l, m)} = NewerOf(journal, K, m)
  BY DEF Newer, NewerOf
<1>6. Ranked(K, offset + x) = k
  <2>1. \A m \in K : Cardinality({l \in K : Newer(l, m)}) = (offset + x) - 1 <=> m = k
    <3>1. TAKE m \in K
    <3>2. Cardinality({l \in K : Newer(l, m)}) = Rank(journal, K, m)
      BY <1>5 DEF Rank
    <3>3. QED
      BY <1>2, <1>3, <3>2
  <2> DEFINE P(m) == Cardinality({l \in K : Newer(l, m)}) = (offset + x) - 1
  <2>2. \A m \in K : P(m) <=> m = k
    BY <2>1
  <2>3. Ranked(K, offset + x) = CHOOSE m \in K : P(m)
    BY DEF Ranked
  <2> HIDE DEF P
  <2>4. QED
    BY <1>1, <2>2, <2>3
<1>7. x \in 1 .. n
  BY <1>3, <1>4
<1> HIDE DEF x, n
<1>8. QED
  BY <1>6, <1>7

\* A page of a list: entries of different dates have one order.
LEMMA ListShows ==
  ASSUME NEW K, Ordered(journal, K), DatesDiffer(journal, K), NEW s, Permutation(s, K),
         \A i, k \in DOMAIN s : i < k => journal[s[i]].created >= journal[s[k]].created,
         NEW offset \in Nat, NEW limit \in Nat
  PROVE  Shows(journal, K,
               [i \in 1 .. Min({limit, Len(s) - offset}) |-> journal[s[offset + i]].id],
               offset, limit)
<1> DEFINE n == Min({limit, Len(s) - offset})
           r == [i \in 1 .. n |-> journal[s[offset + i]].id]
<1>1. SUFFICES ASSUME NEW k \in K, offset <= Rank(journal, K, k), Rank(journal, K, k) < offset + limit
               PROVE  \E x \in DOMAIN r : r[x] = journal[k].id
  BY DEF Shows
<1>2. PICK y \in DOMAIN s : s[y] = k
  BY DEF Permutation
<1>3. Len(s) \in Nat /\ DOMAIN s = 1 .. Len(s) /\ y \in 1 .. Len(s)
  BY DEF Permutation
<1>4. Rank(journal, K, k) = y - 1
  <2> DEFINE before == 1 .. (y - 1)
  <2>1. \A i \in before : i \in DOMAIN s /\ i < y
    BY <1>3
  <2>2. NewerOf(journal, K, k) = {s[i] : i \in before}
    <3>1. ASSUME NEW i \in before
          PROVE  s[i] \in NewerOf(journal, K, k)
      <4>1. s[i] \in K /\ s[i] # k /\ journal[s[i]].created >= journal[k].created
        BY <1>2, <1>3, <2>1 DEF Permutation
      <4>2. journal[s[i]].created # journal[k].created
        BY <4>1 DEF DatesDiffer
      <4>3. QED
        BY <4>1, <4>2 DEF NewerOf, Ordered
    <3>2. ASSUME NEW m \in NewerOf(journal, K, k)
          PROVE  \E i \in before : s[i] = m
      <4>1. m \in K /\ m # k
        BY <3>2 DEF NewerOf, Ordered
      <4>2. PICK i \in DOMAIN s : s[i] = m
        BY <4>1 DEF Permutation
      <4>3. journal[m].created > journal[k].created
        BY <3>2, <4>1 DEF NewerOf, DatesDiffer
      <4>4. journal[m].created \in Nat /\ journal[k].created \in Nat
        BY <4>1 DEF Ordered
      <4>5. ~(y < i)
        BY <1>2, <4>2, <4>3, <4>4
      <4>6. i # y
        BY <1>2, <4>1, <4>2
      <4>7. i \in before
        BY <1>3, <4>2, <4>5, <4>6
      <4>8. QED
        BY <4>2, <4>7
    <3>3. QED
      BY <3>1, <3>2
  <2>3. IsFiniteSet(before) /\ Cardinality(before) = y - 1
    <3>1. PICK m \in Nat : m = y - 1
      BY <1>3
    <3>2. IsFiniteSet(1 .. m) /\ Cardinality(1 .. m) = m
      BY FS_Interval
    <3>3. QED
      BY <3>1, <3>2
  <2>4. \A a, b \in before : s[a] = s[b] => a = b
    BY <2>1 DEF Permutation
  <2> HIDE DEF before
  <2>5. Cardinality({s[a] : a \in before}) = Cardinality(before)
    BY <2>3, <2>4, CountImage
  <2>6. QED
    BY <2>2, <2>3, <2>5 DEF Rank
<1> DEFINE x == y - offset
<1>5. x \in Nat /\ 1 <= x /\ x <= limit /\ x <= Len(s) - offset /\ offset + x = y
  BY <1>1, <1>3, <1>4
<1>6. n \in Int /\ x <= n
  <2> HIDE DEF n, x, r
  <2>0. PICK m \in Nat : m = Len(s)
    BY <1>3
  <2>1. PICK b \in Int : b = m - offset
    OBVIOUS
  <2>2. Min({limit, b}) \in {limit, b}
    BY SmallerOfTwo
  <2>3. QED
    BY <1>5, <2>0, <2>1, <2>2 DEF n
<1>7. x \in 1 .. n /\ s[offset + x] = k
  BY <1>2, <1>5, <1>6
<1> HIDE DEF x, n
<1>8. QED
  BY <1>7

-------------------------------------------------------------------------------
(* Every SELECT answers.                                                       *)

\* What the tables show now.
LEMMA NowSeen ==
  ASSUME Ledger
  PROVE  /\ \A t : Postings(t) = PostingsOf(journal, Seen(journal, Len(journal), t))
         /\ \A t, at : {p \in Postings(t) : p.created <= at} =
                         PostingsOf(journal, SeenBy(journal, Len(journal), t, at))
         /\ \A t : StoredBalances(t) = Stored(journal, Len(journal), t)
         /\ TenantEntries = Seen(journal, Len(journal), question.tenant)
         /\ Matches = MatchesOf(journal, Len(journal), question)
         /\ AccountPostings = OnAccount(journal, Len(journal), question.tenant, question.account)
<1> DEFINE n == Len(journal)
<1>1. DOMAIN journal = 1 .. n
  BY JournalFacts DEF Ledger
<1> HIDE DEF n
<1>2. \A t : {k \in DOMAIN journal : journal[k].tenant = t} = Seen(journal, n, t)
  BY <1>1 DEF Seen
<1>3. \A t : Postings(t) = PostingsOf(journal, Seen(journal, n, t))
  BY <1>2 DEF Postings
<1>4. ASSUME NEW t, NEW at
      PROVE  {p \in Postings(t) : p.created <= at} = PostingsOf(journal, SeenBy(journal, n, t, at))
  <2> DEFINE S == Seen(journal, n, t)
             T == SeenBy(journal, n, t, at)
  <2>1. T \subseteq S /\ \A k \in S : k \in T <=> journal[k].created <= at
    BY DEF SeenBy
  <2>2. \A k, i : Posting(journal[k], k, i).created = journal[k].created
    BY DEF Posting
  <2> HIDE DEF S, T
  <2>3. {p \in PostingsOf(journal, S) : p.created <= at} = PostingsOf(journal, T)
    <3>1. ASSUME NEW p \in PostingsOf(journal, S)
          PROVE  p.created <= at <=> p \in PostingsOf(journal, T)
      <4>1. /\ p.entry \in S /\ p.line \in DOMAIN journal[p.entry].lines
            /\ p = Posting(journal[p.entry], p.entry, p.line)
        BY PostingsOfEntries
      <4>2. p.created <= at <=> p.entry \in T
        BY <2>1, <2>2, <4>1
      <4>3. p.entry \in T => p \in PostingsOf(journal, T)
        BY <4>1 DEF PostingsOf
      <4>4. p \in PostingsOf(journal, T) => p.entry \in T
        BY PostingsOfEntries
      <4>5. QED
        BY <4>2, <4>3, <4>4
    <3>2. PostingsOf(journal, T) \subseteq PostingsOf(journal, S)
      BY <2>1 DEF PostingsOf
    <3>3. QED
      BY <3>1, <3>2
  <2>4. QED
    BY <1>3, <2>3 DEF S, T
<1>5. \A t : StoredBalances(t) = Stored(journal, n, t)
  <2>1. \A t : AccountsOf(t) \subseteq Accounts
    BY DEF AccountsOf
  <2>2. \A a \in Accounts : balance[a] = TotalsOf(journal, 1 .. n, a)
    BY DEF Ledger, Booked, n
  <2>3. QED
    BY <2>1, <2>2 DEF StoredBalances, Stored
<1>6. TenantEntries = Seen(journal, n, question.tenant)
  BY <1>2 DEF TenantEntries
<1>7. Matches = MatchesOf(journal, n, question)
  BY <1>1 DEF Matches, MatchesOf, Seen, Meets, Satisfies
<1>8. AccountPostings = OnAccount(journal, n, question.tenant, question.account)
  BY <1>3 DEF AccountPostings, OnAccount
<1>9. QED
  BY <1>3, <1>4, <1>5, <1>6, <1>7, <1>8 DEF n

\* They can be put in order.
LEMMA EntriesOrdered ==
  ASSUME Ledger, NEW K, K \subseteq 1 .. Len(journal)
  PROVE  Ordered(journal, K)
<1>1. DOMAIN journal = 1 .. Len(journal) /\ IsFiniteSet(DOMAIN journal)
  BY JournalFacts DEF Ledger
<1>2. IsFiniteSet(K)
  BY <1>1, FS_Subset
<1>3. \A k \in K : journal[k].created \in Nat /\ journal[k].id \in Int
  BY DEF Ledger, Recordings, Sound
<1>4. \A k, m \in K : k # m => journal[k].id # journal[m].id
  BY DEF Ledger, IdsDiffer
<1>5. QED
  BY <1>2, <1>3, <1>4 DEF Ordered

\* A SELECT of a report other than the portfolio.
LEMMA SelectAnswers ==
  ASSUME Ledger, Reading, NEW op, NEW n, NEW r, Select(op, n, r), op # "portfolio",
         Answers(journal, question, Len(got) + 1, Len(journal), IF got = <<>> THEN r ELSE got[1], r)
  PROVE  Reading'
<1>1. question' = question /\ question.op = op
  BY DEF Select
<1>2. Listed'
  BY <1>1 DEF Listed
<1>3. QED
  BY <1>2, SelectReading

\* A SELECT comes in its turn, in a report that was asked for.
LEMMA SelectCount ==
  ASSUME Reading, NEW op, NEW n \in Int, NEW r, Select(op, n, r)
  PROVE  /\ Len(got) \in Nat /\ Len(got) + 1 = n /\ question.op = op /\ question \in Questions
         /\ n = 1 => got = <<>>
<1>1. PICK S : got \in Seq(S)
  BY DEF Reading, Marked
<1>2. Len(got) \in Nat /\ (Len(got) = 0 => got = <<>>)
  BY <1>1
<1>3. Len(got) = n - 1 /\ question.op = op /\ question # NoQuestion
  BY DEF Select
<1>4. QED
  BY <1>2, <1>3 DEF Reading

\* The two reads of a balance sheet.
LEMMA SheetReads ==
  ASSUME Ledger, Reading, ReadSheetBalances \/ ReadSheetIncome
  PROVE  Reading'
<1> DEFINE at == AsOf(question.at)
           B == Activity({p \in Postings(question.tenant) : p.created <= at}, BalanceTypes, question.currency)
           I == Activity({p \in Postings(question.tenant) : p.created <= at}, IncomeTypes, question.currency)
           K == SeenBy(journal, Len(journal), question.tenant, at)
<1>1. {p \in Postings(question.tenant) : p.created <= at} = PostingsOf(journal, K)
  <2>1. PICK x : x = at
    OBVIOUS
  <2>2. QED
    BY <2>1, NowSeen
<1>2. B = ActivityOf(journal, K, BalanceTypes, question.currency)
      /\ I = ActivityOf(journal, K, IncomeTypes, question.currency)
  BY <1>1 DEF ActivityOf
<1>3. Select("sheet", 1, B) \/ Select("sheet", 2, I)
  BY DEF ReadSheetBalances, ReadSheetIncome
<1> HIDE DEF B, I
<1>4. ASSUME NEW n \in {1, 2}, NEW r, Select("sheet", n, r), r = IF n = 1 THEN B ELSE I
      PROVE  Reading'
  <2>1. Len(got) + 1 = n /\ question.op = "sheet"
    BY <1>4, SelectCount
  <2>2. SheetAnswer(journal, question, n, Len(journal), r)
    BY <1>2, <1>4 DEF SheetAnswer
  <2>3. Answers(journal, question, Len(got) + 1, Len(journal), IF got = <<>> THEN r ELSE got[1], r)
    BY <2>1, <2>2 DEF Answers
  <2>4. "sheet" # "portfolio"
    OBVIOUS
  <2>5. QED
    BY <1>4, <2>3, <2>4, SelectAnswers
<1>5. QED
  BY <1>3, <1>4

\* The reads of the trial balance and of verify_integrity.
LEMMA AuditReads ==
  ASSUME Ledger, Reading, ReadTrial \/ ReadPostings \/ ReadStored
  PROVE  Reading'
<1> DEFINE t == question.tenant
<1>1. Postings(t) = PostingsOf(journal, Seen(journal, Len(journal), t))
      /\ StoredBalances(t) = Stored(journal, Len(journal), t)
  BY NowSeen
<1>a. PICK op \in {"trial", "integrity"}, n \in {1, 2} : \E r :
        /\ Select(op, n, r)
        /\ op = "trial" => n = 1 /\ r = StoredBalances(t)
        /\ op = "integrity" => r = IF n = 1 THEN ByAccount(Postings(t)) ELSE StoredBalances(t)
  BY DEF ReadTrial, ReadPostings, ReadStored
<1>2. PICK r :
        /\ Select(op, n, r)
        /\ op = "trial" => n = 1 /\ r = StoredBalances(t)
        /\ op = "integrity" => r = IF n = 1 THEN ByAccount(Postings(t)) ELSE StoredBalances(t)
  BY <1>a
<1>3. Len(got) + 1 = n /\ question.op = op
  BY <1>2, SelectCount
<1>4. op = "trial" => TrialAnswer(journal, question, n, Len(journal), r)
  BY <1>1, <1>2 DEF TrialAnswer
<1>5. op = "integrity" => IntegrityAnswer(journal, question, n, Len(journal), r)
  BY <1>1, <1>2 DEF IntegrityAnswer
<1>6. Answers(journal, question, Len(got) + 1, Len(journal), IF got = <<>> THEN r ELSE got[1], r)
  BY <1>2, <1>3, <1>4, <1>5 DEF Answers
<1>7. op # "portfolio"
  BY <1>2
<1>8. QED
  BY <1>2, <1>6, <1>7, SelectAnswers

\* The reads about one account: its balance, statement and history.
LEMMA AccountReads ==
  ASSUME Ledger, Reading, MissAccount \/ ReadBalance \/ ReadStatement \/ ReadEvents \/ ReadAppClock
  PROVE  Reading'
<1>1. AccountPostings = OnAccount(journal, Len(journal), question.tenant, question.account)
  BY NowSeen
<1>2. Found <=> Owned(question)
  BY DEF Found, Owned
<1>3. ASSUME NEW op, NEW n \in Int, NEW r, Select(op, n, r), op \in {"balance", "statement", "history"},
             op = "statement" => StatementAnswer(journal, question, n, Len(journal), r),
             op = "history" => HistoryAnswer(journal, question, n, Len(journal), r)
      PROVE  Reading'
  <2>1. Len(got) + 1 = n /\ question.op = op
    BY <1>3, SelectCount
  <2>2. Answers(journal, question, Len(got) + 1, Len(journal), IF got = <<>> THEN r ELSE got[1], r)
    BY <1>3, <2>1 DEF Answers
  <2>3. op # "portfolio"
    BY <1>3
  <2>4. QED
    BY <1>3, <2>2, <2>3, SelectAnswers
<1>4. CASE MissAccount
  <2>1. PICK op, r : Select(op, 1, r) /\ op \in {"balance", "statement", "history"} /\ ~Found
    BY <1>4 DEF MissAccount
  <2>2. StatementAnswer(journal, question, 1, Len(journal), r)
    BY <1>2, <2>1 DEF StatementAnswer
  <2>3. HistoryAnswer(journal, question, 1, Len(journal), r)
    BY <1>2, <2>1 DEF HistoryAnswer
  <2>4. QED
    BY <1>3, <2>1, <2>2, <2>3
<1>5. CASE ReadBalance
  <2>1. PICK r : Select("balance", 1, r)
    BY <1>5 DEF ReadBalance
  <2>2. QED
    BY <1>3, <2>1
<1>6. CASE ReadStatement
  <2>1. PICK s \in SetToSeqs(AccountPostings) :
          /\ \A i, j \in DOMAIN s : i < j => StatementOrder(s[i], s[j])
          /\ Select("statement", 1, s)
    BY <1>6 DEF ReadStatement
  <2>2. StatementAnswer(journal, question, 1, Len(journal), s)
    BY <1>1, <2>1 DEF StatementAnswer, StatementOrder
  <2>3. QED
    BY <1>3, <2>1, <2>2
<1>7. CASE ReadEvents
  <2>1. PICK r : r = AccountPostings
    OBVIOUS
  <2>2. Select("history", 1, r)
    BY <1>7, <2>1 DEF ReadEvents
  <2>3. HistoryAnswer(journal, question, 1, Len(journal), r)
    BY <1>1, <2>1 DEF HistoryAnswer
  <2>4. QED
    BY <1>3, <2>2, <2>3
<1>8. CASE ReadAppClock
  <2>1. PICK now \in (clock - Skew) .. (clock + Skew) : now >= 0 /\ Select("history", 2, now)
    BY <1>8 DEF ReadAppClock
  <2>2. Found
    BY <1>8 DEF ReadAppClock
  <2>3. now \in Nat
    BY <2>1
  <2>4. HistoryAnswer(journal, question, 2, Len(journal), now)
    BY <1>2, <2>2, <2>3 DEF HistoryAnswer
  <2>5. QED
    BY <1>3, <2>1, <2>4
<1>9. QED
  BY <1>4, <1>5, <1>6, <1>7, <1>8

\* The account list of the portfolio, and each balance after it.
LEMMA PortfolioReads ==
  ASSUME Ledger, Reading, ListAccounts \/ ReadOneBalance
  PROVE  Reading'
<1>1. CASE ListAccounts
  <2> DEFINE open == {a \in AccountsOf(question.tenant) : active[a]}
  <2>5. PICK A \in SUBSET open : Select("portfolio", 1, SetToSeq(A))
    BY <1>1 DEF ListAccounts, kSubset
  <2> DEFINE r == SetToSeq(A)
  <2>1. Select("portfolio", 1, r)
    BY <2>5
  <2>2. got = <<>> /\ Len(got) + 1 = 1 /\ question.op = "portfolio"
    BY <2>1, SelectCount
  <2>3. PICK S : got \in Seq(S)
    BY DEF Reading, Marked
  <2> HIDE DEF r
  <2>4. got'[1] = r /\ question' = question
    <3>1. PICK g : g = got'
      OBVIOUS
    <3>2. g = Append(got, r)
      BY <2>1, <3>1 DEF Select
    <3>3. g[Len(got) + 1] = r
      BY <2>3, <3>2, Appended
    <3>4. QED
      BY <2>1, <2>2, <3>1, <3>3 DEF Select
  <2>6. Listed'
    BY <2>4, <2>5 DEF Listed, r, AccountsOf
  <2>7. PortfolioAnswer(journal, question, 1, Len(journal), r, r)
    BY DEF PortfolioAnswer
  <2>8. Answers(journal, question, Len(got) + 1, Len(journal), IF got = <<>> THEN r ELSE got[1], r)
    BY <2>2, <2>7 DEF Answers
  <2>9. QED
    BY <2>1, <2>6, <2>8, SelectReading
<1>2. CASE ReadOneBalance
  <2> DEFINE a == got[1][Len(got)]
  <2>1. PICK r : r = Signed(a, balance[a])
    OBVIOUS
  <2>2. Select("portfolio", Len(got) + 1, r) /\ got # <<>> /\ Len(got) <= Len(got[1])
    BY <1>2, <2>1 DEF ReadOneBalance
  <2>3. question.op = "portfolio" /\ question # NoQuestion
    BY <2>2 DEF Select
  <2>4. PICK S : got \in Seq(S)
    BY DEF Reading, Marked
  <2>5. Len(got) \in Nat /\ 1 \in 1 .. Len(got)
    BY <2>2, <2>4
  <2>6. PICK T \in SUBSET AccountsOf(question.tenant) : got[1] = SetToSeq(T)
    BY <2>2, <2>3 DEF Reading, Listed
  <2>7. got'[1] = got[1] /\ question' = question
    <3>1. PICK g : g = got'
      OBVIOUS
    <3>2. g = Append(got, r)
      BY <2>2, <3>1 DEF Select
    <3>3. \A k \in 1 .. Len(got) : g[k] = got[k]
      BY <2>4, <3>2, Appended
    <3>4. QED
      BY <2>2, <2>5, <3>1, <3>3 DEF Select
  <2>8. Listed'
    BY <2>6, <2>7 DEF Listed
  <2>9. a \in Accounts
    <3>1. T \subseteq Accounts
      BY DEF AccountsOf
    <3>2. IsFiniteSet(T)
      BY <3>1, FS_Subset, ChartAssumption
    <3>3. PICK s : s = SetToSeq(T)
      OBVIOUS
    <3>4. Permutation(s, T)
      BY <3>2, <3>3, SeqPermutes
    <3>5. Len(got) \in DOMAIN s
      BY <2>2, <2>5, <2>6, <3>3, <3>4 DEF Permutation
    <3>6. QED
      BY <2>6, <3>1, <3>3, <3>4, <3>5 DEF Permutation
  <2>10. r = Signed(a, TotalsOf(journal, 1 .. Len(journal), a))
    BY <2>1, <2>9 DEF Ledger, Booked
  <2>11. PortfolioAnswer(journal, question, Len(got) + 1, Len(journal), got[1], r)
    <3>1. (Len(got) + 1) - 1 = Len(got)
      BY <2>5
    <3>2. QED
      BY <2>10, <3>1 DEF PortfolioAnswer
  <2>12. Answers(journal, question, Len(got) + 1, Len(journal), IF got = <<>> THEN r ELSE got[1], r)
    BY <2>2, <2>3, <2>11 DEF Answers
  <2> HIDE DEF a
  <2>13. QED
    BY <2>2, <2>8, <2>12, SelectReading
<1>3. QED
  BY <1>1, <1>2

\* The limit of a page.
LEMMA LimitFacts ==
  ASSUME Reading, question # NoQuestion, question.op \in {"search", "list"}
  PROVE  question.limit \in Nat /\ question.limit > 0
BY QuestionAssumption DEF Reading

\* The counts and the pages of a search.
LEMMA SearchReads ==
  ASSUME Ledger, Reading, CountMatches \/ ReadPage
  PROVE  Reading'
<1> DEFINE M == MatchesOf(journal, Len(journal), question)
           m == PagesRead
           limit == question.limit
<1>1. M = Matches
  BY NowSeen
<1>2. question # NoQuestion /\ question.op = "search"
  BY DEF CountMatches, ReadPage
<1>3. limit \in Nat
  BY <1>2, LimitFacts
<1>4. Len(got) \in Nat
  <2>1. PICK S : got \in Seq(S)
    BY DEF Reading, Marked
  <2>2. QED
    BY <2>1
<1>5. m \in Nat
  BY <1>4 DEF PagesRead
<1> HIDE DEF m, M, limit
<1>6. ASSUME NEW r, Select("search", Len(got) + 1, r), SearchAnswer(journal, question, Len(got) + 1, Len(journal), r)
      PROVE  Reading'
  <2>1. Answers(journal, question, Len(got) + 1, Len(journal), IF got = <<>> THEN r ELSE got[1], r)
    BY <1>2, <1>6 DEF Answers
  <2>2. "search" # "portfolio"
    OBVIOUS
  <2>3. QED
    BY <1>6, <2>1, <2>2, SelectAnswers
<1>7. CASE CountMatches
  <2>1. PICK r : r = Cardinality(Matches)
    OBVIOUS
  <2>2. Select("search", Len(got) + 1, r) /\ Len(got) = 2 * m
    BY <1>7, <2>1 DEF CountMatches, m
  <2>3. \A p \in Nat : Len(got) + 1 # 2 * p + 2
    BY <1>5, <2>2
  <2>4. SearchAnswer(journal, question, Len(got) + 1, Len(journal), r)
    BY <1>1, <2>1, <2>3 DEF SearchAnswer, M
  <2>5. QED
    BY <1>6, <2>2, <2>4
<1>8. CASE ReadPage
  <2>1. PICK o, r : o = m * limit /\ r = Page(o, limit)
    OBVIOUS
  <2>2. Select("search", Len(got) + 1, r) /\ Len(got) = 2 * m + 1
    BY <1>8, <2>1 DEF ReadPage, m, limit
  <2>3. o \in Nat
    BY <1>3, <1>5, <2>1
  <2>4. Shows(journal, M, r, o, limit)
    <3>1. Ordered(journal, M)
      BY EntriesOrdered DEF M, MatchesOf, Seen
    <3>2. r = [i \in 1 .. Min({limit, Cardinality(M) - o}) |-> journal[Ranked(M, o + i)].id]
      BY <1>1, <2>1 DEF Page
    <3>3. Shows(journal, M, [i \in 1 .. Min({limit, Cardinality(M) - o}) |-> journal[Ranked(M, o + i)].id], o, limit)
      BY <1>3, <2>3, <3>1, PageShows
    <3>4. QED
      BY <3>2, <3>3
  <2>5. \A p \in Nat : Len(got) + 1 # 2 * p + 1 /\ (Len(got) + 1 = 2 * p + 2 => p = m)
    BY <1>5, <2>2
  <2>6. SearchAnswer(journal, question, Len(got) + 1, Len(journal), r)
    BY <2>1, <2>4, <2>5 DEF SearchAnswer, M, limit
  <2>7. QED
    BY <1>6, <2>2, <2>6
<1>9. QED
  BY <1>7, <1>8

\* The pages of a list.
LEMMA ListReads ==
  ASSUME Ledger, Reading, ReadListPage
  PROVE  Reading'
<1> DEFINE K == Seen(journal, Len(journal), question.tenant)
           m == Len(got)
           limit == question.limit
           offset == m * limit
<1>1. K = TenantEntries
  BY NowSeen
<1>2. question # NoQuestion /\ question.op = "list"
  BY DEF ReadListPage
<1>3. limit \in Nat
  BY <1>2, LimitFacts
<1>4. m \in Nat
  <2>1. PICK S : got \in Seq(S)
    BY DEF Reading, Marked
  <2>2. QED
    BY <2>1
<1>5. PICK s \in SetToSeqs(TenantEntries) :
        /\ \A i, j \in DOMAIN s : i < j => journal[s[i]].created >= journal[s[j]].created
        /\ Select("list", Len(got) + 1, [i \in 1 .. Min({limit, Len(s) - offset}) |-> journal[s[offset + i]].id])
  BY DEF ReadListPage
<1>6. PICK r : r = [i \in 1 .. Min({limit, Len(s) - offset}) |-> journal[s[offset + i]].id]
  OBVIOUS
<1>7. PICK o \in Nat : o = offset
  BY <1>3, <1>4
<1>8. /\ Select("list", m + 1, r)
      /\ r = [i \in 1 .. Min({limit, Len(s) - o}) |-> journal[s[o + i]].id]
  BY <1>5, <1>6, <1>7
<1>9. Ordered(journal, K)
  BY EntriesOrdered DEF Seen
<1>10. Permutation(s, K)
  BY <1>1, <1>5, <1>9, SeqsPermute DEF Ordered
<1> HIDE DEF K, m, limit, offset
<1>11. DatesDiffer(journal, K) => Shows(journal, K, r, o, limit)
  <2>1. HAVE DatesDiffer(journal, K)
  <2>2. Shows(journal, K, [i \in 1 .. Min({limit, Len(s) - o}) |-> journal[s[o + i]].id], o, limit)
    BY <1>3, <1>5, <1>7, <1>9, <1>10, <2>1, ListShows
  <2>3. QED
    BY <1>8, <2>2
<1>12. Len(r) < limit => Cardinality(K) < (m + 1) * limit
  <2>1. HAVE Len(r) < limit
  <2>2. PICK c \in Nat : c = Len(s) /\ c = Cardinality(K)
    BY <1>10 DEF Permutation
  <2>3. PICK b \in Int : b = c - o
    BY <1>7, <2>2
  <2>4. PICK z \in Int : z = Min({limit, b}) /\ z \in {limit, b} /\ z <= limit /\ z <= b
    <3>1. limit \in Int
      BY <1>3
    <3>2. Min({limit, b}) \in {limit, b} /\ Min({limit, b}) <= limit /\ Min({limit, b}) <= b
      BY <3>1, SmallerOfTwo
    <3>3. QED
      BY <3>1, <3>2
  <2>5. z # limit
    <3>1. SUFFICES ASSUME z = limit PROVE FALSE
      OBVIOUS
    <3>2. r = [i \in 1 .. limit |-> journal[s[o + i]].id]
      BY <1>8, <2>2, <2>3, <2>4, <3>1
    <3>3. Len(r) = limit
      BY <1>3, <3>2
    <3>4. QED
      BY <1>3, <2>1, <3>3
  <2>6. c - o < limit
    BY <1>3, <2>3, <2>4, <2>5
  <2>7. o + limit = (m + 1) * limit
    BY <1>3, <1>4, <1>7 DEF offset
  <2>8. QED
    BY <1>3, <1>7, <2>2, <2>6, <2>7
<1>13. ListAnswer(journal, question, m + 1, Len(journal), r)
  <2>1. ((m + 1) - 1) * limit = o
    BY <1>3, <1>4, <1>7 DEF offset
  <2>2. QED
    BY <1>11, <1>12, <2>1 DEF ListAnswer, K, limit
<1>14. Answers(journal, question, Len(got) + 1, Len(journal), IF got = <<>> THEN r ELSE got[1], r)
  BY <1>2, <1>13 DEF Answers, m
<1>15. "list" # "portfolio"
  OBVIOUS
<1>16. Select("list", Len(got) + 1, r)
  BY <1>8 DEF m
<1>17. QED
  BY <1>14, <1>15, <1>16, SelectAnswers

\* A question has no answers yet.
LEMMA AskReading ==
  ASSUME Ledger, Reading, Ask
  PROVE  Reading'
<1>1. /\ question = NoQuestion /\ question' \in Questions
      /\ UNCHANGED <<ledgerVars, got, marks>>
  BY DEF Ask
<1>2. got = <<>>
  BY <1>1 DEF Reading
<1>3. Len(got) = 0
  BY <1>2
<1>4. Marked'
  BY <1>1 DEF Reading, Marked, ledgerVars, database
<1>5. Listed'
  BY <1>1, <1>2 DEF Listed
<1>6. Len(got') = 0
  BY <1>1, <1>3
<1>7. \A i \in 1 .. Len(got') : FALSE
  BY <1>6
<1>8. QED
  BY <1>1, <1>2, <1>4, <1>5, <1>7, QuestionAssumption DEF Reading

\* Every read keeps what holds of the reader.
LEMMA ReadReading ==
  ASSUME Ledger, Reading, Read
  PROVE  Reading'
<1>1. CASE ReadIncome
  <2>1. PICK r : Select("income", 1, r)
    BY <1>1 DEF ReadIncome
  <2>2. question.op = "income"
    BY <2>1 DEF Select
  <2>3. Answers(journal, question, Len(got) + 1, Len(journal), IF got = <<>> THEN r ELSE got[1], r)
    BY <2>2 DEF Answers
  <2>4. "income" # "portfolio"
    OBVIOUS
  <2>5. QED
    BY <2>1, <2>3, <2>4, SelectAnswers
<1>2. QED
  BY <1>1, SheetReads, AuditReads, AccountReads, PortfolioReads, SearchReads, ListReads DEF Read

-------------------------------------------------------------------------------

Inv == Ledger /\ Reading

\* The invariant holds at the start.
LEMMA InitInv == ReportsInit => Inv
BY InitLedger, InitReading DEF ReportsInit, Inv

\* Every step keeps it: a commit lengthens the journal and leaves the answers true of
\* their prefixes, a read adds an answer.
LEMMA NextInv ==
  ASSUME Inv, [Next]_vars
  PROVE  Inv'
<1>1. Ledger /\ Reading
  BY DEF Inv
<1>2. Ledger'
  BY <1>1, NextLedger
<1>3. Grown /\ Len(journal') \in Nat /\ Len(journal) <= Len(journal')
  BY <1>1, StepGrows
<1>4. ASSUME UNCHANGED reader, \A a \in Accounts : active'[a] => active[a]
      PROVE  Reading'
  BY <1>1, <1>3, <1>4, ReadingKept
<1>5. ASSUME Ask \/ Read
      PROVE  Reading'
  BY <1>1, <1>5, AskReading, ReadReading
<1>6. ASSUME NEW w \in Posts, Enters(w)
      PROVE  Reading'
  BY <1>4, <1>6 DEF Enters
<1>7. Reading'
  BY <1>1, <1>4, <1>5, <1>6, StepKinds
<1>8. QED
  BY <1>2, <1>7 DEF Inv

\* The invariant the report theorems rest on, in every behaviour: what holds of the
\* ledger (balanced entries, balances that are their sums), and every SELECT of the
\* report so far returned what the entries committed when it ran add up to.
THEOREM ReportsInvariant == Spec => []Inv
<1>1. ReportsInit => Inv
  BY InitInv
<1>2. Inv /\ [Next]_vars => Inv'
  BY NextInv
<1>3. QED
  BY <1>1, <1>2, PTL DEF Spec

-------------------------------------------------------------------------------
(* A closed period.                                                            *)

\* The postings of a tenant before an instant.
PostingsBefore(t, instant) == {p \in Postings(t) : p.created < instant}

\* An entry whose call began after the end of a period is not in it.
LEMMA CommitAfter ==
  ASSUME Inv, NEW w \in Posts, Enters(w), NEW t, NEW end \in Int, began[w] >= end
  PROVE  PostingsBefore(t, end)' = PostingsBefore(t, end)
<1> DEFINE n == Len(journal)
           S == Seen(journal, n, t)
           T == {k \in DOMAIN journal' : journal'[k].tenant = t}
<1>1. /\ Grown /\ n \in Nat
      /\ DOMAIN journal' = 1 .. (n + 1)
      /\ journal'[n + 1] = Entry(w, draft[w], balance, began[w], clock)
  BY CommitFacts DEF Inv
<1>2. journal'[n + 1].created = began[w]
  BY <1>1 DEF Entry
<1>3. began[w] \in Nat
  BY DEF Inv, Ledger, LedgerTyping, Drafted, Enters
<1>4. Postings(t) = PostingsOf(journal, S) /\ Postings(t)' = PostingsOf(journal', T)
  BY NowSeen DEF Inv, Postings
<1>5. \A k \in 1 .. (n + 1) : k \in 1 .. n \/ k = n + 1
  BY <1>1
<1>6. \A k \in T : (k \in S /\ journal'[k] = journal[k]) \/ k = n + 1
  BY <1>1, <1>5 DEF Grown, Seen
<1>7. \A k \in S : k \in T /\ journal'[k] = journal[k]
  BY <1>1, <1>5 DEF Grown, Seen
<1> HIDE DEF n, S, T
<1>8. ASSUME NEW p \in PostingsOf(journal', T), p.created < end
      PROVE  p \in PostingsOf(journal, S)
  <2>1. PICK g : g = journal'
    OBVIOUS
  <2>2. /\ p.entry \in T /\ p.line \in DOMAIN g[p.entry].lines
        /\ p = Posting(g[p.entry], p.entry, p.line)
    BY <1>8, <2>1, PostingsOfEntries
  <2>3. p.created = g[p.entry].created
    BY <2>2 DEF Posting
  <2>4. p.entry # n + 1
    BY <1>2, <1>3, <1>8, <2>1, <2>3
  <2>5. p.entry \in S /\ g[p.entry] = journal[p.entry]
    BY <1>6, <2>1, <2>2, <2>4
  <2>6. QED
    BY <2>2, <2>5 DEF PostingsOf
<1>9. PostingsOf(journal, S) \subseteq PostingsOf(journal', T)
  BY <1>7 DEF PostingsOf
<1>10. QED
  BY <1>4, <1>8, <1>9 DEF PostingsBefore

\* When every open call began after the end of a period, no step changes its income.
LEMMA StepClosed ==
  ASSUME Inv, [Next]_vars, NEW t, NEW end \in Int,
         \A w \in Posts : pc[w] = "open" => began[w] >= end
  PROVE  IncomeBefore(t, end)' = IncomeBefore(t, end)
<1>1. PostingsBefore(t, end)' = PostingsBefore(t, end)
  <2>1. CASE \E w \in Posts : Enters(w)
    <3>1. PICK w \in Posts : Enters(w)
      BY <2>1
    <3>2. began[w] >= end
      BY <3>1 DEF Enters
    <3>3. QED
      BY <3>1, <3>2, CommitAfter
  <2>2. CASE UNCHANGED journal
    BY <2>2 DEF PostingsBefore, Postings
  <2>3. QED
    BY <2>1, <2>2, StepKinds DEF Inv
<1>2. IncomeBefore(t, end) = Activity(PostingsBefore(t, end), IncomeTypes, AnyCurrency)
  BY DEF IncomeBefore, PostingsBefore
<1>3. IncomeBefore(t, end)' = Activity(PostingsBefore(t, end)', IncomeTypes, AnyCurrency)
  BY DEF IncomeBefore, PostingsBefore, Activity, ByAccount, SideSum
<1>4. QED
  BY <1>1, <1>2, <1>3

\* A closed period is final (income_statement, reporting.py): once the clock is past its
\* end and every open call of post_transaction began after it, no step changes its income.
THEOREM ClosedPeriodsFinal == Spec => ClosedPeriodFinal
<1> DEFINE Final ==
      \A tenant \in Tenants : \A day \in 0 .. DayOf(MaxClock) :
        LET end == EndExclusive(Date(day))
        IN (clock >= end /\ \A w \in Posts : pc[w] = "open" => began[w] >= end) =>
             IncomeBefore(tenant, end)' = IncomeBefore(tenant, end)
<1>1. ASSUME Inv, [Next]_vars
      PROVE  Final
  <2>1. TAKE tenant \in Tenants
  <2>2. TAKE day \in 0 .. DayOf(MaxClock)
  <2>3. EndExclusive(Date(day)) \in Int
    <3>1. EndExclusive(Date(day)) = day * DayLength + DayLength
      <4>1. Date(day) \in [day : Int, time : {NoTime}, offset : {NoOffset}]
        BY DEF Date
      <4>2. Date(day) # NoBound
        BY <4>1, BoundAssumption
      <4>3. QED
        BY <4>2 DEF EndExclusive, Parse, Date, DateOnly, Midnight
    <3>2. day * DayLength \in Int
      BY DayAssumption
    <3>3. QED
      BY <3>1, <3>2, DayAssumption
  <2>4. PICK end \in Int : end = EndExclusive(Date(day))
    BY <2>3
  <2>5. (\A w \in Posts : pc[w] = "open" => began[w] >= end) =>
          IncomeBefore(tenant, end)' = IncomeBefore(tenant, end)
    BY <1>1, StepClosed
  <2>6. QED
    BY <2>4, <2>5
<1>2. QED
  BY <1>1, ReportsInvariant, PTL DEF Spec, ClosedPeriodFinal

-------------------------------------------------------------------------------
(* The reports.                                                                *)

\* The i-th SELECT.
LEMMA AnswerFacts ==
  ASSUME Inv, NEW op, NEW n \in Nat, Complete(op, n)
  PROVE  /\ question \in Questions /\ question.op = op /\ Len(got) = n
         /\ Len(journal) \in Nat /\ DOMAIN journal = 1 .. Len(journal)
         /\ \A i \in 1 .. n : marks[i] \in 0 .. Len(journal) /\ marks[i] \in Nat
         /\ \A i, k \in 1 .. n : i <= k => marks[i] <= marks[k]
         /\ \A i \in 1 .. n : Answers(journal, question, i, marks[i], got[1], got[i])
<1>1. Len(journal) \in Nat /\ DOMAIN journal = 1 .. Len(journal)
  BY JournalFacts DEF Inv, Ledger
<1>2. question \in Questions /\ question.op = op /\ Len(got) = n
  BY DEF Complete, Inv, Reading
<1>3. \A i \in 1 .. n : marks[i] \in 0 .. Len(journal)
  BY <1>2 DEF Inv, Reading, Marked
<1>4. \A i, k \in 1 .. n : i <= k => marks[i] <= marks[k]
  BY <1>2 DEF Inv, Reading, Marked
<1>5. \A i \in 1 .. n : Answers(journal, question, i, marks[i], got[1], got[i])
  BY <1>2 DEF Inv, Reading
<1>6. QED
  BY <1>1, <1>2, <1>3, <1>4, <1>5

\* What a tenant's entries have in common.
LEMMA SeenFacts ==
  ASSUME Inv, NEW n \in 0 .. Len(journal), NEW t, NEW K, K \subseteq Seen(journal, n, t)
  PROVE  /\ K \subseteq 1 .. n /\ 1 .. n \subseteq DOMAIN journal /\ K \subseteq DOMAIN journal
         /\ Counted(journal, K) /\ Counted(journal, 1 .. n)
         /\ Within(journal, K, AccountsOf(t)) /\ Within(journal, K, Accounts)
         /\ AccountsOf(t) \subseteq Accounts
         /\ \A k \in K : Balanced(LinesAt(journal, k))
<1>1. /\ Len(journal) \in Nat /\ DOMAIN journal = 1 .. Len(journal)
      /\ \A L : L \subseteq DOMAIN journal => Counted(journal, L)
  BY JournalFacts DEF Inv, Ledger
<1>2. K \subseteq 1 .. n /\ 1 .. n \subseteq DOMAIN journal /\ K \subseteq DOMAIN journal
  BY <1>1 DEF Seen
<1>3. \A k \in K : journal[k].tenant = t
  BY DEF Seen
<1>4. \A k \in K : Sound(journal[k], clock)
  BY <1>1, <1>2 DEF Inv, Ledger, Recordings
<1>5. AccountsOf(t) \subseteq Accounts
  BY DEF AccountsOf
<1>6. Within(journal, K, AccountsOf(t))
  BY <1>3, <1>4 DEF Within, Sound, LinesAt
<1>7. Within(journal, K, Accounts)
  BY <1>5, <1>6 DEF Within
<1>8. \A k \in K : Balanced(LinesAt(journal, k))
  BY <1>4 DEF Sound, LinesAt
<1>9. QED
  BY <1>1, <1>2, <1>5, <1>6, <1>7, <1>8

\* Only the entries of its tenant touch an account.
LEMMA TenantTotals ==
  ASSUME Inv, NEW n \in 0 .. Len(journal), NEW t, NEW a \in AccountsOf(t)
  PROVE  TotalsOf(journal, 1 .. n, a) = TotalsOf(journal, Seen(journal, n, t), a)
<1> DEFINE K == Seen(journal, n, t)
<1>1. K \subseteq 1 .. n
  BY DEF Seen
<1>2. PICK L : L = 1 .. n
  OBVIOUS
<1>3. ASSUME NEW k \in L \ K, NEW i \in DOMAIN journal[k].lines
      PROVE  journal[k].lines[i].account # a
  <2>1. k \in 1 .. n /\ journal[k].tenant # t
    BY <1>2, <1>3 DEF Seen
  <2>2. Len(journal) \in Nat
    BY JournalFacts DEF Inv, Ledger
  <2>3. Sound(journal[k], clock)
    BY <2>1, <2>2 DEF Inv, Ledger, Recordings
  <2>4. journal[k].lines[i].account \in AccountsOf(journal[k].tenant)
    BY <2>3 DEF Sound
  <2>5. QED
    BY <2>1, <2>4 DEF AccountsOf
<1>4. K \subseteq L
  BY <1>1, <1>2
<1> HIDE DEF K
<1>5. TotalsOf(journal, L, a) = TotalsOf(journal, K, a)
  BY <1>3, <1>4, TotalsIdle
<1>6. QED
  BY <1>2, <1>5 DEF K

-------------------------------------------------------------------------------
(* The audits.                                                                 *)

\* What the accounts of a currency were debited is what they were credited.
LEMMA StoredBalanced ==
  ASSUME Inv, NEW n \in 0 .. Len(journal), NEW t
  PROVE  TrialBalanced(Stored(journal, n, t))
<1> DEFINE K == Seen(journal, n, t)
           U == AccountsOf(t)
           stored == Stored(journal, n, t)
<1>1. /\ Counted(journal, K) /\ Within(journal, K, U) /\ U \subseteq Accounts
      /\ \A k \in K : Balanced(LinesAt(journal, k))
  BY SeenFacts
<1>2. DOMAIN stored = U /\ \A a \in U : stored[a] = TotalsOf(journal, K, a)
  BY TenantTotals DEF Stored
<1> HIDE DEF K, U, stored
<1>3. ASSUME NEW c \in Currencies
      PROVE  SumFunction([a \in InCurrency(U, c) |-> stored[a].debits]) =
             SumFunction([a \in InCurrency(U, c) |-> stored[a].credits])
  <2> DEFINE A == InCurrency(U, c)
             f == [a \in A |-> stored[a].debits]
             g == [a \in A |-> stored[a].credits]
  <2>1. IsFiniteSet(A)
    BY <1>1, SomeAccounts
  <2>2. A \subseteq U
    BY DEF InCurrency
  <2>3. \A a \in A : f[a] = Mass(journal, K, Only(a), "debit")
    BY <1>2, <2>2 DEF TotalsOf
  <2>4. \A a \in A : g[a] = Mass(journal, K, Only(a), "credit")
    BY <1>2, <2>2 DEF TotalsOf
  <2>5. DOMAIN f = A /\ DOMAIN g = A
    OBVIOUS
  <2>6. Mass(journal, K, A, "debit") = Mass(journal, K, A, "credit")
    BY <1>1, CurrencyBalanced
  <2> HIDE DEF A, f, g
  <2>7. Mass(journal, K, A, "debit") = SumFunctionOnSet(f, A)
    BY <1>1, <2>1, <2>3, MassByAccount
  <2>8. Mass(journal, K, A, "credit") = SumFunctionOnSet(g, A)
    BY <1>1, <2>1, <2>4, MassByAccount
  <2>9. SumFunction(f) = SumFunction(g)
    BY <2>5, <2>6, <2>7, <2>8 DEF SumFunction
  <2>10. QED
    BY <2>9 DEF f, g, A
<1>4. \A c : {a \in DOMAIN stored : CurrencyOf[a] = c} = InCurrency(U, c)
  BY <1>2 DEF InCurrency
<1>5. TrialBalanced(stored)
  <2>1. SUFFICES ASSUME NEW c \in Currencies
                 PROVE  SumFunction([a \in {b \in DOMAIN stored : CurrencyOf[b] = c} |-> stored[a].debits]) =
                        SumFunction([a \in {b \in DOMAIN stored : CurrencyOf[b] = c} |-> stored[a].credits])
    BY DEF TrialBalanced
  <2>2. {b \in DOMAIN stored : CurrencyOf[b] = c} = InCurrency(U, c)
    BY <1>4
  <2>3. QED
    BY <1>3, <2>2
<1>6. QED
  BY <1>5 DEF stored

\* An alarm has a posting that made it.
LEMMA DriftExplained ==
  ASSUME Inv, Complete("integrity", 2), NEW a \in Discrepancies(got[1], got[2])
  PROVE  \E k \in CommittedBetween(1, 2) : \E i \in DOMAIN journal[k].lines :
           journal[k].tenant = question.tenant /\ journal[k].lines[i].account = a
<1> DEFINE t == question.tenant
           m == marks[1]
           n == marks[2]
           K == Seen(journal, m, t)
           U == AccountsOf(t)
           computed == got[1]
           stored == got[2]
<1>1. /\ question.op = "integrity"
      /\ Len(journal) \in Nat /\ DOMAIN journal = 1 .. Len(journal)
      /\ m \in 0 .. Len(journal) /\ n \in 0 .. Len(journal) /\ m <= n
      /\ Answers(journal, question, 1, m, got[1], got[1])
      /\ Answers(journal, question, 2, n, got[1], got[2])
  BY AnswerFacts
<1>2. computed = ByAccount(PostingsOf(journal, K)) /\ stored = Stored(journal, n, t)
  <2>1. IntegrityAnswer(journal, question, 1, m, got[1]) /\ IntegrityAnswer(journal, question, 2, n, got[2])
    BY <1>1 DEF Answers
  <2>2. QED
    BY <2>1 DEF IntegrityAnswer
<1> HIDE DEF m, n, K, U
<1>3. Within(journal, K, U)
  BY <1>1, SeenFacts DEF K, U, t
<1>4. TouchedBy(journal, K) \subseteq U
  BY <1>3, TouchedWithin
<1>5. /\ DOMAIN computed = TouchedBy(journal, K)
      /\ \A x \in TouchedBy(journal, K) : computed[x] = TotalsOf(journal, K, x)
  <2>1. PostingsOn(journal, K, U) = PostingsOf(journal, K)
    BY <1>4 DEF PostingsOn, TouchedBy
  <2>2. /\ DOMAIN ByAccount(PostingsOn(journal, K, U)) = TouchedBy(journal, K) \intersect U
        /\ \A x \in TouchedBy(journal, K) \intersect U :
             ByAccount(PostingsOn(journal, K, U))[x] = TotalsOf(journal, K, x)
    BY ByAccountTotals
  <2>3. QED
    BY <1>2, <1>4, <2>1, <2>2
<1>6. DOMAIN stored = U /\ \A x \in U : stored[x] = TotalsOf(journal, 1 .. n, x)
  BY <1>2 DEF Stored, U, n
<1> DEFINE at(f, x) == IF x \in DOMAIN f THEN f[x] ELSE ZeroTotals
<1>7. a \in DOMAIN computed \union DOMAIN stored /\ at(computed, a) # at(stored, a)
  BY DEF Discrepancies
<1> HIDE DEF computed, stored
<1>8. a \in U
  BY <1>4, <1>5, <1>6, <1>7
<1>9. at(computed, a) = TotalsOf(journal, K, a)
  BY <1>5, UntouchedTotals
<1>10. at(stored, a) = TotalsOf(journal, 1 .. n, a)
  BY <1>6, <1>8
<1> HIDE DEF at
<1>11. PICK L : L = 1 .. n
  OBVIOUS
<1>12. K \subseteq L
  BY <1>1, <1>11 DEF K, Seen
<1>13. PICK k \in L \ K : \E i \in DOMAIN journal[k].lines : journal[k].lines[i].account = a
  <2>1. TotalsOf(journal, L, a) # TotalsOf(journal, K, a)
    BY <1>7, <1>9, <1>10, <1>11
  <2>2. QED
    BY <1>12, <2>1, TotalsIdle
<1>14. PICK i \in DOMAIN journal[k].lines : journal[k].lines[i].account = a
  BY <1>13
<1>15. journal[k].tenant = t
  <2>1. Sound(journal[k], clock)
    BY <1>1, <1>11, <1>13 DEF Inv, Ledger, Recordings
  <2>2. journal[k].lines[i].account \in AccountsOf(journal[k].tenant)
    BY <1>14, <2>1 DEF Sound
  <2>3. QED
    BY <1>8, <1>14, <2>2 DEF U, AccountsOf
<1>16. k \in CommittedBetween(1, 2)
  <2>1. k \notin 1 .. m
    BY <1>13, <1>15 DEF K, Seen
  <2>2. QED
    BY <1>1, <1>11, <1>13, <2>1 DEF CommittedBetween, m, n
<1>17. QED
  BY <1>14, <1>15, <1>16

\* An audit that alarms saw a posting between its two SELECTs.
LEMMA InvAudits == Inv => AuditsTruthful
<1> SUFFICES ASSUME Inv PROVE AuditsTruthful
  OBVIOUS
<1>1. ASSUME Complete("trial", 1) PROVE TrialBalanced(got[1])
  <2>1. /\ question.op = "trial" /\ marks[1] \in 0 .. Len(journal)
        /\ Answers(journal, question, 1, marks[1], got[1], got[1])
    BY <1>1, AnswerFacts
  <2>2. got[1] = Stored(journal, marks[1], question.tenant)
    BY <2>1 DEF Answers, TrialAnswer
  <2>3. PICK n \in 0 .. Len(journal) : n = marks[1]
    BY <2>1
  <2>4. TrialBalanced(Stored(journal, n, question.tenant))
    BY StoredBalanced
  <2>5. QED
    BY <2>2, <2>3, <2>4
<1>2. QED
  BY <1>1, DriftExplained DEF AuditsTruthful

\* An audit that alarms means something (balances.py): the trial balance always balances,
\* and verify_integrity reports an account only if a posting of the tenant on it committed
\* between its two SELECTs.
THEOREM AuditsAreTruthful == Spec => []AuditsTruthful
<1>1. QED
  BY InvAudits, ReportsInvariant, PTL

-------------------------------------------------------------------------------
(* The balance sheet.                                                          *)

\* What it counts is the entries up to its date.
LEMMA SheetBalances ==
  ASSUME Inv, NEW n \in 0 .. Len(journal), NEW t, NEW K, K \subseteq Seen(journal, n, t),
         NEW currency, NEW c \in Currencies, currency \in {AnyCurrency, c}
  PROVE  SheetBalanced(ActivityOf(journal, K, BalanceTypes, currency),
                       ActivityOf(journal, K, IncomeTypes, currency), c)
<1> DEFINE U == AccountsOf(t)
           total(type) == Held(journal, K, OfKind(U, type, c), NormalBalance(type))
<1>1. /\ Counted(journal, K) /\ Within(journal, K, U) /\ U \subseteq Accounts
      /\ \A k \in K : Balanced(LinesAt(journal, k))
  BY SeenFacts
<1> HIDE DEF U
<1>2. ASSUME NEW types, NEW type \in types, type \in AccountType
      PROVE  Total(ActivityOf(journal, K, types, currency), type, c) = total(type)
  BY <1>1, <1>2, TotalIsHeld
<1> DEFINE B == ActivityOf(journal, K, BalanceTypes, currency)
           I == ActivityOf(journal, K, IncomeTypes, currency)
<1>3. /\ Total(B, "asset", c) = total("asset")
      /\ Total(B, "liability", c) = total("liability")
      /\ Total(B, "equity", c) = total("equity")
      /\ Total(I, "revenue", c) = total("revenue")
      /\ Total(I, "expense", c) = total("expense")
  <2> DEFINE T(type) == total(type)
  <2>1. "asset" \in BalanceTypes /\ "liability" \in BalanceTypes /\ "equity" \in BalanceTypes
        /\ "revenue" \in IncomeTypes /\ "expense" \in IncomeTypes
    BY DEF BalanceTypes, IncomeTypes
  <2>2. "asset" \in AccountType /\ "liability" \in AccountType /\ "equity" \in AccountType
        /\ "revenue" \in AccountType /\ "expense" \in AccountType
    BY DEF AccountType
  <2> HIDE DEF total
  <2>3. QED
    BY <1>2, <2>1, <2>2
<1>4. /\ \A type \in AccountType : total(type) \in Int
      /\ total("asset") = total("liability") + total("equity") + (total("revenue") - total("expense"))
  BY <1>1, Equation
<1> HIDE DEF total, B, I
<1>5. SheetBalanced(B, I, c)
  BY <1>3, <1>4 DEF SheetBalanced, NetIncome
<1>6. QED
  BY <1>5 DEF B, I

\* A report has only accounts that it counts.
LEMMA OnlyCounted ==
  ASSUME NEW j, NEW K, Within(j, K, Accounts), NEW kinds, NEW unit,
         NEW a, a \in DOMAIN ActivityOf(j, K, kinds, unit)
  PROVE  a \in Counts(kinds, unit)
<1> DEFINE act == ActivityOf(j, K, kinds, unit)
<1>1. /\ DOMAIN act = TouchedBy(j, K) \intersect Counts(kinds, unit)
      /\ \A x \in DOMAIN act : act[x] = TotalsOf(j, K, x)
  BY ActivityTotals
<1>2. QED
  BY <1>1

\* A sheet over one set of entries is balanced, and only a posting makes them two.
LEMMA InvSheet == Inv => SheetTornOnlyByPosting
<1> SUFFICES ASSUME Inv, Complete("sheet", 2),
                    \A k \in CommittedBetween(1, 2) :
                      ~(journal[k].tenant = question.tenant /\ journal[k].created <= AsOf(question.at)),
                    NEW c \in CurrenciesOf(got[1]) \union CurrenciesOf(got[2])
             PROVE  SheetBalanced(got[1], got[2], c)
  BY DEF SheetTornOnlyByPosting
<1> DEFINE t == question.tenant
           at == AsOf(question.at)
           m == marks[1]
           n == marks[2]
           K == SeenBy(journal, m, t, at)
           L == SeenBy(journal, n, t, at)
           unit == question.currency
<1>1. /\ question.op = "sheet"
      /\ Len(journal) \in Nat /\ DOMAIN journal = 1 .. Len(journal)
      /\ m \in 0 .. Len(journal) /\ n \in 0 .. Len(journal) /\ m <= n
      /\ Answers(journal, question, 1, m, got[1], got[1])
      /\ Answers(journal, question, 2, n, got[1], got[2])
  BY AnswerFacts
<1>2. /\ got[1] = ActivityOf(journal, K, BalanceTypes, unit)
      /\ got[2] = ActivityOf(journal, L, IncomeTypes, unit)
  <2>1. SheetAnswer(journal, question, 1, m, got[1]) /\ SheetAnswer(journal, question, 2, n, got[2])
    BY <1>1 DEF Answers
  <2>2. QED
    BY <2>1 DEF SheetAnswer
<1>3. L = K
  <2>1. K \subseteq L
    BY <1>1 DEF Seen, SeenBy
  <2>2. ASSUME NEW k \in L PROVE k \in K
    <3>1. k \in 1 .. n /\ journal[k].tenant = t /\ journal[k].created <= at
      BY DEF Seen, SeenBy
    <3>2. k \notin CommittedBetween(1, 2)
      BY <3>1
    <3>3. k \in 1 .. m
      BY <1>1, <3>1, <3>2 DEF CommittedBetween
    <3>4. QED
      BY <3>1, <3>3 DEF Seen, SeenBy
  <2>3. QED
    BY <2>1, <2>2
<1>4. K \subseteq Seen(journal, m, t)
  BY DEF SeenBy
<1> HIDE DEF K, L, m, n, t, at, unit
<1>5. Within(journal, K, Accounts)
  BY <1>1, <1>4, SeenFacts
<1>6. c \in Currencies /\ unit \in {AnyCurrency, c}
  <2>1. PICK types, a : a \in DOMAIN ActivityOf(journal, K, types, unit) /\ c = CurrencyOf[a]
    <3>1. (c \in CurrenciesOf(got[1])) \/ (c \in CurrenciesOf(got[2]))
      OBVIOUS
    <3>2. QED
      BY <1>2, <1>3, <3>1 DEF CurrenciesOf
  <2>2. a \in Counts(types, unit)
    BY <1>5, <2>1, OnlyCounted
  <2>3. QED
    BY <2>1, <2>2, ChartAssumption DEF Counts
<1>7. SheetBalanced(ActivityOf(journal, K, BalanceTypes, unit),
                    ActivityOf(journal, K, IncomeTypes, unit), c)
  BY <1>1, <1>4, <1>6, SheetBalances
<1>8. QED
  BY <1>2, <1>3, <1>7

\* A balance sheet (reporting.py) balances in every currency, unless a posting it has to
\* count was committed between its two reads of the activity.
THEOREM SheetsTornOnlyByPosting == Spec => []SheetTornOnlyByPosting
<1>1. QED
  BY InvSheet, ReportsInvariant, PTL

-------------------------------------------------------------------------------
(* The balance of one account.                                                 *)

\* The after of its last line is what all its entries add up to.
LEMMA HeldIsTotal ==
  ASSUME Inv, NEW n \in 0 .. Len(journal), NEW a
  PROVE  HeldAt(a, n) = Signed(a, TotalsOf(journal, 1 .. n, a))
<1> DEFINE mine == {k \in 1 .. n : \E i \in DOMAIN journal[k].lines : journal[k].lines[i].account = a}
<1>1. Len(journal) \in Nat
  BY JournalFacts DEF Inv, Ledger
<1>2. PICK L : L = 1 .. n
  OBVIOUS
<1>3. CASE mine = {}
  <2>1. PICK E : E = {}
    OBVIOUS
  <2>2. E \subseteq L /\ \A k \in L \ E : \A i \in DOMAIN journal[k].lines : journal[k].lines[i].account # a
    BY <1>2, <1>3, <2>1
  <2>3. TotalsOf(journal, L, a) = TotalsOf(journal, E, a)
    BY <2>2, TotalsIdle
  <2>4. TotalsOf(journal, L, a) = ZeroTotals
    BY <2>1, <2>3, TotalsEmpty
  <2>5. HeldAt(a, n) = 0
    BY <1>3 DEF HeldAt
  <2>6. QED
    BY <1>2, <2>4, <2>5, SignedZero
<1>4. CASE mine # {}
  <2>1. IsFiniteSet(mine) /\ mine \in SUBSET Nat
    <3>1. mine \in SUBSET (1 .. n) /\ n \in Nat
      BY <1>1
    <3> HIDE DEF mine
    <3>2. IsFiniteSet(1 .. n) /\ 1 .. n \subseteq Nat
      BY <3>1, PositionsFinite
    <3>3. QED
      BY <3>1, <3>2, FS_Subset
  <2>2. PICK m : m = Max(mine)
    OBVIOUS
  <2>3. m \in mine /\ \A y \in mine : y <= m
    <3> HIDE DEF mine
    <3>1. QED
      BY <1>4, <2>1, <2>2, MaxFacts
  <2>4. m \in 1 .. n /\ \E i \in DOMAIN journal[m].lines : journal[m].lines[i].account = a
    BY <2>3
  <2>5. EndsAt(journal, m)
    BY <1>1, <2>4 DEF Inv, Ledger, Recordings
  <2>6. a \in Touched(LinesAt(journal, m))
    BY <2>4 DEF Touched, LinesAt
  <2>7. LinesAt(journal, m)[LastLine(LinesAt(journal, m), a)].after = Signed(a, TotalsOf(journal, 1 .. m, a))
    BY <2>5, <2>6 DEF EndsAt
  <2>8. HeldAt(a, n) = LinesAt(journal, m)[LastLine(LinesAt(journal, m), a)].after
    BY <1>4, <2>2 DEF HeldAt, LastLine, LinesAt
  <2>9. PICK M : M = 1 .. m
    OBVIOUS
  <2>10. M \subseteq L
    BY <1>1, <1>2, <2>4, <2>9
  <2>11. \A k \in L \ M : \A i \in DOMAIN journal[k].lines : journal[k].lines[i].account # a
    <3>1. SUFFICES ASSUME NEW k \in L \ M, NEW i \in DOMAIN journal[k].lines, journal[k].lines[i].account = a
                   PROVE  FALSE
      OBVIOUS
    <3>2. k \in mine
      BY <1>2, <3>1
    <3>3. k <= m
      BY <2>3, <3>2
    <3>4. QED
      BY <1>1, <1>2, <2>4, <2>9, <3>1, <3>3
  <2> HIDE DEF mine
  <2>12. TotalsOf(journal, L, a) = TotalsOf(journal, M, a)
    BY <2>10, <2>11, TotalsIdle
  <2>13. QED
    BY <1>2, <2>7, <2>8, <2>9, <2>12
<1>5. QED
  BY <1>3, <1>4

\* The postings of an account add up to its balance.
LEMMA PostingsAddUp ==
  ASSUME Inv, NEW n \in 0 .. Len(journal), NEW t, NEW a \in AccountsOf(t)
  PROVE  LET S == OnAccount(journal, n, t, a)
         IN SumFunction([p \in S |-> Effect(p.account, p.direction, p.amount)]) = HeldAt(a, n)
<1> DEFINE K == Seen(journal, n, t)
<1>1. Counted(journal, K)
  BY SeenFacts
<1>2. TotalsOf(journal, 1 .. n, a) = TotalsOf(journal, K, a)
  BY TenantTotals
<1>3. HeldAt(a, n) = Signed(a, TotalsOf(journal, 1 .. n, a))
  BY HeldIsTotal
<1>4. PICK S : S = OnAccount(journal, n, t, a)
  OBVIOUS
<1>5. S = {p \in PostingsOf(journal, K) : p.account = a}
  BY <1>4 DEF OnAccount
<1> HIDE DEF K
<1>6. SumFunction([p \in S |-> Effect(p.account, p.direction, p.amount)]) = Signed(a, TotalsOf(journal, K, a))
  BY <1>1, <1>5, EffectsAddUp
<1>7. QED
  BY <1>2, <1>3, <1>4, <1>6

\* The postings carry the instants of their entries.
LEMMA PostingInstants ==
  ASSUME Inv, NEW n \in 0 .. Len(journal), NEW t, NEW a
  PROVE  \A p \in OnAccount(journal, n, t, a) :
           /\ p.entry \in Seen(journal, n, t) /\ p.created \in Nat
           /\ p.line \in DOMAIN journal[p.entry].lines
           /\ p = Posting(journal[p.entry], p.entry, p.line)
           /\ p.account = a /\ journal[p.entry].lines[p.line].account = a
           /\ p.created = journal[p.entry].created
<1> SUFFICES ASSUME NEW p \in OnAccount(journal, n, t, a)
             PROVE  /\ p.entry \in Seen(journal, n, t) /\ p.created \in Nat
                    /\ p.line \in DOMAIN journal[p.entry].lines
                    /\ p = Posting(journal[p.entry], p.entry, p.line)
                    /\ p.account = a /\ journal[p.entry].lines[p.line].account = a
                    /\ p.created = journal[p.entry].created
  OBVIOUS
<1>1. /\ p.entry \in Seen(journal, n, t) /\ p.line \in DOMAIN journal[p.entry].lines
      /\ p = Posting(journal[p.entry], p.entry, p.line) /\ p.account = a
  BY PostingsOfEntries DEF OnAccount
<1>2. p.created = journal[p.entry].created /\ journal[p.entry].lines[p.line].account = p.account
  BY <1>1 DEF Posting
<1>3. Len(journal) \in Nat
  BY JournalFacts DEF Inv, Ledger
<1>4. Sound(journal[p.entry], clock)
  BY <1>1, <1>3 DEF Inv, Ledger, Recordings, Seen
<1>5. QED
  BY <1>1, <1>2, <1>4 DEF Sound

\* There are finitely many.
LEMMA PostingsFinite ==
  ASSUME Inv, NEW n \in 0 .. Len(journal), NEW t, NEW a
  PROVE  IsFiniteSet(OnAccount(journal, n, t, a))
<1> DEFINE K == Seen(journal, n, t)
           S == OnAccount(journal, n, t, a)
<1>1. Counted(journal, K)
  BY SeenFacts
<1> HIDE DEF K
<1>2. \A d : IsFiniteSet(Of(journal, K, Only(a), d))
  BY <1>1, MassByEntry DEF Addable
<1>3. S \in SUBSET (Of(journal, K, Only(a), "debit") \union Of(journal, K, Only(a), "credit"))
  <2>1. ASSUME NEW p \in S PROVE p.direction \in Direction
    <3>1. /\ p.entry \in Seen(journal, n, t)
          /\ p.line \in DOMAIN journal[p.entry].lines
          /\ p = Posting(journal[p.entry], p.entry, p.line)
      BY PostingInstants
    <3>2. Lined(LinesAt(journal, p.entry))
      BY <1>1, <3>1 DEF Counted, K
    <3>3. QED
      BY <3>1, <3>2 DEF Lined, LinesAt, Posting
  <2>2. QED
    BY <2>1 DEF Of, Only, OnAccount, Direction, K
<1> HIDE DEF S
<1>4. IsFiniteSet(Of(journal, K, Only(a), "debit") \union Of(journal, K, Only(a), "credit"))
  BY <1>2, FS_Union
<1>5. QED
  BY <1>3, <1>4, FS_Subset DEF S

\* The instants before the end of a day are those of the days up to it.
LEMMA DayFacts ==
  ASSUME NEW x \in Nat, NEW day \in Int, DayOf(x) <= day
  PROVE  x <= EndOfDay(day)
<1> DEFINE D == DayLength
           q == x \div D
           e == day * D
<1>1. D \in Nat /\ D > 0
  BY DayAssumption
<1>2. q \in Int /\ x < q * D + D
  <2>1. q \in Int /\ x = q * D + (x % D) /\ x % D < D /\ x % D \in Int
    BY <1>1
  <2>2. q * D \in Int
    BY <1>1, <2>1
  <2>3. QED
    BY <1>1, <2>1, <2>2
<1>3. q * D <= e /\ e \in Int /\ q * D \in Int
  <2>1. q <= day
    BY DEF DayOf
  <2> HIDE DEF q
  <2>2. (day - q) * D >= 0
    BY <1>1, <1>2, <2>1
  <2>3. QED
    BY <1>1, <1>2, <2>2
<1>4. x <= e + D - 1
  <2> HIDE DEF q, e, D
  <2>1. PICK z \in Int : z = q * D
    BY <1>3
  <2>2. QED
    BY <1>1, <1>2, <1>3, <2>1
<1>5. QED
  BY <1>4 DEF EndOfDay, Midnight

\* A day is an integer.
LEMMA DayOfInt ==
  ASSUME NEW x \in Int
  PROVE  DayOf(x) \in Int
BY DayAssumption DEF DayOf

\* A later instant is not of an earlier day.
LEMMA DayOfMonotone ==
  ASSUME NEW x \in Int, NEW y \in Int, x <= y
  PROVE  DayOf(x) <= DayOf(y)
BY DayAssumption DEF DayOf

\* The bounds of a range are instants.
LEMMA StartInt ==
  ASSUME NEW text, Readable(text), text # NoBound
  PROVE  Start(text) \in Int
<1>1. \A d \in Int : Midnight(d) \in Int
  BY DayAssumption DEF Midnight
<1>2. QED
  BY <1>1 DEF Start, Parse, Readable, DateOnly

-------------------------------------------------------------------------------
(* The balance history.                                                        *)

\* The last of a range.
LEMMA LastOfRange ==
  ASSUME NEW a \in Int, NEW b \in Int, a <= b
  PROVE  Max(a .. b) = b
<1>1. b \in a .. b /\ \A y \in a .. b : b >= y
  OBVIOUS
<1>2. \A x \in a .. b : (\A y \in a .. b : x >= y) => x = b
  BY <1>1
<1>3. QED
  BY <1>1, <1>2 DEF Max

\* The chart ends no earlier than the day of the last posting.
LEMMA ChartFacts ==
  ASSUME NEW start, Readable(start), NEW D \in SUBSET Nat, IsFiniteSet(D), NEW now \in Nat
  PROVE  /\ FirstDay(start, D, now) \in Int
         /\ LastDay(start, NoBound, D, now) \in Int
         /\ \A x \in D : DayOf(x) <= LastDay(start, NoBound, D, now)
<1>1. FirstDay(start, D, now) \in Int
  <2>1. CASE start # NoBound
    <3>1. Start(start) \in Int
      BY <2>1, StartInt
    <3>2. QED
      BY <2>1, <3>1, DayOfInt DEF FirstDay
  <2>2. CASE start = NoBound /\ D # {}
    <3>1. PICK x \in Nat : x = Min(D)
      BY <2>2, MinFacts
    <3>2. QED
      BY <2>2, <3>1, DayOfInt DEF FirstDay
  <2>3. CASE start = NoBound /\ D = {}
    BY <2>3, DayOfInt DEF FirstDay
  <2>4. QED
    BY <2>1, <2>2, <2>3
<1>2. CASE D = {}
  <2>1. LastDay(start, NoBound, D, now) = FirstDay(start, D, now)
    BY <1>2 DEF LastDay
  <2>2. QED
    BY <1>1, <1>2, <2>1
<1>3. CASE D # {}
  <2>1. PICK m \in Nat : m = Max(D) /\ \A x \in D : x <= m
    BY <1>3, MaxFacts
  <2>2. PICK p \in Int, q \in Int : p = DayOf(m) /\ q = DayOf(now)
    BY DayOfInt
  <2>3. LastDay(start, NoBound, D, now) = Max({p, q})
    BY <1>3, <2>1, <2>2 DEF LastDay
  <2>4. Max({p, q}) \in {p, q} /\ Max({p, q}) >= p
    BY GreaterOfTwo
  <2>5. \A x \in D : DayOf(x) \in Int /\ DayOf(x) <= p
    BY <2>1, <2>2, DayOfInt, DayOfMonotone
  <2>6. PICK last \in Int : last = Max({p, q}) /\ last >= p
    BY <2>4
  <2>7. \A x \in D : DayOf(x) <= last
    BY <2>5, <2>6
  <2>8. QED
    BY <1>1, <2>3, <2>6, <2>7
<1>4. QED
  BY <1>2, <1>3

\* The last point of a chart counts every posting its SELECT returned.
LEMMA InvHistory == Inv => HistoryEndsAtBalance
<1> SUFFICES ASSUME Inv, Complete("history", 2), question.end = NoBound,
                    Points(got[1], got[2]) # << >>
             PROVE  Points(got[1], got[2])[Max(DOMAIN Points(got[1], got[2]))]
                      = HeldAt(question.account, marks[1])
  BY DEF HistoryEndsAtBalance
<1> DEFINE t == question.tenant
           a == question.account
           m == marks[1]
           S == OnAccount(journal, m, t, a)
           now == got[2]
           D == Instants(S)
           first == FirstDay(question.start, D, now)
           last == LastDay(question.start, NoBound, D, now)
           chart == Points(S, now)
<1>1. /\ question \in Questions /\ question.op = "history"
      /\ m \in 0 .. Len(journal)
      /\ Answers(journal, question, 1, m, got[1], got[1])
      /\ Answers(journal, question, 2, marks[2], got[1], got[2])
  BY AnswerFacts
<1>2. a \in AccountsOf(t) /\ now \in Nat /\ got[1] = S
  <2>1. HistoryAnswer(journal, question, 1, m, got[1]) /\ HistoryAnswer(journal, question, 2, marks[2], got[2])
    BY <1>1 DEF Answers
  <2>2. QED
    BY <2>1 DEF HistoryAnswer, Owned
<1>3. Readable(question.start)
  BY <1>1, QuestionAssumption
<1>4. IsFiniteSet(S) /\ \A p \in S : p.created \in Nat
  BY <1>1, PostingsFinite, PostingInstants
<1> HIDE DEF S
<1>5. IsFiniteSet(D) /\ D \in SUBSET Nat
  <2> DEFINE h == [p \in S |-> p.created]
  <2>1. D = {h[p] : p \in S}
    BY DEF Instants
  <2>2. h \in Surjection(S, D)
    BY <2>1 DEF Surjection
  <2> HIDE DEF D, h
  <2>3. IsFiniteSet(D)
    BY <1>4, <2>2, FS_Surjection
  <2>4. QED
    BY <1>4, <2>3 DEF D, Instants
<1>6. /\ first \in Int /\ last \in Int
      /\ \A x \in D : DayOf(x) <= last
  <2> HIDE DEF D
  <2>1. QED
    BY <1>2, <1>3, <1>5, ChartFacts
<1>7. chart = [day \in first .. last |-> Closing(S, day)]
  BY DEF Points, ChartDays
<1>8. chart # << >>
  BY <1>2
<1> HIDE DEF first, last, chart, now
<1>9. first <= last
  <2>1. SUFFICES ASSUME ~(first <= last) PROVE FALSE
    OBVIOUS
  <2>2. first .. last = {}
    BY <1>6, <2>1
  <2>3. chart = [day \in {} |-> Closing(S, day)]
    BY <1>7, <2>2
  <2>4. chart \in Seq({}) /\ Len(chart) = 0
    BY <2>3
  <2>5. QED
    BY <1>8, <2>4
<1>10. DOMAIN chart = first .. last /\ chart[last] = Closing(S, last)
  BY <1>6, <1>7, <1>9
<1>11. Max(DOMAIN chart) = last
  BY <1>6, <1>9, <1>10, LastOfRange
<1>12. {p \in S : p.created <= EndOfDay(last)} = S
  <2>1. ASSUME NEW p \in S PROVE p.created <= EndOfDay(last)
    <3>1. p.created \in D /\ p.created \in Nat
      BY <1>4 DEF Instants
    <3>2. PICK x \in Nat : x = p.created /\ DayOf(x) <= last
      BY <1>6, <3>1
    <3>3. QED
      BY <1>6, <3>2, DayFacts
  <2>2. QED
    BY <2>1
<1>13. Closing(S, last) = SumFunction([p \in S |-> Effect(p.account, p.direction, p.amount)])
  BY <1>12 DEF Closing
<1>14. SumFunction([p \in S |-> Effect(p.account, p.direction, p.amount)]) = HeldAt(a, m)
  BY <1>1, <1>2, PostingsAddUp DEF S
<1>15. QED
  BY <1>2, <1>10, <1>11, <1>13, <1>14 DEF chart, now

\* The last point of a balance history with no end (reporting.py) is the account's balance.
THEOREM HistoriesEndAtBalance == Spec => []HistoryEndsAtBalance
<1>1. QED
  BY InvHistory, ReportsInvariant, PTL

-------------------------------------------------------------------------------
(* The statement.                                                              *)

\* Every line on the account is one of its postings.
LEMMA LinePosting ==
  ASSUME Inv, NEW n \in 0 .. Len(journal), NEW t, NEW a \in AccountsOf(t),
         NEW k \in 1 .. n, NEW i \in DOMAIN journal[k].lines, journal[k].lines[i].account = a
  PROVE  Posting(journal[k], k, i) \in OnAccount(journal, n, t, a)
<1>1. Len(journal) \in Nat
  BY JournalFacts DEF Inv, Ledger
<1>2. Sound(journal[k], clock)
  BY <1>1 DEF Inv, Ledger, Recordings
<1>3. journal[k].tenant = t
  BY <1>2 DEF Sound, AccountsOf
<1>4. k \in Seen(journal, n, t)
  BY <1>3 DEF Seen
<1>5. Posting(journal[k], k, i) \in PostingsOf(journal, Seen(journal, n, t))
  BY <1>4 DEF PostingsOf
<1>6. Posting(journal[k], k, i).account = a
  BY DEF Posting
<1>7. QED
  BY <1>5, <1>6 DEF OnAccount

\* Where the account has no postings its totals stand.
LEMMA QuietBetween ==
  ASSUME Inv, NEW n \in 0 .. Len(journal), NEW t, NEW a \in AccountsOf(t),
         NEW lo \in Nat, NEW hi \in Nat, lo <= hi, hi <= n,
         \A p \in OnAccount(journal, n, t, a) : ~(lo < p.entry /\ p.entry <= hi)
  PROVE  TotalsOf(journal, 1 .. hi, a) = TotalsOf(journal, 1 .. lo, a)
<1>1. PICK K, L : K = 1 .. lo /\ L = 1 .. hi
  OBVIOUS
<1>2. Len(journal) \in Nat
  BY JournalFacts DEF Inv, Ledger
<1>3. K \subseteq L
  BY <1>1
<1>4. ASSUME NEW k \in L \ K, NEW i \in DOMAIN journal[k].lines, journal[k].lines[i].account = a
      PROVE  FALSE
  <2>1. k \in 1 .. n /\ lo < k /\ k <= hi
    BY <1>1, <1>2, <1>4
  <2>2. Posting(journal[k], k, i) \in OnAccount(journal, n, t, a)
    BY <1>4, <2>1, LinePosting
  <2>3. Posting(journal[k], k, i).entry = k
    BY DEF Posting
  <2>4. QED
    BY <2>1, <2>2, <2>3
<1>5. TotalsOf(journal, L, a) = TotalsOf(journal, K, a)
  BY <1>3, <1>4, TotalsIdle
<1>6. QED
  BY <1>1, <1>5

\* A sum of one term, and of none.
LEMMA SumSingle ==
  ASSUME NEW f, NEW x, f[x] \in Int
  PROVE  SumFunctionOnSet(f, Only(x)) = f[x]
<1>1. PICK E : E = {}
  OBVIOUS
<1>2. IsFiniteSet(E) /\ x \notin E /\ \A y \in E \union {x} : f[y] \in Int
  BY <1>1, FS_EmptySet
<1>3. PICK T : T = E \union {x}
  OBVIOUS
<1>4. SumFunctionOnSet(f, T) = f[x] + SumFunctionOnSet(f, E)
  BY <1>2, <1>3, SumAdd
<1>5. SumFunctionOnSet(f, E) = 0
  BY <1>1, SumEmpty
<1>6. T = Only(x)
  BY <1>1, <1>3 DEF Only
<1>7. QED
  BY <1>4, <1>5, <1>6

\* The only line of an entry on the account moves it by its effect.
LEMMA OneLine ==
  ASSUME Inv, NEW n \in 0 .. Len(journal), NEW t, NEW a \in AccountsOf(t),
         NEW p \in OnAccount(journal, n, t, a),
         \A r \in OnAccount(journal, n, t, a) : r.entry = p.entry => r = p
  PROVE  /\ p.entry \in 1 .. n
         /\ p.after = Signed(a, TotalsOf(journal, 1 .. p.entry, a))
         /\ p.after = Signed(a, TotalsOf(journal, 1 .. (p.entry - 1), a)) + Effect(a, p.direction, p.amount)
<1> DEFINE k == p.entry
           x == p.line
           lines == LinesAt(journal, k)
<1>1. Len(journal) \in Nat
  BY JournalFacts DEF Inv, Ledger
<1>2. /\ k \in Seen(journal, n, t)
      /\ x \in DOMAIN lines
      /\ p = Posting(journal[k], k, x)
      /\ lines[x].account = a
  BY PostingInstants DEF LinesAt
<1>3. k \in 1 .. n /\ k \in 1 .. Len(journal)
  BY <1>1, <1>2 DEF Seen
<1>4. Lined(lines) /\ EndsAt(journal, k)
  BY <1>3 DEF Inv, Ledger, Recordings, Sound, LinesAt
<1>5. p.after = lines[x].after /\ p.direction = lines[x].direction /\ p.amount = lines[x].amount
  BY <1>2 DEF Posting, LinesAt
<1>6. ASSUME NEW i \in DOMAIN lines, lines[i].account = a
      PROVE  i = x
  <2>1. Posting(journal[k], k, i) \in OnAccount(journal, n, t, a)
    BY <1>3, <1>6, LinePosting DEF LinesAt
  <2>2. Posting(journal[k], k, i).entry = k /\ Posting(journal[k], k, i).line = i
    BY DEF Posting
  <2>3. QED
    BY <2>1, <2>2
<1>7. {i \in DOMAIN lines : lines[i].account = a} = {x}
  BY <1>2, <1>6
<1>8. LastLine(lines, a) = x
  <2>1. x \in Nat
    BY <1>2, <1>4 DEF Lined
  <2>2. Max({x}) = x
    BY <2>1 DEF Max
  <2>3. QED
    BY <1>7, <2>2 DEF LastLine
<1>9. lines[x].after = Signed(a, TotalsOf(journal, 1 .. k, a))
  <2>1. a \in Touched(lines)
    BY <1>2 DEF Touched
  <2>2. QED
    BY <1>4, <1>8, <2>1 DEF EndsAt
<1>10. Signed(a, Delta(a, lines)) = Effect(a, lines[x].direction, lines[x].amount)
  <2> DEFINE f == AmountOf(lines)
             d == lines[x].direction
  <2>1. f[x] = lines[x].amount /\ f[x] \in Nat /\ d \in Direction
    BY <1>2, <1>4 DEF AmountOf, Lined
  <2>2. LinesOn(lines, Only(a), d) = Only(x) /\ LinesOn(lines, Only(a), Side(d)) = {}
    BY <1>7, <2>1 DEF LinesOn, Only, Side, Direction
  <2>3. SumFunctionOnSet(f, Only(x)) = f[x] /\ SumFunctionOnSet(f, {}) = 0
    <3> HIDE DEF f, x
    <3>1. f[x] \in Int
      BY <2>1
    <3>2. QED
      BY <3>1, SumSingle, SumEmpty
  <2>4. LineSum(lines, Only(a), d) = lines[x].amount /\ LineSum(lines, Only(a), Side(d)) = 0
    BY <2>1, <2>2, <2>3 DEF LineSum
  <2>5. Delta(a, lines) = [debits |-> LineSum(lines, Only(a), "debit"), credits |-> LineSum(lines, Only(a), "credit")]
    BY DeltaIsSum
  <2>6. CASE d = "debit"
    <3>1. Delta(a, lines) = [debits |-> lines[x].amount, credits |-> 0]
      BY <2>4, <2>5, <2>6 DEF Side
    <3>2. QED
      BY <2>1, <2>6, <3>1 DEF Signed, Effect, NormalBalance
  <2>7. CASE d = "credit"
    <3>1. Delta(a, lines) = [debits |-> 0, credits |-> lines[x].amount]
      BY <2>4, <2>5, <2>7 DEF Side
    <3>2. QED
      BY <2>1, <2>7, <3>1 DEF Signed, Effect, NormalBalance
  <2>8. QED
    BY <2>1, <2>6, <2>7 DEF Direction
<1>11. PICK K, L : K = 1 .. (k - 1) /\ L = 1 .. k
  OBVIOUS
<1>12. OneMore(L, K, k)
  BY <1>1, <1>3, <1>11 DEF OneMore
<1>13. Counted(journal, K) /\ Counted(journal, L)
  <2>1. K \subseteq DOMAIN journal /\ L \subseteq DOMAIN journal
    <3>1. DOMAIN journal = 1 .. Len(journal)
      BY JournalFacts DEF Inv, Ledger
    <3>2. QED
      BY <1>1, <1>3, <1>11, <3>1
  <2>2. QED
    BY <2>1, JournalFacts DEF Inv, Ledger
<1> HIDE DEF k, x, lines
<1>14. Signed(a, TotalsOf(journal, L, a)) = Signed(a, TotalsOf(journal, K, a)) + Signed(a, Delta(a, LinesAt(journal, k)))
  BY <1>12, <1>13, TotalsGrow
<1>15. QED
  BY <1>3, <1>5, <1>9, <1>10, <1>11, <1>14 DEF k, lines

\* The lines chain.
LEMMA LinesChain ==
  ASSUME Inv, NEW n \in 0 .. Len(journal), NEW t, NEW a \in AccountsOf(t),
         NEW S, S = OnAccount(journal, n, t, a), NEW s, Permutation(s, S),
         \A x, y \in DOMAIN s : x < y => s[x].created <= s[y].created,
         NoOverlap(s), NEW i \in DOMAIN s
  PROVE  /\ s[i].after = (IF i = 1 THEN 0 ELSE s[i - 1].after)
                         + Effect(s[i].account, s[i].direction, s[i].amount)
         /\ i = Len(s) => s[i].after = HeldAt(a, n)
<1>1. Len(journal) \in Nat
  BY JournalFacts DEF Inv, Ledger
<1>2. \A x \in DOMAIN s : /\ s[x] \in S /\ s[x].entry \in 1 .. n /\ s[x].account = a
                          /\ s[x].created = journal[s[x].entry].created
                          /\ journal[s[x].entry].created \in Nat /\ journal[s[x].entry].committed \in Nat
                          /\ journal[s[x].entry].created <= journal[s[x].entry].committed
  <2>1. TAKE x \in DOMAIN s
  <2>2. s[x] \in S
    BY DEF Permutation
  <2>3. s[x].entry \in 1 .. n /\ s[x].account = a /\ s[x].created = journal[s[x].entry].created
    BY <1>1, <2>2, PostingInstants DEF Seen
  <2>4. Sound(journal[s[x].entry], clock)
    BY <1>1, <2>3 DEF Inv, Ledger, Recordings
  <2>5. QED
    BY <2>2, <2>3, <2>4 DEF Sound
<1>3. \A x, y \in DOMAIN s : s[x].entry = s[y].entry => x = y
  BY DEF NoOverlap
<1>4. \A x, y \in DOMAIN s : x < y => s[x].entry < s[y].entry
  <2>1. SUFFICES ASSUME NEW x \in DOMAIN s, NEW y \in DOMAIN s, x < y, s[y].entry < s[x].entry
                 PROVE  FALSE
    <3>1. SUFFICES ASSUME NEW x \in DOMAIN s, NEW y \in DOMAIN s, x < y
                   PROVE  s[x].entry < s[y].entry
      OBVIOUS
    <3>2. x # y
      BY <3>1 DEF Permutation
    <3>3. s[x].entry # s[y].entry
      BY <1>3, <3>2
    <3>4. s[x].entry \in Nat /\ s[y].entry \in Nat
      BY <1>1, <1>2
    <3>5. QED
      BY <2>1, <3>1, <3>3, <3>4
  <2>2. journal[s[y].entry].committed < journal[s[x].entry].created
    BY <2>1 DEF NoOverlap
  <2>3. s[x].created <= s[y].created
    BY <2>1
  <2>4. QED
    BY <1>2, <2>1, <2>2, <2>3
<1>5. DOMAIN s = 1 .. Len(s) /\ Len(s) \in Nat /\ i \in 1 .. Len(s)
  BY DEF Permutation
<1>6. \A x \in DOMAIN s :
        /\ s[x].after = Signed(a, TotalsOf(journal, 1 .. s[x].entry, a))
        /\ s[x].after = Signed(a, TotalsOf(journal, 1 .. (s[x].entry - 1), a)) + Effect(a, s[x].direction, s[x].amount)
  <2>1. TAKE x \in DOMAIN s
  <2>2. s[x] \in S
    BY <1>2
  <2>3. \A r \in S : r.entry = s[x].entry => r = s[x]
    BY <1>3 DEF Permutation
  <2>4. QED
    BY <1>1, <2>2, <2>3, OneLine
<1>7. PICK e : e = s[i].entry
  OBVIOUS
<1>8. e \in 1 .. n /\ e \in Nat /\ e - 1 \in Nat /\ n \in Nat
  <2>1. e \in 1 .. n
    BY <1>2, <1>7
  <2>2. n \in Nat
    BY <1>1
  <2>3. QED
    BY <2>1, <2>2
<1>9. ASSUME i = 1
      PROVE  s[i].after = 0 + Effect(s[i].account, s[i].direction, s[i].amount)
  <2>1. \A p \in S : ~(0 < p.entry /\ p.entry <= e - 1)
    <3>1. SUFFICES ASSUME NEW y \in DOMAIN s, s[y].entry <= e - 1 PROVE FALSE
      BY DEF Permutation
    <3>2. s[y].entry < e /\ s[y].entry \in Nat
      BY <1>7, <1>2, <1>8, <3>1
    <3>3. i < y \/ y = i
      BY <1>5, <1>9
    <3>4. QED
      BY <1>7, <1>4, <1>8, <3>2, <3>3
  <2>2. PICK lo \in Nat, hi \in Nat : lo = 0 /\ hi = e - 1 /\ lo <= hi /\ hi <= n
    BY <1>8
  <2>3. TotalsOf(journal, 1 .. hi, a) = TotalsOf(journal, 1 .. lo, a)
    BY <1>1, <2>1, <2>2, QuietBetween
  <2>4. 1 .. lo = {}
    BY <2>2
  <2>5. TotalsOf(journal, 1 .. (e - 1), a) = ZeroTotals
    BY <2>2, <2>3, <2>4, TotalsEmpty
  <2>6. Signed(a, TotalsOf(journal, 1 .. (e - 1), a)) = 0
    BY <2>5, SignedZero
  <2>7. s[i].after = 0 + Effect(s[i].account, s[i].direction, s[i].amount)
    BY <1>7, <1>2, <1>6, <2>6
  <2>8. QED
    BY <2>7
<1>10. ASSUME i # 1
       PROVE  s[i].after = s[i - 1].after + Effect(s[i].account, s[i].direction, s[i].amount)
  <2>1. i - 1 \in DOMAIN s /\ i - 1 < i
    BY <1>5, <1>10
  <2>2. PICK lo \in Nat, hi \in Nat : lo = s[i - 1].entry /\ hi = e - 1 /\ lo <= hi /\ hi <= n
    <3>1. s[i - 1].entry < e /\ s[i - 1].entry \in Nat
      BY <1>7, <1>2, <1>4, <1>8, <2>1
    <3>2. QED
      BY <1>7, <1>8, <3>1
  <2>3. \A p \in S : ~(lo < p.entry /\ p.entry <= hi)
    <3>1. SUFFICES ASSUME NEW y \in DOMAIN s, lo < s[y].entry, s[y].entry <= hi PROVE FALSE
      BY DEF Permutation
    <3>2. s[y].entry < e /\ s[y].entry \in Nat
      BY <1>7, <1>2, <1>8, <2>2, <3>1
    <3>3. i < y \/ y = i \/ y = i - 1 \/ y < i - 1
      BY <1>5
    <3>4. QED
      BY <1>7, <1>4, <1>8, <2>1, <2>2, <3>1, <3>2, <3>3
  <2>4. TotalsOf(journal, 1 .. hi, a) = TotalsOf(journal, 1 .. lo, a)
    BY <1>1, <2>2, <2>3, QuietBetween
  <2>5. s[i].after = s[i - 1].after + Effect(s[i].account, s[i].direction, s[i].amount)
    <3>1. s[i - 1].after = Signed(a, TotalsOf(journal, 1 .. lo, a))
      BY <1>6, <2>1, <2>2
    <3>2. s[i].after = Signed(a, TotalsOf(journal, 1 .. hi, a)) + Effect(a, s[i].direction, s[i].amount)
      BY <1>7, <1>6, <2>2
    <3>3. s[i].account = a
      BY <1>2
    <3>4. QED
      BY <2>4, <3>1, <3>2, <3>3
  <2>6. QED
    BY <2>5
<1>11. ASSUME i = Len(s)
       PROVE  s[i].after = HeldAt(a, n)
  <2>1. \A p \in S : ~(e < p.entry /\ p.entry <= n)
    <3>1. SUFFICES ASSUME NEW y \in DOMAIN s, e < s[y].entry PROVE FALSE
      BY DEF Permutation
    <3>2. y < i \/ y = i
      BY <1>5, <1>11
    <3>3. s[y].entry \in Nat
      BY <1>7, <1>2, <1>8
    <3>4. QED
      BY <1>7, <1>4, <1>8, <3>1, <3>2, <3>3
  <2>2. PICK lo \in Nat, hi \in Nat : lo = e /\ hi = n /\ lo <= hi /\ hi <= n
    BY <1>7, <1>8
  <2>3. TotalsOf(journal, 1 .. hi, a) = TotalsOf(journal, 1 .. lo, a)
    BY <1>1, <2>1, <2>2, QuietBetween
  <2>4. HeldAt(a, n) = Signed(a, TotalsOf(journal, 1 .. n, a))
    BY <1>1, HeldIsTotal
  <2>5. s[i].after = Signed(a, TotalsOf(journal, 1 .. e, a))
    BY <1>7, <1>6
  <2>6. QED
    BY <2>2, <2>3, <2>4, <2>5
<1>12. QED
  BY <1>9, <1>10, <1>11

\* The lines of entries that did not overlap come in the order of their commits.
LEMMA InvStatement == Inv => StatementChains
<1> SUFFICES ASSUME Inv, Complete("statement", 1), Found, NoOverlap(got[1]), NEW i \in DOMAIN got[1]
             PROVE  /\ got[1][i].after = (IF i = 1 THEN 0 ELSE got[1][i - 1].after)
                                         + Effect(got[1][i].account, got[1][i].direction, got[1][i].amount)
                    /\ i = Len(got[1]) => got[1][i].after = HeldAt(question.account, marks[1])
  BY DEF StatementChains
<1>1. PICK t, a, n, S, s :
        /\ t = question.tenant /\ a = question.account /\ n = marks[1]
        /\ S = OnAccount(journal, n, t, a) /\ s = got[1]
  OBVIOUS
<1>2. /\ question.op = "statement" /\ n \in 0 .. Len(journal)
      /\ Answers(journal, question, 1, n, s, s)
  BY <1>1, AnswerFacts
<1>3. a \in AccountsOf(t)
  BY <1>1 DEF Found
<1>4. s \in SetToSeqs(S) /\ \A x, y \in DOMAIN s : x < y => s[x].created <= s[y].created
  BY <1>1, <1>2, <1>3 DEF Answers, StatementAnswer, Owned
<1>5. IsFiniteSet(S)
  BY <1>1, <1>2, PostingsFinite
<1>6. Permutation(s, S)
  BY <1>4, <1>5, SeqsPermute
<1>7. NoOverlap(s) /\ i \in DOMAIN s
  BY <1>1
<1>8. /\ s[i].after = (IF i = 1 THEN 0 ELSE s[i - 1].after)
                      + Effect(s[i].account, s[i].direction, s[i].amount)
      /\ i = Len(s) => s[i].after = HeldAt(a, n)
  BY <1>1, <1>2, <1>3, <1>4, <1>6, <1>7, LinesChain
<1>9. QED
  BY <1>1, <1>8

\* A statement (balances.py) of transactions that did not overlap chains: each balance is
\* the one before it plus its line, and the last is the account's balance.
THEOREM StatementsChain == Spec => []StatementChains
<1>1. QED
  BY InvStatement, ReportsInvariant, PTL

-------------------------------------------------------------------------------
(* The portfolio.                                                              *)

\* Its figures are what the tenant's accounts hold together.
LEMMA HoldingsHeld ==
  ASSUME Inv, question # NoQuestion, question.op = "portfolio",
         Len(got) > 0, Len(got) = Len(got[1]) + 1, CommittedBetween(1, Len(got)) = {},
         \A a \in AccountsOf(question.tenant) \ Range(got[1]) : HeldAt(a, marks[1]) = 0,
         NEW m, m = marks[1], NEW t, t = question.tenant, NEW type \in AccountType, NEW c
  PROVE  /\ m \in 0 .. Len(journal)
         /\ Holdings(type, c) =
              Held(journal, Seen(journal, m, t), OfKind(AccountsOf(t), type, c), NormalBalance(type))
<1>1. PICK S \in SUBSET AccountsOf(t) : got[1] = SetToSeq(S)
  <2>1. got # <<>>
    <3>1. PICK z : z = Len(got) /\ z > 0
      OBVIOUS
    <3>2. ASSUME got = <<>> PROVE z = 0
      <4>1. Len(<<>>) = 0
        OBVIOUS
      <4>2. QED
        BY <3>1, <3>2, <4>1
    <3>3. ~(0 > 0)
      OBVIOUS
    <3>4. QED
      BY <3>1, <3>2, <3>3
  <2>2. QED
    BY <2>1 DEF Inv, Reading, Listed
<1>2. PICK s : s = got[1]
  OBVIOUS
<1>3. S \subseteq Accounts /\ IsFiniteSet(S) /\ AccountsOf(t) \subseteq Accounts
  <2>1. S \subseteq Accounts /\ AccountsOf(t) \subseteq Accounts
    BY DEF AccountsOf
  <2>2. QED
    BY <2>1, FS_Subset, ChartAssumption
<1>4. Permutation(s, S)
  BY <1>1, <1>2, <1>3, SeqPermutes
<1>5. PICK l \in Nat : l = Cardinality(S) /\ DOMAIN s = 1 .. l /\ Len(got) = l + 1
  BY <1>2, <1>4 DEF Permutation
<1>6. /\ Len(journal) \in Nat /\ DOMAIN journal = 1 .. Len(journal)
      /\ \A i \in 1 .. (l + 1) : marks[i] \in 0 .. Len(journal)
      /\ \A i, k \in 1 .. (l + 1) : i <= k => marks[i] <= marks[k]
      /\ \A i \in 1 .. (l + 1) : Answers(journal, question, i, marks[i], got[1], got[i])
  <2>1. Complete("portfolio", l + 1)
    BY <1>5 DEF Complete
  <2>2. PICK n \in Nat : n = l + 1
    BY <1>5
  <2>3. Complete("portfolio", n)
    BY <2>1, <2>2
  <2>4. /\ Len(journal) \in Nat /\ DOMAIN journal = 1 .. Len(journal)
        /\ \A i \in 1 .. n : marks[i] \in 0 .. Len(journal) /\ marks[i] \in Nat
        /\ \A i, k \in 1 .. n : i <= k => marks[i] <= marks[k]
        /\ \A i \in 1 .. n : Answers(journal, question, i, marks[i], got[1], got[i])
    BY <2>3, AnswerFacts
  <2>5. QED
    BY <2>2, <2>4
<1>7. m \in 0 .. Len(journal) /\ \A i \in 1 .. (l + 1) : marks[i] = m
  <2>1. 1 \in 1 .. (l + 1) /\ l + 1 \in 1 .. (l + 1)
    BY <1>5
  <2>2. PICK z \in 0 .. Len(journal) : z = marks[l + 1]
    BY <1>6, <2>1
  <2>3. m \in 0 .. Len(journal)
    BY <1>6, <2>1
  <2>4. z \notin CommittedBetween(1, l + 1)
    BY <1>5
  <2>5. z <= m
    BY <1>6, <2>2, <2>3, <2>4 DEF CommittedBetween
  <2>6. ASSUME NEW i \in 1 .. (l + 1)
        PROVE  marks[i] = m
    <3>1. 1 <= i /\ i <= l + 1
      BY <1>5
    <3>2. m <= marks[i] /\ marks[i] <= z /\ marks[i] \in 0 .. Len(journal)
      BY <1>6, <2>1, <2>2, <2>6, <3>1
    <3>3. QED
      BY <1>6, <2>2, <2>3, <2>5, <3>2
  <2>7. QED
    BY <2>3, <2>6
<1>8. \A x \in 1 .. l : got[x + 1] = Signed(s[x], TotalsOf(journal, 1 .. m, s[x]))
  <2>1. TAKE x \in 1 .. l
  <2>2. PICK i \in 1 .. (l + 1) : i = x + 1 /\ i > 1 /\ i - 1 = x
    BY <1>5
  <2>3. Answers(journal, question, i, m, s, got[i])
    BY <1>2, <1>6, <1>7
  <2>4. PortfolioAnswer(journal, question, i, m, s, got[i])
    BY <2>3 DEF Answers
  <2>5. QED
    BY <2>2, <2>4 DEF PortfolioAnswer
<1> DEFINE K == Seen(journal, m, t)
           U == AccountsOf(t)
           A == OfKind(U, type, c)
           T == OfKind(S, type, c)
           P == {x \in 1 .. l : TypeOf[s[x]] = type /\ CurrencyOf[s[x]] = c}
           g == [a \in A |-> Signed(a, TotalsOf(journal, K, a))]
           f == [x \in P |-> got[x + 1]]
<1>9. Holdings(type, c) = SumFunction(f)
  <2>1. {i \in DOMAIN got[1] : TypeOf[got[1][i]] = type /\ CurrencyOf[got[1][i]] = c} = P
    BY <1>2, <1>5
  <2>2. QED
    BY <2>1 DEF Holdings
<1>10. Counted(journal, K)
  BY <1>7, SeenFacts
<1>11. IsFiniteSet(A) /\ T \in SUBSET A /\ IsFiniteSet(P)
  <2>1. IsFiniteSet(A)
    BY <1>3, SomeAccounts
  <2>2. T \in SUBSET A
    BY DEF OfKind
  <2>3. P \in SUBSET (1 .. l)
    OBVIOUS
  <2> HIDE DEF P
  <2>4. IsFiniteSet(P)
    BY <2>3, PositionsFinite, FS_Subset
  <2>5. QED
    BY <2>1, <2>2, <2>4
<1>12. \A a \in A : g[a] \in Int /\ g[a] = Signed(a, TotalsOf(journal, K, a)) /\ a \in U
  <2>1. TAKE a \in A
  <2>2. TotalsOf(journal, K, a) \in Totals
    BY <1>10, TotalsType
  <2>3. Signed(a, TotalsOf(journal, K, a)) \in Int
    BY <2>2, SignedInt
  <2>4. QED
    BY <2>3 DEF OfKind
<1>13. \A a \in U : TotalsOf(journal, 1 .. m, a) = TotalsOf(journal, K, a)
  BY <1>7, TenantTotals
<1>14. \A a \in A \ T : g[a] = 0
  <2>1. TAKE a \in A \ T
  <2>2. a \in U /\ a \notin S
    BY DEF OfKind
  <2>3. HeldAt(a, m) = 0
    <3>1. a \notin Range(got[1])
      BY <1>2, <1>4, <2>2 DEF Permutation, Range
    <3>2. QED
      BY <2>2, <3>1
  <2>4. HeldAt(a, m) = Signed(a, TotalsOf(journal, 1 .. m, a))
    BY <1>7, HeldIsTotal
  <2>5. QED
    BY <1>12, <1>13, <2>2, <2>3, <2>4
<1>15. {s[x] : x \in P} = T
  <2>1. \A x \in P : s[x] \in T
    BY <1>4, <1>5 DEF Permutation, OfKind
  <2>2. \A a \in T : \E x \in P : s[x] = a
    BY <1>4, <1>5 DEF Permutation, OfKind
  <2>3. QED
    BY <2>1, <2>2
<1>16. \A x \in P : f[x] \in Int /\ g[s[x]] = f[x]
  <2>1. TAKE x \in P
  <2>2. s[x] \in A /\ x \in 1 .. l
    BY <1>11, <1>15
  <2>3. f[x] = Signed(s[x], TotalsOf(journal, 1 .. m, s[x]))
    BY <1>8, <2>2
  <2>4. QED
    BY <1>12, <1>13, <2>2, <2>3
<1>17. \A x, y \in P : s[x] = s[y] => x = y
  BY <1>4, <1>5 DEF Permutation
<1>18. DOMAIN f = P
  OBVIOUS
<1>19. \A a \in A : NormalBalance(TypeOf[a]) = NormalBalance(type)
  BY DEF OfKind
<1> HIDE DEF K, U, A, T, P, g, f
<1>20. SumFunctionOnSet(f, P) = SumFunctionOnSet(g, {s[x] : x \in P})
  BY <1>11, <1>16, <1>17, SumReindex
<1>21. SumFunctionOnSet(g, A) = SumFunctionOnSet(g, T)
  <2>1. \A a \in A : g[a] \in Int
    BY <1>12
  <2>2. QED
    BY <1>11, <1>14, <2>1, SumNonzero
<1>22. SumFunctionOnSet(g, A) = Held(journal, K, A, NormalBalance(type))
  <2>1. PICK n \in Direction : n = NormalBalance(type)
    BY DEF NormalBalance, Direction
  <2>2. \A a \in A : NormalBalance(TypeOf[a]) = n
    BY <1>19, <2>1
  <2>3. \A a \in A : g[a] = Signed(a, TotalsOf(journal, K, a))
    BY <1>12
  <2>4. SumFunctionOnSet(g, A) = Mass(journal, K, A, n) - Mass(journal, K, A, Side(n))
    BY <1>10, <1>11, <2>2, <2>3, SignedSum
  <2>5. QED
    BY <2>1, <2>4 DEF Held
<1>23. QED
  BY <1>7, <1>9, <1>15, <1>18, <1>20, <1>21, <1>22 DEF SumFunction, K, U, A

\* Figures over one prefix of the journal satisfy the accounting equation.
LEMMA InvPortfolio == Inv => PortfolioOfOneMoment
<1> SUFFICES ASSUME Inv, question # NoQuestion, question.op = "portfolio",
                    Len(got) > 0, Len(got) = Len(got[1]) + 1, CommittedBetween(1, Len(got)) = {},
                    \A a \in AccountsOf(question.tenant) \ Range(got[1]) : HeldAt(a, marks[1]) = 0,
                    NEW c \in Currencies
             PROVE  NetWorth(c) = Holdings("equity", c) + ProfitAndLoss(c)
  BY DEF PortfolioOfOneMoment
<1>1. PICK m, t : m = marks[1] /\ t = question.tenant
  OBVIOUS
<1> DEFINE K == Seen(journal, m, t)
           U == AccountsOf(t)
           total(type) == Held(journal, K, OfKind(U, type, c), NormalBalance(type))
<1>2. \A type \in AccountType : m \in 0 .. Len(journal) /\ Holdings(type, c) = total(type)
  BY <1>1, HoldingsHeld
<1>3. m \in 0 .. Len(journal)
  BY <1>2 DEF AccountType
<1>4. /\ Counted(journal, K) /\ Within(journal, K, U) /\ U \subseteq Accounts
      /\ \A k \in K : Balanced(LinesAt(journal, k))
  BY <1>3, SeenFacts
<1> HIDE DEF K, U
<1>5. /\ \A type \in AccountType : total(type) \in Int
      /\ total("asset") = total("liability") + total("equity") + (total("revenue") - total("expense"))
  BY <1>4, Equation
<1> HIDE DEF total
<1>6. "asset" \in AccountType /\ "liability" \in AccountType /\ "equity" \in AccountType
      /\ "revenue" \in AccountType /\ "expense" \in AccountType
  BY DEF AccountType
<1>7. QED
  BY <1>2, <1>5, <1>6 DEF NetWorth, ProfitAndLoss

\* If nothing commits while portfolio_summary (mcp/portfolio.py) reads the balances one by
\* one, and the accounts it does not list are empty, net worth is equity plus profit.
THEOREM PortfoliosOfOneMoment == Spec => []PortfolioOfOneMoment
<1>1. QED
  BY InvPortfolio, ReportsInvariant, PTL

-------------------------------------------------------------------------------
(* Pages.                                                                      *)

\* A rank that only grows, from page to page, falls in one of them.
LEMMA PagesCover ==
  ASSUME NEW P \in Nat, P > 0, NEW limit \in Nat, limit > 0, NEW rho,
         \A p \in 1 .. P : rho[p] \in Nat,
         \A p, q \in 1 .. P : p <= q => rho[p] <= rho[q],
         rho[P] < P * limit
  PROVE  \E p \in 1 .. P : (p - 1) * limit <= rho[p] /\ rho[p] < (p - 1) * limit + limit
<1> DEFINE InPages(p) == rho[p] < p * limit
           Good == {p \in 1 .. P : InPages(p)}
<1>1. P \in Good
  OBVIOUS
<1>2. Good \in SUBSET Nat /\ IsFiniteSet(Good)
  <2>1. Good \in SUBSET (1 .. P)
    OBVIOUS
  <2> HIDE DEF Good
  <2>2. IsFiniteSet(Good)
    BY <2>1, PositionsFinite, FS_Subset
  <2>3. QED
    BY <2>1, <2>2
<1>3. PICK p \in Good : \A y \in Good : p <= y
  <2> HIDE DEF Good
  <2>1. QED
    BY <1>1, <1>2, LeastExists
<1>4. p \in 1 .. P /\ rho[p] < p * limit
  BY <1>3
<1>5. PICK z \in Int : z = (p - 1) * limit
  BY <1>4
<1>6. p * limit = z + limit
  BY <1>4, <1>5
<1>7. z <= rho[p]
  <2>1. CASE p = 1
    <3>1. z = 0
      BY <1>5, <2>1
    <3>2. QED
      BY <1>4, <3>1
  <2>2. CASE p # 1
    <3>1. PICK q \in 1 .. P : q = p - 1 /\ q < p
      BY <1>4, <2>2
    <3>2. q \notin Good
      BY <1>3, <1>4, <3>1
    <3>3. ~(rho[q] < z)
      BY <1>5, <3>1, <3>2
    <3>4. rho[q] <= rho[p] /\ rho[q] \in Nat /\ rho[p] \in Nat
      BY <1>4, <3>1
    <3>5. QED
      BY <3>3, <3>4
  <2>3. QED
    BY <2>1, <2>2
<1>8. QED
  BY <1>4, <1>5, <1>6, <1>7

\* The entries to see only grow in number, and so do their ranks.
LEMMA SeenGrows ==
  ASSUME Inv, NEW m \in 0 .. Len(journal), NEW n \in 0 .. Len(journal), m <= n, NEW t, NEW q
  PROVE  /\ Seen(journal, m, t) \subseteq Seen(journal, n, t)
         /\ MatchesOf(journal, m, q) \subseteq MatchesOf(journal, n, q)
         /\ Seen(journal, n, t) \subseteq 1 .. Len(journal)
         /\ MatchesOf(journal, n, q) \subseteq 1 .. Len(journal)
<1>1. Len(journal) \in Nat
  BY JournalFacts DEF Inv, Ledger
<1>2. 1 .. m \subseteq 1 .. n /\ 1 .. n \subseteq 1 .. Len(journal)
  BY <1>1
<1>3. \A x : Seen(journal, m, x) \subseteq Seen(journal, n, x) /\ Seen(journal, n, x) \subseteq 1 .. Len(journal)
  BY <1>2 DEF Seen
<1>4. QED
  BY <1>3 DEF MatchesOf

\* P pages of growing sets of entries, the last of which they cover, with k in each.
Paged(P, limit, E, page, k) ==
  /\ P \in Nat /\ P > 0 /\ limit \in Nat /\ limit > 0
  /\ \A p \in 1 .. P : E[p] \subseteq 1 .. Len(journal)
  /\ \A p, q \in 1 .. P : p <= q => E[p] \subseteq E[q]
  /\ \A p \in 1 .. P : Shows(journal, E[p], page[p], (p - 1) * limit, limit)
  /\ Cardinality(E[P]) <= P * limit
  /\ \A p \in 1 .. P : k \in E[p]

\* They show k.
LEMMA PagesShow ==
  ASSUME Inv, NEW P, NEW limit, NEW E, NEW page, NEW k, Paged(P, limit, E, page, k)
  PROVE  \E p \in 1 .. P : \E x \in DOMAIN page[p] : page[p][x] = journal[k].id
<1>0. P \in Nat /\ P > 0 /\ limit \in Nat /\ limit > 0 /\ \A p \in 1 .. P : k \in E[p]
  BY DEF Paged
<1> USE <1>0
<1>1. /\ \A p \in 1 .. P : E[p] \subseteq 1 .. Len(journal)
      /\ \A p, q \in 1 .. P : p <= q => E[p] \subseteq E[q]
      /\ \A p \in 1 .. P : Shows(journal, E[p], page[p], (p - 1) * limit, limit)
      /\ Cardinality(E[P]) <= P * limit
  BY DEF Paged
<1> DEFINE rho == [p \in 1 .. P |-> Rank(journal, E[p], k)]
<1>2. ASSUME NEW p \in 1 .. P
      PROVE  Ordered(journal, E[p])
  BY <1>1, EntriesOrdered DEF Inv
<1>3. \A p \in 1 .. P : rho[p] = Rank(journal, E[p], k) /\ rho[p] \in Nat
  <2>1. TAKE p \in 1 .. P
  <2>2. PICK K : K = E[p]
    OBVIOUS
  <2>3. Ordered(journal, K) /\ k \in K
    BY <1>2, <2>2
  <2>4. Rank(journal, K, k) \in Nat
    BY <2>3, RankFacts
  <2>5. QED
    BY <2>2, <2>4
<1>4. ASSUME NEW p \in 1 .. P, NEW q \in 1 .. P, p <= q
      PROVE  rho[p] <= rho[q]
  <2>1. PICK K, L : K = E[p] /\ L = E[q]
    OBVIOUS
  <2>2. IsFiniteSet(L) /\ K \subseteq L
    BY <1>1, <1>2, <1>4, <2>1 DEF Ordered
  <2>3. Rank(journal, K, k) <= Rank(journal, L, k)
    BY <2>2, RankGrows
  <2>4. QED
    BY <1>3, <2>1, <2>3
<1>5. rho[P] < P * limit
  <2>1. PICK K : K = E[P]
    OBVIOUS
  <2>2. P \in 1 .. P
    OBVIOUS
  <2>3. Ordered(journal, K) /\ k \in K
    BY <1>2, <2>1, <2>2
  <2>4. Rank(journal, K, k) < Cardinality(K) /\ Rank(journal, K, k) \in Nat /\ Cardinality(K) \in Nat
    BY <2>3, RankFacts
  <2>5. PICK z \in Nat : z = P * limit
    OBVIOUS
  <2>6. Cardinality(K) <= z /\ rho[P] = Rank(journal, K, k)
    BY <1>1, <1>3, <2>1, <2>2, <2>5
  <2> HIDE DEF rho
  <2>7. QED
    BY <2>4, <2>5, <2>6
<1> HIDE DEF rho
<1>6. PICK p \in 1 .. P : (p - 1) * limit <= rho[p] /\ rho[p] < (p - 1) * limit + limit
  BY <1>3, <1>4, <1>5, PagesCover
<1>7. Shows(journal, E[p], page[p], (p - 1) * limit, limit)
  BY <1>1
<1>8. QED
  BY <1>3, <1>6, <1>7 DEF Shows

\* A search that ended: the entries it was about at each page.
LEMMA SearchPages ==
  ASSUME Inv, question # NoQuestion, question.op = "search",
         Len(got) = 2 * PagesRead, LastPageRead,
         CommittedBetween(Len(got) - 1, Len(got)) = {},
         NEW k \in Matches, k <= marks[1]
  PROVE  \E p \in 1 .. PagesRead : \E i \in DOMAIN got[2 * p] : got[2 * p][i] = journal[k].id
<1> DEFINE limit == question.limit
           N == Len(journal)
<1>1. limit \in Nat /\ limit > 0
  BY LimitFacts DEF Inv
<1>2. PICK P \in Nat : P = PagesRead /\ Len(got) = 2 * P /\ P > 0
  <2>1. PICK S : got \in Seq(S)
    BY DEF Inv, Reading, Marked
  <2>2. Len(got) \in Nat
    BY <2>1
  <2>3. PagesRead \in Nat
    BY <2>2 DEF PagesRead
  <2>4. QED
    BY <2>3 DEF LastPageRead
<1>3. PICK n \in Nat : n = 2 * P /\ n > 0
  BY <1>2
<1>4. /\ N \in Nat /\ DOMAIN journal = 1 .. N
      /\ \A i \in 1 .. n : marks[i] \in 0 .. N /\ marks[i] \in Nat
      /\ \A i, m \in 1 .. n : i <= m => marks[i] <= marks[m]
      /\ \A i \in 1 .. n : Answers(journal, question, i, marks[i], got[1], got[i])
  <2>1. Complete("search", n)
    BY <1>2, <1>3 DEF Complete
  <2>2. QED
    BY <2>1, AnswerFacts
<1> HIDE DEF limit, N
<1>5. \A i \in 1 .. n : SearchAnswer(journal, question, i, marks[i], got[i])
  BY <1>4 DEF Answers
<1> DEFINE E == [p \in 1 .. P |-> MatchesOf(journal, marks[2 * p], question)]
           page == [p \in 1 .. P |-> got[2 * p]]
<1>6. \A p \in 1 .. P : 2 * p \in 1 .. n /\ 1 <= 2 * p
  BY <1>3
<1>7. \A p \in 1 .. P : E[p] \subseteq 1 .. N
  <2>1. TAKE p \in 1 .. P
  <2>2. PICK m \in 0 .. N : m = marks[2 * p]
    BY <1>4, <1>6
  <2>3. m <= m
    BY <1>4, <2>2
  <2>4. MatchesOf(journal, m, question) \subseteq 1 .. N
    BY <2>3, SeenGrows DEF N
  <2>5. QED
    BY <2>2, <2>4
<1>8. \A p, q \in 1 .. P : p <= q => E[p] \subseteq E[q]
  <2>1. TAKE p, q \in 1 .. P
  <2>2. HAVE p <= q
  <2>3. PICK m \in 0 .. N, l \in 0 .. N : m = marks[2 * p] /\ l = marks[2 * q]
    BY <1>4, <1>6
  <2>4. 2 * p <= 2 * q
    BY <2>2
  <2>5. m <= l
    BY <1>4, <1>6, <2>3, <2>4
  <2>6. MatchesOf(journal, m, question) \subseteq MatchesOf(journal, l, question)
    BY <2>5, SeenGrows DEF N
  <2>7. QED
    BY <2>3, <2>6
<1>9. \A p \in 1 .. P : Shows(journal, E[p], page[p], (p - 1) * limit, limit)
  <2>1. TAKE p \in 1 .. P
  <2>2. PICK z \in Nat, i \in 1 .. n : z = p - 1 /\ i = 2 * p /\ i = 2 * z + 2
    BY <1>6
  <2>3. SearchAnswer(journal, question, i, marks[i], got[i])
    BY <1>5
  <2>4. Shows(journal, MatchesOf(journal, marks[i], question), got[i], z * question.limit, question.limit)
    BY <2>2, <2>3 DEF SearchAnswer
  <2>5. QED
    BY <2>2, <2>4 DEF limit
<1>10. Cardinality(E[P]) <= P * limit
  <2>1. PICK z \in Nat, i \in 1 .. n : z = P - 1 /\ i = 2 * P - 1 /\ i = 2 * z + 1 /\ n \in 1 .. n /\ i <= n /\ i = n - 1
    BY <1>2, <1>3
  <2>2. SearchAnswer(journal, question, i, marks[i], got[i])
    BY <1>5
  <2>3. got[i] = Cardinality(MatchesOf(journal, marks[i], question))
    BY <2>1, <2>2 DEF SearchAnswer
  <2>4. marks[i] = marks[n]
    <3>1. CommittedBetween(i, n) = {}
      BY <1>2, <1>3, <2>1
    <3>2. PICK y \in 0 .. N, x \in 0 .. N : y = marks[n] /\ x = marks[i] /\ x <= y
      BY <1>4, <2>1
    <3>3. y \notin CommittedBetween(i, n)
      BY <3>1
    <3>4. ~(x < y)
      BY <1>4, <3>2, <3>3 DEF CommittedBetween
    <3>5. QED
      BY <1>4, <3>2, <3>4
  <2>5. P * limit >= got[i]
    BY <1>2, <2>1 DEF LastPageRead, limit
  <2>6. E[P] = MatchesOf(journal, marks[n], question)
    BY <1>2, <1>3
  <2> HIDE DEF E
  <2>7. PICK c : c = got[i]
    OBVIOUS
  <2>8. Cardinality(E[P]) = c
    BY <2>3, <2>4, <2>6, <2>7
  <2>9. PICK y \in Int : y = P * limit
    BY <1>1
  <2>10. y >= c
    BY <2>5, <2>7, <2>9
  <2>11. QED
    BY <2>8, <2>9, <2>10
<1>11. \A p \in 1 .. P : k \in E[p]
  <2>1. TAKE p \in 1 .. P
  <2>2. PICK m \in 0 .. N : m = marks[2 * p] /\ marks[1] <= m
    BY <1>3, <1>4, <1>6
  <2>3. k \in MatchesOf(journal, N, question)
    BY NowSeen DEF Inv, N
  <2>4. 1 \in 1 .. n
    BY <1>3
  <2>5. k \in 1 .. N /\ k <= m
    BY <1>4, <2>2, <2>3, <2>4 DEF MatchesOf, Seen
  <2>6. k \in MatchesOf(journal, m, question)
    BY <1>4, <2>3, <2>5 DEF MatchesOf, Seen
  <2>7. QED
    BY <2>2, <2>6
<1> HIDE DEF E, page
<1>12. \E p \in 1 .. P : \E x \in DOMAIN page[p] : page[p][x] = journal[k].id
  <2>1. Paged(P, limit, E, page, k)
    BY <1>1, <1>2, <1>7, <1>8, <1>9, <1>10, <1>11 DEF N, Paged
  <2>2. QED
    BY <2>1, PagesShow
<1>13. QED
  BY <1>2, <1>12 DEF page

\* A list that ended: the tenant's entries at each page.
LEMMA ListPages ==
  ASSUME Inv, question # NoQuestion, question.op = "list", ListRead,
         \A j, m \in TenantEntries : j # m => journal[j].created # journal[m].created,
         NEW k \in TenantEntries, k <= marks[1]
  PROVE  \E p \in DOMAIN got : \E i \in DOMAIN got[p] : got[p][i] = journal[k].id
<1> DEFINE limit == question.limit
           N == Len(journal)
           t == question.tenant
<1>1. limit \in Nat /\ limit > 0
  BY LimitFacts DEF Inv
<1>2. PICK P \in Nat : P = Len(got) /\ P > 0 /\ DOMAIN got = 1 .. P /\ Len(got[P]) < limit
  <2>1. PICK S : got \in Seq(S)
    BY DEF Inv, Reading, Marked
  <2>2. got # <<>> /\ Len(got[Len(got)]) < limit
    BY DEF ListRead
  <2>3. QED
    BY <2>1, <2>2
<1>3. /\ N \in Nat /\ DOMAIN journal = 1 .. N
      /\ \A i \in 1 .. P : marks[i] \in 0 .. N /\ marks[i] \in Nat
      /\ \A i, m \in 1 .. P : i <= m => marks[i] <= marks[m]
      /\ \A i \in 1 .. P : Answers(journal, question, i, marks[i], got[1], got[i])
  <2>1. Complete("list", P)
    BY <1>2 DEF Complete
  <2>2. QED
    BY <2>1, AnswerFacts
<1> HIDE DEF limit, N, t
<1>4. \A i \in 1 .. P : ListAnswer(journal, question, i, marks[i], got[i])
  BY <1>3 DEF Answers
<1>5. TenantEntries = Seen(journal, N, t)
  BY NowSeen DEF Inv, N, t
<1> DEFINE E == [p \in 1 .. P |-> Seen(journal, marks[p], t)]
<1>6. \A p \in 1 .. P : E[p] \subseteq 1 .. N /\ E[p] \subseteq TenantEntries
  <2>1. TAKE p \in 1 .. P
  <2>2. PICK m \in 0 .. N : m = marks[p]
    BY <1>3
  <2>3. PICK l \in 0 .. N : l = N /\ m <= l
    BY <1>3, <2>2
  <2>4. Seen(journal, m, t) \subseteq Seen(journal, l, t) /\ Seen(journal, l, t) \subseteq 1 .. N
    BY <2>3, SeenGrows DEF N
  <2>5. QED
    BY <1>5, <2>2, <2>3, <2>4
<1>7. \A p, q \in 1 .. P : p <= q => E[p] \subseteq E[q]
  <2>1. TAKE p, q \in 1 .. P
  <2>2. HAVE p <= q
  <2>3. PICK m \in 0 .. N, l \in 0 .. N : m = marks[p] /\ l = marks[q] /\ m <= l
    BY <1>3, <2>2
  <2>4. Seen(journal, m, t) \subseteq Seen(journal, l, t)
    BY <2>3, SeenGrows DEF N
  <2>5. QED
    BY <2>3, <2>4
<1>8. \A p \in 1 .. P : Shows(journal, E[p], got[p], (p - 1) * limit, limit)
  <2>1. TAKE p \in 1 .. P
  <2>2. DatesDiffer(journal, E[p])
    BY <1>6 DEF DatesDiffer
  <2>3. ListAnswer(journal, question, p, marks[p], got[p])
    BY <1>4
  <2>4. E[p] = Seen(journal, marks[p], question.tenant)
    BY DEF t
  <2> HIDE DEF E
  <2>5. QED
    BY <2>2, <2>3, <2>4 DEF ListAnswer, limit
<1>9. Cardinality(E[P]) <= P * limit
  <2>1. P \in 1 .. P
    BY <1>2
  <2>2. ListAnswer(journal, question, P, marks[P], got[P])
    BY <1>4, <2>1
  <2>3. E[P] = Seen(journal, marks[P], question.tenant)
    BY <2>1 DEF t
  <2>4. PICK y \in Int : y = P * limit
    BY <1>1
  <2> HIDE DEF E
  <2>5. Cardinality(E[P]) < y
    BY <1>2, <2>2, <2>3, <2>4 DEF ListAnswer, limit
  <2>6. Cardinality(E[P]) \in Nat
    <3>1. Ordered(journal, E[P])
      BY <1>6, <2>1, EntriesOrdered DEF Inv, N
    <3>2. IsFiniteSet(E[P])
      BY <3>1 DEF Ordered
    <3>3. QED
      BY <3>2, FS_CardinalityType
  <2>7. QED
    BY <2>4, <2>5, <2>6
<1>10. \A p \in 1 .. P : k \in E[p]
  <2>1. TAKE p \in 1 .. P
  <2>2. PICK m \in 0 .. N : m = marks[p] /\ marks[1] <= m
    BY <1>2, <1>3
  <2>3. 1 \in 1 .. P
    BY <1>2
  <2>4. k \in 1 .. N /\ k <= m
    BY <1>3, <1>5, <2>2, <2>3 DEF Seen
  <2>5. k \in Seen(journal, m, t)
    BY <1>3, <1>5, <2>4 DEF Seen
  <2>6. QED
    BY <2>2, <2>5
<1> HIDE DEF E
<1>11. \E p \in 1 .. P : \E x \in DOMAIN got[p] : got[p][x] = journal[k].id
  <2>1. Paged(P, limit, E, got, k)
    BY <1>1, <1>2, <1>6, <1>7, <1>8, <1>9, <1>10 DEF N, Paged
  <2>2. QED
    BY <2>1, PagesShow
<1>12. QED
  BY <1>2, <1>11

\* The pages of a reader who went on to the end show what was there at the first.
LEMMA InvPaging == Inv => PagingMissesNothing
<1>1. ASSUME Inv, question # NoQuestion, question.op = "search",
             Len(got) = 2 * PagesRead, LastPageRead,
             CommittedBetween(Len(got) - 1, Len(got)) = {},
             NEW k \in Matches, k <= marks[1]
      PROVE  \E p \in {2 * p : p \in 1 .. PagesRead} : \E i \in DOMAIN got[p] : got[p][i] = journal[k].id
  <2>1. PICK p \in 1 .. PagesRead : \E i \in DOMAIN got[2 * p] : got[2 * p][i] = journal[k].id
    BY <1>1, SearchPages
  <2>2. QED
    BY <2>1
<1>2. ASSUME Inv, question # NoQuestion, question.op = "list", ListRead,
             \A j, m \in TenantEntries : j # m => journal[j].created # journal[m].created,
             NEW k \in TenantEntries, k <= marks[1]
      PROVE  \E p \in DOMAIN got : \E i \in DOMAIN got[p] : got[p][i] = journal[k].id
  BY <1>2, ListPages
<1>3. QED
  BY <1>1, <1>2 DEF PagingMissesNothing

\* A reader who pages to the end of search_transactions or list_transactions (ledger.py)
\* sees every entry that was there before the first page.
THEOREM PagesMissNothing == Spec => []PagingMissesNothing
<1>1. QED
  BY InvPaging, ReportsInvariant, PTL
===============================================================================
