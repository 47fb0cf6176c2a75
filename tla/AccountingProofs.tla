---------------------------- MODULE AccountingProofs ----------------------------
(***************************************************************************)
(* Lemmas the proofs about the ledger share.  The first sections know      *)
(* nothing of ledgers: the least and the greatest of a finite set, sums    *)
(* over finite sets of positions, and counts of them.  SumFunctionOnSet is *)
(* a recursive function, and induction on its argument is a least          *)
(* counterexample: among the subsets that refute a statement one is        *)
(* minimal, because inclusion is well-founded on the subsets of a finite   *)
(* set.  The last sections are about the operators of Accounting: what     *)
(* lines add up to, and the balances an entry is stamped with.             *)
(***************************************************************************)
EXTENDS Accounting, FiniteSetTheorems, SequenceTheorems, WellFoundedInduction, TLAPS

\* A finite non-empty set of numbers has a least one: with well-founded inclusion,
\* the smallest set of numbers below some member is empty.
LEMMA LeastExists ==
  ASSUME NEW S \in SUBSET Nat, S # {}, IsFiniteSet(S)
  PROVE  \E x \in S : \A y \in S : x <= y
<1> DEFINE Below(x) == {y \in S : y < x}
           R == StrictSubsetOrdering(S)
<1>1. IsWellFoundedOn(R, SUBSET S)
  BY FS_StrictSubsetOrderingWellFounded, FS_FiniteSubsetsOfFinite
<1>2. PICK T \in {Below(x) : x \in S} : \A U \in {Below(x) : x \in S} : <<U, T>> \notin R
  <2>1. {Below(x) : x \in S} \subseteq SUBSET S /\ {Below(x) : x \in S} # {}
    OBVIOUS
  <2> HIDE DEF Below, R
  <2>2. QED
    BY <1>1, <2>1, WFMin
<1>3. PICK x \in S : T = Below(x)
  BY <1>2
<1>4. ASSUME NEW y \in S, y < x
      PROVE  FALSE
  <2>1. /\ \A z \in S : z < y => z < x
        /\ ~(y < y)
    BY <1>4
  <2>2. Below(y) \subseteq Below(x)
    BY <2>1, Zenon
  <2>3. y \in Below(x) /\ y \notin Below(y)
    BY <1>4, <2>1, Zenon
  <2>4. Below(y) \in SUBSET S /\ Below(x) \in SUBSET S
    OBVIOUS
  <2> HIDE DEF Below
  <2>5. <<Below(y), Below(x)>> \in R
    BY <2>2, <2>3, <2>4 DEF StrictSubsetOrdering
  <2>6. QED
    BY <1>2, <1>3, <2>5
<1>5. QED
  BY <1>4

\* A finite non-empty set of numbers has a greatest one.
LEMMA GreatestExists ==
  ASSUME NEW S \in SUBSET Nat, S # {}, IsFiniteSet(S)
  PROVE  \E x \in S : \A y \in S : y <= x
<1> DEFINE Above(x) == {y \in S : x < y}
           R == StrictSubsetOrdering(S)
<1>1. IsWellFoundedOn(R, SUBSET S)
  BY FS_StrictSubsetOrderingWellFounded, FS_FiniteSubsetsOfFinite
<1>2. PICK T \in {Above(x) : x \in S} : \A U \in {Above(x) : x \in S} : <<U, T>> \notin R
  <2>1. {Above(x) : x \in S} \subseteq SUBSET S /\ {Above(x) : x \in S} # {}
    OBVIOUS
  <2> HIDE DEF Above, R
  <2>2. QED
    BY <1>1, <2>1, WFMin
<1>3. PICK x \in S : T = Above(x)
  BY <1>2
<1>4. ASSUME NEW y \in S, x < y
      PROVE  FALSE
  <2>1. /\ \A z \in S : y < z => x < z
        /\ ~(y < y)
    BY <1>4
  <2>2. Above(y) \subseteq Above(x)
    BY <2>1, Zenon
  <2>3. y \in Above(x) /\ y \notin Above(y)
    BY <1>4, <2>1, Zenon
  <2>4. Above(y) \in SUBSET S /\ Above(x) \in SUBSET S
    OBVIOUS
  <2> HIDE DEF Above
  <2>5. <<Above(y), Above(x)>> \in R
    BY <2>2, <2>3, <2>4 DEF StrictSubsetOrdering
  <2>6. QED
    BY <1>2, <1>3, <2>5
<1>5. QED
  BY <1>4

\* The least of a finite set.
LEMMA MinFacts ==
  ASSUME NEW S \in SUBSET Nat, S # {}, IsFiniteSet(S)
  PROVE  Min(S) \in S /\ \A y \in S : Min(S) <= y
<1>1. \E x \in S : \A y \in S : x <= y
  BY LeastExists
<1>2. QED
  BY <1>1 DEF Min

\* The greater of two.
LEMMA GreaterOfTwo ==
  ASSUME NEW a \in Int, NEW b \in Int
  PROVE  Max({a, b}) \in {a, b} /\ Max({a, b}) >= a /\ Max({a, b}) >= b
<1>1. \E x \in {a, b} : \A y \in {a, b} : x >= y
  OBVIOUS
<1>2. QED
  BY <1>1 DEF Max

-------------------------------------------------------------------------------
(* Sums. *)

\* The element a sum takes first, and what makes g the table of the sums of f over
\* the subsets of S.
First(s) == CHOOSE x \in s : TRUE
SumTable(g, f, S) ==
  g = [s \in SUBSET S |-> IF s = {} THEN 0 ELSE f[First(s)] + g[s \ {First(s)}]]

\* The sum is read off the table.
LEMMA SumFromTable ==
  ASSUME NEW f, NEW S
  PROVE  SumFunctionOnSet(f, S) = (CHOOSE g : SumTable(g, f, S))[S]
  BY Zenon DEF SumFunctionOnSet, FoldFunctionOnSet, MapThenFoldSet, SumTable, First

\* Among sets of subsets of a finite set one is minimal: it is what stands in for
\* an induction on finite sets.
LEMMA SmallestSubset ==
  ASSUME NEW S, IsFiniteSet(S), NEW B \in SUBSET (SUBSET S), B # {}
  PROVE  \E T \in B : \A U \in B : ~(U \subseteq T /\ U # T)
<1> DEFINE R == StrictSubsetOrdering(S)
<1>1. IsWellFoundedOn(R, SUBSET S)
  BY FS_StrictSubsetOrderingWellFounded, FS_FiniteSubsetsOfFinite
<1>2. PICK T \in B : \A U \in B : <<U, T>> \notin R
  <2> HIDE DEF R
  <2>1. QED
    BY <1>1, WFMin
<1>3. ASSUME NEW U \in B, U \subseteq T, U # T
      PROVE  FALSE
  <2>1. <<U, T>> \in R
    BY <1>3 DEF StrictSubsetOrdering
  <2>2. QED
    BY <1>2, <2>1
<1> QED
  BY <1>2, <1>3

\* It is one of its elements.
LEMMA FirstIn ==
  ASSUME NEW s, s # {}
  PROVE  First(s) \in s
  BY DEF First

\* Two tables agree where they are both defined.
LEMMA TablesAgree ==
  ASSUME NEW f, NEW S, IsFiniteSet(S), NEW T \in SUBSET S, NEW g, NEW h,
         SumTable(g, f, S), SumTable(h, f, T)
  PROVE  \A s \in SUBSET T : g[s] = h[s]
<1> DEFINE B == {s \in SUBSET T : g[s] # h[s]}
<1> SUFFICES ASSUME B # {} PROVE FALSE
  OBVIOUS
<1>1. PICK s \in B : \A U \in B : ~(U \subseteq s /\ U # s)
  <2>1. B \in SUBSET (SUBSET S)
    OBVIOUS
  <2> HIDE DEF B
  <2>2. QED
    BY <2>1, SmallestSubset
<1>2. s \in SUBSET T /\ s \in SUBSET S /\ g[s] # h[s]
  OBVIOUS
<1>3. s # {}
  BY <1>2 DEF SumTable
<1> DEFINE u == s \ {First(s)}
<1>4. u \in SUBSET T /\ u \subseteq s /\ u # s
  BY <1>2, <1>3, FirstIn
<1>5. g[u] = h[u]
  BY <1>1, <1>4
<1>6. g[s] = f[First(s)] + g[u] /\ h[s] = f[First(s)] + h[u]
  BY <1>2, <1>3 DEF SumTable
<1> QED
  BY <1>2, <1>5, <1>6

\* Sums over a finite set have a table.
LEMMA TableExists ==
  ASSUME NEW f, NEW S, IsFiniteSet(S)
  PROVE  \E g : SumTable(g, f, S)
<1> DEFINE B == {T \in SUBSET S : ~\E g : SumTable(g, f, T)}
<1> SUFFICES ASSUME B # {} PROVE FALSE
  OBVIOUS
<1>1. PICK T \in B : \A U \in B : ~(U \subseteq T /\ U # T)
  <2>1. B \in SUBSET (SUBSET S)
    OBVIOUS
  <2> HIDE DEF B
  <2>2. QED
    BY <2>1, SmallestSubset
<1> DEFINE V(s) == SumFunctionOnSet(f, s)
           g == [s \in SUBSET T |-> IF s = {} THEN 0 ELSE f[First(s)] + V(s \ {First(s)})]
<1>2. ASSUME NEW U \in SUBSET T, U # T
      PROVE  SumTable(CHOOSE h : SumTable(h, f, U), f, U)
  <2>1. \E h : SumTable(h, f, U)
    BY <1>1, <1>2
  <2>2. QED
    BY <2>1
<1>3. ASSUME NEW s \in SUBSET T, s # T
      PROVE  g[s] = V(s)
  <2> DEFINE h == CHOOSE x : SumTable(x, f, s)
             u == s \ {First(s)}
             k == CHOOSE x : SumTable(x, f, u)
  <2>1. SumTable(h, f, s) /\ V(s) = h[s]
    BY <1>2, <1>3, SumFromTable
  <2>2. CASE s = {}
    BY <2>1, <2>2 DEF SumTable
  <2>3. CASE s # {}
    <3>1. u \in SUBSET T /\ u # T /\ u \in SUBSET s
      BY <2>3, FirstIn
    <3>2. SumTable(k, f, u) /\ V(u) = k[u]
      BY <1>2, <3>1, SumFromTable
    <3>3. IsFiniteSet(s)
      BY FS_Subset
    <3>4. h[u] = k[u]
      BY <2>1, <3>1, <3>2, <3>3, TablesAgree
    <3>5. h[s] = f[First(s)] + h[u]
      BY <2>1, <2>3 DEF SumTable
    <3>6. g[s] = f[First(s)] + V(u)
      BY <2>3
    <3> QED
      BY <2>1, <3>2, <3>4, <3>5, <3>6
  <2> QED
    BY <2>2, <2>3
<1>4. \A s \in SUBSET T : s # {} => g[s \ {First(s)}] = V(s \ {First(s)})
  <2>1. ASSUME NEW s \in SUBSET T, s # {}
        PROVE  s \ {First(s)} \in SUBSET T /\ s \ {First(s)} # T
    BY <2>1, FirstIn
  <2> HIDE DEF V, g
  <2>2. QED
    BY <1>3, <2>1
<1>5. SumTable(g, f, T)
  <2>1. g = [s \in SUBSET T |-> IF s = {} THEN 0 ELSE f[First(s)] + V(s \ {First(s)})]
    OBVIOUS
  <2> HIDE DEF V, g
  <2>2. QED
    BY <1>4, <2>1 DEF SumTable
<1> QED
  BY <1>5

\* The sum over no index is zero.
LEMMA SumEmpty ==
  ASSUME NEW f
  PROVE  SumFunctionOnSet(f, {}) = 0
<1>1. PICK g : SumTable(g, f, {})
  BY TableExists, FS_EmptySet
<1>2. SumTable(CHOOSE h : SumTable(h, f, {}), f, {})
  BY <1>1
<1>3. QED
  BY <1>2, SumFromTable DEF SumTable

\* The sum over a finite set stands in its table.
LEMMA SumInTable ==
  ASSUME NEW f, NEW S, IsFiniteSet(S)
  PROVE  \E g : SumTable(g, f, S) /\ SumFunctionOnSet(f, S) = g[S]
<1>1. SumTable(CHOOSE g : SumTable(g, f, S), f, S)
  BY TableExists
<1>2. QED
  BY <1>1, SumFromTable

\* A sum over a set is its first term and the sum of the others.
LEMMA SumFirst ==
  ASSUME NEW f, NEW S, IsFiniteSet(S), S # {}
  PROVE  SumFunctionOnSet(f, S) = f[First(S)] + SumFunctionOnSet(f, S \ {First(S)})
<1>1. PICK g : SumTable(g, f, S) /\ SumFunctionOnSet(f, S) = g[S]
  BY SumInTable
<1>2. PICK T \in SUBSET S : T = S \ {First(S)}
  OBVIOUS
<1>3. IsFiniteSet(T)
  BY FS_Subset
<1>4. PICK h : SumTable(h, f, T) /\ SumFunctionOnSet(f, T) = h[T]
  BY <1>3, SumInTable
<1>5. SumTable(g, f, S) /\ SumTable(h, f, T)
  BY <1>1, <1>4
<1>6. g[T] = h[T]
  BY <1>5, TablesAgree
<1>7. g[S] = f[First(S)] + g[T]
  BY <1>1, <1>2 DEF SumTable
<1> QED
  BY <1>1, <1>2, <1>4, <1>6, <1>7

\* A sum of numbers of a set closed under addition is one of them.
LEMMA SumClosed ==
  ASSUME NEW N \in SUBSET Int, 0 \in N, \A x, y \in N : x + y \in N,
         NEW f, NEW S, IsFiniteSet(S), \A x \in S : f[x] \in N
  PROVE  SumFunctionOnSet(f, S) \in N
<1> DEFINE B == {T \in SUBSET S : SumFunctionOnSet(f, T) \notin N}
<1> SUFFICES ASSUME B # {} PROVE FALSE
  OBVIOUS
<1>1. PICK T \in B : \A U \in B : ~(U \subseteq T /\ U # T)
  <2>1. B \in SUBSET (SUBSET S)
    OBVIOUS
  <2> HIDE DEF B
  <2>2. QED
    BY <2>1, SmallestSubset
<1>2. T # {}
  BY <1>1, SumEmpty
<1>3. First(T) \in T /\ IsFiniteSet(T)
  BY <1>2, FirstIn, FS_Subset
<1>4. SumFunctionOnSet(f, T \ {First(T)}) \in N
  BY <1>1, <1>3
<1>5. SumFunctionOnSet(f, T) = f[First(T)] + SumFunctionOnSet(f, T \ {First(T)})
  BY <1>2, <1>3, SumFirst
<1>6. f[First(T)] \in N
  BY <1>3
<1>7. SumFunctionOnSet(f, T) \in N
  BY <1>4, <1>5, <1>6
<1> QED
  BY <1>7

\* A sum of integers is an integer.
LEMMA SumInt ==
  ASSUME NEW f, NEW S, IsFiniteSet(S), \A x \in S : f[x] \in Int
  PROVE  SumFunctionOnSet(f, S) \in Int
<1>1. 0 \in Int /\ Int \in SUBSET Int /\ \A x, y \in Int : x + y \in Int
  OBVIOUS
<1>2. QED
  BY <1>1, SumClosed

\* A sum of naturals is a natural.
LEMMA SumNat ==
  ASSUME NEW f, NEW S, IsFiniteSet(S), \A x \in S : f[x] \in Nat
  PROVE  SumFunctionOnSet(f, S) \in Nat
<1>1. 0 \in Nat /\ Nat \in SUBSET Int /\ \A x, y \in Nat : x + y \in Nat
  OBVIOUS
<1>2. QED
  BY <1>1, SumClosed

\* Any term may be taken first: the order of a sum does not matter.
LEMMA SumRemove ==
  ASSUME NEW f, NEW S, IsFiniteSet(S), \A x \in S : f[x] \in Int, NEW x \in S
  PROVE  SumFunctionOnSet(f, S) = f[x] + SumFunctionOnSet(f, S \ {x})
<1> DEFINE Z(T) == SumFunctionOnSet(f, T)
           B == {T \in SUBSET S : \E z \in T : Z(T) # f[z] + Z(T \ {z})}
<1> SUFFICES ASSUME B # {} PROVE FALSE
  OBVIOUS
<1>1. PICK T \in B : \A U \in B : ~(U \subseteq T /\ U # T)
  <2>1. B \in SUBSET (SUBSET S)
    OBVIOUS
  <2> HIDE DEF B
  <2>2. QED
    BY <2>1, SmallestSubset
<1>2. PICK z \in T : Z(T) # f[z] + Z(T \ {z})
  BY <1>1
<1>3. PICK y \in T : y = First(T)
  BY <1>2, FirstIn
<1>4. \A U \in SUBSET T : IsFiniteSet(U) /\ U \in SUBSET S /\ (U # T => U \notin B)
  BY <1>1, FS_Subset
<1>5. Z(T) = f[y] + Z(T \ {y})
  BY <1>2, <1>3, <1>4, SumFirst
<1>6. z # y
  BY <1>2, <1>5
<1>7. Z(T \ {y}) = f[z] + Z((T \ {y}) \ {z})
  <2>1. T \ {y} \in SUBSET T /\ T \ {y} # T /\ z \in T \ {y}
    BY <1>6
  <2>2. QED
    BY <1>4, <2>1
<1>8. Z(T \ {z}) = f[y] + Z((T \ {z}) \ {y})
  <2>1. T \ {z} \in SUBSET T /\ T \ {z} # T /\ y \in T \ {z}
    BY <1>6
  <2>2. QED
    BY <1>4, <2>1
<1>9. (T \ {y}) \ {z} = (T \ {z}) \ {y}
  OBVIOUS
<1>10. Z((T \ {z}) \ {y}) \in Int /\ f[y] \in Int /\ f[z] \in Int
  <2>1. (T \ {z}) \ {y} \in SUBSET T
    OBVIOUS
  <2>2. QED
    BY <1>4, <2>1, SumInt
<1>11. Z(T \ {y}) = f[z] + Z((T \ {z}) \ {y})
  BY <1>7, <1>9
<1> HIDE DEF Z, B
<1> QED
  BY <1>2, <1>5, <1>8, <1>10, <1>11

\* A new term is added to the sum.
LEMMA SumAdd ==
  ASSUME NEW f, NEW S, IsFiniteSet(S), NEW x, x \notin S, \A y \in S \union {x} : f[y] \in Int
  PROVE  SumFunctionOnSet(f, S \union {x}) = f[x] + SumFunctionOnSet(f, S)
<1> DEFINE T == S \union {x}
<1>1. IsFiniteSet(T) /\ x \in T /\ T \ {x} = S
  BY FS_AddElement
<1>2. \A y \in T : f[y] \in Int
  OBVIOUS
<1> HIDE DEF T
<1>3. SumFunctionOnSet(f, T) = f[x] + SumFunctionOnSet(f, T \ {x})
  BY <1>1, <1>2, SumRemove
<1> QED
  BY <1>1, <1>3 DEF T

\* A one-to-one image of a finite set has as many elements.
LEMMA CountImage ==
  ASSUME NEW S, IsFiniteSet(S), NEW h, \A x, y \in S : h[x] = h[y] => x = y
  PROVE  /\ IsFiniteSet({h[x] : x \in S})
         /\ Cardinality({h[x] : x \in S}) = Cardinality(S)
<1> DEFINE k == [x \in S |-> h[x]]
<1>1. k \in Bijection(S, {h[x] : x \in S})
  BY DEF Bijection, Injection, Surjection, IsInjective
<1>2. ExistsBijection(S, {h[x] : x \in S})
  BY <1>1 DEF ExistsBijection
<1>3. QED
  BY <1>2, FS_Bijection

\* Renaming the indices one to one changes nothing.
LEMMA SumReindex ==
  ASSUME NEW f, NEW g, NEW h, NEW S, IsFiniteSet(S),
         \A x \in S : f[x] \in Int /\ g[h[x]] = f[x],
         \A x, y \in S : h[x] = h[y] => x = y
  PROVE  SumFunctionOnSet(f, S) = SumFunctionOnSet(g, {h[x] : x \in S})
<1> DEFINE Image(T) == {h[x] : x \in T}
           Differ(T) == SumFunctionOnSet(f, T) # SumFunctionOnSet(g, Image(T))
           B == {T \in SUBSET S : Differ(T)}
<1> SUFFICES ASSUME B # {} PROVE FALSE
  OBVIOUS
<1>1. PICK T \in B : \A U \in B : ~(U \subseteq T /\ U # T)
  <2>1. B \in SUBSET (SUBSET S)
    OBVIOUS
  <2> HIDE DEF B
  <2>2. QED
    BY <2>1, SmallestSubset
<1>2. T # {}
  BY <1>1, SumEmpty
<1>3. PICK x \in T : x = First(T)
  BY <1>2, FirstIn
<1>4. T \in SUBSET S /\ IsFiniteSet(T) /\ IsFiniteSet(Image(T))
  <2>1. T \in SUBSET S /\ IsFiniteSet(T)
    BY <1>1, FS_Subset
  <2>2. \A y, z \in T : h[y] = h[z] => y = z
    BY <2>1
  <2>3. QED
    BY <2>1, <2>2, CountImage
<1>5. Image(T \ {x}) = Image(T) \ {h[x]} /\ h[x] \in Image(T)
  BY <1>4
<1>6. ~Differ(T \ {x})
  BY <1>1, <1>4
<1>7. \A y \in Image(T) : g[y] \in Int
  BY <1>4
<1> HIDE DEF Image
<1>8. SumFunctionOnSet(g, Image(T)) = g[h[x]] + SumFunctionOnSet(g, Image(T) \ {h[x]})
  BY <1>4, <1>5, <1>7, SumRemove
<1>9. SumFunctionOnSet(f, T) = f[x] + SumFunctionOnSet(f, T \ {x})
  BY <1>2, <1>3, <1>4, SumFirst
<1>10. g[h[x]] = f[x]
  BY <1>4
<1> QED
  BY <1>1, <1>5, <1>6, <1>8, <1>9, <1>10

\* Sums over the same indices of the same terms are the same.
LEMMA SumSame ==
  ASSUME NEW f, NEW g, NEW S, IsFiniteSet(S), \A x \in S : f[x] \in Int /\ g[x] = f[x]
  PROVE  SumFunctionOnSet(f, S) = SumFunctionOnSet(g, S)
<1> DEFINE h == [x \in S |-> x]
<1>1. {h[x] : x \in S} = S
  OBVIOUS
<1>2. (\A x \in S : g[h[x]] = f[x]) /\ \A x, y \in S : h[x] = h[y] => x = y
  OBVIOUS
<1> HIDE DEF h
<1>3. SumFunctionOnSet(f, S) = SumFunctionOnSet(g, {h[x] : x \in S})
  BY <1>2, SumReindex
<1> QED
  BY <1>1, <1>3

\* A sum over two disjoint sets is the sum of both sums.
LEMMA SumUnion ==
  ASSUME NEW f, NEW S, NEW T, IsFiniteSet(S), IsFiniteSet(T), S \intersect T = {},
         \A x \in S \union T : f[x] \in Int
  PROVE  SumFunctionOnSet(f, S \union T) = SumFunctionOnSet(f, S) + SumFunctionOnSet(f, T)
<1> DEFINE Z(U) == SumFunctionOnSet(f, U)
           B == {U \in SUBSET T : Z(S \union U) # Z(S) + Z(U)}
<1> SUFFICES ASSUME B # {} PROVE FALSE
  OBVIOUS
<1>1. PICK U \in B : \A V \in B : ~(V \subseteq U /\ V # U)
  <2>1. B \in SUBSET (SUBSET T)
    OBVIOUS
  <2> HIDE DEF B
  <2>2. QED
    BY <2>1, SmallestSubset
<1>2. U # {}
  <2>1. S \union {} = S /\ Z({}) = 0 /\ Z(S) \in Int
    BY SumEmpty, SumInt
  <2>2. Z(S \union U) # Z(S) + Z(U)
    BY <1>1
  <2> HIDE DEF Z, B
  <2>3. ASSUME U = {} PROVE FALSE
    <3>1. S \union U = S /\ Z(U) = 0
      BY <2>1, <2>3
    <3>2. Z(S \union U) = Z(S)
      BY <3>1
    <3>3. QED
      BY <2>1, <2>2, <3>1, <3>2
  <2>4. QED
    BY <2>3
<1>3. PICK x \in U : TRUE
  BY <1>2
<1>4. /\ U \in SUBSET T /\ IsFiniteSet(U) /\ IsFiniteSet(U \ {x}) /\ IsFiniteSet(S \union U)
  BY <1>1, FS_Subset, FS_Union
<1>5. Z(S \union (U \ {x})) = Z(S) + Z(U \ {x})
  BY <1>1, <1>4
<1>6. (S \union U) \ {x} = S \union (U \ {x})
  BY <1>4
<1>7. Z(S \union U) = f[x] + Z((S \union U) \ {x})
  BY <1>4, SumRemove
<1>8. Z(U) = f[x] + Z(U \ {x})
  BY <1>4, SumRemove
<1>9. Z(S) \in Int /\ Z(U \ {x}) \in Int /\ f[x] \in Int
  BY <1>4, SumInt
<1> HIDE DEF Z
<1> QED
  BY <1>1, <1>5, <1>6, <1>7, <1>8, <1>9

\* The sum of differences is the difference of the sums.
LEMMA SumDifference ==
  ASSUME NEW f, NEW g, NEW h, NEW S, IsFiniteSet(S),
         \A x \in S : g[x] \in Int /\ h[x] \in Int /\ f[x] = g[x] - h[x]
  PROVE  SumFunctionOnSet(f, S) = SumFunctionOnSet(g, S) - SumFunctionOnSet(h, S)
<1> DEFINE Differ(T) == SumFunctionOnSet(f, T) # SumFunctionOnSet(g, T) - SumFunctionOnSet(h, T)
           B == {T \in SUBSET S : Differ(T)}
<1> SUFFICES ASSUME B # {} PROVE FALSE
  OBVIOUS
<1>1. PICK T \in B : \A U \in B : ~(U \subseteq T /\ U # T)
  <2>1. B \in SUBSET (SUBSET S)
    OBVIOUS
  <2> HIDE DEF B
  <2>2. QED
    BY <2>1, SmallestSubset
<1>2. T # {}
  <2>1. /\ SumFunctionOnSet(f, {}) = 0 /\ SumFunctionOnSet(g, {}) = 0
        /\ SumFunctionOnSet(h, {}) = 0
    BY SumEmpty
  <2>2. ~Differ({})
    BY <2>1
  <2> HIDE DEF Differ
  <2>3. QED
    BY <1>1, <2>2
<1>3. PICK x \in T : TRUE
  BY <1>2
<1>4. T \in SUBSET S /\ IsFiniteSet(T) /\ IsFiniteSet(T \ {x})
  BY <1>1, FS_Subset
<1>5. ~Differ(T \ {x})
  BY <1>1, <1>3, <1>4
<1>6. \A y \in T : f[y] \in Int /\ g[y] \in Int /\ h[y] \in Int
  BY <1>4
<1>7. /\ SumFunctionOnSet(f, T) = f[x] + SumFunctionOnSet(f, T \ {x})
      /\ SumFunctionOnSet(g, T) = g[x] + SumFunctionOnSet(g, T \ {x})
      /\ SumFunctionOnSet(h, T) = h[x] + SumFunctionOnSet(h, T \ {x})
  BY <1>4, <1>6, SumRemove
<1>8. SumFunctionOnSet(g, T \ {x}) \in Int /\ SumFunctionOnSet(h, T \ {x}) \in Int
  BY <1>4, <1>6, SumInt
<1>9. f[x] = g[x] - h[x] /\ g[x] \in Int /\ h[x] \in Int
  BY <1>4
<1>10. Differ(T)
  BY <1>1
<1> HIDE DEF B
<1>11. QED
  BY <1>5, <1>7, <1>8, <1>9, <1>10

\* Terms that are zero may be left out.
LEMMA SumNonzero ==
  ASSUME NEW f, NEW S, IsFiniteSet(S), NEW T \in SUBSET S,
         \A x \in S : f[x] \in Int, \A x \in S \ T : f[x] = 0
  PROVE  SumFunctionOnSet(f, S) = SumFunctionOnSet(f, T)
<1> DEFINE Rest == S \ T
<1>1. IsFiniteSet(T) /\ IsFiniteSet(Rest) /\ T \union Rest = S /\ T \intersect Rest = {}
  BY FS_Subset
<1>2. \A x \in Rest : f[x] \in Int /\ f[x] = f[x] - f[x]
  OBVIOUS
<1>3. (\A x \in T \union Rest : f[x] \in Int) /\ \A x \in Rest : f[x] \in Int
  OBVIOUS
<1>4. \A x \in T : f[x] \in Int
  OBVIOUS
<1> HIDE DEF Rest
<1>5. SumFunctionOnSet(f, Rest) = SumFunctionOnSet(f, Rest) - SumFunctionOnSet(f, Rest)
  BY <1>1, <1>2, SumDifference
<1>6. SumFunctionOnSet(f, Rest) \in Int /\ SumFunctionOnSet(f, T) \in Int
  BY <1>1, <1>3, <1>4, SumInt
<1>7. SumFunctionOnSet(f, T \union Rest) = SumFunctionOnSet(f, T) + SumFunctionOnSet(f, Rest)
  BY <1>1, <1>3, SumUnion
<1>8. QED
  BY <1>1, <1>5, <1>6, <1>7

-------------------------------------------------------------------------------
(* Positions of a sequence that is made of two. *)

\* Positions are finitely many.
LEMMA PositionsFinite ==
  ASSUME NEW n \in Nat
  PROVE  IsFiniteSet(1..n)
  BY FS_Interval

\* The positions among X of the first m, and of the n that follow them.
FirstPart(X, m) == {i \in 1..m : i \in X}
SecondPart(X, m, n) == {j \in 1..n : m + j \in X}
Shift(m, n) == [j \in 1..n |-> m + j]
Shifted(X, m, n) == {Shift(m, n)[j] : j \in SecondPart(X, m, n)}

\* The positions X of the whole are those of the first part, and those of the
\* second shifted by the length of the first.
LEMMA SplitPositions ==
  ASSUME NEW m \in Nat, NEW n \in Nat, NEW X \in SUBSET (1..(m + n))
  PROVE  /\ IsFiniteSet(FirstPart(X, m)) /\ IsFiniteSet(SecondPart(X, m, n))
         /\ IsFiniteSet(Shifted(X, m, n))
         /\ Cardinality(Shifted(X, m, n)) = Cardinality(SecondPart(X, m, n))
         /\ \A i, j \in SecondPart(X, m, n) : Shift(m, n)[i] = Shift(m, n)[j] => i = j
         /\ X = FirstPart(X, m) \union Shifted(X, m, n)
         /\ FirstPart(X, m) \intersect Shifted(X, m, n) = {}
<1>1. IsFiniteSet(1..m) /\ IsFiniteSet(1..n)
  BY FS_Interval
<1>2. FirstPart(X, m) \in SUBSET (1..m) /\ SecondPart(X, m, n) \in SUBSET (1..n)
  BY DEF FirstPart, SecondPart
<1>3. IsFiniteSet(FirstPart(X, m)) /\ IsFiniteSet(SecondPart(X, m, n))
  BY <1>1, <1>2, FS_Subset
<1>4. \A j \in SecondPart(X, m, n) : Shift(m, n)[j] = m + j
  BY <1>2 DEF Shift
<1>5. \A i, j \in SecondPart(X, m, n) : Shift(m, n)[i] = Shift(m, n)[j] => i = j
  BY <1>2, <1>4
<1>6. ASSUME NEW i \in X, i \notin FirstPart(X, m)
      PROVE  i \in Shifted(X, m, n)
  <2>1. i - m \in 1..n /\ m + (i - m) = i
    BY <1>6 DEF FirstPart
  <2>2. i - m \in SecondPart(X, m, n)
    BY <2>1 DEF SecondPart
  <2>3. i = Shift(m, n)[i - m]
    BY <1>4, <2>1, <2>2
  <2>4. QED
    BY <2>2, <2>3 DEF Shifted
<1>7. ASSUME NEW i \in Shifted(X, m, n)
      PROVE  i \in X /\ i \notin FirstPart(X, m)
  <2>1. PICK j \in SecondPart(X, m, n) : i = m + j
    BY <1>4 DEF Shifted
  <2>2. QED
    BY <2>1 DEF FirstPart, SecondPart
<1>8. FirstPart(X, m) \subseteq X
  BY DEF FirstPart
<1>9. X = FirstPart(X, m) \union Shifted(X, m, n) /\ FirstPart(X, m) \intersect Shifted(X, m, n) = {}
  BY <1>6, <1>7, <1>8
<1>10. /\ IsFiniteSet(Shifted(X, m, n))
       /\ Cardinality(Shifted(X, m, n)) = Cardinality(SecondPart(X, m, n))
  BY <1>3, <1>5, CountImage DEF Shifted
<1> QED
  BY <1>3, <1>5, <1>9, <1>10

\* A count of positions is the count in the first part and in the second.
LEMMA CountConcat ==
  ASSUME NEW m \in Nat, NEW n \in Nat, NEW X \in SUBSET (1..(m + n))
  PROVE  Cardinality(X) = Cardinality(FirstPart(X, m)) + Cardinality(SecondPart(X, m, n))
<1> DEFINE Y == FirstPart(X, m)
           V == Shifted(X, m, n)
<1>1. /\ IsFiniteSet(Y) /\ IsFiniteSet(V) /\ X = Y \union V /\ Y \intersect V = {}
      /\ Cardinality(V) = Cardinality(SecondPart(X, m, n))
  BY SplitPositions
<1> HIDE DEF Y, V
<1>2. Cardinality(Y \union V) = Cardinality(Y) + Cardinality(V) - Cardinality({})
  BY <1>1, FS_Union
<1>3. Cardinality({}) = 0 /\ Cardinality(Y) \in Nat /\ Cardinality(V) \in Nat
  BY <1>1, FS_EmptySet, FS_CardinalityType
<1>4. Cardinality(X) = Cardinality(Y) + Cardinality(SecondPart(X, m, n))
  BY <1>1, <1>2, <1>3
<1> QED
  BY <1>4 DEF Y

\* On the positions X, f has the numbers of e followed by those of g.
Spliced(f, e, g, X, m, n) ==
  /\ \A i \in X : f[i] \in Int
  /\ \A i \in FirstPart(X, m) : e[i] = f[i]
  /\ \A j \in SecondPart(X, m, n) : g[j] = f[m + j]

\* A sum over positions is the sum over the first part and over the second.
LEMMA SumConcat ==
  ASSUME NEW m \in Nat, NEW n \in Nat, NEW X \in SUBSET (1..(m + n)),
         NEW f, NEW e, NEW g, Spliced(f, e, g, X, m, n)
  PROVE  SumFunctionOnSet(f, X) =
           SumFunctionOnSet(e, FirstPart(X, m)) + SumFunctionOnSet(g, SecondPart(X, m, n))
<1> DEFINE Y == FirstPart(X, m)
           Z == SecondPart(X, m, n)
           V == Shifted(X, m, n)
           h == Shift(m, n)
<1>1. /\ IsFiniteSet(Y) /\ IsFiniteSet(Z) /\ IsFiniteSet(V)
      /\ X = Y \union V /\ Y \intersect V = {}
      /\ \A i, j \in Z : h[i] = h[j] => i = j
  BY SplitPositions
<1>2. V = {h[j] : j \in Z}
  BY DEF Shifted
<1>3. \A j \in Z : h[j] = m + j
  BY DEF SecondPart, Shift
<1>4. /\ \A i \in X : f[i] \in Int
      /\ \A i \in Y : e[i] = f[i]
      /\ \A j \in Z : g[j] = f[m + j]
  BY DEF Spliced
<1> HIDE DEF Y, Z, V, h
<1>5. SumFunctionOnSet(f, Y \union V) = SumFunctionOnSet(f, Y) + SumFunctionOnSet(f, V)
  <2>1. \A i \in Y \union V : f[i] \in Int
    BY <1>1, <1>4
  <2>2. QED
    BY <1>1, <2>1, SumUnion
<1>6. SumFunctionOnSet(f, Y) = SumFunctionOnSet(e, Y)
  <2>1. \A i \in Y : f[i] \in Int /\ e[i] = f[i]
    BY <1>1, <1>4
  <2>2. QED
    BY <1>1, <2>1, SumSame
<1>7. SumFunctionOnSet(g, Z) = SumFunctionOnSet(f, {h[j] : j \in Z})
  <2>1. \A j \in Z : f[h[j]] = g[j]
    BY <1>3, <1>4
  <2>2. \A j \in Z : h[j] \in X
    BY <1>1, <1>2
  <2>3. \A j \in Z : g[j] \in Int /\ f[h[j]] = g[j]
    BY <1>4, <2>1, <2>2
  <2>4. QED
    BY <1>1, <2>3, SumReindex
<1>8. SumFunctionOnSet(f, X) = SumFunctionOnSet(e, Y) + SumFunctionOnSet(g, Z)
  BY <1>1, <1>2, <1>5, <1>6, <1>7
<1> QED
  BY <1>8 DEF Y, Z

-------------------------------------------------------------------------------
(* One more position. *)

\* Whether the position after the first m counts.
NextPart(T, m) == IF m + 1 \in T THEN {m + 1} ELSE {}

\* The positions T of m + 1 are those of the first m, and the last if it counts.
LEMMA GrownPositions ==
  ASSUME NEW m \in Nat, NEW T \in SUBSET (1..(m + 1))
  PROVE  /\ IsFiniteSet(FirstPart(T, m)) /\ m + 1 \notin FirstPart(T, m)
         /\ T = FirstPart(T, m) \union NextPart(T, m)
<1>1. FirstPart(T, m) \in SUBSET (1..m)
  BY DEF FirstPart
<1>2. IsFiniteSet(FirstPart(T, m)) /\ m + 1 \notin FirstPart(T, m)
  BY <1>1, FS_Interval, FS_Subset
<1>3. \A i \in T : i \in 1..m \/ i = m + 1
  OBVIOUS
<1>4. QED
  BY <1>2, <1>3 DEF FirstPart, NextPart

\* A sum over one more position, of numbers that do not change.
LEMMA SumGrows ==
  ASSUME NEW m \in Nat, NEW T \in SUBSET (1..(m + 1)), NEW f, NEW g,
         \A i \in FirstPart(T, m) : f[i] \in Int /\ g[i] = f[i],
         m + 1 \in T => g[m + 1] \in Int
  PROVE  SumFunctionOnSet(g, T) =
           SumFunctionOnSet(f, FirstPart(T, m)) + (IF m + 1 \in T THEN g[m + 1] ELSE 0)
<1> DEFINE S == FirstPart(T, m)
<1>1. /\ IsFiniteSet(S) /\ m + 1 \notin S
      /\ T = S \union NextPart(T, m)
  BY GrownPositions
<1>2. \A i \in S : f[i] \in Int /\ g[i] = f[i]
  OBVIOUS
<1> HIDE DEF S
<1>3. SumFunctionOnSet(f, S) = SumFunctionOnSet(g, S)
  BY <1>1, <1>2, SumSame
<1>4. SumFunctionOnSet(f, S) \in Int
  <2>1. \A i \in S : f[i] \in Int
    BY <1>2
  <2>2. QED
    BY <1>1, <2>1, SumInt
<1>5. CASE m + 1 \in T
  <2>1. T = S \union {m + 1}
    BY <1>1, <1>5 DEF NextPart
  <2>2. \A i \in S \union {m + 1} : g[i] \in Int
    BY <1>2, <1>5
  <2>3. SumFunctionOnSet(g, S \union {m + 1}) = g[m + 1] + SumFunctionOnSet(g, S)
    BY <1>1, <2>2, SumAdd
  <2>4. g[m + 1] \in Int
    BY <1>5
  <2>5. QED
    BY <1>3, <1>4, <1>5, <2>1, <2>3, <2>4 DEF S
<1>6. CASE m + 1 \notin T
  <2>1. T = S
    BY <1>1, <1>6 DEF NextPart
  <2>2. QED
    BY <1>3, <1>4, <1>6, <2>1 DEF S
<1> QED
  BY <1>5, <1>6

\* A count over one more position.
LEMMA CountGrows ==
  ASSUME NEW m \in Nat, NEW T \in SUBSET (1..(m + 1))
  PROVE  Cardinality(T) = Cardinality(FirstPart(T, m)) + (IF m + 1 \in T THEN 1 ELSE 0)
<1> DEFINE S == FirstPart(T, m)
<1>1. IsFiniteSet(S) /\ m + 1 \notin S /\ T = S \union NextPart(T, m)
  BY GrownPositions
<1> HIDE DEF S
<1>2. Cardinality(S) \in Nat
  BY <1>1, FS_CardinalityType
<1>3. Cardinality(S \union {m + 1}) = Cardinality(S) + 1
  BY <1>1, FS_AddElement
<1>4. Cardinality(T) = Cardinality(S) + (IF m + 1 \in T THEN 1 ELSE 0)
  <2>1. m + 1 \in T => T = S \union {m + 1}
    BY <1>1 DEF NextPart
  <2>2. m + 1 \notin T => T = S
    BY <1>1 DEF NextPart
  <2>3. CASE m + 1 \in T
    BY <1>3, <2>1, <2>3
  <2>4. CASE m + 1 \notin T
    BY <1>2, <2>2, <2>4
  <2> QED
    BY <2>3, <2>4
<1> QED
  BY <1>4 DEF S

-------------------------------------------------------------------------------
(* What lines add up to on one account. *)

\* The first n lines that are on account a in one direction, and what they add.
On(rows, n, a, d) == {i \in 1 .. n : rows[i].account = a /\ rows[i].direction = d}
Part(rows, n, a) ==
  [debits |-> SumFunctionOnSet(AmountOf(rows), On(rows, n, a, "debit")),
   credits |-> SumFunctionOnSet(AmountOf(rows), On(rows, n, a, "credit"))]

\* Totals of lines are naturals.
LEMMA PartType ==
  ASSUME NEW rows, AreLines(rows), NEW n \in 0 .. Len(rows), NEW a
  PROVE  Part(rows, n, a) \in Totals
<1>1. \A d : On(rows, n, a, d) \in SUBSET (1 .. n) /\ On(rows, n, a, d) \subseteq DOMAIN rows
  BY DEF On, AreLines
<1>2. \A d : IsFiniteSet(On(rows, n, a, d))
  BY <1>1, PositionsFinite, FS_Subset
<1>3. \A i \in DOMAIN rows : AmountOf(rows)[i] \in Nat
  BY DEF AreLines, AmountOf
<1>4. \A d : SumFunctionOnSet(AmountOf(rows), On(rows, n, a, d)) \in Nat
  BY <1>1, <1>2, <1>3, SumNat
<1>5. QED
  BY <1>4 DEF Part, Totals

\* The deltas of all lines are those of the first Len(rows).
LEMMA DeltaIsPart ==
  ASSUME NEW rows, AreLines(rows), NEW a
  PROVE  Delta(a, rows) = Part(rows, Len(rows), a)
<1>1. \A d : {i \in DOMAIN rows : rows[i].account = a /\ rows[i].direction = d} =
               On(rows, Len(rows), a, d)
  BY DEF On, AreLines
<1>2. QED
  BY <1>1 DEF Delta, SumOver, Part

\* The deltas of a prefix are those of its lines.
LEMMA PrefixIsPart ==
  ASSUME NEW rows, AreLines(rows), NEW n \in 0 .. Len(rows), NEW a
  PROVE  Delta(a, SubSeq(rows, 1, n)) = Part(rows, n, a)
<1> DEFINE s == SubSeq(rows, 1, n)
<1>1. DOMAIN s = 1 .. n /\ \A i \in 1 .. n : s[i] = rows[i]
  BY DEF AreLines
<1> HIDE DEF s
<1>2. \A d : {i \in DOMAIN s : s[i].account = a /\ s[i].direction = d} = On(rows, n, a, d)
  BY <1>1 DEF On
<1>3. \A d : SumFunctionOnSet(AmountOf(s), On(rows, n, a, d)) =
               SumFunctionOnSet(AmountOf(rows), On(rows, n, a, d))
  <2>1. TAKE d
  <2>2. On(rows, n, a, d) \in SUBSET (1 .. n)
    BY DEF On
  <2>3. IsFiniteSet(On(rows, n, a, d))
    BY <2>2, PositionsFinite, FS_Subset
  <2>4. \A i \in 1 .. n : AmountOf(s)[i] \in Int /\ AmountOf(rows)[i] = AmountOf(s)[i]
    BY <1>1 DEF AmountOf, AreLines
  <2>5. QED
    BY <2>2, <2>3, <2>4, SumSame
<1>4. QED
  BY <1>2, <1>3 DEF Delta, SumOver, Part, s

\* One more line adds its effect to the signed balance of its account.
LEMMA PartGrows ==
  ASSUME NEW rows, AreLines(rows), NEW n \in Nat, n + 1 <= Len(rows), NEW a
  PROVE  Signed(a, Part(rows, n + 1, a)) =
           Signed(a, Part(rows, n, a))
             + (IF rows[n + 1].account = a
                THEN Effect(a, rows[n + 1].direction, rows[n + 1].amount) ELSE 0)
<1> DEFINE f == AmountOf(rows)
           total(k, d) == SumFunctionOnSet(f, On(rows, k, a, d))
<1>1. n + 1 \in DOMAIN rows /\ f[n + 1] = rows[n + 1].amount /\ rows[n + 1].amount \in Nat
      /\ rows[n + 1].direction \in Direction
  BY DEF AreLines, AmountOf
<1>2. \A d : total(n + 1, d) = total(n, d) + (IF n + 1 \in On(rows, n + 1, a, d) THEN f[n + 1] ELSE 0)
  <2>1. TAKE d
  <2>2. On(rows, n + 1, a, d) \in SUBSET (1 .. (n + 1))
    BY DEF On
  <2>3. FirstPart(On(rows, n + 1, a, d), n) = On(rows, n, a, d)
    BY DEF On, FirstPart
  <2>4. \A i \in On(rows, n, a, d) : f[i] \in Int
    BY DEF On, AreLines, AmountOf
  <2>5. n + 1 \in On(rows, n + 1, a, d) => f[n + 1] \in Int
    BY <1>1
  <2> HIDE DEF f
  <2>6. QED
    BY <2>2, <2>3, <2>4, <2>5, SumGrows
<1>3. \A d : n + 1 \in On(rows, n + 1, a, d) <=> rows[n + 1].account = a /\ rows[n + 1].direction = d
  BY DEF On
<1>4. total(n, "debit") \in Nat /\ total(n, "credit") \in Nat
  BY PartType DEF Part, Totals
<1>5. /\ Part(rows, n + 1, a).debits = total(n + 1, "debit")
      /\ Part(rows, n + 1, a).credits = total(n + 1, "credit")
      /\ Part(rows, n, a).debits = total(n, "debit")
      /\ Part(rows, n, a).credits = total(n, "credit")
  BY DEF Part
<1> HIDE DEF f, total
<1>6. QED
  BY <1>1, <1>2, <1>3, <1>4, <1>5 DEF Signed, Effect, NormalBalance, Direction

\* Lines that are not on the account add nothing to it.
LEMMA PartIdle ==
  ASSUME NEW rows, AreLines(rows), NEW m \in 0 .. Len(rows), NEW n \in m .. Len(rows), NEW a,
         \A i \in (m + 1) .. n : rows[i].account # a
  PROVE  Part(rows, n, a) = Part(rows, m, a)
<1>1. \A d : On(rows, n, a, d) = On(rows, m, a, d)
  BY DEF On
<1>2. QED
  BY <1>1 DEF Part

\* No lines, no change.
LEMMA PartEmpty ==
  ASSUME NEW rows, NEW a
  PROVE  Part(rows, 0, a) = ZeroTotals
<1>1. \A d : On(rows, 0, a, d) = {}
  BY DEF On
<1>2. QED
  BY <1>1, SumEmpty DEF Part, ZeroTotals

-------------------------------------------------------------------------------
(* Stored balances, and the balances an entry is stamped with. *)

\* Posting lines keeps stored balances totals, and moves a signed balance by what
\* the lines add.
LEMMA MovedFacts ==
  ASSUME NEW totals \in [Accounts -> Totals], NEW rows, AreLines(rows)
  PROVE  /\ Moved(totals, rows) \in [Accounts -> Totals]
         /\ \A a \in Accounts :
              Signed(a, Moved(totals, rows)[a]) = Signed(a, totals[a]) + Signed(a, Part(rows, Len(rows), a))
<1>1. \A a : Delta(a, rows) = Part(rows, Len(rows), a) /\ Delta(a, rows) \in Totals
  <2>1. TAKE a
  <2>2. Len(rows) \in 0 .. Len(rows)
    BY DEF AreLines
  <2>3. QED
    BY <2>2, PartType, DeltaIsPart
<1>2. \A a \in Accounts :
        Moved(totals, rows)[a] = [debits |-> totals[a].debits + Delta(a, rows).debits,
                                  credits |-> totals[a].credits + Delta(a, rows).credits]
  BY DEF Moved
<1>3. ASSUME NEW a \in Accounts
      PROVE  /\ Moved(totals, rows)[a] \in Totals
             /\ Signed(a, Moved(totals, rows)[a]) =
                  Signed(a, totals[a]) + Signed(a, Delta(a, rows))
  <2>1. /\ totals[a].debits \in Nat /\ totals[a].credits \in Nat
        /\ Delta(a, rows).debits \in Nat /\ Delta(a, rows).credits \in Nat
    BY <1>1 DEF Totals
  <2>2. Moved(totals, rows)[a] = [debits |-> totals[a].debits + Delta(a, rows).debits,
                                  credits |-> totals[a].credits + Delta(a, rows).credits]
    BY <1>2
  <2>3. Moved(totals, rows)[a] \in Totals
    BY <2>1, <2>2 DEF Totals
  <2>4. QED
    BY <2>1, <2>2, <2>3 DEF Signed
<1>4. Moved(totals, rows) \in [Accounts -> Totals]
  BY <1>3 DEF Moved
<1>5. QED
  BY <1>1, <1>3, <1>4

\* A sequence k that is j and one more element e.
OneLonger(j, k, e) ==
  /\ \E T : k \in Seq(T)
  /\ Len(j) \in Nat /\ DOMAIN j = 1 .. Len(j)
  /\ Len(k) = Len(j) + 1
  /\ DOMAIN k = DOMAIN j \union {Len(j) + 1}
  /\ \A i \in DOMAIN j : k[i] = j[i] /\ i # Len(j) + 1
  /\ k[Len(j) + 1] = e

\* Append makes such a sequence.
LEMMA AppendGrows ==
  ASSUME NEW S, NEW j \in Seq(S), NEW e
  PROVE  OneLonger(j, Append(j, e), e)
<1>1. j \in Seq(S \union {e}) /\ e \in S \union {e}
  BY SeqMonotonic
<1>2. PICK k : k = Append(j, e)
  OBVIOUS
<1>3. /\ k \in Seq(S \union {e})
      /\ Len(k) = Len(j) + 1
      /\ \A i \in 1 .. Len(j) : k[i] = j[i]
      /\ k[Len(j) + 1] = e
  BY <1>1, <1>2, AppendProperties
<1>4. Len(j) \in Nat /\ DOMAIN j = 1 .. Len(j)
  BY LenProperties
<1>5. DOMAIN k = 1 .. (Len(j) + 1)
  BY <1>3, LenProperties
<1>6. OneLonger(j, k, e)
  BY <1>3, <1>4, <1>5 DEF OneLonger
<1>7. QED
  BY <1>2, <1>6

\* The balances after the first n of some drafts.
BalanceTable(drafts, g, n) ==
  g = [i \in 0 .. n |-> IF i = 0 THEN [a \in Accounts |-> ZeroTotals]
                        ELSE Moved(g[i - 1], drafts[i].rows)]

\* There are such balances: a least n without any has none, since one more entry can
\* be added to those before it.
LEMMA BalanceTableExists ==
  ASSUME NEW drafts, Len(drafts) \in Nat, NEW n \in 0 .. Len(drafts)
  PROVE  \E g : BalanceTable(drafts, g, n)
<1> DEFINE N == Len(drafts)
           B == {k \in 0 .. N : ~\E g : BalanceTable(drafts, g, k)}
<1>0. N \in Nat
  OBVIOUS
<1> HIDE DEF N
<1>1. SUFFICES ASSUME B # {} PROVE FALSE
  BY DEF N
<1>2. B \in SUBSET Nat /\ IsFiniteSet(B)
  <2>1. B \in SUBSET (0 .. N)
    OBVIOUS
  <2> HIDE DEF B
  <2>2. 0 .. N \in SUBSET Nat /\ IsFiniteSet(0 .. N)
    BY <1>0, FS_Interval
  <2>3. QED
    BY <2>1, <2>2, FS_Subset
<1>3. PICK k \in B : \A j \in B : k <= j
  BY <1>1, <1>2, LeastExists
<1>4. CASE k = 0
  <2>1. BalanceTable(drafts, [i \in 0 .. 0 |-> [a \in Accounts |-> ZeroTotals]], 0)
    BY DEF BalanceTable
  <2>2. QED
    BY <1>3, <1>4, <2>1
<1>5. CASE k # 0
  <2>1. k - 1 \in 0 .. N /\ k - 1 \notin B
    BY <1>0, <1>3, <1>5
  <2>2. PICK g : BalanceTable(drafts, g, k - 1)
    BY <2>1
  <2> DEFINE h == [i \in 0 .. k |-> IF i < k THEN g[i] ELSE Moved(g[k - 1], drafts[k].rows)]
  <2>3. \A i \in 0 .. k : h[i] = IF i = 0 THEN [a \in Accounts |-> ZeroTotals]
                                 ELSE Moved(h[i - 1], drafts[i].rows)
    <3>1. TAKE i \in 0 .. k
    <3>2. k \in Nat
      BY <1>3
    <3>3. CASE i = 0
      BY <1>5, <2>2, <3>2, <3>3 DEF BalanceTable
    <3>4. CASE i # 0 /\ i < k
      <4>1. i \in 0 .. (k - 1) /\ h[i] = g[i] /\ h[i - 1] = g[i - 1]
        BY <3>2, <3>4
      <4>2. g[i] = Moved(g[i - 1], drafts[i].rows)
        BY <2>2, <3>4, <4>1 DEF BalanceTable
      <4>3. QED
        BY <3>4, <4>1, <4>2
    <3>5. CASE i = k
      <4>1. h[i] = Moved(g[k - 1], drafts[k].rows) /\ h[i - 1] = g[k - 1]
        BY <1>5, <3>2, <3>5
      <4>2. QED
        BY <1>5, <3>5, <4>1
    <3>6. QED
      BY <3>2, <3>3, <3>4, <3>5
  <2>4. DOMAIN h = 0 .. k /\ h = [i \in 0 .. k |-> h[i]]
    OBVIOUS
  <2> HIDE DEF h
  <2>5. BalanceTable(drafts, h, k)
    BY <2>3, <2>4 DEF BalanceTable
  <2>6. QED
    BY <1>3, <2>5
<1>6. QED
  BY <1>4, <1>5

\* They are totals.
LEMMA BalanceTableType ==
  ASSUME NEW drafts, Len(drafts) \in Nat, \A i \in 1 .. Len(drafts) : AreLines(drafts[i].rows),
         NEW g, BalanceTable(drafts, g, Len(drafts))
  PROVE  \A i \in 0 .. Len(drafts) : g[i] \in [Accounts -> Totals]
<1> DEFINE N == Len(drafts)
           B == {k \in 0 .. N : g[k] \notin [Accounts -> Totals]}
<1>1. ASSUME B # {} PROVE FALSE
  <2>1. N \in Nat
    OBVIOUS
  <2> HIDE DEF N
  <2>2. B \in SUBSET Nat /\ IsFiniteSet(B)
    <3>1. B \in SUBSET (0 .. N)
      OBVIOUS
    <3> HIDE DEF B
    <3>2. 0 .. N \in SUBSET Nat /\ IsFiniteSet(0 .. N)
      BY <2>1, FS_Interval
    <3>3. QED
      BY <3>1, <3>2, FS_Subset
  <2>3. PICK k \in B : \A j \in B : k <= j
    BY <1>1, <2>2, LeastExists
  <2>4. CASE k = 0
    BY <2>1, <2>3, <2>4 DEF BalanceTable, ZeroTotals, Totals, N
  <2>5. CASE k # 0
    <3>1. k - 1 \in 0 .. N /\ k - 1 \notin B /\ k \in 1 .. N
      BY <2>1, <2>3, <2>5
    <3>2. g[k - 1] \in [Accounts -> Totals]
      BY <3>1
    <3>3. AreLines(drafts[k].rows)
      BY <3>1 DEF N
    <3>4. g[k] = Moved(g[k - 1], drafts[k].rows)
      BY <2>3, <2>5 DEF BalanceTable, N
    <3>5. QED
      BY <2>3, <3>2, <3>3, <3>4, MovedFacts
  <2>6. QED
    BY <2>4, <2>5
<1>2. QED
  BY <1>1

\* The lines of an entry are on the accounts of its rows.
LEMMA ThreadedAccounts ==
  ASSUME NEW totals, NEW rows
  PROVE  /\ DOMAIN Threaded(totals, rows) = DOMAIN rows
         /\ \A i \in DOMAIN rows : Threaded(totals, rows)[i].account = rows[i].account
  BY DEF Threaded

\* The lines of an entry: the first on an account starts at its stored balance, and
\* the last ends at the balance the entry leaves.
LEMMA ThreadedEnds ==
  ASSUME NEW totals \in [Accounts -> Totals], NEW rows, AreLines(rows),
         NEW a \in Accounts, a \in Touched(rows)
  PROVE  LET s == Threaded(totals, rows)
             mine == {i \in DOMAIN s : s[i].account = a}
         IN /\ s[Min(mine)].before = Signed(a, totals[a])
            /\ s[Max(mine)].after = Signed(a, totals[a]) + Signed(a, Delta(a, rows))
<1> DEFINE s == Threaded(totals, rows)
           mine == {i \in DOMAIN s : s[i].account = a}
<1>1. DOMAIN s = 1 .. Len(rows) /\ Len(rows) \in Nat /\ \A i \in DOMAIN s : s[i].account = rows[i].account
  BY DEF Threaded, AreLines
<1>2. ASSUME NEW i \in mine
      PROVE  /\ i \in 1 .. Len(rows) /\ rows[i].account = a
             /\ s[i].before = Signed(a, totals[a]) + Signed(a, Part(rows, i - 1, a))
             /\ s[i].after = s[i].before + Effect(a, rows[i].direction, rows[i].amount)
  <2>1. i \in 1 .. Len(rows) /\ rows[i].account = a
    BY <1>1
  <2>2. i - 1 \in 0 .. Len(rows)
    BY <1>1, <2>1
  <2>3. Delta(a, SubSeq(rows, 1, i - 1)) = Part(rows, i - 1, a)
    BY <2>2, PrefixIsPart
  <2>4. i \in DOMAIN rows
    BY <2>1 DEF AreLines
  <2>5. /\ s[i].before = Signed(a, totals[a]) + Signed(a, Delta(a, SubSeq(rows, 1, i - 1)))
        /\ s[i].after = s[i].before + Effect(a, rows[i].direction, rows[i].amount)
    BY <2>1, <2>4 DEF Threaded
  <2>6. QED
    BY <2>1, <2>3, <2>5
<1>3. mine \in SUBSET Nat /\ IsFiniteSet(mine) /\ mine # {}
  <2>1. mine \in SUBSET (1 .. Len(rows))
    BY <1>1
  <2>2. \E i \in DOMAIN rows : rows[i].account = a
    BY DEF Touched
  <2>3. mine # {}
    BY <1>1, <2>2 DEF AreLines
  <2>4. IsFiniteSet(1 .. Len(rows)) /\ 1 .. Len(rows) \in SUBSET Nat
    BY <1>1, PositionsFinite
  <2> HIDE DEF mine
  <2>5. QED
    BY <2>1, <2>3, <2>4, FS_Subset
<1>4. /\ Min(mine) \in mine /\ \A i \in mine : Min(mine) <= i
      /\ Max(mine) \in mine /\ \A i \in mine : i <= Max(mine)
  <2> HIDE DEF mine
  <2>1. \E x \in mine : \A y \in mine : x <= y
    BY <1>3, LeastExists
  <2>2. \E x \in mine : \A y \in mine : y <= x
    BY <1>3, GreatestExists
  <2>3. Min(mine) \in mine /\ \A i \in mine : Min(mine) <= i
    BY <2>1 DEF Min
  <2>4. Max(mine) \in mine /\ \A i \in mine : Max(mine) >= i
    BY <1>3, <2>2 DEF Max
  <2>5. QED
    BY <1>3, <2>3, <2>4
<1>5. \A i \in 1 .. Len(rows) : rows[i].account = a => i \in mine
  BY <1>1
<1>6. totals[a] \in Totals /\ Signed(a, totals[a]) \in Int
  BY DEF Totals, Signed
<1>7. s[Min(mine)].before = Signed(a, totals[a])
  <2> DEFINE i == Min(mine)
  <2>1. i \in 1 .. Len(rows) /\ s[i].before = Signed(a, totals[a]) + Signed(a, Part(rows, i - 1, a))
    BY <1>2, <1>4
  <2>2. \A j \in (0 + 1) .. (i - 1) : rows[j].account # a
    <3>1. SUFFICES ASSUME NEW j \in 1 .. (i - 1), rows[j].account = a PROVE FALSE
      OBVIOUS
    <3>2. j \in mine
      BY <1>1, <1>5, <2>1, <3>1
    <3>3. i <= j
      BY <1>4, <3>2
    <3> HIDE DEF i
    <3>4. QED
      BY <1>1, <2>1, <3>1, <3>3
  <2> HIDE DEF i, s, mine
  <2>3. Part(rows, i - 1, a) = Part(rows, 0, a)
    <3>1. 0 \in 0 .. Len(rows) /\ i - 1 \in 0 .. Len(rows)
      BY <1>1, <2>1
    <3>2. QED
      BY <2>2, <3>1, PartIdle
  <2>4. Signed(a, ZeroTotals) = 0
    BY DEF Signed, ZeroTotals
  <2>5. QED
    BY <1>6, <2>1, <2>3, <2>4, PartEmpty DEF i
<1>8. s[Max(mine)].after = Signed(a, totals[a]) + Signed(a, Delta(a, rows))
  <2> DEFINE i == Max(mine)
  <2>1. /\ i \in 1 .. Len(rows) /\ rows[i].account = a
        /\ s[i].before = Signed(a, totals[a]) + Signed(a, Part(rows, i - 1, a))
        /\ s[i].after = s[i].before + Effect(a, rows[i].direction, rows[i].amount)
    BY <1>2, <1>4
  <2>2. \A j \in (i + 1) .. Len(rows) : rows[j].account # a
    <3>1. SUFFICES ASSUME NEW j \in (i + 1) .. Len(rows), rows[j].account = a PROVE FALSE
      OBVIOUS
    <3>2. j \in mine
      BY <1>1, <1>5, <2>1, <3>1
    <3>3. j <= i
      BY <1>4, <3>2
    <3> HIDE DEF i
    <3>4. QED
      BY <1>1, <2>1, <3>1, <3>3
  <2> HIDE DEF i, s, mine
  <2>3. Part(rows, Len(rows), a) = Part(rows, i, a)
    <3>1. i \in 0 .. Len(rows) /\ Len(rows) \in i .. Len(rows)
      BY <1>1, <2>1
    <3>2. QED
      BY <2>2, <3>1, PartIdle
  <2>4. Signed(a, Part(rows, i, a)) =
          Signed(a, Part(rows, i - 1, a)) + Effect(a, rows[i].direction, rows[i].amount)
    <3>1. i - 1 \in Nat /\ (i - 1) + 1 = i /\ (i - 1) + 1 <= Len(rows)
      BY <1>1, <2>1
    <3>2. QED
      BY <2>1, <3>1, PartGrows
  <2>5. Part(rows, i - 1, a) \in Totals /\ Effect(a, rows[i].direction, rows[i].amount) \in Int
    <3>1. i - 1 \in 0 .. Len(rows) /\ rows[i].amount \in Nat
      BY <1>1, <2>1 DEF AreLines
    <3>2. QED
      BY <3>1, PartType DEF Effect
  <2>6. Signed(a, Part(rows, i - 1, a)) \in Int
    BY <2>5 DEF Signed, Totals
  <2>7. QED
    BY <1>6, <2>1, <2>3, <2>4, <2>5, <2>6, DeltaIsPart DEF i
<1>9. QED
  BY <1>7, <1>8
===============================================================================
