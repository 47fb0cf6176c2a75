----------------------------- MODULE ConnectorProofs -----------------------------
(***************************************************************************)
(* What the mirror of a connector promises: every upstream row once, and   *)
(* none missing that was not reported.                                     *)
(***************************************************************************)
EXTENDS Connectors, FiniteSetTheorems, SequenceTheorems, TLAPS

\* What a queue may hold: rows of an upstream, or mapped rows.
Rows == ToSet(Nodes) \union ToSet(Changes) \union {MapChange(c) : c \in ToSet(Changes)}

Summary == [fetched: Nat, posted: Nat, skipped: Nat, removed: Nat, errors: Nat]

Phases == {"idle", "warming", "fetching", "mapping", "posting", "done", "failed"}

\* Every run has its place in the tables, and the upstreams are within bounds.
Typing ==
  /\ \E S : entries \in Seq(S)
  /\ DOMAIN job = Runs /\ DOMAIN phase = Runs /\ DOMAIN place = Runs
  /\ DOMAIN queue = Runs /\ DOMAIN summary = Runs /\ DOMAIN more = Runs
  /\ listed \in 0 .. Len(Nodes) /\ known \in 0 .. Len(Changes)
  /\ ~ready => known = 0

RunTyped(r) ==
  /\ phase[r] \in Phases /\ queue[r] \in Seq(Rows)
  /\ summary[r] \in Summary /\ place[r] \in Nat

\* The rows r has dealt with: all it counted but the one it is posting.
Dealt(r) == IF phase[r] = "posting" THEN summary[r].fetched - 1 ELSE summary[r].fetched

\* The ids of the first n rows of the collective that are to be posted.
Loaded(n) == {Nodes[i].id : i \in {i \in 1 .. n : ~NodeSkipped(Nodes[i])}}

\* Those of the upstream rows that have no entry among these keys.
Outside(keys, source, ids) == {id \in ids : <<source, id>> \notin keys}

\* All rows dealt with are accounted for.
Accounted(r) == Dealt(r) = summary[r].posted + summary[r].skipped + summary[r].errors

\* A run of the importer under way: its queue is what follows the rows it has dealt
\* with, up to the next page, or to all there was if no page is left.
Importing(r) ==
  /\ Dealt(r) \in Nat /\ Accounted(r)
  /\ Dealt(r) + Len(queue[r]) <= listed
  /\ \A i \in 1 .. Len(queue[r]) : queue[r][i] = Nodes[Dealt(r) + i]
  /\ job[r].seen \in 0 .. listed
  /\ IF more[r] THEN Dealt(r) + Len(queue[r]) = place[r] ELSE job[r].seen <= Dealt(r) + Len(queue[r])
  /\ phase[r] = "posting" => queue[r] # << >> /\ ~NodeSkipped(Head(queue[r]))
  /\ phase[r] = "warming" => summary[r].fetched = 0
  /\ ~job[r].dry => Cardinality(Outside(Keys, "oc", Loaded(Dealt(r)))) <= summary[r].errors

\* The changes of one span of the log that add or modify a row.
UpdatesIn(from, to) == {i \in (from + 1) .. to : IsUpdate(Changes[i])}

\* A sequence holds the rows of another at these places, each once.
Holds(rows, page, at) ==
  /\ rows \in Seq(Rows) /\ IsFiniteSet(at) /\ Len(rows) = Cardinality(at)
  /\ \A k \in 1 .. Len(rows) : \E i \in at : rows[k] = page[i]
  /\ \A i \in at : \E k \in 1 .. Len(rows) : rows[k] = page[i]

\* A sync that is draining: it has the updates from its cursor to its place, each once.
Draining(r) ==
  /\ job[r].from \in 0 .. place[r] /\ place[r] <= known
  /\ job[r].limit \in Nat \union {NoLimit}
  /\ summary[r].posted = 0 /\ summary[r].skipped = 0 /\ summary[r].errors = 0
  /\ summary[r].fetched = 0
  /\ Holds(queue[r], Changes, UpdatesIn(job[r].from, place[r]))

\* The rows a sync owes, that are neither in the ledger nor in its queue.
Owed(r) ==
  {id \in {Changes[i].id : i \in Due(job[r].from, place[r])} :
     /\ <<"plaid", id>> \notin Keys
     /\ \A i \in 1 .. Len(queue[r]) : queue[r][i].id # id}

\* The updates --max cut off.
CutOff(r) == Cardinality(UpdatesIn(job[r].from, place[r])) - summary[r].fetched

\* A sync that is loading what it mapped.
Loading(r) ==
  /\ job[r].from \in 0 .. place[r] /\ place[r] <= known
  /\ \A i \in 1 .. Len(queue[r]) :
       \E j \in 1 .. known : /\ IsUpdate(Changes[j]) /\ ~ChangeSkipped(Changes[j])
                             /\ queue[r][i] = MapChange(Changes[j])
  /\ summary[r].fetched =
       summary[r].posted + summary[r].skipped + summary[r].errors + Len(queue[r])
  /\ Cardinality(Owed(r)) <= summary[r].errors + CutOff(r)
  /\ CutOff(r) > 0 => job[r].limit = summary[r].fetched

\* What is so of a run wherever it is.
RunOK(r) ==
  /\ phase[r] = "idle" =>
       /\ queue[r] = << >> /\ summary[r] = ZeroSummary /\ place[r] = 0 /\ more[r]
  /\ phase[r] # "idle" => job[r].source \in {"oc", "plaid"}
  /\ (phase[r] \in {"warming", "fetching", "posting"} /\ job[r].source = "oc") => Importing(r)
  /\ phase[r] = "mapping" => job[r].source = "plaid"
  /\ (phase[r] \in {"fetching", "mapping"} /\ job[r].source = "plaid") => Draining(r)
  /\ (phase[r] \in {"warming", "posting"} /\ job[r].source = "plaid") => Loading(r)
  /\ (phase[r] = "done" /\ job[r].source = "plaid") =>
       job[r].from \in 0 .. place[r] /\ place[r] <= known

\* The properties, per run.
ImportReported(r) ==
  Ended(r, "oc") =>
    LET rows == 1 .. summary[r].fetched
        ids == {Nodes[i].id : i \in {i \in rows : ~NodeSkipped(Nodes[i])}}
    IN /\ summary[r].fetched = summary[r].posted + summary[r].skipped + summary[r].errors
       /\ Missing("oc", ids) <= summary[r].errors
       /\ job[r].limit = NoLimit => job[r].seen <= summary[r].fetched

SyncReported(r) ==
  Ended(r, "plaid") =>
    LET ids == {Changes[i].id : i \in Due(job[r].from, place[r])}
        updates == Cardinality({i \in (job[r].from + 1) .. place[r] : IsUpdate(Changes[i])})
    IN /\ summary[r].fetched = summary[r].posted + summary[r].skipped + summary[r].errors
       /\ Missing("plaid", ids) <= summary[r].errors + (updates - summary[r].fetched)
       /\ updates > summary[r].fetched => job[r].limit = summary[r].fetched

\* An entry is named after the row it mirrors, and its key is the row's.
KeyedByRow ==
  /\ \A k \in DOMAIN entries :
       /\ entries[k].key \in {<<"oc", entries[k].row>>, <<"plaid", entries[k].row>>}
       /\ \E version \in Versions(entries[k].key[1], entries[k].row) :
            version.debit = entries[k].debit /\ version.credit = entries[k].credit
              /\ version.amount = entries[k].amount
  /\ \A j, k \in DOMAIN entries : entries[j].key = entries[k].key => j = k

RunInv(r) == RunTyped(r) /\ RunOK(r) /\ ImportReported(r) /\ SyncReported(r)

Inv == Typing /\ KeyedByRow /\ \A r \in Runs : RunInv(r)

-------------------------------------------------------------------------------
(* Sequences and numbers. *)

\* The lesser of two.
LEMMA MinOfTwo ==
  ASSUME NEW a \in Int, NEW b \in Int
  PROVE  Min({a, b}) = IF a <= b THEN a ELSE b
<1>1. \E x \in {a, b} : \A y \in {a, b} : x <= y
  OBVIOUS
<1>2. Min({a, b}) \in {a, b} /\ \A y \in {a, b} : Min({a, b}) <= y
  BY <1>1 DEF Min
<1>3. QED
  BY <1>2

\* There are n numbers up to n.
LEMMA CountUpTo ==
  ASSUME NEW n \in Nat
  PROVE  IsFiniteSet(1 .. n) /\ Cardinality(1 .. n) = n
<1>1. IsFiniteSet(1 .. n) /\ Cardinality(1 .. n) = IF 1 > n THEN 0 ELSE n - 1 + 1
  BY FS_Interval
<1>2. QED
  BY <1>1

\* What is picked is what stands at the places, as often.
LEMMA PickedFacts ==
  ASSUME NEW S, NEW s \in Seq(S), NEW at \in SUBSET (1 .. Len(s))
  PROVE  /\ Picked(s, at) \in Seq(S)
         /\ Len(Picked(s, at)) = Cardinality(at) /\ Cardinality(at) \in 0 .. Len(s)
         /\ \A k \in 1 .. Cardinality(at) : \E i \in at : Picked(s, at)[k] = s[i]
         /\ \A i \in at : \E k \in 1 .. Cardinality(at) : Picked(s, at)[k] = s[i]
<1> DEFINE UpTo(i) == {j \in at : j <= i}
           n == Cardinality(at)
           rank == [i \in at |-> Cardinality(UpTo(i))]
<1>1. /\ IsFiniteSet(at) /\ n \in 0 .. Len(s) /\ IsFiniteSet(1 .. n)
      /\ Cardinality(1 .. n) = n
  <2>1. IsFiniteSet(1 .. Len(s)) /\ Cardinality(1 .. Len(s)) = Len(s) /\ Len(s) \in Nat
    <3>1. Len(s) \in Nat
      BY LenProperties
    <3>2. QED
      BY <3>1, CountUpTo
  <2>2. IsFiniteSet(at) /\ n \in Nat /\ n <= Len(s)
    BY <2>1, FS_Subset, FS_CardinalityType
  <2> HIDE DEF n
  <2>3. QED
    BY <2>1, <2>2, CountUpTo
<1>2. ASSUME NEW i \in at
      PROVE  IsFiniteSet(UpTo(i)) /\ Cardinality(UpTo(i)) \in 1 .. n
  <2>1. UpTo(i) \in SUBSET at /\ i \in UpTo(i)
    OBVIOUS
  <2>2. IsFiniteSet(UpTo(i)) /\ Cardinality(UpTo(i)) <= n /\ Cardinality(UpTo(i)) \in Nat
    BY <1>1, <2>1, FS_Subset, FS_CardinalityType
  <2>3. Cardinality(UpTo(i)) # 0
    BY <2>1, <2>2, FS_EmptySet
  <2> HIDE DEF UpTo, n
  <2>4. QED
    BY <1>1, <2>2, <2>3
<1>3. ASSUME NEW i \in at, NEW j \in at, i < j
      PROVE  Cardinality(UpTo(i)) # Cardinality(UpTo(j))
  <2>1. UpTo(i) \in SUBSET UpTo(j) /\ j \in UpTo(j) /\ j \notin UpTo(i)
    <3>1. i \in Int /\ j \in Int /\ \A h \in at : h \in Int
      BY LenProperties
    <3>2. \A h \in at : h <= i => h <= j
      BY <1>3, <3>1
    <3>3. i <= j /\ j <= j /\ ~(j <= i)
      BY <1>3, <3>1
    <3> HIDE DEF rank, n
    <3>4. QED
      BY <3>2, <3>3, Zenon
  <2> HIDE DEF UpTo
  <2>2. QED
    BY <1>2, <2>1, FS_Subset
<1>4. \A i, j \in at : i # j => Cardinality(UpTo(i)) # Cardinality(UpTo(j))
  <2>1. \A i, j \in at : i # j => i < j \/ j < i
    OBVIOUS
  <2> HIDE DEF UpTo
  <2>2. QED
    BY <1>3, <2>1
<1>5. rank \in Injection(at, 1 .. n)
  <2> HIDE DEF UpTo, n
  <2>1. QED
    BY <1>2, <1>4 DEF Injection, IsInjective
<1>6. rank \in Surjection(at, 1 .. n)
  <2> HIDE DEF rank
  <2>1. QED
    BY <1>1, <1>5, FS_Injection
<1>7. \A k \in 1 .. n : \E i \in at : Cardinality(UpTo(i)) = k
  <2> HIDE DEF UpTo, n
  <2>1. QED
    BY <1>6 DEF Surjection
<1>8. \A k \in 1 .. n : Nth(at, k) \in at /\ Cardinality(UpTo(Nth(at, k))) = k
  BY <1>7 DEF Nth
<1>9. \A i \in at : Cardinality(UpTo(i)) \in 1 .. n /\ Nth(at, Cardinality(UpTo(i))) = i
  <2>1. ASSUME NEW i \in at
        PROVE  Cardinality(UpTo(i)) \in 1 .. n /\ Nth(at, Cardinality(UpTo(i))) = i
    <3>1. Cardinality(UpTo(i)) \in 1 .. n
      BY <1>2
    <3> HIDE DEF UpTo, n
    <3>2. QED
      BY <1>4, <1>8, <3>1
  <2> HIDE DEF UpTo, n
  <2>2. QED
    BY <2>1
<1>10. Picked(s, at) = [k \in 1 .. n |-> s[Nth(at, k)]]
  BY DEF Picked
<1> HIDE DEF UpTo, rank, n
<1>11. \A i \in at : s[i] \in S
  BY ElementOfSeq
<1>12. Picked(s, at) \in Seq(S) /\ Len(Picked(s, at)) = n
  <2>1. Picked(s, at) \in [1 .. n -> S]
    BY <1>8, <1>10, <1>11
  <2>2. n \in Nat
    BY <1>1, LenProperties
  <2>3. QED
    BY <2>1, <2>2, SeqDef, LenProperties
<1>13. QED
  BY <1>1, <1>8, <1>9, <1>10, <1>12 DEF n

\* Ids are not more than the rows they are taken from.
LEMMA IdsFinite ==
  ASSUME NEW s, NEW I, IsFiniteSet(I)
  PROVE  /\ IsFiniteSet({s[i].id : i \in I})
         /\ Cardinality({s[i].id : i \in I}) \in Nat
         /\ Cardinality({s[i].id : i \in I}) <= Cardinality(I)
<1> DEFINE f == [i \in I |-> s[i].id]
           T == {s[i].id : i \in I}
<1>1. f \in Surjection(I, T)
  BY DEF Surjection
<1> HIDE DEF f, T
<1>2. IsFiniteSet(T) /\ Cardinality(T) <= Cardinality(I)
  BY <1>1, FS_Surjection
<1>3. Cardinality(T) \in Nat
  BY <1>2, FS_CardinalityType
<1>4. QED
  BY <1>2, <1>3 DEF T

\* Some of them are not more.
LEMMA Fewer ==
  ASSUME NEW S, IsFiniteSet(S), NEW T \in SUBSET S
  PROVE  /\ IsFiniteSet(T) /\ Cardinality(T) \in Nat /\ Cardinality(S) \in Nat
         /\ Cardinality(T) <= Cardinality(S)
  BY FS_Subset, FS_CardinalityType

\* With one added, they are not more than one more.
LEMMA OneMore ==
  ASSUME NEW S, IsFiniteSet(S), NEW x, NEW T \in SUBSET (S \union {x})
  PROVE  /\ IsFiniteSet(T) /\ Cardinality(T) \in Nat /\ Cardinality(S) \in Nat
         /\ Cardinality(T) <= Cardinality(S) + 1
<1>1. IsFiniteSet(S \union {x}) /\ Cardinality(S) \in Nat
      /\ Cardinality(S \union {x}) <= Cardinality(S) + 1
  <2>1. Cardinality(S) \in Nat
    BY FS_CardinalityType
  <2>2. /\ IsFiniteSet(S \union {x})
        /\ Cardinality(S \union {x}) = IF x \in S THEN Cardinality(S) ELSE Cardinality(S) + 1
    BY FS_AddElement
  <2>3. QED
    BY <2>1, <2>2
<1>2. Cardinality(T) <= Cardinality(S \union {x}) /\ Cardinality(S \union {x}) \in Nat
      /\ Cardinality(T) \in Nat /\ IsFiniteSet(T)
  BY <1>1, Fewer
<1>3. QED
  BY <1>1, <1>2

\* With more keys not more is missing.
LEMMA OutsideShrinks ==
  ASSUME NEW ids, IsFiniteSet(ids), NEW keys, NEW later, keys \subseteq later, NEW source
  PROVE  /\ IsFiniteSet(Outside(keys, source, ids))
         /\ Cardinality(Outside(later, source, ids)) <= Cardinality(Outside(keys, source, ids))
         /\ Cardinality(Outside(later, source, ids)) \in Nat
         /\ Cardinality(Outside(keys, source, ids)) \in Nat
<1>1. /\ Outside(later, source, ids) \in SUBSET Outside(keys, source, ids)
      /\ Outside(keys, source, ids) \in SUBSET ids
  BY DEF Outside
<1>2. IsFiniteSet(Outside(keys, source, ids))
  BY <1>1, FS_Subset
<1>3. QED
  BY <1>1, <1>2, Fewer

-------------------------------------------------------------------------------
(* What other runs and the environment leave of a run. *)

\* Upstreams and the ledger only grow.
Grows == listed <= listed' /\ known <= known' /\ Keys \subseteq Keys'

Same(r) == UNCHANGED <<job[r], phase[r], place[r], queue[r], summary[r], more[r]>>

\* The rows read so far are so many.
LEMMA LoadedFinite ==
  ASSUME NEW n \in Nat
  PROVE  IsFiniteSet(Loaded(n))
<1> DEFINE I == {i \in 1 .. n : ~NodeSkipped(Nodes[i])}
<1>1. I \in SUBSET (1 .. n)
  OBVIOUS
<1>2. Loaded(n) = {Nodes[i].id : i \in I}
  BY DEF Loaded
<1> HIDE DEF I
<1>3. IsFiniteSet(I)
  BY <1>1, CountUpTo, FS_Subset
<1>4. IsFiniteSet({Nodes[i].id : i \in I})
  BY <1>3, IdsFinite
<1>5. QED
  BY <1>2, <1>4

\* What a sync owes are the ids of some of the changes in its span.
LEMMA OwedFinite ==
  ASSUME NEW from \in Nat, NEW to \in Nat
  PROVE  /\ IsFiniteSet(UpdatesIn(from, to)) /\ IsFiniteSet(Due(from, to))
         /\ IsFiniteSet({Changes[i].id : i \in Due(from, to)})
<1>1. IsFiniteSet((from + 1) .. to)
  BY FS_Interval
<1>2. Due(from, to) \in SUBSET ((from + 1) .. to) /\ UpdatesIn(from, to) \in SUBSET ((from + 1) .. to)
  BY DEF Due, UpdatesIn
<1>3. QED
  <2>1. IsFiniteSet(Due(from, to)) /\ IsFiniteSet(UpdatesIn(from, to))
    BY <1>1, <1>2, FS_Subset
  <2>2. QED
    BY <2>1, IdsFinite

\* A run that does not move keeps what is known of it while the rest grows.
LEMMA KeptRun ==
  ASSUME Typing, Typing', Grows, NEW r \in Runs, Same(r), RunInv(r)
  PROVE  RunInv(r)'
<1>1. /\ summary[r] \in Summary /\ place[r] \in Nat /\ queue[r] \in Seq(Rows)
      /\ listed \in Nat /\ listed' \in Nat /\ known \in Nat /\ known' \in Nat
  BY DEF Typing, RunInv, RunTyped
<1>2. /\ job'[r] = job[r] /\ phase'[r] = phase[r] /\ place'[r] = place[r]
      /\ queue'[r] = queue[r] /\ summary'[r] = summary[r] /\ more'[r] = more[r]
      /\ listed <= listed' /\ known <= known' /\ Keys \subseteq Keys'
  BY DEF Same, Grows
<1>3. Dealt(r)' = Dealt(r) /\ CutOff(r)' = CutOff(r)
  BY <1>2 DEF Dealt, CutOff
<1>6. Importing(r) => Importing(r)'
  <2>1. SUFFICES ASSUME Importing(r) PROVE Importing(r)'
    OBVIOUS
  <2>2. Len(queue[r]) \in Nat /\ Dealt(r) \in Nat
    BY <1>1, <2>1, LenProperties DEF Importing
  <2>3. summary[r].errors \in Nat
    BY <1>1 DEF Summary
  <2>4. ~job[r].dry => Cardinality(Outside(Keys', "oc", Loaded(Dealt(r)))) <= summary[r].errors
    <3>1. /\ Cardinality(Outside(Keys', "oc", Loaded(Dealt(r))))
               <= Cardinality(Outside(Keys, "oc", Loaded(Dealt(r))))
          /\ Cardinality(Outside(Keys', "oc", Loaded(Dealt(r)))) \in Nat
          /\ Cardinality(Outside(Keys, "oc", Loaded(Dealt(r)))) \in Nat
      BY <1>2, <2>2, LoadedFinite, OutsideShrinks
    <3>2. QED
      BY <2>1, <2>3, <3>1 DEF Importing
  <2>6. Dealt(r) + Len(queue[r]) <= listed' /\ job[r].seen \in 0 .. listed'
    BY <1>1, <1>2, <2>1, <2>2 DEF Importing
  <2>7. Accounted(r)'
    BY <1>2, <1>3, <2>1 DEF Importing, Accounted
  <2>8. QED
    BY <1>2, <1>3, <2>1, <2>2, <2>4, <2>6, <2>7 DEF Importing
<1>7. Draining(r) => Draining(r)'
  <2>1. SUFFICES ASSUME Draining(r) PROVE Draining(r)'
    OBVIOUS
  <2>2. place'[r] <= known' /\ job'[r].from \in 0 .. place'[r]
    BY <1>1, <1>2, <2>1 DEF Draining
  <2>3. QED
    BY <1>2, <2>1, <2>2 DEF Draining, UpdatesIn
<1>8. Loading(r) => Loading(r)'
  <2>1. SUFFICES ASSUME Loading(r) PROVE Loading(r)'
    OBVIOUS
  <2>2. Owed(r)' \in SUBSET Owed(r)
    BY <1>2 DEF Owed, Due
  <2>3. Owed(r) \in SUBSET {Changes[i].id : i \in Due(job[r].from, place[r])}
    BY DEF Owed
  <2>4. IsFiniteSet(Owed(r)) /\ IsFiniteSet(UpdatesIn(job[r].from, place[r]))
    <3>1. job[r].from \in Nat
      BY <1>1, <2>1 DEF Loading
    <3>2. QED
      BY <1>1, <2>3, <3>1, OwedFinite, FS_Subset
  <2>5. /\ Cardinality(Owed(r)') <= Cardinality(Owed(r))
        /\ Cardinality(Owed(r)') \in Nat /\ Cardinality(Owed(r)) \in Nat
    BY <2>2, <2>4, Fewer
  <2>6. CutOff(r) \in Int /\ summary[r].errors \in Nat
    <3>1. Cardinality(UpdatesIn(job[r].from, place[r])) \in Nat
      BY <2>4, FS_CardinalityType
    <3>2. QED
      BY <1>1, <3>1 DEF CutOff, Summary
  <2>7. Cardinality(Owed(r)') <= summary[r].errors + CutOff(r)
    BY <2>1, <2>5, <2>6 DEF Loading
  <2>8. \A i \in 1 .. Len(queue[r]) :
          \E j \in 1 .. known' : /\ IsUpdate(Changes[j]) /\ ~ChangeSkipped(Changes[j])
                                 /\ queue[r][i] = MapChange(Changes[j])
    <3>1. 1 .. known \subseteq 1 .. known'
      BY <1>1, <1>2
    <3>2. QED
      BY <2>1, <3>1 DEF Loading
  <2>9. place'[r] <= known' /\ job'[r].from \in 0 .. place'[r]
    BY <1>1, <1>2, <2>1 DEF Loading
  <2>10. QED
    BY <1>2, <1>3, <2>1, <2>7, <2>8, <2>9 DEF Loading
<1>9. RunOK(r)'
  BY <1>1, <1>2, <1>6, <1>7, <1>8 DEF RunOK, RunInv
<1>10. ImportReported(r)'
  <2>1. SUFFICES ASSUME Ended(r, "oc") PROVE ImportReported(r)'
    BY <1>2 DEF Ended, Started, ImportReported
  <2> DEFINE ids == Loaded(summary[r].fetched)
  <2>2. /\ summary[r].fetched = summary[r].posted + summary[r].skipped + summary[r].errors
        /\ Cardinality(Outside(Keys, "oc", ids)) <= summary[r].errors
        /\ job[r].limit = NoLimit => job[r].seen <= summary[r].fetched
    BY <2>1 DEF RunInv, ImportReported, Missing, Outside, Loaded
  <2>3. summary[r].fetched \in Nat /\ summary[r].errors \in Nat
    BY <1>1 DEF Summary
  <2>4. /\ Cardinality(Outside(Keys', "oc", ids)) <= Cardinality(Outside(Keys, "oc", ids))
        /\ Cardinality(Outside(Keys', "oc", ids)) \in Nat
        /\ Cardinality(Outside(Keys, "oc", ids)) \in Nat
    BY <1>2, <2>3, LoadedFinite, OutsideShrinks
  <2>5. Cardinality(Outside(Keys', "oc", ids)) <= summary[r].errors
    BY <2>2, <2>3, <2>4
  <2>6. QED
    BY <1>2, <2>2, <2>5 DEF ImportReported, Missing, Outside, Loaded
<1>11. SyncReported(r)'
  <2>1. SUFFICES ASSUME Ended(r, "plaid"), phase[r] = "done", job[r].source = "plaid"
                 PROVE  SyncReported(r)'
    BY <1>2 DEF Ended, Started, SyncReported
  <2> DEFINE ids == {Changes[i].id : i \in Due(job[r].from, place[r])}
             updates == Cardinality(UpdatesIn(job[r].from, place[r]))
  <2>2. /\ summary[r].fetched = summary[r].posted + summary[r].skipped + summary[r].errors
        /\ Cardinality(Outside(Keys, "plaid", ids)) <= summary[r].errors + (updates - summary[r].fetched)
        /\ updates > summary[r].fetched => job[r].limit = summary[r].fetched
    BY <2>1 DEF RunInv, SyncReported, Missing, Outside, UpdatesIn
  <2>3. job[r].from \in Nat
    BY <1>1, <2>1 DEF RunInv, RunOK
  <2>4. updates \in Nat /\ summary[r].errors \in Nat /\ summary[r].fetched \in Nat
    BY <1>1, <2>3, OwedFinite, FS_CardinalityType DEF Summary
  <2>5. /\ Cardinality(Outside(Keys', "plaid", ids)) <= Cardinality(Outside(Keys, "plaid", ids))
        /\ Cardinality(Outside(Keys', "plaid", ids)) \in Nat
        /\ Cardinality(Outside(Keys, "plaid", ids)) \in Nat
    BY <1>1, <1>2, <2>3, OwedFinite, OutsideShrinks
  <2>6. Cardinality(Outside(Keys', "plaid", ids)) <= summary[r].errors + (updates - summary[r].fetched)
    BY <2>2, <2>4, <2>5
  <2>7. QED
    BY <1>2, <2>2, <2>6 DEF SyncReported, Missing, Outside, UpdatesIn, Due
<1>12. QED
  BY <1>2, <1>9, <1>10, <1>11 DEF RunInv, RunTyped

-------------------------------------------------------------------------------
(* The importer's steps. *)

\* One row more.
LEMMA LoadedNext ==
  ASSUME NEW n \in Nat
  PROVE  /\ NodeSkipped(Nodes[n + 1]) => Loaded(n + 1) = Loaded(n)
         /\ ~NodeSkipped(Nodes[n + 1]) => Loaded(n + 1) = Loaded(n) \union {Nodes[n + 1].id}
<1>1. 1 .. (n + 1) = (1 .. n) \union {n + 1}
  OBVIOUS
<1>2. {i \in 1 .. (n + 1) : ~NodeSkipped(Nodes[i])} =
        {i \in 1 .. n : ~NodeSkipped(Nodes[i])} \union {i \in {n + 1} : ~NodeSkipped(Nodes[i])}
  BY <1>1
<1>3. QED
  BY <1>2 DEF Loaded

\* Nothing is missing of no rows.
LEMMA LoadedNone ==
  ASSUME NEW keys, NEW source
  PROVE  Cardinality(Outside(keys, source, Loaded(0))) = 0
<1>1. Loaded(0) = {}
  BY DEF Loaded
<1>2. Outside(keys, source, Loaded(0)) = {}
  BY <1>1 DEF Outside
<1>3. QED
  BY <1>2, FS_EmptySet

\* The first row of a queue, and the others.
LEMMA QueueFacts ==
  ASSUME NEW q \in Seq(Rows), q # << >>
  PROVE  /\ Len(q) \in Nat \ {0} /\ Head(q) = q[1] /\ Head(q) \in Rows
         /\ Tail(q) \in Seq(Rows) /\ Len(Tail(q)) = Len(q) - 1
         /\ \A i \in 1 .. (Len(q) - 1) : Tail(q)[i] = q[i + 1]
<1>1. Len(q) \in Nat /\ Len(q) # 0
  BY LenProperties, EmptySeq
<1>2. Tail(q) \in Seq(Rows) /\ Len(Tail(q)) = Len(q) - 1
      /\ \A i \in 1 .. Len(Tail(q)) : Tail(q)[i] = q[i + 1]
  BY HeadTailProperties
<1>3. Head(q) = q[1] /\ q[1] \in Rows
  BY <1>1, ElementOfSeq
<1>4. QED
  BY <1>1, <1>2, <1>3

\* The rows of the upstreams are rows.
LEMMA NodesFacts ==
  /\ Nodes \in Seq(Rows) /\ Changes \in Seq(Rows)
  /\ Len(Nodes) \in Nat /\ Len(Changes) \in Nat
<1>1. ToSet(Nodes) \in SUBSET Rows /\ ToSet(Changes) \in SUBSET Rows
  BY DEF Rows
<1>2. Nodes \in Seq(Rows) /\ Changes \in Seq(Rows)
  BY <1>1, CollectiveAssumption, PlaidAssumption, SeqMonotonic
<1>3. QED
  BY <1>2, LenProperties

\* A run that ends early keeps only its source.
LEMMA RunFails ==
  ASSUME Typing, NEW r \in Runs, RunInv(r), phase[r] # "idle", Fail(r)
  PROVE  RunInv(r)'
<1>1. /\ phase'[r] = "failed" /\ place'[r] = 0 /\ queue'[r] = << >>
      /\ summary'[r] = ZeroSummary /\ job'[r].source = job[r].source
  BY DEF Typing, Fail
<1>2. RunTyped(r)'
  BY <1>1, EmptySeq DEF RunTyped, Phases, ZeroSummary, Summary
<1>3. RunOK(r)'
  BY <1>1 DEF RunInv, RunOK
<1>4. QED
  BY <1>1, <1>2, <1>3 DEF RunInv, ImportReported, SyncReported, Ended

\* A run of the importer begins with nothing read.
LEMMA ImportStarts ==
  ASSUME Typing, NEW r \in Runs, RunInv(r), NEW option \in Options,
         StartImport(r, option.limit, option.dry)
  PROVE  RunInv(r)'
<1>1. /\ queue'[r] = << >> /\ summary'[r] = ZeroSummary /\ place'[r] = 0 /\ more'[r]
      /\ job'[r] = [source |-> "oc", limit |-> option.limit, dry |-> option.dry, seen |-> listed]
      /\ phase'[r] \in {"fetching", "warming"} /\ listed' = listed /\ listed \in Nat
  BY DEF Typing, StartImport, RunInv, RunOK, runs, collective
<1>2. Dealt(r)' = 0
  BY <1>1 DEF Dealt, ZeroSummary
<1>3. Cardinality(Outside(Keys', "oc", Loaded(0))) = 0
  BY LoadedNone
<1>4. Len(<< >>) = 0
  OBVIOUS
<1>5. Importing(r)'
  BY <1>1, <1>2, <1>3, <1>4 DEF Importing, Accounted, ZeroSummary
<1>6. RunTyped(r)'
  BY <1>1, EmptySeq DEF RunTyped, Phases, ZeroSummary, Summary
<1>7. RunOK(r)'
  BY <1>1, <1>5 DEF RunOK
<1>8. QED
  BY <1>1, <1>6, <1>7 DEF RunInv, ImportReported, SyncReported, Ended

\* What is known of a run of the importer under way.
LEMMA ImporterFacts ==
  ASSUME Typing, NEW r \in Runs, RunInv(r), job[r].source = "oc",
         phase[r] \in {"warming", "fetching", "posting"}
  PROVE  /\ Importing(r) /\ queue[r] \in Seq(Rows) /\ Len(queue[r]) \in Nat
         /\ summary[r] \in Summary /\ place[r] \in Nat /\ Dealt(r) \in Nat
         /\ listed \in Nat /\ listed <= Len(Nodes)
         /\ Dealt(r) = IF phase[r] = "posting" THEN summary[r].fetched - 1 ELSE summary[r].fetched
         /\ Dealt(r) = summary[r].posted + summary[r].skipped + summary[r].errors
<1>1. Importing(r)
  BY DEF RunInv, RunOK
<1>2. queue[r] \in Seq(Rows) /\ summary[r] \in Summary /\ place[r] \in Nat
  BY DEF RunInv, RunTyped
<1>3. Len(queue[r]) \in Nat
  BY <1>2, LenProperties
<1>4. QED
  BY <1>1, <1>2, <1>3, NodesFacts DEF Typing, Dealt, Importing, Accounted

\* A page is the rows from the run's place on.
LEMMA PageFetched ==
  ASSUME Typing, NEW r \in Runs, RunInv(r), FetchPage(r)
  PROVE  RunInv(r)'
<1> DEFINE end == Min({place[r] + PageSize, listed})
<1>1. /\ phase[r] = "fetching" /\ job[r].source = "oc" /\ queue[r] = << >> /\ more[r]
      /\ queue'[r] = SubSeq(Nodes, place[r] + 1, end)
      /\ place'[r] = place[r] + PageSize /\ more'[r] = (place[r] + PageSize < listed)
      /\ job'[r] = job[r] /\ phase'[r] = phase[r] /\ summary'[r] = summary[r]
      /\ listed' = listed /\ entries' = entries
  BY DEF Typing, FetchPage, ledger
<1>2. /\ Importing(r) /\ summary[r] \in Summary /\ place[r] \in Nat /\ Dealt(r) \in Nat
      /\ listed \in Nat /\ listed <= Len(Nodes)
  BY <1>1, ImporterFacts
<1>3. Dealt(r) = place[r] /\ place[r] <= listed /\ job[r].seen \in 0 .. listed
  <2>1. Len(<< >>) = 0
    OBVIOUS
  <2>2. QED
    BY <1>1, <1>2, <2>1 DEF Importing
<1>4. /\ PageSize \in Nat \ {0} /\ Nodes \in Seq(Rows) /\ Len(Nodes) \in Nat
      /\ end = IF place[r] + PageSize <= listed THEN place[r] + PageSize ELSE listed
  <2>1. PageSize \in Nat \ {0}
    BY CollectiveAssumption
  <2>2. place[r] + PageSize \in Int /\ listed \in Int
    BY <1>2, <2>1
  <2>3. QED
    BY <2>1, <2>2, MinOfTwo, NodesFacts
<1> HIDE DEF end
<1>5. end \in place[r] .. listed /\ end \in Nat
  BY <1>2, <1>3, <1>4
<1>6. /\ queue'[r] \in Seq(Rows) /\ Len(queue'[r]) = end - place[r]
      /\ \A i \in 1 .. (end - place[r]) : queue'[r][i] = Nodes[place[r] + i]
  <2> DEFINE m == place[r] + 1
  <2>1. m \in 1 .. (Len(Nodes) + 1) /\ end \in (m - 1) .. Len(Nodes)
    BY <1>2, <1>3, <1>4, <1>5
  <2>2. /\ SubSeq(Nodes, m, end) \in Seq(Rows) /\ Len(SubSeq(Nodes, m, end)) = end - m + 1
        /\ \A i \in 1 .. (end - m + 1) : SubSeq(Nodes, m, end)[i] = Nodes[m + i - 1]
    <3>1. m \in Int /\ end \in Int /\ m <= end + 1
      BY <1>2, <1>5
    <3>2. \A i \in m .. end : Nodes[i] \in Rows
      <4>1. \A i \in m .. end : i \in 1 .. Len(Nodes)
        BY <1>4, <2>1
      <4> HIDE DEF m
      <4>2. QED
        BY <1>4, <4>1, ElementOfSeq
    <3> HIDE DEF m
    <3>3. /\ SubSeq(Nodes, m, end) \in Seq(Rows)
          /\ Len(SubSeq(Nodes, m, end)) = IF m <= end THEN end - m + 1 ELSE 0
          /\ \A i \in 1 .. (end - m + 1) : SubSeq(Nodes, m, end)[i] = Nodes[m + i - 1]
      BY <3>1, <3>2, SubSeqProperties
    <3>4. (IF m <= end THEN end - m + 1 ELSE 0) = end - m + 1
      BY <3>1
    <3>5. QED
      BY <3>3, <3>4, Zenon
  <2>3. end - m + 1 = end - place[r]
    BY <1>2, <1>5
  <2>4. \A i \in 1 .. (end - place[r]) : m + i - 1 = place[r] + i
    BY <1>2, <1>5
  <2> HIDE DEF m
  <2>5. QED
    BY <1>1, <2>2, <2>3, <2>4 DEF m
<1>7. Dealt(r)' = Dealt(r) /\ Keys' = Keys
  BY <1>1 DEF Dealt, Keys
<1>8. Importing(r)'
  <2>1. Dealt(r) + Len(queue'[r]) = end
    BY <1>3, <1>5, <1>6, <1>2
  <2>2. Accounted(r)'
    BY <1>1, <1>2, <1>7 DEF Importing, Accounted
  <2>3. \A i \in 1 .. Len(queue'[r]) : queue'[r][i] = Nodes[Dealt(r) + i]
    BY <1>3, <1>6
  <2>4. IF more'[r] THEN end = place'[r] ELSE job[r].seen <= end
    <3>1. CASE place[r] + PageSize < listed
      <4>1. end = place'[r]
        BY <1>1, <1>2, <1>4, <3>1
      <4>2. more'[r]
        BY <1>1, <3>1
      <4>3. QED
        BY <4>1, <4>2
    <3>2. CASE ~(place[r] + PageSize < listed)
      <4>1. end = listed
        BY <1>2, <1>4, <3>2
      <4>2. ~more'[r]
        BY <1>1, <3>2
      <4>3. QED
        BY <1>2, <1>3, <4>1, <4>2
    <3>3. QED
      BY <3>1, <3>2
  <2>5. end <= listed'
    BY <1>1, <1>2, <1>5
  <2>6. ~job'[r].dry => Cardinality(Outside(Keys', "oc", Loaded(Dealt(r)'))) <= summary'[r].errors
    BY <1>1, <1>2, <1>7 DEF Importing
  <2>7. QED
    BY <1>1, <1>2, <1>3, <1>7, <2>1, <2>2, <2>3, <2>4, <2>5, <2>6 DEF Importing
<1>9. RunTyped(r)'
  <2>1. place'[r] \in Nat
    BY <1>1, <1>2, <1>4
  <2>2. QED
    BY <1>1, <1>2, <1>6, <2>1 DEF RunTyped, Phases
<1>10. RunOK(r)'
  BY <1>1, <1>8 DEF RunOK
<1>11. QED
  BY <1>1, <1>9, <1>10 DEF RunInv, ImportReported, SyncReported, Ended

\* The run dealt with the first row of its queue: it is counted, and either in the
\* ledger, or not to be posted, or in error.
LEMMA RowDealtWith ==
  ASSUME Typing, Typing', NEW r \in Runs, RunInv(r), job[r].source = "oc",
         phase[r] \in {"fetching", "posting"}, queue[r] # << >>,
         queue'[r] = Tail(queue[r]), phase'[r] = "fetching",
         summary'[r] \in Summary,
         summary'[r].fetched = Dealt(r) + 1,
         summary'[r].posted + summary'[r].skipped + summary'[r].errors = Dealt(r) + 1,
         UNCHANGED <<listed, job[r], place[r], more[r]>>, Keys \subseteq Keys',
         summary[r].errors <= summary'[r].errors,
         LET node == Head(queue[r])
         IN job[r].dry \/ NodeSkipped(node) \/ <<"oc", node.id>> \in Keys'
              \/ (Keys' = Keys /\ summary'[r].errors = summary[r].errors + 1)
  PROVE  RunInv(r)'
<1>0. PICK d, q : d = Dealt(r) /\ q = queue[r]
  OBVIOUS
<1>1. /\ Importing(r) /\ q \in Seq(Rows) /\ Len(q) \in Nat
      /\ summary[r] \in Summary /\ place[r] \in Nat /\ d \in Nat
      /\ listed \in Nat /\ listed <= Len(Nodes)
  BY <1>0, ImporterFacts
<1>2. /\ Len(q) \in Nat \ {0} /\ Head(q) = q[1]
      /\ Tail(q) \in Seq(Rows) /\ Len(Tail(q)) = Len(q) - 1
      /\ \A i \in 1 .. (Len(q) - 1) : Tail(q)[i] = q[i + 1]
  BY <1>0, <1>1, QueueFacts
<1>3. \A i \in 1 .. Len(q) : q[i] = Nodes[d + i]
  BY <1>0, <1>1 DEF Importing
<1>4. Head(q) = Nodes[d + 1]
  BY <1>2, <1>3
<1>5. Dealt(r)' = d + 1
  BY <1>0 DEF Dealt
<1>6. Accounted(r)'
  BY <1>0, <1>5 DEF Accounted
<1>7. (d + 1) + Len(Tail(q)) = d + Len(q)
  BY <1>1, <1>2
<1>8. \A i \in 1 .. Len(Tail(q)) : Tail(q)[i] = Nodes[(d + 1) + i]
  <2>1. \A i \in 1 .. (Len(q) - 1) : i + 1 \in 1 .. Len(q) /\ d + (i + 1) = (d + 1) + i
    BY <1>1, <1>2
  <2>2. QED
    BY <1>2, <1>3, <2>1
<1>9. ~job[r].dry => Cardinality(Outside(Keys', "oc", Loaded(d + 1))) <= summary'[r].errors
  <2> DEFINE old == Outside(Keys, "oc", Loaded(d))
             new == Outside(Keys', "oc", Loaded(d + 1))
             id == Head(q).id
  <2>1. SUFFICES ASSUME ~job[r].dry PROVE Cardinality(new) <= summary'[r].errors
    OBVIOUS
  <2>2. Cardinality(old) <= summary[r].errors
    BY <1>0, <1>1, <2>1 DEF Importing
  <2>3. IsFiniteSet(old)
    BY <1>1, LoadedFinite, OutsideShrinks
  <2>4. Loaded(d + 1) = Loaded(d) \/ Loaded(d + 1) = Loaded(d) \union {id}
    BY <1>1, <1>4, LoadedNext
  <2>5. CASE NodeSkipped(Head(q)) \/ <<"oc", id>> \in Keys'
    <3>1. new \in SUBSET old
      <4>1. CASE NodeSkipped(Head(q))
        <5>1. Loaded(d + 1) = Loaded(d)
          BY <1>1, <1>4, <4>1, LoadedNext
        <5>2. QED
          BY <5>1 DEF Outside
      <4>2. CASE <<"oc", id>> \in Keys'
        BY <2>4, <4>2 DEF Outside
      <4>3. QED
        BY <2>5, <4>1, <4>2
    <3>2. Cardinality(new) \in Nat /\ Cardinality(old) \in Nat /\ Cardinality(new) <= Cardinality(old)
      BY <2>3, <3>1, Fewer
    <3>3. summary[r].errors \in Nat /\ summary'[r].errors \in Nat
      BY <1>1 DEF Summary
    <3> HIDE DEF old, new
    <3>4. QED
      BY <2>2, <3>2, <3>3
  <2>6. CASE Keys' = Keys /\ summary'[r].errors = summary[r].errors + 1
    <3>1. new \in SUBSET (old \union {id})
      BY <2>4, <2>6 DEF Outside
    <3>2. Cardinality(new) \in Nat /\ Cardinality(old) \in Nat /\ Cardinality(new) <= Cardinality(old) + 1
      BY <2>3, <3>1, OneMore
    <3>3. summary[r].errors \in Nat
      BY <1>1 DEF Summary
    <3> HIDE DEF old, new
    <3>4. QED
      BY <2>2, <2>6, <3>2, <3>3
  <2>7. \/ NodeSkipped(Head(q)) \/ <<"oc", id>> \in Keys'
        \/ Keys' = Keys /\ summary'[r].errors = summary[r].errors + 1
    BY <1>0, <2>1
  <2> HIDE DEF new
  <2>8. QED
    BY <2>5, <2>6, <2>7
<1>10. Importing(r)'
  <2>1. d + Len(q) <= listed /\ job[r].seen \in 0 .. listed
        /\ IF more[r] THEN d + Len(q) = place[r] ELSE job[r].seen <= d + Len(q)
    BY <1>0, <1>1 DEF Importing
  <2>2. /\ queue'[r] = Tail(q) /\ phase'[r] = "fetching" /\ job'[r] = job[r]
        /\ place'[r] = place[r] /\ more'[r] = more[r] /\ listed' = listed
    BY <1>0
  <2>3. d + 1 \in Nat /\ (d + 1) + Len(Tail(q)) <= listed'
    <3>1. d + 1 \in Nat
      BY <1>1
    <3>2. d + Len(q) <= listed'
      BY <2>1, <2>2
    <3>3. QED
      BY <1>7, <3>1, <3>2, Zenon
  <2>4. IF more'[r] THEN (d + 1) + Len(Tail(q)) = place'[r] ELSE job'[r].seen <= (d + 1) + Len(Tail(q))
    BY <1>7, <2>1, <2>2
  <2>5. ~job'[r].dry => Cardinality(Outside(Keys', "oc", Loaded(d + 1))) <= summary'[r].errors
    BY <1>9, <2>2
  <2>6. QED
    BY <1>5, <1>6, <1>8, <2>1, <2>2, <2>3, <2>4, <2>5 DEF Importing
<1>11. RunTyped(r)'
  BY <1>0, <1>1, <1>2 DEF RunTyped, Phases
<1>12. RunOK(r)'
  BY <1>10 DEF RunOK
<1>13. QED
  BY <1>11, <1>12 DEF RunInv, ImportReported, SyncReported, Ended

\* One field of a summary counts one more.
Plus(s, field) == [s EXCEPT ![field] = @ + 1]

LEMMA Counted ==
  ASSUME NEW s \in Summary, NEW field \in {"fetched", "posted", "skipped", "errors"}
  PROVE  /\ Plus(s, field) \in Summary
         /\ s.fetched \in Nat /\ s.posted \in Nat /\ s.skipped \in Nat /\ s.errors \in Nat
         /\ Plus(s, field).fetched = s.fetched + (IF field = "fetched" THEN 1 ELSE 0)
         /\ Plus(s, field).posted = s.posted + (IF field = "posted" THEN 1 ELSE 0)
         /\ Plus(s, field).skipped = s.skipped + (IF field = "skipped" THEN 1 ELSE 0)
         /\ Plus(s, field).errors = s.errors + (IF field = "errors" THEN 1 ELSE 0)
<1> DEFINE Names == {"fetched", "posted", "skipped", "removed", "errors"}
           t == Plus(s, field)
<1>1. s \in [Names -> Nat] /\ field \in Names
  BY DEF Summary
<1>2. /\ t \in [Names -> Nat]
      /\ \A other \in Names : t[other] = IF other = field THEN s[other] + 1 ELSE s[other]
  BY <1>1 DEF Plus
<1> HIDE DEF t
<1>3. t \in Summary
  BY <1>2 DEF Summary
<1>4. s.fetched \in Nat /\ s.posted \in Nat /\ s.skipped \in Nat /\ s.errors \in Nat
  BY <1>1
<1>5. t.fetched = s.fetched + (IF field = "fetched" THEN 1 ELSE 0)
  BY <1>2, <1>4
<1>6. t.posted = s.posted + (IF field = "posted" THEN 1 ELSE 0)
  BY <1>2, <1>4
<1>7. t.skipped = s.skipped + (IF field = "skipped" THEN 1 ELSE 0)
  BY <1>2, <1>4
<1>8. t.errors = s.errors + (IF field = "errors" THEN 1 ELSE 0)
  BY <1>2, <1>4
<1>9. QED
  BY <1>3, <1>4, <1>5, <1>6, <1>7, <1>8 DEF t

\* An answer of the ledger is one row more, posted or in error.
LEMMA Answered ==
  ASSUME NEW s \in Summary, NEW field \in {"posted", "errors"}
  PROVE  /\ Plus(s, field) \in Summary /\ Plus(s, field).fetched = s.fetched /\ s.fetched \in Nat
         /\ Plus(s, field).posted + Plus(s, field).skipped + Plus(s, field).errors =
              s.posted + s.skipped + s.errors + 1
         /\ s.errors <= Plus(s, field).errors
         /\ field = "errors" => Plus(s, field).errors = s.errors + 1
<1>1. PICK p, k, e, f, q, l, d, g :
        /\ p = s.posted /\ k = s.skipped /\ e = s.errors /\ f = s.fetched
        /\ q = Plus(s, field).posted /\ l = Plus(s, field).skipped
        /\ d = Plus(s, field).errors /\ g = Plus(s, field).fetched
  OBVIOUS
<1>2. field \in {"fetched", "posted", "skipped", "errors"} /\ field # "skipped" /\ field # "fetched"
  OBVIOUS
<1>3. /\ Plus(s, field) \in Summary
      /\ f \in Nat /\ p \in Nat /\ k \in Nat /\ e \in Nat
      /\ g = f + (IF field = "fetched" THEN 1 ELSE 0)
      /\ q = p + (IF field = "posted" THEN 1 ELSE 0)
      /\ l = k + (IF field = "skipped" THEN 1 ELSE 0)
      /\ d = e + (IF field = "errors" THEN 1 ELSE 0)
  BY <1>1, <1>2, Counted, Zenon
<1>4. g = f /\ q + l + d = p + k + e + 1 /\ e <= d /\ (field = "errors" => d = e + 1)
  BY <1>2, <1>3
<1>5. QED
  BY <1>1, <1>3, <1>4, Zenon

\* A row that is only read, and one that is dealt with as it is read.
LEMMA ReadOne ==
  ASSUME NEW s \in Summary
  PROVE  LET t == Plus(s, "fetched")
         IN /\ t \in Summary /\ t.fetched = s.fetched + 1 /\ s.fetched \in Nat
            /\ t.posted = s.posted /\ t.skipped = s.skipped /\ t.errors = s.errors
<1> DEFINE t == Plus(s, "fetched")
<1>1. PICK p, k, e : p = s.posted /\ k = s.skipped /\ e = s.errors
  OBVIOUS
<1>2. /\ t \in Summary /\ s.fetched \in Nat /\ p \in Nat /\ k \in Nat /\ e \in Nat
      /\ t.fetched = s.fetched + (IF "fetched" = "fetched" THEN 1 ELSE 0)
      /\ t.posted = p + (IF "fetched" = "posted" THEN 1 ELSE 0)
      /\ t.skipped = k + (IF "fetched" = "skipped" THEN 1 ELSE 0)
      /\ t.errors = e + (IF "fetched" = "errors" THEN 1 ELSE 0)
  <2>1. "fetched" \in {"fetched", "posted", "skipped", "errors"}
    OBVIOUS
  <2>2. QED
    BY <1>1, <2>1, Counted, Zenon
<1> HIDE DEF t
<1>3. t.fetched = s.fetched + 1 /\ t.posted = p /\ t.skipped = k /\ t.errors = e
  BY <1>2
<1>4. QED
  BY <1>1, <1>2, <1>3, Zenon DEF t

\* ... and one that is dealt with as it is read: a dry run's row, or a node never mirrored.
LEMMA ReadAndDone ==
  ASSUME NEW s \in Summary, NEW field \in {"skipped", "posted"}
  PROVE  LET t == Plus(Plus(s, "fetched"), field)
         IN /\ t \in Summary /\ t.fetched = s.fetched + 1 /\ t.errors = s.errors
            /\ s.errors \in Nat /\ s.fetched \in Nat
            /\ t.posted + t.skipped + t.errors = s.posted + s.skipped + s.errors + 1
<1> DEFINE u == Plus(s, "fetched")
           t == Plus(u, field)
<1>1. /\ u \in Summary /\ u.fetched = s.fetched + 1 /\ s.fetched \in Nat
      /\ u.posted = s.posted /\ u.skipped = s.skipped /\ u.errors = s.errors
  BY ReadOne, Zenon
<1> HIDE DEF u
<1>2. PICK p, k, e, f, q, l, d, g :
        /\ p = u.posted /\ k = u.skipped /\ e = u.errors /\ f = u.fetched
        /\ q = t.posted /\ l = t.skipped /\ d = t.errors /\ g = t.fetched
  OBVIOUS
<1>3. /\ t \in Summary
      /\ f \in Nat /\ p \in Nat /\ k \in Nat /\ e \in Nat
      /\ g = f + (IF field = "fetched" THEN 1 ELSE 0)
      /\ q = p + (IF field = "posted" THEN 1 ELSE 0)
      /\ l = k + (IF field = "skipped" THEN 1 ELSE 0)
      /\ d = e + (IF field = "errors" THEN 1 ELSE 0)
  <2>1. field \in {"fetched", "posted", "skipped", "errors"}
    OBVIOUS
  <2>2. QED
    BY <1>1, <1>2, <2>1, Counted, Zenon
<1> HIDE DEF t
<1>4. g = f /\ q + l + d = p + k + e + 1 /\ d = e
  <2>1. field # "fetched" /\ field # "errors"
    OBVIOUS
  <2>2. QED
    BY <1>3, <2>1
<1>5. /\ t \in Summary /\ t.fetched = s.fetched + 1 /\ t.errors = s.errors
      /\ s.errors \in Nat /\ s.fetched \in Nat
      /\ t.posted + t.skipped + t.errors = s.posted + s.skipped + s.errors + 1
  BY <1>1, <1>2, <1>3, <1>4, Zenon
<1>6. QED
  BY <1>5, Zenon DEF t, u

\* A row is skipped, only shown, or taken to be posted.
LEMMA NodeTaken ==
  ASSUME Typing, Typing', NEW r \in Runs, RunInv(r), TakeNode(r)
  PROVE  RunInv(r)'
<1>1. /\ phase[r] = "fetching" /\ job[r].source = "oc" /\ queue[r] # << >>
      /\ job'[r] = job[r] /\ place'[r] = place[r] /\ more'[r] = more[r]
      /\ listed' = listed /\ Keys' = Keys
  BY DEF Typing, TakeNode, ledger, collective, Keys
<1>2. /\ Importing(r) /\ queue[r] \in Seq(Rows) /\ Len(queue[r]) \in Nat
      /\ summary[r] \in Summary /\ place[r] \in Nat /\ Dealt(r) \in Nat
      /\ Dealt(r) = summary[r].fetched
      /\ Dealt(r) = summary[r].posted + summary[r].skipped + summary[r].errors
  BY <1>1, ImporterFacts
<1>3. CASE NodeSkipped(Head(queue[r])) \/ job[r].dry
  <2> DEFINE field == IF NodeSkipped(Head(queue[r])) THEN "skipped" ELSE "posted"
  <2>1. /\ queue'[r] = Tail(queue[r]) /\ phase'[r] = "fetching"
        /\ summary'[r] = [summary[r] EXCEPT !["fetched"] = @ + 1, ![field] = @ + 1]
    BY <1>1, <1>3 DEF Typing, TakeNode, Drop
  <2>2. summary'[r] \in Summary /\ summary'[r].fetched = Dealt(r) + 1
        /\ summary'[r].posted + summary'[r].skipped + summary'[r].errors = Dealt(r) + 1
        /\ summary'[r].errors = summary[r].errors /\ summary[r].errors \in Nat
    <3>1. field \in {"skipped", "posted"}
      OBVIOUS
    <3>2. summary'[r] = Plus(Plus(summary[r], "fetched"), field)
      BY <2>1 DEF Plus
    <3> HIDE DEF field
    <3>3. PICK s, u : s = summary[r] /\ u = summary'[r]
      OBVIOUS
    <3>4. /\ s \in Summary /\ Dealt(r) = s.fetched
          /\ Dealt(r) = s.posted + s.skipped + s.errors
      BY <1>2, <3>3
    <3>5. u = Plus(Plus(s, "fetched"), field)
      BY <3>2, <3>3
    <3>6. /\ u \in Summary /\ u.fetched = s.fetched + 1 /\ u.errors = s.errors
          /\ s.errors \in Nat /\ s.fetched \in Nat
          /\ u.posted + u.skipped + u.errors = s.posted + s.skipped + s.errors + 1
      BY <3>1, <3>4, <3>5, ReadAndDone
    <3>7. QED
      BY <3>3, <3>4, <3>6
  <2>3. summary[r].errors <= summary'[r].errors
    BY <2>2
  <2>4. LET node == Head(queue[r])
        IN job[r].dry \/ NodeSkipped(node) \/ <<"oc", node.id>> \in Keys'
             \/ (Keys' = Keys /\ summary'[r].errors = summary[r].errors + 1)
    BY <1>3
  <2>5. UNCHANGED <<listed, job[r], place[r], more[r]>> /\ Keys \subseteq Keys'
        /\ phase[r] \in {"fetching", "posting"}
    BY <1>1
  <2>6. QED
    BY <1>1, <2>1, <2>2, <2>3, <2>4, <2>5, RowDealtWith
<1>4. CASE ~(NodeSkipped(Head(queue[r])) \/ job[r].dry)
  <2>1. /\ queue'[r] = queue[r] /\ phase'[r] = "posting"
        /\ summary'[r] = Plus(summary[r], "fetched")
    BY <1>1, <1>4 DEF Typing, TakeNode, Count, Plus
  <2>2. summary'[r] \in Summary /\ summary'[r].fetched = Dealt(r) + 1
        /\ summary'[r].posted = summary[r].posted /\ summary'[r].skipped = summary[r].skipped
        /\ summary'[r].errors = summary[r].errors
    <3>1. summary[r] \in Summary /\ Dealt(r) = summary[r].fetched
      BY <1>2
    <3>2. QED
      BY <2>1, <3>1, ReadOne, Zenon
  <2>3. Dealt(r)' = Dealt(r)
    BY <1>2, <2>1, <2>2 DEF Dealt
  <2>4. Accounted(r)'
    BY <1>2, <2>2, <2>3 DEF Accounted
  <2>5. Importing(r)'
    BY <1>1, <1>2, <1>4, <2>1, <2>2, <2>3, <2>4 DEF Importing
  <2>6. RunTyped(r)'
    BY <1>1, <1>2, <2>1, <2>2 DEF RunTyped, Phases
  <2>7. RunOK(r)'
    BY <1>1, <2>1, <2>5 DEF RunOK
  <2>8. QED
    BY <2>1, <2>6, <2>7 DEF RunInv, ImportReported, SyncReported, Ended
<1>5. QED
  BY <1>3, <1>4

\* The end of a run of the importer: it has read what there was, or as much as it may.
LEMMA ImportEnds ==
  ASSUME Typing, NEW r \in Runs, RunInv(r), EndImport(r)
  PROVE  RunInv(r)'
<1>1. /\ phase[r] = "fetching" /\ job[r].source = "oc"
      /\ LimitReached(r) \/ (queue[r] = << >> /\ ~more[r])
      /\ phase'[r] = "done" /\ queue'[r] = << >> /\ job'[r] = job[r]
      /\ place'[r] = place[r] /\ summary'[r] = summary[r] /\ more'[r] = more[r]
      /\ Keys' = Keys
  BY DEF Typing, EndImport, Finish, ledger, collective, Keys
<1>2. /\ Importing(r) /\ summary[r] \in Summary /\ place[r] \in Nat
      /\ Dealt(r) = summary[r].fetched
      /\ Dealt(r) = summary[r].posted + summary[r].skipped + summary[r].errors
  BY <1>1, ImporterFacts
<1>3. ~job[r].dry => Cardinality(Outside(Keys', "oc", Loaded(summary'[r].fetched))) <= summary'[r].errors
  BY <1>1, <1>2 DEF Importing
<1>4. job[r].limit = NoLimit => job[r].seen <= summary[r].fetched
  <2>1. SUFFICES ASSUME job[r].limit = NoLimit PROVE job[r].seen <= summary[r].fetched
    OBVIOUS
  <2>2. queue[r] = << >> /\ ~more[r]
    BY <1>1, <2>1 DEF LimitReached
  <2>3. Len(<< >>) = 0 /\ summary[r].fetched \in Nat
    BY <1>2 DEF Summary
  <2>4. QED
    BY <1>2, <2>2, <2>3 DEF Importing
<1>5. ImportReported(r)'
  BY <1>1, <1>2, <1>3, <1>4 DEF ImportReported, Ended, Missing, Outside, Loaded
<1>6. RunTyped(r)'
  BY <1>1, <1>2, EmptySeq DEF RunTyped, Phases
<1>7. RunOK(r)'
  BY <1>1 DEF RunOK
<1>8. QED
  BY <1>1, <1>5, <1>6, <1>7 DEF RunInv, SyncReported, Ended

\* What a posting that is recorded leaves: one entry more, and its key.
LEMMA Recorded ==
  ASSUME Typing, NEW r, NEW row, Record(r, row)
  PROVE  /\ Len(entries) \in Nat /\ DOMAIN entries = 1 .. Len(entries)
         /\ DOMAIN entries' = 1 .. (Len(entries) + 1)
         /\ \A k \in DOMAIN entries : entries'[k] = entries[k]
         /\ entries'[Len(entries) + 1] =
              [key |-> KeyOf(r, row), row |-> row.id, debit |-> row.debit,
               credit |-> row.credit, amount |-> row.amount]
         /\ Keys' = Keys \union {KeyOf(r, row)} /\ KeyOf(r, row) \notin Keys
         /\ \E T : entries' \in Seq(T)
<1> DEFINE e == [key |-> KeyOf(r, row), row |-> row.id, debit |-> row.debit,
                 credit |-> row.credit, amount |-> row.amount]
           n == Len(entries)
<1>1. PICK S : entries \in Seq(S)
  BY DEF Typing
<1>2. entries' = Append(entries, e) /\ KeyOf(r, row) \notin Keys
  BY DEF Record
<1>3. n \in Nat /\ DOMAIN entries = 1 .. n
  BY <1>1, LenProperties
<1>4. e.key = KeyOf(r, row)
  OBVIOUS
<1> HIDE DEF e
<1>5. entries \in Seq(S \union {e})
  BY <1>1, SeqMonotonic
<1>6. /\ entries' \in Seq(S \union {e}) /\ Len(entries') = n + 1
      /\ \A k \in 1 .. n : entries'[k] = entries[k]
      /\ entries'[n + 1] = e
  BY <1>2, <1>5, AppendProperties
<1>7. DOMAIN entries' = 1 .. (n + 1)
  BY <1>6, LenProperties
<1> HIDE DEF n
<1>8. Keys' = Keys \union {KeyOf(r, row)}
  <2>1. 1 .. (n + 1) = (1 .. n) \union {n + 1}
    BY <1>3
  <2>2. Keys' = {entries'[k].key : k \in 1 .. (n + 1)}
    BY <1>7 DEF Keys
  <2>3. Keys = {entries[k].key : k \in 1 .. n}
    BY <1>3 DEF Keys
  <2>4. {entries'[k].key : k \in 1 .. (n + 1)} =
          {entries[k].key : k \in 1 .. n} \union {e.key}
    BY <1>6, <2>1
  <2>5. QED
    BY <1>4, <2>2, <2>3, <2>4
<1>9. QED
  BY <1>2, <1>3, <1>6, <1>7, <1>8 DEF n, e

\* An answer of the ledger to a posting, or none.
LEMMA Answers ==
  ASSUME NEW r \in Runs, NEW row, NEW next, PostTransaction(r, row, next)
  PROVE  \/ /\ \E field \in {"posted", "errors"} :
                 /\ Count(r, field) /\ (field = "errors" => UNCHANGED entries)
                 /\ field = "posted" => Record(r, row) \/ KeyOf(r, row) \in Keys
            /\ Record(r, row) \/ UNCHANGED entries
            /\ Drop(r) /\ phase' = [phase EXCEPT ![r] = next]
            /\ UNCHANGED <<job, place, cache>>
         \/ Record(r, row) /\ Fail(r)
  BY DEF PostTransaction

\* A row of the importer is posted.
LEMMA NodePosted ==
  ASSUME Typing, Typing', Grows, NEW r \in Runs, RunInv(r), phase[r] = "posting",
         job[r].source = "oc", UNCHANGED collective,
         PostTransaction(r, MapNode(Head(queue[r])), "fetching")
  PROVE  RunInv(r)'
<1> DEFINE node == Head(queue[r])
           row == MapNode(node)
           key == <<"oc", node.id>>
<1>1. KeyOf(r, row) = key
  BY DEF KeyOf, MapNode
<1>2. /\ Importing(r) /\ queue[r] \in Seq(Rows) /\ Len(queue[r]) \in Nat
      /\ summary[r] \in Summary /\ place[r] \in Nat /\ Dealt(r) \in Nat
      /\ Dealt(r) = summary[r].fetched - 1
      /\ Dealt(r) = summary[r].posted + summary[r].skipped + summary[r].errors
  BY ImporterFacts
<1>3. queue[r] # << >>
  BY <1>2 DEF Importing
<1> HIDE DEF row, key
<1>4. CASE /\ \E field \in {"posted", "errors"} :
                /\ Count(r, field) /\ (field = "errors" => UNCHANGED entries)
                /\ field = "posted" => Record(r, row) \/ KeyOf(r, row) \in Keys
           /\ Record(r, row) \/ UNCHANGED entries
           /\ Drop(r) /\ phase' = [phase EXCEPT ![r] = "fetching"]
           /\ UNCHANGED <<job, place, cache>>
  <2>1. /\ queue'[r] = Tail(queue[r]) /\ phase'[r] = "fetching"
        /\ UNCHANGED <<listed, job[r], place[r], more[r]>> /\ Keys \subseteq Keys'
    BY <1>4 DEF Typing, Drop, collective, Grows
  <2>2. PICK field \in {"posted", "errors"} :
          /\ Count(r, field) /\ (field = "errors" => UNCHANGED entries)
          /\ field = "posted" => Record(r, row) \/ KeyOf(r, row) \in Keys
    BY <1>4
  <2>3. summary'[r] = Plus(summary[r], field)
    BY <2>2 DEF Typing, Count, Plus
  <2>4. /\ summary'[r] \in Summary /\ summary'[r].fetched = summary[r].fetched
        /\ summary'[r].posted + summary'[r].skipped + summary'[r].errors =
             summary[r].posted + summary[r].skipped + summary[r].errors + 1
        /\ summary[r].errors <= summary'[r].errors
        /\ field = "errors" => summary'[r].errors = summary[r].errors + 1
        /\ summary[r].fetched \in Nat
    <3>1. PICK s, u : s = summary[r] /\ u = summary'[r]
      OBVIOUS
    <3>2. s \in Summary /\ u = Plus(s, field)
      BY <1>2, <2>3, <3>1
    <3>3. /\ u \in Summary /\ u.fetched = s.fetched /\ s.fetched \in Nat
          /\ u.posted + u.skipped + u.errors = s.posted + s.skipped + s.errors + 1
          /\ s.errors <= u.errors /\ (field = "errors" => u.errors = s.errors + 1)
      BY <3>2, Answered
    <3>4. QED
      BY <3>1, <3>3, Zenon
  <2>5. /\ Dealt(r) = summary[r].fetched - 1 /\ Dealt(r) \in Nat
        /\ Dealt(r) = summary[r].posted + summary[r].skipped + summary[r].errors
    BY <1>2
  <2>6. /\ summary'[r].fetched = Dealt(r) + 1
        /\ summary'[r].posted + summary'[r].skipped + summary'[r].errors = Dealt(r) + 1
        /\ summary[r].errors <= summary'[r].errors
        /\ field = "errors" => summary'[r].errors = summary[r].errors + 1
    BY <2>4, <2>5
  <2>7. key \in Keys' \/ (Keys' = Keys /\ summary'[r].errors = summary[r].errors + 1)
    <3>1. CASE field = "errors"
      <4>1. entries' = entries
        BY <2>2, <3>1
      <4>2. QED
        BY <2>6, <3>1, <4>1 DEF Keys
    <3>2. CASE field = "posted"
      <4>1. Record(r, row) \/ KeyOf(r, row) \in Keys
        BY <2>2, <3>2
      <4>2. CASE Record(r, row)
        <5>1. Keys' = Keys \union {KeyOf(r, row)}
          BY <4>2, Recorded
        <5>2. QED
          BY <1>1, <5>1
      <4>3. QED
        BY <1>1, <2>1, <4>1, <4>2
    <3>3. QED
      BY <3>1, <3>2
  <2>8. LET n == Head(queue[r])
        IN job[r].dry \/ NodeSkipped(n) \/ <<"oc", n.id>> \in Keys'
             \/ (Keys' = Keys /\ summary'[r].errors = summary[r].errors + 1)
    BY <2>7 DEF key
  <2>9. summary'[r] \in Summary /\ phase[r] \in {"fetching", "posting"}
    BY <2>4
  <2>10. QED
    BY <1>3, <2>1, <2>6, <2>8, <2>9, RowDealtWith
<1>5. CASE Record(r, row) /\ Fail(r)
  BY <1>5, RunFails
<1>6. QED
  <2>1. PostTransaction(r, row, "fetching")
    BY DEF row
  <2>2. QED
    BY <1>4, <1>5, <2>1, Answers

\* The next account of a row is resolved, or the run ends.
LEMMA AccountEnsured ==
  ASSUME Typing, Typing', Grows, NEW r \in Runs, RunInv(r), NEW row, EnsureAccount(r, row),
         UNCHANGED more
  PROVE  RunInv(r)'
<1>1. \/ UNCHANGED <<job, phase, place, queue, summary>>
      \/ Fail(r) /\ phase[r] # "idle"
  BY DEF EnsureAccount
<1>2. CASE UNCHANGED <<job, phase, place, queue, summary>>
  <2>1. Same(r)
    BY <1>2 DEF Same
  <2>2. QED
    BY <2>1, KeptRun
<1>3. QED
  BY <1>1, <1>2, RunFails

\* A step of the importer keeps what is known of the run.
LEMMA ImporterSteps ==
  ASSUME Typing, Typing', Grows, NEW r \in Runs, RunInv(r), ImportStep(r)
  PROVE  RunInv(r)'
<1>1. job[r].source = "oc"
  BY DEF ImportStep
<1>2. CASE WarmCache(r, "fetching") /\ UNCHANGED collective
  <2>1. /\ phase[r] = "warming" /\ phase'[r] = "fetching" /\ listed' = listed /\ Keys' = Keys
        /\ job'[r] = job[r] /\ place'[r] = place[r] /\ queue'[r] = queue[r]
        /\ summary'[r] = summary[r] /\ more'[r] = more[r]
    BY <1>2 DEF Typing, WarmCache, ledger, collective, Keys
  <2>2. Importing(r) /\ Dealt(r)' = Dealt(r) /\ Dealt(r) = summary[r].fetched
    BY <1>1, <2>1 DEF RunInv, RunOK, Dealt
  <2>3. Accounted(r)'
    BY <2>1, <2>2 DEF Importing, Accounted
  <2>4. Importing(r)'
    BY <2>1, <2>2, <2>3 DEF Importing
  <2>5. RunTyped(r)'
    BY <2>1 DEF RunInv, RunTyped, Phases
  <2>6. RunOK(r)'
    BY <1>1, <2>1, <2>4 DEF RunOK
  <2>7. QED
    BY <2>1, <2>5, <2>6 DEF RunInv, ImportReported, SyncReported, Ended
<1>3. CASE FetchPage(r)
  BY <1>3, PageFetched
<1>4. CASE TakeNode(r)
  BY <1>4, NodeTaken
<1>5. CASE EndImport(r)
  BY <1>5, ImportEnds
<1>6. CASE /\ phase[r] = "posting" /\ UNCHANGED collective
           /\ EnsureAccount(r, MapNode(Head(queue[r])))
  <2>1. UNCHANGED more
    BY <1>6 DEF collective
  <2>2. QED
    BY <1>6, <2>1, AccountEnsured
<1>7. CASE /\ phase[r] = "posting" /\ UNCHANGED collective
           /\ PostTransaction(r, MapNode(Head(queue[r])), "fetching")
  BY <1>1, <1>7, NodePosted
<1>8. QED
  BY <1>2, <1>3, <1>4, <1>5, <1>6, <1>7 DEF ImportStep

-------------------------------------------------------------------------------
(* The sync's steps. *)

\* Two sets that do not meet are counted one after the other.
LEMMA CountBoth ==
  ASSUME NEW A, IsFiniteSet(A), NEW B, IsFiniteSet(B), A \intersect B = {}
  PROVE  /\ IsFiniteSet(A \union B)
         /\ Cardinality(A \union B) = Cardinality(A) + Cardinality(B)
         /\ Cardinality(A) \in Nat /\ Cardinality(B) \in Nat
<1>1. Cardinality(A) \in Nat /\ Cardinality(B) \in Nat
  BY FS_CardinalityType
<1>2. Cardinality(A \intersect B) = 0
  BY FS_EmptySet
<1>3. /\ IsFiniteSet(A \union B)
      /\ Cardinality(A \union B) = Cardinality(A) + Cardinality(B) - Cardinality(A \intersect B)
  BY FS_Union
<1>4. QED
  BY <1>1, <1>2, <1>3

\* A sequence after another has the rows of both.
LEMMA Joined ==
  ASSUME NEW s \in Seq(Rows), NEW t \in Seq(Rows)
  PROVE  /\ s \o t \in Seq(Rows) /\ Len(s \o t) = Len(s) + Len(t)
         /\ Len(s) \in Nat /\ Len(t) \in Nat
         /\ \A i \in 1 .. Len(s \o t) :
              \/ \E k \in 1 .. Len(s) : (s \o t)[i] = s[k]
              \/ \E k \in 1 .. Len(t) : (s \o t)[i] = t[k]
         /\ \A k \in 1 .. Len(s) : \E i \in 1 .. Len(s \o t) : (s \o t)[i] = s[k]
         /\ \A k \in 1 .. Len(t) : \E i \in 1 .. Len(s \o t) : (s \o t)[i] = t[k]
<1> DEFINE u == s \o t
           m == Len(s)
           n == Len(t)
<1>1. /\ u \in Seq(Rows) /\ Len(u) = m + n
      /\ \A i \in 1 .. (m + n) : u[i] = IF i <= m THEN s[i] ELSE t[i - m]
  BY ConcatProperties
<1>2. m \in Nat /\ n \in Nat
  BY LenProperties
<1> HIDE DEF u, m, n
<1>3. \A i \in 1 .. (m + n) : (\E k \in 1 .. m : u[i] = s[k]) \/ (\E k \in 1 .. n : u[i] = t[k])
  <2>1. SUFFICES ASSUME NEW i \in 1 .. (m + n)
                 PROVE  (\E k \in 1 .. m : u[i] = s[k]) \/ (\E k \in 1 .. n : u[i] = t[k])
    OBVIOUS
  <2>2. CASE i <= m
    <3>1. i \in 1 .. m /\ u[i] = s[i]
      BY <1>1, <1>2, <2>2
    <3>2. QED
      BY <3>1
  <2>3. CASE ~(i <= m)
    <3>1. i - m \in 1 .. n /\ u[i] = t[i - m]
      BY <1>1, <1>2, <2>3
    <3>2. QED
      BY <3>1
  <2>4. QED
    BY <2>2, <2>3
<1>4. \A k \in 1 .. m : k \in 1 .. (m + n) /\ u[k] = s[k]
  BY <1>1, <1>2
<1>5. \A k \in 1 .. n : k + m \in 1 .. (m + n) /\ u[k + m] = t[k]
  <2>1. SUFFICES ASSUME NEW k \in 1 .. n PROVE k + m \in 1 .. (m + n) /\ u[k + m] = t[k]
    OBVIOUS
  <2>2. k + m \in 1 .. (m + n) /\ ~(k + m <= m) /\ (k + m) - m = k
    BY <1>2
  <2>3. QED
    BY <1>1, <2>2
<1>6. QED
  BY <1>1, <1>2, <1>3, <1>4, <1>5 DEF u, m, n

\* The places of the rows of one kind, and of the updates.
At(page, op) == {i \in DOMAIN page : page[i].op = op}
UpdatesAt(page) == {i \in 1 .. Len(page) : IsUpdate(page[i])}

\* The rows that are picked, each once.
LEMMA PickedHolds ==
  ASSUME NEW page \in Seq(Rows), NEW at \in SUBSET (1 .. Len(page))
  PROVE  Holds(Picked(page, at), page, at)
<1>1. Len(page) \in Nat
  BY LenProperties
<1>2. IsFiniteSet(at)
  BY <1>1, CountUpTo, FS_Subset
<1>3. /\ Picked(page, at) \in Seq(Rows)
      /\ Len(Picked(page, at)) = Cardinality(at)
      /\ \A k \in 1 .. Cardinality(at) : \E i \in at : Picked(page, at)[k] = page[i]
      /\ \A i \in at : \E k \in 1 .. Cardinality(at) : Picked(page, at)[k] = page[i]
  BY PickedFacts
<1>4. QED
  BY <1>2, <1>3, Zenon DEF Holds

\* The rows of one kind, each once.
LEMMA OfFacts ==
  ASSUME NEW page \in Seq(Rows), NEW op
  PROVE  Holds(Of(page, op), page, At(page, op)) /\ Len(Of(page, op)) \in Nat
<1>1. At(page, op) \in SUBSET (1 .. Len(page))
  BY LenProperties DEF At
<1>2. Of(page, op) = Picked(page, At(page, op))
  BY DEF Of, At
<1>3. Holds(Of(page, op), page, At(page, op))
  BY <1>1, <1>2, PickedHolds
<1>4. Of(page, op) \in Seq(Rows)
  BY <1>3 DEF Holds
<1>5. QED
  BY <1>3, <1>4, LenProperties

\* One sequence after the other holds the rows at the places of both.
LEMMA JoinedHolds ==
  ASSUME NEW page, NEW A, NEW B, A \intersect B = {},
         NEW s, Holds(s, page, A), NEW t, Holds(t, page, B)
  PROVE  Holds(s \o t, page, A \union B)
<1>1. PICK u : u = s \o t
  OBVIOUS
<1>2. /\ s \in Seq(Rows) /\ IsFiniteSet(A) /\ Len(s) = Cardinality(A)
      /\ t \in Seq(Rows) /\ IsFiniteSet(B) /\ Len(t) = Cardinality(B)
  BY DEF Holds
<1>3. /\ u \in Seq(Rows) /\ Len(u) = Len(s) + Len(t)
      /\ \A i \in 1 .. Len(u) : \/ \E k \in 1 .. Len(s) : u[i] = s[k]
                                \/ \E k \in 1 .. Len(t) : u[i] = t[k]
      /\ \A k \in 1 .. Len(s) : \E i \in 1 .. Len(u) : u[i] = s[k]
      /\ \A k \in 1 .. Len(t) : \E i \in 1 .. Len(u) : u[i] = t[k]
  <2>1. s \in Seq(Rows) /\ t \in Seq(Rows)
    BY <1>2
  <2>2. /\ s \o t \in Seq(Rows) /\ Len(s \o t) = Len(s) + Len(t)
        /\ \A i \in 1 .. Len(s \o t) :
             \/ \E k \in 1 .. Len(s) : (s \o t)[i] = s[k]
             \/ \E k \in 1 .. Len(t) : (s \o t)[i] = t[k]
        /\ \A k \in 1 .. Len(s) : \E i \in 1 .. Len(s \o t) : (s \o t)[i] = s[k]
        /\ \A k \in 1 .. Len(t) : \E i \in 1 .. Len(s \o t) : (s \o t)[i] = t[k]
    BY <2>1, Joined
  <2>3. QED
    BY <1>1, <2>2, Zenon
<1>4. IsFiniteSet(A \union B) /\ Len(u) = Cardinality(A \union B)
  <2>1. IsFiniteSet(A \union B) /\ Cardinality(A \union B) = Cardinality(A) + Cardinality(B)
    BY <1>2, CountBoth
  <2>2. QED
    BY <1>2, <1>3, <2>1
<1>5. \A k \in 1 .. Len(u) : \E i \in A \union B : u[k] = page[i]
  <2>1. SUFFICES ASSUME NEW k \in 1 .. Len(u) PROVE \E i \in A \union B : u[k] = page[i]
    OBVIOUS
  <2>2. CASE \E j \in 1 .. Len(s) : u[k] = s[j]
    <3>1. PICK j \in 1 .. Len(s) : u[k] = s[j]
      BY <2>2
    <3>2. \E i \in A : s[j] = page[i]
      BY Zenon DEF Holds
    <3>3. QED
      BY <3>1, <3>2, Zenon
  <2>3. CASE \E j \in 1 .. Len(t) : u[k] = t[j]
    <3>1. PICK j \in 1 .. Len(t) : u[k] = t[j]
      BY <2>3
    <3>2. \E i \in B : t[j] = page[i]
      BY Zenon DEF Holds
    <3>3. QED
      BY <3>1, <3>2, Zenon
  <2>4. QED
    BY <1>3, <2>2, <2>3
<1>6. \A i \in A \union B : \E k \in 1 .. Len(u) : u[k] = page[i]
  <2>1. SUFFICES ASSUME NEW i \in A \union B PROVE \E k \in 1 .. Len(u) : u[k] = page[i]
    OBVIOUS
  <2>2. CASE i \in A
    <3>1. PICK j \in 1 .. Len(s) : s[j] = page[i]
      BY <2>2 DEF Holds
    <3>2. QED
      BY <1>3, <3>1
  <2>3. CASE i \in B
    <3>1. PICK j \in 1 .. Len(t) : t[j] = page[i]
      BY <2>3 DEF Holds
    <3>2. QED
      BY <1>3, <3>1
  <2>4. QED
    BY <2>2, <2>3
<1>7. Holds(u, page, A \union B)
  BY <1>3, <1>4, <1>5, <1>6, Zenon DEF Holds
<1>8. QED
  BY <1>1, <1>7, Zenon

\* The updates of a page are its rows that are added or modified, each once.
LEMMA UpdatesFacts ==
  ASSUME NEW page \in Seq(Rows)
  PROVE  Holds(Updates(page), page, UpdatesAt(page))
<1>1. Holds(Of(page, "added"), page, At(page, "added"))
  BY OfFacts
<1>2. Holds(Of(page, "modified"), page, At(page, "modified"))
  BY OfFacts
<1>3. /\ UpdatesAt(page) = At(page, "added") \union At(page, "modified")
      /\ At(page, "added") \intersect At(page, "modified") = {}
  <2>1. DOMAIN page = 1 .. Len(page)
    BY LenProperties
  <2>2. QED
    BY <2>1 DEF At, UpdatesAt, IsUpdate
<1>4. QED
  BY <1>1, <1>2, <1>3, JoinedHolds DEF Updates

\* A one-to-one image of a finite set has as many elements.
LEMMA CountImage ==
  ASSUME NEW S, IsFiniteSet(S), NEW h, \A x, y \in S : h[x] = h[y] => x = y
  PROVE  /\ IsFiniteSet({h[x] : x \in S})
         /\ Cardinality({h[x] : x \in S}) = Cardinality(S)
<1> DEFINE k == [x \in S |-> h[x]]
<1>1. k \in Bijection(S, {h[x] : x \in S})
  BY DEF Bijection, Injection, Surjection, IsInjective
<1>2. ExistsBijection(S, {h[x] : x \in S})
  BY <1>1 DEF ExistsBijection
<1>3. QED
  BY <1>2, FS_Bijection

\* The updates of the page between two cursors are those of that span of the log.
LEMMA PageUpdates ==
  ASSUME NEW from \in Nat, NEW to \in Nat, from <= to, to <= Len(Changes)
  PROVE  /\ Holds(Updates(SubSeq(Changes, from + 1, to)), Changes, UpdatesIn(from, to))
         /\ Len(Of(SubSeq(Changes, from + 1, to), "removed")) \in Nat
<1> DEFINE page == SubSeq(Changes, from + 1, to)
           rows == Updates(page)
           at == UpdatesAt(page)
           h == [i \in 1 .. (to - from) |-> from + i]
<1>1. page \in Seq(Rows) /\ Len(page) = to - from
      /\ \A i \in 1 .. (to - from) : page[i] = Changes[from + i]
  <2>1. \A i \in (from + 1) .. to : Changes[i] \in Rows
    <3>1. \A i \in (from + 1) .. to : i \in 1 .. Len(Changes)
      BY NodesFacts
    <3>2. QED
      BY <3>1, NodesFacts, ElementOfSeq
  <2>2. /\ page \in Seq(Rows)
        /\ Len(page) = IF from + 1 <= to THEN to - (from + 1) + 1 ELSE 0
        /\ \A i \in 1 .. (to - (from + 1) + 1) : page[i] = Changes[(from + 1) + i - 1]
    <3>1. from + 1 \in Int /\ to \in Int
      OBVIOUS
    <3>2. QED
      BY <2>1, <3>1, SubSeqProperties
  <2> HIDE DEF page
  <2>3. Len(page) = to - from /\ to - (from + 1) + 1 = to - from
    BY <2>2
  <2>4. \A i \in 1 .. (to - from) : (from + 1) + i - 1 = from + i
    OBVIOUS
  <2>5. QED
    BY <2>2, <2>3, <2>4
<1> HIDE DEF page
<1>2. Holds(rows, page, at) /\ Len(Of(page, "removed")) \in Nat
  BY <1>1, UpdatesFacts, OfFacts
<1>3. at = {i \in 1 .. (to - from) : IsUpdate(Changes[from + i])}
  BY <1>1 DEF UpdatesAt, IsUpdate
<1> HIDE DEF rows, at
<1>4. UpdatesIn(from, to) = {h[i] : i \in at}
  <2>1. \A j \in (from + 1) .. to : j - from \in 1 .. (to - from) /\ j = from + (j - from)
    OBVIOUS
  <2>2. \A i \in 1 .. (to - from) : from + i \in (from + 1) .. to
    OBVIOUS
  <2>3. {h[i] : i \in at} = {from + i : i \in at}
    BY <1>3
  <2>4. QED
    BY <1>3, <2>1, <2>2, <2>3 DEF UpdatesIn
<1>5. \A i, j \in at : h[i] = h[j] => i = j
  BY <1>3
<1>6. \A i \in at : h[i] = from + i /\ page[i] = Changes[from + i]
  BY <1>1, <1>3
<1> HIDE DEF h
<1>7. IsFiniteSet(UpdatesIn(from, to)) /\ Cardinality(UpdatesIn(from, to)) = Cardinality(at)
  <2>1. IsFiniteSet(at)
    BY <1>2 DEF Holds
  <2>2. Cardinality({h[i] : i \in at}) = Cardinality(at) /\ IsFiniteSet({h[i] : i \in at})
    BY <1>5, <2>1, CountImage
  <2>3. QED
    BY <1>4, <2>2
<1>8. \A k \in 1 .. Len(rows) : \E j \in UpdatesIn(from, to) : rows[k] = Changes[j]
  <2>1. SUFFICES ASSUME NEW k \in 1 .. Len(rows)
                 PROVE  \E j \in UpdatesIn(from, to) : rows[k] = Changes[j]
    OBVIOUS
  <2>2. PICK i \in at : rows[k] = page[i]
    BY <1>2 DEF Holds
  <2>3. h[i] \in UpdatesIn(from, to) /\ rows[k] = Changes[h[i]]
    BY <1>4, <1>6, <2>2
  <2>4. QED
    BY <2>3
<1>9. \A j \in UpdatesIn(from, to) : \E k \in 1 .. Len(rows) : rows[k] = Changes[j]
  <2>1. SUFFICES ASSUME NEW j \in UpdatesIn(from, to)
                 PROVE  \E k \in 1 .. Len(rows) : rows[k] = Changes[j]
    OBVIOUS
  <2>2. PICK i \in at : j = h[i]
    BY <1>4
  <2>3. page[i] = Changes[j]
    BY <1>6, <2>2
  <2>4. \E k \in 1 .. Len(rows) : rows[k] = page[i]
    BY <1>2 DEF Holds
  <2>5. QED
    BY <2>3, <2>4
<1>10. rows \in Seq(Rows) /\ Len(rows) = Cardinality(at)
  BY <1>2 DEF Holds
<1>11. Holds(rows, Changes, UpdatesIn(from, to))
  BY <1>7, <1>8, <1>9, <1>10 DEF Holds
<1>12. QED
  BY <1>2, <1>11 DEF page, rows

\* No update lies between a cursor and itself, and a span is its two parts.
LEMMA Spans ==
  ASSUME NEW a \in Nat, NEW b \in Nat, NEW c \in Nat, a <= b, b <= c
  PROVE  /\ UpdatesIn(a, a) = {}
         /\ UpdatesIn(a, c) = UpdatesIn(a, b) \union UpdatesIn(b, c)
         /\ UpdatesIn(a, b) \intersect UpdatesIn(b, c) = {}
<1>1. (a + 1) .. a = {} /\ (a + 1) .. c = ((a + 1) .. b) \union ((b + 1) .. c)
      /\ ((a + 1) .. b) \intersect ((b + 1) .. c) = {}
  OBVIOUS
<1>2. QED
  BY <1>1 DEF UpdatesIn

\* A sync begins at a cursor it was given.
LEMMA SyncStarts ==
  ASSUME Typing, \A s \in Runs : RunInv(s), NEW r \in Runs, NEW option \in Options, NEW from,
         StartSync(r, from, option.limit, option.dry)
  PROVE  RunInv(r)'
<1>1. /\ queue'[r] = << >> /\ summary'[r] = ZeroSummary /\ place'[r] = from
      /\ job'[r] = [source |-> "plaid", limit |-> option.limit, dry |-> option.dry, from |-> from]
      /\ phase'[r] = "fetching" /\ known' = known /\ known \in Nat
  BY NodesFacts DEF Typing, StartSync, RunInv, RunOK, item
<1>2. from \in Nat /\ from <= known
  <2>1. CASE from = 0
    BY <1>1, <2>1
  <2>2. CASE \E s \in Runs : phase[s] = "done" /\ job[s].source = "plaid" /\ from = place[s]
    <3>1. PICK s \in Runs : phase[s] = "done" /\ job[s].source = "plaid" /\ from = place[s]
      BY <2>2
    <3>2. RunInv(s)
      OBVIOUS
    <3>3. QED
      BY <3>1, <3>2 DEF RunInv, RunTyped, RunOK
  <2>3. QED
    BY <2>1, <2>2 DEF StartSync
<1>3. option.limit \in Nat \union {NoLimit}
  BY OptionsAssumption
<1>4. Holds(<< >>, Changes, UpdatesIn(from, from))
  <2>1. UpdatesIn(from, from) = {}
    BY <1>2, Spans
  <2>2. Len(<< >>) = 0 /\ << >> \in Seq(Rows)
    BY EmptySeq
  <2>3. QED
    BY <2>1, <2>2, FS_EmptySet DEF Holds
<1>5. Draining(r)'
  BY <1>1, <1>2, <1>3, <1>4 DEF Draining, ZeroSummary
<1>6. RunTyped(r)'
  BY <1>1, <1>2, EmptySeq DEF RunTyped, Phases, ZeroSummary, Summary
<1>7. RunOK(r)'
  BY <1>1, <1>5 DEF RunOK
<1>8. QED
  BY <1>1, <1>6, <1>7 DEF RunInv, ImportReported, SyncReported, Ended

\* What is known of a sync that drains the log.
LEMMA DrainingFacts ==
  ASSUME Typing, NEW r \in Runs, RunInv(r), job[r].source = "plaid",
         phase[r] \in {"fetching", "mapping"}
  PROVE  /\ Draining(r) /\ queue[r] \in Seq(Rows) /\ Len(queue[r]) \in Nat
         /\ summary[r] \in Summary /\ place[r] \in Nat /\ known \in Nat
         /\ job[r].from \in Nat /\ job[r].from <= place[r] /\ place[r] <= known
         /\ known <= Len(Changes) /\ Len(Changes) \in Nat
         /\ Holds(queue[r], Changes, UpdatesIn(job[r].from, place[r]))
<1>1. Draining(r)
  BY DEF RunInv, RunOK
<1>2. queue[r] \in Seq(Rows) /\ summary[r] \in Summary /\ place[r] \in Nat
  BY DEF RunInv, RunTyped
<1>3. Len(queue[r]) \in Nat
  BY <1>2, LenProperties
<1>4. known \in Nat /\ known <= Len(Changes)
  BY NodesFacts DEF Typing
<1>5. QED
  BY <1>1, <1>2, <1>3, <1>4, NodesFacts DEF Draining

\* A page is added to what the sync has got, up to the page's cursor.
LEMMA ChangesFetched ==
  ASSUME Typing, NEW r \in Runs, RunInv(r), FetchChanges(r)
  PROVE  RunInv(r)'
<1> DEFINE from == job[r].from
           at == place[r]
           to == NextCursor(r)
           rows == Updates(Page(r))
           removed == Len(Of(Page(r), "removed"))
<1>1. /\ phase[r] = "fetching" /\ job[r].source = "plaid" /\ job'[r] = job[r]
      /\ place'[r] = to /\ queue'[r] = queue[r] \o rows
      /\ summary'[r] = [summary[r] EXCEPT !.removed = @ + removed]
      /\ phase'[r] \in {"fetching", "mapping"} /\ known' = known
  BY DEF Typing, FetchChanges, Collect, item
<1>2. /\ Draining(r) /\ queue[r] \in Seq(Rows) /\ summary[r] \in Summary /\ at \in Nat
      /\ known \in Nat /\ from \in Nat /\ from <= at /\ at <= known /\ known <= Len(Changes)
      /\ Holds(queue[r], Changes, UpdatesIn(from, at))
  BY <1>1, DrainingFacts
<1>3. to \in Nat /\ at <= to /\ to <= known
  <2>1. ChangesPage \in Nat \ {0}
    BY PlaidAssumption
  <2>2. at + ChangesPage \in Int /\ known \in Int
    BY <1>2, <2>1
  <2>3. Min({at + ChangesPage, known}) = IF at + ChangesPage <= known THEN at + ChangesPage ELSE known
    BY <2>2, MinOfTwo
  <2>4. to = IF ready THEN Min({at + ChangesPage, known}) ELSE at
    BY DEF NextCursor
  <2> HIDE DEF at, to
  <2>5. QED
    BY <1>2, <2>1, <2>3, <2>4
<1> HIDE DEF to
<1>4. Holds(rows, Changes, UpdatesIn(at, to)) /\ removed \in Nat
  <2>1. Page(r) = SubSeq(Changes, at + 1, to)
    BY DEF Page, to
  <2>2. to <= Len(Changes)
    BY <1>2, <1>3, NodesFacts
  <2>3. QED
    BY <1>2, <1>3, <2>1, <2>2, PageUpdates
<1> HIDE DEF from, at, rows, removed
<1>5. Holds(queue'[r], Changes, UpdatesIn(from, to))
  <2>1. /\ UpdatesIn(from, to) = UpdatesIn(from, at) \union UpdatesIn(at, to)
        /\ UpdatesIn(from, at) \intersect UpdatesIn(at, to) = {}
    BY <1>2, <1>3, Spans
  <2>2. Holds(queue[r] \o rows, Changes, UpdatesIn(from, at) \union UpdatesIn(at, to))
    BY <1>2, <1>4, <2>1, JoinedHolds
  <2>3. QED
    BY <1>1, <2>1, <2>2
<1>6. /\ summary'[r] \in Summary /\ summary'[r].posted = 0 /\ summary'[r].skipped = 0
      /\ summary'[r].errors = 0 /\ summary'[r].fetched = 0
  <2>1. summary[r].posted = 0 /\ summary[r].skipped = 0 /\ summary[r].errors = 0 /\ summary[r].fetched = 0
    BY <1>2 DEF Draining
  <2>2. summary'[r] = [summary[r] EXCEPT !.removed = @ + removed]
    BY <1>1
  <2>3. summary[r] \in Summary /\ removed \in Nat
    BY <1>2, <1>4
  <2>4. QED
    BY <2>1, <2>2, <2>3 DEF Summary
<1>7. Draining(r)'
  <2>1. job'[r].limit \in Nat \union {NoLimit} /\ job'[r].from = from
    BY <1>1, <1>2 DEF Draining, from
  <2>2. from \in 0 .. place'[r] /\ place'[r] <= known' /\ place'[r] = to
    BY <1>1, <1>2, <1>3
  <2>3. QED
    BY <1>5, <1>6, <2>1, <2>2 DEF Draining
<1>8. RunTyped(r)'
  <2>1. queue'[r] \in Seq(Rows)
    BY <1>5 DEF Holds
  <2>2. place'[r] \in Nat
    BY <1>1, <1>3
  <2>3. QED
    BY <1>1, <1>6, <2>1, <2>2 DEF RunTyped, Phases
<1>9. RunOK(r)'
  BY <1>1, <1>7 DEF RunOK
<1>10. QED
  BY <1>1, <1>8, <1>9 DEF RunInv, ImportReported, SyncReported, Ended

\* The first rows of a queue.
LEMMA FirstRows ==
  ASSUME NEW q \in Seq(Rows), NEW n \in Nat, n <= Len(q)
  PROVE  /\ SubSeq(q, 1, n) \in Seq(Rows) /\ Len(SubSeq(q, 1, n)) = n
         /\ \A i \in 1 .. n : SubSeq(q, 1, n)[i] = q[i]
<1>1. Len(q) \in Nat /\ \A i \in 1 .. n : q[i] \in Rows
  <2>1. Len(q) \in Nat
    BY LenProperties
  <2>2. \A i \in 1 .. n : i \in 1 .. Len(q)
    BY <2>1
  <2>3. QED
    BY <2>1, <2>2, ElementOfSeq
<1>2. 1 \in Int /\ n \in Int
  OBVIOUS
<1>3. /\ SubSeq(q, 1, n) \in Seq(Rows)
      /\ Len(SubSeq(q, 1, n)) = IF 1 <= n THEN n - 1 + 1 ELSE 0
      /\ \A i \in 1 .. (n - 1 + 1) : SubSeq(q, 1, n)[i] = q[1 + i - 1]
  BY <1>1, <1>2, SubSeqProperties
<1> DEFINE t == SubSeq(q, 1, n)
<1> HIDE DEF t
<1>4. /\ t \in Seq(Rows) /\ Len(t) = (IF 1 <= n THEN n - 1 + 1 ELSE 0)
      /\ \A i \in 1 .. (n - 1 + 1) : t[i] = q[1 + i - 1]
  BY <1>3 DEF t
<1>5. n - 1 + 1 = n /\ \A i \in 1 .. n : 1 + i - 1 = i
  OBVIOUS
<1>6. t \in Seq(Rows) /\ Len(t) = n /\ \A i \in 1 .. n : t[i] = q[i]
  BY <1>4, <1>5
<1>7. QED
  BY <1>6 DEF t

\* The rows --max leaves: as many as it says, or all.
KeptOf(q, limit) == IF limit = NoLimit THEN q ELSE SubSeq(q, 1, Min({limit, Len(q)}))

\* A prefix of the queue is kept, all of it unless it is as long as --max says.
LEMMA KeptFacts ==
  ASSUME NEW q \in Seq(Rows), NEW limit \in Nat \union {NoLimit}
  PROVE  \E n \in Nat :
           /\ KeptOf(q, limit) \in Seq(Rows) /\ Len(KeptOf(q, limit)) = n /\ n <= Len(q)
           /\ \A i \in 1 .. n : KeptOf(q, limit)[i] = q[i]
           /\ n < Len(q) => limit = n
<1>1. Len(q) \in Nat
  BY LenProperties
<1>2. CASE limit = NoLimit
  <2>1. KeptOf(q, limit) = q
    BY <1>2 DEF KeptOf
  <2>2. QED
    BY <1>1, <2>1
<1>3. CASE limit # NoLimit
  <2> DEFINE n == Min({limit, Len(q)})
  <2>1. limit \in Nat
    BY <1>3
  <2>2. n = IF limit <= Len(q) THEN limit ELSE Len(q)
    BY <1>1, <2>1, MinOfTwo
  <2>3. KeptOf(q, limit) = SubSeq(q, 1, n)
    BY <1>3 DEF KeptOf
  <2> HIDE DEF n
  <2>4. n \in Nat /\ n <= Len(q) /\ (n < Len(q) => limit = n)
    BY <1>1, <2>1, <2>2
  <2>5. QED
    BY <2>3, <2>4, FirstRows
<1>4. QED
  BY <1>2, <1>3

\* What is mapped: the rows that are not skipped, each once.
KeptAt(kept) == {i \in DOMAIN kept : ~ChangeSkipped(kept[i])}
MappedOf(kept) == [i \in DOMAIN Picked(kept, KeptAt(kept)) |-> MapChange(Picked(kept, KeptAt(kept))[i])]

\* Every row that is kept and not skipped is mapped, and nothing else.
LEMMA MappedFacts ==
  ASSUME NEW kept \in Seq(Rows), \A i \in 1 .. Len(kept) : kept[i] \in ToSet(Changes)
  PROVE  /\ MappedOf(kept) \in Seq(Rows) /\ Len(MappedOf(kept)) \in 0 .. Len(kept)
         /\ Len(MappedOf(kept)) = Len(Picked(kept, KeptAt(kept)))
         /\ \A k \in 1 .. Len(MappedOf(kept)) :
              \E i \in 1 .. Len(kept) : ~ChangeSkipped(kept[i]) /\ MappedOf(kept)[k] = MapChange(kept[i])
         /\ \A i \in 1 .. Len(kept) :
              ~ChangeSkipped(kept[i]) =>
                \E k \in 1 .. Len(MappedOf(kept)) : MappedOf(kept)[k] = MapChange(kept[i])
<1> DEFINE at == KeptAt(kept)
           p == Picked(kept, at)
           m == MappedOf(kept)
<1>1. /\ at \in SUBSET (1 .. Len(kept)) /\ Len(kept) \in Nat
      /\ \A i \in 1 .. Len(kept) : i \in at <=> ~ChangeSkipped(kept[i])
  <2>1. DOMAIN kept = 1 .. Len(kept) /\ Len(kept) \in Nat
    BY LenProperties
  <2>2. QED
    BY <2>1 DEF KeptAt
<1> HIDE DEF at
<1>2. Holds(p, kept, at) /\ Cardinality(at) \in 0 .. Len(kept)
  BY <1>1, PickedHolds, PickedFacts
<1>3. m = [i \in DOMAIN p |-> MapChange(p[i])]
  BY DEF MappedOf, at
<1> HIDE DEF p, m
<1>4. p \in Seq(Rows) /\ Len(p) = Cardinality(at) /\ DOMAIN p = 1 .. Len(p) /\ Len(p) \in Nat
  <2>1. p \in Seq(Rows) /\ Len(p) = Cardinality(at)
    BY <1>2 DEF Holds
  <2>2. QED
    BY <2>1, LenProperties
<1>5. \A k \in 1 .. Len(p) : \E i \in at : p[k] = kept[i]
  BY <1>2 DEF Holds
<1>6. \A i \in at : \E k \in 1 .. Len(p) : p[k] = kept[i]
  BY <1>2 DEF Holds
<1>7. \A k \in 1 .. Len(p) : m[k] = MapChange(p[k]) /\ m[k] \in Rows
  <2>1. SUFFICES ASSUME NEW k \in 1 .. Len(p) PROVE m[k] = MapChange(p[k]) /\ m[k] \in Rows
    OBVIOUS
  <2>2. m[k] = MapChange(p[k])
    BY <1>3, <1>4
  <2>3. PICK i \in at : p[k] = kept[i]
    BY <1>5
  <2>4. p[k] \in ToSet(Changes)
    BY <1>1, <2>3
  <2>5. QED
    BY <2>2, <2>4 DEF Rows
<1>8. m \in Seq(Rows) /\ Len(m) = Len(p)
  <2>1. m \in [1 .. Len(p) -> Rows]
    BY <1>3, <1>4, <1>7
  <2>2. QED
    BY <1>4, <2>1, SeqDef, LenProperties
<1>9. \A k \in 1 .. Len(m) :
        \E i \in 1 .. Len(kept) : ~ChangeSkipped(kept[i]) /\ m[k] = MapChange(kept[i])
  <2>1. SUFFICES ASSUME NEW k \in 1 .. Len(m)
                 PROVE  \E i \in 1 .. Len(kept) : ~ChangeSkipped(kept[i]) /\ m[k] = MapChange(kept[i])
    OBVIOUS
  <2>2. PICK i \in at : p[k] = kept[i]
    BY <1>5, <1>8
  <2>3. i \in 1 .. Len(kept) /\ ~ChangeSkipped(kept[i]) /\ m[k] = MapChange(kept[i])
    BY <1>1, <1>7, <1>8, <2>2
  <2>4. QED
    BY <2>3
<1>10. \A i \in 1 .. Len(kept) :
         ~ChangeSkipped(kept[i]) => \E k \in 1 .. Len(m) : m[k] = MapChange(kept[i])
  <2>1. SUFFICES ASSUME NEW i \in 1 .. Len(kept), ~ChangeSkipped(kept[i])
                 PROVE  \E k \in 1 .. Len(m) : m[k] = MapChange(kept[i])
    OBVIOUS
  <2>2. PICK k \in 1 .. Len(p) : p[k] = kept[i]
    BY <1>1, <1>6, <2>1
  <2>3. QED
    BY <1>7, <1>8, <2>2
<1>11. Len(m) \in 0 .. Len(kept)
  BY <1>2, <1>4, <1>8
<1>12. QED
  BY <1>8, <1>9, <1>10, <1>11 DEF m, p, at

\* The rows that --max cut off are no more than it cut off, and nothing else is owed.
LEMMA CutRows ==
  ASSUME NEW q \in Seq(Rows), NEW n \in Nat, n <= Len(q), NEW owed,
         owed \in SUBSET {q[i].id : i \in (n + 1) .. Len(q)}
  PROVE  Cardinality(owed) \in Nat /\ Cardinality(owed) <= Len(q) - n
<1> DEFINE I == (n + 1) .. Len(q)
           T == {q[i].id : i \in I}
<1>1. IsFiniteSet(I) /\ Cardinality(I) = Len(q) - n /\ Len(q) \in Nat
  <2>1. Len(q) \in Nat
    BY LenProperties
  <2>2. n + 1 \in Int /\ Len(q) \in Int
    BY <2>1
  <2>3. IsFiniteSet(I) /\ Cardinality(I) = IF n + 1 > Len(q) THEN 0 ELSE Len(q) - (n + 1) + 1
    BY <2>2, FS_Interval
  <2>4. QED
    BY <2>1, <2>3
<1> HIDE DEF I
<1>2. IsFiniteSet(T) /\ Cardinality(T) \in Nat /\ Cardinality(T) <= Cardinality(I)
  BY <1>1, IdsFinite
<1>3. owed \in SUBSET T
  BY DEF I
<1> HIDE DEF T
<1>4. Cardinality(owed) \in Nat /\ Cardinality(owed) <= Cardinality(T)
  BY <1>2, <1>3, Fewer
<1>5. QED
  BY <1>1, <1>2, <1>4

\* All rows are cut, counted and mapped.
LEMMA AllMapped ==
  ASSUME Typing, NEW r \in Runs, RunInv(r), MapAll(r)
  PROVE  RunInv(r)'
<1> DEFINE from == job[r].from
           to == place[r]
           q == queue[r]
           limit == job[r].limit
           U == UpdatesIn(from, to)
           kept == KeptOf(q, limit)
           mapped == MappedOf(kept)
<1>1. phase[r] = "mapping" /\ job[r].source = "plaid"
  BY DEF MapAll, RunInv, RunOK
<1>2. /\ Draining(r) /\ q \in Seq(Rows) /\ Len(q) \in Nat
      /\ summary[r] \in Summary /\ to \in Nat /\ known \in Nat
      /\ from \in Nat /\ from <= to /\ to <= known
      /\ known <= Len(Changes) /\ Len(Changes) \in Nat
      /\ Holds(q, Changes, U)
  BY <1>1, DrainingFacts
<1>3. /\ job'[r] = job[r] /\ place'[r] = place[r] /\ known' = known /\ Keys' = Keys
      /\ queue'[r] = mapped /\ phase'[r] = IF job[r].dry THEN "done" ELSE "warming"
      /\ summary'[r] = [summary[r] EXCEPT
           !.fetched = Len(kept),
           !.skipped = Len(kept) - Len(Picked(kept, KeptAt(kept))),
           !.posted = IF job[r].dry THEN Len(Picked(kept, KeptAt(kept))) ELSE 0]
  BY DEF Typing, MapAll, KeptOf, MappedOf, KeptAt, ledger, item, Keys
<1>4. limit \in Nat \union {NoLimit} /\ summary[r].errors = 0
  BY <1>2 DEF Draining
<1>5. U \in SUBSET (1 .. known)
  BY <1>2 DEF UpdatesIn
<1> HIDE DEF kept, mapped, q, limit, from, to
<1>6. PICK n \in Nat :
        /\ kept \in Seq(Rows) /\ Len(kept) = n /\ n <= Len(q)
        /\ \A i \in 1 .. n : kept[i] = q[i]
        /\ n < Len(q) => limit = n
  BY <1>2, <1>4, KeptFacts DEF kept
<1>7. \A i \in 1 .. n : \E j \in U : kept[i] = Changes[j]
  <2>1. SUFFICES ASSUME NEW i \in 1 .. n PROVE \E j \in U : kept[i] = Changes[j]
    OBVIOUS
  <2>2. i \in 1 .. Len(q) /\ kept[i] = q[i]
    BY <1>2, <1>6
  <2> HIDE DEF U
  <2>3. \E j \in U : q[i] = Changes[j]
    BY <1>2, <2>2 DEF Holds
  <2>4. QED
    BY <2>2, <2>3
<1>8. \A i \in 1 .. Len(kept) : kept[i] \in ToSet(Changes)
  <2>1. DOMAIN Changes = 1 .. Len(Changes)
    BY NodesFacts, LenProperties
  <2>2. \A j \in U : j \in 1 .. Len(Changes)
    BY <1>2, <1>5
  <2> HIDE DEF U
  <2>3. \A j \in U : Changes[j] \in ToSet(Changes)
    BY <2>1, <2>2 DEF ToSet
  <2>4. QED
    BY <1>6, <1>7, <2>3
<1>9. /\ mapped \in Seq(Rows) /\ Len(mapped) \in 0 .. n
      /\ Len(mapped) = Len(Picked(kept, KeptAt(kept)))
      /\ \A k \in 1 .. Len(mapped) :
           \E i \in 1 .. n : ~ChangeSkipped(kept[i]) /\ mapped[k] = MapChange(kept[i])
      /\ \A i \in 1 .. n :
           ~ChangeSkipped(kept[i]) =>
             \E k \in 1 .. Len(mapped) : mapped[k] = MapChange(kept[i])
  BY <1>6, <1>8, MappedFacts DEF mapped
<1>10. /\ summary'[r] \in Summary /\ summary'[r].fetched = n /\ summary'[r].errors = 0
       /\ summary'[r].skipped = n - Len(mapped)
       /\ summary'[r].posted = IF job[r].dry THEN Len(mapped) ELSE 0
  <2>1. summary'[r] = [summary[r] EXCEPT !.fetched = n, !.skipped = n - Len(mapped),
                                         !.posted = IF job[r].dry THEN Len(mapped) ELSE 0]
    BY <1>3, <1>6, <1>9
  <2>2. n - Len(mapped) \in Nat /\ (IF job[r].dry THEN Len(mapped) ELSE 0) \in Nat
    BY <1>6, <1>9
  <2> DEFINE posted == IF job[r].dry THEN Len(mapped) ELSE 0
             skipped == n - Len(mapped)
  <2> HIDE DEF posted, skipped
  <2>3. summary'[r] = [summary[r] EXCEPT !.fetched = n, !.skipped = skipped, !.posted = posted]
        /\ posted \in Nat /\ skipped \in Nat
    BY <2>1, <2>2 DEF posted, skipped
  <2>4. /\ summary'[r] \in Summary /\ summary'[r].fetched = n /\ summary'[r].errors = summary[r].errors
        /\ summary'[r].skipped = skipped /\ summary'[r].posted = posted
    BY <1>2, <2>3 DEF Summary
  <2>5. QED
    BY <1>4, <2>4 DEF posted, skipped
<1>11. ASSUME ~job[r].dry PROVE Loading(r)'
  <2>1. \A i \in 1 .. Len(mapped) :
          \E j \in 1 .. known : /\ IsUpdate(Changes[j]) /\ ~ChangeSkipped(Changes[j])
                                /\ mapped[i] = MapChange(Changes[j])
    <3>1. SUFFICES ASSUME NEW i \in 1 .. Len(mapped)
                   PROVE  \E j \in 1 .. known : /\ IsUpdate(Changes[j]) /\ ~ChangeSkipped(Changes[j])
                                                /\ mapped[i] = MapChange(Changes[j])
      OBVIOUS
    <3>2. PICK k \in 1 .. n : ~ChangeSkipped(kept[k]) /\ mapped[i] = MapChange(kept[k])
      BY <1>9
    <3>3. PICK j \in U : kept[k] = Changes[j]
      BY <1>7
    <3>4. j \in 1 .. known /\ IsUpdate(Changes[j])
      BY <1>5, <3>3 DEF UpdatesIn
    <3>5. QED
      BY <3>2, <3>3, <3>4
  <2>2. Owed(r)' \in SUBSET {q[i].id : i \in (n + 1) .. Len(q)}
    <3>1. SUFFICES ASSUME NEW j \in Due(from, to),
                          \A k \in 1 .. Len(mapped) : mapped[k].id # Changes[j].id
                   PROVE  \E i \in (n + 1) .. Len(q) : q[i].id = Changes[j].id
      BY <1>3 DEF Owed, from, to
    <3>2. j \in U /\ ~ChangeSkipped(Changes[j])
      BY DEF Due, UpdatesIn
    <3>3. PICK i \in 1 .. Len(q) : q[i] = Changes[j]
      BY <1>2, <3>2 DEF Holds
    <3>4. ~(i \in 1 .. n)
      <4>1. SUFFICES ASSUME i \in 1 .. n PROVE FALSE
        OBVIOUS
      <4>2. kept[i] = Changes[j]
        BY <1>6, <3>3, <4>1
      <4>3. PICK k \in 1 .. Len(mapped) : mapped[k] = MapChange(Changes[j])
        BY <1>9, <3>2, <4>1, <4>2
      <4>4. MapChange(Changes[j]).id = Changes[j].id
        BY DEF MapChange
      <4>5. QED
        BY <3>1, <4>3, <4>4
    <3>5. i \in (n + 1) .. Len(q)
      BY <1>2, <1>6, <3>4
    <3>6. QED
      BY <3>3, <3>5
  <2>3. Cardinality(Owed(r)') \in Nat /\ Cardinality(Owed(r)') <= Len(q) - n
    BY <1>2, <1>6, <2>2, CutRows
  <2>4. CutOff(r)' = Len(q) - n
    BY <1>2, <1>3, <1>10 DEF CutOff, Holds, from, to
  <2>5. /\ job'[r].from \in 0 .. place'[r] /\ place'[r] <= known'
        /\ job'[r].limit = limit /\ queue'[r] = mapped
    BY <1>2, <1>3 DEF from, to, limit
  <2>6. /\ summary'[r].fetched =
             summary'[r].posted + summary'[r].skipped + summary'[r].errors + Len(mapped)
    BY <1>6, <1>9, <1>10, <1>11
  <2>7. Cardinality(Owed(r)') <= summary'[r].errors + CutOff(r)'
    BY <1>2, <1>6, <1>10, <2>3, <2>4
  <2>8. CutOff(r)' > 0 => job'[r].limit = summary'[r].fetched
    <3>1. Len(q) - n > 0 => n < Len(q)
      BY <1>2, <1>6
    <3>2. QED
      BY <1>6, <1>10, <2>4, <2>5, <3>1
  <2>9. QED
    BY <1>3, <2>1, <2>5, <2>6, <2>7, <2>8 DEF Loading
<1>12. RunTyped(r)'
  BY <1>2, <1>3, <1>9, <1>10 DEF RunTyped, Phases, to
<1>13. RunOK(r)'
  <2>1. job'[r].from \in 0 .. place'[r] /\ place'[r] <= known'
    BY <1>2, <1>3 DEF from, to
  <2>2. CASE job[r].dry
    BY <1>1, <1>3, <2>1, <2>2 DEF RunOK
  <2>3. CASE ~job[r].dry
    BY <1>1, <1>3, <1>11, <2>3 DEF RunOK
  <2>4. QED
    BY <2>2, <2>3
<1>14. QED
  BY <1>1, <1>3, <1>12, <1>13 DEF RunInv, ImportReported, SyncReported, Ended

\* What is known of a sync that loads its rows.
LEMMA LoadingFacts ==
  ASSUME Typing, NEW r \in Runs, RunInv(r), job[r].source = "plaid",
         phase[r] \in {"warming", "posting"}
  PROVE  /\ Loading(r) /\ queue[r] \in Seq(Rows) /\ Len(queue[r]) \in Nat
         /\ summary[r] \in Summary /\ place[r] \in Nat /\ known \in Nat
         /\ job[r].from \in Nat /\ job[r].from <= place[r] /\ place[r] <= known
         /\ IsFiniteSet(Owed(r)) /\ Cardinality(Owed(r)) \in Nat
         /\ summary[r].errors \in Nat /\ CutOff(r) \in Int
<1>1. Loading(r)
  BY DEF RunInv, RunOK
<1>2. queue[r] \in Seq(Rows) /\ summary[r] \in Summary /\ place[r] \in Nat
  BY DEF RunInv, RunTyped
<1>3. Len(queue[r]) \in Nat
  BY <1>2, LenProperties
<1>4. known \in Nat
  BY NodesFacts DEF Typing
<1>5. job[r].from \in Nat /\ job[r].from <= place[r] /\ place[r] <= known
  BY <1>1, <1>2 DEF Loading
<1>6. /\ IsFiniteSet(UpdatesIn(job[r].from, place[r]))
      /\ IsFiniteSet({Changes[i].id : i \in Due(job[r].from, place[r])})
  BY <1>2, <1>5, OwedFinite
<1>7. Owed(r) \in SUBSET {Changes[i].id : i \in Due(job[r].from, place[r])}
  BY DEF Owed
<1>8. IsFiniteSet(Owed(r)) /\ Cardinality(Owed(r)) \in Nat
  BY <1>6, <1>7, Fewer
<1>9. Cardinality(UpdatesIn(job[r].from, place[r])) \in Nat
  BY <1>6, FS_CardinalityType
<1>10. summary[r].errors \in Nat /\ CutOff(r) \in Int
  BY <1>2, <1>9 DEF Summary, CutOff
<1>11. QED
  BY <1>1, <1>2, <1>3, <1>4, <1>5, <1>8, <1>10

\* The rows a summary has done with are so many.
LEMMA Tally ==
  ASSUME NEW s \in Summary
  PROVE  s.posted + s.skipped + s.errors \in Nat
<1>1. s.posted \in Nat /\ s.skipped \in Nat /\ s.errors \in Nat
  BY DEF Summary
<1>2. QED
  BY <1>1

\* The sync dealt with the first row of its queue: it is in the ledger, or in error.
LEMMA RowLoaded ==
  ASSUME Typing, Typing', NEW r \in Runs, RunInv(r), job[r].source = "plaid",
         phase[r] = "posting", queue[r] # << >>,
         queue'[r] = Tail(queue[r]), phase'[r] = "posting",
         summary'[r] \in Summary,
         summary'[r].fetched = summary[r].fetched,
         summary'[r].posted + summary'[r].skipped + summary'[r].errors =
           summary[r].posted + summary[r].skipped + summary[r].errors + 1,
         UNCHANGED <<known, job[r], place[r]>>, Keys \subseteq Keys',
         summary[r].errors <= summary'[r].errors,
         \/ <<"plaid", Head(queue[r]).id>> \in Keys'
         \/ summary'[r].errors = summary[r].errors + 1
  PROVE  RunInv(r)'
<1>1. /\ Loading(r) /\ queue[r] \in Seq(Rows)
      /\ summary[r] \in Summary /\ place[r] \in Nat /\ known \in Nat
      /\ job[r].from \in Nat /\ job[r].from <= place[r] /\ place[r] <= known
      /\ IsFiniteSet(Owed(r)) /\ Cardinality(Owed(r)) \in Nat
      /\ summary[r].errors \in Nat /\ CutOff(r) \in Int
  BY LoadingFacts
<1> DEFINE q == queue[r]
           t == Tail(q)
           id == Head(q).id
<1>2. /\ Len(q) \in Nat \ {0} /\ Head(q) = q[1]
      /\ t \in Seq(Rows) /\ Len(t) = Len(q) - 1
      /\ \A i \in 1 .. (Len(q) - 1) : t[i] = q[i + 1]
  BY <1>1, QueueFacts
<1>3. queue'[r] = t
  OBVIOUS
<1> HIDE DEF q, t, id
<1>4. Owed(r)' \in SUBSET (Owed(r) \union {id}) /\ (<<"plaid", id>> \in Keys' => id \notin Owed(r)')
  <2>1. SUFFICES ASSUME NEW x \in Owed(r)'
                 PROVE  x \in Owed(r) \union {id} /\ (<<"plaid", id>> \in Keys' => x # id)
    OBVIOUS
  <2>2. /\ x \in {Changes[i].id : i \in Due(job[r].from, place[r])}
        /\ <<"plaid", x>> \notin Keys' /\ \A i \in 1 .. Len(t) : t[i].id # x
    BY <1>3 DEF Owed, Due
  <2>3. CASE x = id
    BY <2>2, <2>3
  <2>4. CASE x # id
    <3>1. ASSUME NEW i \in 1 .. Len(q) PROVE q[i].id # x
      <4>1. CASE i = 1
        BY <1>2, <2>4, <4>1 DEF id
      <4>2. CASE i # 1
        <5>1. i - 1 \in 1 .. (Len(q) - 1) /\ (i - 1) + 1 = i
          BY <1>2, <4>2
        <5>2. t[i - 1] = q[i] /\ i - 1 \in 1 .. Len(t)
          BY <1>2, <5>1
        <5>3. QED
          BY <2>2, <5>2
      <4>3. QED
        BY <4>1, <4>2
    <3>2. <<"plaid", x>> \notin Keys
      BY <2>2
    <3>3. x \in Owed(r)
      BY <2>2, <3>1, <3>2 DEF Owed, q
    <3>4. QED
      BY <2>4, <3>3
  <2>5. QED
    BY <2>3, <2>4
<1>5. CutOff(r)' = CutOff(r)
  BY DEF CutOff
<1>6. Cardinality(Owed(r)) <= summary[r].errors + CutOff(r)
  BY <1>1 DEF Loading
<1>7. summary'[r].errors \in Nat
  BY DEF Summary
<1>8. Cardinality(Owed(r)') <= summary'[r].errors + CutOff(r)
  <2>1. CASE <<"plaid", id>> \in Keys'
    <3>1. Owed(r)' \in SUBSET Owed(r)
      BY <1>4, <2>1
    <3>2. Cardinality(Owed(r)') \in Nat /\ Cardinality(Owed(r)') <= Cardinality(Owed(r))
      BY <1>1, <3>1, Fewer
    <3>3. QED
      BY <1>1, <1>6, <1>7, <3>2
  <2>2. CASE summary'[r].errors = summary[r].errors + 1
    <3>1. Cardinality(Owed(r)') \in Nat /\ Cardinality(Owed(r)') <= Cardinality(Owed(r)) + 1
      BY <1>1, <1>4, OneMore
    <3>2. QED
      BY <1>1, <1>6, <2>2, <3>1
  <2>3. QED
    BY <2>1, <2>2 DEF id, q
<1>9. \A i \in 1 .. Len(t) :
        \E j \in 1 .. known : /\ IsUpdate(Changes[j]) /\ ~ChangeSkipped(Changes[j])
                              /\ t[i] = MapChange(Changes[j])
  <2>1. SUFFICES ASSUME NEW i \in 1 .. Len(t)
                 PROVE  \E j \in 1 .. known : /\ IsUpdate(Changes[j]) /\ ~ChangeSkipped(Changes[j])
                                              /\ t[i] = MapChange(Changes[j])
    OBVIOUS
  <2>2. i + 1 \in 1 .. Len(q) /\ t[i] = q[i + 1]
    BY <1>2
  <2>3. QED
    BY <1>1, <2>2 DEF Loading, q
<1>10. summary'[r].fetched =
         summary'[r].posted + summary'[r].skipped + summary'[r].errors + Len(t)
  <2> DEFINE old == summary[r].posted + summary[r].skipped + summary[r].errors
             new == summary'[r].posted + summary'[r].skipped + summary'[r].errors
  <2>1. summary[r].fetched = old + Len(q)
    BY <1>1 DEF Loading, q
  <2>2. old \in Nat /\ new \in Nat
    BY <1>1, Tally
  <2>3. Len(t) = Len(q) - 1 /\ Len(q) \in Nat
    BY <1>2
  <2>4. new = old + 1 /\ summary'[r].fetched = summary[r].fetched
    OBVIOUS
  <2> HIDE DEF old, new
  <2>5. old + Len(q) = new + Len(t)
    BY <2>2, <2>3, <2>4
  <2>6. summary'[r].fetched = new + Len(t)
    BY <2>1, <2>4, <2>5
  <2>7. QED
    BY <2>6 DEF new
<1>11. CutOff(r) > 0 => job[r].limit = summary[r].fetched
  BY <1>1 DEF Loading
<1>12. Loading(r)'
  BY <1>1, <1>3, <1>5, <1>8, <1>9, <1>10, <1>11 DEF Loading
<1>13. RunTyped(r)'
  BY <1>1, <1>2, <1>3 DEF RunTyped, Phases
<1>14. RunOK(r)'
  BY <1>12 DEF RunOK
<1>15. QED
  BY <1>13, <1>14 DEF RunInv, ImportReported, SyncReported, Ended

\* A row of the sync is posted.
LEMMA ChangePosted ==
  ASSUME Typing, Typing', Grows, NEW r \in Runs, RunInv(r), phase[r] = "posting",
         job[r].source = "plaid", queue[r] # << >>, UNCHANGED item,
         PostTransaction(r, Head(queue[r]), "posting")
  PROVE  RunInv(r)'
<1> DEFINE row == Head(queue[r])
           key == <<"plaid", row.id>>
<1>1. KeyOf(r, row) = key
  BY DEF KeyOf
<1>2. summary[r] \in Summary
  BY DEF RunInv, RunTyped
<1> HIDE DEF row, key
<1>4. CASE /\ \E field \in {"posted", "errors"} :
                /\ Count(r, field) /\ (field = "errors" => UNCHANGED entries)
                /\ field = "posted" => Record(r, row) \/ KeyOf(r, row) \in Keys
           /\ Record(r, row) \/ UNCHANGED entries
           /\ Drop(r) /\ phase' = [phase EXCEPT ![r] = "posting"]
           /\ UNCHANGED <<job, place, cache>>
  <2>1. /\ queue'[r] = Tail(queue[r]) /\ phase'[r] = "posting"
        /\ UNCHANGED <<known, job[r], place[r]>> /\ Keys \subseteq Keys'
    BY <1>4 DEF Typing, Drop, item, Grows
  <2>2. PICK field \in {"posted", "errors"} :
          /\ Count(r, field) /\ (field = "errors" => UNCHANGED entries)
          /\ field = "posted" => Record(r, row) \/ KeyOf(r, row) \in Keys
    BY <1>4
  <2>3. summary'[r] = Plus(summary[r], field)
    BY <2>2 DEF Typing, Count, Plus
  <2>4. /\ summary'[r] \in Summary /\ summary'[r].fetched = summary[r].fetched
        /\ summary'[r].posted + summary'[r].skipped + summary'[r].errors =
             summary[r].posted + summary[r].skipped + summary[r].errors + 1
        /\ summary[r].errors <= summary'[r].errors
        /\ field = "errors" => summary'[r].errors = summary[r].errors + 1
    <3>1. PICK s, u : s = summary[r] /\ u = summary'[r]
      OBVIOUS
    <3>2. s \in Summary /\ u = Plus(s, field)
      BY <1>2, <2>3, <3>1
    <3>3. /\ u \in Summary /\ u.fetched = s.fetched /\ s.fetched \in Nat
          /\ u.posted + u.skipped + u.errors = s.posted + s.skipped + s.errors + 1
          /\ s.errors <= u.errors /\ (field = "errors" => u.errors = s.errors + 1)
      BY <3>2, Answered
    <3>4. QED
      BY <3>1, <3>3, Zenon
  <2>6. key \in Keys' \/ summary'[r].errors = summary[r].errors + 1
    <3>1. CASE field = "errors"
      BY <2>4, <3>1
    <3>2. CASE field = "posted"
      <4>1. Record(r, row) \/ KeyOf(r, row) \in Keys
        BY <2>2, <3>2
      <4>2. CASE Record(r, row)
        <5>1. Keys' = Keys \union {KeyOf(r, row)}
          BY <4>2, Recorded
        <5>2. QED
          BY <1>1, <5>1
      <4>3. QED
        BY <1>1, <2>1, <4>1, <4>2
    <3>3. QED
      BY <3>1, <3>2
  <2>7. <<"plaid", Head(queue[r]).id>> \in Keys' \/ summary'[r].errors = summary[r].errors + 1
    BY <2>6 DEF key, row
  <2>8. summary'[r] \in Summary
    BY <2>4
  <2>9. QED
    BY <2>1, <2>4, <2>7, <2>8, RowLoaded
<1>5. CASE Record(r, row) /\ Fail(r)
  BY <1>5, RunFails
<1>6. QED
  <2>1. PostTransaction(r, row, "posting")
    BY DEF row
  <2>2. QED
    BY <1>4, <1>5, <2>1, Answers

\* A sync that has loaded all its rows owes what it reported, and no more.
LEMMA SyncFinished ==
  ASSUME Typing, NEW r \in Runs, RunInv(r), job[r].source = "plaid", EndSync(r)
  PROVE  RunInv(r)'
<1>1. /\ phase[r] = "posting" /\ queue[r] = << >> /\ phase'[r] = "done" /\ queue'[r] = << >>
      /\ job'[r] = job[r] /\ place'[r] = place[r] /\ summary'[r] = summary[r]
      /\ Keys' = Keys /\ known' = known
  BY DEF Typing, EndSync, Finish, ledger, item, Keys
<1>2. /\ Loading(r) /\ summary[r] \in Summary /\ place[r] \in Nat /\ known \in Nat
      /\ job[r].from \in Nat /\ job[r].from <= place[r] /\ place[r] <= known
      /\ summary[r].errors \in Nat /\ CutOff(r) \in Int
  BY <1>1, LoadingFacts
<1> DEFINE ids == {Changes[i].id : i \in Due(job[r].from, place[r])}
           updates == Cardinality(UpdatesIn(job[r].from, place[r]))
<1>3. Len(<< >>) = 0 /\ \A x : 1 .. 0 = {}
  OBVIOUS
<1>4. Owed(r) = Outside(Keys, "plaid", ids)
  BY <1>1, <1>3 DEF Owed, Outside
<1>5. updates \in Nat
  BY <1>2, OwedFinite, FS_CardinalityType
<1>6. /\ summary[r].fetched \in Nat /\ summary[r].posted \in Nat /\ summary[r].skipped \in Nat
  BY <1>2 DEF Summary
<1>7. summary[r].fetched = summary[r].posted + summary[r].skipped + summary[r].errors
  BY <1>1, <1>2, <1>3, <1>6 DEF Loading
<1>8. Cardinality(Outside(Keys, "plaid", ids)) <= summary[r].errors + (updates - summary[r].fetched)
  BY <1>2, <1>4 DEF Loading, CutOff
<1>9. updates > summary[r].fetched => job[r].limit = summary[r].fetched
  BY <1>2, <1>5, <1>6 DEF Loading, CutOff
<1>10. SyncReported(r)'
  BY <1>1, <1>7, <1>8, <1>9 DEF SyncReported, Ended, Missing, Outside, UpdatesIn
<1>11. RunTyped(r)'
  BY <1>1, <1>2, EmptySeq DEF RunTyped, Phases
<1>12. RunOK(r)'
  BY <1>1, <1>2 DEF RunOK
<1>13. QED
  BY <1>1, <1>10, <1>11, <1>12 DEF RunInv, ImportReported, Ended

\* A step of the sync keeps what is known of the run.
LEMMA SyncerSteps ==
  ASSUME Typing, Typing', Grows, NEW r \in Runs, RunInv(r), SyncStep(r), UNCHANGED collective
  PROVE  RunInv(r)'
<1>1. phase[r] # "idle" /\ job[r].source = "plaid"
  BY DEF SyncStep
<1>2. CASE FetchChanges(r)
  BY <1>2, ChangesFetched
<1>3. CASE GiveUp(r)
  BY <1>1, <1>3, RunFails DEF GiveUp
<1>4. CASE MapAll(r)
  BY <1>4, AllMapped
<1>5. CASE EndSync(r)
  BY <1>1, <1>5, SyncFinished
<1>6. CASE WarmCache(r, "posting") /\ UNCHANGED item
  <2>1. /\ phase[r] = "warming" /\ phase'[r] = "posting" /\ Keys' = Keys /\ known' = known
        /\ job'[r] = job[r] /\ place'[r] = place[r] /\ queue'[r] = queue[r]
        /\ summary'[r] = summary[r]
    BY <1>6 DEF Typing, WarmCache, ledger, item, Keys
  <2>2. Loading(r)
    BY <1>1, <2>1 DEF RunInv, RunOK
  <2>3. Owed(r)' = Owed(r) /\ CutOff(r)' = CutOff(r)
    BY <2>1 DEF Owed, CutOff
  <2>4. Loading(r)'
    BY <2>1, <2>2, <2>3 DEF Loading
  <2>5. RunTyped(r)'
    BY <2>1 DEF RunInv, RunTyped, Phases
  <2>6. RunOK(r)'
    BY <1>1, <2>1, <2>4 DEF RunOK
  <2>7. QED
    BY <2>1, <2>5, <2>6 DEF RunInv, ImportReported, SyncReported, Ended
<1>7. CASE EnsureAccount(r, Head(queue[r])) /\ UNCHANGED item
  <2>1. UNCHANGED more
    BY DEF collective
  <2>2. QED
    BY <1>7, <2>1, AccountEnsured
<1>8. CASE /\ phase[r] = "posting" /\ queue[r] # << >> /\ UNCHANGED item
           /\ PostTransaction(r, Head(queue[r]), "posting")
  BY <1>1, <1>8, ChangePosted
<1>9. QED
  BY <1>2, <1>3, <1>4, <1>5, <1>6, <1>7, <1>8 DEF SyncStep

-------------------------------------------------------------------------------
(* The whole. *)

Tables ==
  /\ DOMAIN job = Runs /\ DOMAIN phase = Runs /\ DOMAIN place = Runs
  /\ DOMAIN queue = Runs /\ DOMAIN summary = Runs /\ DOMAIN more = Runs

\* Nothing but r moves.
Only(r) == \A s \in Runs : s # r => Same(s)

\* A row that r may post is one it was given.
RowKnown(r, row) == job[r].source \in {"oc", "plaid"} /\ row \in Versions(job[r].source, row.id)

\* What a step of r writes to the ledger.
Writes(r) == entries' = entries \/ \E row : Record(r, row) /\ RowKnown(r, row)

\* What a step of r leaves alone.
Bounded(r) == Tables' /\ Only(r)

\* A run that ends early moves nothing else.
LEMMA FailBounded ==
  ASSUME Tables, NEW r \in Runs, Fail(r), UNCHANGED more
  PROVE  Bounded(r)
  BY DEF Tables, Fail, Bounded, Only, Same

\* Nor does one that resolves an account, and it writes no entry.
LEMMA EnsureBounded ==
  ASSUME Tables, NEW r \in Runs, NEW row, EnsureAccount(r, row), UNCHANGED more
  PROVE  Bounded(r) /\ Writes(r)
<1>1. \/ UNCHANGED <<job, phase, place, queue, summary>>
      \/ Fail(r)
  BY DEF EnsureAccount
<1>2. Bounded(r)
  <2>1. CASE UNCHANGED <<job, phase, place, queue, summary>>
    BY <2>1 DEF Tables, Bounded, Only, Same
  <2>2. QED
    BY <1>1, <2>1, FailBounded
<1>3. QED
  BY <1>2 DEF EnsureAccount, Writes

\* One that posts a row writes that row or nothing.
LEMMA PostBounded ==
  ASSUME Tables, NEW r \in Runs, NEW row, NEW next, PostTransaction(r, row, next), UNCHANGED more
  PROVE  Bounded(r) /\ (entries' = entries \/ Record(r, row))
<1>1. CASE /\ \E field \in {"posted", "errors"} :
                /\ Count(r, field) /\ (field = "errors" => UNCHANGED entries)
                /\ field = "posted" => Record(r, row) \/ KeyOf(r, row) \in Keys
           /\ Record(r, row) \/ UNCHANGED entries
           /\ Drop(r) /\ phase' = [phase EXCEPT ![r] = next]
           /\ UNCHANGED <<job, place, cache>>
  <2>1. PICK field : Count(r, field)
    BY <1>1
  <2>2. Bounded(r)
    BY <1>1, <2>1 DEF Tables, Bounded, Only, Same, Count, Drop
  <2>3. QED
    BY <1>1, <2>2
<1>2. CASE Record(r, row) /\ Fail(r)
  BY <1>2, FailBounded
<1>3. QED
  BY <1>1, <1>2, Answers

\* A run of the importer writes its own rows only, and moves nothing else.
LEMMA ImporterBounded ==
  ASSUME Tables, Typing, NEW r \in Runs, RunInv(r), ImportStep(r)
  PROVE  Bounded(r) /\ Writes(r)
<1>1. job[r].source = "oc"
  BY DEF ImportStep
<1>2. CASE WarmCache(r, "fetching") /\ UNCHANGED collective
  BY <1>2 DEF Tables, Bounded, Only, Same, WarmCache, collective, ledger, Writes
<1>3. CASE FetchPage(r)
  BY <1>3 DEF Tables, Bounded, Only, Same, FetchPage, ledger, Writes
<1>4. CASE TakeNode(r)
  <2>1. /\ job' = job /\ place' = place /\ more' = more /\ entries' = entries
        /\ phase' = phase \/ phase' = [phase EXCEPT ![r] = "posting"]
        /\ queue' = queue \/ queue' = [queue EXCEPT ![r] = Tail(@)]
    BY <1>4 DEF TakeNode, Drop, ledger, collective
  <2>2. DOMAIN summary' = Runs /\ \A s \in Runs : s # r => summary'[s] = summary[s]
    BY <1>4 DEF Tables, TakeNode, Count
  <2>3. QED
    BY <2>1, <2>2 DEF Tables, Bounded, Only, Same, Writes
<1>5. CASE EndImport(r)
  BY <1>5 DEF Tables, Bounded, Only, Same, EndImport, Finish, ledger, collective, Writes
<1>6. CASE /\ phase[r] = "posting" /\ UNCHANGED collective
           /\ EnsureAccount(r, MapNode(Head(queue[r])))
  <2>1. UNCHANGED more
    BY <1>6 DEF collective
  <2>2. QED
    BY <1>6, <2>1, EnsureBounded
<1>7. CASE /\ phase[r] = "posting" /\ UNCHANGED collective
           /\ PostTransaction(r, MapNode(Head(queue[r])), "fetching")
  <2> DEFINE node == Head(queue[r])
             row == MapNode(node)
  <2>1. UNCHANGED more
    BY <1>7 DEF collective
  <2>2. Bounded(r) /\ (entries' = entries \/ Record(r, row))
    BY <1>7, <2>1, PostBounded
  <2>3. /\ Importing(r) /\ queue[r] \in Seq(Rows) /\ Dealt(r) \in Nat /\ listed \in Nat
    BY <1>1, <1>7, ImporterFacts
  <2>4. queue[r] # << >> /\ ~NodeSkipped(node)
    BY <1>7, <2>3 DEF Importing
  <2>5. node = Nodes[Dealt(r) + 1] /\ Dealt(r) + 1 \in 1 .. listed
    <3>1. Len(queue[r]) \in Nat \ {0} /\ node = queue[r][1]
      BY <2>3, <2>4, QueueFacts
    <3>2. 1 \in 1 .. Len(queue[r]) /\ Dealt(r) + Len(queue[r]) <= listed
      BY <2>3, <3>1 DEF Importing
    <3>3. queue[r][1] = Nodes[Dealt(r) + 1]
      BY <2>3, <3>2 DEF Importing
    <3>4. Dealt(r) + 1 \in 1 .. listed
      BY <2>3, <3>1, <3>2
    <3>5. QED
      BY <3>1, <3>3, <3>4
  <2>6. row.id = node.id
    BY DEF MapNode
  <2> HIDE DEF node
  <2>7. row \in Versions("oc", row.id)
    <3>1. row = MapNode(Nodes[Dealt(r) + 1]) /\ Nodes[Dealt(r) + 1].id = row.id
          /\ ~NodeSkipped(Nodes[Dealt(r) + 1])
      BY <2>4, <2>5, <2>6
    <3> HIDE DEF row
    <3>2. QED
      BY <2>5, <3>1 DEF Versions
  <2> HIDE DEF row
  <2>8. QED
    BY <1>1, <2>2, <2>7 DEF Writes, RowKnown
<1>8. QED
  BY <1>2, <1>3, <1>4, <1>5, <1>6, <1>7 DEF ImportStep

\* A sync writes its own rows only, and moves nothing else.
LEMMA SyncerBounded ==
  ASSUME Tables, Typing, NEW r \in Runs, RunInv(r), SyncStep(r), UNCHANGED collective
  PROVE  Bounded(r) /\ Writes(r)
<1>1. phase[r] # "idle" /\ job[r].source = "plaid" /\ UNCHANGED more
  BY DEF SyncStep, collective
<1>2. CASE FetchChanges(r)
  BY <1>1, <1>2 DEF Tables, Bounded, Only, Same, FetchChanges, Collect, ledger, Writes
<1>3. CASE GiveUp(r)
  BY <1>1, <1>3, FailBounded DEF GiveUp, ledger, Writes
<1>4. CASE MapAll(r)
  <2>1. /\ job' = job /\ place' = place /\ more' = more /\ entries' = entries
        /\ DOMAIN phase' = Runs /\ DOMAIN queue' = Runs /\ DOMAIN summary' = Runs
    BY <1>1, <1>4 DEF Tables, MapAll, ledger
  <2>2. \A s \in Runs : s # r => /\ phase'[s] = phase[s] /\ queue'[s] = queue[s]
                                 /\ summary'[s] = summary[s]
    BY <1>4 DEF Tables, MapAll
  <2>3. QED
    BY <2>1, <2>2 DEF Tables, Bounded, Only, Same, Writes
<1>5. CASE EndSync(r)
  BY <1>1, <1>5 DEF Tables, Bounded, Only, Same, EndSync, Finish, ledger, Writes
<1>6. CASE WarmCache(r, "posting") /\ UNCHANGED item
  BY <1>1, <1>6 DEF Tables, Bounded, Only, Same, WarmCache, ledger, Writes
<1>7. CASE EnsureAccount(r, Head(queue[r])) /\ UNCHANGED item
  BY <1>1, <1>7, EnsureBounded
<1>8. CASE /\ phase[r] = "posting" /\ queue[r] # << >> /\ UNCHANGED item
           /\ PostTransaction(r, Head(queue[r]), "posting")
  <2> DEFINE row == Head(queue[r])
  <2>1. Bounded(r) /\ (entries' = entries \/ Record(r, row))
    BY <1>1, <1>8, PostBounded
  <2>2. Loading(r) /\ queue[r] \in Seq(Rows)
    BY <1>1, <1>8, LoadingFacts
  <2>3. Len(queue[r]) \in Nat \ {0} /\ row = queue[r][1]
    BY <1>8, <2>2, QueueFacts
  <2>4. PICK j \in 1 .. known : /\ IsUpdate(Changes[j]) /\ ~ChangeSkipped(Changes[j])
                                /\ row = MapChange(Changes[j])
    <3>1. 1 \in 1 .. Len(queue[r])
      BY <2>3
    <3>2. QED
      BY <2>2, <2>3, <3>1 DEF Loading
  <2>5. row.id = Changes[j].id
    BY <2>4 DEF MapChange
  <2> HIDE DEF row
  <2>6. row \in Versions("plaid", row.id)
    BY <2>4, <2>5 DEF Versions
  <2>7. QED
    BY <1>1, <2>1, <2>6 DEF Writes, RowKnown
<1>9. QED
  BY <1>2, <1>3, <1>4, <1>5, <1>6, <1>7, <1>8 DEF SyncStep

\* What every step does: at most one run moves, and the ledger and the upstreams grow.
Moves ==
  /\ Tables' /\ listed' \in listed .. Len(Nodes) /\ known' \in known .. Len(Changes)
  /\ ~ready' => known' = 0
  /\ \/ entries' = entries /\ \A s \in Runs : Same(s)
     \/ \E r \in Runs : Only(r) /\ Writes(r)

\* The upstreams, and what the ledger has of accounts, move under the runs.
LEMMA QuietMoves ==
  ASSUME Typing, UNCHANGED <<entries, job, phase, place, queue, summary, more>>,
         listed' \in listed .. Len(Nodes), known' \in known .. Len(Changes),
         ~ready' => known' = 0
  PROVE  Moves
  BY DEF Typing, Moves, Tables, Same

\* A step that moves one run's tables only, and no upstream.
LEMMA RunMoves ==
  ASSUME Typing, NEW r \in Runs, Bounded(r), Writes(r), UNCHANGED <<listed, known, ready>>
  PROVE  Moves
<1>1. listed' \in listed .. Len(Nodes) /\ known' \in known .. Len(Changes) /\ (~ready' => known' = 0)
  BY NodesFacts DEF Typing
<1>2. QED
  BY <1>1 DEF Moves, Bounded

\* A run that begins.
LEMMA StartMoves ==
  ASSUME Typing, NEW r \in Runs, Start(r)
  PROVE  Moves
<1>1. Tables
  BY DEF Typing, Tables
<1>2. PICK option \in Options :
        \/ StartImport(r, option.limit, option.dry) /\ UNCHANGED item
        \/ \E from \in 0 .. Len(Changes) :
             StartSync(r, from, option.limit, option.dry) /\ UNCHANGED collective
  BY DEF Start
<1>3. CASE StartImport(r, option.limit, option.dry) /\ UNCHANGED item
  <2>1. Bounded(r) /\ Writes(r) /\ UNCHANGED <<listed, known, ready>>
    BY <1>1, <1>3 DEF StartImport, Tables, Bounded, Only, Same, Writes, ledger, collective, item
  <2>2. QED
    BY <2>1, RunMoves
<1>4. CASE \E from \in 0 .. Len(Changes) :
             StartSync(r, from, option.limit, option.dry) /\ UNCHANGED collective
  <2>1. Bounded(r) /\ Writes(r) /\ UNCHANGED <<listed, known, ready>>
    BY <1>1, <1>4 DEF StartSync, Tables, Bounded, Only, Same, Writes, ledger, collective, item
  <2>2. QED
    BY <2>1, RunMoves
<1>5. QED
  BY <1>2, <1>3, <1>4

\* Who moves the upstreams: nobody, in a run's step.
LEMMA StepHolds ==
  ASSUME Typing, NEW r \in Runs, RunInv(r), Step(r)
  PROVE  UNCHANGED <<listed, known, ready>>
<1>1. CASE ImportStep(r) /\ UNCHANGED item
  <2>1. UNCHANGED <<known, ready>>
    BY <1>1 DEF item
  <2>2. UNCHANGED listed
    BY <1>1 DEF ImportStep, collective, FetchPage, TakeNode, EndImport
  <2>3. QED
    BY <2>1, <2>2
<1>2. CASE SyncStep(r) /\ UNCHANGED collective
  <2>1. UNCHANGED item
    BY <1>2 DEF SyncStep, FetchChanges, Collect, GiveUp, MapAll, EndSync
  <2>2. QED
    BY <1>2, <2>1 DEF item, collective
<1>3. QED
  BY <1>1, <1>2 DEF Step

\* A run's own step.
LEMMA StepMoves ==
  ASSUME Typing, NEW r \in Runs, RunInv(r), Step(r)
  PROVE  Moves
<1>1. Tables
  BY DEF Typing, Tables
<1>2. Bounded(r) /\ Writes(r)
  BY <1>1, ImporterBounded, SyncerBounded DEF Step
<1>3. QED
  BY <1>2, StepHolds, RunMoves

\* Every step of the connectors is such a move.
LEMMA AnyMoves ==
  ASSUME Inv, [Next]_vars
  PROVE  Moves
<1>1. Typing /\ Tables /\ \A r \in Runs : RunInv(r)
  BY DEF Inv, Typing, Tables
<1>2. /\ listed \in Nat /\ listed <= Len(Nodes) /\ known \in Nat /\ known <= Len(Changes)
      /\ Len(Nodes) \in Nat /\ Len(Changes) \in Nat /\ (~ready => known = 0)
  BY <1>1, NodesFacts DEF Typing
<1>3. CASE UNCHANGED vars
  <2>1. /\ UNCHANGED <<entries, job, phase, place, queue, summary, more>>
        /\ UNCHANGED <<listed, known, ready>>
    BY <1>3 DEF vars, ledger, runs, collective, item
  <2>2. QED
    BY <1>1, <1>2, <2>1, QuietMoves
<1>4. CASE Started # {} /\ Mirrored("oc") /\ Publish /\ UNCHANGED <<ledger, runs, item>>
  <2>1. /\ UNCHANGED <<entries, job, phase, place, queue, summary, more>>
        /\ UNCHANGED <<known, ready>> /\ listed' = listed + 1 /\ listed < Len(Nodes)
    BY <1>4 DEF Publish, ledger, runs, item
  <2>2. listed' \in listed .. Len(Nodes) /\ known' \in known .. Len(Changes)
    BY <1>2, <2>1
  <2>3. QED
    BY <1>1, <1>2, <2>1, <2>2, QuietMoves
<1>5. CASE Started # {} /\ Mirrored("plaid") /\ Pull /\ UNCHANGED <<ledger, runs, collective>>
  <2>1. /\ UNCHANGED <<entries, job, phase, place, queue, summary, more>>
        /\ UNCHANGED listed /\ ready'
    BY <1>5 DEF Pull, ledger, runs, collective
  <2>2. listed' \in listed .. Len(Nodes) /\ known' \in known .. Len(Changes)
    BY <1>2, <1>5, <2>1 DEF Pull
  <2>3. QED
    BY <1>1, <2>1, <2>2, QuietMoves
<1>6. CASE \E x \in Closable : Close(x) /\ UNCHANGED <<collective, item>>
  <2>1. /\ UNCHANGED <<entries, job, phase, place, queue, summary, more>>
        /\ UNCHANGED <<listed, known, ready>>
    BY <1>6 DEF Close, runs, collective, item
  <2>2. QED
    BY <1>1, <1>2, <2>1, QuietMoves
<1>7. ASSUME NEW r \in Runs, Abort(r) /\ UNCHANGED <<collective, item>> PROVE Moves
  <2>1. Fail(r) /\ UNCHANGED <<more, listed, known, ready, entries>>
    BY <1>7 DEF Abort, ledger, collective, item
  <2>2. Bounded(r) /\ Writes(r)
    BY <1>1, <2>1, FailBounded DEF Writes
  <2>3. QED
    BY <1>1, <2>1, <2>2, RunMoves
<1>8. ASSUME NEW r \in Runs, Start(r) PROVE Moves
  BY <1>1, <1>8, StartMoves
<1>9. ASSUME NEW r \in Runs, Step(r) PROVE Moves
  BY <1>1, <1>9, StepMoves
<1>10. ASSUME NEW r \in Runs, Expire(r) /\ UNCHANGED collective PROVE Moves
  <2>1. /\ UNCHANGED <<entries, job, phase, place, queue, summary, more>>
        /\ UNCHANGED <<listed, known, ready>>
    BY <1>10 DEF Expire, ledger, runs, collective
  <2>2. QED
    BY <1>1, <1>2, <2>1, QuietMoves
<1>11. QED
  BY <1>3, <1>4, <1>5, <1>6, <1>7, <1>8, <1>9, <1>10 DEF Next, Environment, Upstream

\* The tables stay, and nothing shrinks.
LEMMA TypingKept ==
  ASSUME Typing, Moves
  PROVE  Typing' /\ Grows
<1>1. /\ listed \in Nat /\ known \in Nat /\ Len(Nodes) \in Nat /\ Len(Changes) \in Nat
  BY NodesFacts DEF Typing
<1>2. /\ listed' \in 0 .. Len(Nodes) /\ known' \in 0 .. Len(Changes)
      /\ listed <= listed' /\ known <= known'
  BY <1>1 DEF Moves
<1>3. (\E T : entries' \in Seq(T)) /\ Keys \subseteq Keys'
  <2>1. CASE entries' = entries
    BY <2>1 DEF Typing, Keys
  <2>2. CASE \E r \in Runs : \E row : Record(r, row)
    BY <2>2, Recorded
  <2>3. QED
    BY <2>1, <2>2 DEF Moves, Writes
<1>4. QED
  BY <1>2, <1>3 DEF Typing, Grows, Moves, Tables

\* The versions there are while so many rows of each upstream are known.
VersionsUpTo(nodes, changes, source, id) ==
  IF source = "oc"
  THEN {MapNode(Nodes[i]) : i \in {i \in 1 .. nodes : Nodes[i].id = id /\ ~NodeSkipped(Nodes[i])}}
  ELSE {MapChange(Changes[i]) : i \in {i \in 1 .. changes : /\ Changes[i].id = id
                                                           /\ IsUpdate(Changes[i])
                                                           /\ ~ChangeSkipped(Changes[i])}}

\* An entry is one of these versions of its row.
Mirrors(e, nodes, changes) ==
  /\ e.key \in {<<"oc", e.row>>, <<"plaid", e.row>>}
  /\ \E version \in VersionsUpTo(nodes, changes, e.key[1], e.row) :
       version.debit = e.debit /\ version.credit = e.credit /\ version.amount = e.amount

\* Versions are never withdrawn.
LEMMA VersionsGrow ==
  ASSUME NEW m \in Nat, NEW n \in Nat, m <= n, NEW k \in Nat, NEW l \in Nat, k <= l,
         NEW source, NEW id
  PROVE  VersionsUpTo(m, k, source, id) \subseteq VersionsUpTo(n, l, source, id)
<1>1. 1 .. m \subseteq 1 .. n /\ 1 .. k \subseteq 1 .. l
  OBVIOUS
<1>2. QED
  BY <1>1 DEF VersionsUpTo

\* The entries go on being versions of their rows, each under a key of its own.
LEMMA EntriesKept ==
  ASSUME Typing, Typing', Grows, KeyedByRow, Moves
  PROVE  KeyedByRow'
<1>0. /\ listed \in Nat /\ known \in Nat /\ listed' \in Nat /\ known' \in Nat
      /\ listed <= listed' /\ known <= known'
  BY NodesFacts DEF Typing, Grows
<1>1. \A k \in DOMAIN entries : Mirrors(entries[k], listed', known')
  <2>1. \A k \in DOMAIN entries : Mirrors(entries[k], listed, known)
    BY DEF KeyedByRow, Mirrors, Versions, VersionsUpTo
  <2>2. ASSUME NEW e, Mirrors(e, listed, known) PROVE Mirrors(e, listed', known')
    <3>1. VersionsUpTo(listed, known, e.key[1], e.row)
            \subseteq VersionsUpTo(listed', known', e.key[1], e.row)
      BY <1>0, VersionsGrow
    <3>2. QED
      BY <2>2, <3>1 DEF Mirrors
  <2>3. QED
    BY <2>1, <2>2
<1>2. \A j, k \in DOMAIN entries : entries[j].key = entries[k].key => j = k
  BY DEF KeyedByRow
<1>3. \A k \in DOMAIN entries' : Mirrors(entries'[k], listed', known')
  <2>1. CASE entries' = entries
    BY <1>1, <2>1
  <2>2. CASE \E r \in Runs : \E row : Record(r, row) /\ RowKnown(r, row)
    <3>1. PICK r, row : r \in Runs /\ Record(r, row) /\ RowKnown(r, row)
      BY <2>2
    <3>2. PICK source, e :
            /\ source = job[r].source
            /\ e = [key |-> <<source, row.id>>, row |-> row.id, debit |-> row.debit,
                    credit |-> row.credit, amount |-> row.amount]
      OBVIOUS
    <3>3. /\ Len(entries) \in Nat /\ DOMAIN entries = 1 .. Len(entries)
          /\ DOMAIN entries' = 1 .. (Len(entries) + 1)
          /\ \A k \in DOMAIN entries : entries'[k] = entries[k]
          /\ entries'[Len(entries) + 1] = e
      BY <3>1, <3>2, Recorded DEF KeyOf
    <3>4. source \in {"oc", "plaid"} /\ row \in VersionsUpTo(listed, known, source, row.id)
      BY <3>1, <3>2 DEF RowKnown, Versions, VersionsUpTo
    <3>5. row \in VersionsUpTo(listed', known', source, row.id)
      BY <1>0, <3>4, VersionsGrow
    <3>6. Mirrors(e, listed', known')
      <4>1. e.key = <<source, row.id>> /\ e.key[1] = source /\ e.row = row.id
        BY <3>2
      <4>2. e.debit = row.debit /\ e.credit = row.credit /\ e.amount = row.amount
        BY <3>2
      <4>3. e.key \in {<<"oc", e.row>>, <<"plaid", e.row>>}
        BY <3>4, <4>1
      <4>4. row \in VersionsUpTo(listed', known', e.key[1], e.row)
        BY <3>5, <4>1
      <4>5. QED
        BY <4>2, <4>3, <4>4 DEF Mirrors
    <3>7. \A k \in DOMAIN entries' : k \in DOMAIN entries \/ k = Len(entries) + 1
      BY <3>3
    <3>8. QED
      BY <1>1, <3>3, <3>6, <3>7
  <2>3. QED
    BY <2>1, <2>2 DEF Moves, Writes
<1>4. \A j, k \in DOMAIN entries' : entries'[j].key = entries'[k].key => j = k
  <2>1. CASE entries' = entries
    BY <1>2, <2>1
  <2>2. CASE \E r \in Runs : \E row : Record(r, row)
    <3>1. PICK r, row : r \in Runs /\ Record(r, row)
      BY <2>2
    <3>2. /\ Len(entries) \in Nat /\ DOMAIN entries = 1 .. Len(entries)
          /\ DOMAIN entries' = 1 .. (Len(entries) + 1)
          /\ \A k \in DOMAIN entries : entries'[k] = entries[k]
          /\ entries'[Len(entries) + 1].key = KeyOf(r, row)
          /\ KeyOf(r, row) \notin Keys
      <4>1. /\ Len(entries) \in Nat /\ DOMAIN entries = 1 .. Len(entries)
            /\ DOMAIN entries' = 1 .. (Len(entries) + 1)
            /\ \A k \in DOMAIN entries : entries'[k] = entries[k]
            /\ entries'[Len(entries) + 1] =
                 [key |-> KeyOf(r, row), row |-> row.id, debit |-> row.debit,
                  credit |-> row.credit, amount |-> row.amount]
            /\ KeyOf(r, row) \notin Keys
        BY <3>1, Recorded
      <4>2. QED
        BY <4>1
    <3>3. \A k \in DOMAIN entries' : k \in DOMAIN entries \/ k = Len(entries) + 1
      BY <3>2
    <3>4. \A k \in DOMAIN entries : entries'[k].key # KeyOf(r, row)
      BY <3>2 DEF Keys
    <3>5. QED
      BY <1>2, <3>2, <3>3, <3>4
  <2>3. QED
    BY <2>1, <2>2 DEF Moves, Writes
<1>5. \A k \in DOMAIN entries' :
        /\ entries'[k].key \in {<<"oc", entries'[k].row>>, <<"plaid", entries'[k].row>>}
        /\ \E version \in Versions(entries[k].key[1], entries[k].row)' :
             version.debit = entries'[k].debit /\ version.credit = entries'[k].credit
               /\ version.amount = entries'[k].amount
  BY <1>3 DEF Mirrors, Versions, VersionsUpTo
<1>6. QED
  BY <1>4, <1>5 DEF KeyedByRow

-------------------------------------------------------------------------------
(* The theorems. *)

\* What every run keeps to, of itself.
LEMMA RunsKept ==
  ASSUME Inv, [Next]_vars, Typing', Grows, NEW r \in Runs
  PROVE  RunInv(r)'
<1>1. Typing /\ RunInv(r) /\ \A s \in Runs : RunInv(s)
  BY DEF Inv
<1>2. CASE Same(r)
  BY <1>1, <1>2, KeptRun
<1>3. CASE Abort(r) /\ UNCHANGED <<collective, item>>
  <2>1. phase[r] # "idle" /\ Fail(r)
    BY <1>3 DEF Abort
  <2>2. QED
    BY <1>1, <2>1, RunFails
<1>4. CASE Start(r)
  <2>1. PICK option \in Options :
          \/ StartImport(r, option.limit, option.dry)
          \/ \E from \in 0 .. Len(Changes) : StartSync(r, from, option.limit, option.dry)
    BY <1>4 DEF Start
  <2>2. QED
    BY <1>1, <2>1, ImportStarts, SyncStarts
<1>5. CASE Step(r)
  BY <1>1, <1>5, ImporterSteps, SyncerSteps DEF Step
<1>6. Same(r) \/ (Abort(r) /\ UNCHANGED <<collective, item>>) \/ Start(r) \/ Step(r)
  <2>1. Tables
    BY <1>1 DEF Typing, Tables
  <2>2. CASE UNCHANGED <<job, phase, place, queue, summary, more>>
    BY <2>2 DEF Same
  <2>3. CASE UNCHANGED vars \/ Upstream \/ \E x \in Closable : Close(x) /\ UNCHANGED <<collective, item>>
    <3>1. UNCHANGED <<job, phase, place, queue, summary, more>>
      BY <2>3 DEF vars, Upstream, Publish, Pull, Close, runs, collective
    <3>2. QED
      BY <2>2, <3>1
  <2>4. ASSUME NEW s \in Runs, s # r,
               (Abort(s) /\ UNCHANGED <<collective, item>>) \/ Start(s) \/ Step(s)
        PROVE  Same(r)
    <3>1. RunInv(s)
      BY <1>1
    <3>2. CASE Abort(s) /\ UNCHANGED <<collective, item>>
      BY <2>1, <2>4, <3>2, FailBounded DEF Abort, collective, Bounded, Only
    <3>3. CASE Start(s)
      <4>1. PICK option \in Options :
              \/ StartImport(s, option.limit, option.dry)
              \/ \E from \in 0 .. Len(Changes) :
                   StartSync(s, from, option.limit, option.dry) /\ UNCHANGED collective
        BY <3>3 DEF Start
      <4>2. CASE StartImport(s, option.limit, option.dry)
        BY <2>1, <2>4, <4>2 DEF StartImport, collective, Tables, Same
      <4>3. CASE \E from \in 0 .. Len(Changes) :
                   StartSync(s, from, option.limit, option.dry) /\ UNCHANGED collective
        BY <2>1, <2>4, <4>3 DEF StartSync, collective, Tables, Same
      <4>4. QED
        BY <4>1, <4>2, <4>3
    <3>4. CASE Step(s)
      <4>1. Bounded(s)
        BY <1>1, <2>1, <3>1, <3>4, ImporterBounded, SyncerBounded DEF Step
      <4>2. QED
        BY <2>4, <4>1 DEF Bounded, Only
    <3>5. QED
      BY <2>4, <3>2, <3>3, <3>4
  <2>5. ASSUME NEW s \in Runs, Expire(s) /\ UNCHANGED collective PROVE Same(r)
    BY <2>5 DEF Expire, runs, collective, Same
  <2>6. QED
    BY <2>3, <2>2, <2>4, <2>5 DEF Next, Environment, Upstream, Same
<1>7. QED
  BY <1>2, <1>3, <1>4, <1>5, <1>6

\* Before any run has begun.
LEMMA InvInit ==
  ASSUME Init
  PROVE  Inv
<1>1. /\ entries = << >> /\ listed = Min({1, Len(Nodes)}) /\ known = 0 /\ ready = FALSE
      /\ phase = [r \in Runs |-> "idle"] /\ place = [r \in Runs |-> 0]
      /\ queue = [r \in Runs |-> << >>] /\ summary = [r \in Runs |-> ZeroSummary]
      /\ job = [r \in Runs |-> NoJob] /\ more = [r \in Runs |-> TRUE]
  BY DEF Init, LoaderInit, CollectiveInit, ItemInit
<1>2. listed \in 0 .. Len(Nodes)
  <2>1. Len(Nodes) \in Nat
    BY NodesFacts
  <2>2. listed = IF 1 <= Len(Nodes) THEN 1 ELSE Len(Nodes)
    BY <1>1, <2>1, MinOfTwo
  <2>3. QED
    BY <2>1, <2>2
<1>3. entries \in Seq({})
  BY <1>1, EmptySeq
<1>4. Typing
  BY <1>1, <1>2, <1>3, NodesFacts DEF Typing
<1>5. KeyedByRow
  <2>1. DOMAIN entries = {}
    BY <1>1
  <2>2. QED
    BY <2>1 DEF KeyedByRow
<1>6. ASSUME NEW r \in Runs PROVE RunInv(r)
  <2>1. /\ phase[r] = "idle" /\ place[r] = 0 /\ queue[r] = << >>
        /\ summary[r] = ZeroSummary /\ more[r]
    BY <1>1
  <2>2. RunTyped(r)
    BY <2>1, EmptySeq DEF RunTyped, Phases, ZeroSummary, Summary
  <2>3. RunOK(r)
    BY <2>1 DEF RunOK
  <2>4. QED
    BY <2>1, <2>2, <2>3 DEF RunInv, ImportReported, SyncReported, Ended
<1>7. QED
  BY <1>4, <1>5, <1>6 DEF Inv

\* What the connectors keep, whatever their runs do and are done to.
THEOREM ConnectorInvariant == Spec => []Inv
<1>1. Init => Inv
  BY InvInit
<1>2. Inv /\ [Next]_vars => Inv'
  <2>1. SUFFICES ASSUME Inv, [Next]_vars PROVE Inv'
    OBVIOUS
  <2>2. Moves
    BY <2>1, AnyMoves
  <2>3. Typing' /\ Grows
    BY <2>1, <2>2, TypingKept DEF Inv
  <2>4. KeyedByRow'
    BY <2>1, <2>2, <2>3, EntriesKept DEF Inv
  <2>5. \A r \in Runs : RunInv(r)'
    BY <2>1, <2>3, RunsKept
  <2>6. QED
    BY <2>3, <2>4, <2>5 DEF Inv
<1>3. QED
  BY <1>1, <1>2, PTL DEF Spec

\* The ledger has each upstream row once, as one delivered version of it, whatever
\* runs overlap, fail and are repeated: the idempotency key of a posting is the
\* upstream id, so a replay posts nothing.
THEOREM RowsMirroredOnce == Spec => []MirrorsRowsOnce
<1>1. Inv => MirrorsRowsOnce
  <2>1. SUFFICES ASSUME KeyedByRow PROVE MirrorsRowsOnce
    BY DEF Inv
  <2>2. ASSUME NEW j \in DOMAIN entries, NEW k \in DOMAIN entries,
               entries[j].key[1] = entries[k].key[1], entries[j].row = entries[k].row
        PROVE  j = k
    <3>1. /\ entries[j].key \in {<<"oc", entries[j].row>>, <<"plaid", entries[j].row>>}
          /\ entries[k].key \in {<<"oc", entries[k].row>>, <<"plaid", entries[k].row>>}
      BY <2>1 DEF KeyedByRow
    <3>2. entries[j].key = entries[k].key
      BY <2>2, <3>1
    <3>3. QED
      BY <2>1, <3>2 DEF KeyedByRow
  <2>3. QED
    BY <2>1, <2>2 DEF MirrorsRowsOnce, KeyedByRow
<1>2. QED
  BY <1>1, ConnectorInvariant, PTL

\* What an import reports is so: no row it read is missing from the ledger that it
\* did not count as an error, and without --max it read at the least what there was
\* when it began.
THEOREM ImportsAreComplete == Spec => []CompleteMirror
<1>1. Inv => CompleteMirror
  BY DEF Inv, RunInv, ImportReported, CompleteMirror
<1>2. QED
  BY <1>1, ConnectorInvariant, PTL

\* The cursor a sync returns loses nothing in silence: what changed before it and is
\* not in the ledger was reported as an error, or cut off by --max, which shows.
THEOREM CursorsLoseNothing == Spec => []CursorLosesNothing
<1>1. Inv => CursorLosesNothing
  BY DEF Inv, RunInv, SyncReported, CursorLosesNothing
<1>2. QED
  BY <1>1, ConnectorInvariant, PTL
===============================================================================
