------------------------------ MODULE BatchProofs ------------------------------
(***************************************************************************)
(* That a batch is whole, its keys are used once, its caller is told the   *)
(* truth and it takes effect in its COMMIT, for every set of calls.  None  *)
(* of these is inductive: IInv adds what a running batch knows of the items *)
(* it has dealt with, and that keys are unique among the uncommitted rows   *)
(* too, those of other batches included.                                   *)
(***************************************************************************)
EXTENDS BatchProperties, SequenceTheorems, TLAPS

Running == {"lookup", "validate", "insert", "lock", "commit"}

\* Every variable but the locks holds a value of its kind.
Typing ==
  /\ journal \subseteq Batches \X Nat
  /\ pc \in [Batches -> PC]
  /\ input \in [Batches -> Inputs \union {NoInput}]
  /\ at \in [Batches -> Nat \ {0}]
  /\ written \in [Batches -> SUBSET Nat]
  /\ results \in [Batches -> Seq(ItemStatus)]
  /\ outcome \in [Batches -> Outcome]

\* What a call is doing tells what it may have written and committed.
Phases ==
  /\ \A b \in Batches :
       /\ pc[b] = "idle" <=> input[b] = NoInput
       /\ pc[b] = "idle" => at[b] = 1 /\ results[b] = <<>>
       /\ pc[b] \notin Running => written[b] = {}
       /\ outcome[b] = "answered" => pc[b] = "done"
  /\ \A x \in journal : pc[x[1]] \in {"reload", "done"} /\ x[2] \in DOMAIN Items(x[1])

\* The rows a batch can see: the committed ones and its own.
Seen(b) == journal \union Own(b)

UniqueKeys ==
  \A b, s \in Batches : \A x \in Seen(b), y \in Seen(s) : KeyOf(x) = KeyOf(y) => x = y

\* The key of item i is in the journal or was inserted for an earlier item.
Taken(b, i) ==
  \/ \E x \in journal : KeyOf(x) = Items(b)[i].key
  \/ \E j \in written[b] : j < i /\ Items(b)[j].key = Items(b)[i].key

\* The result of item i says what the batch did with it.
DealtWith(b, i) ==
  \/ results[b][i] = "posted" /\ i \in written[b]
  \/ results[b][i] = "replayed" /\ i \notin written[b] /\ Taken(b, i)
  \/ results[b][i] = "error" /\ i \notin written[b] /\ Items(b)[i].wrong /\ ~input[b].atomic

Progress(b) ==
  pc[b] \in Running =>
    /\ at[b] <= Len(Items(b)) + 1
    /\ pc[b] = "commit" <=> at[b] = Len(Items(b)) + 1
    /\ Len(results[b]) = at[b] - 1
    /\ \A i \in 1 .. (at[b] - 1) : DealtWith(b, i)
    /\ \A i \in written[b] : /\ i \in 1 .. at[b] /\ i \in DOMAIN Items(b)
                             /\ ~Items(b)[i].wrong
    /\ pc[b] = "lock" <=> at[b] \in written[b]
    /\ pc[b] = "insert" => ~This(b).wrong
    /\ pc[b] \in {"validate", "insert"} => \A i \in written[b] : Items(b)[i].key # This(b).key

Settled(b) ==
  pc[b] = "reload" \/ outcome[b] = "answered" =>
    /\ Len(results[b]) = Len(Items(b))
    /\ \A i \in DOMAIN results[b] :
         /\ results[b][i] = "posted" <=> <<b, i>> \in journal
         /\ results[b][i] = "replayed" => \E x \in journal : KeyOf(x) = Items(b)[i].key

IInv ==
  /\ Typing /\ Phases /\ UniqueKeys /\ AtomicWhole
  /\ \A b \in Batches : Progress(b) /\ Settled(b)

-------------------------------------------------------------------------------

\* The items of a call are a sequence of items, and it is atomic or not.
LEMMA InputType ==
  ASSUME Typing, NEW b \in Batches, input[b] # NoInput
  PROVE  /\ input[b] \in BatchInput
         /\ Items(b) \in Seq(Item)
         /\ Len(Items(b)) \in Nat
         /\ DOMAIN Items(b) = 1 .. Len(Items(b))
         /\ input[b].atomic \in BOOLEAN
         /\ \A i \in DOMAIN Items(b) : Items(b)[i].wrong \in BOOLEAN
<1>1. input[b] \in BatchInput
  BY BatchAssumption DEF Typing
<1>2. Items(b) \in Seq(Item) /\ input[b].atomic \in BOOLEAN
  BY <1>1 DEF BatchInput, Items
<1>3. \A i \in DOMAIN Items(b) : Items(b)[i] \in Item
  BY <1>2
<1>4. \A i \in DOMAIN Items(b) : Items(b)[i].wrong \in BOOLEAN
  BY <1>3 DEF Item
<1>5. QED
  BY <1>1, <1>2, <1>4

\* A batch sees the journal and what it wrote; both are pairs of a batch and a number.
LEMMA SeenType ==
  ASSUME Typing, NEW b \in Batches, NEW x \in Seen(b)
  PROVE  /\ x[1] \in Batches /\ x[2] \in Nat /\ x = <<x[1], x[2]>>
         /\ x \in journal \/ (x[1] = b /\ x[2] \in written[b])
  BY DEF Typing, Seen, Own

\* No call has been made.
LEMMA InitInv == Init => IInv
<1>1. SUFFICES ASSUME Init PROVE IInv
  OBVIOUS
<1>2. Typing /\ Phases
  BY <1>1, BatchAssumption DEF Init, Typing, Phases, PC, Outcome, Running
<1>3. \A b \in Batches : Seen(b) = {}
  BY <1>1 DEF Init, Seen, Own
<1>4. UniqueKeys /\ AtomicWhole
  BY <1>1, <1>3 DEF Init, UniqueKeys, AtomicWhole
<1>5. \A b \in Batches : Progress(b) /\ Settled(b)
  BY <1>1 DEF Init, Progress, Settled, Running
<1>6. QED
  BY <1>2, <1>4, <1>5 DEF IInv

-------------------------------------------------------------------------------
(* What a step of one call leaves alone. *)

\* The step concerns no other call.
OnlyOf(b) ==
  \A s \in Batches \ {b} :
    /\ pc'[s] = pc[s] /\ input'[s] = input[s] /\ at'[s] = at[s]
    /\ written'[s] = written[s] /\ results'[s] = results[s] /\ outcome'[s] = outcome[s]

\* The other calls keep what they know, also when b commits.
LEMMA OthersKeep ==
  ASSUME IInv, NEW b \in Batches, OnlyOf(b), pc[b] = "idle" \/ input'[b] = input[b],
         journal \subseteq journal', \A x \in journal' \ journal : x[1] = b
  PROVE  \A s \in Batches \ {b} : Progress(s)' /\ Settled(s)'
<1> SUFFICES ASSUME NEW s \in Batches \ {b} PROVE Progress(s)' /\ Settled(s)'
  OBVIOUS
<1>1. \A x \in journal : x[1] \in Batches /\ input'[x[1]] = input[x[1]]
  BY DEF IInv, Typing, Phases, OnlyOf
<1>2. \A x \in journal : KeyOf(x)' = KeyOf(x)
  BY <1>1 DEF KeyOf, Items
<1>3. /\ Items(s)' = Items(s) /\ This(s)' = This(s) /\ pc'[s] = pc[s] /\ at'[s] = at[s]
      /\ written'[s] = written[s] /\ results'[s] = results[s] /\ outcome'[s] = outcome[s]
      /\ input'[s] = input[s]
  BY DEF OnlyOf, Items, This
<1>4. \A i : Taken(s, i) => Taken(s, i)'
  BY <1>2, <1>3 DEF Taken
<1>5. \A i : DealtWith(s, i) => DealtWith(s, i)'
  BY <1>3, <1>4 DEF DealtWith
<1>6. Progress(s)'
  <2>1. Progress(s)
    BY DEF IInv
  <2>2. QED
    BY <1>3, <1>5, <2>1 DEF Progress
<1>7. Settled(s)'
  <2>1. Settled(s)
    BY DEF IInv
  <2>2. \A i : <<s, i>> \in journal' <=> <<s, i>> \in journal
    OBVIOUS
  <2>3. \A i : (\E x \in journal : KeyOf(x) = Items(s)[i].key) =>
               (\E x \in journal : KeyOf(x) = Items(s)[i].key)'
    BY <1>2, <1>3
  <2>4. QED
    BY <1>3, <2>1, <2>2, <2>3 DEF Settled
<1>8. QED
  BY <1>6, <1>7

\* Keys stay unique when a step stores no row that no batch had seen.
LEMMA KeysKeep ==
  ASSUME UniqueKeys, input' = input,
         \A s \in Batches : \A x \in Seen(s)' : \E t \in Batches : x \in Seen(t)
  PROVE  UniqueKeys'
<1>1. \A x : KeyOf(x)' = KeyOf(x)
  BY DEF KeyOf, Items
<1>2. QED
  BY <1>1 DEF UniqueKeys

\* A step that commits nothing keeps atomic batches whole.
LEMMA WholeKeep ==
  ASSUME AtomicWhole, input' = input, journal' = journal
  PROVE  AtomicWhole'
<1>1. /\ \A x : KeyOf(x)' = KeyOf(x) /\ Items(x[1])' = Items(x[1])
      /\ \A s : input'[s].atomic = input[s].atomic
  BY DEF KeyOf, Items
<1>2. QED
  BY <1>1 DEF AtomicWhole

-------------------------------------------------------------------------------
(* The two ways a step goes on: the call ends, or the item is dealt with. *)

\* A call that ends without committing (End) keeps the invariant when its
\* results are settled.
LEMMA EndInv ==
  ASSUME IInv, NEW b \in Batches, NEW out \in Outcome, End(b, out), pc[b] # "idle",
         results' \in [Batches -> Seq(ItemStatus)],
         \A s \in Batches \ {b} : results'[s] = results[s],
         Settled(b)'
  PROVE  IInv'
<1>1. Typing /\ Phases /\ UniqueKeys /\ AtomicWhole
  BY DEF IInv
<1>2. Typing'
  BY <1>1 DEF Typing, End, PC
<1>3. OnlyOf(b) /\ pc'[b] = "done" /\ written'[b] = {} /\ input' = input /\ journal' = journal
  BY <1>1 DEF Typing, OnlyOf, End
<1>4. Phases'
  <2>2. ASSUME NEW s \in Batches
        PROVE  /\ pc'[s] = "idle" <=> input'[s] = NoInput
               /\ pc'[s] = "idle" => at'[s] = 1 /\ results'[s] = <<>>
               /\ pc'[s] \notin Running => written'[s] = {}
               /\ outcome'[s] = "answered" => pc'[s] = "done"
    BY <1>1, <1>3 DEF Phases, OnlyOf, Running
  <2>3. \A x \in journal : x[1] \in Batches /\ pc[x[1]] \in {"reload", "done"} /\ x[2] \in DOMAIN Items(x[1])
    BY <1>1 DEF Typing, Phases
  <2>4. \A x \in journal : pc'[x[1]] \in {"reload", "done"} /\ x[2] \in DOMAIN Items(x[1])'
    BY <1>3, <2>3 DEF OnlyOf, Items
  <2>5. QED
    BY <1>3, <2>2, <2>4 DEF Phases
<1>5. UniqueKeys'
  <2>1. \A s \in Batches : written'[s] \subseteq written[s]
    BY <1>3 DEF OnlyOf
  <2>2. \A s \in Batches : Seen(s)' \subseteq Seen(s)
    BY <1>3, <2>1 DEF Seen, Own
  <2>3. QED
    BY <1>1, <1>3, <2>2, KeysKeep
<1>6. AtomicWhole'
  BY <1>1, <1>3, WholeKeep
<1>7. \A s \in Batches \ {b} : Progress(s)' /\ Settled(s)'
  BY <1>3, OthersKeep
<1>8. Progress(b)'
  BY <1>3 DEF Progress, Running
<1>9. QED
  BY <1>2, <1>4, <1>5, <1>6, <1>7, <1>8 DEF IInv

\* A step of a running call that inserts and commits nothing keeps the invariant
\* when the call stays running and its progress is true of it.
LEMMA RunInv ==
  ASSUME IInv, NEW b \in Batches, OnlyOf(b), pc[b] \in Running, pc'[b] \in Running,
         at' \in [Batches -> Nat \ {0}], results' \in [Batches -> Seq(ItemStatus)],
         pc' \in [Batches -> PC],
         UNCHANGED <<journal, input, written, outcome>>,
         Progress(b)'
  PROVE  IInv'
<1>1. Typing /\ Phases /\ UniqueKeys /\ AtomicWhole
  BY DEF IInv
<1>2. Typing'
  BY <1>1 DEF Typing
<1>3. Phases'
  <2>1. \A s \in Batches : /\ pc'[s] = pc[s] /\ at'[s] = at[s] /\ results'[s] = results[s]
                           \/ s = b
    BY DEF OnlyOf
  <2>2. \A s \in Batches \ {b} : pc'[s] = pc[s] /\ at'[s] = at[s] /\ results'[s] = results[s]
    BY <2>1
  <2>3. pc[b] \notin {"idle", "reload", "done"} /\ pc'[b] \notin {"idle", "reload", "done"}
    BY DEF Running
  <2>4. ASSUME NEW s \in Batches
        PROVE  /\ pc'[s] = "idle" <=> input'[s] = NoInput
               /\ pc'[s] = "idle" => at'[s] = 1 /\ results'[s] = <<>>
               /\ pc'[s] \notin Running => written'[s] = {}
               /\ outcome'[s] = "answered" => pc'[s] = "done"
    <3>1. /\ pc[s] = "idle" <=> input[s] = NoInput
          /\ pc[s] = "idle" => at[s] = 1 /\ results[s] = <<>>
          /\ pc[s] \notin Running => written[s] = {}
          /\ outcome[s] = "answered" => pc[s] = "done"
      BY <1>1 DEF Phases
    <3>2. CASE s = b
      BY <2>3, <3>1, <3>2
    <3>3. CASE s # b
      BY <2>2, <3>1, <3>3
    <3>4. QED
      BY <3>2, <3>3
  <2>5. \A x \in journal' : pc'[x[1]] \in {"reload", "done"} /\ x[2] \in DOMAIN Items(x[1])'
    <3>1. \A x \in journal : x[1] \in Batches \ {b}
      BY <1>1, <2>3 DEF Phases, Typing
    <3>2. QED
      BY <1>1, <2>2, <3>1 DEF Phases, Items
  <2>6. QED
    BY <2>4, <2>5 DEF Phases
<1>4. UniqueKeys'
  <2>1. \A s \in Batches : Seen(s)' = Seen(s)
    BY DEF Seen, Own
  <2>2. QED
    BY <1>1, <2>1, KeysKeep
<1>5. AtomicWhole'
  BY <1>1, WholeKeep
<1>6. \A s \in Batches \ {b} : Progress(s)' /\ Settled(s)'
  BY OthersKeep
<1>7. Settled(b)'
  BY <1>1 DEF Settled, Running, Phases
<1>8. QED
  BY <1>2, <1>3, <1>4, <1>5, <1>6, <1>7 DEF IInv

\* Dealing with an item (Advance) keeps the invariant when the result is what
\* became of it.
LEMMA AdvanceInv ==
  ASSUME IInv, NEW b \in Batches, pc[b] \in {"lookup", "validate", "lock"},
         NEW status \in ItemStatus, Advance(b, status),
         UNCHANGED <<journal, input, written, outcome>>,
         \/ status = "posted" /\ at[b] \in written[b]
         \/ status = "replayed" /\ at[b] \notin written[b] /\ Taken(b, at[b])
         \/ status = "error" /\ at[b] \notin written[b] /\ This(b).wrong /\ ~input[b].atomic
  PROVE  IInv'
<1>1. Typing /\ Phases /\ Progress(b)
  BY DEF IInv
<1>2. input[b] # NoInput /\ at[b] \in Nat \ {0} /\ at[b] <= Len(Items(b))
  <2>1. input[b] # NoInput /\ at[b] \in Nat \ {0}
    BY <1>1 DEF Phases, Typing
  <2>2. QED
    BY <1>1, <2>1, InputType DEF Progress, Running
<1>3. /\ results[b] \in Seq(ItemStatus) /\ Len(results[b]) = at[b] - 1
      /\ results' = [results EXCEPT ![b] = Append(results[b], status)]
      /\ at' = [at EXCEPT ![b] = at[b] + 1]
  BY <1>1 DEF Typing, Progress, Running, Advance
<1>4. /\ Append(results[b], status) \in Seq(ItemStatus)
      /\ Len(Append(results[b], status)) = at[b]
      /\ Append(results[b], status)[at[b]] = status
      /\ \A i \in 1 .. (at[b] - 1) : Append(results[b], status)[i] = results[b][i]
  BY <1>2, <1>3, AppendProperties
<1>5. /\ at' \in [Batches -> Nat \ {0}] /\ results' \in [Batches -> Seq(ItemStatus)]
      /\ at'[b] = at[b] + 1 /\ results'[b] = Append(results[b], status)
  BY <1>1, <1>2, <1>3, <1>4 DEF Typing
<1>6. /\ pc' \in [Batches -> PC]
      /\ pc'[b] = IF at[b] < Len(Items(b)) THEN "lookup" ELSE "commit"
  BY <1>1 DEF Typing, Advance, PC
<1>7. OnlyOf(b)
  BY <1>1, <1>3, <1>6 DEF OnlyOf, Advance, Typing
<1>8. Progress(b)'
  <2>1. /\ \A i : Taken(b, i)' = Taken(b, i)
        /\ Items(b)' = Items(b)
    BY DEF Taken, KeyOf, Items
  <2>2. \A i \in 1 .. (at[b] - 1) : DealtWith(b, i)
    BY <1>1 DEF Progress, Running
  <2>3. \A i \in 1 .. (at[b] - 1) : DealtWith(b, i)'
    BY <1>4, <1>5, <2>1, <2>2 DEF DealtWith
  <2>4. PICK n \in Nat : n = at[b] /\ DealtWith(b, n)'
    BY <1>2, <1>4, <1>5, <2>1 DEF DealtWith, This
  <2>5. \A i \in 1 .. (at'[b] - 1) : DealtWith(b, i)'
    <3>1. \A i \in 1 .. (at'[b] - 1) : i = n \/ i \in 1 .. (at[b] - 1)
      BY <1>2, <1>5, <2>4
    <3>2. QED
      BY <2>3, <2>4, <3>1
  <2>6. Len(Items(b)) \in Nat /\ DOMAIN Items(b) = 1 .. Len(Items(b))
    BY <1>1, <1>2, InputType
  <2>7. /\ at'[b] <= Len(Items(b)) + 1
        /\ pc'[b] = "commit" <=> at'[b] = Len(Items(b)) + 1
        /\ Len(results'[b]) = at'[b] - 1
    BY <1>2, <1>4, <1>5, <1>6, <2>6
  <2>8. /\ \A i \in written[b] : /\ i \in 1 .. at[b] /\ i \in DOMAIN Items(b)
                                 /\ ~Items(b)[i].wrong
    BY <1>1 DEF Progress, Running
  <2>9. /\ \A i \in written[b] : i \in 1 .. at'[b]
        /\ at'[b] \notin written[b]
    BY <1>2, <1>5, <2>8
  <2>10. pc'[b] \notin {"lock", "insert", "validate"}
    BY <1>6
  <2>11. QED
    BY <2>1, <2>5, <2>7, <2>8, <2>9, <2>10 DEF Progress
<1>9. QED
  BY <1>5, <1>6, <1>7, <1>8, RunInv DEF Running

-------------------------------------------------------------------------------
(* Every step keeps the invariant. *)

\* What holds of a call that has been made and has an item to deal with.
LEMMA AtItem ==
  ASSUME IInv, NEW b \in Batches, pc[b] \in Running \ {"commit"}
  PROVE  /\ input[b] # NoInput /\ at[b] \in DOMAIN Items(b)
         /\ at[b] \in Nat \ {0} /\ results[b] \in Seq(ItemStatus)
         /\ This(b).wrong \in BOOLEAN /\ input[b].atomic \in BOOLEAN
         /\ \A i \in written[b] : i \in 1 .. at[b]
         /\ at[b] \in written[b] <=> pc[b] = "lock"
<1>1. Typing /\ Phases /\ Progress(b)
  BY DEF IInv
<1>2. input[b] # NoInput /\ at[b] \in Nat \ {0} /\ results[b] \in Seq(ItemStatus)
  BY <1>1 DEF Phases, Typing, Running
<1>3. at[b] \in DOMAIN Items(b)
  BY <1>1, <1>2, InputType DEF Progress, Running
<1>4. QED
  BY <1>1, <1>2, <1>3, InputType DEF Progress, This

\* A call is made.
LEMMA BeginInv ==
  ASSUME IInv, NEW b \in Batches, Begin(b)
  PROVE  IInv'
<1>1. Typing /\ Phases /\ UniqueKeys /\ AtomicWhole
  BY DEF IInv
<1>2. PICK i \in Inputs : /\ input' = [input EXCEPT ![b] = i]
                          /\ pc' = [pc EXCEPT ![b] = IF i.items = <<>> THEN "commit" ELSE "lookup"]
  BY DEF Begin
<1>3. /\ Typing' /\ OnlyOf(b) /\ pc'[b] \in {"commit", "lookup"} /\ input'[b] = i
      /\ at[b] = 1 /\ results[b] = <<>> /\ written[b] = {} /\ pc[b] = "idle"
      /\ UNCHANGED <<journal, at, written, results, outcome>>
  BY <1>1, <1>2, ZenonT(30) DEF Begin, Typing, OnlyOf, PC, Phases, Running
<1>4. \A x \in journal : x[1] \in Batches \ {b}
  BY <1>1, <1>3 DEF Typing, Phases
<1>5. \A s \in Batches \ {b} : Items(s)' = Items(s) /\ input'[s] = input[s] /\ pc'[s] = pc[s]
  BY <1>3 DEF OnlyOf, Items
<1>6. Phases'
  <2>1. \A s \in Batches \ {b} :
               /\ pc'[s] = "idle" <=> input'[s] = NoInput
               /\ pc'[s] = "idle" => at'[s] = 1 /\ results'[s] = <<>>
               /\ pc'[s] \notin Running => written'[s] = {}
               /\ outcome'[s] = "answered" => pc'[s] = "done"
    BY <1>1, <1>3, <1>5 DEF Phases
  <2>2. /\ pc'[b] # "idle" /\ input'[b] # NoInput /\ written'[b] = {}
        /\ outcome'[b] # "answered"
    BY <1>1, <1>3, BatchAssumption DEF Phases
  <2>3. \A x \in journal : pc'[x[1]] \in {"reload", "done"} /\ x[2] \in DOMAIN Items(x[1])'
    BY <1>1, <1>4, <1>5 DEF Phases
  <2>4. QED
    BY <1>3, <2>1, <2>2, <2>3 DEF Phases
<1>7. UniqueKeys'
  <2>1. \A s \in Batches : Seen(s)' = Seen(s)
    BY <1>3 DEF Seen, Own
  <2>2. \A s \in Batches : \A x \in Seen(s) : x[1] \in Batches \ {b}
    BY <1>1, <1>3, <1>4, SeenType
  <2>3. \A s \in Batches : \A x \in Seen(s) : KeyOf(x)' = KeyOf(x)
    BY <1>5, <2>2 DEF KeyOf
  <2>4. QED
    BY <1>1, <2>1, <2>3 DEF UniqueKeys
<1>8. AtomicWhole'
  <2>1. \A x \in journal : /\ KeyOf(x)' = KeyOf(x) /\ Items(x[1])' = Items(x[1])
                           /\ input'[x[1]].atomic = input[x[1]].atomic
    BY <1>4, <1>5 DEF KeyOf
  <2>2. QED
    BY <1>1, <1>3, <2>1 DEF AtomicWhole
<1>9. \A s \in Batches \ {b} : Progress(s)' /\ Settled(s)'
  BY <1>3, OthersKeep
<1>10. Progress(b)'
  <2>1. Items(b)' = i.items /\ i.items \in Seq(Item)
    BY <1>3, BatchAssumption DEF Items, BatchInput
  <2>2. /\ i.items = <<>> => Len(i.items) = 0 /\ pc'[b] = "commit"
        /\ i.items # <<>> => Len(i.items) \in Nat \ {0} /\ pc'[b] = "lookup"
    BY <1>1, <1>2, <2>1, EmptySeq DEF Typing
  <2>3. Len(results'[b]) = 0 /\ at'[b] = 1 /\ written'[b] = {}
    BY <1>3
  <2>4. 1 .. (1 - 1) = {}
    OBVIOUS
  <2>5. QED
    BY <2>1, <2>2, <2>3, <2>4 DEF Progress
<1>11. Settled(b)'
  BY <1>1, <1>3 DEF Settled, Phases
<1>12. QED
  BY <1>3, <1>6, <1>7, <1>8, <1>9, <1>10, <1>11 DEF IInv

\* The progress of a call that only moves on to another step of the same item.
LEMMA MoveInv ==
  ASSUME IInv, NEW b \in Batches, pc[b] \in Running \ {"commit"},
         NEW p \in {"validate", "insert", "lock"}, pc' = [pc EXCEPT ![b] = p],
         UNCHANGED <<journal, input, at, written, results, outcome>>,
         p = "lock" <=> pc[b] = "lock",
         p = "insert" => ~This(b).wrong,
         p # "lock" => \A i \in written[b] : Items(b)[i].key # This(b).key
  PROVE  IInv'
<1>1. Typing /\ Progress(b)
  BY DEF IInv
<1>2. pc' \in [Batches -> PC] /\ pc'[b] = p /\ OnlyOf(b)
  BY <1>1 DEF Typing, PC, OnlyOf
<1>3. /\ \A i : DealtWith(b, i)' = DealtWith(b, i)
      /\ Items(b)' = Items(b) /\ This(b)' = This(b)
  BY DEF DealtWith, Taken, KeyOf, Items, This
<1>4. Progress(b)'
  BY <1>1, <1>2, <1>3 DEF Progress, Running
<1>5. QED
  BY <1>1, <1>2, <1>4, RunInv DEF Typing, Running

\* _find_by_idempotency_key.
LEMMA LookupInv ==
  ASSUME IInv, NEW b \in Batches, Lookup(b)
  PROVE  IInv'
<1>1. Typing /\ pc[b] = "lookup"
  BY DEF IInv, Lookup
<1>2. \A i \in written[b] : i \in 1 .. at[b] /\ i # at[b]
  BY <1>1, AtItem DEF Running
<1>3. CASE \E x \in journal \union Own(b) : KeyOf(x) = This(b).key
  <2>1. PICK x \in Seen(b) : KeyOf(x) = This(b).key
    BY <1>3 DEF Seen
  <2>2. x \in journal \/ (x[1] = b /\ x[2] \in written[b] /\ x[2] < at[b])
    BY <1>1, <1>2, AtItem, SeenType DEF Running
  <2>3. Taken(b, at[b])
    BY <2>1, <2>2 DEF Taken, This, KeyOf
  <2>4. Advance(b, "replayed") /\ UNCHANGED <<journal, input, written, outcome>>
    BY <1>3 DEF Lookup
  <2>5. QED
    BY <1>1, <1>2, <2>3, <2>4, AdvanceInv DEF ItemStatus
<1>4. CASE \A x \in journal \union Own(b) : KeyOf(x) # This(b).key
  <2>1. \A i \in written[b] : <<b, i>> \in Own(b)
    BY DEF Own
  <2>2. \A i \in written[b] : Items(b)[i].key # This(b).key
    <3>1. \A i \in written[b] : KeyOf(<<b, i>>) = Items(b)[i].key
      BY DEF KeyOf
    <3>2. \A i \in written[b] : KeyOf(<<b, i>>) # This(b).key
      BY <1>4, <2>1
    <3>3. QED
      BY <3>1, <3>2
  <2>3. /\ pc' = [pc EXCEPT ![b] = "validate"]
        /\ UNCHANGED <<journal, input, at, written, results, outcome>>
    BY <1>4 DEF Lookup
  <2>4. QED
    BY <1>1, <2>2, <2>3, MoveInv DEF Running
<1>5. QED
  BY <1>3, <1>4

\* Ending a call whose results say that nothing of it was committed.
LEMMA UndoneInv ==
  ASSUME IInv, NEW b \in Batches, pc[b] \in Running \ {"commit"}, End(b, "answered"),
         NEW status \in [DOMAIN Items(b) -> {"error", "rolled_back"}],
         results' = [results EXCEPT ![b] = status]
  PROVE  IInv'
<1>1. Typing /\ Phases
  BY DEF IInv
<1>2. Len(Items(b)) \in Nat /\ DOMAIN Items(b) = 1 .. Len(Items(b))
  BY <1>1, AtItem, InputType
<1>3. status \in Seq(ItemStatus) /\ Len(status) = Len(Items(b))
  <2>1. status \in [1 .. Len(Items(b)) -> ItemStatus]
    BY <1>2 DEF ItemStatus
  <2>2. QED
    BY <1>2, <2>1
<1>4. /\ results' \in [Batches -> Seq(ItemStatus)] /\ results'[b] = status
      /\ \A s \in Batches \ {b} : results'[s] = results[s]
  BY <1>1, <1>3 DEF Typing
<1>5. journal' = journal /\ Items(b)' = Items(b)
  BY DEF End, Items
<1>6. \A i : <<b, i>> \notin journal
  BY <1>1 DEF Phases, Running
<1>7. Settled(b)'
  BY <1>2, <1>3, <1>4, <1>5, <1>6 DEF Settled
<1>8. QED
  BY <1>4, <1>7, EndInv DEF Outcome, Running

\* Validation and, for a wrong item, the rollback of the batch or the savepoint.
LEMMA ValidateInv ==
  ASSUME IInv, NEW b \in Batches, Validate(b)
  PROVE  IInv'
<1>1. Progress(b) /\ pc[b] = "validate"
  BY DEF IInv, Validate
<1>2. at[b] \notin written[b] /\ This(b).wrong \in BOOLEAN
  BY <1>1, AtItem DEF Running
<1>3. CASE This(b).wrong /\ RejectItem(b) /\ input[b].atomic
  <2>1. End(b, "answered")
    BY <1>3 DEF RejectItem
  <2> DEFINE status == [i \in DOMAIN Items(b) |-> IF i = at[b] THEN "error" ELSE "rolled_back"]
  <2>2. results' = [results EXCEPT ![b] = status]
    BY <1>3 DEF RejectItem
  <2>3. status \in [DOMAIN Items(b) -> {"error", "rolled_back"}]
    OBVIOUS
  <2> HIDE DEF status
  <2>4. QED
    BY <1>1, <2>1, <2>2, <2>3, UndoneInv DEF Running
<1>4. CASE This(b).wrong /\ RejectItem(b) /\ ~input[b].atomic
  <2>1. Advance(b, "error") /\ UNCHANGED <<journal, input, written, outcome>>
    BY <1>4 DEF RejectItem
  <2>2. QED
    BY <1>1, <1>2, <1>4, <2>1, AdvanceInv DEF ItemStatus
<1>5. CASE ~This(b).wrong
  <2>1. /\ pc' = [pc EXCEPT ![b] = "insert"]
        /\ UNCHANGED <<journal, input, at, written, results, outcome>>
    BY <1>5 DEF Validate
  <2>2. \A i \in written[b] : Items(b)[i].key # This(b).key
    BY <1>1 DEF Progress, Running
  <2>3. QED
    BY <1>1, <1>5, <2>1, <2>2, MoveInv DEF Running
<1>6. QED
  BY <1>3, <1>4, <1>5 DEF Validate

\* The flushed INSERT of an item, or its IntegrityError.
LEMMA InsertInv ==
  ASSUME IInv, NEW b \in Batches, Insert(b)
  PROVE  IInv'
<1>1. Typing /\ Phases /\ UniqueKeys /\ AtomicWhole /\ Progress(b) /\ pc[b] = "insert"
  BY DEF IInv, Insert
<1>2. /\ input[b] # NoInput /\ at[b] \in DOMAIN Items(b) /\ at[b] \in Nat \ {0}
      /\ at[b] \notin written[b] /\ ~This(b).wrong
  BY <1>1, AtItem DEF Progress, Running
<1>3. CASE FailInsert(b) /\ input[b].atomic
  <2>1. End(b, "answered")
    BY <1>3 DEF FailInsert
  <2> DEFINE status == [i \in DOMAIN Items(b) |-> "error"]
  <2>2. results' = [results EXCEPT ![b] = status]
    BY <1>3 DEF FailInsert
  <2>3. status \in [DOMAIN Items(b) -> {"error", "rolled_back"}]
    OBVIOUS
  <2> HIDE DEF status
  <2>4. QED
    BY <1>1, <2>1, <2>2, <2>3, UndoneInv DEF Running
<1>4. CASE FailInsert(b) /\ ~input[b].atomic
  <2>1. End(b, "server_error") /\ results' = results
    BY <1>4 DEF FailInsert
  <2>2. Settled(b)'
    BY <1>1, <2>1 DEF Settled, End, Typing
  <2>3. QED
    BY <1>1, <2>1, <2>2, EndInv DEF Outcome, Typing
<1>5. CASE /\ \A x \in journal : KeyOf(x) # This(b).key
           /\ written' = [written EXCEPT ![b] = @ \union {at[b]}]
           /\ pc' = [pc EXCEPT ![b] = "lock"]
           /\ UNCHANGED <<journal, input, at, held, results, outcome>>
  <2>1. /\ Typing' /\ OnlyOf(b) /\ pc'[b] = "lock"
        /\ written'[b] = written[b] \union {at[b]}
    BY <1>1, <1>2, <1>5 DEF Typing, OnlyOf, PC
  <2>2. Phases'
    BY <1>1, <1>5, <2>1 DEF Phases, OnlyOf, Typing, Items, Running
  <2>3. AtomicWhole'
    BY <1>1, <1>5, WholeKeep
  <2>4. \A s \in Batches \ {b} : Progress(s)' /\ Settled(s)'
    BY <1>5, <2>1, OthersKeep
  <2>5. Settled(b)'
    BY <1>1, <1>5, <2>1 DEF Settled, Phases
  <2>6. Progress(b)'
    <3>1. /\ \A i : Taken(b, i) => Taken(b, i)'
          /\ Items(b)' = Items(b)
      BY <1>5, <2>1 DEF Taken, KeyOf, Items
    <3>2. \A i \in 1 .. (at[b] - 1) : i # at[b] /\ DealtWith(b, i)
      BY <1>1, <1>2 DEF Progress, Running
    <3>3. \A i \in 1 .. (at[b] - 1) : DealtWith(b, i)'
      BY <1>5, <2>1, <3>1, <3>2 DEF DealtWith
    <3>4. \A i \in written[b] : i \in 1 .. at[b] /\ i \in DOMAIN Items(b) /\ ~Items(b)[i].wrong
      BY <1>1 DEF Progress, Running
    <3>5. \A i \in written'[b] : i \in 1 .. at[b] /\ i \in DOMAIN Items(b) /\ ~Items(b)[i].wrong
      BY <1>2, <2>1, <3>4 DEF This
    <3>6. /\ at[b] <= Len(Items(b)) + 1 /\ at[b] # Len(Items(b)) + 1
          /\ Len(results[b]) = at[b] - 1
      BY <1>1 DEF Progress, Running
    <3>7. QED
      BY <1>5, <2>1, <3>1, <3>3, <3>5, <3>6 DEF Progress
  <2>7. UniqueKeys'
    <3> DEFINE new == <<b, at[b]>>
    <3>1. \A x : KeyOf(x)' = KeyOf(x)
      BY <1>5 DEF KeyOf, Items
    <3>2. KeyOf(new) = This(b).key
      BY DEF KeyOf, This
    <3>3. \A s \in Batches \ {b} : Seen(s)' = Seen(s)
      BY <1>5, <2>1 DEF Seen, Own, OnlyOf
    <3>4. Seen(b)' = Seen(b) \union {new}
      BY <1>5, <2>1 DEF Seen, Own
    <3>5. \A s \in Batches : \A x \in Seen(s) : KeyOf(x) # KeyOf(new)
      <4>1. SUFFICES ASSUME NEW s \in Batches, NEW x \in Seen(s) PROVE KeyOf(x) # This(b).key
        BY <3>2
      <4>2. CASE x \in journal
        BY <1>5, <4>2
      <4>3. CASE x \in Own(s) /\ s # b
        BY <4>3 DEF Insert, Clashing
      <4>4. CASE x \in Own(b)
        <5>1. PICK i \in written[b] : x = <<b, i>>
          BY <4>4 DEF Own
        <5>2. KeyOf(x) = Items(b)[i].key
          BY <5>1 DEF KeyOf
        <5>3. Items(b)[i].key # This(b).key
          BY <1>1 DEF Progress, Running
        <5>4. QED
          BY <5>2, <5>3
      <4>5. QED
        BY <4>2, <4>3, <4>4 DEF Seen
    <3> HIDE DEF new
    <3>6. \A s \in Batches : \A x \in Seen(s)' : x = new \/ (\E t \in Batches : x \in Seen(t))
      BY <3>3, <3>4
    <3>7. \A t, u \in Batches : \A x \in Seen(t), y \in Seen(u) : KeyOf(x) = KeyOf(y) => x = y
      BY <1>1 DEF UniqueKeys
    <3>8. \A s, t \in Batches : \A x \in Seen(s)', y \in Seen(t)' : KeyOf(x) = KeyOf(y) => x = y
      BY <3>5, <3>6, <3>7
    <3>9. QED
      BY <3>1, <3>8 DEF UniqueKeys
  <2>8. QED
    BY <2>1, <2>2, <2>3, <2>4, <2>5, <2>6, <2>7 DEF IInv
<1>6. QED
  BY <1>3, <1>4, <1>5 DEF Insert, FailInsert

\* _lock_balances, one balance row at a time.
LEMMA LockBalanceInv ==
  ASSUME IInv, NEW b \in Batches, LockBalance(b)
  PROVE  IInv'
<1>1. Typing /\ pc[b] = "lock"
  BY DEF IInv, LockBalance
<1>2. pc' = [pc EXCEPT ![b] = "lock"]
  BY <1>1 DEF LockBalance, Typing
<1>3. UNCHANGED <<journal, input, at, written, results, outcome>>
  BY DEF LockBalance
<1>4. QED
  BY <1>1, <1>2, <1>3, MoveInv DEF Running

\* The item is written.
LEMMA WriteItemInv ==
  ASSUME IInv, NEW b \in Batches, WriteItem(b)
  PROVE  IInv'
<1>1. pc[b] = "lock" /\ Advance(b, "posted") /\ UNCHANGED <<journal, input, written, outcome>>
  BY DEF WriteItem
<1>2. at[b] \in written[b]
  BY <1>1, AtItem DEF Running
<1>3. QED
  BY <1>1, <1>2, AdvanceInv DEF ItemStatus

\* When a batch is at its COMMIT every item has been dealt with, and each item
\* that was posted or replayed has its key among the rows the COMMIT leaves.
LEMMA AtCommit ==
  ASSUME IInv, NEW b \in Batches, pc[b] = "commit"
  PROVE  /\ input[b] # NoInput /\ DOMAIN Items(b) = 1 .. Len(Items(b))
         /\ DOMAIN results[b] = 1 .. Len(Items(b)) /\ Len(results[b]) = Len(Items(b))
         /\ \A i \in 1 .. Len(Items(b)) : DealtWith(b, i)
         /\ written[b] \subseteq 1 .. Len(Items(b))
         /\ \A i \in written[b] : ~Items(b)[i].wrong
         /\ \A i : <<b, i>> \notin journal
         /\ \A i \in 1 .. Len(Items(b)) : results[b][i] \in {"posted", "replayed"} =>
              \E y \in Seen(b) : KeyOf(y) = Items(b)[i].key
<1>1. Typing /\ Phases /\ Progress(b)
  BY DEF IInv
<1>2. input[b] # NoInput /\ results[b] \in Seq(ItemStatus)
  BY <1>1 DEF Phases, Typing
<1>3. /\ Len(Items(b)) \in Nat /\ DOMAIN Items(b) = 1 .. Len(Items(b))
      /\ at[b] = Len(Items(b)) + 1 /\ Len(results[b]) = at[b] - 1
      /\ \A i \in 1 .. (at[b] - 1) : DealtWith(b, i)
      /\ \A i \in written[b] : i \in DOMAIN Items(b) /\ ~Items(b)[i].wrong
  BY <1>1, <1>2, InputType DEF Progress, Running
<1>4. \A i \in 1 .. Len(Items(b)) : DealtWith(b, i)
  BY <1>3
<1>5. \A i : <<b, i>> \notin journal
  BY <1>1 DEF Phases
<1>6. ASSUME NEW i \in 1 .. Len(Items(b)), results[b][i] \in {"posted", "replayed"}
      PROVE  \E y \in Seen(b) : KeyOf(y) = Items(b)[i].key
  <2>1. \A j \in written[b] : <<b, j>> \in Seen(b) /\ KeyOf(<<b, j>>) = Items(b)[j].key
    BY DEF Seen, Own, KeyOf
  <2>2. i \in written[b] \/ Taken(b, i)
    BY <1>4, <1>6 DEF DealtWith
  <2>3. QED
    BY <2>1, <2>2 DEF Taken, Seen
<1>7. QED
  BY <1>2, <1>3, <1>4, <1>5, <1>6

\* The COMMIT.
LEMMA CommitInv ==
  ASSUME IInv, NEW b \in Batches, Commit(b)
  PROVE  IInv'
<1>1. Typing /\ Phases /\ UniqueKeys /\ AtomicWhole /\ pc[b] = "commit"
  BY DEF IInv, Commit
<1>2. /\ Typing' /\ OnlyOf(b) /\ pc'[b] = "reload" /\ written'[b] = {}
      /\ journal' = Seen(b) /\ UNCHANGED <<input, at, results, outcome>>
  BY <1>1 DEF Commit, Typing, OnlyOf, PC, Own, Seen
<1>3. \A x \in Seen(b) : x \in journal \/ (x[1] = b /\ x[2] \in written[b])
  BY <1>1, SeenType
<1>4. /\ \A x : KeyOf(x)' = KeyOf(x) /\ Items(x[1])' = Items(x[1])
      /\ Items(b)' = Items(b)
  BY <1>2 DEF KeyOf, Items
<1>5. Phases'
  <2>1. \A s \in Batches :
               /\ pc'[s] = "idle" <=> input'[s] = NoInput
               /\ pc'[s] = "idle" => at'[s] = 1 /\ results'[s] = <<>>
               /\ pc'[s] \notin Running => written'[s] = {}
               /\ outcome'[s] = "answered" => pc'[s] = "done"
    BY <1>1, <1>2 DEF Phases, OnlyOf, Running
  <2>2. \A x \in journal' : pc'[x[1]] \in {"reload", "done"} /\ x[2] \in DOMAIN Items(x[1])'
    <3>1. SUFFICES ASSUME NEW x \in Seen(b)
                   PROVE  pc'[x[1]] \in {"reload", "done"} /\ x[2] \in DOMAIN Items(x[1])'
      BY <1>2
    <3>2. CASE x \in journal
      <4>1. x[1] \in Batches /\ x[1] # b
        BY <1>1, <3>2 DEF Typing, Phases
      <4>2. QED
        BY <1>1, <1>2, <1>4, <3>2, <4>1 DEF Phases, OnlyOf
    <3>3. CASE x[1] = b /\ x[2] \in written[b]
      BY <1>1, <1>2, <1>4, <3>3, AtCommit
    <3>4. QED
      BY <1>3, <3>2, <3>3
  <2>3. QED
    BY <2>1, <2>2 DEF Phases
<1>6. UniqueKeys'
  <2>1. \A s \in Batches : written'[s] \subseteq written[s]
    BY <1>2 DEF OnlyOf
  <2>2. \A s \in Batches : Own(s)' \subseteq Own(s)
    BY <2>1 DEF Own
  <2>3. \A s \in Batches : \A x \in Seen(s)' : x \in Seen(b) \/ x \in Seen(s)
    BY <1>2, <2>2 DEF Seen
  <2>4. QED
    BY <1>1, <1>2, <2>3, KeysKeep
<1>7. AtomicWhole'
  <2>1. SUFFICES ASSUME NEW x \in Seen(b), input[x[1]].atomic, NEW i \in DOMAIN Items(x[1])
                 PROVE  \E y \in Seen(b) : KeyOf(y) = Items(x[1])[i].key
    BY <1>2, <1>4 DEF AtomicWhole
  <2>2. CASE x \in journal
    BY <1>1, <2>1, <2>2 DEF AtomicWhole, Seen
  <2>3. CASE x[1] = b
    <3>1. i \in 1 .. Len(Items(b)) /\ DealtWith(b, i) /\ input[b].atomic
      BY <1>1, <2>1, <2>3, AtCommit
    <3>2. results[b][i] \in {"posted", "replayed"}
      BY <3>1 DEF DealtWith
    <3>3. QED
      BY <1>1, <2>3, <3>1, <3>2, AtCommit
  <2>4. QED
    BY <1>3, <2>2, <2>3
<1>8. \A s \in Batches \ {b} : Progress(s)' /\ Settled(s)'
  <2>1. journal \subseteq journal' /\ \A x \in journal' \ journal : x[1] = b
    BY <1>2, <1>3 DEF Seen
  <2>2. QED
    BY <1>2, <2>1, OthersKeep
<1>9. Progress(b)'
  BY <1>2 DEF Progress, Running
<1>10. Settled(b)'
  <2>1. ASSUME NEW i \in DOMAIN results[b]
        PROVE  /\ results[b][i] = "posted" <=> <<b, i>> \in Seen(b)
               /\ results[b][i] = "replayed" => \E x \in Seen(b) : KeyOf(x) = Items(b)[i].key
    <3>1. i \in 1 .. Len(Items(b)) /\ DealtWith(b, i) /\ <<b, i>> \notin journal
      BY <1>1, AtCommit
    <3>2. <<b, i>> \in Seen(b) <=> i \in written[b]
      BY <3>1 DEF Seen, Own
    <3>3. results[b][i] = "posted" <=> i \in written[b]
      BY <3>1 DEF DealtWith
    <3>4. QED
      BY <1>1, <3>1, <3>2, <3>3, AtCommit
  <2>2. Len(results[b]) = Len(Items(b))
    BY <1>1, AtCommit
  <2>3. QED
    BY <1>2, <1>4, <2>1, <2>2 DEF Settled
<1>11. QED
  BY <1>2, <1>5, <1>6, <1>7, <1>8, <1>9, <1>10 DEF IInv

\* The call is answered.
LEMMA ReloadInv ==
  ASSUME IInv, NEW b \in Batches, Reload(b)
  PROVE  IInv'
<1>1. Typing /\ Settled(b) /\ pc[b] = "reload" /\ End(b, "answered") /\ results' = results
  BY DEF IInv, Reload
<1>2. journal' = journal /\ input' = input
  BY <1>1 DEF End
<1>3. Settled(b)'
  BY <1>1, <1>2 DEF Settled, KeyOf, Items
<1>4. QED
  BY <1>1, <1>3, EndInv DEF Outcome, Typing

\* A call that PostgreSQL aborts, or that is lost, commits nothing more.
LEMMA AbortInv ==
  ASSUME IInv, NEW b \in Batches, DetectDeadlock(b) \/ Lose(b)
  PROVE  IInv'
<1>1. PICK out \in {"server_error", "lost"} : End(b, out) /\ results' = results
  BY DEF DetectDeadlock, Lose
<1>2. pc[b] # "idle"
  <2>1. CASE DetectDeadlock(b)
    <3>1. PICK y : WaitsFor(b, y)
      BY <2>1 DEF DetectDeadlock, InCircle
    <3>2. QED
      BY <3>1 DEF WaitsFor
  <2>2. CASE Lose(b)
    BY <2>2 DEF Lose
  <2>3. QED
    BY <2>1, <2>2
<1>3. Typing
  BY DEF IInv
<1>4. Settled(b)'
  BY <1>1, <1>3 DEF Settled, End, Typing
<1>5. QED
  BY <1>1, <1>2, <1>3, <1>4, EndInv DEF Outcome, Typing

\* The invariant is inductive.
LEMMA NextInv == IInv /\ [Next]_vars => IInv'
<1>1. SUFFICES ASSUME IInv, [Next]_vars PROVE IInv'
  OBVIOUS
<1>2. CASE UNCHANGED vars
  <2>1. UNCHANGED <<journal, pc, input, at, written, results, outcome>>
    BY <1>2 DEF vars
  <2>2. Typing' /\ Phases'
    BY <1>1, <2>1 DEF IInv, Typing, Phases, Items
  <2>3. UniqueKeys' /\ AtomicWhole'
    BY <1>1, <2>1 DEF IInv, UniqueKeys, AtomicWhole, Seen, Own, KeyOf, Items
  <2>4. ASSUME NEW b \in Batches
        PROVE  Progress(b)' /\ Settled(b)'
    <3>1. Progress(b) /\ Settled(b)
      BY <1>1 DEF IInv
    <3>2. Progress(b)'
      BY <2>1, <3>1 DEF Progress, DealtWith, Taken, KeyOf, Items, This
    <3>3. Settled(b)'
      BY <2>1, <3>1 DEF Settled, KeyOf, Items
    <3>4. QED
      BY <3>2, <3>3
  <2>5. QED
    BY <2>2, <2>3, <2>4 DEF IInv
<1>3. ASSUME NEW b \in Batches, Begin(b) \/ Step(b) \/ DetectDeadlock(b) \/ Lose(b)
      PROVE  IInv'
  BY <1>1, <1>3, BeginInv, LookupInv, ValidateInv, InsertInv, LockBalanceInv, WriteItemInv,
     CommitInv, ReloadInv, AbortInv DEF Step
<1>4. QED
  BY <1>1, <1>2, <1>3 DEF Next, Quiet

\* Every reachable state has the invariant.
THEOREM Invariant == Spec => []IInv
  BY InitInv, NextInv, PTL DEF Spec

\* What a row of the journal names, its key tells apart: a key is used once.
LEMMA IInvKeyOnce == IInv => KeyOnce
<1>1. SUFFICES ASSUME IInv, NEW x \in journal, NEW y \in journal, KeyOf(x) = KeyOf(y) PROVE x = y
  BY DEF KeyOnce
<1>2. PICK b \in Batches : x[1] = b
  BY <1>1 DEF IInv, Typing
<1>3. x \in Seen(b) /\ y \in Seen(b)
  BY <1>1 DEF Seen
<1>4. QED
  BY <1>1, <1>3 DEF IInv, UniqueKeys

\* However batches interleave, fail or are resent, a key names one committed
\* transaction at most (_find_by_idempotency_key and the unique constraint).
THEOREM KeysUsedOnce == Spec => []KeyOnce
  BY Invariant, IInvKeyOnce, PTL

\* An atomic batch reaches the journal whole or not at all.
THEOREM BatchesWhole == Spec => []AtomicWhole
<1>1. IInv => AtomicWhole
  BY DEF IInv
<1>2. QED
  BY Invariant, <1>1, PTL

\* A caller is told of every item what became of it.
THEOREM CallersToldTheTruth == Spec => []ResultsTruthful
<1>1. IInv => ResultsTruthful
  BY DEF IInv, ResultsTruthful, Settled
<1>2. QED
  BY Invariant, <1>1, PTL

-------------------------------------------------------------------------------
(* Refinement of BatchContract. *)

\* At its COMMIT a batch has written exactly the items the contract calls fresh.
LEMMA WrittenAreFresh ==
  ASSUME IInv, NEW b \in Batches, pc[b] = "commit"
  PROVE  written[b] = Contract!Fresh(b)
<1>1. /\ \A i \in 1 .. Len(Items(b)) : DealtWith(b, i)
      /\ DOMAIN Items(b) = 1 .. Len(Items(b)) /\ written[b] \subseteq 1 .. Len(Items(b))
      /\ \A i \in written[b] : ~Items(b)[i].wrong
      /\ \A i : <<b, i>> \notin journal
  BY AtCommit
<1>2. \A x, y \in Seen(b) : KeyOf(x) = KeyOf(y) => x = y
  BY DEF IInv, UniqueKeys
<1>3. \A j \in written[b] : <<b, j>> \in Seen(b) /\ KeyOf(<<b, j>>) = Items(b)[j].key
  BY DEF Seen, Own, KeyOf
<1>4. \A i, j \in written[b] : Items(b)[i].key = Items(b)[j].key => i = j
  BY <1>2, <1>3
<1>5. Contract!Items(b) = Items(b) /\ \A x : KeyOf(x) = Contract!Items(x[1])[x[2]].key
  BY DEF Contract!Items, Items, KeyOf
<1>6. \A i : Contract!Known(b, i) <=>
         \/ \E x \in journal : KeyOf(x) = Items(b)[i].key
         \/ \E j \in 1 .. (i - 1) : ~Items(b)[j].wrong /\ Items(b)[j].key = Items(b)[i].key
  BY <1>5 DEF Contract!Known
<1>7. ASSUME NEW i \in written[b]
      PROVE  ~Contract!Known(b, i)
  <2>1. ASSUME NEW x \in journal, KeyOf(x) = Items(b)[i].key
        PROVE  FALSE
    BY <1>1, <1>2, <1>3, <2>1, ZenonT(30) DEF Seen
  <2>2. ASSUME NEW j \in 1 .. (i - 1), ~Items(b)[j].wrong, Items(b)[j].key = Items(b)[i].key
        PROVE  FALSE
    <3>1. j \in 1 .. Len(Items(b)) /\ j # i /\ i \in Nat
      <4>1. i \in 1 .. Len(Items(b)) /\ Len(Items(b)) \in Int
        BY <1>1, InputType, AtCommit DEF IInv
      <4>2. QED
        BY <4>1
    <3>2. CASE j \in written[b]
      BY <1>4, <2>2, <3>1, <3>2
    <3>3. CASE Taken(b, j) /\ \E x \in journal : KeyOf(x) = Items(b)[j].key
      BY <2>1, <2>2, <3>3
    <3>4. CASE \E k \in written[b] : k < j /\ Items(b)[k].key = Items(b)[j].key
      <4>1. PICK k \in written[b] : k < j /\ Items(b)[k].key = Items(b)[j].key
        BY <3>4
      <4>2. k = i
        BY <1>4, <2>2, <4>1
      <4>3. QED
        BY <3>1, <4>1, <4>2
    <3>5. QED
      BY <1>1, <2>2, <3>1, <3>2, <3>3, <3>4 DEF DealtWith, Taken
  <2>3. QED
    BY <1>6, <2>1, <2>2
<1>8. ASSUME NEW i \in 1 .. Len(Items(b)), i \notin written[b], ~Items(b)[i].wrong
      PROVE  Contract!Known(b, i)
  <2>1. Taken(b, i)
    BY <1>1, <1>8 DEF DealtWith
  <2>2. \A j \in written[b] : j < i => j \in 1 .. (i - 1)
    BY <1>1
  <2>3. QED
    BY <1>1, <1>6, <2>1, <2>2 DEF Taken
<1>9. QED
  BY <1>1, <1>5, <1>7, <1>8 DEF Contract!Fresh

\* The COMMIT is the step in which the contract decides.
LEMMA CommitDecides ==
  ASSUME IInv, NEW b \in Batches, Commit(b)
  PROVE  Contract!Decide(b)
<1>1. pc[b] = "commit" /\ journal' = journal \union Own(b) /\ input' = input
  BY DEF Commit
<1>2. written[b] = Contract!Fresh(b) /\ Contract!Items(b) = Items(b)
  BY <1>1, WrittenAreFresh DEF Contract!Items, Items
<1>3. journal' = journal \union {<<b, i>> : i \in Contract!Fresh(b)}
  BY <1>1, <1>2 DEF Own
<1>4. ASSUME input[b].atomic, NEW i \in DOMAIN Items(b), Items(b)[i].wrong
      PROVE  Contract!Known(b, i)
  <2>1. i \in 1 .. Len(Items(b)) /\ DealtWith(b, i) /\ i \notin written[b]
    BY <1>1, <1>4, AtCommit
  <2>2. Taken(b, i) /\ \A j \in written[b] : ~Items(b)[j].wrong /\ j \in Nat
    BY <1>1, <1>4, <2>1, AtCommit DEF DealtWith, IInv, Typing
  <2>3. \A x : KeyOf(x) = Contract!Items(x[1])[x[2]].key
    BY DEF Contract!Items, Items, KeyOf
  <2>4. \A j \in written[b] : j < i => j \in 1 .. (i - 1)
    BY <1>1, <2>1, AtCommit
  <2>5. QED
    BY <1>2, <2>2, <2>3, <2>4 DEF Contract!Known, Taken
<1>5. input[b] # NoInput
  BY <1>1, AtCommit
<1>6. QED
  BY <1>1, <1>2, <1>3, <1>4, <1>5 DEF Contract!Decide

\* A step that neither makes a call nor commits leaves the contract's state alone.
LEMMA OtherStutters ==
  ASSUME NEW b \in Batches,
         \/ Lookup(b) \/ Validate(b) \/ Insert(b) \/ LockBalance(b) \/ WriteItem(b)
         \/ Reload(b) \/ DetectDeadlock(b) \/ Lose(b)
  PROVE  UNCHANGED Contract!state
  BY DEF Lookup, Validate, RejectItem, Insert, FailInsert, LockBalance, WriteItem, Reload,
     DetectDeadlock, Lose, End, Contract!state

\* Making a call is the contract's Ask.
LEMMA BeginAsks ==
  ASSUME IInv, NEW b \in Batches, Begin(b)
  PROVE  Contract!Ask(b)
  BY DEF IInv, Phases, Begin, Contract!Ask

\* A batch takes effect in one step, its COMMIT, as batch_post_transactions
\* promises, whatever other batches do between its lookups and that step.
THEOREM BatchImplementsContract == Spec => ImplementsContract
<1>1. Init => Contract!Init
  BY DEF Init, Contract!Init
<1>2. IInv /\ [Next]_vars => [Contract!Next]_Contract!state
  <2>1. SUFFICES ASSUME IInv, [Next]_vars PROVE [Contract!Next]_Contract!state
    OBVIOUS
  <2>2. CASE UNCHANGED vars
    BY <2>2 DEF vars, Contract!state
  <2>3. ASSUME NEW b \in Batches, Begin(b) \/ Step(b) \/ DetectDeadlock(b) \/ Lose(b)
        PROVE  Contract!Ask(b) \/ Contract!Decide(b) \/ UNCHANGED Contract!state
    BY <2>1, <2>3, BeginAsks, CommitDecides, OtherStutters DEF Step
  <2>4. QED
    BY <2>1, <2>2, <2>3 DEF Next, Quiet, Contract!Next
<1>3. QED
  BY <1>1, <1>2, Invariant, PTL DEF Spec, ImplementsContract, Contract!Spec
===============================================================================
