----------------------------- MODULE RegistryProofs -----------------------------
(***************************************************************************)
(* That external ids stay unique and a failed request leaves no trace, for *)
(* every set of requests and of accounts at the start.  Uniqueness among   *)
(* the committed accounts follows from that of the uncommitted versions    *)
(* (Exclusive), which in turn needs to know what id a version has; that no *)
(* failure shows needs to know whose name a version carries.               *)
(***************************************************************************)
EXTENDS RegistryProperties, TLAPS

\* A request is at a step of what it was asked, once it was asked something.
Typing ==
  /\ pc \in [Requests -> PC]
  /\ input \in [Requests -> Inputs \union {NoInput}]
  /\ at \in [Requests -> Nat \ {0}]
  /\ pending \in [Requests -> SUBSET Account]
  /\ accounts \subseteq Account
  /\ outcome \in [Requests -> Outcome]
  /\ \A r \in Requests :
       /\ pc[r] # "idle" => input[r] \in Inputs
       /\ pc[r] \in {"lookup", "insert"} => input[r].op \in {"create", "import"}
       /\ pc[r] = "precheck" => input[r].op = "import"
       /\ pc[r] \in {"find", "flush", "clash", "save", "claim"} => input[r].op = "update"
       /\ pc[r] # "done" => outcome[r] = "pending"
       /\ pc[r] = "idle" => at[r] = 1
       /\ pc[r] \in {"precheck", "lookup", "insert"} => at[r] <= Len(input[r].rows)

\* A row has one committed version, and a request one uncommitted version at most.
OneVersion ==
  /\ \A a, b \in accounts : a.id = b.id => a = b
  /\ \A r \in Requests : \A v, w \in pending[r] : v = w

IsCommitted(id) == \E a \in accounts : a.id = id

\* A request is past the row i it creates, or has committed it.
Reached(r, i) == i < at[r] \/ (i = at[r] /\ pc[r] \in {"refresh", "done"})

\* A committed account existed at the start or was created by a request that has
\* reached its row.
CreatedInTurn ==
  \A a \in accounts :
    \/ a.id \in {e.id : e \in Existing}
    \/ \E r \in Requests : \E i \in 1 .. at[r] : a.id = <<r, i>> /\ Reached(r, i)

\* An uncommitted version is of a committed row or the new row of its request.
VersionOf ==
  \A r \in Requests : \A v \in pending[r] :
    /\ IsCommitted(v.id) \/ v.id = <<r, at[r]>>
    /\ pc[r] \in {"clash", "claim"} => v.id = input[r].target
    /\ pc[r] \in {"clash", "claim", "commit"}

\* A request has committed a name: its own answer will not be an error.
Named(r) ==
  /\ pc[r] # "idle"
  /\ input[r].op # "import" => pc[r] = "refresh" \/ outcome[r] \in {"answered", "lost"}

NamesInTurn ==
  /\ \A a \in accounts : \A r \in Requests : a.name = r => Named(r)
  /\ \A s \in Requests : \A v \in pending[s] : \A r \in Requests :
       v.name = r => r = s \/ Named(r)

\* No two uncommitted versions are of one row, and none takes an external_id that
\* another row has or takes.
Exclusive ==
  \A r, s \in Requests : \A v \in pending[r] :
    /\ \A w \in pending[s] : r # s => v.id # w.id /\ (v.ext # w.ext \/ v.ext = NoExternalId)
    /\ \A a \in accounts : a.id # v.id => v.ext # a.ext \/ v.ext = NoExternalId

IInv ==
  /\ Typing /\ OneVersion /\ CreatedInTurn /\ VersionOf /\ NamesInTurn
  /\ ExternalIdUnique /\ Exclusive

-------------------------------------------------------------------------------

\* The accounts at the start are those of the assumption.
LEMMA InitInv == Init => IInv
<1>1. SUFFICES ASSUME Init PROVE IInv
  OBVIOUS
<1>2. Existing \subseteq Account
  BY RegistryAssumption DEF Account, Ids
<1>3. Typing
  BY <1>1, <1>2 DEF Init, Typing, PC, Outcome
<1>4. OneVersion /\ CreatedInTurn /\ VersionOf /\ ExternalIdUnique /\ Exclusive
  BY <1>1, RegistryAssumption DEF Init, OneVersion, CreatedInTurn, VersionOf, ExternalIdUnique, Exclusive
<1>5. NamesInTurn
  BY <1>1, RegistryAssumption DEF Init, NamesInTurn
<1>6. QED
  BY <1>3, <1>4, <1>5 DEF IInv

\* The step concerns no other request.
OnlyOf(r) ==
  \A s \in Requests \ {r} :
    /\ pc'[s] = pc[s] /\ input'[s] = input[s] /\ at'[s] = at[s]
    /\ pending'[s] = pending[s] /\ outcome'[s] = outcome[s]

\* A row stays reached and a name stays committed while a request goes on: the last
\* step after its COMMIT answers it.
LEMMA TurnsKeep ==
  ASSUME Typing, NEW r \in Requests, OnlyOf(r), pc[r] # "done",
         at'[r] \in Nat, at'[r] >= at[r],
         pc[r] = "refresh" => at'[r] > at[r] \/ pc'[r] = "done",
         pc[r] = "idle" \/ (input'[r] = input[r] /\ pc'[r] # "idle"),
         pc[r] = "refresh" =>
           input[r].op = "import" \/ outcome'[r] \in {"answered", "lost"}
  PROVE  /\ \A s \in Requests : \A i \in Nat : Reached(s, i) => Reached(s, i)'
         /\ \A s \in Requests : Named(s) => Named(s)'
<1>1. \A s \in Requests \ {r} : /\ \A i : Reached(s, i) => Reached(s, i)'
                                /\ Named(s) => Named(s)'
  BY DEF OnlyOf, Reached, Named
<1>2. ASSUME NEW i \in Nat, Reached(r, i)
      PROVE  Reached(r, i)'
  BY <1>2 DEF Reached, Typing
<1>3. Named(r) => Named(r)'
  BY DEF Named, Typing
<1>4. QED
  BY <1>1, <1>2, <1>3

\* What holds of the committed accounts keeps holding when none is written.
LEMMA AccountsKeep ==
  ASSUME IInv, accounts' = accounts, \A r \in Requests : at'[r] >= at[r] /\ at'[r] \in Nat,
         \A r \in Requests : \A i \in Nat : Reached(r, i) => Reached(r, i)',
         \A r \in Requests : Named(r) => Named(r)'
  PROVE  /\ CreatedInTurn' /\ ExternalIdUnique'
         /\ \A a, b \in accounts' : a.id = b.id => a = b
         /\ \A a \in accounts' : \A r \in Requests : a.name = r => Named(r)'
         /\ \A id : IsCommitted(id)' = IsCommitted(id)
<1>1. \A r \in Requests : at[r] \in Nat
  BY DEF IInv, Typing
<1>2. CreatedInTurn'
  <2>1. SUFFICES ASSUME NEW a \in accounts, a.id \notin {e.id : e \in Existing}
                 PROVE  \E r \in Requests : \E i \in 1 .. at'[r] : a.id = <<r, i>> /\ Reached(r, i)'
    BY DEF CreatedInTurn
  <2>2. PICK r \in Requests : \E i \in 1 .. at[r] : a.id = <<r, i>> /\ Reached(r, i)
    BY <2>1 DEF IInv, CreatedInTurn
  <2>3. PICK i \in 1 .. at[r] : a.id = <<r, i>> /\ Reached(r, i)
    BY <2>2
  <2>4. i \in 1 .. at'[r] /\ i \in Nat
    BY <1>1
  <2>5. QED
    BY <2>3, <2>4
<1>3. QED
  BY <1>2 DEF IInv, ExternalIdUnique, OneVersion, NamesInTurn, IsCommitted

\* A step that writes no row version keeps the invariant when the request goes on
\* in a way its own version allows.
LEMMA KeepInv ==
  ASSUME IInv, NEW r \in Requests, OnlyOf(r), pc[r] # "done", accounts' = accounts, Typing',
         at'[r] >= at[r],
         pc[r] = "refresh" => at'[r] > at[r] \/ pc'[r] = "done",
         pc[r] = "idle" \/ (input'[r] = input[r] /\ pc'[r] # "idle"),
         pc[r] = "refresh" => input[r].op = "import" \/ outcome'[r] \in {"answered", "lost"},
         \/ pending'[r] = {}
         \/ pending'[r] = pending[r] /\ pc[r] = "clash" /\ pc'[r] = "claim"
            /\ input'[r] = input[r] /\ at'[r] = at[r]
  PROVE  IInv'
<1>1. /\ Typing /\ \A s \in Requests : pending'[s] = pending[s] \/ pending'[s] = {}
      /\ \A s \in Requests : at'[s] >= at[s] /\ at'[s] \in Nat
  <2>1. Typing /\ \A s \in Requests : at[s] \in Nat /\ at'[s] \in Nat
    BY DEF IInv, Typing
  <2>2. \A s \in Requests : pending'[s] = pending[s] \/ pending'[s] = {}
    BY DEF OnlyOf
  <2>3. \A s \in Requests : at'[s] >= at[s]
    BY <2>1 DEF OnlyOf
  <2>4. QED
    BY <2>1, <2>2, <2>3
<1>2. /\ \A s \in Requests : \A i \in Nat : Reached(s, i) => Reached(s, i)'
      /\ \A s \in Requests : Named(s) => Named(s)'
  BY <1>1, TurnsKeep
<1>3. /\ CreatedInTurn' /\ ExternalIdUnique'
      /\ \A a, b \in accounts' : a.id = b.id => a = b
      /\ \A a \in accounts' : \A s \in Requests : a.name = s => Named(s)'
      /\ \A id : IsCommitted(id)' = IsCommitted(id)
  BY <1>1, <1>2, AccountsKeep
<1>4. OneVersion' /\ NamesInTurn'
  BY <1>1, <1>2, <1>3 DEF IInv, OneVersion, NamesInTurn
<1>5. VersionOf'
  <2>1. ASSUME NEW s \in Requests, NEW v \in pending'[s]
        PROVE  /\ IsCommitted(v.id)' \/ v.id = <<s, at'[s]>>
               /\ pc'[s] \in {"clash", "claim"} => v.id = input'[s].target
               /\ pc'[s] \in {"clash", "claim", "commit"}
    <3>1. pending'[s] = pending[s]
      BY <1>1, <2>1
    <3>2. CASE s = r
      BY <1>3, <2>1, <3>1, <3>2 DEF IInv, VersionOf
    <3>3. CASE s # r
      BY <1>3, <2>1, <3>1, <3>3 DEF IInv, VersionOf, OnlyOf
    <3>4. QED
      BY <3>2, <3>3
  <2>2. QED
    BY <2>1 DEF VersionOf
<1>6. Exclusive'
  BY <1>1 DEF IInv, Exclusive
<1>7. QED
  BY <1>3, <1>4, <1>5, <1>6 DEF IInv

\* A step that writes an uncommitted version of its request keeps the invariant when
\* the version keeps away from the rows and external ids of all others.
LEMMA WriteInv ==
  ASSUME IInv, NEW r \in Requests, OnlyOf(r), Typing', UNCHANGED <<accounts, input, at, outcome>>,
         pc[r] \in {"insert", "flush", "save", "claim"}, pc'[r] \in {"clash", "claim", "commit"},
         \A v, w \in pending'[r] : v = w,
         \A v \in pending'[r] :
           /\ IsCommitted(v.id) \/ v.id = <<r, at[r]>>
           /\ pc'[r] \in {"clash", "claim"} => v.id = input[r].target
           /\ \A q \in Requests : v.name = q => q = r \/ Named(q),
         \A v \in pending'[r] : \A s \in Requests \ {r} : \A w \in pending[s] :
           v.id # w.id /\ (v.ext # w.ext \/ v.ext = NoExternalId),
         \A v \in pending'[r] : \A a \in accounts :
           a.id # v.id => v.ext # a.ext \/ v.ext = NoExternalId
  PROVE  IInv'
<1>1. /\ Typing /\ \A s \in Requests \ {r} : pending'[s] = pending[s] /\ pc'[s] = pc[s]
      /\ \A s \in Requests : at'[s] >= at[s] /\ at'[s] \in Nat
  BY DEF IInv, Typing, OnlyOf
<1>2. /\ \A s \in Requests : \A i \in Nat : Reached(s, i) => Reached(s, i)'
      /\ \A s \in Requests : Named(s) => Named(s)'
  BY <1>1, TurnsKeep
<1>3. /\ CreatedInTurn' /\ ExternalIdUnique'
      /\ \A a, b \in accounts' : a.id = b.id => a = b
      /\ \A a \in accounts' : \A s \in Requests : a.name = s => Named(s)'
      /\ \A id : IsCommitted(id)' = IsCommitted(id)
  BY <1>1, <1>2, AccountsKeep
<1>4. OneVersion'
  <2>1. \A s \in Requests : \A v, w \in pending'[s] : v = w
    BY <1>1 DEF IInv, OneVersion
  <2>2. QED
    BY <1>3, <2>1 DEF OneVersion
<1>5. NamesInTurn'
  <2>1. \A s \in Requests : \A v \in pending'[s] : \A q \in Requests : v.name = q => q = s \/ Named(q)
    BY <1>1 DEF IInv, NamesInTurn
  <2>2. QED
    BY <1>2, <1>3, <2>1 DEF NamesInTurn
<1>6. VersionOf'
  <2>1. ASSUME NEW s \in Requests, NEW v \in pending'[s]
        PROVE  /\ IsCommitted(v.id)' \/ v.id = <<s, at'[s]>>
               /\ pc'[s] \in {"clash", "claim"} => v.id = input'[s].target
               /\ pc'[s] \in {"clash", "claim", "commit"}
    <3>1. CASE s = r
      BY <1>3, <2>1, <3>1
    <3>2. CASE s # r
      BY <1>1, <1>3, <2>1, <3>2 DEF IInv, VersionOf
    <3>3. QED
      BY <3>1, <3>2
  <2>2. QED
    BY <2>1 DEF VersionOf
<1>7. Exclusive'
  <2>1. ASSUME NEW s \in Requests, NEW t \in Requests, NEW v \in pending'[s], NEW w \in pending'[t], s # t
        PROVE  v.id # w.id /\ (v.ext # w.ext \/ v.ext = NoExternalId)
    <3>1. CASE s = r
      BY <1>1, <2>1, <3>1
    <3>2. CASE t = r
      BY <1>1, <2>1, <3>2
    <3>3. CASE s # r /\ t # r
      BY <1>1, <2>1, <3>3 DEF IInv, Exclusive
    <3>4. QED
      BY <3>1, <3>2, <3>3
  <2>2. ASSUME NEW s \in Requests, NEW v \in pending'[s], NEW a \in accounts, a.id # v.id
        PROVE  v.ext # a.ext \/ v.ext = NoExternalId
    BY <1>1, <2>2 DEF IInv, Exclusive
  <2>3. QED
    BY <2>1, <2>2 DEF Exclusive
<1>8. QED
  BY <1>3, <1>4, <1>5, <1>6, <1>7 DEF IInv

-------------------------------------------------------------------------------
(* The ways a handler goes on. *)

\* The operation of an input.
LEMMA InputOp ==
  ASSUME NEW i \in Inputs
  PROVE  /\ i.op \in {"create", "import", "update"}
         /\ i.op = "create" => Len(i.rows) = 1
         /\ i.op # "update" => i.rows \in Seq(Row) /\ Len(i.rows) \in Nat \ {0}
<1>1. \A row : Len(<<row>>) = 1
  OBVIOUS
<1>2. \A row \in Row : <<row>> \in Seq(Row)
  OBVIOUS
<1>3. CASE i \in CreateInput
  <2>1. PICK row \in Row : i.rows = <<row>>
    BY <1>3 DEF CreateInput
  <2>2. Len(i.rows) = 1 /\ i.rows \in Seq(Row)
    BY <1>1, <1>2, <2>1
  <2>3. i.op = "create"
    BY <1>3 DEF CreateInput
  <2>4. QED
    BY <2>2, <2>3
<1>4. CASE i \in ImportInput
  <2>1. i.op = "import" /\ i.rows \in Seq(Row) /\ i.rows # <<>>
    BY <1>4 DEF ImportInput
  <2>2. Len(i.rows) \in Nat \ {0}
    BY <2>1
  <2>3. QED
    BY <2>1, <2>2
<1>5. CASE i \in UpdateInput
  BY <1>5 DEF UpdateInput
<1>6. QED
  BY <1>3, <1>4, <1>5, RegistryAssumption

\* The external_id of the row a request creates.
LEMMA RowType ==
  ASSUME Typing, NEW r \in Requests, pc[r] \in {"precheck", "lookup", "insert"}
  PROVE  ThisRow(r).ext \in ExternalIds \union {NoExternalId}
<1>1. input[r] \in Inputs /\ input[r].op # "update"
  BY DEF Typing
<1>2. input[r].rows \in Seq(Row) /\ at[r] \in 1 .. Len(input[r].rows)
  BY <1>1, InputOp DEF Typing
<1>3. ThisRow(r) \in Row
  BY <1>2 DEF ThisRow
<1>4. QED
  BY <1>3 DEF Row

\* A request that is not at one of these steps has no uncommitted version.
LEMMA NothingPending ==
  ASSUME IInv, NEW r \in Requests, pc[r] \notin {"clash", "claim", "commit"}
  PROVE  pending[r] = {}
  BY DEF IInv, VersionOf

\* End rolls back and answers.
LEMMA EndInv ==
  ASSUME IInv, NEW r \in Requests, NEW out \in Outcome, End(r, out), pc[r] \notin {"idle", "done"},
         pc[r] = "refresh" => out \in {"answered", "lost"}
  PROVE  IInv'
<1>1. Typing
  BY DEF IInv
<1>2. Typing'
  BY <1>1 DEF Typing, End, PC
<1>3. OnlyOf(r) /\ pc'[r] = "done" /\ pending'[r] = {} /\ outcome'[r] = out
  BY <1>1 DEF Typing, OnlyOf, End
<1>4. UNCHANGED <<accounts, at, input>> /\ at[r] >= at[r]
  BY <1>1 DEF Typing, End
<1>5. QED
  BY <1>2, <1>3, <1>4, KeepInv

\* Move goes on to another step.
LEMMA MoveInv ==
  ASSUME IInv, NEW r \in Requests, NEW to \in PC, Move(r, to),
         \/ pc[r] = "precheck" /\ to = "lookup"
         \/ pc[r] = "lookup" /\ to = "insert"
         \/ pc[r] = "clash" /\ to = "claim"
         \/ pc[r] = "clash" /\ to = "save" /\ pending[r] = {}
  PROVE  IInv'
<1>1. Typing
  BY DEF IInv
<1>2. UNCHANGED <<accounts, input, at, loaded, pending, results, outcome>> /\ pc' = [pc EXCEPT ![r] = to]
  BY DEF Move, locals
<1>3. Typing'
  BY <1>1, <1>2 DEF Typing
<1>4. OnlyOf(r) /\ pc'[r] = to /\ at[r] >= at[r]
  BY <1>1, <1>2 DEF Typing, OnlyOf
<1>5. pending'[r] = {} \/ (pc[r] = "clash" /\ to = "claim")
  BY <1>2, NothingPending
<1>6. QED
  BY <1>2, <1>3, <1>4, <1>5, KeepInv

\* Deliver notes the result of a row, and answers after the last one.
LEMMA DeliverInv ==
  ASSUME IInv, NEW r \in Requests, NEW status, NEW named, Deliver(r, status, named),
         pc[r] \in {"precheck", "lookup", "refresh"}, pc[r] = "refresh" => input[r].op # "update"
  PROVE  IInv'
<1>1. Typing /\ input[r] \in Inputs /\ input[r].op \in {"create", "import"}
  BY InputOp DEF IInv, Typing
<1>2. /\ at' = [at EXCEPT ![r] = @ + 1] /\ UNCHANGED <<accounts, input, loaded, pending>>
      /\ pc' = [pc EXCEPT ![r] = IF at[r] >= Len(input[r].rows) THEN "done" ELSE FirstStep(input[r].op)]
      /\ outcome' = [outcome EXCEPT ![r] = IF at[r] >= Len(input[r].rows) THEN "answered" ELSE outcome[r]]
  BY DEF Deliver
<1>3. \/ pc'[r] = "done" /\ outcome'[r] = "answered"
      \/ /\ outcome'[r] = outcome[r] /\ ~(at[r] >= Len(input[r].rows))
         /\ pc'[r] = IF input[r].op = "create" THEN "lookup" ELSE "precheck"
  BY <1>1, <1>2 DEF Typing, FirstStep
<1>4. /\ pc' \in [Requests -> PC] /\ outcome' \in [Requests -> Outcome]
      /\ at' \in [Requests -> Nat \ {0}] /\ at'[r] >= at[r] /\ at'[r] > at[r]
  BY <1>1, <1>2 DEF Typing, PC, Outcome, FirstStep
<1>5. OnlyOf(r)
  BY <1>1, <1>2 DEF Typing, OnlyOf
<1>6. Typing'
  <2>1. ASSUME NEW s \in Requests
        PROVE  /\ pc'[s] # "idle" => input'[s] \in Inputs
               /\ pc'[s] \in {"lookup", "insert"} => input'[s].op \in {"create", "import"}
               /\ pc'[s] = "precheck" => input'[s].op = "import"
               /\ pc'[s] \in {"find", "flush", "clash", "save", "claim"} => input'[s].op = "update"
               /\ pc'[s] # "done" => outcome'[s] = "pending"
               /\ pc'[s] = "idle" => at'[s] = 1
               /\ pc'[s] \in {"precheck", "lookup", "insert"} => at'[s] <= Len(input'[s].rows)
    <3>1. CASE s = r
      <4>1. ~(at[r] >= Len(input[r].rows)) => at'[r] <= Len(input[r].rows)
        <5>1. Len(input[r].rows) \in Nat /\ at[r] \in Nat /\ at'[r] = at[r] + 1
          BY <1>1, <1>2, InputOp DEF Typing
        <5>2. QED
          BY <5>1
      <4>2. QED
        BY <1>1, <1>2, <1>3, <3>1, <4>1 DEF Typing
    <3>2. CASE s # r
      BY <1>1, <1>2, <1>5, <3>2 DEF Typing, OnlyOf
    <3>3. QED
      BY <3>1, <3>2
  <2>2. QED
    BY <1>1, <1>2, <1>4, <2>1 DEF Typing
<1>7. pending'[r] = {}
  BY <1>2, NothingPending
<1>8. input[r].op = "import" \/ outcome'[r] = "answered"
  <2>1. input[r].op = "create" => at[r] >= Len(input[r].rows)
    <3>1. at[r] \in Nat /\ at[r] >= 1
      BY <1>1 DEF Typing
    <3>2. input[r].op = "create" => Len(input[r].rows) = 1
      BY <1>1, InputOp
    <3>3. QED
      BY <3>1, <3>2
  <2>2. QED
    BY <1>1, <1>3, <2>1
<1>9. input' = input /\ pc'[r] # "idle"
  BY <1>2, <1>3
<1>10. QED
  BY <1>2, <1>4, <1>5, <1>6, <1>7, <1>8, <1>9, KeepInv

-------------------------------------------------------------------------------
(* Every step keeps the invariant. *)

\* A request is made.
LEMMA BeginInv ==
  ASSUME IInv, NEW r \in Requests, Begin(r)
  PROVE  IInv'
<1>1. Typing /\ pc[r] = "idle"
  BY DEF IInv, Begin
<1>2. PICK i \in Inputs : input' = [input EXCEPT ![r] = i] /\ pc' = [pc EXCEPT ![r] = FirstStep(i.op)]
  BY DEF Begin
<1>3. UNCHANGED <<accounts, at, loaded, pending, results, outcome>>
  BY DEF Begin
<1>4. /\ FirstStep(i.op) \in PC /\ FirstStep(i.op) \in {"precheck", "lookup", "find"}
      /\ FirstStep(i.op) = "precheck" => i.op = "import"
      /\ FirstStep(i.op) = "lookup" => i.op \in {"create", "import"}
      /\ FirstStep(i.op) = "find" => i.op = "update"
  BY InputOp DEF FirstStep, PC
<1>5. /\ OnlyOf(r) /\ at[r] >= at[r] /\ at[r] = 1 /\ input'[r] = i /\ pc'[r] = FirstStep(i.op)
      /\ pc' \in [Requests -> PC] /\ input' \in [Requests -> Inputs \union {NoInput}]
  BY <1>1, <1>2, <1>3, <1>4 DEF Typing, OnlyOf
<1>6. Typing'
  <2>1. ASSUME NEW s \in Requests
        PROVE  /\ pc'[s] # "idle" => input'[s] \in Inputs
               /\ pc'[s] \in {"lookup", "insert"} => input'[s].op \in {"create", "import"}
               /\ pc'[s] = "precheck" => input'[s].op = "import"
               /\ pc'[s] \in {"find", "flush", "clash", "save", "claim"} => input'[s].op = "update"
               /\ pc'[s] # "done" => outcome'[s] = "pending"
               /\ pc'[s] = "idle" => at'[s] = 1
               /\ pc'[s] \in {"precheck", "lookup", "insert"} => at'[s] <= Len(input'[s].rows)
    <3>1. CASE s = r
      <4>1. i.op # "update" => 1 <= Len(i.rows)
        BY InputOp
      <4>2. i.op \in {"create", "import", "update"}
        BY InputOp
      <4>3. QED
        BY <1>1, <1>3, <1>4, <1>5, <3>1, <4>1, <4>2 DEF Typing
    <3>2. CASE s # r
      BY <1>1, <1>3, <1>5, <3>2 DEF Typing, OnlyOf
    <3>3. QED
      BY <3>1, <3>2
  <2>2. QED
    BY <1>1, <1>3, <1>5, <2>1 DEF Typing
<1>7. pending'[r] = {}
  BY <1>1, <1>3, NothingPending
<1>8. QED
  BY <1>1, <1>3, <1>5, <1>6, <1>7, KeepInv

\* One row of import_accounts.
LEMMA PrecheckInv ==
  ASSUME IInv, NEW r \in Requests, Precheck(r)
  PROVE  IInv'
<1>1. /\ pc[r] = "precheck"
      /\ \/ Move(r, "lookup")
         \/ \E status, named : Deliver(r, status, named)
  BY DEF Precheck
<1>2. QED
  BY <1>1, MoveInv, DeliverInv DEF PC

\* create_account looks for the external_id.
LEMMA LookupInv ==
  ASSUME IInv, NEW r \in Requests, Lookup(r)
  PROVE  IInv'
<1>1. /\ pc[r] = "lookup"
      /\ \/ Move(r, "insert")
         \/ End(r, "currency_not_found")
         \/ \E status, named : Deliver(r, status, named)
  BY DEF Lookup
<1>2. QED
  BY <1>1, MoveInv, DeliverInv, EndInv DEF PC, Outcome

\* No uncommitted version of s takes or frees an external id that s does not occupy.
LEMMA NotOccupied ==
  ASSUME NEW s \in Requests, NEW ext, ~Occupies(s, ext), ext # NoExternalId
  PROVE  \A v \in pending[s] : v.ext # ext
  BY DEF Occupies

\* The INSERT of a new account takes an id no version has and an external_id
\* nobody has or takes.
LEMMA InsertInv ==
  ASSUME IInv, NEW r \in Requests, InsertAccount(r)
  PROVE  IInv'
<1>1. Typing /\ pc[r] = "insert" /\ input[r] \in Inputs /\ input[r].op \in {"create", "import"}
  BY DEF IInv, InsertAccount, Typing
<1>2. CASE End(r, "server_error")
  BY <1>1, <1>2, EndInv DEF Outcome
<1>3. CASE ~End(r, "server_error")
  <2> DEFINE new == [id |-> <<r, at[r]>>, ext |-> ThisRow(r).ext, name |-> r]
  <2>1. /\ pending' = [pending EXCEPT ![r] = {new}] /\ pc' = [pc EXCEPT ![r] = "commit"]
        /\ UNCHANGED <<accounts, input, at, loaded, results, outcome>>
        /\ Holders(new.ext) = {} /\ \A s \in Requests \ {r} : ~Occupies(s, new.ext)
    BY <1>3 DEF InsertAccount
  <2>2. new.id = <<r, at[r]>> /\ new.name = r /\ new.ext = ThisRow(r).ext
    OBVIOUS
  <2>3. \A a \in accounts : a.id # new.id
    <3>1. SUFFICES ASSUME NEW a \in accounts, a.id = <<r, at[r]>> PROVE FALSE
      BY <2>2
    <3>2. at[r] \in Nat \ {0}
      BY <1>1 DEF Typing
    <3>3. a.id \notin {e.id : e \in Existing}
      <4>1. a.id \in Requests \X (Nat \ {0})
        BY <3>1, <3>2
      <4>2. \A e \in Existing : e.id \notin Requests \X (Nat \ {0})
        BY RegistryAssumption
      <4>3. QED
        BY <4>1, <4>2
    <3>4. PICK s \in Requests : \E i \in 1 .. at[s] : a.id = <<s, i>> /\ Reached(s, i)
      BY <3>3 DEF IInv, CreatedInTurn
    <3>5. Reached(r, at[r])
      BY <3>1, <3>4
    <3>6. QED
      BY <1>1, <3>2, <3>5 DEF Reached
  <2>4. \A s \in Requests \ {r} : \A w \in pending[s] : new.id # w.id
    <3>1. SUFFICES ASSUME NEW s \in Requests \ {r}, NEW w \in pending[s] PROVE new.id # w.id
      OBVIOUS
    <3>2. IsCommitted(w.id) \/ w.id = <<s, at[s]>>
      BY DEF IInv, VersionOf
    <3>3. QED
      BY <2>2, <2>3, <3>2 DEF IsCommitted
  <2>5. new.ext = NoExternalId \/ \A s \in Requests \ {r} : \A w \in pending[s] : w.ext # new.ext
    BY <2>1, NotOccupied
  <2>6. new.ext = NoExternalId \/ \A a \in accounts : a.ext # new.ext
    BY <2>1 DEF Holders
  <2>7. new \in Account
    <3>1. ThisRow(r).ext \in ExternalIds \union {NoExternalId}
      BY <1>1, RowType
    <3>2. QED
      BY <1>1, <3>1 DEF Typing, Account, Ids
  <2> HIDE DEF new
  <2>8. /\ pending'[r] = {new} /\ pc'[r] = "commit" /\ OnlyOf(r)
        /\ pending' \in [Requests -> SUBSET Account] /\ pc' \in [Requests -> PC]
    BY <1>1, <2>1, <2>7 DEF Typing, OnlyOf, PC
  <2>9. Typing'
    BY <1>1, <2>1, <2>8 DEF Typing, OnlyOf
  <2>10. QED
    BY <1>1, <2>1, <2>2, <2>3, <2>4, <2>5, <2>6, <2>8, <2>9, WriteInv
<1>4. QED
  BY <1>2, <1>3

\* update_account reads the account.
LEMMA FindAccountInv ==
  ASSUME IInv, NEW r \in Requests, FindAccount(r)
  PROVE  IInv'
<1>1. Typing /\ pc[r] = "find"
  BY DEF IInv, FindAccount
<1>2. CASE End(r, "account_not_found")
  BY <1>1, <1>2, EndInv DEF Outcome
<1>3. CASE ~End(r, "account_not_found")
  <2>1. PICK to \in {"flush", "clash", "save", "commit"} :
          pc' = [pc EXCEPT ![r] = to] /\ UNCHANGED <<accounts, input, at, pending, results, outcome>>
    BY <1>3 DEF FindAccount
  <2>2. OnlyOf(r) /\ at[r] >= at[r] /\ pc'[r] = to /\ pc' \in [Requests -> PC]
    BY <1>1, <2>1 DEF Typing, OnlyOf, PC
  <2>3. Typing'
    BY <1>1, <2>1, <2>2 DEF Typing, OnlyOf
  <2>4. pending'[r] = {}
    BY <1>1, <2>1, NothingPending
  <2>5. QED
    BY <1>1, <2>1, <2>2, <2>3, <2>4, KeepInv
<1>4. QED
  BY <1>2, <1>3

\* A step that writes a version leaves the state well typed.
LEMMA WriteTyping ==
  ASSUME Typing, NEW r \in Requests, NEW to \in {"clash", "claim", "commit"},
         pc' = [pc EXCEPT ![r] = to], pc[r] \in {"flush", "save", "claim"},
         NEW versions \in SUBSET Account, pending' = [pending EXCEPT ![r] = versions],
         UNCHANGED <<accounts, input, at, loaded, results, outcome>>
  PROVE  Typing' /\ OnlyOf(r) /\ pc'[r] = to /\ pending'[r] = versions
<1>1. /\ pc'[r] = to /\ pending'[r] = versions /\ OnlyOf(r)
      /\ pc' \in [Requests -> PC] /\ pending' \in [Requests -> SUBSET Account]
  BY DEF Typing, OnlyOf, PC
<1>2. QED
  BY <1>1 DEF Typing, OnlyOf

\* The first UPDATE of a row.
LEMMA LockRowInv ==
  ASSUME IInv, NEW r \in Requests, LockRow(r)
  PROVE  IInv'
<1>1. /\ Typing /\ pc[r] \in {"flush", "save"}
      /\ \A s \in Requests \ {r} : \A w \in pending[s] : w.id # input[r].target
  BY DEF IInv, LockRow
<1> DEFINE new(a) == [a EXCEPT !.name = IF input[r].rename THEN r ELSE a.name]
           versions == {new(a) : a \in Target(r)}
           to == IF pc[r] = "flush" THEN "clash" ELSE "claim"
<1>2. /\ pending' = [pending EXCEPT ![r] = versions] /\ pc' = [pc EXCEPT ![r] = to]
      /\ UNCHANGED <<accounts, input, at, loaded, results, outcome>>
  BY DEF LockRow
<1>3. \A a \in Target(r) : /\ a \in accounts /\ a \in Account /\ a.id = input[r].target
                           /\ new(a) \in Account /\ new(a).id = a.id /\ new(a).ext = a.ext
                           /\ new(a).name \in {r, a.name}
  BY <1>1 DEF Target, Typing, Account
<1>4. \A a, b \in Target(r) : a = b
  BY <1>3 DEF IInv, OneVersion
<1>5. versions \in SUBSET Account /\ to \in {"clash", "claim", "commit"}
  BY <1>3
<1> HIDE DEF new, to
<1>6. \A v \in versions : \E a \in Target(r) : v = new(a)
  OBVIOUS
<1>7. \A v, w \in versions : v = w
  BY <1>4, <1>6
<1> HIDE DEF versions
<1>8. Typing' /\ OnlyOf(r) /\ pc'[r] = to /\ pending'[r] = versions
  BY <1>1, <1>2, <1>5, WriteTyping
<1>9. ASSUME NEW v \in versions
      PROVE  /\ IsCommitted(v.id) /\ v.id = input[r].target
             /\ \A q \in Requests : v.name = q => q = r \/ Named(q)
             /\ \A s \in Requests \ {r} : \A w \in pending[s] :
                  v.id # w.id /\ (v.ext # w.ext \/ v.ext = NoExternalId)
             /\ \A b \in accounts : b.id # v.id => v.ext # b.ext \/ v.ext = NoExternalId
  <2>1. PICK a \in Target(r) : v = new(a)
    BY <1>6
  <2>2. a \in accounts /\ v.id = a.id /\ v.ext = a.ext /\ v.name \in {r, a.name} /\ a.id = input[r].target
    BY <1>3, <2>1
  <2>3. \A q \in Requests : v.name = q => q = r \/ Named(q)
    BY <2>2 DEF IInv, NamesInTurn
  <2>4. \A s \in Requests \ {r} : \A w \in pending[s] :
          v.id # w.id /\ (v.ext # w.ext \/ v.ext = NoExternalId)
    BY <1>1, <2>2 DEF IInv, Exclusive
  <2>5. \A b \in accounts : b.id # v.id => v.ext # b.ext \/ v.ext = NoExternalId
    BY <2>2 DEF IInv, ExternalIdUnique
  <2>6. QED
    BY <2>2, <2>3, <2>4, <2>5 DEF IsCommitted
<1>10. QED
  BY <1>1, <1>2, <1>5, <1>7, <1>8, <1>9, WriteInv

\* The query for a clash.
LEMMA CheckClashInv ==
  ASSUME IInv, NEW r \in Requests, CheckClash(r)
  PROVE  IInv'
<1>1. pc[r] = "clash"
  BY DEF CheckClash
<1>2. CASE End(r, "duplicate_account")
  BY <1>1, <1>2, EndInv DEF Outcome
<1>3. CASE Move(r, "save") /\ pending[r] = {}
  BY <1>1, <1>3, MoveInv DEF PC
<1>4. CASE Move(r, "claim")
  BY <1>1, <1>4, MoveInv DEF PC
<1>5. QED
  BY <1>2, <1>3, <1>4 DEF CheckClash

\* The external_id of an update enters the unique index.
LEMMA ClaimInv ==
  ASSUME IInv, NEW r \in Requests, ClaimExternalId(r)
  PROVE  IInv'
<1>1. Typing /\ pc[r] = "claim" /\ input[r] \in Inputs /\ input[r].op = "update"
  BY DEF IInv, Typing, ClaimExternalId
<1>2. CASE End(r, "duplicate_account")
  BY <1>1, <1>2, EndInv DEF Outcome
<1>3. CASE ~End(r, "duplicate_account")
  <2> DEFINE ext == IF ChangesExt(r) THEN input[r].ext ELSE NoExternalId
             new(u) == [u EXCEPT !.ext = IF ext = NoExternalId THEN u.ext ELSE ext]
             versions == {new(u) : u \in pending[r]}
  <2>1. /\ \A s \in Requests \ {r} : ~Occupies(s, ext)
        /\ Holders(ext) \ Target(r) = {}
        /\ pending' = [pending EXCEPT ![r] = versions] /\ pc' = [pc EXCEPT ![r] = "commit"]
        /\ UNCHANGED <<accounts, input, at, loaded, results, outcome>>
    BY <1>1, <1>3 DEF ClaimExternalId, Typing
  <2>2. ext \in ExternalIds \union {NoExternalId}
    BY <1>1, RegistryAssumption DEF UpdateInput, CreateInput, ImportInput
  <2> HIDE DEF ext
  <2>3. \A u \in pending[r] : /\ u \in Account /\ new(u) \in Account
                              /\ new(u).id = u.id /\ new(u).name = u.name
                              /\ new(u).ext = IF ext = NoExternalId THEN u.ext ELSE ext
    <3>1. \A u \in pending[r] : u \in Account
      BY <1>1 DEF Typing
    <3>2. \A u \in Account : /\ new(u) \in Account
                             /\ new(u).id = u.id /\ new(u).name = u.name
                             /\ new(u).ext = IF ext = NoExternalId THEN u.ext ELSE ext
      BY <2>2 DEF Account
    <3>3. QED
      BY <3>1, <3>2
  <2>4. versions \in SUBSET Account
    BY <2>3
  <2> HIDE DEF new
  <2>5. \A v \in versions : \E u \in pending[r] : v = new(u)
    OBVIOUS
  <2>6. \A v, w \in versions : v = w
    BY <2>5 DEF IInv, OneVersion
  <2> HIDE DEF versions
  <2>7. Typing' /\ OnlyOf(r) /\ pc'[r] = "commit" /\ pending'[r] = versions
    BY <1>1, <2>1, <2>4, WriteTyping
  <2>8. ASSUME NEW v \in versions
        PROVE  /\ IsCommitted(v.id) \/ v.id = <<r, at[r]>>
               /\ \A q \in Requests : v.name = q => q = r \/ Named(q)
               /\ \A s \in Requests \ {r} : \A w \in pending[s] :
                    v.id # w.id /\ (v.ext # w.ext \/ v.ext = NoExternalId)
               /\ \A b \in accounts : b.id # v.id => v.ext # b.ext \/ v.ext = NoExternalId
    <3>1. PICK u \in pending[r] : v = new(u)
      BY <2>5
    <3>2. /\ v.id = u.id /\ v.name = u.name
          /\ v.ext = IF ext = NoExternalId THEN u.ext ELSE ext
      BY <2>3, <3>1
    <3>3. v.id = input[r].target /\ (IsCommitted(v.id) \/ v.id = <<r, at[r]>>)
      BY <1>1, <3>2 DEF IInv, VersionOf
    <3>4. \A q \in Requests : v.name = q => q = r \/ Named(q)
      BY <3>2 DEF IInv, NamesInTurn
    <3>5. \A s \in Requests \ {r} : \A w \in pending[s] :
            v.id # w.id /\ (u.ext # w.ext \/ u.ext = NoExternalId)
      BY <3>2 DEF IInv, Exclusive
    <3>6. \A b \in accounts : b.id # v.id => u.ext # b.ext \/ u.ext = NoExternalId
      BY <3>2 DEF IInv, Exclusive
    <3>7. CASE ext = NoExternalId
      BY <3>2, <3>3, <3>4, <3>5, <3>6, <3>7
    <3>8. CASE ext # NoExternalId
      <4>1. \A s \in Requests \ {r} : \A w \in pending[s] : w.ext # ext
        BY <2>1, <3>8, NotOccupied
      <4>2. \A b \in accounts : b.ext = ext => b.id = v.id
        BY <2>1, <3>3, <3>8 DEF Holders, Target
      <4>3. QED
        BY <3>2, <3>3, <3>4, <3>5, <3>8, <4>1, <4>2
    <3>9. QED
      BY <3>7, <3>8
  <2>9. QED
    BY <1>1, <2>1, <2>6, <2>7, <2>8, WriteInv
<1>4. QED
  BY <1>2, <1>3

\* The COMMIT of a request's version.
LEMMA CommitInv ==
  ASSUME IInv, NEW r \in Requests, Commit(r)
  PROVE  IInv'
<1> DEFINE kept == {a \in accounts : \A v \in pending[r] : v.id # a.id}
<1>1. /\ Typing /\ pc[r] = "commit" /\ accounts' = kept \union pending[r]
      /\ pending' = [pending EXCEPT ![r] = {}] /\ pc' = [pc EXCEPT ![r] = "refresh"]
      /\ UNCHANGED <<input, at, loaded, results, outcome>>
  BY DEF IInv, Commit
<1>2. /\ OnlyOf(r) /\ pending'[r] = {} /\ pc'[r] = "refresh" /\ pc' \in [Requests -> PC]
      /\ pending' \in [Requests -> SUBSET Account] /\ accounts' \subseteq Account
  BY <1>1 DEF Typing, OnlyOf, PC
<1>3. Typing'
  BY <1>1, <1>2 DEF Typing, OnlyOf
<1>4. /\ \A s \in Requests : at[s] \in Nat \ {0}
      /\ \A s \in Requests : \A i \in Nat : Reached(s, i) => Reached(s, i)'
      /\ \A s \in Requests : Named(s) => Named(s)'
  <2>1. at'[r] \in Nat /\ at'[r] >= at[r] /\ input'[r] = input[r]
    BY <1>1 DEF Typing
  <2>2. QED
    BY <1>1, <1>2, <2>1, TurnsKeep DEF Typing
<1>5. \A s \in Requests : \A w \in pending'[s] : s # r /\ w \in pending[s]
  BY <1>2 DEF OnlyOf
<1>6. \A a \in accounts' : a \in pending[r] \/ (a \in accounts /\ \A v \in pending[r] : v.id # a.id)
  BY <1>1
<1>7. \A v, w \in pending[r] : v = w
  BY DEF IInv, OneVersion
<1>8. OneVersion'
  <2>1. \A a, b \in accounts' : a.id = b.id => a = b
    BY <1>6, <1>7 DEF IInv, OneVersion
  <2>2. \A s \in Requests : \A v, w \in pending'[s] : v = w
    BY <1>5 DEF IInv, OneVersion
  <2>3. QED
    BY <2>1, <2>2 DEF OneVersion
<1>9. \A id : IsCommitted(id) => IsCommitted(id)'
  <2>1. SUFFICES ASSUME NEW a \in accounts PROVE \E b \in accounts' : b.id = a.id
    BY DEF IsCommitted
  <2>2. QED
    BY <1>1
<1>10. CreatedInTurn'
  <2>1. SUFFICES ASSUME NEW a \in accounts', a.id \notin {e.id : e \in Existing}
                 PROVE  \E s \in Requests : \E i \in 1 .. at[s] : a.id = <<s, i>> /\ Reached(s, i)'
    BY <1>1 DEF CreatedInTurn
  <2>2. CASE a.id = <<r, at[r]>>
    <3>1. at[r] \in 1 .. at[r]
      BY <1>4
    <3>2. PICK n \in 1 .. at[r] : n = at[r]
      BY <3>1
    <3>3. Reached(r, n)'
      BY <1>1, <1>2, <3>2 DEF Reached
    <3>4. QED
      BY <2>2, <3>2, <3>3
  <2>3. CASE IsCommitted(a.id)
    <3>1. PICK b \in accounts : b.id = a.id
      BY <2>3 DEF IsCommitted
    <3>2. PICK s \in Requests : \E i \in 1 .. at[s] : b.id = <<s, i>> /\ Reached(s, i)
      BY <2>1, <3>1 DEF IInv, CreatedInTurn
    <3>3. \A i \in 1 .. at[s] : i \in Nat
      BY <1>4
    <3>4. QED
      BY <1>4, <3>1, <3>2, <3>3
  <2>4. QED
    <3>1. IsCommitted(a.id) \/ a.id = <<r, at[r]>>
      BY <1>6 DEF IInv, VersionOf, IsCommitted
    <3>2. QED
      BY <2>2, <2>3, <3>1
<1>11. VersionOf'
  BY <1>1, <1>2, <1>5, <1>9 DEF IInv, VersionOf, OnlyOf
<1>12. NamesInTurn'
  <2>1. Named(r)'
    BY <1>2 DEF Named
  <2>2. \A a \in accounts' : \A s \in Requests : a.name = s => Named(s)'
    BY <1>4, <1>6, <2>1 DEF IInv, NamesInTurn
  <2>3. \A s \in Requests : \A v \in pending'[s] : \A q \in Requests : v.name = q => q = s \/ Named(q)'
    BY <1>4, <1>5 DEF IInv, NamesInTurn
  <2>4. QED
    BY <2>2, <2>3 DEF NamesInTurn
<1>13. ExternalIdUnique'
  BY <1>6, <1>7 DEF IInv, ExternalIdUnique, Exclusive
<1>14. Exclusive'
  BY <1>5, <1>6 DEF IInv, Exclusive
<1>15. QED
  BY <1>3, <1>8, <1>10, <1>11, <1>12, <1>13, <1>14 DEF IInv

\* The account is read back.
LEMMA RefreshInv ==
  ASSUME IInv, NEW r \in Requests, Refresh(r)
  PROVE  IInv'
<1>1. /\ pc[r] = "refresh"
      /\ \/ End(r, "answered")
         \/ input[r].op # "update" /\ \E status, named : Deliver(r, status, named)
  BY DEF Refresh
<1>2. QED
  BY <1>1, DeliverInv, EndInv DEF Outcome

\* PostgreSQL aborts a waiting request, or the request is lost.
LEMMA AbortInv ==
  ASSUME IInv, NEW r \in Requests, DetectDeadlock(r) \/ Lose(r)
  PROVE  IInv'
<1>1. CASE DetectDeadlock(r)
  <2>1. PICK s : WaitsFor(r, s)
    BY <1>1 DEF DetectDeadlock, InCircle
  <2>2. pc[r] \in {"insert", "claim", "flush", "save"}
    BY <2>1 DEF WaitsFor
  <2>3. QED
    BY <1>1, <2>2, EndInv DEF DetectDeadlock, Outcome
<1>2. CASE Lose(r)
  BY <1>2, EndInv DEF Lose, Outcome
<1>3. QED
  BY <1>1, <1>2

\* The invariant is inductive.
LEMMA NextInv == IInv /\ [Next]_vars => IInv'
<1>1. SUFFICES ASSUME IInv, [Next]_vars PROVE IInv'
  OBVIOUS
<1>2. CASE UNCHANGED vars
  BY <1>1, <1>2 DEF vars, IInv, Typing, OneVersion, CreatedInTurn, Reached, IsCommitted, VersionOf,
     NamesInTurn, Named, ExternalIdUnique, Exclusive
<1>3. ASSUME NEW r \in Requests, Begin(r) \/ Step(r) \/ DetectDeadlock(r) \/ Lose(r)
      PROVE  IInv'
  BY <1>1, <1>3, BeginInv, PrecheckInv, LookupInv, InsertInv, FindAccountInv, LockRowInv,
     CheckClashInv, ClaimInv, CommitInv, RefreshInv, AbortInv DEF Step
<1>4. QED
  BY <1>1, <1>2, <1>3 DEF Next, Quiet

\* Every reachable state has the invariant.
THEOREM Invariant == Spec => []IInv
  BY InitInv, NextInv, PTL DEF Spec

\* An external_id names one account at most (uq_accounts_tenant_external), however
\* creations, imports and updates interleave.
THEOREM ExternalIdsUnique == Spec => []ExternalIdUnique
<1>1. IInv => ExternalIdUnique
  BY DEF IInv
<1>2. QED
  BY Invariant, <1>1, PTL

\* A creation or an update that failed has changed no account.
THEOREM FailuresLeaveNoTrace == Spec => []NoTraceOfFailure
<1>1. IInv => NoTraceOfFailure
  <2>1. SUFFICES ASSUME IInv, NEW r \in Requests, outcome[r] \notin {"pending", "answered", "lost"},
                        input[r].op # "import", NEW a \in accounts, a.name = r
                 PROVE  FALSE
    BY DEF NoTraceOfFailure
  <2>2. Named(r)
    BY <2>1 DEF IInv, NamesInTurn
  <2>3. pc[r] = "done"
    BY <2>1 DEF IInv, Typing
  <2>4. QED
    BY <2>1, <2>2, <2>3 DEF Named
<1>2. QED
  BY Invariant, <1>1, PTL

-------------------------------------------------------------------------------
(* What creations and imports are told, as long as updates only rename: that every
row under one external_id names one account, and that a report tells what became
of each row.  An account then keeps its id and its external_id for ever, those of
the row that created it. *)

\* No update changes an external_id.
KeepsIds == \A i \in Inputs : i.op = "update" => i.ext = NoExternalId

Result == [status: {"created", "skipped", "error"}, accounts: SUBSET Account]

\* A committed account has this id and this external_id.
Names(id, ext) == \E a \in accounts : a.id = id /\ a.ext = ext

\* A pending version renames a committed account or is the new account of its row,
\* which is committed before it is read back.
Faithful(r) ==
  /\ \A v \in pending[r] :
       Names(v.id, v.ext) \/ (v.id = <<r, at[r]>> /\ v.ext = ThisRow(r).ext)
  /\ pc[r] = "commit" /\ input[r].op # "update" => \E v \in pending[r] : v.id = <<r, at[r]>>
  /\ pc[r] = "refresh" /\ input[r].op # "update" => IsCommitted(<<r, at[r]>>)

\* An account carries the external_id of its row.
CarriesExt(r) ==
  \A a \in accounts : \A i \in Nat \ {0} : a.id = <<r, i>> => a.ext = input[r].rows[i].ext

\* The report of row i tells what became of it.
Truthful(r, i) ==
  LET named == results[r][i].accounts
  IN /\ \A a \in named : Names(a.id, input[r].rows[i].ext)
     /\ results[r][i].status = "error" => named = {} /\ ~IsCommitted(<<r, i>>)
     /\ results[r][i].status # "error" => named # {} /\ \A a, b \in named : a.id = b.id

Reported(r) ==
  /\ Len(results[r]) = at[r] - 1
  /\ \A i \in 1 .. Len(results[r]) : Truthful(r, i)

Importing ==
  /\ results \in [Requests -> Seq(Result)]
  /\ \A r \in Requests : Faithful(r) /\ CarriesExt(r) /\ Reported(r)

-------------------------------------------------------------------------------

\* A request has committed no account for the row it is at, nor for a later one.
LEMMA NotYet ==
  ASSUME IInv, NEW r \in Requests, pc[r] \notin {"refresh", "done"},
         NEW i \in Nat \ {0}, i >= at[r]
  PROVE  ~IsCommitted(<<r, i>>)
<1>1. SUFFICES ASSUME NEW a \in accounts, a.id = <<r, i>>
               PROVE  FALSE
  BY DEF IsCommitted
<1>2. a.id \notin {e.id : e \in Existing}
  <2>1. a.id \in Requests \X (Nat \ {0})
    BY <1>1
  <2>2. QED
    BY <2>1, RegistryAssumption
<1>3. PICK s \in Requests : \E j \in 1 .. at[s] : a.id = <<s, j>> /\ Reached(s, j)
  BY <1>2 DEF IInv, CreatedInTurn
<1>4. PICK j \in 1 .. at[s] : a.id = <<s, j>> /\ Reached(s, j)
  BY <1>3
<1>5. s = r /\ j = i
  BY <1>1, <1>4
<1>6. at[r] \in Nat
  BY DEF IInv, Typing
<1>7. QED
  BY <1>4, <1>5, <1>6 DEF Reached

\* A request that a step leaves alone, when it commits nothing.
LEMMA OthersKeep ==
  ASSUME Importing, NEW r \in Requests, OnlyOf(r), accounts' = accounts,
         NEW s \in Requests \ {r}, results'[s] = results[s]
  PROVE  Faithful(s)' /\ CarriesExt(s)' /\ Reported(s)'
<1>1. Faithful(s) /\ CarriesExt(s) /\ Reported(s)
  BY DEF Importing
<1>2. pc'[s] = pc[s] /\ input'[s] = input[s] /\ at'[s] = at[s] /\ pending'[s] = pending[s]
  BY DEF OnlyOf
<1>3. Faithful(s)'
  BY <1>1, <1>2 DEF Faithful, Names, IsCommitted, ThisRow
<1>4. CarriesExt(s)'
  BY <1>1, <1>2 DEF CarriesExt
<1>5. Reported(s)'
  BY <1>1, <1>2 DEF Reported, Truthful, Names, IsCommitted
<1>6. QED
  BY <1>3, <1>4, <1>5

\* A step that commits nothing and reports nothing, whatever it writes.
LEMMA QuietStep ==
  ASSUME Importing, NEW r \in Requests, OnlyOf(r),
         UNCHANGED <<accounts, input, at, results>>,
         pc'[r] # "refresh",
         \A v \in pending'[r] :
           Names(v.id, v.ext) \/ (v.id = <<r, at[r]>> /\ v.ext = ThisRow(r).ext),
         pc'[r] = "commit" /\ input[r].op # "update" =>
           \E v \in pending'[r] : v.id = <<r, at[r]>>
  PROVE  Importing'
<1>1. Faithful(r) /\ CarriesExt(r) /\ Reported(r)
  BY DEF Importing
<1>2. Faithful(r)'
  BY <1>1 DEF Faithful, Names, IsCommitted, ThisRow
<1>3. CarriesExt(r)'
  BY <1>1 DEF CarriesExt
<1>4. Reported(r)'
  BY <1>1 DEF Reported, Truthful, Names, IsCommitted
<1>5. QED
  BY <1>2, <1>3, <1>4, OthersKeep DEF Importing

\* A row is reported truthfully.
LEMMA DeliverImport ==
  ASSUME IInv, Importing, NEW r \in Requests,
         NEW status \in {"created", "skipped", "error"}, NEW named \in SUBSET Account,
         Deliver(r, status, named),
         pending[r] = {}, input[r].op # "update",
         \A a \in named : Names(a.id, ThisRow(r).ext),
         status = "error" => named = {} /\ ~IsCommitted(<<r, at[r]>>),
         status # "error" => named # {} /\ \A a, b \in named : a.id = b.id
  PROVE  Importing'
<1> DEFINE result == [status |-> status, accounts |-> named]
<1>1. /\ Faithful(r) /\ CarriesExt(r) /\ Reported(r)
      /\ at[r] \in Nat \ {0} /\ Typing /\ results \in [Requests -> Seq(Result)]
  BY DEF Importing, IInv, Typing
<1>2. /\ at' = [at EXCEPT ![r] = @ + 1]
      /\ results' = [results EXCEPT ![r] = Append(@, result)]
      /\ UNCHANGED <<accounts, input, pending>>
  BY DEF Deliver
<1>3. pc'[r] \in {"done", "precheck", "lookup", "find"}
  BY <1>1 DEF Deliver, FirstStep, Typing
<1>4. OnlyOf(r) /\ at'[r] = at[r] + 1
  BY <1>1, <1>2 DEF Deliver, OnlyOf, Typing
<1>5. /\ results' \in [Requests -> Seq(Result)] /\ results'[r] = Append(results[r], result)
      /\ \A s \in Requests \ {r} : results'[s] = results[s]
  <2>1. result \in Result
    BY DEF Result
  <2>2. QED
    BY <1>1, <1>2, <2>1
<1>6. Faithful(r)'
  BY <1>2, <1>3 DEF Faithful
<1>7. CarriesExt(r)'
  BY <1>1, <1>2 DEF CarriesExt
<1>8. /\ Len(results'[r]) = at[r] /\ results'[r][at[r]] = result
      /\ \A i \in 1 .. Len(results[r]) : results'[r][i] = results[r][i]
      /\ Len(results[r]) = at[r] - 1
  BY <1>1, <1>5 DEF Reported
<1>9. Reported(r)'
  <2>1. ASSUME NEW i \in 1 .. at[r]
        PROVE  Truthful(r, i)'
    <3>1. CASE i = at[r]
      <4>1. results'[r][i].status = status /\ results'[r][i].accounts = named
        BY <1>8, <3>1
      <4>2. input' = input /\ accounts' = accounts /\ ThisRow(r) = input[r].rows[i]
        BY <1>2, <3>1 DEF ThisRow
      <4> HIDE DEF result
      <4>3. QED
        BY <3>1, <4>1, <4>2 DEF Truthful, Names, IsCommitted
    <3>2. CASE i # at[r]
      <4>1. i \in 1 .. Len(results[r])
        BY <1>1, <1>8, <3>2
      <4>2. Truthful(r, i) /\ results'[r][i] = results[r][i]
        BY <1>1, <1>8, <4>1 DEF Reported
      <4>3. QED
        BY <1>2, <4>2 DEF Truthful, Names, IsCommitted
    <3>3. QED
      BY <3>1, <3>2
  <2>2. QED
    BY <1>1, <1>4, <1>8, <2>1 DEF Reported
<1>10. QED
  BY <1>2, <1>4, <1>5, <1>6, <1>7, <1>9, OthersKeep DEF Importing

\* The handler ends, or goes on without writing.
LEMMA EndImport ==
  ASSUME IInv, Importing, NEW r \in Requests, NEW out, End(r, out)
  PROVE  Importing'
<1>1. OnlyOf(r) /\ pc'[r] = "done" /\ pending'[r] = {} /\ UNCHANGED <<accounts, input, at, results>>
  BY DEF End, OnlyOf, IInv, Typing
<1>2. QED
  BY <1>1, QuietStep

\* The handler goes on to its next query.
LEMMA MoveImport ==
  ASSUME IInv, Importing, NEW r \in Requests,
         NEW to \in {"lookup", "insert", "claim", "save"}, Move(r, to)
  PROVE  Importing'
<1>1. /\ OnlyOf(r) /\ pc'[r] = to /\ pending'[r] = pending[r]
      /\ UNCHANGED <<accounts, input, at, results>>
  BY DEF Move, locals, OnlyOf, IInv, Typing
<1>2. QED
  BY <1>1, QuietStep DEF Importing, Faithful

\* An external_id has one holder.
LEMMA OneHolder ==
  ASSUME IInv, NEW ext
  PROVE  /\ \A a \in Holders(ext) : Names(a.id, ext)
         /\ \A a, b \in Holders(ext) : a.id = b.id
         /\ Holders(ext) \in SUBSET Account
  BY DEF IInv, Typing, ExternalIdUnique, Holders, Names

\* A row that is not created yet has created nothing.
LEMMA NothingYet ==
  ASSUME IInv, NEW r \in Requests, pc[r] \in {"precheck", "lookup"}
  PROVE  pending[r] = {} /\ input[r].op # "update" /\ ~IsCommitted(<<r, at[r]>>)
<1>1. at[r] \in Nat \ {0} /\ input[r].op # "update"
  BY DEF IInv, Typing
<1>2. QED
  BY <1>1, NotYet, NothingPending

\* The import's own check reports what it found, or lets the row pass.
LEMMA PrecheckImport ==
  ASSUME IInv, Importing, NEW r \in Requests, Precheck(r)
  PROVE  Importing'
<1> DEFINE found == Holders(ThisRow(r).ext)
<1>1. pc[r] = "precheck"
  BY DEF Precheck
<1>2. CASE Deliver(r, "error", {})
  BY <1>1, <1>2, NothingYet, DeliverImport
<1>3. CASE found # {} /\ Deliver(r, "skipped", found)
  BY <1>1, <1>3, NothingYet, OneHolder, DeliverImport
<1>4. CASE Move(r, "lookup")
  BY <1>4, MoveImport
<1>5. QED
  BY <1>2, <1>3, <1>4 DEF Precheck

\* create_account returns the holder it found, or goes on.
LEMMA LookupImport ==
  ASSUME IInv, Importing, NEW r \in Requests, Lookup(r)
  PROVE  Importing'
<1> DEFINE found == Holders(ThisRow(r).ext)
<1>1. pc[r] = "lookup"
  BY DEF Lookup
<1>2. CASE Deliver(r, "error", {})
  BY <1>1, <1>2, NothingYet, DeliverImport
<1>3. CASE found # {} /\ Deliver(r, "created", found)
  BY <1>1, <1>3, NothingYet, OneHolder, DeliverImport
<1>4. CASE Move(r, "insert") \/ End(r, "currency_not_found")
  BY <1>4, MoveImport, EndImport
<1>5. QED
  BY <1>2, <1>3, <1>4 DEF Lookup

\* The flushed INSERT makes the new account of the row pending.
LEMMA InsertImport ==
  ASSUME IInv, Importing, NEW r \in Requests, InsertAccount(r)
  PROVE  Importing'
<1>1. CASE End(r, "server_error")
  BY <1>1, EndImport
<1>2. CASE ~End(r, "server_error")
  <2> DEFINE new == [id |-> <<r, at[r]>>, ext |-> ThisRow(r).ext, name |-> r]
  <2>1. /\ pending' = [pending EXCEPT ![r] = {new}] /\ pc' = [pc EXCEPT ![r] = "commit"]
        /\ UNCHANGED <<accounts, input, at, results, outcome>>
    BY <1>2 DEF InsertAccount
  <2>2. OnlyOf(r) /\ pc'[r] = "commit" /\ pending'[r] = {new}
    BY <2>1 DEF OnlyOf, IInv, Typing
  <2>3. new.id = <<r, at[r]>> /\ new.ext = ThisRow(r).ext
    OBVIOUS
  <2> HIDE DEF new
  <2>4. QED
    BY <2>1, <2>2, <2>3, QuietStep
<1>3. QED
  BY <1>1, <1>2

\* update_account reads its target and writes nothing.
LEMMA FindAccountImport ==
  ASSUME IInv, Importing, NEW r \in Requests, FindAccount(r)
  PROVE  Importing'
<1>1. CASE End(r, "account_not_found")
  BY <1>1, EndImport
<1>2. CASE ~End(r, "account_not_found")
  <2>1. /\ pc'[r] # "refresh" /\ OnlyOf(r) /\ pending[r] = {} /\ pending'[r] = {}
        /\ input[r].op = "update" /\ UNCHANGED <<accounts, input, at, results>>
    BY <1>2, NothingPending DEF FindAccount, OnlyOf, IInv, Typing
  <2>2. QED
    BY <2>1, QuietStep
<1>3. QED
  BY <1>1, <1>2

\* A rename keeps the id and the external_id.
LEMMA LockRowImport ==
  ASSUME IInv, Importing, NEW r \in Requests, LockRow(r)
  PROVE  Importing'
<1> DEFINE renamed(a) == [a EXCEPT !.name = IF input[r].rename THEN r ELSE @]
<1>1. /\ pc'[r] \in {"clash", "claim"} /\ OnlyOf(r)
      /\ pending'[r] = {renamed(a) : a \in Target(r)}
      /\ UNCHANGED <<accounts, input, at, results>>
  BY DEF LockRow, OnlyOf, IInv, Typing
<1>2. \A a \in Target(r) : /\ renamed(a).id = a.id /\ renamed(a).ext = a.ext
                           /\ Names(a.id, a.ext)
  BY DEF Target, Names, IInv, Typing, Account
<1> HIDE DEF renamed
<1>3. QED
  BY <1>1, <1>2, QuietStep

\* The check for a clash writes nothing.
LEMMA CheckClashImport ==
  ASSUME IInv, Importing, NEW r \in Requests, CheckClash(r)
  PROVE  Importing'
  BY EndImport, MoveImport DEF CheckClash

\* Where no update changes an external_id, none is claimed.
LEMMA ClaimImport ==
  ASSUME IInv, Importing, KeepsIds, NEW r \in Requests, ClaimExternalId(r)
  PROVE  Importing'
<1>1. CASE End(r, "duplicate_account")
  BY <1>1, EndImport
<1>2. CASE ~End(r, "duplicate_account")
  <2>1. input[r].op = "update" /\ input[r].ext = NoExternalId
    BY DEF ClaimExternalId, IInv, Typing, KeepsIds
  <2>2. /\ pc'[r] = "commit" /\ OnlyOf(r) /\ UNCHANGED <<accounts, input, at, results>>
        /\ pending'[r] = {[v EXCEPT !.ext = @] : v \in pending[r]}
    BY <1>2, <2>1 DEF ClaimExternalId, OnlyOf, IInv, Typing
  <2>3. \A v \in pending[r] : [v EXCEPT !.ext = @] = v
    BY DEF IInv, Typing, Account
  <2>4. pending'[r] = pending[r]
    BY <2>2, <2>3
  <2>5. QED
    BY <2>1, <2>2, <2>4, QuietStep DEF Importing, Faithful
<1>3. QED
  BY <1>1, <1>2

\* A request that begins has committed and reported nothing.
LEMMA BeginImport ==
  ASSUME IInv, Importing, NEW r \in Requests, Begin(r)
  PROVE  Importing'
<1>1. /\ pc[r] = "idle" /\ pc'[r] \notin {"commit", "refresh"} /\ OnlyOf(r)
      /\ at[r] = 1 /\ pending[r] = {} /\ UNCHANGED <<accounts, at, pending, results>>
  BY NothingPending DEF Begin, FirstStep, OnlyOf, IInv, Typing
<1>2. Reported(r) /\ results \in [Requests -> Seq(Result)]
  BY DEF Importing
<1>3. Faithful(r)'
  BY <1>1 DEF Faithful
<1>4. CarriesExt(r)'
  <2>1. \A i \in Nat \ {0} : ~IsCommitted(<<r, i>>)
    BY <1>1, NotYet
  <2>2. QED
    BY <1>1, <2>1 DEF CarriesExt, IsCommitted
<1>5. Reported(r)'
  <2>1. Len(results[r]) = 0
    BY <1>1, <1>2 DEF Reported
  <2>2. QED
    BY <1>1, <2>1 DEF Reported
<1>6. QED
  BY <1>1, <1>2, <1>3, <1>4, <1>5, OthersKeep DEF Importing

\* The account read back is the one its row created.
LEMMA RefreshImport ==
  ASSUME IInv, Importing, NEW r \in Requests, Refresh(r)
  PROVE  Importing'
<1>1. CASE End(r, "answered")
  BY <1>1, EndImport
<1>2. CASE ~End(r, "answered")
  <2> DEFINE named == {a \in accounts : a.id = <<r, at[r]>>}
  <2>1. pc[r] = "refresh" /\ input[r].op # "update" /\ Deliver(r, "created", named)
    BY <1>2 DEF Refresh
  <2>2. named # {}
    BY <2>1 DEF Importing, Faithful, IsCommitted
  <2>3. \A a \in named : Names(a.id, ThisRow(r).ext)
    <3>1. CarriesExt(r) /\ at[r] \in Nat \ {0}
      BY DEF Importing, IInv, Typing
    <3>2. \A a \in named : a \in accounts /\ a.ext = ThisRow(r).ext
      BY <3>1 DEF CarriesExt, ThisRow
    <3>3. QED
      BY <3>2 DEF Names
  <2>4. (\A a, b \in named : a.id = b.id) /\ named \in SUBSET Account
    BY DEF IInv, Typing
  <2>5. pending[r] = {}
    BY <2>1, NothingPending
  <2> HIDE DEF named
  <2>6. QED
    BY <2>1, <2>2, <2>3, <2>4, <2>5, DeliverImport
<1>3. QED
  BY <1>1, <1>2

-------------------------------------------------------------------------------
(* The COMMIT: accounts keep their names, and a new one is its request's. *)

\* A COMMIT keeps every account's id and external_id and adds the row's own account.
LEMMA CommitNames ==
  ASSUME IInv, Importing, NEW r \in Requests, Commit(r)
  PROVE  /\ \A id, ext : Names(id, ext) => Names(id, ext)'
         /\ \A a \in accounts' :
              Names(a.id, a.ext) \/ (a.id = <<r, at[r]>> /\ a.ext = ThisRow(r).ext)
         /\ \A v \in pending[r] : v \in accounts'
         /\ ~IsCommitted(<<r, at[r]>>)
<1>1. /\ accounts' = {a \in accounts : \A v \in pending[r] : v.id # a.id} \union pending[r]
      /\ pc[r] = "commit"
  BY DEF Commit
<1>2. \A v \in pending[r] :
        Names(v.id, v.ext) \/ (v.id = <<r, at[r]>> /\ v.ext = ThisRow(r).ext)
  BY DEF Importing, Faithful
<1>3. ~IsCommitted(<<r, at[r]>>)
  BY <1>1, NotYet DEF IInv, Typing
<1>4. ASSUME NEW a \in accounts
      PROVE  \E b \in accounts' : b.id = a.id /\ b.ext = a.ext
  <2>1. CASE \A v \in pending[r] : v.id # a.id
    BY <1>1, <2>1
  <2>2. ASSUME NEW v \in pending[r], v.id = a.id
        PROVE  v.ext = a.ext
    <3>1. v.id # <<r, at[r]>>
      BY <1>3, <2>2 DEF IsCommitted
    <3>2. Names(v.id, v.ext)
      BY <1>2, <3>1
    <3>3. PICK b \in accounts : b.id = v.id /\ b.ext = v.ext
      BY <3>2 DEF Names
    <3>4. QED
      BY <2>2, <3>3 DEF IInv, OneVersion
  <2>3. QED
    BY <1>1, <2>1, <2>2
<1>5. \A id, ext : Names(id, ext) => Names(id, ext)'
  BY <1>4 DEF Names
<1>6. \A a \in accounts : Names(a.id, a.ext)
  BY DEF Names
<1>7. QED
  BY <1>1, <1>2, <1>3, <1>5, <1>6

\* So what was reported before a COMMIT stays true after it.
LEMMA CommitImport ==
  ASSUME IInv, Importing, NEW r \in Requests, Commit(r)
  PROVE  Importing'
<1>1. /\ OnlyOf(r) /\ pc[r] = "commit" /\ pc'[r] = "refresh" /\ pending'[r] = {}
      /\ UNCHANGED <<input, at, results>> /\ at[r] \in Nat \ {0}
  BY DEF Commit, OnlyOf, IInv, Typing
<1>2. /\ \A id, ext : Names(id, ext) => Names(id, ext)'
      /\ \A a \in accounts' :
           Names(a.id, a.ext) \/ (a.id = <<r, at[r]>> /\ a.ext = ThisRow(r).ext)
      /\ \A v \in pending[r] : v \in accounts'
  BY CommitNames
<1>3. ASSUME NEW id, IsCommitted(id)
      PROVE  IsCommitted(id)'
  <2>1. PICK a \in accounts : a.id = id
    BY <1>3 DEF IsCommitted
  <2>2. Names(id, a.ext)'
    BY <1>2, <2>1 DEF Names
  <2>3. QED
    BY <2>2 DEF Names, IsCommitted
<1>4. \A id : IsCommitted(id)' => IsCommitted(id) \/ id = <<r, at[r]>>
  BY <1>2 DEF IsCommitted, Names
<1>5. ASSUME NEW s \in Requests
      PROVE  Faithful(s)' /\ CarriesExt(s)' /\ Reported(s)'
  <2>1. Faithful(s) /\ CarriesExt(s) /\ Reported(s)
    BY DEF Importing
  <2>2. Faithful(s)'
    <3>1. CASE s = r
      BY <1>1, <1>2, <2>1, <3>1 DEF Faithful, IsCommitted
    <3>2. CASE s # r
      BY <1>1, <1>2, <1>3, <2>1, <3>2 DEF Faithful, OnlyOf, ThisRow
    <3>3. QED
      BY <3>1, <3>2
  <2>3. CarriesExt(s)'
    <3>1. SUFFICES ASSUME NEW a \in accounts', NEW i \in Nat \ {0}, a.id = <<s, i>>
                   PROVE  a.ext = input[s].rows[i].ext
      BY <1>1 DEF CarriesExt
    <3>2. CASE Names(a.id, a.ext)
      BY <2>1, <3>1, <3>2 DEF CarriesExt, Names
    <3>3. CASE a.id = <<r, at[r]>> /\ a.ext = ThisRow(r).ext
      BY <3>1, <3>3 DEF ThisRow
    <3>4. QED
      BY <1>2, <3>2, <3>3
  <2>4. Reported(s)'
    <3>1. \A i \in 1 .. Len(results[s]) : <<s, i>> # <<r, at[r]>>
      BY <1>1, <2>1 DEF Reported
    <3>2. ASSUME NEW i \in 1 .. Len(results[s])
          PROVE  Truthful(s, i)'
      BY <1>1, <1>2, <1>4, <2>1, <3>1, <3>2 DEF Reported, Truthful
    <3>3. QED
      BY <1>1, <2>1, <3>2 DEF Reported
  <2>5. QED
    BY <2>2, <2>3, <2>4
<1>6. QED
  BY <1>1, <1>5 DEF Importing

-------------------------------------------------------------------------------

\* Importing is inductive, relative to IInv, where updates only rename.
LEMMA NextImport ==
  ASSUME IInv, Importing, KeepsIds, [Next]_vars
  PROVE  Importing'
<1>1. CASE UNCHANGED vars
  <2>1. UNCHANGED <<accounts, pc, input, at, pending, results>>
    BY <1>1 DEF vars
  <2>2. ASSUME NEW r \in Requests
        PROVE  Faithful(r)' /\ CarriesExt(r)' /\ Reported(r)'
    <3>1. Faithful(r) /\ CarriesExt(r) /\ Reported(r)
      BY DEF Importing
    <3>2. Faithful(r)' /\ CarriesExt(r)'
      BY <2>1, <3>1 DEF Faithful, CarriesExt, Names, IsCommitted, ThisRow
    <3>3. Reported(r)'
      BY <2>1, <3>1 DEF Reported, Truthful, Names, IsCommitted
    <3>4. QED
      BY <3>2, <3>3
  <2>3. QED
    BY <2>1, <2>2 DEF Importing
<1>2. ASSUME NEW r \in Requests, Begin(r) \/ Step(r)
      PROVE  Importing'
  BY <1>2, BeginImport, PrecheckImport, LookupImport, InsertImport, FindAccountImport,
     LockRowImport, CheckClashImport, ClaimImport, CommitImport, RefreshImport DEF Step
<1>3. ASSUME NEW r \in Requests, DetectDeadlock(r) \/ Lose(r)
      PROVE  Importing'
  BY <1>3, EndImport DEF DetectDeadlock, Lose
<1>4. QED
  BY <1>1, <1>2, <1>3 DEF Next, Quiet

\* Nothing is reported at the start.
LEMMA InitImport == Init => Importing
<1>1. SUFFICES ASSUME Init PROVE Importing
  OBVIOUS
<1>2. results \in [Requests -> Seq(Result)]
  BY <1>1 DEF Init
<1>3. ASSUME NEW r \in Requests
      PROVE  Faithful(r) /\ CarriesExt(r) /\ Reported(r)
  <2>1. Faithful(r)
    BY <1>1 DEF Init, Faithful
  <2>2. CarriesExt(r)
    <3>1. \A a \in accounts : a.id \notin Requests \X (Nat \ {0})
      BY <1>1, RegistryAssumption DEF Init
    <3>2. QED
      BY <3>1 DEF CarriesExt
  <2>3. Reported(r)
    BY <1>1 DEF Init, Reported
  <2>4. QED
    BY <2>1, <2>2, <2>3
<1>4. QED
  BY <1>2, <1>3 DEF Importing

\* Every reachable state has it.
LEMMA AlwaysImporting == KeepsIds /\ Spec => [](IInv /\ Importing)
<1>1. SUFFICES ASSUME KeepsIds PROVE Spec => [](IInv /\ Importing)
  OBVIOUS
<1>2. IInv /\ Importing /\ [Next]_vars => (IInv /\ Importing)'
  BY <1>1, NextInv, NextImport
<1>3. Init => IInv /\ Importing
  BY InitInv, InitImport
<1>4. QED
  BY <1>2, <1>3, PTL DEF Spec

\* As long as updates only rename, whoever creates or imports a row under an
\* external_id is answered with the one account that has it.
THEOREM SameAccount == KeepsIds /\ Spec => []SameIdSameAccount
<1>1. IInv /\ Importing => SameIdSameAccount
  <2>1. SUFFICES ASSUME IInv, Importing, NEW r \in Requests, NEW s \in Requests,
                        NEW i \in DOMAIN results[r], NEW j \in DOMAIN results[s],
                        input[r].rows[i].ext # NoExternalId,
                        input[r].rows[i].ext = input[s].rows[j].ext,
                        NEW a \in results[r][i].accounts, NEW b \in results[s][j].accounts
                 PROVE  a.id = b.id
    BY DEF SameIdSameAccount
  <2>2. Truthful(r, i) /\ Truthful(s, j)
    BY <2>1 DEF Importing, Reported
  <2>3. Names(a.id, input[r].rows[i].ext) /\ Names(b.id, input[r].rows[i].ext)
    BY <2>1, <2>2 DEF Truthful
  <2>4. QED
    BY <2>1, <2>3 DEF Names, IInv, ExternalIdUnique
<1>2. QED
  BY <1>1, AlwaysImporting, PTL

-------------------------------------------------------------------------------
(* An import looks a row's external_id up before it creates the row, and accounts
keep theirs, so it creates none that an earlier row got an account for. *)

\* No earlier row of r got an account under the external_id of row j.
FirstOfItsId(r, j) ==
  \A i \in 1 .. (j - 1) :
    results[r][i].status # "error" /\ input[r].rows[i].ext # NoExternalId =>
      input[r].rows[i].ext # input[r].rows[j].ext

Creating == {"lookup", "insert", "commit", "refresh"}

\* It is so of the row an import creates, from its lookup on, and stays so.
LooksFirst(r) ==
  input[r].op = "import" =>
    /\ pc[r] \in Creating => FirstOfItsId(r, at[r])
    /\ \A j \in 1 .. Len(results[r]) : results[r][j].status = "created" => FirstOfItsId(r, j)

LookingFirst == \A r \in Requests : LooksFirst(r)

\* A step that reports nothing of r and does not take it past its lookup.
LEMMA SilentStep ==
  ASSUME NEW r \in Requests, LooksFirst(r),
         input'[r] = input[r], at'[r] = at[r], results'[r] = results[r],
         input[r].op = "import" /\ pc'[r] \in Creating => pc[r] \in Creating
  PROVE  LooksFirst(r)'
  BY DEF LooksFirst, FirstOfItsId, Creating

\* Nor does a step of another request.
LEMMA OthersLookFirst ==
  ASSUME LookingFirst, NEW r \in Requests, OnlyOf(r), NEW s \in Requests \ {r},
         results'[s] = results[s]
  PROVE  LooksFirst(s)'
<1>1. LooksFirst(s) /\ pc'[s] = pc[s] /\ input'[s] = input[s] /\ at'[s] = at[s]
  BY DEF LookingFirst, OnlyOf
<1>2. QED
  BY <1>1, SilentStep

\* A handler that ends, or goes on past the lookup it was at.
LEMMA SilentSteps ==
  ASSUME IInv, LookingFirst, NEW r \in Requests, OnlyOf(r),
         UNCHANGED <<input, at, results>>,
         input[r].op = "import" /\ pc'[r] \in Creating => pc[r] \in Creating
  PROVE  LookingFirst'
<1>1. LooksFirst(r)'
  BY SilentStep DEF LookingFirst
<1>2. QED
  BY <1>1, OthersLookFirst DEF LookingFirst

\* A row is reported.
LEMMA DeliverFirst ==
  ASSUME IInv, Importing, LookingFirst, NEW r \in Requests,
         NEW status \in {"created", "skipped", "error"}, NEW named \in SUBSET Account,
         Deliver(r, status, named), status = "created" => pc[r] \in Creating
  PROVE  LookingFirst'
<1> DEFINE result == [status |-> status, accounts |-> named]
<1>1. /\ at[r] \in Nat \ {0} /\ Len(results[r]) = at[r] - 1 /\ LooksFirst(r)
      /\ results \in [Requests -> Seq(Result)] /\ result \in Result
  BY DEF Importing, Reported, IInv, Typing, LookingFirst, Result
<1>2. /\ OnlyOf(r) /\ input' = input
      /\ \A s \in Requests \ {r} : results'[s] = results[s]
      /\ results'[r] = Append(results[r], result)
  BY <1>1 DEF Deliver, OnlyOf, IInv, Typing
<1>3. /\ Len(results'[r]) = at[r] /\ results'[r][at[r]] = result /\ result.status = status
      /\ \A i \in 1 .. (at[r] - 1) : results'[r][i] = results[r][i]
  BY <1>1, <1>2
<1> HIDE DEF result
<1>4. LooksFirst(r)'
  <2>1. SUFFICES ASSUME input[r].op = "import"
                 PROVE  /\ pc'[r] \notin Creating
                        /\ \A j \in 1 .. at[r] :
                             results'[r][j].status = "created" => FirstOfItsId(r, j)'
    BY <1>2, <1>3 DEF LooksFirst
  <2>2. pc'[r] \notin Creating
    BY <2>1 DEF Deliver, FirstStep, Creating, IInv, Typing
  <2>3. ASSUME NEW j \in 1 .. at[r], results'[r][j].status = "created"
        PROVE  FirstOfItsId(r, j)
    <3>1. CASE j = at[r]
      BY <1>3, <2>1, <2>3, <3>1, <1>1 DEF LooksFirst
    <3>2. CASE j # at[r]
      <4>1. j \in 1 .. (at[r] - 1)
        BY <1>1, <3>2
      <4>2. QED
        BY <1>1, <1>3, <2>1, <2>3, <4>1 DEF LooksFirst
    <3>3. QED
      BY <3>1, <3>2
  <2>4. ASSUME NEW j \in 1 .. at[r], FirstOfItsId(r, j)
        PROVE  FirstOfItsId(r, j)'
    <3>1. \A i \in 1 .. (j - 1) : i \in 1 .. (at[r] - 1)
      BY <1>1
    <3>2. QED
      BY <1>2, <1>3, <2>4, <3>1 DEF FirstOfItsId
  <2>5. QED
    BY <2>2, <2>3, <2>4
<1>5. QED
  BY <1>2, <1>4, OthersLookFirst DEF LookingFirst

\* The row passes an import's own check when no account has its external_id: none
\* that an earlier row got either, since those still have theirs.
LEMMA PrecheckFirst ==
  ASSUME IInv, Importing, LookingFirst, NEW r \in Requests, Precheck(r)
  PROVE  LookingFirst'
<1> DEFINE found == Holders(ThisRow(r).ext)
<1>1. pc[r] = "precheck" /\ found \in SUBSET Account
  BY OneHolder DEF Precheck
<1>2. CASE Deliver(r, "error", {}) \/ Deliver(r, "skipped", found)
  BY <1>1, <1>2, DeliverFirst
<1>3. CASE found = {} /\ Move(r, "lookup")
  <2>1. OnlyOf(r) /\ UNCHANGED <<accounts, input, at, results>>
    BY <1>3 DEF Move, locals, OnlyOf, IInv, Typing
  <2>2. /\ at[r] \in Nat \ {0} /\ Len(results[r]) = at[r] - 1 /\ LooksFirst(r)
        /\ \A i \in 1 .. Len(results[r]) : Truthful(r, i)
    BY DEF Importing, Reported, IInv, Typing, LookingFirst
  <2>3. FirstOfItsId(r, at[r])
    <3>1. SUFFICES ASSUME NEW i \in 1 .. (at[r] - 1), results[r][i].status # "error",
                          input[r].rows[i].ext # NoExternalId,
                          input[r].rows[i].ext = ThisRow(r).ext
                   PROVE  FALSE
      BY DEF FirstOfItsId, ThisRow
    <3>2. PICK a \in accounts : a.ext = input[r].rows[i].ext
      BY <2>2, <3>1 DEF Truthful, Names
    <3>3. a \in found
      BY <3>1, <3>2 DEF Holders
    <3>4. QED
      BY <1>3, <3>3
  <2>4. LooksFirst(r)'
    BY <2>1, <2>2, <2>3 DEF LooksFirst, FirstOfItsId
  <2>5. QED
    BY <2>1, <2>4, OthersLookFirst DEF LookingFirst
<1>4. QED
  BY <1>2, <1>3 DEF Precheck

\* So it stays.
LEMMA NextFirst ==
  ASSUME IInv, Importing, LookingFirst, [Next]_vars
  PROVE  LookingFirst'
<1>1. CASE UNCHANGED vars
  BY <1>1 DEF vars, LookingFirst, LooksFirst, FirstOfItsId
<1>2. ASSUME NEW r \in Requests, NEW out, End(r, out)
      PROVE  LookingFirst'
  <2>1. OnlyOf(r) /\ pc'[r] = "done" /\ UNCHANGED <<input, at, results>>
    BY <1>2 DEF End, OnlyOf, IInv, Typing
  <2>2. QED
    BY <2>1, SilentSteps DEF Creating
<1>3. ASSUME NEW r \in Requests, Begin(r)
      PROVE  LookingFirst'
  <2>1. pc[r] = "idle" /\ OnlyOf(r) /\ UNCHANGED <<at, results>> /\ at[r] = 1
    BY <1>3 DEF Begin, OnlyOf, IInv, Typing
  <2>2. Len(results[r]) = 0
    BY <2>1 DEF Importing, Reported
  <2>3. LooksFirst(r)'
    BY <2>1, <2>2 DEF LooksFirst, FirstOfItsId
  <2>4. QED
    BY <2>1, <2>3, OthersLookFirst DEF LookingFirst
<1>4. ASSUME NEW r \in Requests, Lookup(r)
      PROVE  LookingFirst'
  <2>1. pc[r] = "lookup" /\ Holders(ThisRow(r).ext) \in SUBSET Account
    BY <1>4, OneHolder DEF Lookup
  <2>2. CASE Move(r, "insert")
    <3>1. OnlyOf(r) /\ UNCHANGED <<input, at, results>>
      BY <2>2 DEF Move, locals, OnlyOf, IInv, Typing
    <3>2. QED
      BY <2>1, <3>1, SilentSteps DEF Creating
  <2>3. QED
    BY <1>2, <1>4, <2>1, <2>2, DeliverFirst DEF Lookup, Creating
<1>5. ASSUME NEW r \in Requests, Refresh(r)
      PROVE  LookingFirst'
  <2>1. pc[r] = "refresh" /\ {a \in accounts : a.id = <<r, at[r]>>} \in SUBSET Account
    BY <1>5 DEF Refresh, IInv, Typing
  <2>2. QED
    BY <1>2, <1>5, <2>1, DeliverFirst DEF Refresh, Creating
<1>6. ASSUME NEW r \in Requests, InsertAccount(r) \/ Commit(r)
      PROVE  LookingFirst'
  <2>1. CASE End(r, "server_error")
    BY <1>2, <2>1
  <2>2. CASE ~End(r, "server_error")
    <3>1. OnlyOf(r) /\ pc[r] \in Creating /\ UNCHANGED <<input, at, results>>
      BY <1>6, <2>2 DEF InsertAccount, Commit, OnlyOf, IInv, Typing, Creating
    <3>2. QED
      BY <3>1, SilentSteps
  <2>3. QED
    BY <2>1, <2>2
<1>7. ASSUME NEW r \in Requests,
             FindAccount(r) \/ LockRow(r) \/ CheckClash(r) \/ ClaimExternalId(r)
      PROVE  LookingFirst'
  <2>1. CASE \E out \in Outcome : End(r, out)
    BY <1>2, <2>1
  <2>2. CASE ~\E out \in Outcome : End(r, out)
    <3>1. input[r].op = "update"
      BY <1>7 DEF FindAccount, LockRow, CheckClash, ClaimExternalId, IInv, Typing
    <3>2. ~End(r, "account_not_found") /\ ~End(r, "duplicate_account")
      BY <2>2 DEF Outcome
    <3>3. OnlyOf(r) /\ UNCHANGED <<input, at, results>>
      BY <1>7, <3>2 DEF FindAccount, LockRow, CheckClash, ClaimExternalId, Move, locals,
         OnlyOf, IInv, Typing
    <3>4. QED
      BY <3>1, <3>3, SilentSteps
  <2>3. QED
    BY <2>1, <2>2
<1>8. ASSUME NEW r \in Requests, DetectDeadlock(r) \/ Lose(r)
      PROVE  LookingFirst'
  BY <1>2, <1>8 DEF DetectDeadlock, Lose
<1>9. QED
  BY <1>1, <1>3, <1>4, <1>5, <1>6, <1>7, <1>8, PrecheckFirst DEF Next, Step, Quiet

\* Every reachable state has it.
LEMMA AlwaysLookingFirst == KeepsIds /\ Spec => [](IInv /\ Importing /\ LookingFirst)
<1>1. SUFFICES ASSUME KeepsIds PROVE Spec => [](IInv /\ Importing /\ LookingFirst)
  OBVIOUS
<1>2. IInv /\ Importing /\ LookingFirst /\ [Next]_vars => (IInv /\ Importing /\ LookingFirst)'
  BY <1>1, NextInv, NextImport, NextFirst
<1>3. Init => IInv /\ Importing /\ LookingFirst
  <2>1. Init => LookingFirst
    BY DEF Init, LookingFirst, LooksFirst, Creating
  <2>2. QED
    BY <2>1, InitInv, InitImport
<1>4. QED
  BY <1>2, <1>3, PTL DEF Spec

\* As long as updates only rename, what an import reports of its rows holds, and
\* no row is created under an external_id that an earlier one got an account for.
THEOREM ReportsHold == KeepsIds /\ Spec => []ImportReportsHold
<1>1. IInv /\ Importing /\ LookingFirst => ImportReportsHold
  <2>1. SUFFICES ASSUME IInv, Importing, LookingFirst,
                        NEW r \in Requests, NEW i \in DOMAIN results[r]
                 PROVE  /\ results[r][i].status = "error" =>
                             results[r][i].accounts = {} /\ \A a \in accounts : a.id # <<r, i>>
                        /\ results[r][i].status # "error" =>
                             \E a \in accounts : /\ a.ext = input[r].rows[i].ext
                                                 /\ {b.id : b \in results[r][i].accounts} = {a.id}
                        /\ input[r].op = "import" /\ results[r][i].status = "created" /\
                             input[r].rows[i].ext # NoExternalId =>
                               \A j \in 1 .. (i - 1) :
                                 results[r][j].status # "error" =>
                                   input[r].rows[j].ext # input[r].rows[i].ext
    BY DEF ImportReportsHold
  <2>2. Truthful(r, i) /\ i \in 1 .. Len(results[r])
    BY <2>1 DEF Importing, Reported
  <2>3. CASE results[r][i].status = "error"
    BY <2>2, <2>3 DEF Truthful, IsCommitted
  <2>4. CASE results[r][i].status # "error"
    <3>1. PICK b \in results[r][i].accounts : \A c \in results[r][i].accounts : c.id = b.id
      BY <2>2, <2>4 DEF Truthful
    <3>2. PICK a \in accounts : a.id = b.id /\ a.ext = input[r].rows[i].ext
      BY <2>2, <3>1 DEF Truthful, Names
    <3>3. {c.id : c \in results[r][i].accounts} = {a.id}
      BY <3>1, <3>2
    <3>4. input[r].op = "import" /\ results[r][i].status = "created" => FirstOfItsId(r, i)
      BY <2>1, <2>2 DEF LookingFirst, LooksFirst
    <3>5. QED
      BY <2>4, <3>2, <3>3, <3>4 DEF FirstOfItsId
  <2>5. QED
    BY <2>3, <2>4
<1>2. QED
  BY <1>1, AlwaysLookingFirst, PTL
===============================================================================
