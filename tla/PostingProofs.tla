----------------------------- MODULE PostingProofs -----------------------------
(***************************************************************************)
(* PostingEngine, in three parts.                                          *)
(*                                                                         *)
(* Calls: type correctness, the uniqueness of what is posted under an      *)
(* idempotency key or as a reversal, and what callers are told.  TypeOK is *)
(* not inductive by itself: that a handler finds the fields it reads needs *)
(* PcFitsInput, which ties the step a request is at to the operation it    *)
(* was asked for.                                                          *)
(*                                                                         *)
(* Locks and snapshots: requests never wait in a circle, and the snapshots *)
(* of every account form one chain ending at its stored balance.           *)
(*                                                                         *)
(* Amounts: stored balances are the sums of what was posted, what was      *)
(* posted is balanced and whole, a reversal takes back what its original   *)
(* did, and the engine implements AbstractLedger.                          *)
(***************************************************************************)
EXTENDS PostingProperties, AccountingProofs

-------------------------------------------------------------------------------
(* Calls. *)

\* The inductive invariant behind TypeOK.
Typing == TypeOK /\ PcFitsInput /\ \A r \in Requests : deltas[r] # <<>>

\* What one posting adds to a signed balance is an integer (enums.balance_sign).
LEMMA EffectType ==
  ASSUME NEW a \in Accounts, NEW d \in Direction, NEW m \in Nat \ {0}
  PROVE  Effect(a, d, m) \in Int
  BY DEF Effect

\* The signed balance of debits and credits is an integer (_signed_balance).
LEMMA SignedType ==
  ASSUME NEW a \in Accounts, NEW b, b.debits \in Nat, b.credits \in Nat
  PROVE  Signed(a, b) \in Int
  BY DEF Signed

\* Adding a row to the dict `deltas` of _build_postings keeps it a dict of totals.
LEMMA AddRowType ==
  ASSUME NEW d \in [Accounts -> Totals], NEW row \in Row
  PROVE  AddRow(d, row) \in [Accounts -> Totals]
  BY DEF AddRow, AddTo, Totals, Row, Direction

\* The operation of an input tells which kind of input it is.
LEMMA InputFields ==
  ASSUME NEW i \in Inputs
  PROVE  /\ i.op \in {"post", "reverse", "deactivate"}
         /\ i.op = "post" <=> i \in PostInput
         /\ i.op = "reverse" <=> i \in ReverseInput
         /\ i.op = "deactivate" <=> i \in DeactivateInput
         /\ i # NoInput
  BY InputAssumption DEF PostInput, ReverseInput, DeactivateInput

\* The rows of a transaction touch accounts that exist.
LEMMA TouchedType ==
  ASSUME NEW s \in Seq(Row)
  PROVE  Touched(s) \subseteq Accounts
<1>1. \A i \in DOMAIN s : s[i] \in Row
  BY LenProperties
<1>2. \A i \in DOMAIN s : s[i].account \in Accounts
  BY <1>1 DEF Row
<1>3. QED
  BY <1>2 DEF Touched

\* While a request has accounts left to lock, NextToLock is the least of them
\* (_lock_balances locks in sorted order).
LEMMA NextToLockType ==
  ASSUME NEW r \in Requests, Typing, Unlocked(r) # {}
  PROVE  /\ NextToLock(r) \in Unlocked(r)
         /\ NextToLock(r) \in Accounts
         /\ \A b \in Unlocked(r) : NextToLock(r) <= b
<1>1. Unlocked(r) \subseteq Accounts
  BY TouchedType DEF Unlocked, Typing, TypeOK
<1>2. \E x \in Unlocked(r) : \A y \in Unlocked(r) : x <= y
  BY <1>1, LeastExists, ChartAssumption, FS_Subset
<1>3. QED
  BY <1>1, <1>2 DEF NextToLock, Min

\* The database starts empty and no request has been made.
LEMMA InitTyping == Init => Typing
  BY InputAssumption DEF Init, Typing, TypeOK, PcFitsInput, PC, Reading, InFlight, Balance, ZeroBalance,
     ZeroDeltas, ZeroTotals, Totals, Reply, Status, Rejection

-------------------------------------------------------------------------------

\* A post has the operation "post", a reversal "reverse".
LEMMA OpOfInput ==
  ASSUME NEW i \in PostInput \union ReverseInput
  PROVE  /\ i.op = "post" => i \in PostInput
         /\ i.op # "post" => i \in ReverseInput
  BY DEF PostInput, ReverseInput

\* Ending a handler (get_session's rollback) keeps the state well typed.
LEMMA AnswerTyping ==
  ASSUME Typing, NEW r \in Requests, NEW s \in Status, NEW t \in Requests \union {NoTxn},
         Answer(r, s, t), UNCHANGED database
  PROVE  Typing'
  BY DEF Typing, TypeOK, PcFitsInput, PC, Reading, InFlight, Reply, Answer, database

\* A step that only moves a request on to a step its input fits.
LEMMA MoveTyping ==
  ASSUME Typing, NEW r \in Requests, NEW p \in PC, pc' = [pc EXCEPT ![r] = p],
         pc[r] \notin {"reload", "done"},
         UNCHANGED <<database, locals, reply>>,
         p \in {"load", "build"} => input[r] \in PostInput,
         p \in {"original", "existing", "mirror"} => input[r] \in ReverseInput,
         p \in {"lookup", "insert", "lock", "thread", "commit", "reload"} =>
            input[r] \in PostInput \union ReverseInput,
         p \in {"check", "close"} => input[r] \in DeactivateInput,
         p = "close" => input[r].account \in Accounts
  PROVE  Typing'
  BY DEF Typing, TypeOK, PcFitsInput, database, locals

\* Appending a valid row (_build_postings, reverse_transaction) keeps the state well typed.
LEMMA AppendRowTyping ==
  ASSUME Typing, NEW r \in Requests, NEW row \in Row, AppendRow(r, row),
         UNCHANGED <<database, pc>>
  PROVE  Typing'
<1>1. rows[r] \in Seq(Row) /\ deltas[r] \in Seq([Accounts -> Totals])
  BY DEF Typing, TypeOK
<1>2. Append(rows[r], row) \in Seq(Row)
  BY <1>1, AppendProperties
<1>3. deltas[r][Len(deltas[r])] \in [Accounts -> Totals]
  BY <1>1, EmptySeq, ElementOfSeq DEF Typing
<1>4. Append(deltas[r], AddRow(deltas[r][Len(deltas[r])], row)) \in Seq([Accounts -> Totals])
  BY <1>1, <1>3, AddRowType, AppendProperties
<1>5. Append(deltas[r], AddRow(deltas[r][Len(deltas[r])], row)) # <<>>
  BY <1>1, <1>3, AddRowType, AppendProperties
<1>6. QED
  BY <1>2, <1>4, <1>5 DEF AppendRow, Typing, TypeOK, PcFitsInput, database

\* A call that reaches its handler is at the first step of its own operation.
LEMMA BeginTyping ==
  ASSUME Typing, NEW r \in Requests, Begin(r)
  PROVE  Typing'
<1>1. PICK i \in Inputs :
        /\ pc[r] = "idle"
        /\ pc' = [pc EXCEPT ![r] = FirstStep(i.op)]
        /\ input' = [input EXCEPT ![r] = i]
        /\ lines' = [lines EXCEPT ![r] = IF i.op = "post" THEN i.lines ELSE <<>>]
  BY DEF Begin, Goto
<1>2. (IF i.op = "post" THEN i.lines ELSE <<>>) \in Seq(Original)
  <2>1. i.op = "post" => i.lines \in Seq(Line)
    BY InputFields DEF PostInput
  <2>2. QED
    BY <2>1, SeqMonotonic, EmptySeq DEF Original
<1>3. /\ FirstStep(i.op) \in PC
      /\ FirstStep(i.op) = "lookup" => i \in PostInput
      /\ FirstStep(i.op) = "original" => i \in ReverseInput
      /\ FirstStep(i.op) = "check" => i \in DeactivateInput
      /\ FirstStep(i.op) \in {"lookup", "original", "check"}
  BY InputFields DEF FirstStep, PC, Reading, InFlight
<1>4. TypeOK'
  BY <1>1, <1>2, <1>3 DEF Begin, Typing, TypeOK, database
<1>5. \A s \in Requests : input'[s] \in ReverseInput => lines'[s] \in Seq(Row)
  <2>1. i \in ReverseInput => i.op # "post"
    BY DEF ReverseInput
  <2>2. QED
    BY <1>1, <2>1, EmptySeq DEF Typing, TypeOK, PcFitsInput
<1>6. /\ input'[r] = i /\ pc'[r] = FirstStep(i.op)
      /\ \A s \in Requests \ {r} : input'[s] = input[s] /\ pc'[s] = pc[s]
      /\ r \notin transactions
      /\ UNCHANGED <<transactions, deltas>>
  BY <1>1 DEF Begin, Typing, TypeOK, PcFitsInput, database
<1>7. \A t \in transactions' :
        pc'[t] \in {"reload", "done"} /\ input'[t] \in PostInput \union ReverseInput
  BY <1>6 DEF Typing, TypeOK, PcFitsInput
<1> QED
  BY <1>3, <1>4, <1>5, <1>6, <1>7 DEF Typing, PcFitsInput

\* The lines a reversal loads are rows of its original, whatever their order.
LEMMA LoadOriginalTyping ==
  ASSUME Typing, NEW r \in Requests, LoadOriginal(r)
  PROVE  Typing'
<1>1. input[r] \in ReverseInput /\ pc[r] = "original"
  BY DEF LoadOriginal, Typing, PcFitsInput
<1> DEFINE t == input[r].target
<1>2. CASE t \in transactions /\ input[t].tenant = input[r].tenant
  <2>1. t \in Requests /\ rows[t] \in Seq(Row)
    BY <1>2 DEF Typing, TypeOK
  <2>2. PICK order \in Bijection(DOMAIN rows[t], DOMAIN rows[t]) :
          lines' = [lines EXCEPT ![r] = [i \in DOMAIN rows[t] |-> rows[t][order[i]]]]
    BY <1>2 DEF LoadOriginal
  <2>3. order \in [1..Len(rows[t]) -> 1..Len(rows[t])]
    BY <2>1, LenProperties DEF Bijection, Injection
  <2>4. \A i \in 1..Len(rows[t]) : rows[t][order[i]] \in Row
    BY <2>1, <2>3, ElementOfSeq
  <2>5. [i \in DOMAIN rows[t] |-> rows[t][order[i]]] \in Seq(Row)
    BY <2>1, <2>4, IsASeq, LenProperties
  <2>6. [i \in DOMAIN rows[t] |-> rows[t][order[i]]] \in Seq(Original)
    BY <2>5, SeqMonotonic DEF Original
  <2>7. /\ pc' = [pc EXCEPT ![r] = "existing"]
        /\ UNCHANGED <<database, input, seen, rows, deltas, held, stored, running,
                       threaded, staged, reply>>
    BY <1>2 DEF LoadOriginal
  <2>8. TypeOK'
    BY <2>2, <2>6, <2>7 DEF Typing, TypeOK, PC, Reading, InFlight, database
  <2>9. QED
    BY <1>1, <2>2, <2>5, <2>7, <2>8 DEF Typing, TypeOK, PcFitsInput, database
<1>3. CASE ~(t \in transactions /\ input[t].tenant = input[r].tenant)
  BY <1>3, AnswerTyping DEF LoadOriginal, Status, Rejection
<1> QED
  BY <1>2, <1>3

\* Threading a row (_write_postings) stages one well-typed posting.
LEMMA ThreadRowTyping ==
  ASSUME Typing, NEW r \in Requests, ThreadRow(r)
  PROVE  Typing'
<1> DEFINE row == rows[r][threaded[r] + 1]
           before == running[r][row.account]
           after == before + Effect(row.account, row.direction, row.amount)
           posting == [txn |-> r, direction |-> row.direction, amount |-> row.amount,
                       before |-> before, after |-> after]
<1>1. row \in Row
  <2>1. rows[r] \in Seq(Row) /\ threaded[r] \in Nat /\ threaded[r] < Len(rows[r])
    BY DEF ThreadRow, Typing, TypeOK
  <2>2. Len(rows[r]) \in Nat
    BY <2>1, LenProperties
  <2>3. threaded[r] + 1 \in 1..Len(rows[r])
    BY <2>1, <2>2
  <2>4. QED
    BY <2>1, <2>3, ElementOfSeq
<1>2. /\ row.account \in Accounts /\ row.direction \in Direction
      /\ row.amount \in Nat \ {0}
  BY <1>1 DEF Row
<1>3. before \in Int /\ after \in Int
  <2> HIDE DEF row
  <2>1. before \in Int
    BY <1>2 DEF Typing, TypeOK
  <2>2. Effect(row.account, row.direction, row.amount) \in Int
    BY <1>2, EffectType
  <2>3. QED
    BY <2>1, <2>2
<1>4. posting \in Posting
  BY <1>2, <1>3 DEF Posting
<1>5. Append(staged[r][row.account], posting) \in Seq(Posting)
  BY <1>2, <1>4, AppendProperties DEF Typing, TypeOK
<1>6. /\ running' = [running EXCEPT ![r][row.account] = after]
      /\ staged' = [staged EXCEPT ![r][row.account] = Append(@, posting)]
      /\ threaded' = [threaded EXCEPT ![r] = @ + 1]
      /\ UNCHANGED <<database, pc, input, lines, seen, rows, deltas, held, stored, reply>>
  BY DEF ThreadRow
<1> HIDE DEF row, before, after, posting
<1>7. /\ running' \in [Requests -> [Accounts -> Int]]
      /\ staged' \in [Requests -> [Accounts -> Seq(Posting)]]
      /\ threaded' \in [Requests -> Nat]
  BY <1>2, <1>3, <1>5, <1>6, SMTT(30) DEF Typing, TypeOK
<1> QED
  BY <1>6, <1>7 DEF Typing, TypeOK, PcFitsInput, database

\* COMMIT appends well-typed postings and writes well-typed balances.
LEMMA CommitTyping ==
  ASSUME Typing, NEW r \in Requests, Commit(r)
  PROVE  Typing'
<1>1. history' \in [Accounts -> Seq(Posting)]
  <2>1. \A a \in Accounts : history[a] \in Seq(Posting) /\ staged[r][a] \in Seq(Posting)
    BY DEF Typing, TypeOK
  <2>2. \A a \in Accounts : history[a] \o staged[r][a] \in Seq(Posting)
    BY <2>1, ConcatProperties
  <2> QED
    BY <2>2 DEF Commit
<1>2. balance' \in [Accounts -> Balance]
  <2>1. deltas[r][Len(deltas[r])] \in [Accounts -> Totals]
    BY EmptySeq, ElementOfSeq DEF Typing, TypeOK
  <2>2. \A b \in Balance, d \in Totals : ApplyDelta(b, d) \in Balance
    BY DEF ApplyDelta, Balance, Totals
  <2>3. \A a \in Accounts : ApplyDelta(stored[r][a], deltas[r][Len(deltas[r])][a]) \in Balance
    BY <2>1, <2>2 DEF Typing, TypeOK
  <2> QED
    BY <2>3 DEF Commit, Typing, TypeOK
<1>3. staged' \in [Requests -> [Accounts -> Seq(Posting)]]
  BY EmptySeq DEF Commit, Typing, TypeOK
<1> QED
  BY <1>1, <1>2, <1>3 DEF Commit, Goto, Typing, TypeOK, PcFitsInput, PC

\* Every step keeps the state well typed, one action at a time.
LEMMA NextTyping ==
  ASSUME Typing, [Next]_vars
  PROVE  Typing'
<1>1. ASSUME NEW r \in Requests, CheckExisting(r)
      PROVE  Typing'
  <2>1. CASE \E s \in Status, t \in Requests \union {NoTxn} : Answer(r, s, t)
    BY <1>1, <2>1, AnswerTyping DEF CheckExisting
  <2>2. CASE pc' = [pc EXCEPT ![r] = "lookup"] /\ UNCHANGED <<locals, reply>>
    BY <1>1, <2>2, MoveTyping DEF CheckExisting, Typing, PcFitsInput, PC, Reading
  <2> QED
    BY <1>1, <2>1, <2>2 DEF CheckExisting, FindReversal, Status, Rejection, Typing, TypeOK
<1>2. ASSUME NEW r \in Requests, LookupKey(r)
      PROVE  Typing'
  <2> DEFINE p == IF input[r].op = "post" THEN "load" ELSE "insert"
  <2>1. CASE \E t \in transactions : Answer(r, "replayed", t)
    BY <1>2, <2>1, AnswerTyping DEF LookupKey, Status, Typing, TypeOK
  <2>2. CASE pc' = [pc EXCEPT ![r] = p] /\ UNCHANGED <<locals, reply>>
    <3>1. input[r] \in PostInput \union ReverseInput
      BY <1>2 DEF LookupKey, Typing, PcFitsInput
    <3>2. p \in PC /\ p \in {"load", "insert"} /\ (p = "load" => input[r] \in PostInput)
      BY <3>1, OpOfInput DEF PC, Reading
    <3>3. QED
      BY <1>2, <2>2, <3>1, <3>2, MoveTyping DEF LookupKey
  <2> QED
    BY <1>2, <2>1, <2>2 DEF LookupKey, FindByKey
<1>3. ASSUME NEW r \in Requests, LoadAccounts(r)
      PROVE  Typing'
  <2>1. CASE Answer(r, "validation_error", NoTxn)
    BY <1>3, <2>1, AnswerTyping DEF LoadAccounts, Status, Rejection
  <2>2. CASE ~Answer(r, "validation_error", NoTxn)
    <3> DEFINE found == {a \in AccountsOf(input[r].tenant) : active[a]}
    <3>1. found \in SUBSET Accounts
      BY DEF AccountsOf
    <3>2. /\ pc[r] = "load"
          /\ pc' = [pc EXCEPT ![r] = "build"]
          /\ seen' = [seen EXCEPT ![r] = found]
          /\ UNCHANGED <<database, input, lines, rows, deltas, held, stored, running,
                         threaded, staged, reply>>
      BY <1>3, <2>2 DEF LoadAccounts
    <3> HIDE DEF found
    <3>3. /\ pc[r] = "load"
          /\ pc' = [pc EXCEPT ![r] = "build"]
          /\ seen' \in [Requests -> SUBSET Accounts]
          /\ UNCHANGED <<database, input, lines, rows, deltas, held, stored, running,
                         threaded, staged, reply>>
      BY <3>2, <3>1 DEF Typing, TypeOK
    <3>4. TypeOK'
      BY <3>3 DEF database, Typing, TypeOK, PC, Reading
    <3>5. input[r] \in PostInput
      BY <3>3 DEF Typing, PcFitsInput
    <3>6. QED
      BY <3>3, <3>4, <3>5 DEF database, Typing, TypeOK, PcFitsInput
  <2> QED
    BY <2>1, <2>2
<1>4. ASSUME NEW r \in Requests, BuildLine(r)
      PROVE  Typing'
  <2> DEFINE line == lines[r][Len(rows[r]) + 1]
             row == [account |-> line.account, direction |-> line.direction,
                     amount |-> line.amount]
  <2>1. CASE LineError(r, line) = "ok"
    <3>1. line \in Original
      BY <1>4, ElementOfSeq, LenProperties DEF BuildLine, Built, Typing, TypeOK
    <3>2. row \in Row
      BY <2>1, <3>1 DEF LineError, AccountsOf, Original, Line, Row
    <3>3. QED
      BY <1>4, <2>1, <3>2, AppendRowTyping DEF BuildLine
  <2>2. CASE LineError(r, line) # "ok"
    <3>1. LineError(r, line) \in Status
      BY <2>2 DEF LineError, Status, Rejection
    <3>2. QED
      BY <1>4, <2>2, <3>1, AnswerTyping DEF BuildLine
  <2> QED
    BY <2>1, <2>2
<1>5. ASSUME NEW r \in Requests, CheckBalanced(r)
      PROVE  Typing'
  <2>1. CASE Answer(r, "unbalanced", NoTxn)
    BY <1>5, <2>1, AnswerTyping DEF CheckBalanced, Status, Rejection
  <2>2. CASE pc' = [pc EXCEPT ![r] = "insert"] /\ UNCHANGED <<locals, reply>>
    BY <1>5, <2>2, MoveTyping DEF CheckBalanced, Typing, PcFitsInput, PC
  <2> QED
    BY <1>5, <2>1, <2>2 DEF CheckBalanced
<1>6. ASSUME NEW r \in Requests, InsertTransaction(r)
      PROVE  Typing'
  <2> DEFINE p == IF input[r].op = "post" THEN "lock" ELSE "mirror"
  <2>1. CASE Answer(r, "server_error", NoTxn)
    BY <1>6, <2>1, AnswerTyping DEF InsertTransaction, Status
  <2>2. CASE pc' = [pc EXCEPT ![r] = p] /\ UNCHANGED <<locals, reply>>
    <3>1. input[r] \in PostInput \union ReverseInput
      BY <1>6 DEF InsertTransaction, Typing, PcFitsInput
    <3>2. p \in PC /\ p \in {"lock", "mirror"} /\ (p = "mirror" => input[r] \in ReverseInput)
      BY <3>1, OpOfInput DEF PC, InFlight
    <3>3. QED
      BY <1>6, <2>2, <3>1, <3>2, MoveTyping DEF InsertTransaction
  <2> QED
    BY <1>6, <2>1, <2>2 DEF InsertTransaction
<1>7. ASSUME NEW r \in Requests, MirrorLine(r)
      PROVE  Typing'
  <2> DEFINE line == lines[r][Len(rows[r]) + 1]
             row == [account |-> line.account, amount |-> line.amount,
                     direction |-> Opposite(line.direction)]
  <2>1. CASE ~Built(r) /\ AppendRow(r, row) /\ UNCHANGED <<database, pc>>
    <3>1. line \in Row
      BY <1>7, <2>1, ElementOfSeq, LenProperties
      DEF MirrorLine, Built, Typing, TypeOK, PcFitsInput
    <3>2. row \in Row
      BY <3>1 DEF Opposite, Direction, Row
    <3>3. QED
      BY <2>1, <3>2, AppendRowTyping
  <2>2. CASE pc' = [pc EXCEPT ![r] = "lock"] /\ UNCHANGED <<database, locals, reply>>
    BY <1>7, <2>2, MoveTyping DEF MirrorLine, Typing, PcFitsInput, PC, InFlight
  <2> QED
    BY <1>7, <2>1, <2>2 DEF MirrorLine
<1>8. ASSUME NEW r \in Requests, LockBalance(r)
      PROVE  Typing'
  <2>1. NextToLock(r) \in Accounts
    BY <1>8, NextToLockType DEF LockBalance
  <2>2. Signed(NextToLock(r), balance[NextToLock(r)]) \in Int
    BY <2>1, SignedType DEF Typing, TypeOK, Balance
  <2>3. QED
    BY <1>8, <2>1, <2>2 DEF LockBalance, database, Typing, TypeOK, PcFitsInput
<1>9. ASSUME NEW r \in Requests, AllLocked(r)
      PROVE  Typing'
  BY <1>9, MoveTyping DEF AllLocked, Goto, Typing, PcFitsInput, PC, InFlight
<1>10. ASSUME NEW r \in Requests, AllThreaded(r)
       PROVE  Typing'
  BY <1>10, MoveTyping DEF AllThreaded, Goto, Typing, PcFitsInput, PC, InFlight
<1>11. ASSUME NEW r \in Requests, Reload(r)
       PROVE  Typing'
  BY <1>11, AnswerTyping DEF Reload, Status
<1>12. ASSUME NEW r \in Requests, CheckEmpty(r)
       PROVE  Typing'
  <2>1. CASE \E s \in Status : Answer(r, s, NoTxn)
    BY <1>12, <2>1, AnswerTyping DEF CheckEmpty
  <2>2. CASE /\ pc' = [pc EXCEPT ![r] = "close"] /\ UNCHANGED <<locals, reply>>
             /\ input[r].account \in Accounts
    BY <1>12, <2>2, MoveTyping DEF CheckEmpty, Typing, PcFitsInput, PC, Reading
  <2> QED
    BY <1>12, <2>1, <2>2 DEF CheckEmpty, AccountsOf, Status, Rejection
<1>13. ASSUME NEW r \in Requests, CloseAccount(r)
       PROVE  Typing'
  BY <1>13 DEF CloseAccount, Answer, Status, Typing, TypeOK, PcFitsInput, PC, Reply
<1>14. ASSUME NEW r \in Requests, Lose(r)
       PROVE  Typing'
  BY <1>14, AnswerTyping DEF Lose, Status
<1>15. CASE UNCHANGED vars
  BY <1>15 DEF vars, Typing, TypeOK, PcFitsInput
<1> QED
  BY BeginTyping, LoadOriginalTyping, ThreadRowTyping, CommitTyping,
     <1>1, <1>2, <1>3, <1>4, <1>5, <1>6, <1>7, <1>8, <1>9, <1>10, <1>11, <1>12,
     <1>13, <1>14, <1>15 DEF Next, Step, Quiet

\* Every reachable state is well typed: no request reads a field its input lacks,
\* posts to an account that does not exist, or drives a debit or credit total below zero.
THEOREM TypeCorrect == Spec => []TypeOK
<1>1. Spec => []Typing
  BY InitTyping, NextTyping, PTL DEF Spec
<1>2. Typing => TypeOK
  BY DEF Typing
<1> QED
  BY <1>1, <1>2, PTL

-------------------------------------------------------------------------------
(* Idempotency and reversal: what was inserted never clashes. *)

\* What a step of request r leaves alone, apart from the two that matter.
LEMMA StepFrame ==
  ASSUME Typing, NEW r \in Requests, Step(r) \/ Lose(r)
  PROVE  /\ input' = input
         /\ \A s \in Requests \ {r} : pc'[s] = pc[s]
         /\ pc'[r] \in InFlight => pc[r] \in InFlight \/ InsertTransaction(r)
         /\ transactions' = transactions \/ Commit(r)
<1> USE DEF Typing, TypeOK, database, locals, InFlight, Answer, Goto
<1>1. CASE LoadOriginal(r) \/ CheckExisting(r) \/ LookupKey(r) \/ LoadAccounts(r)
  BY <1>1 DEF LoadOriginal, CheckExisting, LookupKey, LoadAccounts
<1>2. CASE BuildLine(r) \/ CheckBalanced(r) \/ InsertTransaction(r) \/ MirrorLine(r)
  BY <1>2 DEF BuildLine, CheckBalanced, InsertTransaction, MirrorLine, AppendRow
<1>3. CASE LockBalance(r) \/ AllLocked(r) \/ ThreadRow(r) \/ AllThreaded(r)
  BY <1>3 DEF LockBalance, AllLocked, ThreadRow, AllThreaded
<1>4. CASE Commit(r) \/ Reload(r) \/ CheckEmpty(r) \/ CloseAccount(r) \/ Lose(r)
  BY <1>4 DEF Commit, Reload, CheckEmpty, CloseAccount, Lose
<1> QED
  BY <1>1, <1>2, <1>3, <1>4 DEF Step

\* An INSERT happens only when no inserted or committed transaction clashes with it,
\* and nothing else adds one.
LEMMA NextNoClash ==
  ASSUME Typing, NoClash, [Next]_vars
  PROVE  NoClash'
<1>1. ASSUME NEW r \in Requests, Begin(r)
      PROVE  NoClash'
  <2>1. /\ pc[r] = "idle"
        /\ \A s \in Requests \ {r} : input'[s] = input[s] /\ pc'[s] = pc[s]
        /\ pc'[r] \notin InFlight
        /\ transactions' = transactions
    BY <1>1 DEF Begin, Goto, FirstStep, InFlight, database, Typing, TypeOK
  <2>2. r \notin Placed'
    BY <2>1 DEF Placed, Inserted, Typing, PcFitsInput
  <2>3. Placed' \subseteq Placed /\ Placed \subseteq Requests
    BY <2>1, <2>2 DEF Placed, Inserted, Typing, TypeOK
  <2>4. \A s \in Placed' : input'[s] = input[s]
    BY <2>1, <2>2, <2>3
  <2>5. QED
    BY <2>3, <2>4 DEF NoClash, Clash, IsReversalOf
<1>2. ASSUME NEW r \in Requests, Step(r) \/ Lose(r)
      PROVE  NoClash'
  <2>1. /\ input' = input
        /\ \A s \in Requests \ {r} : pc'[s] = pc[s]
        /\ pc'[r] \in InFlight => pc[r] \in InFlight \/ InsertTransaction(r)
        /\ transactions' = transactions \/ Commit(r)
    BY <1>2, StepFrame
  <2>2. CASE Placed' \subseteq Placed
    BY <2>1, <2>2 DEF NoClash, Clash, IsReversalOf
  <2>3. CASE ~(Placed' \subseteq Placed)
    <3>1. transactions' \subseteq Placed
      BY <2>1 DEF Commit, Goto, Placed, Inserted, InFlight
    <3>2. InsertTransaction(r) /\ Placed' \subseteq Placed \union {r}
      BY <2>1, <2>3, <3>1 DEF Placed, Inserted
    <3>3. \A s \in Placed : ~Clash(r, s)
      <4>1. pc'[r] \in InFlight
        BY <2>1, <2>3, <3>1 DEF Placed, Inserted
      <4>2. ~Answer(r, "server_error", NoTxn)
        BY <4>1 DEF Answer, InFlight, Typing, TypeOK
      <4>3. QED
        BY <3>2, <4>2 DEF InsertTransaction, Placed
    <3>4. \A s \in Placed : ~Clash(s, r)
      BY <3>3 DEF Clash, IsReversalOf
    <3>5. QED
      BY <2>1, <3>2, <3>3, <3>4 DEF NoClash, Clash, IsReversalOf
  <2> QED
    BY <2>2, <2>3
<1>3. CASE UNCHANGED vars
  BY <1>3 DEF vars, NoClash, Placed, Inserted, Clash, IsReversalOf
<1> QED
  BY <1>1, <1>2, <1>3 DEF Next, Quiet

\* However requests interleave, retry or get lost, an idempotency key names at most
\* one transaction of its tenant and a transaction has at most one reversal (the unique
\* constraints of models.Transaction, with the flush at ledger.py 282).
THEOREM UniquePosting == Spec => []PostedOnce
<1>1. Init => NoClash
  BY DEF Init, NoClash, Placed, Inserted, InFlight
<1>2. Spec => [](Typing /\ NoClash)
  BY <1>1, InitTyping, NextTyping, NextNoClash, PTL DEF Spec
<1>3. Typing /\ NoClash => PostedOnce
  BY DEF Typing, NoClash, PostedOnce, Clash, Placed, IsReversalOf
<1> QED
  BY <1>2, <1>3, PTL

-------------------------------------------------------------------------------
(* What callers are told: that a transaction named in an answer is a committed one
of the caller's tenant, and that a request whose caller was told it failed has
left no posting.  Both need to know whose postings are staged, and that a
reversal's original is committed and of the reversal's tenant. *)

\* Postings belong to committed transactions, and staged ones to their request.
Traced ==
  /\ \A a \in Accounts : \A i \in DOMAIN history[a] : history[a][i].txn \in transactions
  /\ \A r \in Requests : \A a \in Accounts : \A i \in DOMAIN staged[r][a] : staged[r][a][i].txn = r

\* Nobody is told anything before the end, and nobody a failure after the COMMIT.
Told ==
  /\ \A r \in Requests : pc[r] # "done" => reply[r].status = "pending"
  /\ \A r \in Requests : pc[r] = "reload" => r \in transactions
  /\ \A t \in transactions : reply[t].status \in {"pending", "posted", "lost"}

\* Once reverse_transaction has loaded the original, it is committed and of the tenant.
OriginalKnown(r) ==
  (/\ pc[r] \in {"existing", "lookup", "insert"} \union InFlight \/ r \in transactions
   /\ input[r].op = "reverse") =>
     input[r].target \in transactions /\ input[input[r].target].tenant = input[r].tenant

Answering ==
  /\ Traced /\ Told /\ AnswersAreCommitted
  /\ \A r \in Requests : OriginalKnown(r)

-------------------------------------------------------------------------------

\* A step that commits nothing, tells nothing and stages nothing.
Silent(r) ==
  /\ UNCHANGED <<transactions, history, staged, reply>>
  /\ pc[r] # "done" /\ pc'[r] \notin {"reload", "done"}

\* A step that answers, and is true of what is committed.
Answers(r) ==
  /\ UNCHANGED <<transactions, history>>
  /\ pc[r] # "done"
  /\ \E status \in Status : \E t \in Requests \union {NoTxn} :
       /\ Answer(r, status, t)
       /\ pc[r] = "reload" => status \in {"posted", "lost"}
       /\ status = "posted" => pc[r] = "reload" /\ t = r
       /\ status = "replayed" =>
            /\ t \in transactions /\ input[t].tenant = input[r].tenant
            /\ input[t].key = input[r].key

\* Every step of a handler is one of a few kinds, as far as answers go.
LEMMA StepAnswers ==
  ASSUME Typing, Answering, NEW r \in Requests, Step(r) \/ Lose(r)
  PROVE  Silent(r) \/ Answers(r) \/ ThreadRow(r) \/ Commit(r)
<1> USE DEF Silent, Answers, database, locals, Goto, Typing, TypeOK
<1>1. CASE LoadOriginal(r)
  <2>1. CASE Answer(r, "transaction_not_found", NoTxn)
    BY <1>1, <2>1 DEF LoadOriginal, Status, Rejection
  <2>2. CASE ~Answer(r, "transaction_not_found", NoTxn)
    BY <1>1, <2>2 DEF LoadOriginal
  <2>3. QED
    BY <2>1, <2>2
<1>2. CASE CheckExisting(r)
  <2>1. input[r].op = "reverse" /\ pc[r] = "existing"
    BY <1>2 DEF CheckExisting, PcFitsInput, ReverseInput
  <2>2. ASSUME NEW s \in FindReversal(input[r].target), input[s].key = input[r].key,
               Answer(r, "replayed", s)
        PROVE  Answers(r)
    <3>1. s \in transactions /\ s \in Requests /\ input[s].op = "reverse" /\ input[s].target = input[r].target
      BY DEF FindReversal, IsReversalOf
    <3>2. input[s].tenant = input[r].tenant
      BY <2>1, <3>1 DEF Answering, OriginalKnown
    <3>3. QED
      BY <1>2, <2>1, <2>2, <3>1, <3>2 DEF CheckExisting, Status
  <2>3. CASE Answer(r, "already_reversed", NoTxn)
    BY <1>2, <2>1, <2>3 DEF CheckExisting, Status, Rejection
  <2>4. CASE pc' = [pc EXCEPT ![r] = "lookup"] /\ UNCHANGED <<locals, reply>>
    BY <1>2, <2>4 DEF CheckExisting
  <2>5. QED
    BY <1>2, <2>2, <2>3, <2>4 DEF CheckExisting
<1>3. CASE LookupKey(r)
  <2>1. ASSUME NEW t \in FindByKey(r), Answer(r, "replayed", t)
        PROVE  Answers(r)
    BY <1>3, <2>1 DEF LookupKey, FindByKey, Status
  <2>2. CASE pc' = [pc EXCEPT ![r] = IF input[r].op = "post" THEN "load" ELSE "insert"]
             /\ UNCHANGED <<locals, reply>>
    BY <1>3, <2>2 DEF LookupKey
  <2>3. QED
    BY <1>3, <2>1, <2>2 DEF LookupKey
<1>4. CASE LoadAccounts(r)
  <2>1. CASE Answer(r, "validation_error", NoTxn)
    BY <1>4, <2>1 DEF LoadAccounts, Status, Rejection
  <2>2. CASE ~Answer(r, "validation_error", NoTxn)
    BY <1>4, <2>2 DEF LoadAccounts
  <2>3. QED
    BY <2>1, <2>2
<1>5. CASE BuildLine(r)
  <2> DEFINE error == LineError(r, lines[r][Len(rows[r]) + 1])
  <2>1. error \in Rejection \union {"ok"}
    BY DEF LineError, Rejection
  <2>2. CASE error = "ok"
    BY <1>5, <2>2 DEF BuildLine, AppendRow
  <2>3. CASE error # "ok"
    <3>1. Answer(r, error, NoTxn) /\ pc[r] = "build" /\ UNCHANGED <<transactions, history>>
      BY <1>5, <2>3 DEF BuildLine
    <3>2. error \in Status /\ error # "posted" /\ error # "replayed"
      BY <2>1, <2>3 DEF Status, Rejection
    <3> HIDE DEF error
    <3>3. QED
      BY <3>1, <3>2
  <2>4. QED
    BY <2>2, <2>3
<1>6. CASE CheckBalanced(r) \/ InsertTransaction(r)
  <2>1. CASE \E status \in {"unbalanced", "server_error"} : Answer(r, status, NoTxn)
    BY <1>6, <2>1 DEF CheckBalanced, InsertTransaction, Status, Rejection
  <2>2. CASE ~\E status \in {"unbalanced", "server_error"} : Answer(r, status, NoTxn)
    BY <1>6, <2>2 DEF CheckBalanced, InsertTransaction
  <2>3. QED
    BY <2>1, <2>2
<1>7. CASE MirrorLine(r) \/ LockBalance(r) \/ AllLocked(r) \/ AllThreaded(r)
  BY <1>7 DEF MirrorLine, AppendRow, LockBalance, AllLocked, AllThreaded
<1>8. CASE Reload(r)
  BY <1>8 DEF Reload, Status
<1>9. CASE CheckEmpty(r)
  <2>1. CASE \E status \in {"account_not_found", "account_not_empty"} : Answer(r, status, NoTxn)
    BY <1>9, <2>1 DEF CheckEmpty, Status, Rejection
  <2>2. CASE ~\E status \in {"account_not_found", "account_not_empty"} : Answer(r, status, NoTxn)
    BY <1>9, <2>2 DEF CheckEmpty
  <2>3. QED
    BY <2>1, <2>2
<1>10. CASE CloseAccount(r) \/ Lose(r)
  BY <1>10 DEF CloseAccount, Lose, Status
<1> QED
  BY <1>1, <1>2, <1>3, <1>4, <1>5, <1>6, <1>7, <1>8, <1>9, <1>10 DEF Step

\* Where a reversal can be once it has loaded its original.
Loaded == {"existing", "lookup", "insert"} \union InFlight

\* A reversal gets there by loading its original only.
LEMMA ReversalLoads ==
  ASSUME Typing, NEW r \in Requests, Step(r) \/ Lose(r), input[r].op = "reverse",
         pc'[r] \in Loaded
  PROVE  \/ pc[r] \in Loaded
         \/ /\ input[r].target \in transactions
            /\ input[input[r].target].tenant = input[r].tenant
<1> USE DEF Typing, TypeOK, Loaded, InFlight
<1>1. CASE LoadOriginal(r)
  BY <1>1 DEF LoadOriginal, Answer
<1>2. CASE LoadAccounts(r) \/ BuildLine(r) \/ CheckBalanced(r)
  <2>1. pc[r] \in {"load", "build"}
    BY <1>2 DEF LoadAccounts, BuildLine, CheckBalanced
  <2>2. QED
    BY <2>1 DEF PcFitsInput, PostInput
<1>3. CASE CheckExisting(r) \/ LookupKey(r) \/ InsertTransaction(r) \/ MirrorLine(r)
           \/ LockBalance(r) \/ AllLocked(r) \/ ThreadRow(r) \/ AllThreaded(r) \/ Commit(r)
  BY <1>3 DEF CheckExisting, LookupKey, InsertTransaction, MirrorLine, LockBalance, AllLocked,
     ThreadRow, AllThreaded, Commit, Goto
<1>4. CASE Reload(r) \/ CheckEmpty(r) \/ CloseAccount(r) \/ Lose(r)
  <2>1. pc'[r] \in {"done", "close"}
    BY <1>4 DEF Reload, CheckEmpty, CloseAccount, Lose, Answer
  <2>2. QED
    BY <2>1
<1> QED
  BY <1>1, <1>2, <1>3, <1>4 DEF Step

\* What a request knows of its original stays true.
LEMMA OriginalKeeps ==
  ASSUME Typing, Answering, NEW r \in Requests, Step(r) \/ Lose(r)
  PROVE  \A s \in Requests : OriginalKnown(s)'
<1>1. /\ input' = input /\ \A s \in Requests \ {r} : pc'[s] = pc[s]
      /\ transactions' = transactions \/ Commit(r)
  BY StepFrame
<1>2. /\ transactions \subseteq transactions' /\ transactions' \subseteq transactions \union {r}
      /\ r \in transactions' => r \in transactions \/ pc[r] = "commit"
  BY <1>1 DEF Commit, Goto
<1>3. ASSUME NEW s \in Requests \ {r}
      PROVE  OriginalKnown(s)'
  <2>1. OriginalKnown(s)
    BY DEF Answering
  <2>2. QED
    BY <1>1, <1>2, <2>1 DEF OriginalKnown
<1>4. OriginalKnown(r)'
  <2>1. SUFFICES ASSUME pc'[r] \in Loaded \/ r \in transactions', input[r].op = "reverse"
                 PROVE  /\ input[r].target \in transactions
                        /\ input[input[r].target].tenant = input[r].tenant
    BY <1>1, <1>2 DEF OriginalKnown, Loaded
  <2>2. CASE pc[r] \in Loaded \/ r \in transactions
    BY <2>1, <2>2 DEF Answering, OriginalKnown, Loaded
  <2>3. CASE pc[r] \notin Loaded /\ r \notin transactions
    <3>1. pc'[r] \in Loaded
      BY <1>2, <2>1, <2>3 DEF Loaded, InFlight
    <3>2. QED
      BY <2>1, <2>3, <3>1, ReversalLoads
  <2>4. QED
    BY <2>2, <2>3
<1>5. QED
  BY <1>3, <1>4

\* Postings stay those of the request that staged them.
LEMMA TracedKeeps ==
  ASSUME Typing, Answering, NEW r \in Requests,
         Silent(r) \/ Answers(r) \/ ThreadRow(r) \/ Commit(r)
  PROVE  Traced'
<1>1. Traced /\ staged \in [Requests -> [Accounts -> Seq(Posting)]] /\ history \in [Accounts -> Seq(Posting)]
  BY DEF Answering, Typing, TypeOK
<1>2. CASE Silent(r)
  BY <1>1, <1>2 DEF Silent, Traced
<1>3. CASE Answers(r)
  <2>1. /\ staged' = [staged EXCEPT ![r] = [a \in Accounts |-> <<>>]]
        /\ UNCHANGED <<transactions, history>>
    BY <1>3 DEF Answers, Answer
  <2>2. \A a \in Accounts : staged'[r][a] = <<>>
    BY <1>1, <2>1
  <2>3. \A s \in Requests \ {r} : staged'[s] = staged[s]
    BY <1>1, <2>1
  <2>4. QED
    BY <1>1, <2>1, <2>2, <2>3 DEF Traced
<1>4. CASE ThreadRow(r)
  <2> DEFINE row == rows[r][threaded[r] + 1]
             before == running[r][row.account]
             p == [txn |-> r, direction |-> row.direction, amount |-> row.amount,
                   before |-> before,
                   after |-> before + Effect(row.account, row.direction, row.amount)]
  <2>1. /\ staged' = [staged EXCEPT ![r][row.account] = Append(@, p)]
        /\ UNCHANGED <<transactions, history>>
    BY <1>4 DEF ThreadRow, database
  <2>2. p.txn = r
    OBVIOUS
  <2> HIDE DEF row, before, p
  <2>3. ASSUME NEW s \in Requests, NEW a \in Accounts, NEW i \in DOMAIN staged'[s][a]
        PROVE  staged'[s][a][i].txn = s
    <3>1. CASE staged'[s][a] = staged[s][a]
      BY <1>1, <2>3, <3>1 DEF Traced
    <3>2. CASE staged'[s][a] # staged[s][a]
      <4>1. s = r /\ staged'[s][a] = Append(staged[r][a], p) /\ staged[r][a] \in Seq(Posting)
        BY <1>1, <2>1, <3>2
      <4>2. \/ i \in DOMAIN staged[r][a] /\ staged'[s][a][i] = staged[r][a][i]
            \/ staged'[s][a][i] = p
        BY <2>3, <4>1
      <4>3. QED
        BY <1>1, <2>2, <4>1, <4>2 DEF Traced
    <3>3. QED
      BY <3>1, <3>2
  <2>4. QED
    BY <1>1, <2>1, <2>3 DEF Traced
<1>5. CASE Commit(r)
  <2>1. /\ transactions' = transactions \union {r}
        /\ \A a \in Accounts : history'[a] = history[a] \o staged[r][a]
        /\ staged' = [staged EXCEPT ![r] = [a \in Accounts |-> <<>>]]
    BY <1>5 DEF Commit
  <2>2. ASSUME NEW a \in Accounts, NEW i \in DOMAIN history'[a]
        PROVE  history'[a][i].txn \in transactions'
    <3> DEFINE h == history[a]
               s == staged[r][a]
               n == Len(h)
               m == Len(s)
    <3>1. h \in Seq(Posting) /\ s \in Seq(Posting)
      BY <1>1
    <3>2. history'[a] = h \o s
      BY <2>1
    <3>3. \A j \in DOMAIN h : h[j].txn \in transactions
      BY <1>1 DEF Traced
    <3>4. \A j \in DOMAIN s : s[j].txn = r
      BY <1>1 DEF Traced
    <3> HIDE DEF h, s
    <3>5. n \in Nat /\ m \in Nat /\ DOMAIN h = 1 .. n /\ DOMAIN s = 1 .. m
      BY <3>1
    <3>6. /\ DOMAIN (h \o s) = 1 .. (n + m)
          /\ \A j \in 1 .. (n + m) : (h \o s)[j] = IF j <= n THEN h[j] ELSE s[j - n]
      BY <3>1
    <3> HIDE DEF n, m
    <3>7. i \in 1 .. (n + m) /\ history'[a][i] = IF i <= n THEN h[i] ELSE s[i - n]
      BY <2>2, <3>2, <3>6
    <3>8. CASE i <= n
      <4>1. i \in DOMAIN h
        BY <3>5, <3>7, <3>8
      <4>2. QED
        BY <2>1, <3>3, <3>7, <3>8, <4>1
    <3>9. CASE ~(i <= n)
      <4>1. i - n \in DOMAIN s
        BY <3>5, <3>7, <3>9
      <4>2. QED
        BY <2>1, <3>4, <3>7, <3>9, <4>1
    <3>10. QED
      BY <3>8, <3>9
  <2>3. /\ \A a \in Accounts : staged'[r][a] = <<>>
        /\ \A s \in Requests \ {r} : staged'[s] = staged[s]
    BY <1>1, <2>1
  <2>4. \A s \in Requests : \A a \in Accounts : \A i \in DOMAIN staged'[s][a] :
          staged'[s][a][i].txn = s
    BY <1>1, <2>3 DEF Traced
  <2>5. QED
    BY <2>2, <2>4 DEF Traced
<1>6. QED
  BY <1>2, <1>3, <1>4, <1>5

\* What callers were told stays true, and so is every new answer.
LEMMA AnswersKeep ==
  ASSUME Typing, Answering, NEW r \in Requests, Step(r) \/ Lose(r),
         Silent(r) \/ Answers(r) \/ ThreadRow(r) \/ Commit(r)
  PROVE  Told' /\ AnswersAreCommitted'
<1> USE DEF Typing, TypeOK
<1>1. input' = input /\ \A s \in Requests \ {r} : pc'[s] = pc[s]
  BY StepFrame
<1>2. Told /\ AnswersAreCommitted
  BY DEF Answering
<1>3. CASE Silent(r)
  BY <1>1, <1>2, <1>3 DEF Silent, Told, AnswersAreCommitted
<1>4. CASE Answers(r)
  <2>1. PICK status \in Status, t \in Requests \union {NoTxn} :
          /\ Answer(r, status, t)
          /\ pc[r] = "reload" => status \in {"posted", "lost"}
          /\ status = "posted" => pc[r] = "reload" /\ t = r
          /\ status = "replayed" =>
               /\ t \in transactions /\ input[t].tenant = input[r].tenant
               /\ input[t].key = input[r].key
    BY <1>4 DEF Answers
  <2>2. /\ pc' = [pc EXCEPT ![r] = "done"]
        /\ reply' = [reply EXCEPT ![r] = [status |-> status, txn |-> t]]
        /\ transactions' = transactions /\ pc[r] # "done"
    BY <1>4, <2>1 DEF Answer, Answers
  <2>3. /\ reply'[r].status = status /\ reply'[r].txn = t /\ pc'[r] = "done"
        /\ \A s \in Requests \ {r} : reply'[s] = reply[s]
    BY <2>2
  <2>4. r \in transactions => pc[r] = "reload"
    BY <2>2 DEF PcFitsInput
  <2>5. Told'
    BY <1>1, <1>2, <2>1, <2>2, <2>3, <2>4 DEF Told
  <2>6. status = "replayed" => t # r
    <3>1. SUFFICES ASSUME status = "replayed", t = r
                   PROVE  FALSE
      OBVIOUS
    <3>2. QED
      BY <2>1, <2>4, <3>1
  <2>7. status = "posted" => r \in transactions
    BY <1>2, <2>1 DEF Told
  <2>8. AnswersAreCommitted'
    BY <1>1, <1>2, <2>1, <2>2, <2>3, <2>6, <2>7 DEF AnswersAreCommitted
  <2>9. QED
    BY <2>5, <2>8
<1>5. CASE ThreadRow(r)
  BY <1>2, <1>5 DEF ThreadRow, database, Told, AnswersAreCommitted
<1>6. CASE Commit(r)
  <2>1. /\ transactions' = transactions \union {r} /\ reply' = reply
        /\ pc[r] = "commit" /\ pc'[r] = "reload"
    BY <1>6 DEF Commit, Goto
  <2>2. Told'
    BY <1>1, <1>2, <2>1 DEF Told
  <2>3. AnswersAreCommitted'
    BY <1>1, <1>2, <2>1 DEF AnswersAreCommitted
  <2>4. QED
    BY <2>2, <2>3
<1>7. QED
  BY <1>3, <1>4, <1>5, <1>6

\* A call that begins knows nothing yet and is told nothing.
LEMMA BeginAnswers ==
  ASSUME Typing, Answering, NEW r \in Requests, Begin(r)
  PROVE  Answering'
<1> USE DEF Typing, TypeOK
<1>1. PICK i \in Inputs : /\ Goto(r, "idle", FirstStep(i.op))
                          /\ input' = [input EXCEPT ![r] = i]
                          /\ UNCHANGED <<database, held, staged, reply>>
  BY DEF Begin
<1>2. /\ pc[r] = "idle" /\ pc'[r] \in {"lookup", "original", "check"}
      /\ pc'[r] = "lookup" => i.op = "post"
      /\ \A s \in Requests \ {r} : pc'[s] = pc[s] /\ input'[s] = input[s]
      /\ input'[r] = i
      /\ UNCHANGED <<transactions, history, staged, reply>>
  BY <1>1 DEF Goto, FirstStep, database
<1>3. r \notin transactions
  BY <1>2 DEF PcFitsInput
<1>4. Traced'
  BY <1>2 DEF Answering, Traced
<1>5. Told'
  BY <1>2, <1>3 DEF Answering, Told
<1>6. AnswersAreCommitted'
  <2>1. reply[r].status = "pending"
    BY <1>2 DEF Answering, Told
  <2>2. QED
    BY <1>2, <1>3, <2>1, ZenonT(30) DEF Answering, AnswersAreCommitted
<1>7. ASSUME NEW s \in Requests
      PROVE  OriginalKnown(s)'
  <2>1. CASE s = r
    BY <1>2, <1>3, <2>1 DEF OriginalKnown, InFlight
  <2>2. CASE s # r
    <3>1. OriginalKnown(s)
      BY DEF Answering
    <3>2. \A t \in transactions : t # r /\ t \in Requests
      BY <1>3
    <3>3. \A t \in transactions : input'[t] = input[t]
      BY <1>2, <3>2
    <3>4. pc'[s] = pc[s] /\ input'[s] = input[s] /\ transactions' = transactions
      BY <1>2, <2>2
    <3>5. QED
      BY <3>1, <3>3, <3>4 DEF OriginalKnown
  <2>3. QED
    BY <2>1, <2>2
<1>8. QED
  BY <1>4, <1>5, <1>6, <1>7 DEF Answering

\* Answering is inductive, relative to the type invariant.
LEMMA NextAnswering ==
  ASSUME Typing, Answering, [Next]_vars
  PROVE  Answering'
<1>1. ASSUME NEW r \in Requests, Begin(r)
      PROVE  Answering'
  BY <1>1, BeginAnswers
<1>2. ASSUME NEW r \in Requests, Step(r) \/ Lose(r)
      PROVE  Answering'
  <2>1. Silent(r) \/ Answers(r) \/ ThreadRow(r) \/ Commit(r)
    BY <1>2, StepAnswers
  <2>2. Traced'
    BY <2>1, TracedKeeps
  <2>3. Told' /\ AnswersAreCommitted'
    BY <1>2, <2>1, AnswersKeep
  <2>4. \A s \in Requests : OriginalKnown(s)'
    BY <1>2, OriginalKeeps
  <2>5. QED
    BY <2>2, <2>3, <2>4 DEF Answering
<1>3. CASE UNCHANGED vars
  BY <1>3 DEF vars, Answering, Traced, Told, AnswersAreCommitted, OriginalKnown
<1>4. QED
  BY <1>1, <1>2, <1>3 DEF Next, Quiet

\* Nobody is told anything at the start.
LEMMA InitAnswering == Init => Answering
<1>1. SUFFICES ASSUME Init PROVE Answering
  OBVIOUS
<1>2. Traced
  BY <1>1 DEF Init, Traced
<1>3. Told /\ AnswersAreCommitted
  BY <1>1 DEF Init, Told, AnswersAreCommitted
<1>4. \A r \in Requests : OriginalKnown(r)
  BY <1>1 DEF Init, OriginalKnown, InFlight
<1>5. QED
  BY <1>2, <1>3, <1>4 DEF Answering

\* Every reachable state has both.
LEMMA AlwaysAnswering == Spec => [](Typing /\ Answering)
<1>1. Typing /\ Answering /\ [Next]_vars => (Typing /\ Answering)'
  BY NextTyping, NextAnswering
<1>2. Init => Typing /\ Answering
  BY InitTyping, InitAnswering
<1>3. QED
  BY <1>1, <1>2, PTL DEF Spec

-------------------------------------------------------------------------------

\* The transaction an answer names is a committed one of the caller's tenant, and
\* a replay's the one its key names: for any number of requests and accounts.
THEOREM AnswersNameCommitted == Spec => []AnswersAreCommitted
<1>1. Answering => AnswersAreCommitted
  BY DEF Answering
<1>2. QED
  BY <1>1, AlwaysAnswering, PTL

-------------------------------------------------------------------------------
(* Locks and snapshots. *)

\* What a step of request r can do to its locks, rows and snapshots.
Ended(r) ==
  /\ pc' = [pc EXCEPT ![r] = "done"]
  /\ held' = [held EXCEPT ![r] = {}]
  /\ staged' = [staged EXCEPT ![r] = [a \in Accounts |-> <<>>]]
  /\ UNCHANGED <<rows, deltas, stored, running, threaded, balance, history>>

Early == {"idle", "insert", "mirror"} \union Reading

Passed(r) ==
  /\ \E p \in Reading \union {"insert", "mirror", "lock"} : pc' = [pc EXCEPT ![r] = p]
  /\ pc[r] \in Early
  /\ UNCHANGED <<rows, deltas, held, stored, running, threaded, staged, balance, history>>

Appended(r) ==
  /\ pc[r] \in {"build", "mirror"}
  /\ \E row \in Row : AppendRow(r, row)
  /\ UNCHANGED <<pc, balance, history>>

\* An iteration of _build_postings appends one row or ends the request.
LEMMA BuildLineAppends ==
  ASSUME Typing, NEW r \in Requests, BuildLine(r)
  PROVE  Appended(r) \/ Ended(r)
<1> DEFINE line == lines[r][Len(rows[r]) + 1]
           row == [account |-> line.account, direction |-> line.direction,
                   amount |-> line.amount]
<1>1. CASE LineError(r, line) = "ok"
  <2>1. line \in Original
    BY ElementOfSeq, LenProperties DEF BuildLine, Built, Typing, TypeOK
  <2>2. row \in Row
    BY <1>1, <2>1 DEF LineError, AccountsOf, Original, Line, Row
  <2>3. QED
    BY <1>1, <2>2 DEF BuildLine, Appended, database
<1>2. CASE LineError(r, line) # "ok"
  BY <1>2 DEF BuildLine, Ended, Answer, database
<1> QED
  BY <1>1, <1>2

\* An iteration of reverse_transaction's loop appends one row or moves on to the locks.
LEMMA MirrorLineAppends ==
  ASSUME Typing, NEW r \in Requests, MirrorLine(r)
  PROVE  Appended(r) \/ Passed(r)
<1> DEFINE line == lines[r][Len(rows[r]) + 1]
           row == [account |-> line.account, amount |-> line.amount,
                   direction |-> Opposite(line.direction)]
<1>1. CASE ~Built(r) /\ AppendRow(r, row) /\ UNCHANGED pc
  <2>1. line \in Row
    BY <1>1, ElementOfSeq, LenProperties DEF MirrorLine, Built, Typing, TypeOK, PcFitsInput
  <2>2. row \in Row
    BY <2>1 DEF Opposite, Direction, Row
  <2>3. QED
    BY <1>1, <2>2 DEF MirrorLine, Appended, database
<1>2. CASE pc' = [pc EXCEPT ![r] = "lock"] /\ UNCHANGED <<locals, reply>>
  BY <1>2 DEF MirrorLine, Passed, Early, database, locals
<1> QED
  BY <1>1, <1>2 DEF MirrorLine

\* Every step of a handler is one of a few kinds, as far as locks and snapshots go.
LEMMA StepEffect ==
  ASSUME Typing, NEW r \in Requests, Begin(r) \/ Step(r) \/ Lose(r)
  PROVE  \/ Ended(r) \/ Passed(r) \/ Appended(r)
         \/ LockBalance(r) \/ AllLocked(r) \/ ThreadRow(r) \/ AllThreaded(r) \/ Commit(r)
<1> USE DEF Ended, Passed, Early, Reading, Answer, Goto, database, locals
<1>1. CASE Begin(r)
  BY <1>1, InputFields DEF Begin, FirstStep
<1>2. CASE LoadOriginal(r) \/ CheckExisting(r)
  BY <1>2 DEF LoadOriginal, CheckExisting
<1>3. CASE LookupKey(r) \/ LoadAccounts(r)
  BY <1>3 DEF LookupKey, LoadAccounts
<1>4. CASE CheckBalanced(r) \/ InsertTransaction(r)
  BY <1>4 DEF CheckBalanced, InsertTransaction
<1>5. CASE Reload(r) \/ CheckEmpty(r) \/ CloseAccount(r) \/ Lose(r)
  BY <1>5 DEF Reload, CheckEmpty, CloseAccount, Lose
<1> QED
  BY <1>1, <1>2, <1>3, <1>4, <1>5, BuildLineAppends, MirrorLineAppends DEF Step

\* A step of one request leaves the others' locks, rows and snapshots alone.
LEMMA OthersFrame ==
  ASSUME Typing, NEW r \in Requests, Begin(r) \/ Step(r) \/ Lose(r), NEW s \in Requests, s # r
  PROVE  /\ pc'[s] = pc[s] /\ rows'[s] = rows[s] /\ deltas'[s] = deltas[s]
         /\ held'[s] = held[s] /\ stored'[s] = stored[s] /\ running'[s] = running[s]
         /\ threaded'[s] = threaded[s] /\ staged'[s] = staged[s]
<1> USE DEF Typing, TypeOK
<1>1. CASE Ended(r) \/ Passed(r)
  BY <1>1 DEF Ended, Passed
<1>2. CASE Appended(r)
  BY <1>2 DEF Appended, AppendRow
<1>3. CASE LockBalance(r) \/ AllLocked(r)
  BY <1>3 DEF LockBalance, AllLocked, Goto, locals
<1>4. CASE ThreadRow(r)
  <2>1. /\ UNCHANGED <<pc, rows, deltas, held, stored>>
        /\ threaded' = [threaded EXCEPT ![r] = @ + 1]
        /\ \E a, x : running' = [running EXCEPT ![r][a] = x]
        /\ \E a, x : staged' = [staged EXCEPT ![r][a] = x]
    BY <1>4 DEF ThreadRow
  <2>2. running'[s] = running[s] /\ staged'[s] = staged[s]
    BY <2>1
  <2>3. QED
    BY <2>1, <2>2
<1>5. CASE AllThreaded(r) \/ Commit(r)
  BY <1>5 DEF AllThreaded, Commit, Goto, locals
<1> QED
  BY <1>1, <1>2, <1>3, <1>4, <1>5, StepEffect

-------------------------------------------------------------------------------
(* The locks. *)

\* Every step keeps the discipline of _lock_balances: ascending, exclusive, held to the end.
LEMMA NextLocking ==
  ASSUME Typing, Locking, [Next]_vars
  PROVE  Locking'
<1>1. ASSUME NEW r \in Requests, Begin(r) \/ Step(r) \/ Lose(r)
      PROVE  Locking'
  <2>1. \A s \in Requests \ {r} : LocksInOrder(s)'
    BY <1>1, OthersFrame DEF Locking, LocksInOrder, Unlocked
  <2>2. LocksInOrder(r)' /\ held'[r] \subseteq held[r] \union (Accounts \ LockedByOthers(r))
    <3> USE DEF Typing, TypeOK
    <3>1. LocksInOrder(r)
      BY DEF Locking
    <3>2. CASE Ended(r)
      BY <3>2 DEF Ended, LocksInOrder
    <3>3. CASE Passed(r)
      BY <3>1, <3>3 DEF Passed, Early, Reading, LocksInOrder
    <3>4. CASE Appended(r)
      BY <3>1, <3>4 DEF Appended, AppendRow, LocksInOrder
    <3>5. CASE LockBalance(r)
      <4> DEFINE a == NextToLock(r)
      <4>1. a \in Unlocked(r) /\ a \in Accounts /\ \A b \in Unlocked(r) : a <= b
        BY <3>5, NextToLockType DEF LockBalance
      <4>2. /\ held' = [held EXCEPT ![r] = @ \union {a}] /\ a \notin LockedByOthers(r)
            /\ pc[r] = "lock" /\ UNCHANGED <<pc, rows>>
        BY <3>5 DEF LockBalance
      <4> HIDE DEF a
      <4>3. held'[r] = held[r] \union {a} /\ Unlocked(r)' = Unlocked(r) \ {a}
        BY <4>2 DEF Unlocked
      <4>4. \A b \in Unlocked(r) \ {a} : a < b
        <5>1. Unlocked(r) \subseteq Nat
          BY TouchedType, ChartAssumption DEF Unlocked
        <5>2. QED
          BY <4>1, <5>1
      <4>5. held'[r] \subseteq Touched(rows[r])
        BY <3>1, <4>1, <4>3 DEF LocksInOrder, Unlocked
      <4>6. QED
        BY <3>1, <4>1, <4>2, <4>3, <4>4, <4>5 DEF LocksInOrder
    <3>6. CASE AllLocked(r)
      BY <3>1, <3>6 DEF AllLocked, Goto, locals, LocksInOrder, Unlocked
    <3>7. CASE ThreadRow(r) \/ AllThreaded(r)
      BY <3>1, <3>7 DEF ThreadRow, AllThreaded, Goto, locals, LocksInOrder, Unlocked
    <3>8. CASE Commit(r)
      BY <3>8 DEF Commit, Goto, LocksInOrder
    <3> QED
      BY <1>1, <3>2, <3>3, <3>4, <3>5, <3>6, <3>7, <3>8, StepEffect
  <2>3. \A s \in Requests \ {r} : held'[r] \intersect held'[s] = {}
    BY <1>1, <2>2, OthersFrame DEF Locking, LockedByOthers
  <2>4. \A s, t \in Requests : s # t => held'[s] \intersect held'[t] = {}
    BY <1>1, <2>3, OthersFrame DEF Locking
  <2>5. QED
    BY <2>1, <2>2, <2>4 DEF Locking
<1>2. CASE UNCHANGED vars
  BY <1>2 DEF vars, Locking, LocksInOrder, Unlocked
<1> QED
  BY <1>1, <1>2 DEF Next, Quiet

\* Of requests that all wait for locks, the one that waits for the greatest
\* account waits for none of the others.
LEMMA NoCircle ==
  ASSUME Typing, Locking
  PROVE  NoCircularWait
<1> SUFFICES ASSUME NEW S \in SUBSET Requests, S # {}
             PROVE  \E r \in S : \A s \in S : ~WaitsFor(r, s)
  BY DEF NoCircularWait
<1> DEFINE W == {r \in S : pc[r] = "lock" /\ Unlocked(r) # {}}
<1>1. CASE \E r \in S : pc[r] # "insert" /\ r \notin W
  BY <1>1 DEF WaitsFor
<1>2. CASE W = {} /\ \A r \in S : pc[r] = "insert"
  BY <1>2 DEF WaitsFor, Inserted, InFlight
<1>3. CASE W # {} /\ \A r \in S : pc[r] = "insert" \/ r \in W
  <2> DEFINE Wanted == {NextToLock(r) : r \in W}
  <2>1. \A r \in W : NextToLock(r) \in Unlocked(r) /\ NextToLock(r) \in Accounts
    BY NextToLockType
  <2>2. Wanted \subseteq Accounts /\ Wanted # {}
    BY <1>3, <2>1
  <2>3. PICK a \in Wanted : \A b \in Wanted : b <= a
    <3>1. Wanted \in SUBSET Nat /\ IsFiniteSet(Wanted)
      BY <2>2, ChartAssumption, FS_Subset
    <3> HIDE DEF Wanted
    <3>2. QED
      BY <2>2, <3>1, GreatestExists
  <2>4. PICK r \in W : a = NextToLock(r)
    BY <2>3
  <2>5. ASSUME NEW s \in S, a \in held[s]
        PROVE  FALSE
    <3>1. pc[s] \in {"lock", "thread", "commit"}
      BY <2>5 DEF Locking, LocksInOrder
    <3>2. s \in W
      BY <1>3, <3>1
    <3>3. a < NextToLock(s)
      BY <2>1, <2>5, <3>2 DEF Locking, LocksInOrder
    <3>4. NextToLock(s) <= a
      BY <2>3, <3>2
    <3>5. a \in Nat /\ NextToLock(s) \in Nat
      BY <2>1, <2>2, <2>3, <3>2, ChartAssumption
    <3> QED
      BY <3>3, <3>4, <3>5
  <2>6. QED
    BY <2>4, <2>5 DEF WaitsFor
<1> QED
  BY <1>1, <1>2, <1>3

\* Requests never wait in a circle, whatever accounts their lines name and in
\* whatever order, the waits on the unique indexes included.
THEOREM DeadlockFreedom == Spec => []NoCircularWait
<1>1. Init => Locking
  BY DEF Init, Locking, LocksInOrder, Touched, Reading
<1>2. Spec => [](Typing /\ Locking)
  BY <1>1, InitTyping, NextTyping, NextLocking, PTL DEF Spec
<1>3. Typing /\ Locking => NoCircularWait
  BY NoCircle
<1> QED
  BY <1>2, <1>3, PTL

-------------------------------------------------------------------------------
(* Chains of snapshots. *)

\* Adding a line to debits or credits moves the signed balance by the line's effect.
LEMMA SignedAddTo ==
  ASSUME NEW a \in Accounts, NEW t \in Totals, NEW d \in Direction, NEW m \in Nat \ {0}
  PROVE  Signed(a, AddTo(t, d, m)) = Signed(a, t) + Effect(a, d, m)
  BY DEF Signed, AddTo, Effect, NormalBalance, Totals, Direction

\* Applying deltas to a stored balance moves its signed balance by theirs.
LEMMA SignedApplyDelta ==
  ASSUME NEW a \in Accounts, NEW b \in Balance, NEW d \in Totals
  PROVE  Signed(a, ApplyDelta(b, d)) = Signed(a, b) + Signed(a, d)
  BY DEF Signed, ApplyDelta, NormalBalance, Balance, Totals

\* A chain of snapshots may be extended by a posting that starts where it ends.
LEMMA ChainAppend ==
  ASSUME NEW a \in Accounts, NEW s \in Seq(Posting), NEW p \in Posting, NEW x, NEW y,
         Chained(a, s, x, y), p.before = y,
         p.after = p.before + Effect(a, p.direction, p.amount)
  PROVE  Chained(a, Append(s, p), x, p.after)
<1> DEFINE t == Append(s, p)
<1>1. /\ Len(t) = Len(s) + 1 /\ Len(s) \in Nat
      /\ \A i \in 1..Len(s) : t[i] = s[i]
      /\ t[Len(s) + 1] = p
  BY AppendProperties, LenProperties
<1> HIDE DEF t
<1>2. \A i \in 1..Len(t) : t[i].after = t[i].before + Effect(a, t[i].direction, t[i].amount)
  BY <1>1 DEF Chained
<1>3. ASSUME NEW i \in 1..(Len(t) - 1)
      PROVE  t[i + 1].before = t[i].after
  <2>1. CASE i = Len(s)
    BY <1>1, <2>1 DEF Chained
  <2>2. CASE i # Len(s)
    <3>1. i \in 1..(Len(s) - 1) /\ i + 1 \in 1..Len(s)
      BY <1>1, <2>2
    <3>2. QED
      BY <1>1, <3>1 DEF Chained
  <2> QED
    BY <2>1, <2>2
<1>4. t[1].before = x
  BY <1>1 DEF Chained
<1> QED
  BY <1>1, <1>2, <1>3, <1>4 DEF Chained, t

\* Two chains, the second starting where the first ends, make one (the COMMIT).
LEMMA ChainConcat ==
  ASSUME NEW a \in Accounts, NEW s \in Seq(Posting), NEW t \in Seq(Posting),
         NEW x, NEW y, NEW z, Chained(a, s, x, y), Chained(a, t, y, z)
  PROVE  Chained(a, s \o t, x, z)
<1> DEFINE u == s \o t
<1>1. /\ Len(u) = Len(s) + Len(t) /\ Len(s) \in Nat /\ Len(t) \in Nat
      /\ \A i \in 1..Len(u) : u[i] = IF i <= Len(s) THEN s[i] ELSE t[i - Len(s)]
  BY ConcatProperties, LenProperties
<1> HIDE DEF u
<1>2. ASSUME NEW i \in 1..Len(u)
      PROVE  u[i].after = u[i].before + Effect(a, u[i].direction, u[i].amount)
  <2>1. CASE i <= Len(s)
    BY <1>1, <2>1 DEF Chained
  <2>2. CASE ~(i <= Len(s))
    <3>1. i - Len(s) \in 1..Len(t) /\ u[i] = t[i - Len(s)]
      BY <1>1, <2>2
    <3>2. QED
      BY <3>1 DEF Chained
  <2> QED
    BY <2>1, <2>2
<1>3. ASSUME NEW i \in 1..(Len(u) - 1)
      PROVE  u[i + 1].before = u[i].after
  <2>1. CASE i < Len(s)
    <3>1. u[i] = s[i] /\ u[i + 1] = s[i + 1] /\ i \in 1..(Len(s) - 1)
      BY <1>1, <2>1
    <3>2. QED
      BY <3>1 DEF Chained
  <2>2. CASE i = Len(s)
    <3>1. u[i] = s[Len(s)] /\ u[i + 1] = t[1] /\ Len(s) # 0 /\ Len(t) # 0
      BY <1>1, <2>2
    <3>2. QED
      BY <3>1 DEF Chained
  <2>3. CASE i > Len(s)
    <3>1. PICK k \in 1..(Len(t) - 1) : i = Len(s) + k
      <4>1. i - Len(s) \in 1..(Len(t) - 1) /\ i = Len(s) + (i - Len(s))
        BY <1>1, <2>3
      <4>2. QED
        BY <4>1
    <3>2. /\ i \in 1..Len(u) /\ ~(i <= Len(s)) /\ i - Len(s) = k
          /\ i + 1 \in 1..Len(u) /\ ~(i + 1 <= Len(s)) /\ (i + 1) - Len(s) = k + 1
      BY <1>1, <3>1
    <3>3. u[i] = t[k] /\ u[i + 1] = t[k + 1]
      BY <1>1, <3>2
    <3>4. QED
      BY <3>1, <3>3 DEF Chained
  <2> QED
    BY <1>1, <2>1, <2>2, <2>3
<1>4. IF Len(u) = 0 THEN x = z ELSE u[1].before = x /\ u[Len(u)].after = z
  <2>1. CASE Len(s) = 0
    <3>1. x = y /\ Len(u) = Len(t) /\ (Len(t) # 0 => u[1] = t[1] /\ u[Len(u)] = t[Len(t)])
      BY <1>1, <2>1 DEF Chained
    <3>2. QED
      BY <3>1 DEF Chained
  <2>2. CASE Len(s) # 0
    <3>1. u[1] = s[1] /\ Len(u) # 0
      BY <1>1, <2>2
    <3>2. u[Len(u)] = IF Len(t) = 0 THEN s[Len(s)] ELSE t[Len(t)]
      BY <1>1, <2>2
    <3>3. s[1].before = x /\ s[Len(s)].after = y
      BY <2>2 DEF Chained
    <3>4. Len(t) = 0 => y = z
      BY DEF Chained
    <3>5. Len(t) # 0 => t[Len(t)].after = z
      BY DEF Chained
    <3> QED
      BY <3>1, <3>2, <3>3, <3>4, <3>5
  <2> QED
    BY <2>1, <2>2
<1> QED
  BY <1>2, <1>3, <1>4 DEF Chained, u

-------------------------------------------------------------------------------
(* Appending a row keeps the deltas in step. *)

\* A row appended moves the delta of its account, and no other.
LEMMA AppendedDeltas ==
  ASSUME Typing, NEW r \in Requests, DeltasFollow(r), NEW row \in Row, AppendRow(r, row)
  PROVE  DeltasFollow(r)'
<1> DEFINE n == Len(rows[r])
           d == AddRow(deltas[r][Len(deltas[r])], row)
<1>1. /\ rows[r] \in Seq(Row) /\ deltas[r] \in Seq([Accounts -> Totals])
      /\ n \in Nat /\ Len(deltas[r]) = n + 1
  BY LenProperties DEF Typing, TypeOK, DeltasFollow
<1>2. d \in [Accounts -> Totals]
  <2>1. Len(deltas[r]) \in 1..Len(deltas[r])
    BY <1>1
  <2>2. deltas[r][Len(deltas[r])] \in [Accounts -> Totals]
    BY <1>1, <2>1, ElementOfSeq
  <2>3. QED
    BY <2>2, AddRowType
<1>3. rows'[r] = Append(rows[r], row) /\ deltas'[r] = Append(deltas[r], d)
  BY DEF AppendRow, Typing, TypeOK
<1>4. /\ Len(rows'[r]) = n + 1 /\ rows'[r][n + 1] = row
      /\ \A i \in 1..n : rows'[r][i] = rows[r][i]
  BY <1>1, <1>3, AppendProperties
<1>5. /\ Len(deltas'[r]) = n + 2 /\ deltas'[r][n + 2] = d
      /\ \A i \in 1..(n + 1) : deltas'[r][i] = deltas[r][i]
  <2> HIDE DEF d
  <2>1. /\ Len(deltas'[r]) = Len(deltas[r]) + 1 /\ deltas'[r][Len(deltas[r]) + 1] = d
        /\ \A i \in 1..Len(deltas[r]) : deltas'[r][i] = deltas[r][i]
    BY <1>1, <1>2, <1>3, AppendProperties
  <2>2. Len(deltas[r]) + 1 = n + 2
    BY <1>1
  <2>3. QED
    BY <1>1, <2>1, <2>2
<1>6. d = AddRow(deltas[r][n + 1], row)
  BY <1>1
<1> HIDE DEF n, d
<1>7. ASSUME NEW i \in 1..(n + 1)
      PROVE  deltas'[r][i + 1] = AddRow(deltas'[r][i], rows'[r][i])
  <2>1. CASE i = n + 1
    <3>1. i + 1 = n + 2 /\ n + 1 \in 1..(n + 1)
      BY <1>1, <2>1
    <3>2. QED
      BY <1>4, <1>5, <1>6, <2>1, <3>1
  <2>2. CASE i # n + 1
    <3>1. i \in 1..n /\ i + 1 \in 1..(n + 1)
      BY <1>1, <2>2
    <3>2. deltas[r][i + 1] = AddRow(deltas[r][i], rows[r][i])
      BY <3>1 DEF DeltasFollow, n
    <3>3. QED
      BY <1>4, <1>5, <3>1, <3>2
  <2> QED
    BY <2>1, <2>2
<1>8. deltas'[r][1] = ZeroDeltas
  BY <1>1, <1>5 DEF DeltasFollow
<1> QED
  BY <1>1, <1>4, <1>5, <1>7, <1>8 DEF DeltasFollow

-------------------------------------------------------------------------------
(* The snapshots of a request. *)

\* LockBalance: the account it locks starts with an empty chain at the stored balance.
LEMMA LockSnapshot ==
  ASSUME Typing, Locking, Snapshots, NEW r \in Requests, LockBalance(r)
  PROVE  DeltasFollow(r)' /\ ThreadsLast(r)' /\ \A a \in held'[r] : Snapshot(r, a)'
<1>1. PICK a \in Accounts : a = NextToLock(r) /\ a \notin held[r]
  BY NextToLockType DEF LockBalance, Unlocked
<1>2. /\ held' = [held EXCEPT ![r] = @ \union {a}]
      /\ stored' = [stored EXCEPT ![r][a] = balance[a]]
      /\ running' = [running EXCEPT ![r][a] = Signed(a, balance[a])]
      /\ pc[r] = "lock"
      /\ UNCHANGED <<pc, rows, deltas, threaded, staged, balance>>
  BY <1>1 DEF LockBalance, database
<1>3. threaded[r] = 0 /\ deltas[r][1] = ZeroDeltas /\ staged[r][a] = <<>>
  BY <1>1, <1>2 DEF Snapshots, ThreadsLast, DeltasFollow
<1>4. stored'[r][a] = balance[a] /\ running'[r][a] = Signed(a, balance[a])
  BY <1>1, <1>2 DEF Typing, TypeOK
<1>5. Signed(a, ZeroDeltas[a]) = 0 /\ Signed(a, balance[a]) \in Int
  BY <1>1, SignedType, SMTT(30) DEF Signed, ZeroDeltas, ZeroTotals, Typing, TypeOK, Balance
<1>6. Snapshot(r, a)'
  <2>1. deltas'[r][threaded'[r] + 1][a] = ZeroDeltas[a]
    BY <1>2, <1>3
  <2>2. Chained(a, staged'[r][a], Signed(a, balance'[a]), running'[r][a])
    BY <1>2, <1>3, <1>4, EmptySeq DEF Chained
  <2>3. QED
    BY <1>2, <1>4, <1>5, <2>1, <2>2 DEF Snapshot
<1>7. ASSUME NEW b \in held[r]
      PROVE  Snapshot(r, b)'
  <2>1. b # a /\ b \in Accounts
    BY <1>1 DEF Typing, TypeOK
  <2>2. stored'[r][b] = stored[r][b] /\ running'[r][b] = running[r][b]
    BY <1>1, <1>2, <2>1 DEF Typing, TypeOK
  <2>3. QED
    BY <1>2, <2>2 DEF Snapshots, Snapshot
<1>8. held'[r] = held[r] \union {a}
  BY <1>2 DEF Typing, TypeOK
<1>9. DeltasFollow(r)' /\ ThreadsLast(r)'
  BY <1>2, <1>8 DEF Snapshots, DeltasFollow, ThreadsLast
<1> QED
  BY <1>6, <1>7, <1>8, <1>9 DEF Snapshot

\* ThreadRow: the next posting starts where the account's chain ended, and moves
\* it by what the row's entry in deltas adds.
LEMMA ThreadSnapshot ==
  ASSUME Typing, Locking, Snapshots, NEW r \in Requests, ThreadRow(r)
  PROVE  DeltasFollow(r)' /\ ThreadsLast(r)' /\ \A a \in held'[r] : Snapshot(r, a)'
<1>1. PICK k \in 1..Len(rows[r]) : k = threaded[r] + 1
  <2>1. rows[r] \in Seq(Row) /\ threaded[r] \in Nat /\ threaded[r] < Len(rows[r])
    BY DEF ThreadRow, Typing, TypeOK
  <2>2. Len(rows[r]) \in Nat
    BY <2>1, LenProperties
  <2>3. QED
    BY <2>1, <2>2
<1>2. PICK row \in Row : row = rows[r][k]
  BY <1>1, ElementOfSeq DEF Typing, TypeOK
<1>3. PICK a \in Accounts : a = row.account
  BY <1>2 DEF Row
<1> DEFINE before == running[r][a]
           after == before + Effect(a, row.direction, row.amount)
           posting == [txn |-> r, direction |-> row.direction, amount |-> row.amount,
                       before |-> before, after |-> after]
<1>4. /\ running' = [running EXCEPT ![r][a] = after]
      /\ staged' = [staged EXCEPT ![r][a] = Append(@, posting)]
      /\ threaded' = [threaded EXCEPT ![r] = @ + 1]
      /\ pc[r] = "thread"
      /\ UNCHANGED <<pc, rows, deltas, held, stored, balance>>
  BY <1>1, <1>2, <1>3 DEF ThreadRow, database
<1>5. /\ threaded'[r] = k /\ k \in Nat /\ Len(rows[r]) \in Nat
  BY <1>1, <1>4, LenProperties DEF Typing, TypeOK
<1>6. row.direction \in Direction /\ row.amount \in Nat \ {0}
  BY DEF Row
<1>7. a \in held[r]
  <2>1. a \in Touched(rows[r])
    BY <1>2, <1>3, LenProperties DEF Touched, Typing, TypeOK
  <2>2. QED
    BY <1>4, <2>1 DEF Locking, LocksInOrder
<1>8. /\ deltas[r][k] \in [Accounts -> Totals] /\ deltas[r][k + 1] = AddRow(deltas[r][k], row)
  <2>1. deltas[r] \in Seq([Accounts -> Totals]) /\ Len(deltas[r]) = Len(rows[r]) + 1
    BY DEF Typing, TypeOK, Snapshots, DeltasFollow
  <2>2. k \in 1..Len(deltas[r])
    BY <1>5, <2>1
  <2>3. deltas[r][k] \in [Accounts -> Totals]
    BY <2>1, <2>2, ElementOfSeq
  <2>4. QED
    BY <1>2, <2>3 DEF Snapshots, DeltasFollow
<1>9. Snapshot(r, a)
  BY <1>7 DEF Snapshots
<1>10. before \in Int /\ Effect(a, row.direction, row.amount) \in Int
  BY <1>6, EffectType DEF Typing, TypeOK
<1>11. posting \in Posting
  <2> HIDE DEF before
  <2>1. after \in Int
    BY <1>10
  <2> HIDE DEF after
  <2>2. QED
    BY <1>6, <1>10, <2>1 DEF Posting
<1>12. /\ posting.before = before /\ posting.after = after
      /\ posting.direction = row.direction /\ posting.amount = row.amount
  OBVIOUS
<1> HIDE DEF before, after, posting
<1>13. /\ running'[r][a] = after /\ staged'[r][a] = Append(staged[r][a], posting)
       /\ staged[r][a] \in Seq(Posting)
  BY <1>4 DEF Typing, TypeOK
<1>14. Snapshot(r, a)'
  <2>1. Chained(a, Append(staged[r][a], posting), Signed(a, balance[a]), after)
    <3>1. Chained(a, staged[r][a], Signed(a, balance[a]), before)
      BY <1>1, <1>9 DEF Snapshot, before
    <3>2. posting.after = posting.before + Effect(a, posting.direction, posting.amount)
      BY <1>12 DEF after
    <3>3. QED
      BY <1>11, <1>12, <1>13, <3>1, <3>2, ChainAppend
  <2>2. Signed(a, deltas[r][k + 1][a]) =
          Signed(a, deltas[r][k][a]) + Effect(a, row.direction, row.amount)
    <3>1. deltas[r][k + 1][a] = AddTo(deltas[r][k][a], row.direction, row.amount)
      BY <1>3, <1>8 DEF AddRow
    <3>2. QED
      BY <1>6, <1>8, <3>1, SignedAddTo
  <2>3. before = Signed(a, balance[a]) + Signed(a, deltas[r][k][a])
    BY <1>1, <1>9 DEF Snapshot, before
  <2>4. /\ Signed(a, balance[a]) \in Int /\ Signed(a, deltas[r][k][a]) \in Int
    BY <1>8, SignedType DEF Typing, TypeOK, Balance, Totals
  <2>5. after = Signed(a, balance[a]) + Signed(a, deltas[r][k + 1][a])
    BY <1>10, <2>2, <2>3, <2>4 DEF after
  <2>6. stored'[r][a] = balance'[a]
    BY <1>4, <1>9 DEF Snapshot
  <2>7. QED
    BY <1>4, <1>5, <1>13, <2>1, <2>5, <2>6 DEF Snapshot
<1>15. ASSUME NEW b \in held[r], b # a
       PROVE  Snapshot(r, b)'
  <2>1. b \in Accounts /\ Snapshot(r, b)
    BY DEF Typing, TypeOK, Snapshots
  <2>2. running'[r][b] = running[r][b] /\ staged'[r][b] = staged[r][b]
    BY <1>4, <1>15, <2>1 DEF Typing, TypeOK
  <2>3. deltas[r][k + 1][b] = deltas[r][k][b]
    BY <1>3, <1>8, <1>15, <2>1 DEF AddRow
  <2>4. running[r][b] = Signed(b, balance[b]) + Signed(b, deltas[r][k][b])
    BY <1>1, <2>1 DEF Snapshot
  <2>5. QED
    BY <1>1, <1>4, <1>5, <2>1, <2>2, <2>3, <2>4 DEF Snapshot
<1>16. DeltasFollow(r)'
  BY <1>4 DEF Snapshots, DeltasFollow
<1>17. ThreadsLast(r)'
  <2>1. \A b \in Accounts \ held[r] : staged'[r][b] = staged[r][b]
    BY <1>4, <1>7 DEF Typing, TypeOK
  <2>2. ThreadsLast(r) /\ k <= Len(rows[r])
    BY <1>1, <1>5 DEF Snapshots
  <2>3. QED
    BY <1>4, <1>5, <2>1, <2>2 DEF ThreadsLast, Reading
<1> QED
  BY <1>4, <1>14, <1>15, <1>16, <1>17 DEF Snapshot

\* Commit: the balance moves to where the staged snapshots end.
LEMMA CommitChain ==
  ASSUME Typing, Locking, Snapshots, SnapshotChain, NEW r \in Requests, Commit(r),
         NEW a \in Accounts
  PROVE  Chained(a, history'[a], 0, Signed(a, balance'[a]))
<1>1. /\ history'[a] = history[a] \o staged[r][a]
      /\ balance'[a] = IF a \in Touched(rows[r])
                       THEN ApplyDelta(stored[r][a], deltas[r][Len(deltas[r])][a])
                       ELSE balance[a]
      /\ held[r] = Touched(rows[r]) /\ pc[r] = "commit"
  BY DEF Commit, Goto, Locking, LocksInOrder
<1>2. /\ history[a] \in Seq(Posting) /\ staged[r][a] \in Seq(Posting)
      /\ Chained(a, history[a], 0, Signed(a, balance[a]))
  BY DEF Typing, TypeOK, SnapshotChain
<1>3. CASE a \notin held[r]
  <2>1. staged[r][a] = <<>>
    BY <1>3 DEF Snapshots, ThreadsLast
  <2>2. history[a] \o <<>> = history[a]
    BY <1>2, ConcatEmptySeq
  <2>3. QED
    BY <1>1, <1>2, <1>3, <2>1, <2>2
<1>4. CASE a \in held[r]
  <2>1. Snapshot(r, a) /\ threaded[r] = Len(rows[r]) /\ Len(deltas[r]) = Len(rows[r]) + 1
    BY <1>1, <1>4 DEF Snapshots, ThreadsLast, DeltasFollow
  <2>2. deltas[r][Len(deltas[r])] \in [Accounts -> Totals]
    <3>1. deltas[r] \in Seq([Accounts -> Totals]) /\ Len(rows[r]) \in Nat
      BY LenProperties DEF Typing, TypeOK
    <3>2. Len(deltas[r]) \in 1..Len(deltas[r])
      BY <2>1, <3>1
    <3>3. QED
      BY <3>1, <3>2, ElementOfSeq
  <2>3. balance[a] \in Balance /\ deltas[r][Len(deltas[r])][a] \in Totals
    BY <2>2 DEF Typing, TypeOK
  <2>4. Signed(a, balance'[a]) = running[r][a]
    <3>1. balance'[a] = ApplyDelta(balance[a], deltas[r][Len(deltas[r])][a])
      BY <1>1, <1>4, <2>1 DEF Snapshot
    <3>2. running[r][a] = Signed(a, balance[a]) + Signed(a, deltas[r][Len(deltas[r])][a])
      BY <2>1 DEF Snapshot
    <3>3. QED
      BY <2>3, <3>1, <3>2, SignedApplyDelta
  <2>5. Chained(a, staged[r][a], Signed(a, balance[a]), running[r][a])
    BY <2>1 DEF Snapshot
  <2>6. QED
    BY <1>1, <1>2, <2>4, <2>5, ChainConcat
<1> QED
  BY <1>3, <1>4

\* Every step keeps deltas, threading and snapshots in step with the rows, and the
\* chain of each account unbroken.
LEMMA NextSnapshots ==
  ASSUME Typing, Locking, Snapshots, SnapshotChain, [Next]_vars
  PROVE  Snapshots' /\ SnapshotChain'
<1>1. ASSUME NEW r \in Requests, Begin(r) \/ Step(r) \/ Lose(r)
      PROVE  Snapshots' /\ SnapshotChain'
  <2>1. /\ \A a \in Accounts : history'[a] = history[a] /\ balance'[a] = balance[a]
        \/ Commit(r)
    <3> USE DEF database
    <3>1. CASE Ended(r) \/ Passed(r) \/ Appended(r)
      BY <3>1 DEF Ended, Passed, Appended
    <3>2. CASE LockBalance(r) \/ AllLocked(r) \/ ThreadRow(r) \/ AllThreaded(r)
      BY <3>2 DEF LockBalance, AllLocked, ThreadRow, AllThreaded
    <3> QED
      BY <1>1, <3>1, <3>2, StepEffect
  <2>2. ASSUME NEW s \in Requests \ {r}
        PROVE  DeltasFollow(s)' /\ ThreadsLast(s)' /\ \A a \in held'[s] : Snapshot(s, a)'
    <3>1. /\ pc'[s] = pc[s] /\ rows'[s] = rows[s] /\ deltas'[s] = deltas[s]
          /\ held'[s] = held[s] /\ stored'[s] = stored[s] /\ running'[s] = running[s]
          /\ threaded'[s] = threaded[s] /\ staged'[s] = staged[s]
      BY <1>1, OthersFrame
    <3>2. DeltasFollow(s)' /\ ThreadsLast(s)'
      BY <3>1 DEF Snapshots, DeltasFollow, ThreadsLast
    <3>3. ASSUME NEW a \in held[s]
          PROVE  balance'[a] = balance[a]
      <4>1. a \in Accounts
        BY DEF Typing, TypeOK
      <4>2. Commit(r) => a \notin Touched(rows[r])
        BY DEF Commit, Goto, Locking, LocksInOrder
      <4>3. QED
        BY <2>1, <4>1, <4>2 DEF Commit
    <3>4. QED
      BY <3>1, <3>2, <3>3 DEF Snapshots, Snapshot
  <2>3. DeltasFollow(r)' /\ ThreadsLast(r)' /\ \A a \in held'[r] : Snapshot(r, a)'
    <3> USE DEF Typing, TypeOK
    <3>1. DeltasFollow(r) /\ ThreadsLast(r)
      BY DEF Snapshots
    <3>2. CASE Ended(r)
      BY <3>1, <3>2 DEF Ended, Reading, DeltasFollow, ThreadsLast
    <3>3. CASE Passed(r)
      <4>1. held[r] = {} /\ threaded[r] = 0
        BY <3>1, <3>3 DEF Passed, Early, Reading, ThreadsLast, Locking, LocksInOrder
      <4>2. pc'[r] # "commit"
        BY <3>3 DEF Passed, Reading
      <4>3. QED
        BY <3>1, <3>3, <4>1, <4>2 DEF Passed, DeltasFollow, ThreadsLast
    <3>4. CASE Appended(r)
      <4>1. held'[r] = {} /\ held[r] = {} /\ threaded[r] = 0 /\ pc'[r] = pc[r] /\ pc[r] # "commit"
        BY <3>1, <3>4 DEF Appended, AppendRow, Reading, ThreadsLast, Locking, LocksInOrder
      <4>2. DeltasFollow(r)'
        BY <3>1, <3>4, AppendedDeltas DEF Appended
      <4>3. Len(rows'[r]) \in Nat
        <5>1. rows'[r] \in Seq(Row)
          BY NextTyping, <1>1 DEF Next
        <5>2. QED
          BY <5>1, LenProperties
      <4>4. ThreadsLast(r)'
        BY <3>1, <3>4, <4>1, <4>3 DEF Appended, AppendRow, ThreadsLast
      <4>5. QED
        BY <4>1, <4>2, <4>4
    <3>5. CASE LockBalance(r)
      BY <3>5, LockSnapshot
    <3>6. CASE AllLocked(r)
      BY <3>1, <3>6 DEF AllLocked, Goto, locals, database, Reading, Snapshots, Snapshot,
         DeltasFollow, ThreadsLast
    <3>7. CASE ThreadRow(r)
      BY <3>7, ThreadSnapshot
    <3>8. CASE AllThreaded(r)
      BY <3>1, <3>8 DEF AllThreaded, Goto, locals, database, Reading, Snapshots, Snapshot,
         DeltasFollow, ThreadsLast
    <3>9. CASE Commit(r)
      BY <3>1, <3>9 DEF Commit, Goto, Reading, DeltasFollow, ThreadsLast
    <3> QED
      BY <1>1, <3>2, <3>3, <3>4, <3>5, <3>6, <3>7, <3>8, <3>9, StepEffect
  <2>4. Snapshots'
    BY <2>2, <2>3 DEF Snapshots
  <2>5. SnapshotChain'
    BY <2>1, CommitChain DEF SnapshotChain
  <2> QED
    BY <2>4, <2>5
<1>2. CASE UNCHANGED vars
  BY <1>2 DEF vars, Snapshots, SnapshotChain, DeltasFollow, ThreadsLast, Snapshot
<1> QED
  BY <1>1, <1>2 DEF Next, Quiet

\* The snapshots of every account form one unbroken chain from zero to its stored
\* balance, whatever requests interleaved or were lost.
THEOREM SnapshotsChained == Spec => []SnapshotChain
<1>1. Init => Locking /\ Snapshots /\ SnapshotChain
  BY SMT DEF Init, Locking, LocksInOrder, Touched, Reading, Snapshots, DeltasFollow, ThreadsLast,
     SnapshotChain, Chained, Signed, ZeroBalance
<1>2. Spec => [](Typing /\ Locking /\ Snapshots /\ SnapshotChain)
  BY <1>1, InitTyping, NextTyping, NextLocking, NextSnapshots, PTL DEF Spec
<1> QED
  BY <1>2, PTL

-------------------------------------------------------------------------------
(* Amounts. *)

\* The lines of s on the accounts A in one direction, and what they add up to.
LinesOn(s, A, d) == {i \in DOMAIN s : s[i].account \in A /\ s[i].direction = d}
LineTotal(s, A, d) == SumFunctionOnSet(AmountOf(s), LinesOn(s, A, d))

\* The accounts kept in a currency.
InCurrency(c) == {a \in Accounts : CurrencyOf[a] = c}

\* Rows have positions, and their amounts can be added up.
LEMMA RowFacts ==
  ASSUME NEW s \in Seq(Row)
  PROVE  /\ Len(s) \in Nat /\ DOMAIN s = 1..Len(s) /\ IsFiniteSet(DOMAIN s)
         /\ \A i \in DOMAIN s : /\ s[i] \in Row /\ s[i].account \in Accounts
                                /\ s[i].direction \in Direction /\ s[i].amount \in Nat \ {0}
                                /\ AmountOf(s)[i] = s[i].amount
<1>1. Len(s) \in Nat /\ DOMAIN s = 1..Len(s)
  BY LenProperties
<1>2. IsFiniteSet(DOMAIN s)
  BY <1>1, FS_Interval
<1>3. \A i \in DOMAIN s : s[i] \in Row
  BY <1>1, ElementOfSeq
<1>4. \A i \in DOMAIN s : AmountOf(s)[i] = s[i].amount
  BY DEF AmountOf
<1>5. \A row \in Row : row.account \in Accounts /\ row.direction \in Direction /\ row.amount \in Nat \ {0}
  BY DEF Row
<1> QED
  BY <1>1, <1>2, <1>3, <1>4, <1>5

\* The lines on some accounts are finitely many, and their total is a natural.
LEMMA LineTotalType ==
  ASSUME NEW s \in Seq(Row), NEW A, NEW d
  PROVE  IsFiniteSet(LinesOn(s, A, d)) /\ LineTotal(s, A, d) \in Nat
<1>1. LinesOn(s, A, d) \in SUBSET DOMAIN s
  BY DEF LinesOn
<1>2. IsFiniteSet(LinesOn(s, A, d))
  BY <1>1, RowFacts, FS_Subset
<1>3. \A i \in LinesOn(s, A, d) : AmountOf(s)[i] \in Nat
  BY <1>1, RowFacts
<1> QED
  BY <1>2, <1>3, SumNat DEF LineTotal

\* The side of a currency (_build_postings: sums) is a total over its accounts.
LEMMA SideTotalIsLineTotal ==
  ASSUME NEW s \in Seq(Row), NEW c, NEW d
  PROVE  SideTotal(s, c, d) = LineTotal(s, InCurrency(c), d)
<1>1. {i \in DOMAIN s : CurrencyOf[s[i].account] = c /\ s[i].direction = d} =
        LinesOn(s, InCurrency(c), d)
  BY RowFacts DEF LinesOn, InCurrency
<1>2. QED
  BY <1>1 DEF SideTotal, SumOver, LineTotal

\* What rows add to the signed balance of one account.
LEMMA AccountTotalIsLineTotal ==
  ASSUME NEW s \in Seq(Row), NEW a, NEW d
  PROVE  SumOver(s, LAMBDA row : row.account = a /\ row.direction = d) = LineTotal(s, {a}, d)
<1>1. {i \in DOMAIN s : s[i].account = a /\ s[i].direction = d} = LinesOn(s, {a}, d)
  BY DEF LinesOn
<1>2. QED
  BY <1>1 DEF SumOver, LineTotal

\* A mirrored row is on the same account for the same amount, the other way round.
LEMMA MirrorFields ==
  ASSUME NEW row
  PROVE  /\ Mirror(row).account = row.account /\ Mirror(row).amount = row.amount
         /\ Mirror(row).direction = Opposite(row.direction)
  BY DEF Mirror

\* The rows w are the mirrors of the rows u in some order.
MirrorOf(w, u) ==
  /\ DOMAIN w = DOMAIN u
  /\ \E order \in Bijection(DOMAIN u, DOMAIN u) : \A i \in DOMAIN u : w[i] = Mirror(u[order[i]])

\* Mirrored rows have the totals of the original, the other way round
\* (reverse_transaction).
LEMMA MirroredTotals ==
  ASSUME NEW u \in Seq(Row), NEW w \in Seq(Row), MirrorOf(w, u), NEW A, NEW d \in Direction
  PROVE  LineTotal(w, A, d) = LineTotal(u, A, Opposite(d))
<1>1. PICK order \in Bijection(DOMAIN u, DOMAIN u) :
        \A i \in DOMAIN u : w[i] = Mirror(u[order[i]])
  BY DEF MirrorOf
<1>2. /\ DOMAIN w = DOMAIN u
      /\ order \in [DOMAIN u -> DOMAIN u]
      /\ \A i, j \in DOMAIN u : order[i] = order[j] => i = j
      /\ \A j \in DOMAIN u : \E i \in DOMAIN u : order[i] = j
  BY DEF MirrorOf, Bijection, Injection, Surjection, IsInjective
<1>3. ASSUME NEW i \in DOMAIN u
      PROVE  /\ w[i].account = u[order[i]].account
             /\ w[i].amount = u[order[i]].amount
             /\ w[i].direction = Opposite(u[order[i]].direction)
  <2>1. w[i] = Mirror(u[order[i]])
    BY <1>1
  <2>2. QED
    BY <2>1, MirrorFields
<1>4. \A e \in Direction : Opposite(e) = d <=> e = Opposite(d)
  BY DEF Opposite, Direction
<1> DEFINE X == LinesOn(w, A, d)
           Y == LinesOn(u, A, Opposite(d))
<1>5. ASSUME NEW i \in DOMAIN u
      PROVE  i \in X <=> order[i] \in Y
  <2>1. order[i] \in DOMAIN u /\ u[order[i]].direction \in Direction
    BY <1>2, RowFacts
  <2>2. QED
    BY <1>2, <1>3, <1>4, <2>1 DEF LinesOn
<1>6. X \subseteq DOMAIN u /\ Y \subseteq DOMAIN u /\ IsFiniteSet(X)
  <2>1. IsFiniteSet(X)
    BY LineTotalType
  <2>2. X \subseteq DOMAIN u /\ Y \subseteq DOMAIN u
    BY <1>2 DEF LinesOn
  <2>3. QED
    BY <2>1, <2>2
<1> HIDE DEF X, Y
<1>7. Y = {order[i] : i \in X}
  BY <1>2, <1>5, <1>6
<1>8. \A i \in X : AmountOf(w)[i] \in Int /\ AmountOf(u)[order[i]] = AmountOf(w)[i]
  <2>1. ASSUME NEW i \in X
        PROVE  AmountOf(w)[i] \in Int /\ AmountOf(u)[order[i]] = AmountOf(w)[i]
    <3>1. i \in DOMAIN u /\ i \in DOMAIN w /\ order[i] \in DOMAIN u
      BY <1>2, <1>6
    <3>2. AmountOf(w)[i] = w[i].amount /\ w[i].amount \in Nat
      BY <3>1, RowFacts
    <3>3. AmountOf(u)[order[i]] = u[order[i]].amount
      BY <3>1, RowFacts
    <3>4. QED
      BY <1>3, <3>1, <3>2, <3>3
  <2>2. QED
    BY <2>1
<1>9. \A i, j \in X : order[i] = order[j] => i = j
  BY <1>2, <1>6
<1>10. SumFunctionOnSet(AmountOf(w), X) = SumFunctionOnSet(AmountOf(u), {order[i] : i \in X})
  <2>1. PICK f : f = AmountOf(w)
    OBVIOUS
  <2>2. PICK g : g = AmountOf(u)
    OBVIOUS
  <2>3. \A i \in X : f[i] \in Int /\ g[order[i]] = f[i]
    BY <1>8, <2>1, <2>2
  <2>4. IsFiniteSet(X)
    BY <1>6
  <2>5. SumFunctionOnSet(f, X) = SumFunctionOnSet(g, {order[i] : i \in X})
    BY <1>9, <2>3, <2>4, SumReindex
  <2>6. QED
    BY <2>1, <2>2, <2>5
<1> QED
  BY <1>7, <1>10 DEF LineTotal, X, Y

-------------------------------------------------------------------------------
(* What a step leaves alone. *)

\* A step of one request leaves what the others were asked and the lines they post.
LEMMA OthersLines ==
  ASSUME Typing, NEW r \in Requests, Begin(r) \/ Step(r) \/ Lose(r), NEW s \in Requests, s # r
  PROVE  input'[s] = input[s] /\ lines'[s] = lines[s]
<1> USE DEF Typing, TypeOK, Answer, Goto, locals
<1>1. CASE Begin(r)
  BY <1>1 DEF Begin
<1>2. CASE LoadOriginal(r) \/ CheckExisting(r) \/ LookupKey(r) \/ LoadAccounts(r)
  BY <1>2 DEF LoadOriginal, CheckExisting, LookupKey, LoadAccounts
<1>3. CASE BuildLine(r) \/ CheckBalanced(r) \/ InsertTransaction(r) \/ MirrorLine(r)
  BY <1>3 DEF BuildLine, CheckBalanced, InsertTransaction, MirrorLine, AppendRow
<1>4. CASE LockBalance(r) \/ AllLocked(r) \/ ThreadRow(r) \/ AllThreaded(r) \/ Commit(r)
  BY <1>4 DEF LockBalance, AllLocked, ThreadRow, AllThreaded, Commit
<1>5. CASE Reload(r) \/ CheckEmpty(r) \/ CloseAccount(r) \/ Lose(r)
  BY <1>5 DEF Reload, CheckEmpty, CloseAccount, Lose
<1> QED
  BY <1>1, <1>2, <1>3, <1>4, <1>5 DEF Step

\* Transactions are only ever added, by their own request's COMMIT.
LEMMA TransactionsGrow ==
  ASSUME Typing, NEW r \in Requests, Begin(r) \/ Step(r) \/ Lose(r)
  PROVE  /\ transactions' = IF Commit(r) THEN transactions \union {r} ELSE transactions
         /\ transactions \subseteq transactions'
         /\ \A s \in Requests \ {r} : s \in transactions' <=> s \in transactions
<1>1. CASE Begin(r)
  BY <1>1 DEF Begin, Goto, database, Commit, FirstStep
<1>2. CASE Step(r) \/ Lose(r)
  BY <1>2, StepFrame DEF Commit
<1> QED
  BY <1>1, <1>2

\* What is committed stays, with the rows and the input it was committed with.
LEMMA CommittedStays ==
  ASSUME Typing, NEW r \in Requests, Begin(r) \/ Step(r) \/ Lose(r), NEW t \in transactions
  PROVE  /\ t \in Requests /\ t \in transactions'
         /\ rows'[t] = rows[t] /\ input'[t] = input[t] /\ lines'[t] = lines[t]
<1>1. t \in Requests /\ t \in transactions'
  BY TransactionsGrow DEF Typing, TypeOK
<1>2. CASE t # r
  BY <1>1, <1>2, OthersFrame, OthersLines
<1>3. CASE t = r
  <2>1. pc[r] \in {"reload", "done"}
    BY <1>3 DEF Typing, PcFitsInput
  <2>2. Reload(r) \/ Lose(r)
    BY <2>1 DEF Begin, Step, LoadOriginal, CheckExisting, LookupKey, LoadAccounts, BuildLine,
       CheckBalanced, InsertTransaction, MirrorLine, LockBalance, AllLocked, ThreadRow,
       AllThreaded, Commit, CheckEmpty, CloseAccount, Goto
  <2>3. UNCHANGED <<rows, input, lines>>
    BY <2>2 DEF Reload, Lose, Answer
  <2>4. QED
    BY <1>1, <1>3, <2>3
<1> QED
  BY <1>2, <1>3

-------------------------------------------------------------------------------
(* Rows are validated, or mirror an original's, before they are posted. *)

\* A request in _write_postings.
Writing == {"lock", "thread", "commit"}

\* What is postable stays so while its rows and its input do.
LEMMA PostableKept ==
  ASSUME NEW s \in Requests, Postable(s), rows'[s] = rows[s], input'[s] = input[s]
  PROVE  Postable(s)'
  BY DEF Postable, AccountsOf

\* A reversal keeps mirroring its original, whose rows do not change any more.
LEMMA MirroringKept ==
  ASSUME Typing, NEW r \in Requests, Begin(r) \/ Step(r) \/ Lose(r),
         NEW s \in Requests, Mirroring(s), input[s].target \in transactions,
         rows'[s] = rows[s], lines'[s] = lines[s], input'[s] = input[s],
         pc'[s] \in Writing \/ s \in transactions' =>
           pc[s] \in Writing \/ s \in transactions \/ Len(rows[s]) = Len(lines[s])
  PROVE  Mirroring(s)'
<1>1. rows'[input[s].target] = rows[input[s].target]
  BY CommittedStays
<1> QED
  BY <1>1 DEF Mirroring, Writing

\* A reversal that has mirrored every line has its original's rows mirrored.
LEMMA MirroringEnds ==
  ASSUME Typing, NEW r \in Requests, Mirroring(r), Len(rows[r]) = Len(lines[r]),
         lines[r] \in Seq(Row), NEW t \in Requests, t = input[r].target
  PROVE  MirrorOf(rows[r], rows[t])
<1>1. PICK u \in Seq(Row) : u = rows[t]
  BY DEF Typing, TypeOK
<1>2. PICK v \in Seq(Row) : v = lines[r]
  OBVIOUS
<1>3. PICK w \in Seq(Row) : w = rows[r]
  BY DEF Typing, TypeOK
<1>4. PICK order \in Bijection(DOMAIN u, DOMAIN u) : v = [i \in DOMAIN u |-> u[order[i]]]
  BY <1>1, <1>2 DEF Mirroring, InSomeOrder
<1>5. Len(w) = Len(v) /\ \A i \in 1..Len(w) : w[i] = Mirror(v[i])
  BY <1>2, <1>3 DEF Mirroring
<1>6. DOMAIN v = DOMAIN u /\ DOMAIN w = 1..Len(w) /\ DOMAIN w = DOMAIN u
  BY <1>4, <1>5, RowFacts
<1>7. \A i \in DOMAIN u : w[i] = Mirror(u[order[i]])
  BY <1>4, <1>5, <1>6
<1>8. MirrorOf(w, u)
  BY <1>6, <1>7 DEF MirrorOf
<1> QED
  BY <1>1, <1>3, <1>8

\* Rows that mirror postable ones are postable for the same tenant.
LEMMA MirrorPostable ==
  ASSUME Typing, NEW r \in Requests, NEW t \in Requests, MirrorOf(rows[r], rows[t]),
         Postable(t), input[t].tenant = input[r].tenant
  PROVE  Postable(r)
<1>1. PICK u \in Seq(Row) : u = rows[t]
  BY DEF Typing, TypeOK
<1>2. PICK w \in Seq(Row) : w = rows[r]
  BY DEF Typing, TypeOK
<1>3. MirrorOf(w, u)
  BY <1>1, <1>2
<1>4. Len(w) = Len(u)
  BY <1>3, RowFacts DEF MirrorOf
<1>5. Len(u) >= 2 /\ Balanced(u) /\ Touched(u) \subseteq AccountsOf(input[r].tenant)
  BY <1>1 DEF Postable
<1>6. ASSUME NEW c \in Currencies
      PROVE  SideTotal(w, c, "debit") = SideTotal(w, c, "credit")
  <2>1. \A d \in Direction : LineTotal(w, InCurrency(c), d) = LineTotal(u, InCurrency(c), Opposite(d))
    BY <1>3, MirroredTotals
  <2>2. \A d \in Direction : SideTotal(w, c, d) = SideTotal(u, c, Opposite(d))
    BY <2>1, SideTotalIsLineTotal
  <2>3. SideTotal(u, c, "debit") = SideTotal(u, c, "credit")
    BY <1>5 DEF Balanced
  <2>4. QED
    BY <2>2, <2>3 DEF Direction, Opposite
<1>7. Touched(w) \subseteq Touched(u)
  <2>1. PICK order \in Bijection(DOMAIN u, DOMAIN u) :
          \A i \in DOMAIN u : w[i] = Mirror(u[order[i]])
    BY <1>3 DEF MirrorOf
  <2>2. ASSUME NEW i \in DOMAIN w
        PROVE  w[i].account \in Touched(u)
    <3>1. i \in DOMAIN u
      BY <1>3 DEF MirrorOf
    <3>2. order[i] \in DOMAIN u
      BY <3>1 DEF Bijection, Injection
    <3>3. w[i] = Mirror(u[order[i]])
      BY <2>1, <3>1
    <3>4. w[i].account = u[order[i]].account
      BY <3>3, MirrorFields
    <3>5. QED
      BY <3>2, <3>4 DEF Touched
  <2>3. QED
    BY <2>2 DEF Touched
<1> QED
  BY <1>2, <1>4, <1>5, <1>6, <1>7 DEF Postable, Balanced

\* What the lines of a request must satisfy.
Sound(r) == Validated(r) /\ Reversing(r)

\* A step that leaves the lines of a request alone, and takes it nowhere but on
\* through _write_postings or to its end, keeps them sound.
LEMMA SoundKept ==
  ASSUME Typing, NEW r \in Requests, Begin(r) \/ Step(r) \/ Lose(r),
         NEW s \in Requests, Sound(s), OriginalKnown(s),
         rows'[s] = rows[s], lines'[s] = lines[s], input'[s] = input[s],
         pc'[s] \in Writing \/ s \in transactions' => pc[s] \in Writing \/ s \in transactions,
         pc'[s] = pc[s] \/ pc'[s] \in Writing \union {"reload", "close", "done"}
  PROVE  Sound(s)'
<1>1. Validated(s)'
  <2>1. ASSUME pc'[s] \in Writing \/ s \in transactions'
        PROVE  Postable(s)'
    BY <2>1, PostableKept DEF Sound, Validated, Writing
  <2>2. CASE pc'[s] = pc[s] /\ pc[s] = "insert"
    <3>1. input[s].op = "post" => Postable(s)'
      BY <2>2, PostableKept DEF Sound, Validated
    <3>2. QED
      BY <2>1, <2>2, <3>1 DEF Sound, Validated, Writing
  <2>3. CASE pc'[s] = pc[s] /\ pc[s] # "insert"
    BY <2>1, <2>3 DEF Sound, Validated, Writing
  <2>4. CASE pc'[s] \in Writing \union {"reload", "close", "done"}
    BY <2>1, <2>4 DEF Validated, Writing
  <2> QED
    BY <2>2, <2>3, <2>4
<1>2. Reversing(s)'
  <2>1. SUFFICES ASSUME pc'[s] \in {"existing", "lookup", "insert"} \union InFlight \/ s \in transactions',
                        input'[s].op = "reverse"
                 PROVE  Mirroring(s)'
    BY DEF Reversing
  <2>2. pc[s] \in {"existing", "lookup", "insert"} \union InFlight \/ s \in transactions
    BY <2>1 DEF InFlight, Writing
  <2>3. Mirroring(s) /\ input[s].target \in transactions
    BY <2>1, <2>2 DEF Sound, Reversing, OriginalKnown
  <2>4. QED
    BY <2>3, MirroringKept
<1> QED
  BY <1>1, <1>2 DEF Sound

\* The loading and checking steps, and the INSERT, take a request on soundly.
LEMMA ReadingSound ==
  ASSUME Typing, NEW r \in Requests, Sound(r), OriginalKnown(r),
         CheckExisting(r) \/ LookupKey(r) \/ LoadAccounts(r) \/ CheckBalanced(r) \/ InsertTransaction(r)
  PROVE  Sound(r)' \/ Ended(r)
<1>1. SUFFICES ASSUME ~Ended(r) PROVE Sound(r)'
  OBVIOUS
<1>2. /\ UNCHANGED <<database, input, lines, rows>>
      /\ pc' \in [Requests -> PC]
      /\ \/ pc[r] = "existing" /\ pc'[r] = "lookup"
         \/ pc[r] = "lookup" /\ pc'[r] = IF input[r].op = "post" THEN "load" ELSE "insert"
         \/ pc[r] = "load" /\ pc'[r] = "build" /\ Len(lines[r]) >= 2
         \/ pc[r] = "build" /\ pc'[r] = "insert" /\ Built(r) /\ Balanced(rows[r])
         \/ pc[r] = "insert" /\ pc'[r] = IF input[r].op = "post" THEN "lock" ELSE "mirror"
  <2> USE <1>1 DEF Ended, Answer, locals, database, Typing, TypeOK
  <2>1. CASE CheckExisting(r)
    BY <2>1 DEF CheckExisting, PC, Reading
  <2>2. CASE LookupKey(r)
    BY <2>2 DEF LookupKey, PC, Reading
  <2>3. CASE LoadAccounts(r)
    BY <2>3 DEF LoadAccounts, PC, Reading
  <2>4. CASE CheckBalanced(r)
    <3>1. /\ pc[r] = "build" /\ Built(r) /\ Balanced(rows[r])
          /\ pc' = [pc EXCEPT ![r] = "insert"] /\ UNCHANGED <<database, locals>>
      BY <2>4 DEF CheckBalanced
    <3>2. QED
      BY <3>1 DEF PC
  <2>5. CASE InsertTransaction(r)
    BY <2>5 DEF InsertTransaction, PC, InFlight
  <2> QED
    BY <2>1, <2>2, <2>3, <2>4, <2>5
<1>3. r \notin transactions /\ r \notin transactions'
  BY <1>2 DEF Typing, PcFitsInput, database
<1>4. ASSUME Postable(r)
      PROVE  Postable(r)'
  BY <1>2, <1>4 DEF Postable, AccountsOf
<1>5. Validated(r)'
  <2>1. CASE pc[r] = "existing" \/ pc[r] = "lookup"
    BY <1>2, <1>3, <2>1 DEF Sound, Validated
  <2>2. CASE pc[r] = "load"
    BY <1>2, <1>3, <2>2, EmptySeq DEF Sound, Validated, Touched
  <2>3. CASE pc[r] = "build"
    <3>1. Len(rows[r]) \in Nat /\ Len(lines[r]) \in Nat
      BY LenProperties DEF Typing, TypeOK
    <3>2. Postable(r)
      BY <1>2, <2>3, <3>1 DEF Sound, Validated, Postable, Built
    <3>3. input[r].op = "post"
      BY <2>3 DEF Typing, PcFitsInput, PostInput
    <3>4. QED
      BY <1>2, <1>3, <1>4, <2>3, <3>2, <3>3 DEF Validated
  <2>4. CASE pc[r] = "insert"
    BY <1>2, <1>3, <1>4, <2>4 DEF Sound, Validated
  <2> QED
    BY <1>2, <2>1, <2>2, <2>3, <2>4
<1>6. Reversing(r)'
  <2>1. SUFFICES ASSUME input[r].op = "reverse", pc'[r] \in {"lookup", "insert", "mirror", "lock"}
                 PROVE  Mirroring(r)'
    BY <1>2, <1>3 DEF Reversing, InFlight
  <2>2. pc[r] \in {"existing", "lookup", "insert"}
    <3>1. pc[r] \in {"load", "build"} => input[r].op = "post"
      BY DEF Typing, PcFitsInput, PostInput
    <3>2. QED
      BY <1>2, <2>1, <3>1
  <2>3. Mirroring(r) /\ pc'[r] # "lock"
    BY <1>2, <2>1, <2>2 DEF Sound, Reversing
  <2>4. QED
    BY <1>2, <1>3, <2>1, <2>3 DEF Mirroring
<1> QED
  BY <1>5, <1>6 DEF Sound

\* A call that begins has no rows yet.
LEMMA BeginSound ==
  ASSUME Typing, NEW r \in Requests, Sound(r), Begin(r)
  PROVE  Sound(r)'
<1>1. PICK i \in Inputs :
        /\ pc[r] = "idle" /\ pc'[r] = FirstStep(i.op) /\ input'[r] = i
        /\ rows'[r] = rows[r] /\ transactions' = transactions
  BY DEF Begin, Goto, database, Typing, TypeOK
<1>2. rows[r] = <<>> /\ r \notin transactions'
  BY <1>1 DEF Sound, Validated, Typing, PcFitsInput
<1>3. Validated(r)'
  BY <1>1, <1>2 DEF Validated, FirstStep
<1>4. Reversing(r)'
  BY <1>1, <1>2 DEF Reversing, FirstStep, InFlight
<1> QED
  BY <1>3, <1>4 DEF Sound

\* The original's rows come back in some order, and none is mirrored yet.
LEMMA LoadOriginalSound ==
  ASSUME Typing, NEW r \in Requests, Sound(r), LoadOriginal(r)
  PROVE  Sound(r)' \/ Ended(r)
<1>1. CASE Answer(r, "transaction_not_found", NoTxn)
  BY <1>1 DEF LoadOriginal, Ended, Answer, database
<1>2. CASE ~Answer(r, "transaction_not_found", NoTxn)
  <2>1. /\ pc[r] = "original" /\ pc'[r] = "existing"
        /\ UNCHANGED <<rows, input, transactions>>
    BY <1>2 DEF LoadOriginal, database, Typing, TypeOK
  <2>2. InSomeOrder(lines'[r], rows[input[r].target])
    BY <1>2 DEF LoadOriginal, InSomeOrder, Typing, TypeOK
  <2>3. rows'[r] = <<>> /\ r \notin transactions'
    BY <2>1 DEF Sound, Validated, Typing, PcFitsInput
  <2>4. lines'[r] \in Seq(Original)
    <3>1. Typing'
      BY LoadOriginalTyping
    <3>2. QED
      BY <3>1 DEF Typing, TypeOK
  <2>5. Mirroring(r)'
    BY <2>1, <2>2, <2>3, <2>4, EmptySeq, LenProperties DEF Mirroring
  <2>6. Validated(r)'
    BY <2>1, <2>3 DEF Validated
  <2>7. QED
    BY <2>5, <2>6 DEF Sound, Reversing
<1> QED
  BY <1>1, <1>2

\* What an append does to the touched accounts.
LEMMA TouchedAppend ==
  ASSUME NEW s \in Seq(Row), NEW row \in Row
  PROVE  Touched(Append(s, row)) = Touched(s) \union {row.account}
<1> DEFINE u == Append(s, row)
<1>1. /\ Len(s) \in Nat /\ DOMAIN s = 1..Len(s) /\ DOMAIN u = 1..(Len(s) + 1)
      /\ u[Len(s) + 1] = row /\ \A i \in 1..Len(s) : u[i] = s[i]
  BY AppendProperties, LenProperties
<1> HIDE DEF u
<1>2. \A i \in DOMAIN u : i = Len(s) + 1 \/ i \in DOMAIN s
  BY <1>1
<1>3. \A i \in DOMAIN s : i \in DOMAIN u /\ u[i] = s[i]
  BY <1>1
<1>4. Len(s) + 1 \in DOMAIN u
  BY <1>1
<1>5. Touched(u) = Touched(s) \union {row.account}
  BY <1>1, <1>2, <1>3, <1>4 DEF Touched
<1> QED
  BY <1>5 DEF u

\* A row that _build_postings appends is on an account of the tenant.
LEMMA BuildLineSound ==
  ASSUME Typing, NEW r \in Requests, Sound(r), BuildLine(r)
  PROVE  Sound(r)' \/ Ended(r)
<1>1. SUFFICES ASSUME ~Ended(r) PROVE Sound(r)'
  OBVIOUS
<1>2. PICK line \in Original : line = lines[r][Len(rows[r]) + 1]
  BY ElementOfSeq, LenProperties DEF BuildLine, Built, Typing, TypeOK
<1>3. LineError(r, line) = "ok"
  BY <1>1, <1>2 DEF BuildLine, Ended, Answer, database
<1>4. line.account \in AccountsOf(input[r].tenant)
  BY <1>3 DEF LineError
<1>5. PICK row \in Row :
        row = [account |-> line.account, direction |-> line.direction, amount |-> line.amount]
  <2>1. /\ line.account \in Accounts /\ line.direction \in Direction
        /\ line.amount \in Nat \ {0}
    BY <1>3, <1>4 DEF LineError, AccountsOf, Original, Line, Row
  <2>2. [account |-> line.account, direction |-> line.direction, amount |-> line.amount] \in Row
    BY <2>1 DEF Row
  <2>3. QED
    BY <2>2
<1>6. AppendRow(r, row) /\ pc[r] = "build" /\ UNCHANGED <<pc, database>>
  BY <1>2, <1>3, <1>5 DEF BuildLine
<1>7. /\ rows'[r] = Append(rows[r], row) /\ rows[r] \in Seq(Row)
      /\ lines'[r] = lines[r] /\ input' = input /\ r \notin transactions'
  BY <1>6 DEF AppendRow, database, Typing, TypeOK, PcFitsInput
<1>8. Touched(rows'[r]) \subseteq AccountsOf(input'[r].tenant)
  <2>1. Touched(rows'[r]) = Touched(rows[r]) \union {line.account}
    BY <1>5, <1>7, TouchedAppend
  <2>2. Touched(rows[r]) \subseteq AccountsOf(input[r].tenant)
    BY <1>6 DEF Sound, Validated
  <2>3. QED
    BY <1>4, <1>7, <2>1, <2>2
<1>9. Validated(r)'
  BY <1>6, <1>7, <1>8 DEF Sound, Validated, AccountsOf
<1>10. Reversing(r)'
  BY <1>6, <1>7 DEF Reversing, InFlight
<1> QED
  BY <1>9, <1>10 DEF Sound

\* A row that reverse_transaction's loop appends mirrors the next of its lines;
\* after the last, the rows are the original's, mirrored, and may be posted.
LEMMA MirrorLineSound ==
  ASSUME Typing, NEW r \in Requests, Sound(r), OriginalKnown(r), MirrorLine(r),
         \A t \in transactions : Sound(t)
  PROVE  Sound(r)'
<1>1. /\ pc[r] = "mirror" /\ input[r].op = "reverse" /\ lines[r] \in Seq(Row)
      /\ rows[r] \in Seq(Row) /\ Len(rows[r]) \in Nat /\ Len(lines[r]) \in Nat
  BY LenProperties DEF MirrorLine, Typing, TypeOK, PcFitsInput, ReverseInput
<1>2. r \notin transactions /\ UNCHANGED <<transactions, input, lines>>
  BY <1>1 DEF MirrorLine, AppendRow, database, locals, Typing, PcFitsInput
<1>3. PICK t \in transactions : t = input[r].target /\ input[t].tenant = input[r].tenant
  BY <1>1 DEF OriginalKnown, InFlight
<1>4. t \in Requests /\ t # r
  BY <1>2 DEF Typing, TypeOK
<1>5. Mirroring(r)
  BY <1>1 DEF Sound, Reversing, InFlight
<1>6. CASE Built(r) /\ pc' = [pc EXCEPT ![r] = "lock"] /\ UNCHANGED <<locals, reply>>
  <2>1. pc'[r] = "lock" /\ rows' = rows /\ Len(rows[r]) = Len(lines[r])
    BY <1>1, <1>5, <1>6 DEF locals, Built, Mirroring, Typing, TypeOK
  <2>2. MirrorOf(rows[r], rows[t])
    BY <1>1, <1>3, <1>4, <1>5, <2>1, MirroringEnds
  <2>3. Postable(t)
    BY DEF Sound, Validated
  <2>4. Postable(r)
    BY <1>3, <1>4, <2>2, <2>3, MirrorPostable
  <2>5. Postable(r)'
    BY <1>2, <2>1, <2>4, PostableKept
  <2>6. Mirroring(r)'
    BY <1>2, <1>5, <2>1 DEF Mirroring
  <2>7. QED
    BY <2>1, <2>5, <2>6, <1>2 DEF Sound, Validated, Reversing
<1>7. CASE ~(Built(r) /\ pc' = [pc EXCEPT ![r] = "lock"] /\ UNCHANGED <<locals, reply>>)
  <2>1. PICK line \in Row : line = lines[r][Len(rows[r]) + 1]
    BY <1>1, <1>7, ElementOfSeq DEF MirrorLine, Built
  <2>2. Mirror(line) \in Row
    BY DEF Mirror, Row, Opposite, Direction
  <2>3. ~Built(r) /\ AppendRow(r, Mirror(line)) /\ UNCHANGED pc
    BY <1>7, <2>1 DEF MirrorLine, Mirror
  <2>4. rows'[r] = Append(rows[r], Mirror(line)) /\ rows'[t] = rows[t]
    BY <1>4, <2>3 DEF AppendRow, Typing, TypeOK
  <2>5. /\ Len(rows'[r]) = Len(rows[r]) + 1 /\ rows'[r][Len(rows[r]) + 1] = Mirror(line)
        /\ \A i \in 1..Len(rows[r]) : rows'[r][i] = rows[r][i]
    BY <1>1, <2>2, <2>4, AppendProperties
  <2>6. Len(rows'[r]) <= Len(lines'[r])
    BY <1>1, <1>2, <2>3, <2>5 DEF Built
  <2>7. \A i \in 1..Len(rows'[r]) : rows'[r][i] = Mirror(lines'[r][i])
    <3>1. \A i \in 1..Len(rows[r]) : rows[r][i] = Mirror(lines[r][i])
      BY <1>5 DEF Mirroring
    <3>2. \A i \in 1..(Len(rows[r]) + 1) : i = Len(rows[r]) + 1 \/ i \in 1..Len(rows[r])
      BY <1>1
    <3>3. QED
      BY <1>2, <2>1, <2>5, <3>1, <3>2
  <2>8. InSomeOrder(lines'[r], rows'[input'[r].target])
    BY <1>2, <1>3, <1>5, <2>4 DEF Mirroring
  <2>9. Mirroring(r)'
    BY <1>1, <1>2, <2>3, <2>6, <2>7, <2>8 DEF Mirroring
  <2>10. QED
    BY <1>1, <1>2, <2>3, <2>9 DEF Sound, Validated, Reversing
<1> QED
  BY <1>6, <1>7

\* A request that ends leaves its lines, its input and the transactions alone.
LEMMA EndedFrame ==
  ASSUME Typing, NEW r \in Requests, Begin(r) \/ Step(r) \/ Lose(r), Ended(r)
  PROVE  /\ rows'[r] = rows[r] /\ lines'[r] = lines[r] /\ input'[r] = input[r]
         /\ pc'[r] = "done" /\ transactions' = transactions
<1>1. rows' = rows /\ pc'[r] = "done"
  BY DEF Ended, Typing, TypeOK
<1>2. ~Begin(r) /\ ~Commit(r)
  BY <1>1 DEF Begin, Goto, FirstStep, Commit, Typing, TypeOK
<1>3. input' = input /\ transactions' = transactions
  BY <1>2, StepFrame
<1>4. lines' = lines
  <2> USE <1>1 DEF Answer, locals, Goto, Typing, TypeOK
  <2>1. CASE LoadOriginal(r)
    BY <2>1 DEF LoadOriginal
  <2>2. CASE CheckExisting(r) \/ LookupKey(r) \/ LoadAccounts(r) \/ InsertTransaction(r)
    BY <2>2 DEF CheckExisting, LookupKey, LoadAccounts, InsertTransaction
  <2>3. CASE BuildLine(r) \/ CheckBalanced(r) \/ MirrorLine(r)
    BY <2>3 DEF BuildLine, CheckBalanced, MirrorLine, AppendRow
  <2>4. CASE LockBalance(r) \/ AllLocked(r) \/ ThreadRow(r) \/ AllThreaded(r)
    BY <2>4 DEF LockBalance, AllLocked, ThreadRow, AllThreaded
  <2>5. CASE Reload(r) \/ CheckEmpty(r) \/ CloseAccount(r) \/ Lose(r)
    BY <2>5 DEF Reload, CheckEmpty, CloseAccount, Lose
  <2> QED
    BY <1>2, <2>1, <2>2, <2>3, <2>4, <2>5 DEF Step
<1> QED
  BY <1>1, <1>3, <1>4

\* Whatever r does, every request's lines stay sound.
LEMMA StepSound ==
  ASSUME Typing, Answering, NEW r \in Requests, Begin(r) \/ Step(r) \/ Lose(r),
         \A s \in Requests : Sound(s), NEW s \in Requests
  PROVE  Sound(s)'
<1>1. Sound(s) /\ Sound(r) /\ OriginalKnown(s) /\ OriginalKnown(r)
  BY DEF Answering
<1>2. CASE s # r
  <2>1. /\ rows'[s] = rows[s] /\ lines'[s] = lines[s] /\ input'[s] = input[s]
        /\ pc'[s] = pc[s] /\ (s \in transactions' => s \in transactions)
    BY <1>2, OthersFrame, OthersLines, TransactionsGrow
  <2>2. QED
    BY <1>1, <2>1, SoundKept
<1>3. CASE s = r
  <2>1. CASE Begin(r)
    BY <1>1, <1>3, <2>1, BeginSound
  <2>2. CASE Ended(r)
    <3>1. /\ rows'[r] = rows[r] /\ lines'[r] = lines[r] /\ input'[r] = input[r]
          /\ pc'[r] = "done" /\ transactions' = transactions
      BY <2>2, EndedFrame
    <3>2. QED
      BY <1>1, <1>3, <3>1, SoundKept DEF Writing
  <2>3. CASE LoadOriginal(r)
    BY <1>1, <1>3, <2>2, <2>3, LoadOriginalSound
  <2>4. CASE CheckExisting(r) \/ LookupKey(r) \/ LoadAccounts(r) \/ CheckBalanced(r) \/ InsertTransaction(r)
    BY <1>1, <1>3, <2>2, <2>4, ReadingSound
  <2>5. CASE BuildLine(r)
    BY <1>1, <1>3, <2>2, <2>5, BuildLineSound
  <2>6. CASE MirrorLine(r)
    <3>1. \A t \in transactions : Sound(t)
      BY DEF Typing, TypeOK
    <3>2. QED
      BY <1>1, <1>3, <2>6, <3>1, MirrorLineSound
  <2>7. CASE LockBalance(r) \/ AllLocked(r) \/ ThreadRow(r) \/ AllThreaded(r) \/ Commit(r)
    <3>1. /\ rows'[r] = rows[r] /\ lines'[r] = lines[r] /\ input'[r] = input[r]
          /\ pc[r] \in Writing /\ pc'[r] \in Writing \union {"reload"}
      BY <2>7 DEF LockBalance, AllLocked, ThreadRow, AllThreaded, Commit, Goto, locals,
         Writing, Typing, TypeOK
    <3>2. QED
      BY <1>1, <1>3, <3>1, SoundKept
  <2>8. CASE Reload(r) \/ CloseAccount(r) \/ Lose(r)
    <3>1. Ended(r)
      BY <2>8 DEF Reload, CloseAccount, Lose, Ended, Answer, database
    <3>2. QED
      BY <2>2, <3>1
  <2>9. CASE CheckEmpty(r) /\ ~Ended(r)
    <3>1. /\ rows'[r] = rows[r] /\ lines'[r] = lines[r] /\ input'[r] = input[r]
          /\ pc'[r] = "close" /\ transactions' = transactions
      BY <2>9 DEF CheckEmpty, Ended, Answer, locals, database, Typing, TypeOK
    <3>2. QED
      BY <1>1, <1>3, <3>1, SoundKept DEF Writing
  <2> QED
    BY <2>1, <2>2, <2>3, <2>4, <2>5, <2>6, <2>7, <2>8, <2>9 DEF Step
<1> QED
  BY <1>2, <1>3

-------------------------------------------------------------------------------
(* The postings staged so far add up to the rows threaded so far. *)

\* The postings of s in one direction.
PostedIn(s, d) == {i \in DOMAIN s : s[i].direction = d}
PostedAs(s, t, row) ==
  {i \in DOMAIN s : s[i].txn = t /\ s[i].direction = row.direction /\ s[i].amount = row.amount}

\* Postings have positions, and their amounts can be added up.
LEMMA PostingFacts ==
  ASSUME NEW s \in Seq(Posting)
  PROVE  /\ Len(s) \in Nat /\ DOMAIN s = 1..Len(s)
         /\ \A i \in DOMAIN s : s[i].amount \in Nat /\ AmountOf(s)[i] = s[i].amount
<1>1. Len(s) \in Nat /\ DOMAIN s = 1..Len(s)
  BY LenProperties
<1>2. \A i \in DOMAIN s : s[i] \in Posting
  BY <1>1, ElementOfSeq
<1>3. \A p \in Posting : p.amount \in Nat
  BY DEF Posting
<1>4. QED
  BY <1>1, <1>2, <1>3 DEF AmountOf

\* A posting adds its amount to the side it is on.
LEMMA PostedTotalAppend ==
  ASSUME NEW s \in Seq(Posting), NEW p \in Posting, NEW d
  PROVE  PostedTotal(Append(s, p), d) =
           PostedTotal(s, d) + (IF p.direction = d THEN p.amount ELSE 0)
<1>1. PICK u \in Seq(Posting) :
        /\ u = Append(s, p) /\ Len(u) = Len(s) + 1 /\ u[Len(s) + 1] = p
        /\ \A i \in 1..Len(s) : u[i] = s[i]
  <2>1. PICK u \in Seq(Posting) : u = Append(s, p)
    BY AppendProperties
  <2>2. Len(u) = Len(s) + 1 /\ u[Len(s) + 1] = p /\ \A i \in 1..Len(s) : u[i] = s[i]
    BY <2>1, AppendProperties
  <2>3. QED
    BY <2>1, <2>2
<1>2. PICK m \in Nat : m = Len(s)
  BY PostingFacts
<1>3. /\ DOMAIN s = 1..m /\ DOMAIN u = 1..(m + 1)
      /\ \A i \in 1..m : AmountOf(s)[i] \in Int /\ AmountOf(u)[i] = AmountOf(s)[i]
      /\ AmountOf(u)[m + 1] = p.amount /\ p.amount \in Int
  <2>1. DOMAIN s = 1..m /\ DOMAIN u = 1..(m + 1)
    BY <1>1, <1>2, PostingFacts
  <2>2. \A i \in 1..m : i \in 1..(m + 1)
    OBVIOUS
  <2>3. \A i \in 1..m : AmountOf(s)[i] = s[i].amount /\ s[i].amount \in Nat
    BY <2>1, PostingFacts
  <2>4. \A i \in 1..(m + 1) : AmountOf(u)[i] = u[i].amount /\ u[i].amount \in Nat
    BY <2>1, PostingFacts
  <2>5. \A i \in 1..m : AmountOf(s)[i] \in Int /\ AmountOf(u)[i] = AmountOf(s)[i]
    BY <1>1, <1>2, <2>2, <2>3, <2>4
  <2>6. AmountOf(u)[m + 1] = p.amount /\ p.amount \in Int
    <3>1. m + 1 \in 1..(m + 1) /\ u[m + 1] = p
      BY <1>1, <1>2
    <3>2. QED
      BY <2>4, <3>1
  <2> QED
    BY <2>1, <2>5, <2>6
<1>4. PICK T : T = PostedIn(u, d)
  OBVIOUS
<1>5. T \in SUBSET (1..(m + 1)) /\ FirstPart(T, m) = PostedIn(s, d)
  BY <1>1, <1>2, <1>3, <1>4 DEF PostedIn, FirstPart
<1>6. m + 1 \in T <=> p.direction = d
  BY <1>1, <1>2, <1>3, <1>4 DEF PostedIn
<1>7. PICK f : f = AmountOf(s)
  OBVIOUS
<1>8. PICK g : g = AmountOf(u)
  OBVIOUS
<1>9. /\ \A i \in FirstPart(T, m) : f[i] \in Int /\ g[i] = f[i]
      /\ m + 1 \in T => g[m + 1] \in Int
  BY <1>3, <1>7, <1>8 DEF FirstPart
<1>10. SumFunctionOnSet(g, T) =
         SumFunctionOnSet(f, FirstPart(T, m)) + (IF m + 1 \in T THEN g[m + 1] ELSE 0)
  BY <1>5, <1>9, SumGrows
<1>11. PostedTotal(u, d) = PostedTotal(s, d) + (IF p.direction = d THEN p.amount ELSE 0)
  BY <1>3, <1>4, <1>5, <1>6, <1>7, <1>8, <1>10 DEF PostedTotal, SumOver, PostedIn
<1> QED
  BY <1>1, <1>11

\* A posting occurs once more among those of its kind.
LEMMA PostedTimesAppend ==
  ASSUME NEW s \in Seq(Posting), NEW p \in Posting, NEW t, NEW row
  PROVE  PostedTimes(Append(s, p), t, row) =
           PostedTimes(s, t, row) +
           (IF p.txn = t /\ p.direction = row.direction /\ p.amount = row.amount THEN 1 ELSE 0)
<1>1. PICK u \in Seq(Posting) :
        /\ u = Append(s, p) /\ Len(u) = Len(s) + 1 /\ u[Len(s) + 1] = p
        /\ \A i \in 1..Len(s) : u[i] = s[i]
  <2>1. PICK u \in Seq(Posting) : u = Append(s, p)
    BY AppendProperties
  <2>2. Len(u) = Len(s) + 1 /\ u[Len(s) + 1] = p /\ \A i \in 1..Len(s) : u[i] = s[i]
    BY <2>1, AppendProperties
  <2>3. QED
    BY <2>1, <2>2
<1>2. PICK m \in Nat : m = Len(s)
  BY PostingFacts
<1>3. DOMAIN s = 1..m /\ DOMAIN u = 1..(m + 1)
  BY <1>1, <1>2, PostingFacts
<1>4. PICK T : T = PostedAs(u, t, row)
  OBVIOUS
<1>5. T \in SUBSET (1..(m + 1)) /\ FirstPart(T, m) = PostedAs(s, t, row)
  BY <1>1, <1>2, <1>3, <1>4 DEF PostedAs, FirstPart
<1>6. m + 1 \in T <=> p.txn = t /\ p.direction = row.direction /\ p.amount = row.amount
  BY <1>1, <1>2, <1>3, <1>4 DEF PostedAs
<1>7. Cardinality(T) = Cardinality(FirstPart(T, m)) + (IF m + 1 \in T THEN 1 ELSE 0)
  BY <1>5, CountGrows
<1> QED
  BY <1>1, <1>4, <1>5, <1>6, <1>7 DEF PostedTimes, PostedAs

\* The lines of an account among the first n, and those equal to a row.
FirstLines(u, n, a, d) == {i \in 1..n : u[i].account = a /\ u[i].direction = d}
Copies(u, n, row) == {i \in 1..n : u[i] = row}

\* One more row adds its amount to the side of its account it is on.
LEMMA LinesTotalGrows ==
  ASSUME NEW u \in Seq(Row), NEW m \in Nat, m + 1 <= Len(u), NEW a, NEW d
  PROVE  /\ LinesTotal(u, m + 1, a, d) = LinesTotal(u, m, a, d) +
              (IF u[m + 1].account = a /\ u[m + 1].direction = d THEN u[m + 1].amount ELSE 0)
         /\ LinesTotal(u, m, a, d) \in Nat
<1>1. PICK T : T = FirstLines(u, m + 1, a, d)
  OBVIOUS
<1>2. T \in SUBSET (1..(m + 1)) /\ FirstPart(T, m) = FirstLines(u, m, a, d)
  BY <1>1 DEF FirstLines, FirstPart
<1>3. m + 1 \in T <=> u[m + 1].account = a /\ u[m + 1].direction = d
  BY <1>1 DEF FirstLines
<1>4. PICK f : f = AmountOf(u)
  OBVIOUS
<1>5. \A i \in 1..(m + 1) : f[i] \in Nat /\ f[i] = u[i].amount
  <2>1. \A i \in 1..(m + 1) : i \in DOMAIN u
    BY RowFacts
  <2>2. QED
    BY <1>4, <2>1, RowFacts
<1>6. SumFunctionOnSet(f, T) =
         SumFunctionOnSet(f, FirstPart(T, m)) + (IF m + 1 \in T THEN f[m + 1] ELSE 0)
  <2>1. /\ \A i \in FirstPart(T, m) : f[i] \in Int /\ f[i] = f[i]
        /\ m + 1 \in T => f[m + 1] \in Int
    BY <1>5 DEF FirstPart
  <2>2. QED
    BY <1>2, <2>1, SumGrows
<1>7. SumFunctionOnSet(f, FirstPart(T, m)) \in Nat
  <2>1. \A i \in FirstPart(T, m) : f[i] \in Nat
    BY <1>5 DEF FirstPart
  <2>2. IsFiniteSet(FirstPart(T, m))
    BY <1>2, GrownPositions
  <2>3. QED
    BY <2>1, <2>2, SumNat
<1>8. m + 1 \in 1..(m + 1)
  OBVIOUS
<1> QED
  BY <1>1, <1>2, <1>3, <1>4, <1>5, <1>6, <1>7, <1>8 DEF LinesTotal, FirstLines

\* How often a row occurs is a natural.
LEMMA BuiltTimesType ==
  ASSUME NEW u, NEW m \in Nat, NEW row
  PROVE  BuiltTimes(u, m, row) \in Nat
<1>1. Copies(u, m, row) \in SUBSET (1..m)
  BY DEF Copies
<1>2. IsFiniteSet(1..m)
  BY FS_Interval
<1>3. Cardinality(Copies(u, m, row)) \in Nat
  BY <1>1, <1>2, FS_Subset, FS_CardinalityType
<1> QED
  BY <1>3 DEF BuiltTimes, Copies

\* One more row occurs once more.
LEMMA BuiltTimesGrows ==
  ASSUME NEW u, NEW m \in Nat, NEW row
  PROVE  BuiltTimes(u, m + 1, row) = BuiltTimes(u, m, row) + (IF u[m + 1] = row THEN 1 ELSE 0)
<1>1. PICK T : T = Copies(u, m + 1, row)
  OBVIOUS
<1>2. T \in SUBSET (1..(m + 1)) /\ FirstPart(T, m) = Copies(u, m, row)
  BY <1>1 DEF Copies, FirstPart
<1>3. m + 1 \in T <=> u[m + 1] = row
  BY <1>1 DEF Copies
<1>4. Cardinality(T) = Cardinality(FirstPart(T, m)) + (IF m + 1 \in T THEN 1 ELSE 0)
  BY <1>2, CountGrows
<1> QED
  BY <1>1, <1>2, <1>3, <1>4 DEF BuiltTimes, Copies

\* No row has nothing to add.
LEMMA NoLines ==
  ASSUME NEW u, NEW a, NEW d
  PROVE  LinesTotal(u, 0, a, d) = 0
<1>1. FirstLines(u, 0, a, d) = {}
  BY DEF FirstLines
<1>2. LinesTotal(u, 0, a, d) = SumFunctionOnSet(AmountOf(u), FirstLines(u, 0, a, d))
  BY DEF LinesTotal, FirstLines
<1>3. QED
  BY <1>1, <1>2, SumEmpty

\* No posting has nothing to add either.
LEMMA NothingPosted ==
  ASSUME NEW d
  PROVE  PostedTotal(<< >>, d) = 0
<1>1. PostedIn(<< >>, d) = {}
  BY EmptySeq DEF PostedIn
<1>2. PostedTotal(<< >>, d) = SumFunctionOnSet(AmountOf(<< >>), PostedIn(<< >>, d))
  BY DEF PostedTotal, SumOver, PostedIn
<1>3. QED
  BY <1>1, <1>2, SumEmpty

\* AllLocked: nothing is threaded and nothing staged.
LEMMA NothingStaged ==
  ASSUME Typing, NEW r \in Requests, threaded[r] = 0, \A a \in Accounts : staged[r][a] = <<>>
  PROVE  StagedRows(r)
<1>1. 1..0 = {} /\ DOMAIN << >> = {}
  BY EmptySeq
<1>2. \A d : PostedTotal(<< >>, d) = 0
  BY NothingPosted
<1>4. ASSUME NEW u, NEW row
      PROVE  BuiltTimes(u, 0, row) = Cardinality({}) /\ PostedTimes(<< >>, r, row) = Cardinality({})
  <2>1. Copies(u, 0, row) = {} /\ PostedAs(<< >>, r, row) = {}
    BY <1>1 DEF Copies, PostedAs
  <2>2. QED
    BY <2>1 DEF BuiltTimes, PostedTimes, Copies, PostedAs
<1>5. \A i \in 1..Len(rows[r]) : rows[r][i].account \in Accounts
  BY RowFacts DEF Typing, TypeOK
<1>6. \A a \in Accounts : \A d \in Direction :
        PostedTotal(staged[r][a], d) = LinesTotal(rows[r], threaded[r], a, d)
  BY <1>2, NoLines
<1>7. \A i \in 1..Len(rows[r]) :
        PostedTimes(staged[r][rows[r][i].account], r, rows[r][i]) =
        BuiltTimes(rows[r], threaded[r], rows[r][i])
  BY <1>4, <1>5
<1> QED
  BY <1>6, <1>7 DEF StagedRows

\* ThreadRow: one posting more is staged for the account of the next row, and
\* adds to it what the row does.
LEMMA ThreadStages ==
  ASSUME Typing, NEW r \in Requests, StagedRows(r), ThreadRow(r)
  PROVE  StagedRows(r)'
<1>1. PICK m \in Nat : m = threaded[r] /\ m + 1 <= Len(rows[r])
  <2>1. threaded[r] \in Nat /\ rows[r] \in Seq(Row) /\ threaded[r] < Len(rows[r])
    BY DEF ThreadRow, Typing, TypeOK
  <2>2. Len(rows[r]) \in Nat
    BY <2>1, LenProperties
  <2>3. QED
    BY <2>1, <2>2
<1>2. PICK u \in Seq(Row) : u = rows[r]
  BY DEF Typing, TypeOK
<1>3. PICK row \in Row : row = u[m + 1]
  BY <1>1, <1>2, ElementOfSeq, LenProperties
<1>4. PICK a \in Accounts : a = row.account
  BY DEF Row
<1>5. PICK p \in Posting :
        /\ p.txn = r /\ p.direction = row.direction /\ p.amount = row.amount
        /\ staged' = [staged EXCEPT ![r][a] = Append(@, p)]
  <2> DEFINE before == running[r][a]
             after == before + Effect(a, row.direction, row.amount)
             p == [txn |-> r, direction |-> row.direction, amount |-> row.amount,
                   before |-> before, after |-> after]
  <2>1. row.direction \in Direction /\ row.amount \in Nat \ {0}
    BY DEF Row
  <2>2. before \in Int /\ Effect(a, row.direction, row.amount) \in Int
    BY <2>1, EffectType DEF Typing, TypeOK
  <2>3. staged' = [staged EXCEPT ![r][a] = Append(@, p)]
    BY <1>1, <1>2, <1>3, <1>4 DEF ThreadRow
  <2>4. p \in Posting
    <3> HIDE DEF before
    <3>1. after \in Int
      BY <2>2
    <3> HIDE DEF after
    <3>2. QED
      BY <2>1, <2>2, <3>1 DEF Posting
  <2>5. p.txn = r /\ p.direction = row.direction /\ p.amount = row.amount
    OBVIOUS
  <2> HIDE DEF p
  <2>6. QED
    BY <2>3, <2>4, <2>5
<1>6. /\ rows'[r] = u /\ threaded'[r] = m + 1
      /\ staged'[r][a] = Append(staged[r][a], p) /\ staged[r][a] \in Seq(Posting)
      /\ \A b \in Accounts : b # a => staged'[r][b] = staged[r][b]
  <2>1. rows'[r] = u /\ threaded'[r] = m + 1
    BY <1>1, <1>2 DEF ThreadRow, Typing, TypeOK
  <2>2. QED
    BY <1>5, <2>1 DEF Typing, TypeOK
<1>7. ASSUME NEW b \in Accounts, NEW d \in Direction
      PROVE  PostedTotal(staged'[r][b], d) = LinesTotal(u, m + 1, b, d)
  <2>1. PostedTotal(staged[r][b], d) = LinesTotal(u, m, b, d)
    BY <1>1, <1>2 DEF StagedRows
  <2>2. LinesTotal(u, m + 1, b, d) = LinesTotal(u, m, b, d) +
          (IF row.account = b /\ row.direction = d THEN row.amount ELSE 0)
    BY <1>1, <1>2, <1>3, LinesTotalGrows
  <2>3. CASE b = a
    <3>1. PostedTotal(staged'[r][a], d) =
            PostedTotal(staged[r][a], d) + (IF p.direction = d THEN p.amount ELSE 0)
      BY <1>6, PostedTotalAppend
    <3>2. QED
      BY <1>4, <1>5, <2>1, <2>2, <2>3, <3>1
  <2>4. CASE b # a
    <3>1. LinesTotal(u, m, b, d) \in Nat
      BY <1>1, <1>2, LinesTotalGrows
    <3>2. QED
      BY <1>4, <1>6, <2>1, <2>2, <2>4, <3>1
  <2> QED
    BY <2>3, <2>4
<1>8. ASSUME NEW i \in 1..Len(u)
      PROVE  PostedTimes(staged'[r][u[i].account], r, u[i]) = BuiltTimes(u, m + 1, u[i])
  <2>1. PICK w \in Row : w = u[i]
    BY ElementOfSeq
  <2>2. PostedTimes(staged[r][w.account], r, w) = BuiltTimes(u, m, w)
    BY <1>1, <1>2, <2>1 DEF StagedRows
  <2>3. BuiltTimes(u, m + 1, w) = BuiltTimes(u, m, w) + (IF row = w THEN 1 ELSE 0)
    BY <1>3, BuiltTimesGrows
  <2>4. w.account \in Accounts
    BY DEF Row
  <2>5. CASE w.account = a
    <3>1. PostedTimes(staged'[r][a], r, w) = PostedTimes(staged[r][a], r, w) +
            (IF p.txn = r /\ p.direction = w.direction /\ p.amount = w.amount THEN 1 ELSE 0)
      BY <1>6, PostedTimesAppend
    <3>2. p.txn = r /\ p.direction = w.direction /\ p.amount = w.amount <=> row = w
      BY <1>4, <1>5, <2>5 DEF Row
    <3>3. QED
      BY <2>1, <2>2, <2>3, <2>5, <3>1, <3>2
  <2>6. CASE w.account # a
    <3>1. row # w /\ staged'[r][w.account] = staged[r][w.account]
      BY <1>4, <1>6, <2>4, <2>6
    <3>2. BuiltTimes(u, m, w) \in Nat
      BY BuiltTimesType
    <3>3. QED
      BY <2>1, <2>2, <2>3, <3>1, <3>2
  <2> QED
    BY <2>5, <2>6
<1> QED
  BY <1>6, <1>7, <1>8 DEF StagedRows

\* Whatever r does, what every request has staged follows its rows.
LEMMA StepStages ==
  ASSUME Typing, Snapshots, NEW r \in Requests, Begin(r) \/ Step(r) \/ Lose(r),
         \A s \in Requests : StagedFollows(s), NEW s \in Requests
  PROVE  StagedFollows(s)'
<1> USE DEF Typing, TypeOK
<1>1. CASE s # r
  <2>1. /\ pc'[s] = pc[s] /\ rows'[s] = rows[s]
        /\ threaded'[s] = threaded[s] /\ staged'[s] = staged[s]
    BY <1>1, OthersFrame
  <2>2. StagedFollows(s)
    OBVIOUS
  <2>3. QED
    BY <2>1, <2>2 DEF StagedFollows, StagedRows
<1>2. CASE s = r
  <2>1. StagedFollows(r)
    OBVIOUS
  <2>2. CASE Ended(r)
    BY <1>2, <2>2 DEF Ended, StagedFollows
  <2>3. CASE Passed(r)
    BY <1>2, <2>1, <2>3 DEF Passed, Early, Reading, StagedFollows
  <2>4. CASE Appended(r)
    BY <1>2, <2>1, <2>4 DEF Appended, AppendRow, StagedFollows
  <2>5. CASE LockBalance(r)
    BY <1>2, <2>1, <2>5 DEF LockBalance, StagedFollows
  <2>6. CASE AllLocked(r)
    <3>1. threaded[r] = 0 /\ \A a \in Accounts : staged[r][a] = <<>>
      BY <2>1, <2>6 DEF AllLocked, Goto, Snapshots, ThreadsLast, StagedFollows
    <3>2. StagedRows(r)
      BY <3>1, NothingStaged
    <3>3. pc'[r] = "thread" /\ UNCHANGED <<rows, threaded, staged>>
      BY <2>6 DEF AllLocked, Goto, locals
    <3>4. QED
      BY <1>2, <3>2, <3>3 DEF StagedFollows, StagedRows
  <2>7. CASE ThreadRow(r)
    <3>1. StagedRows(r) /\ pc'[r] = "thread"
      BY <2>1, <2>7 DEF ThreadRow, StagedFollows
    <3>2. StagedRows(r)'
      BY <2>7, <3>1, ThreadStages
    <3>3. QED
      BY <1>2, <3>1, <3>2 DEF StagedFollows
  <2>8. CASE AllThreaded(r)
    <3>1. StagedRows(r) /\ pc'[r] = "commit" /\ UNCHANGED <<rows, threaded, staged>>
      BY <2>1, <2>8 DEF AllThreaded, Goto, locals, StagedFollows
    <3>2. QED
      BY <1>2, <3>1 DEF StagedFollows, StagedRows
  <2>9. CASE Commit(r)
    BY <1>2, <2>9 DEF Commit, Goto, StagedFollows
  <2> QED
    BY <2>2, <2>3, <2>4, <2>5, <2>6, <2>7, <2>8, <2>9, StepEffect
<1> QED
  BY <1>1, <1>2

-------------------------------------------------------------------------------
(* The dict `deltas` holds the totals of the rows, account by account. *)

DeltasAre(u, ds, n, a) ==
  ds[n + 1][a].debits = LinesTotal(u, n, a, "debit") /\ ds[n + 1][a].credits = LinesTotal(u, n, a, "credit")

\* If deltas are right after m rows, they are right after the next.
LEMMA DeltasStep ==
  ASSUME NEW u \in Seq(Row), NEW ds, NEW m \in Nat, m + 1 <= Len(u), NEW a \in Accounts,
         ds[m + 1] \in [Accounts -> Totals], ds[m + 2] = AddRow(ds[m + 1], u[m + 1]),
         DeltasAre(u, ds, m, a)
  PROVE  DeltasAre(u, ds, m + 1, a)
<1>1. PICK row \in Row : row = u[m + 1]
  BY ElementOfSeq, LenProperties
<1>2. PICK d \in Totals : d = ds[m + 1][a]
  OBVIOUS
<1>3. ds[m + 2][a] = IF row.account = a THEN AddTo(d, row.direction, row.amount) ELSE d
  BY <1>1, <1>2 DEF AddRow, Row
<1>4. ASSUME NEW side \in Direction
      PROVE  LinesTotal(u, m + 1, a, side) = LinesTotal(u, m, a, side) +
               (IF row.account = a /\ row.direction = side THEN row.amount ELSE 0)
  <2>1. LinesTotal(u, m + 1, a, side) = LinesTotal(u, m, a, side) +
          (IF u[m + 1].account = a /\ u[m + 1].direction = side THEN u[m + 1].amount ELSE 0)
    BY LinesTotalGrows
  <2>2. QED
    BY <1>1, <2>1
<1>5. d.debits = LinesTotal(u, m, a, "debit") /\ d.credits = LinesTotal(u, m, a, "credit")
  BY <1>2 DEF DeltasAre
<1>6. row.direction \in Direction /\ row.amount \in Nat /\ d.debits \in Nat /\ d.credits \in Nat
  BY DEF Row, Totals
<1>7. /\ ds[m + 2][a].debits =
           d.debits + (IF row.account = a /\ row.direction = "debit" THEN row.amount ELSE 0)
      /\ ds[m + 2][a].credits =
           d.credits + (IF row.account = a /\ row.direction = "credit" THEN row.amount ELSE 0)
  BY <1>3, <1>6 DEF AddTo, Totals, Direction
<1>8. "debit" \in Direction /\ "credit" \in Direction
  BY DEF Direction
<1>9. (m + 1) + 1 = m + 2
  OBVIOUS
<1> QED
  BY <1>4, <1>5, <1>7, <1>8, <1>9 DEF DeltasAre

\* After any number of rows the deltas are their totals: a least number of rows
\* after which they were not would be preceded by one after which they are.
LEMMA DeltasTotal ==
  ASSUME Typing, NEW r \in Requests, DeltasFollow(r), NEW a \in Accounts,
         NEW n \in Nat, n <= Len(rows[r])
  PROVE  DeltasAre(rows[r], deltas[r], n, a)
<1>1. PICK u \in Seq(Row) : u = rows[r]
  BY DEF Typing, TypeOK
<1>2. PICK ds \in Seq([Accounts -> Totals]) : ds = deltas[r]
  BY DEF Typing, TypeOK
<1>3. /\ Len(ds) = Len(u) + 1 /\ Len(u) \in Nat /\ ds[1] = ZeroDeltas
      /\ \A i \in 1..Len(u) : ds[i + 1] = AddRow(ds[i], u[i])
  BY <1>1, <1>2, LenProperties DEF DeltasFollow
<1> DEFINE B == {k \in 0..Len(u) : ~DeltasAre(u, ds, k, a)}
<1>4. B = {}
  <2> SUFFICES ASSUME B # {} PROVE FALSE
    OBVIOUS
  <2>1. PICK k \in B : \A j \in B : k <= j
    <3>1. B \in SUBSET Nat /\ IsFiniteSet(B)
      <4>1. B \in SUBSET (0..Len(u)) /\ IsFiniteSet(0..Len(u))
        BY <1>3, FS_Interval
      <4> HIDE DEF B
      <4>2. 0..Len(u) \subseteq Nat
        BY <1>3
      <4>3. QED
        BY <4>1, <4>2, FS_Subset
    <3> HIDE DEF B
    <3>2. QED
      BY <3>1, LeastExists
  <2>2. k \in 0..Len(u) /\ ~DeltasAre(u, ds, k, a)
    OBVIOUS
  <2>3. CASE k = 0
    <3>1. ds[0 + 1][a].debits = 0 /\ ds[0 + 1][a].credits = 0
      BY <1>3 DEF ZeroDeltas, ZeroTotals
    <3>2. LinesTotal(u, 0, a, "debit") = 0 /\ LinesTotal(u, 0, a, "credit") = 0
      BY NoLines
    <3>3. QED
      BY <2>2, <2>3, <3>1, <3>2 DEF DeltasAre
  <2>4. CASE k # 0
    <3>1. PICK m \in Nat : k = m + 1 /\ m \in 0..Len(u) /\ m + 1 \in 1..Len(u)
      <4>1. k - 1 \in Nat /\ k = (k - 1) + 1 /\ k - 1 \in 0..Len(u) /\ (k - 1) + 1 \in 1..Len(u)
        BY <1>3, <2>2, <2>4
      <4>2. QED
        BY <4>1
    <3>2. DeltasAre(u, ds, m, a)
      <4>1. m \notin B
        <5> HIDE DEF B
        <5>1. QED
          BY <2>1, <3>1
      <4>2. QED
        BY <3>1, <4>1
    <3>3. ds[m + 1] \in [Accounts -> Totals]
      <4>1. m + 1 \in 1..Len(ds)
        BY <1>3, <3>1
      <4>2. QED
        BY <4>1, ElementOfSeq
    <3>4. ds[m + 2] = AddRow(ds[m + 1], u[m + 1])
      <4>1. ds[(m + 1) + 1] = AddRow(ds[m + 1], u[m + 1])
        BY <1>3, <3>1
      <4>2. (m + 1) + 1 = m + 2
        OBVIOUS
      <4>3. QED
        BY <4>1, <4>2
    <3>5. m + 1 <= Len(u)
      BY <3>1
    <3>6. DeltasAre(u, ds, m + 1, a)
      BY <3>2, <3>3, <3>4, <3>5, DeltasStep
    <3>7. QED
      BY <2>2, <3>1, <3>6
  <2> QED
    BY <2>3, <2>4
<1>5. n \in 0..Len(u)
  BY <1>1, <1>3
<1> QED
  BY <1>1, <1>2, <1>4, <1>5

\* The balance a COMMIT writes is the stored one and the totals of its rows.
LEMMA CommitDeltas ==
  ASSUME Typing, Locking, Snapshots, NEW r \in Requests, Commit(r), NEW a \in Touched(rows[r])
  PROVE  /\ a \in Accounts
         /\ balance'[a].debits = balance[a].debits + LinesTotal(rows[r], Len(rows[r]), a, "debit")
         /\ balance'[a].credits = balance[a].credits + LinesTotal(rows[r], Len(rows[r]), a, "credit")
         /\ balance'[a].version = balance[a].version + 1
<1>1. a \in Accounts
  BY TouchedType DEF Typing, TypeOK
<1>2. a \in held[r]
  BY DEF Commit, Goto, Locking, LocksInOrder
<1>3. stored[r][a] = balance[a] /\ DeltasFollow(r)
  BY <1>2 DEF Snapshots, Snapshot
<1>4. balance'[a] = ApplyDelta(balance[a], deltas[r][Len(deltas[r])][a])
  BY <1>1, <1>3 DEF Commit
<1>5. Len(deltas[r]) = Len(rows[r]) + 1 /\ Len(rows[r]) \in Nat
  BY <1>3, LenProperties DEF DeltasFollow, Typing, TypeOK
<1>6. DeltasAre(rows[r], deltas[r], Len(rows[r]), a)
  BY <1>1, <1>3, <1>5, DeltasTotal
<1> QED
  BY <1>1, <1>4, <1>5, <1>6 DEF ApplyDelta, DeltasAre

-------------------------------------------------------------------------------
(* What a COMMIT makes of the postings and the balances. *)

\* Positions of one sequence after another.
LEMMA ConcatFacts ==
  ASSUME NEW Z, NEW s \in Seq(Z), NEW t \in Seq(Z)
  PROVE  /\ DOMAIN s = 1..Len(s) /\ DOMAIN t = 1..Len(t)
         /\ DOMAIN (s \o t) = 1..(Len(s) + Len(t))
         /\ \A i \in 1..Len(s) : (s \o t)[i] = s[i]
         /\ \A j \in 1..Len(t) : (s \o t)[Len(s) + j] = t[j]
<1>1. /\ Len(s) \in Nat /\ Len(t) \in Nat /\ DOMAIN s = 1..Len(s) /\ DOMAIN t = 1..Len(t)
  BY LenProperties
<1>2. s \o t \in Seq(Z) /\ Len(s \o t) = Len(s) + Len(t)
  BY ConcatProperties
<1>3. DOMAIN (s \o t) = 1..(Len(s) + Len(t))
  BY <1>2, LenProperties
<1>4. \A i \in 1..(Len(s) + Len(t)) : (s \o t)[i] = IF i <= Len(s) THEN s[i] ELSE t[i - Len(s)]
  BY <1>2, ConcatProperties
<1>5. \A i \in 1..Len(s) : (s \o t)[i] = s[i]
  BY <1>1, <1>4
<1>6. ASSUME NEW j \in 1..Len(t)
      PROVE  (s \o t)[Len(s) + j] = t[j]
  <2>1. /\ Len(s) + j \in 1..(Len(s) + Len(t)) /\ ~(Len(s) + j <= Len(s))
        /\ (Len(s) + j) - Len(s) = j
    BY <1>1
  <2>2. QED
    BY <1>4, <2>1
<1> QED
  BY <1>1, <1>3, <1>5, <1>6

\* The amounts of one sequence after another add up to those of both.
LEMMA AmountsConcat ==
  ASSUME NEW Z, \A z \in Z : z.amount \in Int, NEW s \in Seq(Z), NEW t \in Seq(Z),
         NEW m \in Nat, m = Len(s), NEW n \in Nat, n = Len(t), NEW X \in SUBSET (1..(m + n))
  PROVE  SumFunctionOnSet(AmountOf(s \o t), X) =
           SumFunctionOnSet(AmountOf(s), FirstPart(X, m)) +
           SumFunctionOnSet(AmountOf(t), SecondPart(X, m, n))
<1>1. PICK u \in Seq(Z) : u = s \o t
  BY ConcatProperties
<1>2. /\ DOMAIN s = 1..m /\ DOMAIN t = 1..n /\ DOMAIN u = 1..(m + n)
      /\ \A i \in 1..m : u[i] = s[i]
      /\ \A j \in 1..n : u[m + j] = t[j]
  BY <1>1, ConcatFacts
<1>3. PICK f : f = AmountOf(u)
  OBVIOUS
<1>4. PICK e : e = AmountOf(s)
  OBVIOUS
<1>5. PICK g : g = AmountOf(t)
  OBVIOUS
<1>6. \A i \in X : f[i] \in Int
  <2>1. ASSUME NEW i \in X
        PROVE  f[i] \in Int
    <3>1. i \in DOMAIN u /\ i \in 1..Len(u)
      BY <1>2, LenProperties
    <3>2. u[i] \in Z
      BY <3>1, ElementOfSeq
    <3>3. f[i] = u[i].amount
      BY <1>3, <3>1 DEF AmountOf
    <3>4. QED
      BY <3>2, <3>3
  <2>2. QED
    BY <2>1
<1>7. \A i \in FirstPart(X, m) : e[i] = f[i]
  <2>1. ASSUME NEW i \in 1..m
        PROVE  e[i] = f[i]
    <3>1. i \in DOMAIN s /\ i \in DOMAIN u /\ u[i] = s[i]
      BY <1>2
    <3>2. e[i] = s[i].amount /\ f[i] = u[i].amount
      BY <1>3, <1>4, <3>1 DEF AmountOf
    <3>3. QED
      BY <3>1, <3>2
  <2>2. QED
    BY <2>1 DEF FirstPart
<1>8. \A j \in SecondPart(X, m, n) : g[j] = f[m + j]
  <2>1. ASSUME NEW j \in 1..n
        PROVE  g[j] = f[m + j]
    <3>1. j \in DOMAIN t /\ m + j \in DOMAIN u /\ u[m + j] = t[j]
      BY <1>2
    <3>2. g[j] = t[j].amount /\ f[m + j] = u[m + j].amount
      BY <1>3, <1>5, <3>1 DEF AmountOf
    <3>3. QED
      BY <3>1, <3>2
  <2>2. QED
    BY <2>1 DEF SecondPart
<1>9. Spliced(f, e, g, X, m, n)
  BY <1>6, <1>7, <1>8 DEF Spliced
<1>10. SumFunctionOnSet(f, X) =
         SumFunctionOnSet(e, FirstPart(X, m)) + SumFunctionOnSet(g, SecondPart(X, m, n))
  BY <1>9, SumConcat
<1> QED
  BY <1>1, <1>3, <1>4, <1>5, <1>10

\* Totals add up.
LEMMA PostedTotalConcat ==
  ASSUME NEW s \in Seq(Posting), NEW t \in Seq(Posting), NEW d
  PROVE  PostedTotal(s \o t, d) = PostedTotal(s, d) + PostedTotal(t, d)
<1>1. PICK m \in Nat : m = Len(s)
  BY LenProperties
<1>2. PICK n \in Nat : n = Len(t)
  BY LenProperties
<1>3. /\ DOMAIN s = 1..m /\ DOMAIN t = 1..n /\ DOMAIN (s \o t) = 1..(m + n)
      /\ \A i \in 1..m : (s \o t)[i] = s[i]
      /\ \A j \in 1..n : (s \o t)[m + j] = t[j]
  BY <1>1, <1>2, ConcatFacts
<1>4. PICK X \in SUBSET (1..(m + n)) : X = PostedIn(s \o t, d)
  BY <1>3 DEF PostedIn
<1>5. FirstPart(X, m) = PostedIn(s, d)
  <2>1. \A i \in 1..m : i \in 1..(m + n)
    OBVIOUS
  <2>2. QED
    BY <1>3, <1>4, <2>1 DEF PostedIn, FirstPart
<1>6. SecondPart(X, m, n) = PostedIn(t, d)
  <2>1. \A j \in 1..n : m + j \in 1..(m + n)
    OBVIOUS
  <2>2. QED
    BY <1>3, <1>4, <2>1 DEF PostedIn, SecondPart
<1>7. SumFunctionOnSet(AmountOf(s \o t), X) =
        SumFunctionOnSet(AmountOf(s), FirstPart(X, m)) +
        SumFunctionOnSet(AmountOf(t), SecondPart(X, m, n))
  <2>1. \A p \in Posting : p.amount \in Int
    BY DEF Posting
  <2>2. QED
    BY <1>1, <1>2, <2>1, AmountsConcat
<1>8. \A v : PostedTotal(v, d) = SumFunctionOnSet(AmountOf(v), PostedIn(v, d))
  BY DEF PostedTotal, SumOver, PostedIn
<1> QED
  BY <1>4, <1>5, <1>6, <1>7, <1>8

\* Counts add up.
LEMMA PostedTimesConcat ==
  ASSUME NEW s \in Seq(Posting), NEW t \in Seq(Posting), NEW r, NEW row
  PROVE  PostedTimes(s \o t, r, row) = PostedTimes(s, r, row) + PostedTimes(t, r, row)
<1>1. PICK u \in Seq(Posting) : u = s \o t
  BY ConcatProperties
<1>2. PICK m \in Nat : m = Len(s)
  BY LenProperties
<1>3. PICK n \in Nat : n = Len(t)
  BY LenProperties
<1>4. /\ DOMAIN s = 1..m /\ DOMAIN t = 1..n /\ DOMAIN u = 1..(m + n)
      /\ \A i \in 1..m : u[i] = s[i]
      /\ \A j \in 1..n : u[m + j] = t[j]
  BY <1>1, <1>2, <1>3, ConcatFacts
<1>5. PICK X : X = PostedAs(u, r, row)
  OBVIOUS
<1>6. X \in SUBSET (1..(m + n))
  BY <1>4, <1>5 DEF PostedAs
<1>7. FirstPart(X, m) = PostedAs(s, r, row)
  <2>1. \A i \in 1..m : i \in 1..(m + n)
    OBVIOUS
  <2>2. QED
    BY <1>4, <1>5, <2>1 DEF PostedAs, FirstPart
<1>8. SecondPart(X, m, n) = PostedAs(t, r, row)
  <2>1. \A j \in 1..n : m + j \in 1..(m + n)
    OBVIOUS
  <2>2. QED
    BY <1>4, <1>5, <2>1 DEF PostedAs, SecondPart
<1>9. Cardinality(X) = Cardinality(FirstPart(X, m)) + Cardinality(SecondPart(X, m, n))
  BY <1>6, CountConcat
<1>10. \A v : PostedTimes(v, r, row) = Cardinality(PostedAs(v, r, row))
  BY DEF PostedTimes, PostedAs
<1> QED
  BY <1>1, <1>5, <1>7, <1>8, <1>9, <1>10

\* The transactions whose postings s holds.
PostedBy(s) == {s[i].txn : i \in DOMAIN s}

\* They are finitely many, and those of both sequences.
LEMMA PostedByConcat ==
  ASSUME NEW s \in Seq(Posting), NEW t \in Seq(Posting)
  PROVE  IsFiniteSet(PostedBy(s)) /\ PostedBy(s \o t) = PostedBy(s) \union PostedBy(t)
<1>1. IsFiniteSet(DOMAIN s)
  BY PostingFacts, FS_Interval
<1>2. IsFiniteSet(PostedBy(s))
  <2>1. [i \in DOMAIN s |-> s[i].txn] \in Surjection(DOMAIN s, PostedBy(s))
    BY DEF PostedBy, Surjection
  <2>2. QED
    BY <1>1, <2>1, FS_Surjection
<1>3. PICK u : u = s \o t
  OBVIOUS
<1>4. PICK m \in Nat : m = Len(s)
  BY LenProperties
<1>5. PICK n \in Nat : n = Len(t)
  BY LenProperties
<1>6. /\ DOMAIN s = 1..m /\ DOMAIN t = 1..n /\ DOMAIN u = 1..(m + n)
      /\ \A i \in 1..m : u[i] = s[i]
      /\ \A j \in 1..n : u[m + j] = t[j]
  BY <1>3, <1>4, <1>5, ConcatFacts
<1>7. ASSUME NEW i \in DOMAIN u
      PROVE  u[i].txn \in PostedBy(s) \union PostedBy(t)
  <2>1. CASE i <= m
    <3>1. i \in DOMAIN s /\ u[i] = s[i]
      BY <1>6, <2>1
    <3>2. QED
      BY <3>1 DEF PostedBy
  <2>2. CASE ~(i <= m)
    <3>1. PICK j \in 1..n : i = m + j
      <4>1. i - m \in 1..n /\ i = m + (i - m)
        BY <1>6, <2>2
      <4>2. QED
        BY <4>1
    <3>2. j \in DOMAIN t /\ u[i] = t[j]
      BY <1>6, <3>1
    <3>3. QED
      BY <3>2 DEF PostedBy
  <2> QED
    BY <2>1, <2>2
<1>8. ASSUME NEW i \in DOMAIN s
      PROVE  s[i].txn \in PostedBy(u)
  <2>1. i \in DOMAIN u /\ u[i] = s[i]
    BY <1>6
  <2>2. QED
    BY <2>1 DEF PostedBy
<1>9. ASSUME NEW j \in DOMAIN t
      PROVE  t[j].txn \in PostedBy(u)
  <2>1. m + j \in DOMAIN u /\ u[m + j] = t[j]
    BY <1>6
  <2>2. QED
    BY <2>1 DEF PostedBy
<1>10. PostedBy(u) = PostedBy(s) \union PostedBy(t)
  BY <1>7, <1>8, <1>9 DEF PostedBy
<1> QED
  BY <1>2, <1>3, <1>10

\* What is staged holds at least one posting for every account the rows touch,
\* all of them of the request's own.
LEMMA StagedForTouched ==
  ASSUME Typing, Snapshots, Traced, NEW r \in Requests, pc[r] = "commit", StagedRows(r),
         NEW a \in Touched(rows[r])
  PROVE  PostedBy(staged[r][a]) = {r}
<1>1. a \in Accounts /\ rows[r] \in Seq(Row) /\ Len(rows[r]) \in Nat
  BY TouchedType, LenProperties DEF Typing, TypeOK
<1>2. threaded[r] = Len(rows[r])
  BY DEF Snapshots, ThreadsLast
<1>3. PICK k \in 1..Len(rows[r]) : rows[r][k].account = a
  BY <1>1, LenProperties DEF Touched
<1>4. PICK row : row = rows[r][k] /\ row.account = a
  BY <1>3
<1>5. PICK s \in Seq(Posting) : s = staged[r][a]
  BY <1>1 DEF Typing, TypeOK
<1>6. PostedTimes(s, r, row) = BuiltTimes(rows[r], Len(rows[r]), row)
  BY <1>2, <1>4, <1>5 DEF StagedRows
<1>7. BuiltTimes(rows[r], Len(rows[r]), row) # 0
  <2>1. Copies(rows[r], Len(rows[r]), row) \in SUBSET (1..Len(rows[r])) /\ IsFiniteSet(1..Len(rows[r]))
    <3>1. PICK n \in Nat : n = Len(rows[r])
      BY <1>1
    <3>2. IsFiniteSet(1..n)
      BY PositionsFinite
    <3>3. QED
      BY <3>1, <3>2 DEF Copies
  <2>2. IsFiniteSet(Copies(rows[r], Len(rows[r]), row))
    BY <2>1, FS_Subset
  <2>3. k \in Copies(rows[r], Len(rows[r]), row)
    BY <1>4 DEF Copies
  <2>4. Cardinality(Copies(rows[r], Len(rows[r]), row)) # 0
    BY <2>2, <2>3, FS_EmptySet
  <2>5. QED
    BY <2>4 DEF BuiltTimes, Copies
<1>8. PostedAs(s, r, row) # {}
  <2>1. PostedTimes(s, r, row) = Cardinality(PostedAs(s, r, row)) /\ Cardinality({}) = 0
    BY FS_EmptySet DEF PostedTimes, PostedAs
  <2>2. QED
    BY <1>6, <1>7, <2>1
<1>9. PICK i \in DOMAIN s : s[i].txn = r
  BY <1>8 DEF PostedAs
<1>10. \A j \in DOMAIN s : s[j].txn = r
  BY <1>1, <1>5 DEF Traced
<1>11. PostedBy(s) = {r}
  BY <1>9, <1>10 DEF PostedBy
<1> QED
  BY <1>5, <1>11

\* COMMIT moves every stored balance by what is posted with it.
LEMMA CommitBalances ==
  ASSUME Typing, Locking, Snapshots, Answering, StoredBalancesAreSums,
         NEW r \in Requests, Commit(r), StagedFollows(r)
  PROVE  StoredBalancesAreSums'
<1>1. /\ pc[r] = "commit" /\ StagedRows(r) /\ Traced /\ held[r] = Touched(rows[r])
      /\ r \notin transactions /\ threaded[r] = Len(rows[r])
  BY DEF Commit, Goto, StagedFollows, Answering, Typing, PcFitsInput, Locking, LocksInOrder,
     Snapshots, ThreadsLast
<1>2. SUFFICES ASSUME NEW a \in Accounts
               PROVE  /\ balance'[a].debits = PostedTotal(history'[a], "debit")
                      /\ balance'[a].credits = PostedTotal(history'[a], "credit")
                      /\ balance'[a].version = Cardinality(PostedBy(history'[a]))
  BY DEF StoredBalancesAreSums, PostedBy
<1>3. /\ balance[a].debits = PostedTotal(history[a], "debit")
      /\ balance[a].credits = PostedTotal(history[a], "credit")
      /\ balance[a].version = Cardinality(PostedBy(history[a]))
  BY DEF StoredBalancesAreSums, PostedBy
<1>4. PICK h \in Seq(Posting) : h = history[a]
  BY DEF Typing, TypeOK
<1>5. PICK s \in Seq(Posting) : s = staged[r][a]
  BY DEF Typing, TypeOK
<1>6. history'[a] = h \o s
  BY <1>4, <1>5 DEF Commit
<1>7. CASE a \notin Touched(rows[r])
  <2>1. s = <<>>
    BY <1>1, <1>5, <1>7 DEF Snapshots, ThreadsLast
  <2>2. h \o s = h
    BY <2>1, ConcatEmptySeq
  <2>3. balance'[a] = balance[a]
    BY <1>7 DEF Commit
  <2>4. QED
    BY <1>3, <1>4, <1>6, <2>2, <2>3
<1>8. CASE a \in Touched(rows[r])
  <2>1. /\ balance'[a].debits = balance[a].debits + LinesTotal(rows[r], Len(rows[r]), a, "debit")
        /\ balance'[a].credits = balance[a].credits + LinesTotal(rows[r], Len(rows[r]), a, "credit")
        /\ balance'[a].version = balance[a].version + 1
    BY <1>8, CommitDeltas
  <2>2. \A d \in Direction : PostedTotal(s, d) = LinesTotal(rows[r], Len(rows[r]), a, d)
    BY <1>1, <1>5 DEF StagedRows
  <2>3. \A d : PostedTotal(h \o s, d) = PostedTotal(h, d) + PostedTotal(s, d)
    BY PostedTotalConcat
  <2>4. PostedBy(h \o s) = PostedBy(h) \union {r} /\ IsFiniteSet(PostedBy(h))
    <3>1. PostedBy(staged[r][a]) = {r}
      BY <1>1, <1>8, StagedForTouched
    <3>2. PostedBy(s) = {r}
      BY <1>5, <3>1
    <3>3. IsFiniteSet(PostedBy(h)) /\ PostedBy(h \o s) = PostedBy(h) \union PostedBy(s)
      BY PostedByConcat
    <3>4. QED
      BY <3>2, <3>3
  <2>5. r \notin PostedBy(h)
    BY <1>1, <1>4 DEF Traced, PostedBy
  <2>6. Cardinality(PostedBy(h) \union {r}) = Cardinality(PostedBy(h)) + 1
    BY <2>4, <2>5, FS_AddElement
  <2>7. "debit" \in Direction /\ "credit" \in Direction
    BY DEF Direction
  <2>8. QED
    BY <1>3, <1>4, <1>6, <2>1, <2>2, <2>3, <2>4, <2>6, <2>7
<1> QED
  BY <1>7, <1>8

\* Every row of a committed transaction is posted as often as it was built.
EachRowPosted ==
  \A t \in transactions : \A i \in DOMAIN rows[t] :
    PostedTimes(history[rows[t][i].account], t, rows[t][i]) =
    BuiltTimes(rows[t], Len(rows[t]), rows[t][i])

\* Postings of other transactions do not count.
LEMMA NoneOfOthers ==
  ASSUME NEW s \in Seq(Posting), NEW t, NEW row, \A i \in DOMAIN s : s[i].txn # t
  PROVE  PostedTimes(s, t, row) = 0
<1>1. PostedAs(s, t, row) = {}
  BY DEF PostedAs
<1>2. PostedTimes(s, t, row) = Cardinality(PostedAs(s, t, row))
  BY DEF PostedTimes, PostedAs
<1> QED
  BY <1>1, <1>2, FS_EmptySet

\* COMMIT posts the rows of its own transaction, and none of any other.
LEMMA CommitPosts ==
  ASSUME Typing, Snapshots, Answering, EachRowPosted, NEW r \in Requests, Commit(r), StagedFollows(r)
  PROVE  EachRowPosted'
<1>1. /\ pc[r] = "commit" /\ StagedRows(r) /\ Traced /\ UNCHANGED rows
      /\ r \notin transactions /\ threaded[r] = Len(rows[r])
      /\ transactions' = transactions \union {r} /\ transactions \subseteq Requests
  BY DEF Commit, Goto, StagedFollows, Answering, Typing, TypeOK, PcFitsInput, Snapshots, ThreadsLast
<1>2. SUFFICES ASSUME NEW t \in transactions \union {r}, NEW i \in DOMAIN rows[t]
               PROVE  PostedTimes(history'[rows[t][i].account], t, rows[t][i]) =
                      BuiltTimes(rows[t], Len(rows[t]), rows[t][i])
  BY <1>1 DEF EachRowPosted
<1>3. PICK row \in Row : row = rows[t][i]
  BY <1>1, RowFacts DEF Typing, TypeOK
<1>4. PICK a \in Accounts : a = row.account
  BY DEF Row
<1>5. PICK h \in Seq(Posting) : h = history[a]
  BY DEF Typing, TypeOK
<1>6. PICK s \in Seq(Posting) : s = staged[r][a]
  BY DEF Typing, TypeOK
<1>7. PostedTimes(history'[a], t, row) = PostedTimes(h, t, row) + PostedTimes(s, t, row)
  <2>1. history'[a] = h \o s
    BY <1>5, <1>6 DEF Commit
  <2>2. QED
    BY <2>1, PostedTimesConcat
<1>8. t \in Requests /\ rows[t] \in Seq(Row) /\ Len(rows[t]) \in Nat /\ DOMAIN rows[t] = 1..Len(rows[t])
  BY <1>1, LenProperties DEF Typing, TypeOK
<1>9. BuiltTimes(rows[t], Len(rows[t]), row) \in Nat
  BY <1>8, BuiltTimesType
<1>10. CASE t = r
  <2>1. PostedTimes(h, r, row) = 0
    <3>1. \A j \in DOMAIN h : h[j].txn # r
      BY <1>1, <1>5 DEF Traced
    <3>2. QED
      BY <3>1, NoneOfOthers
  <2>2. PostedTimes(s, r, row) = BuiltTimes(rows[r], Len(rows[r]), row)
    BY <1>1, <1>3, <1>4, <1>6, <1>8, <1>10 DEF StagedRows
  <2>3. QED
    BY <1>3, <1>4, <1>7, <1>9, <1>10, <2>1, <2>2
<1>11. CASE t # r
  <2>1. PostedTimes(s, t, row) = 0
    <3>1. \A j \in DOMAIN s : s[j].txn # t
      BY <1>1, <1>6, <1>11 DEF Traced
    <3>2. QED
      BY <3>1, NoneOfOthers
  <2>2. PostedTimes(h, t, row) = BuiltTimes(rows[t], Len(rows[t]), row)
    BY <1>3, <1>4, <1>5, <1>11 DEF EachRowPosted
  <2>3. QED
    BY <1>3, <1>4, <1>7, <1>9, <2>1, <2>2
<1> QED
  BY <1>10, <1>11

\* Rows of one transaction after those of another add up to both totals.
LEMMA LineTotalConcat ==
  ASSUME NEW s \in Seq(Row), NEW t \in Seq(Row), NEW A, NEW d
  PROVE  LineTotal(s \o t, A, d) = LineTotal(s, A, d) + LineTotal(t, A, d)
<1>1. PICK m \in Nat : m = Len(s)
  BY LenProperties
<1>2. PICK n \in Nat : n = Len(t)
  BY LenProperties
<1>3. /\ DOMAIN s = 1..m /\ DOMAIN t = 1..n /\ DOMAIN (s \o t) = 1..(m + n)
      /\ \A i \in 1..m : (s \o t)[i] = s[i]
      /\ \A j \in 1..n : (s \o t)[m + j] = t[j]
  BY <1>1, <1>2, ConcatFacts
<1>4. PICK X \in SUBSET (1..(m + n)) : X = LinesOn(s \o t, A, d)
  BY <1>3 DEF LinesOn
<1>5. FirstPart(X, m) = LinesOn(s, A, d)
  <2>1. \A i \in 1..m : i \in 1..(m + n)
    OBVIOUS
  <2>2. QED
    BY <1>3, <1>4, <2>1 DEF LinesOn, FirstPart
<1>6. SecondPart(X, m, n) = LinesOn(t, A, d)
  <2>1. \A j \in 1..n : m + j \in 1..(m + n)
    OBVIOUS
  <2>2. QED
    BY <1>3, <1>4, <2>1 DEF LinesOn, SecondPart
<1>7. SumFunctionOnSet(AmountOf(s \o t), X) =
        SumFunctionOnSet(AmountOf(s), FirstPart(X, m)) +
        SumFunctionOnSet(AmountOf(t), SecondPart(X, m, n))
  <2>1. \A row \in Row : row.amount \in Int
    BY DEF Row
  <2>2. QED
    BY <1>1, <1>2, <2>1, AmountsConcat
<1>8. \A v : LineTotal(v, A, d) = SumFunctionOnSet(AmountOf(v), LinesOn(v, A, d))
  BY DEF LineTotal
<1> QED
  BY <1>4, <1>5, <1>6, <1>7, <1>8

\* The rows of a committed reversal mirror those of a committed transaction of
\* the same tenant.
LEMMA ReversalKnown ==
  ASSUME Typing, Answering, NEW t \in Requests, Sound(t), t \in transactions \/ pc[t] \in Writing,
         input[t].op = "reverse"
  PROVE  /\ input[t].target \in transactions /\ input[t].target \in Requests
         /\ input[input[t].target].tenant = input[t].tenant
         /\ MirrorOf(rows[t], rows[input[t].target])
<1>1. /\ input[t].target \in transactions
      /\ input[input[t].target].tenant = input[t].tenant
  BY DEF Answering, OriginalKnown, InFlight, Writing
<1>2. input[t].target \in Requests
  BY <1>1 DEF Typing, TypeOK
<1>3. Mirroring(t) /\ Len(rows[t]) = Len(lines[t])
  BY DEF Sound, Reversing, Mirroring, InFlight, Writing
<1>4. lines[t] \in Seq(Row)
  <2>1. input[t] \in ReverseInput
    <3>1. input[t] \in PostInput \union ReverseInput
      BY DEF Typing, PcFitsInput, Writing
    <3>2. QED
      BY <3>1, OpOfInput
  <2>2. QED
    BY <2>1 DEF Typing, PcFitsInput
<1>5. MirrorOf(rows[t], rows[input[t].target])
  BY <1>2, <1>3, <1>4, MirroringEnds
<1> QED
  BY <1>1, <1>2, <1>5

\* Rows and their mirrors take each other back on every account.
LEMMA MirrorsCancel ==
  ASSUME Typing, NEW t \in Requests, NEW u \in Requests, MirrorOf(rows[t], rows[u]), NEW a \in Accounts
  PROVE  LineTotal(rows[u] \o rows[t], {a}, "debit") = LineTotal(rows[u] \o rows[t], {a}, "credit")
<1>1. PICK v \in Seq(Row) : v = rows[u]
  BY DEF Typing, TypeOK
<1>2. PICK w \in Seq(Row) : w = rows[t]
  BY DEF Typing, TypeOK
<1>3. MirrorOf(w, v)
  BY <1>1, <1>2
<1>4. "debit" \in Direction /\ "credit" \in Direction
  BY DEF Direction
<1>5. \A d \in Direction : LineTotal(w, {a}, d) = LineTotal(v, {a}, Opposite(d))
  BY <1>3, MirroredTotals
<1>6. /\ LineTotal(w, {a}, "debit") = LineTotal(v, {a}, "credit")
      /\ LineTotal(w, {a}, "credit") = LineTotal(v, {a}, "debit")
  BY <1>4, <1>5 DEF Opposite
<1>7. \A d : LineTotal(v \o w, {a}, d) = LineTotal(v, {a}, d) + LineTotal(w, {a}, d)
  BY LineTotalConcat
<1>8. LineTotal(v, {a}, "debit") \in Nat /\ LineTotal(v, {a}, "credit") \in Nat
  BY LineTotalType
<1>9. LineTotal(v \o w, {a}, "debit") = LineTotal(v \o w, {a}, "credit")
  <2>1. LineTotal(v \o w, {a}, "debit") = LineTotal(v, {a}, "debit") + LineTotal(w, {a}, "debit")
    BY <1>7
  <2>2. LineTotal(v \o w, {a}, "credit") = LineTotal(v, {a}, "credit") + LineTotal(w, {a}, "credit")
    BY <1>7
  <2>3. QED
    BY <1>6, <1>8, <2>1, <2>2
<1> QED
  BY <1>1, <1>2, <1>9

\* What sound rows say of the committed reversals.
LEMMA SoundReversals ==
  ASSUME Typing, Answering, \A t \in Requests : Sound(t)
  PROVE  ReversalMirrors
<1>1. SUFFICES ASSUME NEW t \in transactions, input[t].op = "reverse"
      PROVE  /\ input[t].target \in transactions
             /\ input[input[t].target].tenant = input[t].tenant
             /\ \A a \in Accounts :
                  SumOver(rows[input[t].target] \o rows[t],
                          LAMBDA row : row.account = a /\ row.direction = "debit") =
                  SumOver(rows[input[t].target] \o rows[t],
                          LAMBDA row : row.account = a /\ row.direction = "credit")
  BY DEF ReversalMirrors
<1>2. t \in Requests
  BY DEF Typing, TypeOK
<1>3. PICK u \in Requests : /\ u = input[t].target /\ u \in transactions
                            /\ input[u].tenant = input[t].tenant /\ MirrorOf(rows[t], rows[u])
  BY <1>1, <1>2, ReversalKnown
<1>4. ASSUME NEW a \in Accounts
      PROVE  SumOver(rows[u] \o rows[t], LAMBDA row : row.account = a /\ row.direction = "debit") =
             SumOver(rows[u] \o rows[t], LAMBDA row : row.account = a /\ row.direction = "credit")
  <2>1. LineTotal(rows[u] \o rows[t], {a}, "debit") = LineTotal(rows[u] \o rows[t], {a}, "credit")
    BY <1>2, <1>3, MirrorsCancel
  <2>2. rows[u] \o rows[t] \in Seq(Row)
    BY <1>2, ConcatProperties DEF Typing, TypeOK
  <2>3. \A d : SumOver(rows[u] \o rows[t], LAMBDA row : row.account = a /\ row.direction = d) =
               LineTotal(rows[u] \o rows[t], {a}, d)
    BY <2>2, AccountTotalIsLineTotal
  <2>4. QED
    BY <2>1, <2>3
<1> QED
  BY <1>3, <1>4

-------------------------------------------------------------------------------
(* The inductive invariant, and what follows from it. *)

Inductive ==
  /\ Typing /\ Locking /\ Snapshots /\ SnapshotChain /\ NoClash /\ Answering
  /\ \A r \in Requests : Sound(r) /\ StagedFollows(r)
  /\ StoredBalancesAreSums /\ EachRowPosted

\* Only a COMMIT changes what is posted and stored.
LEMMA PostedFrame ==
  ASSUME Typing, NEW r \in Requests, Begin(r) \/ Step(r) \/ Lose(r), ~Commit(r)
  PROVE  /\ transactions' = transactions
         /\ \A a \in Accounts : history'[a] = history[a] /\ balance'[a] = balance[a]
<1>1. transactions' = transactions
  BY TransactionsGrow
<1>2. \A a \in Accounts : history'[a] = history[a] /\ balance'[a] = balance[a]
  <2> USE DEF database
  <2>1. CASE Ended(r) \/ Passed(r) \/ Appended(r)
    BY <2>1 DEF Ended, Passed, Appended
  <2>2. CASE LockBalance(r) \/ AllLocked(r) \/ ThreadRow(r) \/ AllThreaded(r)
    BY <2>2 DEF LockBalance, AllLocked, ThreadRow, AllThreaded
  <2> QED
    BY <2>1, <2>2, StepEffect
<1> QED
  BY <1>1, <1>2

\* The first state satisfies it.
LEMMA InitInductive == Init => Inductive
<1> SUFFICES ASSUME Init PROVE Inductive
  OBVIOUS
<1>1. Typing /\ Answering
  BY InitTyping, InitAnswering
<1>2. Locking /\ Snapshots /\ SnapshotChain
  BY SMT DEF Init, Locking, LocksInOrder, Touched, Reading, Snapshots, DeltasFollow, ThreadsLast,
     SnapshotChain, Chained, Signed, ZeroBalance
<1>3. NoClash
  BY DEF Init, NoClash, Placed, Inserted, InFlight
<1>4. \A r \in Requests : Sound(r) /\ StagedFollows(r)
  BY DEF Init, Sound, Validated, Reversing, InFlight, StagedFollows
<1>5. StoredBalancesAreSums
  <2>1. \A d : PostedTotal(<< >>, d) = 0
    BY NothingPosted
  <2>2. PostedBy(<< >>) = {}
    BY EmptySeq DEF PostedBy
  <2>3. Cardinality(PostedBy(<< >>)) = 0
    BY <2>2, FS_EmptySet
  <2>4. ASSUME NEW a \in Accounts
        PROVE  history[a] = << >> /\ balance[a].debits = 0 /\ balance[a].credits = 0 /\ balance[a].version = 0
    BY DEF Init, ZeroBalance
  <2>5. QED
    BY <2>1, <2>3, <2>4 DEF StoredBalancesAreSums, PostedBy
<1>6. EachRowPosted
  BY DEF Init, EachRowPosted
<1> QED
  BY <1>1, <1>2, <1>3, <1>4, <1>5, <1>6 DEF Inductive

\* Every step keeps it.
LEMMA NextInductive ==
  ASSUME Inductive, [Next]_vars
  PROVE  Inductive'
<1>1. Typing' /\ Locking' /\ Snapshots' /\ SnapshotChain' /\ NoClash' /\ Answering'
  BY NextTyping, NextLocking, NextSnapshots, NextNoClash, NextAnswering DEF Inductive
<1>2. ASSUME NEW r \in Requests, Begin(r) \/ Step(r) \/ Lose(r)
      PROVE  /\ \A s \in Requests : Sound(s)' /\ StagedFollows(s)'
             /\ StoredBalancesAreSums' /\ EachRowPosted'
  <2>1. /\ Typing /\ Answering /\ Locking /\ Snapshots
        /\ \A s \in Requests : Sound(s)
        /\ \A s \in Requests : StagedFollows(s)
        /\ StoredBalancesAreSums /\ EachRowPosted
    BY DEF Inductive
  <2>2. \A s \in Requests : Sound(s)'
    BY <1>2, <2>1, StepSound
  <2>3. \A s \in Requests : StagedFollows(s)'
    BY <1>2, <2>1, StepStages
  <2>4. CASE Commit(r)
    BY <2>1, <2>2, <2>3, <2>4, CommitBalances, CommitPosts
  <2>5. CASE ~Commit(r)
    <3>1. /\ transactions' = transactions
          /\ \A a \in Accounts : history'[a] = history[a] /\ balance'[a] = balance[a]
      BY <1>2, <2>1, <2>5, PostedFrame
    <3>2. StoredBalancesAreSums'
      BY <2>1, <3>1 DEF StoredBalancesAreSums
    <3>3. EachRowPosted'
      <4>1. SUFFICES ASSUME NEW t \in transactions, NEW i \in DOMAIN rows'[t]
            PROVE  PostedTimes(history'[rows'[t][i].account], t, rows'[t][i]) =
                   BuiltTimes(rows'[t], Len(rows'[t]), rows'[t][i])
        BY <3>1 DEF EachRowPosted
      <4>2. rows'[t] = rows[t] /\ t \in Requests
        BY <1>2, <2>1, CommittedStays
      <4>3. rows[t][i].account \in Accounts
        BY <2>1, <4>2, RowFacts DEF Typing, TypeOK
      <4>4. QED
        BY <2>1, <3>1, <4>2, <4>3 DEF EachRowPosted
    <3>4. QED
      BY <2>2, <2>3, <3>2, <3>3
  <2> QED
    BY <2>4, <2>5
<1>3. ASSUME UNCHANGED vars
      PROVE  /\ \A s \in Requests : Sound(s)' /\ StagedFollows(s)'
             /\ StoredBalancesAreSums' /\ EachRowPosted'
  <2>1. /\ \A s \in Requests : Sound(s) /\ StagedFollows(s)
        /\ StoredBalancesAreSums /\ EachRowPosted
    BY DEF Inductive
  <2>2. ASSUME NEW s \in Requests
        PROVE  Sound(s)'
    BY <1>3, <2>1 DEF vars, Sound, Validated, Postable, Reversing, Mirroring
  <2>3. ASSUME NEW s \in Requests
        PROVE  StagedFollows(s)'
    BY <1>3, <2>1 DEF vars, StagedFollows, StagedRows
  <2>4. StoredBalancesAreSums' /\ EachRowPosted'
    BY <1>3, <2>1 DEF vars, StoredBalancesAreSums, EachRowPosted
  <2> QED
    BY <2>2, <2>3, <2>4
<1> QED
  BY <1>1, <1>2, <1>3 DEF Next, Quiet, Inductive

\* What the inductive invariant was strengthened for.
LEMMA InductiveImplies ==
  ASSUME Inductive
  PROVE  IInv /\ StoredBalancesAreSums /\ DoubleEntry /\ ReversalMirrors
<1>1. IInv
  BY DEF Inductive, IInv, Typing, Sound
<1>2. DoubleEntry
  <2>1. SUFFICES ASSUME NEW t \in transactions
                 PROVE  /\ Len(rows[t]) >= 2 /\ Balanced(rows[t])
                        /\ Touched(rows[t]) \subseteq AccountsOf(input[t].tenant)
                        /\ \A i \in DOMAIN rows[t] :
                             PostedTimes(history[rows[t][i].account], t, rows[t][i]) =
                             BuiltTimes(rows[t], Len(rows[t]), rows[t][i])
    BY DEF DoubleEntry
  <2>2. t \in Requests
    BY DEF Inductive, Typing, TypeOK
  <2>3. Postable(t)
    BY <2>2 DEF Inductive, Sound, Validated
  <2>4. QED
    BY <2>3 DEF Inductive, EachRowPosted, Postable
<1>3. ReversalMirrors
  <2>1. Typing /\ Answering /\ \A t \in Requests : Sound(t)
    BY DEF Inductive
  <2>2. QED
    BY <2>1, SoundReversals
<1>4. StoredBalancesAreSums
  BY DEF Inductive
<1> QED
  BY <1>1, <1>2, <1>3, <1>4

\* Every reachable state satisfies it.
LEMMA AlwaysInductive == Spec => []Inductive
  BY InitInductive, NextInductive, PTL DEF Spec

\* The invariant behind the ledger's promises holds in every reachable state.
THEOREM InvariantHolds == Spec => []IInv
  BY AlwaysInductive, InductiveImplies, PTL

\* The materialised balances are the sums of the postings, and the version of an
\* account counts the transactions that touched it, for any number of accounts
\* and requests, interleaved in any way (what verify_integrity recomputes).
THEOREM BalancesAreSums == Spec => []StoredBalancesAreSums
  BY AlwaysInductive, InductiveImplies, PTL

\* Every committed transaction is balanced in each currency, on accounts of its
\* tenant, and posted whole (post_transaction, reverse_transaction).
THEOREM CommittedWhole == Spec => []DoubleEntry
  BY AlwaysInductive, InductiveImplies, PTL

\* A committed reversal takes back exactly what its original posted
\* (reverse_transaction).
THEOREM ReversalsTakeBack == Spec => []ReversalMirrors
  BY AlwaysInductive, InductiveImplies, PTL

-------------------------------------------------------------------------------
(* The engine implements the abstract ledger. *)

\* The abstract ledger adds up as the engine does.
LEMMA LedgerSum ==
  ASSUME NEW f, NEW S
  PROVE  Ledger!SumFunctionOnSet(f, S) = SumFunctionOnSet(f, S)
<1>1. Ledger!SumFunctionOnSet(f, S) = (CHOOSE g : SumTable(g, f, S))[S]
  BY Zenon DEF Ledger!SumFunctionOnSet, Ledger!FoldFunctionOnSet, Ledger!MapThenFoldSet, SumTable, First
<1>2. QED
  BY <1>1, SumFromTable

\* And means the same by balanced.
LEMMA LedgerBalanced ==
  ASSUME NEW s
  PROVE  Ledger!Balanced(s) <=> Balanced(s)
  BY LedgerSum DEF Ledger!Balanced, Balanced, Ledger!SideTotal, SideTotal, Ledger!SumOver, SumOver,
     Ledger!AmountOf, AmountOf

\* What rows do to an account is their debits and credits on it.
LEMMA LedgerEffect ==
  ASSUME NEW s \in Seq(Row), NEW a
  PROVE  Ledger!NetEffect(a, s) =
           IF NormalBalance(TypeOf[a]) = "debit"
           THEN LineTotal(s, {a}, "debit") - LineTotal(s, {a}, "credit")
           ELSE LineTotal(s, {a}, "credit") - LineTotal(s, {a}, "debit")
<1>1. ASSUME NEW d
      PROVE  Ledger!SumFunctionOnSet(Ledger!AmountOf(s),
               {i \in DOMAIN s : s[i].account = a /\ s[i].direction = d}) = LineTotal(s, {a}, d)
  <2>1. {i \in DOMAIN s : s[i].account = a /\ s[i].direction = d} = LinesOn(s, {a}, d)
    BY DEF LinesOn
  <2>2. Ledger!AmountOf(s) = AmountOf(s)
    BY DEF Ledger!AmountOf, AmountOf
  <2>3. QED
    BY <2>1, <2>2, LedgerSum DEF LineTotal
<1>2. PICK totals :
        totals = [debits |-> LineTotal(s, {a}, "debit"), credits |-> LineTotal(s, {a}, "credit")]
  OBVIOUS
<1>3. Ledger!NetEffect(a, s) = Ledger!Signed(a, totals)
  <2>1. /\ Ledger!SumFunctionOnSet(Ledger!AmountOf(s),
            {i \in DOMAIN s : s[i].account = a /\ s[i].direction = "debit"}) = LineTotal(s, {a}, "debit")
        /\ Ledger!SumFunctionOnSet(Ledger!AmountOf(s),
            {i \in DOMAIN s : s[i].account = a /\ s[i].direction = "credit"}) = LineTotal(s, {a}, "credit")
    BY <1>1
  <2>2. QED
    BY <1>2, <2>1, Zenon DEF Ledger!NetEffect, Ledger!SumOver
<1> QED
  BY <1>2, <1>3 DEF Ledger!Signed, Ledger!NormalBalance, NormalBalance

\* Rows that do not touch an account add nothing to it, and those that do are all
\* among its lines.
LEMMA LinesOfAccount ==
  ASSUME NEW s \in Seq(Row), NEW a, NEW d
  PROVE  /\ LinesTotal(s, Len(s), a, d) = LineTotal(s, {a}, d)
         /\ a \notin Touched(s) => LineTotal(s, {a}, d) = 0
<1>1. FirstLines(s, Len(s), a, d) = LinesOn(s, {a}, d)
  BY RowFacts DEF FirstLines, LinesOn
<1>2. LinesTotal(s, Len(s), a, d) = SumFunctionOnSet(AmountOf(s), FirstLines(s, Len(s), a, d))
  BY DEF LinesTotal, FirstLines
<1>3. ASSUME a \notin Touched(s)
      PROVE  LineTotal(s, {a}, d) = 0
  <2>1. LinesOn(s, {a}, d) = {}
    BY <1>3 DEF Touched, LinesOn
  <2>2. QED
    BY <2>1, SumEmpty DEF LineTotal
<1> QED
  BY <1>1, <1>2, <1>3 DEF LineTotal

\* COMMIT moves the signed balance of every account by what the rows do to it.
LEMMA CommitMoves ==
  ASSUME Typing, Locking, Snapshots, NEW r \in Requests, Commit(r), NEW a \in Accounts
  PROVE  Signed(a, balance'[a]) = Signed(a, balance[a]) + Ledger!NetEffect(a, rows[r])
<1>1. PICK s \in Seq(Row) : s = rows[r]
  BY DEF Typing, TypeOK
<1>2. PICK b \in Balance : b = balance[a]
  BY DEF Typing, TypeOK
<1>3. PICK x \in Nat : x = LineTotal(s, {a}, "debit")
  BY LineTotalType
<1>4. PICK y \in Nat : y = LineTotal(s, {a}, "credit")
  BY LineTotalType
<1>5. Ledger!NetEffect(a, s) = IF NormalBalance(TypeOf[a]) = "debit" THEN x - y ELSE y - x
  BY <1>3, <1>4, LedgerEffect
<1>6. b.debits \in Nat /\ b.credits \in Nat
  BY DEF Balance
<1>7. CASE a \in Touched(s)
  <2>1. balance'[a].debits = b.debits + x /\ balance'[a].credits = b.credits + y
    BY <1>1, <1>2, <1>3, <1>4, <1>7, CommitDeltas, LinesOfAccount
  <2>2. QED
    BY <1>1, <1>2, <1>5, <1>6, <2>1 DEF Signed
<1>8. CASE a \notin Touched(s)
  <2>1. x = 0 /\ y = 0
    BY <1>3, <1>4, <1>8, LinesOfAccount
  <2>2. balance'[a] = b
    BY <1>1, <1>2, <1>8 DEF Commit
  <2>3. QED
    BY <1>1, <1>2, <1>5, <1>6, <2>1, <2>2 DEF Signed
<1> QED
  BY <1>7, <1>8

\* The entry of a committed transaction in the book.
Entry(t) ==
  [tenant |-> input[t].tenant, key |-> input[t].key, rows |-> rows[t],
   reverses |-> IF input[t].op = "reverse" THEN input[t].target ELSE NoTxn]

\* The book is a function on the transactions.
LEMMA BookEntries ==
  /\ DOMAIN Book = transactions
  /\ \A t \in transactions : Book[t] = Entry(t)
  BY DEF Book, Entry

\* COMMIT adds one entry, and changes no other.
LEMMA CommitBook ==
  ASSUME Typing, NEW r \in Requests, Commit(r)
  PROVE  /\ r \notin transactions /\ DOMAIN Book' = transactions \union {r}
         /\ Book'[r] = Entry(r) /\ \A t \in transactions : Book'[t] = Entry(t)
<1>1. /\ UNCHANGED <<input, rows>> /\ transactions' = transactions \union {r}
      /\ r \notin transactions
  BY DEF Commit, Goto, Typing, PcFitsInput
<1>2. Book' = [t \in transactions \union {r} |-> Entry(t)]
  BY <1>1 DEF Book, Entry
<1> QED
  BY <1>1, <1>2

\* The entry is whole and balanced.
LEMMA EntryWellFormed ==
  ASSUME Typing, NEW r \in Requests, Postable(r)
  PROVE  Ledger!WellFormed(Entry(r))
<1>1. PICK e : e = Entry(r)
  OBVIOUS
<1>2. e.rows = rows[r] /\ e.tenant = input[r].tenant /\ rows[r] \in Seq(Row)
  BY <1>1 DEF Entry, Typing, TypeOK
<1>3. Len(rows[r]) >= 2 /\ Ledger!Balanced(rows[r])
  BY LedgerBalanced DEF Postable
<1>4. ASSUME NEW i \in DOMAIN rows[r]
      PROVE  /\ rows[r][i].account \in Accounts /\ rows[r][i].amount > 0
             /\ TenantOf[rows[r][i].account] = input[r].tenant
  <2>1. rows[r][i].account \in Accounts /\ rows[r][i].amount \in Nat \ {0}
    BY <1>2, RowFacts
  <2>2. rows[r][i].account \in Touched(rows[r])
    BY DEF Touched
  <2>3. rows[r][i].account \in AccountsOf(input[r].tenant)
    BY <2>2 DEF Postable
  <2>4. QED
    BY <2>1, <2>3 DEF AccountsOf
<1>5. Ledger!WellFormed(e)
  BY <1>2, <1>3, <1>4 DEF Ledger!WellFormed
<1> QED
  BY <1>1, <1>5

\* Its key is free and its original not reversed yet: the unique indexes saw to it
\* when the row was inserted.
LEMMA EntryIsNew ==
  ASSUME Typing, NoClash, NEW r \in Requests, pc[r] = "commit"
  PROVE  /\ Ledger!KeyIsFree(Entry(r))
         /\ input[r].op = "reverse" =>
              \A t \in transactions : Entry(t).reverses # input[r].target
<1>1. ASSUME NEW t \in transactions
      PROVE  t \in Requests /\ ~Clash(r, t)
  <2>1. t \in Requests /\ r \notin transactions
    BY DEF Typing, TypeOK, PcFitsInput
  <2>2. QED
    BY <2>1 DEF NoClash, Placed, Inserted, InFlight
<1>2. PICK e : e = Entry(r)
  OBVIOUS
<1>3. e.key = input[r].key /\ e.tenant = input[r].tenant
  BY <1>2 DEF Entry
<1>4. ASSUME NEW t \in transactions, e.key # NoKey, Book[t].tenant = e.tenant
      PROVE  Book[t].key # e.key
  <2>1. Book[t].tenant = input[t].tenant /\ Book[t].key = input[t].key
    BY BookEntries DEF Entry
  <2>2. QED
    BY <1>1, <1>3, <1>4, <2>1 DEF Clash
<1>5. Ledger!KeyIsFree(e)
  BY <1>4, BookEntries DEF Ledger!KeyIsFree
<1>6. ASSUME input[r].op = "reverse", NEW t \in transactions
      PROVE  Entry(t).reverses # input[r].target
  <2>1. input[r].target # NoTxn
    <3>1. input[r] \in ReverseInput
      BY <1>6, OpOfInput DEF Typing, PcFitsInput
    <3>2. QED
      BY <3>1, InputAssumption DEF ReverseInput
  <2>2. input[t].op = "reverse" => input[t].target # input[r].target
    BY <1>1, <1>6 DEF Clash, IsReversalOf
  <2>3. QED
    BY <2>1, <2>2 DEF Entry
<1> QED
  BY <1>2, <1>5, <1>6

\* A reversal's entry takes back what its original's did.
LEMMA EntryReverses ==
  ASSUME Typing, NoClash, Answering, NEW r \in Requests, pc[r] = "commit", Sound(r)
  PROVE  Ledger!ReversesOnce(Entry(r))
<1>1. PICK e : e = Entry(r)
  OBVIOUS
<1>2. /\ e.tenant = input[r].tenant /\ e.rows = rows[r]
      /\ e.reverses = IF input[r].op = "reverse" THEN input[r].target ELSE NoTxn
  BY <1>1 DEF Entry
<1>3. SUFFICES ASSUME input[r].op = "reverse" PROVE Ledger!ReversesOnce(e)
  BY <1>1, <1>2 DEF Ledger!ReversesOnce
<1>4. PICK u \in Requests : /\ u = input[r].target /\ u \in transactions
                            /\ input[u].tenant = input[r].tenant /\ MirrorOf(rows[r], rows[u])
  BY <1>3, ReversalKnown DEF Writing
<1>5. DOMAIN Book = transactions /\ Book[u].tenant = e.tenant /\ Book[u].rows = rows[u]
  BY <1>2, <1>4, BookEntries DEF Entry
<1>6. \A t \in DOMAIN Book : Book[t].reverses # u
  BY <1>3, <1>4, BookEntries, EntryIsNew
<1>7. ASSUME NEW a \in Accounts
      PROVE  Ledger!NetEffect(a, rows[r]) = -Ledger!NetEffect(a, rows[u])
  <2>1. PICK v \in Seq(Row) : v = rows[u]
    BY DEF Typing, TypeOK
  <2>2. PICK w \in Seq(Row) : w = rows[r]
    BY DEF Typing, TypeOK
  <2>3. PICK x \in Nat : x = LineTotal(v, {a}, "debit")
    BY LineTotalType
  <2>4. PICK y \in Nat : y = LineTotal(v, {a}, "credit")
    BY LineTotalType
  <2>5. LineTotal(w, {a}, "debit") = y /\ LineTotal(w, {a}, "credit") = x
    <3>1. \A d \in Direction : LineTotal(w, {a}, d) = LineTotal(v, {a}, Opposite(d))
      BY <1>4, <2>1, <2>2, MirroredTotals
    <3>2. QED
      BY <2>3, <2>4, <3>1 DEF Opposite, Direction
  <2>6. Ledger!NetEffect(a, v) = IF NormalBalance(TypeOf[a]) = "debit" THEN x - y ELSE y - x
    BY <2>3, <2>4, LedgerEffect
  <2>7. Ledger!NetEffect(a, w) = IF NormalBalance(TypeOf[a]) = "debit" THEN y - x ELSE x - y
    BY <2>5, LedgerEffect
  <2>8. QED
    BY <2>1, <2>2, <2>6, <2>7
<1> QED
  BY <1>2, <1>3, <1>4, <1>5, <1>6, <1>7 DEF Ledger!ReversesOnce

\* COMMIT records one entry of the abstract ledger.
LEMMA CommitRecords ==
  ASSUME Inductive, NEW r \in Requests, Commit(r)
  PROVE  Ledger!Record(r)
<1>1. /\ Typing /\ Locking /\ Snapshots /\ NoClash /\ Answering /\ Sound(r) /\ pc[r] = "commit"
  BY DEF Inductive, Commit, Goto
<1>2. /\ r \notin DOMAIN Book /\ DOMAIN Book' = DOMAIN Book \union {r}
      /\ \A t \in DOMAIN Book : Book'[t] = Book[t]
      /\ Book'[r] = Entry(r)
  BY <1>1, BookEntries, CommitBook
<1>3. Ledger!WellFormed(Book'[r])
  BY <1>1, <1>2, EntryWellFormed DEF Sound, Validated
<1>4. Ledger!KeyIsFree(Book'[r])
  BY <1>1, <1>2, EntryIsNew
<1>5. Ledger!ReversesOnce(Book'[r])
  BY <1>1, <1>2, EntryReverses
<1>6. [a \in Accounts |-> Signed(a, balance'[a])] =
      [a \in Accounts |->
         [b \in Accounts |-> Signed(b, balance[b])][a] + Ledger!NetEffect(a, Book'[r].rows)]
  <2>1. Book'[r].rows = rows[r]
    BY <1>2 DEF Entry
  <2>2. \A a \in Accounts :
          Signed(a, balance'[a]) = Signed(a, balance[a]) + Ledger!NetEffect(a, rows[r])
    BY <1>1, CommitMoves
  <2>3. QED
    BY <2>1, <2>2, Zenon
<1> QED
  BY <1>2, <1>3, <1>4, <1>5, <1>6 DEF Ledger!Record

\* Every other step leaves book and balances as they are.
LEMMA OthersShowNothing ==
  ASSUME Typing, NEW r \in Requests, Begin(r) \/ Step(r) \/ Lose(r), ~Commit(r)
  PROVE  UNCHANGED Ledger!ledger
<1>1. /\ transactions' = transactions
      /\ \A a \in Accounts : balance'[a] = balance[a]
      /\ \A t \in transactions : rows'[t] = rows[t] /\ input'[t] = input[t]
  BY PostedFrame, CommittedStays
<1>2. Book' = Book
  BY <1>1 DEF Book
<1>3. [a \in Accounts |-> Signed(a, balance'[a])] = [a \in Accounts |-> Signed(a, balance[a])]
  BY <1>1
<1> QED
  BY <1>2, <1>3 DEF Ledger!ledger

\* The engine implements the ledger its callers are promised: every COMMIT adds
\* one whole entry, and no other step of any request shows.
THEOREM Refinement == Spec => ImplementsLedger
<1>1. Init => Ledger!Init
  <2>1. SUFFICES ASSUME Init PROVE Ledger!Init
    OBVIOUS
  <2>2. Book = << >>
    BY <2>1 DEF Init, Book
  <2>3. \A a \in Accounts : Signed(a, balance[a]) = 0
    BY <2>1 DEF Init, Signed, ZeroBalance
  <2>4. QED
    BY <2>2, <2>3 DEF Ledger!Init
<1>2. Inductive /\ [Next]_vars => [Ledger!Next]_Ledger!ledger
  <2>1. SUFFICES ASSUME Inductive, [Next]_vars PROVE [Ledger!Next]_Ledger!ledger
    OBVIOUS
  <2>2. CASE UNCHANGED vars
    BY <2>2 DEF vars, Ledger!ledger, Book
  <2>3. ASSUME NEW r \in Requests, Begin(r) \/ Step(r) \/ Lose(r)
        PROVE  Ledger!Next \/ UNCHANGED Ledger!ledger
    <3>1. CASE Commit(r)
      BY <2>1, <3>1, CommitRecords DEF Ledger!Next
    <3>2. CASE ~Commit(r)
      BY <2>1, <2>3, <3>2, OthersShowNothing DEF Inductive
    <3> QED
      BY <3>1, <3>2
  <2> QED
    BY <2>1, <2>2, <2>3 DEF Next, Quiet
<1> QED
  BY <1>1, <1>2, AlwaysInductive, PTL DEF Spec, ImplementsLedger, Ledger!Spec

===============================================================================
