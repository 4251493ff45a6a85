----------------------------- MODULE SQLiteSafety -----------------------------
(***************************************************************************)
(* What the callers of the SQLite ledger may rely on, proved for every set *)
(* of processes and calls from the invariant and the refinement of         *)
(* SQLiteProofs: all that LedgerProofs proves of the atomic ledger holds   *)
(* of the committed tables, an answer that reports success is durable, one *)
(* caller at most is the first to use a token, a retry is never refused,   *)
(* and counts never sees more account versions than receipts.              *)
(***************************************************************************)
EXTENDS SQLiteProofs, FiniteSetTheorems, SequenceTheorems

USE DEF NoCall

\* A step that c takes or suffers.
Acts(c) ==
    Start(c) \/ (\E q \in Requests : Call(c, q)) \/ Step(c) \/ Crash(c)

LEMMA SomeoneActs == Next => \E c \in Clients : Acts(c)
BY DEF Next, Acts

\* Every client has a tally.
Readers == DOMAIN tally = Clients

\* A step of c leaves the calls of the others as they are, their reads too.
LEMMA ActsAlone ==
  ASSUME IInv, Readers, NEW c \in Clients, Acts(c)
  PROVE  /\ Readers'
         /\ \A d \in Clients \ {c} :
               /\ pc'[d] = pc[d] /\ request'[d] = request[d]
               /\ answer'[d] = answer[d] /\ tally'[d] = tally[d]
               /\ d \in shared' <=> d \in shared
<1>1. /\ DOMAIN pc = Clients /\ DOMAIN request = Clients
      /\ DOMAIN answer = Clients
  BY DEF IInv, TypeOK
<1>2. QED
  BY <1>1 DEF Readers, Acts, Start, Call, Crash, Step, Constructor, PassTable, StartCreate,
     FinishCreate, OpenTimesOut, Open, Transaction, Begin,
     BeginTimesOut, ObjectStatement, SelectPrior, SelectExactVersion,
     InsertAccount, InsertReceipt, TokenStatement, Refuse, StartCommit, Commit,
     CommitTimesOut, RegisterToken, RegisterTimesOut, StartSelect, EndSelect,
     SelectTimesOut, Return, Goto, Rollback, Finish, Reset

LEMMA ReadersAlways == Spec => []Readers
<1>1. Init => Readers
  BY DEF Init, Readers
<1>2. IInv /\ Readers /\ [Next]_vars => Readers'
  BY SomeoneActs, ActsAlone DEF vars, Readers
<1>3. QED
  BY <1>1, <1>2, Inductive, PTL DEF Spec

\* How a call comes to its answer.
LEMMA AnswersComeFrom ==
  ASSUME IInv, NEW c \in Clients, Acts(c), pc'[c] = "done"
  PROVE  \/ Commit(c) /\ answer'[c] = answer[c]
         \/ RegisterToken(c) /\ answer'[c] = "ok"
         \/ EndSelect(c) /\ answer'[c] = Report(request[c], tally[c])
         \/ Refuse(c) /\ answer'[c] = "LedgerError"
         \/ pc[c] = "idle" /\ answer'[c] = "LedgerError"
         \/ answer'[c] = "OperationalError"
<1>1. /\ pc \in [Clients -> NoCall \cup {"begin", "register_token", "done"}
                               \cup InTransaction \cup DOMAIN Selects]
      /\ DOMAIN answer = Clients
  BY DEF IInv, TypeOK
<1>2. CASE \E q \in Requests : Call(c, q)
  <2>1. PICK q \in Requests : Call(c, q)
    BY <1>2
  <2>2. q.kind \in Transactions \/ q.kind \in DOMAIN Selects \cup {"register_token"}
    BY RequestFields
  <2>3. q.kind # "done"
    BY <2>2 DEF Selects, Transactions, Entry
  <2>4. QED
    BY <1>1, <2>1, <2>3 DEF Call
<1>3. CASE Begin(c)
  <2>1. request[c].kind \in Transactions
    BY <1>3 DEF Begin, IInv, Progress
  <2>2. QED
    BY <1>1, <1>3, <2>1 DEF Begin, Entry, Transactions
<1>4. CASE Step(c) /\ ~Begin(c)
  BY <1>1, <1>4
     DEF Step, Constructor, PassTable, StartCreate, FinishCreate, OpenTimesOut,
     Open, Transaction,
     BeginTimesOut, ObjectStatement, SelectPrior, SelectExactVersion,
     InsertAccount, InsertReceipt, TokenStatement, Refuse, StartCommit, Commit,
     CommitTimesOut, RegisterToken, RegisterTimesOut, StartSelect, EndSelect,
     SelectTimesOut, Return, Goto, Rollback, Finish, Reset, Selects
<1>5. CASE Start(c) \/ Crash(c)
  BY <1>1, <1>5 DEF Start, Crash, Reset
<1>6. QED
  BY <1>2, <1>3, <1>4, <1>5 DEF Acts

-------------------------------------------------------------------------------
(***************************************************************************)
(* What LedgerProofs proves of the atomic ledger holds of the database: an *)
(* instance of the proofs on the committed tables, and the refinement.     *)
(***************************************************************************)
Serial == INSTANCE LedgerProofs WITH
    objects <- objects, accounts <- accounts,
    receipts <- receipts, tokens <- tokens

\* The two instances of the ledger make the same row checks ...
LEMMA SameSerialChecks ==
  /\ \A h, r : Serial!ValidOpening(h, r) <=> Abstract!ValidOpening(h, r)
  /\ \A h, r : Serial!ValidVersionOpening(h, r)
                 <=> Abstract!ValidVersionOpening(h, r)
  /\ \A h : Serial!ValidHeader(h) <=> Abstract!ValidHeader(h)
  /\ \A r : Serial!ValidReceipt(r) <=> Abstract!ValidReceipt(r)
  /\ \A h, A : Serial!AccountAdmissible(h, A) <=> Abstract!AccountAdmissible(h, A)
  /\ \A h, A : Serial!PriorPresent(h, A) <=> Abstract!PriorPresent(h, A)
  /\ \A r, R : Serial!ReceiptAdmissible(r, R) <=> Abstract!ReceiptAdmissible(r, R)
  /\ \A s, d : Serial!TokenAdmissible(s, d) <=> Abstract!TokenAdmissible(s, d)
<1> USE DEF Serial!ValidHeader, Abstract!ValidHeader, Serial!AccountIdentity,
            Abstract!AccountIdentity, Serial!OpeningOperations,
            Abstract!OpeningOperations
<1>1. \A h : Serial!ValidHeader(h) <=> Abstract!ValidHeader(h)
  OBVIOUS
<1>2. \A r : Serial!ValidReceipt(r) <=> Abstract!ValidReceipt(r)
  BY DEF Serial!ValidReceipt, Abstract!ValidReceipt,
         Serial!ValidPayload, Abstract!ValidPayload,
         Serial!ValidResidual, Abstract!ValidResidual,
         Serial!ResultingStatus, Abstract!ResultingStatus,
         Serial!Distinct, Abstract!Distinct
<1>3. \A h, r : Serial!ValidOpening(h, r) <=> Abstract!ValidOpening(h, r)
  BY <1>2 DEF Serial!ValidOpening, Abstract!ValidOpening, Serial!Cited, Abstract!Cited
<1>4. \A h, r : Serial!ValidVersionOpening(h, r)
                 <=> Abstract!ValidVersionOpening(h, r)
  BY <1>2 DEF Serial!ValidVersionOpening, Abstract!ValidVersionOpening
<1>5. \A h, A :
         /\ Serial!AccountAdmissible(h, A) <=> Abstract!AccountAdmissible(h, A)
         /\ Serial!PriorPresent(h, A) <=> Abstract!PriorPresent(h, A)
  BY DEF Serial!AccountAdmissible, Abstract!AccountAdmissible,
         Serial!PriorPresent, Abstract!PriorPresent, Serial!KeyOf, Abstract!KeyOf
<1>6. \A r, R : Serial!ReceiptAdmissible(r, R) <=> Abstract!ReceiptAdmissible(r, R)
  BY DEF Serial!ReceiptAdmissible, Abstract!ReceiptAdmissible,
         Serial!IsNextOrder, Abstract!IsNextOrder
<1>7. \A s, d : Serial!TokenAdmissible(s, d) <=> Abstract!TokenAdmissible(s, d)
  BY DEF Serial!TokenAdmissible, Abstract!TokenAdmissible
<1>8. QED
  BY <1>1, <1>2, <1>3, <1>4, <1>5, <1>6, <1>7

\* ... hence take the same steps ...
LEMMA SameSerialStep == Abstract!Next => Serial!Next
BY SameSerialChecks
   DEF Abstract!Next, Serial!Next, Abstract!PutObject, Serial!PutObject,
       Abstract!CommitOpening, Serial!CommitOpening,
       Abstract!CommitVersion, Serial!CommitVersion,
       Abstract!AppendReceipt, Serial!AppendReceipt,
       Abstract!RegisterToken, Serial!RegisterToken,
       Abstract!ConsumeToken, Serial!ConsumeToken

\* ... and the database takes them too.
LEMMA SerialLedger == Spec => Serial!Spec
<1>1. Init => Serial!Init
  BY DEF Init, Abstract!Init, Serial!Init
<1>2. IInv /\ [Next]_vars => [Serial!Next]_(Serial!vars)
  BY SameSerialStep, StepRefines DEF Serial!vars, Abstract!vars
<1>3. QED
  BY <1>1, <1>2, Inductive, PTL DEF Spec, Serial!Spec

\* With competing processes, timeouts and kills the committed accounts never
\* fork, receipts stay serial, every account has the cut it was opened by and
\* every version its transition, and verify() would report no row
\* (store.py:97-296).
THEOREM RowsOfTheLedger ==
  Spec => /\ []Serial!VersionChain
          /\ []Serial!OrdersContiguous
          /\ []Serial!OpenedByItsCut
          /\ []Serial!VersionsHaveTransitions
          /\ []Serial!VerifyFindsNothing
          /\ []Serial!HistoriesComplete
<1>1. Serial!Spec => /\ []Serial!VersionChain
                     /\ []Serial!OrdersContiguous
                     /\ []Serial!OpenedByItsCut
                     /\ []Serial!VersionsHaveTransitions
                     /\ []Serial!VerifyFindsNothing
                     /\ []Serial!HistoriesComplete
  BY HeaderFields, ReceiptFields, TokenStates, Serial!VersionChainAlways,
     Serial!OrdersContiguousAlways, Serial!OpenedByItsCutAlways,
     Serial!VersionsHaveTransitionsAlways, Serial!VerifyFindsNothingAlways,
     Serial!HistoriesCompleteAlways
<1>2. QED
  BY <1>1, SerialLedger

\* Nor does any step of any process rewrite or remove a committed header or
\* receipt, put a receipt anywhere but last in its account, or give a consumed
\* token to another decision (store.py:135-194, 294-331).
THEOREM RowsAreFinal == Spec => Serial!AppendOnly /\ Serial!TokenUsedOnce
<1>1. Serial!Spec => Serial!AppendOnly /\ Serial!TokenUsedOnce
  BY HeaderFields, ReceiptFields, TokenStates,
     Serial!AppendOnlyAlways, Serial!TokenUsedOnceAlways
<1>2. QED
  BY <1>1, SerialLedger

-------------------------------------------------------------------------------
(***************************************************************************)
(* Durability.                                                             *)
(***************************************************************************)
\* No operation of the ledger takes back what it committed.
LEMMA LedgerGrows ==
  ASSUME TypeOK, [Abstract!Next]_(Abstract!vars)
  PROVE  /\ objects \subseteq objects' /\ accounts \subseteq accounts'
         /\ receipts \subseteq receipts'
         /\ \A t \in Tokens :
               /\ tokens[t] # Unregistered => tokens'[t] # Unregistered
               /\ tokens[t] \in Decisions => tokens'[t] = tokens[t]
<1> SUFFICES ASSUME Abstract!Next PROVE
         /\ objects \subseteq objects' /\ accounts \subseteq accounts'
         /\ receipts \subseteq receipts'
         /\ \A t \in Tokens :
               /\ tokens[t] # Unregistered => tokens'[t] # Unregistered
               /\ tokens[t] \in Decisions => tokens'[t] = tokens[t]
  BY DEF Abstract!vars
<1>1. ASSUME NEW t \in Tokens, Abstract!RegisterToken(t)
      PROVE  \A u \in Tokens :
                /\ tokens[u] # Unregistered => tokens'[u] = tokens[u]
  BY <1>1 DEF Abstract!RegisterToken, TypeOK, Abstract!TypeOK
<1>2. ASSUME NEW t \in Tokens, NEW d \in Decisions, Abstract!ConsumeToken(t, d)
      PROVE  \A u \in Tokens :
                /\ tokens[u] # Unregistered => tokens'[u] # Unregistered
                /\ tokens[u] \in Decisions => tokens'[u] = tokens[u]
  BY <1>2, TokenStates DEF Abstract!ConsumeToken, Abstract!TokenAdmissible,
                           TypeOK, Abstract!TypeOK
<1>3. QED
  BY <1>1, <1>2, TokenStates
     DEF Abstract!Next, Abstract!PutObject, Abstract!CommitOpening,
         Abstract!CommitVersion, Abstract!AppendReceipt,
         Abstract!RegisterToken, Abstract!ConsumeToken

LEMMA AppliedStays ==
  ASSUME TypeOK, [Abstract!Next]_(Abstract!vars), NEW q \in Requests, Applied(q)
  PROVE  Applied(q)'
<1>1. q.kind = "consume_token" => q.decision \in Decisions /\ q.token \in Tokens
  BY RequestFields
<1>2. q.kind = "register_token" => q.token \in Tokens
  BY RequestFields
<1>3. QED
  BY <1>1, <1>2, LedgerGrows DEF Applied

\* A get_object that has found its row: the row is still there at its end.
Looked(c) ==
    /\ pc[c] \in NoCall => tally[c] = <<>> /\ c \notin shared
    /\ pc[c] = "get_object" =>
          IF c \in shared
          THEN /\ tally[c] \in {<<0>>, <<1>>}
               /\ tally[c] = <<1>> => request[c].object \in objects
          ELSE tally[c] = <<>>

Durable(c) ==
    pc[c] = "done" /\ answer[c] \in Succeeded => Applied(request[c])

DurableInv == \A c \in Clients : Looked(c) /\ Durable(c)

\* The lookup of c itself.
LEMMA LookupStep ==
  ASSUME IInv, Readers, DurableInv, NEW c \in Clients, Acts(c),
         [Abstract!Next]_(Abstract!vars)
  PROVE  Looked(c)'
<1>1. /\ pc \in [Clients -> NoCall \cup {"begin", "register_token", "done"}
                               \cup InTransaction \cup DOMAIN Selects]
      /\ DOMAIN tally = Clients /\ DOMAIN request = Clients
      /\ Looked(c) /\ objects \subseteq objects'
  BY LedgerGrows DEF Readers, DurableInv, IInv, TypeOK
<1>2. CASE \E q \in Requests : Call(c, q)
  BY <1>1, <1>2 DEF Call, Looked
<1>3. CASE Crash(c) \/ Return(c)
  BY <1>1, <1>3 DEF Crash, Return, Reset, Looked
<1>4. CASE Start(c) \/ Constructor(c)
  BY <1>1, <1>4 DEF Start, Constructor, PassTable, StartCreate, FinishCreate,
                    OpenTimesOut, Open, Looked, tables
<1>5. CASE StartSelect(c)
  <2>1. /\ pc' = pc /\ request' = request /\ objects' = objects
        /\ pc[c] \in DOMAIN Selects /\ c \notin shared /\ c \in shared'
        /\ tally'[c] = Append(tally[c], Found(request[c], Len(tally[c]) + 1))
    BY <1>1, <1>5 DEF StartSelect, tables
  <2>2. CASE pc[c] = "get_object"
    <3>1. tally[c] = <<>> /\ request[c].kind = "get_object"
      BY <1>1, <2>1, <2>2 DEF Looked, IInv, Progress
    <3>2. Found(request[c], 1) = IF request[c].object \in objects THEN 1 ELSE 0
      BY <3>1 DEF Found
    <3>3. Len(tally[c]) + 1 = 1
      BY <3>1
    <3>4. \/ tally'[c] = <<1>> /\ request[c].object \in objects
          \/ tally'[c] = <<0>>
      BY <2>1, <3>1, <3>2, <3>3
    <3>5. <<0>> # <<1>>
      OBVIOUS
    <3>6. QED
      BY <2>1, <2>2, <3>4, <3>5 DEF Looked
  <2>3. QED
    BY <2>1, <2>2 DEF Looked, Selects
<1>6. CASE EndSelect(c)
  <2>1. pc[c] = "get_object" => ~(Len(tally[c]) < Selects[pc[c]])
    BY <1>1, <1>6 DEF EndSelect, Looked, Selects
  <2>2. QED
    BY <1>1, <1>6, <2>1 DEF EndSelect, Finish, Looked, Selects, tables
<1>7. CASE Begin(c)
  <2>1. request[c].kind \in Transactions
    BY <1>7 DEF Begin, IInv, Progress
  <2>2. QED
    BY <1>1, <1>7, <2>1 DEF Begin, Entry, Transactions, Looked
<1>8. CASE Step(c) /\ pc'[c] \notin NoCall \cup {"get_object"}
  BY <1>8 DEF Looked
<1>9. QED
  BY <1>1, <1>2, <1>3, <1>4, <1>5, <1>6, <1>7, <1>8
     DEF Acts, Step, Transaction,
     BeginTimesOut, ObjectStatement, SelectPrior, SelectExactVersion,
     InsertAccount, InsertReceipt, TokenStatement, Refuse, StartCommit, Commit,
     CommitTimesOut, RegisterToken, RegisterTimesOut,
     SelectTimesOut, Goto, Rollback, Finish

\* A call that ends with success has its effect in the committed tables.
LEMMA SuccessIsApplied ==
  ASSUME IInv, DurableInv, NEW c \in Clients, Acts(c),
         pc'[c] = "done", answer'[c] \in Succeeded
  PROVE  Applied(request[c])' /\ request'[c] = request[c]
<1> DEFINE q == request[c]
<1>1. CASE Commit(c)
  <2>1. /\ q \in Requests /\ q.kind \in Transactions /\ request' = request
    BY <1>1, InsideFacts DEF Commit, Finish, InTransaction
  <2>2. CASE q.kind = "put_object"
    BY <2>1, <2>2, <1>1, CommitIsOneOperation DEF Abstract!PutObject, Applied, Bundles
  <2>3. CASE q.kind \in Bundles
    BY <2>1, <2>3, <1>1, CommitIsOneOperation
       DEF Abstract!CommitOpening, Abstract!CommitVersion,
           Abstract!AppendReceipt, Applied, Bundles
  <2>4. CASE q.kind = "consume_token"
    BY <2>1, <2>4, <1>1, CommitIsOneOperation, RequestFields
       DEF Abstract!ConsumeToken, Applied, Bundles, IInv, TypeOK, Abstract!TypeOK
  <2>5. QED
    BY <2>1, <2>2, <2>3, <2>4 DEF Transactions, Entry, Bundles
<1>2. CASE RegisterToken(c)
  BY <1>2, RequestFields, TokenStates
     DEF RegisterToken, Finish, Applied, Bundles, IInv, Progress, TypeOK,
         Abstract!TypeOK
<1>3. CASE EndSelect(c) /\ answer'[c] = Report(q, tally[c])
  <2>1. /\ q \in Requests /\ q.kind = pc[c] /\ pc[c] \in DOMAIN Selects
        /\ c \in shared /\ UNCHANGED <<tables, request>>
    BY <1>3 DEF EndSelect, Finish, IInv, Progress
  <2>2. CASE q.kind = "get_object"
    <3>1. /\ tally[c] \in {<<0>>, <<1>>}
          /\ tally[c] = <<1>> => q.object \in objects
      BY <2>1, <2>2 DEF DurableInv, Looked
    <3>2. tally[c][1] = 1 <=> tally[c] = <<1>>
      BY <3>1
    <3>3. QED
      BY <1>3, <2>1, <2>2, <3>1, <3>2
         DEF Report, Succeeded, Applied, Bundles, tables
  <2>3. CASE q.kind \in {"counts", "verify"}
    BY <2>1, <2>3 DEF Applied, Bundles
  <2>4. QED
    BY <2>1, <2>2, <2>3 DEF Selects
<1>4. QED
  BY <1>1, <1>2, <1>3, AnswersComeFrom DEF Succeeded

\* Success, once committed, is never taken back (store.py:97-331).
THEOREM SuccessIsDurableAlways == Spec => []SuccessIsDurable
<1>1. Init => DurableInv
  BY DEF Init, DurableInv, Looked, Durable
<1>2. IInv /\ Readers /\ DurableInv /\ [Next]_vars => DurableInv'
  <2> SUFFICES ASSUME IInv, Readers, DurableInv, [Next]_vars PROVE DurableInv'
    OBVIOUS
  <2>1. [Abstract!Next]_(Abstract!vars) /\ TypeOK
    BY StepRefines DEF IInv
  <2>2. ASSUME NEW c \in Clients, Acts(c) PROVE DurableInv'
    <3>1. ASSUME NEW d \in Clients \ {c} PROVE Looked(d)' /\ Durable(d)'
      <4>1. /\ Looked(d) /\ Durable(d)
            /\ pc'[d] = pc[d] /\ request'[d] = request[d]
            /\ answer'[d] = answer[d] /\ tally'[d] = tally[d]
            /\ d \in shared' <=> d \in shared
        BY <2>2, ActsAlone DEF DurableInv
      <4>2. objects \subseteq objects'
        BY <2>1, LedgerGrows
      <4>3. Looked(d)'
        BY <4>1, <4>2 DEF Looked
      <4>4. pc[d] = "done" => request[d] \in Requests
        BY DEF IInv, TypeOK
      <4>5. Durable(d)'
        BY <2>1, <4>1, <4>4, AppliedStays DEF Durable, Applied
      <4>6. QED
        BY <4>3, <4>5
    <3>2. Looked(c)'
      BY <2>1, <2>2, LookupStep
    <3>3. Durable(c)'
      BY <2>2, SuccessIsApplied DEF Durable, Applied
    <3>4. QED
      BY <3>1, <3>2, <3>3 DEF DurableInv
  <2>3. CASE UNCHANGED vars
    BY <2>3 DEF vars, tables, DurableInv, Looked, Durable, Applied
  <2>4. QED
    BY <2>2, <2>3, SomeoneActs
<1>3. DurableInv => SuccessIsDurable
  BY DEF DurableInv, Durable, SuccessIsDurable
<1>4. QED
  BY <1>1, <1>2, <1>3, Inductive, ReadersAlways, PTL DEF Spec

-------------------------------------------------------------------------------
(***************************************************************************)
(* One first use.  A call that is about to return True (Claiming) and a    *)
(* call that has returned True exclude each other and themselves, since    *)
(* both mean that the token is consumed and only the COMMIT that consumes  *)
(* it makes a claim.                                                       *)
(***************************************************************************)
Claiming(c) == pc[c] = "done" /\ answer[c] = "first_use"

UseInv ==
    /\ \A t \in Tokens :
          /\ firstUses[t] <= 1
          /\ tokens[t] \notin Decisions => firstUses[t] = 0
    /\ \A c \in Clients : Claiming(c) =>
          /\ request[c].token \in Tokens
          /\ tokens[request[c].token] \in Decisions
          /\ firstUses[request[c].token] = 0
    /\ \A c, d \in Clients :
          Claiming(c) /\ Claiming(d) /\ request[c].token = request[d].token
             => c = d

\* A new claim is made by the COMMIT that consumes an unused token.
LEMMA ClaimIsFirst ==
  ASSUME IInv, NEW c \in Clients, Acts(c), Claiming(c)'
  PROVE  LET t == request[c].token
         IN  /\ Commit(c) /\ request'[c] = request[c] /\ firstUses' = firstUses
             /\ t \in Tokens /\ tokens[t] = Unused /\ tokens'[t] \in Decisions
<1> DEFINE q == request[c]
<1>1. Commit(c) /\ answer[c] = "first_use"
  <2>1. pc[c] \in DOMAIN Selects /\ request[c].kind = pc[c] =>
           Report(request[c], tally[c]) # "first_use"
    BY DEF Report, Selects
  <2>2. EndSelect(c) => pc[c] \in DOMAIN Selects /\ request[c].kind = pc[c]
    BY DEF EndSelect, IInv, Progress
  <2>3. QED
    BY <2>1, <2>2, AnswersComeFrom DEF Claiming
<1>2. /\ q \in Requests /\ q.kind \in Transactions /\ Completed(c)
      /\ request' = request /\ firstUses' = firstUses
  BY <1>1, InsideFacts DEF Commit, Finish, InTransaction, Progress
<1>3. q.kind = "consume_token" /\ tokens[q.token] = Unused
  BY <1>1, <1>2 DEF Completed, Transactions, Entry
<1>4. Abstract!ConsumeToken(q.token, q.decision)
  BY <1>1, <1>3, CommitIsOneOperation
<1>5. QED
  BY <1>1, <1>2, <1>3, <1>4, RequestFields
     DEF Abstract!ConsumeToken, IInv, TypeOK, Abstract!TypeOK

\* Only Return counts a first use.
LEMMA OthersCountNothing ==
  ASSUME NEW c \in Clients, Acts(c), ~Return(c)
  PROVE  firstUses' = firstUses
BY DEF Acts, Start, Call, Crash, Step, Constructor, PassTable, StartCreate,
     FinishCreate, OpenTimesOut, Open, Transaction, Begin,
   BeginTimesOut, ObjectStatement, SelectPrior, SelectExactVersion,
   InsertAccount, InsertReceipt, TokenStatement, Refuse, StartCommit, Commit,
   CommitTimesOut, RegisterToken, RegisterTimesOut, StartSelect, EndSelect,
   SelectTimesOut, Goto, Rollback, Finish, Reset

LEMMA UseStep ==
  ASSUME IInv, Readers, UseInv, NEW c \in Clients, Acts(c),
         [Abstract!Next]_(Abstract!vars)
  PROVE  UseInv'
<1>1. /\ \A t \in Tokens : tokens[t] \in Decisions => tokens'[t] = tokens[t]
      /\ \A d \in Clients \ {c} :
            /\ pc'[d] = pc[d] /\ request'[d] = request[d]
            /\ answer'[d] = answer[d]
      /\ firstUses \in [Tokens -> Nat]
  BY LedgerGrows, ActsAlone DEF IInv, TypeOK
<1>2. \A d \in Clients \ {c} : Claiming(d)' => Claiming(d)
  BY <1>1 DEF Claiming
<1>3. CASE Return(c)
  <2>1. tokens' = tokens /\ pc'[c] = "idle"
    BY <1>3 DEF Return, Reset, tables, IInv, TypeOK
  <2>2. ~Claiming(c)'
    BY <2>1 DEF Claiming
  <2>3. CASE Claiming(c)
    <3> DEFINE u == request[c].token
    <3>1. firstUses' = [firstUses EXCEPT ![u] = @ + 1] /\ u \in Tokens
      BY <1>3, <2>3 DEF Return, Claiming, UseInv
    <3>2. \A t \in Tokens : firstUses'[t] = IF t = u THEN 1 ELSE firstUses[t]
      BY <1>1, <2>3, <3>1 DEF UseInv
    <3>3. \A d \in Clients \ {c} : Claiming(d) => request[d].token # u
      BY <2>3 DEF UseInv
    <3>4. \A t \in Tokens :
             /\ firstUses'[t] <= 1
             /\ tokens'[t] \notin Decisions => firstUses'[t] = 0
      BY <2>1, <2>3, <3>2 DEF UseInv
    <3>5. \A d \in Clients : Claiming(d)' =>
             /\ request'[d].token \in Tokens
             /\ tokens'[request'[d].token] \in Decisions
             /\ firstUses'[request'[d].token] = 0
      BY <1>1, <1>2, <2>1, <2>2, <3>2, <3>3 DEF UseInv
    <3>6. QED
      BY <1>1, <1>2, <2>2, <3>4, <3>5 DEF UseInv
  <2>4. CASE ~Claiming(c)
    <3>1. firstUses' = firstUses
      BY <1>3, <2>4 DEF Return, Claiming
    <3>2. QED
      BY <1>1, <1>2, <2>1, <2>2, <3>1 DEF UseInv
  <2>5. QED
    BY <2>3, <2>4
<1>4. CASE ~Return(c)
  <2>1. firstUses' = firstUses
    BY <1>4, OthersCountNothing
  <2>2. \A t \in Tokens :
           /\ firstUses'[t] <= 1
           /\ tokens'[t] \notin Decisions => firstUses'[t] = 0
    BY <1>1, <2>1 DEF UseInv
  <2>3. \A d \in Clients \ {c} : Claiming(d)' =>
           /\ request'[d].token \in Tokens
           /\ tokens[request'[d].token] \in Decisions
           /\ tokens'[request'[d].token] \in Decisions
           /\ firstUses'[request'[d].token] = 0
    BY <1>1, <1>2, <2>1 DEF UseInv
  <2>4. Claiming(c)' =>
           /\ request'[c].token \in Tokens
           /\ tokens[request'[c].token] = Unused
           /\ tokens'[request'[c].token] \in Decisions
           /\ firstUses'[request'[c].token] = 0
    BY <2>1, ClaimIsFirst, TokenStates DEF UseInv
  <2>5. QED
    BY <1>1, <1>2, <2>2, <2>3, <2>4, TokenStates DEF UseInv
<1>5. QED
  BY <1>3, <1>4

\* consume_token returns True once per token (store.py:298-331).
THEOREM OneFirstUseAlways == Spec => []OneFirstUse
<1>1. Init => UseInv
  BY TokenStates DEF Init, UseInv, Claiming
<1>2. IInv /\ Readers /\ UseInv /\ [Next]_vars => UseInv'
  <2> SUFFICES ASSUME IInv, Readers, UseInv, [Next]_vars PROVE UseInv'
    OBVIOUS
  <2>1. [Abstract!Next]_(Abstract!vars)
    BY StepRefines
  <2>2. ASSUME NEW c \in Clients, Acts(c) PROVE UseInv'
    BY <2>1, <2>2, UseStep
  <2>3. CASE UNCHANGED vars
    BY <2>3 DEF vars, tables, UseInv, Claiming
  <2>4. QED
    BY <2>2, <2>3, SomeoneActs
<1>3. UseInv => OneFirstUse
  BY DEF UseInv, OneFirstUse
<1>4. QED
  BY <1>1, <1>2, <1>3, Inductive, ReadersAlways, PTL DEF Spec

-------------------------------------------------------------------------------
(***************************************************************************)
(* Replays.                                                                *)
(***************************************************************************)
\* What the validators of the operations and the keys of the rows say.
Rows ==
    /\ \A g, h \in accounts : KeyOf(g) = KeyOf(h) => g = h
    /\ \A h \in accounts : h.version >= 2 => PriorPresent(h, accounts)
    /\ \A r \in receipts : r.account # PackageNA

LEMMA RowsAlways == Spec => []Rows
<1>1. Serial!VersionChain /\ Serial!VerifyFindsNothing => Rows
  <2>1. \A h : Serial!KeyOf(h) = KeyOf(h)
    BY DEF Serial!KeyOf, KeyOf
  <2>2. \A h, A : Serial!PriorPresent(h, A) <=> PriorPresent(h, A)
    BY <2>1 DEF Serial!PriorPresent, PriorPresent
  <2>3. QED
    BY <2>1, <2>2 DEF Serial!VersionChain, Serial!VerifyFindsNothing, Rows
<1>2. QED
  BY <1>1, RowsOfTheLedger, PTL

\* What is refused is not in the tables.
LEMMA RefusedIsNotApplied ==
  ASSUME IInv, Rows, NEW c \in Clients, Refuse(c)
  PROVE  ~Applied(request[c])
<1> DEFINE q == request[c]
<1>1. /\ pc[c] \in {"prior", "present", "account", "receipt", "token"}
      /\ q \in Requests /\ q.kind \in Transactions /\ ValidRequest(q) /\ Progress(c)
  BY InsideFacts DEF Refuse, InTransaction
<1>2. CASE pc[c] = "prior"
  <2>1. q.kind = "commit_version" /\ ~PriorPresent(q.header, accounts)
    BY <1>1, <1>2 DEF Refuse, Progress, Database
  <2>2. q.header.version >= 2
    BY <1>1, <2>1 DEF ValidRequest, ValidVersionOpening, ValidHeader
  <2>3. QED
    BY <2>1, <2>2 DEF Rows, Applied, Bundles
<1>3. CASE pc[c] = "present"
  <2>1. q.kind = "append_receipt" /\ q.header \notin accounts
    BY <1>1, <1>3 DEF Refuse, Progress, Database
  <2>2. QED
    BY <2>1 DEF Applied, Bundles
<1>4. CASE pc[c] = "account"
  <2>1. q.kind \in Bundles /\ ~AccountAdmissible(q.header, accounts)
    BY <1>1, <1>4 DEF Refuse, Progress, Database, Bundles
  <2>2. QED
    BY <2>1 DEF Rows, Applied, Bundles, AccountAdmissible
<1>5. CASE pc[c] = "receipt"
  <2>1. q.kind \in Bundles /\ tx[c].receipts = receipts
    BY <1>1, <1>5 DEF Progress, HeaderInserted, Database, Bundles
  <2>2. ~ReceiptAdmissible(q.receipt, receipts)
    BY <1>5, <2>1 DEF Refuse
  <2>3. QED
    BY <2>1, <2>2 DEF Rows, Applied, Bundles, ReceiptAdmissible
<1>6. CASE pc[c] = "token"
  <2>1. /\ q.kind = "consume_token"
        /\ ~TokenAdmissible(tokens[q.token], q.decision)
    BY <1>1, <1>6 DEF Refuse, Progress, Database
  <2>2. QED
    BY <2>1 DEF Applied, Bundles, TokenAdmissible
<1>7. QED
  BY <1>1, <1>2, <1>3, <1>4, <1>5, <1>6

\* A retry of what is committed, by whoever, is not refused (store.py:239-331).
THEOREM ReplayNeverRefusedAlways == Spec => ReplayNeverRefused
<1>1. IInv /\ Rows /\ Readers /\ [Next]_vars =>
        [\A c \in Clients :
           /\ pc'[c] = "done" /\ pc[c] # "done" /\ answer'[c] = "LedgerError"
           /\ pc[c] # "idle"
           => ~Applied(request[c])]_vars
  <2> SUFFICES ASSUME IInv, Rows, Readers, Next, NEW d \in Clients,
                      pc'[d] = "done", pc[d] # "done", pc[d] # "idle",
                      answer'[d] = "LedgerError"
               PROVE  ~Applied(request[d])
    OBVIOUS
  <2>1. PICK c \in Clients : Acts(c)
    BY SomeoneActs
  <2>2. d = c
    BY <2>1, ActsAlone
  <2>3. Refuse(d)
    <3>1. Commit(c) => answer[c] # "LedgerError"
      BY InsideFacts DEF Commit, Progress, Completed, InTransaction,
                         Transactions, Entry
    <3>2. EndSelect(c) => Report(request[c], tally[c]) # "LedgerError"
      BY DEF EndSelect, IInv, Progress, Report, Selects
    <3>3. QED
      BY <2>1, <2>2, <3>1, <3>2, AnswersComeFrom
  <2>4. QED
    BY <2>3, RefusedIsNotApplied
<1>2. QED
  BY <1>1, Inductive, RowsAlways, ReadersAlways, PTL
     DEF Spec, ReplayNeverRefused

-------------------------------------------------------------------------------
(***************************************************************************)
(* The tables.  A constructor passes over a table only when it is there,   *)
(* and no table goes away: what its script has done is in the file.        *)
(***************************************************************************)
ScriptDone(c) ==
    /\ pc[c] # "closed" => Created(script[c]) \subseteq schema
    /\ pc[c] \notin {"closed", "opening", "creating"} => script[c] = 4

ScriptInv == \A c \in Clients : ScriptDone(c)

\* The next statement of a script, executed.
LEMMA OneMoreTable ==
  ASSUME NEW n \in 0 .. 3
  PROVE  Created(n + 1) = Created(n) \cup {Script[n + 1]}
BY DEF Created

\* Only the constructor touches the tables and its own script.
LEMMA OthersCreateNothing ==
  ASSUME IInv, NEW c \in Clients, Acts(c), ~Start(c), ~Constructor(c)
  PROVE  /\ UNCHANGED <<schema, script>>
         /\ pc'[c] # "closed" => pc[c] \notin {"closed", "opening", "creating"}
BY DEF Acts, Call, Crash, Step, Transaction, Begin, BeginTimesOut,
   ObjectStatement, SelectPrior, SelectExactVersion, InsertAccount,
   InsertReceipt, TokenStatement, Refuse, StartCommit, Commit, CommitTimesOut,
   RegisterToken, RegisterTimesOut, StartSelect, EndSelect, SelectTimesOut,
   Return, Goto, Rollback, Finish, Reset, IInv, TypeOK, Selects

LEMMA ScriptStep ==
  ASSUME IInv, Readers, ScriptInv, NEW c \in Clients, Acts(c)
  PROVE  ScriptInv'
<1>1. /\ pc \in [Clients -> NoCall \cup {"begin", "register_token", "done"}
                               \cup InTransaction \cup DOMAIN Selects]
      /\ script \in [Clients -> 0 .. 4]
      /\ pc[c] = "creating" => script[c] \in 0 .. 3
      /\ ScriptDone(c)
  BY DEF IInv, TypeOK, Progress, ScriptInv
<1>2. CASE Start(c) \/ Constructor(c)
  <2> USE DEF Start, Constructor, PassTable, StartCreate, FinishCreate,
              OpenTimesOut, Open
  <2>1. /\ schema \subseteq schema'
        /\ \A d \in Clients \ {c} : script'[d] = script[d]
    BY <1>1, <1>2
  <2>2. ScriptDone(c)'
    <3>1. CASE PassTable(c) \/ FinishCreate(c)
      <4>1. /\ script[c] \in 0 .. 3 /\ script'[c] = script[c] + 1
            /\ pc'[c] = "opening"
            /\ Created(script[c]) \subseteq schema /\ NextTable(c) \in schema'
        BY <1>1, <3>1 DEF ScriptDone
      <4>2. Created(script[c] + 1) = Created(script[c]) \cup {NextTable(c)}
        BY <4>1, OneMoreTable DEF NextTable
      <4>3. QED
        BY <2>1, <4>1, <4>2 DEF ScriptDone, Created
    <3>2. CASE Start(c)
      BY <1>1, <3>2 DEF ScriptDone, Created
    <3>3. CASE StartCreate(c) \/ OpenTimesOut(c) \/ Open(c)
      BY <1>1, <3>3 DEF ScriptDone, Created
    <3>4. QED
      BY <1>2, <3>1, <3>2, <3>3
  <2>3. QED
    BY <2>1, <2>2, ActsAlone DEF ScriptInv, ScriptDone, Created
<1>3. CASE ~Start(c) /\ ~Constructor(c)
  <2>1. /\ UNCHANGED <<schema, script>>
        /\ pc'[c] # "closed" => pc[c] \notin {"closed", "opening", "creating"}
    BY <1>3, OthersCreateNothing
  <2>2. QED
    BY <2>1, ActsAlone DEF ScriptInv, ScriptDone, Created
<1>4. QED
  BY <1>2, <1>3

\* No call runs on a file that lacks a table, however many constructors run at
\* a time, give up waiting for a lock or are killed (store.py:36-74).
THEOREM SchemaCompleteAlways == Spec => []SchemaComplete
<1>1. Init => ScriptInv
  BY DEF Init, ScriptInv, ScriptDone
<1>2. IInv /\ Readers /\ ScriptInv /\ [Next]_vars => ScriptInv'
  <2> SUFFICES ASSUME IInv, Readers, ScriptInv, [Next]_vars PROVE ScriptInv'
    OBVIOUS
  <2>1. CASE UNCHANGED vars
    BY <2>1 DEF vars, ScriptInv, ScriptDone, Created
  <2>2. QED
    BY <2>1, SomeoneActs, ScriptStep
<1>3. IInv /\ ScriptInv => SchemaComplete
  BY DEF IInv, TypeOK, ScriptInv, ScriptDone, SchemaComplete
<1>4. QED
  BY <1>1, <1>2, <1>3, Inductive, ReadersAlways, PTL DEF Spec

-------------------------------------------------------------------------------
(***************************************************************************)
(* Counting.                                                               *)
(***************************************************************************)
Listed(found) == \E S : found \in Seq(S)

\* A counts() that has counted the accounts: they were no more than there are
\* receipts by now, and no more than the receipts it has counted since.
Counted(c) ==
    /\ pc[c] \in NoCall => tally[c] = <<>>
    /\ Listed(tally[c])
    /\ request[c].kind = "counts" =>
          /\ Len(tally[c]) >= 2 =>
                /\ tally[c][2] \in Nat
                /\ tally[c][2] <= Cardinality(receipts)
          /\ Len(tally[c]) >= 3 => tally[c][2] <= tally[c][3]

CountInv == \A c \in Clients : Counted(c)

\* Counting in that instance is counting here.
LEMMA SameCounting ==
  /\ \A S : Serial!IsFiniteSet(S) <=> IsFiniteSet(S)
  /\ \A S : Serial!Cardinality(S) = Cardinality(S)
BY DEF Serial!IsFiniteSet, IsFiniteSet, Serial!Cardinality, Cardinality

LEMMA AppendListed ==
  ASSUME NEW s, Listed(s), NEW x
  PROVE  /\ Listed(Append(s, x))
         /\ Len(s) \in Nat
         /\ Len(Append(s, x)) = Len(s) + 1
         /\ \A i \in 1 .. Len(s) : Append(s, x)[i] = s[i]
         /\ Append(s, x)[Len(s) + 1] = x
<1>1. PICK S : s \in Seq(S)
  BY DEF Listed
<1>2. s \in Seq(S \cup {x})
  BY <1>1
<1>3. QED
  BY <1>2, AppendProperties DEF Listed

\* The next SELECT of counts keeps the counts in proportion.
LEMMA SelectCounts ==
  ASSUME IInv, Readers, Serial!CountsOrdered, NEW c \in Clients, Counted(c),
         StartSelect(c)
  PROVE  Counted(c)'
<1> DEFINE n == Len(tally[c]) + 1
           x == Found(request[c], n)
<1>1. /\ pc' = pc /\ request' = request /\ receipts' = receipts
      /\ pc[c] = request[c].kind /\ pc[c] \in DOMAIN Selects
      /\ tally'[c] = Append(tally[c], x)
  BY DEF StartSelect, tables, Readers, IInv, Progress
<1>2. /\ Listed(tally[c]) /\ Listed(tally'[c])
      /\ Len(tally[c]) \in Nat /\ Len(tally'[c]) = n
      /\ \A i \in 1 .. Len(tally[c]) : tally'[c][i] = tally[c][i]
      /\ tally'[c][n] = x
  BY <1>1, AppendListed DEF Counted
<1>3. CASE pc[c] = "counts"
  <2>1. /\ Cardinality(accounts) \in Nat /\ Cardinality(receipts) \in Nat
        /\ Cardinality(accounts) <= Cardinality(receipts)
    BY SameCounting, FS_CardinalityType DEF Serial!CountsOrdered
  <2>2. /\ n = 2 => x = Cardinality(accounts)
        /\ n = 3 => x = Cardinality(receipts)
    BY <1>1, <1>3 DEF Found, CountedTables
  <2>3. CASE n = 1
    BY <1>1, <1>2, <1>3, <2>3 DEF Counted
  <2>4. CASE n = 2
    BY <1>1, <1>2, <1>3, <2>1, <2>2, <2>4 DEF Counted
  <2>5. CASE n = 3
    BY <1>1, <1>2, <1>3, <2>1, <2>2, <2>5 DEF Counted
  <2>6. CASE n > 3
    <3>1. Len(tally[c]) >= 3
      BY <1>2, <2>6
    <3>2. tally'[c][2] = tally[c][2] /\ tally'[c][3] = tally[c][3]
      BY <1>2, <3>1
    <3>3. QED
      BY <1>1, <1>2, <1>3, <3>1, <3>2 DEF Counted
  <2>7. QED
    BY <1>2, <2>3, <2>4, <2>5, <2>6
<1>4. QED
  BY <1>1, <1>2, <1>3 DEF Counted, Selects

\* No other step of a call adds to what it has read.
LEMMA OthersReadNothing ==
  ASSUME IInv, Readers, NEW c \in Clients, Acts(c), ~StartSelect(c)
  PROVE  \/ /\ tally' = tally /\ request' = request
            /\ pc'[c] \in NoCall => pc[c] \in NoCall
         \/ tally' = tally /\ pc[c] = "idle"
         \/ tally'[c] = <<>>
<1>1. /\ pc \in [Clients -> NoCall \cup {"begin", "register_token", "done"}
                               \cup InTransaction \cup DOMAIN Selects]
      /\ pc[c] = "begin" => request[c].kind \in Transactions
  BY DEF IInv, TypeOK, Progress
<1>2. pc[c] = "begin" => Entry[request[c].kind] \notin NoCall
  BY <1>1 DEF Entry, Transactions
<1>3. QED
  BY <1>1, <1>2 DEF Readers, Acts, Start, Call, Crash, Step, Constructor, PassTable, StartCreate,
     FinishCreate, OpenTimesOut, Open, Transaction,
     Begin, BeginTimesOut, ObjectStatement, SelectPrior, SelectExactVersion,
     InsertAccount, InsertReceipt, TokenStatement, Refuse, StartCommit, Commit,
     CommitTimesOut, RegisterToken, RegisterTimesOut, EndSelect,
     SelectTimesOut, Return, Goto, Rollback, Finish, Reset

LEMMA CountStep ==
  ASSUME IInv, Readers, Serial!CountsOrdered, Serial!CountsOrdered', CountInv,
         NEW c \in Clients, Acts(c), [Abstract!Next]_(Abstract!vars)
  PROVE  CountInv'
<1>1. Cardinality(receipts) \in Nat /\ Cardinality(receipts') \in Nat
      /\ Cardinality(receipts) <= Cardinality(receipts')
  BY SameCounting, LedgerGrows, FS_Subset, FS_CardinalityType
     DEF Serial!CountsOrdered, IInv
<1>2. \A d \in Clients \ {c} :
         pc'[d] = pc[d] /\ request'[d] = request[d] /\ tally'[d] = tally[d]
  BY ActsAlone
<1>3. \A d \in Clients \ {c} : Counted(d)'
  BY <1>1, <1>2 DEF CountInv, Counted
<1>4. Counted(c)'
  <2>1. CASE StartSelect(c)
    BY <2>1, SelectCounts DEF CountInv
  <2>2. CASE tally'[c] = <<>>
    <3>1. <<>> \in Seq({}) /\ Len(<<>>) = 0
      OBVIOUS
    <3>2. QED
      BY <2>2, <3>1 DEF Counted, Listed
  <2>3. CASE /\ tally' = tally /\ request' = request
             /\ pc'[c] \in NoCall => pc[c] \in NoCall
    BY <1>1, <2>3 DEF CountInv, Counted
  <2>4. CASE tally' = tally /\ pc[c] = "idle"
    BY <2>2, <2>4 DEF CountInv, Counted
  <2>5. QED
    BY <2>1, <2>2, <2>3, <2>4, OthersReadNothing
<1>5. QED
  BY <1>3, <1>4 DEF CountInv

\* counts never reports more account versions than receipts (store.py:333-340).
THEOREM CountsConsistentAlways == Spec => []CountsConsistent
<1>1. Spec => []Serial!CountsOrdered
  <2>1. Serial!Spec => []Serial!CountsOrdered
    BY HeaderFields, ReceiptFields, TokenStates, Serial!CountsOrderedAlways
  <2>2. QED
    BY <2>1, SerialLedger
<1>2. Init => CountInv
  <2>1. <<>> \in Seq({}) /\ Len(<<>>) = 0
    OBVIOUS
  <2>2. QED
    BY <2>1 DEF Init, CountInv, Counted, Listed
<1>3. IInv /\ Readers /\ Serial!CountsOrdered /\ Serial!CountsOrdered'
        /\ CountInv /\ [Next]_vars => CountInv'
  <2> SUFFICES ASSUME IInv, Readers, Serial!CountsOrdered,
                      Serial!CountsOrdered', CountInv, [Next]_vars
               PROVE  CountInv'
    OBVIOUS
  <2>1. CASE UNCHANGED vars
    BY <2>1 DEF vars, tables, CountInv, Counted
  <2>2. QED
    BY <2>1, SomeoneActs, CountStep, StepRefines
<1>4. CountInv => CountsConsistent
  BY DEF CountInv, Counted, CountsConsistent
<1>5. QED
  BY <1>1, <1>2, <1>3, <1>4, Inductive, ReadersAlways, PTL DEF Spec
===============================================================================
