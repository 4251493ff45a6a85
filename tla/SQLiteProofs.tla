------------------------------ MODULE SQLiteProofs ------------------------------
(***************************************************************************)
(* Proof that SQLiteLedger, statement by statement, implements the atomic  *)
(* ledger, for every set of processes and calls.                           *)
(*                                                                         *)
(* The refinement needs to know, when a COMMIT publishes a transaction,    *)
(* that its tables are the committed ones with the effect of one operation *)
(* and that the operation's checks hold in the committed tables *now*.     *)
(* The checks were made some statements ago; they still hold because only  *)
(* the holder of RESERVED changes a table.  Progress(c) says what the      *)
(* statements executed so far have established.                            *)
(***************************************************************************)
EXTENDS SQLiteLedger, TLAPS

USE DEF NoCall

\* RESERVED is held from BEGIN IMMEDIATE to the end of the transaction, and
\* while a constructor creates a table.
Locking ==
    \A c \in Clients : reserved = c <=> pc[c] \in InTransaction \cup {"creating"}

\* The transaction of c has inserted the header of its call, and nothing else.
HeaderInserted(c) ==
    /\ AccountAdmissible(request[c].header, accounts)
    /\ tx[c] = [Database EXCEPT !.accounts = @ \cup {request[c].header}]

\* The transaction of c has inserted the receipt of its call as well.
BundleInserted(c) ==
    /\ AccountAdmissible(request[c].header, accounts)
    /\ ReceiptAdmissible(request[c].receipt, receipts)
    /\ tx[c] = [Database EXCEPT !.accounts = @ \cup {request[c].header},
                                !.receipts = @ \cup {request[c].receipt}]

\* All statements of the call of c are executed: its effect is in tx[c].
Completed(c) ==
    LET q == request[c]
    IN  CASE q.kind = "put_object" ->
                /\ answer[c] = "ok"
                /\ tx[c] = [Database EXCEPT !.objects = @ \cup {q.object}]
          [] q.kind = "commit_opening" -> answer[c] = "ok" /\ BundleInserted(c)
          [] q.kind = "commit_version" ->
                answer[c] = "ok" /\ BundleInserted(c)
                    /\ PriorPresent(q.header, accounts)
          [] q.kind = "append_receipt" ->
                /\ answer[c] = "ok"
                /\ q.header \in accounts
                /\ ReceiptAdmissible(q.receipt, receipts)
                /\ tx[c] = [Database EXCEPT !.receipts = @ \cup {q.receipt}]
          [] q.kind = "consume_token" ->
                /\ TokenAdmissible(tokens[q.token], q.decision)
                /\ answer[c] = IF tokens[q.token] = Unused
                               THEN "first_use" ELSE "replayed"
                /\ tx[c] = [Database EXCEPT !.tokens[q.token] = q.decision]

\* What holds when c is about to execute the statement at its label.
Progress(c) ==
    LET q == request[c]
    IN  /\ pc[c] = "creating" => script[c] < 4
        /\ pc[c] \in InTransaction \cup {"begin"} =>
              q \in Requests /\ q.kind \in Transactions /\ ValidRequest(q)
        /\ pc[c] \in DOMAIN Selects \cup {"register_token"} =>
              q \in Requests /\ q.kind = pc[c]
        /\ pc[c] = "object" => q.kind = "put_object" /\ tx[c] = Database
        /\ pc[c] = "prior" => q.kind = "commit_version" /\ tx[c] = Database
        /\ pc[c] = "present" => q.kind = "append_receipt" /\ tx[c] = Database
        /\ pc[c] = "token" => q.kind = "consume_token" /\ tx[c] = Database
        /\ pc[c] = "account" =>
              /\ tx[c] = Database
              /\ \/ q.kind = "commit_opening"
                 \/ q.kind = "commit_version" /\ PriorPresent(q.header, accounts)
        /\ pc[c] = "receipt" =>
              \/ q.kind = "commit_opening" /\ HeaderInserted(c)
              \/ /\ q.kind = "commit_version" /\ HeaderInserted(c)
                 /\ PriorPresent(q.header, accounts)
              \/ /\ q.kind = "append_receipt" /\ q.header \in accounts
                 /\ tx[c] = Database
        /\ pc[c] \in {"commit", "pending"} => Completed(c)

IInv == TypeOK /\ Locking /\ \A c \in Clients : Progress(c)

-------------------------------------------------------------------------------
\* A step of c leaves the calls of the other processes as they are.
OthersKept(c) ==
    \A d \in Clients \ {c} :
        /\ pc'[d] = pc[d] /\ request'[d] = request[d]
        /\ tx'[d] = tx[d] /\ answer'[d] = answer[d]
        /\ script'[d] = script[d]

\* What c established about its own transaction is not disturbed by others:
\* a step changes a table only when no other process holds RESERVED.
LEMMA OthersProgress ==
  ASSUME IInv, NEW c \in Clients, OthersKept(c),
         UNCHANGED tables \/ reserved \in {None, c}
  PROVE  \A d \in Clients \ {c} : Progress(d)'
<1> SUFFICES ASSUME NEW d \in Clients, d # c PROVE Progress(d)'
  OBVIOUS
<1>1. /\ Progress(d)
      /\ pc'[d] = pc[d] /\ request'[d] = request[d]
      /\ tx'[d] = tx[d] /\ answer'[d] = answer[d]
      /\ script'[d] = script[d]
  BY DEF IInv, OthersKept
<1>2. CASE UNCHANGED tables
  BY <1>1, <1>2 DEF Progress, Completed, HeaderInserted, BundleInserted,
                    Database, tables
<1>3. CASE reserved \in {None, c}
  <2>1. pc[d] \notin InTransaction
    BY <1>3, NoneIsApart DEF IInv, Locking
  <2>2. QED
    BY <1>1, <2>1 DEF Progress, InTransaction
<1>4. QED
  BY <1>2, <1>3

\* Without a call, or with its answer, there is nothing to know.
LEMMA IdleProgress ==
  ASSUME NEW c \in Clients, pc'[c] \in {"closed", "opening", "idle", "done"}
  PROVE  Progress(c)'
BY DEF Progress, InTransaction, Selects

\* The invariant follows from these four facts about a step of c.
LEMMA StepInv ==
  ASSUME IInv, NEW c \in Clients, OthersKept(c),
         UNCHANGED tables \/ reserved \in {None, c},
         TypeOK', Locking', Progress(c)'
  PROVE  IInv'
BY OthersProgress DEF IInv

-------------------------------------------------------------------------------
(***************************************************************************)
(* The steps that open the ledger, start a call, read, or end something.   *)
(***************************************************************************)
LEMMA DatabaseView ==
  ASSUME TypeOK
  PROVE  Database \in Views
BY DEF TypeOK, Abstract!TypeOK, Database, Views

\* A constructor holds RESERVED while it creates a table, and changes no row.
LEMMA OpenInv ==
  ASSUME IInv, NEW c \in Clients, Start(c) \/ Constructor(c)
  PROVE  IInv'
<1> USE DEF Start, Constructor, PassTable, StartCreate, FinishCreate,
            OpenTimesOut, Open
<1>1. /\ OthersKept(c)
      /\ UNCHANGED <<tables, shared, request, answer, firstUses>>
      /\ pc[c] \in NoCall /\ pc'[c] \in NoCall
  BY DEF OthersKept, IInv, TypeOK, tables
<1>2. /\ reserved' = IF pc'[c] = "creating" THEN c
                     ELSE IF pc[c] = "creating" THEN None ELSE reserved
      /\ tx'[c] = IF pc'[c] = "creating" THEN Database
                  ELSE IF pc[c] = "creating" THEN None ELSE tx[c]
      /\ tx'[c] \in Views \cup {None}
      /\ reserved = c <=> pc[c] = "creating"
      /\ pc'[c] = "creating" => reserved = None
  <2>1. Database \in Views /\ Database # None /\ c # None
    BY DatabaseView, NoneIsApart DEF IInv
  <2>2. reserved = c <=> pc[c] = "creating"
    BY <1>1 DEF IInv, Locking, InTransaction
  <2>3. pc[c] # "creating" => tx[c] = None
    BY <2>2 DEF IInv, TypeOK
  <2>4. QED
    BY <2>1, <2>2, <2>3 DEF IInv, TypeOK
<1>3. /\ schema' \subseteq Created(4)
      /\ script' \in [Clients -> 0 .. 4]
      /\ pc'[c] = "creating" => script'[c] < 4
  <2>1. pc[c] = "creating" => script[c] \in 0 .. 3
    BY DEF IInv, TypeOK, Progress
  <2>2. script[c] \in 0 .. 3 => NextTable(c) \in Created(4)
    BY DEF NextTable, Created
  <2>3. CASE FinishCreate(c)
    BY <2>1, <2>2, <2>3 DEF IInv, TypeOK
  <2>4. CASE ~FinishCreate(c)
    BY <2>4 DEF IInv, TypeOK
  <2>5. QED
    BY <2>3, <2>4
<1>4. TypeOK'
  <2>1. Abstract!TypeOK'
    BY <1>1 DEF IInv, TypeOK, tables, Abstract!TypeOK
  <2>2. /\ pc' \in [Clients -> NoCall \cup {"begin", "register_token", "done"}
                               \cup InTransaction \cup DOMAIN Selects]
        /\ tx' \in [Clients -> Views \cup {None}]
    BY <1>2 DEF IInv, TypeOK
  <2>3. \A d \in Clients :
           /\ pc'[d] \in NoCall <=> request'[d] = None
           /\ tx'[d] # None <=> reserved' = d
           /\ pc'[d] = "done" => answer'[d] # None
    BY <1>1, <1>2, DatabaseView, NoneIsApart DEF IInv, TypeOK, OthersKept
  <2>4. QED
    BY <1>1, <1>2, <1>3, <2>1, <2>2, <2>3 DEF IInv, TypeOK
<1>5. Locking'
  BY <1>1, <1>2, NoneIsApart DEF IInv, Locking, OthersKept, InTransaction
<1>6. Progress(c)'
  BY <1>1, <1>3 DEF Progress, InTransaction, Selects
<1>7. QED
  BY <1>1, <1>4, <1>5, <1>6, StepInv

LEMMA CallInv ==
  ASSUME IInv, NEW c \in Clients, NEW q \in Requests, Call(c, q)
  PROVE  IInv'
<1>1. OthersKept(c) /\ UNCHANGED <<tables, reserved, tx>>
  BY DEF Call, OthersKept, IInv, TypeOK, tables
<1>2. /\ request'[c] = q
      /\ \/ /\ ValidRequest(q) /\ answer'[c] = answer[c]
            /\ pc'[c] = IF q.kind \in Transactions THEN "begin" ELSE q.kind
         \/ pc'[c] = "done" /\ answer'[c] = "LedgerError"
  BY DEF Call, IInv, TypeOK
<1>3. /\ pc'[c] \in {"begin", "register_token", "done"} \cup DOMAIN Selects
      /\ pc'[c] = "begin" => q.kind \in Transactions /\ ValidRequest(q)
      /\ pc'[c] \in DOMAIN Selects \cup {"register_token"} => q.kind = pc'[c]
      /\ pc'[c] = "done" => answer'[c] = "LedgerError"
      /\ pc'[c] \notin InTransaction \cup NoCall
  BY <1>2, RequestFields DEF Selects, InTransaction, Transactions, Entry
<1>4. TypeOK'
  <2>1. UNCHANGED <<tables, schema, script, reserved, shared, firstUses>>
    BY DEF Call, tables
  <2>2. Abstract!TypeOK'
    BY <2>1 DEF IInv, TypeOK, tables, Abstract!TypeOK
  <2>3. /\ pc' \in [Clients -> NoCall \cup {"begin", "register_token", "done"}
                               \cup InTransaction \cup DOMAIN Selects]
        /\ request' \in [Clients -> Requests \cup {None}]
        /\ answer' \in [Clients -> Answers \cup {None}]
    BY <1>2, <1>3 DEF Call, IInv, TypeOK, Answers
  <2>4. pc[c] = "idle"
    BY DEF Call
  <2>5. reserved # c /\ request'[c] # None
    BY <1>2, <2>4, NoneIsApart DEF IInv, Locking, InTransaction
  <2>6. \A d \in Clients :
           /\ pc'[d] \in NoCall <=> request'[d] = None
           /\ tx'[d] # None <=> reserved' = d
           /\ pc'[d] = "done" => answer'[d] # None
    BY <1>1, <1>2, <1>3, <2>1, <2>5, NoneIsApart
       DEF IInv, TypeOK, OthersKept, Answers
  <2>7. QED
    BY <1>1, <2>1, <2>2, <2>3, <2>6 DEF IInv, TypeOK
<1>5. Locking'
  BY <1>1, <1>3 DEF Call, IInv, Locking, OthersKept, InTransaction
<1>6. Progress(c)'
  BY <1>2, <1>3 DEF Progress, InTransaction, Selects
<1>7. QED
  BY <1>1, <1>4, <1>5, <1>6, StepInv

\* A call that ends releases what it holds, whatever its answer.
LEMMA FinishInv ==
  ASSUME IInv, NEW c \in Clients, NEW result \in Answers, Finish(c, result),
         pc[c] \notin NoCall, shared' \subseteq Clients,
         Abstract!TypeOK', UNCHANGED tables \/ reserved \in {None, c}
  PROVE  IInv'
<1>1. /\ OthersKept(c)
      /\ pc'[c] = "done" /\ answer'[c] = result /\ tx'[c] = None
      /\ request'[c] = request[c]
  BY DEF Finish, OthersKept, IInv, TypeOK
<1>2. reserved' = IF reserved = c THEN None ELSE reserved
  BY DEF Finish
<1>3. TypeOK'
  <2>1. /\ UNCHANGED <<schema, script, firstUses, request>>
        /\ reserved' \in Clients \cup {None}
        /\ tx' \in [Clients -> Views \cup {None}]
        /\ answer' \in [Clients -> Answers \cup {None}]
    BY DEF Finish, IInv, TypeOK
  <2>2. pc' \in [Clients -> NoCall \cup {"begin", "register_token", "done"}
                            \cup InTransaction \cup DOMAIN Selects]
    BY DEF Finish, IInv, TypeOK
  <2>3. \A d \in Clients :
           /\ pc'[d] \in NoCall <=> request'[d] = None
           /\ tx'[d] # None <=> reserved' = d
           /\ pc'[d] = "done" => answer'[d] # None
    BY <1>1, <1>2, NoneIsApart DEF IInv, TypeOK, OthersKept
  <2>4. QED
    BY <2>1, <2>2, <2>3 DEF IInv, TypeOK
<1>4. Locking'
  BY <1>1, <1>2, NoneIsApart DEF IInv, Locking, OthersKept, InTransaction
<1>5. Progress(c)'
  BY <1>1, IdleProgress
<1>6. QED
  BY <1>1, <1>3, <1>4, <1>5, StepInv

\* So does the end of a connection, by a return or by a kill.
LEMMA ResetInv ==
  ASSUME IInv, NEW c \in Clients, NEW start \in {"closed", "idle"},
         Reset(c, start), firstUses' \in [Tokens -> Nat]
  PROVE  IInv'
<1>1. /\ OthersKept(c)
      /\ pc'[c] = start /\ tx'[c] = None /\ request'[c] = None
  BY DEF Reset, OthersKept, IInv, TypeOK
<1>2. /\ reserved' = IF reserved = c THEN None ELSE reserved
      /\ UNCHANGED tables
  BY DEF Reset
<1>3. TypeOK'
  <2>1. /\ schema' = schema /\ script' = script /\ shared' \subseteq Clients
        /\ reserved' \in Clients \cup {None}
        /\ tx' \in [Clients -> Views \cup {None}]
        /\ request' \in [Clients -> Requests \cup {None}]
        /\ answer' \in [Clients -> Answers \cup {None}]
    BY DEF Reset, IInv, TypeOK
  <2>2. pc' \in [Clients -> NoCall \cup {"begin", "register_token", "done"}
                            \cup InTransaction \cup DOMAIN Selects]
    BY DEF Reset, IInv, TypeOK
  <2>3. Abstract!TypeOK'
    BY <1>2 DEF IInv, TypeOK, tables, Abstract!TypeOK
  <2>4. \A d \in Clients :
           /\ pc'[d] \in NoCall <=> request'[d] = None
           /\ tx'[d] # None <=> reserved' = d
           /\ pc'[d] = "done" => answer'[d] # None
    BY <1>1, <1>2, NoneIsApart DEF IInv, TypeOK, OthersKept
  <2>5. QED
    BY <2>1, <2>2, <2>3, <2>4 DEF IInv, TypeOK
<1>4. Locking'
  BY <1>1, <1>2, NoneIsApart DEF IInv, Locking, OthersKept, InTransaction
<1>5. Progress(c)'
  BY <1>1, IdleProgress
<1>6. QED
  BY <1>1, <1>2, <1>3, <1>4, <1>5, StepInv

LEMMA RollbackInv ==
  ASSUME IInv, NEW c \in Clients, NEW result \in Answers, Rollback(c, result),
         pc[c] \notin NoCall
  PROVE  IInv'
<1>1. Finish(c, result) /\ UNCHANGED tables /\ shared' = shared
  BY DEF Rollback
<1>2. Abstract!TypeOK' /\ shared' \subseteq Clients
  BY <1>1 DEF IInv, TypeOK, tables, Abstract!TypeOK
<1>3. QED
  BY <1>1, <1>2, FinishInv

\* The steps that read.
LEMMA SelectInv ==
  ASSUME IInv, NEW c \in Clients,
         StartSelect(c) \/ EndSelect(c) \/ SelectTimesOut(c)
  PROVE  IInv'
<1>1. pc[c] \in DOMAIN Selects /\ pc[c] \notin NoCall
  BY DEF StartSelect, EndSelect, SelectTimesOut, Selects
<1>2. CASE SelectTimesOut(c)
  BY <1>1, <1>2, RollbackInv DEF SelectTimesOut, Answers
<1>3. CASE EndSelect(c) /\ pc'[c] = "done"
  <2>1. UNCHANGED tables /\ shared' \subseteq Clients
    BY <1>3 DEF EndSelect, IInv, TypeOK
  <2>2. PICK result \in Answers : Finish(c, result)
    <3>1. Report(request[c], tally[c]) \in Answers
      BY <1>1 DEF Report, Answers, IInv, Progress, Selects
    <3>2. QED
      BY <1>1, <1>3, <3>1 DEF EndSelect, Selects
  <2>3. Abstract!TypeOK'
    BY <2>1 DEF IInv, TypeOK, tables, Abstract!TypeOK
  <2>4. QED
    BY <1>1, <2>1, <2>2, <2>3, FinishInv
<1>4. CASE StartSelect(c) \/ (EndSelect(c) /\ pc'[c] # "done")
  <2>1. /\ UNCHANGED <<tables, schema, script, reserved, pc, request, answer,
                       tx, firstUses>>
        /\ shared' \subseteq Clients
    BY <1>4 DEF StartSelect, EndSelect, Finish, IInv, TypeOK
  <2>2. OthersKept(c) /\ pc'[c] = pc[c]
    BY <2>1 DEF OthersKept
  <2>3. TypeOK' /\ Locking'
    BY <2>1 DEF IInv, TypeOK, Locking, tables, Abstract!TypeOK
  <2>4. Progress(c)'
    BY <1>1, <2>1, <2>2 DEF IInv, Progress, Selects, InTransaction
  <2>5. QED
    BY <2>1, <2>2, <2>3, <2>4, StepInv
<1>5. QED
  BY <1>2, <1>3, <1>4

-------------------------------------------------------------------------------
(***************************************************************************)
(* The statements of a transaction.                                        *)
(***************************************************************************)
LEMMA BeginInv ==
  ASSUME IInv, NEW c \in Clients, Begin(c)
  PROVE  IInv'
<1>1. /\ OthersKept(c)
      /\ UNCHANGED <<tables, schema, script, shared, request, answer, firstUses>>
      /\ pc[c] = "begin" /\ reserved = None /\ reserved' = c
      /\ pc'[c] = Entry[request[c].kind] /\ tx'[c] = Database
  BY DEF Begin, OthersKept, IInv, TypeOK, tables
<1>2. request[c] \in Requests /\ request[c].kind \in Transactions /\ ValidRequest(request[c])
  BY <1>1 DEF IInv, Progress
<1>3. pc'[c] \in InTransaction
  BY <1>1, <1>2 DEF Entry, Transactions, InTransaction
<1>4. TypeOK'
  <2>1. Abstract!TypeOK'
    BY <1>1 DEF IInv, TypeOK, tables, Abstract!TypeOK
  <2>2. /\ tx' \in [Clients -> Views \cup {None}]
        /\ pc' \in [Clients -> NoCall \cup {"begin", "register_token", "done"}
                               \cup InTransaction \cup DOMAIN Selects]
    BY <1>1, <1>3, DatabaseView DEF Begin, IInv, TypeOK
  <2>3. \A d \in Clients :
           /\ pc'[d] \in NoCall <=> request'[d] = None
           /\ tx'[d] # None <=> reserved' = d
           /\ pc'[d] = "done" => answer'[d] # None
    <3>1. Database # None
      BY DatabaseView, NoneIsApart DEF IInv
    <3>2. request[c] # None
      BY <1>2, NoneIsApart
    <3>3. QED
      BY <1>1, <1>3, <3>1, <3>2, NoneIsApart
         DEF IInv, TypeOK, OthersKept, InTransaction
  <2>4. QED
    BY <1>1, <2>1, <2>2, <2>3 DEF IInv, TypeOK
<1>5. Locking'
  BY <1>1, <1>3, NoneIsApart DEF IInv, Locking, OthersKept
<1>6. Progress(c)'
  <2>1. tx'[c] = Database'
    BY <1>1 DEF Database, tables
  <2>2. QED
    BY <1>1, <1>2, <2>1 DEF Progress, Entry, Transactions, InTransaction, Selects
<1>7. QED
  BY <1>1, <1>4, <1>5, <1>6, StepInv

\* A statement moves c on inside its transaction and changes what it sees.
LEMMA StatementInv ==
  ASSUME IInv, NEW c \in Clients,
         NEW label \in InTransaction, NEW next \in InTransaction,
         NEW view \in Views, NEW result \in Answers \cup {None},
         Goto(c, label, next), tx' = [tx EXCEPT ![c] = view],
         answer' = [answer EXCEPT ![c] = result], Progress(c)'
  PROVE  IInv'
<1>1. /\ OthersKept(c)
      /\ UNCHANGED <<tables, schema, script, reserved, shared, request, firstUses>>
      /\ pc[c] = label /\ pc'[c] = next /\ tx'[c] = view /\ view # None
  BY NoneIsApart DEF Goto, OthersKept, IInv, TypeOK, tables
<1>2. TypeOK'
  <2>1. Abstract!TypeOK'
    BY <1>1 DEF IInv, TypeOK, tables, Abstract!TypeOK
  <2>2. /\ tx' \in [Clients -> Views \cup {None}]
        /\ answer' \in [Clients -> Answers \cup {None}]
        /\ pc' \in [Clients -> NoCall \cup {"begin", "register_token", "done"}
                               \cup InTransaction \cup DOMAIN Selects]
    BY DEF Goto, IInv, TypeOK
  <2>3. \A d \in Clients :
           /\ pc'[d] \in NoCall <=> request'[d] = None
           /\ tx'[d] # None <=> reserved' = d
           /\ pc'[d] = "done" => answer'[d] # None
    BY <1>1 DEF IInv, TypeOK, OthersKept, InTransaction, Locking
  <2>4. QED
    BY <1>1, <2>1, <2>2, <2>3 DEF IInv, TypeOK
<1>3. Locking'
  BY <1>1 DEF IInv, Locking, OthersKept
<1>4. QED
  BY <1>1, <1>2, <1>3, StepInv

\* What a client inside a transaction holds, in a form the statements use.
LEMMA InsideFacts ==
  ASSUME IInv, NEW c \in Clients, pc[c] \in InTransaction
  PROVE  /\ request[c] \in Requests /\ request[c].kind \in Transactions
         /\ ValidRequest(request[c]) /\ Progress(c)
         /\ tx[c] \in Views /\ Database \in Views
         /\ answer[c] \in Answers \cup {None}
         /\ reserved = c
         /\ tx = [tx EXCEPT ![c] = tx[c]]
         /\ answer = [answer EXCEPT ![c] = answer[c]]
BY DatabaseView, NoneIsApart DEF IInv, TypeOK, Locking, Progress

LEMMA ObjectStatementInv ==
  ASSUME IInv, NEW c \in Clients, ObjectStatement(c)
  PROVE  IInv'
<1> DEFINE q == request[c]
           view == [Database EXCEPT !.objects = @ \cup {q.object}]
<1>1. /\ pc[c] = "object" /\ Goto(c, "object", "commit")
      /\ answer' = [answer EXCEPT ![c] = "ok"]
  BY DEF ObjectStatement, Goto
<1>2. /\ q \in Requests /\ q.kind = "put_object" /\ tx[c] = Database
      /\ Database \in Views
  BY <1>1, InsideFacts DEF Progress, InTransaction
<1>3. view \in Views
  BY <1>2, RequestFields DEF Views
<1>4. tx' = [tx EXCEPT ![c] = view]
  BY <1>2 DEF ObjectStatement
<1>5. Progress(c)'
  <2>1. pc'[c] = "commit" /\ request' = request /\ UNCHANGED tables
        /\ answer'[c] = "ok" /\ tx'[c] = view
    BY <1>1, <1>4 DEF Goto, IInv, TypeOK, tables
  <2>2. Completed(c)'
    BY <1>2, <2>1 DEF Completed, Database, tables
  <2>3. QED
    BY <1>1, <1>2, <2>1, <2>2, InsideFacts
       DEF Progress, InTransaction, Selects, Transactions, Entry, ValidRequest
<1>6. QED
  BY <1>1, <1>3, <1>4, <1>5, StatementInv DEF InTransaction, Answers

LEMMA SelectStatementInv ==
  ASSUME IInv, NEW c \in Clients, SelectPrior(c) \/ SelectExactVersion(c)
  PROVE  IInv'
<1> DEFINE q == request[c]
<1>1. PICK label, next \in InTransaction :
        /\ pc[c] = label /\ Goto(c, label, next) /\ UNCHANGED <<tx, answer>>
        /\ \/ /\ label = "prior" /\ next = "account"
              /\ PriorPresent(q.header, tx[c].accounts)
           \/ /\ label = "present" /\ next = "receipt"
              /\ q.header \in tx[c].accounts
  BY DEF SelectPrior, SelectExactVersion, Goto, InTransaction
<1>2. /\ q \in Requests /\ tx[c] = Database /\ tx[c].accounts = accounts
      /\ label = "prior" => q.kind = "commit_version"
      /\ label = "present" => q.kind = "append_receipt"
  BY <1>1, InsideFacts DEF Progress, InTransaction, Database
<1>3. Progress(c)'
  <2>1. pc'[c] = next /\ UNCHANGED <<request, tx, answer, tables>>
    BY <1>1 DEF Goto, IInv, TypeOK
  <2>2. QED
    BY <1>1, <1>2, <2>1, InsideFacts
       DEF Progress, InTransaction, Selects, Database, tables,
           Transactions, Entry, ValidRequest
<1>4. QED
  <2>1. /\ tx' = [tx EXCEPT ![c] = tx[c]] /\ answer' = [answer EXCEPT ![c] = answer[c]]
        /\ tx[c] \in Views /\ answer[c] \in Answers \cup {None}
    BY <1>1, InsideFacts
  <2>2. QED
    BY <1>1, <1>3, <2>1, StatementInv

LEMMA InsertAccountInv ==
  ASSUME IInv, NEW c \in Clients, InsertAccount(c)
  PROVE  IInv'
<1> DEFINE q == request[c]
           view == [Database EXCEPT !.accounts = @ \cup {q.header}]
<1>1. /\ pc[c] = "account" /\ Goto(c, "account", "receipt")
      /\ answer' = answer
      /\ AccountAdmissible(q.header, tx[c].accounts)
  BY DEF InsertAccount, Goto
<1>2. /\ q \in Requests /\ tx[c] = Database /\ Database \in Views
      /\ \/ q.kind = "commit_opening"
         \/ q.kind = "commit_version" /\ PriorPresent(q.header, accounts)
      /\ tx[c].accounts = accounts
  BY <1>1, InsideFacts DEF Progress, InTransaction, Database
<1>3. view \in Views
  BY <1>2, RequestFields DEF Views, Bundles
<1>4. tx' = [tx EXCEPT ![c] = view]
  BY <1>2 DEF InsertAccount
<1>5. Progress(c)'
  <2>1. pc'[c] = "receipt" /\ request' = request /\ UNCHANGED tables
        /\ tx'[c] = view
    BY <1>1, <1>4 DEF Goto, IInv, TypeOK, tables
  <2>2. HeaderInserted(c)'
    BY <1>1, <1>2, <2>1 DEF HeaderInserted, Database, tables
  <2>3. QED
    BY <1>1, <1>2, <2>1, <2>2, InsideFacts
       DEF Progress, InTransaction, Selects, tables, Transactions, Entry, ValidRequest
<1>6. QED
  <2>1. answer' = [answer EXCEPT ![c] = answer[c]] /\ answer[c] \in Answers \cup {None}
    BY <1>1, InsideFacts DEF InTransaction
  <2>2. QED
    BY <1>1, <1>3, <1>4, <1>5, <2>1, StatementInv DEF InTransaction

LEMMA InsertReceiptInv ==
  ASSUME IInv, NEW c \in Clients, InsertReceipt(c)
  PROVE  IInv'
<1> DEFINE q == request[c]
           view == [tx[c] EXCEPT !.receipts = @ \cup {q.receipt}]
<1>1. /\ pc[c] = "receipt" /\ Goto(c, "receipt", "commit")
      /\ answer' = [answer EXCEPT ![c] = "ok"]
      /\ ReceiptAdmissible(q.receipt, tx[c].receipts)
      /\ tx' = [tx EXCEPT ![c] = view]
  BY DEF InsertReceipt, Goto
<1>2. /\ q \in Requests /\ tx[c] \in Views /\ Progress(c)
      /\ q.kind \in Bundles
      /\ tx[c].receipts = receipts
  BY <1>1, InsideFacts
     DEF Progress, InTransaction, Database, HeaderInserted, Bundles
<1>3. view \in Views
  BY <1>2, RequestFields DEF Views
<1>4. Progress(c)'
  <2>1. pc'[c] = "commit" /\ request' = request /\ UNCHANGED tables
        /\ tx'[c] = view /\ answer'[c] = "ok"
    BY <1>1 DEF Goto, IInv, TypeOK, tables
  <2>2. CASE q.kind = "append_receipt"
    <3>1. q.header \in accounts /\ tx[c] = Database
      BY <1>1, <1>2, <2>2 DEF Progress
    <3>2. Completed(c)'
      BY <1>1, <1>2, <2>1, <2>2, <3>1 DEF Completed, Database, tables
    <3>3. QED
      BY <1>1, <1>2, <2>1, <2>2, <3>2, InsideFacts
         DEF Progress, InTransaction, Selects, Transactions, Entry, ValidRequest
  <2>3. CASE q.kind \in {"commit_opening", "commit_version"}
    <3>1. /\ HeaderInserted(c)
          /\ q.kind = "commit_version" => PriorPresent(q.header, accounts)
      BY <1>1, <1>2, <2>3 DEF Progress
    <3>2. view = [Database EXCEPT !.accounts = @ \cup {q.header},
                                  !.receipts = @ \cup {q.receipt}]
      BY <3>1 DEF HeaderInserted, Database
    <3>3. BundleInserted(c)'
      BY <1>1, <1>2, <2>1, <3>1, <3>2
         DEF BundleInserted, HeaderInserted, Database, tables
    <3>4. Completed(c)'
      BY <2>1, <2>3, <3>1, <3>3 DEF Completed, tables
    <3>5. QED
      BY <1>1, <1>2, <2>1, <2>3, <3>4, InsideFacts
         DEF Progress, InTransaction, Selects, Transactions, Entry, ValidRequest
  <2>4. QED
    BY <1>2, <2>2, <2>3 DEF Bundles
<1>5. QED
  BY <1>1, <1>3, <1>4, StatementInv DEF InTransaction, Answers

LEMMA TokenStatementInv ==
  ASSUME IInv, NEW c \in Clients, TokenStatement(c)
  PROVE  IInv'
<1> DEFINE q == request[c]
           result == IF tokens[q.token] = Unused THEN "first_use" ELSE "replayed"
           view == [Database EXCEPT !.tokens[q.token] = q.decision]
<1>1. pc[c] = "token" /\ Goto(c, "token", "commit")
  BY DEF TokenStatement, Goto
<1>2. /\ q \in Requests /\ q.kind = "consume_token" /\ tx[c] = Database
      /\ Database \in Views /\ tx[c].tokens = tokens
      /\ q.token \in Tokens /\ q.decision \in Decisions
  BY <1>1, InsideFacts, RequestFields DEF Progress, InTransaction, Database
<1>3. /\ TokenAdmissible(tokens[q.token], q.decision)
      /\ answer' = [answer EXCEPT ![c] = result]
      /\ tx' = [tx EXCEPT ![c] = view]
  BY <1>2 DEF TokenStatement
<1>4. view \in Views
  BY <1>2 DEF Views
<1>5. Progress(c)'
  <2>1. pc'[c] = "commit" /\ request' = request /\ UNCHANGED tables
        /\ tx'[c] = view /\ answer'[c] = result
    BY <1>1, <1>3 DEF Goto, IInv, TypeOK, tables
  <2>2. Completed(c)'
    BY <1>2, <1>3, <2>1 DEF Completed, Database, tables
  <2>3. QED
    BY <1>1, <1>2, <2>1, <2>2, InsideFacts
       DEF Progress, InTransaction, Selects, Transactions, Entry, ValidRequest
<1>6. QED
  BY <1>1, <1>3, <1>4, <1>5, StatementInv DEF InTransaction, Answers

LEMMA StartCommitInv ==
  ASSUME IInv, NEW c \in Clients, StartCommit(c)
  PROVE  IInv'
<1>1. pc[c] = "commit" /\ Goto(c, "commit", "pending") /\ UNCHANGED <<tx, answer>>
  BY DEF StartCommit, Goto
<1>2. Progress(c)'
  <2>1. pc'[c] = "pending" /\ UNCHANGED <<request, tx, answer, tables>>
    BY <1>1 DEF Goto, IInv, TypeOK
  <2>2. Completed(c)'
    <3>1. Completed(c)
      BY <1>1, InsideFacts DEF Progress, InTransaction
    <3>2. QED
      BY <2>1, <3>1 DEF Completed, BundleInserted, Database, tables
  <2>3. QED
    BY <1>1, <2>1, <2>2, InsideFacts
       DEF Progress, InTransaction, Selects, ValidRequest
<1>3. QED
  BY <1>1, <1>2, InsideFacts, StatementInv DEF InTransaction

-------------------------------------------------------------------------------
(***************************************************************************)
(* The steps that change the committed tables, and what they do there.     *)
(***************************************************************************)
\* The row checks the ledger promises are the ones the statements make.
LEMMA SameChecks ==
  /\ \A h, r : Abstract!ValidOpening(h, r) <=> ValidOpening(h, r)
  /\ \A h, r : Abstract!ValidVersionOpening(h, r) <=> ValidVersionOpening(h, r)
  /\ \A h : Abstract!ValidHeader(h) <=> ValidHeader(h)
  /\ \A r : Abstract!ValidReceipt(r) <=> ValidReceipt(r)
  /\ \A h, A : Abstract!AccountAdmissible(h, A) <=> AccountAdmissible(h, A)
  /\ \A h, A : Abstract!PriorPresent(h, A) <=> PriorPresent(h, A)
  /\ \A r, R : Abstract!ReceiptAdmissible(r, R) <=> ReceiptAdmissible(r, R)
  /\ \A s, d : Abstract!TokenAdmissible(s, d) <=> TokenAdmissible(s, d)
<1> USE DEF ValidHeader, Abstract!ValidHeader, AccountIdentity,
            Abstract!AccountIdentity, OpeningOperations,
            Abstract!OpeningOperations
<1>1. \A h : Abstract!ValidHeader(h) <=> ValidHeader(h)
  OBVIOUS
<1>2. \A r : Abstract!ValidReceipt(r) <=> ValidReceipt(r)
  BY DEF ValidReceipt, Abstract!ValidReceipt, ValidPayload, Abstract!ValidPayload,
         ValidResidual, Abstract!ValidResidual, ResultingStatus,
         Abstract!ResultingStatus, Distinct, Abstract!Distinct
<1>3. \A h, r : Abstract!ValidOpening(h, r) <=> ValidOpening(h, r)
  BY <1>2 DEF ValidOpening, Abstract!ValidOpening, Cited, Abstract!Cited
<1>4. \A h, r : Abstract!ValidVersionOpening(h, r) <=> ValidVersionOpening(h, r)
  BY <1>2 DEF ValidVersionOpening, Abstract!ValidVersionOpening
<1>5. \A h, A : /\ Abstract!AccountAdmissible(h, A) <=> AccountAdmissible(h, A)
                /\ Abstract!PriorPresent(h, A) <=> PriorPresent(h, A)
  BY DEF AccountAdmissible, Abstract!AccountAdmissible, PriorPresent,
         Abstract!PriorPresent, KeyOf, Abstract!KeyOf
<1>6. \A r, R : Abstract!ReceiptAdmissible(r, R) <=> ReceiptAdmissible(r, R)
  BY DEF ReceiptAdmissible, Abstract!ReceiptAdmissible, IsNextOrder,
         Abstract!IsNextOrder
<1>7. \A s, d : Abstract!TokenAdmissible(s, d) <=> TokenAdmissible(s, d)
  BY DEF TokenAdmissible, Abstract!TokenAdmissible
<1>8. QED
  BY <1>1, <1>2, <1>3, <1>4, <1>5, <1>6, <1>7

\* A COMMIT publishes one whole operation of the ledger.
LEMMA CommitIsOneOperation ==
  ASSUME IInv, NEW c \in Clients, Commit(c)
  PROVE  LET q == request[c]
         IN  \/ q.kind = "put_object" /\ Abstract!PutObject(q.object)
             \/ q.kind = "commit_opening" /\ Abstract!CommitOpening(q.header, q.receipt)
             \/ q.kind = "commit_version" /\ Abstract!CommitVersion(q.header, q.receipt)
             \/ q.kind = "append_receipt" /\ Abstract!AppendReceipt(q.header, q.receipt)
             \/ q.kind = "consume_token" /\ Abstract!ConsumeToken(q.token, q.decision)
<1> DEFINE q == request[c]
<1>1. /\ pc[c] = "pending" /\ Completed(c) /\ ValidRequest(q) /\ q \in Requests
      /\ q.kind \in Transactions
  BY InsideFacts DEF Commit, Progress, InTransaction
<1>2. /\ objects' = tx[c].objects /\ accounts' = tx[c].accounts
      /\ receipts' = tx[c].receipts /\ tokens' = tx[c].tokens
  BY DEF Commit
<1>3. CASE q.kind = "put_object"
  BY <1>1, <1>2, <1>3 DEF Completed, Database, Abstract!PutObject
<1>4. CASE q.kind = "commit_opening"
  BY <1>1, <1>2, <1>4, SameChecks
     DEF Completed, BundleInserted, Database, ValidRequest, Abstract!CommitOpening
<1>5. CASE q.kind = "commit_version"
  BY <1>1, <1>2, <1>5, SameChecks
     DEF Completed, BundleInserted, Database, ValidRequest, Abstract!CommitVersion
<1>6. CASE q.kind = "append_receipt"
  BY <1>1, <1>2, <1>6, SameChecks
     DEF Completed, Database, ValidRequest, Abstract!AppendReceipt
<1>7. CASE q.kind = "consume_token"
  BY <1>1, <1>2, <1>7, SameChecks DEF Completed, Database, Abstract!ConsumeToken
<1>8. QED
  BY <1>1, <1>3, <1>4, <1>5, <1>6, <1>7 DEF Transactions, Entry

\* The abstract operations keep the types of the tables, as TypeCorrect of
\* LedgerProofs shows for the whole specification.
LEMMA CommitInv ==
  ASSUME IInv, NEW c \in Clients, Commit(c)
  PROVE  IInv'
<1> DEFINE q == request[c]
<1>1. /\ Finish(c, answer[c]) /\ pc[c] = "pending" /\ shared' = shared
      /\ reserved = c /\ q \in Requests /\ tx[c] \in Views
      /\ answer[c] \in Answers
  BY InsideFacts DEF Commit, InTransaction, Progress, Completed, Answers,
                     Transactions, Entry
<1>2. Abstract!TypeOK'
  BY <1>1 DEF Commit, Views, Abstract!TypeOK
<1>3. QED
  BY <1>1, <1>2, FinishInv DEF IInv, TypeOK

LEMMA RegisterIsOneOperation ==
  ASSUME IInv, NEW c \in Clients, RegisterToken(c)
  PROVE  Abstract!RegisterToken(request[c].token)
BY DEF RegisterToken, Abstract!RegisterToken

LEMMA RegisterTokenInv ==
  ASSUME IInv, NEW c \in Clients, RegisterToken(c)
  PROVE  IInv'
<1>1. /\ Finish(c, "ok") /\ pc[c] = "register_token" /\ shared' = shared
      /\ reserved = None /\ request[c] \in Requests
  BY DEF RegisterToken, RegisterReady, IInv, Progress
<1>2. Abstract!TypeOK'
  BY DEF RegisterToken, IInv, TypeOK, Abstract!TypeOK
<1>3. QED
  BY <1>1, <1>2, FinishInv DEF IInv, TypeOK, Answers

-------------------------------------------------------------------------------
\* The steps that end a call without having changed a table.
LEMMA GiveUpInv ==
  ASSUME IInv, NEW c \in Clients,
         \/ BeginTimesOut(c) \/ Refuse(c) \/ CommitTimesOut(c)
         \/ RegisterTimesOut(c)
  PROVE  IInv'
<1>1. PICK result \in {"OperationalError", "LedgerError"} : Rollback(c, result)
  BY DEF BeginTimesOut, Refuse, CommitTimesOut, RegisterTimesOut
<1>2. pc[c] \notin NoCall
  BY DEF BeginTimesOut, Refuse, CommitTimesOut, RegisterTimesOut
<1>3. QED
  BY <1>1, <1>2, RollbackInv DEF Answers

\* Every step of a running call keeps the invariant.
LEMMA StepKeepsInv ==
  ASSUME IInv, NEW c \in Clients, Step(c)
  PROVE  IInv'
<1>1. CASE Constructor(c)
  BY <1>1, OpenInv
<1>2. CASE Begin(c)
  BY <1>2, BeginInv
<1>3. CASE BeginTimesOut(c) \/ Refuse(c) \/ CommitTimesOut(c) \/ RegisterTimesOut(c)
  BY <1>3, GiveUpInv
<1>4. CASE ObjectStatement(c)
  BY <1>4, ObjectStatementInv
<1>5. CASE SelectPrior(c) \/ SelectExactVersion(c)
  BY <1>5, SelectStatementInv
<1>6. CASE InsertAccount(c) \/ InsertReceipt(c)
  BY <1>6, InsertAccountInv, InsertReceiptInv
<1>7. CASE TokenStatement(c)
  BY <1>7, TokenStatementInv
<1>8. CASE StartCommit(c) \/ Commit(c)
  BY <1>8, StartCommitInv, CommitInv
<1>9. CASE RegisterToken(c)
  BY <1>9, RegisterTokenInv
<1>10. CASE StartSelect(c) \/ EndSelect(c) \/ SelectTimesOut(c)
  BY <1>10, SelectInv
<1>11. CASE Return(c)
  <2>1. firstUses' \in [Tokens -> Nat]
    <3>1. firstUses \in [Tokens -> Nat]
      BY DEF IInv, TypeOK
    <3>2. firstUses' \in {firstUses,
                         [firstUses EXCEPT ![request[c].token] = @ + 1]}
      BY <1>11 DEF Return
    <3>3. QED
      BY <3>1, <3>2
  <2>2. Reset(c, "idle")
    BY <1>11 DEF Return
  <2>3. QED
    BY <2>1, <2>2, ResetInv
<1>12. QED
  BY <1>1, <1>2, <1>3, <1>4, <1>5, <1>6, <1>7, <1>8, <1>9, <1>10, <1>11
     DEF Step, Transaction

LEMMA NextKeepsInv ==
  ASSUME IInv, Next
  PROVE  IInv'
<1>1. PICK c \in Clients :
        Start(c) \/ (\E q \in Requests : Call(c, q)) \/ Step(c) \/ Crash(c)
  BY DEF Next
<1>2. CASE Crash(c)
  BY <1>2, ResetInv DEF Crash, IInv, TypeOK
<1>3. QED
  BY <1>1, <1>2, OpenInv, CallInv, StepKeepsInv

\* What every reachable state satisfies: the types, one writer at a time, and
\* for each open transaction what its statements have established.
THEOREM Inductive == Spec => []IInv
<1>1. Init => IInv
  <2> SUFFICES ASSUME Init PROVE IInv
    OBVIOUS
  <2>1. /\ Abstract!TypeOK /\ schema \subseteq Created(4)
        /\ script = [c \in Clients |-> 0]
    BY TableCount DEF Init, Abstract!Init, Abstract!TypeOK, Created
  <2>2. /\ pc = [c \in Clients |-> "closed"]
        /\ request = [c \in Clients |-> None] /\ answer = request
        /\ tx = request /\ reserved = None /\ shared = {}
        /\ firstUses = [t \in Tokens |-> 0]
    BY DEF Init
  <2>3. TypeOK
    BY <2>1, <2>2, NoneIsApart DEF TypeOK
  <2>4. Locking /\ \A c \in Clients : Progress(c)
    BY <2>2, NoneIsApart DEF Locking, Progress, InTransaction, Selects
  <2>5. QED
    BY <2>3, <2>4 DEF IInv
<1>2. IInv /\ UNCHANGED vars => IInv'
  <2> SUFFICES ASSUME IInv, UNCHANGED vars PROVE IInv'
    OBVIOUS
  <2>1. TypeOK' /\ Locking'
    BY DEF IInv, TypeOK, Locking, vars, tables, Abstract!TypeOK
  <2>2. ASSUME NEW c \in Clients PROVE Progress(c)'
    BY DEF IInv, Progress, Completed, HeaderInserted, BundleInserted, Database,
           vars, tables
  <2>3. QED
    BY <2>1, <2>2 DEF IInv
<1>3. QED
  BY <1>1, <1>2, NextKeepsInv, PTL DEF Spec

\* The types of the tables, the locks and the answers, for every set of calls.
THEOREM TypeCorrect == Spec => []TypeOK
BY Inductive, PTL DEF IInv

-------------------------------------------------------------------------------
\* A step that is neither a COMMIT nor a registration changes no table.
LEMMA OtherStepsStutter ==
  ASSUME NEW c \in Clients,
         \/ Start(c)
         \/ \E q \in Requests : Call(c, q)
         \/ Step(c) /\ ~Commit(c) /\ ~RegisterToken(c)
         \/ Crash(c)
  PROVE  UNCHANGED tables
BY DEF Start, Call, Crash, Step, Constructor, PassTable, StartCreate,
       FinishCreate, OpenTimesOut, Open, Transaction, Begin, BeginTimesOut,
       ObjectStatement, SelectPrior, SelectExactVersion, InsertAccount,
       InsertReceipt, TokenStatement, Refuse, StartCommit, CommitTimesOut,
       RegisterTimesOut, StartSelect, EndSelect, SelectTimesOut, Return,
       Goto, Rollback, Reset, tables

\* Every step is an operation of the ledger or changes none of its tables.
LEMMA StepRefines ==
  ASSUME IInv, [Next]_vars
  PROVE  [Abstract!Next]_(Abstract!vars)
<1> SUFFICES ASSUME Next PROVE Abstract!Next \/ UNCHANGED Abstract!vars
  BY DEF vars, tables, Abstract!vars
<1>1. PICK c \in Clients :
        Start(c) \/ (\E q \in Requests : Call(c, q)) \/ Step(c) \/ Crash(c)
  BY DEF Next
<1>2. CASE Commit(c)
  <2>1. request[c] \in Requests
    BY <1>2, InsideFacts DEF Commit, InTransaction
  <2>2. QED
    BY <1>2, <2>1, CommitIsOneOperation, RequestFields DEF Abstract!Next, Bundles
<1>3. CASE RegisterToken(c)
  <2>1. request[c].token \in Tokens
    BY <1>3, RequestFields DEF RegisterToken, IInv, Progress
  <2>2. QED
    BY <1>3, <2>1, RegisterIsOneOperation DEF Abstract!Next
<1>4. CASE ~Commit(c) /\ ~RegisterToken(c)
  BY <1>1, <1>4, OtherStepsStutter DEF tables, Abstract!vars
<1>5. QED
  BY <1>2, <1>3, <1>4

\* Statement by statement, with locks, timeouts and kills, the database
\* behaves as the atomic ledger (store.py:97-331).
THEOREM Refinement == Spec => ImplementsLedger
<1>1. Init => Abstract!Init
  BY DEF Init
<1>2. IInv /\ [Next]_vars => [Abstract!Next]_(Abstract!vars)
  BY StepRefines
<1>3. QED
  BY <1>1, <1>2, Inductive, PTL DEF Spec, ImplementsLedger, Abstract!Spec
===============================================================================
