----------------------------- MODULE SQLiteLedger -----------------------------
(***************************************************************************)
(* store.py as it runs: several processes, each with a connection of its   *)
(* own, call the operations of SQLiteLedger on one database file.  Every   *)
(* SQL statement is a step.  What SQLite itself does (the RESERVED lock of *)
(* BEGIN IMMEDIATE, SHARED locks of open SELECTs, PENDING while a COMMIT   *)
(* waits for them, the 5 second busy timeout, the rollback journal) is     *)
(* modelled from the pragmas and statements the code issues.               *)
(*                                                                         *)
(* A process may be killed at any step: its locks go, its uncommitted      *)
(* statements are rolled back, and its caller gets no answer.  Started     *)
(* again, it runs the constructor again, on the tables as it finds them.   *)
(***************************************************************************)
EXTENDS LedgerData, Sequences, FiniteSets

CONSTANTS
    Headers, Receipts, Objects, Tokens, Decisions,  \* as in Ledger
    InitialTables,  \* how much of Script the file has at the start
    Clients,        \* the processes that use the database file
    Requests,       \* the calls they may make
    None            \* no client, no request, no answer, no transaction

\* The first statement of a call after BEGIN IMMEDIATE.
Entry == [commit_opening |-> "account", commit_version |-> "prior",
          append_receipt |-> "present", put_object |-> "object",
          consume_token |-> "token"]
Transactions == DOMAIN Entry

\* The number of SELECTs of the calls that only read.
Selects == [counts |-> 4, get_object |-> 1, verify |-> 5]

Bundles == {"commit_opening", "commit_version", "append_receipt"}

ASSUME RequestFields ==
    \A q \in Requests :
        /\ q.kind \in Transactions \cup DOMAIN Selects \cup {"register_token"}
        /\ q.kind \in Bundles => q.header \in Headers /\ q.receipt \in Receipts
        /\ q.kind \in {"put_object", "get_object"} => q.object \in Objects
        /\ q.kind \in {"register_token", "consume_token"} => q.token \in Tokens
        /\ q.kind = "consume_token" => q.decision \in Decisions
ASSUME HeaderFields == \A h \in Headers : h.version \in Nat \ {0}
ASSUME ReceiptFields == \A r \in Receipts : r.order \in Nat
ASSUME TokenStates ==
    /\ Unregistered # Unused
    /\ Unregistered \notin Decisions
    /\ Unused \notin Decisions

\* The tables as a transaction may see them.
Views ==
    [objects : SUBSET Objects, accounts : SUBSET Headers,
     receipts : SUBSET Receipts,
     tokens : [Tokens -> {Unregistered, Unused} \cup Decisions]]

Answers == {"ok", "first_use", "replayed", "errors",
            "KeyError", "LedgerError", "OperationalError"}
Succeeded == {"ok", "first_use", "replayed"}

\* The tables executescript creates, in its order.
Script == <<"objects", "accounts", "receipts", "serial_tokens">>
Created(n) == {Script[i] : i \in 1 .. n}

ASSUME TableCount == InitialTables \in 0 .. 4
ASSUME NoneIsApart ==
    None \notin Clients /\ None \notin Requests
        /\ None \notin Answers /\ None \notin Views

\* The labels of a process that executes no call.
NoCall == {"closed", "opening", "creating", "idle"}

\* The statements between BEGIN IMMEDIATE and the end of its transaction.
InTransaction == {"object", "prior", "present", "account", "receipt", "token",
                  "commit", "pending"}

VARIABLES
    objects, accounts, receipts, tokens,  \* the committed tables
    schema,     \* the tables that have been created
    script,     \* how much of Script the constructor of each client has done
    reserved,   \* the client whose transaction holds RESERVED, or None
    shared,     \* the clients with an open SELECT
    pc,         \* the next statement of each client
    request,    \* the call each client is executing
    answer,     \* what the call will return or raise
    tx,         \* the tables as each open transaction sees them
    tally,      \* the row counts counts() has read so far
    firstUses   \* history: how often consume_token returned True for a token

tables == <<objects, accounts, receipts, tokens>>
vars == <<tables, schema, script, reserved, shared, pc, request, answer, tx,
          tally, firstUses>>

\* The refinement mapping: the committed tables are the tables of the ledger.
Abstract == INSTANCE Ledger WITH
    objects <- objects, accounts <- accounts,
    receipts <- receipts, tokens <- tokens

\* The model_validate of the arguments, before a connection is opened.
ValidRequest(q) ==
    /\ q.kind = "commit_opening" => ValidOpening(q.header, q.receipt)
    /\ q.kind = "commit_version" => ValidVersionOpening(q.header, q.receipt)
    /\ q.kind = "append_receipt" =>
          /\ ValidHeader(q.header)
          /\ ValidReceipt(q.receipt)
          /\ q.receipt.account = q.header.account

Database ==
    [objects |-> objects, accounts |-> accounts,
     receipts |-> receipts, tokens |-> tokens]

TypeOK ==
    /\ Abstract!TypeOK
    /\ schema \subseteq Created(4)
    /\ script \in [Clients -> 0 .. 4]
    /\ reserved \in Clients \cup {None}
    /\ shared \subseteq Clients
    /\ pc \in [Clients -> NoCall \cup {"begin", "register_token", "done"}
                            \cup InTransaction \cup DOMAIN Selects]
    /\ tx \in [Clients -> Views \cup {None}]
    /\ request \in [Clients -> Requests \cup {None}]
    /\ answer \in [Clients -> Answers \cup {None}]
    /\ firstUses \in [Tokens -> Nat]
    /\ \A c \in Clients :
          /\ pc[c] \in NoCall <=> request[c] = None
          /\ tx[c] # None <=> reserved = c
          /\ pc[c] = "done" => answer[c] # None

Init ==
    /\ Abstract!Init
    /\ schema = Created(InitialTables)
    /\ script = [c \in Clients |-> 0]
    /\ reserved = None
    /\ shared = {}
    /\ pc = [c \in Clients |-> "closed"]
    /\ request = [c \in Clients |-> None]
    /\ answer = [c \in Clients |-> None]
    /\ tx = [c \in Clients |-> None]
    /\ tally = [c \in Clients |-> <<>>]
    /\ firstUses = [t \in Tokens |-> 0]

-------------------------------------------------------------------------------
(***************************************************************************)
(* The constructor.  executescript runs the four CREATE TABLE IF NOT       *)
(* EXISTS one after the other, each a transaction of its own that takes    *)
(* RESERVED, and commits, only when its table is missing.  A statement     *)
(* that waits too long for a lock raises the OperationalError out of the   *)
(* constructor; what the statements before it created stays.               *)
(***************************************************************************)
\* An exact replay commits without having written a row.
Wrote(c) == tx[c] # Database

\* A COMMIT with rows holds PENDING: no other process can start to read.
CommitPending == \E c \in Clients : pc[c] = "pending" /\ Wrote(c)

NextTable(c) == Script[script[c] + 1]

\* The process comes up and calls the constructor.
Start(c) ==
    /\ pc[c] = "closed"
    /\ pc' = [pc EXCEPT ![c] = "opening"]
    /\ script' = [script EXCEPT ![c] = 0]
    /\ UNCHANGED <<tables, schema, reserved, shared, request, answer, tx, tally,
                   firstUses>>

\* Mutant: a CREATE that meets the lock of another process is passed over.
PassTableLocked(c) ==
    /\ pc[c] = "opening" /\ script[c] < 4
    /\ NextTable(c) \in schema \/ reserved # None
    /\ ~CommitPending
    /\ script' = [script EXCEPT ![c] = @ + 1]
    /\ UNCHANGED <<tables, schema, reserved, shared, pc, request, answer, tx,
                   tally, firstUses>>

PassTable(c) ==
    /\ pc[c] = "opening" /\ script[c] < 4
    /\ NextTable(c) \in schema
    /\ ~CommitPending
    /\ script' = [script EXCEPT ![c] = @ + 1]
    /\ UNCHANGED <<tables, schema, reserved, shared, pc, request, answer, tx,
                   tally, firstUses>>

StartCreate(c) ==
    /\ pc[c] = "opening" /\ script[c] < 4
    /\ NextTable(c) \notin schema
    /\ reserved = None
    /\ reserved' = c
    /\ tx' = [tx EXCEPT ![c] = Database]
    /\ pc' = [pc EXCEPT ![c] = "creating"]
    /\ UNCHANGED <<tables, schema, script, shared, request, answer, tally,
                   firstUses>>

\* Its COMMIT need not wait: while a table is missing no call reads the file.
FinishCreate(c) ==
    /\ pc[c] = "creating"
    /\ schema' = schema \cup {NextTable(c)}
    /\ script' = [script EXCEPT ![c] = @ + 1]
    /\ reserved' = None
    /\ tx' = [tx EXCEPT ![c] = None]
    /\ pc' = [pc EXCEPT ![c] = "opening"]
    /\ UNCHANGED <<tables, shared, request, answer, tally, firstUses>>

OpenTimesOut(c) ==
    /\ pc[c] = "opening" /\ script[c] < 4
    /\ \/ NextTable(c) \in schema /\ CommitPending
       \/ NextTable(c) \notin schema /\ reserved # None
    /\ pc' = [pc EXCEPT ![c] = "closed"]
    /\ UNCHANGED <<tables, schema, script, reserved, shared, request, answer,
                   tx, tally, firstUses>>

\* The constructor returns.
Open(c) ==
    /\ pc[c] = "opening" /\ script[c] = 4
    /\ pc' = [pc EXCEPT ![c] = "idle"]
    /\ UNCHANGED <<tables, schema, script, reserved, shared, request, answer,
                   tx, tally, firstUses>>

-------------------------------------------------------------------------------
\* Execute the statement at label and go on to next, the locks unchanged.
Goto(c, label, next) ==
    /\ pc[c] = label
    /\ pc' = [pc EXCEPT ![c] = next]
    /\ UNCHANGED <<tables, schema, script, reserved, shared, request, tally,
                   firstUses>>

\* Mutant: the transaction is closed and its lock is kept.
FinishKeepsLock(c, result) ==
    /\ pc' = [pc EXCEPT ![c] = "done"]
    /\ answer' = [answer EXCEPT ![c] = result]
    /\ tx' = [tx EXCEPT ![c] = None]
    /\ UNCHANGED <<schema, script, request, tally, firstUses, reserved>>

\* The call is over with this answer; its transaction, if any, is closed.
Finish(c, result) ==
    /\ pc' = [pc EXCEPT ![c] = "done"]
    /\ answer' = [answer EXCEPT ![c] = result]
    /\ tx' = [tx EXCEPT ![c] = None]
    /\ reserved' = IF reserved = c THEN None ELSE reserved
    /\ UNCHANGED <<schema, script, request, tally, firstUses>>

Rollback(c, result) ==
    /\ Finish(c, result)
    /\ UNCHANGED <<tables, shared>>

\* Mutant: the write lock outlives its connection.
ResetKeepsLock(c, start) ==
    /\ pc' = [pc EXCEPT ![c] = start]
    /\ request' = [request EXCEPT ![c] = None]
    /\ answer' = [answer EXCEPT ![c] = None]
    /\ tx' = [tx EXCEPT ![c] = None]
    /\ tally' = [tally EXCEPT ![c] = <<>>]
    /\ shared' = shared \ {c}
    /\ UNCHANGED <<tables, schema, script, reserved>>

\* The call and its connection are gone, its caller is back at start.
Reset(c, start) ==
    /\ pc' = [pc EXCEPT ![c] = start]
    /\ request' = [request EXCEPT ![c] = None]
    /\ answer' = [answer EXCEPT ![c] = None]
    /\ tx' = [tx EXCEPT ![c] = None]
    /\ tally' = [tally EXCEPT ![c] = <<>>]
    /\ reserved' = IF reserved = c THEN None ELSE reserved
    /\ shared' = shared \ {c}
    /\ UNCHANGED <<tables, schema, script>>

Call(c, q) ==
    /\ pc[c] = "idle"
    /\ request' = [request EXCEPT ![c] = q]
    /\ IF ValidRequest(q)
       THEN /\ pc' = [pc EXCEPT ![c] = IF q.kind \in Transactions
                                       THEN "begin" ELSE q.kind]
            /\ answer' = answer
       ELSE /\ pc' = [pc EXCEPT ![c] = "done"]
            /\ answer' = [answer EXCEPT ![c] = "LedgerError"]
    /\ UNCHANGED <<tables, schema, script, reserved, shared, tx, tally,
                   firstUses>>

\* Mutant: a transaction that does not take the write lock when it begins.
BeginDeferred(c) ==
    /\ pc[c] = "begin"
    /\ reserved' = c
    /\ tx' = [tx EXCEPT ![c] = Database]
    /\ pc' = [pc EXCEPT ![c] = Entry[request[c].kind]]
    /\ UNCHANGED <<tables, schema, script, shared, request, answer, tally,
                   firstUses>>

Begin(c) ==
    /\ pc[c] = "begin"
    /\ reserved = None
    /\ reserved' = c
    /\ tx' = [tx EXCEPT ![c] = Database]
    /\ pc' = [pc EXCEPT ![c] = Entry[request[c].kind]]
    /\ UNCHANGED <<tables, schema, script, shared, request, answer, tally,
                   firstUses>>

\* Mutant: no busy timeout.
BeginWaits(c) == FALSE

\* BEGIN IMMEDIATE stands before the try: its error leaves as it is.
BeginTimesOut(c) ==
    /\ pc[c] = "begin"
    /\ reserved # None
    /\ Rollback(c, "OperationalError")

-------------------------------------------------------------------------------
(***************************************************************************)
(* The statements of a transaction.                                        *)
(***************************************************************************)
ObjectStatement(c) ==
    /\ Goto(c, "object", "commit")
    /\ tx' = [tx EXCEPT ![c].objects = @ \cup {request[c].object}]
    /\ answer' = [answer EXCEPT ![c] = "ok"]

SelectPrior(c) ==
    /\ Goto(c, "prior", "account")
    /\ PriorPresent(request[c].header, tx[c].accounts)
    /\ UNCHANGED <<tx, answer>>

SelectExactVersion(c) ==
    /\ Goto(c, "present", "receipt")
    /\ request[c].header \in tx[c].accounts
    /\ UNCHANGED <<tx, answer>>

\* Mutant: the INSERT runs outside the transaction and commits by itself.
InsertAccountAutocommits(c) ==
    /\ pc[c] = "account"
    /\ pc' = [pc EXCEPT ![c] = "receipt"]
    /\ AccountAdmissible(request[c].header, tx[c].accounts)
    /\ tx' = [tx EXCEPT ![c].accounts = @ \cup {request[c].header}]
    /\ accounts' = accounts \cup {request[c].header}
    /\ UNCHANGED <<objects, receipts, tokens, schema, script, reserved, shared,
                   request, answer, tally, firstUses>>

InsertAccount(c) ==
    /\ Goto(c, "account", "receipt")
    /\ AccountAdmissible(request[c].header, tx[c].accounts)
    /\ tx' = [tx EXCEPT ![c].accounts = @ \cup {request[c].header}]
    /\ UNCHANGED answer

InsertReceipt(c) ==
    /\ Goto(c, "receipt", "commit")
    /\ ReceiptAdmissible(request[c].receipt, tx[c].receipts)
    /\ tx' = [tx EXCEPT ![c].receipts = @ \cup {request[c].receipt}]
    /\ answer' = [answer EXCEPT ![c] = "ok"]

\* Mutant: every UPDATE that finds the row is a first use.
TokenStatementUpdates(c) ==
    LET t == request[c].token
        d == request[c].decision
    IN  /\ Goto(c, "token", "commit")
        /\ TokenAdmissible(tx[c].tokens[t], d)
        /\ tx' = [tx EXCEPT ![c].tokens[t] = d]
        /\ answer' = [answer EXCEPT ![c] = "first_use"]

TokenStatement(c) ==
    LET t == request[c].token
        d == request[c].decision
        consumedBy == tx[c].tokens[t]
    IN  /\ Goto(c, "token", "commit")
        /\ TokenAdmissible(consumedBy, d)
        /\ tx' = [tx EXCEPT ![c].tokens[t] = d]
        /\ answer' = [answer EXCEPT ![c] =
                        IF consumedBy = Unused THEN "first_use" ELSE "replayed"]

\* Any of the checks above fails: ROLLBACK, then the LedgerError is raised.
Refuse(c) ==
    /\ \/ /\ pc[c] = "prior"
          /\ ~PriorPresent(request[c].header, tx[c].accounts)
       \/ /\ pc[c] = "present"
          /\ request[c].header \notin tx[c].accounts
       \/ /\ pc[c] = "account"
          /\ ~AccountAdmissible(request[c].header, tx[c].accounts)
       \/ /\ pc[c] = "receipt"
          /\ ~ReceiptAdmissible(request[c].receipt, tx[c].receipts)
       \/ /\ pc[c] = "token"
          /\ ~TokenAdmissible(tx[c].tokens[request[c].token],
                              request[c].decision)
    /\ Rollback(c, "LedgerError")

\* COMMIT takes PENDING, which keeps new SELECTs out ...
StartCommit(c) ==
    /\ Goto(c, "commit", "pending")
    /\ UNCHANGED <<tx, answer>>

\* ... and, when the open ones are over, publishes the transaction.
Commit(c) ==
    /\ pc[c] = "pending"
    /\ Wrote(c) => shared = {}
    /\ objects' = tx[c].objects
    /\ accounts' = tx[c].accounts
    /\ receipts' = tx[c].receipts
    /\ tokens' = tx[c].tokens
    /\ Finish(c, answer[c])
    /\ UNCHANGED shared

\* COMMIT stands in the else branch: the error of a COMMIT that waited too
\* long is not caught, and leaving the with block rolls the transaction back.
CommitTimesOut(c) ==
    /\ pc[c] = "pending"
    /\ Wrote(c)
    /\ shared # {}
    /\ Rollback(c, "OperationalError")

-------------------------------------------------------------------------------
(***************************************************************************)
(* register_token is one autocommit statement; it waits like a COMMIT when *)
(* it has a row to write.                                                  *)
(***************************************************************************)
RegisterReady(c) ==
    /\ reserved = None
    /\ tokens[request[c].token] # Unregistered \/ shared = {}

RegisterToken(c) ==
    /\ pc[c] = "register_token"
    /\ RegisterReady(c)
    /\ tokens' = [tokens EXCEPT ![request[c].token] =
                    IF @ = Unregistered THEN Unused ELSE @]
    /\ Finish(c, "ok")
    /\ UNCHANGED <<objects, accounts, receipts, shared>>

RegisterTimesOut(c) ==
    /\ pc[c] = "register_token"
    /\ ~RegisterReady(c)
    /\ Rollback(c, "OperationalError")

(***************************************************************************)
(* counts, get_object and verify run their SELECTs one after the other and *)
(* in no transaction.                                                      *)
(***************************************************************************)
\* Mutant: receipts are counted before accounts.
CountedReceiptsFirst == <<objects, receipts, accounts,
                          {t \in Tokens : tokens[t] # Unregistered}>>

CountedTables == <<objects, accounts, receipts,
                   {t \in Tokens : tokens[t] # Unregistered}>>

\* The rows verify reports: of the page structure, of the objects and of the
\* tokens none, since their columns hold what was hashed or validated.
ReportedRows == <<{}, {}, {h \in accounts : ~ValidHeader(h)},
                  {r \in receipts : ~ValidReceipt(r)}, {}>>

\* What the n-th SELECT of call q finds: a count, a row, rows to report.
Found(q, n) ==
    CASE q.kind = "counts" -> Cardinality(CountedTables[n])
      [] q.kind = "get_object" -> IF q.object \in objects THEN 1 ELSE 0
      [] q.kind = "verify" -> Cardinality(ReportedRows[n])

\* The answer of call q after its SELECTs found these numbers.
Report(q, found) ==
    CASE q.kind = "counts" -> "ok"
      [] q.kind = "get_object" -> IF found[1] = 1 THEN "ok" ELSE "KeyError"
      [] q.kind = "verify" ->
            IF \A n \in DOMAIN found : found[n] = 0 THEN "ok" ELSE "errors"

StartSelect(c) ==
    /\ pc[c] \in DOMAIN Selects
    /\ c \notin shared
    /\ ~CommitPending
    /\ shared' = shared \cup {c}
    /\ tally' = [tally EXCEPT ![c] = Append(@, Found(request[c], Len(@) + 1))]
    /\ UNCHANGED <<tables, schema, script, reserved, pc, request, answer, tx,
                   firstUses>>

EndSelect(c) ==
    /\ pc[c] \in DOMAIN Selects
    /\ c \in shared
    /\ shared' = shared \ {c}
    /\ UNCHANGED tables
    /\ IF Len(tally[c]) < Selects[pc[c]]
       THEN UNCHANGED <<schema, script, reserved, pc, request, answer, tx,
                        tally, firstUses>>
       ELSE Finish(c, Report(request[c], tally[c]))

SelectTimesOut(c) ==
    /\ pc[c] \in DOMAIN Selects
    /\ c \notin shared
    /\ CommitPending
    /\ Rollback(c, "OperationalError")

-------------------------------------------------------------------------------
Return(c) ==
    /\ pc[c] = "done"
    /\ Reset(c, "idle")
    /\ firstUses' = IF answer[c] = "first_use"
                    THEN [firstUses EXCEPT ![request[c].token] = @ + 1]
                    ELSE firstUses

\* The process is killed; started again, it may make the same call again.
Crash(c) ==
    /\ pc[c] # "closed"
    /\ Reset(c, "closed")
    /\ UNCHANGED firstUses

Transaction(c) ==
    \/ Begin(c) \/ BeginTimesOut(c)
    \/ ObjectStatement(c)
    \/ SelectPrior(c) \/ SelectExactVersion(c)
    \/ InsertAccount(c) \/ InsertReceipt(c)
    \/ TokenStatement(c)
    \/ Refuse(c)
    \/ StartCommit(c) \/ Commit(c) \/ CommitTimesOut(c)

Constructor(c) ==
    \/ PassTable(c) \/ StartCreate(c) \/ FinishCreate(c)
    \/ OpenTimesOut(c) \/ Open(c)

Step(c) ==
    \/ Constructor(c)
    \/ Transaction(c)
    \/ RegisterToken(c) \/ RegisterTimesOut(c)
    \/ StartSelect(c) \/ EndSelect(c) \/ SelectTimesOut(c)
    \/ Return(c)

Next ==
    \E c \in Clients :
        \/ Start(c)
        \/ \E q \in Requests : Call(c, q)
        \/ Step(c)
        \/ Crash(c)

Spec == Init /\ [][Next]_vars

\* A process that runs goes on executing its statements, and SQLite gives up a
\* lock it has waited 5 seconds for.  No process is obliged to be started, or
\* started again after a kill, or to make a call.
FairSpec == Spec /\ \A c \in Clients : WF_vars(Step(c))

-------------------------------------------------------------------------------
\* The effects of a call are in the committed tables.
Applied(q) ==
    CASE q.kind \in Bundles -> q.header \in accounts /\ q.receipt \in receipts
      [] q.kind \in {"put_object", "get_object"} -> q.object \in objects
      [] q.kind = "register_token" -> tokens[q.token] # Unregistered
      [] q.kind = "consume_token" -> tokens[q.token] = q.decision
      [] OTHER -> TRUE

\* A call that is going to report success has its whole effect in the
\* committed tables, whatever other processes commit, roll back or lose to a
\* crash before the caller reads the answer.
SuccessIsDurable ==
    \A c \in Clients :
        pc[c] = "done" /\ answer[c] \in Succeeded => Applied(request[c])

\* No call ever runs on a database that lacks a table: each constructor goes
\* through its own script, while others create tables under their locks, give
\* up waiting, or are killed in the middle of a creation.
SchemaComplete ==
    \A c \in Clients :
        pc[c] \notin {"closed", "opening", "creating"} => schema = Created(4)

\* consume_token tells at most one caller that it was the first to use the
\* token, with any interleaving of competing calls, replays and crashes.
OneFirstUse == \A t \in Tokens : firstUses[t] <= 1

\* counts reads its tables one at a time while others commit, and still never
\* reports more account versions than receipts: every header is committed with
\* a receipt of its own, and receipts are counted after accounts.
CountsConsistent ==
    \A c \in Clients :
        Len(tally[c]) >= 3 /\ request[c].kind = "counts" =>
            tally[c][2] <= tally[c][3]

\* A retry of a call whose effect is already committed (its answer was lost in
\* a crash, or it is an exact replay) is never refused with a LedgerError.
ReplayNeverRefused ==
    [][\A c \in Clients :
          /\ pc'[c] = "done" /\ pc[c] # "done" /\ answer'[c] = "LedgerError"
          /\ pc[c] # "idle"
          => ~Applied(request[c])]_vars

\* Statement by statement, with locks and crashes, the database still behaves
\* as the atomic ledger: every step is one whole operation or changes no table.
ImplementsLedger == Abstract!Spec

\* No call and no constructor waits forever, for a lock or for another process:
\* it returns, raises, or its process is killed.
EveryCallEnds ==
    \A c \in Clients :
        pc[c] \notin {"closed", "idle"} ~> pc[c] \in {"closed", "idle"}

\* Whoever takes the write lock gives it back, also when its call is refused.
WriterReleases == \A c \in Clients : reserved = c ~> reserved # c
===============================================================================
