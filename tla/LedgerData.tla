------------------------------ MODULE LedgerData ------------------------------
(***************************************************************************)
(* The immutable values the ledger stores (accounting.py) and the row      *)
(* checks of SQLiteLedger (store.py), as operators on the tables.          *)
(*                                                                         *)
(* A SHA-256 content reference is modelled by the content itself: equal    *)
(* references mean equal canonical bytes.  So header_ref(h) is h, the      *)
(* receipt_id of r is r, and an account_id made by _account_identity is    *)
(* the record of its opening basis.                                        *)
(***************************************************************************)
EXTENDS Naturals, Sequences

CONSTANTS
    NoRef,         \* an optional reference that is None
    PackageNA,     \* the account_ref of a package-level receipt
    Unregistered,  \* no serial_tokens row
    Unused         \* a serial_tokens row whose consumed_by is NULL

OpeningOperations == {"ROOT", "CHILD", "SUCCESSOR"}

AccountIdentity(h) ==
    [label |-> h.label, op |-> h.op, origin |-> h.origin,
     parent |-> h.parent, superseded |-> h.superseded]

\* The status each residual operation must result in.
ResultingStatus ==
    [REGISTER |-> "OPEN", CARRY |-> "OPEN", REOPEN |-> "REOPENED",
     SPLIT |-> "SUPERSEDED", SUPERSEDE |-> "SUPERSEDED",
     PARTIAL_DISCHARGE |-> "PARTIALLY_DISCHARGED",
     SCOPED_DISCHARGE |-> "DISCHARGED_IN_SCOPE"]

\* children are the child residual ids of a SPLIT; allocated says that it has
\* a coverage witness or an explicit remainder.
ValidResidual(p) ==
    /\ p.status = ResultingStatus[p.operation]
    /\ p.operation = "REGISTER" <=> p.prior = <<>>
    /\ p.operation = "SPLIT" => Len(p.children) >= 2 /\ p.allocated
    /\ p.operation # "SPLIT" => p.children = <<>>

Distinct(links) ==
    \A i, j \in DOMAIN links : links[i] = links[j] => i = j

\* The validators of the payload classes; the other payloads are free.
ValidPayload(p) ==
    /\ p.type = "CutReceipt" => p.operation \in OpeningOperations
    /\ p.type = "AccountTransitionReceipt" => p.nextVersion >= 2
    /\ p.type = "LifecycleTransitionReceipt" =>
          (p.resulting = "ABK_REOPENED" <=> p.delta # NoRef)
    /\ p.type = "ClosureReceipt" => (p.status = "REOPENED" <=> p.reopens # NoRef)
    /\ p.type = "ResidualReceipt" => ValidResidual(p) /\ Distinct(p.children)

\* reopens_links, which nothing else reads, are left out.
ValidReceipt(r) ==
    /\ ValidPayload(r.payload)
    /\ \A links \in {r.priorLinks, r.parentLinks, r.supersedesLinks} :
          Distinct(links)

\* The links that cite an optional pair of references.
Cited(pair) == IF pair = NoRef THEN <<>> ELSE pair

\* parent and superseded stand for the paired (account_ref, receipt_ref).
ValidHeader(h) ==
    /\ h.op \in OpeningOperations \cup {"VERSION"}
    /\ h.op = "VERSION" <=> h.version >= 2
    /\ h.op = "VERSION" <=> h.prior # NoRef
    /\ h.op = "CHILD" <=> h.parent # NoRef
    /\ h.op = "SUCCESSOR" <=> h.superseded # NoRef
    /\ h.op \in OpeningOperations => h.account = AccountIdentity(h)

ValidOpening(h, r) ==
    /\ ValidHeader(h)
    /\ h.op \in OpeningOperations
    /\ r.account = h.account
    /\ r.origin = h.origin
    /\ ValidReceipt(r)
    /\ r.payload.type = "CutReceipt"
    /\ r.payload.operation = h.op
    /\ r.payload.cut = h.origin
    /\ r.parentLinks = Cited(h.parent)
    /\ r.supersedesLinks = Cited(h.superseded)

ValidVersionOpening(h, r) ==
    /\ ValidHeader(h)
    /\ h.op = "VERSION"
    /\ r.account = h.account
    /\ r.origin = h.origin
    /\ ValidReceipt(r)
    /\ r.payload.type = "AccountTransitionReceipt"
    /\ r.payload.nextVersion = h.version
    /\ r.payload.priorVersion = h.prior
    /\ r.priorLinks = <<h.prior>>

-------------------------------------------------------------------------------
\* The primary key of the accounts table.
KeyOf(h) == <<h.account, h.version>>

\* Mutant: an existing row under the key is not compared.
AccountOverwritten(h, accounts) == TRUE

\* _insert_account succeeds: a row under this key has the same bytes.
AccountAdmissible(h, accounts) ==
    \A g \in accounts : KeyOf(g) = KeyOf(h) => g = h

\* Mutant: any order beyond the last one will do.
IsLaterOrder(n, a, receipts) ==
    \A s \in receipts : s.account = a => s.order < n

\* n is expected_order: MAX(admission_order) + 1, or 0 without receipts.
IsNextOrder(n, a, receipts) ==
    \/ /\ n = 0
       /\ \A s \in receipts : s.account # a
    \/ /\ \A s \in receipts : s.account = a => s.order < n
       /\ \E s \in receipts : s.account = a /\ s.order + 1 = n

\* Mutant: any order not taken yet will do.
ReceiptAtFreeOrder(r, receipts) ==
    /\ r.account # PackageNA
    /\ \A s \in receipts : s.account = r.account => s.order # r.order

\* Mutant: the order is not compared with the receipts of the account.
ReceiptUnordered(r, receipts) == r.account # PackageNA

\* Mutant: an exact replay is not recognised.
ReceiptNeverReplayed(r, receipts) ==
    r.account # PackageNA /\ IsNextOrder(r.order, r.account, receipts)

\* _insert_receipt succeeds: an exact replay, or the next order of its account.
ReceiptAdmissible(r, receipts) ==
    /\ r.account # PackageNA
    /\ \/ r \in receipts
       \/ IsNextOrder(r.order, r.account, receipts)

\* commit_version's SELECT of the immediate predecessor, and its comparison.
PriorPresent(h, accounts) ==
    /\ h.prior \in accounts
    /\ KeyOf(h.prior) = <<h.account, h.version - 1>>

\* Mutant: the decision that consumed the token is not compared.
TokenReusable(state, d) == state # Unregistered

\* consume_token succeeds: registered, and unused or used by this decision.
TokenAdmissible(state, d) == state \in {Unused, d}
===============================================================================
