-------------------------------- MODULE Ledger --------------------------------
(***************************************************************************)
(* What SQLiteLedger promises its callers: an append-only serial ledger    *)
(* whose operations are atomic.  A refused call changes nothing, so it is  *)
(* a stuttering step here; SQLiteLedger.tla has the calls, the locks, the  *)
(* statements, the failures and the answers.                               *)
(***************************************************************************)
EXTENDS LedgerData

CONSTANTS
    Headers,    \* the AccountHeader values callers may present
    Receipts,   \* the TypedReceipt values callers may present
    Objects,    \* the values given to put_object
    Tokens,     \* serial token references
    Decisions   \* decision references that may consume a token

\* version is Field(ge=1) and admission_order Field(ge=0), both integers.
ASSUME HeaderFields == \A h \in Headers : h.version \in Nat \ {0}
ASSUME ReceiptFields == \A r \in Receipts : r.order \in Nat
\* A decision is a hash reference, so it is neither NULL nor a missing row.
ASSUME TokenStates ==
    /\ Unregistered # Unused
    /\ Unregistered \notin Decisions
    /\ Unused \notin Decisions

VARIABLES
    objects,   \* the objects table
    accounts,  \* the accounts table
    receipts,  \* the receipts table
    tokens     \* serial_tokens: Unregistered, Unused or the consuming decision

vars == <<objects, accounts, receipts, tokens>>

TypeOK ==
    /\ objects \subseteq Objects
    /\ accounts \subseteq Headers
    /\ receipts \subseteq Receipts
    /\ tokens \in [Tokens -> {Unregistered, Unused} \cup Decisions]

Init ==
    /\ objects = {}
    /\ accounts = {}
    /\ receipts = {}
    /\ tokens = [t \in Tokens |-> Unregistered]

PutObject(o) ==
    /\ objects' = objects \cup {o}
    /\ UNCHANGED <<accounts, receipts, tokens>>

CommitOpening(h, r) ==
    /\ ValidOpening(h, r)
    /\ AccountAdmissible(h, accounts)
    /\ ReceiptAdmissible(r, receipts)
    /\ accounts' = accounts \cup {h}
    /\ receipts' = receipts \cup {r}
    /\ UNCHANGED <<objects, tokens>>

\* Mutant: the header is committed in a transaction of its own.
CommitVersionAlone(h, r) ==
    /\ ValidVersionOpening(h, r)
    /\ PriorPresent(h, accounts)
    /\ AccountAdmissible(h, accounts)
    /\ accounts' = accounts \cup {h}
    /\ UNCHANGED <<objects, receipts, tokens>>

CommitVersion(h, r) ==
    /\ ValidVersionOpening(h, r)
    /\ PriorPresent(h, accounts)
    /\ AccountAdmissible(h, accounts)
    /\ ReceiptAdmissible(r, receipts)
    /\ accounts' = accounts \cup {h}
    /\ receipts' = receipts \cup {r}
    /\ UNCHANGED <<objects, tokens>>

\* Mutant: the exact account version is not looked up.
AppendReceiptUnchecked(h, r) ==
    /\ ValidHeader(h)
    /\ ValidReceipt(r)
    /\ r.account = h.account
    /\ ReceiptAdmissible(r, receipts)
    /\ receipts' = receipts \cup {r}
    /\ UNCHANGED <<objects, accounts, tokens>>

\* Mutant: the receipt is taken as it was constructed or copied.
AppendReceiptUnvalidated(h, r) ==
    /\ ValidHeader(h)
    /\ r.account = h.account
    /\ h \in accounts
    /\ ReceiptAdmissible(r, receipts)
    /\ receipts' = receipts \cup {r}
    /\ UNCHANGED <<objects, accounts, tokens>>

\* h is the exact account version the caller holds, the latest or not.
AppendReceipt(h, r) ==
    /\ ValidHeader(h)
    /\ ValidReceipt(r)
    /\ r.account = h.account
    /\ h \in accounts
    /\ ReceiptAdmissible(r, receipts)
    /\ receipts' = receipts \cup {r}
    /\ UNCHANGED <<objects, accounts, tokens>>

RegisterToken(t) ==
    /\ tokens' = [tokens EXCEPT ![t] = IF @ = Unregistered THEN Unused ELSE @]
    /\ UNCHANGED <<objects, accounts, receipts>>

\* Mutant: consumed_by is a flag instead of the decision.
ConsumeTokenAsFlag(t, d) ==
    /\ TokenAdmissible(tokens[t], d)
    /\ tokens' = [tokens EXCEPT ![t] = TRUE]
    /\ UNCHANGED <<objects, accounts, receipts>>

ConsumeToken(t, d) ==
    /\ TokenAdmissible(tokens[t], d)
    /\ tokens' = [tokens EXCEPT ![t] = d]
    /\ UNCHANGED <<objects, accounts, receipts>>

Next ==
    \/ \E o \in Objects : PutObject(o)
    \/ \E h \in Headers, r \in Receipts :
          \/ CommitOpening(h, r)
          \/ CommitVersion(h, r)
          \/ AppendReceipt(h, r)
    \/ \E t \in Tokens : RegisterToken(t)
    \/ \E t \in Tokens, d \in Decisions : ConsumeToken(t, d)

Spec == Init /\ [][Next]_vars

-------------------------------------------------------------------------------
(***************************************************************************)
(* Safety.                                                                 *)
(***************************************************************************)
\* No fork: an account has at most one header of each version, and every
\* version after the first names, by content, the header one version before
\* it, which is present and belongs to the same account.
VersionChain ==
    /\ \A g, h \in accounts : KeyOf(g) = KeyOf(h) => g = h
    /\ \A h \in accounts : h.version >= 2 => PriorPresent(h, accounts)

\* The receipts of an account carry the admission orders 0, 1, 2, ... with no
\* gap and no two receipts at one order.
OrdersContiguous ==
    /\ \A r, s \in receipts :
          r.account = s.account /\ r.order = s.order => r = s
    /\ \A r \in receipts :
          r.order > 0 =>
              \E s \in receipts : s.account = r.account /\ s.order + 1 = r.order

\* commit_opening is one transaction: the first receipt of every account is
\* the CutReceipt that its own version-1 header was opened with, and an
\* account has a receipt exactly when it has that header.
OpenedByItsCut ==
    /\ \A h \in accounts :
          h.version = 1 =>
              \E r \in receipts : r.order = 0 /\ ValidOpening(h, r)
    /\ \A r \in receipts :
          \E h \in accounts : h.account = r.account /\ h.version = 1

\* commit_version is one transaction: no later version of an account is
\* present without the AccountTransitionReceipt that admitted it.
VersionsHaveTransitions ==
    \A h \in accounts :
        h.version >= 2 => \E r \in receipts : ValidVersionOpening(h, r)

\* verify() finds nothing to report of accounts and receipts: every header and
\* receipt that was ever written, by any of the operations, passes the validators
\* that verify applies to it again.
VerifyFindsNothing ==
    /\ \A h \in accounts : ValidHeader(h)
    /\ \A r \in receipts : ValidReceipt(r) /\ r.account # PackageNA

\* A consumed serial token stays consumed by the same decision, whatever is
\* registered, replayed or attempted afterwards.
TokenUsedOnce ==
    [][\A t \in Tokens :
          tokens[t] \in Decisions => tokens'[t] = tokens[t]]_vars

\* A step never rewrites or removes a header or a receipt, and a receipt it adds
\* comes after every receipt its account already had.
AppendOnly ==
    [][/\ accounts \subseteq accounts'
       /\ receipts \subseteq receipts'
       /\ \A r \in receipts' \ receipts, s \in receipts :
             s.account = r.account => s.order < r.order]_vars

-------------------------------------------------------------------------------
(***************************************************************************)
(* What the documents say of the accounts and the code does not enforce.   *)
(***************************************************************************)
\* README.md: VERSION preserves the same account and origin, otherwise the
\* constructor or ledger refuses the operation.
VersionPreservesOrigin ==
    \A g, h \in accounts : g.account = h.account => g.origin = h.origin
===============================================================================
