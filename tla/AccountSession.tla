---------------------------- MODULE AccountSession ----------------------------
(***************************************************************************)
(* Callers that keep accounts in one ledger: each builds a bundle from the *)
(* rows it knows of and submits it.  Between the two, others commit; the   *)
(* answer may be lost, and the same bundle is then submitted again; and a  *)
(* caller may be killed, forgetting what it knew.                          *)
(*                                                                         *)
(* The ledger compares a row with its table and looks no reference up, so  *)
(* whether lineage is a chain rests on the constructors, on the admission  *)
(* order and on what callers know.  The callers are external: they take    *)
(* references only from rows that were committed and, unless they leave it *)
(* to open_version, number a receipt after the last one they know.         *)
(***************************************************************************)
EXTENDS Accounting, FiniteSets

CONSTANTS
    Callers,
    Labels, Cuts, Limitations,  \* what callers open accounts with
    Burdens,                    \* what they register residuals for
    Operations, Statuses,       \* what they ask transition_residual for
    MaxReceipts,                \* bound: receipts in the ledger
    None                        \* no bundle

ASSUME ReceiptBound == MaxReceipts \in Nat

VARIABLES
    accounts, receipts,  \* the tables of the ledger
    knows,               \* the rows each caller knows of
    draft                \* the bundle each caller has yet to see answered

vars == <<accounts, receipts, knows, draft>>

\* Objects and tokens play no part in accounts.
Store == INSTANCE Ledger WITH
    Headers <- {}, Receipts <- {}, Objects <- {}, Tokens <- {}, Decisions <- {},
    objects <- {}, tokens <- <<>>

Ignorance == [accounts |-> {}, receipts |-> {}]

Known(c, account) == {r \in knows[c].receipts : r.account = account}

\* order comes after the last receipt of the account that the caller knows.
FollowsKnown(c, order, account) ==
    IsNextOrder(order, account, knows[c].receipts)

Latest(R) == {r \in R : \A s \in R : s.order <= r.order}

Residuals(R) == {r \in R : r.payload.type = "ResidualReceipt"}

\* What the ledger makes of a bundle.
Fits(d) ==
    CASE d.kind = "opening" -> ValidOpening(d.header, d.receipt)
      [] d.kind = "version" -> ValidVersionOpening(d.header, d.receipt)
      [] d.kind = "append" -> ValidHeader(d.header) /\ ValidReceipt(d.receipt)

Submits(d) ==
    CASE d.kind = "opening" -> Store!CommitOpening(d.header, d.receipt)
      [] d.kind = "version" -> Store!CommitVersion(d.header, d.receipt)
      [] d.kind = "append" -> Store!AppendReceipt(d.header, d.receipt)

\* The row checks that Submits makes.
Admitted(d) ==
    /\ d.kind = "append" => d.header \in accounts
    /\ d.kind = "version" => PriorPresent(d.header, accounts)
    /\ d.kind # "append" => AccountAdmissible(d.header, accounts)
    /\ ReceiptAdmissible(d.receipt, receipts)

TypeOK ==
    \A c \in Callers :
        /\ knows[c].accounts \subseteq accounts
        /\ knows[c].receipts \subseteq receipts
        /\ draft[c] # None => Fits(draft[c])

Init ==
    /\ accounts = {}
    /\ receipts = {}
    /\ knows = [c \in Callers |-> Ignorance]
    /\ draft = [c \in Callers |-> None]

-------------------------------------------------------------------------------
(***************************************************************************)
(* A caller builds a bundle from the rows it knows.                        *)
(***************************************************************************)
Draft(c, kind, bundle) ==
    /\ draft[c] = None
    /\ Cardinality(receipts) < MaxReceipts
    /\ draft' = [draft EXCEPT ![c] = [kind |-> kind, header |-> bundle.header,
                                       receipt |-> bundle.receipt]]
    /\ UNCHANGED <<accounts, receipts, knows>>

OpensAccount(c) ==
    \E label \in Labels, cut \in Cuts, l \in Limitations :
        \/ Draft(c, "opening", OpenRoot(label, cut, l))
        \/ \E r \in Latest(knows[c].receipts) :
              \/ Draft(c, "opening", OpenChild(label, r.account, r, cut, l))
              \/ Draft(c, "opening", OpenSuccessor(label, r.account, r, cut, l))

OpensVersion(c) ==
    \E prior, cited \in knows[c].accounts :
        LET transition == Transition(cited, cited.version + 1)
        IN  /\ Continues(prior, transition)
            /\ \E order \in 0 .. MaxReceipts :
                  /\ \/ order = DefaultOrder(transition)
                     \/ FollowsKnown(c, order, prior.account)
                  /\ Draft(c, "version", OpenVersion(prior, transition, order))

Appends(c, header, payload, r) ==
    \E order \in 0 .. MaxReceipts :
        /\ FollowsKnown(c, order, header.account)
        /\ AppendsAt(order, <<r>>)
        /\ ValidPayload(payload)
        /\ Draft(c, "append", AppendTo(header, payload, order, <<r>>))

AppendsTest(c) ==
    \E h \in knows[c].accounts : \E r \in Latest(Known(c, h.account)) :
        Appends(c, h, [type |-> "TestReceipt"], r)

RegistersResidual(c) ==
    \E h \in knows[c].accounts, burden \in Burdens :
        \E r \in Latest(Known(c, h.account)) :
            LET payload == RegisterResidual(h.account, burden)
            IN  /\ \A s \in Residuals(knows[c].receipts) : s.payload.id # payload.id
                /\ Appends(c, h, payload, r)

\* The prior is the latest receipt of its residual that the caller knows.
TransitionsResidual(c) ==
    \E h \in knows[c].accounts :
        \E r \in Residuals(Known(c, h.account)) :
            /\ \A s \in Residuals(Known(c, h.account)) :
                  s.payload.id = r.payload.id => s.order <= r.order
            /\ \E operation \in Operations, status \in Statuses,
                  children \in {<<>>, <<"left", "right">>} :
                  Appends(c, h, TransitionResidual(r.payload, operation, r, status,
                                                   children, children # <<>>), r)

Builds(c) ==
    \/ OpensAccount(c) \/ OpensVersion(c)
    \/ AppendsTest(c) \/ RegistersResidual(c) \/ TransitionsResidual(c)

-------------------------------------------------------------------------------
Learn(c, headers, rows) ==
    knows' = [knows EXCEPT ![c] = [accounts |-> @.accounts \cup headers,
                                   receipts |-> @.receipts \cup rows]]

\* The ledger takes the bundle and the caller hears of it.
Succeeds(c) ==
    /\ draft[c] # None
    /\ Submits(draft[c])
    /\ Learn(c, {draft[c].header}, {draft[c].receipt})
    /\ draft' = [draft EXCEPT ![c] = None]

\* The ledger takes the bundle and the answer is lost: the caller will submit
\* it once more.
GoesUnanswered(c) ==
    /\ draft[c] # None
    /\ Submits(draft[c])
    /\ UNCHANGED <<knows, draft>>

\* Mutant: what was submitted counts as known, whatever the ledger answers.
RefusedYetKnown(c) ==
    /\ draft[c] # None
    /\ ~Admitted(draft[c])
    /\ Learn(c, {draft[c].header}, {draft[c].receipt})
    /\ draft' = [draft EXCEPT ![c] = None]
    /\ UNCHANGED <<accounts, receipts>>

\* LedgerError: a row in the way, or an order that is not the next.
IsRefused(c) ==
    /\ draft[c] # None
    /\ ~Admitted(draft[c])
    /\ draft' = [draft EXCEPT ![c] = None]
    /\ UNCHANGED <<accounts, receipts, knows>>

\* The caller hears of what others committed.
Catches(c) ==
    /\ Learn(c, accounts, receipts)
    /\ UNCHANGED <<accounts, receipts, draft>>

IsKilled(c) ==
    /\ knows' = [knows EXCEPT ![c] = Ignorance]
    /\ draft' = [draft EXCEPT ![c] = None]
    /\ UNCHANGED <<accounts, receipts>>

Next ==
    \E c \in Callers :
        \/ Builds(c)
        \/ Succeeds(c) \/ GoesUnanswered(c) \/ IsRefused(c)
        \/ Catches(c) \/ IsKilled(c)

Spec == Init /\ [][Next]_vars

-------------------------------------------------------------------------------
\* The receipts of a residual form a chain: no two of them continue the same
\* prior receipt and only one registers it, although the ledger looks neither
\* up and two callers may build on the same row (accounting.py:657-712).
LineageIsAChain ==
    \A r, s \in Residuals(receipts) :
        r.payload.id = s.payload.id /\ r.payload.prior = s.payload.prior => r = s

\* Every version of an account and all its receipts carry the origin that its
\* identity was made from, which no validator compares (accounting.py:573-603).
OriginPreserved ==
    \A row \in accounts \cup receipts : row.origin = row.account.origin

\* Another bundle's row is where one of d would go.
Rivalled(d) ==
    \/ \E s \in receipts \ {d.receipt} :
          s.account = d.receipt.account /\ s.order = d.receipt.order
    \/ /\ d.kind # "append"
       /\ \E h \in accounts \ {d.header} : KeyOf(h) = KeyOf(d.header)

\* A bundle is refused only because another row was committed in its place: the
\* order open_version takes by itself, or a caller derives from what it knows,
\* never runs ahead of the account, the prior header is there, and a bundle
\* submitted again after a lost answer is recognised (accounting.py:573-625,
\* store.py:135-237, 294-331).
RefusedByRivals ==
    \A c \in Callers :
        draft[c] # None /\ ~Admitted(draft[c]) => Rivalled(draft[c])

Announces(r, n, account) ==
    /\ r.account = account
    /\ r.payload.type = "AccountTransitionReceipt"
    /\ r.payload.nextVersion = n

\* No version is announced before the version it continues, also when callers
\* leave the order to open_version or announce a version twice.
VersionsInOrder ==
    \A h \in accounts, s \in receipts :
        h.version >= 2 /\ Announces(s, h.version + 1, h.account) =>
            \E r \in receipts :
                Announces(r, h.version, h.account) /\ r.order < s.order
===============================================================================
