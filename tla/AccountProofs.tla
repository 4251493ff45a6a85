----------------------------- MODULE AccountProofs -----------------------------
(***************************************************************************)
(* Theorems about the callers of the ledger, for every set of callers,     *)
(* labels, cuts and burdens: a residual is never continued twice from the  *)
(* same receipt, an account keeps its origin, versions are announced in    *)
(* order, and a bundle is refused only because of a row that was committed *)
(* in its place, never by a validator or for an order ahead of the account.*)
(*                                                                         *)
(* The first rests on what admission orders say about knowledge.  What a   *)
(* caller knows of an account is all of it up to some order (WellKnown);   *)
(* so when it drafts a receipt, it knows every receipt before the order it *)
(* drafts for, and none of these continues the same prior (FreshDraft).    *)
(* Others may commit meanwhile, but only at that order or later, and then  *)
(* the draft is refused.  The others add to this invariant what holds of   *)
(* the drafts they are about (StepShapes sorts the steps for them).  From  *)
(* the chain and the rows it cites follows the history of every residual:  *)
(* one registration, and a line of receipts after it (ResidualsTraceable). *)
(* At the end, an instance of LedgerProofs: the ledger's promises hold of  *)
(* the rows that callers commit (BooksAreSound).                           *)
(***************************************************************************)
EXTENDS AccountSession, FiniteSetTheorems, WellFoundedInduction, TLAPS

IsResidual(r) == r.payload.type = "ResidualReceipt"

\* What holds of the tables.
Rows ==
    /\ \A r \in receipts : r.order \in Nat
    /\ \A r, s \in receipts : r.account = s.account /\ r.order = s.order => r = s
    /\ \A h \in accounts :
          /\ h.version \in Nat
          /\ \E r \in receipts : r.account = h.account /\ r.order + 1 >= h.version
    /\ \A r \in receipts : IsResidual(r) =>
          /\ r.payload.id[1] = r.account
          /\ \/ r.payload.prior = <<>>
             \/ \E s \in receipts : r.payload.prior = <<s>> /\ s.order < r.order

\* What a caller knows.
WellKnown(c) ==
    /\ knows[c].accounts \subseteq accounts
    /\ knows[c].receipts \subseteq receipts
    /\ \A r \in knows[c].receipts, s \in receipts :
          s.account = r.account /\ s.order <= r.order => s \in knows[c].receipts
    /\ \A h \in knows[c].accounts :
          \E r \in knows[c].receipts :
              r.account = h.account /\ r.order + 1 >= h.version

\* What holds of the bundle d that caller c has drafted.
FreshDraft(c, d) ==
    LET r == d.receipt
    IN  /\ d.kind \in {"opening", "version", "append"}
        /\ r.order \in Nat
        /\ d.header.account = r.account
        /\ d.kind = "append" => d.header \in knows[c].accounts
        /\ d.kind # "append" =>
              d.header.version \in Nat /\ r.order + 1 >= d.header.version
        /\ \A s \in receipts :
              s.account = r.account /\ s.order < r.order => s \in knows[c].receipts
        /\ r.order > 0 =>
              \E s \in knows[c].receipts :
                  s.account = r.account /\ s.order + 1 >= r.order
        /\ IsResidual(r) =>
              /\ r.payload.id[1] = r.account
              /\ \/ r.payload.prior = <<>>
                 \/ \E s \in receipts : r.payload.prior = <<s>> /\ s.order < r.order
              /\ \A s \in receipts :
                    /\ IsResidual(s) /\ s.account = r.account
                    /\ s.order < r.order /\ s.payload.id = r.payload.id
                    => s.payload.prior # r.payload.prior

IInv ==
    /\ DOMAIN knows = Callers /\ DOMAIN draft = Callers
    /\ Rows
    /\ \A c \in Callers :
          WellKnown(c) /\ (draft[c] # None => FreshDraft(c, draft[c]))
    /\ LineageIsAChain

-------------------------------------------------------------------------------
(***************************************************************************)
(* Building.                                                               *)
(***************************************************************************)
\* An order that follows what a caller knows of an account: it knows all the
\* receipts before, and the last of them.
LEMMA OrderIsInformed ==
  ASSUME Rows, NEW c \in Callers, WellKnown(c), NEW order \in Nat, NEW account,
         FollowsKnown(c, order, account), order # 0
  PROVE  /\ \A s \in receipts :
               s.account = account /\ s.order < order => s \in knows[c].receipts
         /\ \E s \in knows[c].receipts : s.account = account /\ s.order + 1 = order
         /\ \A s \in knows[c].receipts : s.account = account => s.order < order
<1>1. PICK k \in knows[c].receipts : k.account = account /\ k.order + 1 = order
  BY DEF FollowsKnown, IsNextOrder
<1>2. \A s \in knows[c].receipts : s.account = account => s.order < order
  BY DEF FollowsKnown, IsNextOrder
<1>3. ASSUME NEW s \in receipts, s.account = account, s.order < order
      PROVE  s \in knows[c].receipts
  BY <1>1, <1>3 DEF Rows, WellKnown
<1>4. QED
  BY <1>1, <1>2, <1>3

\* A draft of c leaves everything else as it is.
LEMMA DraftInv ==
  ASSUME IInv, NEW c \in Callers, NEW kind, NEW bundle, Draft(c, kind, bundle),
         FreshDraft(c, [kind |-> kind, header |-> bundle.header,
                        receipt |-> bundle.receipt])
  PROVE  IInv'
<1> DEFINE d == [kind |-> kind, header |-> bundle.header,
                 receipt |-> bundle.receipt]
<1>1. /\ UNCHANGED <<accounts, receipts, knows>>
      /\ draft' = [draft EXCEPT ![c] = d]
  BY DEF Draft
<1>2. Rows' /\ LineageIsAChain' /\ \A e \in Callers : WellKnown(e)'
  BY <1>1 DEF IInv, Rows, LineageIsAChain, WellKnown, Residuals
<1>3. ASSUME NEW e \in Callers, draft'[e] # None
      PROVE  FreshDraft(e, draft[e])'
  <2>1. PICK x : x = draft'[e] /\ FreshDraft(e, x)
    BY <1>1, <1>3 DEF IInv
  <2>2. FreshDraft(e, draft[e])'
    BY <1>1, <2>1 DEF FreshDraft
  <2>3. QED
    BY <2>2
<1>4. QED
  BY <1>1, <1>2, <1>3 DEF IInv

LEMMA OpensAccountInv ==
  ASSUME IInv, NEW c \in Callers, OpensAccount(c)
  PROVE  IInv'
<1>1. \E op, label, cut, parent, superseded, l :
        Draft(c, "opening", Open(op, label, cut, parent, superseded, l))
  <2>1. PICK label \in Labels, cut \in Cuts, l \in Limitations :
          \/ Draft(c, "opening", OpenRoot(label, cut, l))
          \/ \E r \in Latest(knows[c].receipts) :
                \/ Draft(c, "opening", OpenChild(label, r.account, r, cut, l))
                \/ Draft(c, "opening", OpenSuccessor(label, r.account, r, cut, l))
    BY DEF OpensAccount
  <2>2. QED
    BY <2>1 DEF OpenRoot, OpenChild, OpenSuccessor
<1>2. PICK op, label, cut, parent, superseded, l :
        Draft(c, "opening", Open(op, label, cut, parent, superseded, l))
  BY <1>1
<1> DEFINE b == Open(op, label, cut, parent, superseded, l)
           d == [kind |-> "opening", header |-> b.header, receipt |-> b.receipt]
<1>3. /\ d.header.account = d.receipt.account /\ d.header.version = 1
      /\ d.receipt.order = 0 /\ d.receipt.payload.type = "CutReceipt"
  BY DEF Open, Bundle, MakeReceipt
<1>4. FreshDraft(c, d)
  BY <1>3 DEF FreshDraft, IsResidual, IInv, Rows
<1>5. QED
  BY <1>2, <1>4, DraftInv

LEMMA OpensVersionInv ==
  ASSUME IInv, NEW c \in Callers, OpensVersion(c)
  PROVE  IInv'
<1>1. PICK prior \in knows[c].accounts, cited \in knows[c].accounts,
           order \in 0 .. MaxReceipts :
        LET transition == Transition(cited, cited.version + 1)
        IN  /\ Continues(prior, transition)
            /\ \/ order = DefaultOrder(transition)
               \/ FollowsKnown(c, order, prior.account)
            /\ Draft(c, "version", OpenVersion(prior, transition, order))
  BY DEF OpensVersion
<1> DEFINE t == Transition(cited, cited.version + 1)
           b == OpenVersion(prior, t, order)
           d == [kind |-> "version", header |-> b.header, receipt |-> b.receipt]
<1>2. /\ prior.version \in Nat /\ order \in Nat /\ WellKnown(c) /\ Rows
      /\ cited = prior
  BY <1>1, ReceiptBound DEF IInv, WellKnown, Rows, Continues, Transition
<1>3. PICK k \in knows[c].receipts :
        k.account = prior.account /\ k.order + 1 >= prior.version
  BY DEF IInv, WellKnown
<1>4. k \in receipts /\ k.order \in Nat
  BY <1>2 DEF WellKnown, Rows
<1>5. /\ d.kind = "version" /\ d.header.account = prior.account
      /\ d.receipt.account = prior.account
      /\ d.header.version = prior.version + 1 /\ d.receipt.order = order
      /\ d.receipt.payload.type = "AccountTransitionReceipt"
  BY <1>2 DEF OpenVersion, Continuation, Bundle, MakeReceipt, Transition
<1>6. /\ order >= prior.version
      /\ \A s \in receipts : s.account = prior.account /\ s.order < order =>
            s \in knows[c].receipts
      /\ \E s \in knows[c].receipts :
            s.account = prior.account /\ s.order + 1 >= order
  <2>1. CASE order = DefaultOrder(t)
    <3>1. order = prior.version
      BY <1>2, <2>1 DEF DefaultOrder, Transition
    <3>2. ASSUME NEW s \in receipts, s.account = prior.account, s.order < order
          PROVE  s \in knows[c].receipts
      <4>1. s.order <= k.order
        BY <1>2, <1>3, <1>4, <3>1, <3>2 DEF Rows
      <4>2. QED
        BY <1>2, <1>3, <3>2, <4>1 DEF WellKnown
    <3>3. QED
      BY <1>2, <1>3, <3>1, <3>2
  <2>2. CASE FollowsKnown(c, order, prior.account)
    <3>1. order # 0 /\ k.order < order
      BY <1>3, <1>4, <2>2, <1>2 DEF FollowsKnown, IsNextOrder, WellKnown
    <3>2. order >= prior.version
      BY <1>2, <1>3, <1>4, <3>1
    <3>3. /\ Rows /\ WellKnown(c) /\ order \in Nat /\ order # 0
          /\ FollowsKnown(c, order, prior.account)
      BY <1>2, <2>2, <3>1
    <3>4. /\ \A s \in receipts :
                s.account = prior.account /\ s.order < order
                => s \in knows[c].receipts
          /\ \E s \in knows[c].receipts :
                s.account = prior.account /\ s.order + 1 = order
      <4> HIDE DEF t, b, d
      <4>1. QED
        BY ONLY c \in Callers, <3>3, OrderIsInformed
    <3>5. QED
      BY <1>2, <3>2, <3>4
  <2>3. QED
    BY <1>1, <2>1, <2>2
<1>7. FreshDraft(c, d)
  BY <1>2, <1>5, <1>6 DEF FreshDraft, IsResidual
<1>8. QED
  BY <1>1, <1>7, DraftInv

\* A receipt appended after what c knows of the account is a fresh draft, if
\* none c knows continues the same prior of the same residual.
LEMMA AppendsInv ==
  ASSUME IInv, NEW c \in Callers, NEW h \in knows[c].accounts, NEW payload,
         NEW link, Appends(c, h, payload, link),
         payload.type = "ResidualReceipt" =>
            /\ payload.id[1] = h.account
            /\ \/ payload.prior = <<>>
               \/ \E s \in Known(c, h.account) : payload.prior = <<s>>
            /\ \A s \in Residuals(Known(c, h.account)) :
                  s.payload.id = payload.id => s.payload.prior # payload.prior
  PROVE  IInv'
<1>1. PICK order \in 0 .. MaxReceipts :
        /\ FollowsKnown(c, order, h.account) /\ order >= 1
        /\ Draft(c, "append", AppendTo(h, payload, order, <<link>>))
  BY DEF Appends, AppendsAt
<1> DEFINE b == AppendTo(h, payload, order, <<link>>)
           d == [kind |-> "append", header |-> b.header, receipt |-> b.receipt]
<1>2. /\ d.kind = "append" /\ d.header = h
      /\ d.receipt.account = h.account /\ d.receipt.order = order
      /\ d.receipt.payload = payload
  BY DEF AppendTo, Bundle, MakeReceipt
<1>3. order \in Nat /\ order # 0 /\ Rows /\ WellKnown(c)
  BY <1>1, ReceiptBound DEF IInv
<1>4. /\ \A s \in receipts :
            s.account = h.account /\ s.order < order => s \in knows[c].receipts
      /\ \E s \in knows[c].receipts : s.account = h.account /\ s.order + 1 = order
      /\ \A s \in knows[c].receipts : s.account = h.account => s.order < order
  BY <1>1, <1>3, OrderIsInformed
<1>5. ASSUME payload.type = "ResidualReceipt"
      PROVE  /\ payload.id[1] = h.account
             /\ \/ payload.prior = <<>>
                \/ \E s \in receipts : payload.prior = <<s>> /\ s.order < order
             /\ \A s \in receipts :
                   /\ IsResidual(s) /\ s.account = h.account
                   /\ s.order < order /\ s.payload.id = payload.id
                   => s.payload.prior # payload.prior
  BY <1>3, <1>4, <1>5 DEF WellKnown, Known, Residuals, IsResidual
<1>6. FreshDraft(c, d)
  BY <1>2, <1>3, <1>4, <1>5 DEF FreshDraft, IsResidual
<1>7. QED
  BY <1>1, <1>6, DraftInv

LEMMA BuildsInv ==
  ASSUME IInv, NEW c \in Callers, Builds(c)
  PROVE  IInv'
<1>1. CASE AppendsTest(c)
  <2>1. [type |-> "TestReceipt"].type # "ResidualReceipt"
    OBVIOUS
  <2>2. QED
    BY <1>1, <2>1, AppendsInv DEF AppendsTest
<1>2. CASE RegistersResidual(c)
  <2>1. PICK h \in knows[c].accounts, burden \in Burdens :
          \E r \in Latest(Known(c, h.account)) :
             LET payload == RegisterResidual(h.account, burden)
             IN  /\ \A s \in Residuals(knows[c].receipts) : s.payload.id # payload.id
                 /\ Appends(c, h, payload, r)
    BY <1>2 DEF RegistersResidual
  <2> DEFINE payload == RegisterResidual(h.account, burden)
  <2>2. payload.id[1] = h.account /\ payload.prior = <<>>
    BY DEF RegisterResidual
  <2>3. \A s \in Residuals(Known(c, h.account)) : s.payload.id # payload.id
    BY <2>1 DEF Residuals, Known
  <2>4. QED
    BY <2>1, <2>2, <2>3, AppendsInv
<1>3. CASE TransitionsResidual(c)
  <2>1. PICK h \in knows[c].accounts :
          \E r \in Residuals(Known(c, h.account)) :
            /\ \A s \in Residuals(Known(c, h.account)) :
                  s.payload.id = r.payload.id => s.order <= r.order
            /\ \E operation \in Operations, status \in Statuses,
                  children \in {<<>>, <<"left", "right">>} :
                  Appends(c, h, TransitionResidual(r.payload, operation, r, status,
                                                   children, children # <<>>), r)
    BY <1>3 DEF TransitionsResidual
  <2>2. PICK r \in Residuals(Known(c, h.account)),
             operation \in Operations, status \in Statuses,
             children \in {<<>>, <<"left", "right">>} :
          /\ \A s \in Residuals(Known(c, h.account)) :
                s.payload.id = r.payload.id => s.order <= r.order
          /\ Appends(c, h, TransitionResidual(r.payload, operation, r, status,
                                              children, children # <<>>), r)
    BY <2>1
  <2> DEFINE payload == TransitionResidual(r.payload, operation, r, status,
                                           children, children # <<>>)
  <2>3. payload.id = r.payload.id /\ payload.prior = <<r>>
    BY DEF TransitionResidual
  <2>4. /\ r \in Known(c, h.account) /\ IsResidual(r) /\ r \in receipts
        /\ r.account = h.account /\ Rows /\ r.order \in Nat
    BY DEF IInv, WellKnown, Residuals, Known, IsResidual, Rows
  <2>5. payload.id[1] = h.account
    BY <2>3, <2>4 DEF Rows
  <2>6. ASSUME NEW s \in Residuals(Known(c, h.account)),
               s.payload.id = payload.id, s.payload.prior = payload.prior
        PROVE  FALSE
    <3>1. s \in receipts /\ IsResidual(s) /\ s.order <= r.order /\ s.order \in Nat
      BY <2>2, <2>3, <2>4, <2>6
         DEF IInv, WellKnown, Residuals, Known, IsResidual, Rows
    <3>2. s.payload.prior = <<r>> /\ <<r>> # <<>>
      BY <2>3, <2>6
    <3>3. PICK x \in receipts : s.payload.prior = <<x>> /\ x.order < s.order
      BY <2>4, <3>1, <3>2 DEF Rows
    <3>4. x = r
      BY <3>2, <3>3
    <3>5. QED
      BY <2>4, <3>1, <3>3, <3>4
  <2>7. QED
    BY <2>2, <2>3, <2>4, <2>5, <2>6, AppendsInv
<1>4. QED
  BY <1>1, <1>2, <1>3, OpensAccountInv, OpensVersionInv DEF Builds

-------------------------------------------------------------------------------
(***************************************************************************)
(* Submitting.                                                             *)
(***************************************************************************)
\* The effect of a submission on the tables.
LEMMA SubmissionEffect ==
  ASSUME NEW c \in Callers, NEW d, d.kind \in {"opening", "version", "append"},
         Submits(d)
  PROVE  /\ receipts' = receipts \cup {d.receipt}
         /\ accounts' = accounts \cup {d.header}
         /\ d.kind = "append" => accounts' = accounts
         /\ d.receipt \in receipts
               \/ IsNextOrder(d.receipt.order, d.receipt.account, receipts)
<1>1. Store!ReceiptAdmissible(d.receipt, receipts)
        => \/ d.receipt \in receipts
           \/ IsNextOrder(d.receipt.order, d.receipt.account, receipts)
  BY DEF Store!ReceiptAdmissible, Store!IsNextOrder, IsNextOrder
<1>2. CASE d.kind = "opening"
  BY <1>1, <1>2 DEF Submits, Store!CommitOpening
<1>3. CASE d.kind = "version"
  BY <1>1, <1>3 DEF Submits, Store!CommitVersion
<1>4. CASE d.kind = "append"
  BY <1>1, <1>4 DEF Submits, Store!AppendReceipt
<1>5. QED
  BY <1>2, <1>3, <1>4

\* The ledger takes the draft of c: the tables stay as they should be.
LEMMA SubmissionKeepsRows ==
  ASSUME IInv, NEW c \in Callers, draft[c] # None, Submits(draft[c])
  PROVE  Rows' /\ LineageIsAChain'
<1> DEFINE d == draft[c]
           r == d.receipt
<1>1. /\ FreshDraft(c, d) /\ Rows /\ LineageIsAChain /\ WellKnown(c)
      /\ receipts' = receipts \cup {r} /\ accounts' = accounts \cup {d.header}
      /\ d.kind = "append" => accounts' = accounts
      /\ r \in receipts \/ IsNextOrder(r.order, r.account, receipts)
  BY SubmissionEffect DEF IInv, FreshDraft
<1>2. r.order \in Nat /\ \A s \in receipts : s.order \in Nat
  BY <1>1 DEF FreshDraft, Rows
<1>3. r \notin receipts =>
        \A s \in receipts : s.account = r.account => s.order < r.order
  BY <1>1 DEF IsNextOrder
<1>4. \A s, t \in receipts' : s.account = t.account /\ s.order = t.order => s = t
  BY <1>1, <1>2, <1>3 DEF Rows
<1>5. \A h \in accounts' :
        /\ h.version \in Nat
        /\ \E s \in receipts' : s.account = h.account /\ s.order + 1 >= h.version
  BY <1>1 DEF FreshDraft, Rows
<1>6. \A s \in receipts' : IsResidual(s) =>
        /\ s.payload.id[1] = s.account
        /\ \/ s.payload.prior = <<>>
           \/ \E t \in receipts' : s.payload.prior = <<t>> /\ t.order < s.order
  BY <1>1 DEF FreshDraft, Rows
<1>7. ASSUME r \notin receipts, IsResidual(r), NEW s \in receipts, IsResidual(s),
             s.payload.id = r.payload.id
      PROVE  s.payload.prior # r.payload.prior
  BY <1>1, <1>3, <1>7 DEF FreshDraft, Rows
<1>8. LineageIsAChain'
  BY <1>1, <1>7 DEF LineageIsAChain, Residuals, IsResidual
<1>9. QED
  BY <1>1, <1>2, <1>4, <1>5, <1>6, <1>8 DEF Rows

\* What others know and have drafted is not outdated by a later receipt.
LEMMA SubmissionKeepsOthers ==
  ASSUME IInv, NEW c \in Callers, draft[c] # None, Submits(draft[c]),
         NEW e \in Callers, knows'[e] = knows[e]
  PROVE  /\ WellKnown(e)'
         /\ draft[e] # None /\ draft'[e] = draft[e] => FreshDraft(e, draft[e])'
<1> DEFINE r == draft[c].receipt
           d == draft[e]
<1>1. /\ FreshDraft(c, draft[c]) /\ Rows /\ WellKnown(e)
      /\ receipts' = receipts \cup {r} /\ accounts \subseteq accounts'
      /\ r \in receipts \/ IsNextOrder(r.order, r.account, receipts)
  BY SubmissionEffect DEF IInv, FreshDraft
<1>2. r.order \in Nat /\ \A s \in receipts : s.order \in Nat
  BY <1>1 DEF FreshDraft, Rows
<1>3. r \notin receipts =>
        \A s \in receipts : s.account = r.account => s.order < r.order
  BY <1>1 DEF IsNextOrder
<1>4. WellKnown(e)'
  BY <1>1, <1>2, <1>3 DEF WellKnown
<1>5. ASSUME d # None, draft'[e] = d PROVE FreshDraft(e, draft[e])'
  <2>1. FreshDraft(e, d) /\ d.receipt.order \in Nat
    BY <1>5 DEF IInv, FreshDraft
  <2>2. ASSUME r \notin receipts, r.account = d.receipt.account,
               r.order < d.receipt.order
        PROVE  FALSE
    <3>1. PICK s \in receipts :
            s.account = d.receipt.account /\ s.order + 1 >= d.receipt.order
      BY <1>1, <1>2, <2>1, <2>2 DEF FreshDraft, WellKnown
    <3>2. QED
      BY <1>2, <1>3, <2>1, <2>2, <3>1
  <2>3. PICK x : x = draft'[e] /\ x = d
    BY <1>5
  <2>4. QED
    BY <1>1, <1>5, <2>1, <2>2 DEF FreshDraft
<1>6. QED
  BY <1>4, <1>5

LEMMA SucceedsInv ==
  ASSUME IInv, NEW c \in Callers, Succeeds(c)
  PROVE  IInv'
<1> DEFINE d == draft[c]
           r == d.receipt
<1>1. /\ d # None /\ Submits(d)
      /\ knows' = [knows EXCEPT ![c] = [accounts |-> @.accounts \cup {d.header},
                                        receipts |-> @.receipts \cup {r}]]
      /\ draft' = [draft EXCEPT ![c] = None]
  BY DEF Succeeds, Learn
<1>2. /\ DOMAIN knows' = Callers /\ DOMAIN draft' = Callers
      /\ knows'[c].accounts = knows[c].accounts \cup {d.header}
      /\ knows'[c].receipts = knows[c].receipts \cup {r}
      /\ draft'[c] = None
      /\ \A e \in Callers \ {c} : knows'[e] = knows[e] /\ draft'[e] = draft[e]
  BY <1>1 DEF IInv
<1>3. Rows' /\ LineageIsAChain'
  BY <1>1, SubmissionKeepsRows
<1>4. ASSUME NEW e \in Callers \ {c}
      PROVE  WellKnown(e)' /\ (draft'[e] # None => FreshDraft(e, draft[e])')
  BY <1>1, <1>2, <1>4, SubmissionKeepsOthers
<1>5. WellKnown(c)'
  <2>1. /\ FreshDraft(c, d) /\ Rows /\ WellKnown(c)
        /\ receipts' = receipts \cup {r} /\ accounts' = accounts \cup {d.header}
        /\ r \in receipts \/ IsNextOrder(r.order, r.account, receipts)
    BY <1>1, SubmissionEffect DEF IInv, FreshDraft
  <2>2. r.order \in Nat /\ \A s \in receipts : s.order \in Nat
    BY <2>1 DEF FreshDraft, Rows
  <2>3. r \notin receipts =>
          \A s \in receipts : s.account = r.account => s.order < r.order
    BY <2>1 DEF IsNextOrder
  <2>4. ASSUME NEW s \in receipts', s.account = r.account, s.order <= r.order
        PROVE  s \in knows'[c].receipts
    <3>1. CASE s.order < r.order
      BY <1>2, <2>1, <2>2, <2>4, <3>1 DEF FreshDraft
    <3>2. CASE s.order = r.order
      BY <1>2, <1>3, <2>1, <2>4, <3>2 DEF Rows
    <3>3. QED
      BY <2>1, <2>2, <2>4, <3>1, <3>2
  <2>5. ASSUME NEW k \in knows[c].receipts, NEW s \in receipts',
               s.account = k.account, s.order <= k.order
        PROVE  s \in knows'[c].receipts
    BY <1>2, <2>1, <2>2, <2>3, <2>5 DEF WellKnown
  <2>6. \E k \in knows'[c].receipts :
           k.account = d.header.account /\ k.order + 1 >= d.header.version
    BY <1>2, <2>1 DEF FreshDraft, WellKnown
  <2>7. QED
    BY <1>2, <2>1, <2>4, <2>5, <2>6 DEF WellKnown
<1>6. QED
  BY <1>2, <1>3, <1>4, <1>5 DEF IInv

LEMMA GoesUnansweredInv ==
  ASSUME IInv, NEW c \in Callers, GoesUnanswered(c)
  PROVE  IInv'
<1>1. draft[c] # None /\ Submits(draft[c]) /\ knows' = knows /\ draft' = draft
  BY DEF GoesUnanswered
<1>2. Rows' /\ LineageIsAChain'
  BY <1>1, SubmissionKeepsRows
<1>3. ASSUME NEW e \in Callers
      PROVE  WellKnown(e)' /\ (draft'[e] # None => FreshDraft(e, draft[e])')
  BY <1>1, <1>3, SubmissionKeepsOthers
<1>4. QED
  BY <1>1, <1>2, <1>3 DEF IInv

\* Steps that leave the tables alone: a refusal, news, a kill.
LEMMA QuietInv ==
  ASSUME IInv, NEW c \in Callers, IsRefused(c) \/ Catches(c) \/ IsKilled(c)
  PROVE  IInv'
<1>1. UNCHANGED <<accounts, receipts>>
  BY DEF IsRefused, Catches, IsKilled
<1>2. /\ DOMAIN knows' = Callers /\ DOMAIN draft' = Callers
      /\ \A e \in Callers \ {c} : knows'[e] = knows[e] /\ draft'[e] = draft[e]
      /\ \/ knows'[c] = knows[c] /\ draft'[c] = None
         \/ /\ knows'[c] = [accounts |-> knows[c].accounts \cup accounts,
                            receipts |-> knows[c].receipts \cup receipts]
            /\ draft'[c] = draft[c]
         \/ knows'[c] = Ignorance /\ draft'[c] = None
  BY DEF IsRefused, Catches, IsKilled, Learn, IInv
<1>3. Rows' /\ LineageIsAChain'
  BY <1>1 DEF IInv, Rows, LineageIsAChain, Residuals
<1>4. ASSUME NEW e \in Callers PROVE WellKnown(e)'
  BY <1>1, <1>2 DEF IInv, Rows, WellKnown, Ignorance
<1>5. ASSUME NEW e \in Callers, draft'[e] # None
      PROVE  FreshDraft(e, draft[e])'
  <2>1. /\ draft'[e] = draft[e] /\ FreshDraft(e, draft[e])
        /\ knows[e].accounts \subseteq knows'[e].accounts
        /\ knows[e].receipts \subseteq knows'[e].receipts
    BY <1>2, <1>5 DEF IInv
  <2>2. QED
    BY <1>1, <2>1 DEF FreshDraft
<1>6. QED
  BY <1>2, <1>3, <1>4, <1>5 DEF IInv

\* What every reachable state satisfies.
THEOREM Inductive == Spec => []IInv
<1>1. Init => IInv
  BY DEF Init, IInv, Rows, WellKnown, LineageIsAChain, Residuals, Ignorance
<1>2. IInv /\ [Next]_vars => IInv'
  <2> SUFFICES ASSUME IInv, [Next]_vars PROVE IInv'
    OBVIOUS
  <2>1. CASE UNCHANGED vars
    BY <2>1 DEF vars, IInv, Rows, WellKnown, FreshDraft, LineageIsAChain, Residuals
  <2>2. CASE Next
    BY <2>2, BuildsInv, SucceedsInv, GoesUnansweredInv, QuietInv DEF Next
  <2>3. QED
    BY <2>1, <2>2
<1>3. QED
  BY <1>1, <1>2, PTL DEF Spec

\* No residual is continued twice, whoever builds on the same receipt.
THEOREM LineageIsAChainAlways == Spec => []LineageIsAChain
BY Inductive, PTL DEF IInv

-------------------------------------------------------------------------------
(***************************************************************************)
(* Steps by what they do to the tables and the drafts.                     *)
(***************************************************************************)
AsDraft(kind, b) == [kind |-> kind, header |-> b.header, receipt |-> b.receipt]

BuiltOpening(c, d) ==
    \E label, cut, l :
        \/ d = AsDraft("opening", OpenRoot(label, cut, l))
        \/ \E r \in knows[c].receipts :
              \/ d = AsDraft("opening", OpenChild(label, r.account, r, cut, l))
              \/ d = AsDraft("opening", OpenSuccessor(label, r.account, r, cut, l))

BuiltVersion(c, d) ==
    \E prior \in knows[c].accounts, order \in Nat :
        d = AsDraft("version",
                    OpenVersion(prior, Transition(prior, prior.version + 1), order))

\* A residual payload registers its residual or continues the receipt r of it.
OfResidual(payload, r) ==
    payload.type = "ResidualReceipt" =>
        \/ payload.prior = <<>>
        \/ payload.prior = <<r>> /\ IsResidual(r) /\ payload.id = r.payload.id

BuiltAppend(c, d) ==
    \E h \in knows[c].accounts, order \in Nat \ {0} :
        \E r \in Known(c, h.account) : \E payload :
            /\ payload.type \in {"TestReceipt", "ResidualReceipt"}
            /\ ValidPayload(payload) /\ OfResidual(payload, r)
            /\ FollowsKnown(c, order, h.account)
            /\ d = AsDraft("append", AppendTo(h, payload, order, <<r>>))

Built(c, d) == BuiltOpening(c, d) \/ BuiltVersion(c, d) \/ BuiltAppend(c, d)

\* What c drafts is one of the constructors' bundles, of what c knows.
LEMMA BuildsDraft ==
  ASSUME NEW c \in Callers, Builds(c)
  PROVE  /\ UNCHANGED <<accounts, receipts, knows>>
         /\ \E d : draft' = [draft EXCEPT ![c] = d] /\ Built(c, d)
<1>1. ASSUME NEW kind, NEW b, Draft(c, kind, b)
      PROVE  /\ UNCHANGED <<accounts, receipts, knows>>
             /\ draft' = [draft EXCEPT ![c] = AsDraft(kind, b)]
  BY <1>1 DEF Draft, AsDraft
<1>2. CASE OpensAccount(c)
  <2>1. \E label, cut, l :
          \/ Draft(c, "opening", OpenRoot(label, cut, l))
          \/ \E r \in knows[c].receipts :
                \/ Draft(c, "opening", OpenChild(label, r.account, r, cut, l))
                \/ Draft(c, "opening", OpenSuccessor(label, r.account, r, cut, l))
    BY <1>2 DEF OpensAccount, Latest
  <2>2. QED
    BY <1>1, <2>1 DEF Built, BuiltOpening
<1>3. CASE OpensVersion(c)
  <2>1. PICK prior \in knows[c].accounts, cited \in knows[c].accounts,
             order \in 0 .. MaxReceipts :
          /\ Continues(prior, Transition(cited, cited.version + 1))
          /\ Draft(c, "version",
                   OpenVersion(prior, Transition(cited, cited.version + 1), order))
    BY <1>3 DEF OpensVersion
  <2>2. cited = prior /\ order \in Nat
    BY <2>1, ReceiptBound DEF Continues, Transition
  <2>3. QED
    BY <1>1, <2>1, <2>2 DEF Built, BuiltVersion
<1>4. ASSUME NEW h \in knows[c].accounts, NEW payload,
             NEW r \in Known(c, h.account), Appends(c, h, payload, r),
             payload.type \in {"TestReceipt", "ResidualReceipt"},
             OfResidual(payload, r)
      PROVE  /\ UNCHANGED <<accounts, receipts, knows>>
             /\ \E d : draft' = [draft EXCEPT ![c] = d] /\ Built(c, d)
  <2>1. PICK order \in 0 .. MaxReceipts :
          /\ FollowsKnown(c, order, h.account) /\ AppendsAt(order, <<r>>)
          /\ ValidPayload(payload)
          /\ Draft(c, "append", AppendTo(h, payload, order, <<r>>))
    BY <1>4 DEF Appends
  <2>2. order \in Nat \ {0}
    BY <2>1, ReceiptBound DEF AppendsAt
  <2> DEFINE d == AsDraft("append", AppendTo(h, payload, order, <<r>>))
  <2>3. BuiltAppend(c, d)
    <3>1. /\ payload.type \in {"TestReceipt", "ResidualReceipt"}
          /\ ValidPayload(payload) /\ OfResidual(payload, r)
          /\ FollowsKnown(c, order, h.account)
          /\ d = AsDraft("append", AppendTo(h, payload, order, <<r>>))
      BY <1>4, <2>1
    <3> USE <2>2 DEF BuiltAppend
    <3> WITNESS h \in knows[c].accounts, order \in Nat \ {0}
    <3> WITNESS r \in Known(c, h.account)
    <3> WITNESS payload
    <3> QED
      BY <3>1
  <2>4. QED
    BY <1>1, <2>1, <2>3 DEF Built
<1>5. CASE AppendsTest(c)
  <2>1. /\ [type |-> "TestReceipt"].type = "TestReceipt"
        /\ \A r : OfResidual([type |-> "TestReceipt"], r)
    BY DEF OfResidual
  <2>2. QED
    BY <1>4, <1>5, <2>1 DEF AppendsTest, Latest
<1>6. CASE RegistersResidual(c)
  <2>1. PICK h \in knows[c].accounts, burden \in Burdens :
          \E r \in Known(c, h.account) :
             Appends(c, h, RegisterResidual(h.account, burden), r)
    BY <1>6 DEF RegistersResidual, Latest
  <2>2. /\ RegisterResidual(h.account, burden).type = "ResidualReceipt"
        /\ \A r : OfResidual(RegisterResidual(h.account, burden), r)
    BY DEF RegisterResidual, OfResidual
  <2>3. QED
    BY <1>4, <2>1, <2>2
<1>7. CASE TransitionsResidual(c)
  <2>1. PICK h, r, operation, status, children :
          /\ h \in knows[c].accounts /\ r \in Known(c, h.account) /\ IsResidual(r)
          /\ Appends(c, h, TransitionResidual(r.payload, operation, r, status,
                                              children, children # <<>>), r)
    BY <1>7 DEF TransitionsResidual, Residuals, IsResidual
  <2> DEFINE t == TransitionResidual(r.payload, operation, r, status, children,
                                     children # <<>>)
  <2>2. t.type = "ResidualReceipt" /\ OfResidual(t, r)
    BY <2>1 DEF TransitionResidual, OfResidual
  <2>3. QED
    BY <1>4, <2>1, <2>2
<1>8. QED
  BY <1>2, <1>3, <1>5, <1>6, <1>7 DEF Builds

\* A step builds a draft, submits one, or leaves tables and drafts alone, but
\* for dropping one.
LEMMA StepShapes ==
  ASSUME IInv, [Next]_vars
  PROVE  /\ DOMAIN draft' = Callers
         /\ \/ /\ UNCHANGED <<accounts, receipts>>
               /\ \E c \in Callers :
                     \E d : draft' = [draft EXCEPT ![c] = d] /\ Built(c, d)
            \/ /\ \A e \in Callers : draft'[e] \in {draft[e], None}
               /\ \/ UNCHANGED <<accounts, receipts>>
                  \/ \E c \in Callers : draft[c] # None /\ Submits(draft[c])
<1>1. DOMAIN draft = Callers
  BY DEF IInv
<1>2. CASE UNCHANGED vars
  BY <1>1, <1>2 DEF vars
<1>3. ASSUME NEW c \in Callers, Builds(c)
      PROVE  /\ UNCHANGED <<accounts, receipts>>
             /\ \E d : draft' = [draft EXCEPT ![c] = d] /\ Built(c, d)
  BY <1>3, BuildsDraft
<1>4. ASSUME NEW c \in Callers, Succeeds(c) \/ GoesUnanswered(c)
      PROVE  /\ draft[c] # None /\ Submits(draft[c])
             /\ draft' \in {draft, [draft EXCEPT ![c] = None]}
  BY <1>4 DEF Succeeds, GoesUnanswered
<1>5. ASSUME NEW c \in Callers, IsRefused(c) \/ Catches(c) \/ IsKilled(c)
      PROVE  /\ UNCHANGED <<accounts, receipts>>
             /\ draft' \in {draft, [draft EXCEPT ![c] = None]}
  BY <1>5 DEF IsRefused, Catches, IsKilled
<1>6. CASE Next
  BY <1>1, <1>3, <1>4, <1>5, <1>6 DEF Next
<1>7. QED
  BY <1>2, <1>6

-------------------------------------------------------------------------------
(***************************************************************************)
(* Origins.                                                                *)
(***************************************************************************)
AtOrigin(row) == row.origin = row.account.origin

OriginInv ==
    /\ OriginPreserved
    /\ \A c \in Callers : draft[c] # None =>
          AtOrigin(draft[c].header) /\ AtOrigin(draft[c].receipt)

\* The constructors copy the origin together with the account.
LEMMA BuiltAtOrigin ==
  ASSUME IInv, OriginPreserved, NEW c \in Callers, NEW d, Built(c, d)
  PROVE  AtOrigin(d.header) /\ AtOrigin(d.receipt)
<1>1. \A h \in knows[c].accounts : AtOrigin(h)
  BY DEF IInv, WellKnown, OriginPreserved, AtOrigin
<1>2. CASE BuiltOpening(c, d)
  <2>1. PICK b : /\ d = AsDraft("opening", b)
                 /\ \E op, label, cut, parent, superseded, l :
                       b = Open(op, label, cut, parent, superseded, l)
    BY <1>2 DEF BuiltOpening, OpenRoot, OpenChild, OpenSuccessor
  <2>2. AtOrigin(b.header) /\ AtOrigin(b.receipt)
    BY <2>1 DEF Open, Bundle, MakeReceipt, AtOrigin
  <2>3. QED
    BY <2>1, <2>2 DEF AsDraft
<1>3. CASE BuiltVersion(c, d)
  BY <1>1, <1>3 DEF BuiltVersion, AsDraft, OpenVersion, Continuation, Bundle,
                    MakeReceipt, AtOrigin
<1>4. CASE BuiltAppend(c, d)
  BY <1>1, <1>4 DEF BuiltAppend, AsDraft, AppendTo, Bundle, MakeReceipt, AtOrigin
<1>5. QED
  BY <1>2, <1>3, <1>4 DEF Built

\* An account keeps its origin through every version and receipt.
THEOREM OriginPreservedAlways == Spec => []OriginPreserved
<1>1. Init => OriginInv
  BY DEF Init, OriginInv, OriginPreserved
<1>2. IInv /\ OriginInv /\ [Next]_vars => OriginInv'
  <2> SUFFICES ASSUME IInv, OriginInv, [Next]_vars PROVE OriginInv'
    OBVIOUS
  <2> USE DEF IInv, OriginInv, OriginPreserved, AtOrigin
  <2>1. ASSUME NEW c \in Callers, NEW d, draft' = [draft EXCEPT ![c] = d],
               Built(c, d), UNCHANGED <<accounts, receipts>>
        PROVE  OriginInv'
    BY <2>1, BuiltAtOrigin
  <2>2. ASSUME NEW c \in Callers, draft[c] # None, Submits(draft[c])
        PROVE  OriginPreserved'
    BY <2>2, SubmissionEffect DEF FreshDraft
  <2>3. QED
    BY <2>1, <2>2, StepShapes
<1>3. OriginInv => OriginPreserved
  BY DEF OriginInv
<1>4. QED
  BY <1>1, <1>2, <1>3, Inductive, PTL DEF Spec

-------------------------------------------------------------------------------
(***************************************************************************)
(* The history of a residual: one registration, from which every other     *)
(* receipt of it is reached.                                               *)
(***************************************************************************)
\* r registers its residual or continues an earlier receipt of it.
ContinuesResidual(r) ==
    IsResidual(r) =>
        \/ r.payload.prior = <<>>
        \/ \E s \in receipts :
              /\ r.payload.prior = <<s>> /\ IsResidual(s)
              /\ s.payload.id = r.payload.id
              /\ s.account = r.account /\ s.order < r.order

SameResidual(r, s) == IsResidual(s) /\ s.payload.id = r.payload.id

\* Every residual with a receipt was registered, once, in the account that
\* still carries it, and a receipt that is no registration continues exactly
\* one earlier receipt of the same residual, which no other continues.
ResidualsTraceable ==
    \A r \in Residuals(receipts) :
        /\ \E s \in receipts :
              /\ SameResidual(r, s) /\ s.payload.prior = <<>>
              /\ s.account = r.account /\ s.order <= r.order
              /\ \A q \in receipts :
                    SameResidual(r, q) /\ q.payload.prior = <<>> => q = s
        /\ r.payload.prior # <<>> =>
              \E s \in receipts :
                  /\ r.payload.prior = <<s>> /\ SameResidual(r, s)
                  /\ s.account = r.account /\ s.order < r.order
                  /\ \A q \in receipts :
                        SameResidual(r, q) /\ q.payload.prior = <<s>> => q = r

TraceInv ==
    /\ \A r \in receipts : ContinuesResidual(r)
    /\ \A c \in Callers : draft[c] # None => ContinuesResidual(draft[c].receipt)

\* Of rows with admission orders one comes first.
LEMMA EarliestExists ==
  ASSUME NEW R, R # {}, \A r \in R : r.order \in Nat
  PROVE  \E r \in R : \A s \in R : r.order <= s.order
<1> DEFINE Upto == {0 .. r.order : r \in R}
<1>1. Upto \subseteq FiniteSubsetsOf(Nat) /\ Upto # {}
  <2>1. \A r \in R : 0 .. r.order \in SUBSET Nat /\ IsFiniteSet(0 .. r.order)
    BY FS_Interval
  <2>2. QED
    BY <2>1 DEF FiniteSubsetsOf
<1>2. PICK T \in Upto : \A U \in Upto : <<U, T>> \notin StrictSubsetOrdering(Nat)
  <2> HIDE DEF Upto
  <2>1. QED
    BY <1>1, FS_StrictSubsetOrderingWellFounded, WFMin
<1>3. PICK r \in R : T = 0 .. r.order
  OBVIOUS
<1>4. ASSUME NEW s \in R, s.order < r.order PROVE FALSE
  <2>1. 0 .. s.order \in Upto /\ 0 .. s.order \subseteq 0 .. r.order
    BY <1>4
  <2>2. r.order \in 0 .. r.order /\ r.order \notin 0 .. s.order
    BY <1>4
  <2>3. <<0 .. s.order, 0 .. r.order>> \in StrictSubsetOrdering(Nat)
    BY <2>1, <2>2 DEF StrictSubsetOrdering
  <2>4. QED
    BY <1>2, <1>3, <2>1, <2>3
<1>5. QED
  BY <1>4

\* What a caller drafts for a residual continues what it knows of it.
LEMMA BuiltContinues ==
  ASSUME IInv, NEW c \in Callers, NEW d, Built(c, d)
  PROVE  ContinuesResidual(d.receipt)
<1>1. WellKnown(c) /\ Rows /\ knows[c].receipts \subseteq receipts
  BY DEF IInv, WellKnown
<1>2. CASE BuiltOpening(c, d)
  <2>1. PICK b : /\ d = AsDraft("opening", b)
                 /\ \E op, label, cut, parent, superseded, l :
                       b = Open(op, label, cut, parent, superseded, l)
    BY <1>2 DEF BuiltOpening, OpenRoot, OpenChild, OpenSuccessor
  <2>2. b.receipt.payload.type = "CutReceipt"
    BY <2>1 DEF Open, Bundle, MakeReceipt
  <2>3. QED
    BY <2>1, <2>2 DEF AsDraft, ContinuesResidual, IsResidual
<1>3. CASE BuiltVersion(c, d)
  BY <1>3 DEF BuiltVersion, AsDraft, OpenVersion, Continuation, Bundle,
              MakeReceipt, Transition, ContinuesResidual, IsResidual
<1>4. CASE BuiltAppend(c, d)
  <2>1. PICK h, order, r, payload :
          /\ h \in knows[c].accounts /\ order \in Nat \ {0}
          /\ r \in Known(c, h.account) /\ FollowsKnown(c, order, h.account)
          /\ OfResidual(payload, r)
          /\ d = AsDraft("append", AppendTo(h, payload, order, <<r>>))
    BY <1>4 DEF BuiltAppend
  <2>2. /\ d.receipt.payload = payload
        /\ d.receipt.account = h.account /\ d.receipt.order = order
    BY <2>1 DEF AsDraft, AppendTo, Bundle, MakeReceipt
  <2>3. r \in receipts /\ r.account = h.account /\ r.order < order
    BY <1>1, <2>1, OrderIsInformed DEF Known
  <2>4. QED
    BY <2>1, <2>2, <2>3 DEF OfResidual, ContinuesResidual, IsResidual
<1>5. QED
  BY <1>2, <1>3, <1>4 DEF Built

LEMMA TraceAlways == Spec => []TraceInv
<1>1. Init => TraceInv
  BY DEF Init, TraceInv
<1>2. IInv /\ TraceInv /\ [Next]_vars => TraceInv'
  <2> SUFFICES ASSUME IInv, TraceInv, [Next]_vars PROVE TraceInv'
    OBVIOUS
  <2>1. ASSUME NEW c \in Callers, NEW d, draft' = [draft EXCEPT ![c] = d],
               Built(c, d), UNCHANGED <<accounts, receipts>>
        PROVE  TraceInv'
    BY <2>1, BuiltContinues DEF TraceInv, ContinuesResidual, IInv
  <2>2. ASSUME \A e \in Callers : draft'[e] \in {draft[e], None},
               NEW c \in Callers, draft[c] # None, Submits(draft[c])
        PROVE  TraceInv'
    <3>1. receipts' = receipts \cup {draft[c].receipt}
      BY <2>2, SubmissionEffect DEF IInv, FreshDraft
    <3>2. ASSUME NEW r, ContinuesResidual(r) PROVE ContinuesResidual(r)'
      BY <3>1, <3>2 DEF ContinuesResidual
    <3>3. \A r \in receipts' : ContinuesResidual(r)'
      BY <2>2, <3>1, <3>2 DEF TraceInv
    <3>4. \A e \in Callers : draft'[e] # None => ContinuesResidual(draft[e].receipt)'
      BY <2>2, <3>1 DEF TraceInv, ContinuesResidual
    <3>5. QED
      BY <3>3, <3>4 DEF TraceInv
  <2>3. ASSUME \A e \in Callers : draft'[e] \in {draft[e], None},
               UNCHANGED <<accounts, receipts>>
        PROVE  TraceInv'
    BY <2>3 DEF TraceInv, ContinuesResidual
  <2>4. QED
    BY <2>1, <2>2, <2>3, StepShapes
<1>3. QED
  BY <1>1, <1>2, Inductive, PTL DEF Spec

\* A residual can be followed back to its one registration, although each
\* transition sees one receipt only (accounting.py:657-712).
THEOREM ResidualsTraceableAlways == Spec => []ResidualsTraceable
<1>1. IInv /\ TraceInv => ResidualsTraceable
  <2> SUFFICES ASSUME IInv, TraceInv, NEW r \in Residuals(receipts)
               PROVE  /\ \E s \in receipts :
                            /\ SameResidual(r, s) /\ s.payload.prior = <<>>
                            /\ s.account = r.account /\ s.order <= r.order
                            /\ \A q \in receipts :
                                  SameResidual(r, q) /\ q.payload.prior = <<>>
                                     => q = s
                      /\ r.payload.prior # <<>> =>
                            \E s \in receipts :
                               /\ r.payload.prior = <<s>> /\ SameResidual(r, s)
                               /\ s.account = r.account /\ s.order < r.order
                               /\ \A q \in receipts :
                                     SameResidual(r, q) /\ q.payload.prior = <<s>>
                                        => q = r
    BY DEF ResidualsTraceable
  <2> DEFINE R == {s \in receipts : SameResidual(r, s)}
  <2>1. r \in R /\ \A s \in R : s.order \in Nat /\ s.account = r.account
    BY DEF Residuals, SameResidual, IsResidual, IInv, Rows
  <2>2. \A s, t \in R : s.payload.prior = t.payload.prior => s = t
    BY DEF IInv, LineageIsAChain, Residuals, SameResidual, IsResidual
  <2>3. PICK s \in R : \A t \in R : s.order <= t.order
    <3> HIDE DEF R
    <3>1. QED
      BY <2>1, EarliestExists
  <2>4. s.payload.prior = <<>>
    <3>1. ASSUME NEW t \in receipts, IsResidual(t), t.payload.id = s.payload.id,
                 t.order < s.order
          PROVE  FALSE
      <4>1. t \in R
        BY <3>1 DEF SameResidual
      <4>2. QED
        BY <2>1, <2>3, <3>1, <4>1
    <3>2. QED
      BY <3>1 DEF TraceInv, ContinuesResidual, SameResidual
  <2>5. ASSUME r.payload.prior # <<>>
        PROVE  \E t \in receipts :
                  /\ r.payload.prior = <<t>> /\ SameResidual(r, t)
                  /\ t.account = r.account /\ t.order < r.order
    BY <2>1, <2>5 DEF TraceInv, ContinuesResidual, SameResidual
  <2>6. QED
    BY <2>1, <2>2, <2>3, <2>4, <2>5
<1>2. QED
  BY <1>1, TraceAlways, Inductive, PTL

-------------------------------------------------------------------------------
(***************************************************************************)
(* Versions are announced in order.                                        *)
(***************************************************************************)
IsTransition(r) == r.payload.type = "AccountTransitionReceipt"

\* The receipt s announces no version before the one it continues.
AnnouncedInOrder(s) ==
    IsTransition(s) =>
        /\ s.payload.nextVersion \in Nat
        /\ s.payload.nextVersion >= 3 =>
              \E r \in receipts :
                  /\ Announces(r, s.payload.nextVersion - 1, s.account)
                  /\ r.order < s.order

\* Stronger than VersionsInOrder, which speaks of headers that are present.
VersionInv ==
    /\ \A h \in accounts : h.version >= 2 =>
          \E r \in receipts : Announces(r, h.version, h.account)
    /\ \A s \in receipts : AnnouncedInOrder(s)
    /\ \A c \in Callers : draft[c] # None /\ draft[c].kind = "append" =>
          ~IsTransition(draft[c].receipt)

\* An opening announces nothing and opens version 1.
LEMMA OpeningSubmission ==
  ASSUME NEW d, ValidOpening(d.header, d.receipt)
  PROVE  ~IsTransition(d.receipt) /\ ~(d.header.version >= 2)
BY DEF ValidOpening, ValidHeader, OpeningOperations, IsTransition

\* A version is announced by its receipt, and its predecessor is present.
LEMMA VersionSubmission ==
  ASSUME NEW d, ValidVersionOpening(d.header, d.receipt),
         PriorPresent(d.header, accounts)
  PROVE  /\ Announces(d.receipt, d.header.version, d.header.account)
         /\ \E g \in accounts : /\ g.account = d.header.account
                               /\ g.version = d.header.version - 1
BY DEF ValidVersionOpening, Announces, PriorPresent, KeyOf

\* The checks of the ledger's actions that the announcements rest on.
LEMMA SubmissionChecks ==
  ASSUME NEW d, d.kind \in {"opening", "version", "append"}, Submits(d)
  PROVE  /\ d.kind = "opening" => ValidOpening(d.header, d.receipt)
         /\ d.kind = "version" => /\ ValidVersionOpening(d.header, d.receipt)
                                  /\ PriorPresent(d.header, accounts)
<1>1. CASE d.kind = "opening"
  BY <1>1 DEF Submits, Store!CommitOpening, Store!ValidOpening, ValidOpening,
     Store!ValidHeader, ValidHeader, Store!ValidReceipt, ValidReceipt,
     Store!ValidPayload, ValidPayload, Store!ValidResidual, ValidResidual,
     Store!ResultingStatus, ResultingStatus, Store!Distinct, Distinct,
     Store!OpeningOperations, OpeningOperations, Store!Cited, Cited,
     Store!AccountIdentity, AccountIdentity
<1>2. CASE d.kind = "version"
  BY <1>2 DEF Submits, Store!CommitVersion, Store!ValidVersionOpening,
     ValidVersionOpening, Store!PriorPresent, PriorPresent, Store!KeyOf, KeyOf,
     Store!ValidHeader, ValidHeader, Store!ValidReceipt, ValidReceipt,
     Store!ValidPayload, ValidPayload, Store!ValidResidual, ValidResidual,
     Store!ResultingStatus, ResultingStatus, Store!Distinct, Distinct,
     Store!OpeningOperations, OpeningOperations,
     Store!AccountIdentity, AccountIdentity
<1>3. QED
  BY <1>1, <1>2

LEMMA SubmissionInOrder ==
  ASSUME IInv, VersionInv, NEW c \in Callers, draft[c] # None, Submits(draft[c])
  PROVE  /\ \A h \in accounts' : h.version >= 2 =>
               \E r \in receipts' : Announces(r, h.version, h.account)
         /\ \A s \in receipts' : AnnouncedInOrder(s)'
<1> DEFINE d == draft[c]
           t == d.receipt
<1>1. /\ FreshDraft(c, d) /\ Rows
      /\ receipts' = receipts \cup {t} /\ accounts' = accounts \cup {d.header}
      /\ d.kind = "append" => accounts' = accounts
      /\ t \in receipts \/ IsNextOrder(t.order, t.account, receipts)
  BY SubmissionEffect DEF IInv, FreshDraft
<1>2. /\ d.kind \in {"opening", "version", "append"}
      /\ t.order \in Nat /\ d.header.account = t.account
      /\ d.kind # "append" => d.header.version \in Nat
  BY <1>1 DEF FreshDraft
<1>3. /\ d.kind = "opening" => ~IsTransition(t) /\ ~(d.header.version >= 2)
      /\ d.kind = "append" => ~IsTransition(t)
      /\ d.kind = "version" =>
            /\ Announces(t, d.header.version, t.account)
            /\ \E g \in accounts : /\ g.account = t.account
                                  /\ g.version = d.header.version - 1
  BY <1>2, SubmissionChecks, OpeningSubmission, VersionSubmission DEF VersionInv
<1>4. \A h \in accounts' : h.version >= 2 =>
         \E r \in receipts' : Announces(r, h.version, h.account)
  BY <1>1, <1>2, <1>3 DEF VersionInv
<1>5. ASSUME NEW s, s = t, t \notin receipts, IsTransition(t)
      PROVE  AnnouncedInOrder(s)'
  <2>1. d.kind = "version" /\ t.payload.nextVersion = d.header.version
    BY <1>2, <1>3, <1>5 DEF Announces
  <2>2. t.payload.nextVersion \in Nat
    BY <1>2, <2>1
  <2>3. ASSUME t.payload.nextVersion >= 3
        PROVE  \E r \in receipts :
                  /\ Announces(r, t.payload.nextVersion - 1, t.account)
                  /\ r.order < t.order
    <3>1. PICK g \in accounts :
            g.account = t.account /\ g.version = t.payload.nextVersion - 1
      BY <1>3, <2>1
    <3>2. PICK r \in receipts : Announces(r, g.version, g.account)
      BY <2>2, <2>3, <3>1 DEF VersionInv
    <3>3. r.order < t.order
      BY <1>1, <1>5, <3>1, <3>2 DEF IsNextOrder, Announces
    <3>4. QED
      BY <3>1, <3>2, <3>3
  <2>4. QED
    BY <1>1, <1>5, <2>2, <2>3 DEF AnnouncedInOrder, Announces
<1>6. \A s \in receipts : AnnouncedInOrder(s)'
  BY <1>1 DEF VersionInv, AnnouncedInOrder
<1>7. ASSUME NEW s, s = t PROVE AnnouncedInOrder(s)'
  BY <1>5, <1>6, <1>7 DEF AnnouncedInOrder
<1>8. QED
  BY <1>1, <1>4, <1>6, <1>7

\* No version is announced before the version it continues.
THEOREM VersionsInOrderAlways == Spec => []VersionsInOrder
<1>1. Init => VersionInv
  BY DEF Init, VersionInv
<1>2. IInv /\ VersionInv /\ [Next]_vars => VersionInv'
  <2> SUFFICES ASSUME IInv, VersionInv, [Next]_vars PROVE VersionInv'
    OBVIOUS
  <2>1. ASSUME NEW c \in Callers, NEW d, Built(c, d), d.kind = "append"
        PROVE  ~IsTransition(d.receipt)
    BY <2>1 DEF Built, BuiltOpening, BuiltVersion, BuiltAppend, AsDraft, AppendTo,
                Bundle, MakeReceipt, IsTransition
  <2>2. ASSUME NEW c \in Callers, NEW d, draft' = [draft EXCEPT ![c] = d],
               Built(c, d), UNCHANGED <<accounts, receipts>>
        PROVE  VersionInv'
    BY <2>1, <2>2 DEF VersionInv, AnnouncedInOrder, IInv
  <2>3. ASSUME \A e \in Callers : draft'[e] \in {draft[e], None},
               \/ UNCHANGED <<accounts, receipts>>
               \/ \E c \in Callers : draft[c] # None /\ Submits(draft[c])
        PROVE  VersionInv'
    <3>1. /\ \A h \in accounts' : h.version >= 2 =>
               \E r \in receipts' : Announces(r, h.version, h.account)
          /\ \A s \in receipts' : AnnouncedInOrder(s)'
      BY <2>3, SubmissionInOrder DEF VersionInv, AnnouncedInOrder
    <3>2. QED
      BY <2>3, <3>1 DEF VersionInv
  <2>4. QED
    BY <2>2, <2>3, StepShapes
<1>3. IInv /\ VersionInv => VersionsInOrder
  <2> SUFFICES ASSUME IInv, VersionInv, NEW h \in accounts, NEW s \in receipts,
                      h.version >= 2, Announces(s, h.version + 1, h.account)
               PROVE  \E r \in receipts :
                         Announces(r, h.version, h.account) /\ r.order < s.order
    BY DEF VersionsInOrder
  <2>1. h.version \in Nat
    BY DEF IInv, Rows
  <2>2. /\ IsTransition(s) /\ s.account = h.account
        /\ s.payload.nextVersion - 1 = h.version /\ s.payload.nextVersion >= 3
    BY <2>1 DEF Announces, IsTransition
  <2>3. QED
    BY <2>2 DEF VersionInv, AnnouncedInOrder
<1>4. QED
  BY <1>1, <1>2, <1>3, Inductive, PTL DEF Spec

-------------------------------------------------------------------------------
(***************************************************************************)
(* The constructors and the validators of the ledger agree, so that a      *)
(* refusal is always about the rows that are there.                        *)
(***************************************************************************)
\* open_root, open_child and open_successor (accounting.py:478-570) return a
\* header and a CutReceipt that commit_opening takes for a valid opening.
THEOREM OpeningsFit ==
  ASSUME NEW label, NEW cut, NEW account, NEW receipt, NEW l,
         account # receipt, <<account, receipt>> # NoRef
  PROVE  \A b \in {OpenRoot(label, cut, l),
                   OpenChild(label, account, receipt, cut, l),
                   OpenSuccessor(label, account, receipt, cut, l)} :
            ValidOpening(b.header, b.receipt)
<1>1. Distinct(<<>>) /\ Distinct(<<account, receipt>>)
  BY DEF Distinct
<1>2. ASSUME NEW op \in OpeningOperations, NEW parent, NEW superseded, NEW b,
             op = "CHILD" <=> parent # NoRef, op = "SUCCESSOR" <=> superseded # NoRef,
             parent \in {NoRef, <<account, receipt>>},
             superseded \in {NoRef, <<account, receipt>>},
             b = Open(op, label, cut, parent, superseded, l)
      PROVE  ValidOpening(b.header, b.receipt)
  <2>1. ValidHeader(b.header)
    BY <1>2 DEF Open, Bundle, MakeReceipt, ValidHeader, AccountIdentity,
                OpeningOperations
  <2>2. /\ b.receipt.payload = [type |-> "CutReceipt", operation |-> op, cut |-> cut]
        /\ b.receipt.priorLinks = <<>>
        /\ b.receipt.parentLinks = Cited(parent)
        /\ b.receipt.supersedesLinks = Cited(superseded)
    BY <1>2 DEF Open, Bundle, MakeReceipt
  <2>3. ValidPayload(b.receipt.payload)
    BY <1>2, <2>2 DEF ValidPayload
  <2>4. Distinct(Cited(parent)) /\ Distinct(Cited(superseded))
    BY <1>1, <1>2 DEF Cited
  <2>5. ValidReceipt(b.receipt)
    BY <1>1, <2>2, <2>3, <2>4 DEF ValidReceipt
  <2>6. /\ b.header.op = op /\ b.header.origin = cut
        /\ b.header.parent = parent /\ b.header.superseded = superseded
        /\ b.receipt.account = b.header.account /\ b.receipt.origin = cut
    BY <1>2 DEF Open, Bundle, MakeReceipt
  <2>7. QED
    BY <1>2, <2>1, <2>2, <2>5, <2>6 DEF ValidOpening
<1>3. QED
  BY <1>2 DEF OpenRoot, OpenChild, OpenSuccessor, OpeningOperations

\* open_version (accounting.py:573-603) continues a valid header by a version
\* that commit_version takes for a valid one, at whatever order.
THEOREM VersionsFit ==
  ASSUME NEW prior, ValidHeader(prior), prior # NoRef,
         prior.version \in Nat \ {0}, NEW order,
         NEW transition, transition = Transition(prior, prior.version + 1)
  PROVE  LET b == OpenVersion(prior, transition, order)
         IN  ValidVersionOpening(b.header, b.receipt)
<1> DEFINE b == OpenVersion(prior, transition, order)
<1>1. /\ transition.nextVersion = prior.version + 1
      /\ transition.priorVersion = prior
      /\ transition.type = "AccountTransitionReceipt"
  BY DEF Transition
<1>2. b.header = Continuation(prior, transition, prior.origin)
  BY DEF OpenVersion, Bundle
<1>3. b.receipt = MakeReceipt(prior.account, prior.origin, order, transition,
                              <<prior>>, NoRef, NoRef)
  BY DEF OpenVersion, Bundle
<1> HIDE DEF b
<1>4. /\ b.header.op = "VERSION" /\ b.header.origin = prior.origin
      /\ b.header.account = prior.account /\ b.header.prior = prior
      /\ b.header.version = prior.version + 1
      /\ b.header.parent = NoRef /\ b.header.superseded = NoRef
  BY <1>1, <1>2 DEF Continuation
<1>5. ValidHeader(b.header)
  BY <1>4 DEF ValidHeader, OpeningOperations
<1>6. /\ b.receipt.account = prior.account /\ b.receipt.origin = prior.origin
      /\ b.receipt.payload = transition /\ b.receipt.priorLinks = <<prior>>
      /\ b.receipt.parentLinks = <<>> /\ b.receipt.supersedesLinks = <<>>
  BY <1>3 DEF MakeReceipt, Cited
<1>7. ValidPayload(transition)
  BY <1>1 DEF ValidPayload
<1>8. Distinct(<<>>) /\ Distinct(<<prior>>)
  BY DEF Distinct
<1>9. ValidReceipt(b.receipt)
  BY <1>6, <1>7, <1>8 DEF ValidReceipt
<1>10. ValidVersionOpening(b.header, b.receipt)
  BY <1>1, <1>4, <1>5, <1>6, <1>9 DEF ValidVersionOpening
<1>11. QED
  BY <1>10 DEF b

(***************************************************************************)
(* So every bundle that waits for an answer passes the validators.         *)
(***************************************************************************)
\* An optional reference that is None has no fields: it is neither a pair of
\* references nor a header.
NoRefIsNull == DOMAIN NoRef = {}

WellFormed(h, r) ==
    /\ h.version \in Nat \ {0}
    /\ "version" \in DOMAIN h
    /\ "label" \in DOMAIN h.account
    /\ "label" \in DOMAIN r.account /\ "label" \notin DOMAIN r

FitInv ==
    /\ \A h \in accounts :
          /\ ValidHeader(h) /\ h.version \in Nat \ {0}
          /\ "version" \in DOMAIN h /\ "label" \in DOMAIN h.account
    /\ \A r \in receipts : "label" \in DOMAIN r.account /\ "label" \notin DOMAIN r
    /\ \A c \in Callers : draft[c] # None =>
          Fits(draft[c]) /\ WellFormed(draft[c].header, draft[c].receipt)

\* A header and its receipt fit together, and with them the header alone.
LEMMA FitsHeader ==
  ASSUME NEW d, d.kind \in {"opening", "version", "append"}, Fits(d)
  PROVE  ValidHeader(d.header)
BY DEF Fits, ValidOpening, ValidVersionOpening

LEMMA BuiltOpeningFits ==
  ASSUME NoRefIsNull, IInv, FitInv, NEW c \in Callers, NEW d, BuiltOpening(c, d)
  PROVE  Fits(d) /\ WellFormed(d.header, d.receipt)
<1>1. \A account, receipt : <<account, receipt>> # NoRef
  <2>1. \A account, receipt : 1 \in DOMAIN <<account, receipt>>
    OBVIOUS
  <2>2. QED
    BY <2>1 DEF NoRefIsNull
<1>2. \A r \in knows[c].receipts : r.account # r
  BY DEF IInv, WellKnown, FitInv
<1>3. PICK label, cut, l, b :
        /\ d = AsDraft("opening", b)
        /\ \/ b = OpenRoot(label, cut, l)
           \/ \E r \in knows[c].receipts :
                 b \in {OpenChild(label, r.account, r, cut, l),
                       OpenSuccessor(label, r.account, r, cut, l)}
  BY DEF BuiltOpening
<1>4. ValidOpening(b.header, b.receipt)
  <2>1. ASSUME b = OpenRoot(label, cut, l)
        PROVE  ValidOpening(b.header, b.receipt)
    <3>1. 0 # 1 /\ <<0, 1>> # NoRef
      BY <1>1
    <3>2. QED
      BY <2>1, <3>1, OpeningsFit
  <2>2. ASSUME NEW r \in knows[c].receipts,
               b \in {OpenChild(label, r.account, r, cut, l),
                     OpenSuccessor(label, r.account, r, cut, l)}
        PROVE  ValidOpening(b.header, b.receipt)
    BY <1>1, <1>2, <2>2, OpeningsFit
  <2>3. QED
    BY <1>3, <2>1, <2>2
<1>5. \E op, parent, superseded :
        b = Open(op, label, cut, parent, superseded, l)
  BY <1>3 DEF OpenRoot, OpenChild, OpenSuccessor
<1>6. WellFormed(b.header, b.receipt)
  BY <1>5 DEF Open, Bundle, MakeReceipt, WellFormed
<1>7. QED
  BY <1>3, <1>4, <1>6 DEF AsDraft, Fits

LEMMA BuiltVersionFits ==
  ASSUME NoRefIsNull, IInv, FitInv, NEW c \in Callers, NEW d, BuiltVersion(c, d)
  PROVE  Fits(d) /\ WellFormed(d.header, d.receipt)
<1>1. PICK prior \in knows[c].accounts, order \in Nat :
        d = AsDraft("version",
                    OpenVersion(prior, Transition(prior, prior.version + 1), order))
  BY DEF BuiltVersion
<1> DEFINE t == Transition(prior, prior.version + 1)
           b == OpenVersion(prior, t, order)
<1>2. /\ ValidHeader(prior) /\ prior.version \in Nat \ {0}
      /\ "version" \in DOMAIN prior /\ "label" \in DOMAIN prior.account
  BY DEF IInv, WellKnown, FitInv
<1>3. prior # NoRef
  BY <1>2 DEF NoRefIsNull
<1>4. ValidVersionOpening(b.header, b.receipt)
  BY <1>2, <1>3, VersionsFit
<1>5. WellFormed(b.header, b.receipt)
  BY <1>2 DEF OpenVersion, Continuation, Bundle, MakeReceipt, Transition, WellFormed
<1>6. QED
  BY <1>1, <1>4, <1>5 DEF AsDraft, Fits

LEMMA BuiltAppendFits ==
  ASSUME IInv, FitInv, NEW c \in Callers, NEW d, BuiltAppend(c, d)
  PROVE  Fits(d) /\ WellFormed(d.header, d.receipt)
<1>1. PICK h, order, r, payload :
        /\ h \in knows[c].accounts /\ ValidPayload(payload)
        /\ d = AsDraft("append", AppendTo(h, payload, order, <<r>>))
  BY DEF BuiltAppend
<1>2. /\ d.kind = "append" /\ d.header = h
      /\ d.receipt = MakeReceipt(h.account, h.origin, order, payload, <<r>>,
                                 NoRef, NoRef)
  BY <1>1 DEF AsDraft, AppendTo, Bundle
<1>3. /\ ValidHeader(h) /\ h.version \in Nat \ {0}
      /\ "version" \in DOMAIN h /\ "label" \in DOMAIN h.account
  BY <1>1 DEF IInv, WellKnown, FitInv
<1>4. Distinct(<<>>) /\ Distinct(<<r>>)
  BY DEF Distinct
<1>5. ValidReceipt(d.receipt)
  BY <1>1, <1>2, <1>4 DEF ValidReceipt, MakeReceipt, Cited
<1>6. WellFormed(d.header, d.receipt)
  BY <1>2, <1>3 DEF WellFormed, MakeReceipt
<1>7. QED
  BY <1>2, <1>3, <1>5, <1>6 DEF Fits

LEMMA FitAlways == NoRefIsNull => (Spec => []FitInv)
<1> SUFFICES ASSUME NoRefIsNull PROVE Spec => []FitInv
  OBVIOUS
<1>1. Init => FitInv
  BY DEF Init, FitInv
<1>2. IInv /\ FitInv /\ [Next]_vars => FitInv'
  <2> SUFFICES ASSUME IInv, FitInv, [Next]_vars PROVE FitInv'
    OBVIOUS
  <2>1. ASSUME NEW c \in Callers, NEW d, draft' = [draft EXCEPT ![c] = d],
               Built(c, d), UNCHANGED <<accounts, receipts>>
        PROVE  FitInv'
    <3>1. Fits(d) /\ WellFormed(d.header, d.receipt)
      BY <2>1, BuiltOpeningFits, BuiltVersionFits, BuiltAppendFits DEF Built
    <3>2. ASSUME NEW e \in Callers, draft'[e] # None
          PROVE  Fits(draft'[e]) /\ WellFormed(draft'[e].header, draft'[e].receipt)
      BY <2>1, <3>1, <3>2 DEF FitInv, IInv
    <3>3. QED
      BY <2>1, <3>2 DEF FitInv
  <2>2. ASSUME NEW c \in Callers, draft[c] # None, Submits(draft[c])
        PROVE  /\ \A h \in accounts' :
                     /\ ValidHeader(h) /\ h.version \in Nat \ {0}
                     /\ "version" \in DOMAIN h /\ "label" \in DOMAIN h.account
               /\ \A r \in receipts' :
                     "label" \in DOMAIN r.account /\ "label" \notin DOMAIN r
    <3>1. /\ draft[c].kind \in {"opening", "version", "append"}
          /\ Fits(draft[c]) /\ WellFormed(draft[c].header, draft[c].receipt)
      BY <2>2 DEF IInv, FreshDraft, FitInv
    <3>2. ValidHeader(draft[c].header)
      BY <3>1, FitsHeader
    <3>3. QED
      BY <2>2, <3>1, <3>2, SubmissionEffect DEF FitInv, WellFormed
  <2>3. ASSUME \A e \in Callers : draft'[e] \in {draft[e], None},
               \/ UNCHANGED <<accounts, receipts>>
               \/ \E c \in Callers : draft[c] # None /\ Submits(draft[c])
        PROVE  FitInv'
    BY <2>2, <2>3 DEF FitInv
  <2>4. QED
    BY <2>1, <2>3, StepShapes
<1>3. QED
  BY <1>1, <1>2, Inductive, PTL DEF Spec

\* What callers know is committed, and no bundle they submit is refused by a
\* validator: IsRefused is about rows only.
THEOREM TypeCorrect == NoRefIsNull => (Spec => []TypeOK)
<1>1. IInv /\ FitInv => TypeOK
  BY DEF IInv, WellKnown, FitInv, TypeOK
<1>2. QED
  BY <1>1, FitAlways, Inductive, PTL

-------------------------------------------------------------------------------
(***************************************************************************)
(* The ledger that callers fill.  LedgerProofs is about any rows with      *)
(* numbers in them; what the constructors build has numbers, so what it    *)
(* proves of the operations holds of every row that callers commit.        *)
(***************************************************************************)
Books == INSTANCE LedgerProofs WITH
    Headers <- {}, Receipts <- {}, Objects <- {}, Tokens <- {}, Decisions <- {},
    Unregistered <- 0, Unused <- 1, objects <- {}, tokens <- <<>>

\* The two instances of the ledger have the same operations.
LEMMA SameBooks ==
  /\ \A h, r : Store!CommitOpening(h, r) => Books!CommitOpening(h, r)
  /\ \A h, r : Store!CommitVersion(h, r) => Books!CommitVersion(h, r)
  /\ \A h, r : Store!AppendReceipt(h, r) => Books!AppendReceipt(h, r)
<1>1. \A h : Store!ValidHeader(h) <=> Books!ValidHeader(h)
  BY DEF Store!ValidHeader, Books!ValidHeader, Store!AccountIdentity,
         Books!AccountIdentity, Store!OpeningOperations, Books!OpeningOperations
<1>2. \A r : Store!ValidReceipt(r) <=> Books!ValidReceipt(r)
  BY DEF Store!ValidReceipt, Books!ValidReceipt,
         Store!ValidPayload, Books!ValidPayload,
         Store!ValidResidual, Books!ValidResidual,
         Store!ResultingStatus, Books!ResultingStatus,
         Store!OpeningOperations, Books!OpeningOperations,
         Store!Distinct, Books!Distinct
<1>3. \A h, r : Store!ValidOpening(h, r) <=> Books!ValidOpening(h, r)
  BY <1>1, <1>2 DEF Store!ValidOpening, Books!ValidOpening, Store!Cited, Books!Cited,
                    Store!OpeningOperations, Books!OpeningOperations
<1>4. \A h, r : Store!ValidVersionOpening(h, r) <=> Books!ValidVersionOpening(h, r)
  BY <1>1, <1>2 DEF Store!ValidVersionOpening, Books!ValidVersionOpening
<1>5. \A h, A :
         /\ Store!AccountAdmissible(h, A) <=> Books!AccountAdmissible(h, A)
         /\ Store!PriorPresent(h, A) <=> Books!PriorPresent(h, A)
  BY DEF Store!AccountAdmissible, Books!AccountAdmissible,
         Store!PriorPresent, Books!PriorPresent, Store!KeyOf, Books!KeyOf
<1>6. \A r, R : Store!ReceiptAdmissible(r, R) <=> Books!ReceiptAdmissible(r, R)
  BY DEF Store!ReceiptAdmissible, Books!ReceiptAdmissible,
         Store!IsNextOrder, Books!IsNextOrder
<1>7. QED
  BY <1>1, <1>2, <1>3, <1>4, <1>5, <1>6
     DEF Store!CommitOpening, Books!CommitOpening, Store!CommitVersion,
         Books!CommitVersion, Store!AppendReceipt, Books!AppendReceipt

\* A drafted opening opens version 1.
BooksInv ==
    /\ Books!Sound
    /\ IsFiniteSet(receipts)
    /\ \A c \in Callers : draft[c] # None /\ draft[c].kind = "opening" =>
          draft[c].header.version = 1

\* A submission is an operation of the ledger on rows with numbers.
LEMMA SubmissionKeepsBooks ==
  ASSUME IInv, BooksInv, NEW c \in Callers, draft[c] # None, Submits(draft[c])
  PROVE  Books!Sound' /\ IsFiniteSet(receipts)'
<1> DEFINE d == draft[c]
<1>1. /\ d.kind \in {"opening", "version", "append"} /\ d.receipt.order \in Nat
      /\ receipts' = receipts \cup {d.receipt}
  BY SubmissionEffect DEF IInv, FreshDraft
<1>2. IsFiniteSet(receipts')
  BY <1>1, FS_AddElement DEF BooksInv
<1>3. CASE d.kind = "opening"
  <2>1. d.header.version = 1 /\ Books!CommitOpening(d.header, d.receipt)
    BY <1>3, SameBooks DEF BooksInv, Submits
  <2>2. QED
    BY <1>1, <1>2, <2>1, Books!CommitOpeningSound DEF BooksInv
<1>4. CASE d.kind = "version"
  <2>1. Books!CommitVersion(d.header, d.receipt)
    BY <1>4, SameBooks DEF Submits
  <2>2. d.header.version \in Nat \ {0}
    BY <1>1, <1>4, <2>1
       DEF IInv, FreshDraft, Books!CommitVersion, Books!ValidVersionOpening,
           Books!ValidHeader
  <2>3. QED
    BY <1>1, <1>2, <2>1, <2>2, Books!CommitVersionSound DEF BooksInv
<1>5. CASE d.kind = "append"
  <2>1. Books!AppendReceipt(d.header, d.receipt)
    BY <1>5, SameBooks DEF Submits
  <2>2. d.header.version \in Nat \ {0}
    BY <2>1 DEF BooksInv, Books!Sound, Books!Numbered, Books!AppendReceipt
  <2>3. QED
    BY <1>1, <1>2, <2>1, <2>2, Books!AppendReceiptSound DEF BooksInv
<1>6. QED
  BY <1>1, <1>3, <1>4, <1>5

\* Whatever callers race for, lose or repeat, their accounts never fork, have
\* every version and every order, the cut that opened them and a transition for
\* each version, and verify() finds every row as the validators want it
\* (accounting.py:405-655, store.py:97-248).
THEOREM BooksAreSound ==
  Spec => /\ []Books!VersionChain
          /\ []Books!OrdersContiguous
          /\ []Books!OpenedByItsCut
          /\ []Books!VersionsHaveTransitions
          /\ []Books!VerifyFindsNothing
          /\ []Books!HistoriesComplete
          /\ []Books!CountsOrdered
<1>1. Init => BooksInv
  BY FS_EmptySet
     DEF Init, BooksInv, Books!Sound, Books!Numbered, Books!VersionChain,
         Books!OrdersContiguous, Books!OpenedByItsCut,
         Books!VersionsHaveTransitions, Books!VerifyFindsNothing,
         Books!EveryAccountOpened
<1>2. IInv /\ BooksInv /\ [Next]_vars => BooksInv'
  <2> SUFFICES ASSUME IInv, BooksInv, [Next]_vars PROVE BooksInv'
    OBVIOUS
  <2>1. Books!Sound' /\ IsFiniteSet(receipts)'
    <3>1. ASSUME UNCHANGED <<accounts, receipts>>
          PROVE  Books!Sound' /\ IsFiniteSet(receipts)'
      BY <3>1, Books!TablesUnchangedSound DEF BooksInv
    <3>2. QED
      BY <3>1, StepShapes, SubmissionKeepsBooks
  <2>2. ASSUME NEW c \in Callers, NEW d, Built(c, d), d.kind = "opening"
        PROVE  d.header.version = 1
    <3>1. CASE BuiltOpening(c, d)
      <4>1. \E op, label, cut, parent, superseded, l :
               d = AsDraft("opening", Open(op, label, cut, parent, superseded, l))
        BY <3>1 DEF BuiltOpening, OpenRoot, OpenChild, OpenSuccessor
      <4>2. QED
        BY <4>1 DEF AsDraft, Open, Bundle
    <3>2. ~BuiltVersion(c, d) /\ ~BuiltAppend(c, d)
      <4>1. \A kind, b : AsDraft(kind, b).kind = kind
        BY DEF AsDraft
      <4>2. BuiltVersion(c, d) => \E b : d = AsDraft("version", b)
        BY Zenon DEF BuiltVersion
      <4>3. BuiltAppend(c, d) => \E b : d = AsDraft("append", b)
        BY Zenon DEF BuiltAppend
      <4>4. QED
        BY <2>2, <4>1, <4>2, <4>3
    <3>3. QED
      BY <2>2, <3>1, <3>2 DEF Built
  <2>3. ASSUME NEW c \in Callers, draft'[c] # None, draft'[c].kind = "opening"
        PROVE  draft'[c].header.version = 1
    BY <2>2, <2>3, StepShapes DEF BooksInv, IInv
  <2>4. QED
    BY <2>1, <2>3 DEF BooksInv
<1>3. BooksInv => /\ Books!VersionChain
                  /\ Books!OrdersContiguous
                  /\ Books!OpenedByItsCut
                  /\ Books!VersionsHaveTransitions
                  /\ Books!VerifyFindsNothing
                  /\ Books!HistoriesComplete
                  /\ Books!CountsOrdered
  <2> SUFFICES ASSUME BooksInv
               PROVE  /\ Books!VersionChain
                      /\ Books!OrdersContiguous
                      /\ Books!OpenedByItsCut
                      /\ Books!VersionsHaveTransitions
                      /\ Books!VerifyFindsNothing
                      /\ Books!HistoriesComplete
                      /\ Books!CountsOrdered
    OBVIOUS
  <2>1. Books!Sound /\ IsFiniteSet(receipts)
    BY DEF BooksInv
  <2>2. Books!HistoriesComplete
    BY <2>1, Books!SoundIsComplete
  <2>3. Books!CountsOrdered
    <3>1. Books!IsFiniteSet(receipts)
      BY <2>1 DEF Books!IsFiniteSet, IsFiniteSet
    <3>2. QED
      BY <2>1, <3>1, Books!VersionsWithinReceipts DEF Books!CountsOrdered
  <2>4. QED
    BY <2>1, <2>2, <2>3 DEF Books!Sound
<1>4. QED
  BY <1>1, <1>2, <1>3, Inductive, PTL DEF Spec

-------------------------------------------------------------------------------
(***************************************************************************)
(* Refusals.                                                               *)
(***************************************************************************)
\* The account of a package is none that a constructor makes.
PackageIsNull == DOMAIN PackageNA = {}

\* A drafted version continues a header that is there, by one.
ContinuesPresent(d) ==
    d.kind = "version" =>
        /\ d.header.prior \in accounts
        /\ d.header.prior.account = d.header.account
        /\ d.header.prior.version = d.header.version - 1

PriorInv ==
    \A c \in Callers : draft[c] # None => ContinuesPresent(draft[c])

LEMMA BuiltContinuesPresent ==
  ASSUME IInv, NEW c \in Callers, NEW d, Built(c, d)
  PROVE  ContinuesPresent(d)
<1>1. CASE BuiltVersion(c, d)
  <2>1. PICK prior \in knows[c].accounts, order \in Nat :
          d = AsDraft("version",
                OpenVersion(prior, Transition(prior, prior.version + 1), order))
    BY <1>1 DEF BuiltVersion
  <2>2. prior \in accounts /\ prior.version \in Nat
    BY DEF IInv, WellKnown, Rows
  <2>3. /\ d.header.prior = prior /\ d.header.account = prior.account
        /\ d.header.version = prior.version + 1
    BY <2>1 DEF AsDraft, OpenVersion, Continuation, Bundle, Transition
  <2>4. QED
    BY <2>2, <2>3 DEF ContinuesPresent
<1>2. CASE BuiltOpening(c, d)
  <2>1. \E b : d = AsDraft("opening", b)
    BY <1>2, Zenon DEF BuiltOpening
  <2>2. QED
    BY <2>1 DEF AsDraft, ContinuesPresent
<1>3. CASE BuiltAppend(c, d)
  <2>1. \E b : d = AsDraft("append", b)
    BY <1>3, Zenon DEF BuiltAppend
  <2>2. QED
    BY <2>1 DEF AsDraft, ContinuesPresent
<1>4. QED
  BY <1>1, <1>2, <1>3 DEF Built

LEMMA PriorAlways == Spec => []PriorInv
<1>1. Init => PriorInv
  BY DEF Init, PriorInv
<1>2. IInv /\ PriorInv /\ [Next]_vars => PriorInv'
  <2> SUFFICES ASSUME IInv, PriorInv, [Next]_vars PROVE PriorInv'
    OBVIOUS
  <2>1. accounts \subseteq accounts'
    <3>1. ASSUME NEW c \in Callers, draft[c] # None, Submits(draft[c])
          PROVE  accounts \subseteq accounts'
      BY <3>1, SubmissionEffect DEF IInv, FreshDraft
    <3>2. QED
      BY <3>1, StepShapes
  <2>2. ASSUME NEW c \in Callers, draft'[c] # None
        PROVE  draft'[c] = draft[c] \/ Built(c, draft'[c])
    BY <2>2, StepShapes DEF IInv
  <2>3. ASSUME NEW c \in Callers, draft'[c] # None
        PROVE  ContinuesPresent(draft'[c])
    BY <2>2, <2>3, BuiltContinuesPresent DEF PriorInv
  <2>4. QED
    BY <2>1, <2>3 DEF PriorInv, ContinuesPresent
<1>3. QED
  BY <1>1, <1>2, Inductive, PTL DEF Spec

\* A receipt drafted for an order that is not the next one comes too late: some
\* receipt has its order.
LEMMA OrderTaken ==
  ASSUME IInv, Books!HistoriesComplete, NEW c \in Callers, draft[c] # None,
         draft[c].receipt \notin receipts,
         ~IsNextOrder(draft[c].receipt.order, draft[c].receipt.account, receipts)
  PROVE  \E s \in receipts :
            /\ s.account = draft[c].receipt.account
            /\ s.order = draft[c].receipt.order
<1> DEFINE r == draft[c].receipt
<1>1. /\ r.order \in Nat /\ \A s \in receipts : s.order \in Nat
      /\ r.order > 0 => \E s \in receipts :
                          s.account = r.account /\ s.order + 1 >= r.order
  BY DEF IInv, Rows, WellKnown, FreshDraft
<1>2. \E s \in receipts : s.account = r.account /\ s.order >= r.order
  BY <1>1 DEF IsNextOrder
<1>3. PICK s \in receipts : s.account = r.account /\ s.order >= r.order
  BY <1>2
<1>4. r.order \in 0 .. s.order
  BY <1>1, <1>3
<1>5. QED
  BY <1>3, <1>4 DEF Books!HistoriesComplete

\* Whatever callers know, lose or repeat, a bundle is refused only because of
\* another row in its place (accounting.py:573-625, store.py:135-237, 294-331).
THEOREM RefusedByRivalsAlways ==
  NoRefIsNull /\ PackageIsNull => (Spec => []RefusedByRivals)
<1> SUFFICES ASSUME NoRefIsNull, PackageIsNull
             PROVE  Spec => []RefusedByRivals
  OBVIOUS
<1>1. IInv /\ FitInv /\ PriorInv /\ Books!HistoriesComplete => RefusedByRivals
  <2> SUFFICES ASSUME IInv, FitInv, PriorInv, Books!HistoriesComplete,
                      NEW c \in Callers, draft[c] # None, ~Admitted(draft[c])
               PROVE  Rivalled(draft[c])
    BY DEF RefusedByRivals
  <2> DEFINE d == draft[c]
  <2>1. /\ d.kind = "append" => d.header \in accounts
        /\ d.kind = "version" => PriorPresent(d.header, accounts)
    BY DEF IInv, FreshDraft, WellKnown, PriorInv, ContinuesPresent,
           PriorPresent, KeyOf
  <2>2. CASE d.kind # "append" /\ ~AccountAdmissible(d.header, accounts)
    BY <2>2 DEF Rivalled, AccountAdmissible
  <2>3. CASE ~ReceiptAdmissible(d.receipt, receipts)
    <3>1. d.receipt.account # PackageNA
      BY DEF FitInv, WellFormed, PackageIsNull
    <3>2. QED
      BY <2>3, <3>1, OrderTaken DEF ReceiptAdmissible, Rivalled
  <2>4. QED
    BY <2>1, <2>2, <2>3 DEF Admitted
<1>2. Spec => []Books!HistoriesComplete
  BY BooksAreSound
<1>3. QED
  BY <1>1, <1>2, FitAlways, PriorAlways, Inductive, PTL
===============================================================================
