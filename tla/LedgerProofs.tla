----------------------------- MODULE LedgerProofs -----------------------------
(***************************************************************************)
(* Proofs about the atomic ledger, for every set of headers, receipts,     *)
(* tokens and decisions.                                                   *)
(*                                                                         *)
(* OpenedByItsCut is not inductive: an append to an account only checks    *)
(* that some version of it is present, and that there is then a version-1  *)
(* header follows only by going down the version chain.  EveryAccountOpened*)
(* keeps that fact in the invariant, so no induction on versions is needed.*)
(* Sound, the invariant without TypeOK, does not depend on which rows may  *)
(* be presented; AccountProofs uses it for the rows of its callers.        *)
(***************************************************************************)
EXTENDS Ledger, FiniteSets, FiniteSetTheorems, WellFoundedInduction, TLAPS

EveryAccountOpened ==
    \A h \in accounts : \E g \in accounts : g.account = h.account /\ g.version = 1

\* version is Field(ge=1), admission_order Field(ge=0).
Numbered ==
    /\ \A h \in accounts : h.version \in Nat \ {0}
    /\ \A r \in receipts : r.order \in Nat

\* What holds of the tables, whichever rows callers may present.
Sound ==
    /\ Numbered
    /\ VersionChain
    /\ OrdersContiguous
    /\ OpenedByItsCut
    /\ VersionsHaveTransitions
    /\ VerifyFindsNothing
    /\ EveryAccountOpened

IInv == TypeOK /\ Sound

-------------------------------------------------------------------------------
\* TypeOK holds initially and is kept by every operation of the ledger.
THEOREM TypeCorrect == Spec => []TypeOK
<1>1. Init => TypeOK
  BY DEF Init, TypeOK
<1>2. TypeOK /\ [Next]_vars => TypeOK'
  <2> SUFFICES ASSUME TypeOK, [Next]_vars PROVE TypeOK'
    OBVIOUS
  <2> USE DEF TypeOK
  <2>1. ASSUME NEW o \in Objects, PutObject(o) PROVE TypeOK'
    BY <2>1 DEF PutObject
  <2>2. ASSUME NEW h \in Headers, NEW r \in Receipts, CommitOpening(h, r)
        PROVE  TypeOK'
    BY <2>2 DEF CommitOpening
  <2>3. ASSUME NEW h \in Headers, NEW r \in Receipts, CommitVersion(h, r)
        PROVE  TypeOK'
    BY <2>3 DEF CommitVersion
  <2>4. ASSUME NEW h \in Headers, NEW r \in Receipts, AppendReceipt(h, r)
        PROVE  TypeOK'
    BY <2>4 DEF AppendReceipt
  <2>5. ASSUME NEW t \in Tokens, RegisterToken(t) PROVE TypeOK'
    BY <2>5 DEF RegisterToken
  <2>6. ASSUME NEW t \in Tokens, NEW d \in Decisions, ConsumeToken(t, d)
        PROVE  TypeOK'
    BY <2>6 DEF ConsumeToken
  <2>7. CASE UNCHANGED vars
    BY <2>7 DEF vars
  <2>8. QED
    BY <2>1, <2>2, <2>3, <2>4, <2>5, <2>6, <2>7 DEF Next
<1>3. QED
  BY <1>1, <1>2, PTL DEF Spec

-------------------------------------------------------------------------------
(***************************************************************************)
(* What the row checks of store.py preserve, as lemmas on the tables.      *)
(***************************************************************************)
\* An opening header is version 1, a VERSION header is not.
LEMMA OpeningIsFirst ==
  ASSUME NEW h, h.version \in Nat \ {0}, ValidHeader(h)
  PROVE  /\ h.op \in OpeningOperations => h.version = 1
         /\ h.op = "VERSION" => h.version >= 2
BY DEF ValidHeader, OpeningOperations

\* A receipt of an account that has none yet is admitted at order 0 only.
LEMMA FirstOrder ==
  ASSUME NEW R, NEW r, ReceiptAdmissible(r, R),
         \A s \in R : s.account # r.account
  PROVE  r.order = 0
BY DEF ReceiptAdmissible, IsNextOrder

\* _insert_receipt keeps the admission orders of an account contiguous.
LEMMA InsertKeepsOrders ==
  ASSUME NEW R, NEW r, \A s \in R \cup {r} : s.order \in Nat,
         ReceiptAdmissible(r, R),
         \A p, q \in R : p.account = q.account /\ p.order = q.order => p = q,
         \A p \in R : p.order > 0 =>
             \E q \in R : q.account = p.account /\ q.order + 1 = p.order
  PROVE  /\ \A p, q \in R \cup {r} :
               p.account = q.account /\ p.order = q.order => p = q
         /\ \A p \in R \cup {r} : p.order > 0 =>
               \E q \in R \cup {r} :
                   q.account = p.account /\ q.order + 1 = p.order
<1>1. CASE r \in R
  BY <1>1
<1>2. CASE r \notin R
  <2>1. IsNextOrder(r.order, r.account, R)
    BY <1>2 DEF ReceiptAdmissible
  <2>2. \A s \in R : s.account = r.account => s.order < r.order
    BY <2>1 DEF IsNextOrder
  <2>3. \A p, q \in R \cup {r} :
            p.account = q.account /\ p.order = q.order => p = q
    BY <2>2
  <2>4. r.order > 0 => \E q \in R : q.account = r.account /\ q.order + 1 = r.order
    BY <2>1 DEF IsNextOrder
  <2>5. QED
    BY <2>3, <2>4
<1>3. QED
  BY <1>1, <1>2

-------------------------------------------------------------------------------
(***************************************************************************)
(* One lemma per operation that writes accounts or receipts.               *)
(***************************************************************************)
\* commit_opening preserves the invariant: a version-1 header is inserted
\* together with the receipt at order 0 of an account that had no receipts.
LEMMA CommitOpeningSound ==
  ASSUME Sound, NEW h, h.version \in Nat \ {0}, NEW r, r.order \in Nat,
         CommitOpening(h, r)
  PROVE  Sound'
<1> USE DEF Sound
<1>1. /\ accounts' = accounts \cup {h}
      /\ receipts' = receipts \cup {r}
      /\ UNCHANGED <<objects, tokens>>
      /\ ValidOpening(h, r)
      /\ AccountAdmissible(h, accounts)
      /\ ReceiptAdmissible(r, receipts)
  BY DEF CommitOpening
<1>2. h.version = 1 /\ r.account = h.account
  BY <1>1, OpeningIsFirst DEF ValidOpening
<1>3. Numbered'
  BY <1>1 DEF Numbered
<1>4. VersionChain'
  <2>1. \A g, k \in accounts' : KeyOf(g) = KeyOf(k) => g = k
    BY <1>1 DEF VersionChain, AccountAdmissible
  <2>2. \A k \in accounts : k.version >= 2 => PriorPresent(k, accounts)
    BY DEF VersionChain
  <2>3. \A k \in accounts' : k.version >= 2 => PriorPresent(k, accounts')
    BY <1>1, <1>2, <2>2 DEF PriorPresent
  <2>4. QED
    BY <2>1, <2>3 DEF VersionChain
<1>5. OrdersContiguous'
  BY <1>1, InsertKeepsOrders DEF OrdersContiguous, Numbered
<1>6. OpenedByItsCut'
  <2>1. ASSUME h \notin accounts PROVE r.order = 0
    <3>1. \A g \in accounts : ~(g.account = h.account /\ g.version = 1)
      BY <1>1, <1>2, <2>1 DEF AccountAdmissible, KeyOf
    <3>2. \A s \in receipts : s.account # r.account
      BY <1>2, <3>1 DEF OpenedByItsCut
    <3>3. QED
      BY <1>1, <3>2, FirstOrder
  <2>2. \A k \in accounts' : k.version = 1 =>
            \E s \in receipts' : s.order = 0 /\ ValidOpening(k, s)
    BY <1>1, <2>1 DEF OpenedByItsCut
  <2>3. \A s \in receipts' :
            \E k \in accounts' : k.account = s.account /\ k.version = 1
    BY <1>1, <1>2 DEF OpenedByItsCut
  <2>4. QED
    BY <2>2, <2>3 DEF OpenedByItsCut
<1>7. VersionsHaveTransitions'
  BY <1>1, <1>2 DEF VersionsHaveTransitions
<1>8. EveryAccountOpened'
  BY <1>1, <1>2 DEF EveryAccountOpened
<1>9. VerifyFindsNothing'
  BY <1>1 DEF VerifyFindsNothing, ValidOpening, ReceiptAdmissible
<1>10. QED
  BY <1>3, <1>4, <1>5, <1>6, <1>7, <1>8, <1>9

\* commit_version preserves the invariant: the header inserted is one version
\* after the present header it names, and its transition receipt comes with it.
LEMMA CommitVersionSound ==
  ASSUME Sound, NEW h, h.version \in Nat \ {0}, NEW r, r.order \in Nat,
         CommitVersion(h, r)
  PROVE  Sound'
<1> USE DEF Sound
<1>1. /\ accounts' = accounts \cup {h}
      /\ receipts' = receipts \cup {r}
      /\ UNCHANGED <<objects, tokens>>
      /\ ValidVersionOpening(h, r)
      /\ PriorPresent(h, accounts)
      /\ AccountAdmissible(h, accounts)
      /\ ReceiptAdmissible(r, receipts)
  BY DEF CommitVersion
<1>2. h.version >= 2 /\ r.account = h.account
  BY <1>1, OpeningIsFirst DEF ValidVersionOpening
<1>3. \E g \in accounts : g.account = h.account /\ g.version = 1
  <2>1. h.prior \in accounts /\ h.prior.account = h.account
    BY <1>1 DEF PriorPresent, KeyOf
  <2>2. QED
    BY <2>1 DEF EveryAccountOpened
<1>4. Numbered'
  BY <1>1 DEF Numbered
<1>5. VersionChain'
  <2>1. \A g, k \in accounts' : KeyOf(g) = KeyOf(k) => g = k
    BY <1>1 DEF VersionChain, AccountAdmissible
  <2>2. \A k \in accounts : k.version >= 2 => PriorPresent(k, accounts)
    BY DEF VersionChain
  <2>3. \A k \in accounts' : k.version >= 2 => PriorPresent(k, accounts')
    BY <1>1, <2>2 DEF PriorPresent
  <2>4. QED
    BY <2>1, <2>3 DEF VersionChain
<1>6. OrdersContiguous'
  BY <1>1, InsertKeepsOrders DEF OrdersContiguous, Numbered
<1>7. OpenedByItsCut'
  <2>1. h.version # 1
    BY <1>2
  <2>2. \A k \in accounts' : k.version = 1 =>
            \E s \in receipts' : s.order = 0 /\ ValidOpening(k, s)
    BY <1>1, <2>1 DEF OpenedByItsCut
  <2>3. \A s \in receipts' :
            \E k \in accounts' : k.account = s.account /\ k.version = 1
    BY <1>1, <1>2, <1>3 DEF OpenedByItsCut
  <2>4. QED
    BY <2>2, <2>3 DEF OpenedByItsCut
<1>8. VersionsHaveTransitions'
  BY <1>1 DEF VersionsHaveTransitions
<1>9. EveryAccountOpened'
  BY <1>1, <1>3 DEF EveryAccountOpened
<1>10. VerifyFindsNothing'
  BY <1>1 DEF VerifyFindsNothing, ValidVersionOpening, ReceiptAdmissible
<1>11. QED
  BY <1>4, <1>5, <1>6, <1>7, <1>8, <1>9, <1>10

\* append_receipt preserves the invariant: its account has a header, hence
\* the version-1 header EveryAccountOpened keeps.
LEMMA AppendReceiptSound ==
  ASSUME Sound, NEW h, h.version \in Nat \ {0}, NEW r, r.order \in Nat,
         AppendReceipt(h, r)
  PROVE  Sound'
<1> USE DEF Sound
<1>1. /\ receipts' = receipts \cup {r}
      /\ UNCHANGED <<objects, accounts, tokens>>
      /\ h \in accounts
      /\ r.account = h.account
      /\ ValidReceipt(r)
      /\ ReceiptAdmissible(r, receipts)
  BY DEF AppendReceipt
<1>2. Numbered'
  BY <1>1 DEF Numbered
<1>3. VersionChain' /\ EveryAccountOpened'
  BY <1>1 DEF VersionChain, EveryAccountOpened
<1>4. OrdersContiguous'
  BY <1>1, InsertKeepsOrders DEF OrdersContiguous, Numbered
<1>5. OpenedByItsCut'
  BY <1>1 DEF OpenedByItsCut, EveryAccountOpened
<1>6. VersionsHaveTransitions'
  BY <1>1 DEF VersionsHaveTransitions
<1>7. VerifyFindsNothing'
  BY <1>1 DEF VerifyFindsNothing, ReceiptAdmissible
<1>8. QED
  BY <1>2, <1>3, <1>4, <1>5, <1>6, <1>7

\* A step that leaves accounts and receipts alone preserves the invariant.
LEMMA TablesUnchangedSound ==
  ASSUME Sound, UNCHANGED <<accounts, receipts>>
  PROVE  Sound'
BY DEF Sound, Numbered, VersionChain, OrdersContiguous, OpenedByItsCut,
       VersionsHaveTransitions, VerifyFindsNothing, EveryAccountOpened

-------------------------------------------------------------------------------
\* The inductive invariant holds in every reachable state of the ledger.
THEOREM Inductive == Spec => []IInv
<1>1. Init => Sound
  BY DEF Init, Sound, Numbered, VersionChain, OrdersContiguous, OpenedByItsCut,
         VersionsHaveTransitions, VerifyFindsNothing, EveryAccountOpened
<1>2. Sound /\ [Next]_vars => Sound'
  <2> SUFFICES ASSUME Sound, [Next]_vars PROVE Sound'
    OBVIOUS
  <2>1. ASSUME NEW h \in Headers, NEW r \in Receipts,
               \/ CommitOpening(h, r)
               \/ CommitVersion(h, r)
               \/ AppendReceipt(h, r)
        PROVE  Sound'
    <3>1. h.version \in Nat \ {0} /\ r.order \in Nat
      BY HeaderFields, ReceiptFields
    <3>2. QED
      BY <2>1, <3>1, CommitOpeningSound, CommitVersionSound, AppendReceiptSound
  <2>2. CASE UNCHANGED <<accounts, receipts>>
    BY <2>2, TablesUnchangedSound
  <2>3. QED
    BY <2>1, <2>2 DEF Next, vars, PutObject, RegisterToken, ConsumeToken
<1>3. QED
  BY <1>1, <1>2, TypeCorrect, PTL DEF Spec, IInv

\* Accounts never fork and every version names the one before it.
THEOREM VersionChainAlways == Spec => []VersionChain
BY Inductive, PTL DEF IInv, Sound

\* The receipts of every account are serial: orders 0, 1, 2, ...
THEOREM OrdersContiguousAlways == Spec => []OrdersContiguous
BY Inductive, PTL DEF IInv, Sound

\* No account without the cut it was opened by, no receipt without an account.
THEOREM OpenedByItsCutAlways == Spec => []OpenedByItsCut
BY Inductive, PTL DEF IInv, Sound

\* No later version without the transition receipt that admitted it.
THEOREM VersionsHaveTransitionsAlways == Spec => []VersionsHaveTransitions
BY Inductive, PTL DEF IInv, Sound

\* No sequence of operations writes a header or a receipt that verify() reports.
THEOREM VerifyFindsNothingAlways == Spec => []VerifyFindsNothing
BY Inductive, PTL DEF IInv, Sound

-------------------------------------------------------------------------------
(***************************************************************************)
(* Whole histories.  The invariant looks one version and one order back;   *)
(* followed all the way, it leaves no gap from the first to the last.      *)
(***************************************************************************)
LEMMA SmallestNumber ==
  ASSUME NEW B \in SUBSET Nat, B # {}
  PROVE  \E n \in B : \A m \in B : n <= m
<1> DEFINE Below == {0 .. n : n \in B}
<1>1. Below \subseteq FiniteSubsetsOf(Nat) /\ Below # {}
  <2>1. \A n \in B : 0 .. n \in SUBSET Nat /\ IsFiniteSet(0 .. n)
    BY FS_Interval
  <2>2. QED
    BY <2>1 DEF FiniteSubsetsOf
<1>2. PICK T \in Below : \A U \in Below : <<U, T>> \notin StrictSubsetOrdering(Nat)
  <2> HIDE DEF Below
  <2>1. QED
    BY <1>1, FS_StrictSubsetOrderingWellFounded, WFMin
<1>3. PICK n \in B : T = 0 .. n
  OBVIOUS
<1>4. ASSUME NEW m \in B, m < n PROVE FALSE
  <2>1. 0 .. m \in Below /\ 0 .. m \subseteq 0 .. n /\ n \notin 0 .. m
    BY <1>4
  <2>2. 0 .. m \in SUBSET Nat /\ 0 .. n \in SUBSET Nat /\ n \in 0 .. n
    OBVIOUS
  <2>3. <<0 .. m, 0 .. n>> \in StrictSubsetOrdering(Nat)
    BY <2>1, <2>2 DEF StrictSubsetOrdering
  <2>4. QED
    BY <1>2, <1>3, <2>1, <2>3
<1>5. QED
  BY <1>4

\* What steps back by one from n, down to k, can be counted down.
LEMMA CountDown ==
  ASSUME NEW S \in SUBSET Nat, NEW k \in Nat, NEW n \in S, k <= n,
         \A m \in S : m > k => m - 1 \in S
  PROVE  k .. n \subseteq S
<1> DEFINE B == {d \in Nat : d <= n - k /\ n - d \notin S}
<1>1. SUFFICES ASSUME B # {} PROVE FALSE
  <2>1. ASSUME NEW m \in k .. n, m \notin S PROVE n - m \in B
    BY <2>1
  <2>2. QED
    BY <1>1, <2>1
<1>2. PICK d \in B : \A e \in B : d <= e
  <2>1. B \in SUBSET Nat
    OBVIOUS
  <2> HIDE DEF B
  <2>2. QED
    BY <1>1, <2>1, SmallestNumber
<1>3. d # 0
  OBVIOUS
<1>4. n - (d - 1) \in S
  <2>1. d - 1 \in Nat /\ d - 1 <= n - k /\ ~(d <= d - 1)
    BY <1>3
  <2>2. QED
    BY <1>2, <2>1
<1>5. n - d \in S
  <2>1. n - (d - 1) > k /\ n - (d - 1) - 1 = n - d
    BY <1>3
  <2>2. QED
    BY <1>4, <2>1
<1>6. QED
  BY <1>5

\* An account with a version has all earlier versions, and an account with a
\* receipt has a receipt at every earlier order.
HistoriesComplete ==
    /\ \A h \in accounts : \A n \in 1 .. h.version :
          \E g \in accounts : g.account = h.account /\ g.version = n
    /\ \A r \in receipts : \A n \in 0 .. r.order :
          \E s \in receipts : s.account = r.account /\ s.order = n

\* One step back, repeated.
LEMMA SoundIsComplete ==
  ASSUME Sound
  PROVE  HistoriesComplete
<1>1. /\ \A h \in accounts : h.version \in Nat \ {0}
      /\ \A r \in receipts : r.order \in Nat
  BY DEF Sound, Numbered
<1>2. ASSUME NEW h \in accounts, NEW n \in 1 .. h.version
      PROVE  \E g \in accounts : g.account = h.account /\ g.version = n
  <2> DEFINE S == {g.version : g \in {f \in accounts : f.account = h.account}}
  <2>1. S \subseteq Nat /\ h.version \in S
    BY <1>1
  <2>2. \A m \in S : m > 1 => m - 1 \in S
    <3>1. ASSUME NEW g \in accounts, g.account = h.account, g.version > 1
          PROVE  g.version - 1 \in S
      <4>1. g.prior \in accounts /\ KeyOf(g.prior) = <<g.account, g.version - 1>>
        BY <1>1, <3>1 DEF Sound, VersionChain, PriorPresent
      <4>2. g.prior.account = h.account /\ g.prior.version = g.version - 1
        BY <3>1, <4>1 DEF KeyOf
      <4>3. QED
        BY <4>1, <4>2
    <3>2. QED
      BY <3>1
  <2>3. 1 .. h.version \subseteq S
    <3> HIDE DEF S
    <3>1. QED
      BY <1>1, <2>1, <2>2, CountDown
  <2>4. QED
    BY <2>3
<1>3. ASSUME NEW r \in receipts, NEW n \in 0 .. r.order
      PROVE  \E s \in receipts : s.account = r.account /\ s.order = n
  <2> DEFINE S == {s.order : s \in {q \in receipts : q.account = r.account}}
  <2>1. S \subseteq Nat /\ r.order \in S
    BY <1>1
  <2>2. \A m \in S : m > 0 => m - 1 \in S
    <3>1. ASSUME NEW s \in receipts, s.account = r.account, s.order > 0
          PROVE  s.order - 1 \in S
      <4>1. PICK q \in receipts : q.account = s.account /\ q.order + 1 = s.order
        BY <3>1 DEF Sound, OrdersContiguous
      <4>2. q.order = s.order - 1
        BY <1>1, <4>1
      <4>3. QED
        BY <3>1, <4>1, <4>2
    <3>2. QED
      BY <3>1
  <2>3. 0 .. r.order \subseteq S
    <3> HIDE DEF S
    <3>1. QED
      BY <1>1, <2>1, <2>2, CountDown
  <2>4. QED
    BY <2>3
<1>4. QED
  BY <1>2, <1>3 DEF HistoriesComplete

\* No account ever misses a version or a receipt in the middle
\* (store.py:156-248).
THEOREM HistoriesCompleteAlways == Spec => []HistoriesComplete
BY SoundIsComplete, Inductive, PTL DEF IInv

-------------------------------------------------------------------------------
(***************************************************************************)
(* Every account version has a receipt of its own, so there are never more *)
(* versions than receipts.                                                 *)
(***************************************************************************)
\* The receipt r is the one that the account version h was committed with.
Admits(h, r) == ValidOpening(h, r) \/ ValidVersionOpening(h, r)

\* A receipt admits one account version only: a cut the version 1 of its
\* account, a transition the version it announces.
LEMMA AdmitsOne ==
  ASSUME Numbered, VersionChain, NEW g \in accounts, NEW h \in accounts, NEW r,
         Admits(g, r), Admits(h, r)
  PROVE  g = h
<1>1. /\ g.version \in Nat \ {0} /\ h.version \in Nat \ {0}
      /\ g.account = h.account
  BY DEF Numbered, Admits, ValidOpening, ValidVersionOpening
<1>2. CASE r.payload.type = "CutReceipt"
  <2>1. g.version = 1 /\ h.version = 1
    BY <1>1, <1>2, OpeningIsFirst DEF Admits, ValidOpening, ValidVersionOpening
  <2>2. QED
    BY <1>1, <2>1 DEF VersionChain, KeyOf
<1>3. CASE r.payload.type # "CutReceipt"
  <2>1. g.version = r.payload.nextVersion /\ h.version = r.payload.nextVersion
    BY <1>3 DEF Admits, ValidOpening, ValidVersionOpening
  <2>2. QED
    BY <1>1, <2>1 DEF VersionChain, KeyOf
<1>4. QED
  BY <1>2, <1>3

\* Hence the versions map one to one into the receipts.
LEMMA VersionsWithinReceipts ==
  ASSUME Sound, IsFiniteSet(receipts)
  PROVE  IsFiniteSet(accounts) /\ Cardinality(accounts) <= Cardinality(receipts)
<1>1. \A h \in accounts : \E r \in receipts : Admits(h, r)
  <2>1. \A h \in accounts : h.version = 1 \/ h.version >= 2
    BY DEF Sound, Numbered
  <2>2. QED
    BY <2>1 DEF Sound, OpenedByItsCut, VersionsHaveTransitions, Admits
<1> DEFINE f == [h \in accounts |-> CHOOSE r \in receipts : Admits(h, r)]
<1>2. \A h \in accounts : f[h] \in receipts /\ Admits(h, f[h])
  BY <1>1
<1>3. \A g, h \in accounts : f[g] = f[h] => g = h
  BY <1>2, AdmitsOne DEF Sound
<1>4. f \in Injection(accounts, receipts)
  <2>1. f \in [accounts -> receipts]
    BY <1>2
  <2>2. QED
    BY <1>3, <2>1 DEF Injection, IsInjective
<1>5. QED
  BY <1>4, FS_Injection

\* Only finitely many receipts have been committed, and no more versions.
CountsOrdered ==
    /\ IsFiniteSet(accounts) /\ IsFiniteSet(receipts)
    /\ Cardinality(accounts) <= Cardinality(receipts)

\* There are never more account versions than receipts (store.py:97-239).
THEOREM CountsOrderedAlways == Spec => []CountsOrdered
<1>1. Init => IsFiniteSet(receipts)
  BY FS_EmptySet DEF Init
<1>2. IsFiniteSet(receipts) /\ [Next]_vars => IsFiniteSet(receipts)'
  <2> SUFFICES ASSUME IsFiniteSet(receipts), [Next]_vars
               PROVE  IsFiniteSet(receipts')
    OBVIOUS
  <2>1. \A r : IsFiniteSet(receipts \cup {r})
    BY FS_AddElement
  <2>2. receipts' = receipts \/ \E r : receipts' = receipts \cup {r}
    BY DEF Next, vars, PutObject, CommitOpening, CommitVersion, AppendReceipt,
           RegisterToken, ConsumeToken
  <2>3. QED
    BY <2>1, <2>2
<1>3. IInv /\ IsFiniteSet(receipts) => CountsOrdered
  BY VersionsWithinReceipts DEF IInv, CountsOrdered
<1>4. QED
  BY <1>1, <1>2, <1>3, Inductive, PTL DEF Spec

-------------------------------------------------------------------------------
\* A consumed token is never consumed by another decision, nor released.
THEOREM TokenUsedOnceAlways == Spec => TokenUsedOnce
<1>1. TypeOK /\ [Next]_vars =>
        [\A t \in Tokens : tokens[t] \in Decisions => tokens'[t] = tokens[t]]_vars
  <2> SUFFICES ASSUME TypeOK, [Next]_vars, NEW t \in Tokens,
                      tokens[t] \in Decisions
               PROVE  tokens'[t] = tokens[t]
    BY DEF vars
  <2>1. tokens \in [Tokens -> {Unregistered, Unused} \cup Decisions]
    BY DEF TypeOK
  <2>2. CASE UNCHANGED tokens
    BY <2>2
  <2>3. ASSUME NEW u \in Tokens, RegisterToken(u)
        PROVE  tokens'[t] = tokens[t]
    BY <2>1, <2>3, TokenStates DEF RegisterToken
  <2>4. ASSUME NEW u \in Tokens, NEW d \in Decisions, ConsumeToken(u, d)
        PROVE  tokens'[t] = tokens[t]
    BY <2>1, <2>4, TokenStates DEF ConsumeToken, TokenAdmissible
  <2>5. QED
    BY <2>2, <2>3, <2>4
       DEF Next, vars, PutObject, CommitOpening, CommitVersion, AppendReceipt
<1>2. QED
  BY <1>1, TypeCorrect, PTL DEF Spec, TokenUsedOnce

\* No step rewrites a header or a receipt, and new receipts come last in their
\* account.
THEOREM AppendOnlyAlways == Spec => AppendOnly
<1> DEFINE Grows ==
      /\ accounts \subseteq accounts'
      /\ receipts \subseteq receipts'
      /\ \A r \in receipts' \ receipts, s \in receipts :
            s.account = r.account => s.order < r.order
<1>1. ASSUME NEW r \in Receipts, ReceiptAdmissible(r, receipts),
             receipts \subseteq Receipts, receipts' = receipts \cup {r},
             accounts \subseteq accounts'
      PROVE  Grows
  <2>1. \A q \in receipts' \ receipts : q = r /\ IsNextOrder(r.order, r.account, receipts)
    BY <1>1 DEF ReceiptAdmissible
  <2>2. r.order \in Nat /\ \A s \in receipts : s.order \in Nat
    BY <1>1, ReceiptFields
  <2>3. QED
    BY <1>1, <2>1, <2>2 DEF IsNextOrder
<1>2. TypeOK /\ [Next]_vars => [Grows]_vars
  <2> SUFFICES ASSUME TypeOK, Next PROVE Grows
    OBVIOUS
  <2>1. receipts \subseteq Receipts
    BY DEF TypeOK
  <2>2. ASSUME NEW h \in Headers, NEW r \in Receipts,
               \/ CommitOpening(h, r)
               \/ CommitVersion(h, r)
               \/ AppendReceipt(h, r)
        PROVE  Grows
    BY <1>1, <2>1, <2>2 DEF CommitOpening, CommitVersion, AppendReceipt
  <2>3. CASE UNCHANGED <<accounts, receipts>>
    BY <2>3
  <2>4. QED
    BY <2>2, <2>3 DEF Next, PutObject, RegisterToken, ConsumeToken
<1>3. QED
  BY <1>2, TypeCorrect, PTL DEF Spec, AppendOnly
===============================================================================
