----------------------------- MODULE RouterProofs -----------------------------
(***************************************************************************)
(* Theorems about the router, for every set of proposals and snapshots.    *)
(* Each is about evaluate_route alone; the session contributes that what   *)
(* it is given is well formed at every point.                              *)
(***************************************************************************)
EXTENDS RouterSession, FiniteSetTheorems, WellFoundedInduction, TLAPS

-------------------------------------------------------------------------------
(***************************************************************************)
(* Scores.  A score is a sum over the dimensions of the diagnostic, which  *)
(* the community modules define by recursion on sets.  That the recursion  *)
(* has a value, and that it is a number, is shown for finite sets by going *)
(* to a smallest set for which it would fail.                              *)
(***************************************************************************)
\* A family of subsets of a finite set has a smallest member.
LEMMA Smallest ==
  ASSUME NEW D, IsFiniteSet(D), NEW B \in SUBSET (SUBSET D), B # {}
  PROVE  \E s \in B : \A t \in SUBSET s : t # s => t \notin B
<1>1. B \subseteq FiniteSubsetsOf(D)
  BY FS_FiniteSubsetsOfFinite
<1>2. PICK s \in B : \A t \in B : <<t, s>> \notin StrictSubsetOrdering(D)
  BY <1>1, FS_StrictSubsetOrderingWellFounded, WFMin
<1>3. QED
  BY <1>2 DEF StrictSubsetOrdering

\* The element that the recursion takes next.
Any(s) == CHOOSE x \in s : TRUE

LEMMA AnyIn == \A s : s # {} => Any(s) \in s
BY DEF Any

\* g sums v over the subsets of T.
Sums(v, g, T) ==
    g = [s \in SUBSET T |-> IF s = {} THEN 0 ELSE v[Any(s)] + g[s \ {Any(s)}]]

\* Two such functions agree where both are defined.
LEMMA SumsAgree ==
  ASSUME NEW D, IsFiniteSet(D), NEW v, NEW T \in SUBSET D, NEW U \in SUBSET D,
         NEW g, NEW h, Sums(v, g, T), Sums(v, h, U), NEW s \in SUBSET (T \cap U)
  PROVE  g[s] = h[s]
<1> DEFINE B == {t \in SUBSET (T \cap U) : g[t] # h[t]}
<1>1. SUFFICES ASSUME B # {} PROVE FALSE
  OBVIOUS
<1>2. PICK b \in B : \A t \in SUBSET b : t # b => t \notin B
  <2>1. B \in SUBSET (SUBSET D)
    OBVIOUS
  <2> HIDE DEF B
  <2>2. QED
    BY <1>1, <2>1, Smallest
<1>3. /\ g[b] = IF b = {} THEN 0 ELSE v[Any(b)] + g[b \ {Any(b)}]
      /\ h[b] = IF b = {} THEN 0 ELSE v[Any(b)] + h[b \ {Any(b)}]
  BY DEF Sums
<1>4. CASE b = {}
  BY <1>3, <1>4
<1>5. CASE b # {}
  <2>1. b \ {Any(b)} \in SUBSET b /\ b \ {Any(b)} # b
    BY <1>5, AnyIn
  <2>2. g[b \ {Any(b)}] = h[b \ {Any(b)}]
    BY <1>2, <2>1
  <2>3. QED
    BY <1>3, <1>5, <2>2
<1>6. QED
  BY <1>4, <1>5

\* And there is one for every finite set.
LEMMA SumsExist ==
  ASSUME NEW D, IsFiniteSet(D), NEW v
  PROVE  \E g : Sums(v, g, D)
<1> DEFINE B == {T \in SUBSET D : ~\E g : Sums(v, g, T)}
<1>1. SUFFICES ASSUME B # {} PROVE FALSE
  BY DEF B
<1>2. PICK T \in B : \A t \in SUBSET T : t # T => t \notin B
  <2>1. B \in SUBSET (SUBSET D)
    OBVIOUS
  <2> HIDE DEF B
  <2>2. QED
    BY <1>1, <2>1, Smallest
<1> DEFINE H(t) == CHOOSE h : Sums(v, h, t)
           G(s) == IF s = {} THEN 0 ELSE v[Any(s)] + H(s \ {Any(s)})[s \ {Any(s)}]
           g == [s \in SUBSET T |-> G(s)]
<1>3. ASSUME NEW t \in SUBSET T, t # T PROVE Sums(v, H(t), t)
  <2>1. \E h : Sums(v, h, t)
    BY <1>2, <1>3
  <2>2. QED
    BY <2>1
<1> HIDE DEF H
<1>4. ASSUME NEW u \in SUBSET T, u # T PROVE g[u] = H(u)[u]
  <2>1. H(u)[u] = IF u = {} THEN 0 ELSE v[Any(u)] + H(u)[u \ {Any(u)}]
    BY <1>3, <1>4 DEF Sums
  <2>2. CASE u # {}
    <3> DEFINE w == u \ {Any(u)}
    <3>1. w \in SUBSET u /\ w # T
      BY <1>4, <2>2, AnyIn
    <3>2. Sums(v, H(u), u) /\ Sums(v, H(w), w)
      BY <1>3, <1>4, <3>1
    <3>3. H(u)[w] = H(w)[w]
      BY <3>1, <3>2, SumsAgree
    <3>4. QED
      BY <2>1, <2>2, <3>3
  <2>3. QED
    BY <2>1, <2>2
<1>5. ASSUME NEW s \in SUBSET T
      PROVE  G(s) = IF s = {} THEN 0 ELSE v[Any(s)] + g[s \ {Any(s)}]
  <2>1. CASE s # {}
    <3>1. s \ {Any(s)} \in SUBSET T /\ s \ {Any(s)} # T
      BY <2>1, AnyIn
    <3>2. QED
      BY <2>1, <3>1, <1>4
  <2>2. QED
    BY <2>1
<1>6. Sums(v, g, T)
  BY <1>5 DEF Sums
<1>7. QED
  BY <1>2, <1>6

\* The score of a candidate that has the metrics a diagnostic needs is a number.
LEMMA ScoreIsInt ==
  ASSUME NEW diagnostic, WellFormedDiagnostic(diagnostic),
         NEW c, WellFormedCandidate(c),
         DOMAIN diagnostic.weights \subseteq DOMAIN c.metrics
  PROVE  Score(diagnostic, c) \in Int
<1> DEFINE D == DOMAIN diagnostic.weights
           m == c.metrics
           w == diagnostic.weights
<1>0. IsFiniteSet(D) /\ \A d \in D : m[d] \in Int /\ w[d] \in Int
  BY DEF WellFormedDiagnostic, WellFormedCandidate
<1> DEFINE v == [d \in D |-> m[d] * w[d]]
           E(g) == g = [s \in SUBSET D |-> IF s = {} THEN 0
                      ELSE m[Any(s)] * w[Any(s)] + g[s \ {Any(s)}]]
<1>1. Score(diagnostic, c) = (CHOOSE g : E(g))[D]
  BY DEF Score, MapThenSumSet, MapThenFoldSet, Any
<1>2. \E g : E(g)
  <2>1. PICK g : Sums(v, g, D)
    BY <1>0, SumsExist
  <2>2. \A s \in SUBSET D : s # {} => v[Any(s)] = m[Any(s)] * w[Any(s)]
    BY AnyIn
  <2>3. E(g)
    BY <2>1, <2>2 DEF Sums
  <2>4. QED
    BY <2>3
<1>3. PICK g : E(g) /\ Score(diagnostic, c) = g[D]
  BY <1>1, <1>2
<1> HIDE DEF v
<1> DEFINE B == {s \in SUBSET D : g[s] \notin Int}
<1>4. SUFFICES ASSUME B # {} PROVE FALSE
  BY <1>3
<1>5. PICK b \in B : \A t \in SUBSET b : t # b => t \notin B
  <2>1. B \in SUBSET (SUBSET D)
    OBVIOUS
  <2> HIDE DEF B
  <2>2. QED
    BY <1>0, <1>4, <2>1, Smallest
<1>6. g[b] = IF b = {} THEN 0 ELSE m[Any(b)] * w[Any(b)] + g[b \ {Any(b)}]
  BY <1>3
<1>7. CASE b # {}
  <2>1. b \ {Any(b)} \in SUBSET b /\ b \ {Any(b)} # b /\ Any(b) \in D
    BY <1>7, AnyIn
  <2>2. g[b \ {Any(b)}] \in Int
    BY <1>5, <2>1
  <2>3. m[Any(b)] * w[Any(b)] \in Int
    BY <1>0, <2>1
  <2>4. QED
    BY <1>6, <1>7, <2>2, <2>3
<1>8. QED
  BY <1>6, <1>7

-------------------------------------------------------------------------------
(***************************************************************************)
(* Selection: a finite set of candidates with distinct ranks has one that  *)
(* precedes the others.                                                    *)
(***************************************************************************)
\* The sort key of _select orders what it is applied to.
Comparable(k, C) ==
    \A c, d \in C :
        /\ c.rank \in Int
        /\ c.rank = d.rank => c = d
        /\ k.policy.diagnostic # NoDiagnostic => Score(k.policy.diagnostic, c) \in Int

LEMMA PrecedesOrders ==
  ASSUME NEW k, NEW C, Comparable(k, C), NEW c \in C, NEW d \in C, NEW e \in C
  PROVE  /\ ~Precedes(k, c, c)
         /\ c # d => Precedes(k, c, d) \/ Precedes(k, d, c)
         /\ Precedes(k, c, d) /\ Precedes(k, d, e) => Precedes(k, c, e)
<1>1. CASE k.policy.diagnostic = NoDiagnostic
  BY <1>1 DEF Comparable, Precedes
<1>2. CASE k.policy.diagnostic # NoDiagnostic
  <2>1. /\ Score(k.policy.diagnostic, c) \in Int /\ Score(k.policy.diagnostic, d) \in Int /\ Score(k.policy.diagnostic, e) \in Int
        /\ c.rank \in Int /\ d.rank \in Int /\ e.rank \in Int
        /\ c.rank = d.rank => c = d
    BY <1>2 DEF Comparable
  <2>2. QED
    BY <1>2, <2>1 DEF Precedes
<1>3. QED
  BY <1>1, <1>2

\* Of a finite set of sets, such as those of the candidates that precede each
\* candidate, one has no proper subset among the others.
LEMMA BestExists ==
  ASSUME NEW k, NEW C, Comparable(k, C), IsFiniteSet(C), C # {}
  PROVE  \E c \in C : \A d \in C \ {c} : Precedes(k, c, d)
<1> DEFINE Ahead(c) == {d \in C : Precedes(k, d, c)}
           Aheads == {Ahead(c) : c \in C}
<1>1. Aheads \subseteq FiniteSubsetsOf(C) /\ Aheads # {}
  <2>1. \A c \in C : Ahead(c) \in SUBSET C
    OBVIOUS
  <2>2. FiniteSubsetsOf(C) = SUBSET C
    BY FS_FiniteSubsetsOfFinite
  <2>3. Aheads \subseteq SUBSET C
    BY <2>1
  <2>4. PICK c \in C : TRUE
    OBVIOUS
  <2>5. Ahead(c) \in Aheads
    BY <2>4
  <2>6. QED
    BY <2>2, <2>3, <2>5
<1>2. PICK A \in Aheads : \A B \in Aheads : <<B, A>> \notin StrictSubsetOrdering(C)
  BY <1>1, FS_StrictSubsetOrderingWellFounded, WFMin
<1>3. PICK c \in C : A = Ahead(c)
  BY <1>2
<1>4. ASSUME NEW d \in C, Precedes(k, d, c) PROVE FALSE
  <2>1. Ahead(d) \subseteq Ahead(c)
    BY <1>4, PrecedesOrders
  <2>2. d \in Ahead(c) /\ d \notin Ahead(d)
    BY <1>4, PrecedesOrders
  <2>3. <<Ahead(d), Ahead(c)>> \in StrictSubsetOrdering(C)
    BY <2>1, <2>2 DEF StrictSubsetOrdering
  <2>4. QED
    BY <1>2, <1>3, <2>3
<1>5. QED
  BY <1>4, PrecedesOrders

\* _select returns an eligible candidate that precedes every other, and None
\* exactly when there is none.
LEMMA SelectedIsBest ==
  ASSUME NEW p, NEW k, Comparable(k, EligibleCandidates(p, k)),
         IsFiniteSet(EligibleCandidates(p, k)), EligibleCandidates(p, k) # {}
  PROVE  /\ Selected(p, k) \in EligibleCandidates(p, k)
         /\ \A d \in EligibleCandidates(p, k) \ {Selected(p, k)} :
               Precedes(k, Selected(p, k), d)
<1> DEFINE E == EligibleCandidates(p, k)
<1>1. \E c \in E : \A d \in E \ {c} : Precedes(k, c, d)
  BY BestExists
<1>2. Selected(p, k) = CHOOSE c \in E : \A d \in E \ {c} : Precedes(k, c, d)
  BY DEF Selected
<1> HIDE DEF E
<1>3. /\ Selected(p, k) \in E
      /\ \A d \in E \ {Selected(p, k)} : Precedes(k, Selected(p, k), d)
  BY <1>1, <1>2
<1>4. QED
  BY <1>3 DEF E

-------------------------------------------------------------------------------
(***************************************************************************)
(* What a guard reads.                                                     *)
(***************************************************************************)
\* Neither the other candidates of the proposal ...
LEMMA FaultsIgnoreOthers ==
  ASSUME NEW p, WellFormedProposal(p), NEW C, NEW k, NEW c, NEW g \in GuardIds
  PROVE  Faults([p EXCEPT !.candidates = C], k, c, g) = Faults(p, k, c, g)
<1> DEFINE q == [p EXCEPT !.candidates = C]
<1>1. /\ q.account = p.account /\ q.version = p.version
      /\ q.observation = p.observation /\ q.actions = p.actions
      /\ q.priorReceipts = p.priorReceipts
  BY DEF WellFormedProposal
<1> HIDE DEF q
<1>2. /\ IdentityFaults(q, k) = IdentityFaults(p, k)
      /\ ScopeFaults(q, k, c) = ScopeFaults(p, k, c)
      /\ TraceFaults(q, k, c) = TraceFaults(p, k, c)
  BY <1>1 DEF IdentityFaults, ScopeFaults, TraceFaults
<1>3. Faults(q, k, c, g) = Faults(p, k, c, g)
  BY <1>2 DEF Faults, GuardIds
<1>4. QED
  BY <1>3 DEF q

\* ... nor the rank and the metrics that a generator gives its candidate.
LEMMA FaultsIgnoreRanking ==
  ASSUME NEW p \in Proposals, NEW k, NEW c \in p.candidates, NEW m,
         NEW g \in GuardIds
  PROVE  Faults(p, k, [c EXCEPT !.rank = 0, !.metrics = m], g) = Faults(p, k, c, g)
<1> DEFINE b == [c EXCEPT !.rank = 0, !.metrics = m]
<1>1. /\ b.action = c.action /\ b.target = c.target /\ b.evidence = c.evidence
      /\ b.conflicting = c.conflicting /\ b.deltas = c.deltas
      /\ b.residuals = c.residuals /\ b.actionCost = c.actionCost
      /\ b.lifeCost = c.lifeCost /\ b.reversible = c.reversible
      /\ b.class = c.class
  BY RequestsAreWellFormed DEF WellFormedProposal, WellFormedCandidate
<1> HIDE DEF b
<1>2. /\ WitnessFaults(k, b) = WitnessFaults(k, c)
      /\ ScopeFaults(p, k, b) = ScopeFaults(p, k, c)
      /\ TraceFaults(p, k, b) = TraceFaults(p, k, c)
      /\ ConsequenceFaults(k, b) = ConsequenceFaults(k, c)
      /\ ResourceFaults(k, b) = ResourceFaults(k, c)
  BY <1>1 DEF WitnessFaults, RequiredEvidence, ScopeFaults, TraceFaults,
              ConsequenceFaults, ResourceFaults
<1>3. Faults(p, k, b, g) = Faults(p, k, c, g)
  BY <1>2 DEF Faults, GuardIds
<1>4. QED
  BY <1>3 DEF b

LEMMA EligibleAmong ==
  ASSUME NEW p, WellFormedProposal(p), NEW C, NEW k
  PROVE  EligibleCandidates([p EXCEPT !.candidates = C], k)
            = {c \in C : Eligible(p, k, c)}
<1> DEFINE q == [p EXCEPT !.candidates = C]
<1>1. q.candidates = C
  BY DEF WellFormedProposal
<1>2. \A c : \A g \in GuardIds : Faults(q, k, c, g) = Faults(p, k, c, g)
  BY FaultsIgnoreOthers
<1> HIDE DEF q
<1>3. \A c : Eligible(q, k, c) <=> Eligible(p, k, c)
  BY <1>2 DEF Eligible, PassesGuards
<1>4. EligibleCandidates(q, k) = {c \in C : Eligible(p, k, c)}
  BY <1>1, <1>3 DEF EligibleCandidates
<1>5. QED
  BY <1>4 DEF q

\* Eligible candidates of a well-formed request can be compared, also when the
\* proposal is cut down to some of its candidates.
LEMMA EligibleAreComparable ==
  ASSUME NEW p \in Proposals, NEW k, WellFormedControl(k),
         NEW C \in SUBSET {c \in p.candidates : Eligible(p, k, c)}
  PROVE  Comparable(k, C) /\ IsFiniteSet(C)
<1>1. WellFormedProposal(p)
  BY RequestsAreWellFormed
<1>2. IsFiniteSet(C)
  BY <1>1, FS_Subset DEF WellFormedProposal
<1>3. \A c \in C : k.policy.diagnostic # NoDiagnostic =>
          Score(k.policy.diagnostic, c) \in Int
  <2>1. \A c \in C : WellFormedCandidate(c)
    BY <1>1 DEF WellFormedProposal
  <2>2. QED
    BY <2>1, ScoreIsInt DEF WellFormedControl, Eligible, DiagnosticApplies
<1>4. \A c, d \in C : c.rank \in Int /\ (c.rank = d.rank => c = d)
  <2>1. \A c \in C : c \in p.candidates
    OBVIOUS
  <2>2. ASSUME NEW c \in p.candidates PROVE c.rank \in Int
    <3>1. WellFormedCandidate(c)
      BY <1>1 DEF WellFormedProposal
    <3>2. QED
      BY <3>1 DEF WellFormedCandidate
  <2>3. \A c, d \in p.candidates : c.rank = d.rank => c = d
    BY <1>1 DEF WellFormedProposal
  <2>4. QED
    BY <2>1, <2>2, <2>3
<1>5. QED
  BY <1>2, <1>3, <1>4 DEF Comparable

LEMMA AdmittedSelects ==
  ASSUME NEW p \in Proposals, NEW k, WellFormedControl(k)
  PROVE  /\ Admitted(p, k) <=> EligibleCandidates(p, k) # {}
         /\ Admitted(p, k) <=> Selected(p, k) # NoCandidate
         /\ Admitted(p, k) => Selected(p, k) \in EligibleCandidates(p, k)
<1>1. UnselectedRoute(p, k) \in {"REJECT", "REQUEST_WITNESS", "HOLD"}
  BY DEF UnselectedRoute
<1>2. Admitted(p, k) <=> Selected(p, k) # NoCandidate
  BY <1>1 DEF Admitted, Route
<1>3. EligibleCandidates(p, k) = {} => Selected(p, k) = NoCandidate
  BY DEF Selected
<1>4. EligibleCandidates(p, k) # {} => Selected(p, k) \in EligibleCandidates(p, k)
  BY EligibleAreComparable, SelectedIsBest DEF EligibleCandidates
<1>5. NoCandidate \notin EligibleCandidates(p, k)
  BY RequestsAreWellFormed DEF WellFormedProposal, EligibleCandidates
<1>6. QED
  BY <1>2, <1>3, <1>4, <1>5

-------------------------------------------------------------------------------
(***************************************************************************)
(* Whatever the session did, the request at hand is well formed.           *)
(***************************************************************************)
Inv ==
    /\ proposal \in Proposals \cup {Malformed}
    /\ WellFormedControl(control)

THEOREM Inductive == Spec => []Inv
<1>1. Init => Inv
  BY RequestsAreWellFormed DEF Init, Inv
<1>2. Inv /\ [Next]_vars => Inv'
  <2> SUFFICES ASSUME Inv, [Next]_vars PROVE Inv'
    OBVIOUS
  <2> USE TimeBound DEF Inv, WellFormedControl, WellFormedGrant,
                   WellFormedBudget, Change
  <2>1. CASE Evaluate
    BY <2>1 DEF Evaluate
  <2>2. CASE TimePasses
    BY <2>2 DEF TimePasses
  <2>3. CASE EvidenceArrives
    BY <2>3 DEF EvidenceArrives
  <2>4. CASE ObservationMoves
    BY <2>4 DEF ObservationMoves
  <2>5. CASE BudgetSpent
    BY <2>5 DEF BudgetSpent, ActionSpent, LifeSpent, ClockRuns
  <2>6. CASE GrantRevoked
    BY <2>6 DEF GrantRevoked
  <2>7. CASE TokenConsumed
    BY <2>7 DEF TokenConsumed
  <2>8. CASE VersionMoves
    BY <2>8 DEF VersionMoves
  <2>9. CASE UNCHANGED vars
    BY <2>9 DEF vars
  <2>10. QED
    BY <2>1, <2>2, <2>3, <2>4, <2>5, <2>6, <2>7, <2>8, <2>9 DEF Next
<1>3. QED
  BY <1>1, <1>2, PTL DEF Spec

-------------------------------------------------------------------------------
(***************************************************************************)
(* The properties, each a fact about a request alone.                      *)
(***************************************************************************)
\* A candidate with a guard fault is not selected, whatever its rank and its
\* metrics: the score never repairs a hard guard (routing.py:295-321).
THEOREM RankingRepairsNothingAlways == Spec => []RankingRepairsNothing
<1>1. Inv => RankingRepairsNothing
  <2> SUFFICES ASSUME Inv, WellFormed, NEW c \in proposal.candidates,
                      NEW e \in proposal.candidates, ~PassesGuards(proposal, control, c)
               PROVE  LET boosted == [c EXCEPT !.rank = 0, !.metrics = e.metrics]
                          others == proposal.candidates \ {c}
                      IN  Selected([proposal EXCEPT
                                      !.candidates = others \cup {boosted}],
                                   control) # boosted
    BY DEF RankingRepairsNothing
  <2> DEFINE boosted == [c EXCEPT !.rank = 0, !.metrics = e.metrics]
             C == (proposal.candidates \ {c}) \cup {boosted}
             q == [proposal EXCEPT !.candidates = C]
             E == EligibleCandidates(q, control)
  <2>1. proposal \in Proposals /\ WellFormedProposal(proposal)
    BY RequestsAreWellFormed DEF Inv, WellFormed
  <2>2. boosted # NoCandidate
    BY <2>1 DEF WellFormedProposal
  <2>3. ~Eligible(proposal, control, boosted)
    <3>1. \A g \in GuardIds : Faults(proposal, control, boosted, g)
                                  = Faults(proposal, control, c, g)
      BY <2>1, FaultsIgnoreRanking
    <3> HIDE DEF boosted
    <3>2. QED
      BY <3>1 DEF Eligible, PassesGuards
  <2>4. E = {d \in C : Eligible(proposal, control, d)}
    <3> HIDE DEF C
    <3>1. QED
      BY <2>1, EligibleAmong
  <2> HIDE DEF boosted
  <2>5. boosted \notin E
    BY <2>3, <2>4
  <2>6. E \in SUBSET {d \in proposal.candidates : Eligible(proposal, control, d)}
    BY <2>3, <2>4
  <2>7. Comparable(control, E) /\ IsFiniteSet(E)
    BY <2>1, <2>6, EligibleAreComparable DEF Inv
  <2>8. Selected(q, control) # boosted
    <3> HIDE DEF q
    <3>1. E = {} => Selected(q, control) = NoCandidate
      BY DEF Selected
    <3>2. E # {} => Selected(q, control) \in E
      BY <2>7, SelectedIsBest
    <3>3. QED
      BY <2>2, <2>5, <3>1, <3>2
  <2>9. QED
    BY <2>8 DEF boosted
<1>2. QED
  BY <1>1, Inductive, PTL

\* What is selected depends on the eligible candidates only.
THEOREM IneligibleAreIrrelevantAlways == Spec => []IneligibleAreIrrelevant
<1>1. Inv => IneligibleAreIrrelevant
  <2> SUFFICES ASSUME Inv, WellFormed
               PROVE  Selected([proposal EXCEPT
                                  !.candidates = EligibleCandidates(proposal, control)],
                               control)
                        = Selected(proposal, control)
    BY DEF IneligibleAreIrrelevant
  <2> DEFINE E == EligibleCandidates(proposal, control)
             q == [proposal EXCEPT !.candidates = E]
  <2>1. WellFormedProposal(proposal)
    BY RequestsAreWellFormed DEF Inv, WellFormed
  <2>2. EligibleCandidates(q, control) = {c \in E : Eligible(proposal, control, c)}
    BY <2>1, EligibleAmong
  <2>3. EligibleCandidates(q, control) = E
    BY <2>2 DEF EligibleCandidates
  <2> HIDE DEF q
  <2>4. Selected(q, control) = Selected(proposal, control)
    BY <2>3 DEF Selected
  <2>5. QED
    BY <2>4 DEF q
<1>2. QED
  BY <1>1, Inductive, PTL

\* A stale account, version or observation, a grant not in force or for another
\* token, or a spent token is a REJECT for every proposal (routing.py:324-345).
THEOREM ClosedGateRejectsAlways == Spec => []ClosedGateRejects
<1>1. Inv => ClosedGateRejects
  <2> SUFFICES ASSUME Inv, WellFormed,
                      \/ proposal.account # control.account
                      \/ proposal.version # control.version
                      \/ proposal.observation # control.observation
                      \/ control.grant.revoked
                      \/ control.now \notin control.grant.from
                                             .. (control.grant.until - 1)
                      \/ control.grant.nonce # control.token
                      \/ control.token \in control.consumed
               PROVE  Route(proposal, control) = "REJECT"
    BY DEF ClosedGateRejects
  <2>1. proposal \in Proposals /\ WellFormedProposal(proposal)
    BY RequestsAreWellFormed DEF Inv, WellFormed
  <2>2. /\ control.now \in Int
        /\ control.grant.from \in Int /\ control.grant.until \in Int
    BY TimeBound DEF Inv, WellFormedControl, WellFormedGrant
  <2>3. PICK g \in {"IDENTITY", "AUTHORITY", "REENTRY"} :
          \A c : Faults(proposal, control, c, g) # {}
    <3>1. \/ IdentityFaults(proposal, control) # {}
          \/ AuthorityFaults(control) # {}
          \/ ReentryFaults(control) # {}
      BY <2>2 DEF IdentityFaults, AuthorityFaults, ReentryFaults, When
    <3>2. \A c : /\ Faults(proposal, control, c, "IDENTITY")
                       = IdentityFaults(proposal, control)
                 /\ Faults(proposal, control, c, "AUTHORITY")
                       = AuthorityFaults(control)
                 /\ Faults(proposal, control, c, "REENTRY") = ReentryFaults(control)
      BY DEF Faults
    <3>3. QED
      BY <3>1, <3>2
  <2>4. \A c : Verdict(proposal, control, c, g) = "FAIL"
    BY <2>3 DEF Verdict, UnresolvedGuards
  <2>5. EligibleCandidates(proposal, control) = {}
    BY <2>3 DEF EligibleCandidates, Eligible, PassesGuards, GuardIds
  <2>6. Selected(proposal, control) = NoCandidate
    BY <2>5 DEF Selected
  <2>7. g \in GuardsWith(proposal, control, "FAIL")
    BY <2>1, <2>4 DEF GuardsWith, GuardIds, WellFormedProposal
  <2>8. UnselectedRoute(proposal, control) = "REJECT"
    BY <2>7 DEF UnselectedRoute
  <2>9. QED
    BY <2>6, <2>8 DEF Route
<1>2. QED
  BY <1>1, Inductive, PTL

\* A selected candidate is inside the grant, the action space, the aperture and
\* every part of the budget, was not ranked by an expired diagnostic, and does
\* not cross a border on its own (routing.py:83-230, 283-288).
THEOREM AdmissionStaysInsideAlways == Spec => []AdmissionStaysInside
<1>1. Inv => AdmissionStaysInside
  <2> SUFFICES ASSUME Inv, WellFormed, Admitted(proposal, control)
               PROVE  AdmissionStaysInside
    BY DEF AdmissionStaysInside
  <2> DEFINE c == Selected(proposal, control)
  <2>1. proposal \in Proposals /\ WellFormedProposal(proposal)
    BY RequestsAreWellFormed DEF Inv, WellFormed
  <2>2. c \in EligibleCandidates(proposal, control)
    BY <2>1, AdmittedSelects DEF Inv
  <2>3. \A g \in GuardIds : Faults(proposal, control, c, g) = {}
    BY <2>2 DEF EligibleCandidates, Eligible, PassesGuards
  <2>4. /\ c.actionCost \in Nat /\ c.lifeCost \in Nat
        /\ control.budget.actions \in Nat /\ control.budget.lives \in Nat
        /\ control.budget.clock \in Nat
    <3>1. WellFormedCandidate(c)
      BY <2>1, <2>2 DEF WellFormedProposal, EligibleCandidates
    <3> HIDE DEF c
    <3>2. QED
      BY <3>1 DEF Inv, WellFormedControl, WellFormedBudget, WellFormedCandidate
  <2> HIDE DEF c
  <2>5. /\ WitnessFaults(control, c) = {}
        /\ ScopeFaults(proposal, control, c) = {}
        /\ TraceFaults(proposal, control, c) = {}
        /\ ConsequenceFaults(control, c) = {}
        /\ ResourceFaults(control, c) = {}
    BY <2>3 DEF Faults, GuardIds
  <2>6. /\ c.action \in proposal.actions \cap control.grant.actions
        /\ c.target \in control.grant.targets
    BY <2>5 DEF ScopeFaults, When
  <2>7. c.evidence \cup c.conflicting \cup c.deltas \subseteq control.evidence
    BY <2>5 DEF WitnessFaults, RequiredEvidence, When
  <2>8. /\ c.residuals \subseteq control.residuals
        /\ proposal.priorReceipts \subseteq control.traces
    BY <2>5 DEF TraceFaults, When
  <2>9. /\ c.actionCost <= control.budget.actions
        /\ c.lifeCost <= control.budget.lives
        /\ control.budget.clock > 0
    BY <2>4, <2>5 DEF ResourceFaults, When
  <2>10. /\ c.class # "IRREVERSIBLE"
         /\ c.class = "EXTERNAL" =>
               control.policy.allowExternal /\ control.grant.external
    BY <2>5 DEF ConsequenceFaults, When
  <2>11. control.policy.diagnostic # NoDiagnostic =>
            control.now < control.policy.diagnostic.expires
    BY <2>2 DEF EligibleCandidates, Eligible, DiagnosticApplies, c
  <2>12. QED
    BY <2>6, <2>7, <2>8, <2>9, <2>10, <2>11 DEF AdmissionStaysInside, c
<1>2. QED
  BY <1>1, Inductive, PTL

\* The stages of a decision report a failure or an open question exactly when
\* nothing is selected (routing.py:348-363, 380-460).
THEOREM StagesAgreeWithRouteAlways == Spec => []StagesAgreeWithRoute
<1>1. Inv => StagesAgreeWithRoute
  <2> SUFFICES ASSUME Inv, WellFormed PROVE StagesAgreeWithRoute
    BY DEF StagesAgreeWithRoute
  <2> DEFINE p == proposal  k == control  c == Selected(p, k)
             stages == Stages(p, k)
             Good == {"PASS", "NOT_APPLICABLE"}
  <2>1. proposal \in Proposals
    BY DEF Inv, WellFormed
  <2>2. ASSUME Admitted(p, k), NEW guards \in SUBSET GuardIds, guards # {}
        PROVE  AggregateVerdict(p, k, guards) = "PASS"
    <3>1. c \in p.candidates /\ \A g \in GuardIds : Faults(p, k, c, g) = {}
      BY <2>1, <2>2, AdmittedSelects
         DEF Inv, EligibleCandidates, Eligible, PassesGuards
    <3>2. PICK g \in guards : Verdict(p, k, c, g) = "PASS"
      BY <2>2, <3>1 DEF Verdict
    <3>3. "PASS" \in {Verdict(p, k, d, h) : d \in p.candidates, h \in guards}
      BY <3>1, <3>2
    <3>4. QED
      BY <3>3 DEF AggregateVerdict
  <2>3. Admitted(p, k) <=> c # NoCandidate
    BY <2>1, AdmittedSelects DEF Inv
  <2>4. ASSUME Admitted(p, k) PROVE \A s \in DOMAIN stages : stages[s] \in Good
    <3>1. /\ AggregateVerdict(p, k, {"IDENTITY"}) = "PASS"
          /\ AggregateVerdict(p, k, {"WITNESS", "TRACE"}) = "PASS"
          /\ AggregateVerdict(p, k, {"CONSEQUENCE"}) = "PASS"
      BY <2>2, <2>4 DEF GuardIds
    <3>2. QED
      BY <2>3, <2>4, <3>1 DEF Stages, Admitted
  <2>5. ASSUME ~Admitted(p, k) PROVE stages["W5_ROUTE"] \notin Good
    BY <2>5 DEF Stages, Admitted
  <2>6. "W5_ROUTE" \in DOMAIN stages
    BY DEF Stages
  <2>7. QED
    BY <2>4, <2>5, <2>6 DEF StagesAgreeWithRoute
<1>2. QED
  BY <1>1, Inductive, PTL

-------------------------------------------------------------------------------
(***************************************************************************)
(* From one snapshot to the next.                                          *)
(***************************************************************************)
LEMMA MoreEvidence ==
  ASSUME NEW p, NEW k, WellFormedControl(k), NEW E,
         NEW c, Eligible(p, k, c)
  PROVE  Eligible(p, [k EXCEPT !.evidence = @ \cup E], c)
<1> DEFINE n == [k EXCEPT !.evidence = @ \cup E]
<1>1. /\ k.evidence \subseteq n.evidence
      /\ n.now = k.now /\ n.account = k.account /\ n.version = k.version
      /\ n.observation = k.observation /\ n.traces = k.traces
      /\ n.residuals = k.residuals /\ n.budget = k.budget /\ n.grant = k.grant
      /\ n.token = k.token /\ n.consumed = k.consumed /\ n.policy = k.policy
  BY DEF WellFormedControl
<1> HIDE DEF n
<1>2. /\ IdentityFaults(p, n) = IdentityFaults(p, k)
      /\ ScopeFaults(p, n, c) = ScopeFaults(p, k, c)
      /\ TraceFaults(p, n, c) = TraceFaults(p, k, c)
      /\ AuthorityFaults(n) = AuthorityFaults(k)
      /\ ConsequenceFaults(n, c) = ConsequenceFaults(k, c)
      /\ ResourceFaults(n, c) = ResourceFaults(k, c)
      /\ ReentryFaults(n) = ReentryFaults(k)
      /\ DiagnosticApplies(n, c) <=> DiagnosticApplies(k, c)
  BY <1>1 DEF IdentityFaults, ScopeFaults, TraceFaults, AuthorityFaults,
              ConsequenceFaults, ResourceFaults, ReentryFaults, DiagnosticApplies
<1>3. WitnessFaults(k, c) = {} => WitnessFaults(n, c) = {}
  BY <1>1 DEF WitnessFaults, When
<1>4. \A g \in GuardIds : Faults(p, k, c, g) = {} => Faults(p, n, c, g) = {}
  BY <1>2, <1>3 DEF Faults, GuardIds
<1>5. Eligible(p, n, c)
  BY <1>2, <1>4 DEF Eligible, PassesGuards
<1>6. QED
  BY <1>5 DEF n

\* The three faults a smaller authority can only add.
Tighter(k, n) ==
    /\ n.now = k.now /\ n.account = k.account /\ n.version = k.version
    /\ n.observation = k.observation /\ n.evidence = k.evidence
    /\ n.traces = k.traces /\ n.residuals = k.residuals
    /\ n.token = k.token /\ n.policy = k.policy
    /\ k.consumed \subseteq n.consumed
    /\ {n.budget.actions, n.budget.lives, n.budget.clock,
        k.budget.actions, k.budget.lives, k.budget.clock} \subseteq Nat
    /\ n.budget.actions <= k.budget.actions
    /\ n.budget.lives <= k.budget.lives /\ n.budget.clock <= k.budget.clock
    /\ n.grant.actions = k.grant.actions /\ n.grant.targets = k.grant.targets
    /\ n.grant.scope = k.grant.scope /\ n.grant.external = k.grant.external
    /\ n.grant.from = k.grant.from /\ n.grant.until = k.grant.until
    /\ n.grant.nonce = k.grant.nonce
    /\ k.grant.revoked => n.grant.revoked

LEMMA LessAuthority ==
  ASSUME NEW p, NEW k, NEW n, Tighter(k, n), NEW c, c.actionCost \in Nat, c.lifeCost \in Nat,
         Eligible(p, n, c)
  PROVE  Eligible(p, k, c)
<1>1. /\ IdentityFaults(p, n) = IdentityFaults(p, k)
      /\ WitnessFaults(n, c) = WitnessFaults(k, c)
      /\ ScopeFaults(p, n, c) = ScopeFaults(p, k, c)
      /\ TraceFaults(p, n, c) = TraceFaults(p, k, c)
      /\ ConsequenceFaults(n, c) = ConsequenceFaults(k, c)
      /\ DiagnosticApplies(n, c) <=> DiagnosticApplies(k, c)
  BY DEF Tighter, IdentityFaults, WitnessFaults, ScopeFaults, TraceFaults,
         ConsequenceFaults, DiagnosticApplies
<1>2. AuthorityFaults(n) = {} => AuthorityFaults(k) = {}
  BY DEF Tighter, AuthorityFaults, When
<1>3. ResourceFaults(n, c) = {} => ResourceFaults(k, c) = {}
  BY DEF Tighter, ResourceFaults, When
<1>4. ReentryFaults(n) = {} => ReentryFaults(k) = {}
  BY DEF Tighter, ReentryFaults, When
<1>5. \A g \in GuardIds : Faults(p, n, c, g) = {} => Faults(p, k, c, g) = {}
  BY <1>1, <1>2, <1>3, <1>4 DEF Faults, GuardIds
<1>6. QED
  BY <1>1, <1>5 DEF Eligible, PassesGuards

\* More evidence never withdraws an admission, less authority never grants one.
THEOREM ControlIsMonotoneAlways == Spec => ControlIsMonotone
<1> DEFINE Monotone ==
      WellFormed =>
         /\ EvidenceArrives =>
               (Admitted(proposal, control) => Admitted(proposal, control'))
         /\ BudgetSpent \/ GrantRevoked \/ TokenConsumed =>
               (Admitted(proposal, control') => Admitted(proposal, control))
<1>1. Inv /\ Inv' /\ [Next]_vars => [Monotone]_vars
  <2> SUFFICES ASSUME Inv, Inv', WellFormed PROVE Monotone
    OBVIOUS
  <2>1. /\ proposal \in Proposals
        /\ WellFormedControl(control) /\ WellFormedControl(control')
    BY DEF Inv, WellFormed
  <2>2. \A c \in proposal.candidates : c.actionCost \in Nat /\ c.lifeCost \in Nat
    <3>1. \A c \in proposal.candidates : WellFormedCandidate(c)
      BY <2>1, RequestsAreWellFormed DEF WellFormedProposal
    <3>2. QED
      BY <3>1 DEF WellFormedCandidate
  <2>3. ASSUME EvidenceArrives, Admitted(proposal, control)
        PROVE  Admitted(proposal, control')
    <3>1. PICK e : control' = [control EXCEPT !.evidence = @ \cup {e}]
      BY <2>3 DEF EvidenceArrives, Change
    <3>2. \A c : Eligible(proposal, control, c) => Eligible(proposal, control', c)
      BY <2>1, <3>1, MoreEvidence
    <3>3. EligibleCandidates(proposal, control) # {}
      BY <2>1, <2>3, AdmittedSelects
    <3>4. EligibleCandidates(proposal, control') # {}
      BY <3>2, <3>3 DEF EligibleCandidates
    <3>5. QED
      BY <2>1, <3>4, AdmittedSelects
  <2>4. ASSUME BudgetSpent \/ GrantRevoked \/ TokenConsumed
        PROVE  Tighter(control, control')
    <3> USE <2>1 DEF WellFormedControl, WellFormedGrant, WellFormedBudget, Tighter, Change
    <3>1. CASE BudgetSpent
      BY <3>1 DEF BudgetSpent, ActionSpent, LifeSpent, ClockRuns
    <3>2. CASE GrantRevoked
      BY <3>2 DEF GrantRevoked
    <3>3. CASE TokenConsumed
      BY <3>3 DEF TokenConsumed
    <3>4. QED
      BY <2>4, <3>1, <3>2, <3>3
  <2>5. ASSUME BudgetSpent \/ GrantRevoked \/ TokenConsumed,
               Admitted(proposal, control')
        PROVE  Admitted(proposal, control)
    <3>1. \A c \in proposal.candidates :
             Eligible(proposal, control', c) => Eligible(proposal, control, c)
      BY <2>2, <2>4, <2>5, LessAuthority
    <3>2. EligibleCandidates(proposal, control') # {}
      BY <2>1, <2>5, AdmittedSelects
    <3>3. EligibleCandidates(proposal, control) # {}
      BY <3>1, <3>2 DEF EligibleCandidates
    <3>4. QED
      BY <2>1, <3>3, AdmittedSelects
  <2>6. QED
    BY <2>3, <2>5
<1>2. QED
  BY <1>1, Inductive, PTL DEF Spec, ControlIsMonotone

-------------------------------------------------------------------------------
\* Every evaluation ends in one of the five dispositions, also that of a
\* malformed request, and the snapshot stays within what the session allows.
THEOREM TypeCorrect == Spec => []TypeOK
<1> DEFINE Decided == decision # NoDecision => decision.route \in Dispositions
<1>1. Init => Decided
  BY DEF Init
<1>2. Decided /\ [Next]_vars => Decided'
  <2> SUFFICES ASSUME Decided, [Next]_vars PROVE Decided'
    OBVIOUS
  <2>1. CASE Evaluate
    <3>1. Route(proposal, control) \in Dispositions
      BY DEF Route, UnselectedRoute, Dispositions
    <3>2. /\ EvaluateRoute(proposal, control).route = Route(proposal, control)
          /\ MalformedDecision.route = "REJECT"
      BY DEF EvaluateRoute, MalformedDecision
    <3>3. QED
      BY <2>1, <3>1, <3>2 DEF Evaluate, Dispositions
  <2>2. CASE decision' = decision
    BY <2>2
  <2>3. QED
    BY <2>1, <2>2 DEF Next, vars, Change, TimePasses, EvidenceArrives,
                      ObservationMoves, VersionMoves, BudgetSpent, ActionSpent,
                      LifeSpent, ClockRuns, GrantRevoked, TokenConsumed
<1>3. Inv /\ Decided => TypeOK
  BY DEF Inv, TypeOK
<1>4. QED
  BY <1>1, <1>2, <1>3, Inductive, PTL DEF Spec
===============================================================================
