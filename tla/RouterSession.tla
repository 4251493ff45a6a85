----------------------------- MODULE RouterSession -----------------------------
(***************************************************************************)
(* The router over time.  A caller, outside the kernel, presents proposals *)
(* and one control snapshot after another: time passes, evidence arrives,  *)
(* the budget is spent, the observation and the version move, the grant is *)
(* revoked, the serial token is consumed.  evaluate_route may be called at *)
(* any point and reads only the proposal and the snapshot it is given.     *)
(***************************************************************************)
EXTENDS Router, FiniteSets

CONSTANTS
    Proposals,    \* the proposals the caller may present
    Controls,     \* the snapshots the session may start from
    Evidence,     \* the evidence references that may arrive
    MaxTime,      \* bound: evaluated_at goes up to MaxTime
    Malformed,    \* the caller's input is not a valid RoutingRequest
    NoDecision    \* nothing has been evaluated yet

\* CandidateProposal, whose fields the guards read.
WellFormedCandidate(c) ==
    /\ {"rank", "action", "target", "evidence", "conflicting", "deltas",
        "residuals", "reopens", "metrics", "actionCost", "lifeCost",
        "reversible", "class"} \subseteq DOMAIN c
    /\ {c.rank, c.actionCost, c.lifeCost} \subseteq Nat
    /\ c.evidence # {}
    /\ c.reopens # NoRef => c.deltas # {}
    /\ \A name \in DOMAIN c.metrics : c.metrics[name] \in Nat

\* ProposalPacket: it has candidates, of unique ranks, and None is not one.
WellFormedProposal(p) ==
    /\ {"account", "version", "observation", "actions", "priorReceipts",
        "candidates"} \subseteq DOMAIN p
    /\ p.actions # {} /\ p.candidates # {} /\ IsFiniteSet(p.candidates)
    /\ \A c \in p.candidates : WellFormedCandidate(c)
    /\ \A c, d \in p.candidates :
          /\ c.rank = d.rank => c = d
          /\ NoCandidate \notin {c, [c EXCEPT !.rank = 0, !.metrics = d.metrics]}

WellFormedGrant(grant) ==
    /\ {"actions", "targets", "scope", "from", "until", "revoked", "nonce",
        "external"} \subseteq DOMAIN grant
    /\ grant.actions # {} /\ grant.targets # {}
    /\ grant.from \in Int /\ grant.until \in Int /\ grant.from < grant.until

WellFormedBudget(budget) ==
    /\ {"actions", "lives", "clock"} \subseteq DOMAIN budget
    /\ {budget.actions, budget.lives, budget.clock} \subseteq Nat

\* DiagnosticProfile: the weights of finitely many dimensions.
WellFormedDiagnostic(diagnostic) ==
    /\ {"weights", "expires"} \subseteq DOMAIN diagnostic
    /\ DOMAIN diagnostic.weights # {} /\ IsFiniteSet(DOMAIN diagnostic.weights)
    /\ \A name \in DOMAIN diagnostic.weights : diagnostic.weights[name] \in Nat

\* ControlSnapshot
WellFormedControl(k) ==
    /\ {"now", "account", "version", "observation", "evidence", "traces",
        "residuals", "budget", "grant", "token", "consumed", "policy"}
          \subseteq DOMAIN k
    /\ WellFormedGrant(k.grant) /\ WellFormedBudget(k.budget)
    /\ k.policy.diagnostic # NoDiagnostic => WellFormedDiagnostic(k.policy.diagnostic)
    /\ k.now \in 0 .. MaxTime
    /\ k.evidence \subseteq Evidence

ASSUME RequestsAreWellFormed ==
    /\ \A p \in Proposals : WellFormedProposal(p)
    /\ \A k \in Controls : WellFormedControl(k)

ASSUME TimeBound == MaxTime \in Nat

VARIABLES proposal, control, decision

vars == <<proposal, control, decision>>

Dispositions == {"ADMIT", "HOLD", "REQUEST_WITNESS", "REJECT", "REOPEN"}

TypeOK ==
    /\ proposal \in Proposals \cup {Malformed}
    /\ WellFormedControl(control)
    /\ decision # NoDecision => decision.route \in Dispositions

Init ==
    /\ proposal \in Proposals \cup {Malformed}
    /\ control \in Controls
    /\ decision = NoDecision

-------------------------------------------------------------------------------
\* evaluate_route_raw: a malformed request is a REJECT, never an exception.
Evaluate ==
    /\ decision' = IF proposal = Malformed THEN MalformedDecision
                   ELSE EvaluateRoute(proposal, control)
    /\ UNCHANGED <<proposal, control>>

(***************************************************************************)
(* The caller's side: the next snapshot.                                   *)
(***************************************************************************)
Change(k) ==
    /\ control' = k
    /\ UNCHANGED <<proposal, decision>>

TimePasses ==
    control.now < MaxTime /\ Change([control EXCEPT !.now = @ + 1])
EvidenceArrives ==
    \E e \in Evidence \ control.evidence :
        Change([control EXCEPT !.evidence = @ \cup {e}])
ObservationMoves ==
    \E o \in {p.observation : p \in Proposals} :
        Change([control EXCEPT !.observation = o])
VersionMoves ==
    \E v \in {p.version : p \in Proposals} :
        Change([control EXCEPT !.version = v])
ActionSpent ==
    control.budget.actions > 0
        /\ Change([control EXCEPT !.budget.actions = @ - 1])
LifeSpent ==
    control.budget.lives > 0 /\ Change([control EXCEPT !.budget.lives = @ - 1])
ClockRuns ==
    control.budget.clock > 0 /\ Change([control EXCEPT !.budget.clock = @ - 1])
BudgetSpent == ActionSpent \/ LifeSpent \/ ClockRuns
GrantRevoked == Change([control EXCEPT !.grant.revoked = TRUE])
TokenConsumed == Change([control EXCEPT !.consumed = @ \cup {control.token}])

Next ==
    \/ Evaluate
    \/ TimePasses \/ EvidenceArrives \/ ObservationMoves \/ VersionMoves
    \/ BudgetSpent \/ GrantRevoked \/ TokenConsumed

Spec == Init /\ [][Next]_vars

-------------------------------------------------------------------------------
(***************************************************************************)
(* What the session's proposal would get from the session's snapshot now.  *)
(***************************************************************************)
WellFormed == proposal # Malformed
Admitted(p, k) == Route(p, k) \in {"ADMIT", "REOPEN"}

\* No ranking repairs a guard: a candidate with a failed or unresolved guard is
\* not selected whatever proposed_rank and metrics its generator gives it.
RankingRepairsNothing ==
    WellFormed =>
        \A c \in proposal.candidates, m \in {d.metrics : d \in proposal.candidates} :
            LET boosted == [c EXCEPT !.rank = 0, !.metrics = m]
                others == proposal.candidates \ {c}
            IN  ~PassesGuards(proposal, control, c) =>
                    Selected([proposal EXCEPT !.candidates = others \cup {boosted}],
                             control) # boosted

\* Candidates that are not eligible have no say in which one is selected.
IneligibleAreIrrelevant ==
    WellFormed /\ Admitted(proposal, control) =>
        Selected([proposal EXCEPT
                    !.candidates = EligibleCandidates(proposal, control)], control)
            = Selected(proposal, control)

\* The bindings every candidate shares are a closed gate: with an account, a
\* version or an observation that is no longer the active one, a grant that is
\* revoked, expired or for another token, or a consumed token, the route is
\* REJECT and nothing in the proposal changes it.
ClosedGateRejects ==
    WellFormed /\
        (\/ proposal.account # control.account
         \/ proposal.version # control.version
         \/ proposal.observation # control.observation
         \/ control.grant.revoked
         \/ control.now \notin control.grant.from .. (control.grant.until - 1)
         \/ control.grant.nonce # control.token
         \/ control.token \in control.consumed)
        => Route(proposal, control) = "REJECT"

\* What is admitted lies inside the grant, the observed action space, the
\* evidence aperture and the whole budget (actions, lives and time left), all in
\* the same snapshot, was not ranked by an expired diagnostic, and crosses
\* neither the irreversible nor, without both permissions, the external border.
AdmissionStaysInside ==
    WellFormed /\ Admitted(proposal, control) =>
        LET c == Selected(proposal, control)
        IN  /\ c.action \in proposal.actions \cap control.grant.actions
            /\ c.target \in control.grant.targets
            /\ c.evidence \cup c.conflicting \cup c.deltas \subseteq control.evidence
            /\ c.residuals \subseteq control.residuals
            /\ proposal.priorReceipts \subseteq control.traces
            /\ c.actionCost <= control.budget.actions
            /\ c.lifeCost <= control.budget.lives
            /\ control.budget.clock > 0
            /\ control.policy.diagnostic # NoDiagnostic =>
                  control.now < control.policy.diagnostic.expires
            /\ c.class # "IRREVERSIBLE"
            /\ c.class = "EXTERNAL" =>
                  control.policy.allowExternal /\ control.grant.external

\* The stages tell no other story than the route: when a candidate is selected
\* none of the seven stages reports a failure or an open question.
StagesAgreeWithRoute ==
    WellFormed =>
        LET stages == Stages(proposal, control)
        IN  Admitted(proposal, control) <=>
                \A s \in DOMAIN stages : stages[s] \in {"PASS", "NOT_APPLICABLE"}

\* More evidence never withdraws an admission; a spent budget, a revoked grant
\* or a consumed token never grants one.
ControlIsMonotone ==
    [][WellFormed =>
         /\ EvidenceArrives =>
               (Admitted(proposal, control) => Admitted(proposal, control'))
         /\ BudgetSpent \/ GrantRevoked \/ TokenConsumed =>
               (Admitted(proposal, control') => Admitted(proposal, control))]_vars

-------------------------------------------------------------------------------
\* STRONGWIZ_ROUTING_PROFILE.md, W1: missing evidence returns REQUEST_WITNESS
\* or leaves the route held.  Here a candidate has no other fault.
MissingEvidenceAsksOrHolds ==
    WellFormed /\ ~Admitted(proposal, control) =>
        ((\E c \in proposal.candidates :
            /\ Faults(proposal, control, c, "WITNESS") # {}
            /\ \A g \in GuardIds \ {"WITNESS"} :
                  Faults(proposal, control, c, g) = {})
         => Route(proposal, control) \in {"REQUEST_WITNESS", "HOLD"})
===============================================================================
