-------------------------------- MODULE Router --------------------------------
(***************************************************************************)
(* routing.py: the pure evaluation of one routing request.  A request      *)
(* pairs a proposal p with a control snapshot k.  The eight guards are     *)
(* evaluated for every candidate, a diagnostic may rank the candidates     *)
(* that pass all of them, and one route comes out.                         *)
(*                                                                         *)
(* A guard is its set of fault codes: no fault is PASS, a fault is the     *)
(* verdict that guard gives when it does not pass.  The candidates of a    *)
(* proposal are a set, because ProposalPacket makes their ids and ranks    *)
(* unique and _select compares nothing else.  Scores are integers: metric  *)
(* and weight count millionths, of which the code uses exact decimals.     *)
(***************************************************************************)
EXTENDS Integers, FiniteSetsExt

CONSTANTS
    NoRef,          \* reopens_account_ref is None
    NoDiagnostic,   \* policy.diagnostic is None
    NoCandidate     \* selected_candidate_id is None

GuardIds == {"IDENTITY", "WITNESS", "SCOPE", "TRACE",
             "AUTHORITY", "CONSEQUENCE", "RESOURCE", "REENTRY"}
UnresolvedGuards == {"WITNESS", "TRACE", "CONSEQUENCE"}

When(condition, code) == IF condition THEN {code} ELSE {}

-------------------------------------------------------------------------------
(***************************************************************************)
(* The eight guards.                                                       *)
(***************************************************************************)
IdentityFaults(p, k) ==
    When(p.account # k.account, "ACCOUNT_BINDING_MISMATCH")
    \cup When(p.version # k.version, "ACCOUNT_VERSION_MISMATCH")
    \cup When(p.observation # k.observation, "OBSERVATION_BINDING_MISMATCH")

RequiredEvidence(c) == c.evidence \cup c.conflicting \cup c.deltas

\* Mutant: the aperture must show what is required and nothing else.
WitnessFaultsExact(k, c) ==
    When(RequiredEvidence(c) # k.evidence, "EVIDENCE_UNAVAILABLE")

WitnessFaults(k, c) ==
    When(~(RequiredEvidence(c) \subseteq k.evidence), "EVIDENCE_UNAVAILABLE")

\* Mutant: the action is only looked up in the observed action space.
ScopeFaultsWithoutGrant(p, k, c) ==
    When(c.action \notin p.actions, "ACTION_OUTSIDE_OBSERVED_SPACE")
    \cup When(c.target \notin k.grant.targets, "TARGET_OUTSIDE_GRANT")
    \cup When(k.grant.scope # k.policy.scope, "GRANT_POLICY_SCOPE_MISMATCH")

ScopeFaults(p, k, c) ==
    When(c.action \notin p.actions, "ACTION_OUTSIDE_OBSERVED_SPACE")
    \cup When(c.action \notin k.grant.actions, "ACTION_OUTSIDE_GRANT")
    \cup When(c.target \notin k.grant.targets, "TARGET_OUTSIDE_GRANT")
    \cup When(k.grant.scope # k.policy.scope, "GRANT_POLICY_SCOPE_MISMATCH")

TraceFaults(p, k, c) ==
    When(~(p.priorReceipts \subseteq k.traces), "PRIOR_TRACE_UNAVAILABLE")
    \cup When(~(c.residuals \subseteq k.residuals), "RESIDUAL_NOT_ACTIVE")

\* Mutant: the grant may come with any token.
AuthorityFaultsUnbound(k) ==
    When(k.grant.revoked, "GRANT_REVOKED")
    \cup When(k.now < k.grant.from, "GRANT_NOT_YET_VALID")
    \cup When(k.now >= k.grant.until, "GRANT_EXPIRED")

\* issuer_id and actor_id are non-empty in every GrantSnapshot.
AuthorityFaults(k) ==
    When(k.grant.revoked, "GRANT_REVOKED")
    \cup When(k.now < k.grant.from, "GRANT_NOT_YET_VALID")
    \cup When(k.now >= k.grant.until, "GRANT_EXPIRED")
    \cup When(k.grant.nonce # k.token, "GRANT_TOKEN_BINDING_MISMATCH")

ConsequenceFaults(k, c) ==
    When(c.reversible /\ c.class \in {"IRREVERSIBLE", "EXTERNAL"},
         "REVERSIBILITY_CONTRADICTS_CONSEQUENCE_CLASS")
    \cup When(c.class = "EXTERNAL" /\ ~k.policy.allowExternal,
              "EXTERNAL_PROPOSALS_DISABLED")
    \cup When(c.class = "EXTERNAL" /\ ~k.grant.external,
              "EXTERNAL_EFFECT_NOT_DECLARED_IN_GRANT")
    \cup When(c.class = "IRREVERSIBLE",
              "IRREVERSIBLE_REQUIRES_SEPARATE_CROSSING")

\* Mutant: the lives that a candidate costs are not counted.
ResourceFaultsWithoutLives(k, c) ==
    When(c.actionCost > k.budget.actions, "ACTION_BUDGET_EXCEEDED")
    \cup When(k.budget.clock <= 0, "WALL_CLOCK_BUDGET_EXHAUSTED")

ResourceFaults(k, c) ==
    When(c.actionCost > k.budget.actions, "ACTION_BUDGET_EXCEEDED")
    \cup When(c.lifeCost > k.budget.lives, "LIFE_BUDGET_EXCEEDED")
    \cup When(k.budget.clock <= 0, "WALL_CLOCK_BUDGET_EXHAUSTED")

ReentryFaults(k) ==
    When(k.token \in k.consumed, "SERIAL_TOKEN_ALREADY_CONSUMED")

Faults(p, k, c, g) ==
    CASE g = "IDENTITY"    -> IdentityFaults(p, k)
      [] g = "WITNESS"     -> WitnessFaults(k, c)
      [] g = "SCOPE"       -> ScopeFaults(p, k, c)
      [] g = "TRACE"       -> TraceFaults(p, k, c)
      [] g = "AUTHORITY"   -> AuthorityFaults(k)
      [] g = "CONSEQUENCE" -> ConsequenceFaults(k, c)
      [] g = "RESOURCE"    -> ResourceFaults(k, c)
      [] g = "REENTRY"     -> ReentryFaults(k)

Verdict(p, k, c, g) ==
    IF Faults(p, k, c, g) = {} THEN "PASS"
    ELSE IF g \in UnresolvedGuards THEN "UNRESOLVED" ELSE "FAIL"

-------------------------------------------------------------------------------
(***************************************************************************)
(* Eligibility, ranking and selection.                                     *)
(***************************************************************************)
PassesGuards(p, k, c) == \A g \in GuardIds : Faults(p, k, c, g) = {}

\* A diagnostic that expired, or a metric it needs and does not find, makes a
\* candidate ineligible without a guard result of its own.
DiagnosticApplies(k, c) ==
    k.policy.diagnostic # NoDiagnostic =>
        /\ k.now < k.policy.diagnostic.expires
        /\ DOMAIN k.policy.diagnostic.weights \subseteq DOMAIN c.metrics

\* Mutant: only a FAIL blocks a candidate, an UNRESOLVED guard does not.
EligibleUnlessFailed(p, k, c) ==
    /\ \A g \in GuardIds : Verdict(p, k, c, g) # "FAIL"
    /\ DiagnosticApplies(k, c)

Eligible(p, k, c) == PassesGuards(p, k, c) /\ DiagnosticApplies(k, c)

EligibleCandidates(p, k) == {c \in p.candidates : Eligible(p, k, c)}

Score(diagnostic, c) ==
    MapThenSumSet(LAMBDA d : c.metrics[d] * diagnostic.weights[d],
                  DOMAIN diagnostic.weights)

\* The sort key of _select.  The candidate_id never decides: ranks are unique.
Precedes(k, c, d) ==
    LET diagnostic == k.policy.diagnostic
    IN  IF diagnostic = NoDiagnostic THEN c.rank < d.rank
        ELSE \/ Score(diagnostic, c) > Score(diagnostic, d)
             \/ /\ Score(diagnostic, c) = Score(diagnostic, d)
                /\ c.rank < d.rank

\* Mutant: the proposed ranks decide unless every candidate has the metrics.
SelectedByCommonMetrics(p, k) ==
    LET eligible == EligibleCandidates(p, k)
        comparable == \A c \in p.candidates : DiagnosticApplies(k, c)
    IN  IF eligible = {} THEN NoCandidate
        ELSE CHOOSE c \in eligible :
                \A d \in eligible \ {c} :
                    IF comparable THEN Precedes(k, c, d) ELSE c.rank < d.rank

Selected(p, k) ==
    LET eligible == EligibleCandidates(p, k)
    IN  IF eligible = {} THEN NoCandidate
        ELSE CHOOSE c \in eligible :
                \A d \in eligible \ {c} : Precedes(k, c, d)

-------------------------------------------------------------------------------
(***************************************************************************)
(* The route and the stages.                                               *)
(***************************************************************************)
GuardsWith(p, k, verdict) ==
    {g \in GuardIds : \E c \in p.candidates : Verdict(p, k, c, g) = verdict}

\* Mutant: missing evidence is asked for before a hard failure rejects.
UnselectedRouteAsksFirst(p, k) ==
    LET failed == GuardsWith(p, k, "FAIL")
        unresolved == GuardsWith(p, k, "UNRESOLVED")
    IN  IF unresolved \cap {"WITNESS", "TRACE"} # {} THEN "REQUEST_WITNESS"
        ELSE IF failed \cap {"IDENTITY", "SCOPE", "AUTHORITY", "REENTRY"} # {}
        THEN "REJECT"
        ELSE IF "RESOURCE" \in failed \/ "CONSEQUENCE" \in unresolved
        THEN "HOLD"
        ELSE "REJECT"

\* Mutant: the verdict of a guard is returned as the route.
UnselectedRouteAsVerdict(p, k) ==
    IF GuardsWith(p, k, "UNRESOLVED") # {} THEN "UNRESOLVED" ELSE "FAIL"

UnselectedRoute(p, k) ==
    LET failed == GuardsWith(p, k, "FAIL")
        unresolved == GuardsWith(p, k, "UNRESOLVED")
    IN  IF failed \cap {"IDENTITY", "SCOPE", "AUTHORITY", "REENTRY"} # {}
        THEN "REJECT"
        ELSE IF unresolved \cap {"WITNESS", "TRACE"} # {}
        THEN "REQUEST_WITNESS"
        ELSE IF "RESOURCE" \in failed \/ "CONSEQUENCE" \in unresolved
        THEN "HOLD"
        ELSE "REJECT"

\* Mutant: the worst verdict wins instead of the best.
AggregateWorst(p, k, guards) ==
    LET verdicts == {Verdict(p, k, c, g) : c \in p.candidates, g \in guards}
    IN  IF "FAIL" \in verdicts THEN "FAIL"
        ELSE IF "UNRESOLVED" \in verdicts THEN "UNRESOLVED"
        ELSE IF "PASS" \in verdicts THEN "PASS" ELSE "NOT_APPLICABLE"

AggregateVerdict(p, k, guards) ==
    LET verdicts == {Verdict(p, k, c, g) : c \in p.candidates, g \in guards}
    IN  IF "PASS" \in verdicts THEN "PASS"
        ELSE IF "UNRESOLVED" \in verdicts THEN "UNRESOLVED"
        ELSE IF "FAIL" \in verdicts THEN "FAIL" ELSE "NOT_APPLICABLE"

Route(p, k) ==
    LET selected == Selected(p, k)
    IN  IF selected = NoCandidate THEN UnselectedRoute(p, k)
        ELSE IF selected.reopens # NoRef THEN "REOPEN" ELSE "ADMIT"

Stages(p, k) ==
    LET selected == Selected(p, k)
        route == Route(p, k)
    IN  [W0_FREEZE      |-> AggregateVerdict(p, k, {"IDENTITY"}),
         W1_WITNESS     |-> AggregateVerdict(p, k, {"WITNESS", "TRACE"}),
         W2_HARD_GUARDS |-> IF selected # NoCandidate THEN "PASS"
                            ELSE AggregateVerdict(p, k, GuardIds),
         W3_BOUNDARY    |-> AggregateVerdict(p, k, {"CONSEQUENCE"}),
         W4_DIAGNOSTICS |-> IF k.policy.diagnostic = NoDiagnostic
                            THEN "NOT_APPLICABLE"
                            ELSE IF selected # NoCandidate THEN "PASS"
                            ELSE "FAIL",
         W5_ROUTE       |-> IF route \in {"ADMIT", "REOPEN"} THEN "PASS"
                            ELSE IF route = "REJECT" THEN "FAIL"
                            ELSE "UNRESOLVED",
         W6_RETURN      |-> "PASS"]

EvaluateRoute(p, k) ==
    [route |-> Route(p, k), selected |-> Selected(p, k), stages |-> Stages(p, k)]

\* evaluate_route_raw on input that is not a valid RoutingRequest.
MalformedDecision ==
    [route |-> "REJECT", selected |-> NoCandidate,
     stages |-> [W0_FREEZE |-> "FAIL", W6_RETURN |-> "PASS"]]
===============================================================================
