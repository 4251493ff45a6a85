------------------------------- MODULE Lifecycle -------------------------------
(***************************************************************************)
(* a0_zsa_kernel: the evaluation of one transition packet (engine.py,      *)
(* rules.py, transitions.py), as operators.                                *)
(*                                                                         *)
(* A packet is the requested step together with its dossier: everything it *)
(* supplies in support of the step.  A content hash is the content.  The   *)
(* identity of a receipt is its content, and its decision is the packet,   *)
(* the statuses and the reasons.                                           *)
(***************************************************************************)
EXTENDS Integers

CONSTANT None   \* an optional field of a packet or receipt that is None

Statuses == {"UNRESOLVED", "CANDIDATE", "WEIGHTED", "MEASURED",
             "COMMITTED", "REJECTED", "EXPIRED"}

When(condition, code) == IF condition THEN {code} ELSE {}

-------------------------------------------------------------------------------
(***************************************************************************)
(* transitions.py                                                          *)
(***************************************************************************)
BaselineTransitions ==
    [UNRESOLVED |-> {"CANDIDATE"},
     CANDIDATE  |-> {"WEIGHTED", "REJECTED", "EXPIRED"},
     WEIGHTED   |-> {"MEASURED", "REJECTED", "EXPIRED"},
     MEASURED   |-> {"COMMITTED", "REJECTED", "EXPIRED"},
     COMMITTED  |-> {"EXPIRED"},
     REJECTED   |-> {"EXPIRED"},
     EXPIRED    |-> {}]

RouteAllowed(source, target, allowUnresolvedExpiry) ==
    \/ target \in BaselineTransitions[source]
    \/ /\ source = "UNRESOLVED"
       /\ target = "EXPIRED"
       /\ allowUnresolvedExpiry

-------------------------------------------------------------------------------
(***************************************************************************)
(* rules.py                                                                *)
(***************************************************************************)
RuleGovernanceErrors(d) ==
    IF d.rule = None THEN {"RULE_MISSING"}
    ELSE When(~d.rule.hashMatches, "RULE_HASH_MISMATCH")
         \cup When(d.time \notin d.rule.from .. (d.rule.until - 1),
                   "RULE_NOT_EFFECTIVE")
         \cup IF d.authority = None
              THEN {"RULE_SCOPE_MISMATCH", "AUTHORITY_MISSING"}
              ELSE When(d.rule.scope # d.authority.scope, "RULE_SCOPE_MISMATCH")
                   \cup When(d.rule.adoptedBy \notin d.authority.adoptionRefs,
                             "RULE_ADOPTION_AUTHORITY_MISSING")

\* A factor the weighting does not give counts as -1 against a floor and as 2
\* against a ceiling.
Factor(weighting, key, default) ==
    IF key \in DOMAIN weighting.factors THEN weighting.factors[key] ELSE default

WeightingErrors(d) ==
    IF d.weighting = None THEN {"WEIGHTING_MISSING"}
    ELSE When(\E key \in DOMAIN d.rule.minimum :
                  Factor(d.weighting, key, -1) < d.rule.minimum[key],
              "MINIMUM_WEIGHT_FAILED")
         \cup When(\E key \in DOMAIN d.rule.maximum :
                       Factor(d.weighting, key, 2) > d.rule.maximum[key],
                   "MAXIMUM_WEIGHT_FAILED")
         \cup When(d.weighting.vetoes # {}, "HARD_VETO_ACTIVE")

MeasurementErrors(d) ==
    IF d.measurement = None THEN {"MEASUREMENT_MISSING"}
    ELSE When(~(d.measurement.burdens \subseteq d.rule.burdens),
              "UNRESOLVED_BURDEN_NOT_ALLOWED")
         \cup When(~(d.measurement.observations
                         \subseteq {o.id : o \in d.observations}),
                   "MEASUREMENT_REFERENCE_MISSING")

\* Mutant: the rule's permitted transition is compared by its target only.
PermitsTarget(p) == p.dossier.rule.permits[2] = p.to

Permits(p) == p.dossier.rule.permits = <<p.from, p.to>>

CommitmentErrors(p) ==
    LET d == p.dossier
    IN  RuleGovernanceErrors(d) \cup
        IF d.rule = None \/ d.authority = None THEN {}
        ELSE When(~Permits(p), "RULE_TRANSITION_MISMATCH")
             \cup When(d.time \notin d.authority.from .. (d.authority.until - 1),
                       "AUTHORITY_NOT_CURRENT")
             \cup When(d.rule.action \notin d.authority.actions,
                       "ACTION_NOT_AUTHORIZED")
             \cup When(p.candidate.id \notin d.authority.targets,
                       "TARGET_NOT_AUTHORIZED")
             \cup When(~(d.rule.kinds \subseteq {o.kind : o \in d.observations}),
                       "REQUIRED_EVIDENCE_MISSING")
             \cup WeightingErrors(d)
             \cup MeasurementErrors(d)

-------------------------------------------------------------------------------
(***************************************************************************)
(* engine.py                                                               *)
(***************************************************************************)
\* _base: nothing happened yet, and every failure of the trace is retained.
Base(p) ==
    [packet |-> p, outcome |-> "INVALID",
     prior |-> p.current.status, resulting |-> p.current.status,
     changed |-> FALSE, reasons |-> {},
     retained |-> p.dossier.failures, resolved |-> {}, replay |-> None]

ContentMatches(p) == p.candidate.content = p.candidate.hash

\* Mutant: the requested from_status is not compared with the snapshot.
StateMatchesAnyStatus(p) ==
    /\ p.current.candidate = IF p.operation = "REOPEN" /\ p.reopening # None
                             THEN p.reopening.candidate ELSE p.candidate.id

StateMatches(p) ==
    /\ p.current.status = p.from
    /\ p.operation = "TRANSITION" =>
          /\ p.current.candidate = p.candidate.id
          /\ p.current.hash = p.candidate.hash
    /\ p.operation = "REOPEN" /\ p.reopening # None =>
          /\ p.current.candidate = p.reopening.candidate
          /\ p.current.hash = p.reopening.hash

BindingErrors(p) ==
    When(~ContentMatches(p), "CANDIDATE_CONTENT_HASH_MISMATCH")
    \cup When(~StateMatches(p), "CURRENT_STATE_MISMATCH")

Stale(d) == d.expires # None /\ d.time >= d.expires

ExpiryErrors(p) ==
    LET d == p.dossier
    IN  When(/\ p.from = "UNRESOLVED" /\ p.to = "EXPIRED"
             /\ d.expiry \in {None, "CANDIDATE_ELIGIBILITY"},
             "UNRESOLVED_EXPIRY_SUBJECT_REQUIRED")
        \cup When(p.to = "EXPIRED" /\ ~Stale(d) /\ d.expiry = None,
                  "EXPIRY_BASIS_MISSING")
        \cup When(p.to # "EXPIRED" /\ Stale(d), "CANDIDATE_STALE")

RejectionBasis(d) ==
    \/ d.weighting # None /\ d.weighting.vetoes # {}
    \/ \E f \in d.failures : f.category \in {"INTEGRITY", "SUBSTANTIVE"}

TransitionErrors(p) ==
    LET d == p.dossier
    IN  When(~RouteAllowed(p.from, p.to, d.allowUnresolvedExpiry),
             "TRANSITION_NOT_ALLOWED")
        \cup ExpiryErrors(p)
        \cup When(p.to = "WEIGHTED" /\ d.weighting = None, "WEIGHTING_MISSING")
        \cup When(p.to = "MEASURED" /\ d.measurement = None,
                  "MEASUREMENT_MISSING")
        \cup (IF p.to \in {"COMMITTED", "REJECTED"}
              THEN CommitmentErrors(p) ELSE {})
        \cup When(p.to = "REJECTED" /\ ~RejectionBasis(d),
                  "REJECTION_BASIS_MISSING")

EvaluateTransition(p) ==
    LET errors == TransitionErrors(p)
    IN  IF errors = {}
        THEN [Base(p) EXCEPT !.outcome = "ALLOWED", !.resulting = p.to,
                             !.changed = p.to # p.from]
        ELSE [Base(p) EXCEPT !.reasons = errors,
                !.outcome = IF "RULE_HASH_MISMATCH" \in errors
                            THEN "INVALID" ELSE "BLOCKED"]

\* Mutant: the new candidate id may be the one that is reopened.
ReopeningInPlace(p) ==
    /\ p.reopening # None
    /\ p.to = "CANDIDATE"
    /\ p.reopening.candidate = p.current.candidate
    /\ p.reopening.status = p.current.status
    /\ p.reopening.deltas # {}
    /\ p.current.lastReceipt \in {None, p.reopening.receipt}

ReopeningIsStructured(p) ==
    /\ p.reopening # None
    /\ p.to = "CANDIDATE"
    /\ p.reopening.candidate = p.current.candidate
    /\ p.reopening.status = p.current.status
    /\ p.candidate.id # p.reopening.candidate
    /\ p.reopening.deltas # {}
    /\ p.current.lastReceipt \in {None, p.reopening.receipt}

\* Mutant: a delta of any category resolves the failures it names.
ResolvedByAny(f, deltas) == \E m \in deltas : f.id \in m.resolves

\* A delta resolves a failure it names only in the failure's own category.
ResolvedBy(f, deltas) ==
    \E m \in deltas : f.id \in m.resolves /\ f.category = m.category

EvaluateReopening(p) ==
    IF ~ReopeningIsStructured(p)
    THEN [Base(p) EXCEPT !.reasons = {"INVALID_REOPENING_STRUCTURE"}]
    ELSE LET failures == p.reopening.failures
             unmet == {f \in failures : ~ResolvedBy(f, p.reopening.deltas)}
             procedural == {f \in failures \ unmet :
                               f.category = "PROCEDURAL" /\ f.correctable}
             result == [Base(p) EXCEPT !.resolved = procedural,
                                       !.retained = failures \ procedural]
         IN  IF unmet = {}
             THEN [result EXCEPT !.outcome = "ALLOWED",
                                 !.resulting = "CANDIDATE", !.changed = TRUE]
             ELSE [result EXCEPT !.outcome = "BLOCKED",
                                 !.reasons = {"MATERIAL_DELTA_MISSING"}]

\* Mutant: the audit keeps the lifecycle_changed of the evaluation.
AsReplayStillChanges(base, earlier) ==
    [base EXCEPT
        !.outcome = IF base = earlier THEN "REPLAYED" ELSE "INVALID",
        !.reasons = @ \cup When(base # earlier, "REPLAY_MISMATCH"),
        !.replay = [matches |-> base = earlier]]

\* Mutant: the reason code is returned as the outcome.
AsReplayByReason(base, earlier) ==
    [base EXCEPT
        !.outcome = IF base = earlier THEN "REPLAYED" ELSE "REPLAY_MISMATCH",
        !.changed = FALSE,
        !.replay = [matches |-> base = earlier]]

\* _as_replay: an evaluation given an earlier receipt is an audit of it.
AsReplay(base, earlier) ==
    [base EXCEPT
        !.outcome = IF base = earlier THEN "REPLAYED" ELSE "INVALID",
        !.changed = FALSE,
        !.reasons = @ \cup When(base # earlier, "REPLAY_MISMATCH"),
        !.replay = [matches |-> base = earlier]]

EvaluateBase(p) ==
    IF BindingErrors(p) # {}
    THEN [Base(p) EXCEPT !.reasons = BindingErrors(p)]
    ELSE IF p.operation = "REOPEN" THEN EvaluateReopening(p)
         ELSE EvaluateTransition(p)

EvaluatePacket(p, earlier) ==
    IF earlier = None THEN EvaluateBase(p)
    ELSE AsReplay(EvaluateBase(p), earlier)

\* evaluate_raw on bytes that are no packet, whatever the earlier receipt.
MalformedReceipt ==
    [packet |-> None, outcome |-> "INVALID", prior |-> None, resulting |-> None,
     changed |-> FALSE, reasons |-> {"MALFORMED_OR_INVALID_PACKET"},
     retained |-> {}, resolved |-> {}, replay |-> None]
===============================================================================
