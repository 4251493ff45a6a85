--------------------------- MODULE MCLifecycleSession ---------------------------
(***************************************************************************)
(* One candidate, the identity it may be reopened under, and dossiers that *)
(* each differ from a sound one in one respect.  The sound rule is in      *)
(* force from 0 to 2 and its authority from 1 to 3, neither at its end;    *)
(* packets are evaluated at times 0 to 3.                                  *)
(***************************************************************************)
EXTENDS LifecycleSession

MCCandidates == {"a", "b"}

\* Both candidates carry the same content, so only the identity tells them
\* apart.
MCContent == [c \in MCCandidates |-> "content"]

Authority ==
    [scope |-> "scope", from |-> 1, until |-> 3, actions |-> {"decide"},
     targets |-> MCCandidates, adoptionRefs |-> {"charter"}]

RuleFor(from, to) ==
    [hashMatches |-> TRUE, scope |-> "scope", from |-> 0, until |-> 2,
     adoptedBy |-> "charter", permits |-> <<from, to>>, kinds |-> {"reading"},
     minimum |-> [quality |-> 1], maximum |-> [risk |-> 1],
     action |-> "decide", burdens |-> {}]

Flaw == [id |-> "f1", category |-> "SUBSTANTIVE", correctable |-> FALSE]

Slip == [id |-> "f2", category |-> "PROCEDURAL", correctable |-> TRUE]

\* Supports a commitment from MEASURED.
Sound ==
    [time |-> 1, expires |-> 4, expiry |-> None,
     allowUnresolvedExpiry |-> FALSE,
     observations |-> {[id |-> "o1", kind |-> "reading"]},
     weighting |-> [factors |-> [quality |-> 1, risk |-> 0], vetoes |-> {}],
     measurement |-> [burdens |-> {}, observations |-> {"o1"}],
     authority |-> Authority,
     rule |-> RuleFor("MEASURED", "COMMITTED"),
     failures |-> {}]

\* Supports a rejection from WEIGHTED, for a substantive failure.
Rejecting ==
    [Sound EXCEPT !.rule = RuleFor("WEIGHTED", "REJECTED"),
                  !.failures = {Flaw}]

\* Each of these lacks one thing that a decision needs.
Governance ==
    {[Sound EXCEPT !.rule = None],
     [Sound EXCEPT !.rule.hashMatches = FALSE],
     [Sound EXCEPT !.rule.scope = "elsewhere"],
     [Sound EXCEPT !.rule.adoptedBy = "stranger"],
     [Sound EXCEPT !.rule.from = 2, !.rule.until = 3],
     [Sound EXCEPT !.time = 2],
     [Sound EXCEPT !.authority = None],
     [Sound EXCEPT !.authority.actions = {"record"}],
     [Sound EXCEPT !.authority.targets = {"b"}],
     [Sound EXCEPT !.time = 0],
     [Sound EXCEPT !.time = 3, !.rule.until = 4]}

Evidence ==
    {[Sound EXCEPT !.rule.kinds = {"reading", "audit"}],
     [Sound EXCEPT !.weighting = None],
     [Sound EXCEPT !.weighting.factors = [quality |-> 0, risk |-> 0]],
     [Sound EXCEPT !.weighting.factors = [quality |-> 1]],
     [Sound EXCEPT !.weighting.factors = [risk |-> 1]],
     [Sound EXCEPT !.weighting.vetoes = {"veto"}],
     [Sound EXCEPT !.measurement = None],
     [Sound EXCEPT !.measurement.burdens = {"calibration"}],
     [Sound EXCEPT !.measurement.observations = {"o2"}],
     [Sound EXCEPT !.expires = 1]}

MCDossiers ==
    {Sound, Rejecting} \cup Governance \cup Evidence \cup
    {[Sound EXCEPT !.time = 2, !.rule.until = 3],
     [Rejecting EXCEPT !.failures = {}],
     [Rejecting EXCEPT !.weighting.vetoes = {"veto"}],
     [Rejecting EXCEPT !.weighting.vetoes = {"veto"}, !.failures = {}],
     [Sound EXCEPT !.expiry = "OBSERVATION_WINDOW",
                   !.allowUnresolvedExpiry = TRUE]}

MCTrace == [Sound EXCEPT !.failures = {Slip}]

Answers(category, ids) == [category |-> category, resolves |-> ids]

MCAppeals ==
    {[failures |-> {Flaw, Slip},
      deltas |-> {Answers("SUBSTANTIVE", {"f1"}), Answers("PROCEDURAL", {"f2"})}],
     [failures |-> {Flaw, Slip},
      deltas |-> {Answers("PROCEDURAL", {"f1", "f2"})}],
     [failures |-> {Slip}, deltas |-> {}]}
===============================================================================
