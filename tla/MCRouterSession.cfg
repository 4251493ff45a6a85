SPECIFICATION Spec
CONSTANTS
    Proposals <- MCProposals
    Controls <- MCControls
    Evidence = {e1, e2}
    MaxTime = 3
    Malformed = Malformed
    NoDecision = NoDecision
    NoRef = NoRef
    NoDiagnostic = NoDiagnostic
    NoCandidate = NoCandidate
    acct = acct
    obs1 = obs1
    obs2 = obs2
    token1 = token1
    token2 = token2
    act1 = act1
    act2 = act2
    goal = goal
    e1 = e1
    e2 = e2
    s1 = s1
    s2 = s2
    tr = tr
INVARIANTS
    TypeOK
    RankingRepairsNothing
    IneligibleAreIrrelevant
    ClosedGateRejects
    AdmissionStaysInside
    StagesAgreeWithRoute
PROPERTIES
    ControlIsMonotone
