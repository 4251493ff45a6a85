SPECIFICATION Spec
CONSTANTS
    Callers = {p1, p2}
    p1 = p1
    p2 = p2
    Tokens = {token1, token2}
    token1 = token1
    token2 = token2
    Proposals <- MCProposals
    Controls <- MCControls
    MaxTime = 3
    Unregistered = Unregistered
    Unused = Unused
    None = None
    NoRef = NoRef
    NoDiagnostic = NoDiagnostic
    NoCandidate = NoCandidate
    acct = acct
    obs1 = obs1
    act1 = act1
    goal = goal
    e1 = e1
SYMMETRY MCSymmetry
INVARIANTS
    TypeOK
    GrantUsedOnce
