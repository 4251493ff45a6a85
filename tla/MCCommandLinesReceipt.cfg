SPECIFICATION Spec
CONSTANTS
    Values = {"good", "poor"}
    FlawSets <- MCNonfinite
    Admissible <- MCAdmissible
    Allowed = {"good"}
    None = None
    Partial = Partial
INVARIANTS
    EveryAttemptEmitsAReceipt
