SPECIFICATION Spec
CONSTANTS
    Values = {"good", "poor"}
    FlawSets <- MCFlawSets
    Admissible <- MCAdmissible
    Allowed = {"good"}
    None = None
    Partial = Partial
INVARIANTS
    TypeOK
    SuccessIsFlawless
    ModesAgree
