\* One candidate, one reopening, twenty-eight dossiers.
SPECIFICATION Spec
CONSTANTS
    None = None
    Absent = Absent
    Tampered = Tampered
    First = "a"
    Candidates <- MCCandidates
    Content <- MCContent
    Dossiers <- MCDossiers
    Trace <- MCTrace
    Appeals <- MCAppeals
INVARIANTS
    TypeOK
    CommittedWasWeighedAndMeasured
PROPERTIES
    NoBackflow
    DecisionsAreGoverned
    ReplayIsAnAudit
    ReopeningAnswersEveryFailure
