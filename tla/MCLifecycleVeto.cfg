\* A declared hard veto as the basis of a rejection.
SPECIFICATION Spec
CONSTANTS
    None = None
    Absent = Absent
    Tampered = Tampered
    First = "a"
    Candidates <- MCCandidates
    Content <- MCContent
    Dossiers <- MCDossiers
    Trace <- MCTrace
    Appeals <- MCAppeals
INVARIANT HardVetoSupportsRejection
