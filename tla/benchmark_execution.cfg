CONSTANTS
    CaseCount = 2
    Modes <- MCModes
    Scores <- MCScores
    NoOutcome = NoOutcome
    MaxLaunches = 2
    MaxTroubles = 2
    Unbuilt = Unbuilt
    Mangled = Mangled
SPECIFICATION Spec
CHECK_DEADLOCK FALSE
INVARIANTS JournalIsTrue
PROPERTIES EvidenceIsKept ImplementsCaseResults RunEnds
