SPECIFICATION Spec
CONSTANTS
    Crawlers = {c1, c2}
    Nobody = Nobody
    Total = 3
    Down <- MCDown
    budget = 2
    MAX_CAPTURE_ATTEMPTS = 2
    MaxTroubles = 2
INVARIANTS
    TypeOK
    EvidenceMatchesState
    CapturesBounded
    GivenUpAtLimit
    DecisionsLogged
    UnknownSavesBounded
PROPERTIES
    OwedIsTaken
