SPECIFICATION Spec
CONSTANTS
    Snapshots = {s1, s2}
    Pollers = {p1, p2}
    BACKOFF <- MCBackoff
    MAX_ATTEMPTS = 3
    NoAnswer = NoAnswer
    Horizon = 3
    MaxCrashes = 1
INVARIANTS
    TypeOK
    StatusMatchesAttempts
    AttemptsPaced
PROPERTIES
    ImplementsBacklog
    EveryRequestAnswered
CHECK_DEADLOCK FALSE
