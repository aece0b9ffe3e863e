SPECIFICATION Spec
CONSTANTS
    Crawlers = {c1}
    Nobody = Nobody
    Total = 2
    Down <- MCDown
    budget = 1
    MAX_CAPTURE_ATTEMPTS = 2
    MaxTroubles = 1
PROPERTIES
    OwedIsTaken
