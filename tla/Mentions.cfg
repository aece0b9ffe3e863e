SPECIFICATION MentionsSpec
CONSTANTS
    t1 = t1
    t2 = t2
    n1 = n1
    c1 = c1
    c2 = c2
    TAG = TAG
    TrackingParams <- MCTracking
    Crawls <- MCCrawls
    Spellings <- MCSpellings
    Hits <- MCHits
    Statuses = {"new", "reviewed"}
    Notes <- MCNotes
    limit = 1
    MaxBatch = 2
    MaxHits = 3
    MaxNotes = 1
SYMMETRY MCSymmetry
INVARIANTS
    MentionsTypeOK
    OneRowPerPage
    TermsKept
    NotesKept
