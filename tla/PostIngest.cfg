SPECIFICATION Spec
CONSTANTS
    Hooks = {h1}
    Syncs = {s1, s2}
    Backfills = {i1}
    CaptureOff = {s2}
    Held = {2}
    NoPost = NoPost
    Total = 2
    MaxFailures = 1
    MaxAttached = 1
INVARIANTS
    TypeOK
    NothingRepeated
    NothingSkippedWithoutFailure
PROPERTIES
    FeedEvidenced
