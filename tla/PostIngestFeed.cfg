SPECIFICATION Spec
CONSTANTS
    Hooks = {}
    Syncs = {s1}
    Backfills = {}
    CaptureOff = {}
    Held = {}
    NoPost = NoPost
    Total = 2
    MaxFailures = 1
    MaxAttached = 0
PROPERTIES
    PublicationsRecorded
