SPECIFICATION Spec
CONSTANTS
    w1 = w1
    w2 = w2
    r1 = r1
    p1 = p1
    p2 = p2
    NoWriter = NoWriter
    Writers <- MCWriters
    Readers <- MCReaders
    Payload <- MCPayload
    MaxEntries = 4
SYMMETRY MCSymmetry
INVARIANTS
    TypeOK
    ChainIsLinear
    CheckpointsAnchored
    VerdictsTrue
PROPERTIES
    ImplementsAppendOnlyLog
