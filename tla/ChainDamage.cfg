SPECIFICATION Spec
CONSTANTS
    p1 = p1
    p2 = p2
    Payload <- MCPayload
    MaxEntries = 4
    MaxStamps = 1
    MaxDamage = 2
SYMMETRY MCSymmetry
CHECK_DEADLOCK FALSE
INVARIANTS
    TypeOK
    FullVerifyExact
    StampsExact
    MarkedHeadKept
    OnlyOldDamageMissed
