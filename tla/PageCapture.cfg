SPECIFICATION Spec
CONSTANTS
    k1 = k1
    k2 = k2
    a1 = a1
    a2 = a2
    a3 = a3
    NoConn = NoConn
    NoProxy = NoProxy
    Conns <- MCConns
    Addresses <- MCAddresses
    Public <- MCPublic
    MaxCaptures = 2
    MaxTroubles = 2
    MaxRefusals = 2
SYMMETRY MCSymmetry
INVARIANTS
    TypeOK
    DialledAsChecked
    RefusalsReported
CHECK_DEADLOCK FALSE
