SPECIFICATION Spec
CONSTANTS
    w1 = w1
    w2 = w2
    b1 = b1
    b2 = b2
    NoBlob = NoBlob
    NoPackage = NoPackage
    Writers <- MCWriters
    Blobs <- MCBlobs
    Shards <- MCShards
    shard <- MCshard
SYMMETRY MCSymmetry
INVARIANTS
    TypeOK
    RowsHaveFiles
    PackageComplete
PROPERTIES
    ImplementsContentStore
