SPECIFICATION FairSpec
CONSTANTS
    k1 = k1
    k2 = k2
    b1 = b1
    b2 = b2
    p1 = p1
    p2 = p2
    g1 = g1
    Key = {k1, k2}
    Backend <- MCBackend
    Digest <- MCDigest
    Body = {b1, b2}
    Putter = {p1, p2}
    Getter = {g1}
    None = None
INVARIANTS
    CorruptUnsettled
    AckedIntact
    ReadsIntact
    IInv
PROPERTIES
    BlobStoreImplemented
    CorruptGoesAway
