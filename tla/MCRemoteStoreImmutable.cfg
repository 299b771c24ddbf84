SPECIFICATION Spec
CONSTANTS
    k1 = k1
    k2 = k2
    b1 = b1
    b2 = b2
    p1 = p1
    p2 = p2
    g1 = g1
    Key = {k1}
    Backend <- OneBackend
    Digest <- OneDigest
    Body = {b1, b2}
    Putter = {p1, p2}
    Getter = {}
    None = None
INVARIANTS
    AckedImmutable
