SPECIFICATION Spec
CONSTANTS
    v1 = v1
    b1 = b1
    b2 = b2
    p1 = p1
    p2 = p2
    g1 = g1
    Version = {v1}
    Body = {b1, b2}
    Publisher = {p1}
    Getter = {}
    HasHook = TRUE
    Backend = "local"
    NoDigest = NoDigest
    Directory = Directory
    None = None
INVARIANTS
    EventNamesItsBlob
