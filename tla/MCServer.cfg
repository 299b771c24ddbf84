SPECIFICATION FairServerSpec
CONSTANTS
    v1 = v1
    b1 = b1
    p1 = p1
    g1 = g1
    Version = {v1}
    Body = {b1}
    Publisher = {p1}
    Getter = {g1}
    HasHook = TRUE
    Backend = "local"
    NoDigest = NoDigest
    Directory = Directory
    None = None
CONSTRAINT OneHook
INVARIANTS
    ServerInv
    EventsAccounted
    EventOwnUnlessReused
PROPERTIES
    DrainLosesNothing
    ShutdownEnds
    EventsSettle
