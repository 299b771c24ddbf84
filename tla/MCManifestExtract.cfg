SPECIFICATION Spec
CONSTANT
    MaxEntries = 3
INVARIANTS
    NamedByFirst
    StoredWhole
PROPERTIES
    Approaches
    GetsToPut
CHECK_DEADLOCK FALSE
