SPECIFICATION Spec
CONSTANTS
    v1 = v1
    v2 = v2
    b1 = b1
    b2 = b2
    p1 = p1
    p2 = p2
    g1 = g1
    i1 = i1
    i2 = i2
    i3 = i3
    y1 = y1
    y2 = y2
    Version <- MCVersion
    Sanitized <- MCSanitized
    Body <- MCBody
    Key <- TwoKeys
    Size <- MCSize
    Sizes = {2}
    Putter = {p1, p2}
    Getter = {}
    Inode = {i1, i2, i3}
    Stamp = {y1}
    Hole = Hole
    None = None
SYMMETRY Symm
VIEW LiveView
INVARIANTS
    CommittedIntact
    NoStrayTemps
    StoredListed
    OwnNamesLast
    IInv
PROPERTY
    BlobStoreImplemented
