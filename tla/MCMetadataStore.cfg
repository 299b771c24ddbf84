SPECIFICATION Spec
CONSTANTS
    t1 = t1
    t2 = t2
    n1 = n1
    v1 = v1
    v2 = v2
    i1 = i1
    i2 = i2
    c1 = c1
    c2 = c2
    d1 = d1
    d2 = d2
    Tenant = {t1, t2}
    Name = {n1}
    Version = {v1, v2}
    Info = {i1, i2}
    Caller = {c1, c2}
    Id = {d1, d2}
    None = None
SYMMETRY Symm
VIEW ReadView
INVARIANT
    IInv
PROPERTY
    CrewStoreImplemented
    OnlyPublisherWrites
