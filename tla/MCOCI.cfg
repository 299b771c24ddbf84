SPECIFICATION Spec
CONSTANTS
    n1 = n1
    t1 = t1
    b1 = b1
    b2 = b2
    u1 = u1
    c1 = c1
    c2 = c2
    Name = {n1}
    Tag = {t1}
    Body = {b1, b2}
    Uuid = {u1}
    Context = {c1, c2}
    None = None
SYMMETRY Symm
CONSTRAINT FewBlobs
INVARIANTS
    PullFinds
    PullNamed
    HeadTrue
    IInv
