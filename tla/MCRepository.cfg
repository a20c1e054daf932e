SPECIFICATION Spec
CONSTANTS
    n1 = n1
    n2 = n2
    d1 = d1
    d2 = d2
    k1 = k1
    k2 = k2
    a1 = a1
    a2 = a2
    a3 = a3
    i1 = i1
    i2 = i2
    t1 = t1
    e1 = e1
    r1 = r1
    r2 = r2
    None = None
    Network = {n1, n2}
    Node = {d1, d2}
    Key = {k1, k2}
    Address = {a1, a2, a3}
    Pool <- MCPool
    Invite = {i1, i2}
    Token = {t1}
    Endpoint = {e1}
    Assignment = {r1, r2}
    MaxVersion <- MCMaxVersion
SYMMETRY Symmetric
INVARIANTS
    KeysIndexed
    NoSharedAddress
    RelaysConsistent
    NothingDangles
    SnapshotClosed
PROPERTIES
    VersionCoversContent
