SPECIFICATION Spec
CONSTANTS
    n1 = n1
    n2 = n2
    d1 = d1
    d2 = d2
    d3 = d3
    k1 = k1
    k2 = k2
    k3 = k3
    a1 = a1
    a2 = a2
    a3 = a3
    i1 = i1
    i2 = i2
    i3 = i3
    t3 = t3
    t1 = t1
    t2 = t2
    e1 = e1
    r1 = r1
    r2 = r2
    x1 = x1
    x2 = x2
    x3 = x3
    None = None
    Network = {n1, n2}
    Node = {d1, d2, d3}
    Key = {k1, k2, k3}
    Address = {a1, a2, a3}
    Pool <- MCPool
    Invite = {i1, i2, i3}
    Token = {t1, t2, t3}
    Endpoint = {e1}
    Assignment = {r1, r2}
    Tx = {x1, x2, x3}
    Operations <- MCOperations
    Initial <- MCInitial
    MaxVersion <- MCMaxVersion
    Rank <- MCRank
SYMMETRY Symmetric
CHECK_DEADLOCK FALSE
INVARIANTS
    TypeOK
    NoDeadlock
    SnapshotOfOneStore
PROPERTIES
    Atomicity
    VersionsLocked
