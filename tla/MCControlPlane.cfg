SPECIFICATION Spec
CONSTANTS
    n1 = n1
    h1 = h1
    h2 = h2
    d1 = d1
    d2 = d2
    c1 = c1
    k1 = k1
    k2 = k2
    i1 = i1
    i2 = i2
    i3 = i3
    t1 = t1
    t2 = t2
    t3 = t3
    a1 = a1
    a2 = a2
    e1 = e1
    None = None
    Network = {n1}
    Node = {d1, d2, c1}
    ClientNode = {c1}
    Key = {k1, k2}
    Address = {a1, a2}
    Pool <- MCPool
    Hosts <- MCHosts
    Invite = {i1, i2, i3}
    Token = {t1, t2, t3}
    Endpoint = {e1}
    Assignment = {}
    Req = {h1, h2}
    KeysOf <- MCKeysOf
    NewNode <- MCNewNode
    NewInvite <- MCNewInvite
    NewToken <- MCNewToken
    AdminToken <- MCAdminToken
    Attempts = 2
    MaxVersion = 3
INVARIANTS
    StoreSound
    EnrollmentAtomic
    NoGhostSession
    OneNodePerInvite
PROPERTIES
    AnswersTruthful
    RequestsFinish
