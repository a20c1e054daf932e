SPECIFICATION Spec
CONSTANTS
    k1 = k1
    k2 = k2
    k3 = k3
    ip1 = ip1
    ip2 = ip2
    ip3 = ip3
    None = None
    Key = {k1, k2, k3}
    IP = {ip1, ip2, ip3}
    Config <- MCConfig
INVARIANTS
    ServesConfiguration
    NothingLeft
