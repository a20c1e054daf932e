SPECIFICATION RRSpec
CONSTANTS
    ip1 = ip1
    ip2 = ip2
    None = None
    Luid = {1}
    IP = {ip1, ip2}
INVARIANTS
    RegistryExact
PROPERTIES
    UserEntriesKept
