SPECIFICATION Spec
CONSTANTS
    ip1 = ip1
    ip2 = ip2
    ip3 = ip3
    None = None
    Luid = {1, 2}
    IP = {ip1, ip2, ip3}
    MaxGeneration = 2
    Plan <- MCPlan
INVARIANTS
    CleanupLeavesNothing
