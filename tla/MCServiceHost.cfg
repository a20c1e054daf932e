SPECIFICATION Spec
CONSTANTS
    MaxStarts = 2
    MaxCalls = 2
    MaxKeys = 2
    VpnctlCommands = {"leave", "disconnect"}
INVARIANTS
    TypeOK
    ShutdownReleases
    EnrolledKeyKept
    ClosedServesNobody
    RetryAlone
PROPERTIES
    EveryCallEnds
CHECK_DEADLOCK FALSE
