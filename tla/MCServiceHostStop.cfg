SPECIFICATION Spec
CONSTANTS
    MaxStarts = 2
    MaxCalls = 2
    MaxKeys = 2
    VpnctlCommands = {"leave", "disconnect"}
PROPERTIES
    StopReleasesPlane
CHECK_DEADLOCK FALSE
