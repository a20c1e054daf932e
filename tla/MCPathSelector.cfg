SPECIFICATION SelectorSpec
CONSTANTS
    DirectFailureThreshold = 3
    RecoverySuccessThreshold = 4
    MaxTime = 6
    MaxRun = 6
INVARIANTS
    KeepsUp
PROPERTIES
    Hysteresis
