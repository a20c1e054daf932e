SPECIFICATION Spec
CONSTANTS
    None = None
    MaxJoins = 2
    MaxVersion = 5
INVARIANTS
    PlaneOwned
    Leaveable
    LeftForGood
    FailedJoinUndone
PROPERTIES
    OperationsReturn
