SPECIFICATION Spec
CONSTANTS
    None = None
    MaxJoins = 2
    MaxVersion = 5
PROPERTIES
    RecoveryCredentialKept
