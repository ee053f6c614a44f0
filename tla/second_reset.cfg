SPECIFICATION Spec
CONSTANTS
    None = None
    Paths = {"f", "g"}
    Commands = {"test"}
    Verifies = {"test"}
    CRLF <- MCCRLF
    Settings <- MCDeterministic
    Listed = 1
    MaxSteps = 3
    MaxCalls = 3
    MaxRetries = 1
INVARIANTS
    HandoffKeepsFiles
CHECK_DEADLOCK FALSE
