SPECIFICATION Spec
CONSTANTS
    None = None
    Paths = {"f", "g"}
    Commands = {"test"}
    Verifies = {"test"}
    CRLF <- MCCRLF
    Settings <- MCSettings
    Listed = 1
    MaxSteps = 3
    MaxCalls = 3
    MaxRetries = 1
INVARIANTS
    TypeOK StaleIsMarked FreshIsKept NeverOverHardStop HandoffIsTrue
    SegmentsHaveHandoffs
CHECK_DEADLOCK FALSE
