SPECIFICATION Spec
CONSTANTS
    Policies <- MCContract
    MaxCalls = 2
INVARIANTS
    EvidenceIsFresh
CHECK_DEADLOCK FALSE
