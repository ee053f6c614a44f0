SPECIFICATION Spec
CONSTANTS
    None = None
    Torn = Torn
    Path <- MCPath
    Trees <- MCTrees
    Original <- MCOriginal
    Contracts <- MCContracts
    Outcomes <- MCOutcomes
    Rules <- MCRules
    Made = {}
    MaxAttempts = 2
    PreserveFailed = TRUE
    FreezeRepeats = FALSE
INVARIANTS
    InterruptionIsRecoverable
