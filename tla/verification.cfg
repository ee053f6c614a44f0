SPECIFICATION FairSpec
CONSTANTS
    None = None
    Torn = Torn
    Path <- MCPath
    Trees <- MCTrees
    Original <- MCOriginal
    Contracts <- MCContracts
    Outcomes <- MCOutcomes
    Rules <- MCRules
    Made = {}
    MaxAttempts = 2
    PreserveFailed = TRUE
    FreezeRepeats = TRUE
INVARIANTS
    TypeOK BaselineIsOriginal VerifiedIsDeserved VerifiedTreeIsCurrent
    CopiesRemoved
PROPERTIES
    VerificationEnds
