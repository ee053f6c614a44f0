SPECIFICATION Spec
CONSTANTS
    MaxTasks = 4
    Scope = "project"
    ContractTask = 0
    DepSat = "candidate_complete"
    Configs <- MCSearch
    Plans <- MCChain
    ChildPlans <- MCSplits
    Verdicts <- Verdict
    MaxReopens = 1
    MaxProjectAttempts = 2
    RequireProjectContract = TRUE
    FinalCommand = FALSE
    FreezeRepeats = FALSE
INVARIANTS
    WorkHasDependencies ParentsFollowChildren SuccessIsVerified BlockerIsResolved
