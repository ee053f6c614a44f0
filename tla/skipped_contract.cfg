SPECIFICATION Spec
CONSTANTS
    MaxTasks = 4
    Scope = "task"
    ContractTask = 1
    DepSat = "candidate_complete"
    Configs <- MCModes
    Plans <- MCPairs
    ChildPlans <- MCSplit
    Verdicts <- Verdict
    MaxReopens = 1
    MaxProjectAttempts = 2
    RequireProjectContract = FALSE
    FinalCommand = FALSE
    FreezeRepeats = FALSE
INVARIANTS
    ClaimsAreVerified
