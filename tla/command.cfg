SPECIFICATION FairSpec
CONSTANTS
    MaxTasks = 5
    Scope = "none"
    ContractTask = 0
    DepSat = "candidate_complete"
    Configs <- MCDeep
    Plans <- MCSmall
    ChildPlans <- MCSplit
    Verdicts <- Verdict
    MaxReopens = 1
    MaxProjectAttempts = 2
    RequireProjectContract = FALSE
    FinalCommand = TRUE
    FreezeRepeats = FALSE
INVARIANTS
    NoDependencyDeadlock ActiveMeansWork
PROPERTIES
    RunsReturn
