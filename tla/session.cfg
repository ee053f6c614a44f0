SPECIFICATION FairSpec
CONSTANTS
    Policies <- MCPolicies
    MaxCalls = 2
INVARIANTS
    TypeOK StatusMatchesSignal KnowledgeDecisionFirst EvidenceNotOverlooked
PROPERTIES
    KeepsPromise SessionEnds
CHECK_DEADLOCK FALSE
