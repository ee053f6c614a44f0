SPECIFICATION Spec
CONSTANTS
    None = None
    Tasks <- MCTasks
    ProjectOf <- MCProjectOf
    Lessons = {"strip", "keep"}
    Contradicts <- MCContradicts
    Fingerprints = {"f"}
    MaxMemories = 2
    MaxSkills = 2
    MinSuccesses = 2
    MinTasks = 2
    MinRepositories = 1
    MaxRetrieved = 1
    Configs <- MCConfigs
    Outcomes <- MCOutcomes
    Drafts <- MCDrafts
    SaveAll = TRUE
    Stores <- MCStores
    SkillDrafts <- MCSkillDrafts
    MaxPacks = 4
    MaxCrashes = 1
    MaxWithdrawn = 1
INVARIANTS
    TypeOK ActiveSkillIsEarned WithdrawnStaysWithdrawn ProvenanceIsSaved
    KnowledgeAgrees 
PROPERTIES
    PortableFromActive FrozenOnlyReads
