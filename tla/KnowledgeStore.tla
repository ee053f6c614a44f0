--------------------------- MODULE KnowledgeStore ---------------------------
(***************************************************************************)
(* The records of the knowledge store (knowledge/store.py, schema.py) and  *)
(* the functions that decide about them: the gate for reflections and the  *)
(* merging of memories (memory_lifecycle.py, conflict.py), the life of a   *)
(* skill (skill_lifecycle.py), which records may be retrieved              *)
(* (retrieval.py) and which of them reach the agent (arbitrator.py).       *)
(*                                                                         *)
(* Memories and skills are never deleted, so a record is its position in   *)
(* the order of creation.  A lesson stands for the kind, lesson and        *)
(* actions of a memory, its signature; scores, titles and texts are left   *)
(* out, so that what depends on them is a choice.                          *)
(***************************************************************************)
EXTENDS Integers, Sequences, FiniteSets

CONSTANTS
    Tasks,              \* the tasks of all projects
    ProjectOf,          \* the project of a task
    Lessons,            \* signatures of memories
    Contradicts(_, _),  \* does one lesson recommend what the other avoids?
    Fingerprints,       \* repository fingerprints of the workspaces
    None,               \* no project, fingerprint, task or outcome
    MaxMemories, MaxSkills, \* bounds on the records
    MinSuccesses, MinTasks, MinRepositories, \* knowledge.skill.promotion_min_*
    MaxRetrieved        \* max_retrieved of memories and of skills

Projects == {ProjectOf[t] : t \in Tasks}

ASSUME KnowledgeStoreAssumption ==
    /\ IsFiniteSet(Tasks) /\ ProjectOf \in [Tasks -> Projects]
    /\ {MaxMemories, MaxSkills, MaxRetrieved} \subseteq Nat
    /\ {MinSuccesses, MinTasks, MinRepositories} \subseteq Nat \ {0}
    /\ \A l, m \in Lessons : Contradicts(l, m) = Contradicts(m, l)

MemoryScope == {"task", "project", "repository", "portable"}
MemoryStatus == {"candidate", "quarantined", "active", "invalidated"}
SkillStatus == {"validated", "active", "deprecated"}

\* What a memory is tied to: project_id or repository_fingerprint.
Home(scope, project, fingerprint) ==
    CASE scope \in {"task", "project"} -> project
      [] scope = "repository" -> fingerprint
      [] OTHER -> None

\* The uses that a record counts; "neutral" only leaves a row.
Counted == {"exposed", "referenced", "helpful", "harmful"}
UseType == Counted \cup {"neutral"}
Unused == [u \in Counted |-> 0]

MemoryRecord(Episode) ==
    [status: MemoryStatus, scope: MemoryScope, lesson: Lessons,
     home: Projects \cup Fingerprints \cup {None},
     episodes: SUBSET Episode, count: [Counted -> Nat]]

\* sources are the memories the skill was derived from, its derivation key;
\* 0 is an id that no memory has.
SkillRecord ==
    [status: SkillStatus, scope: MemoryScope, fingerprint: Fingerprints,
     sources: SUBSET (0..MaxMemories), successes: Nat, failures: Nat,
     tasks: SUBSET Tasks, repositories: SUBSET Fingerprints,
     count: [Counted -> Nat]]

Memory(id) == [kind |-> "memory", id |-> id]
Skill(id)  == [kind |-> "skill",  id |-> id]
Item == [kind : {"memory"}, id : 1..MaxMemories]
        \cup [kind : {"skill"}, id : 1..MaxSkills]

(***************************************************************************)
(* Memories                                                                *)
(***************************************************************************)
Active(memories) == {m \in DOMAIN memories : memories[m].status = "active"}

find_conflicts(memories, lesson) ==
    {m \in Active(memories) : Contradicts(lesson, memories[m].lesson)}

\* ReflectionEvidenceGate.evaluate.  A draft is "sound", has a confidence
\* "below" the threshold, or breaks another rule of the gate; low confidence
\* is looked at first.  Portable drafts with source-specific text become
\* repository-scoped.
Draft == [lesson : Lessons, scope : MemoryScope, quality : {"sound", "low", "broken"},
          specific : BOOLEAN]

\* Mutant: the gate does not look for contradicting memories.
GateAlone(memories, draft) ==
    CASE draft.quality = "low" -> "quarantined"
      [] draft.quality = "broken" -> "rejected"
      [] OTHER -> "accepted"

Gate(memories, draft) ==
    CASE draft.quality = "low" -> "quarantined"
      [] draft.quality = "broken" -> "rejected"
      [] OTHER -> IF find_conflicts(memories, draft.lesson) # {}
                  THEN "rejected" ELSE "accepted"

FinalScope(draft) ==
    IF draft.scope = "portable" /\ draft.specific THEN "repository" ELSE draft.scope

\* The duplicates of a lesson; only active memories are looked at.
find_duplicate_memory(memories, lesson) ==
    {m \in Active(memories) : memories[m].lesson = lesson}

(***************************************************************************)
(* Skills                                                                  *)
(***************************************************************************)
Live == {"validated", "active"}

\* The skills with a derivation; a DRAFT is never saved.
find_skill_by_derivation(skills, sources) ==
    {s \in DOMAIN skills :
        /\ sources # {}
        /\ skills[s].sources = sources
        /\ skills[s].status \in Live}

\* Mutant: a skill is promoted whatever its status is.
record_successPromotes(skill, task, fingerprint) ==
    LET more == [skill EXCEPT
                   !.successes = @ + 1,
                   !.tasks = @ \cup {task},
                   !.repositories = @ \cup {fingerprint}]
    IN  IF /\ more.successes >= MinSuccesses
           /\ Cardinality(more.tasks) >= MinTasks
           /\ Cardinality(more.repositories) >= MinRepositories
        THEN [more EXCEPT !.status = "active"]
        ELSE more

\* record_success, for a task that the skill does not count yet: a validated
\* skill with enough of them is promoted.
record_success(skill, task, fingerprint) ==
    LET more == [skill EXCEPT
                   !.successes = @ + 1,
                   !.tasks = @ \cup {task},
                   !.repositories = @ \cup {fingerprint}]
    IN  IF /\ more.status = "validated"
           /\ more.successes >= MinSuccesses
           /\ Cardinality(more.tasks) >= MinTasks
           /\ Cardinality(more.repositories) >= MinRepositories
        THEN [more EXCEPT !.status = "active"]
        ELSE more

\* record_harmful_use: counts the harm a second time (the first is the use)
\* and retires an active skill, not a validated one.
record_harmful_use(skill) ==
    [skill EXCEPT
        !.count["harmful"] = @ + 1,
        !.failures = @ + 1,
        !.status = IF @ = "active" THEN "deprecated" ELSE @]

\* _apply_usage
ApplyUsage(record, type) ==
    IF type \in Counted THEN [record EXCEPT !.count[type] = @ + 1] ELSE record

(***************************************************************************)
(* Retrieval                                                               *)
(***************************************************************************)
\* _memory_allowed; task scope is not looked at.
MemoryAllowed(memory, project, fingerprint) ==
    /\ memory.status = "active"
    /\ memory.scope = "project" => memory.home = project
    /\ memory.scope = "repository" => memory.home = fingerprint

\* The common part of both ways to retrieve a skill.
SkillAllowed(skill, fingerprint) ==
    /\ skill.status \in Live
    /\ skill.scope = "repository" => skill.fingerprint = fingerprint

\* MemoryRetriever.retrieve: scores and anti-conditions choose among the
\* allowed memories.
MemoriesRetrieved(memories, project, fingerprint) ==
    {S \in SUBSET {m \in DOMAIN memories :
                      MemoryAllowed(memories[m], project, fingerprint)} :
        Cardinality(S) <= MaxRetrieved}

\* SkillRetriever.retrieve_with_audit: those derived from a selected memory come
\* first and need no score, but anti-conditions exclude them like the others.
SkillsRetrieved(skills, fingerprint) ==
    {S \in SUBSET {s \in DOMAIN skills : SkillAllowed(skills[s], fingerprint)} :
        Cardinality(S) <= MaxRetrieved}

\* KnowledgeArbitrator: a memory whose skill is shown is not shown itself.
Shadowed(skills, selectedSkills) ==
    UNION {skills[s].sources : s \in selectedSkills}
=============================================================================
