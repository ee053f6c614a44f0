----------------------------- MODULE Knowledge ------------------------------
(***************************************************************************)
(* What sessions do to the knowledge store: retrieval before a session     *)
(* (_retrieve_knowledge_for_task of orchestration/orchestrator.py) and the *)
(* consolidation after it (_process_knowledge_after_session and            *)
(* knowledge/consolidator.py), by processes that follow one another, may   *)
(* die between any two writes and may have different settings, while       *)
(* somebody withdraws records from the command line (cli.py).              *)
(*                                                                         *)
(* Whatever the process changes, it reads a record, or scans them all, and *)
(* saves what it read in a later step; a withdrawal may come between.  One *)
(* scan is one step: nobody but the process itself does more than withdraw *)
(* records, so what a scan finds could be found at one moment of it.  The  *)
(* change that a command makes is one step, too; that the process saves a  *)
(* record between its load and its save (update_memory_status) is left out. *)
(***************************************************************************)
EXTENDS KnowledgeStore, SequencesExt

CONSTANTS
    Configs,     \* settings a process may have
    Outcomes,    \* bound: what a session may end with
    Drafts,      \* bound: reflections the model may submit
    Stores,      \* bound: what earlier sessions may have left
    SaveAll,     \* knowledge.episode.save_all_sessions
    SkillDrafts, \* bound: skills the model may submit
    MaxPacks,    \* bound on the sessions that end, saved or not
    MaxCrashes,  \* bound on the processes that die
    MaxWithdrawn \* bound on the records withdrawn from the command line

\* frozen is record_mutation_policy = "frozen_records"; needActive is
\* skill.require_active_helpful_source_for_candidate; contract says whether
\* verification.mode is "contract".
Config == [mode : {"raw_episode", "reflection", "verified_memory", "memory_skill"},
           frozen : BOOLEAN, needActive : BOOLEAN, strict : BOOLEAN,
           contract : BOOLEAN]

\* What a session leaves: the report of the gateway, a complete task, own
\* verifications that passed or failed, changed files; stuck is a blocker or no
\* progress, cut an end by a limit or repeated actions, mute a provider error
\* or a reset without a sign of failure, which do not trigger a reflection.
Outcome == [report : {"none", "verified", "failed", "infrastructure", "invalid"},
            complete : BOOLEAN, passed : BOOLEAN, failed : BOOLEAN,
            changed : BOOLEAN, stuck : BOOLEAN, cut : BOOLEAN, mute : BOOLEAN]

ASSUME KnowledgeAssumption ==
    /\ Configs \subseteq Config /\ Outcomes \subseteq Outcome
    /\ Drafts \subseteq Draft /\ SaveAll \in BOOLEAN
    /\ SkillDrafts \subseteq [sources : (SUBSET (0..MaxMemories)) \ {{}}, scope : MemoryScope]
    /\ {MaxPacks, MaxCrashes, MaxWithdrawn} \subseteq Nat

(***************************************************************************)
(* What is demanded of a store: see the properties                         *)
(***************************************************************************)
Typed(ms, ss, episode) ==
    /\ ms \in Seq(MemoryRecord(episode)) /\ Len(ms) <= MaxMemories
    /\ ss \in Seq(SkillRecord) /\ Len(ss) <= MaxSkills

Earned(ss, by) ==
    \A s \in DOMAIN ss :
        /\ ss[s].tasks \subseteq by[s]
        /\ ss[s].status = "active" => Cardinality(by[s]) >= MinTasks

Traceable(ms, ss, saved) ==
    /\ SaveAll => \A m \in DOMAIN ms : ms[m].episodes \subseteq saved
    /\ \A s \in DOMAIN ss :
          ss[s].scope = "portable" => ss[s].sources \subseteq DOMAIN ms

Agree(ms, ss) ==
    /\ \A m, n \in Active(ms) :
          m # n => ms[m].lesson # ms[n].lesson /\ ~Contradicts(ms[m].lesson, ms[n].lesson)
    /\ \A s, t \in DOMAIN ss :
          (s # t /\ {ss[s].status, ss[t].status} \subseteq Live)
             => ss[s].sources # ss[t].sources

Existing(ms, ss) == {Memory(m) : m \in DOMAIN ms} \cup {Skill(s) : s \in DOMAIN ss}

\* The counters that change only with a row in the log of uses.  Harm to a skill
\* is no such counter: record_harmful_use adds one without a row, once more when
\* the session is repeated.
Counters(ms, ss) ==
    {c \in Existing(ms, ss) \X Counted : c[1].kind = "skill" => c[2] # "harmful"}

Tally(ms, ss, item, type) ==
    IF item.kind = "memory" THEN ms[item.id].count[type] ELSE ss[item.id].count[type]

Rows(log, item, type) == {u \in log : u.item = item /\ u.type = type}

Matched(ms, ss, log) ==
    \A c \in Counters(ms, ss) :
        Tally(ms, ss, c[1], c[2]) = Cardinality(Rows(log, c[1], c[2]))

\* Sessions found the store empty or as sessions that do not crash leave it.
ASSUME StoresAssumption ==
    \A store \in Stores :
        /\ Typed(store.memories, store.skills, 1..store.packs)
        /\ IsFiniteSet(store.uses)
        /\ \A u \in store.uses :
              /\ u.item \in Existing(store.memories, store.skills)
              /\ u.task \in Tasks /\ u.type \in UseType
        /\ Matched(store.memories, store.skills, store.uses)
        /\ store.packs \in 0..MaxPacks
        /\ store.episodes \subseteq 1..store.packs
        /\ store.sessions \in [Projects -> 0..store.packs]
        /\ store.earned \in [1..MaxSkills -> SUBSET Tasks]
        /\ Earned(store.skills, store.earned)
        /\ Traceable(store.memories, store.skills, store.episodes)
        /\ Agree(store.memories, store.skills)

VARIABLES
    memories, skills,  \* the records, by position
    uses,              \* rows of uses.jsonl that a session left
    episodes,          \* saved episodes
    sessions,          \* saved session_count of each project
    tree,              \* fingerprint of each project's workspace
    pc, cfg,           \* where the process is, its settings
    task,              \* the task of the session
    exposed,           \* items of the bundle shown to the agent
    referenced,        \* items the agent reported
    outcome, packs,    \* outcome of the session; evidence packs built so far
    todo,              \* uses and verdicts still to record
    copy,              \* <<item, record>> read and to be written back, or <<>>
    made,              \* <<record>> made and not saved, or <<>>
    sources,           \* helpful active memories, read before the skill model
    refused,           \* knowledge_mutation_violation was logged
    crashes,
    telemetry, withdrawn, earned, activeThen  \* history: see the properties

disk == <<memories, skills, uses, episodes, sessions>>
session == <<task, exposed, referenced, outcome>>
work == <<todo, copy, made, sources, activeThen>>
history == <<telemetry, withdrawn, earned>>
vars == <<disk, tree, pc, cfg, session, packs, work, refused, crashes, history>>

Episode == 1..packs
SessionOf(t) == <<ProjectOf[t], sessions[ProjectOf[t]] + 1>>

\* KnowledgeUseRecord: the key under which a use is looked up.
Use(item, type) == [session |-> SessionOf(task), task |-> task, item |-> item, type |-> type]

(***************************************************************************)
(* The outcome of a session, as build_experience_pack and the orchestrator *)
(* read it                                                                 *)
(***************************************************************************)
Passed(o) == o.passed \/ o.report = "verified"
Failed(o) == o.failed \/ o.report = "failed"

\* _knowledge_attribution
Attribution(o) ==
    CASE /\ IF o.report # "none" THEN o.report = "verified" ELSE o.complete
         /\ Passed(o) -> "helpful"
      [] o.changed /\ Failed(o) /\ ~Passed(o) -> "harmful"
      [] OTHER -> "neutral"

\* outcome.verified /\ outcome.verification_passed
FormallyVerified(o) ==
    IF o.report # "none" THEN o.report = "verified"
    ELSE ~cfg.contract /\ o.complete /\ o.passed

\* Mutant: the mutation policy is left to the store.
ShouldReflectFrozen(o) ==
    /\ cfg.mode # "raw_episode"
    /\ ~o.mute
    /\ o.stuck \/ o.cut \/ Failed(o)
    /\ o.report \notin {"infrastructure", "invalid"}

\* The end of _persist_episode_and_reflection's tests: should_reflect, and what
\* the consolidator adds to it.
ShouldReflect(o) ==
    /\ cfg.mode # "raw_episode"
    /\ ~o.mute
    /\ o.stuck \/ o.cut \/ Failed(o)
    /\ o.report \notin {"infrastructure", "invalid"}
    /\ ~cfg.frozen

SaveEpisode(o) == SaveAll \/ o.stuck \/ Failed(o)

Init ==
    /\ \E store \in Stores :
          /\ memories = store.memories /\ skills = store.skills
          /\ uses = store.uses /\ episodes = store.episodes
          /\ sessions = store.sessions
          /\ packs = store.packs /\ earned = store.earned
    /\ tree \in [Projects -> Fingerprints]
    /\ pc = "off" /\ cfg \in Configs
    /\ task = None /\ exposed = {} /\ referenced = {}
    /\ outcome = None
    /\ todo = <<>> /\ copy = <<>> /\ made = <<>> /\ sources = {} /\ activeThen = {}
    /\ refused = FALSE /\ crashes = 0
    /\ telemetry = {} /\ withdrawn = {}

(***************************************************************************)
(* Processes                                                               *)
(***************************************************************************)
Start ==
    /\ pc = "off"
    /\ pc' = "idle"
    /\ cfg' \in Configs
    /\ UNCHANGED <<disk, tree, session, packs, work, refused, crashes, history>>

\* What the process knew of its session is gone.
Forget ==
    /\ task' = None /\ exposed' = {} /\ referenced' = {} /\ outcome' = None
    /\ todo' = <<>> /\ copy' = <<>> /\ made' = <<>> /\ sources' = {} /\ activeThen' = {}

Lose == pc' = "off" /\ Forget

Exit ==
    /\ pc = "idle"
    /\ Lose
    /\ UNCHANGED <<disk, tree, cfg, packs, refused, crashes, history>>

Crash ==
    /\ pc \notin {"off", "idle"} /\ crashes < MaxCrashes
    /\ Lose
    /\ crashes' = crashes + 1
    /\ UNCHANGED <<disk, tree, cfg, packs, refused, history>>

\* An exception is logged and ends the consolidation; with strict_errors it ends
\* the process, and the session is not saved.
Raise ==
    IF cfg.strict THEN Lose
    ELSE /\ pc' = "save" /\ todo' = <<>> /\ copy' = <<>>
         /\ UNCHANGED <<session, made, sources, activeThen>>

\* _guard_record_mutation
Refuse ==
    /\ refused' = TRUE
    /\ Raise
    /\ UNCHANGED <<disk, tree, cfg, packs, crashes, history>>

(***************************************************************************)
(* Retrieval                                                               *)
(***************************************************************************)
\* Every item with every type, item by item.
Uses(items, types) ==
    LET n == Len(types)
    IN  [k \in 1..(n * Cardinality(items)) |->
            [item |-> SetToSeq(items)[((k - 1) \div n) + 1],
             type |-> types[((k - 1) % n) + 1]]]

\* Everything that is not shadowed counts as exposed, also what render_bundle
\* leaves out because it does not fit the token budget.
Retrieve(t) ==
    /\ pc = "idle"
    /\ packs < MaxPacks
    /\ \E M \in IF cfg.mode \in {"verified_memory", "memory_skill"}
                THEN MemoriesRetrieved(memories, ProjectOf[t], tree[ProjectOf[t]])
                ELSE {{}},
          S \in IF cfg.mode = "memory_skill"
                THEN SkillsRetrieved(skills, tree[ProjectOf[t]]) ELSE {{}} :
          LET shown == {Memory(m) : m \in M \ Shadowed(skills, S)}
                       \cup {Skill(s) : s \in S}
          IN  exposed' = shown /\ todo' = Uses(shown, <<"exposed">>)
    /\ task' = t /\ pc' = "expose"
    /\ UNCHANGED <<disk, tree, cfg, referenced, outcome, packs, copy, made, sources,
                   activeThen, refused, crashes, history>>

(***************************************************************************)
(* add_memory_usage and add_skill_usage                                    *)
(***************************************************************************)
Record(item) == IF item.kind = "memory" THEN memories[item.id] ELSE skills[item.id]

Load(item) == copy' = <<item, Record(item)>>

\* save_memory and save_skill of the record in hand: whatever happened to it
\* since it was read is overwritten.
WriteBack(record) ==
    /\ copy' = <<>>
    /\ IF copy[1].kind = "memory"
       THEN memories' = [memories EXCEPT ![copy[1].id] = record] /\ UNCHANGED skills
       ELSE skills' = [skills EXCEPT ![copy[1].id] = record] /\ UNCHANGED memories

Recording == pc \in {"expose", "attribute"} /\ todo # <<>>

\* Mutant: a use is recorded whether it is in the log or not.
LoadUseAgain ==
    /\ Recording /\ copy = <<>>
    /\ Load(Head(todo).item)
    /\ UNCHANGED <<disk, tree, pc, cfg, session, packs, todo, made, sources, activeThen,
                   refused, crashes, history>>

\* A use of this session that is in the log already is not recorded again.
LoadUse ==
    /\ Recording /\ copy = <<>>
    /\ IF Use(Head(todo).item, Head(todo).type) \in uses
       THEN todo' = Tail(todo) /\ UNCHANGED copy
       ELSE Load(Head(todo).item) /\ UNCHANGED todo
    /\ UNCHANGED <<disk, tree, pc, cfg, session, packs, made, sources, activeThen,
                   refused, crashes, history>>

\* The record that was loaded is written back, with the use counted.  A frozen
\* store writes the row only.
SaveUse ==
    /\ Recording /\ copy # <<>>
    /\ IF cfg.frozen THEN copy' = <<>> /\ UNCHANGED <<memories, skills>>
       ELSE WriteBack(ApplyUsage(copy[2], Head(todo).type))
    /\ pc' = IF pc = "expose" THEN "exposeRow" ELSE "attributeRow"
    /\ UNCHANGED <<uses, episodes, sessions, tree, cfg, session, packs, todo, made,
                   sources, activeThen, refused, crashes, history>>

AppendUse ==
    /\ pc \in {"exposeRow", "attributeRow"}
    /\ LET row == Use(Head(todo).item, Head(todo).type)
       IN  /\ uses' = uses \cup {row}
           /\ telemetry' = IF cfg.frozen THEN telemetry \cup {row} ELSE telemetry
    /\ pc' = IF pc = "exposeRow" THEN "expose" ELSE "attribute"
    /\ todo' = Tail(todo)
    /\ UNCHANGED <<memories, skills, episodes, sessions, tree, cfg, session, packs,
                   copy, made, sources, activeThen, refused, crashes, withdrawn, earned>>

\* The session: the agent reports only what it was shown
\* (KnowledgeUseChannel.record), and leaves an outcome and perhaps another set of
\* files.  A report exists only with a contract.
Work ==
    /\ pc = "expose" /\ todo = <<>>
    /\ \E R \in SUBSET exposed, o \in Outcomes :
          /\ o.report # "none" => cfg.contract
          /\ referenced' = R /\ outcome' = o
          /\ todo' = Uses(R, <<"referenced", Attribution(o)>>)
          /\ \E f \in IF o.changed THEN Fingerprints ELSE {tree[ProjectOf[task]]} :
                tree' = [tree EXCEPT ![ProjectOf[task]] = f]
          /\ earned' = IF Attribution(o) = "helpful"
                       THEN [s \in 1..MaxSkills |->
                                IF Skill(s) \in R THEN earned[s] \cup {task}
                                ELSE earned[s]]
                       ELSE earned
    /\ packs' = packs + 1
    /\ pc' = "attribute"
    /\ UNCHANGED <<disk, cfg, task, exposed, copy, made, sources, activeThen, refused,
                   crashes, telemetry, withdrawn>>

(***************************************************************************)
(* Consolidation                                                           *)
(***************************************************************************)
\* Mutant: what was shown counts, whether the agent used it or not.
BeginUtilityOfShown ==
    /\ pc = "attribute" /\ todo = <<>>
    /\ pc' = "utility"
    /\ todo' = IF cfg.frozen \/ Attribution(outcome) = "neutral" THEN <<>>
               ELSE Uses({i \in exposed : i.kind = "skill"},
                         <<Attribution(outcome)>>)
    /\ UNCHANGED <<disk, tree, cfg, session, packs, copy, made, sources, activeThen,
                   refused, crashes, history>>

\* "update_existing_utility": only a read_write store, and only a verdict that
\* was helpful or harmful, changes skills.
BeginUtility ==
    /\ pc = "attribute" /\ todo = <<>>
    /\ pc' = "utility"
    /\ todo' = IF cfg.frozen \/ Attribution(outcome) = "neutral" THEN <<>>
               ELSE Uses({i \in referenced : i.kind = "skill"},
                         <<Attribution(outcome)>>)
    /\ UNCHANGED <<disk, tree, cfg, session, packs, copy, made, sources, activeThen,
                   refused, crashes, history>>

\* record_success returns at once for a task that is counted already.
LoadUtility ==
    /\ pc = "utility" /\ todo # <<>> /\ copy = <<>>
    /\ IF Head(todo).type = "helpful" /\ task \in Record(Head(todo).item).tasks
       THEN todo' = Tail(todo) /\ UNCHANGED copy
       ELSE Load(Head(todo).item) /\ UNCHANGED todo
    /\ UNCHANGED <<disk, tree, pc, cfg, session, packs, made, sources, activeThen,
                   refused, crashes, history>>

SaveUtility ==
    /\ pc = "utility" /\ copy # <<>>
    /\ IF cfg.frozen THEN Refuse
       ELSE LET after == IF Head(todo).type = "helpful"
                         THEN record_success(copy[2], task, tree[ProjectOf[task]])
                         ELSE record_harmful_use(copy[2])
            IN  /\ WriteBack(after)
                /\ withdrawn' = IF after.status = "deprecated"
                                THEN withdrawn \cup {copy[1]} ELSE withdrawn
                /\ todo' = Tail(todo)
                /\ UNCHANGED <<uses, episodes, sessions, tree, pc, cfg, session, packs,
                               made, sources, activeThen, refused, crashes, telemetry,
                               earned>>

\* Mutant: the episode is saved only when no reflection follows.
PersistEpisodeLater ==
    /\ pc = "utility" /\ todo = <<>>
    /\ episodes' = IF SaveEpisode(outcome) /\ ~ShouldReflect(outcome)
                   THEN episodes \cup {packs} ELSE episodes
    /\ pc' = IF ShouldReflect(outcome) THEN "reflect" ELSE "derive"
    /\ UNCHANGED <<memories, skills, uses, sessions, tree, cfg, session, packs, work,
                   refused, crashes, history>>

\* "consolidate_reflection": the episode, and whether to ask for a reflection.
PersistEpisode ==
    /\ pc = "utility" /\ todo = <<>>
    /\ episodes' = IF SaveEpisode(outcome) THEN episodes \cup {packs} ELSE episodes
    /\ pc' = IF ShouldReflect(outcome) THEN "reflect" ELSE "derive"
    /\ UNCHANGED <<memories, skills, uses, sessions, tree, cfg, session, packs, work,
                   refused, crashes, history>>

\* ReflectionGenerator.generate returns None after its retries.
NoCandidate ==
    /\ pc = "reflect"
    /\ pc' = "derive"
    /\ UNCHANGED <<disk, tree, cfg, session, packs, work, refused, crashes, history>>

\* It retries malformed arguments only; another exception of the provider ends
\* the consolidation.
ReflectionFails ==
    /\ pc = "reflect"
    /\ Raise
    /\ UNCHANGED <<disk, tree, cfg, packs, refused, crashes, history>>

NewMemory(draft, status) ==
    [status |-> status, scope |-> FinalScope(draft), lesson |-> draft.lesson,
     home |-> Home(FinalScope(draft), ProjectOf[task], tree[ProjectOf[task]]),
     episodes |-> {packs}, count |-> Unused]

\* Mutant: the decision of the gate is stored as the status.
NewStatusVerbatim(decision) ==
    IF cfg.mode = "reflection" THEN "candidate" ELSE decision

\* The status a memory starts with.
NewStatus(decision) ==
    IF cfg.mode = "reflection" THEN "candidate"
    ELSE IF decision = "accepted" THEN "active" ELSE "quarantined"

\* persist_candidate: the gate scans the memories, the search for a duplicate
\* scans them again, and the record is saved after that.  A candidate is evaluated
\* only where there is room for a record.
EvaluateGate(draft) ==
    LET decision == Gate(memories, draft)
    IN  /\ pc = "reflect" /\ Len(memories) < MaxMemories
        /\ IF decision = "rejected" /\ cfg.mode # "reflection"
           THEN pc' = "derive" /\ UNCHANGED made
           ELSE pc' = "persist" /\ made' = <<NewMemory(draft, NewStatus(decision))>>
        /\ UNCHANGED <<disk, tree, cfg, session, packs, todo, copy, sources, activeThen,
                       refused, crashes, history>>

\* A candidate with the signature of an active memory is merged into it, whatever
\* the gate said short of a rejection.
FindDuplicate ==
    LET duplicates == find_duplicate_memory(memories, made[1].lesson)
    IN  /\ pc = "persist"
        /\ \/ duplicates = {} /\ pc' = "create" /\ UNCHANGED copy
           \/ pc' = "merge" /\ \E m \in duplicates : Load(Memory(m))
        /\ UNCHANGED <<disk, tree, cfg, session, packs, todo, made, sources, activeThen,
                       refused, crashes, history>>

SaveMerge ==
    /\ pc = "merge"
    /\ IF cfg.frozen THEN Refuse
       ELSE /\ WriteBack([copy[2] EXCEPT !.episodes = @ \cup made[1].episodes])
            /\ pc' = "derive" /\ made' = <<>>
            /\ UNCHANGED <<uses, episodes, sessions, tree, cfg, session, packs, todo,
                           sources, activeThen, refused, crashes, history>>

SaveNewMemory ==
    /\ pc = "create"
    /\ IF cfg.frozen THEN Refuse
       ELSE /\ memories' = memories \o made
            /\ pc' = "derive" /\ made' = <<>>
            /\ UNCHANGED <<skills, uses, episodes, sessions, tree, cfg, session, packs,
                           todo, copy, sources, activeThen, refused, crashes, history>>

\* The statuses of the sources are read here; then the skills are scanned
\* ("query_existing_derived_skill"), and the skill is made after the model
\* answered.
HelpfulSources ==
    {m \in DOMAIN memories :
        /\ Memory(m) \in referenced
        /\ Attribution(outcome) = "helpful"
        /\ memories[m].status = "active"}

ReadSources ==
    /\ pc = "derive"
    /\ sources' = HelpfulSources
    /\ pc' = "query"
    /\ UNCHANGED <<disk, tree, cfg, session, packs, todo, copy, made, activeThen, refused,
                   crashes, history>>

MayInduce ==
    /\ ~ (\E i \in referenced : i.kind = "skill" /\ Attribution(outcome) = "helpful")
    /\ find_skill_by_derivation(skills, sources) = {}
    /\ ~cfg.frozen
    /\ cfg.mode = "memory_skill"
    /\ FormallyVerified(outcome)
    /\ sources # {}

QueryDerivedSkill ==
    /\ pc = "query"
    /\ pc' = IF MayInduce THEN "induce" ELSE "save"
    /\ UNCHANGED <<disk, tree, cfg, session, packs, work, refused, crashes, history>>

\* SkillCandidateGenerator catches every exception and gives up in the end.
NoSkill ==
    /\ pc = "induce"
    /\ pc' = "save"
    /\ UNCHANGED <<disk, tree, cfg, session, packs, work, refused, crashes, history>>

NewSkill(draft) ==
    [status |-> "validated", scope |-> draft.scope,
     fingerprint |-> tree[ProjectOf[task]], sources |-> draft.sources,
     successes |-> 1, failures |-> 0, tasks |-> {task},
     repositories |-> {tree[ProjectOf[task]]}, count |-> Unused]

\* The draft may name other sources than those it was given, also unknown ones
\* (0); where active sources are required it must be portable.  Drafts that fail a
\* test of their text or evidence end like NoSkill.
AnswerSkill(draft) ==
    /\ pc = "induce" /\ Len(skills) < MaxSkills
    /\ cfg.needActive => draft.scope = "portable"
    /\ made' = <<NewSkill(draft)>>
    /\ activeThen' = Active(memories)
    /\ pc' = "sources"
    /\ UNCHANGED <<disk, tree, cfg, session, packs, todo, copy, sources, refused, crashes,
                   history>>

AllActive(ids) == ids \subseteq Active(memories)

\* _active_sources, or files that changed
CheckSources ==
    /\ pc = "sources"
    /\ pc' = IF (IF cfg.needActive THEN AllActive(sources) ELSE outcome.changed)
             THEN "validate" ELSE "save"
    /\ UNCHANGED <<disk, tree, cfg, session, packs, work, refused, crashes, history>>

\* Mutant: the sources that the draft names are not looked at.
ValidUnread(skill) == skill.scope = "portable" => skill.sources # {}

\* SkillValidator.validate
Valid(skill) == skill.scope = "portable" => AllActive(skill.sources)

ValidateSkill ==
    /\ pc = "validate"
    /\ pc' = IF Valid(made[1]) THEN "search" ELSE "save"
    /\ UNCHANGED <<disk, tree, cfg, session, packs, work, refused, crashes, history>>

\* _find_duplicate
FindDerivation ==
    LET duplicates == find_skill_by_derivation(skills, made[1].sources)
    IN  /\ pc = "search"
        /\ \/ duplicates = {} /\ pc' = "add" /\ UNCHANGED copy
           \/ pc' = "upsert" /\ \E s \in duplicates : Load(Skill(s))
        /\ UNCHANGED <<disk, tree, cfg, session, packs, todo, made, sources, activeThen,
                       refused, crashes, history>>

\* The session is added to the evidence of the skill, which is left out here.
SaveDerivation ==
    /\ pc = "upsert"
    /\ IF cfg.frozen THEN Refuse
       ELSE /\ WriteBack(copy[2])
            /\ pc' = "save"
            /\ UNCHANGED <<uses, episodes, sessions, tree, cfg, session, packs, todo,
                           made, sources, activeThen, refused, crashes, history>>

SaveNewSkill ==
    /\ pc = "add"
    /\ IF cfg.frozen THEN Refuse
       ELSE /\ skills' = skills \o made
            /\ earned' = [earned EXCEPT ![Len(skills) + 1] = {task}]
            /\ pc' = "save"
            /\ UNCHANGED <<memories, uses, episodes, sessions, tree, cfg, session, packs,
                           work, refused, crashes, telemetry, withdrawn>>

\* append_session and the save of the project state count the session.
SaveSession ==
    /\ pc = "save"
    /\ sessions' = [sessions EXCEPT ![ProjectOf[task]] = @ + 1]
    /\ pc' = "idle" /\ Forget
    /\ UNCHANGED <<memories, skills, uses, episodes, tree, cfg, packs, refused,
                   crashes, history>>

(***************************************************************************)
(* The command line                                                        *)
(***************************************************************************)
\* A process that has the record in its hands will write it back.
InHand(item) == copy # <<>> /\ ~cfg.frozen /\ copy[1] = item

Withdraw(item) ==
    /\ Cardinality(withdrawn) < MaxWithdrawn
    /\ withdrawn' = IF InHand(item) THEN withdrawn ELSE withdrawn \cup {item}
    /\ UNCHANGED <<uses, episodes, sessions, tree, pc, cfg, session, packs, work, refused,
                   crashes, telemetry, earned>>

Invalidate(m) ==
    /\ memories[m].status # "invalidated"
    /\ memories' = [memories EXCEPT ![m].status = "invalidated"]
    /\ UNCHANGED skills
    /\ Withdraw(Memory(m))

Deprecate(s) ==
    /\ skills[s].status # "deprecated"
    /\ skills' = [skills EXCEPT ![s].status = "deprecated"]
    /\ UNCHANGED memories
    /\ Withdraw(Skill(s))

Run ==
    \/ \E t \in Tasks : Retrieve(t)
    \/ LoadUse \/ SaveUse \/ AppendUse
    \/ Work
    \/ BeginUtility \/ LoadUtility \/ SaveUtility \/ PersistEpisode
    \/ NoCandidate \/ ReflectionFails \/ \E d \in Drafts : EvaluateGate(d)
    \/ FindDuplicate \/ SaveMerge \/ SaveNewMemory
    \/ ReadSources \/ QueryDerivedSkill \/ NoSkill
    \/ \E d \in SkillDrafts : AnswerSkill(d)
    \/ CheckSources \/ ValidateSkill \/ FindDerivation \/ SaveDerivation \/ SaveNewSkill
    \/ SaveSession

CommandLine ==
    \/ \E m \in DOMAIN memories : Invalidate(m)
    \/ \E s \in DOMAIN skills : Deprecate(s)

Next == Start \/ Exit \/ Crash \/ Run \/ CommandLine

Spec == Init /\ [][Next]_vars

(***************************************************************************)
(* Properties                                                              *)
(***************************************************************************)
\* Every variable has the values of the code's records and of the places of the
\* process.
TypeOK ==
    /\ Typed(memories, skills, Episode)
    /\ \A u \in uses \cup telemetry :
          u.item \in Item /\ u.task \in Tasks /\ u.type \in UseType
    /\ episodes \subseteq Episode
    /\ sessions \in [Projects -> 0..MaxPacks]
    /\ tree \in [Projects -> Fingerprints]
    /\ cfg \in Configs
    /\ pc \in {"off", "idle", "expose", "exposeRow", "attribute", "attributeRow",
               "utility", "reflect", "persist", "merge", "create", "derive", "query",
               "induce", "sources", "validate", "search", "upsert", "add", "save"}
    /\ task \in Tasks \cup {None} /\ outcome \in Outcomes \cup {None}
    /\ pc \notin {"off", "idle"} => task \in Tasks
    /\ referenced \subseteq exposed /\ exposed \subseteq Item
    /\ copy # <<>> => copy[1] \in Existing(memories, skills)
    /\ made # <<>> => made[1] \in MemoryRecord(Episode) \cup SkillRecord
    /\ sources \cup activeThen \subseteq DOMAIN memories
    /\ packs \in 0..MaxPacks /\ refused \in BOOLEAN /\ crashes \in 0..MaxCrashes

\* A skill is ACTIVE, and preferred to others, only after as many different tasks
\* as promotion asks for ended well with it, whatever sessions are repeated
\* after a crash (skill_lifecycle.py, record_success).
ActiveSkillIsEarned == Earned(skills, earned)

\* What was withdrawn, on the command line or for the harm it did, is never
\* offered again, whatever is merged into it, derived from it or counted, unless
\* it was withdrawn while a process had read the record and was to write it back:
\* for a use, a verdict, an episode (memory_lifecycle.py, persist_candidate) or a
\* derivation (skill_lifecycle.py, candidate_from_success).
WithdrawnStaysWithdrawn ==
    \A item \in withdrawn : Record(item).status \in {"invalidated", "deprecated"}

\* What the store knows can be traced: the episodes a memory cites are on disk,
\* and so are the memories a portable skill was derived from, although the
\* process may die between the writes.
ProvenanceIsSaved == Traceable(memories, skills, episodes)

\* No two memories that are offered have the same lesson or contradict each
\* other, and no derivation has two live skills, over all orders of
\* reflections, withdrawals and crashes.
KnowledgeAgrees == Agree(memories, skills)

\* By how much each counter is ahead of the log; rows of a process with frozen
\* records were not to be counted.
Unlogged ==
    [c \in Counters(memories, skills) |->
        Tally(memories, skills, c[1], c[2])
        - Cardinality(Rows(uses \ telemetry, c[1], c[2]))]

\* The uses that are counted and not in the log, numbered for each counter.
Numbered(counters) == UNION {{c} \X (1..counters[c]) : c \in DOMAIN counters}

Missing == Numbered(Unlogged)

\* The process is between the two writes of a use.
Between == pc \in {"exposeRow", "attributeRow"} /\ ~cfg.frozen

\* What a record counts of exposures, references, help, and, for a memory, harm
\* agrees with the log of uses, although a session that is repeated after a crash
\* reports its uses again: a use in the log is counted, and there is at most one
\* count without a row for each crash, which may come between the two writes
\* (store.py, add_memory_usage).  This says nothing of the harm that a skill
\* counts, see Counters.
CountsMatchUses ==
    /\ \A c \in DOMAIN Unlogged : Unlogged[c] >= 0
    /\ Cardinality(Missing) <= crashes + (IF Between THEN 1 ELSE 0)

\* A portable skill is made only of memories that were still active when the model
\* had answered, although they were chosen before it was asked
\* (SkillValidator.validate).  What is withdrawn later, while the skills are
\* scanned for the same derivation, is not noticed.
PortableFromActive ==
    [][\A s \in DOMAIN skills' \ DOMAIN skills :
          skills'[s].scope = "portable" => skills'[s].sources \subseteq activeThen]_vars

\* A process with frozen records reads them and logs uses, and does not even try
\* to change one: a refused attempt would cost the rest of the consolidation.
FrozenOnlyReads ==
    [][(cfg.frozen /\ pc # "off" /\ <<pc, todo, copy>>' # <<pc, todo, copy>>)
          => <<memories, skills>>' = <<memories, skills>> /\ ~refused']_vars
=============================================================================
