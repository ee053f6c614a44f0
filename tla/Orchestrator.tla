---------------------------- MODULE Orchestrator ----------------------------
(***************************************************************************)
(* ProjectOrchestrator (orchestration/orchestrator.py): one process that   *)
(* starts or resumes a project, runs agent sessions on its tasks one after *)
(* the other, verifies what they claim and returns; and the files it       *)
(* leaves behind, from which the next process continues.                   *)
(*                                                                         *)
(* mem is the ProjectState object of the running process, disk the last    *)
(* project_state.json, logged the sessions present in sessions.jsonl.  The *)
(* process may die between any two steps; what is only in mem is then      *)
(* lost.  A step is a stretch of code with at most one write to disk.      *)
(*                                                                         *)
(* The agent, the planner models and the verification gateway are          *)
(* represented by every answer the code accepts from them, the clock by a  *)
(* choice at each place where the code compares it with the deadline.      *)
(***************************************************************************)
EXTENDS TaskState

CONSTANTS
    Configs,                \* planning configurations a process may start with
    Plans,                  \* initial plans the planner may submit
    ChildPlans,             \* decompositions the models may submit
    Verdicts,               \* verdicts the gateway may reach
    MaxReopens,             \* verification.policy.max_task_reopens
    MaxProjectAttempts,     \* ....max_project_verification_attempts
    RequireProjectContract, \* ....require_project_contract
    FinalCommand,           \* is planning.execution.final_verification_command set?
    FreezeRepeats           \* does the configured contract name its own frozen_at?

Mode == {"static", "adaptive", "adaptive_search"}

\* The part of PlanningConfig that the orchestrator reads.
Config ==
    [mode            : Mode,
     maxSessions     : Nat,  \* execution.max_project_sessions
     maxTaskSessions : Nat,  \* execution.max_sessions_per_task
     maxNoProgress   : Nat,  \* execution.max_no_progress_sessions
     attempts        : Nat,  \* execution.attempts_before_decomposition
     maxDepth        : Nat,  \* decomposition.max_depth
     legacy          : BOOLEAN] \* is verification.mode "legacy_command"?

\* A plan lists, for each draft, the drafts it depends on; PlanValidator
\* rejects unknown drafts and dependency cycles.
Acyclic(p) ==
    \E rank \in [1..Len(p) -> 1..Len(p)] :
        \A i \in 1..Len(p) : \A j \in p[i] : rank[j] < rank[i]

Plan == {p \in Seq(SUBSET TaskId) :
            /\ Len(p) \in TaskId
            /\ \A i \in 1..Len(p) : p[i] \subseteq 1..Len(p)
            /\ Acyclic(p)}

Verdict ==
    {"verified", "partial", "reopened", "infrastructure_error", "inconclusive"}

ASSUME OrchestratorAssumption ==
    /\ Configs \subseteq Config
    /\ Plans \subseteq Plan
    /\ ChildPlans \subseteq Plan
    /\ Verdicts \subseteq Verdict
    /\ MaxReopens \in Nat
    /\ MaxProjectAttempts \in Nat \ {0}
    /\ RequireProjectContract \in BOOLEAN
    /\ FinalCommand \in BOOLEAN
    /\ FreezeRepeats \in BOOLEAN

VARIABLES
    pc,        \* where the process is; "down" when there is none
    cfg,       \* its planning configuration
    mem,       \* its ProjectState
    cur,       \* the task of the current iteration, None if none
    todo,      \* resume: FAILED tasks still to be decomposed
    attempted, \* project_verification_attempted of the current iteration
    failure,   \* the exception that ended the process, "none"
    disk,      \* project_state.json
    exists,    \* does project_state.json exist?
    logged,    \* session numbers in sessions.jsonl
    contract   \* the contract files of the verification store

local  == <<cfg, cur, todo, attempted>>
stored == <<disk, exists, logged, contract>>
vars   == <<pc, failure, mem, local, stored>>

Location ==
    {"down", "start", "start_frozen", "resume", "resume_frozen", "reactivate",
     "forced", "run", "retry", "loop", "select", "dispatch", "session", "verify",
     "append", "save", "check", "post", "settle", "report", "report_last",
     "returned", "raised"}

Failure == {"none", "invalid_state", "contract_modified", "planner",
            "decomposition", "depth_limit", "unasked_at_depth_limit",
            "no_reachable_task"}

\* The contract files: one with the hash of its text ("frozen"), rewritten with
\* its hash left as it was ("edited") or computed again ("replaced"), or joined
\* by a later version whose hash is not ("shadowed") or is ("superseded") that
\* of its own text.
ContractFiles ==
    {"absent", "frozen", "edited", "replaced", "shadowed", "superseded"}

\* The file of the version the configuration names is what freeze wrote.
Untouched == {"frozen", "shadowed", "superseded"}

\* The version load_contract picks, the last one, has the hash of its own text:
\* verify_contract_hash compares it with nothing else.
Matching == {"frozen", "replaced", "superseded"}

-----------------------------------------------------------------------------
Goto(next) == pc' = next /\ failure' = "none"

\* An exception nobody catches: the process ends with what is on disk.
Raise(what) ==
    /\ pc' = "raised"
    /\ failure' = what
    /\ UNCHANGED <<mem, stored>>

\* A stretch of code that only changes the ProjectState object.
Compute(S, next) ==
    /\ mem' = S
    /\ Goto(next)
    /\ UNCHANGED stored

\* ProjectStateStore.save: a state that does not validate is refused before
\* anything is written.
Save(S, next) ==
    /\ mem' = S
    /\ UNCHANGED <<logged, contract>>
    /\ IF GraphValid(mem')
       THEN /\ disk' = mem'
            /\ exists' = TRUE
            /\ Goto(next)
       ELSE /\ pc' = "raised"
            /\ failure' = "invalid_state"
            /\ UNCHANGED <<disk, exists>>

SetProject(S, status) == [S EXCEPT !.status = status]

\* _mark_project_time_limit
MarkTimeLimit(next) == Save(SetProject(mem, "time_limit_reached"), next)

-----------------------------------------------------------------------------
\* Decomposition and recovery.

\* _no_progress_decomposition_required
NoProgressDecompositionRequired(S, t) ==
    /\ cfg.mode # "static"
    /\ S.tasks[t].depth < cfg.maxDepth
    /\ S.tasks[t].noprog >= cfg.maxNoProgress

\* The end of _trigger_decomposition.  The keys of the children are compared
\* with each other (PlanValidator) but not with those of existing tasks.
Decompositions(S, t) ==
    IF S.tasks[t].depth >= cfg.maxDepth THEN {}
    ELSE {[Transition(AddTasks(S, t, plan), t, "decomposed") EXCEPT
              !.duplicateKeys = @ \/ clash] :
              plan \in {p \in ChildPlans : Fits(S, p)}, clash \in BOOLEAN}

\* Mutant: guidance to retry leaves the blocker in place.
RecoveriesKeepBlocker(S, t, force) ==
    IF cfg.mode = "static" THEN {Transition(S, t, "blocked")}
    ELSE Decompositions(S, t) \cup
         (IF cfg.mode = "adaptive_search" /\ ~force
          THEN {Transition(S, t, "blocked"), Transition(S, t, "ready")}
          ELSE {})

\* The states _trigger_decomposition may return: in adaptive_search mode, and
\* unless forced, the recovery evaluator picks one of three kinds of remedy.
Recoveries(S, t, force) ==
    IF cfg.mode = "static" THEN {Transition(S, t, "blocked")}
    ELSE Decompositions(S, t) \cup
         (IF cfg.mode = "adaptive_search" /\ ~force
          THEN {Transition(S, t, "blocked"),
                Transition([S EXCEPT !.tasks[t].blocker = FALSE], t, "ready")}
          ELSE {})

\* _trigger_decomposition: the planning models may also fail after their
\* retries, and AsNeededDecomposer always does at the depth limit, whether the
\* agent asked for a decomposition or the orchestrator resorted to one.
TriggerDecomposition(S, t, force, asked, next) ==
    \/ \E R \in Recoveries(S, t, force) : Compute(R, next)
    \/ /\ cfg.mode # "static"
       /\ Raise(IF S.tasks[t].depth >= cfg.maxDepth /\ cfg.mode = "adaptive"
                THEN IF asked THEN "depth_limit" ELSE "unasked_at_depth_limit"
                ELSE "decomposition")

-----------------------------------------------------------------------------
\* Verification.

\* _reopen_task_after_verification
ReopenTaskAfterVerification(S, t) ==
    LET reopened == Transition([S EXCEPT !.tasks[t].reopens = @ + 1],
                               t, "reopened")
    IN  Transition(reopened, t, IF reopened.tasks[t].reopens > MaxReopens
                                THEN "blocked" ELSE "ready")

\* Of the verdict in verification_status, what is read back.
VerdictNote(v) ==
    IF v = "infrastructure_error" THEN "infrastructure_error" ELSE "other"

\* _verify_task_candidate applies to the task of a task-scoped contract, when
\* it claims completion or when the gateway could not run last time.
NeedsTaskVerification(S, t) ==
    /\ Scope = "task"
    /\ t = ContractTask
    /\ \/ S.tasks[t].status = "candidate_complete"
       \/ /\ S.tasks[t].status = "blocked"
          /\ S.tasks[t].vstat = "infrastructure_error"

\* Mutant: verification_status is only written when the task is not reopened.
VerifyTaskCandidateStale(S, t, v) ==
    LET pending == Transition(S, t, "verification_pending")
        noted   == [pending EXCEPT !.tasks[t].vstat = VerdictNote(v)]
    IN  CASE v = "verified" -> Transition(noted, t, "verified")
          [] v \in {"partial", "reopened"} ->
                ReopenTaskAfterVerification(pending, t)
          [] OTHER -> Transition(noted, t, "blocked")

\* Mutant: a task that is neither verified nor reopened takes the name of the
\* verdict for its status.
VerifyTaskCandidateByName(S, t, v) ==
    LET pending == [Transition(S, t, "verification_pending") EXCEPT
                       !.tasks[t].vstat = VerdictNote(v)]
    IN  IF v \in {"partial", "reopened"}
        THEN ReopenTaskAfterVerification(pending, t)
        ELSE Transition(pending, t, v)

VerifyTaskCandidate(S, t, v) ==
    LET pending == [Transition(S, t, "verification_pending") EXCEPT
                       !.tasks[t].vstat = VerdictNote(v)]
    IN  CASE v = "verified" -> Transition(pending, t, "verified")
          [] v \in {"partial", "reopened"} ->
                ReopenTaskAfterVerification(pending, t)
          [] OTHER -> Transition(pending, t, "blocked")

\* _mark_project_tasks_verified: each leaf candidate passes through
\* VERIFICATION_PENDING to VERIFIED.
MarkProjectTasksVerified(S) ==
    LET covered == Leaves(S) \cap WithStatus(S, {"candidate_complete"})
    IN  [S EXCEPT
           !.active = IF @ \in covered THEN None ELSE @,
           !.tasks  = [t \in TaskId |->
                         IF t \in covered
                         THEN [@[t] EXCEPT !.status = "verified",
                                           !.vstat = "other"]
                         ELSE @[t]]]

\* _reopen_relevant_project_task: the last complete leaf of state.tasks.
ReopenRelevantProjectTask(S) ==
    LET candidates == Leaves(S) \cap WithStatus(S, Complete)
        t == CHOOSE u \in candidates : \A w \in candidates : w <= u
    IN  IF candidates = {} THEN S
        ELSE ReopenTaskAfterVerification(
               Transition(SetStatus(S, {t}, "candidate_complete"),
                          t, "verification_pending"), t)

\* The verdict part of _finalize_contract_verification.
ApplyProjectVerdict(S, v) ==
    LET counted == [S EXCEPT !.pattempts = @ + 1]
    IN  CASE v = "verified" ->
               SetProject(MarkProjectTasksVerified(counted), "verified")
          [] v = "partial" ->
               SetProject(ReopenRelevantProjectTask(counted),
                          "partially_verified")
          [] v = "reopened" ->
               SetProject(ReopenRelevantProjectTask(counted), "active")
          [] v = "infrastructure_error" ->
               SetProject(counted, "verification_pending")
          [] OTHER -> SetProject(counted, "verification_inconclusive")

\* _finalize_contract_verification
FinalizeContractVerification(S, next) ==
    \/ /\ Scope # "project"
       /\ Save(SetProject(S, IF RequireProjectContract
                             THEN "verification_inconclusive"
                             ELSE "candidate_complete"), next)
    \/ /\ Scope = "project"
       /\ S.pattempts >= MaxProjectAttempts
       /\ Save(SetProject(S, "verification_inconclusive"), next)
    \/ /\ Scope = "project"
       /\ S.pattempts < MaxProjectAttempts
       /\ \E v \in Verdicts : Save(ApplyProjectVerdict(S, v), next)

FinalOutcomes == {"candidate_complete", "failed"}

\* _save_legacy_verification_report, after the final command: its contract
\* always gets a new frozen_at, so that save_contract refuses a second one.
SaveLegacyVerificationReport(S, next) ==
    \/ /\ contract = "absent"
       /\ contract' = "frozen"
       /\ mem' = S
       /\ Goto(IF next = "post" THEN "report" ELSE "report_last")
       /\ UNCHANGED <<disk, exists, logged>>
    \/ /\ contract # "absent"
       /\ Raise("contract_modified")

\* _finalize_candidate_complete: without a contract, the final command decides.
FinalizeCandidateComplete(S, next) ==
    \/ /\ Scope # "none"
       /\ FinalizeContractVerification(S, next)
    \/ /\ Scope = "none"
       /\ ~(FinalCommand /\ cfg.legacy)
       /\ \E status \in {s \in FinalOutcomes :
                            s = "failed" => FinalCommand} :
             Save(SetProject(S, status), next)
    \/ /\ Scope = "none"
       /\ FinalCommand /\ cfg.legacy
       /\ SaveLegacyVerificationReport(S, next)

-----------------------------------------------------------------------------
\* Commands: project start, project resume (and verify run, which resumes).
\* A process may run with another configuration than its predecessors.

Init ==
    /\ pc = "down" /\ failure = "none"
    /\ cfg \in Configs /\ cur = None /\ todo = {} /\ attempted = FALSE
    /\ mem = NewProject /\ disk = NewProject
    /\ exists = FALSE /\ logged = {} /\ contract = "absent"

\* start on a new project id
CreateProject ==
    /\ pc = "down" /\ ~exists
    /\ cfg' \in Configs
    /\ Save(NewProject, "start")
    /\ UNCHANGED <<cur, todo, attempted>>

\* start on an existing project id, or resume
LoadProject(command) ==
    /\ pc = "down" /\ exists
    /\ cfg' \in Configs
    /\ Compute(disk, command)
    /\ UNCHANGED <<cur, todo, attempted>>

\* The first disk write of _initialize_verification.  save_contract accepts an
\* existing file only if it equals what freeze makes of the contract of the
\* configuration, which includes frozen_at.
FreezeContract ==
    /\ pc \in {"start", "resume"}
    /\ Scope # "none" /\ ~mem.contractId
    /\ contract = "absent" \/ (contract \in Untouched /\ FreezeRepeats)
    /\ contract' = IF contract = "absent" THEN "frozen" ELSE contract
    /\ pc' = IF pc = "resume" THEN "resume_frozen" ELSE "start_frozen"
    /\ UNCHANGED <<failure, mem, local, disk, exists, logged>>

ContractModified ==
    /\ pc \in {"start", "resume"}
    /\ Scope # "none" /\ ~mem.contractId
    /\ contract # "absent"
    /\ contract \in Untouched => ~FreezeRepeats
    /\ Raise("contract_modified")
    /\ UNCHANGED local

AfterInitialization ==
    IF pc \in {"resume", "resume_frozen"} THEN "reactivate" ELSE "run"

\* The second write: the contract id, for a task contract only if the plan
\* already has its task.
RecordContract ==
    /\ pc \in {"start_frozen", "resume_frozen"}
    /\ Save([mem EXCEPT !.contractId = \/ Scope = "project"
                                       \/ ContractTask \in Tasks(mem)],
            AfterInitialization)
    /\ UNCHANGED local

\* A recorded contract with another hash than its own text: CONTRACT_INVALID.
ContractInvalid ==
    /\ pc \in {"start", "resume"}
    /\ mem.contractId /\ contract \notin Matching
    /\ Save(SetProject(mem, "verification_inconclusive"), "returned")
    /\ UNCHANGED local

\* Mutant: the hash of a recorded contract is not checked.
ContractReadyUnchecked ==
    /\ pc \in {"start", "resume"}
    /\ Scope = "none" \/ mem.contractId
    /\ Compute(mem, AfterInitialization)
    /\ UNCHANGED local

\* Nothing to initialise, or a recorded contract with a matching hash, be it of
\* another text than the one that was frozen.
ContractReady ==
    /\ pc \in {"start", "resume"}
    /\ Scope = "none" \/ (mem.contractId /\ contract \in Matching)
    /\ Compute(mem, AfterInitialization)
    /\ UNCHANGED local

\* Mutant: resume makes every unverified task ready again.
ReactivateFromScratch ==
    LET retry == WithStatus(mem, {"failed", "candidate_complete"}) \cap Leaves(mem)
    IN  /\ pc = "reactivate"
        /\ Compute([SetStatus(mem, retry, "ready") EXCEPT !.status = "active"],
                   "run")
        /\ todo' = {}
        /\ UNCHANGED <<cfg, cur, attempted>>

\* The rest of resume before the decompositions it forces.
Reactivate ==
    LET failed == WithStatus(mem, {"failed"})
        force  == {t \in failed : NoProgressDecompositionRequired(mem, t)}
        retry  == {t \in failed \ force :
                      mem.tasks[t].sessions < cfg.maxTaskSessions}
        S      == SetStatus(SetStatus(mem, force, "in_progress"),
                            retry, "ready")
    IN  /\ pc = "reactivate"
        /\ IF mem.status \in {"session_limit_reached", "time_limit_reached",
                              "failed"}
           THEN /\ Compute([S EXCEPT
                              !.status = "active",
                              !.active = IF force = {} THEN @
                                         ELSE CHOOSE t \in force :
                                                \A u \in force : u <= t],
                           IF force = {} THEN "run" ELSE "forced")
                /\ todo' = force
           ELSE /\ Compute(mem, "run")
                /\ todo' = {}
        /\ UNCHANGED <<cfg, cur, attempted>>

DecomposeFailedTask ==
    LET t == CHOOSE u \in todo : \A w \in todo : u <= w
    IN  /\ pc = "forced"
        /\ TriggerDecomposition(mem, t, TRUE, FALSE,
                                IF todo = {t} THEN "run" ELSE "forced")
        /\ todo' = todo \ {t}
        /\ UNCHANGED <<cfg, cur, attempted>>

-----------------------------------------------------------------------------
\* run_project up to its loop.

RunTimeLimit ==
    /\ pc \in {"run", "retry"}
    /\ MarkTimeLimit("returned")
    /\ UNCHANGED local

\* Afterwards no task is blocked and the project is not pending: what is left
\* of "run" does nothing before the next comparison with the deadline.
CreateInitialPlan ==
    /\ pc = "run" /\ mem.count = 0
    /\ \E plan \in Plans :
          Save([AddTasks(mem, None, plan) EXCEPT
                   !.contractId = @ \/ (/\ Scope = "task"
                                        /\ ContractTask \in 1..Len(plan))],
               "run")
    /\ UNCHANGED local

InitialPlanFails ==
    /\ pc = "run" /\ mem.count = 0
    /\ Raise("planner")
    /\ UNCHANGED local

FinalizePending ==
    /\ pc = "run" /\ mem.count > 0
    /\ Scope = "project" /\ mem.status = "verification_pending"
    /\ FinalizeContractVerification(mem, "returned")
    /\ UNCHANGED local

\* Only the task of a task contract can have failed for lack of
\* infrastructure.  Nothing is saved here.
RetryInfrastructure ==
    /\ pc = "run" /\ mem.count > 0
    /\ ~(Scope = "project" /\ mem.status = "verification_pending")
    /\ LET unavailable == {t \in WithStatus(mem, {"blocked"}) :
                              NeedsTaskVerification(mem, t)}
       IN  IF unavailable = {} THEN Compute(mem, "retry")
           ELSE \E t \in unavailable, v \in Verdicts :
                   Compute(VerifyTaskCandidate(mem, t, v), "retry")
    /\ UNCHANGED local

EnterLoop ==
    /\ pc = "retry"
    /\ Compute(mem, "loop")
    /\ UNCHANGED local

-----------------------------------------------------------------------------
\* The loop of run_project: one session per iteration.

LoopTimeLimit ==
    /\ pc = "loop" /\ mem.sessions < cfg.maxSessions
    /\ MarkTimeLimit("post")
    /\ UNCHANGED local

AggregateParents ==
    /\ pc = "loop" /\ mem.sessions < cfg.maxSessions
    /\ Compute(Aggregate(mem), "select")
    /\ UNCHANGED local

SelectTask ==
    /\ pc = "select" /\ ~SelectRaises(mem)
    /\ Save(SelectNext(mem), "dispatch")
    /\ cur' = NextTask(mem)
    /\ attempted' = FALSE
    /\ UNCHANGED <<cfg, todo>>

\* Mutant: wait for a task instead of raising.
NoReachableTaskWaits ==
    /\ pc = "select" /\ SelectRaises(mem)
    /\ Compute(mem, "loop")
    /\ UNCHANGED local

NoReachableTask ==
    /\ pc = "select" /\ SelectRaises(mem)
    /\ Raise("no_reachable_task")
    /\ UNCHANGED local

SessionBudgetSpent ==
    /\ pc = "loop" /\ mem.sessions >= cfg.maxSessions
    /\ Compute(mem, "post")
    /\ UNCHANGED local

\* Mutant: complete leaves are taken for a verified project.
NothingToRunTrusting ==
    /\ pc = "dispatch" /\ cur = None
    /\ Save(mem, "post")
    /\ UNCHANGED local

NothingToRun ==
    /\ pc = "dispatch" /\ cur = None
    /\ \/ /\ mem.status = "candidate_complete"
          /\ FinalizeCandidateComplete(SetProject(mem, "active"), "post")
       \/ mem.status = "blocked" /\ Save(mem, "post")
       \/ /\ mem.status \notin {"candidate_complete", "blocked"}
          /\ Compute(mem, "post")
    /\ UNCHANGED local

TaskSessionLimit ==
    /\ pc = "dispatch" /\ cur # None
    /\ mem.tasks[cur].sessions >= cfg.maxTaskSessions
    /\ Save(SetProject(Transition(mem, cur, "failed"), "failed"), "post")
    /\ UNCHANGED local

\* Mutant: the transition to IN_PROGRESS does not look at the status.
StartSessionAnyway ==
    /\ pc = "dispatch" /\ cur # None
    /\ mem.tasks[cur].sessions < cfg.maxTaskSessions
    /\ Compute([Transition(mem, cur, "in_progress") EXCEPT
                  !.sessions = @ + 1, !.tasks[cur].sessions = @ + 1],
               "session")
    /\ UNCHANGED local

StartSession ==
    LET S == IF mem.tasks[cur].status = "ready"
             THEN Transition(mem, cur, "in_progress") ELSE mem
    IN  /\ pc = "dispatch" /\ cur # None
        /\ mem.tasks[cur].sessions < cfg.maxTaskSessions
        /\ Compute([S EXCEPT !.sessions = @ + 1,
                             !.tasks[cur].sessions = @ + 1], "session")
        /\ UNCHANGED local

-----------------------------------------------------------------------------
\* The session ends and _process_control_signals acts on its terminal signal.

\* Only a session without a terminal signal can count as one without progress.
NoteProgress(S, t, noProgress) ==
    [S EXCEPT !.tasks[t].noprog = IF noProgress THEN @ + 1 ELSE 0]

\* Mutant: the claim is saved before it is verified.
RequestCompletionSaved ==
    /\ pc = "session"
    /\ Save(Transition(NoteProgress(mem, cur, FALSE), cur, "candidate_complete"), "verify")
    /\ UNCHANGED local

RequestCompletion ==
    /\ pc = "session"
    /\ Compute(Transition(NoteProgress(mem, cur, FALSE), cur,
                          "candidate_complete"), "verify")
    /\ UNCHANGED local

ReportBlocker(decompositionRecommended) ==
    LET S == [NoteProgress(mem, cur, FALSE) EXCEPT !.tasks[cur].blocker = TRUE]
    IN  /\ pc = "session"
        /\ IF decompositionRecommended /\ cfg.mode # "static"
           THEN TriggerDecomposition(S, cur, FALSE, TRUE, "verify")
           ELSE Compute(Transition(S, cur, "blocked"), "verify")
        /\ UNCHANGED local

RequestDecomposition ==
    LET S == NoteProgress(mem, cur, FALSE)
    IN  /\ pc = "session"
        /\ IF cfg.mode # "static"
           THEN TriggerDecomposition(S, cur, FALSE, TRUE, "verify")
           ELSE Compute(Transition(S, cur, "blocked"), "verify")
        /\ UNCHANGED local

\* No terminal signal, but evidence of completion: _internal_complete_task.
\* A session whose only evidence is an acceptance command still counts as one
\* without progress.
CompleteOnEvidence(noProgress) ==
    /\ pc = "session"
    /\ ~mem.tasks[cur].blocker
    /\ Compute(Transition(NoteProgress(mem, cur, noProgress), cur,
                          "candidate_complete"), "verify")
    /\ UNCHANGED local

EndWithoutSignal(noProgress) ==
    LET S == NoteProgress(mem, cur, noProgress)
    IN  /\ pc = "session"
        /\ IF NoProgressDecompositionRequired(S, cur)
           THEN TriggerDecomposition(S, cur, TRUE, FALSE, "verify")
           ELSE IF cfg.mode # "static" /\ S.tasks[cur].sessions >= cfg.attempts
                THEN TriggerDecomposition(S, cur, FALSE, FALSE, "verify")
                ELSE Compute(S, "verify")
        /\ UNCHANGED local

-----------------------------------------------------------------------------
\* The rest of an iteration.

\* Mutant: the verdict on a task is saved at once, as a project's is.
VerifyTaskSaves ==
    /\ pc = "verify" /\ NeedsTaskVerification(mem, cur)
    /\ \E v \in Verdicts : Save(VerifyTaskCandidate(mem, cur, v), "append")
    /\ UNCHANGED local

VerifyTask ==
    /\ pc = "verify" /\ NeedsTaskVerification(mem, cur)
    /\ \E v \in Verdicts : Compute(VerifyTaskCandidate(mem, cur, v), "append")
    /\ UNCHANGED local

\* Saves the state before the record of the session is appended.
VerifyProject ==
    /\ pc = "verify" /\ Scope = "project" /\ AllLeavesComplete(mem)
    /\ FinalizeContractVerification(mem, "append")
    /\ attempted' = TRUE
    /\ UNCHANGED <<cfg, cur, todo>>

NothingToVerify ==
    /\ pc = "verify"
    /\ ~NeedsTaskVerification(mem, cur)
    /\ ~(Scope = "project" /\ AllLeavesComplete(mem))
    /\ Compute(mem, "append")
    /\ UNCHANGED local

AppendSession ==
    /\ pc = "append"
    /\ logged' = logged \cup {mem.sessions}
    /\ Goto("save")
    /\ UNCHANGED <<mem, local, disk, exists, contract>>

SaveAfterSession ==
    /\ pc = "save"
    /\ Save(mem, "check")
    /\ UNCHANGED local

StopsAfterSession ==
    attempted \/ mem.status \in {"candidate_complete", "blocked", "failed"}

NextIteration ==
    /\ pc = "check"
    /\ Compute(mem, IF StopsAfterSession THEN "post" ELSE "loop")
    /\ UNCHANGED local

TimeLimitAfterSession ==
    /\ pc = "check" /\ ~StopsAfterSession
    /\ MarkTimeLimit("post")
    /\ UNCHANGED local

\* After the loop: aggregate once more and settle the project.
AggregateOnceMore ==
    /\ pc = "post"
    /\ Compute(Aggregate(mem), "settle")
    /\ UNCHANGED local

\* Mutant: the last iteration is trusted to have settled the project.
SettleCompleteUnsettled ==
    /\ pc = "settle"
    /\ mem.status = "active" /\ AllLeavesComplete(mem)
    /\ Compute(mem, "returned")
    /\ UNCHANGED local

SettleComplete ==
    /\ pc = "settle"
    /\ mem.status = "active" /\ AllLeavesComplete(mem)
    /\ FinalizeCandidateComplete(mem, "returned")
    /\ UNCHANGED local

SettleSessionLimit ==
    /\ pc = "settle"
    /\ mem.status = "active" /\ ~AllLeavesComplete(mem)
    /\ mem.sessions >= cfg.maxSessions
    /\ Save(SetProject(mem, "session_limit_reached"), "returned")
    /\ UNCHANGED local

\* The end of a final verification in legacy mode, its contract saved.
ReportFinalVerification ==
    /\ pc \in {"report", "report_last"}
    /\ \E status \in FinalOutcomes :
          Save(SetProject(mem, status),
               IF pc = "report" THEN "post" ELSE "returned")
    /\ UNCHANGED local

\* Nothing is saved here.
SettleUnchanged ==
    /\ pc = "settle"
    /\ \/ mem.status # "active"
       \/ ~AllLeavesComplete(mem) /\ mem.sessions < cfg.maxSessions
    /\ Compute(mem, "returned")
    /\ UNCHANGED local

-----------------------------------------------------------------------------
Stop ==
    /\ pc' = "down" /\ failure' = "none"
    /\ mem' = NewProject
    /\ cur' = None /\ todo' = {} /\ attempted' = FALSE
    /\ UNCHANGED <<cfg, stored>>

Exit == pc \in {"returned", "raised"} /\ Stop

Crash == pc \notin {"down", "returned", "raised"} /\ Stop

\* Someone rewrites the frozen contract of the verification store or adds a
\* version to it.
EditContract ==
    /\ pc = "down" /\ Scope # "none" /\ contract = "frozen"
    /\ contract' \in ContractFiles \ {"absent", "frozen"}
    /\ UNCHANGED <<pc, failure, mem, local, disk, exists, logged>>

Command == CreateProject \/ LoadProject("start") \/ LoadProject("resume")

Startup ==
    \/ FreezeContract \/ ContractModified \/ RecordContract
    \/ ContractInvalid \/ ContractReady
    \/ Reactivate \/ DecomposeFailedTask
    \/ RunTimeLimit \/ CreateInitialPlan \/ InitialPlanFails
    \/ FinalizePending \/ RetryInfrastructure \/ EnterLoop

EndSession ==
    \/ RequestCompletion \/ RequestDecomposition
    \/ \E flag \in BOOLEAN : \/ ReportBlocker(flag)
                             \/ CompleteOnEvidence(flag)
                             \/ EndWithoutSignal(flag)

Iteration ==
    \/ LoopTimeLimit \/ AggregateParents \/ SelectTask \/ NoReachableTask
    \/ SessionBudgetSpent
    \/ NothingToRun \/ TaskSessionLimit \/ StartSession
    \/ EndSession
    \/ VerifyTask \/ VerifyProject \/ NothingToVerify
    \/ AppendSession \/ SaveAfterSession
    \/ NextIteration \/ TimeLimitAfterSession
    \/ AggregateOnceMore
    \/ SettleComplete \/ SettleSessionLimit \/ SettleUnchanged
    \/ ReportFinalVerification

\* What the process does by itself.
Run == Startup \/ Iteration \/ Exit

Next == Command \/ Run \/ Crash \/ EditContract

Spec == Init /\ [][Next]_vars

\* A process that runs is scheduled; nobody has to start one.
FairSpec == Spec /\ WF_vars(Run)

-----------------------------------------------------------------------------
\* Properties.

\* Every variable keeps its type, whatever the agent and the models answer.
TypeOK ==
    /\ pc \in Location
    /\ failure \in Failure
    /\ cfg \in Configs
    /\ mem \in ProjectState
    /\ cur \in 0..MaxTasks
    /\ todo \in SUBSET TaskId
    /\ attempted \in BOOLEAN
    /\ disk \in ProjectState
    /\ exists \in BOOLEAN
    /\ logged \in SUBSET Nat
    /\ contract \in ContractFiles

\* No handler ever asks StateTransitionController for an illegal transition:
\* the ValueError of transitions.py never ends a run.
NeverIllegal == ~mem.illegal

\* The state a session leaves is accepted by ProjectStateStore.save, so that its
\* outcome is not lost: the one exception is a decomposition that reused the
\* key of an existing task.
SessionStateSaved ==
    pc \in {"session", "verify", "append", "save", "check"} =>
        mem.duplicateKeys \/ GraphValid(mem)

\* The scheduler works only on tasks whose dependencies are satisfied, also
\* after verification reopened a task, a restart or a change of configuration.
WorkHasDependencies ==
    \A t \in WithStatus(mem, {"ready", "in_progress"}) : DepsSatisfied(mem, t)

\* Only leaves are worked on, fail or get blocked: a task with children waits
\* for them, and a DECOMPOSED task has children to wait for.  When a task is
\* chosen, a parent counts as complete only if its children are, but for those
\* that verification reopened afterwards (aggregation.py calls all of them
\* complete in the parent's summary, and select_next releases its dependents).
ParentsFollowChildren ==
    \A t \in Tasks(mem) :
        IF Children(mem, t) = {}
        THEN mem.tasks[t].status # "decomposed"
        ELSE /\ mem.tasks[t].status \in {"decomposed"} \cup Complete
             /\ pc = "dispatch" /\ mem.tasks[t].status \in Complete =>
                   \A c \in Children(mem, t) :
                       mem.tasks[c].status \in Complete \/ mem.tasks[c].reopens > 0

\* A run that reports success (exit code 0 of the command line) under a
\* required verification contract has every leaf VERIFIED by the gateway.
SuccessIsVerified ==
    /\ pc = "returned"
    /\ Scope # "none" /\ RequireProjectContract
    /\ mem.status \in {"candidate_complete", "verified"}
    => Leaves(mem) \subseteq WithStatus(mem, {"verified"})

\* A run that returns an ACTIVE project leaves something to do: a project whose
\* leaves are all complete has been settled.
ActiveMeansWork ==
    pc = "returned" /\ mem.status = "active" => ~AllLeavesComplete(mem)

\* What a user would miss of a project.
Progress(S) ==
    [sessions |-> S.sessions, verifications |-> S.pattempts,
     tasks |-> Tasks(S), done |-> WithStatus(S, Complete),
     reopens |-> [t \in TaskId |-> S.tasks[t].reopens]]

\* Between the end of a session and the verification of its task, the claim of
\* the agent may be taken back before it was ever saved: the process does not
\* rely on it.
Claimed == pc = "verify" /\ mem.tasks[cur].status = "candidate_complete"

Undone == [mem EXCEPT !.tasks[cur].status = "in_progress"]

Sure == IF Claimed THEN Undone ELSE mem

\* A project is one of DurableProject: whichever processes die, the next one has
\* all that was saved, nothing that is known is lost while a process runs, and
\* what is saved is no more than the process may rely on.
Durable == INSTANCE DurableProject
           WITH Task <- TaskId, running <- pc # "down", known <- Progress(Sure),
                saved <- Progress(disk)

ProgressIsDurable == Durable!Spec

\* The scheduler finds nothing to release only if some task FAILED: acyclic
\* plans and decompositions cannot block themselves.
NoDependencyDeadlock ==
    failure = "no_reachable_task" => WithStatus(mem, {"failed"}) # {}

\* A task whose agent reported a blocker is not worked on before the blocker is
\* cleared (its sessions could never be completed on evidence).
BlockerIsResolved ==
    \A t \in WithStatus(mem, {"ready", "in_progress"}) : ~mem.tasks[t].blocker

\* A task verification reopened once too often stays BLOCKED, also through the
\* retries of verifications that lacked infrastructure.
ReopenBudget ==
    \A t \in Tasks(mem) :
        /\ mem.tasks[t].reopens <= MaxReopens + 1
        /\ mem.tasks[t].reopens > MaxReopens => mem.tasks[t].status = "blocked"

\* sessions.jsonl has every session the saved state counts, and at most the one
\* that was being recorded beyond them.
SessionLogComplete ==
    /\ 1..disk.sessions \subseteq logged
    /\ logged \subseteq 1..(disk.sessions + 1)

\* No session runs and no verdict is applied on a contract that was rewritten
\* and kept its old hash, nor, before the project recorded its contract, on one
\* that was replaced.  A replaced or added version of a recorded contract is
\* used: verify_contract_hash compares a file with itself.
EditedContractNeverUsed ==
    pc \notin {"down", "start", "resume", "returned", "raised"} =>
        /\ contract # "edited"
        /\ contract = "replaced" => mem.contractId

\* Every run ends: the session budget bounds the loop.
RunsReturn == pc # "down" ~> pc = "down"

-----------------------------------------------------------------------------
\* What the repository says of the program and the program does not do.

\* A session without a signal does not force a decomposition at the depth limit
\* (_no_progress_decomposition_required and its test): no run ends because the
\* orchestrator, unasked by the agent, attempted one there.
NoDecompositionAtDepthLimit == failure # "unasked_at_depth_limit"

\* A completion claim passes through the verification gateway: when a run
\* returns, the task the frozen contract names is not left as a candidate.
ClaimsAreVerified ==
    pc = "returned" /\ Scope = "task" /\ ContractTask \in Tasks(mem) =>
        mem.tasks[ContractTask].status # "candidate_complete"
=============================================================================
