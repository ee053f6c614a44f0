------------------------- MODULE OrchestratorProofs -------------------------
(***************************************************************************)
(* Theorems of Orchestrator, for every plan, configuration and bound.      *)
(*                                                                         *)
(* TypeCorrect    every variable keeps its type;                           *)
(* ContractSafe   no work is done against an edited contract;              *)
(* LogIsComplete  sessions.jsonl and the saved state agree on the sessions *)
(*                that were run, when no contract covers the project.      *)
(*                                                                         *)
(* The first part shows that every handler turns a project state into a    *)
(* project state with the same session count; the theorems share it.       *)
(***************************************************************************)
EXTENDS Orchestrator, TaskStateProofs

-----------------------------------------------------------------------------
\* What the handlers do to the project state.

LEMMA SetProjectContinues ==
    ASSUME NEW S \in ProjectState, NEW status \in ProjectStatus
    PROVE  Continues(S, SetProject(S, status))
BY DEF SetProject, ProjectState, Continues

\* One field of one task changes.
LEMMA ReplaceTask ==
    ASSUME NEW S \in ProjectState, NEW t \in TaskId, NEW n \in TaskNode
    PROVE  Continues(S, [S EXCEPT !.tasks[t] = n])
<1> DEFINE f == [S.tasks EXCEPT ![t] = n]
<1>1. f \in [TaskId -> TaskNode]
  BY DEF ProjectState
<1>2. [S EXCEPT !.tasks[t] = n] = [S EXCEPT !.tasks = f]
  BY Zenon DEF ProjectState
<1> HIDE DEF f
<1> QED BY <1>1, <1>2, ReplaceTasks

LEMMA ReplaceField ==
    ASSUME NEW S \in ProjectState, NEW t \in TaskId
    PROVE  /\ \A b \in BOOLEAN : Continues(S, [S EXCEPT !.tasks[t].blocker = b])
           /\ \A v \in TaskVerdict : Continues(S, [S EXCEPT !.tasks[t].vstat = v])
           /\ \A n \in Nat : Continues(S, [S EXCEPT !.tasks[t].reopens = n])
           /\ \A n \in Nat : Continues(S, [S EXCEPT !.tasks[t].noprog = n])
<1>1. S.tasks[t] \in TaskNode
  BY DEF ProjectState
<1>2. ASSUME NEW b \in BOOLEAN
      PROVE  Continues(S, [S EXCEPT !.tasks[t].blocker = b])
  <2>1. [S.tasks[t] EXCEPT !.blocker = b] \in TaskNode
    BY <1>1 DEF TaskNode
  <2>2. [S EXCEPT !.tasks[t].blocker = b]
            = [S EXCEPT !.tasks[t] = [S.tasks[t] EXCEPT !.blocker = b]]
    BY Zenon
  <2> QED BY <2>1, <2>2, ReplaceTask
<1>3. ASSUME NEW v \in TaskVerdict
      PROVE  Continues(S, [S EXCEPT !.tasks[t].vstat = v])
  <2>1. [S.tasks[t] EXCEPT !.vstat = v] \in TaskNode
    BY <1>1 DEF TaskNode
  <2>2. [S EXCEPT !.tasks[t].vstat = v]
            = [S EXCEPT !.tasks[t] = [S.tasks[t] EXCEPT !.vstat = v]]
    BY Zenon
  <2> QED BY <2>1, <2>2, ReplaceTask
<1>4. ASSUME NEW n \in Nat
      PROVE  Continues(S, [S EXCEPT !.tasks[t].reopens = n])
  <2>1. [S.tasks[t] EXCEPT !.reopens = n] \in TaskNode
    BY <1>1 DEF TaskNode
  <2>2. [S EXCEPT !.tasks[t].reopens = n]
            = [S EXCEPT !.tasks[t] = [S.tasks[t] EXCEPT !.reopens = n]]
    BY Zenon
  <2> QED BY <2>1, <2>2, ReplaceTask
<1>5. ASSUME NEW n \in Nat
      PROVE  Continues(S, [S EXCEPT !.tasks[t].noprog = n])
  <2>1. [S.tasks[t] EXCEPT !.noprog = n] \in TaskNode
    BY <1>1 DEF TaskNode
  <2>2. [S EXCEPT !.tasks[t].noprog = n]
            = [S EXCEPT !.tasks[t] = [S.tasks[t] EXCEPT !.noprog = n]]
    BY Zenon
  <2> QED BY <2>1, <2>2, ReplaceTask
<1> QED BY <1>2, <1>3, <1>4, <1>5

LEMMA NoteProgressContinues ==
    ASSUME NEW S \in ProjectState, NEW t \in TaskId, NEW noProgress \in BOOLEAN
    PROVE  Continues(S, NoteProgress(S, t, noProgress))
<1> DEFINE n == IF noProgress THEN S.tasks[t].noprog + 1 ELSE 0
<1>1. n \in Nat
  <2>1. S.tasks[t].noprog \in Nat
    BY DEF ProjectState, TaskNode
  <2> QED BY <2>1
<1>2. NoteProgress(S, t, noProgress) = [S EXCEPT !.tasks[t].noprog = n]
  BY Zenon DEF NoteProgress
<1> HIDE DEF n
<1> QED BY <1>1, <1>2, ReplaceField

\* A decomposition adds tasks and supersedes their parent.
LEMMA DecompositionsContinue ==
    ASSUME NEW S \in ProjectState, NEW t \in TaskId,
           NEW R \in Decompositions(S, t)
    PROVE  Continues(S, R)
<1>1. PICK plan \in ChildPlans, clash \in BOOLEAN :
         /\ Fits(S, plan)
         /\ R = [Transition(AddTasks(S, t, plan), t, "decomposed") EXCEPT
                    !.duplicateKeys = @ \/ clash]
  BY DEF Decompositions
<1>2. Continues(S, AddTasks(S, t, plan))
  <2>1. plan \in Plan
    BY OrchestratorAssumption
  <2>2. /\ plan \in Seq(SUBSET TaskId)
        /\ \A i \in 1..Len(plan) : plan[i] \subseteq 1..Len(plan)
    BY <2>1, Zenon DEF Plan
  <2>3. t \in 0..MaxTasks
    BY TaskStateAssumption DEF TaskId
  <2> QED BY <1>1, <2>2, <2>3, AddTasksContinues
<1> DEFINE Q == Transition(AddTasks(S, t, plan), t, "decomposed")
<1>3. Continues(S, Q)
  BY <1>2, TransitionContinues DEF Continues, TaskStatus
<1>4. R = [Q EXCEPT !.duplicateKeys = Q.duplicateKeys \/ clash]
  BY <1>1
<1> HIDE DEF Q
<1> QED BY <1>3, <1>4 DEF ProjectState, Continues

LEMMA RecoveriesContinue ==
    ASSUME NEW S \in ProjectState, NEW t \in TaskId, NEW force,
           NEW R \in Recoveries(S, t, force)
    PROVE  Continues(S, R)
<1>1. CASE R \in Decompositions(S, t)
  BY <1>1, DecompositionsContinue
<1>2. CASE R = Transition(S, t, "blocked")
  BY <1>2, TransitionContinues DEF TaskStatus
<1>3. CASE R = Transition([S EXCEPT !.tasks[t].blocker = FALSE], t, "ready")
  <2>1. Continues(S, [S EXCEPT !.tasks[t].blocker = FALSE])
    BY ReplaceField
  <2> QED BY <1>3, <2>1, TransitionContinues DEF Continues, TaskStatus
<1> QED BY <1>1, <1>2, <1>3, Zenon DEF Recoveries

\* Reopening ends in READY or BLOCKED.
LEMMA ReopenContinues ==
    ASSUME NEW S \in ProjectState, NEW t \in TaskId
    PROVE  Continues(S, ReopenTaskAfterVerification(S, t))
<1> DEFINE n == S.tasks[t].reopens + 1
           R == [S EXCEPT !.tasks[t].reopens = n]
           Q == Transition(R, t, "reopened")
<1>1. Continues(S, R)
  <2>1. n \in Nat
    BY DEF ProjectState, TaskNode
  <2> HIDE DEF n
  <2> QED BY <2>1, ReplaceField
<1>2. Continues(R, Q)
  BY <1>1, TransitionContinues DEF Continues, TaskStatus
<1>3. ReopenTaskAfterVerification(S, t) =
        Transition(Q, t, IF Q.tasks[t].reopens > MaxReopens
                         THEN "blocked" ELSE "ready")
  BY Zenon DEF ReopenTaskAfterVerification
<1> HIDE DEF n, R, Q
<1>4. ReopenTaskAfterVerification(S, t) \in
        {Transition(Q, t, "blocked"), Transition(Q, t, "ready")}
  BY <1>3
<1>5. R \in ProjectState /\ Q \in ProjectState /\ Continues(S, Q)
  BY <1>1, <1>2 DEF Continues
<1>6. /\ Continues(Q, Transition(Q, t, "blocked"))
      /\ Continues(Q, Transition(Q, t, "ready"))
  BY <1>5, TransitionContinues DEF TaskStatus
<1> QED BY <1>4, <1>5, <1>6, ContinuesTransitive

LEMMA VerifyTaskContinues ==
    ASSUME NEW S \in ProjectState, NEW t \in TaskId, NEW v \in Verdict
    PROVE  Continues(S, VerifyTaskCandidate(S, t, v))
<1> DEFINE Q == Transition(S, t, "verification_pending")
           R == [Q EXCEPT !.tasks[t].vstat = VerdictNote(v)]
<1>1. Continues(S, Q)
  BY TransitionContinues DEF TaskStatus
<1>2. Continues(Q, R)
  <2>1. VerdictNote(v) \in TaskVerdict
    BY DEF VerdictNote, TaskVerdict
  <2> HIDE DEF Q
  <2> QED BY <1>1, <2>1, ReplaceField DEF Continues
<1>3. VerifyTaskCandidate(S, t, v) \in
        {Transition(R, t, "verified"), ReopenTaskAfterVerification(R, t),
         Transition(R, t, "blocked")}
  <2>1. VerifyTaskCandidate(S, t, v) =
          CASE v = "verified" -> Transition(R, t, "verified")
            [] v \in {"partial", "reopened"} -> ReopenTaskAfterVerification(R, t)
            [] OTHER -> Transition(R, t, "blocked")
    BY Zenon DEF VerifyTaskCandidate
  <2> HIDE DEF R
  <2> QED BY <2>1
<1> HIDE DEF Q, R
<1>4. Continues(S, R)
  BY <1>1, <1>2, ContinuesTransitive
<1>5. /\ Continues(R, Transition(R, t, "verified"))
      /\ Continues(R, ReopenTaskAfterVerification(R, t))
      /\ Continues(R, Transition(R, t, "blocked"))
  BY <1>4, TransitionContinues, ReopenContinues DEF Continues, TaskStatus
<1> QED BY <1>3, <1>4, <1>5, ContinuesTransitive

LEMMA MarkVerifiedContinues ==
    ASSUME NEW S \in ProjectState
    PROVE  Continues(S, MarkProjectTasksVerified(S))
<1> DEFINE T == Leaves(S) \cap WithStatus(S, {"candidate_complete"})
           a == IF S.active \in T THEN None ELSE S.active
           f == [t \in TaskId |-> IF t \in T
                                  THEN [S.tasks[t] EXCEPT !.status = "verified",
                                                          !.vstat = "other"]
                                  ELSE S.tasks[t]]
<1>1. MarkProjectTasksVerified(S) = [S EXCEPT !.active = a, !.tasks = f]
  BY Zenon DEF MarkProjectTasksVerified
<1>2. a \in 0..MaxTasks
  BY TaskStateAssumption DEF ProjectState, None
<1>3. f \in [TaskId -> TaskNode]
  <2>1. ASSUME NEW n \in TaskNode
        PROVE  [n EXCEPT !.status = "verified", !.vstat = "other"] \in TaskNode
    BY DEF TaskNode, TaskStatus, TaskVerdict
  <2>2. \A t \in TaskId : S.tasks[t] \in TaskNode
    BY DEF ProjectState
  <2> HIDE DEF T
  <2> QED BY <2>1, <2>2
<1> HIDE DEF T, a, f
<1> QED BY <1>1, <1>2, <1>3 DEF ProjectState, Continues

LEMMA ReopenProjectContinues ==
    ASSUME NEW S \in ProjectState
    PROVE  Continues(S, ReopenRelevantProjectTask(S))
<1> DEFINE T == Leaves(S) \cap WithStatus(S, Complete)
           t == CHOOSE u \in T : \A w \in T : w <= u
           Q == Transition(SetStatus(S, {t}, "candidate_complete"),
                           t, "verification_pending")
<1>1. CASE T = {}
  BY <1>1 DEF ReopenRelevantProjectTask, Continues
<1>2. CASE T # {}
  <2>1. T \subseteq TaskId
    BY TasksType DEF Leaves
  <2>2. \E u \in T : \A w \in T : w <= u
    <3> HIDE DEF T
    <3> QED BY <1>2, <2>1, Largest
  <2>3. t \in TaskId
    <3> HIDE DEF T
    <3> QED BY <2>1, <2>2
  <2>4. ReopenRelevantProjectTask(S) = ReopenTaskAfterVerification(Q, t)
    BY <1>2 DEF ReopenRelevantProjectTask
  <2> HIDE DEF t
  <2>5. Continues(S, Q)
    <3>1. Continues(S, SetStatus(S, {t}, "candidate_complete"))
      BY SetStatusContinues DEF TaskStatus
    <3>2. Continues(SetStatus(S, {t}, "candidate_complete"), Q)
      BY <2>3, <3>1, TransitionContinues DEF Continues, TaskStatus
    <3> QED BY <3>1, <3>2, ContinuesTransitive
  <2> HIDE DEF Q
  <2> QED BY <2>3, <2>4, <2>5, ReopenContinues DEF Continues
<1> QED BY <1>1, <1>2

LEMMA ProjectVerdictContinues ==
    ASSUME NEW S \in ProjectState, NEW v \in Verdict
    PROVE  Continues(S, ApplyProjectVerdict(S, v))
<1> DEFINE R == [S EXCEPT !.pattempts = @ + 1]
<1>1. Continues(S, R)
  BY DEF ProjectState, Continues
<1>2. ApplyProjectVerdict(S, v) \in
        {SetProject(MarkProjectTasksVerified(R), "verified"),
         SetProject(ReopenRelevantProjectTask(R), "partially_verified"),
         SetProject(ReopenRelevantProjectTask(R), "active"),
         SetProject(R, "verification_pending"),
         SetProject(R, "verification_inconclusive")}
  BY DEF ApplyProjectVerdict
<1> HIDE DEF R
<1>3. /\ Continues(R, MarkProjectTasksVerified(R))
      /\ Continues(R, ReopenRelevantProjectTask(R))
  BY <1>1, MarkVerifiedContinues, ReopenProjectContinues DEF Continues
<1> QED BY <1>1, <1>2, <1>3, SetProjectContinues DEF Continues, ProjectStatus

-----------------------------------------------------------------------------
\* Steps of a running process.

\* What a step makes of mem when no session starts and the process goes on.
Kept == Continues(mem, mem')

LEMMA TriggerKeeps ==
    ASSUME mem \in ProjectState, NEW S, Continues(mem, S), NEW t \in TaskId,
           NEW force, NEW asked, NEW next,
           TriggerDecomposition(S, t, force, asked, next)
    PROVE  Kept
<1>1. CASE \E R \in Recoveries(S, t, force) : Compute(R, next)
  BY <1>1, RecoveriesContinue DEF Compute, Kept, Continues
<1>2. CASE mem' = mem
  BY <1>2 DEF Kept, Continues
<1> QED BY <1>1, <1>2 DEF TriggerDecomposition, Raise

LEMMA FinalizeKeeps ==
    ASSUME NEW S, Continues(mem, S), NEW next,
           FinalizeContractVerification(S, next)
    PROVE  Kept
<1>1. S \in ProjectState
  BY DEF Continues
<1>2. CASE \E status \in ProjectStatus : mem' = SetProject(S, status)
  BY <1>1, <1>2, SetProjectContinues DEF Kept, Continues
<1>3. CASE \E v \in Verdicts : mem' = ApplyProjectVerdict(S, v)
  BY <1>1, <1>3, ProjectVerdictContinues, OrchestratorAssumption DEF Kept, Continues
<1> QED BY <1>2, <1>3 DEF FinalizeContractVerification, Save, ProjectStatus

LEMMA FinalizeCandidateKeeps ==
    ASSUME mem \in ProjectState, NEW S, Continues(mem, S), NEW next,
           FinalizeCandidateComplete(S, next)
    PROVE  Kept
<1>1. S \in ProjectState
  BY DEF Continues
<1>2. CASE FinalizeContractVerification(S, next)
  BY <1>2, FinalizeKeeps
<1>3. CASE \E status \in ProjectStatus : mem' = SetProject(S, status)
  BY <1>1, <1>3, SetProjectContinues DEF Kept, Continues
<1>4. CASE SaveLegacyVerificationReport(S, next)
  BY <1>1, <1>4 DEF SaveLegacyVerificationReport, Raise, Kept, Continues
<1> QED BY <1>2, <1>3, <1>4 DEF FinalizeCandidateComplete, FinalOutcomes, Save,
                                ProjectStatus

\* TypeOK is not inductive alone: a session needs a task, and a resume that
\* forces decompositions has some left.  A contract is recorded once.
TypeInv ==
    /\ TypeOK
    /\ pc \in {"start_frozen", "resume_frozen"} => ~mem.contractId
    /\ pc \in {"session", "verify"} => cur # None
    /\ pc = "forced" => todo # {}

LEMMA CurrentTask ==
    ASSUME TypeInv, pc \in {"session", "verify"}
    PROVE  cur \in TaskId
BY TaskStateAssumption DEF TypeInv, TypeOK, TaskId, None

LEMMA StartupKeeps ==
    ASSUME TypeInv, Startup
    PROVE  Kept
<1>0. mem \in ProjectState
  BY DEF TypeInv, TypeOK
<1>1. CASE FreezeContract \/ ContractModified \/ ContractReady \/ InitialPlanFails
           \/ EnterLoop
  BY <1>0, <1>1 DEF FreezeContract, ContractModified, ContractReady, InitialPlanFails,
                    EnterLoop, Raise, Compute, Kept, Continues
<1>2. CASE RecordContract
  <2>1. PICK b \in BOOLEAN : mem' = [mem EXCEPT !.contractId = b]
    BY <1>2 DEF RecordContract, Save
  <2>2. ~mem.contractId
    BY <1>2 DEF RecordContract, TypeInv
  <2> QED BY <1>0, <2>1, <2>2 DEF ProjectState, Kept, Continues
<1>3. CASE ContractInvalid \/ RunTimeLimit
  BY <1>0, <1>3, SetProjectContinues
     DEF ContractInvalid, RunTimeLimit, MarkTimeLimit, Save, ProjectStatus, Kept
<1>4. CASE Reactivate
  <2> DEFINE failed == WithStatus(mem, {"failed"})
             force  == {t \in failed : NoProgressDecompositionRequired(mem, t)}
             retry  == {t \in failed \ force :
                          mem.tasks[t].sessions < cfg.maxTaskSessions}
             S      == SetStatus(SetStatus(mem, force, "in_progress"),
                                 retry, "ready")
             a      == IF force = {} THEN S.active
                       ELSE CHOOSE t \in force : \A u \in force : u <= t
  <2>1. CASE mem' = [S EXCEPT !.status = "active", !.active = a]
    <3>1. Continues(mem, S)
      <4>1. Continues(mem, SetStatus(mem, force, "in_progress"))
        BY <1>0, SetStatusContinues DEF TaskStatus
      <4> HIDE DEF force, retry
      <4>2. Continues(SetStatus(mem, force, "in_progress"), S)
        BY <4>1, SetStatusContinues DEF Continues, TaskStatus
      <4> QED BY <4>1, <4>2, ContinuesTransitive
    <3>2. force \subseteq TaskId
      BY <1>0, TasksType DEF WithStatus
    <3>3. ASSUME force # {}
          PROVE  \E t \in force : \A u \in force : u <= t
      <4> HIDE DEF force
      <4> QED BY <3>2, <3>3, Largest
    <3> HIDE DEF force, S
    <3>4. S.active \in 0..MaxTasks
      BY <3>1 DEF Continues, ProjectState
    <3>5. a \in 0..MaxTasks
      <4>1. CASE force = {}
        BY <3>4, <4>1
      <4>2. CASE force # {}
        <5>1. a = CHOOSE t \in force : \A u \in force : u <= t
          BY <4>2
        <5> HIDE DEF a
        <5>2. a \in force
          BY <3>3, <4>2, <5>1
        <5> QED BY <3>2, <5>2, TaskStateAssumption DEF TaskId
      <4> QED BY <4>1, <4>2
    <3> HIDE DEF a
    <3> QED BY <2>1, <3>1, <3>5 DEF ProjectState, ProjectStatus, Kept, Continues
  <2>2. CASE mem' = mem
    BY <1>0, <2>2 DEF Kept, Continues
  <2> QED BY <1>4, <2>1, <2>2, Zenon DEF Reactivate, Compute
<1>5. CASE DecomposeFailedTask
  <2> DEFINE t == CHOOSE u \in todo : \A w \in todo : u <= w
  <2>1. todo \subseteq TaskId /\ todo # {}
    BY <1>5 DEF DecomposeFailedTask, TypeInv, TypeOK
  <2>2. \E u \in todo : \A w \in todo : u <= w
    <3>1. todo \subseteq Nat
      BY <2>1, TaskStateAssumption DEF TaskId
    <3> QED BY <2>1, <3>1, Smallest
  <2>3. t \in TaskId
    BY <2>1, <2>2
  <2>4. \E next : TriggerDecomposition(mem, t, TRUE, FALSE, next)
    BY <1>5, Zenon DEF DecomposeFailedTask
  <2> HIDE DEF t
  <2>5. Continues(mem, mem)
    BY <1>0 DEF Continues
  <2> QED BY <1>0, <2>3, <2>4, <2>5, TriggerKeeps
<1>6. CASE CreateInitialPlan
  <2>1. PICK plan \in Plans, b \in BOOLEAN :
          mem' = [AddTasks(mem, None, plan) EXCEPT !.contractId = @ \/ b]
    BY <1>6 DEF CreateInitialPlan, Save
  <2>2. plan \in Plan
    BY OrchestratorAssumption
  <2>3. /\ plan \in Seq(SUBSET TaskId)
        /\ Len(plan) \in TaskId
        /\ \A i \in 1..Len(plan) : plan[i] \subseteq 1..Len(plan)
    BY <2>2, Zenon DEF Plan
  <2>4. Fits(mem, plan)
    BY <1>6, <2>3, TaskStateAssumption DEF CreateInitialPlan, Fits, TaskId
  <2>5. Continues(mem, AddTasks(mem, None, plan))
    BY <1>0, <2>3, <2>4, AddTasksContinues, TaskStateAssumption DEF None
  <2> QED BY <2>1, <2>5 DEF ProjectState, Kept, Continues
<1>7. CASE FinalizePending
  <2>1. Continues(mem, mem)
    BY <1>0 DEF Continues
  <2> QED BY <1>7, <2>1, FinalizeKeeps DEF FinalizePending
<1>8. CASE RetryInfrastructure
  <2>1. CASE mem' = mem
    BY <1>0, <2>1 DEF Kept, Continues
  <2>2. CASE \E t \in Tasks(mem), v \in Verdicts :
               mem' = VerifyTaskCandidate(mem, t, v)
    BY <1>0, <2>2, TasksType, VerifyTaskContinues, OrchestratorAssumption DEF Kept
  <2> QED BY <1>8, <2>1, <2>2 DEF RetryInfrastructure, Compute, WithStatus
<1> QED BY <1>1, <1>2, <1>3, <1>4, <1>5, <1>6, <1>7, <1>8 DEF Startup

LEMMA EndSessionKeeps ==
    ASSUME TypeInv, EndSession
    PROVE  Kept
<1>0. mem \in ProjectState /\ cur \in TaskId
  BY CurrentTask DEF TypeInv, TypeOK, EndSession, RequestCompletion,
     RequestDecomposition, ReportBlocker, CompleteOnEvidence, EndWithoutSignal
<1>1. ASSUME NEW flag \in BOOLEAN
      PROVE  Continues(mem, NoteProgress(mem, cur, flag))
  BY <1>0, NoteProgressContinues
<1>2. ASSUME NEW S, Continues(mem, S), NEW status \in TaskStatus
      PROVE  Continues(mem, Transition(S, cur, status))
  BY <1>0, <1>2, TransitionContinues DEF Continues
<1>3. CASE RequestCompletion
  BY <1>1, <1>2, <1>3 DEF RequestCompletion, Compute, Kept, TaskStatus
<1>4. CASE RequestDecomposition
  <2> DEFINE S == NoteProgress(mem, cur, FALSE)
  <2>1. Continues(mem, S)
    BY <1>1
  <2>2. \/ TriggerDecomposition(S, cur, FALSE, TRUE, "verify")
        \/ mem' = Transition(S, cur, "blocked")
    BY <1>4 DEF RequestDecomposition, Compute
  <2> HIDE DEF S
  <2> QED BY <1>0, <1>2, <2>1, <2>2, TriggerKeeps DEF Kept, TaskStatus
<1>5. ASSUME NEW flag \in BOOLEAN, ReportBlocker(flag)
      PROVE  Kept
  <2> DEFINE R == NoteProgress(mem, cur, FALSE)
             S == [R EXCEPT !.tasks[cur].blocker = TRUE]
  <2>1. Continues(mem, R)
    BY <1>1
  <2> HIDE DEF R
  <2>2. Continues(mem, S)
    BY <1>0, <2>1, ReplaceField DEF Continues
  <2>3. \/ TriggerDecomposition(S, cur, FALSE, TRUE, "verify")
        \/ mem' = Transition(S, cur, "blocked")
    BY <1>5, Zenon DEF ReportBlocker, Compute, R
  <2> HIDE DEF S
  <2> QED BY <1>0, <1>2, <2>2, <2>3, TriggerKeeps DEF Kept, TaskStatus
<1>6. ASSUME NEW flag \in BOOLEAN, CompleteOnEvidence(flag)
      PROVE  Kept
  BY <1>1, <1>2, <1>6 DEF CompleteOnEvidence, Compute, Kept, TaskStatus
<1>7. ASSUME NEW flag \in BOOLEAN, EndWithoutSignal(flag)
      PROVE  Kept
  <2> DEFINE S == NoteProgress(mem, cur, flag)
  <2>1. Continues(mem, S)
    BY <1>1
  <2>2. \/ TriggerDecomposition(S, cur, TRUE, FALSE, "verify")
        \/ TriggerDecomposition(S, cur, FALSE, FALSE, "verify")
        \/ mem' = S
    BY <1>7 DEF EndWithoutSignal, Compute
  <2> HIDE DEF S
  <2> QED BY <1>0, <2>1, <2>2, TriggerKeeps DEF Kept
<1> QED BY <1>3, <1>4, <1>5, <1>6, <1>7 DEF EndSession

LEMMA IterationKeeps ==
    ASSUME TypeInv, Iteration, ~StartSession
    PROVE  Kept
<1>0. mem \in ProjectState /\ Continues(mem, mem)
  BY DEF TypeInv, TypeOK, Continues
<1>1. CASE NoReachableTask \/ SessionBudgetSpent \/ NothingToVerify \/ NextIteration
           \/ SettleUnchanged \/ AppendSession \/ SaveAfterSession
  BY <1>0, <1>1 DEF NoReachableTask, SessionBudgetSpent, NothingToVerify, NextIteration,
        SettleUnchanged, AppendSession, SaveAfterSession, Save, Compute, Raise, Kept
<1>2. CASE LoopTimeLimit \/ TimeLimitAfterSession \/ SettleSessionLimit
           \/ ReportFinalVerification
  BY <1>0, <1>2, SetProjectContinues DEF LoopTimeLimit, TimeLimitAfterSession,
        SettleSessionLimit, ReportFinalVerification, FinalOutcomes, MarkTimeLimit,
        Save, ProjectStatus, Kept
<1>3. CASE AggregateParents \/ AggregateOnceMore
  BY <1>0, <1>3, AggregateContinues DEF AggregateParents, AggregateOnceMore, Compute, Kept
<1>4. CASE SelectTask
  BY <1>0, <1>4, SelectNextContinues DEF SelectTask, Save, Kept
<1>5. CASE NothingToRun
  <2>1. Continues(mem, SetProject(mem, "active"))
    BY <1>0, SetProjectContinues DEF ProjectStatus
  <2>2. CASE FinalizeCandidateComplete(SetProject(mem, "active"), "post")
    BY <1>0, <2>1, <2>2, FinalizeCandidateKeeps
  <2>3. CASE mem' = mem
    BY <1>0, <2>3 DEF Kept
  <2> QED BY <1>5, <2>2, <2>3 DEF NothingToRun, Save, Compute
<1>6. CASE TaskSessionLimit
  <2>1. cur \in TaskId
    BY <1>6, TaskStateAssumption DEF TaskSessionLimit, TypeInv, TypeOK, TaskId, None
  <2>2. Continues(mem, Transition(mem, cur, "failed"))
    BY <1>0, <2>1, TransitionContinues DEF TaskStatus
  <2> QED BY <1>6, <2>2, SetProjectContinues
          DEF TaskSessionLimit, Save, ProjectStatus, Kept, Continues
<1>7. CASE EndSession
  BY <1>7, EndSessionKeeps
<1>8. CASE VerifyTask
  <2>1. cur \in TaskId
    BY <1>8, CurrentTask DEF VerifyTask
  <2> QED BY <1>0, <1>8, <2>1, VerifyTaskContinues, OrchestratorAssumption
          DEF VerifyTask, Compute, Kept
<1>9. CASE VerifyProject
  BY <1>0, <1>9, FinalizeKeeps DEF VerifyProject
<1>10. CASE SettleComplete
  BY <1>0, <1>10, FinalizeCandidateKeeps DEF SettleComplete
<1> QED BY <1>1, <1>2, <1>3, <1>4, <1>5, <1>6, <1>7, <1>8, <1>9, <1>10 DEF Iteration

\* A session is counted for the project and for its task.
LEMMA StartSessionCounts ==
    ASSUME TypeInv, StartSession
    PROVE  mem' \in ProjectState /\ mem'.sessions = mem.sessions + 1
<1> DEFINE S == IF mem.tasks[cur].status = "ready"
                THEN Transition(mem, cur, "in_progress") ELSE mem
           n == S.tasks[cur].sessions + 1
<1>1. mem \in ProjectState /\ cur \in TaskId
  BY TaskStateAssumption DEF TypeInv, TypeOK, StartSession, TaskId, None
<1>2. Continues(mem, S)
  BY <1>1, TransitionContinues DEF Continues, TaskStatus
<1>3. mem' = [S EXCEPT !.sessions = S.sessions + 1, !.tasks[cur].sessions = n]
  BY Zenon DEF StartSession, Compute
<1> HIDE DEF S
<1>4. S \in ProjectState /\ S.sessions = mem.sessions
  BY <1>2 DEF Continues
<1>5. S.tasks[cur] \in TaskNode
  BY <1>1, <1>4 DEF ProjectState
<1> DEFINE f == [S.tasks EXCEPT ![cur].sessions = n]
<1>6. f \in [TaskId -> TaskNode]
  <2>1. [S.tasks[cur] EXCEPT !.sessions = n] \in TaskNode
    BY <1>5 DEF TaskNode
  <2> QED BY <1>1, <1>4, <2>1 DEF ProjectState
<1>7. mem' = [S EXCEPT !.sessions = S.sessions + 1, !.tasks = f]
  BY <1>3, Zenon
<1> HIDE DEF f, n
<1> DEFINE k == S.sessions + 1
<1>8. k \in Nat /\ k = mem.sessions + 1
  BY <1>4 DEF ProjectState
<1>9. mem' = [S EXCEPT !.sessions = k, !.tasks = f]
  BY <1>7
<1> HIDE DEF k
<1> QED BY <1>4, <1>6, <1>8, <1>9 DEF ProjectState

-----------------------------------------------------------------------------
\* Types.

LEMMA InitTypes == Init => TypeInv
<1>1. None \in 0..MaxTasks
  BY TaskStateAssumption DEF None
<1>2. NewProject \in ProjectState
  BY NewProjectType
<1> QED BY <1>1, <1>2 DEF Init, TypeInv, TypeOK, Location, Failure, ContractFiles

LEMMA SaveTypes ==
    ASSUME TypeInv, mem' \in ProjectState, NEW S, NEW next \in Location, Save(S, next)
    PROVE  /\ pc' \in {next, "raised"} /\ failure' \in Failure
           /\ disk' \in ProjectState /\ exists' \in BOOLEAN
           /\ UNCHANGED <<logged, contract>>
BY DEF Save, Goto, TypeInv, TypeOK, Failure

LEMMA FinalizeTypes ==
    ASSUME TypeInv, mem' \in ProjectState, NEW S, NEW next \in Location,
           FinalizeContractVerification(S, next)
    PROVE  /\ pc' \in {next, "raised"} /\ failure' \in Failure
           /\ disk' \in ProjectState /\ exists' \in BOOLEAN
           /\ UNCHANGED <<logged, contract>>
<1>1. \E R : Save(R, next)
  BY DEF FinalizeContractVerification
<1> QED BY <1>1, SaveTypes

LEMMA FinalizeCandidateTypes ==
    ASSUME TypeInv, mem' \in ProjectState, NEW S, NEW next \in Location,
           FinalizeCandidateComplete(S, next)
    PROVE  /\ pc' \in {next, "report", "report_last", "raised"}
           /\ failure' \in Failure
           /\ disk' \in ProjectState /\ exists' \in BOOLEAN
           /\ logged' = logged /\ contract' \in ContractFiles
<1>1. CASE \E R : Save(R, next)
  BY <1>1, SaveTypes DEF TypeInv, TypeOK
<1>2. CASE SaveLegacyVerificationReport(S, next)
  BY <1>2 DEF SaveLegacyVerificationReport, Raise, Goto, stored, Failure,
              ContractFiles, TypeInv, TypeOK
<1> QED BY <1>1, <1>2 DEF FinalizeCandidateComplete, FinalizeContractVerification

LEMMA TriggerTypes ==
    ASSUME NEW S, NEW t, NEW force, NEW asked, NEW next \in Location,
           TriggerDecomposition(S, t, force, asked, next)
    PROVE  /\ pc' \in {next, "raised"} /\ failure' \in Failure
           /\ UNCHANGED stored
BY DEF TriggerDecomposition, Compute, Goto, Raise, Failure

LEMMA StartupTypes ==
    ASSUME TypeInv, Startup, mem' \in ProjectState
    PROVE  TypeInv'
<1> USE DEF TypeInv, TypeOK, local, stored, Location
<1>1. CASE FreezeContract
  BY <1>1 DEF FreezeContract, ContractFiles
<1>2. CASE ContractModified \/ InitialPlanFails
  BY <1>2 DEF ContractModified, InitialPlanFails, Raise, Failure
<1>3. CASE RecordContract
  BY <1>3, SaveTypes DEF RecordContract, AfterInitialization
<1>4. CASE ContractInvalid
  BY <1>4, SaveTypes DEF ContractInvalid
<1>5. CASE RunTimeLimit
  BY <1>5, SaveTypes DEF RunTimeLimit, MarkTimeLimit
<1>6. CASE CreateInitialPlan
  BY <1>6, SaveTypes DEF CreateInitialPlan
<1>7. CASE FinalizePending
  BY <1>7, FinalizeTypes DEF FinalizePending
<1>8. CASE ContractReady
  BY <1>8 DEF ContractReady, AfterInitialization, Compute, Goto, Failure
<1>9. CASE EnterLoop
  BY <1>9 DEF EnterLoop, Compute, Goto, Failure
<1>10. CASE RetryInfrastructure
  BY <1>10 DEF RetryInfrastructure, Compute, Goto, Failure
<1>11. CASE Reactivate
  <2> DEFINE failed == WithStatus(mem, {"failed"})
             force  == {t \in failed : NoProgressDecompositionRequired(mem, t)}
  <2>1. force \subseteq TaskId
    BY TasksType DEF WithStatus
  <2>2. \/ todo' = force /\ pc' = IF force = {} THEN "run" ELSE "forced"
        \/ todo' = {} /\ pc' = "run"
    BY <1>11, Zenon DEF Reactivate, Compute, Goto
  <2>3. failure' = "none" /\ UNCHANGED <<stored, cfg, cur, attempted>>
    BY <1>11 DEF Reactivate, Compute, Goto
  <2> HIDE DEF force
  <2> QED BY <2>1, <2>2, <2>3 DEF Failure
<1>12. CASE DecomposeFailedTask
  <2> DEFINE t == CHOOSE u \in todo : \A w \in todo : u <= w
             next == IF todo = {t} THEN "run" ELSE "forced"
  <2>1. /\ pc = "forced"
        /\ TriggerDecomposition(mem, t, TRUE, FALSE, next)
        /\ todo' = todo \ {t}
        /\ UNCHANGED <<cfg, cur, attempted>>
    BY <1>12, Zenon DEF DecomposeFailedTask
  <2>2. todo # {}
    BY <2>1
  <2> HIDE DEF t
  <2>3. next = "forced" => todo \ {t} # {}
    BY <2>2
  <2>4. next \in {"run", "forced"}
    OBVIOUS
  <2> HIDE DEF next
  <2>5. /\ pc' \in {next, "raised"} /\ failure' \in Failure
        /\ UNCHANGED stored
    BY <2>1, <2>4, TriggerTypes
  <2> QED BY <2>1, <2>3, <2>4, <2>5
<1> QED BY <1>1, <1>2, <1>3, <1>4, <1>5, <1>6, <1>7, <1>8, <1>9, <1>10, <1>11, <1>12
        DEF Startup

LEMMA EndSessionTypes ==
    ASSUME TypeInv, EndSession, mem' \in ProjectState
    PROVE  TypeInv'
<1>1. /\ pc = "session"
      /\ pc' \in {"verify", "raised"} /\ failure' \in Failure
      /\ UNCHANGED <<local, stored>>
  <2>1. ASSUME NEW S, NEW t, NEW force, NEW asked,
               TriggerDecomposition(S, t, force, asked, "verify")
        PROVE  /\ pc' \in {"verify", "raised"} /\ failure' \in Failure
               /\ UNCHANGED stored
    BY <2>1, TriggerTypes DEF Location
  <2>2. ASSUME NEW S, Compute(S, "verify")
        PROVE  /\ pc' \in {"verify", "raised"} /\ failure' \in Failure
               /\ UNCHANGED stored
    BY <2>2 DEF Compute, Goto, Failure
  <2>3. CASE RequestCompletion \/ RequestDecomposition
    BY <2>1, <2>2, <2>3 DEF RequestCompletion, RequestDecomposition
  <2>4. ASSUME NEW flag \in BOOLEAN,
               ReportBlocker(flag) \/ CompleteOnEvidence(flag) \/ EndWithoutSignal(flag)
        PROVE  /\ pc = "session"
               /\ pc' \in {"verify", "raised"} /\ failure' \in Failure
               /\ UNCHANGED <<local, stored>>
    BY <2>1, <2>2, <2>4 DEF ReportBlocker, CompleteOnEvidence, EndWithoutSignal
  <2> QED BY <2>3, <2>4 DEF EndSession
<1> QED BY <1>1 DEF TypeInv, TypeOK, local, stored, Location

LEMMA IterationTypes ==
    ASSUME TypeInv, Iteration, mem' \in ProjectState
    PROVE  TypeInv'
<1> USE DEF TypeInv, TypeOK, local, stored, Location
<1>1. CASE NoReachableTask
  BY <1>1 DEF NoReachableTask, Raise, Failure
<1>2. CASE SessionBudgetSpent \/ NothingToVerify \/ NextIteration
           \/ SettleUnchanged \/ AggregateParents \/ AggregateOnceMore
  BY <1>2 DEF SessionBudgetSpent, NothingToVerify, NextIteration, SettleUnchanged,
              AggregateParents, AggregateOnceMore, Compute, Goto, Failure
<1>3. CASE StartSession
  BY <1>3 DEF StartSession, Compute, Goto, Failure
<1>4. CASE VerifyTask
  BY <1>4 DEF VerifyTask, Compute, Goto, Failure
<1>5. CASE AppendSession
  <2>1. mem.sessions \in Nat
    BY DEF ProjectState
  <2> QED BY <1>5, <2>1 DEF AppendSession, Goto, Failure
<1>6. CASE LoopTimeLimit \/ TimeLimitAfterSession \/ SettleSessionLimit \/ SaveAfterSession
           \/ ReportFinalVerification
  BY <1>6, SaveTypes DEF LoopTimeLimit, TimeLimitAfterSession, SettleSessionLimit,
                         SaveAfterSession, MarkTimeLimit, ReportFinalVerification
<1>7. CASE SelectTask
  BY <1>7, SaveTypes, NextTaskType DEF SelectTask
<1>8. CASE TaskSessionLimit
  BY <1>8, SaveTypes DEF TaskSessionLimit
<1>9. CASE NothingToRun
  <2>1. CASE FinalizeCandidateComplete(SetProject(mem, "active"), "post")
    BY <1>9, <2>1, FinalizeCandidateTypes DEF NothingToRun
  <2>2. CASE Save(mem, "post")
    BY <1>9, <2>2, SaveTypes DEF NothingToRun
  <2>3. CASE Compute(mem, "post")
    BY <1>9, <2>3 DEF NothingToRun, Compute, Goto, Failure
  <2> QED BY <1>9, <2>1, <2>2, <2>3 DEF NothingToRun
<1>10. CASE VerifyProject
  BY <1>10, FinalizeTypes DEF VerifyProject
<1>11. CASE SettleComplete
  BY <1>11, FinalizeCandidateTypes DEF SettleComplete
<1>12. CASE EndSession
  BY <1>12, EndSessionTypes
<1> QED BY <1>1, <1>2, <1>3, <1>4, <1>5, <1>6, <1>7, <1>8, <1>9, <1>10, <1>11, <1>12
        DEF Iteration

\* A session count that only StartSession raises, and that commands and exits reset.
LEMMA MemoryStep ==
    ASSUME TypeInv, Startup \/ Iteration
    PROVE  /\ mem' \in ProjectState
           /\ StartSession \/ mem'.sessions = mem.sessions
BY StartupKeeps, IterationKeeps, StartSessionCounts DEF Kept, Continues

LEMMA TypeStep == TypeInv /\ [Next]_vars => TypeInv'
<1> SUFFICES ASSUME TypeInv, [Next]_vars
             PROVE  TypeInv'
  OBVIOUS
<1>1. CASE UNCHANGED vars
  BY <1>1 DEF vars, local, stored, TypeInv, TypeOK
<1>2. CASE CreateProject
  <2>1. mem' \in ProjectState
    BY <1>2, NewProjectType DEF CreateProject, Save
  <2> QED BY <1>2, <2>1, SaveTypes DEF CreateProject, TypeInv, TypeOK, Location
<1>3. ASSUME NEW command \in {"start", "resume"}, LoadProject(command)
      PROVE  TypeInv'
  BY <1>3 DEF LoadProject, Compute, Goto, stored, TypeInv, TypeOK, Location, Failure
<1>4. CASE Startup
  BY <1>4, MemoryStep, StartupTypes
<1>5. CASE Iteration
  BY <1>5, MemoryStep, IterationTypes
<1>6. CASE Exit \/ Crash
  <2>1. None \in 0..MaxTasks
    BY TaskStateAssumption DEF None
  <2> QED BY <1>6, <2>1, NewProjectType
          DEF Exit, Crash, Stop, stored, TypeInv, TypeOK, Location, Failure
<1>7. CASE EditContract
  BY <1>7 DEF EditContract, local, TypeInv, TypeOK, ContractFiles
<1> QED BY <1>1, <1>2, <1>3, <1>4, <1>5, <1>6, <1>7 DEF Next, Command, Run

\* Every variable keeps its type, for every plan, decomposition and verdict the
\* code accepts.
THEOREM TypeCorrect == Spec => []TypeOK
<1>1. Spec => []TypeInv
  BY InitTypes, TypeStep, PTL DEF Spec
<1>2. TypeInv => TypeOK
  BY DEF TypeInv
<1> QED BY <1>1, <1>2, PTL

-----------------------------------------------------------------------------
\* The frozen contract.

\* A contract file whose hash is not computed again stops a process before it
\* works, and so does a replaced one that was not recorded; without a configured
\* contract there is only that of a legacy report.
ContractInv ==
    /\ EditedContractNeverUsed
    /\ Scope = "none" => contract \in {"absent", "frozen"}

\* The steps of a process that has passed _initialize_verification: none loses
\* the record of the contract, and only a legacy report writes a contract file.
Working ==
    /\ pc \notin {"down", "start", "resume", "returned", "raised"}
    /\ mem.contractId => mem'.contractId
    /\ contract' = contract \/ (Scope = "none" /\ contract' = "frozen")

LEMMA FinalizeContract ==
    ASSUME NEW S, NEW next,
           FinalizeCandidateComplete(S, next) \/ FinalizeContractVerification(S, next)
    PROVE  contract' = contract \/ (Scope = "none" /\ contract' = "frozen")
BY DEF FinalizeCandidateComplete, FinalizeContractVerification,
       SaveLegacyVerificationReport, Save, Raise, stored

LEMMA IterationWorks ==
    ASSUME TypeInv, Iteration
    PROVE  Working
<1> USE DEF stored
<1>1. mem.contractId => mem'.contractId
  <2>1. CASE StartSession
    BY <2>1 DEF StartSession, Compute, Transition
  <2>2. CASE ~StartSession
    BY <2>2, IterationKeeps DEF Kept, Continues
  <2> QED BY <2>1, <2>2
<1>2. CASE EndSession
  BY <1>1, <1>2 DEF Working, EndSession, RequestCompletion, RequestDecomposition,
        ReportBlocker, CompleteOnEvidence, EndWithoutSignal, TriggerDecomposition,
        Compute, Raise
<1>3. CASE NothingToRun \/ VerifyProject \/ SettleComplete
  BY <1>1, <1>3, FinalizeContract DEF Working, NothingToRun, VerifyProject,
        SettleComplete, Save, Compute
<1>4. CASE ~(EndSession \/ NothingToRun \/ VerifyProject \/ SettleComplete)
  BY <1>1, <1>4 DEF Working, Iteration, LoopTimeLimit, AggregateParents, SelectTask,
        NoReachableTask, SessionBudgetSpent, TaskSessionLimit, StartSession, VerifyTask,
        NothingToVerify, AppendSession, SaveAfterSession, NextIteration,
        TimeLimitAfterSession, AggregateOnceMore, SettleSessionLimit, SettleUnchanged,
        ReportFinalVerification, MarkTimeLimit, Save, Compute, Raise
<1> QED BY <1>2, <1>3, <1>4

\* Nothing but _initialize_verification, a legacy report and the outside world
\* touches the files.
LEMMA ContractStep == TypeInv /\ ContractInv /\ [Next]_vars => ContractInv'
<1> SUFFICES ASSUME TypeInv, ContractInv, [Next]_vars
             PROVE  ContractInv'
  OBVIOUS
<1> USE DEF ContractInv, EditedContractNeverUsed, stored
<1>1. CASE UNCHANGED vars
  BY <1>1 DEF vars
<1>2. CASE CreateProject
  BY <1>2 DEF CreateProject, Save, Goto
<1>3. ASSUME NEW command \in {"start", "resume"}, LoadProject(command)
      PROVE  ContractInv'
  BY <1>3 DEF LoadProject, Compute, Goto
<1>4. CASE Startup
  <2>1. CASE FreezeContract
    BY <2>1 DEF FreezeContract, Untouched
  <2>2. CASE ContractReady
    BY <2>2 DEF ContractReady, Compute, Matching
  <2>3. CASE ContractModified \/ ContractInvalid
    BY <2>3 DEF ContractModified, ContractInvalid, Raise, Save, Goto
  <2>4. CASE ~(FreezeContract \/ ContractReady \/ ContractModified \/ ContractInvalid)
    <3>1. mem.contractId => mem'.contractId
      BY <1>4, StartupKeeps DEF Kept, Continues
    <3>2. CASE DecomposeFailedTask
      BY <3>1, <3>2 DEF DecomposeFailedTask, TriggerDecomposition, Compute, Raise
    <3>3. CASE FinalizePending
      BY <3>1, <3>3 DEF FinalizePending, FinalizeContractVerification, Save
    <3>4. CASE RecordContract
      BY <3>1, <3>4 DEF RecordContract, Save
    <3>5. CASE Reactivate \/ RunTimeLimit \/ CreateInitialPlan \/ InitialPlanFails
               \/ RetryInfrastructure \/ EnterLoop
      BY <3>1, <3>5 DEF Reactivate, RunTimeLimit, MarkTimeLimit, CreateInitialPlan,
                  InitialPlanFails, RetryInfrastructure, EnterLoop, Save, Compute, Raise
    <3> QED BY <1>4, <2>4, <3>2, <3>3, <3>4, <3>5 DEF Startup
  <2> QED BY <2>1, <2>2, <2>3, <2>4
<1>5. CASE Iteration
  <2>1. Working
    BY <1>5, IterationWorks
  <2> QED BY <2>1 DEF Working
<1>6. CASE Exit \/ Crash
  BY <1>6 DEF Exit, Crash, Stop
<1>7. CASE EditContract
  BY <1>7 DEF EditContract
<1> QED BY <1>1, <1>2, <1>3, <1>4, <1>5, <1>6, <1>7 DEF Next, Command, Run

\* A contract file that was rewritten and kept its hash is noticed before the
\* next process starts a session or applies a verdict; one whose hash was
\* computed again is noticed only where the project had not recorded it.
THEOREM ContractSafe == Spec => []EditedContractNeverUsed
<1>1. Init => ContractInv
  BY DEF Init, ContractInv, EditedContractNeverUsed
<1>2. Spec => []ContractInv
  BY <1>1, InitTypes, TypeStep, ContractStep, PTL DEF Spec
<1>3. ContractInv => EditedContractNeverUsed
  BY DEF ContractInv
<1> QED BY <1>2, <1>3, PTL

-----------------------------------------------------------------------------
\* The log of sessions.  With a project contract the verdict is saved before the
\* record is appended, and the property is false.

Idle == {"down", "returned", "raised"}

\* From the start of a session until the state that counts it is saved.
Recording == {"session", "verify", "append", "save"}

\* The process is ahead of the disk by the session it is running, and by none
\* otherwise.
LogInv ==
    /\ SessionLogComplete
    /\ ~exists => disk.sessions = 0
    /\ pc \in Recording => mem.sessions = disk.sessions + 1
    /\ pc = "save" => mem.sessions \in logged
    /\ pc \notin Recording \cup Idle => mem.sessions = disk.sessions

\* A step outside a session, which at most saves the state it computed.
Quiet ==
    /\ pc \notin Recording \cup Idle
    /\ pc' \notin Recording
    /\ logged' = logged
    /\ \/ disk' = mem' /\ exists' = TRUE
       \/ UNCHANGED <<disk, exists>>

LEMMA QuietStep ==
    ASSUME LogInv, Quiet, mem'.sessions = mem.sessions
    PROVE  LogInv'
BY DEF LogInv, Quiet, SessionLogComplete, Idle, Recording

LEMMA StartupQuiet ==
    ASSUME TypeInv, Startup
    PROVE  Quiet
<1> USE DEF Quiet, Idle, Recording, stored
<1>1. CASE FreezeContract \/ ContractReady \/ ContractModified \/ InitialPlanFails
  BY <1>1 DEF FreezeContract, ContractReady, AfterInitialization, ContractModified,
              InitialPlanFails, Compute, Goto, Raise
<1>2. CASE RecordContract \/ ContractInvalid \/ RunTimeLimit
  BY <1>2 DEF RecordContract, ContractInvalid, RunTimeLimit, MarkTimeLimit,
              AfterInitialization, Save, Goto
<1>3. CASE CreateInitialPlan
  BY <1>3 DEF CreateInitialPlan, Save, Goto
<1>4. CASE Reactivate \/ RetryInfrastructure \/ EnterLoop
  BY <1>4 DEF Reactivate, RetryInfrastructure, EnterLoop, Compute, Goto
<1>5. CASE DecomposeFailedTask
  BY <1>5 DEF DecomposeFailedTask, TriggerDecomposition, Compute, Goto, Raise
<1>6. CASE FinalizePending
  BY <1>6 DEF FinalizePending, FinalizeContractVerification, Save, Goto
<1> QED BY <1>1, <1>2, <1>3, <1>4, <1>5, <1>6 DEF Startup

\* The steps of an iteration before its session starts and after it is saved.
Outside ==
    \/ LoopTimeLimit \/ AggregateParents \/ SelectTask \/ NoReachableTask
    \/ SessionBudgetSpent \/ NothingToRun \/ TaskSessionLimit
    \/ NextIteration \/ TimeLimitAfterSession \/ AggregateOnceMore
    \/ SettleComplete \/ SettleSessionLimit \/ SettleUnchanged
    \/ ReportFinalVerification

LEMMA OutsideQuiet ==
    ASSUME Outside
    PROVE  Quiet
<1> USE DEF Quiet, Idle, Recording, stored
<1>1. CASE AggregateParents \/ NoReachableTask \/ SessionBudgetSpent \/ NextIteration
           \/ AggregateOnceMore \/ SettleUnchanged
  BY <1>1 DEF AggregateParents, NoReachableTask, SessionBudgetSpent, NextIteration,
              AggregateOnceMore, SettleUnchanged, Compute, Goto, Raise
<1>2. CASE LoopTimeLimit \/ TimeLimitAfterSession \/ SettleSessionLimit
           \/ ReportFinalVerification
  BY <1>2 DEF LoopTimeLimit, TimeLimitAfterSession, SettleSessionLimit, MarkTimeLimit,
              ReportFinalVerification, Save, Goto
<1>3. CASE SelectTask \/ TaskSessionLimit
  BY <1>3 DEF SelectTask, TaskSessionLimit, Save, Goto
<1>4. CASE NothingToRun \/ SettleComplete
  BY <1>4 DEF NothingToRun, SettleComplete, FinalizeCandidateComplete,
              FinalizeContractVerification, SaveLegacyVerificationReport, Save, Compute,
              Goto, Raise
<1> QED BY <1>1, <1>2, <1>3, <1>4 DEF Outside

LEMMA LogStep ==
    ASSUME Scope # "project", TypeInv, LogInv, [Next]_vars
    PROVE  LogInv'
<1> USE DEF Idle, Recording
<1>0. mem \in ProjectState /\ disk \in ProjectState /\ disk.sessions \in Nat
  BY DEF TypeInv, TypeOK, ProjectState
<1>1. CASE UNCHANGED vars
  BY <1>1 DEF vars, stored, LogInv, SessionLogComplete
<1>2. CASE CreateProject
  <2>1. disk.sessions = 0 /\ NewProject.sessions = 0
    BY <1>2, NewProjectType DEF CreateProject, LogInv
  <2>2. mem' = NewProject /\ (disk' = mem' \/ disk' = disk) /\ logged' = logged
    BY <1>2 DEF CreateProject, Save
  <2>3. pc' \in {"start", "raised"} /\ (exists' = TRUE \/ disk' = disk)
    BY <1>2 DEF CreateProject, Save, Goto
  <2> QED BY <2>1, <2>2, <2>3 DEF LogInv, SessionLogComplete
<1>3. ASSUME NEW command \in {"start", "resume"}, LoadProject(command)
      PROVE  LogInv'
  BY <1>3 DEF LoadProject, Compute, Goto, stored, LogInv, SessionLogComplete
<1>4. CASE Startup
  <2>1. ~StartSession
    BY <1>4, StartupQuiet DEF StartSession, Compute, Goto, Quiet
  <2> QED BY <1>4, <2>1, StartupQuiet, MemoryStep, QuietStep
<1>5. CASE Outside
  <2>1. ~StartSession
    BY <1>5, OutsideQuiet DEF StartSession, Compute, Goto, Quiet
  <2>2. Iteration
    BY <1>5 DEF Outside, Iteration
  <2> QED BY <1>5, <2>1, <2>2, OutsideQuiet, MemoryStep, QuietStep
<1>6. CASE StartSession
  <2>1. mem'.sessions = mem.sessions + 1
    BY <1>6, StartSessionCounts
  <2>2. pc = "dispatch" /\ pc' = "session" /\ UNCHANGED stored
    BY <1>6 DEF StartSession, Compute, Goto
  <2> QED BY <1>0, <2>1, <2>2 DEF LogInv, SessionLogComplete, stored
<1>7. CASE EndSession
  <2>1. pc = "session" /\ pc' \in {"verify", "raised"} /\ UNCHANGED stored
    BY <1>7 DEF EndSession, RequestCompletion, RequestDecomposition, ReportBlocker,
          CompleteOnEvidence, EndWithoutSignal, TriggerDecomposition, Compute, Goto, Raise
  <2>2. mem'.sessions = mem.sessions
    BY <1>7, EndSessionKeeps DEF Kept, Continues
  <2> QED BY <2>1, <2>2 DEF LogInv, SessionLogComplete, stored
<1>8. CASE VerifyTask \/ NothingToVerify
  <2>1. pc = "verify" /\ pc' = "append" /\ UNCHANGED stored
    BY <1>8 DEF VerifyTask, NothingToVerify, Compute, Goto
  <2>2. mem'.sessions = mem.sessions
    <3>1. Iteration /\ ~StartSession
      BY <1>8, <2>1 DEF Iteration, StartSession
    <3> QED BY <3>1, IterationKeeps DEF Kept, Continues
  <2> QED BY <2>1, <2>2 DEF LogInv, SessionLogComplete, stored
<1>9. CASE AppendSession
  <2>1. mem.sessions = disk.sessions + 1
    BY <1>9 DEF AppendSession, LogInv
  <2>2. /\ pc' = "save" /\ logged' = logged \cup {disk.sessions + 1}
        /\ UNCHANGED <<mem, disk, exists>>
    BY <1>9, <2>1 DEF AppendSession, Goto
  <2>3. SessionLogComplete'
    <3>1. /\ 1..disk.sessions \subseteq logged
          /\ logged \subseteq 1..(disk.sessions + 1)
      BY DEF LogInv, SessionLogComplete
    <3>2. disk.sessions + 1 \in 1..(disk.sessions + 1)
      BY <1>0
    <3>3. /\ 1..disk.sessions \subseteq logged'
          /\ logged' \subseteq 1..(disk.sessions + 1)
      BY <2>2, <3>1, <3>2, Zenon
    <3> QED BY <2>2, <3>3, Zenon DEF SessionLogComplete
  <2> QED BY <2>1, <2>2, <2>3 DEF LogInv
<1>10. CASE SaveAfterSession
  <2>1. pc = "save" /\ mem' = mem /\ logged' = logged
    BY <1>10 DEF SaveAfterSession, Save
  <2>2. CASE GraphValid(mem')
    <3>1. disk' = mem /\ exists' = TRUE /\ pc' = "check"
      BY <1>10, <2>1, <2>2 DEF SaveAfterSession, Save, Goto
    <3>2. /\ disk'.sessions = disk.sessions + 1
          /\ disk.sessions + 1 \in logged
      BY <2>1, <3>1 DEF LogInv
    <3> QED BY <1>0, <2>1, <3>1, <3>2 DEF LogInv, SessionLogComplete
  <2>3. CASE ~GraphValid(mem')
    <3>1. UNCHANGED <<disk, exists>> /\ pc' = "raised"
      BY <1>10, <2>3 DEF SaveAfterSession, Save
    <3> QED BY <2>1, <3>1 DEF LogInv, SessionLogComplete
  <2> QED BY <2>2, <2>3
<1>11. CASE VerifyProject
  BY <1>11 DEF VerifyProject
<1>12. CASE Exit \/ Crash
  BY <1>12 DEF Exit, Crash, Stop, stored, LogInv, SessionLogComplete
<1>13. CASE EditContract
  BY <1>13 DEF EditContract, LogInv, SessionLogComplete
<1> QED BY <1>1, <1>2, <1>3, <1>4, <1>5, <1>6, <1>7, <1>8, <1>9, <1>10, <1>11, <1>12,
           <1>13 DEF Next, Command, Run, Iteration, Outside

\* Whatever crashes, every session the saved state counts has its record, and at
\* most one record is ahead of it.
THEOREM LogIsComplete == Scope # "project" => (Spec => []SessionLogComplete)
<1> SUFFICES ASSUME Scope # "project"
             PROVE  Spec => []SessionLogComplete
  OBVIOUS
<1>1. Init => LogInv
  BY NewProjectType DEF Init, LogInv, SessionLogComplete, Idle, Recording
<1>2. TypeInv /\ LogInv /\ [Next]_vars => LogInv'
  BY LogStep
<1>3. LogInv => SessionLogComplete
  BY DEF LogInv
<1> QED BY <1>1, <1>2, <1>3, InitTypes, TypeStep, PTL DEF Spec
=============================================================================
