-------------------------- MODULE SchedulingProofs --------------------------
(***************************************************************************)
(* Theorems about how the orchestrator schedules, verifies and saves the   *)
(* tasks of a project, for every plan, configuration, verdict and crash.   *)
(*                                                                         *)
(* StatesInv is the invariant of the tree of tasks: it holds of the state  *)
(* in memory and of the state on disk, and the running process never knows *)
(* less than the disk.  A task that claims completion holds one surprise:  *)
(* the claim may be taken back by the verdict before it is ever saved, so  *)
(* what the process is sure of (Sure) is the state without the claim.      *)
(*                                                                         *)
(* FlowInv relates the program counter to the state: which task a session  *)
(* works on, and which tasks resume still has to decompose.                *)
(***************************************************************************)
EXTENDS TaskTreeProofs, FiniteSetTheorems

Running == WithStatus(mem, {"in_progress"})

StatesInv ==
    /\ StateInv(disk) /\ StateInv(mem) /\ StateInv(Sure)
    /\ pc # "down" => Forward(disk, Sure)

Alone(T) == \A t, u \in T : t = u

\* Every parent that is not complete has a child that is not.
Waiting(S) ==
    \A t \in WithStatus(S, {"decomposed"}) :
        \E c \in Children(S, t) : S.tasks[c].status \notin Complete

\* The locations of a final verification whose legacy contract is saved.
Reporting == {"report", "report_last"}

FlowInv ==
    /\ GraphValid(disk)
    /\ ~exists => disk = NewProject
    /\ pc \in {"dispatch", "session"} => GraphValid(mem)
    /\ pc = "dispatch" /\ cur # None =>
          /\ cur \in Tasks(mem) /\ mem.active = cur
          /\ mem.tasks[cur].status \in {"ready", "in_progress"}
    /\ pc = "session" => cur \in Running /\ mem.active = cur
    /\ pc = "verify" => cur \in Tasks(mem)
    /\ pc \in {"verify", "append", "save", "check"} =>
          mem.duplicateKeys \/ GraphValid(mem)
    /\ pc \notin {"forced", "raised"} => todo = {}
    /\ pc = "forced" => todo \subseteq Running
    /\ pc # "raised" => Alone(Running \ todo)
    /\ pc = "select" => Waiting(mem)
    /\ pc \in Reporting => Scope = "none" /\ AllLeavesComplete(mem)

SchedulingInv == TypeInv /\ StatesInv /\ FlowInv

-----------------------------------------------------------------------------
\* What a step may do to the states.

\* Something is saved, and what is saved is valid, or nothing is.
Written ==
    \/ disk' = disk /\ exists' = exists
    \/ disk' = mem' /\ exists' = TRUE /\ GraphValid(mem')

\* A step that ends with a state to rely on.
Effect ==
    /\ mem' \in ProjectState /\ StateInv(mem') /\ Forward(Sure, mem')
    /\ Written
    /\ pc' = "raised" \/ Running' \ todo' \subseteq Running \ todo

LEMMA SaveWrites ==
    ASSUME NEW S, NEW next, Save(S, next)
    PROVE  /\ mem' = S /\ Written /\ pc' \in {next, "raised"}
           /\ pc' # "raised" => GraphValid(mem')
BY DEF Save, Goto, Written

LEMMA ComputeWrites ==
    ASSUME NEW S, NEW next, Compute(S, next)
    PROVE  mem' = S /\ Written /\ pc' = next
BY DEF Compute, Goto, Written, stored

LEMMA NotClaimed ==
    ASSUME pc # "verify"
    PROVE  Sure = mem
BY DEF Sure, Claimed

\* A claim and its withdrawal.
LEMMA UndoneOnly ==
    ASSUME NEW S \in ProjectState, NEW t \in Tasks(S)
    PROVE  LET U == [S EXCEPT !.tasks[t].status = "in_progress"]
           IN  /\ OnlyTask(S, U, t) /\ OnlyTask(U, S, t) /\ Tasks(U) = Tasks(S)
               /\ U \in ProjectState
               /\ U.tasks[t].status = "in_progress"
               /\ U.tasks[t].blocker = S.tasks[t].blocker
               /\ U.tasks[t].vstat = S.tasks[t].vstat
               /\ U.tasks[t].reopens = S.tasks[t].reopens
               /\ U.illegal = S.illegal /\ U.active = S.active
<1> DEFINE node == [S.tasks[t] EXCEPT !.status = "in_progress"]
           f == [S.tasks EXCEPT ![t] = node]
           U == [S EXCEPT !.tasks[t].status = "in_progress"]
<1>1. U = [S EXCEPT !.tasks = f]
  BY Zenon
<1>2. t \in TaskId /\ S.tasks[t] \in TaskNode
  BY TaskFields
<1>3. /\ node \in TaskNode /\ node.status = "in_progress"
      /\ node.reopens = S.tasks[t].reopens /\ node.blocker = S.tasks[t].blocker
      /\ node.vstat = S.tasks[t].vstat /\ node.parent = S.tasks[t].parent
      /\ node.depth = S.tasks[t].depth /\ node.deps = S.tasks[t].deps
  BY <1>2 DEF TaskNode, TaskStatus
<1> HIDE DEF node
<1>4. /\ f \in [TaskId -> TaskNode] /\ f[t] = node
      /\ \A u \in TaskId \ {t} : f[u] = S.tasks[u]
  BY <1>2, <1>3 DEF ProjectState
<1> HIDE DEF f, U
<1>5. /\ U \in ProjectState /\ U.tasks = f /\ U.count = S.count /\ U.status = S.status
      /\ U.sessions = S.sessions /\ U.pattempts = S.pattempts /\ U.illegal = S.illegal
      /\ U.active = S.active /\ U.duplicateKeys = S.duplicateKeys
  BY <1>1, <1>4 DEF ProjectState
<1>6. SameTree(S, U) /\ SameTree(U, S) /\ Tasks(U) = Tasks(S)
  BY <1>3, <1>4, <1>5 DEF SameTree, Tasks
<1>7. \A u \in TaskId \ {t} : U.tasks[u] = S.tasks[u]
  BY <1>4, <1>5
<1>8. OnlyTask(S, U, t) /\ OnlyTask(U, S, t)
  BY <1>5, <1>6, <1>7 DEF OnlyTask
<1> QED BY <1>3, <1>4, <1>5, <1>6, <1>8 DEF U

\* Before its verification a claim adds nothing to what the process is sure of.
LEMMA ClaimIsForward ==
    ASSUME SchedulingInv
    PROVE  Forward(Sure, mem) /\ Sure \in ProjectState
<1>1. mem \in ProjectState
  BY DEF SchedulingInv, TypeInv, TypeOK
<1>2. CASE Claimed
  <2>1. cur \in Tasks(mem) /\ mem.tasks[cur].status = "candidate_complete" /\ Sure = Undone
    BY <1>2 DEF Claimed, SchedulingInv, FlowInv, Sure
  <2>2. /\ OnlyTask(mem, Undone, cur) /\ Tasks(Undone) = Tasks(mem)
        /\ Undone.tasks[cur].status = "in_progress"
        /\ Undone.tasks[cur].reopens = mem.tasks[cur].reopens
    BY <1>1, <2>1, UndoneOnly DEF Undone
  <2>3. /\ Undone \in ProjectState /\ Undone.count = mem.count
        /\ Undone.sessions = mem.sessions /\ Undone.pattempts = mem.pattempts
    BY <2>2 DEF OnlyTask, SameTree
  <2>4. ASSUME NEW t \in Tasks(mem)
        PROVE  /\ Undone.tasks[t].reopens <= mem.tasks[t].reopens
               /\ Undone.tasks[t].status \in Complete => mem.tasks[t].status \in Complete
    <3>1. t \in TaskId /\ mem.tasks[t].reopens \in Nat
      BY <1>1, TaskFields
    <3> QED BY <2>1, <2>2, <3>1 DEF Complete, OnlyTask
  <2> QED BY <1>1, <2>1, <2>2, <2>3, <2>4, StateCounters DEF Forward
<1>3. CASE ~Claimed
  BY <1>1, <1>3, ForwardReflexive DEF Sure
<1> QED BY <1>2, <1>3

\* Nothing changes in memory.
LEMMA SameMemory ==
    ASSUME SchedulingInv, mem' = mem, todo' = todo,
           \/ UNCHANGED <<disk, exists>>
           \/ \E next : Save(mem, next)
    PROVE  Effect
<1>1. mem' \in ProjectState /\ StateInv(mem') /\ Forward(Sure, mem')
  BY ClaimIsForward DEF SchedulingInv, TypeInv, TypeOK, StatesInv
<1>2. Written
  <2>1. CASE UNCHANGED <<disk, exists>>
    BY <2>1 DEF Written
  <2>2. ASSUME NEW next, Save(mem, next)
        PROVE  Written
    BY <2>2, SaveWrites
  <2> QED BY <2>1, <2>2
<1>3. Running' = Running
  BY DEF Running, WithStatus, Tasks
<1> QED BY <1>1, <1>2, <1>3 DEF Effect

\* The project gets a status that a complete project need not have.
LEMMA NewStatus ==
    ASSUME SchedulingInv, pc # "verify", NEW status \in ProjectStatus \ Settled, NEW next,
           Save(SetProject(mem, status), next), todo' = todo
    PROVE  Effect /\ mem'.status = status /\ pc' \in {next, "raised"}
           /\ mem'.duplicateKeys = mem.duplicateKeys
<1>1. mem \in ProjectState /\ StateInv(mem) /\ StatusMayBe(mem, status) /\ Sure = mem
  BY NotClaimed DEF SchedulingInv, TypeInv, TypeOK, StatesInv, StatusMayBe
<1>2. mem' = SetProject(mem, status) /\ Written /\ pc' \in {next, "raised"}
  BY SaveWrites
<1>3. /\ mem' \in ProjectState /\ StateInv(mem') /\ Forward(mem, mem')
      /\ mem'.status = status /\ mem'.duplicateKeys = mem.duplicateKeys
      /\ WithStatus(mem', {"in_progress"}) = WithStatus(mem, {"in_progress"})
  BY <1>1, <1>2, SetProjectKeeps
<1>4. Running' = Running
  BY <1>3 DEF Running
<1> QED BY <1>1, <1>2, <1>3, <1>4 DEF Effect

\* What the finalization of a complete project leaves.
Finalized(next) ==
    /\ Effect /\ pc' \in {next, "raised"} /\ Running' = {}
    /\ pc' # "raised" => GraphValid(mem')
    /\ mem'.status = "active" => ~AllLeavesComplete(mem')
    /\ Scope # "none" /\ RequireProjectContract => mem'.status # "candidate_complete"

\* _finalize_contract_verification is only called when every leaf is complete.
LEMMA FinalizeEffect ==
    ASSUME SchedulingInv, todo' = todo, NEW S \in ProjectState, StateInv(S),
           AllLeavesComplete(S), Forward(Sure, S), NEW next,
           FinalizeContractVerification(S, next)
    PROVE  Finalized(next)
<1>1. PICK R : Save(R, next) /\ \/ \E v \in Verdicts : R = ApplyProjectVerdict(S, v)
                                \/ \E status \in {"verification_inconclusive", "candidate_complete"} :
                                      /\ R = SetProject(S, status)
                                      /\ RequireProjectContract => status # "candidate_complete"
  BY DEF FinalizeContractVerification
<1>2. /\ mem' = R /\ Written /\ pc' \in {next, "raised"}
      /\ pc' # "raised" => GraphValid(mem')
  BY <1>1, SaveWrites
<1>3. /\ R \in ProjectState /\ StateInv(R) /\ Forward(S, R)
      /\ WithStatus(R, {"in_progress"}) = {}
      /\ R.status = "active" => ~AllLeavesComplete(R)
      /\ RequireProjectContract => R.status # "candidate_complete"
  <2>1. CASE \E v \in Verdicts : R = ApplyProjectVerdict(S, v)
    BY <2>1, ProjectVerdictKeeps, OrchestratorAssumption
  <2>2. ASSUME NEW status \in {"verification_inconclusive", "candidate_complete"},
               R = SetProject(S, status),
               RequireProjectContract => status # "candidate_complete"
        PROVE  <1>3!:
    <3>1. status \in ProjectStatus /\ StatusMayBe(S, status)
      BY DEF ProjectStatus, StatusMayBe, Settled
    <3>2. /\ R \in ProjectState /\ StateInv(R) /\ Forward(S, R) /\ R.status = status
          /\ WithStatus(R, {"in_progress"}) = WithStatus(S, {"in_progress"})
      BY <2>2, <3>1, SetProjectKeeps
    <3>3. ASSUME NEW t \in WithStatus(S, {"in_progress"})
          PROVE  FALSE
      <4>1. t \in Tasks(S) /\ S.tasks[t].status \in Open
        BY DEF WithStatus, Open
      <4> QED BY <4>1, OpenProject
    <3> QED BY <2>2, <3>2, <3>3
  <2> QED BY <1>1, <2>1, <2>2
<1>4. Forward(Sure, R)
  BY <1>3, ClaimIsForward, ForwardTransitive
<1>5. Running' = {}
  BY <1>2, <1>3 DEF Running
<1> QED BY <1>2, <1>3, <1>4, <1>5 DEF Effect, Finalized

\* A complete project has no task in progress.
LEMMA NothingRuns ==
    ASSUME NEW S \in ProjectState, StateInv(S), AllLeavesComplete(S)
    PROVE  WithStatus(S, {"in_progress"}) = {}
<1> SUFFICES ASSUME NEW t \in WithStatus(S, {"in_progress"})
             PROVE  FALSE
  OBVIOUS
<1>1. t \in Tasks(S) /\ S.tasks[t].status \in Open
  BY DEF WithStatus, Open
<1> QED BY <1>1, OpenProject

LEMMA FinalStatusEffect ==
    ASSUME SchedulingInv, todo' = todo, NEW S \in ProjectState, StateInv(S),
           AllLeavesComplete(S), Forward(Sure, S), NEW next, Scope = "none",
           NEW status \in FinalOutcomes, Save(SetProject(S, status), next)
    PROVE  Finalized(next)
<1> DEFINE R == SetProject(S, status)
<1>1. /\ mem' = R /\ Written /\ pc' \in {next, "raised"}
      /\ pc' # "raised" => GraphValid(mem')
  BY SaveWrites
<1>2. /\ status \in ProjectStatus /\ StatusMayBe(S, status)
      /\ status \in {"candidate_complete", "failed"}
  BY DEF FinalOutcomes, ProjectStatus, StatusMayBe, Settled
<1>3. /\ R \in ProjectState /\ StateInv(R) /\ Forward(S, R) /\ R.status = status
      /\ WithStatus(R, {"in_progress"}) = WithStatus(S, {"in_progress"})
  BY <1>2, SetProjectKeeps
<1> HIDE DEF R
<1>4. Forward(Sure, R)
  BY <1>3, ClaimIsForward, ForwardTransitive
<1>5. Running' = {}
  BY <1>1, <1>3, NothingRuns DEF Running
<1> QED BY <1>1, <1>2, <1>3, <1>4, <1>5 DEF Effect, Finalized

\* What is left when a legacy report is under way, or is refused.
Reported ==
    /\ Effect /\ Scope = "none"
    /\ pc' = "raised" \/ (pc' \in Reporting /\ AllLeavesComplete(mem'))

LEMMA FinalizeCandidateEffect ==
    ASSUME SchedulingInv, todo' = todo, NEW S \in ProjectState, StateInv(S),
           AllLeavesComplete(S), Forward(Sure, S), NEW next,
           FinalizeCandidateComplete(S, next)
    PROVE  Finalized(next) \/ Reported
<1>1. CASE Scope # "none" /\ FinalizeContractVerification(S, next)
  BY <1>1, FinalizeEffect
<1>2. ASSUME Scope = "none", NEW status \in FinalOutcomes,
             Save(SetProject(S, status), next)
      PROVE  Finalized(next)
  BY <1>2, FinalStatusEffect
<1>3. CASE Scope = "none" /\ SaveLegacyVerificationReport(S, next)
  <2>1. CASE mem' = S /\ UNCHANGED <<disk, exists>> /\ pc' \in Reporting
    <3>1. Running' = {}
      BY <2>1, NothingRuns DEF Running
    <3> QED BY <1>3, <2>1, <3>1 DEF Reported, Effect, Written
  <2>2. CASE mem' = mem /\ UNCHANGED <<disk, exists>> /\ pc' = "raised"
    BY <1>3, <2>2, SameMemory DEF Reported
  <2> QED BY <1>3, <2>1, <2>2
          DEF SaveLegacyVerificationReport, Goto, Raise, stored, Reporting
<1> QED BY <1>1, <1>2, <1>3 DEF FinalizeCandidateComplete

LEMMA ReportEffect ==
    ASSUME SchedulingInv, ReportFinalVerification
    PROVE  /\ todo' = todo /\ cfg' = cfg /\ Scope = "none" /\ pc \in Reporting
           /\ \E next \in {"post", "returned"} : Finalized(next)
<1>1. /\ mem \in ProjectState /\ StateInv(mem) /\ AllLeavesComplete(mem)
      /\ Forward(Sure, mem) /\ todo' = todo /\ cfg' = cfg /\ Scope = "none"
      /\ pc \in Reporting
  BY ClaimIsForward
     DEF SchedulingInv, TypeInv, TypeOK, StatesInv, FlowInv, ReportFinalVerification,
         Reporting, local
<1>2. PICK status \in FinalOutcomes, next \in {"post", "returned"} :
        Save(SetProject(mem, status), next)
  BY DEF ReportFinalVerification
<1> QED BY <1>1, <1>2, FinalStatusEffect

\* A failed task that resume decomposes first.
LEMMA ForcedTask ==
    ASSUME SchedulingInv, pc = "forced"
    PROVE  LET t == CHOOSE u \in todo : \A w \in todo : u <= w
           IN  t \in todo /\ t \in Running /\ t \in Tasks(mem)
<1>1. todo # {} /\ todo \subseteq Nat /\ todo \subseteq Running
  BY TaskStateAssumption DEF SchedulingInv, TypeInv, TypeOK, FlowInv, TaskId
<1>2. \E u \in todo : \A w \in todo : u <= w
  BY <1>1, Smallest
<1>3. Running \subseteq Tasks(mem)
  BY DEF Running, WithStatus
<1> QED BY <1>1, <1>2, <1>3

\* A task in progress has no claim, no blocker and no verdict.
LEMMA InProgress ==
    ASSUME NEW M \in ProjectState, StateInv(M), NEW t \in WithStatus(M, {"in_progress"})
    PROVE  Noticed(M, M, t)
<1>1. t \in Tasks(M) /\ M.tasks[t].status = "in_progress"
  BY DEF WithStatus
<1>2. OnlyTask(M, M, t)
  BY DEF OnlyTask, SameTree
<1> QED BY <1>1, <1>2 DEF Noticed, StateInv, ProjectInv

\* _trigger_decomposition of a task in progress.
LEMMA TriggerEffect ==
    ASSUME SchedulingInv, Sure = mem, NEW S, NEW t, Noticed(mem, S, t),
           NEW force, NEW asked, NEW next,
           TriggerDecomposition(S, t, force, asked, next)
    PROVE  /\ mem' \in ProjectState /\ StateInv(mem') /\ Forward(mem, mem')
           /\ UNCHANGED stored
           /\ mem'.status = mem.status /\ Counted(mem, mem')
           /\ \/ /\ pc' = next /\ Ended(mem, mem', t)
                 /\ mem'.tasks[t].status \in {"decomposed", "blocked", "ready"}
              \/ pc' = "raised" /\ mem' = mem
<1>1. mem \in ProjectState /\ StateInv(mem)
  BY DEF SchedulingInv, TypeInv, TypeOK, StatesInv
<1>2. CASE \E R \in Recoveries(S, t, force) : Compute(R, next)
  <2>1. PICK R \in Recoveries(S, t, force) : Compute(R, next)
    BY <1>2
  <2>2. Ended(mem, R, t) /\ R.tasks[t].status \in {"decomposed", "blocked", "ready"}
    BY <1>1, <2>1, RecoveriesEnd
  <2>3. mem' = R /\ pc' = next /\ UNCHANGED stored
    BY <2>1 DEF Compute, Goto
  <2> QED BY <2>2, <2>3 DEF Ended
<1>3. CASE \E what : Raise(what)
  <2>1. mem' = mem /\ pc' = "raised" /\ UNCHANGED stored
    BY <1>3 DEF Raise
  <2> QED BY <1>1, <2>1, ForwardReflexive DEF Counted
<1> QED BY <1>2, <1>3 DEF TriggerDecomposition

LEMMA DecomposeFailedEffect ==
    ASSUME SchedulingInv, DecomposeFailedTask
    PROVE  /\ Effect /\ pc' \in {"forced", "run", "raised"} /\ UNCHANGED stored
           /\ mem'.status = mem.status /\ Counted(mem, mem')
           /\ pc' = "run" => todo' = {}
           /\ pc' = "forced" => todo' \subseteq Running'
<1> DEFINE t == CHOOSE u \in todo : \A w \in todo : u <= w
           next == IF todo = {t} THEN "run" ELSE "forced"
<1>1. /\ pc = "forced" /\ TriggerDecomposition(mem, t, TRUE, FALSE, next)
      /\ todo' = todo \ {t}
  BY Zenon DEF DecomposeFailedTask
<1>2. t \in todo /\ t \in Running /\ todo \subseteq Running /\ Sure = mem
  BY <1>1, ForcedTask, NotClaimed DEF SchedulingInv, FlowInv
<1>7. next \in {"forced", "run"} /\ (next = "run" => todo = {t})
  OBVIOUS
<1> HIDE DEF t, next
<1>3. Noticed(mem, mem, t)
  BY <1>2, InProgress DEF SchedulingInv, TypeInv, TypeOK, StatesInv, Running
<1>4. /\ mem' \in ProjectState /\ StateInv(mem') /\ Forward(mem, mem')
      /\ UNCHANGED stored /\ mem'.status = mem.status /\ Counted(mem, mem')
      /\ \/ pc' = next /\ Ended(mem, mem', t)
         \/ pc' = "raised" /\ mem' = mem
  BY <1>1, <1>2, <1>3, TriggerEffect
<1>5. CASE pc' = next /\ Ended(mem, mem', t)
  <2>1. Running' = Running \ {t}
    BY <1>5 DEF Ended, Running
  <2>2. Written
    BY <1>4 DEF stored, Written
  <2>3. pc' \in {"forced", "run"} /\ (pc' = "run" => todo' = {})
    BY <1>1, <1>5, <1>7
  <2> QED BY <1>1, <1>2, <1>4, <2>1, <2>2, <2>3 DEF Effect
<1>6. CASE pc' = "raised" /\ mem' = mem
  <2>1. Running' = Running
    BY <1>6 DEF Running
  <2>2. Written
    BY <1>4 DEF stored, Written
  <2> QED BY <1>1, <1>2, <1>4, <1>6, <2>1, <2>2 DEF Effect
<1> QED BY <1>4, <1>5, <1>6

-----------------------------------------------------------------------------
\* The steps before the loop.

LEMMA ReactivateEffect ==
    ASSUME SchedulingInv, Reactivate
    PROVE  /\ Effect /\ pc' \in {"forced", "run"} /\ UNCHANGED stored
           /\ mem'.status = "candidate_complete" => mem' = mem
           /\ pc' = "run" => todo' = {}
           /\ pc' = "forced" => todo' \subseteq Running' /\ mem'.status = "active"
<1> DEFINE failed == WithStatus(mem, {"failed"})
           force  == {t \in failed : NoProgressDecompositionRequired(mem, t)}
           retry  == {t \in failed \ force :
                        mem.tasks[t].sessions < cfg.maxTaskSessions}
           S      == SetStatus(SetStatus(mem, force, "in_progress"), retry, "ready")
           a      == IF force = {} THEN S.active
                     ELSE CHOOSE t \in force : \A u \in force : u <= t
           R      == [S EXCEPT !.status = "active", !.active = a]
<1>1. /\ pc = "reactivate" /\ UNCHANGED stored
      /\ \/ mem' = R /\ todo' = force /\ pc' = IF force = {} THEN "run" ELSE "forced"
         \/ mem' = mem /\ todo' = {} /\ pc' = "run"
  BY Zenon DEF Reactivate, Compute, Goto
<1>2. /\ mem \in ProjectState /\ StateInv(mem) /\ Sure = mem /\ todo = {}
  BY <1>1, NotClaimed DEF SchedulingInv, TypeInv, TypeOK, StatesInv, FlowInv
<1>3. force \cup retry \subseteq failed /\ force \cap retry = {} /\ force \subseteq TaskId
  BY <1>2, TasksType DEF WithStatus
<1>4. Written
  BY <1>1 DEF stored, Written
<1>5. CASE mem' = R /\ todo' = force /\ pc' = IF force = {} THEN "run" ELSE "forced"
  <2>1. S.active \in 0..MaxTasks
    <3>1. mem' \in ProjectState
      BY <1>1, MemoryStep DEF SchedulingInv, Startup
    <3>2. "in_progress" \in TaskStatus /\ "ready" \in TaskStatus
      BY DEF TaskStatus
    <3> HIDE DEF force, retry
    <3>3. SetStatus(mem, force, "in_progress") \in ProjectState
      BY <1>2, <3>2, SetStatusFields
    <3>4. S \in ProjectState
      BY <3>2, <3>3, SetStatusFields
    <3> HIDE DEF S
    <3> QED BY <3>4 DEF ProjectState
  <2>2. a \in 0..MaxTasks
    <3>1. CASE force = {}
      BY <2>1, <3>1
    <3>2. CASE force # {}
      <4> HIDE DEF force
      <4>1. \E t \in force : \A u \in force : u <= t
        BY <1>3, <3>2, Largest
      <4>2. a = CHOOSE t \in force : \A u \in force : u <= t
        BY <3>2
      <4> HIDE DEF a
      <4>3. a \in force
        BY <4>1, <4>2
      <4> QED BY <1>3, <4>3, TaskStateAssumption DEF TaskId
    <3> QED BY <3>1, <3>2
  <2> HIDE DEF force, retry, a
  <2>3. /\ R \in ProjectState /\ StateInv(R) /\ Forward(mem, R)
        /\ WithStatus(R, {"in_progress"}) = WithStatus(mem, {"in_progress"}) \cup force
        /\ R.status = "active"
    <3>1. R = Activated(S, a)
      BY Zenon DEF Activated
    <3> HIDE DEF R
    <3>2. PICK P : P = SetStatus(mem, force, "in_progress")
      OBVIOUS
    <3>3. S = SetStatus(P, retry, "ready")
      BY <3>2
    <3> HIDE DEF S
    <3> QED BY <1>2, <1>3, <2>2, <3>1, <3>2, <3>3, ReactivateKeeps
  <2> HIDE DEF R
  <2>4. Running' = Running \cup force
    BY <1>5, <2>3 DEF Running
  <2>5. mem'.status = "active"
    BY <1>5, <2>3
  <2> QED BY <1>1, <1>2, <1>4, <1>5, <2>3, <2>4, <2>5 DEF Effect
<1>6. CASE mem' = mem /\ todo' = {} /\ pc' = "run"
  <2>1. Running' = Running /\ Forward(mem, mem)
    BY <1>2, <1>6, ForwardReflexive DEF Running
  <2> QED BY <1>1, <1>2, <1>4, <1>6, <2>1 DEF Effect
<1> QED BY <1>1, <1>5, <1>6

LEMMA RecordContractEffect ==
    ASSUME SchedulingInv, RecordContract
    PROVE  Effect /\ mem'.status = mem.status /\ Counted(mem, mem') /\ todo' = todo
<1>1. PICK b \in BOOLEAN : Save([mem EXCEPT !.contractId = b], AfterInitialization)
  BY DEF RecordContract
<1>2. /\ mem \in ProjectState /\ StateInv(mem) /\ Sure = mem /\ todo' = todo
  BY NotClaimed DEF SchedulingInv, TypeInv, TypeOK, StatesInv, RecordContract, local
<1>3. mem' = [mem EXCEPT !.contractId = b] /\ Written
  BY <1>1, SaveWrites
<1>4. /\ mem' \in ProjectState /\ StateInv(mem') /\ Forward(mem, mem')
      /\ mem'.status = mem.status /\ Counted(mem, mem')
      /\ WithStatus(mem', {"in_progress"}) = WithStatus(mem, {"in_progress"})
  BY <1>2, <1>3, ContractIdKeeps
<1> QED BY <1>2, <1>3, <1>4 DEF Effect, Running

LEMMA CreateInitialPlanEffect ==
    ASSUME SchedulingInv, CreateInitialPlan
    PROVE  Effect /\ mem'.status = mem.status /\ Counted(mem, mem') /\ todo' = todo
           /\ pc' \in {"run", "raised"}
<1>1. PICK plan \in Plans, b \in BOOLEAN :
         Save([AddTasks(mem, None, plan) EXCEPT !.contractId = @ \/ b], "run")
  BY Zenon DEF CreateInitialPlan
<1>2. /\ mem \in ProjectState /\ StateInv(mem) /\ Sure = mem /\ mem.count = 0
      /\ plan \in Plan /\ todo' = todo
  BY NotClaimed, OrchestratorAssumption
     DEF SchedulingInv, TypeInv, TypeOK, StatesInv, CreateInitialPlan, local
<1> DEFINE R == [AddTasks(mem, None, plan) EXCEPT !.contractId = @ \/ b]
<1>3. mem' = R /\ Written /\ pc' \in {"run", "raised"}
  BY <1>1, SaveWrites
<1>4. /\ R \in ProjectState /\ StateInv(R) /\ Forward(mem, R)
      /\ R.status = mem.status /\ Counted(mem, R)
      /\ WithStatus(R, {"in_progress"}) = {}
  BY <1>2, InitialPlanKeeps
<1> HIDE DEF R
<1>5. Running' = {}
  BY <1>3, <1>4 DEF Running
<1> QED BY <1>2, <1>3, <1>4, <1>5 DEF Effect

\* A task verification could not judge is judged again.
LEMMA RetryEffect ==
    ASSUME SchedulingInv, RetryInfrastructure
    PROVE  Effect /\ mem'.status = mem.status /\ Counted(mem, mem') /\ todo' = todo
           /\ UNCHANGED stored /\ pc' = "retry"
<1>1. /\ mem \in ProjectState /\ StateInv(mem) /\ Sure = mem /\ todo' = todo
      /\ UNCHANGED stored /\ Written /\ pc' = "retry"
  BY NotClaimed DEF SchedulingInv, TypeInv, TypeOK, StatesInv, RetryInfrastructure, local,
                    Compute, Goto, stored, Written
<1>2. CASE mem' = mem
  BY <1>1, <1>2, ForwardReflexive DEF Effect, Running, Counted
<1>3. ASSUME NEW t \in WithStatus(mem, {"blocked"}), NeedsTaskVerification(mem, t),
             NEW v \in Verdicts, mem' = VerifyTaskCandidate(mem, t, v)
      PROVE  Effect /\ mem'.status = mem.status /\ Counted(mem, mem')
  <2>1. t \in Tasks(mem) /\ mem.tasks[t].status = "blocked"
        /\ mem.tasks[t].vstat = "infrastructure_error" /\ v \in Verdict
    BY <1>3, OrchestratorAssumption DEF WithStatus, NeedsTaskVerification
  <2>2. TaskInv(mem, t) /\ ~mem.illegal
    BY <1>1, <2>1 DEF StateInv, ProjectInv
  <2>3. ~mem.tasks[t].blocker /\ mem.tasks[t].reopens <= MaxReopens
    BY <2>1, <2>2 DEF TaskInv, Halted, Noted, Complete
  <2>4. OnlyTask(mem, mem, t)
    BY <1>1 DEF OnlyTask, SameTree
  <2>5. /\ mem' \in ProjectState /\ StateInv(mem') /\ Forward(mem, mem')
        /\ mem'.status = mem.status /\ Counted(mem, mem')
        /\ WithStatus(mem', {"in_progress"}) = WithStatus(mem, {"in_progress"}) \ {t}
    BY <1>1, <1>3, <2>1, <2>2, <2>3, <2>4, VerifyTaskKeeps DEF Open
  <2>6. Running' \subseteq Running
    BY <2>5 DEF Running
  <2> QED BY <1>1, <2>5, <2>6 DEF Effect
<1> QED BY <1>1, <1>2, <1>3 DEF RetryInfrastructure, Compute

-----------------------------------------------------------------------------
\* The steps of the loop.

LEMMA AggregateEffect ==
    ASSUME SchedulingInv, AggregateParents \/ AggregateOnceMore
    PROVE  /\ Effect /\ mem'.status = mem.status /\ Counted(mem, mem') /\ todo' = todo
           /\ UNCHANGED stored /\ Waiting(mem')
<1>1. /\ mem \in ProjectState /\ StateInv(mem) /\ Sure = mem /\ todo' = todo
      /\ UNCHANGED stored /\ Written /\ mem' = Aggregate(mem)
  BY NotClaimed DEF SchedulingInv, TypeInv, TypeOK, StatesInv, AggregateParents,
                    AggregateOnceMore, local, Compute, Goto, stored, Written
<1>2. /\ mem' \in ProjectState /\ StateInv(mem') /\ Forward(mem, mem') /\ Counted(mem, mem')
      /\ mem'.status = mem.status
      /\ WithStatus(mem', {"in_progress"}) = WithStatus(mem, {"in_progress"})
      /\ \A t \in WithStatus(mem', {"decomposed"}) :
            \E c \in Children(mem', t) : mem'.tasks[c].status \notin Complete
  BY <1>1, AggregateLifts
<1> QED BY <1>1, <1>2 DEF Effect, Running, Waiting

LEMMA SelectEffect ==
    ASSUME SchedulingInv, SelectTask
    PROVE  /\ Effect /\ Counted(mem, mem') /\ todo' = todo
           /\ pc' \in {"dispatch", "raised"} /\ (pc' # "raised" => GraphValid(mem'))
           /\ cur' # None => /\ mem'.active = cur' /\ cur' \in Tasks(mem')
                             /\ mem'.tasks[cur'].status \in {"ready", "in_progress"}
<1>1. /\ mem \in ProjectState /\ StateInv(mem) /\ Sure = mem /\ todo' = todo
      /\ cur' = NextTask(mem)
  BY NotClaimed DEF SchedulingInv, TypeInv, TypeOK, StatesInv, SelectTask
<1>2. /\ mem' = SelectNext(mem) /\ Written /\ pc' \in {"dispatch", "raised"}
      /\ pc' # "raised" => GraphValid(mem')
  BY SaveWrites DEF SelectTask
<1>3. /\ mem' \in ProjectState /\ StateInv(mem') /\ Forward(mem, mem') /\ Counted(mem, mem')
      /\ WithStatus(mem', {"in_progress"}) = WithStatus(mem, {"in_progress"})
      /\ cur' # None => /\ mem'.active = cur' /\ cur' \in Tasks(mem')
                        /\ mem'.tasks[cur'].status \in {"ready", "in_progress"}
  BY <1>1, <1>2, SelectNextKeeps
<1> QED BY <1>1, <1>2, <1>3 DEF Effect, Running

LEMMA NothingToRunEffect ==
    ASSUME SchedulingInv, NothingToRun
    PROVE  /\ Effect /\ todo' = todo
           /\ pc' \in {"post", "raised"} \/ Reported
           /\ Scope # "none" /\ RequireProjectContract => mem'.status # "candidate_complete"
<1>1. /\ mem \in ProjectState /\ StateInv(mem) /\ Sure = mem /\ todo' = todo
  BY NotClaimed DEF SchedulingInv, TypeInv, TypeOK, StatesInv, NothingToRun, local
<1>2. CASE mem.status = "candidate_complete"
           /\ FinalizeCandidateComplete(SetProject(mem, "active"), "post")
  <2> DEFINE S == SetProject(mem, "active")
  <2>1. /\ "active" \in ProjectStatus /\ StatusMayBe(mem, "active")
        /\ AllLeavesComplete(mem)
    BY <1>1, <1>2 DEF ProjectStatus, StatusMayBe, Settled, StateInv, ProjectInv
  <2>2. /\ S \in ProjectState /\ StateInv(S) /\ Forward(mem, S)
        /\ AllLeavesComplete(S) = AllLeavesComplete(mem)
    BY <1>1, <2>1, SetProjectKeeps
  <2> HIDE DEF S
  <2>3. Finalized("post") \/ Reported
    BY <1>1, <1>2, <2>1, <2>2, FinalizeCandidateEffect DEF S
  <2> QED BY <1>1, <2>3 DEF Finalized, Reported
<1>3. CASE mem.status # "candidate_complete"
           /\ (Save(mem, "post") \/ Compute(mem, "post"))
  <2>1. mem' = mem /\ pc' \in {"post", "raised"}
    BY <1>3, SaveWrites, ComputeWrites
  <2>2. UNCHANGED <<disk, exists>> \/ \E next : Save(mem, next)
    BY <1>3 DEF Compute, stored
  <2> QED BY <1>1, <1>3, <2>1, <2>2, SameMemory
<1> QED BY <1>2, <1>3 DEF NothingToRun

LEMMA SessionLimitEffect ==
    ASSUME SchedulingInv, TaskSessionLimit
    PROVE  /\ Effect /\ todo' = todo /\ pc' \in {"post", "raised"}
           /\ mem'.status = "failed"
<1>1. /\ mem \in ProjectState /\ StateInv(mem) /\ Sure = mem /\ todo' = todo
      /\ cur \in Tasks(mem) /\ mem.tasks[cur].status \in {"ready", "in_progress"}
  BY NotClaimed DEF SchedulingInv, TypeInv, TypeOK, StatesInv, FlowInv, TaskSessionLimit, local
<1>2. /\ mem' = SetProject(Transition(mem, cur, "failed"), "failed") /\ Written
      /\ pc' \in {"post", "raised"}
  BY SaveWrites DEF TaskSessionLimit
<1>3. /\ mem' \in ProjectState /\ StateInv(mem') /\ Forward(mem, mem')
      /\ mem'.status = "failed"
      /\ WithStatus(mem', {"in_progress"}) = WithStatus(mem, {"in_progress"}) \ {cur}
  BY <1>1, <1>2, FailedKeeps
<1>4. Running' \subseteq Running
  BY <1>3 DEF Running
<1> QED BY <1>1, <1>2, <1>3, <1>4 DEF Effect

LEMMA StartSessionEffect ==
    ASSUME SchedulingInv, StartSession
    PROVE  /\ mem' \in ProjectState /\ StateInv(mem') /\ Forward(mem, mem')
           /\ UNCHANGED stored /\ pc' = "session" /\ todo' = todo /\ cur' = cur
           /\ GraphValid(mem') /\ cur \in Running' /\ mem'.active = cur
           /\ mem'.status = mem.status
<1> DEFINE S == Sitting(mem, cur)
           n == S.sessions + 1
           m == S.tasks[cur].sessions + 1
<1>1. /\ mem \in ProjectState /\ StateInv(mem) /\ cur \in Tasks(mem) /\ mem.active = cur
      /\ mem.tasks[cur].status \in {"ready", "in_progress"} /\ GraphValid(mem)
      /\ UNCHANGED stored /\ pc' = "session" /\ todo' = todo /\ cur' = cur
  BY DEF SchedulingInv, TypeInv, TypeOK, StatesInv, FlowInv, StartSession, local,
         Compute, Goto
<1>2. mem' = SessionCounted(S, cur, n, m)
  BY Zenon DEF StartSession, Compute, Sitting, SessionCounted
<1>3. S \in ProjectState /\ S.sessions = mem.sessions /\ cur \in TaskId
  BY <1>1, TaskFields, TransitionContinues DEF Continues, TaskStatus, Sitting
<1>4. n \in Nat /\ mem.sessions <= n /\ m \in Nat
  <2> HIDE DEF S
  <2>1. S.tasks[cur] \in TaskNode /\ S.sessions \in Nat
    BY <1>3 DEF ProjectState
  <2> QED BY <1>3, <2>1 DEF TaskNode
<1>5. mem' = SessionCounted(Sitting(mem, cur), cur, n, m)
  BY <1>2
<1> HIDE DEF S, n, m
<1>6. /\ mem' \in ProjectState /\ StateInv(mem') /\ Forward(mem, mem')
      /\ mem'.tasks[cur].status = "in_progress" /\ mem'.active = cur
      /\ Tasks(mem') = Tasks(mem) /\ mem'.status = mem.status
      /\ mem'.duplicateKeys = mem.duplicateKeys
      /\ WithStatus(mem', {"in_progress"}) = WithStatus(mem, {"in_progress"}) \cup {cur}
  BY <1>1, <1>4, <1>5, SessionKeeps
<1>7. GraphValid(mem')
  <2>1. ~mem'.duplicateKeys /\ \A t \in WithStatus(mem, {"in_progress"}) : t = cur
    BY <1>1, <1>6 DEF GraphValid
  <2> QED BY <1>1, <1>6, <2>1, TreeIsValid
<1> QED BY <1>1, <1>6, <1>7 DEF Running

\* What the bookkeeping of a session leaves on its task.
LEMMA NotesOnly ==
    ASSUME NEW M \in ProjectState, StateInv(M), NEW t \in WithStatus(M, {"in_progress"}),
           NEW flag \in BOOLEAN
    PROVE  LET S == NoteProgress(M, t, flag)
               B == [S EXCEPT !.tasks[t].blocker = TRUE]
           IN  /\ Noticed(M, S, t) /\ ~S.tasks[t].blocker
               /\ S.duplicateKeys = M.duplicateKeys
               /\ Noticed(M, B, t)
<1> DEFINE n == IF flag THEN M.tasks[t].noprog + 1 ELSE 0
           S == NoteProgress(M, t, flag)
           B == [S EXCEPT !.tasks[t].blocker = TRUE]
<1>1. /\ t \in Tasks(M) /\ t \in TaskId /\ M.tasks[t] \in TaskNode
      /\ M.tasks[t].status = "in_progress" /\ n \in Nat
  <2>1. t \in Tasks(M) /\ M.tasks[t].status = "in_progress"
    BY DEF WithStatus
  <2>2. t \in TaskId /\ M.tasks[t] \in TaskNode /\ M.tasks[t].noprog \in Nat
    BY <2>1, TaskFields
  <2> QED BY <2>1, <2>2
<1>2. ~M.tasks[t].blocker
  BY InProgress, NoticedFacts
<1>3. S = [M EXCEPT !.tasks[t].noprog = n]
  BY Zenon DEF NoteProgress
<1> HIDE DEF n, S
<1>4. /\ OnlyTask(M, S, t) /\ S.active = M.active /\ S.illegal = M.illegal
      /\ S.tasks[t] = [M.tasks[t] EXCEPT !.noprog = n]
  BY <1>1, <1>3, FieldOnly
<1>5. /\ S.tasks[t].status = "in_progress" /\ S.tasks[t].vstat = M.tasks[t].vstat
      /\ S.tasks[t].reopens = M.tasks[t].reopens /\ ~S.tasks[t].blocker
  BY <1>1, <1>2, <1>4 DEF TaskNode
<1>6. Noticed(M, S, t)
  BY <1>1, <1>4, <1>5 DEF Noticed, StateInv, ProjectInv
<1>7. S \in ProjectState /\ S.tasks[t] \in TaskNode
  BY <1>1, <1>4 DEF OnlyTask, ProjectState
<1>8. /\ OnlyTask(S, B, t) /\ B.active = S.active /\ B.illegal = S.illegal
      /\ B.tasks[t] = [S.tasks[t] EXCEPT !.blocker = TRUE]
  BY <1>1, <1>7, FieldOnly
<1> HIDE DEF B
<1>9. /\ B.tasks[t].status = "in_progress" /\ B.tasks[t].vstat = M.tasks[t].vstat
      /\ B.tasks[t].reopens = M.tasks[t].reopens
  BY <1>5, <1>7, <1>8 DEF TaskNode
<1>10. OnlyTask(M, B, t)
  BY <1>4, <1>8, OnlyTaskTransitive
<1>11. Noticed(M, B, t)
  BY <1>1, <1>4, <1>8, <1>9, <1>10 DEF Noticed, StateInv, ProjectInv
<1> QED BY <1>4, <1>5, <1>6, <1>11 DEF OnlyTask, S, B

\* After a session its task is a leaf again or waits for children, and what the
\* process is sure of has not changed but for the counters.
SessionEnded ==
    /\ mem' \in ProjectState /\ StateInv(mem') /\ mem'.status = mem.status
    /\ Counted(mem, mem') /\ UNCHANGED <<stored, cur, todo>>
    /\ \/ pc' = "raised" /\ mem' = mem
       \/ /\ pc' = "verify" /\ cur \in Tasks(mem')
          /\ Running' \subseteq Running
          /\ mem'.duplicateKeys \/ GraphValid(mem')
          /\ StateInv(Sure') /\ Forward(mem, Sure')

\* The task of a running session.
LEMMA CurrentSession ==
    ASSUME SchedulingInv, pc = "session"
    PROVE  /\ mem \in ProjectState /\ StateInv(mem) /\ Sure = mem
           /\ cur \in Running /\ mem.active = cur /\ GraphValid(mem) /\ cur # None
           /\ cur \in Tasks(mem) /\ Running = {cur} /\ todo = {}
<1>1. /\ mem \in ProjectState /\ StateInv(mem) /\ Sure = mem
      /\ cur \in Running /\ mem.active = cur /\ GraphValid(mem) /\ todo = {}
  BY NotClaimed DEF SchedulingInv, TypeInv, TypeOK, StatesInv, FlowInv
<1>2. cur \in Tasks(mem) /\ Running = {cur}
  BY <1>1 DEF Running, WithStatus, GraphValid
<1> QED BY <1>1, <1>2, TaskFields

\* The task has left IN_PROGRESS without a claim.
LEMMA PlainEnd ==
    ASSUME SchedulingInv, pc = "session", pc' = "verify", UNCHANGED <<stored, cur, todo>>,
           Ended(mem, mem', cur), mem'.tasks[cur].status # "candidate_complete"
    PROVE  SessionEnded
<1>1. /\ Sure' = mem' /\ Running' = {} /\ mem'.active = None /\ cur \in Tasks(mem')
  BY CurrentSession DEF Ended, Running, Sure, Claimed
<1>2. mem'.duplicateKeys \/ GraphValid(mem')
  <2>1. ASSUME ~mem'.duplicateKeys
        PROVE  GraphValid(mem')
    <3>1. \A t \in WithStatus(mem', {"in_progress"}) : mem'.active = t
      BY <1>1 DEF Running
    <3> QED BY <1>1, <2>1, <3>1, TreeIsValid DEF Ended
  <2> QED BY <2>1
<1> QED BY <1>1, <1>2 DEF SessionEnded, Ended

\* The task claims completion.
LEMMA ClaimEnd ==
    ASSUME SchedulingInv, pc = "session", UNCHANGED <<stored, cur, todo>>,
           NEW S, Noticed(mem, S, cur), ~S.tasks[cur].blocker,
           mem' = Transition(S, cur, "candidate_complete"), pc' = "verify"
    PROVE  SessionEnded
<1>0. mem \in ProjectState /\ StateInv(mem) /\ cur \in Tasks(mem) /\ Running = {cur}
      /\ mem.active = cur
  BY CurrentSession
<1>1. /\ Ended(mem, mem', cur) /\ mem'.tasks[cur].status = "candidate_complete"
      /\ OnlyTask(mem, mem', cur)
  BY <1>0, LeafEnds
<1>2. /\ S \in ProjectState /\ cur \in TaskId /\ OnlyTask(mem, S, cur)
      /\ S.tasks[cur].vstat = mem.tasks[cur].vstat
      /\ S.tasks[cur].reopens = mem.tasks[cur].reopens /\ mem.tasks[cur].reopens \in Nat
      /\ Noted(S.tasks[cur]) /\ S.tasks[cur].reopens <= MaxReopens
      /\ S.tasks[cur].vstat # "infrastructure_error"
  BY <1>0, NoticedFacts, TaskFields DEF Noticed, OnlyTask
<1>3. /\ mem'.tasks[cur].blocker = S.tasks[cur].blocker
      /\ mem'.tasks[cur].vstat = S.tasks[cur].vstat
      /\ mem'.tasks[cur].reopens = S.tasks[cur].reopens
  <2>1. "candidate_complete" \in TaskStatus
    BY DEF TaskStatus
  <2> QED BY <1>2, <2>1, TransitionOnly
<1>4. Claimed' /\ Sure' = Undone'
  BY <1>1 DEF Claimed, Sure
<1> DEFINE U == [mem' EXCEPT !.tasks[cur].status = "in_progress"]
<1>5. Sure' = U
  BY <1>4 DEF Undone
<1>6. mem' \in ProjectState /\ cur \in Tasks(mem')
  BY <1>1 DEF Ended
<1>7. /\ OnlyTask(mem', U, cur) /\ U.tasks[cur].status = "in_progress"
      /\ U.tasks[cur].blocker = mem'.tasks[cur].blocker
      /\ U.tasks[cur].vstat = mem'.tasks[cur].vstat
      /\ U.tasks[cur].reopens = mem'.tasks[cur].reopens
      /\ U.illegal = mem'.illegal
  BY <1>6, UndoneOnly
<1> HIDE DEF U
<1>8. OnlyTask(mem, U, cur) /\ ~U.illegal
  BY <1>1, <1>7, OnlyTaskTransitive DEF Ended, StateInv, ProjectInv
<1>9. Noted(U.tasks[cur])
  BY <1>2, <1>3, <1>7, OrchestratorAssumption DEF Noted
<1>10. StateInv(U) /\ Forward(mem, U)
  <2>1. mem.tasks[cur].reopens <= U.tasks[cur].reopens /\ ~U.tasks[cur].blocker
    BY <1>2, <1>3, <1>7
  <2>2. mem.tasks[cur].status \in Open /\ U.tasks[cur].status \in Open \cup Complete
    BY <1>7 DEF Noticed, Open
  <2> QED BY <1>0, <1>8, <1>9, <2>1, <2>2, OneWorked
<1>11. Running' = {} /\ mem'.active = None
  BY <1>0, <1>1 DEF Ended, Running
<1>12. mem'.duplicateKeys \/ GraphValid(mem')
  <2>1. ASSUME ~mem'.duplicateKeys
        PROVE  GraphValid(mem')
    <3>1. \A t \in WithStatus(mem', {"in_progress"}) : mem'.active = t
      BY <1>11 DEF Running
    <3> QED BY <1>1, <1>11, <2>1, <3>1, TreeIsValid DEF Ended
  <2> QED BY <2>1
<1> QED BY <1>1, <1>5, <1>6, <1>10, <1>11, <1>12 DEF SessionEnded, Ended

\* The session has no result but its notes.
LEMMA NoEnd ==
    ASSUME SchedulingInv, pc = "session", pc' = "verify", UNCHANGED <<stored, cur, todo>>,
           NEW S, Noticed(mem, S, cur), ~S.tasks[cur].blocker,
           S.duplicateKeys = mem.duplicateKeys, mem' = S
    PROVE  SessionEnded
<1>0. /\ mem \in ProjectState /\ StateInv(mem) /\ cur \in Tasks(mem) /\ Running = {cur}
      /\ mem.active = cur /\ GraphValid(mem) /\ cur # None
  BY CurrentSession
<1>1. /\ Noted(S.tasks[cur]) /\ mem.tasks[cur].reopens \in Nat /\ OnlyTask(mem, S, cur)
      /\ S.tasks[cur].reopens = mem.tasks[cur].reopens /\ ~S.illegal
      /\ S.tasks[cur].status = "in_progress" /\ mem.tasks[cur].status = "in_progress"
      /\ S.active = mem.active
  BY <1>0, NoticedFacts, TaskFields DEF Noticed
<1>2. /\ S \in ProjectState /\ StateInv(S) /\ Forward(mem, S) /\ Counted(mem, S)
      /\ S.status = mem.status /\ Tasks(S) = Tasks(mem)
      /\ WithStatus(S, {"in_progress"}) = WithStatus(mem, {"in_progress"}) \cup {cur}
  <2>1. mem.tasks[cur].reopens <= S.tasks[cur].reopens
    BY <1>1
  <2> QED BY <1>0, <1>1, <2>1, OneWorked DEF Open
<1>3. Sure' = mem' /\ Running' = {cur}
  BY <1>0, <1>1, <1>2 DEF Sure, Claimed, Running
<1>4. GraphValid(S)
  <2>1. \A t \in WithStatus(S, {"in_progress"}) : S.active = t
    BY <1>0, <1>1, <1>2 DEF Running
  <2>2. ~S.duplicateKeys
    BY <1>0 DEF GraphValid
  <2> QED BY <1>0, <1>1, <1>2, <2>1, <2>2, TreeIsValid
<1> QED BY <1>0, <1>2, <1>3, <1>4 DEF SessionEnded

LEMMA BlockedEnd ==
    ASSUME SchedulingInv, pc = "session", UNCHANGED <<stored, cur, todo>>,
           NEW S, Noticed(mem, S, cur), mem' = Transition(S, cur, "blocked"), pc' = "verify"
    PROVE  SessionEnded
<1>1. mem \in ProjectState /\ StateInv(mem)
  BY CurrentSession
<1>2. Ended(mem, mem', cur) /\ mem'.tasks[cur].status = "blocked"
  BY <1>1, LeafEnds
<1> QED BY <1>2, PlainEnd

LEMMA TriggerEnd ==
    ASSUME SchedulingInv, pc = "session", UNCHANGED <<cur, todo>>,
           NEW S, Noticed(mem, S, cur), NEW force, NEW asked,
           TriggerDecomposition(S, cur, force, asked, "verify")
    PROVE  SessionEnded
<1>1. Sure = mem
  BY CurrentSession
<1>2. /\ mem' \in ProjectState /\ StateInv(mem') /\ UNCHANGED stored
      /\ mem'.status = mem.status /\ Counted(mem, mem')
      /\ \/ /\ pc' = "verify" /\ Ended(mem, mem', cur)
            /\ mem'.tasks[cur].status \in {"decomposed", "blocked", "ready"}
         \/ pc' = "raised" /\ mem' = mem
  BY <1>1, TriggerEffect
<1>3. CASE pc' = "raised" /\ mem' = mem
  BY <1>2, <1>3 DEF SessionEnded
<1>4. CASE pc' = "verify" /\ Ended(mem, mem', cur)
           /\ mem'.tasks[cur].status \in {"decomposed", "blocked", "ready"}
  BY <1>2, <1>4, PlainEnd
<1> QED BY <1>2, <1>3, <1>4

LEMMA EndSessionEffect ==
    ASSUME SchedulingInv, EndSession
    PROVE  pc = "session" /\ SessionEnded
<1>1. pc = "session" /\ UNCHANGED <<cur, todo>>
  BY DEF EndSession, RequestCompletion, RequestDecomposition, ReportBlocker,
         CompleteOnEvidence, EndWithoutSignal, local
<1>2. mem \in ProjectState /\ StateInv(mem) /\ cur \in WithStatus(mem, {"in_progress"})
  BY <1>1, CurrentSession DEF Running
<1>3. ASSUME NEW flag \in BOOLEAN
      PROVE  LET S == NoteProgress(mem, cur, flag)
             IN  /\ Noticed(mem, S, cur) /\ ~S.tasks[cur].blocker
                 /\ S.duplicateKeys = mem.duplicateKeys
  BY <1>2, NotesOnly
<1>4. ASSUME NEW S, Compute(S, "verify")
      PROVE  mem' = S /\ pc' = "verify" /\ UNCHANGED <<stored, cur, todo>>
  BY <1>1, <1>4 DEF Compute, Goto
<1>5. ASSUME NEW flag \in BOOLEAN,
             Compute(Transition(NoteProgress(mem, cur, flag), cur, "candidate_complete"),
                     "verify")
      PROVE  SessionEnded
  <2> DEFINE S == NoteProgress(mem, cur, flag)
  <2>1. Noticed(mem, S, cur) /\ ~S.tasks[cur].blocker
    BY <1>3
  <2>2. mem' = Transition(S, cur, "candidate_complete") /\ pc' = "verify"
        /\ UNCHANGED <<stored, cur, todo>>
    BY <1>4, <1>5
  <2> HIDE DEF S
  <2> QED BY <1>1, <2>1, <2>2, ClaimEnd
<1>6. ASSUME RequestCompletion
      PROVE  SessionEnded
  BY <1>5, <1>6 DEF RequestCompletion
<1>7. ASSUME RequestDecomposition
      PROVE  SessionEnded
  <2> DEFINE S == NoteProgress(mem, cur, FALSE)
  <2>1. Noticed(mem, S, cur)
    BY <1>3
  <2>2. \/ TriggerDecomposition(S, cur, FALSE, TRUE, "verify")
        \/ Compute(Transition(S, cur, "blocked"), "verify")
    BY <1>7 DEF RequestDecomposition
  <2> HIDE DEF S
  <2>3. ASSUME Compute(Transition(S, cur, "blocked"), "verify")
        PROVE  SessionEnded
    BY <1>1, <1>4, <2>1, <2>3, BlockedEnd
  <2>4. ASSUME TriggerDecomposition(S, cur, FALSE, TRUE, "verify")
        PROVE  SessionEnded
    BY <1>1, <2>1, <2>4, TriggerEnd, Zenon
  <2> QED BY <2>2, <2>3, <2>4, Zenon
<1>8. ASSUME NEW flag \in BOOLEAN, ReportBlocker(flag)
      PROVE  SessionEnded
  <2> DEFINE S == NoteProgress(mem, cur, FALSE)
             B == [S EXCEPT !.tasks[cur].blocker = TRUE]
  <2>1. Noticed(mem, B, cur)
    BY <1>2, NotesOnly
  <2>2. \/ TriggerDecomposition(B, cur, FALSE, TRUE, "verify")
        \/ Compute(Transition(B, cur, "blocked"), "verify")
    BY <1>8, Zenon DEF ReportBlocker
  <2> HIDE DEF B
  <2>3. ASSUME Compute(Transition(B, cur, "blocked"), "verify")
        PROVE  SessionEnded
    BY <1>1, <1>4, <2>1, <2>3, BlockedEnd
  <2> QED BY <1>1, <2>1, <2>2, <2>3, TriggerEnd
<1>9. ASSUME NEW flag \in BOOLEAN, CompleteOnEvidence(flag)
      PROVE  SessionEnded
  BY <1>5, <1>9 DEF CompleteOnEvidence
<1>10. ASSUME NEW flag \in BOOLEAN, EndWithoutSignal(flag)
       PROVE  SessionEnded
  <2> DEFINE S == NoteProgress(mem, cur, flag)
  <2>1. /\ Noticed(mem, S, cur) /\ ~S.tasks[cur].blocker
        /\ S.duplicateKeys = mem.duplicateKeys
    BY <1>3
  <2>2. \/ TriggerDecomposition(S, cur, TRUE, FALSE, "verify")
        \/ TriggerDecomposition(S, cur, FALSE, FALSE, "verify")
        \/ Compute(S, "verify")
    BY <1>10 DEF EndWithoutSignal
  <2> HIDE DEF S
  <2>3. ASSUME Compute(S, "verify")
        PROVE  SessionEnded
    BY <1>1, <1>4, <2>1, <2>3, NoEnd
  <2> QED BY <1>1, <2>1, <2>2, <2>3, TriggerEnd
<1> QED BY <1>1, <1>6, <1>7, <1>8, <1>9, <1>10 DEF EndSession

-----------------------------------------------------------------------------
\* Verification.

LEMMA VerifyTaskEffect ==
    ASSUME SchedulingInv, VerifyTask
    PROVE  /\ Effect /\ mem'.status = mem.status /\ todo' = todo /\ pc' = "append"
           /\ UNCHANGED stored
           /\ mem'.duplicateKeys \/ GraphValid(mem')
<1>1. /\ mem \in ProjectState /\ StateInv(mem) /\ StateInv(Sure) /\ Sure \in ProjectState
      /\ cur \in Tasks(mem) /\ pc = "verify"
      /\ mem.duplicateKeys \/ GraphValid(mem)
  BY ClaimIsForward
     DEF SchedulingInv, TypeInv, TypeOK, StatesInv, FlowInv, VerifyTask
<1>2. PICK v \in Verdicts : Compute(VerifyTaskCandidate(mem, cur, v), "append")
  BY DEF VerifyTask
<1>3. /\ mem' = VerifyTaskCandidate(mem, cur, v) /\ Written /\ pc' = "append"
      /\ UNCHANGED stored /\ todo' = todo /\ v \in Verdict
  BY <1>2, ComputeWrites, OrchestratorAssumption DEF Compute, VerifyTask, local
<1>4. /\ TaskInv(mem, cur) /\ mem.tasks[cur].reopens \in Nat /\ cur # None
      /\ ~mem.illegal
  BY <1>1, TaskFields DEF StateInv, ProjectInv
<1>5. /\ Tasks(Sure) = Tasks(mem) /\ OnlyTask(Sure, mem, cur)
      /\ Sure.tasks[cur].status \in Open
      /\ Sure.tasks[cur].reopens = mem.tasks[cur].reopens
      /\ mem.tasks[cur].reopens <= MaxReopens /\ ~mem.tasks[cur].blocker
      /\ mem.tasks[cur].status \in {"candidate_complete", "blocked"}
      /\ WithStatus(Sure, {"in_progress"}) \ {cur} = Running \ {cur}
  <2>1. CASE mem.tasks[cur].status = "candidate_complete"
    <3>1. Sure = Undone /\ Undone = [mem EXCEPT !.tasks[cur].status = "in_progress"]
      BY <1>1, <2>1 DEF Sure, Claimed, Undone
    <3>2. /\ OnlyTask(Sure, mem, cur) /\ Tasks(Sure) = Tasks(mem)
          /\ OnlyTask(mem, Sure, cur)
          /\ Sure.tasks[cur].status = "in_progress"
          /\ Sure.tasks[cur].blocker = mem.tasks[cur].blocker
          /\ Sure.tasks[cur].reopens = mem.tasks[cur].reopens
      BY <1>1, <3>1, UndoneOnly
    <3>3. ~Sure.tasks[cur].blocker
      <4>1. cur \in WithStatus(Sure, {"in_progress"})
        BY <1>1, <3>2 DEF WithStatus
      <4> QED BY <1>1, <4>1, InProgress, NoticedFacts
    <3>4. mem.tasks[cur].reopens <= MaxReopens
      BY <1>4, <2>1, OrchestratorAssumption DEF TaskInv, Noted
    <3>5. WithStatus(Sure, {"in_progress"}) \ {cur} = Running \ {cur}
      <4>1. \A t \in Tasks(mem) \ {cur} : Sure.tasks[t] = mem.tasks[t]
        BY <1>1, <3>2, TasksType DEF OnlyTask
      <4> QED BY <3>2, <4>1 DEF Running, WithStatus
    <3> QED BY <2>1, <3>2, <3>3, <3>4, <3>5 DEF Open
  <2>2. CASE mem.tasks[cur].status = "blocked" /\ mem.tasks[cur].vstat = "infrastructure_error"
    <3>1. Sure = mem
      BY <2>2 DEF Sure, Claimed
    <3>2. ~mem.tasks[cur].blocker /\ mem.tasks[cur].reopens <= MaxReopens
      BY <1>4, <2>2 DEF TaskInv, Halted, Noted, Complete
    <3>3. OnlyTask(mem, mem, cur)
      BY <1>1 DEF OnlyTask, SameTree
    <3> QED BY <2>2, <3>1, <3>2, <3>3 DEF Open, Running
  <2> QED BY <2>1, <2>2 DEF VerifyTask, NeedsTaskVerification
<1>6. /\ mem' \in ProjectState /\ StateInv(mem') /\ Forward(Sure, mem')
      /\ mem'.status = Sure.status /\ mem'.duplicateKeys = Sure.duplicateKeys
      /\ Tasks(mem') = Tasks(Sure)
      /\ WithStatus(mem', {"in_progress"}) = WithStatus(Sure, {"in_progress"}) \ {cur}
      /\ mem'.active = IF mem.active = cur THEN None ELSE mem.active
  BY <1>1, <1>3, <1>4, <1>5, VerifyTaskKeeps
<1>7. mem'.status = mem.status /\ mem'.duplicateKeys = mem.duplicateKeys
      /\ Running' = Running \ {cur}
  BY <1>5, <1>6 DEF OnlyTask, Running
<1>8. ASSUME ~mem'.duplicateKeys
      PROVE  GraphValid(mem')
  <2>1. GraphValid(mem)
    BY <1>1, <1>7, <1>8
  <2>2. \A t \in WithStatus(mem', {"in_progress"}) : mem'.active = t
    BY <1>6, <1>7, <2>1 DEF Running, GraphValid
  <2>3. mem'.active # None => mem'.active \in Tasks(mem')
    BY <1>5, <1>6, <2>1 DEF GraphValid
  <2> QED BY <1>6, <1>8, <2>2, <2>3, TreeIsValid
<1> QED BY <1>3, <1>6, <1>7, <1>8 DEF Effect

LEMMA VerifyProjectEffect ==
    ASSUME SchedulingInv, VerifyProject
    PROVE  /\ Finalized("append") /\ todo' = todo
<1>1. /\ mem \in ProjectState /\ StateInv(mem) /\ AllLeavesComplete(mem) /\ todo' = todo
      /\ Forward(Sure, mem)
  BY ClaimIsForward DEF SchedulingInv, TypeInv, TypeOK, StatesInv, VerifyProject
<1> QED BY <1>1, FinalizeEffect DEF VerifyProject

-----------------------------------------------------------------------------
\* Every step of a running process.

\* The process never knows less than before, and saves what it knows.
Advances ==
    /\ Sure \in ProjectState /\ Sure' \in ProjectState /\ Forward(Sure, Sure')
    /\ disk' = disk \/ disk' = Sure'

\* The locations about which FlowInv says nothing in particular.
Calm == {"start", "resume", "start_frozen", "resume_frozen", "reactivate", "run", "retry",
         "loop", "post", "settle", "returned", "raised"}

LEMMA EffectAdvances ==
    ASSUME SchedulingInv, pc \notin {"down", "raised"}, Effect, pc' # "verify"
    PROVE  /\ Advances /\ StatesInv' /\ GraphValid(disk')
           /\ ~exists' => disk' = NewProject
           /\ pc' # "raised" => Alone(Running' \ todo')
<1>1. /\ disk \in ProjectState /\ StateInv(disk) /\ GraphValid(disk)
      /\ ~exists => disk = NewProject
      /\ Forward(disk, Sure) /\ Alone(Running \ todo) /\ Sure \in ProjectState
  BY ClaimIsForward DEF SchedulingInv, TypeInv, TypeOK, StatesInv, FlowInv
<1>2. Sure' = mem'
  BY DEF Sure, Claimed
<1>3. mem' \in ProjectState /\ StateInv(mem') /\ Forward(Sure, mem')
  BY DEF Effect
<1>4. Forward(disk, mem') /\ Forward(mem', mem')
  BY <1>1, <1>3, ForwardTransitive, ForwardReflexive
<1>5. CASE disk' = disk /\ exists' = exists
  <2>1. Advances /\ StatesInv'
    BY <1>1, <1>2, <1>3, <1>4, <1>5 DEF Advances, StatesInv
  <2>2. pc' # "raised" => Alone(Running' \ todo')
    BY <1>1 DEF Effect, Alone
  <2> QED BY <1>1, <1>5, <2>1, <2>2
<1>6. CASE disk' = mem' /\ exists' = TRUE /\ GraphValid(mem')
  <2>1. Advances /\ StatesInv'
    BY <1>1, <1>2, <1>3, <1>4, <1>6 DEF Advances, StatesInv
  <2>2. pc' # "raised" => Alone(Running' \ todo')
    BY <1>1 DEF Effect, Alone
  <2> QED BY <1>6, <2>1, <2>2
<1> QED BY <1>5, <1>6 DEF Effect, Written

LEMMA CalmStep ==
    ASSUME SchedulingInv, pc \notin {"down", "forced", "raised"}, Effect, todo' = todo,
           pc' \in Calm
    PROVE  Advances /\ StatesInv' /\ FlowInv'
<1>1. todo' = {}
  BY DEF SchedulingInv, FlowInv
<1>2. /\ Advances /\ StatesInv' /\ GraphValid(disk')
      /\ ~exists' => disk' = NewProject
      /\ pc' # "raised" => Alone(Running' \ todo')
  BY EffectAdvances DEF Calm
<1> QED BY <1>1, <1>2 DEF FlowInv, Calm, Reporting

LEMMA ReportedStep ==
    ASSUME SchedulingInv, pc \notin {"down", "forced", "raised"}, Reported, todo' = todo
    PROVE  Advances /\ StatesInv' /\ FlowInv'
<1>1. todo' = {}
  BY DEF SchedulingInv, FlowInv
<1>2. /\ Advances /\ StatesInv' /\ GraphValid(disk')
      /\ ~exists' => disk' = NewProject
      /\ pc' # "raised" => Alone(Running' \ todo')
  BY EffectAdvances DEF Reported, Reporting
<1> QED BY <1>1, <1>2 DEF FlowInv, Reported, Reporting

LEMMA RecordStep ==
    ASSUME SchedulingInv, pc \notin {"down", "forced", "raised"}, Effect, todo' = todo,
           pc' \in {"append", "save", "check", "raised"},
           pc' # "raised" => mem'.duplicateKeys \/ GraphValid(mem')
    PROVE  Advances /\ StatesInv' /\ FlowInv'
<1>1. todo' = {}
  BY DEF SchedulingInv, FlowInv
<1>2. /\ Advances /\ StatesInv' /\ GraphValid(disk')
      /\ ~exists' => disk' = NewProject
      /\ pc' # "raised" => Alone(Running' \ todo')
  BY EffectAdvances
<1> QED BY <1>1, <1>2 DEF FlowInv, Reporting

LEMMA StartupSchedules ==
    ASSUME SchedulingInv, Startup
    PROVE  Advances /\ StatesInv' /\ FlowInv'
<1>1. CASE \/ FreezeContract \/ ContractModified \/ ContractReady \/ InitialPlanFails
           \/ EnterLoop
  <2>1. /\ mem' = mem /\ todo' = todo /\ UNCHANGED <<disk, exists>>
        /\ pc \notin {"down", "forced", "raised"} /\ pc' \in Calm
    BY <1>1 DEF FreezeContract, ContractModified, ContractReady, InitialPlanFails,
                EnterLoop, AfterInitialization, Compute, Goto, Raise, stored, local, Calm
  <2> QED BY <2>1, SameMemory, CalmStep
<1>2. CASE ContractInvalid \/ RunTimeLimit
  <2>1. /\ pc \notin {"down", "forced", "raised", "verify"} /\ todo' = todo
        /\ \E status \in {"verification_inconclusive", "time_limit_reached"} :
              Save(SetProject(mem, status), "returned")
    BY <1>2 DEF ContractInvalid, RunTimeLimit, MarkTimeLimit, local
  <2>2. {"verification_inconclusive", "time_limit_reached"} \subseteq ProjectStatus \ Settled
    BY DEF ProjectStatus, Settled
  <2>3. Effect /\ pc' \in {"returned", "raised"}
    BY <2>1, <2>2, NewStatus
  <2> QED BY <2>1, <2>3, CalmStep DEF Calm
<1>3. CASE RecordContract
  <2>1. pc \in {"start_frozen", "resume_frozen"} /\ pc' \in Calm
    BY <1>3, SaveWrites DEF RecordContract, AfterInitialization, Calm
  <2> QED BY <1>3, <2>1, RecordContractEffect, CalmStep
<1>4. CASE Reactivate
  <2>1. pc = "reactivate"
    BY <1>4 DEF Reactivate
  <2>2. /\ Effect /\ pc' \in {"forced", "run"}
        /\ pc' = "run" => todo' = {}
        /\ pc' = "forced" => todo' \subseteq Running'
    BY <1>4, ReactivateEffect
  <2>3. /\ Advances /\ StatesInv' /\ GraphValid(disk')
        /\ ~exists' => disk' = NewProject
        /\ pc' # "raised" => Alone(Running' \ todo')
    BY <2>1, <2>2, EffectAdvances
  <2> QED BY <2>2, <2>3 DEF FlowInv, Reporting
<1>5. CASE DecomposeFailedTask
  <2>1. pc = "forced"
    BY <1>5 DEF DecomposeFailedTask
  <2>2. /\ Effect /\ pc' \in {"forced", "run", "raised"}
        /\ pc' = "run" => todo' = {}
        /\ pc' = "forced" => todo' \subseteq Running'
    BY <1>5, DecomposeFailedEffect
  <2>3. /\ Advances /\ StatesInv' /\ GraphValid(disk')
        /\ ~exists' => disk' = NewProject
        /\ pc' # "raised" => Alone(Running' \ todo')
    BY <2>1, <2>2, EffectAdvances
  <2> QED BY <2>2, <2>3 DEF FlowInv, Reporting
<1>6. CASE CreateInitialPlan
  BY <1>6, CreateInitialPlanEffect, CalmStep DEF CreateInitialPlan, Calm
<1>7. CASE FinalizePending
  <2>1. /\ mem \in ProjectState /\ StateInv(mem) /\ AllLeavesComplete(mem)
        /\ Forward(Sure, mem) /\ todo' = todo /\ pc = "run"
    BY <1>7, ClaimIsForward
       DEF SchedulingInv, TypeInv, TypeOK, StatesInv, FinalizePending, StateInv, ProjectInv,
           Settled, local
  <2>2. Finalized("returned")
    BY <1>7, <2>1, FinalizeEffect DEF FinalizePending
  <2> QED BY <2>1, <2>2, CalmStep DEF Finalized, Calm
<1>8. CASE RetryInfrastructure
  BY <1>8, RetryEffect, CalmStep DEF RetryInfrastructure, Calm
<1> QED BY <1>1, <1>2, <1>3, <1>4, <1>5, <1>6, <1>7, <1>8 DEF Startup

LEMMA StartSessionSchedules ==
    ASSUME SchedulingInv, StartSession
    PROVE  Advances /\ StatesInv' /\ FlowInv'
<1>1. /\ mem' \in ProjectState /\ StateInv(mem') /\ Forward(mem, mem')
      /\ UNCHANGED stored /\ pc' = "session" /\ todo' = todo /\ cur' = cur
      /\ GraphValid(mem') /\ cur \in Running' /\ mem'.active = cur
  BY StartSessionEffect
<1>2. /\ disk \in ProjectState /\ StateInv(disk) /\ GraphValid(disk)
      /\ ~exists => disk = NewProject
      /\ mem \in ProjectState /\ Sure = mem /\ Forward(disk, mem) /\ todo = {}
  BY NotClaimed
     DEF SchedulingInv, TypeInv, TypeOK, StatesInv, FlowInv, StartSession
<1>3. Sure' = mem' /\ UNCHANGED <<disk, exists>>
  BY <1>1 DEF Sure, Claimed, stored
<1>4. Forward(disk, mem')
  BY <1>1, <1>2, ForwardTransitive
<1>5. Advances /\ StatesInv'
  BY <1>1, <1>2, <1>3, <1>4 DEF Advances, StatesInv
<1>6. Alone(Running' \ todo')
  <2>1. \A t \in WithStatus(mem', {"in_progress"}) : t = mem'.active
    BY <1>1 DEF GraphValid
  <2> QED BY <2>1 DEF Alone, Running
<1> QED BY <1>1, <1>2, <1>3, <1>5, <1>6 DEF FlowInv, Reporting

LEMMA EndSessionSchedules ==
    ASSUME SchedulingInv, EndSession
    PROVE  Advances /\ StatesInv' /\ FlowInv'
<1>1. /\ disk \in ProjectState /\ StateInv(disk) /\ GraphValid(disk)
      /\ ~exists => disk = NewProject
      /\ mem \in ProjectState /\ StateInv(mem) /\ Sure = mem /\ Forward(disk, mem)
      /\ todo = {} /\ Running = {cur}
  BY CurrentSession, EndSessionEffect
     DEF SchedulingInv, TypeInv, TypeOK, StatesInv, FlowInv
<1>2. mem' \in ProjectState /\ StateInv(mem') /\ UNCHANGED <<stored, cur, todo>>
  BY EndSessionEffect DEF SessionEnded
<1>3. UNCHANGED <<disk, exists>>
  BY <1>2 DEF stored
<1>4. CASE pc' = "raised" /\ mem' = mem
  <2>1. Sure' = mem /\ Forward(mem, mem)
    BY <1>1, <1>4, ForwardReflexive DEF Sure, Claimed
  <2>2. Advances /\ StatesInv'
    BY <1>1, <1>2, <1>3, <1>4, <2>1 DEF Advances, StatesInv
  <2> QED BY <1>1, <1>3, <1>4, <2>2 DEF FlowInv, Reporting
<1>5. CASE /\ pc' = "verify" /\ cur \in Tasks(mem')
           /\ Running' \subseteq Running
           /\ mem'.duplicateKeys \/ GraphValid(mem')
           /\ StateInv(Sure') /\ Forward(mem, Sure')
  <2>1. Sure' \in ProjectState
    <3>1. CASE Claimed'
      BY <1>2, <1>5, <3>1, UndoneOnly DEF Sure, Undone
    <3>2. CASE ~Claimed'
      BY <1>2, <3>2 DEF Sure
    <3> QED BY <3>1, <3>2
  <2>2. Forward(disk, Sure')
    BY <1>1, <1>5, <2>1, ForwardTransitive
  <2>3. Advances /\ StatesInv'
    BY <1>1, <1>2, <1>3, <1>5, <2>1, <2>2 DEF Advances, StatesInv
  <2>4. Alone(Running' \ todo')
    BY <1>1, <1>5 DEF Alone
  <2> QED BY <1>1, <1>2, <1>3, <1>5, <2>3, <2>4 DEF FlowInv, Reporting
<1> QED BY <1>4, <1>5, EndSessionEffect DEF SessionEnded

LEMMA IterationSchedules ==
    ASSUME SchedulingInv, Iteration
    PROVE  Advances /\ StatesInv' /\ FlowInv'
<1>1. CASE NoReachableTask \/ SessionBudgetSpent \/ NextIteration \/ SettleUnchanged
  <2>1. /\ mem' = mem /\ todo' = todo /\ UNCHANGED <<disk, exists>>
        /\ pc \notin {"down", "forced", "raised"} /\ pc' \in Calm
    BY <1>1 DEF NoReachableTask, SessionBudgetSpent, NextIteration, SettleUnchanged,
                Compute, Goto, Raise, stored, local, Calm
  <2> QED BY <2>1, SameMemory, CalmStep
<1>2. CASE LoopTimeLimit \/ TimeLimitAfterSession \/ SettleSessionLimit
  <2>1. /\ pc \notin {"down", "forced", "raised", "verify"} /\ todo' = todo
        /\ \E status \in {"session_limit_reached", "time_limit_reached"},
              next \in {"post", "returned"} : Save(SetProject(mem, status), next)
    BY <1>2 DEF LoopTimeLimit, TimeLimitAfterSession, SettleSessionLimit, MarkTimeLimit, local
  <2>2. {"session_limit_reached", "time_limit_reached"} \subseteq ProjectStatus \ Settled
    BY DEF ProjectStatus, Settled
  <2>3. Effect /\ pc' \in {"post", "returned", "raised"}
    BY <2>1, <2>2, NewStatus
  <2> QED BY <2>1, <2>3, CalmStep DEF Calm
<1>3. CASE AggregateParents
  <2>1. pc = "loop" /\ pc' = "select"
    BY <1>3 DEF AggregateParents, Compute, Goto
  <2>2. Effect /\ todo' = todo /\ Waiting(mem')
    BY <1>3, AggregateEffect
  <2>3. /\ Advances /\ StatesInv' /\ GraphValid(disk')
        /\ ~exists' => disk' = NewProject
        /\ pc' # "raised" => Alone(Running' \ todo')
    BY <2>1, <2>2, EffectAdvances
  <2>4. todo' = {}
    BY <2>1, <2>2 DEF SchedulingInv, FlowInv
  <2> QED BY <2>1, <2>2, <2>3, <2>4 DEF FlowInv, Reporting
<1>4. CASE AggregateOnceMore
  <2>1. pc = "post" /\ pc' = "settle"
    BY <1>4 DEF AggregateOnceMore, Compute, Goto
  <2> QED BY <1>4, <2>1, AggregateEffect, CalmStep DEF Calm
<1>5. CASE SelectTask
  <2>1. pc = "select"
    BY <1>5 DEF SelectTask
  <2>2. /\ Effect /\ todo' = todo
        /\ pc' \in {"dispatch", "raised"} /\ (pc' # "raised" => GraphValid(mem'))
        /\ cur' # None => /\ mem'.active = cur' /\ cur' \in Tasks(mem')
                          /\ mem'.tasks[cur'].status \in {"ready", "in_progress"}
    BY <1>5, SelectEffect
  <2>3. /\ Advances /\ StatesInv' /\ GraphValid(disk')
        /\ ~exists' => disk' = NewProject
        /\ pc' # "raised" => Alone(Running' \ todo')
    BY <2>1, <2>2, EffectAdvances
  <2>4. todo' = {}
    BY <2>1, <2>2 DEF SchedulingInv, FlowInv
  <2> QED BY <2>2, <2>3, <2>4 DEF FlowInv, Reporting
<1>6. CASE NothingToRun
  BY <1>6, NothingToRunEffect, CalmStep, ReportedStep DEF NothingToRun, Calm
<1>7. CASE TaskSessionLimit
  BY <1>7, SessionLimitEffect, CalmStep DEF TaskSessionLimit, Calm
<1>8. CASE NothingToVerify \/ AppendSession \/ SaveAfterSession
  <2>1. /\ pc \in {"verify", "append", "save"} /\ todo' = todo
        /\ mem' = mem /\ pc' \in {"append", "save", "check", "raised"}
        /\ UNCHANGED <<disk, exists>> \/ \E next : Save(mem, next)
    BY <1>8, SaveWrites DEF NothingToVerify, AppendSession, SaveAfterSession, Compute, Goto,
                            stored, local
  <2>2. mem'.duplicateKeys \/ GraphValid(mem')
    <3>1. mem.duplicateKeys \/ GraphValid(mem)
      BY <2>1 DEF SchedulingInv, FlowInv
    <3> QED BY <2>1, <3>1
  <2> QED BY <2>1, <2>2, SameMemory, RecordStep
<1>9. CASE VerifyTask
  BY <1>9, VerifyTaskEffect, RecordStep DEF VerifyTask
<1>10. CASE VerifyProject
  BY <1>10, VerifyProjectEffect, RecordStep DEF VerifyProject, Finalized
<1>11. CASE SettleComplete
  <2>1. /\ mem \in ProjectState /\ StateInv(mem) /\ AllLeavesComplete(mem)
        /\ Forward(Sure, mem) /\ todo' = todo /\ pc = "settle"
    BY <1>11, ClaimIsForward
       DEF SchedulingInv, TypeInv, TypeOK, StatesInv, SettleComplete, local
  <2>2. Finalized("returned") \/ Reported
    BY <1>11, <2>1, FinalizeCandidateEffect DEF SettleComplete
  <2> QED BY <2>1, <2>2, CalmStep, ReportedStep DEF Finalized, Calm
<1>12. CASE StartSession
  BY <1>12, StartSessionSchedules
<1>13. CASE EndSession
  BY <1>13, EndSessionSchedules
<1>14. CASE ReportFinalVerification
  BY <1>14, ReportEffect, CalmStep DEF Finalized, Calm, Reporting
<1> QED BY <1>1, <1>2, <1>3, <1>4, <1>5, <1>6, <1>7, <1>8, <1>9, <1>10, <1>11, <1>12, <1>13,
           <1>14
        DEF Iteration

-----------------------------------------------------------------------------
\* Processes that start and stop.

LEMMA NewProjectValid == GraphValid(NewProject) /\ Tasks(NewProject) = {}
<1>1. Tasks(NewProject) = {} /\ NewProject.active = None /\ ~NewProject.duplicateKeys
  BY DEF NewProject, Tasks
<1> QED BY <1>1 DEF GraphValid, WithStatus

LEMMA InitSchedules == Init => StatesInv /\ FlowInv
<1> SUFFICES ASSUME Init
             PROVE  StatesInv /\ FlowInv
  OBVIOUS
<1>1. /\ pc = "down" /\ todo = {} /\ mem = NewProject /\ disk = NewProject /\ ~exists
      /\ Sure = mem
  BY DEF Init, Sure, Claimed
<1>2. StateInv(NewProject) /\ GraphValid(NewProject) /\ Running = {}
  BY <1>1, NewProjectKeeps, NewProjectValid DEF Running, WithStatus
<1> QED BY <1>1, <1>2 DEF StatesInv, FlowInv, Reporting, Alone

LEMMA OutsideSchedules ==
    ASSUME SchedulingInv, Command \/ Exit \/ Crash \/ EditContract
    PROVE  /\ StatesInv' /\ FlowInv'
           /\ disk' = disk \/ (~exists /\ disk = NewProject /\ disk' = NewProject)
<1>1. /\ disk \in ProjectState /\ StateInv(disk) /\ GraphValid(disk) /\ Forward(disk, disk)
      /\ ~exists => disk = NewProject
      /\ pc \notin {"forced", "raised"} => todo = {}
  BY ForwardReflexive DEF SchedulingInv, TypeInv, TypeOK, StatesInv, FlowInv
<1>2. /\ StateInv(NewProject) /\ GraphValid(NewProject) /\ Forward(NewProject, NewProject)
      /\ WithStatus(NewProject, {"in_progress"}) = {}
  BY NewProjectKeeps, NewProjectValid, ForwardReflexive DEF WithStatus
<1>3. CASE CreateProject
  <2>1. /\ pc = "down" /\ ~exists /\ mem' = NewProject /\ todo' = todo /\ pc' = "start"
        /\ disk' = NewProject /\ exists' = TRUE
    BY <1>2, <1>3 DEF CreateProject, Save, Goto
  <2>2. Sure' = mem' /\ Running' = {}
    BY <1>2, <2>1 DEF Sure, Claimed, Running
  <2>3. StatesInv'
    BY <1>2, <2>1, <2>2 DEF StatesInv
  <2>4. FlowInv'
    BY <1>1, <1>2, <2>1, <2>2 DEF FlowInv, Reporting, Alone
  <2> QED BY <1>1, <2>1, <2>3, <2>4
<1>4. ASSUME NEW command \in {"start", "resume"}, LoadProject(command)
      PROVE  StatesInv' /\ FlowInv' /\ disk' = disk
  <2>1. /\ pc = "down" /\ mem' = disk /\ todo' = todo /\ pc' = command
        /\ UNCHANGED <<disk, exists>>
    BY <1>4 DEF LoadProject, Compute, Goto, stored
  <2>2. Sure' = mem' /\ Running' = WithStatus(disk, {"in_progress"})
    BY <2>1 DEF Sure, Claimed, Running
  <2>3. StatesInv'
    BY <1>1, <2>1, <2>2 DEF StatesInv
  <2>4. Alone(Running' \ todo')
    BY <1>1, <2>2 DEF GraphValid, Alone
  <2>5. FlowInv'
    BY <1>1, <2>1, <2>4 DEF FlowInv, Reporting
  <2> QED BY <2>1, <2>3, <2>5
<1>5. CASE Exit \/ Crash
  <2>1. /\ pc' = "down" /\ mem' = NewProject /\ todo' = {} /\ UNCHANGED <<disk, exists>>
    BY <1>5 DEF Exit, Crash, Stop, stored
  <2>2. Sure' = mem' /\ Running' = {}
    BY <1>2, <2>1 DEF Sure, Claimed, Running
  <2>3. StatesInv'
    BY <1>1, <1>2, <2>1, <2>2 DEF StatesInv
  <2>4. FlowInv'
    BY <1>1, <2>1, <2>2 DEF FlowInv, Reporting, Alone
  <2> QED BY <2>1, <2>3, <2>4
<1>6. CASE EditContract
  <2>1. UNCHANGED <<pc, mem, cur, todo, disk, exists>>
    BY <1>6 DEF EditContract, local
  <2>2. Sure' = Sure /\ Running' = Running
    BY <2>1 DEF Sure, Claimed, Undone, Running
  <2> QED BY <2>1, <2>2 DEF SchedulingInv, StatesInv, FlowInv
<1> QED BY <1>3, <1>4, <1>5, <1>6 DEF Command

LEMMA SchedulingStep == SchedulingInv /\ [Next]_vars => SchedulingInv'
<1> SUFFICES ASSUME SchedulingInv, [Next]_vars
             PROVE  SchedulingInv'
  OBVIOUS
<1>1. TypeInv'
  BY TypeStep DEF SchedulingInv
<1>2. StatesInv' /\ FlowInv'
  <2>1. CASE Next
    BY <2>1, StartupSchedules, IterationSchedules, OutsideSchedules DEF Next, Run
  <2>2. CASE UNCHANGED vars
    <3>1. UNCHANGED <<pc, mem, cur, todo, disk, exists>>
      BY <2>2 DEF vars, local, stored
    <3>2. Sure' = Sure /\ Running' = Running
      BY <3>1 DEF Sure, Claimed, Undone, Running
    <3> QED BY <3>1, <3>2 DEF SchedulingInv, StatesInv, FlowInv
  <2> QED BY <2>1, <2>2
<1> QED BY <1>1, <1>2 DEF SchedulingInv

\* The tree of tasks keeps its shape in memory and on disk, whatever the models
\* plan, the agents report and verification decides, and wherever a process dies.
LEMMA Schedules == Spec => []SchedulingInv
<1>1. Init => SchedulingInv
  BY InitTypes, InitSchedules DEF SchedulingInv
<1> QED BY <1>1, SchedulingStep, PTL DEF Spec

-----------------------------------------------------------------------------
\* What the invariant says of every state.

\* No handler ever asks for an illegal status transition: the ValueError of
\* transitions.py never ends a run, in any mode and after any crash.
THEOREM TransitionsAreLegal == Spec => []NeverIllegal
<1>1. SchedulingInv => NeverIllegal
  BY StateConsequences DEF SchedulingInv, TypeInv, TypeOK, StatesInv, NeverIllegal
<1> QED BY <1>1, Schedules, PTL

\* A task that is ready or in progress has its dependencies satisfied, under
\* either dependency policy, also after verification reopened some of them.
THEOREM DependenciesFirst == Spec => []WorkHasDependencies
<1>1. SchedulingInv => WorkHasDependencies
  BY StateConsequences DEF SchedulingInv, TypeInv, TypeOK, StatesInv, WorkHasDependencies
<1> QED BY <1>1, Schedules, PTL

\* A task with children is never worked on, and is not called complete before
\* its children are, but for those verification reopened afterwards.
THEOREM ChildrenFirst == Spec => []ParentsFollowChildren
<1>1. SchedulingInv => ParentsFollowChildren
  BY StateConsequences DEF SchedulingInv, TypeInv, TypeOK, StatesInv, ParentsFollowChildren
<1> QED BY <1>1, Schedules, PTL

\* A reported blocker keeps its task from the scheduler until it is cleared.
THEOREM BlockersAreKept == Spec => []BlockerIsResolved
<1>1. SchedulingInv => BlockerIsResolved
  BY StateConsequences DEF SchedulingInv, TypeInv, TypeOK, StatesInv, BlockerIsResolved
<1> QED BY <1>1, Schedules, PTL

\* No task is reopened more than max_task_reopens + 1 times, and after the last
\* time it stays blocked.
THEOREM ReopensAreBounded == Spec => []ReopenBudget
<1>1. SchedulingInv => ReopenBudget
  BY StateConsequences DEF SchedulingInv, TypeInv, TypeOK, StatesInv, ReopenBudget
<1> QED BY <1>1, Schedules, PTL

\* The state a session leaves can be saved, unless a decomposition reused the
\* key of an existing task.
THEOREM OutcomesAreSaved == Spec => []SessionStateSaved
<1>1. SchedulingInv => SessionStateSaved
  BY DEF SchedulingInv, FlowInv, SessionStateSaved
<1> QED BY <1>1, Schedules, PTL

-----------------------------------------------------------------------------
\* What is saved is never undone.

LEMMA ProcessRuns ==
    ASSUME Startup \/ Iteration
    PROVE  pc \notin {"down", "returned", "raised"}
<1>1. CASE Startup
  BY <1>1 DEF Startup, FreezeContract, ContractModified, RecordContract, ContractInvalid,
              ContractReady, Reactivate, DecomposeFailedTask, RunTimeLimit,
              CreateInitialPlan, InitialPlanFails, FinalizePending, RetryInfrastructure,
              EnterLoop
<1>2. CASE EndSession
  BY <1>2 DEF EndSession, RequestCompletion, RequestDecomposition, ReportBlocker,
              CompleteOnEvidence, EndWithoutSignal
<1>3. CASE Iteration /\ ~EndSession
  BY <1>3 DEF Iteration, LoopTimeLimit, AggregateParents, SelectTask, NoReachableTask,
              SessionBudgetSpent, NothingToRun, TaskSessionLimit, StartSession,
              VerifyTask, VerifyProject, NothingToVerify, AppendSession, SaveAfterSession,
              NextIteration, TimeLimitAfterSession, AggregateOnceMore, SettleComplete,
              SettleSessionLimit, SettleUnchanged, ReportFinalVerification
<1> QED BY <1>1, <1>2, <1>3

LEMMA DiskAdvances ==
    ASSUME SchedulingInv, [Next]_vars
    PROVE  Forward(disk, disk')
<1>1. disk \in ProjectState /\ Forward(disk, disk)
  BY ForwardReflexive DEF SchedulingInv, TypeInv, TypeOK
<1>2. CASE disk' = disk
  BY <1>1, <1>2
<1>3. CASE Startup \/ Iteration
  <2>1. Forward(disk, Sure)
    BY <1>3, ProcessRuns DEF SchedulingInv, StatesInv
  <2>2. Advances
    BY <1>3, StartupSchedules, IterationSchedules
  <2>3. Forward(disk, Sure')
    BY <1>1, <2>1, <2>2, ForwardTransitive DEF Advances
  <2> QED BY <1>1, <2>2, <2>3 DEF Advances
<1>4. CASE Command \/ Exit \/ Crash \/ EditContract
  BY <1>1, <1>4, OutsideSchedules
<1> QED BY <1>2, <1>3, <1>4 DEF Next, Run, vars, stored

\* What is on disk is never undone: counters do not go back, tasks do not
\* disappear, and a complete leaf stays complete unless verification reopened it.
PersistedProgress ==
    [][/\ disk'.sessions >= disk.sessions
       /\ disk'.count >= disk.count
       /\ disk'.pattempts >= disk.pattempts
       /\ \A t \in Leaves(disk) \cap WithStatus(disk, Complete) :
             \/ disk'.tasks[t].status \in Complete
             \/ disk'.tasks[t].reopens > disk.tasks[t].reopens]_disk

\* No crash, resume or verdict takes back what project_state.json counts, and a
\* leaf it calls complete stays complete unless verification reopens it.
THEOREM ProgressPersists == Spec => PersistedProgress
<1>1. SchedulingInv /\ [Next]_vars =>
         [/\ disk'.sessions >= disk.sessions
          /\ disk'.count >= disk.count
          /\ disk'.pattempts >= disk.pattempts
          /\ \A t \in Leaves(disk) \cap WithStatus(disk, Complete) :
                \/ disk'.tasks[t].status \in Complete
                \/ disk'.tasks[t].reopens > disk.tasks[t].reopens]_disk
  <2> SUFFICES ASSUME SchedulingInv, [Next]_vars
               PROVE  /\ disk'.sessions >= disk.sessions
                      /\ disk'.count >= disk.count
                      /\ disk'.pattempts >= disk.pattempts
                      /\ \A t \in Leaves(disk) \cap WithStatus(disk, Complete) :
                            \/ disk'.tasks[t].status \in Complete
                            \/ disk'.tasks[t].reopens > disk.tasks[t].reopens
    OBVIOUS
  <2>1. Forward(disk, disk') /\ disk \in ProjectState /\ disk' \in ProjectState
    BY DiskAdvances, SchedulingStep DEF SchedulingInv, TypeInv, TypeOK
  <2>2. /\ disk'.sessions >= disk.sessions /\ disk'.count >= disk.count
        /\ disk'.pattempts >= disk.pattempts
    BY <2>1, StateCounters DEF Forward
  <2>3. ASSUME NEW t \in Leaves(disk) \cap WithStatus(disk, Complete)
        PROVE  \/ disk'.tasks[t].status \in Complete
               \/ disk'.tasks[t].reopens > disk.tasks[t].reopens
    <3>1. t \in Tasks(disk) /\ disk.tasks[t].status \in Complete /\ t \in Tasks(disk')
      BY <2>1, StateCounters DEF WithStatus, Tasks, Forward
    <3>2. disk.tasks[t].reopens \in Nat /\ disk'.tasks[t].reopens \in Nat
      BY <2>1, <3>1, TaskFields
    <3> QED BY <2>1, <3>1, <3>2 DEF Forward
  <2> QED BY <2>2, <2>3
<1> QED BY <1>1, Schedules, PTL DEF Spec, PersistedProgress

-----------------------------------------------------------------------------
\* How a run returns.

LEMMA StartupReturns ==
    ASSUME SchedulingInv, Startup, pc' = "returned", mem'.status = "active"
    PROVE  ~AllLeavesComplete(mem')
<1>1. CASE ContractInvalid \/ RunTimeLimit
  <2>1. /\ pc # "verify" /\ todo' = todo
        /\ \E status \in {"verification_inconclusive", "time_limit_reached"} :
              Save(SetProject(mem, status), "returned")
    BY <1>1 DEF ContractInvalid, RunTimeLimit, MarkTimeLimit, local
  <2>2. {"verification_inconclusive", "time_limit_reached"} \subseteq ProjectStatus \ Settled
    BY DEF ProjectStatus, Settled
  <2> QED BY <2>1, <2>2, NewStatus
<1>2. CASE FinalizePending
  <2>1. /\ mem \in ProjectState /\ StateInv(mem) /\ AllLeavesComplete(mem)
        /\ Forward(Sure, mem) /\ todo' = todo
    BY <1>2, ClaimIsForward
       DEF SchedulingInv, TypeInv, TypeOK, StatesInv, FinalizePending, StateInv, ProjectInv,
           Settled, local
  <2>2. Finalized("returned")
    BY <1>2, <2>1, FinalizeEffect DEF FinalizePending
  <2> QED BY <2>2 DEF Finalized
<1>3. CASE \/ FreezeContract \/ ContractModified \/ ContractReady \/ InitialPlanFails
           \/ EnterLoop \/ RetryInfrastructure
  BY <1>3 DEF FreezeContract, ContractModified, ContractReady, InitialPlanFails, EnterLoop,
              RetryInfrastructure, AfterInitialization, Compute, Goto, Raise
<1>4. CASE RecordContract
  <2>1. \E S, next : Save(S, next) /\ next # "returned"
    BY <1>4 DEF RecordContract, AfterInitialization
  <2> QED BY <2>1, SaveWrites
<1>7. CASE CreateInitialPlan
  BY <1>7, CreateInitialPlanEffect
<1>5. CASE Reactivate
  BY <1>5, ReactivateEffect
<1>6. CASE DecomposeFailedTask
  BY <1>6, DecomposeFailedEffect
<1> QED BY <1>1, <1>2, <1>3, <1>4, <1>5, <1>6, <1>7 DEF Startup

LEMMA IterationReturns ==
    ASSUME SchedulingInv, Iteration, pc' = "returned", mem'.status = "active"
    PROVE  ~AllLeavesComplete(mem')
<1>1. CASE SettleComplete
  <2>1. /\ mem \in ProjectState /\ StateInv(mem) /\ AllLeavesComplete(mem)
        /\ Forward(Sure, mem) /\ todo' = todo
    BY <1>1, ClaimIsForward
       DEF SchedulingInv, TypeInv, TypeOK, StatesInv, SettleComplete, local
  <2>2. Finalized("returned") \/ Reported
    BY <1>1, <2>1, FinalizeCandidateEffect DEF SettleComplete
  <2> QED BY <2>2 DEF Finalized, Reported, Reporting
<1>2. CASE SettleSessionLimit
  <2>1. "session_limit_reached" \in ProjectStatus \ Settled
    BY DEF ProjectStatus, Settled
  <2> QED BY <1>2, <2>1, NewStatus DEF SettleSessionLimit, local
<1>3. CASE SettleUnchanged
  BY <1>3 DEF SettleUnchanged, Compute
<1>4. CASE LoopTimeLimit \/ TimeLimitAfterSession \/ SaveAfterSession \/ TaskSessionLimit
           \/ SelectTask
  BY <1>4, SaveWrites
     DEF LoopTimeLimit, TimeLimitAfterSession, SaveAfterSession, TaskSessionLimit, SelectTask,
         MarkTimeLimit
<1>5. CASE \/ AggregateParents \/ AggregateOnceMore \/ NoReachableTask \/ SessionBudgetSpent
           \/ StartSession \/ VerifyTask \/ NothingToVerify \/ AppendSession \/ NextIteration
  BY <1>5 DEF AggregateParents, AggregateOnceMore, NoReachableTask, SessionBudgetSpent,
              StartSession, VerifyTask, NothingToVerify, AppendSession, NextIteration,
              Compute, Goto, Raise
<1>6. CASE NothingToRun
  BY <1>6, NothingToRunEffect DEF Reported, Reporting
<1>7. CASE VerifyProject
  BY <1>7, VerifyProjectEffect DEF Finalized
<1>8. CASE EndSession
  BY <1>8, EndSessionEffect DEF SessionEnded
<1>9. CASE ReportFinalVerification
  BY <1>9, ReportEffect DEF Finalized
<1> QED BY <1>1, <1>2, <1>3, <1>4, <1>5, <1>6, <1>7, <1>8, <1>9 DEF Iteration

\* A run that returns an ACTIVE project leaves a leaf to work on: the end of
\* run_project settles every project whose leaves are complete.
THEOREM ActiveProjectsHaveWork == Spec => []ActiveMeansWork
<1>1. Init => ActiveMeansWork
  BY DEF Init, ActiveMeansWork
<1>2. SchedulingInv /\ ActiveMeansWork /\ [Next]_vars => ActiveMeansWork'
  <2> SUFFICES ASSUME SchedulingInv, ActiveMeansWork, [Next]_vars
               PROVE  ActiveMeansWork'
    OBVIOUS
  <2>1. CASE Startup \/ Iteration
    BY <2>1, StartupReturns, IterationReturns DEF ActiveMeansWork
  <2>2. CASE Command \/ Exit \/ Crash \/ EditContract
    <3>1. pc' # "returned"
      BY <2>2 DEF Command, CreateProject, LoadProject, Save, Compute, Goto, Exit, Crash, Stop,
                  EditContract
    <3> QED BY <3>1 DEF ActiveMeansWork
  <2>3. CASE UNCHANGED vars
    BY <2>3 DEF vars, ActiveMeansWork
  <2> QED BY <2>1, <2>2, <2>3 DEF Next, Run
<1> QED BY <1>1, <1>2, Schedules, PTL DEF Spec

-----------------------------------------------------------------------------
\* The scheduler is never stuck.

\* When nothing can be picked and nothing has failed, nothing is left.
LEMMA NothingIsLeft ==
    ASSUME SchedulingInv, DepSat = "candidate_complete", NoReachableTask
    PROVE  WithStatus(mem, {"failed"}) # {}
<1> SUFFICES ASSUME WithStatus(mem, {"failed"}) = {}
             PROVE  FALSE
  OBVIOUS
<1>1. /\ mem \in ProjectState /\ StateInv(mem) /\ pc = "select" /\ SelectRaises(mem)
      /\ Waiting(mem) /\ Alone(Running)
  BY DEF SchedulingInv, TypeInv, TypeOK, StatesInv, FlowInv, NoReachableTask
<1>2. Cardinality(Running) \in {0, 1}
  <2>1. CASE Running = {}
    BY <2>1, FS_EmptySet
  <2>2. CASE Running # {}
    <3>1. PICK t \in Running : Running = {t}
      BY <1>1, <2>2 DEF Alone
    <3> QED BY <3>1, FS_Singleton
  <2> QED BY <2>1, <2>2
<1>3. /\ NextTask(mem) = None /\ WithStatus(mem, {"blocked"}) = {}
      /\ WithStatus(mem, {"pending"}) # {}
  <2>1. ~(Cardinality(Running) > 1)
    BY <1>2
  <2> QED BY <1>1, <2>1 DEF SelectRaises, Running
<1>4. /\ WithStatus(mem, {"in_progress"}) = {} /\ WithStatus(mem, {"ready"}) = {}
      /\ Pickable(mem) = {}
  BY <1>1, <1>3, NextTaskIsWork
<1>5. \A t \in Tasks(mem) : mem.tasks[t].status \in {"pending", "decomposed"} \cup Complete
  <2>1. \A t \in Tasks(mem) : TaskInv(mem, t)
    BY <1>1 DEF StateInv
  <2> QED BY <1>3, <1>4, <2>1 DEF TaskInv, Open, WithStatus
<1> QED BY <1>1, <1>3, <1>4, <1>5, NothingIsStuck DEF Waiting

\* Only TaskSelector.select_next raises for want of a task.
Stuck == failure' = "no_reachable_task" /\ failure' # failure

LEMMA StartupNotStuck ==
    ASSUME SchedulingInv, Startup
    PROVE  ~Stuck
<1> USE DEF Stuck
<1>1. CASE FreezeContract \/ ContractModified \/ ContractReady \/ InitialPlanFails
           \/ EnterLoop \/ RetryInfrastructure \/ Reactivate
  BY <1>1 DEF FreezeContract, ContractModified, ContractReady, InitialPlanFails, EnterLoop,
              RetryInfrastructure, Reactivate, Compute, Goto, Raise
<1>2. CASE RecordContract \/ ContractInvalid \/ RunTimeLimit
  BY <1>2 DEF RecordContract, ContractInvalid, RunTimeLimit, MarkTimeLimit, Save, Goto
<1>3. CASE CreateInitialPlan
  BY <1>3 DEF CreateInitialPlan, Save, Goto
<1>4. CASE DecomposeFailedTask
  BY <1>4 DEF DecomposeFailedTask, TriggerDecomposition, Compute, Goto, Raise
<1>5. CASE FinalizePending
  BY <1>5 DEF FinalizePending, FinalizeContractVerification, Save, Goto
<1> QED BY <1>1, <1>2, <1>3, <1>4, <1>5 DEF Startup

LEMMA IterationNotStuck ==
    ASSUME SchedulingInv, Iteration, ~NoReachableTask
    PROVE  ~Stuck
<1> USE DEF Stuck
<1>1. CASE \/ AggregateParents \/ AggregateOnceMore \/ SessionBudgetSpent
           \/ StartSession \/ VerifyTask \/ NothingToVerify \/ AppendSession \/ NextIteration
           \/ SettleUnchanged
  BY <1>1 DEF AggregateParents, AggregateOnceMore, SessionBudgetSpent, StartSession,
              VerifyTask, NothingToVerify, AppendSession, NextIteration, SettleUnchanged,
              Compute, Goto
<1>2. CASE \/ LoopTimeLimit \/ TimeLimitAfterSession \/ SaveAfterSession \/ SelectTask
           \/ TaskSessionLimit \/ SettleSessionLimit \/ ReportFinalVerification
  BY <1>2 DEF LoopTimeLimit, TimeLimitAfterSession, SaveAfterSession, SelectTask,
              TaskSessionLimit, SettleSessionLimit, ReportFinalVerification, MarkTimeLimit,
              Save, Goto
<1>3. CASE NothingToRun \/ SettleComplete \/ VerifyProject
  BY <1>3 DEF NothingToRun, SettleComplete, VerifyProject, FinalizeCandidateComplete,
              FinalizeContractVerification, SaveLegacyVerificationReport, Save, Compute,
              Goto, Raise
<1>4. CASE EndSession
  BY <1>4 DEF EndSession, RequestCompletion, RequestDecomposition, ReportBlocker,
              CompleteOnEvidence, EndWithoutSignal, TriggerDecomposition, Compute, Goto, Raise
<1> QED BY <1>1, <1>2, <1>3, <1>4 DEF Iteration

\* The run that found no task has not gone on.
DeadlockInv ==
    failure = "no_reachable_task" =>
        pc = "raised" /\ WithStatus(mem, {"failed"}) # {}

\* Where CANDIDATE_COMPLETE satisfies a dependency, plans and decompositions
\* cannot block themselves: the selector raises only when some task FAILED.
THEOREM NeverStuck ==
    DepSat = "candidate_complete" => (Spec => []NoDependencyDeadlock)
<1> SUFFICES ASSUME DepSat = "candidate_complete"
             PROVE  Spec => []NoDependencyDeadlock
  OBVIOUS
<1>1. Init => DeadlockInv
  BY DEF Init, DeadlockInv
<1>2. SchedulingInv /\ DeadlockInv /\ [Next]_vars => DeadlockInv'
  <2> SUFFICES ASSUME SchedulingInv, DeadlockInv, [Next]_vars
               PROVE  DeadlockInv'
    OBVIOUS
  <2>1. CASE NoReachableTask
    <3>1. pc' = "raised" /\ mem' = mem
      BY <2>1 DEF NoReachableTask, Raise
    <3> QED BY <2>1, <3>1, NothingIsLeft DEF DeadlockInv
  <2>2. CASE (Startup \/ Iteration) /\ ~NoReachableTask
    <3>1. failure # "no_reachable_task"
      BY <2>2, ProcessRuns DEF DeadlockInv
    <3> QED BY <2>2, <3>1, StartupNotStuck, IterationNotStuck DEF Stuck, DeadlockInv
  <2>3. CASE Command \/ Exit \/ Crash \/ EditContract
    <3>1. failure' # "no_reachable_task"
      BY <2>3 DEF Command, CreateProject, LoadProject, Save, Compute, Goto, Exit, Crash, Stop,
                  EditContract, DeadlockInv
    <3> QED BY <3>1 DEF DeadlockInv
  <2>4. CASE UNCHANGED vars
    BY <2>4 DEF vars, DeadlockInv
  <2> QED BY <2>1, <2>2, <2>3, <2>4 DEF Next, Run
<1>3. DeadlockInv => NoDependencyDeadlock
  BY DEF DeadlockInv, NoDependencyDeadlock
<1> QED BY <1>1, <1>2, <1>3, Schedules, PTL DEF Spec

-----------------------------------------------------------------------------
\* Success.

\* A project that is resumed keeps its session budget.
SameBudget == \A c, d \in Configs : c.maxSessions = d.maxSessions

\* A project contract is required and a contract is configured.
Required == Scope # "none" /\ RequireProjectContract

\* The locations in which a project may be CANDIDATE_COMPLETE although it has to
\* be verified: the selector says so, and dispatch verifies it in the same
\* iteration, unless the process dies in between.
Early == {"start", "start_frozen", "resume", "resume_frozen", "reactivate", "run", "retry",
          "loop", "select", "dispatch"}

\* A process that starts with a project the selector called complete still has a
\* session to spend: it reaches dispatch again.
SuccessInv ==
    /\ disk.status = "candidate_complete" => disk.sessions < cfg.maxSessions
    /\ mem.status = "candidate_complete" =>
          mem.sessions < cfg.maxSessions /\ pc \in Early \cup {"raised"}
    /\ pc = "select" => mem.sessions < cfg.maxSessions

\* What a step does to it.
Unsettled ==
    /\ disk' = disk \/ disk' = mem'
    /\ cfg' = cfg
    /\ pc' # "select"
    /\ mem'.status # "candidate_complete"

Unchanged ==
    /\ disk' = disk \/ disk' = mem'
    /\ cfg' = cfg
    /\ mem'.status = mem.status /\ mem'.sessions = mem.sessions
    /\ mem.status = "candidate_complete" => pc' \in Early \cup {"raised"}
    /\ pc' = "select" => mem.sessions < cfg.maxSessions

LEMMA SuccessKept ==
    ASSUME SuccessInv, Unsettled \/ Unchanged
    PROVE  SuccessInv'
BY DEF SuccessInv, Unsettled, Unchanged

LEMMA StartupSucceeds ==
    ASSUME SchedulingInv, SuccessInv, Required, Startup
    PROVE  SuccessInv'
<1>1. CASE \/ FreezeContract \/ ContractModified \/ ContractReady \/ InitialPlanFails
           \/ EnterLoop
  <2>1. Unchanged
    BY <1>1 DEF FreezeContract, ContractModified, ContractReady, InitialPlanFails, EnterLoop,
                AfterInitialization, Compute, Goto, Raise, stored, local, Unchanged, Early
  <2> QED BY <2>1, SuccessKept
<1>2. CASE ContractInvalid \/ RunTimeLimit
  <2>1. /\ pc # "verify" /\ todo' = todo /\ cfg' = cfg
        /\ \E status \in {"verification_inconclusive", "time_limit_reached"} :
              Save(SetProject(mem, status), "returned")
    BY <1>2 DEF ContractInvalid, RunTimeLimit, MarkTimeLimit, local
  <2>2. {"verification_inconclusive", "time_limit_reached"} \subseteq ProjectStatus \ Settled
    BY DEF ProjectStatus, Settled
  <2>3. Effect /\ mem'.status # "candidate_complete" /\ pc' \in {"returned", "raised"}
    BY <2>1, <2>2, NewStatus DEF Settled
  <2> QED BY <2>1, <2>3, SuccessKept DEF Effect, Written, Unsettled
<1>3. CASE RecordContract
  <2>1. cfg' = cfg /\ pc' \in {"reactivate", "run", "raised"}
    BY <1>3, SaveWrites DEF RecordContract, AfterInitialization, local
  <2>2. Effect /\ mem'.status = mem.status /\ Counted(mem, mem')
    BY <1>3, RecordContractEffect
  <2> QED BY <2>1, <2>2, SuccessKept DEF Effect, Written, Counted, Unchanged, Early
<1>4. CASE Reactivate
  <2>1. cfg' = cfg /\ pc = "reactivate"
    BY <1>4 DEF Reactivate
  <2>2. /\ Effect /\ pc' \in {"forced", "run"}
        /\ mem'.status = "candidate_complete" => mem' = mem
        /\ pc' = "forced" => mem'.status = "active"
    BY <1>4, ReactivateEffect
  <2> QED BY <2>1, <2>2, SuccessKept DEF Effect, Written, Unsettled, Unchanged, Early
<1>5. CASE DecomposeFailedTask
  <2>1. cfg' = cfg /\ pc = "forced"
    BY <1>5 DEF DecomposeFailedTask
  <2>2. /\ Effect /\ pc' \in {"forced", "run", "raised"}
        /\ mem'.status = mem.status
    BY <1>5, DecomposeFailedEffect
  <2> QED BY <2>1, <2>2, SuccessKept DEF Effect, Written, Unsettled, SuccessInv, Early
<1>6. CASE CreateInitialPlan
  <2>1. cfg' = cfg
    BY <1>6 DEF CreateInitialPlan, local
  <2>2. Effect /\ mem'.status = mem.status /\ Counted(mem, mem') /\ pc' \in {"run", "raised"}
    BY <1>6, CreateInitialPlanEffect
  <2> QED BY <2>1, <2>2, SuccessKept DEF Effect, Written, Counted, Unchanged, Early
<1>7. CASE FinalizePending
  <2>1. /\ mem \in ProjectState /\ StateInv(mem) /\ AllLeavesComplete(mem)
        /\ Forward(Sure, mem) /\ todo' = todo /\ cfg' = cfg
    BY <1>7, ClaimIsForward
       DEF SchedulingInv, TypeInv, TypeOK, StatesInv, FinalizePending, StateInv, ProjectInv,
           Settled, local
  <2>2. Finalized("returned")
    BY <1>7, <2>1, FinalizeEffect DEF FinalizePending
  <2> QED BY <2>1, <2>2, SuccessKept DEF Finalized, Effect, Written, Required, Unsettled
<1>8. CASE RetryInfrastructure
  <2>1. cfg' = cfg
    BY <1>8 DEF RetryInfrastructure, local
  <2>2. Effect /\ mem'.status = mem.status /\ Counted(mem, mem') /\ pc' = "retry"
    BY <1>8, RetryEffect
  <2> QED BY <2>1, <2>2, SuccessKept DEF Effect, Written, Counted, Unchanged, Early
<1> QED BY <1>1, <1>2, <1>3, <1>4, <1>5, <1>6, <1>7, <1>8 DEF Startup

LEMMA IterationSucceeds ==
    ASSUME SchedulingInv, SuccessInv, Required, Iteration
    PROVE  SuccessInv'
<1>0. mem \in ProjectState /\ mem.sessions \in Nat /\ cfg.maxSessions \in Nat
  BY StateCounters, OrchestratorAssumption DEF SchedulingInv, TypeInv, TypeOK, Config
<1>1. CASE \/ NoReachableTask \/ SessionBudgetSpent \/ NextIteration \/ SettleUnchanged
           \/ NothingToVerify \/ AppendSession
  <2>1. /\ mem' = mem /\ disk' = disk /\ cfg' = cfg /\ pc' # "select"
        /\ \/ pc' = "raised"
           \/ mem.sessions >= cfg.maxSessions
           \/ pc \in {"check", "settle", "verify", "append"}
    BY <1>1 DEF NoReachableTask, SessionBudgetSpent, NextIteration, SettleUnchanged,
                NothingToVerify, AppendSession, Compute, Goto, Raise, stored, local
  <2>2. mem.status = "candidate_complete" => pc' = "raised"
    BY <1>0, <2>1 DEF SuccessInv, Early
  <2> QED BY <2>1, <2>2, SuccessKept DEF Unchanged
<1>2. CASE LoopTimeLimit \/ TimeLimitAfterSession \/ SettleSessionLimit
  <2>1. /\ pc # "verify" /\ todo' = todo /\ cfg' = cfg
        /\ \E status \in {"session_limit_reached", "time_limit_reached"},
              next \in {"post", "returned"} : Save(SetProject(mem, status), next)
    BY <1>2 DEF LoopTimeLimit, TimeLimitAfterSession, SettleSessionLimit, MarkTimeLimit, local
  <2>2. {"session_limit_reached", "time_limit_reached"} \subseteq ProjectStatus \ Settled
    BY DEF ProjectStatus, Settled
  <2>3. Effect /\ mem'.status # "candidate_complete" /\ pc' \in {"post", "returned", "raised"}
    BY <2>1, <2>2, NewStatus DEF Settled
  <2> QED BY <2>1, <2>3, SuccessKept DEF Effect, Written, Unsettled
<1>3. CASE AggregateParents \/ AggregateOnceMore
  <2>1. /\ cfg' = cfg
        /\ \/ pc = "loop" /\ pc' = "select" /\ mem.sessions < cfg.maxSessions
           \/ pc = "post" /\ pc' = "settle"
    BY <1>3 DEF AggregateParents, AggregateOnceMore, Compute, Goto, local
  <2>2. Effect /\ mem'.status = mem.status /\ Counted(mem, mem')
    BY <1>3, AggregateEffect
  <2> QED BY <2>1, <2>2, SuccessKept
          DEF Effect, Written, Counted, Unchanged, SuccessInv, Early
<1>4. CASE SelectTask
  <2>1. cfg' = cfg /\ mem.sessions < cfg.maxSessions
    BY <1>4 DEF SelectTask, SuccessInv
  <2>2. Effect /\ Counted(mem, mem') /\ pc' \in {"dispatch", "raised"}
    BY <1>4, SelectEffect
  <2> QED BY <2>1, <2>2 DEF Effect, Written, Counted, SuccessInv, Early
<1>5. CASE NothingToRun
  <2>1. cfg' = cfg
    BY <1>5 DEF NothingToRun, local
  <2> QED BY <1>5, <2>1, NothingToRunEffect, SuccessKept
          DEF Effect, Written, Required, Unsettled, Reported, Reporting
<1>6. CASE TaskSessionLimit
  <2>1. cfg' = cfg
    BY <1>6 DEF TaskSessionLimit, local
  <2> QED BY <1>6, <2>1, SessionLimitEffect, SuccessKept DEF Effect, Written, Unsettled
<1>7. CASE StartSession
  <2>1. /\ cfg' = cfg /\ StateInv(mem) /\ cur \in Tasks(mem)
        /\ mem.tasks[cur].status \in {"ready", "in_progress"}
    BY <1>7 DEF StartSession, local, SchedulingInv, StatesInv, FlowInv
  <2>2. mem.status \notin Settled
    BY <1>0, <2>1, OpenProject DEF Open
  <2>3. mem'.status = mem.status /\ pc' = "session" /\ disk' = disk
    BY <1>7, StartSessionEffect DEF stored
  <2> QED BY <2>1, <2>2, <2>3, SuccessKept DEF Unsettled, Settled
<1>8. CASE EndSession
  <2>1. pc = "session" /\ cfg' = cfg
    BY <1>8, EndSessionEffect
       DEF EndSession, RequestCompletion, RequestDecomposition, ReportBlocker,
           CompleteOnEvidence, EndWithoutSignal, local
  <2>2. mem'.status = mem.status /\ disk' = disk /\ pc' \in {"verify", "raised"}
    BY <1>8, EndSessionEffect DEF SessionEnded, stored
  <2> QED BY <2>1, <2>2, SuccessKept DEF Unsettled, SuccessInv, Early
<1>9. CASE VerifyTask
  <2>1. pc = "verify" /\ cfg' = cfg
    BY <1>9 DEF VerifyTask, local
  <2>2. mem'.status = mem.status /\ disk' = disk /\ pc' = "append"
    BY <1>9, VerifyTaskEffect DEF stored
  <2> QED BY <2>1, <2>2, SuccessKept DEF Unsettled, SuccessInv, Early
<1>10. CASE VerifyProject
  <2>1. cfg' = cfg
    BY <1>10 DEF VerifyProject
  <2> QED BY <1>10, <2>1, VerifyProjectEffect, SuccessKept
          DEF Finalized, Effect, Written, Required, Unsettled
<1>11. CASE SaveAfterSession
  <2>1. pc = "save" /\ cfg' = cfg /\ Save(mem, "check")
    BY <1>11 DEF SaveAfterSession, local
  <2>2. mem' = mem /\ pc' \in {"check", "raised"} /\ (disk' = disk \/ disk' = mem')
    BY <2>1 DEF Save, Goto
  <2> QED BY <2>1, <2>2, SuccessKept DEF Unsettled, SuccessInv, Early
<1>12. CASE SettleComplete
  <2>1. /\ mem \in ProjectState /\ StateInv(mem) /\ AllLeavesComplete(mem)
        /\ Forward(Sure, mem) /\ todo' = todo /\ cfg' = cfg
    BY <1>12, ClaimIsForward
       DEF SchedulingInv, TypeInv, TypeOK, StatesInv, SettleComplete, local
  <2>2. Finalized("returned")
    BY <1>12, <2>1, FinalizeCandidateEffect DEF SettleComplete, Reported, Required
  <2> QED BY <2>1, <2>2, SuccessKept DEF Finalized, Effect, Written, Required, Unsettled
<1>13. CASE ReportFinalVerification
  BY <1>13, ReportEffect DEF Required
<1> QED BY <1>1, <1>2, <1>3, <1>4, <1>5, <1>6, <1>7, <1>8, <1>9, <1>10, <1>11, <1>12, <1>13
        DEF Iteration

\* A run that reports success where a contract is required has every leaf
\* VERIFIED, provided that the processes of the project agree on its session
\* budget: resumed with a smaller one after a crash between the selector and the
\* verification, the project is returned as CANDIDATE_COMPLETE, unverified.
THEOREM SuccessMeansVerified ==
    SameBudget => (Spec => []SuccessIsVerified)
<1> SUFFICES ASSUME SameBudget
             PROVE  Spec => []SuccessIsVerified
  OBVIOUS
<1>1. Init => (Required => SuccessInv)
  BY DEF Init, SuccessInv, NewProject
<1>2. SchedulingInv /\ (Required => SuccessInv) /\ [Next]_vars => (Required => SuccessInv)'
  <2> SUFFICES ASSUME SchedulingInv, SuccessInv, [Next]_vars, Required
               PROVE  SuccessInv'
    BY DEF Required
  <2>1. CASE Startup \/ Iteration
    BY <2>1, StartupSucceeds, IterationSucceeds
  <2>2. CASE CreateProject
    <3>1. mem' = NewProject /\ (disk' = mem' \/ disk' = disk) /\ ~exists /\ pc' # "select"
      BY <2>2 DEF CreateProject, Save, Goto
    <3>2. disk = NewProject
      BY <3>1 DEF SchedulingInv, FlowInv
    <3> QED BY <3>1, <3>2 DEF SuccessInv, NewProject
  <2>3. ASSUME NEW command \in {"start", "resume"}, LoadProject(command)
        PROVE  SuccessInv'
    <3>1. cfg'.maxSessions = cfg.maxSessions
      BY <2>3 DEF LoadProject, SameBudget, SchedulingInv, TypeInv, TypeOK
    <3>2. mem' = disk /\ disk' = disk /\ pc' = command
      BY <2>3 DEF LoadProject, Compute, Goto, stored
    <3> QED BY <3>1, <3>2 DEF SuccessInv, Early
  <2>4. CASE Exit \/ Crash
    <3>1. mem' = NewProject /\ disk' = disk /\ cfg' = cfg /\ pc' = "down"
      BY <2>4 DEF Exit, Crash, Stop, stored
    <3> QED BY <3>1 DEF SuccessInv, NewProject
  <2>5. CASE EditContract \/ UNCHANGED vars
    <3>1. UNCHANGED <<pc, mem, cfg, disk>>
      BY <2>5 DEF EditContract, vars, local, stored
    <3> QED BY <3>1 DEF SuccessInv
  <2> QED BY <2>1, <2>2, <2>3, <2>4, <2>5 DEF Next, Run, Command
<1>3. SchedulingInv /\ (Required => SuccessInv) => SuccessIsVerified
  BY DEF SchedulingInv, StatesInv, StateInv, ProjectInv, SuccessInv, SuccessIsVerified,
         Required, Early
<1> QED BY <1>1, <1>2, <1>3, Schedules, PTL DEF Spec

-----------------------------------------------------------------------------
\* Progress survives whatever processes die.

LEMMA TriggerStaysUp ==
    ASSUME NEW S, NEW t, NEW force, NEW asked, NEW next, next # "down",
           TriggerDecomposition(S, t, force, asked, next)
    PROVE  pc' # "down"
BY DEF TriggerDecomposition, Compute, Goto, Raise

LEMMA SaveStaysUp ==
    ASSUME NEW S, NEW next, next # "down", Save(S, next)
    PROVE  pc' # "down"
BY SaveWrites

LEMMA FinalizeStaysUp ==
    ASSUME NEW S, NEW next, next # "down",
           FinalizeContractVerification(S, next) \/ FinalizeCandidateComplete(S, next)
    PROVE  pc' # "down"
BY SaveStaysUp DEF FinalizeContractVerification, FinalizeCandidateComplete,
                   SaveLegacyVerificationReport, Goto, Raise

\* Only Exit and Crash end a process.
LEMMA StaysUp ==
    ASSUME Startup \/ Iteration
    PROVE  pc' # "down"
<1>1. CASE Startup
  <2>1. CASE DecomposeFailedTask
    <3> DEFINE t == CHOOSE u \in todo : \A w \in todo : u <= w
               next == IF todo = {t} THEN "run" ELSE "forced"
    <3>1. TriggerDecomposition(mem, t, TRUE, FALSE, next)
      BY <2>1, Zenon DEF DecomposeFailedTask
    <3>2. next # "down"
      OBVIOUS
    <3> HIDE DEF t, next
    <3> QED BY <3>1, <3>2, TriggerStaysUp
  <2>2. CASE FinalizePending
    BY <2>2, FinalizeStaysUp DEF FinalizePending
  <2>3. CASE RecordContract \/ ContractInvalid \/ RunTimeLimit \/ CreateInitialPlan
    BY <2>3, SaveStaysUp DEF RecordContract, ContractInvalid, RunTimeLimit, CreateInitialPlan,
                             MarkTimeLimit, AfterInitialization, Raise
  <2>4. CASE \/ FreezeContract \/ ContractModified \/ ContractReady \/ Reactivate
             \/ InitialPlanFails \/ RetryInfrastructure \/ EnterLoop
    BY <2>4 DEF FreezeContract, ContractModified, ContractReady, Reactivate,
                InitialPlanFails, RetryInfrastructure, EnterLoop, AfterInitialization,
                Compute, Goto, Raise
  <2> QED BY <1>1, <2>1, <2>2, <2>3, <2>4 DEF Startup
<1>2. CASE Iteration
  <2>1. CASE EndSession
    <3>1. CASE RequestCompletion \/ \E flag \in BOOLEAN : CompleteOnEvidence(flag)
      BY <3>1 DEF RequestCompletion, CompleteOnEvidence, Compute, Goto
    <3>2. CASE RequestDecomposition \/ \E flag \in BOOLEAN : ReportBlocker(flag)
      BY <3>2, TriggerStaysUp DEF RequestDecomposition, ReportBlocker, Compute, Goto
    <3>3. CASE \E flag \in BOOLEAN : EndWithoutSignal(flag)
      BY <3>3, TriggerStaysUp DEF EndWithoutSignal, Compute, Goto
    <3> QED BY <2>1, <3>1, <3>2, <3>3 DEF EndSession
  <2>2. CASE NothingToRun \/ VerifyProject \/ SettleComplete
    BY <2>2, FinalizeStaysUp, SaveStaysUp
       DEF NothingToRun, VerifyProject, SettleComplete, Compute, Goto, Raise
  <2>3. CASE \/ LoopTimeLimit \/ SelectTask \/ TaskSessionLimit \/ SaveAfterSession
             \/ TimeLimitAfterSession \/ SettleSessionLimit \/ ReportFinalVerification
    BY <2>3, SaveStaysUp, TriggerStaysUp
       DEF LoopTimeLimit, SelectTask, TaskSessionLimit, SaveAfterSession,
           ReportFinalVerification,
           TimeLimitAfterSession, SettleSessionLimit, MarkTimeLimit, Compute, Goto, Raise
  <2>4. CASE \/ AggregateParents \/ NoReachableTask \/ SessionBudgetSpent \/ StartSession
             \/ VerifyTask \/ NothingToVerify \/ AppendSession \/ NextIteration
             \/ AggregateOnceMore \/ SettleUnchanged
    BY <2>4 DEF AggregateParents, NoReachableTask, SessionBudgetSpent, StartSession,
                VerifyTask, NothingToVerify, AppendSession, NextIteration,
                AggregateOnceMore, SettleUnchanged, Compute, Goto, Raise
  <2> QED BY <1>2, <2>1, <2>2, <2>3, <2>4 DEF Iteration
<1> QED BY <1>1, <1>2

LEMMA ProgressTyped ==
    ASSUME NEW S
    PROVE  /\ Progress(S).sessions = S.sessions
           /\ Progress(S).verifications = S.pattempts
           /\ Progress(S).tasks = Tasks(S)
           /\ Progress(S).done = WithStatus(S, Complete)
           /\ \A t \in TaskId : Progress(S).reopens[t] = S.tasks[t].reopens
BY DEF Progress

\* A state that knows more shows more progress.
LEMMA ForwardIsLater ==
    ASSUME NEW A \in ProjectState, NEW B \in ProjectState, Forward(A, B)
    PROVE  Durable!Later(Progress(A), Progress(B))
<1> DEFINE p == Progress(A)
           q == Progress(B)
<1>1. p.sessions <= q.sessions /\ p.verifications <= q.verifications
  BY ProgressTyped DEF Forward
<1>2. Tasks(A) \subseteq Tasks(B) /\ Tasks(A) \subseteq TaskId
  BY StateCounters, TaskFields DEF Forward, Tasks
<1>3. ASSUME NEW t \in p.tasks
      PROVE  p.reopens[t] <= q.reopens[t]
  <2>1. t \in Tasks(A) /\ t \in TaskId
    BY <1>2, <1>3, ProgressTyped
  <2> QED BY <2>1, ProgressTyped DEF Forward
<1>4. ASSUME NEW t \in p.done
      PROVE  t \in q.done \/ p.reopens[t] < q.reopens[t]
  <2>1. t \in WithStatus(A, Complete)
    BY <1>4, ProgressTyped
  <2>2. t \in Tasks(A) /\ t \in TaskId /\ t \in Tasks(B) /\ A.tasks[t].status \in Complete
    BY <1>2, <2>1 DEF WithStatus
  <2>3. \/ t \in WithStatus(B, Complete)
        \/ A.tasks[t].reopens < B.tasks[t].reopens
    BY <2>2 DEF Forward, WithStatus
  <2> QED BY <2>2, <2>3, ProgressTyped
<1>5. p.tasks \subseteq q.tasks
  BY <1>2, ProgressTyped
<1> HIDE DEF p, q
<1>6. Durable!Later(p, q)
  BY <1>1, <1>3, <1>4, <1>5 DEF Durable!Later
<1> QED BY <1>6 DEF p, q

\* A new project has made none.
LEMMA NewIsNothing == Progress(NewProject) = Durable!Nothing
<1>1. /\ NewProject.sessions = 0 /\ NewProject.pattempts = 0
      /\ \A t \in TaskId : NewProject.tasks[t].reopens = 0
  BY DEF NewProject, NoTask
<1>2. WithStatus(NewProject, Complete) = {}
  BY NewProjectValid DEF WithStatus
<1>3. [t \in TaskId |-> NewProject.tasks[t].reopens] = [t \in TaskId |-> 0]
  BY <1>1
<1> QED BY <1>1, <1>2, <1>3, NewProjectValid DEF Progress, Durable!Nothing

LEMMA DurableInit == Init => Durable!Init
BY NewIsNothing DEF Init, Sure, Claimed, Durable!Init

\* Every step of a process is a step of DurableProject or leaves it alone.
LEMMA DurableStep == SchedulingInv /\ [Next]_vars => [Durable!Next]_(Durable!vars)
<1> SUFFICES ASSUME SchedulingInv, [Next]_vars
             PROVE  Durable!Next \/ UNCHANGED <<pc # "down", Progress(Sure), Progress(disk)>>
  BY DEF Durable!vars
<1>1. CASE Startup \/ Iteration
  <2>1. pc # "down" /\ pc' # "down"
    BY <1>1, ProcessRuns, StaysUp
  <2>2. Advances
    BY <1>1, StartupSchedules, IterationSchedules
  <2>3. Durable!Later(Progress(Sure), Progress(Sure'))
    BY <2>2, ForwardIsLater DEF Advances
  <2>4. Progress(disk') = Progress(disk) \/ Progress(disk') = Progress(Sure')
    BY <2>2 DEF Advances
  <2>5. Durable!Work
    BY <2>1, <2>3, <2>4 DEF Durable!Work
  <2> QED BY <2>5 DEF Durable!Next
<1>2. CASE CreateProject
  <2>1. pc = "down" /\ ~exists /\ mem' = NewProject /\ pc' \in {"start", "raised"}
    BY <1>2, SaveWrites DEF CreateProject
  <2>2. disk = NewProject /\ disk' = NewProject
    BY <1>2, <2>1, OutsideSchedules DEF Command, SchedulingInv, FlowInv
  <2>3. Sure' = NewProject
    BY <2>1 DEF Sure, Claimed
  <2> QED BY <2>1, <2>2, <2>3 DEF Durable!Next, Durable!Begin
<1>3. ASSUME NEW command \in {"start", "resume"}, LoadProject(command)
      PROVE  Durable!Next
  <2>1. pc = "down" /\ mem' = disk /\ pc' = command /\ disk' = disk
    BY <1>3 DEF LoadProject, Compute, Goto, stored
  <2>2. Sure' = disk
    BY <2>1 DEF Sure, Claimed
  <2> QED BY <2>1, <2>2 DEF Durable!Next, Durable!Begin
<1>4. CASE Exit \/ Crash
  <2>1. pc # "down" /\ pc' = "down" /\ mem' = NewProject /\ disk' = disk
    BY <1>4 DEF Exit, Crash, Stop, stored
  <2>2. Sure' = NewProject
    BY <2>1 DEF Sure, Claimed
  <2> QED BY <2>1, <2>2, NewIsNothing DEF Durable!Next, Durable!End
<1>5. CASE EditContract \/ UNCHANGED vars
  <2>1. UNCHANGED <<pc, mem, cur, disk>>
    BY <1>5 DEF EditContract, vars, local, stored
  <2>2. Sure' = Sure
    BY <2>1 DEF Sure, Claimed, Undone
  <2> QED BY <2>1, <2>2
<1> QED BY <1>1, <1>2, <1>3, <1>4, <1>5 DEF Next, Run, Command

\* Orchestrator implements DurableProject: whichever processes die, the next one
\* starts from all that was saved, a process never loses what it may rely on,
\* and saves nothing it may not rely on.
THEOREM OrchestratorIsDurable == Spec => ProgressIsDurable
<1>1. Init => SchedulingInv
  BY InitTypes, InitSchedules DEF SchedulingInv
<1> QED BY <1>1, SchedulingStep, DurableInit, DurableStep, PTL
        DEF Spec, ProgressIsDurable, Durable!Spec
=============================================================================
