----------------------------- MODULE TaskState -----------------------------
(***************************************************************************)
(* The persisted project state (state/schema.py) and the functions that    *)
(* rewrite it: the task status machine (state/transitions.py), the         *)
(* aggregation of parents from their children (state/aggregation.py) and   *)
(* the choice of the next task (state/selector.py).                        *)
(*                                                                         *)
(* The code mutates one ProjectState object; here every function is an     *)
(* operator from a state record to a state record, so that a handler of    *)
(* the orchestrator is a composition of these operators.                   *)
(*                                                                         *)
(* A task is its position in state.tasks, 1..count: tasks are only ever    *)
(* appended, in creation order, so the position also stands for the        *)
(* (created_at, id) part of the scheduling key.  0 stands for None.        *)
(***************************************************************************)
EXTENDS Naturals, FiniteSets, Sequences

CONSTANTS
    MaxTasks,      \* bound on len(state.tasks)
    Scope,         \* scope of the verification contract, "none" without one
    ContractTask,  \* the task a task-scoped contract names, 0 if none
    DepSat         \* planning.execution.dependency_satisfaction

ASSUME TaskStateAssumption ==
    /\ MaxTasks \in Nat \ {0}
    /\ Scope \in {"none", "task", "project"}
    /\ ContractTask \in 0..MaxTasks
    /\ DepSat \in {"candidate_complete", "verified"}

None == 0
TaskId == 1..MaxTasks

TaskStatus ==
    {"pending", "ready", "in_progress", "blocked", "candidate_complete",
     "decomposed", "failed", "verification_pending", "verified", "reopened"}

ProjectStatus ==
    {"active", "candidate_complete", "blocked", "failed",
     "session_limit_reached", "time_limit_reached", "verification_pending",
     "verified", "partially_verified", "verification_inconclusive"}

\* What a gateway verdict leaves in task.verification_status: only
\* infrastructure_error is ever read back.
TaskVerdict == {"none", "infrastructure_error", "other"}

TaskNode ==
    [status   : TaskStatus,
     parent   : 0..MaxTasks,
     depth    : Nat,
     deps     : SUBSET TaskId,
     sessions : Nat,          \* len(session_ids), equal to attempts
     noprog   : Nat,          \* consecutive_no_progress_sessions
     blocker  : BOOLEAN,
     vstat    : TaskVerdict,
     reopens  : Nat]

\* duplicateKeys and illegal record the two exceptions that state functions
\* can prepare: tasks that no save will accept, and a status change that
\* LEGAL_TRANSITIONS refuses.
ProjectState ==
    [status        : ProjectStatus,
     tasks         : [TaskId -> TaskNode],
     count         : 0..MaxTasks,
     active        : 0..MaxTasks,
     sessions      : Nat,
     pattempts     : Nat,     \* project_verification_attempts
     contractId    : BOOLEAN, \* a contract id is recorded in the state
     duplicateKeys : BOOLEAN,
     illegal       : BOOLEAN]

NoTask ==
    [status |-> "pending", parent |-> None, depth |-> 0, deps |-> {},
     sessions |-> 0, noprog |-> 0, blocker |-> FALSE, vstat |-> "none",
     reopens |-> 0]

NewProject ==
    [status |-> "active", tasks |-> [t \in TaskId |-> NoTask], count |-> 0,
     active |-> None, sessions |-> 0, pattempts |-> 0, contractId |-> FALSE,
     duplicateKeys |-> FALSE, illegal |-> FALSE]

-----------------------------------------------------------------------------
Tasks(S) == 1..S.count

WithStatus(S, statuses) == {t \in Tasks(S) : S.tasks[t].status \in statuses}

Children(S, p) == {c \in Tasks(S) : S.tasks[c].parent = p}

Leaves(S) == {t \in Tasks(S) : Children(S, t) = {}}

Complete == {"candidate_complete", "verified"}

AllLeavesComplete(S) ==
    /\ Leaves(S) # {}
    /\ Leaves(S) \subseteq WithStatus(S, Complete)

\* ProjectState.validate_graph: what every load and every save demands.
GraphValid(S) ==
    /\ ~S.duplicateKeys
    /\ S.active # None => S.active \in Tasks(S)
    /\ \A t \in WithStatus(S, {"in_progress"}) : S.active = t
    /\ \A t \in Tasks(S) :
         /\ S.tasks[t].deps \subseteq Tasks(S)
         /\ IF S.tasks[t].parent = None
            THEN S.tasks[t].depth = 0
            ELSE /\ S.tasks[t].parent \in Tasks(S)
                 /\ S.tasks[t].depth = S.tasks[S.tasks[t].parent].depth + 1

-----------------------------------------------------------------------------
LegalTransitions(old) ==
    CASE old = "pending"              -> {"ready"}
      [] old = "ready"                -> {"in_progress", "failed"}
      [] old = "in_progress"          -> {"ready", "blocked", "failed",
                                          "candidate_complete", "decomposed"}
      [] old = "blocked"              -> {"ready", "decomposed",
                                          "verification_pending"}
      [] old = "candidate_complete"   -> {"verification_pending"}
      [] old = "verification_pending" -> {"verified", "reopened", "blocked"}
      [] old = "reopened"             -> {"ready", "blocked"}
      [] OTHER                        -> {}

\* StateTransitionController.transition.  The ValueError of an illegal
\* transition is recorded in "illegal".
Transition(S, t, new) ==
    [S EXCEPT !.tasks[t].status = new,
              !.active  = IF new = "in_progress" THEN t
                          ELSE IF @ = t THEN None ELSE @,
              !.illegal = @ \/ new \notin LegalTransitions(S.tasks[t].status)]

-----------------------------------------------------------------------------
SetStatus(S, T, new) ==
    [S EXCEPT !.tasks =
        [t \in TaskId |-> IF t \in T THEN [@[t] EXCEPT !.status = new]
                                     ELSE @[t]]]

\* Mutant: only parents of VERIFIED children are lifted, and only one level.
AggregateVerifiedChildrenOnly(S) ==
    SetStatus(S, {t \in WithStatus(S, {"decomposed"}) :
                     /\ Children(S, t) # {}
                     /\ Children(S, t) \subseteq WithStatus(S, {"verified"})},
              "candidate_complete")

\* Mutant: one complete child is enough.
AggregateAnyChild(S) ==
    LET done[t \in TaskId] ==
            \/ S.tasks[t].status \in Complete
            \/ /\ S.tasks[t].status = "decomposed"
               /\ \E c \in Children(S, t) : done[c]
    IN  SetStatus(S, {t \in WithStatus(S, {"decomposed"}) : done[t]},
                  "candidate_complete")

\* Both aggregations repeat a pass over the tasks until nothing changes.  A
\* child is created after its parent, so what they reach is a recursion from
\* the youngest tasks to the oldest.
AggregateCandidateCompleteParents(S) ==
    LET done[t \in TaskId] ==
            \/ S.tasks[t].status \in Complete
            \/ /\ S.tasks[t].status = "decomposed"
               /\ Children(S, t) # {}
               /\ \A c \in Children(S, t) : done[c]
    IN  SetStatus(S, {t \in WithStatus(S, {"decomposed"}) : done[t]},
                  "candidate_complete")

HasContract(S, t) == Scope = "task" /\ t = ContractTask /\ S.contractId

AggregateVerifiedParents(S) ==
    LET open == {t \in WithStatus(S, {"decomposed", "candidate_complete"}) :
                    ~HasContract(S, t)}
        verified[t \in TaskId] ==
            \/ S.tasks[t].status = "verified"
            \/ /\ t \in open
               /\ Children(S, t) # {}
               /\ \A c \in Children(S, t) : verified[c]
        lifted == {t \in open : verified[t]}
    IN  [S EXCEPT !.tasks =
           [t \in TaskId |-> IF t \in lifted
                             THEN [@[t] EXCEPT !.status = "verified",
                                               !.vstat = "other"]
                             ELSE @[t]]]

Aggregate(S) == AggregateVerifiedParents(AggregateCandidateCompleteParents(S))

-----------------------------------------------------------------------------
Satisfied == IF DepSat = "verified" THEN {"verified"} ELSE Complete

DepsSatisfied(S, t) == S.tasks[t].deps \subseteq WithStatus(S, Satisfied)

\* Mutant: a dependency that was superseded by its children counts as done.
UpdateReadyTasksEagerly(S) ==
    LET done     == WithStatus(S, Complete \cup {"decomposed"})
        released == {t \in WithStatus(S, {"pending"}) :
                        S.tasks[t].deps \subseteq done}
    IN  SetStatus(S, released, "ready")

\* TaskSelector.update_ready_tasks.
UpdateReadyTasks(S) ==
    LET released == {t \in WithStatus(S, {"pending"}) : DepsSatisfied(S, t)}
    IN  [SetStatus(S, released, "ready") EXCEPT
            !.active = IF @ \in released THEN None ELSE @]

Before(S, t, u) ==
    \/ S.tasks[t].depth < S.tasks[u].depth
    \/ S.tasks[t].depth = S.tasks[u].depth /\ t <= u

\* TaskSelector.select_next: the task to work on, None if there is none ...
NextTask(S) ==
    LET running == WithStatus(S, {"in_progress"})
        ready   == WithStatus(UpdateReadyTasks(S), {"ready"})
    IN  IF running # {} THEN CHOOSE t \in running : TRUE
        ELSE IF ready # {}
             THEN CHOOSE t \in ready : \A u \in ready : Before(S, t, u)
             ELSE None

\* ... the project status it leaves when there is none ...
StatusWithoutTask(S) ==
    IF AllLeavesComplete(S) THEN "candidate_complete"
    ELSE IF WithStatus(S, {"blocked"}) # {} THEN "blocked"
    ELSE S.status

\* ... the state it leaves ...
SelectNext(S) ==
    LET t == NextTask(S)
        released == IF WithStatus(S, {"in_progress"}) # {} THEN S
                    ELSE UpdateReadyTasks(S)
    IN  IF t # None THEN [released EXCEPT !.active = t]
        ELSE [released EXCEPT !.status = StatusWithoutTask(released)]

\* ... and when it raises instead: two tasks in progress, or tasks left that
\* nothing can release.
SelectRaises(S) ==
    \/ Cardinality(WithStatus(S, {"in_progress"})) > 1
    \/ /\ NextTask(S) = None
       /\ ~AllLeavesComplete(S)
       /\ WithStatus(S, {"blocked"}) = {}
       /\ WithStatus(S, {"pending"}) # {}

-----------------------------------------------------------------------------
\* PlanValidator.to_task_nodes and children_to_task_nodes, followed by the
\* extension of state.tasks: plan[i] is the set of positions in the plan that
\* draft i depends on.
Fits(S, plan) == S.count + Len(plan) <= MaxTasks

\* Mutant: children get the depth of their parent.
AddTasksSameDepth(S, parent, plan) ==
    LET n == S.count
        node(i) == [NoTask EXCEPT
                      !.parent = parent,
                      !.depth  = IF parent = None THEN 0
                                 ELSE S.tasks[parent].depth,
                      !.deps   = {n + j : j \in plan[i]}]
    IN  [S EXCEPT !.count = n + Len(plan),
                  !.tasks = [t \in TaskId |->
                               IF t \in (n + 1)..(n + Len(plan))
                               THEN node(t - n) ELSE @[t]]]

AddTasks(S, parent, plan) ==
    LET n == S.count
        node(i) == [NoTask EXCEPT
                      !.parent = parent,
                      !.depth  = IF parent = None THEN 0
                                 ELSE S.tasks[parent].depth + 1,
                      !.deps   = {n + j : j \in plan[i]}]
    IN  [S EXCEPT !.count = n + Len(plan),
                  !.tasks = [t \in TaskId |->
                               IF t \in (n + 1)..(n + Len(plan))
                               THEN node(t - n) ELSE @[t]]]
=============================================================================
