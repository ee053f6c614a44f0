-------------------------- MODULE TaskStateProofs --------------------------
(***************************************************************************)
(* What the functions of TaskState return: a project state again, and one  *)
(* that counts the same sessions.                                          *)
(*                                                                         *)
(* The proofs about records replace one field at a time: the new value of  *)
(* each field is named and typed first, then the record is put together.   *)
(***************************************************************************)
EXTENDS TaskState, WellFoundedInduction, TLAPS

\* R may replace S without a session being started or forgotten, or the record
\* of its contract lost.
Continues(S, R) ==
    /\ R \in ProjectState
    /\ R.sessions = S.sessions
    /\ S.contractId => R.contractId

-----------------------------------------------------------------------------
\* What the code sorts or picks from a list exists: sets of tasks have a least
\* and a greatest element, and one that comes first in the scheduling order.

LEMMA Smallest ==
    ASSUME NEW T, T \subseteq Nat, T # {}
    PROVE  \E m \in T : \A k \in T : m <= k
<1>1. PICK m \in T : \A k \in T : <<k, m>> \notin OpToRel(<, Nat)
  BY NatLessThanWellFounded, WFMin, Zenon
<1>2. ASSUME NEW k \in T
      PROVE  m <= k
  <2>1. OpToRel(<, Nat) = {p \in Nat \X Nat : p[1] < p[2]}
    BY Zenon DEF OpToRel
  <2>2. k < m => <<k, m>> \in {p \in Nat \X Nat : p[1] < p[2]}
    BY SMT
  <2>3. ~ (k < m)
    BY <1>1, <2>1, <2>2, Zenon
  <2> QED BY <2>3
<1> QED BY <1>2

LEMMA Largest ==
    ASSUME NEW T, T \subseteq TaskId, T # {}
    PROVE  \E m \in T : \A k \in T : k <= m
<1> DEFINE D == {MaxTasks - t : t \in T}
<1>1. D \subseteq Nat
  <2>1. ASSUME NEW t \in T
        PROVE  MaxTasks - t \in Nat
    BY TaskStateAssumption DEF TaskId
  <2> QED BY <2>1
<1>2. PICK d \in D : \A e \in D : d <= e
  BY <1>1, Smallest
<1>3. PICK m \in T : d = MaxTasks - m
  BY <1>2
<1>4. ASSUME NEW k \in T
      PROVE  k <= m
  <2>1. MaxTasks - m <= MaxTasks - k
    BY <1>2, <1>3
  <2> QED BY <2>1, TaskStateAssumption DEF TaskId
<1> QED BY <1>4

LEMMA First ==
    ASSUME NEW S \in ProjectState, NEW T, T \subseteq TaskId, T # {}
    PROVE  \E t \in T : \A u \in T : Before(S, t, u)
<1> DEFINE depth(t) == S.tasks[t].depth
           D == {depth(t) : t \in T}
<1>1. \A t \in T : depth(t) \in Nat
  BY DEF ProjectState, TaskNode
<1>2. \E d \in D : \A e \in D : d <= e
  BY <1>1, Smallest
<1>3. PICK d \in D : \A e \in D : d <= e
  BY <1>2
<1> DEFINE top == {t \in T : depth(t) = d}
<1>4. top # {} /\ top \subseteq Nat
  <2>1. \E t \in T : d = depth(t)
    BY <1>3
  <2>2. T \subseteq Nat
    BY TaskStateAssumption DEF TaskId
  <2> QED BY <2>1, <2>2
<1>5. PICK t \in top : \A u \in top : t <= u
  BY <1>4, Smallest
<1>6. ASSUME NEW u \in T
      PROVE  Before(S, t, u)
  <2>1. depth(t) = d /\ d <= depth(u)
    BY <1>3, <1>5
  <2>2. CASE depth(u) = d
    BY <1>5, <2>1, <2>2 DEF Before
  <2>3. CASE depth(u) # d
    BY <1>1, <2>1, <2>3 DEF Before
  <2> QED BY <2>2, <2>3
<1> QED BY <1>5, <1>6

-----------------------------------------------------------------------------
LEMMA ContinuesTransitive ==
    ASSUME NEW S, NEW R, NEW Q, Continues(S, R), Continues(R, Q)
    PROVE  Continues(S, Q)
BY DEF Continues

LEMMA NoTaskType == NoTask \in TaskNode
BY TaskStateAssumption DEF NoTask, TaskNode, TaskStatus, TaskVerdict, TaskId, None

\* The empty project of a new project id is a project state.
LEMMA NewProjectType ==
    /\ NewProject \in ProjectState
    /\ NewProject.sessions = 0
BY NoTaskType, TaskStateAssumption DEF NewProject, ProjectState, ProjectStatus, None

LEMMA TasksType ==
    ASSUME NEW S \in ProjectState
    PROVE  Tasks(S) \subseteq TaskId
BY TaskStateAssumption DEF Tasks, ProjectState, TaskId

\* Only the table of tasks changes.
LEMMA ReplaceTasks ==
    ASSUME NEW S \in ProjectState, NEW f \in [TaskId -> TaskNode]
    PROVE  Continues(S, [S EXCEPT !.tasks = f])
BY DEF ProjectState, Continues

LEMMA TransitionContinues ==
    ASSUME NEW S \in ProjectState, NEW t \in TaskId, NEW new \in TaskStatus
    PROVE  Continues(S, Transition(S, t, new))
<1> DEFINE f == [S.tasks EXCEPT ![t].status = new]
           a == IF new = "in_progress" THEN t
                ELSE IF S.active = t THEN None ELSE S.active
           b == S.illegal \/ new \notin LegalTransitions(S.tasks[t].status)
<1>1. f \in [TaskId -> TaskNode]
  BY DEF ProjectState, TaskNode
<1>2. a \in 0..MaxTasks
  BY TaskStateAssumption DEF ProjectState, TaskId, None
<1>3. b \in BOOLEAN
  OBVIOUS
<1>4. Transition(S, t, new) = [S EXCEPT !.tasks = f, !.active = a, !.illegal = b]
  BY Zenon DEF Transition, ProjectState
<1> HIDE DEF f, a, b
<1> QED BY <1>1, <1>2, <1>3, <1>4 DEF ProjectState, Continues

LEMMA SetStatusContinues ==
    ASSUME NEW S \in ProjectState, NEW T, NEW new \in TaskStatus
    PROVE  Continues(S, SetStatus(S, T, new))
<1> DEFINE f == [t \in TaskId |-> IF t \in T THEN [S.tasks[t] EXCEPT !.status = new]
                                             ELSE S.tasks[t]]
<1>1. f \in [TaskId -> TaskNode]
  BY DEF ProjectState, TaskNode
<1>2. SetStatus(S, T, new) = [S EXCEPT !.tasks = f]
  BY DEF SetStatus
<1> HIDE DEF f
<1> QED BY <1>1, <1>2, ReplaceTasks

\* Aggregation may finish parents; it starts no session.
LEMMA AggregateContinues ==
    ASSUME NEW S \in ProjectState
    PROVE  Continues(S, Aggregate(S))
<1> DEFINE R == AggregateCandidateCompleteParents(S)
<1>1. Continues(S, R)
  BY SetStatusContinues DEF AggregateCandidateCompleteParents, TaskStatus
<1>2. R \in ProjectState
  BY <1>1 DEF Continues
<1> HIDE DEF R
<1>3. \E T : AggregateVerifiedParents(R) =
               [R EXCEPT !.tasks =
                  [t \in TaskId |-> IF t \in T
                                    THEN [R.tasks[t] EXCEPT !.status = "verified",
                                                            !.vstat = "other"]
                                    ELSE R.tasks[t]]]
  BY Zenon DEF AggregateVerifiedParents
<1>4. PICK T : AggregateVerifiedParents(R) =
               [R EXCEPT !.tasks =
                  [t \in TaskId |-> IF t \in T
                                    THEN [R.tasks[t] EXCEPT !.status = "verified",
                                                            !.vstat = "other"]
                                    ELSE R.tasks[t]]]
  BY <1>3
<1> DEFINE f == [t \in TaskId |-> IF t \in T
                                  THEN [R.tasks[t] EXCEPT !.status = "verified",
                                                          !.vstat = "other"]
                                  ELSE R.tasks[t]]
<1>5. f \in [TaskId -> TaskNode]
  <2>1. ASSUME NEW n \in TaskNode
        PROVE  [n EXCEPT !.status = "verified", !.vstat = "other"] \in TaskNode
    BY DEF TaskNode, TaskStatus, TaskVerdict
  <2>2. \A t \in TaskId : R.tasks[t] \in TaskNode
    BY <1>2 DEF ProjectState
  <2> QED BY <2>1, <2>2
<1>6. AggregateVerifiedParents(R) = [R EXCEPT !.tasks = f]
  BY <1>4
<1> HIDE DEF f
<1>7. Continues(R, AggregateVerifiedParents(R))
  BY <1>2, <1>5, <1>6, ReplaceTasks
<1> QED BY <1>1, <1>7, ContinuesTransitive DEF Aggregate, R

LEMMA UpdateReadyTasksContinues ==
    ASSUME NEW S \in ProjectState
    PROVE  Continues(S, UpdateReadyTasks(S))
<1> DEFINE T == {t \in WithStatus(S, {"pending"}) : DepsSatisfied(S, t)}
           R == SetStatus(S, T, "ready")
           a == IF R.active \in T THEN None ELSE R.active
<1>1. Continues(S, R)
  BY SetStatusContinues DEF TaskStatus
<1> HIDE DEF T, R
<1>2. a \in 0..MaxTasks
  BY <1>1, TaskStateAssumption DEF ProjectState, None, Continues
<1>3. UpdateReadyTasks(S) = [R EXCEPT !.active = a]
  BY DEF UpdateReadyTasks, T, R
<1> HIDE DEF a
<1> QED BY <1>1, <1>2, <1>3 DEF ProjectState, Continues

\* The selector never names a task that does not exist.
LEMMA NextTaskType ==
    ASSUME NEW S \in ProjectState
    PROVE  NextTask(S) \in 0..MaxTasks
<1> DEFINE running == WithStatus(S, {"in_progress"})
           ready   == WithStatus(UpdateReadyTasks(S), {"ready"})
<1>1. running \subseteq TaskId
  BY TasksType DEF WithStatus
<1>2. ready \subseteq TaskId
  BY UpdateReadyTasksContinues, TasksType DEF WithStatus, Continues
<1>3. CASE running # {}
  <2>1. NextTask(S) \in running
    BY <1>3 DEF NextTask
  <2> QED BY <1>1, <2>1 DEF TaskId
<1>4. CASE running = {} /\ ready # {}
  <2>1. \E t \in ready : \A u \in ready : Before(S, t, u)
    BY <1>2, <1>4, First
  <2>2. NextTask(S) \in ready
    BY <1>4, <2>1 DEF NextTask
  <2> QED BY <1>2, <2>2 DEF TaskId
<1>5. CASE running = {} /\ ready = {}
  BY <1>5, TaskStateAssumption DEF NextTask, None
<1> QED BY <1>3, <1>4, <1>5

LEMMA SelectNextContinues ==
    ASSUME NEW S \in ProjectState
    PROVE  Continues(S, SelectNext(S))
<1> DEFINE released == IF WithStatus(S, {"in_progress"}) # {} THEN S
                       ELSE UpdateReadyTasks(S)
           t == NextTask(S)
           status == StatusWithoutTask(released)
<1>1. Continues(S, released)
  BY UpdateReadyTasksContinues DEF Continues
<1>2. t \in 0..MaxTasks
  BY NextTaskType
<1> HIDE DEF released, t
<1>3. status \in ProjectStatus
  BY <1>1 DEF StatusWithoutTask, ProjectState, ProjectStatus, Continues
<1>4. SelectNext(S) = IF t # None THEN [released EXCEPT !.active = t]
                      ELSE [released EXCEPT !.status = status]
  BY DEF SelectNext, released, t
<1> HIDE DEF status
<1> QED BY <1>1, <1>2, <1>3, <1>4 DEF ProjectState, Continues

\* New tasks get positions, dependencies and a parent that exist.
LEMMA AddTasksContinues ==
    ASSUME NEW S \in ProjectState, NEW parent \in 0..MaxTasks,
           NEW plan \in Seq(SUBSET TaskId), Fits(S, plan),
           \A i \in 1..Len(plan) : plan[i] \subseteq 1..Len(plan)
    PROVE  Continues(S, AddTasks(S, parent, plan))
<1> DEFINE n == S.count
           node(i) == [NoTask EXCEPT
                         !.parent = parent,
                         !.depth  = IF parent = None THEN 0
                                    ELSE S.tasks[parent].depth + 1,
                         !.deps   = {n + j : j \in plan[i]}]
           f == [t \in TaskId |-> IF t \in (n + 1)..(n + Len(plan))
                                  THEN node(t - n) ELSE S.tasks[t]]
<1>1. n \in Nat /\ Len(plan) \in Nat /\ n + Len(plan) <= MaxTasks
  BY TaskStateAssumption DEF ProjectState, Fits
<1>2. ASSUME NEW i \in 1..Len(plan)
      PROVE  node(i) \in TaskNode
  <2>1. {n + j : j \in plan[i]} \subseteq TaskId
    BY <1>1, TaskStateAssumption DEF TaskId
  <2>2. (IF parent = None THEN 0 ELSE S.tasks[parent].depth + 1) \in Nat
    <3>1. ASSUME parent # None
          PROVE  S.tasks[parent] \in TaskNode
      <4>1. parent \in TaskId
        BY <3>1, TaskStateAssumption DEF TaskId, None
      <4> QED BY <4>1 DEF ProjectState
    <3>2. CASE parent = None
      BY <3>2
    <3>3. CASE parent # None
      <4>1. S.tasks[parent].depth \in Nat
        BY <3>1, <3>3 DEF TaskNode
      <4> QED BY <3>3, <4>1
    <3> QED BY <3>2, <3>3
  <2>3. NoTask \in TaskNode
    BY NoTaskType
  <2> QED BY <2>1, <2>2, <2>3 DEF TaskNode
<1>3. f \in [TaskId -> TaskNode]
  <2>1. \A t \in TaskId : S.tasks[t] \in TaskNode
    BY DEF ProjectState
  <2>2. \A t \in TaskId : t \in (n + 1)..(n + Len(plan)) => t - n \in 1..Len(plan)
    BY <1>1, TaskStateAssumption DEF TaskId
  <2> HIDE DEF node
  <2> QED BY <1>2, <2>1, <2>2
<1>4. AddTasks(S, parent, plan) = [S EXCEPT !.count = n + Len(plan), !.tasks = f]
  BY Zenon DEF AddTasks
<1>5. n + Len(plan) \in 0..MaxTasks
  BY <1>1, TaskStateAssumption
<1> HIDE DEF f, n
<1> QED BY <1>3, <1>4, <1>5 DEF ProjectState, Continues
=============================================================================
