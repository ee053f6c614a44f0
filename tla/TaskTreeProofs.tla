--------------------------- MODULE TaskTreeProofs ---------------------------
(***************************************************************************)
(* What the handlers make of the tree of tasks, for all projects: lemmas   *)
(* about single project states, on which SchedulingProofs builds.          *)
(*                                                                         *)
(* StateInv is what every project state satisfies between two handlers, in *)
(* memory and on disk.  The second part shows which changes of a state     *)
(* keep it: a leaf that is worked on, parents that are lifted, tasks that  *)
(* are released, added or reopened.  The third part shows that each        *)
(* operator of TaskState and Orchestrator is such a change.                *)
(***************************************************************************)
EXTENDS OrchestratorProofs

\* The statuses of a leaf between its release and its completion.
Open == {"ready", "in_progress", "blocked", "failed"}

\* The statuses of a project whose leaves are all complete.
Settled == {"candidate_complete", "verification_pending", "verified"}

\* Tasks come after their parents and depend on tasks beside them.
Placed(S, t) ==
    LET task == S.tasks[t]
    IN  /\ task.parent < t
        /\ task.depth = IF task.parent = None THEN 0
                        ELSE S.tasks[task.parent].depth + 1
        /\ \A d \in task.deps : d \in Tasks(S) /\ S.tasks[d].depth = task.depth

\* Dependencies have no cycles.
Ordered(S) ==
    \E rank \in [TaskId -> Nat] :
        \A t \in Tasks(S) : \A d \in S.tasks[t].deps : rank[d] < rank[t]

TreeInv(S) == (\A t \in Tasks(S) : Placed(S, t)) /\ Ordered(S)

\* A blocker that the agent reported, and no verdict since.
Halted(task) == task.status = "blocked" /\ task.vstat # "infrastructure_error"

\* What verification remembers of a task.
Noted(task) ==
    /\ task.reopens <= MaxReopens + 1
    /\ task.reopens > MaxReopens => task.status = "blocked"
    /\ task.vstat = "infrastructure_error" =>
          task.status = "blocked" /\ task.reopens <= MaxReopens

Finished(task) == task.status \in Complete \/ task.reopens > 0

TaskInv(S, t) ==
    LET task == S.tasks[t]
        kids == Children(S, t)
    IN  /\ task.status \in {"pending", "decomposed"} \cup Open \cup Complete
        /\ kids = {} => task.status # "decomposed"
        /\ kids # {} => task.status \in {"decomposed"} \cup Complete
        /\ task.status \in Complete => \A c \in kids : Finished(S.tasks[c])
        /\ task.status \in Open => DepsSatisfied(S, t)
        /\ task.status # "pending" =>
              \A d \in task.deps : d < t => S.tasks[d].status \in Satisfied
        /\ task.blocker => kids # {} \/ Halted(task)
        /\ Noted(task)

ProjectInv(S) ==
    /\ ~S.illegal
    /\ S.status \in Settled => AllLeavesComplete(S)
    /\ S.status = "verified" => Leaves(S) \subseteq WithStatus(S, {"verified"})

StateInv(S) == TreeInv(S) /\ (\A t \in Tasks(S) : TaskInv(S, t)) /\ ProjectInv(S)

-----------------------------------------------------------------------------
\* States that differ only in some tasks, or not in their tree.

SameTree(S, R) ==
    /\ R.count = S.count
    /\ \A t \in TaskId : /\ R.tasks[t].parent = S.tasks[t].parent
                         /\ R.tasks[t].depth = S.tasks[t].depth
                         /\ R.tasks[t].deps = S.tasks[t].deps

\* The counters of sessions are not looked at.
SameTask(old, new) ==
    /\ new.status = old.status /\ new.blocker = old.blocker
    /\ new.vstat = old.vstat /\ new.reopens = old.reopens

LEMMA TaskFields ==
    ASSUME NEW S \in ProjectState, NEW t \in Tasks(S)
    PROVE  /\ t \in TaskId /\ t \in Nat /\ t <= S.count /\ t # None
           /\ S.tasks[t] \in TaskNode
           /\ S.tasks[t].status \in TaskStatus /\ S.tasks[t].parent \in 0..MaxTasks
           /\ S.tasks[t].depth \in Nat /\ S.tasks[t].deps \subseteq TaskId
           /\ S.tasks[t].sessions \in Nat /\ S.tasks[t].noprog \in Nat
           /\ S.tasks[t].blocker \in BOOLEAN /\ S.tasks[t].vstat \in TaskVerdict
           /\ S.tasks[t].reopens \in Nat
<1>1. t \in TaskId /\ t \in Nat /\ t <= S.count /\ t # None
  BY TaskStateAssumption DEF Tasks, TaskId, ProjectState, None
<1>2. S.tasks[t] \in TaskNode
  BY <1>1 DEF ProjectState
<1> QED BY <1>1, <1>2 DEF TaskNode

LEMMA TreeKept ==
    ASSUME NEW S \in ProjectState, NEW R \in ProjectState, SameTree(S, R)
    PROVE  /\ Tasks(R) = Tasks(S) /\ Leaves(R) = Leaves(S)
           /\ \A t : Children(R, t) = Children(S, t)
           /\ TreeInv(S) => TreeInv(R)
<1>1. Tasks(R) = Tasks(S)
  BY DEF SameTree, Tasks
<1>2. \A t \in Tasks(S) : t \in TaskId
  BY TasksType
<1>3. \A t : Children(R, t) = Children(S, t)
  BY <1>1, <1>2 DEF SameTree, Children
<1>4. Leaves(R) = Leaves(S)
  BY <1>1, <1>3 DEF Leaves
<1>5. ASSUME NEW t \in Tasks(S), Placed(S, t)
      PROVE  Placed(R, t)
  <2>1. t \in TaskId /\ S.tasks[t].parent \in 0..MaxTasks
    BY TaskFields
  <2>2. S.tasks[t].parent # None => S.tasks[t].parent \in TaskId
    BY <2>1, TaskStateAssumption DEF TaskId, None
  <2>3. \A d \in S.tasks[t].deps : d \in TaskId
    BY <1>2, <1>5 DEF Placed
  <2> QED BY <1>1, <1>5, <2>1, <2>2, <2>3 DEF Placed, SameTree
<1>6. Ordered(S) => Ordered(R)
  BY <1>1, <1>2 DEF Ordered, SameTree
<1> QED BY <1>1, <1>3, <1>4, <1>5, <1>6 DEF TreeInv

\* A task that is not complete and has no children keeps the project unsettled.
LEMMA OpenProject ==
    ASSUME NEW S \in ProjectState, StateInv(S), NEW t \in Tasks(S),
           S.tasks[t].status \in Open \cup {"pending"}
    PROVE  /\ Children(S, t) = {} /\ t \in Leaves(S)
           /\ ~AllLeavesComplete(S) /\ S.status \notin Settled
<1>1. TaskInv(S, t)
  BY DEF StateInv
<1>2. Children(S, t) = {}
  BY <1>1 DEF TaskInv, Open, Complete
<1>3. t \in Leaves(S)
  BY <1>2 DEF Leaves
<1>4. t \notin WithStatus(S, Complete)
  BY DEF WithStatus, Open, Complete
<1> QED BY <1>2, <1>3, <1>4 DEF AllLeavesComplete, StateInv, ProjectInv

-----------------------------------------------------------------------------
\* Changes of a state that keep StateInv.

\* The status of the project after a change that leaves the tree alone.
StatusMayBe(S, status) ==
    \/ status = S.status \/ status \notin Settled
    \/ AllLeavesComplete(S) /\ status # "verified"

\* Leaves are worked on: what other tasks rely on are complete tasks, which stay.
Worked(S, R, T) ==
    /\ SameTree(S, R) /\ T \subseteq Tasks(S)
    /\ \A t \in Tasks(S) \ T : SameTask(S.tasks[t], R.tasks[t])
    /\ \A t \in T :
          /\ S.tasks[t].status \in Open
          /\ R.tasks[t].status \in Open \cup Complete
          /\ S.tasks[t].reopens <= R.tasks[t].reopens
          /\ R.tasks[t].blocker => Halted(R.tasks[t])
          /\ Noted(R.tasks[t])
    /\ ~R.illegal /\ StatusMayBe(S, R.status)

LEMMA WorkedTask ==
    ASSUME NEW S \in ProjectState, NEW R \in ProjectState, StateInv(S),
           NEW T, Worked(S, R, T), NEW t \in Tasks(S)
    PROVE  TaskInv(R, t)
<1>1. /\ Tasks(R) = Tasks(S) /\ Children(R, t) = Children(S, t)
      /\ R.tasks[t].deps = S.tasks[t].deps
  BY TreeKept, TaskFields DEF Worked, SameTree
<1>2. TaskInv(S, t)
  BY DEF StateInv
<1>3. ASSUME NEW d \in Tasks(S), S.tasks[d].status \in Satisfied
      PROVE  R.tasks[d].status \in Satisfied
  <2>1. d \notin T
    BY <1>3 DEF Worked, Satisfied, Complete, Open
  <2> QED BY <1>3, <2>1 DEF Worked, SameTask
<1>4. \A d \in S.tasks[t].deps : d \in Tasks(S)
  BY DEF StateInv, TreeInv, Placed
<1>5. DepsSatisfied(S, t) => DepsSatisfied(R, t)
  BY <1>1, <1>3, <1>4 DEF DepsSatisfied, WithStatus
<1>6. ASSUME NEW c \in Children(S, t), Finished(S.tasks[c])
      PROVE  Finished(R.tasks[c])
  <2>1. c \in Tasks(S)
    BY DEF Children
  <2>2. S.tasks[c].reopens \in Nat /\ R.tasks[c].reopens \in Nat
    BY <1>1, <2>1, TaskFields
  <2> QED BY <1>6, <2>1, <2>2 DEF Worked, SameTask, Finished, Open, Complete
<1>7. CASE t \in T
  <2>1. Children(S, t) = {}
    BY <1>2, <1>7 DEF TaskInv, Worked, Open, Complete
  <2>2. DepsSatisfied(S, t)
    BY <1>2, <1>7 DEF TaskInv, Worked
  <2>3. \A d \in S.tasks[t].deps : d < t => R.tasks[d].status \in Satisfied
    BY <1>2, <1>3, <1>4, <1>7 DEF TaskInv, Worked, Open
  <2>4. R.tasks[t].status \in Open \cup Complete
    BY <1>7 DEF Worked
  <2>5. R.tasks[t].status # "decomposed"
    BY <2>4 DEF Open, Complete
  <2> QED BY <1>1, <1>5, <1>7, <2>1, <2>2, <2>3, <2>4, <2>5 DEF TaskInv, Worked
<1>8. CASE t \notin T
  <2>1. SameTask(S.tasks[t], R.tasks[t])
    BY <1>8 DEF Worked
  <2>2. Noted(S.tasks[t]) => Noted(R.tasks[t])
    BY <2>1 DEF SameTask, Noted
  <2>3. Halted(S.tasks[t]) => Halted(R.tasks[t])
    BY <2>1 DEF SameTask, Halted
  <2>4. \A d \in S.tasks[t].deps :
            S.tasks[d].status \in Satisfied => R.tasks[d].status \in Satisfied
    BY <1>3, <1>4
  <2> QED BY <1>1, <1>2, <1>5, <1>6, <2>1, <2>2, <2>3, <2>4 DEF TaskInv, SameTask
<1> QED BY <1>7, <1>8

LEMMA WorkedInv ==
    ASSUME NEW S \in ProjectState, NEW R \in ProjectState, StateInv(S),
           NEW T, Worked(S, R, T)
    PROVE  StateInv(R)
<1>1. Tasks(R) = Tasks(S) /\ Leaves(R) = Leaves(S) /\ TreeInv(R)
  BY TreeKept DEF Worked, StateInv
<1>2. \A t \in Tasks(R) : TaskInv(R, t)
  BY <1>1, WorkedTask
<1>3. CASE T = {}
  <2>1. \A t \in Tasks(S) : R.tasks[t].status = S.tasks[t].status
    BY <1>3 DEF Worked, SameTask
  <2>2. AllLeavesComplete(S) => AllLeavesComplete(R)
    BY <1>1, <2>1 DEF AllLeavesComplete, WithStatus
  <2>3. WithStatus(R, {"verified"}) = WithStatus(S, {"verified"})
    BY <1>1, <2>1 DEF WithStatus
  <2>4. ProjectInv(R)
    BY <1>1, <2>2, <2>3 DEF StateInv, ProjectInv, Worked, StatusMayBe, Settled
  <2> QED BY <1>1, <1>2, <2>4 DEF StateInv
<1>4. CASE T # {}
  <2>1. PICK t \in T : TRUE
    BY <1>4
  <2>2. ~AllLeavesComplete(S) /\ S.status \notin Settled
    BY <2>1, OpenProject DEF Worked
  <2>3. ProjectInv(R)
    BY <2>2 DEF ProjectInv, Worked, StatusMayBe, Settled
  <2> QED BY <1>1, <1>2, <2>3 DEF StateInv
<1> QED BY <1>3, <1>4

\* Tasks that wait for their children, or for their verification, become complete.
Lifted(S, R, T) ==
    /\ SameTree(S, R) /\ T \subseteq Tasks(S)
    /\ \A t \in Tasks(S) \ T : SameTask(S.tasks[t], R.tasks[t])
    /\ \A t \in T :
          /\ S.tasks[t].status \in {"decomposed", "candidate_complete"}
          /\ R.tasks[t].status \in Complete
          /\ \A c \in Children(S, t) : Finished(R.tasks[c])
          /\ R.tasks[t].reopens = S.tasks[t].reopens
          /\ R.tasks[t].blocker = S.tasks[t].blocker
          /\ R.tasks[t].vstat \in {S.tasks[t].vstat, "other"}
    /\ ~R.illegal
    /\ \/ R.status = S.status
       \/ /\ R.status = "verified" /\ Leaves(R) # {}
          /\ Leaves(R) \subseteq WithStatus(R, {"verified"})

LEMMA LiftedTask ==
    ASSUME NEW S \in ProjectState, NEW R \in ProjectState, StateInv(S),
           NEW T, Lifted(S, R, T), NEW t \in Tasks(S)
    PROVE  TaskInv(R, t)
<1>1. /\ Tasks(R) = Tasks(S) /\ Children(R, t) = Children(S, t)
      /\ R.tasks[t].deps = S.tasks[t].deps
  BY TreeKept, TaskFields DEF Lifted, SameTree
<1>2. TaskInv(S, t)
  BY DEF StateInv
<1>3. ASSUME NEW d \in Tasks(S), S.tasks[d].status \in Satisfied
      PROVE  R.tasks[d].status \in Satisfied
  <2>1. CASE d \notin T
    BY <1>3, <2>1 DEF Lifted, SameTask
  <2>2. CASE d \in T
    BY <1>3, <2>2 DEF Lifted, Satisfied, Complete
  <2> QED BY <2>1, <2>2
<1>4. \A d \in S.tasks[t].deps : d \in Tasks(S)
  BY DEF StateInv, TreeInv, Placed
<1>5. DepsSatisfied(S, t) => DepsSatisfied(R, t)
  BY <1>1, <1>3, <1>4 DEF DepsSatisfied, WithStatus
<1>6. ASSUME NEW c \in Children(S, t), Finished(S.tasks[c])
      PROVE  Finished(R.tasks[c])
  <2>1. c \in Tasks(S)
    BY DEF Children
  <2> QED BY <1>6, <2>1 DEF Lifted, SameTask, Finished
<1>7. \A d \in S.tasks[t].deps :
          S.tasks[d].status \in Satisfied => R.tasks[d].status \in Satisfied
  BY <1>3, <1>4
<1>8. CASE t \in T
  <2>1. S.tasks[t].status # "pending" /\ R.tasks[t].status \in Complete
    BY <1>8 DEF Lifted
  <2>2. Noted(R.tasks[t])
    BY <1>2, <1>8 DEF TaskInv, Lifted, Noted
  <2>3. R.tasks[t].blocker => Children(S, t) # {}
    BY <1>2, <1>8 DEF TaskInv, Lifted, Halted
  <2>4. R.tasks[t].status \notin Open /\ R.tasks[t].status # "decomposed"
    BY <2>1 DEF Open, Complete
  <2>5. \A c \in Children(S, t) : Finished(R.tasks[c])
    BY <1>8 DEF Lifted
  <2>6. \A d \in S.tasks[t].deps : d < t => R.tasks[d].status \in Satisfied
    BY <1>2, <1>7, <2>1 DEF TaskInv
  <2> QED BY <1>1, <2>1, <2>2, <2>3, <2>4, <2>5, <2>6 DEF TaskInv
<1>9. CASE t \notin T
  <2>1. SameTask(S.tasks[t], R.tasks[t])
    BY <1>9 DEF Lifted
  <2>2. Noted(S.tasks[t]) => Noted(R.tasks[t])
    BY <2>1 DEF SameTask, Noted
  <2>3. Halted(S.tasks[t]) => Halted(R.tasks[t])
    BY <2>1 DEF SameTask, Halted
  <2> QED BY <1>1, <1>2, <1>5, <1>6, <1>7, <2>1, <2>2, <2>3 DEF TaskInv, SameTask
<1> QED BY <1>8, <1>9

LEMMA LiftedInv ==
    ASSUME NEW S \in ProjectState, NEW R \in ProjectState, StateInv(S),
           NEW T, Lifted(S, R, T)
    PROVE  StateInv(R)
<1>1. Tasks(R) = Tasks(S) /\ Leaves(R) = Leaves(S) /\ TreeInv(R)
  BY TreeKept DEF Lifted, StateInv
<1>2. \A t \in Tasks(R) : TaskInv(R, t)
  BY <1>1, LiftedTask
<1>3. ASSUME NEW t \in Tasks(S), S.tasks[t].status \in Complete
      PROVE  R.tasks[t].status \in Complete
  BY <1>3 DEF Lifted, SameTask
<1>4. AllLeavesComplete(S) => AllLeavesComplete(R)
  BY <1>1, <1>3 DEF AllLeavesComplete, WithStatus
<1>5. WithStatus(S, {"verified"}) \subseteq WithStatus(R, {"verified"})
  <2>1. ASSUME NEW t \in Tasks(S), S.tasks[t].status = "verified"
        PROVE  R.tasks[t].status = "verified"
    BY <2>1 DEF Lifted, SameTask
  <2> QED BY <1>1, <2>1 DEF WithStatus
<1>6. ProjectInv(R)
  <2>1. CASE R.status = S.status
    BY <1>1, <1>4, <1>5, <2>1 DEF StateInv, ProjectInv, Lifted
  <2>2. CASE R.status = "verified" /\ Leaves(R) # {}
             /\ Leaves(R) \subseteq WithStatus(R, {"verified"})
    BY <2>2 DEF ProjectInv, Lifted, AllLeavesComplete, WithStatus, Complete
  <2> QED BY <2>1, <2>2 DEF Lifted
<1> QED BY <1>1, <1>2, <1>6 DEF StateInv

\* Pending tasks whose dependencies are satisfied become ready.
Released(S, R, T) ==
    /\ SameTree(S, R) /\ T \subseteq Tasks(S)
    /\ \A t \in Tasks(S) \ T : SameTask(S.tasks[t], R.tasks[t])
    /\ \A t \in T :
          /\ S.tasks[t].status = "pending" /\ DepsSatisfied(S, t)
          /\ SameTask([S.tasks[t] EXCEPT !.status = "ready"], R.tasks[t])
    /\ R.illegal = S.illegal /\ R.status = S.status

LEMMA ReleasedInv ==
    ASSUME NEW S \in ProjectState, NEW R \in ProjectState, StateInv(S),
           NEW T, Released(S, R, T)
    PROVE  StateInv(R)
<1>1. /\ Tasks(R) = Tasks(S) /\ Leaves(R) = Leaves(S) /\ TreeInv(R)
      /\ \A t : Children(R, t) = Children(S, t)
  BY TreeKept DEF Released, StateInv
<1>2. ASSUME NEW t \in T
      PROVE  /\ t \in Tasks(S) /\ S.tasks[t].status = "pending" /\ DepsSatisfied(S, t)
             /\ R.tasks[t].status = "ready" /\ R.tasks[t].blocker = S.tasks[t].blocker
             /\ R.tasks[t].vstat = S.tasks[t].vstat
             /\ R.tasks[t].reopens = S.tasks[t].reopens
  <2>1. t \in Tasks(S)
    BY DEF Released
  <2>2. S.tasks[t] \in TaskNode
    BY <2>1, TaskFields
  <2> QED BY <2>1, <2>2 DEF Released, SameTask, TaskNode
<1>3. ASSUME NEW d \in Tasks(S)
      PROVE  /\ S.tasks[d].status \in Complete => SameTask(S.tasks[d], R.tasks[d])
             /\ S.tasks[d].status \in Satisfied => R.tasks[d].status \in Satisfied
             /\ Finished(S.tasks[d]) => Finished(R.tasks[d])
  <2>1. CASE d \in T
    BY <1>2, <2>1 DEF Complete, Satisfied, Finished
  <2>2. CASE d \notin T
    BY <2>2 DEF Released, SameTask, Finished
  <2> QED BY <2>1, <2>2
<1>4. ASSUME NEW t \in Tasks(S)
      PROVE  TaskInv(R, t)
  <2>1. TaskInv(S, t) /\ R.tasks[t].deps = S.tasks[t].deps
    BY TaskFields DEF StateInv, Released, SameTree
  <2>2. \A d \in S.tasks[t].deps : d \in Tasks(S)
    BY DEF StateInv, TreeInv, Placed
  <2>3. /\ DepsSatisfied(S, t) => DepsSatisfied(R, t)
        /\ \A d \in S.tasks[t].deps :
              S.tasks[d].status \in Satisfied => R.tasks[d].status \in Satisfied
    BY <1>1, <1>3, <2>1, <2>2 DEF DepsSatisfied, WithStatus
  <2>4. \A c \in Children(S, t) : Finished(S.tasks[c]) => Finished(R.tasks[c])
    BY <1>3 DEF Children
  <2>5. CASE t \in T
    <3>1. Children(S, t) = {} /\ ~S.tasks[t].blocker
      BY <1>2, <2>1, <2>5 DEF TaskInv, Complete, Halted
    <3>2. Noted(R.tasks[t])
      BY <1>2, <2>1, <2>5 DEF TaskInv, Noted
    <3>3. \A d \in S.tasks[t].deps : R.tasks[d].status \in Satisfied
      BY <1>2, <2>1, <2>3, <2>5 DEF DepsSatisfied, WithStatus
    <3>4. R.tasks[t].status = "ready" /\ DepsSatisfied(R, t) /\ ~R.tasks[t].blocker
      BY <1>2, <2>3, <2>5, <3>1
    <3> QED BY <1>1, <2>1, <3>1, <3>2, <3>3, <3>4 DEF TaskInv, Open, Complete
  <2>6. CASE t \notin T
    <3>1. SameTask(S.tasks[t], R.tasks[t])
      BY <2>6 DEF Released
    <3>2. Noted(S.tasks[t]) => Noted(R.tasks[t])
      BY <3>1 DEF SameTask, Noted
    <3>3. Halted(S.tasks[t]) => Halted(R.tasks[t])
      BY <3>1 DEF SameTask, Halted
    <3> QED BY <1>1, <2>1, <2>3, <2>4, <3>1, <3>2, <3>3 DEF TaskInv, SameTask
  <2> QED BY <2>5, <2>6
<1>5. AllLeavesComplete(S) => AllLeavesComplete(R)
  BY <1>1, <1>3 DEF AllLeavesComplete, WithStatus, SameTask
<1>6. WithStatus(S, {"verified"}) \subseteq WithStatus(R, {"verified"})
  BY <1>1, <1>3 DEF WithStatus, Complete, SameTask
<1>7. ProjectInv(R)
  BY <1>1, <1>5, <1>6 DEF ProjectInv, Released, StateInv
<1> QED BY <1>1, <1>4, <1>7 DEF StateInv

\* The last task has no children: verification reopens it, and nobody relies on it
\* who is not complete.
Reopened(S, R) ==
    /\ SameTree(S, R) /\ AllLeavesComplete(S)
    /\ \A t \in Tasks(S) \ {S.count} : SameTask(S.tasks[t], R.tasks[t])
    /\ R.tasks[S.count].reopens = S.tasks[S.count].reopens + 1
    /\ R.tasks[S.count].status = IF R.tasks[S.count].reopens > MaxReopens
                                 THEN "blocked" ELSE "ready"
    /\ R.tasks[S.count].blocker = S.tasks[S.count].blocker
    /\ R.tasks[S.count].vstat = S.tasks[S.count].vstat
    /\ ~R.illegal /\ R.status \notin Settled

LEMMA LastIsLeaf ==
    ASSUME NEW S \in ProjectState, StateInv(S), S.count # 0
    PROVE  S.count \in Tasks(S) /\ Children(S, S.count) = {} /\ S.count \in Leaves(S)
<1>1. S.count \in Nat /\ S.count \in Tasks(S)
  BY TaskStateAssumption DEF ProjectState, Tasks
<1>2. ASSUME NEW c \in Tasks(S)
      PROVE  S.tasks[c].parent # S.count
  <2>1. Placed(S, c) /\ c <= S.count /\ c \in Nat
    BY TaskFields DEF StateInv, TreeInv
  <2>2. S.tasks[c].parent < c /\ S.tasks[c].parent \in Nat
    BY <2>1, TaskFields, TaskStateAssumption DEF Placed
  <2> QED BY <1>1, <2>1, <2>2
<1>3. Children(S, S.count) = {}
  BY <1>2 DEF Children
<1> QED BY <1>1, <1>3 DEF Leaves

LEMMA EarlierDependencies ==
    ASSUME NEW S \in ProjectState, StateInv(S), NEW t \in Tasks(S),
           NEW d \in S.tasks[t].deps
    PROVE  d \in Tasks(S) /\ d # t
<1>1. PICK rank \in [TaskId -> Nat] :
        \A u \in Tasks(S) : \A e \in S.tasks[u].deps : rank[e] < rank[u]
  BY DEF StateInv, TreeInv, Ordered
<1>2. d \in Tasks(S)
  BY DEF StateInv, TreeInv, Placed
<1>3. rank[d] < rank[t] /\ rank[t] \in Nat
  BY <1>1, TaskFields
<1> QED BY <1>2, <1>3

LEMMA ReopenedInv ==
    ASSUME NEW S \in ProjectState, NEW R \in ProjectState, StateInv(S), Reopened(S, R)
    PROVE  StateInv(R)
<1>1. /\ Tasks(R) = Tasks(S) /\ Leaves(R) = Leaves(S) /\ TreeInv(R)
      /\ \A t : Children(R, t) = Children(S, t)
  BY TreeKept DEF Reopened, StateInv
<1>2. S.count # 0
  <2>1. S.count = 0 => Leaves(S) = {}
    BY DEF Leaves, Tasks
  <2> QED BY <2>1 DEF Reopened, AllLeavesComplete
<1> DEFINE last == S.count
<1>3. /\ last \in Tasks(S) /\ Children(S, last) = {} /\ last \in Leaves(S)
  BY <1>2, LastIsLeaf
<1>4. S.tasks[last].status \in Complete
  BY <1>3 DEF Reopened, AllLeavesComplete, WithStatus
<1>5. ASSUME NEW t \in Tasks(S)
      PROVE  TaskInv(R, t)
  <2>1. TaskInv(S, t) /\ R.tasks[t].deps = S.tasks[t].deps
    BY TaskFields DEF StateInv, Reopened, SameTree
  <2>2. ASSUME NEW d \in S.tasks[t].deps, d < t
        PROVE  SameTask(S.tasks[d], R.tasks[d])
    <3>1. d \in Tasks(S) /\ d # last
      BY <2>2, TaskFields, EarlierDependencies
    <3> QED BY <3>1 DEF Reopened
  <2>3. CASE t = last
    <3>1. \A d \in S.tasks[t].deps : d \in Tasks(S) /\ d < t
      BY <2>3, EarlierDependencies, TaskFields
    <3>2. \A d \in S.tasks[t].deps : R.tasks[d].status \in Satisfied
      <4>1. S.tasks[t].status # "pending"
        BY <1>4, <2>3 DEF Complete
      <4> QED BY <2>1, <2>2, <3>1, <4>1 DEF TaskInv, SameTask
    <3>3. DepsSatisfied(R, t)
      BY <1>1, <2>1, <3>1, <3>2 DEF DepsSatisfied, WithStatus
    <3>4. ~R.tasks[t].blocker
      BY <1>3, <1>4, <2>1, <2>3 DEF TaskInv, Halted, Complete, Reopened
    <3>5. Noted(R.tasks[t])
      <4>1. S.tasks[t].reopens \in Nat /\ S.tasks[t].reopens <= MaxReopens
        BY <1>4, <2>1, <2>3, TaskFields, OrchestratorAssumption DEF TaskInv, Noted, Complete
      <4>2. S.tasks[t].vstat # "infrastructure_error"
        BY <1>4, <2>1, <2>3 DEF TaskInv, Noted, Complete
      <4> QED BY <2>3, <4>1, <4>2, OrchestratorAssumption DEF Noted, Reopened
    <3>6. R.tasks[t].status \in {"blocked", "ready"}
      BY <2>3 DEF Reopened
    <3> QED BY <1>1, <1>3, <2>1, <2>3, <3>2, <3>3, <3>4, <3>5, <3>6
            DEF TaskInv, Open, Complete
  <2>4. CASE t # last
    <3>1. SameTask(S.tasks[t], R.tasks[t])
      BY <2>4 DEF Reopened
    <3>2. S.tasks[t].status \notin Open
      BY OpenProject DEF Reopened
    <3>3. ASSUME NEW c \in Children(S, t), Finished(S.tasks[c])
          PROVE  Finished(R.tasks[c])
      <4>1. c \in Tasks(S) /\ S.tasks[last].reopens \in Nat
        BY <1>3, TaskFields DEF Children
      <4>2. CASE c = last
        BY <4>1, <4>2 DEF Reopened, Finished
      <4>3. CASE c # last
        BY <3>3, <4>1, <4>3 DEF Reopened, SameTask, Finished
      <4> QED BY <4>2, <4>3
    <3>4. Noted(S.tasks[t]) => Noted(R.tasks[t])
      BY <3>1 DEF SameTask, Noted
    <3>5. Halted(S.tasks[t]) => Halted(R.tasks[t])
      BY <3>1 DEF SameTask, Halted
    <3>6. \A d \in S.tasks[t].deps : d < t =>
              (S.tasks[d].status \in Satisfied => R.tasks[d].status \in Satisfied)
      BY <2>2 DEF SameTask
    <3> QED BY <1>1, <2>1, <3>1, <3>2, <3>3, <3>4, <3>5, <3>6 DEF TaskInv, SameTask
  <2> QED BY <2>3, <2>4
<1>6. ProjectInv(R)
  BY DEF ProjectInv, Reopened, Settled
<1> QED BY <1>1, <1>5, <1>6 DEF StateInv

\* The task of the i-th draft of a plan.
Draft(S, parent, plan, i) ==
    [NoTask EXCEPT !.parent = parent,
                   !.depth = IF parent = None THEN 0
                             ELSE S.tasks[parent].depth + 1,
                   !.deps = {S.count + j : j \in plan[i]}]

\* New tasks below a task in progress, which waits for them from now on, or the
\* first tasks of a project.
Grown(S, R, parent, plan) ==
    /\ \/ parent = None /\ S.count = 0
       \/ parent \in Tasks(S) /\ S.tasks[parent].status = "in_progress"
    /\ R.count = S.count + Len(plan)
    /\ \A t \in Tasks(S) :
          /\ R.tasks[t].parent = S.tasks[t].parent /\ R.tasks[t].depth = S.tasks[t].depth
          /\ R.tasks[t].deps = S.tasks[t].deps
          /\ t # parent => SameTask(S.tasks[t], R.tasks[t])
    /\ parent # None =>
          /\ R.tasks[parent].status = "decomposed"
          /\ R.tasks[parent].vstat = S.tasks[parent].vstat
          /\ R.tasks[parent].reopens = S.tasks[parent].reopens
    /\ \A i \in 1..Len(plan) : R.tasks[S.count + i] = Draft(S, parent, plan, i)
    /\ ~R.illegal /\ R.status = S.status

LEMMA PlanParts ==
    ASSUME NEW plan \in Plan
    PROVE  /\ plan \in Seq(SUBSET TaskId) /\ Len(plan) \in TaskId
           /\ Len(plan) \in Nat /\ Len(plan) # 0
           /\ \A i \in 1..Len(plan) : plan[i] \subseteq 1..Len(plan)
           /\ Acyclic(plan)
<1>1. /\ plan \in Seq(SUBSET TaskId) /\ Len(plan) \in TaskId
      /\ \A i \in 1..Len(plan) : plan[i] \subseteq 1..Len(plan)
      /\ Acyclic(plan)
  BY Zenon DEF Plan
<1> QED BY <1>1, TaskStateAssumption DEF TaskId

\* Which task of a grown project is old, and which is new.
LEMMA GrownTasks ==
    ASSUME NEW S \in ProjectState, NEW R \in ProjectState, NEW parent, NEW plan \in Plan,
           Grown(S, R, parent, plan), NEW t \in Tasks(R)
    PROVE  \/ t \in Tasks(S)
           \/ /\ t > S.count /\ t - S.count \in 1..Len(plan)
              /\ R.tasks[t].status = "pending" /\ R.tasks[t].parent = parent
              /\ R.tasks[t].depth = (IF parent = None THEN 0
                                     ELSE S.tasks[parent].depth + 1)
              /\ R.tasks[t].deps = {S.count + j : j \in plan[t - S.count]}
              /\ ~R.tasks[t].blocker /\ R.tasks[t].vstat = "none"
              /\ R.tasks[t].reopens = 0
<1>1. S.count \in Nat /\ Len(plan) \in Nat /\ t \in 1..(S.count + Len(plan))
  <2>1. R.count = S.count + Len(plan)
    BY Zenon DEF Grown
  <2>2. S.count \in Nat
    BY TaskStateAssumption DEF ProjectState
  <2>3. Len(plan) \in Nat
    BY PlanParts
  <2> QED BY <2>1, <2>2, <2>3 DEF Tasks
<1>2. CASE t <= S.count
  BY <1>1, <1>2 DEF Tasks
<1>3. CASE t > S.count
  <2> DEFINE i == t - S.count
  <2>1. i \in 1..Len(plan) /\ t = S.count + i
    BY <1>1, <1>3
  <2> HIDE DEF i
  <2>2. R.tasks[t] = Draft(S, parent, plan, i)
    BY <2>1, Zenon DEF Grown
  <2>3. /\ R.tasks[t].status = "pending" /\ R.tasks[t].parent = parent
        /\ R.tasks[t].depth = (IF parent = None THEN 0
                               ELSE S.tasks[parent].depth + 1)
        /\ R.tasks[t].deps = {S.count + j : j \in plan[i]}
        /\ ~R.tasks[t].blocker /\ R.tasks[t].vstat = "none"
        /\ R.tasks[t].reopens = 0
    BY <2>2 DEF NoTask, Draft
  <2> QED BY <1>3, <2>1, <2>3 DEF i
<1> QED BY <1>1, <1>2, <1>3

LEMMA GrownTree ==
    ASSUME NEW S \in ProjectState, NEW R \in ProjectState, StateInv(S),
           NEW parent, NEW plan \in Plan, Grown(S, R, parent, plan)
    PROVE  TreeInv(R)
<1> DEFINE n == S.count
<1>1. n \in Nat /\ Len(plan) \in Nat /\ R.count = n + Len(plan)
  <2>1. R.count = S.count + Len(plan)
    BY Zenon DEF Grown
  <2>2. S.count \in Nat
    BY TaskStateAssumption DEF ProjectState
  <2>3. Len(plan) \in Nat
    BY PlanParts
  <2> QED BY <2>1, <2>2, <2>3
<1>2. Tasks(S) \subseteq Tasks(R)
  BY <1>1 DEF Tasks
<1>3. \/ parent = None /\ n = 0
      \/ parent \in Tasks(S)
  BY DEF Grown
<1>4. ASSUME NEW t \in Tasks(S)
      PROVE  /\ R.tasks[t].parent = S.tasks[t].parent /\ R.tasks[t].depth = S.tasks[t].depth
             /\ R.tasks[t].deps = S.tasks[t].deps
  BY DEF Grown
<1>5. ASSUME NEW i \in 1..Len(plan), NEW j \in plan[i]
      PROVE  /\ j \in 1..Len(plan) /\ n + j \in Tasks(R) /\ n + j > n
             /\ (n + j) - n = j /\ n + j \notin Tasks(S)
  <2>1. j \in 1..Len(plan)
    BY PlanParts
  <2> QED BY <1>1, <2>1 DEF Tasks
<1>6. ASSUME NEW t \in Tasks(R)
      PROVE  Placed(R, t)
  <2>1. CASE t \in Tasks(S)
    <3>1. Placed(S, t) /\ S.tasks[t].parent \in 0..MaxTasks /\ t <= n
      BY <2>1, TaskFields DEF StateInv, TreeInv
    <3>2. S.tasks[t].parent # None => S.tasks[t].parent \in Tasks(S)
      BY <1>1, <2>1, <3>1, TaskFields, TaskStateAssumption DEF Placed, None, Tasks
    <3>3. S.tasks[t].parent # None =>
             R.tasks[S.tasks[t].parent].depth = S.tasks[S.tasks[t].parent].depth
      BY <1>4, <3>2
    <3>4. \A d \in S.tasks[t].deps : d \in Tasks(S) /\ R.tasks[d].depth = S.tasks[d].depth
      BY <1>4, <3>1 DEF Placed
    <3> QED BY <1>2, <1>4, <2>1, <3>1, <3>3, <3>4 DEF Placed
  <2>2. CASE t \notin Tasks(S)
    <3>1. /\ t > n /\ t - n \in 1..Len(plan) /\ R.tasks[t].parent = parent
          /\ R.tasks[t].depth = (IF parent = None THEN 0 ELSE S.tasks[parent].depth + 1)
          /\ R.tasks[t].deps = {n + j : j \in plan[t - n]}
      BY <2>2, GrownTasks
    <3>2. parent < t
      <4>1. parent \in Tasks(S) => parent \in Nat /\ parent <= n
        BY <1>1 DEF Tasks
      <4>2. t \in Nat
        BY TaskFields
      <4> QED BY <1>1, <1>3, <3>1, <4>1, <4>2 DEF None
    <3>3. R.tasks[t].depth = IF parent = None THEN 0 ELSE R.tasks[parent].depth + 1
      BY <1>3, <1>4, <3>1
    <3>4. ASSUME NEW d \in R.tasks[t].deps
          PROVE  d \in Tasks(R) /\ R.tasks[d].depth = R.tasks[t].depth
      <4>1. PICK j \in plan[t - n] : d = n + j
        BY <3>1
      <4>2. d \in Tasks(R) /\ d \notin Tasks(S)
        BY <1>5, <3>1, <4>1
      <4>3. R.tasks[d].depth = (IF parent = None THEN 0 ELSE S.tasks[parent].depth + 1)
        BY <4>2, GrownTasks
      <4> QED BY <3>1, <4>2, <4>3
    <3> QED BY <3>1, <3>2, <3>3, <3>4 DEF Placed
  <2> QED BY <2>1, <2>2
<1>7. Ordered(R)
  <2>1. PICK old \in [TaskId -> Nat] :
          \A t \in Tasks(S) : \A d \in S.tasks[t].deps : old[d] < old[t]
    BY DEF StateInv, TreeInv, Ordered
  <2>2. PICK new \in [1..Len(plan) -> 1..Len(plan)] :
          \A i \in 1..Len(plan) : \A j \in plan[i] : new[j] < new[i]
    BY PlanParts DEF Acyclic
  <2> DEFINE rank == [t \in TaskId |-> IF t \in Tasks(S) THEN old[t]
                                       ELSE IF t - n \in 1..Len(plan) THEN new[t - n] ELSE 0]
  <2>3. rank \in [TaskId -> Nat]
    BY <1>1
  <2>4. ASSUME NEW t \in Tasks(R), NEW d \in R.tasks[t].deps
        PROVE  rank[d] < rank[t]
    <3>1. t \in TaskId /\ Tasks(S) \subseteq TaskId /\ Tasks(R) \subseteq TaskId
      BY TasksType
    <3>2. CASE t \in Tasks(S)
      <4>1. d \in S.tasks[t].deps /\ d \in Tasks(S)
        BY <1>4, <3>2 DEF StateInv, TreeInv, Placed
      <4> QED BY <2>1, <3>1, <3>2, <4>1
    <3>3. CASE t \notin Tasks(S)
      <4>1. t - n \in 1..Len(plan) /\ R.tasks[t].deps = {n + j : j \in plan[t - n]}
        BY <3>3, GrownTasks
      <4>2. PICK j \in plan[t - n] : d = n + j
        BY <4>1
      <4>3. /\ j \in 1..Len(plan) /\ d \in Tasks(R) /\ d - n = j /\ d \notin Tasks(S)
        BY <1>5, <4>1, <4>2
      <4>4. rank[d] = new[j] /\ rank[t] = new[t - n]
        BY <3>1, <3>3, <4>1, <4>3
      <4> HIDE DEF rank
      <4> QED BY <2>2, <4>1, <4>2, <4>4
    <3> QED BY <3>2, <3>3
  <2> HIDE DEF rank
  <2> QED BY <2>3, <2>4 DEF Ordered
<1> QED BY <1>6, <1>7 DEF TreeInv

LEMMA GrownInv ==
    ASSUME NEW S \in ProjectState, NEW R \in ProjectState, StateInv(S),
           NEW parent, NEW plan \in Plan, Grown(S, R, parent, plan)
    PROVE  StateInv(R)
<1> DEFINE n == S.count
<1>1. n \in Nat /\ Len(plan) \in Nat /\ Len(plan) # 0 /\ R.count = n + Len(plan)
  <2>1. R.count = S.count + Len(plan)
    BY Zenon DEF Grown
  <2>2. S.count \in Nat
    BY TaskStateAssumption DEF ProjectState
  <2>3. Len(plan) \in Nat /\ Len(plan) # 0
    BY PlanParts
  <2> QED BY <2>1, <2>2, <2>3
<1>2. Tasks(S) \subseteq Tasks(R)
  BY <1>1 DEF Tasks
<1>3. \/ parent = None /\ n = 0
      \/ parent \in Tasks(S) /\ S.tasks[parent].status = "in_progress"
  BY DEF Grown
<1>4. ASSUME NEW t \in Tasks(S)
      PROVE  /\ R.tasks[t].parent = S.tasks[t].parent /\ R.tasks[t].deps = S.tasks[t].deps
             /\ t # parent => SameTask(S.tasks[t], R.tasks[t])
  BY DEF Grown
<1>5. ASSUME parent # None
      PROVE  /\ R.tasks[parent].status = "decomposed"
             /\ R.tasks[parent].vstat = S.tasks[parent].vstat
             /\ R.tasks[parent].reopens = S.tasks[parent].reopens
  BY <1>5, Zenon DEF Grown
<1>6. ASSUME NEW t \in Tasks(R), t \notin Tasks(S)
      PROVE  /\ t > n /\ t - n \in 1..Len(plan)
             /\ R.tasks[t].status = "pending" /\ R.tasks[t].parent = parent
             /\ R.tasks[t].deps = {n + j : j \in plan[t - n]}
             /\ ~R.tasks[t].blocker /\ R.tasks[t].vstat = "none"
             /\ R.tasks[t].reopens = 0
  BY <1>6, GrownTasks
<1>7. ASSUME NEW t \in Tasks(S), t # parent
      PROVE  Children(R, t) = Children(S, t)
  <2>1. ASSUME NEW c \in Tasks(R)
        PROVE  c \in Tasks(S) /\ S.tasks[c].parent = t <=> R.tasks[c].parent = t
    BY <1>4, <1>6, <1>7
  <2> QED BY <1>2, <2>1 DEF Children
<1>8. ASSUME parent # None
      PROVE  Children(R, parent) # {}
             /\ \A c \in Children(R, parent) : c \in Tasks(R) /\ c \notin Tasks(S)
  <2>1. n + 1 \in Tasks(R) /\ n + 1 \notin Tasks(S)
    BY <1>1 DEF Tasks
  <2>2. n + 1 \in Children(R, parent)
    BY <1>6, <2>1 DEF Children
  <2>3. Children(S, parent) = {}
    BY <1>3, <1>8, OpenProject DEF Open
  <2>4. ASSUME NEW c \in Tasks(S)
        PROVE  R.tasks[c].parent # parent
    BY <1>4, <2>3 DEF Children
  <2> QED BY <2>2, <2>4 DEF Children
<1>9. ASSUME NEW t \in Tasks(R), t \notin Tasks(S)
      PROVE  Children(R, t) = {}
  <2>1. ASSUME NEW c \in Tasks(R)
        PROVE  R.tasks[c].parent # t
    <3>1. CASE c \in Tasks(S)
      <4>1. S.tasks[c].parent < c /\ c <= n /\ c \in Nat /\ S.tasks[c].parent \in 0..MaxTasks
        BY <3>1, TaskFields DEF StateInv, TreeInv, Placed
      <4>2. S.tasks[c].parent \in Nat
        BY <4>1, TaskStateAssumption
      <4>3. t \in Nat
        BY TaskFields
      <4> QED BY <1>1, <1>4, <1>6, <1>9, <3>1, <4>1, <4>2, <4>3
    <3>2. CASE c \notin Tasks(S)
      <4>1. R.tasks[c].parent = parent
        BY <1>6, <3>2
      <4>2. parent # t
        <5>1. t # None
          BY TaskFields
        <5> QED BY <1>3, <1>9, <5>1
      <4> QED BY <4>1, <4>2
    <3> QED BY <3>1, <3>2
  <2> QED BY <2>1 DEF Children
<1>10. ASSUME NEW d \in Tasks(S), S.tasks[d].status \in Complete
       PROVE  SameTask(S.tasks[d], R.tasks[d])
  BY <1>3, <1>4, <1>10, TaskFields DEF Complete, None
<1>11. ASSUME NEW t \in Tasks(S)
       PROVE  /\ TaskInv(S, t)
              /\ \A d \in S.tasks[t].deps :
                    /\ d \in Tasks(S)
                    /\ S.tasks[d].status \in Satisfied => R.tasks[d].status \in Satisfied
  <2>1. TaskInv(S, t) /\ \A d \in S.tasks[t].deps : d \in Tasks(S)
    BY DEF StateInv, TreeInv, Placed
  <2> QED BY <1>10, <2>1 DEF SameTask, Satisfied, Complete
<1>12. ASSUME NEW t \in Tasks(R)
       PROVE  TaskInv(R, t)
  <2>1. CASE t \notin Tasks(S)
    <3>1. Children(R, t) = {} /\ R.tasks[t].status = "pending"
          /\ ~R.tasks[t].blocker /\ Noted(R.tasks[t])
      BY <1>6, <1>9, <2>1, OrchestratorAssumption DEF Noted
    <3> QED BY <3>1 DEF TaskInv, Open, Complete
  <2>2. CASE t \in Tasks(S) /\ t # parent
    <3>1. SameTask(S.tasks[t], R.tasks[t]) /\ Children(R, t) = Children(S, t)
          /\ R.tasks[t].deps = S.tasks[t].deps
      BY <1>4, <1>7, <2>2
    <3>2. ASSUME NEW c \in Children(S, t), Finished(S.tasks[c])
          PROVE  Finished(R.tasks[c])
      <4>1. c \in Tasks(S)
        BY DEF Children
      <4>2. CASE c = parent
        BY <1>3, <1>5, <3>2, <4>1, <4>2, TaskFields DEF Finished, Complete, None
      <4>3. CASE c # parent
        BY <1>4, <3>2, <4>1, <4>3 DEF SameTask, Finished
      <4> QED BY <4>2, <4>3
    <3>3. DepsSatisfied(S, t) => DepsSatisfied(R, t)
      BY <1>2, <1>11, <2>2, <3>1 DEF DepsSatisfied, WithStatus
    <3>4. Noted(S.tasks[t]) => Noted(R.tasks[t])
      BY <3>1 DEF SameTask, Noted
    <3>5. Halted(S.tasks[t]) => Halted(R.tasks[t])
      BY <3>1 DEF SameTask, Halted
    <3> QED BY <1>11, <2>2, <3>1, <3>2, <3>3, <3>4, <3>5 DEF TaskInv, SameTask
  <2>3. CASE t \in Tasks(S) /\ t = parent
    <3>1. t # None /\ S.tasks[t].status = "in_progress"
      BY <1>3, <2>3, TaskFields DEF None
    <3>2. R.tasks[t].status = "decomposed" /\ R.tasks[t].vstat = S.tasks[t].vstat
          /\ R.tasks[t].reopens = S.tasks[t].reopens
      BY <1>5, <2>3, <3>1
    <3>3. Children(R, t) # {}
      BY <1>8, <2>3, <3>1
    <3>4. Noted(R.tasks[t])
      BY <1>11, <2>3, <3>1, <3>2 DEF TaskInv, Noted
    <3>5. \A d \in R.tasks[t].deps : d < t => R.tasks[d].status \in Satisfied
      BY <1>4, <1>11, <2>3, <3>1 DEF TaskInv
    <3> QED BY <3>2, <3>3, <3>4, <3>5 DEF TaskInv, Open, Complete
  <2> QED BY <2>1, <2>2, <2>3
<1>13. ProjectInv(R)
  <2>1. S.status \notin Settled
    <3>1. CASE n = 0
      <4>1. Leaves(S) = {}
        BY <3>1 DEF Leaves, Tasks
      <4> QED BY <4>1 DEF StateInv, ProjectInv, AllLeavesComplete
    <3>2. CASE n # 0
      <4>1. parent \in Tasks(S) /\ S.tasks[parent].status \in Open
        BY <1>3, <3>2 DEF Open
      <4> QED BY <4>1, OpenProject
    <3> QED BY <3>1, <3>2
  <2>2. ~R.illegal /\ R.status = S.status
    BY Zenon DEF Grown
  <2> QED BY <2>1, <2>2 DEF ProjectInv, Settled
<1> QED BY <1>12, <1>13, GrownTree DEF StateInv

-----------------------------------------------------------------------------
\* The handlers make such changes.

\* S and R differ at most in what one task does, and in which task is active.
OnlyTask(S, R, t) ==
    /\ R \in ProjectState /\ SameTree(S, R)
    /\ \A u \in TaskId \ {t} : R.tasks[u] = S.tasks[u]
    /\ R.status = S.status /\ R.duplicateKeys = S.duplicateKeys
    /\ R.sessions = S.sessions /\ R.pattempts = S.pattempts

LEMMA OnlyTaskTransitive ==
    ASSUME NEW S, NEW R, NEW Q, NEW t, OnlyTask(S, R, t), OnlyTask(R, Q, t)
    PROVE  OnlyTask(S, Q, t)
BY DEF OnlyTask, SameTree

LEMMA TransitionOnly ==
    ASSUME NEW S \in ProjectState, NEW t \in TaskId, NEW new \in TaskStatus
    PROVE  LET R == Transition(S, t, new)
           IN  /\ OnlyTask(S, R, t)
               /\ R.tasks[t].status = new /\ R.tasks[t].blocker = S.tasks[t].blocker
               /\ R.tasks[t].vstat = S.tasks[t].vstat
               /\ R.tasks[t].reopens = S.tasks[t].reopens
               /\ R.active = IF new = "in_progress" THEN t
                             ELSE IF S.active = t THEN None ELSE S.active
               /\ ~S.illegal /\ new \in LegalTransitions(S.tasks[t].status) => ~R.illegal
<1> DEFINE R == Transition(S, t, new)
           f == [S.tasks EXCEPT ![t].status = new]
           a == IF new = "in_progress" THEN t
                ELSE IF S.active = t THEN None ELSE S.active
           b == S.illegal \/ new \notin LegalTransitions(S.tasks[t].status)
<1>1. R \in ProjectState
  BY TransitionContinues DEF Continues
<1>2. R = [S EXCEPT !.tasks = f, !.active = a, !.illegal = b]
  BY Zenon DEF Transition, ProjectState
<1>3. /\ \A u \in TaskId \ {t} : f[u] = S.tasks[u]
      /\ f[t] = [S.tasks[t] EXCEPT !.status = new]
      /\ S.tasks[t] \in TaskNode
  BY DEF ProjectState
<1>4. /\ f[t].status = new /\ f[t].blocker = S.tasks[t].blocker
      /\ f[t].vstat = S.tasks[t].vstat /\ f[t].reopens = S.tasks[t].reopens
      /\ f[t].parent = S.tasks[t].parent /\ f[t].depth = S.tasks[t].depth
      /\ f[t].deps = S.tasks[t].deps
  BY <1>3 DEF TaskNode
<1> HIDE DEF f, a
<1>5. /\ R.tasks = f /\ R.active = a /\ R.illegal = b /\ R.count = S.count
      /\ R.status = S.status /\ R.duplicateKeys = S.duplicateKeys
      /\ R.sessions = S.sessions /\ R.pattempts = S.pattempts
  <2> HIDE DEF b, R
  <2> QED BY <1>2 DEF ProjectState
<1> HIDE DEF R
<1>6. OnlyTask(S, R, t)
  BY <1>1, <1>3, <1>4, <1>5 DEF OnlyTask, SameTree
<1> QED BY <1>4, <1>5, <1>6 DEF R, a

LEMMA FieldOnly ==
    ASSUME NEW S \in ProjectState, NEW t \in TaskId
    PROVE  /\ \A b \in BOOLEAN :
                 LET R == [S EXCEPT !.tasks[t].blocker = b]
                 IN  /\ OnlyTask(S, R, t) /\ R.active = S.active
                     /\ R.illegal = S.illegal
                     /\ R.tasks[t] = [S.tasks[t] EXCEPT !.blocker = b]
           /\ \A v \in TaskVerdict :
                 LET R == [S EXCEPT !.tasks[t].vstat = v]
                 IN  /\ OnlyTask(S, R, t) /\ R.active = S.active
                     /\ R.illegal = S.illegal
                     /\ R.tasks[t] = [S.tasks[t] EXCEPT !.vstat = v]
           /\ \A n \in Nat :
                 LET R == [S EXCEPT !.tasks[t].reopens = n]
                 IN  /\ OnlyTask(S, R, t) /\ R.active = S.active
                     /\ R.illegal = S.illegal
                     /\ R.tasks[t] = [S.tasks[t] EXCEPT !.reopens = n]
           /\ \A n \in Nat :
                 LET R == [S EXCEPT !.tasks[t].noprog = n]
                 IN  /\ OnlyTask(S, R, t) /\ R.active = S.active
                     /\ R.illegal = S.illegal
                     /\ R.tasks[t] = [S.tasks[t] EXCEPT !.noprog = n]
<1>1. S.tasks[t] \in TaskNode
  BY DEF ProjectState
<1>2. ASSUME NEW m \in TaskNode, m.parent = S.tasks[t].parent,
             m.depth = S.tasks[t].depth, m.deps = S.tasks[t].deps
      PROVE  LET R == [S EXCEPT !.tasks[t] = m]
             IN  /\ OnlyTask(S, R, t) /\ R.active = S.active
                 /\ R.illegal = S.illegal /\ R.tasks[t] = m
  <2> DEFINE R == [S EXCEPT !.tasks[t] = m]
  <2>1. R \in ProjectState
    BY ReplaceTask DEF Continues
  <2>2. /\ R.count = S.count /\ R.tasks = [S.tasks EXCEPT ![t] = m]
        /\ R.active = S.active /\ R.illegal = S.illegal
        /\ R.status = S.status /\ R.duplicateKeys = S.duplicateKeys
        /\ R.sessions = S.sessions /\ R.pattempts = S.pattempts
    BY DEF ProjectState
  <2>3. R.tasks[t] = m /\ \A u \in TaskId \ {t} : R.tasks[u] = S.tasks[u]
    BY <2>2 DEF ProjectState
  <2> HIDE DEF R
  <2>4. OnlyTask(S, R, t)
    BY <1>2, <2>1, <2>2, <2>3 DEF OnlyTask, SameTree
  <2> QED BY <2>2, <2>3, <2>4 DEF R
<1>3. ASSUME NEW b \in BOOLEAN
      PROVE  LET R == [S EXCEPT !.tasks[t].blocker = b]
             IN  /\ OnlyTask(S, R, t) /\ R.active = S.active
                 /\ R.illegal = S.illegal
                 /\ R.tasks[t] = [S.tasks[t] EXCEPT !.blocker = b]
  <2> DEFINE m == [S.tasks[t] EXCEPT !.blocker = b]
  <2>1. /\ m \in TaskNode /\ m.parent = S.tasks[t].parent
        /\ m.depth = S.tasks[t].depth /\ m.deps = S.tasks[t].deps
    BY <1>1 DEF TaskNode
  <2>2. [S EXCEPT !.tasks[t].blocker = b] = [S EXCEPT !.tasks[t] = m]
    BY Zenon
  <2> HIDE DEF m
  <2> QED BY <1>2, <2>1, <2>2 DEF m
<1>4. ASSUME NEW v \in TaskVerdict
      PROVE  LET R == [S EXCEPT !.tasks[t].vstat = v]
             IN  /\ OnlyTask(S, R, t) /\ R.active = S.active
                 /\ R.illegal = S.illegal
                 /\ R.tasks[t] = [S.tasks[t] EXCEPT !.vstat = v]
  <2> DEFINE m == [S.tasks[t] EXCEPT !.vstat = v]
  <2>1. /\ m \in TaskNode /\ m.parent = S.tasks[t].parent
        /\ m.depth = S.tasks[t].depth /\ m.deps = S.tasks[t].deps
    BY <1>1 DEF TaskNode
  <2>2. [S EXCEPT !.tasks[t].vstat = v] = [S EXCEPT !.tasks[t] = m]
    BY Zenon
  <2> HIDE DEF m
  <2> QED BY <1>2, <2>1, <2>2 DEF m
<1>5. ASSUME NEW n \in Nat
      PROVE  LET R == [S EXCEPT !.tasks[t].reopens = n]
             IN  /\ OnlyTask(S, R, t) /\ R.active = S.active
                 /\ R.illegal = S.illegal
                 /\ R.tasks[t] = [S.tasks[t] EXCEPT !.reopens = n]
  <2> DEFINE m == [S.tasks[t] EXCEPT !.reopens = n]
  <2>1. /\ m \in TaskNode /\ m.parent = S.tasks[t].parent
        /\ m.depth = S.tasks[t].depth /\ m.deps = S.tasks[t].deps
    BY <1>1 DEF TaskNode
  <2>2. [S EXCEPT !.tasks[t].reopens = n] = [S EXCEPT !.tasks[t] = m]
    BY Zenon
  <2> HIDE DEF m
  <2> QED BY <1>2, <2>1, <2>2 DEF m
<1>6. ASSUME NEW n \in Nat
      PROVE  LET R == [S EXCEPT !.tasks[t].noprog = n]
             IN  /\ OnlyTask(S, R, t) /\ R.active = S.active
                 /\ R.illegal = S.illegal
                 /\ R.tasks[t] = [S.tasks[t] EXCEPT !.noprog = n]
  <2> DEFINE m == [S.tasks[t] EXCEPT !.noprog = n]
  <2>1. /\ m \in TaskNode /\ m.parent = S.tasks[t].parent
        /\ m.depth = S.tasks[t].depth /\ m.deps = S.tasks[t].deps
    BY <1>1 DEF TaskNode
  <2>2. [S EXCEPT !.tasks[t].noprog = n] = [S EXCEPT !.tasks[t] = m]
    BY Zenon
  <2> HIDE DEF m
  <2> QED BY <1>2, <2>1, <2>2 DEF m
<1> QED BY <1>3, <1>4, <1>5, <1>6

-----------------------------------------------------------------------------
\* What such changes never undo.

\* B knows of everything A counts, and of every task that A calls complete,
\* unless verification has reopened it.
Forward(A, B) ==
    /\ A.sessions <= B.sessions /\ A.pattempts <= B.pattempts /\ A.count <= B.count
    /\ \A t \in Tasks(A) :
          /\ A.tasks[t].reopens <= B.tasks[t].reopens
          /\ A.tasks[t].status \in Complete =>
                \/ B.tasks[t].status \in Complete
                \/ A.tasks[t].reopens < B.tasks[t].reopens

\* A change that counts no session and no verification.
Counted(S, R) == R.sessions = S.sessions /\ R.pattempts = S.pattempts

LEMMA StateCounters ==
    ASSUME NEW S \in ProjectState
    PROVE  S.sessions \in Nat /\ S.pattempts \in Nat /\ S.count \in Nat
BY TaskStateAssumption DEF ProjectState

LEMMA ForwardReflexive ==
    ASSUME NEW S \in ProjectState
    PROVE  Forward(S, S)
<1>1. \A t \in Tasks(S) : S.tasks[t].reopens \in Nat
  BY TaskFields
<1> QED BY <1>1, StateCounters DEF Forward

LEMMA ForwardTransitive ==
    ASSUME NEW S \in ProjectState, NEW R \in ProjectState, NEW Q \in ProjectState,
           Forward(S, R), Forward(R, Q)
    PROVE  Forward(S, Q)
<1>1. S.count <= R.count /\ R.count <= Q.count
  BY DEF Forward
<1>2. Tasks(S) \subseteq Tasks(R) /\ Tasks(R) \subseteq Tasks(Q)
  BY <1>1, StateCounters DEF Tasks
<1>3. ASSUME NEW t \in Tasks(S)
      PROVE  /\ S.tasks[t].reopens <= Q.tasks[t].reopens
             /\ S.tasks[t].status \in Complete =>
                   \/ Q.tasks[t].status \in Complete
                   \/ S.tasks[t].reopens < Q.tasks[t].reopens
  <2>1. t \in Tasks(R) /\ t \in Tasks(Q)
    BY <1>2
  <2>2. /\ S.tasks[t].reopens \in Nat /\ R.tasks[t].reopens \in Nat
        /\ Q.tasks[t].reopens \in Nat
    BY <2>1, TaskFields
  <2>3. /\ S.tasks[t].reopens <= R.tasks[t].reopens
        /\ R.tasks[t].reopens <= Q.tasks[t].reopens
    BY <2>1 DEF Forward
  <2>4. S.tasks[t].status \in Complete =>
           \/ R.tasks[t].status \in Complete
           \/ S.tasks[t].reopens < R.tasks[t].reopens
    BY DEF Forward
  <2>5. R.tasks[t].status \in Complete =>
           \/ Q.tasks[t].status \in Complete
           \/ R.tasks[t].reopens < Q.tasks[t].reopens
    BY <2>1 DEF Forward
  <2> QED BY <2>2, <2>3, <2>4, <2>5
<1>4. S.sessions <= Q.sessions /\ S.pattempts <= Q.pattempts
  BY StateCounters DEF Forward
<1> QED BY <1>1, <1>3, <1>4, StateCounters DEF Forward

LEMMA ChangesForward ==
    ASSUME NEW S \in ProjectState, NEW R \in ProjectState, StateInv(S),
           S.sessions <= R.sessions, S.pattempts <= R.pattempts
    PROVE  /\ (\E T : Worked(S, R, T)) => Forward(S, R)
           /\ (\E T : Lifted(S, R, T)) => Forward(S, R)
           /\ (\E T : Released(S, R, T)) => Forward(S, R)
           /\ Reopened(S, R) => Forward(S, R)
           /\ (\E p : \E plan \in Plan : Grown(S, R, p, plan)) => Forward(S, R)
<1>1. \A t \in Tasks(S) : S.tasks[t].reopens \in Nat
  BY TaskFields
<1>2. ASSUME NEW T, Worked(S, R, T)
      PROVE  Forward(S, R)
  <2>1. R.count = S.count
    BY <1>2 DEF Worked, SameTree
  <2>2. ASSUME NEW t \in Tasks(S)
        PROVE  /\ S.tasks[t].reopens <= R.tasks[t].reopens
               /\ S.tasks[t].status \in Complete => R.tasks[t].status \in Complete
    <3>1. CASE t \in T
      BY <1>2, <3>1 DEF Worked, Open, Complete
    <3>2. CASE t \notin T
      BY <1>1, <1>2, <3>2 DEF Worked, SameTask
    <3> QED BY <3>1, <3>2
  <2> QED BY <2>1, <2>2, StateCounters DEF Forward
<1>3. ASSUME NEW T, Lifted(S, R, T)
      PROVE  Forward(S, R)
  <2>1. R.count = S.count
    BY <1>3 DEF Lifted, SameTree
  <2>2. ASSUME NEW t \in Tasks(S)
        PROVE  /\ S.tasks[t].reopens <= R.tasks[t].reopens
               /\ S.tasks[t].status \in Complete => R.tasks[t].status \in Complete
    BY <1>1, <1>3 DEF Lifted, SameTask
  <2> QED BY <2>1, <2>2, StateCounters DEF Forward
<1>4. ASSUME NEW T, Released(S, R, T)
      PROVE  Forward(S, R)
  <2>1. R.count = S.count
    BY <1>4 DEF Released, SameTree
  <2>2. ASSUME NEW t \in Tasks(S)
        PROVE  /\ S.tasks[t].reopens <= R.tasks[t].reopens
               /\ S.tasks[t].status \in Complete => R.tasks[t].status \in Complete
    <3>1. CASE t \in T
      <4>1. S.tasks[t] \in TaskNode /\ S.tasks[t].status = "pending"
            /\ SameTask([S.tasks[t] EXCEPT !.status = "ready"], R.tasks[t])
        BY <1>4, <3>1, TaskFields DEF Released
      <4>2. R.tasks[t].reopens = S.tasks[t].reopens
        BY <4>1 DEF SameTask, TaskNode
      <4> QED BY <1>1, <4>1, <4>2 DEF Complete
    <3>2. CASE t \notin T
      BY <1>1, <1>4, <3>2 DEF Released, SameTask
    <3> QED BY <3>1, <3>2
  <2> QED BY <2>1, <2>2, StateCounters DEF Forward
<1>5. ASSUME Reopened(S, R)
      PROVE  Forward(S, R)
  <2>1. R.count = S.count
    BY <1>5 DEF Reopened, SameTree
  <2>2. ASSUME NEW t \in Tasks(S)
        PROVE  /\ S.tasks[t].reopens <= R.tasks[t].reopens
               /\ S.tasks[t].status \in Complete =>
                     \/ R.tasks[t].status \in Complete
                     \/ S.tasks[t].reopens < R.tasks[t].reopens
    <3>1. CASE t = S.count
      BY <1>1, <1>5, <3>1 DEF Reopened
    <3>2. CASE t # S.count
      BY <1>1, <1>5, <3>2 DEF Reopened, SameTask
    <3> QED BY <3>1, <3>2
  <2> QED BY <2>1, <2>2, StateCounters DEF Forward
<1>6. ASSUME NEW p, NEW plan \in Plan, Grown(S, R, p, plan)
      PROVE  Forward(S, R)
  <2>1. R.count = S.count + Len(plan)
    BY <1>6, Zenon DEF Grown
  <2>2. S.count <= R.count
    BY <2>1, StateCounters, PlanParts
  <2>3. \/ p = None /\ S.count = 0
        \/ p \in Tasks(S) /\ S.tasks[p].status = "in_progress"
    BY <1>6 DEF Grown
  <2>4. p # None => R.tasks[p].reopens = S.tasks[p].reopens
    BY <1>6, Zenon DEF Grown
  <2>5. ASSUME NEW t \in Tasks(S)
        PROVE  /\ S.tasks[t].reopens <= R.tasks[t].reopens
               /\ S.tasks[t].status \in Complete => R.tasks[t].status \in Complete
    <3>1. t # None
      BY TaskFields
    <3>2. CASE t = p
      BY <1>1, <2>3, <2>4, <3>1, <3>2 DEF Complete
    <3>3. CASE t # p
      <4>1. SameTask(S.tasks[t], R.tasks[t])
        BY <1>6, <3>3 DEF Grown
      <4> QED BY <1>1, <4>1 DEF SameTask
    <3> QED BY <3>2, <3>3
  <2> QED BY <2>2, <2>5 DEF Forward
<1> QED BY <1>2, <1>3, <1>4, <1>5, <1>6

-----------------------------------------------------------------------------
\* Aggregation.

\* A set of tasks defined by recursion over their children, who are younger.
Younger(kids) == \A t \in TaskId : \A c \in kids[t] : c \in TaskId /\ t < c

Reached(D, base, more, kids) ==
    /\ D \subseteq TaskId
    /\ \A t \in TaskId : t \in D <=> t \in base \/ (t \in more /\ kids[t] \subseteq D)

LEMMA YoungestFirst ==
    ASSUME NEW base, NEW more, NEW kids, Younger(kids)
    PROVE  \E D : Reached(D, base, more, kids)
<1> DEFINE Right(D, t) == t \in D <=> t \in base \/ (t \in more /\ kids[t] \subseteq D)
           N == {n \in 0..MaxTasks : \E D \in SUBSET TaskId :
                     \A t \in TaskId : n < t => Right(D, t)}
<1>1. MaxTasks \in N
  <2>1. \A t \in TaskId : ~ (MaxTasks < t)
    BY TaskStateAssumption DEF TaskId
  <2>2. MaxTasks \in 0..MaxTasks
    BY TaskStateAssumption
  <2> HIDE DEF Right
  <2> QED BY <2>1, <2>2
<1>2. N \subseteq Nat
  BY TaskStateAssumption
<1> HIDE DEF N
<1>3. PICK m \in N : \A k \in N : m <= k
  BY <1>1, <1>2, Smallest
<1>4. PICK D \in SUBSET TaskId : \A t \in TaskId : m < t => Right(D, t)
  BY <1>3 DEF N
<1>5. m = 0
  <2> SUFFICES ASSUME m # 0
               PROVE  FALSE
    OBVIOUS
  <2>1. m \in TaskId /\ m - 1 \in 0..MaxTasks /\ ~ (m <= m - 1)
    BY TaskStateAssumption DEF N, TaskId
  <2> DEFINE E == IF m \in base \/ (m \in more /\ kids[m] \subseteq D)
                  THEN D \cup {m} ELSE D \ {m}
  <2>2. /\ E \in SUBSET TaskId
        /\ m \in E <=> m \in base \/ (m \in more /\ kids[m] \subseteq D)
        /\ \A t \in TaskId \ {m} : t \in E <=> t \in D
    BY <2>1
  <2> HIDE DEF E
  <2>3. ASSUME NEW t \in TaskId, m - 1 < t
        PROVE  Right(E, t)
    <3>1. \A c \in kids[t] : c \in TaskId /\ t < c /\ c # m
      BY <2>1, <2>3, TaskStateAssumption DEF TaskId, Younger
    <3>2. kids[t] \subseteq E <=> kids[t] \subseteq D
      BY <2>2, <3>1
    <3>3. CASE t = m
      BY <2>2, <3>2, <3>3
    <3>4. CASE t # m
      <4>1. m < t
        BY <2>1, <2>3, <3>4, TaskStateAssumption DEF TaskId
      <4>2. Right(D, t)
        BY <1>4, <4>1
      <4> QED BY <2>2, <3>2, <3>4, <4>2
    <3> QED BY <3>3, <3>4
  <2> HIDE DEF Right
  <2>4. m - 1 \in N
    BY <2>1, <2>2, <2>3 DEF N
  <2> QED BY <1>3, <2>1, <2>4
<1>6. \A t \in TaskId : Right(D, t)
  BY <1>4, <1>5, TaskStateAssumption DEF TaskId
<1> QED BY <1>6 DEF Reached

\* After the first aggregation a parent waits only for children that are not complete.
LEMMA CandidatesAggregated ==
    ASSUME NEW S \in ProjectState, StateInv(S)
    PROVE  \E T : /\ AggregateCandidateCompleteParents(S) = SetStatus(S, T, "candidate_complete")
                  /\ T \subseteq WithStatus(S, {"decomposed"})
                  /\ \A t \in T : Children(S, t) # {} /\ \A c \in Children(S, t) :
                        c \in T \/ S.tasks[c].status \in Complete
                  /\ \A t \in WithStatus(S, {"decomposed"}) \ T :
                        \E c \in Children(S, t) : c \notin T /\ S.tasks[c].status \notin Complete
<1> DEFINE done[t \in TaskId] ==
              \/ S.tasks[t].status \in Complete
              \/ /\ S.tasks[t].status = "decomposed"
                 /\ Children(S, t) # {}
                 /\ \A c \in Children(S, t) : done[c]
           T == {t \in WithStatus(S, {"decomposed"}) : done[t]}
<1>1. AggregateCandidateCompleteParents(S) = SetStatus(S, T, "candidate_complete")
  BY Zenon DEF AggregateCandidateCompleteParents
<1> DEFINE base == {t \in TaskId : S.tasks[t].status \in Complete}
           more == {t \in TaskId : S.tasks[t].status = "decomposed" /\ Children(S, t) # {}}
           kids == [t \in TaskId |-> Children(S, t)]
<1>2. /\ \A t \in TaskId : Children(S, t) \subseteq TaskId
      /\ Younger(kids)
  <2>1. ASSUME NEW t \in TaskId, NEW c \in Children(S, t)
        PROVE  c \in TaskId /\ t < c
    BY TasksType DEF Children, StateInv, TreeInv, Placed
  <2> QED BY <2>1 DEF Younger
<1>3. PICK D : Reached(D, base, more, kids)
  BY <1>2, YoungestFirst
<1> DEFINE f == [t \in TaskId |-> t \in D]
<1>4. f = [t \in TaskId |->
              \/ S.tasks[t].status \in Complete
              \/ /\ S.tasks[t].status = "decomposed"
                 /\ Children(S, t) # {}
                 /\ \A c \in Children(S, t) : f[c]]
  <2>1. ASSUME NEW t \in TaskId
        PROVE  t \in D <=>
              \/ S.tasks[t].status \in Complete
              \/ /\ S.tasks[t].status = "decomposed"
                 /\ Children(S, t) # {}
                 /\ \A c \in Children(S, t) : c \in D
    BY <1>3 DEF Reached
  <2>2. ASSUME NEW t \in TaskId
        PROVE  f[t] = (\/ S.tasks[t].status \in Complete
                       \/ /\ S.tasks[t].status = "decomposed"
                          /\ Children(S, t) # {}
                          /\ \A c \in Children(S, t) : f[c])
    <3>1. f[t] = (t \in D) /\ \A c \in Children(S, t) : f[c] = (c \in D)
      BY <1>2
    <3> DEFINE body == \/ S.tasks[t].status \in Complete
                       \/ /\ S.tasks[t].status = "decomposed"
                          /\ Children(S, t) # {}
                          /\ \A c \in Children(S, t) : f[c]
    <3>2. body <=> t \in D
      BY <2>1, <3>1
    <3>3. body \in BOOLEAN
      OBVIOUS
    <3> HIDE DEF body
    <3>4. f[t] = body
      BY <3>1, <3>2, <3>3
    <3> QED BY <3>4 DEF body
  <2>3. f = [t \in TaskId |-> f[t]]
    OBVIOUS
  <2> HIDE DEF base, more, kids, T, done, f
  <2> QED BY <2>2, <2>3, Zenon
<1>6. done = [t \in TaskId |->
              \/ S.tasks[t].status \in Complete
              \/ /\ S.tasks[t].status = "decomposed"
                 /\ Children(S, t) # {}
                 /\ \A c \in Children(S, t) : done[c]]
  BY <1>4, Zenon
<1> HIDE DEF done
<1>7. ASSUME NEW t \in TaskId
      PROVE  done[t] <=> \/ S.tasks[t].status \in Complete
                         \/ /\ S.tasks[t].status = "decomposed"
                            /\ Children(S, t) # {}
                            /\ \A c \in Children(S, t) : done[c]
  BY <1>6
<1>8. Tasks(S) \subseteq TaskId
  BY TasksType
<1>9. ASSUME NEW t \in Tasks(S)
      PROVE  done[t] <=> S.tasks[t].status \in Complete \/ t \in T
  BY <1>7, <1>8 DEF WithStatus
<1>10. ASSUME NEW t \in T
       PROVE  Children(S, t) # {} /\ \A c \in Children(S, t) :
                        c \in T \/ S.tasks[c].status \in Complete
  BY <1>7, <1>8, <1>9 DEF WithStatus, Children, Complete
<1>11. ASSUME NEW t \in WithStatus(S, {"decomposed"}) \ T
       PROVE  \E c \in Children(S, t) : c \notin T /\ S.tasks[c].status \notin Complete
  <2>1. t \in Tasks(S) /\ S.tasks[t].status = "decomposed" /\ ~done[t]
    BY DEF WithStatus
  <2>2. Children(S, t) # {}
    BY <2>1 DEF StateInv, TaskInv
  <2>3. PICK c \in Children(S, t) : ~done[c]
    BY <1>7, <1>8, <2>1, <2>2
  <2> QED BY <1>9, <2>3 DEF Children
<1>12. T \subseteq WithStatus(S, {"decomposed"})
  OBVIOUS
<1> HIDE DEF T
<1> QED BY <1>1, <1>10, <1>11, <1>12

LEMMA VerifiedAggregated ==
    ASSUME NEW S \in ProjectState, StateInv(S)
    PROVE  \E T : /\ AggregateVerifiedParents(S) =
                        [S EXCEPT !.tasks =
                           [t \in TaskId |-> IF t \in T
                                             THEN [@[t] EXCEPT !.status = "verified",
                                                               !.vstat = "other"]
                                             ELSE @[t]]]
                  /\ T \subseteq WithStatus(S, {"decomposed", "candidate_complete"})
                  /\ \A t \in T : Children(S, t) # {} /\ \A c \in Children(S, t) :
                        c \in T \/ S.tasks[c].status = "verified"
<1> DEFINE open == {t \in WithStatus(S, {"decomposed", "candidate_complete"}) :
                       ~HasContract(S, t)}
           verified[t \in TaskId] ==
              \/ S.tasks[t].status = "verified"
              \/ /\ t \in open
                 /\ Children(S, t) # {}
                 /\ \A c \in Children(S, t) : verified[c]
           T == {t \in open : verified[t]}
<1>1. AggregateVerifiedParents(S) =
        [S EXCEPT !.tasks =
           [t \in TaskId |-> IF t \in T
                             THEN [@[t] EXCEPT !.status = "verified",
                                               !.vstat = "other"]
                             ELSE @[t]]]
  BY Zenon DEF AggregateVerifiedParents
<1> DEFINE base == {t \in TaskId : S.tasks[t].status = "verified"}
           more == {t \in open : Children(S, t) # {}}
           kids == [t \in TaskId |-> Children(S, t)]
<1>2. /\ \A t \in TaskId : Children(S, t) \subseteq TaskId
      /\ Younger(kids)
  <2>1. ASSUME NEW t \in TaskId, NEW c \in Children(S, t)
        PROVE  c \in TaskId /\ t < c
    BY TasksType DEF Children, StateInv, TreeInv, Placed
  <2> QED BY <2>1 DEF Younger
<1>3. PICK D : Reached(D, base, more, kids)
  BY <1>2, YoungestFirst
<1> DEFINE f == [t \in TaskId |-> t \in D]
<1>4. f = [t \in TaskId |->
              \/ S.tasks[t].status = "verified"
              \/ /\ t \in open
                 /\ Children(S, t) # {}
                 /\ \A c \in Children(S, t) : f[c]]
  <2>1. ASSUME NEW t \in TaskId
        PROVE  t \in D <=>
              \/ S.tasks[t].status = "verified"
              \/ /\ t \in open
                 /\ Children(S, t) # {}
                 /\ \A c \in Children(S, t) : c \in D
    <3> HIDE DEF open
    <3> QED BY <1>3 DEF Reached
  <2>2. ASSUME NEW t \in TaskId
        PROVE  f[t] = (\/ S.tasks[t].status = "verified"
                       \/ /\ t \in open
                          /\ Children(S, t) # {}
                          /\ \A c \in Children(S, t) : f[c])
    <3>1. f[t] = (t \in D) /\ \A c \in Children(S, t) : f[c] = (c \in D)
      BY <1>2
    <3> HIDE DEF base, more, kids, T, verified, f, open
    <3> DEFINE body == \/ S.tasks[t].status = "verified"
                       \/ /\ t \in open
                          /\ Children(S, t) # {}
                          /\ \A c \in Children(S, t) : f[c]
    <3>2. body <=> t \in D
      BY <2>1, <3>1
    <3>3. body \in BOOLEAN
      OBVIOUS
    <3> HIDE DEF body
    <3>4. f[t] = body
      BY <3>1, <3>2, <3>3
    <3> QED BY <3>4 DEF body
  <2>3. f = [t \in TaskId |-> f[t]]
    OBVIOUS
  <2> HIDE DEF base, more, kids, T, verified, f, open
  <2> QED BY <2>2, <2>3, Zenon
<1> HIDE DEF open
<1>5. verified = [t \in TaskId |->
              \/ S.tasks[t].status = "verified"
              \/ /\ t \in open
                 /\ Children(S, t) # {}
                 /\ \A c \in Children(S, t) : verified[c]]
  BY <1>4, Zenon
<1> HIDE DEF verified
<1>6. ASSUME NEW t \in TaskId
      PROVE  verified[t] <=> \/ S.tasks[t].status = "verified"
                             \/ /\ t \in open
                                /\ Children(S, t) # {}
                                /\ \A c \in Children(S, t) : verified[c]
  BY <1>5
<1>7. open \subseteq WithStatus(S, {"decomposed", "candidate_complete"})
      /\ open \subseteq TaskId
  BY TasksType DEF open, WithStatus
<1>8. ASSUME NEW t \in T
      PROVE  Children(S, t) # {} /\ \A c \in Children(S, t) :
                        c \in T \/ S.tasks[c].status = "verified"
  <2>1. t \in TaskId /\ verified[t] /\ S.tasks[t].status # "verified"
    BY <1>7 DEF WithStatus
  <2> QED BY <1>2, <1>6, <2>1
<1>9. T \subseteq WithStatus(S, {"decomposed", "candidate_complete"})
  BY <1>7
<1> HIDE DEF T
<1> QED BY <1>1, <1>8, <1>9

LEMMA SetStatusFields ==
    ASSUME NEW S \in ProjectState, NEW T, NEW new \in TaskStatus
    PROVE  LET R == SetStatus(S, T, new)
           IN  /\ R \in ProjectState /\ SameTree(S, R) /\ Counted(S, R)
               /\ R.status = S.status /\ R.active = S.active
               /\ R.illegal = S.illegal /\ R.duplicateKeys = S.duplicateKeys
               /\ \A t \in TaskId \cap T :
                     R.tasks[t] = [S.tasks[t] EXCEPT !.status = new]
               /\ \A t \in TaskId \ T : R.tasks[t] = S.tasks[t]
<1> DEFINE R == SetStatus(S, T, new)
           f == [t \in TaskId |-> IF t \in T THEN [S.tasks[t] EXCEPT !.status = new]
                                             ELSE S.tasks[t]]
<1>1. R \in ProjectState
  BY SetStatusContinues DEF Continues
<1>2. R = [S EXCEPT !.tasks = f]
  BY DEF SetStatus
<1>3. /\ \A t \in TaskId \cap T : f[t] = [S.tasks[t] EXCEPT !.status = new]
      /\ \A t \in TaskId \ T : f[t] = S.tasks[t]
  OBVIOUS
<1>4. ASSUME NEW t \in TaskId
      PROVE  /\ f[t].parent = S.tasks[t].parent /\ f[t].depth = S.tasks[t].depth
             /\ f[t].deps = S.tasks[t].deps
  BY DEF ProjectState, TaskNode
<1> HIDE DEF f, R
<1>5. /\ R.tasks = f /\ R.active = S.active /\ R.illegal = S.illegal
      /\ R.count = S.count /\ R.status = S.status /\ R.duplicateKeys = S.duplicateKeys
      /\ R.sessions = S.sessions /\ R.pattempts = S.pattempts
  BY <1>2 DEF ProjectState
<1> QED BY <1>1, <1>3, <1>4, <1>5 DEF SameTree, Counted, R

\* Tasks that become VERIFIED.
MarkVerified(S, T) == [t \in TaskId |-> IF t \in T
                                        THEN [S.tasks[t] EXCEPT !.status = "verified",
                                                                !.vstat = "other"]
                                        ELSE S.tasks[t]]

LEMMA VerifiedFields ==
    ASSUME NEW S \in ProjectState, NEW T, NEW f, f = MarkVerified(S, T)
    PROVE  /\ f \in [TaskId -> TaskNode]
           /\ \A t \in TaskId : /\ f[t].parent = S.tasks[t].parent
                                /\ f[t].depth = S.tasks[t].depth
                                /\ f[t].deps = S.tasks[t].deps
                                /\ f[t].reopens = S.tasks[t].reopens
                                /\ f[t].blocker = S.tasks[t].blocker
           /\ \A t \in TaskId \cap T : f[t].status = "verified" /\ f[t].vstat = "other"
           /\ \A t \in TaskId \ T : f[t] = S.tasks[t]
<1>1. ASSUME NEW n \in TaskNode
      PROVE  LET m == [n EXCEPT !.status = "verified", !.vstat = "other"]
             IN  /\ m \in TaskNode /\ m.parent = n.parent /\ m.depth = n.depth
                 /\ m.deps = n.deps /\ m.reopens = n.reopens /\ m.blocker = n.blocker
                 /\ m.status = "verified" /\ m.vstat = "other"
  BY DEF TaskNode, TaskStatus, TaskVerdict
<1>2. \A t \in TaskId : S.tasks[t] \in TaskNode
  BY DEF ProjectState
<1>3. \A t \in TaskId : f[t] = IF t \in T
                               THEN [S.tasks[t] EXCEPT !.status = "verified",
                                                       !.vstat = "other"]
                               ELSE S.tasks[t]
  BY DEF MarkVerified
<1>4. f = [t \in TaskId |-> f[t]]
  BY DEF MarkVerified
<1>5. \A t \in TaskId : f[t] \in TaskNode
  BY <1>1, <1>2, <1>3
<1>6. f \in [TaskId -> TaskNode]
  BY <1>4, <1>5
<1>7. ASSUME NEW t \in TaskId
      PROVE  /\ f[t].parent = S.tasks[t].parent /\ f[t].depth = S.tasks[t].depth
             /\ f[t].deps = S.tasks[t].deps /\ f[t].reopens = S.tasks[t].reopens
             /\ f[t].blocker = S.tasks[t].blocker
             /\ t \in T => f[t].status = "verified" /\ f[t].vstat = "other"
             /\ t \notin T => f[t] = S.tasks[t]
  <2>1. CASE t \notin T
    BY <1>3, <2>1
  <2>2. CASE t \in T
    <3>1. f[t] = [S.tasks[t] EXCEPT !.status = "verified", !.vstat = "other"]
      BY <1>3, <2>2
    <3>2. S.tasks[t] \in TaskNode
      BY <1>2
    <3> QED BY <2>2, <3>1, <3>2 DEF TaskNode
  <2> QED BY <2>1, <2>2
<1> QED BY <1>6, <1>7

\* Both aggregations lift parents of complete children, and only parents: no
\* parent that is left waits for nothing.
LEMMA AggregateLifts ==
    ASSUME NEW S \in ProjectState, StateInv(S)
    PROVE  LET R == Aggregate(S)
           IN  /\ R \in ProjectState /\ StateInv(R) /\ Forward(S, R) /\ Counted(S, R)
               /\ R.status = S.status /\ R.active = S.active
               /\ R.duplicateKeys = S.duplicateKeys
               /\ WithStatus(R, {"in_progress"}) = WithStatus(S, {"in_progress"})
               /\ \A t \in WithStatus(R, {"decomposed"}) :
                     \E c \in Children(R, t) : R.tasks[c].status \notin Complete
<1> DEFINE Q == AggregateCandidateCompleteParents(S)
           R == AggregateVerifiedParents(Q)
<1>1. PICK T : /\ Q = SetStatus(S, T, "candidate_complete")
               /\ T \subseteq WithStatus(S, {"decomposed"})
               /\ \A t \in T : Children(S, t) # {} /\ \A c \in Children(S, t) :
                     c \in T \/ S.tasks[c].status \in Complete
               /\ \A t \in WithStatus(S, {"decomposed"}) \ T :
                     \E c \in Children(S, t) : c \notin T /\ S.tasks[c].status \notin Complete
  BY CandidatesAggregated
<1> HIDE DEF Q
<1>2. /\ Q \in ProjectState /\ SameTree(S, Q) /\ Counted(S, Q)
      /\ Q.status = S.status /\ Q.active = S.active
      /\ Q.illegal = S.illegal /\ Q.duplicateKeys = S.duplicateKeys
      /\ \A t \in TaskId \cap T : Q.tasks[t] = [S.tasks[t] EXCEPT !.status = "candidate_complete"]
      /\ \A t \in TaskId \ T : Q.tasks[t] = S.tasks[t]
  BY <1>1, SetStatusFields DEF TaskStatus
<1>3. /\ Tasks(S) \subseteq TaskId /\ T \subseteq Tasks(S) /\ T \subseteq TaskId
      /\ \A t \in T : S.tasks[t].status = "decomposed"
  BY <1>1, TasksType DEF WithStatus
<1>4. ASSUME NEW t \in T
      PROVE  /\ Q.tasks[t].status = "candidate_complete"
             /\ Q.tasks[t].reopens = S.tasks[t].reopens
             /\ Q.tasks[t].blocker = S.tasks[t].blocker
             /\ Q.tasks[t].vstat = S.tasks[t].vstat
  <2>1. S.tasks[t] \in TaskNode /\ Q.tasks[t] = [S.tasks[t] EXCEPT !.status = "candidate_complete"]
    BY <1>2, <1>3, TaskFields
  <2> QED BY <2>1 DEF TaskNode
<1>5. Lifted(S, Q, T)
  <2>1. \A t \in T : \A c \in Children(S, t) : Finished(Q.tasks[c])
    BY <1>1, <1>2, <1>3, <1>4 DEF Children, Finished, Complete
  <2>2. \A t \in Tasks(S) \ T : SameTask(S.tasks[t], Q.tasks[t])
    BY <1>2, <1>3 DEF SameTask
  <2> QED BY <1>2, <1>3, <1>4, <2>1, <2>2 DEF Lifted, Complete, StateInv, ProjectInv
<1>6. StateInv(Q) /\ Forward(S, Q)
  BY <1>2, <1>5, LiftedInv, ChangesForward, StateCounters DEF Counted
<1>7. PICK V : /\ R = [Q EXCEPT !.tasks =
                         [t \in TaskId |-> IF t \in V
                                           THEN [@[t] EXCEPT !.status = "verified",
                                                             !.vstat = "other"]
                                           ELSE @[t]]]
               /\ V \subseteq WithStatus(Q, {"decomposed", "candidate_complete"})
               /\ \A t \in V : Children(Q, t) # {} /\ \A c \in Children(Q, t) :
                     c \in V \/ Q.tasks[c].status = "verified"
  BY <1>2, <1>6, VerifiedAggregated
<1> DEFINE f == MarkVerified(Q, V)
<1>8. /\ f \in [TaskId -> TaskNode]
      /\ \A t \in TaskId : /\ f[t].parent = Q.tasks[t].parent
                           /\ f[t].depth = Q.tasks[t].depth
                           /\ f[t].deps = Q.tasks[t].deps
                           /\ f[t].reopens = Q.tasks[t].reopens
                           /\ f[t].blocker = Q.tasks[t].blocker
      /\ \A t \in TaskId \cap V : f[t].status = "verified" /\ f[t].vstat = "other"
      /\ \A t \in TaskId \ V : f[t] = Q.tasks[t]
  BY <1>2, VerifiedFields
<1>9. R = [Q EXCEPT !.tasks = f]
  BY <1>7, Zenon DEF MarkVerified
<1> HIDE DEF f, R
<1>10. /\ R \in ProjectState /\ R.tasks = f /\ R.active = Q.active /\ R.illegal = Q.illegal
       /\ R.count = Q.count /\ R.status = Q.status /\ R.duplicateKeys = Q.duplicateKeys
       /\ R.sessions = Q.sessions /\ R.pattempts = Q.pattempts
  BY <1>2, <1>8, <1>9 DEF ProjectState
<1>11. /\ Tasks(Q) = Tasks(S) /\ V \subseteq Tasks(Q) /\ V \subseteq TaskId
       /\ \A t \in V : Q.tasks[t].status \in {"decomposed", "candidate_complete"}
       /\ \A t : Children(Q, t) = Children(S, t)
  BY <1>2, <1>3, <1>7, TreeKept DEF WithStatus
<1>12. SameTree(Q, R)
  BY <1>8, <1>10 DEF SameTree
<1>13. Lifted(Q, R, V)
  <2>1. ASSUME NEW t \in V, NEW c \in Children(Q, t)
        PROVE  Finished(R.tasks[c])
    <3>1. c \in TaskId /\ (c \in V \/ Q.tasks[c].status = "verified")
      BY <1>3, <1>7, <1>11 DEF Children
    <3>2. R.tasks[c].status = "verified"
      BY <1>8, <1>10, <3>1
    <3> QED BY <3>2 DEF Finished, Complete
  <2>2. \A t \in Tasks(Q) \ V : SameTask(Q.tasks[t], R.tasks[t])
    BY <1>3, <1>8, <1>10, <1>11 DEF SameTask
  <2>3. \A t \in V : /\ R.tasks[t].status = "verified" /\ R.tasks[t].vstat = "other"
                     /\ R.tasks[t].reopens = Q.tasks[t].reopens
                     /\ R.tasks[t].blocker = Q.tasks[t].blocker
    BY <1>8, <1>10, <1>11
  <2> QED BY <1>6, <1>10, <1>11, <1>12, <2>1, <2>2, <2>3 DEF Lifted, Complete, StateInv, ProjectInv
<1>14. StateInv(R) /\ Forward(Q, R)
  BY <1>2, <1>6, <1>10, <1>13, LiftedInv, ChangesForward, StateCounters
<1>15. Forward(S, R)
  BY <1>2, <1>6, <1>10, <1>14, ForwardTransitive
<1>16. /\ Tasks(R) = Tasks(S) /\ \A t : Children(R, t) = Children(S, t)
  BY <1>2, <1>10, <1>11, <1>12, TreeKept
<1>17. ASSUME NEW t \in Tasks(S)
       PROVE  R.tasks[t].status = "in_progress" <=> S.tasks[t].status = "in_progress"
  <2>1. t \in TaskId
    BY <1>3
  <2>2. CASE t \in V
    BY <1>2, <1>3, <1>4, <1>8, <1>10, <1>11, <2>1, <2>2
  <2>3. CASE t \notin V
    BY <1>2, <1>3, <1>4, <1>8, <1>10, <2>1, <2>3
  <2> QED BY <2>2, <2>3
<1>18. ASSUME NEW t \in WithStatus(R, {"decomposed"})
       PROVE  \E c \in Children(R, t) : R.tasks[c].status \notin Complete
  <2>1. t \in Tasks(S) /\ t \in TaskId /\ R.tasks[t].status = "decomposed"
    BY <1>3, <1>16 DEF WithStatus
  <2>2. t \notin V /\ Q.tasks[t].status = "decomposed"
    BY <1>8, <1>10, <2>1
  <2>3. t \notin T /\ S.tasks[t].status = "decomposed"
    BY <1>2, <1>4, <2>1, <2>2
  <2>4. PICK c \in Children(S, t) : c \notin T /\ S.tasks[c].status \notin Complete
    BY <1>1, <2>1, <2>3 DEF WithStatus
  <2>5. c \in TaskId /\ Q.tasks[c].status \notin Complete
    BY <1>2, <1>3, <2>4 DEF Children
  <2>6. c \notin V
    <3>1. c \in V => Q.tasks[c].status = "decomposed" /\ Children(Q, c) # {}
      BY <1>7, <1>11, <2>5 DEF Complete
    <3>2. ASSUME c \in V
          PROVE  FALSE
      <4>1. c \in WithStatus(S, {"decomposed"}) \ T
        BY <1>2, <2>4, <2>5, <3>1, <3>2 DEF WithStatus, Children
      <4> DEFINE W == {u \in V : Q.tasks[u].status \notin Complete}
      <4>2. W \subseteq TaskId /\ W # {}
        BY <1>11, <2>5, <3>2
      <4>3. PICK u \in W : \A w \in W : w <= u
        <5> HIDE DEF W
        <5> QED BY <4>2, Largest
      <4>4. u \in V /\ u \in TaskId /\ Q.tasks[u].status = "decomposed" /\ u \in Tasks(S)
        BY <1>3, <1>11, <4>3 DEF Complete
      <4>5. u \in WithStatus(S, {"decomposed"}) \ T
        BY <1>2, <1>4, <4>4 DEF WithStatus
      <4>6. PICK w \in Children(S, u) : w \notin T /\ S.tasks[w].status \notin Complete
        BY <1>1, <4>5
      <4>7. w \in TaskId /\ u < w /\ Q.tasks[w].status \notin Complete
        BY <1>2, <1>3, <4>6 DEF Children, StateInv, TreeInv, Placed
      <4>8. w \in V
        BY <1>7, <1>11, <4>4, <4>6, <4>7 DEF Complete
      <4> QED BY <4>3, <4>4, <4>7, <4>8, TaskStateAssumption DEF TaskId
    <3> QED BY <3>2
  <2> QED BY <1>8, <1>10, <1>16, <2>4, <2>5, <2>6
<1>19. WithStatus(R, {"in_progress"}) = WithStatus(S, {"in_progress"})
  BY <1>16, <1>17 DEF WithStatus
<1>20. R = Aggregate(S)
  BY DEF R, Q, Aggregate
<1> QED BY <1>2, <1>10, <1>14, <1>15, <1>18, <1>19, <1>20 DEF Counted

-----------------------------------------------------------------------------
\* The selector.

Pickable(S) == {t \in WithStatus(S, {"pending"}) : DepsSatisfied(S, t)}

LEMMA UpdateReadyReleases ==
    ASSUME NEW S \in ProjectState, StateInv(S)
    PROVE  LET R == UpdateReadyTasks(S)
           IN  /\ R \in ProjectState /\ StateInv(R) /\ Forward(S, R) /\ Counted(S, R)
               /\ SameTree(S, R) /\ R.status = S.status
               /\ WithStatus(R, {"in_progress"}) = WithStatus(S, {"in_progress"})
               /\ WithStatus(R, {"ready"}) = WithStatus(S, {"ready"}) \cup Pickable(S)
<1> DEFINE T == Pickable(S)
           Q == SetStatus(S, T, "ready")
           a == IF Q.active \in T THEN None ELSE Q.active
           R == UpdateReadyTasks(S)
<1>1. R = [Q EXCEPT !.active = a]
  BY DEF UpdateReadyTasks, Pickable
<1>2. R \in ProjectState
  BY UpdateReadyTasksContinues DEF Continues
<1>3. /\ Q \in ProjectState /\ SameTree(S, Q) /\ Counted(S, Q)
      /\ Q.status = S.status /\ Q.illegal = S.illegal
      /\ \A t \in TaskId \cap T : Q.tasks[t] = [S.tasks[t] EXCEPT !.status = "ready"]
      /\ \A t \in TaskId \ T : Q.tasks[t] = S.tasks[t]
  BY SetStatusFields DEF TaskStatus
<1> HIDE DEF a, Q, R
<1>4. /\ R.tasks = Q.tasks /\ R.illegal = S.illegal /\ R.status = S.status
      /\ SameTree(S, R) /\ Counted(S, R)
  <2>1. /\ R.tasks = Q.tasks /\ R.illegal = Q.illegal /\ R.status = Q.status
        /\ R.count = Q.count /\ R.sessions = Q.sessions /\ R.pattempts = Q.pattempts
    BY <1>1, <1>3 DEF ProjectState
  <2> QED BY <1>3, <2>1 DEF SameTree, Counted
<1>5. /\ T \subseteq Tasks(S) /\ Tasks(S) \subseteq TaskId
      /\ \A t \in T : S.tasks[t].status = "pending" /\ DepsSatisfied(S, t)
  BY TasksType DEF Pickable, WithStatus
<1>6. Tasks(R) = Tasks(S)
  BY <1>2, <1>4, TreeKept
<1> HIDE DEF T
<1>7. \A t \in T : R.tasks[t] = [S.tasks[t] EXCEPT !.status = "ready"]
  BY <1>3, <1>4, <1>5
<1>8. \A t \in Tasks(S) \ T : R.tasks[t] = S.tasks[t]
  BY <1>3, <1>4, <1>5
<1>9. \A t \in T : R.tasks[t].status = "ready"
  <2>1. \A t \in T : S.tasks[t] \in TaskNode
    BY <1>5, TaskFields
  <2> QED BY <1>7, <2>1 DEF TaskNode
<1>10. Released(S, R, T)
  <2>1. \A t \in T : SameTask([S.tasks[t] EXCEPT !.status = "ready"], R.tasks[t])
    BY <1>7 DEF SameTask
  <2>2. \A t \in Tasks(S) \ T : SameTask(S.tasks[t], R.tasks[t])
    BY <1>8 DEF SameTask
  <2> QED BY <1>4, <1>5, <2>1, <2>2 DEF Released
<1>11. StateInv(R) /\ Forward(S, R)
  BY <1>2, <1>4, <1>10, ReleasedInv, ChangesForward, StateCounters DEF Counted
<1>12. WithStatus(R, {"in_progress"}) = WithStatus(S, {"in_progress"})
  BY <1>5, <1>6, <1>8, <1>9 DEF WithStatus
<1>13. WithStatus(R, {"ready"}) = WithStatus(S, {"ready"}) \cup T
  BY <1>5, <1>6, <1>8, <1>9 DEF WithStatus
<1> QED BY <1>2, <1>4, <1>11, <1>12, <1>13 DEF R, T

\* What the selector chooses is ready or in progress; it chooses nothing only if
\* there is nothing.
LEMMA NextTaskIsWork ==
    ASSUME NEW S \in ProjectState, StateInv(S)
    PROVE  IF NextTask(S) = None
           THEN /\ WithStatus(S, {"in_progress"}) = {}
                /\ WithStatus(S, {"ready"}) = {} /\ Pickable(S) = {}
           ELSE IF WithStatus(S, {"in_progress"}) = {}
                THEN NextTask(S) \in WithStatus(UpdateReadyTasks(S), {"ready"})
                ELSE NextTask(S) \in WithStatus(S, {"in_progress"})
<1> DEFINE running == WithStatus(S, {"in_progress"})
           ready   == WithStatus(UpdateReadyTasks(S), {"ready"})
<1>1. running \subseteq TaskId /\ ready \subseteq TaskId
  BY UpdateReadyReleases, TasksType DEF WithStatus
<1>2. None \notin TaskId
  BY TaskStateAssumption DEF TaskId, None
<1>3. CASE running # {}
  <2>1. NextTask(S) \in running
    BY <1>3 DEF NextTask
  <2>2. NextTask(S) # None
    BY <1>1, <1>2, <2>1
  <2> QED BY <1>3, <2>1, <2>2
<1>4. CASE running = {} /\ ready # {}
  <2>1. \E t \in ready : \A u \in ready : Before(S, t, u)
    BY <1>1, <1>4, First
  <2>2. NextTask(S) \in ready
    BY <1>4, <2>1 DEF NextTask
  <2>3. NextTask(S) # None
    BY <1>1, <1>2, <2>2
  <2> QED BY <1>4, <2>2, <2>3
<1>5. CASE running = {} /\ ready = {}
  <2>1. NextTask(S) = None
    BY <1>5 DEF NextTask
  <2>2. WithStatus(S, {"ready"}) = {} /\ Pickable(S) = {}
    BY <1>5, UpdateReadyReleases
  <2> QED BY <1>5, <2>1, <2>2
<1> QED BY <1>3, <1>4, <1>5

\* A change of the project and of the active task only.
LEMMA ProjectOnly ==
    ASSUME NEW S \in ProjectState, NEW R \in ProjectState, StateInv(S),
           R.tasks = S.tasks, R.count = S.count, R.illegal = S.illegal,
           S.sessions <= R.sessions, S.pattempts <= R.pattempts,
           StatusMayBe(S, R.status)
    PROVE  /\ StateInv(R) /\ Forward(S, R) /\ SameTree(S, R)
           /\ Tasks(R) = Tasks(S) /\ Leaves(R) = Leaves(S)
           /\ AllLeavesComplete(R) = AllLeavesComplete(S)
           /\ \A X : WithStatus(R, X) = WithStatus(S, X)
<1>1. Worked(S, R, {})
  BY DEF Worked, SameTree, SameTask, StateInv, ProjectInv
<1>2. SameTree(S, R)
  BY DEF SameTree
<1>3. Tasks(R) = Tasks(S) /\ Leaves(R) = Leaves(S)
  BY <1>2, TreeKept
<1>4. \A X : WithStatus(R, X) = WithStatus(S, X)
  BY <1>3 DEF WithStatus
<1> QED BY <1>1, <1>2, <1>3, <1>4, WorkedInv, ChangesForward DEF AllLeavesComplete

LEMMA SelectNextKeeps ==
    ASSUME NEW S \in ProjectState, StateInv(S)
    PROVE  LET R == SelectNext(S)
               t == NextTask(S)
           IN  /\ R \in ProjectState /\ StateInv(R) /\ Forward(S, R) /\ Counted(S, R)
               /\ WithStatus(R, {"in_progress"}) = WithStatus(S, {"in_progress"})
               /\ t # None => /\ R.active = t /\ t \in Tasks(R)
                              /\ R.tasks[t].status \in {"ready", "in_progress"}
               /\ t = None => WithStatus(R, {"in_progress"}) = {}
<1> DEFINE Q == IF WithStatus(S, {"in_progress"}) # {} THEN S ELSE UpdateReadyTasks(S)
           t == NextTask(S)
           s == StatusWithoutTask(Q)
           R == SelectNext(S)
<1>1. /\ Q \in ProjectState /\ StateInv(Q) /\ Forward(S, Q) /\ Counted(S, Q)
      /\ WithStatus(Q, {"in_progress"}) = WithStatus(S, {"in_progress"})
      /\ SameTree(S, Q)
  <2>1. CASE WithStatus(S, {"in_progress"}) # {}
    BY <2>1, ForwardReflexive DEF Counted, SameTree
  <2>2. CASE WithStatus(S, {"in_progress"}) = {}
    BY <2>2, UpdateReadyReleases
  <2> QED BY <2>1, <2>2
<1>2. /\ t # None => t \in WithStatus(Q, {"ready", "in_progress"})
      /\ t = None => WithStatus(S, {"in_progress"}) = {}
  <2>1. CASE WithStatus(S, {"in_progress"}) # {}
    BY <2>1, NextTaskIsWork DEF WithStatus
  <2>2. CASE WithStatus(S, {"in_progress"}) = {}
    BY <2>2, NextTaskIsWork DEF WithStatus
  <2> QED BY <2>1, <2>2
<1>3. R = IF t # None THEN [Q EXCEPT !.active = t] ELSE [Q EXCEPT !.status = s]
  BY DEF SelectNext
<1>4. R \in ProjectState
  BY SelectNextContinues DEF Continues
<1> HIDE DEF R, t, Q
<1>5. StatusMayBe(Q, s) /\ StatusMayBe(Q, Q.status)
  BY DEF StatusMayBe, StatusWithoutTask, Settled
<1> HIDE DEF s
<1>6. /\ R.tasks = Q.tasks /\ R.count = Q.count /\ R.illegal = Q.illegal
      /\ R.sessions = Q.sessions /\ R.pattempts = Q.pattempts
      /\ R.status \in {s, Q.status}
      /\ t # None => R.active = t
  <2>1. CASE t # None
    <3>1. R = [Q EXCEPT !.active = t]
      BY <1>3, <2>1
    <3> QED BY <1>1, <2>1, <3>1 DEF ProjectState
  <2>2. CASE t = None
    <3>1. R = [Q EXCEPT !.status = s]
      BY <1>3, <2>2
    <3> QED BY <1>1, <2>2, <3>1 DEF ProjectState
  <2> QED BY <2>1, <2>2
<1>7. /\ StateInv(R) /\ Forward(Q, R) /\ Tasks(R) = Tasks(Q)
      /\ \A X : WithStatus(R, X) = WithStatus(Q, X)
  <2>1. StatusMayBe(Q, R.status)
    BY <1>5, <1>6, Zenon
  <2>2. Q.sessions <= R.sessions /\ Q.pattempts <= R.pattempts
    BY <1>1, <1>4, <1>6, StateCounters
  <2> QED BY <1>1, <1>4, <1>6, <2>1, <2>2, ProjectOnly
<1>8. Forward(S, R) /\ Counted(S, R)
  BY <1>1, <1>4, <1>6, <1>7, ForwardTransitive DEF Counted
<1>9. t # None => t \in Tasks(R) /\ R.tasks[t].status \in {"ready", "in_progress"}
  BY <1>2, <1>6, <1>7 DEF WithStatus
<1>10. WithStatus(R, {"in_progress"}) = WithStatus(S, {"in_progress"})
  BY <1>1, <1>7
<1>11. t = None => WithStatus(R, {"in_progress"}) = {}
  BY <1>2, <1>10
<1>12. t # None => R.active = t
  BY <1>6
<1> QED BY <1>4, <1>7, <1>8, <1>9, <1>10, <1>11, <1>12, Zenon DEF R, t

-----------------------------------------------------------------------------
\* How the work on a task ends.

\* What a session leaves on its task before the status of the task changes.
Noticed(M, S, t) ==
    /\ OnlyTask(M, S, t) /\ t \in Tasks(M)
    /\ M.tasks[t].status = "in_progress" /\ S.tasks[t].status = "in_progress"
    /\ S.tasks[t].vstat = M.tasks[t].vstat /\ S.tasks[t].reopens = M.tasks[t].reopens
    /\ ~S.illegal /\ S.active = M.active

\* The task is not in progress any more, and the others are where they were.
Ended(M, R, t) ==
    /\ R \in ProjectState /\ StateInv(R) /\ Forward(M, R) /\ Counted(M, R)
    /\ R.status = M.status /\ t \in Tasks(R)
    /\ WithStatus(R, {"in_progress"}) = WithStatus(M, {"in_progress"}) \ {t}
    /\ R.active = IF M.active = t THEN None ELSE M.active

LEMMA NoticedFacts ==
    ASSUME NEW M \in ProjectState, StateInv(M), NEW S, NEW t, Noticed(M, S, t)
    PROVE  /\ S \in ProjectState /\ SameTree(M, S) /\ t \in TaskId
           /\ Tasks(S) = Tasks(M) /\ Noted(S.tasks[t]) /\ ~M.tasks[t].blocker
           /\ S.tasks[t].reopens <= MaxReopens /\ S.tasks[t].vstat # "infrastructure_error"
<1>1. S \in ProjectState /\ SameTree(M, S) /\ t \in TaskId /\ Tasks(S) = Tasks(M)
  BY TreeKept, TaskFields DEF Noticed, OnlyTask
<1>2. TaskInv(M, t) /\ Children(M, t) = {}
  BY OpenProject DEF Noticed, StateInv, Open
<1>3. Noted(S.tasks[t]) /\ ~M.tasks[t].blocker /\ S.tasks[t].vstat # "infrastructure_error"
  BY <1>2 DEF TaskInv, Noticed, Noted, Halted
<1>4. S.tasks[t].reopens \in Nat /\ S.tasks[t].status = "in_progress"
  BY <1>1, TaskFields DEF Noticed
<1>5. S.tasks[t].reopens <= MaxReopens
  BY <1>3, <1>4, OrchestratorAssumption DEF Noted
<1> QED BY <1>1, <1>3, <1>5

\* Only this task changes, and it is a leaf before and after.
LEMMA OneWorked ==
    ASSUME NEW M \in ProjectState, StateInv(M), NEW R, NEW t \in Tasks(M), OnlyTask(M, R, t),
           M.tasks[t].status \in Open, R.tasks[t].status \in Open \cup Complete,
           M.tasks[t].reopens <= R.tasks[t].reopens,
           R.tasks[t].blocker => Halted(R.tasks[t]), Noted(R.tasks[t]), ~R.illegal
    PROVE  /\ R \in ProjectState /\ StateInv(R) /\ Forward(M, R) /\ Counted(M, R)
           /\ R.status = M.status /\ Tasks(R) = Tasks(M)
           /\ R.tasks[t].status # "in_progress" =>
                 WithStatus(R, {"in_progress"}) = WithStatus(M, {"in_progress"}) \ {t}
           /\ R.tasks[t].status = "in_progress" =>
                 WithStatus(R, {"in_progress"}) = WithStatus(M, {"in_progress"}) \cup {t}
<1>1. Tasks(M) \subseteq TaskId
  BY TasksType
<1>2. Worked(M, R, {t})
  BY <1>1 DEF Worked, OnlyTask, SameTask, StatusMayBe
<1>3. R \in ProjectState /\ Counted(M, R) /\ R.status = M.status
  BY DEF OnlyTask, Counted
<1>4. StateInv(R) /\ Forward(M, R)
  BY <1>2, <1>3, WorkedInv, ChangesForward, StateCounters DEF Counted
<1>5. Tasks(R) = Tasks(M)
  BY <1>3, TreeKept DEF OnlyTask
<1>6. \A u \in Tasks(M) \ {t} : R.tasks[u] = M.tasks[u]
  BY <1>1 DEF OnlyTask
<1> QED BY <1>3, <1>4, <1>5, <1>6 DEF WithStatus

LEMMA LeafEnds ==
    ASSUME NEW M \in ProjectState, StateInv(M), NEW S, NEW t, Noticed(M, S, t),
           NEW new \in {"ready", "blocked", "failed", "candidate_complete"},
           new # "blocked" => ~S.tasks[t].blocker
    PROVE  LET R == Transition(S, t, new)
           IN  Ended(M, R, t) /\ R.tasks[t].status = new /\ OnlyTask(M, R, t)
<1> DEFINE R == Transition(S, t, new)
<1>1. /\ S \in ProjectState /\ t \in TaskId /\ Noted(S.tasks[t])
      /\ S.tasks[t].reopens <= MaxReopens /\ S.tasks[t].vstat # "infrastructure_error"
  BY NoticedFacts
<1>2. new \in TaskStatus /\ new \in LegalTransitions("in_progress")
  BY DEF TaskStatus, LegalTransitions
<1>3. /\ OnlyTask(S, R, t)
      /\ R.tasks[t].status = new /\ R.tasks[t].blocker = S.tasks[t].blocker
      /\ R.tasks[t].vstat = S.tasks[t].vstat
      /\ R.tasks[t].reopens = S.tasks[t].reopens
      /\ R.active = IF new = "in_progress" THEN t
                    ELSE IF S.active = t THEN None ELSE S.active
      /\ ~S.illegal /\ new \in LegalTransitions(S.tasks[t].status) => ~R.illegal
  BY <1>1, <1>2, TransitionOnly
<1> HIDE DEF R
<1>4. OnlyTask(M, R, t) /\ ~R.illegal
  BY <1>2, <1>3, OnlyTaskTransitive DEF Noticed
<1>5. R.tasks[t].blocker => Halted(R.tasks[t])
  BY <1>1, <1>3 DEF Halted
<1>6. /\ Noted(R.tasks[t]) /\ M.tasks[t].reopens <= R.tasks[t].reopens
      /\ t \in Tasks(M)
  <2>1. t \in Tasks(M) /\ M.tasks[t].reopens \in Nat
    BY TaskFields DEF Noticed
  <2> QED BY <1>1, <1>3, <2>1, OrchestratorAssumption DEF Noticed, Noted
<1>7. M.tasks[t].status \in Open /\ R.tasks[t].status \in Open \cup Complete
      /\ R.tasks[t].status # "in_progress"
  BY <1>3 DEF Noticed, Open, Complete
<1>8. /\ R \in ProjectState /\ StateInv(R) /\ Forward(M, R) /\ Counted(M, R)
      /\ R.status = M.status /\ Tasks(R) = Tasks(M)
      /\ WithStatus(R, {"in_progress"}) = WithStatus(M, {"in_progress"}) \ {t}
  BY <1>4, <1>5, <1>6, <1>7, OneWorked
<1>9. R.active = IF M.active = t THEN None ELSE M.active
  BY <1>3 DEF Noticed
<1> QED BY <1>3, <1>4, <1>6, <1>8, <1>9 DEF R, Ended

LEMMA AddTasksFields ==
    ASSUME NEW S \in ProjectState, NEW parent \in 0..MaxTasks, NEW plan \in Plan,
           Fits(S, plan)
    PROVE  LET R == AddTasks(S, parent, plan)
           IN  /\ R \in ProjectState /\ R.count = S.count + Len(plan)
               /\ \A t \in Tasks(S) : R.tasks[t] = S.tasks[t]
               /\ \A i \in 1..Len(plan) :
                     /\ S.count + i \in TaskId /\ S.count + i \notin Tasks(S)
                     /\ R.tasks[S.count + i] = Draft(S, parent, plan, i)
               /\ Counted(S, R) /\ R.status = S.status /\ R.active = S.active
               /\ R.illegal = S.illegal /\ R.duplicateKeys = S.duplicateKeys
<1> DEFINE n == S.count
           node(i) == Draft(S, parent, plan, i)
           f == [t \in TaskId |-> IF t \in (n + 1)..(n + Len(plan))
                                  THEN node(t - n) ELSE S.tasks[t]]
           R == AddTasks(S, parent, plan)
<1>1. R \in ProjectState
  BY PlanParts, AddTasksContinues DEF Continues
<1>2. R = [S EXCEPT !.count = n + Len(plan), !.tasks = f]
  BY Zenon DEF AddTasks, Draft
<1>3. n \in Nat /\ Len(plan) \in Nat /\ n + Len(plan) <= MaxTasks /\ MaxTasks \in Nat
  BY StateCounters, PlanParts, TaskStateAssumption DEF Fits
<1>4. ASSUME NEW t \in Tasks(S)
      PROVE  t \in TaskId /\ t \notin (n + 1)..(n + Len(plan))
  BY <1>3 DEF Tasks, TaskId
<1>5. ASSUME NEW i \in 1..Len(plan)
      PROVE  /\ n + i \in TaskId /\ n + i \notin Tasks(S) /\ (n + i) - n = i
             /\ n + i \in (n + 1)..(n + Len(plan))
  BY <1>3 DEF Tasks, TaskId
<1> HIDE DEF node, n
<1>6. /\ \A t \in Tasks(S) : f[t] = S.tasks[t]
      /\ \A i \in 1..Len(plan) : f[n + i] = node(i)
  BY <1>4, <1>5
<1> HIDE DEF f, R
<1>7. /\ R.count = n + Len(plan) /\ R.tasks = f /\ R.status = S.status
      /\ R.active = S.active /\ R.illegal = S.illegal
      /\ R.duplicateKeys = S.duplicateKeys
      /\ R.sessions = S.sessions /\ R.pattempts = S.pattempts
  BY <1>2 DEF ProjectState
<1> QED BY <1>1, <1>5, <1>6, <1>7 DEF R, n, node, Counted

LEMMA SplitEnds ==
    ASSUME NEW M \in ProjectState, StateInv(M), NEW S, NEW t, Noticed(M, S, t),
           NEW R \in Decompositions(S, t)
    PROVE  Ended(M, R, t) /\ R.tasks[t].status = "decomposed"
<1>1. PICK plan \in ChildPlans, clash \in BOOLEAN :
         /\ Fits(S, plan)
         /\ R = [Transition(AddTasks(S, t, plan), t, "decomposed") EXCEPT
                    !.duplicateKeys = @ \/ clash]
  BY DEF Decompositions
<1>2. plan \in Plan
  BY OrchestratorAssumption
<1>3. /\ S \in ProjectState /\ SameTree(M, S) /\ t \in TaskId /\ Tasks(S) = Tasks(M)
      /\ t \in Tasks(M) /\ t # None /\ t \in 0..MaxTasks
  <2>1. t \in Tasks(M) /\ t # None
    BY TaskFields DEF Noticed
  <2> QED BY <2>1, NoticedFacts, TaskStateAssumption DEF TaskId
<1> DEFINE A == AddTasks(S, t, plan)
           Q == Transition(A, t, "decomposed")
<1>4. /\ A \in ProjectState /\ A.count = S.count + Len(plan)
      /\ \A u \in Tasks(S) : A.tasks[u] = S.tasks[u]
      /\ \A i \in 1..Len(plan) :
            /\ S.count + i \in TaskId /\ S.count + i \notin Tasks(S)
            /\ A.tasks[S.count + i] = Draft(S, t, plan, i)
      /\ Counted(S, A) /\ A.status = S.status /\ A.active = S.active
      /\ A.illegal = S.illegal /\ A.duplicateKeys = S.duplicateKeys
  BY <1>1, <1>2, <1>3, AddTasksFields
<1> HIDE DEF A
<1>5. /\ OnlyTask(A, Q, t) /\ Q.tasks[t].status = "decomposed"
      /\ Q.tasks[t].vstat = A.tasks[t].vstat /\ Q.tasks[t].reopens = A.tasks[t].reopens
      /\ Q.active = (IF A.active = t THEN None ELSE A.active) /\ ~Q.illegal
  <2>1. A.tasks[t].status = "in_progress" /\ ~A.illegal
    BY <1>3, <1>4 DEF Noticed
  <2>2. "decomposed" \in TaskStatus /\ "decomposed" \in LegalTransitions("in_progress")
    BY DEF TaskStatus, LegalTransitions
  <2> QED BY <1>3, <1>4, <2>1, <2>2, TransitionOnly
<1> HIDE DEF Q
<1>6. /\ R \in ProjectState /\ R.tasks = Q.tasks /\ R.count = Q.count
      /\ R.active = Q.active /\ R.illegal = Q.illegal /\ R.status = Q.status
      /\ R.sessions = Q.sessions /\ R.pattempts = Q.pattempts
  <2>1. R = [Q EXCEPT !.duplicateKeys = Q.duplicateKeys \/ clash] /\ Q \in ProjectState
    BY <1>1, <1>5 DEF OnlyTask, Q, A
  <2> QED BY <2>1 DEF ProjectState
<1>7. \A u \in Tasks(S) : u \in TaskId /\ u # t => R.tasks[u] = S.tasks[u]
  BY <1>4, <1>5, <1>6 DEF OnlyTask
<1>8. Tasks(S) \subseteq TaskId
  BY <1>3, TasksType
<1>9. ASSUME NEW u \in Tasks(M)
      PROVE  /\ R.tasks[u].parent = M.tasks[u].parent
             /\ R.tasks[u].depth = M.tasks[u].depth
             /\ R.tasks[u].deps = M.tasks[u].deps
             /\ u # t => R.tasks[u] = M.tasks[u]
  <2>1. u \in TaskId /\ u \in Tasks(S)
    BY <1>3, <1>8
  <2>2. /\ R.tasks[u].parent = S.tasks[u].parent
        /\ R.tasks[u].depth = S.tasks[u].depth
        /\ R.tasks[u].deps = S.tasks[u].deps
    BY <1>4, <1>5, <1>6, <2>1 DEF OnlyTask, SameTree
  <2> QED BY <1>3, <1>7, <2>1, <2>2 DEF SameTree, Noticed, OnlyTask
<1>10. ASSUME NEW i \in 1..Len(plan)
       PROVE  R.tasks[M.count + i] = Draft(M, t, plan, i)
  <2>1. S.count + i # t /\ S.count = M.count /\ S.tasks[t].depth = M.tasks[t].depth
    BY <1>3, <1>4 DEF SameTree
  <2>2. R.tasks[S.count + i] = A.tasks[S.count + i]
    BY <1>4, <1>5, <1>6, <2>1 DEF OnlyTask
  <2>3. Draft(S, t, plan, i) = Draft(M, t, plan, i)
    BY <2>1, Zenon DEF Draft
  <2> QED BY <1>4, <2>1, <2>2, <2>3
<1>11. Grown(M, R, t, plan)
  <2>1. /\ R.count = M.count + Len(plan)
        /\ R.tasks[t].status = "decomposed"
        /\ R.tasks[t].vstat = M.tasks[t].vstat
        /\ R.tasks[t].reopens = M.tasks[t].reopens
        /\ ~R.illegal /\ R.status = M.status
    BY <1>3, <1>4, <1>5, <1>6 DEF Noticed, OnlyTask, SameTree
  <2>2. \A u \in Tasks(M) : u # t => SameTask(M.tasks[u], R.tasks[u])
    BY <1>9 DEF SameTask
  <2>3. t \in Tasks(M) /\ M.tasks[t].status = "in_progress"
    BY DEF Noticed
  <2> QED BY <1>9, <1>10, <2>1, <2>2, <2>3, Zenon DEF Grown
<1>12. StateInv(R)
  BY <1>2, <1>6, <1>11, GrownInv
<1>13. Counted(M, R) /\ R.status = M.status
       /\ R.active = IF M.active = t THEN None ELSE M.active
  BY <1>4, <1>5, <1>6 DEF Counted, OnlyTask, Noticed
<1>14. Forward(M, R)
  BY <1>2, <1>6, <1>11, <1>13, ChangesForward, StateCounters DEF Counted
<1>15. t \in Tasks(R) /\ R.tasks[t].status = "decomposed"
       /\ WithStatus(R, {"in_progress"}) = WithStatus(M, {"in_progress"}) \ {t}
  <2>1. R.count = M.count + Len(plan)
    BY <1>3, <1>4, <1>5, <1>6 DEF SameTree, OnlyTask
  <2>2. Tasks(M) \subseteq Tasks(R)
    BY <2>1, <1>2, PlanParts, StateCounters DEF Tasks
  <2>3. \A u \in Tasks(R) : u \in Tasks(M) \/ R.tasks[u].status = "pending"
    BY <1>2, <1>6, <1>11, GrownTasks
  <2>4. R.tasks[t].status = "decomposed"
    BY <1>5, <1>6
  <2> QED BY <1>3, <1>9, <2>2, <2>3, <2>4 DEF WithStatus
<1> QED BY <1>6, <1>12, <1>13, <1>14, <1>15 DEF Ended

\* Whatever remedy is chosen, the task is decomposed, blocked, or ready again.
LEMMA RecoveriesEnd ==
    ASSUME NEW M \in ProjectState, StateInv(M), NEW S, NEW t, Noticed(M, S, t),
           NEW force, NEW R \in Recoveries(S, t, force)
    PROVE  Ended(M, R, t) /\ R.tasks[t].status \in {"decomposed", "blocked", "ready"}
<1>1. CASE R \in Decompositions(S, t)
  BY <1>1, SplitEnds
<1>2. CASE R = Transition(S, t, "blocked")
  BY <1>2, LeafEnds
<1>3. CASE R = Transition([S EXCEPT !.tasks[t].blocker = FALSE], t, "ready")
  <2> DEFINE Q == [S EXCEPT !.tasks[t].blocker = FALSE]
  <2>1. S \in ProjectState /\ t \in TaskId
    BY NoticedFacts
  <2>2. /\ OnlyTask(S, Q, t) /\ Q.active = S.active /\ Q.illegal = S.illegal
        /\ Q.tasks[t] = [S.tasks[t] EXCEPT !.blocker = FALSE]
    BY <2>1, FieldOnly
  <2> HIDE DEF Q
  <2>3. S.tasks[t] \in TaskNode
    BY <2>1 DEF ProjectState
  <2>4. /\ Q.tasks[t].status = S.tasks[t].status /\ Q.tasks[t].vstat = S.tasks[t].vstat
        /\ Q.tasks[t].reopens = S.tasks[t].reopens /\ ~Q.tasks[t].blocker
    BY <2>2, <2>3 DEF TaskNode
  <2>5. Noticed(M, Q, t)
    <3>1. OnlyTask(M, S, t)
      BY DEF Noticed
    <3>2. OnlyTask(M, Q, t)
      BY <2>2, <3>1, OnlyTaskTransitive
    <3> QED BY <2>2, <2>4, <3>2 DEF Noticed
  <2>6. Ended(M, Transition(Q, t, "ready"), t)
        /\ Transition(Q, t, "ready").tasks[t].status = "ready"
    BY <2>4, <2>5, LeafEnds
  <2> QED BY <1>3, <2>6 DEF Q
<1> QED BY <1>1, <1>2, <1>3, Zenon DEF Recoveries

-----------------------------------------------------------------------------
\* Verdicts.

LEMMA ReopenOnly ==
    ASSUME NEW S \in ProjectState, NEW t \in TaskId,
           S.tasks[t].status = "verification_pending", ~S.illegal
    PROVE  LET R == ReopenTaskAfterVerification(S, t)
           IN  /\ OnlyTask(S, R, t) /\ ~R.illegal
               /\ R.tasks[t].reopens = S.tasks[t].reopens + 1
               /\ R.tasks[t].status = (IF R.tasks[t].reopens > MaxReopens
                                       THEN "blocked" ELSE "ready")
               /\ R.tasks[t].blocker = S.tasks[t].blocker
               /\ R.tasks[t].vstat = S.tasks[t].vstat
               /\ R.active = IF S.active = t THEN None ELSE S.active
<1> DEFINE n == S.tasks[t].reopens + 1
           P == [S EXCEPT !.tasks[t].reopens = n]
           Q == Transition(P, t, "reopened")
           new == IF Q.tasks[t].reopens > MaxReopens THEN "blocked" ELSE "ready"
           R == ReopenTaskAfterVerification(S, t)
<1>1. S.tasks[t] \in TaskNode /\ n \in Nat
  BY DEF ProjectState, TaskNode
<1>2. R = Transition(Q, t, new)
  BY Zenon DEF ReopenTaskAfterVerification
<1> HIDE DEF n
<1>3. /\ OnlyTask(S, P, t) /\ P.active = S.active /\ P.illegal = S.illegal
      /\ P.tasks[t] = [S.tasks[t] EXCEPT !.reopens = n]
  BY <1>1, FieldOnly
<1> HIDE DEF P
<1>4. /\ P.tasks[t].status = S.tasks[t].status /\ P.tasks[t].reopens = n
      /\ P.tasks[t].blocker = S.tasks[t].blocker /\ P.tasks[t].vstat = S.tasks[t].vstat
  BY <1>1, <1>3 DEF TaskNode
<1>5. /\ P \in ProjectState /\ ~P.illegal
      /\ "reopened" \in TaskStatus /\ "blocked" \in TaskStatus /\ "ready" \in TaskStatus
      /\ "reopened" \in LegalTransitions(P.tasks[t].status)
      /\ "blocked" \in LegalTransitions("reopened")
      /\ "ready" \in LegalTransitions("reopened")
  BY <1>3, <1>4 DEF OnlyTask, TaskStatus, LegalTransitions
<1>6. /\ OnlyTask(P, Q, t)
      /\ Q.tasks[t].status = "reopened" /\ Q.tasks[t].blocker = P.tasks[t].blocker
      /\ Q.tasks[t].vstat = P.tasks[t].vstat
      /\ Q.tasks[t].reopens = P.tasks[t].reopens
      /\ Q.active = (IF P.active = t THEN None ELSE P.active) /\ ~Q.illegal
  BY <1>5, TransitionOnly
<1> HIDE DEF Q
<1>7. Q \in ProjectState /\ new \in {"blocked", "ready"}
  BY <1>6 DEF OnlyTask
<1> HIDE DEF new, R
<1>8. /\ OnlyTask(Q, R, t)
      /\ R.tasks[t].status = new /\ R.tasks[t].blocker = Q.tasks[t].blocker
      /\ R.tasks[t].vstat = Q.tasks[t].vstat
      /\ R.tasks[t].reopens = Q.tasks[t].reopens
      /\ R.active = (IF Q.active = t THEN None ELSE Q.active) /\ ~R.illegal
  <2>1. new \in TaskStatus /\ new \in LegalTransitions(Q.tasks[t].status) /\ new # "in_progress"
    BY <1>5, <1>6, <1>7
  <2> QED BY <1>2, <1>6, <1>7, <2>1, TransitionOnly
<1>9. OnlyTask(S, R, t)
  BY <1>3, <1>6, <1>8, OnlyTaskTransitive
<1>10. R.tasks[t].reopens = n /\ R.tasks[t].status = (IF R.tasks[t].reopens > MaxReopens
                                                     THEN "blocked" ELSE "ready")
  BY <1>4, <1>6, <1>8 DEF new
<1>11. R.active = IF S.active = t THEN None ELSE S.active
  BY <1>3, <1>6, <1>8, TaskStateAssumption DEF None, TaskId
<1> QED BY <1>4, <1>6, <1>8, <1>9, <1>10, <1>11 DEF R, n

\* The verdict on the claim of a task.  M is the state without that claim.
LEMMA VerifyTaskKeeps ==
    ASSUME NEW M \in ProjectState, StateInv(M), NEW S, NEW t \in Tasks(M),
           OnlyTask(M, S, t), M.tasks[t].status \in Open, ~S.illegal,
           S.tasks[t].status \in {"candidate_complete", "blocked"},
           S.tasks[t].reopens = M.tasks[t].reopens, M.tasks[t].reopens <= MaxReopens,
           ~S.tasks[t].blocker, NEW v \in Verdict
    PROVE  LET R == VerifyTaskCandidate(S, t, v)
           IN  /\ R \in ProjectState /\ StateInv(R) /\ Forward(M, R) /\ Counted(M, R)
               /\ R.status = M.status /\ R.duplicateKeys = M.duplicateKeys
               /\ Tasks(R) = Tasks(M)
               /\ R.tasks[t].status \in {"verified", "ready", "blocked"}
               /\ WithStatus(R, {"in_progress"}) = WithStatus(M, {"in_progress"}) \ {t}
               /\ R.active = IF S.active = t THEN None ELSE S.active
<1> DEFINE P == Transition(S, t, "verification_pending")
           Q == [P EXCEPT !.tasks[t].vstat = VerdictNote(v)]
           R == VerifyTaskCandidate(S, t, v)
<1>1. S \in ProjectState /\ t \in TaskId /\ t \in Nat /\ t # None
      /\ S.tasks[t].reopens \in Nat /\ S.tasks[t].reopens <= MaxReopens
  BY TaskFields DEF OnlyTask
<1>2. R = CASE v = "verified" -> Transition(Q, t, "verified")
            [] v \in {"partial", "reopened"} -> ReopenTaskAfterVerification(Q, t)
            [] OTHER -> Transition(Q, t, "blocked")
  BY Zenon DEF VerifyTaskCandidate
<1>3. /\ OnlyTask(S, P, t)
      /\ P.tasks[t].status = "verification_pending" /\ P.tasks[t].blocker = S.tasks[t].blocker
      /\ P.tasks[t].reopens = S.tasks[t].reopens
      /\ P.active = (IF S.active = t THEN None ELSE S.active) /\ ~P.illegal
  <2>1. "verification_pending" \in TaskStatus
        /\ "verification_pending" \in LegalTransitions(S.tasks[t].status)
    BY DEF TaskStatus, LegalTransitions
  <2> QED BY <1>1, <2>1, TransitionOnly
<1> HIDE DEF P
<1>4. /\ OnlyTask(P, Q, t) /\ Q.active = P.active /\ Q.illegal = P.illegal
      /\ Q.tasks[t] = [P.tasks[t] EXCEPT !.vstat = VerdictNote(v)]
      /\ P.tasks[t] \in TaskNode
  <2>1. VerdictNote(v) \in TaskVerdict
    BY DEF VerdictNote, TaskVerdict
  <2>2. P \in ProjectState /\ P.tasks[t] \in TaskNode
    BY <1>1, <1>3 DEF OnlyTask, ProjectState
  <2> QED BY <1>1, <2>1, <2>2, FieldOnly
<1> HIDE DEF Q, R
<1>5. /\ Q.tasks[t].status = "verification_pending" /\ ~Q.tasks[t].blocker
      /\ Q.tasks[t].reopens = S.tasks[t].reopens
      /\ Q.tasks[t].vstat = VerdictNote(v)
      /\ Q.active = (IF S.active = t THEN None ELSE S.active) /\ ~Q.illegal
      /\ Q \in ProjectState /\ OnlyTask(M, Q, t)
  <2>1. /\ Q.tasks[t].status = P.tasks[t].status /\ Q.tasks[t].blocker = P.tasks[t].blocker
        /\ Q.tasks[t].reopens = P.tasks[t].reopens
        /\ Q.tasks[t].vstat = VerdictNote(v)
    BY <1>4 DEF TaskNode
  <2>2. OnlyTask(M, Q, t) /\ Q \in ProjectState
    BY <1>3, <1>4, OnlyTaskTransitive DEF OnlyTask
  <2> QED BY <1>3, <1>4, <2>1, <2>2
<1>6. ASSUME NEW new \in {"verified", "blocked"}, R = Transition(Q, t, new)
      PROVE  /\ OnlyTask(Q, R, t)
             /\ R.tasks[t].status = new /\ ~R.tasks[t].blocker
             /\ R.tasks[t].vstat = VerdictNote(v)
             /\ R.tasks[t].reopens = S.tasks[t].reopens
             /\ R.active = (IF S.active = t THEN None ELSE S.active) /\ ~R.illegal
  <2>1. new \in TaskStatus /\ new \in LegalTransitions("verification_pending")
        /\ new # "in_progress"
    BY DEF TaskStatus, LegalTransitions
  <2> QED BY <1>1, <1>5, <1>6, <2>1, TransitionOnly
<1> DEFINE Fine == /\ OnlyTask(Q, R, t) /\ ~R.illegal /\ ~R.tasks[t].blocker
                   /\ R.tasks[t].status \in {"verified", "ready", "blocked"}
                   /\ S.tasks[t].reopens <= R.tasks[t].reopens /\ Noted(R.tasks[t])
                   /\ R.active = IF S.active = t THEN None ELSE S.active
<1>10. Fine
  <2>1. CASE v = "verified"
    <3>1. R = Transition(Q, t, "verified") /\ VerdictNote(v) = "other"
      BY <1>2, <2>1 DEF VerdictNote
    <3> QED BY <1>1, <1>6, <3>1, OrchestratorAssumption DEF Fine, Noted
  <2>2. CASE v \in {"partial", "reopened"}
    <3>1. R = ReopenTaskAfterVerification(Q, t) /\ VerdictNote(v) = "other"
      BY <1>2, <2>2 DEF VerdictNote
    <3>2. /\ OnlyTask(Q, R, t) /\ ~R.illegal
          /\ R.tasks[t].reopens = Q.tasks[t].reopens + 1
          /\ R.tasks[t].status = (IF R.tasks[t].reopens > MaxReopens
                                  THEN "blocked" ELSE "ready")
          /\ R.tasks[t].blocker = Q.tasks[t].blocker
          /\ R.tasks[t].vstat = Q.tasks[t].vstat
          /\ R.active = IF Q.active = t THEN None ELSE Q.active
      BY <1>1, <1>5, <3>1, ReopenOnly
    <3>3. R.active = IF S.active = t THEN None ELSE S.active
      BY <1>1, <1>5, <3>2
    <3>4. Noted(R.tasks[t]) /\ S.tasks[t].reopens <= R.tasks[t].reopens
      BY <1>1, <1>5, <3>1, <3>2, OrchestratorAssumption DEF Noted
    <3> QED BY <1>5, <3>2, <3>3, <3>4 DEF Fine
  <2>3. CASE v \notin {"verified", "partial", "reopened"}
    <3>1. R = Transition(Q, t, "blocked")
      BY <1>2, <2>3
    <3> QED BY <1>1, <1>6, <3>1, OrchestratorAssumption DEF Fine, Noted
  <2> QED BY <2>1, <2>2, <2>3
<1>11. OnlyTask(M, R, t)
  BY <1>5, <1>10, OnlyTaskTransitive
<1>12. /\ R \in ProjectState /\ StateInv(R) /\ Forward(M, R) /\ Counted(M, R)
       /\ R.status = M.status /\ Tasks(R) = Tasks(M)
       /\ WithStatus(R, {"in_progress"}) = WithStatus(M, {"in_progress"}) \ {t}
  BY <1>10, <1>11, OneWorked DEF Open, Complete
<1>13. R.duplicateKeys = M.duplicateKeys
  BY <1>11 DEF OnlyTask
<1> QED BY <1>10, <1>12, <1>13 DEF R

\* A project verdict reopens the last task: of the leaves, which are all complete,
\* it is the youngest.
LEMMA ReopenProjectKeeps ==
    ASSUME NEW S \in ProjectState, StateInv(S), AllLeavesComplete(S)
    PROVE  LET R == ReopenRelevantProjectTask(S)
           IN  /\ OnlyTask(S, R, S.count) /\ ~R.illegal
               /\ R.tasks[S.count].reopens = S.tasks[S.count].reopens + 1
               /\ R.tasks[S.count].status = (IF R.tasks[S.count].reopens > MaxReopens
                                             THEN "blocked" ELSE "ready")
               /\ R.tasks[S.count].blocker = S.tasks[S.count].blocker
               /\ R.tasks[S.count].vstat = S.tasks[S.count].vstat
               /\ S.count \in Leaves(S) /\ S.count \in TaskId
<1> DEFINE T == Leaves(S) \cap WithStatus(S, Complete)
           t == CHOOSE u \in T : \A w \in T : w <= u
           P == SetStatus(S, {t}, "candidate_complete")
           Q == Transition(P, t, "verification_pending")
           R == ReopenRelevantProjectTask(S)
<1>1. S.count # 0
  <2>1. S.count = 0 => Leaves(S) = {}
    BY DEF Leaves, Tasks
  <2> QED BY <2>1 DEF AllLeavesComplete
<1>2. S.count \in Leaves(S) /\ S.count \in T /\ S.count \in TaskId /\ S.count \in Nat
  <2>1. S.count \in Leaves(S) /\ S.count \in Tasks(S)
    BY <1>1, LastIsLeaf
  <2> QED BY <2>1, TaskFields DEF AllLeavesComplete
<1>3. \A w \in T : w \in Nat /\ w <= S.count
  BY TaskFields DEF Leaves
<1>4. T # {} /\ t = S.count
  <2> HIDE DEF T
  <2>1. \A u \in T : (\A w \in T : w <= u) => u = S.count
    BY <1>2, <1>3
  <2>2. \E u \in T : \A w \in T : w <= u
    BY <1>2, <1>3
  <2> QED BY <1>2, <2>1, <2>2
<1>5. R = ReopenTaskAfterVerification(Q, t)
  BY <1>4 DEF ReopenRelevantProjectTask
<1> HIDE DEF T, t, R
<1>6. /\ OnlyTask(S, P, t) /\ P.illegal = S.illegal /\ P \in ProjectState
      /\ P.tasks[t] = [S.tasks[t] EXCEPT !.status = "candidate_complete"]
  <2>1. t \in TaskId /\ "candidate_complete" \in TaskStatus
    BY <1>2, <1>4 DEF TaskStatus
  <2>2. /\ P \in ProjectState /\ SameTree(S, P) /\ Counted(S, P)
        /\ P.status = S.status /\ P.illegal = S.illegal
        /\ P.duplicateKeys = S.duplicateKeys
        /\ \A u \in TaskId \cap {t} :
              P.tasks[u] = [S.tasks[u] EXCEPT !.status = "candidate_complete"]
        /\ \A u \in TaskId \ {t} : P.tasks[u] = S.tasks[u]
    BY <2>1, SetStatusFields
  <2> HIDE DEF P
  <2> QED BY <2>1, <2>2 DEF OnlyTask, Counted
<1> HIDE DEF P
<1>7. /\ P.tasks[t].status = "candidate_complete" /\ ~P.illegal
      /\ P.tasks[t].blocker = S.tasks[t].blocker /\ P.tasks[t].vstat = S.tasks[t].vstat
      /\ P.tasks[t].reopens = S.tasks[t].reopens
  <2>1. S.tasks[t] \in TaskNode
    BY <1>2, <1>4 DEF ProjectState
  <2> QED BY <1>6, <2>1 DEF TaskNode, StateInv, ProjectInv
<1>8. /\ OnlyTask(P, Q, t) /\ ~Q.illegal /\ Q.tasks[t].status = "verification_pending"
      /\ Q.tasks[t].blocker = P.tasks[t].blocker /\ Q.tasks[t].vstat = P.tasks[t].vstat
      /\ Q.tasks[t].reopens = P.tasks[t].reopens
  <2>1. /\ "verification_pending" \in TaskStatus /\ t \in TaskId /\ P \in ProjectState
        /\ "verification_pending" \in LegalTransitions(P.tasks[t].status)
    BY <1>2, <1>4, <1>6, <1>7 DEF TaskStatus, LegalTransitions
  <2> QED BY <1>7, <2>1, TransitionOnly
<1> HIDE DEF Q
<1>9. Q \in ProjectState /\ t \in TaskId
  BY <1>2, <1>4, <1>8 DEF OnlyTask
<1>10. /\ OnlyTask(Q, R, t) /\ ~R.illegal
       /\ R.tasks[t].reopens = Q.tasks[t].reopens + 1
       /\ R.tasks[t].status = (IF R.tasks[t].reopens > MaxReopens
                               THEN "blocked" ELSE "ready")
       /\ R.tasks[t].blocker = Q.tasks[t].blocker /\ R.tasks[t].vstat = Q.tasks[t].vstat
  BY <1>5, <1>8, <1>9, ReopenOnly
<1>11. OnlyTask(S, R, t)
  BY <1>6, <1>8, <1>10, OnlyTaskTransitive
<1> QED BY <1>2, <1>4, <1>7, <1>8, <1>10, <1>11 DEF R

\* A verified project: each leaf candidate becomes VERIFIED.
LEMMA MarkVerifiedKeeps ==
    ASSUME NEW S \in ProjectState, StateInv(S), AllLeavesComplete(S)
    PROVE  LET R == SetProject(MarkProjectTasksVerified(S), "verified")
           IN  /\ R \in ProjectState /\ StateInv(R) /\ Forward(S, R)
               /\ SameTree(S, R) /\ R.status = "verified"
               /\ WithStatus(R, {"in_progress"}) = {}
<1> DEFINE T == Leaves(S) \cap WithStatus(S, {"candidate_complete"})
           a == IF S.active \in T THEN None ELSE S.active
           f == MarkVerified(S, T)
           R == SetProject(MarkProjectTasksVerified(S), "verified")
<1>1. R = [S EXCEPT !.active = a, !.tasks = f, !.status = "verified"]
  <2>1. MarkProjectTasksVerified(S) = [S EXCEPT !.active = a, !.tasks = f]
    BY Zenon DEF MarkProjectTasksVerified, MarkVerified
  <2> HIDE DEF a, f
  <2> QED BY <2>1 DEF SetProject, ProjectState
<1>2. a \in 0..MaxTasks
  BY TaskStateAssumption DEF ProjectState, None
<1>3. T \subseteq Leaves(S) /\ T \subseteq Tasks(S)
      /\ \A t \in T : t \in TaskId /\ S.tasks[t].status = "candidate_complete"
                      /\ Children(S, t) = {}
  BY TasksType DEF Leaves, WithStatus
<1>4. \A t \in Leaves(S) \ T : S.tasks[t].status = "verified"
  BY DEF AllLeavesComplete, WithStatus, Complete
<1> HIDE DEF T
<1>5. /\ f \in [TaskId -> TaskNode]
      /\ \A t \in TaskId : /\ f[t].parent = S.tasks[t].parent
                           /\ f[t].depth = S.tasks[t].depth
                           /\ f[t].deps = S.tasks[t].deps
                           /\ f[t].reopens = S.tasks[t].reopens
                           /\ f[t].blocker = S.tasks[t].blocker
      /\ \A t \in TaskId \cap T : f[t].status = "verified" /\ f[t].vstat = "other"
      /\ \A t \in TaskId \ T : f[t] = S.tasks[t]
  BY VerifiedFields
<1> HIDE DEF a, f, R
<1>6. /\ R \in ProjectState /\ R.status = "verified" /\ R.tasks = f /\ R.count = S.count
      /\ R.illegal = S.illegal /\ R.sessions = S.sessions /\ R.pattempts = S.pattempts
  BY <1>1, <1>2, <1>5 DEF ProjectState, ProjectStatus
<1>7. SameTree(S, R)
  BY <1>5, <1>6 DEF SameTree
<1>8. Tasks(R) = Tasks(S) /\ Leaves(R) = Leaves(S)
  BY <1>6, <1>7, TreeKept
<1>9. Leaves(R) \subseteq WithStatus(R, {"verified"})
  <2>1. ASSUME NEW t \in Leaves(S)
        PROVE  R.tasks[t].status = "verified" /\ t \in Tasks(S)
    <3>1. t \in TaskId /\ t \in Tasks(S)
      BY TasksType DEF Leaves
    <3> QED BY <1>4, <1>5, <1>6, <3>1
  <2> QED BY <1>8, <2>1 DEF WithStatus
<1>10. Lifted(S, R, T)
  <2>1. \A t \in Tasks(S) \ T : SameTask(S.tasks[t], R.tasks[t])
    BY <1>5, <1>6, TasksType DEF SameTask
  <2>2. ~R.illegal /\ Leaves(R) # {}
    BY <1>6, <1>8 DEF StateInv, ProjectInv, AllLeavesComplete
  <2>3. ASSUME NEW t \in T
        PROVE  /\ R.tasks[t].status \in Complete
               /\ R.tasks[t].reopens = S.tasks[t].reopens
               /\ R.tasks[t].blocker = S.tasks[t].blocker
               /\ R.tasks[t].vstat \in {S.tasks[t].vstat, "other"}
    BY <1>3, <1>5, <1>6 DEF Complete
  <2> QED BY <1>3, <1>6, <1>7, <1>9, <2>1, <2>2, <2>3 DEF Lifted
<1>11. StateInv(R) /\ Forward(S, R)
  <2>1. S.sessions <= R.sessions /\ S.pattempts <= R.pattempts
    BY <1>6, StateCounters
  <2> QED BY <1>6, <1>10, <2>1, LiftedInv, ChangesForward
<1>12. WithStatus(R, {"in_progress"}) = {}
  <2>1. AllLeavesComplete(R)
    BY <1>6, <1>11 DEF StateInv, ProjectInv, Settled
  <2>2. ASSUME NEW t \in WithStatus(R, {"in_progress"})
        PROVE  FALSE
    <3>1. t \in Tasks(R) /\ R.tasks[t].status \in Open
      BY DEF WithStatus, Open
    <3> QED BY <1>6, <1>11, <2>1, <3>1, OpenProject
  <2> QED BY <2>2
<1> QED BY <1>6, <1>7, <1>11, <1>12 DEF R

\* The verdict on a project.  It stays ACTIVE only if a task was reopened.
LEMMA ProjectVerdictKeeps ==
    ASSUME NEW S \in ProjectState, StateInv(S), AllLeavesComplete(S), NEW v \in Verdict
    PROVE  LET R == ApplyProjectVerdict(S, v)
           IN  /\ R \in ProjectState /\ StateInv(R) /\ Forward(S, R)
               /\ WithStatus(R, {"in_progress"}) = {}
               /\ R.status # "candidate_complete"
               /\ R.status = "active" => ~AllLeavesComplete(R)
<1> DEFINE C == [S EXCEPT !.pattempts = @ + 1]
           R == ApplyProjectVerdict(S, v)
<1>1. /\ C \in ProjectState /\ C.tasks = S.tasks /\ C.count = S.count
      /\ C.illegal = S.illegal /\ C.status = S.status
      /\ S.sessions <= C.sessions /\ S.pattempts <= C.pattempts
  BY DEF ProjectState
<1>2. R = CASE v = "verified" -> SetProject(MarkProjectTasksVerified(C), "verified")
            [] v = "partial" -> SetProject(ReopenRelevantProjectTask(C), "partially_verified")
            [] v = "reopened" -> SetProject(ReopenRelevantProjectTask(C), "active")
            [] v = "infrastructure_error" -> SetProject(C, "verification_pending")
            [] OTHER -> SetProject(C, "verification_inconclusive")
  BY Zenon DEF ApplyProjectVerdict
<1> HIDE DEF C, R
<1>3. StateInv(C) /\ Forward(S, C) /\ AllLeavesComplete(C)
  <2>1. StatusMayBe(S, C.status)
    BY <1>1 DEF StatusMayBe
  <2> QED BY <1>1, <2>1, ProjectOnly
<1>4. WithStatus(C, {"in_progress"}) = {}
  <2>1. ASSUME NEW t \in WithStatus(C, {"in_progress"})
        PROVE  FALSE
    <3>1. t \in Tasks(C) /\ C.tasks[t].status \in Open
      BY DEF WithStatus, Open
    <3> QED BY <1>1, <1>3, <3>1, OpenProject
  <2> QED BY <2>1
<1>5. CASE v = "verified"
  <2>1. R = SetProject(MarkProjectTasksVerified(C), "verified")
    BY <1>2, <1>5
  <2>2. /\ R \in ProjectState /\ StateInv(R) /\ Forward(C, R)
        /\ WithStatus(R, {"in_progress"}) = {} /\ R.status = "verified"
    BY <1>1, <1>3, <2>1, MarkVerifiedKeeps
  <2> QED BY <1>1, <1>3, <2>2, ForwardTransitive DEF R
<1>6. ASSUME NEW status \in {"partially_verified", "active"},
             R = SetProject(ReopenRelevantProjectTask(C), status)
      PROVE  /\ R \in ProjectState /\ StateInv(R) /\ Forward(C, R)
             /\ WithStatus(R, {"in_progress"}) = {} /\ ~AllLeavesComplete(R)
             /\ R.status = status
  <2> DEFINE Q == ReopenRelevantProjectTask(C)
             last == C.count
  <2>1. /\ OnlyTask(C, Q, last) /\ ~Q.illegal
        /\ Q.tasks[last].reopens = C.tasks[last].reopens + 1
        /\ Q.tasks[last].status = (IF Q.tasks[last].reopens > MaxReopens
                                   THEN "blocked" ELSE "ready")
        /\ Q.tasks[last].blocker = C.tasks[last].blocker
        /\ Q.tasks[last].vstat = C.tasks[last].vstat
        /\ last \in Leaves(C) /\ last \in TaskId
    BY <1>1, <1>3, ReopenProjectKeeps
  <2> HIDE DEF Q
  <2>2. /\ R \in ProjectState /\ R.tasks = Q.tasks /\ R.count = Q.count
        /\ R.illegal = Q.illegal /\ R.status = status
        /\ R.sessions = Q.sessions /\ R.pattempts = Q.pattempts
    <3>1. R = SetProject(Q, status) /\ Q \in ProjectState
      BY <1>6, <2>1 DEF Q, OnlyTask
    <3> QED BY <3>1 DEF SetProject, ProjectState, ProjectStatus
  <2>3. SameTree(C, R) /\ \A t \in TaskId \ {last} : R.tasks[t] = C.tasks[t]
    BY <2>1, <2>2 DEF OnlyTask, SameTree
  <2>4. Tasks(R) = Tasks(C) /\ Leaves(R) = Leaves(C)
    BY <1>1, <2>2, <2>3, TreeKept
  <2>5. Reopened(C, R)
    <3>1. \A t \in Tasks(C) \ {last} : SameTask(C.tasks[t], R.tasks[t])
      BY <1>1, <2>3, TasksType DEF SameTask
    <3>2. R.status \notin Settled
      BY <1>6, <2>2 DEF Settled
    <3> QED BY <1>3, <2>1, <2>2, <2>3, <3>1, <3>2 DEF Reopened
  <2>6. StateInv(R) /\ Forward(C, R)
    <3>1. C.sessions <= R.sessions /\ C.pattempts <= R.pattempts
      BY <1>1, <2>1, <2>2, StateCounters DEF OnlyTask
    <3> QED BY <1>1, <1>3, <2>2, <2>5, <3>1, ReopenedInv, ChangesForward
  <2>7. last \in Leaves(R) /\ R.tasks[last].status \notin Complete
        /\ R.tasks[last].status # "in_progress"
    BY <2>1, <2>2, <2>4 DEF Complete
  <2>8. ~AllLeavesComplete(R)
    BY <2>7 DEF AllLeavesComplete, WithStatus
  <2>9. \A t \in Tasks(C) : t \in TaskId
    BY <1>1, TasksType
  <2>10. WithStatus(R, {"in_progress"}) = {}
    BY <1>4, <2>3, <2>4, <2>7, <2>9 DEF WithStatus
  <2> QED BY <2>2, <2>6, <2>8, <2>10
<1>7. CASE v \in {"partial", "reopened"}
  <2>1. PICK status \in {"partially_verified", "active"} :
           R = SetProject(ReopenRelevantProjectTask(C), status)
    BY <1>2, <1>7
  <2>2. /\ R \in ProjectState /\ StateInv(R) /\ Forward(C, R)
        /\ WithStatus(R, {"in_progress"}) = {} /\ ~AllLeavesComplete(R)
        /\ R.status = status
    BY <1>6, <2>1
  <2> QED BY <1>1, <1>3, <2>2, ForwardTransitive DEF R
<1>8. CASE v \notin {"verified", "partial", "reopened"}
  <2>1. PICK status \in {"verification_pending", "verification_inconclusive"} :
           R = SetProject(C, status)
    BY <1>2, <1>8
  <2>2. /\ R \in ProjectState /\ R.tasks = C.tasks /\ R.count = C.count
        /\ R.illegal = C.illegal /\ R.status = status
        /\ C.sessions <= R.sessions /\ C.pattempts <= R.pattempts
    BY <1>1, <2>1, StateCounters DEF SetProject, ProjectState, ProjectStatus
  <2>3. StatusMayBe(C, R.status)
    BY <1>3, <2>2 DEF StatusMayBe
  <2>4. /\ StateInv(R) /\ Forward(C, R)
        /\ WithStatus(R, {"in_progress"}) = WithStatus(C, {"in_progress"})
    BY <1>1, <1>3, <2>2, <2>3, ProjectOnly
  <2> QED BY <1>1, <1>3, <1>4, <2>2, <2>4, ForwardTransitive DEF R
<1> QED BY <1>5, <1>7, <1>8

-----------------------------------------------------------------------------
\* Commands: a new project, its first plan, and what resume makes of failures.

LEMMA NewProjectKeeps == NewProject \in ProjectState /\ StateInv(NewProject)
<1>1. NewProject \in ProjectState
  BY TaskStateAssumption
     DEF NewProject, NoTask, ProjectState, ProjectStatus, TaskNode, TaskStatus, TaskVerdict, None
<1>2. NewProject.count = 0 /\ NewProject.status = "active" /\ ~NewProject.illegal
  BY DEF NewProject
<1>3. Tasks(NewProject) = {}
  BY <1>2 DEF Tasks
<1>4. Ordered(NewProject)
  <2>1. [t \in TaskId |-> 0] \in [TaskId -> Nat]
    OBVIOUS
  <2> QED BY <1>3, <2>1 DEF Ordered
<1>5. ProjectInv(NewProject)
  BY <1>2 DEF ProjectInv, Settled
<1> QED BY <1>1, <1>3, <1>4, <1>5 DEF StateInv, TreeInv

\* The first tasks of a project.
LEMMA InitialPlanKeeps ==
    ASSUME NEW S \in ProjectState, StateInv(S), S.count = 0, NEW plan \in Plan,
           NEW b \in BOOLEAN
    PROVE  LET R == [AddTasks(S, None, plan) EXCEPT !.contractId = @ \/ b]
           IN  /\ R \in ProjectState /\ StateInv(R) /\ Forward(S, R) /\ Counted(S, R)
               /\ WithStatus(R, {"in_progress"}) = {}
               /\ R.status = S.status
<1> DEFINE Q == AddTasks(S, None, plan)
           R == [Q EXCEPT !.contractId = @ \/ b]
<1>1. /\ Q \in ProjectState /\ Q.count = S.count + Len(plan)
      /\ \A i \in 1..Len(plan) : Q.tasks[S.count + i] = Draft(S, None, plan, i)
      /\ Counted(S, Q) /\ Q.status = S.status /\ Q.active = S.active
      /\ Q.illegal = S.illegal /\ Q.duplicateKeys = S.duplicateKeys
  <2>1. Fits(S, plan) /\ None \in 0..MaxTasks
    <3>1. Len(plan) \in TaskId
      BY PlanParts
    <3> QED BY <3>1, TaskStateAssumption DEF Fits, TaskId, None
  <2> QED BY <2>1, AddTasksFields
<1> HIDE DEF Q
<1>2. /\ R \in ProjectState /\ R.tasks = Q.tasks /\ R.count = Q.count
      /\ R.status = Q.status /\ R.illegal = Q.illegal
      /\ R.sessions = Q.sessions /\ R.pattempts = Q.pattempts
  BY <1>1 DEF ProjectState
<1> HIDE DEF R
<1>3. Tasks(S) = {}
  BY DEF Tasks
<1>4. Grown(S, R, None, plan)
  BY <1>1, <1>2, <1>3 DEF Grown, StateInv, ProjectInv
<1>5. StateInv(R) /\ Forward(S, R) /\ Counted(S, R)
  <2>1. S.sessions <= R.sessions /\ S.pattempts <= R.pattempts /\ Counted(S, R)
    BY <1>1, <1>2, StateCounters DEF Counted
  <2>2. Forward(S, R)
    BY <1>2, <1>4, <2>1, ChangesForward
  <2> QED BY <1>2, <1>4, <2>1, <2>2, GrownInv
<1>6. WithStatus(R, {"in_progress"}) = {}
  <2>1. ASSUME NEW t \in Tasks(R)
        PROVE  R.tasks[t].status = "pending"
    BY <1>2, <1>3, <1>4, GrownTasks
  <2> QED BY <2>1 DEF WithStatus
<1> QED BY <1>1, <1>2, <1>5, <1>6 DEF R, Q

\* Failed leaves are worked on again.
Activated(S, t) == [S EXCEPT !.status = "active", !.active = t]

LEMMA ReactivateKeeps ==
    ASSUME NEW S \in ProjectState, StateInv(S), NEW force, NEW retry, NEW a \in 0..MaxTasks,
           force \cup retry \subseteq WithStatus(S, {"failed"}), force \cap retry = {},
           NEW P, P = SetStatus(S, force, "in_progress"),
           NEW Q, Q = SetStatus(P, retry, "ready"),
           NEW R, R = Activated(Q, a)
    PROVE  /\ R \in ProjectState /\ StateInv(R) /\ Forward(S, R) /\ Counted(S, R)
           /\ WithStatus(R, {"in_progress"}) = WithStatus(S, {"in_progress"}) \cup force
           /\ R.active = a /\ R.status = "active"
<1>1. /\ P \in ProjectState /\ SameTree(S, P) /\ Counted(S, P) /\ P.illegal = S.illegal
      /\ \A t \in TaskId \cap force : P.tasks[t] = [S.tasks[t] EXCEPT !.status = "in_progress"]
      /\ \A t \in TaskId \ force : P.tasks[t] = S.tasks[t]
  <2>1. "in_progress" \in TaskStatus
    BY DEF TaskStatus
  <2> QED BY <2>1, SetStatusFields
<1>2. /\ Q \in ProjectState /\ SameTree(P, Q) /\ Counted(P, Q) /\ Q.illegal = P.illegal
      /\ \A t \in TaskId \cap retry : Q.tasks[t] = [P.tasks[t] EXCEPT !.status = "ready"]
      /\ \A t \in TaskId \ retry : Q.tasks[t] = P.tasks[t]
  <2>1. "ready" \in TaskStatus
    BY DEF TaskStatus
  <2> QED BY <1>1, <2>1, SetStatusFields
<1>3. /\ R \in ProjectState /\ R.tasks = Q.tasks /\ R.count = Q.count /\ R.status = "active"
      /\ R.illegal = S.illegal /\ Counted(S, R) /\ R.active = a
  BY <1>1, <1>2 DEF ProjectState, ProjectStatus, Counted, Activated
<1>4. SameTree(S, R)
  BY <1>1, <1>2, <1>3 DEF SameTree
<1>5. Tasks(R) = Tasks(S)
  BY <1>3, <1>4, TreeKept
<1>6. ASSUME NEW t \in force \cup retry
      PROVE  /\ t \in Tasks(S) /\ t \in TaskId /\ S.tasks[t].status = "failed"
             /\ S.tasks[t] \in TaskNode /\ S.tasks[t].reopens \in Nat
             /\ R.tasks[t].status = (IF t \in force THEN "in_progress" ELSE "ready")
             /\ R.tasks[t].blocker = S.tasks[t].blocker
             /\ R.tasks[t].vstat = S.tasks[t].vstat
             /\ R.tasks[t].reopens = S.tasks[t].reopens
  <2>1. t \in Tasks(S) /\ S.tasks[t].status = "failed"
    BY DEF WithStatus
  <2>2. t \in TaskId /\ S.tasks[t] \in TaskNode /\ S.tasks[t].reopens \in Nat
    BY <2>1, TaskFields
  <2>3. CASE t \in force
    <3>1. R.tasks[t] = [S.tasks[t] EXCEPT !.status = "in_progress"]
      BY <1>1, <1>2, <1>3, <2>2, <2>3
    <3> QED BY <2>1, <2>2, <2>3, <3>1 DEF TaskNode
  <2>4. CASE t \notin force
    <3>1. R.tasks[t] = [S.tasks[t] EXCEPT !.status = "ready"]
      BY <1>1, <1>2, <1>3, <2>2, <2>4
    <3> QED BY <2>1, <2>2, <2>4, <3>1 DEF TaskNode
  <2> QED BY <2>3, <2>4
<1>7. \A t \in Tasks(S) \ (force \cup retry) : R.tasks[t] = S.tasks[t]
  BY <1>1, <1>2, <1>3, TasksType
<1>8. Worked(S, R, force \cup retry)
  <2>1. ASSUME NEW t \in force \cup retry
        PROVE  /\ S.tasks[t].status \in Open
               /\ R.tasks[t].status \in Open \cup Complete
               /\ S.tasks[t].reopens <= R.tasks[t].reopens
               /\ ~R.tasks[t].blocker /\ Noted(R.tasks[t])
    <3>1. TaskInv(S, t)
      BY <1>6 DEF StateInv
    <3>2. Children(S, t) = {}
      BY <1>6, <3>1 DEF TaskInv, Complete
    <3>3. ~R.tasks[t].blocker
      BY <1>6, <3>1, <3>2 DEF TaskInv, Halted
    <3>4. Noted(R.tasks[t])
      BY <1>6, <3>1 DEF TaskInv, Noted
    <3>5. S.tasks[t].reopens <= R.tasks[t].reopens
      BY <1>6
    <3> QED BY <1>6, <3>3, <3>4, <3>5 DEF Open
  <2>2. \A t \in Tasks(S) \ (force \cup retry) : SameTask(S.tasks[t], R.tasks[t])
    BY <1>7 DEF SameTask
  <2>3. ~R.illegal /\ StatusMayBe(S, R.status)
    BY <1>3 DEF StateInv, ProjectInv, StatusMayBe, Settled
  <2> QED BY <1>4, <1>6, <2>1, <2>2, <2>3 DEF Worked
<1>9. StateInv(R) /\ Forward(S, R)
  <2>1. S.sessions <= R.sessions /\ S.pattempts <= R.pattempts
    BY <1>3, StateCounters DEF Counted
  <2> QED BY <1>3, <1>8, <2>1, WorkedInv, ChangesForward
<1>10. WithStatus(R, {"in_progress"}) = WithStatus(S, {"in_progress"}) \cup force
  <2>1. ASSUME NEW t \in Tasks(S)
        PROVE  R.tasks[t].status = "in_progress" <=>
                  S.tasks[t].status = "in_progress" \/ t \in force
    BY <1>6, <1>7
  <2>2. force \subseteq Tasks(S)
    BY <1>6
  <2> QED BY <1>5, <2>1, <2>2 DEF WithStatus
<1> QED BY <1>3, <1>9, <1>10

-----------------------------------------------------------------------------
\* What the rest of the code relies on.

\* A saved state is refused only for a repeated key, or for its active task.
LEMMA TreeIsValid ==
    ASSUME NEW S \in ProjectState, StateInv(S), ~S.duplicateKeys,
           S.active # None => S.active \in Tasks(S),
           \A t \in WithStatus(S, {"in_progress"}) : S.active = t
    PROVE  GraphValid(S)
<1>1. ASSUME NEW t \in Tasks(S)
      PROVE  /\ S.tasks[t].deps \subseteq Tasks(S)
             /\ S.tasks[t].parent = None => S.tasks[t].depth = 0
             /\ S.tasks[t].parent # None =>
                   /\ S.tasks[t].parent \in Tasks(S)
                   /\ S.tasks[t].depth = S.tasks[S.tasks[t].parent].depth + 1
  <2>1. Placed(S, t) /\ t \in Nat /\ t <= S.count /\ S.tasks[t].parent \in 0..MaxTasks
    BY TaskFields DEF StateInv, TreeInv
  <2>2. S.tasks[t].parent # None => S.tasks[t].parent \in Tasks(S)
    BY <2>1, TaskStateAssumption DEF Placed, Tasks, ProjectState, None
  <2> QED BY <2>1, <2>2 DEF Placed
<1> QED BY <1>1 DEF GraphValid

\* The invariants that the runs check, of one state.
LEMMA StateConsequences ==
    ASSUME NEW S \in ProjectState, StateInv(S)
    PROVE  /\ ~S.illegal
           /\ \A t \in WithStatus(S, {"ready", "in_progress"}) :
                 DepsSatisfied(S, t) /\ ~S.tasks[t].blocker
           /\ \A t \in Tasks(S) :
                 /\ S.tasks[t].reopens <= MaxReopens + 1
                 /\ S.tasks[t].reopens > MaxReopens => S.tasks[t].status = "blocked"
                 /\ Children(S, t) = {} => S.tasks[t].status # "decomposed"
                 /\ Children(S, t) # {} =>
                       /\ S.tasks[t].status \in {"decomposed"} \cup Complete
                       /\ S.tasks[t].status \in Complete =>
                             \A c \in Children(S, t) :
                                S.tasks[c].status \in Complete \/ S.tasks[c].reopens > 0
<1>1. \A t \in Tasks(S) : TaskInv(S, t)
  BY DEF StateInv
<1>2. ASSUME NEW t \in WithStatus(S, {"ready", "in_progress"})
      PROVE  DepsSatisfied(S, t) /\ ~S.tasks[t].blocker
  <2>1. t \in Tasks(S) /\ S.tasks[t].status \in {"ready", "in_progress"}
    BY DEF WithStatus
  <2>2. Children(S, t) = {}
    BY <1>1, <2>1 DEF TaskInv, Complete
  <2> QED BY <1>1, <2>1, <2>2 DEF TaskInv, Open, Halted
<1>3. ~S.illegal
  BY DEF StateInv, ProjectInv
<1> QED BY <1>1, <1>2, <1>3 DEF TaskInv, Noted, Finished

\* The session of a task: it was ready, or goes on.
Sitting(S, t) == IF S.tasks[t].status = "ready" THEN Transition(S, t, "in_progress") ELSE S

SessionCounted(S, t, n, m) == [S EXCEPT !.sessions = n, !.tasks[t].sessions = m]

LEMMA SessionKeeps ==
    ASSUME NEW M \in ProjectState, StateInv(M), NEW t \in Tasks(M),
           M.tasks[t].status \in {"ready", "in_progress"}, M.active = t,
           NEW n \in Nat, M.sessions <= n, NEW m \in Nat
    PROVE  LET R == SessionCounted(Sitting(M, t), t, n, m)
           IN  /\ R \in ProjectState /\ StateInv(R) /\ Forward(M, R)
               /\ R.tasks[t].status = "in_progress" /\ R.active = t
               /\ Tasks(R) = Tasks(M) /\ R.status = M.status
               /\ R.duplicateKeys = M.duplicateKeys
               /\ WithStatus(R, {"in_progress"}) = WithStatus(M, {"in_progress"}) \cup {t}
<1> DEFINE S == Sitting(M, t)
           R == SessionCounted(S, t, n, m)
           node == [S.tasks[t] EXCEPT !.sessions = m]
           f == [S.tasks EXCEPT ![t] = node]
<1>1. /\ t \in TaskId /\ t \in Nat /\ M.tasks[t] \in TaskNode /\ M.tasks[t].reopens \in Nat
      /\ n \in Nat /\ M.sessions <= n
  BY TaskFields
<1>2. TaskInv(M, t) /\ ~M.illegal /\ ~M.tasks[t].blocker
  <2>1. t \in WithStatus(M, {"ready", "in_progress"})
    BY DEF WithStatus
  <2> QED BY <2>1, StateConsequences DEF StateInv
<1>3. /\ S \in ProjectState /\ SameTree(M, S) /\ S.status = M.status
      /\ S.duplicateKeys = M.duplicateKeys /\ S.pattempts = M.pattempts
      /\ \A u \in TaskId \ {t} : S.tasks[u] = M.tasks[u]
      /\ S.tasks[t].status = "in_progress" /\ ~S.tasks[t].blocker
      /\ S.tasks[t].vstat = M.tasks[t].vstat /\ S.tasks[t].reopens = M.tasks[t].reopens
      /\ ~S.illegal /\ S.active = t
  <2>1. CASE M.tasks[t].status = "ready"
    <3>1. S = Transition(M, t, "in_progress")
      BY <2>1 DEF Sitting
    <3>2. "in_progress" \in TaskStatus /\ "in_progress" \in LegalTransitions("ready")
      BY DEF TaskStatus, LegalTransitions
    <3> HIDE DEF S
    <3>3. /\ OnlyTask(M, S, t) /\ S.tasks[t].status = "in_progress"
          /\ S.tasks[t].blocker = M.tasks[t].blocker
          /\ S.tasks[t].vstat = M.tasks[t].vstat
          /\ S.tasks[t].reopens = M.tasks[t].reopens
          /\ S.active = t /\ ~S.illegal
      BY <1>1, <1>2, <2>1, <3>1, <3>2, TransitionOnly
    <3> QED BY <1>2, <3>3 DEF OnlyTask
  <2>2. CASE M.tasks[t].status = "in_progress"
    <3>1. S = M
      BY <2>2 DEF Sitting
    <3> QED BY <1>2, <2>2, <3>1 DEF SameTree
  <2> QED BY <2>1, <2>2
<1>4. R = [S EXCEPT !.sessions = n, !.tasks = f]
  BY Zenon DEF SessionCounted
<1> HIDE DEF S
<1>5. /\ node \in TaskNode /\ node.status = S.tasks[t].status
      /\ node.blocker = S.tasks[t].blocker /\ node.vstat = S.tasks[t].vstat
      /\ node.reopens = S.tasks[t].reopens /\ node.parent = S.tasks[t].parent
      /\ node.depth = S.tasks[t].depth /\ node.deps = S.tasks[t].deps
  <2>1. S.tasks[t] \in TaskNode
    BY <1>1, <1>3 DEF ProjectState
  <2> QED BY <2>1 DEF TaskNode
<1> HIDE DEF node
<1>6. /\ f \in [TaskId -> TaskNode] /\ f[t] = node
      /\ \A u \in TaskId \ {t} : f[u] = S.tasks[u]
  BY <1>1, <1>3, <1>5 DEF ProjectState
<1> HIDE DEF f, R
<1>7. /\ R \in ProjectState /\ R.tasks = f /\ R.count = S.count /\ R.status = S.status
      /\ R.illegal = S.illegal /\ R.active = S.active /\ R.duplicateKeys = S.duplicateKeys
      /\ R.sessions = n /\ R.pattempts = S.pattempts
  BY <1>1, <1>3, <1>4, <1>6 DEF ProjectState
<1>8. SameTree(M, R) /\ \A u \in TaskId \ {t} : R.tasks[u] = M.tasks[u]
  BY <1>3, <1>5, <1>6, <1>7 DEF SameTree
<1>9. Tasks(R) = Tasks(M)
  BY <1>7, <1>8, TreeKept
<1>10. Worked(M, R, {t})
  <2>1. Noted(R.tasks[t])
    BY <1>2, <1>3, <1>5, <1>6, <1>7 DEF TaskInv, Noted
  <2>2. \A u \in Tasks(M) \ {t} : SameTask(M.tasks[u], R.tasks[u])
    BY <1>8, TasksType DEF SameTask
  <2>3. StatusMayBe(M, R.status)
    BY <1>3, <1>7 DEF StatusMayBe
  <2>4. R.tasks[t].reopens = M.tasks[t].reopens /\ ~R.tasks[t].blocker
        /\ R.tasks[t].status = "in_progress" /\ ~R.illegal
    BY <1>3, <1>5, <1>6, <1>7
  <2>5. M.tasks[t].reopens <= R.tasks[t].reopens
    BY <1>1, <2>4
  <2> QED BY <1>8, <2>1, <2>2, <2>3, <2>4, <2>5 DEF Worked, Open
<1>11. StateInv(R) /\ Forward(M, R)
  <2>1. M.sessions <= R.sessions /\ M.pattempts <= R.pattempts
    BY <1>1, <1>3, <1>7, StateCounters
  <2> QED BY <1>7, <1>10, <2>1, WorkedInv, ChangesForward
<1>12. R.tasks[t].status = "in_progress"
  BY <1>3, <1>5, <1>6, <1>7
<1>13. WithStatus(R, {"in_progress"}) = WithStatus(M, {"in_progress"}) \cup {t}
  <2>1. \A u \in Tasks(M) \ {t} : R.tasks[u] = M.tasks[u]
    BY <1>8, TasksType
  <2> QED BY <1>9, <1>12, <2>1 DEF WithStatus
<1> QED BY <1>3, <1>7, <1>9, <1>11, <1>12, <1>13 DEF R, S

\* The project gets another status, or a contract.
LEMMA SetProjectKeeps ==
    ASSUME NEW S \in ProjectState, StateInv(S), NEW status \in ProjectStatus,
           StatusMayBe(S, status)
    PROVE  LET R == SetProject(S, status)
           IN  /\ R \in ProjectState /\ StateInv(R) /\ Forward(S, R) /\ Counted(S, R)
               /\ R.status = status /\ R.duplicateKeys = S.duplicateKeys
               /\ R.active = S.active /\ R.tasks = S.tasks
               /\ Tasks(R) = Tasks(S) /\ Leaves(R) = Leaves(S)
               /\ AllLeavesComplete(R) = AllLeavesComplete(S)
               /\ \A X : WithStatus(R, X) = WithStatus(S, X)
<1> DEFINE R == SetProject(S, status)
<1>1. /\ R \in ProjectState /\ R.tasks = S.tasks /\ R.count = S.count
      /\ R.illegal = S.illegal /\ R.status = status /\ R.active = S.active
      /\ R.duplicateKeys = S.duplicateKeys
      /\ R.sessions = S.sessions /\ R.pattempts = S.pattempts
  BY DEF SetProject, ProjectState
<1> HIDE DEF R
<1>2. S.sessions <= R.sessions /\ S.pattempts <= R.pattempts
  BY <1>1, StateCounters
<1>3. /\ StateInv(R) /\ Forward(S, R) /\ Tasks(R) = Tasks(S) /\ Leaves(R) = Leaves(S)
      /\ AllLeavesComplete(R) = AllLeavesComplete(S)
      /\ \A X : WithStatus(R, X) = WithStatus(S, X)
  BY <1>1, <1>2, ProjectOnly
<1> QED BY <1>1, <1>3 DEF R, Counted

LEMMA ContractIdKeeps ==
    ASSUME NEW S \in ProjectState, StateInv(S), NEW b \in BOOLEAN
    PROVE  LET R == [S EXCEPT !.contractId = b]
           IN  /\ R \in ProjectState /\ StateInv(R) /\ Forward(S, R) /\ Counted(S, R)
               /\ R.status = S.status /\ R.active = S.active
               /\ AllLeavesComplete(R) = AllLeavesComplete(S)
               /\ \A X : WithStatus(R, X) = WithStatus(S, X)
<1> DEFINE R == [S EXCEPT !.contractId = b]
<1>1. /\ R \in ProjectState /\ R.tasks = S.tasks /\ R.count = S.count
      /\ R.illegal = S.illegal /\ R.status = S.status /\ R.active = S.active
      /\ R.sessions = S.sessions /\ R.pattempts = S.pattempts
  BY DEF ProjectState
<1> HIDE DEF R
<1>2. S.sessions <= R.sessions /\ S.pattempts <= R.pattempts /\ StatusMayBe(S, R.status)
  BY <1>1, StateCounters DEF StatusMayBe
<1>3. /\ StateInv(R) /\ Forward(S, R)
      /\ AllLeavesComplete(R) = AllLeavesComplete(S)
      /\ \A X : WithStatus(R, X) = WithStatus(S, X)
  BY <1>1, <1>2, ProjectOnly
<1> QED BY <1>1, <1>3 DEF R, Counted

\* A task whose sessions are used up.
LEMMA FailedKeeps ==
    ASSUME NEW S \in ProjectState, StateInv(S), NEW t \in Tasks(S),
           S.tasks[t].status \in {"ready", "in_progress"}
    PROVE  LET R == SetProject(Transition(S, t, "failed"), "failed")
           IN  /\ R \in ProjectState /\ StateInv(R) /\ Forward(S, R) /\ Counted(S, R)
               /\ R.status = "failed"
               /\ WithStatus(R, {"in_progress"}) = WithStatus(S, {"in_progress"}) \ {t}
<1> DEFINE Q == Transition(S, t, "failed")
           R == SetProject(Q, "failed")
<1>1. /\ t \in TaskId /\ ~S.illegal /\ ~S.tasks[t].blocker /\ TaskInv(S, t)
      /\ S.tasks[t].reopens \in Nat
  <2>1. t \in WithStatus(S, {"ready", "in_progress"})
    BY DEF WithStatus
  <2> QED BY <2>1, TaskFields, StateConsequences DEF StateInv
<1>2. /\ OnlyTask(S, Q, t) /\ Q.tasks[t].status = "failed"
      /\ Q.tasks[t].blocker = S.tasks[t].blocker
      /\ Q.tasks[t].vstat = S.tasks[t].vstat
      /\ Q.tasks[t].reopens = S.tasks[t].reopens
      /\ ~Q.illegal
  <2>1. "failed" \in TaskStatus /\ "failed" \in LegalTransitions(S.tasks[t].status)
    BY DEF TaskStatus, LegalTransitions
  <2> QED BY <1>1, <2>1, TransitionOnly
<1> HIDE DEF Q
<1>3. /\ Q \in ProjectState /\ StateInv(Q) /\ Forward(S, Q) /\ Counted(S, Q)
      /\ WithStatus(Q, {"in_progress"}) = WithStatus(S, {"in_progress"}) \ {t}
  <2>1. Noted(Q.tasks[t]) /\ S.tasks[t].reopens <= Q.tasks[t].reopens
    BY <1>1, <1>2 DEF TaskInv, Noted
  <2> QED BY <1>1, <1>2, <2>1, OneWorked DEF Open, Complete
<1>4. StatusMayBe(Q, "failed") /\ "failed" \in ProjectStatus
  BY DEF StatusMayBe, Settled, ProjectStatus
<1>5. /\ R \in ProjectState /\ StateInv(R) /\ Forward(Q, R) /\ Counted(Q, R)
      /\ R.status = "failed"
      /\ WithStatus(R, {"in_progress"}) = WithStatus(Q, {"in_progress"})
  BY <1>3, <1>4, SetProjectKeeps
<1> HIDE DEF R
<1>6. Forward(S, R) /\ Counted(S, R)
  BY <1>3, <1>5, ForwardTransitive DEF Counted
<1> QED BY <1>3, <1>5, <1>6 DEF R, Q

\* A parent is deeper in the list than in the tree.
LEMMA DepthBound ==
    ASSUME NEW S \in ProjectState, StateInv(S), NEW t \in Tasks(S)
    PROVE  S.tasks[t].depth < t
<1> DEFINE bad == {u \in Tasks(S) : ~(S.tasks[u].depth < u)}
<1>1. bad \subseteq Nat
  BY TaskFields
<1>2. ASSUME bad # {}
      PROVE  FALSE
  <2> HIDE DEF bad
  <2>1. PICK m \in bad : \A k \in bad : m <= k
    BY <1>1, <1>2, Smallest
  <2> USE DEF bad
  <2>2. m \in Tasks(S) /\ ~(S.tasks[m].depth < m)
    OBVIOUS
  <2> HIDE DEF bad
  <2>3. Placed(S, m) /\ m \in Nat /\ m # 0 /\ m <= S.count /\ S.tasks[m].parent \in 0..MaxTasks
    BY <2>2, TaskFields DEF StateInv, TreeInv, None
  <2>4. S.tasks[m].parent # None
    BY <2>2, <2>3 DEF Placed
  <2> DEFINE p == S.tasks[m].parent
  <2>5. p \in Tasks(S) /\ p < m /\ p \in Nat
    BY <2>3, <2>4, TaskStateAssumption DEF Placed, Tasks, ProjectState, None
  <2>6. p \notin bad
    BY <2>1, <2>3, <2>5
  <2>7. S.tasks[p].depth < p /\ S.tasks[p].depth \in Nat
    BY <2>5, <2>6, TaskFields DEF bad
  <2>8. S.tasks[m].depth = S.tasks[p].depth + 1
    BY <2>3, <2>4 DEF Placed
  <2> QED BY <2>2, <2>3, <2>5, <2>7, <2>8
<1> QED BY <1>2

\* Nothing is stuck while no task has failed and none is blocked: a pending task
\* waits for one that is not complete, of its depth but earlier in its plan, and a
\* parent for a deeper one.
LEMMA NothingIsStuck ==
    ASSUME NEW S \in ProjectState, StateInv(S), DepSat = "candidate_complete",
           \A t \in Tasks(S) :
              S.tasks[t].status \in {"pending", "decomposed"} \cup Complete,
           \A t \in WithStatus(S, {"decomposed"}) :
              \E c \in Children(S, t) : S.tasks[c].status \notin Complete,
           Pickable(S) = {}
    PROVE  WithStatus(S, {"pending"}) = {}
<1> DEFINE left == {t \in Tasks(S) : S.tasks[t].status \notin Complete}
           room(t) == MaxTasks - S.tasks[t].depth
<1>1. PICK rank \in [TaskId -> Nat] :
        \A t \in Tasks(S) : \A d \in S.tasks[t].deps : rank[d] < rank[t]
  BY DEF StateInv, TreeInv, Ordered
<1>2. ASSUME NEW t \in Tasks(S)
      PROVE  /\ t \in TaskId /\ S.tasks[t].depth \in Nat /\ room(t) \in Nat
             /\ rank[t] \in Nat /\ Placed(S, t)
  BY TaskFields, DepthBound, TaskStateAssumption DEF TaskId, StateInv, TreeInv
<1>3. ASSUME NEW t \in left, S.tasks[t].status = "decomposed"
      PROVE  \E c \in left : room(c) < room(t)
  <2>1. PICK c \in Children(S, t) : S.tasks[c].status \notin Complete
    BY <1>3 DEF WithStatus
  <2>2. c \in Tasks(S) /\ c \in left /\ S.tasks[c].parent = t
    BY <2>1 DEF Children
  <2>3. S.tasks[c].depth = S.tasks[t].depth + 1
    BY <1>2, <2>2, TaskFields DEF Placed
  <2> QED BY <1>2, <2>2, <2>3, TaskStateAssumption
<1>4. ASSUME NEW t \in left, S.tasks[t].status = "pending"
      PROVE  \E d \in left : rank[d] < rank[t] /\ room(d) = room(t)
  <2>1. ~DepsSatisfied(S, t)
    BY <1>4 DEF Pickable, WithStatus
  <2>2. PICK d \in S.tasks[t].deps : d \notin WithStatus(S, Satisfied)
    BY <2>1 DEF DepsSatisfied
  <2>3. d \in Tasks(S) /\ S.tasks[d].depth = S.tasks[t].depth /\ rank[d] < rank[t]
    BY <1>1, <1>2 DEF Placed
  <2>4. d \in left
    BY <2>2, <2>3 DEF WithStatus, Satisfied
  <2> QED BY <2>3, <2>4
<1>5. \A t \in left : /\ t \in Tasks(S) /\ room(t) \in Nat /\ rank[t] \in Nat
                      /\ S.tasks[t].status \in {"pending", "decomposed"}
  BY <1>2
<1> HIDE DEF room, left
<1>6. ASSUME left # {}
      PROVE  FALSE
  <2> DEFINE D == {room(t) : t \in left}
  <2>1. D \subseteq Nat /\ D # {}
    BY <1>5, <1>6
  <2> HIDE DEF D
  <2>2. PICK m \in D : \A k \in D : m <= k
    BY <2>1, Smallest
  <2> DEFINE deep == {t \in left : room(t) = m}
             E == {rank[t] : t \in deep}
  <2>3. deep # {} /\ \A t \in left : m <= room(t)
    BY <2>2 DEF D
  <2>4. E \subseteq Nat /\ E # {}
    BY <1>5, <2>3
  <2> HIDE DEF E
  <2>5. PICK e \in E : \A k \in E : e <= k
    BY <2>4, Smallest
  <2>6. PICK t \in deep : \A u \in deep : rank[t] <= rank[u]
    BY <2>5 DEF E
  <2>7. S.tasks[t].status # "decomposed"
    BY <1>3, <1>5, <2>3
  <2>8. PICK d \in left : rank[d] < rank[t] /\ room(d) = room(t)
    BY <1>4, <1>5, <2>7
  <2>9. d \in deep
    BY <2>8
  <2> QED BY <1>5, <2>6, <2>8, <2>9
<1> QED BY <1>6 DEF left, WithStatus, Complete
=============================================================================
