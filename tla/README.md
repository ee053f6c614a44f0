# Verification of the long-running coding agent

This directory models the project mode of `longrun_agent` in TLA+, checks it with TLC and
proves its safety properties with TLAPS. Paths below are relative to `src/src/longrun_agent/` unless they
start with `src/`.

## 1. The system

`python -m longrun_agent project-run` starts one process that works through a large objective:
a planner model splits it into a DAG of tasks, an agent works on one task per *session*, and an
independent gateway verifies what the agent claims. Everything that must survive the process is
in files; `project-resume` starts another process from them.

| component | state it keeps | operations | interacts with |
|---|---|---|---|
| Project state and scheduler (`state/schema.py`, `transitions.py`, `aggregation.py`, `selector.py`) | `ProjectState`: status, tasks (status, parent, depth, dependencies, sessions, blocker, reopenings), active task, counters | validate the graph, legal transitions, lift parents over complete or verified children, release and choose tasks | called by the orchestrator on its in-memory state |
| State store (`state/store.py`) | `project_state.json`, `sessions.jsonl`, revisions, handoffs | save (validates, then replaces the file), load, append a session | orchestrator, context lifecycle |
| Orchestrator (`orchestration/`) | the state object, the configuration, the loaded contract | create, resume, plan, run a session, act on its signal, decompose, recover, verify, settle | all the others |
| Planning (`planning/`) | none | initial plan, decomposition, recovery candidates and their evaluation; validators | planner models; results go into the project state |
| Verification (`verification/`) | frozen contract, baseline snapshot, reports, test candidates | freeze, check hash, verify in a copy of the workspace, classify | orchestrator, control channel |
| Task session (`agent/loop.py`, `control/`) | message buffer, signals of the session, registration counts | model turns, tool calls, protocol errors, terminal signals, grace turn | orchestrator, tools, context |
| Context lifecycle (`context/`) | turns, segments, staleness marks, handoffs | measure, prune, compact, reset | agent loop, state store |
| Knowledge (`knowledge/`) | episodes, memories, skills, the log of their uses | retrieve, arbitrate, record uses, reflect, merge, induce and promote skills, withdraw | orchestrator before and after a session, command line |
| Tools and sandbox (`tools/`) | processes and files | read, write, bash | agent loop |
| Model providers, telemetry, CLI, config, evaluations | - | I/O and settings | - |

What is hard: a process can die between any two writes; a later process may run with another
configuration; the models and the agent may answer anything the validators let through; a
verdict may reopen what was finished; budgets (sessions of the project, sessions of a task,
attempts, reopenings, time) run out at any point; an exception in a handler loses the session
that led to it. There is one thread per project: the interleavings are those of a run with
crashes, restarts and edits of its files, and of the command line with the knowledge store, which
has no lock.

What makes each component correct:

* scheduler: only released leaves are worked on, a task without its dependencies is not, and the
  scheduler does not declare a deadlock of its own making;
* orchestrator: no handler asks for an illegal transition, the state a session leaves can be
  saved, every run returns, a reported success was verified, budgets hold;
* store: saved progress is not undone and the session log agrees with the saved state;
* verification: a contract that does not match the hash in it is not used, a verdict is applied to the
  task it is about;
* verification also: the baseline is the workspace before the agent touched it, a VERIFIED verdict
  is deserved by the workspace as it is, and the copies a verification makes are removed;
* session: its status agrees with the agent's signal, and it ends with the outcome the
  orchestrator relies on;
* context: where a request shortens turns it names the outdated ones stale and no others, `prepare`
  sends nothing over the hard stop, and what a reset hands on is about the workspace as it is and on disk;
* knowledge: what is offered is earned, was not withdrawn, does not contradict itself and can be
  traced to what is on disk; what its records count agrees with the log of uses.

`PROJECT.json` lists all components and the hazards with their lines.

## 2. The modules

| module | what it is |
|---|---|
| `TaskState` | operators on `ProjectState` and its tasks: status machine, both aggregations, `update_ready_tasks`, `select_next`, adding a plan's tasks, `validate_graph` |
| `Orchestrator` | extends `TaskState`: one process of `ProjectOrchestrator` and the files it leaves, with crashes, restarts and edits of the contract file |
| `DurableProject` | the abstract specification of a project whose progress survives the processes that work on it: `Orchestrator` implements it |
| `MCOrchestrator` | plans, decompositions and configurations for TLC |
| `TaskStateProofs`, `OrchestratorProofs` | proofs about the two: types, the contract file, the session log |
| `TaskTreeProofs` | what single project states keep under every operator of the two: the tree of tasks, its statuses and dependencies |
| `SchedulingProofs` | the scheduler: what holds of the tasks in memory and on disk in every step, and how a run ends |
| `Session` | one task session: `AgentLoop.run_with_controls`, the control channel, `_ChannelRouter`, `SessionTrace` and the head of `_process_control_signals` |
| `AgentSession` | the abstract specification of a session: what `Orchestrator` relies on |
| `MCSession` | policies for TLC |
| `SessionProofs` | proofs about `Session`, and that it implements `AgentSession` |
| `Decision` | pure: checks of a contract, transitions, `summarize_and_decide`, `IntegrityValidator` |
| `Verification` | extends `Decision`: a project contract from its freezing to the verdict, over `VerificationGateway`, `CopySnapshotProvider`, `VerificationStore` and the project state, with crashes |
| `MCVerification` | trees, contracts and outcomes for TLC |
| `VerificationProofs` | proofs about both |
| `KnowledgeStore` | pure: records of memories and skills, the reflection gate, conflicts and duplicates, promotion and retirement, what may be retrieved and shown |
| `Knowledge` | extends `KnowledgeStore`: retrieval before a session and consolidation after it, over files, with crashes and the command line |
| `MCKnowledge` | stores, outcomes, drafts and settings for TLC |
| `KnowledgeProofs` | proofs about both |
| `Context` | the context of a session: stale tracker, pruning, structured reset, handoffs, segment log, and the tool calls that change files |
| `MCContext` | settings for TLC |
| `ContextProofs` | proofs about `Context` |

`PROJECT.json` maps every definition to the lines it stands for.

### TaskState

The project state is one record. A task is its position in `ProjectState.tasks` (tasks are only
ever appended), so ids, keys, titles and texts disappear; `duplicateKeys` remembers that a
decomposition reused a key, because `validate_graph` refuses such a state. `illegal` remembers
that a handler asked `StateTransitionController` for a transition it refuses. `count`, `active`,
`sessions`, `pattempts` are the counters of the code. Loops over tasks whose order matters
(`select_next` takes the first ready task; aggregation runs from the deepest parents up) are
written as choices of the smallest or largest element and recursion-free functions, so that the
module can be proved about.

### Orchestrator

`pc` names the place in `run_project` / `resume`; an action is a stretch of code with at most one
write to disk, so a crash can fall between any two writes. `mem` is the state object, `disk` the
last `project_state.json`, `logged` the session numbers in `sessions.jsonl`, `contract` the
contract files of the verification store.

| actions | code |
|---|---|
| `CreateProject`, `LoadProject`, `Exit`, `Crash` | `project_start` / `project_resume` of `cli.py` and the end of the process |
| `FreezeContract` ... `ContractReady` | `_initialize_verification` |
| `Reactivate`, `DecomposeFailedTask` | `resume` |
| `CreateInitialPlan`, `FinalizePending`, `RetryInfrastructure` | `run_project` before its loop |
| `LoopTimeLimit` ... `StartSession` | the head of an iteration: deadline, aggregation, `select_next`, budgets |
| `EndSession` | the outcome of a session, through `_process_control_signals` with decomposition and recovery |
| `VerifyTask`, `VerifyProject` | `_verify_task_candidate`, `_finalize_contract_verification` with every verdict |
| `AppendSession`, `SaveAfterSession`, `NextIteration` | the tail of an iteration |
| `AggregateOnceMore`, `Settle*` | after the loop |
| `ReportFinalVerification` | the end of `_finalize_candidate_complete` after a final command in legacy mode |

Inputs are existentially chosen: a plan from `Plans`, a decomposition from `ChildPlans`, a
verdict from `Verdicts`, the outcome of a session, the reading of the clock at each place where
the code compares it with the deadline.

What is abstracted or left out, and why it does not change the control:

* a decomposition of `k` children is offered only when it fits `MaxTasks` (`Fits`): the one bound
  on an unbounded quantity;
* mode `adaptive` also stands for `adaptive_search` with `bounded_search.enabled = false`, which
  takes the same branches; planning mode `disabled` (no planner) is not modelled;
* a contract file is compared with a hash only when a process loads it, and what the process loaded
  it keeps, so `EditContract` happens between processes. `verify_contract_hash` knows the hash in the
  file and nothing else, and `load_contract` takes the last version: a rewritten file keeps its old hash
  ("edited") or has a new one ("replaced"), an added version has the hash of its own text
  ("superseded") or not ("shadowed"). `Matching` are those the load accepts, `Untouched` those with
  which a second freeze agrees;
* `legacy` is `verification.mode = "legacy_command"`: after the final command its report needs a contract
  of its own (`SaveLegacyVerificationReport`), which can be saved only once, because each has another
  `frozen_at`. A project that failed or completed there cannot be finalized again;
* `FreezeRepeats` says whether the configured contract file gives its own `frozen_at`. If not, each
  freeze stamps another one and `save_contract` refuses a second freeze. A contract without a
  `contract_id` gets another one, and another file, at each freeze; it behaves like a contract
  that gives its `frozen_at`;
* files are replaced atomically (`atomic_write = True`, the default);
* an exception inside a session, or out of the gateway, has the effect of `Crash`: nothing of the
  session is on disk;
* knowledge, context handoffs, metrics and event logs are not read back to decide anything here.

`Orchestrator` implements `DurableProject` (`ProgressIsDurable`): a process runs where `pc` is not
`"down"`, it knows the progress of `Sure` (its state without a claim of completion that its verdict
may still take back), and what is saved is the progress of `disk`. Creating or loading a project is
`Begin`, the exits and `Crash` are `End`, and every other step of a process is `Work` or stutters:
it may add progress, and saves what is known or nothing.

### Session and AgentSession

`Session` opens what is one choice (`EndSession`) in `Orchestrator`. A turn of the model is
`BeginTurn`, `Prepare` (context), a response, and one action per tool call in it; a response can
also be an answer, empty, malformed or missing. The calls that precede the others
(`_ordered_tool_calls`) are the reports on knowledge. `trace` keeps of `SessionTrace` what the
outcome is computed from, `tests` what the channel knows of test candidates, `start` what the
session finds (files touched earlier, knowledge retrieved, the exit code of the last final
verification), `policy` the settings. `Settle` is the head of `_process_control_signals`: the
outcome and whether the session counts as one without progress.

* `MaxCalls` bounds the calls of one response; turns, retries, grace turns and registrations are
  bounded by the settings themselves.
* The last turn's shorter list of tools is advice to the model only (`_ChannelRouter` executes
  any tool), so it has no action.
* A command exits with 0 or not; what bash takes for a verification and what the knowledge gate
  recognises as one are kept apart (`Verify`).
* A session can also be lost: two calls with one id raise out of the loop. Other exceptions of
  the context manager or the tools' plumbing have the same effect and no action of their own.

`AgentSession` has three actions, give a signal, settle, lose. `KeepsPromise` is its
specification under the identity mapping; its outcomes are those of `EndSession`: `completion`
is `RequestCompletion`, `blocker` and `blocker_decompose` are `ReportBlocker`, `decomposition`
is `RequestDecomposition`, `evidence` is `CompleteOnEvidence`, `nothing` is `EndWithoutSignal`
and `lost` is `Crash`. The orchestrator counts a signalled session as one with progress
(`NoteProgress(..., FALSE)`), which is sound because of `Settle` in `AgentSession`.

### Decision and Verification

`Orchestrator` takes a verdict as a choice; `Verification` shows what it rests on. `Decision` keeps
a check's kind, whether it is required and what it should do on the baseline; an outcome is an
`ExecutionStatus`, a tree gives each path a version. Every pattern of `integrity_rules` stands for
the set of paths it matches, so that `Violations` is one record of sets.

A process is at one `pc`: in `_initialize_verification` (freeze, record, copy the baseline, write
its manifest), in a session of the agent (which may write any tree of `Trees` and register tests),
in `_finalize_contract_verification` or in `verify`. Each write of a file is a step of its own;
those that are not atomic (the snapshot, its manifest) have a torn state between two steps.
`Exit` and `Crash` lose the memory of the process and keep the files. `copies` are the working
copies of the current verification.

* The tasks are one fact, `open`: is a leaf not complete? After PARTIAL or REOPENED one is.
* `Outcomes` gives, for each check, how it may end in a copy of a tree: a check may be flaky or
  time out. Outcomes on the tree of the candidate are those on the workspace, because the copy
  leaves out only caches and `.env` files.
* The contract files are those of `Orchestrator`. A process that loads a replaced contract or an added
  version works with the checks it finds there, which may be any of `Contracts`; its rules are taken to be the
  same.
* `verify` compares the hash of the loaded contract again; the object was compared when the process
  loaded it and nothing changes it, so that only `ContractInvalid` fails.
* `Fallible` is where `verify` copies trees or runs commands: an `OSError` or `SnapshotError` there
  is a verdict, anything else ends the process.
* Not in the model: the statuses of limits and of blocked projects (`Orchestrator` has them), the
  `git_worktree` provider, texts for the agent, event logs.

### KnowledgeStore and Knowledge

A record is its position in the order of creation (records are never deleted). A lesson stands for
a memory's kind, lesson and actions, the signature by which duplicates are found; `Contradicts` says
which lessons recommend what others avoid. Scores, tags, anti-conditions and token budgets only
choose among the allowed records, so retrieval returns any allowed set of at most `MaxRetrieved`.

| actions | code |
|---|---|
| `Retrieve` | `_retrieve_knowledge_for_task`: both retrievers, the arbitrator, what counts as exposed |
| `LoadUse`, `SaveUse`, `AppendUse` | `add_memory_usage` / `add_skill_usage`: load and look into the log, save the counter, append the row |
| `Work` | the session: what the agent reports (`KnowledgeUseChannel`), what it leaves (`build_experience_pack`) |
| `BeginUtility`, `LoadUtility`, `SaveUtility` | `record_success`, `record_harmful_use`: load, save what was changed |
| `PersistEpisode`, `NoCandidate`, `ReflectionFails` | `_persist_episode_and_reflection`, the generator |
| `EvaluateGate`, `FindDuplicate`, `SaveMerge`, `SaveNewMemory` | `persist_candidate`: the gate and its scan, the scan for a duplicate, the save of the duplicate or of the new record |
| `ReadSources`, `QueryDerivedSkill`, `NoSkill`, `AnswerSkill` | the last parts of `consolidate`: the statuses of the helpful memories, the scan of the skills, the model's answer |
| `CheckSources`, `ValidateSkill`, `FindDerivation`, `SaveDerivation`, `SaveNewSkill` | `candidate_from_success`: active sources, the validator, the scan for the derivation, the save of the duplicate or of the new skill |
| `SaveSession` | the session is counted: until then a crash lets it run again under the same number |
| `Invalidate`, `Deprecate` | `knowledge memories invalidate`, `knowledge skills deprecate` |

* Nothing is changed in one step: the process loads a record (`copy`) or makes one (`made`), and
  saves it in a later step, and each scan of the records is a step of its own. A withdrawal between the
  load and the save of that very record is lost, whether it was loaded for a use, a verdict, an episode
  or a derivation; the variable `withdrawn` leaves such records out (`InHand`).
* One scan is one step: besides the process only the command line changes records, and it only
  withdraws them, so what a scan finds could be found at one moment of it. The change that a command
  makes is one step, too. In the code it loads and saves (`update_memory_status`), and what the process
  saves in between is lost; this is left out.
* The harm of a skill counts twice, as a use and as a verdict, and the second time again when a session
  is repeated (`record_harmful_use`); the model does the same, and `Counters` leaves it out of the
  counters that agree with the log.
* `Raise` is the exception handler of `_process_knowledge_after_session`: with `strict_errors` the
  process ends, without it the consolidation does.
* `earned`, `telemetry` and `withdrawn` are history: tasks that ended well with a skill, rows a
  process with frozen records wrote (they have no counter), records withdrawn.
* `packs` numbers the evidence packs, saved or not; `MaxPacks`, `MaxCrashes`, `MaxWithdrawn`,
  `MaxMemories`, `MaxSkills` bound what the code does not bound.
* Left out: tags, parsing and format repair of model output (a draft is submitted or not),
  `write_snapshot` and the event log, which nothing reads back.

### Context

A version of a file stands for its hash; a turn keeps its results, its status
and whether it holds a control tool. `Prepare` is `prepare` up to the choice of what is sent;
`Compact`, `SaveHandoff`, `CloseSegment`, `OpenSegment` are `_perform_structured_reset`, one step per
write; `Retry` is the correction after malformed arguments; the others are the tool calls of a turn.
Measurements are choices among *under the trigger*, *at or over it* and *over the hard stop*: the
same list of messages may measure anything, which includes every counter of tokens.

* The tracker's loop over turns and results is a relation between *places* (turn, number of the
  result) in the order of the loop: `Outdates` and `Repeats` say which result makes which stale or
  superseded. A handoff's verifications are a set, their order is left out.
* `EpochAt` keeps the code's way of counting: `refresh` adds the writes of the buffer to its epoch
  each time it is called, and a result of epoch 0 counts as one without an epoch
  (`stale_tracker.py:39`).
* Commands change files without an epoch, a write may fail after it replaced the file (`WriteFails`:
  the diff cannot be saved), and the result of a write may be withheld from the agent
  (`result_guard.py`), and from the tracker with it. All are modelled; `meddled` and `withheld`
  remember them, because no statement about staleness can hold across them.
* `read_file` hashes the bytes of a file, `write_file` the text it compares, in which reading has turned
  CRLF into LF. `CRLF` says which versions have such line ends; a write that finds nothing to change
  in one reports `TextOf`, the hash of a text that no file has.
* A turn that is sent in full carries no mark, whatever its status (`export_messages`). `ShownAsStale`
  says when that may happen to a stale turn: it is recent, has a control tool, or nothing is shortened.
* What a model writes in a handoff is not modelled: such a handoff has no files and verifications,
  and the properties about contents are about deterministic ones.
* A session may end after any answer, and its process may die anywhere. Nothing reads a half-made
  context back, so neither is an action; what is on disk is constrained in every state.
* Left out: reminders and their deduplication, texts, statistics.

## 3. The runs

| run | instance | distinct states | what it shows |
|---|---|---|---|
| `project` | project contract required, 2 tasks, one decomposition into 2, `adaptive_search`, 5 sessions, contract edits | 5.1 million | work only with dependencies, parents follow their children, success is verified, blockers are resolved |
| `task` | contract on task 1, rewritten, replaced or superseded between processes, two chained or independent tasks, started `static` or `adaptive` and resumed in the other, 4 sessions | 2.6 million | types, no illegal transition, a session's state can be saved, `DurableProject` is implemented, reopen budget, session log, edited contract |
| `command` | no contract, a final command in legacy mode or not, one task or two, decompositions of decompositions (depth 2, 5 tasks), 4 sessions, weak fairness | 164 thousand | no dependency deadlock, an ACTIVE project has work, every run returns or raises |
| `session` | three policies: command mode with two grace turns; contract mode with a required test and one grace turn; contract mode without either | 379 thousand | status and signal agree, knowledge first, evidence not overlooked, `AgentSession` implemented, sessions end |
| `verification` | 3 paths, 5 trees of which two touch a protected file, two contracts, of which one may replace the other, 2 attempts, weak fairness | 1.1 million | the baseline is original, VERIFIED is deserved and current, copies are removed, verifications end |
| `knowledge` | 2 tasks in 2 projects, an empty store or one with a memory and a skill, at most 2 memories and 2 skills, 2 more sessions, frozen and writable processes, 1 crash, 1 withdrawal between any two steps | 2.1 million | active skills are earned, withdrawals stand, provenance is saved, memories agree, counters agree with the log, skills come from active memories, frozen records are only read |
| `context` | 2 files, 1 verification command, 3 requests, 3 tool calls, 1 retry, two versions with CRLF line ends, six settings of the four modes | 3.4 million | staleness marks, hard stop, handoffs and segment log |
| `depth_limit` | one task that must not be decomposed and has had enough attempts after one session | - | a finding of section 4 |
| `skipped_contract`, `stale_evidence`, `interrupted`, `second_reset` | the instances above | - | the findings of section 4 |

Why the bounds are enough for the interesting cases: two tasks give every relation of a
dependency, one decomposition makes a parent with dependents inside and outside, `MaxReopens =
1` and two project attempts let a budget be spent and refused, five sessions let a task be
reopened after its sibling completed, and a process may crash and be resumed any number of
times. A verification has five trees: the original, a changed program, one with a new test, one with a
changed and one with a deleted protected file; its contracts have two resolutions and a regression,
so that some, none or all of them pass, and a contract with a static check only; two attempts are
enough to verify again what a crash or missing infrastructure interrupted. In a session, two or three turns and two calls per response give every order of a
signal, an error, a write and a verification, within and across responses; one error or two reach the
limit. Three tool calls are enough for a read or a
verification, the write that outdates it and what comes after, spread over up to three turns and two
resets. In the store, two sessions on top of those that `Stores` stands for reach what takes a sequence of
sessions: a memory learnt, used and withdrawn, a skill induced from it, promoted in a second task,
harmful in a third session; two lessons that contradict each other; a session repeated after a
crash. The writable processes do not demand active sources for a skill: those that do can only do less,
because every verified session of the instance changes files. Promotion asks for two tasks instead of the configured number. Deadlock is checked in the runs
of `Orchestrator`, `Verification` and `Knowledge`; a session really stops, so the runs of `Session` and
`Context` do not check it.

Fairness: `command` assumes `WF_vars(Run)`, the process keeps running (each agent step,
model request and verification has a time limit), but nobody has to start a process, crash it or
spare it. `verification` assumes `WF_vars(Verify)`: every check has a timeout
(`timeout_seconds`, at least 1). `session` assumes `WF_vars(Next)` for the same reason.

Every property has a mutant of the code's model that breaks it (listed in `PROJECT.json`, defined
beside the definition it replaces).

## 4. Where the code and its texts disagree

* `depth_limit`: at the depth limit a session without a signal, once the task has had enough attempts,
  still triggers a decomposition (`orchestrator.py:971`), which must fail, and the run ends with an
  exception that loses the session. Decompositions that the agent asks for, and blockers it reports, are
  told apart (`asked`) and are not what the run shows.
* `skipped_contract`: the task a contract names, once decomposed, is completed by aggregation and
  never verified.
* `stale_evidence`: a task is completed without a signal on a verification that preceded the
  session's last write; `SessionTrace.has_completion_evidence` refuses such evidence,
  `_completion_candidate_for` does not look. With a contract the gateway still has to agree.
* `interrupted`: a contract file without `frozen_at` is stamped anew by every freeze
  (`verification/schema.py:266`). A process that dies after `save_contract` and before the project
  state names the contract leaves a project that cannot be started or resumed again: the unmodified
  contract is refused as modified in place (`verification/store.py:72`). A torn manifest
  (`verification/snapshot.py:45`) is the second way into `InterruptionIsRecoverable`: it is never made
  again, and every verification ends with an exception.

* `second_reset`: the handoff of a second reset is made of the turns since the first one; the files
  written and the verifications run before it are no longer named, although `src/README.md:19` says
  a handoff keeps them.

Disagreements met while modelling that no run shows:

* With a project contract the verdict is saved before the session is appended
  (`orchestrator.py:486`); a crash between the two loses the record of a session the state counts.
  `SessionLogComplete` and its theorem are therefore about the other scopes.
* When project verification fails, the last complete leaf is reopened but its complete parent is
  not (`orchestrator.py:1603`), so dependents of the parent go on; `ParentsFollowChildren` excepts
  reopened children.
* `StaleTracker.refresh` adds the writes of the buffer to its epoch at every refresh and treats
  epoch 0 as missing (`stale_tracker.py:30`, `:39`). The same command, run before and after a write,
  is then marked superseded, which `src/tests/test_context_pruner.py:55` says it is not. It only
  shows for commands at epoch 0 that are followed by a refresh before the write; the test refreshes
  once.
* Staleness is a mark of a turn: a fresh verification in the turn of an outdated read is handed on
  as stale.
* A context exhausted while a retry is prepared ends the session as an error of the provider
  (`agent/loop.py:561`), and a reset made there, or in a grace turn, does not start a new segment of
  the router (`agent/loop.py:190`).
* `clear_stale_reads`, `supersede_repeated_bash`, `invalidate_tests_after_write` and the limits of
  `structured_handoff` are settings that nothing reads (`config.py:105`, `:116`).
* Every primary record counts as exposed, also those that `render_bundle` leaves out for lack of
  tokens (`knowledge/renderer.py:66`).
* A withdrawal between the load and the save of the record it withdraws is written over
  (`knowledge/store.py:195`, `knowledge/memory_lifecycle.py:174`, `knowledge/skill_lifecycle.py:317`, `:339`).
* The harm of a skill, by which retrieval ranks (`knowledge/retrieval.py:157`), is counted as a use and
  again as a verdict (`knowledge/skill_lifecycle.py:361`), and the second one once more when the session
  is repeated after a crash.
* A recorded contract that is rewritten together with its hash, or joined by a later version, is used
  without notice: the hash is compared with that of the same file (`verification/store.py:77`, `:84`).
* With `legacy_command` a project that was finalized once ends in `StateStoreError` when it is finalized
  again, after its command was run (`orchestrator.py:1458`).
* For a file with CRLF line ends in which `write_file` finds nothing to change it reports, and a handoff
  then names, the hash of the text with LF, which `read_file` never reports (`tools/write_file.py:51`, `:88`).
* A write whose diff cannot be saved is reported as failed although the file was replaced
  (`tools/write_file.py:106`, `:165`).
* A stale turn that is sent in full is not marked (`context/buffer.py:42`).
* The request of the compactor itself is never measured (`context/compactor.py:105`).
* `select_next` saves CANDIDATE_COMPLETE before the project is verified. If the process dies before
  that and the project is resumed with a `max_project_sessions` that is already used up, the loop is
  not entered (`orchestrator.py:393`), nothing after it looks at a project that is not ACTIVE
  (`orchestrator.py:505`), and the run reports success unverified. `SuccessMeansVerified` therefore
  assumes that the session budget does not change between processes, as it does not in `project`.
* After a decomposition that resume forces, a task that an earlier process left IN_PROGRESS is not the
  active one until the selector has run; if the deadline passes before that, the save of
  TIME_LIMIT_REACHED is refused and the run ends with an exception (`orchestrator.py:123`).

## 5. The proofs

All theorems hold for every value of the constants that satisfies the named assumptions
(`TaskStateAssumption`, `OrchestratorAssumption`, `SessionAssumption`,
`VerificationAssumption`, `KnowledgeStoreAssumption`, `KnowledgeAssumption`, `StoresAssumption`,
`ContextAssumption`), which TLC evaluates in every run. `StoresAssumption` says that a store found at
the start is one that earlier sessions may have left; it demands no more than the theorems give back,
but for the counters, which match the log as after sessions that did not crash.

| theorem | argument |
|---|---|
| `TypeCorrect` (`TypeOK`) | `TypeInv` adds to the types that a session or verification has a task and that a resume that forces decompositions has some left. `TaskStateProofs` shows that each operator *continues* a state (typed, and no counter or task is taken away); `OrchestratorProofs` composes them along each handler and then over the actions. |
| `ContractSafe` (`EditedContractNeverUsed`) | `ContractInv`: only `_initialize_verification` and the outside world touch the files, the latter between processes, and the load compares the hash before any location where the contract is used. A process that freezes instead of loading finds no file of that version, or one equal to what it writes. Once the contract is recorded, one that was replaced together with its hash, or an added version, passes. |
| `LogIsComplete` (`SessionLogComplete`) | `LogInv` relates the session count in memory and on disk by location: equal outside a session, one ahead while it is recorded, and in the log when the state is saved. It assumes `Scope # "project"`; with a project contract the statement is false (section 4). |
| `TransitionsAreLegal` (`NeverIllegal`), `DependenciesFirst` (`WorkHasDependencies`), `ChildrenFirst` (`ParentsFollowChildren`), `BlockersAreKept` (`BlockerIsResolved`), `ReopensAreBounded` (`ReopenBudget`) | none of them is inductive. `StateInv` (in `TaskTreeProofs`) is their strengthening: parents come before children, dependencies are between siblings and have no cycle, and what each status says of a task's children, dependencies, blocker, verdict and reopens. Each operator is one of five kinds of change (a leaf is worked on, parents are lifted, tasks are released, added or reopened), and each kind keeps it. |
| `ProgressPersists` (what is on disk is never undone) | `StatesInv`: `StateInv` holds of the state on disk and of the one in memory, and memory never knows less than the disk. A claim of completion may be taken back by its verdict before it was ever saved, so what counts is `Sure`, the state without the claim. `Advances`: each step adds to `Sure` or leaves it, and saves nothing else. |
| `OrchestratorIsDurable` (`ProgressIsDurable`) | the refinement of `DurableProject`: `DurableInit` for the initial states, `DurableStep` for the steps. From `StatesInv`, its `Advances` and the types: a step that stays up is `Work` because `Sure` only grows; one that saves writes what `Sure` knows; the rest begins or ends a process. |
| `OutcomesAreSaved` (`SessionStateSaved`) | `FlowInv`: by location, which task is current, which tasks may be in progress beside it while resume decomposes failed ones, and when the graph is valid. |
| `ActiveProjectsHaveWork` (`ActiveMeansWork`) | the six actions that return, each with what it leaves. |
| `NeverStuck` (`NoDependencyDeadlock`) | for `DepSat = "candidate_complete"` (`NothingIsStuck`): of the incomplete tasks take the deepest ones, and of these the first in the order of dependencies. It is no parent, for a parent waits for an incomplete child one level deeper, and all its dependencies are complete, so it can be released. Where only VERIFIED satisfies a dependency, a leaf that is complete and not verified does block its dependents. |
| `SuccessMeansVerified` (`SuccessIsVerified`) | `SuccessInv`: a project that the selector called complete still has a session to spend, so the next process reaches `dispatch`, which verifies it. It assumes `SameBudget` (section 4). |
| `SessionTyped` (`TypeOK`) | one lemma for the frame of a tool call, one per way in which it counts, one step per action. |
| `StatusIsCorrect` (`StatusMatchesSignal`) | `SignalInv`: no turn begins after a signal, so only the end of a response and the grace turns decide between completed and not. |
| `KnowledgeIsDecidedFirst` (`KnowledgeDecisionFirst`) | inductive: nothing but tool calls touches the channel, and each call is gated or harmless. |
| `EvidenceIsSeen` (`EvidenceNotOverlooked`) | from `SignalInv` and the last comparison of the loop. |
| `SessionKeepsPromise` (`KeepsPromise`) | initial states map to initial states, every step to a step or a stutter of `AgentSession`; needs the types and that the outcome is open while the session runs (`SignalInv`). |
| `VerifiedMeansRequired` | about `Decide` alone: three disjoint sets of required checks, each with a subset that passed; if the unions are equal, so are the parts. |
| `VerificationProofs!TypeCorrect` (`TypeOK`) | one step per action. |
| `BaselineCorrect` (`BaselineIsOriginal`) | `BaselineInv`: the agent works only where a manifest exists, a manifest exists only beside a complete snapshot, and a snapshot is made only where there is no manifest, hence of the original workspace. |
| `VerifiedDeserved` (`VerifiedIsDeserved`) | `CandidateInv`: no session runs during a verification, so the candidate copy equals the workspace until the verdict is applied, and the checks that ran are those of the contract that this process loaded; then `VerifiedMeansRequired`, `IntactFiles` and `BaselineInv`. |
| `VerifiedTreeCurrent` (`VerifiedTreeIsCurrent`) | `CurrentInv`: a verified project has no open leaf, a session needs one, and memory equals disk whenever a session begins. |
| `CopiesCorrect` (`CopiesRemoved`) | `CopiesInv`: the copies by location. |
| `KnowledgeTypeCorrect` (`TypeOK`), `SkillsAreEarned` (`ActiveSkillIsEarned`), `WithdrawalsLast` (`WithdrawnStaysWithdrawn`), `ProvenanceIsKept` (`ProvenanceIsSaved`), `OfferedKnowledgeAgrees` (`KnowledgeAgrees`) | `KnowledgeInv`. `StoreInv`: a process that loaded a record will write it back over whatever happened meanwhile, so these five are one predicate `Sound` of *two* stores, the one on disk and the one there will be when the copy is back. `ControlInv`: the types and places of everything else. `HandInv`: where a record is in hand, and which one. `MadeInv`: a record that was made may still be saved, because what the gate and the scans found can only have been withdrawn since. `ConsolidationInv`: a verdict that helps is counted only for a task that `earned` has, and a frozen process has nothing to count. Lemmas say which changes of a store keep `Sound` (a counter, a success, a failure, a withdrawal, a merge, a new memory, a new skill); each action is one of them for both stores. |
| `PortableSkillsFromActive` (`PortableFromActive`), `FrozenRecordsAreRead` (`FrozenOnlyReads`) | action by action, from `KnowledgeInv`: only `SaveNewSkill` adds a skill, by `MadeInv` one whose sources were active when the model had answered, because memories are only withdrawn between that and the validation; a process with frozen records is never where records change. |
| `CountsAreLogged` (`CountsMatchUses`) | `CountInv`. `LogInv`: the log is finite and names records that exist. `CopyInv`: a use in hand is not in the log, and a copy in hand, for whatever it was loaded, has the counters of its record whatever was withdrawn meanwhile. `BalanceInv`: no counter is behind the log, and the uses that have no row are as many as the crashes, and one more between the two writes of a use. These are counted as elements of a finite set, `Missing`, of pairs of a counter and a number: saving a use adds one pair, its row removes it, and all other steps are `Quiet`. The harm of skills is not among these counters. |
| `ContextTypeCorrect` (`TypeOK`) | from `ContextInv`, whose parts follow. |
| `StaleTurnsAreMarked` (`StaleIsMarked`) | `ObservationInv`: an observation that is old without meddling has the write that outdated it *later in the buffer* (a reset drops both or neither), so `Refreshed` finds it, and a pruned request shows the turn as stale unless the pruner leaves it in full. For verifications the tracker's epoch must not lag: `TrackerInv` bounds `code_epoch` by the tracker's epoch plus the writes it has not counted. |
| `FreshTurnsAreKept` (`FreshIsKept`) | the other direction: a write after a read or verification makes it obsolete; steps of dropped turns stay in the tracker, but steps are never used again (`LogInv`). |
| `HardStopHolds` (`NeverOverHardStop`) | `RequestInv`, over the five places where `prepare` sends a request. |
| `HandoffsAreTrue` (`HandoffIsTrue`) | the last write of a file, or else its first read, has the file's version or, after a write without a change, that of its text, by `ObservationInv`; in the first segment every file written has a write in the buffer. |
| `SegmentsAreRecorded` (`SegmentsHaveHandoffs`) | `SegmentInv`: the length of the log by segment and location. |

Every invariant, action property and refinement that a passing run checks is stated by a theorem, three
of them (`SessionLogComplete`, `NoDependencyDeadlock`, `SuccessIsVerified`) for the configurations named
in the table, because the code does not keep them in the others. Liveness (`RunsReturn`,
`SessionEnds`, `VerificationEnds`) stays with TLC: the prover does not treat fairness. The code has no recursion that
matters beyond walks over the task list, which are written as functions.

## 6. What is not modelled

The sandbox, path policies and providers (operating-system and network I/O: their results are
choices); telemetry and evaluations (nothing reads them back); validation of settings, rendering,
counting of tokens and scores of retrieval (choices); the inside of the planners' validators, which is
planned below; planning mode `disabled`. `Orchestrator`, `Session`, `Context` and `Knowledge` are composed
only through what they promise one another: a session loses nothing but itself when the context
raises, and knowledge never touches the project state.

## 7. Plan

Ordered by how much of the program's own behaviour depends on it.

1. `TaskState`, `Orchestrator` and their proofs: done.
2. `Session`, `AgentSession` and their proofs: done.
3. `Decision`, `Verification` and their proofs: done. To add: that `Orchestrator`'s verdicts on a
   project are those of `Verification` (a refinement with `open` as the image of its leaves).
4. `KnowledgeStore`, `Knowledge` and their proofs: done.
5. `Context` and its proofs: done.
6. `Planning`: the validators as recursion-free functions checked against a reference definition of
   acyclicity and of the limits, decomposer retries, recovery candidates and their selection.
7. `DurableProject`, implemented by `Orchestrator`, and its proof: done.
