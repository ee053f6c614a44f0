---------------------------- MODULE Verification ----------------------------
(***************************************************************************)
(* The independent verification of a project contract: how                 *)
(* _initialize_verification (orchestration/orchestrator.py) freezes the    *)
(* contract and takes the baseline, how VerificationGateway.verify         *)
(* (verification/gateway.py) compares a copy of the workspace with it, and *)
(* how the verdict reaches the project state, across processes that may    *)
(* die between any two steps.                                              *)
(*                                                                         *)
(* The tasks of a project are represented by one fact, whether a leaf is   *)
(* still open; Orchestrator has the rest.  The agent changes the workspace *)
(* only in a session.  Outcomes gives, for each check, how it may end in a *)
(* copy of a tree.                                                         *)
(***************************************************************************)
EXTENDS Decision

CONSTANTS
    Path,           \* paths of the workspace
    Trees,          \* bound: trees an agent may produce
    Original,       \* the workspace when the project is started
    None,           \* no tree: there is no such file or directory
    Torn,           \* a directory or file that was not completely written
    Contracts,      \* the checks of the contracts a project may have
    Outcomes(_, _), \* outcomes of a check in a tree
    Rules,          \* integrity_rules of the contract
    Made,           \* paths hidden assets and checks add to the candidate copy
    MaxAttempts,    \* verification.policy.max_project_verification_attempts
    PreserveFailed, \* verification.execution.preserve_failed_snapshot
    FreezeRepeats   \* does the configured contract name its own frozen_at?

Tree == [Path -> Nat]

ASSUME VerificationAssumption ==
    /\ Trees \subseteq Tree /\ Original \in Trees
    /\ None \notin Tree /\ Torn \notin Tree /\ None # Torn
    /\ \A cs \in Contracts :
          /\ cs \in [DOMAIN cs -> VerificationCheck]
          /\ \A k \in DOMAIN cs, tree \in Trees :
                Outcomes(k, tree) \subseteq ExecutionStatus \ {"skipped"}
    /\ Rules \in IntegrityRules(Path)
    /\ Made \subseteq Path
    /\ MaxAttempts \in Nat \ {0}
    /\ PreserveFailed \in BOOLEAN
    /\ FreezeRepeats \in BOOLEAN

VerificationVerdict ==
    {"verified", "partial", "reopened", "inconclusive",
     "infrastructure_error", "contract_invalid"}

ProjectStatus ==
    {"active", "candidate_complete", "verification_pending", "verified",
     "partially_verified", "verification_inconclusive"}

\* What is kept of a VerificationReport: its verdict, "none" where there is no
\* report, and the tree of its candidate_fingerprint.
NoReport == [verdict |-> "none", tree |-> None]

Report == [verdict : VerificationVerdict \cup {"none"}, tree : Trees \cup {None}]

\* What is kept of a ProjectState.
ProjectState ==
    [contractId : BOOLEAN,   \* project_verification_contract_id is set
     status     : ProjectStatus,
     open       : BOOLEAN,   \* a leaf task is not complete
     attempts   : Nat,       \* project_verification_attempts
     report     : Report]    \* what latest_project_verification_report_id names

NewProject ==
    [contractId |-> FALSE, status |-> "active", open |-> TRUE, attempts |-> 0,
     report |-> NoReport]

VARIABLES
    pc,         \* where the process is; "down" when there is none
    failure,    \* the exception that ended it, "none"
    mem,        \* its ProjectState
    disk,       \* project_state.json
    workspace,  \* the tree the agent works on
    checks,     \* the checks of the contract the process works with
    contract,   \* the contract files of the verification store
    snapshot,   \* baseline/snapshot
    manifest,   \* baseline/manifest.json
    report,     \* the last report saved
    tests,      \* the test candidate of the agent in the store
    candidate,  \* the tree of the candidate copy of this verification
    copies,     \* working copies of this verification that exist
    before,     \* baseline_results
    after,      \* candidate_results
    verdict     \* the verdict reached

state    == <<mem, disk>>
project  == <<mem, disk, workspace>>
baseline == <<snapshot, manifest>>
results  == <<candidate, before, after>>
call     == <<results, copies, verdict>>
gateway  == <<report, tests, call>>
vars     == <<pc, failure, project, checks, contract, baseline, gateway>>

Location ==
    {"down", "init", "frozen", "invalid", "baseline", "copying", "manifest",
     "writing", "run", "session", "registered", "finalize", "ensure",
     "candidate", "working", "checks", "after", "tests", "report", "cleanup",
     "apply", "returned", "raised"}

Failure == {"none", "contract_modified", "snapshot", "torn_manifest", "check"}

\* The contract files: one with the hash of its text ("frozen"), rewritten with
\* its hash left as it was ("edited") or computed again ("replaced"), or joined
\* by a later version whose hash is not ("shadowed") or is ("superseded") that
\* of its own text.
ContractFiles ==
    {"absent", "frozen", "edited", "replaced", "shadowed", "superseded"}

\* The file of the version the configuration names is what freeze wrote.
Untouched == {"frozen", "shadowed", "superseded"}

\* The version load_contract picks, the last one, has the hash of its own text:
\* verify_contract_hash compares it with nothing else.
Matching == {"frozen", "replaced", "superseded"}

-----------------------------------------------------------------------------
Goto(next) == pc' = next /\ UNCHANGED <<failure, checks>>

\* An exception nobody catches.
Raise(what) == pc' = "raised" /\ failure' = what /\ UNCHANGED checks

\* ProjectStateStore.save
Save(S, next) == mem' = S /\ disk' = S /\ Goto(next)

SkippedOf(cs) == [k \in DOMAIN cs |-> "skipped"]

Skipped == SkippedOf(checks)

Init ==
    /\ pc = "down" /\ failure = "none"
    /\ mem = NewProject /\ disk = NewProject
    /\ workspace = Original
    /\ checks \in Contracts /\ contract = "absent"
    /\ snapshot = None /\ manifest = None
    /\ report = NoReport /\ tests = "none"
    /\ candidate = None /\ copies = {} /\ verdict = "none"
    /\ before = Skipped /\ after = Skipped

\* start or resume
Start ==
    /\ pc = "down"
    /\ mem' = disk
    /\ Goto("init")
    /\ UNCHANGED <<disk, workspace, contract, baseline, gateway>>

-----------------------------------------------------------------------------
\* _initialize_verification: the contract.

\* save_contract accepts an existing file only if it equals what freeze makes
\* of the configured contract, which includes frozen_at.
FreezeContract ==
    /\ pc = "init" /\ ~mem.contractId
    /\ contract = "absent" \/ (contract \in Untouched /\ FreezeRepeats)
    /\ contract' = IF contract = "absent" THEN "frozen" ELSE contract
    /\ Goto("frozen")
    /\ UNCHANGED <<project, baseline, gateway>>

ContractModified ==
    /\ pc = "init" /\ ~mem.contractId
    /\ contract # "absent"
    /\ contract \in Untouched => ~FreezeRepeats
    /\ Raise("contract_modified")
    /\ UNCHANGED <<project, contract, baseline, gateway>>

RecordContract ==
    /\ pc = "frozen"
    /\ Save([mem EXCEPT !.contractId = TRUE], "baseline")
    /\ UNCHANGED <<workspace, contract, baseline, gateway>>

\* The contract that is loaded may be another one than the one that was frozen,
\* of other checks; its rules are taken to be the same.
ContractLoaded ==
    /\ pc = "init" /\ mem.contractId /\ contract \in Matching
    /\ checks' \in IF contract = "frozen" THEN {checks} ELSE Contracts
    /\ before' = SkippedOf(checks') /\ after' = SkippedOf(checks')
    /\ pc' = "baseline"
    /\ UNCHANGED <<failure, project, contract, baseline, report, tests, candidate,
                   copies, verdict>>

\* A contract whose hash is not that of its text: the gateway saves a report ...
ContractInvalid ==
    /\ pc = "init" /\ mem.contractId /\ contract \notin Matching
    /\ report' = [verdict |-> "contract_invalid", tree |-> None]
    /\ Goto("invalid")
    /\ UNCHANGED <<project, contract, baseline, tests, call>>

\* ... and the project ends.
SaveInvalid ==
    /\ pc = "invalid"
    /\ Save([mem EXCEPT !.status = "verification_inconclusive",
                        !.report = report], "returned")
    /\ UNCHANGED <<workspace, contract, baseline, gateway>>

-----------------------------------------------------------------------------
\* _initialize_verification: the baseline.  A snapshot without a manifest is
\* removed and copied again; the manifest is written in place.

BaselineFound ==
    /\ pc = "baseline" /\ manifest # None
    /\ Goto("run")
    /\ UNCHANGED <<project, contract, baseline, gateway>>

\* Mutant: the baseline is left to the first verification.
BeginSnapshotLazily ==
    /\ pc = "baseline" /\ manifest = None
    /\ Goto("run")
    /\ UNCHANGED <<project, contract, baseline, gateway>>

BeginSnapshot ==
    /\ pc = "baseline" /\ manifest = None
    /\ snapshot' = Torn
    /\ Goto("copying")
    /\ UNCHANGED <<project, contract, manifest, gateway>>

EndSnapshot ==
    /\ pc = "copying"
    /\ snapshot' = workspace
    /\ Goto("manifest")
    /\ UNCHANGED <<project, contract, manifest, gateway>>

\* A file cannot be copied, or a link leads out of the workspace.
SnapshotFails ==
    /\ pc = "copying"
    /\ Raise("snapshot")
    /\ UNCHANGED <<project, contract, baseline, gateway>>

BeginManifest ==
    /\ pc = "manifest"
    /\ manifest' = Torn
    /\ Goto("writing")
    /\ UNCHANGED <<project, contract, snapshot, gateway>>

EndManifest ==
    /\ pc = "writing"
    /\ manifest' = snapshot
    /\ Goto("run")
    /\ UNCHANGED <<project, contract, snapshot, gateway>>

-----------------------------------------------------------------------------
\* run_project.

\* A session of the agent begins: a leaf is open.
BeginSession ==
    /\ pc = "run" /\ mem.open /\ mem.status # "verification_pending"
    /\ Goto("session")
    /\ UNCHANGED <<project, contract, baseline, gateway>>

EditWorkspace ==
    /\ pc = "session"
    /\ workspace' \in Trees
    /\ Goto("session")
    /\ UNCHANGED <<state, contract, baseline, gateway>>

\* _validate_registered_test_candidate saves the candidate, ...
RegisterTest ==
    /\ pc = "session"
    /\ tests' = "registered"
    /\ Goto("registered")
    /\ UNCHANGED <<project, contract, baseline, report, call>>

\* ... runs it in copies of both trees and saves the result; ToolRouter catches
\* what is raised on the way.
ValidateRegisteredTest ==
    /\ pc = "registered"
    /\ tests' \in {"registered", "validated"}
    /\ Goto("session")
    /\ UNCHANGED <<project, contract, baseline, report, call>>

\* The session leaves open leaves.
EndSession ==
    /\ pc = "session"
    /\ Save(mem, "run")
    /\ UNCHANGED <<workspace, contract, baseline, gateway>>

\* The session completes the last leaf.
CompleteLastTask ==
    /\ pc = "session"
    /\ mem' = [mem EXCEPT !.open = FALSE]
    /\ Goto("finalize")
    /\ UNCHANGED <<disk, workspace, contract, baseline, gateway>>

\* select_next finds every leaf complete.
NothingLeft ==
    /\ pc = "run" /\ ~mem.open /\ mem.status # "verification_pending"
    /\ Save([mem EXCEPT !.status = "candidate_complete"], "finalize")
    /\ UNCHANGED <<workspace, contract, baseline, gateway>>

\* A verification that lacked infrastructure is repeated.
ResumeVerification ==
    /\ pc = "run" /\ mem.status = "verification_pending"
    /\ Goto("finalize")
    /\ UNCHANGED <<project, contract, baseline, gateway>>

\* A limit is reached, or no leaf can be worked on.
StopRun ==
    /\ pc = "run" /\ mem.open
    /\ Goto("returned")
    /\ UNCHANGED <<project, contract, baseline, gateway>>

-----------------------------------------------------------------------------
\* _finalize_contract_verification.

AttemptsSpent ==
    /\ pc = "finalize" /\ mem.attempts >= MaxAttempts
    /\ Save([mem EXCEPT !.status = "verification_inconclusive"], "returned")
    /\ UNCHANGED <<workspace, contract, baseline, gateway>>

BeginVerification ==
    /\ pc = "finalize" /\ mem.attempts < MaxAttempts
    /\ mem' = [mem EXCEPT !.status = "verification_pending", !.attempts = @ + 1]
    /\ candidate' = None /\ copies' = {} /\ verdict' = "none"
    /\ before' = Skipped /\ after' = Skipped
    /\ Goto("ensure")
    /\ UNCHANGED <<disk, workspace, contract, baseline, report, tests>>

\* Mutant: the verdict itself becomes the status of the project.
StatusAfterVerbatim(v) == v

StatusAfter(v) ==
    CASE v = "verified" -> "verified"
      [] v = "partial" -> "partially_verified"
      [] v = "reopened" -> "active"
      [] v = "infrastructure_error" -> "verification_pending"
      [] OTHER -> "verification_inconclusive"

\* After a PARTIAL or REOPENED verdict a leaf is reopened, or blocked.
ApplyVerdict ==
    /\ pc = "apply"
    /\ Save([mem EXCEPT !.status = StatusAfter(verdict),
                        !.open = verdict \in {"partial", "reopened"},
                        !.report = report], "returned")
    /\ UNCHANGED <<workspace, contract, baseline, gateway>>

-----------------------------------------------------------------------------
\* VerificationGateway.verify.

\* _ensure_baseline creates a baseline that does not exist, but does not look
\* into one that does.
EnsureBaseline ==
    /\ pc = "ensure" /\ manifest # Torn
    /\ LET missing == manifest = None
       IN  /\ snapshot' = IF missing THEN workspace ELSE snapshot
           /\ manifest' = IF missing THEN workspace ELSE manifest
    /\ Goto("candidate")
    /\ UNCHANGED <<project, contract, gateway>>

TornManifest ==
    /\ pc = "ensure" /\ manifest = Torn
    /\ Raise("torn_manifest")
    /\ UNCHANGED <<project, contract, baseline, gateway>>

CopyCandidate ==
    /\ pc = "candidate"
    /\ candidate' = workspace /\ copies' = copies \cup {"candidate"}
    /\ Goto("working")
    /\ UNCHANGED <<project, contract, baseline, report, tests, before, after, verdict>>

\* create_baseline_working_copy and the injection of hidden assets.
CopyBaseline ==
    /\ pc = "working"
    /\ copies' = copies \cup {"baseline"}
    /\ Goto("checks")
    /\ UNCHANGED <<project, contract, baseline, report, tests, results, verdict>>

\* Outcomes of the checks that run in a copy of a tree.
Runs(workspaceKind, tree) ==
    {r \in [DOMAIN checks -> ExecutionStatus] :
        \A k \in DOMAIN checks :
            IF k \in RunIn(checks, workspaceKind) THEN r[k] \in Outcomes(k, tree)
                                                 ELSE r[k] = "skipped"}

RunBaselineChecks ==
    /\ pc = "checks"
    /\ before' \in Runs("baseline", snapshot)
    /\ Goto("after")
    /\ UNCHANGED <<project, contract, baseline, report, tests, candidate, after,
                   copies, verdict>>

\* The checks in the candidate copy, the finally clause that removes the copy of
\* the baseline, and the decision.
RunCandidateChecks ==
    /\ pc = "after"
    /\ after' \in Runs("candidate", candidate)
    /\ copies' = copies \ {"baseline"}
    /\ verdict' = Decide(checks, before, after',
                         Violations(manifest, candidate, Made, Rules) = {})
    /\ Goto("tests")
    /\ UNCHANGED <<project, contract, baseline, report, tests, candidate, before>>

\* _validate_candidates: a candidate that was never validated is validated now.
ValidateTests ==
    /\ pc = "tests"
    /\ tests' \in IF tests = "registered" THEN {"registered", "validated"} ELSE {tests}
    /\ Goto("report")
    /\ UNCHANGED <<project, contract, baseline, report, call>>

\* Where verify makes copies of trees or runs commands.  The last step does so
\* only for a test candidate that was never validated.
Fallible ==
    \/ pc \in {"candidate", "working", "checks", "after"}
    \/ pc = "tests" /\ tests = "registered"

\* Mutant: the copy of the baseline is removed only after the checks have run.
InfrastructureFailsUncleaned ==
    /\ Fallible
    /\ verdict' = "infrastructure_error"
    /\ Goto("report")
    /\ UNCHANGED <<project, contract, baseline, report, tests, results, copies>>

\* Mutant: a verification that lacks infrastructure is tried again at once.
InfrastructureRetried ==
    /\ Fallible
    /\ verdict' = "infrastructure_error"
    /\ copies' = copies \ {"baseline"}
    /\ Goto("ensure")
    /\ UNCHANGED <<project, contract, baseline, report, tests, results>>

\* OSError and SnapshotError become a report; a copy that failed half way stays.
InfrastructureFails ==
    /\ Fallible
    /\ verdict' = "infrastructure_error"
    /\ \E torn \in SUBSET IF pc \in {"candidate", "working"} THEN {"torn"} ELSE {} :
          copies' = (copies \ {"baseline"}) \cup torn
    /\ Goto("report")
    /\ UNCHANGED <<project, contract, baseline, report, tests, results>>

\* Output that is not UTF-8 makes subprocess.run raise what verify does not
\* catch; only the copies of the baseline are removed.
CheckRaises ==
    /\ Fallible /\ pc \notin {"candidate", "working"}
    /\ copies' = copies \ {"baseline"}
    /\ Raise("check")
    /\ UNCHANGED <<project, contract, baseline, report, tests, results, verdict>>

\* Mutant: the report names the tree of the baseline.
SaveReportOfBaseline ==
    /\ pc = "report"
    /\ report' = [verdict |-> verdict, tree |-> snapshot]
    /\ Goto("cleanup")
    /\ UNCHANGED <<project, contract, baseline, tests, call>>

SaveReport ==
    /\ pc = "report"
    /\ report' = [verdict |-> verdict, tree |-> candidate]
    /\ Goto("cleanup")
    /\ UNCHANGED <<project, contract, baseline, tests, call>>

Cleanup ==
    /\ pc = "cleanup"
    /\ copies' = IF verdict = "verified" \/ ~PreserveFailed
                 THEN copies \ {"candidate"} ELSE copies
    /\ Goto("apply")
    /\ UNCHANGED <<project, contract, baseline, report, tests, results, verdict>>

-----------------------------------------------------------------------------
Stop ==
    /\ pc' = "down" /\ failure' = "none"
    /\ mem' = NewProject
    /\ candidate' = None /\ copies' = {} /\ verdict' = "none"
    /\ before' = Skipped /\ after' = Skipped
    /\ UNCHANGED <<disk, workspace, checks, contract, baseline, report, tests>>

Exit == pc \in {"returned", "raised"} /\ Stop

Crash == pc \notin {"down", "returned", "raised"} /\ Stop

\* Someone rewrites the frozen contract, or adds a version to it; a process that
\* loaded it keeps its own.
EditContract ==
    /\ contract = "frozen"
    /\ contract' \in ContractFiles \ {"absent", "frozen"}
    /\ UNCHANGED <<pc, failure, project, checks, baseline, gateway>>

Initialize ==
    \/ FreezeContract \/ ContractModified \/ RecordContract
    \/ ContractLoaded \/ ContractInvalid \/ SaveInvalid
    \/ BaselineFound \/ BeginSnapshot \/ EndSnapshot \/ SnapshotFails
    \/ BeginManifest \/ EndManifest

Run ==
    \/ BeginSession \/ EditWorkspace \/ RegisterTest \/ ValidateRegisteredTest
    \/ EndSession \/ CompleteLastTask \/ NothingLeft \/ ResumeVerification
    \/ StopRun

Verify ==
    \/ AttemptsSpent \/ BeginVerification
    \/ EnsureBaseline \/ TornManifest \/ CopyCandidate \/ CopyBaseline
    \/ RunBaselineChecks \/ RunCandidateChecks \/ ValidateTests
    \/ InfrastructureFails \/ CheckRaises \/ SaveReport \/ Cleanup
    \/ ApplyVerdict

Next == Start \/ Initialize \/ Run \/ Verify \/ Exit \/ Crash \/ EditContract

Spec == Init /\ [][Next]_vars

\* A running verification is scheduled: each check has a timeout.
FairSpec == Spec /\ WF_vars(Verify)

-----------------------------------------------------------------------------
\* Properties.

\* Every variable keeps its type, and every verdict has a project status.
TypeOK ==
    /\ pc \in Location
    /\ failure \in Failure
    /\ mem \in ProjectState
    /\ disk \in ProjectState
    /\ workspace \in Trees
    /\ checks \in Contracts
    /\ contract \in ContractFiles
    /\ snapshot \in Trees \cup {None, Torn}
    /\ manifest \in Trees \cup {None, Torn}
    /\ report \in Report
    /\ tests \in {"none", "registered", "validated"}
    /\ candidate \in Trees \cup {None}
    /\ copies \subseteq {"candidate", "baseline", "torn"}
    /\ before \in [DOMAIN checks -> ExecutionStatus]
    /\ after \in [DOMAIN checks -> ExecutionStatus]
    /\ verdict \in VerificationVerdict \cup {"none"}

\* The baseline that verifications compare with is the workspace as it was
\* before the agent's first session, also when processes died while they froze
\* the contract, copied the workspace or wrote the manifest.
BaselineIsOriginal ==
    manifest \in Tree => manifest = Original /\ snapshot = Original

\* A VERIFIED verdict means that in the workspace, as it is, the required
\* regressions of the contract the process works with still pass, what had to be
\* resolved failed before the agent's work and passes now, and no protected file
\* of the original workspace was changed or deleted.
VerifiedIsDeserved ==
    verdict = "verified" /\ pc \in {"tests", "report", "cleanup", "apply"} =>
        /\ \A k \in Resolution(checks) :
              before[k] = "failed" /\ after[k] \in Outcomes(k, workspace) \cap {"passed"}
        /\ \A k \in Regression(checks) :
              before[k] = "passed" /\ after[k] \in Outcomes(k, workspace) \cap {"passed"}
        /\ \A p \in Rules.protected \cup Rules.trusted :
              Original[p] # 0 => workspace[p] = Original[p]

\* A project that is saved as verified has a saved VERIFIED report, and that
\* report is about the workspace as it is.
VerifiedTreeIsCurrent ==
    disk.status = "verified" =>
        disk.report = [verdict |-> "verified", tree |-> workspace]

\* A verification that ends, with a verdict or an exception, leaves no copy of
\* the baseline; if it verified the workspace, it leaves no copy at all.
CopiesRemoved ==
    /\ pc \in {"tests", "report", "cleanup", "apply", "raised"} => "baseline" \notin copies
    /\ pc = "apply" /\ verdict = "verified" => copies = {}

\* A verification ends, whatever its checks do.
VerificationEnds == pc = "ensure" ~> pc \in {"returned", "raised", "down"}

-----------------------------------------------------------------------------
\* What the repository says of the program and the program does not do.

\* An interrupted project is resumed with its project id (README.md); only a
\* frozen contract that was modified is refused (store.py).
InterruptionIsRecoverable ==
    failure \in {"contract_modified", "torn_manifest"} => contract \notin Untouched
=============================================================================
