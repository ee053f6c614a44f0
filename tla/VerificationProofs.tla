------------------------- MODULE VerificationProofs -------------------------
(***************************************************************************)
(* Proofs about Decision and Verification: what a VERIFIED verdict means,  *)
(* and that it is about the workspace as it is, compared with the          *)
(* workspace as it was.                                                    *)
(***************************************************************************)
EXTENDS Verification, TLAPS

-----------------------------------------------------------------------------
\* The decision.

LEMMA DecideType ==
    ASSUME NEW cs, NEW b, NEW c, NEW clean
    PROVE  Decide(cs, b, c, clean) \in VerificationVerdict
BY DEF Decide, VerificationVerdict

\* A VERIFIED verdict, for every contract and all outcomes: the tree is intact,
\* something was required, and each required check went as its kind demands.
THEOREM VerifiedMeansRequired ==
    ASSUME NEW cs, NEW b, NEW c, NEW clean \in BOOLEAN,
           Decide(cs, b, c, clean) = "verified"
    PROVE  /\ clean
           /\ Resolution(cs) \cup Regression(cs) \cup CandidateOnly(cs) # {}
           /\ \A k \in Resolution(cs) : b[k] = "failed" /\ c[k] = "passed"
           /\ \A k \in Regression(cs) : b[k] = "passed" /\ c[k] = "passed"
           /\ \A k \in CandidateOnly(cs) : c[k] = "passed"
<1> DEFINE required == Resolution(cs) \cup Regression(cs) \cup CandidateOnly(cs)
           passed   == Resolved(cs, b, c) \cup Preserved(cs, b, c) \cup Achieved(cs, c)
<1>1. clean /\ required # {} /\ passed = required
  BY DEF Decide
<1>2. /\ Resolution(cs) \cap Regression(cs) = {}
      /\ Resolution(cs) \cap CandidateOnly(cs) = {}
      /\ Regression(cs) \cap CandidateOnly(cs) = {}
  BY DEF Resolution, Regression, CandidateOnly, Required
<1>3. /\ Resolved(cs, b, c) \subseteq Resolution(cs)
      /\ Preserved(cs, b, c) \subseteq Regression(cs)
      /\ Achieved(cs, c) \subseteq CandidateOnly(cs)
  BY DEF Resolved, Preserved, Achieved
<1>4. /\ Resolved(cs, b, c) = Resolution(cs)
      /\ Preserved(cs, b, c) = Regression(cs)
      /\ Achieved(cs, c) = CandidateOnly(cs)
  BY <1>1, <1>2, <1>3
<1>5. ASSUME NEW o
      PROVE  /\ StateLetter(o) = "P" => o = "passed"
             /\ StateLetter(o) = "F" => o = "failed"
  BY DEF StateLetter
<1>6. \A k \in Resolution(cs) : b[k] = "failed" /\ c[k] = "passed"
  BY <1>4, <1>5 DEF Resolved, Transition
<1>7. \A k \in Regression(cs) : b[k] = "passed" /\ c[k] = "passed"
  BY <1>4, <1>5 DEF Preserved, Transition
<1>8. \A k \in CandidateOnly(cs) : c[k] = "passed"
  BY <1>4 DEF Achieved
<1> QED BY <1>1, <1>6, <1>7, <1>8

\* A tree without violations has every protected and every trusted file of the
\* tree it is compared with.
LEMMA IntactFiles ==
    ASSUME NEW old \in Tree, NEW new \in Tree,
           Violations(old, new, Made, Rules) = {},
           NEW p \in Rules.protected \cup Rules.trusted,
           old[p] # 0, p \in Path
    PROVE  new[p] = old[p]
<1> SUFFICES ASSUME new[p] # old[p] PROVE FALSE
  OBVIOUS
<1>1. p \in Changed(old, new) \cup Deleted(old, new)
  BY DEF Changed, Deleted, Files, Tree
<1>2. CASE p \in Rules.protected
  <2>1. "protected_path_modified" \in Violations(old, new, Made, Rules)
    BY <1>1, <1>2 DEF Violations
  <2> QED BY <2>1
<1>3. CASE p \in Rules.trusted
  <2>1. "trusted_test_modified" \in Violations(old, new, Made, Rules)
    BY <1>1, <1>3 DEF Violations
  <2> QED BY <2>1
<1> QED BY <1>2, <1>3

-----------------------------------------------------------------------------
\* Types.

LEMMA NewProjectType == NewProject \in ProjectState
BY DEF NewProject, ProjectState, ProjectStatus, NoReport, Report

LEMMA SkippedOfType == ASSUME NEW cs PROVE SkippedOf(cs) \in [DOMAIN cs -> ExecutionStatus]
BY DEF SkippedOf, ExecutionStatus

LEMMA SkippedType == Skipped \in [DOMAIN checks -> ExecutionStatus]
BY SkippedOfType DEF Skipped

LEMMA InitType == Init => TypeOK
BY NewProjectType, SkippedType, VerificationAssumption
   DEF Init, TypeOK, Location, Failure, NoReport, Report, ContractFiles

LEMMA TypeStep == TypeOK /\ [Next]_vars => TypeOK'
<1> SUFFICES ASSUME TypeOK, [Next]_vars PROVE TypeOK'
  OBVIOUS
<1> USE DEF TypeOK, Location, state, project, baseline, results, call, gateway
<1>1. CASE UNCHANGED vars
  BY <1>1 DEF vars
<1>2. CASE Start
  BY <1>2 DEF Start, Goto
<1>3. CASE Initialize
  <2>1. CASE FreezeContract \/ BaselineFound
    BY <2>1 DEF FreezeContract, BaselineFound, Goto, ContractFiles
  <2>7. CASE ContractLoaded
    <3>1. /\ before' \in [DOMAIN checks' -> ExecutionStatus]
          /\ after' \in [DOMAIN checks' -> ExecutionStatus]
      BY <2>7, SkippedOfType DEF ContractLoaded
    <3>2. checks' \in Contracts
      BY <2>7 DEF ContractLoaded
    <3> QED BY <2>7, <3>1, <3>2 DEF ContractLoaded
  <2>2. CASE ContractModified \/ SnapshotFails
    BY <2>2 DEF ContractModified, SnapshotFails, Raise, Failure
  <2>3. CASE RecordContract
    BY <2>3 DEF RecordContract, Save, Goto, ProjectState
  <2>4. CASE ContractInvalid
    BY <2>4 DEF ContractInvalid, Goto, Report, VerificationVerdict
  <2>5. CASE SaveInvalid
    BY <2>5 DEF SaveInvalid, Save, Goto, ProjectState, ProjectStatus
  <2>6. CASE BeginSnapshot \/ EndSnapshot \/ BeginManifest \/ EndManifest
    BY <2>6 DEF BeginSnapshot, EndSnapshot, BeginManifest, EndManifest, Goto
  <2> QED BY <1>3, <2>1, <2>2, <2>3, <2>4, <2>5, <2>6, <2>7 DEF Initialize
<1>4. CASE Run
  <2>1. CASE BeginSession \/ EditWorkspace \/ RegisterTest \/ ValidateRegisteredTest
             \/ ResumeVerification \/ StopRun
    BY <2>1 DEF BeginSession, EditWorkspace, RegisterTest, ValidateRegisteredTest,
                ResumeVerification, StopRun, Goto
  <2>2. CASE EndSession \/ CompleteLastTask \/ NothingLeft
    BY <2>2 DEF EndSession, CompleteLastTask, NothingLeft, Save, Goto, ProjectState,
                ProjectStatus
  <2> QED BY <1>4, <2>1, <2>2 DEF Run
<1>5. CASE Verify
  <2>1. CASE AttemptsSpent
    BY <2>1 DEF AttemptsSpent, Save, Goto, ProjectState, ProjectStatus
  <2>2. CASE BeginVerification
    <3> DEFINE attempts == mem.attempts + 1
    <3>0. attempts \in Nat
      BY DEF ProjectState
    <3> HIDE DEF attempts
    <3>1. mem' \in ProjectState
      <4>1. mem' = [mem EXCEPT !.status = "verification_pending", !.attempts = attempts]
        BY <2>2 DEF BeginVerification, attempts
      <4>2. "verification_pending" \in ProjectStatus
        BY DEF ProjectStatus
      <4> QED BY <3>0, <4>1, <4>2 DEF ProjectState
    <3>2. /\ before' \in [DOMAIN checks' -> ExecutionStatus]
          /\ after' \in [DOMAIN checks' -> ExecutionStatus]
      BY <2>2, SkippedType DEF BeginVerification, Goto
    <3> QED BY <2>2, <3>1, <3>2 DEF BeginVerification, Goto
  <2>3. CASE EnsureBaseline \/ CopyCandidate \/ CopyBaseline
    BY <2>3 DEF EnsureBaseline, CopyCandidate, CopyBaseline, Goto
  <2>4. CASE TornManifest \/ CheckRaises
    BY <2>4 DEF TornManifest, CheckRaises, Raise, Failure
  <2>5. CASE RunBaselineChecks
    BY <2>5 DEF RunBaselineChecks, Runs, Goto
  <2>6. CASE RunCandidateChecks
    <3>1. verdict' \in VerificationVerdict
      BY <2>6, DecideType DEF RunCandidateChecks
    <3> QED BY <2>6, <3>1 DEF RunCandidateChecks, Runs, Goto
  <2>7. CASE ValidateTests \/ SaveReport
    <3>1. CASE ValidateTests
      BY <3>1 DEF ValidateTests, Goto
    <3>2. CASE SaveReport
      <4>1. report' \in Report
        BY <3>2 DEF SaveReport, Report
      <4> QED BY <3>2, <4>1 DEF SaveReport, Goto
    <3> QED BY <2>7, <3>1, <3>2
  <2>8. CASE InfrastructureFails \/ Cleanup
    BY <2>8 DEF InfrastructureFails, Cleanup, Goto, VerificationVerdict
  <2>9. CASE ApplyVerdict
    <3>1. StatusAfter(verdict) \in ProjectStatus
      BY DEF StatusAfter, ProjectStatus
    <3>2. (verdict \in {"partial", "reopened"}) \in BOOLEAN
      OBVIOUS
    <3>3. mem' \in ProjectState /\ disk' = mem'
      BY <2>9, <3>1, <3>2 DEF ApplyVerdict, Save, ProjectState
    <3> QED BY <2>9, <3>3 DEF ApplyVerdict, Save, Goto
  <2> QED BY <1>5, <2>1, <2>2, <2>3, <2>4, <2>5, <2>6, <2>7, <2>8, <2>9 DEF Verify
<1>6. CASE Exit \/ Crash
  <2>1. /\ before' \in [DOMAIN checks' -> ExecutionStatus]
        /\ after' \in [DOMAIN checks' -> ExecutionStatus]
    BY <1>6, SkippedType DEF Exit, Crash, Stop
  <2> QED BY <1>6, <2>1, NewProjectType DEF Exit, Crash, Stop, Failure
<1>7. CASE EditContract
  BY <1>7 DEF EditContract
<1> QED BY <1>1, <1>2, <1>3, <1>4, <1>5, <1>6, <1>7 DEF Next

\* Every variable keeps its type, whatever the agent writes and the checks do.
THEOREM TypeCorrect == Spec => []TypeOK
BY InitType, TypeStep, PTL DEF Spec

-----------------------------------------------------------------------------
\* The baseline.  The agent changes the workspace only where a manifest exists,
\* and a manifest exists only beside a complete copy of the original workspace.

Comparing == {"candidate", "working", "checks", "after"}

Working ==
    Comparing \cup {"run", "session", "registered", "finalize", "ensure", "tests",
                    "report", "cleanup", "apply"}

BaselineInv ==
    /\ manifest \in {None, Torn, Original}
    /\ manifest # None => snapshot = Original
    /\ manifest = None => workspace = Original
    /\ pc \in {"copying", "manifest"} => manifest = None
    /\ pc \in {"manifest", "writing"} => snapshot = Original
    /\ pc \in Working => manifest # None
    /\ pc \in Comparing => manifest # Torn

LEMMA BaselineStep == TypeOK /\ BaselineInv /\ [Next]_vars => BaselineInv'
<1> SUFFICES ASSUME TypeOK, BaselineInv, [Next]_vars PROVE BaselineInv'
  OBVIOUS
<1> None # Torn /\ Original # None /\ Original # Torn
  BY VerificationAssumption
<1> USE DEF BaselineInv, Working, Comparing, Goto, Raise, Save,
            state, project, baseline, results, call, gateway
<1>1. CASE UNCHANGED vars
  BY <1>1 DEF vars
<1>2. CASE Start \/ EditContract
  BY <1>2 DEF Start, EditContract
<1>3. CASE Initialize
  <2>1. CASE FreezeContract \/ ContractModified \/ RecordContract
             \/ ContractLoaded \/ ContractInvalid \/ SaveInvalid
    BY <2>1 DEF FreezeContract, ContractModified, RecordContract,
                ContractLoaded, ContractInvalid, SaveInvalid
  <2>2. CASE BaselineFound
    BY <2>2 DEF BaselineFound
  <2>3. CASE BeginSnapshot \/ EndSnapshot \/ SnapshotFails
    BY <2>3 DEF BeginSnapshot, EndSnapshot, SnapshotFails
  <2>4. CASE BeginManifest \/ EndManifest
    BY <2>4 DEF BeginManifest, EndManifest
  <2> QED BY <1>3, <2>1, <2>2, <2>3, <2>4 DEF Initialize
<1>4. CASE Run
  BY <1>4 DEF Run, BeginSession, EditWorkspace, RegisterTest, ValidateRegisteredTest,
              EndSession, CompleteLastTask, NothingLeft, ResumeVerification, StopRun
<1>5. CASE Verify
  <2>1. CASE AttemptsSpent \/ BeginVerification \/ ApplyVerdict
    BY <2>1 DEF AttemptsSpent, BeginVerification, ApplyVerdict
  <2>2. CASE EnsureBaseline \/ TornManifest
    BY <2>2 DEF EnsureBaseline, TornManifest
  <2>3. CASE CopyCandidate \/ CopyBaseline \/ RunBaselineChecks \/ RunCandidateChecks
    BY <2>3 DEF CopyCandidate, CopyBaseline, RunBaselineChecks, RunCandidateChecks
  <2>4. CASE ValidateTests \/ InfrastructureFails \/ CheckRaises
    BY <2>4 DEF ValidateTests, InfrastructureFails, CheckRaises, Fallible
  <2>5. CASE SaveReport \/ Cleanup
    BY <2>5 DEF SaveReport, Cleanup
  <2> QED BY <1>5, <2>1, <2>2, <2>3, <2>4, <2>5 DEF Verify
<1>6. CASE Exit \/ Crash
  BY <1>6 DEF Exit, Crash, Stop
<1> QED BY <1>1, <1>2, <1>3, <1>4, <1>5, <1>6 DEF Next

LEMMA BaselineInvariant == Spec => []BaselineInv
<1>1. Init => BaselineInv
  BY VerificationAssumption DEF Init, BaselineInv, Working, Comparing
<1> QED BY <1>1, BaselineStep, TypeCorrect, PTL DEF Spec

\* The baseline is the workspace before the agent's first session, for any trees
\* the agent may write, and wherever processes died on the way to it.
THEOREM BaselineCorrect == Spec => []BaselineIsOriginal
<1>1. BaselineInv => BaselineIsOriginal
  BY VerificationAssumption DEF BaselineInv, BaselineIsOriginal
<1> QED BY <1>1, BaselineInvariant, PTL

-----------------------------------------------------------------------------
\* The verdict.  No session runs during a verification, so the candidate copy
\* stays a copy of the workspace.

CandidateInv ==
    /\ pc \in {"working", "checks", "after"} => candidate = workspace
    /\ pc \in {"tests", "report", "cleanup", "apply"} /\ verdict = "verified"
          => candidate = workspace
    /\ VerifiedIsDeserved

LEMMA VerdictDeserved ==
    ASSUME TypeOK, BaselineInv, CandidateInv, RunCandidateChecks
    PROVE  VerifiedIsDeserved'
<1> DEFINE clean == Violations(manifest, candidate, Made, Rules) = {}
<1>1. SUFFICES ASSUME verdict' = "verified"
      PROVE  /\ \A k \in Resolution(checks) :
                   /\ before[k] = "failed"
                   /\ after'[k] \in Outcomes(k, workspace) \cap {"passed"}
             /\ \A k \in Regression(checks) :
                   /\ before[k] = "passed"
                   /\ after'[k] \in Outcomes(k, workspace) \cap {"passed"}
             /\ \A p \in Rules.protected \cup Rules.trusted :
                   Original[p] # 0 => workspace[p] = Original[p]
  BY DEF VerifiedIsDeserved, RunCandidateChecks, Goto, project
<1>2. /\ candidate = workspace /\ manifest = Original
      /\ after' \in Runs("candidate", workspace)
      /\ Decide(checks, before, after', clean) = "verified"
  BY <1>1 DEF RunCandidateChecks, CandidateInv, BaselineInv, Working, Comparing
<1>3. clean \in BOOLEAN
  OBVIOUS
<1>4. /\ clean
      /\ \A k \in Resolution(checks) : before[k] = "failed" /\ after'[k] = "passed"
      /\ \A k \in Regression(checks) : before[k] = "passed" /\ after'[k] = "passed"
  <2> HIDE DEF clean
  <2> QED BY <1>2, <1>3, VerifiedMeansRequired
<1>5. ASSUME NEW k \in Resolution(checks) \cup Regression(checks)
      PROVE  after'[k] \in Outcomes(k, workspace)
  BY <1>2 DEF Runs, RunIn, Resolution, Regression, Required
<1>6. ASSUME NEW p \in Rules.protected \cup Rules.trusted, Original[p] # 0
      PROVE  workspace[p] = Original[p]
  <2>1. /\ Original \in Tree /\ workspace \in Tree /\ p \in Path
    BY VerificationAssumption DEF TypeOK, IntegrityRules
  <2>2. Violations(Original, workspace, Made, Rules) = {}
    BY <1>2, <1>4
  <2> QED BY <1>6, <2>1, <2>2, IntactFiles
<1> QED BY <1>4, <1>5, <1>6

LEMMA CandidateStep ==
    TypeOK /\ BaselineInv /\ CandidateInv /\ [Next]_vars => CandidateInv'
<1> SUFFICES ASSUME TypeOK, BaselineInv, CandidateInv, [Next]_vars PROVE CandidateInv'
  OBVIOUS
<1> USE DEF CandidateInv, Goto, Raise, Save, state, project, baseline, results, call,
            gateway
<1>1. CASE UNCHANGED vars
  BY <1>1 DEF vars, VerifiedIsDeserved
<1>2. CASE Start \/ EditContract
  BY <1>2 DEF Start, EditContract, VerifiedIsDeserved
<1>3. CASE Initialize
  BY <1>3 DEF Initialize, VerifiedIsDeserved, FreezeContract, ContractModified,
              RecordContract, ContractLoaded, ContractInvalid, SaveInvalid,
              BaselineFound, BeginSnapshot, EndSnapshot, SnapshotFails,
              BeginManifest, EndManifest
<1>4. CASE Run
  BY <1>4 DEF Run, VerifiedIsDeserved, BeginSession, EditWorkspace, RegisterTest,
              ValidateRegisteredTest, EndSession, CompleteLastTask, NothingLeft,
              ResumeVerification, StopRun
<1>5. CASE Verify
  <2>1. CASE AttemptsSpent \/ BeginVerification \/ ApplyVerdict
    BY <2>1 DEF AttemptsSpent, BeginVerification, ApplyVerdict, VerifiedIsDeserved
  <2>2. CASE EnsureBaseline \/ TornManifest
    BY <2>2 DEF EnsureBaseline, TornManifest, VerifiedIsDeserved
  <2>3. CASE CopyCandidate \/ CopyBaseline \/ RunBaselineChecks
    BY <2>3 DEF CopyCandidate, CopyBaseline, RunBaselineChecks, VerifiedIsDeserved
  <2>4. CASE RunCandidateChecks
    <3>1. VerifiedIsDeserved'
      BY <2>4, VerdictDeserved
    <3> QED BY <2>4, <3>1 DEF RunCandidateChecks
  <2>5. CASE ValidateTests
    BY <2>5 DEF ValidateTests, VerifiedIsDeserved
  <2>6. CASE InfrastructureFails \/ CheckRaises
    BY <2>6 DEF InfrastructureFails, CheckRaises, VerifiedIsDeserved
  <2>7. CASE SaveReport \/ Cleanup
    BY <2>7 DEF SaveReport, Cleanup, VerifiedIsDeserved
  <2> QED BY <1>5, <2>1, <2>2, <2>3, <2>4, <2>5, <2>6, <2>7 DEF Verify
<1>6. CASE Exit \/ Crash
  BY <1>6 DEF Exit, Crash, Stop, VerifiedIsDeserved
<1> QED BY <1>1, <1>2, <1>3, <1>4, <1>5, <1>6 DEF Next

LEMMA CandidateInvariant == Spec => []CandidateInv
<1>1. Init => CandidateInv
  BY DEF Init, CandidateInv, VerifiedIsDeserved
<1> QED BY <1>1, CandidateStep, BaselineInvariant, TypeCorrect, PTL DEF Spec

\* For all contracts, trees and outcomes of checks, a VERIFIED verdict means that
\* what the contract the process works with requires of the checks holds of the
\* workspace as it is.
THEOREM VerifiedDeserved == Spec => []VerifiedIsDeserved
<1>1. CandidateInv => VerifiedIsDeserved
  BY DEF CandidateInv
<1> QED BY <1>1, CandidateInvariant, PTL

-----------------------------------------------------------------------------
\* The saved verdict.  A verified project has no open leaf, so that no session
\* changes the workspace before the project is saved with another status.

Sound(S) ==
    S.status = "verified" =>
        ~S.open /\ S.report = [verdict |-> "verified", tree |-> workspace]

CurrentInv ==
    /\ Sound(mem) /\ Sound(disk)
    /\ pc \in {"init", "frozen", "baseline", "copying", "manifest", "writing", "run",
               "session", "registered"} => mem = disk
    /\ pc \in {"session", "registered"} => mem.open
    /\ pc \in {"cleanup", "apply"} => report = [verdict |-> verdict, tree |-> candidate]

LEMMA CurrentStep ==
    TypeOK /\ CandidateInv /\ CurrentInv /\ [Next]_vars => CurrentInv'
<1> SUFFICES ASSUME TypeOK, CandidateInv, CurrentInv, [Next]_vars PROVE CurrentInv'
  OBVIOUS
<1> USE DEF TypeOK, ProjectState, CandidateInv, CurrentInv, Sound, Goto, Raise, Save,
            state, project, baseline, results, call, gateway
<1>1. CASE UNCHANGED vars
  BY <1>1 DEF vars
<1>2. CASE Start \/ EditContract
  BY <1>2 DEF Start, EditContract
<1>3. CASE Initialize
  <2>1. CASE FreezeContract \/ ContractModified \/ ContractLoaded \/ ContractInvalid
    BY <2>1 DEF FreezeContract, ContractModified, ContractLoaded, ContractInvalid
  <2>2. CASE RecordContract \/ SaveInvalid
    BY <2>2 DEF RecordContract, SaveInvalid
  <2>3. CASE BaselineFound \/ BeginSnapshot \/ EndSnapshot \/ SnapshotFails
             \/ BeginManifest \/ EndManifest
    BY <2>3 DEF BaselineFound, BeginSnapshot, EndSnapshot, SnapshotFails,
                BeginManifest, EndManifest
  <2> QED BY <1>3, <2>1, <2>2, <2>3 DEF Initialize
<1>4. CASE Run
  <2>1. CASE BeginSession \/ RegisterTest \/ ValidateRegisteredTest
    BY <2>1 DEF BeginSession, RegisterTest, ValidateRegisteredTest
  <2>2. CASE EditWorkspace
    BY <2>2 DEF EditWorkspace
  <2>3. CASE EndSession \/ CompleteLastTask \/ NothingLeft
    BY <2>3 DEF EndSession, CompleteLastTask, NothingLeft
  <2>4. CASE ResumeVerification \/ StopRun
    BY <2>4 DEF ResumeVerification, StopRun
  <2> QED BY <1>4, <2>1, <2>2, <2>3, <2>4 DEF Run
<1>5. CASE Verify
  <2>1. CASE AttemptsSpent \/ BeginVerification
    BY <2>1 DEF AttemptsSpent, BeginVerification
  <2>2. CASE EnsureBaseline \/ TornManifest \/ CopyCandidate \/ CopyBaseline
             \/ RunBaselineChecks \/ RunCandidateChecks
    BY <2>2 DEF EnsureBaseline, TornManifest, CopyCandidate, CopyBaseline,
                RunBaselineChecks, RunCandidateChecks
  <2>3. CASE ValidateTests \/ InfrastructureFails \/ CheckRaises
    BY <2>3 DEF ValidateTests, InfrastructureFails, CheckRaises, Fallible
  <2>4. CASE SaveReport \/ Cleanup
    BY <2>4 DEF SaveReport, Cleanup
  <2>5. CASE ApplyVerdict
    <3>1. /\ mem'.status = StatusAfter(verdict)
          /\ mem'.open = (verdict \in {"partial", "reopened"})
          /\ mem'.report = [verdict |-> verdict, tree |-> candidate]
          /\ disk' = mem' /\ workspace' = workspace /\ pc' = "returned"
      BY <2>5 DEF ApplyVerdict
    <3>2. StatusAfter(verdict) = "verified" => verdict = "verified"
      BY DEF StatusAfter
    <3>3. verdict = "verified" => candidate = workspace
      BY <2>5 DEF ApplyVerdict
    <3> QED BY <3>1, <3>2, <3>3
  <2> QED BY <1>5, <2>1, <2>2, <2>3, <2>4, <2>5 DEF Verify
<1>6. CASE Exit \/ Crash
  BY <1>6 DEF Exit, Crash, Stop, NewProject
<1> QED BY <1>1, <1>2, <1>3, <1>4, <1>5, <1>6 DEF Next

\* For any trees and checks, a project that is saved as verified has a saved
\* VERIFIED report about the workspace as it is.
THEOREM VerifiedTreeCurrent == Spec => []VerifiedTreeIsCurrent
<1>1. Init => CurrentInv
  BY DEF Init, CurrentInv, Sound, NewProject
<1>2. CurrentInv => VerifiedTreeIsCurrent
  BY DEF CurrentInv, Sound, VerifiedTreeIsCurrent
<1> QED BY <1>1, <1>2, CurrentStep, CandidateInvariant, TypeCorrect, PTL DEF Spec

-----------------------------------------------------------------------------
\* The working copies that exist where a verification may end.

CopiesInv ==
    /\ pc \notin {"checks", "after"} => "baseline" \notin copies
    /\ pc \in {"ensure", "candidate"} => copies = {}
    /\ pc \in {"working", "tests"} => copies = {"candidate"}
    /\ pc \in {"checks", "after"} => copies = {"candidate", "baseline"}
    /\ pc \in {"report", "cleanup"} /\ verdict = "verified" => copies = {"candidate"}
    /\ pc = "apply" /\ verdict = "verified" => copies = {}

LEMMA CopiesStep == CopiesInv /\ [Next]_vars => CopiesInv'
<1> SUFFICES ASSUME CopiesInv, [Next]_vars PROVE CopiesInv'
  OBVIOUS
<1> USE DEF CopiesInv, Goto, Raise, Save, state, project, baseline, results, call,
            gateway
<1>1. CASE UNCHANGED vars
  BY <1>1 DEF vars
<1>2. CASE Start \/ EditContract
  BY <1>2 DEF Start, EditContract
<1>3. CASE Initialize
  BY <1>3 DEF Initialize, FreezeContract, ContractModified, RecordContract,
              ContractLoaded, ContractInvalid, SaveInvalid, BaselineFound,
              BeginSnapshot, EndSnapshot, SnapshotFails, BeginManifest, EndManifest
<1>4. CASE Run
  BY <1>4 DEF Run, BeginSession, EditWorkspace, RegisterTest, ValidateRegisteredTest,
              EndSession, CompleteLastTask, NothingLeft, ResumeVerification, StopRun
<1>5. CASE Verify
  <2>1. CASE AttemptsSpent \/ BeginVerification \/ ApplyVerdict
    BY <2>1 DEF AttemptsSpent, BeginVerification, ApplyVerdict
  <2>2. CASE EnsureBaseline \/ TornManifest
    BY <2>2 DEF EnsureBaseline, TornManifest
  <2>3. CASE CopyCandidate \/ CopyBaseline
    BY <2>3 DEF CopyCandidate, CopyBaseline
  <2>4. CASE RunBaselineChecks \/ RunCandidateChecks \/ ValidateTests
    BY <2>4 DEF RunBaselineChecks, RunCandidateChecks, ValidateTests
  <2>5. CASE InfrastructureFails \/ CheckRaises
    BY <2>5 DEF InfrastructureFails, CheckRaises, Fallible
  <2>6. CASE SaveReport \/ Cleanup
    BY <2>6 DEF SaveReport, Cleanup
  <2> QED BY <1>5, <2>1, <2>2, <2>3, <2>4, <2>5, <2>6 DEF Verify
<1>6. CASE Exit \/ Crash
  BY <1>6 DEF Exit, Crash, Stop
<1> QED BY <1>1, <1>2, <1>3, <1>4, <1>5, <1>6 DEF Next

\* A verification that ends in any way leaves no copy of the baseline, and one
\* that verified the workspace leaves no copy at all.
THEOREM CopiesCorrect == Spec => []CopiesRemoved
<1>1. Init => CopiesInv
  BY DEF Init, CopiesInv
<1>2. CopiesInv => CopiesRemoved
  BY DEF CopiesInv, CopiesRemoved
<1> QED BY <1>1, <1>2, CopiesStep, PTL DEF Spec
=============================================================================
