------------------------------ MODULE Decision ------------------------------
(***************************************************************************)
(* How a verification is judged (verification/transitions.py and           *)
(* verification/integrity.py): from the outcome of each check of the       *)
(* contract on the baseline and on the candidate, and from the difference  *)
(* between the two trees, to a verdict.                                    *)
(*                                                                         *)
(* A contract is a function from check ids to checks, an outcome function  *)
(* gives "skipped" where a check did not run, and a tree gives each path   *)
(* the version of its content, 0 where there is no file.                   *)
(***************************************************************************)
EXTENDS Naturals, FiniteSets

CheckKind == {"resolution", "regression", "candidate_only", "static",
              "integrity", "generated_test"}
ExpectedState == {"pass", "fail", "any", "not_run"}
ExecutionStatus == {"passed", "failed", "timeout", "error", "skipped"}

VerificationCheck ==
    [kind             : CheckKind,
     required         : BOOLEAN,
     baselineExpected : ExpectedState]

\* What validate_check fills in where a contract names no expectation.
DefaultExpected(kind) ==
    CASE kind = "resolution" -> "fail"
      [] kind \in {"regression", "integrity"} -> "pass"
      [] OTHER -> "not_run"

\* _run_checks: the checks that run in a copy of the workspace.
RunIn(checks, workspaceKind) ==
    {k \in DOMAIN checks :
        /\ checks[k].kind # "integrity"
        /\ workspaceKind = "baseline" =>
              checks[k].kind \notin {"candidate_only", "static", "generated_test"}}

\* A check that timed out or could not start is an infrastructure error.
Infrastructure(outcomes) ==
    \E k \in DOMAIN outcomes : outcomes[k] \in {"timeout", "error"}

\* baseline_matches_contract
BaselineMatches(checks, baseline) ==
    \A k \in DOMAIN checks :
        checks[k].baselineExpected \in {"pass", "fail"} =>
            /\ baseline[k] # "skipped"
            /\ baseline[k] = "passed" <=> checks[k].baselineExpected = "pass"

StateLetter(outcome) ==
    CASE outcome = "passed" -> "P" [] outcome = "failed" -> "F" [] OTHER -> "X"

Transition(baseline, candidate, k) ==
    <<StateLetter(baseline[k]), StateLetter(candidate[k])>>

Required(checks, kinds) ==
    {k \in DOMAIN checks : checks[k].required /\ checks[k].kind \in kinds}

Resolution(checks)    == Required(checks, {"resolution"})
Regression(checks)    == Required(checks, {"regression"})
CandidateOnly(checks) == Required(checks, {"candidate_only", "static"})

\* The required checks that count as passed.
Resolved(checks, b, c)  == {k \in Resolution(checks) : Transition(b, c, k) = <<"F", "P">>}
Preserved(checks, b, c) == {k \in Regression(checks) : Transition(b, c, k) = <<"P", "P">>}
Achieved(checks, c)     == {k \in CandidateOnly(checks) : c[k] = "passed"}

\* summarize_and_decide
Decide(checks, b, c, integrityPassed) ==
    LET required == Resolution(checks) \cup Regression(checks) \cup CandidateOnly(checks)
        passed   == Resolved(checks, b, c) \cup Preserved(checks, b, c)
                        \cup Achieved(checks, c)
    IN  IF Infrastructure(b) \/ Infrastructure(c) THEN "infrastructure_error"
        ELSE IF ~BaselineMatches(checks, b) \/ required = {} THEN "inconclusive"
        ELSE IF passed = required /\ integrityPassed THEN "verified"
        ELSE IF /\ Resolved(checks, b, c) \notin {{}, Resolution(checks)}
                /\ Preserved(checks, b, c) = Regression(checks)
                /\ integrityPassed
             THEN "partial"
        ELSE "reopened"

-----------------------------------------------------------------------------
\* IntegrityValidator.  Each pattern of the rules stands for the paths it
\* matches; the last four fields for what the validator reads off a path.
IntegrityRules(Path) ==
    [protected      : SUBSET Path,  \* protected_paths
     trusted        : SUBSET Path,  \* trusted_test_patterns
     contractPaths  : SUBSET Path,
     forbidden      : SUBSET Path,  \* forbidden_change_patterns
     allowed        : SUBSET Path,  \* allowed_change_patterns, {} for any
     artifacts      : SUBSET Path,  \* required_artifacts
     markers        : SUBSET Path,  \* hidden_asset_markers
     maxDeleted     : Nat,
     configChanges  : BOOLEAN,      \* allow_project_config_changes
     configFiles    : SUBSET Path,  \* test and project configuration
     testFiles      : SUBSET Path,
     testDirs       : SUBSET Path,  \* in an allowed_test_directories
     largeBinaries  : SUBSET Path]

Files(tree) == {p \in DOMAIN tree : tree[p] # 0}

Changed(before, after) ==
    {p \in Files(before) \cap Files(after) : before[p] # after[p]}
Deleted(before, after) == Files(before) \ Files(after)
Added(before, after)   == Files(after) \ Files(before)

\* Mutant: deleted files are not compared with the protected paths.
ViolationsOfChanges(before, after, made, rules) ==
    IF Changed(before, after) \cap (rules.protected \cup rules.trusted) # {}
    THEN {"protected_path_modified"} ELSE {}

\* The categories IntegrityValidator.validate reports.  made are the paths that
\* the hidden assets and the checks themselves put into the candidate copy.
Violations(before, after, made, rules) ==
    LET touched  == Changed(before, after) \cup Deleted(before, after)
        added    == Added(before, after)
        all      == touched \cup added
        offences ==
          [protected_path_modified |-> touched \cap rules.protected,
           trusted_test_modified   |-> touched \cap rules.trusted,
           contract_modified       |-> touched \cap rules.contractPaths,
           forbidden_change        |-> all \cap rules.forbidden,
           outside_allowed_changes |->
               IF rules.allowed = {} THEN {} ELSE all \ rules.allowed,
           excessive_deletion      |->
               IF Cardinality(Deleted(before, after)) > rules.maxDeleted
               THEN Deleted(before, after) ELSE {},
           required_artifact_missing |->
               rules.artifacts \ (Files(after) \cup made),
           hidden_asset_leak       |-> Files(after) \cap rules.markers,
           config_modified         |->
               IF rules.configChanges THEN {} ELSE touched \cap rules.configFiles,
           large_binary_added      |-> added \cap rules.largeBinaries,
           test_outside_allowed_directory |->
               (added \cap rules.testFiles) \ rules.testDirs]
    IN  {category \in DOMAIN offences : offences[category] # {}}
=============================================================================
