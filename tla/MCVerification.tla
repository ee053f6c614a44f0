--------------------------- MODULE MCVerification ---------------------------
(* Small instances of Verification for TLC. *)
EXTENDS Verification

MCPath == {"app", "guard", "new"}

Content(app, guard, new) ==
    [p \in MCPath |-> CASE p = "app" -> app [] p = "guard" -> guard [] OTHER -> new]

\* The agent changes the program, and may add a file, change or delete a
\* protected one.
MCOriginal == Content(1, 1, 0)
MCTrees == {MCOriginal, Content(2, 1, 0), Content(2, 1, 1),
            Content(2, 2, 0), Content(2, 0, 0)}

MCCheck(kind, required, expected) ==
    [kind |-> kind, required |-> required, baselineExpected |-> expected]

\* Two resolutions and a regression; and a contract without resolutions.
MCContracts ==
    {[k \in {"fix", "more", "keep"} |->
        IF k = "keep" THEN MCCheck("regression", TRUE, DefaultExpected("regression"))
                      ELSE MCCheck("resolution", TRUE,
                                   IF k = "more" THEN "any"
                                   ELSE DefaultExpected("resolution"))],
     [k \in {"keep", "lint"} |->
        IF k = "keep" THEN MCCheck("regression", FALSE, DefaultExpected("regression"))
                      ELSE MCCheck("static", TRUE, DefaultExpected("static"))]}

\* The resolutions fail before the program is changed; afterwards the second
\* may fail, and the regression may break or time out.
MCOutcomes(k, tree) ==
    CASE k \in {"fix", "lint"} -> IF tree["app"] = 1 THEN {"failed"} ELSE {"passed"}
      [] k = "more" -> IF tree["app"] = 1 THEN {"failed"} ELSE {"passed", "failed"}
      [] OTHER -> IF tree["app"] = 1 THEN {"passed", "failed"}
                                     ELSE {"passed", "failed", "timeout"}

MCRules ==
    [protected |-> {"guard"}, trusted |-> {}, contractPaths |-> {},
     forbidden |-> {}, allowed |-> {}, artifacts |-> {"app"}, markers |-> {},
     maxDeleted |-> 1, configChanges |-> FALSE, configFiles |-> {},
     testFiles |-> {"new"}, testDirs |-> {"new"}, largeBinaries |-> {}]
=============================================================================
