--------------------------- MODULE MCOrchestrator ---------------------------
(* Small instances of Orchestrator for TLC. *)
EXTENDS Orchestrator

\* Two tasks, the second after the first, and two independent ones.
MCChain == {<<{}, {1}>>}
MCPairs == {<<{}, {1}>>, <<{}, {}>>}

\* Two children, the second after the first or the first after the second.
MCSplit  == {<<{}, {1}>>}
MCSplits == {<<{}, {1}>>, <<{2}, {}>>}

MCConfig(mode, sessions, attempts, depth) ==
    [mode |-> mode, maxSessions |-> sessions, maxTaskSessions |-> 2,
     maxNoProgress |-> 1, attempts |-> attempts, maxDepth |-> depth,
     legacy |-> FALSE]

\* project: recovery search, one decomposition.
MCSearch == {MCConfig("adaptive_search", 5, 1, 1)}

\* task: a project started in one mode may be resumed in another.
MCModes == {MCConfig("static", 4, 1, 1), MCConfig("adaptive", 4, 2, 1)}

\* command: one task or a second after it, decompositions of decompositions, a
\* task that fails, and a final command that may have to leave a legacy report.
MCSmall == {<<{}>>, <<{}, {1}>>}
MCDeep == {[MCConfig("adaptive", 4, 3, 2) EXCEPT !.legacy = legacy] :
              legacy \in BOOLEAN}

\* depth_limit: one task, whose first session without a signal uses up its attempts.
MCSingle == {<<{}>>}
MCAttempts == {MCConfig("adaptive", 4, 1, 1)}
=============================================================================
