----------------------------- MODULE MCSession -----------------------------
(* Small instances of Session for TLC. *)
EXTENDS Session

MCPolicy(steps, limit, turns, contract, candidates) ==
    [maxSteps |-> steps, maxErrors |-> limit, graceTurns |-> turns,
     retries |-> 1, contractMode |-> contract, requireTest |-> candidates > 0,
     minRegistered |-> 1, minValid |-> 1, maxTests |-> candidates,
     maxAttempts |-> IF candidates > 0 THEN 2 ELSE 0]

\* A command project with two grace turns, a contract project with required
\* tests and one, a contract project without either where every error counts.
MCPolicies ==
    {MCPolicy(2, 2, 2, FALSE, 0), MCPolicy(2, 2, 1, TRUE, 1),
     MCPolicy(3, 1, 0, TRUE, 0)}

\* stale_evidence: only the session's own verifications count.
MCContract == {MCPolicy(2, 2, 0, TRUE, 0)}
=============================================================================
