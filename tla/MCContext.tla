----------------------------- MODULE MCContext ------------------------------
(* A small instance of Context for TLC. *)
EXTENDS Context

MCSetting(mode, model, fallback, seeded, stored) ==
    [mode |-> mode, recent_full_turns |-> 1, compact_old |-> TRUE, use_model |-> model,
     fallback |-> fallback, seeded |-> seeded, stored |-> stored]
\* A file that has CRLF line ends at first, and one that is given them.
MCCRLF == {<<"f", 1>>, <<"g", 0>>}

MCResetting == {MCSetting("structured_reset", TRUE, TRUE, TRUE, TRUE)}
MCDeterministic == {MCSetting("structured_reset", FALSE, TRUE, TRUE, TRUE)}
MCSettings == MCResetting \cup
    {MCSetting("structured_reset", TRUE, FALSE, FALSE, FALSE),
     MCSetting("structured_reset", TRUE, FALSE, TRUE, FALSE),
     MCSetting("deterministic_prune", FALSE, TRUE, TRUE, TRUE),
     MCSetting("recent_window", FALSE, TRUE, TRUE, TRUE),
     MCSetting("full_history", FALSE, TRUE, TRUE, TRUE)}
=============================================================================
