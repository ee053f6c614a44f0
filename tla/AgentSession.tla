---------------------------- MODULE AgentSession ----------------------------
(***************************************************************************)
(* What a task session promises the orchestrator, whatever the model does  *)
(* in it: the agent gives at most one terminal signal and cannot take it   *)
(* back, the session is settled once and by that signal if there is one,   *)
(* and a session that gave a signal never counts as one without progress.  *)
(* The outcomes are the ways in which Orchestrator lets a session end; a   *)
(* lost session is one it loses to an exception.                           *)
(***************************************************************************)
CONSTANT Signal \* the terminal signals of control/channel.py

VARIABLES
    signal,  \* the terminal signal given, "none" before
    outcome, \* how the session was settled, "open" before
    idle     \* was it settled as a session without progress?

vars == <<signal, outcome, idle>>

Init == signal = "none" /\ outcome = "open" /\ idle = FALSE

Give(s) ==
    /\ outcome = "open" /\ signal = "none"
    /\ signal' = s
    /\ UNCHANGED <<outcome, idle>>

Settle(how, noProgress) ==
    /\ outcome = "open"
    /\ IF signal = "none" THEN how \in {"evidence", "nothing"}
       ELSE how = signal /\ noProgress = FALSE
    /\ outcome' = how /\ idle' = noProgress
    /\ UNCHANGED signal

Lose ==
    /\ outcome = "open"
    /\ outcome' = "lost"
    /\ UNCHANGED <<signal, idle>>

Next ==
    \/ \E s \in Signal : Give(s)
    \/ \E how \in Signal \cup {"evidence", "nothing"}, noProgress \in BOOLEAN :
          Settle(how, noProgress)
    \/ Lose

Spec == Init /\ [][Next]_vars
=============================================================================
