------------------------------- MODULE Session -------------------------------
(***************************************************************************)
(* One task session: AgentLoop.run_with_controls (agent/loop.py) asks the  *)
(* model for a response, executes the tool calls in it one by one through  *)
(* _ChannelRouter, and stops when the control channel has a terminal       *)
(* signal or a limit is met; _process_control_signals then settles what    *)
(* the session amounts to.                                                 *)
(*                                                                         *)
(* The model answers anything the protocol can express, a tool returns any *)
(* result the code can build, and the context manager may give up whenever *)
(* it is asked for messages.  Of the trace of a session only what its      *)
(* outcome is computed from is kept.                                       *)
(***************************************************************************)
EXTENDS Integers

CONSTANTS
    Policies, \* settings a session may run under
    MaxCalls  \* bound: tool calls in one response

\* AgentConfig, and what _run_task_session makes of VerificationConfig.
Policy ==
    [maxSteps      : Nat \ {0}, \* agent.max_steps
     maxErrors     : Nat \ {0}, \* agent.max_consecutive_errors
     graceTurns    : Nat,       \* agent.terminal_grace_turns
     retries       : Nat,       \* agent.protocol_retries_per_step
     contractMode  : BOOLEAN,   \* verification.mode = "contract"
     requireTest   : BOOLEAN,   \* ....require_candidate_before_completion
     minRegistered : Nat,
     minValid      : Nat,
     maxTests      : Nat,       \* generated_tests.max_candidates_per_task
     maxAttempts   : Nat]       \* ....max_registration_attempts; 0 without
                                \* the tool register_test_candidate

ASSUME SessionAssumption == Policies \subseteq Policy /\ MaxCalls \in Nat \ {0}

Signal == {"completion", "blocker", "blocker_decompose", "decomposition"}

VARIABLES
    policy,    \* the settings of this session
    pc,        \* where the loop is
    status,    \* RunStatus
    step,      \* turn of the main loop
    grace,     \* grace turn, 0 in the main loop
    retries,   \* retries of the current request for bad tool arguments
    errors,    \* consecutive_errors
    seenFinal, \* seen_final_without_signal
    calls,     \* tool calls of this response already executed
    others,    \* was one of them not report_knowledge_use?
    signal,    \* channel.terminal_signal
    trace,     \* SessionTrace
    tests,     \* test candidates of the channel
    decided,   \* knowledge_channel.decision_recorded
    start,     \* what the session found when it began
    outcome,   \* what _process_control_signals settles
    idle       \* ... and whether it counts the session as without progress

turn    == <<step, grace, seenFinal>>
call    == <<calls, others>>
channel == <<signal, trace, tests, decided>>
result  == <<outcome, idle>>
vars    == <<policy, start, pc, status, turn, retries, errors, call, channel,
             result>>

Location ==
    {"turn", "prepare", "respond", "calls", "left", "ended", "done", "raised"}

Status ==
    {"max_steps_reached", "time_limit_reached", "context_budget_exhausted",
     "protocol_error", "provider_error", "completed", "aborted",
     "final_without_terminal_signal", "terminal_signal_missing"}

Trace ==
    [changed  : BOOLEAN, \* changed_files is not empty
     tested   : BOOLEAN, \* successful_test_commands is not empty
     accepted : BOOLEAN, \* successful_acceptance_commands is not empty
     fresh    : BOOLEAN, \* no write since the last successful verification
     gated    : BOOLEAN] \* actionable_policy_gate_count > 0

InGrace == grace > 0

\* KnowledgeUseChannel: knowledge was exposed and no decision recorded.
KnowledgePending == start.exposed /\ ~decided

\* generated_test_requirement_error is None
RequirementMet ==
    policy.requireTest => /\ tests.registered >= policy.minRegistered
                          /\ tests.valid >= policy.minValid

\* SessionTrace.has_completion_evidence
HasEvidence ==
    /\ trace.changed \/ start.touched
    /\ trace.tested \/ trace.accepted
    /\ trace.fresh

-----------------------------------------------------------------------------
\* The model's turns.

Goto(next) == pc' = next /\ UNCHANGED <<status, policy, start, result>>

\* break: the main loop or the grace turns are over.
Leave(why) ==
    /\ pc' = "left" /\ status' = why
    /\ UNCHANGED <<policy, start, result>>

BeginTurn ==
    /\ pc = "turn" /\ step < policy.maxSteps
    /\ step' = step + 1 /\ retries' = 0
    /\ Goto("prepare")
    /\ UNCHANGED <<grace, seenFinal, errors, call, channel>>

TimeLimit ==
    /\ pc = "turn" /\ step < policy.maxSteps
    /\ step' = step + 1
    /\ Leave("time_limit_reached")
    /\ UNCHANGED <<grace, seenFinal, retries, errors, call, channel>>

LastTurnOver ==
    /\ pc = "turn" /\ step = policy.maxSteps
    /\ Leave(IF seenFinal THEN "final_without_terminal_signal"
                          ELSE "max_steps_reached")
    /\ UNCHANGED <<turn, retries, errors, call, channel>>

Prepare ==
    /\ pc = "prepare"
    /\ Goto("respond")
    /\ UNCHANGED <<turn, retries, errors, call, channel>>

\* While a request is retried the loop cannot tell this from a failed
\* provider.
ContextExhausted ==
    /\ pc = "prepare"
    /\ Leave(IF retries > 0 THEN "provider_error"
                            ELSE "context_budget_exhausted")
    /\ UNCHANGED <<turn, retries, errors, call, channel>>

\* Mutant: the retries of a request are not counted.
RetryForever ==
    /\ pc = "respond"
    /\ Goto("prepare")
    /\ UNCHANGED <<turn, retries, errors, call, channel>>

\* _generate_with_protocol_retries: tool arguments that are not JSON.
InvalidArguments ==
    /\ pc = "respond"
    /\ IF retries < policy.retries
       THEN retries' = retries + 1 /\ Goto("prepare")
       ELSE UNCHANGED retries /\ Leave("protocol_error")
    /\ UNCHANGED <<turn, errors, call, channel>>

ProviderError ==
    /\ pc = "respond"
    /\ Leave("provider_error")
    /\ UNCHANGED <<turn, retries, errors, call, channel>>

\* Mutant: one grace turn more than the settings allow.
GraceTurnEndsLate ==
    IF signal # "none"
    THEN Leave("completed") /\ UNCHANGED <<turn, retries>>
    ELSE /\ status' = "terminal_signal_missing"
         /\ UNCHANGED <<step, seenFinal, policy, start, result>>
         /\ IF grace <= policy.graceTurns
            THEN grace' = grace + 1 /\ retries' = 0 /\ pc' = "prepare"
            ELSE UNCHANGED <<grace, retries>> /\ pc' = "left"

\* The end of a grace turn; the turns go on while there is no signal.
GraceTurnEnds ==
    IF signal # "none"
    THEN Leave("completed") /\ UNCHANGED <<turn, retries>>
    ELSE /\ status' = "terminal_signal_missing"
         /\ UNCHANGED <<step, seenFinal, policy, start, result>>
         /\ IF grace < policy.graceTurns
            THEN grace' = grace + 1 /\ retries' = 0 /\ pc' = "prepare"
            ELSE UNCHANGED <<grace, retries>> /\ pc' = "left"

FinalAnswer ==
    /\ pc = "respond"
    /\ IF InGrace THEN GraceTurnEnds
       ELSE IF signal = "none"
            THEN /\ seenFinal' = TRUE
                 /\ Goto("turn")
                 /\ UNCHANGED <<step, grace, retries>>
            ELSE Leave("completed") /\ UNCHANGED <<turn, retries>>
    /\ UNCHANGED <<errors, call, channel>>

EmptyResponse ==
    /\ pc = "respond"
    /\ IF InGrace THEN GraceTurnEnds /\ UNCHANGED errors
       ELSE /\ errors' = errors + 1
            /\ IF errors' >= policy.maxErrors THEN Leave("aborted")
                                              ELSE Goto("turn")
            /\ UNCHANGED <<turn, retries>>
    /\ UNCHANGED <<call, channel>>

ToolCalls ==
    /\ pc = "respond"
    /\ calls' = 0 /\ others' = FALSE
    /\ Goto("calls")
    /\ UNCHANGED <<turn, retries, errors, channel>>

\* Mutant: the error limit is looked at before the terminal signal.
ErrorsFirst ==
    /\ pc = "calls" /\ calls > 0
    /\ IF InGrace THEN GraceTurnEnds
       ELSE /\ IF errors >= policy.maxErrors THEN Leave("aborted")
               ELSE IF signal # "none" THEN Leave("completed")
               ELSE Goto("turn")
            /\ UNCHANGED <<turn, retries>>
    /\ UNCHANGED <<errors, call, channel>>

\* All calls of the response are executed, those after a terminal signal too.
EndResponse ==
    /\ pc = "calls" /\ calls > 0
    /\ IF InGrace THEN GraceTurnEnds
       ELSE /\ IF signal # "none" THEN Leave("completed")
               ELSE IF errors >= policy.maxErrors THEN Leave("aborted")
               ELSE Goto("turn")
            /\ UNCHANGED <<turn, retries>>
    /\ UNCHANGED <<errors, call, channel>>

\* Two calls of a response have one id: InteractionTurn.add_tool_result
\* raises, and nothing catches it.
RepeatedCallId ==
    /\ pc = "calls" /\ 0 < calls /\ calls < MaxCalls
    /\ pc' = "raised" /\ outcome' = "lost"
    /\ UNCHANGED <<policy, start, status, turn, retries, errors, call, channel,
                   idle>>

-----------------------------------------------------------------------------
\* The tool calls.  Errors are counted in the main loop only.

Counted(n) == errors' = IF InGrace THEN errors ELSE n
Ok      == Counted(0)
Fault   == Counted(errors + 1)
Neutral == UNCHANGED errors   \* a policy gate or an unmet requirement

\* _ordered_tool_calls: the reports on knowledge come first.
Call(isReport) ==
    /\ pc = "calls" /\ calls < MaxCalls
    /\ isReport => ~others
    /\ calls' = calls + 1 /\ others' = ~isReport
    /\ UNCHANGED <<policy, start, pc, status, turn, retries, result>>

ReportKnowledgeUse ==
    /\ Call(TRUE)
    /\ \/ start.exposed /\ decided' = TRUE /\ Ok
       \/ UNCHANGED decided /\ Fault
    /\ UNCHANGED <<signal, trace, tests>>

\* read_file, report_progress, a command that verifies nothing, and whatever
\* fails before it has an effect.
Inspect ==
    /\ Call(FALSE)
    /\ Ok \/ Fault
    /\ UNCHANGED channel

\* _ChannelRouter.execute refuses the call; the gate counts as progress.
Gate ==
    /\ Neutral
    /\ trace' = [trace EXCEPT !.gated = TRUE]

WriteFile ==
    /\ Call(FALSE)
    /\ IF KnowledgePending THEN Gate
       ELSE \/ Ok /\ trace' = [trace EXCEPT !.changed = TRUE, !.fresh = FALSE]
            \/ (Ok \/ Neutral) /\ UNCHANGED trace \* unchanged, or truncating
    /\ UNCHANGED <<signal, tests, decided>>

\* A command that exits with 0 and that bash.py takes for a verification.
Verified(isTest) ==
    /\ Ok
    /\ trace' = [trace EXCEPT !.tested = @ \/ isTest, !.accepted = TRUE,
                              !.fresh = TRUE]

\* _is_verification_tool_call recognises every test run, but not all of what
\* bash.py takes for an acceptance command.
Verify(isTest, recognised) ==
    /\ Call(FALSE)
    /\ isTest => recognised
    /\ IF KnowledgePending /\ recognised THEN Gate ELSE Verified(isTest)
    /\ UNCHANGED <<signal, tests, decided>>

\* Mutant: knowledge gates a request for completion only.
GivePastGate(s) ==
    /\ Call(FALSE)
    /\ IF s = "completion" /\ (KnowledgePending \/ ~RequirementMet)
       THEN Gate /\ UNCHANGED signal
       ELSE /\ UNCHANGED trace
            /\ IF signal = "none" THEN Ok /\ signal' = s
                                  ELSE Fault /\ UNCHANGED signal
    /\ UNCHANGED <<tests, decided>>

\* Mutant: a later terminal signal replaces an earlier one.
GiveAgain(s) ==
    /\ Call(FALSE)
    /\ IF KnowledgePending \/ (s = "completion" /\ ~RequirementMet)
       THEN Gate /\ UNCHANGED signal
       ELSE Ok /\ signal' = s /\ UNCHANGED trace
    /\ UNCHANGED <<tests, decided>>

\* request_task_completion, report_blocker, request_decomposition: the first
\* terminal signal stands.
Give(s) ==
    /\ Call(FALSE)
    /\ IF KnowledgePending \/ (s = "completion" /\ ~RequirementMet)
       THEN Gate /\ UNCHANGED signal
       ELSE /\ UNCHANGED trace
            /\ IF signal = "none" THEN Ok /\ signal' = s
                                  ELSE Fault /\ UNCHANGED signal
    /\ UNCHANGED <<tests, decided>>

\* report_blocker for work that a later session can continue.
RefuseBlocker ==
    /\ Call(FALSE)
    /\ IF KnowledgePending THEN Gate ELSE Neutral /\ UNCHANGED trace
    /\ UNCHANGED <<signal, tests, decided>>

Attempt == [tests EXCEPT !.attempts = @ + 1]

\* TaskControlChannel.register_test_candidate: an attempt counts before it is
\* checked; registering a test again replaces it.
RegisterTest ==
    /\ Call(FALSE)
    /\ IF tests.attempts >= policy.maxAttempts
       THEN Fault /\ UNCHANGED tests
       ELSE \/ Fault /\ tests' = Attempt
            \/ /\ tests.registered < policy.maxTests
               /\ \E valid \in {tests.valid, tests.valid + 1} :
                     tests' = [Attempt EXCEPT !.registered = @ + 1,
                                              !.valid = valid]
               /\ Ok
            \/ /\ tests.registered > 0
               /\ \E valid \in 0..tests.registered :
                     /\ tests.valid - 1 <= valid /\ valid <= tests.valid + 1
                     /\ tests' = [Attempt EXCEPT !.valid = valid]
               /\ Ok
    /\ UNCHANGED <<signal, trace, decided>>

-----------------------------------------------------------------------------
\* The loop is left: grace turns, the status and the outcome.

OutOfTurns == status \in {"max_steps_reached", "final_without_terminal_signal"}

BeginGrace ==
    /\ pc = "left" /\ grace = 0 /\ policy.graceTurns > 0
    /\ OutOfTurns /\ signal = "none" /\ HasEvidence
    /\ grace' = 1 /\ retries' = 0
    /\ Goto("prepare")
    /\ UNCHANGED <<step, seenFinal, errors, call, channel>>

\* Mutant: without grace turns nobody looks at the evidence.
FinishOutOfTurns ==
    /\ pc = "left"
    /\ ~(grace = 0 /\ policy.graceTurns > 0 /\ OutOfTurns /\ HasEvidence
         /\ signal = "none")
    /\ Goto("ended")
    /\ UNCHANGED <<turn, retries, errors, call, channel>>

Finish ==
    LET overlooked == OutOfTurns /\ signal = "none" /\ HasEvidence
    IN  /\ pc = "left"
        /\ ~(grace = 0 /\ policy.graceTurns > 0 /\ overlooked)
        /\ pc' = "ended"
        /\ status' = IF overlooked THEN "terminal_signal_missing" ELSE status
        /\ UNCHANGED <<policy, start, turn, retries, errors, call, channel,
                       result>>

\* _completion_candidate_for; the criteria are compared with the wording of
\* the commands outside contract mode.
MayComplete ==
    /\ RequirementMet
    /\ trace.tested \/ trace.accepted \/ start.verified

MustComplete ==
    /\ MayComplete
    /\ IF policy.contractMode THEN trace.tested \/ trace.accepted
                              ELSE start.verified

\* SessionTrace.no_progress
NoProgress ==
    ~trace.changed /\ ~trace.tested /\ signal = "none" /\ ~trace.gated

\* Mutant: a signal does not count as progress.
SettleUnsignalled ==
    /\ pc = "ended" /\ pc' = "done"
    /\ idle' = (~trace.changed /\ ~trace.tested /\ ~trace.gated)
    /\ outcome' = IF signal # "none" THEN signal ELSE "nothing"
    /\ UNCHANGED <<policy, start, status, turn, retries, errors, call, channel>>

Settle ==
    /\ pc = "ended" /\ pc' = "done"
    /\ idle' = NoProgress
    /\ \/ signal # "none" /\ outcome' = signal
       \/ /\ signal = "none" /\ MayComplete
          /\ policy.contractMode => MustComplete
          /\ outcome' = "evidence"
       \/ signal = "none" /\ ~MustComplete /\ outcome' = "nothing"
    /\ UNCHANGED <<policy, start, status, turn, retries, errors, call, channel>>

-----------------------------------------------------------------------------
\* A session starts on a task with the candidates its earlier sessions left.
Init ==
    /\ policy \in Policies
    /\ start \in [touched : BOOLEAN, exposed : BOOLEAN, verified : BOOLEAN]
    /\ \E n \in 0..policy.maxTests : \E m \in 0..n :
          tests = [registered |-> n, valid |-> m, attempts |-> 0]
    /\ pc = "turn" /\ status = "max_steps_reached"
    /\ step = 0 /\ grace = 0 /\ retries = 0 /\ errors = 0
    /\ seenFinal = FALSE /\ calls = 0 /\ others = FALSE
    /\ signal = "none" /\ decided = FALSE
    /\ trace = [changed |-> FALSE, tested |-> FALSE, accepted |-> FALSE,
                fresh |-> TRUE, gated |-> FALSE]
    /\ outcome = "open" /\ idle = FALSE

ToolCall ==
    \/ ReportKnowledgeUse \/ Inspect \/ WriteFile
    \/ \E isTest, recognised \in BOOLEAN : Verify(isTest, recognised)
    \/ \E s \in Signal : Give(s)
    \/ RefuseBlocker \/ RegisterTest

Next ==
    \/ BeginTurn \/ TimeLimit \/ LastTurnOver
    \/ Prepare \/ ContextExhausted
    \/ InvalidArguments \/ ProviderError
    \/ FinalAnswer \/ EmptyResponse \/ ToolCalls
    \/ ToolCall \/ EndResponse \/ RepeatedCallId
    \/ BeginGrace \/ Finish \/ Settle

Spec == Init /\ [][Next]_vars

\* Every request and every tool call has a time limit, so the loop goes on.
FairSpec == Spec /\ WF_vars(Next)

-----------------------------------------------------------------------------
\* The variables keep their types: a registration never passes the limits,
\* grace turns come only after the last turn.
TypeOK ==
    /\ policy \in Policies
    /\ start \in [touched : BOOLEAN, exposed : BOOLEAN, verified : BOOLEAN]
    /\ pc \in Location
    /\ status \in Status
    /\ step \in 0..policy.maxSteps
    /\ grace \in 0..policy.graceTurns
    /\ retries \in 0..policy.retries
    /\ errors \in Nat
    /\ seenFinal \in BOOLEAN
    /\ calls \in 0..MaxCalls
    /\ others \in BOOLEAN
    /\ signal \in Signal \cup {"none"}
    /\ trace \in Trace
    /\ tests \in [registered : 0..policy.maxTests, valid : Nat,
                  attempts : 0..policy.maxAttempts]
    /\ tests.valid <= tests.registered
    /\ decided \in BOOLEAN
    /\ outcome \in Signal \cup {"open", "evidence", "nothing", "lost"}
    /\ idle \in BOOLEAN

\* The status the loop reports (and the session record keeps) says completed
\* exactly when the agent gave a terminal signal: not when errors, the last
\* turn or a grace turn end the loop (agent/loop.py).
StatusMatchesSignal ==
    pc \in {"ended", "done"} => (status = "completed" <=> signal # "none")

\* While retrieved knowledge awaits a decision the session has given no
\* signal, written nothing and run no test, in whatever order the calls of a
\* response come (_knowledge_decision_blocks).
KnowledgeDecisionFirst ==
    KnowledgePending => signal = "none" /\ ~trace.changed /\ ~trace.tested

\* A loop that is out of turns while there is current evidence of completion
\* never ends as if there were none: the missing signal shows in its status,
\* with or without grace turns (agent/loop.py, end of run_with_controls).
EvidenceNotOverlooked ==
    pc = "ended" /\ OutOfTurns => ~HasEvidence

\* Whatever the model answers, the session is settled or lost to an exception.
SessionEnds == <>(pc \in {"done", "raised"})

\* To the orchestrator the session is one of AgentSession: one signal, never
\* replaced, and an outcome that agrees with it.
Promise == INSTANCE AgentSession
           WITH Signal <- Signal, signal <- signal, outcome <- outcome, idle <- idle

KeepsPromise == Promise!Spec

\* What the code's evidence of completion claims: the verification that
\* completes a task without a signal was not followed by a further change.
EvidenceIsFresh == outcome = "evidence" => trace.fresh
=============================================================================
