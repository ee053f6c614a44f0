---------------------------- MODULE SessionProofs ----------------------------
(***************************************************************************)
(* Proofs about Session: its types, that the reported status agrees with   *)
(* the terminal signal, that knowledge is decided on first, that evidence  *)
(* is not overlooked, and that it implements AgentSession.                 *)
(***************************************************************************)
EXTENDS Session, TLAPS

\* The settings of a session are a policy, and do not change.
LEMMA PolicyTyped ==
    ASSUME TypeOK
    PROVE  policy \in Policy
BY SessionAssumption DEF TypeOK

\* The initial states are typed.
LEMMA TypeInit == Init => TypeOK
<1> SUFFICES ASSUME Init PROVE TypeOK
    OBVIOUS
<1>1. policy \in Policy
    BY SessionAssumption DEF Init
<1>2. /\ step \in 0..policy.maxSteps /\ grace \in 0..policy.graceTurns
      /\ retries \in 0..policy.retries /\ calls \in 0..MaxCalls
    BY <1>1, SessionAssumption DEF Init, Policy
<1>3. /\ tests \in [registered : 0..policy.maxTests, valid : Nat,
                    attempts : 0..policy.maxAttempts]
      /\ tests.valid <= tests.registered
    BY <1>1 DEF Init, Policy
<1>4. pc \in Location /\ status \in Status /\ trace \in Trace
    BY DEF Init, Location, Status, Trace
<1> QED
    BY <1>2, <1>3, <1>4 DEF Init, TypeOK

\* A tool call changes nothing but the channel, the errors and the count of
\* calls.
LEMMA CallFrame ==
    ASSUME TypeOK, NEW isReport \in BOOLEAN, Call(isReport),
           errors' \in Nat, signal' \in Signal \cup {"none"},
           trace' \in Trace, decided' \in BOOLEAN,
           tests' \in [registered : 0..policy.maxTests, valid : Nat,
                       attempts : 0..policy.maxAttempts],
           (tests.valid <= tests.registered)'
    PROVE  TypeOK'
<1>1. calls' \in 0..MaxCalls /\ others' \in BOOLEAN
    BY SessionAssumption DEF TypeOK, Call
<1> QED
    BY <1>1 DEF TypeOK, Call, turn, result

\* The ways in which a tool call counts in the errors keep their type.
LEMMA ErrorsTyped ==
    ASSUME TypeOK, Ok \/ Fault \/ Neutral
    PROVE  errors' \in Nat
BY DEF TypeOK, Ok, Fault, Neutral, Counted

\* A gated call marks the trace.
LEMMA GateTyped ==
    ASSUME TypeOK, Gate
    PROVE  trace' \in Trace /\ errors' \in Nat
BY DEF TypeOK, Gate, Neutral, Trace

\* Whatever a tool call returns, the variables keep their types.
LEMMA CallTyped ==
    ASSUME TypeOK, ToolCall
    PROVE  TypeOK'
<1>1. policy \in Policy
    BY PolicyTyped
<1>2. /\ signal \in Signal \cup {"none"} /\ trace \in Trace
      /\ decided \in BOOLEAN /\ errors \in Nat
      /\ tests \in [registered : 0..policy.maxTests, valid : Nat,
                    attempts : 0..policy.maxAttempts]
      /\ tests.valid <= tests.registered
    BY DEF TypeOK
<1>3. CASE ReportKnowledgeUse
    <2>1. decided' \in BOOLEAN
        BY <1>2, <1>3 DEF ReportKnowledgeUse
    <2> QED
        BY <1>2, <1>3, <2>1, CallFrame, ErrorsTyped DEF ReportKnowledgeUse
<1>4. CASE Inspect
    BY <1>2, <1>4, CallFrame, ErrorsTyped DEF Inspect, channel
<1>5. CASE WriteFile
    <2>1. trace' \in Trace /\ errors' \in Nat
        BY <1>2, <1>5, GateTyped, ErrorsTyped DEF WriteFile, Trace
    <2> QED
        BY <1>2, <1>5, <2>1, CallFrame DEF WriteFile
<1>6. ASSUME NEW isTest \in BOOLEAN, NEW recognised \in BOOLEAN,
             Verify(isTest, recognised)
      PROVE  TypeOK'
    <2>1. ASSUME Verified(isTest) PROVE trace' \in Trace /\ errors' \in Nat
        BY <1>2, <2>1, ErrorsTyped DEF Verified, Trace
    <2>2. trace' \in Trace /\ errors' \in Nat
        BY <1>6, <2>1, GateTyped DEF Verify
    <2> QED
        BY <1>2, <1>6, <2>2, CallFrame DEF Verify
<1>7. ASSUME NEW s \in Signal, Give(s)
      PROVE  TypeOK'
    <2>1. trace' \in Trace /\ errors' \in Nat
        BY <1>2, <1>7, GateTyped, ErrorsTyped DEF Give
    <2>2. signal' \in Signal \cup {"none"}
        BY <1>2, <1>7 DEF Give
    <2> QED
        BY <1>2, <1>7, <2>1, <2>2, CallFrame DEF Give
<1>8. CASE RefuseBlocker
    <2>1. trace' \in Trace /\ errors' \in Nat
        BY <1>2, <1>8, GateTyped, ErrorsTyped DEF RefuseBlocker
    <2> QED
        BY <1>2, <1>8, <2>1, CallFrame DEF RefuseBlocker
<1>9. CASE RegisterTest
    <2>1. /\ tests' \in [registered : 0..policy.maxTests, valid : Nat,
                         attempts : 0..policy.maxAttempts]
          /\ (tests.valid <= tests.registered)'
        <3>1. CASE UNCHANGED tests
            BY <1>2, <3>1, <1>9 DEF RegisterTest, Call
        <3>2. ASSUME tests.attempts < policy.maxAttempts
              PROVE  /\ Attempt \in [registered : 0..policy.maxTests,
                          valid : Nat, attempts : 0..policy.maxAttempts]
                     /\ Attempt.valid = tests.valid
                     /\ Attempt.registered = tests.registered
            BY <1>1, <1>2, <3>2 DEF Attempt, Policy
        <3>3. CASE ~UNCHANGED tests
            <4>1. ~(tests.attempts >= policy.maxAttempts)
                BY <1>9, <3>3 DEF RegisterTest
            <4>2. tests.attempts < policy.maxAttempts
                BY <4>1, <1>1, <1>2 DEF Policy
            <4>3. CASE tests' = Attempt
                BY <1>2, <4>2, <4>3, <3>2
            <4>4. ASSUME tests.registered < policy.maxTests,
                         NEW valid \in {tests.valid, tests.valid + 1},
                         tests' = [Attempt EXCEPT !.registered = @ + 1,
                                                  !.valid = valid]
                  PROVE  /\ tests' \in [registered : 0..policy.maxTests,
                              valid : Nat, attempts : 0..policy.maxAttempts]
                         /\ tests'.valid <= tests'.registered
                <5>1. /\ Attempt.attempts \in 0..policy.maxAttempts
                      /\ tests.registered + 1 \in 0..policy.maxTests
                      /\ valid \in Nat /\ valid <= tests.registered + 1
                    BY <1>1, <1>2, <4>2, <3>2, <4>4 DEF Policy
                <5>2. /\ tests' = [registered |-> tests.registered + 1,
                                  valid |-> valid,
                                  attempts |-> Attempt.attempts]
                      /\ tests'.valid = valid
                      /\ tests'.registered = tests.registered + 1
                    BY <3>2, <4>2, <4>4
                <5> QED
                    BY <5>1, <5>2
            <4>5. ASSUME NEW valid \in 0..tests.registered,
                         tests' = [Attempt EXCEPT !.valid = valid]
                  PROVE  /\ tests' \in [registered : 0..policy.maxTests,
                              valid : Nat, attempts : 0..policy.maxAttempts]
                         /\ tests'.valid <= tests'.registered
                BY <1>1, <1>2, <4>2, <3>2, <4>5 DEF Policy
            <4>6. policy' = policy
                BY <1>9 DEF RegisterTest, Call
            <4> QED
                BY <1>9, <4>1, <4>3, <4>4, <4>5, <4>6 DEF RegisterTest
        <3> QED
            BY <3>1, <3>3
    <2>2. errors' \in Nat
        BY <1>9, ErrorsTyped DEF RegisterTest
    <2> QED
        BY <1>2, <1>9, <2>1, <2>2, CallFrame DEF RegisterTest
<1> QED
    BY <1>3, <1>4, <1>5, <1>6, <1>7, <1>8, <1>9 DEF ToolCall

\* Every step of the loop keeps the types.
LEMMA TypeStep == TypeOK /\ [Next]_vars => TypeOK'
<1> SUFFICES ASSUME TypeOK, [Next]_vars PROVE TypeOK'
    OBVIOUS
<1>1. policy \in Policy
    BY PolicyTyped
<1> USE <1>1 DEF Goto, Leave, turn, call, channel, result, Location, Status
<1>2. CASE BeginTurn
    BY <1>2 DEF TypeOK, BeginTurn, Policy
<1>3. CASE TimeLimit
    BY <1>3 DEF TypeOK, TimeLimit, Policy
<1>4. CASE LastTurnOver
    BY <1>4 DEF TypeOK, LastTurnOver
<1>5. CASE Prepare
    BY <1>5 DEF TypeOK, Prepare
<1>6. CASE ContextExhausted
    BY <1>6 DEF TypeOK, ContextExhausted
<1>7. CASE InvalidArguments
    BY <1>7 DEF TypeOK, InvalidArguments, Policy
<1>8. CASE ProviderError
    BY <1>8 DEF TypeOK, ProviderError
<1>9. ASSUME GraceTurnEnds
      PROVE  /\ pc' \in Location /\ status' \in Status
             /\ step' = step /\ seenFinal' = seenFinal
             /\ policy' = policy /\ start' = start
             /\ outcome' = outcome /\ idle' = idle
             /\ grace' \in 0..policy.graceTurns
             /\ retries' \in 0..policy.retries
    BY <1>9 DEF TypeOK, GraceTurnEnds, Policy
<1>10. CASE FinalAnswer
    BY <1>10, <1>9 DEF TypeOK, FinalAnswer
<1>11. CASE EmptyResponse
    <2>1. CASE InGrace
        BY <1>9, <1>11, <2>1 DEF TypeOK, EmptyResponse
    <2>2. CASE ~InGrace
        <3>1. errors' \in Nat
            BY <1>11, <2>2 DEF TypeOK, EmptyResponse
        <3>2. /\ pc' \in Location /\ status' \in Status
              /\ UNCHANGED <<policy, start, result, turn, retries, call, channel>>
            BY <1>11, <2>2 DEF TypeOK, EmptyResponse
        <3> QED
            BY <3>1, <3>2 DEF TypeOK
    <2> QED
        BY <2>1, <2>2
<1>12. CASE ToolCalls
    <2>1. MaxCalls \in Nat
        BY SessionAssumption
    <2>2. calls' = 0 /\ others' = FALSE
        BY <1>12 DEF ToolCalls
    <2>3. calls' \in 0..MaxCalls
        BY <2>1, <2>2
    <2>4. others' \in BOOLEAN
        BY <2>2
    <2>5. pc' = "calls"
          /\ UNCHANGED <<status, policy, start, result, turn, retries, errors,
                         channel>>
        BY <1>12 DEF ToolCalls
    <2> QED
        BY <2>3, <2>4, <2>5 DEF TypeOK
<1>13. CASE ToolCall
    BY <1>13, CallTyped
<1>14. CASE EndResponse
    <2>1. CASE InGrace
        BY <1>9, <1>14, <2>1 DEF TypeOK, EndResponse
    <2>2. CASE ~InGrace
        <3>1. /\ pc' \in Location /\ status' \in Status
              /\ UNCHANGED <<policy, start, result, turn, retries, errors, call,
                             channel>>
            BY <1>14, <2>2 DEF TypeOK, EndResponse
        <3> QED
            BY <3>1 DEF TypeOK
    <2> QED
        BY <2>1, <2>2
<1>15. CASE RepeatedCallId
    BY <1>15 DEF TypeOK, RepeatedCallId
<1>16. CASE BeginGrace
    BY <1>16 DEF TypeOK, BeginGrace, Policy
<1>17. CASE Finish
    BY <1>17 DEF TypeOK, Finish
<1>18. CASE Settle
    BY <1>18 DEF TypeOK, Settle, NoProgress, Trace
<1>19. CASE UNCHANGED vars
    BY <1>19 DEF TypeOK, vars
<1> QED
    BY <1>2, <1>3, <1>4, <1>5, <1>6, <1>7, <1>8, <1>10, <1>11, <1>12, <1>13,
       <1>14, <1>15, <1>16, <1>17, <1>18, <1>19 DEF Next

\* TypeOK holds for every policy, whatever the model and the tools answer: a
\* session keeps its turns, retries, grace turns and registrations within the
\* limits of its settings.
THEOREM SessionTyped == Spec => []TypeOK
BY TypeInit, TypeStep, PTL DEF Spec

-----------------------------------------------------------------------------
\* What the location says of the signal, the status and the outcome.  The
\* status alone is not inductive: that the loop is never left as completed
\* without a signal, nor otherwise with one, rests on no turn beginning after
\* a signal was given.
SignalInv ==
    /\ pc \in {"turn", "prepare", "respond"} =>
          status # "completed" /\ signal = "none"
    /\ pc = "calls" => status # "completed"
    /\ pc \in {"left", "ended", "done"} =>
          (status = "completed" <=> signal # "none")
    /\ pc \notin {"done", "raised"} => outcome = "open" /\ idle = FALSE

LEMMA SignalInit == Init => SignalInv
BY DEF Init, SignalInv

\* A tool call may give a signal, and stays among the calls.
LEMMA CallKeepsSignalInv ==
    ASSUME SignalInv, ToolCall
    PROVE  SignalInv'
<1>1. ASSUME NEW b \in BOOLEAN, Call(b)
      PROVE  SignalInv'
    BY <1>1 DEF SignalInv, Call, result
<1> QED
    BY <1>1 DEF ToolCall, ReportKnowledgeUse, Inspect, WriteFile, Verify, Give,
                RefuseBlocker, RegisterTest

LEMMA SignalStep == SignalInv /\ [Next]_vars => SignalInv'
<1> SUFFICES ASSUME SignalInv, [Next]_vars PROVE SignalInv'
    OBVIOUS
<1> USE DEF SignalInv, Goto, Leave, turn, call, channel, result
<1>1. CASE BeginTurn
    BY <1>1 DEF BeginTurn
<1>2. CASE TimeLimit
    BY <1>2 DEF TimeLimit
<1>3. CASE LastTurnOver
    BY <1>3 DEF LastTurnOver
<1>4. CASE Prepare
    BY <1>4 DEF Prepare
<1>5. CASE ContextExhausted
    BY <1>5 DEF ContextExhausted
<1>6. CASE InvalidArguments
    BY <1>6 DEF InvalidArguments
<1>7. CASE ProviderError
    BY <1>7 DEF ProviderError
<1>8. ASSUME GraceTurnEnds, UNCHANGED signal, pc \in {"respond", "calls"}
      PROVE  SignalInv'
    BY <1>8 DEF GraceTurnEnds
<1>9. CASE FinalAnswer
    BY <1>9, <1>8 DEF FinalAnswer
<1>10. CASE EmptyResponse
    BY <1>10, <1>8 DEF EmptyResponse
<1>11. CASE ToolCalls
    BY <1>11 DEF ToolCalls
<1>12. CASE ToolCall
    BY <1>12, CallKeepsSignalInv
<1>13. CASE EndResponse
    BY <1>13, <1>8 DEF EndResponse
<1>14. CASE RepeatedCallId
    BY <1>14 DEF RepeatedCallId
<1>15. CASE BeginGrace
    BY <1>15 DEF BeginGrace
<1>16. CASE Finish
    BY <1>16 DEF Finish, OutOfTurns
<1>17. CASE Settle
    BY <1>17 DEF Settle
<1>18. CASE UNCHANGED vars
    BY <1>18 DEF vars
<1> QED
    BY <1>1, <1>2, <1>3, <1>4, <1>5, <1>6, <1>7, <1>9, <1>10, <1>11, <1>12,
       <1>13, <1>14, <1>15, <1>16, <1>17, <1>18 DEF Next

\* The status the loop reports is "completed" exactly when a terminal signal
\* was given, for every policy and every order of errors, calls and turns.
THEOREM StatusIsCorrect == Spec => []StatusMatchesSignal
<1>1. SignalInv => StatusMatchesSignal
    BY DEF SignalInv, StatusMatchesSignal
<1> QED
    BY <1>1, SignalInit, SignalStep, PTL DEF Spec

-----------------------------------------------------------------------------
\* Nothing but tool calls touches what knowledge gates.
LEMMA OnlyCallsChangeChannel ==
    ASSUME [Next]_vars, ~ToolCall
    PROVE  UNCHANGED <<signal, trace, tests, decided, start>>
BY DEF Next, vars, channel, Goto, Leave, GraceTurnEnds, BeginTurn, TimeLimit,
       LastTurnOver, Prepare, ContextExhausted, InvalidArguments, ProviderError,
       FinalAnswer, EmptyResponse, ToolCalls, EndResponse, RepeatedCallId,
       BeginGrace, Finish, Settle

LEMMA KnowledgeStep == TypeOK /\ KnowledgeDecisionFirst /\ [Next]_vars
                          => KnowledgeDecisionFirst'
<1> SUFFICES ASSUME TypeOK, KnowledgeDecisionFirst, [Next]_vars
             PROVE  KnowledgeDecisionFirst'
    OBVIOUS
<1> USE DEF KnowledgeDecisionFirst, KnowledgePending, TypeOK, Trace
<1>1. CASE ~ToolCall
    BY <1>1, OnlyCallsChangeChannel
<1>2. CASE ReportKnowledgeUse
    BY <1>2 DEF ReportKnowledgeUse, Call
<1>3. CASE Inspect
    BY <1>3 DEF Inspect, Call, channel
<1>4. CASE WriteFile
    BY <1>4 DEF WriteFile, Call, Gate
<1>5. ASSUME NEW isTest \in BOOLEAN, NEW recognised \in BOOLEAN,
             Verify(isTest, recognised)
      PROVE  KnowledgeDecisionFirst'
    BY <1>5 DEF Verify, Call, Gate, Verified
<1>6. ASSUME NEW s \in Signal, Give(s)
      PROVE  KnowledgeDecisionFirst'
    BY <1>6 DEF Give, Call, Gate
<1>7. CASE RefuseBlocker
    BY <1>7 DEF RefuseBlocker, Call, Gate
<1>8. CASE RegisterTest
    BY <1>8 DEF RegisterTest, Call
<1> QED
    BY <1>1, <1>2, <1>3, <1>4, <1>5, <1>6, <1>7, <1>8 DEF ToolCall

\* Retrieved knowledge is decided on before the session writes, runs a test or
\* gives a signal, whatever the order of the calls in a response.
THEOREM KnowledgeIsDecidedFirst == Spec => []KnowledgeDecisionFirst
<1>1. Init => KnowledgeDecisionFirst
    BY DEF Init, KnowledgeDecisionFirst
<1> QED
    BY <1>1, TypeInit, TypeStep, KnowledgeStep, PTL DEF Spec

-----------------------------------------------------------------------------
LEMMA EvidenceStep ==
    SignalInv /\ EvidenceNotOverlooked /\ [Next]_vars => EvidenceNotOverlooked'
<1> SUFFICES ASSUME SignalInv, EvidenceNotOverlooked, [Next]_vars
             PROVE  EvidenceNotOverlooked'
    OBVIOUS
<1>1. CASE Finish
    BY <1>1 DEF Finish, SignalInv, EvidenceNotOverlooked, OutOfTurns,
                HasEvidence, channel
<1>2. CASE UNCHANGED vars
    BY <1>2 DEF vars, EvidenceNotOverlooked, OutOfTurns, HasEvidence, channel
<1>3. ASSUME NEW b \in BOOLEAN, Call(b)
      PROVE  pc' # "ended"
    BY <1>3 DEF Call
<1>4. CASE ~Finish /\ ~UNCHANGED vars
    <2>1. pc' # "ended"
        BY <1>3, <1>4 DEF Next, Goto, Leave, GraceTurnEnds, BeginTurn,
           TimeLimit, LastTurnOver, Prepare, ContextExhausted,
           InvalidArguments, ProviderError, FinalAnswer, EmptyResponse,
           ToolCalls, EndResponse, RepeatedCallId, BeginGrace, Settle,
           ToolCall, ReportKnowledgeUse, Inspect, WriteFile, Verify, Give,
           RefuseBlocker, RegisterTest
    <2> QED
        BY <2>1 DEF EvidenceNotOverlooked
<1> QED
    BY <1>1, <1>2, <1>4

\* Current evidence of completion always shows in the status of a session
\* that runs out of turns, however many grace turns it has.
THEOREM EvidenceIsSeen == Spec => []EvidenceNotOverlooked
<1>1. Init => EvidenceNotOverlooked
    BY DEF Init, EvidenceNotOverlooked
<1> QED
    BY <1>1, SignalInit, SignalStep, EvidenceStep, PTL DEF Spec

-----------------------------------------------------------------------------
LEMMA PromiseInit == Init => Promise!Init
BY DEF Init, Promise!Init

\* Every step of the session is a step of AgentSession or leaves it alone.
LEMMA PromiseStep ==
    TypeOK /\ SignalInv /\ [Next]_vars => [Promise!Next]_(Promise!vars)
<1> SUFFICES ASSUME TypeOK, SignalInv, [Next]_vars
             PROVE  Promise!Next \/ UNCHANGED <<signal, outcome, idle>>
    BY DEF Promise!vars
<1>1. ASSUME NEW s \in Signal, Give(s)
      PROVE  Promise!Next \/ UNCHANGED <<signal, outcome, idle>>
    <2>1. outcome = "open" /\ UNCHANGED <<outcome, idle>>
        BY <1>1 DEF Give, Call, SignalInv, result
    <2>2. UNCHANGED signal \/ (signal = "none" /\ signal' = s)
        BY <1>1 DEF Give
    <2> QED
        BY <2>1, <2>2 DEF Promise!Next, Promise!Give
<1>2. CASE Settle
    <2>1. outcome = "open" /\ UNCHANGED signal
        BY <1>2 DEF Settle, SignalInv, channel
    <2>5. idle' \in BOOLEAN
        BY <1>2, Zenon DEF Settle, NoProgress
    <2>2. IF signal = "none" THEN outcome' \in {"evidence", "nothing"}
          ELSE outcome' = signal /\ idle' = FALSE
        BY <1>2 DEF Settle, NoProgress
    <2>3. outcome' \in Signal \cup {"evidence", "nothing"}
        BY <2>2 DEF TypeOK
    <2>4. Promise!Settle(outcome', idle')
        BY <2>1, <2>2 DEF Promise!Settle
    <2> QED
        BY <2>3, <2>4, <2>5 DEF Promise!Next
<1>3. CASE RepeatedCallId
    BY <1>3 DEF RepeatedCallId, channel, SignalInv, Promise!Next, Promise!Lose
<1>4. CASE ToolCall /\ ~\E s \in Signal : Give(s)
    BY <1>4 DEF ToolCall, ReportKnowledgeUse, Inspect, WriteFile, Verify,
                RefuseBlocker, RegisterTest, Call, channel, result
<1>5. CASE ~ToolCall /\ ~Settle /\ ~RepeatedCallId
    BY <1>5 DEF Next, vars, channel, result, Goto, Leave, GraceTurnEnds,
                BeginTurn, TimeLimit, LastTurnOver, Prepare, ContextExhausted,
                InvalidArguments, ProviderError, FinalAnswer, EmptyResponse,
                ToolCalls, EndResponse, BeginGrace, Finish
<1> QED
    BY <1>1, <1>2, <1>3, <1>4, <1>5

\* Session implements AgentSession: the orchestrator may rely on one signal
\* that stands, and on an outcome that agrees with it.
THEOREM SessionKeepsPromise == Spec => KeepsPromise
BY TypeInit, TypeStep, SignalInit, SignalStep, PromiseInit, PromiseStep, PTL
   DEF Spec, KeepsPromise, Promise!Spec
=============================================================================
