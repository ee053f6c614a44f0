------------------------------ MODULE Context -------------------------------
(***************************************************************************)
(* The context of one session (context/): before each request to the model *)
(* the lifecycle manager marks what became stale, measures the messages    *)
(* and leaves them alone, prunes them, or replaces them by a handoff and   *)
(* begins a new segment; the agent's tool calls change the files meanwhile *)
(* and the process may die between any two writes.                         *)
(*                                                                         *)
(* Left out: the texts, so that what a list of messages measures is a      *)
(* choice, and reminders, which pruning only deduplicates.  A version of a *)
(* file is the number of the change that made it, and stands for its hash. *)
(***************************************************************************)
EXTENDS Integers, Sequences, FiniteSets

CONSTANTS
    Paths, Commands,   \* files of the workspace, commands of the agent
    Verifies,          \* commands that count as verification
    CRLF,              \* <<path, version>>: has line ends that reading translates
    Settings,          \* settings of the manager
    None,
    Listed,            \* verifications a handoff lists, five in the code
    MaxSteps, MaxCalls, \* bounds: requests answered, tool calls of the session
    MaxRetries         \* agent.protocol_retries_per_step

\* seeded: the manager has a seed and a session id; stored: it has a store.
Setting == [mode : {"full_history", "recent_window", "deterministic_prune",
                    "structured_reset"},
            recent_full_turns : Nat \ {0}, compact_old : BOOLEAN,
            use_model : BOOLEAN, fallback : BOOLEAN,
            seeded : BOOLEAN, stored : BOOLEAN]

ASSUME ContextAssumption ==
    /\ Verifies \subseteq Commands /\ None \notin Paths \cup Commands
    /\ CRLF \subseteq Paths \X Nat
    /\ Settings \subseteq Setting
    /\ {MaxSteps, MaxCalls, MaxRetries} \subseteq Nat /\ Listed \in Nat \ {0}

VARIABLES
    files, code_epoch, \* versions of the files; ToolContext.code_epoch
    turns,             \* the turns of the buffer
    active,            \* the turn that is being answered
    handoff,           \* the handoff the buffer begins with, or None
    segment, tracker,  \* context_segment_id; the StaleTracker
    cfg, pc, step, calls, retries,
    request,           \* what the model was last asked with
    draft,             \* a handoff that is not in the buffer yet
    saved, records,    \* on disk: handoffs, context_segments.jsonl
    meddled, written, withheld  \* history: files that changed behind the
                       \* tracker's back, files a result says were written, was
                       \* the result of a write withheld?

workspace == <<files, code_epoch, meddled, written, withheld>>
buffer == <<turns, active, handoff, segment>>
disk == <<saved, records>>
session == <<cfg, step, calls, retries>>
vars == <<workspace, buffer, tracker, session, pc, request, draft, disk>>

\* A measurement: below the trigger ratio, at or over it, over the hard stop too
\* (0 < trigger_ratio < hard_stop_ratio).
Level == 0..2
Triggered(level) == level >= 1
should_hard_stop(level) == level = 2

(***************************************************************************)
(* What is in a turn                                                       *)
(***************************************************************************)
\* A result as the tracker and the handoff read it.  One that failed or was
\* withheld from the agent is "other"; epoch 0 is also a missing one.
Read(p, v)       == [tool |-> "read_file", path |-> p, version |-> v, changed |-> FALSE]
Wrote(p, v, new) == [tool |-> "write_file", path |-> p, version |-> v, changed |-> new]
Ran(c, e, ok)    == [tool |-> "bash", command |-> c, epoch |-> e,
                     verifies |-> c \in Verifies, passed |-> ok]
\* A command the policy refused: it has no exit code and no kind.
Refused(c)       == [tool |-> "bash", command |-> c, epoch |-> 0,
                     verifies |-> FALSE, passed |-> FALSE]
Other            == [tool |-> "other"]

\* write_file compares, and hashes, the text that read_text gives it, with LF for
\* line ends: where it finds nothing to change, the hash it reports is that of
\* the file only if the file has such line ends itself.  No file has the other.
TextOf(p, v) == IF <<p, v>> \in CRLF THEN -1 - v ELSE v

Result == [tool : {"read_file", "write_file"}, path : Paths, version : Int,
           changed : BOOLEAN]
          \cup [tool : {"bash"}, command : Commands, epoch : Nat,
                verifies : BOOLEAN, passed : BOOLEAN]
          \cup {Other}
Turn == [step : Nat, status : {"active", "stale", "superseded"}, control : BOOLEAN,
         results : Seq(Result)]

Changes(r)  == r.tool = "write_file" /\ r.changed
Verified(r) == r.tool = "bash" /\ r.verifies /\ r.passed

\* The results of some turns are found by turn and number, in this order.
Places(ts) == UNION {{i} \X DOMAIN ts[i].results : i \in DOMAIN ts}
At(ts, k) == ts[k[1]].results[k[2]]
Earlier(j, k) == j[1] < k[1] \/ (j[1] = k[1] /\ j[2] < k[2])

(***************************************************************************)
(* StaleTracker.refresh                                                    *)
(***************************************************************************)
Seen(k) == At(turns, k)
Writes(ks) == {k \in ks : Changes(Seen(k))}

\* Mutant: the epoch starts anew, and writes that a reset dropped do not count.
EpochAfterAnew(ks) == Cardinality(Writes(ks))

\* The tracker's epoch when it has looked at some results.  It goes on counting
\* from the last refresh, so that a write counts at every refresh.
EpochAfter(ks) == tracker.epoch + Cardinality(Writes(ks))
EpochAt(n) == EpochAfter({k \in Places(turns) : ~Earlier(n, k)})

\* metadata.get("code_epoch") or self.code_epoch
EpochOf(n) == IF Seen(n).epoch # 0 THEN Seen(n).epoch ELSE EpochAt(n)

\* Mutant: reads after the write are stale too.
OutdatesAny(n, k) ==
    /\ Changes(Seen(n))
    /\ \/ Seen(k).tool = "read_file" /\ Seen(k).path = Seen(n).path
       \/ Verified(Seen(k)) /\ EpochOf(k) < EpochAt(n)

\* Does result n make result k stale?
Outdates(n, k) ==
    /\ Earlier(k, n) /\ Changes(Seen(n))
    /\ \/ Seen(k).tool = "read_file" /\ Seen(k).path = Seen(n).path
       \/ Verified(Seen(k)) /\ EpochOf(k) < EpochAt(n)

\* Is result n a repetition of result k?
Repeats(n, k) ==
    /\ Earlier(k, n) /\ Seen(k).tool = "bash" /\ Seen(n).tool = "bash"
    /\ Seen(k).command = Seen(n).command
    /\ EpochOf(k) = EpochOf(n)

StepsAt(ks) == {turns[k[1]].step : k \in ks}

Refreshed ==
    LET all == Places(turns)
    IN  [epoch |-> EpochAfter(all),
         stale |-> tracker.stale
            \cup StepsAt({k \in all : \E n \in all : Outdates(n, k)}),
         superseded |-> tracker.superseded
            \cup StepsAt({k \in all : \E n \in all : Repeats(n, k)})]

\* Mutant: that a command was repeated is looked at first.
MarkedSupersededFirst(t) == [i \in DOMAIN turns |->
    [turns[i] EXCEPT !.status = IF turns[i].step \in t.superseded THEN "superseded"
                                ELSE IF turns[i].step \in t.stale THEN "stale" ELSE @]]

\* The turns with the statuses the tracker gives them.
Marked(t) == [i \in DOMAIN turns |->
    [turns[i] EXCEPT !.status = IF turns[i].step \in t.stale THEN "stale"
                                ELSE IF turns[i].step \in t.superseded
                                     THEN "superseded" ELSE @]]

(***************************************************************************)
(* What is shown of a turn (pruner.py)                                     *)
(***************************************************************************)
Steps(ts) == {ts[i].step : i \in DOMAIN ts}
TurnOf(ts, s) == ts[CHOOSE i \in DOMAIN ts : ts[i].step = s]
Recent(ts) == {ts[i].step : i \in {i \in DOMAIN ts : i > Len(ts) - cfg.recent_full_turns}}

Whole(ts) == [s \in Steps(ts) |-> "full"]
Window(ts) == [s \in Recent(ts) |-> "full"]
Pruned(ts) == [s \in Steps(ts) |->
    IF s \in Recent(ts) \/ TurnOf(ts, s).control THEN "full"
    ELSE IF TurnOf(ts, s).status # "active" THEN TurnOf(ts, s).status
    ELSE IF cfg.compact_old THEN "old" ELSE "full"]

(***************************************************************************)
(* deterministic_handoff: it reads the turns of the buffer, not the        *)
(* handoff the buffer begins with                                          *)
(***************************************************************************)
\* The last write of a file, or else its first read.
HandoffFiles(ts) ==
    LET of(p, tool) == {k \in Places(ts) : At(ts, k).tool = tool /\ At(ts, k).path = p}
        named == {p \in Paths : of(p, "write_file") \cup of(p, "read_file") # {}}
        last(ks) == CHOOSE k \in ks : \A j \in ks : ~Earlier(k, j)
        first(ks) == CHOOSE k \in ks : \A j \in ks : ~Earlier(j, k)
    IN  [p \in named |->
            At(ts, IF of(p, "write_file") # {} THEN last(of(p, "write_file"))
                   ELSE first(of(p, "read_file"))).version]

\* The last verifications, whose order is left out.
Verifications(ts) ==
    LET ran == {k \in Places(ts) : At(ts, k).tool = "bash" /\ At(ts, k).verifies}
        listed == {k \in ran : Cardinality({j \in ran : Earlier(k, j)}) < Listed}
    IN  {[epoch |-> At(ts, k).epoch, passed |-> At(ts, k).passed,
          stale |-> ts[k[1]].status = "stale"] : k \in listed}

\* made, tree and wrote say what the workspace was like when it was written.
Handoff(generator, fs, vs) ==
    [generator |-> generator, source |-> segment, target |-> segment + 1,
     files |-> fs, verifications |-> vs,
     made |-> code_epoch, tree |-> files, wrote |-> written]

Init ==
    /\ files = [p \in Paths |-> 0] /\ code_epoch = 0
    /\ meddled = {} /\ written = {} /\ withheld = FALSE
    /\ turns = <<>> /\ active = None /\ handoff = None /\ segment = 1
    /\ tracker = [epoch |-> 0, stale |-> {}, superseded |-> {}]
    /\ cfg \in Settings /\ pc = "ready" /\ step = 0 /\ calls = 0 /\ retries = 0
    /\ request = None /\ draft = None
    /\ saved = {} /\ records = <<>>

(***************************************************************************)
(* ContextLifecycleManager.prepare                                         *)
(***************************************************************************)
Send(shown, level) ==
    /\ pc' = "request"
    /\ request' = [shown |-> shown, level |-> level]

\* _budget_exhausted.  The loop takes it for an error of the provider when it is
\* the preparation of a retry that found it.
Exhaust ==
    /\ pc' = IF retries > 0 THEN "provider_error" ELSE "context_budget_exhausted"
    /\ UNCHANGED request

SendOrStop(shown, level) ==
    IF should_hard_stop(level) THEN Exhaust ELSE Send(shown, level)

\* Mutant: a context without turns is sent whatever it measures.
PrepareStructuredUnchecked(ts, level) ==
    IF ~Triggered(level) \/ ts = <<>> THEN Send(Whole(ts), level)
    ELSE \E pruned \in Level :
            IF ~Triggered(pruned) THEN Send(Pruned(ts), pruned)
            ELSE IF ~cfg.seeded THEN Exhaust
            ELSE pc' = "compact" /\ UNCHANGED request

\* The mode structured_reset, for the marked turns and their measurement.
PrepareStructured(ts, level) ==
    IF ~Triggered(level) THEN Send(Whole(ts), level)
    ELSE IF ts = <<>> THEN SendOrStop(Whole(ts), level)
    ELSE \E pruned \in Level :
            IF ~Triggered(pruned) THEN Send(Pruned(ts), pruned)
            ELSE IF ~cfg.seeded THEN Exhaust
            ELSE pc' = "compact" /\ UNCHANGED request

Prepare ==
    /\ pc = "ready"
    /\ tracker' = Refreshed
    /\ turns' = Marked(Refreshed)
    /\ \E level \in Level :
          \/ cfg.mode = "full_history" /\ SendOrStop(Whole(turns'), level)
          \/ cfg.mode = "recent_window" /\ SendOrStop(Window(turns'), level)
          \/ cfg.mode = "deterministic_prune" /\ SendOrStop(Pruned(turns'), level)
          \/ cfg.mode = "structured_reset" /\ PrepareStructured(turns', level)
    /\ UNCHANGED <<workspace, active, handoff, segment, session, draft, disk>>

(***************************************************************************)
(* _perform_structured_reset                                               *)
(***************************************************************************)
\* The model may write the handoff; what it says then is not modelled.  When it
\* fails, the deterministic one is written, unless that is disabled.
Compact ==
    /\ pc = "compact"
    /\ \/ /\ cfg.use_model
          /\ draft' = Handoff("model", <<>>, {}) /\ pc' = "save"
       \/ /\ cfg.fallback
          /\ draft' = Handoff("deterministic", HandoffFiles(turns), Verifications(turns))
          /\ pc' = "save"
       \/ /\ ~cfg.fallback
          /\ pc' = "raised" /\ UNCHANGED draft
    /\ UNCHANGED <<workspace, buffer, tracker, session, request, disk>>

SaveHandoff ==
    /\ pc = "save"
    /\ saved' = IF cfg.stored THEN saved \cup {draft.target} ELSE saved
    /\ pc' = "close"
    /\ UNCHANGED <<workspace, buffer, tracker, session, request, draft, records>>

Record(event, n, h) == [event |-> event, segment |-> n, handoff |-> h.target]
Logged(record) == IF cfg.stored THEN Append(records, record) ELSE records

\* Mutant: the segment is counted before its end is recorded.
CloseSegmentLate ==
    /\ pc = "close"
    /\ turns' = <<>> /\ handoff' = draft /\ segment' = segment + 1 /\ draft' = None
    /\ records' = Logged(Record("end", segment', draft))
    /\ pc' = "open"
    /\ UNCHANGED <<workspace, active, tracker, session, request, saved>>

\* reset_to drops all items of the buffer, an earlier handoff too.
CloseSegment ==
    /\ pc = "close"
    /\ turns' = <<>> /\ handoff' = draft /\ segment' = segment + 1 /\ draft' = None
    /\ records' = Logged(Record("end", segment, draft))
    /\ pc' = "open"
    /\ UNCHANGED <<workspace, active, tracker, session, request, saved>>

\* Mutant: the messages from before the reset are sent.
OpenSegmentWithOld ==
    /\ pc = "open"
    /\ records' = Logged(Record("start", segment, handoff))
    /\ \E level \in Level : SendOrStop([s \in 1..step |-> "full"], level)
    /\ UNCHANGED <<workspace, buffer, tracker, session, draft, saved>>

OpenSegment ==
    /\ pc = "open"
    /\ records' = Logged(Record("start", segment, handoff))
    /\ \E level \in Level : SendOrStop(Whole(turns), level)
    /\ UNCHANGED <<workspace, buffer, tracker, session, draft, saved>>

(***************************************************************************)
(* The agent's answer (agent/loop.py, tools/)                              *)
(***************************************************************************)
\* The session may end after any answer and its process may die anywhere: then
\* nothing more happens, so neither is an action.
\*
\* Malformed arguments: the correction is added and the context prepared again.
Retry ==
    /\ pc = "request"
    /\ IF retries < MaxRetries THEN retries' = retries + 1 /\ pc' = "ready"
       ELSE pc' = "protocol_error" /\ UNCHANGED retries
    /\ request' = None
    /\ UNCHANGED <<workspace, buffer, tracker, cfg, step, calls, draft, disk>>

BeginTurn ==
    /\ pc = "request" /\ step < MaxSteps /\ calls < MaxCalls
    /\ step' = step + 1 /\ retries' = 0 /\ request' = None
    /\ active' = [step |-> step', status |-> "active", control |-> FALSE, results |-> <<>>]
    /\ pc' = "turn"
    /\ UNCHANGED <<workspace, turns, handoff, segment, tracker, cfg, calls, draft, disk>>

AddResult(result) ==
    /\ pc = "turn" /\ calls < MaxCalls
    /\ active' = [active EXCEPT !.results = Append(@, result)]
    /\ calls' = calls + 1
    /\ UNCHANGED <<turns, handoff, segment, tracker, cfg, pc, step, retries, request,
                   draft, disk>>

ReadFile(p) == AddResult(Read(p, files[p])) /\ UNCHANGED workspace

\* project_agent_visible_tool_result may withhold the result of a write.
WriteFile(p, visible) ==
    /\ AddResult(IF visible THEN Wrote(p, files[p] + 1, TRUE) ELSE Other)
    /\ files' = [files EXCEPT ![p] = @ + 1]
    /\ code_epoch' = code_epoch + 1
    /\ IF visible THEN written' = written \cup {p} /\ UNCHANGED <<meddled, withheld>>
       ELSE meddled' = meddled \cup {p} /\ withheld' = TRUE /\ UNCHANGED written

\* no_change: read_file would report the hash of the file.
WriteSame(p) == AddResult(Wrote(p, TextOf(p, files[p]), FALSE)) /\ UNCHANGED workspace

\* The file was replaced, but its diff cannot be saved: the call fails, and no
\* epoch counts the change.
WriteFails(p) ==
    /\ AddResult(Other)
    /\ files' = [files EXCEPT ![p] = @ + 1]
    /\ meddled' = meddled \cup {p}
    /\ UNCHANGED <<code_epoch, written, withheld>>

\* A command may change files, which no epoch counts.
Bash(c, ok, changed) ==
    /\ AddResult(Ran(c, code_epoch, ok))
    /\ files' = [p \in Paths |-> IF p \in changed THEN files[p] + 1 ELSE files[p]]
    /\ meddled' = meddled \cup changed
    /\ UNCHANGED <<code_epoch, written, withheld>>

BashRefused(c) == AddResult(Refused(c)) /\ UNCHANGED workspace

\* A call that failed, or whose result was withheld, and changed nothing.
ToolFails == AddResult(Other) /\ UNCHANGED workspace

\* A control tool, whose turn is always shown whole.
Control ==
    /\ pc = "turn" /\ calls < MaxCalls
    /\ active' = [active EXCEPT !.results = Append(@, Other), !.control = TRUE]
    /\ calls' = calls + 1
    /\ UNCHANGED <<workspace, turns, handoff, segment, tracker, cfg, pc, step, retries,
                   request, draft, disk>>

FinalizeTurn ==
    /\ pc = "turn" /\ active.results # <<>>
    /\ turns' = Append(turns, active) /\ active' = None
    /\ pc' = "ready"
    /\ UNCHANGED <<workspace, handoff, segment, tracker, session, request,
                   draft, disk>>

Next ==
    \/ Prepare \/ Compact \/ SaveHandoff \/ CloseSegment \/ OpenSegment
    \/ Retry \/ BeginTurn \/ FinalizeTurn \/ Control \/ ToolFails
    \/ \E p \in Paths :
          \/ ReadFile(p) \/ WriteSame(p) \/ WriteFails(p)
          \/ \E visible \in BOOLEAN : WriteFile(p, visible)
    \/ \E c \in Commands :
          \/ BashRefused(c)
          \/ \E ok \in BOOLEAN, changed \in SUBSET Paths : Bash(c, ok, changed)

Spec == Init /\ [][Next]_vars

(***************************************************************************)
(* Properties                                                              *)
(***************************************************************************)
Ended == {"context_budget_exhausted", "provider_error", "protocol_error", "raised"}

\* The variables have the values of the code's records, what is shown are turns
\* of the buffer, and the buffer belongs to the segment its handoff names.
TypeOK ==
    /\ files \in [Paths -> Nat] /\ code_epoch \in Nat
    /\ meddled \subseteq Paths /\ written \subseteq Paths /\ withheld \in BOOLEAN
    /\ turns \in Seq(Turn)
    /\ \A i \in DOMAIN turns :
          /\ turns[i].step \in 1..step /\ turns[i].results # <<>>
          /\ \A j \in DOMAIN turns : i < j => turns[i].step < turns[j].step
    /\ IF pc = "turn" THEN active \in Turn ELSE active = None
    /\ IF pc = "request"
       THEN request.level \in Level /\ DOMAIN request.shown \subseteq Steps(turns)
       ELSE request = None
    /\ tracker.epoch \in Nat
    /\ tracker.stale \cup tracker.superseded \subseteq 1..step
    /\ cfg \in Settings /\ step \in 0..MaxSteps /\ retries \in 0..MaxRetries
    /\ calls \in 0..MaxCalls
    /\ pc \in {"ready", "request", "compact", "save", "close", "open", "turn"} \cup Ended
    /\ IF segment = 1 THEN handoff = None ELSE handoff.target = segment
    /\ pc \in {"save", "close"} => draft.source = segment

\* Was something that a turn reports changed by a later write?
OldRead(r) == r.tool = "read_file" /\ r.version < files[r.path]
OldVerification(r) == Verified(r) /\ r.epoch < code_epoch

\* How a request shows a stale turn: as stale, or in full, if it is one of the
\* recent turns or has a control tool, or if no turn of the request is shortened.
ShownAsStale(ts, shown, turn) ==
    \/ shown[turn.step] = "stale"
    \/ /\ shown[turn.step] = "full"
       /\ \/ turn.step \in Recent(ts) \/ turn.control
          \/ \A s \in DOMAIN shown : shown[s] = "full"

\* Where a request shortens turns, each one with an observation that a later
\* write made obsolete says that it is stale, not that it is old or repeated,
\* whatever was pruned, reset and retried between them; only the recent turns
\* and those of control tools are left in full.  A turn in full says nothing of
\* its status: the model is not told that it is obsolete.  Changes that the
\* tracker cannot see are beyond it: by commands, by writes that failed after
\* all, by writes whose result was withheld (stale_tracker.py; pruner.py).
StaleIsMarked ==
    pc = "request" => \A i \in DOMAIN turns :
        LET turn == turns[i]
            outdated == \E k \in DOMAIN turn.results :
                            LET r == turn.results[k]
                            IN  \/ OldRead(r) /\ r.path \notin meddled
                                \/ OldVerification(r) /\ ~withheld
        IN  outdated => /\ turn.status = "stale"
                        /\ turn.step \in DOMAIN request.shown =>
                              ShownAsStale(turns, request.shown, turn)

\* A turn is called stale only when something in it is obsolete, although the
\* tracker looks at the same turns again and again and remembers their steps
\* over resets.
FreshIsKept ==
    \A i \in DOMAIN turns :
        turns[i].status = "stale" =>
            \E k \in DOMAIN turns[i].results :
                OldRead(turns[i].results[k]) \/ OldVerification(turns[i].results[k])

\* No request that measures over the hard stop is sent, by any mode, also after
\* a retry and after a reset that did not help (lifecycle.py, prepare).
NeverOverHardStop ==
    pc = "request" => /\ ~should_hard_stop(request.level)
                      /\ Triggered(request.level) =>
                            cfg.mode # "structured_reset" \/ turns = <<>>

Deterministic == {h \in {handoff, draft} \ {None} : h.generator = "deterministic"}

\* A handoff is about the workspace at that moment, although it is made of turns
\* that the tracker and earlier resets left: unless a file changed behind the
\* tracker's back, the hash it names is that of the file or, after a write that
\* found nothing to change, of its text with LF for line ends; the first one
\* names every file that a result says was written; and no write the epoch counts
\* came after a verification it hands on as valid (handoff.py,
\* deterministic_handoff).
HandoffIsTrue ==
    \A h \in Deterministic :
        /\ \A p \in DOMAIN h.files \ meddled :
              h.files[p] \in {h.tree[p], TextOf(p, h.tree[p])}
        /\ h.source = 1 => h.wrote \subseteq DOMAIN h.files
        /\ \A v \in h.verifications :
              ~withheld /\ v.passed /\ ~v.stale => v.epoch = h.made

\* The agent continues only from a handoff that is on disk, and the log of
\* segments tells how: each end of a segment is followed by the start of the
\* next from the same saved handoff, wherever the process died.
SegmentsHaveHandoffs ==
    /\ handoff # None /\ cfg.stored => handoff.target \in saved
    /\ \A k \in DOMAIN records :
          /\ records[k].handoff \in saved
          /\ records[k].event = IF k % 2 = 1 THEN "end" ELSE "start"
          /\ records[k].segment = (k + 2) \div 2
          /\ records[k].handoff = (k + 1) \div 2 + 1

(***************************************************************************)
(* What the texts say                                                      *)
(***************************************************************************)
\* README.md:19 says that the handoff keeps the modified files and their hashes:
\* every file the agent wrote is named by the handoff it continues from.
HandoffKeepsFiles == \A h \in Deterministic : h.wrote \subseteq DOMAIN h.files
=============================================================================
