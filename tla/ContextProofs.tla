---------------------------- MODULE ContextProofs ----------------------------
(***************************************************************************)
(* Theorems of Context, for all files, commands, settings and lengths of a *)
(* session.                                                                *)
(*                                                                         *)
(* The tracker looks at the turns of the buffer, the files change while a  *)
(* turn is being answered, and a reset drops turns but not what the        *)
(* tracker remembers.  So the invariant relates every result that is still *)
(* there, in the buffer or in the active turn, to the files as they are,   *)
(* and to the later results that changed them (ObservationInv); and it     *)
(* bounds the epoch of the code by what the tracker has counted and what   *)
(* it will count (TrackerInv).                                             *)
(***************************************************************************)
EXTENDS Context, FiniteSetTheorems, WellFoundedInduction, TLAPS

\* The turns with the one that is being answered.
Log == IF pc = "turn" THEN Append(turns, active) ELSE turns

LogWrites == {k \in Places(Log) : Changes(At(Log, k))}

WriteOf(r, p) == r.tool = "write_file" /\ r.path = p

WorkspaceInv ==
    /\ files \in [Paths -> Nat] /\ code_epoch \in Nat
    /\ meddled \subseteq Paths /\ written \subseteq Paths /\ withheld \in BOOLEAN
    /\ cfg \in Settings /\ step \in 0..MaxSteps /\ retries \in 0..MaxRetries
    /\ calls \in 0..MaxCalls
    /\ pc \in {"ready", "request", "compact", "save", "close", "open", "turn"} \cup Ended

LogInv ==
    /\ turns \in Seq(Turn) /\ Log \in Seq(Turn)
    /\ IF pc = "turn" THEN active \in Turn ELSE active = None
    /\ \A i \in DOMAIN turns : turns[i].results # <<>>
    /\ \A i \in DOMAIN Log :
          /\ Log[i].step \in 1..step
          /\ \A j \in DOMAIN Log : i < j => Log[i].step < Log[j].step
    /\ IsFiniteSet(Places(Log))
    /\ pc \in {"open"} => turns = <<>>

\* The version that a write reports is that of the file, or of its text.
NamesFile(r) == r.version \in {files[r.path], TextOf(r.path, files[r.path])}

\* A result agrees with the files, but for what later results changed, and
\* for what changed behind the tracker's back.
Observation(k) ==
    LET r == At(Log, k)
    IN  /\ r.tool = "read_file" => r.version <= files[r.path]
        /\ r.tool = "bash" => r.epoch <= code_epoch
        /\ r.tool = "write_file" /\ r.path \notin meddled /\ ~NamesFile(r)
              => \E n \in Places(Log) : Earlier(k, n) /\ WriteOf(At(Log, n), r.path)
        /\ OldRead(r) /\ r.path \notin meddled
              => \E n \in Places(Log) :
                    Earlier(k, n) /\ Changes(At(Log, n)) /\ At(Log, n).path = r.path
        /\ OldVerification(r) /\ ~withheld
              => \E n \in Places(Log) : Earlier(k, n) /\ Changes(At(Log, n))
        /\ \A n \in Places(Log) : Earlier(k, n) /\ Changes(At(Log, n)) =>
              /\ r.tool = "read_file" /\ r.path = At(Log, n).path => OldRead(r)
              /\ Verified(r) => OldVerification(r)

ObservationInv ==
    /\ \A k \in Places(Log) : Observation(k)
    /\ segment = 1 => \A p \in written : \E k \in Places(Log) : WriteOf(At(Log, k), p)

Obsolete(turn) ==
    \E k \in DOMAIN turn.results : OldRead(turn.results[k]) \/ OldVerification(turn.results[k])

\* What StaleIsMarked asks to be marked.
Outdated(turn) ==
    \E k \in DOMAIN turn.results :
        \/ OldRead(turn.results[k]) /\ turn.results[k].path \notin meddled
        \/ OldVerification(turn.results[k]) /\ ~withheld

TrackerInv ==
    /\ tracker.epoch \in Nat
    /\ tracker.stale \cup tracker.superseded \subseteq 1..step
    /\ \A i \in DOMAIN Log :
          /\ Log[i].step \in tracker.stale => Obsolete(Log[i])
          /\ Log[i].status = "stale" => Log[i].step \in tracker.stale
    /\ ~withheld => code_epoch <= tracker.epoch + Cardinality(LogWrites)
    /\ ~withheld /\ pc \in {"request", "compact", "save", "close", "open"}
          => code_epoch <= tracker.epoch
    /\ pc \in {"request", "compact"} =>
          \A i \in DOMAIN turns : Outdated(turns[i]) => turns[i].status = "stale"

RequestInv ==
    IF pc = "request"
    THEN /\ request.level \in Level /\ DOMAIN request.shown \subseteq Steps(turns)
         /\ \A i \in DOMAIN turns :
               turns[i].status = "stale" /\ turns[i].step \in DOMAIN request.shown
                  => ShownAsStale(turns, request.shown, turns[i])
         /\ NeverOverHardStop
    ELSE request = None

SegmentRecord == [event : {"end", "start"}, segment : Nat, handoff : Nat]

SegmentInv ==
    /\ segment \in Nat \ {0}
    /\ IF segment = 1 THEN handoff = None ELSE handoff.target = segment
    /\ pc \in {"save", "close"} => draft.source = segment /\ draft.target = segment + 1
    /\ cfg.stored /\ segment > 1 => segment \in saved
    /\ cfg.stored /\ pc = "close" => segment + 1 \in saved
    /\ records \in Seq(SegmentRecord)
    /\ Len(records) = IF ~cfg.stored THEN 0
                      ELSE IF pc = "open" THEN 2 * segment - 3 ELSE 2 * segment - 2
    /\ pc = "open" => segment > 1
    /\ \A k \in DOMAIN records :
          /\ records[k].handoff \in saved
          /\ records[k].event = IF k % 2 = 1 THEN "end" ELSE "start"
          /\ records[k].segment = (k + 2) \div 2
          /\ records[k].handoff = (k + 1) \div 2 + 1

ContextInv ==
    /\ WorkspaceInv /\ LogInv /\ ObservationInv /\ TrackerInv
    /\ RequestInv /\ SegmentInv /\ HandoffIsTrue

-----------------------------------------------------------------------------
\* Places of results and their order.

LEMMA PlaceParts ==
    ASSUME NEW ts \in Seq(Turn), NEW k \in Places(ts)
    PROVE  /\ k[1] \in DOMAIN ts /\ k[1] \in Nat
           /\ k[2] \in DOMAIN ts[k[1]].results /\ k[2] \in Nat
           /\ k = <<k[1], k[2]>>
           /\ At(ts, k) \in Result
<1>1. PICK i \in DOMAIN ts : k \in {i} \X DOMAIN ts[i].results
  BY DEF Places
<1>2. ts[i] \in Turn
  OBVIOUS
<1>3. ts[i].results \in Seq(Result)
  BY <1>2 DEF Turn
<1>4. k[1] = i /\ k[2] \in DOMAIN ts[i].results /\ k = <<k[1], k[2]>>
  BY <1>1
<1>5. ts[i].results[k[2]] \in Result
  BY <1>3, <1>4
<1> QED BY <1>3, <1>4, <1>5 DEF At

LEMMA PlaceMade ==
    ASSUME NEW ts, NEW i \in DOMAIN ts, NEW j \in DOMAIN ts[i].results
    PROVE  <<i, j>> \in Places(ts) /\ At(ts, <<i, j>>) = ts[i].results[j]
BY DEF Places, At

LEMMA EarlierIsOrder ==
    ASSUME NEW ts \in Seq(Turn)
    PROVE  /\ \A k \in Places(ts) : ~Earlier(k, k)
           /\ \A j, k \in Places(ts) : ~Earlier(j, k) /\ ~Earlier(k, j) => j = k
           /\ \A i, j, k \in Places(ts) : Earlier(i, j) /\ ~Earlier(k, j) => Earlier(i, k)
           /\ \A j, k \in Places(ts) : Earlier(j, k) => ~Earlier(k, j)
<1>1. \A k \in Places(ts) : k[1] \in Nat /\ k[2] \in Nat /\ k = <<k[1], k[2]>>
  BY PlaceParts
<1> QED BY <1>1 DEF Earlier

LEMMA LeastNatural ==
    ASSUME NEW S \in SUBSET Nat, S # {}
    PROVE  \E m \in S : \A n \in S : m <= n
<1>1. \E m \in S : \A n \in S : ~(<<n, m>> \in OpToRel(<, Nat))
  BY NatLessThanWellFounded, WFMin
<1>2. PICK m \in S : \A n \in S : ~(<<n, m>> \in OpToRel(<, Nat))
  BY <1>1
<1>3. \A n \in S : ~(n < m)
  BY <1>2 DEF OpToRel
<1> QED BY <1>3

LEMMA GreatestNatural ==
    ASSUME NEW N \in Nat, NEW S \in SUBSET (0..N), S # {}
    PROVE  \E m \in S : \A n \in S : n <= m
<1> DEFINE T == {N - n : n \in S}
<1>1. T \in SUBSET Nat /\ T # {}
  <2>1. \A n \in S : N - n \in Nat
    OBVIOUS
  <2>2. PICK n \in S : TRUE
    OBVIOUS
  <2>3. N - n \in T
    BY <2>2
  <2> QED BY <2>1, <2>3
<1>2. PICK t \in T : \A n \in T : t <= n
  BY <1>1, LeastNatural
<1>3. PICK m \in S : t = N - m
  BY <1>2
<1>4. ASSUME NEW n \in S
      PROVE  n <= m
  <2>1. N - n \in T
    BY <1>4
  <2>2. N - m <= N - n
    BY <1>2, <1>3, <2>1
  <2> QED BY <1>3, <1>4, <2>2
<1> QED BY <1>4

\* Some of the places are the last and the first of them.
LEMMA LastPlace ==
    ASSUME NEW ts \in Seq(Turn), NEW S \in SUBSET Places(ts), S # {}
    PROVE  \E k \in S : \A j \in S : ~Earlier(k, j)
<1>1. \A k \in S : /\ k[1] \in DOMAIN ts /\ k[2] \in DOMAIN ts[k[1]].results
                   /\ k[1] \in Nat /\ k[2] \in Nat
  BY PlaceParts
<1> DEFINE I == {k[1] : k \in S}
<1>2. I \in SUBSET (0..Len(ts)) /\ I # {} /\ Len(ts) \in Nat
  BY <1>1
<1>3. PICK i \in I : \A n \in I : n <= i
  BY <1>2, GreatestNatural
<1> DEFINE T == {k \in S : k[1] = i}
           J == {k[2] : k \in T}
<1>4. i \in DOMAIN ts /\ i \in Nat /\ \A k \in S : k[1] <= i
  BY <1>1, <1>3
<1>5. ts[i].results \in Seq(Result)
  <2>1. ts[i] \in Turn
    BY <1>4
  <2> QED BY <2>1 DEF Turn
<1>6. J \in SUBSET (0..Len(ts[i].results)) /\ J # {} /\ Len(ts[i].results) \in Nat
  BY <1>1, <1>3, <1>5
<1>7. PICK j \in J : \A n \in J : n <= j
  BY <1>6, GreatestNatural
<1>8. PICK k \in T : k[2] = j
  BY <1>7
<1>9. ASSUME NEW n \in S
      PROVE  ~Earlier(k, n)
  <2>1. n[1] <= i /\ (n[1] = i => n[2] <= j)
    BY <1>4, <1>7, <1>9
  <2> QED BY <1>1, <1>8, <1>9, <2>1 DEF Earlier
<1> QED BY <1>8, <1>9

LEMMA FirstPlace ==
    ASSUME NEW ts \in Seq(Turn), NEW S \in SUBSET Places(ts), S # {}
    PROVE  \E k \in S : \A j \in S : ~Earlier(j, k)
<1>1. \A k \in S : k[1] \in Nat /\ k[2] \in Nat
  BY PlaceParts
<1> DEFINE I == {k[1] : k \in S}
<1>2. I \in SUBSET Nat /\ I # {}
  BY <1>1
<1>3. PICK i \in I : \A n \in I : i <= n
  BY <1>2, LeastNatural
<1> DEFINE T == {k \in S : k[1] = i}
           J == {k[2] : k \in T}
<1>4. J \in SUBSET Nat /\ J # {} /\ \A k \in S : i <= k[1]
  BY <1>1, <1>3
<1>5. PICK j \in J : \A n \in J : j <= n
  BY <1>4, LeastNatural
<1>6. PICK k \in T : k[2] = j
  BY <1>5
<1>7. ASSUME NEW n \in S
      PROVE  ~Earlier(n, k)
  <2>1. i <= n[1] /\ (n[1] = i => j <= n[2])
    BY <1>4, <1>5, <1>7
  <2> QED BY <1>1, <1>6, <1>7, <2>1 DEF Earlier
<1> QED BY <1>6, <1>7

LEMMA SamePlaces ==
    ASSUME NEW ts, NEW us, DOMAIN us = DOMAIN ts,
           \A i \in DOMAIN ts : us[i].results = ts[i].results
    PROVE  /\ Places(us) = Places(ts)
           /\ \A k \in Places(ts) : At(us, k) = At(ts, k)
<1>1. Places(us) = Places(ts)
  BY DEF Places
<1>2. \A k \in Places(ts) : k[1] \in DOMAIN ts
  BY DEF Places
<1> QED BY <1>1, <1>2 DEF At

\* A turn without results has no places.
LEMMA EmptyTurnPlaces ==
    ASSUME NEW ts \in Seq(Turn), NEW t \in Turn, t.results = <<>>
    PROVE  /\ Places(Append(ts, t)) = Places(ts)
           /\ \A k \in Places(ts) : At(Append(ts, t), k) = At(ts, k)
<1> DEFINE us == Append(ts, t)
<1>1. /\ DOMAIN us = DOMAIN ts \cup {Len(ts) + 1} /\ us[Len(ts) + 1] = t
      /\ \A i \in DOMAIN ts : us[i] = ts[i]
  OBVIOUS
<1> HIDE DEF us
<1>2. ASSUME NEW k \in Places(us)
      PROVE  k \in Places(ts)
  <2>1. PICK i \in DOMAIN us : k \in {i} \X DOMAIN us[i].results
    BY DEF Places
  <2>2. i \in DOMAIN ts /\ us[i] = ts[i]
    BY <1>1, <2>1
  <2> QED BY <2>1, <2>2 DEF Places
<1>3. ASSUME NEW k \in Places(ts)
      PROVE  k \in Places(us) /\ At(us, k) = At(ts, k)
  <2>1. PICK i \in DOMAIN ts : k \in {i} \X DOMAIN ts[i].results
    BY DEF Places
  <2>2. i \in DOMAIN us /\ us[i] = ts[i] /\ k[1] = i
    BY <1>1, <2>1
  <2> QED BY <2>1, <2>2 DEF Places, At
<1> QED BY <1>2, <1>3 DEF us

\* A result more is the last.
LEMMA ResultPlaces ==
    ASSUME NEW ts \in Seq(Turn), NEW t \in Turn, NEW u \in Turn, NEW r \in Result,
           u.results = Append(t.results, r)
    PROVE  \E n : /\ Places(Append(ts, u)) = Places(Append(ts, t)) \cup {n}
                  /\ n \notin Places(Append(ts, t))
                  /\ At(Append(ts, u), n) = r
                  /\ \A k \in Places(Append(ts, t)) :
                        /\ At(Append(ts, u), k) = At(Append(ts, t), k)
                        /\ Earlier(k, n) /\ ~Earlier(n, k)
                  /\ ~Earlier(n, n)
<1> DEFINE a == Append(ts, t)
           b == Append(ts, u)
           L == Len(ts) + 1
           M == Len(t.results) + 1
           n == <<L, M>>
<1>1. /\ DOMAIN a = DOMAIN ts \cup {L} /\ DOMAIN b = DOMAIN ts \cup {L}
      /\ a[L] = t /\ b[L] = u /\ L \in Nat
      /\ \A i \in DOMAIN ts : a[i] = ts[i] /\ b[i] = ts[i] /\ i < L /\ i \in Nat /\ i # L
  OBVIOUS
<1>2. t.results \in Seq(Result)
  BY DEF Turn
<1>3. /\ DOMAIN u.results = DOMAIN t.results \cup {M} /\ u.results[M] = r /\ M \in Nat
      /\ M \notin DOMAIN t.results
      /\ \A j \in DOMAIN t.results : u.results[j] = t.results[j] /\ j < M /\ j \in Nat
  BY <1>2
<1> HIDE DEF a, b, L, M
<1>4. n \in Places(b) /\ At(b, n) = r
  BY <1>1, <1>3 DEF Places, At
<1>5. ASSUME NEW k \in Places(a)
      PROVE  /\ k \in Places(b) /\ At(b, k) = At(a, k) /\ k # n
             /\ Earlier(k, n) /\ ~Earlier(n, k)
  <2>1. PICK i \in DOMAIN a : k \in {i} \X DOMAIN a[i].results
    BY DEF Places
  <2>2. k[1] = i /\ k[2] \in DOMAIN a[i].results /\ k = <<k[1], k[2]>>
    BY <2>1
  <2>3. CASE i = L
    <3>1. k[2] \in DOMAIN t.results /\ k[2] \in DOMAIN u.results /\ k[2] < M /\ k[2] \in Nat
          /\ k[2] # M
      BY <1>1, <1>3, <2>2, <2>3
    <3>2. k \in Places(b) /\ At(b, k) = At(a, k)
      BY <1>1, <1>3, <2>2, <2>3, <3>1 DEF Places, At
    <3> QED BY <1>1, <1>3, <2>2, <2>3, <3>1, <3>2 DEF Earlier
  <2>4. CASE i # L
    <3>1. i \in DOMAIN ts /\ b[i] = a[i] /\ i < L /\ i \in Nat
      BY <1>1, <2>1, <2>4
    <3>2. k \in Places(b) /\ At(b, k) = At(a, k)
      BY <1>1, <2>2, <3>1 DEF Places, At
    <3> QED BY <1>1, <2>2, <3>1, <3>2 DEF Earlier
  <2> QED BY <2>3, <2>4
<1>6. ASSUME NEW k \in Places(b), k # n
      PROVE  k \in Places(a)
  <2>1. PICK i \in DOMAIN b : k \in {i} \X DOMAIN b[i].results
    BY DEF Places
  <2>2. k[1] = i /\ k[2] \in DOMAIN b[i].results /\ k = <<k[1], k[2]>>
    BY <2>1
  <2>3. i \in DOMAIN a /\ k[2] \in DOMAIN a[i].results
    BY <1>1, <1>3, <1>6, <2>1, <2>2
  <2> QED BY <2>2, <2>3 DEF Places
<1>7. n \notin Places(a) /\ ~Earlier(n, n)
  BY <1>1, <1>3, <1>5 DEF Earlier
<1>8. Places(b) = Places(a) \cup {n}
  BY <1>4, <1>5, <1>6
<1> QED BY <1>4, <1>5, <1>7, <1>8 DEF a, b

-----------------------------------------------------------------------------
\* Tool calls: what every one of them does to the files and to the turn.

Effect(r) ==
    /\ r \in Result
    /\ files' \in [Paths -> Nat] /\ code_epoch' \in Nat
    /\ meddled \subseteq meddled' /\ meddled' \subseteq Paths
    /\ withheld' \in BOOLEAN /\ (withheld => withheld')
    /\ \A p \in Paths :
          /\ files[p] <= files'[p]
          /\ files'[p] # files[p] => p \in meddled' \/ (Changes(r) /\ r.path = p)
    /\ \/ code_epoch' = code_epoch
       \/ code_epoch' = code_epoch + 1 /\ (Changes(r) \/ withheld')
    /\ Changes(r) => files[r.path] < files'[r.path] /\ code_epoch' = code_epoch + 1
    /\ r.tool = "read_file" => r.version = files'[r.path]
    /\ r.tool = "write_file" => r.version \in {files'[r.path], TextOf(r.path, files'[r.path])}
    /\ r.tool = "bash" => r.epoch <= code_epoch'
    /\ Verified(r) => r.epoch = code_epoch'
    /\ written' \subseteq Paths /\ \A p \in written' : p \in written \/ WriteOf(r, p)

Call(r) ==
    /\ Effect(r)
    /\ pc = "turn" /\ pc' = "turn" /\ calls' \in 0..MaxCalls
    /\ active' \in Turn /\ active'.results = Append(active.results, r)
    /\ active'.step = active.step /\ active'.status = active.status
    /\ UNCHANGED <<turns, handoff, segment, tracker, cfg, step, retries, request, draft,
                   saved, records>>

LEMMA AddResultCalls ==
    ASSUME WorkspaceInv, LogInv, NEW r \in Result, AddResult(r), Effect(r)
    PROVE  Call(r)
<1>1. pc = "turn" /\ active \in Turn /\ calls \in Nat /\ calls < MaxCalls
  BY ContextAssumption DEF WorkspaceInv, LogInv, AddResult
<1>2. active.results \in Seq(Result)
  BY <1>1 DEF Turn
<1> DEFINE rs == Append(active.results, r)
<1>3. rs \in Seq(Result)
  BY <1>2
<1>4. active' = [active EXCEPT !.results = rs]
  BY DEF AddResult
<1> HIDE DEF rs
<1>5. /\ active' \in Turn /\ active'.results = rs
      /\ active'.step = active.step /\ active'.status = active.status
  BY <1>1, <1>3, <1>4 DEF Turn
<1>6. calls' \in 0..MaxCalls
  BY <1>1, ContextAssumption DEF AddResult
<1> QED BY <1>1, <1>5, <1>6 DEF Call, AddResult, disk, rs

LEMMA ReadFileCalls ==
    ASSUME WorkspaceInv, LogInv, NEW p \in Paths, ReadFile(p)
    PROVE  \E r : Call(r)
<1>1. Effect(Read(p, files[p])) /\ Read(p, files[p]) \in Result
  BY DEF WorkspaceInv, ReadFile, workspace, Effect, Read, Result, Changes, Verified
<1> QED BY <1>1, AddResultCalls DEF ReadFile

LEMMA WriteSameCalls ==
    ASSUME WorkspaceInv, LogInv, NEW p \in Paths, WriteSame(p)
    PROVE  \E r : Call(r)
<1> DEFINE v == TextOf(p, files[p])
           r == Wrote(p, v, FALSE)
<1>1. AddResult(r) /\ UNCHANGED workspace /\ files[p] \in Nat
  BY DEF WorkspaceInv, WriteSame
<1>2. v \in Int
  BY <1>1 DEF TextOf
<1>3. /\ r \in Result /\ r.tool = "write_file" /\ r.path = p /\ r.version = v
      /\ ~Changes(r) /\ ~Verified(r)
  <2> HIDE DEF v
  <2> QED BY <1>2 DEF Wrote, Result, Changes, Verified
<1>4. r.version = TextOf(r.path, files'[r.path])
  BY <1>1, <1>3 DEF workspace
<1> HIDE DEF r
<1>5. Effect(r)
  BY <1>1, <1>3, <1>4 DEF WorkspaceInv, workspace, Effect
<1> QED BY <1>1, <1>3, <1>5, AddResultCalls

LEMMA WriteFailsCalls ==
    ASSUME WorkspaceInv, LogInv, NEW p \in Paths, WriteFails(p)
    PROVE  \E r : Call(r)
<1>1. /\ files' = [files EXCEPT ![p] = files[p] + 1] /\ code_epoch' = code_epoch
      /\ files \in [Paths -> Nat] /\ code_epoch \in Nat
      /\ meddled \subseteq Paths /\ written \subseteq Paths /\ withheld \in BOOLEAN
      /\ AddResult(Other) /\ written' = written /\ meddled' = meddled \cup {p}
      /\ withheld' = withheld
  BY DEF WorkspaceInv, WriteFails
<1>2. /\ files' \in [Paths -> Nat]
      /\ \A q \in Paths : files[q] <= files'[q] /\ (files'[q] # files[q] => q = p)
  BY <1>1
<1>3. /\ Other \in Result /\ ~Changes(Other) /\ ~Verified(Other) /\ Other.tool = "other"
  BY DEF Other, Result, Changes, Verified
<1>4. Effect(Other)
  BY <1>1, <1>2, <1>3 DEF Effect
<1> QED BY <1>1, <1>3, <1>4, AddResultCalls

LEMMA WriteFileCalls ==
    ASSUME WorkspaceInv, LogInv, NEW p \in Paths, NEW visible \in BOOLEAN,
           WriteFile(p, visible)
    PROVE  \E r : Call(r)
<1>1. /\ files' = [files EXCEPT ![p] = files[p] + 1] /\ code_epoch' = code_epoch + 1
      /\ files \in [Paths -> Nat] /\ code_epoch \in Nat
      /\ meddled \subseteq Paths /\ written \subseteq Paths /\ withheld \in BOOLEAN
  BY DEF WorkspaceInv, WriteFile
<1>2. /\ files' \in [Paths -> Nat] /\ code_epoch' \in Nat
      /\ files'[p] = files[p] + 1 /\ files[p] \in Nat
      /\ \A q \in Paths : files[q] <= files'[q] /\ (files'[q] # files[q] => q = p)
  BY <1>1
<1>3. CASE visible
  <2> DEFINE r == Wrote(p, files[p] + 1, TRUE)
  <2>1. /\ r \in Result /\ Changes(r) /\ ~Verified(r) /\ r.path = p /\ WriteOf(r, p)
        /\ r.version = files'[p] /\ r.tool = "write_file"
    BY <1>2 DEF Wrote, Result, Changes, Verified, WriteOf
  <2>2. AddResult(r) /\ written' = written \cup {p} /\ meddled' = meddled /\ withheld' = withheld
    BY <1>3 DEF WriteFile
  <2> HIDE DEF r
  <2>3. Effect(r)
    BY <1>1, <1>2, <2>1, <2>2 DEF Effect
  <2> QED BY <2>1, <2>2, <2>3, AddResultCalls
<1>4. CASE ~visible
  <2>1. /\ Other \in Result /\ ~Changes(Other) /\ ~Verified(Other) /\ Other.tool = "other"
    BY DEF Other, Result, Changes, Verified
  <2>2. AddResult(Other) /\ written' = written /\ meddled' = meddled \cup {p} /\ withheld' = TRUE
    BY <1>4 DEF WriteFile
  <2>3. Effect(Other)
    BY <1>1, <1>2, <2>1, <2>2 DEF Effect
  <2> QED BY <2>1, <2>2, <2>3, AddResultCalls
<1> QED BY <1>3, <1>4

LEMMA BashCalls ==
    ASSUME WorkspaceInv, LogInv, NEW c \in Commands, NEW ok \in BOOLEAN,
           NEW changed \in SUBSET Paths, Bash(c, ok, changed)
    PROVE  \E r : Call(r)
<1> DEFINE r == Ran(c, code_epoch, ok)
<1>1. /\ files' = [p \in Paths |-> IF p \in changed THEN files[p] + 1 ELSE files[p]]
      /\ AddResult(r) /\ meddled' = meddled \cup changed
      /\ code_epoch' = code_epoch /\ written' = written /\ withheld' = withheld
      /\ files \in [Paths -> Nat] /\ code_epoch \in Nat
      /\ meddled \subseteq Paths /\ written \subseteq Paths /\ withheld \in BOOLEAN
  BY DEF WorkspaceInv, Bash
<1>2. /\ files' \in [Paths -> Nat]
      /\ \A q \in Paths : files[q] <= files'[q] /\ (files'[q] # files[q] => q \in changed)
  BY <1>1
<1>3. r \in Result /\ r.tool = "bash" /\ r.epoch = code_epoch /\ ~Changes(r)
  BY <1>1 DEF Ran, Result, Changes
<1> HIDE DEF r
<1>4. Effect(r)
  BY <1>1, <1>2, <1>3 DEF Effect
<1> QED BY <1>1, <1>3, <1>4, AddResultCalls

LEMMA BashRefusedCalls ==
    ASSUME WorkspaceInv, LogInv, NEW c \in Commands, BashRefused(c)
    PROVE  \E r : Call(r)
<1>1. Refused(c) \in Result /\ ~Changes(Refused(c)) /\ ~Verified(Refused(c))
      /\ Refused(c).tool = "bash" /\ Refused(c).epoch = 0
  BY DEF Refused, Result, Changes, Verified
<1>2. Effect(Refused(c))
  BY <1>1 DEF WorkspaceInv, BashRefused, workspace, Effect
<1> QED BY <1>1, <1>2, AddResultCalls DEF BashRefused

LEMMA OtherCalls ==
    ASSUME WorkspaceInv, LogInv, ToolFails \/ Control
    PROVE  \E r : Call(r)
<1>1. /\ Other \in Result /\ ~Changes(Other) /\ ~Verified(Other) /\ Other.tool = "other"
  BY DEF Other, Result, Changes, Verified
<1>2. Effect(Other)
  BY <1>1 DEF WorkspaceInv, ToolFails, Control, workspace, Effect
<1>3. CASE ToolFails
  BY <1>1, <1>2, <1>3, AddResultCalls DEF ToolFails
<1>4. CASE Control
  <2>1. pc = "turn" /\ active \in Turn /\ calls \in Nat /\ calls < MaxCalls
    BY <1>4, ContextAssumption DEF WorkspaceInv, LogInv, Control
  <2>2. active.results \in Seq(Result)
    BY <2>1 DEF Turn
  <2> DEFINE rs == Append(active.results, Other)
  <2>3. rs \in Seq(Result)
    BY <1>1, <2>2
  <2>4. active' = [active EXCEPT !.results = rs, !.control = TRUE]
    BY <1>4 DEF Control
  <2> HIDE DEF rs
  <2>5. /\ active' \in Turn /\ active'.results = rs
        /\ active'.step = active.step /\ active'.status = active.status
    BY <2>1, <2>3, <2>4 DEF Turn
  <2>6. calls' \in 0..MaxCalls
    BY <1>4, <2>1, ContextAssumption DEF Control
  <2> QED BY <1>2, <1>4, <2>1, <2>5, <2>6 DEF Call, Control, disk, rs
<1> QED BY <1>3, <1>4

LEMMA ResultTyped ==
    ASSUME NEW r \in Result
    PROVE  /\ r.tool \in {"read_file", "write_file"} => r.path \in Paths /\ r.version \in Int
           /\ r.tool = "bash" => r.epoch \in Nat
           /\ r.tool \in {"read_file", "write_file", "bash", "other"}
BY DEF Result, Other

\* The log after a call: its result comes last.
LEMMA CallLog ==
    ASSUME LogInv, NEW r, Call(r)
    PROVE  \E n : /\ Places(Log') = Places(Log) \cup {n} /\ n \notin Places(Log)
                  /\ At(Log', n) = r
                  /\ \A k \in Places(Log) : /\ At(Log', k) = At(Log, k)
                                            /\ Earlier(k, n) /\ ~Earlier(n, k)
                  /\ ~Earlier(n, n)
<1>1. Log = Append(turns, active) /\ Log' = Append(turns, active')
  BY DEF Call, Log
<1>2. /\ turns \in Seq(Turn) /\ active \in Turn /\ active' \in Turn
      /\ r \in Result /\ active'.results = Append(active.results, r)
  BY DEF Call, Effect, LogInv
<1> QED BY <1>1, <1>2, ResultPlaces

LEMMA CallObservation ==
    ASSUME WorkspaceInv, LogInv, ObservationInv, NEW r, Call(r)
    PROVE  ObservationInv'
<1>1. PICK n : /\ Places(Log') = Places(Log) \cup {n} /\ n \notin Places(Log)
               /\ At(Log', n) = r
               /\ \A k \in Places(Log) : /\ At(Log', k) = At(Log, k)
                                         /\ Earlier(k, n) /\ ~Earlier(n, k)
               /\ ~Earlier(n, n)
  BY CallLog
<1>2. Effect(r) /\ files \in [Paths -> Nat] /\ code_epoch \in Nat
  BY DEF Call, WorkspaceInv
<1>3. ASSUME NEW k \in Places(Log)
      PROVE  Observation(k)'
  <2> DEFINE x == At(Log, k)
  <2>1. At(Log', k) = x /\ x \in Result /\ Earlier(k, n)
    BY <1>1, PlaceParts DEF LogInv
  <2>2. Observation(k)
    BY DEF ObservationInv
  <2>3. x.tool \in {"read_file", "write_file"} => x.path \in Paths /\ x.version \in Int
    BY <2>1, ResultTyped
  <2>4. x.tool = "bash" => x.epoch \in Nat
    BY <2>1, ResultTyped
  <2>5. x.tool = "read_file" =>
          /\ x.version <= files[x.path] /\ files[x.path] \in Nat /\ files'[x.path] \in Nat
          /\ files[x.path] <= files'[x.path]
    BY <1>2, <2>2, <2>3 DEF Observation, Effect
  <2>6. x.tool = "bash" => x.epoch <= code_epoch
    BY <2>2 DEF Observation
  <2>7. code_epoch <= code_epoch' /\ code_epoch' \in Nat
    BY <1>2 DEF Effect
  <2> DEFINE named == x.version \in {files'[x.path], TextOf(x.path, files'[x.path])}
  <2>8. x.tool = "write_file" /\ x.path \notin meddled' /\ ~named
          => \E m \in Places(Log') : Earlier(k, m) /\ WriteOf(At(Log', m), x.path)
    <3> SUFFICES ASSUME x.tool = "write_file", x.path \notin meddled',
                        ~named
                 PROVE  \E m \in Places(Log') : Earlier(k, m) /\ WriteOf(At(Log', m), x.path)
      OBVIOUS
    <3>1. CASE files'[x.path] = files[x.path]
      <4>1. PICK m \in Places(Log) : Earlier(k, m) /\ WriteOf(At(Log, m), x.path)
        BY <1>2, <2>2, <3>1 DEF Observation, Effect, NamesFile
      <4> QED BY <1>1, <4>1
    <3>2. CASE files'[x.path] # files[x.path]
      <4>1. Changes(r) /\ r.path = x.path
        BY <1>2, <2>3, <3>2 DEF Effect
      <4> QED BY <1>1, <2>1, <4>1 DEF Changes, WriteOf
    <3> QED BY <3>1, <3>2
  <2>9. x.tool = "read_file" /\ x.version < files'[x.path] /\ x.path \notin meddled'
          => \E m \in Places(Log') :
                Earlier(k, m) /\ Changes(At(Log', m)) /\ At(Log', m).path = x.path
    <3> SUFFICES ASSUME x.tool = "read_file", x.version < files'[x.path],
                        x.path \notin meddled'
                 PROVE  \E m \in Places(Log') :
                           Earlier(k, m) /\ Changes(At(Log', m)) /\ At(Log', m).path = x.path
      OBVIOUS
    <3>1. CASE files'[x.path] = files[x.path]
      <4>1. PICK m \in Places(Log) :
              Earlier(k, m) /\ Changes(At(Log, m)) /\ At(Log, m).path = x.path
        BY <1>2, <2>2, <3>1 DEF Observation, Effect, OldRead
      <4> QED BY <1>1, <4>1
    <3>2. CASE files'[x.path] # files[x.path]
      <4>1. Changes(r) /\ r.path = x.path
        BY <1>2, <2>3, <3>2 DEF Effect
      <4> QED BY <1>1, <2>1, <4>1
    <3> QED BY <3>1, <3>2
  <2>10. Verified(x) /\ x.epoch < code_epoch' /\ ~withheld'
          => \E m \in Places(Log') : Earlier(k, m) /\ Changes(At(Log', m))
    <3> SUFFICES ASSUME Verified(x), x.epoch < code_epoch', ~withheld'
                 PROVE  \E m \in Places(Log') : Earlier(k, m) /\ Changes(At(Log', m))
      OBVIOUS
    <3>1. CASE code_epoch' = code_epoch
      <4>1. PICK m \in Places(Log) : Earlier(k, m) /\ Changes(At(Log, m))
        BY <1>2, <2>2, <3>1 DEF Observation, Effect, OldVerification
      <4> QED BY <1>1, <4>1
    <3>2. CASE code_epoch' # code_epoch
      <4>1. Changes(r)
        BY <1>2, <3>2 DEF Effect
      <4> QED BY <1>1, <2>1, <4>1
    <3> QED BY <3>1, <3>2
  <2>11. ASSUME NEW m \in Places(Log'), Earlier(k, m), Changes(At(Log', m))
         PROVE  /\ x.tool = "read_file" /\ x.path = At(Log', m).path => x.version < files'[x.path]
                /\ Verified(x) => x.epoch < code_epoch'
    <3>1. CASE m = n
      <4>1. Changes(r) /\ At(Log', m) = r
        BY <1>1, <2>11, <3>1
      <4>2. files[r.path] < files'[r.path] /\ code_epoch' = code_epoch + 1
        BY <1>2, <4>1 DEF Effect
      <4> QED BY <1>2, <2>3, <2>4, <2>5, <2>6, <4>1, <4>2 DEF Verified
    <3>2. CASE m \in Places(Log)
      <4>1. Changes(At(Log, m)) /\ At(Log', m) = At(Log, m)
        BY <1>1, <2>11, <3>2
      <4>2. /\ x.tool = "read_file" /\ x.path = At(Log, m).path => x.version < files[x.path]
            /\ Verified(x) => x.epoch < code_epoch
        BY <2>2, <2>11, <3>2, <4>1 DEF Observation, OldRead, OldVerification
      <4> QED BY <1>2, <2>3, <2>4, <2>5, <2>7, <4>1, <4>2 DEF Verified
    <3> QED BY <1>1, <3>1, <3>2
  <2>12. x.tool = "read_file" => x.version <= files'[x.path]
    BY <2>3, <2>5
  <2>13. x.tool = "bash" => x.epoch <= code_epoch'
    BY <1>2, <2>4, <2>6, <2>7
  <2> HIDE DEF x
  <2>14. At(Log', k) = x
    BY <2>1
  <2> QED BY <2>8, <2>9, <2>10, <2>11, <2>12, <2>13, <2>14
          DEF Observation, OldRead, OldVerification, Verified, NamesFile
<1>4. Observation(n)'
  <2>1. \A m \in Places(Log') : ~Earlier(n, m)
    BY <1>1
  <2>2. r \in Result /\ (r.tool = "read_file" => r.version = files'[r.path])
        /\ (r.tool = "write_file"
              => r.version \in {files'[r.path], TextOf(r.path, files'[r.path])})
        /\ (r.tool = "bash" => r.epoch <= code_epoch') /\ (Verified(r) => r.epoch = code_epoch')
        /\ files' \in [Paths -> Nat] /\ code_epoch' \in Nat
    BY <1>2 DEF Effect
  <2>3. r.tool = "read_file" =>
          r.version <= files'[r.path] /\ ~(r.version < files'[r.path])
    BY <2>2, ResultTyped
  <2>4. Verified(r) => ~(r.epoch < code_epoch')
    BY <2>2
  <2>5. At(Log', n) = r
    BY <1>1
  <2> QED BY <2>1, <2>2, <2>3, <2>4, <2>5
          DEF Observation, OldRead, OldVerification, Verified, NamesFile
<1>5. ASSUME segment' = 1, NEW p \in written'
      PROVE  \E k \in Places(Log') : WriteOf(At(Log', k), p)
  <2>1. segment = 1
    BY <1>5 DEF Call
  <2>2. CASE p \in written
    <3>1. PICK k \in Places(Log) : WriteOf(At(Log, k), p)
      BY <2>1, <2>2 DEF ObservationInv
    <3> QED BY <1>1, <3>1
  <2>3. CASE WriteOf(r, p)
    BY <1>1, <2>3
  <2> QED BY <1>2, <1>5, <2>2, <2>3 DEF Effect
<1> QED BY <1>1, <1>3, <1>4, <1>5 DEF ObservationInv

\* What only grows keeps the handoffs true.
LEMMA HandoffsStayTrue ==
    ASSUME HandoffIsTrue, Deterministic' \subseteq Deterministic,
           meddled \subseteq meddled', withheld => withheld'
    PROVE  HandoffIsTrue'
BY DEF HandoffIsTrue

\* What a call leaves of the log: the steps, the statuses and the results.
LEMMA CallTurns ==
    ASSUME LogInv, NEW r, Call(r)
    PROVE  /\ DOMAIN Log' = DOMAIN Log /\ Log' \in Seq(Turn)
           /\ \A i \in DOMAIN Log :
                 /\ Log'[i].step = Log[i].step /\ Log'[i].status = Log[i].status
                 /\ \A j \in DOMAIN Log[i].results :
                       /\ j \in DOMAIN Log'[i].results
                       /\ Log'[i].results[j] = Log[i].results[j]
                       /\ Log[i].results[j] \in Result
<1>1. Log = Append(turns, active) /\ Log' = Append(turns, active')
  BY DEF Call, Log
<1>2. /\ turns \in Seq(Turn) /\ active \in Turn /\ active' \in Turn
      /\ r \in Result /\ active'.results = Append(active.results, r)
      /\ active'.step = active.step /\ active'.status = active.status
  BY DEF Call, Effect, LogInv
<1>3. active.results \in Seq(Result)
  BY <1>2 DEF Turn
<1>4. \A j \in DOMAIN active.results :
        /\ j \in DOMAIN active'.results /\ active'.results[j] = active.results[j]
        /\ active.results[j] \in Result
  BY <1>2, <1>3
<1>5. \A i \in DOMAIN turns : turns[i] \in Turn /\ turns[i].results \in Seq(Result)
  <2>1. \A t \in Turn : t.results \in Seq(Result)
    BY DEF Turn
  <2> QED BY <1>2, <2>1
<1>6. /\ DOMAIN Log = DOMAIN turns \cup {Len(turns) + 1} /\ DOMAIN Log' = DOMAIN Log
      /\ \A i \in DOMAIN turns : Log[i] = turns[i] /\ Log'[i] = turns[i]
      /\ Log[Len(turns) + 1] = active /\ Log'[Len(turns) + 1] = active'
      /\ Log' \in Seq(Turn)
  BY <1>1, <1>2
<1>7. ASSUME NEW i \in DOMAIN Log
      PROVE  /\ Log'[i].step = Log[i].step /\ Log'[i].status = Log[i].status
             /\ \A j \in DOMAIN Log[i].results :
                   /\ j \in DOMAIN Log'[i].results
                   /\ Log'[i].results[j] = Log[i].results[j]
                   /\ Log[i].results[j] \in Result
  <2>1. CASE i \in DOMAIN turns
    BY <1>5, <1>6, <2>1
  <2>2. CASE i = Len(turns) + 1
    BY <1>2, <1>4, <1>6, <2>2
  <2> QED BY <1>6, <2>1, <2>2
<1> QED BY <1>6, <1>7

LEMMA CallTracker ==
    ASSUME WorkspaceInv, LogInv, TrackerInv, NEW r, Call(r)
    PROVE  TrackerInv'
<1>1. /\ DOMAIN Log' = DOMAIN Log
      /\ \A i \in DOMAIN Log :
            /\ Log'[i].step = Log[i].step /\ Log'[i].status = Log[i].status
            /\ \A j \in DOMAIN Log[i].results :
                  /\ j \in DOMAIN Log'[i].results
                  /\ Log'[i].results[j] = Log[i].results[j]
                  /\ Log[i].results[j] \in Result
  BY CallTurns
<1>2. PICK n : /\ Places(Log') = Places(Log) \cup {n} /\ n \notin Places(Log)
               /\ At(Log', n) = r
               /\ \A k \in Places(Log) : At(Log', k) = At(Log, k)
  BY CallLog
<1>3. /\ Effect(r) /\ files \in [Paths -> Nat] /\ code_epoch \in Nat
      /\ tracker' = tracker /\ step' = step /\ pc' = "turn"
  BY DEF Call, WorkspaceInv
<1>4. ASSUME NEW i \in DOMAIN Log, Obsolete(Log[i])
      PROVE  Obsolete(Log[i])'
  <2>1. PICK j \in DOMAIN Log[i].results :
          OldRead(Log[i].results[j]) \/ OldVerification(Log[i].results[j])
    BY <1>4 DEF Obsolete
  <2> DEFINE x == Log[i].results[j]
  <2>2. x \in Result /\ (OldRead(x) \/ OldVerification(x))
    BY <1>1, <2>1
  <2>3. j \in DOMAIN Log'[i].results /\ Log'[i].results[j] = x
    BY <1>1
  <2> HIDE DEF x
  <2>4. /\ x.tool \in {"read_file", "write_file"} => x.path \in Paths /\ x.version \in Int
        /\ x.tool = "bash" => x.epoch \in Nat
    BY <2>2, ResultTyped
  <2>5. \/ x.tool = "read_file" /\ x.version < files'[x.path]
        \/ Verified(x) /\ x.epoch < code_epoch'
    <3>1. CASE OldRead(x)
      BY <1>3, <2>4, <3>1 DEF OldRead, Effect
    <3>2. CASE OldVerification(x)
      BY <1>3, <2>4, <3>2 DEF OldVerification, Verified, Effect
    <3> QED BY <2>2, <3>1, <3>2
  <2>6. OldRead(Log[i].results[j])' \/ OldVerification(Log[i].results[j])'
    BY <2>3, <2>5 DEF OldRead, OldVerification, Verified
  <2> QED BY <2>3, <2>6 DEF Obsolete
<1>5. ~withheld' => code_epoch' <= tracker'.epoch + Cardinality(LogWrites')
  <2> SUFFICES ASSUME ~withheld'
               PROVE  code_epoch' <= tracker.epoch + Cardinality(LogWrites')
    BY <1>3
  <2>1. IsFiniteSet(LogWrites) /\ n \notin LogWrites
    BY <1>2, FS_Subset DEF LogWrites, LogInv
  <2>2. Cardinality(LogWrites) \in Nat /\ tracker.epoch \in Nat
    BY <2>1, FS_CardinalityType DEF TrackerInv
  <2>3. code_epoch <= tracker.epoch + Cardinality(LogWrites)
    BY <1>3 DEF TrackerInv, Effect
  <2>4. CASE Changes(r)
    <3>1. LogWrites' = LogWrites \cup {n}
      BY <1>2, <2>4 DEF LogWrites
    <3>2. Cardinality(LogWrites') = Cardinality(LogWrites) + 1
      BY <2>1, <3>1, FS_AddElement
    <3> QED BY <1>3, <2>2, <2>3, <2>4, <3>2 DEF Effect
  <2>5. CASE ~Changes(r)
    <3>1. LogWrites' = LogWrites
      BY <1>2, <2>5 DEF LogWrites
    <3>2. code_epoch' = code_epoch
      BY <1>3, <2>5 DEF Effect
    <3> QED BY <2>3, <3>1, <3>2
  <2> QED BY <2>4, <2>5
<1> QED BY <1>1, <1>3, <1>4, <1>5 DEF TrackerInv

LEMMA CallStep ==
    ASSUME ContextInv, NEW r, Call(r)
    PROVE  ContextInv'
<1>1. Effect(r) /\ pc = "turn" /\ pc' = "turn"
  BY DEF Call
<1>2. WorkspaceInv'
  BY <1>1 DEF ContextInv, WorkspaceInv, Call, Effect
<1>3. LogInv'
  <2>1. /\ DOMAIN Log' = DOMAIN Log /\ Log' \in Seq(Turn)
        /\ \A i \in DOMAIN Log : Log'[i].step = Log[i].step
    BY CallTurns DEF ContextInv
  <2>2. IsFiniteSet(Places(Log'))
    <3>1. PICK n : Places(Log') = Places(Log) \cup {n}
      BY CallLog DEF ContextInv
    <3> QED BY <3>1, FS_AddElement DEF ContextInv, LogInv
  <2> QED BY <1>1, <2>1, <2>2 DEF ContextInv, LogInv, Call
<1>4. ObservationInv'
  BY CallObservation DEF ContextInv
<1>5. TrackerInv'
  BY CallTracker DEF ContextInv
<1>6. RequestInv'
  BY <1>1 DEF ContextInv, RequestInv, Call
<1>7. SegmentInv'
  BY <1>1 DEF ContextInv, SegmentInv, Call
<1>8. HandoffIsTrue'
  BY <1>1, HandoffsStayTrue DEF ContextInv, Call, Effect, Deterministic
<1> QED BY <1>2, <1>3, <1>4, <1>5, <1>6, <1>7, <1>8 DEF ContextInv

-----------------------------------------------------------------------------
\* Steps that change neither the results nor the files.

LEMMA SameObservations ==
    ASSUME ObservationInv, UNCHANGED workspace, Places(Log') = Places(Log),
           \A k \in Places(Log) : At(Log', k) = At(Log, k), segment' = 1 => segment = 1
    PROVE  ObservationInv'
<1>1. /\ files' = files /\ code_epoch' = code_epoch /\ meddled' = meddled
      /\ written' = written /\ withheld' = withheld
  BY DEF workspace
<1>2. ASSUME NEW k \in Places(Log)
      PROVE  Observation(k)'
  <2>1. Observation(k) /\ At(Log', k) = At(Log, k)
    BY DEF ObservationInv
  <2> QED BY <1>1, <2>1 DEF Observation, OldRead, OldVerification, Verified, NamesFile
<1>3. segment' = 1 => \A p \in written' : \E k \in Places(Log') : WriteOf(At(Log', k), p)
  BY <1>1 DEF ObservationInv
<1> QED BY <1>2, <1>3 DEF ObservationInv

\* The tracker remembers what it knows of turns that stay.
LEMMA SameTracker ==
    ASSUME TrackerInv, UNCHANGED <<workspace, tracker, step>>, Log' = Log,
           ~withheld /\ pc' \in {"request", "compact", "save", "close", "open"}
              => code_epoch <= tracker.epoch,
           pc' \in {"request", "compact"} =>
              \A i \in DOMAIN turns' : Outdated(turns'[i]) => turns'[i].status = "stale"
    PROVE  TrackerInv'
<1>1. /\ files' = files /\ code_epoch' = code_epoch /\ meddled' = meddled
      /\ withheld' = withheld
  BY DEF workspace
<1>2. LogWrites' = LogWrites
  BY DEF LogWrites
<1>3. \A i \in DOMAIN Log : Obsolete(Log[i])' <=> Obsolete(Log[i])
  BY <1>1 DEF Obsolete, OldRead, OldVerification, Verified
<1>4. pc' \in {"request", "compact"} =>
        \A i \in DOMAIN turns' : Outdated(turns[i])' => turns'[i].status = "stale"
  BY <1>1 DEF Outdated, OldRead, OldVerification, Verified
<1> QED BY <1>1, <1>2, <1>3, <1>4 DEF TrackerInv

LEMMA SaveHandoffStep ==
    ASSUME ContextInv, SaveHandoff
    PROVE  ContextInv'
<1>1. /\ pc = "save" /\ pc' = "close" /\ Log' = Log /\ UNCHANGED workspace
      /\ UNCHANGED <<turns, active, handoff, segment, tracker, cfg, step, calls, retries,
                     request, draft, records>>
      /\ saved' = IF cfg.stored THEN saved \cup {draft.target} ELSE saved
  BY DEF SaveHandoff, Log, buffer, session
<1>2. WorkspaceInv' /\ LogInv'
  BY <1>1 DEF ContextInv, WorkspaceInv, LogInv, workspace
<1>3. ObservationInv'
  BY <1>1, SameObservations DEF ContextInv
<1>4. TrackerInv'
  BY <1>1, SameTracker DEF ContextInv, TrackerInv
<1>5. RequestInv'
  BY <1>1 DEF ContextInv, RequestInv
<1>6. SegmentInv'
  BY <1>1 DEF ContextInv, SegmentInv
<1>7. HandoffIsTrue'
  BY <1>1, HandoffsStayTrue DEF ContextInv, Deterministic, workspace
<1> QED BY <1>2, <1>3, <1>4, <1>5, <1>6, <1>7 DEF ContextInv

LEMMA RetryStep ==
    ASSUME ContextInv, Retry
    PROVE  ContextInv'
<1>1. /\ pc = "request" /\ pc' \in {"ready", "protocol_error"} /\ Log' = Log
      /\ UNCHANGED workspace /\ request' = None
      /\ UNCHANGED <<turns, active, handoff, segment, tracker, cfg, step, calls, draft,
                     saved, records>>
  BY DEF Retry, Log, buffer, disk
<1>2. retries' \in 0..MaxRetries
  BY ContextAssumption DEF Retry, ContextInv, WorkspaceInv
<1>3. WorkspaceInv' /\ LogInv'
  BY <1>1, <1>2 DEF ContextInv, WorkspaceInv, LogInv, workspace, Ended
<1>4. ObservationInv'
  BY <1>1, SameObservations DEF ContextInv
<1>5. TrackerInv'
  BY <1>1, SameTracker DEF ContextInv, TrackerInv
<1>6. RequestInv'
  BY <1>1 DEF RequestInv
<1>7. SegmentInv'
  BY <1>1 DEF ContextInv, SegmentInv
<1>8. HandoffIsTrue'
  BY <1>1, HandoffsStayTrue DEF ContextInv, Deterministic, workspace
<1> QED BY <1>3, <1>4, <1>5, <1>6, <1>7, <1>8 DEF ContextInv

LEMMA FinalizeTurnStep ==
    ASSUME ContextInv, FinalizeTurn
    PROVE  ContextInv'
<1>1. /\ pc = "turn" /\ pc' = "ready" /\ active.results # <<>>
      /\ turns' = Append(turns, active) /\ active' = None
      /\ Log' = Log /\ Log' = turns' /\ UNCHANGED workspace
      /\ UNCHANGED <<handoff, segment, tracker, cfg, step, calls, retries, request, draft,
                     saved, records>>
  BY DEF FinalizeTurn, Log, session, disk
<1>2. WorkspaceInv'
  BY <1>1 DEF ContextInv, WorkspaceInv, workspace
<1>3. LogInv'
  <2>1. \A i \in DOMAIN turns' : turns'[i].results # <<>>
    BY <1>1 DEF ContextInv, LogInv
  <2> QED BY <1>1, <2>1 DEF ContextInv, LogInv
<1>4. ObservationInv'
  BY <1>1, SameObservations DEF ContextInv
<1>5. TrackerInv'
  BY <1>1, SameTracker DEF ContextInv
<1>6. RequestInv'
  BY <1>1 DEF ContextInv, RequestInv
<1>7. SegmentInv'
  BY <1>1 DEF ContextInv, SegmentInv
<1>8. HandoffIsTrue'
  BY <1>1, HandoffsStayTrue DEF ContextInv, Deterministic, workspace
<1> QED BY <1>2, <1>3, <1>4, <1>5, <1>6, <1>7, <1>8 DEF ContextInv

LEMMA OpenSegmentStep ==
    ASSUME ContextInv, OpenSegment
    PROVE  ContextInv'
<1>1. /\ pc = "open" /\ Log' = Log /\ UNCHANGED workspace /\ turns = <<>>
      /\ UNCHANGED <<turns, active, handoff, segment, tracker, cfg, step, calls, retries,
                     draft, saved>>
      /\ request = None
  BY DEF OpenSegment, Log, buffer, session, ContextInv, LogInv, RequestInv, SendOrStop,
         Exhaust, Send
<1>2. PICK level \in Level : SendOrStop(Whole(turns), level)
  BY DEF OpenSegment
<1>3. \/ pc' \in Ended /\ request' = None
      \/ /\ pc' = "request" /\ ~should_hard_stop(level)
         /\ request' = [shown |-> Whole(turns), level |-> level]
  BY <1>1, <1>2 DEF SendOrStop, Exhaust, Send, Ended
<1>4. "turn" \notin Ended /\ "request" \notin Ended
  BY DEF Ended
<1>5. WorkspaceInv'
  BY <1>1, <1>3 DEF ContextInv, WorkspaceInv, workspace
<1>6. LogInv'
  BY <1>1, <1>3, <1>4 DEF ContextInv, LogInv
<1>7. ObservationInv'
  BY <1>1, SameObservations DEF ContextInv
<1>8. TrackerInv'
  BY <1>1, <1>3, SameTracker DEF ContextInv, TrackerInv
<1>9. RequestInv'
  <2>1. CASE pc' = "request"
    <3>1. request'.level = level /\ request'.shown = Whole(turns)
      BY <1>3, <1>4, <2>1
    <3>2. DOMAIN Whole(turns) = Steps(turns) /\ Steps(turns) = {}
      BY <1>1 DEF Whole, Steps
    <3> QED BY <1>1, <1>2, <1>3, <1>4, <2>1, <3>1, <3>2
            DEF RequestInv, NeverOverHardStop, Steps
  <2>2. CASE pc' # "request"
    BY <1>3, <2>2 DEF RequestInv
  <2> QED BY <2>1, <2>2
<1>10. HandoffIsTrue'
  BY <1>1, HandoffsStayTrue DEF ContextInv, Deterministic, workspace
<1>11. SegmentInv'
  <2> DEFINE rec == Record("start", segment, handoff)
  <2>1. /\ segment \in Nat /\ segment > 1 /\ handoff.target = segment
        /\ cfg.stored => segment \in saved
        /\ records \in Seq(SegmentRecord)
        /\ records' = IF cfg.stored THEN Append(records, rec) ELSE records
        /\ Len(records) = IF ~cfg.stored THEN 0 ELSE 2 * segment - 3
    BY <1>1 DEF ContextInv, SegmentInv, OpenSegment, Logged
  <2>2. rec \in SegmentRecord /\ rec.event = "start" /\ rec.segment = segment
        /\ rec.handoff = segment
    BY <2>1 DEF Record, SegmentRecord
  <2> HIDE DEF rec
  <2>3. CASE cfg.stored
    <3>1. /\ records' \in Seq(SegmentRecord) /\ Len(records') = 2 * segment - 2
          /\ DOMAIN records' = DOMAIN records \cup {2 * segment - 2}
          /\ records'[2 * segment - 2] = rec
          /\ \A k \in DOMAIN records : records'[k] = records[k]
      BY <2>1, <2>2, <2>3
    <3>2. (2 * segment - 2) % 2 # 1 /\ (2 * segment) \div 2 = segment
          /\ (2 * segment - 1) \div 2 + 1 = segment
      BY <2>1
    <3>3. \A k \in DOMAIN records :
            /\ records[k].handoff \in saved
            /\ records[k].event = IF k % 2 = 1 THEN "end" ELSE "start"
            /\ records[k].segment = (k + 2) \div 2
            /\ records[k].handoff = (k + 1) \div 2 + 1
      BY DEF ContextInv, SegmentInv
    <3>4. ASSUME NEW k \in DOMAIN records'
          PROVE  /\ records'[k].handoff \in saved
                 /\ records'[k].event = IF k % 2 = 1 THEN "end" ELSE "start"
                 /\ records'[k].segment = (k + 2) \div 2
                 /\ records'[k].handoff = (k + 1) \div 2 + 1
      <4>1. CASE k \in DOMAIN records
        BY <3>1, <3>3, <4>1
      <4>2. CASE k = 2 * segment - 2
        <5>1. k + 2 = 2 * segment /\ k + 1 = 2 * segment - 1
          BY <2>1, <4>2
        <5> QED BY <2>1, <2>2, <2>3, <3>1, <3>2, <4>2, <5>1
      <4> QED BY <3>1, <4>1, <4>2
    <3> QED BY <1>1, <1>3, <2>1, <2>3, <3>1, <3>4 DEF ContextInv, SegmentInv, Ended
  <2>4. CASE ~cfg.stored
    BY <1>1, <1>3, <2>1, <2>4 DEF ContextInv, SegmentInv, Ended
  <2> QED BY <2>3, <2>4
<1> QED BY <1>5, <1>6, <1>7, <1>8, <1>9, <1>10, <1>11 DEF ContextInv

LEMMA CloseSegmentStep ==
    ASSUME ContextInv, CloseSegment
    PROVE  ContextInv'
<1>1. /\ pc = "close" /\ pc' = "open" /\ turns' = <<>> /\ Log' = <<>> /\ UNCHANGED workspace
      /\ handoff' = draft /\ segment' = segment + 1 /\ draft' = None
      /\ UNCHANGED <<active, tracker, cfg, step, calls, retries, request, saved>>
  BY DEF CloseSegment, Log, session
<1>2. /\ segment \in Nat \ {0} /\ draft.target = segment + 1
      /\ cfg.stored => segment + 1 \in saved
      /\ ~withheld => code_epoch <= tracker.epoch
  BY <1>1 DEF ContextInv, SegmentInv, TrackerInv
<1>3. Places(Log') = {}
  BY <1>1 DEF Places
<1>4. WorkspaceInv'
  BY <1>1 DEF ContextInv, WorkspaceInv, workspace
<1>5. LogInv'
  <2>1. active' = None /\ turns' \in Seq(Turn) /\ Log' \in Seq(Turn) /\ DOMAIN turns' = {}
    BY <1>1 DEF ContextInv, LogInv
  <2>2. IsFiniteSet(Places(Log'))
    BY <1>3, FS_EmptySet
  <2> QED BY <1>1, <2>1, <2>2 DEF LogInv
<1>6. ObservationInv'
  BY <1>1, <1>2, <1>3 DEF ObservationInv
<1>7. TrackerInv'
  <2>1. Cardinality(LogWrites') = 0
    BY <1>3, FS_EmptySet DEF LogWrites
  <2> QED BY <1>1, <1>2, <2>1 DEF ContextInv, TrackerInv, workspace
<1>8. RequestInv'
  BY <1>1 DEF ContextInv, RequestInv
<1>9. HandoffIsTrue'
  BY <1>1, HandoffsStayTrue DEF ContextInv, Deterministic, workspace
<1>10. SegmentInv'
  <2> DEFINE rec == Record("end", segment, draft)
  <2>1. /\ records \in Seq(SegmentRecord)
        /\ records' = IF cfg.stored THEN Append(records, rec) ELSE records
        /\ Len(records) = IF ~cfg.stored THEN 0 ELSE 2 * segment - 2
    BY <1>1 DEF ContextInv, SegmentInv, CloseSegment, Logged
  <2>2. rec \in SegmentRecord /\ rec.event = "end" /\ rec.segment = segment
        /\ rec.handoff = segment + 1
    BY <1>2 DEF Record, SegmentRecord
  <2> HIDE DEF rec
  <2>3. CASE cfg.stored
    <3>1. /\ records' \in Seq(SegmentRecord) /\ Len(records') = 2 * segment - 1
          /\ DOMAIN records' = DOMAIN records \cup {2 * segment - 1}
          /\ records'[2 * segment - 1] = rec
          /\ \A k \in DOMAIN records : records'[k] = records[k]
      <4>1. /\ records' \in Seq(SegmentRecord) /\ Len(records') = Len(records) + 1
            /\ DOMAIN records' = DOMAIN records \cup {Len(records) + 1}
            /\ records'[Len(records) + 1] = rec
            /\ \A k \in DOMAIN records : records'[k] = records[k]
        BY <2>1, <2>2, <2>3
      <4>2. Len(records) + 1 = 2 * segment - 1
        BY <1>2, <2>1, <2>3
      <4> QED BY <4>1, <4>2
    <3>2. (2 * segment - 1) % 2 = 1 /\ (2 * segment + 1) \div 2 = segment
          /\ (2 * segment) \div 2 + 1 = segment + 1
      BY <1>2
    <3>3. \A k \in DOMAIN records :
            /\ records[k].handoff \in saved
            /\ records[k].event = IF k % 2 = 1 THEN "end" ELSE "start"
            /\ records[k].segment = (k + 2) \div 2
            /\ records[k].handoff = (k + 1) \div 2 + 1
      BY DEF ContextInv, SegmentInv
    <3>4. ASSUME NEW k \in DOMAIN records'
          PROVE  /\ records'[k].handoff \in saved
                 /\ records'[k].event = IF k % 2 = 1 THEN "end" ELSE "start"
                 /\ records'[k].segment = (k + 2) \div 2
                 /\ records'[k].handoff = (k + 1) \div 2 + 1
      <4>1. CASE k \in DOMAIN records
        BY <3>1, <3>3, <4>1
      <4>2. CASE k = 2 * segment - 1
        <5>1. k + 2 = 2 * segment + 1 /\ k + 1 = 2 * segment
          BY <1>2, <4>2
        <5> QED BY <1>2, <2>2, <2>3, <3>1, <3>2, <4>2, <5>1
      <4> QED BY <3>1, <4>1, <4>2
    <3> QED BY <1>1, <1>2, <2>3, <3>1, <3>4 DEF SegmentInv
  <2>4. CASE ~cfg.stored
    BY <1>1, <1>2, <2>1, <2>4 DEF SegmentInv
  <2> QED BY <2>3, <2>4
<1> QED BY <1>4, <1>5, <1>6, <1>7, <1>8, <1>9, <1>10 DEF ContextInv

LEMMA BeginTurnStep ==
    ASSUME ContextInv, BeginTurn
    PROVE  ContextInv'
<1>1. /\ pc = "request" /\ pc' = "turn" /\ step < MaxSteps /\ UNCHANGED workspace
      /\ step' = step + 1 /\ retries' = 0 /\ request' = None
      /\ active' = [step |-> step + 1, status |-> "active", control |-> FALSE,
                    results |-> <<>>]
      /\ Log = turns /\ Log' = Append(turns, active')
      /\ UNCHANGED <<turns, handoff, segment, tracker, cfg, calls, draft, saved, records>>
  BY DEF BeginTurn, Log, disk
<1>2. step \in Nat /\ MaxSteps \in Nat /\ step' \in 0..MaxSteps
  BY <1>1, ContextAssumption DEF ContextInv, WorkspaceInv
<1>3. /\ active' \in Turn /\ active'.results = <<>> /\ active'.step = step + 1
      /\ active'.status = "active"
  BY <1>1, <1>2 DEF Turn
<1>4. /\ turns \in Seq(Turn) /\ Log' \in Seq(Turn) /\ Len(turns) \in Nat
      /\ DOMAIN Log' = DOMAIN turns \cup {Len(turns) + 1} /\ Log'[Len(turns) + 1] = active'
      /\ \A i \in DOMAIN turns : Log'[i] = turns[i] /\ i \in Nat /\ i <= Len(turns)
  BY <1>1, <1>3 DEF ContextInv, LogInv
<1>5. /\ Places(Log') = Places(Log)
      /\ \A k \in Places(Log) : At(Log', k) = At(Log, k)
  BY <1>1, <1>3, <1>4, EmptyTurnPlaces
<1>6. WorkspaceInv'
  BY <1>1, <1>2, ContextAssumption DEF ContextInv, WorkspaceInv, workspace
<1>7. LogInv'
  <2>1. \A i \in DOMAIN turns :
          /\ turns[i].step \in 1..step
          /\ \A j \in DOMAIN turns : i < j => turns[i].step < turns[j].step
    BY <1>1 DEF ContextInv, LogInv
  <2>2. ASSUME NEW i \in DOMAIN Log'
        PROVE  /\ Log'[i].step \in 1..(step + 1)
               /\ \A j \in DOMAIN Log' : i < j => Log'[i].step < Log'[j].step
    <3>1. CASE i \in DOMAIN turns
      BY <1>2, <1>3, <1>4, <2>1, <3>1
    <3>2. CASE i = Len(turns) + 1
      BY <1>2, <1>3, <1>4, <3>2
    <3> QED BY <1>4, <3>1, <3>2
  <2> QED BY <1>1, <1>3, <1>4, <1>5, <2>2 DEF ContextInv, LogInv
<1>8. ObservationInv'
  BY <1>1, <1>5, SameObservations DEF ContextInv
<1>9. TrackerInv'
  <2>1. /\ tracker.epoch \in Nat
        /\ tracker.stale \cup tracker.superseded \subseteq 1..step
        /\ \A i \in DOMAIN turns :
              /\ turns[i].step \in tracker.stale => Obsolete(turns[i])
              /\ turns[i].status = "stale" => turns[i].step \in tracker.stale
        /\ ~withheld => code_epoch <= tracker.epoch + Cardinality(LogWrites)
    BY <1>1 DEF ContextInv, TrackerInv
  <2>2. LogWrites' = LogWrites
    BY <1>5 DEF LogWrites
  <2>3. \A i \in DOMAIN turns : Obsolete(turns[i])' <=> Obsolete(turns[i])
    BY <1>1 DEF workspace, Obsolete, OldRead, OldVerification, Verified
  <2>4. ASSUME NEW i \in DOMAIN Log'
        PROVE  /\ Log'[i].step \in tracker.stale => Obsolete(Log[i])'
               /\ Log'[i].status = "stale" => Log'[i].step \in tracker.stale
    <3>1. CASE i \in DOMAIN turns
      <4>1. Obsolete(Log[i])' <=> Obsolete(turns[i])'
        BY <1>1, <1>4, <3>1 DEF Obsolete
      <4> QED BY <1>4, <2>1, <2>3, <3>1, <4>1
    <3>2. CASE i = Len(turns) + 1
      <4>1. step + 1 \notin tracker.stale
        BY <1>2, <2>1
      <4> QED BY <1>3, <1>4, <3>2, <4>1
    <3> QED BY <1>4, <3>1, <3>2
  <2>5. tracker'.stale \cup tracker'.superseded \subseteq 1..step'
    BY <1>1, <1>2, <2>1
  <2> QED BY <1>1, <2>1, <2>2, <2>4, <2>5 DEF TrackerInv, workspace
<1>10. RequestInv'
  BY <1>1 DEF RequestInv
<1>11. SegmentInv'
  BY <1>1 DEF ContextInv, SegmentInv
<1>12. HandoffIsTrue'
  BY <1>1, HandoffsStayTrue DEF ContextInv, Deterministic, workspace
<1> QED BY <1>6, <1>7, <1>8, <1>9, <1>10, <1>11, <1>12 DEF ContextInv

LEMMA InitInv ==
    ASSUME Init
    PROVE  ContextInv
<1>1. /\ turns = <<>> /\ Log = <<>> /\ active = None /\ handoff = None /\ segment = 1
      /\ request = None /\ draft = None /\ saved = {} /\ records = <<>>
      /\ pc = "ready" /\ step = 0 /\ calls = 0 /\ retries = 0 /\ cfg \in Settings
      /\ files = [p \in Paths |-> 0] /\ code_epoch = 0
      /\ meddled = {} /\ written = {} /\ withheld = FALSE
      /\ tracker.epoch = 0 /\ tracker.stale = {} /\ tracker.superseded = {}
  BY DEF Init, Log
<1>2. Places(Log) = {} /\ LogWrites = {}
  BY <1>1 DEF Places, LogWrites
<1>3. WorkspaceInv
  <2>1. files \in [Paths -> Nat]
    BY <1>1
  <2>2. 0 \in 0..MaxSteps /\ 0 \in 0..MaxCalls /\ 0 \in 0..MaxRetries
    BY ContextAssumption
  <2> QED BY <1>1, <2>1, <2>2 DEF WorkspaceInv
<1>4. LogInv
  <2>1. turns \in Seq(Turn) /\ Log \in Seq(Turn) /\ DOMAIN turns = {}
    BY <1>1
  <2>2. IsFiniteSet(Places(Log))
    BY <1>2, FS_EmptySet
  <2> QED BY <1>1, <2>1, <2>2 DEF LogInv
<1>5. ObservationInv
  BY <1>1, <1>2 DEF ObservationInv
<1>6. TrackerInv
  BY <1>1, <1>2, FS_EmptySet DEF TrackerInv
<1>7. RequestInv
  BY <1>1 DEF RequestInv
<1>8. SegmentInv
  BY <1>1 DEF SegmentInv
<1>9. HandoffIsTrue
  BY <1>1 DEF HandoffIsTrue, Deterministic
<1> QED BY <1>3, <1>4, <1>5, <1>6, <1>7, <1>8, <1>9 DEF ContextInv

-----------------------------------------------------------------------------
\* A handoff is made of turns that were just marked.

LEMMA HandoffFilesAreCurrent ==
    ASSUME WorkspaceInv, LogInv, ObservationInv, Log = turns
    PROVE  /\ \A p \in DOMAIN HandoffFiles(turns) \ meddled :
                 HandoffFiles(turns)[p] \in {files[p], TextOf(p, files[p])}
           /\ segment = 1 => written \subseteq DOMAIN HandoffFiles(turns)
<1> DEFINE of(p, tool) == {k \in Places(turns) : At(turns, k).tool = tool
                                                 /\ At(turns, k).path = p}
           named == {p \in Paths : of(p, "write_file") \cup of(p, "read_file") # {}}
           last(ks) == CHOOSE k \in ks : \A j \in ks : ~Earlier(k, j)
           first(ks) == CHOOSE k \in ks : \A j \in ks : ~Earlier(j, k)
<1>1. HandoffFiles(turns) =
        [p \in named |->
            At(turns, IF of(p, "write_file") # {} THEN last(of(p, "write_file"))
                      ELSE first(of(p, "read_file"))).version]
  BY DEF HandoffFiles
<1>2. turns \in Seq(Turn)
  BY DEF LogInv
<1>3. ASSUME NEW ks \in SUBSET Places(turns), ks # {}
      PROVE  last(ks) \in ks /\ \A j \in ks : ~Earlier(last(ks), j)
  <2>1. \E k \in ks : \A j \in ks : ~Earlier(k, j)
    BY <1>2, <1>3, LastPlace
  <2> QED BY <2>1
<1>4. ASSUME NEW ks \in SUBSET Places(turns), ks # {}
      PROVE  first(ks) \in ks /\ \A j \in ks : ~Earlier(j, first(ks))
  <2>1. \E k \in ks : \A j \in ks : ~Earlier(j, k)
    BY <1>2, <1>4, FirstPlace
  <2> QED BY <2>1
<1> HIDE DEF last, first
<1>5. ASSUME NEW p \in named, p \notin meddled
      PROVE  HandoffFiles(turns)[p] \in {files[p], TextOf(p, files[p])}
  <2>1. files[p] \in Nat
    BY DEF WorkspaceInv
  <2>2. CASE of(p, "write_file") # {}
    <3> DEFINE k == last(of(p, "write_file"))
    <3>1. k \in of(p, "write_file") /\ \A j \in of(p, "write_file") : ~Earlier(k, j)
      BY <1>3, <2>2
    <3>2. HandoffFiles(turns)[p] = At(turns, k).version
      BY <1>1, <2>2
    <3> HIDE DEF k
    <3>3. Observation(k)
      BY <3>1 DEF ObservationInv
    <3>4. ~\E n \in Places(turns) : Earlier(k, n) /\ WriteOf(At(turns, n), p)
      BY <3>1 DEF WriteOf
    <3> QED BY <1>5, <3>1, <3>2, <3>3, <3>4 DEF Observation, NamesFile
  <2>3. CASE of(p, "write_file") = {}
    <3> DEFINE k == first(of(p, "read_file"))
    <3>1. k \in of(p, "read_file")
      BY <1>4, <2>3
    <3>2. HandoffFiles(turns)[p] = At(turns, k).version
      BY <1>1, <2>3
    <3> HIDE DEF k
    <3>3. Observation(k) /\ At(turns, k).version \in Int
      BY <1>2, <3>1, PlaceParts, ResultTyped DEF ObservationInv
    <3>4. ~\E n \in Places(turns) : Changes(At(turns, n)) /\ At(turns, n).path = p
      BY <2>3 DEF Changes
    <3>5. ~OldRead(At(turns, k)) /\ At(turns, k).version <= files[p]
          /\ At(turns, k).tool = "read_file" /\ At(turns, k).path = p
      BY <1>5, <3>1, <3>3, <3>4 DEF Observation
    <3> QED BY <2>1, <3>2, <3>3, <3>5 DEF OldRead
  <2> QED BY <2>2, <2>3
<1>6. ASSUME segment = 1, NEW p \in written
      PROVE  p \in named
  <2>1. PICK k \in Places(turns) : WriteOf(At(turns, k), p)
    BY <1>6 DEF ObservationInv
  <2>2. k \in of(p, "write_file") /\ p \in Paths
    BY <2>1 DEF WriteOf, WorkspaceInv
  <2> QED BY <2>2
<1>7. DOMAIN HandoffFiles(turns) = named
  BY <1>1
<1> QED BY <1>5, <1>6, <1>7

LEMMA VerificationsAreCurrent ==
    ASSUME WorkspaceInv, LogInv, ObservationInv, Log = turns, ~withheld,
           \A i \in DOMAIN turns : Outdated(turns[i]) => turns[i].status = "stale",
           NEW v \in Verifications(turns), v.passed, ~v.stale
    PROVE  v.epoch = code_epoch
<1>1. PICK k \in Places(turns) :
        /\ At(turns, k).tool = "bash" /\ At(turns, k).verifies
        /\ v = [epoch |-> At(turns, k).epoch, passed |-> At(turns, k).passed,
                stale |-> turns[k[1]].status = "stale"]
  BY DEF Verifications
<1>2. /\ v.epoch = At(turns, k).epoch /\ At(turns, k).passed
      /\ turns[k[1]].status # "stale"
  BY <1>1
<1>3. /\ k[1] \in DOMAIN turns /\ k[2] \in DOMAIN turns[k[1]].results
      /\ At(turns, k) \in Result /\ At(turns, k) = turns[k[1]].results[k[2]]
  BY PlaceParts DEF LogInv, At
<1>4. ~OldVerification(At(turns, k))
  BY <1>2, <1>3 DEF Outdated
<1>5. At(turns, k).epoch <= code_epoch /\ At(turns, k).epoch \in Nat /\ code_epoch \in Nat
  BY <1>1, <1>3, ResultTyped DEF ObservationInv, Observation, WorkspaceInv
<1> QED BY <1>1, <1>2, <1>4, <1>5 DEF OldVerification, Verified

LEMMA CompactStep ==
    ASSUME ContextInv, Compact
    PROVE  ContextInv'
<1>1. /\ pc = "compact" /\ Log' = Log /\ Log = turns /\ UNCHANGED workspace
      /\ UNCHANGED <<turns, active, handoff, segment, tracker, cfg, step, calls, retries,
                     request, saved, records>>
      /\ pc' \in {"save", "raised"}
      /\ pc' = "raised" => draft' = draft
  BY DEF Compact, Log, buffer, session, disk
<1>2. \/ draft' = Handoff("model", <<>>, {})
      \/ draft' = Handoff("deterministic", HandoffFiles(turns), Verifications(turns))
      \/ pc' = "raised" /\ draft' = draft
  BY DEF Compact
<1>3. WorkspaceInv' /\ LogInv'
  BY <1>1 DEF ContextInv, WorkspaceInv, LogInv, workspace, Ended
<1>4. ObservationInv'
  BY <1>1, SameObservations DEF ContextInv
<1>5. TrackerInv'
  BY <1>1, SameTracker DEF ContextInv, TrackerInv
<1>6. RequestInv'
  BY <1>1 DEF ContextInv, RequestInv
<1>7. SegmentInv'
  <2>1. pc' = "save" => draft'.source = segment /\ draft'.target = segment + 1
    BY <1>1, <1>2 DEF Handoff
  <2> QED BY <1>1, <2>1 DEF ContextInv, SegmentInv
<1>8. HandoffIsTrue'
  <2>1. CASE draft' = draft
    BY <1>1, <2>1, HandoffsStayTrue DEF ContextInv, Deterministic, workspace
  <2>2. CASE draft' = Handoff("model", <<>>, {})
    <3>1. draft'.generator = "model"
      BY <2>2 DEF Handoff
    <3>2. Deterministic' \subseteq Deterministic
      BY <1>1, <3>1 DEF Deterministic
    <3> QED BY <1>1, <3>2, HandoffsStayTrue DEF ContextInv, workspace
  <2>3. CASE draft' = Handoff("deterministic", HandoffFiles(turns), Verifications(turns))
    <3> SUFFICES ASSUME NEW h \in Deterministic'
                 PROVE  /\ \A p \in DOMAIN h.files \ meddled :
                              h.files[p] \in {h.tree[p], TextOf(p, h.tree[p])}
                        /\ h.source = 1 => h.wrote \subseteq DOMAIN h.files
                        /\ \A v \in h.verifications :
                              ~withheld /\ v.passed /\ ~v.stale => v.epoch = h.made
      BY <1>1 DEF HandoffIsTrue, workspace
    <3>1. CASE h \in Deterministic
      BY <3>1 DEF ContextInv, HandoffIsTrue
    <3>2. CASE h = draft'
      <4>1. /\ h.files = HandoffFiles(turns) /\ h.tree = files /\ h.source = segment
            /\ h.wrote = written /\ h.verifications = Verifications(turns)
            /\ h.made = code_epoch
        BY <2>3, <3>2 DEF Handoff
      <4>2. \A i \in DOMAIN turns : Outdated(turns[i]) => turns[i].status = "stale"
        BY <1>1 DEF ContextInv, TrackerInv
      <4>3. \A v \in Verifications(turns) :
              ~withheld /\ v.passed /\ ~v.stale => v.epoch = code_epoch
        BY <1>1, <4>2, VerificationsAreCurrent DEF ContextInv
      <4> QED BY <1>1, <4>1, <4>3, HandoffFilesAreCurrent DEF ContextInv
    <3> QED BY <1>1, <3>1, <3>2 DEF Deterministic
  <2> QED BY <1>2, <2>1, <2>2, <2>3
<1> QED BY <1>3, <1>4, <1>5, <1>6, <1>7, <1>8 DEF ContextInv

-----------------------------------------------------------------------------
\* What the tracker finds out, when it looks at the turns.

LEMMA RefreshedEpoch ==
    ASSUME LogInv, TrackerInv, Log = turns, code_epoch \in Nat
    PROVE  /\ Refreshed.epoch \in Nat
           /\ IsFiniteSet(LogWrites)
           /\ Refreshed.epoch = tracker.epoch + Cardinality(LogWrites)
           /\ ~withheld => code_epoch <= Refreshed.epoch
<1>1. Refreshed.epoch = tracker.epoch + Cardinality(LogWrites)
  BY DEF Refreshed, EpochAfter, Writes, Seen, LogWrites
<1>2. IsFiniteSet(LogWrites)
  BY FS_Subset DEF LogInv, LogWrites
<1>3. Cardinality(LogWrites) \in Nat /\ tracker.epoch \in Nat
  BY <1>2, FS_CardinalityType DEF TrackerInv
<1> QED BY <1>1, <1>2, <1>3 DEF TrackerInv

LEMMA StepsAreDistinct ==
    ASSUME LogInv, Log = turns, NEW i \in DOMAIN turns, NEW j \in DOMAIN turns,
           turns[i].step = turns[j].step
    PROVE  i = j
<1>1. /\ turns[i].step \in Nat /\ i \in Nat /\ j \in Nat
      /\ i < j => turns[i].step < turns[j].step
      /\ j < i => turns[j].step < turns[i].step
  BY DEF LogInv
<1> QED BY <1>1

\* A turn is found stale only when it is.
LEMMA FoundIsObsolete ==
    ASSUME LogInv, ObservationInv, TrackerInv, Log = turns,
           NEW i \in DOMAIN turns, turns[i].step \in Refreshed.stale
    PROVE  Obsolete(turns[i])
<1>1. CASE turns[i].step \in tracker.stale
  BY <1>1 DEF TrackerInv
<1>2. CASE turns[i].step \notin tracker.stale
  <2>1. PICK k \in Places(turns), n \in Places(turns) :
          Outdates(n, k) /\ turns[k[1]].step = turns[i].step
    BY <1>2 DEF Refreshed, StepsAt
  <2>2. k[1] \in DOMAIN turns /\ k[2] \in DOMAIN turns[k[1]].results
    BY PlaceParts DEF LogInv
  <2>3. k[1] = i
    BY <2>1, <2>2, StepsAreDistinct
  <2>4. Observation(k)
    BY DEF ObservationInv
  <2>5. OldRead(At(turns, k)) \/ OldVerification(At(turns, k))
    BY <2>1, <2>4 DEF Observation, Outdates, Seen
  <2> QED BY <2>2, <2>3, <2>5 DEF Obsolete, At
<1> QED BY <1>1, <1>2

\* A stale verification is found by the last write.
LEMMA LastWriteOutdates ==
    ASSUME LogInv, TrackerInv, Log = turns, code_epoch \in Nat, ~withheld,
           NEW k \in Places(turns), Verified(At(turns, k)),
           At(turns, k).epoch \in Nat, At(turns, k).epoch < code_epoch,
           \E n \in Places(turns) : Earlier(k, n) /\ Changes(At(turns, n))
    PROVE  \E n \in Places(turns) : Outdates(n, k)
<1> DEFINE all == Places(turns)
           upto(n) == {j \in all : ~Earlier(n, j)}
<1>1. turns \in Seq(Turn) /\ LogWrites \in SUBSET Places(turns)
  BY DEF LogInv, LogWrites
<1>2. PICK m \in LogWrites : Earlier(k, m)
  BY DEF LogWrites
<1>3. PICK n \in LogWrites : \A j \in LogWrites : ~Earlier(n, j)
  BY <1>1, <1>2, LastPlace
<1>4. n \in all /\ Changes(At(turns, n)) /\ Earlier(k, n)
  BY <1>1, <1>2, <1>3, EarlierIsOrder DEF LogWrites
<1>5. Writes(upto(n)) = LogWrites
  BY <1>3 DEF Writes, Seen, LogWrites
<1>6. /\ Refreshed.epoch \in Nat /\ IsFiniteSet(LogWrites)
      /\ Refreshed.epoch = tracker.epoch + Cardinality(LogWrites)
      /\ code_epoch <= Refreshed.epoch
  BY RefreshedEpoch
<1>7. EpochAt(n) = Refreshed.epoch
  BY <1>5, <1>6 DEF EpochAt, EpochAfter
<1>8. EpochOf(k) < EpochAt(n)
  <2>1. CASE At(turns, k).epoch # 0
    BY <1>6, <1>7, <2>1 DEF EpochOf, Seen
  <2>2. CASE At(turns, k).epoch = 0
    <3>1. EpochOf(k) = tracker.epoch + Cardinality(Writes(upto(k)))
      BY <2>2 DEF EpochOf, Seen, EpochAt, EpochAfter
    <3>2. Writes(upto(k)) \subseteq LogWrites /\ n \notin Writes(upto(k))
      BY <1>4 DEF Writes, Seen, LogWrites
    <3>3. /\ Cardinality(Writes(upto(k))) \in Nat /\ Cardinality(LogWrites) \in Nat
          /\ Cardinality(Writes(upto(k))) < Cardinality(LogWrites)
      <4>1. IsFiniteSet(Writes(upto(k)))
        BY <1>6, <3>2, FS_Subset
      <4>2. /\ Cardinality(Writes(upto(k))) \in Nat /\ Cardinality(LogWrites) \in Nat
        BY <1>6, <4>1, FS_CardinalityType
      <4>3. Cardinality(Writes(upto(k))) <= Cardinality(LogWrites)
            /\ Cardinality(Writes(upto(k))) # Cardinality(LogWrites)
        BY <1>3, <1>6, <3>2, FS_Subset
      <4> QED BY <4>2, <4>3
    <3> QED BY <1>6, <1>7, <3>1, <3>3 DEF TrackerInv
  <2> QED BY <2>1, <2>2
<1>9. Outdates(n, k)
  BY <1>4, <1>8 DEF Outdates, Seen
<1> QED BY <1>4, <1>9

\* A turn that has to be marked is found.
LEMMA OutdatedIsFound ==
    ASSUME WorkspaceInv, LogInv, ObservationInv, TrackerInv, Log = turns,
           NEW i \in DOMAIN turns, Outdated(turns[i])
    PROVE  turns[i].step \in Refreshed.stale
<1>1. PICK j \in DOMAIN turns[i].results :
        \/ OldRead(turns[i].results[j]) /\ turns[i].results[j].path \notin meddled
        \/ OldVerification(turns[i].results[j]) /\ ~withheld
  BY DEF Outdated
<1> DEFINE k == <<i, j>>
<1>2. k \in Places(turns) /\ At(turns, k) = turns[i].results[j] /\ k[1] = i
  BY PlaceMade
<1> HIDE DEF k
<1>3. Observation(k) /\ At(turns, k) \in Result
  BY <1>2, PlaceParts DEF ObservationInv, LogInv
<1>4. \E n \in Places(turns) : Outdates(n, k)
  <2>1. CASE OldRead(At(turns, k)) /\ At(turns, k).path \notin meddled
    <3>1. PICK n \in Places(turns) :
            /\ Earlier(k, n) /\ Changes(At(turns, n))
            /\ At(turns, n).path = At(turns, k).path
      BY <1>3, <2>1 DEF Observation
    <3>2. Outdates(n, k)
      BY <2>1, <3>1 DEF Outdates, Seen, OldRead
    <3> QED BY <3>2
  <2>2. CASE OldVerification(At(turns, k)) /\ ~withheld
    <3>1. \E n \in Places(turns) : Earlier(k, n) /\ Changes(At(turns, n))
      BY <1>3, <2>2 DEF Observation
    <3>2. /\ Verified(At(turns, k)) /\ At(turns, k).epoch < code_epoch
          /\ At(turns, k).epoch \in Nat /\ code_epoch \in Nat
      BY <1>3, <2>2, ResultTyped DEF OldVerification, Verified, WorkspaceInv
    <3> QED BY <1>2, <2>2, <3>1, <3>2, LastWriteOutdates
  <2> QED BY <1>1, <1>2, <2>1, <2>2
<1>5. turns[k[1]].step \in StepsAt({x \in Places(turns) : \E n \in Places(turns) : Outdates(n, x)})
  BY <1>2, <1>4 DEF StepsAt
<1> QED BY <1>2, <1>5 DEF Refreshed

LEMMA MarkedTurns ==
    ASSUME LogInv, TrackerInv, Log = turns, NEW t, tracker.stale \subseteq t.stale
    PROVE  /\ Marked(t) \in Seq(Turn) /\ DOMAIN Marked(t) = DOMAIN turns
           /\ \A i \in DOMAIN turns :
                 /\ Marked(t)[i].step = turns[i].step
                 /\ Marked(t)[i].results = turns[i].results
                 /\ Marked(t)[i].status = "stale" <=> turns[i].step \in t.stale
<1>1. turns \in Seq(Turn) /\ DOMAIN turns = 1..Len(turns) /\ Len(turns) \in Nat
  BY DEF LogInv
<1>2. ASSUME NEW i \in DOMAIN turns
      PROVE  /\ Marked(t)[i] \in Turn
             /\ Marked(t)[i].step = turns[i].step
             /\ Marked(t)[i].results = turns[i].results
             /\ Marked(t)[i].status = "stale" <=> turns[i].step \in t.stale
  <2> DEFINE s == IF turns[i].step \in t.stale THEN "stale"
                  ELSE IF turns[i].step \in t.superseded THEN "superseded"
                  ELSE turns[i].status
  <2>1. Marked(t)[i] = [turns[i] EXCEPT !.status = s]
    BY DEF Marked
  <2>2. turns[i] \in Turn
    BY <1>1
  <2>3. turns[i].status \in {"active", "stale", "superseded"}
    BY <2>2 DEF Turn
  <2>4. s \in {"active", "stale", "superseded"}
    BY <2>3
  <2>5. s = "stale" <=> turns[i].step \in t.stale
    BY DEF TrackerInv
  <2> HIDE DEF s
  <2>6. /\ Marked(t)[i] \in Turn /\ Marked(t)[i].step = turns[i].step
        /\ Marked(t)[i].results = turns[i].results /\ Marked(t)[i].status = s
    BY <2>1, <2>2, <2>4 DEF Turn
  <2> QED BY <2>5, <2>6
<1>3. DOMAIN Marked(t) = DOMAIN turns
  BY DEF Marked
<1> DEFINE ts == Marked(t)
<1>4. ts = [i \in 1..Len(turns) |-> ts[i]]
  BY <1>1 DEF Marked
<1> HIDE DEF ts
<1>5. \A i \in 1..Len(turns) : ts[i] \in Turn
  BY <1>1, <1>2 DEF ts
<1>6. ts \in Seq(Turn)
  BY <1>1, <1>4, <1>5
<1> QED BY <1>2, <1>3, <1>6 DEF ts

\* What a request may show of the turns.
Shown(ts) == {Whole(ts), Window(ts), Pruned(ts)}

LEMMA PrepareOutcome ==
    ASSUME NEW ts, NEW level \in Level,
           \/ cfg.mode = "full_history" /\ SendOrStop(Whole(ts), level)
           \/ cfg.mode = "recent_window" /\ SendOrStop(Window(ts), level)
           \/ cfg.mode = "deterministic_prune" /\ SendOrStop(Pruned(ts), level)
           \/ cfg.mode = "structured_reset" /\ PrepareStructured(ts, level)
    PROVE  \/ pc' \in {"compact"} \cup Ended /\ request' = request
           \/ /\ pc' = "request"
              /\ \E sent \in Level, shown \in Shown(ts) :
                    /\ request' = [shown |-> shown, level |-> sent]
                    /\ ~should_hard_stop(sent)
                    /\ Triggered(sent) => cfg.mode # "structured_reset" \/ ts = <<>>
<1>1. ASSUME NEW shown \in Shown(ts), SendOrStop(shown, level),
             cfg.mode # "structured_reset" \/ ts = <<>>
      PROVE  \/ pc' \in {"compact"} \cup Ended /\ request' = request
             \/ /\ pc' = "request"
                /\ \E sent \in Level, s \in Shown(ts) :
                      /\ request' = [shown |-> s, level |-> sent]
                      /\ ~should_hard_stop(sent)
                      /\ Triggered(sent) => cfg.mode # "structured_reset" \/ ts = <<>>
  BY <1>1 DEF SendOrStop, Exhaust, Send, Ended
<1>2. CASE cfg.mode = "structured_reset" /\ PrepareStructured(ts, level)
  <2>1. CASE ~Triggered(level)
    BY <1>2, <2>1 DEF PrepareStructured, Send, Shown, Level, Triggered, should_hard_stop
  <2>2. CASE Triggered(level) /\ ts = <<>>
    BY <1>1, <1>2, <2>2 DEF PrepareStructured, Shown
  <2>3. CASE Triggered(level) /\ ts # <<>>
    <3>1. PICK pruned \in Level :
            IF ~Triggered(pruned) THEN Send(Pruned(ts), pruned)
            ELSE IF ~cfg.seeded THEN Exhaust
            ELSE pc' = "compact" /\ UNCHANGED request
      BY <1>2, <2>3 DEF PrepareStructured
    <3>2. CASE ~Triggered(pruned)
      BY <3>1, <3>2 DEF Send, Shown, Level, Triggered, should_hard_stop
    <3>3. CASE Triggered(pruned)
      BY <3>1, <3>3 DEF Exhaust, Ended
    <3> QED BY <3>2, <3>3
  <2> QED BY <2>1, <2>2, <2>3
<1>3. Whole(ts) \in Shown(ts) /\ Window(ts) \in Shown(ts) /\ Pruned(ts) \in Shown(ts)
  BY DEF Shown
<1> QED BY <1>1, <1>2, <1>3

\* Whatever is shown, a stale turn is shown whole or as stale.
LEMMA ShownTurns ==
    ASSUME NEW ts,
           \A i, j \in DOMAIN ts : ts[i].step = ts[j].step => i = j,
           NEW shown \in Shown(ts)
    PROVE  /\ DOMAIN shown \subseteq Steps(ts)
           /\ \A i \in DOMAIN ts :
                 ts[i].status = "stale" /\ ts[i].step \in DOMAIN shown
                    => ShownAsStale(ts, shown, ts[i])
<1>1. CASE shown = Whole(ts)
  BY <1>1 DEF Whole, ShownAsStale
<1>2. CASE shown = Window(ts)
  BY <1>2 DEF Window, Recent, Steps, ShownAsStale
<1>3. CASE shown = Pruned(ts)
  <2>1. ASSUME NEW i \in DOMAIN ts
        PROVE  TurnOf(ts, ts[i].step) = ts[i]
    <3>1. \A j \in DOMAIN ts : ts[j].step = ts[i].step <=> j = i
      BY <2>1
    <3>2. (CHOOSE j \in DOMAIN ts : ts[j].step = ts[i].step) = i
      BY <3>1
    <3> QED BY <3>2 DEF TurnOf
  <2>2. ASSUME NEW i \in DOMAIN ts, ts[i].status = "stale"
        PROVE  ShownAsStale(ts, Pruned(ts), ts[i])
    <3>1. ts[i].step \in Steps(ts)
      BY DEF Steps
    <3>2. TurnOf(ts, ts[i].step) = ts[i]
      BY <2>1
    <3>3. Pruned(ts)[ts[i].step] =
            IF ts[i].step \in Recent(ts) \/ ts[i].control THEN "full" ELSE "stale"
      BY <2>2, <3>1, <3>2 DEF Pruned
    <3> QED BY <3>3 DEF ShownAsStale
  <2>3. DOMAIN Pruned(ts) = Steps(ts)
    BY DEF Pruned
  <2> QED BY <1>3, <2>2, <2>3
<1> QED BY <1>1, <1>2, <1>3 DEF Shown

LEMMA PrepareStep ==
    ASSUME ContextInv, Prepare
    PROVE  ContextInv'
<1> USE DEF ContextInv
<1>1. /\ pc = "ready" /\ tracker' = Refreshed /\ turns' = Marked(Refreshed)
      /\ UNCHANGED workspace /\ Log = turns
      /\ UNCHANGED <<active, handoff, segment, cfg, step, calls, retries, draft, saved,
                     records>>
  BY DEF Prepare, Log, session, disk
<1>2. PICK level \in Level :
        \/ cfg.mode = "full_history" /\ SendOrStop(Whole(turns'), level)
        \/ cfg.mode = "recent_window" /\ SendOrStop(Window(turns'), level)
        \/ cfg.mode = "deterministic_prune" /\ SendOrStop(Pruned(turns'), level)
        \/ cfg.mode = "structured_reset" /\ PrepareStructured(turns', level)
  BY DEF Prepare
<1>3. \/ pc' \in {"compact"} \cup Ended /\ request' = request
      \/ /\ pc' = "request"
         /\ \E sent \in Level, shown \in Shown(turns') :
               /\ request' = [shown |-> shown, level |-> sent]
               /\ ~should_hard_stop(sent)
               /\ Triggered(sent) => cfg.mode # "structured_reset" \/ turns' = <<>>
  <2> DEFINE ts == turns'
  <2> HIDE DEF ts
  <2> QED BY <1>2, PrepareOutcome DEF ts
<1>4. /\ pc' # "turn" /\ pc' \notin {"save", "close", "open"} /\ Log' = turns'
      /\ pc' \in {"request", "compact"} \cup Ended
  BY <1>3 DEF Ended, Log
<1>5. /\ turns' \in Seq(Turn) /\ DOMAIN turns' = DOMAIN turns
      /\ \A i \in DOMAIN turns :
            /\ turns'[i].step = turns[i].step
            /\ turns'[i].results = turns[i].results
            /\ turns'[i].status = "stale" <=> turns[i].step \in Refreshed.stale
  <2>1. tracker.stale \subseteq Refreshed.stale
    BY DEF Refreshed
  <2> QED BY <1>1, <2>1, MarkedTurns
<1>6. /\ Places(turns') = Places(turns)
      /\ \A k \in Places(turns) : At(turns', k) = At(turns, k)
  BY <1>5, SamePlaces
<1>7. WorkspaceInv'
  BY <1>1, <1>4 DEF WorkspaceInv, workspace
<1>8. LogInv'
  <2>1. /\ active = None /\ IsFiniteSet(Places(turns))
        /\ \A i \in DOMAIN turns :
              /\ turns[i].results # <<>> /\ turns[i].step \in 1..step
              /\ \A j \in DOMAIN turns : i < j => turns[i].step < turns[j].step
    BY <1>1 DEF LogInv
  <2> QED BY <1>1, <1>4, <1>5, <1>6, <2>1 DEF LogInv
<1>9. ObservationInv'
  BY <1>1, <1>4, <1>6, SameObservations
<1>10. TrackerInv'
  <2>1. code_epoch \in Nat
    BY DEF WorkspaceInv
  <2>2. /\ Refreshed.epoch \in Nat /\ IsFiniteSet(LogWrites)
        /\ ~withheld => code_epoch <= Refreshed.epoch
    BY <1>1, <2>1, RefreshedEpoch
  <2>3. LogWrites' = LogWrites /\ Cardinality(LogWrites) \in Nat
    BY <1>1, <1>4, <1>6, <2>2, FS_CardinalityType DEF LogWrites
  <2>4. Refreshed.stale \cup Refreshed.superseded \subseteq 1..step
    <3>1. \A k \in Places(turns) : turns[k[1]].step \in 1..step
      BY <1>1, PlaceParts DEF LogInv
    <3> QED BY <3>1 DEF Refreshed, StepsAt, TrackerInv
  <2>5. \A i \in DOMAIN turns : turns[i].step \in Refreshed.stale => Obsolete(turns[i])
    BY <1>1, FoundIsObsolete
  <2>6. \A i \in DOMAIN turns : Outdated(turns[i]) => turns[i].step \in Refreshed.stale
    BY <1>1, OutdatedIsFound
  <2>7. \A i \in DOMAIN turns : /\ Obsolete(turns[i])' <=> Obsolete(turns[i])
                                /\ Outdated(turns[i])' <=> Outdated(turns[i])
    BY <1>1, <1>5 DEF workspace, Obsolete, Outdated, OldRead, OldVerification, Verified
  <2>8. \A i \in DOMAIN Log' :
          /\ Log'[i].step \in tracker'.stale => Obsolete(Log[i])'
          /\ Log'[i].status = "stale" => Log'[i].step \in tracker'.stale
    BY <1>1, <1>4, <1>5, <2>5, <2>7
  <2>9. \A i \in DOMAIN turns' : Outdated(turns[i])' => turns'[i].status = "stale"
    BY <1>5, <2>6, <2>7
  <2>10. ~withheld' => /\ code_epoch' <= tracker'.epoch
                       /\ code_epoch' <= tracker'.epoch + Cardinality(LogWrites')
    BY <1>1, <2>1, <2>2, <2>3 DEF workspace
  <2> QED BY <1>1, <2>2, <2>4, <2>8, <2>9, <2>10 DEF TrackerInv
<1>11. RequestInv'
  <2>1. CASE pc' # "request"
    BY <1>1, <1>3, <2>1 DEF RequestInv
  <2>2. CASE pc' = "request"
    <3>1. PICK sent \in Level, shown \in Shown(turns') :
            /\ request' = [shown |-> shown, level |-> sent]
            /\ ~should_hard_stop(sent)
            /\ Triggered(sent) => cfg.mode # "structured_reset" \/ turns' = <<>>
      BY <1>3, <2>2 DEF Ended
    <3>2. \A i, j \in DOMAIN turns' : turns'[i].step = turns'[j].step => i = j
      BY <1>1, <1>5, StepsAreDistinct
    <3>3. /\ DOMAIN shown \subseteq Steps(turns')
          /\ \A i \in DOMAIN turns' :
                turns'[i].status = "stale" /\ turns'[i].step \in DOMAIN shown
                   => ShownAsStale(turns', shown, turns'[i])
      <4> DEFINE ts == turns'
      <4> HIDE DEF ts
      <4> QED BY <3>2, ShownTurns DEF ts
    <3>4. request'.shown = shown /\ request'.level = sent
      BY <3>1
    <3>5. /\ request'.level \in Level /\ ~should_hard_stop(request'.level)
          /\ Triggered(request'.level) => cfg.mode # "structured_reset" \/ turns' = <<>>
      BY <3>1, <3>4
    <3>6. DOMAIN request'.shown \subseteq Steps(turns')
      BY <3>3, <3>4
    <3>7. \A i \in DOMAIN turns' :
             turns'[i].status = "stale" /\ turns'[i].step \in DOMAIN request'.shown
                => ShownAsStale(turns', request'.shown, turns'[i])
      BY <3>3, <3>4
    <3>8. NeverOverHardStop'
      BY <1>1, <3>5 DEF NeverOverHardStop
    <3>9. cfg' = cfg
      BY <1>1
    <3> QED BY <2>2, <3>5, <3>6, <3>7, <3>8, <3>9
            DEF RequestInv, Steps, ShownAsStale, Recent
  <2> QED BY <2>1, <2>2
<1>12. SegmentInv'
  BY <1>1, <1>4 DEF SegmentInv
<1>13. HandoffIsTrue'
  BY <1>1, HandoffsStayTrue DEF Deterministic, workspace
<1> QED BY <1>7, <1>8, <1>9, <1>10, <1>11, <1>12, <1>13

-----------------------------------------------------------------------------
LEMMA ContextStep ==
    ASSUME ContextInv, [Next]_vars
    PROVE  ContextInv'
<1>1. WorkspaceInv /\ LogInv
  BY DEF ContextInv
<1>2. CASE Prepare
  BY <1>2, PrepareStep
<1>3. CASE Compact
  BY <1>3, CompactStep
<1>4. CASE SaveHandoff
  BY <1>4, SaveHandoffStep
<1>5. CASE CloseSegment
  BY <1>5, CloseSegmentStep
<1>6. CASE OpenSegment
  BY <1>6, OpenSegmentStep
<1>7. CASE Retry
  BY <1>7, RetryStep
<1>8. CASE BeginTurn
  BY <1>8, BeginTurnStep
<1>9. CASE FinalizeTurn
  BY <1>9, FinalizeTurnStep
<1>10. CASE Control \/ ToolFails
  BY <1>1, <1>10, OtherCalls, CallStep
<1>11. ASSUME NEW p \in Paths, ReadFile(p)
       PROVE  ContextInv'
  BY <1>1, <1>11, ReadFileCalls, CallStep
<1>12. ASSUME NEW p \in Paths, WriteSame(p)
       PROVE  ContextInv'
  BY <1>1, <1>12, WriteSameCalls, CallStep
<1>17. ASSUME NEW p \in Paths, WriteFails(p)
       PROVE  ContextInv'
  BY <1>1, <1>17, WriteFailsCalls, CallStep
<1>13. ASSUME NEW p \in Paths, NEW visible \in BOOLEAN, WriteFile(p, visible)
       PROVE  ContextInv'
  BY <1>1, <1>13, WriteFileCalls, CallStep
<1>14. ASSUME NEW c \in Commands, BashRefused(c)
       PROVE  ContextInv'
  BY <1>1, <1>14, BashRefusedCalls, CallStep
<1>15. ASSUME NEW c \in Commands, NEW ok \in BOOLEAN, NEW changed \in SUBSET Paths,
              Bash(c, ok, changed)
       PROVE  ContextInv'
  BY <1>1, <1>15, BashCalls, CallStep
<1>16. CASE UNCHANGED vars
  <2>1. /\ UNCHANGED <<workspace, turns, active, handoff, segment, tracker, cfg, pc, step,
                       calls, retries, request, draft, saved, records>>
        /\ Log' = Log
    BY <1>16 DEF vars, buffer, session, disk, Log
  <2>2. WorkspaceInv' /\ LogInv'
    BY <2>1 DEF ContextInv, WorkspaceInv, LogInv, workspace
  <2>3. ObservationInv'
    BY <2>1, SameObservations DEF ContextInv
  <2>4. TrackerInv'
    BY <2>1, SameTracker DEF ContextInv, TrackerInv
  <2>5. RequestInv' /\ SegmentInv'
    BY <2>1 DEF ContextInv, RequestInv, SegmentInv, NeverOverHardStop, Steps, ShownAsStale,
                Recent
  <2>6. HandoffIsTrue'
    BY <2>1, HandoffsStayTrue DEF ContextInv, Deterministic, workspace
  <2> QED BY <2>2, <2>3, <2>4, <2>5, <2>6 DEF ContextInv
<1> QED BY <1>2, <1>3, <1>4, <1>5, <1>6, <1>7, <1>8, <1>9, <1>10, <1>11, <1>12, <1>13,
           <1>14, <1>15, <1>16, <1>17 DEF Next

LEMMA AlwaysContextInv == Spec => []ContextInv
BY InitInv, ContextStep, PTL DEF Spec

-----------------------------------------------------------------------------
\* The theorems.

\* The variables have the values of the code's records, in sessions of any
\* length: the steps of the turns grow, what is shown are turns of the buffer,
\* and the buffer belongs to the segment its handoff names.
THEOREM ContextTypeCorrect == Spec => []TypeOK
<1>1. ContextInv => TypeOK
  <2> SUFFICES ASSUME ContextInv PROVE TypeOK
    OBVIOUS
  <2>1. ASSUME NEW i \in DOMAIN turns
        PROVE  /\ turns[i].step \in 1..step /\ turns[i].results # <<>>
               /\ \A j \in DOMAIN turns : i < j => turns[i].step < turns[j].step
    <3>1. turns \in Seq(Turn) /\ turns[i].results # <<>>
      BY DEF ContextInv, LogInv
    <3>2. DOMAIN turns \subseteq DOMAIN Log /\ \A j \in DOMAIN turns : Log[j] = turns[j]
      BY <3>1 DEF Log
    <3> QED BY <3>1, <3>2 DEF ContextInv, LogInv
  <2>2. turns \in Seq(Turn) /\ IF pc = "turn" THEN active \in Turn ELSE active = None
    BY DEF ContextInv, LogInv
  <2>3. IF pc = "request"
        THEN request.level \in Level /\ DOMAIN request.shown \subseteq Steps(turns)
        ELSE request = None
    BY DEF ContextInv, RequestInv
  <2>4. /\ tracker.epoch \in Nat
        /\ tracker.stale \cup tracker.superseded \subseteq 1..step
    BY DEF ContextInv, TrackerInv
  <2>5. /\ IF segment = 1 THEN handoff = None ELSE handoff.target = segment
        /\ pc \in {"save", "close"} => draft.source = segment
    BY DEF ContextInv, SegmentInv
  <2> QED BY <2>1, <2>2, <2>3, <2>4, <2>5 DEF ContextInv, WorkspaceInv, TypeOK
<1> QED BY <1>1, AlwaysContextInv, PTL

\* A turn with an observation that a later write made obsolete is marked stale,
\* and a request that shortens turns shows it as stale or leaves it in full as a
\* recent one or one of a control tool, for any files, settings and number of
\* resets (stale_tracker.py, refresh; pruner.py).
THEOREM StaleTurnsAreMarked == Spec => []StaleIsMarked
<1>1. ContextInv => StaleIsMarked
  <2> SUFFICES ASSUME ContextInv, pc = "request", NEW i \in DOMAIN turns, Outdated(turns[i])
               PROVE  /\ turns[i].status = "stale"
                      /\ turns[i].step \in DOMAIN request.shown =>
                            ShownAsStale(turns, request.shown, turns[i])
    BY DEF StaleIsMarked, Outdated
  <2>1. turns[i].status = "stale"
    BY DEF ContextInv, TrackerInv
  <2> QED BY <2>1 DEF ContextInv, RequestInv
<1> QED BY <1>1, AlwaysContextInv, PTL

\* A turn that is called stale has a result that is, however often the tracker
\* looked at it and whatever was reset in between (stale_tracker.py, refresh).
THEOREM FreshTurnsAreKept == Spec => []FreshIsKept
<1>1. ContextInv => FreshIsKept
  <2> SUFFICES ASSUME ContextInv, NEW i \in DOMAIN turns, turns[i].status = "stale"
               PROVE  Obsolete(turns[i])
    BY DEF FreshIsKept, Obsolete
  <2>1. i \in DOMAIN Log /\ Log[i] = turns[i]
    BY DEF Log, ContextInv, LogInv
  <2> QED BY <2>1 DEF ContextInv, TrackerInv
<1> QED BY <1>1, AlwaysContextInv, PTL

\* No request that measures over the hard stop is sent (lifecycle.py, prepare).
THEOREM HardStopHolds == Spec => []NeverOverHardStop
<1>1. ContextInv => NeverOverHardStop
  BY DEF ContextInv, RequestInv, NeverOverHardStop
<1> QED BY <1>1, AlwaysContextInv, PTL

\* The hashes that a handoff names are those of the files or, after a write that
\* found nothing to change, of their text with LF for line ends; no write that the
\* epoch counts came after a verification it hands on as valid, whatever resets
\* came before it (handoff.py, deterministic_handoff).
THEOREM HandoffsAreTrue == Spec => []HandoffIsTrue
<1>1. ContextInv => HandoffIsTrue
  BY DEF ContextInv
<1> QED BY <1>1, AlwaysContextInv, PTL

\* The agent continues only from a handoff on disk, and the log of segments
\* tells of every reset in order (lifecycle.py, _perform_structured_reset).
THEOREM SegmentsAreRecorded == Spec => []SegmentsHaveHandoffs
<1>1. ContextInv => SegmentsHaveHandoffs
  <2> SUFFICES ASSUME ContextInv PROVE SegmentsHaveHandoffs
    OBVIOUS
  <2>1. handoff # None /\ cfg.stored => handoff.target \in saved
    BY DEF ContextInv, SegmentInv
  <2>2. \A k \in DOMAIN records :
          /\ records[k].handoff \in saved
          /\ records[k].event = IF k % 2 = 1 THEN "end" ELSE "start"
          /\ records[k].segment = (k + 2) \div 2
          /\ records[k].handoff = (k + 1) \div 2 + 1
    BY DEF ContextInv, SegmentInv
  <2> QED BY <2>1, <2>2 DEF SegmentsHaveHandoffs
<1> QED BY <1>1, AlwaysContextInv, PTL
=============================================================================
