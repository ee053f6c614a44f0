--------------------------- MODULE KnowledgeProofs ---------------------------
(***************************************************************************)
(* Theorems of Knowledge, for all tasks, lessons, settings and stores that *)
(* sessions may leave.                                                     *)
(*                                                                         *)
(* A process that counts a use or a verdict, merges an episode or extends  *)
(* a derivation holds a copy of a record and will write it back, whatever  *)
(* happened to the record meanwhile.  So the invariant speaks of two       *)
(* stores: the one on disk, and the one there will be when the copy is     *)
(* back.  What is demanded of both is Sound, an operator of the store      *)
(* alone, and the lemmas of the first part say which changes of a store    *)
(* keep it.                                                                *)
(***************************************************************************)
EXTENDS Knowledge, FiniteSetTheorems, TLAPS

\* What a store must be, when n evidence packs were built, saved are the saved
\* episodes, by says which tasks every skill helped in and gone was withdrawn.
Kept(ms, ss, gone) ==
    \A item \in gone :
        \/ \E m \in DOMAIN ms : item = Memory(m) /\ ms[m].status = "invalidated"
        \/ \E s \in DOMAIN ss : item = Skill(s) /\ ss[s].status = "deprecated"

Sound(ms, ss, n, saved, by, gone) ==
    /\ Typed(ms, ss, 1..n)
    /\ Earned(ss, by)
    /\ Traceable(ms, ss, saved)
    /\ Agree(ms, ss)
    /\ Kept(ms, ss, gone)

Todo(ms, ss) == [item : Existing(ms, ss), type : UseType]

\* The process holds a copy that it will write back.
Holding == copy # <<>> /\ ~cfg.frozen

\* The store with the copy back.
BackMemories ==
    IF copy[1].kind = "memory"
    THEN [memories EXCEPT ![copy[1].id] = copy[2]] ELSE memories
BackSkills ==
    IF copy[1].kind = "memory"
    THEN skills ELSE [skills EXCEPT ![copy[1].id] = copy[2]]

StoreInv ==
    /\ Sound(memories, skills, packs, episodes, earned, withdrawn)
    /\ Holding => Sound(BackMemories, BackSkills, packs, episodes, earned, withdrawn)

Row == {"exposeRow", "attributeRow"}
Listed == {"expose", "attribute", "utility"}
Reflecting == {"reflect", "persist", "merge", "create"}
Persisting == Reflecting \ {"reflect"}
Inducing == {"induce", "sources", "validate", "search", "upsert", "add"}
AfterWork == {"attribute", "attributeRow", "utility", "derive", "query", "save"}
             \cup Reflecting \cup Inducing

\* Where the process is and what it knows there.
ControlInv ==
    /\ \A u \in uses \cup telemetry :
          u.item \in Item /\ u.task \in Tasks /\ u.type \in UseType
    /\ episodes \subseteq 1..packs
    /\ packs \in 0..MaxPacks /\ (pc \in {"expose", "exposeRow"} => packs < MaxPacks)
    /\ sessions \in [Projects -> 0..packs]
    /\ pc \in AfterWork => \A p \in Projects : sessions[p] < packs
    /\ tree \in [Projects -> Fingerprints]
    /\ earned \in [1..MaxSkills -> SUBSET Tasks]
    /\ cfg \in Configs /\ crashes \in 0..MaxCrashes
    /\ pc \in {"off", "idle", "expose", "exposeRow"} \cup AfterWork
    /\ task \in Tasks \cup {None} /\ (pc \notin {"off", "idle"} => task \in Tasks)
    /\ outcome \in Outcomes \cup {None} /\ (pc \in AfterWork => outcome \in Outcomes)
    /\ referenced \subseteq exposed /\ exposed \subseteq Existing(memories, skills)
    /\ pc \notin AfterWork => referenced = {}
    /\ sources \cup activeThen \subseteq DOMAIN memories
    /\ todo \in Seq(Todo(memories, skills))

\* Which record is in hand at which place.
HandInv ==
    /\ pc \in Row => todo # <<>> /\ copy = <<>>
    /\ copy # <<>> => /\ pc \in Listed \cup {"merge", "upsert"}
                      /\ copy[1] \in Existing(memories, skills)
                      /\ pc \in Listed => todo # <<>> /\ copy[1] = Head(todo).item
    /\ pc = "merge" => copy # <<>> /\ copy[1].kind = "memory"
    /\ pc = "upsert" => copy # <<>> /\ copy[1].kind = "skill"

\* A record that is made and not saved may be saved: while it waits, records are
\* withdrawn, but none becomes active and no skill comes to life.
NewMemoryInv(r) ==
    /\ r \in MemoryRecord(1..packs) /\ r.count = Unused
    /\ SaveAll => r.episodes \subseteq episodes
    /\ r.status = "active" => find_conflicts(memories, r.lesson) = {}
    /\ pc # "merge" => Len(memories) < MaxMemories
    /\ pc = "create" => find_duplicate_memory(memories, r.lesson) = {}

NewSkillInv(r) ==
    /\ r \in SkillRecord /\ r.status = "validated" /\ r.tasks = {task} /\ r.count = Unused
    /\ r.sources # {} /\ Len(skills) < MaxSkills
    /\ Active(memories) \subseteq activeThen
    /\ pc \notin {"sources", "validate"} /\ r.scope = "portable" => r.sources \subseteq activeThen
    /\ pc = "add" => find_skill_by_derivation(skills, r.sources) = {}

MadeInv ==
    /\ made # <<>> => /\ pc \in AfterWork
                      /\ made[1] \in MemoryRecord(1..packs) \cup SkillRecord
    /\ pc \in Persisting => made = <<made[1]>> /\ NewMemoryInv(made[1])
    /\ pc \in Inducing \ {"induce"} => made = <<made[1]>> /\ NewSkillInv(made[1])

\* What the consolidation relies on.
ConsolidationInv ==
    /\ pc \in {"attribute", "attributeRow", "utility"} /\ Attribution(outcome) = "helpful"
          => \A s \in DOMAIN skills : Skill(s) \in referenced => task \in earned[s]
    /\ pc = "utility" => \A k \in DOMAIN todo :
          /\ todo[k].item \in {i \in referenced : i.kind = "skill"}
          /\ todo[k].type = Attribution(outcome)
    /\ pc = "reflect" /\ SaveAll => packs \in episodes
    /\ refused = FALSE
    /\ cfg.frozen => /\ pc \notin Reflecting \cup Inducing
                     /\ pc = "utility" => todo = <<>>

KnowledgeInv == StoreInv /\ ControlInv /\ HandInv /\ MadeInv /\ ConsolidationInv

-----------------------------------------------------------------------------
\* Changes of a store that keep it sound.

\* Counters may change, and memories and skills may be withdrawn.
LEMMA WithdrawnSound ==
    ASSUME NEW ms, NEW ss, NEW n, NEW saved, NEW by, NEW gone, NEW ms2, NEW ss2,
           Sound(ms, ss, n, saved, by, gone),
           Typed(ms2, ss2, 1..n),
           DOMAIN ms2 = DOMAIN ms, DOMAIN ss2 = DOMAIN ss,
           \A m \in DOMAIN ms :
              /\ ms2[m].lesson = ms[m].lesson /\ ms2[m].episodes = ms[m].episodes
              /\ ms2[m].status \in {ms[m].status, "invalidated"},
           \A s \in DOMAIN ss :
              /\ ss2[s].tasks = ss[s].tasks /\ ss2[s].scope = ss[s].scope
              /\ ss2[s].sources = ss[s].sources
              /\ ss2[s].status \in {ss[s].status, "deprecated"}
    PROVE  Sound(ms2, ss2, n, saved, by, gone)
<1>1. Earned(ss2, by)
  BY DEF Sound, Earned
<1>2. Traceable(ms2, ss2, saved)
  BY DEF Sound, Traceable
<1>3. Agree(ms2, ss2)
  <2>1. Active(ms2) \subseteq Active(ms)
    BY DEF Active
  <2>2. \A s \in DOMAIN ss : ss2[s].status \in Live => ss[s].status \in Live
    BY DEF Live
  <2> QED BY <2>1, <2>2 DEF Sound, Agree, Active
<1>4. Kept(ms2, ss2, gone)
  BY DEF Sound, Kept
<1> QED BY <1>1, <1>2, <1>3, <1>4 DEF Sound

\* More is saved, earned and counted in the history.
LEMMA GrownSound ==
    ASSUME NEW ms, NEW ss, NEW n, NEW saved, NEW by, NEW gone,
           NEW n2, NEW saved2, NEW by2,
           Sound(ms, ss, n, saved, by, gone),
           n \in Nat, n2 \in Nat, n <= n2, saved \subseteq saved2,
           Len(ss) <= MaxSkills => \A s \in DOMAIN ss : by[s] \subseteq by2[s] /\ by2[s] \subseteq Tasks
    PROVE  Sound(ms, ss, n2, saved2, by2, gone)
<1>1. Typed(ms, ss, 1..n2)
  <2>1. MemoryRecord(1..n) \subseteq MemoryRecord(1..n2)
    BY DEF MemoryRecord
  <2> QED BY <2>1 DEF Sound, Typed
<1>2. Earned(ss, by2)
  <2>1. Len(ss) <= MaxSkills
    BY DEF Sound, Typed
  <2>2. ASSUME NEW s \in DOMAIN ss
        PROVE  Cardinality(by[s]) >= MinTasks => Cardinality(by2[s]) >= MinTasks
    <3>1. IsFiniteSet(by2[s]) /\ IsFiniteSet(by[s])
      BY <2>1, <2>2, KnowledgeStoreAssumption, FS_Subset
    <3>2. Cardinality(by[s]) <= Cardinality(by2[s])
      BY <2>1, <2>2, <3>1, FS_Subset
    <3>3. Cardinality(by[s]) \in Nat /\ Cardinality(by2[s]) \in Nat
      BY <3>1, FS_CardinalityType
    <3> QED BY <3>2, <3>3, KnowledgeStoreAssumption
  <2> QED BY <2>1, <2>2 DEF Sound, Earned
<1>3. Traceable(ms, ss, saved2)
  BY DEF Sound, Traceable
<1> QED BY <1>1, <1>2, <1>3 DEF Sound

LEMMA GoneSound ==
    ASSUME NEW ms, NEW ss, NEW n, NEW saved, NEW by, NEW gone, NEW item,
           Sound(ms, ss, n, saved, by, gone), Kept(ms, ss, {item})
    PROVE  Sound(ms, ss, n, saved, by, gone \cup {item})
BY DEF Sound, Kept

LEMMA WiderSeq ==
    ASSUME NEW S, NEW T, S \subseteq T
    PROVE  Seq(S) \subseteq Seq(T)
OBVIOUS

LEMMA SeqElement ==
    ASSUME NEW S, NEW q \in Seq(S)
    PROVE  \A k \in DOMAIN q : q[k] \in S
OBVIOUS

\* A record of a sequence is replaced by another.
LEMMA ReplaceRecord ==
    ASSUME NEW S, NEW q \in Seq(S), NEW i \in DOMAIN q, NEW r \in S
    PROVE  /\ [q EXCEPT ![i] = r] \in Seq(S)
           /\ Len([q EXCEPT ![i] = r]) = Len(q)
           /\ DOMAIN [q EXCEPT ![i] = r] = DOMAIN q
OBVIOUS

\* A memory is invalidated, a skill deprecated.
LEMMA InvalidatedSound ==
    ASSUME NEW ms, NEW ss, NEW n, NEW saved, NEW by, NEW gone, NEW m \in DOMAIN ms,
           Sound(ms, ss, n, saved, by, gone)
    PROVE  /\ Sound([ms EXCEPT ![m].status = "invalidated"], ss, n, saved, by,
                    gone \cup {Memory(m)})
           /\ DOMAIN [ms EXCEPT ![m].status = "invalidated"] = DOMAIN ms
<1> DEFINE r == [ms[m] EXCEPT !.status = "invalidated"]
           new == [ms EXCEPT ![m] = r]
<1>1. ms \in Seq(MemoryRecord(1..n)) /\ ms[m] \in MemoryRecord(1..n)
  BY DEF Sound, Typed
<1>2. /\ r \in MemoryRecord(1..n) /\ r.status = "invalidated"
      /\ r.lesson = ms[m].lesson /\ r.episodes = ms[m].episodes
  BY <1>1 DEF MemoryRecord, MemoryStatus
<1> HIDE DEF r
<1>3. /\ new \in Seq(MemoryRecord(1..n)) /\ Len(new) = Len(ms)
      /\ DOMAIN new = DOMAIN ms /\ new[m] = r
      /\ \A l \in DOMAIN ms : l # m => new[l] = ms[l]
  BY <1>1, <1>2, ReplaceRecord
<1>4. [ms EXCEPT ![m].status = "invalidated"] = new
  BY DEF r
<1> HIDE DEF new
<1>5. Typed(new, ss, 1..n)
  BY <1>3 DEF Sound, Typed
<1>6. \A l \in DOMAIN ms :
        /\ new[l].lesson = ms[l].lesson /\ new[l].episodes = ms[l].episodes
        /\ new[l].status \in {ms[l].status, "invalidated"}
  BY <1>2, <1>3
<1>7. \A s \in DOMAIN ss :
        /\ ss[s].tasks = ss[s].tasks /\ ss[s].scope = ss[s].scope
        /\ ss[s].sources = ss[s].sources
        /\ ss[s].status \in {ss[s].status, "deprecated"}
  OBVIOUS
<1>8. Sound(new, ss, n, saved, by, gone)
  BY <1>3, <1>5, <1>6, <1>7, WithdrawnSound
<1>9. Kept(new, ss, {Memory(m)})
  BY <1>2, <1>3 DEF Kept
<1> QED BY <1>3, <1>4, <1>8, <1>9, GoneSound

LEMMA DeprecatedSound ==
    ASSUME NEW ms, NEW ss, NEW n, NEW saved, NEW by, NEW gone, NEW s \in DOMAIN ss,
           Sound(ms, ss, n, saved, by, gone)
    PROVE  /\ Sound(ms, [ss EXCEPT ![s].status = "deprecated"], n, saved, by,
                    gone \cup {Skill(s)})
           /\ DOMAIN [ss EXCEPT ![s].status = "deprecated"] = DOMAIN ss
<1> DEFINE r == [ss[s] EXCEPT !.status = "deprecated"]
           new == [ss EXCEPT ![s] = r]
<1>1. ss \in Seq(SkillRecord) /\ ss[s] \in SkillRecord
  BY DEF Sound, Typed
<1>2. /\ r \in SkillRecord /\ r.status = "deprecated" /\ r.tasks = ss[s].tasks
      /\ r.scope = ss[s].scope /\ r.sources = ss[s].sources
  BY <1>1 DEF SkillRecord, SkillStatus
<1> HIDE DEF r
<1>3. /\ new \in Seq(SkillRecord) /\ Len(new) = Len(ss)
      /\ DOMAIN new = DOMAIN ss /\ new[s] = r
      /\ \A l \in DOMAIN ss : l # s => new[l] = ss[l]
  BY <1>1, <1>2, ReplaceRecord
<1>4. [ss EXCEPT ![s].status = "deprecated"] = new
  BY DEF r
<1> HIDE DEF new
<1>5. Typed(ms, new, 1..n)
  BY <1>3 DEF Sound, Typed
<1>6. \A l \in DOMAIN ss :
        /\ new[l].tasks = ss[l].tasks /\ new[l].scope = ss[l].scope
        /\ new[l].sources = ss[l].sources
        /\ new[l].status \in {ss[l].status, "deprecated"}
  BY <1>2, <1>3
<1>7. \A m \in DOMAIN ms :
        /\ ms[m].lesson = ms[m].lesson /\ ms[m].episodes = ms[m].episodes
        /\ ms[m].status \in {ms[m].status, "invalidated"}
  OBVIOUS
<1>8. Sound(ms, new, n, saved, by, gone)
  BY <1>3, <1>5, <1>6, <1>7, WithdrawnSound
<1>9. Kept(ms, new, {Skill(s)})
  BY <1>2, <1>3 DEF Kept
<1> QED BY <1>3, <1>4, <1>8, <1>9, GoneSound

LEMMA LessGone ==
    ASSUME NEW ms, NEW ss, NEW n, NEW saved, NEW by, NEW gone, NEW gone2,
           Sound(ms, ss, n, saved, by, gone), gone2 \subseteq gone
    PROVE  Sound(ms, ss, n, saved, by, gone2)
BY DEF Sound, Kept

\* A new memory is active only if it agrees with those that are.
LEMMA NewMemorySound ==
    ASSUME NEW ms, NEW ss, NEW n, NEW saved, NEW by, NEW gone, NEW r,
           Sound(ms, ss, n, saved, by, gone),
           r \in MemoryRecord(1..n), Len(ms) < MaxMemories,
           SaveAll => r.episodes \subseteq saved,
           r.status = "active" => \A m \in Active(ms) :
              r.lesson # ms[m].lesson /\ ~Contradicts(r.lesson, ms[m].lesson)
    PROVE  Sound(Append(ms, r), ss, n, saved, by, gone)
<1> DEFINE new == Append(ms, r)
           k == Len(ms) + 1
<1>1. ms \in Seq(MemoryRecord(1..n))
  BY DEF Sound, Typed
<1>2. /\ new \in Seq(MemoryRecord(1..n)) /\ Len(new) = k
      /\ DOMAIN new = DOMAIN ms \cup {k} /\ k \notin DOMAIN ms
      /\ new[k] = r /\ \A m \in DOMAIN ms : new[m] = ms[m]
      /\ \A m \in DOMAIN new : new[m] \in MemoryRecord(1..n)
  BY <1>1
<1> HIDE DEF new, k
<1>3. Typed(new, ss, 1..n)
  <2>1. k <= MaxMemories
    BY <1>1, KnowledgeStoreAssumption DEF k
  <2> QED BY <1>2, <2>1 DEF Sound, Typed
<1>4. Traceable(new, ss, saved)
  BY <1>2 DEF Sound, Traceable
<1>5. Agree(new, ss)
  <2>1. \A m \in DOMAIN new : new[m].lesson \in Lessons
    BY <1>2 DEF MemoryRecord
  <2>2. ASSUME NEW m \in Active(new), NEW l \in Active(new), m # l
        PROVE  /\ new[m].lesson # new[l].lesson
               /\ ~Contradicts(new[m].lesson, new[l].lesson)
    <3>1. CASE m = k
      <4>1. l \in Active(ms) /\ new[l] = ms[l]
        BY <1>2, <2>2, <3>1 DEF Active
      <4> QED BY <1>2, <2>2, <3>1, <4>1 DEF Active
    <3>2. CASE l = k
      <4>1. m \in Active(ms) /\ new[m] = ms[m]
        BY <1>2, <2>2, <3>2 DEF Active
      <4>2. new[l].lesson # new[m].lesson /\ ~Contradicts(new[l].lesson, new[m].lesson)
        BY <1>2, <2>2, <3>2, <4>1 DEF Active
      <4>3. Contradicts(new[l].lesson, new[m].lesson) = Contradicts(new[m].lesson, new[l].lesson)
        BY <2>1, <2>2, KnowledgeStoreAssumption DEF Active
      <4> QED BY <4>2, <4>3
    <3>3. CASE m # k /\ l # k
      <4>1. {m, l} \subseteq Active(ms) /\ new[m] = ms[m] /\ new[l] = ms[l]
        BY <1>2, <2>2, <3>3 DEF Active
      <4> QED BY <2>2, <4>1 DEF Sound, Agree
    <3> QED BY <3>1, <3>2, <3>3
  <2> QED BY <2>2 DEF Sound, Agree
<1>6. Kept(new, ss, gone)
  BY <1>2 DEF Sound, Kept
<1> QED BY <1>3, <1>4, <1>5, <1>6 DEF Sound, new

\* An episode supports a memory that is there already.
LEMMA MergedSound ==
    ASSUME NEW ms, NEW ss, NEW n, NEW saved, NEW by, NEW gone,
           NEW m \in DOMAIN ms, NEW E \in SUBSET (1..n),
           Sound(ms, ss, n, saved, by, gone),
           SaveAll => E \subseteq saved
    PROVE  Sound([ms EXCEPT ![m] = [ms[m] EXCEPT !.episodes = @ \cup E]],
                 ss, n, saved, by, gone)
<1> DEFINE r == [ms[m] EXCEPT !.episodes = @ \cup E]
           new == [ms EXCEPT ![m] = r]
<1>1. ms \in Seq(MemoryRecord(1..n)) /\ ms[m] \in MemoryRecord(1..n)
  BY DEF Sound, Typed
<1>2. /\ r \in MemoryRecord(1..n)
      /\ r.status = ms[m].status /\ r.lesson = ms[m].lesson
      /\ r.episodes = ms[m].episodes \cup E
  BY <1>1 DEF MemoryRecord
<1> HIDE DEF r
<1>3. /\ new \in Seq(MemoryRecord(1..n)) /\ Len(new) = Len(ms)
      /\ DOMAIN new = DOMAIN ms /\ new[m] = r
      /\ \A l \in DOMAIN ms : l # m => new[l] = ms[l]
  BY <1>1, <1>2, ReplaceRecord
<1> HIDE DEF new
<1>4. /\ Typed(new, ss, 1..n) /\ Traceable(new, ss, saved)
  BY <1>2, <1>3 DEF Sound, Typed, Traceable
<1>5. Active(new) = Active(ms) /\ \A l \in DOMAIN ms : new[l].lesson = ms[l].lesson
  BY <1>2, <1>3 DEF Active
<1>6. Agree(new, ss) /\ Kept(new, ss, gone)
  BY <1>2, <1>3, <1>5 DEF Sound, Agree, Kept, Active
<1>7. Sound(new, ss, n, saved, by, gone)
  BY <1>4, <1>6 DEF Sound
<1> QED BY <1>7 DEF new, r

\* A new skill has helped in one task, and no live skill has its derivation.
LEMMA NewSkillSound ==
    ASSUME NEW ms, NEW ss, NEW n, NEW saved, NEW by, NEW gone, NEW r, NEW t,
           Sound(ms, ss, n, saved, by, gone),
           by \in [1..MaxSkills -> SUBSET Tasks],
           r \in SkillRecord, r.status = "validated", r.tasks = {t},
           Len(ss) < MaxSkills,
           r.scope = "portable" => r.sources \subseteq DOMAIN ms,
           \A s \in DOMAIN ss : ss[s].status \in Live => ss[s].sources # r.sources
    PROVE  Sound(ms, Append(ss, r), n, saved, [by EXCEPT ![Len(ss) + 1] = {t}], gone)
<1> DEFINE new == Append(ss, r)
           k == Len(ss) + 1
           by2 == [by EXCEPT ![k] = {t}]
<1>1. ss \in Seq(SkillRecord)
  BY DEF Sound, Typed
<1>2. /\ new \in Seq(SkillRecord) /\ Len(new) = k
      /\ DOMAIN new = DOMAIN ss \cup {k} /\ k \notin DOMAIN ss
      /\ new[k] = r /\ \A s \in DOMAIN ss : new[s] = ss[s]
  BY <1>1
<1>3. by2[k] = {t} /\ \A s \in DOMAIN ss : by2[s] = by[s]
  BY <1>1, KnowledgeStoreAssumption
<1> HIDE DEF by2
<1>4. Typed(ms, new, 1..n)
  <2>1. k <= MaxSkills
    BY <1>1, KnowledgeStoreAssumption
  <2> QED BY <1>2, <2>1 DEF Sound, Typed
<1> HIDE DEF new, k
<1>5. Earned(new, by2)
  BY <1>2, <1>3 DEF Sound, Earned
<1>6. Traceable(ms, new, saved) /\ Agree(ms, new) /\ Kept(ms, new, gone)
  BY <1>2 DEF Sound, Traceable, Agree, Kept
<1> QED BY <1>4, <1>5, <1>6 DEF Sound, new, k, by2

\* What a success makes of a skill.
LEMMA SuccessTyped ==
    ASSUME NEW skill \in SkillRecord, NEW t \in Tasks, NEW f \in Fingerprints
    PROVE  LET r == record_success(skill, t, f)
           IN  /\ r \in SkillRecord
               /\ r.sources = skill.sources /\ r.scope = skill.scope
               /\ r.tasks \subseteq skill.tasks \cup {t}
               /\ \/ r.status = skill.status
                  \/ /\ skill.status = "validated" /\ r.status = "active"
                     /\ Cardinality(r.tasks) >= MinTasks
<1> DEFINE k == skill.successes + 1
           T == skill.tasks \cup {t}
           F == skill.repositories \cup {f}
           more == [skill EXCEPT !.successes = k, !.tasks = T, !.repositories = F]
           active == [more EXCEPT !.status = "active"]
<1>1. /\ more \in SkillRecord /\ more.status = skill.status
      /\ more.sources = skill.sources /\ more.scope = skill.scope
      /\ more.tasks = skill.tasks \cup {t}
  <2>1. k \in Nat /\ T \subseteq Tasks /\ F \subseteq Fingerprints
    BY DEF SkillRecord
  <2> HIDE DEF k, F
  <2> QED BY <2>1 DEF SkillRecord
<1> HIDE DEF more
<1>2. /\ active \in SkillRecord /\ active.status = "active"
      /\ active.sources = skill.sources /\ active.scope = skill.scope
      /\ active.tasks = skill.tasks \cup {t}
  BY <1>1 DEF SkillRecord, SkillStatus
<1> HIDE DEF active
<1>3. record_success(skill, t, f) =
         IF /\ more.status = "validated"
            /\ more.successes >= MinSuccesses
            /\ Cardinality(more.tasks) >= MinTasks
            /\ Cardinality(more.repositories) >= MinRepositories
         THEN active ELSE more
  BY Zenon DEF record_success, more, active, k, T, F
<1> QED BY <1>1, <1>2, <1>3

\* A skill that helped in a task it is credited with keeps its promotion earned.
LEMMA SuccessSound ==
    ASSUME NEW ms, NEW ss, NEW n, NEW saved, NEW by, NEW gone,
           Sound(ms, ss, n, saved, by, gone),
           by \in [1..MaxSkills -> SUBSET Tasks],
           NEW s \in DOMAIN ss, NEW t \in by[s], NEW f \in Fingerprints
    PROVE  Sound(ms, [ss EXCEPT ![s] = record_success(ss[s], t, f)],
                 n, saved, by, gone)
<1> DEFINE r == record_success(ss[s], t, f)
           new == [ss EXCEPT ![s] = r]
<1>1. ss \in Seq(SkillRecord) /\ s \in 1..MaxSkills
  BY KnowledgeStoreAssumption DEF Sound, Typed
<1>2. /\ r \in SkillRecord
      /\ r.sources = ss[s].sources /\ r.scope = ss[s].scope
      /\ r.tasks \subseteq ss[s].tasks \cup {t}
      /\ \/ r.status = ss[s].status
         \/ /\ ss[s].status = "validated" /\ r.status = "active"
            /\ Cardinality(r.tasks) >= MinTasks
  <2>1. ss[s] \in SkillRecord /\ t \in Tasks
    BY <1>1
  <2> QED BY <2>1, SuccessTyped
<1> HIDE DEF r
<1>3. /\ new \in Seq(SkillRecord) /\ Len(new) = Len(ss)
      /\ DOMAIN new = DOMAIN ss /\ new[s] = r
      /\ \A u \in DOMAIN ss : u # s => new[u] = ss[u]
  BY <1>1, <1>2, ReplaceRecord
<1> HIDE DEF new
<1>4. Typed(ms, new, 1..n)
  BY <1>3 DEF Sound, Typed
<1>5. r.tasks \subseteq by[s]
  BY <1>2 DEF Sound, Earned
<1>6. r.status = "active" => Cardinality(by[s]) >= MinTasks
  <2>1. CASE r.status = ss[s].status
    BY <2>1 DEF Sound, Earned
  <2>2. CASE Cardinality(r.tasks) >= MinTasks
    <3>1. IsFiniteSet(by[s])
      BY <1>1, KnowledgeStoreAssumption, FS_Subset
    <3>2. IsFiniteSet(r.tasks) /\ Cardinality(r.tasks) <= Cardinality(by[s])
      BY <1>5, <3>1, FS_Subset
    <3>3. Cardinality(r.tasks) \in Nat /\ Cardinality(by[s]) \in Nat
      BY <3>1, <3>2, FS_CardinalityType
    <3> QED BY <2>2, <3>2, <3>3, KnowledgeStoreAssumption
  <2> QED BY <1>2, <2>1, <2>2
<1>7. Earned(new, by)
  BY <1>3, <1>5, <1>6 DEF Sound, Earned
<1>8. Traceable(ms, new, saved)
  BY <1>2, <1>3 DEF Sound, Traceable
<1>9. Agree(ms, new)
  <2>1. \A u \in DOMAIN ss : /\ new[u].sources = ss[u].sources
                             /\ new[u].status \in Live => ss[u].status \in Live
    BY <1>2, <1>3 DEF Live
  <2> QED BY <1>3, <2>1 DEF Sound, Agree
<1>10. Kept(ms, new, gone)
  BY <1>2, <1>3 DEF Sound, Kept, Skill
<1> QED BY <1>4, <1>7, <1>8, <1>9, <1>10 DEF Sound, new, r

\* What harm makes of a skill.
LEMMA HarmTyped ==
    ASSUME NEW skill \in SkillRecord
    PROVE  LET r == record_harmful_use(skill)
           IN  /\ r \in SkillRecord
               /\ r.tasks = skill.tasks /\ r.scope = skill.scope
               /\ r.sources = skill.sources
               /\ r.status \in {skill.status, "deprecated"}
<1> DEFINE c == [skill.count EXCEPT !["harmful"] = @ + 1]
           k == skill.failures + 1
           x == IF skill.status = "active" THEN "deprecated" ELSE skill.status
<1>0. k \in Nat
  BY DEF SkillRecord
<1>1. c \in [Counted -> Nat] /\ x \in SkillStatus /\ x \in {skill.status, "deprecated"}
  <2>1. skill.count \in [Counted -> Nat] /\ skill.status \in SkillStatus
    BY DEF SkillRecord
  <2> QED BY <2>1 DEF Counted, SkillStatus
<1>2. record_harmful_use(skill)
        = [skill EXCEPT !.count = c, !.failures = k, !.status = x]
  BY Zenon DEF record_harmful_use
<1> HIDE DEF c, k, x
<1> QED BY <1>0, <1>1, <1>2 DEF SkillRecord

\* A counted use changes nothing but the counters.
LEMMA UsageTyped ==
    ASSUME NEW type \in UseType, NEW episode
    PROVE  /\ \A r \in MemoryRecord(episode) :
                 /\ ApplyUsage(r, type) \in MemoryRecord(episode)
                 /\ ApplyUsage(r, type).lesson = r.lesson
                 /\ ApplyUsage(r, type).episodes = r.episodes
                 /\ ApplyUsage(r, type).status = r.status
           /\ \A r \in SkillRecord :
                 /\ ApplyUsage(r, type) \in SkillRecord
                 /\ ApplyUsage(r, type).tasks = r.tasks
                 /\ ApplyUsage(r, type).scope = r.scope
                 /\ ApplyUsage(r, type).sources = r.sources
                 /\ ApplyUsage(r, type).status = r.status
<1>1. ASSUME NEW c \in [Counted -> Nat], type \in Counted
      PROVE  [c EXCEPT ![type] = @ + 1] \in [Counted -> Nat]
  BY <1>1
<1>2. ASSUME NEW r \in MemoryRecord(episode)
      PROVE  /\ ApplyUsage(r, type) \in MemoryRecord(episode)
             /\ ApplyUsage(r, type).lesson = r.lesson
             /\ ApplyUsage(r, type).episodes = r.episodes
             /\ ApplyUsage(r, type).status = r.status
  <2> DEFINE c == [r.count EXCEPT ![type] = @ + 1]
  <2>1. r.count \in [Counted -> Nat]
    BY DEF MemoryRecord
  <2>2. CASE type \in Counted
    <3>1. c \in [Counted -> Nat]
      BY <1>1, <2>1, <2>2
    <3>2. ApplyUsage(r, type) = [r EXCEPT !.count = c]
      BY <2>2, Zenon DEF ApplyUsage
    <3> HIDE DEF c
    <3> QED BY <3>1, <3>2 DEF MemoryRecord
  <2>3. CASE type \notin Counted
    BY <2>3 DEF ApplyUsage
  <2> QED BY <2>2, <2>3
<1>3. ASSUME NEW r \in SkillRecord
      PROVE  /\ ApplyUsage(r, type) \in SkillRecord
             /\ ApplyUsage(r, type).tasks = r.tasks
             /\ ApplyUsage(r, type).scope = r.scope
             /\ ApplyUsage(r, type).sources = r.sources
             /\ ApplyUsage(r, type).status = r.status
  <2> DEFINE c == [r.count EXCEPT ![type] = @ + 1]
  <2>1. r.count \in [Counted -> Nat]
    BY DEF SkillRecord
  <2>2. CASE type \in Counted
    <3>1. c \in [Counted -> Nat]
      BY <1>1, <2>1, <2>2
    <3>2. ApplyUsage(r, type) = [r EXCEPT !.count = c]
      BY <2>2, Zenon DEF ApplyUsage
    <3> HIDE DEF c
    <3> QED BY <3>1, <3>2 DEF SkillRecord
  <2>3. CASE type \notin Counted
    BY <2>3 DEF ApplyUsage
  <2> QED BY <2>2, <2>3
<1> QED BY <1>2, <1>3

\* A record of a store is replaced by one that differs in its counters.
LEMMA RecountedSound ==
    ASSUME NEW ms, NEW ss, NEW n, NEW saved, NEW by, NEW gone,
           Sound(ms, ss, n, saved, by, gone)
    PROVE  /\ \A m \in DOMAIN ms, r \in MemoryRecord(1..n) :
                 /\ r.lesson = ms[m].lesson /\ r.episodes = ms[m].episodes
                 /\ r.status = ms[m].status
                 => Sound([ms EXCEPT ![m] = r], ss, n, saved, by, gone)
           /\ \A s \in DOMAIN ss, r \in SkillRecord :
                 /\ r.tasks = ss[s].tasks /\ r.scope = ss[s].scope
                 /\ r.sources = ss[s].sources
                 /\ r.status \in {ss[s].status, "deprecated"}
                 => Sound(ms, [ss EXCEPT ![s] = r], n, saved, by, gone)
<1>1. ms \in Seq(MemoryRecord(1..n)) /\ ss \in Seq(SkillRecord)
  BY DEF Sound, Typed
<1>2. ASSUME NEW m \in DOMAIN ms, NEW r \in MemoryRecord(1..n),
             r.lesson = ms[m].lesson, r.episodes = ms[m].episodes,
             r.status = ms[m].status
      PROVE  Sound([ms EXCEPT ![m] = r], ss, n, saved, by, gone)
  <2> DEFINE new == [ms EXCEPT ![m] = r]
  <2>1. /\ new \in Seq(MemoryRecord(1..n)) /\ Len(new) = Len(ms)
        /\ DOMAIN new = DOMAIN ms /\ new[m] = r
        /\ \A l \in DOMAIN ms : l # m => new[l] = ms[l]
    BY <1>1, ReplaceRecord
  <2> HIDE DEF new
  <2>2. Typed(new, ss, 1..n)
    BY <2>1 DEF Sound, Typed
  <2>3. \A l \in DOMAIN ms :
          /\ new[l].lesson = ms[l].lesson /\ new[l].episodes = ms[l].episodes
          /\ new[l].status \in {ms[l].status, "invalidated"}
    BY <1>2, <2>1
  <2>4. \A s \in DOMAIN ss :
          /\ ss[s].tasks = ss[s].tasks /\ ss[s].scope = ss[s].scope
          /\ ss[s].sources = ss[s].sources
          /\ ss[s].status \in {ss[s].status, "deprecated"}
    OBVIOUS
  <2>5. Sound(new, ss, n, saved, by, gone)
    BY <2>1, <2>2, <2>3, <2>4, WithdrawnSound
  <2> QED BY <2>5 DEF new
<1>3. ASSUME NEW s \in DOMAIN ss, NEW r \in SkillRecord,
             r.tasks = ss[s].tasks, r.scope = ss[s].scope, r.sources = ss[s].sources,
             r.status \in {ss[s].status, "deprecated"}
      PROVE  Sound(ms, [ss EXCEPT ![s] = r], n, saved, by, gone)
  <2> DEFINE new == [ss EXCEPT ![s] = r]
  <2>1. /\ new \in Seq(SkillRecord) /\ Len(new) = Len(ss)
        /\ DOMAIN new = DOMAIN ss /\ new[s] = r
        /\ \A u \in DOMAIN ss : u # s => new[u] = ss[u]
    BY <1>1, ReplaceRecord
  <2> HIDE DEF new
  <2>2. Typed(ms, new, 1..n)
    BY <2>1 DEF Sound, Typed
  <2>3. \A u \in DOMAIN ss :
          /\ new[u].tasks = ss[u].tasks /\ new[u].scope = ss[u].scope
          /\ new[u].sources = ss[u].sources
          /\ new[u].status \in {ss[u].status, "deprecated"}
    BY <1>3, <2>1
  <2>4. \A m \in DOMAIN ms :
          /\ ms[m].lesson = ms[m].lesson /\ ms[m].episodes = ms[m].episodes
          /\ ms[m].status \in {ms[m].status, "invalidated"}
    OBVIOUS
  <2>5. Sound(ms, new, n, saved, by, gone)
    BY <2>1, <2>2, <2>3, <2>4, WithdrawnSound
  <2> QED BY <2>5 DEF new
<1> QED BY <1>2, <1>3

\* A use in a store where the record is.
LEMMA UsedSound ==
    ASSUME NEW ms, NEW ss, NEW n, NEW saved, NEW by, NEW gone, NEW type \in UseType,
           Sound(ms, ss, n, saved, by, gone)
    PROVE  /\ \A m \in DOMAIN ms :
                 Sound([ms EXCEPT ![m] = ApplyUsage(ms[m], type)], ss, n, saved, by, gone)
           /\ \A s \in DOMAIN ss :
                 Sound(ms, [ss EXCEPT ![s] = ApplyUsage(ss[s], type)], n, saved, by, gone)
<1>1. /\ \A m \in DOMAIN ms : ms[m] \in MemoryRecord(1..n)
      /\ \A s \in DOMAIN ss : ss[s] \in SkillRecord
  BY DEF Sound, Typed
<1>2. ASSUME NEW m \in DOMAIN ms
      PROVE  Sound([ms EXCEPT ![m] = ApplyUsage(ms[m], type)], ss, n, saved, by, gone)
  <2> DEFINE r == ApplyUsage(ms[m], type)
  <2>1. /\ r \in MemoryRecord(1..n) /\ r.lesson = ms[m].lesson
        /\ r.episodes = ms[m].episodes /\ r.status = ms[m].status
    BY <1>1, UsageTyped
  <2> HIDE DEF r
  <2>2. Sound([ms EXCEPT ![m] = r], ss, n, saved, by, gone)
    BY <2>1, RecountedSound
  <2> QED BY <2>2 DEF r
<1>3. ASSUME NEW s \in DOMAIN ss
      PROVE  Sound(ms, [ss EXCEPT ![s] = ApplyUsage(ss[s], type)], n, saved, by, gone)
  <2> DEFINE r == ApplyUsage(ss[s], type)
  <2>1. /\ r \in SkillRecord /\ r.tasks = ss[s].tasks /\ r.scope = ss[s].scope
        /\ r.sources = ss[s].sources /\ r.status \in {ss[s].status, "deprecated"}
    BY <1>1, UsageTyped
  <2> HIDE DEF r
  <2>2. Sound(ms, [ss EXCEPT ![s] = r], n, saved, by, gone)
    BY <2>1, RecountedSound
  <2> QED BY <2>2 DEF r
<1> QED BY <1>2, <1>3

LEMMA HarmSound ==
    ASSUME NEW ms, NEW ss, NEW n, NEW saved, NEW by, NEW gone, NEW s \in DOMAIN ss,
           Sound(ms, ss, n, saved, by, gone)
    PROVE  Sound(ms, [ss EXCEPT ![s] = record_harmful_use(ss[s])], n, saved, by, gone)
<1> DEFINE r == record_harmful_use(ss[s])
<1>1. ss[s] \in SkillRecord
  BY DEF Sound, Typed
<1>2. /\ r \in SkillRecord /\ r.tasks = ss[s].tasks /\ r.scope = ss[s].scope
      /\ r.sources = ss[s].sources /\ r.status \in {ss[s].status, "deprecated"}
  BY <1>1, HarmTyped
<1> HIDE DEF r
<1>3. Sound(ms, [ss EXCEPT ![s] = r], n, saved, by, gone)
  BY <1>2, RecountedSound
<1> QED BY <1>3 DEF r

\* The records of a store are finitely many, and so are the uses of some.
LEMMA FiniteStore ==
    ASSUME NEW ms, NEW ss, NEW episode, Typed(ms, ss, episode)
    PROVE  IsFiniteSet(Existing(ms, ss))
<1> DEFINE f == [m \in DOMAIN ms |-> Memory(m)]
           g == [s \in DOMAIN ss |-> Skill(s)]
           F == {Memory(m) : m \in DOMAIN ms}
           G == {Skill(s) : s \in DOMAIN ss}
<1>1. DOMAIN ms = 1..Len(ms) /\ Len(ms) \in Nat /\ DOMAIN ss = 1..Len(ss) /\ Len(ss) \in Nat
  BY DEF Typed
<1>2. IsFiniteSet(DOMAIN ms) /\ IsFiniteSet(DOMAIN ss)
  BY <1>1, FS_Interval
<1>3. f \in Surjection(DOMAIN ms, F) /\ g \in Surjection(DOMAIN ss, G)
  BY DEF Surjection
<1>4. IsFiniteSet(F) /\ IsFiniteSet(G)
  BY <1>2, <1>3, FS_Surjection
<1> QED BY <1>4, FS_Union DEF Existing

LEMMA UsesTyped ==
    ASSUME NEW items, IsFiniteSet(items),
           NEW T, NEW types \in Seq(T), Len(types) \in {1, 2}
    PROVE  Uses(items, types) \in Seq([item : items, type : T])
<1> DEFINE c == Cardinality(items)
           n == Len(types)
           e == SetToSeq(items)
<1>1. c \in Nat
  BY FS_CardinalityType
<1>2. e \in [1..c -> items]
  <2>1. PICK f \in [1..c -> items] : IsInjective(f)
    BY FS_CardinalityType, Zenon
       DEF ExistsBijection, Bijection, Injection, IsInjective
  <2> QED BY <2>1 DEF SetToSeq
<1> HIDE DEF e, c
<1>3. ASSUME NEW k \in 1..(n * c)
      PROVE  e[((k - 1) \div n) + 1] \in items /\ types[((k - 1) % n) + 1] \in T
  <2>1. ((k - 1) \div n) + 1 \in 1..c /\ ((k - 1) % n) + 1 \in 1..n
    <3>1. CASE n = 1
      BY <1>1, <3>1, SMT
    <3>2. CASE n = 2
      BY <1>1, <3>2, SMT
    <3> QED BY <3>1, <3>2
  <2> DEFINE i == ((k - 1) \div n) + 1
             j == ((k - 1) % n) + 1
  <2> HIDE DEF i, j
  <2>2. e[i] \in items /\ types[j] \in T
    BY <1>2, <2>1 DEF i, j
  <2> QED BY <2>2 DEF i, j
<1>4. n * c \in Nat
  BY <1>1
<1> DEFINE x(k) == e[((k - 1) \div n) + 1]
           y(k) == types[((k - 1) % n) + 1]
<1>5. Uses(items, types) = [k \in 1..(n * c) |-> [item |-> x(k), type |-> y(k)]]
  BY Zenon DEF Uses, e, c
<1>6. \A k \in 1..(n * c) : x(k) \in items /\ y(k) \in T
  BY <1>3
<1> DEFINE N == n * c
           z(k) == [item |-> x(k), type |-> y(k)]
<1>7. \A k \in 1..N : z(k) \in [item : items, type : T]
  <2> HIDE DEF x, y
  <2> QED BY <1>6
<1>8. N \in Nat /\ Uses(items, types) = [k \in 1..N |-> z(k)]
  BY <1>4, <1>5, Zenon
<1> HIDE DEF x, y, z, N
<1> QED BY <1>7, <1>8

\* An item that is shown or to be counted exists, and its kind tells where.
LEMMA ExistingRecord ==
    ASSUME NEW ms, NEW ss, NEW item \in Existing(ms, ss)
    PROVE  \/ item.kind = "memory" /\ item = Memory(item.id) /\ item.id \in DOMAIN ms
           \/ item.kind = "skill" /\ item = Skill(item.id) /\ item.id \in DOMAIN ss
BY DEF Existing, Memory, Skill

LEMMA ExistingIsItem ==
    ASSUME NEW ms, NEW ss, NEW episode, Typed(ms, ss, episode)
    PROVE  Existing(ms, ss) \subseteq Item
BY KnowledgeStoreAssumption DEF Typed, Existing, Item, Memory, Skill

-----------------------------------------------------------------------------
\* Steps of the processes.

LEMMA InitInv == Init => KnowledgeInv
<1> SUFFICES ASSUME Init PROVE KnowledgeInv
  OBVIOUS
<1>1. PICK store \in Stores :
        /\ memories = store.memories /\ skills = store.skills
        /\ uses = store.uses /\ episodes = store.episodes
        /\ sessions = store.sessions
        /\ packs = store.packs /\ earned = store.earned
  BY DEF Init
<1>2. StoreInv
  BY <1>1, StoresAssumption DEF Init, StoreInv, Sound, Kept, Holding
<1>3. ControlInv
  <2>1. sessions \in [Projects -> 0..packs] /\ packs \in 0..MaxPacks
    BY <1>1, StoresAssumption
  <2>2. crashes \in 0..MaxCrashes
    BY KnowledgeAssumption DEF Init
  <2>3. \A u \in uses : u.item \in Item /\ u.task \in Tasks /\ u.type \in UseType
    <3>1. Typed(memories, skills, 1..packs)
      BY <1>1, StoresAssumption
    <3>2. \A u \in uses : /\ u.item \in Existing(memories, skills)
                          /\ u.task \in Tasks /\ u.type \in UseType
      BY <1>1, StoresAssumption
    <3> QED BY <3>1, <3>2, ExistingIsItem
  <2> QED BY <1>1, <2>1, <2>2, <2>3, StoresAssumption
          DEF Init, ControlInv, AfterWork, Reflecting, Inducing
<1>4. HandInv /\ MadeInv
  BY DEF Init, HandInv, MadeInv, Row, Persisting, Reflecting, Inducing
<1>5. ConsolidationInv
  BY DEF Init, ConsolidationInv, Reflecting, Inducing
<1> QED BY <1>2, <1>3, <1>4, <1>5 DEF KnowledgeInv

\* Nothing happens to the store, and nothing is held.
LEMMA QuietStore ==
    ASSUME StoreInv, UNCHANGED <<memories, skills, packs, episodes, earned, withdrawn>>,
           ~Holding'
    PROVE  StoreInv'
BY DEF StoreInv

\* Nothing is in hand but at the places where it is written back.
LEMMA EmptyHand ==
    ASSUME KnowledgeInv, pc \notin Listed \cup {"merge", "upsert"}
    PROVE  copy = <<>>
BY DEF KnowledgeInv, HandInv

\* Nothing is made that waits to be saved.
LEMMA NothingMade ==
    ASSUME KnowledgeInv, UNCHANGED packs, made' \in {made, <<>>},
           pc' \notin Persisting \cup (Inducing \ {"induce"}),
           pc \in AfterWork => pc' \in AfterWork \/ made' = <<>>
    PROVE  MadeInv'
BY DEF KnowledgeInv, MadeInv

\* A process that forgets its session holds nothing.
LEMMA ForgetStep ==
    ASSUME KnowledgeInv, Forget, pc' \in {"off", "idle"},
           UNCHANGED <<memories, skills, uses, episodes, tree, packs, refused,
                       telemetry, withdrawn, earned>>,
           cfg' \in Configs, crashes' \in 0..MaxCrashes,
           sessions' \in [Projects -> 0..packs]
    PROVE  KnowledgeInv'
<1>1. StoreInv'
  BY QuietStore DEF KnowledgeInv, Forget, Holding
<1>2. ControlInv'
  BY DEF KnowledgeInv, ControlInv, Forget, AfterWork, Reflecting, Inducing, Todo
<1>3. HandInv' /\ MadeInv'
  BY DEF Forget, HandInv, MadeInv, Row, Persisting, Reflecting, Inducing
<1>4. ConsolidationInv'
  BY DEF KnowledgeInv, ConsolidationInv, Forget, Reflecting, Inducing
<1> QED BY <1>1, <1>2, <1>3, <1>4 DEF KnowledgeInv

LEMMA ProcessStep ==
    ASSUME KnowledgeInv, Start \/ Exit \/ Crash \/ SaveSession
    PROVE  KnowledgeInv'
<1>1. cfg \in Configs /\ crashes \in 0..MaxCrashes /\ sessions \in [Projects -> 0..packs]
  BY DEF KnowledgeInv, ControlInv
<1>2. CASE Start
  <2>1. copy = <<>> /\ made = <<>>
    BY <1>2 DEF KnowledgeInv, HandInv, MadeInv, Start, Listed, AfterWork, Reflecting, Inducing
  <2>2. copy' = <<>> /\ made' = <<>> /\ todo' = todo /\ sources' = sources
        /\ activeThen' = activeThen
    BY <1>2, <2>1 DEF Start, work
  <2>3. ControlInv'
    BY <1>2, <2>2 DEF KnowledgeInv, ControlInv, Start, disk, session, history, AfterWork,
                      Reflecting, Inducing
  <2>4. HandInv' /\ MadeInv'
    BY <1>2, <2>2 DEF HandInv, MadeInv, Start, Row, Persisting, Reflecting, Inducing
  <2>5. ConsolidationInv'
    BY <1>2 DEF KnowledgeInv, ConsolidationInv, Start, session, Reflecting, Inducing
  <2>6. ~Holding'
    BY <2>2 DEF Holding
  <2> QED BY <1>2, <2>3, <2>4, <2>5, <2>6, QuietStore DEF KnowledgeInv, Start, disk, history
<1>3. CASE Exit
  BY <1>1, <1>3, ForgetStep DEF Exit, Lose, disk, history
<1>4. CASE Crash
  <2>1. crashes' \in 0..MaxCrashes
    BY <1>1, <1>4, KnowledgeAssumption DEF Crash
  <2> QED BY <1>1, <1>4, <2>1, ForgetStep DEF Crash, Lose, disk, history
<1>5. CASE SaveSession
  <2>1. task \in Tasks /\ ProjectOf[task] \in Projects
    BY <1>5 DEF KnowledgeInv, ControlInv, SaveSession, Projects
  <2>2. packs \in Nat /\ \A p \in Projects : sessions[p] < packs
    BY <1>5, KnowledgeAssumption DEF KnowledgeInv, ControlInv, SaveSession, AfterWork
  <2>3. sessions' \in [Projects -> 0..packs]
    BY <1>1, <1>5, <2>1, <2>2 DEF SaveSession
  <2> QED BY <1>1, <1>5, <2>3, ForgetStep DEF SaveSession, history
<1> QED BY <1>2, <1>3, <1>4, <1>5

LEMMA RetrieveStep ==
    ASSUME KnowledgeInv, NEW t \in Tasks, Retrieve(t)
    PROVE  KnowledgeInv'
<1>1. PICK M \in SUBSET DOMAIN memories, S \in SUBSET DOMAIN skills :
        /\ exposed' = {Memory(m) : m \in M \ Shadowed(skills, S)} \cup {Skill(s) : s \in S}
        /\ todo' = Uses(exposed', <<"exposed">>)
  <2> DEFINE shown(M, S) == {Memory(m) : m \in M \ Shadowed(skills, S)}
                            \cup {Skill(s) : s \in S}
  <2>1. PICK M \in IF cfg.mode \in {"verified_memory", "memory_skill"}
                   THEN MemoriesRetrieved(memories, ProjectOf[t], tree[ProjectOf[t]])
                   ELSE {{}},
             S \in IF cfg.mode = "memory_skill"
                   THEN SkillsRetrieved(skills, tree[ProjectOf[t]]) ELSE {{}} :
          exposed' = shown(M, S) /\ todo' = Uses(shown(M, S), <<"exposed">>)
    BY Zenon DEF Retrieve
  <2>2. M \in SUBSET DOMAIN memories
    BY DEF MemoriesRetrieved
  <2>3. S \in SUBSET DOMAIN skills
    BY DEF SkillsRetrieved
  <2> QED BY <2>1, <2>2, <2>3, Zenon
<1>2. exposed' \subseteq Existing(memories, skills)
  BY <1>1 DEF Existing
<1>3. todo' \in Seq(Todo(memories, skills))
  <2>1. IsFiniteSet(exposed')
    BY <1>2, FiniteStore, FS_Subset DEF KnowledgeInv, StoreInv, Sound
  <2>2. <<"exposed">> \in Seq(UseType) /\ Len(<<"exposed">>) = 1
    BY DEF UseType, Counted
  <2>3. todo' \in Seq([item : exposed', type : UseType])
    BY <1>1, <2>1, <2>2, UsesTyped
  <2>4. [item : exposed', type : UseType] \subseteq Todo(memories, skills)
    BY <1>2 DEF Todo
  <2> QED BY <2>3, <2>4, WiderSeq
<1>4. copy = <<>> /\ copy' = <<>> /\ pc = "idle" /\ pc' = "expose"
  BY EmptyHand DEF Retrieve, Listed
<1>5. StoreInv'
  BY <1>4, QuietStore DEF KnowledgeInv, Retrieve, disk, history, Holding
<1>6. ControlInv'
  <2>1. packs < MaxPacks
    BY DEF Retrieve
  <2>2. referenced = {}
    BY <1>4 DEF KnowledgeInv, ControlInv, AfterWork, Reflecting, Inducing
  <2> QED BY <1>2, <1>3, <1>4, <2>1, <2>2
          DEF KnowledgeInv, ControlInv, Retrieve, disk, history, AfterWork, Reflecting, Inducing
<1>7. HandInv'
  BY <1>4 DEF HandInv, Row
<1>8. MadeInv'
  BY <1>4, NothingMade DEF Retrieve, Persisting, Reflecting, Inducing, AfterWork
<1>9. ConsolidationInv'
  BY <1>4 DEF KnowledgeInv, ConsolidationInv, Retrieve, Reflecting, Inducing
<1> QED BY <1>5, <1>6, <1>7, <1>8, <1>9 DEF KnowledgeInv

\* The uses that are left, and the next one.
LEMMA NextUse ==
    ASSUME NEW T, NEW q \in Seq(T), q # <<>>
    PROVE  /\ Head(q) \in T /\ Tail(q) \in Seq(T)
           /\ \A k \in DOMAIN Tail(q) : k + 1 \in DOMAIN q /\ Tail(q)[k] = q[k + 1]
           /\ 1 \in DOMAIN q /\ Head(q) = q[1]
OBVIOUS

\* A record of the store is read.
LEMMA LoadedStore ==
    ASSUME StoreInv, NEW item \in Existing(memories, skills), Load(item),
           UNCHANGED <<memories, skills, packs, episodes, earned, withdrawn>>
    PROVE  StoreInv'
<1>1. copy' = <<item, Record(item)>>
  BY DEF Load
<1>2. memories \in Seq(MemoryRecord(1..packs)) /\ skills \in Seq(SkillRecord)
  BY DEF StoreInv, Sound, Typed
<1>3. BackMemories' = memories /\ BackSkills' = skills
  <2>1. copy'[1] = item /\ copy'[2] = Record(item)
    BY <1>1
  <2>2. CASE item.kind = "memory"
    BY <1>2, <2>1, <2>2 DEF BackMemories, BackSkills, Record
  <2>3. CASE item.kind # "memory"
    BY <1>2, <2>1, <2>3 DEF BackMemories, BackSkills, Record
  <2> QED BY <2>2, <2>3
<1> QED BY <1>3 DEF StoreInv

\* The record in hand, where it belongs.
LEMMA HeldRecord ==
    ASSUME KnowledgeInv, Holding
    PROVE  \/ /\ copy[1].kind = "memory" /\ copy[1] = Memory(copy[1].id)
              /\ copy[1].id \in DOMAIN memories
           \/ /\ copy[1].kind = "skill" /\ copy[1] = Skill(copy[1].id)
              /\ copy[1].id \in DOMAIN skills
BY ExistingRecord DEF KnowledgeInv, HandInv, Holding

\* To write a record back is to replace the copy in the store where it is back.
LEMMA Written ==
    ASSUME KnowledgeInv, Holding, NEW record, WriteBack(record)
    PROVE  /\ copy' = <<>>
           /\ Sound(BackMemories, BackSkills, packs, episodes, earned, withdrawn)
           /\ DOMAIN memories' = DOMAIN memories /\ DOMAIN skills' = DOMAIN skills
           /\ \/ /\ copy[1].kind = "memory" /\ copy[1] = Memory(copy[1].id)
                 /\ copy[1].id \in DOMAIN BackMemories
                 /\ copy[2] = BackMemories[copy[1].id]
                 /\ memories' = [BackMemories EXCEPT ![copy[1].id] = record]
                 /\ skills' = BackSkills
              \/ /\ copy[1].kind = "skill" /\ copy[1] = Skill(copy[1].id)
                 /\ copy[1].id \in DOMAIN BackSkills
                 /\ copy[2] = BackSkills[copy[1].id]
                 /\ skills' = [BackSkills EXCEPT ![copy[1].id] = record]
                 /\ memories' = BackMemories
<1>1. Sound(BackMemories, BackSkills, packs, episodes, earned, withdrawn)
  BY DEF KnowledgeInv, StoreInv
<1>2. memories \in Seq(MemoryRecord(1..packs)) /\ skills \in Seq(SkillRecord)
  BY DEF KnowledgeInv, StoreInv, Sound, Typed
<1>3. copy' = <<>>
  BY DEF WriteBack
<1>4. CASE /\ copy[1].kind = "memory" /\ copy[1] = Memory(copy[1].id)
           /\ copy[1].id \in DOMAIN memories
  <2>1. memories' = [memories EXCEPT ![copy[1].id] = record] /\ skills' = skills
    BY <1>4 DEF WriteBack
  <2>2. BackMemories = [memories EXCEPT ![copy[1].id] = copy[2]] /\ BackSkills = skills
    BY <1>4 DEF BackMemories, BackSkills
  <2> QED BY <1>1, <1>2, <1>3, <1>4, <2>1, <2>2
<1>5. CASE /\ copy[1].kind = "skill" /\ copy[1] = Skill(copy[1].id)
           /\ copy[1].id \in DOMAIN skills
  <2>1. skills' = [skills EXCEPT ![copy[1].id] = record] /\ memories' = memories
    BY <1>5 DEF WriteBack
  <2>2. BackSkills = [skills EXCEPT ![copy[1].id] = copy[2]] /\ BackMemories = memories
    BY <1>5 DEF BackMemories, BackSkills
  <2> QED BY <1>1, <1>2, <1>3, <1>5, <2>1, <2>2
<1> QED BY <1>4, <1>5, HeldRecord

LEMMA LoadUseStep ==
    ASSUME KnowledgeInv, LoadUse
    PROVE  KnowledgeInv'
<1> DEFINE item == Head(todo).item
<1>1. todo \in Seq(Todo(memories, skills)) /\ todo # <<>> /\ copy = <<>>
  BY DEF KnowledgeInv, ControlInv, LoadUse, Recording
<1>2. Head(todo) \in Todo(memories, skills) /\ Tail(todo) \in Seq(Todo(memories, skills))
  BY <1>1, NextUse
<1>3. item \in Existing(memories, skills)
  BY <1>2 DEF Todo
<1>4. /\ pc \in {"expose", "attribute"}
      /\ UNCHANGED <<memories, skills, uses, episodes, sessions, tree, pc, cfg, task,
                     exposed, referenced, outcome, packs, made, sources, activeThen, refused,
                     crashes, telemetry, withdrawn, earned>>
      /\ \/ todo' = Tail(todo) /\ copy' = <<>>
         \/ Load(item) /\ todo' = todo
  BY <1>1 DEF LoadUse, Recording, disk, session, history
<1>5. StoreInv'
  <2>1. CASE copy' = <<>>
    BY <1>4, <2>1, QuietStore DEF KnowledgeInv, Holding
  <2>2. CASE Load(item)
    BY <1>3, <1>4, <2>2, LoadedStore DEF KnowledgeInv
  <2> QED BY <1>4, <2>1, <2>2
<1>6. ControlInv'
  BY <1>1, <1>2, <1>4 DEF KnowledgeInv, ControlInv
<1>7. HandInv'
  <2>1. CASE copy' = <<>>
    BY <1>4, <2>1 DEF HandInv, Row
  <2>2. CASE copy' = <<item, Record(item)>> /\ todo' = todo
    BY <1>1, <1>3, <1>4, <2>2 DEF HandInv, Row, Listed
  <2> QED BY <1>4, <2>1, <2>2 DEF Load
<1>8. MadeInv'
  BY <1>4, NothingMade DEF Persisting, Reflecting, Inducing, AfterWork
<1>9. ConsolidationInv'
  BY <1>4 DEF KnowledgeInv, ConsolidationInv, Attribution, Reflecting, Inducing
<1> QED BY <1>5, <1>6, <1>7, <1>8, <1>9 DEF KnowledgeInv

LEMMA SaveUseStep ==
    ASSUME KnowledgeInv, SaveUse
    PROVE  KnowledgeInv'
<1> DEFINE type == Head(todo).type
<1>1. /\ pc \in {"expose", "attribute"} /\ todo # <<>> /\ copy # <<>> /\ copy' = <<>>
      /\ UNCHANGED <<uses, episodes, sessions, tree, cfg, task, exposed, referenced, outcome,
                     packs, todo, made, sources, activeThen, refused, crashes, telemetry,
                     withdrawn, earned>>
      /\ \/ pc = "expose" /\ pc' = "exposeRow"
         \/ pc = "attribute" /\ pc' = "attributeRow"
  BY Zenon DEF SaveUse, Recording, WriteBack, session, history
<1>2. type \in UseType
  <2>1. Head(todo) \in Todo(memories, skills)
    BY <1>1, NextUse DEF KnowledgeInv, ControlInv
  <2> QED BY <2>1 DEF Todo
<1>3. /\ Sound(memories', skills', packs, episodes, earned, withdrawn)
      /\ DOMAIN memories' = DOMAIN memories /\ DOMAIN skills' = DOMAIN skills
  <2>1. CASE cfg.frozen
    BY <2>1 DEF SaveUse, KnowledgeInv, StoreInv
  <2>2. CASE ~cfg.frozen
    <3>1. Holding /\ WriteBack(ApplyUsage(copy[2], type))
      BY <1>1, <2>2 DEF SaveUse, Holding
    <3> HIDE DEF type
    <3> QED BY <1>2, <3>1, Written, UsedSound
  <2> QED BY <2>1, <2>2
<1>4. StoreInv'
  BY <1>1, <1>3 DEF StoreInv, Holding
<1>5. Existing(memories, skills)' = Existing(memories, skills)
  BY <1>3 DEF Existing
<1>6. Todo(memories, skills)' = Todo(memories, skills)
  BY <1>5 DEF Todo
<1>7. ControlInv'
  BY <1>1, <1>3, <1>5, <1>6
     DEF KnowledgeInv, ControlInv, AfterWork, Reflecting, Inducing
<1>8. HandInv'
  BY <1>1 DEF HandInv
<1>9. MadeInv'
  BY <1>1, NothingMade DEF Persisting, Reflecting, Inducing, AfterWork
<1>10. ConsolidationInv'
  BY <1>1, <1>3 DEF KnowledgeInv, ConsolidationInv, Attribution, Reflecting, Inducing
<1> QED BY <1>4, <1>7, <1>8, <1>9, <1>10 DEF KnowledgeInv

LEMMA AppendUseStep ==
    ASSUME KnowledgeInv, AppendUse
    PROVE  KnowledgeInv'
<1> DEFINE row == Use(Head(todo).item, Head(todo).type)
<1>1. /\ todo \in Seq(Todo(memories, skills)) /\ todo # <<>> /\ task \in Tasks
      /\ copy' = <<>> /\ todo' = Tail(todo)
      /\ \/ pc = "exposeRow" /\ pc' = "expose"
         \/ pc = "attributeRow" /\ pc' = "attribute"
  BY DEF KnowledgeInv, ControlInv, HandInv, AppendUse, Row
<1>2. Head(todo) \in Todo(memories, skills) /\ Tail(todo) \in Seq(Todo(memories, skills))
  BY <1>1, NextUse
<1>3. row.item \in Item /\ row.task \in Tasks /\ row.type \in UseType
  BY <1>1, <1>2, ExistingIsItem DEF KnowledgeInv, StoreInv, Sound, Todo, Use
<1>4. \A u \in (uses \cup telemetry)' : u.item \in Item /\ u.task \in Tasks /\ u.type \in UseType
  <2>1. (uses \cup telemetry)' \subseteq uses \cup telemetry \cup {row}
    BY DEF AppendUse
  <2> HIDE DEF row
  <2> QED BY <1>3, <2>1 DEF KnowledgeInv, ControlInv
<1>5. StoreInv'
  BY <1>1, QuietStore DEF KnowledgeInv, AppendUse, Holding
<1>6. ControlInv'
  BY <1>1, <1>2, <1>4 DEF KnowledgeInv, ControlInv, AppendUse, session, AfterWork, Reflecting,
                          Inducing
<1>7. HandInv'
  BY <1>1 DEF HandInv, Row
<1>8. MadeInv'
  BY <1>1, NothingMade DEF AppendUse, Persisting, Reflecting, Inducing, AfterWork
<1>9. ConsolidationInv'
  BY <1>1 DEF KnowledgeInv, ConsolidationInv, AppendUse, session, Attribution, Reflecting,
              Inducing
<1> QED BY <1>5, <1>6, <1>7, <1>8, <1>9 DEF KnowledgeInv

LEMMA WorkStep ==
    ASSUME KnowledgeInv, Work
    PROVE  KnowledgeInv'
<1>1. PICK R \in SUBSET exposed, o \in Outcomes :
        /\ referenced' = R /\ outcome' = o
        /\ todo' = Uses(R, <<"referenced", Attribution(o)>>)
        /\ \E f \in IF o.changed THEN Fingerprints ELSE {tree[ProjectOf[task]]} :
              tree' = [tree EXCEPT ![ProjectOf[task]] = f]
        /\ earned' = IF Attribution(o) = "helpful"
                     THEN [s \in 1..MaxSkills |->
                              IF Skill(s) \in R THEN earned[s] \cup {task} ELSE earned[s]]
                     ELSE earned
  BY Zenon DEF Work
<1>2. /\ copy = <<>> /\ made = <<>> /\ pc = "expose" /\ task \in Tasks /\ packs \in Nat /\ packs < MaxPacks
      /\ earned \in [1..MaxSkills -> SUBSET Tasks] /\ tree \in [Projects -> Fingerprints]
      /\ exposed \subseteq Existing(memories, skills)
  <2>1. pc = "expose" /\ todo = <<>>
    BY DEF Work
  <2>2. copy = <<>> /\ made = <<>>
    BY <2>1 DEF KnowledgeInv, HandInv, MadeInv, Listed, AfterWork, Reflecting, Inducing
  <2> QED BY <2>1, <2>2, KnowledgeAssumption DEF KnowledgeInv, ControlInv
<1>3. Attribution(o) \in {"helpful", "harmful", "neutral"}
  BY DEF Attribution
<1>4. todo' \in Seq(Todo(memories, skills))
  <2>1. IsFiniteSet(R)
    BY <1>2, FiniteStore, FS_Subset DEF KnowledgeInv, StoreInv, Sound
  <2> DEFINE types == <<"referenced", Attribution(o)>>
  <2>2. types \in Seq(UseType) /\ Len(types) = 2
    BY <1>3 DEF UseType, Counted
  <2> HIDE DEF types
  <2>3. Uses(R, types) \in Seq([item : R, type : UseType])
    BY <2>1, <2>2, UsesTyped
  <2>4. [item : R, type : UseType] \subseteq Todo(memories, skills)
    BY <1>2 DEF Todo
  <2>5. Uses(R, types) \in Seq(Todo(memories, skills))
    BY <2>3, <2>4, WiderSeq
  <2> QED BY <1>1, <2>5 DEF types
<1>5. ProjectOf[task] \in Projects /\ tree' \in [Projects -> Fingerprints]
  <2>1. ProjectOf[task] \in Projects
    BY <1>2 DEF Projects
  <2> QED BY <1>1, <1>2, <2>1
<1>6. /\ earned' \in [1..MaxSkills -> SUBSET Tasks]
      /\ \A s \in 1..MaxSkills : earned[s] \subseteq earned'[s]
  BY <1>1, <1>2
<1>7. packs' = packs + 1 /\ packs' \in 0..MaxPacks /\ packs' \in Nat /\ packs <= packs'
  BY <1>2, KnowledgeAssumption DEF Work
<1>8. DOMAIN skills \subseteq 1..MaxSkills
  BY KnowledgeStoreAssumption DEF KnowledgeInv, StoreInv, Sound, Typed
<1>9. StoreInv'
  <2>1. Sound(memories, skills, packs', episodes, earned', withdrawn)
    <3>1. \A s \in DOMAIN skills : earned[s] \subseteq earned'[s] /\ earned'[s] \subseteq Tasks
      BY <1>6, <1>8
    <3>2. Sound(memories, skills, packs, episodes, earned, withdrawn)
      BY DEF KnowledgeInv, StoreInv
    <3> QED BY <1>2, <1>7, <3>1, <3>2, GrownSound
  <2>2. copy' = <<>>
    BY <1>2 DEF Work
  <2> QED BY <2>1, <2>2 DEF StoreInv, Work, disk, Holding
<1>10. ControlInv'
  <2>1. episodes' \subseteq 1..packs'
    BY <1>2, <1>7 DEF KnowledgeInv, ControlInv, Work, disk
  <2>2. sessions' \in [Projects -> 0..packs'] /\ \A p \in Projects : sessions'[p] < packs'
    BY <1>2, <1>7 DEF KnowledgeInv, ControlInv, Work, disk
  <2>3. pc' = "attribute" /\ copy' = <<>>
    BY <1>2 DEF Work
  <2> QED BY <1>1, <1>4, <1>5, <1>6, <1>7, <2>1, <2>2, <2>3
          DEF KnowledgeInv, ControlInv, Work, disk, AfterWork, Reflecting, Inducing
<1>11. HandInv' /\ MadeInv'
  <2>1. pc' = "attribute" /\ copy' = <<>> /\ made' = <<>>
    BY <1>2 DEF Work
  <2> QED BY <2>1 DEF HandInv, MadeInv, Row, Persisting, Reflecting, Inducing
<1>12. ConsolidationInv'
  BY <1>1, <1>2, <1>8 DEF KnowledgeInv, ConsolidationInv, Work, disk, Attribution,
                          Reflecting, Inducing
<1> QED BY <1>9, <1>10, <1>11, <1>12 DEF KnowledgeInv

LEMMA BeginUtilityStep ==
    ASSUME KnowledgeInv, BeginUtility
    PROVE  KnowledgeInv'
<1> DEFINE used == {i \in referenced : i.kind = "skill"}
           types == <<Attribution(outcome)>>
<1>1. /\ copy = <<>> /\ copy' = <<>> /\ pc = "attribute" /\ pc' = "utility"
      /\ referenced \subseteq Existing(memories, skills)
  BY DEF KnowledgeInv, ControlInv, HandInv, BeginUtility, Listed
<1>2. todo' = (IF cfg.frozen \/ Attribution(outcome) = "neutral" THEN <<>>
               ELSE Uses(used, types))
  BY Zenon DEF BeginUtility
<1>3. HandInv' /\ MadeInv'
  BY <1>1, NothingMade DEF HandInv, Row, BeginUtility, Persisting, Reflecting, Inducing, AfterWork
<1>4. CASE todo' = <<>>
  <2>1. StoreInv'
    BY <1>1, QuietStore DEF KnowledgeInv, BeginUtility, disk, history, Holding
  <2>2. ControlInv'
    BY <1>1, <1>4 DEF KnowledgeInv, ControlInv, BeginUtility, disk, session, history,
                      AfterWork, Reflecting, Inducing
  <2>3. ConsolidationInv'
    <3>1. outcome' = outcome /\ referenced' = referenced /\ task' = task
      BY DEF BeginUtility, session
    <3>2. Attribution(outcome') = "helpful"
             => \A s \in DOMAIN skills' : Skill(s) \in referenced' => task' \in earned'[s]
      BY <3>1 DEF KnowledgeInv, ConsolidationInv, BeginUtility, disk, history
    <3>3. pc' = "utility" /\ ~refused'
      BY DEF KnowledgeInv, ConsolidationInv, BeginUtility
    <3> QED BY <1>4, <3>2, <3>3 DEF ConsolidationInv, Reflecting, Inducing
  <2> QED BY <1>3, <2>1, <2>2, <2>3 DEF KnowledgeInv
<1>5. CASE ~cfg.frozen /\ todo' = Uses(used, types)
  <2>1. todo' \in Seq([item : used, type : {Attribution(outcome)}])
    <3>1. IsFiniteSet(used)
      BY <1>1, FiniteStore, FS_Subset DEF KnowledgeInv, StoreInv, Sound
    <3>2. types \in Seq({Attribution(outcome)}) /\ Len(types) = 1
      OBVIOUS
    <3> HIDE DEF types, used
    <3> QED BY <1>5, <3>1, <3>2, UsesTyped
  <2>2. todo' \in Seq(Todo(memories, skills))
    <3>1. Attribution(outcome) \in UseType
      BY DEF Attribution, UseType, Counted
    <3>2. [item : used, type : {Attribution(outcome)}] \subseteq Todo(memories, skills)
      BY <1>1, <3>1 DEF Todo
    <3> HIDE DEF used
    <3> QED BY <2>1, <3>2, WiderSeq
  <2>3. \A k \in DOMAIN todo' :
          todo'[k].item \in used /\ todo'[k].type = Attribution(outcome)
    <3> DEFINE a == Attribution(outcome)
               R == [item : used, type : {a}]
    <3>1. \A k \in DOMAIN todo' : todo'[k] \in R
      BY <2>1, SeqElement, Zenon
    <3> HIDE DEF used, a
    <3> QED BY <3>1 DEF a
  <2>4. StoreInv'
    BY <1>1, QuietStore DEF KnowledgeInv, BeginUtility, disk, history, Holding
  <2>5. ControlInv'
    BY <1>1, <2>2 DEF KnowledgeInv, ControlInv, BeginUtility, disk, session, history,
                      AfterWork, Reflecting, Inducing
  <2>6. ConsolidationInv'
    BY <1>5, <2>3 DEF KnowledgeInv, ConsolidationInv, BeginUtility, disk, session,
                      history, Attribution, Reflecting, Inducing
  <2> QED BY <1>3, <2>4, <2>5, <2>6 DEF KnowledgeInv
<1> QED BY <1>2, <1>4, <1>5

LEMMA LoadUtilityStep ==
    ASSUME KnowledgeInv, LoadUtility
    PROVE  KnowledgeInv'
<1> DEFINE item == Head(todo).item
<1>1. todo \in Seq(Todo(memories, skills)) /\ todo # <<>> /\ copy = <<>>
  BY DEF KnowledgeInv, ControlInv, LoadUtility
<1>2. /\ Head(todo) \in Todo(memories, skills) /\ Tail(todo) \in Seq(Todo(memories, skills))
      /\ \A k \in DOMAIN Tail(todo) : k + 1 \in DOMAIN todo /\ Tail(todo)[k] = todo[k + 1]
  BY <1>1, NextUse
<1>3. item \in Existing(memories, skills)
  BY <1>2 DEF Todo
<1>4. /\ pc = "utility"
      /\ UNCHANGED <<memories, skills, uses, episodes, sessions, tree, pc, cfg, task,
                     exposed, referenced, outcome, packs, made, sources, activeThen, refused,
                     crashes, telemetry, withdrawn, earned>>
      /\ \/ todo' = Tail(todo) /\ copy' = <<>>
         \/ Load(item) /\ todo' = todo
  BY <1>1 DEF LoadUtility, disk, session, history
<1>5. StoreInv'
  <2>1. CASE copy' = <<>>
    BY <1>4, <2>1, QuietStore DEF KnowledgeInv, Holding
  <2>2. CASE Load(item)
    BY <1>3, <1>4, <2>2, LoadedStore DEF KnowledgeInv
  <2> QED BY <1>4, <2>1, <2>2
<1>6. ControlInv'
  BY <1>1, <1>2, <1>4 DEF KnowledgeInv, ControlInv
<1>7. HandInv'
  <2>1. CASE copy' = <<>>
    BY <1>4, <2>1 DEF HandInv, Row
  <2>2. CASE copy' = <<item, Record(item)>> /\ todo' = todo
    BY <1>1, <1>3, <1>4, <2>2 DEF HandInv, Row, Listed
  <2> QED BY <1>4, <2>1, <2>2 DEF Load
<1>8. MadeInv'
  BY <1>4, NothingMade DEF Persisting, Reflecting, Inducing, AfterWork
<1>9. ConsolidationInv'
  <2>1. Attribution(outcome') = Attribution(outcome) /\ todo # <<>>
    BY <1>1, <1>4
  <2>2. ~cfg.frozen
    BY <1>1, <1>4 DEF KnowledgeInv, ConsolidationInv
  <2> QED BY <1>2, <1>4, <2>1, <2>2 DEF KnowledgeInv, ConsolidationInv, Attribution,
                                        Reflecting, Inducing
<1> QED BY <1>5, <1>6, <1>7, <1>8, <1>9 DEF KnowledgeInv

LEMMA SaveUtilityStep ==
    ASSUME KnowledgeInv, SaveUtility
    PROVE  KnowledgeInv'
<1> DEFINE f == tree[ProjectOf[task]]
           after == IF Head(todo).type = "helpful" THEN record_success(copy[2], task, f)
                    ELSE record_harmful_use(copy[2])
           s == copy[1].id
<1>1. /\ pc = "utility" /\ copy # <<>> /\ todo # <<>> /\ copy[1] = Head(todo).item
  BY DEF KnowledgeInv, HandInv, SaveUtility, Listed
<1>2. ~cfg.frozen /\ Holding
  BY <1>1 DEF KnowledgeInv, ConsolidationInv, Holding
<1>3. /\ WriteBack(after)
      /\ withdrawn' = IF after.status = "deprecated" THEN withdrawn \cup {copy[1]}
                      ELSE withdrawn
      /\ todo' = Tail(todo)
      /\ UNCHANGED <<uses, episodes, sessions, tree, pc, cfg, session, packs, made, sources,
                     activeThen, refused, crashes, telemetry, earned>>
  BY <1>2, Zenon DEF SaveUtility
<1>4. /\ todo \in Seq(Todo(memories, skills)) /\ task \in Tasks /\ f \in Fingerprints
      /\ earned \in [1..MaxSkills -> SUBSET Tasks]
  BY <1>1 DEF KnowledgeInv, ControlInv, Projects
<1>5. Tail(todo) \in Seq(Todo(memories, skills)) /\ 1 \in DOMAIN todo /\ Head(todo) = todo[1]
      /\ \A k \in DOMAIN Tail(todo) : k + 1 \in DOMAIN todo /\ Tail(todo)[k] = todo[k + 1]
  BY <1>1, <1>4, NextUse
<1>6. /\ copy[1] \in referenced /\ copy[1].kind = "skill"
      /\ Head(todo).type = Attribution(outcome)
  BY <1>1, <1>5 DEF KnowledgeInv, ConsolidationInv
<1>7. /\ copy' = <<>> /\ Sound(BackMemories, BackSkills, packs, episodes, earned, withdrawn)
      /\ DOMAIN memories' = DOMAIN memories /\ DOMAIN skills' = DOMAIN skills
      /\ copy[1] = Skill(s) /\ s \in DOMAIN BackSkills /\ copy[2] = BackSkills[s]
      /\ skills' = [BackSkills EXCEPT ![s] = after] /\ memories' = BackMemories
  <2> HIDE DEF after
  <2> QED BY <1>2, <1>3, <1>6, Written
<1>8. s \in DOMAIN skills
  BY <1>2, <1>6, HeldRecord
<1>9. Sound(memories', skills', packs, episodes, earned, withdrawn)
  <2>1. CASE Head(todo).type = "helpful"
    <3>1. task \in earned[s]
      BY <1>1, <1>6, <1>7, <1>8, <2>1 DEF KnowledgeInv, ConsolidationInv
    <3>2. after = record_success(BackSkills[s], task, f)
      BY <1>7, <2>1
    <3> HIDE DEF after, s, f
    <3> QED BY <1>4, <1>7, <3>1, <3>2, SuccessSound
  <2>2. CASE Head(todo).type # "helpful"
    <3>1. after = record_harmful_use(BackSkills[s])
      BY <1>7, <2>2
    <3> HIDE DEF after, s
    <3> QED BY <1>7, <3>1, HarmSound
  <2> QED BY <2>1, <2>2
<1> HIDE DEF after, f
<1>10. Sound(memories', skills', packs, episodes, earned, withdrawn')
  <2>1. CASE after.status = "deprecated"
    <3>1. BackSkills \in Seq(SkillRecord) /\ skills'[s] = after
      BY <1>7 DEF Sound, Typed
    <3>2. Kept(memories', skills', {copy[1]})
      BY <1>7, <1>8, <2>1, <3>1 DEF Kept
    <3> QED BY <1>3, <1>9, <2>1, <3>2, GoneSound
  <2>2. CASE after.status # "deprecated"
    BY <1>3, <1>9, <2>2
  <2> QED BY <2>1, <2>2
<1>11. StoreInv'
  BY <1>3, <1>7, <1>10 DEF StoreInv, Holding
<1>12. Existing(memories, skills)' = Existing(memories, skills)
  BY <1>7 DEF Existing
<1>13. Todo(memories, skills)' = Todo(memories, skills)
  BY <1>12 DEF Todo
<1>14. ControlInv'
  BY <1>1, <1>3, <1>4, <1>5, <1>7, <1>12, <1>13
     DEF KnowledgeInv, ControlInv, session, AfterWork, Reflecting, Inducing
<1>15. HandInv'
  BY <1>1, <1>3, <1>7 DEF HandInv, Row
<1>16. MadeInv'
  BY <1>1, <1>3, NothingMade DEF Persisting, Reflecting, Inducing, AfterWork
<1>17. ConsolidationInv'
  <2>1. outcome' = outcome /\ referenced' = referenced /\ task' = task
    BY <1>3 DEF session
  <2> QED BY <1>1, <1>2, <1>3, <1>5, <1>7, <2>1
          DEF KnowledgeInv, ConsolidationInv, Attribution, Reflecting, Inducing
<1> QED BY <1>11, <1>14, <1>15, <1>16, <1>17 DEF KnowledgeInv

LEMMA PersistEpisodeStep ==
    ASSUME KnowledgeInv, PersistEpisode
    PROVE  KnowledgeInv'
<1>1. /\ packs \in Nat /\ copy' = <<>> /\ pc = "utility" /\ episodes \subseteq episodes'
      /\ task \in Tasks /\ sessions \in [Projects -> 0..packs]
      /\ earned \in [1..MaxSkills -> SUBSET Tasks]
  BY KnowledgeAssumption DEF KnowledgeInv, ControlInv, HandInv, PersistEpisode, Listed, work
<1>2. packs \in 1..packs
  <2>1. ProjectOf[task] \in Projects /\ sessions[ProjectOf[task]] < packs
    BY <1>1 DEF KnowledgeInv, ControlInv, PersistEpisode, AfterWork, Projects
  <2> QED BY <1>1, <2>1
<1>3. SaveAll => packs \in episodes'
  BY DEF PersistEpisode, SaveEpisode
<1>4. StoreInv'
  <2>1. Sound(memories, skills, packs, episodes, earned, withdrawn)
    BY DEF KnowledgeInv, StoreInv
  <2>2. \A s \in DOMAIN skills : earned[s] \subseteq earned[s] /\ earned[s] \subseteq Tasks
    BY <1>1, <2>1, KnowledgeStoreAssumption DEF Sound, Typed
  <2>3. packs <= packs
    BY <1>1
  <2>4. Sound(memories, skills, packs, episodes', earned, withdrawn)
    BY <1>1, <2>1, <2>2, <2>3, GrownSound
  <2> QED BY <1>1, <2>4 DEF StoreInv, PersistEpisode, history, Holding
<1>5. ControlInv'
  <2>1. episodes' \subseteq 1..packs /\ pc' \in {"reflect", "derive"}
    BY <1>2 DEF KnowledgeInv, ControlInv, PersistEpisode
  <2> QED BY <1>1, <2>1 DEF KnowledgeInv, ControlInv, PersistEpisode, session, history, work,
                          AfterWork, Reflecting, Inducing
<1>6. HandInv' /\ MadeInv'
  BY <1>1, NothingMade DEF PersistEpisode, work, HandInv, Row, Persisting, Reflecting, Inducing,
                           AfterWork
<1>7. ConsolidationInv'
  BY <1>3 DEF KnowledgeInv, ConsolidationInv, PersistEpisode, ShouldReflect, session, history,
              Reflecting, Inducing
<1> QED BY <1>4, <1>5, <1>6, <1>7 DEF KnowledgeInv

\* The steps that only go on to the next part.
LEMMA PassingStep ==
    ASSUME KnowledgeInv, NoCandidate \/ ReadSources \/ QueryDerivedSkill \/ NoSkill
    PROVE  KnowledgeInv'
<1>1. /\ pc \in {"reflect", "derive", "query", "induce"}
      /\ pc' \in {"derive", "query", "induce", "save"}
      /\ UNCHANGED <<disk, tree, cfg, session, packs, todo, copy, made, activeThen, refused,
                     crashes, history>>
  BY DEF NoCandidate, ReadSources, QueryDerivedSkill, NoSkill, work
<1>2. copy = <<>>
  BY <1>1, EmptyHand DEF Listed
<1>3. sources' \subseteq DOMAIN memories
  BY DEF KnowledgeInv, ControlInv, NoCandidate, ReadSources, QueryDerivedSkill, NoSkill,
         HelpfulSources, work
<1>4. pc' = "induce" => ~cfg.frozen
  BY DEF NoCandidate, ReadSources, QueryDerivedSkill, NoSkill, MayInduce
<1>5. StoreInv'
  BY <1>1, <1>2, QuietStore DEF KnowledgeInv, disk, history, Holding
<1>6. ControlInv'
  BY <1>1, <1>3 DEF KnowledgeInv, ControlInv, disk, session, history, AfterWork, Reflecting,
                    Inducing
<1>7. HandInv' /\ MadeInv'
  BY <1>1, <1>2, NothingMade DEF HandInv, Row, Persisting, Reflecting, Inducing, AfterWork
<1>8. ConsolidationInv'
  BY <1>1, <1>4 DEF KnowledgeInv, ConsolidationInv, disk, session, history, Reflecting, Inducing
<1> QED BY <1>5, <1>6, <1>7, <1>8 DEF KnowledgeInv

LEMMA ReflectionFailsStep ==
    ASSUME KnowledgeInv, ReflectionFails
    PROVE  KnowledgeInv'
<1>1. CASE cfg.strict
  <2>1. Forget /\ pc' = "off"
    BY <1>1 DEF ReflectionFails, Raise, Lose
  <2>2. cfg \in Configs /\ crashes \in 0..MaxCrashes /\ sessions \in [Projects -> 0..packs]
    BY DEF KnowledgeInv, ControlInv
  <2> QED BY <2>1, <2>2, ForgetStep DEF ReflectionFails, disk, history
<1>2. CASE ~cfg.strict
  <2>1. /\ pc' = "save" /\ todo' = <<>> /\ copy' = <<>> /\ pc = "reflect"
        /\ UNCHANGED <<disk, tree, cfg, session, made, sources, activeThen, packs, refused,
                       crashes, history>>
    BY <1>2 DEF ReflectionFails, Raise
  <2>2. StoreInv'
    BY <2>1, QuietStore DEF KnowledgeInv, disk, history, Holding
  <2>3. ControlInv'
    BY <2>1 DEF KnowledgeInv, ControlInv, disk, session, history, AfterWork,
                     Reflecting, Inducing
  <2>4. HandInv' /\ MadeInv'
    BY <2>1, NothingMade DEF HandInv, Row, Persisting, Reflecting, Inducing, AfterWork
  <2>5. ConsolidationInv'
    BY <2>1 DEF KnowledgeInv, ConsolidationInv, disk, session, history, Reflecting, Inducing
  <2> QED BY <2>2, <2>3, <2>4, <2>5 DEF KnowledgeInv
<1> QED BY <1>1, <1>2

\* A store with more records: what existed exists.
LEMMA MoreExist ==
    ASSUME NEW ms, NEW ss, NEW ms2, NEW ss2,
           DOMAIN ms \subseteq DOMAIN ms2, DOMAIN ss \subseteq DOMAIN ss2
    PROVE  /\ Existing(ms, ss) \subseteq Existing(ms2, ss2)
           /\ Seq(Todo(ms, ss)) \subseteq Seq(Todo(ms2, ss2))
<1>1. Existing(ms, ss) \subseteq Existing(ms2, ss2)
  BY DEF Existing
<1>2. Todo(ms, ss) \subseteq Todo(ms2, ss2)
  BY <1>1 DEF Todo
<1> QED BY <1>1, <1>2, WiderSeq

LEMMA HomeTyped ==
    ASSUME NEW scope, NEW project \in Projects, NEW f \in Fingerprints
    PROVE  Home(scope, project, f) \in Projects \cup Fingerprints \cup {None}
<1>1. CASE scope \in {"task", "project"}
  BY <1>1 DEF Home
<1>2. CASE scope = "repository"
  BY <1>2 DEF Home
<1>3. CASE scope \notin {"task", "project", "repository"}
  BY <1>3 DEF Home
<1> QED BY <1>1, <1>2, <1>3

\* A step of the making and saving of a record leaves the rest alone.
LEMMA MakingFrame ==
    ASSUME KnowledgeInv, pc \in Reflecting \cup Inducing,
           pc' \in ((Reflecting \cup Inducing) \ {"reflect"}) \cup {"derive", "save"},
           UNCHANGED <<uses, episodes, sessions, tree, cfg, session, packs, todo, sources,
                       refused, crashes, telemetry>>,
           DOMAIN memories \subseteq DOMAIN memories', DOMAIN skills \subseteq DOMAIN skills',
           activeThen' \subseteq DOMAIN memories', earned' \in [1..MaxSkills -> SUBSET Tasks]
    PROVE  ControlInv' /\ ConsolidationInv'
<1>1. ~cfg.frozen
  BY DEF KnowledgeInv, ConsolidationInv
<1>2. /\ Existing(memories, skills) \subseteq Existing(memories', skills')
      /\ Seq(Todo(memories, skills)) \subseteq Seq(Todo(memories', skills'))
  BY MoreExist
<1>3. ControlInv'
  BY <1>2 DEF KnowledgeInv, ControlInv, session, AfterWork, Reflecting, Inducing
<1>4. ConsolidationInv'
  BY <1>1 DEF KnowledgeInv, ConsolidationInv, session, Reflecting, Inducing
<1> QED BY <1>3, <1>4

LEMMA NewMemoryTyped ==
    ASSUME KnowledgeInv, pc = "reflect", NEW d \in Drafts,
           NEW status \in MemoryStatus
    PROVE  LET r == NewMemory(d, status)
           IN  /\ r \in MemoryRecord(1..packs) /\ r.count = Unused /\ r.status = status
               /\ r.lesson = d.lesson /\ (SaveAll => r.episodes \subseteq episodes)
<1> DEFINE p == ProjectOf[task]
           f == tree[p]
           scope == FinalScope(d)
           home == Home(scope, p, f)
           r == NewMemory(d, status)
<1>1. /\ task \in Tasks /\ packs \in Nat /\ tree \in [Projects -> Fingerprints]
      /\ sessions \in [Projects -> 0..packs] /\ \A q \in Projects : sessions[q] < packs
      /\ SaveAll => packs \in episodes
  BY KnowledgeAssumption
     DEF KnowledgeInv, ControlInv, ConsolidationInv, AfterWork, Reflecting
<1>2. p \in Projects /\ f \in Fingerprints /\ packs \in 1..packs
  <2>1. p \in Projects
    BY <1>1 DEF Projects
  <2>2. sessions[p] \in 0..packs /\ sessions[p] < packs
    BY <1>1, <2>1
  <2> QED BY <1>1, <2>1, <2>2
<1>3. scope \in MemoryScope /\ d.lesson \in Lessons /\ Unused \in [Counted -> Nat]
  <2>1. d \in Draft
    BY KnowledgeAssumption
  <2> QED BY <2>1 DEF Draft, FinalScope, MemoryScope, Unused
<1> HIDE DEF p, f, scope
<1>4. home \in Projects \cup Fingerprints \cup {None}
  BY <1>2, HomeTyped
<1>5. r = [status |-> status, scope |-> scope, lesson |-> d.lesson, home |-> home,
           episodes |-> {packs}, count |-> Unused]
  BY Zenon DEF NewMemory, p, f, scope
<1> HIDE DEF home, r
<1>6. /\ r \in MemoryRecord(1..packs) /\ r.count = Unused /\ r.status = status
      /\ r.lesson = d.lesson /\ (SaveAll => r.episodes \subseteq episodes)
  BY <1>1, <1>2, <1>3, <1>4, <1>5 DEF MemoryRecord
<1> QED BY <1>6 DEF r

LEMMA EvaluateGateStep ==
    ASSUME KnowledgeInv, NEW d \in Drafts, EvaluateGate(d)
    PROVE  KnowledgeInv'
<1> DEFINE decision == Gate(memories, d)
           r == NewMemory(d, NewStatus(decision))
<1>1. /\ pc = "reflect" /\ Len(memories) < MaxMemories
      /\ UNCHANGED <<disk, tree, cfg, session, packs, todo, copy, sources, activeThen,
                     refused, crashes, history>>
      /\ \/ pc' = "derive" /\ made' = made
         \/ /\ ~(decision = "rejected" /\ cfg.mode # "reflection")
            /\ pc' = "persist" /\ made' = <<r>>
  BY Zenon DEF EvaluateGate
<1>2. copy = <<>>
  BY <1>1, EmptyHand DEF Listed
<1>3. StoreInv'
  BY <1>1, <1>2, QuietStore DEF KnowledgeInv, disk, history, Holding
<1>4. ControlInv' /\ ConsolidationInv'
  <2>1. /\ activeThen \subseteq DOMAIN memories
        /\ earned \in [1..MaxSkills -> SUBSET Tasks]
    BY DEF KnowledgeInv, ControlInv
  <2>2. pc \in Reflecting \cup Inducing
        /\ pc' \in ((Reflecting \cup Inducing) \ {"reflect"}) \cup {"derive", "save"}
    BY <1>1 DEF Reflecting, Inducing
  <2> QED BY <1>1, <2>1, <2>2, MakingFrame DEF disk, history
<1>5. HandInv'
  BY <1>1, <1>2 DEF HandInv, Row
<1>6. MadeInv'
  <2>1. CASE pc' = "derive" /\ made' = made
    BY <1>1, <2>1, NothingMade DEF Persisting, Reflecting, Inducing, AfterWork
  <2>2. CASE /\ ~(decision = "rejected" /\ cfg.mode # "reflection")
             /\ pc' = "persist" /\ made' = <<r>>
    <3>1. NewStatus(decision) \in MemoryStatus
      BY DEF NewStatus, MemoryStatus
    <3>2. /\ r \in MemoryRecord(1..packs) /\ r.count = Unused
          /\ r.status = NewStatus(decision) /\ r.lesson = d.lesson
          /\ SaveAll => r.episodes \subseteq episodes
      BY <1>1, <3>1, NewMemoryTyped
    <3>3. NewStatus(decision) = "active" => find_conflicts(memories, d.lesson) = {}
      BY <2>2 DEF NewStatus, Gate
    <3> HIDE DEF r, decision
    <3>4. memories' = memories /\ packs' = packs /\ episodes' = episodes
      BY <1>1 DEF disk
    <3>5. made'[1] = r /\ made' = <<made'[1]>>
      BY <2>2
    <3>6. NewMemoryInv(made[1])'
      BY <1>1, <2>2, <3>2, <3>3, <3>4, <3>5 DEF NewMemoryInv
    <3> QED BY <2>2, <3>2, <3>4, <3>5, <3>6 DEF MadeInv, Persisting, Reflecting, Inducing, AfterWork
  <2> QED BY <1>1, <2>1, <2>2
<1> QED BY <1>3, <1>4, <1>5, <1>6 DEF KnowledgeInv

LEMMA FindDuplicateStep ==
    ASSUME KnowledgeInv, FindDuplicate
    PROVE  KnowledgeInv'
<1> DEFINE duplicates == find_duplicate_memory(memories, made[1].lesson)
<1>1. /\ pc = "persist"
      /\ UNCHANGED <<disk, tree, cfg, session, packs, todo, made, sources, activeThen,
                     refused, crashes, history>>
      /\ \/ duplicates = {} /\ pc' = "create" /\ copy' = copy
         \/ pc' = "merge" /\ \E m \in duplicates : Load(Memory(m))
  BY DEF FindDuplicate
<1>2. copy = <<>>
  BY <1>1, EmptyHand DEF Listed
<1>3. ControlInv' /\ ConsolidationInv'
  <2>1. /\ activeThen \subseteq DOMAIN memories
        /\ earned \in [1..MaxSkills -> SUBSET Tasks]
    BY DEF KnowledgeInv, ControlInv
  <2>2. pc \in Reflecting \cup Inducing
        /\ pc' \in ((Reflecting \cup Inducing) \ {"reflect"}) \cup {"derive", "save"}
    BY <1>1 DEF Reflecting, Inducing
  <2> QED BY <1>1, <2>1, <2>2, MakingFrame DEF disk, history
<1>4. MadeInv'
  <2>1. made = <<made[1]>> /\ NewMemoryInv(made[1])
    BY <1>1 DEF KnowledgeInv, MadeInv, Persisting, Reflecting
  <2>2. made' = made /\ memories' = memories /\ packs' = packs /\ episodes' = episodes
    BY <1>1 DEF disk
  <2>3. NewMemoryInv(made[1])'
    BY <1>1, <2>1, <2>2 DEF NewMemoryInv
  <2>4. pc' \in {"create", "merge"} /\ made[1] \in MemoryRecord(1..packs)
    BY <1>1, <2>1 DEF NewMemoryInv
  <2> QED BY <2>1, <2>2, <2>3, <2>4 DEF MadeInv, AfterWork, Persisting, Reflecting, Inducing
<1>5. CASE pc' = "create" /\ copy' = copy
  <2>1. StoreInv'
    BY <1>1, <1>2, <1>5, QuietStore DEF KnowledgeInv, disk, history, Holding
  <2>2. HandInv'
    BY <1>2, <1>5 DEF HandInv, Row
  <2> QED BY <1>3, <1>4, <2>1, <2>2 DEF KnowledgeInv
<1>6. CASE pc' = "merge" /\ \E m \in duplicates : Load(Memory(m))
  <2>1. PICK m \in duplicates : Load(Memory(m))
    BY <1>6
  <2>2. Memory(m) \in Existing(memories, skills) /\ Memory(m).kind = "memory"
    BY DEF find_duplicate_memory, Active, Existing, Memory
  <2>3. StoreInv'
    BY <1>1, <2>1, <2>2, LoadedStore DEF KnowledgeInv, disk, history
  <2>4. copy'[1] = Memory(m) /\ copy' # <<>>
    BY <2>1 DEF Load
  <2>5. HandInv'
    BY <1>1, <1>6, <2>2, <2>4 DEF HandInv, Row, Listed, disk
  <2> QED BY <1>3, <1>4, <2>3, <2>5 DEF KnowledgeInv
<1> QED BY <1>1, <1>5, <1>6

LEMMA SaveMergeStep ==
    ASSUME KnowledgeInv, SaveMerge
    PROVE  KnowledgeInv'
<1> DEFINE r == [copy[2] EXCEPT !.episodes = @ \cup made[1].episodes]
           E == made[1].episodes
           m == copy[1].id
<1>1. pc = "merge" /\ copy # <<>> /\ copy[1].kind = "memory"
  BY DEF KnowledgeInv, HandInv, SaveMerge
<1>2. ~cfg.frozen /\ Holding
  BY <1>1 DEF KnowledgeInv, ConsolidationInv, Reflecting, Holding
<1>3. /\ WriteBack(r) /\ pc' = "derive" /\ made' = <<>>
      /\ UNCHANGED <<uses, episodes, sessions, tree, cfg, session, packs, todo, sources,
                     activeThen, refused, crashes, history>>
  BY <1>2, Zenon DEF SaveMerge
<1>4. E \subseteq 1..packs /\ (SaveAll => E \subseteq episodes)
  <2>1. NewMemoryInv(made[1])
    BY <1>1 DEF KnowledgeInv, MadeInv, Persisting, Reflecting
  <2> QED BY <2>1 DEF NewMemoryInv, MemoryRecord
<1>5. /\ copy' = <<>> /\ Sound(BackMemories, BackSkills, packs, episodes, earned, withdrawn)
      /\ DOMAIN memories' = DOMAIN memories /\ DOMAIN skills' = DOMAIN skills
      /\ m \in DOMAIN BackMemories /\ copy[2] = BackMemories[m]
      /\ memories' = [BackMemories EXCEPT ![m] = r] /\ skills' = BackSkills
  <2> HIDE DEF r
  <2> QED BY <1>1, <1>2, <1>3, Written
<1>6. Sound(memories', skills', packs, episodes, earned, withdrawn)
  <2>1. r = [BackMemories[m] EXCEPT !.episodes = @ \cup E]
    BY <1>5
  <2> HIDE DEF r, m, E
  <2> QED BY <1>4, <1>5, <2>1, MergedSound
<1> HIDE DEF r
<1>7. StoreInv'
  BY <1>3, <1>5, <1>6 DEF StoreInv, history, Holding
<1>8. ControlInv' /\ ConsolidationInv'
  <2>1. /\ activeThen \subseteq DOMAIN memories
        /\ earned \in [1..MaxSkills -> SUBSET Tasks]
    BY DEF KnowledgeInv, ControlInv
  <2>2. pc \in Reflecting \cup Inducing
        /\ pc' \in ((Reflecting \cup Inducing) \ {"reflect"}) \cup {"derive", "save"}
    BY <1>1, <1>3 DEF Reflecting, Inducing
  <2> QED BY <1>3, <1>5, <2>1, <2>2, MakingFrame DEF history
<1>9. HandInv' /\ MadeInv'
  BY <1>3, <1>5 DEF HandInv, MadeInv, Row, Persisting, Reflecting, Inducing
<1> QED BY <1>7, <1>8, <1>9 DEF KnowledgeInv

LEMMA SaveNewMemoryStep ==
    ASSUME KnowledgeInv, SaveNewMemory
    PROVE  KnowledgeInv'
<1> DEFINE r == made[1]
<1>1. pc = "create" /\ ~cfg.frozen /\ copy = <<>>
  BY EmptyHand DEF KnowledgeInv, ConsolidationInv, SaveNewMemory, Reflecting, Listed
<1>2. /\ memories' = memories \o made /\ pc' = "derive" /\ made' = <<>>
      /\ UNCHANGED <<skills, uses, episodes, sessions, tree, cfg, session, packs, todo,
                     copy, sources, activeThen, refused, crashes, history>>
  BY <1>1 DEF SaveNewMemory
<1>3. made = <<r>> /\ NewMemoryInv(r)
  BY <1>1 DEF KnowledgeInv, MadeInv, Persisting, Reflecting
<1> HIDE DEF r
<1>4. Sound(memories, skills, packs, episodes, earned, withdrawn)
  BY DEF KnowledgeInv, StoreInv
<1>5. memories \in Seq(MemoryRecord(1..packs)) /\ r \in MemoryRecord(1..packs)
  BY <1>3, <1>4 DEF Sound, Typed, NewMemoryInv
<1>6. memories' = Append(memories, r)
  BY <1>2, <1>3, <1>5
<1>7. r.status = "active" => \A m \in Active(memories) :
         r.lesson # memories[m].lesson /\ ~Contradicts(r.lesson, memories[m].lesson)
  BY <1>1, <1>3 DEF NewMemoryInv, find_conflicts, find_duplicate_memory
<1>8. Sound(memories', skills', packs, episodes, earned, withdrawn)
  BY <1>1, <1>2, <1>3, <1>4, <1>5, <1>6, <1>7, NewMemorySound DEF NewMemoryInv
<1>9. DOMAIN memories \subseteq DOMAIN memories'
  BY <1>5, <1>6
<1>10. StoreInv'
  BY <1>1, <1>2, <1>8 DEF StoreInv, history, Holding
<1>11. ControlInv' /\ ConsolidationInv'
  <2>1. /\ activeThen \subseteq DOMAIN memories
        /\ earned \in [1..MaxSkills -> SUBSET Tasks]
    BY DEF KnowledgeInv, ControlInv
  <2>2. pc \in Reflecting \cup Inducing
        /\ pc' \in ((Reflecting \cup Inducing) \ {"reflect"}) \cup {"derive", "save"}
    BY <1>1, <1>2 DEF Reflecting, Inducing
  <2> QED BY <1>2, <1>9, <2>1, <2>2, MakingFrame DEF history
<1>12. HandInv' /\ MadeInv'
  BY <1>1, <1>2 DEF HandInv, MadeInv, Row, Persisting, Reflecting, Inducing
<1> QED BY <1>10, <1>11, <1>12 DEF KnowledgeInv

\* The skill that the model was asked for.
LEMMA NewSkillTyped ==
    ASSUME KnowledgeInv, pc = "induce", NEW d \in SkillDrafts
    PROVE  LET r == NewSkill(d)
           IN  /\ r \in SkillRecord /\ r.status = "validated" /\ r.tasks = {task}
               /\ r.count = Unused /\ r.sources # {}
<1> DEFINE f == tree[ProjectOf[task]]
           r == NewSkill(d)
<1>1. /\ task \in Tasks /\ tree \in [Projects -> Fingerprints]
  BY DEF KnowledgeInv, ControlInv
<1>2. f \in Fingerprints
  <2>1. ProjectOf[task] \in Projects
    BY <1>1 DEF Projects
  <2> QED BY <1>1, <2>1
<1>3. /\ d.scope \in MemoryScope /\ d.sources \subseteq 0..MaxMemories /\ d.sources # {}
      /\ Unused \in [Counted -> Nat]
  BY KnowledgeAssumption DEF Unused
<1>4. r = [status |-> "validated", scope |-> d.scope, fingerprint |-> f,
           sources |-> d.sources, successes |-> 1, failures |-> 0, tasks |-> {task},
           repositories |-> {f}, count |-> Unused]
  BY Zenon DEF NewSkill
<1> HIDE DEF f, r
<1>5. /\ r \in SkillRecord /\ r.status = "validated" /\ r.tasks = {task}
      /\ r.count = Unused /\ r.sources # {}
  BY <1>1, <1>2, <1>3, <1>4 DEF SkillRecord, SkillStatus
<1> QED BY <1>5 DEF r

LEMMA AnswerSkillStep ==
    ASSUME KnowledgeInv, NEW d \in SkillDrafts, AnswerSkill(d)
    PROVE  KnowledgeInv'
<1> DEFINE r == NewSkill(d)
<1>1. /\ pc = "induce" /\ Len(skills) < MaxSkills /\ pc' = "sources"
      /\ made' = <<r>> /\ activeThen' = Active(memories)
      /\ UNCHANGED <<disk, tree, cfg, session, packs, todo, copy, sources, refused,
                     crashes, history>>
  BY Zenon DEF AnswerSkill
<1>2. copy = <<>>
  BY <1>1, EmptyHand DEF Listed
<1>3. /\ r \in SkillRecord /\ r.status = "validated" /\ r.tasks = {task}
      /\ r.count = Unused /\ r.sources # {}
  BY <1>1, NewSkillTyped
<1> HIDE DEF r
<1>4. StoreInv'
  BY <1>1, <1>2, QuietStore DEF KnowledgeInv, disk, history, Holding
<1>5. ControlInv' /\ ConsolidationInv'
  <2>1. /\ activeThen' \subseteq DOMAIN memories'
        /\ earned' \in [1..MaxSkills -> SUBSET Tasks]
    BY <1>1 DEF KnowledgeInv, ControlInv, Active, disk, history
  <2>2. pc \in Reflecting \cup Inducing
        /\ pc' \in ((Reflecting \cup Inducing) \ {"reflect"}) \cup {"derive", "save"}
    BY <1>1 DEF Reflecting, Inducing
  <2> QED BY <1>1, <2>1, <2>2, MakingFrame DEF disk, history
<1>6. HandInv'
  BY <1>1, <1>2 DEF HandInv, Row
<1>7. MadeInv'
  <2>1. made'[1] = r /\ made' = <<made'[1]>>
    BY <1>1
  <2>2. memories' = memories /\ skills' = skills /\ task' = task
    BY <1>1 DEF disk, session
  <2>3. NewSkillInv(made[1])'
    BY <1>1, <1>3, <2>1, <2>2 DEF NewSkillInv
  <2> QED BY <1>1, <1>3, <2>1, <2>3 DEF MadeInv, Persisting, Reflecting, Inducing, AfterWork
<1> QED BY <1>4, <1>5, <1>6, <1>7 DEF KnowledgeInv

\* The tests of a skill that was made: _active_sources and SkillValidator.
LEMMA SkillCheckStep ==
    ASSUME KnowledgeInv, CheckSources \/ ValidateSkill
    PROVE  KnowledgeInv'
<1>1. /\ UNCHANGED <<disk, tree, cfg, session, packs, work, refused, crashes, history>>
      /\ \/ pc = "sources" /\ pc' \in {"validate", "save"}
         \/ pc = "validate" /\ pc' = "save"
         \/ pc = "validate" /\ pc' = "search" /\ Valid(made[1])
  BY DEF CheckSources, ValidateSkill
<1>2. copy = <<>>
  BY <1>1, EmptyHand DEF Listed
<1>3. StoreInv'
  BY <1>1, <1>2, QuietStore DEF KnowledgeInv, disk, work, history, Holding
<1>4. ControlInv' /\ ConsolidationInv'
  <2>1. /\ activeThen \subseteq DOMAIN memories
        /\ earned \in [1..MaxSkills -> SUBSET Tasks]
    BY DEF KnowledgeInv, ControlInv
  <2>2. pc \in Reflecting \cup Inducing
        /\ pc' \in ((Reflecting \cup Inducing) \ {"reflect"}) \cup {"derive", "save"}
    BY <1>1 DEF Reflecting, Inducing
  <2> QED BY <1>1, <2>1, <2>2, MakingFrame DEF disk, work, history
<1>5. HandInv'
  BY <1>1, <1>2 DEF HandInv, Row, work
<1>6. MadeInv'
  <2>1. made = <<made[1]>> /\ NewSkillInv(made[1])
    BY <1>1 DEF KnowledgeInv, MadeInv, Inducing
  <2>2. CASE pc' = "save"
    BY <1>1, <2>2, NothingMade DEF work, Persisting, Reflecting, Inducing, AfterWork
  <2>3. CASE pc' \in {"validate", "search"}
    <3>1. made' = made /\ memories' = memories /\ skills' = skills /\ task' = task
          /\ activeThen' = activeThen /\ packs' = packs
      BY <1>1 DEF disk, session, work
    <3>2. pc' = "search" /\ made[1].scope = "portable" => made[1].sources \subseteq activeThen
      BY <1>1, <2>1 DEF Valid, AllActive, NewSkillInv
    <3>3. NewSkillInv(made[1])'
      BY <2>1, <2>3, <3>1, <3>2 DEF NewSkillInv
    <3>4. made[1] \in SkillRecord
      BY <2>1 DEF NewSkillInv
    <3> QED BY <2>1, <2>3, <3>1, <3>3, <3>4
            DEF MadeInv, Persisting, Reflecting, Inducing, AfterWork
  <2> QED BY <1>1, <2>2, <2>3
<1> QED BY <1>3, <1>4, <1>5, <1>6 DEF KnowledgeInv

LEMMA FindDerivationStep ==
    ASSUME KnowledgeInv, FindDerivation
    PROVE  KnowledgeInv'
<1> DEFINE duplicates == find_skill_by_derivation(skills, made[1].sources)
<1>1. /\ pc = "search"
      /\ UNCHANGED <<disk, tree, cfg, session, packs, todo, made, sources, activeThen,
                     refused, crashes, history>>
      /\ \/ duplicates = {} /\ pc' = "add" /\ copy' = copy
         \/ pc' = "upsert" /\ \E s \in duplicates : Load(Skill(s))
  BY DEF FindDerivation
<1>2. copy = <<>>
  BY <1>1, EmptyHand DEF Listed
<1>3. ControlInv' /\ ConsolidationInv'
  <2>1. /\ activeThen \subseteq DOMAIN memories
        /\ earned \in [1..MaxSkills -> SUBSET Tasks]
    BY DEF KnowledgeInv, ControlInv
  <2>2. pc \in Reflecting \cup Inducing
        /\ pc' \in ((Reflecting \cup Inducing) \ {"reflect"}) \cup {"derive", "save"}
    BY <1>1 DEF Reflecting, Inducing
  <2> QED BY <1>1, <2>1, <2>2, MakingFrame DEF disk, history
<1>4. MadeInv'
  <2>1. made = <<made[1]>> /\ NewSkillInv(made[1])
    BY <1>1 DEF KnowledgeInv, MadeInv, Inducing
  <2>2. /\ made' = made /\ memories' = memories /\ skills' = skills /\ task' = task
        /\ activeThen' = activeThen /\ packs' = packs
    BY <1>1 DEF disk, session
  <2>3. NewSkillInv(made[1])'
    BY <1>1, <2>1, <2>2 DEF NewSkillInv
  <2>4. pc' \in {"add", "upsert"} /\ made[1] \in SkillRecord
    BY <1>1, <2>1 DEF NewSkillInv
  <2> QED BY <2>1, <2>2, <2>3, <2>4 DEF MadeInv, AfterWork, Persisting, Reflecting, Inducing
<1>5. CASE pc' = "add" /\ copy' = copy
  <2>1. StoreInv'
    BY <1>1, <1>2, <1>5, QuietStore DEF KnowledgeInv, disk, history, Holding
  <2>2. HandInv'
    BY <1>2, <1>5 DEF HandInv, Row
  <2> QED BY <1>3, <1>4, <2>1, <2>2 DEF KnowledgeInv
<1>6. CASE pc' = "upsert" /\ \E s \in duplicates : Load(Skill(s))
  <2>1. PICK s \in duplicates : Load(Skill(s))
    BY <1>6
  <2>2. Skill(s) \in Existing(memories, skills) /\ Skill(s).kind = "skill"
    BY DEF find_skill_by_derivation, Existing, Skill
  <2>3. StoreInv'
    BY <1>1, <2>1, <2>2, LoadedStore DEF KnowledgeInv, disk, history
  <2>4. copy'[1] = Skill(s) /\ copy' # <<>>
    BY <2>1 DEF Load
  <2>5. HandInv'
    BY <1>1, <1>6, <2>2, <2>4 DEF HandInv, Row, Listed, disk
  <2> QED BY <1>3, <1>4, <2>3, <2>5 DEF KnowledgeInv
<1> QED BY <1>1, <1>5, <1>6

LEMMA SaveDerivationStep ==
    ASSUME KnowledgeInv, SaveDerivation
    PROVE  KnowledgeInv'
<1> DEFINE s == copy[1].id
<1>1. pc = "upsert" /\ copy # <<>> /\ copy[1].kind = "skill"
  BY DEF KnowledgeInv, HandInv, SaveDerivation
<1>2. ~cfg.frozen /\ Holding
  BY <1>1 DEF KnowledgeInv, ConsolidationInv, Inducing, Holding
<1>3. /\ WriteBack(copy[2]) /\ pc' = "save"
      /\ UNCHANGED <<uses, episodes, sessions, tree, cfg, session, packs, todo, made,
                     sources, activeThen, refused, crashes, history>>
  BY <1>2 DEF SaveDerivation
<1>4. /\ copy' = <<>> /\ Sound(BackMemories, BackSkills, packs, episodes, earned, withdrawn)
      /\ DOMAIN memories' = DOMAIN memories /\ DOMAIN skills' = DOMAIN skills
      /\ s \in DOMAIN BackSkills /\ copy[2] = BackSkills[s]
      /\ skills' = [BackSkills EXCEPT ![s] = copy[2]] /\ memories' = BackMemories
  BY <1>1, <1>2, <1>3, Written
<1>5. skills' = BackSkills
  <2>1. BackSkills \in Seq(SkillRecord)
    BY <1>4 DEF Sound, Typed
  <2> HIDE DEF s
  <2> QED BY <1>4, <2>1
<1>6. StoreInv'
  BY <1>3, <1>4, <1>5 DEF StoreInv, history, Holding
<1>7. ControlInv' /\ ConsolidationInv'
  <2>1. /\ activeThen \subseteq DOMAIN memories
        /\ earned \in [1..MaxSkills -> SUBSET Tasks]
    BY DEF KnowledgeInv, ControlInv
  <2>2. pc \in Reflecting \cup Inducing
        /\ pc' \in ((Reflecting \cup Inducing) \ {"reflect"}) \cup {"derive", "save"}
    BY <1>1, <1>3 DEF Reflecting, Inducing
  <2> QED BY <1>3, <1>4, <2>1, <2>2, MakingFrame DEF history
<1>8. HandInv' /\ MadeInv'
  BY <1>1, <1>3, <1>4, NothingMade
     DEF HandInv, Row, Persisting, Reflecting, Inducing, AfterWork
<1> QED BY <1>6, <1>7, <1>8 DEF KnowledgeInv

LEMMA SaveNewSkillStep ==
    ASSUME KnowledgeInv, SaveNewSkill
    PROVE  KnowledgeInv'
<1> DEFINE r == made[1]
           k == Len(skills) + 1
<1>1. pc = "add" /\ ~cfg.frozen /\ copy = <<>>
  BY EmptyHand DEF KnowledgeInv, ConsolidationInv, SaveNewSkill, Inducing, Listed
<1>2. /\ skills' = skills \o made /\ pc' = "save"
      /\ earned' = [earned EXCEPT ![k] = {task}]
      /\ UNCHANGED <<memories, uses, episodes, sessions, tree, cfg, session, packs, work,
                     refused, crashes, telemetry, withdrawn>>
  BY <1>1 DEF SaveNewSkill
<1>3. made = <<r>> /\ NewSkillInv(r)
  BY <1>1 DEF KnowledgeInv, MadeInv, Inducing
<1> HIDE DEF r
<1>4. Sound(memories, skills, packs, episodes, earned, withdrawn)
  BY DEF KnowledgeInv, StoreInv
<1>5. /\ skills \in Seq(SkillRecord) /\ r \in SkillRecord /\ Len(skills) < MaxSkills
      /\ task \in Tasks /\ earned \in [1..MaxSkills -> SUBSET Tasks]
      /\ activeThen \subseteq DOMAIN memories
  BY <1>1, <1>3, <1>4 DEF Sound, Typed, NewSkillInv, KnowledgeInv, ControlInv, AfterWork,
                          Inducing
<1>6. skills' = Append(skills, r)
  BY <1>2, <1>3, <1>5
<1>7. k \in 1..MaxSkills /\ earned' \in [1..MaxSkills -> SUBSET Tasks]
  BY <1>2, <1>5, KnowledgeStoreAssumption
<1>8. Sound(memories', skills', packs, episodes, earned', withdrawn)
  <2>1. r.status = "validated" /\ r.tasks = {task}
    BY <1>3 DEF NewSkillInv
  <2>2. r.scope = "portable" => r.sources \subseteq DOMAIN memories
    BY <1>1, <1>3, <1>5 DEF NewSkillInv
  <2>3. \A s \in DOMAIN skills : skills[s].status \in Live => skills[s].sources # r.sources
    BY <1>1, <1>3 DEF NewSkillInv, find_skill_by_derivation
  <2>4. Sound(memories, Append(skills, r), packs, episodes,
              [earned EXCEPT ![Len(skills) + 1] = {task}], withdrawn)
    BY <1>4, <1>5, <2>1, <2>2, <2>3, NewSkillSound
  <2> QED BY <1>2, <1>6, <2>4
<1>9. DOMAIN skills \subseteq DOMAIN skills'
  BY <1>5, <1>6
<1>10. StoreInv'
  BY <1>1, <1>2, <1>8 DEF StoreInv, work, Holding
<1>11. ControlInv' /\ ConsolidationInv'
  <2>1. pc \in Reflecting \cup Inducing
        /\ pc' \in ((Reflecting \cup Inducing) \ {"reflect"}) \cup {"derive", "save"}
    BY <1>1, <1>2 DEF Reflecting, Inducing
  <2> QED BY <1>2, <1>5, <1>7, <1>9, <2>1, MakingFrame DEF work
<1>12. HandInv' /\ MadeInv'
  BY <1>1, <1>2, NothingMade DEF work, HandInv, Row, Persisting, Reflecting, Inducing, AfterWork
<1> QED BY <1>10, <1>11, <1>12 DEF KnowledgeInv

\* What a withdrawal leaves to the process: the record in hand exists, and the one
\* that was made may be saved as before.
LEMMA WithdrawQuiet ==
    ASSUME KnowledgeInv, NEW item, Withdraw(item),
           DOMAIN memories' = DOMAIN memories, DOMAIN skills' = DOMAIN skills,
           Len(memories') = Len(memories), Len(skills') = Len(skills),
           \A m \in DOMAIN memories :
              /\ memories'[m].lesson = memories[m].lesson
              /\ memories'[m].status \in {memories[m].status, "invalidated"},
           \A s \in DOMAIN skills :
              /\ skills'[s].sources = skills[s].sources
              /\ skills'[s].status \in {skills[s].status, "deprecated"}
    PROVE  ControlInv' /\ HandInv' /\ MadeInv' /\ ConsolidationInv'
<1>1. Existing(memories, skills)' = Existing(memories, skills)
  BY DEF Existing
<1>2. Todo(memories, skills)' = Todo(memories, skills)
  BY <1>1 DEF Todo
<1>3. UNCHANGED <<pc, cfg, task, exposed, referenced, outcome, todo, copy, made, sources,
                  activeThen, packs, episodes>>
  BY DEF Withdraw, session, work
<1>4. ControlInv'
  BY <1>1, <1>2, <1>3 DEF KnowledgeInv, ControlInv, Withdraw
<1>5. HandInv'
  BY <1>1, <1>3 DEF KnowledgeInv, HandInv
<1>6. Active(memories') \subseteq Active(memories)
  BY DEF Active
<1>7. MadeInv'
  <2>1. ASSUME NewMemoryInv(made[1]) PROVE NewMemoryInv(made[1])'
    <3>1. /\ find_conflicts(memories', made[1].lesson) \subseteq find_conflicts(memories, made[1].lesson)
          /\ find_duplicate_memory(memories', made[1].lesson)
                \subseteq find_duplicate_memory(memories, made[1].lesson)
      BY <1>6 DEF find_conflicts, find_duplicate_memory, Active
    <3> QED BY <1>3, <2>1, <3>1 DEF NewMemoryInv
  <2>2. ASSUME NewSkillInv(made[1]) PROVE NewSkillInv(made[1])'
    <3>1. find_skill_by_derivation(skills', made[1].sources)
            \subseteq find_skill_by_derivation(skills, made[1].sources)
      BY DEF find_skill_by_derivation, Live
    <3> QED BY <1>3, <1>6, <2>2, <3>1 DEF NewSkillInv
  <2> QED BY <1>3, <2>1, <2>2 DEF KnowledgeInv, MadeInv
<1>8. ConsolidationInv'
  <2>1. Attribution(outcome)' = Attribution(outcome)
    BY <1>3 DEF Attribution
  <2>2. earned' = earned /\ refused' = refused
    BY DEF Withdraw
  <2> HIDE DEF Attribution
  <2> QED BY <1>3, <2>1, <2>2 DEF KnowledgeInv, ConsolidationInv
<1> QED BY <1>4, <1>5, <1>7, <1>8

LEMMA InvalidateStep ==
    ASSUME KnowledgeInv, NEW m \in DOMAIN memories, Invalidate(m)
    PROVE  KnowledgeInv'
<1> DEFINE gone == withdrawn \cup {Memory(m)}
           held == copy[1]
<1>1. Sound(memories, skills, packs, episodes, earned, withdrawn)
  BY DEF KnowledgeInv, StoreInv
<1>2. /\ memories' = [memories EXCEPT ![m].status = "invalidated"] /\ skills' = skills
      /\ Withdraw(Memory(m))
      /\ UNCHANGED <<pc, cfg, copy, packs, episodes, earned>>
      /\ withdrawn' = IF InHand(Memory(m)) THEN withdrawn ELSE gone
  BY DEF Invalidate, Withdraw, work
<1>3. Sound(memories', skills, packs, episodes, earned, gone) /\ DOMAIN memories' = DOMAIN memories
  BY <1>1, <1>2, InvalidatedSound
<1>4. Sound(memories, skills, packs, episodes, earned, withdrawn)'
  BY <1>2, <1>3, LessGone
<1>5. ASSUME Holding
      PROVE  Sound(BackMemories, BackSkills, packs, episodes, earned, withdrawn)'
  <2>1. Sound(BackMemories, BackSkills, packs, episodes, earned, withdrawn)
    BY <1>5 DEF KnowledgeInv, StoreInv
  <2>2. memories \in Seq(MemoryRecord(1..packs))
    BY <1>1 DEF Sound, Typed
  <2>3. \/ held.kind = "memory" /\ held = Memory(held.id) /\ held.id \in DOMAIN memories
        \/ held.kind = "skill" /\ held = Skill(held.id) /\ held.id \in DOMAIN skills
    BY <1>5, HeldRecord
  <2>4. CASE held = Memory(m)
    <3>1. InHand(Memory(m)) /\ held.kind = "memory" /\ held.id = m
      BY <1>5, <2>4 DEF InHand, Holding, Memory
    <3>2. BackMemories' = BackMemories /\ BackSkills' = BackSkills /\ withdrawn' = withdrawn
      BY <1>2, <2>2, <3>1 DEF BackMemories, BackSkills
    <3> QED BY <1>2, <2>1, <3>2
  <2>5. CASE held # Memory(m)
    <3>1. ~InHand(Memory(m)) /\ withdrawn' = gone
      BY <1>2, <2>5 DEF InHand
    <3>2. /\ BackMemories' = [BackMemories EXCEPT ![m].status = "invalidated"]
          /\ BackSkills' = BackSkills /\ DOMAIN BackMemories = DOMAIN memories
      BY <1>2, <2>2, <2>3, <2>5 DEF BackMemories, BackSkills, Memory
    <3>3. Sound([BackMemories EXCEPT ![m].status = "invalidated"], BackSkills, packs,
                episodes, earned, gone)
      BY <2>1, <3>2, InvalidatedSound
    <3> QED BY <1>2, <3>1, <3>2, <3>3
  <2> QED BY <2>4, <2>5
<1>6. StoreInv'
  BY <1>2, <1>4, <1>5 DEF StoreInv, Holding
<1>7. ControlInv' /\ HandInv' /\ MadeInv' /\ ConsolidationInv'
  <2>1. /\ Len(memories') = Len(memories)
        /\ \A l \in DOMAIN memories :
              /\ memories'[l].lesson = memories[l].lesson
              /\ memories'[l].status \in {memories[l].status, "invalidated"}
    <3>1. \A l \in DOMAIN memories : memories[l] \in MemoryRecord(1..packs)
      BY <1>1 DEF Sound, Typed
    <3>2. memories \in Seq(MemoryRecord(1..packs))
      BY <1>1 DEF Sound, Typed
    <3> QED BY <1>2, <3>1, <3>2 DEF MemoryRecord
  <2> QED BY <1>2, <1>3, <2>1, WithdrawQuiet
<1> QED BY <1>6, <1>7 DEF KnowledgeInv

LEMMA DeprecateStep ==
    ASSUME KnowledgeInv, NEW s \in DOMAIN skills, Deprecate(s)
    PROVE  KnowledgeInv'
<1> DEFINE gone == withdrawn \cup {Skill(s)}
           held == copy[1]
<1>1. Sound(memories, skills, packs, episodes, earned, withdrawn)
  BY DEF KnowledgeInv, StoreInv
<1>2. /\ skills' = [skills EXCEPT ![s].status = "deprecated"] /\ memories' = memories
      /\ Withdraw(Skill(s))
      /\ UNCHANGED <<pc, cfg, copy, packs, episodes, earned>>
      /\ withdrawn' = IF InHand(Skill(s)) THEN withdrawn ELSE gone
  BY DEF Deprecate, Withdraw, work
<1>3. Sound(memories, skills', packs, episodes, earned, gone) /\ DOMAIN skills' = DOMAIN skills
  BY <1>1, <1>2, DeprecatedSound
<1>4. Sound(memories, skills, packs, episodes, earned, withdrawn)'
  BY <1>2, <1>3, LessGone
<1>5. ASSUME Holding
      PROVE  Sound(BackMemories, BackSkills, packs, episodes, earned, withdrawn)'
  <2>1. Sound(BackMemories, BackSkills, packs, episodes, earned, withdrawn)
    BY <1>5 DEF KnowledgeInv, StoreInv
  <2>2. skills \in Seq(SkillRecord)
    BY <1>1 DEF Sound, Typed
  <2>3. \/ held.kind = "memory" /\ held = Memory(held.id) /\ held.id \in DOMAIN memories
        \/ held.kind = "skill" /\ held = Skill(held.id) /\ held.id \in DOMAIN skills
    BY <1>5, HeldRecord
  <2>4. CASE held = Skill(s)
    <3>1. InHand(Skill(s)) /\ held.kind = "skill" /\ held.id = s
      BY <1>5, <2>4 DEF InHand, Holding, Skill
    <3>2. BackMemories' = BackMemories /\ BackSkills' = BackSkills /\ withdrawn' = withdrawn
      BY <1>2, <2>2, <3>1 DEF BackMemories, BackSkills
    <3> QED BY <1>2, <2>1, <3>2
  <2>5. CASE held # Skill(s)
    <3>1. ~InHand(Skill(s)) /\ withdrawn' = gone
      BY <1>2, <2>5 DEF InHand
    <3>2. /\ BackSkills' = [BackSkills EXCEPT ![s].status = "deprecated"]
          /\ BackMemories' = BackMemories /\ DOMAIN BackSkills = DOMAIN skills
      BY <1>2, <2>2, <2>3, <2>5 DEF BackMemories, BackSkills, Skill
    <3>3. Sound(BackMemories, [BackSkills EXCEPT ![s].status = "deprecated"], packs,
                episodes, earned, gone)
      BY <2>1, <3>2, DeprecatedSound
    <3> QED BY <1>2, <3>1, <3>2, <3>3
  <2> QED BY <2>4, <2>5
<1>6. StoreInv'
  BY <1>2, <1>4, <1>5 DEF StoreInv, Holding
<1>7. ControlInv' /\ HandInv' /\ MadeInv' /\ ConsolidationInv'
  <2>1. /\ Len(skills') = Len(skills)
        /\ \A l \in DOMAIN skills :
              /\ skills'[l].sources = skills[l].sources
              /\ skills'[l].status \in {skills[l].status, "deprecated"}
    <3>1. \A l \in DOMAIN skills : skills[l] \in SkillRecord
      BY <1>1 DEF Sound, Typed
    <3>2. skills \in Seq(SkillRecord)
      BY <1>1 DEF Sound, Typed
    <3> QED BY <1>2, <3>1, <3>2 DEF SkillRecord
  <2> QED BY <1>2, <1>3, <2>1, WithdrawQuiet
<1> QED BY <1>6, <1>7 DEF KnowledgeInv

LEMMA KnowledgeStep == KnowledgeInv /\ [Next]_vars => KnowledgeInv'
<1> SUFFICES ASSUME KnowledgeInv, [Next]_vars
             PROVE  KnowledgeInv'
  OBVIOUS
<1>1. CASE Start \/ Exit \/ Crash \/ SaveSession
  BY <1>1, ProcessStep
<1>2. CASE \E t \in Tasks : Retrieve(t)
  BY <1>2, RetrieveStep
<1>3. CASE LoadUse \/ SaveUse \/ AppendUse
  BY <1>3, LoadUseStep, SaveUseStep, AppendUseStep
<1>4. CASE Work \/ BeginUtility \/ LoadUtility \/ SaveUtility
  BY <1>4, WorkStep, BeginUtilityStep, LoadUtilityStep, SaveUtilityStep
<1>5. CASE PersistEpisode \/ ReflectionFails
  BY <1>5, PersistEpisodeStep, ReflectionFailsStep
<1>6. CASE NoCandidate \/ ReadSources \/ QueryDerivedSkill \/ NoSkill
  BY <1>6, PassingStep
<1>7. CASE (\E d \in Drafts : EvaluateGate(d)) \/ FindDuplicate \/ SaveMerge \/ SaveNewMemory
  BY <1>7, EvaluateGateStep, FindDuplicateStep, SaveMergeStep, SaveNewMemoryStep
<1>8. CASE (\E d \in SkillDrafts : AnswerSkill(d)) \/ CheckSources \/ ValidateSkill
  BY <1>8, AnswerSkillStep, SkillCheckStep
<1>9. CASE FindDerivation \/ SaveDerivation \/ SaveNewSkill
  BY <1>9, FindDerivationStep, SaveDerivationStep, SaveNewSkillStep
<1>10. CASE CommandLine
  BY <1>10, InvalidateStep, DeprecateStep DEF CommandLine
<1>11. CASE UNCHANGED vars
  <2>1. UNCHANGED <<memories, skills, uses, episodes, sessions, tree, pc, cfg, task, exposed,
                    referenced, outcome, packs, todo, copy, made, sources, activeThen, refused,
                    crashes, telemetry, withdrawn, earned>>
    BY <1>11 DEF vars, disk, session, work, history
  <2>2. StoreInv'
    BY <2>1 DEF KnowledgeInv, StoreInv, Holding, BackMemories, BackSkills
  <2>3. ControlInv'
    BY <2>1 DEF KnowledgeInv, ControlInv
  <2>4. HandInv'
    BY <2>1 DEF KnowledgeInv, HandInv
  <2>5. MadeInv'
    BY <2>1 DEF KnowledgeInv, MadeInv, NewMemoryInv, NewSkillInv
  <2>6. ConsolidationInv'
    BY <2>1 DEF KnowledgeInv, ConsolidationInv, Attribution
  <2> QED BY <2>2, <2>3, <2>4, <2>5, <2>6 DEF KnowledgeInv
<1> QED BY <1>1, <1>2, <1>3, <1>4, <1>5, <1>6, <1>7, <1>8, <1>9, <1>10, <1>11 DEF Next, Run

LEMMA AlwaysKnowledgeInv == Spec => []KnowledgeInv
BY InitInv, KnowledgeStep, PTL DEF Spec

-----------------------------------------------------------------------------
\* The theorems.

\* Whatever sessions, crashes and withdrawals do in whatever order, the records
\* on disk stay records of the code, and the process is where it can be.
THEOREM KnowledgeTypeCorrect == Spec => []TypeOK
<1>1. KnowledgeInv => TypeOK
  <2> SUFFICES ASSUME KnowledgeInv PROVE TypeOK
    OBVIOUS
  <2>1. Typed(memories, skills, Episode)
    BY DEF KnowledgeInv, StoreInv, Sound, Episode
  <2>2. exposed \subseteq Item
    BY <2>1, ExistingIsItem DEF KnowledgeInv, ControlInv
  <2>3. packs \in 0..MaxPacks /\ sessions \in [Projects -> 0..MaxPacks]
    BY KnowledgeAssumption DEF KnowledgeInv, ControlInv
  <2>4. refused \in BOOLEAN
    BY DEF KnowledgeInv, ConsolidationInv
  <2>5. /\ copy # <<>> => copy[1] \in Existing(memories, skills)
        /\ made # <<>> => made[1] \in MemoryRecord(Episode) \cup SkillRecord
    BY DEF KnowledgeInv, HandInv, MadeInv, Episode
  <2> QED BY <2>1, <2>2, <2>3, <2>4, <2>5
          DEF KnowledgeInv, ControlInv, AfterWork, Reflecting, Inducing, TypeOK, Episode
<1> QED BY <1>1, AlwaysKnowledgeInv, PTL

\* No skill becomes ACTIVE but for different tasks that ended well with it, as
\* many as promotion asks for, however often sessions are repeated
\* (skill_lifecycle.py, record_success).
THEOREM SkillsAreEarned == Spec => []ActiveSkillIsEarned
<1>1. KnowledgeInv => ActiveSkillIsEarned
  BY DEF KnowledgeInv, StoreInv, Sound, ActiveSkillIsEarned
<1> QED BY <1>1, AlwaysKnowledgeInv, PTL

\* A withdrawal lasts, but for one that comes while a process has read the record
\* and is to write it back: for a use, a verdict, the merge of a memory or a
\* derivation that is known (store.py, memory_lifecycle.py, skill_lifecycle.py).
THEOREM WithdrawalsLast == Spec => []WithdrawnStaysWithdrawn
<1>1. KnowledgeInv => WithdrawnStaysWithdrawn
  <2>1. Kept(memories, skills, withdrawn) => WithdrawnStaysWithdrawn
    BY DEF Kept, WithdrawnStaysWithdrawn, Record, Memory, Skill
  <2> QED BY <2>1 DEF KnowledgeInv, StoreInv, Sound
<1> QED BY <1>1, AlwaysKnowledgeInv, PTL

\* What memories cite and portable skills were derived from is on disk, wherever
\* the process dies (store.py, memory_lifecycle.py, skill_lifecycle.py).
THEOREM ProvenanceIsKept == Spec => []ProvenanceIsSaved
<1>1. KnowledgeInv => ProvenanceIsSaved
  BY DEF KnowledgeInv, StoreInv, Sound, ProvenanceIsSaved
<1> QED BY <1>1, AlwaysKnowledgeInv, PTL

\* The memories that are offered never repeat or contradict each other, and no
\* two live skills have the same derivation (conflict.py, store.py,
\* find_skill_by_derivation).
THEOREM OfferedKnowledgeAgrees == Spec => []KnowledgeAgrees
<1>1. KnowledgeInv => KnowledgeAgrees
  BY DEF KnowledgeInv, StoreInv, Sound, KnowledgeAgrees
<1> QED BY <1>1, AlwaysKnowledgeInv, PTL

\* Nothing but SaveNewSkill adds a skill.
LEMMA OnlyNewSkill ==
    ASSUME KnowledgeInv, Next, ~SaveNewSkill
    PROVE  DOMAIN skills' = DOMAIN skills
<1>1. CASE SaveUse \/ SaveUtility \/ SaveMerge \/ SaveDerivation
  BY <1>1 DEF SaveUse, SaveUtility, SaveMerge, SaveDerivation, WriteBack, Refuse, disk
<1>2. CASE CommandLine
  BY <1>2 DEF CommandLine, Invalidate, Deprecate
<1>3. CASE SaveNewMemory
  BY <1>3 DEF SaveNewMemory, Refuse, disk
<1>4. CASE UNCHANGED skills
  BY <1>4
<1> QED BY <1>1, <1>2, <1>3, <1>4
        DEF Next, Run, Start, Exit, Crash, Retrieve, LoadUse, AppendUse, Work, BeginUtility,
            LoadUtility, PersistEpisode, NoCandidate, ReflectionFails, EvaluateGate,
            FindDuplicate, ReadSources, QueryDerivedSkill, NoSkill, AnswerSkill, CheckSources,
            ValidateSkill, FindDerivation, SaveSession, disk

\* A portable skill is made only of memories that were active still when the model
\* had answered, not only when its sources were read (skill_lifecycle.py,
\* SkillValidator.validate).
THEOREM PortableSkillsFromActive == Spec => PortableFromActive
<1> DEFINE A == \A s \in DOMAIN skills' \ DOMAIN skills :
                   skills'[s].scope = "portable" => skills'[s].sources \subseteq activeThen
<1>1. KnowledgeInv /\ [Next]_vars => [A]_vars
  <2> SUFFICES ASSUME KnowledgeInv, Next PROVE A
    OBVIOUS
  <2>1. CASE SaveNewSkill
    <3>1. pc = "add" /\ ~cfg.frozen
      BY <2>1 DEF KnowledgeInv, ConsolidationInv, SaveNewSkill, Inducing
    <3>2. made = <<made[1]>> /\ NewSkillInv(made[1])
      BY <3>1 DEF KnowledgeInv, MadeInv, Inducing
    <3> DEFINE r == made[1]
    <3>3. r.scope = "portable" => r.sources \subseteq activeThen
      BY <3>1, <3>2 DEF NewSkillInv
    <3>4. skills \in Seq(SkillRecord) /\ r \in SkillRecord
      BY <3>2 DEF KnowledgeInv, StoreInv, Sound, Typed, NewSkillInv
    <3>5. skills' = skills \o <<r>>
      BY <2>1, <3>1, <3>2 DEF SaveNewSkill
    <3> HIDE DEF r
    <3> QED BY <3>3, <3>4, <3>5
  <2>2. CASE ~SaveNewSkill
    BY <2>2, OnlyNewSkill
  <2> QED BY <2>1, <2>2
<1> QED BY <1>1, AlwaysKnowledgeInv, PTL DEF Spec, PortableFromActive

\* A process with frozen records changes none and has none of its attempts
\* refused, because it makes none (store.py, _guard_record_mutation).
THEOREM FrozenRecordsAreRead == Spec => FrozenOnlyReads
<1> DEFINE A == (cfg.frozen /\ pc # "off" /\ <<pc, todo, copy>>' # <<pc, todo, copy>>)
                  => <<memories, skills>>' = <<memories, skills>> /\ ~refused'
<1>1. KnowledgeInv /\ [Next]_vars => [A]_vars
  <2> SUFFICES ASSUME KnowledgeInv, Next, cfg.frozen, pc # "off",
                      <<pc, todo, copy>>' # <<pc, todo, copy>>
               PROVE  memories' = memories /\ skills' = skills /\ ~refused'
    OBVIOUS
  <2>1. ~refused'
    BY KnowledgeStep DEF KnowledgeInv, ConsolidationInv
  <2>2. ~SaveUtility
    BY DEF KnowledgeInv, HandInv, ConsolidationInv, SaveUtility, Listed
  <2>3. ~SaveMerge /\ ~SaveNewMemory /\ ~SaveDerivation /\ ~SaveNewSkill
    BY DEF KnowledgeInv, ConsolidationInv, Reflecting, Inducing, SaveMerge, SaveNewMemory,
           SaveDerivation, SaveNewSkill
  <2>4. ~CommandLine
    BY DEF CommandLine, Invalidate, Deprecate, Withdraw, work
  <2>5. SaveUse => memories' = memories /\ skills' = skills
    BY DEF SaveUse
  <2> QED BY <2>1, <2>2, <2>3, <2>4, <2>5
          DEF Next, Run, Start, Exit, Crash, Retrieve, LoadUse, AppendUse, Work, BeginUtility,
              LoadUtility, PersistEpisode, NoCandidate, ReflectionFails, EvaluateGate,
              FindDuplicate, ReadSources, QueryDerivedSkill, NoSkill, AnswerSkill,
              CheckSources, ValidateSkill, FindDerivation, SaveSession, disk
<1> QED BY <1>1, AlwaysKnowledgeInv, PTL DEF Spec, FrozenOnlyReads

-----------------------------------------------------------------------------
\* The counters and the log of uses.

\* The log is a finite set of uses of records that exist, and what frozen
\* processes wrote is part of it.
LogInv ==
    /\ IsFiniteSet(uses) /\ telemetry \subseteq uses
    /\ \A u \in uses : u.item \in Existing(memories, skills)

\* A use that is being counted is not in the log, and the copy of a record has its
\* counters.
CopyInv ==
    /\ (copy # <<>> /\ pc \in {"expose", "attribute"}) \/ pc \in Row
          => Use(Head(todo).item, Head(todo).type) \notin uses
    /\ Holding => copy[2].count = Record(copy[1]).count

\* The counter of the use in hand.
Due == <<Head(todo).item, Head(todo).type>>

\* The counter of the use in hand was saved, and its row is not written.
Ahead == Between /\ Due \in Counters(memories, skills)

\* A use that was counted and has no row yet is the one in hand, or its process
\* has crashed.
BalanceInv ==
    /\ \A c \in DOMAIN Unlogged : Unlogged[c] \in Nat
    /\ Ahead => Unlogged[Due] > 0
    /\ IsFiniteSet(Missing)
    /\ Cardinality(Missing) <= crashes + (IF Ahead THEN 1 ELSE 0)

CountInv == LogInv /\ CopyInv /\ BalanceInv

LEMMA NumberedMember ==
    ASSUME NEW D, NEW G, DOMAIN G = D, NEW x
    PROVE  x \in Numbered(G) <=> \E d \in D : \E n \in 1..G[d] : x = <<d, n>>
BY DEF Numbered

\* New counters that are 0 add nothing.
LEMMA NumberedSame ==
    ASSUME NEW G, NEW F, DOMAIN G \subseteq DOMAIN F,
           \A d \in DOMAIN G : F[d] = G[d], \A d \in DOMAIN F \ DOMAIN G : F[d] = 0
    PROVE  Numbered(F) = Numbered(G)
<1>1. ASSUME NEW x \in Numbered(F)
      PROVE  x \in Numbered(G)
  <2>1. PICK d \in DOMAIN F : \E n \in 1..F[d] : x = <<d, n>>
    BY NumberedMember
  <2>2. d \in DOMAIN G
    BY <2>1
  <2> QED BY <2>1, <2>2, NumberedMember
<1>2. ASSUME NEW x \in Numbered(G)
      PROVE  x \in Numbered(F)
  <2>1. PICK d \in DOMAIN G : \E n \in 1..G[d] : x = <<d, n>>
    BY NumberedMember
  <2> QED BY <2>1, NumberedMember
<1> QED BY <1>1, <1>2

\* A counter that is one ahead of what it was.
LEMMA NumberedMore ==
    ASSUME NEW G, NEW F, DOMAIN F = DOMAIN G, NEW c \in DOMAIN G,
           G[c] \in Nat, F[c] = G[c] + 1, \A d \in DOMAIN G \ {c} : F[d] = G[d]
    PROVE  /\ Numbered(F) = Numbered(G) \cup {<<c, F[c]>>}
           /\ Numbered(G) = Numbered(F) \ {<<c, F[c]>>}
           /\ <<c, F[c]>> \in Numbered(F) /\ <<c, F[c]>> \notin Numbered(G)
<1>1. 1..F[c] = (1..G[c]) \cup {F[c]} /\ F[c] \notin 1..G[c]
  OBVIOUS
<1>2. ASSUME NEW x
      PROVE  x \in Numbered(F) <=> x \in Numbered(G) \/ x = <<c, F[c]>>
  <2>1. ASSUME NEW d \in DOMAIN G \ {c}
        PROVE  (\E n \in 1..F[d] : x = <<d, n>>) <=> (\E n \in 1..G[d] : x = <<d, n>>)
    OBVIOUS
  <2>2. (\E n \in 1..F[c] : x = <<c, n>>)
          <=> (\E n \in 1..G[c] : x = <<c, n>>) \/ x = <<c, F[c]>>
    BY <1>1
  <2> QED BY <2>1, <2>2, NumberedMember
<1>3. <<c, F[c]>> \notin Numbered(G)
  BY <1>1, NumberedMember
<1> QED BY <1>2, <1>3

\* The counters of records, one by one.
LEMMA UnloggedIs ==
    /\ DOMAIN Unlogged = Counters(memories, skills)
    /\ \A c \in Counters(memories, skills) :
          Unlogged[c] = Tally(memories, skills, c[1], c[2])
                        - Cardinality(Rows(uses \ telemetry, c[1], c[2]))
BY DEF Unlogged

LEMMA UnloggedIsNext ==
    /\ DOMAIN Unlogged' = Counters(memories', skills')
    /\ \A c \in Counters(memories', skills') :
          Unlogged'[c] = Tally(memories', skills', c[1], c[2])
                         - Cardinality(Rows(uses' \ telemetry', c[1], c[2]))
BY DEF Unlogged

\* A step that writes no row, after which every counter stands for as many uses
\* as before and that of a new record for none.
Quiet ==
    /\ UNCHANGED <<uses, telemetry>>
    /\ Existing(memories, skills) \subseteq Existing(memories', skills')
    /\ \A c \in Counters(memories, skills) :
          Tally(memories', skills', c[1], c[2]) = Tally(memories, skills, c[1], c[2])
    /\ \A c \in Counters(memories', skills') :
          c[1] \notin Existing(memories, skills) => Tally(memories', skills', c[1], c[2]) = 0

\* Records that come bring their counters.
LEMMA MoreCounters ==
    ASSUME NEW ms, NEW ss, NEW ms2, NEW ss2, Existing(ms, ss) \subseteq Existing(ms2, ss2)
    PROVE  /\ Counters(ms, ss) \subseteq Counters(ms2, ss2)
           /\ \A c \in Counters(ms2, ss2) : c[1] \in Existing(ms, ss) => c \in Counters(ms, ss)
BY DEF Counters

LEMMA QuietBooks ==
    ASSUME LogInv, BalanceInv, Quiet
    PROVE  /\ LogInv' /\ Missing' = Missing
           /\ \A c \in DOMAIN Unlogged' : Unlogged'[c] \in Nat
           /\ \A c \in DOMAIN Unlogged : Unlogged'[c] = Unlogged[c]
<1> DEFINE C == Counters(memories, skills)
           D == Counters(memories', skills')
<1>1. C \subseteq D /\ \A c \in D \ C : c[1] \notin Existing(memories, skills)
  BY MoreCounters DEF Quiet
<1>2. DOMAIN Unlogged = C /\ DOMAIN Unlogged' = D
  BY UnloggedIs, UnloggedIsNext
<1>3. ASSUME NEW c \in C PROVE Unlogged'[c] = Unlogged[c]
  <2>1. c \in D /\ Tally(memories', skills', c[1], c[2]) = Tally(memories, skills, c[1], c[2])
        /\ uses' = uses /\ telemetry' = telemetry
    BY <1>1 DEF Quiet
  <2> QED BY <2>1, UnloggedIs, UnloggedIsNext
<1>4. ASSUME NEW c \in D \ C PROVE Unlogged'[c] = 0
  <2>1. c[1] \notin Existing(memories, skills)
    BY <1>1
  <2>2. Rows(uses' \ telemetry', c[1], c[2]) = {}
    BY <2>1 DEF LogInv, Rows, Quiet
  <2>3. Tally(memories', skills', c[1], c[2]) = 0
    BY <2>1 DEF Quiet
  <2>4. Cardinality(Rows(uses' \ telemetry', c[1], c[2])) = 0
    BY <2>2, FS_EmptySet
  <2> QED BY <2>3, <2>4, UnloggedIsNext
<1>5. LogInv'
  BY DEF LogInv, Quiet
<1> HIDE DEF C, D
<1>6. \A c \in DOMAIN Unlogged : Unlogged'[c] = Unlogged[c]
  BY <1>2, <1>3
<1>7. \A c \in DOMAIN Unlogged' \ DOMAIN Unlogged : Unlogged'[c] = 0
  BY <1>2, <1>4
<1>8. DOMAIN Unlogged \subseteq DOMAIN Unlogged'
  BY <1>1, <1>2
<1>9. Missing' = Missing
  BY <1>6, <1>7, <1>8, NumberedSame DEF Missing
<1> QED BY <1>5, <1>6, <1>7, <1>8, <1>9 DEF BalanceInv

\* The use in hand is of a record that exists.
LEMMA DueExists ==
    ASSUME KnowledgeInv, todo # <<>>
    PROVE  /\ Head(todo).item \in Existing(memories, skills) /\ Head(todo).type \in UseType
           /\ Due[1] = Head(todo).item /\ Due[2] = Head(todo).type
<1>1. Head(todo) \in Todo(memories, skills)
  BY NextUse DEF KnowledgeInv, ControlInv
<1> QED BY <1>1 DEF Todo, Due

\* A quiet step between two writes or not.
LEMMA QuietCounts ==
    ASSUME KnowledgeInv, CountInv, Quiet,
           \/ crashes' = crashes /\ ~Between /\ ~Between'
           \/ crashes' = crashes /\ Between /\ Between' /\ todo' = todo
           \/ crashes' = crashes + 1 /\ ~Between'
    PROVE  LogInv' /\ BalanceInv'
<1>1. /\ LogInv' /\ Missing' = Missing
      /\ \A c \in DOMAIN Unlogged' : Unlogged'[c] \in Nat
      /\ \A c \in DOMAIN Unlogged : Unlogged'[c] = Unlogged[c]
  BY QuietBooks DEF CountInv
<1>2. crashes \in Nat /\ IsFiniteSet(Missing) /\ Cardinality(Missing) \in Nat
  BY FS_CardinalityType, KnowledgeAssumption
     DEF KnowledgeInv, ControlInv, CountInv, BalanceInv
<1>3. ASSUME Between, todo' = todo
      PROVE  Due' = Due /\ (Due' \in Counters(memories', skills') <=> Due \in Counters(memories, skills))
  <2>1. todo # <<>>
    BY <1>3 DEF KnowledgeInv, HandInv, Between, Row
  <2>2. Due[1] \in Existing(memories, skills) /\ Due' = Due
    BY <1>3, <2>1, DueExists DEF Due
  <2> QED BY <2>2, MoreCounters DEF Quiet
<1>4. Cardinality(Missing') <= crashes' + (IF Ahead' THEN 1 ELSE 0)
  <2>1. \/ crashes' = crashes /\ (Ahead' <=> Ahead)
        \/ crashes' = crashes + 1 /\ ~Ahead'
    BY <1>3 DEF Ahead
  <2> QED BY <1>1, <1>2, <2>1 DEF CountInv, BalanceInv
<1>5. ASSUME Ahead'
      PROVE  Unlogged'[Due'] > 0
  <2>1. Ahead /\ Due' = Due /\ Due \in Counters(memories, skills)
    BY <1>3, <1>5 DEF Ahead
  <2>2. Unlogged[Due] > 0 /\ Due \in DOMAIN Unlogged
    BY <2>1, UnloggedIs DEF CountInv, BalanceInv
  <2> QED BY <1>1, <2>1, <2>2
<1> QED BY <1>1, <1>2, <1>4, <1>5 DEF BalanceInv

\* Records that stay count the same, and new ones were not used.
LEMMA SameRecords ==
    ASSUME UNCHANGED <<uses, telemetry>>,
           DOMAIN memories \subseteq DOMAIN memories', DOMAIN skills \subseteq DOMAIN skills',
           \A m \in DOMAIN memories : memories'[m].count = memories[m].count,
           \A m \in DOMAIN memories' \ DOMAIN memories : memories'[m].count = Unused,
           \A s \in DOMAIN skills : skills'[s].count = skills[s].count,
           \A s \in DOMAIN skills' \ DOMAIN skills : skills'[s].count = Unused
    PROVE  Quiet
<1>1. Existing(memories, skills) \subseteq Existing(memories', skills')
  BY DEF Existing
<1>2. ASSUME NEW c \in Counters(memories, skills)
      PROVE  Tally(memories', skills', c[1], c[2]) = Tally(memories, skills, c[1], c[2])
  <2>1. c[1] \in Existing(memories, skills)
    BY DEF Counters
  <2> QED BY <2>1, ExistingRecord DEF Tally
<1>3. ASSUME NEW c \in Counters(memories', skills'), c[1] \notin Existing(memories, skills)
      PROVE  Tally(memories', skills', c[1], c[2]) = 0
  <2>1. c[1] \in Existing(memories', skills') /\ Unused[c[2]] = 0
    BY DEF Counters, Unused
  <2>2. CASE /\ c[1].kind = "memory" /\ c[1] = Memory(c[1].id)
             /\ c[1].id \in DOMAIN memories'
    <3>1. c[1].id \notin DOMAIN memories
      BY <1>3, <2>2 DEF Existing
    <3> QED BY <2>1, <2>2, <3>1 DEF Tally
  <2>3. CASE /\ c[1].kind = "skill" /\ c[1] = Skill(c[1].id)
             /\ c[1].id \in DOMAIN skills'
    <3>1. c[1].id \notin DOMAIN skills
      BY <1>3, <2>3 DEF Existing
    <3> QED BY <2>1, <2>3, <3>1 DEF Tally
  <2> QED BY <2>1, <2>2, <2>3, ExistingRecord
<1> QED BY <1>1, <1>2, <1>3 DEF Quiet

\* A step that changes no record and writes no row.
LEMMA FrameQuiet ==
    ASSUME UNCHANGED <<memories, skills, uses, telemetry>>
    PROVE  Quiet
BY SameRecords

LEMMA CountInit == Init => CountInv
<1> SUFFICES ASSUME Init PROVE CountInv
  OBVIOUS
<1>1. PICK store \in Stores :
        memories = store.memories /\ skills = store.skills /\ uses = store.uses
  BY DEF Init
<1>2. telemetry = {} /\ copy = <<>> /\ crashes = 0 /\ pc = "off"
  BY DEF Init
<1>3. LogInv
  BY <1>1, <1>2, StoresAssumption DEF LogInv
<1>4. CopyInv
  BY <1>2 DEF CopyInv, Holding, Row
<1>5. Matched(memories, skills, uses)
  BY <1>1, StoresAssumption
<1>6. \A c \in DOMAIN Unlogged : Unlogged[c] = 0
  <2>1. ASSUME NEW c \in Counters(memories, skills)
        PROVE  Unlogged[c] = 0
    <3>1. Rows(uses, c[1], c[2]) \subseteq uses
      BY DEF Rows
    <3>2. Cardinality(Rows(uses, c[1], c[2])) \in Nat
      BY <1>3, <3>1, FS_Subset, FS_CardinalityType DEF LogInv
    <3>3. Tally(memories, skills, c[1], c[2]) = Cardinality(Rows(uses, c[1], c[2]))
      BY <1>5 DEF Matched
    <3>4. uses \ telemetry = uses
      BY <1>2
    <3> QED BY <3>2, <3>3, <3>4, UnloggedIs
  <2> QED BY <2>1, UnloggedIs
<1>7. Missing = {}
  BY <1>6 DEF Missing, Numbered
<1>8. IsFiniteSet(Missing) /\ Cardinality(Missing) = 0
  BY <1>7, FS_EmptySet
<1>9. ~Ahead
  BY <1>2 DEF Ahead, Between
<1> QED BY <1>2, <1>3, <1>4, <1>6, <1>8, <1>9 DEF CountInv, BalanceInv

\* A quiet step after which no record is in hand.
LEMMA QuietPass ==
    ASSUME KnowledgeInv, CountInv, Quiet, copy' = <<>>, pc' \notin Row,
           \/ crashes' = crashes /\ pc \notin Row
           \/ crashes' = crashes + 1
    PROVE  CountInv'
<1>1. LogInv' /\ BalanceInv'
  BY QuietCounts DEF Between, Row
<1>2. CopyInv'
  BY DEF CopyInv, Holding
<1> QED BY <1>1, <1>2 DEF CountInv

LEMMA PassCounts ==
    ASSUME KnowledgeInv, CountInv,
           \/ Start \/ Exit \/ Crash \/ SaveSession \/ \E t \in Tasks : Retrieve(t)
           \/ Work \/ BeginUtility \/ PersistEpisode \/ NoCandidate \/ ReflectionFails
           \/ \E e \in Drafts : EvaluateGate(e)
           \/ ReadSources \/ QueryDerivedSkill \/ NoSkill
           \/ \E e \in SkillDrafts : AnswerSkill(e)
           \/ CheckSources \/ ValidateSkill
    PROVE  CountInv'
<1>1. UNCHANGED <<memories, skills, uses, telemetry>>
  BY DEF Start, Exit, Crash, SaveSession, Retrieve, Work, BeginUtility, PersistEpisode,
         NoCandidate, ReflectionFails, EvaluateGate, ReadSources, QueryDerivedSkill, NoSkill,
         AnswerSkill, CheckSources, ValidateSkill, disk, history
<1>2. Quiet
  BY <1>1, FrameQuiet
<1>3. copy' = <<>>
  <2>1. copy # <<>> => pc \in Listed \cup {"merge", "upsert"} /\ (pc \in Listed => todo # <<>>)
    BY DEF KnowledgeInv, HandInv
  <2> QED BY <2>1 DEF Start, Exit, Crash, SaveSession, Retrieve, Work, BeginUtility,
                PersistEpisode, NoCandidate, ReflectionFails, EvaluateGate, ReadSources,
                QueryDerivedSkill, NoSkill, AnswerSkill, CheckSources, ValidateSkill, work,
                Lose, Forget, Raise, Listed
<1>4. pc' \notin Row
  BY DEF Start, Exit, Crash, SaveSession, Retrieve, Work, BeginUtility, PersistEpisode,
         NoCandidate, ReflectionFails, EvaluateGate, ReadSources, QueryDerivedSkill, NoSkill,
         AnswerSkill, CheckSources, ValidateSkill, Lose, Raise, Row
<1>5. \/ crashes' = crashes /\ pc \notin Row
      \/ crashes' = crashes + 1
  BY DEF Start, Exit, Crash, SaveSession, Retrieve, Work, BeginUtility, PersistEpisode,
         NoCandidate, ReflectionFails, EvaluateGate, ReadSources, QueryDerivedSkill, NoSkill,
         AnswerSkill, CheckSources, ValidateSkill, Row
<1> QED BY <1>2, <1>3, <1>4, <1>5, QuietPass

\* A record is loaded, for a use only if that is not in the log.
LEMMA LoadCounts ==
    ASSUME KnowledgeInv, CountInv, LoadUse \/ LoadUtility \/ FindDuplicate \/ FindDerivation
    PROVE  CountInv'
<1>1. /\ UNCHANGED <<memories, skills, uses, telemetry, cfg, task, sessions, crashes>>
      /\ pc \notin Row /\ pc' \notin Row
  BY DEF LoadUse, LoadUtility, FindDuplicate, FindDerivation, Recording, Row, disk, session,
         history
<1>2. LogInv' /\ BalanceInv'
  BY <1>1, FrameQuiet, QuietCounts DEF Between, Row
<1>3. copy' = <<>> \/ \E item \in Existing(memories, skills) : copy' = <<item, Record(item)>>
  <2>1. copy = <<>>
    BY EmptyHand DEF LoadUse, LoadUtility, FindDuplicate, FindDerivation, Listed
  <2>2. CASE LoadUse \/ LoadUtility
    <3>1. Head(todo).item \in Existing(memories, skills)
      BY <2>2, DueExists DEF LoadUse, LoadUtility, Recording
    <3> QED BY <2>1, <2>2, <3>1 DEF LoadUse, LoadUtility, Load
  <2>3. CASE FindDuplicate
    BY <2>1, <2>3 DEF FindDuplicate, find_duplicate_memory, Active, Load, Existing
  <2>4. CASE FindDerivation
    BY <2>1, <2>4 DEF FindDerivation, find_skill_by_derivation, Load, Existing
  <2> QED BY <2>2, <2>3, <2>4
<1>4. CopyInv'
  <2>1. ASSUME copy' # <<>>, pc' \in {"expose", "attribute"}
        PROVE  (Use(Head(todo).item, Head(todo).type) \notin uses)'
    <3>1. LoadUse
      BY <2>1 DEF LoadUtility, FindDuplicate, FindDerivation
    <3>2. todo' = todo /\ Use(Head(todo).item, Head(todo).type) \notin uses
      BY <2>1, <3>1 DEF LoadUse
    <3> QED BY <1>1, <3>2 DEF Use, SessionOf
  <2>2. Holding' => (copy[2].count = Record(copy[1]).count)'
    BY <1>1, <1>3 DEF Holding, Record
  <2> QED BY <1>1, <2>1, <2>2 DEF CopyInv
<1> QED BY <1>2, <1>4 DEF CountInv

\* A withdrawal changes no counter, not even of the record in hand.
LEMMA WithdrawCounts ==
    ASSUME KnowledgeInv, CountInv, CommandLine
    PROVE  CountInv'
<1>1. UNCHANGED <<uses, telemetry, pc, cfg, task, sessions, crashes, todo, copy>>
  BY DEF CommandLine, Invalidate, Deprecate, Withdraw, session, work
<1>2. memories \in Seq(MemoryRecord(1..packs)) /\ skills \in Seq(SkillRecord)
  BY DEF KnowledgeInv, StoreInv, Sound, Typed
<1>3. /\ DOMAIN memories' = DOMAIN memories /\ DOMAIN skills' = DOMAIN skills
      /\ \A m \in DOMAIN memories : memories'[m].count = memories[m].count
      /\ \A s \in DOMAIN skills : skills'[s].count = skills[s].count
  <2>1. CASE \E m \in DOMAIN memories : Invalidate(m)
    <3>1. PICK m \in DOMAIN memories :
            memories' = [memories EXCEPT ![m].status = "invalidated"] /\ skills' = skills
      BY <2>1 DEF Invalidate
    <3>2. \A l \in DOMAIN memories : memories[l] \in MemoryRecord(1..packs)
      BY <1>2
    <3> QED BY <3>1, <3>2 DEF MemoryRecord
  <2>2. CASE \E s \in DOMAIN skills : Deprecate(s)
    <3>1. PICK s \in DOMAIN skills :
            skills' = [skills EXCEPT ![s].status = "deprecated"] /\ memories' = memories
      BY <2>2 DEF Deprecate
    <3>2. \A l \in DOMAIN skills : skills[l] \in SkillRecord
      BY <1>2
    <3> QED BY <3>1, <3>2 DEF SkillRecord
  <2> QED BY <2>1, <2>2 DEF CommandLine
<1>4. Quiet
  BY <1>1, <1>3, SameRecords
<1>5. LogInv' /\ BalanceInv'
  BY <1>1, <1>4, QuietCounts DEF Between
<1>6. CopyInv'
  <2>1. Use(Head(todo).item, Head(todo).type)' = Use(Head(todo).item, Head(todo).type)
    BY <1>1 DEF Use, SessionOf
  <2>2. ASSUME Holding
        PROVE  Record(copy[1])'.count = Record(copy[1]).count
    BY <1>1, <1>3, <2>2, HeldRecord DEF Record
  <2> QED BY <1>1, <2>1, <2>2 DEF CountInv, CopyInv, Holding
<1> QED BY <1>5, <1>6 DEF CountInv

\* A record is added that was not used.
LEMMA NewRecordCounts ==
    ASSUME KnowledgeInv, CountInv, SaveNewMemory \/ SaveNewSkill
    PROVE  CountInv'
<1>1. /\ pc \in {"create", "add"} /\ copy = <<>> /\ ~cfg.frozen
      /\ SaveNewMemory => pc = "create"
      /\ SaveNewSkill => pc = "add"
  <2>1. pc \in {"create", "add"}
    BY DEF SaveNewMemory, SaveNewSkill
  <2>2. ~cfg.frozen
    BY <2>1 DEF KnowledgeInv, ConsolidationInv, Reflecting, Inducing
  <2>3. copy = <<>>
    BY <2>1, EmptyHand DEF Listed
  <2> QED BY <2>1, <2>2, <2>3 DEF SaveNewMemory, SaveNewSkill
<1>2. memories \in Seq(MemoryRecord(1..packs)) /\ skills \in Seq(SkillRecord)
  BY DEF KnowledgeInv, StoreInv, Sound, Typed
<1>3. /\ UNCHANGED <<uses, telemetry, crashes>> /\ copy' = <<>> /\ pc' \notin Row
      /\ pc \notin Row
  BY <1>1 DEF SaveNewMemory, SaveNewSkill, history, work, Row
<1>4. CASE SaveNewMemory
  <2>1. made = <<made[1]>> /\ NewMemoryInv(made[1])
    BY <1>1, <1>4 DEF KnowledgeInv, MadeInv, Persisting, Reflecting
  <2> DEFINE r == made[1]
  <2>2. r \in MemoryRecord(1..packs) /\ r.count = Unused
    BY <2>1 DEF NewMemoryInv
  <2>3. memories' = memories \o <<r>> /\ skills' = skills
    BY <1>1, <1>4, <2>1 DEF SaveNewMemory
  <2> HIDE DEF r
  <2>4. Quiet
    BY <1>2, <1>3, <2>2, <2>3, SameRecords
  <2> QED BY <1>3, <2>4, QuietPass
<1>5. CASE SaveNewSkill
  <2>1. made = <<made[1]>> /\ NewSkillInv(made[1])
    BY <1>1, <1>5 DEF KnowledgeInv, MadeInv, Inducing
  <2> DEFINE r == made[1]
  <2>2. r \in SkillRecord /\ r.count = Unused
    BY <2>1 DEF NewSkillInv
  <2>3. skills' = skills \o <<r>> /\ memories' = memories
    BY <1>1, <1>5, <2>1 DEF SaveNewSkill
  <2> HIDE DEF r
  <2>4. Quiet
    BY <1>2, <1>3, <2>2, <2>3, SameRecords
  <2> QED BY <1>3, <2>4, QuietPass
<1> QED BY <1>4, <1>5

\* The record in hand is one of the store, with its counters.
LEMMA HeldTyped ==
    ASSUME KnowledgeInv, CountInv, Holding
    PROVE  /\ \/ copy[1].kind = "memory" /\ copy[2] \in MemoryRecord(1..packs)
              \/ copy[1].kind = "skill" /\ copy[2] \in SkillRecord
           /\ copy[2].count \in [Counted -> Nat]
           /\ copy[2].count = Record(copy[1]).count
<1>1. memories \in Seq(MemoryRecord(1..packs)) /\ skills \in Seq(SkillRecord)
  BY DEF KnowledgeInv, StoreInv, Sound, Typed
<1>2. BackMemories \in Seq(MemoryRecord(1..packs)) /\ BackSkills \in Seq(SkillRecord)
  BY DEF KnowledgeInv, StoreInv, Sound, Typed
<1>3. CASE copy[1].kind = "memory" /\ copy[1].id \in DOMAIN memories
  <2>1. BackMemories[copy[1].id] = copy[2] /\ copy[1].id \in DOMAIN BackMemories
    BY <1>1, <1>3 DEF BackMemories
  <2>2. copy[2] \in MemoryRecord(1..packs)
    BY <1>2, <2>1
  <2> QED BY <1>3, <2>2 DEF MemoryRecord, CountInv, CopyInv
<1>4. CASE copy[1].kind = "skill" /\ copy[1].id \in DOMAIN skills
  <2>1. BackSkills[copy[1].id] = copy[2] /\ copy[1].id \in DOMAIN BackSkills
    BY <1>1, <1>4 DEF BackSkills
  <2>2. copy[2] \in SkillRecord
    BY <1>2, <2>1
  <2> QED BY <1>4, <2>2 DEF SkillRecord, CountInv, CopyInv
<1> QED BY <1>3, <1>4, HeldRecord

\* What the counters are when a record is written back.
LEMMA WrittenCounts ==
    ASSUME KnowledgeInv, CountInv, Holding, NEW record, WriteBack(record)
    PROVE  /\ Existing(memories', skills') = Existing(memories, skills)
           /\ Counters(memories', skills') = Counters(memories, skills)
           /\ \A c \in Counters(memories, skills) :
                 /\ c[1] = copy[1] =>
                       /\ Tally(memories', skills', c[1], c[2]) = record.count[c[2]]
                       /\ Tally(memories, skills, c[1], c[2]) = copy[2].count[c[2]]
                 /\ c[1] # copy[1] =>
                       Tally(memories', skills', c[1], c[2]) = Tally(memories, skills, c[1], c[2])
<1>1. DOMAIN memories' = DOMAIN memories /\ DOMAIN skills' = DOMAIN skills
  BY Written
<1>2. Existing(memories', skills') = Existing(memories, skills)
  BY <1>1 DEF Existing
<1>3. ASSUME NEW c \in Counters(memories, skills)
      PROVE  /\ c[1] = copy[1] =>
                   /\ Tally(memories', skills', c[1], c[2]) = record.count[c[2]]
                   /\ Tally(memories, skills, c[1], c[2]) = copy[2].count[c[2]]
             /\ c[1] # copy[1] =>
                   Tally(memories', skills', c[1], c[2]) = Tally(memories, skills, c[1], c[2])
  <2>1. c[1] \in Existing(memories, skills)
    BY DEF Counters
  <2>2. copy[2].count = Record(copy[1]).count
    BY HeldTyped
  <2>3. CASE c[1] = copy[1]
    <3>1. Tally(memories, skills, c[1], c[2]) = copy[2].count[c[2]]
      BY <2>2, <2>3 DEF Tally, Record
    <3>2. Tally(memories', skills', c[1], c[2]) = record.count[c[2]]
      BY <2>3, HeldRecord DEF Tally, WriteBack
    <3> QED BY <2>3, <3>1, <3>2
  <2>4. CASE c[1] # copy[1]
    <3>1. \/ c[1].kind = "memory" /\ c[1] = Memory(c[1].id) /\ c[1].id \in DOMAIN memories
          \/ c[1].kind = "skill" /\ c[1] = Skill(c[1].id) /\ c[1].id \in DOMAIN skills
      BY <2>1, ExistingRecord
    <3>2. /\ copy[1].kind = "memory" /\ c[1].kind = "memory" => c[1].id # copy[1].id
          /\ copy[1].kind = "skill" /\ c[1].kind = "skill" => c[1].id # copy[1].id
      BY <2>4, <3>1, HeldRecord
    <3> QED BY <2>4, <3>1, <3>2, HeldRecord DEF Tally, WriteBack
  <2> QED BY <2>3, <2>4
<1> QED BY <1>2, <1>3 DEF Counters

\* What a verdict does to the counters of a skill: success is counted elsewhere,
\* and harm beside the use that was counted already.
LEMMA VerdictCounts ==
    ASSUME NEW skill \in SkillRecord
    PROVE  /\ \A t \in Tasks, f \in Fingerprints :
                 record_success(skill, t, f).count = skill.count
           /\ \A type \in Counted \ {"harmful"} :
                 record_harmful_use(skill).count[type] = skill.count[type]
<1>1. ASSUME NEW t \in Tasks, NEW f \in Fingerprints
      PROVE  record_success(skill, t, f).count = skill.count
  <2> DEFINE k == skill.successes + 1
             T == skill.tasks \cup {t}
             F == skill.repositories \cup {f}
             more == [skill EXCEPT !.successes = k, !.tasks = T, !.repositories = F]
             active == [more EXCEPT !.status = "active"]
  <2>1. more.count = skill.count
    <3> HIDE DEF k, T, F
    <3> QED BY DEF SkillRecord
  <2>2. active.count = more.count
    BY DEF SkillRecord
  <2>3. record_success(skill, t, f) \in {more, active}
    BY Zenon DEF record_success
  <2> HIDE DEF more, active
  <2> QED BY <2>1, <2>2, <2>3
<1>2. \A type \in Counted \ {"harmful"} :
         record_harmful_use(skill).count[type] = skill.count[type]
  <2> DEFINE c == [skill.count EXCEPT !["harmful"] = @ + 1]
             k == skill.failures + 1
             x == IF skill.status = "active" THEN "deprecated" ELSE skill.status
  <2>1. \A type \in Counted \ {"harmful"} : c[type] = skill.count[type]
    <3>1. skill.count \in [Counted -> Nat]
      BY DEF SkillRecord
    <3> QED BY <3>1
  <2>2. record_harmful_use(skill) = [skill EXCEPT !.count = c, !.failures = k, !.status = x]
    BY Zenon DEF record_harmful_use
  <2> HIDE DEF c, x
  <2>3. record_harmful_use(skill).count = c
    BY <2>2 DEF SkillRecord
  <2> QED BY <2>1, <2>3
<1> QED BY <1>1, <1>2

\* A record is written back with the counters it has, but for the harm of a skill.
LEMMA VerdictQuiet ==
    ASSUME KnowledgeInv, CountInv, Holding, NEW record, WriteBack(record),
           UNCHANGED <<uses, telemetry>>,
           \A c \in Counters(memories, skills) :
              c[1] = copy[1] => record.count[c[2]] = copy[2].count[c[2]]
    PROVE  Quiet
BY WrittenCounts DEF Quiet, Counters

LEMMA WriteBackCounts ==
    ASSUME KnowledgeInv, CountInv, SaveUtility \/ SaveMerge \/ SaveDerivation
    PROVE  CountInv'
<1>1. copy # <<>> /\ Holding /\ (SaveUtility => todo # <<>> /\ copy[1] = Head(todo).item)
  <2>1. copy # <<>> /\ pc \in {"utility", "merge", "upsert"} /\ (SaveUtility => pc = "utility")
    BY DEF KnowledgeInv, HandInv, SaveUtility, SaveMerge, SaveDerivation
  <2>2. pc = "utility" => todo # <<>> /\ copy[1] = Head(todo).item
    BY <2>1 DEF KnowledgeInv, HandInv, Listed
  <2>3. ~cfg.frozen
    BY <2>1, <2>2 DEF KnowledgeInv, ConsolidationInv, Reflecting, Inducing
  <2> QED BY <2>1, <2>2, <2>3 DEF Holding
<1>2. /\ copy' = <<>> /\ pc \notin Row /\ pc' \notin Row
      /\ UNCHANGED <<uses, telemetry, crashes>>
  BY <1>1, Zenon DEF SaveUtility, SaveMerge, SaveDerivation, Holding, WriteBack, Row, history
<1>3. CASE SaveUtility
  <2> DEFINE f == tree[ProjectOf[task]]
             after == IF Head(todo).type = "helpful" THEN record_success(copy[2], task, f)
                      ELSE record_harmful_use(copy[2])
  <2>1. WriteBack(after)
    BY <1>1, <1>3, Zenon DEF SaveUtility, Holding
  <2>2. copy[1].kind = "skill" /\ copy[2] \in SkillRecord
    <3>1. todo \in Seq(Todo(memories, skills))
      BY DEF KnowledgeInv, ControlInv
    <3>2. 1 \in DOMAIN todo /\ Head(todo) = todo[1]
      BY <1>1, <1>3, <3>1, NextUse
    <3>3. copy[1].kind = "skill"
      BY <1>1, <1>3, <3>2 DEF KnowledgeInv, ConsolidationInv, SaveUtility
    <3> QED BY <1>1, <3>3, HeldTyped
  <2>3. task \in Tasks /\ f \in Fingerprints
    BY <1>3 DEF KnowledgeInv, ControlInv, SaveUtility, Projects
  <2>4. \A type \in Counted \ {"harmful"} : after.count[type] = copy[2].count[type]
    <3> HIDE DEF f
    <3> QED BY <2>2, <2>3, VerdictCounts
  <2>5. \A c \in Counters(memories, skills) :
           c[1] = copy[1] => c[2] \in Counted \ {"harmful"}
    BY <2>2 DEF Counters
  <2> HIDE DEF after
  <2>6. Quiet
    BY <1>1, <1>2, <2>1, <2>4, <2>5, VerdictQuiet
  <2> QED BY <1>2, <2>6, QuietPass
<1>4. CASE SaveMerge
  <2> DEFINE r == [copy[2] EXCEPT !.episodes = @ \cup made[1].episodes]
  <2>1. WriteBack(r)
    BY <1>1, <1>4, Zenon DEF SaveMerge, Holding
  <2>2. r.count = copy[2].count
    BY <1>1, HeldTyped DEF MemoryRecord, SkillRecord
  <2> HIDE DEF r
  <2>3. Quiet
    BY <1>1, <1>2, <2>1, <2>2, VerdictQuiet
  <2> QED BY <1>2, <2>3, QuietPass
<1>5. CASE SaveDerivation
  <2>1. WriteBack(copy[2])
    BY <1>1, <1>5 DEF SaveDerivation, Holding
  <2>2. Quiet
    BY <1>1, <1>2, <2>1, VerdictQuiet
  <2> QED BY <1>2, <2>2, QuietPass
<1> QED BY <1>3, <1>4, <1>5

\* A use counts one more of its type and nothing else.
LEMMA UsageCounts ==
    ASSUME NEW type \in UseType, NEW r, r.count \in [Counted -> Nat],
           \/ \E episode : r \in MemoryRecord(episode)
           \/ r \in SkillRecord
    PROVE  /\ type \in Counted => ApplyUsage(r, type).count[type] = r.count[type] + 1
           /\ \A other \in Counted \ {type} : ApplyUsage(r, type).count[other] = r.count[other]
<1> DEFINE c == [r.count EXCEPT ![type] = @ + 1]
<1>1. CASE type \in Counted
  <2>1. c[type] = r.count[type] + 1 /\ \A other \in Counted \ {type} : c[other] = r.count[other]
    BY <1>1
  <2>2. ApplyUsage(r, type) = [r EXCEPT !.count = c]
    BY <1>1, Zenon DEF ApplyUsage
  <2> HIDE DEF c
  <2>3. ApplyUsage(r, type).count = c
    BY <2>2 DEF MemoryRecord, SkillRecord
  <2> QED BY <1>1, <2>1, <2>3
<1>2. CASE type \notin Counted
  BY <1>2 DEF ApplyUsage
<1> QED BY <1>1, <1>2

\* Counters are numbers.
LEMMA TallyTyped ==
    ASSUME KnowledgeInv, NEW c \in Counters(memories, skills)
    PROVE  Tally(memories, skills, c[1], c[2]) \in Int
<1>1. memories \in Seq(MemoryRecord(1..packs)) /\ skills \in Seq(SkillRecord)
  BY DEF KnowledgeInv, StoreInv, Sound, Typed
<1>2. c[1] \in Existing(memories, skills) /\ c[2] \in Counted
  BY DEF Counters
<1>3. CASE c[1].kind = "memory" /\ c[1].id \in DOMAIN memories
  <2>1. memories[c[1].id] \in MemoryRecord(1..packs)
    BY <1>1, <1>3
  <2>2. memories[c[1].id].count[c[2]] \in Nat
    BY <1>2, <2>1 DEF MemoryRecord
  <2> QED BY <1>3, <2>2 DEF Tally
<1>4. CASE c[1].kind = "skill" /\ c[1].id \in DOMAIN skills
  <2>1. skills[c[1].id] \in SkillRecord
    BY <1>1, <1>4
  <2>2. skills[c[1].id].count[c[2]] \in Nat
    BY <1>2, <2>1 DEF SkillRecord
  <2> QED BY <1>4, <2>2 DEF Tally
<1> QED BY <1>2, <1>3, <1>4, ExistingRecord

\* To save a use moves its counter, if it has one, and no other.
LEMMA SaveUseTallies ==
    ASSUME KnowledgeInv, CountInv, SaveUse, ~cfg.frozen
    PROVE  /\ Existing(memories', skills') = Existing(memories, skills)
           /\ Counters(memories', skills') = Counters(memories, skills)
           /\ \A c \in Counters(memories, skills) :
                 Tally(memories', skills', c[1], c[2])
                   = Tally(memories, skills, c[1], c[2]) + (IF c = Due THEN 1 ELSE 0)
<1> DEFINE type == Head(todo).type
           record == ApplyUsage(copy[2], type)
<1>1. copy # <<>> /\ todo # <<>> /\ Holding /\ copy[1] = Head(todo).item
  BY DEF KnowledgeInv, HandInv, SaveUse, Recording, Holding, Listed
<1>2. WriteBack(record)
  BY DEF SaveUse
<1>3. /\ copy[2].count \in [Counted -> Nat]
      /\ \/ \E episode : copy[2] \in MemoryRecord(episode)
         \/ copy[2] \in SkillRecord
  BY <1>1, HeldTyped
<1>4. type \in UseType
  BY <1>1, DueExists
<1>5. /\ type \in Counted => record.count[type] = copy[2].count[type] + 1
      /\ \A other \in Counted \ {type} : record.count[other] = copy[2].count[other]
  <2> HIDE DEF type
  <2> QED BY <1>3, <1>4, UsageCounts
<1> HIDE DEF record
<1>6. ASSUME NEW c \in Counters(memories, skills)
      PROVE  Tally(memories', skills', c[1], c[2])
               = Tally(memories, skills, c[1], c[2]) + (IF c = Due THEN 1 ELSE 0)
  <2>1. c = <<c[1], c[2]>> /\ c[2] \in Counted /\ c[1] \in Existing(memories, skills)
    BY DEF Counters
  <2>2. c = Due <=> c[1] = copy[1] /\ c[2] = type
    BY <1>1, <2>1 DEF Due
  <2>3. CASE c[1] = copy[1]
    <3>1. /\ Tally(memories', skills', c[1], c[2]) = record.count[c[2]]
          /\ Tally(memories, skills, c[1], c[2]) = copy[2].count[c[2]]
      BY <1>1, <1>2, <2>3, WrittenCounts
    <3>2. copy[2].count[c[2]] \in Nat
      BY <1>3, <2>1
    <3> QED BY <1>5, <2>1, <2>2, <2>3, <3>1, <3>2
  <2>4. CASE c[1] # copy[1]
    <3>1. Tally(memories', skills', c[1], c[2]) = Tally(memories, skills, c[1], c[2])
      BY <1>1, <1>2, <2>4, WrittenCounts
    <3>2. Tally(memories, skills, c[1], c[2]) \in Int
      BY TallyTyped
    <3> QED BY <2>2, <2>4, <3>1, <3>2
  <2> QED BY <2>3, <2>4
<1> QED BY <1>1, <1>2, <1>6, WrittenCounts

LEMMA SaveUseCounts ==
    ASSUME KnowledgeInv, CountInv, SaveUse
    PROVE  CountInv'
<1> DEFINE C == Counters(memories, skills)
<1>1. /\ UNCHANGED <<uses, telemetry, cfg, task, sessions, crashes, todo>> /\ copy' = <<>>
      /\ pc \in {"expose", "attribute"} /\ pc' \in Row
      /\ copy # <<>> /\ todo # <<>>
  BY Zenon DEF SaveUse, Recording, WriteBack, session, history, Row
<1>2. CopyInv'
  <2>1. Use(Head(todo).item, Head(todo).type)' = Use(Head(todo).item, Head(todo).type)
    BY <1>1 DEF Use, SessionOf
  <2> QED BY <1>1, <2>1 DEF CountInv, CopyInv, Holding
<1>3. ~Ahead /\ (Ahead' <=> ~cfg.frozen /\ Due' \in Counters(memories', skills')) /\ Due' = Due
  BY <1>1 DEF Ahead, Between, Due, Row
<1>4. CASE cfg.frozen
  <2>1. Quiet
    BY <1>1, <1>4, FrameQuiet DEF SaveUse
  <2> QED BY <1>1, <1>2, <1>4, <2>1, QuietCounts DEF CountInv, Between
<1>5. CASE ~cfg.frozen
  <2>1. /\ Existing(memories', skills') = Existing(memories, skills)
        /\ Counters(memories', skills') = C
        /\ \A c \in C : Tally(memories', skills', c[1], c[2])
                          = Tally(memories, skills, c[1], c[2]) + (IF c = Due THEN 1 ELSE 0)
    BY <1>5, SaveUseTallies
  <2>2. /\ IsFiniteSet(Missing) /\ Cardinality(Missing) \in Nat /\ crashes \in Nat
        /\ Cardinality(Missing) <= crashes
    BY <1>3, FS_CardinalityType, KnowledgeAssumption
       DEF KnowledgeInv, ControlInv, CountInv, BalanceInv
  <2>3. LogInv'
    BY <1>1, <2>1 DEF CountInv, LogInv
  <2>4. DOMAIN Unlogged = C /\ DOMAIN Unlogged' = C
    BY <2>1, UnloggedIs, UnloggedIsNext
  <2>5. ASSUME NEW c \in C
        PROVE  /\ Unlogged[c] \in Nat
               /\ Unlogged'[c] = Unlogged[c] + (IF c = Due THEN 1 ELSE 0)
    <3>1. Unlogged[c] \in Nat
      BY <2>4 DEF CountInv, BalanceInv
    <3>2. Cardinality(Rows(uses \ telemetry, c[1], c[2])) \in Nat
      <4>1. Rows(uses \ telemetry, c[1], c[2]) \subseteq uses
        BY DEF Rows
      <4> QED BY <4>1, FS_Subset, FS_CardinalityType DEF CountInv, LogInv
    <3>3. /\ Unlogged[c] = Tally(memories, skills, c[1], c[2])
                           - Cardinality(Rows(uses \ telemetry, c[1], c[2]))
          /\ Unlogged'[c] = Tally(memories', skills', c[1], c[2])
                            - Cardinality(Rows(uses \ telemetry, c[1], c[2]))
      BY <1>1, <2>1, UnloggedIs, UnloggedIsNext
    <3>4. Tally(memories, skills, c[1], c[2]) \in Int
      BY TallyTyped
    <3> QED BY <2>1, <3>1, <3>2, <3>3, <3>4
  <2> HIDE DEF C
  <2>6. CASE Due \notin C
    <3>1. Missing' = Missing
      BY <2>4, <2>5, <2>6, NumberedSame DEF Missing
    <3> QED BY <1>1, <1>2, <1>3, <2>1, <2>2, <2>3, <2>4, <2>5, <2>6, <3>1
            DEF CountInv, BalanceInv
  <2>7. CASE Due \in C
    <3> DEFINE x == <<Due, Unlogged'[Due]>>
    <3>1. Missing' = Missing \cup {x} /\ x \notin Missing
      BY <2>4, <2>5, <2>7, NumberedMore DEF Missing
    <3>2. IsFiniteSet(Missing') /\ Cardinality(Missing') = Cardinality(Missing) + 1
      BY <2>2, <3>1, FS_AddElement
    <3>3. (\A c \in DOMAIN Unlogged' : Unlogged'[c] \in Nat) /\ Unlogged'[Due] > 0
      BY <2>4, <2>5, <2>7
    <3> QED BY <1>1, <1>2, <1>3, <1>5, <2>1, <2>2, <2>3, <2>7, <3>2, <3>3 DEF CountInv, BalanceInv
  <2> QED BY <2>6, <2>7
<1> QED BY <1>4, <1>5

LEMMA AppendUseCounts ==
    ASSUME KnowledgeInv, CountInv, AppendUse
    PROVE  CountInv'
<1> DEFINE row == Use(Head(todo).item, Head(todo).type)
           C == Counters(memories, skills)
           log == uses \ telemetry
<1>1. /\ UNCHANGED <<memories, skills, cfg, crashes>> /\ uses' = uses \cup {row}
      /\ telemetry' = (IF cfg.frozen THEN telemetry \cup {row} ELSE telemetry)
      /\ pc \in Row /\ pc' \in {"expose", "attribute"}
      /\ todo # <<>> /\ copy' = <<>>
  BY DEF KnowledgeInv, HandInv, AppendUse, Row
<1>2. row \notin uses /\ row.item = Due[1] /\ row.type = Due[2]
  BY <1>1 DEF CountInv, CopyInv, Use, Due
<1>3. Due[1] \in Existing(memories, skills)
  BY <1>1, DueExists
<1>4. LogInv'
  <2>1. IsFiniteSet(uses')
    BY <1>1, FS_AddElement DEF CountInv, LogInv
  <2> HIDE DEF row
  <2> QED BY <1>1, <1>2, <1>3, <2>1 DEF CountInv, LogInv
<1>5. CopyInv'
  BY <1>1 DEF CopyInv, Holding, Row
<1>6. ~Ahead' /\ (Ahead <=> ~cfg.frozen /\ Due \in C)
  BY <1>1 DEF Ahead, Between, Row
<1>7. /\ IsFiniteSet(Missing) /\ Cardinality(Missing) \in Nat /\ crashes \in Nat
      /\ IsFiniteSet(uses) /\ telemetry \subseteq uses
  BY FS_CardinalityType, KnowledgeAssumption
     DEF KnowledgeInv, ControlInv, CountInv, BalanceInv, LogInv
<1> HIDE DEF row
<1>8. DOMAIN Unlogged = C /\ DOMAIN Unlogged' = C
  BY <1>1, UnloggedIs, UnloggedIsNext
<1>9. ASSUME NEW c \in C
      PROVE  /\ Unlogged[c] = Tally(memories, skills, c[1], c[2]) - Cardinality(Rows(log, c[1], c[2]))
             /\ Unlogged'[c] = Tally(memories, skills, c[1], c[2])
                               - Cardinality(Rows(uses' \ telemetry', c[1], c[2]))
             /\ Tally(memories, skills, c[1], c[2]) \in Int
  BY <1>1, UnloggedIs, UnloggedIsNext, TallyTyped
<1>10. CASE cfg.frozen \/ Due \notin C
  <2>1. ASSUME NEW c \in C
        PROVE  Rows(uses' \ telemetry', c[1], c[2]) = Rows(log, c[1], c[2])
    <3>1. CASE cfg.frozen
      BY <1>1, <1>2, <3>1
    <3>2. CASE ~cfg.frozen /\ Due \notin C
      <4>1. Due = <<Due[1], Due[2]>> /\ c = <<c[1], c[2]>>
        BY DEF Due, Counters
      <4>2. ~(row.item = c[1] /\ row.type = c[2])
        BY <1>2, <3>2, <4>1
      <4> QED BY <1>1, <3>2, <4>2 DEF Rows
    <3> QED BY <1>10, <3>1, <3>2
  <2>2. \A c \in DOMAIN Unlogged : Unlogged'[c] = Unlogged[c]
    <3> HIDE DEF log, C
    <3> QED BY <1>8, <1>9, <2>1
  <2>3. Missing' = Missing
    BY <1>8, <2>2, NumberedSame DEF Missing
  <2>4. \A c \in DOMAIN Unlogged' : Unlogged'[c] \in Nat
    BY <1>8, <2>2 DEF CountInv, BalanceInv
  <2> QED BY <1>1, <1>4, <1>5, <1>6, <1>7, <1>10, <2>3, <2>4 DEF CountInv, BalanceInv
<1>11. CASE ~cfg.frozen /\ Due \in C
  <2>1. uses' \ telemetry' = log \cup {row} /\ row \notin log
    BY <1>1, <1>2, <1>7, <1>11
  <2>2. ASSUME NEW c \in C \ {Due}
        PROVE  Unlogged'[c] = Unlogged[c]
    <3>1. c = <<c[1], c[2]>> /\ Due = <<Due[1], Due[2]>>
      BY DEF Counters, Due
    <3>2. Rows(uses' \ telemetry', c[1], c[2]) = Rows(log, c[1], c[2])
      BY <1>2, <2>1, <3>1 DEF Rows
    <3> HIDE DEF log, C
    <3> QED BY <1>9, <3>2
  <2>3. Unlogged[Due] \in Nat /\ Unlogged[Due] > 0 /\ Unlogged'[Due] = Unlogged[Due] - 1
    <3>1. Unlogged[Due] \in Nat /\ Unlogged[Due] > 0
      BY <1>6, <1>8, <1>11 DEF CountInv, BalanceInv
    <3>2. Rows(uses' \ telemetry', Due[1], Due[2]) = Rows(log, Due[1], Due[2]) \cup {row}
      BY <1>2, <2>1 DEF Rows
    <3>3. IsFiniteSet(Rows(log, Due[1], Due[2])) /\ row \notin Rows(log, Due[1], Due[2])
      <4>1. Rows(log, Due[1], Due[2]) \subseteq uses
        BY DEF Rows
      <4> QED BY <1>7, <2>1, <4>1, FS_Subset DEF Rows
    <3>4. /\ Cardinality(Rows(log, Due[1], Due[2])) \in Nat
          /\ Cardinality(Rows(uses' \ telemetry', Due[1], Due[2]))
               = Cardinality(Rows(log, Due[1], Due[2])) + 1
      BY <3>2, <3>3, FS_AddElement, FS_CardinalityType
    <3> HIDE DEF log, C
    <3> QED BY <1>9, <1>11, <3>1, <3>4
  <2> DEFINE x == <<Due, Unlogged[Due]>>
  <2>4. Missing' = Missing \ {x} /\ x \in Missing
    <3>1. Unlogged'[Due] \in Nat /\ Unlogged[Due] = Unlogged'[Due] + 1
      BY <2>3
    <3> HIDE DEF C
    <3> QED BY <1>8, <1>11, <2>2, <3>1, NumberedMore DEF Missing
  <2>5. IsFiniteSet(Missing') /\ Cardinality(Missing') = Cardinality(Missing) - 1
    BY <1>7, <2>4, FS_RemoveElement
  <2>6. \A c \in DOMAIN Unlogged' : Unlogged'[c] \in Nat
    BY <1>8, <2>2, <2>3 DEF CountInv, BalanceInv
  <2>7. Cardinality(Missing) <= crashes + 1
    BY <1>6, <1>11 DEF CountInv, BalanceInv
  <2> QED BY <1>1, <1>4, <1>5, <1>6, <1>7, <2>5, <2>6, <2>7 DEF CountInv, BalanceInv
<1> QED BY <1>10, <1>11

LEMMA CountStep == KnowledgeInv /\ CountInv /\ [Next]_vars => CountInv'
<1> SUFFICES ASSUME KnowledgeInv, CountInv, [Next]_vars
             PROVE  CountInv'
  OBVIOUS
<1>1. CASE \/ Start \/ Exit \/ Crash \/ SaveSession \/ \E t \in Tasks : Retrieve(t)
           \/ Work \/ BeginUtility \/ PersistEpisode \/ NoCandidate \/ ReflectionFails
           \/ \E e \in Drafts : EvaluateGate(e)
           \/ ReadSources \/ QueryDerivedSkill \/ NoSkill
           \/ \E e \in SkillDrafts : AnswerSkill(e)
           \/ CheckSources \/ ValidateSkill
  BY <1>1, PassCounts
<1>2. CASE LoadUse \/ LoadUtility \/ FindDuplicate \/ FindDerivation
  BY <1>2, LoadCounts
<1>3. CASE SaveUse \/ AppendUse
  BY <1>3, SaveUseCounts, AppendUseCounts
<1>4. CASE SaveUtility \/ SaveMerge \/ SaveDerivation
  BY <1>4, WriteBackCounts
<1>5. CASE SaveNewMemory \/ SaveNewSkill
  BY <1>5, NewRecordCounts
<1>6. CASE CommandLine
  BY <1>6, WithdrawCounts
<1>7. CASE UNCHANGED vars
  <2>1. UNCHANGED <<memories, skills, uses, sessions, pc, cfg, task, todo, copy, crashes, telemetry>>
    BY <1>7 DEF vars, disk, session, work, history
  <2>2. LogInv'
    BY <2>1 DEF CountInv, LogInv
  <2>3. CopyInv'
    BY <2>1 DEF CountInv, CopyInv, Use, SessionOf, Holding, Record
  <2>4. Unlogged' = Unlogged
    BY <2>1 DEF Unlogged
  <2>5. Missing' = Missing /\ (Ahead' <=> Ahead) /\ Due' = Due
    BY <2>1, <2>4 DEF Missing, Ahead, Between, Due
  <2>6. BalanceInv'
    BY <2>1, <2>4, <2>5 DEF CountInv, BalanceInv
  <2> QED BY <2>2, <2>3, <2>6 DEF CountInv
<1> QED BY <1>1, <1>2, <1>3, <1>4, <1>5, <1>6, <1>7 DEF Next, Run

\* What records count of exposures, references, help, and, for memories, harm
\* agrees with the log, over all sessions, repeated or not, except for one use at
\* most for each crash between the save of a record and the row of the use
\* (store.py, add_memory_usage).  It says nothing of the harm that skills count.
THEOREM CountsAreLogged == Spec => []CountsMatchUses
<1>1. KnowledgeInv /\ CountInv => CountsMatchUses
  <2> SUFFICES ASSUME KnowledgeInv, CountInv PROVE CountsMatchUses
    OBVIOUS
  <2>1. \A c \in DOMAIN Unlogged : Unlogged[c] >= 0
    BY DEF CountInv, BalanceInv
  <2>2. Cardinality(Missing) \in Nat /\ crashes \in Nat
    BY FS_CardinalityType, KnowledgeAssumption
       DEF KnowledgeInv, ControlInv, CountInv, BalanceInv
  <2>3. Cardinality(Missing) <= crashes + (IF Between THEN 1 ELSE 0)
    BY <2>2 DEF CountInv, BalanceInv, Ahead
  <2> QED BY <2>1, <2>3 DEF CountsMatchUses
<1>2. Spec => []CountInv
  <2>1. Init => KnowledgeInv /\ CountInv
    BY InitInv, CountInit
  <2>2. (KnowledgeInv /\ CountInv) /\ [Next]_vars => (KnowledgeInv /\ CountInv)'
    BY KnowledgeStep, CountStep
  <2> QED BY <2>1, <2>2, PTL DEF Spec
<1> QED BY <1>1, <1>2, AlwaysKnowledgeInv, PTL
=============================================================================
