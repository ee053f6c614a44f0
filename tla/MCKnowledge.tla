---------------------------- MODULE MCKnowledge -----------------------------
(* A small instance of Knowledge for TLC. *)
EXTENDS Knowledge

MCTasks == {"t1", "t2"}
MCProjectOf == [t \in MCTasks |-> IF t = "t1" THEN "p1" ELSE "p2"]

MCContradicts(l, m) == {l, m} = {"strip", "keep"}

MCConfig(mode, frozen, needActive) ==
    [mode |-> mode, frozen |-> frozen, needActive |-> needActive, strict |-> FALSE,
     contract |-> TRUE]

\* A process that demands active sources does less than the first of these: every
\* session that is verified changes files.
MCConfigs == {MCConfig("memory_skill", FALSE, FALSE), MCConfig("memory_skill", TRUE, TRUE)}

MCOutcome(report, complete, changed, stuck) ==
    [report |-> report, complete |-> complete, passed |-> complete,
     failed |-> report = "failed", changed |-> changed, stuck |-> stuck,
     cut |-> FALSE, mute |-> FALSE]

\* A session that was verified, one that broke its checks, one that got stuck.
MCOutcomes == {MCOutcome("verified", TRUE, TRUE, FALSE),
               MCOutcome("failed", FALSE, TRUE, FALSE),
               MCOutcome("none", FALSE, FALSE, TRUE)}

MCDraft(lesson, scope, quality, specific) ==
    [lesson |-> lesson, scope |-> scope, quality |-> quality, specific |-> specific]
MCDrafts == {MCDraft("strip", "portable", "sound", FALSE), MCDraft("keep", "project", "sound", FALSE),
             MCDraft("strip", "portable", "low", TRUE)}
MCSkillDrafts == {[sources |-> {1}, scope |-> "portable"],
                  [sources |-> {0, 1}, scope |-> "project"]}

\* Two sessions taught nothing; or the first, which got stuck in t1, left a
\* memory, and the second solved t1 with its help and left a skill.
MCUse(type) == [session |-> <<"p1", 2>>, task |-> "t1", item |-> Memory(1), type |-> type]
MCStores ==
    {[memories |-> <<>>, skills |-> <<>>, uses |-> {}, episodes |-> {1, 2},
      sessions |-> [p1 |-> 2, p2 |-> 0], packs |-> 2,
      earned |-> [s \in 1..MaxSkills |-> {}]],
     [memories |-> <<[status |-> "active", scope |-> "project", lesson |-> "strip",
                      home |-> "p1", episodes |-> {1},
                      count |-> [Unused EXCEPT !["exposed"] = 1, !["referenced"] = 1,
                                               !["helpful"] = 1]]>>,
      skills |-> <<[status |-> "validated", scope |-> "project", fingerprint |-> "f",
                    sources |-> {0, 1}, successes |-> 1, failures |-> 0, tasks |-> {"t1"},
                    repositories |-> {"f"}, count |-> Unused]>>,
      uses |-> {MCUse("exposed"), MCUse("referenced"), MCUse("helpful")},
      episodes |-> {1, 2}, sessions |-> [p1 |-> 2, p2 |-> 0], packs |-> 2,
      earned |-> [s \in 1..MaxSkills |-> IF s = 1 THEN {"t1"} ELSE {}]]}
=============================================================================
