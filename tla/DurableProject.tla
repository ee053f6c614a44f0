--------------------------- MODULE DurableProject ---------------------------
(***************************************************************************)
(* What a project promises whoever runs it, whatever processes die: one    *)
(* process at a time works from what was saved, it never knows less than   *)
(* before, and what it saves is what it knows.                             *)
(*                                                                         *)
(* Progress is what a user would miss: the sessions and verifications that *)
(* were spent, the tasks, and which of them are done.  A task that was     *)
(* done is so again only after verification reopened it.                   *)
(***************************************************************************)
EXTENDS Naturals

CONSTANT Task

VARIABLES
    running, \* is there a process?
    known,   \* its progress
    saved    \* the progress on disk

vars == <<running, known, saved>>

Nothing ==
    [sessions |-> 0, verifications |-> 0, tasks |-> {}, done |-> {},
     reopens |-> [t \in Task |-> 0]]

\* new adds to old.
Later(old, new) ==
    /\ old.sessions <= new.sessions /\ old.verifications <= new.verifications
    /\ old.tasks \subseteq new.tasks
    /\ \A t \in old.tasks : old.reopens[t] <= new.reopens[t]
    /\ \A t \in old.done : t \in new.done \/ old.reopens[t] < new.reopens[t]

Init == running = FALSE /\ known = Nothing /\ saved = Nothing

Begin ==
    /\ running = FALSE /\ running' = TRUE
    /\ known' = saved
    /\ UNCHANGED saved

Work ==
    /\ running = TRUE
    /\ Later(known, known')
    /\ saved' \in {saved, known'}
    /\ UNCHANGED running

\* It returns, raises or dies.
End ==
    /\ running = TRUE /\ running' = FALSE
    /\ known' = Nothing
    /\ UNCHANGED saved

Next == Begin \/ Work \/ End

Spec == Init /\ [][Next]_vars
=============================================================================
