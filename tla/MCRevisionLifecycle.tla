------------------------ MODULE MCRevisionLifecycle ------------------------
(* Small instances of RevisionLifecycle for TLC. *)
EXTENDS RevisionLifecycle, MCBootRevisions

\* A Boot that has been updated undisturbed, and whose revisions are adopted.
SettledLifeInit ==
    /\ InitSettled
    /\ bootSeen = 1
    /\ metaSeen = meta
    /\ deletes = 0

SettledFairLifeSpec == SettledLifeInit /\ [][LifeNext]_lifeVars /\ LifeFairness
============================================================================
