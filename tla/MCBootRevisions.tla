-------------------------- MODULE MCBootRevisions --------------------------
(* Small instances of BootRevisions for TLC. *)
EXTENDS BootRevisions, Sequences, TLC

HistoryAB == <<"A", "B">>
CONSTANT History  \* the spec of each revision of the Boot a run starts with

\* Users and specs are interchangeable: for the runs from Init with invariants
\* and action properties only.
Symmetry == Permutations(Clients) \union Permutations(Specs)
UserSymmetry == Permutations(Clients)

\* A Boot that has been updated undisturbed until its history was as long as
\* History: a state reachable from Init by updates that each ran alone.
InitSettled ==
    LET n == Len(History)
        settled == [i \in Ids |->
            IF i > n THEN NoRevision
            ELSE [spec |-> History[i], phase |-> IF i = n THEN "Active" ELSE "Complete"]]
    IN /\ boot = [uid |-> 1, spec |-> History[n], rev |-> n, ready |-> TRUE]
       /\ uids = 1
       /\ revs = settled
       /\ meta = [i \in Ids |-> IF i > n THEN Unowned ELSE [Unowned EXCEPT !.owner = 1]]
       /\ cache = settled
       /\ cacheFresh = Ids
       /\ req = [w \in Writers |-> Idle]
       /\ work = "none"
       /\ doomed = {}
       /\ forsaken = FALSE
       /\ unsettled = 0
       /\ updates = 0
       /\ errors = 0

\* From nothing, or from a history of that length.
EitherSpec == (Init \/ InitSettled) /\ [][Next]_vars
EitherFairSpec == EitherSpec /\ Fairness

SettledSpec == InitSettled /\ [][Next]_vars
============================================================================
