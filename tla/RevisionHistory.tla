-------------------------- MODULE RevisionHistory --------------------------
(***************************************************************************)
(* What the revision history of one Boot promises, whoever writes it and   *)
(* from whatever copies: a ledger of specs under growing ids.  A revision  *)
(* is recorded live, next to the newest at the latest; it is retired once, *)
(* for good, only behind a newer one, and pruned only behind as many newer *)
(* ones as are to be retained; what it records never changes.  The id on   *)
(* the Boot moves forward, never past the ledger.                          *)
(*                                                                         *)
(* One that nobody owned may be struck out instead, the newest too.  That  *)
(* breaks the ledger: of its order nothing is promised until it starts     *)
(* again from nothing, but what an entry records does not change even then.*)
(***************************************************************************)
EXTENDS Integers, FiniteSets

CONSTANTS
    Ids,      \* revision ids
    Specs,    \* what is recorded
    Missing,  \* no revision
    Retained  \* the newest revisions, which are never deleted

VARIABLES
    ledger,  \* the revisions, by id
    current, \* the id on the Boot, 0 for none
    broken   \* an entry was struck out

vars == <<ledger, current, broken>>

Entry == [spec: Specs, live: BOOLEAN]

\* The ledger has come as far as id n, or further.
Reached(n) == \E j \in Ids : j >= n /\ ledger[j] # Missing

\* A ledger in order, empty or not: what is retired stands behind something
\* newer, and the Boot has no id, or one the ledger has reached.
Init ==
    /\ \A i \in Ids : /\ ledger[i] \in Entry \union {Missing}
                      /\ ledger[i] # Missing /\ ~ledger[i].live => Reached(i + 1)
    /\ current = 0 \/ Reached(current)
    /\ broken = FALSE

\* A list that missed others' revisions may record behind the newest one, at an
\* id that is free; never beyond the id that follows it.
Record(i, s) ==
    /\ ledger[i] = Missing
    /\ i = 1 \/ Reached(i - 1)
    /\ ledger' = [ledger EXCEPT ![i] = [spec |-> s, live |-> TRUE]]
    /\ UNCHANGED current

Retire(i) ==
    /\ ledger[i] # Missing /\ ledger[i].live
    /\ Reached(i + 1)
    /\ ledger' = [ledger EXCEPT ![i] = [spec |-> @.spec, live |-> FALSE]]
    /\ UNCHANGED current

Prune(i) ==
    /\ ledger[i] # Missing
    /\ Cardinality({j \in Ids : j > i /\ ledger[j] # Missing}) >= Retained
    /\ ledger' = [ledger EXCEPT ![i] = Missing]
    /\ UNCHANGED current

Advance(i) ==
    /\ current < i /\ Reached(i)
    /\ current' = i
    /\ UNCHANGED ledger

StrikeOut(i) ==
    /\ ledger[i] # Missing
    /\ ledger' = [ledger EXCEPT ![i] = Missing]
    /\ broken' = TRUE
    /\ UNCHANGED current

\* What may become of an entry, and of the id, once the ledger is broken.
Drift(i) ==
    /\ \E x \in Entry \union {Missing} :
          /\ ledger[i] # Missing /\ x # Missing => x.spec = ledger[i].spec
          /\ ledger' = [ledger EXCEPT ![i] = x]
    /\ UNCHANGED current

Wander ==
    /\ current' \in Ids \union {0}
    /\ UNCHANGED ledger

StartAgain ==
    /\ \A i \in Ids : ledger[i] = Missing
    /\ current = 0
    /\ broken' = FALSE
    /\ UNCHANGED <<ledger, current>>

Next ==
    \/ /\ ~broken
       /\ \/ \E i \in Ids, s \in Specs : Record(i, s)
          \/ \E i \in Ids : Retire(i) \/ Prune(i) \/ Advance(i)
       /\ UNCHANGED broken
    \/ \E i \in Ids : StrikeOut(i)
    \/ /\ broken
       /\ (\E i \in Ids : Drift(i)) \/ Wander
       /\ UNCHANGED broken
    \/ broken /\ StartAgain

Spec == Init /\ [][Next]_vars
============================================================================
