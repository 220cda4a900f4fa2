------------------------- MODULE RevisionLifecycle -------------------------
(***************************************************************************)
(* The revisions of Boots that come and go under one name.                 *)
(*                                                                         *)
(* BootRevisions has one Boot that stays.  Here users also delete it and   *)
(* create it again, Kubernetes collects what belonged to the deleted one,  *)
(* and the BootRevision controller, which looks for the Boot by name in    *)
(* its cache, adopts a revision, counts a retry, or gives the revision up, *)
(* as its cache shows the Boot and the revision.                           *)
(*                                                                         *)
(* Abstraction: the Boot controller starts a pass only once the informer   *)
(* shows the Boot as it is; a pass on a Boot that is gone changes nothing  *)
(* but the phase of a revision.                                            *)
(***************************************************************************)
EXTENDS BootRevisions

CONSTANT MaxDeletes  \* bound: deletions of the Boot

ASSUME DeletesAssumption == MaxDeletes \in Nat

VARIABLES
    bootSeen,  \* the uid of the Boot in the operator's cache, 0 for none
    metaSeen,  \* owner and retries of the cached revisions
    deletes    \* deletions of the Boot so far

seen == <<bootSeen, metaSeen>>
lifeVars == <<vars, seen, deletes>>

LifeInit ==
    /\ Init
    /\ bootSeen = 0
    /\ metaSeen = meta
    /\ deletes = 0

\* Requests that were prepared for this Boot will find it changed; a pass over a
\* Boot that is gone returns at once.
DeleteBoot ==
    /\ boot # NoBoot
    /\ deletes < MaxDeletes
    /\ deletes' = deletes + 1
    /\ boot' = NoBoot
    /\ req' = [w \in Writers |-> [req[w] EXCEPT !.cur = FALSE]]
    /\ UNCHANGED <<uids, revs, meta, cache, cacheFresh, work, others, seen>>

\* Kubernetes deletes the revisions whose owner is gone.
Collect(i) ==
    /\ meta[i].owner \notin {0, boot.uid}
    /\ Remove(i)
    /\ UNCHANGED <<doomed, seen, deletes>>

----------------------------------------------------------------------------
(* The BootRevision controller, one worker per revision *)

\* getBoot: the Boot of that name and type, in the cache.
FoundBoot == bootSeen # 0

\* Mutants: a revision is adopted only the first time it is looked at; a second
\* worker looks at a revision that is being given up.
AdoptAtOnce(i) ==
    /\ i \notin doomed
    /\ FoundBoot /\ meta[i].retry = 0
    /\ Adopt(i, bootSeen)
    /\ UNCHANGED <<seen, deletes>>

AdoptDoomed(i) ==
    /\ FoundBoot
    /\ Adopt(i, bootSeen)
    /\ UNCHANGED <<seen, deletes>>

\* The Boot that the cache shows becomes the owner, by name: it may be gone
\* already, or be another than the one the revision was recorded for.
AdoptSeen(i) ==
    /\ i \notin doomed
    /\ FoundBoot
    /\ Adopt(i, bootSeen)
    /\ UNCHANGED <<seen, deletes>>

CountRetry(i) ==
    /\ i \notin doomed
    /\ ~FoundBoot
    /\ RetryLater(i)
    /\ UNCHANGED <<seen, deletes>>

\* Mutants: a revision that is given up is not deleted; it is given up for its
\* retries, though its Boot was found in the end.
GiveUpOnly(i) ==
    /\ i \notin doomed
    /\ ~FoundBoot
    /\ cache[i] # NoRevision
    /\ metaSeen[i].owner = 0 /\ metaSeen[i].retry > RetryLimit
    /\ UNCHANGED lifeVars

GiveUpFound(i) ==
    /\ i \notin doomed
    /\ cache[i] # NoRevision
    /\ metaSeen[i].owner = 0 /\ metaSeen[i].retry > RetryLimit
    /\ Doom(i)
    /\ UNCHANGED <<seen, deletes>>

\* No Boot, and too many retries already, as far as the cache shows.
GiveUpSeen(i) ==
    /\ i \notin doomed
    /\ ~FoundBoot
    /\ cache[i] # NoRevision
    /\ metaSeen[i].owner = 0 /\ metaSeen[i].retry > RetryLimit
    /\ Doom(i)
    /\ UNCHANGED <<seen, deletes>>

Discard(i) == DeleteDoomed(i) /\ UNCHANGED <<seen, deletes>>

----------------------------------------------------------------------------
SyncRevisions ==
    /\ Sync
    /\ metaSeen' = meta
    /\ UNCHANGED <<bootSeen, deletes>>

SyncBoot ==
    /\ bootSeen # boot.uid
    /\ bootSeen' = boot.uid
    /\ UNCHANGED <<vars, metaSeen, deletes>>

\* A creation is denied, before a revision is recorded for it, as long as the
\* cache shows a Boot of that name.
Creating(w) == boot = NoBoot /\ req[w].stage = "list" /\ req[w].cur

BootNameExist(w) ==
    /\ Creating(w) /\ FoundBoot
    /\ End(w)
    /\ UNCHANGED <<boot, uids, others, seen, deletes>>

\* What BootRevisions has of the webhook, the users and the Boot controller.
Record(w) ==
    /\ Creating(w) => ~FoundBoot
    /\ Webhook(w)
    /\ UNCHANGED <<seen, deletes>>
Pass ==
    /\ bootSeen = boot.uid
    /\ Reconcile \/ DropPass
    /\ UNCHANGED <<seen, deletes>>
MovePhase == UpdatePhase /\ UNCHANGED <<seen, deletes>>

Look(i) == AdoptSeen(i) \/ CountRetry(i) \/ GiveUpSeen(i) \/ Discard(i)

LifeNext ==
    \/ \E c \in Clients, s \in Specs : Submit(c, s) /\ UNCHANGED <<seen, deletes>>
    \/ \E w \in Writers : Record(w) \/ BootNameExist(w)
    \/ \E w \in Writers : FailRequest(w) /\ UNCHANGED <<seen, deletes>>
    \/ Event /\ UNCHANGED <<seen, deletes>>
    \/ Pass
    \/ MovePhase
    \/ DeleteBoot
    \/ \E i \in Ids : Collect(i)
    \/ \E i \in Ids : Look(i)
    \/ SyncRevisions
    \/ SyncBoot

LifeSpec == LifeInit /\ [][LifeNext]_lifeVars

\* As in BootRevisions, with the garbage collector and the BootRevision
\* controller, which is requeued after every pass that leaves a revision unowned.
LifeFairness ==
    /\ \A w \in Writers : WF_lifeVars(Record(w) \/ BootNameExist(w))
    /\ WF_lifeVars(Pass)
    /\ WF_lifeVars(MovePhase)
    /\ \A i \in Ids : WF_lifeVars(Collect(i)) /\ WF_lifeVars(Look(i))
    /\ WF_lifeVars(SyncRevisions)
    /\ WF_lifeVars(SyncBoot)

FairLifeSpec == LifeSpec /\ LifeFairness

----------------------------------------------------------------------------
(* Properties *)

\* Every variable keeps its type.
LifeTypeOK ==
    /\ TypeOK
    /\ bootSeen \in Nat
    /\ metaSeen \in [Ids -> Meta]
    /\ deletes \in Nat

\* A copy that passes the optimistic lock is of a revision that is there, and as
\* it stands, its owner and retries included.
CopiesLocked ==
    /\ \A i \in cacheFresh : cache[i] = revs[i] /\ metaSeen[i] = meta[i]
    /\ \A w \in Writers : req[w].fresh => req[w].latest \in Held(revs)
    /\ \A w \in At({"prune"}) : ~req[w].fresh

\* A request has what it is to record, and the controller's is for a Boot that
\* was not deleted meanwhile, or will be refused: it never brings a Boot back.
RequestsPrepared ==
    /\ \A w \in At({"list", "create", "demote", "prune", "store"}) : req[w].spec \in Specs
    /\ \A w \in At({"create", "demote", "prune"}) : req[w].new \in Ids
    /\ req[Controller].stage # "idle" /\ req[Controller].cur => boot # NoBoot

\* Owners are Boots that were stored, the one that is there being the last of
\* them; what is gone has no owner.
OwnersExisted ==
    /\ boot.uid \in {0, uids} /\ bootSeen <= uids
    /\ \A i \in Ids : /\ meta[i].owner <= uids
                      /\ revs[i] = NoRevision => meta[i] = Unowned

\* What belongs to the Boot that is there is not being given up: it was adopted
\* when the cache showed that Boot, and the cache has not lost it since.
OwnedIsNotDoomed ==
    boot # NoBoot =>
        \A i \in Ids : meta[i].owner = boot.uid => bootSeen = boot.uid /\ i \notin doomed

\* The inductive invariant behind the theorems of RevisionLifecycleProofs.
LifeInv ==
    /\ LifeTypeOK
    /\ CopiesLocked
    /\ RequestsPrepared
    /\ OwnersExisted
    /\ OwnedIsNotDoomed

\* A revision that the Boot owns is deleted by the webhook's prune only.  The
\* BootRevision controller decides to delete one from what two caches showed, and
\* deletes without a precondition, while Boots of that name are deleted and
\* created; the collector deletes what belongs to Boots that are gone.
OwnedIsOnlyPruned ==
    [][\A i \in Held(revs) : boot # NoBoot /\ meta[i].owner = boot.uid /\ revs'[i] = NoRevision
          => \E w \in Writers : req[w].stage = "prune" /\ i \in req[w].todo]_lifeVars

\* Once users and the API server leave the name alone, a Boot that was deleted
\* takes every revision with it, those in flight at its deletion, those of
\* refused creations and those that were adopted too late included
\* (test/e2e/revision_test.go:227).
DeletedWithBoot == <>[](boot = NoBoot => Held(revs) = {})

\* And a Boot that is there comes to own every revision of its name: none is
\* left to an earlier Boot or to nobody.
EventuallyOwned ==
    <>[](boot # NoBoot => \A i \in Held(revs) : meta[i].owner = boot.uid)

\* Nothing is on its way.
Resting ==
    /\ AtRest /\ doomed = {}
    /\ cache = revs /\ cacheFresh = Ids /\ metaSeen = meta /\ bootSeen = boot.uid
    /\ \A i \in Ids : meta[i].owner \in {0, boot.uid}

\* A created Boot has a revision once the controller has reported on it
\* (boot_validation.go:120, "Record a revision when creating or updating if
\* validation Boot valid").
CreatedIsRecorded ==
    Resting /\ boot # NoBoot /\ boot.rev # 0 => Held(revs) # {}

============================================================================
