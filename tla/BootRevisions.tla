--------------------------- MODULE BootRevisions ---------------------------
(***************************************************************************)
(* The revision history of one Boot while the Boot is alive.               *)
(*                                                                         *)
(* Every create or update of a Boot passes through the validating webhook, *)
(* which records a BootRevision before the API server stores the Boot:     *)
(* list the history, create revision n+1, retire revision n, prune the     *)
(* oldest ones.  The Boot controller moves the newest revision between     *)
(* Running and Active and writes its id back on the Boot, and that write   *)
(* passes through the same webhook; it works from a queue that events of   *)
(* the Boot and of what the Boot owns feed, and no event of a revision.    *)
(* The BootRevision controller adopts revisions, and deletes those nobody  *)
(* owns after too many retries, the newest one too.  All of them read the  *)
(* operator's informer cache and write to the API server, one call at a    *)
(* time, with optimistic locking.                                          *)
(*                                                                         *)
(* Abstractions.  A revision's content is its hash, a member of Specs.  A  *)
(* resourceVersion is kept only as the answer to "is the copy I read still *)
(* the current one?": cacheFresh for the cached copies, fresh for the copy *)
(* of the latest revision a request holds, cur for the Boot it read.       *)
(***************************************************************************)
EXTENDS Integers, FiniteSets

CONSTANTS
    Specs,       \* hashes of Boot specs, as BootHash tells them apart
    None,        \* no spec
    Clients,     \* concurrent API requests by users of the Boot
    Controller,  \* the one worker reconciling this Boot
    MaxHistory,  \* logan.MaxHistory
    Availability,\* bound: what the workload may report, all its replicas ready or not
    RetryLimit,  \* a revision without a Boot is given up past so many retries (20)
    MaxId,       \* bound: the largest revision id
    MaxUpdates,  \* bound: requests the users make
    MaxErrors    \* bound: API calls, webhook calls or admissions that fail

ASSUME NoneAssumption == None \notin Specs
ASSUME ControllerAssumption == Controller \notin Clients
ASSUME ClientsAssumption == IsFiniteSet(Clients)
ASSUME HistoryAssumption == MaxHistory \in Nat \ {0}
ASSUME AvailabilityAssumption == Availability \subseteq BOOLEAN
ASSUME LimitsAssumption == RetryLimit \in Nat /\ MaxId \in Nat \ {0}
ASSUME BudgetAssumption == MaxUpdates \in Nat /\ MaxErrors \in Nat

VARIABLES
    boot,        \* the Boot in the API server
    uids,        \* the number of Boots stored so far under this name
    revs,        \* the BootRevisions in the API server, by id
    meta,        \* their owner (incarnation of the Boot, 0 for none) and retries
    cache,       \* the BootRevisions as the operator's informer last saw them
    cacheFresh,  \* ids whose cached copy has the current resourceVersion
    req,         \* the API request each writer has in flight
    work,        \* whether a pass over the Boot is queued; "overdue": none is,
                 \* since the history was left as no pass has seen it
    doomed,      \* revisions whose deletion has been decided
    forsaken,    \* history variable: a revision was deleted for want of an
                 \* owner, and the history has not started again from nothing
    unsettled,   \* history variable: revisions that were created without the
                 \* retiring and pruning due for them ever being completed
    updates,     \* requests the users have made
    errors       \* failures injected so far

vars == <<boot, uids, revs, meta, cache, cacheFresh, req, work, doomed, forsaken,
          unsettled, updates, errors>>
others == <<doomed, forsaken, unsettled, updates, errors>>

Ids == 1..MaxId
Writers == Clients \union {Controller}

LivePhases == {"Running", "Active"}
FinishedPhases == {"Complete", "Cancelled"}
Phases == LivePhases \union FinishedPhases

NoRevision == [spec |-> None, phase |-> "absent"]
Revision == [spec: Specs, phase: Phases]

Unowned == [owner |-> 0, retry |-> 0]
Meta == [owner: Nat, retry: Nat]

NoBoot == [uid |-> 0, spec |-> None, rev |-> 0, ready |-> FALSE]
Boot == [uid: Nat \ {0}, spec: Specs, rev: 0..MaxId, ready: BOOLEAN]

Stages == {"idle", "phase", "list", "create", "demote", "prune", "store"}

\* spec, rev, ready: what to store (a user sets the spec, the controller the
\* revision id and the availability annotation); cur: the Boot has not been
\* written since it was read; new, latest: the revision to create and the one
\* it supersedes; seen: the phase of latest in the copy held (the controller:
\* the phase to write); fresh: that copy is still current; todo: to prune.
Request == [stage: Stages, spec: Specs \union {None}, rev: 0..MaxId, ready: BOOLEAN,
            cur: BOOLEAN, new: 0..MaxId, latest: 0..MaxId, seen: Phases,
            fresh: BOOLEAN, todo: SUBSET Ids]
Idle == [stage |-> "idle", spec |-> None, rev |-> 0, ready |-> FALSE,
         cur |-> FALSE, new |-> 0, latest |-> 0, seen |-> "Running",
         fresh |-> FALSE, todo |-> {}]

WorkStates == {"none", "queued", "overdue"}

Held(rs) == {i \in Ids : rs[i] # NoRevision}
Newest(i, S) == i \in S /\ \A j \in S : j <= i
AtRest == \A w \in Writers : req[w].stage = "idle"

----------------------------------------------------------------------------
Init ==
    /\ boot = NoBoot
    /\ uids = 0
    /\ revs = [i \in Ids |-> NoRevision]
    /\ meta = [i \in Ids |-> Unowned]
    /\ cache = revs
    /\ cacheFresh = Ids
    /\ req = [w \in Writers |-> Idle]
    /\ work = "none"
    /\ doomed = {}
    /\ forsaken = FALSE
    /\ unsettled = 0
    /\ updates = 0
    /\ errors = 0

\* A write of revision i makes every copy of it that was read before stale.
Outdated(i) ==
    [v \in Writers |-> IF req[v].latest = i THEN [req[v] EXCEPT !.fresh = FALSE]
                                            ELSE req[v]]

\* The API server takes writer w's write of revision i, and w goes on as r.
WriteRevision(w, i, revision, r) ==
    /\ revs' = [revs EXCEPT ![i] = revision]
    /\ cacheFresh' = cacheFresh \ {i}
    /\ req' = [Outdated(i) EXCEPT ![w] = r]
    /\ UNCHANGED cache

\* A pass whose call is refused is requeued.  Nobody is told of a revision
\* recorded for a user's request that was then refused.
AfterRefusal(w) ==
    CASE w = Controller -> "queued"
      [] w # Controller /\ work = "none" /\ req[w].stage \in {"demote", "prune", "store"} ->
              "overdue"
      [] OTHER -> work

\* The request is denied; what it already wrote stays.
End(w) ==
    /\ req' = [req EXCEPT ![w] = Idle]
    /\ work' = AfterRefusal(w)
    /\ UNCHANGED <<revs, meta, cache, cacheFresh>>

\* ... and the revision it created stays unsettled.
EndUnsettled(w) ==
    /\ End(w)
    /\ unsettled' = unsettled + 1
    /\ UNCHANGED <<boot, uids, doomed, forsaken, updates, errors>>

----------------------------------------------------------------------------
(* The users *)

\* A user creates the Boot, or updates the spec of the Boot it has just read;
\* s may be the Boot's own spec: a scale, a redeploy or the defaults.  Of two
\* creations at a time, the second may pass BootNameExist, which asks the cache.
Submit(c, s) ==
    /\ req[c].stage = "idle"
    /\ updates < MaxUpdates
    /\ req' = [req EXCEPT ![c] = [Idle EXCEPT !.stage = "list", !.spec = s, !.cur = TRUE]]
    /\ updates' = updates + 1
    /\ UNCHANGED <<boot, uids, revs, meta, cache, cacheFresh, work, doomed, forsaken,
                   unsettled, errors>>

----------------------------------------------------------------------------
(* The validating webhook: recordRevision and keepRevisionMaxSizeLimit *)

\* Mutants: pruning keeps one revision too few; one too many; the oldest ones.
SurplusButOne(L) == {i \in L : Cardinality({j \in L : j > i}) >= MaxHistory - 2}
SurplusAfterMax(L) == {i \in L : Cardinality({j \in L : j > i}) >= MaxHistory}
SurplusOfNewest(L) == {i \in L : Cardinality({j \in L : j < i}) >= MaxHistory - 1}

\* What is left in the history besides the revision being created are the
\* MaxHistory - 1 newest of the list; the others are pruned.
Surplus(L) == {i \in L : Cardinality({j \in L : j > i}) >= MaxHistory - 1}

\* Mutant: the latest revision is to be updated without its resourceVersion.
ListUnlocked(w) ==
    /\ req[w].stage = "list"
    /\ LET L == Held(cache) IN
       \/ /\ L = {}
          /\ req' = [req EXCEPT ![w].stage = "create", ![w].new = 1]
       \/ \E l \in L :
          /\ Newest(l, L)
          /\ l + 1 <= MaxId
          /\ req' = [req EXCEPT ![w].stage = IF cache[l].spec = req[w].spec
                                             THEN "store" ELSE "create",
                                ![w].new = l + 1, ![w].latest = l,
                                ![w].seen = cache[l].phase, ![w].fresh = TRUE,
                                ![w].todo = Surplus(L)]
    /\ UNCHANGED <<boot, uids, revs, meta, cache, cacheFresh, work, others>>

\* List the history in the cache and compare the hash with the latest one's.
ListRevisions(w) ==
    /\ req[w].stage = "list"
    /\ LET L == Held(cache) IN
       \/ /\ L = {}
          /\ req' = [req EXCEPT ![w].stage = "create", ![w].new = 1]
       \/ \E l \in L :
          /\ Newest(l, L)
          /\ \/ /\ cache[l].spec = req[w].spec
                /\ req' = [req EXCEPT ![w].stage = "store"]
             \/ /\ cache[l].spec # req[w].spec
                /\ l + 1 <= MaxId
                /\ req' = [req EXCEPT ![w].stage = "create",
                                      ![w].new = l + 1,
                                      ![w].latest = l,
                                      ![w].seen = cache[l].phase,
                                      ![w].fresh = l \in cacheFresh,
                                      ![w].todo = Surplus(L)]
    /\ UNCHANGED <<boot, uids, revs, meta, cache, cacheFresh, work, others>>

\* recordRevision is done with request r.
Recorded(r) == [r EXCEPT !.stage = "store", !.new = 0, !.latest = 0,
                         !.seen = "Running", !.fresh = FALSE, !.todo = {}]

\* Create revision new; a revision of that name already there is an error.  A
\* first revision can come late, when others were created and pruned meanwhile.
CreateRevision(w) ==
    /\ req[w].stage = "create"
    /\ LET r == req[w] IN
       \/ /\ revs[r.new] = NoRevision
          /\ WriteRevision(w, r.new, [spec |-> r.spec, phase |-> "Running"],
                IF r.latest = 0 THEN Recorded(r) ELSE [r EXCEPT !.stage = "demote"])
          /\ meta' = [meta EXCEPT ![r.new] = Unowned]
          /\ unsettled' = IF r.latest = 0 /\ Held(revs) # {} THEN unsettled + 1
                                                            ELSE unsettled
          /\ UNCHANGED work
       \/ /\ revs[r.new] # NoRevision
          /\ End(w)
          /\ UNCHANGED unsettled
    /\ UNCHANGED <<boot, uids, doomed, forsaken, updates, errors>>

\* Mutant: a misspelt phase.
FinishMisspelt(phase) == IF phase = "Running" THEN "Canceled" ELSE "Complete"

Finish(phase) == CASE phase = "Running" -> "Cancelled"
                   [] phase = "Active"  -> "Complete"
                   [] OTHER             -> phase

\* Mutants: the revision just created is retired in place of the one before;
\* a conflict is logged and ignored; a conflict makes the webhook clean up.
DemoteNew(w) ==
    /\ req[w].stage = "demote"
    /\ WriteRevision(w, req[w].new, [revs[req[w].new] EXCEPT !.phase = Finish(req[w].seen)],
                     Recorded(req[w]))
    /\ UNCHANGED <<boot, uids, meta, work, others>>

DemoteOrGoOn(w) ==
    /\ req[w].stage = "demote"
    /\ LET r == req[w] IN
       IF r.fresh
       THEN WriteRevision(w, r.latest, [revs[r.latest] EXCEPT !.phase = Finish(r.seen)],
                          Recorded(r))
       ELSE /\ req' = [req EXCEPT ![w] = Recorded(r)]
            /\ UNCHANGED <<revs, cache, cacheFresh>>
    /\ UNCHANGED <<boot, uids, meta, work, others>>

DemoteOrRollBack(w) ==
    /\ req[w].stage = "demote"
    /\ LET r == req[w] IN
       IF r.fresh
       THEN WriteRevision(w, r.latest, [revs[r.latest] EXCEPT !.phase = Finish(r.seen)],
                          Recorded(r))
       ELSE WriteRevision(w, r.new, NoRevision, Idle)
    /\ UNCHANGED <<boot, uids, meta, work, others>>

\* Retire the revision that was the latest, with the copy that was listed.
DemoteLatest(w) ==
    /\ req[w].stage = "demote"
    /\ LET r == req[w] IN
       \/ /\ r.fresh
          /\ WriteRevision(w, r.latest, [revs[r.latest] EXCEPT !.phase = Finish(r.seen)],
                IF r.todo = {} THEN Recorded(r)
                ELSE [r EXCEPT !.stage = "prune", !.latest = 0,
                               !.seen = "Running", !.fresh = FALSE])
          /\ UNCHANGED <<boot, uids, meta, work, others>>
       \/ ~r.fresh /\ EndUnsettled(w)

\* Delete the surplus, oldest first; one that is gone already is an error.
PruneOldest(w) ==
    /\ req[w].stage = "prune"
    /\ \E i \in req[w].todo :
       LET rest == req[w].todo \ {i} IN
       /\ \A j \in rest : i < j
       /\ \/ /\ revs[i] # NoRevision
             /\ WriteRevision(w, i, NoRevision,
                   IF rest = {} THEN Recorded(req[w])
                   ELSE [req[w] EXCEPT !.todo = rest])
             /\ meta' = [meta EXCEPT ![i] = Unowned]
             /\ UNCHANGED <<boot, uids, work, others>>
          \/ revs[i] = NoRevision /\ EndUnsettled(w)

\* The webhook admitted the request: the API server stores the Boot, unless
\* another write of it came first.  The Boot's event queues a pass.
StoreBoot(w) ==
    /\ req[w].stage = "store"
    /\ LET r == req[w] IN
       \/ /\ r.cur
          /\ boot' = CASE w = Controller -> [boot EXCEPT !.rev = r.rev, !.ready = r.ready]
                       [] boot = NoBoot  -> [NoBoot EXCEPT !.uid = uids + 1, !.spec = r.spec]
                       [] OTHER          -> [boot EXCEPT !.spec = r.spec]
          /\ uids' = IF boot = NoBoot THEN uids + 1 ELSE uids
          /\ work' = "queued"
          /\ req' = [v \in Writers |-> IF v = w THEN Idle
                                                ELSE [req[v] EXCEPT !.cur = FALSE]]
       \/ /\ ~r.cur
          /\ req' = [req EXCEPT ![w] = Idle]
          /\ work' = AfterRefusal(w)
          /\ UNCHANGED <<boot, uids>>
    /\ UNCHANGED <<revs, meta, cache, cacheFresh, others>>

\* A call of the webhook to the API server fails, the webhook times out or
\* crashes, or another admission plugin denies the request.
FailRequest(w) ==
    /\ req[w].stage # "idle"
    /\ errors < MaxErrors
    /\ errors' = errors + 1
    /\ unsettled' = IF req[w].stage \in {"demote", "prune"} THEN unsettled + 1 ELSE unsettled
    /\ End(w)
    /\ UNCHANGED <<boot, uids, doomed, forsaken, updates>>

----------------------------------------------------------------------------
(* The Boot controller: ReconcileUpdateBootMeta and the Update after it *)

\* Mutant: only a change of the availability makes the controller send the Boot.
SendReady(r) ==
    IF r.cur /\ r.ready # boot.ready
    THEN [Idle EXCEPT !.stage = "list", !.spec = boot.spec, !.rev = r.rev,
                      !.ready = r.ready, !.cur = TRUE]
    ELSE Idle

\* Send the Boot with its new annotations, when they changed.  The API server
\* compares resourceVersions before it calls the webhook.
SendMeta(r) ==
    IF r.cur /\ <<r.rev, r.ready>> # <<boot.rev, boot.ready>>
    THEN [Idle EXCEPT !.stage = "list", !.spec = boot.spec, !.rev = r.rev,
                      !.ready = r.ready, !.cur = TRUE]
    ELSE Idle

\* One worker takes the Boot from the queue.  What its pass leaves to do when the
\* cache does not show it the newest revision, it leaves to the next event.
Startable == boot # NoBoot /\ work = "queued" /\ req[Controller].stage = "idle"
Seen == IF \A i \in Held(revs) : \E j \in Held(cache) : j >= i THEN "none" ELSE "overdue"

\* Mutants: any listed revision is taken for the latest; the Boot is given the
\* id that comes next.
ReconcileOther(pick(_, _), id(_)) ==
    /\ Startable
    /\ \E available \in Availability, l \in Held(cache) :
       LET read == [Idle EXCEPT !.cur = TRUE, !.rev = id(l), !.ready = available]
           phase == IF available THEN "Active" ELSE "Running"
       IN /\ pick(l, Held(cache))
          /\ req' = [req EXCEPT ![Controller] =
                       IF cache[l].phase = phase THEN SendMeta(read)
                       ELSE [read EXCEPT !.stage = "phase", !.latest = l,
                                         !.seen = phase, !.fresh = l \in cacheFresh]]
    /\ work' = Seen
    /\ UNCHANGED <<boot, uids, revs, meta, cache, cacheFresh, others>>

ReconcileAny == ReconcileOther(LAMBDA l, L : TRUE, LAMBDA l : l)
ReconcileNext == ReconcileOther(Newest, LAMBDA l : IF l < MaxId THEN l + 1 ELSE l)

\* A queued pass comes to the revisions: it reads the Boot, the workload's status
\* (available or not) and the newest revision, and writes its phase first when
\* that changed, else goes on to the Boot.
Reconcile ==
    /\ Startable
    /\ \E available \in Availability :
       LET L == Held(cache)
           phase == IF available THEN "Active" ELSE "Running"
           read(l) == [Idle EXCEPT !.cur = TRUE, !.rev = l, !.ready = available]
       IN \/ /\ L = {}
             /\ req' = [req EXCEPT ![Controller] = SendMeta(read(boot.rev))]
          \/ \E l \in L :
             /\ Newest(l, L)
             /\ req' = [req EXCEPT ![Controller] =
                          IF cache[l].phase = phase THEN SendMeta(read(l))
                          ELSE [read(l) EXCEPT !.stage = "phase", !.latest = l,
                                               !.seen = phase,
                                               !.fresh = l \in cacheFresh]]
    /\ work' = Seen
    /\ UNCHANGED <<boot, uids, revs, meta, cache, cacheFresh, others>>

\* The Boot is queued by an event of its workload, Service or HPA, by the
\* informer's resync or by a restart.
Event ==
    /\ boot # NoBoot
    /\ work' = "queued"
    /\ UNCHANGED <<boot, uids, revs, meta, cache, cacheFresh, req, others>>

\* A queued pass ends before it comes to the revisions, and is not queued again:
\* it could not create the Service.
DropPass ==
    /\ Startable
    /\ errors < MaxErrors
    /\ errors' = errors + 1
    /\ work' = "overdue"
    /\ UNCHANGED <<boot, uids, revs, meta, cache, cacheFresh, req, doomed, forsaken,
                   unsettled, updates>>

\* Mutant: the phase is written without the optimistic lock.
UpdatePhaseUnlocked ==
    /\ req[Controller].stage = "phase"
    /\ LET r == req[Controller] IN
       /\ revs[r.latest] # NoRevision
       /\ WriteRevision(Controller, r.latest,
                        [revs[r.latest] EXCEPT !.phase = r.seen], SendMeta(r))
    /\ UNCHANGED <<boot, uids, meta, work, others>>

\* Update the phase of the revision that was read; on a conflict, start again.
UpdatePhase ==
    /\ req[Controller].stage = "phase"
    /\ LET r == req[Controller] IN
       \/ /\ r.fresh
          /\ WriteRevision(Controller, r.latest,
                [revs[r.latest] EXCEPT !.phase = r.seen], SendMeta(r))
          /\ UNCHANGED <<meta, work>>
       \/ ~r.fresh /\ End(Controller)
    /\ UNCHANGED <<boot, uids, others>>

----------------------------------------------------------------------------
(* The BootRevision controller, one worker per revision.  It decides on the  *)
(* cached copy of revision i and its Update succeeds only if that copy is    *)
(* current: meta needs no cached counterpart.                                *)

Unadopted(i) == i \in cacheFresh /\ cache[i] # NoRevision /\ meta[i].owner = 0

\* Make the Boot that was found, of incarnation u, the owner of revision i.
Adopt(i, u) ==
    /\ Unadopted(i)
    /\ meta' = [meta EXCEPT ![i].owner = u]
    /\ cacheFresh' = cacheFresh \ {i}
    /\ req' = Outdated(i)
    /\ UNCHANGED <<boot, uids, revs, cache, work, others>>

\* No Boot was found (yet): count another retry.
RetryLater(i) ==
    /\ Unadopted(i)
    /\ meta[i].retry <= RetryLimit
    /\ meta' = [meta EXCEPT ![i].retry = @ + 1]
    /\ cacheFresh' = cacheFresh \ {i}
    /\ req' = Outdated(i)
    /\ UNCHANGED <<boot, uids, revs, cache, work, others>>

\* The worker of revision i goes on to delete it.
Doom(i) ==
    /\ doomed' = doomed \union {i}
    /\ UNCHANGED <<boot, uids, revs, meta, cache, cacheFresh, req, work, forsaken,
                   unsettled, updates, errors>>

\* No Boot, and too many retries already.
GiveUp(i) == Unadopted(i) /\ meta[i].retry > RetryLimit /\ Doom(i)

\* A deletion of revision i that no prune asked for reaches the API server.
Remove(i) ==
    /\ revs' = [revs EXCEPT ![i] = NoRevision]
    /\ meta' = [meta EXCEPT ![i] = Unowned]
    /\ cacheFresh' = cacheFresh \ {i}
    /\ req' = Outdated(i)
    /\ forsaken' = TRUE
    /\ UNCHANGED <<boot, uids, cache, work, unsettled, updates, errors>>

\* The Delete says nothing of the resourceVersion it is meant for; of a revision
\* that is gone already it is an error, and the revision is looked at again.
DeleteDoomed(i) ==
    /\ i \in doomed
    /\ doomed' = doomed \ {i}
    /\ \/ revs[i] # NoRevision /\ Remove(i)
       \/ /\ revs[i] = NoRevision
          /\ UNCHANGED <<boot, uids, revs, meta, cache, cacheFresh, req, work, forsaken,
                         unsettled, updates, errors>>

----------------------------------------------------------------------------
(* The informer catches up with the API server. *)

\* Nothing is left of the history: the next revision is the first one again.
StartsAgain == AtRest /\ Held(revs) = {} /\ boot.rev = 0

Sync ==
    /\ cache # revs \/ cacheFresh # Ids
    /\ cache' = revs
    /\ cacheFresh' = Ids
    /\ forsaken' = (forsaken /\ ~StartsAgain)
    /\ UNCHANGED <<boot, uids, revs, meta, req, work, doomed, unsettled, updates, errors>>

----------------------------------------------------------------------------
Webhook(w) ==
    \/ ListRevisions(w)
    \/ CreateRevision(w)
    \/ DemoteLatest(w)
    \/ PruneOldest(w)
    \/ StoreBoot(w)

Next ==
    \/ \E c \in Clients, s \in Specs : Submit(c, s)
    \/ \E w \in Writers : Webhook(w)
    \/ \E w \in Writers : FailRequest(w)
    \/ Event
    \/ Reconcile
    \/ DropPass
    \/ UpdatePhase
    \/ boot # NoBoot /\ \E i \in Ids \ doomed : Adopt(i, boot.uid)
    \/ boot = NoBoot /\ \E i \in Ids \ doomed : RetryLater(i) \/ GiveUp(i)
    \/ \E i \in Ids : DeleteDoomed(i)
    \/ Sync

Spec == Init /\ [][Next]_vars

\* The informer, the webhook and the Boot controller's worker keep running; users
\* and the BootRevision controller need not, and no event need come.
Fairness ==
    /\ \A w \in Writers : WF_vars(Webhook(w))
    /\ WF_vars(Reconcile)
    /\ WF_vars(UpdatePhase)
    /\ WF_vars(Sync)

FairSpec == Spec /\ Fairness

----------------------------------------------------------------------------
(* Properties.  Those of the whole history are about one no revision of which *)
(* was given up: between the Delete of DeleteDoomed, which takes the newest    *)
(* revision too, and StartsAgain they promise nothing.                         *)

Retired(phase) == phase \in FinishedPhases
At(stages) == {w \in Writers : req[w].stage \in stages}

\* Every variable keeps its type.
TypeOK ==
    /\ boot \in Boot \union {NoBoot}
    /\ uids \in Nat
    /\ revs \in [Ids -> Revision \union {NoRevision}]
    /\ meta \in [Ids -> Meta]
    /\ cache \in [Ids -> Revision \union {NoRevision}]
    /\ cacheFresh \in SUBSET Ids
    /\ req \in [Writers -> Request]
    /\ work \in WorkStates
    /\ doomed \in SUBSET Ids
    /\ forsaken \in BOOLEAN
    /\ unsettled \in Nat
    /\ updates \in Nat
    /\ errors \in Nat

\* A copy that passes the optimistic lock is the revision as it stands: what
\* recordRevision and ReconcileUpdateBootMeta decided from it is still true of
\* it when their Update is accepted.
CopiesCurrent ==
    /\ \A i \in cacheFresh : cache[i] = revs[i]
    /\ \A w \in At({"create", "demote"}) :
          req[w].fresh => revs[req[w].latest].phase = req[w].seen
    /\ \A w \in At({"phase"}) : req[w].fresh =>
          /\ revs[req[w].latest] # NoRevision
          /\ ~forsaken => revs[req[w].latest].phase \in LivePhases

Superseded(rs) ==
    \A i \in Ids : Retired(rs[i].phase) => \E j \in Held(rs) : j > i

\* Some newer revision stands behind every retired one, in the API server and
\* in every view of it the operator can have: the newest revision it reads,
\* stale or not, is never a retired one.
RetiredAreSuperseded == ~forsaken => Superseded(revs) /\ Superseded(cache)

\* A request carries what its stage needs; what it retires and prunes is older
\* than what it creates, and once that is created something at least as new
\* stays in the history, even if a later request prunes this one's revision.
RequestsInOrder ==
    /\ \A w \in At({"list", "create", "demote", "prune", "store"}) : req[w].spec \in Specs
    /\ \A w \in At({"list"}) : ~req[w].fresh /\ req[w].latest = 0 /\ req[w].todo = {}
    /\ \A w \in At({"create", "demote", "prune"}) :
          /\ req[w].new \in Ids
          /\ \A i \in req[w].todo \union {req[w].latest} : i < req[w].new
    /\ ~forsaken =>
          \A w \in At({"demote", "prune"}) : \E j \in Held(revs) : j >= req[w].new
    /\ \A w \in Writers : req[w].fresh => req[w].latest \in Ids
    /\ \A w \in At({"phase"}) : req[w].seen \in LivePhases

Reaches(rs, n) == n > 0 => \E j \in Held(rs) : j >= n

\* The cache never shows an id the API server's history has not reached; the
\* controller acts on a Boot that exists, and the id on the Boot, or on its way
\* there, is covered by the history as the API server and the cache have it.
BootIsBehind ==
    /\ req[Controller].stage # "idle" => boot # NoBoot
    /\ ~forsaken =>
          /\ \A i \in Held(cache) : Reaches(revs, i)
          /\ Reaches(revs, boot.rev) /\ Reaches(cache, boot.rev)
          /\ req[Controller].stage # "idle" =>
                /\ boot.rev <= req[Controller].rev
                /\ Reaches(revs, req[Controller].rev) /\ Reaches(cache, req[Controller].rev)

\* What is being given up belongs to nobody: a revision is looked at by one
\* worker at a time, which does not adopt what it is about to delete.
DoomedAreUnowned == \A i \in doomed : meta[i].owner = 0

\* The inductive invariant behind the theorems of BootRevisionsProofs.
IInv ==
    /\ TypeOK
    /\ CopiesCurrent
    /\ RetiredAreSuperseded
    /\ RequestsInOrder
    /\ BootIsBehind
    /\ DoomedAreUnowned

Lingering(rs) == {i \in Held(rs) : rs[i].phase \in LivePhases /\ \E j \in Held(rs) : j > i}

\* Every revision except the newest is retired, but for one per request that is
\* between creating its revision and retiring the previous one, or was denied
\* there (boot_validation.go:240-264).
SupersededAreRetired == ~forsaken =>
    Cardinality(Lingering(revs)) <= Cardinality(At({"demote"})) + unsettled

\* The history keeps at most MaxHistory revisions, but for one per request that
\* is retiring or pruning, or was denied there: stale lists and concurrent
\* prunes add nothing to the excess.
HistoryBounded == ~forsaken =>
    Cardinality(Held(revs)) <= MaxHistory + Cardinality(At({"demote", "prune"})) + unsettled

\* What the counts of the history rest on, beside IInv.
\* A request creates the revision after the one it listed, which the history
\* reaches still; while its copy is current that one was live and is cached.
ListsBehind ==
    /\ \A w \in At({"create"}) :
          /\ req[w].new = req[w].latest + 1
          /\ Reaches(revs, req[w].latest)
          /\ req[w].fresh => req[w].latest \in Held(cache)
    /\ \A w \in At({"create", "demote"}) : req[w].fresh => req[w].seen \in LivePhases

Newer(rs, i) == {j \in Held(rs) : j > i}

\* Whatever is to be pruned has the newer revisions in the history that must be
\* retained; the cache shows no more of them than there are, as far as counts.
RetentionKept ==
    /\ \A i \in Ids : \/ Cardinality(Newer(revs, i)) >= MaxHistory
                      \/ Cardinality(Newer(cache, i)) <= Cardinality(Newer(revs, i))
    /\ \A w \in At({"create"}), i \in Ids :
          i \in req[w].todo => Cardinality(Newer(revs, i)) >= MaxHistory - 1
    /\ \A w \in At({"demote", "prune"}), i \in Ids :
          i \in req[w].todo => Cardinality(Newer(revs, i)) >= MaxHistory

\* The revisions somebody took, or would take now, for the newest one, and whose
\* copy passes the optimistic lock so far.
Bases == {l \in cacheFresh : Newest(l, Held(cache))}
             \union {req[w].latest : w \in {v \in At({"create"}) : req[v].fresh}}

\* Such a revision is the newest one until the next id is created, and that one
\* is not pruned before it.
BasesAreNewest ==
    \A l \in Bases :
        /\ l + 1 \notin Held(revs) => Newest(l, Held(revs))
        /\ \A w \in At({"create", "demote", "prune"}) :
              l + 1 \in req[w].todo => l \in req[w].todo

\* The requests whose revision may stay in excess of the history: those that
\* created a revision after n, and those sure to be denied.
Debtors(rq, n) == {w \in Writers :
    \/ rq[w].stage = "demote" /\ ~rq[w].fresh
    \/ rq[w].stage \in {"demote", "prune"} /\ rq[w].new > n}
Debt(n) == unsettled + Cardinality(Debtors(req, n))

\* What a request leaves in the history once it has pruned its list is the
\* history's size, and the excess that others answer for.
ExcessAccounted ==
    /\ \A l \in cacheFresh : Newest(l, Held(cache)) /\ l + 1 \notin Held(revs) =>
          Cardinality(Held(revs) \ Surplus(Held(cache))) <= MaxHistory - 1 + Debt(MaxId)
    /\ \A w \in At({"create"}) : req[w].fresh /\ req[w].new \notin Held(revs) =>
          Cardinality(Held(revs) \ req[w].todo) <= MaxHistory - 1 + Debt(MaxId)
    /\ \A w \in At({"demote", "prune"}) : req[w].stage = "prune" \/ req[w].fresh =>
          Cardinality(Held(revs) \ req[w].todo) <= MaxHistory + Debt(req[w].new)

\* The inductive invariant behind the theorems on the size of the history.
HistoryInv ==
    /\ IInv
    /\ ~forsaken => ListsBehind /\ RetentionKept /\ BasesAreNewest /\ ExcessAccounted
    /\ SupersededAreRetired
    /\ HistoryBounded

\* A retired revision never returns to Running or Active, whatever copy of it
\* the webhook and the controller act on.
RetiredStayRetired ==
    [][~forsaken => \A i \in Ids :
          Retired(revs[i].phase) /\ revs'[i] # NoRevision => revs'[i].phase = revs[i].phase]_vars

\* The webhook deletes a revision only while the MaxHistory newer ones are all
\* still there: a prune computed from a stale list never digs into the history
\* that must be retained, and two prunes never add up to more than one.
PruneKeepsHistory ==
    [][~forsaken => \A i \in Held(revs) : revs'[i] = NoRevision =>
          \/ i \in doomed \ doomed'
          \/ Cardinality({j \in Held(revs)' : j > i}) >= MaxHistory]_vars

\* The newest revision is deleted by the BootRevision controller only, which gives
\* it up and only while nobody owns it: unless that happens the id of the next
\* revision is not handed out a second time.
NewestIsKept ==
    [][~forsaken => \A i \in Ids : Newest(i, Held(revs)) /\ revs'[i] = NoRevision =>
          i \in doomed \ doomed' /\ meta[i].owner = 0]_vars

\* The revision id on the Boot never goes back to an older revision: a user's
\* update and the controller's, prepared from different reads, do not undo it.
BootRevisionAdvances == [][~forsaken => boot'.rev >= boot.rev]_boot

LatestRecordsBoot ==
    boot # NoBoot =>
        \E l \in Ids : /\ Newest(l, Held(revs))
                       /\ revs[l].spec = boot.spec
                       /\ boot.rev = l

\* Once the users are done, the newest revision comes to hold the Boot's spec and
\* the Boot to carry its id, for good, unless what is left to do waits for an event
\* that need not come: the last pass ended early or was not shown the newest
\* revision yet, or after it a request was refused whose revision had been
\* recorded.  The passes the Boot's own events queue do the rest: a revision of
\* a refused request, or one missed because the list was stale, is mended by the
\* controller's writes of the Boot, which pass the webhook too.
EventuallyRecorded == <>[](work # "overdue" /\ ~forsaken => LatestRecordsBoot)

\* The abstract history: a Running or Active revision is live, the others not.
Entry(revision) == [spec |-> revision.spec, live |-> revision.phase \in LivePhases]

Ledger == INSTANCE RevisionHistory WITH
    Missing <- Entry(NoRevision),
    Retained <- MaxHistory,
    ledger <- [i \in Ids |-> Entry(revs[i])],
    current <- boot.rev,
    broken <- forsaken

\* The webhook's and the controllers' calls, in whatever order and from whatever
\* copies, amount to the abstract history: no call sequence rewrites what was
\* recorded, and none but the giving up of a revision skips an id, revives a
\* revision, retires the newest, or digs into the MaxHistory newest ones.
ImplementsHistory == Ledger!Spec

----------------------------------------------------------------------------
(* What the tests and a comment say of a history at rest.  The code does not  *)
(* keep these: they are the subject of the runs that expect a violation.      *)

\* Once a Boot and its newest revision agree, the previous revisions are
\* Complete or Cancelled (test/e2e/revision_test.go:171).
PreviousIsRetired ==
    AtRest /\ LatestRecordsBoot =>
        \A i \in Held(revs) : Newest(i, Held(revs)) \/ Retired(revs[i].phase)
============================================================================
