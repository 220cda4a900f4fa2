# Logan app operator: a TLA+ model

The logan app operator turns *Boots* (`JavaBoot`, `PhpBoot`, `PythonBoot`,
`NodeJSBoot`, `WebBoot`) into a workload, Services and an autoscaler, and keeps
a history of *BootRevisions* for each of them. This directory models the parts
of it where steps of several actors meet, checks them with TLC on small
instances, and proves the most important results with TLAPS for every instance.

Paths below are relative to `src/`.

## The system

| Component | State | Operations | Interacts with |
|---|---|---|---|
| Boot controllers, `pkg/controller/*boot` | a work queue of names; nothing across passes | one pass: read the Boot, then defaults, create, update, HPA, status, metadata | reads informer caches, writes the API server under optimistic locking; owned objects' events come back through the queue |
| Reconcile stages, `pkg/logan/operator/boot_handler_*.go` | the copies they read | create what is missing, update what differs, report | called by a pass |
| Validating webhook, `pkg/logan/webhook/validation/boot_validation.go` | none of its own; the BootRevisions in the API server | check the request; record a revision, retire the previous one, prune | called by the API server for every create and update of a Boot, the controller's own updates included |
| BootRevision controller, `pkg/controller/bootrevision` | owner and retry count on the revision | adopt, count a retry, give up | looks for the Boot by name in the cache |
| Mutating webhook, `pkg/logan/webhook/mutation` | none | fill in defaults, when configured to | before the validating webhook |
| Configuration store, `pkg/logan/config` | five global configurations and the profiles | replace them from a ConfigMap | read by every pass and both webhooks; written by the admission of a ConfigMap |
| Helpers, `pkg/logan/util`, `pkg/logan/operator/boot.go` | none | differences, merges, decoding | webhooks, defaults |
| Manager, `cmd/manager` | leadership | start, stop | starts the informers, then the workers |
| Metrics, tools, generated types | not part of the behaviour | | |

What is hard in it:

* *Reads trail writes.* Controllers and webhooks alike read the informer cache.
  A list may lack the newest revision or still show a pruned one; a pass may
  create what exists or report what is gone.
* *Requests race.* API requests for one Boot run the webhook concurrently, and
  one request makes up to three kinds of call (create, update, delete) before
  the Boot it is for is stored. It can fail or be refused after any of them.
* *Writers meet on one object.* The webhook and the controller both write the
  newest revision; users, the controller and its status update write the Boot.
* *Nothing is retried but through the queue.* A stage that ends a pass early
  must leave an error, a requeue, or an event on its way. The Boot's own events
  and those of the workload, Services and autoscaler it owns fill the queue;
  revisions and configurations queue no Boot.
* *Names outlive objects.* A Boot is deleted and created again under its name
  while Kubernetes is still collecting what belonged to the old one.

What makes each component correct:

* *Revision history*, until a revision that nobody owns is given up: ids only grow
  and none is given twice; exactly the newest revision is live, up to what is in
  flight; retired stays retired; pruning keeps the newest `MaxHistory` and bounds
  the rest; the Boot's revision id never goes back and never runs ahead of the
  history; in the end the newest revision is the Boot's, as far as passes are queued.
* *BootRevision controller*: every revision ends owned by its Boot, or is deleted.
* *Reconciliation*: the operator does not rest on undone work; left alone, it
  brings the objects to what the Boot asks for, and comes to rest.
* *Stages and comparisons*: an object that was just written compares equal.
* *Defaults*: a Boot that has its defaults is left alone, and the operator's own
  write of them is admitted.
* *Admission*: a Boot cannot change an environment variable the configuration
  fixes; a claim, secret or priority class it was not granted is refused.
* *Configuration*: a reader sees one configuration, the one that is stored.

`PROJECT.json` lists the components with what is modelled of each, and the
hazards, each at the line where it bites with the properties that cover it.

## The modules

### `BootRevisions`: the history of one Boot

State: the Boot (`boot`), its revisions in the API server (`revs`, with owner and
retries in `meta`), the operator's cached copies (`cache`), and the request every
writer has in flight (`req`). A writer is a user's request or the controller's
worker. A request goes through stages, one API call each:

| Action | Code |
|---|---|
| `Submit` | a user's create or update reaches `Validate` |
| `ListRevisions` | list, hash comparison, choice of the new id (`recordRevision`, 174-232) |
| `CreateRevision` | `c.Create` of revision 1 or n+1 (207-248) |
| `DemoteLatest` | `c.Update` of the previous revision with its next phase (250-264) |
| `PruneOldest` | one `c.Delete` of `keepRevisionMaxSizeLimit` (310-335) |
| `StoreBoot` | the API server stores the Boot, unless it was written since it was read |
| `Reconcile`, `UpdatePhase`, `SendMeta` | `ReconcileUpdateBootMeta` and the update after it, which passes through the same webhook |
| `Event`, `DropPass` | an event queues the Boot; a queued pass ends at a Service it cannot create (`ReconcileCreate`, 55-62) |
| `Adopt`, `RetryLater`, `GiveUp`, `DeleteDoomed` | the BootRevision controller: owner, another retry, the decision to delete and the Delete (139-168) |
| `Sync` | the informer catches up |
| `FailRequest` | a failed call, a timeout, a crash of the webhook, another admission plugin's denial |

A resourceVersion is only ever compared for equality, so the model keeps the
answer, not the number: `cacheFresh` for cached copies, `fresh` and `cur` for the
copies a request holds. A spec is its hash. `unsettled` counts the revisions
created by requests that ended before retiring and pruning; nothing in the code
corresponds to it, and the bounds on the history are stated relative to it.

A pass runs only when the Boot is queued: by a write of the Boot that is stored, by
an `Event` of what it owns, or by the pass's own refused write. `work` is "overdue"
when no pass is queued and the last one did not see the history as it is now: it ended
early, was shown a list without the newest revision, or came before a request that
was refused after recording. Nothing in the code queues the Boot for those.

The BootRevision controller deletes a revision that nobody owns after 20 retries,
the newest one too: a creation that is not stored for as long loses it, and ids start
over below it. `forsaken` is a history variable for that. It is set by such a deletion
and cleared when nothing is left of the history, and the properties on the whole
history (order, size, ids) are about a history from which none was given up.

The informer catches up in one step for all revisions of the Boot: a cache that
mixes an old copy of one revision and a newer one of another is not modelled.
A creation needs `BootNameExist` to find no Boot; here the Boot does not go away,
so the check only shortens a creation that would be refused in the end.

### `RevisionLifecycle`: Boots that come and go under one name

Extends `BootRevisions` with `DeleteBoot`, Kubernetes' collection of what
belonged to the deleted Boot (`Collect`), the name check (`BootNameExist`), and
the whole BootRevision controller with the Boot as the cache shows it
(`AdoptSeen`, `CountRetry`, `GiveUp`, `DeleteDoomed`). The Delete of a revision
that is given up has no precondition, so deciding and deleting are two steps.
`OwnedIsOnlyPruned` says that the Delete never hits a revision the Boot came to own
in between, `LifeInv` why.

### `BootReconcile`: the pass of the controller

State: the Boot and the objects made for it in the API server, the informers'
copies (`cachedBoot`, `cached`), which of them are current (`fresh`), the events
on their way (`notify`), the work queue (`queued`) and the pass (`pass`).

| Action | Code |
|---|---|
| `Start` | the worker takes the name and reads the Boot (`Reconcile`, 114-153) |
| `UpdateDefaults` | `DefaultValue` and the update (155-173) |
| `CreateWorkload`, `CreateService`, `CreateOther` | `ReconcileCreate` |
| `UpdateWorkload`, `UpdateService`, `UpdateOther` | `ReconcileUpdate` |
| `UpdateHpa` | `ReconcileHpa` |
| `UpdateStatus`, `UpdateMeta` | `ReconcileUpdateStatus`, `ReconcileUpdateBootMeta` |
| `Sync`, `Collect`, `Restart`, `FailCall` | informers, garbage collector, a new leader, a failed call |
| `CreateBoot`, `EditBoot`, `DeleteBoot`, `MarkBoot`, `Finalize`, `CollectFirst`, `MakeOutside`, `ChangeOutside`, `DeleteOutside`, `StripOwner`, `PodsChange` | users, outsiders, pods |

A Boot that is marked for deletion (`MarkBoot`) stays until its finalizers are gone;
passes return at once then, and what belongs to it may be collected first.

An object's content is the part of it the code compares, one value; whether
*field by field* an update leaves nothing to update is `BootObjects`' subject.
The five controllers are one text over five types; the queue holds a name at most once and one worker handles a name at a time, which
controller-runtime guarantees. Of the Services beside the Boot's own, the model
has the node-port one, which the Boot's spec asks for; sidecar Services are
derived from the configuration and the workload that was found.

### `BootDefaults`: what a Boot is given, and what it may be changed to

State: the Boot with its annotations (`boot`), the configuration in the operator's
memory (`config`), whether the mutating webhook sets defaults (`mutating`), whether
what the Boot needs is granted to it (`granted`), the workloads made for it, and
the request that the user and the operator each have in flight.

| Definition | Code |
|---|---|
| `DefaultValue`, `Changed` | `DefaultValue`, what it makes of the Boot and what it returns; `DefaultSpec`, `DefaultMeta`, `DefaultHpa` are its parts |
| `NeedsMerge` | when `DefaultEnvValue` merges the configuration's environment into the Boot's |
| `HandlerConfig` | the configuration of the type, or of the profile (`GetProfileBootConfig`) |
| `CreateEnvAllowed`, `UpdateEnvAllowed` | `CheckEnvKeys`, `checkEnvUpdate` over `Difference2` |
| `ValidHpa`, `ValidWorkload`, `Granted`, `Admitted` | `validateHpa`, `validateWorkload`, the checks of secrets, priority class and claims, `Validate` |
| `CreateBoot`, `EditSpec`, `SetEnv`, `RemoveEnv` | a user sends a Boot, with the annotations as read or without the recorded environment; the mutating webhook is part of the step |
| `Validate` | the validating webhook and the API server's update |
| `Start`, `UpdateDefaults`, `Proceed` | a pass: read, write the defaults, or go on to workload and status |
| `Reconfigure`, `Regrant`, `Fail` | another configuration, a grant given or taken, a failed call |
| `Event`, `DropPass` | an event queues the Boot; a pass ends at a Service it cannot create |

A pass works on the Boot as it was at `Start`, and its writes are under optimistic
locking, so a cached Boot out of date is one that was read early. An environment is
a function of names; a resource amount is a number and 0 is "not given", as in the
code, and so is 0 for a bound of an autoscaler. `boot.fixed` and `boot.current` are
history variables: what the last merge fixed, and whether with the configuration
that is still in use. As in `BootRevisions`, a pass starts from the queue only, and `work`
is "overdue" from a new configuration, or a pass that was dropped, until the next event.

### `RevisionHistory`: what a history promises

The abstract specification of the history: a ledger of specs under growing ids and
the id on the Boot, with four steps, `Record`, `Retire`, `Prune` and `Advance`.
`BootRevisions` implements it (`ImplementsHistory`), every call of every controller included, under the mapping that forgets
phases, owners, caches and requests: a revision is live while its phase is. It
says what a reader of the history may rely on: an entry never changes what it
records, is retired once and for good behind a newer one, and goes only behind the
`Retained` newest ones (`MaxHistory` in the code); the Boot's id moves forward and never past the ledger. It does *not* promise that
entries are recorded in order: a request whose list was stale may still fill an id
that was pruned or never used, behind the newest one. Nor does it survive a revision
that is given up: `StrikeOut` takes any entry away and leaves the ledger `broken`. What
an entry records still never changes, but of order and ids nothing is promised until
no entry is left and the Boot has no id (`StartAgain`).

### `BootObjects`: the objects, field by field

The stages of `BootReconcile` with the contents it leaves out. State: the Boot with
the claims and mounts recorded on it, the configuration, the workload's pod
template, the Service, the node-port and the sidecar's Service, the autoscaler, the
queue and the pass, which works on the Boot and configuration it started with.

| Definition | Code |
|---|---|
| `NewWorkload`, `MountsOf`, `ReadinessProbe` | `NewDeployment`, `NewStatefulSet`, `NewAppContainer`, `rebuildPodSpec`, `GetHealthProbe` |
| `RebuildDue`, `Adjusted`, `RemountDue` | `reconcilePodTemplateSpecUpdate`, the owner, replicas and restart time around it, `checkVolumeMountUpdate` |
| `UpdatedService` | `reconcileUpdateService` |
| `Expected`, `NewOther`, `UpdatedOther`, `UpdatedPorts`, `ComparedPort` | `NewServices`, and `reconcileUpdateOtherService` with the port slices it shares between what it found and what it expects |
| `MetricsDiffer`, `UpdateHpa` | `DifferenceMetric`, `ReconcileHpa` |
| `RecordClaims` | `DefaultPvcValue` and the write of the annotations |
| `Edit...`, `Reconfigure`, `Tamper...` | users, a new configuration, others who change one field of an object |

Comparing and building are different code, written field by field in several
files, so that they agree is a property: `RewritesAreExplained` says that what
was just built is found in place, but for the four cases of `Endless`, in which the
operator writes the same object for ever (a Boot spelled loosely that the mutating
webhook never saw; a configuration that overrides what is compared; a record of
mounts from an older configuration, with a claim named like one of its volumes;
two targets for one metric). Reads are current and calls succeed here; staleness,
failures and owners of the other Services are in `BootReconcile`.

Some fields no comparison looks at by themselves: the Service's target and scrape
flag, the annotations of the other Services. `overlooked` is a history variable: which of
them somebody else changed, until an update happens to set them right again. So
`RestIsAsAsked` has two halves: what is compared ends as asked (`Settled`), and what
is not ends as asked unless it is `overlooked` (`Undisturbed`). It says nothing of the
autoscaler's target, the last mounts, unmanaged mounts and the sidecar in the template.

### `ConfigStore`: the configuration in use

State: the ConfigMap's text (`stored`), the mounted file (`mounted`), what a process
waiting to become the leader read (`standby`), the configurations loaded with their
arrays (`loads`), the load each global variable points to (`globals`), the requests
to change the ConfigMap, and the workers' passes.

| Action | Code |
|---|---|
| `Submit`, `Deny`, `Validate`, `Assign`, `Answer` | a request reaches `ConfigValidator`; `NewConfig` assigns global after global; the API server stores the text, or another check refuses it |
| `Overlook`, `Drop` | the call fails, which `failurePolicy: Ignore` passes over, while the webhook may go on |
| `Remount`, `InitByFile`, `TakeOver` | the kubelet, a process that starts, and becomes the leader (`main.go`) |
| `Start` | `InitHandler` takes a pointer to the configuration of the type or the profile |
| `AppendClaims`, `DecodeVolumeMounts`, `Send` | `NewAppContainer`: append to the configuration's slice, decode in place, send |

`loads` keeps every array ever made, since a pass holds its pointer after the
globals moved on. `since` is a history variable: what happened (overlapping
changes, a refused change, an overlooked call, a takeover from an old file) since
a change that ran alone; `InUseIsStored` names the cases in which the configuration
in use is not the one stored, and each of them is reachable.

Containers share an array where an append has room in it. `OwnMounts`, that each has
its own Boot's mounts, is not so (`mounts_shared`). What the code keeps is
`SharedInRoomOnly`: a container has its Boot's mounts unless another Boot of the same
type or profile has claims that fit in the array (`Writers`), and then still nothing
but mounts that such Boots ask for, each at its place.

## The runs

| Run | Question | Instance |
|---|---|---|
| `revisions_race` | do concurrent creations and updates and the controller keep the history in order and in size, and is the inductive invariant one? | two users with an update each, the controller, revisions given up, no failures; from nothing and from a full history of 2 |
| `revisions_live` | does the detailed history implement the ledger, and do history, Boot and revision id agree in the end, after a failure at any point? | one user with an update, two failures, revisions given up; from nothing and from a full history of 2; fairness |
| `lifecycle` | are revisions of refused creations and deleted Boots cleaned up, and the others owned; is one that is owned ever given up; is the inductive invariant one? | a Boot with two adopted revisions, one deletion, one creation, one failure, fairness |
| `reconcile_live` | does the operator ever rest on undone work, does it touch what is right, and does it settle and come to rest? | two edits; or one edit, one outside step and one failure or restart; Boots deleted at once or marked first; fairness |
| `objects` | field by field, do the objects end as asked, is what was just built found in place, does the node port stay, does the operator come to rest? | two Boots, three configurations (plain; another registry with a sidecar and a volume; one that overrides), any two edits, configurations or outside changes; fairness |
| `config` | do changes leave one configuration, and the stored one; are mounts shared only where an array has room; is the inductive invariant one? | two requests (interchangeable), two configurations (the type's array has room in one and is full in the other, which has the profile), a takeover, a Boot with a claim, and one without that asks for the profile |
| `defaults` | does what is fixed stay fixed, is the operator's own write admitted, does every Boot get through its defaults, and is the inductive invariant one? | two configurations, one with a profile; two specs; three events among edits, configurations, grants and failures; with and without mutation; fairness |
| `previous_retired`, `recreated`, `create_error`, `defaults_loop`, `mounts_shared` | statements of the repository that the code does not keep | the smallest instances that show it |

The bounds: two users are what it takes for requests to race with each other and
with the controller, and two updates for one request's prune or retirement to
meet the other's; a third repeats a pattern that the inductive invariant covers
for any number. Two hashes tell "same as the latest" from "changed", and
returning to an earlier spec is a third update's A-B-A. `MaxHistory` 1 or 2 makes
every recorded revision prune. `MaxId` leaves room for every revision the updates
and the controller can record, so that the guard on it does not hide a behaviour
there: 4 is a full history of 2 and two updates; 6 leaves room for what a failed
request and the passes after it record again. `RetryLimit` is 0 where giving up must be reached quickly and the code's
20 in `recreated`, where it should not be what is found. In `BootReconcile` two
contents and two specs (a plain Boot, and one with an autoscaler and a second
Service) let every object be missing, wrong, superfluous or right; `reconcile_live`
leaves out, by a constraint no fair action crosses, a second edit together with an
outside step or a failure, which is too large for liveness. In
`BootDefaults` three events suffice for a creation, an edit and what comes between
or after them; the configurations differ in the fixed variable, its placeholder,
replicas, node selector and volumes, and one spec gives next to nothing while the
other gives too much. The configurations of `defaults` name both resources or none,
and no more replicas than any autoscaler's maximum: the first is what
`defaults_loop` gives up, and without the second `OperatorIsAdmitted` fails (a
minimum is defaulted to the configured replicas, above the maximum the user gave).

In `objects` two disturbances let an edit meet an outside change or a new
configuration at every point of a pass; two values of every field tell "as asked"
from "different", and the two Boots have every optional part between them, or none.
Properties that two disturbances cannot reach (a third change undoing the second)
are what the proofs about `BootObjects` are for. In `config` three loads are the
first one and one for each request, or for a request and a takeover. One mount leaves
three places in the array that `encoding/json` makes, four leave none, and no mounts
have no array: the type's array and the profile's are of these kinds. In the array
with room a Boot's claim and its decoded name meet a Boot without claims; two
Boots with claims in one array are `mounts_shared`, and any number of them is
`OnlyRoomShared`.

Runs that start from a history (`SettledSpec`) start from a state that updates,
each running alone, lead to.

Users may be done and the system at rest, so deadlock is not an error in any of
these models (`CHECK_DEADLOCK FALSE`): that the rest is a good one is what
`QuietIsSettled` and the liveness properties say.

### Fairness

Weak fairness, of exactly the parts that run without anybody's help: the webhook
calls of a request that was sent (`Webhook(w)`), the worker (`Work` of
`BootReconcile` and `BootObjects`, `Reconcile` and `UpdatePhase` of `BootRevisions`,
`Operator` of `BootDefaults`), which controller-runtime gives the next name in the
queue and a requeued one after a back-off, the informers (`Sync`), whose watches are
re-established, and the garbage collector. Users, outsiders, pods, failures and
restarts are not fair, and are bounded; nor is an `Event`, in any module: every worker
action has the name in the queue, or a pass begun, for its guard. `ConfigStore` assumes no fairness and has
no liveness property: a change that is refused or overlooked is never taken back. The informers' periodic resync, every ten
hours, is one of the `Event`s that need not come: nothing is shown to work only because of it.

That shows in two properties. `EventuallyRecorded` and `EventuallyDefaulted` promise
nothing while `work` is "overdue": a request refused after it recorded its revision,
a revision id taken from a list without the newest revision, and a configuration
replaced while nothing was queued stay as they are until some event queues the Boot.
What they do promise, the passes that were queued bring about. `EventuallyRecorded` has
`~forsaken`, too: a Boot whose newest revision was given up may end with an id that
its history starts over below.

### What the violations show

* `previous_retired`: an update of the previous revision that
  conflicts with the controller's phase update makes the webhook deny the request
  after the new revision exists. The user's retry finds its hash recorded and does
  nothing more: the previous revision stays `Active` for good. The prune that was
  to follow is skipped as well, and the history stays one above `MaxHistory`, "the
  maximum number of revisions retained" (`logan.go:60`), until a later change.
* `recreated`: a Boot that is deleted and created again unchanged, before its old
  revisions are collected, finds its hash recorded; the collection then leaves it
  without a revision, and its revision id points at nothing.
* `create_error`: a failed creation of a Service ends the pass with neither an
  error nor a requeue; if no event is on its way the Boot rests without a Service.
* `defaults_loop`: when the configuration names a limit (or a request) for one
  resource only, the other is set to zero, which the next pass takes for missing:
  `DefaultValue` returns true on every pass and the Boot never gets a workload.

* `mounts_shared`: a container's mounts are the configuration's own slice, in whose
  array there is room: two workers append their Boots' claims to the same place,
  and a workload is sent with another Boot's claim. Workers run at the same time
  (`MaxConcurrentReconciles`), and `configs/config.yaml` has such a type (PHP).
  `SharedInRoomOnly` and `OnlyRoomShared` say that such room is the only cause.

## The proofs

`BootRevisionsProofs`, `RevisionBoundsProofs`, `RevisionHistoryProofs`,
`RevisionLifecycleProofs`, `BootReconcileProofs`, `BootObjectsProofs`,
`BootDefaultsProofs` and `ConfigStoreProofs` hold the theorems, each under a comment;
`PROJECT.json` lists the ones to know of. Assumptions are the `ASSUME`s of the modules
(`None` is no spec, the controller is no user, finitely many requests are in flight
at a time, `MaxHistory` is at least 1, bounds are naturals), and for two theorems that no other Service is stripped of
its owner; without it the result is false, since nothing in the code repairs that
one (`boot_handler_controller.go:329` sets it on a copy that is not written).

*The history.* None of the safety properties is inductive alone. `IInv` joins
six parts. The type invariant bounds what a request carries. `CopiesCurrent` ties
the model's `fresh` to the revisions, so that a write the lock accepts acts on the
revision it was decided from. `RequestsInOrder` says that what a request retires
or prunes is older than what it creates, and that something at least as new stays
afterwards: without it, retiring could hit the newest revision.
`RetiredAreSuperseded` has to hold of the cache as well as of the API server,
because the next decision is made on the cache. `BootIsBehind` needs the cache to
be behind the API server and the Boot behind both. What they say of the order of
the history holds while no revision was given up, and again once it starts over;
`DoomedAreUnowned` says what may be given up. From `IInv`, each action
property is one step: `RetirementIsFinal` (the webhook moves on from live phases
only and the controller writes only to a fresh copy of a live revision),
`NewestSurvives` (what takes the newest revision away is `DeleteDoomed`, never a
prune), `BootMovesForward`.

*The size of the history* (`RevisionBoundsProofs`). `SupersededAreRetired`,
`HistoryBounded` and `PruneKeepsHistory` bound cardinalities by what is in flight, and
need four more parts, `HistoryInv`. `ListsBehind`: a request creates the id after the
one it listed, and what it listed is not ahead of the history. `RetentionKept`: what
is to be pruned has `MaxHistory` newer revisions, and a stale cache shows no more of
these than there are. `BasesAreNewest`: a copy that passes the optimistic lock and was
read as the newest revision is the newest until the next id is created, so of two
requests that decide from one list, one is refused. `ExcessAccounted`: once a request
has pruned its list, the excess left is the other requests' (`Debt`: those that
created a later revision, and those sure to be denied). Every action is one of six
kinds of step (the history is as it was, one request lists, one revision is created,
retired, or pruned, or the informer catches up), and the parts are shown kind by kind.
`SettledHistory` draws the consequence a reader wants, and is the complement of
`previous_retired`: at rest, if no revision was given up and no request denied half-way, at most
`MaxHistory` revisions are left and all but the newest are retired.

*The ledger.* `Implementation` shows every step of `BootRevisions` to be one of
`RevisionHistory`'s or none. `DeleteDoomed` is `StrikeOut`, what happens while `forsaken`
holds is `Drift` or `Wander`, and `Sync` of an empty history is `StartAgain`. Otherwise, that a retired revision has a newer one beside it is
`RequestsInOrder`, that a new one follows the ledger is `ListsBehind`, that a pruned
one is behind the `MaxHistory` newest is `RetentionKept`, that the Boot's id is covered
is `BootIsBehind`.

*The revisions of deleted Boots* (`RevisionLifecycleProofs`). Much of `IInv` is false
when Boots come and go: ids start over, and a request may outlive its Boot. What is
left is `LifeInv`. `CopiesLocked`: a copy the lock accepts is of a revision that is
there, as it stands, its owner and retries included. `RequestsPrepared`: the
controller's request is for the Boot that is there, or is refused. `OwnersExisted`: no
owner is a Boot still to come. `OwnedIsNotDoomed`: once the Boot owns a revision, the
cache shows that Boot and the controller is not about to delete the revision.
Adoption reads two caches and the deletion has no precondition, so this is what
`OwnedRevisionsStay` rests on: the current Boot's own revisions go by a prune only.

*The pass.* `Base` holds always: fresh copies are current, a change of an object
that belongs to a Boot has an event on its way, a pass works on a Boot.
`NothingIsLost` strengthens `QuietIsSettled` to the middle of a pass: with no event
on its way and the name not queued, what the stages so far have checked still
looks right. It is inductive together with `Base` and with the other Service's
being owned; `RestIsSettled` follows. `RightIsLeftAlone` is the other half and needs
`Base` only: what is right is left alone, by passes that see the Boot's spec, whatever
the informers show of the objects. A creation finds the object there, an update is
refused or finds nothing to do, and a deletion finds nothing.

*The objects.* `Base` (types; what is made together is there together; only the
node-port Service has a node's port; what is recorded to be mounted has the recorded
claims) needs no assumption on what is queued. `IInv` adds, for a pass during which
nothing was queued, that the comparison of each stage behind it would find nothing:
a fixed point of `UpdatedService`, of `UpdatedOther` once stored, and so on. That is `Settled`; `Undisturbed` is the part
about fields no comparison looks at, which needs no queue: every build sets them right
and every update keeps them so, with each port it changes. An edit
or an outside change queues the Boot, a write does too, and a new configuration
does not reach a pass that started, so each step keeps it. `RestIsAsked` then is a
lemma per object: a fixed point of the update *is* what the Boot asks for
(`UpdatedIsOther` does it for the ports). `OnlyEndlessRewrite` compares
`RebuildDue` with `NewWorkload`, and `ExternalPort` follows from what an update makes
of the ports; both hold for any Boots and configurations.

*The defaults.* `FixedEnvHolds` is about the environment, while the webhook compares
with the annotation that remembers it, so `IInv` has `Remembered`: what the last merge
fixed is in that record, decoded, and is what the configuration still says. It must
hold of every request in flight as well, which may be stored much later.
`FreshIsCurrent` says that a request the optimistic lock accepts carries the status
of the Boot as it is, without which `CheckWorkload` would compare with another. A
variable that is as recorded then has its fixed value, and one that is not was
compared with the configuration (`AdmittedHolds`). Two theorems have a hypothesis on
the settings, and both are sharp: `OperatorPasses` needs `FewReplicas` (no
configuration with more replicas than an autoscaler's maximum), `DefaultsSettle`
needs `FullConfigs` (both resources named, with some of each, or none), which
`defaults_loop` gives up. `DefaultsSettle` is that `DefaultValue` is idempotent
(`DefaultedOnce`), field by field.

*The configuration.* `InstallsInOrder`: what a request that runs alone has assigned
is still its own, so that its globals are of one load when it is done.
`OverlapIsNoted`: a request that does not run alone is in `since`, which names what
the result depends on. `SlicesFilled`: what a slice reads was written, by the
configuration or by a pass. `OneConfiguration` and `InUseIsStored` follow.
`OnlyRoomShared` is the complement of `mounts_shared`, for any arrays: `SlicesHeld`
says of every place of every array whose mount it may hold (the configuration's, or
one of a Boot that has room there, decoded for such a Boot or not yet), and of a Boot
that nobody else writes beside, that its slice is what it appended.

Only model-checked: liveness (`EventuallyRecorded`, `DeletedWithBoot`,
`EventuallyOwned`, `EventuallySettled`, `EventuallyQuiet`, `EventuallyDefaulted`), which
is out of the prover's reach. Every invariant and every action property that a passing
run checks is proved: two of them under the assumption on owners above, two under those
on the settings.

## Not modelled, and the plan

What could follow, in the order of what matters most:

1. In `BootDefaults`, the race of a changed workload with the pass that first
   reports it, which can leave two workloads behind.
2. `PvcAdmission`: `CheckPvc`, owner labels and shared claims, two Boots, stale
   reads.
3. Several Boots over one API server: names of Services that meet.

Left out for good: metrics and events, which nothing reads back; generated code;
names, labels and message texts; the defaults of a configuration and the merge of
its environments (`applyDefault`), which happen once, in one process, before it is
used; leader election and certificate handling, which are libraries; the command
line tools. The autoscaler's target and the last mounts, which no comparison looks at,
are in no property: what somebody changes there stays. Panics (`MAX_HISTORY` of zero or below, a failed `ListRevision` in the
controller, a probe replaced by a command) are noted as hazards; a panic is a
restart, which `BootReconcile` has.
