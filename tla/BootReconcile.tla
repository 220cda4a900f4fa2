--------------------------- MODULE BootReconcile ---------------------------
(***************************************************************************)
(* The reconcile loop of one Boot.                                         *)
(*                                                                         *)
(* A work queue holds the Boot's name at most once and one worker takes it *)
(* from there.  A pass reads the Boot, then goes through stages: defaults, *)
(* create, update, HPA, status, metadata.  Each stage decides on what the  *)
(* operator's informers show and writes to the API server under optimistic *)
(* locking.  Informers trail the API server, and an event puts the name    *)
(* back in the queue only when the object belongs to a Boot.  Meanwhile    *)
(* users edit, delete and recreate the Boot, outsiders change what the     *)
(* operator made, calls fail and the operator restarts.  A Boot that has   *)
(* finalizers is only marked first when it is deleted, and left alone.     *)
(*                                                                         *)
(* Abstractions.  An object's content is what the code compares of it, a   *)
(* member of Contents.  Of the Services beside the Boot's own one, kind    *)
(* "other" is the node-port Service, which the Boot's spec asks for.  A    *)
(* status or metadata report is what the code derives it from.  Revisions  *)
(* are the subject of BootRevisions.                                       *)
(***************************************************************************)
EXTENDS Integers

CONSTANTS
    Contents,    \* what an object can be made of
    Absent,      \* no content: no such object
    Specs,       \* Boot specs, as the contents they ask of each object
    Outsiders,   \* kinds of object somebody else may change or delete
    Strippable,  \* kinds of object somebody else may strip of their owner
    MaxEdits,    \* bound: writes of the Boot by users
    MaxOutside,  \* bound: steps of outsiders and of the workload's pods
    MaxFailures  \* bound: failed calls and operator restarts

Kinds == {"workload", "service", "other", "hpa"}
Required == {"workload", "service"}

ASSUME ContentsAssumption == Absent \notin Contents
ASSUME SpecsAssumption ==
    /\ Specs \subseteq [Kinds -> Contents \union {Absent}]
    /\ \A s \in Specs, k \in Required : s[k] # Absent
ASSUME KindsAssumption == Outsiders \subseteq Kinds /\ Strippable \subseteq Kinds
ASSUME BoundsAssumption == MaxEdits \in Nat /\ MaxOutside \in Nat /\ MaxFailures \in Nat

VARIABLES
    boot,       \* the Boot in the API server
    uids,       \* Boots created so far under this name
    objs,       \* the objects in the API server, by kind
    cachedBoot, \* the Boot as the informer shows it
    cached,     \* the objects as the informers show them
    fresh,      \* what the informers show with its current resourceVersion
    notify,     \* what has an event on its way that names the Boot
    queued,     \* the Boot's name is in the work queue
    pass,       \* the worker's pass
    dropped,    \* history variable: the last pass ended on a failed creation
                \* of a Service, with neither an error nor a requeue
    edits, outside, failures  \* counters for the bounds

vars == <<boot, uids, objs, cachedBoot, cached, fresh, notify, queued, pass, dropped,
          edits, outside, failures>>
counters == <<edits, outside, failures>>
views == <<cachedBoot, cached>>

Everything == Kinds \union {"boot"}

NoObject == [content |-> Absent, owner |-> 0, ready |-> FALSE]
Object == [content: Contents, owner: Nat, ready: BOOLEAN]

\* What status and annotations report: the workload asked for (its replicas),
\* whether it is ready, and the Services.
Report == [asked: Contents \union {Absent}, ready: BOOLEAN,
           services: SUBSET {"service", "other"}]
NoReport == [asked |-> Absent, ready |-> FALSE, services |-> {}]

\* marked: its deletion was asked for, and it stays until its finalizers are gone.
NoBoot == [uid |-> 0, spec |-> Absent, defaulted |-> FALSE, marked |-> FALSE,
           status |-> NoReport, meta |-> NoReport]
Boot == [uid: Nat \ {0}, spec: Specs, defaulted: BOOLEAN, marked: BOOLEAN,
         status: Report, meta: Report]

Stages == {"default", "create", "createService", "createOther", "update",
           "updateService", "updateOther", "hpa", "status", "meta"}

\* boot: the Boot this pass read; cur: nobody has written it since; made: the
\* pass created something.
Pass == [stage: Stages \union {"idle"}, boot: Boot \union {NoBoot},
         cur: BOOLEAN, made: BOOLEAN]
Idle == [stage |-> "idle", boot |-> NoBoot, cur |-> FALSE, made |-> FALSE]

Exists(o) == o # NoObject

Init ==
    /\ boot = NoBoot
    /\ uids = 0
    /\ objs = [k \in Kinds |-> NoObject]
    /\ cachedBoot = boot
    /\ cached = objs
    /\ fresh = Everything
    /\ notify = {}
    /\ queued = FALSE
    /\ pass = Idle
    /\ dropped = FALSE
    /\ edits = 0 /\ outside = 0 /\ failures = 0

----------------------------------------------------------------------------
(* The API server and the informers *)

\* Mutant: the autoscalers are not watched.
WriteUnwatched(k, o) ==
    /\ objs' = [objs EXCEPT ![k] = o]
    /\ fresh' = fresh \ {k}
    /\ notify' = IF k # "hpa" /\ (objs[k].owner # 0 \/ o.owner # 0)
                 THEN notify \union {k} ELSE notify

\* The watch handlers map an object to its owner by name: an event reaches the
\* queue when the object has an owner, or had one before.
Write(k, o) ==
    /\ objs' = [objs EXCEPT ![k] = o]
    /\ fresh' = fresh \ {k}
    /\ notify' = IF objs[k].owner # 0 \/ o.owner # 0 THEN notify \union {k} ELSE notify

WriteBoot(b) ==
    /\ boot' = b
    /\ fresh' = fresh \ {"boot"}
    /\ notify' = notify \union {"boot"}

Sync(x) ==
    /\ x \notin fresh
    /\ IF x = "boot" THEN cachedBoot' = boot /\ UNCHANGED cached
                     ELSE cached' = [cached EXCEPT ![x] = objs[x]] /\ UNCHANGED cachedBoot
    /\ fresh' = fresh \union {x}
    /\ notify' = notify \ {x}
    /\ queued' = (queued \/ x \in notify)
    /\ UNCHANGED <<boot, uids, objs, pass, dropped, counters>>

\* Kubernetes deletes what belongs to a Boot that is gone, or to one that is
\* deleted in the foreground.
Delete(k) ==
    /\ Write(k, NoObject)
    /\ UNCHANGED <<boot, uids, views, queued, pass, dropped, counters>>

Collect(k) == objs[k].owner \notin {0, boot.uid} /\ Delete(k)
CollectFirst(k) == boot.marked /\ objs[k].owner = boot.uid /\ Delete(k)

----------------------------------------------------------------------------
(* Users, outsiders, and the workload's pods *)

\* The mutating webhook has filled in the defaults, or left it to the operator.
UserWrites(b) ==
    /\ edits < MaxEdits
    /\ edits' = edits + 1
    /\ WriteBoot(b)
    /\ pass' = [pass EXCEPT !.cur = FALSE]
    /\ UNCHANGED <<objs, views, queued, dropped, outside, failures>>

CreateBoot(s, defaulted) ==
    /\ boot = NoBoot
    /\ uids' = uids + 1
    /\ UserWrites([NoBoot EXCEPT !.uid = uids + 1, !.spec = s, !.defaulted = defaulted])

EditBoot(s, defaulted) ==
    /\ boot # NoBoot
    /\ UserWrites([boot EXCEPT !.spec = s, !.defaulted = defaulted])
    /\ UNCHANGED uids

DeleteBoot ==
    /\ boot # NoBoot
    /\ UserWrites(NoBoot)
    /\ UNCHANGED uids

MarkBoot ==
    /\ boot # NoBoot /\ ~boot.marked
    /\ UserWrites([boot EXCEPT !.marked = TRUE])
    /\ UNCHANGED uids

\* The last finalizer goes, and the Boot with it.
Finalize ==
    /\ boot.marked
    /\ WriteBoot(NoBoot)
    /\ pass' = [pass EXCEPT !.cur = FALSE]
    /\ UNCHANGED <<uids, objs, views, queued, dropped, counters>>

Outside(k, o) ==
    /\ outside < MaxOutside
    /\ outside' = outside + 1
    /\ Write(k, o)
    /\ UNCHANGED <<boot, uids, views, queued, pass, dropped, edits, failures>>

\* Somebody else made the workload or the Service before the Boot's owner did.
MakeOutside(k, c) ==
    /\ k \in Outsiders \intersect Required
    /\ ~Exists(objs[k])
    /\ Outside(k, [NoObject EXCEPT !.content = c])

ChangeOutside(k, c) ==
    /\ k \in Outsiders
    /\ Exists(objs[k])
    /\ Outside(k, [objs[k] EXCEPT !.content = c])

DeleteOutside(k) ==
    /\ k \in Outsiders
    /\ Exists(objs[k])
    /\ Outside(k, NoObject)

StripOwner(k) ==
    /\ k \in Strippable
    /\ objs[k].owner # 0
    /\ Outside(k, [objs[k] EXCEPT !.owner = 0])

PodsChange ==
    /\ Exists(objs["workload"])
    /\ Outside("workload", [objs["workload"] EXCEPT !.ready = ~@])

----------------------------------------------------------------------------
(* A pass *)

Done(requeue) ==
    /\ pass' = Idle
    /\ queued' = (queued \/ requeue)
    /\ UNCHANGED dropped

\* A Service that could not be created ends the pass, quietly.
Drop ==
    /\ pass' = Idle
    /\ dropped' = TRUE
    /\ UNCHANGED queued

GoOn(stage) ==
    /\ pass' = [pass EXCEPT !.stage = stage]
    /\ UNCHANGED <<queued, dropped>>

\* Nothing is written.
NoWrite == UNCHANGED <<boot, objs, fresh, notify>>

\* Take the Boot's name from the queue and read the Boot, which may be gone or
\* marked for deletion.
Start ==
    /\ queued
    /\ pass.stage = "idle"
    /\ queued' = FALSE
    /\ dropped' = FALSE
    /\ pass' = IF cachedBoot = NoBoot \/ cachedBoot.marked THEN Idle
               ELSE [stage |-> IF cachedBoot.defaulted THEN "create" ELSE "default",
                     boot |-> cachedBoot, cur |-> "boot" \in fresh, made |-> FALSE]
    /\ NoWrite
    /\ UNCHANGED <<uids, views, counters>>

\* Update the Boot with its defaults, then start again in any case.
UpdateDefaults ==
    /\ pass.stage = "default"
    /\ IF pass.cur THEN WriteBoot([boot EXCEPT !.defaulted = TRUE]) /\ UNCHANGED objs
                   ELSE NoWrite
    /\ Done(TRUE)

Wanted(k) == pass.boot.spec[k]

\* What the operator would create.
New(k) == [NoObject EXCEPT !.content = Wanted(k), !.owner = pass.boot.uid]

\* What it makes of an object it found.
Updated(k) == [cached[k] EXCEPT !.content = Wanted(k),
                                !.owner = IF @ = 0 THEN pass.boot.uid ELSE @]

\* Mutant: what the informer does not show is created, or replaced.
ReplaceWorkload ==
    /\ pass.stage = "create"
    /\ \/ /\ Exists(cached["workload"])
          /\ NoWrite /\ GoOn("createService")
       \/ /\ ~Exists(cached["workload"])
          /\ Write("workload", New("workload"))
          /\ pass' = [pass EXCEPT !.stage = "createService", !.made = TRUE]
          /\ UNCHANGED <<boot, queued, dropped>>

CreateWorkload ==
    /\ pass.stage = "create"
    /\ \/ /\ Exists(cached["workload"])
          /\ NoWrite /\ GoOn("createService")
       \/ /\ ~Exists(cached["workload"]) /\ ~Exists(objs["workload"])
          /\ Write("workload", New("workload"))
          /\ pass' = [pass EXCEPT !.stage = "createService", !.made = TRUE]
          /\ UNCHANGED <<boot, queued, dropped>>
       \/ /\ ~Exists(cached["workload"]) /\ Exists(objs["workload"])
          /\ NoWrite /\ Done(TRUE)

\* The end of ReconcileCreate.
Created(made) == IF made THEN Done(TRUE) ELSE GoOn("update")

CreateService ==
    /\ pass.stage = "createService"
    /\ \/ /\ Exists(cached["service"])
          /\ NoWrite /\ Created(pass.made)
       \/ /\ ~Exists(cached["service"]) /\ ~Exists(objs["service"])
          /\ Write("service", New("service")) /\ UNCHANGED boot
          /\ IF Wanted("other") # Absent THEN GoOn("createOther") ELSE Done(TRUE)
       \/ /\ ~Exists(cached["service"]) /\ Exists(objs["service"])
          /\ NoWrite /\ Drop

CreateOther ==
    /\ pass.stage = "createOther"
    /\ \/ /\ ~Exists(objs["other"])
          /\ Write("other", New("other")) /\ UNCHANGED boot
          /\ Done(TRUE)
       \/ /\ Exists(objs["other"])
          /\ NoWrite /\ Drop

\* An Update succeeds on the current resourceVersion; a conflict is an error.
UpdateWorkload ==
    /\ pass.stage = "update"
    /\ \/ /\ ~Exists(cached["workload"])
          /\ NoWrite /\ Done(TRUE)
       \/ /\ Exists(cached["workload"])
          /\ cached["workload"] = Updated("workload")
          /\ NoWrite /\ GoOn("updateService")
       \/ /\ Exists(cached["workload"])
          /\ cached["workload"] # Updated("workload")
          /\ IF "workload" \in fresh
             THEN Write("workload", Updated("workload")) /\ UNCHANGED boot
             ELSE NoWrite
          /\ Done(TRUE)

UpdateService ==
    /\ pass.stage = "updateService"
    /\ \/ /\ ~Exists(cached["service"])
          /\ NoWrite /\ Done(TRUE)
       \/ /\ Exists(cached["service"])
          /\ cached["service"] = Updated("service")
          /\ NoWrite /\ GoOn("updateOther")
       \/ /\ Exists(cached["service"])
          /\ cached["service"] # Updated("service")
          /\ IF "service" \in fresh
             THEN Write("service", Updated("service")) /\ UNCHANGED boot /\ GoOn("updateOther")
             ELSE NoWrite /\ Done(TRUE)

\* Mutants: what is not wanted any more is kept; what is right already is
\* written again; a missing owner is not repaired.
SustainOnly(k, repaired, next) ==
    \/ /\ ~Exists(cached[k]) /\ Wanted(k) # Absent
       /\ IF Exists(objs[k]) THEN NoWrite ELSE Write(k, New(k)) /\ UNCHANGED boot
       /\ Done(TRUE)
    \/ /\ Exists(cached[k]) \/ Wanted(k) = Absent
       /\ NoWrite /\ GoOn(next)

SustainAlways(k, repaired, next) ==
    \/ /\ Wanted(k) # Absent
       /\ IF ~Exists(objs[k]) THEN Write(k, New(k)) /\ UNCHANGED boot
          ELSE IF k \in fresh THEN Write(k, Updated(k)) /\ UNCHANGED boot ELSE NoWrite
       /\ Done(TRUE)
    \/ /\ Wanted(k) = Absent
       /\ NoWrite /\ GoOn(next)

SustainContent(k, repaired, next) ==
    \/ /\ cached[k].content # Wanted(k)
       /\ IF Exists(cached[k]) # Exists(objs[k]) THEN NoWrite
          ELSE IF Wanted(k) = Absent THEN Write(k, NoObject) /\ UNCHANGED boot
          ELSE IF Exists(cached[k]) THEN Write(k, Updated(k)) /\ UNCHANGED boot
          ELSE Write(k, New(k)) /\ UNCHANGED boot
       /\ Done(TRUE)
    \/ /\ cached[k].content = Wanted(k)
       /\ NoWrite /\ GoOn(next)

\* Bring the optional object k to what is wanted of it: every write, or failed
\* write, starts the pass over.  repaired: a missing owner alone is repaired.
Sustain(k, repaired, next) ==
    \/ /\ Exists(cached[k]) /\ Wanted(k) = Absent
       /\ IF Exists(objs[k]) THEN Write(k, NoObject) /\ UNCHANGED boot ELSE NoWrite
       /\ Done(TRUE)
    \/ /\ ~Exists(cached[k]) /\ Wanted(k) # Absent
       /\ IF Exists(objs[k]) THEN NoWrite ELSE Write(k, New(k)) /\ UNCHANGED boot
       /\ Done(TRUE)
    \/ /\ Exists(cached[k]) /\ Wanted(k) # Absent
       /\ cached[k].content # Wanted(k) \/ (repaired /\ cached[k].owner = 0)
       /\ IF k \in fresh THEN Write(k, Updated(k)) /\ UNCHANGED boot ELSE NoWrite
       /\ Done(TRUE)
    \/ /\ Exists(cached[k]) <=> Wanted(k) # Absent
       /\ Exists(cached[k]) => /\ cached[k].content = Wanted(k)
                               /\ repaired => cached[k].owner # 0
       /\ NoWrite /\ GoOn(next)

\* The owner of the other Services is set on the copy only (326-330).
UpdateOther == pass.stage = "updateOther" /\ Sustain("other", FALSE, "hpa")
UpdateHpa == pass.stage = "hpa" /\ Sustain("hpa", TRUE, "status")

\* What there is to report of Boot b.
Seen(b) == [asked |-> b.spec["workload"], ready |-> cached["workload"].ready,
            services |-> {k \in {"service", "other"} : Exists(cached[k])}]

\* The status update.  Without a workload it ends after what was asked for.
UpdateStatus ==
    /\ pass.stage = "status"
    /\ LET found == Exists(cached["workload"])
           status == IF found THEN Seen(pass.boot)
                     ELSE [pass.boot.status EXCEPT !.asked = Wanted("workload")]
       IN \/ /\ pass.boot.status = status
             /\ NoWrite
             /\ IF found THEN GoOn("meta") ELSE Done(TRUE)
          \/ /\ pass.boot.status # status
             /\ IF pass.cur THEN WriteBoot([boot EXCEPT !.status = status]) /\ UNCHANGED objs
                            ELSE NoWrite
             /\ Done(TRUE)

UpdateMeta ==
    /\ pass.stage = "meta"
    /\ \/ /\ pass.boot.meta = Seen(pass.boot)
          /\ NoWrite /\ Done(FALSE)
       \/ /\ pass.boot.meta # Seen(pass.boot)
          /\ IF pass.cur THEN /\ WriteBoot([boot EXCEPT !.meta = Seen(pass.boot)])
                              /\ UNCHANGED objs /\ Done(FALSE)
                         ELSE NoWrite /\ Done(TRUE)

Step ==
    \/ UpdateDefaults
    \/ CreateWorkload \/ CreateService \/ CreateOther
    \/ UpdateWorkload \/ UpdateService \/ UpdateOther
    \/ UpdateHpa \/ UpdateStatus \/ UpdateMeta

Work == Start \/ (Step /\ UNCHANGED <<uids, views, counters>>)

\* A call the stage makes fails.  A failure to get the Service is ignored in
\* the create stage; that call is answered from the cache.
FailCall ==
    /\ pass.stage # "idle"
    /\ pass.stage = "createService" => ~Exists(cached["service"])
    /\ failures < MaxFailures
    /\ failures' = failures + 1
    /\ IF pass.stage \in {"createService", "createOther"} THEN Drop ELSE Done(TRUE)
    /\ NoWrite
    /\ UNCHANGED <<uids, views, edits, outside>>

\* The operator restarts, or another replica takes over: its informers list
\* everything before its workers start, and every Boot listed is queued.
Restart ==
    /\ failures < MaxFailures
    /\ failures' = failures + 1
    /\ pass' = Idle
    /\ cachedBoot' = boot /\ cached' = objs
    /\ fresh' = Everything /\ notify' = {}
    /\ queued' = TRUE
    /\ UNCHANGED <<boot, uids, objs, dropped, edits, outside>>

Next ==
    \/ \E s \in Specs, d \in BOOLEAN : CreateBoot(s, d) \/ EditBoot(s, d)
    \/ DeleteBoot \/ MarkBoot \/ Finalize
    \/ \E k \in Kinds, c \in Contents : MakeOutside(k, c) \/ ChangeOutside(k, c)
    \/ \E k \in Kinds : DeleteOutside(k) \/ StripOwner(k)
    \/ \E k \in Kinds : Collect(k) \/ CollectFirst(k)
    \/ PodsChange
    \/ \E x \in Everything : Sync(x)
    \/ Work
    \/ FailCall
    \/ Restart

Spec == Init /\ [][Next]_vars

\* The worker, the informers and the garbage collector keep going.
Fairness ==
    /\ WF_vars(Work)
    /\ \A x \in Everything : WF_vars(Sync(x))
    /\ \A k \in Kinds : WF_vars(Collect(k))

FairSpec == Spec /\ Fairness

----------------------------------------------------------------------------
(* Properties *)

\* Every variable keeps its type.
TypeOK ==
    /\ boot \in Boot \union {NoBoot} /\ cachedBoot \in Boot \union {NoBoot}
    /\ uids \in Nat
    /\ objs \in [Kinds -> Object \union {NoObject}]
    /\ cached \in [Kinds -> Object \union {NoObject}]
    /\ fresh \subseteq Everything /\ notify \subseteq Everything
    /\ queued \in BOOLEAN /\ dropped \in BOOLEAN
    /\ pass \in Pass
    /\ edits \in Nat /\ outside \in Nat /\ failures \in Nat

\* What is fresh is what the API server has.
FreshIsCurrent ==
    /\ "boot" \in fresh => cachedBoot = boot
    /\ \A k \in Kinds : k \in fresh => cached[k] = objs[k]

\* A change the informers have yet to show has an event on its way, unless it
\* is of an object that belongs to nobody.
ChangesAreNotified ==
    /\ "boot" \in fresh \union notify
    /\ \A k \in Kinds \ (fresh \union notify) :
          /\ objs[k].owner = 0 /\ cached[k].owner = 0
          /\ k \in Required \/ Exists(cached[k])

\* A pass works on a Boot, which is the current one as long as it thinks so.
PassInOrder ==
    pass.stage # "idle" =>
        /\ pass.boot \in Boot
        /\ pass.cur => pass.boot = boot
        /\ pass.boot.defaulted <=> pass.stage # "default"
        /\ pass.stage = "createOther" => pass.boot.spec["other"] # Absent

OtherIsOwned(os) == Exists(os["other"]) => os["other"].owner # 0

\* An object looks right when the pass would leave it alone.
Right(k) ==
    /\ cached[k].content = cachedBoot.spec[k]
    /\ k # "other" /\ Exists(cached[k]) => cached[k].owner # 0

\* The stages that come after the check of an object.
After == [workload |-> {"updateService", "updateOther", "hpa", "status", "meta"},
          service |-> {"updateOther", "hpa", "status", "meta"},
          other |-> {"hpa", "status", "meta"},
          hpa |-> {"status", "meta"}]

\* With no event on its way and the name not in the queue, what the pass has
\* checked still looks right; after a pass, everything does.
NothingIsLost ==
    ~queued /\ notify = {} =>
        /\ pass.stage # "idle" =>
              /\ pass.boot = cachedBoot
              /\ \A k \in Kinds : pass.stage \in After[k] => Right(k)
              /\ pass.stage = "meta" => cachedBoot.status = Seen(cachedBoot)
        /\ pass.stage = "idle" /\ ~dropped /\ boot # NoBoot /\ ~boot.marked =>
              /\ \A k \in Kinds : Right(k)
              /\ cachedBoot.defaulted
              /\ cachedBoot.status = Seen(cachedBoot)
              /\ cachedBoot.meta = Seen(cachedBoot)

\* The inductive invariants behind the theorems of BootReconcileProofs: Base
\* holds in any case, IInv when nobody strips the other Service of its owner.
Base == TypeOK /\ FreshIsCurrent /\ ChangesAreNotified /\ PassInOrder
IInv == Base /\ OtherIsOwned(objs) /\ OtherIsOwned(cached) /\ NothingIsLost

\* Nothing is left to do: no event, no name in the queue, no pass, no garbage.
Quiet ==
    /\ notify = {} /\ ~queued /\ pass.stage = "idle"
    /\ \A k \in Kinds : objs[k].owner \in {0, boot.uid}

Observed == [asked |-> boot.spec["workload"], ready |-> objs["workload"].ready,
             services |-> {k \in {"service", "other"} : Exists(objs[k])}]

\* The objects are what the Boot asks for, and the Boot reports them truly.
Settled ==
    /\ \A k \in Kinds :
          /\ objs[k].content = boot.spec[k]
          /\ k # "other" /\ Exists(objs[k]) => objs[k].owner = boot.uid
    /\ boot.defaulted
    /\ boot.status = Observed /\ boot.meta = Observed

\* There is a Boot, which nobody deletes.
Stays == boot # NoBoot /\ ~boot.marked

\* The operator never comes to rest with work undone: whatever a stale read, a
\* conflict, a failed call, a restart or an outsider left wrong, the name is in
\* the queue, an event on its way, or the last pass dropped a failed creation.
QuietIsSettled == Stays /\ Quiet /\ ~dropped => Settled

\* A Boot as good as the current one: a pass asks the same of the objects.
SameBoot(b) == b.uid = boot.uid /\ b.spec = boot.spec /\ b.defaulted

\* The objects are what the Boot asks for and no outdated spec is around, in the
\* informer or in the pass; what the informers show of the objects is anything.
InPlace ==
    /\ Stays
    /\ \A k \in Kinds :
          /\ objs[k].content = boot.spec[k]
          /\ objs[k].owner \in {0, boot.uid}
          /\ k # "other" /\ Exists(objs[k]) => objs[k].owner = boot.uid
    /\ SameBoot(boot) /\ SameBoot(cachedBoot)
    /\ pass.stage # "idle" => SameBoot(pass.boot)

\* What is in place stays, unless a user or an outsider steps in: however far
\* the informers trail, no pass, failed call or restart creates a second time,
\* deletes, or writes over an object that is right (a write outdates the view).
InPlaceStays ==
    [][InPlace /\ UNCHANGED <<edits, outside>> =>
           /\ InPlace' /\ UNCHANGED objs
           /\ fresh \intersect Kinds \subseteq fresh']_vars

\* Once users and outsiders leave it alone, the Boot gets what it asks for and
\* says so, for good: no chain of conflicts, stale reads and requeues loses it.
EventuallySettled == <>[](Stays /\ ~dropped => Settled)

\* The operator comes to rest: its own writes do not keep it busy for ever.
EventuallyQuiet == <>[]Quiet

\* A failed creation is requeued: at rest, there is nothing left to create
\* (boot_handler_controller.go:24, "When creating Error: requeue error requeue=true").
NothingLeftToCreate ==
    Stays /\ Quiet =>
        \A k \in Required : Exists(objs[k])

============================================================================
