------------------------ MODULE BootReconcileProofs ------------------------
(***************************************************************************)
(* Proofs about the reconcile loop of one Boot, for any contents and specs *)
(* and any number of edits, steps of outsiders, failures and restarts.     *)
(***************************************************************************)
EXTENDS BootReconcile, TLAPS

USE DEF Kinds, Required, Everything, Stages

----------------------------------------------------------------------------
(* Lemmas about the data *)

\* No Boot is not a Boot, and no object is not an object.
LEMMA Absence ==
    /\ NoBoot \notin Boot
    /\ NoObject \notin Object
    /\ \A o \in Object \union {NoObject} :
          /\ Exists(o) => o \in Object
          /\ o.content # Absent => Exists(o)
          /\ o.content = Absent <=> o = NoObject
          /\ o.owner # 0 => Exists(o)
          /\ o.owner \in Nat
  <1>1. NoBoot \notin Boot
    BY DEF NoBoot, Boot
  <1>2. NoObject \notin Object /\ NoObject.owner = 0 /\ NoObject.content = Absent
    BY ContentsAssumption DEF NoObject, Object
  <1>3. \A o \in Object : o.content # Absent /\ o.owner \in Nat
    BY ContentsAssumption DEF Object
  <1> QED
    BY <1>1, <1>2, <1>3 DEF Exists

\* What is made from nothing is an object.
LEMMA MadeObjects ==
    ASSUME NEW c \in Contents, NEW u \in Nat, NEW q
    PROVE  /\ q = [NoObject EXCEPT !.content = c] => q \in Object /\ q.owner = 0
           /\ q = [NoObject EXCEPT !.content = c, !.owner = u] => q \in Object /\ q.owner = u
  <1>1. ASSUME q = [NoObject EXCEPT !.content = c] PROVE q \in Object /\ q.owner = 0
    BY <1>1 DEF NoObject, Object
  <1>2. ASSUME q = [NoObject EXCEPT !.content = c, !.owner = u]
        PROVE  q \in Object /\ q.owner = u
    BY <1>2 DEF NoObject, Object
  <1> QED
    BY <1>1, <1>2

\* What is made of an object is an object.
LEMMA ChangedObjects ==
    ASSUME NEW o \in Object, NEW c \in Contents, NEW u \in Nat, NEW q
    PROVE  /\ q = [o EXCEPT !.content = c] => q \in Object /\ q.owner = o.owner
           /\ q = [o EXCEPT !.owner = u] => q \in Object
           /\ q = [o EXCEPT !.ready = ~@] => q \in Object /\ q.owner = o.owner
           /\ q = [o EXCEPT !.content = c, !.owner = IF @ = 0 THEN u ELSE @] =>
                q \in Object /\ (u # 0 => q.owner # 0)
                /\ q.content = c /\ (o.owner # 0 => q.owner = o.owner)
  BY DEF Object

\* Each field of a Boot can be written by itself.
LEMMA BootWith ==
    ASSUME NEW b \in Boot, NEW r \in Report, NEW s \in Specs, NEW d \in BOOLEAN
    PROVE  /\ [b EXCEPT !.status = r] \in Boot
           /\ [b EXCEPT !.meta = r] \in Boot
           /\ [b EXCEPT !.defaulted = TRUE] \in Boot
           /\ [b EXCEPT !.spec = s, !.defaulted = d] \in Boot
           /\ [b EXCEPT !.marked = TRUE] \in Boot
  BY DEF Boot

\* A new Boot is a Boot.
LEMMA NewBoot ==
    ASSUME NEW u \in Nat, NEW s \in Specs, NEW d \in BOOLEAN
    PROVE  [NoBoot EXCEPT !.uid = u + 1, !.spec = s, !.defaulted = d] \in Boot
  <1>1. NoReport \in Report
    BY DEF NoReport, Report
  <1> DEFINE Any == [uid: Nat, spec: Specs \union {Absent}, defaulted: BOOLEAN,
                     marked: BOOLEAN, status: Report, meta: Report]
  <1>3. NoBoot \in Any
    BY <1>1 DEF NoBoot
  <1>4. ASSUME NEW a \in Any, NEW n \in Nat \ {0}, NEW b,
               b = [a EXCEPT !.uid = n, !.spec = s, !.defaulted = d]
        PROVE  b \in Boot
    BY <1>4 DEF Boot
  <1>5. u + 1 \in Nat \ {0}
    OBVIOUS
  <1> HIDE DEF Any
  <1> QED
    BY <1>3, <1>4, <1>5

\* A Boot asks for something of each kind, or for nothing where it may.
LEMMA SpecOf ==
    ASSUME NEW b \in Boot
    PROVE  /\ b.uid \in Nat \ {0}
           /\ b.defaulted \in BOOLEAN /\ b.status \in Report /\ b.meta \in Report
           /\ \A k \in Kinds : b.spec[k] \in Contents \union {Absent}
           /\ \A k \in Required : b.spec[k] \in Contents
  BY SpecsAssumption DEF Boot

\* What Start makes of the pass.
LEMMA FirstPass ==
    /\ Idle \in Pass /\ Idle.stage = "idle"
    /\ \A b \in Boot, s \in Stages, c \in BOOLEAN :
          [stage |-> s, boot |-> b, cur |-> c, made |-> FALSE] \in Pass
  BY DEF Idle, Pass

\* What the stages of a pass make of it.
LEMMA NextPass ==
    ASSUME NEW p \in Pass, NEW s \in Stages, NEW q,
           \/ q = [p EXCEPT !.stage = s]
           \/ q = [p EXCEPT !.stage = s, !.made = TRUE]
    PROVE  q \in Pass /\ q.stage = s /\ q.boot = p.boot /\ q.cur = p.cur
  BY DEF Pass

\* What a write of the Boot by somebody else makes of it.
LEMMA OutdatedPass ==
    ASSUME NEW p \in Pass, NEW q, q = [p EXCEPT !.cur = FALSE]
    PROVE  q \in Pass /\ q.stage = p.stage /\ q.boot = p.boot /\ q.cur = FALSE
  BY DEF Pass


----------------------------------------------------------------------------
(* The API server and the informers *)

\* The part of Base about the API server and what the informers show of it.
StoreOK ==
    /\ boot \in Boot \union {NoBoot} /\ cachedBoot \in Boot \union {NoBoot}
    /\ objs \in [Kinds -> Object \union {NoObject}]
    /\ cached \in [Kinds -> Object \union {NoObject}]
    /\ fresh \subseteq Everything /\ notify \subseteq Everything
    /\ FreshIsCurrent
    /\ ChangesAreNotified

\* The part about the queue and the pass.
LoopOK ==
    /\ uids \in Nat
    /\ queued \in BOOLEAN /\ dropped \in BOOLEAN
    /\ pass \in Pass
    /\ PassInOrder

CountersOK == edits \in Nat /\ outside \in Nat /\ failures \in Nat

\* Base is the sum of its parts, now and after a step.
LEMMA BaseParts ==
    /\ Base <=> StoreOK /\ LoopOK /\ CountersOK
    /\ StoreOK' /\ LoopOK' /\ CountersOK' => Base'
  BY DEF Base, TypeOK, StoreOK, LoopOK, CountersOK

\* A write of an object that existed, belongs to a Boot or is required keeps
\* the informers' account of what they have yet to show.
LEMMA WriteStore ==
    ASSUME StoreOK, NEW k \in Kinds, NEW o \in Object \union {NoObject}, Write(k, o),
           boot' = boot, UNCHANGED views,
           k \in Required \/ Exists(objs[k]) \/ o.owner # 0
    PROVE  StoreOK'
  <1>1. /\ objs' = [objs EXCEPT ![k] = o]
        /\ fresh' = fresh \ {k}
        /\ notify' = IF objs[k].owner # 0 \/ o.owner # 0 THEN notify \union {k} ELSE notify
        /\ boot' = boot /\ cachedBoot' = cachedBoot /\ cached' = cached
    BY DEF Write, views
  <1>2. /\ boot' \in Boot \union {NoBoot} /\ cachedBoot' \in Boot \union {NoBoot}
        /\ objs' \in [Kinds -> Object \union {NoObject}]
        /\ cached' \in [Kinds -> Object \union {NoObject}]
        /\ fresh' \subseteq Everything /\ notify' \subseteq Everything
    BY <1>1 DEF StoreOK
  <1>3. /\ objs'[k] = o
        /\ \A j \in Kinds \ {k} : objs'[j] = objs[j]
    BY <1>1 DEF StoreOK
  <1>4. FreshIsCurrent'
    BY <1>1, <1>3 DEF StoreOK, FreshIsCurrent
  <1>5. ASSUME NEW j \in Kinds \ (fresh' \union notify')
        PROVE  /\ objs'[j].owner = 0 /\ cached'[j].owner = 0
               /\ j \in Required \/ Exists(cached'[j])
    <2>1. CASE j # k
      <3>1. j \in Kinds \ (fresh \union notify)
        BY <1>1, <1>5, <2>1
      <3> QED
        BY <1>1, <1>3, <2>1, <3>1 DEF StoreOK, ChangesAreNotified
    <2>2. CASE j = k
      <3>1. objs[k].owner = 0 /\ o.owner = 0 /\ k \notin notify
        BY <1>1, <1>5, <2>2
      <3>2. CASE k \in fresh
        BY <1>1, <1>3, <2>2, <3>1, <3>2 DEF StoreOK, FreshIsCurrent
      <3>3. CASE k \notin fresh
        BY <1>1, <1>3, <2>2, <3>1, <3>3 DEF StoreOK, ChangesAreNotified
      <3> QED
        BY <3>2, <3>3
    <2> QED
      BY <2>1, <2>2
  <1>6. ChangesAreNotified'
    BY <1>1, <1>5 DEF StoreOK, ChangesAreNotified
  <1> QED
    BY <1>2, <1>4, <1>6 DEF StoreOK

\* A write of the Boot does too.
LEMMA WriteBootStore ==
    ASSUME StoreOK, NEW b \in Boot \union {NoBoot}, WriteBoot(b),
           objs' = objs, UNCHANGED views
    PROVE  StoreOK'
  <1>1. /\ boot' = b /\ fresh' = fresh \ {"boot"} /\ notify' = notify \union {"boot"}
        /\ objs' = objs /\ cachedBoot' = cachedBoot /\ cached' = cached
    BY DEF WriteBoot, views
  <1>2. FreshIsCurrent'
    BY <1>1 DEF StoreOK, FreshIsCurrent
  <1>3. ChangesAreNotified'
    <2>1. Kinds \ (fresh' \union notify') = Kinds \ (fresh \union notify)
      BY <1>1
    <2> QED
      BY <1>1, <2>1 DEF StoreOK, ChangesAreNotified
  <1> QED
    BY <1>1, <1>2, <1>3 DEF StoreOK

\* No write changes nothing.
LEMMA NoWriteStore ==
    ASSUME StoreOK, NoWrite, UNCHANGED views
    PROVE  StoreOK'
  BY DEF StoreOK, NoWrite, views, FreshIsCurrent, ChangesAreNotified

\* An informer that catches up shows what is there.
LEMMA SyncStore ==
    ASSUME StoreOK, NEW x \in Everything, Sync(x)
    PROVE  StoreOK'
  <1>1. /\ boot' = boot /\ objs' = objs /\ fresh' = fresh \union {x} /\ notify' = notify \ {x}
        /\ x \notin fresh
    BY DEF Sync
  <1>2. CASE x = "boot"
    <2>1. cachedBoot' = boot /\ cached' = cached
      BY <1>2 DEF Sync
    <2>2. Kinds \ (fresh' \union notify') = Kinds \ (fresh \union notify)
      BY <1>1, <1>2
    <2>3. FreshIsCurrent'
      BY <1>1, <1>2, <2>1 DEF StoreOK, FreshIsCurrent
    <2>4. ChangesAreNotified'
      BY <1>1, <1>2, <2>1, <2>2 DEF StoreOK, ChangesAreNotified
    <2> QED
      BY <1>1, <2>1, <2>3, <2>4 DEF StoreOK
  <1>3. CASE x \in Kinds
    <2>1. cachedBoot' = cachedBoot /\ cached' = [cached EXCEPT ![x] = objs[x]]
      BY <1>3 DEF Sync
    <2>2. cached'[x] = objs[x] /\ \A j \in Kinds \ {x} : cached'[j] = cached[j]
      BY <1>3, <2>1 DEF StoreOK
    <2>3. \A j \in Kinds \ (fresh' \union notify') :
             j # x /\ j \in Kinds \ (fresh \union notify)
      BY <1>1
    <2>4. FreshIsCurrent'
      BY <1>1, <1>3, <2>1, <2>2 DEF StoreOK, FreshIsCurrent
    <2>5. ChangesAreNotified'
      BY <1>1, <1>3, <2>2, <2>3 DEF StoreOK, ChangesAreNotified
    <2>6. cached' \in [Kinds -> Object \union {NoObject}]
      BY <1>3, <2>1 DEF StoreOK
    <2> QED
      BY <1>1, <2>1, <2>4, <2>5, <2>6 DEF StoreOK
  <1> QED
    BY <1>2, <1>3

----------------------------------------------------------------------------
(* What a stage of a pass does *)

\* An object a pass wrote: it existed, or it has an owner now.
ObjectWrite(k, o) ==
    /\ Write(k, o) /\ boot' = boot
    /\ k \in Required \/ Exists(objs[k]) \/ o.owner # 0
    /\ Exists(o) => o.owner # 0

\* A stage writes nothing, one object, or the Boot, and then it is the last.
Writes ==
    \/ NoWrite
    \/ \E k \in Kinds, o \in Object \union {NoObject} : ObjectWrite(k, o)
    \/ \E b \in Boot : WriteBoot(b) /\ objs' = objs /\ pass' = Idle

\* A pass ends with the name in the queue, on a failed creation, with an event
\* on its way, or with the metadata found right.
Ended ==
    /\ pass' = Idle
    /\ queued' \in BOOLEAN /\ dropped' \in BOOLEAN
    /\ \/ queued' = TRUE
       \/ dropped' = TRUE
       \/ notify' # {}
       \/ /\ pass.stage = "meta" /\ pass.boot.meta = Seen(pass.boot)
          /\ queued' = queued /\ dropped' = dropped

\* What the pass would leave alone.
Accepted(k) ==
    /\ cached[k].content = Wanted(k)
    /\ k # "other" /\ Exists(cached[k]) => cached[k].owner # 0

\* It goes on when the object checked is right or an event is on its way.
Continued(s) ==
    /\ \/ pass' = [pass EXCEPT !.stage = s]
       \/ pass' = [pass EXCEPT !.stage = s, !.made = TRUE]
    /\ UNCHANGED <<boot, queued, dropped>>
    /\ pass.stage # "default" /\ s \notin {"idle", "default"}
    /\ s = "createOther" => Wanted("other") # Absent
    /\ s = "meta" => pass.boot.status = Seen(pass.boot)
    /\ \A k \in Kinds : s \in After[k] =>
          pass.stage \in After[k] \/ Accepted(k) \/ notify' # {}

Outcome == Writes /\ (Ended \/ \E s \in Stages : Continued(s))

\* The ends of a pass.
LEMMA Ends ==
    ASSUME LoopOK
    PROVE  /\ Done(TRUE) => Ended
           /\ Drop => Ended
           /\ Done(FALSE) => pass' = Idle /\ queued' = queued /\ dropped' = dropped
  <1>1. queued \in BOOLEAN /\ dropped \in BOOLEAN
    BY DEF LoopOK
  <1>2. ASSUME Done(TRUE) PROVE pass' = Idle /\ queued' = TRUE /\ dropped' = dropped
    BY <1>2 DEF Done
  <1>3. ASSUME Done(FALSE) PROVE pass' = Idle /\ queued' = queued /\ dropped' = dropped
    BY <1>1, <1>3 DEF Done
  <1>4. ASSUME Drop PROVE pass' = Idle /\ queued' = queued /\ dropped' = TRUE
    BY <1>4 DEF Drop
  <1> QED
    BY <1>1, <1>2, <1>3, <1>4 DEF Ended

\* What is known of the pass in a stage after the defaults.
LEMMA InPass ==
    ASSUME Base, pass.stage # "idle"
    PROVE  /\ StoreOK /\ LoopOK
           /\ pass.boot \in Boot
           /\ pass.cur => pass.boot = boot
           /\ \A k \in Kinds : Wanted(k) \in Contents \union {Absent}
           /\ \A k \in Required : Wanted(k) \in Contents
           /\ pass.boot.uid \in Nat /\ pass.boot.uid # 0
           /\ \A k \in Kinds : /\ objs[k] \in Object \union {NoObject}
                                /\ cached[k] \in Object \union {NoObject}
  BY BaseParts, SpecOf DEF PassInOrder, LoopOK, StoreOK, Wanted

\* What the operator creates, and what it makes of what it found.
LEMMA NewAndUpdated ==
    ASSUME Base, pass.stage # "idle", NEW k \in Kinds, Wanted(k) # Absent
    PROVE  /\ New(k) \in Object /\ New(k).owner # 0
           /\ Exists(cached[k]) => Updated(k) \in Object /\ Updated(k).owner # 0
  <1>1. /\ Wanted(k) \in Contents
        /\ pass.boot.uid \in Nat /\ pass.boot.uid # 0
        /\ cached[k] \in Object \union {NoObject}
    BY InPass
  <1>2. New(k) \in Object /\ New(k).owner # 0
    BY <1>1, MadeObjects DEF New
  <1>3. ASSUME Exists(cached[k])
        PROVE  Updated(k) \in Object /\ Updated(k).owner # 0
    <2>1. cached[k] \in Object
      BY <1>1, <1>3, Absence
    <2> QED
      BY <1>1, <2>1 DEF Updated, Object
  <1> QED
    BY <1>2, <1>3

\* The Boot is written with its defaults and the pass ends.
LEMMA UpdateDefaultsOutcome ==
    ASSUME Base, UpdateDefaults
    PROVE  Outcome
  <1>1. pass.stage = "default" /\ Done(TRUE)
    BY DEF UpdateDefaults
  <1>2. /\ LoopOK /\ pass.boot \in Boot
        /\ pass.cur => pass.boot = boot
    BY <1>1, InPass
  <1>3. Ended /\ pass' = Idle
    BY <1>1, <1>2, Ends DEF Done
  <1>4. Writes
    <2>1. CASE pass.cur
      <3>1. [boot EXCEPT !.defaulted = TRUE] \in Boot
        BY <1>2, <2>1 DEF Boot
      <3> QED
        BY <1>3, <2>1, <3>1 DEF UpdateDefaults, Writes
    <2>2. CASE ~pass.cur
      BY <2>2 DEF UpdateDefaults, Writes
    <2> QED
      BY <2>1, <2>2
  <1> QED
    BY <1>3, <1>4 DEF Outcome

\* A creation that succeeds is an object written.
LEMMA Creation ==
    ASSUME Base, pass.stage # "idle", NEW k \in Kinds, Wanted(k) # Absent,
           Write(k, New(k)), boot' = boot
    PROVE  Writes
  <1>1. New(k) \in Object /\ New(k).owner # 0
    BY NewAndUpdated
  <1> QED
    BY <1>1 DEF Writes, ObjectWrite

\* An update that succeeds is too; its event is on its way.
LEMMA Update ==
    ASSUME Base, pass.stage # "idle", NEW k \in Kinds, Wanted(k) # Absent,
           Exists(cached[k]), Write(k, Updated(k)), boot' = boot
    PROVE  Writes /\ notify' # {}
  <1>1. Updated(k) \in Object /\ Updated(k).owner # 0
    BY NewAndUpdated
  <1>2. Writes
    BY <1>1 DEF Writes, ObjectWrite
  <1>3. k \in notify'
    BY <1>1 DEF Write
  <1> QED
    BY <1>2, <1>3

\* A stage without a check to its name just goes on.
LEMMA GoesOn ==
    ASSUME NEW s \in {"createService", "createOther", "update"}, boot' = boot,
           pass.stage # "default", GoOn(s), s = "createOther" => Wanted("other") # Absent
    PROVE  \E t \in Stages : Continued(t)
  <1>1. \A k \in Kinds : s \notin After[k]
    BY DEF After
  <1>2. Continued(s)
    BY <1>1 DEF GoOn, Continued
  <1> QED
    BY <1>2

\* The workload is there, or created, or there after all.
LEMMA CreateWorkloadOutcome ==
    ASSUME Base, CreateWorkload
    PROVE  Outcome
  <1>1. pass.stage = "create"
    BY DEF CreateWorkload
  <1>2. LoopOK /\ Wanted("workload") # Absent
    BY <1>1, InPass, ContentsAssumption
  <1>3. CASE NoWrite /\ GoOn("createService")
    <2>1. boot' = boot
      BY <1>3 DEF NoWrite
    <2> QED
      BY <1>1, <1>3, <2>1, GoesOn DEF Outcome, Writes
  <1>4. CASE /\ Write("workload", New("workload"))
             /\ pass' = [pass EXCEPT !.stage = "createService", !.made = TRUE]
             /\ UNCHANGED <<boot, queued, dropped>>
    <2>1. Writes
      BY <1>1, <1>2, <1>4, Creation
    <2>2. \A k \in Kinds : "createService" \notin After[k]
      BY DEF After
    <2>3. Continued("createService")
      BY <1>1, <1>4, <2>2 DEF Continued
    <2> QED
      BY <2>1, <2>3 DEF Outcome
  <1>5. CASE NoWrite /\ Done(TRUE)
    BY <1>2, <1>5, Ends DEF Outcome, Writes
  <1> QED
    BY <1>3, <1>4, <1>5 DEF CreateWorkload

\* So is the Service; a creation that fails drops the pass.
LEMMA CreateServiceOutcome ==
    ASSUME Base, CreateService
    PROVE  Outcome
  <1>1. pass.stage = "createService"
    BY DEF CreateService
  <1>2. LoopOK /\ Wanted("service") # Absent
    BY <1>1, InPass, ContentsAssumption
  <1>3. CASE NoWrite /\ Created(pass.made)
    <2>1. boot' = boot
      BY <1>3 DEF NoWrite
    <2>2. Ended \/ \E t \in Stages : Continued(t)
      BY <1>1, <1>2, <1>3, <2>1, Ends, GoesOn DEF Created
    <2> QED
      BY <1>3, <2>2 DEF Outcome, Writes
  <1>4. CASE /\ Write("service", New("service")) /\ UNCHANGED boot
             /\ IF Wanted("other") # Absent THEN GoOn("createOther") ELSE Done(TRUE)
    <2>1. Writes
      BY <1>1, <1>2, <1>4, Creation
    <2>2. Ended \/ \E t \in Stages : Continued(t)
      BY <1>1, <1>2, <1>4, Ends, GoesOn
    <2> QED
      BY <2>1, <2>2 DEF Outcome
  <1>5. CASE NoWrite /\ Drop
    BY <1>2, <1>5, Ends DEF Outcome, Writes
  <1> QED
    BY <1>3, <1>4, <1>5 DEF CreateService

\* The other Service is created after the Boot's own.
LEMMA CreateOtherOutcome ==
    ASSUME Base, CreateOther
    PROVE  Outcome
  <1>1. pass.stage = "createOther"
    BY DEF CreateOther
  <1>2. LoopOK /\ Wanted("other") # Absent
    BY <1>1, InPass DEF LoopOK, PassInOrder, Wanted
  <1>3. CASE Write("other", New("other")) /\ UNCHANGED boot /\ Done(TRUE)
    BY <1>1, <1>2, <1>3, Creation, Ends DEF Outcome
  <1>4. CASE NoWrite /\ Drop
    BY <1>2, <1>4, Ends DEF Outcome, Writes
  <1> QED
    BY <1>3, <1>4 DEF CreateOther

\* An object that the update would not change is accepted.
LEMMA Unchanged ==
    ASSUME Base, pass.stage # "idle", NEW k \in Kinds, Wanted(k) # Absent,
           Exists(cached[k]), cached[k] = Updated(k)
    PROVE  Accepted(k)
  <1>1. Updated(k).owner # 0
    BY NewAndUpdated
  <1>2. cached[k] \in Object
    BY InPass, Absence
  <1>3. Updated(k).content = Wanted(k)
    BY <1>2 DEF Updated, Object
  <1> QED
    BY <1>1, <1>3 DEF Accepted

\* The workload is right, or updated, or a conflict.
LEMMA UpdateWorkloadOutcome ==
    ASSUME Base, UpdateWorkload
    PROVE  Outcome
  <1>1. pass.stage = "update"
    BY DEF UpdateWorkload
  <1>2. LoopOK /\ Wanted("workload") # Absent
    BY <1>1, InPass, ContentsAssumption
  <1>3. CASE NoWrite /\ Done(TRUE)
    BY <1>2, <1>3, Ends DEF Outcome, Writes
  <1>4. CASE /\ Exists(cached["workload"]) /\ cached["workload"] = Updated("workload")
             /\ NoWrite /\ GoOn("updateService")
    <2>1. Accepted("workload")
      BY <1>1, <1>2, <1>4, Unchanged
    <2>2. \A k \in Kinds : "updateService" \in After[k] => k = "workload"
      BY DEF After
    <2>3. Continued("updateService")
      BY <1>1, <1>4, <2>1, <2>2 DEF Continued, GoOn, NoWrite
    <2> QED
      BY <1>4, <2>3 DEF Outcome, Writes
  <1>5. CASE /\ Exists(cached["workload"])
             /\ Write("workload", Updated("workload")) /\ UNCHANGED boot /\ Done(TRUE)
    BY <1>1, <1>2, <1>5, Update, Ends DEF Outcome
  <1> QED
    BY <1>3, <1>4, <1>5 DEF UpdateWorkload

\* So is the Service, and after its update the pass goes on.
LEMMA UpdateServiceOutcome ==
    ASSUME Base, UpdateService
    PROVE  Outcome
  <1>1. pass.stage = "updateService"
    BY DEF UpdateService
  <1>2. LoopOK /\ Wanted("service") # Absent
    BY <1>1, InPass, ContentsAssumption
  <1>3. \A k \in Kinds : "updateOther" \in After[k] =>
                          k = "service" \/ pass.stage \in After[k]
    BY <1>1 DEF After
  <1>4. CASE NoWrite /\ Done(TRUE)
    BY <1>2, <1>4, Ends DEF Outcome, Writes
  <1>5. CASE /\ Exists(cached["service"]) /\ cached["service"] = Updated("service")
             /\ NoWrite /\ GoOn("updateOther")
    <2>1. Accepted("service")
      BY <1>1, <1>2, <1>5, Unchanged
    <2>2. Continued("updateOther")
      BY <1>1, <1>3, <1>5, <2>1 DEF Continued, GoOn, NoWrite
    <2> QED
      BY <1>5, <2>2 DEF Outcome, Writes
  <1>6. CASE /\ Exists(cached["service"])
             /\ Write("service", Updated("service")) /\ UNCHANGED boot
             /\ GoOn("updateOther")
    <2>1. Writes /\ notify' # {}
      BY <1>1, <1>2, <1>6, Update
    <2>2. Continued("updateOther")
      BY <1>1, <1>3, <1>6, <2>1 DEF Continued, GoOn
    <2> QED
      BY <2>1, <2>2 DEF Outcome
  <1> QED
    BY <1>4, <1>5, <1>6 DEF UpdateService

\* Outcome of the stage of an optional object: next is the stage after it, at
\* which k and what was checked before count as checked.
LEMMA SustainOutcome ==
    ASSUME Base, pass.stage \notin {"idle", "default"}, NEW k \in {"other", "hpa"}, NEW repaired \in BOOLEAN,
           NEW next \in {"hpa", "status"}, Sustain(k, repaired, next),
           k # "other" => repaired,
           \A j \in Kinds : next \in After[j] => j = k \/ pass.stage \in After[j]
    PROVE  Outcome
  <1>1. /\ LoopOK
        /\ objs[k] \in Object \union {NoObject} /\ cached[k] \in Object \union {NoObject}
    BY InPass
  <1>2. CASE /\ Write(k, NoObject) /\ UNCHANGED boot /\ Exists(objs[k]) /\ Done(TRUE)
    <2>1. ~Exists(NoObject)
      BY DEF Exists
    <2>2. Writes
      BY <1>2, <2>1 DEF Writes, ObjectWrite
    <2> QED
      BY <1>1, <1>2, <2>2, Ends DEF Outcome
  <1>3. CASE NoWrite /\ Done(TRUE)
    BY <1>1, <1>3, Ends DEF Outcome, Writes
  <1>4. CASE Wanted(k) # Absent /\ Write(k, New(k)) /\ UNCHANGED boot /\ Done(TRUE)
    BY <1>1, <1>4, Creation, Ends DEF Outcome
  <1>5. CASE /\ Exists(cached[k]) /\ Wanted(k) # Absent
             /\ Write(k, Updated(k)) /\ UNCHANGED boot /\ Done(TRUE)
    BY <1>1, <1>5, Update, Ends DEF Outcome
  <1>6. CASE /\ Exists(cached[k]) <=> Wanted(k) # Absent
             /\ Exists(cached[k]) => /\ cached[k].content = Wanted(k)
                                     /\ repaired => cached[k].owner # 0
             /\ NoWrite /\ GoOn(next)
    <2>1. Accepted(k)
      <3>1. CASE Exists(cached[k])
        BY <1>6, <3>1 DEF Accepted
      <3>2. CASE ~Exists(cached[k])
        BY <1>6, <3>2 DEF Accepted, Exists, NoObject
      <3> QED
        BY <3>1, <3>2
    <2>2. Continued(next)
      BY <1>6, <2>1 DEF Continued, GoOn, NoWrite
    <2> QED
      BY <1>6, <2>2 DEF Outcome, Writes
  <1> QED
    BY <1>2, <1>3, <1>4, <1>5, <1>6 DEF Sustain

\* The other Service is sustained.
LEMMA UpdateOtherOutcome ==
    ASSUME Base, UpdateOther
    PROVE  Outcome
  <1>1. pass.stage = "updateOther" /\ Sustain("other", FALSE, "hpa")
    BY DEF UpdateOther
  <1>2. \A j \in Kinds : "hpa" \in After[j] => j = "other" \/ pass.stage \in After[j]
    BY <1>1 DEF After
  <1> QED
    BY <1>1, <1>2, SustainOutcome

\* The autoscaler is sustained.
LEMMA UpdateHpaOutcome ==
    ASSUME Base, UpdateHpa
    PROVE  Outcome
  <1>1. pass.stage = "hpa" /\ Sustain("hpa", TRUE, "status")
    BY DEF UpdateHpa
  <1>2. \A j \in Kinds : "status" \in After[j] => j = "hpa" \/ pass.stage \in After[j]
    BY <1>1 DEF After
  <1> QED
    BY <1>1, <1>2, SustainOutcome

\* What there is to report is a report.
LEMMA SeenType ==
    ASSUME Base, pass.stage # "idle"
    PROVE  /\ Seen(pass.boot) \in Report
           /\ [pass.boot.status EXCEPT !.asked = Wanted("workload")] \in Report
  <1>1. /\ pass.boot.spec["workload"] \in Contents
        /\ cached["workload"] \in Object \union {NoObject}
        /\ pass.boot.status \in Report
    BY InPass, SpecOf
  <1>2. cached["workload"].ready \in BOOLEAN
    <2>1. NoObject.ready \in BOOLEAN
      BY DEF NoObject
    <2>2. \A o \in Object : o.ready \in BOOLEAN
      BY DEF Object
    <2> QED
      BY <1>1, <2>1, <2>2
  <1>3. Seen(pass.boot) \in Report
    BY <1>1, <1>2 DEF Seen, Report
  <1>4. ASSUME NEW r \in Report, NEW c \in Contents PROVE [r EXCEPT !.asked = c] \in Report
    BY DEF Report
  <1> QED
    BY <1>1, <1>3, <1>4 DEF Wanted

\* The pass goes on when the status is right, else writes it and ends.
LEMMA UpdateStatusOutcome ==
    ASSUME Base, UpdateStatus
    PROVE  Outcome
  <1>1. pass.stage = "status"
    BY DEF UpdateStatus
  <1>2. /\ LoopOK /\ pass.boot \in Boot
        /\ pass.cur => pass.boot = boot
    BY <1>1, InPass
  <1> DEFINE found == Exists(cached["workload"])
             status == IF found THEN Seen(pass.boot)
                       ELSE [pass.boot.status EXCEPT !.asked = Wanted("workload")]
  <1>3. status \in Report
    BY <1>1, SeenType
  <1>4. CASE /\ pass.boot.status = status /\ NoWrite
             /\ IF found THEN GoOn("meta") ELSE Done(TRUE)
    <2>1. CASE found
      <3>1. \A k \in Kinds : "meta" \in After[k] => pass.stage \in After[k]
        BY <1>1 DEF After
      <3>2. Continued("meta")
        BY <1>1, <1>4, <2>1, <3>1 DEF Continued, GoOn, NoWrite
      <3> QED
        BY <1>4, <3>2 DEF Outcome, Writes
    <2>2. CASE ~found
      BY <1>2, <1>4, <2>2, Ends DEF Outcome, Writes
    <2> QED
      BY <2>1, <2>2
  <1>5. CASE /\ Done(TRUE)
             /\ IF pass.cur THEN WriteBoot([boot EXCEPT !.status = status]) /\ UNCHANGED objs
                ELSE NoWrite
    <2>1. Ended /\ pass' = Idle
      BY <1>2, <1>5, Ends DEF Done
    <2>2. Writes
      <3>1. CASE pass.cur
        <4>1. boot \in Boot
          BY <1>2, <3>1
        <4>2. [boot EXCEPT !.status = status] \in Boot
          BY <1>3, <4>1 DEF Boot
        <4> QED
          BY <1>5, <2>1, <3>1, <4>2 DEF Writes
      <3>2. CASE ~pass.cur
        BY <1>5, <3>2 DEF Writes
      <3> QED
        BY <3>1, <3>2
    <2> QED
      BY <2>1, <2>2 DEF Outcome
  <1> QED
    BY <1>4, <1>5 DEF UpdateStatus

\* The pass ends, and when the metadata is right without anything to do.
LEMMA UpdateMetaOutcome ==
    ASSUME Base, UpdateMeta
    PROVE  Outcome
  <1>1. pass.stage = "meta"
    BY DEF UpdateMeta
  <1>2. /\ LoopOK /\ pass.boot \in Boot
        /\ pass.cur => pass.boot = boot
    BY <1>1, InPass
  <1>3. queued \in BOOLEAN /\ dropped \in BOOLEAN
    BY <1>2 DEF LoopOK
  <1>4. CASE pass.boot.meta = Seen(pass.boot) /\ NoWrite /\ Done(FALSE)
    <2>1. Ended
      BY <1>1, <1>2, <1>3, <1>4, Ends DEF Ended
    <2> QED
      BY <1>4, <2>1 DEF Outcome, Writes
  <1>5. CASE /\ pass.cur /\ UNCHANGED objs /\ Done(FALSE)
             /\ WriteBoot([boot EXCEPT !.meta = Seen(pass.boot)])
    <2>1. boot \in Boot /\ Seen(pass.boot) \in Report
      BY <1>1, <1>2, <1>5, SeenType
    <2>2. [boot EXCEPT !.meta = Seen(pass.boot)] \in Boot
      BY <2>1 DEF Boot
    <2>3. notify' # {}
      BY <1>5 DEF WriteBoot
    <2>4. pass' = Idle /\ Ended
      BY <1>2, <1>3, <1>5, <2>3, Ends DEF Ended
    <2> QED
      BY <1>5, <2>2, <2>4 DEF Outcome, Writes
  <1>6. CASE NoWrite /\ Done(TRUE)
    BY <1>2, <1>6, Ends DEF Outcome, Writes
  <1> QED
    BY <1>4, <1>5, <1>6 DEF UpdateMeta

\* Every stage ends in one of the outcomes.
LEMMA StepOutcome ==
    ASSUME Base, Step
    PROVE  Outcome /\ pass.stage # "idle"
  <1>1. pass.stage # "idle"
    BY DEF Step, UpdateDefaults, CreateWorkload, CreateService, CreateOther, UpdateWorkload,
       UpdateService, UpdateOther, UpdateHpa, UpdateStatus, UpdateMeta
  <1> QED
    BY <1>1, UpdateDefaultsOutcome, CreateWorkloadOutcome, CreateServiceOutcome,
       CreateOtherOutcome, UpdateWorkloadOutcome, UpdateServiceOutcome, UpdateOtherOutcome,
       UpdateHpaOutcome, UpdateStatusOutcome, UpdateMetaOutcome DEF Step

----------------------------------------------------------------------------
(* Every step keeps Base *)

\* The initial state satisfies Base.
LEMMA InitBase == Init => Base
  <1> SUFFICES ASSUME Init PROVE Base
    OBVIOUS
  <1>1. StoreOK
    BY DEF Init, StoreOK, FreshIsCurrent, ChangesAreNotified
  <1>2. LoopOK
    BY FirstPass DEF Init, LoopOK, PassInOrder
  <1>3. CountersOK
    BY DEF Init, CountersOK
  <1> QED
    BY <1>1, <1>2, <1>3, BaseParts

\* Steps that leave the queue and the pass alone, and the Boot.
LEMMA SameLoop ==
    ASSUME LoopOK, UNCHANGED <<boot, uids, pass, dropped>>, queued' \in BOOLEAN
    PROVE  LoopOK'
  BY DEF LoopOK, PassInOrder

\* A pass that has ended is in order.
LEMMA EndedLoop ==
    ASSUME pass' = Idle, uids' \in Nat, queued' \in BOOLEAN, dropped' \in BOOLEAN
    PROVE  LoopOK'
  BY FirstPass DEF LoopOK, PassInOrder

\* The bounds' counters only count.
LEMMA Counts ==
    ASSUME CountersOK, edits' \in {edits, edits + 1}, outside' \in {outside, outside + 1},
           failures' \in {failures, failures + 1}
    PROVE  CountersOK'
  BY DEF CountersOK

\* A stage of a pass.
LEMMA OutcomeBase ==
    ASSUME Base, pass.stage # "idle", Outcome, UNCHANGED <<uids, views, counters>>
    PROVE  Base'
  <1>1. StoreOK /\ LoopOK /\ CountersOK /\ UNCHANGED views
    BY BaseParts
  <1>2. StoreOK'
    <2>1. CASE NoWrite
      BY <1>1, <2>1, NoWriteStore
    <2>2. CASE \E k \in Kinds, o \in Object \union {NoObject} : ObjectWrite(k, o)
      BY <1>1, <2>2, WriteStore DEF ObjectWrite
    <2>3. CASE \E b \in Boot : WriteBoot(b) /\ objs' = objs
      BY <1>1, <2>3, WriteBootStore
    <2> QED
      BY <2>1, <2>2, <2>3 DEF Outcome, Writes
  <1>3. LoopOK'
    <2>1. CASE Ended
      BY <1>1, <2>1, EndedLoop DEF Ended, LoopOK
    <2>2. ASSUME NEW s \in Stages, Continued(s)
          PROVE  LoopOK'
      <3>1. pass \in Pass /\ pass.stage \notin {"idle", "default"}
        BY <1>1, <2>2 DEF LoopOK, Continued
      <3>2. /\ pass' \in Pass /\ pass'.stage = s /\ pass'.boot = pass.boot
            /\ pass'.cur = pass.cur
        BY <2>2, <3>1 DEF Continued, Pass
      <3>3. /\ s = "createOther" => pass.boot.spec["other"] # Absent
            /\ boot' = boot /\ queued' = queued /\ dropped' = dropped /\ s # "default"
        BY <2>2 DEF Continued, Wanted
      <3>4. PassInOrder'
        BY <1>1, <3>1, <3>2, <3>3 DEF LoopOK, PassInOrder
      <3> QED
        BY <1>1, <3>2, <3>3, <3>4 DEF LoopOK
    <2> QED
      BY <2>1, <2>2 DEF Outcome
  <1>4. CountersOK'
    BY <1>1 DEF CountersOK, counters
  <1> QED
    BY <1>2, <1>3, <1>4, BaseParts

\* The beginning of a pass.
LEMMA StartBase ==
    ASSUME Base, Start
    PROVE  Base'
  <1>1. StoreOK /\ LoopOK /\ CountersOK
    BY BaseParts
  <1>2. StoreOK'
    BY <1>1, NoWriteStore DEF Start
  <1>3. LoopOK'
    <2>1. CASE cachedBoot = NoBoot \/ cachedBoot.marked
      BY <1>1, <2>1, EndedLoop DEF Start, LoopOK
    <2>2. CASE cachedBoot # NoBoot /\ ~cachedBoot.marked
      <3> DEFINE stage == IF cachedBoot.defaulted THEN "create" ELSE "default"
      <3>1. cachedBoot \in Boot /\ stage \in Stages /\ ("boot" \in fresh) \in BOOLEAN
        BY <1>1, <2>2 DEF StoreOK
      <3>2. pass' = [stage |-> stage, boot |-> cachedBoot, cur |-> "boot" \in fresh,
                     made |-> FALSE]
        BY <2>2 DEF Start
      <3>3. pass' \in Pass
        BY <3>1, <3>2, FirstPass
      <3>4. /\ pass'.stage = stage /\ pass'.boot = cachedBoot
            /\ pass'.cur <=> "boot" \in fresh
        BY <3>2
      <3>5. boot' = boot /\ ("boot" \in fresh => cachedBoot = boot)
        BY <1>1 DEF Start, NoWrite, StoreOK, FreshIsCurrent
      <3>6. PassInOrder'
        BY <3>1, <3>4, <3>5 DEF PassInOrder
      <3> QED
        BY <1>1, <3>3, <3>6 DEF Start, LoopOK
    <2> QED
      BY <2>1, <2>2
  <1>4. CountersOK'
    BY <1>1 DEF CountersOK, Start, counters
  <1> QED
    BY <1>2, <1>3, <1>4, BaseParts

\* A write of the Boot by a user.
LEMMA UserWritesBase ==
    ASSUME Base, NEW b \in Boot \union {NoBoot}, UserWrites(b), uids' \in Nat
    PROVE  Base'
  <1>1. StoreOK /\ LoopOK /\ CountersOK
    BY BaseParts
  <1>2. StoreOK'
    BY <1>1, WriteBootStore DEF UserWrites
  <1>3. LoopOK'
    <2>1. /\ pass' \in Pass /\ pass'.stage = pass.stage /\ pass'.boot = pass.boot
          /\ pass'.cur = FALSE
      BY <1>1, OutdatedPass DEF LoopOK, UserWrites
    <2>2. PassInOrder'
      BY <1>1, <2>1 DEF LoopOK, PassInOrder
    <2> QED
      BY <1>1, <2>1, <2>2 DEF LoopOK, UserWrites
  <1>4. CountersOK'
    BY <1>1 DEF CountersOK, UserWrites
  <1> QED
    BY <1>2, <1>3, <1>4, BaseParts

\* A write of an object by somebody else, or by the garbage collector.
LEMMA OutsideBase ==
    ASSUME Base, NEW k \in Kinds, NEW o \in Object \union {NoObject},
           Write(k, o), UNCHANGED <<boot, uids, views, queued, pass, dropped>>,
           k \in Required \/ Exists(objs[k]) \/ o.owner # 0,
           CountersOK'
    PROVE  Base'
  <1>1. StoreOK /\ LoopOK
    BY BaseParts
  <1>2. StoreOK'
    BY <1>1, WriteStore
  <1>3. LoopOK'
    BY <1>1, SameLoop DEF LoopOK
  <1> QED
    BY <1>2, <1>3, BaseParts

\* What users and outsiders can write.
LEMMA Arguments ==
    ASSUME Base
    PROVE  /\ \A s \in Specs, d \in BOOLEAN :
                 /\ [NoBoot EXCEPT !.uid = uids + 1, !.spec = s, !.defaulted = d] \in Boot
                 /\ boot # NoBoot => [boot EXCEPT !.spec = s, !.defaulted = d] \in Boot
           /\ boot # NoBoot => [boot EXCEPT !.marked = TRUE] \in Boot
           /\ \A c \in Contents :
                 /\ [NoObject EXCEPT !.content = c] \in Object
                 /\ \A k \in Kinds : Exists(objs[k]) =>
                       /\ [objs[k] EXCEPT !.content = c] \in Object
                       /\ [objs[k] EXCEPT !.content = c].owner = objs[k].owner
           /\ \A k \in Kinds : Exists(objs[k]) =>
                 /\ objs[k] \in Object
                 /\ [objs[k] EXCEPT !.owner = 0] \in Object
                 /\ [objs[k] EXCEPT !.ready = ~@] \in Object
                 /\ [objs[k] EXCEPT !.ready = ~@].owner = objs[k].owner
           /\ \A k \in Kinds : objs[k].owner # 0 => Exists(objs[k])
  <1>1. StoreOK /\ LoopOK
    BY BaseParts
  <1>2. \A k \in Kinds : objs[k] \in Object \union {NoObject}
    BY <1>1 DEF StoreOK
  <1>3. \A k \in Kinds : /\ Exists(objs[k]) => objs[k] \in Object
                         /\ objs[k].owner # 0 => Exists(objs[k])
    BY <1>2, Absence
  <1>4. ASSUME NEW s \in Specs, NEW d \in BOOLEAN
        PROVE  /\ [NoBoot EXCEPT !.uid = uids + 1, !.spec = s, !.defaulted = d] \in Boot
               /\ boot # NoBoot => [boot EXCEPT !.spec = s, !.defaulted = d] \in Boot
    <2>1. uids \in Nat /\ boot \in Boot \union {NoBoot}
      BY <1>1 DEF StoreOK, LoopOK
    <2>2. [NoBoot EXCEPT !.uid = uids + 1, !.spec = s, !.defaulted = d] \in Boot
      BY <2>1, NewBoot
    <2>3. ASSUME boot # NoBoot PROVE [boot EXCEPT !.spec = s, !.defaulted = d] \in Boot
      <3>1. boot \in Boot
        BY <2>1, <2>3
      <3> QED
        BY <3>1 DEF Boot
    <2> QED
      BY <2>2, <2>3
  <1>9. ASSUME boot # NoBoot PROVE [boot EXCEPT !.marked = TRUE] \in Boot
    <2>1. boot \in Boot
      BY <1>1, <1>9 DEF StoreOK
    <2> QED
      BY <2>1 DEF Boot
  <1>5. \A c \in Contents : [NoObject EXCEPT !.content = c] \in Object
    BY MadeObjects
  <1>6. \A o \in Object, c \in Contents :
           /\ [o EXCEPT !.content = c] \in Object
           /\ [o EXCEPT !.content = c].owner = o.owner
    BY ChangedObjects
  <1>7. \A o \in Object : [o EXCEPT !.owner = 0] \in Object
    BY DEF Object
  <1>8. \A o \in Object : /\ [o EXCEPT !.ready = ~@] \in Object
                          /\ [o EXCEPT !.ready = ~@].owner = o.owner
    BY DEF Object
  <1> QED
    BY <1>3, <1>4, <1>5, <1>6, <1>7, <1>8, <1>9

\* A failed call ends the pass and writes nothing.
LEMMA FailCallBase ==
    ASSUME Base, FailCall
    PROVE  Base'
  <1>1. StoreOK /\ LoopOK /\ CountersOK
    BY BaseParts
  <1>2. StoreOK'
    BY <1>1, NoWriteStore DEF FailCall
  <1>3. Ended
    BY <1>1, Ends DEF FailCall
  <1>4. LoopOK'
    BY <1>1, <1>3, EndedLoop DEF Ended, FailCall, LoopOK
  <1>5. CountersOK'
    BY <1>1 DEF CountersOK, FailCall
  <1> QED
    BY <1>2, <1>4, <1>5, BaseParts

\* A restart forgets the pass and lists everything.
LEMMA RestartBase ==
    ASSUME Base, Restart
    PROVE  Base'
  <1>1. StoreOK /\ LoopOK /\ CountersOK
    BY BaseParts
  <1>2. StoreOK'
    BY <1>1 DEF Restart, StoreOK, FreshIsCurrent, ChangesAreNotified
  <1>3. LoopOK'
    BY <1>1, EndedLoop DEF Restart, LoopOK
  <1>4. CountersOK'
    BY <1>1 DEF CountersOK, Restart
  <1> QED
    BY <1>2, <1>3, <1>4, BaseParts

\* The steps of the users, the outsiders and the garbage collector.
LEMMA OthersBase ==
    ASSUME Base
    PROVE  /\ \A s \in Specs, d \in BOOLEAN : CreateBoot(s, d) \/ EditBoot(s, d) => Base'
           /\ DeleteBoot \/ MarkBoot \/ Finalize => Base'
           /\ \A k \in Kinds, c \in Contents :
                 MakeOutside(k, c) \/ ChangeOutside(k, c) => Base'
           /\ \A k \in Kinds : DeleteOutside(k) \/ StripOwner(k) => Base'
           /\ \A k \in Kinds : Collect(k) \/ CollectFirst(k) => Base'
           /\ PodsChange => Base'
  <1>1. StoreOK /\ LoopOK /\ CountersOK
    BY BaseParts
  <1>2. uids \in Nat /\ uids + 1 \in Nat
    BY <1>1 DEF LoopOK
  <1>3. ASSUME NEW k \in Kinds, NEW o \in Object \union {NoObject}, Outside(k, o),
               k \in Required \/ Exists(objs[k])
        PROVE  Base'
    <2>1. CountersOK'
      BY <1>1, <1>3 DEF CountersOK, Outside
    <2> QED
      BY <1>3, <2>1, OutsideBase DEF Outside
  <1>4. ASSUME NEW s \in Specs, NEW d \in BOOLEAN, CreateBoot(s, d) \/ EditBoot(s, d)
        PROVE  Base'
    <2>1. CASE CreateBoot(s, d)
      <3>1. uids' \in Nat
        BY SMTT(30), <1>2, <2>1 DEF CreateBoot
      <3> QED
        BY <2>1, <3>1, Arguments, UserWritesBase DEF CreateBoot
    <2>2. CASE EditBoot(s, d)
      <3>1. uids' \in Nat
        BY <1>2, <2>2 DEF EditBoot
      <3> QED
        BY <2>2, <3>1, Arguments, UserWritesBase DEF EditBoot
    <2> QED
      BY <1>4, <2>1, <2>2
  <1>5. ASSUME DeleteBoot PROVE Base'
    BY <1>2, <1>5, UserWritesBase DEF DeleteBoot
  <1>10. ASSUME MarkBoot PROVE Base'
    <2>1. [boot EXCEPT !.marked = TRUE] \in Boot
      BY <1>10, Arguments DEF MarkBoot
    <2> QED
      BY SMTT(30), <1>2, <1>10, <2>1, UserWritesBase DEF MarkBoot
  <1>11. ASSUME Finalize PROVE Base'
    <2>1. StoreOK'
      BY <1>1, <1>11, WriteBootStore DEF Finalize
    <2>2. LoopOK'
      <3>1. /\ pass' \in Pass /\ pass'.stage = pass.stage /\ pass'.boot = pass.boot
            /\ pass'.cur = FALSE
        BY <1>1, <1>11, OutdatedPass DEF LoopOK, Finalize
      <3>2. PassInOrder'
        BY <1>1, <3>1 DEF LoopOK, PassInOrder
      <3> QED
        BY <1>1, <1>11, <3>1, <3>2 DEF LoopOK, Finalize
    <2>3. CountersOK'
      BY <1>1, <1>11 DEF CountersOK, Finalize, counters
    <2> QED
      BY <2>1, <2>2, <2>3, BaseParts
  <1>6. ASSUME NEW k \in Kinds, NEW c \in Contents, MakeOutside(k, c) \/ ChangeOutside(k, c)
        PROVE  Base'
    BY ZenonT(60), <1>3, <1>6, Arguments DEF MakeOutside, ChangeOutside
  <1>7. ASSUME NEW k \in Kinds, DeleteOutside(k) \/ StripOwner(k)
        PROVE  Base'
    BY <1>3, <1>7, Arguments DEF DeleteOutside, StripOwner
  <1>8. ASSUME NEW k \in Kinds, Collect(k) \/ CollectFirst(k)
        PROVE  Base'
    <2>1. Exists(objs[k]) /\ Delete(k)
      <3>1. CASE Collect(k)
        BY ZenonT(60), <3>1, Arguments DEF Collect
      <3>2. CASE CollectFirst(k)
        <4>1. boot.uid # 0
          BY <1>1, <3>2, SpecOf DEF StoreOK, CollectFirst, NoBoot
        <4> QED
          BY <3>2, <4>1, Arguments DEF CollectFirst
      <3> QED
        BY SMTT(30), <1>8, <3>1, <3>2
    <2>2. CountersOK'
      BY SMTT(30), <1>1, <2>1 DEF CountersOK, Delete, counters
    <2> QED
      BY <2>1, <2>2, OutsideBase DEF Delete
  <1>9. ASSUME PodsChange PROVE Base'
    BY <1>3, <1>9, Arguments DEF PodsChange
  <1> QED
    BY <1>4, <1>5, <1>6, <1>7, <1>8, <1>9, <1>10, <1>11

\* Every step keeps Base.
LEMMA BaseStep ==
    ASSUME Base, [Next]_vars
    PROVE  Base'
  <1>1. StoreOK /\ LoopOK /\ CountersOK
    BY BaseParts
  <1>2. ASSUME NEW x \in Everything, Sync(x) PROVE Base'
    <2>1. StoreOK'
      BY <1>1, <1>2, SyncStore
    <2>2. queued' \in BOOLEAN
      BY <1>2 DEF Sync
    <2>3. LoopOK' /\ CountersOK'
      BY <1>1, <1>2, <2>2, SameLoop DEF Sync, CountersOK, counters
    <2> QED
      BY <2>1, <2>3, BaseParts
  <1>3. ASSUME Work PROVE Base'
    BY <1>3, StartBase, StepOutcome, OutcomeBase DEF Work
  <1>4. CASE UNCHANGED vars
    BY <1>4 DEF vars, views, counters, Base, TypeOK, FreshIsCurrent, ChangesAreNotified,
       PassInOrder
  <1> QED
    BY <1>2, <1>3, <1>4, OthersBase, FailCallBase, RestartBase DEF Next

\* Base holds in every reachable state.
THEOREM BaseInvariance == Spec => []Base
  BY InitBase, BaseStep, PTL DEF Spec

\* Every variable of the reconcile loop keeps its type.
THEOREM TypeCorrectness == Spec => []TypeOK
  <1>1. Base => TypeOK
    BY DEF Base
  <1> QED
    BY <1>1, BaseInvariance, PTL

----------------------------------------------------------------------------
(* Nothing is lost: the rest of the inductive invariant, where nobody strips *)
(* the other Service of its owner                                            *)

\* What looks right and has no event on its way is what the API server has.
LEMMA RightIsFresh ==
    ASSUME IInv, notify = {}, cachedBoot \in Boot, NEW k \in Kinds, Right(k)
    PROVE  k \in fresh
  <1> SUFFICES ASSUME k \notin fresh PROVE FALSE
    OBVIOUS
  <1>1. /\ cached[k] \in Object \union {NoObject} /\ cached[k].owner = 0
        /\ k \in Required \/ Exists(cached[k])
    BY DEF IInv, Base, TypeOK, ChangesAreNotified
  <1>2. k \in Required => Exists(cached[k])
    <2>1. k \in Required => cached[k].content # Absent
      BY SpecOf, ContentsAssumption DEF Right
    <2> QED
      BY <1>1, <2>1, Absence
  <1>3. Exists(cached[k])
    BY <1>1, <1>2
  <1> QED
    BY <1>1, <1>3 DEF Right, IInv, OtherIsOwned

\* Steps that leave the operator and its view alone.
LEMMA OthersLoseNothing ==
    ASSUME NothingIsLost, notify \subseteq notify', UNCHANGED <<boot, queued, pass, dropped, views>>
    PROVE  NothingIsLost'
  BY DEF NothingIsLost, Right, Seen, views

\* So do steps after which an event is on its way or the name in the queue.
LEMMA NotifiedLoseNothing ==
    ASSUME queued' = TRUE \/ notify' # {}
    PROVE  NothingIsLost'
  BY DEF NothingIsLost

\* An informer catches up.
LEMMA SyncLosesNothing ==
    ASSUME IInv, NEW x \in Everything, Sync(x)
    PROVE  NothingIsLost'
  <1> SUFFICES ASSUME ~queued', notify' = {} PROVE NothingIsLost'
    BY DEF NothingIsLost
  <1>1. /\ x \notin notify /\ notify = {} /\ x \notin fresh /\ ~queued
        /\ UNCHANGED <<boot, pass, dropped>>
    BY DEF Sync
  <1>2. x \in Kinds
    BY <1>1 DEF IInv, Base, ChangesAreNotified
  <1>3. /\ cachedBoot' = cachedBoot
        /\ \A j \in Kinds \ {x} : cached'[j] = cached[j]
    BY <1>2 DEF Sync, IInv, Base, TypeOK
  <1>4. "boot" \in fresh /\ cachedBoot = boot /\ boot \in Boot \union {NoBoot}
    BY <1>1 DEF IInv, Base, TypeOK, ChangesAreNotified, FreshIsCurrent
  <1>5. ASSUME pass.stage # "idle"
        PROVE  /\ pass.boot = cachedBoot
               /\ \A k \in Kinds : pass.stage \in After[k] => Right(k)'
               /\ pass.stage # "meta"
    <2>1. /\ pass.boot = cachedBoot /\ cachedBoot \in Boot
          /\ \A k \in Kinds : pass.stage \in After[k] => Right(k)
      BY <1>1, <1>5 DEF IInv, Base, NothingIsLost, PassInOrder
    <2>2. \A k \in Kinds : pass.stage \in After[k] => k # x
      BY <1>1, <2>1, RightIsFresh
    <2>3. \A k \in Kinds : "meta" \in After[k]
      BY DEF After
    <2> QED
      BY <1>2, <1>3, <2>1, <2>2, <2>3 DEF Right
  <1>6. ASSUME pass.stage = "idle", ~dropped, boot # NoBoot, ~boot.marked
        PROVE  FALSE
    <2>1. Right(x)
      BY <1>1, <1>2, <1>6 DEF IInv, NothingIsLost
    <2> QED
      BY <1>1, <1>2, <1>4, <1>6, <2>1, RightIsFresh
  <1> QED
    BY <1>1, <1>3, <1>5, <1>6 DEF NothingIsLost

\* A pass begins.
LEMMA StartLosesNothing ==
    ASSUME IInv, Start
    PROVE  NothingIsLost'
  <1> SUFFICES ASSUME notify' = {} PROVE NothingIsLost'
    BY DEF NothingIsLost
  <1>1. notify = {} /\ boot' = boot /\ cachedBoot' = cachedBoot
    BY DEF Start, NoWrite, views
  <1>2. cachedBoot = boot
    BY <1>1 DEF IInv, Base, ChangesAreNotified, FreshIsCurrent
  <1>3. CASE cachedBoot = NoBoot \/ cachedBoot.marked
    BY <1>1, <1>2, <1>3, FirstPass DEF Start, NothingIsLost
  <1>4. CASE cachedBoot # NoBoot /\ ~cachedBoot.marked
    <2>1. pass'.boot = cachedBoot /\ pass'.stage \in {"create", "default"}
      BY <1>4 DEF Start
    <2>2. \A k \in Kinds : pass'.stage \notin After[k]
      BY <2>1 DEF After
    <2> QED
      BY <1>1, <2>1, <2>2 DEF NothingIsLost
  <1> QED
    BY <1>3, <1>4

\* A stage of a pass.
LEMMA StageLosesNothing ==
    ASSUME IInv, pass.stage # "idle", Outcome, UNCHANGED views
    PROVE  NothingIsLost'
  <1> SUFFICES ASSUME ~queued', notify' = {} PROVE NothingIsLost'
    BY DEF NothingIsLost
  <1>1. notify = {} /\ boot' = boot
    BY DEF Outcome, Writes, NoWrite, ObjectWrite, Write, WriteBoot
  <1>2. cachedBoot' = cachedBoot /\ cached' = cached
    BY DEF views
  <1>3. cachedBoot = boot
    BY <1>1 DEF IInv, Base, ChangesAreNotified, FreshIsCurrent
  <1>4. pass.boot \in Boot /\ (pass.stage # "default" => pass.boot.defaulted)
    BY DEF IInv, Base, PassInOrder
  <1>5. ASSUME NEW s \in Stages, Continued(s)
        PROVE  NothingIsLost'
    <2>1. ~queued /\ s # "idle"
      BY <1>5 DEF Continued
    <2>2. /\ pass.boot = cachedBoot
          /\ \A k \in Kinds : pass.stage \in After[k] => Right(k)
      BY <1>1, <2>1 DEF IInv, NothingIsLost
    <2>3. pass'.stage = s /\ pass'.boot = pass.boot
      BY <1>5 DEF Continued, IInv, Base, TypeOK, Pass
    <2>4. \A k \in Kinds : s \in After[k] => Right(k)'
      <3>1. \A k \in Kinds : Accepted(k) => Right(k)
        BY <2>2 DEF Accepted, Right, Wanted
      <3>2. \A k \in Kinds : s \in After[k] => Right(k)
        BY <1>5, <2>2, <3>1 DEF Continued
      <3> QED
        BY <1>2, <3>2 DEF Right
    <2>5. s = "meta" => cachedBoot'.status = Seen(cachedBoot)'
      BY <1>2, <1>5, <2>2 DEF Continued, Seen
    <2> QED
      BY <1>2, <2>1, <2>2, <2>3, <2>4, <2>5 DEF NothingIsLost
  <1>6. CASE Ended
    <2>1. pass'.stage = "idle"
      BY <1>6, FirstPass DEF Ended
    <2>2. CASE dropped'
      BY <2>1, <2>2 DEF NothingIsLost
    <2>3. CASE pass.stage = "meta" /\ pass.boot.meta = Seen(pass.boot) /\ queued' = queued
      <3>1. /\ pass.boot = cachedBoot
            /\ \A k \in Kinds : pass.stage \in After[k] => Right(k)
            /\ cachedBoot.status = Seen(cachedBoot)
        BY <1>1, <2>3 DEF IInv, NothingIsLost
      <3>2. \A k \in Kinds : Right(k)'
        BY <1>2, <2>3, <3>1 DEF After, Right
      <3>3. cachedBoot'.meta = Seen(cachedBoot)' /\ cachedBoot'.status = Seen(cachedBoot)'
        BY <1>2, <2>3, <3>1 DEF Seen
      <3> QED
        BY <1>2, <1>4, <2>1, <2>3, <3>1, <3>2, <3>3 DEF NothingIsLost
    <2> QED
      BY <1>6, <2>2, <2>3 DEF Ended
  <1> QED
    BY <1>5, <1>6 DEF Outcome

\* A failed call.
LEMMA FailCallLosesNothing ==
    ASSUME IInv, FailCall
    PROVE  NothingIsLost'
  <1>1. LoopOK
    BY BaseParts DEF IInv
  <1>2. pass' = Idle /\ (queued' = TRUE \/ dropped')
    BY <1>1 DEF FailCall, Drop, Done
  <1> QED
    BY <1>2, FirstPass DEF NothingIsLost

\* An object written by anybody but an outsider who strips the other Service
\* leaves that Service with an owner, if there is one.
LEMMA WriteOwned ==
    ASSUME Base, OtherIsOwned(objs), OtherIsOwned(cached), NEW k \in Kinds, NEW o,
           Write(k, o), UNCHANGED views, k = "other" /\ Exists(o) => o.owner # 0
    PROVE  OtherIsOwned(objs)' /\ OtherIsOwned(cached)'
  <1>1. objs' = [objs EXCEPT ![k] = o] /\ objs \in [Kinds -> Object \union {NoObject}]
    BY DEF Write, Base, TypeOK
  <1>2. OtherIsOwned(objs)'
    BY <1>1 DEF OtherIsOwned
  <1> QED
    BY <1>2 DEF OtherIsOwned, views

\* The other Service keeps its owner.
LEMMA OwnedStep ==
    ASSUME IInv, [Next]_vars, "other" \notin Strippable
    PROVE  OtherIsOwned(objs)' /\ OtherIsOwned(cached)'
  <1>1. Base /\ OtherIsOwned(objs) /\ OtherIsOwned(cached)
    BY DEF IInv
  <1>2. ASSUME UNCHANGED objs, UNCHANGED views
        PROVE  OtherIsOwned(objs)' /\ OtherIsOwned(cached)'
    BY <1>1, <1>2 DEF OtherIsOwned, views
  <1>3. ASSUME NEW k \in Kinds, NEW o, Outside(k, o), k = "other" /\ Exists(o) => o.owner # 0
        PROVE  OtherIsOwned(objs)' /\ OtherIsOwned(cached)'
    BY <1>1, <1>3, WriteOwned DEF Outside
  <1>4. ASSUME NEW k \in Kinds, NEW c \in Contents, MakeOutside(k, c)
        PROVE  OtherIsOwned(objs)' /\ OtherIsOwned(cached)'
    <2>1. k # "other"
      BY <1>4 DEF MakeOutside
    <2> QED
      BY <1>3, <1>4, <2>1 DEF MakeOutside
  <1>5. ASSUME NEW k \in Kinds, NEW c \in Contents, ChangeOutside(k, c)
        PROVE  OtherIsOwned(objs)' /\ OtherIsOwned(cached)'
    <2>1. Exists(objs[k]) /\ [objs[k] EXCEPT !.content = c].owner = objs[k].owner
      BY <1>1, <1>5, Arguments DEF ChangeOutside
    <2> QED
      BY <1>1, <1>3, <1>5, <2>1 DEF ChangeOutside, OtherIsOwned
  <1>6. ASSUME NEW k \in Kinds, DeleteOutside(k)
        PROVE  OtherIsOwned(objs)' /\ OtherIsOwned(cached)'
    BY <1>3, <1>6 DEF DeleteOutside, Exists
  <1>7. ASSUME NEW k \in Kinds, StripOwner(k)
        PROVE  OtherIsOwned(objs)' /\ OtherIsOwned(cached)'
    BY <1>3, <1>7 DEF StripOwner
  <1>8. ASSUME PodsChange
        PROVE  OtherIsOwned(objs)' /\ OtherIsOwned(cached)'
    BY <1>3, <1>8 DEF PodsChange
  <1>9. ASSUME NEW k \in Kinds, Collect(k) \/ CollectFirst(k)
        PROVE  OtherIsOwned(objs)' /\ OtherIsOwned(cached)'
    BY <1>1, <1>9, WriteOwned DEF Collect, CollectFirst, Delete, Exists
  <1>10. ASSUME NEW x \in Everything, Sync(x)
         PROVE  OtherIsOwned(objs)' /\ OtherIsOwned(cached)'
    <2>1. objs' = objs
      BY <1>10 DEF Sync
    <2>2. CASE x = "boot"
      BY <1>1, <1>10, <2>1, <2>2 DEF Sync, OtherIsOwned
    <2>3. CASE x \in Kinds
      <3>1. cached' = [cached EXCEPT ![x] = objs[x]]
        BY <1>10, <2>3 DEF Sync
      <3>2. cached'["other"] \in {cached["other"], objs["other"]}
        BY <1>1, <2>3, <3>1 DEF Base, TypeOK
      <3> QED
        BY <1>1, <2>1, <3>2 DEF OtherIsOwned
    <2> QED
      BY <2>2, <2>3
  <1>11. ASSUME Work
         PROVE  OtherIsOwned(objs)' /\ OtherIsOwned(cached)'
    <2>1. CASE Start
      BY <1>2, <2>1 DEF Start, NoWrite
    <2>2. CASE Step /\ UNCHANGED <<uids, views, counters>>
      <3>1. CASE \E k \in Kinds, o \in Object \union {NoObject} : ObjectWrite(k, o)
        BY <1>1, <2>2, <3>1, WriteOwned DEF ObjectWrite
      <3>2. CASE objs' = objs
        BY SMTT(30), <1>2, <2>2, <3>2
      <3> QED
        BY <1>1, <2>2, <3>1, <3>2, StepOutcome DEF Outcome, Writes, NoWrite
    <2> QED
      BY <1>11, <2>1, <2>2 DEF Work
  <1>12. CASE \/ \E s \in Specs, d \in BOOLEAN : CreateBoot(s, d) \/ EditBoot(s, d)
              \/ DeleteBoot \/ MarkBoot \/ Finalize \/ FailCall \/ UNCHANGED vars
    BY <1>2, <1>12 DEF CreateBoot, EditBoot, DeleteBoot, MarkBoot, Finalize, UserWrites,
       FailCall, NoWrite, vars, views
  <1>13. CASE Restart
    BY <1>1, <1>13 DEF Restart, OtherIsOwned
  <1> QED
    BY <1>4, <1>5, <1>6, <1>7, <1>8, <1>9, <1>10, <1>11, <1>12, <1>13 DEF Next

\* Every step keeps the inductive invariant.
LEMMA IInvStep ==
    ASSUME IInv, [Next]_vars, "other" \notin Strippable
    PROVE  IInv'
  <1>1. Base
    BY DEF IInv
  <1>2. Base'
    BY <1>1, BaseStep
  <1>3. OtherIsOwned(objs)' /\ OtherIsOwned(cached)'
    BY OwnedStep
  <1>4. NothingIsLost'
    <2>1. ASSUME NEW b, UserWrites(b) PROVE NothingIsLost'
      BY <2>1, NotifiedLoseNothing DEF UserWrites, WriteBoot
    <2>2. ASSUME NEW k \in Kinds, NEW o, Write(k, o), UNCHANGED <<boot, queued, pass, dropped, views>>
          PROVE  NothingIsLost'
      BY <2>2, OthersLoseNothing DEF Write, IInv
    <2>3. ASSUME NEW k \in Kinds, NEW o, Outside(k, o) PROVE NothingIsLost'
      BY <2>2, <2>3 DEF Outside
    <2>4. CASE \/ \E s \in Specs, d \in BOOLEAN : CreateBoot(s, d) \/ EditBoot(s, d)
               \/ DeleteBoot \/ MarkBoot
      BY <2>1, <2>4 DEF CreateBoot, EditBoot, DeleteBoot, MarkBoot
    <2>5. CASE \/ \E k \in Kinds, c \in Contents : MakeOutside(k, c) \/ ChangeOutside(k, c)
               \/ \E k \in Kinds : DeleteOutside(k) \/ StripOwner(k)
               \/ PodsChange
      BY <2>3, <2>5 DEF MakeOutside, ChangeOutside, DeleteOutside, StripOwner, PodsChange
    <2>6. ASSUME NEW k \in Kinds, Collect(k) \/ CollectFirst(k) PROVE NothingIsLost'
      BY <2>2, <2>6 DEF Collect, CollectFirst, Delete
    <2>10. CASE Finalize
      BY <2>10, NotifiedLoseNothing DEF Finalize, WriteBoot
    <2>7. ASSUME Work PROVE NothingIsLost'
      BY <1>1, <2>7, StartLosesNothing, StepOutcome, StageLosesNothing DEF Work
    <2>8. CASE Restart
      BY <2>8, NotifiedLoseNothing DEF Restart
    <2>9. CASE UNCHANGED vars
      BY <2>9, OthersLoseNothing DEF vars, views, IInv
    <2> QED
      BY <2>4, <2>5, <2>6, <2>7, <2>8, <2>9, <2>10, SyncLosesNothing, FailCallLosesNothing
         DEF Next
  <1> QED
    BY <1>2, <1>3, <1>4 DEF IInv

\* The inductive invariant holds in every reachable state.
THEOREM Invariance ==
    ASSUME "other" \notin Strippable
    PROVE  Spec => []IInv
  <1>1. Init => IInv
    <2> SUFFICES ASSUME Init PROVE IInv
      OBVIOUS
    <2>1. Base
      BY InitBase
    <2>2. OtherIsOwned(objs) /\ OtherIsOwned(cached) /\ NothingIsLost
      BY FirstPass DEF Init, OtherIsOwned, Exists, NothingIsLost
    <2> QED
      BY <2>1, <2>2 DEF IInv
  <1>2. IInv /\ [Next]_vars => IInv'
    BY IInvStep
  <1> QED
    BY <1>1, <1>2, PTL DEF Spec

\* The operator never comes to rest on undone work: with no event on its way,
\* no name in the queue and no pass, a Boot that nobody deletes has what it asks
\* for and says so, unless the last pass ended on the failed creation of a Service.
THEOREM RestIsSettled ==
    ASSUME "other" \notin Strippable
    PROVE  Spec => []QuietIsSettled
  <1>1. ASSUME IInv PROVE QuietIsSettled
    <2> SUFFICES ASSUME boot # NoBoot, ~boot.marked, Quiet, ~dropped PROVE Settled
      BY DEF QuietIsSettled, Stays
    <2>1. notify = {} /\ ~queued /\ pass.stage = "idle"
      BY DEF Quiet
    <2>2. cachedBoot = boot /\ boot \in Boot
      BY <1>1, <2>1 DEF IInv, Base, TypeOK, ChangesAreNotified, FreshIsCurrent
    <2>3. /\ \A k \in Kinds : Right(k)
          /\ boot.defaulted
          /\ boot.status = Seen(boot) /\ boot.meta = Seen(boot)
      BY <1>1, <2>1, <2>2 DEF IInv, NothingIsLost
    <2>4. \A k \in Kinds : cached[k] = objs[k]
      <3>1. \A k \in Kinds : k \in fresh
        BY <1>1, <2>1, <2>2, <2>3, RightIsFresh
      <3> QED
        BY <1>1, <3>1 DEF IInv, Base, FreshIsCurrent
    <2>5. ASSUME NEW k \in Kinds
          PROVE  /\ objs[k].content = boot.spec[k]
                 /\ k # "other" /\ Exists(objs[k]) => objs[k].owner = boot.uid
      BY <2>2, <2>3, <2>4, <2>5 DEF Right, Quiet
    <2>6. Seen(boot) = Observed
      BY <2>4 DEF Seen, Observed
    <2> QED
      BY <2>3, <2>5, <2>6 DEF Settled
  <1> QED
    BY <1>1, Invariance, PTL

----------------------------------------------------------------------------
(* What is in place stays, whatever the informers show of the objects *)

\* A stage that spares the objects writes nothing, or the Boot as good as before.
Spares ==
    \/ NoWrite
    \/ \E b \in Boot : WriteBoot(b) /\ objs' = objs /\ SameBoot(b) /\ b.marked = boot.marked

\* With everything in place, what the pass wants is what there is.
LEMMA PlaceFacts ==
    ASSUME Base, InPlace, pass.stage # "idle", NEW k \in Kinds
    PROVE  /\ Wanted(k) = objs[k].content
           /\ Exists(objs[k]) <=> Wanted(k) # Absent
           /\ k \in Required => Exists(objs[k])
           /\ k \in fresh => cached[k] = objs[k]
           /\ k # "other" /\ Exists(objs[k]) => objs[k].owner # 0
  <1>1. /\ SameBoot(pass.boot)
        /\ objs[k].content = boot.spec[k]
        /\ k # "other" /\ Exists(objs[k]) => objs[k].owner = boot.uid
    BY DEF InPlace
  <1>2. /\ pass.boot \in Boot /\ pass.boot.uid # 0
        /\ k \in Required => Wanted(k) \in Contents
        /\ objs[k] \in Object \union {NoObject}
    BY InPass
  <1>3. Wanted(k) = objs[k].content /\ boot.uid # 0
    BY <1>1, <1>2 DEF SameBoot, Wanted
  <1>4. Exists(objs[k]) <=> objs[k].content # Absent
    <2>1. Absent \notin Contents
      BY ContentsAssumption
    <2>2. ASSUME objs[k] \in Object PROVE objs[k].content # Absent /\ Exists(objs[k])
      <3>1. objs[k].content \in Contents
        BY <2>2 DEF Object
      <3> QED
        BY <2>1, <3>1 DEF Exists, NoObject
    <2>3. ASSUME objs[k] = NoObject PROVE objs[k].content = Absent /\ ~Exists(objs[k])
      BY <2>3 DEF Exists, NoObject
    <2> QED
      BY <1>2, <2>2, <2>3
  <1>5. k \in fresh => cached[k] = objs[k]
    BY DEF Base, FreshIsCurrent
  <1>6. k \in Required => Exists(objs[k])
    BY <1>2, <1>3, <1>4, ContentsAssumption
  <1> QED
    BY <1>1, <1>3, <1>4, <1>5, <1>6

\* An object that is in place and shown as it is needs no update.
LEMMA UpToDate ==
    ASSUME Base, InPlace, pass.stage # "idle", NEW k \in Required, k \in fresh
    PROVE  cached[k] = Updated(k)
  <1>1. k \in Kinds /\ k # "other"
    BY DEF Required, Kinds
  <1>2. /\ cached[k] = objs[k] /\ Exists(objs[k])
        /\ Wanted(k) = cached[k].content /\ cached[k].owner # 0
    BY <1>1, PlaceFacts
  <1>3. cached[k] \in Object
    BY <1>1, <1>2, InPass DEF Exists
  <1> QED
    BY <1>2, <1>3 DEF Updated, Object

\* Creating finds the objects there; updating finds them right, or is refused.
LEMMA CreateAndUpdateSpare ==
    ASSUME Base, InPlace, pass.stage # "idle",
           \/ CreateWorkload \/ CreateService \/ CreateOther
           \/ UpdateWorkload \/ UpdateService
    PROVE  NoWrite
  <1>1. "workload" \in Required /\ "service" \in Required /\ Required \subseteq Kinds
    BY DEF Required, Kinds
  <1>2. Exists(objs["workload"]) /\ Exists(objs["service"])
    BY <1>1, PlaceFacts
  <1>3. CASE CreateWorkload
    BY <1>2, <1>3 DEF CreateWorkload
  <1>4. CASE CreateService
    BY <1>2, <1>4 DEF CreateService
  <1>5. CASE CreateOther
    <2>1. "other" \in Kinds /\ pass.boot.spec["other"] # Absent
      BY <1>5 DEF CreateOther, Base, PassInOrder, Kinds
    <2>2. Exists(objs["other"])
      BY <2>1, PlaceFacts DEF Wanted
    <2> QED
      BY <1>5, <2>2 DEF CreateOther
  <1>6. CASE UpdateWorkload
    <2>1. "workload" \in fresh => cached["workload"] = Updated("workload")
      BY <1>1, UpToDate
    <2> QED
      BY <1>6, <2>1 DEF UpdateWorkload
  <1>7. CASE UpdateService
    <2>1. "service" \in fresh => cached["service"] = Updated("service")
      BY <1>1, UpToDate
    <2> QED
      BY <1>7, <2>1 DEF UpdateService
  <1> QED
    BY <1>3, <1>4, <1>5, <1>6, <1>7

\* The other Service and the autoscaler are neither made, deleted nor changed.
LEMMA SustainSpares ==
    ASSUME Base, InPlace, pass.stage # "idle", NEW k \in Kinds, NEW repaired \in BOOLEAN,
           NEW next, repaired => k # "other", Sustain(k, repaired, next)
    PROVE  NoWrite
  <1>1. /\ Wanted(k) = objs[k].content
        /\ Exists(objs[k]) <=> Wanted(k) # Absent
        /\ k \in fresh => cached[k] = objs[k]
        /\ k # "other" /\ Exists(objs[k]) => objs[k].owner # 0
    BY PlaceFacts
  <1>2. CASE Exists(cached[k]) /\ Wanted(k) # Absent
             /\ (cached[k].content # Wanted(k) \/ (repaired /\ cached[k].owner = 0))
    <2>1. k \notin fresh
      BY <1>1, <1>2
    <2> QED
      BY <1>2, <2>1 DEF Sustain
  <1>3. CASE ~(Exists(cached[k]) /\ Wanted(k) # Absent
               /\ (cached[k].content # Wanted(k) \/ (repaired /\ cached[k].owner = 0)))
    BY <1>1, <1>3 DEF Sustain
  <1> QED
    BY <1>2, <1>3

\* A report written to the Boot leaves what it asks for as it is.
LEMMA ReportsSpare ==
    ASSUME Base, InPlace, pass.stage # "idle", UpdateStatus \/ UpdateMeta, Outcome
    PROVE  Spares
  <1>1. boot # NoBoot /\ SameBoot(boot)
    BY DEF InPlace, Stays
  <1>2. CASE NoWrite
    BY <1>2 DEF Spares
  <1>3. ASSUME NEW r, WriteBoot([boot EXCEPT !.status = r]) \/ WriteBoot([boot EXCEPT !.meta = r]),
               objs' = objs
        PROVE  Spares
    <2>1. boot \in Boot
      BY <1>1 DEF Base, TypeOK
    <2>2. boot' = [boot EXCEPT !.status = r] \/ boot' = [boot EXCEPT !.meta = r]
      BY <1>3 DEF WriteBoot
    <2>3. /\ boot'.uid = boot.uid /\ boot'.spec = boot.spec
          /\ boot'.defaulted = boot.defaulted /\ boot'.marked = boot.marked
      BY <2>1, <2>2 DEF Boot
    <2>4. SameBoot(boot')
      BY <1>1, <2>3 DEF SameBoot
    <2>5. boot' \in Boot
      <3>1. boot' # boot \/ boot' = boot
        OBVIOUS
      <3>2. CASE NoWrite
        BY <2>1, <3>2 DEF NoWrite
      <3>3. CASE \E b \in Boot : WriteBoot(b)
        BY <3>3 DEF WriteBoot
      <3>4. CASE \E k \in Kinds, o \in Object \union {NoObject} : ObjectWrite(k, o)
        BY <2>1, <3>4 DEF ObjectWrite
      <3> QED
        BY <3>2, <3>3, <3>4 DEF Outcome, Writes
    <2>6. WriteBoot(boot')
      BY <1>3, <2>2 DEF WriteBoot
    <2> QED
      BY <1>3, <2>3, <2>4, <2>5, <2>6 DEF Spares
  <1> QED
    BY <1>2, <1>3 DEF UpdateStatus, UpdateMeta

\* No stage of a pass touches what is in place.
LEMMA StepSpares ==
    ASSUME Base, InPlace, Step
    PROVE  Spares
  <1>1. pass.stage # "idle" /\ Outcome
    BY StepOutcome
  <1>2. ~UpdateDefaults
    BY <1>1 DEF UpdateDefaults, InPlace, SameBoot, Base, PassInOrder
  <1>3. CASE UpdateOther \/ UpdateHpa
    <2>1. "other" \in Kinds /\ "hpa" \in Kinds
      BY DEF Kinds
    <2>2. NoWrite
      BY <1>1, <1>3, <2>1, SustainSpares DEF UpdateOther, UpdateHpa
    <2> QED
      BY <2>2 DEF Spares
  <1> QED
    BY <1>1, <1>2, <1>3, CreateAndUpdateSpare, ReportsSpare DEF Step, Spares

\* The parts of InPlace about the informer and the pass follow the Boot.
LEMMA PlaceKept ==
    ASSUME InPlace, boot' # NoBoot, ~boot'.marked, boot'.uid = boot.uid, boot'.spec = boot.spec,
           boot'.defaulted, objs' = objs,
           cachedBoot' \in {cachedBoot, boot},
           pass'.stage # "idle" => pass'.boot = cachedBoot
                                   \/ (pass.stage # "idle" /\ pass'.boot = pass.boot)
    PROVE  InPlace'
  BY DEF InPlace, Stays, SameBoot

\* A step that nobody from outside takes keeps what is in place.
LEMMA PlaceStep ==
    ASSUME Base, InPlace, [Next]_vars, UNCHANGED <<edits, outside>>
    PROVE  InPlace' /\ UNCHANGED objs /\ fresh \intersect Kinds \subseteq fresh'
  <1>1. /\ boot # NoBoot /\ ~boot.marked /\ SameBoot(boot)
        /\ edits' # edits + 1 /\ outside' # outside + 1
    <2>1. edits \in Nat /\ outside \in Nat /\ edits' = edits /\ outside' = outside
      BY DEF Base, TypeOK
    <2>2. edits' # edits + 1 /\ outside' # outside + 1
      BY SMTT(30), <2>1
    <2> QED
      BY <2>2 DEF InPlace, Stays
  <1>2. /\ ~ \E s \in Specs, d \in BOOLEAN : CreateBoot(s, d) \/ EditBoot(s, d)
        /\ ~DeleteBoot /\ ~MarkBoot /\ ~Finalize
    BY <1>1 DEF CreateBoot, EditBoot, DeleteBoot, MarkBoot, Finalize, UserWrites
  <1>3. /\ ~ \E k \in Kinds, c \in Contents : MakeOutside(k, c) \/ ChangeOutside(k, c)
        /\ ~ \E k \in Kinds : DeleteOutside(k) \/ StripOwner(k)
        /\ ~PodsChange
    BY <1>1 DEF MakeOutside, ChangeOutside, DeleteOutside, StripOwner, PodsChange, Outside
  <1>4. ~ \E k \in Kinds : Collect(k) \/ CollectFirst(k)
    BY <1>1 DEF Collect, CollectFirst, InPlace
  <1>5. ASSUME NEW x \in Everything, Sync(x)
        PROVE  InPlace' /\ UNCHANGED objs /\ fresh \intersect Kinds \subseteq fresh'
    <2>1. /\ boot' = boot /\ objs' = objs /\ pass' = pass /\ fresh' = fresh \union {x}
          /\ cachedBoot' \in {cachedBoot, boot}
      BY <1>5 DEF Sync
    <2>2. InPlace'
      BY <1>1, <2>1 DEF InPlace, Stays, SameBoot
    <2> QED
      BY <2>1, <2>2
  <1>6. ASSUME Start PROVE InPlace' /\ UNCHANGED objs /\ fresh \intersect Kinds \subseteq fresh'
    <2>1. boot' = boot /\ objs' = objs /\ fresh' = fresh /\ cachedBoot' = cachedBoot
      BY <1>6 DEF Start, NoWrite, views
    <2>2. pass'.stage # "idle" => pass'.boot = cachedBoot
      BY <1>6 DEF Start, Idle
    <2>3. InPlace'
      BY <1>1, <2>1, <2>2, PlaceKept DEF SameBoot
    <2> QED
      BY <2>1, <2>3
  <1>7. ASSUME Step, UNCHANGED views
        PROVE  InPlace' /\ UNCHANGED objs /\ fresh \intersect Kinds \subseteq fresh'
    <2>1. Outcome /\ pass.stage # "idle" /\ Spares /\ cachedBoot' = cachedBoot /\ pass \in Pass
      BY <1>7, StepOutcome, StepSpares DEF views, Base, TypeOK
    <2>2. pass'.stage # "idle" => pass'.boot = pass.boot
      <3>1. CASE Ended
        BY <3>1 DEF Ended, Idle
      <3>2. ASSUME NEW s \in Stages, Continued(s) PROVE pass'.boot = pass.boot
        BY <2>1, <3>2 DEF Continued, Pass
      <3> QED
        BY <2>1, <3>1, <3>2 DEF Outcome
    <2>3. /\ objs' = objs /\ fresh \ {"boot"} \subseteq fresh'
          /\ boot' # NoBoot /\ ~boot'.marked
          /\ boot'.uid = boot.uid /\ boot'.spec = boot.spec /\ boot'.defaulted
      <3>1. CASE NoWrite
        BY <1>1, <3>1 DEF NoWrite, SameBoot
      <3>2. CASE \E b \in Boot : /\ WriteBoot(b) /\ objs' = objs
                                  /\ SameBoot(b) /\ b.marked = boot.marked
        <4>1. NoBoot \notin Boot
          BY DEF Boot, NoBoot
        <4> QED
          BY <1>1, <3>2, <4>1 DEF WriteBoot, SameBoot
      <3> QED
        BY <2>1, <3>1, <3>2 DEF Spares
    <2>4. InPlace'
      BY <2>1, <2>2, <2>3, PlaceKept
    <2>5. "boot" \notin Kinds
      BY DEF Kinds
    <2> QED
      BY <2>3, <2>4, <2>5
  <1>8. ASSUME FailCall PROVE InPlace' /\ UNCHANGED objs /\ fresh \intersect Kinds \subseteq fresh'
    <2>1. /\ boot' = boot /\ objs' = objs /\ fresh' = fresh /\ cachedBoot' = cachedBoot
          /\ pass' = Idle
      BY <1>8 DEF FailCall, NoWrite, views, Drop, Done
    <2>2. InPlace'
      BY <1>1, <2>1, PlaceKept DEF SameBoot, Idle
    <2> QED
      BY <2>1, <2>2
  <1>9. ASSUME Restart PROVE InPlace' /\ UNCHANGED objs /\ fresh \intersect Kinds \subseteq fresh'
    <2>1. /\ boot' = boot /\ objs' = objs /\ fresh' = Everything /\ cachedBoot' = boot
          /\ pass' = Idle
      BY <1>9 DEF Restart
    <2>2. InPlace'
      BY <1>1, <2>1, PlaceKept DEF SameBoot, Idle
    <2> QED
      BY <2>1, <2>2 DEF Everything
  <1>10. CASE UNCHANGED vars
    BY <1>10 DEF vars, InPlace, Stays, SameBoot
  <1> QED
    BY <1>2, <1>3, <1>4, <1>5, <1>6, <1>7, <1>8, <1>9, <1>10 DEF Next, Work

\* What is right is left alone, for every Boot, every staleness of the informers
\* and any number of failures: the stages of a pass never work against each
\* other or against an object they have not seen as it is.
THEOREM RightIsLeftAlone == Spec => InPlaceStays
  BY BaseInvariance, PlaceStep, PTL DEF Spec, InPlaceStays

=============================================================================
