----------------------------- MODULE BootObjects -----------------------------
(***************************************************************************)
(* What the operator compares of the objects it made for a Boot, field by  *)
(* field, and what it writes when a field differs.                         *)
(*                                                                         *)
(* The stages of BootReconcile, with the contents that module leaves out:  *)
(* the claims recorded on the Boot, the workload's pod template, the       *)
(* Service, the other Services and the autoscaler.  Comparing and building *)
(* are different code, so an object just built may still be found to       *)
(* differ.  Here every read is of the latest version and no call fails:    *)
(* staleness, failures, deletion and owners of the other Services are in   *)
(* BootReconcile.                                                          *)
(*                                                                         *)
(* Abstractions.  Version, environment, resources, node selector, command  *)
(* and priority are one value, plain: each is compared as a whole and      *)
(* taken from the Boot unless the configuration overrides it.  What means  *)
(* the same may be spelled differently (an empty list or none, 1000m or    *)
(* 1).  The API server stores objects canonically, and a Boot as the       *)
(* mutating webhook or the operator marshals it, which is canonical; or as *)
(* the user wrote it, when that webhook fails and its failures are ignored *)
(* (deploy/webhook-auto.yaml).  One sidecar with at most one port.         *)
(***************************************************************************)
EXTENDS Integers

CONSTANTS
    Values,     \* values of plain and of an autoscaler's bounds
    Registries, \* where images come from
    Ports,      \* ports of containers
    NodePorts,  \* ports the API server exposes on the nodes
    Paths,      \* paths of probes
    Places,     \* where a volume is mounted
    Stamps,     \* restart times
    Metrics,    \* metrics an autoscaler looks at: a name and a target
    Claims,     \* volume claims of users
    OwnVolumes, \* volumes of the configuration
    Managed,    \* volumes whose claim exists and is shared or the Boot's own
    Configs,    \* configurations
    Boots,      \* Boots users create
    Bypassed,   \* whether failures of the mutating webhook are ignored
    None,       \* no value
    MaxDisturbances  \* bound: edits, new configurations, steps of others on the objects

Volumes == Claims \union OwnVolumes

Mounts == [Volumes -> Places \union {None}]
ClaimMounts == [Claims -> Places \union {None}]
NoMounts == [v \in Volumes |-> None]
NoClaims == [v \in Claims |-> None]

\* override: a value of plain the configuration's container or pod sets.
Config == [registry: Registries, override: Values \union {None},
           sidecar: Ports \union {None}, mounts: [OwnVolumes -> Places \union {None}]]

Hpa == [bounds: Values, metrics: SUBSET Metrics]

\* canonical: spelled the way the API server spells it.  recorded and mounts:
\* the annotations with the claims and with what is to be mounted for them.
Boot == [plain: Values, canonical: BOOLEAN, replicas: Values, port: Ports,
         health: Paths \union {None}, readiness: Paths \union {None},
         claims: ClaimMounts, affinity: {"None", "ClientIP"}, scrape: BOOLEAN,
         nodePort: BOOLEAN, hpa: Hpa \union {None}, restartedAt: Stamps \union {None},
         recorded: ClaimMounts, mounts: Mounts]

Workload == [owned: BOOLEAN, replicas: Values, image: Registries, plain: Values,
             port: Ports, liveness: Paths \union {None}, readiness: Paths \union {None},
             mounts: Mounts, restartedAt: Stamps \union {None},
             sidecar: Ports \union {None}]

Annotations == [port: Ports \union {None}, scrape: BOOLEAN]

Service == [owned: BOOLEAN, port: Ports, target: Ports,
            annotations: Annotations \union {None}, affinity: {"None", "ClientIP"}]

\* The node-port Service, and the sidecar's.
OtherKinds == {"external", "sidecar"}
Other == [port: Ports \union NodePorts, target: Ports, nodePort: NodePorts \union {None},
          annotations: Annotations \union {None}, affinity: {"None", "ClientIP"}]

Autoscaler == [owned: BOOLEAN, bounds: Values, metrics: SUBSET Metrics]

ASSUME DistinctAssumption ==
    /\ None \notin Values /\ None \notin Ports /\ None \notin NodePorts
    /\ None \notin Paths /\ None \notin Places /\ None \notin Stamps
    /\ None \notin Hpa /\ None \notin Annotations /\ None \notin Workload
    /\ None \notin Service /\ None \notin Other /\ None \notin Autoscaler
    /\ Claims \intersect OwnVolumes = {}
ASSUME ConfigsAssumption == Configs # {} /\ Configs \subseteq Config
ASSUME BootsAssumption ==
    /\ Boots # {} /\ Boots \subseteq Boot
    /\ \A b \in Boots : b.recorded = NoClaims /\ b.mounts = NoMounts
ASSUME BoundsAssumption == MaxDisturbances \in Nat /\ Bypassed \in BOOLEAN

VARIABLES
    boot,       \* the Boot
    config,     \* the configuration in use
    workload,   \* the Deployment or StatefulSet
    service,    \* the Service
    others,     \* the other Services, by kind
    autoscaler, \* the HorizontalPodAutoscaler
    queued,     \* the Boot's name is in the work queue, or an event on its way
    pass,       \* the worker's pass
    overlooked, \* history: parts others changed that no comparison looks at by itself
    disturbances  \* counter for the bound

objects == <<workload, service, others, autoscaler>>
vars == <<boot, config, objects, queued, pass, overlooked, disturbances>>

Stages == {"idle", "record", "workload", "service", "others", "hpa"}

\* The Boot and the configuration a pass works with are those it started with.
Pass == [stage: Stages, boot: Boot, config: Config]

\* The Service's target and whether it is scraped, and the annotations of the others.
Overlooked == {"target", "scrape"} \union OtherKinds

Init ==
    /\ boot \in Boots
    /\ config \in Configs
    /\ workload = None /\ service = None /\ autoscaler = None
    /\ others = [k \in OtherKinds |-> None]
    /\ queued = TRUE
    /\ pass = [stage |-> "idle", boot |-> boot, config |-> config]
    /\ overlooked = {}
    /\ disturbances = 0

----------------------------------------------------------------------------
(* What the operator builds *)

\* What is mounted: the configuration's volumes, and the Boot's claims.
MountsOf(b, c) ==
    [v \in Volumes |-> IF v \in Claims THEN b.claims[v] ELSE c.mounts[v]]

\* Without a health check there is no readiness check either.
ReadinessProbe(b) ==
    IF b.health = None THEN None
    ELSE IF b.readiness # None THEN b.readiness ELSE b.health

NewWorkload(b, c) ==
    [owned |-> TRUE, replicas |-> b.replicas, image |-> c.registry,
     plain |-> IF c.override # None THEN c.override ELSE b.plain,
     port |-> b.port, liveness |-> b.health, readiness |-> ReadinessProbe(b),
     mounts |-> MountsOf(b, c), restartedAt |-> b.restartedAt, sidecar |-> c.sidecar]

ServiceAnnotation(scrape, port) ==
    IF scrape THEN [port |-> port, scrape |-> TRUE] ELSE None

NewService(b) ==
    [owned |-> TRUE, port |-> b.port, target |-> b.port,
     annotations |-> ServiceAnnotation(b.scrape, b.port), affinity |-> b.affinity]

\* The other Services there should be, given the workload's template.
Expected(b, w) ==
    (IF b.nodePort THEN {"external"} ELSE {})
        \union (IF w.sidecar # None THEN {"sidecar"} ELSE {})

\* nodePort is None: for the API server to choose, or not to.
NewOther(k, b, w) ==
    LET port == IF k = "external" THEN b.port ELSE w.sidecar
    IN [port |-> port, target |-> port, nodePort |-> None,
        annotations |-> ServiceAnnotation(k = "sidecar", port), affinity |-> b.affinity]

\* The API server gives a node-port Service a port of the nodes when it has none.
Stored(k, o, chosen) ==
    IF k = "external" /\ o.nodePort = None THEN [o EXCEPT !.nodePort = chosen] ELSE o

----------------------------------------------------------------------------
(* What it compares *)

\* A difference of mounts counts only when the claim of that name exists and is
\* shared or the Boot's own; with nothing recorded, none does.
RemountDue(w, b) ==
    /\ b.mounts # NoMounts
    /\ \E v \in Managed : w.mounts[v] # b.mounts[v]

\* The readiness path the template should have.  Mutant: whatever the health.
ReadinessAskedAlways(b) == IF b.readiness # None THEN b.readiness ELSE b.health

ReadinessAsked(b) ==
    IF b.readiness # None /\ b.health # None THEN b.readiness ELSE b.health

\* The whole spec is built anew.
RebuildDue(w, b, c) ==
    \/ w.image # c.registry
    \/ w.plain # b.plain \/ ~b.canonical
    \/ w.port # b.port
    \/ w.liveness # b.health
    \/ w.readiness # ReadinessAsked(b)
    \/ RemountDue(w, b)

\* Owner, replicas and restart time are set one by one.
Adjusted(w, b) ==
    [w EXCEPT !.owned = TRUE, !.replicas = b.replicas,
              !.restartedAt = IF b.restartedAt # None THEN b.restartedAt ELSE @]

\* Annotations of others survive as long as the Boot is to be scraped, and then
\* only their port is looked at.
UpdatedAnnotations(a, b) ==
    LET present == IF a = None THEN ServiceAnnotation(b.scrape, b.port) ELSE a
    IN IF present = None \/ ~b.scrape THEN None ELSE [present EXCEPT !.port = b.port]

\* Mutant: the affinity is set, but never taken back.
UpdatedServiceOnce(s, b) ==
    LET moved == IF s.port # b.port THEN [s EXCEPT !.port = b.port, !.target = b.port] ELSE s
    IN [moved EXCEPT !.owned = TRUE, !.annotations = UpdatedAnnotations(@, b),
                     !.affinity = IF b.affinity # "None" THEN b.affinity ELSE @]

\* The target follows the port; alone it is not looked at.
UpdatedService(s, b) ==
    LET moved == IF s.port # b.port THEN [s EXCEPT !.port = b.port, !.target = b.port] ELSE s
    IN [moved EXCEPT !.owned = TRUE, !.annotations = UpdatedAnnotations(@, b),
                     !.affinity = b.affinity]

\* Another target: the ports are replaced, and the node's port is given up,
\* unless it differs from the Service's port: then both become the node's one.
\* Mutants: it is given up then, too; the node's port becomes the target.
UpdatedPortsAnew(k, o, e) ==
    LET replaced == IF o.target # e.target THEN e ELSE o
    IN IF k = "external"
       THEN IF o.nodePort # o.port
            THEN [port |-> o.nodePort, target |-> replaced.target, nodePort |-> None]
            ELSE [port |-> replaced.port, target |-> replaced.target, nodePort |-> replaced.nodePort]
       ELSE [port |-> e.port, target |-> e.target, nodePort |-> None]

UpdatedPortsSwapped(k, o, e) ==
    IF k = "external" /\ o.nodePort # o.port
    THEN [port |-> o.port, target |-> o.nodePort, nodePort |-> o.nodePort]
    ELSE [port |-> e.port, target |-> e.target, nodePort |-> o.nodePort]

UpdatedPorts(k, o, e) ==
    LET replaced == IF o.target # e.target THEN e ELSE o
    IN IF k = "external"
       THEN IF o.nodePort # o.port
            THEN [port |-> o.nodePort, target |-> replaced.target, nodePort |-> o.nodePort]
            ELSE [port |-> replaced.port, target |-> replaced.target, nodePort |-> replaced.nodePort]
       ELSE [port |-> e.port, target |-> e.target, nodePort |-> None]

\* When target and node's port both differ, the ports are shared with what is
\* expected, and the port the annotation is compared with is the node's.
ComparedPort(k, o, e) ==
    IF k = "external" /\ o.target # e.target /\ o.nodePort # o.port THEN o.nodePort ELSE e.port

UpdatedOther(k, o, e) ==
    LET ports == UpdatedPorts(k, o, e)
        present == IF o.annotations = None THEN e.annotations ELSE o.annotations
    IN [port |-> ports.port, target |-> ports.target, nodePort |-> ports.nodePort,
        annotations |-> IF present # None /\ present.port # ComparedPort(k, o, e)
                        THEN e.annotations ELSE present,
        affinity |-> e.affinity]

\* Every pair of metrics of one name is compared.
MetricsDiffer(asked, found) ==
    \/ \E m \in asked : \A n \in found : n.name # m.name
    \/ \E n \in found : \A m \in asked : n.name # m.name
    \/ \E m \in asked, n \in found : m.name = n.name /\ m # n

----------------------------------------------------------------------------
(* A pass *)

Done(requeue) ==
    /\ pass' = [pass EXCEPT !.stage = "idle"]
    /\ queued' = (queued \/ requeue)

GoOn(stage) ==
    /\ pass' = [pass EXCEPT !.stage = stage]
    /\ UNCHANGED queued

Start ==
    /\ queued
    /\ pass.stage = "idle"
    /\ queued' = FALSE
    /\ pass' = [stage |-> "record", boot |-> boot, config |-> config]
    /\ UNCHANGED <<boot, objects, overlooked>>

\* The claims recorded on the Boot, with what is mounted for them: anew when they
\* changed, or were none.  Mutant: only when there were none.
RecordDueOnce(b) == b.recorded = NoClaims

RecordDue(b) == b.recorded = NoClaims \/ b.recorded # b.claims

\* The write stores the Boot as the operator spells it; on a conflict, again.
RecordClaims ==
    /\ pass.stage = "record"
    /\ LET b == pass.boot
           updated == IF RecordDue(b)
                      THEN [b EXCEPT !.recorded = b.claims, !.mounts = MountsOf(b, pass.config)]
                      ELSE b
       IN \/ /\ updated # b
             /\ boot' = IF boot = b THEN [updated EXCEPT !.canonical = TRUE] ELSE boot
             /\ Done(TRUE)
          \/ /\ updated = b
             /\ UNCHANGED boot
             /\ GoOn("workload")
    /\ UNCHANGED <<objects, overlooked>>

\* Everything is created at once: nobody deletes it here.
Create ==
    /\ pass.stage = "workload"
    /\ workload = None
    /\ LET b == pass.boot
           new == NewWorkload(b, pass.config)
       IN /\ workload' = new
          /\ service' = NewService(b)
          /\ \E chosen \in NodePorts :
                others' = [k \in OtherKinds |->
                    IF k \in Expected(b, new) THEN Stored(k, NewOther(k, b, new), chosen) ELSE None]
    /\ Done(TRUE)
    /\ UNCHANGED <<boot, autoscaler, overlooked>>

UpdateWorkload ==
    /\ pass.stage = "workload"
    /\ workload # None
    /\ LET b == pass.boot
           rebuild == RebuildDue(workload, b, pass.config)
           adjusted == Adjusted(workload, b)
       IN \/ /\ rebuild
             /\ workload' = [NewWorkload(b, pass.config) EXCEPT !.owned = adjusted.owned]
             /\ Done(TRUE)
          \/ /\ ~rebuild /\ adjusted # workload
             /\ workload' = adjusted
             /\ Done(TRUE)
          \/ /\ ~rebuild /\ adjusted = workload
             /\ UNCHANGED workload
             /\ GoOn("service")
    /\ UNCHANGED <<boot, service, others, autoscaler, overlooked>>

\* The annotations are of the kind the operator makes: of a Service, if any, and
\* of the others.
Scraped(s) == s.annotations # None => s.annotations.scrape
Annotated(k, o) == IF k = "sidecar" THEN o.annotations # None /\ o.annotations.scrape
                   ELSE o.annotations = None

\* The pass goes on after the write, whose event brings the next one.
UpdateService ==
    /\ pass.stage = "service"
    /\ service' = UpdatedService(service, pass.boot)
    /\ pass' = [pass EXCEPT !.stage = "others"]
    /\ queued' = (queued \/ service' # service)
    /\ overlooked' = {x \in overlooked : (x = "target" => service'.target # service'.port)
                                          /\ (x = "scrape" => ~Scraped(service'))}
    /\ UNCHANGED <<boot, workload, others, autoscaler>>

\* What is not expected is deleted, what is expected updated or created.
UpdateOthers ==
    /\ pass.stage = "others"
    /\ \E chosen \in NodePorts :
          others' = [k \in OtherKinds |->
              LET e == NewOther(k, pass.boot, workload)
              IN IF k \notin Expected(pass.boot, workload) THEN None
                 ELSE Stored(k, IF others[k] = None THEN e ELSE UpdatedOther(k, others[k], e), chosen)]
    /\ IF others' = others THEN GoOn("hpa") ELSE Done(TRUE)
    /\ overlooked' = {x \in overlooked :
                         x \in OtherKinds => others'[x] # None /\ ~Annotated(x, others'[x])}
    /\ UNCHANGED <<boot, workload, service, autoscaler>>

\* Mutant: the autoscaler is written without a comparison.
UpdateHpaAlways ==
    /\ pass.stage = "hpa"
    /\ autoscaler' = IF pass.boot.hpa = None THEN None
                     ELSE [owned |-> TRUE, bounds |-> pass.boot.hpa.bounds,
                           metrics |-> pass.boot.hpa.metrics]
    /\ Done(pass.boot.hpa # None)
    /\ UNCHANGED <<boot, workload, service, others, overlooked>>

UpdateHpa ==
    /\ pass.stage = "hpa"
    /\ LET asked == pass.boot.hpa
           found == autoscaler
           differs == /\ asked # None /\ found # None
                      /\ \/ ~found.owned
                         \/ asked.bounds # found.bounds
                         \/ MetricsDiffer(asked.metrics, found.metrics)
       IN \/ /\ asked = None /\ found # None
             /\ autoscaler' = None
             /\ Done(TRUE)
          \/ /\ (asked # None /\ found = None) \/ differs
             /\ autoscaler' = [owned |-> TRUE, bounds |-> asked.bounds, metrics |-> asked.metrics]
             /\ Done(TRUE)
          \/ /\ (asked = None <=> found = None) /\ ~differs
             /\ UNCHANGED autoscaler
             /\ Done(FALSE)
    /\ UNCHANGED <<boot, workload, service, others, overlooked>>

Work ==
    /\ \/ Start \/ RecordClaims \/ Create \/ UpdateWorkload
       \/ UpdateService \/ UpdateOthers \/ UpdateHpa
    /\ UNCHANGED <<config, disturbances>>

----------------------------------------------------------------------------
(* Users and others *)

Disturb ==
    /\ disturbances < MaxDisturbances
    /\ disturbances' = disturbances + 1

Edit(b) ==
    /\ Disturb
    /\ b # boot
    /\ boot' = [b EXCEPT !.canonical = TRUE] \/ (Bypassed /\ boot' = b)
    /\ queued' = TRUE
    /\ UNCHANGED <<config, objects, pass, overlooked>>

\* One part of the Boot at a time.
EditPlain == \E v \in Values, c \in BOOLEAN : Edit([boot EXCEPT !.plain = v, !.canonical = c])
EditReplicas == \E v \in Values : Edit([boot EXCEPT !.replicas = v])
EditPort == \E p \in Ports : Edit([boot EXCEPT !.port = p])
EditProbes ==
    \E p \in Paths \union {None} :
        Edit([boot EXCEPT !.health = p]) \/ Edit([boot EXCEPT !.readiness = p])
EditClaims == \E m \in ClaimMounts : Edit([boot EXCEPT !.claims = m])
EditService ==
    \/ \E a \in {"None", "ClientIP"} : Edit([boot EXCEPT !.affinity = a])
    \/ Edit([boot EXCEPT !.scrape = ~@])
EditNodePort == Edit([boot EXCEPT !.nodePort = ~@])
EditHpa == \E h \in Hpa \union {None} : Edit([boot EXCEPT !.hpa = h])
EditRestart == \E t \in Stamps \union {None} : Edit([boot EXCEPT !.restartedAt = t])

UserEdits ==
    \/ EditPlain \/ EditReplicas \/ EditPort \/ EditProbes \/ EditClaims
    \/ EditService \/ EditNodePort \/ EditHpa \/ EditRestart

\* A new configuration queues no Boot.
Reconfigure ==
    /\ Disturb
    /\ config' \in Configs \ {config}
    /\ UNCHANGED <<boot, objects, queued, pass, overlooked>>

\* Others change one part of an object; the event queues the Boot.
Tamper ==
    /\ Disturb
    /\ workload # None
    /\ queued' = TRUE
    /\ UNCHANGED <<boot, config, pass>>

TamperWorkload ==
    /\ Tamper
    /\ \/ \E v \in Values : workload' = [workload EXCEPT !.plain = v]
       \/ \E v \in Values : workload' = [workload EXCEPT !.replicas = v]
       \/ \E p \in Paths \union {None} : workload' = [workload EXCEPT !.readiness = p]
       \/ \E m \in Mounts : workload' = [workload EXCEPT !.mounts = m]
       \/ workload' = [workload EXCEPT !.owned = FALSE]
    /\ UNCHANGED <<service, others, autoscaler, overlooked>>

TamperService ==
    /\ Tamper
    /\ \/ /\ \E p \in Ports : service' \in {[service EXCEPT !.port = p], [service EXCEPT !.target = p]}
          /\ overlooked' = overlooked \union {"target"}
       \/ /\ \E a \in Annotations \union {None} : service' = [service EXCEPT !.annotations = a]
          /\ overlooked' = overlooked \union {"scrape"}
       \/ /\ \/ \E a \in {"None", "ClientIP"} : service' = [service EXCEPT !.affinity = a]
             \/ service' = [service EXCEPT !.owned = FALSE]
          /\ UNCHANGED overlooked
    /\ UNCHANGED <<workload, others, autoscaler>>

TamperOther(k) ==
    /\ Tamper
    /\ others[k] # None
    /\ \/ /\ \/ \E p \in Ports : others' = [others EXCEPT ![k].port = p]
             \/ \E p \in Ports : others' = [others EXCEPT ![k].target = p]
             \/ \E a \in {"None", "ClientIP"} : others' = [others EXCEPT ![k].affinity = a]
          /\ UNCHANGED overlooked
       \/ /\ \E a \in Annotations \union {None} : others' = [others EXCEPT ![k].annotations = a]
          /\ overlooked' = overlooked \union {k}
    /\ UNCHANGED <<workload, service, autoscaler>>

TamperHpa ==
    /\ Tamper
    /\ autoscaler # None
    /\ \/ \E v \in Values : autoscaler' = [autoscaler EXCEPT !.bounds = v]
       \/ \E ms \in SUBSET Metrics : autoscaler' = [autoscaler EXCEPT !.metrics = ms]
       \/ autoscaler' = [autoscaler EXCEPT !.owned = FALSE]
    /\ UNCHANGED <<workload, service, others, overlooked>>

Next ==
    \/ Work
    \/ UserEdits
    \/ Reconfigure
    \/ TamperWorkload \/ TamperService \/ TamperHpa
    \/ \E k \in OtherKinds : TamperOther(k)

\* The worker keeps going.
Spec == Init /\ [][Next]_vars /\ WF_vars(Work)

----------------------------------------------------------------------------
(* Properties *)

\* Every variable keeps its type.
TypeOK ==
    /\ boot \in Boot
    /\ config \in Config
    /\ workload \in Workload \union {None}
    /\ service \in Service \union {None}
    /\ others \in [OtherKinds -> Other \union {None}]
    /\ autoscaler \in Autoscaler \union {None}
    /\ queued \in BOOLEAN
    /\ pass \in Pass
    /\ overlooked \subseteq Overlooked
    /\ disturbances \in Nat

\* What is made together is there together; the node-port Service alone has a
\* port of the nodes; what is recorded to be mounted has the recorded claims.
Consistent ==
    /\ workload = None <=> service = None
    /\ \A k \in OtherKinds : others[k] # None => workload # None
    /\ others["external"] # None => others["external"].nodePort # None
    /\ others["sidecar"] # None => others["sidecar"].nodePort = None
    /\ \A v \in Claims : boot.mounts[v] = boot.recorded[v]
    /\ \A v \in Claims : pass.boot.mounts[v] = pass.boot.recorded[v]
    /\ pass.stage \in {"service", "others", "hpa"} => workload # None

\* The stages a pass has behind it; at rest, all of them.
Behind(stage) ==
    CASE pass.stage = "record" -> FALSE
      [] pass.stage = "workload" -> stage = "record"
      [] pass.stage = "service" -> stage \in {"record", "workload"}
      [] pass.stage = "others" -> stage \in {"record", "workload", "service"}
      [] pass.stage = "hpa" -> stage # "hpa"
      [] OTHER -> TRUE

OthersSettled(b) ==
    \A k \in OtherKinds :
        IF k \in Expected(b, workload)
        THEN /\ others[k] # None
             /\ \E chosen \in NodePorts :
                   Stored(k, UpdatedOther(k, others[k], NewOther(k, b, workload)), chosen) = others[k]
        ELSE others[k] = None

HpaSettled(b) ==
    /\ b.hpa = None <=> autoscaler = None
    /\ autoscaler # None =>
          /\ autoscaler.owned
          /\ b.hpa.bounds = autoscaler.bounds
          /\ ~MetricsDiffer(b.hpa.metrics, autoscaler.metrics)

\* While nothing is queued, the pass works on the Boot as it is, and what its
\* stages left behind would be left alone again.
Settled ==
    /\ Consistent
    /\ ~queued =>
          /\ pass.boot = boot
          /\ Behind("record") => boot.recorded = boot.claims
          /\ Behind("workload") =>
                workload # None /\ ~RebuildDue(workload, boot, pass.config)
                                /\ Adjusted(workload, boot) = workload
          /\ Behind("service") => UpdatedService(service, boot) = service
          /\ Behind("others") => OthersSettled(boot)
          /\ Behind("hpa") => HpaSettled(boot)

\* No edit of the Boot, configuration or update of the operator's own disturbs
\* what no comparison looks at.
Undisturbed ==
    /\ service # None =>
          /\ "target" \notin overlooked => service.target = service.port
          /\ "scrape" \notin overlooked => Scraped(service)
    /\ \A k \in OtherKinds : k \notin overlooked /\ others[k] # None => Annotated(k, others[k])

\* The inductive invariant.
IInv == Settled /\ Undisturbed

Quiet == ~queued /\ pass.stage = "idle"

\* The claims are recorded, and every mount the operator answers for is as
\* recorded, unless nothing is to be mounted at all: the last mounts are never
\* taken away.
MountsKept ==
    /\ boot.recorded = boot.claims
    /\ \A v \in Claims : boot.mounts[v] = boot.claims[v]
    /\ boot.mounts # NoMounts => \A v \in Managed : workload.mounts[v] = boot.mounts[v]

\* The image is of the last pass's configuration.
WorkloadAsAsked ==
    /\ workload.owned
    /\ workload.replicas = boot.replicas
    /\ workload.image = pass.config.registry
    /\ workload.plain = boot.plain
    /\ workload.port = boot.port
    /\ workload.liveness = boot.health
    /\ workload.readiness = ReadinessProbe(boot)
    /\ boot.restartedAt # None => workload.restartedAt = boot.restartedAt

ServiceAsAsked ==
    /\ service.owned
    /\ service.port = boot.port
    /\ "target" \notin overlooked => service.target = boot.port
    /\ service.affinity = boot.affinity
    /\ IF boot.scrape THEN service.annotations # None /\ service.annotations.port = boot.port
                      ELSE service.annotations = None
    /\ "scrape" \notin overlooked => service.annotations = ServiceAnnotation(boot.scrape, boot.port)

\* The node-port Service listens on the node's port, and both lead to the Boot.
OthersAsAsked ==
    /\ boot.nodePort <=> others["external"] # None
    /\ others["external"] # None =>
          /\ others["external"].port = others["external"].nodePort
          /\ others["external"].target = boot.port
          /\ "external" \notin overlooked => others["external"].annotations = None
    /\ workload.sidecar = None <=> others["sidecar"] = None
    /\ others["sidecar"] # None =>
          /\ others["sidecar"].port = workload.sidecar
          /\ others["sidecar"].target = workload.sidecar
          /\ others["sidecar"].annotations # None
          /\ others["sidecar"].annotations.port = workload.sidecar
          /\ "sidecar" \notin overlooked => others["sidecar"].annotations.scrape
    /\ \A k \in OtherKinds : others[k] # None => others[k].affinity = boot.affinity

HpaAsAsked ==
    /\ boot.hpa = None <=> autoscaler = None
    /\ autoscaler # None =>
          /\ autoscaler.owned
          /\ autoscaler.bounds = boot.hpa.bounds
          /\ autoscaler.metrics = boot.hpa.metrics

\* At rest, whatever combination of edits, configurations and outside changes led
\* there: the workload has the replicas, image, plain settings, port and probes
\* asked for, a restart time if one is asked for, and the managed mounts, except
\* the last ones; the other Services there should be are there, and no others;
\* the Services have the ports and affinity asked for; and so has the autoscaler
\* its bounds and metrics.  The Service's target, its scrape flag and the other
\* Services' annotations are right, too, unless somebody else changed them, or the
\* Service's port, and no update set them right since: edits and configurations
\* alone never leave them wrong.  Nothing is said of the sidecar in the template,
\* which is the configuration's at the last build, nor of mounts that are not
\* managed, nor of a restart time no longer asked for.
RestIsAsAsked ==
    Quiet => WorkloadAsAsked /\ MountsKept /\ ServiceAsAsked /\ OthersAsAsked /\ HpaAsAsked

\* The Boots and configurations for which a fresh build still differs: plain is
\* spelled loosely, or overridden; the record of the mounts is of another
\* configuration, and a managed claim has the name of one of its volumes; the
\* autoscaler lists one metric with two targets.
Endless(b, c) ==
    \/ ~b.canonical
    \/ c.override \notin {None, b.plain}
    \/ b.mounts # NoMounts /\ \E v \in Managed : b.mounts[v] # MountsOf(b, c)[v]
    \/ b.hpa # None /\ \E m, n \in b.hpa.metrics : m.name = n.name /\ m # n

\* The pass ends on a write that changes nothing.
Rewritten ==
    /\ pass'.stage = "idle"
    /\ pass.stage = "workload" \/ (pass.stage = "hpa" /\ ~queued /\ queued')
    /\ objects' = objects

\* An object is written again as it is only in these cases: everything else a
\* build sets, the comparison that follows it finds in place.
RewritesAreExplained == [][Rewritten => Endless(pass.boot, pass.config)]_vars

\* The node's port of the node-port Service, which clients use, changes only
\* when the Boot's port does, or when somebody changed the target.
ExternalPortStays ==
    [][others["external"] # None /\ others'["external"] # None
          /\ others'["external"].nodePort # others["external"].nodePort
          => others["external"].target # pass.boot.port]_vars

\* The operator comes to rest, unless it is given one of those cases for good.
EventuallyQuiet == <>[]~Endless(boot, config) => <>[]Quiet
=============================================================================
