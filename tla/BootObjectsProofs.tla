------------------------- MODULE BootObjectsProofs -------------------------
(***************************************************************************)
(* Proofs about the objects of a Boot: what the stages of a pass leave     *)
(* behind is what the Boot asks for, for any values, volumes, Boots and    *)
(* configurations and any number of edits and changes by others.           *)
(***************************************************************************)
EXTENDS BootObjects, TLAPS

USE DEF OtherKinds, Stages, objects

----------------------------------------------------------------------------
(* Lemmas about the data *)

\* Nothing is not an object.
LEMMA Absence ==
    /\ \A w \in Workload \union {None} : w # None <=> w \in Workload
    /\ \A s \in Service \union {None} : s # None <=> s \in Service
    /\ \A o \in Other \union {None} : o # None <=> o \in Other
    /\ \A a \in Autoscaler \union {None} : a # None <=> a \in Autoscaler
    /\ \A a \in Annotations \union {None} : a # None <=> a \in Annotations
    /\ \A h \in Hpa \union {None} : h # None <=> h \in Hpa
  BY DistinctAssumption

\* The parts of a Boot.
LEMMA BootParts ==
    ASSUME NEW b \in Boot
    PROVE  /\ b.plain \in Values /\ b.canonical \in BOOLEAN /\ b.replicas \in Values
           /\ b.port \in Ports /\ b.health \in Paths \union {None}
           /\ b.readiness \in Paths \union {None} /\ b.claims \in ClaimMounts
           /\ b.affinity \in {"None", "ClientIP"} /\ b.scrape \in BOOLEAN
           /\ b.nodePort \in BOOLEAN /\ b.hpa \in Hpa \union {None}
           /\ b.restartedAt \in Stamps \union {None}
           /\ b.recorded \in ClaimMounts /\ b.mounts \in Mounts
  BY DEF Boot

\* Each part of a Boot can be edited by itself; the record stays.
LEMMA BootWith ==
    ASSUME NEW b \in Boot, NEW e,
           \/ \E v \in Values, c \in BOOLEAN : e = [b EXCEPT !.plain = v, !.canonical = c]
           \/ \E v \in Values : e = [b EXCEPT !.replicas = v]
           \/ \E p \in Ports : e = [b EXCEPT !.port = p]
           \/ \E p \in Paths \union {None} : \/ e = [b EXCEPT !.health = p]
                                             \/ e = [b EXCEPT !.readiness = p]
           \/ \E m \in ClaimMounts : e = [b EXCEPT !.claims = m]
           \/ \E a \in {"None", "ClientIP"} : e = [b EXCEPT !.affinity = a]
           \/ e = [b EXCEPT !.scrape = ~@]
           \/ e = [b EXCEPT !.nodePort = ~@]
           \/ \E h \in Hpa \union {None} : e = [b EXCEPT !.hpa = h]
           \/ \E t \in Stamps \union {None} : e = [b EXCEPT !.restartedAt = t]
           \/ e = [b EXCEPT !.canonical = TRUE]
    PROVE  e \in Boot /\ e.recorded = b.recorded /\ e.mounts = b.mounts
  <1>1. ASSUME NEW v \in Values, NEW c \in BOOLEAN, e = [b EXCEPT !.plain = v, !.canonical = c]
        PROVE  e \in Boot /\ e.recorded = b.recorded /\ e.mounts = b.mounts
    BY <1>1 DEF Boot
  <1>2. ASSUME NEW v \in Values, e = [b EXCEPT !.replicas = v]
        PROVE  e \in Boot /\ e.recorded = b.recorded /\ e.mounts = b.mounts
    BY <1>2 DEF Boot
  <1>3. ASSUME NEW v \in Ports, e = [b EXCEPT !.port = v]
        PROVE  e \in Boot /\ e.recorded = b.recorded /\ e.mounts = b.mounts
    BY <1>3 DEF Boot
  <1>4. ASSUME NEW v \in Paths \union {None}, e = [b EXCEPT !.health = v]
        PROVE  e \in Boot /\ e.recorded = b.recorded /\ e.mounts = b.mounts
    BY <1>4 DEF Boot
  <1>10. ASSUME NEW v \in Paths \union {None}, e = [b EXCEPT !.readiness = v]
        PROVE  e \in Boot /\ e.recorded = b.recorded /\ e.mounts = b.mounts
    BY <1>10 DEF Boot
  <1>5. ASSUME NEW v \in ClaimMounts, e = [b EXCEPT !.claims = v]
        PROVE  e \in Boot /\ e.recorded = b.recorded /\ e.mounts = b.mounts
    BY <1>5 DEF Boot
  <1>6. ASSUME NEW v \in {"None", "ClientIP"}, e = [b EXCEPT !.affinity = v]
        PROVE  e \in Boot /\ e.recorded = b.recorded /\ e.mounts = b.mounts
    BY <1>6 DEF Boot
  <1>7. ASSUME e = [b EXCEPT !.scrape = ~@]
        PROVE  e \in Boot /\ e.recorded = b.recorded /\ e.mounts = b.mounts
    BY <1>7, ZenonT(60) DEF Boot
  <1>11. ASSUME e = [b EXCEPT !.nodePort = ~@]
        PROVE  e \in Boot /\ e.recorded = b.recorded /\ e.mounts = b.mounts
    BY <1>11 DEF Boot
  <1>12. ASSUME e = [b EXCEPT !.canonical = TRUE]
        PROVE  e \in Boot /\ e.recorded = b.recorded /\ e.mounts = b.mounts
    BY <1>12 DEF Boot
  <1>8. ASSUME NEW v \in Hpa \union {None}, e = [b EXCEPT !.hpa = v]
        PROVE  e \in Boot /\ e.recorded = b.recorded /\ e.mounts = b.mounts
    BY <1>8 DEF Boot
  <1>9. ASSUME NEW v \in Stamps \union {None}, e = [b EXCEPT !.restartedAt = v]
        PROVE  e \in Boot /\ e.recorded = b.recorded /\ e.mounts = b.mounts
    BY <1>9 DEF Boot
  <1> QED
    BY <1>1, <1>2, <1>3, <1>4, <1>5, <1>6, <1>7, <1>8, <1>9, <1>10, <1>11, <1>12

\* What is mounted, and a workload just built.
LEMMA Built ==
    ASSUME NEW b \in Boot, NEW c \in Config
    PROVE  /\ MountsOf(b, c) \in Mounts
           /\ NewWorkload(b, c) \in Workload
           /\ ReadinessProbe(b) \in Paths \union {None}
  <1>1. MountsOf(b, c) \in Mounts
    BY BootParts DEF MountsOf, Mounts, ClaimMounts, Config, Volumes
  <1>2. ReadinessProbe(b) \in Paths \union {None}
    BY BootParts DEF ReadinessProbe
  <1>3. /\ c.registry \in Registries /\ c.override \in Values \union {None}
        /\ c.sidecar \in Ports \union {None}
    BY DEF Config
  <1>4. (IF c.override # None THEN c.override ELSE b.plain) \in Values
    BY <1>3, BootParts
  <1> QED
    BY <1>1, <1>2, <1>3, <1>4, BootParts DEF NewWorkload, Workload

\* The annotations made for a Service.
LEMMA MadeAnnotation ==
    ASSUME NEW scrape \in BOOLEAN, NEW port \in Ports \union {None}
    PROVE  /\ ServiceAnnotation(scrape, port) \in Annotations \union {None}
           /\ scrape => ServiceAnnotation(scrape, port) = [port |-> port, scrape |-> TRUE]
           /\ ~scrape => ServiceAnnotation(scrape, port) = None
  BY DEF ServiceAnnotation, Annotations

LEMMA BuiltService ==
    ASSUME NEW b \in Boot
    PROVE  NewService(b) \in Service
  BY BootParts, MadeAnnotation DEF NewService, Service

\* Another Service that is expected, before it is stored.
LEMMA BuiltOther ==
    ASSUME NEW b \in Boot, NEW w \in Workload, NEW k \in OtherKinds, k \in Expected(b, w)
    PROVE  /\ NewOther(k, b, w) \in Other
           /\ NewOther(k, b, w).port \in Ports
           /\ NewOther(k, b, w).target = NewOther(k, b, w).port
           /\ NewOther(k, b, w).nodePort = None
           /\ NewOther(k, b, w).affinity = b.affinity
           /\ k = "external" => /\ NewOther(k, b, w).port = b.port
                                /\ NewOther(k, b, w).annotations = None
           /\ k = "sidecar" => /\ NewOther(k, b, w).port = w.sidecar
                               /\ w.sidecar # None
                               /\ NewOther(k, b, w).annotations # None
                               /\ NewOther(k, b, w).annotations.port = w.sidecar
           /\ Annotated(k, NewOther(k, b, w))
  <1> DEFINE p == IF k = "external" THEN b.port ELSE w.sidecar
             a == ServiceAnnotation(k = "sidecar", p)
             o == NewOther(k, b, w)
  <1>1. p \in Ports
    BY BootParts DEF Expected, Workload
  <1>2. a \in Annotations \union {None}
    BY <1>1, MadeAnnotation
  <1>3. o = [port |-> p, target |-> p, nodePort |-> None, annotations |-> a,
             affinity |-> b.affinity]
    BY DEF NewOther
  <1>4. k = "external" => a = None
    BY <1>1, MadeAnnotation
  <1>5. k = "sidecar" => a = [port |-> p, scrape |-> TRUE]
    BY <1>1, MadeAnnotation
  <1>6. [port |-> p, scrape |-> TRUE] # None
    <2>1. [port |-> p, scrape |-> TRUE] \in Annotations
      BY <1>1 DEF Annotations
    <2> QED
      BY <2>1, DistinctAssumption
  <1>7. k = "sidecar" => w.sidecar # None
    BY DEF Expected
  <1>8. o \in Other
    BY <1>1, <1>2, <1>3, BootParts DEF Other
  <1>9. Annotated(k, o)
    <2>1. o.annotations = a
      BY <1>3
    <2> HIDE DEF o
    <2> QED
      BY <1>4, <1>5, <1>6, <2>1 DEF Annotated
  <1> QED
    BY <1>1, <1>3, <1>4, <1>5, <1>6, <1>7, <1>8, <1>9

\* A Boot with its claims recorded.
LEMMA BootRecorded ==
    ASSUME NEW b \in Boot, NEW c \in Config
    PROVE  LET e == [b EXCEPT !.recorded = b.claims, !.mounts = MountsOf(b, c)]
           IN /\ e \in Boot /\ e.recorded = b.claims /\ e.claims = b.claims
              /\ \A v \in Claims : e.mounts[v] = e.recorded[v]
  <1> DEFINE e == [b EXCEPT !.recorded = b.claims, !.mounts = MountsOf(b, c)]
  <1>1. MountsOf(b, c) \in Mounts /\ b.claims \in ClaimMounts
    BY Built, BootParts
  <1>2. e \in Boot /\ e.recorded = b.claims /\ e.claims = b.claims /\ e.mounts = MountsOf(b, c)
    BY <1>1 DEF Boot
  <1>3. \A v \in Claims : MountsOf(b, c)[v] = b.claims[v]
    BY DEF MountsOf, Volumes
  <1> HIDE DEF e
  <1>4. /\ e \in Boot /\ e.recorded = b.claims /\ e.claims = b.claims
        /\ \A v \in Claims : e.mounts[v] = e.recorded[v]
    BY <1>2, <1>3
  <1> QED
    BY <1>4 DEF e

\* The workload, with what is set one by one.
LEMMA AdjustedIsWorkload ==
    ASSUME NEW b \in Boot, NEW w \in Workload
    PROVE  /\ Adjusted(w, b) \in Workload
           /\ Adjusted(w, b).owned = TRUE
           /\ Adjusted(w, b).replicas = b.replicas
           /\ b.restartedAt # None => Adjusted(w, b).restartedAt = b.restartedAt
  <1>1. (IF b.restartedAt # None THEN b.restartedAt ELSE w.restartedAt) \in Stamps \union {None}
    BY BootParts DEF Workload
  <1> QED
    BY <1>1, BootParts, ZenonT(60) DEF Adjusted, Workload

\* A rebuilt workload is a workload.
LEMMA RebuiltIsWorkload ==
    ASSUME NEW b \in Boot, NEW c \in Config, NEW o \in BOOLEAN
    PROVE  [NewWorkload(b, c) EXCEPT !.owned = o] \in Workload
  <1>1. NewWorkload(b, c) \in Workload
    BY Built
  <1> QED
    BY <1>1 DEF Workload

\* An updated Service is a Service, with what the Boot asks for.
LEMMA UpdatedIsService ==
    ASSUME NEW b \in Boot, NEW s \in Service
    PROVE  /\ UpdatedService(s, b) \in Service
           /\ UpdatedService(s, b).owned = TRUE
           /\ UpdatedService(s, b).port = b.port
           /\ UpdatedService(s, b).affinity = b.affinity
           /\ ~b.scrape => UpdatedService(s, b).annotations = None
           /\ b.scrape => /\ UpdatedService(s, b).annotations # None
                          /\ UpdatedService(s, b).annotations.port = b.port
           /\ s.target = s.port => UpdatedService(s, b).target = b.port
           /\ Scraped(s) => Scraped(UpdatedService(s, b))
  <1> DEFINE a == UpdatedAnnotations(s.annotations, b)
             present == IF s.annotations = None THEN ServiceAnnotation(b.scrape, b.port)
                        ELSE s.annotations
             moved == IF s.port # b.port THEN [s EXCEPT !.port = b.port, !.target = b.port] ELSE s
  <1>1. present \in Annotations \union {None} /\ (b.scrape => present # None)
    <2>1. s.annotations \in Annotations \union {None}
      BY DEF Service
    <2>2. ServiceAnnotation(b.scrape, b.port) \in Annotations \union {None}
      BY MadeAnnotation, BootParts
    <2>3. b.scrape => [port |-> b.port, scrape |-> TRUE] \in Annotations
      BY BootParts DEF Annotations
    <2>4. b.scrape => ServiceAnnotation(b.scrape, b.port) # None
      BY <2>3, MadeAnnotation, BootParts, DistinctAssumption
    <2> QED
      BY <2>1, <2>2, <2>4
  <1>2. ASSUME NEW q \in Annotations
        PROVE  [q EXCEPT !.port = b.port] \in Annotations /\ [q EXCEPT !.port = b.port].port = b.port
    BY BootParts DEF Annotations
  <1>3. /\ a \in Annotations \union {None} /\ (~b.scrape => a = None)
        /\ b.scrape => a # None /\ a.port = b.port
    BY <1>1, <1>2, Absence, BootParts DEF UpdatedAnnotations
  <1>8. Scraped(s) /\ a # None => a.scrape
    <2>1. a # None => present # None /\ a = [present EXCEPT !.port = b.port]
      BY DEF UpdatedAnnotations
    <2>2. present # None => present \in Annotations
      BY <1>1, Zenon
    <2>3. present # None => [present EXCEPT !.port = b.port].scrape = present.scrape
      <3>1. \A q \in Annotations : [q EXCEPT !.port = b.port].scrape = q.scrape
        BY DEF Annotations
      <3> HIDE DEF present
      <3> QED
        BY <2>2, <3>1
    <2>4. Scraped(s) /\ present # None => present.scrape
      <3>1. CASE s.annotations = None
        BY <3>1, MadeAnnotation, BootParts
      <3>2. CASE s.annotations # None
        BY <3>2 DEF Scraped
      <3> QED
        BY <3>1, <3>2
    <2> HIDE DEF a, present
    <2> QED
      BY <2>1, <2>3, <2>4
  <1>4. moved \in Service /\ moved.port = b.port /\ moved.annotations = s.annotations
    BY BootParts DEF Service
  <1>10. s.target = s.port => moved.target = b.port
    BY BootParts DEF Service
  <1>5. UpdatedService(s, b) = [moved EXCEPT !.owned = TRUE, !.annotations = a, !.affinity = b.affinity]
    BY <1>4 DEF UpdatedService, Service
  <1> HIDE DEF a, moved
  <1>6. /\ UpdatedService(s, b) \in Service /\ UpdatedService(s, b).owned = TRUE
        /\ UpdatedService(s, b).port = moved.port /\ UpdatedService(s, b).annotations = a
        /\ UpdatedService(s, b).affinity = b.affinity
    BY <1>3, <1>4, <1>5, BootParts DEF Service
  <1>9. UpdatedService(s, b).target = moved.target
    BY <1>4, <1>5 DEF Service
  <1>7. Scraped(s) => Scraped(UpdatedService(s, b))
    BY <1>6, <1>8 DEF Scraped
  <1> HIDE DEF Scraped
  <1> QED
    BY <1>3, <1>4, <1>6, <1>7, <1>9, <1>10

\* Who has a port of the nodes.
PortOfNodes(k, o) == k = "external" <=> o.nodePort # None

\* A new Service as it is stored.
LEMMA StoredIsOther ==
    ASSUME NEW k \in OtherKinds, NEW o \in Other, NEW chosen \in NodePorts,
           k = "sidecar" => o.nodePort = None
    PROVE  /\ Stored(k, o, chosen) \in Other
           /\ PortOfNodes(k, Stored(k, o, chosen))
           /\ o.nodePort # None => Stored(k, o, chosen) = o
           /\ Stored(k, o, chosen).port = o.port
           /\ Stored(k, o, chosen).target = o.target
           /\ Stored(k, o, chosen).annotations = o.annotations
           /\ Stored(k, o, chosen).affinity = o.affinity
  BY DistinctAssumption DEF Stored, Other, PortOfNodes

\* What becomes of the ports of another Service.
LEMMA PortsUpdated ==
    ASSUME NEW b \in Boot, NEW w \in Workload, NEW k \in OtherKinds, k \in Expected(b, w),
           NEW o \in Other, PortOfNodes(k, o),
           NEW e, e = NewOther(k, b, w), NEW q, q = UpdatedPorts(k, o, e)
    PROVE  /\ q.port \in Ports \union NodePorts /\ q.target \in Ports
           /\ q.nodePort \in NodePorts \union {None}
           /\ k = "sidecar" => q.nodePort = None /\ q.port = w.sidecar /\ q.target = w.sidecar
           /\ k = "external" => q.target = b.port
           /\ k = "external" /\ q.port = o.port /\ o.target = b.port => o.port = o.nodePort
           /\ k = "external" /\ o.target = b.port => q.nodePort = o.nodePort
  <1>1. /\ e.port \in Ports /\ e.target = e.port /\ e.nodePort = None
        /\ k = "external" => e.port = b.port
        /\ k = "sidecar" => e.port = w.sidecar
    BY BuiltOther
  <1>2. /\ o.port \in Ports \union NodePorts /\ o.target \in Ports
        /\ o.nodePort \in NodePorts \union {None}
    BY DEF Other
  <1>3. CASE k = "external"
    <2>1. o.nodePort \in NodePorts
      BY <1>2, <1>3 DEF PortOfNodes
    <2> QED
      BY <1>1, <1>2, <1>3, <2>1 DEF UpdatedPorts
  <1>4. CASE k = "sidecar"
    BY <1>1, <1>4 DEF UpdatedPorts
  <1> QED
    BY <1>3, <1>4

\* What becomes of another Service, and what it is when nothing becomes of it.
LEMMA UpdatedIsOther ==
    ASSUME NEW b \in Boot, NEW w \in Workload, NEW k \in OtherKinds, k \in Expected(b, w),
           NEW o \in Other, PortOfNodes(k, o), NEW chosen \in NodePorts,
           NEW q, q = Stored(k, UpdatedOther(k, o, NewOther(k, b, w)), chosen)
    PROVE  /\ q \in Other /\ PortOfNodes(k, q)
           /\ k = "external" /\ q.nodePort # o.nodePort => o.target # b.port
           /\ q.affinity = b.affinity
           /\ q = o /\ k = "external" => o.port = o.nodePort /\ o.target = b.port
           /\ q = o /\ k = "sidecar" => /\ o.port = w.sidecar /\ o.target = w.sidecar
                                        /\ o.annotations # None
                                        /\ o.annotations.port = w.sidecar
           /\ Annotated(k, o) => Annotated(k, q)
  <1> DEFINE e == NewOther(k, b, w)
             ports == UpdatedPorts(k, o, e)
             present == IF o.annotations = None THEN e.annotations ELSE o.annotations
             a == IF present # None /\ present.port # ComparedPort(k, o, e)
                  THEN e.annotations ELSE present
             u == UpdatedOther(k, o, e)
  <1>1. u = [port |-> ports.port, target |-> ports.target, nodePort |-> ports.nodePort,
             annotations |-> a, affinity |-> e.affinity]
    BY DEF UpdatedOther
  <1>2. /\ e \in Other /\ e.affinity = b.affinity
        /\ k = "sidecar" => /\ e.annotations # None /\ e.annotations.port = w.sidecar
                            /\ e.port = w.sidecar
        /\ Annotated(k, e)
    BY BuiltOther
  <1>3. a \in Annotations \union {None}
    <2>1. e.annotations \in Annotations \union {None} /\ o.annotations \in Annotations \union {None}
      BY <1>2 DEF Other
    <2> QED
      BY <2>1
  <1>4. /\ ports.port \in Ports \union NodePorts /\ ports.target \in Ports
        /\ ports.nodePort \in NodePorts \union {None}
        /\ k = "sidecar" => ports.nodePort = None /\ ports.port = w.sidecar /\ ports.target = w.sidecar
        /\ k = "external" => ports.target = b.port
        /\ k = "external" /\ ports.port = o.port /\ o.target = b.port => o.port = o.nodePort
        /\ k = "external" /\ o.target = b.port => ports.nodePort = o.nodePort
    BY PortsUpdated
  <1>5. k = "sidecar" => a # None /\ a.port = w.sidecar
    BY <1>2 DEF ComparedPort
  <1>12. Annotated(k, o) => IF k = "sidecar" THEN a # None /\ a.scrape ELSE a = None
    <2>1. a \in {e.annotations, present} /\ present \in {e.annotations, o.annotations}
      OBVIOUS
    <2> HIDE DEF e, a, present
    <2> QED
      BY <1>2, <2>1 DEF Annotated
  <1> HIDE DEF e, ports, a
  <1>6. u \in Other
    BY <1>1, <1>2, <1>3, <1>4, BootParts DEF Other
  <1>7. /\ u.port = ports.port /\ u.target = ports.target /\ u.nodePort = ports.nodePort
        /\ u.annotations = a /\ u.affinity = b.affinity
    BY <1>1, <1>2
  <1>8. q = Stored(k, u, chosen)
    BY DEF e
  <1> HIDE DEF u
  <1>9. k = "sidecar" => u.nodePort = None
    BY <1>4, <1>7
  <1>10. /\ q \in Other /\ PortOfNodes(k, q)
         /\ u.nodePort # None => q = u
         /\ q.port = u.port /\ q.target = u.target /\ q.annotations = u.annotations
         /\ q.affinity = u.affinity
    BY <1>6, <1>8, <1>9, StoredIsOther
  <1>11. k = "external" /\ o.target = b.port => q.nodePort = o.nodePort
    BY <1>4, <1>7, <1>10 DEF PortOfNodes
  <1>13. Annotated(k, o) => Annotated(k, q)
    BY <1>7, <1>10, <1>12 DEF Annotated
  <1> QED
    BY <1>4, <1>5, <1>7, <1>10, <1>11, <1>13

----------------------------------------------------------------------------
(* Types, and what is there together *)

Base == TypeOK /\ Consistent

\* A pass that moves to another stage.
LEMMA PassWith ==
    ASSUME NEW p \in Pass, NEW s \in Stages, NEW q, q = [p EXCEPT !.stage = s]
    PROVE  q \in Pass /\ q.stage = s /\ q.boot = p.boot /\ q.config = p.config
  BY DEF Pass

LEMMA InitBase == Init => Base
  <1> SUFFICES ASSUME Init PROVE Base
    OBVIOUS
  <1>1. boot \in Boot /\ config \in Config /\ boot.recorded = NoClaims /\ boot.mounts = NoMounts
    BY ConfigsAssumption, BootsAssumption DEF Init
  <1>2. pass \in Pass /\ pass.boot = boot /\ pass.stage = "idle"
    BY <1>1 DEF Init, Pass
  <1>3. TypeOK
    BY <1>1, <1>2, BoundsAssumption DEF Init, TypeOK
  <1>4. \A v \in Claims : NoMounts[v] = NoClaims[v]
    BY DEF NoMounts, NoClaims, Volumes
  <1>5. Consistent
    BY <1>1, <1>2, <1>4 DEF Init, Consistent
  <1> QED
    BY <1>3, <1>5 DEF Base

LEMMA StartBase ==
    ASSUME Base, Start, UNCHANGED <<config, disturbances>>
    PROVE  Base'
  <1>1. pass' \in Pass /\ pass'.boot = boot /\ pass'.stage = "record"
    BY DEF Base, TypeOK, Start, Pass
  <1> QED
    BY <1>1 DEF Base, TypeOK, Consistent, Start

LEMMA RecordBase ==
    ASSUME Base, RecordClaims, UNCHANGED <<config, disturbances>>
    PROVE  Base'
  <1> DEFINE b == pass.boot
             recorded == [b EXCEPT !.recorded = b.claims, !.mounts = MountsOf(b, pass.config)]
             updated == IF RecordDue(b) THEN recorded ELSE b
             stored == [updated EXCEPT !.canonical = TRUE]
  <1>1. b \in Boot /\ pass.config \in Config /\ \A v \in Claims : b.mounts[v] = b.recorded[v]
    BY DEF Base, TypeOK, Consistent, Pass
  <1>4. boot' \in {boot, stored}
    BY DEF RecordClaims
  <1>10. recorded \in Boot /\ \A v \in Claims : recorded.mounts[v] = recorded.recorded[v]
    BY <1>1, BootRecorded
  <1>11. updated \in {b, recorded}
    OBVIOUS
  <1>12. \A e \in Boot : /\ [e EXCEPT !.canonical = TRUE] \in Boot
                        /\ [e EXCEPT !.canonical = TRUE].recorded = e.recorded
                        /\ [e EXCEPT !.canonical = TRUE].mounts = e.mounts
    BY BootWith
  <1> HIDE DEF recorded, updated
  <1>2. updated \in Boot /\ \A v \in Claims : updated.mounts[v] = updated.recorded[v]
    BY <1>1, <1>10, <1>11
  <1>3. stored \in Boot /\ stored.recorded = updated.recorded /\ stored.mounts = updated.mounts
    BY <1>2, <1>12
  <1> HIDE DEF stored
  <1>5. boot' \in Boot /\ \A v \in Claims : boot'.mounts[v] = boot'.recorded[v]
    BY <1>2, <1>3, <1>4 DEF Base, TypeOK, Consistent
  <1>6. /\ pass' = [pass EXCEPT !.stage = "idle"] \/ pass' = [pass EXCEPT !.stage = "workload"]
        /\ queued' \in BOOLEAN
    BY DEF RecordClaims, Done, GoOn, Base, TypeOK
  <1>7. pass' \in Pass /\ pass'.boot = b /\ pass'.stage \in {"idle", "workload"}
    BY <1>6, PassWith DEF Base, TypeOK
  <1> HIDE DEF b
  <1>8. TypeOK'
    BY <1>5, <1>6, <1>7 DEF Base, TypeOK, RecordClaims
  <1>9. Consistent'
    BY <1>1, <1>5, <1>7 DEF Base, Consistent, RecordClaims, b
  <1> QED
    BY <1>8, <1>9 DEF Base

LEMMA CreateBase ==
    ASSUME Base, Create, UNCHANGED <<config, disturbances>>
    PROVE  Base'
  <1> DEFINE b == pass.boot
             new == NewWorkload(b, pass.config)
  <1>1. b \in Boot /\ pass.config \in Config
    BY DEF Base, TypeOK, Pass
  <1>2. new \in Workload /\ NewService(b) \in Service
    BY <1>1, Built, BuiltService
  <1>3. PICK chosen \in NodePorts :
           others' = [k \in OtherKinds |->
               IF k \in Expected(b, new) THEN Stored(k, NewOther(k, b, new), chosen) ELSE None]
    BY DEF Create
  <1>4. ASSUME NEW k \in OtherKinds, k \in Expected(b, new)
        PROVE  /\ Stored(k, NewOther(k, b, new), chosen) \in Other
               /\ PortOfNodes(k, Stored(k, NewOther(k, b, new), chosen))
    <2>1. NewOther(k, b, new) \in Other /\ NewOther(k, b, new).nodePort = None
      BY <1>1, <1>2, <1>4, BuiltOther
    <2> QED
      BY <2>1, StoredIsOther
  <1>5. \A k \in OtherKinds : /\ others'[k] \in Other \union {None}
                              /\ others'[k] # None => PortOfNodes(k, others'[k])
    BY <1>3, <1>4
  <1>11. pass' = [pass EXCEPT !.stage = "idle"] /\ queued' = TRUE
    BY DEF Create, Done, Base, TypeOK
  <1>6. pass' \in Pass /\ pass'.boot = b /\ pass'.stage = "idle" /\ queued' = TRUE
    BY <1>11, PassWith DEF Base, TypeOK
  <1>7. /\ workload' = new /\ workload' # None /\ service' = NewService(b) /\ service' # None
        /\ boot' = boot /\ autoscaler' = autoscaler /\ overlooked' = overlooked
    BY <1>2, DistinctAssumption DEF Create
  <1> HIDE DEF b, new
  <1>8. others' \in [OtherKinds -> Other \union {None}]
    BY <1>3, <1>5
  <1>9. TypeOK'
    BY <1>2, <1>6, <1>7, <1>8 DEF Base, TypeOK
  <1>10. Consistent'
    BY <1>5, <1>6, <1>7 DEF Base, Consistent, PortOfNodes, b
  <1> QED
    BY <1>9, <1>10 DEF Base

LEMMA WorkloadBase ==
    ASSUME Base, UpdateWorkload, UNCHANGED <<config, disturbances>>
    PROVE  Base'
  <1> DEFINE b == pass.boot
  <1>1. b \in Boot /\ pass.config \in Config /\ workload \in Workload
    BY Absence DEF Base, TypeOK, Pass, UpdateWorkload
  <1>2. Adjusted(workload, b) \in Workload /\ Adjusted(workload, b).owned \in BOOLEAN
    BY <1>1, AdjustedIsWorkload
  <1>3. [NewWorkload(b, pass.config) EXCEPT !.owned = Adjusted(workload, b).owned] \in Workload
    BY <1>1, <1>2, RebuiltIsWorkload
  <1>4. workload' \in Workload /\ workload' # None
    BY <1>1, <1>2, <1>3, DistinctAssumption DEF UpdateWorkload
  <1>5. /\ pass' = [pass EXCEPT !.stage = "idle"] \/ pass' = [pass EXCEPT !.stage = "service"]
        /\ queued' \in BOOLEAN
    BY DEF UpdateWorkload, Done, GoOn, Base, TypeOK
  <1>6. pass' \in Pass /\ pass'.boot = b /\ pass'.stage \in {"idle", "service"}
    BY <1>5, PassWith DEF Base, TypeOK
  <1>7. UNCHANGED <<boot, service, others, autoscaler, overlooked>>
    BY DEF UpdateWorkload
  <1>8. TypeOK'
    BY <1>4, <1>5, <1>6, <1>7 DEF Base, TypeOK
  <1>9. Consistent'
    BY <1>1, <1>4, <1>6, <1>7, DistinctAssumption DEF Base, Consistent
  <1> QED
    BY <1>8, <1>9 DEF Base

LEMMA ServiceBase ==
    ASSUME Base, UpdateService, UNCHANGED <<config, disturbances>>
    PROVE  Base'
  <1>1. pass.boot \in Boot /\ workload # None
    BY DEF Base, TypeOK, Pass, UpdateService, Consistent
  <1>2. service \in Service
    BY <1>1, Absence DEF Base, TypeOK, Consistent
  <1>3. service' \in Service /\ service' # None
    BY <1>1, <1>2, UpdatedIsService, DistinctAssumption DEF UpdateService
  <1>4. pass' \in Pass /\ pass'.boot = pass.boot /\ pass'.stage = "others" /\ queued' \in BOOLEAN
    BY PassWith DEF Base, TypeOK, UpdateService
  <1>5. UNCHANGED <<boot, workload, others, autoscaler>> /\ overlooked' \subseteq overlooked
    BY DEF UpdateService
  <1>6. TypeOK'
    BY <1>3, <1>4, <1>5 DEF Base, TypeOK
  <1>7. Consistent'
    BY <1>1, <1>3, <1>4, <1>5 DEF Base, Consistent
  <1> QED
    BY <1>6, <1>7 DEF Base

\* What the stage makes of each of the other Services.
LEMMA OthersUpdated ==
    ASSUME Base, UpdateOthers, NEW k \in OtherKinds
    PROVE  /\ others'[k] \in Other \union {None}
           /\ others'[k] # None => PortOfNodes(k, others'[k])
           /\ k \in Expected(pass.boot, workload) => others'[k] # None
           /\ k \notin Expected(pass.boot, workload) => others'[k] = None
           /\ others[k] # None /\ others'[k] # None /\ k = "external"
                 /\ others'[k].nodePort # others[k].nodePort => others[k].target # pass.boot.port
           /\ others'[k] # None /\ (others[k] # None => Annotated(k, others[k])) =>
                 Annotated(k, others'[k])
           /\ k \in Expected(pass.boot, workload) /\ others'[k] = others[k] =>
                 \E chosen \in NodePorts :
                    Stored(k, UpdatedOther(k, others[k], NewOther(k, pass.boot, workload)), chosen)
                       = others[k]
  <1> DEFINE b == pass.boot
             e == NewOther(k, b, workload)
  <1>1. b \in Boot /\ workload \in Workload
    BY Absence DEF Base, TypeOK, Pass, UpdateOthers, Consistent
  <1>2. others[k] \in Other \union {None} /\ (others[k] # None => PortOfNodes(k, others[k]))
    BY DEF Base, TypeOK, Consistent, PortOfNodes
  <1>3. PICK chosen \in NodePorts :
           others' = [j \in OtherKinds |->
               IF j \notin Expected(b, workload) THEN None
               ELSE Stored(j, IF others[j] = None THEN NewOther(j, b, workload)
                              ELSE UpdatedOther(j, others[j], NewOther(j, b, workload)), chosen)]
    BY DEF UpdateOthers
  <1>4. CASE k \notin Expected(b, workload)
    BY <1>3, <1>4
  <1>5. CASE k \in Expected(b, workload) /\ others[k] = None
    <2>1. others'[k] = Stored(k, e, chosen)
      BY <1>3, <1>5
    <2>2. e \in Other /\ e.nodePort = None /\ Annotated(k, e)
      BY <1>1, <1>5, BuiltOther
    <2>3. /\ others'[k] \in Other /\ PortOfNodes(k, others'[k])
          /\ others'[k].annotations = e.annotations
      BY <2>1, <2>2, StoredIsOther
    <2>4. Annotated(k, others'[k])
      BY <2>2, <2>3 DEF Annotated
    <2> QED
      BY <1>5, <2>3, <2>4, Absence
  <1>6. CASE k \in Expected(b, workload) /\ others[k] # None
    <2>1. others'[k] = Stored(k, UpdatedOther(k, others[k], e), chosen)
      BY <1>3, <1>6
    <2>2. others[k] \in Other /\ PortOfNodes(k, others[k])
      BY <1>2, <1>6
    <2>3. /\ others'[k] \in Other /\ PortOfNodes(k, others'[k])
          /\ k = "external" /\ others'[k].nodePort # others[k].nodePort => others[k].target # b.port
          /\ Annotated(k, others[k]) => Annotated(k, others'[k])
      BY <1>1, <1>6, <2>1, <2>2, UpdatedIsOther
    <2> QED
      BY <1>6, <2>1, <2>3, Absence
  <1> QED
    BY <1>4, <1>5, <1>6

LEMMA OthersBase ==
    ASSUME Base, UpdateOthers, UNCHANGED <<config, disturbances>>
    PROVE  Base'
  <1>1. \A k \in OtherKinds : /\ others'[k] \in Other \union {None}
                              /\ others'[k] # None => PortOfNodes(k, others'[k])
    BY OthersUpdated
  <1>2. others' \in [OtherKinds -> Other \union {None}]
    BY <1>1 DEF UpdateOthers
  <1>3. /\ pass' = [pass EXCEPT !.stage = "idle"] \/ pass' = [pass EXCEPT !.stage = "hpa"]
        /\ queued' \in BOOLEAN
    BY DEF UpdateOthers, Done, GoOn, Base, TypeOK
  <1>4. pass' \in Pass /\ pass'.boot = pass.boot
    BY <1>3, PassWith DEF Base, TypeOK
  <1>5. UNCHANGED <<boot, workload, service, autoscaler>> /\ workload # None
        /\ overlooked' \subseteq overlooked
    BY DEF UpdateOthers, Base, Consistent
  <1>6. TypeOK'
    BY <1>2, <1>3, <1>4, <1>5 DEF Base, TypeOK
  <1>7. Consistent'
    BY <1>1, <1>4, <1>5 DEF Base, Consistent, PortOfNodes
  <1> QED
    BY <1>6, <1>7 DEF Base

LEMMA HpaBase ==
    ASSUME Base, UpdateHpa, UNCHANGED <<config, disturbances>>
    PROVE  Base'
  <1>1. pass.boot.hpa \in Hpa \union {None} /\ autoscaler \in Autoscaler \union {None}
    BY BootParts DEF Base, TypeOK, Pass
  <1>2. ASSUME NEW h \in Hpa
        PROVE  [owned |-> TRUE, bounds |-> h.bounds, metrics |-> h.metrics] \in Autoscaler
    BY DEF Hpa, Autoscaler
  <1>3. autoscaler' \in Autoscaler \union {None}
    BY <1>1, <1>2 DEF UpdateHpa
  <1>8. pass' = [pass EXCEPT !.stage = "idle"] /\ queued' \in BOOLEAN
    BY DEF UpdateHpa, Done, Base, TypeOK
  <1>4. pass' \in Pass /\ pass'.boot = pass.boot /\ pass'.stage = "idle" /\ queued' \in BOOLEAN
    BY <1>8, PassWith DEF Base, TypeOK
  <1>5. UNCHANGED <<boot, workload, service, others, overlooked>>
    BY DEF UpdateHpa
  <1>6. TypeOK'
    BY <1>3, <1>4, <1>5 DEF Base, TypeOK
  <1>7. Consistent'
    BY <1>4, <1>5 DEF Base, Consistent
  <1> QED
    BY <1>6, <1>7 DEF Base

LEMMA EditBase ==
    ASSUME Base, UserEdits
    PROVE  Base'
  <1>1. PICK e \in Boot : /\ e.recorded = boot.recorded /\ e.mounts = boot.mounts
                          /\ Edit(e)
    <2>1. boot \in Boot
      BY DEF Base, TypeOK
    <2>2. ASSUME NEW e, Edit(e),
                 \/ \E v \in Values, c \in BOOLEAN : e = [boot EXCEPT !.plain = v, !.canonical = c]
                 \/ \E v \in Values : e = [boot EXCEPT !.replicas = v]
                 \/ \E p \in Ports : e = [boot EXCEPT !.port = p]
                 \/ \E p \in Paths \union {None} : \/ e = [boot EXCEPT !.health = p]
                                                   \/ e = [boot EXCEPT !.readiness = p]
                 \/ \E m \in ClaimMounts : e = [boot EXCEPT !.claims = m]
                 \/ \E a \in {"None", "ClientIP"} : e = [boot EXCEPT !.affinity = a]
                 \/ e = [boot EXCEPT !.scrape = ~@]
                 \/ e = [boot EXCEPT !.nodePort = ~@]
                 \/ \E h \in Hpa \union {None} : e = [boot EXCEPT !.hpa = h]
                 \/ \E t \in Stamps \union {None} : e = [boot EXCEPT !.restartedAt = t]
          PROVE  \E q \in Boot : /\ q.recorded = boot.recorded /\ q.mounts = boot.mounts
                                 /\ Edit(q)
      BY <2>1, <2>2, BootWith
    <2>3. CASE EditPlain
      BY <2>2, <2>3 DEF EditPlain
    <2>4. CASE EditReplicas
      BY <2>2, <2>4 DEF EditReplicas
    <2>5. CASE EditPort
      BY <2>2, <2>5 DEF EditPort
    <2>6. CASE EditProbes
      BY <2>2, <2>6 DEF EditProbes
    <2>7. CASE EditClaims
      BY <2>2, <2>7 DEF EditClaims
    <2>8. CASE EditService
      BY <2>2, <2>8 DEF EditService
    <2>9. CASE EditNodePort
      BY <2>2, <2>9 DEF EditNodePort
    <2>10. CASE EditHpa
      BY <2>2, <2>10 DEF EditHpa
    <2>11. CASE EditRestart
      BY <2>2, <2>11 DEF EditRestart
    <2> QED
      BY <2>3, <2>4, <2>5, <2>6, <2>7, <2>8, <2>9, <2>10, <2>11 DEF UserEdits
  <1>2. \A q \in Boot : /\ [q EXCEPT !.canonical = TRUE] \in Boot
                        /\ [q EXCEPT !.canonical = TRUE].recorded = q.recorded
                        /\ [q EXCEPT !.canonical = TRUE].mounts = q.mounts
    BY BootWith
  <1>3. boot' \in {e, [e EXCEPT !.canonical = TRUE]} /\ queued' = TRUE
        /\ UNCHANGED <<config, objects, pass, overlooked>> /\ disturbances' = disturbances + 1
    BY <1>1 DEF Edit, Disturb
  <1>4. boot' \in Boot /\ boot'.recorded = boot.recorded /\ boot'.mounts = boot.mounts
    BY <1>1, <1>2, <1>3
  <1>5. TypeOK'
    BY <1>3, <1>4 DEF Base, TypeOK
  <1>6. Consistent'
    BY <1>3, <1>4 DEF Base, Consistent
  <1> QED
    BY <1>5, <1>6 DEF Base

LEMMA ReconfigureBase ==
    ASSUME Base, Reconfigure
    PROVE  Base'
  <1>1. config' \in Config /\ disturbances' = disturbances + 1
    BY ConfigsAssumption DEF Reconfigure, Disturb
  <1> QED
    BY <1>1 DEF Base, TypeOK, Consistent, Reconfigure

\* Whoever changes another Service leaves its port of the nodes.
LEMMA TamperedOther ==
    ASSUME Base, NEW k \in OtherKinds, TamperOther(k)
    PROVE  \E q \in Other : /\ others' = [others EXCEPT ![k] = q]
                            /\ q.nodePort = others[k].nodePort
                            /\ \/ q.annotations = others[k].annotations /\ overlooked' = overlooked
                               \/ overlooked' = overlooked \union {k}
  <1>0. others[k] \in Other
    BY Absence DEF TamperOther, Base, TypeOK
  <1> DEFINE o == others[k]
  <1>1. \A p \in Ports :
           /\ [o EXCEPT !.port = p] \in Other /\ [o EXCEPT !.port = p].nodePort = o.nodePort
           /\ [o EXCEPT !.port = p].annotations = o.annotations
           /\ [o EXCEPT !.target = p] \in Other /\ [o EXCEPT !.target = p].nodePort = o.nodePort
           /\ [o EXCEPT !.target = p].annotations = o.annotations
    BY <1>0 DEF Other
  <1>2. \A a \in Annotations \union {None} :
           /\ [o EXCEPT !.annotations = a] \in Other
           /\ [o EXCEPT !.annotations = a].nodePort = o.nodePort
    BY <1>0 DEF Other
  <1>3. \A a \in {"None", "ClientIP"} :
           /\ [o EXCEPT !.affinity = a] \in Other
           /\ [o EXCEPT !.affinity = a].nodePort = o.nodePort
           /\ [o EXCEPT !.affinity = a].annotations = o.annotations
    BY <1>0 DEF Other
  <1>4. CASE (\E p \in Ports : others' = [others EXCEPT ![k].port = p]) /\ overlooked' = overlooked
    BY <1>1, <1>4
  <1>5. CASE (\E p \in Ports : others' = [others EXCEPT ![k].target = p]) /\ overlooked' = overlooked
    BY <1>1, <1>5
  <1>6. CASE /\ \E a \in Annotations \union {None} : others' = [others EXCEPT ![k].annotations = a]
             /\ overlooked' = overlooked \union {k}
    BY <1>2, <1>6
  <1>7. CASE /\ \E a \in {"None", "ClientIP"} : others' = [others EXCEPT ![k].affinity = a]
             /\ overlooked' = overlooked
    BY <1>3, <1>7
  <1> QED
    BY <1>4, <1>5, <1>6, <1>7 DEF TamperOther

LEMMA TamperBase ==
    ASSUME Base,
           \/ TamperWorkload \/ TamperService \/ TamperHpa
           \/ \E k \in OtherKinds : TamperOther(k)
    PROVE  Base'
  <1>1. Tamper /\ workload \in Workload /\ service \in Service
    BY Absence DEF TamperWorkload, TamperService, TamperHpa, TamperOther, Tamper, Base, TypeOK, Consistent
  <1>2. /\ queued' = TRUE /\ UNCHANGED <<boot, config, pass>> /\ disturbances' = disturbances + 1
    BY <1>1 DEF Tamper, Disturb
  <1>3. CASE TamperWorkload
    <2>1. workload' \in Workload
      <3>1. \A v \in Values : /\ [workload EXCEPT !.plain = v] \in Workload
                              /\ [workload EXCEPT !.replicas = v] \in Workload
        BY <1>1 DEF Workload
      <3>2. \A p \in Paths \union {None} : [workload EXCEPT !.readiness = p] \in Workload
        BY <1>1 DEF Workload
      <3>3. \A m \in Mounts : [workload EXCEPT !.mounts = m] \in Workload
        BY <1>1 DEF Workload
      <3>4. [workload EXCEPT !.owned = FALSE] \in Workload
        BY <1>1 DEF Workload
      <3> QED
        BY <1>3, <3>1, <3>2, <3>3, <3>4 DEF TamperWorkload
    <2>2. workload' # None /\ UNCHANGED <<service, others, autoscaler, overlooked>>
      BY <1>3, <2>1, DistinctAssumption DEF TamperWorkload
    <2>3. TypeOK'
      BY <1>2, <2>1, <2>2 DEF Base, TypeOK
    <2>4. Consistent'
      BY <1>1, <1>2, <2>2, DistinctAssumption DEF Base, Consistent
    <2> QED
      BY <2>3, <2>4 DEF Base
  <1>4. CASE TamperService
    <2>1. service' \in Service
      BY <1>1, <1>4 DEF TamperService, Service
    <2>2. service' # None /\ UNCHANGED <<workload, others, autoscaler>>
          /\ overlooked' \subseteq Overlooked
      BY <1>4, <2>1, DistinctAssumption DEF TamperService, Overlooked, Base, TypeOK
    <2>3. TypeOK'
      BY <1>2, <2>1, <2>2 DEF Base, TypeOK
    <2>4. Consistent'
      BY <1>1, <1>2, <2>2, DistinctAssumption DEF Base, Consistent
    <2> QED
      BY <2>3, <2>4 DEF Base
  <1>5. CASE TamperHpa
    <2>1. autoscaler' \in Autoscaler
      BY <1>5, Absence DEF TamperHpa, Autoscaler, Base, TypeOK
    <2>2. UNCHANGED <<workload, service, others, overlooked>>
      BY <1>5 DEF TamperHpa
    <2>3. TypeOK'
      BY <1>2, <2>1, <2>2 DEF Base, TypeOK
    <2>4. Consistent'
      BY <1>2, <2>2 DEF Base, Consistent
    <2> QED
      BY <2>3, <2>4 DEF Base
  <1>6. ASSUME NEW k \in OtherKinds, TamperOther(k)
        PROVE  Base'
    <2>1. others[k] \in Other
      BY <1>6, Absence DEF TamperOther, Base, TypeOK
    <2>2. PICK q \in Other : others' = [others EXCEPT ![k] = q] /\ q.nodePort = others[k].nodePort
      BY <1>6, TamperedOther
    <2>3. UNCHANGED <<workload, service, autoscaler>> /\ overlooked' \subseteq Overlooked
      BY <1>6 DEF TamperOther, Overlooked, Base, TypeOK
    <2>4. \A j \in OtherKinds : others'[j] = IF j = k THEN q ELSE others[j]
      BY <2>2 DEF Base, TypeOK
    <2>5. TypeOK'
      BY <1>2, <2>2, <2>3 DEF Base, TypeOK
    <2>6. \A j \in OtherKinds : others'[j] # None =>
             others[j] # None /\ others'[j].nodePort = others[j].nodePort
      BY <2>1, <2>2, <2>4, DistinctAssumption
    <2>7. Consistent'
      BY <1>1, <1>2, <2>3, <2>6 DEF Base, Consistent
    <2> QED
      BY <2>5, <2>7 DEF Base
  <1> QED
    BY <1>3, <1>4, <1>5, <1>6

LEMMA StepBase == Base /\ [Next]_vars => Base'
  <1> SUFFICES ASSUME Base, [Next]_vars PROVE Base'
    OBVIOUS
  <1>1. CASE Work
    BY <1>1, StartBase, RecordBase, CreateBase, WorkloadBase, ServiceBase, OthersBase, HpaBase DEF Work
  <1>2. CASE UNCHANGED vars
    BY <1>2 DEF vars, Base, TypeOK, Consistent
  <1> QED
    BY <1>1, <1>2, EditBase, ReconfigureBase, TamperBase DEF Next

\* Every variable keeps its type.
THEOREM TypeCorrectness == Spec => []TypeOK
  <1>1. Base => TypeOK
    BY DEF Base
  <1> QED
    BY <1>1, InitBase, StepBase, PTL DEF Spec

----------------------------------------------------------------------------
(* The inductive invariant *)

\* Which stages are behind a pass.
LEMMA Stage ==
    ASSUME pass.stage \in Stages
    PROVE  /\ pass.stage = "idle" => \A s \in Stages : Behind(s)
           /\ pass.stage = "record" => \A s \in Stages : ~Behind(s)
           /\ pass.stage = "workload" => \A s \in Stages : Behind(s) <=> s = "record"
           /\ pass.stage = "service" => \A s \in Stages : Behind(s) <=> s \in {"record", "workload"}
           /\ pass.stage = "others" =>
                 \A s \in Stages : Behind(s) <=> s \in {"record", "workload", "service"}
           /\ pass.stage = "hpa" => \A s \in Stages : Behind(s) <=> s # "hpa"
  BY DEF Behind

\* The stage a step leads to, and which stages are behind it then.
LEMMA StageThen ==
    ASSUME pass'.stage \in Stages
    PROVE  /\ pass'.stage = "record" => \A s \in Stages : ~Behind(s)'
           /\ pass'.stage = "workload" => \A s \in Stages : Behind(s)' <=> s = "record"
           /\ pass'.stage = "service" => \A s \in Stages : Behind(s)' <=> s \in {"record", "workload"}
           /\ pass'.stage = "others" =>
                 \A s \in Stages : Behind(s)' <=> s \in {"record", "workload", "service"}
           /\ pass'.stage = "hpa" => \A s \in Stages : Behind(s)' <=> s # "hpa"
  BY DEF Behind

\* What is queued needs no further argument.
LEMMA QueuedInv ==
    ASSUME Base', queued'
    PROVE  Settled'
  BY DEF Base, Settled

LEMMA InitInv == Init => Settled
  BY InitBase DEF Init, Base, Settled

LEMMA StartInv ==
    ASSUME Base, Settled, Start, UNCHANGED <<config, disturbances>>
    PROVE  Settled'
  <1>1. Base' /\ pass'.stage = "record" /\ pass'.boot = boot /\ boot' = boot
    BY StartBase DEF Start
  <1>2. \A s \in Stages : ~Behind(s)'
    BY <1>1, StageThen
  <1> QED
    BY <1>1, <1>2 DEF Base, Settled

LEMMA RecordInv ==
    ASSUME Base, Settled, RecordClaims, UNCHANGED <<config, disturbances>>
    PROVE  Settled'
  <1> DEFINE b == pass.boot
             recorded == [b EXCEPT !.recorded = b.claims, !.mounts = MountsOf(b, pass.config)]
             updated == IF RecordDue(b) THEN recorded ELSE b
  <1>1. Base' /\ b \in Boot /\ pass.config \in Config
    BY RecordBase DEF Base, TypeOK, Pass
  <1>2. CASE Done(TRUE)
    BY <1>1, <1>2, QueuedInv DEF Done, Base, TypeOK
  <1>3. CASE updated = b /\ UNCHANGED boot /\ GoOn("workload")
    <2>1. b.recorded = b.claims
      <3>1. recorded.recorded = b.claims
        BY <1>1, BootRecorded
      <3> QED
        BY <1>3, <3>1 DEF RecordDue
    <2>2. pass'.stage = "workload" /\ pass'.boot = b /\ queued' = queued
      BY <1>3, PassWith DEF GoOn, Base, TypeOK
    <2>3. \A s \in Stages : Behind(s)' <=> s = "record"
      BY <2>2, StageThen
    <2>4. ~queued => boot' = b
      BY <1>3 DEF Settled
    <2> QED
      BY <1>1, <2>1, <2>2, <2>3, <2>4 DEF Base, Settled
  <1> QED
    BY <1>2, <1>3 DEF RecordClaims

LEMMA CreateInv ==
    ASSUME Base, Create, UNCHANGED <<config, disturbances>>
    PROVE  Settled'
  BY CreateBase, QueuedInv DEF Create, Done, Base, TypeOK

LEMMA WorkloadInv ==
    ASSUME Base, Settled, UpdateWorkload, UNCHANGED <<config, disturbances>>
    PROVE  Settled'
  <1> DEFINE b == pass.boot
  <1>1. Base' /\ UNCHANGED <<boot, service, others, autoscaler, overlooked>> /\ pass.stage = "workload"
    BY WorkloadBase DEF UpdateWorkload
  <1>2. CASE Done(TRUE)
    BY <1>1, <1>2, QueuedInv DEF Done, Base, TypeOK
  <1>3. CASE /\ ~RebuildDue(workload, b, pass.config) /\ Adjusted(workload, b) = workload
             /\ UNCHANGED workload /\ GoOn("service")
    <2>1. /\ pass'.stage = "service" /\ pass'.boot = b /\ pass'.config = pass.config
          /\ queued' = queued
      BY <1>3, PassWith DEF GoOn, Base, TypeOK
    <2>2. \A s \in Stages : Behind(s)' <=> s \in {"record", "workload"}
      BY <2>1, StageThen
    <2>3. Behind("record")
      BY <1>1, Stage
    <2>4. ~queued => boot = b /\ boot.recorded = boot.claims
      BY <2>3 DEF Settled
    <2>5. workload # None
      BY DEF UpdateWorkload
    <2> QED
      BY <1>1, <1>3, <2>1, <2>2, <2>4, <2>5 DEF Base, Settled
  <1> QED
    BY <1>2, <1>3 DEF UpdateWorkload

LEMMA ServiceInv ==
    ASSUME Base, Settled, UpdateService, UNCHANGED <<config, disturbances>>
    PROVE  Settled'
  <1>1. Base' /\ UNCHANGED <<boot, workload, others, autoscaler>> /\ pass.stage = "service"
    BY ServiceBase DEF UpdateService
  <1>2. /\ pass'.stage = "others" /\ pass'.boot = pass.boot /\ pass'.config = pass.config
        /\ queued' = (queued \/ service' # service)
        /\ service' = UpdatedService(service, pass.boot)
    BY PassWith DEF UpdateService, Base, TypeOK
  <1>3. \A s \in Stages : Behind(s)' <=> s \in {"record", "workload", "service"}
    BY <1>2, StageThen
  <1>4. Behind("record") /\ Behind("workload")
    BY <1>1, Stage
  <1>5. ~queued => /\ pass.boot = boot /\ boot.recorded = boot.claims
                   /\ workload # None /\ ~RebuildDue(workload, boot, pass.config)
                   /\ Adjusted(workload, boot) = workload
    BY <1>4 DEF Settled
  <1> QED
    BY <1>1, <1>2, <1>3, <1>5 DEF Base, Settled

LEMMA OthersInv ==
    ASSUME Base, Settled, UpdateOthers, UNCHANGED <<config, disturbances>>
    PROVE  Settled'
  <1>1. Base' /\ UNCHANGED <<boot, workload, service, autoscaler>> /\ pass.stage = "others"
    BY OthersBase DEF UpdateOthers
  <1>2. CASE Done(TRUE)
    BY <1>1, <1>2, QueuedInv DEF Done, Base, TypeOK
  <1>3. CASE others' = others /\ GoOn("hpa")
    <2>1. /\ pass'.stage = "hpa" /\ pass'.boot = pass.boot /\ pass'.config = pass.config
          /\ queued' = queued
      BY <1>3, PassWith DEF GoOn, Base, TypeOK
    <2>2. \A s \in Stages : Behind(s)' <=> s # "hpa"
      BY <2>1, StageThen
    <2>3. Behind("record") /\ Behind("workload") /\ Behind("service")
      BY <1>1, Stage
    <2>4. ~queued => /\ pass.boot = boot /\ boot.recorded = boot.claims
                     /\ workload # None /\ ~RebuildDue(workload, boot, pass.config)
                     /\ Adjusted(workload, boot) = workload
                     /\ UpdatedService(service, boot) = service
      BY <2>3 DEF Settled
    <2>5. OthersSettled(pass.boot)
      BY <1>3, OthersUpdated DEF OthersSettled
    <2>6. pass.boot = boot => OthersSettled(boot)'
      BY <1>1, <1>3, <2>5 DEF OthersSettled
    <2> QED
      BY <1>1, <2>1, <2>2, <2>4, <2>6 DEF Base, Settled
  <1> QED
    BY <1>2, <1>3 DEF UpdateOthers

LEMMA HpaInv ==
    ASSUME Base, Settled, UpdateHpa, UNCHANGED <<config, disturbances>>
    PROVE  Settled'
  <1> DEFINE asked == pass.boot.hpa
             differs == /\ asked # None /\ autoscaler # None
                        /\ \/ ~autoscaler.owned
                           \/ asked.bounds # autoscaler.bounds
                           \/ MetricsDiffer(asked.metrics, autoscaler.metrics)
  <1>1. Base' /\ UNCHANGED <<boot, workload, service, others>> /\ pass.stage = "hpa"
    BY HpaBase DEF UpdateHpa
  <1>2. CASE Done(TRUE)
    BY <1>1, <1>2, QueuedInv DEF Done, Base, TypeOK
  <1>3. CASE /\ (asked = None <=> autoscaler = None) /\ ~differs
             /\ UNCHANGED autoscaler /\ Done(FALSE)
    <2>1. pass' = [pass EXCEPT !.stage = "idle"] /\ (queued' <=> queued)
      BY <1>3 DEF Done, Base, TypeOK
    <2>2. pass'.boot = pass.boot /\ pass'.config = pass.config
      BY <2>1, PassWith DEF Base, TypeOK
    <2>3. \A s \in {"record", "workload", "service", "others"} : Behind(s)
      BY <1>1, Stage
    <2>4. ~queued => /\ pass.boot = boot /\ boot.recorded = boot.claims
                     /\ workload # None /\ ~RebuildDue(workload, boot, pass.config)
                     /\ Adjusted(workload, boot) = workload
                     /\ UpdatedService(service, boot) = service
                     /\ OthersSettled(boot)
      BY <2>3 DEF Settled
    <2>5. pass.boot = boot => HpaSettled(boot)'
      BY <1>1, <1>3 DEF HpaSettled
    <2>6. OthersSettled(boot) => OthersSettled(boot)'
      BY <1>1 DEF OthersSettled
    <2> QED
      BY <1>1, <1>3, <2>1, <2>2, <2>4, <2>5, <2>6 DEF Base, Settled
  <1> QED
    BY <1>2, <1>3 DEF UpdateHpa

\* A new configuration reaches the next pass only.
LEMMA ReconfigureInv ==
    ASSUME Base, Settled, Reconfigure
    PROVE  Settled'
  <1>1. Base' /\ UNCHANGED <<boot, workload, service, others, autoscaler, queued, pass>>
    BY ReconfigureBase DEF Reconfigure
  <1>2. \A s \in Stages : Behind(s)' <=> Behind(s)
    BY <1>1 DEF Behind
  <1> QED
    BY <1>1, <1>2 DEF Base, Settled, OthersSettled, HpaSettled

\* Whoever changes something queues the Boot.
LEMMA DisturbedInv ==
    ASSUME Base,
           \/ UserEdits
           \/ TamperWorkload \/ TamperService \/ TamperHpa
           \/ \E k \in OtherKinds : TamperOther(k)
    PROVE  Settled'
  <1>1. Base'
    BY EditBase, TamperBase
  <1>2. UserEdits => queued'
    BY Zenon DEF UserEdits, EditPlain, EditReplicas, EditPort, EditProbes, EditClaims, EditService,
           EditNodePort, EditHpa, EditRestart, Edit
  <1>3. ~UserEdits => queued'
    BY DEF TamperWorkload, TamperService, TamperHpa, TamperOther, Tamper
  <1> QED
    BY <1>1, <1>2, <1>3, QueuedInv

LEMMA StepInv == Base /\ Settled /\ [Next]_vars => Settled'
  <1> SUFFICES ASSUME Base, Settled, [Next]_vars PROVE Settled'
    OBVIOUS
  <1>1. CASE Work
    BY <1>1, StartInv, RecordInv, CreateInv, WorkloadInv, ServiceInv, OthersInv, HpaInv DEF Work
  <1>2. CASE UNCHANGED vars
    BY <1>2 DEF vars, Settled, Consistent, Behind, OthersSettled, HpaSettled
  <1> QED
    BY <1>1, <1>2, ReconfigureInv, DisturbedInv DEF Next

----------------------------------------------------------------------------
(* What no comparison looks at *)

LEMMA InitUndisturbed == Init => Undisturbed
  BY DEF Init, Undisturbed

LEMMA CreateUndisturbed ==
    ASSUME Base, Create
    PROVE  Undisturbed'
  <1> DEFINE b == pass.boot
             new == NewWorkload(b, pass.config)
  <1>1. b \in Boot /\ pass.config \in Config /\ new \in Workload
    BY Built DEF Base, TypeOK, Pass
  <1>2. service' = NewService(b)
    BY DEF Create
  <1>3. service'.target = service'.port /\ Scraped(service')
    BY <1>2 DEF NewService, Scraped, ServiceAnnotation
  <1>4. PICK chosen \in NodePorts :
           others' = [k \in OtherKinds |->
               IF k \in Expected(b, new) THEN Stored(k, NewOther(k, b, new), chosen) ELSE None]
    BY DEF Create
  <1> HIDE DEF new
  <1>5. ASSUME NEW k \in OtherKinds, k \in Expected(b, new)
        PROVE  Annotated(k, Stored(k, NewOther(k, b, new), chosen))
    <2>1. /\ NewOther(k, b, new) \in Other /\ NewOther(k, b, new).nodePort = None
          /\ Annotated(k, NewOther(k, b, new))
      BY <1>1, <1>5, BuiltOther
    <2>2. Stored(k, NewOther(k, b, new), chosen).annotations = NewOther(k, b, new).annotations
      BY <2>1, StoredIsOther
    <2> QED
      BY <2>1, <2>2 DEF Annotated
  <1>6. \A k \in OtherKinds : others'[k] # None => Annotated(k, others'[k])
    BY <1>4, <1>5
  <1> QED
    BY <1>3, <1>6 DEF Undisturbed

LEMMA ServiceUndisturbed ==
    ASSUME Base, Undisturbed, UpdateService
    PROVE  Undisturbed'
  <1>1. pass.boot \in Boot /\ service \in Service
    BY Absence DEF Base, TypeOK, Pass, UpdateService, Consistent
  <1>2. /\ service.target = service.port => service'.target = service'.port
        /\ Scraped(service) => Scraped(service')
    <2> DEFINE u == UpdatedService(service, pass.boot)
    <2>1. u.port = pass.boot.port /\ (service.target = service.port => u.target = pass.boot.port)
          /\ (Scraped(service) => Scraped(u))
      BY <1>1, UpdatedIsService
    <2> HIDE DEF u
    <2>2. service' = u
      BY DEF UpdateService, u
    <2> QED
      BY <2>1, <2>2
  <1>3. /\ "target" \notin overlooked' =>
              "target" \notin overlooked \/ service'.target = service'.port
        /\ "scrape" \notin overlooked' => "scrape" \notin overlooked \/ Scraped(service')
        /\ \A k \in OtherKinds : k \notin overlooked' => k \notin overlooked
        /\ others' = others
    BY DEF UpdateService
  <1>4. service # None
    BY <1>1, DistinctAssumption
  <1> QED
    BY <1>2, <1>3, <1>4 DEF Undisturbed

LEMMA OthersUndisturbed ==
    ASSUME Base, Undisturbed, UpdateOthers
    PROVE  Undisturbed'
  <1>1. \A k \in OtherKinds :
           others'[k] # None /\ (others[k] # None => Annotated(k, others[k])) =>
              Annotated(k, others'[k])
    BY OthersUpdated
  <1>2. /\ service' = service
        /\ \A k \in OtherKinds : k \notin overlooked' =>
              k \notin overlooked \/ others'[k] = None \/ Annotated(k, others'[k])
        /\ \A x \in {"target", "scrape"} : x \notin overlooked' => x \notin overlooked
    BY DEF UpdateOthers
  <1> QED
    BY <1>1, <1>2 DEF Undisturbed

LEMMA TamperedUndisturbed ==
    ASSUME Base, Undisturbed, TamperService \/ \E k \in OtherKinds : TamperOther(k)
    PROVE  Undisturbed'
  <1>1. CASE TamperService
    <2>1. service \in Service /\ others' = others
      BY <1>1, Absence DEF TamperService, Tamper, Base, TypeOK, Consistent
    <2>2. \/ /\ \E p \in Ports :
                   service' \in {[service EXCEPT !.port = p], [service EXCEPT !.target = p]}
             /\ overlooked' = overlooked \union {"target"}
          \/ /\ \E a \in Annotations \union {None} : service' = [service EXCEPT !.annotations = a]
             /\ overlooked' = overlooked \union {"scrape"}
          \/ /\ \/ \E a \in {"None", "ClientIP"} : service' = [service EXCEPT !.affinity = a]
                \/ service' = [service EXCEPT !.owned = FALSE]
             /\ overlooked' = overlooked
      BY <1>1 DEF TamperService
    <2>3. /\ overlooked \subseteq overlooked'
          /\ "target" \notin overlooked' => service'.target = service.target /\ service'.port = service.port
          /\ "scrape" \notin overlooked' => service'.annotations = service.annotations
      BY <2>1, <2>2 DEF Service
    <2>4. service # None
      BY <2>1, DistinctAssumption
    <2> QED
      BY <2>1, <2>3, <2>4 DEF Undisturbed, Scraped
  <1>2. ASSUME NEW k \in OtherKinds, TamperOther(k)
        PROVE  Undisturbed'
    <2>1. service' = service /\ others[k] # None
      BY <1>2 DEF TamperOther
    <2>2. PICK q \in Other : /\ others' = [others EXCEPT ![k] = q]
                             /\ \/ q.annotations = others[k].annotations /\ overlooked' = overlooked
                                \/ overlooked' = overlooked \union {k}
      BY <1>2, TamperedOther
    <2>3. /\ \A x \in {"target", "scrape"} : x \notin overlooked' => x \notin overlooked
          /\ \A j \in OtherKinds : j \notin overlooked' => j \notin overlooked
      BY <2>2
    <2>4. ASSUME NEW j \in OtherKinds, j \notin overlooked', others'[j] # None
          PROVE  Annotated(j, others'[j])
      <3>1. CASE j = k
        <4>1. others'[j] = q /\ q.annotations = others[k].annotations
          BY <2>2, <2>4, <3>1 DEF Base, TypeOK
        <4>2. Annotated(k, others[k])
          BY <2>1, <2>3, <2>4, <3>1 DEF Undisturbed
        <4> QED
          BY <3>1, <4>1, <4>2 DEF Annotated
      <3>2. CASE j # k
        <4>1. others'[j] = others[j]
          BY <2>2, <3>2 DEF Base, TypeOK
        <4> QED
          BY <2>3, <2>4, <4>1 DEF Undisturbed
      <3> QED
        BY <3>1, <3>2
    <2> QED
      BY <2>1, <2>3, <2>4 DEF Undisturbed
  <1> QED
    BY <1>1, <1>2

LEMMA StepUndisturbed == Base /\ Undisturbed /\ [Next]_vars => Undisturbed'
  <1> SUFFICES ASSUME Base, Undisturbed, [Next]_vars PROVE Undisturbed'
    OBVIOUS
  <1>1. UNCHANGED <<service, others, overlooked>> => Undisturbed'
    BY DEF Undisturbed
  <1>2. CASE Work
    <2>1. Start \/ RecordClaims \/ UpdateWorkload \/ UpdateHpa => UNCHANGED <<service, others, overlooked>>
      BY DEF Start, RecordClaims, UpdateWorkload, UpdateHpa
    <2> QED
      BY <1>1, <1>2, <2>1, CreateUndisturbed, ServiceUndisturbed, OthersUndisturbed DEF Work
  <1>3. CASE UserEdits
    BY <1>1, <1>3, Zenon DEF UserEdits, EditPlain, EditReplicas, EditPort, EditProbes, EditClaims,
           EditService, EditNodePort, EditHpa, EditRestart, Edit
  <1>4. CASE Reconfigure \/ TamperWorkload \/ TamperHpa \/ UNCHANGED vars
    BY <1>1, <1>4 DEF Reconfigure, TamperWorkload, TamperHpa, vars
  <1> QED
    BY <1>2, <1>3, <1>4, TamperedUndisturbed DEF Next

\* While nothing is queued, what the pass left behind would be left alone again,
\* and what no comparison looks at is as it was built unless somebody else changed
\* it: for any Boots, configurations, edits and changes by others.
THEOREM Invariance == Spec => []IInv
  <1>1. Settled /\ Undisturbed => IInv
    BY DEF IInv
  <1> QED
    BY <1>1, InitBase, StepBase, InitInv, StepInv, InitUndisturbed, StepUndisturbed, PTL DEF Spec

----------------------------------------------------------------------------
(* At rest *)

\* What a comparison of metrics leaves alone is the same metrics.
LEMMA SameMetrics ==
    ASSUME NEW asked, NEW found, ~MetricsDiffer(asked, found)
    PROVE  asked = found
  <1>1. \A m \in asked : \E n \in found : n.name = m.name
    BY DEF MetricsDiffer
  <1>2. \A n \in found : \E m \in asked : n.name = m.name
    BY DEF MetricsDiffer
  <1>3. \A m \in asked, n \in found : m.name = n.name => m = n
    BY DEF MetricsDiffer
  <1>4. \A m \in asked : m \in found
    BY <1>1, <1>3
  <1>5. \A n \in found : n \in asked
    BY <1>2, <1>3
  <1> QED
    BY <1>4, <1>5

\* The readiness path asked for is the one that is built.
LEMMA ReadinessAgrees ==
    ASSUME NEW b \in Boot
    PROVE  ReadinessAsked(b) = ReadinessProbe(b)
  BY DEF ReadinessAsked, ReadinessProbe

\* The Services that are expected.
LEMMA WhichExpected ==
    ASSUME NEW b, NEW w
    PROVE  /\ "external" \in Expected(b, w) <=> b.nodePort
           /\ "sidecar" \in Expected(b, w) <=> w.sidecar # None
  BY DEF Expected

LEMMA RestAsAsked == Base /\ Settled /\ Undisturbed => RestIsAsAsked
  <1> SUFFICES ASSUME Base, Settled, Undisturbed, Quiet
               PROVE  WorkloadAsAsked /\ MountsKept /\ ServiceAsAsked /\ OthersAsAsked /\ HpaAsAsked
    BY DEF RestIsAsAsked
  <1>1. \A s \in Stages : Behind(s)
    BY Stage DEF Quiet
  <1>2. /\ boot.recorded = boot.claims
        /\ workload # None /\ ~RebuildDue(workload, boot, pass.config)
        /\ Adjusted(workload, boot) = workload
        /\ UpdatedService(service, boot) = service
        /\ OthersSettled(boot) /\ HpaSettled(boot)
    BY <1>1 DEF Settled, Quiet
  <1>3. boot \in Boot /\ workload \in Workload /\ service \in Service
    BY <1>2, Absence DEF Base, TypeOK, Consistent
  <1>4. WorkloadAsAsked
    <2>1. /\ workload.owned /\ workload.replicas = boot.replicas
          /\ boot.restartedAt # None => workload.restartedAt = boot.restartedAt
      BY <1>2, <1>3, AdjustedIsWorkload
    <2>2. /\ workload.plain = boot.plain /\ workload.port = boot.port
          /\ workload.liveness = boot.health /\ workload.readiness = ReadinessAsked(boot)
          /\ workload.image = pass.config.registry
      BY <1>2 DEF RebuildDue
    <2> QED
      BY <1>3, <2>1, <2>2, ReadinessAgrees DEF WorkloadAsAsked
  <1>5. MountsKept
    <2>1. \A v \in Claims : boot.mounts[v] = boot.claims[v]
      BY <1>2 DEF Base, Consistent
    <2>2. boot.mounts # NoMounts => \A v \in Managed : workload.mounts[v] = boot.mounts[v]
      BY <1>2 DEF RebuildDue, RemountDue
    <2> QED
      BY <1>2, <2>1, <2>2 DEF MountsKept
  <1>6. ServiceAsAsked
    <2> DEFINE u == UpdatedService(service, boot)
    <2> HIDE DEF u
    <2>1. /\ u.owned = TRUE /\ u.port = boot.port /\ u.affinity = boot.affinity
          /\ ~boot.scrape => u.annotations = None
          /\ boot.scrape => u.annotations # None /\ u.annotations.port = boot.port
      BY <1>3, UpdatedIsService DEF u
    <2>2. u = service
      BY <1>2 DEF u
    <2>3. "target" \notin overlooked => service.target = service.port
      BY <1>3, DistinctAssumption DEF Undisturbed
    <2>4. "scrape" \notin overlooked => service.annotations = ServiceAnnotation(boot.scrape, boot.port)
      <3>1. service.annotations \in Annotations \union {None}
        BY <1>3 DEF Service
      <3>2. "scrape" \notin overlooked /\ service.annotations # None => service.annotations.scrape
        BY <1>3, DistinctAssumption DEF Undisturbed, Scraped
      <3>3. \A a \in Annotations : a.scrape /\ a.port = boot.port => a = [port |-> boot.port, scrape |-> TRUE]
        BY DEF Annotations
      <3> QED
        BY <2>1, <2>2, <3>1, <3>2, <3>3 DEF ServiceAnnotation
    <2> QED
      BY <2>1, <2>2, <2>3, <2>4 DEF ServiceAsAsked
  <1>7. OthersAsAsked
    <2>1. ASSUME NEW k \in OtherKinds, k \in Expected(boot, workload)
          PROVE  /\ others[k] # None /\ others[k].affinity = boot.affinity
                 /\ k = "external" => /\ others[k].port = others[k].nodePort
                                      /\ others[k].target = boot.port
                 /\ k = "sidecar" => /\ others[k].port = workload.sidecar
                                     /\ others[k].target = workload.sidecar
                                     /\ others[k].annotations # None
                                     /\ others[k].annotations.port = workload.sidecar
      <3>1. others[k] # None
        BY <1>2, <2>1 DEF OthersSettled
      <3>2. PICK chosen \in NodePorts :
               Stored(k, UpdatedOther(k, others[k], NewOther(k, boot, workload)), chosen) = others[k]
        BY <1>2, <2>1 DEF OthersSettled
      <3>3. others[k] \in Other /\ PortOfNodes(k, others[k])
        BY <3>1, Absence DEF Base, TypeOK, Consistent, PortOfNodes
      <3> DEFINE o == others[k]
      <3> HIDE DEF o
      <3>4. /\ o.affinity = boot.affinity
            /\ k = "external" => o.port = o.nodePort /\ o.target = boot.port
            /\ k = "sidecar" => /\ o.port = workload.sidecar /\ o.target = workload.sidecar
                                /\ o.annotations # None /\ o.annotations.port = workload.sidecar
        <4>1. o \in Other /\ PortOfNodes(k, o)
              /\ o = Stored(k, UpdatedOther(k, o, NewOther(k, boot, workload)), chosen)
          BY <3>2, <3>3 DEF o
        <4> QED
          BY <1>3, <2>1, <4>1, UpdatedIsOther
      <3> QED
        BY <3>1, <3>4 DEF o
    <2>2. \A k \in OtherKinds : k \notin Expected(boot, workload) => others[k] = None
      BY <1>2 DEF OthersSettled
    <2>3. boot.nodePort <=> others["external"] # None
      BY <2>1, <2>2, WhichExpected
    <2>4. workload.sidecar = None <=> others["sidecar"] = None
      BY <2>1, <2>2, WhichExpected
    <2>5. /\ "external" \notin overlooked /\ others["external"] # None =>
                others["external"].annotations = None
          /\ "sidecar" \notin overlooked /\ others["sidecar"] # None =>
                others["sidecar"].annotations.scrape
      BY DEF Undisturbed, Annotated
    <2> QED
      BY <2>1, <2>2, <2>3, <2>4, <2>5 DEF OthersAsAsked
  <1>8. HpaAsAsked
    BY <1>2, SameMetrics DEF HpaSettled, HpaAsAsked
  <1> QED
    BY <1>4, <1>5, <1>6, <1>7, <1>8

\* At rest every object is what the Boot asks for in what the comparisons look at,
\* and in what they do not, unless somebody else changed it: a target, a scrape
\* flag, annotations of the other Services.  The last mounts, the mounts that are
\* not managed and the sidecar in the template are not among it.
THEOREM RestIsAsked == Spec => []RestIsAsAsked
  BY InitBase, StepBase, InitInv, StepInv, InitUndisturbed, StepUndisturbed, RestAsAsked, PTL
     DEF Spec

----------------------------------------------------------------------------
(* What a step may do *)

\* A comparison that differs from what was just built is one of the four cases.
LEMMA RebuiltAgain ==
    ASSUME NEW b \in Boot, NEW c \in Config, NEW o \in BOOLEAN,
           NEW w, w = [NewWorkload(b, c) EXCEPT !.owned = o], RebuildDue(w, b, c)
    PROVE  Endless(b, c)
  <1>1. /\ w.image = c.registry /\ w.port = b.port /\ w.liveness = b.health
        /\ w.plain = IF c.override # None THEN c.override ELSE b.plain
        /\ w.readiness = ReadinessProbe(b) /\ w.mounts = MountsOf(b, c)
    BY DEF NewWorkload
  <1>2. ReadinessProbe(b) = ReadinessAsked(b)
    BY ReadinessAgrees
  <1>3. CASE w.plain # b.plain
    BY <1>1, <1>3 DEF Endless
  <1>4. CASE ~b.canonical
    BY <1>4 DEF Endless
  <1>5. CASE RemountDue(w, b)
    BY <1>1, <1>5 DEF Endless, RemountDue
  <1> QED
    BY <1>1, <1>2, <1>3, <1>4, <1>5 DEF RebuildDue

LEMMA WorkloadRewritten ==
    ASSUME Base, UpdateWorkload, pass'.stage = "idle", objects' = objects
    PROVE  Endless(pass.boot, pass.config)
  <1> DEFINE b == pass.boot
  <1>1. b \in Boot /\ pass.config \in Config /\ workload \in Workload
    BY Absence DEF Base, TypeOK, Pass, UpdateWorkload
  <1>2. Adjusted(workload, b).owned \in BOOLEAN
    BY <1>1, AdjustedIsWorkload
  <1>3. ~GoOn("service")
    BY PassWith DEF GoOn, Base, TypeOK
  <1>4. /\ RebuildDue(workload, b, pass.config)
        /\ workload = [NewWorkload(b, pass.config) EXCEPT !.owned = Adjusted(workload, b).owned]
    BY <1>3 DEF UpdateWorkload
  <1> QED
    BY <1>1, <1>2, <1>4, RebuiltAgain

LEMMA HpaRewritten ==
    ASSUME Base, UpdateHpa, ~queued, queued', objects' = objects
    PROVE  Endless(pass.boot, pass.config)
  <1> DEFINE asked == pass.boot.hpa
             written == [owned |-> TRUE, bounds |-> asked.bounds, metrics |-> asked.metrics]
  <1>1. asked \in Hpa \union {None} /\ autoscaler \in Autoscaler \union {None}
    BY BootParts DEF Base, TypeOK, Pass
  <1>2. ~Done(FALSE)
    BY DEF Done, Base, TypeOK
  <1>3. asked # None => written # None
    <2>1. ASSUME NEW h \in Hpa
          PROVE  [owned |-> TRUE, bounds |-> h.bounds, metrics |-> h.metrics] \in Autoscaler
      BY DEF Hpa, Autoscaler
    <2> QED
      BY <1>1, <2>1, DistinctAssumption
  <1>4. /\ asked # None /\ autoscaler = written
        /\ MetricsDiffer(asked.metrics, autoscaler.metrics)
    <2>1. CASE asked = None /\ autoscaler # None /\ autoscaler' = None
      BY <2>1
    <2>2. CASE asked # None /\ autoscaler = None /\ autoscaler' = written
      BY <1>3, <2>2
    <2>3. CASE /\ asked # None /\ autoscaler' = written
               /\ \/ ~autoscaler.owned
                  \/ asked.bounds # autoscaler.bounds
                  \/ MetricsDiffer(asked.metrics, autoscaler.metrics)
      BY <2>3
    <2> QED
      BY <1>2, <2>1, <2>2, <2>3 DEF UpdateHpa
  <1>5. \E m, n \in asked.metrics : m.name = n.name /\ m # n
    BY <1>4 DEF MetricsDiffer
  <1> QED
    BY <1>4, <1>5 DEF Endless

LEMMA RewriteStep ==
    ASSUME Base, [Next]_vars, Rewritten
    PROVE  Endless(pass.boot, pass.config)
  <1>1. /\ pass'.stage = "idle" /\ pass.stage \in {"workload", "hpa"} /\ objects' = objects
        /\ pass.stage = "hpa" => ~queued /\ queued'
    BY DEF Rewritten
  <1>2. pass' # pass
    BY <1>1
  <1>3. Work
    BY <1>2, Zenon DEF Next, vars, UserEdits, EditPlain, EditReplicas, EditPort, EditProbes, EditClaims,
           EditService, EditNodePort, EditHpa, EditRestart, Edit, Reconfigure, TamperWorkload,
           TamperService, TamperHpa, TamperOther, Tamper
  <1>4. Create \/ UpdateWorkload \/ UpdateHpa
    BY <1>1, <1>3 DEF Work, Start, RecordClaims, UpdateService, UpdateOthers
  <1>5. ~Create
    <2>1. NewWorkload(pass.boot, pass.config) # None
      BY Built, DistinctAssumption DEF Base, TypeOK, Pass
    <2> QED
      BY <1>1, <2>1 DEF Create
  <1>6. CASE UpdateWorkload
    BY <1>1, <1>6, WorkloadRewritten
  <1>7. CASE UpdateHpa
    BY <1>1, <1>7, HpaRewritten DEF UpdateHpa
  <1> QED
    BY <1>4, <1>5, <1>6, <1>7

\* What was just built is found in place, but for the four cases.
THEOREM OnlyEndlessRewrite == Spec => RewritesAreExplained
  <1>1. Base /\ [Next]_vars => [Rewritten => Endless(pass.boot, pass.config)]_vars
    BY RewriteStep
  <1> QED
    BY <1>1, InitBase, StepBase, PTL DEF Spec, RewritesAreExplained

LEMMA ExternalStep ==
    ASSUME Base, [Next]_vars,
           others["external"] # None, others'["external"] # None,
           others'["external"].nodePort # others["external"].nodePort
    PROVE  others["external"].target # pass.boot.port
  <1>1. others' # others
    OBVIOUS
  <1>2. ASSUME NEW k \in OtherKinds, TamperOther(k)
        PROVE  FALSE
    BY <1>2, TamperedOther DEF Base, TypeOK
  <1>3. Work
    BY <1>1, <1>2, Zenon DEF Next, vars, UserEdits, EditPlain, EditReplicas, EditPort, EditProbes,
           EditClaims, EditService, EditNodePort, EditHpa, EditRestart, Edit, Reconfigure,
           TamperWorkload, TamperService, TamperHpa
  <1>4. Create \/ UpdateOthers
    BY <1>1, <1>3 DEF Work, Start, RecordClaims, UpdateWorkload, UpdateService, UpdateHpa
  <1>5. ~Create
    BY DEF Create, Base, Consistent
  <1> QED
    BY <1>4, <1>5, OthersUpdated

\* The node's port of the node-port Service changes only when the Boot's port
\* does, or when somebody changed the target.
THEOREM ExternalPort == Spec => ExternalPortStays
  <1>1. Base /\ [Next]_vars =>
           [others["external"] # None /\ others'["external"] # None
              /\ others'["external"].nodePort # others["external"].nodePort
              => others["external"].target # pass.boot.port]_vars
    BY ExternalStep
  <1> QED
    BY <1>1, InitBase, StepBase, PTL DEF Spec, ExternalPortStays

=============================================================================
