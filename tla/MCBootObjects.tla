---------------------------- MODULE MCBootObjects ----------------------------
(* Small instances of BootObjects for TLC. *)
EXTENDS BootObjects

Cpu(target) == [name |-> "cpu", target |-> target]
TwoTargets == {Cpu(50), Cpu(80)}

NoVolumes == [v \in OwnVolumes |-> None]

\* A plain configuration; one from another registry, with a sidecar and a volume.
Bare == [registry |-> "r1", override |-> None, sidecar |-> None, mounts |-> NoVolumes]
Rich == [registry |-> "r2", override |-> None, sidecar |-> 80,
         mounts |-> [v \in OwnVolumes |-> "/x"]]
\* One that sets what the operator compares.
Overriding == [Bare EXCEPT !.override = "b"]
BareRichOverriding == {Bare, Rich, Overriding}

\* A Boot with everything but a claim, and one with nothing but a claim.
Everything ==
    [plain |-> "a", canonical |-> TRUE, replicas |-> "a", port |-> 80,
     health |-> "/h", readiness |-> "/r", claims |-> NoClaims,
     affinity |-> "ClientIP", scrape |-> TRUE, nodePort |-> TRUE,
     hpa |-> [bounds |-> "a", metrics |-> {Cpu(50)}], restartedAt |-> "t",
     recorded |-> NoClaims, mounts |-> NoMounts]
Claiming ==
    [plain |-> "a", canonical |-> TRUE, replicas |-> "a", port |-> 80,
     health |-> None, readiness |-> None, claims |-> [v \in Claims |-> "/x"],
     affinity |-> "None", scrape |-> FALSE, nodePort |-> FALSE,
     hpa |-> None, restartedAt |-> None,
     recorded |-> NoClaims, mounts |-> NoMounts]
EverythingClaiming == {Everything, Claiming}
=============================================================================
