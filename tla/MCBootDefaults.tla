--------------------------- MODULE MCBootDefaults ---------------------------
(* Small instances of BootDefaults for TLC. *)
EXTENDS BootDefaults, TLC

Empty == <<>>

\* Two configurations of the type, and a profile.
Plain(port) == [f \in {"port"} |-> port]
First == [env |-> "X" :> "a", plain |-> Plain("8080"), replicas |-> 1,
          limits |-> [cpu |-> 2, memory |-> 1], requests |-> [cpu |-> 1, memory |-> 1],
          selector |-> Empty, registry |-> "r1", volumes |-> "none"]
Second == [First EXCEPT !.env = ("X" :> "${PORT}"), !.replicas = 2,
                        !.selector = [zone |-> "z1"], !.volumes = "shared"]
Profile == [First EXCEPT !.env = "Y" :> "${PORT}", !.registry = "r2", !.limits = Empty]

\* Settings that leave an amount to the Boot.
Bare == [First EXCEPT !.limits = [cpu |-> 2]]

ConfigsBare == {"java" :> Bare}
ConfigsABP == {"java" :> First, ("java" :> Second) @@ ("p" :> Profile)}

\* What users submit: little; and a lot.
Small == [image |-> "i1", env |-> Empty, plain |-> Plain(Unset), replicas |-> -1,
          limits |-> Empty, requests |-> Empty, selector |-> Empty, workload |-> "",
          pvc |-> "", hpa |-> [enable |-> TRUE, min |-> 0, max |-> 0], needs |-> FALSE]
Large == [image |-> "i2", env |-> "X" :> "${APP}", plain |-> Plain("9090"), replicas |-> 0,
          limits |-> [cpu |-> 1], requests |-> [cpu |-> 2], selector |-> [zone |-> "z2"],
          workload |-> "StatefulSet", pvc |-> "data",
          hpa |-> [enable |-> TRUE, min |-> 0, max |-> 2], needs |-> TRUE]
SpecsSmallLarge == {Small, Large}
=============================================================================
