---------------------------- MODULE BootDefaults ----------------------------
(***************************************************************************)
(* The defaults of a Boot and its admission.                               *)
(*                                                                         *)
(* A pass of the controller first gives the Boot its defaults and writes   *)
(* them back; only a Boot that has them all gets past that stage, to its   *)
(* workload and its status.  The write passes the same validating webhook  *)
(* as a user's, which refuses to change an environment variable the        *)
(* configuration fixes; what the operator last merged is remembered in the *)
(* Boot's annotations.  The configuration is replaced at any time, and no  *)
(* pass is queued for that: what queues one are the events of the Boot and *)
(* of its workload, and a pass that asks for the next.                     *)
(*                                                                         *)
(* Abstractions.  An environment is a function of its variables' names, so *)
(* neither their order nor a name given twice is seen; a value is one text *)
(* or one placeholder.  Health, port, scraping and sub-domain are fields   *)
(* that are set or not.  Secrets, priority class and claims are one        *)
(* question, whether what the spec needs is granted.                       *)
(***************************************************************************)
EXTENDS Integers

CONSTANTS
    None,         \* no annotation, no autoscaler
    Names,        \* of environment variables
    Texts,        \* values of variables, ports and other fields
    App,          \* the Boot's name, which "${APP}" stands for
    Fields,       \* plain fields of a spec, "port" among them
    Kind,         \* the type of the Boot, the name of its configuration
    Configs,      \* configurations: the Kind's and the profiles' application specs
    BootSpecs,    \* specs users submit
    MaxEvents     \* bound: users' requests, configurations, grants and failures

Unset == "unset"
Templates == {"${APP}", "${PORT}"}
Resources == {"cpu", "memory"}
Workloads == {"Deployment", "StatefulSet"}
DefaultMaxReplicas == 5

Envs == UNION {[N -> Texts \union Templates] : N \in SUBSET Names}
IsAmounts(list) == DOMAIN list \subseteq Resources /\ list \in [DOMAIN list -> Nat]
Hpas == [enable: BOOLEAN, min: Nat, max: Nat]

\* What is not typed here, the model only compares and copies.
IsSpec(s) ==
    /\ s \in [image: {s.image}, env: Envs, plain: [Fields -> Texts \union {Unset}],
             replicas: Nat \union {-1}, limits: {s.limits}, requests: {s.requests},
             selector: {s.selector}, workload: Workloads \union {""}, pvc: {s.pvc},
             hpa: Hpas \union {None}, needs: BOOLEAN]
    /\ IsAmounts(s.limits) /\ IsAmounts(s.requests)

ASSUME FieldsAssumption == "port" \in Fields
ASSUME TextsAssumption ==
    /\ App \in Texts /\ "0" \in Texts /\ Texts \cap (Templates \union {Unset}) = {}
    /\ None \notin Envs /\ None \notin Hpas
\* applyDefault gives every configuration a port and at least one replica.
ASSUME ConfigAssumption ==
    \A c \in Configs :
        /\ Kind \in DOMAIN c
        /\ \A k \in DOMAIN c :
              /\ c[k].env \in Envs
              /\ c[k].plain \in [Fields -> Texts \union {Unset}] /\ c[k].plain["port"] \in Texts
              /\ c[k].replicas \in Nat \ {0}
              /\ IsAmounts(c[k].limits) /\ IsAmounts(c[k].requests)
ASSUME SpecsAssumption == \A s \in BootSpecs : IsSpec(s)
ASSUME BoundAssumption == MaxEvents \in Nat

VARIABLES
    boot,      \* the Boot in the API server
    config,    \* the configuration in the operator's memory
    granted,   \* whether secrets, claims and priority class are granted to the Boot
    workloads, \* the workloads created for the Boot
    mutating,  \* MUTATION_DEFAULTER: the mutating webhook sets the defaults as well
    work,      \* whether a pass is queued; "overdue": none is, since a new
               \* configuration or a pass that ended early left work to do
    req,       \* the request the user and the operator have in flight
    events     \* what users and the outside did so far

vars == <<boot, config, granted, workloads, mutating, work, req, events>>

Writers == {"user", "operator"}
WorkStates == {"none", "queued", "overdue"}

\* meta: what the annotations remember; status: the workload in the status.
\* fixed and current are history variables: the variables the last merge fixed,
\* and whether that was with the Kind's configuration as it still is.
NewBoot(spec, profile) ==
    [spec |-> spec, profile |-> profile, status |-> "",
     meta |-> [env |-> None, image |-> None, pvc |-> None, volumes |-> None,
               workload |-> ""],
     fixed |-> <<>>, current |-> FALSE]

NoBoot == [status |-> "none"]

Idle == [stage |-> "idle", boot |-> NoBoot, fresh |-> FALSE]

----------------------------------------------------------------------------
(* Helpers *)

\* util.Difference2 on the names of two environments.
Deleted(origin, now) == DOMAIN origin \ DOMAIN now
Added(origin, now) == DOMAIN now \ DOMAIN origin
Modified(origin, now) == {n \in DOMAIN origin \intersect DOMAIN now : origin[n] # now[n]}

\* util.MergeOverride: src wins.
MergeOverride(dst, src) ==
    [n \in DOMAIN dst \union DOMAIN src |-> IF n \in DOMAIN src THEN src[n] ELSE dst[n]]

\* operator.Decode, with the port of the spec, "0" when there is none.
Decode(spec, text) ==
    CASE text = "${APP}"  -> App
      [] text = "${PORT}" -> IF spec.plain["port"] = Unset THEN "0" ELSE spec.plain["port"]
      [] OTHER            -> text

DecodeEnvs(spec, env) == [n \in DOMAIN env |-> Decode(spec, env[n])]

\* GetProfileBootConfig: an unknown profile, or one of a Kind's name, is ignored.
HandlerConfig(b) ==
    IF b.profile \in DOMAIN config \ {Kind} THEN config[b.profile] ELSE config[Kind]

ImageName(b, c) == <<c.registry, b.spec.image>>

\* Mutant: no workload is left as it is.
WorkloadGiven(s) == s.workload

\* Anything but a StatefulSet is a Deployment.
WorkloadOf(s) == IF s.workload = "StatefulSet" THEN "StatefulSet" ELSE "Deployment"

----------------------------------------------------------------------------
(* DefaultValue *)

Amount(list, r) == IF r \in DOMAIN list THEN list[r] ELSE 0

Fills(list, default) ==
    DOMAIN default # {} /\ \E r \in Resources : Amount(list, r) = 0

Fill(list, default) ==
    IF DOMAIN default = {} THEN list
    ELSE IF DOMAIN list = {} THEN default
    ELSE [r \in Resources |-> IF Amount(list, r) = 0 THEN Amount(default, r) ELSE list[r]]

\* No request exceeds its limit.
Cap(requests, limits) ==
    [r \in DOMAIN requests |->
        IF Amount(limits, r) # 0 /\ requests[r] > limits[r] THEN limits[r] ELSE requests[r]]

Scales(hpa) == hpa # None /\ hpa.enable

\* Mutant: the maximum is left as it is.
DefaultMinimum(hpa, c) ==
    IF ~Scales(hpa) THEN hpa ELSE [hpa EXCEPT !.min = IF @ < 1 THEN c.replicas ELSE @]

DefaultHpa(hpa, c) ==
    IF ~Scales(hpa) THEN hpa
    ELSE [hpa EXCEPT !.min = IF @ < 1 THEN c.replicas ELSE @,
                     !.max = IF @ < 2 THEN DefaultMaxReplicas ELSE @]

DefaultSpec(s, c) ==
    LET limits == Fill(s.limits, c.limits) IN
    [s EXCEPT !.plain = [f \in Fields |-> IF @[f] = Unset THEN c.plain[f] ELSE @[f]],
              !.replicas = IF @ < 0 THEN c.replicas ELSE @,
              !.limits = limits,
              !.requests = Cap(Fill(@, c.requests), limits),
              !.selector = MergeOverride(@, c.selector),
              !.workload = IF @ = "" THEN @ ELSE WorkloadOf(s),
              !.hpa = DefaultHpa(@, c)]

\* The environment is merged again when the Boot carries no record of the last
\* merge, or its environment or image is not the one recorded.
NeedsMerge(b, c) ==
    \/ b.meta.env = None
    \/ b.meta.env # b.spec.env
    \/ b.meta.image # ImageName(b, c)

\* The recorded claims are left alone while the spec has the same, some claims.
NeedsClaims(b) == b.meta.pvc \in {None, ""} \/ b.meta.pvc # b.spec.pvc

\* Mutant: the image of the last merge is not recorded.
DefaultMetaButImage(b, c, env) ==
    [b.meta EXCEPT !.env = IF NeedsMerge(b, c) THEN env ELSE @,
                   !.workload = WorkloadOf(b.spec)]

DefaultMeta(b, c, env) ==
    [b.meta EXCEPT
        !.env = IF NeedsMerge(b, c) THEN env ELSE @,
        !.image = IF NeedsMerge(b, c) THEN ImageName(b, c) ELSE @,
        !.pvc = IF NeedsClaims(b) THEN b.spec.pvc ELSE @,
        !.volumes = IF NeedsClaims(b) THEN <<c.volumes, b.spec.pvc>> ELSE @,
        !.workload = WorkloadOf(b.spec)]

DefaultValue(b, c) ==
    LET spec == DefaultSpec(b.spec, c)
        fixed == DecodeEnvs(spec, c.env)
        env == DecodeEnvs(spec, MergeOverride(b.spec.env, fixed))
    IN [b EXCEPT !.meta = DefaultMeta(b, c, env),
                 !.spec = IF NeedsMerge(b, c) THEN [spec EXCEPT !.env = env] ELSE spec,
                 !.fixed = IF NeedsMerge(b, c) THEN fixed ELSE @,
                 !.current = IF NeedsMerge(b, c) THEN c = config[Kind] ELSE @]

\* What DefaultValue returns: a merge is always reported as a change, and so is an
\* amount of zero, also when its default is zero as well.
Changed(b, c) ==
    \/ DefaultValue(b, c) # b
    \/ NeedsMerge(b, c)
    \/ Fills(b.spec.limits, c.limits)
    \/ Fills(b.spec.requests, c.requests)

\* The mutating webhook.
Mutated(b) == IF mutating THEN DefaultValue(b, HandlerConfig(b)) ELSE b

----------------------------------------------------------------------------
(* The validating webhook *)

\* CheckEnvKeys for a new Boot: a fixed variable may only be given its own value.
CreateEnvAllowed(b, c) ==
    \A n \in DOMAIN c.env \intersect DOMAIN b.spec.env :
        Decode(b.spec, b.spec.env[n]) = Decode(b.spec, c.env[n])

\* Mutant: a variable that is removed is not missed.
UpdateEnvAdded(b, c) ==
    b.meta.env # None =>
        \A n \in DOMAIN c.env \intersect DOMAIN b.spec.env :
            b.meta.env = b.spec.env \/ Decode(b.spec, b.spec.env[n]) = c.env[n]

\* checkEnvUpdate: against the environment recorded in the annotations of the
\* request; with none, or an empty one, recorded nothing is checked.  The configured value is
\* compared as it is written, the Boot's as it is decoded.
UpdateEnvAllowed(b, c) ==
    LET origin == b.meta.env
        now == b.spec.env
    IN origin \notin {None, <<>>} =>
        /\ DOMAIN c.env \intersect Deleted(origin, now) = {}
        /\ \A n \in DOMAIN c.env \intersect (Added(origin, now) \union Modified(origin, now)) :
              Decode(b.spec, now[n]) = c.env[n]

ValidHpa(hpa) ==
    hpa # None =>
        /\ hpa.min # 0 => hpa.max # 0
        /\ hpa.min # 0 /\ hpa.max # 0 => hpa.max >= hpa.min

\* Mutant: no workload is any workload.
ValidWorkloadGiven(b) ==
    b.status # "" /\ b.spec.workload # "" => b.status = b.spec.workload

ValidWorkload(b) ==
    b.status # "" =>
        b.status = IF b.spec.workload = "" THEN "Deployment" ELSE b.spec.workload

Granted(b) == b.spec.needs => granted

\* Mutant: an update is checked as a creation is, against the settings only.
AdmittedAsNew(b, new) ==
    /\ CreateEnvAllowed(b, config[Kind])
    /\ ValidHpa(b.spec.hpa)
    /\ ~new => ValidWorkload(b)
    /\ Granted(b)

Admitted(b, new) ==
    /\ IF new THEN CreateEnvAllowed(b, config[Kind]) ELSE UpdateEnvAllowed(b, config[Kind])
    /\ ValidHpa(b.spec.hpa)
    /\ ~new => ValidWorkload(b)
    /\ Granted(b)

----------------------------------------------------------------------------
Init ==
    /\ boot = NoBoot
    /\ config \in Configs
    /\ granted = TRUE
    /\ workloads = {}
    /\ mutating \in BOOLEAN
    /\ work = "none"
    /\ req = [w \in Writers |-> Idle]
    /\ events = 0

\* A step of a user or of the outside.
Happens ==
    /\ events < MaxEvents
    /\ events' = events + 1
    /\ UNCHANGED <<workloads, mutating>>

\* The Boot is sent to the API server; the mutating webhook comes first.
Send(w, b, fresh) ==
    req' = [req EXCEPT ![w] = [stage |-> "validate", boot |-> Mutated(b), fresh |-> fresh]]

Edit(b) ==
    /\ req["user"].stage = "idle"
    /\ Happens
    /\ Send("user", b, TRUE)
    /\ UNCHANGED <<boot, config, granted, work>>

CreateBoot(spec, profile) ==
    /\ boot = NoBoot
    /\ Edit(NewBoot(spec, profile))

\* A user changes anything in the spec but the environment, or the profile.
EditSpec(spec, profile) ==
    /\ boot # NoBoot
    /\ Edit([boot EXCEPT !.spec = [spec EXCEPT !.env = boot.spec.env], !.profile = profile])

\* A user sets a variable, or removes it, and sends the annotations back as read
\* or without the record of the environment (webhook_suite_test.go:213).
SetEnv(n, text, keep) ==
    /\ boot # NoBoot
    /\ Edit([boot EXCEPT !.spec.env = MergeOverride(@, [x \in {n} |-> text]),
                         !.meta.env = IF keep THEN @ ELSE None])

RemoveEnv(n, keep) ==
    /\ boot # NoBoot
    /\ n \in DOMAIN boot.spec.env
    /\ Edit([boot EXCEPT !.spec.env = [x \in DOMAIN @ \ {n} |-> @[x]],
                         !.meta.env = IF keep THEN @ ELSE None])

\* The validating webhook, then the API server, which stores the Boot unless it
\* was written since it was read; a refused request ends.  An event of the Boot
\* queues it; the operator asks for the next pass whatever the answer.
Validate(w) ==
    LET r == req[w] IN
    /\ r.stage = "validate"
    /\ IF r.fresh /\ Admitted(r.boot, boot = NoBoot)
       THEN /\ boot' = r.boot
            /\ req' = [v \in Writers |-> IF v = w THEN Idle
                                         ELSE [req[v] EXCEPT !.fresh = @ /\ boot' = boot]]
       ELSE /\ req' = [req EXCEPT ![w] = Idle]
            /\ UNCHANGED boot
    /\ work' = IF w = "operator" \/ boot' # boot THEN "queued" ELSE work
    /\ UNCHANGED <<config, granted, workloads, mutating, events>>

----------------------------------------------------------------------------
(* A pass of the operator; what it reads may be out of date when it acts on it *)

\* The worker takes the Boot from the queue.
Start ==
    /\ boot # NoBoot
    /\ work = "queued"
    /\ work' = "none"
    /\ req["operator"].stage = "idle"
    /\ req' = [req EXCEPT !["operator"] = [stage |-> "pass", boot |-> boot, fresh |-> TRUE]]
    /\ UNCHANGED <<boot, config, granted, workloads, mutating, events>>

UpdateDefaults ==
    LET r == req["operator"] IN
    /\ r.stage = "pass"
    /\ Changed(r.boot, HandlerConfig(r.boot))
    /\ \E b \in {DefaultValue(r.boot, HandlerConfig(r.boot))} : Send("operator", b, r.fresh)
    /\ UNCHANGED <<boot, config, granted, workloads, mutating, work, events>>

Reported(b) ==
    [b EXCEPT !.status = IF b.spec.workload # "" THEN b.spec.workload
                         ELSE IF @ = "" THEN "Deployment" ELSE @]

\* Past the defaults: create the workload, or report it, and ask for the next
\* pass if there was something to do.
Proceed ==
    LET r == req["operator"] IN
    /\ r.stage = "pass"
    /\ ~Changed(r.boot, HandlerConfig(r.boot))
    /\ IF WorkloadOf(r.boot.spec) \notin workloads
       THEN /\ workloads' = workloads \union {WorkloadOf(r.boot.spec)}
            /\ work' = "queued"
            /\ UNCHANGED boot
       ELSE /\ boot' = IF r.fresh THEN Reported(boot) ELSE boot
            /\ work' = IF Reported(r.boot) # r.boot THEN "queued" ELSE work
            /\ UNCHANGED workloads
    /\ req' = [v \in Writers |-> IF v = "operator" THEN Idle
                                 ELSE [req[v] EXCEPT !.fresh = @ /\ boot' = boot]]
    /\ UNCHANGED <<config, granted, mutating, events>>

----------------------------------------------------------------------------
(* Outside *)

\* The Boot is queued by an event of what it owns, by a restart of the operator
\* or by the informer's resync.
Event ==
    /\ boot # NoBoot
    /\ work' = "queued"
    /\ UNCHANGED <<boot, config, granted, workloads, mutating, req, events>>

\* What is to be done waits for the next event, unless a pass is queued already.
Overdue == IF boot # NoBoot /\ work = "none" THEN "overdue" ELSE work

\* A pass gets to the Service, cannot create it, and is not queued again.
DropPass ==
    LET r == req["operator"] IN
    /\ Happens
    /\ r.stage = "pass"
    /\ ~Changed(r.boot, HandlerConfig(r.boot))
    /\ WorkloadOf(r.boot.spec) \in workloads
    /\ req' = [req EXCEPT !["operator"] = Idle]
    /\ work' = Overdue
    /\ UNCHANGED <<boot, config, granted>>

Aged(b) == IF b = NoBoot THEN NoBoot ELSE [b EXCEPT !.current = FALSE]

\* Another configuration is installed, by the admission of its ConfigMap or a
\* restart of the operator.  No Boot is queued for it.
Reconfigure(c) ==
    /\ Happens
    /\ c # config
    /\ config' = c
    /\ boot' = Aged(boot)
    /\ req' = [w \in Writers |-> [req[w] EXCEPT !.boot = Aged(@)]]
    /\ work' = Overdue
    /\ UNCHANGED granted

\* Somebody grants, or no longer grants, what the Boot needs: no event of the Boot.
Regrant ==
    /\ Happens
    /\ granted' = ~granted
    /\ UNCHANGED <<boot, config, work, req>>

\* A call fails, or another admission plugin refuses the request; of a pass, the
\* Boot is queued again.
Fail(w) ==
    /\ Happens
    /\ req[w].stage # "idle"
    /\ req' = [req EXCEPT ![w] = Idle]
    /\ work' = IF w = "operator" THEN "queued" ELSE work
    /\ UNCHANGED <<boot, config, granted>>

----------------------------------------------------------------------------
Profiles == UNION {DOMAIN c : c \in Configs}

Users ==
    \/ \E s \in BootSpecs, p \in Profiles : CreateBoot(s, p) \/ EditSpec(s, p)
    \/ \E n \in Names, keep \in BOOLEAN :
          RemoveEnv(n, keep) \/ \E t \in Texts \union Templates : SetEnv(n, t, keep)

Operator == Start \/ UpdateDefaults \/ Proceed \/ Validate("operator")

Next ==
    \/ Users
    \/ Validate("user")
    \/ Operator
    \/ Event
    \/ DropPass
    \/ \E c \in Configs : Reconfigure(c)
    \/ Regrant
    \/ \E w \in Writers : Fail(w)

Spec == Init /\ [][Next]_vars

\* The worker goes on with the passes that are queued, and its requests are
\* answered; no event need come, nor an answer to a user.
FairSpec == Spec /\ WF_vars(Operator)

----------------------------------------------------------------------------
(* Properties *)

Settled(b) == ~Changed(b, HandlerConfig(b))

IsBoot(b) ==
    /\ b \in [spec: {b.spec}, profile: {b.profile}, status: Workloads \union {""},
             meta: {b.meta}, fixed: Envs, current: BOOLEAN]
    /\ IsSpec(b.spec)
    /\ b.meta \in [env: Envs \union {None}, image: {b.meta.image}, pvc: {b.meta.pvc},
                  volumes: {b.meta.volumes}, workload: Workloads \union {""}]

\* Every variable keeps its type; what a request carries is a Boot.
TypeOK ==
    /\ boot # NoBoot => IsBoot(boot)
    /\ config \in Configs
    /\ granted \in BOOLEAN
    /\ workloads \subseteq Workloads
    /\ mutating \in BOOLEAN
    /\ work \in WorkStates
    /\ req \in [Writers -> [stage: {"idle", "pass", "validate"},
                           boot: {req[w].boot : w \in Writers}, fresh: BOOLEAN]]
    /\ \A w \in Writers : req[w].stage # "idle" => IsBoot(req[w].boot)
    /\ events \in 0..MaxEvents

\* As long as the Boot carries the record of its environment and the configuration
\* stays, no sequence of accepted requests takes a fixed variable from the Boot or
\* gives it another value: checkEnvUpdate compares with what was last merged,
\* however many updates were stored since.
FixedEnvHolds ==
    boot # NoBoot /\ boot.current /\ boot.meta.env # None =>
        \A n \in DOMAIN boot.fixed :
            /\ n \in DOMAIN boot.spec.env
            /\ Decode(boot.spec, boot.spec.env[n]) = boot.fixed[n]

\* What the last merge fixed is in the record of the environment, decoded; with
\* the configuration still in use, it is what that fixes.
Remembered(b) ==
    b.current /\ b.meta.env # None =>
        /\ DOMAIN b.fixed = DOMAIN config[Kind].env
        /\ \A n \in DOMAIN b.fixed :
              /\ b.fixed[n] \in Texts
              /\ config[Kind].env[n] \in Texts => config[Kind].env[n] = b.fixed[n]
              /\ n \in DOMAIN b.meta.env /\ b.meta.env[n] = b.fixed[n]

\* A fresh request was made from the Boot as it is, whose status it carries.
FreshIsCurrent ==
    \A w \in Writers :
        /\ req[w].fresh /\ req[w].stage = "pass" => boot # NoBoot /\ req[w].boot = boot
        /\ req[w].fresh /\ req[w].stage = "validate" =>
              IF boot = NoBoot
              THEN req[w].boot.status = "" /\ req[w].boot.meta.env \in {None, req[w].boot.spec.env}
              ELSE req[w].boot.status = boot.status

\* The inductive invariant.
IInv ==
    /\ TypeOK
    /\ boot # NoBoot => Remembered(boot)
    /\ \A w \in Writers : req[w].stage # "idle" => Remembered(req[w].boot)
    /\ FreshIsCurrent
    /\ FixedEnvHolds
    /\ boot # NoBoot /\ boot.status # "" => WorkloadOf(boot.spec) = boot.status
    /\ boot # NoBoot => ValidHpa(boot.spec.hpa)

\* The operator's own write of the defaults is never refused by its webhook,
\* whatever was accepted before and whatever configuration came in between,
\* unless a grant was taken away.
OperatorIsAdmitted ==
    boot # NoBoot /\ Granted(boot) => Admitted(DefaultValue(boot, HandlerConfig(boot)), FALSE)

\* Once the status reports a workload, the Boot asks for that workload for good.
ReportedWorkloadStays ==
    [][boot # NoBoot /\ boot.status # "" =>
          boot'.status = boot.status /\ WorkloadOf(boot'.spec) = boot.status]_vars

\* A Boot with the defaults of the configuration in use has nothing to change,
\* until the configuration or the Boot is changed by somebody else: "true if
\* should be updated, false if should not be updated" (boot_handler_defaulter.go:21).
DefaultsAreStable ==
    boot # NoBoot => Settled(DefaultValue(boot, HandlerConfig(boot)))

\* Every Boot gets past the defaults of the configuration in use for good, and to
\* its workload and a status that reports it, unless its grants stay away or what
\* is left to do waits for an event that need not come: since a configuration was
\* installed while no pass was queued, or a pass could not create the Service.  A
\* refused write of the defaults waits for none: the passes it asks for go on
\* until the grant is there.
EventuallyDefaulted ==
    <>[]granted => <>[](boot # NoBoot /\ work # "overdue" =>
        /\ Settled(boot)
        /\ WorkloadOf(boot.spec) \in workloads
        /\ boot.status = WorkloadOf(boot.spec))
=============================================================================
