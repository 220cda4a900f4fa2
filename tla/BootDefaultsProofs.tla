------------------------- MODULE BootDefaultsProofs -------------------------
(***************************************************************************)
(* Proofs about the defaults of a Boot and its admission, for any names,   *)
(* texts, configurations, Boots and any number of events.                  *)
(***************************************************************************)
EXTENDS BootDefaults, Sequences, TLAPS

IsConfig(c) ==
    /\ c.env \in Envs
    /\ c.plain \in [Fields -> Texts \union {Unset}] /\ c.plain["port"] \in Texts
    /\ c.replicas \in Nat \ {0}
    /\ IsAmounts(c.limits) /\ IsAmounts(c.requests)

----------------------------------------------------------------------------
(* Lemmas about the data *)

\* The Kind's configuration and the one a Boot is handled with are configurations.
LEMMA Configured ==
    ASSUME config \in Configs
    PROVE  IsConfig(config[Kind]) /\ \A b : IsConfig(HandlerConfig(b))
  BY ConfigAssumption DEF HandlerConfig, IsConfig

LEMMA EnvIs ==
    \A e : e \in Envs <=> DOMAIN e \subseteq Names /\ e \in [DOMAIN e -> Texts \union Templates]
  <1>1. ASSUME NEW e \in Envs
        PROVE  DOMAIN e \subseteq Names /\ e \in [DOMAIN e -> Texts \union Templates]
    BY DEF Envs
  <1>2. ASSUME NEW e, DOMAIN e \subseteq Names, e \in [DOMAIN e -> Texts \union Templates]
        PROVE  e \in Envs
    BY <1>2 DEF Envs
  <1> QED BY <1>1, <1>2

\* The parts of a spec.
LEMMA SpecParts ==
    ASSUME NEW s, IsSpec(s)
    PROVE  /\ s.env \in Envs /\ s.plain \in [Fields -> Texts \union {Unset}]
           /\ s.replicas \in Nat \union {-1} /\ s.workload \in Workloads \union {""}
           /\ s.hpa \in Hpas \union {None} /\ s.needs \in BOOLEAN
           /\ IsAmounts(s.limits) /\ IsAmounts(s.requests)
  BY DEF IsSpec

\* Decoding makes a text, and leaves a text alone.
LEMMA Decoding ==
    ASSUME NEW s, s.plain \in [Fields -> Texts \union {Unset}]
    PROVE  /\ \A t \in Texts \union Templates : Decode(s, t) \in Texts
           /\ \A t \in Texts : Decode(s, t) = t
  <1>1. s.plain["port"] \in Texts \union {Unset}
    BY FieldsAssumption
  <1> QED BY <1>1, TextsAssumption DEF Decode, Templates

LEMMA Merging ==
    ASSUME NEW d \in Envs, NEW e \in Envs
    PROVE  /\ MergeOverride(d, e) \in Envs
           /\ DOMAIN MergeOverride(d, e) = DOMAIN d \union DOMAIN e
           /\ \A n \in DOMAIN e : MergeOverride(d, e)[n] = e[n]
  <1>1. /\ DOMAIN d \subseteq Names /\ d \in [DOMAIN d -> Texts \union Templates]
        /\ DOMAIN e \subseteq Names /\ e \in [DOMAIN e -> Texts \union Templates]
    BY EnvIs
  <1> DEFINE m == MergeOverride(d, e)
  <1>2. /\ DOMAIN m = DOMAIN d \union DOMAIN e
        /\ \A n \in DOMAIN d \union DOMAIN e : m[n] = IF n \in DOMAIN e THEN e[n] ELSE d[n]
    BY DEF MergeOverride
  <1>3. \A n \in DOMAIN m : m[n] \in Texts \union Templates
    BY <1>1, <1>2
  <1>4. m = [n \in DOMAIN m |-> m[n]]
    BY DEF MergeOverride
  <1> HIDE DEF m
  <1>5. m \in [DOMAIN m -> Texts \union Templates] /\ DOMAIN m \subseteq Names
    BY <1>1, <1>2, <1>3, <1>4
  <1>6. m \in Envs
    BY <1>5, EnvIs
  <1> QED BY <1>2, <1>6 DEF m

LEMMA DecodingAll ==
    ASSUME NEW s, s.plain \in [Fields -> Texts \union {Unset}], NEW e \in Envs
    PROVE  /\ DecodeEnvs(s, e) \in Envs
           /\ DOMAIN DecodeEnvs(s, e) = DOMAIN e
           /\ \A n \in DOMAIN e : DecodeEnvs(s, e)[n] = Decode(s, e[n]) /\ Decode(s, e[n]) \in Texts
  <1>1. DOMAIN e \subseteq Names /\ e \in [DOMAIN e -> Texts \union Templates]
    BY EnvIs
  <1>2. \A n \in DOMAIN e : Decode(s, e[n]) \in Texts
    BY <1>1, Decoding
  <1>3. DecodeEnvs(s, e) \in [DOMAIN e -> Texts]
    BY <1>2 DEF DecodeEnvs
  <1>4. DecodeEnvs(s, e) \in Envs
    BY <1>1, <1>3, EnvIs
  <1> QED BY <1>2, <1>3, <1>4 DEF DecodeEnvs

\* Filled lists are lists of amounts.
LEMMA Filling ==
    ASSUME NEW list, NEW default, IsAmounts(list), IsAmounts(default)
    PROVE  IsAmounts(Fill(list, default))
  <1>1. \A r \in Resources : Amount(list, r) \in Nat /\ Amount(default, r) \in Nat
    BY DEF IsAmounts, Amount
  <1>2. \A r \in Resources : Amount(list, r) # 0 => r \in DOMAIN list
    BY DEF Amount
  <1>3. [r \in Resources |-> IF Amount(list, r) = 0 THEN Amount(default, r) ELSE list[r]]
            \in [Resources -> Nat]
    BY <1>1, <1>2 DEF IsAmounts
  <1> QED BY <1>3 DEF Fill, IsAmounts

LEMMA Capping ==
    ASSUME NEW requests, NEW limits, IsAmounts(requests), IsAmounts(limits)
    PROVE  IsAmounts(Cap(requests, limits))
  <1>1. \A r \in DOMAIN requests : Amount(limits, r) # 0 => limits[r] \in Nat
    BY DEF IsAmounts, Amount
  <1>2. Cap(requests, limits) \in [DOMAIN requests -> Nat]
    BY <1>1 DEF IsAmounts, Cap
  <1> QED BY <1>2 DEF IsAmounts

LEMMA Scaling ==
    ASSUME NEW hpa \in Hpas \union {None}, NEW c, IsConfig(c)
    PROVE  DefaultHpa(hpa, c) \in Hpas \union {None}
  BY DEF IsConfig, DefaultHpa, Scales, Hpas, DefaultMaxReplicas

\* What the defaults leave alone in a spec, and what they make of the rest.
LEMMA SpecDefaulted ==
    ASSUME NEW s, IsSpec(s), NEW c, IsConfig(c)
    PROVE  LET d == DefaultSpec(s, c)
           IN /\ IsSpec(d)
              /\ d.env = s.env /\ d.image = s.image /\ d.pvc = s.pvc /\ d.needs = s.needs
              /\ d.hpa = DefaultHpa(s.hpa, c)
              /\ WorkloadOf(d) = WorkloadOf(s)
  <1> DEFINE limits == Fill(s.limits, c.limits)
             requests == Cap(Fill(s.requests, c.requests), limits)
             plain == [f \in Fields |-> IF s.plain[f] = Unset THEN c.plain[f] ELSE s.plain[f]]
             replicas == IF s.replicas < 0 THEN c.replicas ELSE s.replicas
             selector == MergeOverride(s.selector, c.selector)
             workload == IF s.workload = "" THEN "" ELSE WorkloadOf(s)
             hpa == DefaultHpa(s.hpa, c)
             d == DefaultSpec(s, c)
  <1>1. /\ s.env \in Envs /\ s.plain \in [Fields -> Texts \union {Unset}]
        /\ s.replicas \in Nat \union {-1} /\ s.workload \in Workloads \union {""}
        /\ s.hpa \in Hpas \union {None} /\ s.needs \in BOOLEAN
        /\ IsAmounts(s.limits) /\ IsAmounts(s.requests)
    BY SpecParts
  <1>2. IsAmounts(limits) /\ IsAmounts(requests)
    BY <1>1, Filling, Capping DEF IsConfig
  <1>3. plain \in [Fields -> Texts \union {Unset}] /\ replicas \in Nat \union {-1}
    BY <1>1 DEF IsConfig
  <1>4. workload \in Workloads \union {""} /\ hpa \in Hpas \union {None}
    BY <1>1, Scaling DEF WorkloadOf, Workloads
  <1>5. d = [s EXCEPT !.plain = plain, !.replicas = replicas, !.limits = limits,
                      !.requests = requests, !.selector = selector, !.workload = workload, !.hpa = hpa]
    BY DEF DefaultSpec
  <1>6. s \in [image: {s.image}, env: Envs, plain: [Fields -> Texts \union {Unset}],
             replicas: Nat \union {-1}, limits: {s.limits}, requests: {s.requests},
             selector: {s.selector}, workload: Workloads \union {""}, pvc: {s.pvc},
             hpa: Hpas \union {None}, needs: BOOLEAN]
    BY DEF IsSpec
  <1> HIDE DEF limits, requests, plain, replicas, selector, workload, hpa, d
  <1>7. /\ d.env = s.env /\ d.image = s.image /\ d.pvc = s.pvc /\ d.needs = s.needs
        /\ d.plain = plain /\ d.replicas = replicas /\ d.limits = limits /\ d.requests = requests
        /\ d.selector = selector /\ d.workload = workload /\ d.hpa = hpa
    BY <1>5, <1>6
  <1>8. d \in [image: {d.image}, env: Envs, plain: [Fields -> Texts \union {Unset}],
             replicas: Nat \union {-1}, limits: {d.limits}, requests: {d.requests},
             selector: {d.selector}, workload: Workloads \union {""}, pvc: {d.pvc},
             hpa: Hpas \union {None}, needs: BOOLEAN]
    BY <1>1, <1>3, <1>4, <1>5, <1>6, <1>7
  <1>9. IsSpec(d)
    BY <1>2, <1>7, <1>8 DEF IsSpec
  <1>10. WorkloadOf(d) = WorkloadOf(s)
    BY <1>1, <1>7 DEF WorkloadOf, workload
  <1> QED BY <1>7, <1>9, <1>10 DEF d, hpa

\* The parts of a Boot.
BootRecord(b) == [spec: {b.spec}, profile: {b.profile}, status: Workloads \union {""},
                  meta: {b.meta}, fixed: Envs, current: BOOLEAN]

MetaRecord(m) == [env: Envs \union {None}, image: {m.image}, pvc: {m.pvc},
                  volumes: {m.volumes}, workload: Workloads \union {""}]

LEMMA BootParts ==
    \A b : IsBoot(b) <=> b \in BootRecord(b) /\ IsSpec(b.spec) /\ b.meta \in MetaRecord(b.meta)
  BY DEF IsBoot, BootRecord, MetaRecord

\* The environment a merge makes, and what it fixes in it.
FixedOf(b, c) == DecodeEnvs(DefaultSpec(b.spec, c), c.env)
EnvOf(b, c) == DecodeEnvs(DefaultSpec(b.spec, c), MergeOverride(b.spec.env, FixedOf(b, c)))

LEMMA Merged ==
    ASSUME NEW b, IsBoot(b), NEW c, IsConfig(c)
    PROVE  /\ FixedOf(b, c) \in Envs /\ DOMAIN FixedOf(b, c) = DOMAIN c.env
           /\ EnvOf(b, c) \in Envs
           /\ \A n \in DOMAIN c.env :
                 /\ FixedOf(b, c)[n] \in Texts
                 /\ c.env[n] \in Texts => c.env[n] = FixedOf(b, c)[n]
                 /\ n \in DOMAIN EnvOf(b, c) /\ EnvOf(b, c)[n] = FixedOf(b, c)[n]
  <1> DEFINE s == DefaultSpec(b.spec, c)
             fixed == FixedOf(b, c)
             m == MergeOverride(b.spec.env, fixed)
  <1>1. IsSpec(b.spec)
    BY DEF IsBoot
  <1>2. s.plain \in [Fields -> Texts \union {Unset}]
    BY <1>1, SpecDefaulted, SpecParts
  <1>3. c.env \in Envs /\ b.spec.env \in Envs
    BY <1>1, SpecParts DEF IsConfig
  <1> HIDE DEF s
  <1>4. fixed = DecodeEnvs(s, c.env) /\ EnvOf(b, c) = DecodeEnvs(s, m)
    BY DEF FixedOf, EnvOf, s
  <1>5. /\ fixed \in Envs /\ DOMAIN fixed = DOMAIN c.env
        /\ \A n \in DOMAIN c.env : fixed[n] = Decode(s, c.env[n]) /\ fixed[n] \in Texts
    BY <1>2, <1>3, <1>4, DecodingAll
  <1>6. \A n \in DOMAIN c.env : c.env[n] \in Texts => c.env[n] = fixed[n]
    BY <1>2, <1>5, Decoding
  <1> HIDE DEF fixed
  <1>7. /\ m \in Envs /\ DOMAIN m = DOMAIN b.spec.env \union DOMAIN fixed
        /\ \A n \in DOMAIN fixed : m[n] = fixed[n]
    BY <1>3, <1>5, Merging
  <1> HIDE DEF m
  <1>8. /\ DecodeEnvs(s, m) \in Envs /\ DOMAIN DecodeEnvs(s, m) = DOMAIN m
        /\ \A n \in DOMAIN m : DecodeEnvs(s, m)[n] = Decode(s, m[n])
    BY <1>2, <1>7, DecodingAll
  <1>9. \A n \in DOMAIN c.env : n \in DOMAIN m /\ DecodeEnvs(s, m)[n] = fixed[n]
    BY <1>2, <1>5, <1>7, <1>8, Decoding
  <1> QED BY <1>4, <1>5, <1>6, <1>8, <1>9 DEF fixed

\* What the defaults make of a Boot.
LEMMA Defaulted ==
    ASSUME NEW b, IsBoot(b), NEW c, IsConfig(c)
    PROVE  LET d == DefaultValue(b, c)
           IN /\ IsBoot(d)
              /\ d.profile = b.profile /\ d.status = b.status
              /\ d.spec = IF NeedsMerge(b, c) THEN [DefaultSpec(b.spec, c) EXCEPT !.env = EnvOf(b, c)]
                          ELSE DefaultSpec(b.spec, c)
              /\ d.spec.env = IF NeedsMerge(b, c) THEN EnvOf(b, c) ELSE b.spec.env
              /\ d.meta = DefaultMeta(b, c, EnvOf(b, c))
              /\ d.meta.env = d.spec.env
              /\ d.fixed = IF NeedsMerge(b, c) THEN FixedOf(b, c) ELSE b.fixed
              /\ d.current = IF NeedsMerge(b, c) THEN c = config[Kind] ELSE b.current
              /\ d.spec.hpa = DefaultHpa(b.spec.hpa, c) /\ d.spec.needs = b.spec.needs
              /\ WorkloadOf(d.spec) = WorkloadOf(b.spec)
  <1> DEFINE merge == NeedsMerge(b, c)
             ds == DefaultSpec(b.spec, c)
             env == EnvOf(b, c)
             spec == IF merge THEN [ds EXCEPT !.env = env] ELSE ds
             meta == DefaultMeta(b, c, env)
             fixed == IF merge THEN FixedOf(b, c) ELSE b.fixed
             current == IF merge THEN c = config[Kind] ELSE b.current
             d == DefaultValue(b, c)
  <1>1. b \in BootRecord(b) /\ IsSpec(b.spec) /\ b.meta \in MetaRecord(b.meta)
    BY BootParts
  <1>2. d = [b EXCEPT !.meta = meta, !.spec = spec, !.fixed = fixed, !.current = current]
    BY DEF DefaultValue, EnvOf, FixedOf
  <1>3. /\ IsSpec(ds) /\ ds.env = b.spec.env /\ ds.hpa = DefaultHpa(b.spec.hpa, c)
        /\ ds.needs = b.spec.needs /\ WorkloadOf(ds) = WorkloadOf(b.spec)
    BY <1>1, SpecDefaulted
  <1>4. env \in Envs /\ FixedOf(b, c) \in Envs
    BY Merged
  <1> HIDE DEF ds, env
  <1>5. /\ IsSpec(spec) /\ spec.env = IF merge THEN env ELSE b.spec.env
        /\ spec.hpa = ds.hpa /\ spec.needs = ds.needs /\ WorkloadOf(spec) = WorkloadOf(ds)
    BY <1>3, <1>4 DEF IsSpec, WorkloadOf
  <1>6. /\ meta \in MetaRecord(meta)
        /\ meta.env = IF merge THEN env ELSE b.meta.env
    <2>1. WorkloadOf(b.spec) \in Workloads
      BY DEF WorkloadOf, Workloads
    <2> QED BY <1>1, <1>4, <2>1 DEF DefaultMeta, MetaRecord
  <1>7. ~merge => b.meta.env = b.spec.env
    BY DEF NeedsMerge
  <1>8. fixed \in Envs /\ current \in BOOLEAN
    BY <1>1, <1>4 DEF BootRecord
  <1> HIDE DEF spec, meta, fixed, current, d, merge
  <1>9. /\ d.meta = meta /\ d.spec = spec /\ d.fixed = fixed /\ d.current = current
        /\ d.profile = b.profile /\ d.status = b.status
    BY <1>1, <1>2 DEF BootRecord
  <1>10. d \in BootRecord(d)
    BY <1>1, <1>2, <1>8, <1>9 DEF BootRecord
  <1>11. IsBoot(d)
    BY <1>5, <1>6, <1>9, <1>10, BootParts
  <1> QED BY <1>3, <1>5, <1>6, <1>7, <1>9, <1>11 DEF d, spec, meta, fixed, current, merge, ds, env

----------------------------------------------------------------------------
(* Fixed variables *)

Sound(b) == IsBoot(b) /\ Remembered(b)

\* FixedEnvHolds, of one Boot.
Holds(b) ==
    b.current /\ b.meta.env # None =>
        \A n \in DOMAIN b.fixed :
            /\ n \in DOMAIN b.spec.env
            /\ Decode(b.spec, b.spec.env[n]) = b.fixed[n]

LEMMA DefaultedIsSound ==
    ASSUME config \in Configs, NEW b, Sound(b)
    PROVE  Sound(DefaultValue(b, HandlerConfig(b)))
  <1> DEFINE c == HandlerConfig(b)
             d == DefaultValue(b, c)
  <1>1. IsBoot(b) /\ IsConfig(c) /\ Remembered(b)
    BY Configured DEF Sound
  <1> HIDE DEF c
  <1>2. /\ IsBoot(d) /\ d.spec.env = IF NeedsMerge(b, c) THEN EnvOf(b, c) ELSE b.spec.env
        /\ d.meta.env = d.spec.env
        /\ d.fixed = IF NeedsMerge(b, c) THEN FixedOf(b, c) ELSE b.fixed
        /\ d.current = IF NeedsMerge(b, c) THEN c = config[Kind] ELSE b.current
    BY <1>1, Defaulted
  <1> HIDE DEF d
  <1>3. CASE NeedsMerge(b, c)
    <2>1. /\ DOMAIN FixedOf(b, c) = DOMAIN c.env
          /\ \A n \in DOMAIN c.env :
                /\ FixedOf(b, c)[n] \in Texts
                /\ c.env[n] \in Texts => c.env[n] = FixedOf(b, c)[n]
                /\ n \in DOMAIN EnvOf(b, c) /\ EnvOf(b, c)[n] = FixedOf(b, c)[n]
      BY <1>1, Merged
    <2>2. d.meta.env = EnvOf(b, c) /\ d.fixed = FixedOf(b, c) /\ d.current = (c = config[Kind])
      BY <1>2, <1>3
    <2>3. Remembered(d)
      BY <2>1, <2>2 DEF Remembered
    <2> QED BY <1>2, <2>3 DEF Sound, d, c
  <1>4. CASE ~NeedsMerge(b, c)
    <2>1. b.meta.env = b.spec.env
      BY <1>4 DEF NeedsMerge
    <2>2. d.meta.env = b.meta.env /\ d.fixed = b.fixed /\ d.current = b.current
      BY <1>2, <1>4, <2>1
    <2>3. Remembered(d)
      BY <1>1, <2>2 DEF Remembered
    <2> QED BY <1>2, <2>3 DEF Sound, d, c
  <1> QED BY <1>3, <1>4

LEMMA MutatedIsSound ==
    ASSUME config \in Configs, NEW b, Sound(b)
    PROVE  /\ Sound(Mutated(b)) /\ Mutated(b).status = b.status
           /\ Mutated(b) = b \/ Mutated(b).meta.env = Mutated(b).spec.env
  <1>1. IsBoot(b) /\ IsConfig(HandlerConfig(b))
    BY Configured DEF Sound
  <1>2. LET d == DefaultValue(b, HandlerConfig(b))
        IN d.status = b.status /\ d.meta.env = d.spec.env
    BY <1>1, Defaulted
  <1> QED BY <1>2, DefaultedIsSound DEF Mutated

\* What the webhook admits holds what is fixed: a variable that is as recorded has
\* its recorded value, a text; one that is not was compared with the configuration.
LEMMA AdmittedHolds ==
    ASSUME config \in Configs, NEW b, Sound(b), UpdateEnvAllowed(b, config[Kind])
    PROVE  Holds(b)
  <1> DEFINE c == config[Kind]
             origin == b.meta.env
             now == b.spec.env
  <1> SUFFICES ASSUME b.current, b.meta.env # None, NEW n \in DOMAIN b.fixed
               PROVE  n \in DOMAIN now /\ Decode(b.spec, now[n]) = b.fixed[n]
    BY DEF Holds
  <1>1. /\ n \in DOMAIN c.env /\ b.fixed[n] \in Texts
        /\ c.env[n] \in Texts => c.env[n] = b.fixed[n]
        /\ n \in DOMAIN origin /\ origin[n] = b.fixed[n]
    BY DEF Sound, Remembered
  <1>2. /\ IsSpec(b.spec) /\ now \in Envs
        /\ b.spec.plain \in [Fields -> Texts \union {Unset}]
    BY SpecParts DEF Sound, IsBoot
  <1>3. now \in [DOMAIN now -> Texts \union Templates]
    BY <1>2, EnvIs
  <1>4. origin \notin {None, <<>>}
    BY <1>1
  <1>5. /\ DOMAIN c.env \intersect Deleted(origin, now) = {}
        /\ \A x \in DOMAIN c.env \intersect (Added(origin, now) \union Modified(origin, now)) :
              Decode(b.spec, now[x]) = c.env[x]
    BY <1>4 DEF UpdateEnvAllowed
  <1>6. n \in DOMAIN now
    BY <1>1, <1>5 DEF Deleted
  <1>7. CASE now[n] = origin[n]
    BY <1>1, <1>2, <1>6, <1>7, Decoding
  <1>8. CASE now[n] # origin[n]
    <2>1. Decode(b.spec, now[n]) = c.env[n]
      BY <1>1, <1>5, <1>6, <1>8 DEF Modified
    <2>2. Decode(b.spec, now[n]) \in Texts
      BY <1>2, <1>3, <1>6, Decoding
    <2> QED BY <1>1, <1>6, <2>1, <2>2
  <1> QED BY <1>7, <1>8

\* A Boot whose record is its environment holds what is fixed.
LEMMA RecordedHolds ==
    ASSUME config \in Configs, NEW b, Sound(b), b.meta.env = b.spec.env
    PROVE  Holds(b)
  <1>1. b.spec.plain \in [Fields -> Texts \union {Unset}]
    BY SpecParts DEF Sound, IsBoot
  <1> QED BY <1>1, Decoding DEF Holds, Sound, Remembered

----------------------------------------------------------------------------
(* What users send *)

LEMMA NewIsSound ==
    ASSUME NEW s \in BootSpecs, NEW p
    PROVE  LET b == NewBoot(s, p) IN Sound(b) /\ b.status = "" /\ b.meta.env = None
  <1> DEFINE b == NewBoot(s, p)
  <1>1. <<>> \in Envs
    <2> DEFINE e == <<>>
    <2>1. e \in Seq(Texts) /\ Len(e) = 0
      OBVIOUS
    <2>2. e \in [1..0 -> Texts]
      BY <2>1
    <2> HIDE DEF e
    <2>3. DOMAIN e = {} /\ e \in [DOMAIN e -> Texts]
      BY <2>2
    <2>4. e \in [DOMAIN e -> Texts \union Templates]
      BY <2>3
    <2> QED BY <2>3, <2>4, EnvIs DEF e
  <1>2. b \in BootRecord(b) /\ b.meta \in MetaRecord(b.meta) /\ b.spec = s
    BY <1>1 DEF NewBoot, BootRecord, MetaRecord
  <1>3. IsBoot(b)
    BY <1>2, BootParts, SpecsAssumption
  <1>4. Remembered(b) /\ b.status = "" /\ b.meta.env = None
    BY DEF Remembered, NewBoot
  <1> QED BY <1>3, <1>4 DEF Sound

\* Another spec under the old environment, another profile, another environment
\* under the old record or none.
LEMMA EditedIsSound ==
    ASSUME NEW b, Sound(b), NEW s, IsSpec(s), NEW p, NEW e,
           e.spec = s /\ e.profile = p /\ e.status = b.status,
           e \in BootRecord(e), e.fixed = b.fixed, e.current = b.current,
           \/ e.meta = b.meta
           \/ e.meta = [b.meta EXCEPT !.env = None]
    PROVE  Sound(e)
  <1>1. b.meta \in MetaRecord(b.meta)
    BY BootParts DEF Sound
  <1>2. e.meta \in MetaRecord(e.meta) /\ e.meta.env \in {b.meta.env, None}
    BY <1>1 DEF MetaRecord
  <1>3. IsBoot(e)
    BY <1>2, BootParts
  <1>4. Remembered(e)
    BY <1>2 DEF Sound, Remembered
  <1> QED BY <1>3, <1>4 DEF Sound

\* What a user may send.
Sendable(b) ==
    /\ Sound(b)
    /\ IF boot = NoBoot THEN b.status = "" /\ b.meta.env = None ELSE b.status = boot.status
    /\ \/ \E s \in BootSpecs : b.spec.hpa = s.hpa
       \/ boot # NoBoot /\ b.spec.hpa = boot.spec.hpa

\* What a user's request does to the state.
LEMMA UserSends ==
    ASSUME IInv, Users
    PROVE  /\ UNCHANGED <<boot, config, granted, workloads, mutating>>
           /\ events' \in 0..MaxEvents
           /\ \E b : /\ Sendable(b)
                     /\ req' = [req EXCEPT !["user"] =
                                   [stage |-> "validate", boot |-> Mutated(b), fresh |-> TRUE]]
  <1>1. events \in 0..MaxEvents /\ MaxEvents \in Nat
    BY BoundAssumption DEF IInv, TypeOK
  <1>2. ASSUME NEW b, Edit(b), Sendable(b)
        PROVE  /\ UNCHANGED <<boot, config, granted, workloads, mutating>>
               /\ events' \in 0..MaxEvents
               /\ \E x : /\ Sendable(x)
                         /\ req' = [req EXCEPT !["user"] =
                                       [stage |-> "validate", boot |-> Mutated(x), fresh |-> TRUE]]
    <2>1. UNCHANGED <<boot, config, granted, workloads, mutating>> /\ events' = events + 1 /\ events < MaxEvents
      BY <1>2 DEF Edit, Happens
    <2>2. events' \in 0..MaxEvents
      BY <1>1, <2>1
    <2>3. req' = [req EXCEPT !["user"] = [stage |-> "validate", boot |-> Mutated(b), fresh |-> TRUE]]
      BY <1>2 DEF Edit, Send
    <2> QED BY <1>2, <2>1, <2>2, <2>3
  <1>3. ASSUME NEW s \in BootSpecs, NEW p, CreateBoot(s, p)
        PROVE  \E b : Edit(b) /\ Sendable(b)
    <2>1. boot = NoBoot /\ Edit(NewBoot(s, p))
      BY <1>3 DEF CreateBoot
    <2>2. Sendable(NewBoot(s, p))
      <3>1. NewBoot(s, p).spec = s
        BY DEF NewBoot
      <3> QED BY <2>1, <3>1, NewIsSound DEF Sendable
    <2> QED BY <2>1, <2>2
  <1>4. boot # NoBoot => Sound(boot) /\ boot \in BootRecord(boot) /\ IsSpec(boot.spec)
                       /\ boot.meta \in MetaRecord(boot.meta)
    BY BootParts DEF IInv, TypeOK, Sound
  <1>5. ASSUME NEW s \in BootSpecs, NEW p, EditSpec(s, p)
        PROVE  \E b : Edit(b) /\ Sendable(b)
    <2> DEFINE spec == [s EXCEPT !.env = boot.spec.env]
               e == [boot EXCEPT !.spec = spec, !.profile = p]
    <2>1. boot # NoBoot /\ Edit(e)
      BY <1>5 DEF EditSpec
    <2>2. IsSpec(spec) /\ spec.hpa = s.hpa
      BY <1>4, <2>1, SpecsAssumption DEF IsSpec
    <2> HIDE DEF spec
    <2>3. /\ e.spec = spec /\ e.profile = p /\ e.status = boot.status /\ e.meta = boot.meta
          /\ e.fixed = boot.fixed /\ e.current = boot.current /\ e \in BootRecord(e)
      BY <1>4, <2>1 DEF BootRecord
    <2> HIDE DEF e
    <2>4. Sound(e)
      BY <1>4, <2>1, <2>2, <2>3, EditedIsSound
    <2> QED BY <2>1, <2>2, <2>3, <2>4 DEF Sendable
  <1>6. ASSUME NEW env \in Envs, NEW keep \in BOOLEAN, boot # NoBoot,
               Edit([boot EXCEPT !.spec.env = env, !.meta.env = IF keep THEN @ ELSE None])
        PROVE  \E b : Edit(b) /\ Sendable(b)
    <2> DEFINE spec == [boot.spec EXCEPT !.env = env]
               meta == IF keep THEN boot.meta ELSE [boot.meta EXCEPT !.env = None]
               e == [boot EXCEPT !.spec = spec, !.meta = meta]
    <2>1. IsSpec(spec) /\ spec.hpa = boot.spec.hpa
      BY <1>4, <1>6 DEF IsSpec
    <2>2. e = [boot EXCEPT !.spec.env = env, !.meta.env = IF keep THEN @ ELSE None]
      <3>1. keep => [boot.meta EXCEPT !.env = boot.meta.env] = boot.meta
        BY <1>4, <1>6 DEF MetaRecord
      <3>2. [boot.meta EXCEPT !.env = IF keep THEN boot.meta.env ELSE None] = meta
        BY <3>1
      <3> QED BY <1>4, <1>6, <3>2 DEF BootRecord
    <2> HIDE DEF spec, meta
    <2>3. /\ e.spec = spec /\ e.profile = boot.profile /\ e.status = boot.status /\ e.meta = meta
          /\ e.fixed = boot.fixed /\ e.current = boot.current /\ e \in BootRecord(e)
      BY <1>4, <1>6 DEF BootRecord
    <2> HIDE DEF e
    <2>4. Sound(e)
      <3>1. e.meta = boot.meta \/ e.meta = [boot.meta EXCEPT !.env = None]
        BY <2>3 DEF meta
      <3> QED BY <1>4, <1>6, <2>1, <2>3, <3>1, EditedIsSound
    <2> QED BY <1>6, <2>1, <2>2, <2>3, <2>4 DEF Sendable
  <1>7. ASSUME NEW n \in Names, NEW t \in Texts \union Templates, NEW keep \in BOOLEAN, SetEnv(n, t, keep)
        PROVE  \E b : Edit(b) /\ Sendable(b)
    <2> DEFINE env == MergeOverride(boot.spec.env, [x \in {n} |-> t])
    <2>1. boot # NoBoot /\ Edit([boot EXCEPT !.spec.env = env, !.meta.env = IF keep THEN @ ELSE None])
      <3>1. boot # NoBoot /\ boot \in BootRecord(boot) /\ boot.spec.env = boot.spec.env
        BY <1>4, <1>7 DEF SetEnv
      <3> QED BY <1>7, <3>1 DEF SetEnv
    <2>2. [x \in {n} |-> t] \in Envs /\ boot.spec.env \in Envs
      BY <1>4, <2>1, EnvIs, SpecParts
    <2>3. env \in Envs
      BY <2>2, Merging
    <2> HIDE DEF env
    <2> QED BY <1>6, <2>1, <2>3
  <1>8. ASSUME NEW n \in Names, NEW keep \in BOOLEAN, RemoveEnv(n, keep)
        PROVE  \E b : Edit(b) /\ Sendable(b)
    <2> DEFINE old == boot.spec.env
               env == [x \in DOMAIN old \ {n} |-> old[x]]
    <2>1. boot # NoBoot /\ Edit([boot EXCEPT !.spec.env = env, !.meta.env = IF keep THEN @ ELSE None])
      BY <1>8 DEF RemoveEnv
    <2>2. old \in Envs
      BY <1>4, <2>1, SpecParts
    <2>3. env \in Envs
      <3> HIDE DEF old
      <3>1. DOMAIN old \subseteq Names /\ old \in [DOMAIN old -> Texts \union Templates]
        BY <2>2, EnvIs
      <3>2. env \in [DOMAIN old \ {n} -> Texts \union Templates]
        BY <3>1
      <3> QED BY <3>1, <3>2, EnvIs
    <2> HIDE DEF env
    <2> QED BY <1>6, <2>1, <2>3
  <1>9. \E b : Edit(b) /\ Sendable(b)
    BY <1>3, <1>5, <1>7, <1>8 DEF Users
  <1> QED BY <1>2, <1>9

----------------------------------------------------------------------------
(* The state, part by part *)

\* Sound, under a given configuration.
SoundUnder(c, b) ==
    /\ IsBoot(b)
    /\ b.current /\ b.meta.env # None =>
          /\ DOMAIN b.fixed = DOMAIN c[Kind].env
          /\ \A n \in DOMAIN b.fixed :
                /\ b.fixed[n] \in Texts
                /\ c[Kind].env[n] \in Texts => c[Kind].env[n] = b.fixed[n]
                /\ n \in DOMAIN b.meta.env /\ b.meta.env[n] = b.fixed[n]

GoodBoot(c, b) ==
    b # NoBoot =>
        /\ SoundUnder(c, b) /\ Holds(b) /\ ValidHpa(b.spec.hpa)
        /\ b.status # "" => WorkloadOf(b.spec) = b.status

GoodRequest(c, b, r) ==
    /\ r \in [stage: {"idle", "pass", "validate"}, boot: {r.boot}, fresh: BOOLEAN]
    /\ r.stage # "idle" => SoundUnder(c, r.boot)
    /\ r.fresh /\ r.stage = "pass" => b # NoBoot /\ r.boot = b
    /\ r.fresh /\ r.stage = "validate" =>
          IF b = NoBoot THEN r.boot.status = "" /\ r.boot.meta.env \in {None, r.boot.spec.env}
                        ELSE r.boot.status = b.status

LEMMA SoundIs == \A b : Sound(b) <=> SoundUnder(config, b)
  BY DEF Sound, Remembered, SoundUnder

LEMMA BootIsNot == ~IsBoot(NoBoot)
  <1> SUFFICES ASSUME IsBoot(NoBoot) PROVE FALSE
    OBVIOUS
  <1>1. NoBoot \in BootRecord(NoBoot)
    BY BootParts
  <1>2. NoBoot.status \in Workloads \union {""}
    BY <1>1 DEF BootRecord
  <1> QED BY <1>2 DEF NoBoot, Workloads

\* The inductive invariant, read and written part by part.
LEMMA Reading ==
    ASSUME IInv
    PROVE  /\ GoodBoot(config, boot)
           /\ req = [w \in Writers |-> req[w]]
           /\ \A w \in Writers : GoodRequest(config, boot, req[w])
           /\ config \in Configs /\ granted \in BOOLEAN /\ workloads \subseteq Workloads
           /\ mutating \in BOOLEAN /\ work \in WorkStates /\ events \in 0..MaxEvents
  <1>1. GoodBoot(config, boot)
    BY DEF IInv, TypeOK, GoodBoot, SoundUnder, Remembered, Holds, FixedEnvHolds
  <1>2. ASSUME NEW w \in Writers PROVE GoodRequest(config, boot, req[w])
    <2>1. req[w] \in [stage: {"idle", "pass", "validate"}, boot: {req[w].boot}, fresh: BOOLEAN]
      BY DEF IInv, TypeOK
    <2>2. req[w].stage # "idle" => IsBoot(req[w].boot) /\ Remembered(req[w].boot)
      BY DEF IInv, TypeOK
    <2>3. req[w].stage # "idle" => SoundUnder(config, req[w].boot)
      BY <2>2 DEF Remembered, SoundUnder
    <2> QED BY <2>1, <2>3 DEF IInv, FreshIsCurrent, GoodRequest
  <1> QED BY <1>1, <1>2 DEF IInv, TypeOK

LEMMA Writing ==
    ASSUME GoodBoot(config', boot'), req' = [w \in Writers |-> req'[w]],
           \A w \in Writers : GoodRequest(config', boot', req'[w]),
           config' \in Configs, granted' \in BOOLEAN, workloads' \subseteq Workloads,
           mutating' \in BOOLEAN, work' \in WorkStates, events' \in 0..MaxEvents
    PROVE  IInv'
  <1>1. \A w \in Writers :
            req'[w] \in [stage: {"idle", "pass", "validate"}, boot: {req'[w].boot}, fresh: BOOLEAN]
    BY DEF GoodRequest
  <1>2. req' \in [Writers -> [stage: {"idle", "pass", "validate"},
                             boot: {req'[w].boot : w \in Writers}, fresh: BOOLEAN]]
    BY <1>1
  <1>3. \A w \in Writers : req'[w].stage # "idle" => SoundUnder(config', req'[w].boot)
    BY DEF GoodRequest
  <1>4. \A w \in Writers : req'[w].stage # "idle" => IsBoot(req'[w].boot) /\ Remembered(req[w].boot)'
    BY <1>3 DEF SoundUnder, Remembered
  <1>5. boot' # NoBoot => IsBoot(boot') /\ Remembered(boot)'
    BY DEF GoodBoot, SoundUnder, Remembered
  <1>6. TypeOK'
    BY <1>2, <1>4, <1>5 DEF TypeOK
  <1>7. FreshIsCurrent'
    BY DEF FreshIsCurrent, GoodRequest
  <1>8. FixedEnvHolds'
    BY DEF GoodBoot, Holds, FixedEnvHolds
  <1>9. /\ boot' # NoBoot /\ boot'.status # "" => WorkloadOf(boot'.spec) = boot'.status
        /\ boot' # NoBoot => ValidHpa(boot'.spec.hpa)
    BY DEF GoodBoot
  <1> QED BY <1>4, <1>5, <1>6, <1>7, <1>8, <1>9 DEF IInv

LEMMA IdleIsGood ==
    \A c, b : GoodRequest(c, b, Idle)
  BY DEF GoodRequest, Idle

----------------------------------------------------------------------------
(* Steps *)

\* A Boot is sent.
LEMMA Sending ==
    ASSUME IInv, NEW w \in Writers, NEW b, Sound(b), NEW fresh \in BOOLEAN,
           fresh => IF boot = NoBoot THEN b.status = "" /\ b.meta.env \in {None, b.spec.env}
                                     ELSE b.status = boot.status,
           req' = [req EXCEPT ![w] = [stage |-> "validate", boot |-> Mutated(b), fresh |-> fresh]],
           UNCHANGED <<boot, config, granted, workloads, mutating>>,
           work' \in WorkStates, events' \in 0..MaxEvents
    PROVE  IInv'
  <1> DEFINE r == [stage |-> "validate", boot |-> Mutated(b), fresh |-> fresh]
  <1>1. /\ GoodBoot(config, boot) /\ req = [v \in Writers |-> req[v]]
        /\ \A v \in Writers : GoodRequest(config, boot, req[v])
        /\ config \in Configs /\ granted \in BOOLEAN /\ workloads \subseteq Workloads
        /\ mutating \in BOOLEAN
    BY Reading
  <1>2. /\ SoundUnder(config, Mutated(b)) /\ Mutated(b).status = b.status
        /\ Mutated(b) = b \/ Mutated(b).meta.env = Mutated(b).spec.env
    BY <1>1, MutatedIsSound, SoundIs
  <1>3. GoodRequest(config, boot, r)
    BY <1>2 DEF GoodRequest
  <1> HIDE DEF r
  <1>4. req' = [v \in Writers |-> IF v = w THEN r ELSE req[v]]
    BY <1>1 DEF r
  <1>5. \A v \in Writers : GoodRequest(config', boot', req'[v])
    BY <1>1, <1>3, <1>4
  <1> QED BY <1>1, <1>4, <1>5, Writing

\* A request ends, and nothing else changes.
LEMMA Ending ==
    ASSUME IInv, NEW w \in Writers, req' = [req EXCEPT ![w] = Idle],
           UNCHANGED <<boot, config, granted, workloads, mutating>>,
           work' \in WorkStates, events' \in 0..MaxEvents
    PROVE  IInv'
  <1>1. /\ GoodBoot(config, boot) /\ req = [v \in Writers |-> req[v]]
        /\ \A v \in Writers : GoodRequest(config, boot, req[v])
        /\ config \in Configs /\ granted \in BOOLEAN /\ workloads \subseteq Workloads
        /\ mutating \in BOOLEAN
    BY Reading
  <1>2. req' = [v \in Writers |-> IF v = w THEN Idle ELSE req[v]]
    BY <1>1
  <1>3. \A v \in Writers : GoodRequest(config', boot', req'[v])
    BY <1>1, <1>2, IdleIsGood
  <1> QED BY <1>1, <1>2, <1>3, Writing

\* A request ends with a write of the Boot, which makes all others stale if it
\* changes the Boot.
LEMMA Storing ==
    ASSUME IInv, NEW w \in Writers,
           req' = [v \in Writers |-> IF v = w THEN Idle
                                     ELSE [req[v] EXCEPT !.fresh = @ /\ boot' = boot]],
           GoodBoot(config, boot'), workloads' \subseteq Workloads,
           UNCHANGED <<config, granted, mutating, events>>, work' \in WorkStates
    PROVE  IInv'
  <1>1. /\ \A v \in Writers : GoodRequest(config, boot, req[v])
        /\ config \in Configs /\ granted \in BOOLEAN
        /\ mutating \in BOOLEAN /\ events \in 0..MaxEvents
    BY Reading
  <1>2. ASSUME NEW v \in Writers, v # w
        PROVE  GoodRequest(config, boot', req'[v])
    <2>1. req'[v] = [req[v] EXCEPT !.fresh = @ /\ boot' = boot]
      BY <1>2
    <2>2. GoodRequest(config, boot, req[v])
      BY <1>1
    <2>3. CASE boot' = boot
      <3>1. req'[v] = req[v]
        BY <2>1, <2>2, <2>3 DEF GoodRequest
      <3> QED BY <2>2, <2>3, <3>1
    <2>4. CASE boot' # boot
      <3>1. /\ req'[v].stage = req[v].stage /\ req'[v].boot = req[v].boot /\ ~req'[v].fresh
            /\ req'[v] \in [stage: {"idle", "pass", "validate"}, boot: {req'[v].boot}, fresh: BOOLEAN]
        BY <2>1, <2>2, <2>4 DEF GoodRequest
      <3> QED BY <2>2, <3>1 DEF GoodRequest
    <2> QED BY <2>3, <2>4
  <1>3. \A v \in Writers : GoodRequest(config', boot', req'[v])
    BY <1>2, IdleIsGood
  <1> QED BY <1>1, <1>3, Writing

\* What Validate stores: a Boot under whose status its workload stays.
LEMMA ValidateStores ==
    ASSUME IInv, NEW w \in Writers, req[w].stage = "validate", req[w].fresh,
           Admitted(req[w].boot, boot = NoBoot)
    PROVE  /\ GoodBoot(config, req[w].boot)
           /\ boot # NoBoot => req[w].boot.status = boot.status
  <1> DEFINE b == req[w].boot
  <1>1. GoodRequest(config, boot, req[w]) /\ config \in Configs
    BY Reading
  <1>2. /\ SoundUnder(config, b)
        /\ IF boot = NoBoot THEN b.status = "" /\ b.meta.env \in {None, b.spec.env}
                            ELSE b.status = boot.status
    BY <1>1 DEF GoodRequest
  <1>3. Sound(b)
    BY <1>2, SoundIs
  <1>4. ValidHpa(b.spec.hpa)
    BY DEF Admitted
  <1>5. Holds(b)
    <2>1. CASE boot = NoBoot
      <3>1. b.meta.env = None \/ b.meta.env = b.spec.env
        BY <1>2, <2>1
      <3>2. b.meta.env = None => Holds(b)
        BY DEF Holds
      <3>3. b.meta.env = b.spec.env => Holds(b)
        BY <1>1, <1>3, RecordedHolds
      <3> QED BY <3>1, <3>2, <3>3
    <2>2. CASE boot # NoBoot
      <3>1. UpdateEnvAllowed(b, config[Kind])
        BY <2>2 DEF Admitted
      <3> QED BY <1>1, <1>3, <3>1, AdmittedHolds
    <2> QED BY <2>1, <2>2
  <1>6. b.status # "" => WorkloadOf(b.spec) = b.status
    <2>1. CASE boot = NoBoot
      BY <1>2, <2>1
    <2>2. CASE boot # NoBoot
      <3>1. ValidWorkload(b)
        BY <2>2 DEF Admitted
      <3>2. b.spec.workload \in Workloads \union {""}
        BY <1>3, SpecParts DEF Sound, IsBoot
      <3> QED BY <3>1, <3>2 DEF ValidWorkload, WorkloadOf, Workloads
    <2> QED BY <2>1, <2>2
  <1> QED BY <1>2, <1>4, <1>5, <1>6 DEF GoodBoot

LEMMA ValidateKeeps ==
    ASSUME IInv, NEW w \in Writers, Validate(w)
    PROVE  IInv'
  <1> DEFINE r == req[w]
  <1>1. r.stage = "validate" /\ UNCHANGED <<config, granted, workloads, mutating, events>>
    BY DEF Validate
  <1>2. /\ workloads \subseteq Workloads /\ events \in 0..MaxEvents
        /\ work' \in WorkStates
    BY Reading DEF Validate, WorkStates
  <1>3. CASE r.fresh /\ Admitted(r.boot, boot = NoBoot)
    <2>1. /\ boot' = r.boot
          /\ req' = [v \in Writers |-> IF v = w THEN Idle
                                       ELSE [req[v] EXCEPT !.fresh = @ /\ boot' = boot]]
      BY <1>3 DEF Validate
    <2>2. GoodBoot(config, boot')
      BY <1>1, <1>3, <2>1, ValidateStores
    <2> QED BY <1>1, <1>2, <2>1, <2>2, Storing
  <1>4. CASE ~(r.fresh /\ Admitted(r.boot, boot = NoBoot))
    <2>1. req' = [req EXCEPT ![w] = Idle] /\ UNCHANGED boot
      BY <1>4 DEF Validate
    <2> QED BY <1>1, <1>2, <2>1, Ending
  <1> QED BY <1>3, <1>4

LEMMA UserKeeps ==
    ASSUME IInv, Users
    PROVE  IInv'
  <1>1. /\ UNCHANGED <<boot, config, granted, workloads, mutating>> /\ events' \in 0..MaxEvents
        /\ \E b : /\ Sendable(b)
                  /\ req' = [req EXCEPT !["user"] =
                                [stage |-> "validate", boot |-> Mutated(b), fresh |-> TRUE]]
    BY UserSends
  <1>2. PICK b : /\ Sendable(b)
                 /\ req' = [req EXCEPT !["user"] =
                               [stage |-> "validate", boot |-> Mutated(b), fresh |-> TRUE]]
    BY <1>1
  <1>3. "user" \in Writers /\ work' \in WorkStates
    BY Reading DEF Writers, Users, CreateBoot, EditSpec, SetEnv, RemoveEnv, Edit
  <1> QED BY <1>1, <1>2, <1>3, Sending DEF Sendable

LEMMA StartKeeps ==
    ASSUME IInv, Start
    PROVE  IInv'
  <1> DEFINE r == [stage |-> "pass", boot |-> boot, fresh |-> TRUE]
  <1>1. /\ GoodBoot(config, boot) /\ req = [v \in Writers |-> req[v]]
        /\ \A v \in Writers : GoodRequest(config, boot, req[v])
        /\ config \in Configs /\ granted \in BOOLEAN /\ workloads \subseteq Workloads
        /\ mutating \in BOOLEAN /\ events \in 0..MaxEvents
    BY Reading
  <1>2. /\ boot # NoBoot /\ req' = [req EXCEPT !["operator"] = r]
        /\ UNCHANGED <<boot, config, granted, workloads, mutating, events>>
        /\ work' \in WorkStates
    BY DEF Start, WorkStates
  <1>3. GoodRequest(config, boot, r)
    BY <1>1, <1>2 DEF GoodRequest, GoodBoot
  <1> HIDE DEF r
  <1>4. req' = [v \in Writers |-> IF v = "operator" THEN r ELSE req[v]]
    BY <1>1, <1>2
  <1>5. \A v \in Writers : GoodRequest(config', boot', req'[v])
    BY <1>1, <1>2, <1>3, <1>4
  <1> QED BY <1>1, <1>2, <1>4, <1>5, Writing

LEMMA UpdateDefaultsKeeps ==
    ASSUME IInv, UpdateDefaults
    PROVE  IInv'
  <1> DEFINE r == req["operator"]
             d == DefaultValue(r.boot, HandlerConfig(r.boot))
  <1>1. GoodRequest(config, boot, r) /\ config \in Configs /\ events \in 0..MaxEvents
        /\ work \in WorkStates
    BY Reading DEF Writers
  <1>2. /\ r.stage = "pass" /\ UNCHANGED <<boot, config, granted, workloads, mutating, work, events>>
        /\ req' = [req EXCEPT !["operator"] = [stage |-> "validate", boot |-> Mutated(d), fresh |-> r.fresh]]
    BY DEF UpdateDefaults, Send
  <1>3. Sound(r.boot) /\ r.fresh \in BOOLEAN /\ (r.fresh => boot # NoBoot /\ r.boot = boot)
    BY <1>1, <1>2, SoundIs DEF GoodRequest
  <1>4. Sound(d) /\ d.status = r.boot.status
    <2>1. IsConfig(HandlerConfig(r.boot))
      BY <1>1, Configured
    <2> QED BY <1>1, <1>3, <2>1, Defaulted, DefaultedIsSound DEF Sound
  <1> HIDE DEF d
  <1>5. r.fresh => IF boot = NoBoot THEN d.status = "" /\ d.meta.env \in {None, d.spec.env}
                                    ELSE d.status = boot.status
    BY <1>3, <1>4
  <1>6. "operator" \in Writers
    BY DEF Writers
  <1> QED BY <1>1, <1>2, <1>3, <1>4, <1>5, <1>6, Sending

\* What Proceed reports.
LEMMA ProceedStores ==
    ASSUME IInv, Proceed
    PROVE  /\ GoodBoot(config, boot')
           /\ boot # NoBoot => /\ boot' # NoBoot /\ boot'.spec = boot.spec
                               /\ boot.status # "" => boot'.status = boot.status
  <1> DEFINE r == req["operator"]
             status == IF r.boot.spec.workload # "" THEN r.boot.spec.workload
                       ELSE IF boot.status = "" THEN "Deployment" ELSE boot.status
  <1>1. GoodRequest(config, boot, r) /\ GoodBoot(config, boot) /\ r.stage = "pass"
    BY Reading DEF Proceed, Writers
  <1>2. boot' = boot \/ (r.fresh /\ boot' = [boot EXCEPT !.status = status])
    <2>1. CASE r.fresh /\ boot' = Reported(boot)
      <3>1. r.boot = boot
        BY <1>1, <2>1 DEF GoodRequest
      <3> QED BY <2>1, <3>1 DEF Reported
    <2> QED BY <2>1 DEF Proceed
  <1>3. CASE boot' = boot
    BY <1>1, <1>3
  <1>4. CASE r.fresh /\ boot' = [boot EXCEPT !.status = status]
    <2>1. boot # NoBoot /\ r.boot = boot
      BY <1>1, <1>4 DEF GoodRequest
    <2>2. /\ SoundUnder(config, boot) /\ Holds(boot) /\ ValidHpa(boot.spec.hpa)
          /\ boot.status # "" => WorkloadOf(boot.spec) = boot.status
      BY <1>1, <2>1 DEF GoodBoot
    <2>3. /\ boot \in BootRecord(boot) /\ IsSpec(boot.spec) /\ boot.meta \in MetaRecord(boot.meta)
          /\ boot.spec.workload \in Workloads \union {""}
      BY <2>2, BootParts, SpecParts DEF SoundUnder
    <2>4. status \in Workloads /\ WorkloadOf(boot.spec) = status
          /\ (boot.status # "" => status = boot.status)
      BY <2>1, <2>2, <2>3 DEF WorkloadOf, Workloads, BootRecord
    <2> HIDE DEF status
    <2>5. /\ boot'.spec = boot.spec /\ boot'.status = status /\ boot'.meta = boot.meta
          /\ boot'.fixed = boot.fixed /\ boot'.current = boot.current
          /\ boot' \in BootRecord(boot')
      BY <1>4, <2>3, <2>4 DEF BootRecord
    <2>6. IsBoot(boot')
      BY <2>3, <2>5, BootParts
    <2>7. SoundUnder(config, boot') /\ Holds(boot')
      BY <2>2, <2>5, <2>6, ZenonT(60) DEF SoundUnder, Holds
    <2>8. boot' # NoBoot
      BY <2>6, BootIsNot
    <2> QED BY <2>2, <2>4, <2>5, <2>7, <2>8 DEF GoodBoot
  <1> QED BY <1>2, <1>3, <1>4

LEMMA ProceedKeeps ==
    ASSUME IInv, Proceed
    PROVE  IInv'
  <1>1. workloads \subseteq Workloads
    BY Reading
  <1>2. /\ UNCHANGED <<config, granted, mutating, events>>
        /\ req' = [v \in Writers |-> IF v = "operator" THEN Idle
                                     ELSE [req[v] EXCEPT !.fresh = @ /\ boot' = boot]]
    BY DEF Proceed
  <1>3. workloads' \subseteq Workloads /\ work' \in WorkStates
    BY <1>1, Reading DEF Proceed, WorkloadOf, Workloads, WorkStates
  <1>4. "operator" \in Writers
    BY DEF Writers
  <1> QED BY <1>2, <1>3, <1>4, ProceedStores, Storing

\* What is left of a Boot's record under another configuration.
LEMMA Ageing ==
    ASSUME NEW b, IsBoot(b), NEW c
    PROVE  /\ SoundUnder(c, Aged(b)) /\ Holds(Aged(b)) /\ Aged(b) # NoBoot
           /\ Aged(b).spec = b.spec /\ Aged(b).status = b.status /\ Aged(b).meta = b.meta
  <1> DEFINE a == Aged(b)
  <1>1. /\ b # NoBoot /\ b \in BootRecord(b) /\ IsSpec(b.spec) /\ b.meta \in MetaRecord(b.meta)
    BY BootParts, BootIsNot
  <1>2. a = [b EXCEPT !.current = FALSE]
    BY <1>1 DEF Aged
  <1> HIDE DEF a
  <1>3. /\ a.spec = b.spec /\ a.status = b.status /\ a.meta = b.meta /\ ~a.current
        /\ a \in BootRecord(a)
    BY <1>1, <1>2 DEF BootRecord
  <1>4. IsBoot(a)
    BY <1>1, <1>3, BootParts
  <1>5. a # NoBoot
    BY <1>4, BootIsNot
  <1> QED BY <1>3, <1>4, <1>5 DEF SoundUnder, Holds, a

LEMMA ReconfigureKeeps ==
    ASSUME IInv, NEW c \in Configs, Reconfigure(c)
    PROVE  IInv'
  <1>1. /\ GoodBoot(config, boot) /\ req = [v \in Writers |-> req[v]]
        /\ \A v \in Writers : GoodRequest(config, boot, req[v])
        /\ granted \in BOOLEAN /\ workloads \subseteq Workloads
        /\ mutating \in BOOLEAN /\ events \in 0..MaxEvents
    BY Reading
  <1>2. /\ config' = c /\ boot' = Aged(boot) /\ UNCHANGED <<granted, workloads, mutating>>
        /\ req' = [w \in Writers |-> [req[w] EXCEPT !.boot = Aged(@)]]
        /\ events < MaxEvents /\ events' = events + 1 /\ work' \in WorkStates
    BY Reading DEF Reconfigure, Happens, Overdue, WorkStates
  <1>3. events' \in 0..MaxEvents
    BY <1>1, <1>2, BoundAssumption
  <1>4. boot # NoBoot => /\ SoundUnder(c, boot') /\ Holds(boot') /\ boot' # NoBoot
                         /\ boot'.spec = boot.spec /\ boot'.status = boot.status
    <2> SUFFICES ASSUME boot # NoBoot
                 PROVE  /\ SoundUnder(c, Aged(boot)) /\ Holds(Aged(boot)) /\ Aged(boot) # NoBoot
                        /\ Aged(boot).spec = boot.spec /\ Aged(boot).status = boot.status
      BY <1>2
    <2>1. IsBoot(boot)
      BY <1>1 DEF GoodBoot, SoundUnder
    <2> QED BY <2>1, Ageing
  <1>5. boot = NoBoot => boot' = NoBoot
    BY <1>2 DEF Aged
  <1>6. GoodBoot(c, boot')
    BY <1>1, <1>4, <1>5 DEF GoodBoot
  <1>7. ASSUME NEW w \in Writers PROVE GoodRequest(c, boot', req'[w])
    <2>1. GoodRequest(config, boot, req[w])
      BY <1>1
    <2>2. /\ req'[w].stage = req[w].stage /\ req'[w].fresh = req[w].fresh
          /\ req'[w].boot = Aged(req[w].boot)
          /\ req'[w] \in [stage: {"idle", "pass", "validate"}, boot: {req'[w].boot}, fresh: BOOLEAN]
      BY <1>2, <2>1 DEF GoodRequest
    <2>3. CASE req[w].stage = "idle"
      BY <2>2, <2>3 DEF GoodRequest
    <2>4. CASE req[w].stage # "idle"
      <3>1. /\ SoundUnder(c, req'[w].boot)
            /\ req'[w].boot.spec = req[w].boot.spec /\ req'[w].boot.status = req[w].boot.status
            /\ req'[w].boot.meta = req[w].boot.meta
        <4>1. IsBoot(req[w].boot)
          BY <2>1, <2>4 DEF GoodRequest, SoundUnder
        <4>2. LET a == Aged(req[w].boot)
              IN /\ SoundUnder(c, a) /\ a.spec = req[w].boot.spec
                 /\ a.status = req[w].boot.status /\ a.meta = req[w].boot.meta
          BY <4>1, Ageing
        <4> QED BY <2>2, <4>2
      <3> QED BY <1>2, <1>4, <1>5, <2>1, <2>2, <3>1 DEF GoodRequest
    <2> QED BY <2>3, <2>4
  <1> QED BY <1>1, <1>2, <1>3, <1>6, <1>7, Writing

LEMMA RegrantKeeps ==
    ASSUME IInv, Regrant
    PROVE  IInv'
  <1>1. /\ GoodBoot(config, boot) /\ req = [v \in Writers |-> req[v]]
        /\ \A v \in Writers : GoodRequest(config, boot, req[v])
        /\ config \in Configs /\ granted \in BOOLEAN /\ workloads \subseteq Workloads
        /\ mutating \in BOOLEAN /\ events \in 0..MaxEvents
    BY Reading
  <1>2. /\ granted' = ~granted /\ UNCHANGED <<boot, config, req, workloads, mutating>>
        /\ events < MaxEvents /\ events' = events + 1 /\ work' \in WorkStates
    BY Reading DEF Regrant, Happens
  <1>3. events' \in 0..MaxEvents /\ granted' \in BOOLEAN
    BY <1>1, <1>2, BoundAssumption
  <1> QED BY <1>1, <1>2, <1>3, Writing

LEMMA FailKeeps ==
    ASSUME IInv, NEW w \in Writers, Fail(w)
    PROVE  IInv'
  <1>1. events \in 0..MaxEvents
    BY Reading
  <1>2. /\ req' = [req EXCEPT ![w] = Idle]
        /\ UNCHANGED <<boot, config, granted, workloads, mutating>>
        /\ events < MaxEvents /\ events' = events + 1 /\ work' \in WorkStates
    BY Reading DEF Fail, Happens, WorkStates
  <1>3. events' \in 0..MaxEvents
    BY <1>1, <1>2, BoundAssumption
  <1> QED BY <1>2, <1>3, Ending

LEMMA DropPassKeeps ==
    ASSUME IInv, DropPass
    PROVE  IInv'
  <1>1. events \in 0..MaxEvents /\ work \in WorkStates
    BY Reading
  <1>2. /\ req' = [req EXCEPT !["operator"] = Idle] /\ "operator" \in Writers
        /\ UNCHANGED <<boot, config, granted, workloads, mutating>>
        /\ events < MaxEvents /\ events' = events + 1 /\ work' \in WorkStates
    BY <1>1 DEF DropPass, Happens, Overdue, WorkStates, Writers
  <1>3. events' \in 0..MaxEvents
    BY <1>1, <1>2, BoundAssumption
  <1> QED BY <1>2, <1>3, Ending

LEMMA EventKeeps ==
    ASSUME IInv, Event
    PROVE  IInv'
  <1>1. /\ GoodBoot(config, boot) /\ req = [v \in Writers |-> req[v]]
        /\ \A v \in Writers : GoodRequest(config, boot, req[v])
        /\ config \in Configs /\ granted \in BOOLEAN /\ workloads \subseteq Workloads
        /\ mutating \in BOOLEAN /\ events \in 0..MaxEvents
    BY Reading
  <1>2. UNCHANGED <<boot, config, granted, workloads, mutating, req, events>> /\ work' \in WorkStates
    BY DEF Event, WorkStates
  <1> QED BY <1>1, <1>2, Writing

LEMMA StutterKeeps ==
    ASSUME IInv, UNCHANGED vars
    PROVE  IInv'
  <1>1. /\ GoodBoot(config, boot) /\ req = [v \in Writers |-> req[v]]
        /\ \A v \in Writers : GoodRequest(config, boot, req[v])
        /\ config \in Configs /\ granted \in BOOLEAN /\ workloads \subseteq Workloads
        /\ mutating \in BOOLEAN /\ events \in 0..MaxEvents
    BY Reading
  <1>2. work' \in WorkStates
    BY Reading DEF vars
  <1> QED BY <1>1, <1>2, Writing DEF vars

----------------------------------------------------------------------------
(* Theorems *)

\* The inductive invariant holds: what the last merge fixed is remembered in the
\* annotations of the Boot and of every request in flight (boot_handler_defaulter.go:370),
\* and a request that is not stale carries the status of the Boot as it is.
THEOREM Invariance == Spec => []IInv
  <1>1. Init => IInv
    <2> SUFFICES ASSUME Init PROVE IInv
      OBVIOUS
    <2>1. 0 \in 0..MaxEvents
      BY BoundAssumption
    <2>2. TypeOK
      BY <2>1 DEF Init, TypeOK, Idle, WorkStates
    <2> QED BY <2>2 DEF Init, IInv, Idle, FreshIsCurrent, FixedEnvHolds
  <1>2. IInv /\ [Next]_vars => IInv'
    <2> SUFFICES ASSUME IInv, [Next]_vars PROVE IInv'
      OBVIOUS
    <2>1. CASE Users BY <2>1, UserKeeps
    <2>2. CASE Validate("user") BY <2>2, ValidateKeeps DEF Writers
    <2>3. CASE Operator
      BY <2>3, StartKeeps, UpdateDefaultsKeeps, ProceedKeeps, ValidateKeeps DEF Operator, Writers
    <2>4. CASE \E c \in Configs : Reconfigure(c) BY <2>4, ReconfigureKeeps
    <2>5. CASE Regrant BY <2>5, RegrantKeeps
    <2>6. CASE \E w \in Writers : Fail(w) BY <2>6, FailKeeps
    <2>7. CASE Event BY <2>7, EventKeeps
    <2>8. CASE DropPass BY <2>8, DropPassKeeps
    <2>9. CASE UNCHANGED vars BY <2>9, StutterKeeps
    <2> QED BY <2>1, <2>2, <2>3, <2>4, <2>5, <2>6, <2>7, <2>8, <2>9 DEF Next
  <1> QED BY <1>1, <1>2, PTL DEF Spec

\* Every variable keeps its type, the Boots in flight included.
THEOREM TypeCorrectness == Spec => []TypeOK
  <1>1. IInv => TypeOK
    BY DEF IInv
  <1> QED BY <1>1, Invariance, PTL

\* Whatever is accepted in whatever order, a Boot that carries the record of its
\* environment keeps every variable the configuration in use fixed at the last
\* merge, with its value (checkEnvUpdate, boot_validation.go:455).
THEOREM FixedStays == Spec => []FixedEnvHolds
  <1>1. IInv => FixedEnvHolds
    BY DEF IInv
  <1> QED BY <1>1, Invariance, PTL

\* No write, of a user or of the operator, moves a Boot off the workload its status
\* reports (CheckWorkload, boot_validation.go).
THEOREM WorkloadStays == Spec => ReportedWorkloadStays
  <1> DEFINE Stays == boot # NoBoot /\ boot.status # "" =>
                         boot'.status = boot.status /\ WorkloadOf(boot'.spec) = boot.status
  <1>1. IInv /\ [Next]_vars => Stays
    <2> SUFFICES ASSUME IInv, [Next]_vars, boot # NoBoot, boot.status # ""
                 PROVE  boot'.status = boot.status /\ WorkloadOf(boot'.spec) = boot.status
      OBVIOUS
    <2>1. GoodBoot(config, boot)
      BY Reading
    <2>2. WorkloadOf(boot.spec) = boot.status /\ IsBoot(boot)
      BY <2>1 DEF GoodBoot, SoundUnder
    <2>3. boot' = boot => Stays
      BY <2>2
    <2>4. CASE Users BY <2>3, <2>4, UserSends
    <2>5. ASSUME NEW w \in Writers, Validate(w) PROVE Stays
      <3> DEFINE r == req[w]
      <3>1. CASE r.fresh /\ Admitted(r.boot, boot = NoBoot)
        <4>1. r.stage = "validate" /\ boot' = r.boot
          BY <2>5, <3>1 DEF Validate
        <4>2. GoodBoot(config, r.boot) /\ r.boot.status = boot.status
          BY <3>1, <4>1, ValidateStores
        <4>3. r.boot # NoBoot
          <5>1. GoodRequest(config, boot, req[w])
            BY Reading
          <5> QED BY <4>1, <5>1, BootIsNot DEF GoodRequest, SoundUnder
        <4> QED BY <4>1, <4>2, <4>3 DEF GoodBoot
      <3>2. CASE ~(r.fresh /\ Admitted(r.boot, boot = NoBoot))
        BY <2>3, <2>5, <3>2 DEF Validate
      <3> QED BY <3>1, <3>2
    <2>6. CASE Operator
      <3>1. CASE Start BY <2>3, <3>1 DEF Start
      <3>2. CASE UpdateDefaults BY <2>3, <3>2 DEF UpdateDefaults
      <3>3. CASE Proceed BY <2>2, <3>3, ProceedStores
      <3> QED BY <2>5, <2>6, <3>1, <3>2, <3>3 DEF Operator, Writers
    <2>7. CASE \E c \in Configs : Reconfigure(c)
      BY <2>2, <2>7, Ageing DEF Reconfigure
    <2>8. CASE Regrant BY <2>3, <2>8 DEF Regrant
    <2>9. CASE \E w \in Writers : Fail(w) BY <2>3, <2>9 DEF Fail
    <2>10. CASE Event \/ DropPass BY <2>3, <2>10 DEF Event, DropPass
    <2>11. CASE UNCHANGED vars BY <2>3, <2>11 DEF vars
    <2> QED BY <2>4, <2>5, <2>6, <2>7, <2>8, <2>9, <2>10, <2>11 DEF Next, Writers
  <1> QED BY <1>1, Invariance, PTL DEF Spec, ReportedWorkloadStays

----------------------------------------------------------------------------
(* The operator's own write *)

\* No configuration asks for more replicas than the autoscaler is given by default,
\* or than the maximum a spec gives itself.
FewReplicas ==
    /\ \A c \in Configs : \A k \in DOMAIN c : c[k].replicas <= DefaultMaxReplicas
    /\ \A s \in BootSpecs : s.hpa # None /\ s.hpa.max >= 2 =>
          \A c \in Configs : \A k \in DOMAIN c : c[k].replicas <= s.hpa.max

Roomy(hpa) ==
    hpa # None /\ hpa.max >= 2 => \A c \in Configs : \A k \in DOMAIN c : c[k].replicas <= hpa.max

HpaRoom ==
    /\ boot # NoBoot => Roomy(boot.spec.hpa)
    /\ \A w \in Writers : req[w].stage # "idle" => Roomy(req[w].boot.spec.hpa)

LEMMA DefaultsAreRoomy ==
    ASSUME FewReplicas, config \in Configs, NEW b, IsBoot(b), Roomy(b.spec.hpa)
    PROVE  Roomy(DefaultValue(b, HandlerConfig(b)).spec.hpa)
  <1> DEFINE hpa == b.spec.hpa
             c == HandlerConfig(b)
             d == DefaultHpa(hpa, c)
  <1>1. IsConfig(c) /\ hpa \in Hpas \union {None}
    BY Configured, SpecParts DEF IsBoot
  <1>2. DefaultValue(b, c).spec.hpa = d
    BY <1>1, Defaulted
  <1> HIDE DEF c, hpa
  <1>3. d = hpa \/ (d # None /\ d.max \in {hpa.max, DefaultMaxReplicas} /\ hpa # None)
    <2>1. CASE Scales(hpa)
      <3>1. hpa \in Hpas /\ hpa # None
        BY <1>1, <2>1 DEF Scales
      <3>2. d \in Hpas /\ d.max \in {hpa.max, DefaultMaxReplicas}
        BY <1>1, <2>1, <3>1 DEF DefaultHpa, Hpas, DefaultMaxReplicas, IsConfig
      <3> QED BY <3>1, <3>2, TextsAssumption
    <2> QED BY <2>1 DEF DefaultHpa
  <1> HIDE DEF d
  <1>4. Roomy(hpa)
    BY DEF hpa
  <1>5. Roomy(d)
    BY <1>3, <1>4 DEF Roomy, FewReplicas
  <1> QED BY <1>2, <1>5 DEF c

LEMMA SentIsRoomy ==
    ASSUME FewReplicas, IInv, HpaRoom, NEW w \in Writers, NEW b, IsBoot(b), Roomy(b.spec.hpa), NEW fresh,
           req' = [req EXCEPT ![w] = [stage |-> "validate", boot |-> Mutated(b), fresh |-> fresh]],
           UNCHANGED boot
    PROVE  HpaRoom'
  <1>1. req = [v \in Writers |-> req[v]] /\ config \in Configs
    BY Reading
  <1>2. Roomy(Mutated(b).spec.hpa)
    BY <1>1, DefaultsAreRoomy DEF Mutated
  <1>3. req'[w].boot = Mutated(b) /\ \A v \in Writers \ {w} : req'[v] = req[v]
    BY <1>1
  <1> QED BY <1>2, <1>3 DEF HpaRoom

\* Requests that end, grow stale or age keep what they carry.
LEMMA SameIsRoomy ==
    ASSUME HpaRoom,
           boot' # NoBoot => \/ boot # NoBoot /\ boot'.spec.hpa = boot.spec.hpa
                             \/ \E w \in Writers : req[w].stage # "idle" /\ boot'.spec.hpa = req[w].boot.spec.hpa,
           \A w \in Writers : req'[w].stage # "idle" =>
                \/ req[w].stage # "idle" /\ req'[w].boot.spec.hpa = req[w].boot.spec.hpa
                \/ boot # NoBoot /\ req'[w].boot.spec.hpa = boot.spec.hpa
    PROVE  HpaRoom'
  BY DEF HpaRoom

LEMMA RoomIsKept ==
    ASSUME FewReplicas, IInv, HpaRoom, [Next]_vars
    PROVE  HpaRoom'
  <1>1. /\ GoodBoot(config, boot) /\ req = [v \in Writers |-> req[v]]
        /\ \A v \in Writers : GoodRequest(config, boot, req[v])
        /\ config \in Configs
    BY Reading
  <1>2. Idle.stage = "idle"
    BY DEF Idle
  <1>3. CASE Users
    <2>1. PICK b : /\ Sendable(b)
                   /\ req' = [req EXCEPT !["user"] =
                                 [stage |-> "validate", boot |-> Mutated(b), fresh |-> TRUE]]
      BY <1>3, UserSends
    <2>2. UNCHANGED boot
      BY <1>3, UserSends
    <2>3. IsBoot(b) /\ Roomy(b.spec.hpa)
      BY <2>1 DEF Sendable, Sound, HpaRoom, FewReplicas, Roomy
    <2> QED BY <2>1, <2>2, <2>3, SentIsRoomy DEF Writers
  <1>4. ASSUME NEW w \in Writers, Validate(w)
        PROVE  HpaRoom'
    <2>1. \/ /\ boot' = req[w].boot /\ req[w].stage # "idle"
             /\ req' = [v \in Writers |-> IF v = w THEN Idle
                                          ELSE [req[v] EXCEPT !.fresh = @ /\ boot' = boot]]
          \/ boot' = boot /\ req' = [req EXCEPT ![w] = Idle]
      BY <1>4 DEF Validate
    <2>2. \A v \in Writers : req'[v].stage # "idle" =>
              req[v].stage # "idle" /\ req'[v].boot = req[v].boot
      <3>1. ASSUME NEW v \in Writers, v # w
            PROVE  req'[v].stage = req[v].stage /\ req'[v].boot = req[v].boot
        <4>1. req'[v] = req[v] \/ req'[v] = [req[v] EXCEPT !.fresh = @ /\ boot' = boot]
          BY <1>1, <2>1, <3>1
        <4>2. req[v] \in [stage: {"idle", "pass", "validate"}, boot: {req[v].boot}, fresh: BOOLEAN]
          BY <1>1 DEF GoodRequest
        <4> QED BY <4>1, <4>2
      <3>2. req'[w].stage = "idle"
        BY <1>1, <1>2, <2>1
      <3>3. ASSUME NEW v \in Writers, req'[v].stage # "idle"
            PROVE  req[v].stage # "idle" /\ req'[v].boot = req[v].boot
        BY <3>1, <3>2, <3>3
      <3> QED BY <3>3
    <2> QED BY <2>1, <2>2, SameIsRoomy
  <1>5. CASE Start
    <2>1. /\ boot # NoBoot /\ boot' = boot
          /\ req' = [req EXCEPT !["operator"] = [stage |-> "pass", boot |-> boot, fresh |-> TRUE]]
      BY <1>5 DEF Start
    <2>2. \A v \in Writers : req'[v] = req[v] \/ req'[v].boot = boot
      BY <1>1, <2>1
    <2> QED BY <2>1, <2>2, SameIsRoomy
  <1>6. CASE UpdateDefaults
    <2> DEFINE r == req["operator"]
               d == DefaultValue(r.boot, HandlerConfig(r.boot))
    <2>1. /\ r.stage = "pass" /\ UNCHANGED boot
          /\ req' = [req EXCEPT !["operator"] = [stage |-> "validate", boot |-> Mutated(d), fresh |-> r.fresh]]
      BY <1>6 DEF UpdateDefaults, Send
    <2>2. IsBoot(r.boot) /\ Roomy(r.boot.spec.hpa)
      BY <1>1, <2>1 DEF GoodRequest, SoundUnder, HpaRoom, Writers
    <2>3. IsBoot(d) /\ Roomy(d.spec.hpa)
      BY <1>1, <2>2, DefaultsAreRoomy, Defaulted, Configured
    <2> HIDE DEF d
    <2> QED BY <2>1, <2>3, SentIsRoomy DEF Writers
  <1>7. CASE Proceed
    <2>1. req' = [v \in Writers |-> IF v = "operator" THEN Idle
                                    ELSE [req[v] EXCEPT !.fresh = @ /\ boot' = boot]]
      BY <1>7 DEF Proceed
    <2>2. \A v \in Writers : req'[v].stage # "idle" =>
              req[v].stage # "idle" /\ req'[v].boot = req[v].boot
      BY <1>1, <1>2, <2>1 DEF GoodRequest
    <2>3. boot # NoBoot => boot'.spec = boot.spec
      BY <1>7, ProceedStores
    <2>4. boot = NoBoot => boot' = NoBoot
      BY <1>1, <1>7 DEF Proceed, GoodRequest, Writers
    <2> QED BY <2>2, <2>3, <2>4, SameIsRoomy
  <1>8. CASE \E c \in Configs : Reconfigure(c)
    <2>1. /\ boot' = Aged(boot)
          /\ req' = [w \in Writers |-> [req[w] EXCEPT !.boot = Aged(@)]]
      BY <1>8 DEF Reconfigure
    <2>2. \A w \in Writers : req'[w].stage = req[w].stage /\ req'[w].boot = Aged(req[w].boot)
      BY <1>1, <2>1 DEF GoodRequest
    <2>3. boot # NoBoot => boot'.spec = boot.spec
      <3>1. boot # NoBoot => IsBoot(boot)
        BY <1>1 DEF GoodBoot, SoundUnder
      <3> QED BY <2>1, <3>1, Ageing
    <2>4. boot = NoBoot => boot' = NoBoot
      BY <2>1 DEF Aged
    <2>5. ASSUME NEW w \in Writers, req[w].stage # "idle"
          PROVE  req'[w].boot.spec = req[w].boot.spec
      <3>1. IsBoot(req[w].boot)
        BY <1>1, <2>5 DEF GoodRequest, SoundUnder
      <3> QED BY <2>2, <3>1, Ageing
    <2> QED BY <2>2, <2>3, <2>4, <2>5, SameIsRoomy
  <1>9. CASE Regrant
    BY <1>9, SameIsRoomy DEF Regrant
  <1>10. CASE DropPass \/ \E w \in Writers : Fail(w)
    <2>1. PICK w \in Writers : req' = [req EXCEPT ![w] = Idle] /\ boot' = boot
      BY <1>10 DEF Fail, DropPass, Writers
    <2>2. \A v \in Writers : req'[v].stage # "idle" =>
              req[v].stage # "idle" /\ req'[v].boot = req[v].boot
      <3>1. req' = [v \in Writers |-> IF v = w THEN Idle ELSE req[v]]
        BY <1>1, <2>1
      <3>2. ASSUME NEW v \in Writers, v # w PROVE req'[v] = req[v]
        BY <3>1, <3>2
      <3>3. req'[w].stage = "idle"
        BY <1>2, <2>1, <3>1
      <3>4. ASSUME NEW v \in Writers, req'[v].stage # "idle"
            PROVE  req[v].stage # "idle" /\ req'[v].boot = req[v].boot
        BY <3>2, <3>3, <3>4
      <3> QED BY <3>4
    <2> QED BY <2>1, <2>2, SameIsRoomy
  <1>11. CASE Event \/ UNCHANGED vars
    BY <1>11, SameIsRoomy DEF Event, vars
  <1> QED BY <1>3, <1>4, <1>5, <1>6, <1>7, <1>8, <1>9, <1>10, <1>11 DEF Next, Operator, Writers

LEMMA Bounds ==
    ASSUME NEW min \in Nat, NEW max \in Nat, NEW r \in Nat, r <= 5,
           min # 0 => max # 0 /\ max >= min, max >= 2 => r <= max
    PROVE  LET m == IF min < 1 THEN r ELSE min
               n == IF max < 2 THEN 5 ELSE max
           IN m \in Nat /\ n \in Nat /\ n >= m /\ n # 0
  <1>1. CASE max < 2
    <2>1. min = 0 \/ min = 1
      BY <1>1
    <2> QED BY <1>1, <2>1
  <1>2. CASE max >= 2
    BY <1>2
  <1> QED BY <1>1, <1>2

\* The webhook admits the defaults of a Boot it admitted.
LEMMA DefaultsAreAdmitted ==
    ASSUME FewReplicas, config \in Configs, NEW b, Sound(b), ValidHpa(b.spec.hpa), Roomy(b.spec.hpa),
           Granted(b), b.status # "" => WorkloadOf(b.spec) = b.status
    PROVE  Admitted(DefaultValue(b, HandlerConfig(b)), FALSE)
  <1> DEFINE c == HandlerConfig(b)
             d == DefaultValue(b, c)
             hpa == b.spec.hpa
  <1>1. IsConfig(c) /\ IsBoot(b) /\ c.replicas <= DefaultMaxReplicas
        /\ (hpa # None /\ hpa.max >= 2 => c.replicas <= hpa.max)
    <2>1. \E k \in DOMAIN config : c = config[k]
      BY ConfigAssumption DEF HandlerConfig
    <2> QED BY <2>1, Configured DEF Sound, FewReplicas, Roomy
  <1> HIDE DEF c
  <1>2. /\ IsBoot(d) /\ d.status = b.status /\ d.meta.env = d.spec.env
        /\ d.spec.hpa = DefaultHpa(b.spec.hpa, c) /\ d.spec.needs = b.spec.needs
        /\ WorkloadOf(d.spec) = WorkloadOf(b.spec)
    BY <1>1, Defaulted
  <1> HIDE DEF d
  <1>3. UpdateEnvAllowed(d, config[Kind])
    BY <1>2 DEF UpdateEnvAllowed, Deleted, Added, Modified
  <1>4. ValidHpa(d.spec.hpa)
    <2>1. hpa \in Hpas \union {None} /\ c.replicas \in Nat \ {0}
      BY <1>1, SpecParts DEF IsBoot, IsConfig
    <2>2. ValidHpa(hpa)
      OBVIOUS
    <2> HIDE DEF hpa
    <2>3. ValidHpa(DefaultHpa(hpa, c))
      <3>1. CASE ~Scales(hpa)
        BY <2>2, <3>1 DEF DefaultHpa
      <3>2. CASE Scales(hpa)
        <4> DEFINE min == IF hpa.min < 1 THEN c.replicas ELSE hpa.min
                   max == IF hpa.max < 2 THEN DefaultMaxReplicas ELSE hpa.max
        <4>1. hpa \in Hpas /\ hpa # None
          BY <2>1, <3>2 DEF Scales
        <4>2. min \in Nat /\ max \in Nat /\ max >= min /\ max # 0
          <5>1. hpa.min \in Nat /\ hpa.max \in Nat /\ c.replicas \in Nat /\ c.replicas <= 5
            BY <1>1, <2>1, <4>1 DEF Hpas, DefaultMaxReplicas
          <5>2. /\ hpa.min # 0 => hpa.max # 0 /\ hpa.max >= hpa.min
                /\ hpa.max >= 2 => c.replicas <= hpa.max
            BY <1>1, <2>2, <4>1 DEF ValidHpa, hpa
          <5> QED BY <5>1, <5>2, Bounds DEF DefaultMaxReplicas
        <4>3. DefaultHpa(hpa, c).min = min /\ DefaultHpa(hpa, c).max = max
          BY <3>2, <4>1 DEF DefaultHpa, Hpas
        <4> QED BY <4>2, <4>3 DEF ValidHpa
      <3> QED BY <3>1, <3>2
    <2> QED BY <1>2, <2>3 DEF hpa
  <1>5. ValidWorkload(d)
    <2>1. d.spec.workload \in Workloads \union {""}
      BY <1>2, SpecParts DEF IsBoot
    <2> QED BY <1>2, <2>1 DEF ValidWorkload, WorkloadOf, Workloads
  <1>6. Granted(d)
    BY <1>2 DEF Granted
  <1> QED BY <1>3, <1>4, <1>5, <1>6 DEF Admitted, d, c

\* The operator's write of the defaults passes its own webhook, whatever users and
\* configurations did before, if no configuration asks for more replicas than an
\* autoscaler may have (boot_handler_defaulter.go:123, boot_validation.go).
THEOREM OperatorPasses ==
    ASSUME FewReplicas
    PROVE  Spec => []OperatorIsAdmitted
  <1>1. Init => HpaRoom
    BY DEF Init, HpaRoom, Idle
  <1>2. IInv /\ HpaRoom /\ [Next]_vars => HpaRoom'
    BY RoomIsKept
  <1>3. IInv /\ HpaRoom => OperatorIsAdmitted
    <2> SUFFICES ASSUME IInv, HpaRoom, boot # NoBoot, Granted(boot)
                 PROVE  Admitted(DefaultValue(boot, HandlerConfig(boot)), FALSE)
      BY DEF OperatorIsAdmitted
    <2>1. /\ SoundUnder(config, boot) /\ ValidHpa(boot.spec.hpa) /\ config \in Configs
          /\ boot.status # "" => WorkloadOf(boot.spec) = boot.status
      BY Reading DEF GoodBoot
    <2>2. Sound(boot) /\ Roomy(boot.spec.hpa)
      BY <2>1, SoundIs DEF HpaRoom
    <2> QED BY <2>1, <2>2, DefaultsAreAdmitted
  <1> QED BY <1>1, <1>2, <1>3, Invariance, PTL DEF Spec

----------------------------------------------------------------------------
(* Once is enough *)

\* A list of amounts that names every resource, with some of it, or none.
Full(list) == DOMAIN list = {} \/ \A r \in Resources : Amount(list, r) # 0

FullConfigs == \A c \in Configs : \A k \in DOMAIN c : Full(c[k].limits) /\ Full(c[k].requests)

\* A filled list has all its default names, and is not filled again.
LEMMA FilledOnce ==
    ASSUME NEW list, NEW default, IsAmounts(list), IsAmounts(default), Full(default)
    PROVE  /\ ~Fills(Fill(list, default), default)
           /\ Fill(Fill(list, default), default) = Fill(list, default)
           /\ DOMAIN default # {} => \A r \in Resources : Amount(Fill(list, default), r) # 0
  <1> DEFINE f == Fill(list, default)
  <1>1. CASE DOMAIN default = {}
    BY <1>1 DEF Fill, Fills
  <1>2. CASE DOMAIN default # {}
    <2>1. \A r \in Resources : Amount(default, r) # 0 /\ r \in DOMAIN default
      BY <1>2 DEF Full, Amount
    <2>2. DOMAIN f = Resources /\ \A r \in Resources : f[r] # 0
      <3>1. CASE DOMAIN list = {}
        BY <1>2, <2>1, <3>1 DEF Fill, IsAmounts, Amount
      <3>2. CASE DOMAIN list # {}
        <4>1. f = [r \in Resources |-> IF Amount(list, r) = 0 THEN Amount(default, r) ELSE list[r]]
          BY <1>2, <3>2 DEF Fill
        <4>2. \A r \in Resources : Amount(list, r) # 0 => Amount(list, r) = list[r]
          BY DEF Amount
        <4> QED BY <2>1, <4>1, <4>2
      <3> QED BY <3>1, <3>2
    <2>3. f = [r \in Resources |-> f[r]]
      <3>1. IsAmounts(f)
        BY Filling
      <3> HIDE DEF f
      <3> QED BY <2>2, <3>1 DEF IsAmounts
    <2> HIDE DEF f
    <2>4. \A r \in Resources : Amount(f, r) = f[r] /\ Amount(f, r) # 0
      BY <2>2 DEF Amount
    <2>5. ~Fills(f, default)
      BY <2>4 DEF Fills
    <2>6. Fill(f, default) = f
      <3>1. DOMAIN f # {}
        BY <2>2 DEF Resources
      <3>2. Fill(f, default) = [r \in Resources |-> IF Amount(f, r) = 0 THEN Amount(default, r) ELSE f[r]]
        BY <1>2, <3>1 DEF Fill
      <3>3. Fill(f, default) = [r \in Resources |-> f[r]]
        BY <2>4, <3>2
      <3> QED BY <2>3, <3>3
    <2> QED BY <2>4, <2>5, <2>6 DEF f
  <1> QED BY <1>1, <1>2

\* Capped amounts stay capped, and none becomes zero.
LEMMA CappedOnce ==
    ASSUME NEW requests, NEW limits, IsAmounts(requests), IsAmounts(limits)
    PROVE  LET capped == Cap(requests, limits)
           IN /\ Cap(capped, limits) = capped
              /\ DOMAIN capped = DOMAIN requests
              /\ \A r \in Resources : Amount(requests, r) # 0 => Amount(capped, r) # 0
  <1> DEFINE capped == Cap(requests, limits)
  <1>1. /\ DOMAIN requests \subseteq Resources /\ requests \in [DOMAIN requests -> Nat]
        /\ DOMAIN limits \subseteq Resources /\ limits \in [DOMAIN limits -> Nat]
    BY DEF IsAmounts
  <1>2. \A r \in Resources : Amount(limits, r) # 0 => r \in DOMAIN limits /\ limits[r] = Amount(limits, r)
    BY DEF Amount
  <1>3. capped = [r \in DOMAIN requests |->
                     IF Amount(limits, r) # 0 /\ requests[r] > limits[r] THEN limits[r] ELSE requests[r]]
    BY DEF Cap
  <1> HIDE DEF capped
  <1>4. \A r \in DOMAIN requests : Amount(limits, r) # 0 =>
            limits[r] \in Nat /\ requests[r] \in Nat /\ ~(capped[r] > limits[r])
    BY <1>1, <1>2, <1>3
  <1>5. Cap(capped, limits) = [r \in DOMAIN requests |-> capped[r]]
    BY <1>3, <1>4 DEF Cap
  <1>6. capped = [r \in DOMAIN requests |-> capped[r]]
    BY <1>3
  <1>7. ASSUME NEW r \in Resources, Amount(requests, r) # 0 PROVE Amount(capped, r) # 0
    <2>1. r \in DOMAIN requests /\ requests[r] # 0
      BY <1>7 DEF Amount
    <2>2. capped[r] # 0
      BY <1>2, <1>3, <2>1, <1>1
    <2> QED BY <1>3, <2>1, <2>2 DEF Amount
  <1> QED BY <1>3, <1>5, <1>6, <1>7 DEF capped

LEMMA NotFilled ==
    ASSUME NEW list, NEW default, IsAmounts(list), IsAmounts(default), ~Fills(list, default)
    PROVE  Fill(list, default) = list
  <1> SUFFICES ASSUME DOMAIN default # {} PROVE Fill(list, default) = list
    BY DEF Fill
  <1>1. \A r \in Resources : Amount(list, r) # 0
    BY DEF Fills
  <1>2. DOMAIN list = Resources /\ DOMAIN list # {}
    BY <1>1 DEF Amount, IsAmounts, Resources
  <1>3. Fill(list, default) = [r \in Resources |-> list[r]]
    BY <1>1, <1>2 DEF Fill
  <1> QED BY <1>2, <1>3 DEF IsAmounts

\* The defaults of a spec are its defaults for good.
LEMMA SpecStable ==
    ASSUME NEW s, IsSpec(s), NEW c, IsConfig(c), Full(c.limits), Full(c.requests)
    PROVE  LET e == DefaultSpec(s, c)
           IN /\ DefaultSpec(e, c) = e
              /\ ~Fills(e.limits, c.limits) /\ ~Fills(e.requests, c.requests)
  <1> DEFINE e == DefaultSpec(s, c)
  <1>1. /\ s.plain \in [Fields -> Texts \union {Unset}]
        /\ s.replicas \in Nat \union {-1} /\ s.workload \in Workloads \union {""}
        /\ s.hpa \in Hpas \union {None}
        /\ IsAmounts(s.limits) /\ IsAmounts(s.requests)
        /\ IsAmounts(c.limits) /\ IsAmounts(c.requests) /\ c.replicas \in Nat \ {0}
    BY SpecParts DEF IsConfig
  <1>2. s \in [image: {s.image}, env: Envs, plain: [Fields -> Texts \union {Unset}],
             replicas: Nat \union {-1}, limits: {s.limits}, requests: {s.requests},
             selector: {s.selector}, workload: Workloads \union {""}, pvc: {s.pvc},
             hpa: Hpas \union {None}, needs: BOOLEAN]
    BY DEF IsSpec
  <1>3. /\ e.plain = [f \in Fields |-> IF s.plain[f] = Unset THEN c.plain[f] ELSE s.plain[f]]
        /\ e.replicas = IF s.replicas < 0 THEN c.replicas ELSE s.replicas
        /\ e.limits = Fill(s.limits, c.limits)
        /\ e.requests = Cap(Fill(s.requests, c.requests), e.limits)
        /\ e.selector = MergeOverride(s.selector, c.selector)
        /\ e.workload = IF s.workload = "" THEN s.workload ELSE WorkloadOf(s)
        /\ e.hpa = DefaultHpa(s.hpa, c)
    BY <1>2 DEF DefaultSpec
  <1>0. IsSpec(e)
    BY SpecDefaulted
  <1> HIDE DEF e
  <1>4. e = [e EXCEPT !.plain = e.plain, !.replicas = e.replicas, !.limits = e.limits,
                      !.requests = e.requests, !.selector = e.selector, !.workload = e.workload,
                      !.hpa = e.hpa]
    <2>2. e \in [image: {e.image}, env: Envs, plain: [Fields -> Texts \union {Unset}],
             replicas: Nat \union {-1}, limits: {e.limits}, requests: {e.requests},
             selector: {e.selector}, workload: Workloads \union {""}, pvc: {e.pvc},
             hpa: Hpas \union {None}, needs: BOOLEAN]
      BY <1>0 DEF IsSpec
    <2> QED BY <2>2
  <1>5. [f \in Fields |-> IF e.plain[f] = Unset THEN c.plain[f] ELSE e.plain[f]] = e.plain
    BY <1>3
  <1>6. e.replicas \in Nat
    <2>1. c.replicas \in Nat
      BY <1>1
    <2>2. s.replicas \in Nat \union {-1}
      BY <1>1
    <2>3. e.replicas = IF s.replicas < 0 THEN c.replicas ELSE s.replicas
      BY <1>3
    <2> QED BY <2>1, <2>2, <2>3
  <1>7. Fill(e.limits, c.limits) = e.limits /\ ~Fills(e.limits, c.limits) /\ IsAmounts(e.limits)
    <2>1. /\ Fill(Fill(s.limits, c.limits), c.limits) = Fill(s.limits, c.limits)
          /\ ~Fills(Fill(s.limits, c.limits), c.limits)
      BY <1>1, FilledOnce
    <2>2. IsAmounts(Fill(s.limits, c.limits))
      BY <1>1, Filling
    <2>3. e.limits = Fill(s.limits, c.limits)
      BY <1>3
    <2> QED BY <2>1, <2>2, <2>3
  <1>8. /\ ~Fills(e.requests, c.requests) /\ Fill(e.requests, c.requests) = e.requests
        /\ Cap(e.requests, e.limits) = e.requests
    <2> DEFINE f == Fill(s.requests, c.requests)
    <2>1. /\ IsAmounts(f) /\ ~Fills(f, c.requests)
          /\ DOMAIN c.requests # {} => \A r \in Resources : Amount(f, r) # 0
      BY <1>1, FilledOnce, Filling
    <2> HIDE DEF f
    <2>2. e.requests = Cap(f, e.limits)
      BY <1>3 DEF f
    <2>3. /\ Cap(e.requests, e.limits) = e.requests /\ IsAmounts(e.requests)
          /\ \A r \in Resources : Amount(f, r) # 0 => Amount(e.requests, r) # 0
      BY <1>7, <2>1, <2>2, CappedOnce, Capping
    <2>4. ~Fills(e.requests, c.requests)
      BY <2>1, <2>3 DEF Fills
    <2> QED BY <1>1, <2>3, <2>4, NotFilled
  <1>9. MergeOverride(e.selector, c.selector) = e.selector
    <2> DEFINE x == s.selector
               y == c.selector
    <2>1. e.selector = [n \in DOMAIN x \union DOMAIN y |-> IF n \in DOMAIN y THEN y[n] ELSE x[n]]
      BY <1>3 DEF MergeOverride
    <2>2. DOMAIN e.selector \union DOMAIN y = DOMAIN x \union DOMAIN y
      BY <2>1
    <2>3. MergeOverride(e.selector, y)
              = [n \in DOMAIN x \union DOMAIN y |-> IF n \in DOMAIN y THEN y[n] ELSE e.selector[n]]
      BY <2>2 DEF MergeOverride
    <2> QED BY <2>1, <2>3
  <1>10. (IF e.workload = "" THEN e.workload ELSE WorkloadOf(e)) = e.workload
    BY <1>1, <1>3 DEF WorkloadOf, Workloads
  <1>11. DefaultHpa(e.hpa, c) = e.hpa
    <2>1. CASE ~Scales(s.hpa)
      BY <1>3, <2>1 DEF DefaultHpa
    <2>2. CASE Scales(s.hpa)
      <3>1. s.hpa \in Hpas
        BY <1>1, <2>2 DEF Scales
      <3>2. e.hpa \in Hpas /\ e.hpa.min >= 1 /\ e.hpa.max >= 2
        <4>1. /\ e.hpa.enable = s.hpa.enable
              /\ e.hpa.min = IF s.hpa.min < 1 THEN c.replicas ELSE s.hpa.min
              /\ e.hpa.max = IF s.hpa.max < 2 THEN 5 ELSE s.hpa.max
              /\ DOMAIN e.hpa = DOMAIN s.hpa
          BY <1>3, <2>2, <3>1 DEF DefaultHpa, Hpas, DefaultMaxReplicas
        <4>2. s.hpa.min \in Nat /\ s.hpa.max \in Nat
          BY <3>1 DEF Hpas
        <4>5. c.replicas \in Nat /\ c.replicas >= 1
          BY DEF IsConfig
        <4>3. e.hpa.min >= 1 /\ e.hpa.max >= 2
          BY <4>1, <4>2, <4>5
        <4>4. e.hpa \in Hpas
          <5>1. IsConfig(c) /\ e.hpa = DefaultHpa(s.hpa, c) /\ e.hpa \in Hpas \union {None}
            BY <1>1, <1>3, Scaling
          <5>2. e.hpa = [s.hpa EXCEPT !.min = e.hpa.min, !.max = e.hpa.max]
            BY <1>3, <2>2, <3>1, <4>1 DEF DefaultHpa, Hpas, DefaultMaxReplicas
          <5>3. e.hpa.min \in Nat /\ e.hpa.max \in Nat
            BY <4>1, <4>2, <4>5
          <5> QED BY <3>1, <5>2, <5>3 DEF Hpas
        <4> QED BY <4>3, <4>4
      <3>3. [e.hpa EXCEPT !.min = e.hpa.min, !.max = e.hpa.max] = e.hpa
        BY <3>2 DEF Hpas
      <3>4. e.hpa.min \in Nat /\ e.hpa.max \in Nat
        BY <3>2 DEF Hpas
      <3>5. ~(e.hpa.min < 1) /\ ~(e.hpa.max < 2)
        BY <3>2, <3>4
      <3> QED BY <3>3, <3>5 DEF DefaultHpa
    <2> QED BY <2>1, <2>2
  <1>12. (IF e.replicas < 0 THEN c.replicas ELSE e.replicas) = e.replicas
    BY <1>6
  <1>13. DefaultSpec(e, c) = [e EXCEPT !.plain = e.plain, !.replicas = e.replicas, !.limits = e.limits,
                      !.requests = e.requests, !.selector = e.selector, !.workload = e.workload,
                      !.hpa = e.hpa]
    BY <1>5, <1>7, <1>8, <1>9, <1>10, <1>11, <1>12 DEF DefaultSpec
  <1> QED BY <1>4, <1>7, <1>8, <1>13 DEF e

\* The defaults do not look at the environment of a spec.
LEMMA EnvIsApart ==
    ASSUME NEW s, IsSpec(s), NEW c, NEW env \in Envs, DefaultSpec(s, c) = s
    PROVE  DefaultSpec([s EXCEPT !.env = env], c) = [s EXCEPT !.env = env]
  <1> DEFINE f == [s EXCEPT !.env = env]
  <1>1. s \in [image: {s.image}, env: Envs, plain: [Fields -> Texts \union {Unset}],
             replicas: Nat \union {-1}, limits: {s.limits}, requests: {s.requests},
             selector: {s.selector}, workload: Workloads \union {""}, pvc: {s.pvc},
             hpa: Hpas \union {None}, needs: BOOLEAN]
    BY DEF IsSpec
  <1>2. /\ s.plain = [x \in Fields |-> IF s.plain[x] = Unset THEN c.plain[x] ELSE s.plain[x]]
        /\ s.replicas = IF s.replicas < 0 THEN c.replicas ELSE s.replicas
        /\ s.limits = Fill(s.limits, c.limits)
        /\ s.requests = Cap(Fill(s.requests, c.requests), s.limits)
        /\ s.selector = MergeOverride(s.selector, c.selector)
        /\ s.workload = IF s.workload = "" THEN s.workload ELSE WorkloadOf(s)
        /\ s.hpa = DefaultHpa(s.hpa, c)
    <2> DEFINE limits == Fill(s.limits, c.limits)
               d == [s EXCEPT !.plain = [x \in Fields |-> IF s.plain[x] = Unset THEN c.plain[x] ELSE s.plain[x]],
                              !.replicas = IF s.replicas < 0 THEN c.replicas ELSE s.replicas,
                              !.limits = limits,
                              !.requests = Cap(Fill(s.requests, c.requests), limits),
                              !.selector = MergeOverride(s.selector, c.selector),
                              !.workload = IF s.workload = "" THEN s.workload ELSE WorkloadOf(s),
                              !.hpa = DefaultHpa(s.hpa, c)]
    <2>1. d = s
      BY DEF DefaultSpec
    <2>2. /\ d.plain = [x \in Fields |-> IF s.plain[x] = Unset THEN c.plain[x] ELSE s.plain[x]]
          /\ d.replicas = IF s.replicas < 0 THEN c.replicas ELSE s.replicas
          /\ d.limits = limits
          /\ d.requests = Cap(Fill(s.requests, c.requests), limits)
          /\ d.selector = MergeOverride(s.selector, c.selector)
          /\ d.workload = IF s.workload = "" THEN s.workload ELSE WorkloadOf(s)
          /\ d.hpa = DefaultHpa(s.hpa, c)
      BY <1>1
    <2> HIDE DEF d
    <2> QED BY <2>1, <2>2
  <1>3. /\ f.plain = s.plain /\ f.replicas = s.replicas /\ f.limits = s.limits
        /\ f.requests = s.requests /\ f.selector = s.selector /\ f.workload = s.workload
        /\ f.hpa = s.hpa
    BY <1>1
  <1>4. f = [f EXCEPT !.plain = f.plain, !.replicas = f.replicas, !.limits = f.limits,
                      !.requests = f.requests, !.selector = f.selector, !.workload = f.workload,
                      !.hpa = f.hpa]
    BY <1>1
  <1> HIDE DEF f
  <1>5. /\ [x \in Fields |-> IF f.plain[x] = Unset THEN c.plain[x] ELSE f.plain[x]] = f.plain
        /\ (IF f.replicas < 0 THEN c.replicas ELSE f.replicas) = f.replicas
        /\ Fill(f.limits, c.limits) = f.limits
        /\ Cap(Fill(f.requests, c.requests), f.limits) = f.requests
        /\ MergeOverride(f.selector, c.selector) = f.selector
        /\ (IF f.workload = "" THEN f.workload ELSE WorkloadOf(f)) = f.workload
        /\ DefaultHpa(f.hpa, c) = f.hpa
    BY <1>2, <1>3 DEF WorkloadOf
  <1>6. DefaultSpec(f, c) = [f EXCEPT !.plain = f.plain, !.replicas = f.replicas, !.limits = f.limits,
                      !.requests = f.requests, !.selector = f.selector, !.workload = f.workload,
                      !.hpa = f.hpa]
    BY <1>5 DEF DefaultSpec
  <1> QED BY <1>4, <1>6 DEF f

\* What has the defaults has nothing to change.
LEMMA DefaultedOnce ==
    ASSUME NEW b, IsBoot(b), NEW c, IsConfig(c), Full(c.limits), Full(c.requests)
    PROVE  ~Changed(DefaultValue(b, c), c)
  <1> DEFINE d == DefaultValue(b, c)
             e == DefaultSpec(b.spec, c)
  <1>1. /\ IsBoot(d)
        /\ d.spec = IF NeedsMerge(b, c) THEN [e EXCEPT !.env = EnvOf(b, c)] ELSE e
        /\ d.meta = DefaultMeta(b, c, EnvOf(b, c)) /\ d.meta.env = d.spec.env
        /\ WorkloadOf(d.spec) = WorkloadOf(b.spec)
    BY Defaulted
  <1>2. /\ b \in BootRecord(b) /\ IsSpec(b.spec) /\ b.meta \in MetaRecord(b.meta)
        /\ d \in BootRecord(d) /\ IsSpec(d.spec) /\ d.meta \in MetaRecord(d.meta)
    BY <1>1, BootParts
  <1>3. IsSpec(e) /\ e.image = b.spec.image /\ e.pvc = b.spec.pvc
    BY <1>2, SpecDefaulted
  <1>4. /\ DefaultSpec(e, c) = e
        /\ ~Fills(e.limits, c.limits) /\ ~Fills(e.requests, c.requests)
    BY <1>2, SpecStable
  <1>5. EnvOf(b, c) \in Envs
    BY Merged
  <1> HIDE DEF d, e
  <1>6. /\ DefaultSpec(d.spec, c) = d.spec
        /\ d.spec.limits = e.limits /\ d.spec.requests = e.requests
        /\ d.spec.image = b.spec.image /\ d.spec.pvc = b.spec.pvc
    <2>1. CASE NeedsMerge(b, c)
      <3>1. d.spec = [e EXCEPT !.env = EnvOf(b, c)]
        BY <1>1, <2>1
      <3>2. DefaultSpec(d.spec, c) = d.spec
        BY <1>3, <1>4, <1>5, <3>1, EnvIsApart
      <3> QED BY <1>3, <3>1, <3>2 DEF IsSpec
    <2>2. CASE ~NeedsMerge(b, c)
      BY <1>1, <1>3, <1>4, <2>2
    <2> QED BY <2>1, <2>2
  <1>7. /\ d.meta.image = ImageName(d, c) /\ d.meta.workload = WorkloadOf(d.spec)
        /\ NeedsClaims(b) => d.meta.pvc = b.spec.pvc /\ d.meta.volumes = <<c.volumes, b.spec.pvc>>
        /\ ~NeedsClaims(b) => d.meta.pvc = b.meta.pvc
    <2>1. ~NeedsMerge(b, c) => b.meta.image = ImageName(b, c)
      BY DEF NeedsMerge
    <2>2. ImageName(d, c) = ImageName(b, c)
      BY <1>6 DEF ImageName
    <2>3. /\ d.meta.image = IF NeedsMerge(b, c) THEN ImageName(b, c) ELSE b.meta.image
          /\ d.meta.pvc = IF NeedsClaims(b) THEN b.spec.pvc ELSE b.meta.pvc
          /\ d.meta.volumes = IF NeedsClaims(b) THEN <<c.volumes, b.spec.pvc>> ELSE b.meta.volumes
          /\ d.meta.workload = WorkloadOf(b.spec)
      BY <1>1, <1>2 DEF DefaultMeta, MetaRecord
    <2> QED BY <1>1, <2>1, <2>2, <2>3
  <1>8. ~NeedsMerge(d, c)
    <2>1. d.spec.env # None
      BY <1>2, SpecParts, TextsAssumption
    <2> QED BY <1>1, <1>7, <2>1 DEF NeedsMerge
  <1>9. NeedsClaims(d) => NeedsClaims(b)
    BY <1>6, <1>7 DEF NeedsClaims
  <1>10. \A env : DefaultMeta(d, c, env) = d.meta
    <2> TAKE env
    <2>1. /\ (IF NeedsClaims(d) THEN d.spec.pvc ELSE d.meta.pvc) = d.meta.pvc
          /\ (IF NeedsClaims(d) THEN <<c.volumes, d.spec.pvc>> ELSE d.meta.volumes) = d.meta.volumes
      BY <1>6, <1>7, <1>9
    <2>2. DefaultMeta(d, c, env) = [d.meta EXCEPT !.env = d.meta.env, !.image = d.meta.image,
              !.pvc = d.meta.pvc, !.volumes = d.meta.volumes, !.workload = d.meta.workload]
      BY <1>7, <1>8, <2>1 DEF DefaultMeta
    <2> QED BY <1>2, <2>2 DEF MetaRecord
  <1>11. DefaultValue(d, c) = d
    <2>1. DefaultValue(d, c) = [d EXCEPT !.meta = d.meta, !.spec = d.spec, !.fixed = d.fixed,
                                        !.current = d.current]
      BY <1>6, <1>8, <1>10 DEF DefaultValue
    <2> QED BY <1>2, <2>1 DEF BootRecord
  <1> QED BY <1>4, <1>6, <1>8, <1>11 DEF Changed, d

\* Giving the defaults twice changes nothing more, unless the configuration has an
\* amount of zero or names only one of the resources: the operator does not write
\* the Boot for ever (boot_handler_defaulter.go:21).
THEOREM DefaultsSettle ==
    ASSUME FullConfigs
    PROVE  Spec => []DefaultsAreStable
  <1>1. IInv => DefaultsAreStable
    <2> SUFFICES ASSUME IInv, boot # NoBoot
                 PROVE  Settled(DefaultValue(boot, HandlerConfig(boot)))
      BY DEF DefaultsAreStable
    <2> DEFINE c == HandlerConfig(boot)
               d == DefaultValue(boot, c)
    <2>1. IsBoot(boot) /\ config \in Configs
      BY Reading DEF GoodBoot, SoundUnder
    <2>2. IsConfig(c)
      BY <2>1, Configured
    <2>3. Full(c.limits) /\ Full(c.requests)
      <3>1. \E k \in DOMAIN config : c = config[k]
        BY <2>1, ConfigAssumption DEF HandlerConfig
      <3> QED BY <2>1, <3>1 DEF FullConfigs
    <2>4. d.profile = boot.profile
      BY <2>1, <2>2, Defaulted
    <2>5. HandlerConfig(d) = c
      <3> HIDE DEF d
      <3> QED BY <2>4 DEF HandlerConfig
    <2>6. ~Changed(d, c)
      <3> HIDE DEF c
      <3> QED BY <2>1, <2>2, <2>3, DefaultedOnce
    <2> QED BY <2>5, <2>6 DEF Settled
  <1> QED BY <1>1, Invariance, PTL
=============================================================================
