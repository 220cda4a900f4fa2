------------------------ MODULE BootRevisionsProofs ------------------------
(***************************************************************************)
(* Proofs about the revision history of one Boot, for any number of users, *)
(* specs and revisions and any values of the limits.                       *)
(***************************************************************************)
EXTENDS BootRevisions, TLAPS

USE DEF Ids, Writers, Phases, LivePhases, FinishedPhases, Stages

----------------------------------------------------------------------------
(* Lemmas about the data *)

\* An absent revision is not a revision, and no Boot is not a Boot.
LEMMA Absence ==
    /\ NoRevision \notin Revision
    /\ \A x \in Revision \union {NoRevision} :
          /\ x # NoRevision => x \in Revision
          /\ x.phase \in Phases => x # NoRevision
    /\ NoBoot \notin Boot
  BY NoneAssumption DEF NoRevision, Revision, NoBoot, Boot

\* A writer with nothing in flight is a request like any other.
LEMMA IdleType == Idle \in Request
  BY LimitsAssumption DEF Idle, Request

\* A request with its fields filled in is still a request.
LEMMA FirstRevisionType ==
    ASSUME NEW p \in Request, NEW n \in 0..MaxId
    PROVE  [p EXCEPT !.stage = "create", !.new = n] \in Request
  BY DEF Request

\* Request q differs from p in the freshness of its copy only, and only for
\* the worse: what every writer sees of another writer's write of revision i.
Bystander(q, p, i) ==
    /\ q \in Request
    /\ q.stage = p.stage /\ q.spec = p.spec /\ q.rev = p.rev /\ q.ready = p.ready
    /\ q.cur = p.cur /\ q.new = p.new /\ q.latest = p.latest /\ q.seen = p.seen
    /\ q.todo = p.todo
    /\ q.fresh => p.fresh /\ p.latest # i

\* Marking the copies of revision i as outdated does nothing else.
LEMMA OutdatedFacts ==
    ASSUME TypeOK, NEW i \in Ids
    PROVE  /\ Outdated(i) \in [Writers -> Request]
           /\ \A v \in Writers : Bystander(Outdated(i)[v], req[v], i)
  <1>1. ASSUME NEW p \in Request PROVE
          /\ [p EXCEPT !.fresh = FALSE] \in Request
          /\ Bystander([p EXCEPT !.fresh = FALSE], p, i)
    BY DEF Request, Bystander
  <1>2. ASSUME NEW p \in Request, p.latest # i PROVE Bystander(p, p, i)
    BY <1>2 DEF Bystander
  <1>3. \A v \in Writers : req[v] \in Request
    BY DEF TypeOK
  <1>4. \A v \in Writers : Outdated(i)[v] = IF req[v].latest = i
                                            THEN [req[v] EXCEPT !.fresh = FALSE]
                                            ELSE req[v]
    BY DEF Outdated
  <1>5. \A v \in Writers : Outdated(i)[v] \in Request /\ Bystander(Outdated(i)[v], req[v], i)
    BY <1>1, <1>2, <1>3, <1>4
  <1> QED
    BY <1>5 DEF Outdated

\* Whoever is refused, a pass is queued, overdue or neither.
LEMMA RefusalType ==
    ASSUME TypeOK, NEW w \in Writers
    PROVE  AfterRefusal(w) \in WorkStates
  BY DEF TypeOK, AfterRefusal, WorkStates

\* What an accepted write of a revision changes, and what it leaves alone.
LEMMA WriteFacts ==
    ASSUME TypeOK, NEW w \in Writers, NEW i \in Ids,
           NEW x \in Revision \union {NoRevision}, NEW r \in Request,
           WriteRevision(w, i, x, r)
    PROVE  /\ revs' \in [Ids -> Revision \union {NoRevision}]
           /\ \A j \in Ids : revs'[j] = IF j = i THEN x ELSE revs[j]
           /\ cache' = cache
           /\ cacheFresh' = cacheFresh \ {i}
           /\ req' \in [Writers -> Request]
           /\ req'[w] = r
           /\ \A v \in Writers \ {w} : Bystander(req'[v], req[v], i)
  BY OutdatedFacts DEF WriteRevision, TypeOK

\* The initial state satisfies the inductive invariant.
LEMMA InitIInv == Init => IInv
  <1> SUFFICES ASSUME Init PROVE IInv
    OBVIOUS
  <1> USE DEF Init
  <1>1. TypeOK
    BY IdleType DEF TypeOK, Unowned, Meta, WorkStates
  <1>2. /\ Held(revs) = {} /\ Held(cache) = {}
        /\ \A w \in Writers : req[w] = Idle
    BY DEF Held
  <1>3. CopiesCurrent
    BY <1>2 DEF CopiesCurrent, At, Idle
  <1>4. RetiredAreSuperseded
    BY DEF RetiredAreSuperseded, Superseded, Retired, NoRevision
  <1>5. RequestsInOrder
    BY <1>2 DEF RequestsInOrder, At, Idle
  <1>6. boot.rev = 0 /\ req[Controller].stage = "idle"
    BY <1>2 DEF Idle, NoBoot
  <1>7. BootIsBehind
    <2> HIDE DEF Init
    <2>1. \A rs : Reaches(rs, 0)
      BY DEF Reaches
    <2> QED
      BY <1>2, <1>6, <2>1 DEF BootIsBehind
  <1> QED
    BY <1>1, <1>3, <1>4, <1>5, <1>7 DEF IInv, DoomedAreUnowned

----------------------------------------------------------------------------
(* Every step keeps the inductive invariant *)

\* A user's new request carries its spec and nothing else yet.
LEMMA SubmitIInv ==
    ASSUME IInv, NEW c \in Clients, NEW s \in Specs, Submit(c, s)
    PROVE  IInv'
  <1> DEFINE r == [Idle EXCEPT !.stage = "list", !.spec = s, !.cur = TRUE]
  <1>1. r \in Request
    BY IdleType DEF Request
  <1>2. r.stage = "list" /\ r.spec = s /\ ~r.fresh /\ r.latest = 0 /\ r.todo = {}
    BY DEF Idle
  <1>3. /\ req' = [req EXCEPT ![c] = r]
        /\ UNCHANGED <<boot, uids, revs, meta, cache, cacheFresh, work, doomed, forsaken,
                       unsettled, errors>>
        /\ updates' = updates + 1
    BY DEF Submit
  <1> HIDE DEF r
  <1>4. TypeOK' /\ DoomedAreUnowned'
    BY <1>1, <1>3 DEF IInv, TypeOK, DoomedAreUnowned
  <1>5. \A v \in Writers : req'[v] = IF v = c THEN r ELSE req[v]
    BY <1>3 DEF IInv, TypeOK
  <1>6. CopiesCurrent'
    BY <1>2, <1>3, <1>5 DEF IInv, CopiesCurrent, At
  <1>7. RetiredAreSuperseded'
    BY <1>3 DEF IInv, RetiredAreSuperseded, Superseded, Held
  <1>8. RequestsInOrder'
    BY <1>2, <1>3, <1>5 DEF IInv, RequestsInOrder, At, Held
  <1>9. BootIsBehind'
    BY <1>2, <1>3, <1>5, ControllerAssumption DEF IInv, BootIsBehind, Reaches, Held
  <1> QED
    BY <1>4, <1>6, <1>7, <1>8, <1>9 DEF IInv

\* A writer that ends its request disturbs nothing.
LEMMA EndKeeps ==
    ASSUME IInv, NEW w \in Writers, End(w), UNCHANGED <<boot, forsaken>>
    PROVE  /\ req' \in [Writers -> Request] /\ work' \in WorkStates
           /\ CopiesCurrent' /\ RetiredAreSuperseded' /\ RequestsInOrder' /\ BootIsBehind'
  <1>1. /\ req' \in [Writers -> Request] /\ work' \in WorkStates
        /\ \A v \in Writers : req'[v] = IF v = w THEN Idle ELSE req[v]
    BY IdleType, RefusalType DEF IInv, TypeOK, End
  <1>2. Idle.stage = "idle" /\ ~Idle.fresh
    BY DEF Idle
  <1>3. UNCHANGED <<revs, cache, cacheFresh, boot>>
    BY DEF End
  <1>4. CopiesCurrent'
    BY <1>1, <1>2, <1>3 DEF IInv, CopiesCurrent, At
  <1>5. RetiredAreSuperseded'
    BY <1>3 DEF IInv, RetiredAreSuperseded, Superseded, Held
  <1>6. RequestsInOrder'
    BY <1>1, <1>2, <1>3 DEF IInv, RequestsInOrder, At, Held
  <1>7. BootIsBehind'
    BY <1>1, <1>2, <1>3 DEF IInv, BootIsBehind, Reaches, Held
  <1> QED
    BY <1>1, <1>4, <1>5, <1>6, <1>7

\* A request that fails leaves behind only what it already wrote.
LEMMA FailRequestIInv ==
    ASSUME IInv, NEW w \in Writers, FailRequest(w)
    PROVE  IInv'
  <1>1. /\ End(w) /\ UNCHANGED boot
        /\ UNCHANGED <<uids, revs, meta, cache, cacheFresh, doomed, forsaken, updates>>
        /\ unsettled' \in {unsettled, unsettled + 1} /\ errors' = errors + 1
    BY DEF FailRequest, End
  <1>2. /\ req' \in [Writers -> Request] /\ work' \in WorkStates
        /\ CopiesCurrent' /\ RetiredAreSuperseded' /\ RequestsInOrder' /\ BootIsBehind'
    BY <1>1, EndKeeps
  <1>3. TypeOK' /\ DoomedAreUnowned'
    BY <1>1, <1>2 DEF IInv, TypeOK, DoomedAreUnowned
  <1> QED
    BY <1>2, <1>3 DEF IInv

\* So does one denied between creating a revision and settling the rest.
LEMMA EndUnsettledIInv ==
    ASSUME IInv, NEW w \in Writers, EndUnsettled(w)
    PROVE  IInv'
  <1>1. /\ End(w) /\ UNCHANGED boot
        /\ UNCHANGED <<uids, revs, meta, cache, cacheFresh, doomed, forsaken, updates, errors>>
        /\ unsettled' = unsettled + 1
    BY DEF EndUnsettled, End
  <1>2. /\ req' \in [Writers -> Request] /\ work' \in WorkStates
        /\ CopiesCurrent' /\ RetiredAreSuperseded' /\ RequestsInOrder' /\ BootIsBehind'
    BY <1>1, EndKeeps
  <1>3. TypeOK' /\ DoomedAreUnowned'
    BY <1>1, <1>2 DEF IInv, TypeOK, DoomedAreUnowned
  <1> QED
    BY <1>2, <1>3 DEF IInv

\* Going on from "list" as request r, which decided on what the cache shows.
LEMMA ListedIInv ==
    ASSUME IInv, NEW w \in Writers, NEW r \in Request,
           req[w].stage = "list", req' = [req EXCEPT ![w] = r],
           UNCHANGED <<boot, uids, revs, meta, cache, cacheFresh, doomed, forsaken,
                       unsettled, updates, errors>>,
           work' \in WorkStates,
           r.spec = req[w].spec, r.rev = req[w].rev,
           r.stage \in {"create", "store"},
           r.fresh => r.stage = "create" /\ r.latest \in cacheFresh
                      /\ cache[r.latest].phase = r.seen,
           r.stage = "create" => /\ r.new \in Ids
                                 /\ \A i \in r.todo \union {r.latest} : i < r.new
    PROVE  IInv'
  <1>1. \A v \in Writers : req'[v] = IF v = w THEN r ELSE req[v]
    BY DEF IInv, TypeOK
  <1>2. TypeOK' /\ DoomedAreUnowned'
    BY DEF IInv, TypeOK, DoomedAreUnowned
  <1>3. CopiesCurrent'
    BY <1>1 DEF IInv, CopiesCurrent, At
  <1>4. RetiredAreSuperseded'
    BY DEF IInv, RetiredAreSuperseded, Superseded, Held
  <1>5. RequestsInOrder'
    BY <1>1, LimitsAssumption DEF IInv, RequestsInOrder, At, Held, TypeOK
  <1>6. BootIsBehind'
    BY <1>1 DEF IInv, BootIsBehind, Reaches, Held
  <1> QED
    BY <1>2, <1>3, <1>4, <1>5, <1>6 DEF IInv

\* Listing decides on the cached history, whichever revisions it shows.
LEMMA ListRevisionsIInv ==
    ASSUME IInv, NEW w \in Writers, ListRevisions(w)
    PROVE  IInv'
  <1> DEFINE L == Held(cache)
             p == req[w]
  <1>1. /\ p \in Request /\ ~p.fresh /\ p.latest = 0 /\ p.todo = {} /\ p.stage = "list"
        /\ L \subseteq Ids
        /\ UNCHANGED <<boot, uids, revs, meta, cache, cacheFresh, doomed, forsaken,
                       unsettled, updates, errors>>
        /\ work' \in WorkStates
    BY DEF ListRevisions, IInv, TypeOK, others, RequestsInOrder, At, Held
  <1>2. 1 \in 0..MaxId /\ 1 \in Ids
    BY LimitsAssumption
  <1>3. ASSUME req' = [req EXCEPT ![w].stage = "create", ![w].new = 1]
        PROVE  IInv'
    <2> DEFINE r == [p EXCEPT !.stage = "create", !.new = 1]
    <2>1. r \in Request
      BY <1>1, <1>2, FirstRevisionType
    <2>2. /\ r.spec = p.spec /\ r.rev = p.rev /\ r.stage = "create" /\ ~r.fresh
          /\ r.new = 1 /\ r.latest = 0 /\ r.todo = {}
      BY <1>1 DEF Request
    <2>3. req' = [req EXCEPT ![w] = r]
      BY <1>3
    <2>4. \A i \in r.todo \union {r.latest} : i < r.new
      BY <2>2
    <2> HIDE DEF r
    <2> QED
      BY <1>1, <1>2, <2>1, <2>2, <2>3, <2>4, ListedIInv
  <1>4. ASSUME req' = [req EXCEPT ![w].stage = "store"]
        PROVE  IInv'
    <2> DEFINE r == [p EXCEPT !.stage = "store"]
    <2>1. r \in Request
      BY <1>1 DEF Request
    <2>2. r.spec = p.spec /\ r.rev = p.rev /\ r.stage = "store" /\ ~r.fresh
      BY <1>1 DEF Request
    <2>3. req' = [req EXCEPT ![w] = r]
      BY <1>4
    <2> HIDE DEF r
    <2> QED
      BY <1>1, <2>1, <2>2, <2>3, ListedIInv
  <1>5. ASSUME NEW l \in L, Newest(l, L), l + 1 <= MaxId,
               req' = [req EXCEPT ![w].stage = "create", ![w].new = l + 1,
                                  ![w].latest = l, ![w].seen = cache[l].phase,
                                  ![w].fresh = l \in cacheFresh,
                                  ![w].todo = Surplus(L)]
        PROVE  IInv'
    <2> DEFINE f == l \in cacheFresh
               ph == cache[l].phase
               t == Surplus(L)
               n == l + 1
               r == [p EXCEPT !.stage = "create", !.new = n, !.latest = l,
                              !.seen = ph, !.fresh = f, !.todo = t]
    <2>1. ph \in Phases
      BY DEF IInv, TypeOK, Held, Revision
    <2>2. /\ l \in 0..MaxId /\ n \in 0..MaxId /\ n \in Ids /\ l \in Ids
          /\ t \in SUBSET Ids /\ \A i \in t : i < n
      BY <1>1, <1>5, LimitsAssumption DEF Newest, Surplus
    <2>3. req' = [req EXCEPT ![w] = r]
      BY <1>5
    <2>4. f \in BOOLEAN /\ (f => l \in cacheFresh) /\ ph = cache[l].phase /\ l < n
      BY <2>2
    <2> HIDE DEF f, ph, t, n, p
    <2>5. p \in Request /\ l \in 0..MaxId /\ n \in 0..MaxId /\ ph \in Phases /\ f \in BOOLEAN
          /\ t \in SUBSET Ids
      BY <1>1, <2>1, <2>2, <2>4
    <2>6. /\ r \in Request /\ r.spec = p.spec /\ r.rev = p.rev /\ r.stage = "create"
          /\ r.fresh = f /\ r.new = n /\ r.latest = l
          /\ r.todo = t /\ r.seen = ph
      BY <2>5 DEF Request
    <2>7. \A i \in r.todo \union {r.latest} : i < r.new
      BY <2>2, <2>4, <2>6
    <2> HIDE DEF r
    <2> QED
      BY <1>1, <2>2, <2>3, <2>4, <2>6, <2>7, ListedIInv DEF p
  <1> QED
    BY <1>3, <1>4, <1>5 DEF ListRevisions

\* A write of revision i to x keeps the invariant, if something newer stays
\* behind x when x is retired or gone, and if request r, as which the writer
\* goes on, carries what its stage needs.
LEMMA WriteKeeps ==
    ASSUME IInv, NEW w \in Writers, NEW i \in Ids,
           NEW x \in Revision \union {NoRevision}, NEW r \in Request,
           WriteRevision(w, i, x, r), UNCHANGED <<boot, forsaken>>,
           ~forsaken /\ (Retired(x.phase) \/ x = NoRevision) => \E j \in Held(revs) : j > i,
           r.stage # "phase",
           r.stage # "idle" => r.spec \in Specs /\ req[w].stage # "idle" /\ r.rev = req[w].rev,
           r.stage = "list" => r.latest = 0 /\ r.todo = {},
           r.stage \in {"create", "demote", "prune"} =>
               r.new \in Ids /\ \A k \in r.todo \union {r.latest} : k < r.new,
           ~forsaken /\ r.stage \in {"demote", "prune"} =>
               (i >= r.new /\ x # NoRevision) \/ \E j \in Held(revs) : j >= r.new,
           r.stage = "list" => ~r.fresh,
           r.fresh => r.latest \in Ids,
           r.stage \in {"create", "demote"} /\ r.fresh =>
               r.latest # i /\ revs[r.latest].phase = r.seen
    PROVE  /\ revs' \in [Ids -> Revision \union {NoRevision}]
           /\ req' \in [Writers -> Request]
           /\ cache' = cache /\ cacheFresh' \in SUBSET Ids
           /\ CopiesCurrent' /\ RetiredAreSuperseded' /\ RequestsInOrder' /\ BootIsBehind'
  <1>1. /\ revs' \in [Ids -> Revision \union {NoRevision}]
        /\ \A j \in Ids : revs'[j] = IF j = i THEN x ELSE revs[j]
        /\ cache' = cache
        /\ cacheFresh' = cacheFresh \ {i}
        /\ req' \in [Writers -> Request]
        /\ req'[w] = r
        /\ \A v \in Writers \ {w} : Bystander(req'[v], req[v], i)
    BY WriteFacts DEF IInv
  <1>2. \A j \in Ids : /\ j \in Held(revs)' <=> (IF j = i THEN x # NoRevision ELSE j \in Held(revs))
                       /\ j \in Held(cache)' <=> j \in Held(cache)
    BY <1>1 DEF Held
  <1>3. ~forsaken =>
           \A n \in Nat : (\E j \in Held(revs) : j >= n) => \E j \in Held(revs)' : j >= n
    BY <1>2 DEF Held
  <1>4. CopiesCurrent'
    <2>1. \A j \in cacheFresh' : cache'[j] = revs'[j]
      BY <1>1 DEF IInv, CopiesCurrent, TypeOK
    <2>2. ASSUME NEW v \in Writers, req'[v].stage \in {"create", "demote"}, req'[v].fresh
          PROVE  revs'[req'[v].latest].phase = req'[v].seen
      BY <2>2, <1>1 DEF IInv, CopiesCurrent, RequestsInOrder, At, Bystander
    <2>3. ASSUME NEW v \in Writers, req'[v].stage = "phase", req'[v].fresh
          PROVE  /\ revs'[req'[v].latest] # NoRevision
                 /\ ~forsaken' => revs'[req'[v].latest].phase \in LivePhases
      BY <2>3, <1>1 DEF IInv, CopiesCurrent, RequestsInOrder, At, Bystander
    <2> QED
      BY <2>1, <2>2, <2>3 DEF CopiesCurrent, At
  <1>5. RetiredAreSuperseded'
    <2> SUFFICES ASSUME ~forsaken' PROVE (Superseded(revs) /\ Superseded(cache))'
      BY DEF RetiredAreSuperseded
    <2>1. Superseded(cache)'
      BY <1>1 DEF IInv, RetiredAreSuperseded, Superseded, Held
    <2>2. ASSUME NEW k \in Ids, Retired(revs'[k].phase)
          PROVE  \E j \in Held(revs)' : j > k
      <3>1. \E j \in Held(revs) : j > k
        BY <2>2, <1>1 DEF IInv, RetiredAreSuperseded, Superseded
      <3>2. (\E j \in Held(revs) : j >= k + 1) => \E j \in Held(revs)' : j >= k + 1
        BY <1>3
      <3> QED
        BY <3>1, <3>2, <1>2 DEF Held
    <2> QED
      BY <2>1, <2>2 DEF Superseded
  <1>6. RequestsInOrder'
    <2>1. ASSUME ~forsaken', NEW v \in Writers, req'[v].stage \in {"demote", "prune"}
          PROVE  \E j \in Held(revs)' : j >= req'[v].new
      <3>1. CASE v = w
        BY <3>1, <2>1, <1>1, <1>2, <1>3 DEF Request
      <3>2. CASE v # w
        <4>1. req[v].stage \in {"demote", "prune"} /\ req'[v].new = req[v].new
          BY <3>2, <2>1, <1>1 DEF Bystander
        <4>2. (\E j \in Held(revs) : j >= req[v].new) /\ req[v].new \in Nat
          BY <4>1, <2>1 DEF IInv, RequestsInOrder, At
        <4> QED
          BY <2>1, <4>1, <4>2, <1>3
      <3> QED
        BY <3>1, <3>2
    <2>2. ASSUME NEW v \in Writers
          PROVE  /\ req'[v].stage \in {"list", "create", "demote", "prune", "store"} =>
                       req'[v].spec \in Specs
                 /\ req'[v].stage = "list" =>
                       ~req'[v].fresh /\ req'[v].latest = 0 /\ req'[v].todo = {}
                 /\ req'[v].stage \in {"create", "demote", "prune"} =>
                       /\ req'[v].new \in Ids
                       /\ \A k \in req'[v].todo \union {req'[v].latest} : k < req'[v].new
                 /\ req'[v].fresh => req'[v].latest \in Ids
                 /\ req'[v].stage = "phase" => req'[v].seen \in LivePhases
      <3>1. CASE v = w
        BY <3>1, <1>1
      <3>2. CASE v # w
        BY <3>2, <1>1 DEF IInv, RequestsInOrder, At, Bystander
      <3> QED
        BY <3>1, <3>2
    <2> QED
      BY <2>1, <2>2 DEF RequestsInOrder, At
  <1>7. BootIsBehind'
    <2>1. \A n \in Nat : /\ ~forsaken /\ Reaches(revs, n) => Reaches(revs, n)'
                         /\ Reaches(cache, n) => Reaches(cache, n)'
      BY <1>1, <1>3 DEF Reaches, Held
    <2>2. boot.rev \in Nat /\ req[Controller].rev \in Nat
      BY DEF IInv, TypeOK, Boot, NoBoot, Request
    <2>3. req'[Controller].stage # "idle" =>
             req[Controller].stage # "idle" /\ req'[Controller].rev = req[Controller].rev
      BY <1>1 DEF Bystander
    <2>4. ~forsaken' => \A j \in Held(cache)' : Reaches(revs, j)'
      BY <1>2, <2>1 DEF IInv, BootIsBehind, Held
    <2> QED
      BY <2>1, <2>2, <2>3, <2>4 DEF IInv, BootIsBehind
  <1> QED
    BY <1>1, <1>4, <1>5, <1>6, <1>7 DEF IInv, TypeOK

\* The request recordRevision is done with goes on to the API server's store.
LEMMA RecordedType ==
    ASSUME NEW p \in Request
    PROVE  /\ Recorded(p) \in Request
           /\ Recorded(p).stage = "store" /\ ~Recorded(p).fresh
           /\ Recorded(p).spec = p.spec /\ Recorded(p).rev = p.rev
           /\ Recorded(p).cur = p.cur
  <1> DEFINE r == Recorded(p)
  <1>1. r = [p EXCEPT !.stage = "store", !.new = 0, !.latest = 0, !.seen = "Running",
                      !.fresh = FALSE, !.todo = {}]
    BY DEF Recorded
  <1> HIDE DEF r
  <1>2. ASSUME NEW st \in Stages, NEW n \in 0..MaxId, NEW ph \in Phases,
               NEW f \in BOOLEAN, NEW t \in SUBSET Ids,
               r = [p EXCEPT !.stage = st, !.new = n, !.latest = n, !.seen = ph,
                             !.fresh = f, !.todo = t]
        PROVE  /\ r \in Request /\ r.stage = st /\ r.fresh = f
               /\ r.spec = p.spec /\ r.rev = p.rev /\ r.cur = p.cur
    BY <1>2, ZenonT(60) DEF Request
  <1>3. /\ "store" \in Stages /\ 0 \in 0..MaxId /\ "Running" \in Phases
        /\ FALSE \in BOOLEAN /\ {} \in SUBSET Ids
    BY LimitsAssumption
  <1>4. /\ r \in Request /\ r.stage = "store" /\ r.fresh = FALSE
        /\ r.spec = p.spec /\ r.rev = p.rev /\ r.cur = p.cur
    BY <1>2, <1>3, <1>1
  <1> QED
    BY <1>4 DEF r

\* Creating a revision, or finding its name taken.
LEMMA CreateRevisionIInv ==
    ASSUME IInv, NEW w \in Writers, CreateRevision(w)
    PROVE  IInv'
  <1> DEFINE p == req[w]
             x == [spec |-> p.spec, phase |-> "Running"]
             r == IF p.latest = 0 THEN Recorded(p) ELSE [p EXCEPT !.stage = "demote"]
  <1>1. /\ p \in Request /\ p.stage = "create" /\ p.spec \in Specs /\ p.new \in Ids
        /\ \A i \in p.todo \union {p.latest} : i < p.new
        /\ p.fresh => p.latest \in Ids /\ revs[p.latest].phase = p.seen
        /\ UNCHANGED <<boot, forsaken>> /\ UNCHANGED <<uids, doomed, updates, errors>>
    BY DEF CreateRevision, IInv, TypeOK, RequestsInOrder, CopiesCurrent, At
  <1>2. ASSUME End(w), UNCHANGED unsettled
        PROVE  IInv'
    <2>1. /\ req' \in [Writers -> Request] /\ work' \in WorkStates
          /\ CopiesCurrent' /\ RetiredAreSuperseded' /\ RequestsInOrder' /\ BootIsBehind'
      BY <1>1, <1>2, EndKeeps
    <2> QED
      BY <1>1, <1>2, <2>1 DEF IInv, TypeOK, DoomedAreUnowned, End
  <1>3. ASSUME WriteRevision(w, p.new, x, r),
               meta' = [meta EXCEPT ![p.new] = Unowned], UNCHANGED work,
               unsettled' \in {unsettled, unsettled + 1}
        PROVE  IInv'
    <2>1. x \in Revision /\ x.phase = "Running"
      BY <1>1 DEF Revision
    <2>2. x # NoRevision /\ ~Retired(x.phase)
      BY <2>1, Absence DEF Retired
    <2>3. /\ r \in Request /\ r.spec = p.spec /\ r.rev = p.rev
          /\ r.stage \in {"store", "demote"}
          /\ r.stage = "demote" => /\ r.new = p.new /\ r.latest = p.latest
                                   /\ r.todo = p.todo /\ r.seen = p.seen
          /\ r.fresh => r.stage = "demote" /\ p.fresh
      <3>1. CASE p.latest = 0
        BY <3>1, <1>1, RecordedType
      <3>2. CASE p.latest # 0
        BY <3>2, <1>1 DEF Request
      <3> QED
        BY <3>1, <3>2
    <2>4. r.fresh => r.latest \in Ids \ {p.new} /\ revs[r.latest].phase = r.seen
      BY <2>3, <1>1
    <2>7. r.stage = "demote" => /\ r.new \in Ids /\ p.new >= r.new
                               /\ \A k \in r.todo \union {r.latest} : k < r.new
      BY <1>1, <2>3
    <2> HIDE DEF r, x
    <2>5. /\ revs' \in [Ids -> Revision \union {NoRevision}]
          /\ req' \in [Writers -> Request]
          /\ cache' = cache /\ cacheFresh' \in SUBSET Ids
          /\ CopiesCurrent' /\ RetiredAreSuperseded' /\ RequestsInOrder' /\ BootIsBehind'
      BY <1>1, <1>3, <2>1, <2>2, <2>3, <2>4, <2>7, WriteKeeps
    <2>6. Unowned \in Meta /\ Unowned.owner = 0
      BY DEF Unowned, Meta
    <2>8. TypeOK' /\ DoomedAreUnowned'
      BY <1>1, <1>3, <2>5, <2>6 DEF IInv, TypeOK, DoomedAreUnowned
    <2> QED
      BY <2>5, <2>8 DEF IInv
  <1>4. \/ End(w) /\ UNCHANGED unsettled
        \/ /\ WriteRevision(w, p.new, x, r)
           /\ meta' = [meta EXCEPT ![p.new] = Unowned] /\ UNCHANGED work
           /\ unsettled' \in {unsettled, unsettled + 1}
    BY DEF CreateRevision
  <1> QED
    BY <1>2, <1>3, <1>4

\* Retiring the revision that the one just created supersedes.
LEMMA DemoteLatestIInv ==
    ASSUME IInv, NEW w \in Writers, DemoteLatest(w)
    PROVE  IInv'
  <1> DEFINE p == req[w]
             x == [revs[p.latest] EXCEPT !.phase = Finish(p.seen)]
             r == IF p.todo = {} THEN Recorded(p)
                  ELSE [p EXCEPT !.stage = "prune", !.latest = 0,
                                 !.seen = "Running", !.fresh = FALSE]
  <1>1. /\ p \in Request /\ p.stage = "demote" /\ p.spec \in Specs /\ p.new \in Ids
        /\ \A i \in p.todo \union {p.latest} : i < p.new
        /\ ~forsaken => \E j \in Held(revs) : j >= p.new
        /\ p.fresh => p.latest \in Ids /\ revs[p.latest].phase = p.seen
    BY DEF DemoteLatest, IInv, TypeOK, RequestsInOrder, CopiesCurrent, At
  <1>2. ASSUME p.fresh, WriteRevision(w, p.latest, x, r),
               UNCHANGED <<boot, uids, meta, work, doomed, forsaken, unsettled, updates, errors>>
        PROVE  IInv'
    <2>1. p.seen \in Phases /\ Finish(p.seen) \in Phases
      BY <1>1 DEF Request, Finish
    <2>2. p.latest \in Ids /\ revs[p.latest] \in Revision
      BY <1>1, <1>2, <2>1, Absence DEF IInv, TypeOK
    <2>3. x \in Revision
      BY <2>1, <2>2 DEF Revision
    <2>4. ~forsaken => \E j \in Held(revs) : j > p.latest
      BY <1>1, <2>2 DEF Held
    <2>5. /\ r \in Request /\ r.spec = p.spec /\ r.rev = p.rev /\ ~r.fresh
          /\ r.stage \in {"store", "prune"}
          /\ r.stage = "prune" => r.new = p.new /\ r.latest = 0 /\ r.todo = p.todo
      <3>1. CASE p.todo = {}
        BY <3>1, <1>1, RecordedType
      <3>2. CASE p.todo # {}
        <4>1. ASSUME NEW st \in Stages, NEW n \in 0..MaxId, NEW ph \in Phases,
                     NEW f \in BOOLEAN,
                     r = [p EXCEPT !.stage = st, !.latest = n, !.seen = ph, !.fresh = f]
              PROVE  /\ r \in Request /\ r.stage = st /\ r.fresh = f /\ r.latest = n
                     /\ r.new = p.new /\ r.todo = p.todo
                     /\ r.spec = p.spec /\ r.rev = p.rev
          BY <4>1, <1>1, ZenonT(60) DEF Request
        <4>2. "prune" \in Stages /\ 0 \in 0..MaxId /\ "Running" \in Phases
          BY LimitsAssumption
        <4>3. r = [p EXCEPT !.stage = "prune", !.latest = 0, !.seen = "Running", !.fresh = FALSE]
          BY <3>2
        <4> QED
          BY <4>1, <4>2, <4>3
      <3> QED
        BY <3>1, <3>2
    <2>6. r.stage = "prune" => r.new \in Ids /\ \A k \in r.todo \union {r.latest} : k < r.new
      BY <1>1, <2>5
    <2> HIDE DEF r, x
    <2>7. UNCHANGED <<boot, forsaken>>
      BY <1>2
    <2>8. /\ revs' \in [Ids -> Revision \union {NoRevision}]
          /\ req' \in [Writers -> Request]
          /\ cache' = cache /\ cacheFresh' \in SUBSET Ids
          /\ CopiesCurrent' /\ RetiredAreSuperseded' /\ RequestsInOrder' /\ BootIsBehind'
      BY <1>1, <1>2, <2>2, <2>3, <2>4, <2>5, <2>6, <2>7, WriteKeeps
    <2> QED
      BY <1>2, <2>8 DEF IInv, TypeOK, DoomedAreUnowned
  <1> QED
    BY <1>2, EndUnsettledIInv DEF DemoteLatest, others

\* Deleting a surplus revision: the one the request created is newer.
LEMMA PruneOldestIInv ==
    ASSUME IInv, NEW w \in Writers, PruneOldest(w)
    PROVE  IInv'
  <1> DEFINE p == req[w]
  <1>1. /\ p \in Request /\ p.stage = "prune" /\ p.spec \in Specs /\ p.new \in Ids
        /\ p.todo \in SUBSET Ids
        /\ \A i \in p.todo \union {p.latest} : i < p.new
        /\ ~forsaken => \E j \in Held(revs) : j >= p.new
        /\ p.fresh => p.latest \in Ids
    BY DEF PruneOldest, IInv, TypeOK, RequestsInOrder, At, Request
  <1>2. ASSUME NEW i \in p.todo,
               WriteRevision(w, i, NoRevision,
                   IF p.todo \ {i} = {} THEN Recorded(p) ELSE [p EXCEPT !.todo = p.todo \ {i}]),
               meta' = [meta EXCEPT ![i] = Unowned],
               UNCHANGED <<boot, uids, work, doomed, forsaken, unsettled, updates, errors>>
        PROVE  IInv'
    <2> DEFINE rest == p.todo \ {i}
               r == IF rest = {} THEN Recorded(p) ELSE [p EXCEPT !.todo = rest]
    <2>1. i \in Ids /\ i < p.new /\ rest \in SUBSET Ids /\ rest \subseteq p.todo
      BY <1>1
    <2>2. ~forsaken => \E j \in Held(revs) : j > i
      BY <1>1, <2>1 DEF Held
    <2> HIDE DEF rest
    <2>3. /\ r \in Request /\ r.spec = p.spec /\ r.rev = p.rev
          /\ r.stage \in {"store", "prune"}
          /\ r.stage = "prune" => r.new = p.new /\ r.latest = p.latest /\ r.todo = rest
          /\ r.fresh => p.fresh /\ r.stage = "prune"
      <3>1. CASE rest = {}
        BY <3>1, <1>1, RecordedType
      <3>2. CASE rest # {}
        BY <3>2, <1>1, <2>1 DEF Request
      <3> QED
        BY <3>1, <3>2
    <2>4. /\ r.stage = "prune" => /\ r.new \in Ids
                                  /\ \A k \in r.todo \union {r.latest} : k < r.new
          /\ r.fresh => r.latest \in Ids
      BY <1>1, <2>1, <2>3
    <2>5. WriteRevision(w, i, NoRevision, r) /\ UNCHANGED <<boot, forsaken>>
      BY <1>2 DEF rest
    <2> HIDE DEF r
    <2>6. /\ revs' \in [Ids -> Revision \union {NoRevision}]
          /\ req' \in [Writers -> Request]
          /\ cache' = cache /\ cacheFresh' \in SUBSET Ids
          /\ CopiesCurrent' /\ RetiredAreSuperseded' /\ RequestsInOrder' /\ BootIsBehind'
      BY <1>1, <2>1, <2>2, <2>3, <2>4, <2>5, WriteKeeps
    <2>7. Unowned \in Meta /\ Unowned.owner = 0
      BY DEF Unowned, Meta
    <2>8. TypeOK' /\ DoomedAreUnowned'
      BY <1>2, <2>1, <2>6, <2>7 DEF IInv, TypeOK, DoomedAreUnowned
    <2> QED
      BY <2>6, <2>8 DEF IInv
  <1> QED
    BY <1>2, EndUnsettledIInv DEF PruneOldest, others

\* Storing the Boot, for a user or for the controller.
LEMMA StoreBootIInv ==
    ASSUME IInv, NEW w \in Writers, StoreBoot(w)
    PROVE  IInv'
  <1> DEFINE p == req[w]
  <1>1. /\ p \in Request /\ p.stage = "store" /\ p.spec \in Specs
        /\ UNCHANGED <<revs, meta, cache, cacheFresh, doomed, forsaken>>
        /\ UNCHANGED <<unsettled, updates, errors>>
        /\ boot \in Boot \union {NoBoot} /\ uids \in Nat
    BY DEF StoreBoot, IInv, TypeOK, RequestsInOrder, At, others
  <1>2. ASSUME req' = [req EXCEPT ![w] = Idle], work' = AfterRefusal(w),
               UNCHANGED <<boot, uids>>
        PROVE  IInv'
    <2>1. End(w) /\ UNCHANGED <<boot, forsaken>>
      BY <1>1, <1>2 DEF End
    <2>2. /\ req' \in [Writers -> Request] /\ work' \in WorkStates
          /\ CopiesCurrent' /\ RetiredAreSuperseded' /\ RequestsInOrder' /\ BootIsBehind'
      BY <2>1, EndKeeps
    <2> QED
      BY <1>1, <1>2, <2>2 DEF IInv, TypeOK, DoomedAreUnowned
  <1>3. ASSUME boot' = CASE w = Controller -> [boot EXCEPT !.rev = p.rev, !.ready = p.ready]
                         [] boot = NoBoot  -> [NoBoot EXCEPT !.uid = uids + 1, !.spec = p.spec]
                         [] OTHER          -> [boot EXCEPT !.spec = p.spec],
               uids' = IF boot = NoBoot THEN uids + 1 ELSE uids, work' = "queued",
               req' = [v \in Writers |-> IF v = w THEN Idle ELSE [req[v] EXCEPT !.cur = FALSE]]
        PROVE  IInv'
    <2>1. \A v \in Writers :
             /\ req'[v] = IF v = w THEN Idle ELSE [req[v] EXCEPT !.cur = FALSE]
             /\ req[v] \in Request
      BY <1>3 DEF IInv, TypeOK
    <2>3. \A v \in Writers \ {w} :
             /\ req'[v] \in Request
             /\ req'[v].stage = req[v].stage /\ req'[v].spec = req[v].spec
             /\ req'[v].rev = req[v].rev /\ req'[v].new = req[v].new
             /\ req'[v].latest = req[v].latest /\ req'[v].seen = req[v].seen
             /\ req'[v].fresh = req[v].fresh /\ req'[v].todo = req[v].todo
      <3> TAKE v \in Writers \ {w}
      <3> DEFINE q == req[v]
                 r == req'[v]
      <3>1. q \in Request /\ r = [q EXCEPT !.cur = FALSE]
        BY <2>1
      <3> HIDE DEF q, r
      <3>2. /\ r \in Request /\ r.stage = q.stage /\ r.spec = q.spec /\ r.rev = q.rev
            /\ r.new = q.new /\ r.latest = q.latest /\ r.seen = q.seen
            /\ r.fresh = q.fresh /\ r.todo = q.todo
        BY <3>1 DEF Request
      <3> QED
        BY <3>2 DEF q, r
    <2>4. req'[w] = Idle /\ Idle.stage = "idle" /\ ~Idle.fresh
      BY <2>1 DEF Idle
    <2>5. req' \in [Writers -> Request]
      BY <1>3, <2>3, <2>4, IdleType
    <2>6. /\ w = Controller => boot # NoBoot
          /\ boot' \in Boot
          /\ boot'.rev = IF w = Controller THEN p.rev ELSE boot.rev
      <3>1. CASE w = Controller
        <4>1. boot \in Boot /\ boot # NoBoot
          BY <3>1, <1>1 DEF IInv, BootIsBehind
        <4>2. boot' = [boot EXCEPT !.rev = p.rev, !.ready = p.ready]
          BY <3>1, <4>1, <1>3
        <4>3. p.rev \in 0..MaxId /\ p.ready \in BOOLEAN
          BY <1>1 DEF Request
        <4>4. ASSUME NEW n \in 0..MaxId, NEW b \in BOOLEAN,
                     boot' = [boot EXCEPT !.rev = n, !.ready = b]
              PROVE  boot' \in Boot /\ boot'.rev = n
          BY <4>1, <4>4 DEF Boot
        <4>5. boot' \in Boot /\ boot'.rev = p.rev
          BY <4>2, <4>3, <4>4
        <4> HIDE DEF p
        <4> QED
          BY <3>1, <4>1, <4>5
      <3>2. CASE w # Controller /\ boot = NoBoot
        <4>1. boot' = [uid |-> uids + 1, spec |-> p.spec, rev |-> 0, ready |-> FALSE]
          BY <3>2, <1>3 DEF NoBoot
        <4>2. uids + 1 \in Nat \ {0} /\ 0 \in 0..MaxId /\ boot.rev = 0
          BY <3>2, <1>1, LimitsAssumption DEF NoBoot
        <4> QED
          BY <3>2, <4>1, <4>2, <1>1 DEF Boot
      <3>3. CASE w # Controller /\ boot # NoBoot
        <4>1. boot' = [boot EXCEPT !.spec = p.spec]
          BY <3>3, <1>3
        <4> QED
          BY <3>3, <4>1, <1>1 DEF Boot
      <3> QED
        BY <3>1, <3>2, <3>3
    <2>7. TypeOK' /\ DoomedAreUnowned'
      <3>1. uids' \in Nat
        BY <1>1, <1>3
      <3>2. TypeOK /\ DoomedAreUnowned /\ work' \in WorkStates
        BY <1>3 DEF IInv, WorkStates
      <3> HIDE DEF p
      <3> QED
        BY <1>1, <2>5, <2>6, <3>1, <3>2 DEF TypeOK, DoomedAreUnowned
    <2>8. CopiesCurrent'
      BY <1>1, <2>3, <2>4 DEF IInv, CopiesCurrent, At
    <2>9. RetiredAreSuperseded'
      BY <1>1 DEF IInv, RetiredAreSuperseded, Superseded, Held
    <2>10. RequestsInOrder'
      BY <1>1, <2>3, <2>4 DEF IInv, RequestsInOrder, At, Held
    <2>11. BootIsBehind'
      <3>1. UNCHANGED <<Held(revs), Held(cache)>>
        BY <1>1 DEF Held
      <3>2. boot' # NoBoot
        BY <2>6, Absence
      <3>3. CASE w = Controller
        BY <3>1, <3>2, <3>3, <1>1, <2>4, <2>6 DEF IInv, BootIsBehind, Reaches
      <3>4. CASE w # Controller
        BY <1>1, <3>1, <3>2, <3>4, <2>3, <2>6 DEF IInv, BootIsBehind, Reaches
      <3> QED
        BY <3>3, <3>4
    <2> QED
      BY <2>7, <2>8, <2>9, <2>10, <2>11 DEF IInv
  <1> QED
    BY <1>2, <1>3 DEF StoreBoot

\* What the controller sends for revision id n, covered by both views, carries
\* what the webhook needs.
LEMMA SendMetaFacts ==
    ASSUME TypeOK, boot # NoBoot, NEW q \in Request
    PROVE  /\ SendMeta(q) \in Request
           /\ SendMeta(q).stage \in {"idle", "list"}
           /\ ~SendMeta(q).fresh /\ SendMeta(q).latest = 0 /\ SendMeta(q).todo = {}
           /\ SendMeta(q).stage = "list" =>
                  SendMeta(q).spec \in Specs /\ SendMeta(q).rev = q.rev
  <1> DEFINE sent == [Idle EXCEPT !.stage = "list", !.spec = boot.spec, !.rev = q.rev,
                                  !.ready = q.ready, !.cur = TRUE]
  <1>1. boot.spec \in Specs /\ q.rev \in 0..MaxId /\ q.ready \in BOOLEAN
    BY DEF TypeOK, Boot, Request
  <1>2. ASSUME NEW sp \in Specs, NEW n \in 0..MaxId, NEW b \in BOOLEAN, NEW t \in BOOLEAN,
               sent = [Idle EXCEPT !.stage = "list", !.spec = sp, !.rev = n,
                                   !.ready = b, !.cur = t]
        PROVE  /\ sent \in Request /\ sent.stage = "list" /\ sent.spec = sp /\ sent.rev = n
               /\ sent.fresh = Idle.fresh /\ sent.latest = Idle.latest /\ sent.todo = Idle.todo
    <2> HIDE DEF sent
    <2> QED
      BY <1>2, IdleType DEF Request
  <1>3. /\ sent \in Request /\ sent.stage = "list" /\ sent.spec \in Specs /\ sent.rev = q.rev
        /\ ~sent.fresh /\ sent.latest = 0 /\ sent.todo = {}
    <2>1. sent = [Idle EXCEPT !.stage = "list", !.spec = boot.spec, !.rev = q.rev,
                              !.ready = q.ready, !.cur = TRUE]
      OBVIOUS
    <2>2. Idle.fresh = FALSE /\ Idle.latest = 0 /\ Idle.todo = {} /\ TRUE \in BOOLEAN
      BY DEF Idle
    <2> HIDE DEF sent
    <2> QED
      BY <1>1, <1>2, <2>1, <2>2, ZenonT(60)
  <1>4. SendMeta(q) \in {sent, Idle}
    BY DEF SendMeta
  <1>5. Idle.stage = "idle" /\ ~Idle.fresh /\ Idle.latest = 0 /\ Idle.todo = {}
    BY DEF Idle
  <1> HIDE DEF sent
  <1> QED
    BY <1>3, <1>4, <1>5, IdleType

\* The controller starting on request r: either it writes the newest cached
\* revision's phase, or it sends the Boot.
LEMMA StartedIInv ==
    ASSUME IInv, boot # NoBoot, NEW r \in Request,
           req' = [req EXCEPT ![Controller] = r],
           UNCHANGED <<boot, uids, revs, meta, cache, cacheFresh, doomed, forsaken,
                       unsettled, updates, errors>>,
           work' \in WorkStates,
           r.stage \in {"idle", "list", "phase"},
           r.stage = "list" => /\ r.spec \in Specs /\ r.latest = 0 /\ r.todo = {}
                               /\ ~r.fresh,
           r.stage = "phase" => r.seen \in LivePhases,
           r.fresh => /\ r.latest \in Ids /\ revs[r.latest] # NoRevision
                      /\ ~forsaken => revs[r.latest].phase \in LivePhases,
           ~forsaken /\ r.stage # "idle" =>
               boot.rev <= r.rev /\ Reaches(revs, r.rev) /\ Reaches(cache, r.rev)
    PROVE  IInv'
  <1>1. \A v \in Writers : req'[v] = IF v = Controller THEN r ELSE req[v]
    BY DEF IInv, TypeOK
  <1>2. TypeOK' /\ DoomedAreUnowned'
    BY DEF IInv, TypeOK, DoomedAreUnowned
  <1>3. CopiesCurrent'
    BY <1>1 DEF IInv, CopiesCurrent, At
  <1>4. RetiredAreSuperseded'
    BY DEF IInv, RetiredAreSuperseded, Superseded, Held
  <1>5. RequestsInOrder'
    BY <1>1 DEF IInv, RequestsInOrder, At, Held
  <1>6. BootIsBehind'
    <2>1. UNCHANGED <<Held(revs), Held(cache)>>
      BY DEF Held
    <2> QED
      BY <1>1, <2>1 DEF IInv, BootIsBehind, Reaches
  <1> QED
    BY <1>2, <1>3, <1>4, <1>5, <1>6 DEF IInv

\* The controller reads the newest cached revision, which is not retired.
LEMMA ReconcileIInv ==
    ASSUME IInv, Reconcile
    PROVE  IInv'
  <1> DEFINE L == Held(cache)
             read(l, a) == [Idle EXCEPT !.cur = TRUE, !.rev = l, !.ready = a]
             start(l, a, ph) == [read(l, a) EXCEPT !.stage = "phase", !.latest = l,
                                                   !.seen = ph, !.fresh = l \in cacheFresh]
  <1>1. /\ boot # NoBoot /\ boot.rev \in 0..MaxId /\ L \subseteq Ids
        /\ UNCHANGED <<boot, uids, revs, meta, cache, cacheFresh, doomed, forsaken,
                       unsettled, updates, errors>>
        /\ work' \in WorkStates
    BY DEF Reconcile, Startable, Seen, WorkStates, others, IInv, TypeOK, Boot, Held
  <1>2. ASSUME NEW l \in 0..MaxId, NEW a \in BOOLEAN
        PROVE  read(l, a) \in Request /\ read(l, a).rev = l
    BY IdleType DEF Request
  <1>3. ASSUME NEW l \in 0..MaxId, NEW a \in BOOLEAN,
               ~forsaken => boot.rev <= l /\ Reaches(revs, l) /\ Reaches(cache, l),
               req' = [req EXCEPT ![Controller] = SendMeta(read(l, a))]
        PROVE  IInv'
    <2> DEFINE q == read(l, a)
               r == SendMeta(q)
    <2>1. q \in Request /\ q.rev = l
      BY <1>2
    <2>2. req' = [req EXCEPT ![Controller] = r]
      BY <1>3
    <2> HIDE DEF q
    <2>3. /\ r \in Request /\ r.stage \in {"idle", "list"}
          /\ ~r.fresh /\ r.latest = 0 /\ r.todo = {}
          /\ r.stage = "list" => r.spec \in Specs /\ r.rev = l
      BY <1>1, <2>1, SendMetaFacts DEF IInv
    <2> HIDE DEF r
    <2> QED
      BY <1>1, <1>3, <2>2, <2>3, StartedIInv
  <1>4. ASSUME NEW l \in L, Newest(l, L), NEW a \in BOOLEAN, NEW ph \in LivePhases,
               req' = [req EXCEPT ![Controller] = start(l, a, ph)]
        PROVE  IInv'
    <2>1. /\ l \in Ids /\ l \in 0..MaxId
          /\ ~forsaken => boot.rev <= l /\ Reaches(revs, l) /\ Reaches(cache, l)
      BY <1>1, <1>4 DEF IInv, BootIsBehind, Reaches, Newest
    <2>2. l \in cacheFresh => /\ revs[l] # NoRevision
                              /\ forsaken \/ revs[l].phase \in LivePhases
      <3>1. cache[l] \in Revision
        BY <1>1, Absence DEF IInv, TypeOK, Held
      <3>2. ~forsaken => ~Retired(cache[l].phase)
        BY <1>1, <1>4 DEF IInv, RetiredAreSuperseded, Superseded, Newest
      <3> QED
        BY <3>1, <3>2, Absence DEF IInv, CopiesCurrent, Revision, Retired
    <2> DEFINE q == read(l, a)
               f == l \in cacheFresh
               r == [q EXCEPT !.stage = "phase", !.latest = l, !.seen = ph, !.fresh = f]
    <2>3. q \in Request /\ q.rev = l
      BY <1>2, <2>1
    <2>4. req' = [req EXCEPT ![Controller] = r]
      BY <1>4
    <2>5. /\ f \in BOOLEAN /\ ph \in Phases
          /\ f => revs[l] # NoRevision /\ (forsaken \/ revs[l].phase \in LivePhases)
      BY <2>2
    <2> HIDE DEF q, f
    <2>6. /\ r \in Request /\ r.stage = "phase" /\ r.latest = l /\ r.seen = ph
          /\ r.fresh = f /\ r.rev = l
      BY <2>1, <2>3, <2>5 DEF Request
    <2> HIDE DEF r
    <2> QED
      BY <1>1, <2>1, <2>4, <2>5, <2>6, StartedIInv
  <1>5. ASSUME L = {}
        PROVE  ~forsaken => Reaches(revs, boot.rev) /\ Reaches(cache, boot.rev)
    BY <1>1 DEF IInv, BootIsBehind
  <1>6. ASSUME NEW l \in L, Newest(l, L)
        PROVE  /\ l \in 0..MaxId
               /\ ~forsaken => boot.rev <= l /\ Reaches(revs, l) /\ Reaches(cache, l)
    BY <1>1, <1>6 DEF IInv, BootIsBehind, Reaches, Newest
  <1>7. PICK available \in Availability :
          \/ /\ L = {}
             /\ req' = [req EXCEPT ![Controller] = SendMeta(read(boot.rev, available))]
          \/ \E l \in L :
             /\ Newest(l, L)
             /\ \/ req' = [req EXCEPT ![Controller] = SendMeta(read(l, available))]
                \/ \E ph \in LivePhases :
                      req' = [req EXCEPT ![Controller] = start(l, available, ph)]
    BY DEF Reconcile
  <1>8. available \in BOOLEAN
    BY AvailabilityAssumption
  <1>9. boot.rev <= boot.rev
    BY <1>1
  <1> HIDE DEF L, read, start
  <1> QED
    BY <1>1, <1>3, <1>4, <1>5, <1>6, <1>7, <1>8, <1>9

\* The controller's phase update finds the revision as it read it, or ends.
LEMMA UpdatePhaseIInv ==
    ASSUME IInv, UpdatePhase
    PROVE  IInv'
  <1> DEFINE p == req[Controller]
             x == [revs[p.latest] EXCEPT !.phase = p.seen]
             r == SendMeta(p)
  <1>1. /\ p \in Request /\ p.stage = "phase" /\ p.seen \in LivePhases /\ boot # NoBoot
        /\ p.fresh => p.latest \in Ids /\ revs[p.latest] # NoRevision
        /\ UNCHANGED <<boot, forsaken>> /\ UNCHANGED <<uids, doomed, unsettled, updates, errors>>
    BY DEF UpdatePhase, IInv, TypeOK, RequestsInOrder, CopiesCurrent, BootIsBehind, At, others
  <1>2. ASSUME p.fresh, WriteRevision(Controller, p.latest, x, r), UNCHANGED <<meta, work>>
        PROVE  IInv'
    <2>1. p.latest \in Ids /\ revs[p.latest] \in Revision
      BY <1>1, <1>2, Absence DEF IInv, TypeOK
    <2>2. x \in Revision /\ ~Retired(x.phase) /\ x # NoRevision
      <3>1. x \in Revision /\ x.phase = p.seen
        BY <1>1, <2>1 DEF Revision
      <3> QED
        BY <3>1, <1>1, Absence DEF Retired
    <2>3. /\ r \in Request /\ r.stage \in {"idle", "list"}
          /\ ~r.fresh /\ r.latest = 0 /\ r.todo = {}
          /\ r.stage = "list" => r.spec \in Specs /\ r.rev = p.rev
      BY <1>1, SendMetaFacts DEF IInv
    <2> HIDE DEF r, x
    <2>4. /\ revs' \in [Ids -> Revision \union {NoRevision}]
          /\ req' \in [Writers -> Request]
          /\ cache' = cache /\ cacheFresh' \in SUBSET Ids
          /\ CopiesCurrent' /\ RetiredAreSuperseded' /\ RequestsInOrder' /\ BootIsBehind'
      BY <1>1, <1>2, <2>1, <2>2, <2>3, WriteKeeps
    <2> QED
      BY <1>1, <1>2, <2>4 DEF IInv, TypeOK, DoomedAreUnowned
  <1>3. ASSUME End(Controller)
        PROVE  IInv'
    <2>1. /\ req' \in [Writers -> Request] /\ work' \in WorkStates
          /\ CopiesCurrent' /\ RetiredAreSuperseded' /\ RequestsInOrder' /\ BootIsBehind'
      BY <1>1, <1>3, EndKeeps
    <2> QED
      BY <1>1, <1>3, <2>1 DEF IInv, TypeOK, DoomedAreUnowned, End
  <1> QED
    BY <1>2, <1>3 DEF UpdatePhase

\* A write of revision i's owner or retries makes the copies of it stale and
\* leaves the rest of it as it was.
LEMMA MetaWriteIInv ==
    ASSUME IInv, NEW i \in Ids, meta' \in [Ids -> Meta],
           cacheFresh' = cacheFresh \ {i}, req' = Outdated(i),
           \A k \in doomed : meta'[k].owner = meta[k].owner,
           UNCHANGED <<boot, uids, revs, cache, work, doomed, forsaken, unsettled, updates,
                       errors>>
    PROVE  IInv'
  <1>1. /\ req' \in [Writers -> Request]
        /\ \A v \in Writers : Bystander(req'[v], req[v], i)
    BY OutdatedFacts DEF IInv
  <1>2. TypeOK' /\ DoomedAreUnowned'
    BY <1>1 DEF IInv, TypeOK, DoomedAreUnowned
  <1>3. CopiesCurrent'
    BY <1>1 DEF IInv, CopiesCurrent, At, Bystander
  <1>4. RetiredAreSuperseded'
    BY DEF IInv, RetiredAreSuperseded, Superseded, Held
  <1>5. RequestsInOrder'
    BY <1>1 DEF IInv, RequestsInOrder, At, Held, Bystander
  <1>6. BootIsBehind'
    <2>1. UNCHANGED <<Held(revs), Held(cache)>>
      BY DEF Held
    <2> QED
      BY <1>1, <2>1 DEF IInv, BootIsBehind, Reaches, Bystander
  <1> QED
    BY <1>2, <1>3, <1>4, <1>5, <1>6 DEF IInv

\* Adopting a revision touches its owner only.
LEMMA AdoptIInv ==
    ASSUME IInv, NEW i \in Ids \ doomed, Adopt(i, boot.uid)
    PROVE  IInv'
  <1>1. boot.uid \in Nat /\ meta \in [Ids -> Meta]
    BY DEF IInv, TypeOK, Boot, NoBoot
  <1>2. meta' \in [Ids -> Meta] /\ \A k \in Ids \ {i} : meta'[k] = meta[k]
    BY <1>1 DEF Adopt, Meta
  <1>3. doomed \subseteq Ids \ {i}
    BY DEF IInv, TypeOK
  <1> QED
    BY <1>2, <1>3, MetaWriteIInv DEF Adopt, others

\* Counting a retry touches the retry count only.
LEMMA RetryLaterIInv ==
    ASSUME IInv, NEW i \in Ids, RetryLater(i)
    PROVE  IInv'
  <1>1. meta \in [Ids -> Meta]
    BY DEF IInv, TypeOK
  <1>2. meta' \in [Ids -> Meta] /\ \A k \in Ids : meta'[k].owner = meta[k].owner
    BY <1>1 DEF RetryLater, Meta
  <1>3. doomed \subseteq Ids
    BY DEF IInv, TypeOK
  <1> QED
    BY <1>2, <1>3, MetaWriteIInv DEF RetryLater, others

\* Giving a revision up is decided while nobody owns it.
LEMMA GiveUpIInv ==
    ASSUME IInv, NEW i \in Ids, GiveUp(i)
    PROVE  IInv'
  <1>1. /\ doomed' = doomed \union {i} /\ meta[i].owner = 0
        /\ UNCHANGED <<boot, uids, revs, meta, cache, cacheFresh, req, work, forsaken,
                       unsettled, updates, errors>>
    BY DEF GiveUp, Doom, Unadopted
  <1> QED
    BY <1>1 DEF IInv, TypeOK, DoomedAreUnowned, CopiesCurrent, RetiredAreSuperseded, Superseded,
                RequestsInOrder, BootIsBehind, Reaches, At, Held

\* The deletion that follows takes the revision from every copy; of the history
\* as a whole it keeps no promise.
LEMMA DeleteDoomedIInv ==
    ASSUME IInv, NEW i \in Ids, DeleteDoomed(i)
    PROVE  IInv'
  <1>1. doomed' = doomed \ {i}
    BY DEF DeleteDoomed
  <1>2. CASE revs[i] # NoRevision /\ Remove(i)
    <2>1. /\ revs' = [revs EXCEPT ![i] = NoRevision]
          /\ meta' = [meta EXCEPT ![i] = Unowned]
          /\ cacheFresh' = cacheFresh \ {i} /\ req' = Outdated(i) /\ forsaken' = TRUE
          /\ UNCHANGED <<boot, uids, cache, work, unsettled, updates, errors>>
      BY <1>2 DEF Remove
    <2>2. /\ req' \in [Writers -> Request]
          /\ \A v \in Writers : Bystander(req'[v], req[v], i)
      BY <2>1, OutdatedFacts DEF IInv
    <2>3. Unowned \in Meta /\ Unowned.owner = 0
      BY DEF Unowned, Meta
    <2>4. TypeOK' /\ DoomedAreUnowned'
      BY <1>1, <2>1, <2>2, <2>3 DEF IInv, TypeOK, DoomedAreUnowned
    <2>5. \A k \in Ids \ {i} : revs'[k] = revs[k]
      BY <2>1 DEF IInv, TypeOK
    <2>6. CopiesCurrent'
      BY <2>1, <2>2, <2>5 DEF IInv, TypeOK, CopiesCurrent, RequestsInOrder, At, Bystander
    <2>7. RetiredAreSuperseded'
      BY <2>1 DEF RetiredAreSuperseded
    <2>8. RequestsInOrder'
      BY <2>1, <2>2 DEF IInv, RequestsInOrder, At, Bystander
    <2>9. BootIsBehind'
      BY <2>1, <2>2 DEF IInv, BootIsBehind, Bystander
    <2> QED
      BY <2>4, <2>6, <2>7, <2>8, <2>9 DEF IInv
  <1>3. CASE UNCHANGED <<boot, uids, revs, meta, cache, cacheFresh, req, work, forsaken,
                         unsettled, updates, errors>>
    BY <1>1, <1>3 DEF IInv, TypeOK, DoomedAreUnowned, CopiesCurrent, RetiredAreSuperseded,
                      Superseded, RequestsInOrder, BootIsBehind, Reaches, At, Held
  <1> QED
    BY <1>2, <1>3 DEF DeleteDoomed

\* What queues a pass, or ends one early, changes nothing else.
LEMMA QueueIInv ==
    ASSUME IInv, Event \/ DropPass
    PROVE  IInv'
  <1>1. /\ work' \in WorkStates /\ errors' \in Nat
        /\ UNCHANGED <<boot, uids, revs, meta, cache, cacheFresh, req, doomed, forsaken,
                       unsettled, updates>>
    BY DEF Event, DropPass, WorkStates, others, IInv, TypeOK
  <1> QED
    BY <1>1 DEF IInv, TypeOK, DoomedAreUnowned, CopiesCurrent, RetiredAreSuperseded, Superseded,
                RequestsInOrder, BootIsBehind, Reaches, At, Held

\* The informer showing the API server's history restores every relation.
LEMMA SyncIInv ==
    ASSUME IInv, Sync
    PROVE  IInv'
  <1>1. /\ cache' = revs /\ cacheFresh' = Ids /\ UNCHANGED Held(revs)
        /\ Held(cache)' = Held(revs)
        /\ forsaken' = (forsaken /\ ~StartsAgain)
        /\ UNCHANGED <<boot, uids, revs, meta, req, work, doomed, unsettled, updates, errors>>
    BY DEF Sync, Held
  <1>2. TypeOK' /\ DoomedAreUnowned'
    BY <1>1 DEF IInv, TypeOK, DoomedAreUnowned
  <1>3. CASE forsaken' = forsaken
    <2>1. CopiesCurrent'
      BY <1>1, <1>3 DEF IInv, CopiesCurrent, At
    <2>2. RetiredAreSuperseded'
      BY <1>1, <1>3 DEF IInv, RetiredAreSuperseded, Superseded
    <2>3. RequestsInOrder'
      BY <1>1, <1>3 DEF IInv, RequestsInOrder, At
    <2>4. BootIsBehind'
      <3>1. \A i \in Held(revs) : Reaches(revs, i)
        BY DEF Reaches, Held
      <3> QED
        BY <1>1, <1>3, <3>1 DEF IInv, BootIsBehind, Reaches
    <2> QED
      BY <1>2, <2>1, <2>2, <2>3, <2>4 DEF IInv
  <1>4. CASE StartsAgain
    <2>1. /\ \A w \in Writers : req'[w].stage = "idle"
          /\ \A i \in Ids : revs'[i] = NoRevision /\ cache'[i] = NoRevision
          /\ Held(revs)' = {} /\ Held(cache)' = {} /\ boot'.rev = 0
      BY <1>1, <1>4 DEF StartsAgain, AtRest, Held
    <2>2. CopiesCurrent'
      BY <1>1, <2>1 DEF CopiesCurrent, At
    <2>3. RetiredAreSuperseded'
      BY <2>1 DEF RetiredAreSuperseded, Superseded, Retired, NoRevision
    <2>4. RequestsInOrder'
      BY <1>1, <2>1 DEF IInv, RequestsInOrder, At
    <2>5. BootIsBehind'
      BY <2>1 DEF BootIsBehind, Reaches
    <2> QED
      BY <1>2, <2>2, <2>3, <2>4, <2>5 DEF IInv
  <1>5. forsaken' = forsaken \/ StartsAgain
    BY <1>1 DEF IInv, TypeOK
  <1> QED
    BY <1>3, <1>4, <1>5

\* A step that changes nothing changes nothing of the invariant.
LEMMA StutterIInv ==
    ASSUME IInv, UNCHANGED vars
    PROVE  IInv'
  BY DEF vars, IInv, TypeOK, CopiesCurrent, RetiredAreSuperseded, Superseded,
         RequestsInOrder, BootIsBehind, DoomedAreUnowned, Reaches, At, Held

\* Every step keeps the invariant.
LEMMA NextIInv ==
    ASSUME IInv, [Next]_vars
    PROVE  IInv'
  <1>1. ASSUME NEW w \in Writers, Webhook(w) PROVE IInv'
    BY <1>1, ListRevisionsIInv, CreateRevisionIInv, DemoteLatestIInv, PruneOldestIInv,
       StoreBootIInv DEF Webhook
  <1> QED
    BY <1>1, SubmitIInv, FailRequestIInv, ReconcileIInv, UpdatePhaseIInv, AdoptIInv,
       RetryLaterIInv, GiveUpIInv, DeleteDoomedIInv, QueueIInv, SyncIInv, StutterIInv DEF Next

----------------------------------------------------------------------------
(* Theorems *)

\* The inductive invariant holds in every reachable state.
THEOREM Invariance == Spec => []IInv
  BY InitIInv, NextIInv, PTL DEF Spec

\* Every variable keeps its type, for any number of users, revisions and limits.
THEOREM TypeCorrectness == Spec => []TypeOK
  BY Invariance, PTL DEF IInv

\* What recordRevision and the controller read of a revision is still so when
\* their Update of it is accepted (boot_validation.go:247-264,
\* boot_handler_controller.go:508-523).
THEOREM AcceptedCopiesAreCurrent == Spec => []CopiesCurrent
  BY Invariance, PTL DEF IInv

\* SelectLatestRevision, on the API server's history or on any stale view of
\* it, never returns a revision that is retired.
THEOREM NewestReadIsLive == Spec => []RetiredAreSuperseded
  BY Invariance, PTL DEF IInv

\* What a request retires or prunes is older than what it creates, and the
\* history keeps something at least as new.
THEOREM RequestsAreOrdered == Spec => []RequestsInOrder
  BY Invariance, PTL DEF IInv

\* The id on the Boot, or on its way there, is one the history has reached.
THEOREM BootNeverRunsAhead == Spec => []BootIsBehind
  BY Invariance, PTL DEF IInv

\* The steps that write a revision, and what they know of it.
LEMMA RevisionWrites ==
    ASSUME IInv, [Next]_vars, NEW i \in Ids, revs'[i] # revs[i]
    PROVE  \/ revs[i] = NoRevision
           \/ /\ revs'[i] = NoRevision
              /\ \/ forsaken \/ \E j \in Held(revs) : j > i
                 \/ forsaken' /\ i \in doomed \ doomed' /\ meta[i].owner = 0
           \/ revs[i] \in Revision /\ \E ph \in Phases :
                 /\ revs'[i] = [revs[i] EXCEPT !.phase = ph]
                 /\ forsaken \/ (Retired(revs[i].phase) => ph = revs[i].phase)
  <1>1. revs \in [Ids -> Revision \union {NoRevision}] /\ req \in [Writers -> Request]
    BY DEF IInv, TypeOK
  <1>2. ASSUME NEW w \in Writers, NEW k \in Ids, NEW x, NEW r, WriteRevision(w, k, x, r)
        PROVE  i = k /\ revs'[i] = x
    BY <1>1, <1>2 DEF WriteRevision
  <1>3. ASSUME NEW w \in Writers, CreateRevision(w)
        PROVE  revs[i] = NoRevision
    <2>1. req[w].new \in Ids
      BY <1>3 DEF IInv, RequestsInOrder, At, CreateRevision
    <2> QED
      BY <1>2, <1>3, <2>1 DEF CreateRevision, End
  <1>4. ASSUME NEW w \in Writers, DemoteLatest(w)
        PROVE  revs[i] \in Revision /\ \E ph \in Phases :
                 /\ revs'[i] = [revs[i] EXCEPT !.phase = ph]
                 /\ forsaken \/ (Retired(revs[i].phase) => ph = revs[i].phase)
    <2> DEFINE p == req[w]
    <2>1. /\ p \in Request
          /\ p.fresh => p.latest \in Ids /\ revs[p.latest].phase = p.seen
      BY <1>1, <1>4 DEF DemoteLatest, IInv, RequestsInOrder, CopiesCurrent, At
    <2>2. p.seen \in Phases /\ Finish(p.seen) \in Phases
      BY <2>1 DEF Request, Finish
    <2>3. Retired(p.seen) => Finish(p.seen) = p.seen
      BY DEF Retired, Finish
    <2>4. p.fresh /\ i = p.latest
          /\ revs'[i] = [revs[p.latest] EXCEPT !.phase = Finish(p.seen)]
      BY <1>2, <1>4, <2>1 DEF DemoteLatest, EndUnsettled, End
    <2>5. revs[i] \in Revision
      BY <1>1, <2>1, <2>2, <2>4, Absence
    <2> QED
      BY <2>1, <2>2, <2>3, <2>4, <2>5
  <1>5. ASSUME NEW w \in Writers, PruneOldest(w)
        PROVE  revs'[i] = NoRevision /\ (forsaken \/ \E j \in Held(revs) : j > i)
    <2>1. /\ req[w].todo \in SUBSET Ids /\ req[w].new \in Ids
          /\ \A k \in req[w].todo : k < req[w].new
          /\ forsaken \/ \E j \in Held(revs) : j >= req[w].new
      BY <1>1, <1>5 DEF PruneOldest, IInv, RequestsInOrder, At, Request
    <2>2. i \in req[w].todo /\ revs'[i] = NoRevision
      BY <1>2, <1>5, <2>1 DEF PruneOldest, EndUnsettled, End
    <2> QED
      BY <2>1, <2>2 DEF Held
  <1>6. ASSUME UpdatePhase
        PROVE  revs[i] \in Revision /\ \E ph \in Phases :
                 /\ revs'[i] = [revs[i] EXCEPT !.phase = ph]
                 /\ forsaken \/ (Retired(revs[i].phase) => ph = revs[i].phase)
    <2> DEFINE p == req[Controller]
    <2>1. /\ p.fresh => /\ p.latest \in Ids /\ revs[p.latest] # NoRevision
                        /\ forsaken \/ revs[p.latest].phase \in LivePhases
          /\ p.seen \in LivePhases
      BY <1>6 DEF UpdatePhase, IInv, RequestsInOrder, CopiesCurrent, At
    <2>2. p.fresh /\ i = p.latest /\ revs'[i] = [revs[p.latest] EXCEPT !.phase = p.seen]
      BY <1>2, <1>6, <2>1 DEF UpdatePhase, End
    <2>3. revs[i] \in Revision /\ (forsaken \/ ~Retired(revs[i].phase))
      BY <1>1, <2>1, <2>2, Absence DEF Retired
    <2> QED
      BY <2>1, <2>2, <2>3
  <1>7. ASSUME NEW k \in Ids, DeleteDoomed(k)
        PROVE  revs'[i] = NoRevision /\ forsaken' /\ i \in doomed \ doomed' /\ meta[i].owner = 0
    <2>1. Remove(k) /\ k \in doomed /\ doomed' = doomed \ {k}
      BY <1>7 DEF DeleteDoomed
    <2>2. i = k /\ revs'[i] = NoRevision /\ forsaken'
      BY <1>1, <2>1 DEF Remove
    <2> QED
      BY <2>1, <2>2 DEF IInv, DoomedAreUnowned
  <1> QED
    BY <1>3, <1>4, <1>5, <1>6, <1>7 DEF Next, Webhook, Submit, ListRevisions, StoreBoot,
       FailRequest, End, Event, Reconcile, DropPass, Adopt, RetryLater, GiveUp, Doom, Sync, vars

\* A revision that was completed or cancelled stays so until it is pruned.
THEOREM RetirementIsFinal == Spec => RetiredStayRetired
  <1>1. ASSUME IInv, [Next]_vars, ~forsaken,
               NEW i \in Ids, Retired(revs[i].phase), revs'[i] # NoRevision
        PROVE  revs'[i].phase = revs[i].phase
    <2>1. ~Retired(NoRevision.phase)
      BY DEF Retired, NoRevision
    <2>2. CASE revs'[i] = revs[i]
      BY <2>2
    <2>3. CASE revs'[i] # revs[i]
      BY <1>1, <2>1, <2>3, RevisionWrites DEF Revision
    <2> QED
      BY <2>2, <2>3
  <1>2. IInv /\ [Next]_vars =>
          [~forsaken => \A i \in Ids : Retired(revs[i].phase) /\ revs'[i] # NoRevision
                                         => revs'[i].phase = revs[i].phase]_vars
    BY <1>1
  <1> QED
    BY <1>2, Invariance, PTL DEF Spec, RetiredStayRetired

\* The newest revision survives every prune: while none is given up, its
\* successor's id is new, and one that is given up is nobody's.
THEOREM NewestSurvives == Spec => NewestIsKept
  <1>1. ASSUME IInv, [Next]_vars, ~forsaken,
               NEW i \in Ids, Newest(i, Held(revs)), revs'[i] = NoRevision
        PROVE  i \in doomed \ doomed' /\ meta[i].owner = 0
    <2>1. revs[i] # NoRevision /\ \A j \in Held(revs) : j <= i /\ j \in Nat
      BY <1>1 DEF Newest, Held
    <2>2. ~\E j \in Held(revs) : j > i
      BY <2>1
    <2>3. ASSUME NEW ph \in Phases, revs[i] \in Revision,
                 revs'[i] = [revs[i] EXCEPT !.phase = ph]
          PROVE  FALSE
      <3>1. revs'[i] \in Revision
        BY <2>3 DEF Revision
      <3> QED
        BY <3>1, <1>1, Absence
    <2> QED
      BY <1>1, <2>1, <2>2, <2>3, RevisionWrites
  <1>2. IInv /\ [Next]_vars =>
          [~forsaken => \A i \in Ids : Newest(i, Held(revs)) /\ revs'[i] = NoRevision =>
                            i \in doomed \ doomed' /\ meta[i].owner = 0]_vars
    BY <1>1
  <1> QED
    BY <1>2, Invariance, PTL DEF Spec, NewestIsKept

\* The id that ReconcileUpdateBootMeta writes on the Boot is never older than
\* the one it replaces, and no user's write touches it.
THEOREM BootMovesForward == Spec => BootRevisionAdvances
  <1>1. ASSUME IInv, [Next]_vars, ~forsaken
        PROVE  [boot'.rev >= boot.rev]_boot
    <2>1. boot.rev \in Nat /\ boot.rev >= boot.rev
      BY <1>1 DEF IInv, TypeOK, Boot, NoBoot
    <2>2. ASSUME NEW w \in Writers, StoreBoot(w), boot' # boot
          PROVE  boot'.rev >= boot.rev
      <3>1. boot \in Boot \union {NoBoot} /\ req[w] \in Request
        BY <1>1 DEF IInv, TypeOK
      <3>2. CASE w = Controller
        <4>1. boot # NoBoot /\ boot.rev <= req[w].rev
          BY <1>1, <2>2, <3>2 DEF IInv, BootIsBehind, StoreBoot
        <4>2. boot' = [boot EXCEPT !.rev = req[w].rev, !.ready = req[w].ready]
          BY <2>2, <3>2, <4>1 DEF StoreBoot
        <4>3. boot'.rev = req[w].rev /\ req[w].rev \in Nat
          BY <3>1, <4>1, <4>2 DEF Boot, Request
        <4> QED
          BY <2>1, <4>1, <4>3
      <3>3. CASE w # Controller /\ boot = NoBoot
        <4>1. boot' = [NoBoot EXCEPT !.uid = uids + 1, !.spec = req[w].spec]
          BY <2>2, <3>3 DEF StoreBoot
        <4>2. boot'.rev = NoBoot.rev
          BY <4>1 DEF NoBoot
        <4> QED
          BY <2>1, <3>3, <4>2
      <3>4. CASE w # Controller /\ boot # NoBoot
        <4>1. boot' = [boot EXCEPT !.spec = req[w].spec]
          BY <2>2, <3>4 DEF StoreBoot
        <4>2. boot'.rev = boot.rev
          BY <3>1, <3>4, <4>1 DEF Boot
        <4> QED
          BY <2>1, <4>2
      <3> QED
        BY <3>2, <3>3, <3>4
    <2> QED
      BY <1>1, <2>2 DEF Next, Webhook, Submit, ListRevisions, CreateRevision, DemoteLatest,
         PruneOldest, EndUnsettled, FailRequest, Event, Reconcile, DropPass, UpdatePhase, Adopt,
         RetryLater, GiveUp, Doom, DeleteDoomed, Remove, Sync, vars, others
  <1>2. IInv /\ [Next]_vars => [~forsaken => boot'.rev >= boot.rev]_boot
    BY <1>1
  <1> QED
    BY <1>2, Invariance, PTL DEF Spec, BootRevisionAdvances
============================================================================
