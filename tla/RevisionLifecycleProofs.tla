----------------------- MODULE RevisionLifecycleProofs -----------------------
(***************************************************************************)
(* Proofs about the revisions of Boots that are deleted and created again  *)
(* under one name: what holds although the BootRevision controller decides *)
(* from two caches and deletes without a precondition.                     *)
(***************************************************************************)
EXTENDS RevisionLifecycle, BootRevisionsProofs

USE DEF Ids, Writers, Phases, LivePhases, FinishedPhases, Stages

\* What CopiesLocked and RequestsPrepared say of request r of writer w alone,
\* while b is the Boot.
Prepared(w, r, b) ==
    /\ r \in Request
    /\ r.stage \in {"list", "create", "demote", "prune", "store"} => r.spec \in Specs
    /\ r.stage \in {"create", "demote", "prune"} => r.new \in Ids
    /\ r.stage = "prune" => ~r.fresh
    /\ w = Controller /\ r.stage # "idle" /\ r.cur => b # NoBoot

\* What a step leaves of the queue and of the history variables keeps its type.
BooksKept ==
    /\ work' \in WorkStates
    /\ forsaken' \in BOOLEAN
    /\ unsettled' \in Nat
    /\ updates' \in Nat
    /\ errors' \in Nat

\* Every request is prepared, and a copy that is current is of what is there.
AllPrepared ==
    \A v \in Writers : /\ Prepared(v, req[v], boot)
                       /\ req[v].fresh => req[v].latest \in Held(revs)

----------------------------------------------------------------------------
(* Lemmas about requests and Boots *)

\* The inductive invariant says it of every request.
LEMMA RequestsArePrepared ==
    ASSUME LifeInv
    PROVE  AllPrepared
  BY DEF AllPrepared, LifeInv, LifeTypeOK, TypeOK, CopiesLocked, RequestsPrepared, At, Prepared

\* An idle request is prepared for any writer.
LEMMA IdleIsPrepared ==
    ASSUME NEW w \in Writers, NEW b
    PROVE  Prepared(w, Idle, b) /\ ~Idle.fresh
  <1>1. Idle.stage = "idle" /\ ~Idle.fresh
    BY DEF Idle
  <1> QED
    BY <1>1, IdleType DEF Prepared

\* So is a request whose copy became stale.
LEMMA BystanderIsPrepared ==
    ASSUME NEW w \in Writers, NEW b, NEW p, NEW q, NEW i, Prepared(w, p, b), Bystander(q, p, i)
    PROVE  Prepared(w, q, b)
  BY DEF Prepared, Bystander

\* One for a Boot that was written meanwhile.
LEMMA RefusedIsPrepared ==
    ASSUME NEW w \in Writers, NEW b, NEW c, NEW p, Prepared(w, p, b)
    PROVE  /\ Prepared(w, [p EXCEPT !.cur = FALSE], c)
           /\ [p EXCEPT !.cur = FALSE].fresh = p.fresh
           /\ [p EXCEPT !.cur = FALSE].latest = p.latest
  <1> DEFINE r == [p EXCEPT !.cur = FALSE]
  <1>1. p \in Request
    BY DEF Prepared
  <1>2. /\ r \in Request /\ r.cur = FALSE
        /\ r.stage = p.stage /\ r.spec = p.spec /\ r.new = p.new /\ r.fresh = p.fresh
        /\ r.latest = p.latest
    BY <1>1 DEF Request
  <1> HIDE DEF r
  <1>3. Prepared(w, r, c)
    BY <1>2 DEF Prepared
  <1> QED
    BY <1>2, <1>3 DEF r

\* One that recordRevision is done with.
LEMMA RecordedIsPrepared ==
    ASSUME NEW w \in Writers, NEW b, NEW p, Prepared(w, p, b),
           p.stage \in {"create", "demote", "prune"}
    PROVE  Prepared(w, Recorded(p), b) /\ ~Recorded(p).fresh
  <1>1. p \in Request /\ p.spec \in Specs
    BY DEF Prepared
  <1> QED
    BY <1>1, RecordedType DEF Prepared

\* What the controller sends is for the Boot that is there, or is not sent.
LEMMA SentIsPrepared ==
    ASSUME TypeOK, NEW q \in Request, q.cur => boot # NoBoot
    PROVE  Prepared(Controller, SendMeta(q), boot) /\ ~SendMeta(q).fresh
  <1>1. CASE boot # NoBoot
    BY <1>1, SendMetaFacts DEF Prepared
  <1>2. CASE boot = NoBoot
    <2>1. SendMeta(q) = Idle
      BY <1>2 DEF SendMeta
    <2> QED
      BY <2>1, IdleIsPrepared
  <1> QED
    BY <1>1, <1>2

\* The uid tells a Boot from none.
LEMMA UidFacts ==
    ASSUME NEW b \in Boot \union {NoBoot}
    PROVE  b.uid \in Nat /\ (b # NoBoot <=> b.uid # 0)
  BY Absence DEF Boot, NoBoot

----------------------------------------------------------------------------
(* Every step keeps the inductive invariant *)

\* In the initial state there is nothing to be right about.
LEMMA InitLifeInv == LifeInit => LifeInv
  <1> SUFFICES ASSUME LifeInit PROVE LifeInv
    OBVIOUS
  <1>1. TypeOK /\ Init
    BY InitIInv DEF LifeInit, IInv
  <1>2. /\ boot = NoBoot /\ uids = 0 /\ boot.uid = 0 /\ bootSeen = 0
        /\ meta = [i \in Ids |-> Unowned] /\ metaSeen = meta /\ Unowned \in Meta
        /\ Unowned.owner = 0 /\ doomed = {} /\ deletes = 0 /\ cache = revs
    BY <1>1 DEF LifeInit, Init, NoBoot, Unowned, Meta
  <1>3. \A w \in Writers : req[w] = Idle
    BY <1>1 DEF Init
  <1>4. Idle.stage = "idle" /\ ~Idle.fresh
    BY DEF Idle
  <1>5. LifeTypeOK
    BY <1>1, <1>2 DEF LifeTypeOK
  <1>6. CopiesLocked
    BY <1>2, <1>3, <1>4 DEF CopiesLocked, At
  <1>7. RequestsPrepared
    BY <1>3, <1>4 DEF RequestsPrepared, At
  <1>8. OwnersExisted
    BY <1>2 DEF OwnersExisted
  <1>9. OwnedIsNotDoomed
    BY <1>2 DEF OwnedIsNotDoomed
  <1> QED
    BY <1>5, <1>6, <1>7, <1>8, <1>9 DEF LifeInv

\* A step that moves nothing but the queue and the history variables, and at
\* most gives up fewer revisions.
LEMMA AsideLife ==
    ASSUME LifeInv, BooksKept, doomed' \in SUBSET doomed,
           UNCHANGED <<boot, uids, revs, meta, cache, cacheFresh, req>>,
           UNCHANGED <<seen, deletes>>
    PROVE  LifeInv'
  <1>1. UNCHANGED <<bootSeen, metaSeen>>
    BY DEF seen
  <1>2. LifeTypeOK'
    BY <1>1 DEF LifeInv, LifeTypeOK, TypeOK, BooksKept
  <1>3. CopiesLocked' /\ RequestsPrepared' /\ OwnersExisted'
    BY <1>1 DEF LifeInv, CopiesLocked, RequestsPrepared, OwnersExisted, At, Held
  <1>4. OwnedIsNotDoomed'
    BY <1>1 DEF LifeInv, OwnedIsNotDoomed
  <1> QED
    BY <1>2, <1>3, <1>4 DEF LifeInv

\* A step of writer w that only changes its request, to r.
LEMMA RequestStep ==
    ASSUME LifeInv, NEW w \in Writers, NEW r, Prepared(w, r, boot),
           r.fresh => r.latest \in Held(revs),
           req' = [req EXCEPT ![w] = r],
           UNCHANGED <<boot, uids, revs, meta, cache, cacheFresh>>,
           UNCHANGED <<bootSeen, metaSeen, doomed, deletes>>,
           BooksKept
    PROVE  LifeInv'
  <1>1. AllPrepared /\ r \in Request
    BY RequestsArePrepared DEF Prepared
  <1>2. /\ req' \in [Writers -> Request]
        /\ \A v \in Writers : req'[v] = IF v = w THEN r ELSE req[v]
    BY <1>1 DEF LifeInv, LifeTypeOK, TypeOK
  <1>3. Held(revs)' = Held(revs)
    BY DEF Held
  <1>4. \A v \in Writers : /\ Prepared(v, req'[v], boot)
                           /\ req'[v].fresh => req'[v].latest \in Held(revs)
    BY <1>1, <1>2 DEF AllPrepared
  <1>5. LifeTypeOK'
    BY <1>2 DEF LifeInv, LifeTypeOK, TypeOK, BooksKept
  <1>6. CopiesLocked'
    BY <1>3, <1>4 DEF LifeInv, CopiesLocked, At, Prepared
  <1>7. RequestsPrepared'
    BY <1>4 DEF RequestsPrepared, At, Prepared
  <1>8. OwnersExisted' /\ OwnedIsNotDoomed'
    BY DEF LifeInv, OwnersExisted, OwnedIsNotDoomed
  <1> QED
    BY <1>5, <1>6, <1>7, <1>8 DEF LifeInv

\* A write of revision i or of its owner and retries, by which no other revision
\* changes and every copy of this one becomes stale.
LEMMA RevisionStep ==
    ASSUME LifeInv, NEW i \in Ids,
           req' \in [Writers -> Request],
           \A v \in Writers : /\ Prepared(v, req'[v], boot)
                              /\ req'[v].fresh => req'[v].latest \in Held(revs) \ {i},
           revs' \in [Ids -> Revision \union {NoRevision}], meta' \in [Ids -> Meta],
           \A j \in Ids \ {i} : revs'[j] = revs[j] /\ meta'[j] = meta[j],
           cacheFresh' = cacheFresh \ {i},
           UNCHANGED <<boot, uids, cache, bootSeen, metaSeen, deletes>>,
           BooksKept,
           doomed' \in SUBSET doomed,
           meta'[i].owner <= uids,
           revs'[i] = NoRevision => meta'[i] = Unowned,
           boot # NoBoot /\ meta'[i].owner = boot.uid => bootSeen = boot.uid /\ i \notin doomed
    PROVE  LifeInv'
  <1>1. \A j \in Ids \ {i} : j \in Held(revs)' <=> j \in Held(revs)
    BY DEF Held
  <1>2. LifeTypeOK'
    BY DEF LifeInv, LifeTypeOK, TypeOK, BooksKept
  <1>3. CopiesLocked'
    <2>1. \A j \in cacheFresh' : cache'[j] = revs'[j] /\ metaSeen'[j] = meta'[j]
      BY DEF LifeInv, LifeTypeOK, TypeOK, CopiesLocked
    <2>2. \A v \in Writers : req'[v].fresh => req'[v].latest \in Held(revs)'
      BY <1>1 DEF Held
    <2> QED
      BY <2>1, <2>2 DEF CopiesLocked, At, Prepared
  <1>4. RequestsPrepared'
    BY DEF RequestsPrepared, At, Prepared
  <1>5. OwnersExisted'
    BY DEF LifeInv, OwnersExisted
  <1>6. OwnedIsNotDoomed'
    BY DEF LifeInv, OwnedIsNotDoomed
  <1> QED
    BY <1>2, <1>3, <1>4, <1>5, <1>6 DEF LifeInv

\* A user's new request.
LEMMA SubmitLife ==
    ASSUME LifeInv, NEW c \in Clients, NEW s \in Specs, Submit(c, s),
           UNCHANGED <<seen, deletes>>
    PROVE  LifeInv'
  <1> DEFINE r == [Idle EXCEPT !.stage = "list", !.spec = s, !.cur = TRUE]
  <1>1. r \in Request /\ r.stage = "list" /\ r.spec = s /\ ~r.fresh
    BY IdleType DEF Request, Idle
  <1>2. /\ req' = [req EXCEPT ![c] = r] /\ updates' = updates + 1
        /\ UNCHANGED <<boot, uids, revs, meta, cache, cacheFresh, work, forsaken, unsettled, errors>>
        /\ UNCHANGED <<bootSeen, metaSeen, doomed, deletes>>
    BY DEF Submit, seen
  <1> HIDE DEF r
  <1>3. c \in Writers /\ Prepared(c, r, boot)
    BY <1>1, ControllerAssumption DEF Prepared
  <1>4. BooksKept
    BY <1>2 DEF LifeInv, LifeTypeOK, TypeOK, BooksKept
  <1> HIDE DEF Writers
  <1> QED
    BY <1>1, <1>2, <1>3, <1>4, RequestStep

\* A request that ends, however many revisions it leaves unsettled.
LEMMA EndLife ==
    ASSUME LifeInv, NEW w \in Writers, End(w),
           UNCHANGED <<boot, uids, doomed, forsaken, updates>>,
           unsettled' \in {unsettled, unsettled + 1}, errors' \in {errors, errors + 1},
           UNCHANGED <<seen, deletes>>
    PROVE  LifeInv'
  <1>1. BooksKept
    BY RefusalType DEF End, LifeInv, LifeTypeOK, TypeOK, BooksKept
  <1>2. Prepared(w, Idle, boot) /\ ~Idle.fresh
    BY IdleIsPrepared
  <1>3. /\ req' = [req EXCEPT ![w] = Idle]
        /\ UNCHANGED <<boot, uids, revs, meta, cache, cacheFresh>>
        /\ UNCHANGED <<bootSeen, metaSeen, doomed, deletes>>
    BY DEF End, seen
  <1> QED
    BY <1>1, <1>2, <1>3, RequestStep

\* Listing decides on the cached history.
LEMMA ListRevisionsLife ==
    ASSUME LifeInv, NEW w \in Writers, ListRevisions(w), UNCHANGED <<seen, deletes>>
    PROVE  LifeInv'
  <1> DEFINE p == req[w]
             L == Held(cache)
  <1>1. /\ Prepared(w, p, boot) /\ (p.fresh => p.latest \in Held(revs))
        /\ p.stage = "list" /\ p \in Request
    BY RequestsArePrepared DEF ListRevisions, AllPrepared, Prepared
  <1>2. /\ UNCHANGED <<boot, uids, revs, meta, cache, cacheFresh>>
        /\ UNCHANGED <<bootSeen, metaSeen, doomed, deletes>>
        /\ BooksKept
    BY DEF ListRevisions, others, seen, LifeInv, LifeTypeOK, TypeOK, BooksKept
  <1>3. ASSUME req' = [req EXCEPT ![w].stage = "create", ![w].new = 1]
        PROVE  LifeInv'
    <2> DEFINE n == 1
               r == [p EXCEPT !.stage = "create", !.new = n]
    <2>1. n \in 0..MaxId /\ n \in Ids
      BY LimitsAssumption
    <2>2. req' = [req EXCEPT ![w] = r]
      BY <1>3
    <2> HIDE DEF n
    <2>3. /\ r \in Request /\ r.spec = p.spec /\ r.stage = "create" /\ r.new = n
          /\ r.fresh = p.fresh /\ r.latest = p.latest /\ r.cur = p.cur
      BY <1>1, <2>1 DEF Request
    <2> HIDE DEF r, p
    <2>4. Prepared(w, r, boot)
      BY <1>1, <2>1, <2>3 DEF Prepared
    <2> QED
      BY <1>1, <1>2, <2>2, <2>3, <2>4, RequestStep
  <1>4. ASSUME req' = [req EXCEPT ![w].stage = "store"]
        PROVE  LifeInv'
    <2> DEFINE r == [p EXCEPT !.stage = "store"]
    <2>1. /\ r \in Request /\ r.spec = p.spec /\ r.stage = "store"
          /\ r.fresh = p.fresh /\ r.latest = p.latest /\ r.cur = p.cur
      BY <1>1 DEF Request
    <2>2. req' = [req EXCEPT ![w] = r]
      BY <1>4
    <2> HIDE DEF r, p
    <2>3. Prepared(w, r, boot)
      BY <1>1, <2>1 DEF Prepared
    <2> QED
      BY <1>1, <1>2, <2>1, <2>2, <2>3, RequestStep
  <1>5. ASSUME NEW l \in L, l + 1 <= MaxId,
               req' = [req EXCEPT ![w].stage = "create", ![w].new = l + 1,
                                  ![w].latest = l, ![w].seen = cache[l].phase,
                                  ![w].fresh = l \in cacheFresh,
                                  ![w].todo = Surplus(L)]
        PROVE  LifeInv'
    <2> DEFINE f == l \in cacheFresh
               ph == cache[l].phase
               t == Surplus(L)
               n == l + 1
               r == [p EXCEPT !.stage = "create", !.new = n, !.latest = l,
                              !.seen = ph, !.fresh = f, !.todo = t]
    <2>1. ph \in Phases /\ l \in Ids /\ cache[l] # NoRevision
      BY DEF LifeInv, LifeTypeOK, TypeOK, Held, Revision
    <2>2. f => l \in Held(revs)
      BY <2>1 DEF LifeInv, CopiesLocked, Held
    <2>3. l \in 0..MaxId /\ n \in 0..MaxId /\ n \in Ids /\ t \in SUBSET Ids
      BY <1>5, <2>1, LimitsAssumption DEF Surplus, Held
    <2>4. req' = [req EXCEPT ![w] = r]
      BY <1>5
    <2>5. f \in BOOLEAN
      OBVIOUS
    <2> HIDE DEF f, ph, t, n, p
    <2>6. /\ r \in Request /\ r.spec = p.spec /\ r.stage = "create" /\ r.new = n
          /\ r.fresh = f /\ r.latest = l /\ r.cur = p.cur
      BY <1>1, <2>1, <2>3, <2>5 DEF Request
    <2> HIDE DEF r
    <2>7. Prepared(w, r, boot)
      BY <1>1, <2>3, <2>6 DEF Prepared
    <2> QED
      BY <1>2, <2>2, <2>4, <2>6, <2>7, RequestStep
  <1> QED
    BY <1>3, <1>4, <1>5 DEF ListRevisions

\* A write of writer w that the API server takes: of a revision's content, or of
\* one that comes or goes, and whose owner goes with it.
LEMMA WriteLife ==
    ASSUME LifeInv, NEW w \in Writers, NEW i \in Ids,
           NEW x \in Revision \union {NoRevision}, NEW r,
           Prepared(w, r, boot), r.fresh => r.latest \in Held(revs) \ {i},
           WriteRevision(w, i, x, r),
           meta' = [meta EXCEPT ![i] = Unowned] \/ (meta' = meta /\ i \in Held(revs) /\ x # NoRevision),
           UNCHANGED <<boot, uids, work, doomed, forsaken, updates, errors>>,
           unsettled' \in {unsettled, unsettled + 1}, UNCHANGED <<seen, deletes>>
    PROVE  LifeInv'
  <1>1. r \in Request /\ AllPrepared /\ TypeOK /\ Unowned \in Meta /\ Unowned.owner = 0
    BY RequestsArePrepared DEF Prepared, LifeInv, LifeTypeOK, Unowned, Meta
  <1>2. /\ revs' \in [Ids -> Revision \union {NoRevision}]
        /\ \A j \in Ids : revs'[j] = IF j = i THEN x ELSE revs[j]
        /\ cache' = cache /\ cacheFresh' = cacheFresh \ {i}
        /\ req' \in [Writers -> Request] /\ req'[w] = r
        /\ \A v \in Writers \ {w} : Bystander(req'[v], req[v], i)
    <2> HIDE DEF Writers
    <2> QED
      BY <1>1, WriteFacts
  <1>3. ASSUME NEW v \in Writers
        PROVE  /\ Prepared(v, req'[v], boot)
               /\ req'[v].fresh => req'[v].latest \in Held(revs) \ {i}
    <2>1. CASE v = w
      BY <2>1, <1>2
    <2>2. CASE v # w
      <3>1. Bystander(req'[v], req[v], i) /\ Prepared(v, req[v], boot)
        BY <2>2, <1>1, <1>2 DEF AllPrepared
      <3>2. req'[v].fresh => req'[v].latest \in Held(revs) \ {i}
        BY <1>1, <3>1 DEF AllPrepared, Bystander
      <3> QED
        BY <3>1, <3>2, BystanderIsPrepared
    <2> QED
      BY <2>1, <2>2
  <1>4. /\ meta' \in [Ids -> Meta]
        /\ \A j \in Ids \ {i} : revs'[j] = revs[j] /\ meta'[j] = meta[j]
        /\ meta'[i] = Unowned \/ (meta'[i] = meta[i] /\ x # NoRevision)
    BY <1>1, <1>2, ZenonT(60) DEF TypeOK
  <1>5. boot.uid \in Nat /\ (boot # NoBoot => boot.uid # 0)
    BY <1>1, UidFacts DEF TypeOK
  <1>6. /\ meta'[i].owner <= uids
        /\ revs'[i] = NoRevision => meta'[i] = Unowned
        /\ boot # NoBoot /\ meta'[i].owner = boot.uid => bootSeen = boot.uid /\ i \notin doomed
    BY <1>1, <1>2, <1>4, <1>5 DEF LifeInv, TypeOK, OwnersExisted, OwnedIsNotDoomed
  <1>7. BooksKept
    BY <1>1 DEF TypeOK, BooksKept
  <1>8. UNCHANGED <<boot, uids, cache, bootSeen, metaSeen, deletes>> /\ doomed' \in SUBSET doomed
    BY <1>2 DEF seen
  <1> HIDE DEF Writers
  <1> QED
    BY <1>2, <1>3, <1>4, <1>6, <1>7, <1>8, RevisionStep

\* Creating a revision, or finding its name taken.
LEMMA CreateRevisionLife ==
    ASSUME LifeInv, NEW w \in Writers, CreateRevision(w), UNCHANGED <<seen, deletes>>
    PROVE  LifeInv'
  <1> DEFINE p == req[w]
             x == [spec |-> p.spec, phase |-> "Running"]
             r == IF p.latest = 0 THEN Recorded(p) ELSE [p EXCEPT !.stage = "demote"]
  <1>1. /\ Prepared(w, p, boot) /\ (p.fresh => p.latest \in Held(revs))
        /\ p.stage = "create" /\ p \in Request /\ p.spec \in Specs /\ p.new \in Ids
        /\ UNCHANGED <<boot, uids, doomed, forsaken, updates, errors>>
    BY RequestsArePrepared DEF CreateRevision, AllPrepared, Prepared
  <1>2. ASSUME End(w), UNCHANGED unsettled
        PROVE  LifeInv'
    BY <1>1, <1>2, EndLife
  <1>3. ASSUME revs[p.new] = NoRevision, WriteRevision(w, p.new, x, r),
               meta' = [meta EXCEPT ![p.new] = Unowned],
               unsettled' \in {unsettled, unsettled + 1}, UNCHANGED work
        PROVE  LifeInv'
    <2>1. x \in Revision
      BY <1>1 DEF Revision
    <2>2. Prepared(w, r, boot) /\ (r.fresh => r.latest \in Held(revs) \ {p.new})
      <3>1. CASE p.latest = 0
        BY <3>1, <1>1, RecordedIsPrepared
      <3>2. CASE p.latest # 0
        <4>1. /\ r \in Request /\ r.stage = "demote" /\ r.spec = p.spec /\ r.new = p.new
              /\ r.fresh = p.fresh /\ r.latest = p.latest /\ r.cur = p.cur
          BY <3>2, <1>1 DEF Request
        <4>2. Prepared(w, r, boot)
          <5> HIDE DEF r, p
          <5> QED
            BY <4>1, <1>1 DEF Prepared
        <4> QED
          BY <4>1, <4>2, <1>1, <1>3 DEF Held
      <3> QED
        BY <3>1, <3>2
    <2> HIDE DEF r, x, p, Writers
    <2> QED
      BY <1>1, <1>3, <2>1, <2>2, WriteLife
  <1> QED
    BY <1>2, <1>3 DEF CreateRevision

\* Retiring the revision that the one just created supersedes.
LEMMA DemoteLatestLife ==
    ASSUME LifeInv, NEW w \in Writers, DemoteLatest(w), UNCHANGED <<seen, deletes>>
    PROVE  LifeInv'
  <1> DEFINE p == req[w]
             x == [revs[p.latest] EXCEPT !.phase = Finish(p.seen)]
             r == IF p.todo = {} THEN Recorded(p)
                  ELSE [p EXCEPT !.stage = "prune", !.latest = 0,
                                 !.seen = "Running", !.fresh = FALSE]
  <1>1. /\ Prepared(w, p, boot) /\ (p.fresh => p.latest \in Held(revs))
        /\ p.stage = "demote" /\ p \in Request /\ p.spec \in Specs /\ p.new \in Ids
    BY RequestsArePrepared DEF DemoteLatest, AllPrepared, Prepared
  <1>2. ASSUME p.fresh, WriteRevision(w, p.latest, x, r),
               UNCHANGED <<boot, uids, meta, work, others>>
        PROVE  LifeInv'
    <2>1. Finish(p.seen) \in Phases
      BY <1>1 DEF Request, Finish
    <2>2. p.latest \in Ids /\ p.latest \in Held(revs) /\ revs[p.latest] \in Revision
      BY <1>1, <1>2, Absence DEF LifeInv, LifeTypeOK, TypeOK, Held
    <2>3. x \in Revision /\ x # NoRevision
      <3>1. x \in Revision
        BY <2>1, <2>2 DEF Revision
      <3> QED
        BY <3>1, Absence
    <2>4. Prepared(w, r, boot) /\ ~r.fresh
      <3>1. CASE p.todo = {}
        BY <3>1, <1>1, RecordedIsPrepared
      <3>2. CASE p.todo # {}
        <4>1. ASSUME NEW st \in Stages, NEW n \in 0..MaxId, NEW ph \in Phases,
                     NEW f \in BOOLEAN,
                     r = [p EXCEPT !.stage = st, !.latest = n, !.seen = ph, !.fresh = f]
              PROVE  /\ r \in Request /\ r.stage = st /\ r.fresh = f
                     /\ r.new = p.new /\ r.spec = p.spec /\ r.cur = p.cur
          BY <4>1, <1>1, ZenonT(60) DEF Request
        <4>2. "prune" \in Stages /\ 0 \in 0..MaxId /\ "Running" \in Phases
          BY LimitsAssumption
        <4>3. r = [p EXCEPT !.stage = "prune", !.latest = 0, !.seen = "Running", !.fresh = FALSE]
          BY <3>2
        <4>4. /\ r \in Request /\ r.stage = "prune" /\ ~r.fresh
              /\ r.new = p.new /\ r.spec = p.spec /\ r.cur = p.cur
          BY <4>1, <4>2, <4>3
        <4> HIDE DEF r, p
        <4> QED
          BY <4>4, <1>1 DEF Prepared
      <3> QED
        BY <3>1, <3>2
    <2> HIDE DEF r, x, p, Writers
    <2> QED
      BY <1>2, <2>2, <2>3, <2>4, WriteLife DEF others
  <1>3. ASSUME EndUnsettled(w)
        PROVE  LifeInv'
    BY <1>3, EndLife DEF EndUnsettled
  <1> QED
    BY <1>2, <1>3 DEF DemoteLatest

\* Deleting a surplus revision, with its owner.
LEMMA PruneOldestLife ==
    ASSUME LifeInv, NEW w \in Writers, PruneOldest(w), UNCHANGED <<seen, deletes>>
    PROVE  LifeInv'
  <1> DEFINE p == req[w]
  <1>1. /\ Prepared(w, p, boot) /\ ~p.fresh /\ p.todo \in SUBSET Ids
        /\ p.stage = "prune" /\ p \in Request /\ p.spec \in Specs /\ p.new \in Ids
    BY RequestsArePrepared DEF PruneOldest, AllPrepared, Prepared, Request
  <1>2. ASSUME NEW i \in p.todo,
               WriteRevision(w, i, NoRevision,
                   IF p.todo \ {i} = {} THEN Recorded(p) ELSE [p EXCEPT !.todo = p.todo \ {i}]),
               meta' = [meta EXCEPT ![i] = Unowned],
               UNCHANGED <<boot, uids, work, others>>
        PROVE  LifeInv'
    <2> DEFINE rest == p.todo \ {i}
               r == IF rest = {} THEN Recorded(p) ELSE [p EXCEPT !.todo = rest]
    <2>1. i \in Ids /\ rest \in SUBSET Ids
      BY <1>1
    <2> HIDE DEF rest
    <2>2. Prepared(w, r, boot) /\ ~r.fresh
      <3>1. CASE rest = {}
        BY <3>1, <1>1, RecordedIsPrepared
      <3>2. CASE rest # {}
        <4>1. /\ r \in Request /\ r.stage = p.stage /\ r.fresh = p.fresh
              /\ r.new = p.new /\ r.spec = p.spec /\ r.cur = p.cur
          BY <3>2, <1>1, <2>1 DEF Request
        <4> HIDE DEF r, p
        <4> QED
          BY <4>1, <1>1 DEF Prepared
      <3> QED
        BY <3>1, <3>2
    <2>3. WriteRevision(w, i, NoRevision, r)
      BY <1>2 DEF rest
    <2> HIDE DEF r, Writers
    <2> QED
      BY <1>2, <2>1, <2>2, <2>3, WriteLife DEF others
  <1>3. ASSUME EndUnsettled(w)
        PROVE  LifeInv'
    BY <1>3, EndLife DEF EndUnsettled
  <1> QED
    BY <1>2, <1>3 DEF PruneOldest

\* The Boot changes, with the uids if it is a new one: requests that were
\* prepared for it as it was will be refused.
LEMMA BootStep ==
    ASSUME LifeInv, boot' \in Boot \union {NoBoot}, uids' \in Nat,
           \/ boot'.uid \in {0, boot.uid} /\ uids' = uids
           \/ boot'.uid = uids + 1 /\ uids' = uids + 1,
           req' \in [Writers -> Request],
           \A v \in Writers : \/ req'[v] = Idle
                              \/ req'[v] = [req[v] EXCEPT !.cur = FALSE],
           UNCHANGED <<revs, meta, cache, cacheFresh, bootSeen, metaSeen, doomed>>,
           BooksKept, deletes' \in Nat
    PROVE  LifeInv'
  <1>1. /\ AllPrepared /\ TypeOK /\ Held(revs)' = Held(revs)
        /\ boot.uid \in {0, uids} /\ bootSeen \in Nat /\ bootSeen <= uids
    BY RequestsArePrepared DEF Held, LifeInv, LifeTypeOK, OwnersExisted
  <1>2. ASSUME NEW v \in Writers
        PROVE  /\ Prepared(v, req'[v], boot')
               /\ req'[v].fresh => req'[v].latest \in Held(revs)
    <2>1. CASE req'[v] = Idle
      BY <2>1, IdleIsPrepared
    <2>2. CASE req'[v] = [req[v] EXCEPT !.cur = FALSE]
      <3>1. Prepared(v, req[v], boot) /\ (req[v].fresh => req[v].latest \in Held(revs))
        BY <1>1 DEF AllPrepared
      <3> QED
        BY <2>2, <3>1, RefusedIsPrepared
    <2> QED
      BY <2>1, <2>2
  <1>3. LifeTypeOK'
    BY DEF LifeInv, LifeTypeOK, TypeOK, BooksKept
  <1>4. CopiesLocked'
    BY <1>1, <1>2 DEF LifeInv, CopiesLocked, At, Prepared
  <1>5. RequestsPrepared'
    BY <1>2 DEF RequestsPrepared, At, Prepared
  <1>6. uids <= uids' /\ boot'.uid \in {0, uids'} /\ uids \in Nat
    BY <1>1 DEF TypeOK
  <1>7. ASSUME NEW i \in Ids
        PROVE  meta[i].owner \in Nat /\ meta[i].owner <= uids
    BY <1>1 DEF LifeInv, TypeOK, OwnersExisted, Meta
  <1>8. OwnersExisted'
    BY <1>1, <1>6, <1>7 DEF LifeInv, OwnersExisted
  <1>9. OwnedIsNotDoomed'
    <2> SUFFICES ASSUME boot' # NoBoot, NEW i \in Ids, meta[i].owner = boot'.uid
                 PROVE  bootSeen = boot'.uid /\ i \notin doomed
      BY DEF OwnedIsNotDoomed
    <2>1. boot'.uid # 0
      BY UidFacts
    <2>2. boot'.uid = boot.uid /\ boot.uid # 0
      BY <2>1, <1>6, <1>7
    <2>3. boot # NoBoot
      BY <1>1, <2>2, UidFacts DEF TypeOK
    <2> QED
      BY <2>2, <2>3 DEF LifeInv, OwnedIsNotDoomed
  <1> QED
    BY <1>3, <1>4, <1>5, <1>8, <1>9 DEF LifeInv

\* Storing the Boot: a new one has a uid that owns nothing yet.
LEMMA StoreBootLife ==
    ASSUME LifeInv, NEW w \in Writers, StoreBoot(w), UNCHANGED <<seen, deletes>>
    PROVE  LifeInv'
  <1> DEFINE p == req[w]
  <1>1. /\ Prepared(w, p, boot) /\ p.stage = "store" /\ p \in Request /\ p.spec \in Specs
        /\ UNCHANGED <<revs, meta, cache, cacheFresh, forsaken, unsettled, updates, errors>>
        /\ UNCHANGED <<bootSeen, metaSeen, doomed, deletes>>
        /\ boot \in Boot \union {NoBoot} /\ uids \in Nat /\ deletes \in Nat /\ TypeOK
    BY RequestsArePrepared
       DEF StoreBoot, AllPrepared, Prepared, LifeInv, LifeTypeOK, TypeOK, others, seen
  <1>2. ASSUME ~p.cur, req' = [req EXCEPT ![w] = Idle], work' = AfterRefusal(w),
               UNCHANGED <<boot, uids>>
        PROVE  LifeInv'
    <2>1. End(w)
      BY <1>1, <1>2 DEF End
    <2> QED
      BY <1>1, <1>2, <2>1, EndLife
  <1>3. ASSUME p.cur,
               boot' = CASE w = Controller -> [boot EXCEPT !.rev = p.rev, !.ready = p.ready]
                         [] boot = NoBoot  -> [NoBoot EXCEPT !.uid = uids + 1, !.spec = p.spec]
                         [] OTHER          -> [boot EXCEPT !.spec = p.spec],
               uids' = IF boot = NoBoot THEN uids + 1 ELSE uids,
               work' = "queued",
               req' = [v \in Writers |-> IF v = w THEN Idle ELSE [req[v] EXCEPT !.cur = FALSE]]
        PROVE  LifeInv'
    <2>1. \A v \in Writers : \/ req'[v] = Idle
                             \/ req'[v] = [req[v] EXCEPT !.cur = FALSE]
      BY <1>3
    <2>2. req' \in [Writers -> Request]
      <3>1. \A v \in Writers : [req[v] EXCEPT !.cur = FALSE] \in Request
        BY <1>1 DEF TypeOK, Request
      <3> QED
        BY <3>1, <1>3, IdleType
    <2>3. /\ boot' \in Boot
          /\ \/ boot'.uid = boot.uid /\ uids' = uids
             \/ boot'.uid = uids + 1 /\ uids' = uids + 1
      <3>1. CASE w = Controller
        <4>1. boot \in Boot /\ boot # NoBoot
          BY <3>1, <1>1, <1>3 DEF Prepared
        <4>2. boot' = [boot EXCEPT !.rev = p.rev, !.ready = p.ready] /\ uids' = uids
          BY <3>1, <4>1, <1>3
        <4>3. p.rev \in 0..MaxId /\ p.ready \in BOOLEAN
          BY <1>1 DEF Request
        <4>4. ASSUME NEW n \in 0..MaxId, NEW b \in BOOLEAN,
                     boot' = [boot EXCEPT !.rev = n, !.ready = b]
              PROVE  boot' \in Boot /\ boot'.uid = boot.uid
          BY <4>1, <4>4 DEF Boot
        <4>5. boot' \in Boot /\ boot'.uid = boot.uid
          BY <4>2, <4>3, <4>4
        <4> QED
          BY <4>2, <4>5
      <3>2. CASE w # Controller /\ boot = NoBoot
        <4>1. boot' = [uid |-> uids + 1, spec |-> p.spec, rev |-> 0, ready |-> FALSE]
          BY <3>2, <1>3 DEF NoBoot
        <4>2. uids + 1 \in Nat \ {0} /\ 0 \in 0..MaxId /\ uids' = uids + 1
          BY <3>2, <1>1, <1>3, LimitsAssumption
        <4> QED
          BY <4>1, <4>2, <1>1 DEF Boot
      <3>3. CASE w # Controller /\ boot # NoBoot
        <4>1. boot' = [boot EXCEPT !.spec = p.spec] /\ uids' = uids
          BY <3>3, <1>3
        <4> QED
          BY <3>3, <4>1, <1>1 DEF Boot
      <3> QED
        BY <3>1, <3>2, <3>3
    <2>4. uids' \in Nat /\ deletes' \in Nat /\ BooksKept
      BY <1>1, <1>3, <2>3 DEF TypeOK, BooksKept, WorkStates
    <2> HIDE DEF p, Writers
    <2> QED
      BY <1>1, <2>1, <2>2, <2>3, <2>4, BootStep
  <1> QED
    BY <1>2, <1>3 DEF StoreBoot

\* Deleting the Boot: what it owned belongs to nobody that is there.
LEMMA DeleteBootLife ==
    ASSUME LifeInv, DeleteBoot
    PROVE  LifeInv'
  <1>1. /\ boot' = NoBoot /\ NoBoot.uid = 0
        /\ UNCHANGED <<uids, revs, meta, cache, cacheFresh, bootSeen, metaSeen, doomed>>
        /\ uids' \in Nat /\ deletes' \in Nat /\ BooksKept
    BY DEF DeleteBoot, others, seen, NoBoot, LifeInv, LifeTypeOK, TypeOK, BooksKept
  <1>2. \A v \in Writers : req'[v] = [req[v] EXCEPT !.cur = FALSE]
    BY DEF DeleteBoot
  <1>3. \A v \in Writers : [req[v] EXCEPT !.cur = FALSE] \in Request
    <2>1. \A v \in Writers : req[v] \in Request
      BY DEF LifeInv, LifeTypeOK, TypeOK
    <2> QED
      BY <2>1, ZenonT(60) DEF Request
  <1>4. req' \in [Writers -> Request]
    BY <1>2, <1>3 DEF DeleteBoot
  <1> HIDE DEF Writers
  <1> QED
    BY <1>1, <1>2, <1>4, BootStep

----------------------------------------------------------------------------
(* The collector and the BootRevision controller *)

\* What they write leaves every request prepared.
LEMMA OutdatedArePrepared ==
    ASSUME LifeInv, NEW i \in Ids
    PROVE  /\ Outdated(i) \in [Writers -> Request]
           /\ \A v \in Writers :
                 /\ Prepared(v, Outdated(i)[v], boot)
                 /\ Outdated(i)[v].fresh => Outdated(i)[v].latest \in Held(revs) \ {i}
  <1>1. AllPrepared /\ TypeOK
    BY RequestsArePrepared DEF LifeInv, LifeTypeOK
  <1>2. /\ Outdated(i) \in [Writers -> Request]
        /\ \A v \in Writers : Bystander(Outdated(i)[v], req[v], i)
    BY <1>1, OutdatedFacts
  <1>3. ASSUME NEW v \in Writers
        PROVE  /\ Prepared(v, Outdated(i)[v], boot)
               /\ Outdated(i)[v].fresh => Outdated(i)[v].latest \in Held(revs) \ {i}
    <2>1. Bystander(Outdated(i)[v], req[v], i) /\ Prepared(v, req[v], boot)
      BY <1>1, <1>2 DEF AllPrepared
    <2>2. Outdated(i)[v].fresh => Outdated(i)[v].latest \in Held(revs) \ {i}
      BY <1>1, <2>1 DEF AllPrepared, Bystander
    <2> QED
      BY <2>1, <2>2, BystanderIsPrepared
  <1> QED
    BY <1>2, <1>3

\* A deletion of a revision, by the collector or the controller.
LEMMA RemoveLife ==
    ASSUME LifeInv, NEW i \in Ids, Remove(i), doomed' \in SUBSET doomed,
           UNCHANGED <<seen, deletes>>
    PROVE  LifeInv'
  <1>1. /\ TypeOK /\ Unowned \in Meta /\ Unowned.owner = 0 /\ uids \in Nat
        /\ boot.uid \in Nat /\ (boot # NoBoot => boot.uid # 0)
    BY UidFacts DEF LifeInv, LifeTypeOK, TypeOK, Unowned, Meta
  <1>2. /\ req' = Outdated(i) /\ cacheFresh' = cacheFresh \ {i}
        /\ UNCHANGED <<boot, uids, cache, bootSeen, metaSeen, deletes>>
        /\ BooksKept
    BY <1>1 DEF Remove, seen, TypeOK, BooksKept
  <1>3. /\ revs' \in [Ids -> Revision \union {NoRevision}] /\ meta' \in [Ids -> Meta]
        /\ \A j \in Ids \ {i} : revs'[j] = revs[j] /\ meta'[j] = meta[j]
        /\ revs'[i] = NoRevision /\ meta'[i] = Unowned
    BY <1>1 DEF Remove, TypeOK
  <1>4. /\ req' \in [Writers -> Request]
        /\ \A v \in Writers : /\ Prepared(v, req'[v], boot)
                              /\ req'[v].fresh => req'[v].latest \in Held(revs) \ {i}
    BY <1>2, OutdatedArePrepared
  <1>5. /\ meta'[i].owner <= uids
        /\ boot # NoBoot /\ meta'[i].owner = boot.uid => bootSeen = boot.uid /\ i \notin doomed
    BY <1>1, <1>3
  <1> HIDE DEF Writers
  <1> QED
    BY <1>2, <1>3, <1>4, <1>5, RevisionStep

\* A new owner or retry count: the owner, if it is the Boot that is there, is the
\* one that the cache shows, and the revision is not being given up.
LEMMA OwnerLife ==
    ASSUME LifeInv, NEW i \in Ids, Unadopted(i), i \notin doomed, meta' \in [Ids -> Meta],
           \A j \in Ids \ {i} : meta'[j] = meta[j],
           meta'[i].owner \in {0, bootSeen},
           cacheFresh' = cacheFresh \ {i}, req' = Outdated(i),
           UNCHANGED <<boot, uids, revs, cache, work, others, seen, deletes>>
    PROVE  LifeInv'
  <1>1. /\ TypeOK /\ uids \in Nat /\ bootSeen \in Nat /\ bootSeen <= uids
        /\ boot.uid \in Nat /\ (boot # NoBoot => boot.uid # 0)
    BY UidFacts DEF LifeInv, LifeTypeOK, TypeOK, OwnersExisted
  <1>2. /\ UNCHANGED <<boot, uids, cache, bootSeen, metaSeen, deletes>>
        /\ BooksKept
        /\ doomed' \in SUBSET doomed
    BY <1>1 DEF seen, others, TypeOK, BooksKept
  <1>3. /\ revs' \in [Ids -> Revision \union {NoRevision}]
        /\ \A j \in Ids \ {i} : revs'[j] = revs[j] /\ meta'[j] = meta[j]
        /\ revs'[i] # NoRevision
    BY <1>1 DEF TypeOK, Unadopted, LifeInv, CopiesLocked
  <1>4. /\ req' \in [Writers -> Request]
        /\ \A v \in Writers : /\ Prepared(v, req'[v], boot)
                              /\ req'[v].fresh => req'[v].latest \in Held(revs) \ {i}
    BY OutdatedArePrepared
  <1>5. /\ meta'[i].owner <= uids
        /\ boot # NoBoot /\ meta'[i].owner = boot.uid => bootSeen = boot.uid /\ i \notin doomed
    BY <1>1
  <1> HIDE DEF Writers
  <1> QED
    BY <1>2, <1>3, <1>4, <1>5, RevisionStep

\* Looking at a revision: adopting it, counting a retry, giving it up or, that
\* decided, deleting it.
LEMMA LookLife ==
    ASSUME LifeInv, NEW i \in Ids, Look(i)
    PROVE  LifeInv'
  <1>1. /\ meta \in [Ids -> Meta] /\ bootSeen \in Nat
    BY DEF LifeInv, LifeTypeOK, TypeOK
  <1>2. CASE AdoptSeen(i)
    <2>1. meta' \in [Ids -> Meta] /\ meta'[i].owner = bootSeen
      BY <1>1, <1>2 DEF AdoptSeen, Adopt, Meta
    <2>2. \A j \in Ids \ {i} : meta'[j] = meta[j]
      BY <1>1, <1>2 DEF AdoptSeen, Adopt
    <2> QED
      BY <1>2, <2>1, <2>2, OwnerLife DEF AdoptSeen, Adopt
  <1>3. CASE CountRetry(i)
    <2>1. meta' \in [Ids -> Meta] /\ meta'[i].owner = 0
      BY <1>1, <1>3 DEF CountRetry, RetryLater, Unadopted, Meta
    <2>2. \A j \in Ids \ {i} : meta'[j] = meta[j]
      BY <1>1, <1>3 DEF CountRetry, RetryLater
    <2> QED
      BY <1>3, <2>1, <2>2, OwnerLife DEF CountRetry, RetryLater
  <1>4. CASE GiveUpSeen(i)
    <2>1. /\ UNCHANGED <<boot, uids, revs, meta, cache, cacheFresh, req, work, forsaken>>
          /\ UNCHANGED <<unsettled, updates, errors, bootSeen, metaSeen, deletes>>
          /\ bootSeen = 0 /\ doomed' = doomed \union {i}
      BY <1>4 DEF GiveUpSeen, Doom, FoundBoot, seen
    <2>2. boot.uid \in Nat /\ (boot # NoBoot => boot.uid # 0)
      BY UidFacts DEF LifeInv, LifeTypeOK, TypeOK
    <2>3. LifeTypeOK'
      BY <2>1 DEF LifeInv, LifeTypeOK, TypeOK
    <2>4. CopiesLocked' /\ RequestsPrepared' /\ OwnersExisted'
      BY <2>1 DEF LifeInv, CopiesLocked, RequestsPrepared, OwnersExisted, At, Held
    <2>5. OwnedIsNotDoomed'
      BY <2>1, <2>2 DEF LifeInv, OwnedIsNotDoomed
    <2> QED
      BY <2>3, <2>4, <2>5 DEF LifeInv
  <1>5. CASE Discard(i)
    <2>1. doomed' \in SUBSET doomed /\ UNCHANGED <<seen, deletes>>
      BY <1>5 DEF Discard, DeleteDoomed
    <2>2. CASE Remove(i)
      BY <2>1, <2>2, RemoveLife
    <2>3. CASE UNCHANGED <<boot, uids, revs, meta, cache, cacheFresh, req, work, forsaken,
                           unsettled, updates, errors>>
      <3>1. BooksKept
        BY <2>3 DEF LifeInv, LifeTypeOK, TypeOK, BooksKept
      <3> QED
        BY <2>1, <2>3, <3>1, AsideLife
    <2> QED
      BY <1>5, <2>2, <2>3 DEF Discard, DeleteDoomed
  <1> QED
    BY <1>2, <1>3, <1>4, <1>5 DEF Look

----------------------------------------------------------------------------
(* The Boot controller, the informer, and every step *)

\* The controller reads the newest cached revision, or none.
LEMMA ReconcileLife ==
    ASSUME LifeInv, Reconcile, UNCHANGED <<seen, deletes>>
    PROVE  LifeInv'
  <1> DEFINE L == Held(cache)
             read(l, a) == [Idle EXCEPT !.cur = TRUE, !.rev = l, !.ready = a]
             start(l, a, ph) == [read(l, a) EXCEPT !.stage = "phase", !.latest = l,
                                                   !.seen = ph, !.fresh = l \in cacheFresh]
  <1>1. /\ boot # NoBoot /\ boot.rev \in 0..MaxId /\ TypeOK /\ Controller \in Writers
        /\ UNCHANGED <<boot, uids, revs, meta, cache, cacheFresh>>
        /\ UNCHANGED <<bootSeen, metaSeen, doomed, deletes>>
        /\ BooksKept
    BY DEF Reconcile, Startable, Seen, WorkStates, others, seen, LifeInv, LifeTypeOK, TypeOK,
           Boot, BooksKept
  <1>2. ASSUME NEW l \in 0..MaxId, NEW a \in BOOLEAN
        PROVE  read(l, a) \in Request
    BY IdleType DEF Request
  <1>3. ASSUME NEW l \in 0..MaxId, NEW a \in BOOLEAN,
               req' = [req EXCEPT ![Controller] = SendMeta(read(l, a))]
        PROVE  LifeInv'
    <2> DEFINE q == read(l, a)
               r == SendMeta(q)
    <2>1. Prepared(Controller, r, boot) /\ ~r.fresh
      <3>1. q \in Request
        BY <1>2
      <3> HIDE DEF q
      <3> QED
        BY <1>1, <3>1, SentIsPrepared
    <2>2. req' = [req EXCEPT ![Controller] = r]
      BY <1>3
    <2> HIDE DEF q, r, Writers
    <2> QED
      BY <1>1, <2>1, <2>2, RequestStep
  <1>4. ASSUME NEW l \in L, NEW a \in BOOLEAN, NEW ph \in LivePhases,
               req' = [req EXCEPT ![Controller] = start(l, a, ph)]
        PROVE  LifeInv'
    <2> DEFINE q == read(l, a)
               f == l \in cacheFresh
               r == [q EXCEPT !.stage = "phase", !.latest = l, !.seen = ph, !.fresh = f]
    <2>1. l \in 0..MaxId /\ q \in Request
      <3>1. l \in 0..MaxId
        BY LimitsAssumption DEF Held
      <3> QED
        BY <1>2, <3>1
    <2>2. f \in BOOLEAN /\ (f => l \in Held(revs)) /\ ph \in Phases
      BY <1>4 DEF LifeInv, CopiesLocked, Held
    <2>3. req' = [req EXCEPT ![Controller] = r]
      BY <1>4
    <2> HIDE DEF q, f
    <2>4. r \in Request /\ r.stage = "phase" /\ r.latest = l /\ r.fresh = f
      BY <2>1, <2>2 DEF Request
    <2> HIDE DEF r
    <2>5. Prepared(Controller, r, boot)
      BY <1>1, <2>4 DEF Prepared
    <2> HIDE DEF Writers
    <2> QED
      BY <1>1, <2>2, <2>3, <2>4, <2>5, RequestStep
  <1>5. PICK available \in Availability :
          \/ /\ L = {}
             /\ req' = [req EXCEPT ![Controller] = SendMeta(read(boot.rev, available))]
          \/ \E l \in L :
             \/ req' = [req EXCEPT ![Controller] = SendMeta(read(l, available))]
             \/ \E ph \in LivePhases :
                   req' = [req EXCEPT ![Controller] = start(l, available, ph)]
    BY DEF Reconcile
  <1>6. available \in BOOLEAN /\ \A l \in L : l \in 0..MaxId
    BY AvailabilityAssumption DEF Held
  <1> HIDE DEF L, read, start
  <1> QED
    BY <1>1, <1>3, <1>4, <1>5, <1>6

\* A pass gets there, or ends before.
LEMMA PassLife ==
    ASSUME LifeInv, Pass
    PROVE  LifeInv'
  <1>1. CASE Reconcile
    BY <1>1, ReconcileLife DEF Pass
  <1>2. CASE DropPass
    <2>1. BooksKept
      BY <1>2 DEF DropPass, WorkStates, BooksKept, LifeInv, LifeTypeOK, TypeOK
    <2> QED
      BY <1>2, <2>1, AsideLife DEF DropPass, Pass
  <1> QED
    BY <1>1, <1>2 DEF Pass

\* An event only queues one.
LEMMA EventLife ==
    ASSUME LifeInv, Event, UNCHANGED <<seen, deletes>>
    PROVE  LifeInv'
  <1>1. BooksKept
    BY DEF Event, others, WorkStates, BooksKept, LifeInv, LifeTypeOK, TypeOK
  <1> QED
    BY <1>1, AsideLife DEF Event, others

\* The controller's phase update finds the revision as it read it, or ends.
LEMMA MovePhaseLife ==
    ASSUME LifeInv, MovePhase
    PROVE  LifeInv'
  <1> DEFINE p == req[Controller]
             x == [revs[p.latest] EXCEPT !.phase = p.seen]
             r == SendMeta(p)
  <1>1. /\ Prepared(Controller, p, boot) /\ (p.fresh => p.latest \in Held(revs))
        /\ p.stage = "phase" /\ p \in Request /\ p.seen \in Phases
        /\ TypeOK /\ Controller \in Writers
    BY RequestsArePrepared
       DEF MovePhase, UpdatePhase, AllPrepared, Prepared, Request, LifeInv, LifeTypeOK
  <1>2. /\ UNCHANGED <<boot, uids, doomed, forsaken, updates, errors>>
        /\ unsettled' = unsettled /\ errors' = errors /\ UNCHANGED <<seen, deletes>>
    BY DEF MovePhase, UpdatePhase, others
  <1>3. ASSUME p.fresh, WriteRevision(Controller, p.latest, x, r), UNCHANGED <<meta, work>>
        PROVE  LifeInv'
    <2>1. p.latest \in Ids /\ p.latest \in Held(revs) /\ revs[p.latest] \in Revision
      BY <1>1, <1>3, Absence DEF TypeOK, Held
    <2>2. x \in Revision /\ x # NoRevision
      <3>1. x \in Revision
        BY <1>1, <2>1 DEF Revision
      <3> QED
        BY <3>1, Absence
    <2>3. Prepared(Controller, r, boot) /\ ~r.fresh
      <3>1. p.cur => boot # NoBoot
        BY <1>1 DEF Prepared
      <3> HIDE DEF p
      <3> QED
        BY <1>1, <3>1, SentIsPrepared
    <2> HIDE DEF p, x, r, Writers
    <2> QED
      BY <1>1, <1>2, <1>3, <2>1, <2>2, <2>3, WriteLife
  <1>4. ASSUME End(Controller)
        PROVE  LifeInv'
    BY <1>1, <1>2, <1>4, EndLife
  <1> QED
    BY <1>3, <1>4 DEF MovePhase, UpdatePhase

\* The informers show what is there.
LEMMA SyncLife ==
    ASSUME LifeInv, SyncRevisions \/ SyncBoot
    PROVE  LifeInv'
  <1>1. boot.uid \in Nat /\ TypeOK
    BY UidFacts DEF LifeInv, LifeTypeOK, TypeOK
  <1>2. CASE SyncRevisions
    <2>1. /\ cache' = revs /\ cacheFresh' = Ids /\ metaSeen' = meta
          /\ UNCHANGED <<boot, uids, revs, meta, req, bootSeen, doomed, deletes>>
          /\ BooksKept
      BY <1>2 DEF SyncRevisions, Sync, LifeInv, LifeTypeOK, TypeOK, BooksKept
    <2>2. LifeTypeOK'
      BY <2>1 DEF LifeInv, LifeTypeOK, TypeOK, BooksKept
    <2>3. CopiesLocked' /\ RequestsPrepared' /\ OwnersExisted' /\ OwnedIsNotDoomed'
      BY <2>1 DEF LifeInv, CopiesLocked, RequestsPrepared, OwnersExisted, OwnedIsNotDoomed,
                  At, Held
    <2> QED
      BY <2>2, <2>3 DEF LifeInv
  <1>3. CASE SyncBoot
    <2>1. /\ bootSeen' = boot.uid
          /\ UNCHANGED <<boot, uids, revs, meta, cache, cacheFresh, req, work>>
          /\ UNCHANGED <<forsaken, unsettled, updates, errors, metaSeen, doomed, deletes>>
      BY <1>3 DEF SyncBoot, vars
    <2>2. LifeTypeOK'
      BY <1>1, <2>1 DEF LifeInv, LifeTypeOK, TypeOK
    <2>3. CopiesLocked' /\ RequestsPrepared'
      BY <2>1 DEF LifeInv, CopiesLocked, RequestsPrepared, At, Held
    <2>4. OwnersExisted' /\ OwnedIsNotDoomed'
      BY <1>1, <2>1 DEF LifeInv, TypeOK, OwnersExisted, OwnedIsNotDoomed
    <2> QED
      BY <2>2, <2>3, <2>4 DEF LifeInv
  <1> QED
    BY <1>2, <1>3

\* A step that changes nothing changes nothing of the invariant.
LEMMA StutterLife ==
    ASSUME LifeInv, UNCHANGED lifeVars
    PROVE  LifeInv'
  <1>1. /\ UNCHANGED <<boot, uids, revs, meta, cache, cacheFresh, req>>
        /\ UNCHANGED <<work, doomed, forsaken, unsettled, updates, errors>>
        /\ UNCHANGED <<seen, deletes>>
    BY DEF lifeVars, vars
  <1>2. BooksKept
    BY <1>1 DEF LifeInv, LifeTypeOK, TypeOK, BooksKept
  <1> QED
    BY <1>1, <1>2, AsideLife

\* Every step keeps the invariant.
LEMMA NextLifeInv ==
    ASSUME LifeInv, [LifeNext]_lifeVars
    PROVE  LifeInv'
  <1>1. ASSUME NEW w \in Writers, Record(w) PROVE LifeInv'
    BY <1>1, ListRevisionsLife, CreateRevisionLife, DemoteLatestLife, PruneOldestLife,
       StoreBootLife DEF Record, Webhook
  <1>2. ASSUME NEW w \in Writers, BootNameExist(w) PROVE LifeInv'
    <2>1. /\ End(w) /\ UNCHANGED <<boot, uids, doomed, forsaken, updates>>
          /\ unsettled' = unsettled /\ errors' = errors /\ UNCHANGED <<seen, deletes>>
      BY <1>2 DEF BootNameExist, others
    <2> QED
      BY <2>1, EndLife
  <1>3. ASSUME NEW w \in Writers, FailRequest(w), UNCHANGED <<seen, deletes>>
        PROVE  LifeInv'
    <2>1. /\ End(w) /\ UNCHANGED <<boot, uids, doomed, forsaken, updates>>
          /\ unsettled' \in {unsettled, unsettled + 1} /\ errors' = errors + 1
      BY <1>3 DEF FailRequest
    <2> QED
      BY <1>3, <2>1, EndLife
  <1>4. ASSUME NEW i \in Ids, Collect(i) PROVE LifeInv'
    BY <1>4, RemoveLife DEF Collect
  <1>5. ASSUME Event, UNCHANGED <<seen, deletes>> PROVE LifeInv'
    BY <1>5, EventLife
  <1> HIDE DEF Writers, Ids
  <1> QED
    BY <1>1, <1>2, <1>3, <1>4, <1>5, SubmitLife, PassLife, MovePhaseLife, DeleteBootLife, LookLife,
       SyncLife, StutterLife DEF LifeNext

----------------------------------------------------------------------------
(* What a revision is lost to *)

\* The webhook, while it handles w's request, deletes only what it prunes.
LEMMA RecordLoses ==
    ASSUME LifeInv, NEW w \in Writers, Record(w), NEW i \in Held(revs), revs'[i] = NoRevision
    PROVE  req[w].stage = "prune" /\ i \in req[w].todo
  <1>1. /\ AllPrepared /\ TypeOK /\ i \in Ids /\ revs[i] # NoRevision
        /\ req[w] \in Request /\ (req[w].fresh => req[w].latest \in Held(revs))
    BY RequestsArePrepared DEF LifeInv, LifeTypeOK, TypeOK, Held, AllPrepared
  <1>2. \A x, r, k : WriteRevision(w, k, x, r) => revs' = [revs EXCEPT ![k] = x]
    BY DEF WriteRevision
  <1>3. ~UNCHANGED revs
    BY <1>1
  <1>4. CASE CreateRevision(w)
    <2>1. revs' = [revs EXCEPT ![req[w].new] = [spec |-> req[w].spec, phase |-> "Running"]]
      BY <1>2, <1>3, <1>4 DEF CreateRevision, End
    <2>2. [spec |-> req[w].spec, phase |-> "Running"] \in Revision
      BY <1>1, <1>4 DEF CreateRevision, Prepared, AllPrepared, Revision
    <2> QED
      BY <1>1, <2>1, <2>2, Absence DEF TypeOK
  <1>5. CASE DemoteLatest(w)
    <2>1. /\ req[w].fresh
          /\ revs' = [revs EXCEPT ![req[w].latest] = [revs[req[w].latest] EXCEPT
                                                        !.phase = Finish(req[w].seen)]]
      BY <1>2, <1>3, <1>5 DEF DemoteLatest, EndUnsettled, End
    <2>2. Finish(req[w].seen) \in Phases /\ revs[req[w].latest] \in Revision
      BY <1>1, <2>1, Absence DEF Request, Finish, TypeOK, Held
    <2>3. [revs[req[w].latest] EXCEPT !.phase = Finish(req[w].seen)] \in Revision
      BY <2>2 DEF Revision
    <2> QED
      BY <1>1, <2>1, <2>3, Absence DEF TypeOK
  <1>6. CASE PruneOldest(w)
    <2>1. PICK k \in req[w].todo : revs' = [revs EXCEPT ![k] = NoRevision]
      BY <1>2, <1>3, <1>6 DEF PruneOldest, EndUnsettled, End
    <2> QED
      BY <1>1, <1>6, <2>1 DEF PruneOldest, TypeOK
  <1> QED
    BY <1>3, <1>4, <1>5, <1>6 DEF Record, Webhook, ListRevisions, StoreBoot

\* The Boot controller deletes none.
LEMMA MovePhaseLoses ==
    ASSUME LifeInv, MovePhase, NEW i \in Held(revs)
    PROVE  revs'[i] # NoRevision
  <1> DEFINE p == req[Controller]
             x == [revs[p.latest] EXCEPT !.phase = p.seen]
  <1>1. /\ TypeOK /\ i \in Ids /\ revs[i] # NoRevision
        /\ p \in Request /\ (p.fresh => p.latest \in Held(revs))
    BY RequestsArePrepared DEF LifeInv, LifeTypeOK, TypeOK, Held, AllPrepared
  <1>2. CASE revs' = revs
    BY <1>1, <1>2
  <1>3. CASE p.fresh /\ revs' = [revs EXCEPT ![p.latest] = x]
    <2>1. p.seen \in Phases /\ revs[p.latest] \in Revision
      BY <1>1, <1>3, Absence DEF Request, TypeOK, Held
    <2>2. x \in Revision
      BY <2>1 DEF Revision
    <2> HIDE DEF x, p
    <2> QED
      BY <1>1, <1>3, <2>2, Absence DEF TypeOK
  <1> QED
    BY <1>2, <1>3 DEF MovePhase, UpdatePhase, WriteRevision, End

\* The collector deletes what belongs to Boots that are gone, the BootRevision
\* controller what it gave up, and neither is the Boot's own.
LEMMA OthersLose ==
    ASSUME LifeInv, boot # NoBoot, NEW k \in Ids, Collect(k) \/ Look(k),
           NEW i \in Held(revs), meta[i].owner = boot.uid
    PROVE  revs'[i] # NoRevision
  <1>1. i \in Ids /\ revs[i] # NoRevision /\ revs \in [Ids -> Revision \union {NoRevision}]
    BY DEF LifeInv, LifeTypeOK, TypeOK, Held
  <1>2. CASE Remove(k) /\ k # i
    BY <1>1, <1>2 DEF Remove
  <1>3. CASE Collect(k)
    BY <1>2, <1>3 DEF Collect
  <1>4. CASE Discard(k)
    <2>1. i \notin doomed /\ k \in doomed
      BY <1>1, <1>4 DEF LifeInv, OwnedIsNotDoomed, Discard, DeleteDoomed
    <2> QED
      BY <1>1, <1>2, <1>4, <2>1 DEF Discard, DeleteDoomed
  <1>5. CASE AdoptSeen(k) \/ CountRetry(k) \/ GiveUpSeen(k)
    BY <1>1, <1>5 DEF AdoptSeen, Adopt, CountRetry, RetryLater, GiveUpSeen, Doom
  <1> QED
    BY <1>3, <1>4, <1>5 DEF Look

----------------------------------------------------------------------------
(* Theorems *)

\* In every reachable state of a name whose Boot users delete and create again:
\* a copy that passes the optimistic lock is of the revision as it stands, owner
\* and retries included; the controller never brings a deleted Boot back
\* (javaboot_controller.go:222, its Update is refused); owners are Boots that were stored;
\* and no revision of the Boot that is there is among those that Reconcile
\* decided to delete (bootrevision_controller.go:118-165).
THEOREM LifeInvariance == LifeSpec => []LifeInv
  BY InitLifeInv, NextLifeInv, PTL DEF LifeSpec

\* A revision that belongs to the Boot is deleted by keepRevisionMaxSizeLimit
\* only (boot_validation.go:310-335): Reconcile of the BootRevision controller,
\* which reads the Boot and the revision from two caches and deletes without a
\* precondition (bootrevision_controller.go:147), never hits one, whichever
\* Boots of that name were deleted and created meanwhile.
THEOREM OwnedRevisionsStay == LifeSpec => OwnedIsOnlyPruned
  <1>1. ASSUME LifeInv, [LifeNext]_lifeVars, NEW i \in Held(revs), boot # NoBoot,
               meta[i].owner = boot.uid, revs'[i] = NoRevision
        PROVE  \E w \in Writers : req[w].stage = "prune" /\ i \in req[w].todo
    <2>1. ~UNCHANGED revs
      BY <1>1 DEF Held
    <2>2. CASE \E w \in Writers : Record(w)
      BY <1>1, <2>2, RecordLoses
    <2>3. ~MovePhase
      BY <1>1, MovePhaseLoses
    <2>4. ASSUME NEW k \in Ids
          PROVE  ~(Collect(k) \/ Look(k))
      BY <1>1, OthersLose
    <2>5. \/ UNCHANGED revs \/ MovePhase
          \/ \E w \in Writers : Record(w)
          \/ \E k \in Ids : Collect(k) \/ Look(k)
      BY <1>1 DEF LifeNext, Submit, BootNameExist, End, FailRequest, Event, Pass, Reconcile,
                  DropPass, DeleteBoot,
                  SyncRevisions, Sync, SyncBoot, lifeVars, vars
    <2> QED
      BY <2>1, <2>2, <2>3, <2>4, <2>5
  <1>2. LifeInv /\ [LifeNext]_lifeVars =>
          [\A i \in Held(revs) : boot # NoBoot /\ meta[i].owner = boot.uid /\ revs'[i] = NoRevision
              => \E w \in Writers : req[w].stage = "prune" /\ i \in req[w].todo]_lifeVars
    BY <1>1
  <1> QED
    BY <1>2, LifeInvariance, PTL DEF LifeSpec, OwnedIsOnlyPruned

=============================================================================
