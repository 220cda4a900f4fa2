------------------------ MODULE RevisionBoundsProofs ------------------------
(***************************************************************************)
(* The size of the history: how many revisions it keeps, how many of them  *)
(* are not retired, and what pruning leaves, for any number of users,      *)
(* specs and revisions and any values of the limits.                       *)
(*                                                                         *)
(* The argument has two halves.  Steps sums up what any step does to the   *)
(* history, the cache and the requests; after it, every part of HistoryInv *)
(* is kept by each of these six kinds of step.                             *)
(***************************************************************************)
EXTENDS BootRevisionsProofs, FiniteSetTheorems

USE DEF Ids, Writers, Phases, LivePhases, FinishedPhases, Stages

----------------------------------------------------------------------------
(* One write at a time *)

\* A step writes one revision at most.
LEMMA OneWrite ==
    ASSUME IInv, [Next]_vars
    PROVE  \E k \in Ids : \A i \in Ids \ {k} : revs'[i] = revs[i]
  <1>1. revs \in [Ids -> Revision \union {NoRevision}] /\ req \in [Writers -> Request]
    BY DEF IInv, TypeOK
  <1>2. ASSUME NEW w \in Writers, NEW k, NEW x, NEW r, WriteRevision(w, k, x, r)
        PROVE  \A i \in Ids \ {k} : revs'[i] = revs[i]
    BY <1>1, <1>2 DEF WriteRevision
  <1>3. 1 \in Ids
    BY LimitsAssumption
  <1>4. CASE UNCHANGED revs
    BY <1>3, <1>4
  <1>5. ASSUME NEW w \in Writers, CreateRevision(w)
        PROVE  \E k \in Ids : \A i \in Ids \ {k} : revs'[i] = revs[i]
    <2>1. req[w].new \in Ids
      BY <1>5 DEF IInv, RequestsInOrder, At, CreateRevision
    <2> QED
      BY <1>2, <1>4, <1>5, <2>1 DEF CreateRevision, End
  <1>6. ASSUME NEW w \in Writers, DemoteLatest(w)
        PROVE  \E k \in Ids : \A i \in Ids \ {k} : revs'[i] = revs[i]
    <2>1. req[w].fresh => req[w].latest \in Ids
      BY DEF IInv, RequestsInOrder
    <2> QED
      BY <1>2, <1>4, <1>6, <2>1 DEF DemoteLatest, EndUnsettled, End
  <1>7. ASSUME NEW w \in Writers, PruneOldest(w)
        PROVE  \E k \in Ids : \A i \in Ids \ {k} : revs'[i] = revs[i]
    <2>1. req[w].todo \in SUBSET Ids
      BY <1>1 DEF Request
    <2> QED
      BY <1>2, <1>4, <1>7, <2>1 DEF PruneOldest, EndUnsettled, End
  <1>8. ASSUME UpdatePhase
        PROVE  \E k \in Ids : \A i \in Ids \ {k} : revs'[i] = revs[i]
    <2>1. req[Controller].fresh => req[Controller].latest \in Ids
      BY DEF IInv, RequestsInOrder
    <2>2. \/ UNCHANGED revs
          \/ req[Controller].fresh /\ \E x, r : WriteRevision(Controller, req[Controller].latest, x, r)
      BY <1>8 DEF UpdatePhase, End
    <2> QED
      BY <1>2, <1>4, <2>1, <2>2
  <1>9. ASSUME NEW i \in Ids, DeleteDoomed(i)
        PROVE  \E k \in Ids : \A j \in Ids \ {k} : revs'[j] = revs[j]
    BY <1>1, <1>4, <1>9 DEF DeleteDoomed, Remove
  <1> QED
    BY <1>4, <1>5, <1>6, <1>7, <1>8, <1>9 DEF Next, Webhook, Submit, ListRevisions, StoreBoot,
       FailRequest, End, Event, Reconcile, DropPass, Adopt, RetryLater, GiveUp, Doom, Sync, vars

\* As far as the history has come, it stays: a prune leaves a newer revision.
LEMMA ReachedStays ==
    ASSUME IInv, ~forsaken, ~forsaken', [Next]_vars, NEW n \in Nat, Reaches(revs, n)
    PROVE  Reaches(revs', n)
  <1> SUFFICES ASSUME n > 0 PROVE \E j \in Held(revs') : j >= n
    BY DEF Reaches
  <1>1. PICK j \in Held(revs) : j >= n
    BY DEF Reaches
  <1>2. PICK k \in Ids : \A i \in Ids \ {k} : revs'[i] = revs[i]
    BY OneWrite
  <1>3. CASE revs'[j] # NoRevision
    BY <1>1, <1>3 DEF Held
  <1>4. CASE revs'[j] = NoRevision
    <2>1. j \in Ids /\ revs'[j] # revs[j] /\ j = k
      BY <1>1, <1>2, <1>4 DEF Held
    <2>2. PICK l \in Held(revs) : l > j
      <3>1. ASSUME revs[j] \in Revision, NEW ph \in Phases, revs'[j] = [revs[j] EXCEPT !.phase = ph]
            PROVE  FALSE
        <4>1. revs'[j] \in Revision
          BY <3>1 DEF Revision
        <4> QED
          BY <1>4, <4>1, Absence
      <3> QED
        BY <1>1, <2>1, <3>1, RevisionWrites DEF Held
    <2> QED
      BY <1>1, <1>2, <2>1, <2>2 DEF Held
  <1> QED
    BY <1>3, <1>4

----------------------------------------------------------------------------
(* The kinds of step *)

\* Request q is p, but that its copy may have become stale.
Keeps(q, p) ==
    /\ q.stage = p.stage /\ q.new = p.new /\ q.latest = p.latest
    /\ q.seen = p.seen /\ q.todo = p.todo
    /\ q.fresh => p.fresh

Others(w) == \A v \in Writers \ {w} : Keeps(req'[v], req[v])

SameCache == cache' = cache /\ cacheFresh' \subseteq cacheFresh

Recording == {"create", "demote", "prune"}

\* A step that creates, retires and deletes nothing: w goes on, leaves the
\* recording of a revision, or is denied, with its revision left unsettled.
Calm(w) ==
    /\ \A i \in Ids : /\ revs'[i] = NoRevision <=> revs[i] = NoRevision
                      /\ revs'[i].phase \in LivePhases <=> revs[i].phase \in LivePhases
    /\ SameCache
    /\ Others(w)
    /\ \/ Keeps(req'[w], req[w]) /\ unsettled' = unsettled
       \/ /\ req'[w].stage \notin Recording
          /\ unsettled' = IF req[w].stage \in {"demote", "prune"} THEN unsettled + 1
                                                                  ELSE unsettled

Lists(w) ==
    /\ revs' = revs /\ unsettled' = unsettled
    /\ cache' = cache /\ cacheFresh' = cacheFresh
    /\ Others(w)
    /\ req[w].stage = "list" /\ req'[w].stage = "create"
    /\ req'[w].new = req'[w].latest + 1
    /\ \/ req'[w].latest = 0 /\ ~req'[w].fresh /\ req'[w].todo = {}
       \/ /\ Newest(req'[w].latest, Held(cache))
          /\ req'[w].seen = cache[req'[w].latest].phase
          /\ req'[w].fresh => req'[w].latest \in cacheFresh
          /\ req'[w].todo = Surplus(Held(cache))

Creates(w) ==
    /\ SameCache
    /\ Others(w)
    /\ req[w].stage = "create" /\ req[w].new \notin Held(revs)
    /\ revs'[req[w].new].phase = "Running"
    /\ \A i \in Ids \ {req[w].new} : revs'[i] = revs[i]
    /\ unsettled' = IF req[w].latest = 0 /\ Held(revs) # {} THEN unsettled + 1 ELSE unsettled
    /\ \/ req[w].latest = 0 /\ req'[w].stage = "store"
       \/ /\ req[w].latest # 0 /\ req'[w].stage = "demote"
          /\ req'[w].new = req[w].new /\ req'[w].seen = req[w].seen
          /\ req'[w].latest = req[w].latest
          /\ req'[w].todo = req[w].todo /\ req'[w].fresh = req[w].fresh

Retires(w) ==
    /\ SameCache
    /\ Others(w)
    /\ req[w].stage = "demote" /\ req[w].fresh /\ req[w].latest \in Held(revs)
    /\ revs'[req[w].latest].phase = Finish(req[w].seen)
    /\ revs'[req[w].latest] # NoRevision
    /\ \A i \in Ids \ {req[w].latest} : revs'[i] = revs[i]
    /\ unsettled' = unsettled
    /\ \/ req[w].todo = {} /\ req'[w].stage = "store"
       \/ req'[w].stage = "prune" /\ req'[w].new = req[w].new /\ req'[w].todo = req[w].todo

Prunes(w, k) ==
    /\ SameCache
    /\ k \notin cacheFresh'
    /\ Others(w)
    /\ \A v \in Writers \ {w} : req'[v].fresh => req'[v].latest # k
    /\ req[w].stage = "prune" /\ k \in req[w].todo /\ k \in Held(revs)
    /\ \A j \in req[w].todo : k <= j
    /\ revs'[k] = NoRevision
    /\ \A i \in Ids \ {k} : revs'[i] = revs[i]
    /\ unsettled' = unsettled
    /\ \/ req[w].todo = {k} /\ req'[w].stage = "store"
       \/ /\ req'[w].stage = "prune" /\ req'[w].new = req[w].new
          /\ req'[w].todo = req[w].todo \ {k}

Syncs ==
    /\ revs' = revs /\ cache' = revs /\ cacheFresh' = Ids
    /\ req' = req /\ unsettled' = unsettled

----------------------------------------------------------------------------
(* Every step is of one of these kinds *)

LEMMA KeepsItself == \A p : Keeps(p, p)
  BY DEF Keeps

\* Others see of a write at most that their copy is stale.
LEMMA WriteOthers ==
    ASSUME IInv, NEW w \in Writers, NEW i \in Ids,
           NEW x \in Revision \union {NoRevision}, NEW r \in Request,
           WriteRevision(w, i, x, r)
    PROVE  /\ SameCache /\ Others(w) /\ i \notin cacheFresh'
           /\ \A v \in Writers \ {w} : req'[v].fresh => req'[v].latest # i
           /\ revs'[i] = x /\ \A j \in Ids \ {i} : revs'[j] = revs[j]
           /\ req'[w] = r
  <1>1. TypeOK
    BY DEF IInv
  <1> QED
    BY <1>1, WriteFacts DEF SameCache, Others, Keeps, Bystander

\* A writer that ends its request.
LEMMA EndStep ==
    ASSUME IInv, NEW w \in Writers, End(w),
           unsettled' = IF req[w].stage \in {"demote", "prune"} THEN unsettled + 1 ELSE unsettled
    PROVE  Calm(w)
  <1>1. \A v \in Writers : req'[v] = IF v = w THEN Idle ELSE req[v]
    BY DEF End, IInv, TypeOK
  <1>2. req'[w].stage \notin Recording
    BY <1>1 DEF Idle, Recording
  <1>3. Others(w) /\ SameCache /\ revs' = revs
    BY <1>1, KeepsItself DEF Others, SameCache, End
  <1> QED
    BY <1>2, <1>3 DEF Calm

LEMMA EndUnsettledStep ==
    ASSUME IInv, NEW w \in Writers, EndUnsettled(w), req[w].stage \in {"demote", "prune"}
    PROVE  Calm(w)
  BY EndStep DEF EndUnsettled

\* A writer outside the recording of a revision, before and after.
LEMMA AsideStep ==
    ASSUME IInv, NEW w \in Writers, NEW r, req' = [req EXCEPT ![w] = r],
           r.stage \notin Recording, req[w].stage \notin {"demote", "prune"},
           UNCHANGED <<revs, cache, cacheFresh, unsettled>>
    PROVE  Calm(w)
  <1>1. \A v \in Writers : req'[v] = IF v = w THEN r ELSE req[v]
    BY DEF IInv, TypeOK
  <1>2. Others(w) /\ SameCache
    BY <1>1, KeepsItself DEF Others, SameCache
  <1> QED
    BY <1>1, <1>2 DEF Calm

LEMMA SubmitStep ==
    ASSUME IInv, NEW c \in Clients, NEW s \in Specs, Submit(c, s)
    PROVE  Calm(c)
  <1> DEFINE r == [Idle EXCEPT !.stage = "list", !.spec = s, !.cur = TRUE]
  <1>1. r.stage = "list"
    BY DEF Idle
  <1> HIDE DEF r
  <1>2. req' = [req EXCEPT ![c] = r] /\ req[c].stage = "idle"
        /\ UNCHANGED <<revs, cache, cacheFresh, unsettled>>
    BY DEF Submit, r
  <1> QED
    BY <1>1, <1>2, AsideStep DEF Recording

\* Listing decides on a revision, or finds the newest one to be the Boot's.
LEMMA ListStep ==
    ASSUME IInv, NEW w \in Writers, ListRevisions(w)
    PROVE  Lists(w) \/ Calm(w)
  <1> DEFINE p == req[w]
             L == Held(cache)
  <1>1. /\ p \in Request /\ p.stage = "list" /\ ~p.fresh /\ p.latest = 0 /\ p.todo = {}
        /\ req \in [Writers -> Request]
        /\ UNCHANGED <<revs, cache, cacheFresh, unsettled>>
    BY DEF ListRevisions, IInv, TypeOK, RequestsInOrder, At, others
  <1>2. ASSUME NEW r, req' = [req EXCEPT ![w] = r]
        PROVE  Others(w) /\ req'[w] = r
    BY <1>1, <1>2, KeepsItself DEF Others
  <1> DEFINE First == req' = [req EXCEPT ![w].stage = "create", ![w].new = 1]
             Known == req' = [req EXCEPT ![w].stage = "store"]
             New(l, ph, f, t, n) ==
               req' = [req EXCEPT ![w].stage = "create", ![w].new = n, ![w].latest = l,
                                  ![w].seen = ph, ![w].fresh = f, ![w].todo = t]
  <1>3. ASSUME First
        PROVE  Lists(w)
    <2> DEFINE r == [p EXCEPT !.stage = "create", !.new = 1]
    <2>1. r.stage = "create" /\ r.new = 1 /\ r.latest = 0 /\ ~r.fresh /\ r.todo = {}
      BY <1>1 DEF Request
    <2>2. req' = [req EXCEPT ![w] = r]
      BY <1>3
    <2> HIDE DEF r
    <2>3. Others(w) /\ req'[w] = r
      BY <1>2, <2>2
    <2>4. r.new = r.latest + 1
      BY <2>1
    <2> QED
      BY <1>1, <2>1, <2>3, <2>4 DEF Lists
  <1>4. ASSUME Known
        PROVE  Calm(w)
    <2> DEFINE r == [p EXCEPT !.stage = "store"]
    <2>1. r.stage = "store" /\ req' = [req EXCEPT ![w] = r]
      BY <1>1, <1>4 DEF Request
    <2> HIDE DEF r
    <2> QED
      BY <1>1, <2>1, AsideStep DEF Recording
  <1>5. ASSUME NEW l \in L, Newest(l, L), NEW ph, NEW f \in BOOLEAN, NEW t, NEW n,
               ph = cache[l].phase, f => l \in cacheFresh, t = Surplus(L), n = l + 1,
               New(l, ph, f, t, n)
        PROVE  Lists(w)
    <2> DEFINE r == [p EXCEPT !.stage = "create", !.new = n, !.latest = l,
                              !.seen = ph, !.fresh = f, !.todo = t]
    <2>1. /\ r.stage = "create" /\ r.new = n /\ r.latest = l /\ r.seen = ph
          /\ r.fresh = f /\ r.todo = t
      BY <1>1 DEF Request
    <2>2. req' = [req EXCEPT ![w] = r]
      BY <1>5
    <2> HIDE DEF r
    <2>3. Others(w) /\ req'[w] = r
      BY <1>2, <2>2
    <2>4. r.new = r.latest + 1 /\ (r.fresh => r.latest \in cacheFresh)
      BY <1>5, <2>1
    <2>5. Newest(r.latest, L) /\ r.seen = cache[r.latest].phase /\ r.todo = Surplus(L)
      BY <1>5, <2>1
    <2> HIDE DEF L
    <2> QED
      BY <1>1, <2>1, <2>3, <2>4, <2>5 DEF Lists, L
  <1>6. First \/ Known \/ \E l \in L : Newest(l, L)
                  /\ New(l, cache[l].phase, l \in cacheFresh, Surplus(L), l + 1)
    BY Zenon DEF ListRevisions
  <1>7. ASSUME NEW l \in L, Newest(l, L),
               New(l, cache[l].phase, l \in cacheFresh, Surplus(L), l + 1)
        PROVE  Lists(w)
    <2> DEFINE ph == cache[l].phase
               f == l \in cacheFresh
               t == Surplus(L)
               n == l + 1
    <2>1. f \in BOOLEAN /\ (f => l \in cacheFresh)
      OBVIOUS
    <2>2. ph = cache[l].phase /\ t = Surplus(L) /\ n = l + 1
      OBVIOUS
    <2>3. New(l, ph, f, t, n)
      BY <1>7
    <2> HIDE DEF L, ph, f, t, n, New
    <2> QED
      BY <1>5, <1>7, <2>1, <2>2, <2>3
  <1>8. First => Lists(w)
    BY <1>3
  <1>9. Known => Calm(w)
    BY <1>4
  <1> HIDE DEF First, Known, New, L
  <1> QED
    BY <1>6, <1>7, <1>8, <1>9

\* Creating a revision, or finding its name taken.
LEMMA CreateStep ==
    ASSUME IInv, NEW w \in Writers, CreateRevision(w)
    PROVE  Creates(w) \/ Calm(w)
  <1> DEFINE p == req[w]
             x == [spec |-> p.spec, phase |-> "Running"]
             r == IF p.latest = 0 THEN Recorded(p) ELSE [p EXCEPT !.stage = "demote"]
  <1>1. p \in Request /\ p.stage = "create" /\ p.spec \in Specs /\ p.new \in Ids
    BY DEF CreateRevision, IInv, TypeOK, RequestsInOrder, At
  <1>2. ASSUME End(w), UNCHANGED unsettled PROVE Calm(w)
    BY <1>1, <1>2, EndStep
  <1>3. ASSUME WriteRevision(w, p.new, x, r), revs[p.new] = NoRevision,
               unsettled' = IF p.latest = 0 /\ Held(revs) # {} THEN unsettled + 1 ELSE unsettled
        PROVE  Creates(w)
    <2>1. x \in Revision /\ x.phase = "Running"
      BY <1>1 DEF Revision
    <2>2. /\ r \in Request
          /\ p.latest = 0 => r.stage = "store"
          /\ p.latest # 0 => /\ r.stage = "demote" /\ r.new = p.new /\ r.latest = p.latest
                             /\ r.todo = p.todo /\ r.seen = p.seen /\ r.fresh = p.fresh
      <3>1. CASE p.latest = 0
        BY <3>1, <1>1, RecordedType
      <3>2. CASE p.latest # 0
        BY <3>2, <1>1 DEF Request
      <3> QED
        BY <3>1, <3>2
    <2> HIDE DEF r, x
    <2>3. /\ SameCache /\ Others(w)
          /\ revs'[p.new] = x /\ \A j \in Ids \ {p.new} : revs'[j] = revs[j]
          /\ req'[w] = r
      BY <1>1, <1>3, <2>1, <2>2, WriteOthers
    <2>4. p.new \notin Held(revs)
      BY <1>3 DEF Held
    <2> QED
      BY <1>1, <1>3, <2>1, <2>2, <2>3, <2>4 DEF Creates
  <1>4. \/ End(w) /\ UNCHANGED unsettled
        \/ /\ WriteRevision(w, p.new, x, r) /\ revs[p.new] = NoRevision
           /\ unsettled' = IF p.latest = 0 /\ Held(revs) # {} THEN unsettled + 1 ELSE unsettled
    BY DEF CreateRevision
  <1> QED
    BY <1>2, <1>3, <1>4

\* Retiring the latest revision, or finding the copy of it stale.
LEMMA RetireStep ==
    ASSUME IInv, NEW w \in Writers, DemoteLatest(w)
    PROVE  Retires(w) \/ Calm(w)
  <1> DEFINE p == req[w]
             x == [revs[p.latest] EXCEPT !.phase = Finish(p.seen)]
             q == [p EXCEPT !.stage = "prune", !.latest = 0, !.seen = "Running", !.fresh = FALSE]
             r == IF p.todo = {} THEN Recorded(p) ELSE q
  <1>1. /\ p \in Request /\ p.stage = "demote"
        /\ p.fresh => p.latest \in Ids /\ revs[p.latest].phase = p.seen
    BY DEF DemoteLatest, IInv, TypeOK, RequestsInOrder, CopiesCurrent, At
  <1>2. ASSUME EndUnsettled(w) PROVE Calm(w)
    BY <1>1, <1>2, EndUnsettledStep
  <1>3. ASSUME p.fresh, WriteRevision(w, p.latest, x, r), unsettled' = unsettled
        PROVE  Retires(w)
    <2>1. p.seen \in Phases /\ Finish(p.seen) \in Phases
      BY <1>1 DEF Request, Finish
    <2>2. p.latest \in Ids /\ revs[p.latest] \in Revision /\ revs[p.latest] # NoRevision
      BY <1>1, <1>3, <2>1, Absence DEF IInv, TypeOK
    <2>3. x \in Revision /\ x.phase = Finish(p.seen)
      BY <2>1, <2>2 DEF Revision
    <2>4. /\ r \in Request
          /\ p.todo = {} => r.stage = "store"
          /\ p.todo # {} => r.stage = "prune" /\ r.new = p.new /\ r.todo = p.todo
      <3>1. CASE p.todo = {}
        BY <3>1, <1>1, RecordedType
      <3>2. CASE p.todo # {}
        <4>1. ASSUME NEW st \in Stages, NEW n \in 0..MaxId, NEW ph \in Phases, NEW f \in BOOLEAN,
                     q = [p EXCEPT !.stage = st, !.latest = n, !.seen = ph, !.fresh = f]
              PROVE  q \in Request /\ q.stage = st /\ q.new = p.new /\ q.todo = p.todo
          BY <4>1, <1>1, ZenonT(60) DEF Request
        <4>2. "prune" \in Stages /\ 0 \in 0..MaxId /\ "Running" \in Phases
          BY LimitsAssumption
        <4> QED
          BY <3>2, <4>1, <4>2
      <3> QED
        BY <3>1, <3>2
    <2> HIDE DEF r, x
    <2>5. /\ SameCache /\ Others(w)
          /\ revs'[p.latest] = x /\ \A j \in Ids \ {p.latest} : revs'[j] = revs[j]
          /\ req'[w] = r
      BY <1>3, <2>2, <2>3, <2>4, WriteOthers
    <2>6. p.latest \in Held(revs) /\ x # NoRevision
      BY <2>2, <2>3, Absence DEF Held
    <2> QED
      BY <1>1, <1>3, <2>3, <2>4, <2>5, <2>6 DEF Retires
  <1> QED
    BY <1>2, <1>3 DEF DemoteLatest, others

\* Deleting the oldest surplus revision, or finding it gone.
LEMMA PruneStep ==
    ASSUME IInv, NEW w \in Writers, PruneOldest(w)
    PROVE  (\E k \in Ids : Prunes(w, k)) \/ Calm(w)
  <1> DEFINE p == req[w]
             r(k) == IF p.todo \ {k} = {} THEN Recorded(p) ELSE [p EXCEPT !.todo = p.todo \ {k}]
  <1>1. p \in Request /\ p.stage = "prune" /\ p.todo \in SUBSET Ids
    BY DEF PruneOldest, IInv, TypeOK, Request
  <1>2. ASSUME EndUnsettled(w) PROVE Calm(w)
    BY <1>1, <1>2, EndUnsettledStep
  <1>3. ASSUME NEW k \in p.todo, \A j \in p.todo \ {k} : k < j, revs[k] # NoRevision,
               WriteRevision(w, k, NoRevision, r(k)), unsettled' = unsettled
        PROVE  Prunes(w, k)
    <2> DEFINE rest == p.todo \ {k}
    <2>1. k \in Ids /\ rest \in SUBSET Ids /\ k \in Held(revs) /\ \A j \in p.todo : k <= j
      BY <1>1, <1>3 DEF Held
    <2>2. /\ r(k) \in Request
          /\ rest = {} => r(k).stage = "store" /\ p.todo = {k}
          /\ rest # {} => r(k).stage = "prune" /\ r(k).new = p.new /\ r(k).todo = rest
      <3>1. CASE rest = {}
        BY <3>1, <1>1, <1>3, RecordedType
      <3>2. CASE rest # {}
        <4>1. r(k) = [p EXCEPT !.todo = rest]
          BY <3>2
        <4> HIDE DEF rest, r
        <4> QED
          BY <3>2, <4>1, <1>1, <2>1 DEF Request
      <3> QED
        BY <3>1, <3>2
    <2> HIDE DEF r
    <2>3. /\ SameCache /\ Others(w) /\ k \notin cacheFresh'
          /\ \A v \in Writers \ {w} : req'[v].fresh => req'[v].latest # k
          /\ revs'[k] = NoRevision /\ \A j \in Ids \ {k} : revs'[j] = revs[j]
          /\ req'[w] = r(k)
      BY <1>3, <2>1, <2>2, WriteOthers
    <2> QED
      BY <1>1, <1>3, <2>1, <2>2, <2>3 DEF Prunes
  <1>4. \/ EndUnsettled(w)
        \/ \E k \in p.todo : /\ \A j \in p.todo \ {k} : k < j
                             /\ revs[k] # NoRevision
                             /\ WriteRevision(w, k, NoRevision, r(k))
                             /\ unsettled' = unsettled
    BY DEF PruneOldest, others
  <1> HIDE DEF r
  <1> QED
    BY <1>1, <1>2, <1>3, <1>4

\* Storing the Boot: the others' reads of the Boot become stale, and no more.
LEMMA StoreStep ==
    ASSUME IInv, NEW w \in Writers, StoreBoot(w)
    PROVE  Calm(w)
  <1>1. /\ req[w].stage = "store" /\ req \in [Writers -> Request]
        /\ UNCHANGED <<revs, cache, cacheFresh, unsettled>>
    BY DEF StoreBoot, others, IInv, TypeOK
  <1>2. Idle.stage \notin Recording
    BY DEF Idle, Recording
  <1>3. ASSUME req' = [req EXCEPT ![w] = Idle] PROVE Calm(w)
    BY <1>1, <1>2, <1>3, AsideStep
  <1>4. ASSUME req' = [v \in Writers |-> IF v = w THEN Idle ELSE [req[v] EXCEPT !.cur = FALSE]]
        PROVE  Calm(w)
    <2>1. ASSUME NEW q \in Request PROVE Keeps([q EXCEPT !.cur = FALSE], q)
      BY DEF Request, Keeps
    <2>2. Others(w) /\ req'[w] = Idle
      BY <1>1, <1>4, <2>1 DEF Others
    <2> QED
      BY <1>1, <1>2, <2>2 DEF Calm, SameCache
  <1> QED
    BY <1>3, <1>4 DEF StoreBoot

LEMMA FailStep ==
    ASSUME IInv, NEW w \in Writers, FailRequest(w)
    PROVE  Calm(w)
  BY EndStep DEF FailRequest

\* The controller starts: with a phase to write, or with the Boot.
LEMMA ReconcileStep ==
    ASSUME IInv, Reconcile
    PROVE  Calm(Controller)
  <1>1. ASSUME NEW r PROVE SendMeta(r).stage \notin Recording
    BY DEF SendMeta, Idle, Recording
  <1>2. /\ \E r : r.stage \notin Recording /\ req' = [req EXCEPT ![Controller] = r]
        /\ req[Controller].stage = "idle"
        /\ UNCHANGED <<revs, cache, cacheFresh, unsettled>>
    BY <1>1, ZenonT(60) DEF Reconcile, Startable, Idle, others, Recording
  <1> QED
    BY <1>2, AsideStep

\* The controller writes a live phase over a live one.
LEMMA PhaseStep ==
    ASSUME IInv, ~forsaken, UpdatePhase
    PROVE  Calm(Controller)
  <1> DEFINE p == req[Controller]
             x == [revs[p.latest] EXCEPT !.phase = p.seen]
             r == SendMeta(p)
  <1>1. /\ p \in Request /\ p.stage = "phase" /\ p.seen \in LivePhases
        /\ p.fresh => p.latest \in Ids /\ revs[p.latest].phase \in LivePhases
        /\ unsettled' = unsettled /\ Controller \in Writers
    BY DEF UpdatePhase, IInv, TypeOK, RequestsInOrder, CopiesCurrent, At, others
  <1>2. ASSUME End(Controller) PROVE Calm(Controller)
    BY <1>1, <1>2, EndStep
  <1>3. ASSUME p.fresh, WriteRevision(Controller, p.latest, x, r)
        PROVE  Calm(Controller)
    <2>1. p.latest \in Ids /\ revs[p.latest] \in Revision /\ revs[p.latest] # NoRevision
      BY <1>1, <1>3, Absence DEF IInv, TypeOK
    <2>2. x \in Revision /\ x.phase = p.seen /\ x # NoRevision
      BY <1>1, <2>1, Absence DEF Revision
    <2>3. r \in Request /\ r.stage \notin Recording
      <3>1. boot # NoBoot
        BY <1>1 DEF IInv, BootIsBehind
      <3> QED
        BY <1>1, <3>1, SendMetaFacts DEF Recording, IInv
    <2> HIDE DEF r, x
    <2>4. /\ SameCache /\ Others(Controller) /\ req'[Controller] = r
          /\ revs'[p.latest] = x /\ \A j \in Ids \ {p.latest} : revs'[j] = revs[j]
      <3>1. Controller \in Writers /\ WriteRevision(Controller, p.latest, x, r)
        BY <1>3
      <3> HIDE DEF Writers, p
      <3> QED
        BY <2>1, <2>2, <2>3, <3>1, WriteOthers
    <2> QED
      BY <1>1, <1>3, <2>1, <2>2, <2>3, <2>4 DEF Calm
  <1> QED
    BY <1>2, <1>3 DEF UpdatePhase

\* The BootRevision controller writes a revision's metadata.
LEMMA MetaStep ==
    ASSUME IInv, NEW i \in Ids, Adopt(i, boot.uid) \/ RetryLater(i)
    PROVE  Calm(Controller)
  <1>1. /\ req' = Outdated(i) /\ cacheFresh' = cacheFresh \ {i}
        /\ UNCHANGED <<revs, cache, unsettled>> /\ TypeOK
    BY DEF Adopt, RetryLater, others, IInv
  <1>2. \A v \in Writers : Keeps(req'[v], req[v])
    BY <1>1, OutdatedFacts DEF Keeps, Bystander
  <1> QED
    BY <1>1, <1>2 DEF Calm, SameCache, Others

LEMMA StutterStep ==
    ASSUME UNCHANGED vars
    PROVE  Calm(Controller)
  <1>1. \A v \in Writers : Keeps(req'[v], req[v])
    BY KeepsItself DEF vars
  <1> QED
    BY <1>1 DEF Calm, SameCache, Others, vars

\* A step that concerns neither the revisions nor the requests.
LEMMA BesideStep ==
    ASSUME ~forsaken', NEW i, Event \/ DropPass \/ GiveUp(i) \/ DeleteDoomed(i)
    PROVE  Calm(Controller)
  <1>1. UNCHANGED <<revs, cache, cacheFresh, req, unsettled>>
    BY DEF Event, DropPass, GiveUp, Doom, DeleteDoomed, Remove, others
  <1>2. \A v \in Writers : Keeps(req'[v], req[v])
    BY <1>1, KeepsItself
  <1> QED
    BY <1>1, <1>2 DEF Calm, SameCache, Others

\* What any step does to the history, the cache and the requests.
LEMMA Steps ==
    ASSUME IInv, ~forsaken, ~forsaken', [Next]_vars
    PROVE  \/ \E w \in Writers : Calm(w) \/ Lists(w) \/ Creates(w) \/ Retires(w)
           \/ \E w \in Writers, k \in Ids : Prunes(w, k)
           \/ Syncs
  <1> DEFINE Goal == \/ \E w \in Writers : Calm(w) \/ Lists(w) \/ Creates(w) \/ Retires(w)
                     \/ \E w \in Writers, k \in Ids : Prunes(w, k)
                     \/ Syncs
  <1>1. ASSUME NEW c \in Clients, NEW s \in Specs, Submit(c, s) PROVE Goal
    BY <1>1, SubmitStep
  <1>2. ASSUME NEW w \in Writers, Webhook(w) PROVE Goal
    BY <1>2, ListStep, CreateStep, RetireStep, PruneStep, StoreStep DEF Webhook
  <1>3. ASSUME NEW w \in Writers, FailRequest(w) PROVE Goal
    BY <1>3, FailStep
  <1>4. ASSUME Reconcile \/ UpdatePhase PROVE Goal
    BY <1>4, ReconcileStep, PhaseStep
  <1>5. ASSUME NEW i \in Ids, Adopt(i, boot.uid) \/ RetryLater(i) PROVE Goal
    BY <1>5, MetaStep
  <1>6. ASSUME Sync PROVE Goal
    BY <1>6 DEF Sync, Syncs, others
  <1>7. ASSUME UNCHANGED vars PROVE Goal
    BY <1>7, StutterStep
  <1>9. ASSUME NEW i, Event \/ DropPass \/ GiveUp(i) \/ DeleteDoomed(i) PROVE Goal
    BY <1>9, BesideStep
  <1> HIDE DEF Goal
  <1>8. ASSUME Next PROVE Goal
    BY <1>1, <1>2, <1>3, <1>4, <1>5, <1>6, <1>8, <1>9 DEF Next
  <1> QED
    BY <1>7, <1>8 DEF Goal

----------------------------------------------------------------------------
(* Counting *)

\* Sets of ids and of writers can be counted.
LEMMA Countable ==
    ASSUME NEW S, S \in SUBSET Ids \/ S \in SUBSET Writers
    PROVE  IsFiniteSet(S) /\ Cardinality(S) \in Nat
  <1>1. IsFiniteSet(Ids)
    BY LimitsAssumption, FS_Interval
  <1>2. IsFiniteSet(Writers)
    BY ClientsAssumption, FS_AddElement
  <1>3. IsFiniteSet(S)
    BY <1>1, <1>2, FS_Subset
  <1> QED
    BY <1>3, FS_CardinalityType

\* A larger set counts at least as much, and one element more counts one more.
LEMMA Counting ==
    ASSUME NEW S, IsFiniteSet(S)
    PROVE  /\ \A T \in SUBSET S : Cardinality(T) <= Cardinality(S)
           /\ \A x \in S : Cardinality(S \ {x}) = Cardinality(S) - 1
           /\ \A x : x \notin S => Cardinality(S \union {x}) = Cardinality(S) + 1
  BY FS_Subset, FS_RemoveElement, FS_AddElement

\* What each kind of step makes of the set of revisions.
LEMMA HeldAfter ==
    ASSUME IInv
    PROVE  /\ \A w \in Writers :
                /\ Calm(w) \/ Lists(w) \/ Retires(w) => Held(revs') = Held(revs)
                /\ Creates(w) => /\ req[w].new \in Ids
                                 /\ Held(revs') = Held(revs) \union {req[w].new}
           /\ \A w \in Writers, k \in Ids : Prunes(w, k) => Held(revs') = Held(revs) \ {k}
           /\ Syncs => Held(revs') = Held(revs) /\ Held(cache') = Held(revs)
           /\ Held(revs) \in SUBSET Ids /\ Held(cache) \in SUBSET Ids
  <1>1. ASSUME NEW w \in Writers, Calm(w) \/ Lists(w) \/ Retires(w)
        PROVE  Held(revs') = Held(revs)
    BY <1>1 DEF Held, Calm, Lists, Retires
  <1>2. ASSUME NEW w \in Writers, Creates(w)
        PROVE  /\ req[w].new \in Ids
               /\ Held(revs') = Held(revs) \union {req[w].new}
    <2>1. req[w].new \in Ids
      BY <1>2 DEF Creates, IInv, RequestsInOrder, At
    <2>2. revs'[req[w].new] # NoRevision
      BY <1>2 DEF Creates, NoRevision
    <2> QED
      BY <1>2, <2>1, <2>2 DEF Creates, Held
  <1>3. ASSUME NEW w \in Writers, NEW k \in Ids, Prunes(w, k)
        PROVE  Held(revs') = Held(revs) \ {k}
    BY <1>3 DEF Prunes, Held
  <1> QED
    BY <1>1, <1>2, <1>3 DEF Syncs, Held

----------------------------------------------------------------------------
(* What a request listed *)

\* The history stays ahead of what a request listed, whatever happens to it.
LEMMA ListsBehindKept ==
    ASSUME IInv, IInv', ~forsaken, ~forsaken', ListsBehind, [Next]_vars
    PROVE  ListsBehind'
  <1> SUFFICES ASSUME NEW v \in Writers
               PROVE  /\ req'[v].stage = "create" =>
                            /\ req'[v].new = req'[v].latest + 1
                            /\ Reaches(revs', req'[v].latest)
                            /\ req'[v].fresh => req'[v].latest \in Held(cache')
                      /\ req'[v].stage \in {"create", "demote"} /\ req'[v].fresh =>
                            req'[v].seen \in LivePhases
    BY DEF ListsBehind, At, Held, Reaches
  <1> DEFINE Goal == /\ req'[v].stage = "create" =>
                            /\ req'[v].new = req'[v].latest + 1
                            /\ Reaches(revs', req'[v].latest)
                            /\ req'[v].fresh => req'[v].latest \in Held(cache')
                     /\ req'[v].stage \in {"create", "demote"} /\ req'[v].fresh =>
                            req'[v].seen \in LivePhases
  <1>1. /\ req[v] \in Request /\ req'[v] \in Request
        /\ \A n \in Nat : Reaches(revs, n) => Reaches(revs', n)
    BY ReachedStays DEF IInv, TypeOK
  <1>2. ASSUME Keeps(req'[v], req[v]), cache' = cache PROVE Goal
    <2>1. req[v].latest \in Nat
      BY <1>1 DEF Request
    <2> QED
      BY <1>1, <1>2, <2>1 DEF Keeps, ListsBehind, At
  <1>3. ASSUME req'[v].stage \notin {"create", "demote"} PROVE Goal
    BY <1>3
  <1>4. ASSUME NEW w \in Writers, Calm(w) PROVE Goal
    BY <1>2, <1>3, <1>4 DEF Calm, Others, SameCache, Recording
  <1>5. ASSUME NEW w \in Writers, Lists(w) PROVE Goal
    <2>1. CASE v # w
      BY <1>2, <1>5, <2>1 DEF Lists, Others
    <2>2. CASE v = w /\ req'[v].latest = 0 /\ ~req'[v].fresh
      BY <1>5, <2>2 DEF Lists, Reaches
    <2>3. CASE v = w /\ req'[v].latest # 0
      <3> DEFINE l == req'[v].latest
      <3>1. /\ Newest(l, Held(cache)) /\ req'[v].seen = cache[l].phase
            /\ req'[v].new = l + 1 /\ cache' = cache /\ revs' = revs
        BY <1>5, <2>3 DEF Lists
      <3>2. l \in Held(cache) /\ Reaches(revs', l)
        BY <3>1 DEF Newest, IInv, BootIsBehind
      <3>3. cache[l].phase \in Phases /\ ~Retired(cache[l].phase)
        <4>1. cache[l] \in Revision
          BY <3>2 DEF Held, IInv, TypeOK
        <4>2. ~\E j \in Held(cache) : j > l
          BY <3>1 DEF Newest, Held
        <4>3. ~Retired(cache[l].phase)
          BY <3>2, <4>2 DEF IInv, RetiredAreSuperseded, Superseded, Held
        <4> QED
          BY <4>1, <4>3 DEF Revision
      <3> HIDE DEF l
      <3>4. req'[v].seen \in LivePhases
        BY <3>1, <3>3 DEF Retired
      <3> QED
        BY <3>1, <3>2, <3>4 DEF l
    <2> QED
      BY <1>5, <2>1, <2>2, <2>3, LimitsAssumption DEF Lists, Newest, Held
  <1>6. ASSUME NEW w \in Writers, Creates(w) PROVE Goal
    BY <1>2, <1>3, <1>6 DEF Creates, Others, SameCache, ListsBehind, At
  <1>7. ASSUME NEW w \in Writers, Retires(w) PROVE Goal
    BY <1>2, <1>3, <1>7 DEF Retires, Others, SameCache
  <1>8. ASSUME NEW w \in Writers, NEW k \in Ids, Prunes(w, k) PROVE Goal
    BY <1>2, <1>3, <1>8 DEF Prunes, Others, SameCache
  <1>9. ASSUME Syncs PROVE Goal
    <2>1. req'[v] = req[v] /\ revs' = revs /\ Held(cache') = Held(revs)
      BY <1>9 DEF Syncs
    <2>2. ASSUME req[v].stage = "create", req[v].fresh
          PROVE  req[v].latest \in Held(revs)
      <3>1. /\ req[v].latest \in Ids
            /\ revs[req[v].latest].phase \in Phases
        BY <2>2, <1>1 DEF IInv, RequestsInOrder, CopiesCurrent, At, Request
      <3> QED
        BY <3>1, Absence DEF Held, IInv, TypeOK
    <2> QED
      BY <2>1, <2>2 DEF ListsBehind, At
  <1> HIDE DEF Goal
  <1> QED
    BY <1>4, <1>5, <1>6, <1>7, <1>8, <1>9, Steps DEF Goal

----------------------------------------------------------------------------
(* What pruning leaves *)

\* Any step leaves as many revisions newer than i as there were, or as many as
\* must be retained: a prune of a newer one only comes when those are there.
LEMMA NewerStays ==
    ASSUME IInv, ~forsaken, ~forsaken', RetentionKept, [Next]_vars, NEW i \in Ids
    PROVE  \/ Cardinality(Newer(revs', i)) >= MaxHistory
           \/ Cardinality(Newer(revs', i)) >= Cardinality(Newer(revs, i))
  <1> DEFINE Goal == \/ Cardinality(Newer(revs', i)) >= MaxHistory
                     \/ Cardinality(Newer(revs', i)) >= Cardinality(Newer(revs, i))
  <1>1. \A k \in Ids : /\ Newer(revs, k) \in SUBSET Ids /\ Newer(revs', k) \in SUBSET Ids
                       /\ IsFiniteSet(Newer(revs', k))
                       /\ Cardinality(Newer(revs, k)) \in Nat
                       /\ Cardinality(Newer(revs', k)) \in Nat
    BY Countable DEF Newer, Held
  <1>2. ASSUME Held(revs) \subseteq Held(revs') PROVE Goal
    <2>1. Newer(revs, i) \subseteq Newer(revs', i)
      BY <1>2 DEF Newer
    <2> QED
      BY <1>1, <2>1, FS_Subset
  <1>3. ASSUME NEW w \in Writers, NEW k \in Ids, Prunes(w, k) PROVE Goal
    <2>1. Held(revs') = Held(revs) \ {k}
      BY <1>3, HeldAfter
    <2>2. CASE k <= i
      <3>1. Newer(revs, i) \subseteq Newer(revs', i)
        BY <2>1, <2>2 DEF Newer, Held
      <3> QED
        BY <1>1, <3>1, FS_Subset
    <2>3. CASE ~(k <= i)
      <3>1. Newer(revs, k) \subseteq Newer(revs', i)
        BY <2>1, <2>3 DEF Newer, Held
      <3>2. Cardinality(Newer(revs, k)) >= MaxHistory
        BY <1>3 DEF Prunes, RetentionKept, At
      <3>3. Cardinality(Newer(revs, k)) <= Cardinality(Newer(revs', i))
        BY <1>1, <3>1, FS_Subset
      <3> QED
        BY <1>1, <3>2, <3>3, HistoryAssumption
    <2> QED
      BY <2>2, <2>3
  <1> HIDE DEF Goal
  <1> QED
    BY <1>2, <1>3, Steps, HeldAfter DEF Goal

LEMMA RetentionKeptStays ==
    ASSUME IInv, IInv', ~forsaken, ~forsaken', RetentionKept, [Next]_vars
    PROVE  RetentionKept'
  <1> DEFINE N(rs, i) == Cardinality(Newer(rs, i))
  <1>1. ASSUME NEW i \in Ids
        PROVE  /\ N(revs, i) \in Nat /\ N(revs', i) \in Nat /\ N(cache, i) \in Nat
               /\ N(revs', i) >= MaxHistory \/ N(revs', i) >= N(revs, i)
    BY NewerStays, Countable DEF Newer, Held
  <1>2. MaxHistory \in Nat /\ MaxHistory > 0
    BY HistoryAssumption
  <1>3. \A v \in Writers : req[v].todo \in SUBSET Ids /\ req'[v].todo \in SUBSET Ids
    BY DEF IInv, TypeOK, Request
  <1>4. ASSUME NEW i \in Ids
        PROVE  N(revs', i) >= MaxHistory \/ N(cache', i) <= N(revs', i)
    <2>1. CASE cache' = cache
      BY <1>1, <1>2, <1>4, <2>1 DEF RetentionKept
    <2>2. CASE cache' = revs'
      BY <1>1, <2>2
    <2>3. cache' = cache \/ cache' = revs'
      BY Steps DEF Calm, Lists, Creates, Retires, Prunes, Syncs, SameCache
    <2> QED
      BY <2>1, <2>2, <2>3
  <1> DEFINE Due(v) == \A i \in req'[v].todo :
               /\ req'[v].stage = "create" => N(revs', i) >= MaxHistory - 1
               /\ req'[v].stage \in {"demote", "prune"} => N(revs', i) >= MaxHistory
  <1>5. ASSUME NEW v \in Writers,
               req'[v].stage = req[v].stage, req'[v].todo \subseteq req[v].todo
        PROVE  Due(v)
    <2> SUFFICES ASSUME NEW i \in req'[v].todo
                 PROVE  /\ req'[v].stage = "create" => N(revs', i) >= MaxHistory - 1
                        /\ req'[v].stage \in {"demote", "prune"} => N(revs', i) >= MaxHistory
      OBVIOUS
    <2>1. i \in Ids /\ i \in req[v].todo
      BY <1>3, <1>5
    <2>2. /\ req[v].stage = "create" => N(revs, i) >= MaxHistory - 1
          /\ req[v].stage \in {"demote", "prune"} => N(revs, i) >= MaxHistory
      BY <2>1 DEF RetentionKept, At
    <2> HIDE DEF N
    <2> QED
      BY <1>1, <1>2, <1>5, <2>1, <2>2
  <1>6. ASSUME NEW v \in Writers, Keeps(req'[v], req[v]) PROVE Due(v)
    BY <1>5, <1>6 DEF Keeps
  <1>7. ASSUME NEW v \in Writers, req'[v].stage \notin Recording PROVE Due(v)
    BY <1>7 DEF Recording
  <1>8. ASSUME NEW w \in Writers, Lists(w) PROVE Due(w)
    <2>1. req'[w].stage = "create" /\ revs' = revs
      BY <1>8 DEF Lists
    <2>2. ASSUME NEW i \in Ids, i \in Surplus(Held(cache))
          PROVE  N(revs', i) >= MaxHistory - 1
      <3>1. N(cache, i) >= MaxHistory - 1
        BY <2>2 DEF Surplus, Newer
      <3>2. N(revs, i) >= MaxHistory \/ N(cache, i) <= N(revs, i)
        BY DEF RetentionKept
      <3> HIDE DEF N
      <3> QED
        BY <1>1, <1>2, <2>1, <3>1, <3>2
    <2>3. req'[w].todo = {} \/ req'[w].todo = Surplus(Held(cache))
      BY <1>8 DEF Lists
    <2> HIDE DEF N
    <2> QED
      BY <1>3, <2>1, <2>2, <2>3
  <1>9. ASSUME NEW w \in Writers, Creates(w), req'[w].stage = "demote" PROVE Due(w)
    <2> SUFFICES ASSUME NEW i \in Ids, i \in req[w].todo
                 PROVE  N(revs', i) >= MaxHistory
      BY <1>3, <1>9 DEF Creates
    <2>1. N(revs, i) >= MaxHistory - 1 /\ i < req[w].new
      BY <1>9 DEF Creates, RetentionKept, At, IInv, RequestsInOrder
    <2>2. Newer(revs', i) = Newer(revs, i) \union {req[w].new} /\ req[w].new \notin Newer(revs, i)
      BY <1>9, <2>1, HeldAfter DEF Newer, Creates
    <2>3. IsFiniteSet(Newer(revs, i))
      BY Countable DEF Newer, Held
    <2>4. N(revs', i) = N(revs, i) + 1
      BY <2>2, <2>3, Counting
    <2> HIDE DEF N
    <2> QED
      BY <1>1, <1>2, <2>1, <2>4
  <1>10. ASSUME NEW w \in Writers, Retires(w), req'[w].stage = "prune" PROVE Due(w)
    <2> SUFFICES ASSUME NEW i \in Ids, i \in req[w].todo
                 PROVE  N(revs', i) >= MaxHistory
      BY <1>3, <1>10 DEF Retires
    <2>1. N(revs, i) >= MaxHistory
      BY <1>10 DEF Retires, RetentionKept, At
    <2> HIDE DEF N
    <2> QED
      BY <1>1, <1>2, <2>1
  <1>11. ASSUME NEW w \in Writers, NEW k \in Ids, Prunes(w, k) PROVE Due(w)
    BY <1>5, <1>7, <1>11 DEF Prunes, Recording
  <1>12. ASSUME NEW v \in Writers PROVE Due(v)
    <2> HIDE DEF Due
    <2>1. ASSUME NEW w \in Writers, Calm(w) PROVE Due(v)
      BY <1>6, <1>7, <2>1 DEF Calm, Others
    <2>2. ASSUME NEW w \in Writers, Lists(w) PROVE Due(v)
      BY <1>6, <1>8, <2>2 DEF Lists, Others
    <2>3. ASSUME NEW w \in Writers, Creates(w) PROVE Due(v)
      BY <1>6, <1>7, <1>9, <2>3 DEF Creates, Others, Recording
    <2>4. ASSUME NEW w \in Writers, Retires(w) PROVE Due(v)
      BY <1>6, <1>7, <1>10, <2>4 DEF Retires, Others, Recording
    <2>5. ASSUME NEW w \in Writers, NEW k \in Ids, Prunes(w, k) PROVE Due(v)
      BY <1>6, <1>11, <2>5 DEF Prunes, Others
    <2>6. ASSUME Syncs PROVE Due(v)
      BY <1>6, <2>6, KeepsItself DEF Syncs
    <2> QED
      BY <2>1, <2>2, <2>3, <2>4, <2>5, <2>6, Steps
  <1> HIDE DEF N
  <1>13. \A v \in Writers, i \in Ids : i \in req'[v].todo =>
            /\ req'[v].stage = "create" => N(revs', i) >= MaxHistory - 1
            /\ req'[v].stage \in {"demote", "prune"} => N(revs', i) >= MaxHistory
    BY <1>12
  <1> QED
    BY <1>4, <1>13 DEF RetentionKept, At, N, Newer, Held

----------------------------------------------------------------------------
(* What is taken for the newest revision *)

\* Such a revision is there, and in the cache.
LEMMA BasesHeld ==
    ASSUME IInv, ListsBehind, NEW l \in Bases
    PROVE  l \in Ids /\ l \in Held(revs) /\ l \in Held(cache)
  <1>1. revs \in [Ids -> Revision \union {NoRevision}] /\ cacheFresh \in SUBSET Ids
    BY DEF IInv, TypeOK
  <1>2. CASE l \in cacheFresh /\ Newest(l, Held(cache))
    BY <1>1, <1>2 DEF Newest, Held, IInv, CopiesCurrent
  <1>3. ASSUME NEW v \in Writers, req[v].stage = "create", req[v].fresh, l = req[v].latest
        PROVE  l \in Ids /\ l \in Held(revs) /\ l \in Held(cache)
    <2>1. /\ l \in Ids /\ l \in Held(cache)
          /\ revs[l].phase = req[v].seen /\ req[v].seen \in LivePhases
      BY <1>3 DEF IInv, RequestsInOrder, CopiesCurrent, ListsBehind, At
    <2> QED
      BY <1>1, <2>1, Absence DEF Held
  <1> QED
    BY <1>2, <1>3 DEF Bases, At

\* Nothing new is taken for the newest one until the cache is synchronized; a
\* prune makes the copies of what it deletes stale.
LEMMA BasesAfter ==
    ASSUME IInv, NEW l \in Bases'
    PROVE  /\ \A w \in Writers : Calm(w) \/ Lists(w) \/ Creates(w) \/ Retires(w) => l \in Bases
           /\ \A w \in Writers, k \in Ids : Prunes(w, k) => l \in Bases /\ l # k
           /\ Syncs => l \in Bases \/ Newest(l, Held(revs))
  <1>1. \/ l \in cacheFresh' /\ Newest(l, Held(cache'))
        \/ \E v \in Writers : req'[v].stage = "create" /\ req'[v].fresh /\ l = req'[v].latest
    BY DEF Bases, At, Held
  <1>2. ASSUME SameCache, l \in cacheFresh', Newest(l, Held(cache')) PROVE l \in Bases
    BY <1>2 DEF SameCache, Bases
  <1>3. ASSUME NEW v \in Writers, Keeps(req'[v], req[v]),
               req'[v].stage = "create", req'[v].fresh, l = req'[v].latest
        PROVE  l \in Bases
    BY <1>3 DEF Keeps, Bases, At
  <1>4. ASSUME NEW w \in Writers, Calm(w) PROVE l \in Bases
    BY <1>1, <1>2, <1>3, <1>4 DEF Calm, Others, Recording
  <1>5. ASSUME NEW w \in Writers, Lists(w) PROVE l \in Bases
    <2>1. SameCache
      BY <1>5 DEF Lists, SameCache
    <2>2. ASSUME req'[w].fresh, l = req'[w].latest PROVE l \in Bases
      BY <1>5, <2>2 DEF Lists, Bases
    <2> QED
      BY <1>1, <1>2, <1>3, <1>5, <2>1, <2>2 DEF Lists, Others
  <1>6. ASSUME NEW w \in Writers, Creates(w) PROVE l \in Bases
    BY <1>1, <1>2, <1>3, <1>6 DEF Creates, Others
  <1>7. ASSUME NEW w \in Writers, Retires(w) PROVE l \in Bases
    BY <1>1, <1>2, <1>3, <1>7 DEF Retires, Others
  <1>8. ASSUME NEW w \in Writers, NEW k \in Ids, Prunes(w, k) PROVE l \in Bases /\ l # k
    BY <1>1, <1>2, <1>3, <1>8 DEF Prunes, Others
  <1>9. ASSUME Syncs PROVE l \in Bases \/ Newest(l, Held(revs))
    BY <1>1, <1>3, <1>9, KeepsItself DEF Syncs
  <1> QED
    BY <1>4, <1>5, <1>6, <1>7, <1>8, <1>9

\* The surplus of a list is its oldest part.
LEMMA SurplusIsOldest ==
    ASSUME NEW L \in SUBSET Ids, NEW l \in L, l + 1 \in Surplus(L)
    PROVE  l \in Surplus(L)
  <1> DEFINE A == {j \in L : j > l}
             B == {j \in L : j > l + 1}
  <1>1. B \subseteq A /\ A \in SUBSET Ids /\ B \in SUBSET Ids
    <2>1. \A j \in L : j \in Ids /\ (j > l + 1 => j > l)
      BY LimitsAssumption
    <2> HIDE DEF Ids
    <2>2. A \subseteq L /\ B \subseteq L
      OBVIOUS
    <2> QED
      BY <2>1, <2>2
  <1> HIDE DEF A, B
  <1>2. Cardinality(B) <= Cardinality(A) /\ Cardinality(A) \in Nat /\ Cardinality(B) \in Nat
    BY <1>1, Countable, FS_Subset
  <1>3. Cardinality(B) >= MaxHistory - 1
    BY DEF Surplus, B
  <1>4. Cardinality(A) >= MaxHistory - 1
    BY <1>2, <1>3, HistoryAssumption
  <1> QED
    BY <1>4 DEF Surplus, A

\* No request reaches beyond the newest revision of the history.
LEMMA WithinNewest ==
    ASSUME IInv, ~forsaken, ListsBehind, NEW l \in Ids, Newest(l, Held(revs)), NEW v \in Writers
    PROVE  /\ req[v].stage = "create" => req[v].new <= l + 1 /\ req[v].latest <= l
           /\ req[v].stage \in {"demote", "prune"} => req[v].new <= l
           /\ req[v].stage \in Recording => l + 1 \notin req[v].todo
  <1>1. req[v].latest \in Nat /\ req[v].new \in Nat /\ req[v].todo \in SUBSET Ids
    BY DEF IInv, TypeOK, Request
  <1>2. \A n \in Nat : Reaches(revs, n) => n <= l
    BY DEF Reaches, Newest, Held
  <1>3. ASSUME req[v].stage = "create" PROVE req[v].new = req[v].latest + 1 /\ req[v].latest <= l
    BY <1>1, <1>2, <1>3 DEF ListsBehind, At
  <1>4. ASSUME req[v].stage \in {"demote", "prune"} PROVE req[v].new <= l
    <2>1. \E j \in Held(revs) : j >= req[v].new
      BY <1>4 DEF IInv, RequestsInOrder, At
    <2> QED
      BY <1>1, <1>2, <2>1 DEF Reaches
  <1>5. ASSUME req[v].stage \in Recording
        PROVE  l + 1 \notin req[v].todo
    <2>1. \A i \in req[v].todo : i < req[v].new
      BY <1>5 DEF IInv, RequestsInOrder, At, Recording
    <2> QED
      BY <1>1, <1>3, <1>4, <1>5, <2>1 DEF Recording
  <1> QED
    BY <1>1, <1>3, <1>4, <1>5

\* A prune that spares such a revision spares its successor.
LEMMA PruneSparesNext ==
    ASSUME IInv, ~forsaken, ListsBehind, BasesAreNewest, NEW l \in Bases,
           NEW w \in Writers, NEW k \in Ids, Prunes(w, k), l # k
    PROVE  k # l + 1
  <1>1. /\ req[w].stage = "prune" /\ k \in req[w].todo
        /\ \A j \in req[w].todo : k <= j
    BY DEF Prunes
  <1>2. l \in Ids /\ (k = l + 1 => l \in req[w].todo)
    BY <1>1, BasesHeld DEF BasesAreNewest, At
  <1> QED
    BY <1>1, <1>2

\* What is taken for the newest revision is it, until its successor is created.
LEMMA BasesAreNewestKept ==
    ASSUME IInv, IInv', ~forsaken, ~forsaken', ListsBehind, BasesAreNewest, [Next]_vars
    PROVE  BasesAreNewest'
  <1> SUFFICES ASSUME NEW l \in Bases'
               PROVE  /\ l + 1 \notin Held(revs') => Newest(l, Held(revs'))
                      /\ \A v \in Writers : req'[v].stage \in Recording =>
                            (l + 1 \in req'[v].todo => l \in req'[v].todo)
    BY DEF BasesAreNewest, At, Recording, Held, Newest
  <1> DEFINE Ahead == l + 1 \notin Held(revs') => Newest(l, Held(revs'))
             Older(v) == req'[v].stage \in Recording =>
                            (l + 1 \in req'[v].todo => l \in req'[v].todo)
  <1>1. ASSUME l \in Bases
        PROVE  /\ l \in Ids /\ l \in Held(revs) /\ l \in Held(cache)
               /\ l + 1 \notin Held(revs) => Newest(l, Held(revs))
               /\ \A v \in Writers : req[v].stage \in Recording =>
                            (l + 1 \in req[v].todo => l \in req[v].todo)
    BY <1>1, BasesHeld DEF BasesAreNewest, At, Recording
  <1>2. ASSUME l \in Bases, Held(revs') = Held(revs) PROVE Ahead
    BY <1>1, <1>2
  <1>3. ASSUME l \in Bases, NEW v \in Writers, Keeps(req'[v], req[v]) PROVE Older(v)
    BY <1>1, <1>3 DEF Keeps
  <1>4. ASSUME NEW v \in Writers, req'[v].stage \notin Recording PROVE Older(v)
    BY <1>4
  <1>5. ASSUME NEW w \in Writers, Calm(w) PROVE Ahead /\ \A v \in Writers : Older(v)
    <2>1. l \in Bases /\ Held(revs') = Held(revs)
      BY <1>5, BasesAfter, HeldAfter
    <2> HIDE DEF Ahead, Older
    <2> QED
      BY <1>2, <1>3, <1>4, <1>5, <2>1 DEF Calm, Others
  <1>6. ASSUME NEW w \in Writers, Lists(w) PROVE Ahead /\ \A v \in Writers : Older(v)
    <2>1. l \in Bases /\ Held(revs') = Held(revs)
      BY <1>6, BasesAfter, HeldAfter
    <2>2. l \in Held(cache) /\ Held(cache) \in SUBSET Ids
      BY <1>1, <2>1 DEF Held
    <2>3. req'[w].todo = {} \/ req'[w].todo = Surplus(Held(cache))
      BY <1>6 DEF Lists
    <2>4. Older(w)
      BY <2>2, <2>3, SurplusIsOldest
    <2> HIDE DEF Ahead, Older
    <2> QED
      BY <1>2, <1>3, <1>6, <2>1, <2>4 DEF Lists, Others
  <1>7. ASSUME NEW w \in Writers, Creates(w) PROVE Ahead /\ \A v \in Writers : Older(v)
    <2>1. /\ l \in Bases /\ l \in Ids /\ req[w].new \in Ids
          /\ Held(revs') = Held(revs) \union {req[w].new}
      BY <1>1, <1>7, BasesAfter, HeldAfter
    <2>2. ASSUME l + 1 \notin Held(revs') PROVE Newest(l, Held(revs'))
      <3>1. Newest(l, Held(revs)) /\ req[w].new # l + 1
        BY <1>1, <2>1, <2>2
      <3>2. req[w].new <= l + 1
        BY <1>7, <2>1, <3>1, WithinNewest DEF Creates
      <3>3. req[w].new <= l
        BY <2>1, <3>1, <3>2, LimitsAssumption
      <3> QED
        BY <2>1, <3>1, <3>3 DEF Newest
    <2>3. Older(w)
      <3>1. req[w].stage = "create"
            /\ (req'[w].stage = "store" \/ req'[w].todo = req[w].todo)
        BY <1>7 DEF Creates
      <3> QED
        BY <1>1, <2>1, <3>1 DEF Recording
    <2> HIDE DEF Older
    <2> QED
      BY <1>3, <1>7, <2>1, <2>2, <2>3 DEF Creates, Others
  <1>8. ASSUME NEW w \in Writers, Retires(w) PROVE Ahead /\ \A v \in Writers : Older(v)
    <2>1. l \in Bases /\ Held(revs') = Held(revs)
      BY <1>8, BasesAfter, HeldAfter
    <2>2. Older(w)
      <3>1. req[w].stage = "demote"
            /\ (req'[w].stage = "store" \/ req'[w].todo = req[w].todo)
        BY <1>8 DEF Retires
      <3> QED
        BY <1>1, <2>1, <3>1 DEF Recording
    <2> HIDE DEF Ahead, Older
    <2> QED
      BY <1>2, <1>3, <1>8, <2>1, <2>2 DEF Retires, Others
  <1>9. ASSUME NEW w \in Writers, NEW k \in Ids, Prunes(w, k)
        PROVE  Ahead /\ \A v \in Writers : Older(v)
    <2>1. /\ l \in Bases /\ l # k /\ Held(revs') = Held(revs) \ {k}
          /\ l \in Ids /\ l \in Held(revs)
      BY <1>1, <1>9, BasesAfter, HeldAfter
    <2>2. k # l + 1
      BY <1>9, <2>1, PruneSparesNext
    <2>3. Ahead
      BY <1>1, <2>1, <2>2 DEF Newest
    <2>4. Older(w)
      <3>1. req[w].stage = "prune"
            /\ (req'[w].stage = "store" \/ req'[w].todo = req[w].todo \ {k})
        BY <1>9 DEF Prunes
      <3> QED
        BY <1>1, <2>1, <3>1 DEF Recording
    <2> HIDE DEF Ahead, Older
    <2> QED
      BY <1>3, <1>9, <2>1, <2>3, <2>4 DEF Prunes, Others
  <1>10. ASSUME Syncs PROVE Ahead /\ \A v \in Writers : Older(v)
    <2>1. Held(revs') = Held(revs) /\ req' = req
      BY <1>10 DEF Syncs
    <2>2. CASE l \in Bases
      BY <1>2, <1>3, <2>1, <2>2, KeepsItself
    <2>3. CASE Newest(l, Held(revs))
      <3>1. l \in Ids
        BY <2>3 DEF Newest, Held
      <3> QED
        BY <2>1, <2>3, <3>1, WithinNewest
    <2> QED
      BY <1>10, <2>2, <2>3, BasesAfter
  <1> HIDE DEF Ahead, Older
  <1>11. Ahead /\ \A v \in Writers : Older(v)
    BY <1>5, <1>6, <1>7, <1>8, <1>9, <1>10, Steps
  <1> QED
    BY <1>11 DEF Ahead, Older

----------------------------------------------------------------------------
(* The revisions that are not retired *)

Demoting(rq) == {v \in Writers : rq[v].stage = "demote"}

\* A new revision makes one revision linger at most: the newest one so far, or
\* itself.
LEMMA OneMoreLingers ==
    ASSUME IInv, NEW w \in Writers, Creates(w)
    PROVE  \E x : Lingering(revs') \subseteq Lingering(revs) \union {x}
  <1> DEFINE n == req[w].new
  <1>1. /\ n \in Ids /\ Held(revs') = Held(revs) \union {n} /\ Held(revs) \in SUBSET Ids
        /\ \A i \in Held(revs) : i # n /\ revs'[i] = revs[i]
    BY HeldAfter DEF Creates, Held
  <1> HIDE DEF n
  <1>2. CASE \E j \in Held(revs) : j > n
    <2>1. \A i \in Held(revs) : (\E j \in Held(revs') : j > i) => \E j \in Held(revs) : j > i
      BY <1>1, <1>2
    <2>2. Lingering(revs') \subseteq Lingering(revs) \union {n}
      BY <1>1, <2>1 DEF Lingering
    <2> QED
      BY <2>2
  <1>3. CASE ~\E j \in Held(revs) : j > n
    <2>1. \A i \in Lingering(revs') :
             i \in Held(revs) /\ (i \in Lingering(revs) \/ Newest(i, Held(revs)))
      BY <1>1, <1>3 DEF Lingering, Newest
    <2>2. \A i, k \in Held(revs) : Newest(i, Held(revs)) /\ Newest(k, Held(revs)) => i = k
      BY <1>1 DEF Newest
    <2>3. CASE \E i \in Held(revs) : Newest(i, Held(revs))
      <3>1. PICK x \in Held(revs) : Newest(x, Held(revs))
        BY <2>3
      <3>2. Lingering(revs') \subseteq Lingering(revs) \union {x}
        BY <2>1, <2>2, <3>1
      <3> QED
        BY <3>2
    <2>4. CASE ~\E i \in Held(revs) : Newest(i, Held(revs))
      BY <2>1, <2>4
    <2> QED
      BY <2>3, <2>4
  <1> QED
    BY <1>2, <1>3

LEMMA SupersededKept ==
    ASSUME IInv, IInv', ~forsaken, ~forsaken', ListsBehind, SupersededAreRetired, [Next]_vars
    PROVE  SupersededAreRetired'
  <1> DEFINE L == Lingering(revs)
             M == Lingering(revs')
             D == Demoting(req)
             E == Demoting(req')
  <1>1. /\ IsFiniteSet(L) /\ IsFiniteSet(M) /\ IsFiniteSet(D) /\ IsFiniteSet(E)
        /\ Cardinality(L) \in Nat /\ Cardinality(M) \in Nat
        /\ Cardinality(D) \in Nat /\ Cardinality(E) \in Nat
    BY Countable DEF Lingering, Demoting, Held
  <1>2. unsettled \in Nat /\ Cardinality(L) <= Cardinality(D) + unsettled
    BY DEF SupersededAreRetired, At, Demoting, IInv, TypeOK
  <1> DEFINE Goal == Cardinality(M) <= Cardinality(E) + unsettled'
  <1>3. SUFFICES Goal
    BY DEF SupersededAreRetired, At, Demoting, Lingering, Held
  <1>4. ASSUME M \subseteq L, E = D, unsettled' = unsettled PROVE Goal
    BY <1>1, <1>2, <1>4, FS_Subset
  <1>5. ASSUME NEW w \in Writers, Others(w)
        PROVE  /\ (req'[w].stage = "demote") = (req[w].stage = "demote") => E = D
               /\ req'[w].stage # "demote" => E = D \ {w}
               /\ req'[w].stage = "demote" => E = D \union {w}
    BY <1>5 DEF Others, Keeps, Demoting
  <1>6. ASSUME NEW w \in Writers, Calm(w) PROVE Goal
    <2>1. M = L
      BY <1>6 DEF Calm, Lingering, Held
    <2>2. CASE req[w].stage # "demote" \/ Keeps(req'[w], req[w])
      <3>1. E = D /\ (unsettled' = unsettled \/ unsettled' = unsettled + 1)
        BY <1>5, <1>6, <2>2 DEF Calm, Keeps, Recording
      <3> HIDE DEF L, M, D, E
      <3> QED
        BY <1>1, <1>2, <2>1, <3>1
    <2>3. CASE req[w].stage = "demote" /\ ~Keeps(req'[w], req[w])
      <3>1. E = D \ {w} /\ w \in D /\ unsettled' = unsettled + 1
        BY <1>5, <1>6, <2>3 DEF Calm, Demoting, Recording
      <3>2. Cardinality(E) = Cardinality(D) - 1
        BY <1>1, <3>1, Counting
      <3> HIDE DEF L, M, D, E
      <3> QED
        BY <1>1, <1>2, <2>1, <3>1, <3>2
    <2> QED
      BY <2>2, <2>3
  <1>7. ASSUME NEW w \in Writers, Lists(w) PROVE Goal
    BY <1>4, <1>5, <1>7 DEF Lists
  <1>8. ASSUME NEW w \in Writers, Creates(w) PROVE Goal
    <2>1. CASE Held(revs) = {}
      <3>1. M = {}
        BY <1>8, <2>1, HeldAfter DEF Lingering
      <3>2. unsettled' \in Nat
        BY DEF IInv, TypeOK
      <3> QED
        BY <1>1, <3>1, <3>2, FS_EmptySet
    <2>2. CASE Held(revs) # {}
      <3>1. PICK x : M \subseteq L \union {x}
        BY <1>8, OneMoreLingers
      <3>2. Cardinality(M) <= Cardinality(L) + 1
        <4>1. /\ IsFiniteSet(L \union {x})
              /\ Cardinality(L \union {x}) \in {Cardinality(L), Cardinality(L) + 1}
          BY <1>1, FS_AddElement
        <4>2. Cardinality(M) <= Cardinality(L \union {x})
          BY <3>1, <4>1, FS_Subset
        <4> HIDE DEF L, M
        <4> QED
          BY <1>1, <4>1, <4>2
      <3>3. CASE req[w].latest = 0
        <4>1. E = D /\ unsettled' = unsettled + 1
          BY <1>5, <1>8, <2>2, <3>3 DEF Creates
        <4> HIDE DEF L, M, D, E
        <4> QED
          BY <1>1, <1>2, <3>2, <4>1
      <3>4. CASE req[w].latest # 0
        <4>1. E = D \union {w} /\ w \notin D /\ unsettled' = unsettled
          BY <1>5, <1>8, <3>4 DEF Creates, Demoting
        <4>2. Cardinality(E) = Cardinality(D) + 1
          BY <1>1, <4>1, Counting
        <4> HIDE DEF L, M, D, E
        <4> QED
          BY <1>1, <1>2, <3>2, <4>1, <4>2
      <3> QED
        BY <3>3, <3>4
    <2> QED
      BY <2>1, <2>2
  <1>9. ASSUME NEW w \in Writers, Retires(w) PROVE Goal
    <2> DEFINE l == req[w].latest
    <2>1. /\ l \in Held(revs) /\ l \in Ids /\ Held(revs') = Held(revs)
          /\ revs'[l].phase = Finish(req[w].seen)
          /\ \A i \in Ids \ {l} : revs'[i] = revs[i]
      BY <1>9, HeldAfter DEF Retires, Held
    <2>2. req[w].seen \in LivePhases /\ revs[l].phase = req[w].seen
      BY <1>9 DEF Retires, ListsBehind, IInv, CopiesCurrent, At
    <2>3. \E j \in Held(revs) : j > l
      <3>1. l < req[w].new /\ req[w].new \in Ids /\ \E j \in Held(revs) : j >= req[w].new
        BY <1>9 DEF Retires, IInv, RequestsInOrder, At
      <3> QED
        BY <2>1, <3>1 DEF Held
    <2>4. revs'[l].phase \notin LivePhases
      BY <2>1, <2>2 DEF Finish
    <2> HIDE DEF l
    <2>5. M = L \ {l} /\ l \in L
      BY <2>1, <2>2, <2>3, <2>4 DEF Lingering, Held
    <2>6. E = D \ {w} /\ w \in D /\ unsettled' = unsettled
      BY <1>5, <1>9 DEF Retires, Demoting
    <2>7. Cardinality(M) = Cardinality(L) - 1 /\ Cardinality(E) = Cardinality(D) - 1
      BY <1>1, <2>5, <2>6, Counting
    <2> HIDE DEF L, M, D, E
    <2> QED
      BY <1>1, <1>2, <2>6, <2>7
  <1>10. ASSUME NEW w \in Writers, NEW k \in Ids, Prunes(w, k) PROVE Goal
    <2>1. M \subseteq L
      BY <1>10, HeldAfter DEF Prunes, Lingering, Held
    <2>2. E = D /\ unsettled' = unsettled
      BY <1>5, <1>10 DEF Prunes
    <2> HIDE DEF L, M, D, E, Goal
    <2> QED
      BY <1>4, <2>1, <2>2
  <1>11. ASSUME Syncs PROVE Goal
    BY <1>4, <1>11 DEF Syncs
  <1> HIDE DEF Goal
  <1> QED
    BY <1>6, <1>7, <1>8, <1>9, <1>10, <1>11, Steps

----------------------------------------------------------------------------
(* The size of the history *)

\* Some revision of a list is its oldest.
LEMMA Oldest ==
    ASSUME NEW A \in SUBSET Ids, A # {}
    PROVE  \E m \in A : \A j \in A : m <= j
  <1> DEFINE Below(i) == {j \in A : j < i}
             R == StrictSubsetOrdering(Ids)
             S == FiniteSubsetsOf(Ids)
             T == {Below(i) : i \in A}
  <1>1. IsWellFoundedOn(R, S)
    BY FS_StrictSubsetOrderingWellFounded
  <1>2. T \subseteq S /\ T # {}
    <2>1. \A i \in A : Below(i) \in SUBSET Ids /\ IsFiniteSet(Below(i))
      BY Countable
    <2> QED
      BY <2>1 DEF FiniteSubsetsOf
  <1>3. PICK X \in T : \A Y \in T : <<Y, X>> \notin R
    BY <1>1, <1>2, WFMin
  <1>4. PICK m \in A : X = Below(m)
    BY <1>3
  <1>5. ASSUME NEW j \in A, j < m PROVE FALSE
    <2>1. Below(j) \subseteq X /\ j \in X /\ j \notin Below(j) /\ X \in SUBSET Ids
      BY <1>4, <1>5
    <2>2. <<Below(j), X>> \in R
      BY <2>1 DEF StrictSubsetOrdering
    <2> QED
      BY <1>3, <2>2
  <1>6. \A j \in A : m <= j
    BY <1>5
  <1> QED
    BY <1>6

\* What pruning a list spares is one less than the history's size at most.
LEMMA SparedAreFew ==
    ASSUME NEW L \in SUBSET Ids
    PROVE  Cardinality(L \ Surplus(L)) <= MaxHistory - 1
  <1> DEFINE A == L \ Surplus(L)
  <1>1. A \in SUBSET Ids /\ MaxHistory \in Nat /\ MaxHistory >= 1
    <2>1. A \subseteq L
      OBVIOUS
    <2>2. MaxHistory \in Nat /\ MaxHistory >= 1
      BY HistoryAssumption
    <2> HIDE DEF A, Ids
    <2> QED
      BY <2>1, <2>2
  <1>2. CASE A = {}
    BY <1>1, <1>2, FS_EmptySet
  <1>3. CASE A # {}
    <2>1. PICK m \in A : \A j \in A : m <= j
      BY <1>1, <1>3, Oldest
    <2> DEFINE B == {j \in L : j > m}
    <2>2. /\ B \in SUBSET Ids /\ IsFiniteSet(B) /\ Cardinality(B) \in Nat
          /\ IsFiniteSet(A) /\ Cardinality(A) \in Nat
      BY <1>1, Countable
    <2>3. Cardinality(B) < MaxHistory - 1
      BY <1>1, <2>1, <2>2 DEF Surplus
    <2>4. A \subseteq B \union {m} /\ m \notin B
      BY <1>1, <2>1
    <2> HIDE DEF A, B
    <2>5. IsFiniteSet(B \union {m}) /\ Cardinality(B \union {m}) = Cardinality(B) + 1
      BY <2>2, <2>4, FS_AddElement
    <2>6. Cardinality(A) <= Cardinality(B \union {m})
      BY <2>4, <2>5, FS_Subset
    <2>7. Cardinality(A) <= MaxHistory - 1
      BY <1>1, <2>2, <2>3, <2>5, <2>6
    <2> QED
      BY <2>7 DEF A
  <1> QED
    BY <1>2, <1>3

Owed(n) == unsettled + Cardinality(Debtors(req, n))
OwedNext(n) == unsettled' + Cardinality(Debtors(req', n))

\* The revisions others answer for are the fewer, the later one starts to count;
\* from 0 on, they are those of every request that is retiring or pruning.
LEMMA OwedFacts ==
    ASSUME IInv, IInv'
    PROVE  /\ \A n \in Nat : Owed(n) \in Nat /\ OwedNext(n) \in Nat
           /\ \A n, m \in Nat : n <= m => Owed(m) <= Owed(n) /\ OwedNext(m) <= OwedNext(n)
           /\ unsettled + Cardinality(At({"demote", "prune"})) = Owed(0)
           /\ unsettled' + Cardinality(At({"demote", "prune"})') = OwedNext(0)
  <1>1. /\ unsettled \in Nat /\ unsettled' \in Nat
        /\ \A v \in Writers : req[v] \in Request /\ req'[v] \in Request
    BY DEF IInv, TypeOK
  <1>2. \A v \in Writers : req[v].new \in Nat /\ req'[v].new \in Nat
    BY <1>1 DEF Request
  <1>3. \A n \in Nat : /\ Debtors(req, n) \in SUBSET Writers
                       /\ Debtors(req', n) \in SUBSET Writers
    BY DEF Debtors
  <1>4. \A n \in Nat : /\ IsFiniteSet(Debtors(req, n)) /\ Cardinality(Debtors(req, n)) \in Nat
                       /\ IsFiniteSet(Debtors(req', n)) /\ Cardinality(Debtors(req', n)) \in Nat
    BY <1>3, Countable
  <1>5. ASSUME NEW n \in Nat, NEW m \in Nat, n <= m
        PROVE  Owed(m) <= Owed(n) /\ OwedNext(m) <= OwedNext(n)
    <2>1. Debtors(req, m) \subseteq Debtors(req, n) /\ Debtors(req', m) \subseteq Debtors(req', n)
      BY <1>2, <1>5 DEF Debtors
    <2>2. /\ Cardinality(Debtors(req, m)) <= Cardinality(Debtors(req, n))
          /\ Cardinality(Debtors(req', m)) <= Cardinality(Debtors(req', n))
      BY <1>4, <2>1, FS_Subset
    <2> QED
      BY <1>1, <1>4, <2>2 DEF Owed, OwedNext
  <1>6. Debtors(req, 0) = At({"demote", "prune"})
    <2>1. \A v \in Writers : req[v].stage \in {"demote", "prune"} => req[v].new > 0
      BY DEF IInv, RequestsInOrder, At
    <2> QED
      BY <2>1 DEF Debtors, At
  <1>7. Debtors(req', 0) = At({"demote", "prune"})'
    <2>1. \A v \in Writers : req'[v].stage \in {"demote", "prune"} => req'[v].new > 0
      BY DEF IInv, RequestsInOrder, At
    <2> QED
      BY <2>1 DEF Debtors, At
  <1> QED
    <2>1. \A n \in Nat : Owed(n) \in Nat /\ OwedNext(n) \in Nat
      BY <1>1, <1>4 DEF Owed, OwedNext
    <2>2. unsettled + Cardinality(At({"demote", "prune"})) = Owed(0)
      BY <1>6 DEF Owed
    <2>3. unsettled' + Cardinality(At({"demote", "prune"})') = OwedNext(0)
      BY <1>7, Zenon DEF OwedNext
    <2> QED
      BY <1>5, <2>1, <2>2, <2>3

\* Two debtor sets of a step compare as the debts do.
LEMMA OwedCompare ==
    ASSUME IInv, IInv', NEW n \in Nat, NEW m \in Nat
    PROVE  /\ Debtors(req, m) \subseteq Debtors(req', n) /\ unsettled' >= unsettled =>
                  OwedNext(n) >= Owed(m)
           /\ Debtors(req, m) \subseteq Debtors(req', n) /\ unsettled' = unsettled + 1 =>
                  OwedNext(n) >= Owed(m) + 1
           /\ \A w \in Writers :
                /\ Debtors(req, m) \ {w} \subseteq Debtors(req', n) /\ unsettled' = unsettled + 1 =>
                      OwedNext(n) >= Owed(m)
                /\ Debtors(req, m) \union {w} \subseteq Debtors(req', n)
                      /\ w \notin Debtors(req, m) /\ unsettled' = unsettled =>
                      OwedNext(n) >= Owed(m) + 1
  <1> DEFINE D == Debtors(req, m)
             E == Debtors(req', n)
  <1>1. /\ IsFiniteSet(D) /\ Cardinality(D) \in Nat /\ IsFiniteSet(E) /\ Cardinality(E) \in Nat
        /\ unsettled \in Nat /\ unsettled' \in Nat
    BY Countable DEF Debtors, IInv, TypeOK
  <1> HIDE DEF D, E
  <1>2. D \subseteq E => Cardinality(D) <= Cardinality(E)
    BY <1>1, FS_Subset
  <1>3. ASSUME NEW w \in Writers, D \ {w} \subseteq E
        PROVE  Cardinality(D) - 1 <= Cardinality(E)
    <2>1. Cardinality(D \ {w}) \in {Cardinality(D), Cardinality(D) - 1}
      BY <1>1, FS_RemoveElement
    <2>2. Cardinality(D \ {w}) <= Cardinality(E)
      BY <1>1, <1>3, FS_Subset
    <2> QED
      BY <1>1, <2>1, <2>2
  <1>4. ASSUME NEW w \in Writers, D \union {w} \subseteq E, w \notin D
        PROVE  Cardinality(D) + 1 <= Cardinality(E)
    <2>1. Cardinality(D \union {w}) = Cardinality(D) + 1
      BY <1>1, <1>4, FS_AddElement
    <2>2. Cardinality(D \union {w}) <= Cardinality(E)
      BY <1>1, <1>4, FS_Subset
    <2> QED
      BY <1>1, <2>1, <2>2
  <1>5. /\ D \subseteq E /\ unsettled' >= unsettled => OwedNext(n) >= Owed(m)
        /\ D \subseteq E /\ unsettled' = unsettled + 1 => OwedNext(n) >= Owed(m) + 1
    BY <1>1, <1>2 DEF Owed, OwedNext, D, E
  <1>6. ASSUME NEW w \in Writers
        PROVE  /\ D \ {w} \subseteq E /\ unsettled' = unsettled + 1 => OwedNext(n) >= Owed(m)
               /\ D \union {w} \subseteq E /\ w \notin D /\ unsettled' = unsettled =>
                      OwedNext(n) >= Owed(m) + 1
    <2>1. Owed(m) = unsettled + Cardinality(D) /\ OwedNext(n) = unsettled' + Cardinality(E)
      BY DEF Owed, OwedNext, D, E
    <2>2. D \ {w} \subseteq E /\ unsettled' = unsettled + 1 => OwedNext(n) >= Owed(m)
      BY <1>1, <1>3, <2>1
    <2>3. D \union {w} \subseteq E /\ w \notin D /\ unsettled' = unsettled =>
                      OwedNext(n) >= Owed(m) + 1
      BY <1>1, <1>4, <2>1
    <2> QED
      BY <2>2, <2>3
  <1> QED
    BY <1>5, <1>6 DEF D, E

\* The other requests answer for as much after a step as before it.
LEMMA OthersOwe ==
    ASSUME IInv, NEW w \in Writers, Others(w), NEW n \in Nat, NEW m \in Nat, n <= m
    PROVE  /\ Debtors(req, m) \ {w} \subseteq Debtors(req', n)
           /\ w \notin Debtors(req, m) => Debtors(req, m) \subseteq Debtors(req', n)
  <1>1. ASSUME NEW v \in Writers, v # w, v \in Debtors(req, m)
        PROVE  v \in Debtors(req', n)
    <2>1. Keeps(req'[v], req[v])
      BY <1>1 DEF Others
    <2>2. req[v].new \in Nat /\ (req[v].new > m => req[v].new > n)
      BY DEF IInv, TypeOK, Request
    <2> QED
      BY <1>1, <2>1, <2>2 DEF Debtors, Keeps
  <1> QED
    BY <1>1 DEF Debtors

\* How a step changes what the requests answer for.  Finishing a request takes
\* it off the account only of what is older than its own revision.
LEMMA DebtAfter ==
    ASSUME IInv, IInv', NEW n \in Nat
    PROVE  /\ Syncs => OwedNext(n) >= Owed(n)
           /\ \A w \in Writers :
                /\ Calm(w) \/ Lists(w) \/ Creates(w) => OwedNext(n) >= Owed(n)
                /\ /\ Creates(w)
                   /\ \/ req[w].latest = 0 /\ Held(revs) # {}
                      \/ req[w].latest # 0 /\ (~req[w].fresh \/ req[w].new > n)
                   => OwedNext(n) >= Owed(n) + 1
                /\ Retires(w) \/ (\E k \in Ids : Prunes(w, k)) =>
                     /\ req'[w].stage = "prune" \/ req[w].new <= n => OwedNext(n) >= Owed(n)
                     /\ n <= req[w].new => OwedNext(n) >= Owed(req[w].new)
  <1>1. unsettled \in Nat /\ n <= n
    BY DEF IInv, TypeOK
  <1>2. ASSUME Syncs PROVE OwedNext(n) >= Owed(n)
    BY <1>1, <1>2, OwedCompare DEF Syncs
  <1>3. ASSUME NEW w \in Writers, Calm(w) PROVE OwedNext(n) >= Owed(n)
    <2>1. Others(w)
      BY <1>3 DEF Calm
    <2>2. CASE Keeps(req'[w], req[w]) /\ unsettled' = unsettled
      <3>1. w \in Debtors(req, n) => w \in Debtors(req', n)
        BY <2>2 DEF Debtors, Keeps
      <3>2. Debtors(req, n) \subseteq Debtors(req', n)
        BY <1>1, <2>1, <3>1, OthersOwe
      <3> QED
        BY <1>1, <2>2, <3>2, OwedCompare
    <2>3. CASE /\ req'[w].stage \notin Recording
               /\ req[w].stage \in {"demote", "prune"} /\ unsettled' = unsettled + 1
      <3>1. Debtors(req, n) \ {w} \subseteq Debtors(req', n)
        BY <1>1, <2>1, OthersOwe
      <3> QED
        BY <2>3, <3>1, OwedCompare
    <2>4. CASE req[w].stage \notin {"demote", "prune"} /\ unsettled' = unsettled
      <3>1. w \notin Debtors(req, n)
        BY <2>4 DEF Debtors
      <3>2. Debtors(req, n) \subseteq Debtors(req', n)
        BY <1>1, <2>1, <3>1, OthersOwe
      <3> QED
        BY <1>1, <2>4, <3>2, OwedCompare
    <2> QED
      BY <1>3, <2>2, <2>3, <2>4 DEF Calm
  <1>4. ASSUME NEW w \in Writers, Lists(w) PROVE OwedNext(n) >= Owed(n)
    <2>1. Others(w) /\ w \notin Debtors(req, n) /\ unsettled' = unsettled
      BY <1>4 DEF Lists, Debtors
    <2>2. Debtors(req, n) \subseteq Debtors(req', n)
      BY <1>1, <2>1, OthersOwe
    <2> QED
      BY <1>1, <2>1, <2>2, OwedCompare
  <1>5. ASSUME NEW w \in Writers, Creates(w)
        PROVE  /\ OwedNext(n) >= Owed(n)
               /\ \/ req[w].latest = 0 /\ Held(revs) # {}
                  \/ req[w].latest # 0 /\ (~req[w].fresh \/ req[w].new > n)
                  => OwedNext(n) >= Owed(n) + 1
    <2>1. /\ Others(w) /\ w \notin Debtors(req, n)
          /\ unsettled' = IF req[w].latest = 0 /\ Held(revs) # {} THEN unsettled + 1
                                                                  ELSE unsettled
      BY <1>5 DEF Creates, Debtors
    <2>2. Debtors(req, n) \subseteq Debtors(req', n)
      BY <1>1, <2>1, OthersOwe
    <2>3. OwedNext(n) >= Owed(n)
      BY <1>1, <2>1, <2>2, OwedCompare
    <2>4. ASSUME req[w].latest = 0, Held(revs) # {} PROVE OwedNext(n) >= Owed(n) + 1
      BY <2>1, <2>2, <2>4, OwedCompare
    <2>5. ASSUME req[w].latest # 0, ~req[w].fresh \/ req[w].new > n
          PROVE  OwedNext(n) >= Owed(n) + 1
      <3>1. req'[w].stage = "demote" /\ req'[w].new = req[w].new /\ req'[w].fresh = req[w].fresh
        BY <1>5, <2>5 DEF Creates
      <3>2. w \in Debtors(req', n)
        BY <2>5, <3>1 DEF Debtors
      <3>3. Debtors(req, n) \union {w} \subseteq Debtors(req', n) /\ unsettled' = unsettled
        BY <2>1, <2>2, <2>5, <3>2
      <3> QED
        BY <2>1, <3>3, OwedCompare
    <2> QED
      BY <2>3, <2>4, <2>5
  <1>6. ASSUME NEW w \in Writers, Retires(w) \/ \E k \in Ids : Prunes(w, k)
        PROVE  /\ req'[w].stage = "prune" \/ req[w].new <= n => OwedNext(n) >= Owed(n)
               /\ n <= req[w].new => OwedNext(n) >= Owed(req[w].new)
    <2>1. /\ Others(w) /\ unsettled' = unsettled /\ req[w].new \in Nat
          /\ req[w].stage = "prune" \/ (req[w].stage = "demote" /\ req[w].fresh)
          /\ req'[w].stage = "prune" => req'[w].new = req[w].new
      BY <1>6 DEF Retires, Prunes, IInv, TypeOK, Request
    <2>2. ASSUME req'[w].stage = "prune" PROVE OwedNext(n) >= Owed(n)
      <3>1. w \in Debtors(req, n) => w \in Debtors(req', n)
        BY <2>1, <2>2 DEF Debtors
      <3>2. Debtors(req, n) \subseteq Debtors(req', n)
        BY <1>1, <2>1, <3>1, OthersOwe
      <3> QED
        BY <1>1, <2>1, <3>2, OwedCompare
    <2>3. ASSUME NEW m \in Nat, req[w].new <= m, n <= m PROVE OwedNext(n) >= Owed(m)
      <3>1. w \notin Debtors(req, m)
        BY <2>1, <2>3 DEF Debtors
      <3>2. Debtors(req, m) \subseteq Debtors(req', n)
        BY <2>1, <2>3, <3>1, OthersOwe
      <3> QED
        BY <1>1, <2>1, <3>2, OwedCompare
    <2> QED
      BY <1>1, <2>1, <2>2, <2>3
  <1> QED
    BY <1>2, <1>3, <1>4, <1>5, <1>6

\* The parts of ExcessAccounted, for a debt d.
CacheSpared(rs, c, cf, d) ==
    \A l \in cf : Newest(l, Held(c)) /\ l + 1 \notin Held(rs) =>
        Cardinality(Held(rs) \ Surplus(Held(c))) <= MaxHistory - 1 + d

CreateSpared(rs, q, d) ==
    q.stage = "create" /\ q.fresh /\ q.new \notin Held(rs) =>
        Cardinality(Held(rs) \ q.todo) <= MaxHistory - 1 + d

PruneSpared(rs, q, d) ==
    q.stage = "prune" \/ (q.stage = "demote" /\ q.fresh) =>
        Cardinality(Held(rs) \ q.todo) <= MaxHistory + d

LEMMA ExcessParts ==
    ASSUME IInv, IInv', ~forsaken, ~forsaken'
    PROVE  /\ ExcessAccounted /\ HistoryBounded =>
                /\ CacheSpared(revs, cache, cacheFresh, Owed(MaxId))
                /\ \A v \in Writers : /\ CreateSpared(revs, req[v], Owed(MaxId))
                                      /\ PruneSpared(revs, req[v], Owed(req[v].new))
                /\ Cardinality(Held(revs)) <= MaxHistory + Owed(0)
           /\ /\ CacheSpared(revs', cache', cacheFresh', OwedNext(MaxId))
              /\ \A v \in Writers : /\ CreateSpared(revs', req'[v], OwedNext(MaxId))
                                    /\ PruneSpared(revs', req'[v], OwedNext(req'[v].new))
              /\ Cardinality(Held(revs')) <= MaxHistory + OwedNext(0)
              => ExcessAccounted' /\ HistoryBounded'
  <1>1. ASSUME ExcessAccounted, HistoryBounded
        PROVE  /\ CacheSpared(revs, cache, cacheFresh, Owed(MaxId))
               /\ \A v \in Writers : /\ CreateSpared(revs, req[v], Owed(MaxId))
                                     /\ PruneSpared(revs, req[v], Owed(req[v].new))
               /\ Cardinality(Held(revs)) <= MaxHistory + Owed(0)
    <2>1. CacheSpared(revs, cache, cacheFresh, Owed(MaxId))
      BY <1>1 DEF ExcessAccounted, CacheSpared, Owed, Debt
    <2>2. ASSUME NEW v \in Writers
          PROVE  /\ CreateSpared(revs, req[v], Owed(MaxId))
                 /\ PruneSpared(revs, req[v], Owed(req[v].new))
      BY <1>1 DEF ExcessAccounted, CreateSpared, PruneSpared, Owed, Debt, At
    <2>3. Cardinality(Held(revs)) <= MaxHistory + Owed(0)
      <3>1. Cardinality(At({"demote", "prune"})) \in Nat /\ unsettled \in Nat
            /\ Cardinality(Held(revs)) \in Nat /\ MaxHistory \in Nat
        BY Countable, HistoryAssumption DEF At, Held, IInv, TypeOK
      <3>2. unsettled + Cardinality(At({"demote", "prune"})) = Owed(0)
        BY OwedFacts
      <3> QED
        BY <1>1, <3>1, <3>2 DEF HistoryBounded
    <2> QED
      BY <2>1, <2>2, <2>3
  <1>2. ASSUME /\ CacheSpared(revs', cache', cacheFresh', OwedNext(MaxId))
               /\ \A v \in Writers : /\ CreateSpared(revs', req'[v], OwedNext(MaxId))
                                     /\ PruneSpared(revs', req'[v], OwedNext(req'[v].new))
               /\ Cardinality(Held(revs')) <= MaxHistory + OwedNext(0)
        PROVE  ExcessAccounted' /\ HistoryBounded'
    <2>1. ExcessAccounted'
      <3>1. (\A l \in cacheFresh : Newest(l, Held(cache)) /\ l + 1 \notin Held(revs) =>
                Cardinality(Held(revs) \ Surplus(Held(cache))) <= MaxHistory - 1 + Debt(MaxId))'
        BY <1>2 DEF CacheSpared, OwedNext, Debt, Held, Newest, Surplus
      <3>2. (\A w \in At({"create"}) : req[w].fresh /\ req[w].new \notin Held(revs) =>
                Cardinality(Held(revs) \ req[w].todo) <= MaxHistory - 1 + Debt(MaxId))'
        BY <1>2 DEF CreateSpared, OwedNext, Debt, Held, At
      <3>3. (\A w \in At({"demote", "prune"}) : req[w].stage = "prune" \/ req[w].fresh =>
                Cardinality(Held(revs) \ req[w].todo) <= MaxHistory + Debt(req[w].new))'
        BY <1>2 DEF PruneSpared, OwedNext, Debt, Held, At
      <3> QED
        BY <3>1, <3>2, <3>3, Zenon DEF ExcessAccounted
    <2>2. HistoryBounded'
      <3> DEFINE a == Cardinality(At({"demote", "prune"}))
                 h == Cardinality(Held(revs))
      <3>1. a' \in Nat /\ unsettled' \in Nat /\ h' \in Nat /\ MaxHistory \in Nat
        BY Countable, HistoryAssumption DEF At, Held, IInv, TypeOK
      <3>2. a' = OwedNext(0) - unsettled' /\ OwedNext(0) \in Nat
        BY <3>1, OwedFacts
      <3>3. h' <= MaxHistory + OwedNext(0)
        BY <1>2 DEF Held
      <3> HIDE DEF a, h
      <3>4. h' <= MaxHistory + a' + unsettled'
        BY <3>1, <3>2, <3>3
      <3> QED
        BY <3>4 DEF HistoryBounded, a, h
    <2> QED
      BY <2>1, <2>2
  <1> QED
    BY <1>1, <1>2

\* What fitted still fits when it shrinks, when the debt grows, and when one
\* revision joins it while the debt grows by one.
LEMMA StillFits ==
    ASSUME NEW T \in SUBSET Ids, NEW k \in Int, NEW d \in Nat, NEW e \in Nat,
           Cardinality(T) <= k + d
    PROVE  /\ \A S \in SUBSET T : d <= e => Cardinality(S) <= k + e
           /\ \A S \in SUBSET Ids, x \in Ids :
                S \subseteq T \union {x} /\ d + 1 <= e => Cardinality(S) <= k + e
           /\ \A S \in SUBSET Ids, x \in Ids :
                S \subseteq T \union {x} /\ d <= e => Cardinality(S) <= k + 1 + e
  <1>1. IsFiniteSet(T) /\ Cardinality(T) \in Nat
    BY Countable
  <1>2. ASSUME NEW S \in SUBSET T, d <= e PROVE Cardinality(S) <= k + e
    <2>1. Cardinality(S) <= Cardinality(T) /\ Cardinality(S) \in Nat
      BY <1>1, FS_Subset, FS_CardinalityType
    <2> QED
      BY <1>1, <1>2, <2>1
  <1>3. ASSUME NEW S \in SUBSET Ids, NEW x \in Ids, S \subseteq T \union {x}
        PROVE  Cardinality(S) <= Cardinality(T) + 1 /\ Cardinality(S) \in Nat
    <2>1. /\ IsFiniteSet(T \union {x})
          /\ Cardinality(T \union {x}) \in {Cardinality(T), Cardinality(T) + 1}
      BY <1>1, FS_AddElement
    <2>2. Cardinality(S) <= Cardinality(T \union {x}) /\ Cardinality(S) \in Nat
      BY <1>3, <2>1, FS_Subset, Countable
    <2> QED
      BY <1>1, <2>1, <2>2
  <1> HIDE DEF Ids
  <1> QED
    BY <1>1, <1>2, <1>3

Accounted == ExcessAccounted /\ HistoryBounded

LEMMA Numbers ==
    ASSUME IInv
    PROVE  /\ MaxId \in Nat /\ 0 \in Nat /\ MaxHistory \in Int /\ MaxHistory - 1 \in Int
           /\ \A v \in Writers : req[v].new \in Nat
  <1>1. \A v \in Writers : req[v] \in Request
    BY DEF IInv, TypeOK
  <1>2. \A v \in Writers : req[v].new \in Nat
    BY <1>1, LimitsAssumption DEF Request
  <1> QED
    BY <1>2, HistoryAssumption, LimitsAssumption

\* What a step that creates nothing leaves as it was: the account of the cache
\* and of a request that goes on as before.
LEMMA SparedStill ==
    ASSUME IInv, IInv', ~forsaken, ~forsaken', Accounted, Held(revs') \subseteq Held(revs)
    PROVE  /\ /\ OwedNext(MaxId) >= Owed(MaxId) /\ cache' = cache
              /\ \A l \in cacheFresh' : /\ l \in cacheFresh
                                        /\ Newest(l, Held(cache)) /\ l + 1 \notin Held(revs')
                                              => l + 1 \notin Held(revs)
              => CacheSpared(revs', cache', cacheFresh', OwedNext(MaxId))
           /\ \A v \in Writers : Keeps(req'[v], req[v]) =>
                /\ /\ OwedNext(MaxId) >= Owed(MaxId)
                   /\ req[v].stage = "create" /\ req[v].fresh /\ req[v].new \notin Held(revs')
                         => req[v].new \notin Held(revs)
                   => CreateSpared(revs', req'[v], OwedNext(MaxId))
                /\ OwedNext(req[v].new) >= Owed(req[v].new)
                   => PruneSpared(revs', req'[v], OwedNext(req'[v].new))
           /\ OwedNext(0) >= Owed(0) => Cardinality(Held(revs')) <= MaxHistory + OwedNext(0)
  <1>1. /\ CacheSpared(revs, cache, cacheFresh, Owed(MaxId))
        /\ \A v \in Writers : /\ CreateSpared(revs, req[v], Owed(MaxId))
                              /\ PruneSpared(revs, req[v], Owed(req[v].new))
        /\ Cardinality(Held(revs)) <= MaxHistory + Owed(0)
    BY ExcessParts DEF Accounted
  <1>2. /\ Held(revs) \in SUBSET Ids /\ MaxHistory \in Int /\ MaxHistory - 1 \in Int
        /\ MaxId \in Nat /\ 0 \in Nat /\ \A v \in Writers : req[v].new \in Nat
        /\ \A n \in Nat : Owed(n) \in Nat /\ OwedNext(n) \in Nat
    BY OwedFacts, Numbers DEF Held
  <1>3. ASSUME NEW X, NEW k \in Int, NEW n \in Nat, OwedNext(n) >= Owed(n),
               Cardinality(Held(revs) \ X) <= k + Owed(n)
        PROVE  Cardinality(Held(revs') \ X) <= k + OwedNext(n)
    <2>1. /\ Held(revs) \ X \in SUBSET Ids
          /\ Held(revs') \ X \in SUBSET (Held(revs) \ X)
      BY <1>2
    <2>2. Owed(n) <= OwedNext(n) /\ Owed(n) \in Nat /\ OwedNext(n) \in Nat
      BY <1>2, <1>3
    <2> HIDE DEF Ids
    <2> QED
      BY <1>3, <2>1, <2>2, StillFits
  <1>4. ASSUME OwedNext(MaxId) >= Owed(MaxId), cache' = cache,
               \A l \in cacheFresh' : /\ l \in cacheFresh
                                      /\ Newest(l, Held(cache)) /\ l + 1 \notin Held(revs')
                                            => l + 1 \notin Held(revs)
        PROVE  CacheSpared(revs', cache', cacheFresh', OwedNext(MaxId))
    BY <1>1, <1>2, <1>3, <1>4 DEF CacheSpared
  <1>5. ASSUME NEW v \in Writers, Keeps(req'[v], req[v]), OwedNext(MaxId) >= Owed(MaxId),
               req[v].stage = "create" /\ req[v].fresh /\ req[v].new \notin Held(revs')
                   => req[v].new \notin Held(revs)
        PROVE  CreateSpared(revs', req'[v], OwedNext(MaxId))
    <2>1. CreateSpared(revs, req[v], Owed(MaxId))
      BY <1>1
    <2> QED
      BY <2>1, <1>2, <1>3, <1>5 DEF CreateSpared, Keeps
  <1>6. ASSUME NEW v \in Writers, Keeps(req'[v], req[v]),
               OwedNext(req[v].new) >= Owed(req[v].new)
        PROVE  PruneSpared(revs', req'[v], OwedNext(req'[v].new))
    <2>1. PruneSpared(revs, req[v], Owed(req[v].new))
      BY <1>1
    <2> QED
      BY <2>1, <1>2, <1>3, <1>6 DEF PruneSpared, Keeps
  <1>7. ASSUME OwedNext(0) >= Owed(0)
        PROVE  Cardinality(Held(revs')) <= MaxHistory + OwedNext(0)
    <2>1. Held(revs) \ {} = Held(revs) /\ Held(revs') \ {} = Held(revs')
      OBVIOUS
    <2>2. Cardinality(Held(revs) \ {}) <= MaxHistory + Owed(0)
      BY <1>1, <2>1
    <2>3. Cardinality(Held(revs') \ {}) <= MaxHistory + OwedNext(0)
      BY <1>2, <1>3, <1>7, <2>2
    <2> QED
      BY <2>1, <2>3
  <1> QED
    BY <1>4, <1>5, <1>6, <1>7

\* A request that goes on, ends, or lists the history.
LEMMA CalmAccounted ==
    ASSUME IInv, IInv', ~forsaken, ~forsaken', Accounted, NEW w \in Writers, Calm(w) \/ Lists(w)
    PROVE  Accounted'
  <1>1. /\ Held(revs') = Held(revs)
        /\ \A n \in Nat : OwedNext(n) >= Owed(n)
        /\ MaxId \in Nat /\ 0 \in Nat /\ \A v \in Writers : req[v].new \in Nat
    BY HeldAfter, DebtAfter, Numbers
  <1>2. cache' = cache /\ cacheFresh' \subseteq cacheFresh /\ Others(w)
    BY DEF Calm, Lists, SameCache
  <1>3. /\ CacheSpared(revs', cache', cacheFresh', OwedNext(MaxId))
        /\ Cardinality(Held(revs')) <= MaxHistory + OwedNext(0)
        /\ \A v \in Writers : Keeps(req'[v], req[v]) =>
              /\ CreateSpared(revs', req'[v], OwedNext(MaxId))
              /\ PruneSpared(revs', req'[v], OwedNext(req'[v].new))
    BY <1>1, <1>2, SparedStill
  <1>4. ASSUME NEW v \in Writers, req'[v].stage \notin Recording
        PROVE  /\ CreateSpared(revs', req'[v], OwedNext(MaxId))
               /\ PruneSpared(revs', req'[v], OwedNext(req'[v].new))
    BY <1>4 DEF CreateSpared, PruneSpared, Recording
  <1>5. ASSUME Lists(w)
        PROVE  /\ CreateSpared(revs', req'[w], OwedNext(MaxId))
               /\ PruneSpared(revs', req'[w], OwedNext(req'[w].new))
    <2>1. PruneSpared(revs', req'[w], OwedNext(req'[w].new))
      BY <1>5 DEF Lists, PruneSpared
    <2>2. CASE ~req'[w].fresh
      BY <2>1, <2>2 DEF CreateSpared
    <2>3. CASE req'[w].fresh
      <3>1. /\ Newest(req'[w].latest, Held(cache)) /\ req'[w].latest \in cacheFresh'
            /\ req'[w].new = req'[w].latest + 1 /\ req'[w].todo = Surplus(Held(cache))
        BY <1>5, <2>3 DEF Lists
      <3>2. CreateSpared(revs', req'[w], OwedNext(MaxId))
        BY <1>2, <1>3, <3>1 DEF CacheSpared, CreateSpared
      <3> QED
        BY <2>1, <3>2
    <2> QED
      BY <2>2, <2>3
  <1>6. \A v \in Writers : /\ CreateSpared(revs', req'[v], OwedNext(MaxId))
                           /\ PruneSpared(revs', req'[v], OwedNext(req'[v].new))
    BY <1>2, <1>3, <1>4, <1>5 DEF Calm, Others
  <1> QED
    BY <1>3, <1>6, ExcessParts DEF Accounted

\* The cache takes over the history: what a list of it would spare is few.
LEMMA SyncAccounted ==
    ASSUME IInv, IInv', ~forsaken, ~forsaken', Accounted, Syncs
    PROVE  Accounted'
  <1>1. /\ Held(revs') = Held(revs) /\ Held(cache') = Held(revs) /\ Held(revs) \in SUBSET Ids
        /\ \A n \in Nat : OwedNext(n) >= Owed(n) /\ OwedNext(n) \in Nat
        /\ MaxId \in Nat /\ 0 \in Nat /\ \A v \in Writers : req[v].new \in Nat
    BY HeldAfter, DebtAfter, OwedFacts, Numbers
  <1>2. \A v \in Writers : Keeps(req'[v], req[v])
    BY KeepsItself DEF Syncs
  <1>3. /\ Cardinality(Held(revs')) <= MaxHistory + OwedNext(0)
        /\ \A v \in Writers : /\ CreateSpared(revs', req'[v], OwedNext(MaxId))
                              /\ PruneSpared(revs', req'[v], OwedNext(req'[v].new))
    BY <1>1, <1>2, SparedStill
  <1>4. Cardinality(Held(revs') \ Surplus(Held(cache'))) <= MaxHistory - 1 + OwedNext(MaxId)
    <2>1. Cardinality(Held(revs) \ Surplus(Held(revs))) <= MaxHistory - 1
      BY <1>1, SparedAreFew
    <2>2. Cardinality(Held(revs) \ Surplus(Held(revs))) \in Nat
      <3>1. Held(revs) \ Surplus(Held(revs)) \in SUBSET Ids
        BY <1>1
      <3> QED
        BY <3>1, Countable
    <2> QED
      BY <1>1, <2>1, <2>2, HistoryAssumption
  <1> QED
    BY <1>3, <1>4, ExcessParts DEF Accounted, CacheSpared

\* A new revision.  Made from a current copy of the newest one, it stays within
\* what the cache and the other requests spare; else it is on the account.
LEMMA CreateAccounted ==
    ASSUME IInv, IInv', ~forsaken, ~forsaken', ListsBehind, BasesAreNewest, Accounted, NEW w \in Writers, Creates(w)
    PROVE  Accounted'
  <1> DEFINE H == Held(revs)
             x == req[w].new
  <1>1. /\ H \in SUBSET Ids /\ Held(revs') = H \union {x} /\ x \in Ids /\ x \notin H
        /\ SameCache /\ Others(w)
    BY HeldAfter DEF Creates
  <1>2. /\ CacheSpared(revs, cache, cacheFresh, Owed(MaxId))
        /\ \A v \in Writers : /\ CreateSpared(revs, req[v], Owed(MaxId))
                              /\ PruneSpared(revs, req[v], Owed(req[v].new))
        /\ Cardinality(H) <= MaxHistory + Owed(0)
    BY ExcessParts DEF Accounted
  <1>3. /\ MaxId \in Nat /\ 0 \in Nat /\ MaxHistory \in Int /\ MaxHistory - 1 \in Int
        /\ \A v \in Writers : req[v].new \in Nat
        /\ \A n \in Nat : Owed(n) \in Nat /\ OwedNext(n) \in Nat
    BY OwedFacts, Numbers
  <1> DEFINE Goal == /\ CacheSpared(revs', cache', cacheFresh', OwedNext(MaxId))
                     /\ \A v \in Writers :
                           /\ CreateSpared(revs', req'[v], OwedNext(MaxId))
                           /\ PruneSpared(revs', req'[v], OwedNext(req'[v].new))
                     /\ Cardinality(Held(revs')) <= MaxHistory + OwedNext(0)
  <1> HIDE DEF H, x
  <1>4. ASSUME NEW X, NEW k \in Int, NEW n \in Nat, OwedNext(n) >= Owed(n) + 1,
               Cardinality(H \ X) <= k + Owed(n)
        PROVE  Cardinality(Held(revs') \ X) <= k + OwedNext(n)
    <2>1. /\ H \ X \in SUBSET Ids /\ Held(revs') \ X \in SUBSET Ids
          /\ Held(revs') \ X \subseteq (H \ X) \union {x}
      BY <1>1
    <2>2. Owed(n) + 1 <= OwedNext(n) /\ Owed(n) \in Nat /\ OwedNext(n) \in Nat
      BY <1>3, <1>4
    <2> HIDE DEF Ids
    <2> QED
      BY <1>1, <1>4, <2>1, <2>2, StillFits
  <1>5. ASSUME NEW v \in Writers, Keeps(req'[v], req[v]),
               OwedNext(req[v].new) >= Owed(req[v].new) + 1
        PROVE  PruneSpared(revs', req'[v], OwedNext(req'[v].new))
    <2>1. PruneSpared(revs, req[v], Owed(req[v].new))
      BY <1>2
    <2> QED
      BY <2>1, <1>3, <1>4, <1>5 DEF PruneSpared, Keeps, H
  <1>6. ASSUME OwedNext(0) >= Owed(0) + 1
        PROVE  Cardinality(Held(revs')) <= MaxHistory + OwedNext(0)
    <2>1. H \ {} = H /\ Held(revs') \ {} = Held(revs')
      OBVIOUS
    <2>2. Cardinality(H \ {}) <= MaxHistory + Owed(0)
      BY <1>2, <2>1
    <2>3. Cardinality(Held(revs') \ {}) <= MaxHistory + OwedNext(0)
      BY <1>3, <1>4, <1>6, <2>2
    <2> QED
      BY <2>1, <2>3
  <1>7. ASSUME \A n \in Nat : OwedNext(n) >= Owed(n) + 1,
               req'[w].stage = "store" \/ (req'[w].stage = "demote" /\ ~req'[w].fresh)
        PROVE  Goal
    <2>1. CacheSpared(revs', cache', cacheFresh', OwedNext(MaxId))
      BY <1>1, <1>2, <1>3, <1>4, <1>7 DEF CacheSpared, SameCache, H
    <2>2. ASSUME NEW v \in Writers, v # w
          PROVE  /\ CreateSpared(revs', req'[v], OwedNext(MaxId))
                 /\ PruneSpared(revs', req'[v], OwedNext(req'[v].new))
      <3>1. Keeps(req'[v], req[v])
        BY <1>1, <2>2 DEF Others
      <3>2. CreateSpared(revs, req[v], Owed(MaxId)) /\ (x \notin H => H \subseteq Held(revs'))
        BY <1>1, <1>2
      <3>3. CreateSpared(revs', req'[v], OwedNext(MaxId))
        BY <1>1, <1>3, <1>4, <1>7, <3>1, <3>2 DEF CreateSpared, Keeps, H
      <3> QED
        BY <1>3, <1>5, <1>7, <3>1, <3>3
    <2>3. /\ CreateSpared(revs', req'[w], OwedNext(MaxId))
          /\ PruneSpared(revs', req'[w], OwedNext(req'[w].new))
      BY <1>7 DEF CreateSpared, PruneSpared
    <2> QED
      BY <1>3, <1>6, <1>7, <2>1, <2>2, <2>3
  <1>8. ASSUME req[w].latest = 0, H # {} PROVE Goal
    <2>1. \A n \in Nat : OwedNext(n) >= Owed(n) + 1
      BY <1>8, DebtAfter DEF H
    <2> QED
      BY <1>7, <1>8, <2>1 DEF Creates
  <1>9. ASSUME req[w].latest # 0, ~req[w].fresh PROVE Goal
    <2>1. \A n \in Nat : OwedNext(n) >= Owed(n) + 1
      BY <1>9, DebtAfter
    <2> QED
      BY <1>7, <1>9, <2>1 DEF Creates
  <1>10. ASSUME req[w].latest = 0, H = {} PROVE Goal
    <2>1. CacheSpared(revs', cache', cacheFresh', OwedNext(MaxId))
      <3>1. \A l \in Held(cache) : FALSE
        BY <1>10 DEF IInv, BootIsBehind, Reaches, Held, H
      <3> QED
        BY <1>1, <3>1 DEF CacheSpared, SameCache, Newest
    <2>2. ASSUME NEW v \in Writers, v # w
          PROVE  /\ CreateSpared(revs', req'[v], OwedNext(MaxId))
                 /\ PruneSpared(revs', req'[v], OwedNext(req'[v].new))
      <3>1. Keeps(req'[v], req[v])
        BY <1>1, <2>2 DEF Others
      <3>2. req[v].stage = "create" => ~req[v].fresh
        <4>1. \A l \in Bases : FALSE
          BY <1>10, BasesHeld DEF H
        <4> QED
          BY <4>1 DEF Bases, At
      <3>3. req[v].stage \notin {"demote", "prune"}
        BY <1>10 DEF IInv, RequestsInOrder, At, H
      <3> QED
        BY <3>1, <3>2, <3>3 DEF Keeps, CreateSpared, PruneSpared
    <2>3. /\ CreateSpared(revs', req'[w], OwedNext(MaxId))
          /\ PruneSpared(revs', req'[w], OwedNext(req'[w].new))
      BY <1>10 DEF Creates, CreateSpared, PruneSpared
    <2>4. Cardinality(Held(revs')) <= MaxHistory + OwedNext(0)
      <3>1. Held(revs') = {x} /\ Cardinality({x}) = 1
        BY <1>1, <1>10, FS_Singleton
      <3> QED
        BY <1>3, <3>1, HistoryAssumption
    <2> QED
      BY <2>1, <2>2, <2>3, <2>4
  <1>11. ASSUME req[w].latest # 0, req[w].fresh PROVE Goal
    <2> DEFINE b == req[w].latest
    <2>1. /\ b \in Bases /\ b \in Ids /\ x = b + 1 /\ req[w].stage = "create"
          /\ Newest(b, H)
      <3>1. b \in Bases /\ x = b + 1 /\ req[w].stage = "create"
        BY <1>11 DEF Creates, Bases, ListsBehind, At, x
      <3>2. b \in Ids /\ Newest(b, H)
        BY <1>1, <3>1, BasesHeld DEF BasesAreNewest, H
      <3> QED
        BY <3>1, <3>2
    <2> HIDE DEF b
    <2>2. ASSUME NEW l \in Bases PROVE l + 1 \in Held(revs')
      <3>1. l \in Ids /\ l \in H /\ (l + 1 \notin H => Newest(l, H))
        BY BasesHeld DEF BasesAreNewest, H
      <3>2. Newest(l, H) => l = b
        BY <1>1, <2>1, <3>1 DEF Newest
      <3> QED
        BY <1>1, <2>1, <3>1, <3>2
    <2>3. CacheSpared(revs', cache', cacheFresh', OwedNext(MaxId))
      <3>1. \A l \in cacheFresh' : Newest(l, Held(cache')) => l \in Bases
        BY <1>1 DEF SameCache, Bases
      <3> QED
        BY <2>2, <3>1 DEF CacheSpared
    <2>4. \A n \in Nat : /\ OwedNext(n) >= Owed(n)
                         /\ n < x => OwedNext(n) >= Owed(n) + 1
      BY <1>1, <1>11, DebtAfter DEF x
    <2>5. ASSUME NEW v \in Writers, v # w
          PROVE  /\ CreateSpared(revs', req'[v], OwedNext(MaxId))
                 /\ PruneSpared(revs', req'[v], OwedNext(req'[v].new))
      <3>1. Keeps(req'[v], req[v])
        BY <1>1, <2>5 DEF Others
      <3>2. CreateSpared(revs', req'[v], OwedNext(MaxId))
        <4>1. req[v].stage = "create" /\ req[v].fresh => req[v].new \in Held(revs')
          BY <2>2 DEF Bases, ListsBehind, At
        <4> QED
          BY <3>1, <4>1 DEF Keeps, CreateSpared
      <3>3. CASE req[v].stage \in {"demote", "prune"}
        <4>1. req[v].new < x
          BY <2>1, <3>3, WithinNewest, <1>3 DEF H
        <4> QED
          BY <1>3, <1>5, <2>4, <3>1, <3>2, <4>1
      <3>4. CASE req[v].stage \notin {"demote", "prune"}
        BY <3>1, <3>2, <3>4 DEF Keeps, PruneSpared
      <3> QED
        BY <3>3, <3>4
    <2>6. /\ CreateSpared(revs', req'[w], OwedNext(MaxId))
          /\ PruneSpared(revs', req'[w], OwedNext(req'[w].new))
      <3> DEFINE todo == req[w].todo
                 S == Held(revs') \ todo
                 T == H \ todo
      <3>1. /\ req'[w].stage = "demote" /\ req'[w].new = x /\ req'[w].todo = todo
            /\ x \notin H
        BY <1>1, <1>11 DEF Creates, x
      <3>2. T \in SUBSET Ids /\ S \in SUBSET Ids /\ S \subseteq T \union {x}
        BY <1>1
      <3>3. Cardinality(T) <= MaxHistory - 1 + Owed(MaxId)
        BY <1>1, <1>2, <1>11, <2>1 DEF CreateSpared, H, x
      <3>4. Owed(MaxId) <= OwedNext(x)
        <4>1. x \in Nat /\ x <= MaxId
          BY <1>1, <1>3
        <4> QED
          BY <1>3, <2>4, <4>1, OwedFacts
      <3>5. Cardinality(S) <= MaxHistory + OwedNext(x)
        <4>1. x \in Nat /\ Owed(MaxId) \in Nat /\ OwedNext(x) \in Nat
          BY <1>1, <1>3
        <4>2. MaxHistory - 1 + 1 = MaxHistory
          BY <1>3
        <4> HIDE DEF S, T
        <4>3. Cardinality(S) <= MaxHistory - 1 + 1 + OwedNext(x)
          BY <1>1, <1>3, <3>2, <3>3, <3>4, <4>1, StillFits
        <4> QED
          BY <4>2, <4>3
      <3>6. PruneSpared(revs', req'[w], OwedNext(req'[w].new))
        BY <3>1, <3>5 DEF PruneSpared
      <3> QED
        BY <3>1, <3>6 DEF CreateSpared
    <2>7. Cardinality(Held(revs')) <= MaxHistory + OwedNext(0)
      BY <1>1, <1>3, <1>6, <2>4
    <2> QED
      BY <2>3, <2>5, <2>6, <2>7
  <1>12. Goal
    BY <1>8, <1>9, <1>10, <1>11
  <1> QED
    BY <1>12, ExcessParts DEF Accounted

\* Retiring, and each prune: what is left to prune is all that goes beyond the
\* request's account, and when nothing is left the request leaves the account.
LEMMA FinishAccounted ==
    ASSUME IInv, IInv', ~forsaken, ~forsaken', ListsBehind, BasesAreNewest, Accounted, NEW w \in Writers,
           Retires(w) \/ \E k \in Ids : Prunes(w, k)
    PROVE  Accounted'
  <1> DEFINE H == Held(revs)
             x == req[w].new
  <1>1. /\ Held(revs') \subseteq H /\ H \in SUBSET Ids
        /\ SameCache /\ Others(w) /\ req[w].stage \in {"demote", "prune"}
        /\ req'[w].stage \in {"store", "prune"}
        /\ req'[w].stage = "prune" => req'[w].new = x
    BY HeldAfter DEF Retires, Prunes
  <1>2. /\ CacheSpared(revs, cache, cacheFresh, Owed(MaxId))
        /\ \A v \in Writers : /\ CreateSpared(revs, req[v], Owed(MaxId))
                              /\ PruneSpared(revs, req[v], Owed(req[v].new))
        /\ Cardinality(H) <= MaxHistory + Owed(0)
    BY ExcessParts DEF Accounted
  <1>3. /\ MaxId \in Nat /\ 0 \in Nat /\ MaxHistory \in Int
        /\ x \in Ids /\ x \in Nat /\ x <= MaxId
        /\ \A v \in Writers : req[v].new \in Nat
        /\ \A n \in Nat : Owed(n) \in Nat /\ OwedNext(n) \in Nat
    <2>1. x \in Ids
      BY <1>1 DEF IInv, RequestsInOrder, At
    <2> QED
      BY <2>1, OwedFacts, Numbers
  <1>4. \A n \in Nat : /\ req'[w].stage = "prune" \/ x <= n => OwedNext(n) >= Owed(n)
                       /\ n <= x => OwedNext(n) >= Owed(x)
    BY DebtAfter
  <1>5. Cardinality(H \ req[w].todo) <= MaxHistory + Owed(x)
    BY <1>2 DEF PruneSpared, Retires, Prunes
  <1>6. Held(revs') \ req'[w].todo \subseteq H \ req[w].todo \/ req'[w].stage = "store"
    BY HeldAfter DEF Retires, Prunes
  <1>7. req'[w].stage = "store" => Held(revs') \subseteq H \ req[w].todo
    BY HeldAfter DEF Retires, Prunes
  <1>8. ASSUME NEW l \in Bases', l + 1 \notin Held(revs')
        PROVE  l \in Bases /\ l + 1 \notin H
    <2>1. CASE Retires(w)
      BY <1>8, <2>1, HeldAfter, BasesAfter
    <2>2. ASSUME NEW k \in Ids, Prunes(w, k)
          PROVE  l \in Bases /\ l + 1 \notin H
      <3>1. l \in Bases /\ l # k
        BY <2>2, BasesAfter
      <3>2. k # l + 1
        BY <2>2, <3>1, PruneSparesNext
      <3> QED
        BY <1>8, <2>2, <3>1, <3>2, HeldAfter
    <2> QED
      BY <2>1, <2>2
  <1> HIDE DEF H, x
  <1>9. ASSUME NEW S \in SUBSET (H \ req[w].todo), NEW n \in Nat, n <= x
        PROVE  Cardinality(S) <= MaxHistory + OwedNext(n)
    <2>1. H \ req[w].todo \in SUBSET Ids
      BY <1>1
    <2>2. Owed(x) <= OwedNext(n) /\ Owed(x) \in Nat /\ OwedNext(n) \in Nat
      BY <1>3, <1>4, <1>9
    <2> HIDE DEF Ids
    <2> QED
      BY <1>3, <1>5, <1>9, <2>1, <2>2, StillFits
  <1>10. CacheSpared(revs', cache', cacheFresh', OwedNext(MaxId))
    <2>1. \A l \in cacheFresh' : /\ l \in cacheFresh
                                 /\ Newest(l, Held(cache)) /\ l + 1 \notin Held(revs')
                                       => l + 1 \notin Held(revs)
      <3>1. \A l \in cacheFresh' : l \in cacheFresh /\ (Newest(l, Held(cache)) => l \in Bases')
        BY <1>1 DEF SameCache, Bases
      <3> QED
        BY <1>8, <3>1 DEF H
    <2>2. OwedNext(MaxId) >= Owed(MaxId)
      BY <1>3, <1>4
    <2> QED
      BY <1>1, <2>1, <2>2, SparedStill DEF SameCache, H
  <1>11. ASSUME NEW v \in Writers, v # w
         PROVE  /\ CreateSpared(revs', req'[v], OwedNext(MaxId))
                /\ PruneSpared(revs', req'[v], OwedNext(req'[v].new))
    <2>1. Keeps(req'[v], req[v])
      BY <1>1, <1>11 DEF Others
    <2>2. CreateSpared(revs', req'[v], OwedNext(MaxId))
      <3>1. CASE req'[v].stage = "create" /\ req'[v].fresh
        <4>1. req'[v].latest \in Bases' /\ req'[v].latest = req[v].latest
          BY <2>1, <3>1 DEF Bases, At, Keeps
        <4>2. req[v].stage = "create" /\ req[v].new = req[v].latest + 1
          BY <2>1, <3>1 DEF Keeps, ListsBehind, At
        <4>3. req[v].new \notin Held(revs') => req[v].new \notin Held(revs)
          BY <1>8, <4>1, <4>2 DEF H
        <4>4. OwedNext(MaxId) >= Owed(MaxId)
          BY <1>3, <1>4
        <4> QED
          BY <1>1, <2>1, <4>3, <4>4, SparedStill DEF H
      <3>2. CASE ~(req'[v].stage = "create" /\ req'[v].fresh)
        BY <3>2 DEF CreateSpared
      <3> QED
        BY <3>1, <3>2
    <2>3. CASE req'[w].stage = "prune" \/ x <= req[v].new
      <3>1. OwedNext(req[v].new) >= Owed(req[v].new)
        BY <1>3, <1>4, <2>3
      <3> QED
        BY <1>1, <2>1, <2>2, <3>1, SparedStill DEF H
    <2>4. CASE req'[w].stage = "store" /\ ~(x <= req[v].new)
      <3>1. Held(revs') \ req'[v].todo \in SUBSET (H \ req[w].todo)
        BY <1>7, <2>4
      <3>2. req[v].new <= x /\ req[v].new \in Nat /\ req'[v].new = req[v].new
        BY <1>3, <2>1, <2>4 DEF Keeps
      <3>3. Cardinality(Held(revs') \ req'[v].todo) <= MaxHistory + OwedNext(req'[v].new)
        BY <1>9, <3>1, <3>2
      <3> QED
        BY <2>2, <3>3 DEF PruneSpared
    <2> QED
      BY <1>1, <2>3, <2>4
  <1>12. /\ CreateSpared(revs', req'[w], OwedNext(MaxId))
         /\ PruneSpared(revs', req'[w], OwedNext(req'[w].new))
    <2>1. CASE req'[w].stage = "store"
      BY <2>1 DEF CreateSpared, PruneSpared
    <2>2. CASE req'[w].stage = "prune"
      <3>1. Cardinality(Held(revs') \ req'[w].todo) <= MaxHistory + OwedNext(x)
        BY <1>3, <1>6, <1>9, <2>2
      <3> QED
        BY <1>1, <2>2, <3>1 DEF CreateSpared, PruneSpared
    <2> QED
      BY <1>1, <2>1, <2>2
  <1>13. Cardinality(Held(revs')) <= MaxHistory + OwedNext(0)
    <2>1. CASE req'[w].stage = "prune"
      BY <1>1, <1>3, <1>4, <2>1, SparedStill DEF H
    <2>2. CASE req'[w].stage = "store"
      BY <1>3, <1>7, <1>9, <2>2
    <2> QED
      BY <1>1, <2>1, <2>2
  <1>14. \A v \in Writers : /\ CreateSpared(revs', req'[v], OwedNext(MaxId))
                            /\ PruneSpared(revs', req'[v], OwedNext(req'[v].new))
    BY <1>11, <1>12
  <1> QED
    BY <1>10, <1>13, <1>14, ExcessParts DEF Accounted

\* The history's size stays within its limit and what the requests answer for.
LEMMA AccountedKept ==
    ASSUME IInv, IInv', ~forsaken, ~forsaken', ListsBehind, BasesAreNewest, Accounted, [Next]_vars
    PROVE  Accounted'
  BY Steps, CalmAccounted, SyncAccounted, CreateAccounted, FinishAccounted

----------------------------------------------------------------------------
(* The theorems *)

StartedAgain == AtRest /\ Held(revs) = {} /\ Held(cache) = {} /\ unsettled \in Nat
InOrder == /\ ListsBehind /\ RetentionKept /\ BasesAreNewest /\ ExcessAccounted
           /\ SupersededAreRetired /\ HistoryBounded

\* A history that starts, or starts again, from nothing is in order.
LEMMA EmptyInOrder == StartedAgain => InOrder
  <1> SUFFICES ASSUME StartedAgain PROVE InOrder
    OBVIOUS
  <1> USE DEF StartedAgain
  <1>1. \A S : "idle" \notin S => At(S) = {}
    BY DEF AtRest, At
  <1>2. /\ At({"create"}) = {} /\ At({"create", "demote"}) = {} /\ At({"demote", "prune"}) = {}
        /\ At({"create", "demote", "prune"}) = {} /\ At({"demote"}) = {}
    BY <1>1
  <1>3. Cardinality({}) = 0 /\ MaxHistory \in Nat
    BY FS_EmptySet, HistoryAssumption
  <1>4. \A l : ~Newest(l, Held(cache))
    BY DEF Newest
  <1>5. ListsBehind /\ RetentionKept
    BY <1>2, <1>3 DEF ListsBehind, RetentionKept, Newer
  <1>6. BasesAreNewest
    <2>1. Bases = {}
      BY <1>2, <1>4 DEF Bases
    <2> QED
      BY <2>1 DEF BasesAreNewest
  <1>7. ExcessAccounted
    BY <1>2, <1>4 DEF ExcessAccounted
  <1>8. SupersededAreRetired /\ HistoryBounded
    BY <1>2, <1>3 DEF SupersededAreRetired, HistoryBounded, Lingering
  <1> QED
    BY <1>5, <1>6, <1>7, <1>8 DEF InOrder

LEMMA InitHistoryInv ==
    ASSUME Init
    PROVE  HistoryInv
  <1>1. IInv
    BY InitIInv
  <1>2. /\ Held(revs) = {} /\ Held(cache) = {} /\ unsettled \in Nat /\ AtRest
    BY DEF Init, Held, AtRest, Idle
  <1> QED
    BY <1>1, <1>2, EmptyInOrder DEF HistoryInv, StartedAgain, InOrder

LEMMA NextHistoryInv ==
    ASSUME HistoryInv, [Next]_vars
    PROVE  HistoryInv'
  <1>1. IInv /\ IInv'
    BY NextIInv DEF HistoryInv
  <1>2. CASE ~forsaken /\ ~forsaken'
    <2>1. ListsBehind'
      BY <1>1, <1>2, ListsBehindKept DEF HistoryInv
    <2>2. RetentionKept'
      BY <1>1, <1>2, RetentionKeptStays DEF HistoryInv
    <2>3. BasesAreNewest'
      BY <1>1, <1>2, BasesAreNewestKept DEF HistoryInv
    <2>4. ExcessAccounted' /\ HistoryBounded'
      BY <1>1, <1>2, AccountedKept DEF HistoryInv, Accounted
    <2>5. SupersededAreRetired'
      BY <1>1, <1>2, SupersededKept DEF HistoryInv
    <2> QED
      BY <1>1, <2>1, <2>2, <2>3, <2>4, <2>5 DEF HistoryInv
  <1>3. CASE forsaken'
    BY <1>1, <1>3 DEF HistoryInv, SupersededAreRetired, HistoryBounded
  <1>4. CASE forsaken /\ ~forsaken'
    <2>1. StartsAgain /\ cache' = revs
          /\ UNCHANGED <<revs, req, unsettled>>
      <3>1. Sync \/ forsaken' = forsaken \/ forsaken'
        BY DEF Next, Webhook, Submit, ListRevisions, CreateRevision, DemoteLatest, PruneOldest,
               EndUnsettled, StoreBoot, FailRequest, Event, Reconcile, DropPass, UpdatePhase, Adopt,
               RetryLater, GiveUp, Doom, DeleteDoomed, Remove, others, vars
      <3> QED
        BY <1>4, <3>1 DEF Sync
    <2>2. StartedAgain'
      BY <1>1, <2>1 DEF StartedAgain, StartsAgain, AtRest, Held, IInv, TypeOK
    <2>3. InOrder'
      BY <2>2, EmptyInOrder, PTL
    <2> QED
      BY <1>1, <2>3 DEF HistoryInv, InOrder
  <1> QED
    BY <1>2, <1>3, <1>4

\* The inductive invariant of the counts holds in every reachable state.
THEOREM HistoryInvariance == Spec => []HistoryInv
  BY InitHistoryInv, NextHistoryInv, PTL DEF Spec

\* Every revision but the newest is Complete or Cancelled, save one for each
\* request that is between recordRevision's Create and the Update of the latest
\* revision, or failed there (boot_validation.go:240-264): no race of requests,
\* however stale their lists, leaves another one Running or Active.
THEOREM SupersededRetired == Spec => []SupersededAreRetired
  BY HistoryInvariance, PTL DEF HistoryInv

\* The history holds MaxHistory revisions at most, save one for each request
\* that has not finished keepRevisionMaxSizeLimit (boot_validation.go:310-335):
\* prunes computed from stale lists leave no excess that nobody answers for.
THEOREM HistoryStaysBounded == Spec => []HistoryBounded
  BY HistoryInvariance, PTL DEF HistoryInv

\* keepRevisionMaxSizeLimit deletes a revision only while MaxHistory newer ones
\* are there, whatever list it works off and whoever else is pruning.
THEOREM PrunesSpareHistory == Spec => PruneKeepsHistory
  <1>1. ASSUME HistoryInv, [Next]_vars, ~forsaken, ~forsaken',
               NEW i \in Held(revs), revs'[i] = NoRevision
        PROVE  Cardinality({j \in Held(revs)' : j > i}) >= MaxHistory
    <2>1. IInv /\ RetentionKept /\ i \in Ids /\ revs[i] # NoRevision
      BY <1>1 DEF HistoryInv, Held
    <2>2. ASSUME NEW w \in Writers, NEW k \in Ids, Prunes(w, k)
          PROVE  Cardinality({j \in Held(revs)' : j > i}) >= MaxHistory
      <3>1. i = k /\ i \in req[w].todo /\ req[w].stage = "prune"
        BY <1>1, <2>1, <2>2 DEF Prunes
      <3>2. Cardinality(Newer(revs, i)) >= MaxHistory
        BY <2>1, <3>1 DEF RetentionKept, At
      <3>3. Held(revs') = Held(revs) \ {i}
        BY <2>1, <2>2, <3>1, HeldAfter
      <3>4. {j \in Held(revs') : j > i} = Newer(revs, i)
        BY <2>1, <3>3 DEF Newer
      <3>5. Held(revs)' = Held(revs')
        BY DEF Held
      <3> QED
        BY <3>2, <3>4, <3>5
    <2>3. ASSUME NEW w \in Writers, Calm(w) \/ Lists(w) \/ Creates(w) \/ Retires(w)
          PROVE  FALSE
      BY <1>1, <2>1, <2>3 DEF Calm, Lists, Creates, Retires
    <2>4. ~Syncs
      BY <1>1, <2>1 DEF Syncs
    <2> QED
      BY <1>1, <2>1, <2>2, <2>3, <2>4, Steps
  <1>3. ASSUME HistoryInv, [Next]_vars, ~forsaken, forsaken',
               NEW i \in Held(revs), revs'[i] = NoRevision
        PROVE  i \in doomed \ doomed'
    <2>1. PICK k \in Ids : DeleteDoomed(k)
      BY <1>3 DEF Next, Webhook, Submit, ListRevisions, CreateRevision, DemoteLatest, PruneOldest,
         EndUnsettled, StoreBoot, FailRequest, Event, Reconcile, DropPass, UpdatePhase, Adopt,
         RetryLater, GiveUp, Doom, Sync, others, vars
    <2>2. k \in doomed /\ doomed' = doomed \ {k} /\ Remove(k)
      BY <1>3, <2>1 DEF DeleteDoomed
    <2>3. i = k
      BY <1>3, <2>2 DEF Remove, Held, HistoryInv, IInv, TypeOK
    <2> QED
      BY <2>2, <2>3
  <1>2. HistoryInv /\ [Next]_vars =>
          [~forsaken => \A i \in Held(revs) : revs'[i] = NoRevision =>
              \/ i \in doomed \ doomed'
              \/ Cardinality({j \in Held(revs)' : j > i}) >= MaxHistory]_vars
    BY <1>1, <1>3
  <1> QED
    BY <1>2, HistoryInvariance, PTL DEF Spec, PruneKeepsHistory

\* What the tests expect of a history at rest (revision_test.go:171) is so if
\* every request that created a revision saw its recording through: the history
\* is within its limit, and only the newest revision is Running or Active.
THEOREM SettledHistory ==
    Spec => [](AtRest /\ unsettled = 0 /\ ~forsaken =>
                  /\ Cardinality(Held(revs)) <= MaxHistory
                  /\ \A i \in Held(revs) : Newest(i, Held(revs)) \/ Retired(revs[i].phase))
  <1>1. ASSUME HistoryInv, AtRest, unsettled = 0, ~forsaken
        PROVE  /\ Cardinality(Held(revs)) <= MaxHistory
               /\ \A i \in Held(revs) : Newest(i, Held(revs)) \/ Retired(revs[i].phase)
    <2>1. At({"demote"}) = {} /\ At({"demote", "prune"}) = {} /\ Cardinality({}) = 0
      BY <1>1, FS_EmptySet DEF AtRest, At
    <2>2. /\ MaxHistory \in Nat
          /\ IsFiniteSet(Held(revs)) /\ Cardinality(Held(revs)) \in Nat
          /\ IsFiniteSet(Lingering(revs)) /\ Cardinality(Lingering(revs)) \in Nat
      BY Countable, HistoryAssumption DEF Held, Lingering
    <2>3. Cardinality(Held(revs)) <= MaxHistory /\ Cardinality(Lingering(revs)) = 0
      BY <1>1, <2>1, <2>2 DEF HistoryInv, HistoryBounded, SupersededAreRetired
    <2>4. Lingering(revs) = {}
      BY <2>2, <2>3, FS_EmptySet
    <2>5. ASSUME NEW i \in Held(revs), ~Newest(i, Held(revs))
          PROVE  Retired(revs[i].phase)
      <3>1. \E j \in Held(revs) : j > i
        BY <2>5 DEF Newest, Held
      <3>2. revs[i].phase \notin LivePhases
        BY <2>4, <3>1 DEF Lingering
      <3>3. revs[i].phase \in Phases
        BY <1>1 DEF HistoryInv, IInv, TypeOK, Held, Revision
      <3> QED
        BY <3>2, <3>3 DEF Retired
    <2> QED
      BY <2>3, <2>5
  <1> QED
    BY <1>1, HistoryInvariance, PTL

=============================================================================
