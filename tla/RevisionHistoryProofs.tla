----------------------- MODULE RevisionHistoryProofs -----------------------
(***************************************************************************)
(* BootRevisions implements RevisionHistory: every call of the webhook and *)
(* of the controllers is one step of the abstract history, or none.        *)
(***************************************************************************)
EXTENDS RevisionBoundsProofs

USE DEF Ids, Writers, Phases, LivePhases, FinishedPhases, Stages

----------------------------------------------------------------------------
(* A step of the abstract history, or none *)

Entries == [i \in Ids |-> Entry(revs[i])]
Gone == Entry(NoRevision)

\* An entry is missing exactly where no revision is held.
LEMMA EntryFacts ==
    ASSUME NEW x \in Revision \union {NoRevision}
    PROVE  Entry(x) = Gone <=> x = NoRevision
  <1>1. x \in Revision => x.spec # None /\ x # NoRevision
    BY NoneAssumption DEF Revision, NoRevision
  <1>2. Entry(x).spec = x.spec /\ Gone.spec = None
    BY DEF Entry, Gone, NoRevision
  <1> QED
    BY <1>1, <1>2 DEF Gone

\* The abstract history has come as far as the detailed one.
LEMMA ReachedFacts ==
    ASSUME TypeOK, NEW n \in Nat \ {0}, Reaches(revs, n)
    PROVE  Ledger!Reached(n)
  <1>1. PICK j \in Held(revs) : j >= n
    BY DEF Reaches
  <1>2. j \in Ids /\ revs[j] \in Revision \union {NoRevision} /\ revs[j] # NoRevision
    BY <1>1 DEF Held, TypeOK
  <1>3. Entries[j] # Gone
    BY <1>2, EntryFacts DEF Entries
  <1> QED
    BY <1>1, <1>2, <1>3 DEF Ledger!Reached, Entries, Gone

\* A write of one revision is a write of one entry.
LEMMA EntriesWrite ==
    ASSUME TypeOK, NEW w \in Writers, NEW k \in Ids, NEW x, NEW r, WriteRevision(w, k, x, r)
    PROVE  Entries' = [Entries EXCEPT ![k] = Entry(x)]
  <1>1. \A i \in Ids : revs'[i] = IF i = k THEN x ELSE revs[i]
    BY DEF WriteRevision, TypeOK
  <1>2. \A i \in Ids : Entries'[i] = Entry(revs'[i]) /\ Entries[i] = Entry(revs[i])
    BY DEF Entries
  <1>3. \A i \in Ids : Entries'[i] = IF i = k THEN Entry(x) ELSE Entries[i]
    BY <1>1, <1>2
  <1> QED
    BY <1>3 DEF Entries

\* Creating a revision records it, next to the newest at the latest.
LEMMA CreateRecords ==
    ASSUME IInv, ~forsaken, ListsBehind, NEW w \in Writers, CreateRevision(w)
    PROVE  [Ledger!Next]_(Ledger!vars)
  <1> DEFINE p == req[w]
  <1>1. /\ TypeOK /\ p.new \in Ids /\ p.spec \in Specs /\ boot' = boot
        /\ p.new = p.latest + 1 /\ Reaches(revs, p.latest) /\ p.latest \in 0..MaxId
        /\ forsaken' = forsaken
    BY DEF CreateRevision, IInv, TypeOK, RequestsInOrder, At, ListsBehind, Request
  <1>2. CASE revs' = revs
    BY <1>1, <1>2 DEF Ledger!vars
  <1>3. ASSUME NEW r, revs[p.new] = NoRevision,
               WriteRevision(w, p.new, [spec |-> p.spec, phase |-> "Running"], r)
        PROVE  Ledger!Record(p.new, p.spec)
    <2> DEFINE x == [spec |-> p.spec, phase |-> "Running"]
    <2>1. Entry(x) = [spec |-> p.spec, live |-> TRUE]
      BY DEF Entry
    <2>2. Entries' = [Entries EXCEPT ![p.new] = Entry(x)]
      BY <1>1, <1>3, EntriesWrite
    <2>3. Entries[p.new] = Gone
      BY <1>1, <1>3 DEF Entries, Gone
    <2>4. p.new = 1 \/ Ledger!Reached(p.new - 1)
      <3>1. p.new - 1 = p.latest /\ (p.new # 1 => p.latest \in Nat \ {0})
        BY <1>1
      <3> HIDE DEF p
      <3> QED
        BY <1>1, <3>1, ReachedFacts
    <2> QED
      BY <1>1, <2>1, <2>2, <2>3, <2>4 DEF Ledger!Record, Entries, Gone
  <1> QED
    BY <1>1, <1>2, <1>3 DEF CreateRevision, End, Ledger!Next

\* Moving the previous revision on retires it, once.
LEMMA DemoteRetires ==
    ASSUME IInv, ~forsaken, NEW w \in Writers, DemoteLatest(w)
    PROVE  [Ledger!Next]_(Ledger!vars)
  <1> DEFINE p == req[w]
             x == [revs[p.latest] EXCEPT !.phase = Finish(p.seen)]
  <1>1. /\ TypeOK /\ p \in Request /\ boot' = boot
        /\ forsaken' = forsaken
        /\ p.latest < p.new /\ \E j \in Held(revs) : j >= p.new
        /\ p.fresh => p.latest \in Ids /\ revs[p.latest].phase = p.seen
    BY DEF DemoteLatest, EndUnsettled, others, IInv, TypeOK, RequestsInOrder, CopiesCurrent, At
  <1>2. CASE revs' = revs
    BY <1>1, <1>2 DEF Ledger!vars
  <1>3. ASSUME NEW r, p.fresh, WriteRevision(w, p.latest, x, r)
        PROVE  [Ledger!Next]_(Ledger!vars)
    <2>1. /\ p.seen \in Phases /\ p.latest \in Ids /\ revs[p.latest] \in Revision
          /\ revs[p.latest].phase = p.seen
      BY <1>1, <1>3, Absence DEF TypeOK, Request
    <2>2. /\ x.spec = revs[p.latest].spec /\ x.phase = Finish(p.seen)
      BY <2>1 DEF Revision
    <2> HIDE DEF x
    <2>3. Entries' = [Entries EXCEPT ![p.latest] = Entry(x)]
      BY <1>1, <1>3, <2>1, EntriesWrite
    <2>4. Entries[p.latest] = Entry(revs[p.latest]) /\ Entries[p.latest] # Gone
      BY <2>1, EntryFacts, Absence DEF Entries
    <2>5. Reaches(revs, p.latest + 1)
      BY <1>1, <2>1 DEF Reaches, Held, Request
    <2>6. CASE p.seen \in LivePhases
      <3>1. Entry(x) = [spec |-> Entries[p.latest].spec, live |-> FALSE] /\ Entries[p.latest].live
        <4>1. (Finish(p.seen) \in LivePhases) = FALSE
          BY <2>6 DEF Finish
        <4>2. Entry(x) = [spec |-> revs[p.latest].spec, live |-> FALSE]
          BY <2>2, <4>1 DEF Entry
        <4>3. /\ Entries[p.latest].spec = revs[p.latest].spec
              /\ Entries[p.latest].live = (p.seen \in LivePhases)
          BY <2>1, <2>4 DEF Entry
        <4> QED
          BY <2>6, <4>2, <4>3
      <3>2. Ledger!Reached(p.latest + 1)
        BY <1>1, <2>1, <2>5, ReachedFacts
      <3>3. Ledger!Retire(p.latest)
        BY <1>1, <2>1, <2>3, <2>4, <3>1, <3>2 DEF Ledger!Retire, Entries, Gone
      <3> QED
        BY <1>1, <2>1, <3>3 DEF Ledger!Next
    <2>7. CASE p.seen \notin LivePhases
      <3>1. Entry(x) = Entries[p.latest]
        BY <2>1, <2>2, <2>4, <2>7 DEF Entry, Finish
      <3>2. Entries' = Entries
        BY <2>3, <3>1 DEF Entries
      <3> QED
        BY <1>1, <3>2 DEF Ledger!vars, Entries
    <2> QED
      BY <2>6, <2>7
  <1> QED
    BY <1>1, <1>2, <1>3 DEF DemoteLatest, EndUnsettled, End

\* The abstract history counts as BootRevisions does.
LEMMA SameCardinality ==
    ASSUME NEW S
    PROVE  Ledger!Cardinality(S) = Cardinality(S)
  BY DEF Ledger!Cardinality, Cardinality

\* Deleting a surplus revision prunes it behind those to be retained.
LEMMA PrunePrunes ==
    ASSUME IInv, ~forsaken, RetentionKept, NEW w \in Writers, PruneOldest(w)
    PROVE  [Ledger!Next]_(Ledger!vars)
  <1> DEFINE p == req[w]
  <1>1. /\ TypeOK /\ p.todo \in SUBSET Ids /\ boot' = boot /\ forsaken' = forsaken
        /\ \A i \in p.todo : Cardinality(Newer(revs, i)) >= MaxHistory
    BY DEF PruneOldest, EndUnsettled, others, IInv, TypeOK, RetentionKept, At, Request
  <1>2. CASE revs' = revs
    BY <1>1, <1>2 DEF Ledger!vars
  <1>3. ASSUME NEW r, NEW i \in p.todo, revs[i] # NoRevision, WriteRevision(w, i, NoRevision, r)
        PROVE  Ledger!Prune(i) /\ i \in Ids
    <2>1. i \in Ids /\ Entries[i] # Gone
      BY <1>1, <1>3, EntryFacts DEF Entries, TypeOK
    <2>2. Entries' = [Entries EXCEPT ![i] = Gone]
      BY <1>1, <1>3, <2>1, EntriesWrite DEF Gone
    <2>3. {j \in Ids : j > i /\ Entries[j] # Gone} = Newer(revs, i)
      <3>1. \A j \in Ids : Entries[j] # Gone <=> revs[j] # NoRevision
        BY <1>1, EntryFacts DEF Entries, TypeOK
      <3> QED
        BY <3>1 DEF Newer, Held
    <2>4. Cardinality({j \in Ids : j > i /\ Entries[j] # Gone}) >= MaxHistory
      BY <1>1, <2>3
    <2>5. boot'.rev = boot.rev
      BY <1>1
    <2> HIDE DEF p
    <2> QED
      <3>1. Ledger!Cardinality({j \in Ids : j > i /\ Entries[j] # Gone}) >= MaxHistory
        BY <2>4, SameCardinality
      <3> QED
        BY <2>1, <2>2, <2>5, <3>1, Zenon DEF Ledger!Prune, Entries, Gone
  <1> QED
    BY <1>1, <1>2, <1>3 DEF PruneOldest, EndUnsettled, End, Ledger!Next

\* Moving between Running and Active is no step of the abstract history.
LEMMA PhaseStutters ==
    ASSUME IInv, ~forsaken, UpdatePhase
    PROVE  UNCHANGED Ledger!vars
  <1> DEFINE p == req[Controller]
             x == [revs[p.latest] EXCEPT !.phase = p.seen]
  <1>1. /\ TypeOK /\ boot' = boot /\ forsaken' = forsaken /\ p.seen \in LivePhases
        /\ p.fresh => p.latest \in Ids /\ revs[p.latest].phase \in LivePhases
    BY DEF UpdatePhase, others, IInv, RequestsInOrder, CopiesCurrent, At
  <1>2. CASE revs' = revs
    BY <1>1, <1>2 DEF Ledger!vars
  <1>3. ASSUME NEW r, p.fresh, WriteRevision(Controller, p.latest, x, r)
        PROVE  UNCHANGED Ledger!vars
    <2>1. p.latest \in Ids /\ revs[p.latest] \in Revision
      BY <1>1, <1>3, Absence DEF TypeOK
    <2>2. Entry(x) = Entry(revs[p.latest])
      BY <1>1, <1>3, <2>1 DEF Revision, Entry
    <2>3. Entries' = [Entries EXCEPT ![p.latest] = Entry(x)]
      BY <1>1, <1>3, <2>1, EntriesWrite
    <2>4. Entries' = Entries
      BY <2>1, <2>2, <2>3 DEF Entries
    <2> QED
      BY <1>1, <2>4 DEF Ledger!vars, Entries
  <1> QED
    BY <1>1, <1>2, <1>3 DEF UpdatePhase, End

\* Storing the Boot moves its revision id forward within the history, or not at all.
LEMMA StoreAdvances ==
    ASSUME IInv, ~forsaken, NEW w \in Writers, StoreBoot(w)
    PROVE  [Ledger!Next]_(Ledger!vars)
  <1>1. /\ TypeOK /\ revs' = revs /\ forsaken' = forsaken
        /\ boot \in Boot \union {NoBoot} /\ req[w] \in Request
    BY DEF StoreBoot, others, IInv, TypeOK
  <1>2. Ledger!vars' = Ledger!vars \/ boot'.rev # boot.rev
    BY <1>1 DEF Ledger!vars
  <1>3. CASE boot'.rev # boot.rev
    <2>1. w = Controller
      <3>1. ASSUME boot = NoBoot PROVE [NoBoot EXCEPT !.uid = uids + 1, !.spec = req[w].spec].rev = boot.rev
        BY <3>1 DEF NoBoot
      <3>2. ASSUME boot # NoBoot PROVE [boot EXCEPT !.spec = req[w].spec].rev = boot.rev
        BY <1>1, <3>2 DEF Boot
      <3> QED
        BY <1>3, <3>1, <3>2 DEF StoreBoot
    <2>2. /\ boot \in Boot /\ boot.rev <= req[w].rev /\ Reaches(revs, req[w].rev)
      BY <1>1, <2>1 DEF IInv, BootIsBehind, StoreBoot
    <2>3. boot' = [boot EXCEPT !.rev = req[w].rev, !.ready = req[w].ready]
      <3>1. boot' # boot
        BY <1>3
      <3> QED
        BY <2>1, <2>2, <3>1, Absence DEF StoreBoot
    <2>4. boot'.rev = req[w].rev /\ boot.rev \in 0..MaxId /\ req[w].rev \in 0..MaxId
      BY <1>1, <2>2, <2>3 DEF Boot, Request
    <2>5. boot.rev < boot'.rev /\ boot'.rev \in Ids
      BY <1>3, <2>2, <2>4
    <2>6. Ledger!Reached(boot'.rev)
      BY <1>1, <2>2, <2>4, <2>5, ReachedFacts
    <2>7. Ledger!Advance(boot'.rev)
      BY <1>1, <2>5, <2>6 DEF Ledger!Advance
    <2> QED
      BY <1>1, <2>5, <2>7 DEF Ledger!Next
  <1> QED
    BY <1>2, <1>3

\* Giving a revision up strikes it out of the abstract history.
LEMMA RemovalStrikesOut ==
    ASSUME TypeOK, NEW i \in Ids, revs[i] # NoRevision, Remove(i)
    PROVE  Ledger!StrikeOut(i)
  <1>1. /\ \A j \in Ids : revs'[j] = IF j = i THEN NoRevision ELSE revs[j]
        /\ boot' = boot /\ forsaken' = TRUE
    BY DEF Remove, TypeOK
  <1>2. \A j \in Ids : Entries'[j] = Entry(revs'[j]) /\ Entries[j] = Entry(revs[j])
    BY DEF Entries
  <1>3. \A j \in Ids : Entries'[j] = IF j = i THEN Gone ELSE Entries[j]
    BY <1>1, <1>2 DEF Gone
  <1>4. Entries' = [Entries EXCEPT ![i] = Gone]
    BY <1>3 DEF Entries
  <1>5. Entries[i] # Gone
    BY EntryFacts DEF Entries, TypeOK
  <1> QED
    BY <1>1, <1>4, <1>5 DEF Ledger!StrikeOut, Entries, Gone

\* Whatever the steps do to a history of which a revision was given up, none
\* changes what a revision records, or more than one revision or the id.
LEMMA BrokenDrifts ==
    ASSUME IInv, IInv', [Next]_vars, forsaken, forsaken'
    PROVE  [Ledger!Next]_(Ledger!vars)
  <1>1. TypeOK /\ TypeOK'
    BY DEF IInv
  <1>2. revs' = revs \/ boot' = boot
    BY DEF Next, Webhook, Submit, ListRevisions, CreateRevision, DemoteLatest, PruneOldest,
           EndUnsettled, StoreBoot, FailRequest, End, Event, Reconcile, DropPass, UpdatePhase,
           Adopt, RetryLater, GiveUp, Doom, DeleteDoomed, Remove, Sync, others, vars
  <1>3. CASE revs' # revs
    <2>1. PICK k \in Ids : \A i \in Ids \ {k} : revs'[i] = revs[i]
      BY OneWrite
    <2>2. revs[k] \in Revision \union {NoRevision} /\ revs'[k] \in Revision \union {NoRevision}
      BY <1>1 DEF TypeOK
    <2>3. ASSUME revs[k] # NoRevision, revs'[k] # NoRevision
          PROVE  revs'[k].spec = revs[k].spec
      <3>1. CASE revs'[k] = revs[k]
        BY <3>1
      <3>2. CASE revs'[k] # revs[k]
        BY <2>3, <3>2, RevisionWrites DEF Revision
      <3> QED
        BY <3>1, <3>2
    <2> DEFINE x == Entry(revs'[k])
    <2>4. x \in Ledger!Entry \union {Gone}
      BY <2>2 DEF Entry, Gone, Ledger!Entry, Revision
    <2>5. Entries[k] # Gone /\ x # Gone => x.spec = Entries[k].spec
      BY <2>2, <2>3, EntryFacts DEF Entries, Entry
    <2>6. Entries' = [Entries EXCEPT ![k] = x]
      BY <2>1 DEF Entries
    <2> HIDE DEF x
    <2>7. boot'.rev = boot.rev
      BY <1>2, <1>3
    <2>8. Ledger!Drift(k)
      BY <2>4, <2>5, <2>6, <2>7 DEF Ledger!Drift, Entries, Gone
    <2> QED
      BY <2>8 DEF Ledger!Next
  <1>4. CASE revs' = revs /\ boot'.rev # boot.rev
    <2>1. boot'.rev \in Ids \union {0}
      BY <1>1 DEF TypeOK, Boot, NoBoot
    <2> QED
      BY <1>4, <2>1 DEF Ledger!Next, Ledger!Wander
  <1>5. CASE revs' = revs /\ boot'.rev = boot.rev
    BY <1>5 DEF Ledger!vars
  <1> QED
    BY <1>3, <1>4, <1>5

\* A history that starts again from nothing is a ledger that starts again.
LEMMA StartsAgainOnce ==
    ASSUME TypeOK, Sync, forsaken, ~forsaken'
    PROVE  Ledger!StartAgain
  <1>1. /\ \A i \in Ids : revs[i] = NoRevision
        /\ boot.rev = 0 /\ boot' = boot /\ revs' = revs /\ forsaken' = FALSE
    BY DEF Sync, StartsAgain, Held, TypeOK
  <1> QED
    BY <1>1 DEF Ledger!StartAgain

----------------------------------------------------------------------------
(* Theorems *)

\* BootRevisions implements RevisionHistory: with any number of requests, any
\* staleness of the cache and any failures, recordRevision,
\* keepRevisionMaxSizeLimit and ReconcileUpdateBootMeta keep one ledger in which
\* what is recorded never changes, ids have no gaps at the top, a retired
\* revision stays retired and the MaxHistory newest ones are not deleted, until
\* the BootRevision controller gives a revision up (bootrevision_controller.go:145-155);
\* what a revision records does not change even after that.
THEOREM Implementation == Spec => ImplementsHistory
  <1>1. Init => Ledger!Init
    BY DEF Init, Ledger!Init, NoBoot
  <1>2. HistoryInv /\ IInv' /\ [Next]_vars => [Ledger!Next]_(Ledger!vars)
    <2> SUFFICES ASSUME HistoryInv, IInv', [Next]_vars
                 PROVE  [Ledger!Next]_(Ledger!vars)
      OBVIOUS
    <2>1. IInv /\ TypeOK
      BY DEF HistoryInv, IInv
    <2>2. CASE ~forsaken
      <3>1. CASE UNCHANGED <<boot, revs, forsaken>>
        BY <3>1 DEF Ledger!vars
      <3>2. ListsBehind /\ RetentionKept
        BY <2>2 DEF HistoryInv
      <3>3. ASSUME NEW i \in Ids, DeleteDoomed(i)
            PROVE  [Ledger!Next]_(Ledger!vars)
        <4>1. CASE revs[i] # NoRevision /\ Remove(i)
          BY <2>1, <4>1, RemovalStrikesOut DEF Ledger!Next
        <4> QED
          BY <3>1, <3>3, <4>1 DEF DeleteDoomed
      <3>4. CASE Sync
        <4>1. forsaken = FALSE
          BY <2>1, <2>2 DEF TypeOK
        <4>2. forsaken' = forsaken
          BY <3>4, <4>1 DEF Sync
        <4> QED
          BY <3>1, <3>4, <4>2 DEF Sync
      <3>5. ASSUME NEW w \in Writers, Webhook(w)
            PROVE  [Ledger!Next]_(Ledger!vars)
        <4>1. CASE ListRevisions(w)
          BY <3>1, <4>1 DEF ListRevisions, others
        <4> QED
          BY <2>1, <2>2, <3>2, <3>5, <4>1, CreateRecords, DemoteRetires, PrunePrunes,
             StoreAdvances DEF Webhook
      <3>6. CASE UpdatePhase
        BY <2>1, <2>2, <3>6, PhaseStutters
      <3> QED
        BY <3>1, <3>3, <3>4, <3>5, <3>6 DEF Next, Submit, FailRequest, End, Event, Reconcile,
           DropPass, Adopt, RetryLater, GiveUp, Doom, others, vars
    <2>3. CASE forsaken /\ forsaken'
      BY <2>1, <2>3, BrokenDrifts
    <2>4. CASE forsaken /\ ~forsaken'
      <3>1. Sync \/ forsaken' = forsaken \/ forsaken'
        BY DEF Next, Webhook, Submit, ListRevisions, CreateRevision, DemoteLatest, PruneOldest,
               EndUnsettled, StoreBoot, FailRequest, Event, Reconcile, DropPass, UpdatePhase, Adopt,
               RetryLater, GiveUp, Doom, DeleteDoomed, Remove, others, vars
      <3>2. Ledger!StartAgain
        BY <2>1, <2>4, <3>1, StartsAgainOnce
      <3> QED
        BY <2>4, <3>2 DEF Ledger!Next
    <2> QED
      BY <2>2, <2>3, <2>4
  <1>3. HistoryInv => IInv
    BY DEF HistoryInv
  <1> QED
    BY <1>1, <1>2, <1>3, HistoryInvariance, PTL DEF Spec, ImplementsHistory, Ledger!Spec
=============================================================================
