------------------------- MODULE RetentionRunProofs -------------------------
(***************************************************************************)
(* The purge commands implement the repository: whatever pages they read   *)
(* and however stale these are when they are handed over, the tables only  *)
(* take steps RelayRepository allows, so its theorems hold while commands  *)
(* run, fail and die.  And they do what they report: a purge spares every  *)
(* row touched since its page was read, counts what it deletes, passes its *)
(* own checks, and misses no row when it completes.                        *)
(***************************************************************************)
EXTENDS RetentionRun, RelayRepositoryProofs

(* The part of a batch that still describes the rows it was read from. *)
Fresh(batch, cutoff) ==
    {c \in batch : /\ c.actor \in Actors
                   /\ c.kind \in CandidateKinds
                   /\ RetentionStateMatches(c, cutoff)}

(* What is left of a stale page could have been read just now... *)
LEMMA FreshIsCurrent ==
    ASSUME NEW batch, NEW cutoff
    PROVE  Fresh(batch, cutoff) \in SUBSET PurgeCandidates(cutoff)
<1> SUFFICES ASSUME NEW c \in Fresh(batch, cutoff)
             PROVE  c \in PurgeCandidates(cutoff)
  OBVIOUS
<1>1. /\ c.actor \in Actors /\ c.kind \in CandidateKinds
      /\ PurgeEligible(c.actor, c.kind, cutoff)
      /\ c = RetentionState(c.actor, c.kind)
  BY DEF Fresh, RetentionStateMatches
<1> DEFINE x == <<c.actor, c.kind>>
<1>2. x \in {y \in Actors \X CandidateKinds : PurgeEligible(y[1], y[2], cutoff)}
  BY <1>1
<1>3. c = RetentionState(x[1], x[2])
  BY <1>1
<1> HIDE DEF x
<1> QED BY <1>2, <1>3 DEF PurgeCandidates

(* ... and the rest of the page has no effect. *)
LEMMA FreshIsEnough ==
    ASSUME NEW batch, NEW cutoff, PurgeBatch(batch, cutoff)
    PROVE  PurgeBatch(Fresh(batch, cutoff), cutoff)
<1>1. ASSUME NEW kind \in CandidateKinds
      PROVE  PurgedActors(batch, kind, cutoff) = PurgedActors(Fresh(batch, cutoff), kind, cutoff)
  BY DEF PurgedActors, Fresh
<1>2. "lifecycle" \in CandidateKinds /\ "discovery" \in CandidateKinds
  BY DEF CandidateKinds
<1> QED BY <1>1, <1>2 DEF PurgeBatch

LEMMA StalePurge ==
    ASSUME NEW batch, NEW cutoff \in Instants, PurgeBatch(batch, cutoff)
    PROVE  PurgeStep
BY FreshIsCurrent, FreshIsEnough DEF PurgeStep

-----------------------------------------------------------------------------
(* The cutoff of a run is a second of the clock. *)
RunFields == {"pc", "cutoff", "cursor", "page", "next", "err", "result"}

CutoffInv ==
    /\ DOMAIN runs = Runs
    /\ \A r \in Runs : /\ DOMAIN runs[r] = RunFields
                       /\ runs[r].cutoff \in Instants

LEMMA CutoffInit == RunInit => CutoffInv
BY BoundsAssumption DEF RunInit, CutoffInv, NotStarted, RunFields, Instants

LEMMA CutoffStep ==
    ASSUME CutoffInv, [RunNext]_allVars
    PROVE  CutoffInv'
<1> USE DEF CutoffInv, RunFields
<1>1. ASSUME NEW r \in Runs, NEW t \in Instants, BeginRetentionRun(r, t)
      PROVE  CutoffInv'
  <2>1. t - RetentionTime \in Instants
    BY <1>1, BoundsAssumption, RetentionAssumption DEF BeginRetentionRun, Instants
  <2> QED BY <1>1, <2>1 DEF BeginRetentionRun
<1>2. ASSUME NEW r \in Runs, ReadPage(r)
      PROVE  CutoffInv'
  <2>1. \E run : /\ runs' = [runs EXCEPT ![r] = run]
                 /\ DOMAIN run = DOMAIN runs[r]
                 /\ run.cutoff = runs[r].cutoff
    BY <1>2 DEF ReadPage
  <2> QED BY <2>1
<1>3. ASSUME NEW r \in Runs, PurgePage(r)
      PROVE  CutoffInv'
  BY <1>3 DEF PurgePage, AfterBatch
<1>4. ASSUME NEW r \in Runs, FinishRetentionRun(r)
      PROVE  CutoffInv'
  BY <1>4 DEF FinishRetentionRun
<1>5. ASSUME NEW r \in Runs, NEW err, ReadFails(r, err)
      PROVE  CutoffInv'
  BY <1>5 DEF ReadFails
<1>6. ASSUME NEW r \in Runs, NEW err, PurgeFails(r, err)
      PROVE  CutoffInv'
  BY <1>6 DEF PurgeFails
<1>7. ASSUME NEW r \in Runs, FinishFails(r)
      PROVE  CutoffInv'
  BY <1>7 DEF FinishFails
<1>8. ASSUME NEW r \in Runs, Crash(r)
      PROVE  CutoffInv'
  BY <1>8, BoundsAssumption DEF Crash, NotStarted, Instants
<1>9. CASE UNCHANGED runs
  BY <1>9
<1> QED
  BY <1>1, <1>2, <1>3, <1>4, <1>5, <1>6, <1>7, <1>8, <1>9
     DEF RunNext, RunStep, Started, Concurrently, allVars, runVars

LEMMA RunStepImplements ==
    ASSUME CutoffInv, [RunNext]_allVars
    PROVE  [Next]_vars
<1>1. ASSUME NEW r \in Runs, PurgePage(r)
      PROVE  Next
  <2>1. PurgeBatch(Candidates(runs[r].page), runs[r].cutoff)
    BY <1>1 DEF PurgePage
  <2> QED BY <2>1, StalePurge DEF CutoffInv, Next
<1>2. CASE UNCHANGED vars
  BY <1>2
<1>3. CASE \E a \in Actors, t \in Instants : ActorStep(a, t)
  BY <1>3 DEF Next
<1>4. CASE \E open \in BOOLEAN, t \in Instants : SetEnrollment(open, t)
  BY <1>4 DEF Next
<1> QED
  BY <1>1, <1>2, <1>3, <1>4
     DEF RunNext, RunStep, Started, Concurrently, BeginRetentionRun, ReadPage, ReadFails,
         PurgeFails, FinishRetentionRun, FinishFails, Crash, allVars

(* Commands that hand over stale pages, fail or die between two             *)
(* transactions never make the tables take a step of their own.             *)
THEOREM RunImplementsRepository == RunSpec => Spec
BY CutoffInit, CutoffStep, RunStepImplements, PTL DEF RunSpec, Spec

(* While commands purge, no suspension is shed and no row breaks a          *)
(* constraint of its table.                                                 *)
THEOREM RunKeepsSuspensions == RunSpec => [](SuspensionNotShed /\ SchemaChecks)
BY RunImplementsRepository, SuspensionSafe, SchemaSafe, PTL

-----------------------------------------------------------------------------
(* Snapshots.  Each candidate of a page is bound to the row it was read     *)
(* from: the versions of the row never fall behind the snapshot's, and once *)
(* the row is touched they are ahead of it, or the row is gone, for good.   *)

LifecycleSnapshot(c, r, e, m, o, isTouched) ==
    /\ c.relayEvent <= e.id
    /\ c.relayEvent = e.id /\ e.kind # "none" =>
          /\ r.lifecycle # "absent"
          /\ c.moderationEvent <= MaxEventID(m)
          /\ c.revision <= o.revision
          /\ isTouched => c.moderationEvent < MaxEventID(m) \/ c.revision < o.revision

DiscoverySnapshot(c, d, e, o, isTouched) ==
    /\ c.discoveryEvent <= MaxEventID(e)
    /\ c.discoveryEvent = MaxEventID(e) /\ d.state # "absent" =>
          /\ c.revision <= o.revision
          /\ isTouched => c.revision < o.revision

SnapshotType(c) ==
    /\ c.actor \in Actors
    /\ c.kind \in CandidateKinds
    /\ c.relayEvent \in Nat /\ c.moderationEvent \in Nat /\ c.discoveryEvent \in Nat
    /\ c.revision \in Nat

Snapshot(c, changed) ==
    /\ SnapshotType(c)
    /\ c.kind = "lifecycle" =>
          LifecycleSnapshot(c, relays[c.actor], relayEvents[c.actor], moderationEvents[c.actor],
                            observations[c.actor], <<c.actor, "lifecycle">> \in changed)
    /\ c.kind = "discovery" =>
          DiscoverySnapshot(c, discoveries[c.actor], discoveryEvents[c.actor],
                            observations[c.actor], <<c.actor, "discovery">> \in changed)

LEMMA LedgerVersions ==
    ASSUME TypeOK, NEW a \in Actors
    PROVE  /\ relayEvents[a].id \in Nat
           /\ MaxEventID(relayEvents[a]) \in Nat
           /\ MaxEventID(moderationEvents[a]) \in Nat
           /\ MaxEventID(discoveryEvents[a]) \in Nat
           /\ observations[a].revision \in Nat
BY DEF TypeOK, Ledger, MaxEventID, ObservationRow

LEMMA FreshSnapshot ==
    ASSUME IInv, NEW cutoff, NEW c \in PurgeCandidates(cutoff)
    PROVE  Snapshot(c, {})
<1>1. PICK a \in Actors, kind \in CandidateKinds :
          PurgeEligible(a, kind, cutoff) /\ c = RetentionState(a, kind)
  BY DEF PurgeCandidates
<1>2. /\ relayEvents[a].id \in Nat
      /\ MaxEventID(relayEvents[a]) \in Nat
      /\ MaxEventID(moderationEvents[a]) \in Nat
      /\ MaxEventID(discoveryEvents[a]) \in Nat
      /\ observations[a].revision \in Nat
  BY LedgerVersions DEF IInv
<1>3. CASE kind = "lifecycle"
  <2>1. HasRelay(a) /\ relayEvents[a].kind # "none"
    BY <1>1, <1>3 DEF PurgeEligible, HasRelay, IInv, ActorInv, LifecycleInv, RegisteringKinds
  <2>2. /\ c.actor = a /\ c.kind = "lifecycle" /\ c.relayEvent = relayEvents[a].id
        /\ c.moderationEvent = MaxEventID(moderationEvents[a]) /\ c.discoveryEvent = 0
        /\ c.revision = observations[a].revision
    BY <1>1, <1>3, <2>1 DEF RetentionState, MaxEventID
  <2> QED BY <1>1, <1>2, <1>3, <2>1, <2>2 DEF Snapshot, SnapshotType, LifecycleSnapshot, HasRelay
<1>4. CASE kind = "discovery"
  <2>1. /\ c.actor = a /\ c.kind = "discovery" /\ c.relayEvent = 0 /\ c.moderationEvent = 0
        /\ c.discoveryEvent = MaxEventID(discoveryEvents[a])
        /\ c.revision = observations[a].revision
    BY <1>1, <1>4 DEF RetentionState
  <2> QED BY <1>1, <1>2, <1>4, <2>1 DEF Snapshot, SnapshotType, DiscoverySnapshot
<1> QED BY <1>1, <1>3, <1>4 DEF CandidateKinds

(* What a step does to the observation of a row that keeps an owner. *)
LEMMA RevisionGrows ==
    ASSUME IInv, [Next]_vars, NEW a \in Actors,
           relays'[a].lifecycle # "absent" \/ discoveries'[a].state # "absent"
    PROVE  /\ observations[a].revision <= observations'[a].revision
           /\ observations'[a] # observations[a] =>
                 observations[a].revision < observations'[a].revision
<1> DEFINE o == observations[a]
           p == observations'[a]
<1>1. IInv'
  BY NextInv
<1>2. o.revision \in Nat /\ p.revision \in Nat
  BY <1>1 DEF IInv, TypeOK, ObservationRow
<1>3. /\ o.state = "none" => o = NoObservation
      /\ p.state # "none" => 1 <= p.revision
  BY <1>1 DEF IInv, ActorInv, ObservationInv, ObservationChecks
<1>4. o.state # "none" => p.state # "none"
  BY StepVersioned DEF Versioned, ObservationOwned
<1>5. p.state = "none" => p = NoObservation
  BY <1>1 DEF IInv, ActorInv, ObservationInv
<1>6. EvidenceForward(o, p)
  BY StepForward
<1>7. NoObservation.revision = 0
  BY DEF NoObservation
<1> HIDE DEF o, p
<1>8. o.revision <= p.revision /\ (p # o => o.revision < p.revision)
  BY <1>2, <1>3, <1>4, <1>5, <1>6, <1>7 DEF EvidenceForward
<1> QED BY <1>8 DEF o, p

(* The versions a snapshot carries stay comparable, whatever the step. *)
LEMMA LifecycleSnapshotKept ==
    ASSUME IInv, [Next]_vars, NEW c, SnapshotType(c), NEW isTouched, NEW stays,
           LifecycleSnapshot(c, relays[c.actor], relayEvents[c.actor],
                             moderationEvents[c.actor], observations[c.actor], isTouched),
           stays => isTouched \/ <<c.actor, "lifecycle">> \in Changed
    PROVE  LifecycleSnapshot(c, relays'[c.actor], relayEvents'[c.actor],
                             moderationEvents'[c.actor], observations'[c.actor], stays)
<1> DEFINE a == c.actor
<1>1. a \in Actors /\ c.relayEvent \in Nat /\ c.moderationEvent \in Nat /\ c.revision \in Nat
  BY DEF SnapshotType
<1>2. IInv'
  BY NextInv
<1>3. /\ relayEvents[a].id \in Nat /\ relayEvents'[a].id \in Nat
      /\ MaxEventID(moderationEvents[a]) \in Nat /\ MaxEventID(moderationEvents'[a]) \in Nat
      /\ observations[a].revision \in Nat /\ observations'[a].revision \in Nat
  BY <1>1, <1>2, LedgerVersions DEF IInv, TypeOK, Ledger, MaxEventID, ObservationRow
<1>4. Versioned(a)
  BY <1>1, StepVersioned
<1>5. c.relayEvent <= relayEvents'[a].id
  BY <1>1, <1>3, <1>4 DEF Versioned, RelayVersioned, LifecycleSnapshot
<1>6. ASSUME c.relayEvent = relayEvents'[a].id, relayEvents'[a].kind # "none"
      PROVE  /\ relays'[a].lifecycle # "absent"
             /\ c.moderationEvent <= MaxEventID(moderationEvents'[a])
             /\ c.revision <= observations'[a].revision
             /\ stays => \/ c.moderationEvent < MaxEventID(moderationEvents'[a])
                         \/ c.revision < observations'[a].revision
  <2>1. /\ relayEvents'[a] = relayEvents[a]
        /\ relays'[a].lifecycle = relays[a].lifecycle
        /\ \/ relays'[a] = relays[a]
           \/ MaxEventID(moderationEvents'[a]) > MaxEventID(moderationEvents[a])
    BY <1>1, <1>3, <1>4, <1>6 DEF Versioned, RelayVersioned, LifecycleSnapshot
  <2>2. /\ relays'[a].lifecycle # "absent"
        /\ c.moderationEvent <= MaxEventID(moderationEvents[a])
        /\ c.revision <= observations[a].revision
        /\ isTouched => \/ c.moderationEvent < MaxEventID(moderationEvents[a])
                        \/ c.revision < observations[a].revision
    BY <1>6, <2>1 DEF LifecycleSnapshot
  <2>3. /\ observations[a].revision <= observations'[a].revision
        /\ observations'[a] # observations[a] =>
              observations[a].revision < observations'[a].revision
    BY <1>1, <2>2, RevisionGrows
  <2>4. \/ moderationEvents'[a] = moderationEvents[a]
        \/ MaxEventID(moderationEvents'[a]) > MaxEventID(moderationEvents[a])
    BY <1>4 DEF Versioned, ModerationVersioned
  <2>5. MaxEventID(moderationEvents[a]) <= MaxEventID(moderationEvents'[a])
    BY <1>3, <2>4
  <2>6. <<a, "lifecycle">> \in Changed =>
            \/ observations'[a] # observations[a]
            \/ relays'[a] # relays[a]
            \/ moderationEvents'[a] # moderationEvents[a]
    BY <2>1 DEF Changed
  <2>7. stays => \/ isTouched
                 \/ MaxEventID(moderationEvents'[a]) > MaxEventID(moderationEvents[a])
                 \/ observations[a].revision < observations'[a].revision
    BY <2>1, <2>3, <2>4, <2>6
  <2> HIDE DEF a
  <2> QED BY <1>1, <1>3, <2>2, <2>3, <2>5, <2>7
<1> QED BY <1>5, <1>6 DEF LifecycleSnapshot

LEMMA DiscoverySnapshotKept ==
    ASSUME IInv, [Next]_vars, NEW c, SnapshotType(c), NEW isTouched, NEW stays,
           DiscoverySnapshot(c, discoveries[c.actor], discoveryEvents[c.actor],
                             observations[c.actor], isTouched),
           stays => isTouched \/ <<c.actor, "discovery">> \in Changed
    PROVE  DiscoverySnapshot(c, discoveries'[c.actor], discoveryEvents'[c.actor],
                             observations'[c.actor], stays)
<1> DEFINE a == c.actor
<1>1. a \in Actors /\ c.discoveryEvent \in Nat /\ c.revision \in Nat
  BY DEF SnapshotType
<1>2. IInv'
  BY NextInv
<1>3. /\ MaxEventID(discoveryEvents[a]) \in Nat /\ MaxEventID(discoveryEvents'[a]) \in Nat
      /\ observations[a].revision \in Nat /\ observations'[a].revision \in Nat
  BY <1>1, <1>2, LedgerVersions DEF IInv, TypeOK, Ledger, MaxEventID, ObservationRow
<1>4. \/ MaxEventID(discoveryEvents'[a]) > MaxEventID(discoveryEvents[a])
      \/ /\ discoveryEvents'[a] = discoveryEvents[a]
         /\ discoveries'[a] \in {discoveries[a], NoDiscovery}
  BY <1>1, StepVersioned DEF Versioned, DiscoveryVersioned
<1>5. c.discoveryEvent <= MaxEventID(discoveryEvents'[a])
  BY <1>1, <1>3, <1>4 DEF DiscoverySnapshot
<1>6. ASSUME c.discoveryEvent = MaxEventID(discoveryEvents'[a]),
             discoveries'[a].state # "absent"
      PROVE  /\ c.revision <= observations'[a].revision
             /\ stays => c.revision < observations'[a].revision
  <2>1. discoveryEvents'[a] = discoveryEvents[a] /\ discoveries'[a] = discoveries[a]
    BY <1>1, <1>3, <1>4, <1>6 DEF DiscoverySnapshot, NoDiscovery
  <2>2. /\ c.revision <= observations[a].revision
        /\ isTouched => c.revision < observations[a].revision
    BY <1>6, <2>1 DEF DiscoverySnapshot
  <2>3. /\ observations[a].revision <= observations'[a].revision
        /\ observations'[a] # observations[a] =>
              observations[a].revision < observations'[a].revision
    BY <1>1, <1>6, RevisionGrows
  <2>4. <<a, "discovery">> \in Changed => observations'[a] # observations[a]
    BY <2>1 DEF Changed
  <2> HIDE DEF a
  <2> QED BY <1>1, <1>3, <2>2, <2>3, <2>4 DEF a
<1> QED BY <1>5, <1>6 DEF DiscoverySnapshot

LEMMA SnapshotKept ==
    ASSUME IInv, [Next]_vars, NEW c, NEW r \in Runs, Snapshot(c, touched[r]),
           touched'[r] \subseteq touched[r] \cup Changed
    PROVE  Snapshot(c, touched[r])'
<1>1. SnapshotType(c)
  BY DEF Snapshot
<1>2. ASSUME c.kind = "lifecycle"
      PROVE  LifecycleSnapshot(c, relays'[c.actor], relayEvents'[c.actor],
                               moderationEvents'[c.actor], observations'[c.actor],
                               <<c.actor, "lifecycle">> \in touched'[r])
  <2> DEFINE isTouched == <<c.actor, "lifecycle">> \in touched[r]
             stays     == <<c.actor, "lifecycle">> \in touched'[r]
  <2>1. stays => isTouched \/ <<c.actor, "lifecycle">> \in Changed
    OBVIOUS
  <2>2. LifecycleSnapshot(c, relays[c.actor], relayEvents[c.actor],
                          moderationEvents[c.actor], observations[c.actor], isTouched)
    BY <1>2 DEF Snapshot
  <2> HIDE DEF isTouched, stays
  <2>3. LifecycleSnapshot(c, relays'[c.actor], relayEvents'[c.actor],
                          moderationEvents'[c.actor], observations'[c.actor], stays)
    BY <1>1, <2>1, <2>2, LifecycleSnapshotKept
  <2> QED BY <2>3 DEF stays
<1>3. ASSUME c.kind = "discovery"
      PROVE  DiscoverySnapshot(c, discoveries'[c.actor], discoveryEvents'[c.actor],
                               observations'[c.actor],
                               <<c.actor, "discovery">> \in touched'[r])
  <2> DEFINE isTouched == <<c.actor, "discovery">> \in touched[r]
             stays     == <<c.actor, "discovery">> \in touched'[r]
  <2>1. stays => isTouched \/ <<c.actor, "discovery">> \in Changed
    OBVIOUS
  <2>2. DiscoverySnapshot(c, discoveries[c.actor], discoveryEvents[c.actor],
                          observations[c.actor], isTouched)
    BY <1>3 DEF Snapshot
  <2> HIDE DEF isTouched, stays
  <2>3. DiscoverySnapshot(c, discoveries'[c.actor], discoveryEvents'[c.actor],
                          observations'[c.actor], stays)
    BY <1>1, <2>1, <2>2, DiscoverySnapshotKept
  <2> QED BY <2>3 DEF stays
<1> QED BY <1>1, <1>2, <1>3 DEF Snapshot, SnapshotType

(* A snapshot that still matches its row was taken of the row as it is. *)
LEMMA MatchUntouched ==
    ASSUME IInv, NEW c, NEW changed, Snapshot(c, changed), NEW cutoff,
           RetentionStateMatches(c, cutoff)
    PROVE  <<c.actor, c.kind>> \notin changed
<1> DEFINE a == c.actor
<1>1. a \in Actors /\ c.kind \in CandidateKinds
  BY DEF Snapshot, SnapshotType
<1>2. PurgeEligible(a, c.kind, cutoff) /\ c = RetentionState(a, c.kind)
  BY DEF RetentionStateMatches
<1>3. /\ MaxEventID(moderationEvents[a]) \in Nat
      /\ observations[a].revision \in Nat
  BY <1>1, LedgerVersions DEF IInv
<1>4. CASE c.kind = "lifecycle"
  <2>1. relayEvents[a].kind # "none"
    BY <1>1, <1>2, <1>4 DEF PurgeEligible, IInv, ActorInv, LifecycleInv
  <2>2. /\ c.relayEvent = relayEvents[a].id
        /\ c.moderationEvent = MaxEventID(moderationEvents[a])
        /\ c.revision = observations[a].revision
    BY <1>2, <1>4, <2>1 DEF RetentionState, MaxEventID
  <2> QED BY <1>3, <1>4, <2>1, <2>2 DEF Snapshot, LifecycleSnapshot
<1>5. CASE c.kind = "discovery"
  <2>1. discoveries[a].state # "absent"
    BY <1>1, <1>2, <1>5 DEF PurgeEligible
  <2>2. /\ c.discoveryEvent = MaxEventID(discoveryEvents[a])
        /\ c.revision = observations[a].revision
    BY <1>2, <1>5 DEF RetentionState
  <2> QED BY <1>3, <1>5, <2>1, <2>2 DEF Snapshot, DiscoverySnapshot
<1> QED BY <1>1, <1>4, <1>5 DEF CandidateKinds

-----------------------------------------------------------------------------
(* Pages.  The rows of a read are in a strict order and finitely many, so   *)
(* that what is shown of keyset pages holds of every page of a run.         *)

RowFor(c) == [key |-> <<c.inactive, Rank[c.actor], IF c.kind = "discovery" THEN 0 ELSE 1>>,
              candidate |-> c]

RowAt(a, kind) == RowFor(RetentionState(a, kind))

LEMMA StateFields ==
    ASSUME NEW a, NEW kind \in CandidateKinds
    PROVE  /\ RetentionState(a, kind).actor = a
           /\ RetentionState(a, kind).kind = kind
           /\ RetentionState(a, kind).inactive =
                IF kind = "lifecycle" THEN InactiveAt(relays[a]) ELSE discoveries[a].removed
BY DEF RetentionState, CandidateKinds

LEMMA RowFields ==
    ASSUME NEW a, NEW kind \in CandidateKinds
    PROVE  /\ RowAt(a, kind).candidate = RetentionState(a, kind)
           /\ RowAt(a, kind).key = <<RetentionState(a, kind).inactive, Rank[a],
                                     IF kind = "discovery" THEN 0 ELSE 1>>
<1>1. /\ RowAt(a, kind).candidate = RetentionState(a, kind)
      /\ RowAt(a, kind).key = <<RetentionState(a, kind).inactive,
                                Rank[RetentionState(a, kind).actor],
                                IF RetentionState(a, kind).kind = "discovery" THEN 0 ELSE 1>>
  BY DEF RowAt, RowFor
<1> QED BY <1>1, StateFields

LEMMA RowMember ==
    ASSUME NEW cutoff
    PROVE  /\ \A row : row \in CandidateRows(cutoff) <=>
                 \E a \in Actors, kind \in CandidateKinds :
                    PurgeEligible(a, kind, cutoff) /\ row = RowAt(a, kind)
           /\ \A row \in CandidateRows(cutoff) : /\ row.candidate \in PurgeCandidates(cutoff)
                                                 /\ row = RowFor(row.candidate)
<1>1. ASSUME NEW row \in CandidateRows(cutoff)
      PROVE  /\ row.candidate \in PurgeCandidates(cutoff)
             /\ row = RowFor(row.candidate)
  BY DEF CandidateRows, RowFor
<1>2. ASSUME NEW c \in PurgeCandidates(cutoff)
      PROVE  \E a \in Actors, kind \in CandidateKinds :
                PurgeEligible(a, kind, cutoff) /\ c = RetentionState(a, kind)
  BY DEF PurgeCandidates
<1>3. ASSUME NEW a \in Actors, NEW kind \in CandidateKinds, PurgeEligible(a, kind, cutoff)
      PROVE  RowAt(a, kind) \in CandidateRows(cutoff)
  <2> DEFINE x == <<a, kind>>
  <2>1. x \in {y \in Actors \X CandidateKinds : PurgeEligible(y[1], y[2], cutoff)}
    BY <1>3
  <2>2. RetentionState(a, kind) = RetentionState(x[1], x[2])
    OBVIOUS
  <2> HIDE DEF x
  <2>3. RetentionState(a, kind) \in PurgeCandidates(cutoff)
    BY <2>1, <2>2 DEF PurgeCandidates
  <2> QED BY <2>3 DEF CandidateRows, RowAt, RowFor
<1>4. ASSUME NEW row \in CandidateRows(cutoff)
      PROVE  \E a \in Actors, kind \in CandidateKinds :
                PurgeEligible(a, kind, cutoff) /\ row = RowAt(a, kind)
  <2>1. PICK a \in Actors, kind \in CandidateKinds :
            PurgeEligible(a, kind, cutoff) /\ row.candidate = RetentionState(a, kind)
    BY <1>1, <1>2
  <2>2. row = RowAt(a, kind)
    BY <1>1, <2>1 DEF RowAt
  <2> QED BY <2>1, <2>2
<1> QED BY <1>1, <1>3, <1>4

(* What makes a row eligible also makes its snapshot valid. *)
LEMMA EligibleValid ==
    ASSUME IInv, NEW a \in Actors, NEW kind \in CandidateKinds, NEW cutoff \in Instants,
           PurgeEligible(a, kind, cutoff)
    PROVE  /\ Valid(RetentionState(a, kind))
           /\ RetentionState(a, kind).inactive \in Nat
           /\ RetentionState(a, kind).inactive <= cutoff
<1> DEFINE c == RetentionState(a, kind)
<1>1. relays[a] \in RelayRow /\ discoveries[a] \in DiscoveryRow /\ ActorInv(a)
  BY DEF IInv, TypeOK
<1>2. CASE kind = "lifecycle"
  <2>1. /\ c.state = relays[a].lifecycle /\ c.inactive = InactiveAt(relays[a])
        /\ c.updated = relays[a].updated /\ c.kind = kind
    BY <1>2 DEF RetentionState
  <2>2. /\ relays[a].lifecycle \in {"unregistered", "pruned"}
        /\ InactiveAt(relays[a]) <= cutoff
    BY <1>2 DEF PurgeEligible
  <2>3. RelayChecks(relays[a])
    BY <1>1 DEF ActorInv, RelayInv
  <2> DEFINE r == relays[a]
  <2> HIDE DEF c, r
  <2>4. /\ 0 <= InactiveAt(r) /\ InactiveAt(r) <= r.updated /\ InactiveAt(r) \in Nat
    BY <1>1, <2>2, <2>3 DEF r, RelayChecks, InactiveAt, RelayRow, Stamp, Never
  <2> QED BY <1>2, <2>1, <2>2, <2>4 DEF Valid, r, c
<1>3. CASE kind = "discovery"
  <2>1. /\ c.inactive = discoveries[a].removed
        /\ c.updated = discoveries[a].updated /\ c.kind = kind
    BY <1>3 DEF RetentionState
  <2>2. discoveries[a].state = "removed" /\ discoveries[a].removed <= cutoff
    BY <1>3 DEF PurgeEligible
  <2>3. DiscoveryChecks(discoveries[a])
    BY <1>1 DEF ActorInv, DiscoveryInv
  <2> DEFINE d == discoveries[a]
  <2> HIDE DEF c, d
  <2>4. 0 <= d.removed /\ d.removed <= d.updated /\ d.removed \in Nat
    BY <1>1, <2>2, <2>3 DEF d, DiscoveryChecks, DiscoveryRow, Stamp, Never
  <2> QED BY <1>3, <2>1, <2>2, <2>4 DEF Valid, d, c
<1> QED BY <1>2, <1>3 DEF CandidateKinds

LEMMA RowsInOrder ==
    ASSUME IInv, NEW cutoff \in Instants, NEW rows \in SUBSET CandidateRows(cutoff)
    PROVE  IsFiniteSet(rows) /\ Chain(rows)
<1>1. ASSUME NEW row \in rows
      PROVE  \E a \in Actors, kind \in CandidateKinds :
                /\ row = RowAt(a, kind)
                /\ row.candidate.actor = a /\ row.candidate.kind = kind
                /\ row.key = <<RetentionState(a, kind).inactive, Rank[a],
                               IF kind = "discovery" THEN 0 ELSE 1>>
                /\ RetentionState(a, kind).inactive \in Nat /\ Rank[a] \in Nat
  <2>1. PICK a \in Actors, kind \in CandidateKinds :
            PurgeEligible(a, kind, cutoff) /\ row = RowAt(a, kind)
    BY RowMember
  <2>2. RetentionState(a, kind).inactive \in Nat
    BY <2>1, EligibleValid
  <2>3. Rank[a] \in Nat
    BY RankAssumption
  <2> QED BY <2>1, <2>2, <2>3, RowFields, StateFields
<1>2. ASSUME NEW row \in rows PROVE \E i, j, k \in Int : row.key = <<i, j, k>>
  BY <1>1
<1>3. ASSUME NEW row \in rows, NEW other \in rows, row.key = other.key PROVE row = other
  <2>1. PICK a \in Actors, kind \in CandidateKinds :
            /\ row = RowAt(a, kind)
            /\ row.key = <<RetentionState(a, kind).inactive, Rank[a],
                           IF kind = "discovery" THEN 0 ELSE 1>>
    BY <1>1
  <2>2. PICK b \in Actors, other_kind \in CandidateKinds :
            /\ other = RowAt(b, other_kind)
            /\ other.key = <<RetentionState(b, other_kind).inactive, Rank[b],
                             IF other_kind = "discovery" THEN 0 ELSE 1>>
    BY <1>1
  <2>3. Rank[a] = Rank[b] /\ ((kind = "discovery") <=> (other_kind = "discovery"))
    BY <1>3, <2>1, <2>2
  <2>4. a = b /\ kind = other_kind
    BY <2>3, RankAssumption DEF CandidateKinds
  <2> QED BY <2>1, <2>2, <2>4
<1>4. Chain(rows)
  BY <1>2, <1>3, TripleChain
<1>5. IsFiniteSet(CandidateKinds)
  <2>1. IsFiniteSet({"lifecycle"} \cup {"discovery"})
    BY FS_Singleton, FS_Union
  <2>2. CandidateKinds = {"lifecycle"} \cup {"discovery"}
    BY DEF CandidateKinds
  <2> QED BY <2>1, <2>2
<1>6. IsFiniteSet(Actors \X CandidateKinds)
  BY <1>5, ActorsFinite, FS_Product
<1> DEFINE f == [row \in rows |-> <<row.candidate.actor, row.candidate.kind>>]
<1>7. f \in [rows -> Actors \X CandidateKinds]
  BY <1>1
<1>8. ASSUME NEW row \in rows, NEW other \in rows, f[row] = f[other] PROVE row = other
  <2>1. row.candidate.actor = other.candidate.actor /\ row.candidate.kind = other.candidate.kind
    BY <1>8
  <2> QED BY <1>1, <2>1
<1>9. f \in Injection(rows, Actors \X CandidateKinds)
  BY <1>7, <1>8 DEF Injection, IsInjective
<1> HIDE DEF f
<1>10. IsFiniteSet(rows)
  BY <1>6, <1>9, FS_Injection
<1> QED BY <1>4, <1>10

(* The page a run reads: never refused, and no larger than asked for. *)
LEMMA PageValid ==
    ASSUME IInv, NEW cutoff \in Instants, NEW cursor, NEW limit \in Nat \ {0},
           NEW rows, rows = AfterCursor(CandidateRows(cutoff), cursor)
    PROVE  /\ IsFiniteSet(rows) /\ Chain(rows) /\ rows \in SUBSET CandidateRows(cutoff)
           /\ IsFiniteSet(PageOf(rows, limit)) /\ Cardinality(PageOf(rows, limit)) <= limit
           /\ PageOf(rows, limit) \in SUBSET CandidateRows(cutoff)
           /\ ValidPage(PageOf(rows, limit), NextCursor(rows, limit), cursor, limit, cutoff)
<1>1. rows \in SUBSET CandidateRows(cutoff)
  BY DEF AfterCursor
<1>2. IsFiniteSet(rows) /\ Chain(rows)
  BY <1>1, RowsInOrder
<1>3. IsFiniteSet(PageOf(rows, limit)) /\ Cardinality(PageOf(rows, limit)) <= limit
  BY <1>2, PageBounded
<1>4. PageOf(rows, limit) \in SUBSET rows
  BY DEF PageOf
<1>5. \A row \in PageOf(rows, limit) : Before(cursor, row.key)
  BY <1>4 DEF AfterCursor
<1>6. NextCursor(rows, limit) # Start =>
          PageOf(rows, limit) # {} /\ NextCursor(rows, limit) = LastKey(PageOf(rows, limit))
  BY <1>2, CursorIsLast
<1>7. WellFormedPage(PageOf(rows, limit), NextCursor(rows, limit), cursor, limit)
  BY <1>3, <1>5, <1>6 DEF WellFormedPage
<1>8. ASSUME NEW row \in PageOf(rows, limit)
      PROVE  Valid(row.candidate) /\ row.candidate.inactive <= cutoff
  <2>1. PICK a \in Actors, kind \in CandidateKinds :
            PurgeEligible(a, kind, cutoff) /\ row = RowAt(a, kind)
    BY <1>1, <1>4, RowMember
  <2> QED BY <2>1, RowFields, EligibleValid
<1> QED BY <1>1, <1>2, <1>3, <1>4, <1>7, <1>8 DEF ValidPage

-----------------------------------------------------------------------------
(* Batches.  Whatever part of its page is stale, the counts of a batch are  *)
(* those of the rows it deletes, and they add up.                           *)

LEMMA PageCandidates ==
    ASSUME NEW page, IsFiniteSet(page), \A row \in page : row = RowFor(row.candidate)
    PROVE  IsFiniteSet(Candidates(page)) /\ Cardinality(Candidates(page)) = Cardinality(page)
<1> DEFINE f == [row \in page |-> row.candidate]
<1>1. f \in [page -> Candidates(page)]
  BY DEF Candidates
<1>2. ASSUME NEW row \in page, NEW other \in page, f[row] = f[other] PROVE row = other
  <2>1. row.candidate = other.candidate
    BY <1>2
  <2>2. row = RowFor(row.candidate) /\ other = RowFor(other.candidate)
    OBVIOUS
  <2> QED BY <2>1, <2>2
<1>3. \A c \in Candidates(page) : \E row \in page : f[row] = c
  BY DEF Candidates
<1>4. f \in Bijection(page, Candidates(page))
  BY <1>1, <1>2, <1>3 DEF Bijection, Injection, Surjection, IsInjective
<1> HIDE DEF f
<1>5. ExistsBijection(page, Candidates(page))
  BY <1>4 DEF ExistsBijection
<1> QED BY <1>5, FS_Bijection

(* The deleted rows of one kind are as many as the candidates that matched. *)
LEMMA MatchedCandidates ==
    ASSUME NEW batch, IsFiniteSet(batch), NEW kind \in CandidateKinds, NEW cutoff
    PROVE  LET purged  == PurgedActors(batch, kind, cutoff)
               matched == {c \in batch : c.actor \in purged /\ c = RetentionState(c.actor, kind)}
           IN  /\ IsFiniteSet(purged) /\ IsFiniteSet(matched)
               /\ Cardinality(purged) <= Cardinality(matched)
<1> DEFINE purged  == PurgedActors(batch, kind, cutoff)
           matched == {c \in batch : c.actor \in purged /\ c = RetentionState(c.actor, kind)}
           f       == [a \in purged |-> RetentionState(a, kind)]
<1>1. ASSUME NEW a \in purged PROVE f[a] \in matched
  <2>1. PICK c \in batch : c.actor = a /\ c.kind = kind /\ RetentionStateMatches(c, cutoff)
    BY DEF PurgedActors
  <2>2. c = RetentionState(a, kind)
    BY <2>1 DEF RetentionStateMatches
  <2> QED BY <2>1, <2>2
<1>2. f \in [purged -> matched]
  BY <1>1
<1>3. ASSUME NEW a \in purged, NEW b \in purged, f[a] = f[b] PROVE a = b
  <2>1. RetentionState(a, kind) = RetentionState(b, kind)
    BY <1>3
  <2> QED BY <2>1, StateFields
<1>4. f \in Injection(purged, matched)
  BY <1>2, <1>3 DEF Injection, IsInjective
<1>5. matched \in SUBSET batch
  OBVIOUS
<1> HIDE DEF f, purged, matched
<1>6. IsFiniteSet(matched)
  BY <1>5, FS_Subset
<1>7. IsFiniteSet(purged) /\ Cardinality(purged) <= Cardinality(matched)
  BY <1>4, <1>6, FS_Injection
<1> QED BY <1>6, <1>7 DEF purged, matched

LEMMA BatchCounts ==
    ASSUME NEW batch, IsFiniteSet(batch), NEW cutoff
    PROVE  LET b == BatchResult(batch, cutoff) IN
           /\ ValidBatch(batch, b)
           /\ b.attempted = Cardinality(batch)
           /\ b.attempted \in Nat /\ b.relays \in Nat /\ b.discoveries \in Nat
           /\ b.observations \in Nat /\ b.skipped \in Nat
<1> DEFINE lifecycle == PurgedActors(batch, "lifecycle", cutoff)
           discovery == PurgedActors(batch, "discovery", cutoff)
           L == {c \in batch : c.actor \in lifecycle /\ c = RetentionState(c.actor, "lifecycle")}
           D == {c \in batch : c.actor \in discovery /\ c = RetentionState(c.actor, "discovery")}
           O == {a \in UnownedActors(lifecycle, discovery) : HasObservation(a)}
           b == BatchResult(batch, cutoff)
<1>1. "lifecycle" \in CandidateKinds /\ "discovery" \in CandidateKinds
  BY DEF CandidateKinds
<1>2. IsFiniteSet(lifecycle) /\ IsFiniteSet(L) /\ Cardinality(lifecycle) <= Cardinality(L)
  BY <1>1, MatchedCandidates
<1>3. IsFiniteSet(discovery) /\ IsFiniteSet(D) /\ Cardinality(discovery) <= Cardinality(D)
  BY <1>1, MatchedCandidates
<1>4. \A c \in L : c.kind = "lifecycle"
  BY <1>1, StateFields
<1>5. \A c \in D : c.kind = "discovery"
  BY <1>1, StateFields
<1>6. L \cap D = {} /\ L \cup D \in SUBSET batch
  BY <1>4, <1>5
<1>7. O \in SUBSET (lifecycle \cup discovery)
  BY DEF UnownedActors
<1>8. /\ b.attempted = Cardinality(batch)
      /\ b.relays = Cardinality(lifecycle) /\ b.discoveries = Cardinality(discovery)
      /\ b.observations = Cardinality(O)
      /\ b.skipped = Cardinality(batch) - (Cardinality(lifecycle) + Cardinality(discovery))
  BY DEF BatchResult
<1> HIDE DEF lifecycle, discovery, L, D, O, b
<1>9. Cardinality(L \cup D) = Cardinality(L) + Cardinality(D) - Cardinality(L \cap D)
  BY <1>2, <1>3, FS_Union
<1>10. Cardinality(L \cap D) = 0
  BY <1>6, FS_EmptySet
<1>11. Cardinality(L \cup D) <= Cardinality(batch)
  BY <1>6, FS_Subset
<1>12. /\ IsFiniteSet(lifecycle \cup discovery)
       /\ Cardinality(lifecycle \cup discovery) =
            Cardinality(lifecycle) + Cardinality(discovery) - Cardinality(lifecycle \cap discovery)
  BY <1>2, <1>3, FS_Union
<1>13. IsFiniteSet(O) /\ Cardinality(O) <= Cardinality(lifecycle \cup discovery)
  BY <1>7, <1>12, FS_Subset
<1>14. IsFiniteSet(lifecycle \cap discovery)
  BY <1>2, FS_Subset
<1>15. /\ Cardinality(lifecycle) \in Nat /\ Cardinality(discovery) \in Nat
       /\ Cardinality(lifecycle \cap discovery) \in Nat
       /\ Cardinality(L) \in Nat /\ Cardinality(D) \in Nat
       /\ Cardinality(O) \in Nat /\ Cardinality(batch) \in Nat
  BY <1>2, <1>3, <1>13, <1>14, FS_CardinalityType
<1>16. Cardinality(lifecycle) + Cardinality(discovery) <= Cardinality(batch)
  BY <1>2, <1>3, <1>9, <1>10, <1>11, <1>15
<1>17. Cardinality(O) <= Cardinality(lifecycle) + Cardinality(discovery)
  BY <1>12, <1>13, <1>15
<1>18. ValidBatch(batch, b)
  BY <1>8, <1>15, <1>16, <1>17 DEF ValidBatch
<1>19. b.skipped \in Nat
  BY <1>8, <1>15, <1>16
<1> QED BY <1>8, <1>15, <1>18, <1>19 DEF b

(* A batch deletes the rows it counts. *)
LEMMA BatchDeletes ==
    ASSUME IInv, NEW batch, NEW cutoff, PurgeBatch(batch, cutoff)
    PROVE  LET b == BatchResult(batch, cutoff) IN
           /\ DeletedNow.relays = b.relays
           /\ DeletedNow.discoveries = b.discoveries
           /\ DeletedNow.observations = b.observations
<1> DEFINE lifecycle == PurgedActors(batch, "lifecycle", cutoff)
           discovery == PurgedActors(batch, "discovery", cutoff)
           unowned   == UnownedActors(lifecycle, discovery)
           b         == BatchResult(batch, cutoff)
<1>1. \A a \in Actors : /\ a \in lifecycle => HasRelay(a)
                        /\ a \in discovery => HasDiscovery(a)
  BY DEF PurgedActors, RetentionStateMatches, PurgeEligible, HasRelay, HasDiscovery
<1>2. unowned \in SUBSET Actors /\ lifecycle \in SUBSET Actors /\ discovery \in SUBSET Actors
  BY DEF UnownedActors, PurgedActors
<1>3. /\ relays' = [a \in Actors |-> IF a \in lifecycle THEN NoRelay ELSE relays[a]]
      /\ discoveries' = [a \in Actors |-> IF a \in discovery THEN NoDiscovery ELSE discoveries[a]]
      /\ observations' = [a \in Actors |->
                            IF a \in unowned THEN NoObservation ELSE observations[a]]
  BY DEF PurgeBatch
<1>4. /\ b.relays = Cardinality(lifecycle) /\ b.discoveries = Cardinality(discovery)
      /\ b.observations = Cardinality({a \in unowned : HasObservation(a)})
  BY DEF BatchResult
<1> HIDE DEF lifecycle, discovery, unowned
<1>5. {a \in Actors : HasRelay(a) /\ ~HasRelay(a)'} = lifecycle
  BY <1>1, <1>2, <1>3 DEF HasRelay, NoRelay
<1>6. {a \in Actors : HasDiscovery(a) /\ ~HasDiscovery(a)'} = discovery
  BY <1>1, <1>2, <1>3 DEF HasDiscovery, NoDiscovery
<1>7. {a \in Actors : HasObservation(a) /\ ~HasObservation(a)'} =
          {a \in unowned : HasObservation(a)}
  BY <1>2, <1>3 DEF HasObservation, NoObservation
<1> HIDE DEF b
<1> QED BY <1>4, <1>5, <1>6, <1>7 DEF DeletedNow, b

-----------------------------------------------------------------------------
(* The tables of a run.  Its variables and its audit row differ only by the *)
(* page in hand, so that the closing write always finds what the            *)
(* checkpoints recorded.                                                    *)

CountsType == [scanned : Nat, relays : Nat, discoveries : Nat, observations : Nat,
               skipped : Nat, batches : Nat, truncated : BOOLEAN]

AuditType == [outcome : {"none", "running", "completed", "canceled", "failed"},
              counts : CountsType]

DeletedType == [relays : Nat, discoveries : Nat, observations : Nat]

Phases == {"idle", "read", "purge", "finish", "done", "unfinished", "crashed"}

(* The bounds FinishRetentionRun puts on the counts of a run... *)
WithinBudget(f) ==
    /\ f.scanned <= MaxAttempts
    /\ f.scanned = 0 => f.batches = 0
    /\ f.scanned > 0 => 0 < f.batches /\ f.batches <= f.scanned

(* ... what the checkpoints g of a run that has its batches in f say... *)
Tallied(f, g) ==
    /\ WithinBudget(g)
    /\ g.relays + g.discoveries + g.skipped = g.scanned
    /\ g.observations <= g.relays + g.discoveries
    /\ f.relays = g.relays
    /\ f.discoveries = g.discoveries
    /\ f.observations = g.observations
    /\ f.skipped = g.skipped

(* ... and how far apart the two may be in each phase of the run. *)
InPhase(run, audit) ==
    LET f == run.result
        g == audit.counts
    IN
    /\ run.pc = "idle" =>
          run.err = "none" /\ f = NoCounts /\ audit = NoAudit /\ run.cursor = Start
    /\ run.pc = "read" =>
          /\ run.err = "none" /\ audit.outcome = "running"
          /\ Tallied(f, g) /\ f.scanned = g.scanned /\ f.batches = g.batches
          /\ f.scanned < MaxAttempts /\ ~f.truncated
    /\ run.pc = "purge" =>
          /\ run.err = "none" /\ audit.outcome = "running"
          /\ IsFiniteSet(run.page) /\ run.page # {}
          /\ Tallied(f, g) /\ f.batches = g.batches + 1
          /\ f.scanned = g.scanned + Cardinality(run.page) /\ f.scanned <= MaxAttempts
          /\ ~f.truncated
    /\ run.pc = "finish" =>
          /\ audit.outcome = "running"
          /\ Tallied(f, g) /\ WithinBudget(f)
          /\ f.batches >= g.batches /\ f.scanned >= g.scanned
          /\ run.err = "none" => f.scanned = g.scanned /\ f.batches = g.batches

Counted(run, audit, gone) ==
    /\ DOMAIN run = RunFields
    /\ run.cutoff \in Instants
    /\ run.pc \in Phases
    /\ run.err \in {"none", "failed", "canceled"}
    /\ run.result \in CountsType
    /\ audit \in AuditType
    /\ gone \in DeletedType
    /\ audit.counts.relays = gone.relays
    /\ audit.counts.discoveries = gone.discoveries
    /\ audit.counts.observations = gone.observations
    /\ InPhase(run, audit)

(* The page in hand holds snapshots of the rows it was read from. *)
PageInv(r) ==
    runs[r].pc = "purge" =>
        \A row \in runs[r].page : /\ row = RowFor(row.candidate)
                                  /\ Snapshot(row.candidate, touched[r])

TablesInv ==
    /\ DOMAIN runs = Runs
    /\ DOMAIN audits = Runs
    /\ DOMAIN deleted = Runs
    /\ DOMAIN touched = Runs
    /\ DOMAIN owed = Runs
    /\ \A r \in Runs : Counted(runs[r], audits[r], deleted[r])

RunInv == TablesInv /\ \A r \in Runs : PageInv(r)

LEMMA NoCountsType == NoCounts \in CountsType /\ Tallied(NoCounts, NoCounts)
BY RetentionAssumption DEF NoCounts, CountsType, Tallied, WithinBudget

LEMMA NotStartedCounted == Counted(NotStarted, NoAudit, NoneDeleted)
<1>1. NoAudit \in AuditType /\ NoneDeleted \in DeletedType
  BY NoCountsType DEF NoAudit, AuditType, NoneDeleted, DeletedType
<1>2. /\ NoAudit.counts.relays = NoneDeleted.relays
      /\ NoAudit.counts.discoveries = NoneDeleted.discoveries
      /\ NoAudit.counts.observations = NoneDeleted.observations
  BY DEF NoAudit, NoneDeleted, NoCounts
<1>3. /\ DOMAIN NotStarted = RunFields /\ NotStarted.cutoff = 0 /\ NotStarted.pc = "idle"
      /\ NotStarted.err = "none" /\ NotStarted.result = NoCounts /\ NotStarted.cursor = Start
  BY DEF NotStarted, RunFields
<1>4. 0 \in Instants
  BY BoundsAssumption DEF Instants
<1>5. InPhase(NotStarted, NoAudit)
  BY <1>3 DEF InPhase
<1> QED BY <1>1, <1>2, <1>3, <1>4, <1>5, NoCountsType DEF Counted, Phases

LEMMA RunInvInit == RunInit => RunInv
<1> SUFFICES ASSUME RunInit PROVE RunInv
  OBVIOUS
<1>1. TablesInv
  BY NotStartedCounted DEF RunInit, TablesInv
<1>2. \A r \in Runs : runs[r].pc = "idle"
  BY DEF RunInit, NotStarted
<1> QED BY <1>1, <1>2 DEF RunInv, PageInv

(* The limit of a page is at least one. *)
LEMMA LimitPositive ==
    ASSUME NEW scanned \in Nat, scanned < MaxAttempts
    PROVE  /\ Limit(scanned, PageLimit, MaxAttempts) \in Nat \ {0}
           /\ scanned + Limit(scanned, PageLimit, MaxAttempts) <= MaxAttempts
BY RetentionAssumption DEF Limit

(* Steps that leave the tables of a run alone. *)
LEMMA CountedStays ==
    ASSUME TablesInv, NEW r \in Runs, NEW q \in Runs, q # r, NEW x, NEW y, NEW z,
           runs' = [runs EXCEPT ![r] = x],
           audits' = [audits EXCEPT ![r] = y],
           deleted' = [deleted EXCEPT ![r] = z]
    PROVE  Counted(runs'[q], audits'[q], deleted'[q])
BY DEF TablesInv

LEMMA BeginCounted ==
    ASSUME TablesInv, NEW r \in Runs, NEW t \in Instants, BeginRetentionRun(r, t)
    PROVE  Counted(runs'[r], audits'[r], deleted'[r])
<1> DEFINE run == runs[r]
           audit == audits[r]
           cutoff == t - RetentionTime
<1>1. Counted(run, audit, deleted[r]) /\ run.pc = "idle"
  BY DEF TablesInv, BeginRetentionRun
<1>2. cutoff \in Instants
  BY BoundsAssumption, RetentionAssumption DEF BeginRetentionRun, Instants
<1>3. /\ runs'[r] = [run EXCEPT !.pc = "read", !.cutoff = cutoff]
      /\ audits'[r] = [audit EXCEPT !.outcome = "running"]
      /\ deleted'[r] = deleted[r]
  BY DEF BeginRetentionRun, TablesInv
<1>4. run.err = "none" /\ run.result = NoCounts /\ audit = NoAudit
  BY <1>1 DEF Counted, InPhase
<1> DEFINE run2 == runs'[r]
           audit2 == audits'[r]
<1>5. /\ DOMAIN run2 = RunFields /\ run2.pc = "read" /\ run2.cutoff = cutoff
      /\ run2.err = "none" /\ run2.result = NoCounts
  BY <1>1, <1>3, <1>4 DEF Counted, RunFields
<1>6. audit2 \in AuditType /\ audit2.outcome = "running" /\ audit2.counts = NoCounts
  BY <1>3, <1>4, NoCountsType DEF NoAudit, AuditType
<1>7. NoCounts.scanned = 0 /\ ~NoCounts.truncated /\ audit.counts = NoCounts
  BY <1>4 DEF NoCounts, NoAudit
<1> HIDE DEF run2, audit2, cutoff
<1>8. InPhase(run2, audit2)
  BY <1>5, <1>6, <1>7, NoCountsType, RetentionAssumption DEF InPhase
<1>9. Counted(run2, audit2, deleted[r])
  BY <1>1, <1>2, <1>5, <1>6, <1>7, <1>8, NoCountsType DEF Counted, Phases
<1> QED BY <1>3, <1>9 DEF run2, audit2

LEMMA AccumulatedCounts ==
    ASSUME NEW f \in CountsType, NEW truncated \in BOOLEAN, NEW b,
           b.relays \in Nat, b.discoveries \in Nat, b.observations \in Nat, b.skipped \in Nat
    PROVE  LET f2 == Accumulated(f, b, truncated) IN
           /\ f2 \in CountsType
           /\ f2.scanned = f.scanned /\ f2.batches = f.batches
           /\ f2.relays = f.relays + b.relays /\ f2.discoveries = f.discoveries + b.discoveries
           /\ f2.observations = f.observations + b.observations
           /\ f2.skipped = f.skipped + b.skipped /\ f2.truncated = truncated
<1> DEFINE v1 == f.relays + b.relays
           v2 == f.discoveries + b.discoveries
           v3 == f.observations + b.observations
           v4 == f.skipped + b.skipped
           f2 == [f EXCEPT !.relays = v1, !.discoveries = v2, !.observations = v3,
                           !.skipped = v4, !.truncated = truncated]
<1>1. v1 \in Nat /\ v2 \in Nat /\ v3 \in Nat /\ v4 \in Nat
  BY DEF CountsType
<1>2. Accumulated(f, b, truncated) = f2
  BY DEF Accumulated
<1> HIDE DEF v1, v2, v3, v4
<1>3. /\ f2 \in CountsType /\ f2.scanned = f.scanned /\ f2.batches = f.batches
      /\ f2.relays = v1 /\ f2.discoveries = v2 /\ f2.observations = v3 /\ f2.skipped = v4
      /\ f2.truncated = truncated
  BY <1>1 DEF CountsType
<1> HIDE DEF f2
<1> QED BY <1>2, <1>3 DEF v1, v2, v3, v4

LEMMA CheckpointedCounts ==
    ASSUME NEW g \in CountsType, NEW b, b.attempted \in Nat,
           b.relays \in Nat, b.discoveries \in Nat, b.observations \in Nat, b.skipped \in Nat
    PROVE  LET g2 == Checkpointed(g, b) IN
           /\ g2 \in CountsType
           /\ g2.scanned = g.scanned + b.attempted /\ g2.batches = g.batches + 1
           /\ g2.relays = g.relays + b.relays /\ g2.discoveries = g.discoveries + b.discoveries
           /\ g2.observations = g.observations + b.observations
           /\ g2.skipped = g.skipped + b.skipped
<1> DEFINE v1 == g.relays + b.relays
           v2 == g.discoveries + b.discoveries
           v3 == g.observations + b.observations
           v4 == g.skipped + b.skipped
           v5 == g.scanned + b.attempted
           v6 == g.batches + 1
           g2 == [g EXCEPT !.scanned = v5, !.relays = v1, !.discoveries = v2,
                           !.observations = v3, !.skipped = v4, !.batches = v6]
<1>1. v1 \in Nat /\ v2 \in Nat /\ v3 \in Nat /\ v4 \in Nat /\ v5 \in Nat /\ v6 \in Nat
  BY DEF CountsType
<1>2. Checkpointed(g, b) = g2
  BY DEF Checkpointed
<1> HIDE DEF v1, v2, v3, v4, v5, v6
<1>3. /\ g2 \in CountsType /\ g2.scanned = v5 /\ g2.batches = v6
      /\ g2.relays = v1 /\ g2.discoveries = v2 /\ g2.observations = v3 /\ g2.skipped = v4
  BY <1>1 DEF CountsType
<1> HIDE DEF g2
<1> QED BY <1>2, <1>3 DEF v1, v2, v3, v4, v5, v6

(* The counts of a page, taken when it is read. *)
LEMMA ReadCounts ==
    ASSUME NEW f \in CountsType, NEW n \in Nat
    PROVE  LET f2 == [f EXCEPT !.batches = @ + 1, !.scanned = @ + n] IN
           /\ f2 \in CountsType /\ f2.batches = f.batches + 1 /\ f2.scanned = f.scanned + n
           /\ f2.relays = f.relays /\ f2.discoveries = f.discoveries
           /\ f2.observations = f.observations /\ f2.skipped = f.skipped
           /\ f2.truncated = f.truncated
<1> DEFINE v1 == f.batches + 1
           v2 == f.scanned + n
           f2 == [f EXCEPT !.batches = v1, !.scanned = v2]
<1>1. v1 \in Nat /\ v2 \in Nat
  BY DEF CountsType
<1>2. [f EXCEPT !.batches = @ + 1, !.scanned = @ + n] = f2
  BY DEF CountsType
<1> HIDE DEF v1, v2
<1>3. /\ f2 \in CountsType /\ f2.batches = v1 /\ f2.scanned = v2
      /\ f2.relays = f.relays /\ f2.discoveries = f.discoveries
      /\ f2.observations = f.observations /\ f2.skipped = f.skipped
      /\ f2.truncated = f.truncated
  BY <1>1 DEF CountsType
<1> HIDE DEF f2
<1> QED BY <1>2, <1>3 DEF v1, v2

LEMMA ReadCounted ==
    ASSUME IInv, TablesInv, NEW r \in Runs, ReadPage(r)
    PROVE  /\ Counted(runs'[r], audits'[r], deleted'[r])
           /\ runs'[r].err = "none"
           /\ \/ /\ runs'[r].pc = "finish"
                 /\ AfterCursor(CandidateRows(runs[r].cutoff), runs[r].cursor) = {}
              \/ /\ runs'[r].pc = "purge"
                 /\ \E limit \in Nat \ {0} :
                       LET rows == AfterCursor(CandidateRows(runs[r].cutoff), runs[r].cursor) IN
                       /\ runs'[r].page = PageOf(rows, limit)
                       /\ runs'[r].next = NextCursor(rows, limit)
                 /\ runs'[r].cutoff = runs[r].cutoff
<1> DEFINE run   == runs[r]
           audit == audits[r]
           limit == Limit(run.result.scanned, PageLimit, MaxAttempts)
           rows  == AfterCursor(CandidateRows(run.cutoff), run.cursor)
           page  == PageOf(rows, limit)
           next  == NextCursor(rows, limit)
           f     == run.result
           g     == audit.counts
           run2  == runs'[r]
<1>1. Counted(run, audit, deleted[r]) /\ run.pc = "read"
  BY DEF TablesInv, ReadPage
<1>2. /\ run.err = "none" /\ audit.outcome = "running"
      /\ Tallied(f, g) /\ f.scanned = g.scanned /\ f.batches = g.batches
      /\ f.scanned < MaxAttempts /\ ~f.truncated
  BY <1>1 DEF Counted, InPhase
<1>3. /\ run.cutoff \in Instants /\ DOMAIN run = RunFields /\ f \in CountsType
      /\ g \in CountsType /\ f.scanned \in Nat /\ f.batches \in Nat
  BY <1>1 DEF Counted, CountsType, AuditType
<1>4. limit \in Nat \ {0} /\ f.scanned + limit <= MaxAttempts
  BY <1>2, <1>3, LimitPositive
<1> HIDE DEF limit
<1>5. /\ IsFiniteSet(rows) /\ Chain(rows) /\ IsFiniteSet(page) /\ Cardinality(page) <= limit
      /\ ValidPage(page, next, run.cursor, limit, run.cutoff)
  BY <1>3, <1>4, PageValid
<1>6. audits' = audits /\ deleted' = deleted
  BY DEF ReadPage
<1>7. \/ /\ page = {}
         /\ runs' = [runs EXCEPT ![r].pc = "finish"]
      \/ /\ page # {}
         /\ runs' = [runs EXCEPT ![r].pc   = "purge",
                                 ![r].page = page,
                                 ![r].next = next,
                                 ![r].result.batches = @ + 1,
                                 ![r].result.scanned = @ + Cardinality(page)]
  BY <1>5 DEF ReadPage, limit
<1>8. CASE page = {}
  <2>1. run2 = [run EXCEPT !.pc = "finish"]
    BY <1>7, <1>8 DEF TablesInv
  <2>2. /\ DOMAIN run2 = RunFields /\ run2.pc = "finish" /\ run2.err = "none"
        /\ run2.result = f /\ run2.cutoff = run.cutoff
    BY <1>2, <1>3, <2>1 DEF RunFields
  <2>3. rows = {}
    BY <1>4, <1>5, <1>8, PageProgress
  <2> HIDE DEF run2, page, rows, next, f, g
  <2>4. WithinBudget(f)
    BY <1>2 DEF Tallied, WithinBudget
  <2>5. f.batches >= g.batches /\ f.scanned >= g.scanned
    BY <1>2, <1>3
  <2>6. InPhase(run2, audit)
    BY <1>2, <2>2, <2>4, <2>5 DEF InPhase, f, g
  <2>7. Counted(run2, audit, deleted[r])
    BY <1>1, <2>2, <2>6 DEF Counted, Phases, f
  <2> QED BY <1>6, <2>2, <2>3, <2>7 DEF run2, rows
<1>9. CASE page # {}
  <2> DEFINE n == Cardinality(page)
             f2 == [f EXCEPT !.batches = @ + 1, !.scanned = @ + n]
  <2>1. n \in Nat /\ n # 0 /\ n <= limit
    BY <1>5, <1>9, FS_CardinalityType, FS_EmptySet
  <2>2. runs' = [runs EXCEPT ![r].pc = "purge", ![r].page = page, ![r].next = next,
                             ![r].result.batches = @ + 1, ![r].result.scanned = @ + n]
    BY <1>7, <1>9
  <2> HIDE DEF page, next, n, rows
  <2>3. /\ DOMAIN run2 = RunFields /\ run2.pc = "purge" /\ run2.err = "none"
        /\ run2.cutoff = run.cutoff /\ run2.page = page /\ run2.next = next
    BY <1>2, <1>3, <2>2 DEF RunFields, TablesInv
  <2>4. run2.result = f2
    BY <1>3, <2>2 DEF RunFields, TablesInv
  <2>5. /\ f2 \in CountsType /\ f2.batches = f.batches + 1 /\ f2.scanned = f.scanned + n
        /\ f2.relays = f.relays /\ f2.discoveries = f.discoveries
        /\ f2.observations = f.observations /\ f2.skipped = f.skipped
        /\ f2.truncated = f.truncated
    BY <1>3, <2>1, ReadCounts
  <2> HIDE DEF run2, f2, f, g
  <2>6. Tallied(f2, g)
    BY <1>2, <2>5 DEF Tallied
  <2>7. f2.batches = g.batches + 1 /\ f2.scanned = g.scanned + n /\ f2.scanned <= MaxAttempts
    BY <1>2, <1>3, <1>4, <2>1, <2>5, RetentionAssumption
  <2>8. InPhase(run2, audit)
    BY <1>2, <1>5, <1>9, <2>3, <2>4, <2>5, <2>6, <2>7 DEF InPhase, g, n
  <2>9. Counted(run2, audit, deleted[r])
    BY <1>1, <2>3, <2>4, <2>5, <2>8 DEF Counted, Phases
  <2>10. run2.page = PageOf(rows, limit) /\ run2.next = NextCursor(rows, limit)
    BY <2>3 DEF page, next
  <2> QED BY <1>4, <1>6, <2>3, <2>9, <2>10 DEF run2, rows
<1> QED BY <1>8, <1>9

(* The run after a batch whose counts add up. *)
LEMMA AfterBatchCounted ==
    ASSUME NEW run, NEW audit, NEW gone, Counted(run, audit, gone), run.pc = "purge",
           NEW b, b.attempted = Cardinality(run.page),
           b.relays \in Nat, b.discoveries \in Nat, b.observations \in Nat, b.skipped \in Nat,
           b.relays + b.discoveries + b.skipped = b.attempted,
           b.observations <= b.relays + b.discoveries
    PROVE  Counted(AfterBatch(run, b),
                   [audit EXCEPT !.counts = Checkpointed(@, b)],
                   [relays       |-> gone.relays + b.relays,
                    discoveries  |-> gone.discoveries + b.discoveries,
                    observations |-> gone.observations + b.observations])
<1> DEFINE f == run.result
           g == audit.counts
           n == Cardinality(run.page)
           last == run.next = Start
           truncated == ~last /\ f.scanned = MaxAttempts
           f2 == Accumulated(f, b, truncated)
           g2 == Checkpointed(g, b)
           run2 == AfterBatch(run, b)
           audit2 == [audit EXCEPT !.counts = Checkpointed(@, b)]
           gone2 == [relays       |-> gone.relays + b.relays,
                     discoveries  |-> gone.discoveries + b.discoveries,
                     observations |-> gone.observations + b.observations]
<1>1. /\ run.err = "none" /\ audit.outcome = "running"
      /\ IsFiniteSet(run.page) /\ run.page # {}
      /\ Tallied(f, g) /\ f.batches = g.batches + 1
      /\ f.scanned = g.scanned + n /\ f.scanned <= MaxAttempts
      /\ ~f.truncated
  BY DEF Counted, InPhase
<1>2. n \in Nat /\ n # 0
  BY <1>1, FS_CardinalityType, FS_EmptySet
<1>3. /\ DOMAIN run = RunFields /\ run.cutoff \in Instants /\ f \in CountsType
      /\ audit \in AuditType /\ g \in CountsType /\ gone \in DeletedType
      /\ g.relays = gone.relays /\ g.discoveries = gone.discoveries
      /\ g.observations = gone.observations
  BY DEF Counted, AuditType
<1>4. /\ DOMAIN run2 = RunFields
      /\ run2.pc = (IF last \/ truncated THEN "finish" ELSE "read")
      /\ run2.cutoff = run.cutoff /\ run2.err = "none" /\ run2.result = f2
  BY <1>1, <1>3 DEF AfterBatch, RunFields
<1>5. audit2.outcome = "running" /\ audit2.counts = g2
  BY <1>1, <1>3 DEF AuditType
<1> HIDE DEF n, last
<1>6. truncated \in BOOLEAN
  OBVIOUS
<1> HIDE DEF truncated
<1>7. /\ f2 \in CountsType
      /\ f2.scanned = f.scanned /\ f2.batches = f.batches
      /\ f2.relays = f.relays + b.relays /\ f2.discoveries = f.discoveries + b.discoveries
      /\ f2.observations = f.observations + b.observations
      /\ f2.skipped = f.skipped + b.skipped /\ f2.truncated = truncated
  BY <1>3, <1>6, AccumulatedCounts
<1>8. b.attempted = n
  BY DEF n
<1>9. /\ g2 \in CountsType
      /\ g2.scanned = g.scanned + n /\ g2.batches = g.batches + 1
      /\ g2.relays = g.relays + b.relays /\ g2.discoveries = g.discoveries + b.discoveries
      /\ g2.observations = g.observations + b.observations
      /\ g2.skipped = g.skipped + b.skipped
  <2>1. b.attempted \in Nat
    BY <1>2, <1>8
  <2>2. /\ g2 \in CountsType
        /\ g2.scanned = g.scanned + b.attempted /\ g2.batches = g.batches + 1
        /\ g2.relays = g.relays + b.relays /\ g2.discoveries = g.discoveries + b.discoveries
        /\ g2.observations = g.observations + b.observations
        /\ g2.skipped = g.skipped + b.skipped
    BY <1>3, <2>1, CheckpointedCounts
  <2> HIDE DEF g2, g
  <2> QED BY <1>8, <2>2
<1>10. audit2 \in AuditType
  BY <1>3, <1>9 DEF AuditType
<1>11. /\ gone2 \in DeletedType
       /\ gone2.relays = g2.relays /\ gone2.discoveries = g2.discoveries
       /\ gone2.observations = g2.observations
  BY <1>3, <1>9 DEF DeletedType
<1> HIDE DEF run2, audit2, gone2, f2, g2, f, g
<1>12. /\ f.scanned \in Nat /\ f.relays \in Nat /\ f.discoveries \in Nat /\ f.skipped \in Nat
       /\ f.observations \in Nat /\ f.batches \in Nat
       /\ g.scanned \in Nat /\ g.relays \in Nat /\ g.discoveries \in Nat /\ g.skipped \in Nat
       /\ g.observations \in Nat /\ g.batches \in Nat
  BY <1>3 DEF CountsType
<1>13. f2.scanned = g2.scanned /\ f2.batches = g2.batches
  BY <1>1, <1>7, <1>9
<1>14. WithinBudget(g2) /\ WithinBudget(f2)
  <2>1. g.batches <= g.scanned
    BY <1>1, <1>12 DEF Tallied, WithinBudget
  <2>2. /\ g2.scanned > 0 /\ g2.scanned <= MaxAttempts /\ g2.batches > 0
        /\ g2.batches <= g2.scanned /\ g2.scanned # 0
    BY <1>1, <1>2, <1>9, <1>12, <2>1, RetentionAssumption
  <2> QED BY <1>13, <2>2 DEF WithinBudget
<1>15. Tallied(f2, g2)
  <2>1. g2.relays + g2.discoveries + g2.skipped = g2.scanned
    BY <1>1, <1>2, <1>8, <1>9, <1>12 DEF Tallied
  <2>2. g2.observations <= g2.relays + g2.discoveries
    BY <1>1, <1>9, <1>12 DEF Tallied
  <2>3. /\ f2.relays = g2.relays /\ f2.discoveries = g2.discoveries
        /\ f2.observations = g2.observations /\ f2.skipped = g2.skipped
    BY <1>1, <1>7, <1>9 DEF Tallied
  <2> QED BY <1>14, <2>1, <2>2, <2>3 DEF Tallied
<1>16. run2.pc = "read" => f2.scanned < MaxAttempts /\ ~f2.truncated
  <2>1. run2.pc = "read" => ~last /\ ~truncated
    BY <1>4
  <2>2. ~last /\ ~truncated => f.scanned # MaxAttempts
    BY DEF truncated, last, f
  <2>3. f2.scanned = f.scanned /\ f.scanned <= MaxAttempts /\ f.scanned \in Nat
    BY <1>1, <1>7, <1>12, Zenon
  <2>4. f.scanned # MaxAttempts => f2.scanned < MaxAttempts
    BY <2>3, RetentionAssumption
  <2> QED BY <1>7, <2>1, <2>2, <2>4, Zenon
<1>17. f2.batches >= g2.batches /\ f2.scanned >= g2.scanned
  BY <1>7, <1>12, <1>13
<1>18. run2.pc \in {"finish", "read"}
  BY <1>4
<1>19. InPhase(run2, audit2)
  BY <1>4, <1>5, <1>13, <1>14, <1>15, <1>16, <1>17, <1>18 DEF InPhase
<1>20. Counted(run2, audit2, gone2)
  BY <1>3, <1>4, <1>5, <1>7, <1>10, <1>11, <1>18, <1>19 DEF Counted, Phases
<1> QED BY <1>20 DEF run2, audit2, gone2

LEMMA PurgeCounted ==
    ASSUME IInv, RunInv, NEW r \in Runs, PurgePage(r)
    PROVE  /\ Counted(runs'[r], audits'[r], deleted'[r])
           /\ \E b : runs' = [runs EXCEPT ![r] = AfterBatch(runs[r], b)]
<1> DEFINE run   == runs[r]
           audit == audits[r]
           gone  == deleted[r]
           batch == Candidates(run.page)
           b     == BatchResult(batch, run.cutoff)
<1>1. Counted(run, audit, gone) /\ run.pc = "purge"
  BY DEF RunInv, TablesInv, PurgePage
<1>2. IsFiniteSet(run.page) /\ \A row \in run.page : row = RowFor(row.candidate)
  BY <1>1 DEF Counted, InPhase, RunInv, PageInv
<1>3. IsFiniteSet(batch) /\ Cardinality(batch) = Cardinality(run.page)
  BY <1>2, PageCandidates
<1>4. PurgeBatch(batch, run.cutoff)
  BY DEF PurgePage
<1>5. /\ DeletedNow.relays = b.relays
      /\ DeletedNow.discoveries = b.discoveries
      /\ DeletedNow.observations = b.observations
  BY <1>4, BatchDeletes
<1> HIDE DEF batch
<1>6. /\ ValidBatch(batch, b)
      /\ b.attempted = Cardinality(batch)
      /\ b.relays \in Nat /\ b.discoveries \in Nat
      /\ b.observations \in Nat /\ b.skipped \in Nat
  BY <1>3, BatchCounts
<1>7. /\ b.observations <= b.relays + b.discoveries
      /\ b.relays + b.discoveries + b.skipped = b.attempted
  BY <1>6 DEF ValidBatch
<1>8. /\ runs' = [runs EXCEPT ![r] = AfterBatch(run, b)]
      /\ audits' = [audits EXCEPT ![r].counts = Checkpointed(@, b)]
  BY <1>6 DEF PurgePage, batch
<1>9. deleted' = [deleted EXCEPT ![r] =
                    [relays       |-> @.relays + DeletedNow.relays,
                     discoveries  |-> @.discoveries + DeletedNow.discoveries,
                     observations |-> @.observations + DeletedNow.observations]]
  BY DEF PurgePage
<1> HIDE DEF b
<1>10. Counted(AfterBatch(run, b),
               [audit EXCEPT !.counts = Checkpointed(@, b)],
               [relays       |-> gone.relays + b.relays,
                discoveries  |-> gone.discoveries + b.discoveries,
                observations |-> gone.observations + b.observations])
  BY <1>1, <1>3, <1>6, <1>7, AfterBatchCounted
<1>11. runs'[r] = AfterBatch(run, b)
  BY <1>8 DEF RunInv, TablesInv
<1>12. audits'[r] = [audit EXCEPT !.counts = Checkpointed(@, b)]
  BY <1>8 DEF RunInv, TablesInv
<1>13. deleted'[r] = [relays       |-> gone.relays + b.relays,
                      discoveries  |-> gone.discoveries + b.discoveries,
                      observations |-> gone.observations + b.observations]
  BY <1>5, <1>9 DEF RunInv, TablesInv
<1> QED BY <1>8, <1>10, <1>11, <1>12, <1>13

LEMMA FailCounted ==
    ASSUME TablesInv, NEW r \in Runs, NEW err \in Errors, ReadFails(r, err) \/ PurgeFails(r, err)
    PROVE  /\ Counted(runs'[r], audits'[r], deleted'[r])
           /\ runs'[r].pc = "finish" /\ runs'[r].err # "none"
<1> DEFINE run   == runs[r]
           audit == audits[r]
           f     == run.result
           g     == audit.counts
           run2  == runs'[r]
<1>1. Counted(run, audit, deleted[r]) /\ run.pc \in {"read", "purge"}
  BY DEF TablesInv, ReadFails, PurgeFails
<1>2. /\ DOMAIN run = RunFields /\ f \in CountsType /\ g \in CountsType
      /\ run.cutoff \in Instants
  BY <1>1 DEF Counted, AuditType
<1>3. /\ DOMAIN run2 = RunFields /\ run2.pc = "finish" /\ run2.err = err
      /\ run2.cutoff = run.cutoff /\ run2.result = f
  BY <1>2 DEF TablesInv, ReadFails, PurgeFails, RunFields
<1>4. audits' = audits /\ deleted' = deleted
  BY DEF ReadFails, PurgeFails
<1>5. err \in {"failed", "canceled"}
  BY DEF Errors
<1>6. /\ audit.outcome = "running" /\ Tallied(f, g) /\ f.scanned <= MaxAttempts
      /\ \/ f.scanned = g.scanned /\ f.batches = g.batches
         \/ \E n \in Nat \ {0} : f.scanned = g.scanned + n /\ f.batches = g.batches + 1
  <2>1. CASE run.pc = "read"
    BY <1>1, <2>1 DEF Counted, InPhase, Tallied, WithinBudget
  <2>2. CASE run.pc = "purge"
    <3>1. Cardinality(run.page) \in Nat \ {0}
      BY <1>1, <2>2, FS_CardinalityType, FS_EmptySet DEF Counted, InPhase
    <3> QED BY <1>1, <2>2, <3>1 DEF Counted, InPhase
  <2> QED BY <1>1, <2>1, <2>2
<1> HIDE DEF run2, f, g
<1>7. f.scanned \in Nat /\ f.batches \in Nat /\ g.scanned \in Nat /\ g.batches \in Nat
  BY <1>2 DEF CountsType
<1>8. /\ WithinBudget(f) /\ f.batches >= g.batches /\ f.scanned >= g.scanned
  BY <1>6, <1>7, RetentionAssumption DEF Tallied, WithinBudget
<1>9. InPhase(run2, audit)
  BY <1>3, <1>5, <1>6, <1>8 DEF InPhase, g
<1>10. Counted(run2, audit, deleted[r])
  BY <1>1, <1>2, <1>3, <1>5, <1>9 DEF Counted, Phases
<1> QED BY <1>3, <1>4, <1>5, <1>10 DEF run2

(* The closing write is never refused. *)
LEMMA FinishCounted ==
    ASSUME TablesInv, NEW r \in Runs, FinishRetentionRun(r)
    PROVE  /\ Counted(runs'[r], audits'[r], deleted'[r])
           /\ runs'[r].pc = "done"
           /\ audits'[r].outcome = "completed" => runs[r].err = "none"
           /\ audits'[r].counts = runs[r].result
           /\ runs' = [runs EXCEPT ![r].pc = "done"]
<1> DEFINE run     == runs[r]
           audit   == audits[r]
           f       == run.result
           g       == audit.counts
           outcome == Outcome(run.err)
           run2    == runs'[r]
           audit2  == audits'[r]
<1>1. Counted(run, audit, deleted[r]) /\ run.pc = "finish"
  BY DEF TablesInv, FinishRetentionRun
<1>2. /\ DOMAIN run = RunFields /\ f \in CountsType /\ g \in CountsType
      /\ run.cutoff \in Instants /\ run.err \in {"none", "failed", "canceled"}
      /\ audit \in AuditType /\ deleted[r] \in DeletedType
      /\ g.relays = deleted[r].relays /\ g.discoveries = deleted[r].discoveries
      /\ g.observations = deleted[r].observations
  BY <1>1 DEF Counted, AuditType
<1>3. /\ Tallied(f, g) /\ WithinBudget(f)
      /\ f.batches >= g.batches /\ f.scanned >= g.scanned
      /\ run.err = "none" => f.scanned = g.scanned /\ f.batches = g.batches
  BY <1>1 DEF Counted, InPhase
<1>4. /\ outcome \in {"completed", "canceled", "failed"}
      /\ outcome = "completed" => run.err = "none"
  BY <1>2 DEF Outcome
<1> HIDE DEF f, g, outcome
<1>5. FinishAccepts(f, g, outcome)
  <2>1. /\ f.scanned \in Nat /\ f.relays \in Nat /\ f.discoveries \in Nat /\ f.skipped \in Nat
        /\ g.scanned \in Nat /\ g.relays \in Nat /\ g.discoveries \in Nat /\ g.skipped \in Nat
    BY <1>2 DEF CountsType
  <2>2. /\ f.relays = g.relays /\ f.discoveries = g.discoveries /\ f.skipped = g.skipped
        /\ f.observations = g.observations
        /\ g.relays + g.discoveries + g.skipped = g.scanned
        /\ g.observations <= g.relays + g.discoveries
    BY <1>3 DEF Tallied
  <2>3. /\ f.relays + f.discoveries + f.skipped <= f.scanned
        /\ f.scanned = g.scanned => f.relays + f.discoveries + f.skipped = f.scanned
        /\ f.observations <= f.relays + f.discoveries
    BY <1>3, <2>1, <2>2
  <2> QED BY <1>3, <1>4, <2>2, <2>3 DEF FinishAccepts, WithinBudget
<1>6. /\ runs' = [runs EXCEPT ![r].pc = "done"]
      /\ audits' = [audits EXCEPT ![r] = [outcome |-> outcome, counts |-> f]]
      /\ deleted' = deleted
  BY <1>5 DEF FinishRetentionRun, f, g, outcome
<1>7. /\ DOMAIN run2 = RunFields /\ run2.pc = "done" /\ run2.err = run.err
      /\ run2.cutoff = run.cutoff /\ run2.result = f
  BY <1>2, <1>6 DEF TablesInv, RunFields, f
<1>8. audit2 = [outcome |-> outcome, counts |-> f]
  BY <1>6 DEF TablesInv
<1>9. audit2 \in AuditType /\ audit2.outcome = outcome /\ audit2.counts = f
  BY <1>2, <1>4, <1>8 DEF AuditType
<1> HIDE DEF run2, audit2
<1>10. InPhase(run2, audit2)
  BY <1>7 DEF InPhase
<1>11. Counted(run2, audit2, deleted[r])
  BY <1>2, <1>3, <1>7, <1>9, <1>10 DEF Counted, Phases, Tallied
<1> QED BY <1>4, <1>6, <1>7, <1>9, <1>11 DEF run2, audit2, f

LEMMA StopCounted ==
    ASSUME TablesInv, NEW r \in Runs, FinishFails(r) \/ Crash(r)
    PROVE  /\ Counted(runs'[r], audits'[r], deleted'[r])
           /\ runs'[r].pc \in {"unfinished", "crashed"}
           /\ runs[r].pc \in {"read", "purge", "finish"}
<1> DEFINE run   == runs[r]
           audit == audits[r]
           run2  == runs'[r]
<1>1. Counted(run, audit, deleted[r]) /\ run.pc \in {"read", "purge", "finish"}
  BY DEF TablesInv, FinishFails, Crash
<1>2. audits' = audits /\ deleted' = deleted
  BY DEF FinishFails, Crash
<1>3. /\ DOMAIN run2 = RunFields /\ run2.pc \in {"unfinished", "crashed"}
      /\ run2.cutoff \in Instants /\ run2.result \in CountsType
      /\ run2.err \in {"none", "failed", "canceled"}
  <2>1. CASE FinishFails(r)
    BY <1>1, <2>1 DEF FinishFails, TablesInv, Counted, RunFields
  <2>2. CASE Crash(r)
    <3>1. run2 = [NotStarted EXCEPT !.pc = "crashed"]
      BY <2>2 DEF Crash, TablesInv
    <3> QED BY <3>1, NoCountsType, BoundsAssumption DEF NotStarted, RunFields, Instants
  <2> QED BY <2>1, <2>2
<1> HIDE DEF run2
<1>4. InPhase(run2, audit)
  BY <1>3 DEF InPhase
<1>5. Counted(run2, audit, deleted[r])
  BY <1>1, <1>3, <1>4 DEF Counted, Phases
<1> QED BY <1>1, <1>2, <1>3, <1>5 DEF run2

-----------------------------------------------------------------------------
(* What is still owed.  A row that was eligible at the beginning and that   *)
(* nobody touched lies ahead of the cursor, or in the page in hand.         *)

Ahead(x, r) ==
    /\ PurgeEligible(x[1], x[2], runs[r].cutoff)
    /\ runs[r].pc = "read" => Before(runs[r].cursor, RowAt(x[1], x[2]).key)
    /\ runs[r].pc = "purge" =>
          \/ RowAt(x[1], x[2]) \in runs[r].page
          \/ runs[r].next # Start /\ Before(runs[r].next, RowAt(x[1], x[2]).key)

OwedInv(r) ==
    /\ owed[r] \in SUBSET (Actors \X CandidateKinds)
    /\ runs[r].pc \in {"read", "purge"} => \A x \in owed[r] : Ahead(x, r)
    /\ runs[r].pc = "finish" /\ runs[r].err = "none" /\ ~runs[r].result.truncated =>
          owed[r] = {}
    /\ audits[r].outcome = "completed" =>
          runs[r].pc = "done" /\ (~audits[r].counts.truncated => owed[r] = {})

LEMMA NothingChanged == UNCHANGED vars => Changed = {}
BY DEF vars, Changed

(* What a step of one run does to the tables of the others. *)
Apart(r) ==
    /\ DOMAIN runs' = Runs /\ DOMAIN audits' = Runs /\ DOMAIN deleted' = Runs
    /\ DOMAIN touched' = Runs /\ DOMAIN owed' = Runs
    /\ \A q \in Runs : q # r => /\ runs'[q] = runs[q]
                                /\ audits'[q] = audits[q]
                                /\ deleted'[q] = deleted[q]
                                /\ touched'[q] = touched[q] \cup Changed
                                /\ owed'[q] = owed[q] \ Changed

LEMMA StepsApart ==
    ASSUME TablesInv, NEW r \in Runs,
           \/ RunStep(r) \/ Crash(r)
           \/ \E t \in Instants : BeginRetentionRun(r, t)
    PROVE  Apart(r)
<1>1. CASE \E t \in Instants : BeginRetentionRun(r, t)
  BY <1>1, NothingChanged DEF BeginRetentionRun, TablesInv, Apart
<1>2. CASE ReadPage(r)
  <2>1. \E run : runs' = [runs EXCEPT ![r] = run]
    BY <1>2 DEF ReadPage
  <2>2. /\ audits' = audits /\ deleted' = deleted /\ owed' = owed
        /\ touched' = [touched EXCEPT ![r] = {}] /\ UNCHANGED vars
    BY <1>2 DEF ReadPage
  <2> QED BY <2>1, <2>2, NothingChanged DEF TablesInv, Apart
<1>3. CASE PurgePage(r)
  <2>1. \E run : runs' = [runs EXCEPT ![r] = run]
    BY <1>3 DEF PurgePage
  <2>2. \E audit : audits' = [audits EXCEPT ![r] = audit]
    BY <1>3 DEF PurgePage
  <2>3. \E gone : deleted' = [deleted EXCEPT ![r] = gone]
    BY <1>3 DEF PurgePage
  <2>4. /\ touched' = [q \in Runs |-> touched[q] \cup Changed]
        /\ owed' = [q \in Runs |-> owed[q] \ Changed]
    BY <1>3 DEF PurgePage, Witnessed
  <2> QED BY <2>1, <2>2, <2>3, <2>4 DEF TablesInv, Apart
<1>4. CASE \E err \in Errors : ReadFails(r, err) \/ PurgeFails(r, err)
  BY <1>4, NothingChanged DEF ReadFails, PurgeFails, TablesInv, Apart
<1>5. CASE FinishRetentionRun(r)
  BY <1>5, NothingChanged DEF FinishRetentionRun, TablesInv, Apart
<1>6. CASE FinishFails(r)
  BY <1>6, NothingChanged DEF FinishFails, TablesInv, Apart
<1>7. CASE Crash(r)
  BY <1>7, NothingChanged DEF Crash, TablesInv, Apart
<1> QED BY <1>1, <1>2, <1>3, <1>4, <1>5, <1>6, <1>7 DEF RunStep

(* A row nobody touched is read the same after the step. *)
LEMMA UntouchedRow ==
    ASSUME NEW r \in Runs, runs'[r].cutoff = runs[r].cutoff,
           NEW x \in Actors \X CandidateKinds, x \notin Changed
    PROVE  /\ RowAt(x[1], x[2])' = RowAt(x[1], x[2])
           /\ PurgeEligible(x[1], x[2], runs[r].cutoff) =>
                 PurgeEligible(x[1], x[2], runs[r].cutoff)'
<1>1. /\ observations'[x[1]] = observations[x[1]]
      /\ x[2] = "lifecycle" => /\ relays'[x[1]] = relays[x[1]]
                               /\ relayEvents'[x[1]] = relayEvents[x[1]]
                               /\ moderationEvents'[x[1]] = moderationEvents[x[1]]
      /\ x[2] = "discovery" => /\ discoveries'[x[1]] = discoveries[x[1]]
                               /\ discoveryEvents'[x[1]] = discoveryEvents[x[1]]
  BY DEF Changed
<1>2. x[2] \in CandidateKinds
  OBVIOUS
<1>3. RetentionState(x[1], x[2])' = RetentionState(x[1], x[2])
  BY <1>1, <1>2 DEF RetentionState, CandidateKinds
<1>4. RowAt(x[1], x[2])' = RowAt(x[1], x[2])
  BY <1>3 DEF RowAt, RowFor
<1>5. PurgeEligible(x[1], x[2], runs[r].cutoff) => PurgeEligible(x[1], x[2], runs[r].cutoff)'
  BY <1>1, <1>2 DEF PurgeEligible, CandidateKinds
<1> QED BY <1>4, <1>5

(* The step of anyone else. *)
LEMMA OwedStays ==
    ASSUME NEW r \in Runs, OwedInv(r), runs'[r] = runs[r], audits'[r] = audits[r],
           owed'[r] = owed[r] \ Changed
    PROVE  OwedInv(r)'
<1>1. ASSUME NEW x \in owed'[r], runs[r].pc \in {"read", "purge"}
      PROVE  Ahead(x, r)'
  <2>1. x \in Actors \X CandidateKinds /\ x \notin Changed /\ Ahead(x, r)
    BY <1>1 DEF OwedInv
  <2>2. /\ RowAt(x[1], x[2])' = RowAt(x[1], x[2])
        /\ PurgeEligible(x[1], x[2], runs[r].cutoff)'
    BY <2>1, UntouchedRow DEF Ahead
  <2> QED BY <2>1, <2>2 DEF Ahead
<1> QED BY <1>1 DEF OwedInv

LEMMA PageStays ==
    ASSUME IInv, [Next]_vars, NEW r \in Runs, PageInv(r), runs'[r] = runs[r],
           touched'[r] = touched[r] \cup Changed
    PROVE  PageInv(r)'
<1> SUFFICES ASSUME runs'[r].pc = "purge", NEW row \in runs'[r].page
             PROVE  row = RowFor(row.candidate) /\ Snapshot(row.candidate, touched[r])'
  BY DEF PageInv, RowFor
<1> DEFINE c == row.candidate
<1>1. row = RowFor(c) /\ Snapshot(c, touched[r])
  BY DEF PageInv
<1> HIDE DEF c
<1>2. touched'[r] \subseteq touched[r] \cup Changed
  OBVIOUS
<1>3. Snapshot(c, touched[r])'
  BY <1>1, <1>2, SnapshotKept
<1> QED BY <1>1, <1>3 DEF c

LEMMA BeginOwed ==
    ASSUME TablesInv, NEW r \in Runs, NEW t \in Instants, BeginRetentionRun(r, t)
    PROVE  PageInv(r)' /\ OwedInv(r)'
<1> DEFINE cutoff == t - RetentionTime
<1>1. Counted(runs[r], audits[r], deleted[r]) /\ runs[r].pc = "idle"
  BY DEF TablesInv, BeginRetentionRun
<1>2. runs[r].cursor = Start /\ DOMAIN runs[r] = RunFields /\ audits[r] \in AuditType
  BY <1>1 DEF Counted, InPhase
<1>3. /\ runs'[r].pc = "read" /\ runs'[r].cutoff = cutoff /\ runs'[r].cursor = Start
      /\ audits'[r].outcome = "running"
      /\ UNCHANGED vars
      /\ owed'[r] = {x \in Actors \X CandidateKinds : PurgeEligible(x[1], x[2], cutoff)}
  BY <1>2 DEF BeginRetentionRun, TablesInv, RunFields, AuditType
<1>4. ASSUME NEW x \in owed'[r] PROVE Ahead(x, r)'
  <2>1. x \in Actors \X CandidateKinds /\ PurgeEligible(x[1], x[2], cutoff)
    BY <1>3
  <2>2. PurgeEligible(x[1], x[2], runs[r].cutoff)'
    BY <1>3, <2>1 DEF PurgeEligible, vars, InactiveAt
  <2>3. x[2] \in CandidateKinds
    BY <2>1
  <2>4. \E i, j, k : RowAt(x[1], x[2]).key = <<i, j, k>>
    BY <2>3, RowFields
  <2>5. Before(Start, RowAt(x[1], x[2]).key)
    BY <2>4, BeforeStart
  <2>6. RowAt(x[1], x[2])' = RowAt(x[1], x[2])
    BY <1>3 DEF vars, RowAt, RowFor, RetentionState
  <2> QED BY <1>3, <2>2, <2>5, <2>6 DEF Ahead
<1> QED BY <1>3, <1>4 DEF PageInv, OwedInv

LEMMA ReadOwed ==
    ASSUME IInv, TablesInv, NEW r \in Runs, OwedInv(r), ReadPage(r)
    PROVE  PageInv(r)' /\ OwedInv(r)'
<1> DEFINE run  == runs[r]
           rows == AfterCursor(CandidateRows(run.cutoff), run.cursor)
           run2 == runs'[r]
<1>1. /\ run.pc = "read" /\ UNCHANGED <<vars, audits, owed>> /\ touched'[r] = {}
  BY DEF ReadPage, TablesInv
<1>2. run.cutoff \in Instants
  BY DEF TablesInv, Counted
<1>3. audits[r].outcome = "running"
  BY <1>1 DEF TablesInv, Counted, InPhase
<1>4. ASSUME NEW x \in owed[r] PROVE RowAt(x[1], x[2]) \in rows
  <2>1. x \in Actors \X CandidateKinds /\ Ahead(x, r)
    BY <1>1 DEF OwedInv
  <2>2. RowAt(x[1], x[2]) \in CandidateRows(run.cutoff)
    BY <2>1, RowMember DEF Ahead
  <2> QED BY <1>1, <2>1, <2>2 DEF AfterCursor, Ahead
<1>5. \/ run2.pc = "finish" /\ rows = {}
      \/ /\ run2.pc = "purge"
         /\ \E limit \in Nat \ {0} : run2.page = PageOf(rows, limit) /\ run2.next = NextCursor(rows, limit)
         /\ run2.cutoff = run.cutoff
  BY ReadCounted
<1>6. CASE run2.pc = "finish" /\ rows = {}
  <2>1. owed'[r] = {}
    BY <1>1, <1>4, <1>6
  <2> QED BY <1>1, <1>3, <1>6, <2>1 DEF PageInv, OwedInv
<1>7. CASE run2.pc = "purge"
  <2>1. PICK limit \in Nat \ {0} : run2.page = PageOf(rows, limit) /\ run2.next = NextCursor(rows, limit)
    BY <1>5, <1>7
  <2>2. IsFiniteSet(rows) /\ Chain(rows) /\ PageOf(rows, limit) \in SUBSET CandidateRows(run.cutoff)
    BY <1>2, PageValid
  <2>3. ASSUME NEW row \in run2.page
        PROVE  row = RowFor(row.candidate) /\ Snapshot(row.candidate, touched[r])'
    <3>1. row \in CandidateRows(run.cutoff)
      BY <2>1, <2>2
    <3>2. row = RowFor(row.candidate) /\ row.candidate \in PurgeCandidates(run.cutoff)
      BY <3>1, RowMember
    <3>3. Snapshot(row.candidate, {})
      BY <3>2, FreshSnapshot
    <3>4. Snapshot(row.candidate, touched[r])'
      BY <1>1, <3>3 DEF Snapshot, SnapshotType, vars
    <3> QED BY <3>2, <3>4
  <2>4. PageInv(r)'
    BY <2>3 DEF PageInv, RowFor
  <2>5. ASSUME NEW x \in owed'[r] PROVE Ahead(x, r)'
    <3>1. x \in owed[r] /\ RowAt(x[1], x[2]) \in rows /\ Ahead(x, r)
      BY <1>1, <1>4 DEF OwedInv
    <3>2. \/ RowAt(x[1], x[2]) \in PageOf(rows, limit)
          \/ /\ NextCursor(rows, limit) # Start
             /\ Before(NextCursor(rows, limit), RowAt(x[1], x[2]).key)
      BY <2>2, <3>1, NextCovers
    <3>3. RowAt(x[1], x[2])' = RowAt(x[1], x[2])
      BY <1>1 DEF vars, RowAt, RowFor, RetentionState
    <3>4. PurgeEligible(x[1], x[2], runs[r].cutoff)'
      BY <1>1, <1>5, <1>7, <3>1 DEF Ahead, PurgeEligible, vars, InactiveAt
    <3>5. \/ RowAt(x[1], x[2]) \in run2.page
          \/ run2.next # Start /\ Before(run2.next, RowAt(x[1], x[2]).key)
      BY <2>1, <3>2
    <3> QED BY <1>7, <3>3, <3>4, <3>5 DEF Ahead
  <2>6. OwedInv(r)'
    BY <1>1, <1>3, <1>7, <2>5 DEF OwedInv
  <2> QED BY <2>4, <2>6
<1> QED BY <1>5, <1>6, <1>7

(* Every row of the page that is as it was read is deleted. *)
LEMMA PurgedChanged ==
    ASSUME NEW batch, NEW cutoff, PurgeBatch(batch, cutoff),
           NEW a \in Actors, NEW kind \in CandidateKinds, PurgeEligible(a, kind, cutoff),
           RetentionState(a, kind) \in batch
    PROVE  <<a, kind>> \in Changed
<1> DEFINE lifecycle == PurgedActors(batch, "lifecycle", cutoff)
           discovery == PurgedActors(batch, "discovery", cutoff)
           c == RetentionState(a, kind)
<1>1. c.actor = a /\ c.kind = kind
  BY StateFields
<1>2. RetentionStateMatches(c, cutoff)
  BY <1>1 DEF RetentionStateMatches
<1> HIDE DEF c
<1>3. a \in PurgedActors(batch, kind, cutoff)
  BY <1>1, <1>2 DEF PurgedActors, c
<1>4. /\ relays' = [b \in Actors |-> IF b \in lifecycle THEN NoRelay ELSE relays[b]]
      /\ discoveries' = [b \in Actors |-> IF b \in discovery THEN NoDiscovery ELSE discoveries[b]]
  BY DEF PurgeBatch
<1> HIDE DEF lifecycle, discovery
<1>5. CASE kind = "lifecycle"
  <2>1. relays'[a] = NoRelay
    BY <1>3, <1>4, <1>5 DEF lifecycle
  <2>2. relays[a].lifecycle # "absent"
    BY <1>5 DEF PurgeEligible
  <2> QED BY <1>5, <2>1, <2>2 DEF Changed, NoRelay
<1>6. CASE kind = "discovery"
  <2>1. discoveries'[a] = NoDiscovery
    BY <1>3, <1>4, <1>6 DEF discovery
  <2>2. discoveries[a].state # "absent"
    BY <1>6 DEF PurgeEligible
  <2> QED BY <1>6, <2>1, <2>2 DEF Changed, NoDiscovery
<1> QED BY <1>5, <1>6 DEF CandidateKinds

LEMMA PurgeOwed ==
    ASSUME IInv, RunInv, NEW r \in Runs, OwedInv(r), PurgePage(r)
    PROVE  PageInv(r)' /\ OwedInv(r)'
<1> DEFINE run   == runs[r]
           batch == Candidates(run.page)
           run2  == runs'[r]
           last  == run.next = Start
<1>1. /\ run.pc = "purge" /\ PurgeBatch(batch, run.cutoff)
      /\ owed'[r] = owed[r] \ Changed
  BY DEF PurgePage, Witnessed
<1>2. PICK b : runs' = [runs EXCEPT ![r] = AfterBatch(run, b)]
  BY PurgeCounted
<1> DEFINE truncated == ~last /\ run.result.scanned = MaxAttempts
<1>3. /\ DOMAIN run = RunFields /\ run.result \in CountsType /\ run.cutoff \in Instants
      /\ Counted(runs'[r], audits'[r], deleted'[r])
  BY PurgeCounted DEF RunInv, TablesInv, Counted
<1>4. run2 = AfterBatch(run, b)
  BY <1>2 DEF RunInv, TablesInv
<1>5. /\ run2.pc = (IF last \/ truncated THEN "finish" ELSE "read")
      /\ run2.cutoff = run.cutoff
      /\ run2.cursor = (IF last THEN run.cursor ELSE run.next)
      /\ run2.result = Accumulated(run.result, b, truncated)
  BY <1>3, <1>4 DEF AfterBatch, RunFields
<1>6. run2.result.truncated = truncated
  <2>1. Accumulated(run.result, b, truncated).truncated = truncated
    BY <1>3 DEF Accumulated, CountsType
  <2> QED BY <1>5, <2>1
<1>7. audits'[r].outcome # "completed"
  <2>1. run2.pc \in {"finish", "read"}
    BY <1>5
  <2> QED BY <1>3, <2>1 DEF Counted, InPhase
<1>8. ASSUME NEW x \in owed'[r]
      PROVE  /\ x \in Actors \X CandidateKinds /\ x \notin Changed
             /\ PurgeEligible(x[1], x[2], run.cutoff)
             /\ ~last /\ Before(run.next, RowAt(x[1], x[2]).key)
  <2>1. x \in Actors \X CandidateKinds /\ x \notin Changed /\ Ahead(x, r)
    BY <1>1, <1>8 DEF OwedInv
  <2>2. PICK a \in Actors, kind \in CandidateKinds : x = <<a, kind>>
    BY <2>1
  <2>3. PurgeEligible(a, kind, run.cutoff) /\ <<a, kind>> \notin Changed
    BY <2>1, <2>2 DEF Ahead
  <2>4. RetentionState(a, kind) \notin batch
    BY <1>1, <2>3, PurgedChanged
  <2>5. RowAt(a, kind) \notin run.page
    BY <2>4, RowFields DEF Candidates
  <2>6. RowAt(x[1], x[2]) \notin run.page
    BY <2>2, <2>5
  <2> QED BY <1>1, <2>1, <2>6 DEF Ahead
<1>9. ASSUME NEW x \in owed'[r], run2.pc = "read"
      PROVE  Ahead(x, r)'
  <2>1. /\ RowAt(x[1], x[2])' = RowAt(x[1], x[2])
        /\ PurgeEligible(x[1], x[2], runs[r].cutoff)'
    BY <1>5, <1>8, UntouchedRow
  <2>2. runs'[r].cursor = run.next
    BY <1>5, <1>8
  <2>3. Before(run.next, RowAt(x[1], x[2]).key)
    BY <1>8
  <2> QED BY <1>9, <2>1, <2>2, <2>3 DEF Ahead
<1>10. run2.pc = "finish" /\ ~run2.result.truncated => owed'[r] = {}
  <2>1. run2.pc = "finish" /\ ~run2.result.truncated => last
    BY <1>5, <1>6
  <2> QED BY <1>8, <2>1
<1>11. owed'[r] \in SUBSET (Actors \X CandidateKinds) /\ run2.pc \in {"finish", "read"}
  BY <1>5, <1>8
<1> HIDE DEF run2
<1>12. OwedInv(r)'
  BY <1>7, <1>9, <1>10, <1>11 DEF OwedInv, run2
<1> QED BY <1>11, <1>12 DEF PageInv, run2

LEMMA FinishOwed ==
    ASSUME TablesInv, NEW r \in Runs, OwedInv(r), FinishRetentionRun(r)
    PROVE  PageInv(r)' /\ OwedInv(r)'
<1>1. /\ runs'[r].pc = "done" /\ audits'[r].counts = runs[r].result
      /\ audits'[r].outcome = "completed" => runs[r].err = "none"
  BY FinishCounted
<1>2. owed' = owed /\ runs[r].pc = "finish"
  BY DEF FinishRetentionRun
<1> QED BY <1>1, <1>2 DEF PageInv, OwedInv

LEMMA StopOwed ==
    ASSUME TablesInv, NEW r \in Runs, OwedInv(r),
           \/ FinishFails(r) \/ Crash(r)
           \/ \E err \in Errors : ReadFails(r, err) \/ PurgeFails(r, err)
    PROVE  PageInv(r)' /\ OwedInv(r)'
<1>1. audits' = audits /\ owed' = owed
  BY DEF FinishFails, Crash, ReadFails, PurgeFails
<1>2. \/ runs'[r].pc \in {"unfinished", "crashed"}
      \/ runs'[r].pc = "finish" /\ runs'[r].err # "none"
  BY StopCounted, FailCounted
<1>3. runs[r].pc \in {"read", "purge", "finish"}
  BY DEF FinishFails, Crash, ReadFails, PurgeFails
<1> QED BY <1>1, <1>2, <1>3 DEF PageInv, OwedInv

(* The inductive invariant of the purge commands. *)
PurgeInvariant == IInv /\ RunInv /\ \A r \in Runs : OwedInv(r)

LEMMA PurgeInvariantInit == Init /\ RunInit => PurgeInvariant
<1> SUFFICES ASSUME Init, RunInit PROVE PurgeInvariant
  OBVIOUS
<1>1. \A r \in Runs : OwedInv(r)
  BY DEF RunInit, OwedInv, NotStarted, NoAudit
<1> QED BY <1>1, InitInv, RunInvInit DEF PurgeInvariant

LEMMA PurgeInvariantStep ==
    ASSUME PurgeInvariant, [RunNext]_allVars
    PROVE  PurgeInvariant'
<1> USE DEF PurgeInvariant
<1>1. IInv /\ TablesInv /\ RunInv
  BY DEF RunInv
<1>2. CutoffInv
  BY <1>1 DEF TablesInv, Counted, CutoffInv
<1>3. [Next]_vars
  BY <1>2, RunStepImplements
<1>4. IInv'
  BY <1>1, <1>3, NextInv
<1>5. ASSUME NEW r \in Runs, Apart(r), Counted(runs'[r], audits'[r], deleted'[r]),
             PageInv(r)', OwedInv(r)'
      PROVE  PurgeInvariant'
  <2>1. ASSUME NEW q \in Runs, q # r
        PROVE  PageInv(q)' /\ OwedInv(q)' /\ Counted(runs'[q], audits'[q], deleted'[q])
    <3>1. /\ runs'[q] = runs[q] /\ audits'[q] = audits[q] /\ deleted'[q] = deleted[q]
          /\ touched'[q] = touched[q] \cup Changed /\ owed'[q] = owed[q] \ Changed
      BY <1>5, <2>1 DEF Apart
    <3>2. PageInv(q)'
      BY <1>1, <1>3, <3>1, PageStays DEF RunInv
    <3>3. OwedInv(q)'
      BY <3>1, OwedStays
    <3>4. Counted(runs'[q], audits'[q], deleted'[q])
      BY <1>1, <3>1 DEF TablesInv
    <3> QED BY <3>2, <3>3, <3>4
  <2>2. TablesInv'
    BY <1>5, <2>1 DEF Apart, TablesInv
  <2>3. \A q \in Runs : PageInv(q)' /\ OwedInv(q)'
    BY <1>5, <2>1
  <2> QED BY <1>4, <2>2, <2>3 DEF RunInv
<1>6. ASSUME NEW r \in Runs, NEW t \in Instants, BeginRetentionRun(r, t)
      PROVE  PurgeInvariant'
  BY <1>1, <1>5, <1>6, StepsApart, BeginCounted, BeginOwed
<1>7. ASSUME NEW r \in Runs, ReadPage(r)
      PROVE  PurgeInvariant'
  BY <1>1, <1>5, <1>7, StepsApart, ReadCounted, ReadOwed DEF RunStep
<1>8. ASSUME NEW r \in Runs, PurgePage(r)
      PROVE  PurgeInvariant'
  BY <1>1, <1>5, <1>8, StepsApart, PurgeCounted, PurgeOwed DEF RunStep
<1>9. ASSUME NEW r \in Runs, FinishRetentionRun(r)
      PROVE  PurgeInvariant'
  BY <1>1, <1>5, <1>9, StepsApart, FinishCounted, FinishOwed DEF RunStep
<1>10. ASSUME NEW r \in Runs, NEW err \in Errors, ReadFails(r, err) \/ PurgeFails(r, err)
       PROVE  PurgeInvariant'
  BY <1>1, <1>5, <1>10, StepsApart, FailCounted, StopOwed DEF RunStep
<1>11. ASSUME NEW r \in Runs, FinishFails(r) \/ Crash(r)
       PROVE  PurgeInvariant'
  BY <1>1, <1>5, <1>11, StepsApart, StopCounted, StopOwed DEF RunStep
<1>12. ASSUME UNCHANGED <<runs, audits, deleted>>, Witnessed
       PROVE  PurgeInvariant'
  <2>1. /\ touched' = [q \in Runs |-> touched[q] \cup Changed]
        /\ owed' = [q \in Runs |-> owed[q] \ Changed]
    BY <1>12 DEF Witnessed
  <2>2. TablesInv'
    BY <1>1, <1>12, <2>1 DEF TablesInv
  <2>3. ASSUME NEW q \in Runs PROVE PageInv(q)' /\ OwedInv(q)'
    <3>1. PageInv(q)'
      BY <1>1, <1>3, <1>12, <2>1, PageStays DEF RunInv
    <3>2. OwedInv(q)'
      BY <1>12, <2>1, OwedStays
    <3> QED BY <3>1, <3>2
  <2> QED BY <1>4, <2>2, <2>3 DEF RunInv
<1>13. CASE UNCHANGED allVars
  <2>1. UNCHANGED <<runs, audits, touched, owed, deleted, vars>>
    BY <1>13 DEF allVars, runVars
  <2>2. Changed = {}
    BY <2>1, NothingChanged
  <2>3. TablesInv'
    BY <1>1, <2>1 DEF TablesInv
  <2>4. ASSUME NEW q \in Runs PROVE PageInv(q)' /\ OwedInv(q)'
    <3>1. PageInv(q)'
      BY <1>1, <1>3, <2>1, <2>2, PageStays DEF RunInv
    <3>2. OwedInv(q)'
      BY <2>1, <2>2, OwedStays
    <3> QED BY <3>1, <3>2
  <2> QED BY <1>4, <2>3, <2>4 DEF RunInv
<1>14. CASE Started
  BY <1>6, <1>14 DEF Started
<1>15. ASSUME NEW r \in Runs, RunStep(r) \/ Crash(r)
       PROVE  PurgeInvariant'
  BY <1>7, <1>8, <1>9, <1>10, <1>11, <1>15 DEF RunStep
<1>16. CASE \/ Concurrently(\E a \in Actors, t \in Instants : ActorStep(a, t))
            \/ Concurrently(\E open \in BOOLEAN, t \in Instants : SetEnrollment(open, t))
  BY <1>12, <1>16 DEF Concurrently
<1> QED BY <1>13, <1>14, <1>15, <1>16 DEF RunNext

(* The tables and the commands are always in agreement: every count, page   *)
(* and cursor of a command is the one its steps so far account for.         *)
THEOREM PurgeInvariantHolds == RunSpec => []PurgeInvariant
BY PurgeInvariantInit, PurgeInvariantStep, PTL DEF RunSpec

(* However many commands purge at once, fail or die, the audit row of each  *)
(* counts exactly the rows its own transactions deleted.                    *)
THEOREM DeletionsAudited == RunSpec => []DeletionsCheckpointed
<1>1. PurgeInvariant => DeletionsCheckpointed
  BY DEF PurgeInvariant, RunInv, TablesInv, Counted, DeletionsCheckpointed
<1> QED BY <1>1, PurgeInvariantHolds, PTL

(* No check a command makes on its pages, on the results of its batches or  *)
(* on its closing counts ever trips.                                        *)
THEOREM ChecksNeverTrip == RunSpec => []NeverRefusesItself
<1>1. PurgeInvariant => NeverRefusesItself
  BY DEF PurgeInvariant, RunInv, TablesInv, Counted, NeverRefusesItself, Phases
<1> QED BY <1>1, PurgeInvariantHolds, PTL

(* A completed command that was not cut short has deleted every row that    *)
(* was eligible when it began and that nobody touched since.                *)
THEOREM PurgeExhaustive == RunSpec => []CompletedIsExhaustive
<1>1. PurgeInvariant => CompletedIsExhaustive
  BY DEF PurgeInvariant, OwedInv, CompletedIsExhaustive
<1> QED BY <1>1, PurgeInvariantHolds, PTL

LEMMA PurgeSpares ==
    ASSUME PurgeInvariant, NEW r \in Runs, PurgePage(r), NEW a \in Actors
    PROVE  /\ HasRelay(a) /\ ~HasRelay(a)' => <<a, "lifecycle">> \notin touched[r]
           /\ HasDiscovery(a) /\ ~HasDiscovery(a)' => <<a, "discovery">> \notin touched[r]
<1> DEFINE batch == Candidates(runs[r].page)
           cutoff == runs[r].cutoff
           lifecycle == PurgedActors(batch, "lifecycle", cutoff)
           discovery == PurgedActors(batch, "discovery", cutoff)
<1>1. PurgeBatch(batch, cutoff) /\ runs[r].pc = "purge"
  BY DEF PurgePage
<1>2. /\ relays' = [b \in Actors |-> IF b \in lifecycle THEN NoRelay ELSE relays[b]]
      /\ discoveries' = [b \in Actors |-> IF b \in discovery THEN NoDiscovery ELSE discoveries[b]]
  BY <1>1 DEF PurgeBatch
<1>3. \A c \in batch : Snapshot(c, touched[r])
  BY <1>1 DEF Candidates, PurgeInvariant, RunInv, PageInv
<1>4. IInv
  BY DEF PurgeInvariant
<1> HIDE DEF batch, cutoff
<1>5. ASSUME NEW kind \in CandidateKinds, a \in PurgedActors(batch, kind, cutoff)
      PROVE  <<a, kind>> \notin touched[r]
  <2>1. PICK c \in batch : c.actor = a /\ c.kind = kind /\ RetentionStateMatches(c, cutoff)
    BY <1>5 DEF PurgedActors
  <2>2. <<c.actor, c.kind>> \notin touched[r]
    BY <1>3, <1>4, <2>1, MatchUntouched
  <2> QED BY <2>1, <2>2
<1>6. "lifecycle" \in CandidateKinds /\ "discovery" \in CandidateKinds
  BY DEF CandidateKinds
<1>7. a \in lifecycle => <<a, "lifecycle">> \notin touched[r]
  BY <1>5, <1>6
<1>8. a \in discovery => <<a, "discovery">> \notin touched[r]
  BY <1>5, <1>6
<1> HIDE DEF lifecycle, discovery
<1> QED BY <1>2, <1>7, <1>8 DEF HasRelay, HasDiscovery

(* A row that changed in any way between the read of a page and the         *)
(* transaction that purges it is spared, within the same second too.        *)
THEOREM PurgeSparesWhatChanged == RunSpec => PurgeSparesChanged
<1>1. ASSUME PurgeInvariant
      PROVE  [\A r \in Runs : PurgePage(r) =>
                 \A a \in Actors :
                    /\ HasRelay(a) /\ ~HasRelay(a)' => <<a, "lifecycle">> \notin touched[r]
                    /\ HasDiscovery(a) /\ ~HasDiscovery(a)' =>
                          <<a, "discovery">> \notin touched[r]]_allVars
  BY <1>1, PurgeSpares
<1> QED BY <1>1, PurgeInvariantHolds, PTL DEF PurgeSparesChanged
=============================================================================
