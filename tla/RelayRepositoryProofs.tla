----------------------- MODULE RelayRepositoryProofs -----------------------
(***************************************************************************)
(* Safety of RelayRepository for every set of actors, every bound and      *)
(* every choice of the durations the assumptions allow.                    *)
(***************************************************************************)
EXTENDS RelayRepository, Keyset, TLAPS, FiniteSetTheorems, WellFoundedInduction

-----------------------------------------------------------------------------
(* Every row operator maps rows to rows.                                    *)

(* A captured second is a time, and never NULL. *)
LEMMA InstantType ==
    ASSUME NEW t \in Instants
    PROVE  t \in Nat /\ t \in Stamp /\ t # Never
BY BoundsAssumption DEF Instants, Stamp, Never

LEMMA NeverType == Never \in Stamp
BY DEF Never, Stamp

LEMMA RecordedType ==
    ASSUME NEW Kind, NEW ledger \in Ledger(Kind), NEW kind \in Kind, NEW t \in Instants
    PROVE  Recorded(ledger, kind, t) \in Ledger(Kind)
BY InstantType DEF Recorded, Ledger, Later

LEMMA EmptiedType ==
    ASSUME NEW Kind, "none" \in Kind, NEW ledger \in Ledger(Kind)
    PROVE  Emptied(ledger) \in Ledger(Kind)
BY NeverType DEF Emptied, NoEvents, Ledger

LEMMA RelayRowTypes ==
    ASSUME NEW row \in RelayRow, NEW t \in Instants,
           NEW target \in {"active", "suspended"}
    PROVE  /\ Registered(row, t) \in RelayRow
           /\ Alive(row, t) \in RelayRow
           /\ Unregistered(row, t) \in RelayRow
           /\ Moderated(row, target, t) \in RelayRow
           /\ Pruned(row, t) \in RelayRow
           /\ NoRelay \in RelayRow
<1>1. t \in Stamp /\ Never \in Stamp
  BY InstantType, NeverType
<1>2. Registered(row, t) \in RelayRow
  BY <1>1 DEF Registered, RelayRow
<1>3. Alive(row, t) \in RelayRow
  BY <1>1 DEF Alive, RelayRow
<1>4. Unregistered(row, t) \in RelayRow
  BY <1>1 DEF Unregistered, RelayRow
<1>5. Moderated(row, target, t) \in RelayRow
  BY <1>1 DEF Moderated, RelayRow
<1>6. Pruned(row, t) \in RelayRow
  BY <1>1 DEF Pruned, RelayRow
<1>7. NoRelay \in RelayRow
  BY <1>1 DEF NoRelay, RelayRow
<1> QED BY <1>2, <1>3, <1>4, <1>5, <1>6, <1>7

LEMMA DiscoveryRowTypes ==
    ASSUME NEW row \in DiscoveryRow, NEW t \in Instants
    PROVE  /\ Discovered(row, t) \in DiscoveryRow
           /\ Removed(row, t) \in DiscoveryRow
           /\ NoDiscovery \in DiscoveryRow
<1>1. t \in Stamp /\ Never \in Stamp
  BY InstantType, NeverType
<1>2. Discovered(row, t) \in DiscoveryRow
  BY <1>1 DEF Discovered, DiscoveryRow
<1>3. Removed(row, t) \in DiscoveryRow
  BY <1>1 DEF Removed, DiscoveryRow
<1>4. NoDiscovery \in DiscoveryRow
  BY <1>1 DEF NoDiscovery, DiscoveryRow
<1> QED BY <1>2, <1>3, <1>4

LEMMA ObservationRowTypes ==
    ASSUME NEW o \in ObservationRow, NEW t \in Instants,
           NEW state \in Reached, NEW inbox \in Inboxes \cup {NoInbox},
           NEW probed \in Stamp
    PROVE  /\ Verified(o, t) \in ObservationRow
           /\ Checked(o, state, inbox, probed, t) \in ObservationRow
           /\ InboxProbed(o, t) \in ObservationRow
           /\ EmptyObservation(t) \in ObservationRow
           /\ NoObservation \in ObservationRow
<1>1. /\ t \in Stamp /\ Never \in Stamp
      /\ Later(o.updated, t) \in Stamp
      /\ o.revision + 1 \in Nat
  BY InstantType, NeverType DEF Later, ObservationRow
<1>2. Verified(o, t) \in ObservationRow
  BY <1>1 DEF Verified, ObservationRow
<1>3. Checked(o, state, inbox, probed, t) \in ObservationRow
  BY <1>1 DEF Checked, ObservationRow, Reached
<1>4. InboxProbed(o, t) \in ObservationRow
  BY <1>1 DEF InboxProbed, ObservationRow
<1>5. NoObservation \in ObservationRow
  BY <1>1 DEF NoObservation, ObservationRow
<1>6. EmptyObservation(t) \in ObservationRow
  BY <1>1, <1>5 DEF EmptyObservation, ObservationRow
<1> QED BY <1>2, <1>3, <1>4, <1>5, <1>6

(* A promotion is a reachable check whose updated time is the check's own. *)
LEMMA PromotedFields ==
    ASSUME NEW o \in ObservationRow, NEW inbox \in Inboxes \cup {NoInbox}, NEW t \in Instants
    PROVE  LET p == Promoted(o, inbox, t) IN
           /\ p \in ObservationRow
           /\ p.state = "reachable" /\ p.checked = t /\ p.success = t
           /\ p.inbox = inbox
           /\ p.declared = IF inbox = NoInbox THEN Never ELSE t
           /\ p.inboxChecked \in {Never, t}
           /\ p.rfc9421 = o.rfc9421 /\ p.updated = t /\ p.revision = o.revision + 1
<1> DEFINE c == Checked(o, "reachable", inbox, t, t)
<1>1. "reachable" \in Reached /\ t \in Stamp
  BY InstantType DEF Reached
<1>2. c \in ObservationRow
  BY <1>1, ObservationRowTypes
<1>3. /\ c.state = "reachable" /\ c.checked = t /\ c.success = t
      /\ c.inbox = inbox
      /\ c.declared = IF inbox = NoInbox THEN Never ELSE t
      /\ c.inboxChecked \in {Never, t}
      /\ c.rfc9421 = o.rfc9421 /\ c.revision = o.revision + 1
  BY DEF Checked, ObservationRow
<1>4. Promoted(o, inbox, t) = [c EXCEPT !.updated = t]
  BY DEF Promoted
<1> HIDE DEF c
<1> QED BY <1>1, <1>2, <1>3, <1>4 DEF ObservationRow

LEMMA DiagnosedType ==
    ASSUME TypeOK, NEW a \in Actors, NEW state, NEW t \in Instants
    PROVE  Diagnosed(a, state, t) \in DiagnosticRow
<1>1. diagnostics[a].streak \in 0..MaximumFailureStreak
  BY DEF TypeOK, DiagnosticRow
<1>2. NextStreak(a) \in 0..MaximumFailureStreak
  BY <1>1 DEF NextStreak, MaximumFailureStreak
<1>3. /\ t \in Nat /\ t \in Stamp
      /\ t + ReachabilityFreshness \in Stamp
      /\ t + UnreachableRetry \in Stamp
      /\ t + RetryDelay(NextStreak(a)) \in Stamp
  BY InstantType, DurationAssumption DEF Stamp, RetryDelay
<1>4. 0 \in 0..MaximumFailureStreak
  BY DEF MaximumFailureStreak
<1> QED BY <1>2, <1>3, <1>4 DEF Diagnosed, DiagnosticRow

-----------------------------------------------------------------------------
(* Type correctness.                                                        *)

LEMMA InitType == Init => TypeOK
BY NeverType
   DEF Init, TypeOK, NoRelay, RelayRow, NoEvents, Ledger, RelayEventKind,
       ModerationAction, DiscoveryAction, NoDiscovery, DiscoveryRow,
       NoObservation, ObservationRow, NoDiagnostic, DiagnosticRow,
       MaximumFailureStreak

LEMMA ObservationAtType ==
    ASSUME TypeOK, NEW a \in Actors, NEW t \in Instants
    PROVE  ObservationAt(a, t) \in ObservationRow
<1>1. EmptyObservation(t) \in ObservationRow
  BY NeverType, InstantType DEF EmptyObservation, NoObservation, ObservationRow
<1> QED BY <1>1 DEF ObservationAt, TypeOK

LEMMA VerifiedType ==
    ASSUME TypeOK, NEW a \in Actors, NEW t \in Instants
    PROVE  Verified(ObservationAt(a, t), t) \in ObservationRow
<1>1. "reachable" \in Reached /\ NoInbox \in Inboxes \cup {NoInbox}
  BY DEF Reached
<1> QED BY <1>1, ObservationAtType, ObservationRowTypes, NeverType

LEMMA ActorStepType ==
    ASSUME TypeOK, NEW a \in Actors, NEW t \in Instants, ActorStep(a, t)
    PROVE  TypeOK'
<1>1. CASE Register(a, t)
  <2>1. relays' \in [Actors -> RelayRow]
    BY <1>1, RelayRowTypes DEF Register, TypeOK
  <2>2. observations' \in [Actors -> ObservationRow]
    BY <1>1, VerifiedType DEF Register, TypeOK
  <2>3. RegisterKind(a) \in RelayEventKind
    BY DEF RegisterKind, RelayEventKind, RegisteringKinds
  <2>4. relayEvents' \in [Actors -> Ledger(RelayEventKind)]
    BY <1>1, <2>3, RecordedType DEF Register, TypeOK
  <2> QED BY <1>1, <2>1, <2>2, <2>4 DEF Register, TypeOK
<1>2. CASE Heartbeat(a, t)
  <2>1. relays' \in [Actors -> RelayRow]
    BY <1>2, RelayRowTypes DEF Heartbeat, TypeOK
  <2>2. observations' \in [Actors -> ObservationRow]
    BY <1>2, VerifiedType DEF Heartbeat, TypeOK
  <2>3. "heartbeat_recorded" \in RelayEventKind
    BY DEF RelayEventKind, RegisteringKinds
  <2>4. relayEvents' \in [Actors -> Ledger(RelayEventKind)]
    BY <1>2, <2>3, RecordedType DEF Heartbeat, TypeOK
  <2> QED BY <1>2, <2>1, <2>2, <2>4 DEF Heartbeat, TypeOK
<1>3. CASE Unregister(a, t)
  <2>1. relays' \in [Actors -> RelayRow]
    BY <1>3, RelayRowTypes DEF Unregister, TypeOK
  <2>2. observations' \in [Actors -> ObservationRow]
    BY <1>3, VerifiedType DEF Unregister, TypeOK
  <2>3. UnregisterKind(a) \in RelayEventKind
    BY DEF UnregisterKind, RelayEventKind
  <2>4. relayEvents' \in [Actors -> Ledger(RelayEventKind)]
    BY <1>3, <2>3, RecordedType DEF Unregister, TypeOK
  <2> QED BY <1>3, <2>1, <2>2, <2>4 DEF Unregister, TypeOK
<1>4. ASSUME NEW target \in {"active", "suspended"}, Moderate(a, target, t)
      PROVE  TypeOK'
  <2>1. relays' \in [Actors -> RelayRow]
    BY <1>4, RelayRowTypes DEF Moderate, TypeOK
  <2>2. ModerationKind(relays[a].admin, target) \in ModerationAction
    BY DEF ModerationKind, ModerationAction, SuspendingKinds
  <2>3. moderationEvents' \in [Actors -> Ledger(ModerationAction)]
    BY <1>4, <2>2, RecordedType DEF Moderate, TypeOK
  <2> QED BY <1>4, <2>1, <2>3 DEF Moderate, TypeOK
<1>5. CASE AddDiscovery(a, t)
  <2>1. discoveries' \in [Actors -> DiscoveryRow]
    BY <1>5, DiscoveryRowTypes DEF AddDiscovery, TypeOK
  <2>2. AddDiscoveryKind(a) \in DiscoveryAction
    BY DEF AddDiscoveryKind, DiscoveryAction
  <2>3. discoveryEvents' \in [Actors -> Ledger(DiscoveryAction)]
    BY <1>5, <2>2, RecordedType DEF AddDiscovery, TypeOK
  <2> QED BY <1>5, <2>1, <2>3 DEF AddDiscovery, TypeOK
<1>6. CASE RemoveDiscovery(a, t)
  <2>1. discoveries' \in [Actors -> DiscoveryRow]
    BY <1>6, DiscoveryRowTypes DEF RemoveDiscovery, TypeOK
  <2>2. RemoveDiscoveryKind(a) \in DiscoveryAction
    BY DEF RemoveDiscoveryKind, DiscoveryAction
  <2>3. discoveryEvents' \in [Actors -> Ledger(DiscoveryAction)]
    BY <1>6, <2>2, RecordedType DEF RemoveDiscovery, TypeOK
  <2> QED BY <1>6, <2>1, <2>3 DEF RemoveDiscovery, TypeOK
<1>7. ASSUME NEW s \in Reached, NEW i \in Inboxes \cup {NoInbox},
             RecordActorObservation(a, s, i, t)
      PROVE  TypeOK'
  <2>1. Checked(ObservationAt(a, t), s, i, Never, t) \in ObservationRow
    BY ObservationAtType, ObservationRowTypes, NeverType
  <2> QED BY <1>7, <2>1 DEF RecordActorObservation, TypeOK
<1>8. ASSUME NEW s \in Reached, NEW i \in Inboxes \cup {NoInbox},
             RecordReachabilityObservation(a, s, i, t)
      PROVE  TypeOK'
  <2>1. Checked(ObservationAt(a, t), s, i, t, t) \in ObservationRow
    BY ObservationAtType, ObservationRowTypes, InstantType
  <2>2. Diagnosed(a, s, t) \in DiagnosticRow
    BY DiagnosedType
  <2> QED BY <1>8, <2>1, <2>2 DEF RecordReachabilityObservation, TypeOK
<1>9. ASSUME NEW i \in Inboxes, RecordInboxObservation(a, i, t)
      PROVE  TypeOK'
  <2>1. "reachable" \in Reached /\ NoInbox \in Inboxes \cup {NoInbox}
    BY DEF Reached
  <2>2. InboxProbed(observations[a], t) \in ObservationRow
    BY <2>1, ObservationRowTypes, NeverType DEF TypeOK
  <2> QED BY <1>9, <2>2 DEF RecordInboxObservation, TypeOK
<1>10. CASE SoftPrune(a, t)
  <2>1. relays' \in [Actors -> RelayRow]
    BY <1>10, RelayRowTypes DEF SoftPrune, TypeOK
  <2>2. "relay_pruned" \in RelayEventKind
    BY DEF RelayEventKind
  <2>3. relayEvents' \in [Actors -> Ledger(RelayEventKind)]
    BY <1>10, <2>2, RecordedType DEF SoftPrune, TypeOK
  <2> QED BY <1>10, <2>1, <2>3 DEF SoftPrune, TypeOK
<1>11. ASSUME NEW i \in Inboxes \cup {NoInbox}, PromoteDiscovery(a, i, t)
       PROVE  TypeOK'
  <2>1. discoveries' \in [Actors -> DiscoveryRow]
    BY <1>11, DiscoveryRowTypes DEF PromoteDiscovery, TypeOK
  <2>2. AddDiscoveryKind(a) \in DiscoveryAction
    BY DEF AddDiscoveryKind, DiscoveryAction
  <2>3. discoveryEvents' \in [Actors -> Ledger(DiscoveryAction)]
    BY <1>11, <2>2, RecordedType DEF PromoteDiscovery, TypeOK
  <2>4. Promoted(ObservationAt(a, t), i, t) \in ObservationRow
    BY ObservationAtType, PromotedFields
  <2> QED BY <1>11, <2>1, <2>3, <2>4 DEF PromoteDiscovery, TypeOK
<1> QED
  BY <1>1, <1>2, <1>3, <1>4, <1>5, <1>6, <1>7, <1>8, <1>9, <1>10, <1>11
     DEF ActorStep, ServiceStep, Suspend, Restore

LEMMA EnrollmentType ==
    ASSUME TypeOK, NEW open \in BOOLEAN, NEW t \in Instants, SetEnrollment(open, t)
    PROVE  TypeOK'
BY InstantType DEF SetEnrollment, TypeOK

(* What PurgeBatch does, as a property of two sets of actors: those whose   *)
(* relay row and those whose discovery row it deletes.                      *)
PurgedRows(lifecycle, discovery, unowned) ==
    /\ relays' = [a \in Actors |-> IF a \in lifecycle THEN NoRelay ELSE relays[a]]
    /\ relayEvents' = [a \in Actors |->
                         IF a \in lifecycle THEN Emptied(relayEvents[a])
                                            ELSE relayEvents[a]]
    /\ discoveries' = [a \in Actors |->
                         IF a \in discovery THEN NoDiscovery ELSE discoveries[a]]
    /\ observations' = [a \in Actors |->
                          IF a \in unowned THEN NoObservation ELSE observations[a]]
    /\ diagnostics' = [a \in Actors |->
                         IF a \in unowned THEN NoDiagnostic ELSE diagnostics[a]]
    /\ UNCHANGED <<moderationEvents, policy, discoveryEvents>>

(* Whatever snapshots a batch carries, stale ones included, only relay rows *)
(* that are inactive and not suspended now are deleted, and an observation  *)
(* goes exactly when the last row of its actor does.                        *)
LEMMA PurgeBatchRows ==
    ASSUME NEW batch, NEW cutoff, PurgeBatch(batch, cutoff)
    PROVE  \E lifecycle, discovery, unowned \in SUBSET Actors :
              /\ PurgedRows(lifecycle, discovery, unowned)
              /\ \A a \in lifecycle : relays[a].admin = "active"
              /\ unowned = UnownedActors(lifecycle, discovery)
<1> DEFINE lifecycle == PurgedActors(batch, "lifecycle", cutoff)
           discovery == PurgedActors(batch, "discovery", cutoff)
           unowned   == UnownedActors(lifecycle, discovery)
<1>1. PurgedRows(lifecycle, discovery, unowned)
  BY DEF PurgeBatch, PurgedRows
<1>2. /\ lifecycle \in SUBSET Actors
      /\ discovery \in SUBSET Actors
      /\ unowned \in SUBSET Actors
  BY DEF PurgedActors, UnownedActors
<1>3. \A a \in lifecycle : relays[a].admin = "active"
  BY DEF PurgedActors, RetentionStateMatches, PurgeEligible
<1> HIDE DEF lifecycle, discovery
<1> QED BY <1>1, <1>2, <1>3

LEMMA PurgeType ==
    ASSUME TypeOK, PurgeStep
    PROVE  TypeOK'
<1>1. PICK t \in Instants : \E batch \in SUBSET PurgeCandidates(t) : PurgeBatch(batch, t)
  BY DEF PurgeStep
<1>2. PICK batch : PurgeBatch(batch, t)
  BY <1>1
<1>3. PICK lifecycle, discovery, unowned \in SUBSET Actors :
              PurgedRows(lifecycle, discovery, unowned)
  BY <1>2, PurgeBatchRows
<1>4. /\ NoRelay \in RelayRow
      /\ NoDiscovery \in DiscoveryRow
      /\ NoObservation \in ObservationRow
      /\ NoDiagnostic \in DiagnosticRow
  BY NeverType DEF NoRelay, RelayRow, NoDiscovery, DiscoveryRow, NoObservation,
       ObservationRow, NoDiagnostic, DiagnosticRow, MaximumFailureStreak
<1>5. \A a \in Actors : Emptied(relayEvents[a]) \in Ledger(RelayEventKind)
  <2>1. "none" \in RelayEventKind
    BY DEF RelayEventKind
  <2> QED BY <2>1, EmptiedType DEF TypeOK
<1> QED BY <1>3, <1>4, <1>5 DEF PurgedRows, TypeOK

LEMMA NextType ==
    ASSUME TypeOK, [Next]_vars
    PROVE  TypeOK'
<1>1. CASE Next
  BY <1>1, ActorStepType, EnrollmentType, PurgeType DEF Next
<1>2. CASE UNCHANGED vars
  BY <1>2 DEF vars, TypeOK
<1> QED BY <1>1, <1>2

(* Every transaction leaves every table with well-formed rows. *)
THEOREM TypeCorrect == Spec => []TypeOK
BY InitType, NextType, PTL DEF Spec

-----------------------------------------------------------------------------
(* The inductive invariant, stated of the rows of one actor.  Beyond the    *)
(* properties it says that a missing row is the empty record, so that a     *)
(* transaction that creates a row starts from nothing, and that a stored    *)
(* retry never comes before the minimum delay.                              *)

RelayInv(r) ==
    /\ RelayChecks(r)
    /\ r.lifecycle = "absent" => r = NoRelay
    /\ r.lifecycle = "pruned" => r.seen + DeadBefore <= r.pruned

DiscoveryInv(d) ==
    /\ DiscoveryChecks(d)
    /\ d.state = "absent" => d = NoDiscovery

ObservationInv(o) ==
    /\ ObservationChecks(o)
    /\ o.state = "none" => o = NoObservation
    /\ o.declared # Never /\ o.inboxChecked # Never => o.declared <= o.inboxChecked

(* The waits until the next check of an actor. *)
Delays == {ReachabilityFreshness, UnreachableRetry, FailureRetryMinimum,
           2 * FailureRetryMinimum, 4 * FailureRetryMinimum}

DiagnosticInv(g) ==
    /\ g.updated = Never => g = NoDiagnostic
    /\ g.updated # Never =>
         /\ g.updated + FailureRetryMinimum <= g.next
         /\ \E d \in Delays : g.next = g.updated + d
         /\ g.streak = 0 => g.next = g.updated + ReachabilityFreshness

LifecycleInv(r, e) ==
    /\ (r.lifecycle = "registered") = (e.kind \in RegisteringKinds)
    /\ r.lifecycle = "pruned" => e.kind \in {"relay_pruned", "unregister_absent"}
    /\ r.lifecycle = "unregistered" => e.kind \in {"unregister_removed", "unregister_absent"}
    /\ r.lifecycle = "absent" => e.kind \in {"none", "unregister_absent"}

SuspensionInv(r, m) == (r.admin = "suspended") = (m.kind \in SuspendingKinds)

OwnerInv(r, d, o, g) ==
    /\ o.state # "none" => r.lifecycle # "absent" \/ d.state # "absent"
    /\ g.updated # Never => o.state # "none"
    /\ g.updated <= o.checked

EvidenceInv(r, e, o) ==
    r.lifecycle # "absent" =>
        /\ o.state # "none"
        /\ r.seen <= o.rfc9421
        /\ o.rfc9421 <= e.latest

ActorInv(a) ==
    /\ RelayInv(relays[a])
    /\ DiscoveryInv(discoveries[a])
    /\ ObservationInv(observations[a])
    /\ DiagnosticInv(diagnostics[a])
    /\ relayEvents[a].at = relayEvents[a].latest
    /\ moderationEvents[a].at = moderationEvents[a].latest
    /\ discoveryEvents[a].at = discoveryEvents[a].latest
    /\ LifecycleInv(relays[a], relayEvents[a])
    /\ SuspensionInv(relays[a], moderationEvents[a])
    /\ OwnerInv(relays[a], discoveries[a], observations[a], diagnostics[a])
    /\ EvidenceInv(relays[a], relayEvents[a], observations[a])

IInv == TypeOK /\ \A a \in Actors : ActorInv(a)

-----------------------------------------------------------------------------
(* Every row operator keeps the part of the invariant about its row.        *)

LEMMA RelayInvKept ==
    ASSUME NEW r \in RelayRow, NEW t \in Instants, RelayInv(r),
           r.updated <= t, r.seen <= t
    PROVE  /\ RelayInv(Registered(r, t))
           /\ r.lifecycle = "registered" => RelayInv(Alive(r, t))
           /\ RelayInv(Unregistered(r, t))
           /\ r.lifecycle # "absent" =>
                \A target \in {"active", "suspended"} : RelayInv(Moderated(r, target, t))
           /\ r.lifecycle = "registered" /\ r.seen <= t - DeadBefore => RelayInv(Pruned(r, t))
<1>1. t \in Nat /\ t # Never
  BY InstantType
<1> USE <1>1, DurationAssumption DEF RelayRow, RelayInv, RelayChecks, Stamp, Never
<1>2. RelayInv(Registered(r, t))
  BY DEF Registered, NoRelay
<1>3. r.lifecycle = "registered" => RelayInv(Alive(r, t))
  BY DEF Alive
<1>4. RelayInv(Unregistered(r, t))
  BY DEF Unregistered
<1>5. ASSUME r.lifecycle # "absent", NEW target \in {"active", "suspended"}
      PROVE  RelayInv(Moderated(r, target, t))
  BY <1>5 DEF Moderated
<1>6. r.lifecycle = "registered" /\ r.seen <= t - DeadBefore => RelayInv(Pruned(r, t))
  BY DEF Pruned
<1> QED BY <1>2, <1>3, <1>4, <1>5, <1>6

LEMMA DiscoveryInvKept ==
    ASSUME NEW d \in DiscoveryRow, NEW t \in Instants, DiscoveryInv(d), d.updated <= t
    PROVE  DiscoveryInv(Discovered(d, t)) /\ DiscoveryInv(Removed(d, t))
<1>1. t \in Nat /\ t # Never
  BY InstantType
<1> USE <1>1 DEF DiscoveryRow, DiscoveryInv, DiscoveryChecks, Stamp, Never
<1>2. DiscoveryInv(Discovered(d, t))
  BY DEF Discovered
<1>3. DiscoveryInv(Removed(d, t))
  BY DEF Removed
<1> QED BY <1>2, <1>3

LEMMA ObservationInvKept ==
    ASSUME NEW o \in ObservationRow, NEW t \in Instants, ObservationInv(o),
           o.state # "none"
    PROVE  /\ ObservationInv(Verified(o, t))
           /\ \A state \in Reached, inbox \in Inboxes \cup {NoInbox}, probed \in {Never, t} :
                o.checked <= t => ObservationInv(Checked(o, state, inbox, probed, t))
           /\ o.declared <= t => ObservationInv(InboxProbed(o, t))
           /\ \A inbox \in Inboxes \cup {NoInbox} :
                o.checked <= t /\ o.rfc9421 <= t => ObservationInv(Promoted(o, inbox, t))
<1>1. t \in Nat /\ t # Never
  BY InstantType
<1> USE <1>1, InboxAssumption
    DEF ObservationRow, ObservationInv, ObservationChecks, Stamp, Never, Later
<1>2. ObservationInv(Verified(o, t))
  BY DEF Verified
<1>3. ASSUME NEW state \in Reached, NEW inbox \in Inboxes \cup {NoInbox},
             NEW probed \in {Never, t}, o.checked <= t
      PROVE  ObservationInv(Checked(o, state, inbox, probed, t))
  BY <1>3 DEF Checked, Reached
<1>4. o.declared <= t => ObservationInv(InboxProbed(o, t))
  BY DEF InboxProbed
<1>5. ASSUME NEW inbox \in Inboxes \cup {NoInbox}, o.checked <= t, o.rfc9421 <= t
      PROVE  ObservationInv(Promoted(o, inbox, t))
  <2> DEFINE p == Promoted(o, inbox, t)
  <2>1. /\ p \in ObservationRow
        /\ p.state = "reachable" /\ p.checked = t /\ p.success = t
        /\ p.inbox = inbox
        /\ p.declared = IF inbox = NoInbox THEN Never ELSE t
        /\ p.inboxChecked \in {Never, t}
        /\ p.rfc9421 = o.rfc9421 /\ p.updated = t /\ p.revision = o.revision + 1
    BY PromotedFields
  <2> HIDE DEF p
  <2>2. ObservationInv(p)
    BY <1>5, <2>1
  <2> QED BY <2>2 DEF p
<1> QED BY <1>2, <1>3, <1>4, <1>5

LEMMA EmptyObservationInv ==
    ASSUME NEW t \in Instants
    PROVE  ObservationInv(EmptyObservation(t)) /\ EmptyObservation(t).state # "none"
<1>1. t \in Nat
  BY InstantType
<1> QED BY <1>1 DEF EmptyObservation, NoObservation, ObservationInv,
                    ObservationChecks, Never

LEMMA NoRowsInv ==
    /\ RelayInv(NoRelay)
    /\ DiscoveryInv(NoDiscovery)
    /\ ObservationInv(NoObservation)
    /\ DiagnosticInv(NoDiagnostic)
BY DEF RelayInv, RelayChecks, NoRelay, DiscoveryInv, DiscoveryChecks, NoDiscovery,
       ObservationInv, ObservationChecks, NoObservation, DiagnosticInv, NoDiagnostic

LEMMA DiagnosedInv ==
    ASSUME TypeOK, NEW a \in Actors, NEW state, NEW t \in Instants
    PROVE  DiagnosticInv(Diagnosed(a, state, t)) /\ Diagnosed(a, state, t).updated # Never
<1>1. t \in Nat /\ t # Never
  BY InstantType
<1>2. /\ RetryDelay(NextStreak(a)) \in Nat
      /\ RetryDelay(NextStreak(a)) \in Delays
      /\ FailureRetryMinimum <= RetryDelay(NextStreak(a))
  BY DurationAssumption DEF RetryDelay, Delays
<1>3. NextStreak(a) # 0
  <2>1. diagnostics[a].streak \in 0..MaximumFailureStreak
    BY DEF TypeOK, DiagnosticRow
  <2> QED BY <2>1 DEF NextStreak, MaximumFailureStreak
<1> DEFINE g == Diagnosed(a, state, t)
<1>4. PICK d \in Delays :
          /\ g.updated = t /\ g.next = t + d
          /\ FailureRetryMinimum <= d
          /\ g.streak = 0 => d = ReachabilityFreshness
  <2>1. ReachabilityFreshness \in Delays /\ UnreachableRetry \in Delays
    BY DEF Delays
  <2>2. CASE state = "reachable"
    BY <2>1, <2>2, DurationAssumption DEF Diagnosed
  <2>3. CASE state # "reachable" /\ LastKnownOnline(a) <= t - UnreachableRetry
    <3>1. g = [streak |-> NextStreak(a), next |-> t + UnreachableRetry, updated |-> t]
      BY <2>3 DEF Diagnosed
    <3> QED BY <1>3, <2>1, <3>1, DurationAssumption
  <2>4. CASE state # "reachable" /\ ~(LastKnownOnline(a) <= t - UnreachableRetry)
    <3>1. g = [streak |-> NextStreak(a), next |-> t + RetryDelay(NextStreak(a)),
               updated |-> t]
      BY <2>4 DEF Diagnosed
    <3> QED BY <1>2, <1>3, <3>1
  <2> QED BY <2>2, <2>3, <2>4
<1>5. d \in Nat
  BY DurationAssumption DEF Delays
<1> HIDE DEF g
<1>6. DiagnosticInv(g) /\ g.updated # Never
  BY <1>1, <1>4, <1>5, DurationAssumption DEF DiagnosticInv
<1> QED BY <1>6 DEF g

(* A ledger that is appended to at a time not before its latest stays       *)
(* chronological, and never forgets its latest time.                        *)
LEMMA RecordedChronological ==
    ASSUME NEW Kind, NEW ledger \in Ledger(Kind), NEW kind, NEW t \in Instants
    PROVE  /\ Recorded(ledger, kind, t).kind = kind
           /\ t >= ledger.latest =>
                Recorded(ledger, kind, t).at = Recorded(ledger, kind, t).latest
           /\ t <= Recorded(ledger, kind, t).latest
           /\ ledger.latest <= Recorded(ledger, kind, t).latest
<1>1. t \in Nat
  BY InstantType
<1> QED BY <1>1 DEF Recorded, Ledger, Later, Stamp, Never

(* The verified observation of an actor satisfies its constraints and       *)
(* carries the time of the request.                                         *)
LEMMA VerifiedInv ==
    ASSUME IInv, NEW a \in Actors, NEW t \in Instants
    PROVE  /\ ObservationInv(Verified(ObservationAt(a, t), t))
           /\ Verified(ObservationAt(a, t), t).rfc9421 = t
           /\ Verified(ObservationAt(a, t), t).state # "none"
           /\ Verified(ObservationAt(a, t), t).checked = observations[a].checked
<1> DEFINE o == ObservationAt(a, t)
<1>1. o \in ObservationRow
  BY ObservationAtType DEF IInv
<1>2. ObservationInv(o) /\ o.state # "none"
  BY EmptyObservationInv DEF IInv, ActorInv, ObservationAt, HasObservation
<1>3. o.checked = observations[a].checked
  BY DEF ObservationAt, HasObservation, EmptyObservation, NoObservation, IInv, ActorInv,
         ObservationInv
<1> HIDE DEF o
<1>4. ObservationInv(Verified(o, t))
  BY <1>1, <1>2, ObservationInvKept
<1>5. /\ Verified(o, t).rfc9421 = t /\ Verified(o, t).state # "none"
      /\ Verified(o, t).checked = o.checked
  BY <1>1, <1>2 DEF Verified, ObservationRow
<1> QED BY <1>3, <1>4, <1>5 DEF o

-----------------------------------------------------------------------------
(* The transactions keep the invariant.  A transaction of one actor leaves  *)
(* the rows of every other actor alone.                                     *)

RowsUntouched(b) ==
    /\ relays'[b] = relays[b]
    /\ relayEvents'[b] = relayEvents[b]
    /\ moderationEvents'[b] = moderationEvents[b]
    /\ discoveries'[b] = discoveries[b]
    /\ discoveryEvents'[b] = discoveryEvents[b]
    /\ observations'[b] = observations[b]
    /\ diagnostics'[b] = diagnostics[b]

LEMMA OthersUntouched ==
    ASSUME TypeOK, NEW a \in Actors, NEW t \in Instants, ActorStep(a, t),
           NEW b \in Actors, b # a
    PROVE  RowsUntouched(b)
<1> USE DEF RowsUntouched, TypeOK
<1>1. CASE Register(a, t)
  BY <1>1 DEF Register
<1>2. CASE Heartbeat(a, t)
  BY <1>2 DEF Heartbeat
<1>3. CASE Unregister(a, t)
  BY <1>3 DEF Unregister
<1>4. ASSUME NEW target, Moderate(a, target, t)
      PROVE  RowsUntouched(b)
  BY <1>4 DEF Moderate
<1>5. CASE AddDiscovery(a, t)
  BY <1>5 DEF AddDiscovery
<1>6. CASE RemoveDiscovery(a, t)
  BY <1>6 DEF RemoveDiscovery
<1>7. ASSUME NEW s, NEW i, RecordActorObservation(a, s, i, t)
      PROVE  RowsUntouched(b)
  BY <1>7 DEF RecordActorObservation
<1>8. ASSUME NEW s, NEW i, RecordReachabilityObservation(a, s, i, t)
      PROVE  RowsUntouched(b)
  BY <1>8 DEF RecordReachabilityObservation
<1>9. ASSUME NEW i, RecordInboxObservation(a, i, t)
      PROVE  RowsUntouched(b)
  BY <1>9 DEF RecordInboxObservation
<1>10. CASE SoftPrune(a, t)
  BY <1>10 DEF SoftPrune
<1>11. ASSUME NEW i, PromoteDiscovery(a, i, t)
       PROVE  RowsUntouched(b)
  BY <1>11 DEF PromoteDiscovery
<1> QED
  BY <1>1, <1>2, <1>3, <1>4, <1>5, <1>6, <1>7, <1>8, <1>9, <1>10, <1>11
     DEF ActorStep, ServiceStep, Suspend, Restore

LEMMA UntouchedInv ==
    ASSUME NEW b, ActorInv(b), RowsUntouched(b)
    PROVE  ActorInv(b)'
BY DEF RowsUntouched, ActorInv

(* What the guard on the time of a transition says of the actor's rows. *)
LEMMA MonotonicRows ==
    ASSUME NEW a, NEW t, MonotonicTime(a, t)
    PROVE  /\ relays[a].updated <= t /\ relays[a].seen <= t
           /\ t >= relayEvents[a].latest
           /\ t >= moderationEvents[a].latest
BY DEF MonotonicTime

(* Signed requests.                                                         *)

LEMMA RegisterInv ==
    ASSUME IInv, NEW a \in Actors, NEW t \in Instants, Register(a, t)
    PROVE  ActorInv(a)'
<1> DEFINE r == relays[a]
           e == relayEvents[a]
           o == Verified(ObservationAt(a, t), t)
           k == RegisterKind(a)
<1>1. /\ r \in RelayRow /\ e \in Ledger(RelayEventKind) /\ t \in Nat
      /\ relays'[a] = Registered(r, t)
      /\ relayEvents'[a] = Recorded(e, k, t)
      /\ observations'[a] = o
      /\ UNCHANGED <<moderationEvents, discoveries, discoveryEvents, diagnostics>>
  BY InstantType DEF Register, IInv, TypeOK
<1>2. RelayInv(Registered(r, t))
  BY <1>1, RelayInvKept, MonotonicRows DEF Register, IInv, ActorInv
<1>3. /\ Registered(r, t).lifecycle = "registered"
      /\ Registered(r, t).admin = r.admin
      /\ Registered(r, t).seen = t
  BY <1>1 DEF Registered, RelayRow
<1>4. k \in RegisteringKinds
  BY DEF RegisterKind, RegisteringKinds
<1>5. /\ Recorded(e, k, t).kind = k
      /\ Recorded(e, k, t).at = Recorded(e, k, t).latest
      /\ t <= Recorded(e, k, t).latest
  BY <1>1, RecordedChronological, MonotonicRows DEF Register
<1>6. /\ ObservationInv(o) /\ o.rfc9421 = t /\ o.state # "none"
      /\ o.checked = observations[a].checked
  BY VerifiedInv
<1> HIDE DEF r, e, o, k
<1>7. LifecycleInv(relays'[a], relayEvents'[a])
  BY <1>1, <1>3, <1>4, <1>5 DEF LifecycleInv
<1>8. SuspensionInv(relays'[a], moderationEvents'[a])
  BY <1>1, <1>3 DEF SuspensionInv, IInv, ActorInv, r
<1>9. OwnerInv(relays'[a], discoveries'[a], observations'[a], diagnostics'[a])
  BY <1>1, <1>3, <1>6 DEF OwnerInv, IInv, ActorInv
<1>10. EvidenceInv(relays'[a], relayEvents'[a], observations'[a])
  BY <1>1, <1>3, <1>5, <1>6 DEF EvidenceInv
<1> QED BY <1>1, <1>2, <1>5, <1>6, <1>7, <1>8, <1>9, <1>10 DEF IInv, ActorInv

LEMMA HeartbeatInv ==
    ASSUME IInv, NEW a \in Actors, NEW t \in Instants, Heartbeat(a, t)
    PROVE  ActorInv(a)'
<1> DEFINE r == relays[a]
           e == relayEvents[a]
           o == Verified(ObservationAt(a, t), t)
           k == "heartbeat_recorded"
<1>1. /\ r \in RelayRow /\ e \in Ledger(RelayEventKind) /\ t \in Nat
      /\ relays'[a] = Alive(r, t)
      /\ relayEvents'[a] = Recorded(e, k, t)
      /\ observations'[a] = o
      /\ UNCHANGED <<moderationEvents, discoveries, discoveryEvents, diagnostics>>
  BY InstantType DEF Heartbeat, IInv, TypeOK
<1>2. RelayInv(Alive(r, t))
  BY <1>1, RelayInvKept, MonotonicRows DEF Heartbeat, IInv, ActorInv
<1>3. /\ Alive(r, t).lifecycle = "registered"
      /\ Alive(r, t).admin = r.admin
      /\ Alive(r, t).seen = t
  BY <1>1 DEF Alive, RelayRow, Heartbeat
<1>4. k \in RegisteringKinds
  BY DEF RegisteringKinds
<1>5. /\ Recorded(e, k, t).kind = k
      /\ Recorded(e, k, t).at = Recorded(e, k, t).latest
      /\ t <= Recorded(e, k, t).latest
  BY <1>1, RecordedChronological, MonotonicRows DEF Heartbeat
<1>6. /\ ObservationInv(o) /\ o.rfc9421 = t /\ o.state # "none"
      /\ o.checked = observations[a].checked
  BY VerifiedInv
<1> HIDE DEF r, e, o, k
<1>7. LifecycleInv(relays'[a], relayEvents'[a])
  BY <1>1, <1>3, <1>4, <1>5 DEF LifecycleInv
<1>8. SuspensionInv(relays'[a], moderationEvents'[a])
  BY <1>1, <1>3 DEF SuspensionInv, IInv, ActorInv, r
<1>9. OwnerInv(relays'[a], discoveries'[a], observations'[a], diagnostics'[a])
  BY <1>1, <1>3, <1>6 DEF OwnerInv, IInv, ActorInv
<1>10. EvidenceInv(relays'[a], relayEvents'[a], observations'[a])
  BY <1>1, <1>3, <1>5, <1>6 DEF EvidenceInv
<1> QED BY <1>1, <1>2, <1>5, <1>6, <1>7, <1>8, <1>9, <1>10 DEF IInv, ActorInv

LEMMA UnregisterInv ==
    ASSUME IInv, NEW a \in Actors, NEW t \in Instants, Unregister(a, t)
    PROVE  ActorInv(a)'
<1> DEFINE r == relays[a]
           e == relayEvents[a]
           k == UnregisterKind(a)
<1>1. /\ r \in RelayRow /\ e \in Ledger(RelayEventKind) /\ t \in Nat
      /\ relays'[a] = Unregistered(r, t)
      /\ relayEvents'[a] = Recorded(e, k, t)
      /\ UNCHANGED <<moderationEvents, discoveries, discoveryEvents, diagnostics>>
  BY InstantType DEF Unregister, IInv, TypeOK
<1>2. RelayInv(Unregistered(r, t))
  BY <1>1, RelayInvKept, MonotonicRows DEF Unregister, IInv, ActorInv
<1>3. /\ Unregistered(r, t).lifecycle =
           IF r.lifecycle = "registered" THEN "unregistered" ELSE r.lifecycle
      /\ Unregistered(r, t).admin = r.admin
      /\ Unregistered(r, t).seen = r.seen
  BY <1>1 DEF Unregistered, RelayRow
<1>4. k = IF r.lifecycle = "registered" THEN "unregister_removed" ELSE "unregister_absent"
  BY DEF UnregisterKind
<1>5. /\ Recorded(e, k, t).kind = k
      /\ Recorded(e, k, t).at = Recorded(e, k, t).latest
      /\ t <= Recorded(e, k, t).latest
  BY <1>1, RecordedChronological, MonotonicRows DEF Unregister
<1>6. r.seen <= t
  BY MonotonicRows DEF Unregister
<1>7. IF RetainedIdentity(a)
      THEN /\ ObservationInv(observations'[a])
           /\ observations'[a].rfc9421 = t
           /\ observations'[a].state # "none"
           /\ observations'[a].checked = observations[a].checked
      ELSE observations'[a] = observations[a]
  BY VerifiedInv DEF Unregister, IInv, TypeOK
<1>8. ObservationInv(observations'[a])
  BY <1>7 DEF IInv, ActorInv
<1>9. LifecycleInv(relays'[a], relayEvents'[a])
  <2>1. LifecycleInv(r, e)
    BY DEF IInv, ActorInv
  <2> HIDE DEF r, e, k
  <2> QED BY <1>1, <1>3, <1>4, <1>5, <2>1 DEF LifecycleInv, RelayRow, RegisteringKinds
<1>10. SuspensionInv(relays'[a], moderationEvents'[a])
  BY <1>1, <1>3 DEF SuspensionInv, IInv, ActorInv
<1>11. OwnerInv(relays'[a], discoveries'[a], observations'[a], diagnostics'[a])
  <2>1. OwnerInv(r, discoveries[a], observations[a], diagnostics[a])
    BY DEF IInv, ActorInv
  <2> QED BY <1>1, <1>3, <1>7, <2>1 DEF OwnerInv, RetainedIdentity, HasRelay, HasDiscovery
<1>12. EvidenceInv(relays'[a], relayEvents'[a], observations'[a])
  <2>1. r.lifecycle # "absent" => RetainedIdentity(a)
    BY DEF RetainedIdentity, HasRelay
  <2> HIDE DEF r, e, k
  <2> QED BY <1>1, <1>3, <1>5, <1>6, <1>7, <2>1 DEF EvidenceInv
<1> QED BY <1>1, <1>2, <1>5, <1>8, <1>9, <1>10, <1>11, <1>12 DEF IInv, ActorInv

(* Local administration.                                                    *)

LEMMA ModerateInv ==
    ASSUME IInv, NEW a \in Actors, NEW t \in Instants,
           NEW target \in {"active", "suspended"}, Moderate(a, target, t)
    PROVE  ActorInv(a)'
<1> DEFINE r == relays[a]
           m == moderationEvents[a]
           k == ModerationKind(relays[a].admin, target)
<1>1. /\ r \in RelayRow /\ m \in Ledger(ModerationAction) /\ t \in Nat
      /\ r.lifecycle # "absent"
      /\ relays'[a] = Moderated(r, target, t)
      /\ moderationEvents'[a] = Recorded(m, k, t)
      /\ UNCHANGED <<relayEvents, discoveries, discoveryEvents, observations, diagnostics>>
  BY InstantType DEF Moderate, HasRelay, IInv, TypeOK
<1>2. RelayInv(Moderated(r, target, t))
  BY <1>1, RelayInvKept, MonotonicRows DEF Moderate, IInv, ActorInv
<1>3. /\ Moderated(r, target, t).lifecycle = r.lifecycle
      /\ Moderated(r, target, t).admin = target
      /\ Moderated(r, target, t).seen = r.seen
  BY <1>1 DEF Moderated, RelayRow
<1>4. (k \in SuspendingKinds) = (target = "suspended")
  BY <1>1 DEF ModerationKind, SuspendingKinds, RelayRow
<1>5. /\ Recorded(m, k, t).kind = k
      /\ Recorded(m, k, t).at = Recorded(m, k, t).latest
  BY <1>1, RecordedChronological, MonotonicRows DEF Moderate
<1>6. LifecycleInv(relays'[a], relayEvents'[a])
  BY <1>1, <1>3 DEF LifecycleInv, IInv, ActorInv
<1>7. OwnerInv(relays'[a], discoveries'[a], observations'[a], diagnostics'[a])
  BY <1>1, <1>3 DEF OwnerInv, IInv, ActorInv
<1>8. EvidenceInv(relays'[a], relayEvents'[a], observations'[a])
  BY <1>1, <1>3 DEF EvidenceInv, IInv, ActorInv
<1> HIDE DEF r, m, k
<1>9. SuspensionInv(relays'[a], moderationEvents'[a])
  BY <1>1, <1>3, <1>4, <1>5 DEF SuspensionInv
<1> QED BY <1>1, <1>2, <1>5, <1>6, <1>7, <1>8, <1>9 DEF IInv, ActorInv

LEMMA SoftPruneInv ==
    ASSUME IInv, NEW a \in Actors, NEW t \in Instants, SoftPrune(a, t)
    PROVE  ActorInv(a)'
<1> DEFINE r == relays[a]
           e == relayEvents[a]
           k == "relay_pruned"
<1>1. /\ r \in RelayRow /\ e \in Ledger(RelayEventKind) /\ t \in Nat
      /\ r.lifecycle = "registered"
      /\ r.seen <= t - DeadBefore
      /\ relays'[a] = Pruned(r, t)
      /\ relayEvents'[a] = Recorded(e, k, t)
      /\ UNCHANGED <<moderationEvents, discoveries, discoveryEvents, observations, diagnostics>>
  BY InstantType DEF SoftPrune, PruneCandidate, IInv, TypeOK
<1>2. RelayInv(Pruned(r, t))
  BY <1>1, RelayInvKept, MonotonicRows DEF SoftPrune, IInv, ActorInv
<1>3. /\ Pruned(r, t).lifecycle = "pruned"
      /\ Pruned(r, t).admin = r.admin
      /\ Pruned(r, t).seen = r.seen
  BY <1>1 DEF Pruned, RelayRow
<1>4. /\ Recorded(e, k, t).kind = k
      /\ Recorded(e, k, t).at = Recorded(e, k, t).latest
      /\ e.latest <= Recorded(e, k, t).latest
  BY <1>1, RecordedChronological, MonotonicRows DEF SoftPrune
<1>5. LifecycleInv(relays'[a], relayEvents'[a])
  BY <1>1, <1>3, <1>4 DEF LifecycleInv, RegisteringKinds
<1>6. SuspensionInv(relays'[a], moderationEvents'[a])
  BY <1>1, <1>3 DEF SuspensionInv, IInv, ActorInv
<1>7. OwnerInv(relays'[a], discoveries'[a], observations'[a], diagnostics'[a])
  BY <1>1, <1>3 DEF OwnerInv, IInv, ActorInv
<1>8. EvidenceInv(relays'[a], relayEvents'[a], observations'[a])
  <2>1. EvidenceInv(r, e, observations[a])
    BY DEF IInv, ActorInv
  <2>2. observations[a].rfc9421 \in Stamp /\ e.latest \in Stamp
    BY <1>1 DEF IInv, TypeOK, ObservationRow, Ledger
  <2>3. Recorded(e, k, t).latest \in Stamp
    BY <1>1, InstantType DEF Recorded, Ledger, Later
  <2> HIDE DEF r, e, k
  <2> QED BY <1>1, <1>3, <1>4, <2>1, <2>2, <2>3 DEF EvidenceInv, Stamp, Never
<1> HIDE DEF r, e, k
<1> QED BY <1>1, <1>2, <1>4, <1>5, <1>6, <1>7, <1>8 DEF IInv, ActorInv

(* A discovery command: the kind it records is only audit. *)
LEMMA DiscoveryInvStep ==
    ASSUME IInv, NEW a \in Actors, NEW t \in Instants,
           NEW k \in DiscoveryAction, NEW row \in DiscoveryRow, DiscoveryInv(row),
           discoveries[a].state # "absent" => row.state # "absent",
           t >= discoveryEvents[a].latest,
           discoveries' = [discoveries EXCEPT ![a] = row],
           discoveryEvents' = [discoveryEvents EXCEPT ![a] = Recorded(@, k, t)],
           UNCHANGED <<relays, relayEvents, moderationEvents, observations, diagnostics>>
    PROVE  ActorInv(a)'
<1>1. /\ discoveries'[a] = row
      /\ discoveryEvents'[a] = Recorded(discoveryEvents[a], k, t)
      /\ discoveryEvents[a] \in Ledger(DiscoveryAction)
  BY DEF IInv, TypeOK
<1>2. discoveryEvents'[a].at = discoveryEvents'[a].latest
  BY <1>1, RecordedChronological
<1>3. OwnerInv(relays'[a], discoveries'[a], observations'[a], diagnostics'[a])
  BY <1>1 DEF OwnerInv, IInv, ActorInv
<1> QED BY <1>1, <1>2, <1>3 DEF IInv, ActorInv

LEMMA AddDiscoveryInv ==
    ASSUME IInv, NEW a \in Actors, NEW t \in Instants, AddDiscovery(a, t)
    PROVE  ActorInv(a)'
<1> DEFINE d == discoveries[a]
<1>1. d \in DiscoveryRow /\ DiscoveryInv(d) /\ d.updated <= t /\ t >= discoveryEvents[a].latest
  BY DEF AddDiscovery, MonotonicDiscoveryTime, IInv, ActorInv, TypeOK
<1>2. Discovered(d, t) \in DiscoveryRow /\ DiscoveryInv(Discovered(d, t))
  BY <1>1, DiscoveryRowTypes, DiscoveryInvKept
<1>3. Discovered(d, t).state # "absent"
  BY <1>1 DEF Discovered, DiscoveryRow
<1>4. AddDiscoveryKind(a) \in DiscoveryAction
  BY DEF AddDiscoveryKind, DiscoveryAction
<1>5. /\ discoveries' = [discoveries EXCEPT ![a] = Discovered(d, t)]
      /\ discoveryEvents' = [discoveryEvents EXCEPT ![a] = Recorded(@, AddDiscoveryKind(a), t)]
      /\ UNCHANGED <<relays, relayEvents, moderationEvents, observations, diagnostics>>
  BY DEF AddDiscovery
<1> HIDE DEF d
<1> QED BY <1>1, <1>2, <1>3, <1>4, <1>5, DiscoveryInvStep

LEMMA RemoveDiscoveryInv ==
    ASSUME IInv, NEW a \in Actors, NEW t \in Instants, RemoveDiscovery(a, t)
    PROVE  ActorInv(a)'
<1> DEFINE d == discoveries[a]
<1>1. d \in DiscoveryRow /\ DiscoveryInv(d) /\ d.updated <= t /\ t >= discoveryEvents[a].latest
  BY DEF RemoveDiscovery, MonotonicDiscoveryTime, IInv, ActorInv, TypeOK
<1>2. Removed(d, t) \in DiscoveryRow /\ DiscoveryInv(Removed(d, t))
  BY <1>1, DiscoveryRowTypes, DiscoveryInvKept
<1>3. d.state # "absent" => Removed(d, t).state # "absent"
  BY <1>1 DEF Removed, DiscoveryRow
<1>4. RemoveDiscoveryKind(a) \in DiscoveryAction
  BY DEF RemoveDiscoveryKind, DiscoveryAction
<1>5. /\ discoveries' = [discoveries EXCEPT ![a] = Removed(d, t)]
      /\ discoveryEvents' = [discoveryEvents EXCEPT ![a] = Recorded(@, RemoveDiscoveryKind(a), t)]
      /\ UNCHANGED <<relays, relayEvents, moderationEvents, observations, diagnostics>>
  BY DEF RemoveDiscovery
<1>6. discoveries[a].state # "absent" => Removed(d, t).state # "absent"
  BY <1>3
<1> HIDE DEF d
<1> QED BY <1>1, <1>2, <1>4, <1>5, <1>6, DiscoveryInvStep

(* Observations.  A check, a probe and a verification leave the owners and  *)
(* the ledgers alone; only a verification moves the authenticated evidence. *)

LEMMA ObservationInvStep ==
    ASSUME IInv, NEW a \in Actors, NEW o \in ObservationRow, ObservationInv(o),
           o.state # "none", o.rfc9421 = observations[a].rfc9421,
           RetainedIdentity(a),
           observations' = [observations EXCEPT ![a] = o],
           DiagnosticInv(diagnostics'[a]), diagnostics'[a].updated <= o.checked,
           UNCHANGED <<relays, relayEvents, moderationEvents, discoveries, discoveryEvents>>
    PROVE  ActorInv(a)'
<1>1. observations'[a] = o
  BY DEF IInv, TypeOK
<1>2. OwnerInv(relays'[a], discoveries'[a], observations'[a], diagnostics'[a])
  BY <1>1 DEF OwnerInv, RetainedIdentity, HasRelay, HasDiscovery
<1>3. EvidenceInv(relays'[a], relayEvents'[a], observations'[a])
  BY <1>1 DEF EvidenceInv, IInv, ActorInv
<1> QED BY <1>1, <1>2, <1>3 DEF IInv, ActorInv

(* The row a check starts from: its own, or an empty one. *)
LEMMA CheckedInv ==
    ASSUME IInv, NEW a \in Actors, NEW t \in Instants, NEW state \in Reached,
           NEW inbox \in Inboxes \cup {NoInbox}, NEW probed \in {Never, t},
           observations[a].checked <= t
    PROVE  LET o == Checked(ObservationAt(a, t), state, inbox, probed, t)
           IN  /\ o \in ObservationRow
               /\ ObservationInv(o)
               /\ o.state # "none"
               /\ o.rfc9421 = observations[a].rfc9421
               /\ o.checked = t
<1> DEFINE o == ObservationAt(a, t)
<1>1. o \in ObservationRow /\ probed \in Stamp /\ t \in Nat
  BY ObservationAtType, InstantType, NeverType DEF IInv
<1>2. ObservationInv(o) /\ o.state # "none"
  BY EmptyObservationInv DEF IInv, ActorInv, ObservationAt, HasObservation
<1>3. o.checked <= t /\ o.rfc9421 = observations[a].rfc9421
  BY <1>1 DEF ObservationAt, HasObservation, EmptyObservation, NoObservation, IInv,
              ActorInv, ObservationInv, Never
<1> HIDE DEF o
<1>4. Checked(o, state, inbox, probed, t) \in ObservationRow
  BY <1>1, ObservationRowTypes
<1>5. ObservationInv(Checked(o, state, inbox, probed, t))
  BY <1>1, <1>2, <1>3, ObservationInvKept
<1>6. /\ Checked(o, state, inbox, probed, t).state # "none"
      /\ Checked(o, state, inbox, probed, t).rfc9421 = o.rfc9421
      /\ Checked(o, state, inbox, probed, t).checked = t
  BY <1>1 DEF Checked, ObservationRow, Reached
<1> QED BY <1>3, <1>4, <1>5, <1>6 DEF o

LEMMA RecordActorObservationInv ==
    ASSUME IInv, NEW a \in Actors, NEW t \in Instants, NEW s \in Reached,
           NEW i \in Inboxes \cup {NoInbox}, RecordActorObservation(a, s, i, t)
    PROVE  ActorInv(a)'
<1> DEFINE o == Checked(ObservationAt(a, t), s, i, Never, t)
<1>1. observations[a].checked <= t
  BY DEF RecordActorObservation
<1>2. /\ o \in ObservationRow /\ ObservationInv(o) /\ o.state # "none"
      /\ o.rfc9421 = observations[a].rfc9421 /\ o.checked = t
  BY <1>1, CheckedInv
<1>3. /\ RetainedIdentity(a)
      /\ observations' = [observations EXCEPT ![a] = o]
      /\ DiagnosticInv(diagnostics'[a])
      /\ UNCHANGED <<relays, relayEvents, moderationEvents, discoveries, discoveryEvents>>
  BY DEF RecordActorObservation, IInv, ActorInv
<1>4. diagnostics'[a].updated <= t
  <2>1. diagnostics'[a] = diagnostics[a] /\ diagnostics[a].updated <= observations[a].checked
    BY DEF RecordActorObservation, IInv, ActorInv, OwnerInv
  <2>2. /\ diagnostics[a].updated \in Stamp /\ observations[a].checked \in Stamp
        /\ t \in Nat
    BY InstantType DEF IInv, TypeOK, DiagnosticRow, ObservationRow
  <2> QED BY <1>1, <2>1, <2>2 DEF Stamp, Never
<1> HIDE DEF o
<1> QED BY <1>2, <1>3, <1>4, ObservationInvStep

LEMMA RecordReachabilityObservationInv ==
    ASSUME IInv, NEW a \in Actors, NEW t \in Instants, NEW s \in Reached,
           NEW i \in Inboxes \cup {NoInbox}, RecordReachabilityObservation(a, s, i, t)
    PROVE  ActorInv(a)'
<1> DEFINE o == Checked(ObservationAt(a, t), s, i, t, t)
<1>1. observations[a].checked <= t
  BY InstantType DEF RecordReachabilityObservation, IInv, TypeOK, ObservationRow, Stamp, Never
<1>2. /\ o \in ObservationRow /\ ObservationInv(o) /\ o.state # "none"
      /\ o.rfc9421 = observations[a].rfc9421 /\ o.checked = t
  BY <1>1, CheckedInv
<1>3. RetainedIdentity(a)
  BY DEF RecordReachabilityObservation, ReachabilityEligible, RetainedIdentity,
         HasRelay, HasDiscovery
<1>4. DiagnosticInv(diagnostics'[a]) /\ diagnostics'[a].updated <= t
  <2>1. diagnostics'[a] = Diagnosed(a, s, t)
    BY DEF RecordReachabilityObservation, IInv, TypeOK
  <2>2. Diagnosed(a, s, t).updated = t /\ t \in Nat
    BY InstantType DEF Diagnosed
  <2> QED BY <2>1, <2>2, DiagnosedInv DEF IInv
<1>5. /\ observations' = [observations EXCEPT ![a] = o]
      /\ UNCHANGED <<relays, relayEvents, moderationEvents, discoveries, discoveryEvents>>
  BY DEF RecordReachabilityObservation
<1> HIDE DEF o
<1> QED BY <1>2, <1>3, <1>4, <1>5, ObservationInvStep

LEMMA RecordInboxObservationInv ==
    ASSUME IInv, NEW a \in Actors, NEW t \in Instants, NEW i \in Inboxes,
           RecordInboxObservation(a, i, t)
    PROVE  ActorInv(a)'
<1> DEFINE p == observations[a]
<1>1. p \in ObservationRow /\ ObservationInv(p)
  BY DEF IInv, ActorInv, TypeOK
<1>2. p.state # "none"
  BY DEF RecordInboxObservation, IInv, ActorInv, ObservationInv, NoObservation
<1>3. InboxProbed(p, t) \in ObservationRow
  <2>1. "reachable" \in Reached /\ NoInbox \in Inboxes \cup {NoInbox}
    BY DEF Reached
  <2> QED BY <1>1, <2>1, ObservationRowTypes, NeverType
<1>4. ObservationInv(InboxProbed(p, t))
  BY <1>1, <1>2, ObservationInvKept DEF RecordInboxObservation
<1>5. /\ InboxProbed(p, t).state # "none"
      /\ InboxProbed(p, t).rfc9421 = p.rfc9421
      /\ InboxProbed(p, t).checked = p.checked
  BY <1>1, <1>2 DEF InboxProbed, ObservationRow
<1>6. RetainedIdentity(a)
  BY <1>2 DEF IInv, ActorInv, OwnerInv, RetainedIdentity, HasRelay, HasDiscovery
<1>7. /\ observations' = [observations EXCEPT ![a] = InboxProbed(p, t)]
      /\ DiagnosticInv(diagnostics'[a]) /\ diagnostics'[a].updated <= p.checked
      /\ UNCHANGED <<relays, relayEvents, moderationEvents, discoveries, discoveryEvents>>
  BY DEF RecordInboxObservation, IInv, ActorInv, OwnerInv
<1>8. InboxProbed(p, t).rfc9421 = observations[a].rfc9421
  BY <1>5
<1> HIDE DEF p
<1> QED BY <1>3, <1>4, <1>5, <1>6, <1>7, <1>8, ObservationInvStep

(* A promotion is a discovery and a check at once; the guard on the         *)
(* verification time is what keeps the overwritten updated time legal.      *)
LEMMA PromoteDiscoveryInv ==
    ASSUME IInv, NEW a \in Actors, NEW t \in Instants,
           NEW i \in Inboxes \cup {NoInbox}, PromoteDiscovery(a, i, t)
    PROVE  ActorInv(a)'
<1> DEFINE o == ObservationAt(a, t)
           d == discoveries[a]
           k == AddDiscoveryKind(a)
<1>1. /\ d \in DiscoveryRow /\ DiscoveryInv(d) /\ d.updated <= t
      /\ discoveryEvents[a] \in Ledger(DiscoveryAction)
      /\ t >= discoveryEvents[a].latest
  BY DEF PromoteDiscovery, MonotonicDiscoveryTime, IInv, ActorInv, TypeOK
<1>2. /\ o \in ObservationRow /\ ObservationInv(o) /\ o.state # "none"
      /\ o.checked <= t /\ o.rfc9421 <= t /\ o.rfc9421 = observations[a].rfc9421
  <2>1. o \in ObservationRow
    BY ObservationAtType DEF IInv
  <2>2. ObservationInv(o) /\ o.state # "none"
    BY EmptyObservationInv DEF IInv, ActorInv, ObservationAt, HasObservation
  <2>3. o.rfc9421 = observations[a].rfc9421 /\ o.checked = observations[a].checked
    BY DEF ObservationAt, HasObservation, EmptyObservation, NoObservation, IInv,
           ActorInv, ObservationInv
  <2>4. observations[a].checked <= t /\ observations[a].rfc9421 <= t
    BY InstantType DEF PromoteDiscovery, PromotionFits, IInv, TypeOK, ObservationRow,
                       Stamp, Never
  <2> QED BY <2>1, <2>2, <2>3, <2>4
<1>3. /\ discoveries'[a] = Discovered(d, t)
      /\ discoveryEvents'[a] = Recorded(discoveryEvents[a], k, t)
      /\ observations'[a] = Promoted(o, i, t)
      /\ UNCHANGED <<relays, relayEvents, moderationEvents, diagnostics>>
  BY DEF PromoteDiscovery, IInv, TypeOK
<1> HIDE DEF o, d, k
<1>4. /\ DiscoveryInv(Discovered(d, t))
      /\ ObservationInv(Promoted(o, i, t))
  BY <1>1, <1>2, DiscoveryInvKept, ObservationInvKept
<1>5. discoveryEvents'[a].at = discoveryEvents'[a].latest
  BY <1>1, <1>3, RecordedChronological
<1>6. /\ Discovered(d, t).state # "absent"
      /\ Promoted(o, i, t).state # "none"
      /\ Promoted(o, i, t).rfc9421 = observations[a].rfc9421
      /\ Promoted(o, i, t).checked = t
  BY <1>1, <1>2, PromotedFields DEF Discovered, DiscoveryRow
<1>7. OwnerInv(relays'[a], discoveries'[a], observations'[a], diagnostics'[a])
  <2>1. diagnostics[a].updated <= observations[a].checked /\ observations[a].checked < t
    BY DEF PromoteDiscovery, IInv, ActorInv, OwnerInv
  <2>2. /\ diagnostics[a].updated \in Stamp /\ observations[a].checked \in Stamp
        /\ t \in Nat
    BY InstantType DEF IInv, TypeOK, DiagnosticRow, ObservationRow
  <2>3. diagnostics[a].updated <= t
    BY <2>1, <2>2 DEF Stamp, Never
  <2> QED BY <1>3, <1>6, <2>3 DEF OwnerInv
<1>8. EvidenceInv(relays'[a], relayEvents'[a], observations'[a])
  BY <1>3, <1>6 DEF EvidenceInv, IInv, ActorInv
<1> QED BY <1>3, <1>4, <1>5, <1>7, <1>8 DEF IInv, ActorInv

(* Hard retention. *)
LEMMA PurgeInv ==
    ASSUME IInv, PurgeStep, NEW a \in Actors
    PROVE  ActorInv(a)'
<1>1. PICK t \in Instants : \E batch \in SUBSET PurgeCandidates(t) : PurgeBatch(batch, t)
  BY DEF PurgeStep
<1>2. PICK batch : PurgeBatch(batch, t)
  BY <1>1
<1>3. PICK lifecycle, discovery, unowned \in SUBSET Actors :
              /\ PurgedRows(lifecycle, discovery, unowned)
              /\ \A x \in lifecycle : relays[x].admin = "active"
              /\ unowned = UnownedActors(lifecycle, discovery)
  BY <1>2, PurgeBatchRows
<1>4. /\ relays'[a] = IF a \in lifecycle THEN NoRelay ELSE relays[a]
      /\ relayEvents'[a] = IF a \in lifecycle THEN Emptied(relayEvents[a]) ELSE relayEvents[a]
      /\ discoveries'[a] = IF a \in discovery THEN NoDiscovery ELSE discoveries[a]
      /\ observations'[a] = IF a \in unowned THEN NoObservation ELSE observations[a]
      /\ diagnostics'[a] = IF a \in unowned THEN NoDiagnostic ELSE diagnostics[a]
      /\ UNCHANGED <<moderationEvents, discoveryEvents>>
  BY <1>3 DEF PurgedRows
<1>5. a \in unowned <=> /\ a \in lifecycle \cup discovery
                        /\ a \in lifecycle \/ relays[a].lifecycle = "absent"
                        /\ a \in discovery \/ discoveries[a].state = "absent"
  BY <1>3 DEF UnownedActors, HasRelay, HasDiscovery
<1>6. ActorInv(a)
  BY DEF IInv
<1>7. /\ RelayInv(relays'[a])
      /\ DiscoveryInv(discoveries'[a])
      /\ ObservationInv(observations'[a])
      /\ DiagnosticInv(diagnostics'[a])
  BY <1>4, <1>6, NoRowsInv DEF ActorInv
<1>8. relayEvents'[a].at = relayEvents'[a].latest
  BY <1>4, <1>6 DEF ActorInv, Emptied, NoEvents
<1>9. LifecycleInv(relays'[a], relayEvents'[a])
  BY <1>4, <1>6 DEF ActorInv, LifecycleInv, Emptied, NoEvents, NoRelay, RegisteringKinds
<1>10. SuspensionInv(relays'[a], moderationEvents'[a])
  BY <1>3, <1>4, <1>6 DEF ActorInv, SuspensionInv, NoRelay
<1>11. OwnerInv(relays'[a], discoveries'[a], observations'[a], diagnostics'[a])
  BY <1>4, <1>5, <1>6
     DEF ActorInv, OwnerInv, NoRelay, NoDiscovery, NoObservation, NoDiagnostic, Never
<1>12. EvidenceInv(relays'[a], relayEvents'[a], observations'[a])
  BY <1>4, <1>5, <1>6 DEF ActorInv, EvidenceInv, NoRelay
<1> QED BY <1>4, <1>6, <1>7, <1>8, <1>9, <1>10, <1>11, <1>12 DEF ActorInv

LEMMA InitInv == Init => IInv
<1> SUFFICES ASSUME Init PROVE IInv
  OBVIOUS
<1>1. TypeOK
  BY InitType
<1>2. ASSUME NEW a \in Actors PROVE ActorInv(a)
  BY NoRowsInv
     DEF Init, ActorInv, LifecycleInv, SuspensionInv, OwnerInv, EvidenceInv, NoRelay,
         NoEvents, NoDiscovery, NoObservation, NoDiagnostic, RegisteringKinds,
         SuspendingKinds, Never
<1> QED BY <1>1, <1>2 DEF IInv

LEMMA ActorStepInv ==
    ASSUME IInv, NEW a \in Actors, NEW t \in Instants, ActorStep(a, t)
    PROVE  \A b \in Actors : ActorInv(b)'
<1>1. ActorInv(a)'
  BY RegisterInv, HeartbeatInv, UnregisterInv, ModerateInv, AddDiscoveryInv,
     RemoveDiscoveryInv, RecordActorObservationInv, RecordReachabilityObservationInv,
     RecordInboxObservationInv, PromoteDiscoveryInv, SoftPruneInv
     DEF ActorStep, ServiceStep, Suspend, Restore
<1>2. ASSUME NEW b \in Actors, b # a PROVE ActorInv(b)'
  <2>1. RowsUntouched(b)
    BY <1>2, OthersUntouched DEF IInv
  <2>2. ActorInv(b)
    BY DEF IInv
  <2> QED BY <2>1, <2>2, UntouchedInv
<1> QED BY <1>1, <1>2

LEMMA NextInv ==
    ASSUME IInv, [Next]_vars
    PROVE  IInv'
<1>1. TypeOK'
  BY NextType DEF IInv
<1>2. \A a \in Actors : ActorInv(a)'
  <2>1. ASSUME NEW x \in Actors, NEW t \in Instants, ActorStep(x, t)
        PROVE  \A a \in Actors : ActorInv(a)'
    BY <2>1, ActorStepInv
  <2>2. ASSUME NEW open, NEW t, SetEnrollment(open, t), NEW a \in Actors
        PROVE  ActorInv(a)'
    <3>1. RowsUntouched(a)
      BY <2>2 DEF SetEnrollment, RowsUntouched
    <3>2. ActorInv(a)
      BY DEF IInv
    <3> QED BY <3>1, <3>2, UntouchedInv
  <2>3. CASE PurgeStep
    BY <2>3, PurgeInv
  <2>4. ASSUME UNCHANGED vars, NEW a \in Actors
        PROVE  ActorInv(a)'
    <3>1. RowsUntouched(a)
      BY <2>4 DEF vars, RowsUntouched
    <3>2. ActorInv(a)
      BY DEF IInv
    <3> QED BY <3>1, <3>2, UntouchedInv
  <2> QED BY <2>1, <2>2, <2>3, <2>4 DEF Next
<1> QED BY <1>1, <1>2 DEF IInv

THEOREM Inductive == Spec => []IInv
BY InitInv, NextInv, PTL DEF Spec

-----------------------------------------------------------------------------
(* What the invariant gives.                                                *)

(* No sequence of unregistering, pruning, hard retention and registering    *)
(* again, with captured times in any order, sheds a suspension.             *)
THEOREM SuspensionSafe == Spec => []SuspensionNotShed
<1>1. IInv => SuspensionNotShed
  BY DEF IInv, ActorInv, SuspensionInv, SuspensionNotShed
<1> QED BY <1>1, Inductive, PTL

(* No accepted request is refused by a CHECK constraint of its tables. *)
THEOREM SchemaSafe == Spec => []SchemaChecks
<1>1. IInv => SchemaChecks
  BY DEF IInv, ActorInv, RelayInv, DiscoveryInv, ObservationInv, SchemaChecks
<1> QED BY <1>1, Inductive, PTL

(* The lifecycle state and its audit are never committed apart.             *)
THEOREM AuditSafe == Spec => []LifecycleAudited
<1>1. IInv => LifecycleAudited
  BY DEF IInv, ActorInv, LifecycleInv, LifecycleAudited
<1> QED BY <1>1, Inductive, PTL

(* The audit of every actor is in time order, although transactions commit  *)
(* in another order than their times were captured.                         *)
THEOREM AuditInOrder == Spec => []AuditChronological
<1>1. IInv => AuditChronological
  BY DEF IInv, ActorInv, AuditChronological
<1> QED BY <1>1, Inductive, PTL

(* A retained relay never loses its authenticated evidence.                 *)
THEOREM EvidenceSafe == Spec => []EvidenceBacked
<1>1. IInv => EvidenceBacked
  BY DEF IInv, ActorInv, EvidenceInv, EvidenceBacked, HasRelay, HasObservation
<1> QED BY <1>1, Inductive, PTL

(* Hard retention never leaves an observation or a diagnostic without its   *)
(* owner.                                                                   *)
THEOREM ObservationsOwned == Spec => []NoOrphanObservation
<1>1. IInv => NoOrphanObservation
  BY DEF IInv, ActorInv, OwnerInv, NoOrphanObservation, HasObservation, HasDiagnostic,
         RetainedIdentity, HasRelay, HasDiscovery
<1> QED BY <1>1, Inductive, PTL

(* A relay is pruned only after the whole DeadBefore period of silence. *)
THEOREM PruneSafe == Spec => []PrunedWasDead
<1>1. IInv => PrunedWasDead
  BY DEF IInv, ActorInv, RelayInv, PrunedWasDead
<1> QED BY <1>1, Inductive, PTL

(* Every page of reachability candidates passes its own validation. *)
THEOREM PageSafe == Spec => []CandidatePageReadable
<1>1. ASSUME IInv, NEW a \in Actors, NEW t \in Instants, ReachabilityDue(a, t),
             observations[a].checked # Never
      PROVE  observations[a].checked <= t - FailureRetryMinimum
  <2> DEFINE o == observations[a]
             g == diagnostics[a]
  <2>1. /\ t \in Nat /\ o.checked \in Stamp /\ g.next \in Stamp /\ g.updated \in Stamp
    BY <1>1, InstantType DEF IInv, TypeOK, ObservationRow, DiagnosticRow
  <2>2. CASE g.updated = o.checked /\ g.next <= t
    <3>1. g.updated + FailureRetryMinimum <= g.next
      BY <1>1, <2>2 DEF IInv, ActorInv, DiagnosticInv
    <3> HIDE DEF o, g
    <3> QED BY <2>1, <2>2, <3>1, DurationAssumption DEF Stamp, Never, o
  <2>3. CASE \/ o.checked < t - UnreachableRetry
             \/ o.checked < t - ReachabilityFreshness
    BY <2>1, <2>3, DurationAssumption DEF Stamp, Never
  <2> QED BY <1>1, <2>2, <2>3 DEF ReachabilityDue, HasDiagnostic
<1>2. IInv => CandidatePageReadable
  BY <1>1 DEF CandidatePageReadable
<1> QED BY <1>2, Inductive, PTL

-----------------------------------------------------------------------------
(* Action properties.                                                       *)

LEMMA FrozenRows ==
    ASSUME NEW r \in RelayRow, NEW t, NEW target \in {"active", "suspended"}
    PROVE  /\ r.admin # "suspended" => Frozen(r, Registered(r, t)) /\ Frozen(r, Alive(r, t))
           /\ Frozen(r, Unregistered(r, t))
           /\ Frozen(r, Moderated(r, target, t))
           /\ Frozen(r, Pruned(r, t))
           /\ Frozen(r, NoRelay)
           /\ Frozen(r, r)
BY DEF Frozen, Registered, Alive, Unregistered, Moderated, Pruned, NoRelay, RelayRow

LEMMA StepFrozen ==
    ASSUME TypeOK, [Next]_vars, NEW b \in Actors
    PROVE  Frozen(relays[b], relays'[b])
<1> DEFINE F == Frozen(relays[b], relays'[b])
<1>0. Frozen(relays[b], relays[b]) /\ relays[b] \in RelayRow
  BY FrozenRows DEF TypeOK
<1>1. ASSUME NEW a \in Actors, NEW t \in Instants, ActorStep(a, t)
      PROVE  F
  <2>1. CASE b # a
    BY <1>0, <1>1, <2>1, OthersUntouched DEF RowsUntouched
  <2>2. CASE b = a
    <3>1. CASE Register(a, t)
      BY <1>0, <2>2, <3>1, FrozenRows DEF Register, Admitted, TypeOK
    <3>2. CASE Heartbeat(a, t)
      BY <1>0, <2>2, <3>2, FrozenRows DEF Heartbeat, Admitted, TypeOK
    <3>3. CASE Unregister(a, t)
      BY <1>0, <2>2, <3>3, FrozenRows DEF Unregister, TypeOK
    <3>4. ASSUME NEW target \in {"active", "suspended"}, Moderate(a, target, t)
          PROVE  F
      BY <1>0, <2>2, <3>4, FrozenRows DEF Moderate, TypeOK
    <3>5. CASE SoftPrune(a, t)
      BY <1>0, <2>2, <3>5, FrozenRows DEF SoftPrune, TypeOK
    <3>6. CASE UNCHANGED relays
      BY <1>0, <3>6
    <3> QED
      BY <1>1, <3>1, <3>2, <3>3, <3>4, <3>5, <3>6
         DEF ActorStep, ServiceStep, Suspend, Restore, AddDiscovery, RemoveDiscovery,
             RecordActorObservation, RecordReachabilityObservation,
             RecordInboxObservation, PromoteDiscovery
  <2> QED BY <2>1, <2>2
<1>2. CASE PurgeStep
  <2>1. PICK t \in Instants : \E batch \in SUBSET PurgeCandidates(t) : PurgeBatch(batch, t)
    BY <1>2 DEF PurgeStep
  <2>2. PICK batch : PurgeBatch(batch, t)
    BY <2>1
  <2>3. relays'[b] = NoRelay \/ relays'[b] = relays[b]
    BY <2>2, PurgeBatchRows DEF PurgedRows
  <2> QED BY <1>0, <2>3, FrozenRows
<1>3. CASE UNCHANGED relays
  BY <1>0, <1>3
<1> QED BY <1>1, <1>2, <1>3 DEF Next, SetEnrollment, vars

(* Nothing but a moderator's restore moves the last-seen time of a          *)
(* suspended relay or brings it back to the registered state.               *)
THEOREM SuspendedFrozen == Spec => SuspendedIsFrozen
<1>1. ASSUME TypeOK, [Next]_vars
      PROVE  [\A a \in Actors : Frozen(relays[a], relays'[a])]_vars
  BY <1>1, StepFrozen
<1> QED BY <1>1, TypeCorrect, PTL DEF Spec, SuspendedIsFrozen

LEMMA ForwardRows ==
    ASSUME NEW o \in ObservationRow, ObservationChecks(o), NEW t \in Instants
    PROVE  /\ o.rfc9421 <= t => EvidenceForward(o, Verified(o, t))
           /\ \A s \in Reached, i \in Inboxes \cup {NoInbox}, p \in {Never, t} :
                o.checked <= t => EvidenceForward(o, Checked(o, s, i, p, t))
           /\ EvidenceForward(o, InboxProbed(o, t))
           /\ \A i \in Inboxes \cup {NoInbox} :
                o.checked <= t => EvidenceForward(o, Promoted(o, i, t))
           /\ EvidenceForward(o, NoObservation)
           /\ EvidenceForward(o, o)
<1>1. t \in Nat
  BY InstantType
<1> USE <1>1 DEF EvidenceForward, ObservationRow, ObservationChecks, Stamp, Never, Later
<1>2. o.rfc9421 <= t => EvidenceForward(o, Verified(o, t))
  BY DEF Verified
<1>3. ASSUME NEW s \in Reached, NEW i \in Inboxes \cup {NoInbox}, NEW p \in {Never, t},
             o.checked <= t
      PROVE  EvidenceForward(o, Checked(o, s, i, p, t))
  BY <1>3 DEF Checked, Reached
<1>4. EvidenceForward(o, InboxProbed(o, t))
  BY DEF InboxProbed
<1>5. EvidenceForward(o, NoObservation) /\ EvidenceForward(o, o)
  BY DEF NoObservation
<1>6. ASSUME NEW i \in Inboxes \cup {NoInbox}, o.checked <= t
      PROVE  EvidenceForward(o, Promoted(o, i, t))
  <2> DEFINE p == Promoted(o, i, t)
  <2>1. /\ p \in ObservationRow
        /\ p.state = "reachable" /\ p.checked = t /\ p.success = t
        /\ p.inbox = i
        /\ p.declared = IF i = NoInbox THEN Never ELSE t
        /\ p.inboxChecked \in {Never, t}
        /\ p.rfc9421 = o.rfc9421 /\ p.updated = t /\ p.revision = o.revision + 1
    BY PromotedFields
  <2> HIDE DEF p
  <2>2. EvidenceForward(o, p)
    BY <1>6, <2>1
  <2> QED BY <2>2 DEF p
<1> QED BY <1>2, <1>3, <1>4, <1>5, <1>6

LEMMA StepForward ==
    ASSUME IInv, [Next]_vars, NEW b \in Actors
    PROVE  EvidenceForward(observations[b], observations'[b])
<1> DEFINE o == observations[b]
           F == EvidenceForward(o, observations'[b])
<1>0. o \in ObservationRow /\ ObservationChecks(o)
  BY DEF IInv, ActorInv, ObservationInv, TypeOK
<1>1. CASE o.state = "none"
  BY <1>1 DEF EvidenceForward
<1>2. CASE o.state # "none" /\ Next
  <2>1. ASSUME NEW t \in Instants PROVE ObservationAt(b, t) = o
    BY <1>2 DEF ObservationAt, HasObservation
  <2>2. ASSUME NEW a \in Actors, NEW t \in Instants, ActorStep(a, t)
        PROVE  F
    <3>1. CASE b # a
      BY <1>0, <2>2, <3>1, OthersUntouched, ForwardRows DEF RowsUntouched, IInv
    <3>2. CASE b = a
      <4>1. CASE observations' = [observations EXCEPT ![a] = Verified(o, t)] /\ EvidenceTime(a, t)
        BY <1>0, <3>2, <4>1, ForwardRows DEF EvidenceTime, IInv, TypeOK
      <4>2. ASSUME NEW s \in Reached, NEW i \in Inboxes \cup {NoInbox},
                   RecordActorObservation(a, s, i, t)
            PROVE  F
        BY <1>0, <2>1, <3>2, <4>2, ForwardRows DEF RecordActorObservation, IInv, TypeOK
      <4>3. ASSUME NEW s \in Reached, NEW i \in Inboxes \cup {NoInbox},
                   RecordReachabilityObservation(a, s, i, t)
            PROVE  F
        <5>1. o.checked <= t
          BY <1>0, <3>2, <4>3, InstantType
             DEF RecordReachabilityObservation, ObservationRow, Stamp, Never
        <5> QED BY <1>0, <2>1, <3>2, <4>3, <5>1, ForwardRows
                DEF RecordReachabilityObservation, IInv, TypeOK
      <4>4. ASSUME NEW i \in Inboxes, RecordInboxObservation(a, i, t)
            PROVE  F
        BY <1>0, <3>2, <4>4, ForwardRows DEF RecordInboxObservation, IInv, TypeOK
      <4>5. CASE UNCHANGED observations
        BY <1>0, <4>5, ForwardRows DEF Instants
      <4>6. ASSUME NEW i \in Inboxes \cup {NoInbox}, PromoteDiscovery(a, i, t)
            PROVE  F
        <5>1. o.checked <= t
          BY <1>0, <3>2, <4>6, InstantType DEF PromoteDiscovery, ObservationRow, Stamp, Never
        <5> QED BY <1>0, <2>1, <3>2, <4>6, <5>1, ForwardRows
                DEF PromoteDiscovery, IInv, TypeOK
      <4> QED
        BY <2>1, <2>2, <3>2, <4>1, <4>2, <4>3, <4>4, <4>5, <4>6
           DEF ActorStep, ServiceStep, Register, Heartbeat, Unregister, Suspend, Restore, Moderate,
               AddDiscovery, RemoveDiscovery, SoftPrune
    <3> QED BY <3>1, <3>2
  <2>3. ASSUME NEW t \in Instants, NEW batch, PurgeBatch(batch, t) PROVE F
    <3>1. observations'[b] = NoObservation \/ observations'[b] = o
      BY <2>3, PurgeBatchRows DEF PurgedRows
    <3> QED BY <1>0, <2>3, <3>1, ForwardRows
  <2>4. ASSUME NEW open, NEW t \in Instants, SetEnrollment(open, t) PROVE F
    BY <1>0, <2>4, ForwardRows DEF SetEnrollment
  <2> QED BY <1>2, <2>2, <2>3, <2>4 DEF Next, PurgeStep
<1>3. CASE o.state # "none" /\ UNCHANGED vars
  <2>1. 0 \in Instants
    BY BoundsAssumption DEF Instants
  <2> QED BY <1>0, <1>3, <2>1, ForwardRows DEF vars
<1> QED BY <1>1, <1>2, <1>3

(* No evidence about an actor goes back in time while its row lives, and    *)
(* hard retention can rely on the revision to notice every change of it.    *)
THEOREM EvidenceForwardOnly == Spec => EvidenceNeverRegresses
<1>1. ASSUME IInv, [Next]_vars
      PROVE  [\A a \in Actors : EvidenceForward(observations[a], observations'[a])]_vars
  BY <1>1, StepForward
<1> QED BY <1>1, Inductive, PTL DEF Spec, EvidenceNeverRegresses

-----------------------------------------------------------------------------
(* Versions.  Every change of a row raises one of the numbers that hard     *)
(* retention compares, or deletes the row.                                  *)

LEMMA RecordedVersion ==
    ASSUME NEW Kind, NEW ledger \in Ledger(Kind), NEW kind, kind # "none", NEW t
    PROVE  /\ Recorded(ledger, kind, t).id = ledger.id + 1
           /\ MaxEventID(Recorded(ledger, kind, t)) > MaxEventID(ledger)
BY DEF Recorded, Ledger, MaxEventID

RelayVersioned(a) ==
    \/ /\ relayEvents'[a] = relayEvents[a]
       /\ relays'[a].lifecycle = relays[a].lifecycle
       /\ \/ relays'[a] = relays[a]
          \/ MaxEventID(moderationEvents'[a]) > MaxEventID(moderationEvents[a])
    \/ relayEvents'[a].id = relayEvents[a].id + 1
    \/ relayEvents'[a].id = relayEvents[a].id /\ relayEvents'[a].kind = "none"

ModerationVersioned(a) ==
    \/ moderationEvents'[a] = moderationEvents[a]
    \/ MaxEventID(moderationEvents'[a]) > MaxEventID(moderationEvents[a])

DiscoveryVersioned(a) ==
    \/ MaxEventID(discoveryEvents'[a]) > MaxEventID(discoveryEvents[a])
    \/ /\ discoveryEvents'[a] = discoveryEvents[a]
       /\ discoveries'[a] \in {discoveries[a], NoDiscovery}

(* An observation is deleted only together with its last owner. *)
ObservationOwned(a) ==
    observations[a].state # "none" /\ observations'[a].state = "none" =>
        relays'[a].lifecycle = "absent" /\ discoveries'[a].state = "absent"

Versioned(a) ==
    /\ RelayVersioned(a)
    /\ ModerationVersioned(a)
    /\ DiscoveryVersioned(a)
    /\ ObservationOwned(a)

LEMMA UntouchedVersioned ==
    ASSUME NEW b, RowsUntouched(b)
    PROVE  Versioned(b)
BY DEF RowsUntouched, Versioned, RelayVersioned, ModerationVersioned, DiscoveryVersioned,
       ObservationOwned

LEMMA ObservationStays ==
    ASSUME IInv, NEW a \in Actors, NEW t \in Instants
    PROVE  /\ Verified(ObservationAt(a, t), t).state # "none"
           /\ \A s \in Reached, i \in Inboxes \cup {NoInbox}, p \in {Never, t} :
                 Checked(ObservationAt(a, t), s, i, p, t).state # "none"
           /\ \A i \in Inboxes \cup {NoInbox} : Promoted(ObservationAt(a, t), i, t).state # "none"
           /\ InboxProbed(observations[a], t).state = observations[a].state
<1>1. ObservationAt(a, t) \in ObservationRow /\ observations[a] \in ObservationRow
  BY ObservationAtType DEF IInv, TypeOK
<1>2. \A i \in Inboxes \cup {NoInbox} : Promoted(ObservationAt(a, t), i, t).state # "none"
  BY <1>1, PromotedFields
<1>3. \A s \in Reached, i \in Inboxes \cup {NoInbox}, p \in {Never, t} :
          Checked(ObservationAt(a, t), s, i, p, t).state # "none"
  BY <1>1 DEF Checked, ObservationRow, Reached
<1>4. Verified(ObservationAt(a, t), t).state # "none"
  BY VerifiedInv
<1> QED BY <1>1, <1>2, <1>3, <1>4 DEF InboxProbed, ObservationRow

LEMMA ActorStepVersioned ==
    ASSUME IInv, NEW a \in Actors, NEW t \in Instants, ActorStep(a, t)
    PROVE  Versioned(a)
<1>0. /\ relayEvents[a] \in Ledger(RelayEventKind)
      /\ moderationEvents[a] \in Ledger(ModerationAction)
      /\ discoveryEvents[a] \in Ledger(DiscoveryAction)
  BY DEF IInv, TypeOK
<1> USE DEF Versioned, RelayVersioned, ModerationVersioned, DiscoveryVersioned
<1>1. ASSUME NEW kind, kind # "none",
             relayEvents' = [relayEvents EXCEPT ![a] = Recorded(@, kind, t)],
             UNCHANGED <<moderationEvents, discoveries, discoveryEvents>>
      PROVE  RelayVersioned(a) /\ ModerationVersioned(a) /\ DiscoveryVersioned(a)
  <2>1. relayEvents'[a].id = relayEvents[a].id + 1
    BY <1>0, <1>1, RecordedVersion DEF IInv, TypeOK
  <2> QED BY <1>1, <2>1
<1>2. ASSUME NEW kind, kind # "none",
             discoveryEvents' = [discoveryEvents EXCEPT ![a] = Recorded(@, kind, t)],
             UNCHANGED <<relays, relayEvents, moderationEvents>>
      PROVE  RelayVersioned(a) /\ ModerationVersioned(a) /\ DiscoveryVersioned(a)
  <2>1. MaxEventID(discoveryEvents'[a]) > MaxEventID(discoveryEvents[a])
    BY <1>0, <1>2, RecordedVersion DEF IInv, TypeOK
  <2> QED BY <1>2, <2>1
<1>3. ASSUME UNCHANGED <<relays, relayEvents, moderationEvents, discoveries, discoveryEvents>>
      PROVE  RelayVersioned(a) /\ ModerationVersioned(a) /\ DiscoveryVersioned(a)
  BY <1>3
<1>4. ASSUME \/ UNCHANGED observations
             \/ observations' = [observations EXCEPT ![a] = Verified(ObservationAt(a, t), t)]
      PROVE  ObservationOwned(a)
  BY <1>4, ObservationStays DEF ObservationOwned, IInv, TypeOK
<1>5. CASE Register(a, t)
  <2>1. RegisterKind(a) # "none"
    BY DEF RegisterKind
  <2> QED BY <1>1, <1>4, <1>5, <2>1 DEF Register
<1>6. CASE Heartbeat(a, t)
  BY <1>1, <1>4, <1>6 DEF Heartbeat
<1>7. CASE Unregister(a, t)
  <2>1. UnregisterKind(a) # "none"
    BY DEF UnregisterKind
  <2> QED BY <1>1, <1>4, <1>7, <2>1 DEF Unregister
<1>8. ASSUME NEW target \in {"active", "suspended"}, Moderate(a, target, t)
      PROVE  Versioned(a)
  <2> DEFINE k == ModerationKind(relays[a].admin, target)
  <2>1. k # "none"
    BY DEF ModerationKind
  <2>2. moderationEvents' = [moderationEvents EXCEPT ![a] = Recorded(@, k, t)]
    BY <1>8 DEF Moderate
  <2> HIDE DEF k
  <2>3. MaxEventID(moderationEvents'[a]) > MaxEventID(moderationEvents[a])
    BY <1>0, <2>1, <2>2, RecordedVersion DEF IInv, TypeOK
  <2>4. relays'[a] = Moderated(relays[a], target, t)
    BY <1>8 DEF Moderate, IInv, TypeOK
  <2>5. relays'[a].lifecycle = relays[a].lifecycle
    BY <2>4 DEF Moderated, IInv, TypeOK, RelayRow
  <2>6. ObservationOwned(a)
    BY <1>4, <1>8 DEF Moderate
  <2> QED BY <1>8, <2>3, <2>5, <2>6 DEF Moderate
<1>9. CASE AddDiscovery(a, t)
  <2>1. AddDiscoveryKind(a) # "none"
    BY DEF AddDiscoveryKind
  <2> QED BY <1>2, <1>4, <1>9, <2>1 DEF AddDiscovery
<1>10. CASE RemoveDiscovery(a, t)
  <2>1. RemoveDiscoveryKind(a) # "none"
    BY DEF RemoveDiscoveryKind
  <2> QED BY <1>2, <1>4, <1>10, <2>1 DEF RemoveDiscovery
<1>11. ASSUME NEW s \in Reached, NEW i \in Inboxes \cup {NoInbox},
              RecordActorObservation(a, s, i, t) \/ RecordReachabilityObservation(a, s, i, t)
       PROVE  Versioned(a)
  <2>1. PICK p \in {Never, t} : observations' = [observations EXCEPT ![a] =
                                          Checked(ObservationAt(a, t), s, i, p, t)]
    BY <1>11 DEF RecordActorObservation, RecordReachabilityObservation
  <2>2. ObservationOwned(a)
    BY <2>1, ObservationStays DEF ObservationOwned, IInv, TypeOK
  <2> QED BY <1>3, <1>11, <2>2 DEF RecordActorObservation, RecordReachabilityObservation
<1>12. ASSUME NEW i \in Inboxes, RecordInboxObservation(a, i, t)
       PROVE  Versioned(a)
  <2>1. ObservationOwned(a)
    BY <1>12, ObservationStays DEF ObservationOwned, RecordInboxObservation, IInv, TypeOK
  <2> QED BY <1>3, <1>12, <2>1 DEF RecordInboxObservation
<1>13. CASE SoftPrune(a, t)
  BY <1>1, <1>4, <1>13 DEF SoftPrune
<1>14. ASSUME NEW i \in Inboxes \cup {NoInbox}, PromoteDiscovery(a, i, t)
       PROVE  Versioned(a)
  <2>1. AddDiscoveryKind(a) # "none"
    BY DEF AddDiscoveryKind
  <2>2. ObservationOwned(a)
    BY <1>14, ObservationStays DEF ObservationOwned, PromoteDiscovery, IInv, TypeOK
  <2> QED BY <1>2, <1>14, <2>1, <2>2 DEF PromoteDiscovery
<1> QED
  BY <1>5, <1>6, <1>7, <1>8, <1>9, <1>10, <1>11, <1>12, <1>13, <1>14
     DEF ActorStep, ServiceStep, Suspend, Restore

LEMMA StepVersioned ==
    ASSUME IInv, [Next]_vars, NEW b \in Actors
    PROVE  Versioned(b)
<1>1. ASSUME NEW a \in Actors, NEW t \in Instants, ActorStep(a, t)
      PROVE  Versioned(b)
  BY <1>1, ActorStepVersioned, OthersUntouched, UntouchedVersioned DEF IInv
<1>2. ASSUME NEW open, NEW t, SetEnrollment(open, t)
      PROVE  Versioned(b)
  BY <1>2, UntouchedVersioned DEF SetEnrollment, RowsUntouched
<1>3. CASE PurgeStep
  <2>1. PICK t \in Instants : \E batch \in SUBSET PurgeCandidates(t) : PurgeBatch(batch, t)
    BY <1>3 DEF PurgeStep
  <2>2. PICK batch : PurgeBatch(batch, t)
    BY <2>1
  <2>3. PICK lifecycle, discovery, unowned \in SUBSET Actors :
            /\ PurgedRows(lifecycle, discovery, unowned)
            /\ unowned = UnownedActors(lifecycle, discovery)
    BY <2>2, PurgeBatchRows
  <2>4. RelayVersioned(b) /\ ModerationVersioned(b) /\ DiscoveryVersioned(b)
    BY <2>3 DEF PurgedRows, RelayVersioned, ModerationVersioned, DiscoveryVersioned, Emptied,
                NoEvents
  <2>5. b \in unowned => /\ b \in lifecycle \/ relays[b].lifecycle = "absent"
                         /\ b \in discovery \/ discoveries[b].state = "absent"
    BY <2>3 DEF UnownedActors, HasRelay, HasDiscovery
  <2>6. ObservationOwned(b)
    BY <2>3, <2>5 DEF PurgedRows, ObservationOwned, NoRelay, NoDiscovery
  <2> QED BY <2>4, <2>6 DEF Versioned
<1>4. CASE UNCHANGED vars
  BY <1>4, UntouchedVersioned DEF vars, RowsUntouched
<1> QED BY <1>1, <1>2, <1>3, <1>4 DEF Next

-----------------------------------------------------------------------------
(* The smallest element of a set of numbers.  What would otherwise need an  *)
(* induction over the rows of a table is argued from it.                    *)
LEMMA NatRelation == \E R : IsWellFoundedOn(R, Nat) /\ \A x, y \in Nat : <<y, x>> \in R <=> y < x
<1> DEFINE R == OpToRel(<, Nat)
<1>1. IsWellFoundedOn(R, Nat)
  BY NatLessThanWellFounded
<1>2. \A x, y \in Nat : <<y,x>> \in R <=> y < x
  BY DEF OpToRel
<1> QED BY <1>1, <1>2, Zenon

LEMMA NatMin == ASSUME NEW T, T \subseteq Nat, T # {} PROVE \E x \in T : \A y \in T : x <= y
<1>1. PICK R : IsWellFoundedOn(R, Nat) /\ \A x, y \in Nat : <<y, x>> \in R <=> y < x
  BY NatRelation
<1>2. PICK x \in T : \A y \in T : ~ (<<y, x>> \in R)
  BY <1>1, WFMin
<1>3. ASSUME NEW y \in T PROVE x <= y
  <2>1. ~ (<<y, x>> \in R) /\ x \in Nat /\ y \in Nat
    BY <1>2
  <2>2. ~ (y < x)
    BY <1>1, <2>1
  <2> QED BY <2>1, <2>2
<1> QED BY <1>3

-----------------------------------------------------------------------------
(* Keyset pages, for any rows whose keys are in a strict total order.       *)

Chain(rows) ==
    /\ \A c \in rows : c.key # Start /\ ~Before(c.key, c.key)
    /\ \A c, d, e \in rows : Before(c.key, d.key) /\ Before(d.key, e.key) => Before(c.key, e.key)
    /\ \A c, d \in rows : c = d \/ Before(c.key, d.key) \/ Before(d.key, c.key)

(* How many rows come before a row. *)
RowsBefore(rows, c) == Cardinality({d \in rows : Before(d.key, c.key)})

LEMMA RowsBeforeType ==
    ASSUME NEW rows, IsFiniteSet(rows), NEW c
    PROVE  /\ IsFiniteSet({d \in rows : Before(d.key, c.key)})
           /\ RowsBefore(rows, c) \in Nat
  <1> DEFINE B == {d \in rows : Before(d.key, c.key)}
  <1>1. B \in SUBSET rows
    OBVIOUS
  <1> HIDE DEF B
  <1>2. IsFiniteSet(B)
    BY <1>1, FS_Subset
  <1>3. Cardinality(B) \in Nat
    BY <1>2, FS_CardinalityType
  <1> QED
    BY <1>2, <1>3 DEF B, RowsBefore

(* Counts follow the order. *)
LEMMA RowsBeforeGrow ==
    ASSUME NEW rows, IsFiniteSet(rows), Chain(rows), NEW c \in rows, NEW d \in rows,
           Before(c.key, d.key)
    PROVE  RowsBefore(rows, c) < RowsBefore(rows, d)
  <1> DEFINE B == {x \in rows : Before(x.key, c.key)}
             D == {x \in rows : Before(x.key, d.key)}
  <1>1. B \in SUBSET D /\ c \in D /\ c \notin B
    BY DEF Chain
  <1>2. IsFiniteSet(D) /\ IsFiniteSet(B)
    BY RowsBeforeType
  <1> HIDE DEF B, D
  <1>3. Cardinality(B) <= Cardinality(D) /\ (Cardinality(D) = Cardinality(B) => D = B)
    BY <1>1, <1>2, FS_Subset
  <1>4. Cardinality(B) \in Nat /\ Cardinality(D) \in Nat
    BY <1>2, FS_CardinalityType
  <1>5. Cardinality(B) < Cardinality(D)
    BY <1>1, <1>3, <1>4
  <1> QED
    BY <1>5 DEF RowsBefore, B, D

LEMMA PageMember ==
    ASSUME NEW rows, NEW limit, NEW c
    PROVE  c \in PageOf(rows, limit) <=> c \in rows /\ RowsBefore(rows, c) < limit
  BY DEF PageOf, RowsBefore

(* A page holds no more than was asked for. *)
LEMMA PageBounded ==
    ASSUME NEW rows, IsFiniteSet(rows), Chain(rows), NEW limit \in Nat
    PROVE  IsFiniteSet(PageOf(rows, limit)) /\ Cardinality(PageOf(rows, limit)) <= limit
  <1> DEFINE page == PageOf(rows, limit)
             f == [c \in page |-> RowsBefore(rows, c)]
             T == 0..(limit - 1)
  <1>1. ASSUME NEW c \in page PROVE c \in rows /\ f[c] \in T
    <2>1. c \in rows /\ RowsBefore(rows, c) < limit
      BY PageMember
    <2>2. RowsBefore(rows, c) \in Nat
      BY RowsBeforeType
    <2> QED
      BY <2>1, <2>2
  <1>2. ASSUME NEW c \in page, NEW d \in page, f[c] = f[d] PROVE c = d
    <2>1. c \in rows /\ d \in rows
      BY <1>1
    <2>2. RowsBefore(rows, c) = RowsBefore(rows, d)
      BY <1>2
    <2>3. RowsBefore(rows, c) \in Nat
      BY RowsBeforeType
    <2>4. ~Before(c.key, d.key) /\ ~Before(d.key, c.key)
      BY <2>1, <2>2, <2>3, RowsBeforeGrow
    <2> QED
      BY <2>1, <2>4 DEF Chain
  <1>3. f \in [page -> T]
    BY <1>1
  <1>4. f \in Injection(page, T)
    BY <1>2, <1>3 DEF Injection, IsInjective
  <1>5. IsFiniteSet(T) /\ Cardinality(T) = IF 0 > limit - 1 THEN 0 ELSE limit - 1 - 0 + 1
    <2>1. 0 \in Int /\ limit - 1 \in Int
      OBVIOUS
    <2> QED
      BY <2>1, FS_Interval
  <1>6. Cardinality(T) = limit
    BY <1>5
  <1> HIDE DEF page, f, T
  <1>7. IsFiniteSet(page) /\ Cardinality(page) <= Cardinality(T)
    BY <1>4, <1>5, FS_Injection
  <1> QED
    BY <1>6, <1>7 DEF page

(* It is all of the rows when they are few enough. *)
LEMMA PageWhole ==
    ASSUME NEW rows, IsFiniteSet(rows), Chain(rows), NEW limit \in Nat,
           Cardinality(rows) <= limit
    PROVE  PageOf(rows, limit) = rows
  <1>1. ASSUME NEW c \in rows PROVE RowsBefore(rows, c) < limit
    <2> DEFINE B == {d \in rows : Before(d.key, c.key)}
    <2>1. B \in SUBSET rows /\ c \notin B
      BY DEF Chain
    <2>2. IsFiniteSet(B) /\ Cardinality(B) \in Nat
      BY RowsBeforeType DEF RowsBefore
    <2>3. Cardinality(rows) \in Nat
      BY FS_CardinalityType
    <2>4. RowsBefore(rows, c) = Cardinality(B)
      BY DEF RowsBefore
    <2> HIDE DEF B
    <2>5. Cardinality(B) <= Cardinality(rows) /\ (Cardinality(rows) = Cardinality(B) => rows = B)
      BY <2>1, FS_Subset
    <2> QED
      BY <2>1, <2>2, <2>3, <2>4, <2>5
  <1> QED
    BY <1>1, PageMember

(* Some row comes first, so a page is empty only when there is no row. *)
LEMMA PageProgress ==
    ASSUME NEW rows, IsFiniteSet(rows), Chain(rows), NEW limit \in Nat \ {0}, rows # {}
    PROVE  PageOf(rows, limit) # {}
  <1> DEFINE P == {RowsBefore(rows, c) : c \in rows}
  <1>1. P \subseteq Nat /\ P # {}
    BY RowsBeforeType
  <1>2. PICK p \in P : \A q \in P : p <= q
    BY <1>1, NatMin
  <1>3. PICK c \in rows : p = RowsBefore(rows, c)
    OBVIOUS
  <1>4. ASSUME NEW d \in rows PROVE ~Before(d.key, c.key)
    <2>1. RowsBefore(rows, c) <= RowsBefore(rows, d)
      BY <1>2, <1>3
    <2>2. RowsBefore(rows, c) \in Nat /\ RowsBefore(rows, d) \in Nat
      BY RowsBeforeType
    <2> QED
      BY <2>1, <2>2, RowsBeforeGrow
  <1>5. {d \in rows : Before(d.key, c.key)} = {}
    BY <1>4
  <1>6. RowsBefore(rows, c) = 0
    BY <1>5, FS_EmptySet DEF RowsBefore
  <1>7. c \in PageOf(rows, limit)
    BY <1>6, PageMember
  <1> QED
    BY <1>7

(* The last key of a page is that of a row after all its others. *)
LEMMA LastRow ==
    ASSUME NEW rows, IsFiniteSet(rows), Chain(rows), NEW limit \in Nat,
           PageOf(rows, limit) # {}
    PROVE  \E c \in PageOf(rows, limit) :
              /\ LastKey(PageOf(rows, limit)) = c.key
              /\ \A d \in PageOf(rows, limit) : d = c \/ Before(d.key, c.key)
  <1> DEFINE page == PageOf(rows, limit)
             P == {limit - RowsBefore(rows, c) : c \in page}
  <1>1. ASSUME NEW c \in page
        PROVE  c \in rows /\ RowsBefore(rows, c) \in Nat /\ RowsBefore(rows, c) < limit
    BY PageMember, RowsBeforeType
  <1>2. P \subseteq Nat /\ P # {}
    BY <1>1
  <1>3. PICK p \in P : \A q \in P : p <= q
    BY <1>2, NatMin
  <1>4. PICK c \in page : p = limit - RowsBefore(rows, c)
    OBVIOUS
  <1>5. ASSUME NEW d \in page PROVE ~Before(c.key, d.key)
    <2>1. limit - RowsBefore(rows, c) <= limit - RowsBefore(rows, d)
      BY <1>3, <1>4
    <2>2. ~ (RowsBefore(rows, c) < RowsBefore(rows, d))
      BY <2>1, <1>1
    <2> QED
      BY <1>1, <2>2, RowsBeforeGrow
  <1> DEFINE last == CHOOSE x \in page : \A d \in page : ~Before(x.key, d.key)
  <1>6. last \in page /\ \A d \in page : ~Before(last.key, d.key)
    BY <1>5
  <1>7. ASSUME NEW d \in page PROVE d = last \/ Before(d.key, last.key)
    BY <1>1, <1>6 DEF Chain
  <1>8. LastKey(page) = last.key
    BY DEF LastKey
  <1> HIDE DEF last
  <1> QED
    BY <1>6, <1>7, <1>8

(* The rows that a page leaves are beyond its last key, and there are some  *)
(* only when the cursor for them is handed over.                            *)
LEMMA NextCovers ==
    ASSUME NEW rows, IsFiniteSet(rows), Chain(rows), NEW limit \in Nat \ {0}, NEW d \in rows
    PROVE  \/ d \in PageOf(rows, limit)
           \/ NextCursor(rows, limit) # Start /\ Before(NextCursor(rows, limit), d.key)
  <1> DEFINE page == PageOf(rows, limit)
  <1>1. CASE Cardinality(rows) <= limit
    BY <1>1, PageWhole
  <1>2. CASE Cardinality(rows) > limit /\ d \notin page
    <2>1. page # {}
      BY PageProgress
    <2>2. PICK c \in page : LastKey(page) = c.key
      BY <2>1, LastRow
    <2>3. c \in rows /\ RowsBefore(rows, c) < limit /\ ~ (RowsBefore(rows, d) < limit)
      BY <1>2, PageMember
    <2>4. RowsBefore(rows, c) \in Nat /\ RowsBefore(rows, d) \in Nat
      BY RowsBeforeType
    <2>5. c # d /\ ~ (RowsBefore(rows, d) < RowsBefore(rows, c))
      BY <2>3, <2>4
    <2>6. Before(c.key, d.key)
      BY <2>3, <2>5, RowsBeforeGrow DEF Chain
    <2>7. NextCursor(rows, limit) = c.key
      BY <1>2, <2>2 DEF NextCursor
    <2> QED
      BY <2>3, <2>6, <2>7 DEF Chain
  <1>3. Cardinality(rows) <= limit \/ Cardinality(rows) > limit
    BY FS_CardinalityType
  <1> QED
    BY <1>1, <1>2, <1>3

LEMMA CursorIsLast ==
    ASSUME NEW rows, IsFiniteSet(rows), Chain(rows), NEW limit \in Nat \ {0},
           NextCursor(rows, limit) # Start
    PROVE  PageOf(rows, limit) # {} /\ NextCursor(rows, limit) = LastKey(PageOf(rows, limit))
  <1>1. Cardinality(rows) > limit
    BY DEF NextCursor
  <1>2. rows # {}
    BY <1>1, FS_EmptySet
  <1> QED
    BY <1>1, <1>2, PageProgress DEF NextCursor

(* The order of the keys: by their first difference. *)
LEMMA BeforePair ==
    ASSUME NEW a, NEW b, NEW c, NEW d
    PROVE  Before(<<a, b>>, <<c, d>>) <=> a < c \/ (a = c /\ b < d)
  <1> DEFINE k == <<a, b>>
             l == <<c, d>>
  <1>1. Len(k) = 2 /\ Len(l) = 2 /\ k[1] = a /\ k[2] = b /\ l[1] = c /\ l[2] = d
    OBVIOUS
  <1> HIDE DEF k, l
  <1>2. Before(k, l) <=> k[1] < l[1] \/ (k[1] = l[1] /\ k[2] < l[2])
    <2>1. ASSUME k[1] < l[1] PROVE Before(k, l)
      <3>1. 1 \in 1..Len(l) /\ 1..(1 - 1) = {}
        BY <1>1
      <3> QED BY <2>1, <3>1 DEF Before
    <2>2. ASSUME k[1] = l[1], k[2] < l[2] PROVE Before(k, l)
      <3>1. 2 \in 1..Len(l) /\ \A j \in 1..(2 - 1) : j <= Len(k) /\ k[j] = l[j]
        BY <1>1, <2>2
      <3> QED BY <2>2, <3>1 DEF Before
    <2>3. ASSUME Before(k, l) PROVE k[1] < l[1] \/ (k[1] = l[1] /\ k[2] < l[2])
      <3>1. PICK i \in 1..2 : /\ \A j \in 1..(i - 1) : j <= 2 /\ k[j] = l[j]
                              /\ i <= 2 => k[i] < l[i]
        BY <1>1, <2>3 DEF Before
      <3>2. CASE i = 1
        BY <3>1, <3>2
      <3>3. CASE i = 2
        BY <3>1, <3>3
      <3> QED BY <3>2, <3>3
    <2> QED BY <2>1, <2>2, <2>3
  <1>3. Before(k, l) <=> a < c \/ (a = c /\ b < d)
    BY <1>1, <1>2
  <1> QED BY <1>3 DEF k, l

LEMMA BeforeTriple ==
    ASSUME NEW a, NEW b, NEW e, NEW c, NEW d, NEW f
    PROVE  Before(<<a, b, e>>, <<c, d, f>>)
             <=> a < c \/ (a = c /\ b < d) \/ (a = c /\ b = d /\ e < f)
  <1> DEFINE k == <<a, b, e>>
             l == <<c, d, f>>
  <1>1. /\ Len(k) = 3 /\ Len(l) = 3 /\ k[1] = a /\ k[2] = b /\ k[3] = e
        /\ l[1] = c /\ l[2] = d /\ l[3] = f
    OBVIOUS
  <1> HIDE DEF k, l
  <1>2. Before(k, l) <=> \/ k[1] < l[1]
                         \/ k[1] = l[1] /\ k[2] < l[2]
                         \/ k[1] = l[1] /\ k[2] = l[2] /\ k[3] < l[3]
    <2>1. ASSUME k[1] < l[1] PROVE Before(k, l)
      <3>1. 1 \in 1..Len(l) /\ 1..(1 - 1) = {}
        BY <1>1
      <3> QED BY <2>1, <3>1 DEF Before
    <2>2. ASSUME k[1] = l[1], k[2] < l[2] PROVE Before(k, l)
      <3>1. 2 \in 1..Len(l) /\ \A j \in 1..(2 - 1) : j <= Len(k) /\ k[j] = l[j]
        BY <1>1, <2>2
      <3> QED BY <2>2, <3>1 DEF Before
    <2>3. ASSUME k[1] = l[1], k[2] = l[2], k[3] < l[3] PROVE Before(k, l)
      <3>1. 3 \in 1..Len(l) /\ \A j \in 1..(3 - 1) : j <= Len(k) /\ k[j] = l[j]
        BY <1>1, <2>3
      <3> QED BY <2>3, <3>1 DEF Before
    <2>4. ASSUME Before(k, l)
          PROVE  \/ k[1] < l[1]
                 \/ k[1] = l[1] /\ k[2] < l[2]
                 \/ k[1] = l[1] /\ k[2] = l[2] /\ k[3] < l[3]
      <3>1. PICK i \in 1..3 : /\ \A j \in 1..(i - 1) : j <= 3 /\ k[j] = l[j]
                              /\ i <= 3 => k[i] < l[i]
        BY <1>1, <2>4 DEF Before
      <3>2. CASE i = 1
        BY <3>1, <3>2
      <3>3. CASE i = 2
        BY <3>1, <3>3
      <3>4. CASE i = 3
        BY <3>1, <3>4
      <3> QED BY <3>2, <3>3, <3>4
    <2> QED BY <2>1, <2>2, <2>3, <2>4
  <1>3. Before(k, l) <=> a < c \/ (a = c /\ b < d) \/ (a = c /\ b = d /\ e < f)
    BY <1>1, <1>2
  <1> QED BY <1>3 DEF k, l

(* The cursor of a first page is below every key. *)
LEMMA BeforeStart ==
    ASSUME NEW a, NEW b, NEW c
    PROVE  Before(Start, <<a, b>>) /\ Before(Start, <<a, b, c>>)
  <1>1. ASSUME NEW l, Len(l) \in Nat \ {0} PROVE Before(Start, l)
    <2>1. 1 \in 1..Len(l) /\ 1..(1 - 1) = {} /\ ~ (1 <= Len(Start))
      BY <1>1 DEF Start
    <2> QED BY <2>1 DEF Before
  <1>2. Len(<<a, b>>) \in Nat \ {0} /\ Len(<<a, b, c>>) \in Nat \ {0}
    OBVIOUS
  <1> QED BY <1>1, <1>2

(* Rows with keys of their own, of two or of three numbers, are in order. *)
LEMMA PairChain ==
    ASSUME NEW rows,
           \A c \in rows : \E a, b \in Int : c.key = <<a, b>>,
           \A c, d \in rows : c.key = d.key => c = d
    PROVE  Chain(rows)
  <1>1. ASSUME NEW c \in rows PROVE c.key # Start /\ ~Before(c.key, c.key)
    <2>1. PICK a, b \in Int : c.key = <<a, b>>
      OBVIOUS
    <2>2. <<a, b>> # <<>>
      OBVIOUS
    <2> QED BY <2>1, <2>2, BeforePair DEF Start
  <1>2. ASSUME NEW c \in rows, NEW d \in rows, NEW e \in rows,
               Before(c.key, d.key), Before(d.key, e.key)
        PROVE  Before(c.key, e.key)
    <2>1. PICK c1, c2 \in Int : c.key = <<c1, c2>>
      OBVIOUS
    <2>2. PICK d1, d2 \in Int : d.key = <<d1, d2>>
      OBVIOUS
    <2>3. PICK e1, e2 \in Int : e.key = <<e1, e2>>
      OBVIOUS
    <2>4. c1 < d1 \/ (c1 = d1 /\ c2 < d2)
      BY <1>2, <2>1, <2>2, BeforePair
    <2>5. d1 < e1 \/ (d1 = e1 /\ d2 < e2)
      BY <1>2, <2>2, <2>3, BeforePair
    <2>6. c1 < e1 \/ (c1 = e1 /\ c2 < e2)
      BY <2>4, <2>5
    <2> QED BY <2>1, <2>3, <2>6, BeforePair
  <1>3. ASSUME NEW c \in rows, NEW d \in rows
        PROVE  c = d \/ Before(c.key, d.key) \/ Before(d.key, c.key)
    <2>1. PICK c1, c2 \in Int : c.key = <<c1, c2>>
      OBVIOUS
    <2>2. PICK d1, d2 \in Int : d.key = <<d1, d2>>
      OBVIOUS
    <2>3. CASE c1 = d1 /\ c2 = d2
      BY <2>1, <2>2, <2>3
    <2>4. CASE c1 < d1 \/ (c1 = d1 /\ c2 < d2)
      BY <2>1, <2>2, <2>4, BeforePair
    <2>5. CASE d1 < c1 \/ (d1 = c1 /\ d2 < c2)
      BY <2>1, <2>2, <2>5, BeforePair
    <2> QED BY <2>3, <2>4, <2>5
  <1> QED BY <1>1, <1>2, <1>3 DEF Chain

LEMMA TripleChain ==
    ASSUME NEW rows,
           \A c \in rows : \E a, b, e \in Int : c.key = <<a, b, e>>,
           \A c, d \in rows : c.key = d.key => c = d
    PROVE  Chain(rows)
  <1>1. ASSUME NEW c \in rows PROVE c.key # Start /\ ~Before(c.key, c.key)
    <2>1. PICK a, b, e \in Int : c.key = <<a, b, e>>
      OBVIOUS
    <2>2. <<a, b, e>> # <<>>
      OBVIOUS
    <2> QED BY <2>1, <2>2, BeforeTriple DEF Start
  <1>2. ASSUME NEW c \in rows, NEW d \in rows, NEW e \in rows,
               Before(c.key, d.key), Before(d.key, e.key)
        PROVE  Before(c.key, e.key)
    <2>1. PICK c1, c2, c3 \in Int : c.key = <<c1, c2, c3>>
      OBVIOUS
    <2>2. PICK d1, d2, d3 \in Int : d.key = <<d1, d2, d3>>
      OBVIOUS
    <2>3. PICK e1, e2, e3 \in Int : e.key = <<e1, e2, e3>>
      OBVIOUS
    <2>4. c1 < d1 \/ (c1 = d1 /\ c2 < d2) \/ (c1 = d1 /\ c2 = d2 /\ c3 < d3)
      BY <1>2, <2>1, <2>2, BeforeTriple
    <2>5. d1 < e1 \/ (d1 = e1 /\ d2 < e2) \/ (d1 = e1 /\ d2 = e2 /\ d3 < e3)
      BY <1>2, <2>2, <2>3, BeforeTriple
    <2>6. c1 < e1 \/ (c1 = e1 /\ c2 < e2) \/ (c1 = e1 /\ c2 = e2 /\ c3 < e3)
      BY <2>4, <2>5
    <2> QED BY <2>1, <2>3, <2>6, BeforeTriple
  <1>3. ASSUME NEW c \in rows, NEW d \in rows
        PROVE  c = d \/ Before(c.key, d.key) \/ Before(d.key, c.key)
    <2>1. PICK c1, c2, c3 \in Int : c.key = <<c1, c2, c3>>
      OBVIOUS
    <2>2. PICK d1, d2, d3 \in Int : d.key = <<d1, d2, d3>>
      OBVIOUS
    <2>3. CASE c1 = d1 /\ c2 = d2 /\ c3 = d3
      BY <2>1, <2>2, <2>3
    <2>4. CASE c1 < d1 \/ (c1 = d1 /\ c2 < d2) \/ (c1 = d1 /\ c2 = d2 /\ c3 < d3)
      BY <2>1, <2>2, <2>4, BeforeTriple
    <2>5. CASE d1 < c1 \/ (d1 = c1 /\ d2 < c2) \/ (d1 = c1 /\ d2 = c2 /\ d3 < c3)
      BY <2>1, <2>2, <2>5, BeforeTriple
    <2> QED BY <2>3, <2>4, <2>5
  <1> QED BY <1>1, <1>2, <1>3 DEF Chain
=============================================================================
