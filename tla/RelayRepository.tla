--------------------------- MODULE RelayRepository ---------------------------
(***************************************************************************)
(* The durable relay state of the directory and the repository             *)
(* transactions that change it (internal/storage/sqlite: relay.go,         *)
(* moderation.go, enrollment.go, pruning.go, discovery.go, reachability.go *)
(* and the row effects of retention.go).                                   *)
(*                                                                         *)
(* Every repository method takes the write lease, opens an immediate       *)
(* SQLite transaction, reads, decides, writes and commits: it is one       *)
(* atomic action here.  A method that returns an error rolls back, which   *)
(* is a stuttering step.  The second a method works with was captured by   *)
(* its caller before it queued for the lease, by an HTTP handler, by a     *)
(* maintenance run at its start or by a command, from a wall clock that    *)
(* may be stepped; so no order is assumed between the times of successive  *)
(* transactions, and each action takes any t of Instants.                  *)
(*                                                                         *)
(* The public base URL is the origin of the actor URL                      *)
(* (protocol/v1/identity.go), a function of the actor, and is left out.    *)
(***************************************************************************)
EXTENDS Integers, FiniteSets

CONSTANTS
    Actors,                 \* canonical relay actor URLs
    Inboxes,                \* inbox URLs an actor document may declare
    NoInbox,                \* inbox_url IS NULL
    MaxTime,                \* bound: last second of the instance
    MaxEvents,              \* bound: rows ever appended to one ledger of an actor
    MaxRevision,            \* bound: revision of an observation row
    DeadBefore,             \* storage.DeadBefore, 30 days
    ReachabilityFreshness,  \* storage.ReachabilityFreshness, 6 hours
    FailureRetryMinimum,    \* storage.ReachabilityFailureRetryMinimum, 1 hour
    UnreachableRetry        \* storage.ReachabilityUnreachableRetry, 7 days

ASSUME BoundsAssumption ==
    /\ MaxTime \in Nat
    /\ MaxEvents \in Nat
    /\ MaxRevision \in Nat

ASSUME InboxAssumption == NoInbox \notin Inboxes

ASSUME DurationAssumption ==
    /\ DeadBefore \in Nat \ {0}
    /\ ReachabilityFreshness \in Nat
    /\ FailureRetryMinimum \in Nat \ {0}
    /\ UnreachableRetry \in Nat
    /\ FailureRetryMinimum <= ReachabilityFreshness
    /\ FailureRetryMinimum <= UnreachableRetry

VARIABLES
    relays,            \* table relays
    relayEvents,       \* table relay_events, per actor
    moderationEvents,  \* table moderation_events, per actor
    policy,            \* directory_policy and the latest enrollment_events time
    discoveries,       \* table relay_discoveries
    discoveryEvents,   \* table discovery_events, per actor
    observations,      \* table relay_observations
    diagnostics        \* table relay_probe_diagnostics

vars == <<relays, relayEvents, moderationEvents, policy,
          discoveries, discoveryEvents, observations, diagnostics>>

-----------------------------------------------------------------------------
(* Values.  A NULL time is Never, which is also the -1 the code starts its  *)
(* maxima from; the row of an actor without one is its No... record.        *)

Never    == -1
Instants == 0..MaxTime
Stamp    == Nat \cup {Never}

Later(s, t) == IF s > t THEN s ELSE t

RelayRow ==
    [lifecycle    : {"absent", "registered", "unregistered", "pruned"},
     admin        : {"active", "suspended"},
     first        : Stamp,   \* first_registered_at_unix
     updated      : Stamp,
     seen         : Stamp,   \* last_seen_at_unix; last_heartbeat_at_unix is always written with it
     unregistered : Stamp,
     pruned       : Stamp,
     suspended    : Stamp]

NoRelay ==
    [lifecycle |-> "absent", admin |-> "active", first |-> Never,
     updated |-> Never, seen |-> Never, unregistered |-> Never,
     pruned |-> Never, suspended |-> Never]

RegisteringKinds == {"register_created", "register_updated",
                     "register_unchanged", "heartbeat_recorded"}
RelayEventKind   == RegisteringKinds \cup
    {"none", "unregister_removed", "unregister_absent", "relay_pruned"}
SuspendingKinds  == {"suspend_applied", "suspend_unchanged"}
ModerationAction == SuspendingKinds \cup
    {"none", "restore_applied", "restore_unchanged"}
DiscoveryAction  == {"none", "discovery_added", "discovery_updated",
                     "discovery_unchanged", "discovery_removed", "discovery_absent"}

(* What the code ever reads of an append-only event table for one actor:    *)
(* MAX of the AUTOINCREMENT id, and MAX(recorded_at_unix).  kind and at are *)
(* those of the newest row; kind "none" says that the actor has no rows.    *)
Ledger(Kind) == [id : Nat, kind : Kind, at : Stamp, latest : Stamp]

NoEvents == [id |-> 0, kind |-> "none", at |-> Never, latest |-> Never]

MaxEventID(ledger) == IF ledger.kind = "none" THEN 0 ELSE ledger.id

Recorded(ledger, kind, t) ==
    [id |-> ledger.id + 1, kind |-> kind, at |-> t,
     latest |-> Later(ledger.latest, t)]

(* DELETE of the rows of an actor: AUTOINCREMENT never hands out an id again. *)
Emptied(ledger) == [NoEvents EXCEPT !.id = ledger.id]

DiscoveryRow ==
    [state : {"absent", "active", "removed"},
     first : Stamp, updated : Stamp, removed : Stamp]

NoDiscovery == [state |-> "absent", first |-> Never,
                updated |-> Never, removed |-> Never]

ObservationRow ==
    [state        : {"none", "unknown", "reachable", "unreachable"},
     checked      : Stamp,   \* actor_last_checked_at_unix
     success      : Stamp,   \* actor_last_success_at_unix
     inbox        : Inboxes \cup {NoInbox},
     declared     : Stamp,   \* inbox_declared_at_unix
     inboxChecked : Stamp,   \* Never iff inbox_probe_state is not_checked
     rfc9421      : Stamp,   \* rfc9421_verified_at_unix
     updated      : Stamp,
     revision     : Nat]

NoObservation ==
    [state |-> "none", checked |-> Never, success |-> Never,
     inbox |-> NoInbox, declared |-> Never, inboxChecked |-> Never,
     rfc9421 |-> Never, updated |-> Never, revision |-> 0]

EmptyObservation(t) ==
    [NoObservation EXCEPT !.state = "unknown", !.updated = t, !.revision = 1]

MaximumFailureStreak == 4

DiagnosticRow == [streak : 0..MaximumFailureStreak, next : Stamp, updated : Stamp]

NoDiagnostic == [streak |-> 0, next |-> Never, updated |-> Never]

TypeOK ==
    /\ relays \in [Actors -> RelayRow]
    /\ relayEvents \in [Actors -> Ledger(RelayEventKind)]
    /\ moderationEvents \in [Actors -> Ledger(ModerationAction)]
    /\ policy \in [open : BOOLEAN, updated : Nat, latestEvent : Stamp]
    /\ discoveries \in [Actors -> DiscoveryRow]
    /\ discoveryEvents \in [Actors -> Ledger(DiscoveryAction)]
    /\ observations \in [Actors -> ObservationRow]
    /\ diagnostics \in [Actors -> DiagnosticRow]

(* The migrated empty database: enrollment closed at second 0. *)
Init ==
    /\ relays = [a \in Actors |-> NoRelay]
    /\ relayEvents = [a \in Actors |-> NoEvents]
    /\ moderationEvents = [a \in Actors |-> NoEvents]
    /\ policy = [open |-> FALSE, updated |-> 0, latestEvent |-> Never]
    /\ discoveries = [a \in Actors |-> NoDiscovery]
    /\ discoveryEvents = [a \in Actors |-> NoEvents]
    /\ observations = [a \in Actors |-> NoObservation]
    /\ diagnostics = [a \in Actors |-> NoDiagnostic]

-----------------------------------------------------------------------------
(* Guards and row updates the transactions share.                           *)

HasRelay(a)       == relays[a].lifecycle # "absent"
HasDiscovery(a)   == discoveries[a].state # "absent"
HasObservation(a) == observations[a].state # "none"
HasDiagnostic(a)  == diagnostics[a].updated # Never

Room(ledger) == ledger.id < MaxEvents

(* Mutant: only the row is consulted, not the events of a transition that   *)
(* left the row alone.                                                      *)
MonotonicTimeOfRow(a, t) == t >= relays[a].updated /\ t >= relays[a].seen

(* A lifecycle or moderation transition may not be older than anything      *)
(* recorded of its actor.                                                   *)
MonotonicTime(a, t) ==
    /\ t >= relays[a].updated
    /\ t >= relays[a].seen
    /\ t >= relayEvents[a].latest
    /\ t >= moderationEvents[a].latest

MonotonicDiscoveryTime(a, t) ==
    /\ t >= discoveries[a].updated
    /\ t >= discoveryEvents[a].latest

RetainedIdentity(a) == HasRelay(a) \/ HasDiscovery(a)

(* The observation row, created empty by the transaction when missing. *)
ObservationAt(a, t) ==
    IF HasObservation(a) THEN observations[a] ELSE EmptyObservation(t)

(* Mutant: evidence is taken in the order of commits. *)
EvidenceTimeAny(a, t) == TRUE

(* recordRFC9421VerifiedTx refuses evidence older than the retained one... *)
EvidenceTime(a, t) == t >= observations[a].rfc9421

(* Mutants: the first verification is kept; updated_at_unix is overwritten. *)
VerifiedOnce(o, t) ==
    [o EXCEPT !.rfc9421  = IF @ = Never THEN t ELSE @,
              !.updated  = Later(@, t),
              !.revision = @ + 1]

VerifiedOverwrites(o, t) ==
    [o EXCEPT !.rfc9421 = t, !.updated = t, !.revision = @ + 1]

(* ... and writes nothing but the verification time and the row version. *)
Verified(o, t) ==
    [o EXCEPT !.rfc9421  = t,
              !.updated  = Later(@, t),
              !.revision = @ + 1]

-----------------------------------------------------------------------------
(* Relay lifecycle: requests the relay signed.                              *)

(* Mutant: a relay that is already registered is not looked at again. *)
AdmittedOnce(a) ==
    relays[a].admin # "suspended" \/ relays[a].lifecycle = "registered"

(* A suspended relay may not register or report. *)
Admitted(a) == relays[a].admin # "suspended"

RegisterKind(a) ==
    CASE relays[a].lifecycle = "absent"     -> "register_created"
      [] relays[a].lifecycle = "registered" -> "register_unchanged"
      [] OTHER                              -> "register_updated"

(* Mutant: the marks of an earlier departure stay. *)
RegisteredKeepsMarks(row, t) ==
    [row EXCEPT !.lifecycle = "registered",
                !.first     = IF row.lifecycle = "absent" THEN t ELSE @,
                !.updated   = t,
                !.seen      = t]

Registered(row, t) ==
    [row EXCEPT !.lifecycle    = "registered",
                !.first        = IF row.lifecycle = "absent" THEN t ELSE @,
                !.updated      = t,
                !.seen         = t,
                !.unregistered = Never,
                !.pruned       = Never]

Register(a, t) ==
    /\ Room(relayEvents[a])
    /\ Admitted(a)
    /\ HasRelay(a) \/ policy.open
    /\ MonotonicTime(a, t)
    /\ EvidenceTime(a, t)
    /\ relays' = [relays EXCEPT ![a] = Registered(@, t)]
    /\ observations' = [observations EXCEPT ![a] = Verified(ObservationAt(a, t), t)]
    /\ relayEvents' = [relayEvents EXCEPT ![a] = Recorded(@, RegisterKind(a), t)]
    /\ UNCHANGED <<moderationEvents, policy, discoveries, discoveryEvents, diagnostics>>

Alive(row, t) == [row EXCEPT !.updated = t, !.seen = t]

Heartbeat(a, t) ==
    /\ Room(relayEvents[a])
    /\ relays[a].lifecycle = "registered"
    /\ Admitted(a)
    /\ MonotonicTime(a, t)
    /\ EvidenceTime(a, t)
    /\ relays' = [relays EXCEPT ![a] = Alive(@, t)]
    /\ observations' = [observations EXCEPT ![a] = Verified(ObservationAt(a, t), t)]
    /\ relayEvents' = [relayEvents EXCEPT ![a] = Recorded(@, "heartbeat_recorded", t)]
    /\ UNCHANGED <<moderationEvents, policy, discoveries, discoveryEvents, diagnostics>>

Unregistered(row, t) ==
    IF row.lifecycle = "registered"
    THEN [row EXCEPT !.lifecycle = "unregistered", !.updated = t, !.unregistered = t]
    ELSE row

(* Mutants: one kind for every request; a kind the schema does not list. *)
UnregisterKindAlways(a)   == "unregister_removed"
UnregisterKindUnlisted(a) == "unregister_unchanged"

UnregisterKind(a) ==
    IF relays[a].lifecycle = "registered" THEN "unregister_removed"
                                          ELSE "unregister_absent"

(* Accepted for a suspended and even for an unknown actor; the verification *)
(* is recorded only where some row of the actor is retained.                *)
Unregister(a, t) ==
    /\ Room(relayEvents[a])
    /\ MonotonicTime(a, t)
    /\ RetainedIdentity(a) => EvidenceTime(a, t)
    /\ relays' = [relays EXCEPT ![a] = Unregistered(@, t)]
    /\ observations' = IF RetainedIdentity(a)
                       THEN [observations EXCEPT ![a] = Verified(ObservationAt(a, t), t)]
                       ELSE observations
    /\ relayEvents' = [relayEvents EXCEPT ![a] = Recorded(@, UnregisterKind(a), t)]
    /\ UNCHANGED <<moderationEvents, policy, discoveries, discoveryEvents, diagnostics>>

-----------------------------------------------------------------------------
(* Local administration.                                                    *)

ModerationKind(current, target) ==
    CASE target = "suspended" /\ current = "active"    -> "suspend_applied"
      [] target = "suspended" /\ current = "suspended" -> "suspend_unchanged"
      [] target = "active"    /\ current = "suspended" -> "restore_applied"
      [] OTHER                                         -> "restore_unchanged"

Moderated(row, target, t) ==
    IF row.admin = target
    THEN row
    ELSE [row EXCEPT !.admin     = target,
                     !.suspended = IF target = "suspended" THEN t ELSE Never,
                     !.updated   = t]

Moderate(a, target, t) ==
    /\ Room(moderationEvents[a])
    /\ HasRelay(a)
    /\ MonotonicTime(a, t)
    /\ relays' = [relays EXCEPT ![a] = Moderated(@, target, t)]
    /\ moderationEvents' = [moderationEvents EXCEPT ![a] =
                              Recorded(@, ModerationKind(relays[a].admin, target), t)]
    /\ UNCHANGED <<relayEvents, policy, discoveries, discoveryEvents,
                   observations, diagnostics>>

Suspend(a, t) == Moderate(a, "suspended", t)
Restore(a, t) == Moderate(a, "active", t)

SetEnrollment(open, t) ==
    /\ t >= policy.updated
    /\ t >= policy.latestEvent
    /\ policy' = [open |-> open,
                  updated |-> IF policy.open = open THEN policy.updated ELSE t,
                  latestEvent |-> t]
    /\ UNCHANGED <<relays, relayEvents, moderationEvents, discoveries,
                   discoveryEvents, observations, diagnostics>>

(* A new row, an unchanged active row, or a removed row made active again. *)
Discovered(row, t) ==
    CASE row.state = "absent" -> [state |-> "active", first |-> t,
                                  updated |-> t, removed |-> Never]
      [] row.state = "active" -> row
      [] OTHER -> [row EXCEPT !.state = "active", !.updated = t, !.removed = Never]

AddDiscoveryKind(a) ==
    CASE discoveries[a].state = "absent" -> "discovery_added"
      [] discoveries[a].state = "active" -> "discovery_unchanged"
      [] OTHER                           -> "discovery_updated"

AddDiscovery(a, t) ==
    /\ Room(discoveryEvents[a])
    /\ MonotonicDiscoveryTime(a, t)
    /\ discoveries' = [discoveries EXCEPT ![a] = Discovered(@, t)]
    /\ discoveryEvents' = [discoveryEvents EXCEPT ![a] =
                             Recorded(@, AddDiscoveryKind(a), t)]
    /\ UNCHANGED <<relays, relayEvents, moderationEvents, policy,
                   observations, diagnostics>>

Removed(row, t) ==
    IF row.state = "active"
    THEN [row EXCEPT !.state = "removed", !.updated = t, !.removed = t]
    ELSE row

RemoveDiscoveryKind(a) ==
    IF discoveries[a].state = "active" THEN "discovery_removed"
                                       ELSE "discovery_absent"

RemoveDiscovery(a, t) ==
    /\ Room(discoveryEvents[a])
    /\ MonotonicDiscoveryTime(a, t)
    /\ discoveries' = [discoveries EXCEPT ![a] = Removed(@, t)]
    /\ discoveryEvents' = [discoveryEvents EXCEPT ![a] =
                             Recorded(@, RemoveDiscoveryKind(a), t)]
    /\ UNCHANGED <<relays, relayEvents, moderationEvents, policy,
                   observations, diagnostics>>

-----------------------------------------------------------------------------
(* Observations: what the operator's command and the reachability worker    *)
(* saw of the actor document and of its inbox.                              *)

(* A reachable actor replaces the inbox evidence, an unreachable one (which *)
(* declares no inbox) leaves it alone.  probed is the time of the inbox     *)
(* probe made with the check, Never without one.                            *)
Checked(o, state, inbox, probed, t) ==
    IF state = "reachable"
    THEN [o EXCEPT !.state        = state,
                   !.checked      = t,
                   !.success      = t,
                   !.inbox        = inbox,
                   !.declared     = IF inbox = NoInbox THEN Never ELSE t,
                   !.inboxChecked = IF inbox = NoInbox THEN Never ELSE probed,
                   !.updated      = Later(@, t),
                   !.revision     = @ + 1]
    ELSE [o EXCEPT !.state    = state,
                   !.checked  = t,
                   !.updated  = Later(@, t),
                   !.revision = @ + 1]

RecordActorObservation(a, state, inbox, t) ==
    /\ observations[a].revision < MaxRevision
    /\ RetainedIdentity(a)
    /\ t >= observations[a].checked
    /\ state = "unreachable" => inbox = NoInbox
    /\ observations' = [observations EXCEPT ![a] =
                           Checked(ObservationAt(a, t), state, inbox, Never, t)]
    /\ UNCHANGED <<relays, relayEvents, moderationEvents, policy,
                   discoveries, discoveryEvents, diagnostics>>

InboxProbed(o, t) ==
    [o EXCEPT !.inboxChecked = t,
              !.updated      = Later(@, t),
              !.revision     = @ + 1]

RecordInboxObservation(a, inbox, t) ==
    /\ observations[a].revision < MaxRevision
    /\ inbox # NoInbox
    /\ observations[a].inbox = inbox
    /\ t >= observations[a].declared
    /\ t >= observations[a].inboxChecked
    /\ observations' = [observations EXCEPT ![a] = InboxProbed(@, t)]
    /\ UNCHANGED <<relays, relayEvents, moderationEvents, policy,
                   discoveries, discoveryEvents, diagnostics>>

(* Registration and active discovery are independent ways to be eligible;   *)
(* a retained suspension suppresses both.                                   *)
ReachabilityEligible(a) ==
    \/ /\ relays[a].lifecycle \in {"registered", "pruned"}
       /\ relays[a].admin = "active"
    \/ /\ discoveries[a].state = "active"
       /\ ~(HasRelay(a) /\ relays[a].admin = "suspended")

LastKnownOnline(a) ==
    Later(relays[a].seen, Later(discoveries[a].first, observations[a].success))

(* Mutant: exponential back-off that starts at zero. *)
RetryDelayFromZero(streak) ==
    CASE streak = 1 -> 0
      [] streak = 2 -> FailureRetryMinimum
      [] streak = 3 -> 2 * FailureRetryMinimum
      [] OTHER      -> ReachabilityFreshness

(* 1, 2, 4 and then 6 hours after consecutive failures. *)
RetryDelay(streak) ==
    CASE streak = 1 -> FailureRetryMinimum
      [] streak = 2 -> 2 * FailureRetryMinimum
      [] streak = 3 -> 4 * FailureRetryMinimum
      [] OTHER      -> ReachabilityFreshness

NextStreak(a) ==
    IF diagnostics[a].streak < MaximumFailureStreak
    THEN diagnostics[a].streak + 1
    ELSE diagnostics[a].streak

Diagnosed(a, state, t) ==
    IF state = "reachable"
    THEN [streak |-> 0, next |-> t + ReachabilityFreshness, updated |-> t]
    ELSE [streak  |-> NextStreak(a),
          next    |-> IF LastKnownOnline(a) <= t - UnreachableRetry
                      THEN t + UnreachableRetry
                      ELSE t + RetryDelay(NextStreak(a)),
          updated |-> t]

(* One worker result.  A newer or equal check already recorded wins. *)
RecordReachabilityObservation(a, state, inbox, t) ==
    /\ ReachabilityEligible(a)
    /\ observations[a].checked < t
    /\ state = "unreachable" => inbox = NoInbox
    /\ observations' = [observations EXCEPT ![a] =
                           Checked(ObservationAt(a, t), state, inbox, t, t)]
    /\ diagnostics' = [diagnostics EXCEPT ![a] = Diagnosed(a, state, t)]
    /\ UNCHANGED <<relays, relayEvents, moderationEvents, policy,
                   discoveries, discoveryEvents>>

(* The row effects of PromoteDiscoveryCandidate: a retained candidate whose *)
(* actor answered becomes an active discovery with a reachable observation. *)
(* Unlike the other writers it overwrites updated_at_unix, so that the      *)
(* CHECK of the row, and with it the transaction, fails when a signature    *)
(* was verified after t.                                                    *)
Promoted(o, inbox, t) ==
    [Checked(o, "reachable", inbox, t, t) EXCEPT !.updated = t]

PromotionFits(a, t) == observations[a].rfc9421 <= t

PromoteDiscovery(a, inbox, t) ==
    /\ Room(discoveryEvents[a])
    /\ MonotonicDiscoveryTime(a, t)
    /\ observations[a].checked < t
    /\ PromotionFits(a, t)
    /\ discoveries' = [discoveries EXCEPT ![a] = Discovered(@, t)]
    /\ discoveryEvents' = [discoveryEvents EXCEPT ![a] =
                             Recorded(@, AddDiscoveryKind(a), t)]
    /\ observations' = [observations EXCEPT ![a] =
                           Promoted(ObservationAt(a, t), inbox, t)]
    /\ UNCHANGED <<relays, relayEvents, moderationEvents, policy, diagnostics>>

(* The due filter of ReachabilityCandidates at observation time t.  The     *)
(* persisted next check holds as long as it belongs to the last check.      *)
ReachabilityDue(a, t) ==
    /\ ReachabilityEligible(a)
    /\ \/ observations[a].checked = Never
       \/ /\ HasDiagnostic(a)
          /\ diagnostics[a].updated = observations[a].checked
          /\ diagnostics[a].next <= t
       \/ /\ diagnostics[a].updated # observations[a].checked
          /\ observations[a].checked <
               t - (IF /\ observations[a].state = "unreachable"
                       /\ LastKnownOnline(a) <= t - UnreachableRetry
                    THEN UnreachableRetry
                    ELSE ReachabilityFreshness)

-----------------------------------------------------------------------------
(* Soft pruning.  t is the observation time captured when the run started;  *)
(* a transition recorded since then makes the relay not eligible.           *)

FreshlyReachable(a, t) ==
    /\ observations[a].state = "reachable"
    /\ observations[a].success >= t - ReachabilityFreshness

(* Mutant: one second early. *)
PruneCandidateEarly(a, t) ==
    /\ relays[a].lifecycle = "registered"
    /\ relays[a].seen <= t - DeadBefore + 1
    /\ ~FreshlyReachable(a, t)

PruneCandidate(a, t) ==
    /\ relays[a].lifecycle = "registered"
    /\ relays[a].seen <= t - DeadBefore
    /\ ~FreshlyReachable(a, t)

Pruned(row, t) == [row EXCEPT !.lifecycle = "pruned", !.updated = t, !.pruned = t]

SoftPrune(a, t) ==
    /\ Room(relayEvents[a])
    /\ PruneCandidate(a, t)
    /\ MonotonicTime(a, t)
    /\ relays' = [relays EXCEPT ![a] = Pruned(@, t)]
    /\ relayEvents' = [relayEvents EXCEPT ![a] = Recorded(@, "relay_pruned", t)]
    /\ UNCHANGED <<moderationEvents, policy, discoveries, discoveryEvents,
                   observations, diagnostics>>

-----------------------------------------------------------------------------
(* Hard retention: the row effects of PurgeBatch.  A candidate is the       *)
(* snapshot a page read took of a row and of the versions of everything     *)
(* else the decision rests on.                                              *)

InactiveAt(row) ==
    CASE row.lifecycle = "unregistered" -> row.unregistered
      [] row.lifecycle = "pruned"       -> row.pruned
      [] OTHER                          -> Never

(* Mutant: the observation is not part of the snapshot. *)
RetentionStateUnversioned(a, kind) ==
    IF kind = "lifecycle"
    THEN [kind |-> kind, actor |-> a, state |-> relays[a].lifecycle,
          inactive |-> InactiveAt(relays[a]), updated |-> relays[a].updated,
          relayEvent |-> MaxEventID(relayEvents[a]),
          moderationEvent |-> MaxEventID(moderationEvents[a]),
          discoveryEvent |-> 0, revision |-> 0]
    ELSE [kind |-> kind, actor |-> a, state |-> discoveries[a].state,
          inactive |-> discoveries[a].removed, updated |-> discoveries[a].updated,
          relayEvent |-> 0, moderationEvent |-> 0,
          discoveryEvent |-> MaxEventID(discoveryEvents[a]), revision |-> 0]

RetentionState(a, kind) ==
    IF kind = "lifecycle"
    THEN [kind            |-> kind,
          actor           |-> a,
          state           |-> relays[a].lifecycle,
          inactive        |-> InactiveAt(relays[a]),
          updated         |-> relays[a].updated,
          relayEvent      |-> MaxEventID(relayEvents[a]),
          moderationEvent |-> MaxEventID(moderationEvents[a]),
          discoveryEvent  |-> 0,
          revision        |-> observations[a].revision]
    ELSE [kind            |-> kind,
          actor           |-> a,
          state           |-> discoveries[a].state,
          inactive        |-> discoveries[a].removed,
          updated         |-> discoveries[a].updated,
          relayEvent      |-> 0,
          moderationEvent |-> 0,
          discoveryEvent  |-> MaxEventID(discoveryEvents[a]),
          revision        |-> observations[a].revision]

CandidateKinds == {"lifecycle", "discovery"}

(* Mutant: the administrative state is not looked at. *)
PurgeEligibleSuspended(a, kind, cutoff) ==
    IF kind = "lifecycle"
    THEN /\ relays[a].lifecycle \in {"unregistered", "pruned"}
         /\ InactiveAt(relays[a]) <= cutoff
    ELSE /\ discoveries[a].state = "removed"
         /\ discoveries[a].removed <= cutoff

PurgeEligible(a, kind, cutoff) ==
    IF kind = "lifecycle"
    THEN /\ relays[a].admin = "active"
         /\ relays[a].lifecycle \in {"unregistered", "pruned"}
         /\ InactiveAt(relays[a]) <= cutoff
    ELSE /\ discoveries[a].state = "removed"
         /\ discoveries[a].removed <= cutoff

PurgeCandidates(cutoff) ==
    {RetentionState(x[1], x[2]) :
        x \in {y \in Actors \X CandidateKinds : PurgeEligible(y[1], y[2], cutoff)}}

RetentionStateMatches(c, cutoff) ==
    /\ PurgeEligible(c.actor, c.kind, cutoff)
    /\ c = RetentionState(c.actor, c.kind)

(* The candidates are revalidated and deleted one after the other, but the  *)
(* two candidates of one actor do not disturb each other's match, and the   *)
(* observation (with its diagnostics, by cascade) goes with the last owner. *)
PurgedActors(batch, kind, cutoff) ==
    {a \in Actors : \E c \in batch : /\ c.actor = a
                                     /\ c.kind = kind
                                     /\ RetentionStateMatches(c, cutoff)}

(* Mutant: only the deletion of a relay row looks for the observation. *)
UnownedActorsOfRelays(lifecycle, discovery) ==
    {a \in lifecycle : a \in discovery \/ ~HasDiscovery(a)}

UnownedActors(lifecycle, discovery) ==
    {a \in lifecycle \cup discovery : /\ a \in lifecycle \/ ~HasRelay(a)
                                      /\ a \in discovery \/ ~HasDiscovery(a)}

PurgeBatch(batch, cutoff) ==
    LET lifecycle == PurgedActors(batch, "lifecycle", cutoff)
        discovery == PurgedActors(batch, "discovery", cutoff)
        unowned   == UnownedActors(lifecycle, discovery)
    IN  /\ relays' = [a \in Actors |-> IF a \in lifecycle THEN NoRelay ELSE relays[a]]
        /\ relayEvents' = [a \in Actors |->
                             IF a \in lifecycle THEN Emptied(relayEvents[a])
                                                ELSE relayEvents[a]]
        /\ discoveries' = [a \in Actors |->
                             IF a \in discovery THEN NoDiscovery ELSE discoveries[a]]
        /\ observations' = [a \in Actors |->
                              IF a \in unowned THEN NoObservation ELSE observations[a]]
        /\ diagnostics' = [a \in Actors |->
                             IF a \in unowned THEN NoDiagnostic ELSE diagnostics[a]]
        /\ UNCHANGED <<moderationEvents, policy, discoveryEvents>>

-----------------------------------------------------------------------------
Reached == {"reachable", "unreachable"}

(* Everything but the promotion of a retained candidate. *)
ServiceStep(a, t) ==
    \/ Register(a, t)
    \/ Heartbeat(a, t)
    \/ Unregister(a, t)
    \/ Suspend(a, t)
    \/ Restore(a, t)
    \/ AddDiscovery(a, t)
    \/ RemoveDiscovery(a, t)
    \/ \E s \in Reached, i \in Inboxes \cup {NoInbox} :
          \/ RecordActorObservation(a, s, i, t)
          \/ RecordReachabilityObservation(a, s, i, t)
    \/ \E i \in Inboxes : RecordInboxObservation(a, i, t)
    \/ SoftPrune(a, t)

ActorStep(a, t) ==
    \/ ServiceStep(a, t)
    \/ \E i \in Inboxes \cup {NoInbox} : PromoteDiscovery(a, i, t)

PurgeStep == \E t \in Instants : \E batch \in SUBSET PurgeCandidates(t) :
                PurgeBatch(batch, t)

Next ==
    \/ \E a \in Actors, t \in Instants : ActorStep(a, t)
    \/ \E open \in BOOLEAN, t \in Instants : SetEnrollment(open, t)
    \/ PurgeStep

Spec == Init /\ [][Next]_vars

-----------------------------------------------------------------------------
(* Properties.                                                              *)

(* The CHECK constraints of relays (migration 0005).  No transaction checks *)
(* them itself, so a row that broke one would make the commit of a          *)
(* legitimate request fail.                                                 *)
RelayChecks(r) ==
    r.lifecycle # "absent" =>
      /\ 0 <= r.first
      /\ r.first <= r.updated
      /\ r.first <= r.seen
      /\ r.seen <= r.updated
      /\ (r.unregistered # Never) = (r.lifecycle = "unregistered")
      /\ (r.pruned # Never) = (r.lifecycle = "pruned")
      /\ (r.suspended # Never) = (r.admin = "suspended")
      /\ r.unregistered # Never => r.first <= r.unregistered /\ r.unregistered <= r.updated
      /\ r.pruned # Never => r.first <= r.pruned /\ r.seen <= r.pruned /\ r.pruned <= r.updated
      /\ r.suspended # Never => r.first <= r.suspended /\ r.suspended <= r.updated

DiscoveryChecks(d) ==
    d.state # "absent" =>
      /\ 0 <= d.first
      /\ d.first <= d.updated
      /\ (d.removed # Never) = (d.state = "removed")
      /\ d.removed # Never => d.first <= d.removed /\ d.removed <= d.updated

ObservationChecks(o) ==
    o.state # "none" =>
      /\ 0 <= o.updated
      /\ 1 <= o.revision
      /\ o.state = "unknown" => o.checked = Never /\ o.success = Never
      /\ o.state = "reachable" => o.checked # Never /\ o.success = o.checked
      /\ o.state = "unreachable" => o.checked # Never /\ o.success <= o.checked
      /\ (o.inbox = NoInbox) = (o.declared = Never)
      /\ o.checked <= o.updated
      /\ o.declared <= o.updated
      /\ o.inboxChecked <= o.updated
      /\ o.rfc9421 <= o.updated

(* Every row any interleaving of transactions commits satisfies the CHECK   *)
(* constraints of its table, whatever order their captured times come in:   *)
(* no accepted request can be turned into a storage failure by the schema.  *)
SchemaChecks ==
    \A a \in Actors : /\ RelayChecks(relays[a])
                      /\ DiscoveryChecks(discoveries[a])
                      /\ ObservationChecks(observations[a])

(* The newest event of every actor is also its latest in time, so the       *)
(* private audit tables read in insertion order are in time order, although *)
(* every transaction brings a time captured before it queued.               *)
AuditChronological ==
    \A a \in Actors : /\ relayEvents[a].at = relayEvents[a].latest
                      /\ moderationEvents[a].at = moderationEvents[a].latest
                      /\ discoveryEvents[a].at = discoveryEvents[a].latest

(* The lifecycle state of a relay is the one its last relay event left: the *)
(* state and its audit are never committed apart.                           *)
LifecycleAudited ==
    \A a \in Actors :
        LET kind == relayEvents[a].kind IN
        /\ (relays[a].lifecycle = "registered") = (kind \in RegisteringKinds)
        /\ relays[a].lifecycle = "pruned" => kind \in {"relay_pruned", "unregister_absent"}
        /\ relays[a].lifecycle = "unregistered" =>
             kind \in {"unregister_removed", "unregister_absent"}
        /\ relays[a].lifecycle = "absent" => kind \in {"none", "unregister_absent"}

(* An actor is suspended exactly when the last moderation decision about it *)
(* says so: no sequence of unregistering, pruning, hard retention and       *)
(* registering again sheds a suspension.                                    *)
SuspensionNotShed ==
    \A a \in Actors :
        (relays[a].admin = "suspended") = (moderationEvents[a].kind \in SuspendingKinds)

(* An observation row always has an owner, a relay or a discovery row, and  *)
(* a diagnostic row its observation: hard retention removes them with the   *)
(* last owner and never leaves one behind.                                  *)
NoOrphanObservation ==
    \A a \in Actors : /\ HasObservation(a) => RetainedIdentity(a)
                      /\ HasDiagnostic(a) => HasObservation(a)

(* A retained relay carries authenticated evidence at least as recent as    *)
(* its last-seen time and backed by a retained event, so that a request     *)
(* that passes the monotonic check is not then refused as stale evidence.   *)
EvidenceBacked ==
    \A a \in Actors : HasRelay(a) =>
        /\ HasObservation(a)
        /\ relays[a].seen <= observations[a].rfc9421
        /\ observations[a].rfc9421 <= relayEvents[a].latest

(* No stored row is due within the minimum retry delay of its last check.   *)
(* ReachabilityCandidates validates exactly that of every row it reads and  *)
(* fails the whole page otherwise, which would stop reachability checking   *)
(* for every relay.                                                         *)
CandidatePageReadable ==
    \A a \in Actors, t \in Instants :
        ReachabilityDue(a, t) /\ observations[a].checked # Never =>
            observations[a].checked <= t - FailureRetryMinimum

(* A pruned relay had been silent for the whole DeadBefore period when it   *)
(* was pruned.                                                              *)
PrunedWasDead ==
    \A a \in Actors : relays[a].lifecycle = "pruned" =>
        relays[a].seen + DeadBefore <= relays[a].pruned

(* While its row lives, no evidence about an actor goes back in time, and   *)
(* every change of the row raises the revision that hard retention compares *)
(* to detect it.                                                            *)
EvidenceForward(o, p) ==
    o.state # "none" /\ p.state # "none" =>
        /\ o.checked <= p.checked
        /\ o.success <= p.success
        /\ o.rfc9421 <= p.rfc9421
        /\ o # p => o.revision < p.revision

EvidenceNeverRegresses ==
    [][\A a \in Actors : EvidenceForward(observations[a], observations'[a])]_vars

(* A suspended relay keeps its row and its last-seen time, and can only     *)
(* leave the registered state, until a moderator restores it.               *)
Frozen(r, s) ==
    r.admin = "suspended" /\ s.admin = "suspended" =>
        /\ s.seen = r.seen
        /\ s.first = r.first
        /\ s.lifecycle = "registered" => r.lifecycle = "registered"

SuspendedIsFrozen == [][\A a \in Actors : Frozen(relays[a], relays'[a])]_vars
=============================================================================
