---------------------------- MODULE DirectoryView ----------------------------
(***************************************************************************)
(* What the public representations of the directory make of the retained   *)
(* rows at one captured observation time: the candidates, the heartbeat    *)
(* and the operational tier of a relay, the validation that fails a read,  *)
(* the aggregate counts and the compatibility listing                      *)
(* (internal/storage: directory_projection.go, health.go;                  *)
(* internal/storage/sqlite: directory_projection.go, directory_summary.go, *)
(* health.go, public_listing.go).                                          *)
(*                                                                         *)
(* Identities and profiles are canonical when they are stored and are left *)
(* out; so are the telemetry columns, which are validated like the times   *)
(* here, the state of the inbox, which is stored with the time it was      *)
(* checked, and the summary's count of candidates.                         *)
(***************************************************************************)
EXTENDS RelayRepository

CONSTANTS
    HealthyThrough,   \* storage.HealthyThrough, 36 hours
    StaleBefore,      \* storage.StaleBefore, 7 days
    GraveyardAfter    \* storage.DirectoryGraveyardAfter, 30 days

ASSUME DirectoryAssumption ==
    /\ HealthyThrough \in Nat
    /\ StaleBefore \in Nat
    /\ GraveyardAfter \in Nat
    /\ HealthyThrough < StaleBefore
    /\ StaleBefore <= DeadBefore
    /\ 4 * FailureRetryMinimum <= UnreachableRetry
    /\ ReachabilityFreshness <= UnreachableRetry

-----------------------------------------------------------------------------
(* Classification of one relay. *)

(* A last-seen time in the future is an error, of which the caller makes a  *)
(* failed read.                                                             *)
ClassifyHealth(seen, t) ==
    IF seen > t THEN "invalid"
    ELSE IF t - seen <= HealthyThrough THEN "healthy"
    ELSE IF t - seen < StaleBefore     THEN "stale"
    ELSE IF t - seen < DeadBefore      THEN "dead"
    ELSE "prune"

ClassifyPublicHeartbeat(seen, t) ==
    IF seen = Never THEN "not_observed" ELSE ClassifyHealth(seen, t)

ActivelyRegistered(a) ==
    relays[a].lifecycle = "registered" /\ relays[a].admin = "active"

(* Rows of the lifecycle candidates and of the discovery candidates. *)
LifecycleKnown(a) ==
    relays[a].lifecycle \in {"registered", "pruned"} /\ relays[a].admin = "active"

DiscoveryKnown(a) ==
    discoveries[a].state = "active" /\ relays[a].admin # "suspended"

(* readDirectoryProjectionDetails: a suspended relay is hidden, and without *)
(* a participation path there is nothing to show.                           *)
PublicRelay(a) == LifecycleKnown(a) \/ DiscoveryKnown(a)

FirstKnown(a) ==
    CASE relays[a].first = Never      -> discoveries[a].first
      [] discoveries[a].first = Never -> relays[a].first
      [] OTHER -> IF relays[a].first <= discoveries[a].first
                  THEN relays[a].first ELSE discoveries[a].first

FreshReachability(a, t) ==
    /\ observations[a].state = "reachable"
    /\ observations[a].checked = observations[a].success
    /\ observations[a].success \in (t - ReachabilityFreshness)..t

CurrentHeartbeat(a, t) ==
    /\ ActivelyRegistered(a)
    /\ relays[a].seen \in (t - HealthyThrough)..t

Tiers == 1..4

ClassifyDirectoryTier(a, t) ==
    LET online == Later(FirstKnown(a), Later(relays[a].seen, observations[a].success))
    IN  IF FreshReachability(a, t) /\ CurrentHeartbeat(a, t) THEN 1
        ELSE IF FreshReachability(a, t) \/ CurrentHeartbeat(a, t) THEN 2
        ELSE IF online <= t - GraveyardAfter THEN 4
        ELSE 3

-----------------------------------------------------------------------------
(* ValidateDirectoryProjectionEvidence.  A nil time is Never and passes.    *)

EvidenceTimes(o) == {o.checked, o.success, o.declared, o.inboxChecked, o.rfc9421}

ValidEvidence(a, t) ==
    LET o == observations[a] IN
    /\ FirstKnown(a) \in 0..t
    /\ ClassifyPublicHeartbeat(relays[a].seen, t) # "invalid"
    /\ LifecycleKnown(a) => relays[a].seen # Never
    /\ diagnostics[a].next <= t + UnreachableRetry
    /\ \A s \in EvidenceTimes(o) : s <= t
    /\ o.state \in {"none", "unknown"} => o.checked = Never /\ o.success = Never
    /\ o.state = "reachable" => o.checked # Never /\ o.checked = o.success
    /\ o.state = "unreachable" => o.checked # Never /\ o.success <= o.checked
    /\ (o.inbox = NoInbox) = (o.declared = Never)
    /\ o.declared # Never /\ o.inboxChecked # Never => o.declared <= o.inboxChecked

-----------------------------------------------------------------------------
(* The aggregate counts of ReadDirectorySummary, one statement of its own.  *)

(* Mutant: the heartbeat of a relay that has left still counts. *)
SummaryOnlineDeparted(a, t) ==
    \/ /\ observations[a].state = "reachable"
       /\ observations[a].success \in (t - ReachabilityFreshness)..t
    \/ relays[a].seen \in (t - HealthyThrough)..t

SummaryOnline(a, t) ==
    \/ /\ observations[a].state = "reachable"
       /\ observations[a].checked = observations[a].success
       /\ observations[a].success \in (t - ReachabilityFreshness)..t
    \/ /\ relays[a].lifecycle = "registered"
       /\ relays[a].seen \in (t - HealthyThrough)..t

DirectorySummary(t) ==
    LET known == {a \in Actors : \/ LifecycleKnown(a)
                                 \/ DiscoveryKnown(a)}
    IN  [known  |-> Cardinality(known),
         online |-> Cardinality({a \in known : SummaryOnline(a, t)})]

(* Rows of the /v1/relays listing: silent for less than the dead period. *)
PublicListed(a, t) == ActivelyRegistered(a) /\ relays[a].seen > t - DeadBefore

-----------------------------------------------------------------------------
(* Everything recorded of an actor happened by second t. *)
RecordedBy(a, t) ==
    /\ relays[a].updated <= t
    /\ discoveries[a].updated <= t
    /\ observations[a].updated <= t

(* Whatever order transactions were committed in, at any time that is not   *)
(* before what they recorded the evidence of every public relay passes the  *)
(* validation that would otherwise fail the whole page, the counts of the   *)
(* human page are those of the tiers, and a relay of the compatibility      *)
(* listing is in the richer one with the tier its health calls for.         *)
DirectoryAgrees ==
    \A t \in Instants : (\A a \in Actors : RecordedBy(a, t)) =>
        LET public == {a \in Actors : PublicRelay(a)} IN
        /\ \A a \in public : ValidEvidence(a, t)
        /\ DirectorySummary(t) =
             [known  |-> Cardinality(public),
              online |-> Cardinality({a \in public : ClassifyDirectoryTier(a, t) <= 2})]
        /\ \A a \in Actors : PublicListed(a, t) =>
             /\ a \in public
             /\ ClassifyHealth(relays[a].seen, t) \in {"healthy", "stale", "dead"}
             /\ ClassifyHealth(relays[a].seen, t) = "healthy" =>
                  ClassifyDirectoryTier(a, t) <= 2
=============================================================================
