------------------------- MODULE MCRelayRepository -------------------------
(***************************************************************************)
(* Instances of RelayRepository for TLC.  A transaction reads and writes   *)
(* the rows of one actor (and the enrollment policy), so the actors do not *)
(* interact and one actor is enough; what explodes is the product of its   *)
(* tables.  The two specifications below split the transactions into the   *)
(* lifecycle and moderation side and the discovery and observation side,   *)
(* with registration, pruning and hard retention in both.                  *)
(***************************************************************************)
EXTENDS DirectoryView

(* Signed requests, moderation, enrollment, pruning and retention. *)
LifecycleNext ==
    \/ \E a \in Actors, t \in Instants :
          \/ Register(a, t)
          \/ Heartbeat(a, t)
          \/ Unregister(a, t)
          \/ Suspend(a, t)
          \/ Restore(a, t)
          \/ SoftPrune(a, t)
    \/ \E open \in BOOLEAN, t \in Instants : SetEnrollment(open, t)
    \/ PurgeStep

LifecycleSpec == Init /\ [][LifecycleNext]_vars

(* An operator has opened enrollment at second 0. *)
OpenInit ==
    /\ relays = [a \in Actors |-> NoRelay]
    /\ relayEvents = [a \in Actors |-> NoEvents]
    /\ moderationEvents = [a \in Actors |-> NoEvents]
    /\ policy = [open |-> TRUE, updated |-> 0, latestEvent |-> 0]
    /\ discoveries = [a \in Actors |-> NoDiscovery]
    /\ discoveryEvents = [a \in Actors |-> NoEvents]
    /\ observations = [a \in Actors |-> NoObservation]
    /\ diagnostics = [a \in Actors |-> NoDiagnostic]

(* Discovery, observations and probes, with the transactions that create,  *)
(* refresh and delete the rows they hang from.                             *)
EvidenceNext ==
    \/ \E a \in Actors, t \in Instants :
          \/ Register(a, t)
          \/ Unregister(a, t)
          \/ AddDiscovery(a, t)
          \/ RemoveDiscovery(a, t)
          \/ \E s \in Reached, i \in Inboxes \cup {NoInbox} :
                \/ RecordActorObservation(a, s, i, t)
                \/ RecordReachabilityObservation(a, s, i, t)
          \/ \E i \in Inboxes : RecordInboxObservation(a, i, t)
          \/ \E i \in Inboxes \cup {NoInbox} : PromoteDiscovery(a, i, t)
          \/ SoftPrune(a, t)
    \/ PurgeStep

EvidenceSpec == OpenInit /\ [][EvidenceNext]_vars
=============================================================================
