---------------------------- MODULE MCMaintenance ----------------------------
(***************************************************************************)
(* Instances of Maintenance for TLC.  The process starts on a database in  *)
(* which every relay registered at second 0, was silent until it counts as *)
(* long unseen, and was then, at second Today, checked with success.  The  *)
(* first relay perhaps had a failed check in the same second, the second   *)
(* one perhaps none at all.                                                *)
(***************************************************************************)
EXTENDS Maintenance

CONSTANTS
    a1, a2,
    MaxCount  \* bound: passes and restarts, pruning runs, other transactions of a behaviour

VARIABLE count

WorkersCount == [start |-> 2, prune |-> 1, other |-> 1]

MCRank == [a \in Actors |-> IF a = a1 THEN 1 ELSE 2]

(* No worker or request reads an earlier clock. *)
Today == UnreachableRetry
Ticks == Today..MaxTime

Known == Verified(EmptyObservation(0), 0)

Succeeded ==
    [observation |-> Checked(Known, "reachable", NoInbox, Today, Today),
     diagnostic  |-> [streak |-> 0, next |-> Today + ReachabilityFreshness, updated |-> Today]]

Overwritten ==
    [observation |-> Checked(Checked(Known, "unreachable", NoInbox, Today, Today),
                             "reachable", NoInbox, Never, Today),
     diagnostic  |-> [streak |-> 1, next |-> Today + UnreachableRetry, updated |-> Today]]

Unchecked == [observation |-> Known, diagnostic |-> NoDiagnostic]

UsedInit ==
    /\ \E rows \in [Actors -> {Succeeded, Overwritten, Unchecked}] :
          /\ rows[a1] # Unchecked
          /\ rows[a2] # Overwritten
          /\ observations = [a \in Actors |-> rows[a].observation]
          /\ diagnostics = [a \in Actors |-> rows[a].diagnostic]
    /\ relays = [a \in Actors |-> Registered(NoRelay, 0)]
    /\ relayEvents = [a \in Actors |-> Recorded(NoEvents, "register_created", 0)]
    /\ moderationEvents = [a \in Actors |-> NoEvents]
    /\ policy = [open |-> TRUE, updated |-> 0, latestEvent |-> 0]
    /\ discoveries = [a \in Actors |-> NoDiscovery]
    /\ discoveryEvents = [a \in Actors |-> NoEvents]
    /\ MaintenanceInit
    /\ count = [start |-> 0, prune |-> 0, other |-> 0]

Counted(what) ==
    /\ count[what] < MaxCount[what]
    /\ count' = [count EXCEPT ![what] = @ + 1]

(* Requests, moderation, discovery, the operator's own checks and hard      *)
(* retention, with times captured at any second.                            *)
Interference(t) ==
    \/ Elsewhere(\E a \in Actors :
         \/ Register(a, t)
         \/ Heartbeat(a, t)
         \/ Unregister(a, t)
         \/ Suspend(a, t)
         \/ Restore(a, t)
         \/ AddDiscovery(a, t)
         \/ \E s \in Reached : RecordActorObservation(a, s, NoInbox, t), t)
    \/ Elsewhere(PurgeBatch(PurgeCandidates(t), t), t)

MCNext ==
    \/ Counted("start") /\ PassBegins /\ pass'.observed \in Ticks
    \/ PassStep /\ gate'.completed \in Ticks \cup {Never} /\ UNCHANGED count
    \/ Counted("prune") /\ (CoveredPruneBegins \/ UngatedPruneBegins)
                        /\ prune'.observed \in Ticks
    \/ PruneStep /\ UNCHANGED count
    \/ Counted("start") /\ Restart
    \/ Counted("other") /\ \E t \in Ticks : Interference(t)

MCSpec ==
    /\ UsedInit
    /\ [][MCNext]_<<maintenanceVars, count>>
    /\ WF_maintenanceVars(PassStep)
    /\ WF_maintenanceVars(PruneStep)
=============================================================================
