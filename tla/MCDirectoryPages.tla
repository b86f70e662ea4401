-------------------------- MODULE MCDirectoryPages --------------------------
(***************************************************************************)
(* Instance of DirectoryPages for TLC.  The store starts with three actors *)
(* each of which went through one of a few short histories, one per tier,  *)
(* and at most MaxDisturbed transactions then run beside the reader.       *)
(***************************************************************************)
EXTENDS DirectoryPages

CONSTANTS a1, a2, a3, MaxDisturbed

VARIABLE disturbed   \* bound: transactions so far

MCRank == [a \in Actors |-> CASE a = a1 -> 1 [] a = a2 -> 2 [] OTHER -> 3]

Found(t)      == [state |-> "active", first |-> t, updated |-> t, removed |-> Never]
Joined(t)     == Registered(NoRelay, t)
JoinedAt(t)   == Recorded(NoEvents, "register_created", t)
Answering(t)  == Checked(Verified(EmptyObservation(t), t), "reachable", NoInbox, t, t)
NextCheck(t)  == [streak |-> 0, next |-> t + ReachabilityFreshness, updated |-> t]

(* Registered and answering; registered a second ago; found now; found long *)
(* ago: tiers 1 to 4 at second 2.                                           *)
Histories == 1..4

PagesMCInit ==
    /\ \E h \in [Actors -> Histories] :
         /\ relays = [a \in Actors |-> CASE h[a] = 1 -> Joined(2)
                                          [] h[a] = 2 -> Joined(1)
                                          [] OTHER    -> NoRelay]
         /\ relayEvents = [a \in Actors |-> CASE h[a] = 1 -> JoinedAt(2)
                                               [] h[a] = 2 -> JoinedAt(1)
                                               [] OTHER    -> NoEvents]
         /\ discoveries = [a \in Actors |-> CASE h[a] = 3 -> Found(2)
                                               [] h[a] = 4 -> Found(0)
                                               [] OTHER    -> NoDiscovery]
         /\ discoveryEvents = [a \in Actors |->
              CASE h[a] = 3 -> Recorded(NoEvents, "discovery_added", 2)
                [] h[a] = 4 -> Recorded(NoEvents, "discovery_added", 0)
                [] OTHER    -> NoEvents]
         /\ observations = [a \in Actors |->
              CASE h[a] = 1 -> Answering(2)
                [] h[a] = 2 -> Verified(EmptyObservation(1), 1)
                [] OTHER    -> NoObservation]
         /\ diagnostics = [a \in Actors |-> IF h[a] = 1 THEN NextCheck(2) ELSE NoDiagnostic]
    /\ moderationEvents = [a \in Actors |-> NoEvents]
    /\ policy = [open |-> TRUE, updated |-> 0, latestEvent |-> 0]
    /\ reader = Idle
    /\ steady = Actors
    /\ disturbed = 0

Disturbance ==
    /\ disturbed < MaxDisturbed
    /\ disturbed' = disturbed + 1
    /\ \E a \in Actors, t \in {2, MaxTime} :
          \/ Register(a, t)
          \/ Heartbeat(a, t)
          \/ Suspend(a, t)
          \/ RemoveDiscovery(a, t)
          \/ \E s \in Reached : RecordReachabilityObservation(a, s, NoInbox, t)
    /\ Disturbed

PagesMCNext == (ReaderStep /\ UNCHANGED disturbed) \/ Disturbance

PagesMCSpec == PagesMCInit /\ [][PagesMCNext]_<<pageVars, disturbed>>
=============================================================================
