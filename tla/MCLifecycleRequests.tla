------------------------ MODULE MCLifecycleRequests ------------------------
(***************************************************************************)
(* Instances of LifecycleRequests for TLC: the directory is open, one      *)
(* relay signs a few messages, and copies of them may arrive at any time.  *)
(***************************************************************************)
EXTENDS LifecycleRequests, TLC

CONSTANTS
    a1, k1, f1, v1, v2, v3,
    MaxCount  \* bound: arrivals, other transactions and restarts of a behaviour

VARIABLE count

(* The bounds of the runs. *)
RequestCount == [arrival |-> 2, other |-> 1, restart |-> 1]

Says(value) == [f \in Fields |-> value]

Message(key, version, operation, created, profile, sites) ==
    [key |-> key, actor |-> a1, version |-> version, operation |-> operation,
     created |-> created, expires |-> created + MaximumLifetime,
     profile |-> Says(profile), count |-> sites]

(* A registration with a profile and a count, a later one that replaces the *)
(* profile, and one with a note that is too long once it is encoded.  All   *)
(* three use one nonce.                                                     *)
RequestMessages ==
    {Message(k1, 2, "register", 1, v1, 5),
     Message(k1, 3, "register", 2, v2, Never),
     Message(k1, 2, "register", 3, v3, 5)}

(* The relay was registered at second 0 with a profile, replaced in the     *)
(* same second; it may have left, so that hard retention can remove it.     *)
Known == [value |-> v1, label |-> NoLabel, accepted |-> 0, revision |-> 2]

UsedInit ==
    /\ \E gone \in BOOLEAN :
          LET row == Registered(NoRelay, 0)
              led == Recorded(NoEvents, "register_created", 0)
          IN  /\ relays = [a \in Actors |-> IF gone THEN Unregistered(row, 0) ELSE row]
              /\ relayEvents = [a \in Actors |->
                    IF gone THEN Recorded(led, "unregister_removed", 0) ELSE led]
              /\ observations = [a \in Actors |->
                    IF gone THEN Verified(Verified(EmptyObservation(0), 0), 0)
                            ELSE Verified(EmptyObservation(0), 0)]
    /\ moderationEvents = [a \in Actors |-> NoEvents]
    /\ policy = [open |-> TRUE, updated |-> 0, latestEvent |-> 0]
    /\ discoveries = [a \in Actors |-> NoDiscovery]
    /\ discoveryEvents = [a \in Actors |-> NoEvents]
    /\ diagnostics = [a \in Actors |-> NoDiagnostic]
    /\ profileValues = [a \in Actors |->
          [NoClaims EXCEPT !["relay"] = [f \in Fields |-> Known]]]
    /\ profileEvents = [a \in Actors |->
          [NoHistory EXCEPT !["relay"] = [revision |-> [f \in Fields |-> 2], latest |-> 0]]]
    /\ telemetry = [a \in Actors |-> NoTelemetry]
    /\ RequestInit
    /\ count = [arrival |-> 0, other |-> 0, restart |-> 0]

Counted(what) ==
    /\ count[what] < MaxCount[what]
    /\ count' = [count EXCEPT ![what] = @ + 1]

Other ==
    \/ \E a \in Actors :
          \/ Elsewhere(Suspend(a, now))
          \/ OtherProfile(a, "csv", CHOOSE label \in Labels : TRUE, Says(v1), now)
    \/ Elsewhere(PurgeCandidates(now) # {} /\ PurgeBatch(PurgeCandidates(now), now))

MCNext ==
    \/ Counted("arrival") /\ \E h \in Handlers, m \in Messages : Arrive(h, m)
    \/ /\ \/ \E h \in Handlers : HandlerStep(h)
          \/ \E t \in Instants : CleanupExpired(t)
          \/ Tick
       /\ UNCHANGED count
    \/ Counted("restart") /\ Restart
    \/ Counted("other") /\ Other

MCSpec ==
    /\ UsedInit
    /\ [][MCNext]_<<allVars, count>>
    /\ \A h \in Handlers : WF_allVars(HandlerStep(h))
=============================================================================
