--------------------------- MODULE MCRetentionRun ---------------------------
(***************************************************************************)
(* Instances of RetentionRun for TLC.  The runs start from databases that  *)
(* earlier transactions left behind, built with the row updates of those   *)
(* transactions: every inactive row a page can hold, with ties in the      *)
(* inactive time and both kinds of row for one actor.                      *)
(***************************************************************************)
EXTENDS RetentionRun

CONSTANTS
    a1, a2,
    MaxInterference  \* bound: concurrent transactions of a behaviour

VARIABLE interference

MCRank == [a \in Actors |-> IF a = a1 THEN 1 ELSE 2]

(* Registered at second 0 and gone at second t, unregistered or pruned. *)
Left(t) ==
    [relay |-> Unregistered(Registered(NoRelay, 0), t),
     events |-> Recorded(Recorded(NoEvents, "register_created", 0), "unregister_removed", t),
     observation |-> Verified(Verified(EmptyObservation(0), 0), t)]

Dead(t) ==
    [relay |-> Pruned(Registered(NoRelay, 0), t),
     events |-> Recorded(Recorded(NoEvents, "register_created", 0), "relay_pruned", t),
     observation |-> Verified(EmptyObservation(0), 0)]

Unknown == [relay |-> NoRelay, events |-> NoEvents, observation |-> NoObservation]

Forgotten == Removed(Discovered(NoDiscovery, 0), 1)

ForgottenEvents ==
    Recorded(Recorded(NoEvents, "discovery_added", 0), "discovery_removed", 1)

(* a1 unregistered and its discovery was removed; a2 was pruned or          *)
(* unregistered, in the same second or earlier, or is unknown.              *)
UsedInit ==
    /\ \E y \in {Dead(1), Left(0), Unknown} :
          LET row(a) == IF a = a1 THEN Left(1) ELSE y IN
          /\ relays = [a \in Actors |-> row(a).relay]
          /\ relayEvents = [a \in Actors |-> row(a).events]
          /\ observations = [a \in Actors |-> row(a).observation]
    /\ discoveries = [a \in Actors |-> IF a = a1 THEN Forgotten ELSE NoDiscovery]
    /\ discoveryEvents = [a \in Actors |-> IF a = a1 THEN ForgottenEvents ELSE NoEvents]
    /\ moderationEvents = [a \in Actors |-> NoEvents]
    /\ policy = [open |-> TRUE, updated |-> 0, latestEvent |-> 0]
    /\ diagnostics = [a \in Actors |-> NoDiagnostic]
    /\ RunInit
    /\ interference = 0

FirstRun == CHOOSE r \in Runs : TRUE

(* Two databases of two actors for one command, one of one actor for two. *)
Single == relayEvents[a2].id = 0

(* Requests, moderation, discovery and observations while the command runs, *)
(* with times captured before and after the runs' own; beside two commands, *)
(* the return and departure of the actor they are about to purge.           *)
Interference ==
    /\ interference < MaxInterference
    /\ interference' = interference + 1
    /\ \/ /\ ~Single
          /\ Concurrently(\E a \in Actors :
               \/ \E t \in {1, MaxTime} :
                     \/ Register(a, t)
                     \/ Unregister(a, t)
                     \/ AddDiscovery(a, t)
               \/ Suspend(a, MaxTime)
               \/ Restore(a, MaxTime)
               \/ RemoveDiscovery(a, MaxTime)
               \/ RecordActorObservation(a, "reachable", NoInbox, MaxTime))
       \/ /\ Single
          /\ Concurrently(Register(a1, 1) \/ Unregister(a1, 1))

(* A second command is started while the first works, or after it. *)
Commands ==
    \/ \E t \in IF Single THEN {MaxTime} ELSE Instants : BeginRetentionRun(FirstRun, t)
    \/ /\ runs[FirstRun] # NotStarted
       /\ Single
       /\ \E r \in Runs \ {FirstRun} : BeginRetentionRun(r, MaxTime)

MCNext ==
    \/ (Commands \/ \E r \in Runs : RunStep(r) \/ Crash(r)) /\ UNCHANGED interference
    \/ Interference

MCSpec ==
    /\ UsedInit
    /\ [][MCNext]_<<allVars, interference>>
    /\ \A r \in Runs : WF_allVars(RunStep(r))
=============================================================================
