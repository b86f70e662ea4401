--------------------------- MODULE MCCandidatePass ---------------------------
(***************************************************************************)
(* Instances of CandidatePass for TLC, from the migrated empty database    *)
(* with enrollment opened.                                                 *)
(***************************************************************************)
EXTENDS CandidatePass

CONSTANTS
    a1, a2,
    MaxCount  \* bound: passes, retained imports and other transactions of a behaviour

VARIABLE count

(* The bounds of the runs. *)
PassCount   == [scan |-> 1, import |-> 2, other |-> 1]
SingleCount == [scan |-> 1, import |-> 3, other |-> 1]

MCRank  == [a \in Actors |-> IF a = a1 THEN 1 ELSE 2]
MCRetry == [n \in 1..5 |-> IF n = 1 THEN 1 ELSE 2]

OpenInit ==
    /\ relays = [a \in Actors |-> NoRelay]
    /\ relayEvents = [a \in Actors |-> NoEvents]
    /\ moderationEvents = [a \in Actors |-> NoEvents]
    /\ policy = [open |-> TRUE, updated |-> 0, latestEvent |-> 0]
    /\ discoveries = [a \in Actors |-> NoDiscovery]
    /\ discoveryEvents = [a \in Actors |-> NoEvents]
    /\ observations = [a \in Actors |-> NoObservation]
    /\ diagnostics = [a \in Actors |-> NoDiagnostic]
    /\ CandidateInit
    /\ count = [scan |-> 0, import |-> 0, other |-> 0]

Counted(what) ==
    /\ count[what] < MaxCount[what]
    /\ count' = [count EXCEPT ![what] = @ + 1]

(* Requests, discovery commands and checks between the steps of a pass. *)
Interference(t) ==
    Meanwhile(\E a \in Actors :
        \/ Register(a, t)
        \/ AddDiscovery(a, t)
        \/ RemoveDiscovery(a, t)
        \/ RecordActorObservation(a, "reachable", NoInbox, t))

MCNext ==
    \/ Counted("scan") /\ ScanBegins
    \/ ScanStep /\ UNCHANGED count
    \/ Counted("import") /\ \E a \in Actors : ClassifyKnown(a)
    \/ \E a \in Actors, t \in Instants : ImportRetains(a, t) /\ UNCHANGED count
    \/ ImportEnds /\ UNCHANGED count
    \/ Counted("other") /\ \E t \in Instants : Interference(t)

MCSpec ==
    /\ OpenInit
    /\ [][MCNext]_<<scanVars, count>>
    /\ WF_scanVars(ScanStep)
=============================================================================
