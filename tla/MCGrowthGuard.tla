---------------------------- MODULE MCGrowthGuard ----------------------------
(***************************************************************************)
(* Instances of GrowthGuard for TLC.  The pressures lie in the bands       *)
(* between the thresholds and their hystereses.                            *)
(***************************************************************************)
EXTENDS GrowthGuard

CONSTANTS
    MaxOpens,   \* bound: starts of processes in a behaviour
    MaxResizes  \* bound: changes of the size in a behaviour

VARIABLES opens, resizes

MCRetryDelay == [n \in 0..3 |-> IF n = 0 THEN 1 ELSE 2]

MCInit == GrowthInit /\ opens = 0 /\ resizes = 0

MCNext ==
    /\ GrowthNext
    /\ opens' = IF \E p \in Processes : guards[p].phase = "down" /\ guards'[p].phase # "down"
                THEN opens + 1 ELSE opens
    /\ resizes' = IF pressure' # pressure THEN resizes + 1 ELSE resizes
    /\ opens' <= MaxOpens
    /\ resizes' <= MaxResizes

MCSpec == MCInit /\ [][MCNext]_<<growthVars, opens, resizes>>
=============================================================================
