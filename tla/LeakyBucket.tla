----------------------------- MODULE LeakyBucket -----------------------------
(***************************************************************************)
(* What one pool of the admission limiter promises, without tokens, lazy   *)
(* refills, eviction or a list: an ideal meter per key that is never       *)
(* forgotten.  A granted request pours Interval units into the meter of    *)
(* its key, every unit of time drains one, and a request is granted        *)
(* exactly when its pour does not overflow Burst * Interval.               *)
(***************************************************************************)
EXTENDS Integers

CONSTANTS Keys, Burst, Interval, Overload, Instants

VARIABLES
    clock,    \* latest time the limiter has worked with
    level,    \* what is in the meter of each key at that time
    verdict   \* the decision about the last request to the pool

meterVars == <<clock, level, verdict>>

Silent == [decision |-> "none"]

MeterInit ==
    /\ clock = 0
    /\ level = [k \in Keys |-> 0]
    /\ verdict = Silent

Drained(k, t) == IF level[k] > t - clock THEN level[k] - (t - clock) ELSE 0

Overflow(k, t) == Drained(k, t) + Interval - Burst * Interval

Time(t) == t >= clock /\ clock' = t

Grant(k, t) ==
    /\ Time(t)
    /\ Overflow(k, t) <= 0
    /\ level' = [j \in Keys |-> Drained(j, t) + (IF j = k THEN Interval ELSE 0)]
    /\ verdict' = [decision |-> "allowed", key |-> k, retry |-> 0]

(* A refusal for rate names the very time after which the request fits. *)
Limit(k, t) ==
    /\ Time(t)
    /\ Overflow(k, t) > 0
    /\ level' = [j \in Keys |-> Drained(j, t)]
    /\ verdict' = [decision |-> "rate_limited", key |-> k, retry |-> Overflow(k, t)]

(* The pool may have no room for a key, but only for one whose meter is     *)
(* empty: a key that still owes is never turned away for want of room.      *)
Crowd(k, t) ==
    /\ Time(t)
    /\ Drained(k, t) = 0
    /\ level' = [j \in Keys |-> Drained(j, t)]
    /\ verdict' = [decision |-> "capacity_limited", key |-> k, retry |-> Overload]

(* The limiter does something else. *)
Pass(t) ==
    /\ Time(t)
    /\ level' = [j \in Keys |-> Drained(j, t)]
    /\ verdict' = Silent

MeterNext ==
    \E t \in Instants :
        \/ Pass(t)
        \/ \E k \in Keys : Grant(k, t) \/ Limit(k, t) \/ Crowd(k, t)

MeterSpec == MeterInit /\ [][MeterNext]_meterVars
=============================================================================
