------------------------------- MODULE Limiter -------------------------------
(***************************************************************************)
(* The request admission limiter (internal/admission/limiter.go): token    *)
(* buckets per operation and source address, token buckets per operation   *)
(* and relay actor, and a global ceiling of concurrent permits.  Every     *)
(* method runs under the limiter's mutex, so each is one action.  A call   *)
(* that is refused as cancelled or invalid changes nothing and is a        *)
(* stuttering step.                                                        *)
(*                                                                         *)
(* The list of a pool is in the order of the lastSeen times, since every   *)
(* use moves an entry to its back and the times the limiter works with     *)
(* never go back; the order of entries last seen at the same time is left  *)
(* open.  The clock a call reads is any instant.                           *)
(***************************************************************************)
EXTENDS Integers, FiniteSets

CONSTANTS
    Operations,          \* register, heartbeat, unregister
    Sources,             \* client addresses
    RelayActors,         \* canonical relay actor URLs
    Permits,             \* places for requests being served
    SourceBurst, SourceInterval, ActorBurst, ActorInterval,
    MaxSources, MaxActors, MaxConcurrent,
    IdleTTL, CleanupLimit, OverloadRetryAfter,
    MaxTime              \* bound: last instant of the instance

(* validateConfig. *)
ASSUME ConfigAssumption ==
    /\ SourceBurst \in Nat \ {0} /\ SourceInterval \in Nat \ {0}
    /\ ActorBurst \in Nat \ {0} /\ ActorInterval \in Nat \ {0}
    /\ MaxSources \in Nat \ {0} /\ MaxActors \in Nat \ {0}
    /\ MaxConcurrent \in Nat \ {0}
    /\ CleanupLimit \in Nat \ {0}
    /\ IdleTTL \in Nat
    /\ IdleTTL >= SourceBurst * SourceInterval
    /\ IdleTTL >= ActorBurst * ActorInterval
    /\ OverloadRetryAfter \in Nat \ {0}
    /\ MaxTime \in Nat

ASSUME PermitsFinite == IsFiniteSet(Permits)

VARIABLES
    sources,   \* the pool of source buckets
    actors,    \* the pool of actor buckets
    inFlight,
    lastNow,
    permits,   \* the permit of each request
    answer     \* the result of the last call

limiterVars == <<sources, actors, inFlight, lastNow, permits, answer>>

Never     == -1
Instants  == 0..MaxTime

SourceKeys == Operations \X Sources
ActorKeys  == Operations \X RelayActors

SourceRate == [burst |-> SourceBurst, interval |-> SourceInterval]
ActorRate  == [burst |-> ActorBurst, interval |-> ActorInterval]

(* A bucket of a pool; a key without an entry has lastSeen Never. *)
Bucket   == [tokens : Nat, lastRefill : Nat, lastSeen : Nat \cup {Never}]
NoBucket == [tokens |-> 0, lastRefill |-> 0, lastSeen |-> Never]

NoPermit == [active |-> FALSE, operation |-> "none", actorChecked |-> FALSE]

Unanswered == [stage |-> "none", decision |-> "none"]

LimiterInit ==
    /\ sources = [k \in SourceKeys |-> NoBucket]
    /\ actors = [k \in ActorKeys |-> NoBucket]
    /\ inFlight = 0
    /\ lastNow = 0
    /\ permits = [p \in Permits |-> NoPermit]
    /\ answer = Unanswered

-----------------------------------------------------------------------------
(* bucketPool. *)

Entries(pool) == {k \in DOMAIN pool : pool[k].lastSeen # Never}

(* Mutant: an entry may go as soon as one token is back. *)
IdleEarly(pool, now) ==
    {k \in Entries(pool) : now - pool[k].lastSeen >= SourceInterval}

Idle(pool, now) == {k \in Entries(pool) : now - pool[k].lastSeen >= IdleTTL}

(* Mutant: a pool that is full is not cleaned. *)
CleanupsNone(pool, now) == {{}}

(* The keys that one cleanup may remove: at most CleanupLimit idle ones,    *)
(* those not used for longest first.                                        *)
Cleanups(pool, now) ==
    {E \in SUBSET Idle(pool, now) :
        /\ Cardinality(E) <= CleanupLimit
        /\ Cardinality(E) < CleanupLimit => E = Idle(pool, now)
        /\ \A e \in E, k \in Idle(pool, now) \ E : pool[e].lastSeen <= pool[k].lastSeen}

Without(pool, E) == [k \in DOMAIN pool |-> IF k \in E THEN NoBucket ELSE pool[k]]

(* Mutant: the fraction of an interval that has passed is thrown away. *)
RefilledFromNow(b, now, rate) ==
    LET steps == (now - b.lastRefill) \div rate.interval IN
    IF steps < 1 THEN b
    ELSE [b EXCEPT !.tokens = IF steps >= rate.burst - b.tokens THEN rate.burst
                                                                ELSE @ + steps,
                   !.lastRefill = now]

Refilled(b, now, rate) ==
    LET steps == (now - b.lastRefill) \div rate.interval IN
    IF b.tokens >= rate.burst
    THEN [b EXCEPT !.lastRefill = IF now > @ THEN now ELSE @]
    ELSE IF now <= b.lastRefill \/ steps < 1
    THEN b
    ELSE IF steps >= rate.burst - b.tokens
    THEN [b EXCEPT !.tokens = rate.burst, !.lastRefill = now]
    ELSE [b EXCEPT !.tokens = @ + steps, !.lastRefill = @ + steps * rate.interval]

(* The entry of a key when it is asked for at time now. *)
Fetched(pool, key, now, rate) ==
    IF key \in Entries(pool)
    THEN [Refilled(pool[key], now, rate) EXCEPT
             !.lastSeen = IF now > @ THEN now ELSE @]
    ELSE [tokens |-> rate.burst, lastRefill |-> now, lastSeen |-> now]

(* Mutant: a whole interval, whatever has passed of it. *)
RetryAfterWhole(b, now, interval) == interval

RetryAfter(b, now, interval) ==
    IF now <= b.lastRefill \/ now - b.lastRefill >= interval
    THEN interval
    ELSE interval - (now - b.lastRefill)

Crowded(pool, key, maximum) ==
    key \notin Entries(pool) /\ Cardinality(Entries(pool)) >= maximum

(* The pool after a request for key, and the decision, once E was removed. *)
Admitted(pool, key, now, rate, maximum) ==
    IF Crowded(pool, key, maximum) THEN pool
    ELSE [pool EXCEPT ![key] =
             LET b == Fetched(pool, key, now, rate)
             IN  IF b.tokens < 1 THEN b ELSE [b EXCEPT !.tokens = @ - 1]]

Result(pool, key, now, rate, maximum) ==
    IF Crowded(pool, key, maximum)
    THEN [decision |-> "capacity_limited", key |-> key, retry |-> OverloadRetryAfter]
    ELSE LET b == Fetched(pool, key, now, rate) IN
         IF b.tokens < 1
         THEN [decision |-> "rate_limited", key |-> key,
               retry |-> RetryAfter(b, now, rate.interval)]
         ELSE [decision |-> "allowed", key |-> key, retry |-> 0]

Answer(stage, result) == [stage |-> stage, decision |-> result.decision, result |-> result]

-----------------------------------------------------------------------------
(* The methods. *)

(* currentTimeLocked, when the clock reads t. *)
CurrentTime(t) == IF t < lastNow THEN lastNow ELSE t

NoSlot ==
    /\ inFlight >= MaxConcurrent
    /\ answer' = [stage |-> "slot", decision |-> "concurrency_limited"]
    /\ UNCHANGED <<sources, actors, inFlight, lastNow, permits>>

AdmitSource(p, operation, source, t) ==
    LET now == CurrentTime(t)
        key == <<operation, source>>
    IN  /\ ~permits[p].active
        /\ inFlight < MaxConcurrent
        /\ \E E \in Cleanups(sources, now) :
              LET pool   == Without(sources, E)
                  result == Result(pool, key, now, SourceRate, MaxSources)
              IN  /\ sources' = Admitted(pool, key, now, SourceRate, MaxSources)
                  /\ answer' = Answer("source", result)
                  /\ IF result.decision = "allowed"
                     THEN /\ inFlight' = inFlight + 1
                          /\ permits' = [permits EXCEPT ![p] =
                                [active |-> TRUE, operation |-> operation,
                                 actorChecked |-> FALSE]]
                     ELSE UNCHANGED <<inFlight, permits>>
        /\ lastNow' = now
        /\ UNCHANGED actors

AdmitActor(p, operation, actor, t) ==
    LET now == CurrentTime(t)
        key == <<operation, actor>>
    IN  /\ permits[p].active
        /\ permits[p].operation = operation
        /\ ~permits[p].actorChecked
        /\ permits' = [permits EXCEPT ![p].actorChecked = TRUE]
        /\ \E E \in Cleanups(actors, now) :
              LET pool == Without(actors, E) IN
              /\ actors' = Admitted(pool, key, now, ActorRate, MaxActors)
              /\ answer' = Answer("actor", Result(pool, key, now, ActorRate, MaxActors))
        /\ lastNow' = now
        /\ UNCHANGED <<sources, inFlight>>

(* Mutant: the slot is given back by every call. *)
ReleaseTwice(p) ==
    /\ permits' = [permits EXCEPT ![p].active = FALSE]
    /\ inFlight' = IF inFlight > 0 THEN inFlight - 1 ELSE inFlight
    /\ answer' = Unanswered
    /\ UNCHANGED <<sources, actors, lastNow>>

(* A second Release of the same permit finds it inactive. *)
Release(p) ==
    /\ permits' = [permits EXCEPT ![p].active = FALSE]
    /\ inFlight' = IF permits[p].active /\ inFlight > 0 THEN inFlight - 1 ELSE inFlight
    /\ answer' = Unanswered
    /\ UNCHANGED <<sources, actors, lastNow>>

LimiterNext ==
    \/ NoSlot
    \/ \E p \in Permits, operation \in Operations, t \in Instants :
          \/ \E source \in Sources : AdmitSource(p, operation, source, t)
          \/ \E actor \in RelayActors : AdmitActor(p, operation, actor, t)
    \/ \E p \in Permits : Release(p)

LimiterSpec == LimiterInit /\ [][LimiterNext]_limiterVars

-----------------------------------------------------------------------------
(* Properties.                                                              *)

BucketOK(b, burst) ==
    b \in Bucket /\ (b.lastSeen # Never =>
        b.tokens < burst /\ b.lastRefill <= b.lastSeen /\ b.lastSeen <= lastNow)

(* Types, and that a stored bucket is never full: an entry exists only      *)
(* because of a request that took a token.                                  *)
LimiterTypeOK ==
    /\ sources \in [SourceKeys -> Bucket]
    /\ actors \in [ActorKeys -> Bucket]
    /\ inFlight \in Nat
    /\ lastNow \in Instants
    /\ permits \in [Permits -> [active : BOOLEAN, operation : Operations \cup {"none"},
                                actorChecked : BOOLEAN]]
    /\ \A k \in SourceKeys : BucketOK(sources[k], SourceBurst)
    /\ \A k \in ActorKeys : BucketOK(actors[k], ActorBurst)

Active == {p \in Permits : permits[p].active}

(* The counter of concurrent requests is the number of permits held, within *)
(* its ceiling, whatever the order of admissions and (repeated) releases:   *)
(* a slot is neither lost, which would shrink the service for good, nor     *)
(* given back twice.                                                        *)
PermitsConserved ==
    /\ inFlight = Cardinality(Active)
    /\ inFlight <= MaxConcurrent

Busy(pool, maximum) ==
    Cardinality(Entries(pool)) >= maximum /\ Idle(pool, lastNow) = {}

(* A pool stays within its maximum, and turns a new key away only while it  *)
(* is full of keys used within IdleTTL: one idle entry makes room, however  *)
(* small the cleanup limit is.                                              *)
CapacityFair ==
    /\ Cardinality(Entries(sources)) <= MaxSources
    /\ Cardinality(Entries(actors)) <= MaxActors
    /\ answer.decision = "capacity_limited" =>
          \/ answer.stage = "source" /\ Busy(sources, MaxSources)
          \/ answer.stage = "actor" /\ Busy(actors, MaxActors)

(* The meter a bucket stands for: how far from full it is at lastNow.       *)
Level(pool, rate) ==
    [k \in DOMAIN pool |->
        LET fullAt == pool[k].lastRefill + (rate.burst - pool[k].tokens) * rate.interval
        IN  IF k \in Entries(pool) /\ fullAt > lastNow THEN fullAt - lastNow ELSE 0]

Verdict(stage) == IF answer.stage = stage THEN answer.result ELSE [decision |-> "none"]

SourceMeter == INSTANCE LeakyBucket WITH
    Keys <- SourceKeys, Burst <- SourceBurst, Interval <- SourceInterval,
    Overload <- OverloadRetryAfter, clock <- lastNow,
    level <- Level(sources, SourceRate), verdict <- Verdict("source")

ActorMeter == INSTANCE LeakyBucket WITH
    Keys <- ActorKeys, Burst <- ActorBurst, Interval <- ActorInterval,
    Overload <- OverloadRetryAfter, clock <- lastNow,
    level <- Level(actors, ActorRate), verdict <- Verdict("actor")

(* The pools implement the ideal meters: with lazy refills in whole         *)
(* intervals, LRU eviction and a bounded cleanup, every client is granted   *)
(* exactly what a never-forgotten bucket would grant it, and the retry time *)
(* it is told is exact.                                                     *)
Metered == SourceMeter!MeterSpec /\ ActorMeter!MeterSpec
==============================================================================
