---------------------------- MODULE LimiterProofs ----------------------------
(***************************************************************************)
(* The admission limiter, for every configuration that validateConfig      *)
(* accepts: its pools implement the ideal meters of LeakyBucket, turn new  *)
(* keys away only while they are full of keys in use, and lose no slot.    *)
(***************************************************************************)
EXTENDS Limiter, FiniteSetTheorems, TLAPS

-----------------------------------------------------------------------------
(* Arithmetic of the lazy refill. *)

LEMMA Times ==
    ASSUME NEW x \in Nat, NEW y \in Nat, NEW i \in Nat
    PROVE  /\ x * i \in Nat
           /\ x <= y => x * i <= y * i
           /\ (x + y) * i = x * i + y * i
           /\ 1 * i = i
OBVIOUS

LEMMA Steps ==
    ASSUME NEW a \in Nat, NEW i \in Nat \ {0}
    PROVE  /\ a \div i \in Nat
           /\ (a \div i) * i <= a
           /\ a < (a \div i) * i + i
OBVIOUS

(* A bucket with B - x tokens missing, last refilled at l, at time n.       *)
LEMMA RefillArithmetic ==
    ASSUME NEW B \in Nat, NEW x \in Nat, x < B, NEW i \in Nat \ {0},
           NEW l \in Nat, NEW n \in Nat, l <= n,
           NEW s \in Nat, s * i <= n - l, n - l < s * i + i
    PROVE  /\ s >= B - x => l + (B - x) * i <= n
           /\ s < B - x =>
                /\ l + s * i + (B - (x + s)) * i = l + (B - x) * i
                /\ n < l + s * i + (B - (x + s)) * i
<1>1. CASE s >= B - x
  <2>1. (B - x) * i <= s * i
    BY <1>1, Times
  <2>2. (B - x) * i \in Nat /\ s * i \in Nat
    BY Times
  <2> QED BY <1>1, <2>1, <2>2
<1>2. CASE s < B - x
  <2> DEFINE d == B - (x + s)
  <2>1. d \in Nat /\ 1 <= d /\ B - x = s + d
    BY <1>2
  <2> HIDE DEF d
  <2>2. (B - x) * i = s * i + d * i /\ i <= d * i /\ s * i \in Nat /\ d * i \in Nat
    BY <2>1, Times
  <2>3. l + s * i + d * i = l + (B - x) * i /\ n < l + s * i + d * i
    BY <2>2
  <2> QED BY <1>2, <2>3 DEF d
<1> QED BY <1>1, <1>2

-----------------------------------------------------------------------------
(* A pool, whatever its keys, rate and maximum.                             *)

GoodRate(rate) ==
    /\ rate.burst \in Nat \ {0}
    /\ rate.interval \in Nat \ {0}
    /\ rate.burst * rate.interval <= IdleTTL

LEMMA Rates == GoodRate(SourceRate) /\ GoodRate(ActorRate)
BY ConfigAssumption DEF GoodRate, SourceRate, ActorRate

(* A stored bucket has been drawn on and was not used in the future of n. *)
Sound(b, rate, n) ==
    /\ b \in Bucket
    /\ b.lastSeen # Never =>
          b.tokens < rate.burst /\ b.lastRefill <= b.lastSeen /\ b.lastSeen <= n

(* When a bucket will be full if nobody asks. *)
FullAt(b, rate) == b.lastRefill + (rate.burst - b.tokens) * rate.interval

(* What a bucket is worth at time n, to the client. *)
Owed(b, rate, n) ==
    IF b.lastSeen # Never /\ FullAt(b, rate) > n THEN FullAt(b, rate) - n ELSE 0

LEMMA FullAtType ==
    ASSUME NEW rate, GoodRate(rate), NEW n, NEW b, Sound(b, rate, n), b.lastSeen # Never
    PROVE  /\ FullAt(b, rate) \in Nat
           /\ FullAt(b, rate) <= b.lastRefill + IdleTTL
<1>1. /\ b.tokens \in Nat /\ b.lastRefill \in Nat /\ b.tokens < rate.burst
      /\ rate.burst \in Nat /\ rate.interval \in Nat
      /\ rate.burst * rate.interval <= IdleTTL
  BY DEF Sound, Bucket, GoodRate
<1>2. rate.burst - b.tokens \in Nat /\ rate.burst - b.tokens <= rate.burst
  BY <1>1
<1>3. /\ (rate.burst - b.tokens) * rate.interval \in Nat
      /\ (rate.burst - b.tokens) * rate.interval <= rate.burst * rate.interval
      /\ rate.burst * rate.interval \in Nat
  BY <1>1, <1>2, Times
<1> QED BY <1>1, <1>3, ConfigAssumption DEF FullAt

(* A refill takes nothing away and gives nothing but what time has brought: *)
(* the bucket is full when it would have been, or is full now; and less     *)
(* than an interval has passed since it was brought up to date.             *)
LEMMA RefilledFacts ==
    ASSUME NEW rate, GoodRate(rate), NEW n \in Nat,
           NEW b, Sound(b, rate, n), b.lastSeen # Never
    PROVE  LET c == Refilled(b, n, rate) IN
           /\ c \in Bucket
           /\ c.lastSeen = b.lastSeen
           /\ c.tokens <= rate.burst
           /\ c.lastRefill <= n
           /\ n - c.lastRefill < rate.interval
           /\ n <= FullAt(c, rate)
           /\ FullAt(c, rate) = FullAt(b, rate) \/ (FullAt(b, rate) <= n /\ FullAt(c, rate) = n)
<1> DEFINE B == rate.burst
           i == rate.interval
           x == b.tokens
           l == b.lastRefill
           s == (n - l) \div i
           c == Refilled(b, n, rate)
<1>1. /\ b \in Bucket /\ B \in Nat /\ i \in Nat \ {0} /\ x \in Nat /\ l \in Nat
      /\ b.lastSeen \in Nat /\ x < B /\ l <= n
  BY DEF Sound, Bucket, GoodRate
<1>2. n - l \in Nat
  BY <1>1
<1>3. s \in Nat /\ s * i <= n - l /\ n - l < s * i + i
  BY <1>1, <1>2, Steps
<1>4. CASE s >= B - x
  <2>1. s >= 1 /\ n > l
    <3>1. s >= 1
      BY <1>1, <1>3, <1>4
    <3>2. i <= s * i
      <4> HIDE DEF s, i
      <4> QED BY <1>1, <1>3, <3>1, Times
    <3> HIDE DEF s, i, l
    <3> QED BY <1>1, <1>3, <3>1, <3>2
  <2>2. c = [b EXCEPT !.tokens = B, !.lastRefill = n]
    BY <1>1, <1>3, <1>4, <2>1 DEF Refilled
  <2>3. c.tokens = B /\ c.lastRefill = n /\ c.lastSeen = b.lastSeen
    BY <1>1, <2>2 DEF Bucket
  <2>4. c \in Bucket
    <3> DEFINE d == [b EXCEPT !.tokens = B]
    <3>1. d \in Bucket
      BY <1>1 DEF Bucket
    <3>2. c = [d EXCEPT !.lastRefill = n]
      BY <2>2
    <3> HIDE DEF d, c
    <3> QED BY <1>1, <3>1, <3>2 DEF Bucket
  <2>5. FullAt(b, rate) <= n
    <3> HIDE DEF s
    <3> QED BY <1>1, <1>3, <1>4, RefillArithmetic DEF FullAt
  <2>6. FullAt(c, rate) = n
    <3>1. (B - B) * i = 0
      BY <1>1
    <3> HIDE DEF c
    <3> QED BY <1>1, <2>3, <3>1 DEF FullAt
  <2> HIDE DEF c, s
  <2> QED BY <1>1, <2>3, <2>4, <2>5, <2>6 DEF c
<1>5. CASE s < B - x
  <2>1. /\ l + s * i + (B - (x + s)) * i = l + (B - x) * i
        /\ n < l + s * i + (B - (x + s)) * i
    <3> HIDE DEF s
    <3> QED BY <1>1, <1>3, <1>5, RefillArithmetic
  <2>2. CASE s = 0
    <3>1. c = b
      BY <1>1, <2>2 DEF Refilled
    <3>2. n < l + (B - x) * i /\ n - l < i
      <4>1. s * i = 0
        BY <1>1, <2>2
      <4> HIDE DEF s
      <4> QED BY <1>1, <1>3, <2>1, <2>2, <4>1
    <3> HIDE DEF c, s
    <3> QED BY <1>1, <3>1, <3>2, FullAtType DEF FullAt, c
  <2>3. CASE s # 0
    <3>1. s * i \in Nat /\ i <= s * i
      <4> HIDE DEF s
      <4> QED BY <1>1, <1>3, <2>3, Times
    <3>2. n > l
      <4> HIDE DEF s
      <4> QED BY <1>1, <1>3, <3>1
    <3>3. c = [b EXCEPT !.tokens = x + s, !.lastRefill = l + s * i]
      BY <1>1, <1>3, <1>5, <2>3, <3>2 DEF Refilled
    <3>4. c.tokens = x + s /\ c.lastRefill = l + s * i /\ c.lastSeen = b.lastSeen
      BY <1>1, <3>3 DEF Bucket
    <3> HIDE DEF s
    <3>5. c \in Bucket
      <4> DEFINE d == [b EXCEPT !.tokens = x + s]
      <4>1. d \in Bucket
        BY <1>1, <1>3 DEF Bucket
      <4>2. c = [d EXCEPT !.lastRefill = l + s * i]
        BY <3>3
      <4>3. l + s * i \in Nat
        BY <1>1, <3>1
      <4> HIDE DEF d, c
      <4> QED BY <4>1, <4>2, <4>3 DEF Bucket
    <3>6. FullAt(c, rate) = l + s * i + (B - (x + s)) * i
      BY <3>4 DEF FullAt
    <3>7. FullAt(c, rate) = FullAt(b, rate) /\ n <= FullAt(c, rate)
      <4>1. FullAt(b, rate) = l + (B - x) * i
        BY DEF FullAt
      <4>2. FullAt(b, rate) \in Nat
        BY FullAtType
      <4> HIDE DEF c
      <4> QED BY <2>1, <3>6, <4>1, <4>2
    <3>8. n - c.lastRefill < i /\ c.lastRefill <= n /\ c.tokens <= B
      <4> HIDE DEF c
      <4> QED BY <1>1, <1>3, <1>5, <3>1, <3>4
    <3> HIDE DEF c
    <3> QED BY <3>4, <3>5, <3>7, <3>8 DEF c
  <2> QED BY <1>3, <2>2, <2>3
<1> HIDE DEF s, c
<1> QED BY <1>1, <1>3, <1>4, <1>5

(* Time drains what a bucket is owed, one unit per unit. *)
LEMMA OwedDrains ==
    ASSUME NEW rate, GoodRate(rate), NEW m \in Nat, NEW n \in Nat, m <= n,
           NEW b, Sound(b, rate, m)
    PROVE  /\ Owed(b, rate, n) = IF Owed(b, rate, m) > n - m
                                 THEN Owed(b, rate, m) - (n - m) ELSE 0
           /\ Owed(b, rate, m) \in Nat
           /\ Sound(b, rate, n)
<1>1. CASE b.lastSeen # Never
  <2>1. FullAt(b, rate) \in Nat
    BY <1>1, FullAtType
  <2>2. Sound(b, rate, n)
    BY <1>1 DEF Sound, Bucket
  <2> QED BY <1>1, <2>1, <2>2 DEF Owed
<1>2. CASE b.lastSeen = Never
  BY <1>2 DEF Owed, Sound
<1> QED BY <1>1, <1>2

(* An entry that is idle for IdleTTL is full, so nothing is lost with it. *)
LEMMA IdleOwesNothing ==
    ASSUME NEW rate, GoodRate(rate), NEW m \in Nat, NEW n \in Nat, m <= n,
           NEW b, Sound(b, rate, m), b.lastSeen # Never, n - b.lastSeen >= IdleTTL
    PROVE  Owed(b, rate, n) = 0
<1>1. FullAt(b, rate) \in Nat /\ FullAt(b, rate) <= b.lastRefill + IdleTTL
  BY FullAtType
<1>2. b.lastRefill \in Nat /\ b.lastSeen \in Nat /\ b.lastRefill <= b.lastSeen
  BY DEF Sound, Bucket
<1> QED BY <1>1, <1>2, ConfigAssumption DEF Owed

PoolOK(pool, keys, rate, n) ==
    /\ pool \in [keys -> Bucket]
    /\ \A k \in keys : Sound(pool[k], rate, n)

LEMMA NoBucketSound ==
    ASSUME NEW rate, NEW n
    PROVE  /\ NoBucket \in Bucket
           /\ Sound(NoBucket, rate, n)
           /\ Owed(NoBucket, rate, n) = 0
BY DEF NoBucket, Bucket, Sound, Owed, Never

(* A cleanup is invisible in what the clients are owed. *)
LEMMA CleanupInvisible ==
    ASSUME NEW rate, GoodRate(rate), NEW m \in Nat, NEW n \in Nat, m <= n,
           NEW keys, NEW pool, PoolOK(pool, keys, rate, m),
           NEW E, E \subseteq Idle(pool, n)
    PROVE  /\ PoolOK(Without(pool, E), keys, rate, n)
           /\ \A k \in keys : Owed(Without(pool, E)[k], rate, n) = Owed(pool[k], rate, n)
<1> DEFINE q == Without(pool, E)
<1>1. DOMAIN pool = keys /\ \A k \in keys : pool[k] \in Bucket /\ Sound(pool[k], rate, m)
  BY DEF PoolOK
<1>2. /\ q = [k \in keys |-> IF k \in E THEN NoBucket ELSE pool[k]]
      /\ \A k \in E : k \in keys /\ pool[k].lastSeen # Never /\ n - pool[k].lastSeen >= IdleTTL
  BY <1>1 DEF Without, Idle, Entries
<1>3. ASSUME NEW k \in keys
      PROVE  /\ q[k] \in Bucket /\ Sound(q[k], rate, n)
             /\ Owed(q[k], rate, n) = Owed(pool[k], rate, n)
  <2>1. CASE k \in E
    <3>1. q[k] = NoBucket
      BY <1>2, <2>1
    <3>2. Owed(pool[k], rate, n) = 0
      BY <1>1, <1>2, <2>1, IdleOwesNothing
    <3> QED BY <3>1, <3>2, NoBucketSound
  <2>2. CASE k \notin E
    <3>1. q[k] = pool[k]
      BY <1>2, <2>2
    <3> QED BY <1>1, <3>1, OwedDrains
  <2> QED BY <2>1, <2>2
<1>4. q \in [keys -> Bucket]
  BY <1>2, <1>3
<1> HIDE DEF q
<1>5. PoolOK(q, keys, rate, n)
  BY <1>3, <1>4 DEF PoolOK
<1> QED BY <1>3, <1>5 DEF q

(* The entry a request is decided on. *)
LEMMA FetchedFacts ==
    ASSUME NEW rate, GoodRate(rate), NEW n \in Nat,
           NEW keys, NEW pool, PoolOK(pool, keys, rate, n), NEW key \in keys
    PROVE  LET b == Fetched(pool, key, n, rate) IN
           /\ b \in Bucket
           /\ b.lastSeen = n
           /\ b.tokens <= rate.burst
           /\ b.lastRefill <= n
           /\ n - b.lastRefill < rate.interval
           /\ FullAt(b, rate) \in Nat
           /\ FullAt(b, rate) = n + Owed(pool[key], rate, n)
<1> DEFINE b == Fetched(pool, key, n, rate)
           o == pool[key]
<1>1. Sound(o, rate, n) /\ DOMAIN pool = keys /\ o \in Bucket
  BY DEF PoolOK
<1>2. CASE o.lastSeen # Never
  <2> DEFINE c == Refilled(o, n, rate)
  <2>1. /\ c \in Bucket /\ c.lastSeen = o.lastSeen /\ c.tokens <= rate.burst
        /\ c.lastRefill <= n /\ n - c.lastRefill < rate.interval /\ n <= FullAt(c, rate)
        /\ FullAt(c, rate) = FullAt(o, rate) \/ (FullAt(o, rate) <= n /\ FullAt(c, rate) = n)
    BY <1>1, <1>2, RefilledFacts
  <2>2. o.lastSeen \in Nat /\ o.lastSeen <= n
    BY <1>1, <1>2 DEF Sound, Bucket
  <2>3. key \in Entries(pool)
    BY <1>1, <1>2 DEF Entries
  <2> HIDE DEF c
  <2>4. b = [c EXCEPT !.lastSeen = n]
    <3>1. b = [c EXCEPT !.lastSeen = IF n > c.lastSeen THEN n ELSE c.lastSeen]
      BY <2>3 DEF Fetched, c
    <3>2. (IF n > c.lastSeen THEN n ELSE c.lastSeen) = n
      BY <2>1, <2>2
    <3> QED BY <3>1, <3>2
  <2> HIDE DEF b
  <2>5. /\ b \in Bucket /\ b.lastSeen = n /\ b.tokens = c.tokens
        /\ b.lastRefill = c.lastRefill
    BY <2>1, <2>4 DEF Bucket
  <2>6. FullAt(b, rate) = FullAt(c, rate)
    BY <2>5 DEF FullAt
  <2>7. FullAt(o, rate) \in Nat
    BY <1>1, <1>2, FullAtType
  <2>8. FullAt(c, rate) = n + Owed(o, rate, n)
    BY <1>2, <2>1, <2>7 DEF Owed
  <2>9. FullAt(b, rate) \in Nat
    BY <2>1, <2>6, <2>7
  <2> HIDE DEF o
  <2> QED BY <2>1, <2>5, <2>6, <2>8, <2>9 DEF b, o
<1>3. CASE o.lastSeen = Never
  <2>1. b = [tokens |-> rate.burst, lastRefill |-> n, lastSeen |-> n]
    BY <1>3 DEF Fetched, Entries
  <2>2. b \in Bucket /\ b.lastSeen = n /\ b.tokens = rate.burst /\ b.lastRefill = n
    BY <2>1 DEF GoodRate, Bucket
  <2> HIDE DEF b
  <2>3. FullAt(b, rate) = n
    <3>1. (rate.burst - rate.burst) * rate.interval = 0
      BY DEF GoodRate
    <3> QED BY <2>2, <3>1 DEF FullAt
  <2>4. Owed(o, rate, n) = 0
    BY <1>3 DEF Owed
  <2> HIDE DEF o
  <2> QED BY <2>2, <2>3, <2>4 DEF b, o, GoodRate
<1> QED BY <1>2, <1>3

(* One request to a pool: what is decided, and what is owed afterwards. *)
LEMMA Decided ==
    ASSUME NEW rate, GoodRate(rate), NEW n \in Nat,
           NEW keys, NEW pool, PoolOK(pool, keys, rate, n), NEW key \in keys, NEW maximum
    PROVE  LET next == Admitted(pool, key, n, rate, maximum)
               res  == Result(pool, key, n, rate, maximum)
               d    == Owed(pool[key], rate, n)
           IN  /\ PoolOK(next, keys, rate, n)
               /\ d \in Nat
               /\ \A k \in keys \ {key} : next[k] = pool[k]
               /\ \/ /\ res = [decision |-> "allowed", key |-> key, retry |-> 0]
                     /\ d + rate.interval - rate.burst * rate.interval <= 0
                     /\ Owed(next[key], rate, n) = d + rate.interval
                     /\ ~Crowded(pool, key, maximum)
                  \/ /\ res = [decision |-> "rate_limited", key |-> key,
                               retry |-> d + rate.interval - rate.burst * rate.interval]
                     /\ d + rate.interval - rate.burst * rate.interval > 0
                     /\ Owed(next[key], rate, n) = d
                     /\ ~Crowded(pool, key, maximum)
                  \/ /\ res = [decision |-> "capacity_limited", key |-> key,
                               retry |-> OverloadRetryAfter]
                     /\ d = 0
                     /\ next = pool
                     /\ Crowded(pool, key, maximum)
<1> DEFINE next == Admitted(pool, key, n, rate, maximum)
           res  == Result(pool, key, n, rate, maximum)
           d    == Owed(pool[key], rate, n)
           b    == Fetched(pool, key, n, rate)
           B    == rate.burst
           i    == rate.interval
           full == FullAt(b, rate)
<1>1. /\ B \in Nat \ {0} /\ i \in Nat \ {0} /\ DOMAIN pool = keys
      /\ pool \in [keys -> Bucket] /\ \A k \in keys : Sound(pool[k], rate, n)
      /\ d \in Nat
  BY OwedDrains DEF GoodRate, PoolOK
<1>2. CASE Crowded(pool, key, maximum)
  <2>1. next = pool
    BY <1>2 DEF Admitted
  <2>2. res = [decision |-> "capacity_limited", key |-> key, retry |-> OverloadRetryAfter]
    BY <1>2 DEF Result
  <2>3. d = 0
    BY <1>1, <1>2 DEF Crowded, Entries, Owed
  <2> HIDE DEF next, res, d
  <2> QED BY <1>1, <1>2, <2>1, <2>2, <2>3 DEF next, res, d
<1>3. CASE ~Crowded(pool, key, maximum)
  <2>1. /\ b \in Bucket /\ b.lastSeen = n /\ b.tokens <= B /\ b.lastRefill <= n
        /\ n - b.lastRefill < i /\ full \in Nat /\ full = n + d
        /\ b.tokens \in Nat /\ b.lastRefill \in Nat
    BY FetchedFacts DEF Bucket
  <2>2. full = b.lastRefill + (B - b.tokens) * i
    BY DEF FullAt
  <2>3. CASE b.tokens < 1
    <3>1. next = [pool EXCEPT ![key] = b]
      BY <1>3, <2>3 DEF Admitted
    <3>2. res = [decision |-> "rate_limited", key |-> key, retry |-> RetryAfter(b, n, i)]
      BY <1>3, <2>3 DEF Result
    <3> HIDE DEF b
    <3>3. full = b.lastRefill + B * i /\ B * i \in Nat
      BY <1>1, <2>1, <2>2, <2>3, Times
    <3>4. d + i - B * i = i - (n - b.lastRefill)
      <4> HIDE DEF full, d
      <4> QED BY <1>1, <2>1, <3>3
    <3>5. RetryAfter(b, n, i) = i - (n - b.lastRefill) /\ i - (n - b.lastRefill) > 0
      BY <1>1, <2>1 DEF RetryAfter
    <3>6. Sound(b, rate, n)
      BY <1>1, <2>1, <2>3 DEF Sound
    <3>7. Owed(b, rate, n) = d
      <4>1. n \in Nat /\ b.lastSeen # Never
        BY <2>1 DEF Never
      <4> HIDE DEF d
      <4> QED BY <1>1, <2>1, <4>1 DEF Owed, full
    <3>8. /\ PoolOK(next, keys, rate, n) /\ next[key] = b
          /\ \A k \in keys \ {key} : next[k] = pool[k]
      <4> HIDE DEF next
      <4> QED BY <1>1, <2>1, <3>1, <3>6 DEF PoolOK
    <3> HIDE DEF next, res, d, full
    <3> QED BY <1>1, <1>3, <3>2, <3>4, <3>5, <3>7, <3>8 DEF next, res, d
  <2>4. CASE b.tokens >= 1
    <3> DEFINE c == [b EXCEPT !.tokens = b.tokens - 1]
    <3>1. next = [pool EXCEPT ![key] = c]
      <4>1. next = [pool EXCEPT ![key] = IF b.tokens < 1 THEN b ELSE c]
        BY <1>3, Zenon DEF Admitted
      <4>2. ~(b.tokens < 1)
        <5> HIDE DEF b
        <5> QED BY <2>1, <2>4
      <4> QED BY <4>1, <4>2, Zenon
    <3>2. res = [decision |-> "allowed", key |-> key, retry |-> 0]
      BY <1>3, <2>1, <2>4 DEF Result
    <3> HIDE DEF b
    <3>3. /\ c \in Bucket /\ c.tokens = b.tokens - 1 /\ c.lastRefill = b.lastRefill
          /\ c.lastSeen = n
      BY <2>1, <2>4 DEF Bucket
    <3> HIDE DEF c
    <3> DEFINE g == B - b.tokens
    <3>4. g \in Nat /\ g + 1 <= B /\ B - c.tokens = g + 1
      BY <1>1, <2>1, <2>4, <3>3
    <3>5. full = b.lastRefill + g * i
      BY <2>2
    <3> HIDE DEF g
    <3>6. /\ (g + 1) * i = g * i + i /\ g * i + i <= B * i
          /\ g * i \in Nat /\ B * i \in Nat
      <4>1. (g + 1) * i = g * i + 1 * i /\ 1 * i = i
        BY <1>1, <3>4, Times
      <4>2. (g + 1) * i <= B * i
        BY <1>1, <3>4, Times
      <4> QED BY <1>1, <3>4, <4>1, <4>2, Times
    <3>7. d + i - B * i <= 0
      <4> HIDE DEF full, d
      <4> QED BY <1>1, <2>1, <3>5, <3>6
    <3>8. FullAt(c, rate) = full + i
      <4>1. FullAt(c, rate) = b.lastRefill + (g + 1) * i
        BY <3>3, <3>4 DEF FullAt
      <4> HIDE DEF full
      <4> QED BY <1>1, <2>1, <3>5, <3>6, <4>1
    <3>9. Sound(c, rate, n)
      BY <1>1, <2>1, <3>3 DEF Sound
    <3>10. Owed(c, rate, n) = d + i
      <4>1. n \in Nat /\ c.lastSeen # Never
        BY <3>3 DEF Never
      <4> HIDE DEF d, full
      <4> QED BY <1>1, <2>1, <3>8, <4>1 DEF Owed
    <3>11. /\ PoolOK(next, keys, rate, n) /\ next[key] = c
           /\ \A k \in keys \ {key} : next[k] = pool[k]
      <4> HIDE DEF next
      <4> QED BY <1>1, <3>1, <3>3, <3>9 DEF PoolOK
    <3> HIDE DEF next, res, d, full
    <3> QED BY <1>1, <1>3, <3>2, <3>7, <3>10, <3>11 DEF next, res, d
  <2> QED BY <2>1, <2>3, <2>4
<1> QED BY <1>2, <1>3

(* A request and the cleanup in front of it, as the ideal meter sees them. *)
LEMMA Requested ==
    ASSUME NEW rate, GoodRate(rate), NEW m \in Nat, NEW n \in Nat, m <= n,
           NEW keys, NEW pool, PoolOK(pool, keys, rate, m), NEW key \in keys, NEW maximum,
           NEW E, E \subseteq Idle(pool, n)
    PROVE  LET next == Admitted(Without(pool, E), key, n, rate, maximum)
               res  == Result(Without(pool, E), key, n, rate, maximum)
               d(k) == IF Owed(pool[k], rate, m) > n - m THEN Owed(pool[k], rate, m) - (n - m)
                                                         ELSE 0
           IN  /\ PoolOK(next, keys, rate, n)
               /\ d(key) \in Nat
               /\ \A k \in keys \ {key} : Owed(next[k], rate, n) = d(k)
               /\ \/ /\ res = [decision |-> "allowed", key |-> key, retry |-> 0]
                     /\ d(key) + rate.interval - rate.burst * rate.interval <= 0
                     /\ Owed(next[key], rate, n) = d(key) + rate.interval
                  \/ /\ res = [decision |-> "rate_limited", key |-> key,
                               retry |-> d(key) + rate.interval - rate.burst * rate.interval]
                     /\ d(key) + rate.interval - rate.burst * rate.interval > 0
                     /\ Owed(next[key], rate, n) = d(key)
                  \/ /\ res = [decision |-> "capacity_limited", key |-> key,
                               retry |-> OverloadRetryAfter]
                     /\ d(key) = 0
                     /\ Owed(next[key], rate, n) = d(key)
<1> DEFINE q == Without(pool, E)
           next == Admitted(q, key, n, rate, maximum)
           res  == Result(q, key, n, rate, maximum)
           d(k) == IF Owed(pool[k], rate, m) > n - m THEN Owed(pool[k], rate, m) - (n - m)
                                                     ELSE 0
<1>1. /\ PoolOK(q, keys, rate, n)
      /\ \A k \in keys : Owed(q[k], rate, n) = Owed(pool[k], rate, n)
  BY CleanupInvisible
<1>2. \A k \in keys : Owed(pool[k], rate, n) = d(k)
  BY OwedDrains DEF PoolOK
<1> HIDE DEF q
<1>3. /\ PoolOK(next, keys, rate, n)
      /\ Owed(q[key], rate, n) \in Nat
      /\ \A k \in keys \ {key} : next[k] = q[k]
      /\ \/ /\ res = [decision |-> "allowed", key |-> key, retry |-> 0]
            /\ Owed(q[key], rate, n) + rate.interval - rate.burst * rate.interval <= 0
            /\ Owed(next[key], rate, n) = Owed(q[key], rate, n) + rate.interval
         \/ /\ res = [decision |-> "rate_limited", key |-> key,
                      retry |-> Owed(q[key], rate, n) + rate.interval
                                - rate.burst * rate.interval]
            /\ Owed(q[key], rate, n) + rate.interval - rate.burst * rate.interval > 0
            /\ Owed(next[key], rate, n) = Owed(q[key], rate, n)
         \/ /\ res = [decision |-> "capacity_limited", key |-> key,
                      retry |-> OverloadRetryAfter]
            /\ Owed(q[key], rate, n) = 0
            /\ next = q
  BY <1>1, Decided
<1>4. Owed(q[key], rate, n) = d(key) /\ \A k \in keys : Owed(q[k], rate, n) = d(k)
  BY <1>1, <1>2
<1> HIDE DEF next, res, d
<1>5. \A k \in keys \ {key} : Owed(next[k], rate, n) = d(k)
  BY <1>3, <1>4
<1>6. next = q => Owed(next[key], rate, n) = d(key)
  BY <1>4
<1>7. /\ PoolOK(next, keys, rate, n)
      /\ d(key) \in Nat
      /\ \A k \in keys \ {key} : Owed(next[k], rate, n) = d(k)
      /\ \/ /\ res = [decision |-> "allowed", key |-> key, retry |-> 0]
            /\ d(key) + rate.interval - rate.burst * rate.interval <= 0
            /\ Owed(next[key], rate, n) = d(key) + rate.interval
         \/ /\ res = [decision |-> "rate_limited", key |-> key,
                      retry |-> d(key) + rate.interval - rate.burst * rate.interval]
            /\ d(key) + rate.interval - rate.burst * rate.interval > 0
            /\ Owed(next[key], rate, n) = d(key)
         \/ /\ res = [decision |-> "capacity_limited", key |-> key,
                      retry |-> OverloadRetryAfter]
            /\ d(key) = 0
            /\ Owed(next[key], rate, n) = d(key)
  BY <1>3, <1>4, <1>5, <1>6
<1> QED BY <1>7 DEF next, res, d, q

-----------------------------------------------------------------------------
(* The limiter. *)

LEMMA Pools ==
    LimiterTypeOK <=>
        /\ PoolOK(sources, SourceKeys, SourceRate, lastNow)
        /\ PoolOK(actors, ActorKeys, ActorRate, lastNow)
        /\ inFlight \in Nat
        /\ lastNow \in Instants
        /\ permits \in [Permits -> [active : BOOLEAN, operation : Operations \cup {"none"},
                                    actorChecked : BOOLEAN]]
BY DEF LimiterTypeOK, PoolOK, BucketOK, Sound, SourceRate, ActorRate

LEMMA TimeGoesOn ==
    ASSUME LimiterTypeOK, NEW t \in Instants
    PROVE  /\ CurrentTime(t) \in Instants /\ CurrentTime(t) \in Nat
           /\ lastNow \in Nat /\ lastNow <= CurrentTime(t)
BY ConfigAssumption DEF LimiterTypeOK, Instants, CurrentTime

LEMMA TypeInit == LimiterInit => LimiterTypeOK
<1> SUFFICES ASSUME LimiterInit PROVE LimiterTypeOK
  OBVIOUS
<1>1. /\ PoolOK(sources, SourceKeys, SourceRate, lastNow)
      /\ PoolOK(actors, ActorKeys, ActorRate, lastNow)
  BY NoBucketSound DEF LimiterInit, PoolOK
<1>2. 0 \in Instants
  BY ConfigAssumption DEF Instants
<1>3. permits \in [Permits -> [active : BOOLEAN, operation : Operations \cup {"none"},
                               actorChecked : BOOLEAN]]
  BY DEF LimiterInit, NoPermit
<1> QED BY <1>1, <1>2, <1>3, Pools DEF LimiterInit

LEMMA AdmitSourceType ==
    ASSUME LimiterTypeOK, NEW p \in Permits, NEW operation \in Operations, NEW source \in Sources,
           NEW t \in Instants, AdmitSource(p, operation, source, t)
    PROVE  LimiterTypeOK'
<1> DEFINE n == CurrentTime(t)
           key == <<operation, source>>
<1>1. /\ n \in Instants /\ n \in Nat /\ lastNow \in Nat /\ lastNow <= n /\ key \in SourceKeys
      /\ lastNow' = n
  BY TimeGoesOn DEF AdmitSource, SourceKeys
<1>2. /\ PoolOK(sources, SourceKeys, SourceRate, lastNow)
      /\ PoolOK(actors, ActorKeys, ActorRate, lastNow)
      /\ inFlight \in Nat
      /\ permits \in [Permits -> [active : BOOLEAN, operation : Operations \cup {"none"},
                                  actorChecked : BOOLEAN]]
  BY Pools
<1>3. PICK E \in Cleanups(sources, n) :
        sources' = Admitted(Without(sources, E), key, n, SourceRate, MaxSources)
  BY DEF AdmitSource
<1> HIDE DEF n, key
<1>4. PoolOK(sources', SourceKeys, SourceRate, n)
  <2>1. E \subseteq Idle(sources, n)
    BY DEF Cleanups
  <2> QED BY <1>1, <1>2, <1>3, <2>1, Requested, Rates
<1>5. PoolOK(actors', ActorKeys, ActorRate, n)
  <2>1. actors' = actors
    BY DEF AdmitSource
  <2> QED BY <1>1, <1>2, <2>1, OwedDrains, Rates DEF PoolOK
<1>6. /\ inFlight' \in Nat
      /\ permits' \in [Permits -> [active : BOOLEAN, operation : Operations \cup {"none"},
                                   actorChecked : BOOLEAN]]
  <2> DEFINE held == [active |-> TRUE, operation |-> operation, actorChecked |-> FALSE]
  <2>1. held \in [active : BOOLEAN, operation : Operations \cup {"none"},
                  actorChecked : BOOLEAN]
    OBVIOUS
  <2>2. \/ inFlight' = inFlight + 1 /\ permits' = [permits EXCEPT ![p] = held]
        \/ inFlight' = inFlight /\ permits' = permits
    BY DEF AdmitSource
  <2> HIDE DEF held
  <2> QED BY <1>2, <2>1, <2>2
<1>7. /\ PoolOK(sources, SourceKeys, SourceRate, lastNow)'
      /\ PoolOK(actors, ActorKeys, ActorRate, lastNow)'
  BY <1>1, <1>4, <1>5 DEF PoolOK, Sound, SourceRate, ActorRate, SourceKeys, ActorKeys, Bucket
<1> QED BY <1>1, <1>6, <1>7
        DEF LimiterTypeOK, PoolOK, BucketOK, Sound, SourceRate, ActorRate

LEMMA AdmitActorType ==
    ASSUME LimiterTypeOK, NEW p \in Permits, NEW operation \in Operations, NEW actor \in RelayActors,
           NEW t \in Instants, AdmitActor(p, operation, actor, t)
    PROVE  LimiterTypeOK'
<1> DEFINE n == CurrentTime(t)
           key == <<operation, actor>>
<1>1. /\ n \in Instants /\ n \in Nat /\ lastNow \in Nat /\ lastNow <= n /\ key \in ActorKeys
      /\ lastNow' = n
  BY TimeGoesOn DEF AdmitActor, ActorKeys
<1>2. /\ PoolOK(sources, SourceKeys, SourceRate, lastNow)
      /\ PoolOK(actors, ActorKeys, ActorRate, lastNow)
      /\ inFlight \in Nat
      /\ permits \in [Permits -> [active : BOOLEAN, operation : Operations \cup {"none"},
                                  actorChecked : BOOLEAN]]
  BY Pools
<1>3. PICK E \in Cleanups(actors, n) :
        actors' = Admitted(Without(actors, E), key, n, ActorRate, MaxActors)
  BY DEF AdmitActor
<1> HIDE DEF n, key
<1>4. PoolOK(actors', ActorKeys, ActorRate, n)
  <2>1. E \subseteq Idle(actors, n)
    BY DEF Cleanups
  <2> QED BY <1>1, <1>2, <1>3, <2>1, Requested, Rates
<1>5. PoolOK(sources', SourceKeys, SourceRate, n)
  <2>1. sources' = sources
    BY DEF AdmitActor
  <2> QED BY <1>1, <1>2, <2>1, OwedDrains, Rates DEF PoolOK
<1>6. /\ inFlight' \in Nat
      /\ permits' \in [Permits -> [active : BOOLEAN, operation : Operations \cup {"none"},
                                   actorChecked : BOOLEAN]]
  BY <1>2 DEF AdmitActor
<1>7. /\ PoolOK(sources, SourceKeys, SourceRate, lastNow)'
      /\ PoolOK(actors, ActorKeys, ActorRate, lastNow)'
  BY <1>1, <1>4, <1>5 DEF PoolOK, Sound, SourceRate, ActorRate, SourceKeys, ActorKeys, Bucket
<1> QED BY <1>1, <1>6, <1>7
        DEF LimiterTypeOK, PoolOK, BucketOK, Sound, SourceRate, ActorRate

LEMMA TypeStep ==
    ASSUME LimiterTypeOK, [LimiterNext]_limiterVars
    PROVE  LimiterTypeOK'
<1>1. ASSUME NEW p \in Permits, Release(p) PROVE LimiterTypeOK'
  <2>1. inFlight' \in Nat
    BY <1>1 DEF Release, LimiterTypeOK
  <2>2. permits' \in [Permits -> [active : BOOLEAN, operation : Operations \cup {"none"},
                                  actorChecked : BOOLEAN]]
    BY <1>1 DEF Release, LimiterTypeOK
  <2>3. UNCHANGED <<sources, actors, lastNow>>
    BY <1>1 DEF Release
  <2> QED BY <2>1, <2>2, <2>3 DEF LimiterTypeOK, BucketOK
<1>2. CASE NoSlot
  BY <1>2 DEF NoSlot, LimiterTypeOK, BucketOK
<1>3. CASE UNCHANGED limiterVars
  BY <1>3 DEF limiterVars, LimiterTypeOK, BucketOK
<1> QED BY <1>1, <1>2, <1>3, AdmitSourceType, AdmitActorType DEF LimiterNext

(* Types are kept, and a stored bucket is one that was drawn on. *)
THEOREM LimiterTypeCorrect == LimiterSpec => []LimiterTypeOK
BY TypeInit, TypeStep, PTL DEF LimiterSpec
-----------------------------------------------------------------------------
(* The ceiling of concurrent requests. *)

LEMMA ActiveFinite ==
    /\ IsFiniteSet(Active) /\ IsFiniteSet(Active')
    /\ Cardinality(Active) \in Nat
BY PermitsFinite, FS_Subset, FS_CardinalityType DEF Active

LEMMA PermitsInit == LimiterInit => PermitsConserved
<1> SUFFICES ASSUME LimiterInit PROVE PermitsConserved
  OBVIOUS
<1>1. Active = {}
  BY DEF LimiterInit, Active, NoPermit
<1> QED BY <1>1, FS_EmptySet, ConfigAssumption DEF LimiterInit, PermitsConserved

LEMMA PermitsStep ==
    ASSUME LimiterTypeOK, PermitsConserved, [LimiterNext]_limiterVars
    PROVE  PermitsConserved'
<1>1. /\ permits \in [Permits -> [active : BOOLEAN, operation : Operations \cup {"none"},
                                  actorChecked : BOOLEAN]]
      /\ inFlight \in Nat /\ inFlight = Cardinality(Active) /\ inFlight <= MaxConcurrent
      /\ MaxConcurrent \in Nat
  BY ConfigAssumption DEF LimiterTypeOK, PermitsConserved
<1>2. CASE UNCHANGED <<inFlight, permits>>
  <2>1. Active' = Active
    BY <1>2 DEF Active
  <2> QED BY <1>1, <1>2, <2>1 DEF PermitsConserved
<1>3. ASSUME NEW p \in Permits, NEW operation \in Operations, NEW source \in Sources,
             NEW t \in Instants, AdmitSource(p, operation, source, t)
      PROVE  PermitsConserved'
  <2> DEFINE held == [active |-> TRUE, operation |-> operation, actorChecked |-> FALSE]
  <2>1. \/ inFlight' = inFlight + 1 /\ permits' = [permits EXCEPT ![p] = held]
        \/ UNCHANGED <<inFlight, permits>>
    BY <1>3 DEF AdmitSource
  <2>2. ~permits[p].active /\ inFlight < MaxConcurrent
    BY <1>3 DEF AdmitSource
  <2>3. CASE inFlight' = inFlight + 1 /\ permits' = [permits EXCEPT ![p] = held]
    <3>1. Active' = Active \cup {p} /\ p \notin Active
      BY <1>1, <2>2, <2>3 DEF Active
    <3>2. Cardinality(Active') = Cardinality(Active) + 1
      BY <3>1, ActiveFinite, FS_AddElement
    <3> QED BY <1>1, <2>2, <2>3, <3>2 DEF PermitsConserved
  <2> QED BY <1>2, <2>1, <2>3
<1>4. ASSUME NEW p \in Permits, NEW operation \in Operations, NEW actor \in RelayActors,
             NEW t \in Instants, AdmitActor(p, operation, actor, t)
      PROVE  PermitsConserved'
  <2>1. inFlight' = inFlight /\ permits' = [permits EXCEPT ![p].actorChecked = TRUE]
    BY <1>4 DEF AdmitActor
  <2>2. Active' = Active
    BY <1>1, <2>1 DEF Active
  <2> QED BY <1>1, <2>1, <2>2 DEF PermitsConserved
<1>5. ASSUME NEW p \in Permits, Release(p)
      PROVE  PermitsConserved'
  <2>1. /\ permits' = [permits EXCEPT ![p].active = FALSE]
        /\ inFlight' = IF permits[p].active /\ inFlight > 0 THEN inFlight - 1 ELSE inFlight
    BY <1>5 DEF Release
  <2>2. Active' = Active \ {p}
    BY <1>1, <2>1 DEF Active
  <2>3. Cardinality(Active') = IF p \in Active THEN Cardinality(Active) - 1
                                               ELSE Cardinality(Active)
    BY <2>2, ActiveFinite, FS_RemoveElement
  <2>4. permits[p].active <=> p \in Active
    BY DEF Active
  <2>5. p \in Active => inFlight > 0
    BY <1>1, ActiveFinite, FS_EmptySet
  <2> QED BY <1>1, <2>1, <2>3, <2>4, <2>5 DEF PermitsConserved
<1>6. CASE NoSlot
  BY <1>2, <1>6 DEF NoSlot
<1>7. CASE UNCHANGED limiterVars
  BY <1>2, <1>7 DEF limiterVars
<1> QED BY <1>3, <1>4, <1>5, <1>6, <1>7 DEF LimiterNext

(* No order of admissions, actor checks and (repeated) releases loses a     *)
(* slot or gives one back twice: the counter of Admit and Release is the    *)
(* number of permits held, within MaxConcurrent.                            *)
THEOREM PermitsSafe == LimiterSpec => []PermitsConserved
<1>1. LimiterInit => PermitsConserved
  BY PermitsInit
<1>2. LimiterTypeOK /\ PermitsConserved /\ [LimiterNext]_limiterVars => PermitsConserved'
  BY PermitsStep
<1> QED BY <1>1, <1>2, LimiterTypeCorrect, PTL DEF LimiterSpec
-----------------------------------------------------------------------------
(* The pools implement the ideal meters. *)

LEMMA SourceLevel ==
    ASSUME LimiterTypeOK
    PROVE  Level(sources, SourceRate) = [k \in SourceKeys |-> Owed(sources[k], SourceRate, lastNow)]
<1>1. DOMAIN sources = SourceKeys
  BY DEF LimiterTypeOK
<1> QED BY <1>1 DEF Level, Owed, FullAt, Entries

LEMMA SourceLevelNext ==
    ASSUME LimiterTypeOK'
    PROVE  Level(sources, SourceRate)'
              = [k \in SourceKeys |-> Owed(sources'[k], SourceRate, lastNow')]
<1>1. DOMAIN sources' = SourceKeys
  BY DEF LimiterTypeOK
<1> QED BY <1>1 DEF Level, Owed, FullAt, Entries, SourceRate

(* What has drained from a meter at time n, in terms of the buckets. *)
LEMMA SourceDrained ==
    ASSUME LimiterTypeOK, NEW n \in Nat, lastNow <= n, NEW k \in SourceKeys
    PROVE  /\ SourceMeter!Drained(k, n)
                = IF Owed(sources[k], SourceRate, lastNow) > n - lastNow
                  THEN Owed(sources[k], SourceRate, lastNow) - (n - lastNow) ELSE 0
           /\ SourceMeter!Drained(k, n) = Owed(sources[k], SourceRate, n)
<1>1. Level(sources, SourceRate)[k] = Owed(sources[k], SourceRate, lastNow)
  BY SourceLevel
<1>2. SourceMeter!Drained(k, n)
         = IF Owed(sources[k], SourceRate, lastNow) > n - lastNow
           THEN Owed(sources[k], SourceRate, lastNow) - (n - lastNow) ELSE 0
  BY <1>1 DEF SourceMeter!Drained
<1>3. lastNow \in Nat
  BY ConfigAssumption DEF LimiterTypeOK, Instants
<1>4. Sound(sources[k], SourceRate, lastNow)
  BY Pools DEF PoolOK
<1>5. Owed(sources[k], SourceRate, n)
         = IF Owed(sources[k], SourceRate, lastNow) > n - lastNow
           THEN Owed(sources[k], SourceRate, lastNow) - (n - lastNow) ELSE 0
  BY <1>3, <1>4, OwedDrains, Rates
<1> QED BY <1>2, <1>5

(* A step that leaves the pool alone only lets time pass in its meter. *)
LEMMA SourcePass ==
    ASSUME LimiterTypeOK, LimiterTypeOK', NEW n \in Instants, lastNow' = n, lastNow <= n,
           sources' = sources, answer'.stage # "source"
    PROVE  SourceMeter!MeterNext
<1>1. n \in Nat
  BY ConfigAssumption DEF Instants
<1>2. Level(sources, SourceRate)' = [k \in SourceKeys |-> SourceMeter!Drained(k, n)]
  BY <1>1, SourceLevelNext, SourceDrained
<1>3. Verdict("source")' = SourceMeter!Silent
  BY DEF Verdict, SourceMeter!Silent
<1>4. SourceMeter!Pass(n)
  BY <1>2, <1>3 DEF SourceMeter!Pass, SourceMeter!Time
<1> QED BY <1>4 DEF SourceMeter!MeterNext

(* A request is decided as its meter says. *)
LEMMA SourceDecides ==
    ASSUME LimiterTypeOK, LimiterTypeOK', NEW p \in Permits, NEW operation \in Operations,
           NEW source \in Sources, NEW t \in Instants, AdmitSource(p, operation, source, t)
    PROVE  SourceMeter!MeterNext
<1> DEFINE n == CurrentTime(t)
           key == <<operation, source>>
<1>1. /\ n \in Instants /\ n \in Nat /\ lastNow \in Nat /\ lastNow <= n /\ key \in SourceKeys
      /\ lastNow' = n
  BY TimeGoesOn DEF AdmitSource, SourceKeys
<1>2. PICK E \in Cleanups(sources, n) :
        LET pool == Without(sources, E)
        IN  /\ sources' = Admitted(pool, key, n, SourceRate, MaxSources)
            /\ answer' = Answer("source", Result(pool, key, n, SourceRate, MaxSources))
  BY DEF AdmitSource
<1> HIDE DEF n, key
<1> DEFINE res  == Result(Without(sources, E), key, n, SourceRate, MaxSources)
           d(k) == SourceMeter!Drained(k, n)
           over == d(key) + SourceInterval - SourceBurst * SourceInterval
<1>3. Verdict("source")' = res
  BY <1>2 DEF Verdict, Answer
<1>4. E \subseteq Idle(sources, n) /\ PoolOK(sources, SourceKeys, SourceRate, lastNow)
  BY Pools DEF Cleanups
<1>5. /\ \A k \in SourceKeys \ {key} : Owed(sources'[k], SourceRate, n) = d(k)
      /\ d(key) \in Nat
      /\ \/ /\ res = [decision |-> "allowed", key |-> key, retry |-> 0]
            /\ over <= 0
            /\ Owed(sources'[key], SourceRate, n) = d(key) + SourceInterval
         \/ /\ res = [decision |-> "rate_limited", key |-> key, retry |-> over]
            /\ over > 0
            /\ Owed(sources'[key], SourceRate, n) = d(key)
         \/ /\ res = [decision |-> "capacity_limited", key |-> key,
                      retry |-> OverloadRetryAfter]
            /\ d(key) = 0
            /\ Owed(sources'[key], SourceRate, n) = d(key)
  <2> DEFINE e(k) == IF Owed(sources[k], SourceRate, lastNow) > n - lastNow
                     THEN Owed(sources[k], SourceRate, lastNow) - (n - lastNow) ELSE 0
             eo == e(key) + SourceRate.interval - SourceRate.burst * SourceRate.interval
  <2>1. /\ \A k \in SourceKeys \ {key} : Owed(sources'[k], SourceRate, n) = e(k)
        /\ e(key) \in Nat
        /\ \/ /\ res = [decision |-> "allowed", key |-> key, retry |-> 0]
              /\ eo <= 0
              /\ Owed(sources'[key], SourceRate, n) = e(key) + SourceRate.interval
           \/ /\ res = [decision |-> "rate_limited", key |-> key, retry |-> eo]
              /\ eo > 0
              /\ Owed(sources'[key], SourceRate, n) = e(key)
           \/ /\ res = [decision |-> "capacity_limited", key |-> key,
                        retry |-> OverloadRetryAfter]
              /\ e(key) = 0
              /\ Owed(sources'[key], SourceRate, n) = e(key)
    BY <1>1, <1>2, <1>4, Rates, Requested
  <2>2. \A k \in SourceKeys : d(k) = e(k)
    BY <1>1, SourceDrained
  <2>3. SourceRate.interval = SourceInterval /\ SourceRate.burst = SourceBurst
    BY DEF SourceRate
  <2>4. eo = over
    BY <1>1, <2>2, <2>3
  <2> HIDE DEF res, d, e, eo, over
  <2> QED BY <1>1, <2>1, <2>2, <2>3, <2>4
<1>6. Level(sources, SourceRate)' = [k \in SourceKeys |-> Owed(sources'[k], SourceRate, n)]
  BY <1>1, SourceLevelNext
<1>7. over = SourceMeter!Overflow(key, n)
  BY DEF SourceMeter!Overflow
<1>8. SourceMeter!Time(n)
  BY <1>1 DEF SourceMeter!Time
<1>9. ASSUME NEW c \in Nat, Owed(sources'[key], SourceRate, n) = d(key) + c
      PROVE  Level(sources, SourceRate)'
                = [j \in SourceKeys |-> d(j) + (IF j = key THEN c ELSE 0)]
  <2>1. ASSUME NEW j \in SourceKeys
        PROVE  Owed(sources'[j], SourceRate, n) = d(j) + (IF j = key THEN c ELSE 0)
    <3>1. d(j) \in Nat
      BY <1>1, SourceDrained, OwedDrains, Pools, Rates DEF PoolOK
    <3> HIDE DEF d, res, over
    <3>2. j # key => Owed(sources'[j], SourceRate, n) = d(j)
      BY <1>5
    <3>3. CASE j = key
      BY <1>9, <3>3
    <3>4. CASE j # key
      BY <3>1, <3>2, <3>4
    <3> QED BY <3>3, <3>4
  <2> HIDE DEF d
  <2> QED BY <1>6, <2>1
<1> HIDE DEF res, over
<1>10. CASE /\ res = [decision |-> "allowed", key |-> key, retry |-> 0]
            /\ over <= 0
            /\ Owed(sources'[key], SourceRate, n) = d(key) + SourceInterval
  <2>1. Level(sources, SourceRate)'
           = [j \in SourceKeys |-> d(j) + (IF j = key THEN SourceInterval ELSE 0)]
    BY <1>9, <1>10, ConfigAssumption
  <2>2. SourceMeter!Grant(key, n)
    BY <1>3, <1>7, <1>8, <1>10, <2>1 DEF SourceMeter!Grant
  <2> QED BY <1>1, <2>2 DEF SourceMeter!MeterNext
<1>11. ASSUME Owed(sources'[key], SourceRate, n) = d(key)
       PROVE  Level(sources, SourceRate)' = [j \in SourceKeys |-> d(j)]
  <2> HIDE DEF d
  <2> QED BY <1>5, <1>6, <1>11
<1>12. CASE /\ res = [decision |-> "rate_limited", key |-> key, retry |-> over]
            /\ over > 0
            /\ Owed(sources'[key], SourceRate, n) = d(key)
  <2>1. SourceMeter!Limit(key, n)
    BY <1>3, <1>7, <1>8, <1>11, <1>12 DEF SourceMeter!Limit
  <2> QED BY <1>1, <2>1 DEF SourceMeter!MeterNext
<1>13. CASE /\ res = [decision |-> "capacity_limited", key |-> key,
                      retry |-> OverloadRetryAfter]
            /\ d(key) = 0
            /\ Owed(sources'[key], SourceRate, n) = d(key)
  <2>1. SourceMeter!Crowd(key, n)
    BY <1>3, <1>8, <1>11, <1>13 DEF SourceMeter!Crowd
  <2> QED BY <1>1, <2>1 DEF SourceMeter!MeterNext
<1> QED BY <1>5, <1>10, <1>12, <1>13

LEMMA ActorLevel ==
    ASSUME LimiterTypeOK
    PROVE  Level(actors, ActorRate) = [k \in ActorKeys |-> Owed(actors[k], ActorRate, lastNow)]
<1>1. DOMAIN actors = ActorKeys
  BY DEF LimiterTypeOK
<1> QED BY <1>1 DEF Level, Owed, FullAt, Entries

LEMMA ActorLevelNext ==
    ASSUME LimiterTypeOK'
    PROVE  Level(actors, ActorRate)'
              = [k \in ActorKeys |-> Owed(actors'[k], ActorRate, lastNow')]
<1>1. DOMAIN actors' = ActorKeys
  BY DEF LimiterTypeOK
<1> QED BY <1>1 DEF Level, Owed, FullAt, Entries, ActorRate

(* What has drained from a meter at time n, in terms of the buckets. *)
LEMMA ActorDrained ==
    ASSUME LimiterTypeOK, NEW n \in Nat, lastNow <= n, NEW k \in ActorKeys
    PROVE  /\ ActorMeter!Drained(k, n)
                = IF Owed(actors[k], ActorRate, lastNow) > n - lastNow
                  THEN Owed(actors[k], ActorRate, lastNow) - (n - lastNow) ELSE 0
           /\ ActorMeter!Drained(k, n) = Owed(actors[k], ActorRate, n)
<1>1. Level(actors, ActorRate)[k] = Owed(actors[k], ActorRate, lastNow)
  BY ActorLevel
<1>2. ActorMeter!Drained(k, n)
         = IF Owed(actors[k], ActorRate, lastNow) > n - lastNow
           THEN Owed(actors[k], ActorRate, lastNow) - (n - lastNow) ELSE 0
  BY <1>1 DEF ActorMeter!Drained
<1>3. lastNow \in Nat
  BY ConfigAssumption DEF LimiterTypeOK, Instants
<1>4. Sound(actors[k], ActorRate, lastNow)
  BY Pools DEF PoolOK
<1>5. Owed(actors[k], ActorRate, n)
         = IF Owed(actors[k], ActorRate, lastNow) > n - lastNow
           THEN Owed(actors[k], ActorRate, lastNow) - (n - lastNow) ELSE 0
  BY <1>3, <1>4, OwedDrains, Rates
<1> QED BY <1>2, <1>5

(* A step that leaves the pool alone only lets time pass in its meter. *)
LEMMA ActorPass ==
    ASSUME LimiterTypeOK, LimiterTypeOK', NEW n \in Instants, lastNow' = n, lastNow <= n,
           actors' = actors, answer'.stage # "actor"
    PROVE  ActorMeter!MeterNext
<1>1. n \in Nat
  BY ConfigAssumption DEF Instants
<1>2. Level(actors, ActorRate)' = [k \in ActorKeys |-> ActorMeter!Drained(k, n)]
  BY <1>1, ActorLevelNext, ActorDrained
<1>3. Verdict("actor")' = ActorMeter!Silent
  BY DEF Verdict, ActorMeter!Silent
<1>4. ActorMeter!Pass(n)
  BY <1>2, <1>3 DEF ActorMeter!Pass, ActorMeter!Time
<1> QED BY <1>4 DEF ActorMeter!MeterNext

(* A request is decided as its meter says. *)
LEMMA ActorDecides ==
    ASSUME LimiterTypeOK, LimiterTypeOK', NEW p \in Permits, NEW operation \in Operations,
           NEW actor \in RelayActors, NEW t \in Instants, AdmitActor(p, operation, actor, t)
    PROVE  ActorMeter!MeterNext
<1> DEFINE n == CurrentTime(t)
           key == <<operation, actor>>
<1>1. /\ n \in Instants /\ n \in Nat /\ lastNow \in Nat /\ lastNow <= n /\ key \in ActorKeys
      /\ lastNow' = n
  BY TimeGoesOn DEF AdmitActor, ActorKeys
<1>2. PICK E \in Cleanups(actors, n) :
        LET pool == Without(actors, E)
        IN  /\ actors' = Admitted(pool, key, n, ActorRate, MaxActors)
            /\ answer' = Answer("actor", Result(pool, key, n, ActorRate, MaxActors))
  BY DEF AdmitActor
<1> HIDE DEF n, key
<1> DEFINE res  == Result(Without(actors, E), key, n, ActorRate, MaxActors)
           d(k) == ActorMeter!Drained(k, n)
           over == d(key) + ActorInterval - ActorBurst * ActorInterval
<1>3. Verdict("actor")' = res
  BY <1>2 DEF Verdict, Answer
<1>4. E \subseteq Idle(actors, n) /\ PoolOK(actors, ActorKeys, ActorRate, lastNow)
  BY Pools DEF Cleanups
<1>5. /\ \A k \in ActorKeys \ {key} : Owed(actors'[k], ActorRate, n) = d(k)
      /\ d(key) \in Nat
      /\ \/ /\ res = [decision |-> "allowed", key |-> key, retry |-> 0]
            /\ over <= 0
            /\ Owed(actors'[key], ActorRate, n) = d(key) + ActorInterval
         \/ /\ res = [decision |-> "rate_limited", key |-> key, retry |-> over]
            /\ over > 0
            /\ Owed(actors'[key], ActorRate, n) = d(key)
         \/ /\ res = [decision |-> "capacity_limited", key |-> key,
                      retry |-> OverloadRetryAfter]
            /\ d(key) = 0
            /\ Owed(actors'[key], ActorRate, n) = d(key)
  <2> DEFINE e(k) == IF Owed(actors[k], ActorRate, lastNow) > n - lastNow
                     THEN Owed(actors[k], ActorRate, lastNow) - (n - lastNow) ELSE 0
             eo == e(key) + ActorRate.interval - ActorRate.burst * ActorRate.interval
  <2>1. /\ \A k \in ActorKeys \ {key} : Owed(actors'[k], ActorRate, n) = e(k)
        /\ e(key) \in Nat
        /\ \/ /\ res = [decision |-> "allowed", key |-> key, retry |-> 0]
              /\ eo <= 0
              /\ Owed(actors'[key], ActorRate, n) = e(key) + ActorRate.interval
           \/ /\ res = [decision |-> "rate_limited", key |-> key, retry |-> eo]
              /\ eo > 0
              /\ Owed(actors'[key], ActorRate, n) = e(key)
           \/ /\ res = [decision |-> "capacity_limited", key |-> key,
                        retry |-> OverloadRetryAfter]
              /\ e(key) = 0
              /\ Owed(actors'[key], ActorRate, n) = e(key)
    BY <1>1, <1>2, <1>4, Rates, Requested
  <2>2. \A k \in ActorKeys : d(k) = e(k)
    BY <1>1, ActorDrained
  <2>3. ActorRate.interval = ActorInterval /\ ActorRate.burst = ActorBurst
    BY DEF ActorRate
  <2>4. eo = over
    BY <1>1, <2>2, <2>3
  <2> HIDE DEF res, d, e, eo, over
  <2> QED BY <1>1, <2>1, <2>2, <2>3, <2>4
<1>6. Level(actors, ActorRate)' = [k \in ActorKeys |-> Owed(actors'[k], ActorRate, n)]
  BY <1>1, ActorLevelNext
<1>7. over = ActorMeter!Overflow(key, n)
  BY DEF ActorMeter!Overflow
<1>8. ActorMeter!Time(n)
  BY <1>1 DEF ActorMeter!Time
<1>9. ASSUME NEW c \in Nat, Owed(actors'[key], ActorRate, n) = d(key) + c
      PROVE  Level(actors, ActorRate)'
                = [j \in ActorKeys |-> d(j) + (IF j = key THEN c ELSE 0)]
  <2>1. ASSUME NEW j \in ActorKeys
        PROVE  Owed(actors'[j], ActorRate, n) = d(j) + (IF j = key THEN c ELSE 0)
    <3>1. d(j) \in Nat
      BY <1>1, ActorDrained, OwedDrains, Pools, Rates DEF PoolOK
    <3> HIDE DEF d, res, over
    <3>2. j # key => Owed(actors'[j], ActorRate, n) = d(j)
      BY <1>5
    <3>3. CASE j = key
      BY <1>9, <3>3
    <3>4. CASE j # key
      BY <3>1, <3>2, <3>4
    <3> QED BY <3>3, <3>4
  <2> HIDE DEF d
  <2> QED BY <1>6, <2>1
<1> HIDE DEF res, over
<1>10. CASE /\ res = [decision |-> "allowed", key |-> key, retry |-> 0]
            /\ over <= 0
            /\ Owed(actors'[key], ActorRate, n) = d(key) + ActorInterval
  <2>1. Level(actors, ActorRate)'
           = [j \in ActorKeys |-> d(j) + (IF j = key THEN ActorInterval ELSE 0)]
    BY <1>9, <1>10, ConfigAssumption
  <2>2. ActorMeter!Grant(key, n)
    BY <1>3, <1>7, <1>8, <1>10, <2>1 DEF ActorMeter!Grant
  <2> QED BY <1>1, <2>2 DEF ActorMeter!MeterNext
<1>11. ASSUME Owed(actors'[key], ActorRate, n) = d(key)
       PROVE  Level(actors, ActorRate)' = [j \in ActorKeys |-> d(j)]
  <2> HIDE DEF d
  <2> QED BY <1>5, <1>6, <1>11
<1>12. CASE /\ res = [decision |-> "rate_limited", key |-> key, retry |-> over]
            /\ over > 0
            /\ Owed(actors'[key], ActorRate, n) = d(key)
  <2>1. ActorMeter!Limit(key, n)
    BY <1>3, <1>7, <1>8, <1>11, <1>12 DEF ActorMeter!Limit
  <2> QED BY <1>1, <2>1 DEF ActorMeter!MeterNext
<1>13. CASE /\ res = [decision |-> "capacity_limited", key |-> key,
                      retry |-> OverloadRetryAfter]
            /\ d(key) = 0
            /\ Owed(actors'[key], ActorRate, n) = d(key)
  <2>1. ActorMeter!Crowd(key, n)
    BY <1>3, <1>8, <1>11, <1>13 DEF ActorMeter!Crowd
  <2> QED BY <1>1, <2>1 DEF ActorMeter!MeterNext
<1> QED BY <1>5, <1>10, <1>12, <1>13

LEMMA MeterInits == LimiterInit => SourceMeter!MeterInit /\ ActorMeter!MeterInit
<1> SUFFICES ASSUME LimiterInit PROVE SourceMeter!MeterInit /\ ActorMeter!MeterInit
  OBVIOUS
<1>1. /\ \A k \in SourceKeys : sources[k].lastSeen = Never
      /\ \A k \in ActorKeys : actors[k].lastSeen = Never
      /\ DOMAIN sources = SourceKeys /\ DOMAIN actors = ActorKeys
  BY DEF LimiterInit, NoBucket
<1>2. /\ Level(sources, SourceRate) = [k \in SourceKeys |-> 0]
      /\ Level(actors, ActorRate) = [k \in ActorKeys |-> 0]
  BY <1>1 DEF Level, Entries
<1>3. Verdict("source") = [decision |-> "none"] /\ Verdict("actor") = [decision |-> "none"]
  BY DEF LimiterInit, Unanswered, Verdict
<1> QED BY <1>2, <1>3 DEF LimiterInit, SourceMeter!MeterInit, SourceMeter!Silent,
                          ActorMeter!MeterInit, ActorMeter!Silent

LEMMA MeterSteps ==
    ASSUME LimiterTypeOK, LimiterTypeOK', [LimiterNext]_limiterVars
    PROVE  /\ [SourceMeter!MeterNext]_(SourceMeter!meterVars)
           /\ [ActorMeter!MeterNext]_(ActorMeter!meterVars)
<1>1. lastNow \in Instants /\ lastNow <= lastNow
  BY ConfigAssumption DEF LimiterTypeOK, Instants
<1>2. ASSUME NEW p \in Permits, NEW operation \in Operations, NEW source \in Sources,
             NEW t \in Instants, AdmitSource(p, operation, source, t)
      PROVE  SourceMeter!MeterNext /\ ActorMeter!MeterNext
  <2>1. actors' = actors /\ lastNow' = CurrentTime(t) /\ answer'.stage # "actor"
    BY <1>2 DEF AdmitSource, Answer
  <2> QED BY <1>2, <2>1, TimeGoesOn, SourceDecides, ActorPass
<1>3. ASSUME NEW p \in Permits, NEW operation \in Operations, NEW actor \in RelayActors,
             NEW t \in Instants, AdmitActor(p, operation, actor, t)
      PROVE  SourceMeter!MeterNext /\ ActorMeter!MeterNext
  <2>1. sources' = sources /\ lastNow' = CurrentTime(t) /\ answer'.stage # "source"
    BY <1>3 DEF AdmitActor, Answer
  <2> QED BY <1>3, <2>1, TimeGoesOn, ActorDecides, SourcePass
<1>4. ASSUME NEW p \in Permits, Release(p)
      PROVE  SourceMeter!MeterNext /\ ActorMeter!MeterNext
  <2>1. /\ sources' = sources /\ actors' = actors /\ lastNow' = lastNow
        /\ answer'.stage = "none"
    BY <1>4 DEF Release, Unanswered
  <2> QED BY <1>1, <2>1, ActorPass, SourcePass
<1>5. CASE NoSlot
  <2>1. /\ sources' = sources /\ actors' = actors /\ lastNow' = lastNow
        /\ answer'.stage = "slot"
    BY <1>5 DEF NoSlot
  <2> QED BY <1>1, <2>1, ActorPass, SourcePass
<1>6. CASE UNCHANGED limiterVars
  BY <1>6 DEF limiterVars, SourceMeter!meterVars, ActorMeter!meterVars, Level, Verdict, Entries
<1> QED BY <1>2, <1>3, <1>4, <1>5, <1>6 DEF LimiterNext

(* Refinement: with lazy refills in whole intervals, LRU eviction and a     *)
(* bounded cleanup, every client is granted exactly what a bucket that is   *)
(* never forgotten would grant it, is told the exact time to retry, and is  *)
(* turned away for want of room only while it owes nothing.                 *)
THEOREM LimiterMetered == LimiterSpec => Metered
<1>1. LimiterInit => SourceMeter!MeterInit /\ ActorMeter!MeterInit
  BY MeterInits
<1>2. LimiterTypeOK /\ LimiterTypeOK' /\ [LimiterNext]_limiterVars
         => /\ [SourceMeter!MeterNext]_(SourceMeter!meterVars)
            /\ [ActorMeter!MeterNext]_(ActorMeter!meterVars)
  BY MeterSteps
<1> QED BY <1>1, <1>2, LimiterTypeCorrect, PTL
        DEF LimiterSpec, Metered, SourceMeter!MeterSpec, ActorMeter!MeterSpec
-----------------------------------------------------------------------------
(* The size of a pool. *)

LEMMA Room ==
    ASSUME NEW rate, GoodRate(rate), NEW m \in Nat, NEW n \in Nat, m <= n,
           NEW keys, NEW pool, PoolOK(pool, keys, rate, m), NEW key \in keys,
           NEW maximum \in Nat, IsFiniteSet(Entries(pool)), Cardinality(Entries(pool)) <= maximum,
           NEW E \in Cleanups(pool, n)
    PROVE  LET next == Admitted(Without(pool, E), key, n, rate, maximum)
               res  == Result(Without(pool, E), key, n, rate, maximum)
           IN  /\ IsFiniteSet(Entries(next))
               /\ Cardinality(Entries(next)) <= maximum
               /\ res.decision = "capacity_limited" =>
                     Cardinality(Entries(next)) >= maximum /\ Idle(next, n) = {}
<1> DEFINE q == Without(pool, E)
           next == Admitted(q, key, n, rate, maximum)
           res  == Result(q, key, n, rate, maximum)
<1>1. DOMAIN pool = keys /\ E \subseteq Idle(pool, n) /\ E \subseteq Entries(pool)
  BY DEF PoolOK, Cleanups, Idle
<1>2. PoolOK(q, keys, rate, n)
  BY <1>1, CleanupInvisible
<1>3. Entries(q) = Entries(pool) \ E
  BY <1>1 DEF Entries, Without, NoBucket
<1>4. /\ IsFiniteSet(Entries(q)) /\ Cardinality(Entries(q)) \in Nat
      /\ Cardinality(Entries(q)) <= maximum /\ Cardinality(Entries(pool)) \in Nat
      /\ Cardinality(Entries(q)) <= Cardinality(Entries(pool))
      /\ Cardinality(Entries(q)) = Cardinality(Entries(pool)) => Entries(q) = Entries(pool)
  <2>1. Entries(q) \in SUBSET Entries(pool)
    BY <1>3
  <2>2. /\ IsFiniteSet(Entries(q)) /\ Cardinality(Entries(q)) <= Cardinality(Entries(pool))
        /\ Cardinality(Entries(pool)) = Cardinality(Entries(q)) => Entries(pool) = Entries(q)
    BY <2>1, FS_Subset
  <2>3. Cardinality(Entries(q)) \in Nat /\ Cardinality(Entries(pool)) \in Nat
    BY <2>2, FS_CardinalityType
  <2> HIDE DEF q
  <2> QED BY <2>2, <2>3
<1>5. CASE Crowded(q, key, maximum)
  <2>1. next = q /\ Cardinality(Entries(q)) >= maximum
    BY <1>5 DEF Admitted, Crowded
  <2>2. E = {}
    <3>1. Entries(q) = Entries(pool)
      <4> HIDE DEF q, next
      <4> QED BY <1>4, <2>1
    <3> QED BY <1>1, <1>3, <3>1
  <2>3. Idle(pool, n) = {}
    <3>1. Cardinality(E) < CleanupLimit
      BY <2>2, FS_EmptySet, ConfigAssumption
    <3> QED BY <2>2, <3>1 DEF Cleanups
  <2>4. q = pool
    BY <1>1, <2>2 DEF Without, PoolOK
  <2> HIDE DEF q, next, res
  <2> QED BY <1>4, <2>1, <2>3, <2>4 DEF next, res, q
<1>6. CASE ~Crowded(q, key, maximum)
  <2> DEFINE b == Fetched(q, key, n, rate)
             c == IF b.tokens < 1 THEN b ELSE [b EXCEPT !.tokens = b.tokens - 1]
  <2>1. b \in Bucket /\ b.lastSeen = n
    BY <1>2, FetchedFacts
  <2>2. next = [q EXCEPT ![key] = c]
    BY <1>6, Zenon DEF Admitted
  <2>3. res.decision # "capacity_limited"
    BY <1>6 DEF Result
  <2> HIDE DEF b
  <2>4. c.lastSeen = n
    BY <2>1 DEF Bucket
  <2> HIDE DEF c, q
  <2>5. q \in [keys -> Bucket]
    BY <1>2 DEF PoolOK
  <2> HIDE DEF next, res
  <2>6. Entries(next) = Entries(q) \cup {key}
    <3>1. n # Never
      BY DEF Never
    <3> QED BY <2>2, <2>4, <2>5, <3>1 DEF Entries
  <2>7. /\ IsFiniteSet(Entries(next))
        /\ Cardinality(Entries(next)) = IF key \in Entries(q) THEN Cardinality(Entries(q))
                                                             ELSE Cardinality(Entries(q)) + 1
    <3>1. IsFiniteSet(Entries(q))
      BY <1>4
    <3> QED BY <2>6, <3>1, FS_AddElement
  <2>8. key \in Entries(q) \/ Cardinality(Entries(q)) < maximum
    BY <1>4, <1>6 DEF Crowded
  <2>9. Cardinality(Entries(next)) <= maximum
    BY <1>4, <2>7, <2>8
  <2> QED BY <2>3, <2>7, <2>9 DEF next, res, q
<1> QED BY <1>5, <1>6

(* CapacityFair, and that a pool has finitely many entries. *)
CapacityInv ==
    /\ IsFiniteSet(Entries(sources)) /\ IsFiniteSet(Entries(actors))
    /\ CapacityFair

LEMMA CapacityInit == LimiterInit => CapacityInv
<1> SUFFICES ASSUME LimiterInit PROVE CapacityInv
  OBVIOUS
<1>1. Entries(sources) = {} /\ Entries(actors) = {}
  BY DEF LimiterInit, Entries, NoBucket
<1>2. answer.decision # "capacity_limited"
  BY DEF LimiterInit, Unanswered
<1> QED BY <1>1, <1>2, FS_EmptySet, ConfigAssumption DEF CapacityInv, CapacityFair

LEMMA CapacityStep ==
    ASSUME LimiterTypeOK, CapacityInv, [LimiterNext]_limiterVars
    PROVE  CapacityInv'
<1>1. /\ MaxSources \in Nat /\ MaxActors \in Nat
      /\ IsFiniteSet(Entries(sources)) /\ Cardinality(Entries(sources)) <= MaxSources
      /\ IsFiniteSet(Entries(actors)) /\ Cardinality(Entries(actors)) <= MaxActors
      /\ PoolOK(sources, SourceKeys, SourceRate, lastNow)
      /\ PoolOK(actors, ActorKeys, ActorRate, lastNow)
  BY ConfigAssumption, Pools DEF CapacityInv, CapacityFair
<1>2. ASSUME NEW p \in Permits, NEW operation \in Operations, NEW source \in Sources,
             NEW t \in Instants, AdmitSource(p, operation, source, t)
      PROVE  CapacityInv'
  <2> DEFINE n == CurrentTime(t)
             key == <<operation, source>>
  <2>1. /\ n \in Nat /\ lastNow \in Nat /\ lastNow <= n /\ key \in SourceKeys
        /\ lastNow' = n /\ actors' = actors
    BY <1>2, TimeGoesOn DEF AdmitSource, SourceKeys
  <2>2. PICK E \in Cleanups(sources, n) :
          LET pool == Without(sources, E)
          IN  /\ sources' = Admitted(pool, key, n, SourceRate, MaxSources)
              /\ answer' = Answer("source", Result(pool, key, n, SourceRate, MaxSources))
    BY <1>2 DEF AdmitSource
  <2> HIDE DEF n, key
  <2> DEFINE res == Result(Without(sources, E), key, n, SourceRate, MaxSources)
  <2>3. /\ IsFiniteSet(Entries(sources')) /\ Cardinality(Entries(sources')) <= MaxSources
        /\ res.decision = "capacity_limited" =>
              Cardinality(Entries(sources')) >= MaxSources /\ Idle(sources', n) = {}
    BY <1>1, <2>1, <2>2, Rates, Room
  <2>4. answer'.decision = res.decision /\ answer'.stage = "source"
    BY <2>2 DEF Answer
  <2> HIDE DEF res
  <2>5. /\ Entries(sources)' = Entries(sources') /\ Entries(actors)' = Entries(actors)
        /\ Idle(sources, lastNow)' = Idle(sources', n)
    BY <2>1 DEF Entries, Idle
  <2> QED BY <1>1, <2>3, <2>4, <2>5 DEF CapacityInv, CapacityFair, Busy
<1>3. ASSUME NEW p \in Permits, NEW operation \in Operations, NEW actor \in RelayActors,
             NEW t \in Instants, AdmitActor(p, operation, actor, t)
      PROVE  CapacityInv'
  <2> DEFINE n == CurrentTime(t)
             key == <<operation, actor>>
  <2>1. /\ n \in Nat /\ lastNow \in Nat /\ lastNow <= n /\ key \in ActorKeys
        /\ lastNow' = n /\ sources' = sources
    BY <1>3, TimeGoesOn DEF AdmitActor, ActorKeys
  <2>2. PICK E \in Cleanups(actors, n) :
          LET pool == Without(actors, E)
          IN  /\ actors' = Admitted(pool, key, n, ActorRate, MaxActors)
              /\ answer' = Answer("actor", Result(pool, key, n, ActorRate, MaxActors))
    BY <1>3 DEF AdmitActor
  <2> HIDE DEF n, key
  <2> DEFINE res == Result(Without(actors, E), key, n, ActorRate, MaxActors)
  <2>3. /\ IsFiniteSet(Entries(actors')) /\ Cardinality(Entries(actors')) <= MaxActors
        /\ res.decision = "capacity_limited" =>
              Cardinality(Entries(actors')) >= MaxActors /\ Idle(actors', n) = {}
    BY <1>1, <2>1, <2>2, Rates, Room
  <2>4. answer'.decision = res.decision /\ answer'.stage = "actor"
    BY <2>2 DEF Answer
  <2> HIDE DEF res
  <2>5. /\ Entries(actors)' = Entries(actors') /\ Entries(sources)' = Entries(sources)
        /\ Idle(actors, lastNow)' = Idle(actors', n)
    BY <2>1 DEF Entries, Idle
  <2> QED BY <1>1, <2>3, <2>4, <2>5 DEF CapacityInv, CapacityFair, Busy
<1>4. ASSUME NEW p \in Permits, Release(p) PROVE CapacityInv'
  BY <1>1, <1>4 DEF Release, Unanswered, CapacityInv, CapacityFair, Entries
<1>5. CASE NoSlot
  BY <1>1, <1>5 DEF NoSlot, CapacityInv, CapacityFair, Entries
<1>6. CASE UNCHANGED limiterVars
  BY <1>6 DEF limiterVars, CapacityInv, CapacityFair, Busy, Entries, Idle
<1> QED BY <1>2, <1>3, <1>4, <1>5, <1>6 DEF LimiterNext

(* A pool stays within its maximum, and a new key is turned away only while *)
(* the pool is full of keys used within IdleTTL: the bounded cleanup in     *)
(* front of every request makes room whenever one entry is idle.            *)
THEOREM CapacitySafe == LimiterSpec => []CapacityFair
<1>1. LimiterTypeOK /\ CapacityInv /\ [LimiterNext]_limiterVars => CapacityInv'
  BY CapacityStep
<1>2. CapacityInv => CapacityFair
  BY DEF CapacityInv
<1> QED BY <1>1, <1>2, CapacityInit, LimiterTypeCorrect, PTL DEF LimiterSpec
==============================================================================
