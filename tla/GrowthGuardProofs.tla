-------------------------- MODULE GrowthGuardProofs --------------------------
(***************************************************************************)
(* What guards remember of mail fits the state they hold, the row          *)
(* satisfies its CHECKs, and leases are granted on the present size, for   *)
(* every set of commands, every threshold and every sequence of sizes.     *)
(***************************************************************************)
EXTENDS GrowthGuard, TLAPS

(* One row or one guard's copy of it. *)
AlertsInv(l) ==
    /\ l \in Alerts
    /\ l.pending \in {"none", alertKindForState[l.state]}
    /\ (l.lastKind = "none") = (l.lastAt = Null)
    /\ \/ l.pending = "none" /\ l.since = Null /\ l.retry = Null /\ l.attempt = 0
       \/ l.pending # "none" /\ l.since # Null /\ l.retry # Null

(* The present state is mailed, or going to be. *)
Announced(l) ==
    l.state # "normal" /\ l.pending = "none" => l.lastKind = alertKindForState[l.state]

GuardInv(g) ==
    /\ AlertsInv(g.loaded)
    /\ g.phase = "up" /\ g.email => Announced(g.loaded)

GuardsInv(gs) ==
    /\ gs \in [Processes -> Guard]
    /\ \A p \in Processes : GuardInv(gs[p])

LoopInv ==
    /\ loop \in Loops
    /\ loop.at = "send" => mail.kind \in Kinds

GrowthInv ==
    /\ pressure \in Pressures
    /\ now \in Instants
    /\ AlertsInv(row)
    /\ GuardsInv(guards)
    /\ LoopInv

-----------------------------------------------------------------------------
LEMMA KindOfState ==
    ASSUME NEW s \in States
    PROVE  alertKindForState[s] \in Kinds
  BY DEF States, Kinds, alertKindForState

LEMMA NoneIsNoKind == "none" \notin Kinds
  BY DEF Kinds

LEMMA HysteresisType ==
    ASSUME NEW q \in Nat, NEW s \in States
    PROVE  applyGrowthHysteresis(q, s) \in States
  BY DEF applyGrowthHysteresis, classifyGrowthState, States

(* A state that is not hard was sampled below the limit, and well below it  *)
(* after a hard one.                                                        *)
LEMMA HysteresisHard ==
    ASSUME NEW q \in Nat, NEW s \in States, applyGrowthHysteresis(q, s) # "hard"
    PROVE  q < HardPercent /\ (s = "hard" => q < HardPercent - Hysteresis)
<1>1. q < HardPercent
  BY GrowthAssumption
     DEF applyGrowthHysteresis, classifyGrowthState, growthRank, threshold, States,
         HardPercent, CriticalPercent, Hysteresis
<1>2. ASSUME s = "hard" PROVE q < HardPercent - Hysteresis
  <2>1. growthRank["hard"] = 3 /\ threshold["hard"] = HardPercent
    BY DEF growthRank, threshold
  <2>2. classifyGrowthState(q) \in {"normal", "warning", "critical"}
    BY <1>1 DEF classifyGrowthState, HardPercent, CriticalPercent
  <2>3. growthRank[classifyGrowthState(q)] < 3
    BY <2>2 DEF growthRank
  <2> QED
    BY <1>2, <2>1, <2>3 DEF applyGrowthHysteresis, HardPercent, Hysteresis
<1> QED BY <1>1, <1>2

LEMMA PendingType ==
    ASSUME NEW l \in Alerts, NEW k \in Kinds \cup {"none"},
           NEW t \in Instants \cup {Null}, NEW r \in Nat \cup {Null}, NEW n \in 0..3
    PROVE  [l EXCEPT !.pending = k, !.since = t, !.retry = r, !.attempt = n] \in Alerts
<1> DEFINE l1 == [l EXCEPT !.pending = k]
           l2 == [l1 EXCEPT !.since = t]
           l3 == [l2 EXCEPT !.retry = r]
<1>1. l1 \in Alerts
  BY DEF Alerts
<1>2. l2 \in Alerts
  <2> HIDE DEF l1
  <2> QED BY <1>1 DEF Alerts
<1>3. l3 \in Alerts
  <2> HIDE DEF l2
  <2> QED BY <1>2 DEF Alerts
<1>4. [l3 EXCEPT !.attempt = n] \in Alerts
  <2> HIDE DEF l3
  <2> QED BY <1>3 DEF Alerts
<1> QED BY <1>4

LEMMA ScheduledInv ==
    ASSUME NEW l, AlertsInv(l), NEW t \in Instants
    PROVE  /\ AlertsInv(Scheduled(l, t))
           /\ Announced(Scheduled(l, t))
           /\ Scheduled(l, t).state = l.state
<1>1. alertKindForState[l.state] \in Kinds
  BY KindOfState DEF AlertsInv, Alerts
<1>2. Scheduled(l, t) \in Alerts
  <2>1. t \in Nat
    BY GrowthAssumption DEF Instants
  <2>2. l \in Alerts
    BY DEF AlertsInv
  <2>3. /\ alertKindForState[l.state] \in Kinds \cup {"none"}
        /\ t \in Instants \cup {Null}
        /\ t \in Nat \cup {Null}
        /\ 0 \in 0..3
    BY <1>1, <2>1
  <2> QED BY <2>2, <2>3, PendingType, Zenon DEF Scheduled
<1>3. /\ Scheduled(l, t).pending = alertKindForState[l.state]
      /\ Scheduled(l, t).since = t
      /\ Scheduled(l, t).retry = t
      /\ Scheduled(l, t).state = l.state
      /\ Scheduled(l, t).lastKind = l.lastKind
      /\ Scheduled(l, t).lastAt = l.lastAt
  BY DEF AlertsInv, Alerts, Scheduled
<1>4. t # Null
  BY GrowthAssumption DEF Instants, Null
<1> QED BY <1>1, <1>2, <1>3, <1>4, NoneIsNoKind DEF AlertsInv, Announced

LEMMA ClearedInv ==
    ASSUME NEW l, l \in Alerts, (l.lastKind = "none") = (l.lastAt = Null)
    PROVE  AlertsInv(clearPending(l)) /\ clearPending(l).state = l.state
           /\ clearPending(l).lastKind = l.lastKind
<1>1. clearPending(l) \in Alerts
  <2>1. /\ "none" \in Kinds \cup {"none"}
        /\ Null \in Instants \cup {Null}
        /\ Null \in Nat \cup {Null}
        /\ 0 \in 0..3
    OBVIOUS
  <2> QED BY <2>1, PendingType, Zenon DEF clearPending
<1>2. /\ clearPending(l).pending = "none"
      /\ clearPending(l).since = Null
      /\ clearPending(l).retry = Null
      /\ clearPending(l).attempt = 0
      /\ clearPending(l).state = l.state
      /\ clearPending(l).lastKind = l.lastKind
      /\ clearPending(l).lastAt = l.lastAt
  BY DEF Alerts, clearPending
<1> QED BY <1>1, <1>2 DEF AlertsInv

(* A sample keeps the invariant of what a guard holds, and with mail        *)
(* enabled leaves nothing unannounced.                                      *)
LEMMA SampledInv ==
    ASSUME NEW l, AlertsInv(l), NEW q \in Nat, NEW email \in BOOLEAN, NEW t \in Instants
    PROVE  /\ AlertsInv(Sampled(l, q, email, t))
           /\ email => Announced(Sampled(l, q, email, t))
           /\ Sampled(l, q, email, t).state = applyGrowthHysteresis(q, l.state)
<1> DEFINE s == applyGrowthHysteresis(q, l.state)
           n == [l EXCEPT !.state = s]
           m == Transitioned(l, s, email, t)
<1>1. l.state \in States /\ s \in States
  BY HysteresisType DEF AlertsInv, Alerts
<1>2. /\ n \in Alerts
      /\ n.state = s
      /\ (n.lastKind = "none") = (n.lastAt = Null)
  BY <1>1 DEF AlertsInv, Alerts
<1>3. AlertsInv(m) /\ m.state = s
  <2>1. CASE s = l.state
    <3>1. n = l
      BY <2>1 DEF AlertsInv, Alerts
    <3> QED BY <2>1, <3>1 DEF Transitioned
  <2>2. CASE s # l.state /\ email
    <3>1. m = Scheduled(n, t)
      BY <2>2 DEF Transitioned
    <3>2. AlertsInv(clearPending(n)) /\ clearPending(n).state = s
      BY <1>2, ClearedInv
    <3>3. Scheduled(clearPending(n), t) = Scheduled(n, t)
      BY <1>2 DEF Scheduled, clearPending, Alerts
    <3> QED BY <3>1, <3>2, <3>3, ScheduledInv
  <2>3. CASE s # l.state /\ ~email
    <3>1. m = clearPending(n)
      BY <2>3 DEF Transitioned
    <3> QED BY <1>2, <3>1, ClearedInv
  <2> QED BY <2>1, <2>2, <2>3
<1>4. CASE email /\ AlertDue(m, t)
  <2>1. Sampled(l, q, email, t) = Scheduled(m, t)
    BY <1>4 DEF Sampled
  <2> QED BY <1>3, <2>1, ScheduledInv
<1>5. CASE ~(email /\ AlertDue(m, t))
  <2>1. Sampled(l, q, email, t) = m
    BY <1>5 DEF Sampled
  <2>2. email => Announced(m)
    BY <1>5 DEF AlertDue, Announced
  <2> QED BY <1>3, <2>1, <2>2
<1> QED BY <1>4, <1>5

-----------------------------------------------------------------------------
(* Changes of one field of one guard. *)

LEMMA SetLoaded ==
    ASSUME NEW gs, GuardsInv(gs), NEW p \in Processes, NEW l, AlertsInv(l),
           gs[p].email => Announced(l)
    PROVE  /\ GuardsInv([gs EXCEPT ![p].loaded = l])
           /\ \A q \in Processes : [gs EXCEPT ![p].loaded = l][q].held = gs[q].held
<1> DEFINE g == [gs[p] EXCEPT !.loaded = l]
<1>1. gs[p] \in Guard /\ l \in Alerts
  BY DEF GuardsInv, AlertsInv
<1>2. g \in Guard /\ g.loaded = l /\ g.email = gs[p].email /\ g.held = gs[p].held
  BY <1>1 DEF Guard
<1>3. GuardInv(g)
  BY <1>2 DEF GuardInv
<1> HIDE DEF g
<1> QED BY <1>2, <1>3 DEF GuardsInv, g

LEMMA SetHealthy ==
    ASSUME NEW gs, GuardsInv(gs), NEW p \in Processes, NEW h \in BOOLEAN
    PROVE  /\ GuardsInv([gs EXCEPT ![p].healthy = h])
           /\ \A q \in Processes : [gs EXCEPT ![p].healthy = h][q].held = gs[q].held
<1> DEFINE g == [gs[p] EXCEPT !.healthy = h]
<1>1. gs[p] \in Guard /\ GuardInv(gs[p])
  BY DEF GuardsInv
<1>2. /\ g \in Guard /\ g.loaded = gs[p].loaded /\ g.phase = gs[p].phase
      /\ g.email = gs[p].email /\ g.held = gs[p].held
  BY <1>1 DEF Guard
<1>3. GuardInv(g)
  BY <1>1, <1>2 DEF GuardInv
<1> HIDE DEF g
<1> QED BY <1>2, <1>3 DEF GuardsInv, g

LEMMA SetHeld ==
    ASSUME NEW gs, GuardsInv(gs), NEW p \in Processes, NEW b \in BOOLEAN
    PROVE  /\ GuardsInv([gs EXCEPT ![p].held = b])
           /\ \A q \in Processes :
                 [gs EXCEPT ![p].held = b][q].held => gs[q].held \/ (q = p /\ b)
<1> DEFINE g == [gs[p] EXCEPT !.held = b]
<1>1. gs[p] \in Guard /\ GuardInv(gs[p])
  BY DEF GuardsInv
<1>2. /\ g \in Guard /\ g.loaded = gs[p].loaded /\ g.phase = gs[p].phase
      /\ g.email = gs[p].email /\ g.held = b
  BY <1>1 DEF Guard
<1>3. GuardInv(g)
  BY <1>1, <1>2 DEF GuardInv
<1> HIDE DEF g
<1> QED BY <1>2, <1>3 DEF GuardsInv, g

(* A step grants a lease to at most p, and only if lease holds. *)
GrantsAtMost(p, lease) ==
    \A q \in Processes : guards'[q].held => guards[q].held \/ (q = p /\ lease)

LEMMA PersistInv ==
    ASSUME GrowthInv, NEW p \in Processes, NEW l, AlertsInv(l),
           guards[p].email => Announced(l), NEW lease \in BOOLEAN, Persist(p, l, lease)
    PROVE  AlertsInv(row)' /\ GuardsInv(guards)' /\ GrantsAtMost(p, lease)
<1> DEFINE g1 == [guards EXCEPT ![p].loaded = l]
           g2 == [g1 EXCEPT ![p].healthy = TRUE]
           g3 == [g2 EXCEPT ![p].held = lease]
           g4 == [g1 EXCEPT ![p].healthy = FALSE]
<1>1. GuardsInv(guards) /\ AlertsInv(row)
  BY DEF GrowthInv
<1>2. GuardsInv(g1) /\ \A q \in Processes : g1[q].held = guards[q].held
  BY <1>1, SetLoaded
<1> HIDE DEF g1
<1>3. GuardsInv(g2) /\ \A q \in Processes : g2[q].held = g1[q].held
  BY <1>2, SetHealthy
<1>4. GuardsInv(g4) /\ \A q \in Processes : g4[q].held = g1[q].held
  BY <1>2, SetHealthy
<1> HIDE DEF g2, g4
<1>5. GuardsInv(g3) /\ \A q \in Processes : g3[q].held => g2[q].held \/ (q = p /\ lease)
  BY <1>3, SetHeld
<1> HIDE DEF g3
<1>6. \/ row' = l /\ guards' = g3
      \/ row' = row /\ guards' = g4
  BY DEF Persist, g1, g2, g3, g4
<1>7. AlertsInv(row') /\ GuardsInv(guards')
  BY <1>1, <1>4, <1>5, <1>6
<1>8. GrantsAtMost(p, lease)
  BY <1>2, <1>3, <1>4, <1>5, <1>6 DEF GrantsAtMost
<1> QED BY <1>7, <1>8 DEF AlertsInv, GuardsInv, GuardInv, Announced

LEMMA SampleFailsInv ==
    ASSUME GrowthInv, NEW p \in Processes, SampleFails(p)
    PROVE  AlertsInv(row)' /\ GuardsInv(guards)' /\ GrantsAtMost(p, FALSE)
<1>1. GuardsInv(guards) /\ AlertsInv(row)
  BY DEF GrowthInv
<1>2. GuardsInv(guards') /\ \A q \in Processes : guards'[q].held = guards[q].held
  BY <1>1, SetHealthy DEF SampleFails
<1> QED BY <1>1, <1>2 DEF SampleFails, AlertsInv, GuardsInv, GuardInv, Announced, GrantsAtMost

(* What a guard makes of a sample of its own. *)
LEMMA OwnSample ==
    ASSUME GrowthInv, NEW p \in Processes, NEW q \in Pressures
    PROVE  LET l == Sampled(guards[p].loaded, q, guards[p].email, now) IN
           /\ AlertsInv(l)
           /\ guards[p].email => Announced(l)
           /\ l.state = applyGrowthHysteresis(q, guards[p].loaded.state)
           /\ guards[p].loaded.state \in States
<1>1. /\ AlertsInv(guards[p].loaded)
      /\ guards[p].email \in BOOLEAN
      /\ guards[p].loaded.state \in States
  BY DEF GrowthInv, GuardsInv, GuardInv, Guard, AlertsInv, Alerts
<1>2. q \in Nat /\ now \in Instants
  BY GrowthAssumption DEF GrowthInv
<1> QED BY <1>1, <1>2, SampledInv

LEMMA AcquireWriteInv ==
    ASSUME GrowthInv, NEW p \in Processes, AcquireWrite(p)
    PROVE  /\ AlertsInv(row)' /\ GuardsInv(guards)'
           /\ GrantsAtMost(p, applyGrowthHysteresis(pressure, guards[p].loaded.state) # "hard")
<1> DEFINE l == Sampled(guards[p].loaded, pressure, guards[p].email, now)
           lease == l.state # "hard"
<1>1. /\ AlertsInv(l) /\ (guards[p].email => Announced(l))
      /\ l.state = applyGrowthHysteresis(pressure, guards[p].loaded.state)
  <2>1. pressure \in Pressures
    BY DEF GrowthInv
  <2> QED BY <2>1, OwnSample
<1>2. \/ Persist(p, l, lease)
      \/ /\ guards' = [guards EXCEPT ![p].healthy = TRUE, ![p].held = lease]
         /\ row' = row
      \/ SampleFails(p)
  BY DEF AcquireWrite
<1>3. lease \in BOOLEAN
  OBVIOUS
<1> HIDE DEF l
<1>4. CASE Persist(p, l, lease)
  BY <1>1, <1>3, <1>4, PersistInv
<1>5. CASE /\ guards' = [guards EXCEPT ![p].healthy = TRUE, ![p].held = lease]
           /\ row' = row
  <2> DEFINE g1 == [guards EXCEPT ![p].healthy = TRUE]
  <2>1. GuardsInv(guards) /\ AlertsInv(row)
    BY DEF GrowthInv
  <2>2. GuardsInv(g1) /\ \A q \in Processes : g1[q].held = guards[q].held
    BY <2>1, SetHealthy
  <2> DEFINE g2 == [g1 EXCEPT ![p].held = lease]
  <2> HIDE DEF g1, lease
  <2>3. /\ GuardsInv(g2)
        /\ \A q \in Processes : g2[q].held => g1[q].held \/ (q = p /\ lease)
    BY <1>3, <2>2, SetHeld
  <2> HIDE DEF g2
  <2>4. guards' = g2
    BY <1>5 DEF g1, g2
  <2>5. GrantsAtMost(p, lease)
    BY <2>2, <2>3, <2>4 DEF GrantsAtMost
  <2>6. AlertsInv(row') /\ GuardsInv(guards')
    BY <1>5, <2>1, <2>3, <2>4
  <2>7. AlertsInv(row)' /\ GuardsInv(guards)'
    BY <2>6 DEF AlertsInv, GuardsInv, GuardInv, Announced
  <2> QED BY <1>1, <2>5, <2>7 DEF lease
<1>6. CASE SampleFails(p)
  BY <1>6, SampleFailsInv DEF GrantsAtMost
<1> QED BY <1>2, <1>4, <1>5, <1>6

(* A guard is replaced by one that holds no lease. *)
LEMMA ReplaceGuard ==
    ASSUME GrowthInv, NEW p \in Processes, NEW g \in Guard, GuardInv(g), g.held = FALSE,
           guards' = [guards EXCEPT ![p] = g], AlertsInv(row')
    PROVE  AlertsInv(row)' /\ GuardsInv(guards)' /\ GrantsAtMost(p, FALSE)
<1>1. GuardsInv(guards)
  BY DEF GrowthInv
<1>2. GuardsInv(guards') /\ GrantsAtMost(p, FALSE)
  BY <1>1 DEF GuardsInv, GrantsAtMost
<1> QED BY <1>2 DEF AlertsInv, GuardsInv, GuardInv, Announced

LEMMA LoadInv ==
    ASSUME GrowthInv, NEW p \in Processes, NEW email \in EmailSettings, Load(p, email)
    PROVE  AlertsInv(row)' /\ GuardsInv(guards)' /\ GrantsAtMost(p, FALSE)
<1> DEFINE g == [phase |-> "reading", email |-> email, loaded |-> row,
                 healthy |-> FALSE, held |-> FALSE]
<1>1. AlertsInv(row) /\ row \in Alerts /\ email \in BOOLEAN
  BY GrowthAssumption DEF GrowthInv, AlertsInv
<1>2. row' = row /\ guards' = [guards EXCEPT ![p] = g]
  BY DEF Load
<1>3. g \in Guard /\ GuardInv(g) /\ g.held = FALSE
  BY <1>1 DEF Guard, Phases, GuardInv
<1> HIDE DEF g
<1>4. AlertsInv(row')
  BY <1>1, <1>2
<1> QED BY <1>2, <1>3, <1>4, ReplaceGuard

LEMMA OpenInv ==
    ASSUME GrowthInv, NEW p \in Processes, Open(p)
    PROVE  AlertsInv(row)' /\ GuardsInv(guards)' /\ GrantsAtMost(p, FALSE)
<1> DEFINE l == Sampled(guards[p].loaded, pressure, guards[p].email, now)
           g == [phase |-> "up", email |-> guards[p].email, loaded |-> l,
                 healthy |-> TRUE, held |-> FALSE]
<1>1. pressure \in Pressures /\ guards[p].email \in BOOLEAN
  BY DEF GrowthInv, GuardsInv, Guard
<1>2. AlertsInv(l) /\ (guards[p].email => Announced(l))
  BY <1>1, OwnSample
<1>3. row' = l /\ guards' = [guards EXCEPT ![p] = g]
  BY DEF Open
<1> HIDE DEF l
<1>4. l \in Alerts
  BY <1>2 DEF AlertsInv
<1>5. g \in Guard /\ GuardInv(g) /\ g.held = FALSE
  BY <1>1, <1>2, <1>4 DEF Guard, Phases, GuardInv
<1> HIDE DEF g
<1>6. AlertsInv(row')
  BY <1>2, <1>3
<1> QED BY <1>3, <1>5, <1>6, ReplaceGuard

LEMMA MigratedInv == AlertsInv(Migrated) /\ Down \in Guard /\ GuardInv(Down) /\ Down.held = FALSE
<1>1. Migrated \in Alerts
  BY DEF Migrated, Alerts, States, Null
<1>2. AlertsInv(Migrated)
  BY <1>1 DEF AlertsInv, Migrated
<1>3. /\ Down \in Guard /\ Down.loaded = Migrated
      /\ Down.email = FALSE /\ Down.held = FALSE
  BY <1>1 DEF Down, Guard, Phases
<1> QED BY <1>2, <1>3 DEF GuardInv

LEMMA ExitInv ==
    ASSUME GrowthInv, NEW p \in Processes, Exit(p)
    PROVE  AlertsInv(row)' /\ GuardsInv(guards)' /\ GrantsAtMost(p, FALSE)
<1>1. row' = row /\ guards' = [guards EXCEPT ![p] = Down]
  BY DEF Exit
<1>2. AlertsInv(row')
  BY <1>1 DEF GrowthInv
<1> QED BY <1>1, <1>2, MigratedInv, ReplaceGuard

LEMMA ReleaseInv ==
    ASSUME GrowthInv, NEW p \in Processes, Release(p)
    PROVE  AlertsInv(row)' /\ GuardsInv(guards)' /\ GrantsAtMost(p, FALSE)
<1> DEFINE gs == [guards EXCEPT ![p].held = FALSE]
<1>1. AlertsInv(row) /\ GuardsInv(guards)
  BY DEF GrowthInv
<1>2. GuardsInv(gs) /\ \A q \in Processes : gs[q].held => guards[q].held
  BY <1>1, SetHeld
<1>3. row' = row /\ guards' = gs
  BY DEF Release
<1> HIDE DEF gs
<1>4. AlertsInv(row') /\ GuardsInv(guards') /\ GrantsAtMost(p, FALSE)
  BY <1>1, <1>2, <1>3 DEF GrantsAtMost
<1> QED BY <1>4 DEF AlertsInv, GuardsInv, GuardInv, Announced

LEMMA TickInv ==
    ASSUME GrowthInv, tick
    PROVE  AlertsInv(row)' /\ GuardsInv(guards)' /\ GrantsAtMost(Server, FALSE)
<1>0. Server \in Processes
  BY DEF Processes
<1>1. PICK q \in Pressures :
         \/ Persist(Server, Sampled(guards[Server].loaded, q, guards[Server].email, now), FALSE)
         \/ SampleFails(Server)
  BY DEF tick
<1> DEFINE l == Sampled(guards[Server].loaded, q, guards[Server].email, now)
<1>2. AlertsInv(l) /\ (guards[Server].email => Announced(l))
  BY <1>0, OwnSample
<1> HIDE DEF l
<1>3. CASE Persist(Server, l, FALSE)
  BY <1>0, <1>2, <1>3, PersistInv
<1>4. CASE SampleFails(Server)
  BY <1>0, <1>4, SampleFailsInv
<1> QED BY <1>1, <1>3, <1>4 DEF l

(* A delivery that is not superseded is about the state the server holds. *)
LEMMA CurrentDelivery ==
    ASSUME GrowthInv, loop.at = "send", ~Superseded
    PROVE  LET l == guards[Server].loaded IN
           /\ AlertsInv(l)
           /\ mail.kind \in Kinds
           /\ l.pending = mail.kind
           /\ mail.kind = alertKindForState[l.state]
<1> DEFINE l == guards[Server].loaded
<1>1. AlertsInv(l)
  BY DEF GrowthInv, GuardsInv, GuardInv, Processes
<1>2. mail.kind \in Kinds /\ l.pending = mail.kind
  BY DEF GrowthInv, LoopInv, Superseded
<1> HIDE DEF l
<1>3. mail.kind = alertKindForState[l.state]
  BY <1>1, <1>2, NoneIsNoKind DEF AlertsInv
<1> QED BY <1>1, <1>2, <1>3 DEF l

LEMMA DeliveredInv ==
    ASSUME NEW l, AlertsInv(l), mail.kind \in Kinds, mail.kind = alertKindForState[l.state],
           now \in Instants
    PROVE  AlertsInv(Delivered(l)) /\ Announced(Delivered(l))
<1> DEFINE l1 == [l EXCEPT !.lastKind = mail.kind]
           l2 == [l1 EXCEPT !.lastAt = now]
<1>1. l1 \in Alerts /\ l1.lastKind = mail.kind /\ l1.state = l.state
  BY DEF AlertsInv, Alerts
<1> HIDE DEF l1
<1>2. l2 \in Alerts /\ l2.lastKind = mail.kind /\ l2.lastAt = now /\ l2.state = l.state
  BY <1>1 DEF Alerts
<1>3. now # Null
  BY GrowthAssumption DEF Instants, Null
<1> HIDE DEF l2
<1>4. (l2.lastKind = "none") = (l2.lastAt = Null)
  BY <1>2, <1>3, NoneIsNoKind
<1>5. /\ AlertsInv(clearPending(l2))
      /\ clearPending(l2).state = l.state
      /\ clearPending(l2).lastKind = mail.kind
  BY <1>2, <1>4, ClearedInv
<1>6. Delivered(l) = clearPending(l2)
  BY DEF Delivered, l1, l2
<1> QED BY <1>5, <1>6 DEF Announced

LEMMA FailedInv ==
    ASSUME NEW l, AlertsInv(l), l.pending # "none", now \in Instants
    PROVE  AlertsInv(Failed(l)) /\ Announced(Failed(l))
<1> DEFINE n == IF l.attempt = 3 THEN 3 ELSE l.attempt + 1
           r == now + RetryDelay[l.attempt]
           l1 == [l EXCEPT !.attempt = n]
           l2 == [l1 EXCEPT !.retry = r]
<1>0. l.attempt \in 0..3
  BY DEF AlertsInv, Alerts
<1>1. n \in 0..3
  BY <1>0
<1>2. r \in Nat
  BY <1>0, GrowthAssumption DEF Instants
<1> HIDE DEF n, r
<1>3. /\ l1 \in Alerts /\ l1.state = l.state /\ l1.pending = l.pending /\ l1.since = l.since
      /\ l1.lastKind = l.lastKind /\ l1.lastAt = l.lastAt
  BY <1>1 DEF AlertsInv, Alerts
<1> HIDE DEF l1
<1>4. /\ l2 \in Alerts /\ l2.state = l.state /\ l2.pending = l.pending /\ l2.since = l.since
      /\ l2.lastKind = l.lastKind /\ l2.lastAt = l.lastAt /\ l2.retry = r
  BY <1>2, <1>3 DEF Alerts
<1> HIDE DEF l2
<1>5. r # Null
  BY <1>2 DEF Null
<1>6. AlertsInv(l2) /\ Announced(l2)
  BY <1>4, <1>5 DEF AlertsInv, Announced
<1>7. Failed(l) = l2
  BY DEF Failed, l1, l2, n, r
<1> QED BY <1>6, <1>7

LEMMA RecordedInv ==
    ASSUME GrowthInv, NEW l, AlertsInv(l), Announced(l), Recorded(l)
    PROVE  AlertsInv(row)' /\ GuardsInv(guards)' /\ GrantsAtMost(Server, FALSE)
<1> DEFINE g1 == [guards EXCEPT ![Server].loaded = l]
           g2 == [g1 EXCEPT ![Server].healthy = FALSE]
<1>0. Server \in Processes
  BY DEF Processes
<1>1. GuardsInv(guards) /\ AlertsInv(row)
  BY DEF GrowthInv
<1>2. GuardsInv(g1) /\ \A q \in Processes : g1[q].held = guards[q].held
  BY <1>0, <1>1, SetLoaded
<1> HIDE DEF g1
<1>3. GuardsInv(g2) /\ \A q \in Processes : g2[q].held = g1[q].held
  BY <1>0, <1>2, SetHealthy
<1> HIDE DEF g2
<1>4. row' \in {l, row} /\ guards' \in {g1, g2}
  BY DEF Recorded, g1, g2
<1>5. AlertsInv(row') /\ GuardsInv(guards') /\ GrantsAtMost(Server, FALSE)
  BY <1>1, <1>2, <1>3, <1>4 DEF GrantsAtMost
<1> QED BY <1>5 DEF AlertsInv, GuardsInv, GuardInv, Announced

-----------------------------------------------------------------------------
(* The invariant is inductive, and a lease is granted below the limit. *)

LEMMA GrowthInitial == GrowthInit => GrowthInv
<1> SUFFICES ASSUME GrowthInit PROVE GrowthInv
  OBVIOUS
<1>1. pressure \in Pressures /\ now \in Instants /\ LoopInv
  BY GrowthAssumption DEF GrowthInit, Instants, LoopInv, Loops, Started
<1>2. AlertsInv(row)
  BY MigratedInv DEF GrowthInit
<1>3. GuardsInv(guards)
  BY MigratedInv DEF GrowthInit, GuardsInv
<1> QED BY <1>1, <1>2, <1>3 DEF GrowthInv

Granted(p) == ~guards[p].held /\ guards'[p].held

Admitted ==
    \A p \in Processes :
        Granted(p) => applyGrowthHysteresis(pressure, guards[p].loaded.state) # "hard"

(* The parts of the invariant that every action keeps in the same way. *)
LEMMA NumbersInv ==
    ASSUME GrowthInv, GrowthNext
    PROVE  (pressure \in Pressures /\ now \in Instants /\ LoopInv)'
<1>1. pressure \in Pressures /\ now \in Instants /\ LoopInv
  BY DEF GrowthInv
<1>2. CASE \E p \in Processes : Open(p) \/ \E email \in EmailSettings : Load(p, email)
  BY <1>1, <1>2 DEF Open, Load, LoopInv, Instants
<1>3. CASE \E p \in Processes : AcquireWrite(p)
  <2>1. PICK p \in Processes : AcquireWrite(p)
    BY <1>3
  <2>2. /\ pressure' = pressure /\ now' = now /\ mail' = mail
        /\ loop' = [loop EXCEPT !.wake = loop.wake \/ Signals(p)]
    BY <2>1 DEF AcquireWrite
  <2>3. loop.wake \in BOOLEAN /\ loop \in Loops
    BY <1>1 DEF LoopInv, Loops
  <2>4. (loop.wake \/ Signals(p)) \in BOOLEAN
    BY <2>3
  <2>5. loop' \in Loops /\ loop'.at = loop.at
    BY <2>2, <2>3, <2>4 DEF Loops
  <2> QED BY <1>1, <2>2, <2>5 DEF LoopInv, Instants
<1>4. CASE \E p \in Processes : Release(p)
  BY <1>1, <1>4 DEF Release, Resize, LoopInv, Instants
<1>5. CASE \E p \in Processes : Exit(p)
  <2>1. /\ pressure' = pressure /\ now' = now
        /\ (loop' = Started \/ (loop' = loop /\ mail' = mail))
    BY <1>5 DEF Exit
  <2>2. Started \in Loops /\ Started.at = "process"
    BY DEF Loops, Started
  <2>3. LoopInv'
    BY <1>1, <2>1, <2>2 DEF LoopInv
  <2> QED BY <1>1, <2>1, <2>3 DEF Instants
<1>6. CASE tick
  <2>1. /\ pressure' \in Pressures /\ now' = now
        /\ loop' = [at   |-> IF guards'[Server].healthy THEN "process" ELSE "select",
                    wake |-> loop.wake \/ Signals(Server)]
    BY <1>6 DEF tick, Resize
  <2>2. (loop.wake \/ Signals(Server)) \in BOOLEAN
    BY <1>1 DEF LoopInv, Loops
  <2>3. loop' \in Loops /\ loop'.at # "send"
    BY <2>1, <2>2 DEF Loops
  <2> QED BY <1>1, <2>1, <2>3 DEF LoopInv, Instants
<1>7. CASE BeginDelivery
  <2>1. guards[Server].loaded.pending \in Kinds \cup {"none"}
    BY DEF GrowthInv, GuardsInv, GuardInv, AlertsInv, Alerts, Processes
  <2>2. /\ pressure' = pressure /\ now' = now
        /\ mail'.kind = guards[Server].loaded.pending
        /\ guards[Server].loaded.pending # "none"
        /\ loop' = [loop EXCEPT !.at = "send"]
    BY <1>7 DEF BeginDelivery, MailDue
  <2>3. mail'.kind \in Kinds
    BY <2>1, <2>2
  <2>4. loop' \in Loops
    BY <1>1, <2>2 DEF LoopInv, Loops
  <2> QED BY <1>1, <2>2, <2>3, <2>4 DEF LoopInv, Instants
<1>8. CASE RecordDelivery \/ RecordFailure \/ NothingDue
  <2>1. /\ pressure' = pressure /\ now' = now
        /\ loop' = [loop EXCEPT !.at = "select"]
    BY <1>8 DEF RecordDelivery, RecordFailure, NothingDue
  <2>2. loop' \in Loops /\ loop'.at = "select"
    BY <1>1, <2>1 DEF LoopInv, Loops
  <2> QED BY <1>1, <2>1, <2>2 DEF LoopInv, Instants
<1>9. CASE Wake
  BY <1>1, <1>9 DEF Wake, LoopInv, Loops, Instants
<1>10. CASE ClockAdvances
  BY <1>1, <1>10, GrowthAssumption DEF ClockAdvances, LoopInv, Instants
<1> QED BY <1>2, <1>3, <1>4, <1>5, <1>6, <1>7, <1>8, <1>9, <1>10 DEF GrowthNext

LEMMA AlertsStep ==
    ASSUME GrowthInv, GrowthNext
    PROVE  AlertsInv(row)' /\ GuardsInv(guards)' /\ Admitted
<1>1. ASSUME NEW p \in Processes, GrantsAtMost(p, FALSE) PROVE Admitted
  BY <1>1 DEF GrantsAtMost, Admitted, Granted
<1>2. ASSUME NEW p \in Processes, NEW email \in EmailSettings, Load(p, email)
      PROVE  AlertsInv(row)' /\ GuardsInv(guards)' /\ Admitted
  BY <1>1, <1>2, LoadInv
<1>13. ASSUME NEW p \in Processes, Open(p)
       PROVE  AlertsInv(row)' /\ GuardsInv(guards)' /\ Admitted
  BY <1>1, <1>13, OpenInv
<1>3. ASSUME NEW p \in Processes, AcquireWrite(p)
      PROVE  AlertsInv(row)' /\ GuardsInv(guards)' /\ Admitted
  BY <1>3, AcquireWriteInv DEF GrantsAtMost, Admitted, Granted
<1>4. ASSUME NEW p \in Processes, Release(p)
      PROVE  AlertsInv(row)' /\ GuardsInv(guards)' /\ Admitted
  BY <1>1, <1>4, ReleaseInv
<1>5. ASSUME NEW p \in Processes, Exit(p)
      PROVE  AlertsInv(row)' /\ GuardsInv(guards)' /\ Admitted
  BY <1>1, <1>5, ExitInv
<1>6. Server \in Processes
  BY DEF Processes
<1>7. CASE tick
  BY <1>1, <1>6, <1>7, TickInv
<1>8. CASE row' = row /\ guards' = guards
  <2>1. AlertsInv(row') /\ GuardsInv(guards')
    BY <1>8 DEF GrowthInv
  <2> QED BY <1>8, <2>1 DEF AlertsInv, GuardsInv, GuardInv, Announced, Admitted, Granted
<1>9. ASSUME loop.at = "send", ~Superseded,
             \/ Recorded(Delivered(guards[Server].loaded))
             \/ Recorded(Failed(guards[Server].loaded))
      PROVE  AlertsInv(row)' /\ GuardsInv(guards)' /\ Admitted
  <2> DEFINE l == guards[Server].loaded
  <2>1. /\ AlertsInv(l) /\ mail.kind \in Kinds /\ l.pending = mail.kind
        /\ mail.kind = alertKindForState[l.state]
    BY <1>9, CurrentDelivery
  <2>2. now \in Instants
    BY DEF GrowthInv
  <2> HIDE DEF l
  <2>3. AlertsInv(Delivered(l)) /\ Announced(Delivered(l))
    BY <2>1, <2>2, DeliveredInv
  <2>4. AlertsInv(Failed(l)) /\ Announced(Failed(l))
    BY <2>1, <2>2, FailedInv, NoneIsNoKind
  <2>5. AlertsInv(row)' /\ GuardsInv(guards)' /\ GrantsAtMost(Server, FALSE)
    BY <1>9, <2>3, <2>4, RecordedInv DEF l
  <2> QED BY <1>1, <1>6, <2>5
<1>10. CASE BeginDelivery \/ NothingDue \/ Wake \/ ClockAdvances
  BY <1>8, <1>10 DEF BeginDelivery, NothingDue, Wake, ClockAdvances
<1>11. CASE RecordDelivery
  BY <1>8, <1>9, <1>11 DEF RecordDelivery, Runs
<1>12. CASE RecordFailure
  BY <1>8, <1>9, <1>12 DEF RecordFailure, Runs
<1> QED BY <1>2, <1>3, <1>4, <1>5, <1>7, <1>10, <1>11, <1>12, <1>13 DEF GrowthNext

LEMMA GrowthStep ==
    ASSUME GrowthInv, [GrowthNext]_growthVars
    PROVE  GrowthInv' /\ Admitted
<1>1. CASE GrowthNext
  BY <1>1, NumbersInv, AlertsStep DEF GrowthInv
<1>2. CASE UNCHANGED growthVars
  <2>1. AlertsInv(row') /\ GuardsInv(guards')
    BY <1>2 DEF GrowthInv, growthVars
  <2>2. /\ pressure' \in Pressures /\ now' \in Instants /\ LoopInv'
        /\ Admitted
    BY <1>2 DEF GrowthInv, growthVars, LoopInv, Admitted, Granted
  <2> QED BY <2>1, <2>2 DEF GrowthInv, AlertsInv, GuardsInv, GuardInv, Announced, Instants
<1> QED BY <1>1, <1>2

-----------------------------------------------------------------------------
(* Whatever commands run beside the server, a mail that is pending is about *)
(* the state it is kept with, and a state that is not normal is reported or *)
(* going to be: AlertsTrackState of the guards, through sampleLocked and    *)
(* processPending.                                                          *)
THEOREM AlertsAlwaysTrackState == GrowthSpec => []AlertsTrackState
<1>1. GrowthInv => AlertsTrackState
  BY DEF GrowthInv, GuardsInv, GuardInv, AlertsInv, Announced, AlertsTrackState
<1>2. GrowthInv /\ [GrowthNext]_growthVars => GrowthInv'
  BY GrowthStep
<1> QED BY <1>1, <1>2, GrowthInitial, PTL DEF GrowthSpec

(* No guard ever writes a row that the CHECKs of migration 0007 refuse. *)
THEOREM RowAlwaysChecks == GrowthSpec => []GrowthRowChecks
<1>1. GrowthInv => GrowthRowChecks
  BY DEF GrowthInv, AlertsInv, GrowthRowChecks
<1>2. GrowthInv /\ [GrowthNext]_growthVars => GrowthInv'
  BY GrowthStep
<1> QED BY <1>1, <1>2, GrowthInitial, PTL DEF GrowthSpec

(* AcquireWrite grants a lease only below the limit at that moment, and     *)
(* with the hysteresis after a refusal, for any number of processes.        *)
THEOREM AdmissionAlwaysFresh == GrowthSpec => AdmissionFresh
<1> DEFINE Fresh ==
        \A p \in Processes :
           ~guards[p].held /\ guards'[p].held =>
              /\ pressure < HardPercent
              /\ guards[p].loaded.state = "hard" => pressure < HardPercent - Hysteresis
<1>1. GrowthInv /\ [GrowthNext]_growthVars => GrowthInv' /\ Fresh
  <2> SUFFICES ASSUME GrowthInv, [GrowthNext]_growthVars PROVE GrowthInv' /\ Fresh
    OBVIOUS
  <2>1. GrowthInv' /\ Admitted
    BY GrowthStep
  <2>2. pressure \in Nat /\ \A p \in Processes : guards[p].loaded.state \in States
    BY GrowthAssumption DEF GrowthInv, GuardsInv, GuardInv, AlertsInv, Alerts
  <2> QED BY <2>1, <2>2, HysteresisHard DEF Admitted, Granted
<1>2. Fresh => [Fresh]_growthVars
  OBVIOUS
<1> QED BY <1>1, <1>2, GrowthInitial, PTL DEF GrowthSpec, AdmissionFresh
=============================================================================
