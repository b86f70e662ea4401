-------------------------- MODULE MaintenanceProofs --------------------------
(***************************************************************************)
(* The serving process with its workers implements the repository: pages   *)
(* read before the database moved on, passes and pruning runs that fail or *)
(* are cut off by a restart leave the tables to steps RelayRepository      *)
(* allows, so its theorems hold while the workers run.  And the workers do *)
(* what they are for: a pruning run leaves no due relay behind, takes only *)
(* relays a check has failed for, and no page fails its own validation.    *)
(***************************************************************************)
EXTENDS Maintenance, RelayRepositoryProofs

RunFields == {"pc", "observed", "cursor", "page", "next", "scanned"}

(* A run at work has captured a second, and its page names actors. *)
Sane(run) ==
    /\ DOMAIN run = RunFields
    /\ run.pc # "waiting" => run.observed \in Instants
    /\ \A row \in run.page : row.actor \in Actors

GateSane == gate.ready => gate.observed \in Instants

SaneInv == Sane(pass) /\ Sane(prune) /\ GateSane

LEMMA SaneInit == MaintenanceInit => SaneInv
BY DEF MaintenanceInit, PassInit, PruneInit, NoRun, NotReady, SaneInv, Sane, GateSane, RunFields

LEMMA NoRunSane == Sane(NoRun)
BY DEF NoRun, Sane, RunFields

(* A run that begins, moves on to a page, or makes an attempt stays sane. *)
LEMMA BegunSane ==
    ASSUME NEW t \in Instants
    PROVE  Sane([NoRun EXCEPT !.pc = "read", !.observed = t])
BY DEF NoRun, Sane, RunFields

LEMMA OnwardSane ==
    ASSUME NEW run, Sane(run), run.pc # "waiting", NEW row, NEW budget
    PROVE  Sane(Onward(run, row, budget))
BY DEF Onward, Sane, RunFields

LEMMA PageSane ==
    ASSUME NEW run, Sane(run), run.pc # "waiting", NEW page, NEW next,
           \A row \in page : row.actor \in Actors
    PROVE  /\ Sane([run EXCEPT !.pc = "exhausted"])
           /\ Sane([run EXCEPT !.pc = "attempt", !.page = page, !.next = next])
BY DEF Sane, RunFields

LEMMA PassSane ==
    ASSUME SaneInv, [MaintenanceNext]_maintenanceVars
    PROVE  Sane(pass)'
<1>1. ASSUME NEW t \in Instants, BeginPass(t)
      PROVE  Sane(pass)'
  BY <1>1, BegunSane DEF BeginPass, Sane
<1>2. CASE ReadReachabilityPage
  <2>1. \A t, cursor, limit : \A row \in PageOf(AfterCursor(DueRows(t), cursor), limit) :
            row.actor \in Actors
    BY DEF PageOf, AfterCursor, DueRows
  <2>2. pass.pc = "read" /\ Sane(pass)
    BY <1>2 DEF ReadReachabilityPage, SaneInv
  <2> QED BY <1>2, <2>1, <2>2, PageSane DEF ReadReachabilityPage, PassRowsLeft, Sane
<1>3. CASE RecordResult
  BY <1>3, OnwardSane DEF RecordResult, SaneInv, Sane
<1>4. CASE pass' = NoRun
  BY <1>4, NoRunSane DEF Sane
<1>5. CASE UNCHANGED pass
  BY <1>5 DEF SaneInv, Sane
<1> QED
  BY <1>1, <1>2, <1>3, <1>4, <1>5
     DEF MaintenanceNext, PassBegins, PassStep, PassRecords, PassEnds, EndPass, PassFails,
         CoveredPruneBegins, UngatedPruneBegins, PruneBegins, PruneStep, Restart,
         Elsewhere, maintenanceVars, workerVars

LEMMA PruneSane ==
    ASSUME SaneInv, [MaintenanceNext]_maintenanceVars
    PROVE  Sane(prune)'
<1>1. ASSUME NEW t \in Instants, BeginPrune(t)
      PROVE  Sane(prune)'
  BY <1>1, BegunSane DEF BeginPrune, Sane
<1>2. CASE ReadPrunePage
  <2>1. \A t, cursor, limit : \A row \in PageOf(AfterCursor(PruneRows(t), cursor), limit) :
            row.actor \in Actors
    BY DEF PageOf, AfterCursor, PruneRows
  <2>2. prune.pc = "read" /\ Sane(prune)
    BY <1>2 DEF ReadPrunePage, SaneInv
  <2> QED BY <1>2, <2>1, <2>2, PageSane DEF ReadPrunePage, PruneRowsLeft, Sane
<1>3. CASE PruneNext
  BY <1>3, OnwardSane DEF PruneNext, SaneInv, Sane
<1>4. CASE prune' = NoRun
  BY <1>4, NoRunSane DEF Sane
<1>5. CASE UNCHANGED prune
  BY <1>5 DEF SaneInv, Sane
<1>6. CASE CoveredPruneBegins
  BY <1>1, <1>6 DEF CoveredPruneBegins, PruneBegins, Covered, SaneInv, GateSane
<1> QED
  BY <1>1, <1>2, <1>3, <1>4, <1>5, <1>6
     DEF MaintenanceNext, PassBegins, PassStep, PassRecords, PassEnds,
         UngatedPruneBegins, PruneBegins, PruneStep, PruneFails, EndPrune, Restart,
         Elsewhere, maintenanceVars, workerVars

LEMMA GateStep ==
    ASSUME SaneInv, [MaintenanceNext]_maintenanceVars
    PROVE  GateSane'
<1>1. ASSUME NEW now \in Instants, EndPass(now)
      PROVE  GateSane'
  BY <1>1 DEF EndPass, SaneInv, Sane, GateSane
<1>2. CASE gate' = NotReady
  BY <1>2 DEF NotReady, GateSane
<1>3. CASE UNCHANGED gate
  BY <1>3 DEF SaneInv, GateSane
<1> QED
  BY <1>1, <1>2, <1>3
     DEF MaintenanceNext, PassBegins, BeginPass, PassStep, ReadReachabilityPage,
         PassFails, PassRecords, RecordResult, PassEnds, CoveredPruneBegins,
         UngatedPruneBegins, PruneBegins, PruneStep, Restart, Elsewhere,
         maintenanceVars, workerVars

LEMMA SaneStep ==
    ASSUME SaneInv, [MaintenanceNext]_maintenanceVars
    PROVE  SaneInv'
BY PassSane, PruneSane, GateStep DEF SaneInv

-----------------------------------------------------------------------------
LEMMA WorkerStepImplements ==
    ASSUME SaneInv, [MaintenanceNext]_maintenanceVars
    PROVE  [Next]_vars
<1>1. CASE RecordResult
  <2>1. PICK row \in pass.page :
            \/ \E s \in Reached, i \in Inboxes \cup {NoInbox} :
                  RecordReachabilityObservation(row.actor, s, i, pass.observed)
            \/ UNCHANGED vars
    BY <1>1 DEF RecordResult, FirstOf
  <2>2. row.actor \in Actors /\ pass.observed \in Instants
    BY <1>1, <2>1 DEF RecordResult, SaneInv, Sane
  <2> QED BY <2>1, <2>2 DEF Next, ActorStep, ServiceStep
<1>2. CASE PruneNext
  <2>1. PICK row \in prune.page :
            SoftPrune(row.actor, prune.observed) \/ UNCHANGED vars
    BY <1>2 DEF PruneNext, FirstOf
  <2>2. row.actor \in Actors /\ prune.observed \in Instants
    BY <1>2, <2>1 DEF PruneNext, SaneInv, Sane
  <2> QED BY <2>1, <2>2 DEF Next, ActorStep, ServiceStep
<1>3. ASSUME NEW t \in Instants, NEW a \in Actors, ActorStep(a, t)
      PROVE  Next
  BY <1>3 DEF Next
<1>4. ASSUME NEW t \in Instants, NEW open \in BOOLEAN, SetEnrollment(open, t)
      PROVE  Next
  BY <1>4 DEF Next
<1>5. ASSUME NEW t \in Instants, NEW batch \in SUBSET PurgeCandidates(t),
             PurgeBatch(batch, t)
      PROVE  Next
  BY <1>5 DEF Next, PurgeStep
<1>6. CASE UNCHANGED vars
  BY <1>6
<1> QED
  BY <1>1, <1>2, <1>3, <1>4, <1>5, <1>6
     DEF MaintenanceNext, PassBegins, BeginPass, PassStep, ReadReachabilityPage,
         PassFails, PassRecords, PassEnds, EndPass, CoveredPruneBegins,
         UngatedPruneBegins, PruneBegins, BeginPrune, PruneStep, ReadPrunePage,
         PruneFails, EndPrune, Restart, Elsewhere, maintenanceVars

(* Workers acting on pages the database has moved past, failing or cut off  *)
(* by a restart never make the tables take a step of their own.             *)
THEOREM WorkersImplementRepository == MaintenanceSpec => Spec
BY SaneInit, SaneStep, WorkerStepImplements, PTL DEF MaintenanceSpec, Spec

(* While the workers run, no audit table runs backwards or disagrees with   *)
(* its relay, and no reachability page becomes unreadable.                  *)
THEOREM WorkersKeepAudit ==
    MaintenanceSpec => [](LifecycleAudited /\ AuditChronological /\ CandidatePageReadable)
BY WorkersImplementRepository, AuditSafe, AuditInOrder, PageSafe, PTL

-----------------------------------------------------------------------------
(* Exhaustion.  A relay that was due when the pruning run began and that    *)
(* nothing has changed since lies in the page in hand or ahead of the       *)
(* cursor, until the run itself has pruned it.                              *)

PruneRow(a) == [key |-> <<relays[a].seen, Rank[a]>>, actor |-> a]

StillDue(a) ==
    /\ PruneCandidate(a, prune.observed) /\ MonotonicTime(a, prune.observed)
    /\ prune.pc = "read" => Before(prune.cursor, PruneRow(a).key)
    /\ prune.pc = "attempt" =>
          \/ PruneRow(a) \in prune.page
          \/ prune.next # Start /\ Before(prune.next, PruneRow(a).key)

PruneOwed ==
    /\ owed \subseteq Actors
    /\ prune.scanned \in Nat
    /\ prune.pc \in {"read", "attempt"} => \A a \in owed : StillDue(a)
    /\ prune.pc = "read" => prune.scanned < PruneBudget
    /\ prune.pc = "attempt" =>
          /\ IsFiniteSet(prune.page) /\ prune.page # {}
          /\ prune.scanned + Cardinality(prune.page) <= PruneBudget
    /\ prune.pc = "exhausted" => owed = {}

LEMMA LimitLeft ==
    ASSUME NEW scanned \in Nat, NEW page \in Nat \ {0}, NEW budget \in Nat \ {0},
           scanned < budget
    PROVE  /\ Limit(scanned, page, budget) \in Nat \ {0}
           /\ scanned + Limit(scanned, page, budget) <= budget
BY DEF Limit

(* The rows of both workers are finitely many and in a strict order. *)
LEMMA ActorRows ==
    ASSUME NEW rows, \A row \in rows : row.actor \in Actors,
           \A row \in rows : \E i, j \in Int : row.key = <<i, j>> /\ j = Rank[row.actor],
           \A row, other \in rows : row.actor = other.actor => row = other
    PROVE  IsFiniteSet(rows) /\ Chain(rows)
<1> DEFINE f == [row \in rows |-> row.actor]
<1>1. f \in Injection(rows, Actors)
  BY DEF Injection, IsInjective
<1> HIDE DEF f
<1>2. IsFiniteSet(rows)
  BY <1>1, ActorsFinite, FS_Injection
<1>3. ASSUME NEW row \in rows, NEW other \in rows, row.key = other.key PROVE row = other
  <2>1. PICK i, j \in Int : row.key = <<i, j>> /\ j = Rank[row.actor]
    OBVIOUS
  <2>2. PICK k, l \in Int : other.key = <<k, l>> /\ l = Rank[other.actor]
    OBVIOUS
  <2>3. <<i, j>> = <<k, l>>
    BY <1>3, <2>1, <2>2
  <2>4. j = l
    BY <2>3
  <2>5. row.actor = other.actor
    BY <2>1, <2>2, <2>4, RankAssumption
  <2> QED BY <2>5
<1>4. Chain(rows)
  BY <1>3, PairChain
<1> QED BY <1>2, <1>4

LEMMA PruneRowsInOrder ==
    ASSUME TypeOK, NEW t, NEW cursor, NEW rows, rows = AfterCursor(PruneRows(t), cursor)
    PROVE  /\ IsFiniteSet(rows) /\ Chain(rows)
           /\ \A row \in rows : row.actor \in Actors /\ row = PruneRow(row.actor)
           /\ \A a \in Actors : PruneRow(a) \in rows <=>
                 PruneCandidate(a, t) /\ Before(cursor, PruneRow(a).key)
<1>1. ASSUME NEW row \in rows
      PROVE  /\ row.actor \in Actors /\ row = PruneRow(row.actor)
             /\ PruneCandidate(row.actor, t) /\ Before(cursor, row.key)
  BY DEF AfterCursor, PruneRows, PruneRow
<1>2. ASSUME NEW row \in rows
      PROVE  \E i, j \in Int : row.key = <<i, j>> /\ j = Rank[row.actor]
  <2>1. row.key = <<relays[row.actor].seen, Rank[row.actor]>>
    BY <1>1 DEF PruneRow
  <2>2. relays[row.actor].seen \in Int /\ Rank[row.actor] \in Int
    BY <1>1, RankAssumption DEF TypeOK, RelayRow, Stamp, Never
  <2> QED BY <2>1, <2>2
<1>3. \A row, other \in rows : row.actor = other.actor => row = other
  BY <1>1
<1>4. IsFiniteSet(rows) /\ Chain(rows)
  BY <1>1, <1>2, <1>3, ActorRows
<1>5. \A a \in Actors : PruneRow(a).actor = a
  BY DEF PruneRow
<1>6. ASSUME NEW a \in Actors, PruneCandidate(a, t), Before(cursor, PruneRow(a).key)
      PROVE  PruneRow(a) \in rows
  BY <1>6 DEF AfterCursor, PruneRows, PruneRow
<1> QED BY <1>1, <1>4, <1>5, <1>6

LEMMA PruneOwedInit == MaintenanceInit => PruneOwed
BY DEF MaintenanceInit, PruneInit, NoRun, PruneOwed

(* A relay nothing has changed stays due, where it was. *)
LEMMA PruneOwedStays ==
    ASSUME PruneOwed, prune' = prune, owed' = owed \ Disturbed
    PROVE  PruneOwed'
<1>1. ASSUME NEW a \in owed', prune.pc \in {"read", "attempt"}
      PROVE  StillDue(a)'
  <2>1. a \in Actors /\ a \notin Disturbed /\ StillDue(a)
    BY <1>1 DEF PruneOwed
  <2>2. /\ relays'[a] = relays[a] /\ relayEvents'[a] = relayEvents[a]
        /\ moderationEvents'[a] = moderationEvents[a] /\ observations'[a] = observations[a]
    BY <2>1 DEF Disturbed
  <2>3. PruneRow(a)' = PruneRow(a)
    BY <2>2 DEF PruneRow
  <2>4. /\ PruneCandidate(a, prune.observed) => PruneCandidate(a, prune.observed)'
        /\ MonotonicTime(a, prune.observed) => MonotonicTime(a, prune.observed)'
    BY <2>2 DEF PruneCandidate, MonotonicTime, FreshlyReachable
  <2> QED BY <2>1, <2>3, <2>4 DEF StillDue
<1> QED BY <1>1 DEF PruneOwed

LEMMA PruneOwedUnchanged ==
    ASSUME PruneOwed, prune' = prune, owed' = owed, UNCHANGED vars
    PROVE  PruneOwed'
<1>1. Disturbed = {}
  BY DEF Disturbed, vars
<1> QED BY <1>1, PruneOwedStays

LEMMA NoPruneOwed ==
    ASSUME prune' = NoRun, owed' \subseteq Actors
    PROVE  PruneOwed'
BY DEF NoRun, PruneOwed

LEMMA BeginPruneOwed ==
    ASSUME NEW t, PruneBegins(t)
    PROVE  PruneOwed'
<1>1. /\ prune'.pc = "read" /\ prune'.observed = t /\ prune'.cursor = Start
      /\ prune'.scanned = 0 /\ UNCHANGED vars
      /\ owed' = {a \in Actors : PruneCandidate(a, t) /\ MonotonicTime(a, t)}
  BY DEF PruneBegins, BeginPrune, NoRun
<1>2. ASSUME NEW a \in owed' PROVE StillDue(a)'
  <2>1. PruneCandidate(a, t) /\ MonotonicTime(a, t)
    BY <1>1
  <2>2. PruneCandidate(a, prune.observed)' /\ MonotonicTime(a, prune.observed)'
    BY <1>1, <2>1 DEF PruneCandidate, MonotonicTime, FreshlyReachable, vars
  <2>3. Before(Start, PruneRow(a)'.key)
    BY BeforeStart DEF PruneRow
  <2> QED BY <1>1, <2>2, <2>3 DEF StillDue
<1> QED BY <1>1, <1>2, PruneAssumption DEF PruneOwed

LEMMA ReadPruneOwed ==
    ASSUME TypeOK, Sane(prune), PruneOwed, ReadPrunePage, owed' = owed
    PROVE  PruneOwed'
<1> DEFINE limit == Limit(prune.scanned, PrunePage, PruneBudget)
           rows  == AfterCursor(PruneRows(prune.observed), prune.cursor)
           page  == PageOf(rows, limit)
           next  == NextCursor(rows, limit)
<1>1. prune.pc = "read" /\ UNCHANGED vars /\ DOMAIN prune = RunFields
  BY DEF ReadPrunePage, Sane
<1>2. limit \in Nat \ {0} /\ prune.scanned + limit <= PruneBudget
  BY <1>1, LimitLeft, PruneAssumption DEF PruneOwed
<1>3. prune' = IF page = {} THEN [prune EXCEPT !.pc = "exhausted"]
               ELSE [prune EXCEPT !.pc = "attempt", !.page = page, !.next = next]
  BY DEF ReadPrunePage, PruneLimit, PruneRowsLeft
<1> HIDE DEF limit
<1>4. /\ IsFiniteSet(rows) /\ Chain(rows)
      /\ \A a \in Actors : PruneRow(a) \in rows <=>
            PruneCandidate(a, prune.observed) /\ Before(prune.cursor, PruneRow(a).key)
  BY PruneRowsInOrder
<1>5. ASSUME NEW a \in owed PROVE a \in Actors /\ StillDue(a) /\ PruneRow(a) \in rows
  BY <1>1, <1>4 DEF PruneOwed, StillDue
<1> HIDE DEF rows
<1>6. CASE page = {}
  <2>1. rows = {}
    BY <1>2, <1>4, <1>6, PageProgress
  <2>2. owed' = {}
    BY <1>5, <2>1
  <2>3. prune'.pc = "exhausted" /\ prune'.scanned = prune.scanned
    BY <1>1, <1>3, <1>6 DEF RunFields
  <2> QED BY <2>2, <2>3 DEF PruneOwed
<1>7. CASE page # {}
  <2>1. /\ prune'.pc = "attempt" /\ prune'.page = page /\ prune'.next = next
        /\ prune'.scanned = prune.scanned /\ prune'.observed = prune.observed
    BY <1>1, <1>3, <1>7 DEF RunFields
  <2>2. IsFiniteSet(page) /\ Cardinality(page) <= limit
    BY <1>2, <1>4, PageBounded
  <2>3. Cardinality(page) \in Nat
    BY <2>2, FS_CardinalityType
  <2>4. prune.scanned + Cardinality(page) <= PruneBudget
    BY <1>2, <2>2, <2>3, PruneAssumption DEF PruneOwed
  <2>5. ASSUME NEW a \in owed' PROVE StillDue(a)'
    <3>1. StillDue(a) /\ PruneRow(a) \in rows
      BY <1>5
    <3>2. \/ PruneRow(a) \in page
          \/ next # Start /\ Before(next, PruneRow(a).key)
      BY <1>2, <1>4, <3>1, NextCovers
    <3>3. PruneRow(a)' = PruneRow(a)
      BY <1>1 DEF PruneRow, vars
    <3>4. PruneCandidate(a, prune.observed)' /\ MonotonicTime(a, prune.observed)'
      BY <1>1, <2>1, <3>1 DEF StillDue, PruneCandidate, MonotonicTime, FreshlyReachable, vars
    <3> HIDE DEF page, next
    <3> QED BY <2>1, <3>2, <3>3, <3>4 DEF StillDue
  <2> HIDE DEF page, next
  <2> QED BY <1>7, <2>1, <2>2, <2>4, <2>5 DEF PruneOwed
<1> QED BY <1>6, <1>7

LEMMA AttemptOwed ==
    ASSUME TypeOK, Sane(prune), PruneOwed, PruneNext, owed' = owed \ Disturbed
    PROVE  PruneOwed'
<1>1. PICK row \in FirstOf(prune.page) :
          /\ \/ SoftPrune(row.actor, prune.observed)
             \/ PruneSkipped(row.actor, prune.observed) /\ UNCHANGED vars
          /\ prune' = Onward(prune, row, PruneBudget)
  BY DEF PruneNext
<1> DEFINE rest == prune.page \ {row}
<1>2. /\ prune.pc = "attempt" /\ row \in prune.page /\ row.actor \in Actors
      /\ DOMAIN prune = RunFields /\ prune.scanned \in Nat /\ IsFiniteSet(prune.page)
      /\ prune.scanned + Cardinality(prune.page) <= PruneBudget
  BY <1>1 DEF PruneNext, FirstOf, Sane, PruneOwed
<1>3. row.actor \notin owed'
  <2>1. CASE SoftPrune(row.actor, prune.observed)
    <3>1. relays'[row.actor].lifecycle = "pruned" /\ relays[row.actor].lifecycle = "registered"
      BY <1>2, <2>1 DEF SoftPrune, PruneCandidate, Pruned, TypeOK, RelayRow
    <3>2. row.actor \in Disturbed
      BY <1>2, <3>1 DEF Disturbed
    <3> QED BY <3>2
  <2>2. CASE PruneSkipped(row.actor, prune.observed)
    <3>1. row.actor \notin owed
      BY <1>2, <2>2 DEF PruneSkipped, PruneOwed, StillDue
    <3> QED BY <3>1
  <2> QED BY <1>1, <2>1, <2>2
<1>4. /\ prune'.scanned = prune.scanned + 1 /\ prune'.observed = prune.observed
      /\ prune'.page = rest /\ prune'.next = prune.next
      /\ prune'.cursor = (IF rest = {} THEN prune.next ELSE prune.cursor)
      /\ prune'.pc = (IF rest # {} THEN "attempt"
                      ELSE IF prune.next = Start THEN "exhausted"
                      ELSE IF prune.scanned + 1 = PruneBudget THEN "truncated"
                      ELSE "read")
  BY <1>1, <1>2 DEF Onward, RunFields
<1>5. /\ IsFiniteSet(rest) /\ Cardinality(rest) = Cardinality(prune.page) - 1
      /\ Cardinality(rest) \in Nat
  <2>1. IsFiniteSet(rest) /\ Cardinality(rest) = Cardinality(prune.page) - 1
    BY <1>2, FS_RemoveElement
  <2> HIDE DEF rest
  <2> QED BY <2>1, FS_CardinalityType
<1>6. prune'.scanned \in Nat /\ prune'.scanned + Cardinality(rest) <= PruneBudget
  <2>1. Cardinality(prune.page) \in Nat
    BY <1>2, FS_CardinalityType
  <2> HIDE DEF rest
  <2> QED BY <1>2, <1>4, <1>5, <2>1, PruneAssumption
<1>7. ASSUME NEW a \in owed'
      PROVE  /\ a \in Actors
             /\ PruneRow(a)' = PruneRow(a)
             /\ PruneCandidate(a, prune.observed)' /\ MonotonicTime(a, prune.observed)'
             /\ \/ PruneRow(a) \in rest
                \/ prune.next # Start /\ Before(prune.next, PruneRow(a).key)
  <2>1. a \in Actors /\ a \notin Disturbed /\ StillDue(a)
    BY <1>2, <1>7 DEF PruneOwed
  <2>2. /\ relays'[a] = relays[a] /\ relayEvents'[a] = relayEvents[a]
        /\ moderationEvents'[a] = moderationEvents[a] /\ observations'[a] = observations[a]
    BY <2>1 DEF Disturbed
  <2>3. PruneRow(a)' = PruneRow(a)
    BY <2>2 DEF PruneRow
  <2>4. PruneCandidate(a, prune.observed)' /\ MonotonicTime(a, prune.observed)'
    BY <1>4, <2>1, <2>2 DEF StillDue, PruneCandidate, MonotonicTime, FreshlyReachable
  <2>5. PruneRow(a).actor = a /\ a # row.actor
    BY <1>3, <1>7 DEF PruneRow
  <2>6. PruneRow(a) # row
    BY <2>5
  <2> QED BY <1>2, <2>1, <2>3, <2>4, <2>6 DEF StillDue
<1> HIDE DEF rest
<1>8. ASSUME NEW a \in owed', prune'.pc \in {"read", "attempt"} PROVE StillDue(a)'
  <2>1. CASE rest = {}
    BY <1>4, <1>7, <1>8, <2>1 DEF StillDue
  <2>2. CASE rest # {}
    BY <1>4, <1>7, <1>8, <2>2 DEF StillDue
  <2> QED BY <2>1, <2>2
<1>9. prune'.pc = "exhausted" => owed' = {}
  BY <1>4, <1>7
<1>10. prune'.pc = "read" => prune'.scanned < PruneBudget
  BY <1>4, <1>5, <1>6, PruneAssumption
<1>11. prune'.pc = "attempt" => rest # {}
  BY <1>4
<1>12. owed' \subseteq Actors
  BY <1>7
<1> QED BY <1>4, <1>5, <1>6, <1>8, <1>9, <1>10, <1>11, <1>12 DEF PruneOwed

LEMMA PruneOwedStep ==
    ASSUME TypeOK, SaneInv, PruneOwed, [MaintenanceNext]_maintenanceVars
    PROVE  PruneOwed'
<1>1. Sane(prune)
  BY DEF SaneInv
<1>2. CASE PassBegins
  BY <1>2, PruneOwedUnchanged DEF PassBegins, BeginPass
<1>3. CASE PassStep
  <2>1. CASE PassRecords
    BY <2>1, PruneOwedStays DEF PassRecords
  <2>2. CASE PassEnds
    BY <2>2, PruneOwedUnchanged DEF PassEnds, EndPass
  <2>3. CASE (ReadReachabilityPage \/ PassFails) /\ UNCHANGED <<enabled, prune, late, owed>>
    <3>1. UNCHANGED vars
      BY <2>3 DEF ReadReachabilityPage, PassFails
    <3> QED BY <2>3, <3>1, PruneOwedUnchanged
  <2> QED BY <1>3, <2>1, <2>2, <2>3 DEF PassStep
<1>4. CASE CoveredPruneBegins \/ UngatedPruneBegins
  BY <1>4, BeginPruneOwed DEF CoveredPruneBegins, UngatedPruneBegins
<1>5. CASE PruneStep
  <2>1. CASE ReadPrunePage /\ UNCHANGED <<enabled, pass, gate, late, owed>>
    BY <1>1, <2>1, ReadPruneOwed
  <2>2. CASE PruneNext /\ owed' = owed \ Disturbed
    BY <1>1, <2>2, AttemptOwed
  <2>3. CASE (PruneFails \/ EndPrune) /\ UNCHANGED <<enabled, pass, gate, late, owed>>
    <3>1. prune' = NoRun /\ owed' \subseteq Actors
      BY <2>3 DEF PruneFails, EndPrune, PruneOwed
    <3> QED BY <3>1, NoPruneOwed
  <2> QED BY <1>5, <2>1, <2>2, <2>3 DEF PruneStep
<1>6. CASE Restart
  BY <1>6, NoPruneOwed DEF Restart
<1>7. CASE prune' = prune /\ owed' = owed \ Disturbed
  BY <1>7, PruneOwedStays
<1>8. CASE UNCHANGED maintenanceVars
  BY <1>8, PruneOwedUnchanged DEF maintenanceVars, workerVars
<1> QED
  BY <1>2, <1>3, <1>4, <1>5, <1>6, <1>7, <1>8 DEF MaintenanceNext, Elsewhere

(* A pruning run that ends with its candidates exhausted has pruned every   *)
(* relay that was due when it began and that nothing has changed since,     *)
(* however requests and the reachability worker move relays in the order it *)
(* pages by.                                                                *)
THEOREM PruneExhaustive == MaintenanceSpec => []PruneIsExhaustive
<1>1. PruneOwed => PruneIsExhaustive
  BY DEF PruneOwed, PruneIsExhaustive
<1>2. MaintenanceSpec => []TypeOK
  BY WorkersImplementRepository, TypeCorrect, PTL
<1> QED
  BY <1>1, <1>2, SaneInit, SaneStep, PruneOwedInit, PruneOwedStep, PTL DEF MaintenanceSpec


-----------------------------------------------------------------------------
(* Coverage.  What pruning must not meet: a relay it would take although    *)
(* no check of it has failed, told from the rows of the actor.              *)

UnsafeRow(r, e, m, o, g, t) ==
    /\ r.lifecycle = "registered" /\ r.admin = "active"
    /\ r.seen <= t - DeadBefore
    /\ t >= r.updated /\ t >= r.seen /\ t >= e.latest /\ t >= m.latest
    /\ o.state # "unreachable"
    /\ ~(o.state = "reachable" /\ o.success >= t - ReachabilityFreshness)
    /\ ~(o.state = "reachable" /\ g.updated = o.checked /\ g.streak > 0)

Unsafe(a, t) ==
    UnsafeRow(relays[a], relayEvents[a], moderationEvents[a], observations[a],
              diagnostics[a], t)

(* A step makes no relay unsafe at t, and leaves the check time of one that *)
(* is: the place it has in the order of the pass.                           *)
Kept(a, t) ==
    UnsafeRow(relays'[a], relayEvents'[a], moderationEvents'[a], observations'[a],
              diagnostics'[a], t)
    => Unsafe(a, t) /\ observations'[a].checked = observations[a].checked

LEMMA PruneTakesUnsafe ==
    ASSUME NEW a \in Actors, NEW t, PruneCandidate(a, t), MonotonicTime(a, t),
           relays[a].admin = "active"
    PROVE  \/ observations[a].state = "unreachable"
           \/ FailureOverwritten(a)
           \/ Unsafe(a, t)
BY DEF PruneCandidate, MonotonicTime, FreshlyReachable, FailureOverwritten, Unsafe, UnsafeRow

(* A pass as of t finds every unsafe relay due: it was never checked, or    *)
(* its success is stale and the deadline set with it is over.               *)
LEMMA UnsafeIsDue ==
    ASSUME IInv, NEW a \in Actors, NEW t \in Instants, Unsafe(a, t)
    PROVE  ReachabilityDue(a, t)
<1> DEFINE o == observations[a]
           g == diagnostics[a]
<1>1. /\ o.state # "unreachable"
      /\ ~(o.state = "reachable" /\ o.success >= t - ReachabilityFreshness)
      /\ ~(o.state = "reachable" /\ g.updated = o.checked /\ g.streak > 0)
  BY DEF Unsafe, UnsafeRow
<1>2. ReachabilityEligible(a)
  BY DEF Unsafe, UnsafeRow, ReachabilityEligible
<1>3. /\ t \in Nat /\ o.checked \in Stamp /\ o.success \in Stamp
      /\ g.updated \in Stamp /\ g.next \in Stamp /\ g.streak \in Nat
  BY InstantType DEF IInv, TypeOK, ObservationRow, DiagnosticRow, MaximumFailureStreak
<1>4. CASE o.checked = Never
  BY <1>2, <1>4 DEF ReachabilityDue
<1>5. CASE o.checked # Never
  <2>1. o.state = "reachable" /\ o.success = o.checked
    BY <1>1, <1>5 DEF IInv, ActorInv, ObservationInv, ObservationChecks, NoObservation,
                      TypeOK, ObservationRow
  <2> HIDE DEF o, g
  <2>2. o.checked < t - ReachabilityFreshness
    BY <1>1, <1>3, <2>1, DurationAssumption DEF Stamp, Never
  <2>3. CASE g.updated # o.checked
    BY <1>2, <2>1, <2>2, <2>3 DEF ReachabilityDue, o, g
  <2>4. CASE g.updated = o.checked
    <3>1. g.streak = 0
      BY <1>1, <1>3, <2>1, <2>4
    <3>2. g.next = g.updated + ReachabilityFreshness
      BY <1>5, <2>4, <3>1 DEF IInv, ActorInv, DiagnosticInv, g
    <3>3. g.next <= t
      BY <1>3, <2>2, <2>4, <3>2, DurationAssumption DEF Stamp, Never
    <3> QED BY <1>2, <1>5, <2>4, <3>3 DEF ReachabilityDue, HasDiagnostic, o, g
  <2> QED BY <2>3, <2>4
<1> QED BY <1>4, <1>5

LEMMA KeptUntouched ==
    ASSUME NEW a, NEW t,
           relays'[a] = relays[a], relayEvents'[a] = relayEvents[a],
           moderationEvents'[a] = moderationEvents[a], observations'[a] = observations[a],
           diagnostics'[a] = diagnostics[a]
    PROVE  Kept(a, t)
BY DEF Kept, Unsafe

LEMMA KeptUnchanged ==
    ASSUME UNCHANGED vars, NEW a, NEW t
    PROVE  Kept(a, t)
BY DEF Kept, Unsafe, vars

(* A transition records its event; a relay it leaves behind is not unsafe   *)
(* at any earlier time.                                                     *)
LEMMA KeptByTransition ==
    ASSUME TypeOK, NEW a \in Actors, NEW t \in Instants, NEW before \in Instants, before < t,
           \/ \E k : relayEvents'[a] = Recorded(relayEvents[a], k, t)
           \/ \E k : moderationEvents'[a] = Recorded(moderationEvents[a], k, t)
    PROVE  Kept(a, before)
<1>1. before \in Nat /\ t \in Nat
  BY InstantType
<1>2. ASSUME NEW Kind, NEW ledger \in Ledger(Kind), NEW k
      PROVE  ~(before >= Recorded(ledger, k, t).latest)
  <2>1. t <= Recorded(ledger, k, t).latest
    BY RecordedChronological
  <2>2. Recorded(ledger, k, t).latest \in Int
    BY <1>1 DEF Recorded, Ledger, Later, Stamp, Never
  <2> QED BY <1>1, <2>1, <2>2
<1>3. /\ relayEvents[a] \in Ledger(RelayEventKind)
      /\ moderationEvents[a] \in Ledger(ModerationAction)
  BY DEF TypeOK
<1>4. \/ ~(before >= relayEvents'[a].latest)
      \/ ~(before >= moderationEvents'[a].latest)
  BY <1>2, <1>3
<1> QED BY <1>4 DEF Kept, UnsafeRow

(* A check leaves a fresh success or a failure behind. *)
LEMMA CheckedNotUnsafe ==
    ASSUME NEW r, NEW e, NEW m, NEW g, NEW o, NEW t \in Instants, NEW before \in Instants,
           before <= t, o.state = "unreachable" \/ (o.state = "reachable" /\ o.success = t)
    PROVE  ~UnsafeRow(r, e, m, o, g, before)
<1>1. before \in Nat /\ t \in Nat
  BY InstantType
<1>2. t >= before - ReachabilityFreshness
  BY <1>1, DurationAssumption
<1> QED BY <1>2 DEF UnsafeRow

LEMMA CheckLeaves ==
    ASSUME TypeOK, NEW a \in Actors, NEW t \in Instants, NEW s \in Reached,
           NEW i \in Inboxes \cup {NoInbox}, NEW probed
    PROVE  LET o == Checked(ObservationAt(a, t), s, i, probed, t)
           IN  /\ o.state = "unreachable" \/ (o.state = "reachable" /\ o.success = t)
               /\ o.checked = t
<1> DEFINE p == ObservationAt(a, t)
<1>1. p \in ObservationRow
  BY ObservationAtType
<1> HIDE DEF p
<1>2. /\ \/ Checked(p, s, i, probed, t).state = "unreachable"
         \/ /\ Checked(p, s, i, probed, t).state = "reachable"
            /\ Checked(p, s, i, probed, t).success = t
      /\ Checked(p, s, i, probed, t).checked = t
  BY <1>1 DEF Checked, ObservationRow, Reached
<1> QED BY <1>2 DEF p

LEMMA KeptByActorStep ==
    ASSUME IInv, NEW b \in Actors, NEW t \in Instants, ActorStep(b, t),
           NEW a \in Actors, NEW before \in Instants, before < t \/ a \notin Disturbed
    PROVE  Kept(a, before)
<1>0. TypeOK
  BY DEF IInv
<1>1. CASE a # b
  BY <1>0, <1>1, OthersUntouched, KeptUntouched DEF RowsUntouched
<1>2. CASE a = b /\ a \notin Disturbed
  <2>1. /\ relays'[a] = relays[a] /\ relayEvents'[a] = relayEvents[a]
        /\ moderationEvents'[a] = moderationEvents[a] /\ observations'[a] = observations[a]
    BY <1>2 DEF Disturbed
  <2>2. diagnostics'[a] = diagnostics[a]
    <3>1. ASSUME NEW s \in Reached, NEW i \in Inboxes \cup {NoInbox},
                 RecordReachabilityObservation(a, s, i, t)
          PROVE  FALSE
      <4>1. observations'[a] = Checked(ObservationAt(a, t), s, i, t, t)
        BY <1>0, <3>1 DEF RecordReachabilityObservation, TypeOK
      <4>2. observations[a].checked = t
        BY <1>0, <2>1, <4>1, CheckLeaves
      <4>3. observations[a].checked < t /\ t \in Nat
        BY <3>1, InstantType DEF RecordReachabilityObservation
      <4> QED BY <4>2, <4>3
    <3> QED
      BY <1>2, <3>1 DEF ActorStep, ServiceStep, Register, Heartbeat, Unregister, Suspend,
         Restore, Moderate, AddDiscovery, RemoveDiscovery, RecordActorObservation,
         RecordInboxObservation, SoftPrune, PromoteDiscovery
  <2> QED BY <2>1, <2>2, KeptUntouched
<1>3. CASE a = b /\ before < t
  <2>1. CASE Register(a, t) \/ Heartbeat(a, t) \/ Unregister(a, t) \/ SoftPrune(a, t)
    <3>1. \E k : relayEvents'[a] = Recorded(relayEvents[a], k, t)
      BY <1>0, <2>1 DEF Register, Heartbeat, Unregister, SoftPrune, TypeOK
    <3> QED BY <1>0, <1>3, <3>1, KeptByTransition
  <2>2. ASSUME NEW target, Moderate(a, target, t) PROVE Kept(a, before)
    <3>1. \E k : moderationEvents'[a] = Recorded(moderationEvents[a], k, t)
      BY <1>0, <2>2 DEF Moderate, TypeOK
    <3> QED BY <1>0, <1>3, <3>1, KeptByTransition
  <2>3. CASE AddDiscovery(a, t) \/ RemoveDiscovery(a, t)
    BY <2>3, KeptUntouched DEF AddDiscovery, RemoveDiscovery
  <2>4. before <= t
    BY <1>3, InstantType
  <2>5. ASSUME NEW s \in Reached, NEW i \in Inboxes \cup {NoInbox}, NEW probed,
               observations'[a] = Checked(ObservationAt(a, t), s, i, probed, t)
        PROVE  Kept(a, before)
    BY <1>0, <2>4, <2>5, CheckLeaves, CheckedNotUnsafe DEF Kept
  <2>6. ASSUME NEW s \in Reached, NEW i \in Inboxes \cup {NoInbox},
               RecordActorObservation(a, s, i, t) \/ RecordReachabilityObservation(a, s, i, t)
        PROVE  Kept(a, before)
    BY <1>0, <2>5, <2>6 DEF RecordActorObservation, RecordReachabilityObservation, TypeOK
  <2>7. ASSUME NEW i \in Inboxes, RecordInboxObservation(a, i, t)
        PROVE  Kept(a, before)
    <3> DEFINE o == observations[a]
    <3>1. /\ observations'[a] = InboxProbed(o, t)
          /\ relays'[a] = relays[a] /\ relayEvents'[a] = relayEvents[a]
          /\ moderationEvents'[a] = moderationEvents[a] /\ diagnostics'[a] = diagnostics[a]
          /\ o \in ObservationRow
      BY <1>0, <2>7 DEF RecordInboxObservation, TypeOK
    <3> HIDE DEF o
    <3>2. /\ InboxProbed(o, t).state = o.state /\ InboxProbed(o, t).checked = o.checked
          /\ InboxProbed(o, t).success = o.success
      BY <3>1 DEF InboxProbed, ObservationRow
    <3> QED BY <3>1, <3>2 DEF Kept, Unsafe, UnsafeRow, o
  <2>8. ASSUME NEW i \in Inboxes \cup {NoInbox}, PromoteDiscovery(a, i, t)
        PROVE  Kept(a, before)
    <3>1. observations'[a] = Promoted(ObservationAt(a, t), i, t)
      BY <1>0, <2>8 DEF PromoteDiscovery, TypeOK
    <3>2. observations'[a].state = "reachable" /\ observations'[a].success = t
      BY <1>0, <3>1, PromotedFields, ObservationAtType
    <3> QED BY <2>4, <3>2, CheckedNotUnsafe DEF Kept
  <2> QED
    BY <1>3, <2>1, <2>2, <2>3, <2>6, <2>7, <2>8 DEF ActorStep, ServiceStep, Suspend, Restore
<1> QED BY <1>1, <1>2, <1>3

(* Hard retention takes relays that are not registered, and observations    *)
(* that have no relay.                                                      *)
LEMMA KeptByPurge ==
    ASSUME IInv, NEW batch, NEW cutoff, PurgeBatch(batch, cutoff), NEW a \in Actors, NEW t
    PROVE  Kept(a, t)
<1>1. PICK lifecycle, discovery, unowned \in SUBSET Actors :
              /\ PurgedRows(lifecycle, discovery, unowned)
              /\ unowned = UnownedActors(lifecycle, discovery)
  BY PurgeBatchRows
<1>2. CASE relays'[a].lifecycle # "registered"
  BY <1>2 DEF Kept, UnsafeRow
<1>3. CASE relays'[a].lifecycle = "registered"
  <2>1. a \notin lifecycle
    BY <1>1, <1>3 DEF PurgedRows, NoRelay
  <2>2. relays[a].lifecycle = "registered"
    BY <1>1, <1>3, <2>1 DEF PurgedRows
  <2>3. a \notin unowned
    BY <1>1, <2>1, <2>2 DEF UnownedActors, HasRelay
  <2> QED BY <1>1, <2>1, <2>3, KeptUntouched DEF PurgedRows
<1> QED BY <1>2, <1>3


-----------------------------------------------------------------------------
(* A pass has an unsafe relay still ahead of it, unless a transaction with  *)
(* an older time has changed the relay meanwhile; a pass that has exhausted *)
(* the due set leaves none to the gate, nor the gate to the pruning run.    *)

CheckRow(a) == [key |-> <<observations[a].checked, Rank[a]>>, actor |-> a]

AheadOfPass(a) ==
    /\ pass.pc # "exhausted"
    /\ pass.pc = "read" => Before(pass.cursor, CheckRow(a).key)
    /\ pass.pc = "attempt" =>
          \/ CheckRow(a) \in pass.page
          \/ pass.next # Start /\ Before(pass.next, CheckRow(a).key)

PassCovers ==
    /\ pass.scanned \in Nat
    /\ pass.pc \in {"read", "attempt", "exhausted"} =>
          \A a \in Actors \ late.pass : Unsafe(a, pass.observed) => AheadOfPass(a)
    /\ pass.pc = "read" => pass.scanned < ReachabilityBudget
    /\ pass.pc = "attempt" =>
          /\ IsFiniteSet(pass.page) /\ pass.page # {}
          /\ pass.scanned + Cardinality(pass.page) <= ReachabilityBudget

GateCovers == gate.ready => \A a \in Actors \ late.gate : ~Unsafe(a, gate.observed)

PruneCovered ==
    enabled /\ prune.pc # "waiting" =>
        \A a \in Actors \ late.prune : ~Unsafe(a, prune.observed)

CoverInv ==
    /\ DOMAIN late = {"pass", "gate", "prune"}
    /\ PassCovers
    /\ GateCovers
    /\ PruneCovered

LEMMA CoverInit == MaintenanceInit => CoverInv
BY DEF MaintenanceInit, PassInit, PruneInit, NoRun, NotReady, CoverInv, PassCovers,
       GateCovers, PruneCovered

LEMMA LateStep ==
    ASSUME DOMAIN late = {"pass", "gate", "prune"}, [MaintenanceNext]_maintenanceVars
    PROVE  DOMAIN late' = {"pass", "gate", "prune"}
BY DEF MaintenanceNext, PassBegins, PassStep, PassRecords, PassEnds, CoveredPruneBegins,
       UngatedPruneBegins, PruneBegins, PruneStep, Restart, Elsewhere, maintenanceVars,
       workerVars

(* What each of the three needs of a step that leaves its own run alone. *)
LEMMA PassCoversKept ==
    ASSUME PassCovers, pass' = pass,
           \A a \in Actors : a \notin late'.pass /\ pass.pc # "waiting" =>
               a \notin late.pass /\ Kept(a, pass.observed)
    PROVE  PassCovers'
<1>1. ASSUME NEW a \in Actors, a \notin late'.pass, Unsafe(a, pass.observed)',
             pass.pc \in {"read", "attempt", "exhausted"}
      PROVE  AheadOfPass(a)'
  <2>1. /\ UnsafeRow(relays'[a], relayEvents'[a], moderationEvents'[a], observations'[a],
                     diagnostics'[a], pass.observed)
        /\ a \notin late.pass /\ Kept(a, pass.observed)
    BY <1>1 DEF Unsafe
  <2>2. Unsafe(a, pass.observed) /\ observations'[a].checked = observations[a].checked
    BY <2>1 DEF Kept
  <2>3. AheadOfPass(a) /\ CheckRow(a)' = CheckRow(a)
    BY <1>1, <2>1, <2>2 DEF PassCovers, CheckRow
  <2> QED BY <2>3 DEF AheadOfPass
<1> QED BY <1>1 DEF PassCovers

LEMMA GateCoversKept ==
    ASSUME GateCovers, gate' = gate,
           \A a \in Actors : a \notin late'.gate /\ gate.ready =>
               a \notin late.gate /\ Kept(a, gate.observed)
    PROVE  GateCovers'
<1>1. ASSUME NEW a \in Actors, a \notin late'.gate, Unsafe(a, gate.observed)', gate.ready
      PROVE  FALSE
  <2>1. /\ UnsafeRow(relays'[a], relayEvents'[a], moderationEvents'[a], observations'[a],
                     diagnostics'[a], gate.observed)
        /\ a \notin late.gate /\ Kept(a, gate.observed)
    BY <1>1 DEF Unsafe
  <2>2. Unsafe(a, gate.observed)
    BY <2>1 DEF Kept
  <2> QED BY <1>1, <2>1, <2>2 DEF GateCovers
<1> QED BY <1>1 DEF GateCovers

LEMMA PruneCoveredKept ==
    ASSUME PruneCovered, prune'.pc # "waiting" => prune.pc # "waiting",
           prune'.pc # "waiting" => prune'.observed = prune.observed, enabled' = enabled,
           \A a \in Actors : a \notin late'.prune /\ prune.pc # "waiting" =>
               a \notin late.prune /\ Kept(a, prune.observed)
    PROVE  PruneCovered'
<1>1. ASSUME NEW a \in Actors, a \notin late'.prune, Unsafe(a, prune.observed)', enabled,
             prune'.pc # "waiting"
      PROVE  FALSE
  <2>1. /\ UnsafeRow(relays'[a], relayEvents'[a], moderationEvents'[a], observations'[a],
                     diagnostics'[a], prune.observed)
        /\ a \notin late.prune /\ Kept(a, prune.observed) /\ prune.pc # "waiting"
    BY <1>1 DEF Unsafe
  <2>2. Unsafe(a, prune.observed)
    BY <2>1 DEF Kept
  <2> QED BY <1>1, <2>1, <2>2 DEF PruneCovered
<1> QED BY <1>1 DEF PruneCovered

(* An actor the history does not mark. *)
LEMMA NotMarked ==
    ASSUME NEW t \in Instants, NEW observed \in Instants, NEW marked, NEW a,
           a \notin Marked(t, observed, marked)
    PROVE  a \notin marked /\ (observed < t \/ a \notin Disturbed)
<1>1. t \in Nat /\ observed \in Nat
  BY InstantType
<1> QED BY <1>1 DEF Marked

LEMMA CoverElsewhere ==
    ASSUME SaneInv, CoverInv, NEW t \in Instants,
           \A a \in Actors, before \in Instants :
               before < t \/ a \notin Disturbed => Kept(a, before),
           late' = [late EXCEPT !.pass  = Marked(t, pass.observed, @),
                                !.gate  = Marked(t, gate.observed, @),
                                !.prune = Marked(t, prune.observed, @)],
           UNCHANGED <<enabled, pass, gate, prune>>
    PROVE  PassCovers' /\ GateCovers' /\ PruneCovered'
<1>1. /\ late'.pass = Marked(t, pass.observed, late.pass)
      /\ late'.gate = Marked(t, gate.observed, late.gate)
      /\ late'.prune = Marked(t, prune.observed, late.prune)
  BY DEF CoverInv
<1>2. /\ pass.pc # "waiting" => pass.observed \in Instants
      /\ gate.ready => gate.observed \in Instants
      /\ prune.pc # "waiting" => prune.observed \in Instants
  BY DEF SaneInv, Sane, GateSane
<1>3. PassCovers'
  BY <1>1, <1>2, NotMarked, PassCoversKept DEF CoverInv
<1>4. GateCovers'
  BY <1>1, <1>2, NotMarked, GateCoversKept DEF CoverInv
<1>5. PruneCovered'
  BY <1>1, <1>2, NotMarked, PruneCoveredKept DEF CoverInv
<1> QED BY <1>3, <1>4, <1>5

LEMMA CheckRowsInOrder ==
    ASSUME TypeOK, NEW t, NEW cursor, NEW rows, rows = AfterCursor(DueRows(t), cursor)
    PROVE  /\ IsFiniteSet(rows) /\ Chain(rows)
           /\ \A a \in Actors :
                 ReachabilityDue(a, t) /\ Before(cursor, CheckRow(a).key) => CheckRow(a) \in rows
<1>1. ASSUME NEW row \in rows
      PROVE  row.actor \in Actors /\ row = CheckRow(row.actor)
  BY DEF AfterCursor, DueRows, CheckRow
<1>2. ASSUME NEW row \in rows
      PROVE  \E i, j \in Int : row.key = <<i, j>> /\ j = Rank[row.actor]
  <2>1. row.key = <<observations[row.actor].checked, Rank[row.actor]>>
    BY <1>1 DEF CheckRow
  <2>2. observations[row.actor].checked \in Int /\ Rank[row.actor] \in Int
    BY <1>1, RankAssumption DEF TypeOK, ObservationRow, Stamp, Never
  <2> QED BY <2>1, <2>2
<1>3. \A row, other \in rows : row.actor = other.actor => row = other
  BY <1>1
<1>4. IsFiniteSet(rows) /\ Chain(rows)
  BY <1>1, <1>2, <1>3, ActorRows
<1>5. ASSUME NEW a \in Actors, ReachabilityDue(a, t), Before(cursor, CheckRow(a).key)
      PROVE  CheckRow(a) \in rows
  BY <1>5 DEF AfterCursor, DueRows, CheckRow
<1> QED BY <1>4, <1>5

LEMMA BeginCovers ==
    ASSUME NEW t, BeginPass(t)
    PROVE  PassCovers'
<1>1. /\ pass'.pc = "read" /\ pass'.cursor = Start /\ pass'.scanned = 0
  BY DEF BeginPass, NoRun
<1>2. ASSUME NEW a PROVE AheadOfPass(a)'
  <2>1. Before(Start, CheckRow(a)'.key)
    BY BeforeStart DEF CheckRow
  <2> QED BY <1>1, <2>1 DEF AheadOfPass
<1> QED BY <1>1, <1>2, ReachabilityAssumption DEF PassCovers

LEMMA ReadCovers ==
    ASSUME IInv, Sane(pass), PassCovers, ReadReachabilityPage, late' = late
    PROVE  PassCovers'
<1> DEFINE limit == Limit(pass.scanned, ReachabilityPage, ReachabilityBudget)
           rows  == AfterCursor(DueRows(pass.observed), pass.cursor)
           page  == PageOf(rows, limit)
           next  == NextCursor(rows, limit)
<1>1. /\ pass.pc = "read" /\ UNCHANGED vars /\ DOMAIN pass = RunFields
      /\ pass.observed \in Instants
  BY DEF ReadReachabilityPage, Sane
<1>2. limit \in Nat \ {0} /\ pass.scanned + limit <= ReachabilityBudget
  BY <1>1, LimitLeft, ReachabilityAssumption DEF PassCovers
<1>3. pass' = IF page = {} THEN [pass EXCEPT !.pc = "exhausted"]
              ELSE [pass EXCEPT !.pc = "attempt", !.page = page, !.next = next]
  BY DEF ReadReachabilityPage, PassLimit, PassRowsLeft
<1> HIDE DEF limit
<1>4. /\ IsFiniteSet(rows) /\ Chain(rows)
      /\ \A a \in Actors : ReachabilityDue(a, pass.observed)
                           /\ Before(pass.cursor, CheckRow(a).key) => CheckRow(a) \in rows
  BY CheckRowsInOrder DEF IInv
<1> HIDE DEF rows
<1>5. ASSUME NEW a \in Actors, a \notin late'.pass, Unsafe(a, pass.observed)
      PROVE  CheckRow(a) \in rows
  <2>1. AheadOfPass(a)
    BY <1>1, <1>5 DEF PassCovers
  <2>2. ReachabilityDue(a, pass.observed)
    BY <1>1, <1>5, UnsafeIsDue
  <2> QED BY <1>1, <1>4, <2>1, <2>2 DEF AheadOfPass
<1>6. pass'.observed = pass.observed
  BY <1>1, <1>3 DEF RunFields
<1>7. ASSUME NEW a, Unsafe(a, pass.observed)'
      PROVE  Unsafe(a, pass.observed) /\ CheckRow(a)' = CheckRow(a)
  BY <1>1, <1>6, <1>7 DEF Unsafe, CheckRow, vars
<1>8. CASE page = {}
  <2>1. rows = {}
    BY <1>2, <1>4, <1>8, PageProgress
  <2>2. pass'.pc = "exhausted" /\ pass'.scanned = pass.scanned
    BY <1>1, <1>3, <1>8 DEF RunFields
  <2>3. \A a \in Actors \ late'.pass : ~Unsafe(a, pass.observed)'
    BY <1>5, <1>7, <2>1
  <2> QED BY <2>2, <2>3 DEF PassCovers
<1>9. CASE page # {}
  <2>1. /\ pass'.pc = "attempt" /\ pass'.page = page /\ pass'.next = next
        /\ pass'.scanned = pass.scanned
    BY <1>1, <1>3, <1>9 DEF RunFields
  <2>2. IsFiniteSet(page) /\ Cardinality(page) <= limit
    BY <1>2, <1>4, PageBounded
  <2>3. Cardinality(page) \in Nat
    BY <2>2, FS_CardinalityType
  <2>4. pass.scanned + Cardinality(page) <= ReachabilityBudget
    BY <1>2, <2>2, <2>3, ReachabilityAssumption DEF PassCovers
  <2>5. ASSUME NEW a \in Actors, a \notin late'.pass, Unsafe(a, pass.observed)'
        PROVE  AheadOfPass(a)'
    <3>1. CheckRow(a) \in rows /\ CheckRow(a)' = CheckRow(a)
      BY <1>5, <1>7, <2>5
    <3>2. \/ CheckRow(a) \in page
          \/ next # Start /\ Before(next, CheckRow(a).key)
      BY <1>2, <1>4, <3>1, NextCovers
    <3> HIDE DEF page, next
    <3> QED BY <2>1, <3>1, <3>2 DEF AheadOfPass
  <2> HIDE DEF page, next
  <2> QED BY <1>9, <2>1, <2>2, <2>4, <2>5 DEF PassCovers
<1> QED BY <1>8, <1>9


(* What a pass has tried, or skipped, is not unsafe as of its own time. *)
LEMMA TriedNotUnsafe ==
    ASSUME IInv, NEW a \in Actors, NEW t \in Instants,
           \/ \E s \in Reached, i \in Inboxes \cup {NoInbox} :
                 RecordReachabilityObservation(a, s, i, t)
           \/ ResultSkipped(a, t) /\ UNCHANGED vars
    PROVE  ~UnsafeRow(relays'[a], relayEvents'[a], moderationEvents'[a], observations'[a],
                      diagnostics'[a], t)
<1>0. TypeOK /\ t \in Nat /\ t <= t
  BY InstantType DEF IInv
<1>1. ASSUME NEW s \in Reached, NEW i \in Inboxes \cup {NoInbox},
             RecordReachabilityObservation(a, s, i, t)
      PROVE  ~UnsafeRow(relays'[a], relayEvents'[a], moderationEvents'[a], observations'[a],
                        diagnostics'[a], t)
  <2>1. observations'[a] = Checked(ObservationAt(a, t), s, i, t, t)
    BY <1>0, <1>1 DEF RecordReachabilityObservation, TypeOK
  <2> QED BY <1>0, <2>1, CheckLeaves, CheckedNotUnsafe
<1>2. CASE ResultSkipped(a, t) /\ UNCHANGED vars
  <2>1. ASSUME Unsafe(a, t) PROVE FALSE
    <3> DEFINE o == observations[a]
    <3>1. ReachabilityEligible(a)
      BY <2>1 DEF Unsafe, UnsafeRow, ReachabilityEligible
    <3>2. o.checked >= t /\ o.checked \in Stamp
      BY <1>0, <1>2, <3>1 DEF ResultSkipped, TypeOK, ObservationRow
    <3>3. o.checked # Never
      BY <1>0, <3>2 DEF Stamp, Never
    <3>4. /\ o.state # "unreachable"
          /\ ~(o.state = "reachable" /\ o.success >= t - ReachabilityFreshness)
      BY <2>1 DEF Unsafe, UnsafeRow
    <3>5. o.state = "reachable" /\ o.success = o.checked
      BY <1>0, <3>3, <3>4 DEF IInv, ActorInv, ObservationInv, ObservationChecks,
                              NoObservation, TypeOK, ObservationRow
    <3> HIDE DEF o
    <3>6. o.success >= t - ReachabilityFreshness
      BY <1>0, <3>2, <3>5, DurationAssumption DEF Stamp, Never
    <3> QED BY <3>4, <3>5, <3>6
  <2> QED BY <1>2, <2>1 DEF Unsafe, vars
<1> QED BY <1>1, <1>2

LEMMA RecordCovers ==
    ASSUME IInv, Sane(pass), PassCovers, RecordResult, late'.pass = late.pass
    PROVE  PassCovers'
<1>1. PICK row \in FirstOf(pass.page) :
          /\ \/ \E s \in Reached, i \in Inboxes \cup {NoInbox} :
                   RecordReachabilityObservation(row.actor, s, i, pass.observed)
             \/ ResultSkipped(row.actor, pass.observed) /\ UNCHANGED vars
          /\ pass' = Onward(pass, row, ReachabilityBudget)
  BY DEF RecordResult
<1> DEFINE rest == pass.page \ {row}
<1>2. /\ pass.pc = "attempt" /\ row \in pass.page /\ row.actor \in Actors
      /\ pass.observed \in Instants
      /\ DOMAIN pass = RunFields /\ pass.scanned \in Nat /\ IsFiniteSet(pass.page)
      /\ pass.scanned + Cardinality(pass.page) <= ReachabilityBudget
  BY <1>1 DEF RecordResult, FirstOf, Sane, PassCovers
<1>3. /\ pass'.scanned = pass.scanned + 1 /\ pass'.observed = pass.observed
      /\ pass'.page = rest /\ pass'.next = pass.next
      /\ pass'.cursor = (IF rest = {} THEN pass.next ELSE pass.cursor)
      /\ pass'.pc = (IF rest # {} THEN "attempt"
                     ELSE IF pass.next = Start THEN "exhausted"
                     ELSE IF pass.scanned + 1 = ReachabilityBudget THEN "truncated"
                     ELSE "read")
  BY <1>1, <1>2 DEF Onward, RunFields
<1>4. /\ IsFiniteSet(rest) /\ Cardinality(rest) = Cardinality(pass.page) - 1
      /\ Cardinality(rest) \in Nat
  <2>1. IsFiniteSet(rest) /\ Cardinality(rest) = Cardinality(pass.page) - 1
    BY <1>2, FS_RemoveElement
  <2> HIDE DEF rest
  <2> QED BY <2>1, FS_CardinalityType
<1>5. pass'.scanned \in Nat /\ pass'.scanned + Cardinality(rest) <= ReachabilityBudget
  <2>1. Cardinality(pass.page) \in Nat
    BY <1>2, FS_CardinalityType
  <2> HIDE DEF rest
  <2> QED BY <1>2, <1>3, <1>4, <2>1, ReachabilityAssumption
<1>6. ASSUME NEW a \in Actors, a \notin late'.pass, Unsafe(a, pass.observed)'
      PROVE  /\ CheckRow(a)' = CheckRow(a)
             /\ \/ CheckRow(a) \in rest
                \/ pass.next # Start /\ Before(pass.next, CheckRow(a).key)
  <2>1. UnsafeRow(relays'[a], relayEvents'[a], moderationEvents'[a], observations'[a],
                  diagnostics'[a], pass.observed)
    BY <1>3, <1>6 DEF Unsafe
  <2>2. a # row.actor
    BY <1>1, <1>2, <2>1, TriedNotUnsafe
  <2>3. /\ relays'[a] = relays[a] /\ relayEvents'[a] = relayEvents[a]
        /\ moderationEvents'[a] = moderationEvents[a] /\ observations'[a] = observations[a]
        /\ diagnostics'[a] = diagnostics[a]
    BY <1>1, <1>6, <2>2 DEF RecordReachabilityObservation, IInv, TypeOK, vars
  <2>4. Unsafe(a, pass.observed) /\ CheckRow(a)' = CheckRow(a)
    BY <2>1, <2>3 DEF Unsafe, CheckRow
  <2>5. AheadOfPass(a)
    BY <1>2, <1>6, <2>4 DEF PassCovers
  <2>6. CheckRow(a).actor = a
    BY DEF CheckRow
  <2> QED BY <1>2, <2>2, <2>4, <2>5, <2>6 DEF AheadOfPass
<1> HIDE DEF rest
<1>7. ASSUME NEW a \in Actors, a \notin late'.pass, Unsafe(a, pass.observed)',
             pass'.pc \in {"read", "attempt", "exhausted"}
      PROVE  AheadOfPass(a)'
  <2>1. CASE rest = {}
    BY <1>3, <1>6, <1>7, <2>1 DEF AheadOfPass
  <2>2. CASE rest # {}
    BY <1>3, <1>6, <1>7, <2>2 DEF AheadOfPass
  <2> QED BY <2>1, <2>2
<1>8. pass'.pc = "read" => pass'.scanned < ReachabilityBudget
  BY <1>3, <1>4, <1>5, ReachabilityAssumption
<1>9. pass'.pc = "attempt" => rest # {}
  BY <1>3
<1> QED BY <1>3, <1>4, <1>5, <1>7, <1>8, <1>9 DEF PassCovers

LEMMA CoverUnchanged ==
    ASSUME CoverInv, UNCHANGED vars
    PROVE  /\ pass' = pass /\ late'.pass = late.pass => PassCovers'
           /\ gate' = gate /\ late'.gate = late.gate => GateCovers'
           /\ prune' = prune /\ enabled' = enabled /\ late'.prune = late.prune => PruneCovered'
<1>1. \A a, t : Kept(a, t)
  BY KeptUnchanged
<1> QED BY <1>1, PassCoversKept, GateCoversKept, PruneCoveredKept DEF CoverInv

LEMMA NoRunCovers ==
    /\ pass' = NoRun => PassCovers'
    /\ prune' = NoRun => PruneCovered'
BY DEF NoRun, PassCovers, PruneCovered

LEMMA CoverPassRecords ==
    ASSUME IInv, SaneInv, CoverInv, PassRecords
    PROVE  PassCovers' /\ GateCovers' /\ PruneCovered'
<1>1. /\ late'.pass = late.pass
      /\ late'.gate = Marked(pass.observed, gate.observed, late.gate)
      /\ late'.prune = Marked(pass.observed, prune.observed, late.prune)
      /\ gate' = gate /\ prune' = prune /\ enabled' = enabled
  BY DEF PassRecords, RecordResult, CoverInv
<1>2. PassCovers'
  BY <1>1, RecordCovers DEF PassRecords, SaneInv, CoverInv
<1>3. pass.observed \in Instants
  BY DEF PassRecords, RecordResult, SaneInv, Sane
<1>4. ASSUME NEW a \in Actors, NEW before \in Instants,
             before < pass.observed \/ a \notin Disturbed
      PROVE  Kept(a, before)
  <2>1. PICK row \in pass.page :
            \/ \E s \in Reached, i \in Inboxes \cup {NoInbox} :
                  RecordReachabilityObservation(row.actor, s, i, pass.observed)
            \/ UNCHANGED vars
    BY DEF PassRecords, RecordResult, FirstOf
  <2>2. row.actor \in Actors
    BY <2>1 DEF SaneInv, Sane
  <2>3. ActorStep(row.actor, pass.observed) \/ UNCHANGED vars
    BY <2>1 DEF ActorStep, ServiceStep
  <2> QED BY <1>3, <1>4, <2>2, <2>3, KeptByActorStep, KeptUnchanged
<1>5. /\ gate.ready => gate.observed \in Instants
      /\ prune.pc # "waiting" => prune.observed \in Instants
  BY DEF SaneInv, Sane, GateSane
<1>6. GateCovers'
  BY <1>1, <1>3, <1>4, <1>5, NotMarked, GateCoversKept DEF CoverInv
<1>7. PruneCovered'
  BY <1>1, <1>3, <1>4, <1>5, NotMarked, PruneCoveredKept DEF CoverInv
<1> QED BY <1>2, <1>6, <1>7

LEMMA CoverPassEnds ==
    ASSUME CoverInv, PassEnds
    PROVE  PassCovers' /\ GateCovers' /\ PruneCovered'
<1>1. PICK now \in Instants : EndPass(now)
  BY DEF PassEnds
<1>2. /\ pass' = NoRun /\ UNCHANGED vars /\ prune' = prune /\ enabled' = enabled
      /\ late'.prune = late.prune
      /\ late'.gate = IF gate' = gate THEN late.gate ELSE late.pass
  BY <1>1 DEF PassEnds, EndPass, CoverInv
<1>3. CASE gate' = gate
  BY <1>2, <1>3, CoverUnchanged, NoRunCovers
<1>4. CASE gate' # gate
  <2>1. pass.pc = "exhausted" /\ gate'.observed = pass.observed
    BY <1>1, <1>4 DEF EndPass, CoversDueSet
  <2>2. \A a \in Actors \ late.pass : ~Unsafe(a, pass.observed)
    BY <2>1 DEF CoverInv, PassCovers, AheadOfPass
  <2>3. \A a \in Actors \ late'.gate : ~Unsafe(a, gate.observed)'
    BY <1>2, <1>4, <2>1, <2>2 DEF Unsafe, vars
  <2> QED BY <1>2, <2>3, CoverUnchanged, NoRunCovers DEF GateCovers
<1> QED BY <1>3, <1>4

LEMMA CoverPruneBegins ==
    ASSUME CoverInv, NEW t, PruneBegins(t), enabled => gate.ready /\ t = gate.observed
    PROVE  PassCovers' /\ GateCovers' /\ PruneCovered'
<1>1. /\ UNCHANGED vars /\ UNCHANGED <<enabled, pass, gate>>
      /\ late'.prune = late.gate /\ late'.pass = late.pass /\ late'.gate = late.gate
      /\ prune'.observed = t
  BY DEF PruneBegins, BeginPrune, NoRun, CoverInv
<1>2. PassCovers' /\ GateCovers'
  BY <1>1, CoverUnchanged
<1>3. ASSUME enabled, NEW a \in Actors \ late.gate
      PROVE  ~Unsafe(a, prune.observed)'
  BY <1>1, <1>3 DEF CoverInv, GateCovers, Unsafe, vars
<1> QED BY <1>1, <1>2, <1>3 DEF PruneCovered

(* The pruning run itself leaves a pruned relay behind, or nothing. *)
LEMMA CoverPruneNext ==
    ASSUME IInv, SaneInv, CoverInv, PruneNext, UNCHANGED <<enabled, pass, gate, late>>
    PROVE  PassCovers' /\ GateCovers' /\ PruneCovered'
<1>1. PICK row \in prune.page :
          /\ SoftPrune(row.actor, prune.observed) \/ UNCHANGED vars
          /\ prune' = Onward(prune, row, PruneBudget)
  BY DEF PruneNext, FirstOf
<1>2. prune.pc # "waiting" /\ prune'.observed = prune.observed
  BY <1>1 DEF PruneNext, Onward, SaneInv, Sane, RunFields
<1>3. ASSUME NEW a \in Actors, NEW t PROVE Kept(a, t)
  <2>1. CASE UNCHANGED vars
    BY <2>1, KeptUnchanged
  <2>2. CASE SoftPrune(row.actor, prune.observed) /\ a = row.actor
    <3>1. relays'[a].lifecycle = "pruned"
      BY <2>2 DEF SoftPrune, Pruned, IInv, TypeOK, RelayRow
    <3> QED BY <3>1 DEF Kept, UnsafeRow
  <2>3. CASE SoftPrune(row.actor, prune.observed) /\ a # row.actor
    BY <2>3, KeptUntouched DEF SoftPrune, IInv, TypeOK
  <2> QED BY <1>1, <2>1, <2>2, <2>3
<1> QED BY <1>2, <1>3, PassCoversKept, GateCoversKept, PruneCoveredKept DEF CoverInv

LEMMA CoverStep ==
    ASSUME IInv, SaneInv, CoverInv, [MaintenanceNext]_maintenanceVars
    PROVE  CoverInv'
<1> SUFFICES PassCovers' /\ GateCovers' /\ PruneCovered'
  BY LateStep DEF CoverInv
<1>1. CASE PassBegins
  <2>1. /\ PassCovers' /\ UNCHANGED vars /\ gate' = gate /\ prune' = prune
        /\ enabled' = enabled /\ late'.gate = late.gate /\ late'.prune = late.prune
    BY <1>1, BeginCovers DEF PassBegins, BeginPass, CoverInv
  <2> QED BY <2>1, CoverUnchanged
<1>2. CASE ReadReachabilityPage /\ UNCHANGED <<enabled, prune, late, owed>>
  <2>1. PassCovers' /\ UNCHANGED vars /\ gate' = gate
    BY <1>2, ReadCovers DEF ReadReachabilityPage, SaneInv, CoverInv
  <2> QED BY <1>2, <2>1, CoverUnchanged
<1>3. CASE PassFails /\ UNCHANGED <<enabled, prune, late, owed>>
  BY <1>3, NoRunCovers, CoverUnchanged DEF PassFails
<1>4. CASE PassRecords
  BY <1>4, CoverPassRecords
<1>5. CASE PassEnds
  BY <1>5, CoverPassEnds
<1>6. CASE CoveredPruneBegins
  BY <1>6, CoverPruneBegins DEF CoveredPruneBegins, Covered
<1>7. CASE UngatedPruneBegins
  BY <1>7, CoverPruneBegins DEF UngatedPruneBegins
<1>8. CASE ReadPrunePage /\ UNCHANGED <<enabled, pass, gate, late, owed>>
  <2>1. UNCHANGED vars /\ prune.pc # "waiting" /\ prune'.observed = prune.observed
    BY <1>8 DEF ReadPrunePage, SaneInv, Sane, RunFields
  <2>2. \A a, t : Kept(a, t)
    BY <2>1, KeptUnchanged
  <2> QED BY <1>8, <2>1, <2>2, PassCoversKept, GateCoversKept, PruneCoveredKept DEF CoverInv
<1>9. CASE (PruneFails \/ EndPrune) /\ UNCHANGED <<enabled, pass, gate, late, owed>>
  BY <1>9, NoRunCovers, CoverUnchanged DEF PruneFails, EndPrune
<1>10. CASE PruneNext /\ UNCHANGED <<enabled, pass, gate, late>>
  BY <1>10, CoverPruneNext
<1>11. CASE Restart
  BY <1>11, NoRunCovers DEF Restart, NotReady, GateCovers
<1>12. ASSUME NEW t \in Instants, NEW a \in Actors, ActorStep(a, t),
              Elsewhere(TRUE, t)
       PROVE  PassCovers' /\ GateCovers' /\ PruneCovered'
  BY <1>12, KeptByActorStep, CoverElsewhere DEF Elsewhere
<1>13. ASSUME NEW t \in Instants, NEW open, SetEnrollment(open, t), Elsewhere(TRUE, t)
       PROVE  PassCovers' /\ GateCovers' /\ PruneCovered'
  BY <1>13, KeptUntouched, CoverElsewhere DEF Elsewhere, SetEnrollment
<1>14. ASSUME NEW t \in Instants, NEW batch, PurgeBatch(batch, t), Elsewhere(TRUE, t)
       PROVE  PassCovers' /\ GateCovers' /\ PruneCovered'
  BY <1>14, KeptByPurge, CoverElsewhere DEF Elsewhere
<1>15. CASE UNCHANGED maintenanceVars
  BY <1>15, CoverUnchanged DEF maintenanceVars, workerVars
<1> QED
  BY <1>1, <1>2, <1>3, <1>4, <1>5, <1>6, <1>7, <1>8, <1>9, <1>10, <1>11, <1>12, <1>13,
     <1>14, <1>15
     DEF MaintenanceNext, PassStep, PruneStep, Elsewhere

(* Under the coverage gate no relay is pruned that the covering pass did    *)
(* not find unreachable, however transactions, passes, pruning runs and     *)
(* restarts fall between each other: only one changed by a transaction with *)
(* an older time, or one whose failed check a success of the same second    *)
(* has overwritten.                                                         *)
THEOREM PruneNeedsFailure == MaintenanceSpec => PrunedOnFailedCheck
<1>1. ASSUME IInv, SaneInv, CoverInv, NEW a \in Actors, PruneNext, enabled,
             relays[a].lifecycle = "registered", relays'[a].lifecycle = "pruned",
             relays[a].admin = "active", a \notin late.prune
      PROVE  observations[a].state = "unreachable" \/ FailureOverwritten(a)
  <2>1. SoftPrune(a, prune.observed)
    BY <1>1 DEF PruneNext, SoftPrune, IInv, TypeOK, vars
  <2>2. ~Unsafe(a, prune.observed)
    BY <1>1 DEF PruneNext, CoverInv, PruneCovered
  <2> QED BY <1>1, <2>1, <2>2, PruneTakesUnsafe DEF SoftPrune
<1>2. IInv /\ SaneInv /\ CoverInv =>
        [\A a \in Actors :
           /\ PruneNext
           /\ enabled
           /\ relays[a].lifecycle = "registered"
           /\ relays'[a].lifecycle = "pruned"
           /\ relays[a].admin = "active"
           /\ a \notin late.prune
           => observations[a].state = "unreachable" \/ FailureOverwritten(a)]_maintenanceVars
  BY <1>1
<1>3. MaintenanceSpec => []IInv
  BY WorkersImplementRepository, Inductive, PTL
<1>4. MaintenanceSpec => [](SaneInv /\ CoverInv)
  BY <1>3, SaneInit, SaneStep, CoverInit, CoverStep, PTL DEF MaintenanceSpec
<1> QED BY <1>2, <1>3, <1>4, PTL DEF PrunedOnFailedCheck

-----------------------------------------------------------------------------
(* The pages a run reads pass the checks it makes of them.                  *)

LEMMA PageWellFormed ==
    ASSUME NEW all, NEW cursor, NEW rows, rows = AfterCursor(all, cursor),
           IsFiniteSet(rows), Chain(rows), NEW limit \in Nat \ {0}
    PROVE  WellFormedPage(PageOf(rows, limit), NextCursor(rows, limit), cursor, limit)
<1>1. Cardinality(PageOf(rows, limit)) <= limit
  BY PageBounded
<1>2. \A row \in PageOf(rows, limit) : Before(cursor, row.key)
  BY DEF PageOf, AfterCursor
<1>3. NextCursor(rows, limit) # Start =>
          PageOf(rows, limit) # {} /\ NextCursor(rows, limit) = LastKey(PageOf(rows, limit))
  BY CursorIsLast
<1> QED BY <1>1, <1>2, <1>3 DEF WellFormedPage

LEMMA PruneReads ==
    ASSUME TypeOK, PruneOwed, prune.pc = "read"
    PROVE  PrunePageAccepted
<1> DEFINE limit == PruneLimit
           rows  == PruneRowsLeft
<1>1. limit \in Nat \ {0}
  BY LimitLeft, PruneAssumption DEF PruneOwed, PruneLimit
<1>2. rows = AfterCursor(PruneRows(prune.observed), prune.cursor)
  BY DEF PruneRowsLeft
<1>3. IsFiniteSet(rows) /\ Chain(rows)
  BY <1>2, PruneRowsInOrder
<1>4. \A row \in rows : row.key[1] <= prune.observed - DeadBefore
  BY <1>2 DEF AfterCursor, PruneRows, PruneCandidate
<1>5. PageOf(rows, limit) \subseteq rows
  BY DEF PageOf
<1> HIDE DEF limit, rows
<1>6. WellFormedPage(PageOf(rows, limit), NextCursor(rows, limit), prune.cursor, limit)
  BY <1>1, <1>2, <1>3, PageWellFormed
<1> QED BY <1>4, <1>5, <1>6 DEF PrunePageAccepted, limit, rows

LEMMA PassReads ==
    ASSUME IInv, CandidatePageReadable, Sane(pass), PassCovers, pass.pc = "read"
    PROVE  PassPageAccepted
<1> DEFINE limit == PassLimit
           rows  == PassRowsLeft
<1>1. limit \in Nat \ {0}
  BY LimitLeft, ReachabilityAssumption DEF PassCovers, PassLimit
<1>2. rows = AfterCursor(DueRows(pass.observed), pass.cursor)
  BY DEF PassRowsLeft
<1>3. IsFiniteSet(rows) /\ Chain(rows)
  BY <1>2, CheckRowsInOrder DEF IInv
<1>4. pass.observed \in Instants
  BY DEF Sane
<1>5. ASSUME NEW row \in rows, row.key[1] # Never
      PROVE  row.key[1] <= pass.observed - FailureRetryMinimum
  <2>1. PICK a \in Actors :
            ReachabilityDue(a, pass.observed) /\ row.key = <<observations[a].checked, Rank[a]>>
    BY <1>2 DEF AfterCursor, DueRows
  <2> QED BY <1>4, <1>5, <2>1 DEF CandidatePageReadable
<1>6. NoneTooSoon(PageOf(rows, limit + 1), pass.observed)
  BY <1>5 DEF NoneTooSoon, PageOf
<1> HIDE DEF limit, rows
<1>7. WellFormedPage(PageOf(rows, limit), NextCursor(rows, limit), pass.cursor, limit)
  BY <1>1, <1>2, <1>3, PageWellFormed
<1> QED BY <1>6, <1>7 DEF PassPageAccepted, limit, rows

(* No page either worker reads fails the worker's own validation: no run    *)
(* ends early because of what requests, the operator or the other worker    *)
(* have made of the rows.                                                   *)
THEOREM PagesAlwaysAccepted == MaintenanceSpec => []PagesAccepted
<1>1. IInv => TypeOK
  BY DEF IInv
<1>2. IInv /\ CandidatePageReadable /\ SaneInv /\ PruneOwed /\ CoverInv => PagesAccepted
  BY <1>1, PruneReads, PassReads DEF PagesAccepted, SaneInv, CoverInv
<1>3. MaintenanceSpec => []IInv /\ []CandidatePageReadable
  BY WorkersImplementRepository, Inductive, PageSafe, PTL
<1>4. MaintenanceSpec => [](SaneInv /\ PruneOwed /\ CoverInv)
  BY <1>1, <1>3, SaneInit, SaneStep, PruneOwedInit, PruneOwedStep, CoverInit, CoverStep, PTL
     DEF MaintenanceSpec
<1> QED BY <1>2, <1>3, <1>4, PTL
=============================================================================
