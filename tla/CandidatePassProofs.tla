------------------------- MODULE CandidatePassProofs -------------------------
(***************************************************************************)
(* Imports and passes over retained candidates implement the repository    *)
(* and leave candidate rows that later pages can read, and a pass that     *)
(* exhausts its candidates has missed none.                                *)
(***************************************************************************)
EXTENDS CandidatePass, RelayRepositoryProofs

ScanFields == {"pc", "observed", "cursor", "page", "next", "scanned"}

(* A pass at work has captured a second, and its page names actors. *)
ScanInv ==
    /\ DOMAIN scan = ScanFields
    /\ scan.pc # "waiting" => scan.observed \in Instants
    /\ \A row \in scan.page : row.actor \in Actors

(* The constraints of one candidate row, and the audit of its success.      *)
CandidateInv(c, e) ==
    /\ c \in CandidateRow
    /\ c.state = "absent" => c = NoCandidate
    /\ c.state # "absent" =>
         /\ 0 <= c.first
         /\ c.first <= c.checked
         /\ c.success # Never => c.first <= c.success /\ c.success <= c.checked
         /\ c.state = "resolved" => c.success # Never
         /\ c.failures >= 1
    /\ c.success <= e.latest

(* A row in its tables. *)
RowInv(a) == CandidateInv(candidates[a], discoveryEvents[a])

PassInv ==
    /\ IInv
    /\ ScanInv
    /\ candidates \in [Actors -> CandidateRow]
    /\ planned \subseteq Actors
    /\ \A a \in Actors : RowInv(a)

-----------------------------------------------------------------------------
LEMMA RetainedKept ==
    ASSUME NEW c, NEW e, CandidateInv(c, e), NEW t \in Instants, t >= c.checked,
           NEW s \in FailedStates
    PROVE  CandidateInv(Retained(c, s, t), e)
<1>1. t \in Nat /\ t \in Stamp
  BY InstantType
<1> DEFINE r == Retained(c, s, t)
<1>2. c \in CandidateRow /\ c.success <= e.latest
  BY DEF CandidateInv
<1>3. /\ r \in CandidateRow
      /\ r.state = s /\ r.checked = t /\ r.success = c.success
      /\ r.failures = c.failures + 1
      /\ r.first = IF c.state = "absent" THEN t ELSE c.first
  <2>1. (IF c.state = "absent" THEN t ELSE c.first) \in Stamp
    BY <1>1, <1>2 DEF CandidateRow
  <2>2. s \in FailedStates \cup {"absent", "resolved"}
    OBVIOUS
  <2>3. c.failures + 1 \in Nat
    BY <1>2 DEF CandidateRow
  <2> DEFINE first == IF c.state = "absent" THEN t ELSE c.first
  <2>4. r = [c EXCEPT !.state = s, !.first = first, !.checked = t, !.failures = @ + 1]
    BY DEF Retained
  <2>5. first \in Stamp
    BY <2>1
  <2> HIDE DEF first, r
  <2>6. /\ r \in CandidateRow
        /\ r.state = s /\ r.checked = t /\ r.success = c.success
        /\ r.failures = c.failures + 1
        /\ r.first = first
    BY <1>1, <1>2, <2>2, <2>3, <2>4, <2>5 DEF CandidateRow
  <2> QED BY <2>6 DEF first
<1>4. s # "absent" /\ s # "resolved"
  BY DEF FailedStates
<1>5. c.state = "absent" => c.success = Never
  BY DEF CandidateInv, NoCandidate
<1>6. c.state # "absent" =>
        /\ 0 <= c.first /\ c.first <= c.checked
        /\ c.success # Never => c.first <= c.success /\ c.success <= c.checked
  BY DEF CandidateInv
<1>7. c.first \in Stamp /\ c.checked \in Stamp /\ c.success \in Stamp /\ c.failures \in Nat
  BY <1>2 DEF CandidateRow
<1> HIDE DEF r
<1>8. /\ 0 <= r.first /\ r.first <= r.checked
      /\ r.success # Never => r.first <= r.success /\ r.success <= r.checked
      /\ r.failures >= 1
  BY <1>1, <1>3, <1>5, <1>6, <1>7 DEF Stamp, Never
<1>9. CandidateInv(r, e)
  BY <1>2, <1>3, <1>4, <1>8 DEF CandidateInv
<1> QED BY <1>9 DEF r

LEMMA ResolvedKept ==
    ASSUME NEW c, NEW e, NEW f, CandidateInv(c, e), NEW t \in Instants, t > c.checked,
           c.state # "absent", t <= f.latest
    PROVE  CandidateInv(Resolved(c, t), f)
<1>1. t \in Nat /\ t \in Stamp
  BY InstantType
<1> DEFINE r == Resolved(c, t)
<1>2. c \in CandidateRow /\ 0 <= c.first /\ c.first <= c.checked /\ c.failures >= 1
  BY DEF CandidateInv
<1>3. /\ r \in CandidateRow
      /\ r.state = "resolved" /\ r.checked = t /\ r.success = t
      /\ r.failures = c.failures /\ r.first = c.first
  BY <1>1, <1>2 DEF Resolved, CandidateRow
<1>4. c.first \in Stamp /\ c.checked \in Stamp
  BY <1>2 DEF CandidateRow
<1> HIDE DEF r
<1>5. CandidateInv(r, f)
  BY <1>1, <1>2, <1>3, <1>4 DEF CandidateInv, Stamp, Never
<1> QED BY <1>5 DEF r

(* The discovery ledger never forgets its latest time, so a success that    *)
(* was audited stays audited, purges included.                              *)
LEMMA LedgerGrows ==
    ASSUME TypeOK, [Next]_vars, NEW b \in Actors
    PROVE  /\ discoveryEvents[b].latest \in Stamp
           /\ discoveryEvents'[b].latest \in Stamp
           /\ discoveryEvents[b].latest <= discoveryEvents'[b].latest
<1>1. TypeOK'
  BY NextType
<1>2. discoveryEvents[b].latest \in Stamp /\ discoveryEvents'[b].latest \in Stamp
  BY <1>1 DEF TypeOK, Ledger
<1>3. ASSUME NEW a \in Actors, NEW t \in Instants, NEW k,
             discoveryEvents' = [discoveryEvents EXCEPT ![a] = Recorded(@, k, t)]
      PROVE  discoveryEvents[b].latest <= discoveryEvents'[b].latest
  <2>1. CASE a = b
    BY <1>3, <2>1, RecordedChronological DEF TypeOK
  <2>2. CASE a # b
    BY <1>2, <1>3, <2>2 DEF TypeOK, Stamp, Never
  <2> QED BY <2>1, <2>2
<1>4. CASE UNCHANGED discoveryEvents
  BY <1>2, <1>4 DEF Stamp, Never
<1>5. ASSUME NEW a \in Actors, NEW t \in Instants, ActorStep(a, t)
      PROVE  discoveryEvents[b].latest <= discoveryEvents'[b].latest
  BY <1>3, <1>4, <1>5
     DEF ActorStep, ServiceStep, Suspend, Restore, Register, Heartbeat, Unregister,
         Moderate, AddDiscovery, RemoveDiscovery, RecordActorObservation,
         RecordReachabilityObservation, RecordInboxObservation, PromoteDiscovery, SoftPrune
<1> QED
  BY <1>2, <1>4, <1>5 DEF Next, SetEnrollment, PurgeStep, PurgeBatch, vars

LEMMA RowKept ==
    ASSUME TypeOK, [Next]_vars, NEW b \in Actors, RowInv(b),
           candidates'[b] = candidates[b]
    PROVE  RowInv(b)'
<1>1. /\ discoveryEvents[b].latest \in Stamp
      /\ discoveryEvents'[b].latest \in Stamp
      /\ discoveryEvents[b].latest <= discoveryEvents'[b].latest
  BY LedgerGrows
<1>2. candidates[b].success \in Stamp
  BY DEF RowInv, CandidateInv, CandidateRow
<1> QED BY <1>1, <1>2 DEF RowInv, CandidateInv, Stamp, Never

-----------------------------------------------------------------------------
(* Every step is one of the repository, or leaves its tables alone. *)
LEMMA ScanStepImplements ==
    ASSUME ScanInv, [CandidateNext]_scanVars
    PROVE  [Next]_vars
<1>1. CASE RecordProbe
  <2>1. PICK row \in scan.page :
            \/ \E i \in Inboxes \cup {NoInbox} : PromoteDiscovery(row.actor, i, scan.observed)
            \/ UNCHANGED vars
    BY <1>1 DEF RecordProbe, FirstOf, PromoteDiscoveryCandidate, RetainDiscoveryCandidate
  <2>2. row.actor \in Actors /\ scan.observed \in Instants
    BY <1>1, <2>1 DEF RecordProbe, ScanInv
  <2> QED BY <2>1, <2>2 DEF Next, ActorStep
<1>2. CASE UNCHANGED vars
  BY <1>2
<1>3. CASE \E a \in Actors, t \in Instants : ServiceStep(a, t)
  BY <1>3 DEF Next, ActorStep
<1>4. CASE \E open \in BOOLEAN, t \in Instants : SetEnrollment(open, t)
  BY <1>4 DEF Next
<1>5. CASE PurgeStep
  BY <1>5 DEF Next
<1> QED
  BY <1>1, <1>2, <1>3, <1>4, <1>5
     DEF CandidateNext, ScanBegins, BeginScan, ScanStep, ReadCandidatePage, RefuseProbe,
         ScanFails, EndScan, ImportStep, ClassifyKnown, ImportRetains,
         RetainDiscoveryCandidate, ImportEnds, Meanwhile, scanVars

LEMMA ScanKept ==
    ASSUME ScanInv, [CandidateNext]_scanVars
    PROVE  ScanInv'
<1>1. ASSUME NEW t \in Instants, BeginScan(t)
      PROVE  ScanInv'
  BY <1>1 DEF BeginScan, ScanInv, ScanFields, NoRun
<1>2. CASE ReadCandidatePage
  <2>1. \A t, cursor, limit : \A row \in PageOf(AfterCursor(DueRows(t), cursor), limit) :
            row.actor \in Actors
    BY DEF PageOf, AfterCursor, DueRows, DueCandidates
  <2>2. PICK page, next :
            /\ \A row \in page : row.actor \in Actors
            /\ scan' = IF page = {}
                       THEN [scan EXCEPT !.pc = "exhausted"]
                       ELSE [scan EXCEPT !.pc = "attempt", !.page = page, !.next = next]
    BY <1>2, <2>1 DEF ReadCandidatePage, ScanRowsLeft
  <2>3. scan.pc = "read"
    BY <1>2 DEF ReadCandidatePage
  <2> QED BY <2>2, <2>3 DEF ScanInv, ScanFields
<1>3. CASE RecordProbe
  BY <1>3 DEF RecordProbe, Onward, ScanInv, ScanFields
<1>4. CASE scan' = NoRun
  BY <1>4 DEF NoRun, ScanInv, ScanFields
<1>5. CASE RefuseProbe
  BY <1>5 DEF RefuseProbe, ScanInv, ScanFields
<1>6. CASE UNCHANGED scan
  BY <1>6 DEF ScanInv
<1> QED
  BY <1>1, <1>2, <1>3, <1>4, <1>5, <1>6
     DEF CandidateNext, ScanBegins, ScanStep, ScanFails, EndScan, ImportStep, ClassifyKnown,
         ImportRetains, ImportEnds, Meanwhile, scanVars, candidateVars

LEMMA PlannedKept ==
    ASSUME planned \subseteq Actors, [CandidateNext]_scanVars
    PROVE  planned' \subseteq Actors
BY DEF CandidateNext, ScanBegins, BeginScan, ScanStep, ReadCandidatePage, RecordProbe,
       RefuseProbe, ScanFails, EndScan, ImportStep, ClassifyKnown, ImportRetains,
       ImportEnds, Meanwhile, scanVars, candidateVars

(* The two ways a candidate row is written. *)
LEMMA RetainKept ==
    ASSUME PassInv, NEW a \in Actors, NEW t \in Instants, NEW s \in FailedStates,
           RetainDiscoveryCandidate(a, s, t), NEW b \in Actors
    PROVE  RowInv(b)'
<1>1. discoveryEvents' = discoveryEvents
  BY DEF RetainDiscoveryCandidate, vars
<1>2. CASE b = a
  <2>1. candidates'[a] = Retained(candidates[a], s, t)
    BY DEF RetainDiscoveryCandidate, PassInv
  <2>2. t >= candidates[a].checked
    BY DEF RetainDiscoveryCandidate, RetainAccepts
  <2> QED BY <1>1, <1>2, <2>1, <2>2, RetainedKept DEF PassInv, RowInv
<1>3. CASE b # a
  BY <1>1, <1>3 DEF RetainDiscoveryCandidate, PassInv, RowInv
<1> QED BY <1>2, <1>3

LEMMA PromoteKept ==
    ASSUME PassInv, [Next]_vars, NEW a \in Actors, NEW t \in Instants,
           PromoteDiscoveryCandidate(a, t), NEW b \in Actors
    PROVE  RowInv(b)'
<1>0. TypeOK /\ RowInv(b) /\ RowInv(a)
  BY DEF PassInv, IInv
<1>1. CASE candidates'[b] = candidates[b]
  BY <1>0, <1>1, RowKept
<1>2. CASE candidates'[b] # candidates[b]
  <2>1. /\ b = a
        /\ ~PromotionSkipped(a, t)
        /\ candidates'[a] = Resolved(candidates[a], t)
        /\ discoveryEvents' = [discoveryEvents EXCEPT ![a] =
                                 Recorded(@, AddDiscoveryKind(a), t)]
    BY <1>2 DEF PromoteDiscoveryCandidate, PromoteDiscovery, PassInv
  <2>2. t <= discoveryEvents'[a].latest
    BY <1>0, <2>1, RecordedChronological DEF TypeOK
  <2>3. candidates[a].state # "absent" /\ candidates[a].checked < t
    <3>1. candidates[a].checked \in Stamp /\ t \in Nat
      BY <1>0, InstantType DEF RowInv, CandidateInv, CandidateRow
    <3> QED BY <2>1, <3>1 DEF PromotionSkipped, Stamp, Never
  <2> QED BY <1>0, <2>1, <2>2, <2>3, ResolvedKept DEF RowInv
<1> QED BY <1>1, <1>2

LEMMA PassStepKept ==
    ASSUME PassInv, [CandidateNext]_scanVars
    PROVE  PassInv'
<1>1. [Next]_vars
  BY ScanStepImplements DEF PassInv
<1>2. IInv'
  BY <1>1, NextInv DEF PassInv
<1>3. ScanInv' /\ planned' \subseteq Actors
  BY ScanKept, PlannedKept DEF PassInv
<1>4. \A b \in Actors : RowInv(b)'
  <2>0. TAKE b \in Actors
  <2>1. CASE RecordProbe
    <3>1. PICK row \in scan.page :
            \/ PromoteDiscoveryCandidate(row.actor, scan.observed)
            \/ \E s \in FailedStates :
                  RetainDiscoveryCandidate(row.actor, s, scan.observed)
      BY <2>1 DEF RecordProbe, FirstOf
    <3>2. row.actor \in Actors /\ scan.observed \in Instants
      BY <2>1 DEF RecordProbe, PassInv, ScanInv
    <3> QED BY <1>1, <3>1, <3>2, PromoteKept, RetainKept
  <2>2. ASSUME NEW a \in Actors, NEW t \in Instants, NEW s \in FailedStates,
               RetainDiscoveryCandidate(a, s, t)
        PROVE  RowInv(b)'
    BY <2>2, RetainKept
  <2>3. CASE UNCHANGED candidates
    BY <1>1, <2>3, RowKept DEF PassInv, IInv
  <2> QED
    BY <2>1, <2>2, <2>3
       DEF CandidateNext, ScanBegins, BeginScan, ScanStep, ReadCandidatePage, RefuseProbe,
           ScanFails, EndScan, ImportStep, ClassifyKnown, ImportRetains, ImportEnds,
           Meanwhile, scanVars, candidateVars
<1>5. candidates' \in [Actors -> CandidateRow]
  <2>1. candidates' = candidates \/ \E a, x : candidates' = [candidates EXCEPT ![a] = x]
    BY DEF CandidateNext, ScanBegins, BeginScan, ScanStep, ReadCandidatePage, RecordProbe,
           RefuseProbe, PromoteDiscoveryCandidate, RetainDiscoveryCandidate, ScanFails,
           EndScan, ImportStep, ClassifyKnown, ImportRetains, ImportEnds, Meanwhile,
           scanVars, candidateVars
  <2>2. \A a \in Actors : candidates'[a] \in CandidateRow
    BY <1>4 DEF RowInv, CandidateInv
  <2> QED BY <2>1, <2>2 DEF PassInv
<1> QED BY <1>2, <1>3, <1>4, <1>5 DEF PassInv

LEMMA PassInitInv == Init /\ CandidateInit => PassInv
<1> SUFFICES ASSUME Init, CandidateInit PROVE PassInv
  OBVIOUS
<1>1. IInv
  BY InitInv
<1>2. ScanInv
  BY DEF CandidateInit, ScanInv, ScanFields, NoRun
<1>3. NoCandidate \in CandidateRow
  BY NeverType DEF NoCandidate, CandidateRow
<1>4. ASSUME NEW a \in Actors PROVE RowInv(a)
  BY <1>3 DEF Init, CandidateInit, RowInv, CandidateInv, NoCandidate, NoEvents, Never
<1> QED BY <1>1, <1>2, <1>3, <1>4 DEF PassInv, CandidateInit

LEMMA PassInductive == CandidateSpec => []PassInv
BY PassInitInv, PassStepKept, PTL DEF CandidateSpec

(* Imports and passes, stale pages, refused results and failures included,  *)
(* take no step on the relay tables that the repository does not allow.     *)
THEOREM PassImplementsRepository == CandidateSpec => Spec
<1>1. PassInv /\ [CandidateNext]_scanVars => [Next]_vars
  BY ScanStepImplements DEF PassInv
<1> QED BY <1>1, PassInductive, PTL DEF CandidateSpec, Spec

(* No interleaving of imports and passes leaves a candidate row that the    *)
(* schema forbids or that would make a page of candidates unreadable.       *)
THEOREM CandidateSafe == CandidateSpec => []CandidateChecks
<1>1. PassInv => CandidateChecks
  BY DEF PassInv, RowInv, CandidateInv, CandidateChecks
<1> QED BY <1>1, PassInductive, PTL

(* A candidate is resolved only with an audited discovery, and the audit    *)
(* outlives every later purge.                                              *)
THEOREM ResolutionSafe == CandidateSpec => []ResolutionAudited
<1>1. PassInv => ResolutionAudited
  BY DEF PassInv, RowInv, CandidateInv, ResolutionAudited
<1> QED BY <1>1, PassInductive, PTL


-----------------------------------------------------------------------------
(* Exhaustion.  A candidate that was due when the pass began and that       *)
(* neither the pass nor an import has written since lies in the page in     *)
(* hand or ahead of the cursor.                                             *)

CandidateDue(a) ==
    [key |-> <<NextCheck(candidates[a]), Rank[a]>>, actor |-> a]

StillOwed(a) ==
    /\ a \in DueCandidates(scan.observed)
    /\ scan.pc = "read" => Before(scan.cursor, CandidateDue(a).key)
    /\ scan.pc = "attempt" =>
          \/ CandidateDue(a) \in scan.page
          \/ scan.next # Start /\ Before(scan.next, CandidateDue(a).key)

ScanOwed ==
    /\ owed \subseteq Actors
    /\ scan.scanned \in Nat
    /\ scan.pc \in {"read", "attempt"} => \A a \in owed : StillOwed(a)
    /\ scan.pc = "read" => scan.scanned < CandidateBudget
    /\ scan.pc = "attempt" =>
          /\ IsFiniteSet(scan.page) /\ scan.page # {}
          /\ scan.scanned + Cardinality(scan.page) <= CandidateBudget
    /\ scan.pc = "exhausted" => owed = {}

LEMMA LimitLeft ==
    ASSUME NEW scanned \in Nat, NEW page \in Nat \ {0}, NEW budget \in Nat \ {0},
           scanned < budget
    PROVE  /\ Limit(scanned, page, budget) \in Nat \ {0}
           /\ scanned + Limit(scanned, page, budget) <= budget
BY DEF Limit

(* The second a failed candidate is due is a number. *)
LEMMA NextCheckType ==
    ASSUME NEW c \in CandidateRow, c.failures >= 1
    PROVE  NextCheck(c) \in Int
<1>1. c.failures \in Nat /\ c.checked \in Int
  BY DEF CandidateRow, Stamp, Never
<1>2. (IF c.failures <= 4 THEN c.failures ELSE 5) \in 1..5
  BY <1>1
<1> DEFINE k == IF c.failures <= 4 THEN c.failures ELSE 5
<1>3. NextCheck(c) = c.checked + CandidateRetry[k]
  BY DEF NextCheck
<1>4. k \in 1..5
  BY <1>2
<1> HIDE DEF k
<1>5. CandidateRetry[k] \in Nat
  BY <1>4, CandidateAssumption
<1> QED BY <1>1, <1>3, <1>5

LEMMA DueRowsInOrder ==
    ASSUME PassInv, NEW t, NEW cursor, NEW rows, rows = AfterCursor(DueRows(t), cursor)
    PROVE  /\ IsFiniteSet(rows) /\ Chain(rows)
           /\ \A row \in rows : row.actor \in Actors /\ row = CandidateDue(row.actor)
           /\ \A a \in DueCandidates(t) :
                 Before(cursor, CandidateDue(a).key) => CandidateDue(a) \in rows
<1>1. ASSUME NEW row \in rows
      PROVE  /\ row.actor \in DueCandidates(t) /\ row.actor \in Actors
             /\ row = CandidateDue(row.actor)
  BY DEF AfterCursor, DueRows, CandidateDue, DueCandidates
<1>2. ASSUME NEW row \in rows
      PROVE  \E i, j \in Int : row.key = <<i, j>> /\ j = Rank[row.actor]
  <2>1. row.key = <<NextCheck(candidates[row.actor]), Rank[row.actor]>>
    BY <1>1 DEF CandidateDue
  <2>2. candidates[row.actor] \in CandidateRow /\ candidates[row.actor].failures >= 1
    BY <1>1 DEF PassInv, DueCandidates
  <2>3. NextCheck(candidates[row.actor]) \in Int /\ Rank[row.actor] \in Int
    BY <1>1, <2>2, NextCheckType, RankAssumption
  <2> QED BY <2>1, <2>3
<1>3. \A row, other \in rows : row.actor = other.actor => row = other
  BY <1>1
<1> DEFINE f == [row \in rows |-> row.actor]
<1>4. f \in Injection(rows, Actors)
  BY <1>1, <1>3 DEF Injection, IsInjective
<1> HIDE DEF f
<1>5. IsFiniteSet(rows)
  BY <1>4, ActorsFinite, FS_Injection
<1>6. ASSUME NEW row \in rows, NEW other \in rows, row.key = other.key PROVE row = other
  <2>1. PICK i, j \in Int : row.key = <<i, j>> /\ j = Rank[row.actor]
    BY <1>2
  <2>2. PICK k, l \in Int : other.key = <<k, l>> /\ l = Rank[other.actor]
    BY <1>2
  <2>3. <<i, j>> = <<k, l>>
    BY <1>6, <2>1, <2>2
  <2>4. j = l
    BY <2>3
  <2>5. row.actor = other.actor
    BY <1>1, <2>1, <2>2, <2>4, RankAssumption
  <2> QED BY <1>3, <2>5
<1>7. Chain(rows)
  BY <1>2, <1>6, PairChain
<1>8. \A a \in DueCandidates(t) :
          Before(cursor, CandidateDue(a).key) => CandidateDue(a) \in rows
  BY DEF AfterCursor, DueRows, CandidateDue
<1> QED BY <1>1, <1>5, <1>7, <1>8

LEMMA ScanOwedInit == CandidateInit => ScanOwed
BY DEF CandidateInit, NoRun, ScanOwed

(* A candidate nobody has written stays due, where it was. *)
LEMMA ScanOwedStays ==
    ASSUME ScanOwed, scan' = scan, owed' \subseteq owed,
           \A a \in owed' : candidates'[a] = candidates[a]
    PROVE  ScanOwed'
<1>1. ASSUME NEW a \in owed', scan.pc \in {"read", "attempt"}
      PROVE  StillOwed(a)'
  <2>1. a \in Actors /\ StillOwed(a) /\ candidates'[a] = candidates[a]
    BY <1>1 DEF ScanOwed
  <2>2. CandidateDue(a)' = CandidateDue(a)
    BY <2>1 DEF CandidateDue
  <2>3. a \in DueCandidates(scan.observed)'
    BY <2>1 DEF StillOwed, DueCandidates
  <2> QED BY <2>1, <2>2, <2>3 DEF StillOwed
<1> QED BY <1>1 DEF ScanOwed

LEMMA BeginScanOwed ==
    ASSUME NEW t, BeginScan(t)
    PROVE  ScanOwed'
<1>1. /\ scan'.pc = "read" /\ scan'.observed = t /\ scan'.cursor = Start
      /\ scan'.scanned = 0 /\ candidates' = candidates /\ owed' = DueCandidates(t)
  BY DEF BeginScan, NoRun
<1>2. ASSUME NEW a \in owed' PROVE StillOwed(a)'
  <2>1. a \in DueCandidates(scan.observed)'
    BY <1>1 DEF DueCandidates
  <2>2. Before(Start, CandidateDue(a)'.key)
    BY BeforeStart DEF CandidateDue
  <2> QED BY <1>1, <2>1, <2>2 DEF StillOwed
<1>3. owed' \subseteq Actors
  BY <1>1 DEF DueCandidates
<1> QED BY <1>1, <1>2, <1>3, CandidateAssumption DEF ScanOwed

LEMMA ReadScanOwed ==
    ASSUME PassInv, ScanOwed, ReadCandidatePage
    PROVE  ScanOwed'
<1> DEFINE limit == Limit(scan.scanned, CandidatePage, CandidateBudget)
           rows  == AfterCursor(DueRows(scan.observed), scan.cursor)
           page  == PageOf(rows, limit)
           next  == NextCursor(rows, limit)
<1>1. /\ scan.pc = "read" /\ candidates' = candidates /\ owed' = owed
      /\ DOMAIN scan = ScanFields
  BY DEF ReadCandidatePage, PassInv, ScanInv
<1>2. limit \in Nat \ {0} /\ scan.scanned + limit <= CandidateBudget
  BY <1>1, LimitLeft, CandidateAssumption DEF ScanOwed
<1>3. scan' = IF page = {} THEN [scan EXCEPT !.pc = "exhausted"]
              ELSE [scan EXCEPT !.pc = "attempt", !.page = page, !.next = next]
  BY DEF ReadCandidatePage, ScanLimit, ScanRowsLeft
<1> HIDE DEF limit
<1>4. /\ IsFiniteSet(rows) /\ Chain(rows)
      /\ \A a \in DueCandidates(scan.observed) :
            Before(scan.cursor, CandidateDue(a).key) => CandidateDue(a) \in rows
  BY DueRowsInOrder
<1>5. ASSUME NEW a \in owed PROVE a \in Actors /\ StillOwed(a) /\ CandidateDue(a) \in rows
  BY <1>1, <1>4 DEF ScanOwed, StillOwed
<1> HIDE DEF rows
<1>6. CASE page = {}
  <2>1. rows = {}
    BY <1>2, <1>4, <1>6, PageProgress
  <2>2. owed' = {}
    BY <1>1, <1>5, <2>1
  <2>3. scan'.pc = "exhausted" /\ scan'.scanned = scan.scanned
    BY <1>1, <1>3, <1>6 DEF ScanFields
  <2> QED BY <2>2, <2>3 DEF ScanOwed
<1>7. CASE page # {}
  <2>1. /\ scan'.pc = "attempt" /\ scan'.page = page /\ scan'.next = next
        /\ scan'.scanned = scan.scanned /\ scan'.observed = scan.observed
    BY <1>1, <1>3, <1>7 DEF ScanFields
  <2>2. IsFiniteSet(page) /\ Cardinality(page) <= limit
    BY <1>2, <1>4, PageBounded
  <2>3. Cardinality(page) \in Nat
    BY <2>2, FS_CardinalityType
  <2>4. scan.scanned + Cardinality(page) <= CandidateBudget
    BY <1>2, <2>2, <2>3, CandidateAssumption DEF ScanOwed
  <2>5. ASSUME NEW a \in owed' PROVE StillOwed(a)'
    <3>1. StillOwed(a) /\ CandidateDue(a) \in rows
      BY <1>1, <1>5
    <3>2. \/ CandidateDue(a) \in page
          \/ next # Start /\ Before(next, CandidateDue(a).key)
      BY <1>2, <1>4, <3>1, NextCovers
    <3>3. CandidateDue(a)' = CandidateDue(a)
      BY <1>1 DEF CandidateDue
    <3>4. a \in DueCandidates(scan.observed)'
      BY <1>1, <2>1, <3>1 DEF StillOwed, DueCandidates
    <3> HIDE DEF page, next
    <3> QED BY <2>1, <3>2, <3>3, <3>4 DEF StillOwed
  <2> HIDE DEF page, next
  <2> QED BY <1>1, <1>7, <2>1, <2>2, <2>4, <2>5 DEF ScanOwed
<1> QED BY <1>6, <1>7

LEMMA ProbeOwed ==
    ASSUME PassInv, ScanOwed, RecordProbe
    PROVE  ScanOwed'
<1>1. PICK row \in FirstOf(scan.page) :
          /\ \/ PromoteDiscoveryCandidate(row.actor, scan.observed)
             \/ \E s \in FailedStates :
                   RetainDiscoveryCandidate(row.actor, s, scan.observed)
          /\ scan' = Onward(scan, row, CandidateBudget)
          /\ owed' = owed \ {row.actor}
  BY DEF RecordProbe
<1> DEFINE rest == scan.page \ {row}
<1>2. /\ scan.pc = "attempt" /\ row \in scan.page
      /\ DOMAIN scan = ScanFields /\ scan.scanned \in Nat /\ IsFiniteSet(scan.page)
      /\ scan.scanned + Cardinality(scan.page) <= CandidateBudget
  BY <1>1 DEF RecordProbe, FirstOf, PassInv, ScanInv, ScanOwed
<1>3. \A a \in Actors : a # row.actor => candidates'[a] = candidates[a]
  BY <1>1 DEF PromoteDiscoveryCandidate, RetainDiscoveryCandidate, PassInv
<1>4. /\ scan'.scanned = scan.scanned + 1 /\ scan'.observed = scan.observed
      /\ scan'.page = rest /\ scan'.next = scan.next
      /\ scan'.cursor = (IF rest = {} THEN scan.next ELSE scan.cursor)
      /\ scan'.pc = (IF rest # {} THEN "attempt"
                     ELSE IF scan.next = Start THEN "exhausted"
                     ELSE IF scan.scanned + 1 = CandidateBudget THEN "truncated"
                     ELSE "read")
  BY <1>1, <1>2 DEF Onward, ScanFields
<1>5. /\ IsFiniteSet(rest) /\ Cardinality(rest) = Cardinality(scan.page) - 1
      /\ Cardinality(rest) \in Nat
  <2>1. IsFiniteSet(rest) /\ Cardinality(rest) = Cardinality(scan.page) - 1
    BY <1>2, FS_RemoveElement
  <2> HIDE DEF rest
  <2> QED BY <2>1, FS_CardinalityType
<1>6. scan'.scanned \in Nat /\ scan'.scanned + Cardinality(rest) <= CandidateBudget
  <2>1. Cardinality(scan.page) \in Nat
    BY <1>2, FS_CardinalityType
  <2> HIDE DEF rest
  <2> QED BY <1>2, <1>4, <1>5, <2>1, CandidateAssumption
<1>7. ASSUME NEW a \in owed'
      PROVE  /\ a \in Actors
             /\ CandidateDue(a)' = CandidateDue(a)
             /\ a \in DueCandidates(scan.observed)'
             /\ \/ CandidateDue(a) \in rest
                \/ scan.next # Start /\ Before(scan.next, CandidateDue(a).key)
  <2>1. a \in Actors /\ a # row.actor /\ StillOwed(a)
    BY <1>1, <1>2, <1>7 DEF ScanOwed
  <2>2. candidates'[a] = candidates[a]
    BY <1>3, <2>1
  <2>3. CandidateDue(a)' = CandidateDue(a)
    BY <2>2 DEF CandidateDue
  <2>4. a \in DueCandidates(scan.observed)'
    BY <1>4, <2>1, <2>2 DEF StillOwed, DueCandidates
  <2>5. CandidateDue(a).actor = a
    BY DEF CandidateDue
  <2>6. CandidateDue(a) # row
    BY <2>1, <2>5
  <2> QED BY <1>2, <2>1, <2>3, <2>4, <2>6 DEF StillOwed
<1> HIDE DEF rest
<1>8. ASSUME NEW a \in owed', scan'.pc \in {"read", "attempt"} PROVE StillOwed(a)'
  <2>1. CASE rest = {}
    BY <1>4, <1>7, <1>8, <2>1 DEF StillOwed
  <2>2. CASE rest # {}
    BY <1>4, <1>7, <1>8, <2>2 DEF StillOwed
  <2> QED BY <2>1, <2>2
<1>9. scan'.pc = "exhausted" => owed' = {}
  BY <1>4, <1>7
<1>10. scan'.pc = "read" => scan'.scanned < CandidateBudget
  BY <1>4, <1>5, <1>6, CandidateAssumption
<1>11. scan'.pc = "attempt" => rest # {}
  BY <1>4
<1>12. owed' \subseteq Actors
  BY <1>7
<1> QED BY <1>4, <1>5, <1>6, <1>8, <1>9, <1>10, <1>11, <1>12 DEF ScanOwed

LEMMA ImportOwed ==
    ASSUME PassInv, ScanOwed, ImportStep
    PROVE  ScanOwed'
<1>1. ASSUME NEW a \in Actors, NEW t \in Instants, ImportRetains(a, t)
      PROVE  ScanOwed'
  <2>1. owed' = owed \ {a} /\ scan' = scan
    BY <1>1 DEF ImportRetains
  <2>2. \A b \in Actors : b # a => candidates'[b] = candidates[b]
    BY <1>1 DEF ImportRetains, RetainDiscoveryCandidate, PassInv
  <2>3. \A b \in owed' : candidates'[b] = candidates[b]
    BY <2>1, <2>2 DEF ScanOwed
  <2> QED BY <2>1, <2>3, ScanOwedStays
<1>2. CASE UNCHANGED <<candidates, scan, owed>>
  BY <1>2, ScanOwedStays
<1> QED BY <1>1, <1>2 DEF ImportStep, ClassifyKnown, ImportEnds

LEMMA ScanOwedStep ==
    ASSUME PassInv, ScanOwed, [CandidateNext]_scanVars
    PROVE  ScanOwed'
<1>1. CASE ScanBegins
  BY <1>1, BeginScanOwed DEF ScanBegins
<1>2. CASE ReadCandidatePage
  BY <1>2, ReadScanOwed
<1>3. CASE RecordProbe
  BY <1>3, ProbeOwed
<1>4. CASE RefuseProbe
  <2>1. scan'.pc = "refused" /\ scan'.scanned = scan.scanned /\ owed' = owed
    BY <1>4 DEF RefuseProbe, PassInv, ScanInv, ScanFields
  <2> QED BY <2>1 DEF ScanOwed
<1>5. CASE ScanFails \/ EndScan
  <2>1. scan' = NoRun /\ owed' = owed
    BY <1>5 DEF ScanFails, EndScan
  <2> QED BY <2>1 DEF NoRun, ScanOwed
<1>6. CASE ImportStep
  BY <1>6, ImportOwed
<1>7. CASE UNCHANGED <<candidates, scan, owed>>
  BY <1>7, ScanOwedStays
<1> QED
  BY <1>1, <1>2, <1>3, <1>4, <1>5, <1>6, <1>7
     DEF CandidateNext, ScanStep, Meanwhile, scanVars, candidateVars

(* A pass that ends with its candidates exhausted has tried every one that  *)
(* was due when it began and that no import has written since, although its *)
(* own results, and results it skips, move candidates in the order it pages *)
(* by.                                                                      *)
THEOREM ScanExhaustive == CandidateSpec => []ScanIsExhaustive
<1>1. ScanOwed => ScanIsExhaustive
  BY DEF ScanOwed, ScanIsExhaustive
<1> QED
  BY <1>1, PassInductive, ScanOwedInit, ScanOwedStep, PTL DEF CandidateSpec

=============================================================================
