---------------------------- MODULE CandidatePass ----------------------------
(***************************************************************************)
(* Retained discovery candidates: the operator's import that keeps dead    *)
(* relays for later, and the worker that retries and promotes them         *)
(* (internal/storage/sqlite/discovery_candidate.go,                        *)
(* internal/candidatemaintenance/run.go, internal/discoverycommand and     *)
(* cmd/activity-relay-directory/candidate_maintenance.go).                 *)
(*                                                                         *)
(* An import probes and classifies every relay of its file, asks for       *)
(* confirmation and only then writes.  A pass of the worker captures one   *)
(* observation time, reads keyset pages of due candidates, probes a page   *)
(* over the network without any lock and writes the results one            *)
(* transaction at a time.  The answer of a probe does not depend on the    *)
(* database, so it is chosen when it is written.  The append-only          *)
(* candidate events hold only provenance and are left out.                 *)
(***************************************************************************)
EXTENDS CandidateRun

CONSTANTS
    CandidatePage,    \* storage.MaximumDiscoveryCandidatePage, 24
    CandidateBudget,  \* storage.MaximumDiscoveryCandidateAttempts, 96
    CandidateRetry    \* DiscoveryCandidateRetryOne to Long: 6, 12, 24, 72 hours, 7 days

ASSUME CandidateAssumption ==
    /\ CandidatePage \in Nat \ {0}
    /\ CandidateBudget \in Nat \ {0}
    /\ CandidateRetry \in [1..5 -> Nat \ {0}]

VARIABLES
    candidates,  \* table relay_discovery_candidates
    planned,     \* relays an import has classified as dead and not yet known
    scan,        \* the local variables of candidatemaintenance.Run
    owed         \* history: candidates due when the pass began, unchanged since

candidateVars == <<candidates, planned, scan, owed>>
scanVars      == <<vars, candidateVars>>

-----------------------------------------------------------------------------
FailedStates == {"unreachable", "incompatible"}

(* updated_at_unix is always written with last_checked_at_unix, and the     *)
(* failure code with the state.                                             *)
CandidateRow ==
    [state    : FailedStates \cup {"absent", "resolved"},
     first    : Stamp,   \* first_seen_at_unix
     checked  : Stamp,
     success  : Stamp,
     failures : Nat]

NoCandidate == [state |-> "absent", first |-> Never, checked |-> Never,
                success |-> Never, failures |-> 0]

CandidateTypeOK == candidates \in [Actors -> CandidateRow]

CandidateInit ==
    /\ candidates = [a \in Actors |-> NoCandidate]
    /\ planned = {}
    /\ scan = NoRun
    /\ owed = {}

(* Mutant: the commit order decides. *)
RetainAcceptsAny(a, t) == TRUE

(* RetainDiscoveryCandidate refuses a check older than the last one... *)
RetainAccepts(a, t) == t >= candidates[a].checked

(* ... and otherwise adds the candidate, or counts another failure, also of *)
(* a resolved one.                                                          *)
Retained(row, state, t) ==
    [row EXCEPT !.state    = state,
                !.first    = IF row.state = "absent" THEN t ELSE @,
                !.checked  = t,
                !.failures = @ + 1]

RetainDiscoveryCandidate(a, state, t) ==
    /\ RetainAccepts(a, t)
    /\ candidates' = [candidates EXCEPT ![a] = Retained(@, state, t)]
    /\ UNCHANGED vars

-----------------------------------------------------------------------------
(* The operator's import with --add-dead-relays, in a process of its own.   *)

(* An active discovery or a registered relay is already known. *)
ClassifyKnown(a) ==
    /\ discoveries[a].state # "active"
    /\ relays[a].lifecycle # "registered"
    /\ planned' = planned \cup {a}
    /\ UNCHANGED <<vars, candidates, scan, owed>>

(* The write after the confirmation.  A refused one is reported, and the    *)
(* import goes on with the next relay.                                      *)
ImportRetains(a, t) ==
    /\ a \in planned
    /\ planned' = planned \ {a}
    /\ \/ \E s \in FailedStates : RetainDiscoveryCandidate(a, s, t)
       \/ ~RetainAccepts(a, t) /\ UNCHANGED <<vars, candidates>>
    /\ owed' = owed \ {a}
    /\ UNCHANGED scan

(* Not confirmed, or the command dies. *)
ImportEnds ==
    /\ planned # {}
    /\ planned' = {}
    /\ UNCHANGED <<vars, candidates, scan, owed>>

-----------------------------------------------------------------------------
(* The worker.                                                              *)

NextCheck(row) ==
    row.checked + CandidateRetry[IF row.failures <= 4 THEN row.failures ELSE 5]

DueCandidates(t) ==
    {a \in Actors : /\ candidates[a].state \notin {"absent", "resolved"}
                    /\ candidates[a].failures >= 1
                    /\ NextCheck(candidates[a]) <= t}

DueRows(t) ==
    {[key   |-> <<NextCheck(candidates[a]), Rank[a]>>,
      actor |-> a] : a \in DueCandidates(t)}

(* validDiscoveryCandidateCheck, of every row read. *)
ValidCheck(row, t) ==
    LET c == candidates[row.actor] IN
    /\ c.state \in FailedStates
    /\ 0 <= c.first
    /\ c.first <= c.checked
    /\ c.checked <= row.key[1]
    /\ row.key[1] <= t

BeginScan(t) ==
    /\ scan.pc = "waiting"
    /\ scan' = [NoRun EXCEPT !.pc = "read", !.observed = t]
    /\ owed' = DueCandidates(t)
    /\ UNCHANGED <<vars, candidates, planned>>

ScanLimit    == Limit(scan.scanned, CandidatePage, CandidateBudget)
ScanRowsLeft == AfterCursor(DueRows(scan.observed), scan.cursor)

(* What the pass checks of the page it is about to read. *)
ScanPageAccepted ==
    /\ \A row \in PageOf(ScanRowsLeft, ScanLimit + 1) : ValidCheck(row, scan.observed)
    /\ WellFormedPage(PageOf(ScanRowsLeft, ScanLimit), NextCursor(ScanRowsLeft, ScanLimit),
                      scan.cursor, ScanLimit)

ReadCandidatePage ==
    LET page == PageOf(ScanRowsLeft, ScanLimit)
        next == NextCursor(ScanRowsLeft, ScanLimit)
    IN  /\ scan.pc = "read"
        /\ ScanPageAccepted
        /\ scan' = IF page = {}
                   THEN [scan EXCEPT !.pc = "exhausted"]
                   ELSE [scan EXCEPT !.pc = "attempt", !.page = page, !.next = next]
        /\ UNCHANGED <<vars, candidates, planned, owed>>

(* Something newer is known of the candidate, the discovery or the actor.   *)
PromotionSkipped(a, t) ==
    \/ candidates[a].state \in {"absent", "resolved"}
    \/ candidates[a].checked >= t
    \/ ~MonotonicDiscoveryTime(a, t)
    \/ observations[a].checked >= t

Resolved(row, t) ==
    [row EXCEPT !.state = "resolved", !.checked = t, !.success = t]

(* Mutant: the candidate is resolved in a transaction of its own, before    *)
(* the discovery is looked at.                                              *)
PromoteResolvesFirst(a, t) ==
    /\ candidates[a].state \notin {"absent", "resolved"}
    /\ candidates[a].checked < t
    /\ candidates' = [candidates EXCEPT ![a] = Resolved(@, t)]
    /\ \/ \E i \in Inboxes \cup {NoInbox} : PromoteDiscovery(a, i, t)
       \/ UNCHANGED vars

(* The actor answered. *)
PromoteDiscoveryCandidate(a, t) ==
    \/ /\ ~PromotionSkipped(a, t)
       /\ \E i \in Inboxes \cup {NoInbox} : PromoteDiscovery(a, i, t)
       /\ candidates' = [candidates EXCEPT ![a] = Resolved(@, t)]
    \/ /\ PromotionSkipped(a, t)
       /\ UNCHANGED <<vars, candidates>>

(* The result of one probe, in the order of the page. *)
RecordProbe ==
    /\ scan.pc = "attempt"
    /\ \E row \in FirstOf(scan.page) :
          /\ \/ PromoteDiscoveryCandidate(row.actor, scan.observed)
             \/ \E s \in FailedStates :
                   RetainDiscoveryCandidate(row.actor, s, scan.observed)
          /\ scan' = Onward(scan, row, CandidateBudget)
          /\ owed' = owed \ {row.actor}
    /\ UNCHANGED planned

(* The transaction of a result returns an error that is no storage failure: *)
(* a failed check is older than the candidate's last one, or the promoted   *)
(* row would break its CHECK.  The error ends the pass.                     *)
RefuseProbe ==
    /\ scan.pc = "attempt"
    /\ \E row \in FirstOf(scan.page) :
          \/ ~RetainAccepts(row.actor, scan.observed)
          \/ /\ ~PromotionSkipped(row.actor, scan.observed)
             /\ ~PromotionFits(row.actor, scan.observed)
    /\ scan' = [scan EXCEPT !.pc = "refused"]
    /\ UNCHANGED <<vars, candidates, planned, owed>>

(* Mutant: a failed page is tried again. *)
ScanFailsRetries ==
    /\ scan.pc \in {"read", "attempt"}
    /\ scan' = [scan EXCEPT !.pc = "read", !.page = {}, !.next = Start]
    /\ UNCHANGED <<vars, candidates, planned, owed>>

(* A failed read or write, an invalid page, a canceled probe, or the end of *)
(* the process.                                                             *)
ScanFails ==
    /\ scan.pc \in {"read", "attempt"}
    /\ scan' = NoRun
    /\ UNCHANGED <<vars, candidates, planned, owed>>

EndScan ==
    /\ scan.pc \in {"exhausted", "truncated", "refused"}
    /\ scan' = NoRun
    /\ UNCHANGED <<vars, candidates, planned, owed>>

ScanStep == ReadCandidatePage \/ RecordProbe \/ RefuseProbe \/ ScanFails \/ EndScan

-----------------------------------------------------------------------------
ScanBegins == \E t \in Instants : BeginScan(t)

ImportStep ==
    \/ \E a \in Actors : ClassifyKnown(a)
    \/ \E a \in Actors, t \in Instants : ImportRetains(a, t)
    \/ ImportEnds

(* Any other transaction of the directory. *)
Meanwhile(step) == step /\ UNCHANGED candidateVars

CandidateNext ==
    \/ ScanBegins
    \/ ScanStep
    \/ ImportStep
    \/ Meanwhile(\E a \in Actors, t \in Instants : ServiceStep(a, t))
    \/ Meanwhile(\E open \in BOOLEAN, t \in Instants : SetEnrollment(open, t))
    \/ Meanwhile(PurgeStep)

(* A pass that has begun keeps taking steps. *)
CandidateSpec ==
    /\ Init /\ CandidateInit
    /\ [][CandidateNext]_scanVars
    /\ WF_scanVars(ScanStep)

-----------------------------------------------------------------------------
(* Properties.                                                              *)

(* Every candidate row that imports and passes leave behind, whatever order *)
(* their times come in, satisfies the CHECK constraints of migration 0009   *)
(* and stays readable: validDiscoveryCandidateCheck fails the whole page,   *)
(* and with it every retry, on one row that does not.                       *)
CandidateChecks ==
    \A a \in Actors :
        LET c == candidates[a] IN
        c.state # "absent" =>
            /\ 0 <= c.first
            /\ c.first <= c.checked
            /\ c.success # Never => c.first <= c.success /\ c.success <= c.checked
            /\ c.state = "resolved" => c.success # Never
            /\ c.state \in FailedStates => c.failures >= 1

(* A candidate has succeeded only in a transaction that audited the         *)
(* discovery of its actor: no candidate is resolved on a promotion that was *)
(* skipped, so none is lost between the two tables.                         *)
ResolutionAudited ==
    \A a \in Actors : candidates[a].success <= discoveryEvents[a].latest

(* A pass that ends neither truncated nor on an error has tried every       *)
(* candidate that was due when it began and that no import has touched,     *)
(* although its own writes move candidates in the order it pages by.        *)
ScanIsExhaustive == scan.pc = "exhausted" => owed = {}

(* A pass comes to an end whatever the directory does meanwhile. *)
ScanReturns == scan.pc # "waiting" ~> scan.pc = "waiting"

(* DISCOVERY-REACHABILITY.md, of background maintenance: "Failure of one    *)
(* relay does not abort unrelated candidates."                              *)
FailureContained ==
    scan.pc = "refused" => Cardinality(scan.page) = 1 /\ scan.next = Start
=============================================================================
