--------------------------- MODULE ReachabilityRun ---------------------------
(***************************************************************************)
(* The reachability worker: reachability.Run and the loop around it        *)
(* (internal/reachability/run.go,                                          *)
(* cmd/activity-relay-directory/reachability_maintenance.go).              *)
(*                                                                         *)
(* A pass captures one observation time, reads keyset pages of due actors, *)
(* probes a page over the network without any lock and records the results *)
(* one transaction at a time in candidate order.  The answer of a probe    *)
(* does not depend on the database, so it is chosen when it is recorded.   *)
(* The coverage gate is the process-local memory of the last pass that     *)
(* looked at the whole due set.                                            *)
(***************************************************************************)
EXTENDS CandidateRun

CONSTANTS
    ReachabilityPage,   \* storage.MaximumReachabilityCandidatePage, 24
    ReachabilityBudget  \* storage.MaximumReachabilityAttemptsPerRun, 96

ASSUME ReachabilityAssumption ==
    /\ ReachabilityPage \in Nat \ {0}
    /\ ReachabilityBudget \in Nat \ {0}

VARIABLES
    pass,  \* the local variables of reachability.Run
    gate   \* reachabilityCoverageGate

NotReady == [ready |-> FALSE, observed |-> Never, completed |-> Never]

PassInit == pass = NoRun /\ gate = NotReady

-----------------------------------------------------------------------------
(* Due actors: never checked first, then by oldest check, then by URL. *)
DueRows(t) ==
    {[key   |-> <<observations[a].checked, Rank[a]>>,
      actor |-> a] : a \in {b \in Actors : ReachabilityDue(b, t)}}

(* Checked by ReachabilityCandidates of every row it reads, the one beyond  *)
(* the page included, and again by validatePage.                            *)
NoneTooSoon(rows, t) ==
    \A row \in rows : row.key[1] # Never => row.key[1] <= t - FailureRetryMinimum

BeginPass(t) ==
    /\ pass.pc = "waiting"
    /\ pass' = [NoRun EXCEPT !.pc = "read", !.observed = t]
    /\ UNCHANGED <<vars, gate>>

PassLimit    == Limit(pass.scanned, ReachabilityPage, ReachabilityBudget)
PassRowsLeft == AfterCursor(DueRows(pass.observed), pass.cursor)

(* What the pass checks of the page it is about to read. *)
PassPageAccepted ==
    /\ NoneTooSoon(PageOf(PassRowsLeft, PassLimit + 1), pass.observed)
    /\ WellFormedPage(PageOf(PassRowsLeft, PassLimit), NextCursor(PassRowsLeft, PassLimit),
                      pass.cursor, PassLimit)

ReadReachabilityPage ==
    LET page == PageOf(PassRowsLeft, PassLimit)
        next == NextCursor(PassRowsLeft, PassLimit)
    IN  /\ pass.pc = "read"
        /\ PassPageAccepted
        /\ pass' = IF page = {}
                   THEN [pass EXCEPT !.pc = "exhausted"]
                   ELSE [pass EXCEPT !.pc = "attempt", !.page = page, !.next = next]
        /\ UNCHANGED <<vars, gate>>

(* A result the transaction skips: the actor is no longer eligible, or an   *)
(* equal or newer check has been recorded meanwhile.                        *)
ResultSkipped(a, t) == ~ReachabilityEligible(a) \/ observations[a].checked >= t

RecordResult ==
    /\ pass.pc = "attempt"
    /\ \E row \in FirstOf(pass.page) :
          /\ \/ \E s \in Reached, i \in Inboxes \cup {NoInbox} :
                   RecordReachabilityObservation(row.actor, s, i, pass.observed)
             \/ ResultSkipped(row.actor, pass.observed) /\ UNCHANGED vars
          /\ pass' = Onward(pass, row, ReachabilityBudget)
    /\ UNCHANGED gate

(* Mutant: a failed page is tried again. *)
PassFailsRetries ==
    /\ pass.pc \in {"read", "attempt"}
    /\ pass' = [pass EXCEPT !.pc = "read", !.page = {}, !.next = Start]
    /\ UNCHANGED <<vars, gate>>

(* A failed read, an invalid page, a local probe failure or a failed write  *)
(* ends the pass; what it recorded before stays.                            *)
PassFails ==
    /\ pass.pc \in {"read", "attempt"}
    /\ pass' = NoRun
    /\ UNCHANGED <<vars, gate>>

(* Mutant: a truncated pass opens the gate too. *)
CoversDueSetTruncated(run) == run.pc \in {"exhausted", "truncated"}

(* Only a pass that was not truncated has looked at the whole due set. *)
CoversDueSet(run) == run.pc = "exhausted"

(* The gate opens at the captured time of the pass.  A clock that was       *)
(* stepped back during the pass leaves it alone.                            *)
EndPass(now) ==
    /\ pass.pc \in {"exhausted", "truncated"}
    /\ gate' = IF CoversDueSet(pass) /\ pass.observed <= now
               THEN [ready |-> TRUE, observed |-> pass.observed, completed |-> now]
               ELSE gate
    /\ pass' = NoRun
    /\ UNCHANGED vars

(* ObservationForPruning: the gate's answer at wall-clock time now. *)
Covered(now) ==
    /\ gate.ready
    /\ gate.observed <= now
    /\ gate.completed <= now
    /\ now - gate.observed <= ReachabilityFreshness
    /\ now - gate.completed <= ReachabilityFreshness
=============================================================================
