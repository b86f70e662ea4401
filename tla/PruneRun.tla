------------------------------ MODULE PruneRun ------------------------------
(***************************************************************************)
(* One soft-pruning run: pruning.Run (internal/pruning/run.go).  Keyset    *)
(* pages of silent relays are read without any lock, and every candidate   *)
(* is revalidated by the SoftPrune transaction that prunes it, all against *)
(* the one observation time the run was given.                             *)
(***************************************************************************)
EXTENDS CandidateRun

CONSTANTS
    PrunePage,   \* storage.MaximumPruneCandidatePage, 100
    PruneBudget  \* storage.MaximumSoftPruneAttemptsPerRun, 1000

ASSUME PruneAssumption ==
    /\ PrunePage \in Nat \ {0}
    /\ PruneBudget \in Nat \ {0}

VARIABLE prune  \* the local variables of pruning.Run

PruneInit == prune = NoRun

-----------------------------------------------------------------------------
(* Candidates in the order of last-seen time and actor URL. *)
PruneRows(t) ==
    {[key   |-> <<relays[a].seen, Rank[a]>>,
      actor |-> a] : a \in {b \in Actors : PruneCandidate(b, t)}}

BeginPrune(t) ==
    /\ prune.pc = "waiting"
    /\ prune' = [NoRun EXCEPT !.pc = "read", !.observed = t]
    /\ UNCHANGED vars

PruneLimit    == Limit(prune.scanned, PrunePage, PruneBudget)
PruneRowsLeft == AfterCursor(PruneRows(prune.observed), prune.cursor)

(* What the run checks of the page it is about to read. *)
PrunePageAccepted ==
    LET page == PageOf(PruneRowsLeft, PruneLimit) IN
    /\ WellFormedPage(page, NextCursor(PruneRowsLeft, PruneLimit), prune.cursor, PruneLimit)
    /\ \A row \in page : row.key[1] <= prune.observed - DeadBefore

ReadPrunePage ==
    LET page == PageOf(PruneRowsLeft, PruneLimit)
        next == NextCursor(PruneRowsLeft, PruneLimit)
    IN  /\ prune.pc = "read"
        /\ PrunePageAccepted
        /\ prune' = IF page = {}
                    THEN [prune EXCEPT !.pc = "exhausted"]
                    ELSE [prune EXCEPT !.pc = "attempt", !.page = page, !.next = next]
        /\ UNCHANGED vars

(* The transaction finds the relay already pruned, no longer eligible, or   *)
(* changed after the observation time.                                      *)
PruneSkipped(a, t) == ~PruneCandidate(a, t) \/ ~MonotonicTime(a, t)

PruneNext ==
    /\ prune.pc = "attempt"
    /\ \E row \in FirstOf(prune.page) :
          /\ \/ SoftPrune(row.actor, prune.observed)
             \/ PruneSkipped(row.actor, prune.observed) /\ UNCHANGED vars
          /\ prune' = Onward(prune, row, PruneBudget)

(* A failed read, an invalid page, a failed or interrupted transaction. *)
PruneFails ==
    /\ prune.pc \in {"read", "attempt"}
    /\ prune' = NoRun
    /\ UNCHANGED vars

EndPrune ==
    /\ prune.pc \in {"exhausted", "truncated"}
    /\ prune' = NoRun
    /\ UNCHANGED vars
=============================================================================
