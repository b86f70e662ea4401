---------------------------- MODULE RetentionRun ----------------------------
(***************************************************************************)
(* Hard retention: retention.Run and its retention_runs audit              *)
(* (internal/retention/run.go, internal/storage/sqlite/retention.go).      *)
(*                                                                         *)
(* A run records itself, then alternates between reading a page of         *)
(* candidates without any lock and deleting that page in one transaction   *)
(* that revalidates every candidate and checkpoints the run, and finally   *)
(* closes its audit row.  Between any two of these steps the directory     *)
(* serves requests, a second operator may run the same command, a read or  *)
(* a transaction may fail, and the process may die.                        *)
(*                                                                         *)
(* purged_lifecycle_events, a count that is only copied and compared, and  *)
(* the oldest and newest inactive times of the report are left out.        *)
(***************************************************************************)
EXTENDS CandidateRun

CONSTANTS
    Runs,           \* invocations of the purge command
    PageLimit,      \* storage.MaximumPurgeCandidatePage, 100
    MaxAttempts,    \* storage.MaximumPurgeAttemptsPerRun, 1000
    RetentionTime   \* DIRECTORY_INACTIVE_RETENTION_DAYS, as seconds

ASSUME RetentionAssumption ==
    /\ PageLimit \in Nat \ {0}
    /\ MaxAttempts \in Nat \ {0}
    /\ RetentionTime \in Nat

VARIABLES
    runs,     \* the local variables of every retention.Run
    audits,   \* table retention_runs
    touched,  \* history: rows changed since a run read its page
    owed,     \* history: rows eligible when a run began and unchanged since
    deleted   \* history: rows a run has deleted

runVars == <<runs, audits, touched, owed, deleted>>
allVars == <<vars, runVars>>

-----------------------------------------------------------------------------
NoCounts == [scanned |-> 0, relays |-> 0, discoveries |-> 0, observations |-> 0,
             skipped |-> 0, batches |-> 0, truncated |-> FALSE]

NotStarted == [pc |-> "idle", cutoff |-> 0, cursor |-> Start, page |-> {},
               next |-> Start, err |-> "none", result |-> NoCounts]

NoAudit == [outcome |-> "none", counts |-> NoCounts]

NoneDeleted == [relays |-> 0, discoveries |-> 0, observations |-> 0]

RunInit ==
    /\ runs = [r \in Runs |-> NotStarted]
    /\ audits = [r \in Runs |-> NoAudit]
    /\ touched = [r \in Runs |-> {}]
    /\ owed = [r \in Runs |-> {}]
    /\ deleted = [r \in Runs |-> NoneDeleted]

(* The rows, as pairs of an actor and a candidate kind, that a step changes *)
(* in any way, the events and the observation that go with them included.   *)
Changed ==
    {x \in Actors \X CandidateKinds :
        \/ observations'[x[1]] # observations[x[1]]
        \/ /\ x[2] = "lifecycle"
           /\ \/ relays'[x[1]] # relays[x[1]]
              \/ relayEvents'[x[1]] # relayEvents[x[1]]
              \/ moderationEvents'[x[1]] # moderationEvents[x[1]]
        \/ /\ x[2] = "discovery"
           /\ \/ discoveries'[x[1]] # discoveries[x[1]]
              \/ discoveryEvents'[x[1]] # discoveryEvents[x[1]]}

(* The history of a step that begins no run and reads no page. *)
Witnessed ==
    /\ touched' = [r \in Runs |-> touched[r] \cup Changed]
    /\ owed' = [r \in Runs |-> owed[r] \ Changed]

-----------------------------------------------------------------------------
(* Candidate rows with the keyset order (inactive time, actor, kind). *)
CandidateRows(cutoff) ==
    {[key |-> <<c.inactive, Rank[c.actor], IF c.kind = "discovery" THEN 0 ELSE 1>>,
      candidate |-> c] : c \in PurgeCandidates(cutoff)}

Candidates(page) == {row.candidate : row \in page}

(* PurgeCandidate.Valid, tested when a page is read, when the run receives  *)
(* it and when it is handed to PurgeBatch.                                  *)
Valid(c) ==
    /\ 0 <= c.inactive
    /\ c.inactive <= c.updated
    /\ c.kind = "lifecycle" => c.state \in {"unregistered", "pruned"}

(* validatePage: a full page at most, candidates old enough and all beyond  *)
(* the cursor, and a next cursor that is the last row's position.           *)
ValidPage(page, next, cursor, limit, cutoff) ==
    /\ WellFormedPage(page, next, cursor, limit)
    /\ \A row \in page : /\ Valid(row.candidate)
                         /\ row.candidate.inactive <= cutoff

BeginRetentionRun(r, observed) ==
    /\ runs[r].pc = "idle"
    /\ RetentionTime <= observed
    /\ LET cutoff == observed - RetentionTime IN
       /\ runs' = [runs EXCEPT ![r].pc = "read", ![r].cutoff = cutoff]
       /\ owed' = [owed EXCEPT ![r] = {x \in Actors \X CandidateKinds :
                                         PurgeEligible(x[1], x[2], cutoff)}]
    /\ audits' = [audits EXCEPT ![r].outcome = "running"]
    /\ UNCHANGED <<vars, touched, deleted>>

(* The error of a step that fails, or the interrupt seen between two steps. *)
Errors == {"failed", "canceled"}

ReadFails(r, err) ==
    /\ runs[r].pc = "read"
    /\ runs' = [runs EXCEPT ![r].pc = "finish", ![r].err = err]
    /\ UNCHANGED <<vars, audits, touched, owed, deleted>>

(* One keyset page.  The counts of the page are taken before it is purged.  *)
ReadPage(r) ==
    LET run   == runs[r]
        limit == Limit(run.result.scanned, PageLimit, MaxAttempts)
        rows  == AfterCursor(CandidateRows(run.cutoff), run.cursor)
        page  == PageOf(rows, limit)
        next  == NextCursor(rows, limit)
    IN  /\ run.pc = "read"
        /\ \/ /\ ~ValidPage(page, next, run.cursor, limit, run.cutoff)
              /\ runs' = [runs EXCEPT ![r].pc = "finish", ![r].err = "invalid"]
           \/ /\ ValidPage(page, next, run.cursor, limit, run.cutoff)
              /\ page = {}
              /\ runs' = [runs EXCEPT ![r].pc = "finish"]
           \/ /\ ValidPage(page, next, run.cursor, limit, run.cutoff)
              /\ page # {}
              /\ runs' = [runs EXCEPT ![r].pc   = "purge",
                                      ![r].page = page,
                                      ![r].next = next,
                                      ![r].result.batches = @ + 1,
                                      ![r].result.scanned = @ + Cardinality(page)]
        /\ touched' = [touched EXCEPT ![r] = {}]
        /\ UNCHANGED <<vars, audits, owed, deleted>>

(* Mutant: every candidate of the page counts as deleted. *)
BatchResultUnchecked(batch, cutoff) ==
    [attempted    |-> Cardinality(batch),
     relays       |-> Cardinality({c \in batch : c.kind = "lifecycle"}),
     discoveries  |-> Cardinality({c \in batch : c.kind = "discovery"}),
     observations |-> 0,
     skipped      |-> 0]

(* The counts of one committed batch. *)
BatchResult(batch, cutoff) ==
    LET lifecycle == PurgedActors(batch, "lifecycle", cutoff)
        discovery == PurgedActors(batch, "discovery", cutoff)
        primary   == Cardinality(lifecycle) + Cardinality(discovery)
    IN  [attempted    |-> Cardinality(batch),
         relays       |-> Cardinality(lifecycle),
         discoveries  |-> Cardinality(discovery),
         observations |-> Cardinality({a \in UnownedActors(lifecycle, discovery) :
                                         HasObservation(a)}),
         skipped      |-> Cardinality(batch) - primary]

(* The checks of the run on the result of a batch. *)
ValidBatch(batch, b) ==
    /\ b.attempted = Cardinality(batch)
    /\ b.skipped >= 0
    /\ b.observations <= b.relays + b.discoveries
    /\ b.relays + b.discoveries + b.skipped = b.attempted

(* Mutant: discoveries are not counted. *)
CheckpointedRelaysOnly(counts, b) ==
    [counts EXCEPT !.scanned      = @ + b.attempted,
                   !.relays       = @ + b.relays,
                   !.observations = @ + b.observations,
                   !.skipped      = @ + b.skipped,
                   !.batches      = @ + 1]

(* The transaction that deletes a page and checkpoints the run.             *)
Checkpointed(counts, b) ==
    [counts EXCEPT !.scanned      = @ + b.attempted,
                   !.relays       = @ + b.relays,
                   !.discoveries  = @ + b.discoveries,
                   !.observations = @ + b.observations,
                   !.skipped      = @ + b.skipped,
                   !.batches      = @ + 1]

(* Mutant: the run forgets what it skipped. *)
AccumulatedWithoutSkips(result, b, truncated) ==
    [result EXCEPT !.relays       = @ + b.relays,
                   !.discoveries  = @ + b.discoveries,
                   !.observations = @ + b.observations,
                   !.truncated    = truncated]

Accumulated(result, b, truncated) ==
    [result EXCEPT !.relays       = @ + b.relays,
                   !.discoveries  = @ + b.discoveries,
                   !.observations = @ + b.observations,
                   !.skipped      = @ + b.skipped,
                   !.truncated    = truncated]

DeletedNow ==
    [relays       |-> Cardinality({a \in Actors : HasRelay(a) /\ ~HasRelay(a)'}),
     discoveries  |-> Cardinality({a \in Actors : HasDiscovery(a) /\ ~HasDiscovery(a)'}),
     observations |-> Cardinality({a \in Actors : HasObservation(a) /\ ~HasObservation(a)'})]

(* Mutant: the end of a page is taken for the end of the candidates. *)
AfterBatchOnePage(run, b) ==
    [run EXCEPT !.pc     = "finish",
                !.page   = {},
                !.next   = Start,
                !.result = Accumulated(@, b, FALSE)]

(* The run after a committed batch b: over, truncated by its budget, or on  *)
(* to the next page.                                                        *)
AfterBatch(run, b) ==
    LET last      == run.next = Start
        truncated == ~last /\ run.result.scanned = MaxAttempts
    IN  [run EXCEPT !.pc     = IF last \/ truncated THEN "finish" ELSE "read",
                    !.cursor = IF last THEN @ ELSE run.next,
                    !.page   = {},
                    !.next   = Start,
                    !.result = Accumulated(@, b, truncated)]

PurgePage(r) ==
    LET run   == runs[r]
        batch == Candidates(run.page)
        b     == BatchResult(batch, run.cutoff)
    IN  /\ run.pc = "purge"
        /\ audits[r].outcome = "running"
        /\ PurgeBatch(batch, run.cutoff)
        /\ audits' = [audits EXCEPT ![r].counts = Checkpointed(@, b)]
        /\ \/ /\ ValidBatch(batch, b)
              /\ runs' = [runs EXCEPT ![r] = AfterBatch(run, b)]
           \/ /\ ~ValidBatch(batch, b)
              /\ runs' = [runs EXCEPT ![r].pc = "finish", ![r].err = "invalid"]
        /\ deleted' = [deleted EXCEPT ![r] =
                         [relays       |-> @.relays + DeletedNow.relays,
                          discoveries  |-> @.discoveries + DeletedNow.discoveries,
                          observations |-> @.observations + DeletedNow.observations]]
        /\ Witnessed

(* Mutant: a failed page is tried again. *)
PurgeFailsRetries(r, err) ==
    /\ runs[r].pc = "purge"
    /\ runs' = [runs EXCEPT ![r].pc = "read", ![r].page = {}, ![r].next = Start,
                            ![r].result.batches = @ - 1,
                            ![r].result.scanned = @ - Cardinality(runs[r].page)]
    /\ UNCHANGED <<vars, audits, touched, owed, deleted>>

(* Refused by the growth guard, interrupted, or failed: rolled back.        *)
PurgeFails(r, err) ==
    /\ runs[r].pc = "purge"
    /\ runs' = [runs EXCEPT ![r].pc = "finish", ![r].err = err,
                            ![r].page = {}, ![r].next = Start]
    /\ UNCHANGED <<vars, audits, touched, owed, deleted>>

Outcome(err) == IF err = "none" THEN "completed"
                ELSE IF err = "canceled" THEN "canceled" ELSE "failed"

(* What FinishRetentionRun accepts: counts that add up, and no committed    *)
(* effect the checkpoints do not know of.                                   *)
FinishAccepts(f, checkpoint, outcome) ==
    LET primary == f.relays + f.discoveries IN
    /\ f.scanned <= MaxAttempts
    /\ f.observations <= primary
    /\ primary + f.skipped <= f.scanned
    /\ outcome = "completed" => primary + f.skipped = f.scanned
    /\ f.scanned = 0 => f.batches = 0
    /\ f.scanned > 0 => 0 < f.batches /\ f.batches <= f.scanned
    /\ f.relays = checkpoint.relays
    /\ f.discoveries = checkpoint.discoveries
    /\ f.observations = checkpoint.observations
    /\ f.skipped = checkpoint.skipped
    /\ f.batches >= checkpoint.batches
    /\ f.scanned >= checkpoint.scanned
    /\ outcome = "completed" => /\ f.scanned = checkpoint.scanned
                                /\ f.batches = checkpoint.batches

FinishRetentionRun(r) ==
    LET f       == runs[r].result
        outcome == Outcome(runs[r].err)
    IN  /\ runs[r].pc = "finish"
        /\ \/ /\ FinishAccepts(f, audits[r].counts, outcome)
              /\ runs' = [runs EXCEPT ![r].pc = "done"]
              /\ audits' = [audits EXCEPT ![r] = [outcome |-> outcome, counts |-> f]]
           \/ /\ ~FinishAccepts(f, audits[r].counts, outcome)
              /\ runs' = [runs EXCEPT ![r].pc = "refused"]
              /\ UNCHANGED audits
        /\ UNCHANGED <<vars, touched, owed, deleted>>

(* The closing write fails: the command reports it, the row stays running.  *)
FinishFails(r) ==
    /\ runs[r].pc = "finish"
    /\ runs' = [runs EXCEPT ![r].pc = "unfinished"]
    /\ UNCHANGED <<vars, audits, touched, owed, deleted>>

(* The process dies between two transactions: its variables are lost. *)
Crash(r) ==
    /\ runs[r].pc \in {"read", "purge", "finish"}
    /\ runs' = [runs EXCEPT ![r] = [NotStarted EXCEPT !.pc = "crashed"]]
    /\ UNCHANGED <<vars, audits, touched, owed, deleted>>

-----------------------------------------------------------------------------
RunStep(r) ==
    \/ ReadPage(r)
    \/ PurgePage(r)
    \/ FinishRetentionRun(r)
    \/ \E err \in Errors : ReadFails(r, err) \/ PurgeFails(r, err)
    \/ FinishFails(r)

Started == \E r \in Runs, t \in Instants : BeginRetentionRun(r, t)

(* Any other transaction of the directory. *)
Concurrently(step) == step /\ Witnessed /\ UNCHANGED <<runs, audits, deleted>>

RunNext ==
    \/ Started
    \/ \E r \in Runs : RunStep(r) \/ Crash(r)
    \/ Concurrently(\E a \in Actors, t \in Instants : ActorStep(a, t))
    \/ Concurrently(\E open \in BOOLEAN, t \in Instants : SetEnrollment(open, t))

(* A started command keeps taking steps until it returns or dies; nothing   *)
(* is assumed of the rest of the directory.                                 *)
RunSpec ==
    /\ Init /\ RunInit
    /\ [][RunNext]_allVars
    /\ \A r \in Runs : WF_allVars(RunStep(r))

-----------------------------------------------------------------------------
(* Properties.                                                              *)

(* A purge deletes nothing that has changed in any way since its page was   *)
(* read, even within the same second: a registration, a decision of a       *)
(* moderator, a rediscovery or a fresh observation in between saves the     *)
(* row.  The versions a candidate carries are enough to notice all of them, *)
(* although ids and revisions belong to rows that may be deleted and        *)
(* created again meanwhile.                                                 *)
PurgeSparesChanged ==
    [][\A r \in Runs : PurgePage(r) =>
         \A a \in Actors :
            /\ HasRelay(a) /\ ~HasRelay(a)' => <<a, "lifecycle">> \notin touched[r]
            /\ HasDiscovery(a) /\ ~HasDiscovery(a)' => <<a, "discovery">> \notin touched[r]]_allVars

(* A run that completes without truncation has deleted every row that was   *)
(* eligible when it began and that nobody touched: no page boundary, tie in *)
(* the order or row deleted by a second run makes the scan skip one.        *)
CompletedIsExhaustive ==
    \A r \in Runs :
        audits[r].outcome = "completed" /\ ~audits[r].counts.truncated => owed[r] = {}

(* The audit row of a run always counts exactly what the run has deleted,   *)
(* also when it dies between two batches or when its last batch fails.      *)
DeletionsCheckpointed ==
    \A r \in Runs : /\ audits[r].counts.relays = deleted[r].relays
                    /\ audits[r].counts.discoveries = deleted[r].discoveries
                    /\ audits[r].counts.observations = deleted[r].observations

(* The checks the run makes on pages and on batch results never trip, and   *)
(* the closing write is never refused for its counts: a run ends failed     *)
(* only after an error of the storage below it.                             *)
NeverRefusesItself ==
    \A r \in Runs : runs[r].err # "invalid" /\ runs[r].pc # "refused"

(* A command that has begun returns or dies, whatever the directory does    *)
(* meanwhile.                                                               *)
RunReturns ==
    \A r \in Runs : runs[r].pc # "idle" ~>
        runs[r].pc \in {"done", "refused", "unfinished", "crashed"}
=============================================================================
