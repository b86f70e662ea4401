----------------------------- MODULE Maintenance -----------------------------
(***************************************************************************)
(* The serving process with its background workers: the reachability       *)
(* worker, the coverage gate it feeds, and the soft-pruning worker that    *)
(* reads the gate (cmd/activity-relay-directory: main.go and               *)
(* reachability_maintenance.go), while requests, moderation, discovery and *)
(* observations of the rest of the directory commit between their steps.   *)
(*                                                                         *)
(* Worker times come from time.Now().UTC(), which drops the monotonic      *)
(* reading: the wall clock may be stepped, so every read of it is any      *)
(* instant.  The intervals the workers sleep between two runs are not      *)
(* modelled: a run may begin whenever its worker waits.                    *)
(***************************************************************************)
EXTENDS ReachabilityRun, PruneRun

VARIABLES
    enabled,  \* DIRECTORY_REACHABILITY_ENABLED of the running process
    late,     \* history: actors changed by transactions whose time is not after
              \* the observation time of the pass, of the gate and of the pruning run
    owed      \* history: relays due to be pruned when the run began, unchanged since

workerVars      == <<enabled, pass, gate, prune, late, owed>>
maintenanceVars == <<vars, workerVars>>

MaintenanceInit ==
    /\ enabled \in BOOLEAN
    /\ PassInit
    /\ PruneInit
    /\ late = [pass |-> {}, gate |-> {}, prune |-> {}]
    /\ owed = {}

Disturbed ==
    {a \in Actors : \/ relays'[a] # relays[a]
                    \/ relayEvents'[a] # relayEvents[a]
                    \/ moderationEvents'[a] # moderationEvents[a]
                    \/ discoveries'[a] # discoveries[a]
                    \/ observations'[a] # observations[a]}

(* History of a step that commits a transaction at time t. *)
Marked(t, observed, marked) ==
    IF t <= observed THEN marked \cup Disturbed ELSE marked

-----------------------------------------------------------------------------
(* The reachability worker. *)

PassBegins ==
    /\ enabled
    /\ \E t \in Instants : BeginPass(t)
    /\ late' = [late EXCEPT !.pass = {}]
    /\ UNCHANGED <<enabled, prune, owed>>

PassRecords ==
    /\ RecordResult
    /\ late' = [late EXCEPT !.gate  = Marked(pass.observed, gate.observed, @),
                            !.prune = Marked(pass.observed, prune.observed, @)]
    /\ owed' = owed \ Disturbed
    /\ UNCHANGED <<enabled, prune>>

PassEnds ==
    /\ \E now \in Instants : EndPass(now)
    /\ late' = [late EXCEPT !.gate = IF gate' = gate THEN @ ELSE late.pass]
    /\ UNCHANGED <<enabled, prune, owed>>

PassStep ==
    \/ (ReadReachabilityPage \/ PassFails) /\ UNCHANGED <<enabled, prune, late, owed>>
    \/ PassRecords
    \/ PassEnds

(* The soft-pruning worker: deferred while the gate is closed, and else     *)
(* pruning as of the observation time of the covering pass; without a       *)
(* reachability worker, as of the wall clock.                               *)

PruneBegins(observed) ==
    /\ BeginPrune(observed)
    /\ late' = [late EXCEPT !.prune = late.gate]
    /\ owed' = {a \in Actors : PruneCandidate(a, observed) /\ MonotonicTime(a, observed)}
    /\ UNCHANGED <<enabled, pass, gate>>

(* Mutant: pruning takes the wall clock once the gate is open. *)
CoveredPruneBeginsNow ==
    /\ enabled
    /\ \E now \in Instants : Covered(now) /\ PruneBegins(now)

CoveredPruneBegins ==
    /\ enabled
    /\ \E now \in Instants : Covered(now)
    /\ PruneBegins(gate.observed)

UngatedPruneBegins ==
    /\ ~enabled
    /\ \E now \in Instants : PruneBegins(now)

PruneStep ==
    \/ (ReadPrunePage \/ PruneFails \/ EndPrune) /\ UNCHANGED <<enabled, pass, gate, late, owed>>
    \/ PruneNext /\ owed' = owed \ Disturbed /\ UNCHANGED <<enabled, pass, gate, late>>

(* The process stops and starts again: nothing but the database survives,   *)
(* and the configuration is read anew.                                      *)
Restart ==
    /\ enabled' \in BOOLEAN
    /\ pass' = NoRun
    /\ gate' = NotReady
    /\ prune' = NoRun
    /\ owed' = {}
    /\ UNCHANGED <<vars, late>>

(* Any other transaction of the directory, at its captured time t. *)
Elsewhere(step, t) ==
    /\ step
    /\ late' = [late EXCEPT !.pass  = Marked(t, pass.observed, @),
                            !.gate  = Marked(t, gate.observed, @),
                            !.prune = Marked(t, prune.observed, @)]
    /\ owed' = owed \ Disturbed
    /\ UNCHANGED <<enabled, pass, gate, prune>>

MaintenanceNext ==
    \/ PassBegins
    \/ PassStep
    \/ CoveredPruneBegins
    \/ UngatedPruneBegins
    \/ PruneStep
    \/ Restart
    \/ \E t \in Instants :
          \/ Elsewhere(\E a \in Actors : ActorStep(a, t), t)
          \/ Elsewhere(\E open \in BOOLEAN : SetEnrollment(open, t), t)
          \/ Elsewhere(\E batch \in SUBSET PurgeCandidates(t) : PurgeBatch(batch, t), t)

(* A worker in the middle of a run keeps taking steps. *)
MaintenanceSpec ==
    /\ Init /\ MaintenanceInit
    /\ [][MaintenanceNext]_maintenanceVars
    /\ WF_maintenanceVars(PassStep)
    /\ WF_maintenanceVars(PruneStep)

-----------------------------------------------------------------------------
(* Properties.                                                              *)

(* An operator's check succeeds in the very second of a failed check of the *)
(* worker.  RecordActorObservation takes it and leaves the diagnostic       *)
(* alone, so the deadline of the failure, seven days for a relay long       *)
(* unseen, is taken for that of the success.                                *)
FailureOverwritten(a) ==
    /\ observations[a].state = "reachable"
    /\ diagnostics[a].updated = observations[a].checked
    /\ diagnostics[a].streak > 0

(* Under the coverage gate, a relay that is not suspended is pruned only on *)
(* a failed check: never on a success that has merely grown old, and never  *)
(* unchecked, however the pass, the gate, the pruning run and a restart     *)
(* fall between each other.  Left out are relays changed by a transaction   *)
(* that commits after the pass began with a time captured before it.  The   *)
(* one exception is a failed check that a success of the same second has    *)
(* overwritten: until its deadline no pass looks at the relay, and once the *)
(* success is stale it is pruned.                                           *)
PrunedOnFailedCheck ==
    [][\A a \in Actors :
         /\ PruneNext
         /\ enabled
         /\ relays[a].lifecycle = "registered"
         /\ relays'[a].lifecycle = "pruned"
         /\ relays[a].admin = "active"
         /\ a \notin late.prune
         => observations[a].state = "unreachable" \/ FailureOverwritten(a)]_maintenanceVars

(* A pruning run that ends without truncation or failure has pruned every   *)
(* relay that was due when it began and that nothing has changed since.     *)
PruneIsExhaustive == prune.pc = "exhausted" => owed = {}

(* The checks the workers make on the pages they read never trip, whatever  *)
(* was committed in between: a pass or a pruning run fails only after an    *)
(* error below it.                                                          *)
PagesAccepted ==
    /\ pass.pc = "read" => PassPageAccepted
    /\ prune.pc = "read" => PrunePageAccepted

(* A pass and a pruning run that have begun come to an end, whatever the    *)
(* directory does meanwhile, so neither worker is ever stuck in one.        *)
WorkersReturn ==
    /\ pass.pc # "waiting" ~> pass.pc = "waiting"
    /\ prune.pc # "waiting" ~> prune.pc = "waiting"
=============================================================================
