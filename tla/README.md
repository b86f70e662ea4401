# A TLA+ model of the Activity Relay Directory

The directory is one Go process over one SQLite file. Relays register with it
by signed HTTP requests and keep themselves alive with heartbeats; readers page
through the public listing; operators
moderate relays, add discoveries and purge old records with commands that open
the same file; background workers probe relays, prune the silent ones and
promote discovered candidates. This project models the parts whose correctness
depends on the order in which all of these commit, checks them with TLC on
small instances and proves the most important properties with TLAPS for every
value of the constants.

## The system and its parts

| part | state it keeps | operations | hard behaviour |
| --- | --- | --- | --- |
| relay lifecycle store (`sqlite/relay.go`, `moderation.go`, `enrollment.go`, `pruning.go`) | `relays`, the audit ledgers `relay_events` and `moderation_events`, `directory_policy` | Register, Heartbeat, Unregister, Suspend, Restore, SetEnrollment, SoftPrune | times are captured before a transaction queues for the write lease, so transactions commit in another order than their times |
| discovery and observation store (`sqlite/discovery.go`, `reachability.go`) | `relay_discoveries`, `discovery_events`, `relay_observations`, `relay_probe_diagnostics` | AddDiscovery, RemoveDiscovery, RecordActorObservation, RecordInboxObservation, RecordReachabilityObservation; verified signatures update observations inside the lifecycle transactions | evidence arrives out of order; an observation has two possible owners |
| retention (`retention/run.go`, `sqlite/retention.go`) | `retention_runs`, a run's local variables | PurgeCandidates, PurgeBatch, BeginRetentionRun, FinishRetentionRun, Run | pages read without a lock, two operators, failed batches, crashes |
| reachability worker and coverage gate (`reachability/run.go`, `reachability_maintenance.go`) | a pass, the process-local gate | one pass over the due set, RecordComplete, ObservationForPruning | probing without a lock, truncation, restarts, clock steps |
| soft-pruning worker (`pruning/run.go`, `main.go`) | a pruning run | Run, deferred or as of the gate's time | candidates move while they are paged over |
| discovery candidates (`sqlite/discovery_candidate.go`, `candidatemaintenance/run.go`) | `relay_discovery_candidates`, a pass, the plan of an import | RetainDiscoveryCandidate, DiscoveryCandidateChecks, PromoteDiscoveryCandidate, Run, the import's retention | probing without a lock, an import written long after it was classified, promotion racing registration |
| replay store (`sqlite/replay.go`, `protocol/v1/replay.go`) | `replay_reservations` | ReserveRFC9421Replay, CleanupExpiredRFC9421Replay | reservation, expiry and cleanup work with times read at different moments |
| growth guard (`sqlite/growth.go`) | `storage_growth_state`, a guard per process with its copy of that row and its mutex, the server's mail loop | NewDatabaseGrowthGuard, AcquireWrite, Release, Run, tick, processPending | mail is sent without the mutex; every process overwrites the one row from its own copy |
| lifecycle handlers (`httpapi/lifecycle.go`) | one request each, a permit | admission, verification, reservation, the transactions of versions 1, 2 and 3 | several transactions for one request; copies, timeouts and restarts between any two |
| profiles and telemetry (`sqlite/profile.go`, `telemetry.go`) | `relay_profile_values`, the append-only `relay_profile_events`, `relay_telemetry` | ReplaceProfileSource, ReplaceRelayTelemetry, ReplaceRelayParticipatingTelemetry, the cleanup triggers | claims are removed with their owner, their history is not |
| admission limiter (`admission/limiter.go`) | two pools of token buckets, the permits | AdmitSource, AdmitActor, Release | bounded pools, lazy refill, eviction, clock steps |
| actor resolver (`actorresolver/`) | cached keys, a fetch per caller | ResolveRFC9421Key, ProbeActorDetailed, ProbeInboxDetailed | fetches without the cache's lock; name servers, documents and redirects that change; every failure needs a diagnosis |
| public directory (`sqlite/directory_projection.go`, `directory_summary.go`, `health.go`, `public_listing.go`, `directoryexport`, their HTTP handlers) | one page, export or walk each | ListDirectoryRelays in both directions, Render, ListPublicRelays, ProjectHealth, ReadDirectorySummary | a page is made of many statements, each with a snapshot of its own, and cut by a scan budget |
| commands, configuration, protocol formats, migrations | none of their own | parsing, printing, schema | none that interleave |

Everything that writes goes through a lease of its process's growth guard and an
immediate SQLite transaction, so a repository method is atomic. What is not
atomic is everything made of several methods: a worker's pass, a purge command,
a request, a page. That is where the interleavings are, and where the modules above
`RelayRepository` look.

What makes each part correct:

* lifecycle store: rows that satisfy the schema's CHECKs whatever the order of
  the captured times, ledgers that agree with the rows, a suspension that no
  sequence of other operations sheds, no relay pruned before it is dead;
* observations: never without an owner, never going back in time, always there
  for a registered relay, and never in a state that makes the candidate query
  fail for everyone;
* retention: nothing deleted that changed since it was read, nothing eligible
  left behind by a completed run, an audit row that counts exactly what was
  deleted, a run that never refuses its own totals and that ends;
* workers: pruning only on a failed check, runs that leave nothing behind that
  was due, runs that end;
* discovery candidates: rows that stay legal and readable, resolution and
  discovery together or not at all, passes that try every due candidate;
* growth guard: writes admitted on a fresh sample only, and what is remembered
  of mail in step with the state, so that no change of state goes unreported;
* requests: no signed message accepted twice, answers that fit what was committed,
  claims in step with their history, permits given back;
* limiter: exactly the configured rate although buckets are refilled lazily and
  forgotten, no slot lost, room for new keys whenever an entry is idle;
* resolver: no key served long after it was rotated, no connection outside the
  address policy, no failure without or with a wrong diagnosis;
* public directory: rows that always pass the validation that would fail a whole
  page, three representations that agree, and pages that neither miss nor repeat
  what did not change.

## Modules

| module | models |
| --- | --- |
| `RelayRepository` | the tables and every repository transaction on them, one action per method |
| `Keyset` | keyset pagination: row-value order, pages, the next cursor of a query that asks for one row more |
| `CandidateRun` | what the paging runs share: the budget, the page checks, the step to the next candidate |
| `RetentionRun` | `retention.Run` for a set of commands, with `retention_runs` |
| `ReachabilityRun` | `reachability.Run`, the loop around it and the coverage gate |
| `PruneRun` | `pruning.Run` |
| `CandidatePass` | retained discovery candidates: the import that keeps them and `candidatemaintenance.Run` |
| `GrowthGuard` | the storage growth guards of all processes, the row they share and the server's mail loop |
| `Maintenance` | the serving process: both workers, the gate between them, restarts, and all other transactions |
| `Profiles` | profile claims with their history, telemetry, and the triggers every repository transaction fires |
| `LifecycleRequests` | signed requests at several handlers, the replay store, restarts; composes `Profiles` and `RelayRepository` |
| `Limiter` | the admission limiter, one action per method |
| `LeakyBucket` | what a pool of the limiter promises: a meter per key that is never forgotten |
| `ActorFetch` | as operators: address policy, redirects, documents and the classification of failures |
| `ResolverCache` | the key cache and the fetches and probes of several callers, over a network that answers as it likes |
| `DirectoryView` | as operators of the rows: health, tiers, validation of evidence, summary, listing |
| `DirectoryPages` | a reader's pages, exports and walks, statement by statement, beside every transaction |
| `MCRelayRepository`, `MCRetentionRun`, `MCMaintenance`, `MCCandidatePass`, `MCGrowthGuard`, `MCLifecycleRequests`, `MCLimiter`, `MCResolverCache`, `MCDirectoryPages` | instances for TLC |
| `RelayRepositoryProofs`, `RetentionRunProofs`, `MaintenanceProofs`, `CandidatePassProofs`, `GrowthGuardProofs`, `LimiterProofs`, `ResolverCacheProofs` | theorems and proofs, each about the module of its name |
| `HTTPProofs` | theorems and proofs about `LifecycleRequests`, `DirectoryView` and `DirectoryPages` |

### How state and actions correspond to the code

*Tables.* One function over actors per table. A missing row is a value of its
own (`NoRelay`, `NoDiscovery`, ...) and SQL NULL is `Never`, which is -1; the
code's own queries use the same value in their COALESCEs. `last_heartbeat_at`
is written together with `last_seen_at` by every statement and is merged with
it. The public base URL is the origin of the actor URL, checked when an intent
is normalised (`protocol/v1/identity.go`), so a registered relay's base URL
never changes and the column is left out.

*Event ledgers.* Of each actor's events the code only reads the largest id, the
largest time and, in the admin views, the newest row; a ledger is exactly those
values. Ids are never used again (AUTOINCREMENT), also after a purge has
deleted the rows.

*Transactions.* A method acquires the lease, begins an immediate transaction,
reads, decides, writes and commits, so it is one action. A method that returns
an error has rolled back: a stuttering step, hence no action. The second it
works with was captured by its caller earlier, by an HTTP handler at the start
of the request, by a worker at the start of a run, and `time.Now().UTC()` drops
the monotonic reading: the model assumes no order between the times of
successive transactions, and every action takes any instant.

*Runs.* The pages of a run are read outside any transaction and its candidates
are processed one transaction (pruning, reachability) or one batch transaction
(retention) at a time, so each of these is a step of its own, with every other
transaction possible in between. Reads and writes may fail at any of them, and
the process may die. The answer of a probe does not depend on the database and
is chosen when it is recorded. The checks that `pruning.Run` makes candidate by
candidate are made when the page is read; `PagesAccepted` shows that they never
trip, so the place makes no difference.

*Promotion.* `PromoteDiscovery` of `RelayRepository` is what promoting a
candidate does to discoveries and observations; `CandidatePass` joins it with
the candidate's own row. It is the one writer that overwrites `updated_at_unix`
of an observation instead of keeping the later time. Where the schema's CHECK
then refuses the row (`PromotionFits` is false) the transaction fails.

*Growth guards.* The size of the database is its pressure in percent, rounded
down, which is what all thresholds compare with: the larger of used pages to the
page limit and of the files to the configured maximum. A guard is made in two
steps, reading the row and then sampling and writing it, because other processes
write the row in between; a sample with the lease or write that follows it is one
step under the guard's mutex. The goroutine of `Run` is at its select, about to
process pending mail, or in the mailer, and `wake` is its channel of capacity
one. A schema that is current is assumed, so the check before a migration does
not run. `GrowthGuard` is not composed with `RelayRepository`: the guard adds
the lease to the transactions and reads nothing of their tables, and a refused
lease is a transaction that does not happen.

*Requests.* A handler stops wherever the code waits: for the body, for the key,
for the write lease, between its transactions. Messages are authentic: whatever
the verifier refuses for form, digest, key or signature ends in the refusals any
message may meet. A copy of a message may arrive at any time and any number of
times. `storeNow` and `expiresAt` are read before the reservation queues for its
lease, as in `VerifyPOSTAndReserveWithTag`. The limiter and the growth guard are
not composed with the requests: what they decide is open. A process that dies
loses handlers and permits and nothing else. `profile_values`, which the triggers
of migration 0010 clear with the last owner of an actor, are updated by
`WithTriggers` in the very step of the repository transaction. Normalisation
bounds the text of a profile before anything is written; `Oversized` are the
values it lets through whose JSON exceeds `MaximumProfileStoredValueBytes`, which
`ReplaceProfileSource` only finds in its transaction (`profile.go:108-110`).

*Limiter.* Every method runs under the mutex and is one action. The LRU list is
in the order of the `lastSeen` times, so what a cleanup removes is a set of
oldest idle entries; which of several entries last used at the same time is left
open. `Level` maps a bucket to the meter of `LeakyBucket`: the time until it is
full. The meters know neither tokens nor entries, so the refinement says that
neither lazy refills nor eviction are visible to any client.

*Resolver.* A call goes through lookup, dialling, exchange and, per redirect, all
of them again, with one step where the code waits for the network. What a name
server answers and what a relay publishes is chosen at each step. Errors are the
set of sentinels `errors.Is` would find and the diagnosis attached to them.

*Public directory.* Identities are canonical when they are stored and the
rendering is left out. `DirectoryPages` reads the lifecycle candidates, the
discovery candidates and the details of a round in separate steps, as the code
does outside any transaction; `Rank` is the order of actor URLs. `steady` holds
the relays no transaction has touched since the request began.

*History variables.* `touched`, `owed` and `deleted` of `RetentionRun`, `late`
and `owed` of `Maintenance`, `owed` of `CandidatePass`,
`reported` of `GrowthGuard`, `passed` of `LifecycleRequests`, `rotated` of
`ResolverCache` and `steady` of `DirectoryPages` only record what has happened, for the
properties; no guard reads them.

## Runs

| run | instance | what it shows |
| --- | --- | --- |
| `lifecycle` | one actor, four seconds, four events | every lifecycle, moderation, enrollment, pruning and purge transaction at times in any order: rows stay legal, ledgers agree with rows and never run backwards, suspensions survive, pruned relays were dead, evidence backs registrations |
| `evidence` | one actor, one inbox, three seconds, three events | observation rows stay legal and owned and never go back in time, also for a relay purged while its discovery survives and registered again; the candidate query stays readable; every public read passes its validation and the three representations agree (with these constants no relay is stale or dead; `ViewsAgreeAlways` covers those) |
| `retention` | two actors with three candidates and one command, or one actor and two commands; pages of one, two interfering transactions | purging spares changed rows, also ones that are purged and come back, completion is exhaustive, deletions are checkpointed once, the run never refuses itself, and it returns once begun |
| `workers` | two relays long unseen, checked with success, twice in one second or not at all, three seconds from then on, a budget of one probe, pages of one, two passes or restarts, one pruning run, one other transaction | a truncated pass does not open the gate, a restart closes it, pruning happens on failed checks only and as of the gate's time, leaves no due relay behind, page checks never trip, runs end |
| `candidates` | two actors, four seconds, pages of one, two planned relays, one interfering transaction | candidate rows stay legal and readable, none is resolved without its discovery, a pass tries every due candidate and ends |
| `candidates_refused` | two actors, one pass, one interfering transaction | finding 1, a violation |
| `growth` | the server and one command, three starts in all, one change of size, pressures below the warning, inside the hysteresis of the limit and at it, mail on or off at each start | what is remembered of mail fits the state, the row satisfies its CHECKs, leases need a fresh sample below the limit |
| `growth_mail` | the same with mail always on | finding 2, a violation |
| `requests` | one relay, three messages with one nonce, one of them with a value too large to store, two handlers, two arrivals, one other transaction, one restart, four seconds | no message gets past the replay store twice, answers fit what was committed, claims agree with their history and have an owner, every permit comes back |
| `limiter` | two sources in a pool of one, one actor, three permits for two slots, eight seconds of a clock that may step back | slots are conserved, room is refused only among keys in use, buckets implement ideal meters |
| `resolver` | two callers, two keys in a cache of one, one rotation, a private address, a prohibited and a non-canonical target, one redirect, four seconds | no key outlives its rotation by more than TTL and one fetch, no connection leaves the policy, every failure has the right diagnosis |
| `directory` | three relays in any of four tiers, pages of two, a scan budget of three, one transaction beside the reader | pages, exports and walks list exactly what did not change, and fail only when something did |

*Bounds.* `MaxTime`, `MaxEvents` and `MaxRevision` cap the clock, a ledger and
a revision; `MaxInterference` and `MaxCount` cap how many transactions of others
fall into a run; `MaxOpens` and `MaxResizes` cap the starts of processes and the
changes of size; `MaxDisturbed` caps the transactions beside a reader, `MaxRotations`
the keys a relay publishes. Durations are one or two seconds, in `workers` up to four, which keeps before,
at and after every cutoff inside the instance. A repository transaction touches one
actor's rows and the policy, so one actor is enough for `RelayRepository`; the
runs need two for an order, ties and a page boundary, and pages three, for a
round that begins in the middle. Two handlers are enough for requests, since
what a copy meets in the replay store was left by one other. `MCCandidatePass` starts
from the empty database with enrollment open; `MCRetentionRun`,
`MCMaintenance`, `MCLifecycleRequests` and `MCDirectoryPages` start from databases built with the row updates of the
transactions that lead there. `CHECK_DEADLOCK FALSE` stands in every
configuration but that of `directory` because the bounds run out.

*Fairness.* Weak fairness of the steps of a run that has begun, and nothing
else: a goroutine or command in the middle of `Run` keeps executing until it
returns, fails or dies, and a handler until it has answered (its waits for the
network and the database have timeouts). No request, no operator and no start of a run is assumed
to happen.

*Mutants.* Every property of a passing run has a mutant: a version of one mapped definition
changed by a plausible mistake, kept next to it under a name such as
`PurgeEligibleSuspended`, under which TLC finds the property violated.

### Findings

1. *One refused result ends a candidate pass* (`FailureContained`). Promotion
   writes the pass's observation time into `updated_at_unix` of the observation
   (`discovery_candidate.go:591`). When the relay has registered itself after
   that time, while the pass was probing, its verified signature is newer than
   the time written and the CHECK of migration 0008 refuses the row. Every other
   newer record makes promotion answer "skipped"; here the error goes up,
   `candidatemaintenance.Run` returns it, and the candidates behind this one are
   not tried. A failed check of a candidate that an import has retained meanwhile
   has the same effect (`ErrDiscoveryCandidateTime`).
   `docs/DISCOVERY-REACHABILITY.md:353` says of background maintenance that
   "Failure of one relay does not abort unrelated candidates." The next pass
   comes an hour later with a newer time, so the effect is a delay.
2. *A mail is repeated within its 24 hours* (`ReminderSuppressed`). A guard
   reads the alert row once and later updates all of it from its own copy
   (`growth.go:941`). A command that read the row before the server recorded a
   delivered mail puts the older values back, pending mail included, and a
   server started after that sends the mail again. The purge command keeps its
   guard across the confirmation prompt, so the time between is not always
   short. `docs/STORAGE-GROWTH.md:275` says that "A successful notification
   suppresses another reminder for that state for 24 hours" and that "Restart
   reloads this singleton so it does not create a mail storm." The running
   server is not affected, and what follows is a single mail.

### Observations without a run

* `ReplaceRelayParticipatingTelemetry` inserts a receiving count of 0 at time 0
  for a relay that never reported one (`telemetry.go:56-58`), while
  `docs/PUBLIC-LISTING.md:346-348` says that count and time are "nullable when a
  relay has not reported telemetry".
* Promotion does not reset `failure_count` (`discovery_candidate.go:597`), so a
  candidate that is resolved and imported again continues its old count;
  `docs/DISCOVERY-REACHABILITY.md:267-268` calls it "consecutive failure count".
* A document with a prohibited inbox is returned as a prohibited network target
  and diagnosed as an invalid document (`resolver.go:149-151` and `378`).
  `PolicyHonest` states what the code does.
* Telemetry is written without the growth guard's lease (`telemetry.go`), unlike
  every other write.

### What `PrunedOnFailedCheck` leaves out

Two kinds of relay may be pruned under the gate without a failed check, and the
property names both.

* *Changed behind the pass* (`late`). A transaction whose time was captured
  before a pass and which commits after the pass began can make a relay due that
  the pass never saw. With two transactions of others allowed TLC finds a
  behaviour in which such a relay is pruned; the exception covers exactly the
  relays such transactions touch.
* *A failure overwritten in its second* (`FailureOverwritten`). The worker's
  failed check of a relay unseen for seven days sets a deadline seven days away.
  When the operator's check of the same second succeeds,
  `RecordActorObservation` accepts it, because `discovery.go:295` refuses only
  an older one, and leaves the diagnostic alone; `reachability.go:114-116` then
  takes the failure's deadline for that of the success, both having the same
  time. No pass looks at the relay for seven days, its success grows stale
  after six hours, and once it has been silent for thirty days a complete pass
  that never tried it lets it be pruned. `docs/REACHABILITY.md:49-53` reserves
  the seven days for an actor that is "currently `unreachable`". The proof of
  the property led here: what is unsafe to prune was not always due. The
  `workers` run starts from such a relay among others.

### What `AnswerMatchesWork` leaves out

A registration of version 2 or 3 commits its transition before its profile.
Normalisation allows 1024 bytes of notes, and `json.Marshal` turns each `<`, `>`
or `&` into six bytes, so a value that is within its bound may exceed the 4096
bytes of its column. `ReplaceProfileSource` then rolls back with
`ErrProfileInput`, and `lifecycle.go:672-674` and `717-719` answer 400
`invalid_request`, although the relay is registered by then.
`docs/PROTOCOL.md:233-234` says that "oversized values are rejected", which a
reader takes for the whole request, and `docs/PROTOCOL.md:246-247` that after a
storage failure "a client can safely retry registration to converge"; this one
fails again on every retry, while the registration stands without its profile and
count. The property names this case and says that nothing but the transition is
done in it.

## Theorems

`RelayRepositoryProofs` proves, for every set of actors and all durations that
satisfy the named assumptions, that the specification keeps its type
(`TypeCorrect`), and the safety invariants `SuspensionNotShed`,
`SchemaChecks`, `LifecycleAudited`, `AuditChronological`,
`NoOrphanObservation`, `EvidenceBacked`, `PrunedWasDead` and
`CandidatePageReadable`, and the action properties `SuspendedIsFrozen` and
`EvidenceNeverRegresses`.

None of the invariants is inductive alone. `IInv` is: for every actor, the
CHECKs of its three rows; that a missing row is the empty row; that the newest
event of each ledger carries the ledger's largest time (so that a check against
the largest time is one against the newest event); the kinds of lifecycle event
possible for each lifecycle state; that the newest moderation event suspends
exactly when the row is suspended; that an observation has an owner and a
diagnostic an observation; that a diagnostic is never due within the minimum
retry; and that the evidence of a present relay lies between its last-seen time
and its newest event. Suspension needs the ledger, the page check needs the
diagnostic, and EvidenceBacked needs the ledger's time as upper bound, since
otherwise a verified signature could outrun the next registration. The proof
has one lemma per action and under it one step per conjunct the action can
disturb.

`RetentionRunProofs` and `MaintenanceProofs` prove that purge commands and the
background workers, with all their pages, failures, crashes and restarts,
implement the repository's specification: every step of theirs is one
repository transaction or none. The repository's invariants therefore hold
while they run (`RunKeepsSuspensions`, `WorkersKeepAudit`).

*Paging.* All runs page over rows that move, and their proofs rest on the same
lemmas about `Keyset`, at the end of `RelayRepositoryProofs`: for finitely many
rows in a strict order (`Chain`), a page holds no more than was asked for
(`PageBounded`), is all of few rows (`PageWhole`), is empty only when there is
no row (`PageProgress`), and every row it leaves lies beyond the cursor it hands
over (`NextCovers`). Where induction would be used, on the number of rows before
a row, they take a least element (`NatMin`), which follows from the
well-foundedness of `<` on the naturals. The keys of the three runs are then
shown to be such an order, from `RankAssumption`.

*Purge commands.* `PurgeInvariant` has three parts beside `IInv`. A snapshot
in a page has the versions its row has, or the row has been touched since the
page was read (`Snapshot`): ids of events and revisions only grow, purges
included, so that a row purged and created anew never looks unchanged
(`PurgeSparesWhatChanged`). The totals of a run are those of its checkpoints,
which are what it deleted, and within the budget (`Counted`, whence
`DeletionsAudited` and `ChecksNeverTrip`). And every row that was eligible when
the run began and that nobody touched is in the page in hand or ahead of the
cursor (`OwedInv`, whence `PurgeExhaustive`).

*Workers.* `PruneOwed` says the same of pruning runs, whose candidates other
transactions move along the order (`PruneExhaustive`). `CoverInv` carries the
coverage gate. `Unsafe(a, t)` is a relay that a pruning run at `t` would take
although no check of it has failed; such a relay is due (`UnsafeIsDue`), and no
transaction makes one unless it is `late` (`Kept...`). So a pass has every
unsafe relay ahead of it, an exhausted pass leaves none to the gate, and the
gate none to the pruning run (`PruneNeedsFailure`). `UnsafeIsDue` needs of `IInv`
how the deadline of a diagnostic depends on its streak. `PagesAlwaysAccepted`
follows from the same invariants: the budget is never used up when a page is
read, and the rows of a page are due.

`CandidatePassProofs` proves the same of candidate imports and passes
(`PassImplementsRepository`), and that every candidate row satisfies its CHECKs
and the page check (`CandidateSafe`) and has succeeded only together with an
audited discovery (`ResolutionSafe`). The inductive invariant `PassInv` adds to
these two `IInv` of the repository, that a missing row is the empty row, that a
resolved row has failed at least once too (so that it is legal when it is
retained again), and that a pass at work holds an observation time and actors
only. That the discovery ledger's latest time never decreases, purges included,
is a lemma (`LedgerGrows`). `ScanOwed` is to a pass what `PruneOwed` is to a
pruning run (`ScanExhaustive`).

`GrowthGuardProofs` proves `AlertsTrackState`, `GrowthRowChecks` and
`AdmissionFresh` for any set of commands, any warning threshold below the
critical one and any sequence of sizes (`AlertsAlwaysTrackState`,
`RowAlwaysChecks`, `AdmissionAlwaysFresh`). The inductive invariant `GrowthInv`
asks of the row and of every guard's copy alike that the CHECKs hold and that
pending mail is about the state, because each is copied to the other; of a guard
at work with mail enabled that its state is mailed or going to be; and of a
delivery under way that it is about some kind of mail, so that a delivery that
is not superseded is about the present state. `HysteresisHard` says what a state
below the hard one tells of the size.

`HTTPProofs` proves that handlers, with copies, failures and
restarts between any two of their steps, implement the repository's
specification (`RequestsImplementRepository`), and `AnswerMatchesWork`,
`AtMostOnce` and `ProfilesConsistent` for any set of messages, handlers and
fields (`AnswersMatchWork`, `ReplaySafe`, `ProfilesSafe`). `HandlersInv` says what
a handler has established at each place where it waits, which of its
transactions have committed included (`Progress`). For replay the
invariant is `Barred`: once a message has passed, its row in the table expires
no earlier than any copy of it can still be verified and have its reservation
commit, so that a later copy finds the row, or is too old. This is where
`WindowAssumption` is needed: the TTL of a reservation covers the clock skew,
the lifetime of a signature and the longest wait between reading `storeNow` and
committing. `Delay` bounds that wait and is the environment's promise; with the
constants of `protocol/v1` (ten minutes, thirty seconds, five minutes) up to
four and a half minutes of it are covered.
For claims it is that revisions and times of the values agree with the
append-only history, source by source and field by field.

The second half of `HTTPProofs` is about readers. `ViewsAgreeAlways` shows from
`IInv` that no row the store can reach fails the validation of a public read,
and that summary, tiers and compatibility listing classify it alike: the order
of the code's tests matters, and the definitions in `DirectoryView` keep it as
chains of IF. `PagesExact` is for any finite set of actors, any page size and
scan budget and any transactions between two statements of a read. Its
inductive invariant `PagesInv` describes a read at every statement, only in
terms of the actors that have not changed since it began (`steady`): while a
page fills, every steady relay between its start and the boundary of the scan
is listed, and nothing else of theirs (`Filling`); once it is full, none lies
between its last relay and the boundary (`Probed`); the candidates gathered from
the two tables contain every steady actor, or as many earlier ones as may still
be examined (`Gathered`); a page that is closed lists what its cursors promise
(`ClosedPage`). `ExportInv` and `WalkInv` say that whole reads have seen exactly
the steady actors up to their cursor. A transaction only takes actors out of
`steady`, and each part survives that (`ReadShrinks`). TLC has checked
`PagesInv` on the instance of the `directory` run.

`LimiterProofs` proves for every configuration that `validateConfig` accepts
that both pools implement the meters of `LeakyBucket` (`LimiterMetered`), that
slots are conserved (`PermitsSafe`), and that room is refused only among keys
in use (`CapacitySafe`). The mapping takes a bucket to the time until it would
be full, `FullAt` less the present time. Three facts carry the refinement: a
refill leaves `FullAt` alone or the bucket is full (`RefilledFacts`, which rests
on the arithmetic of whole intervals); time drains what is owed one for one
(`OwedDrains`); and an entry idle for `IdleTTL` owes nothing, so eviction is
invisible (`IdleOwesNothing`), which needs `IdleTTL >= burst * interval`, as
`validateConfig` demands. The invariant behind them is `LimiterTypeOK`: a stored
bucket is never full and was not used after the limiter's present time, which
holds because the clock the limiter works with never steps back.

`ResolverCacheProofs` proves `KeyFresh` and `PolicyHonest` (`KeysAreFresh`,
`PolicyIsHonest`) for any callers, targets, limits and rotations. `CacheInv`
says of an entry that it expires no later than a TTL and one fetch after its key
was rotated, and of a call that it is younger than its timeout, has approved
what it dials, and brings to the cache a key that was published after the call
began; overlapping fetches store in any order and each bound holds by itself.

The assumptions are `BoundsAssumption`, `InboxAssumption` and
`DurationAssumption` (the minimum retry is no longer than the other retry
delays, as in `storage/reachability.go`), `RankAssumption` (actor URLs are
totally ordered), `ActorsFinite` and `PagesAssumption` (an actor URL has at most
`maximumRelayActorBytes` bytes, so there are finitely many; page size and scan
budget are positive), `GrowthAssumption` (the thresholds as the configuration
checks them), `MessageAssumption` and `WindowAssumption` (above),
`ProfileAssumption` (an absent value is not a value, an oversized one is), `ConfigAssumption`
(`validateConfig`), `PermitsFinite`, `DirectoryAssumption` (how the thresholds of
`storage/health.go` and the retry delays compare), `NetworkAssumption` and
`CacheAssumption` (what the permitted targets and approved addresses are subsets
of), and positive page sizes, budgets and retry
delays.

Only model-checked: liveness (`RunReturns`, `WorkersReturn`, `ScanReturns`,
`PermitsReturned`), which is outside the prover. Every invariant and every
action property of the passing runs is proved. `PagesAccepted` says that the
run's check of a page it is about to read holds, which is when the read is
enabled, without the ENABLED operator.

## Plan

What would add most to what is there, in this order:

1. `GrowthGuard` under fair ticks: every lasting change of state is eventually
   mailed, when the mailer succeeds again and again.
2. The operator's commands as sequences of the transactions modelled here.
3. Profile imports beside handlers as a run of their own, with several sources.

## Not modelled

Parsing, canonicalisation and cryptography of messages, the rendering of HTML
and JSON, argument parsing and printing of commands, migrations, configuration
and the SMTP dialogue of the mailer: they keep no state that two actors share.
What they write, they write with the transactions that are modelled; what they
refuse is a refusal the models allow at any time. Sockets and TLS are the
network's answers in `ResolverCache`. How a client address is derived from
forwarding headers, and how profile files are read, are pure functions of one
input. The intervals between
runs of a worker, the counts that are only reported (`purged_lifecycle_events`,
oldest and newest times) and the operator's free-text reasons are left out of
the modules that are there.
