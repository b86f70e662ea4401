----------------------------- MODULE GrowthGuard -----------------------------
(***************************************************************************)
(* The storage growth guard (internal/storage/sqlite/growth.go): it        *)
(* samples the size of the database before every write, refuses writes at  *)
(* the hard limit, and mails the administrator about every change of       *)
(* state.                                                                  *)
(*                                                                         *)
(* Every process has a guard of its own: the server, which also samples    *)
(* periodically and sends the mail, and each administrative command that   *)
(* writes.  What they share is the database and, in it, the singleton row  *)
(* storage_growth_state, which a guard reads once, when it is made, and    *)
(* from then on only overwrites.  A guard's mutex serialises the writers   *)
(* of its process: whoever holds a lease holds it.                         *)
(*                                                                         *)
(* The size is abstracted to the pressure in percent, rounded down: a byte *)
(* count is at least p percent of a maximum exactly when that percentage   *)
(* is at least p.  What is only reported (sampled_at_unix, physical_bytes, *)
(* transition_at_unix) is left out.                                        *)
(***************************************************************************)
EXTENDS Integers

CONSTANTS
    Server,      \* the serving process
    Commands,    \* administrative commands
    Pressures,   \* the percentages that occur
    EmailSettings,  \* whether mail is enabled, as configured at a start
    Warning,     \* DIRECTORY_DATABASE_WARNING_PERCENT
    Reminder,    \* DatabaseGrowthReminderInterval, 24 hours
    RetryDelay,  \* retryDelayAfterFailure: 5, 15, 60 minutes, 24 hours
    MaxTime      \* bound: the last second of the clock

CriticalPercent == 90
HardPercent     == 100
Hysteresis      == 5

ASSUME GrowthAssumption ==
    /\ Server \notin Commands
    /\ Pressures \subseteq Nat
    /\ EmailSettings \subseteq BOOLEAN
    /\ Warning \in 1..(CriticalPercent - 1)
    /\ Reminder \in Nat \ {0}
    /\ RetryDelay \in [0..3 -> Nat \ {0}]
    /\ MaxTime \in Nat

VARIABLES
    pressure,  \* of the database
    now,       \* the wall clock
    row,       \* table storage_growth_state
    guards,    \* the guard of each process
    loop,      \* where the goroutine of Run is, and the wake channel
    mail,      \* the delivery it has under way
    reported   \* history: the state the server last mailed about, while it lasts

growthVars == <<pressure, now, row, guards, loop, mail, reported>>

-----------------------------------------------------------------------------
Processes == {Server} \cup Commands
Instants  == 0..MaxTime
Null      == -1

States == {"normal", "warning", "critical", "hard"}

growthRank == [normal |-> 0, warning |-> 1, critical |-> 2, hard |-> 3]

alertKindForState ==
    [normal |-> "recovered", warning |-> "warning",
     critical |-> "critical", hard |-> "hard-limit"]

Kinds == {"recovered", "warning", "critical", "hard-limit"}

(* growthPersistentState: the row, and a guard's copy of it. *)
Alerts ==
    [state    : States,
     lastKind : Kinds \cup {"none"},   \* last_email_kind
     lastAt   : Instants \cup {Null},
     pending  : Kinds \cup {"none"},
     since    : Instants \cup {Null},
     retry    : Nat \cup {Null},       \* retry_after_unix
     attempt  : 0..3]

Migrated ==
    [state |-> "normal", lastKind |-> "none", lastAt |-> Null,
     pending |-> "none", since |-> Null, retry |-> Null, attempt |-> 0]

Phases == {"down", "reading", "up"}

Guard == [phase : Phases, email : BOOLEAN, loaded : Alerts,
          healthy : BOOLEAN, held : BOOLEAN]

Down == [phase |-> "down", email |-> FALSE, loaded |-> Migrated,
         healthy |-> FALSE, held |-> FALSE]

Loops    == [at : {"select", "process", "send"}, wake : BOOLEAN]
Started  == [at |-> "process", wake |-> TRUE]
NoMail   == [kind |-> "none", since |-> Null]
NoReport == [state |-> "normal", at |-> Null]

GrowthInit ==
    /\ pressure \in Pressures
    /\ now = 0
    /\ row = Migrated
    /\ guards = [p \in Processes |-> Down]
    /\ loop = Started
    /\ mail = NoMail
    /\ reported = NoReport

-----------------------------------------------------------------------------
(* A sample.                                                                *)

classifyGrowthState(q) ==
    IF q >= HardPercent THEN "hard"
    ELSE IF q >= CriticalPercent THEN "critical"
    ELSE IF q >= Warning THEN "warning"
    ELSE "normal"

threshold == [normal |-> 0, warning |-> Warning,
              critical |-> CriticalPercent, hard |-> HardPercent]

(* Up at once, down only when the state being left is clearly left. *)
applyGrowthHysteresis(q, previous) ==
    LET base == classifyGrowthState(q) IN
    IF /\ growthRank[base] < growthRank[previous]
       /\ q >= threshold[previous] - Hysteresis
    THEN previous
    ELSE base

Scheduled(l, t) ==
    [l EXCEPT !.pending = alertKindForState[l.state], !.since = t, !.retry = t,
              !.attempt = 0]

(* Mutant: the attempts are kept. *)
clearPendingKeepsAttempt(l) ==
    [l EXCEPT !.pending = "none", !.since = Null, !.retry = Null]

clearPending(l) ==
    [l EXCEPT !.pending = "none", !.since = Null, !.retry = Null, !.attempt = 0]

Transitioned(l, s, email, t) ==
    LET m == [l EXCEPT !.state = s] IN
    IF s = l.state THEN m
    ELSE IF email THEN Scheduled(m, t)
    ELSE clearPending(m)

(* A state that was never mailed, or not for the length of a reminder. *)
AlertDue(l, t) ==
    /\ l.state # "normal"
    /\ l.pending = "none"
    /\ \/ l.lastKind # alertKindForState[l.state]
       \/ l.lastAt # Null /\ t - l.lastAt >= Reminder

(* What sampleLocked makes of the state it holds. *)
Sampled(l, q, email, t) ==
    LET m == Transitioned(l, applyGrowthHysteresis(q, l.state), email, t) IN
    IF email /\ AlertDue(m, t) THEN Scheduled(m, t) ELSE m

-----------------------------------------------------------------------------
(* Processes.                                                               *)

(* The size of the database changes: a transaction, a checkpoint. *)
Resize(q) ==
    /\ pressure' = q
    /\ reported' = IF applyGrowthHysteresis(q, reported.state) = reported.state
                   THEN reported ELSE NoReport

(* writeGrowthPersistentState succeeds or fails; the guard goes on with     *)
(* what it wanted to write.                                                 *)
Persist(p, l, lease) ==
    \/ /\ row' = l
       /\ guards' = [guards EXCEPT ![p].loaded = l, ![p].healthy = TRUE, ![p].held = lease]
    \/ /\ UNCHANGED row
       /\ guards' = [guards EXCEPT ![p].loaded = l, ![p].healthy = FALSE]

(* The size cannot be read: the guard keeps what it holds. *)
SampleFails(p) ==
    /\ guards' = [guards EXCEPT ![p].healthy = FALSE]
    /\ UNCHANGED row

(* NewDatabaseGrowthGuard reads the row...                                  *)
Load(p, email) ==
    /\ guards[p].phase = "down"
    /\ guards' = [guards EXCEPT ![p] =
                    [phase |-> "reading", email |-> email, loaded |-> row,
                     healthy |-> FALSE, held |-> FALSE]]
    /\ UNCHANGED <<pressure, now, row, loop, mail, reported>>

(* ... then samples and writes it, and the process is at work: the server   *)
(* starts Run.  A failed sample or write ends the process.                  *)
Open(p) ==
    /\ guards[p].phase = "reading"
    /\ LET l == Sampled(guards[p].loaded, pressure, guards[p].email, now) IN
       /\ row' = l
       /\ guards' = [guards EXCEPT ![p] =
                       [phase |-> "up", email |-> guards[p].email, loaded |-> l,
                        healthy |-> TRUE, held |-> FALSE]]
    /\ UNCHANGED <<pressure, now, loop, mail, reported>>

(* signalNotification of a transition, unless the sample or the write fails; *)
(* a command has no Run to wake.                                            *)
Signals(p) ==
    /\ p = Server
    /\ guards'[p].healthy
    /\ guards'[p].loaded.state # guards[p].loaded.state

(* Mutant: the last sample decides. *)
AcquireWriteCached(p) ==
    /\ guards[p].phase = "up" /\ ~guards[p].held
    /\ LET l == Sampled(guards[p].loaded, pressure, guards[p].email, now) IN
       Persist(p, l, guards[p].loaded.state # "hard")
    /\ UNCHANGED <<pressure, now, loop, mail, reported>>

(* A writer samples, and holds the guard's mutex with the lease unless the  *)
(* limit is reached.  The row is written only when something changed.       *)
AcquireWrite(p) ==
    /\ guards[p].phase = "up" /\ ~guards[p].held
    /\ LET l == Sampled(guards[p].loaded, pressure, guards[p].email, now) IN
       \/ l # guards[p].loaded /\ Persist(p, l, l.state # "hard")
       \/ /\ l = guards[p].loaded
          /\ guards' = [guards EXCEPT ![p].healthy = TRUE, ![p].held = l.state # "hard"]
          /\ UNCHANGED row
       \/ SampleFails(p)
    /\ loop' = [loop EXCEPT !.wake = @ \/ Signals(p)]
    /\ UNCHANGED <<pressure, now, mail, reported>>

(* The transaction under the lease ends. *)
Release(p) ==
    /\ guards[p].held
    /\ guards' = [guards EXCEPT ![p].held = FALSE]
    /\ \E q \in Pressures : Resize(q)
    /\ UNCHANGED <<now, row, loop, mail>>

(* The command ends, or the process dies. *)
Exit(p) ==
    /\ guards[p].phase # "down"
    /\ guards' = [guards EXCEPT ![p] = Down]
    /\ IF p = Server THEN loop' = Started /\ mail' = NoMail ELSE UNCHANGED <<loop, mail>>
    /\ UNCHANGED <<pressure, now, row, reported>>

-----------------------------------------------------------------------------
(* DatabaseGrowthGuard.Run, one goroutine of the server.                    *)

Runs(at) ==
    /\ guards[Server].phase = "up"
    /\ ~guards[Server].held
    /\ loop.at = at

(* The timer: a passive checkpoint, and a sample that is always written;    *)
(* unless it fails, pending mail is processed next.                         *)
tick ==
    /\ Runs("select")
    /\ \E q \in Pressures :
          /\ Resize(q)
          /\ \/ Persist(Server,
                        Sampled(guards[Server].loaded, q, guards[Server].email, now),
                        FALSE)
             \/ SampleFails(Server)
    /\ loop' = [at   |-> IF guards'[Server].healthy THEN "process" ELSE "select",
                wake |-> loop.wake \/ Signals(Server)]
    /\ UNCHANGED <<now, mail>>

Wake ==
    /\ guards[Server].phase = "up" /\ loop = [at |-> "select", wake |-> TRUE]
    /\ loop' = [at |-> "process", wake |-> FALSE]
    /\ UNCHANGED <<pressure, now, row, guards, mail, reported>>

(* processPending: nothing to send yet, or the mailer, which runs without   *)
(* the mutex...                                                             *)
MailDue ==
    LET l == guards[Server].loaded IN
    guards[Server].email /\ l.pending # "none" /\ now >= l.retry

NothingDue ==
    /\ Runs("process")
    /\ ~MailDue
    /\ loop' = [loop EXCEPT !.at = "select"]
    /\ UNCHANGED <<pressure, now, row, guards, mail, reported>>

BeginDelivery ==
    LET l == guards[Server].loaded IN
    /\ Runs("process")
    /\ MailDue
    /\ loop' = [loop EXCEPT !.at = "send"]
    /\ mail' = [kind |-> l.pending, since |-> l.since]
    /\ UNCHANGED <<pressure, now, row, guards, reported>>

(* Mutant: a newer transition is not looked for. *)
SupersededNever == guards[Server].loaded.pending = "none"

(* ... and after it: a newer transition supersedes this delivery. *)
Superseded ==
    LET l == guards[Server].loaded IN
    l.pending # mail.kind \/ l.since # mail.since

Delivered(l) == clearPending([l EXCEPT !.lastKind = mail.kind, !.lastAt = now])

Failed(l) ==
    [l EXCEPT !.attempt = IF @ = 3 THEN 3 ELSE @ + 1,
              !.retry   = now + RetryDelay[l.attempt]]

Recorded(l) ==
    \/ row' = l /\ guards' = [guards EXCEPT ![Server].loaded = l]
    \/ /\ UNCHANGED row
       /\ guards' = [guards EXCEPT ![Server].loaded = l, ![Server].healthy = FALSE]

(* The mail was sent; what was written of it is reported. *)
RecordDelivery ==
    LET l == guards[Server].loaded IN
    /\ Runs("send")
    /\ mail' = NoMail
    /\ loop' = [loop EXCEPT !.at = "select"]
    /\ \/ Superseded /\ UNCHANGED <<row, guards, reported>>
       \/ /\ ~Superseded
          /\ Recorded(Delivered(l))
          /\ reported' = IF /\ row' = Delivered(l)
                            /\ applyGrowthHysteresis(pressure, l.state) = l.state
                         THEN [state |-> l.state, at |-> now] ELSE reported
    /\ UNCHANGED <<pressure, now>>

RecordFailure ==
    /\ Runs("send")
    /\ mail' = NoMail
    /\ loop' = [loop EXCEPT !.at = "select"]
    /\ \/ Superseded /\ UNCHANGED <<row, guards>>
       \/ ~Superseded /\ Recorded(Failed(guards[Server].loaded))
    /\ UNCHANGED <<pressure, now, reported>>

-----------------------------------------------------------------------------
ClockAdvances ==
    /\ now < MaxTime
    /\ now' = now + 1
    /\ UNCHANGED <<pressure, row, guards, loop, mail, reported>>

GrowthNext ==
    \/ \E p \in Processes :
          \/ \E email \in EmailSettings : Load(p, email)
          \/ Open(p)
          \/ AcquireWrite(p)
          \/ Release(p)
          \/ Exit(p)
    \/ tick
    \/ Wake
    \/ NothingDue
    \/ BeginDelivery
    \/ RecordDelivery
    \/ RecordFailure
    \/ ClockAdvances

GrowthSpec == GrowthInit /\ [][GrowthNext]_growthVars

-----------------------------------------------------------------------------
(* Properties.                                                              *)

(* What a guard and the row remember of mail fits the state they hold: a    *)
(* pending mail is about that state, and when none is pending a guard with  *)
(* mail enabled has last mailed about that state, unless it is normal.  So  *)
(* no transition that commits while an older mail is on its way is taken    *)
(* for reported, whichever process wrote the row before.                    *)
AlertsTrackState ==
    /\ \A l \in {row} \cup {guards[p].loaded : p \in Processes} :
          l.pending \in {"none", alertKindForState[l.state]}
    /\ \A p \in Processes :
          LET l == guards[p].loaded IN
          /\ guards[p].phase = "up" /\ guards[p].email
          /\ l.state # "normal" /\ l.pending = "none"
          => l.lastKind = alertKindForState[l.state]

(* The CHECK constraints of migration 0007 hold for the row, so for all     *)
(* that any guard has written over it: otherwise the write would fail, and  *)
(* with it every write admission that found a transition.                   *)
GrowthRowChecks ==
    /\ (row.lastKind = "none") = (row.lastAt = Null)
    /\ \/ /\ row.pending = "none"
          /\ row.since = Null
          /\ row.retry = Null
          /\ row.attempt = 0
       \/ row.pending # "none" /\ row.since # Null /\ row.retry # Null

(* A lease is granted on the size that AcquireWrite itself samples: below   *)
(* the limit, and below the limit by the hysteresis for a guard that had    *)
(* reached it, whatever other processes have written since its last sample. *)
(* (What another process commits after the sample is its own lease's.)      *)
AdmissionFresh ==
    [][\A p \in Processes :
          ~guards[p].held /\ guards'[p].held =>
              /\ pressure < HardPercent
              /\ guards[p].loaded.state = "hard" => pressure < HardPercent - Hysteresis]_growthVars

(* STORAGE-GROWTH.md: "A successful notification suppresses another         *)
(* reminder for that state for 24 hours", and of restarts: "Restart reloads *)
(* this singleton so it does not create a mail storm."                      *)
ReminderSuppressed ==
    [][mail = NoMail /\ mail' # NoMail =>
          ~ /\ reported.state # "normal"
            /\ mail'.kind = alertKindForState[reported.state]
            /\ now - reported.at < Reminder]_growthVars
=============================================================================
