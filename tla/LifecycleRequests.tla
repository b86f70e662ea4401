-------------------------- MODULE LifecycleRequests --------------------------
(***************************************************************************)
(* Signed lifecycle requests from admission to answer                      *)
(* (internal/httpapi/lifecycle.go for protocol versions 1, 2 and 3,        *)
(* internal/protocol/v1/rfc9421.go and replay.go, and the durable replay   *)
(* store internal/storage/sqlite/replay.go), on top of the repository.     *)
(*                                                                         *)
(* A request is served by a handler that is interrupted wherever the code  *)
(* waits: for the body, for the actor document, for the write lease, and   *)
(* between its transactions.  Copies of one signed message may arrive at   *)
(* any time and any number of times, at two handlers at once, before and   *)
(* after a restart.  Messages are authentic: whatever the verifier rejects *)
(* for its form, digest, key, signature or binding ends as one of the      *)
(* refusals every message may meet here.                                   *)
(*                                                                         *)
(* The limiter is the one of module Limiter; what it decides about a       *)
(* request is open here.  So is whether the growth guard lets a write      *)
(* through.  The wall clock is common to all steps and is not stepped      *)
(* back; Delay bounds the time from the check of a signature to the commit *)
(* of its reservation.                                                     *)
(***************************************************************************)
EXTENDS Profiles

CONSTANTS
    Handlers,          \* requests that can be served at the same time
    Messages,          \* signed requests
    NoMessage,         \* a handler that has not read one
    ReplayKeys,        \* digests of key ID and nonce
    MaximumAge, FutureSkew, MaximumLifetime, ReplayTTL,
    Delay,             \* bound the environment keeps: check to reservation
    CleanupBatch       \* expired reservations removed by one transaction

(* Versions 2 and 3 carry a profile and may carry a count; a message of     *)
(* version 1 has neither.                                                   *)
MessageShape ==
    [key : ReplayKeys, actor : Actors, version : 1..3,
     operation : {"register", "heartbeat", "unregister"},
     created : Nat, expires : Nat, profile : Profile, count : Nat \cup {Never}]

ASSUME MessageAssumption == Messages \subseteq MessageShape

ASSUME WindowAssumption ==
    /\ {MaximumAge, FutureSkew, MaximumLifetime, ReplayTTL, Delay} \subseteq Nat
    /\ CleanupBatch \in Nat \ {0}
    /\ FutureSkew + MaximumLifetime + Delay <= ReplayTTL

VARIABLES
    now,           \* wall clock, in seconds
    reservations,  \* table replay_reservations: expires_at_unix of each key
    handlers,      \* the request each handler works on
    passed         \* history: how often each message got past the replay store

requestVars == <<now, reservations, handlers, passed>>
allVars     == <<vars, profileVars, requestVars>>

(* permit: holds a permit of the limiter.  did: the parts of the request    *)
(* whose transactions have committed.  answer: what the client was last     *)
(* told; every 4xx answer is "refused".                                     *)
IdleHandler ==
    [pc |-> "idle", msg |-> NoMessage, checked |-> Never, expiresAt |-> Never,
     storeNow |-> Never, acceptedAt |-> Never, permit |-> FALSE,
     did |-> {}, answer |-> "none"]

RequestInit ==
    /\ now = 0
    /\ reservations = [k \in ReplayKeys |-> Never]
    /\ handlers = [h \in Handlers |-> IdleHandler]
    /\ passed = [m \in Messages |-> 0]

At(h, pc) == handlers[h].pc = pc

(* Mutant: a request that ends in an error keeps its permit. *)
EndedHeld(r, answer) ==
    [IdleHandler EXCEPT !.answer = answer, !.msg = r.msg, !.did = r.did,
                        !.permit = r.permit /\ answer # "ok"]

(* The handler returns: the answer is written and the permit, deferred,     *)
(* is given back.  A request for which something was done is remembered.    *)
Ended(r, answer) ==
    [IdleHandler EXCEPT !.answer = answer, !.did = r.did,
                        !.msg = IF r.did = {} THEN NoMessage ELSE r.msg]

Answer(h, answer) == handlers' = [handlers EXCEPT ![h] = Ended(@, answer)]

(* A part of the request has committed, and the handler goes on to pc. *)
Goto(h, part, pc) ==
    handlers' = [handlers EXCEPT ![h].pc = pc, ![h].did = @ \cup {part}]

Untouched == UNCHANGED <<vars, profileVars, now, reservations, passed>>

-----------------------------------------------------------------------------
(* Admission, body and envelope. *)

(* The source is resolved and admitted, or the request ends as invalid,     *)
(* rate limited or, for a version that is not enabled, unavailable.         *)
Arrive(h, m) ==
    /\ At(h, "idle")
    /\ \/ handlers' = [handlers EXCEPT ![h] =
             [IdleHandler EXCEPT !.pc = "admitted", !.msg = m, !.permit = TRUE]]
       \/ \E answer \in {"refused", "unavailable", "internal"} :
             handlers' = [handlers EXCEPT ![h] = [IdleHandler EXCEPT !.answer = answer]]
    /\ Untouched

(* validateRFC9421Parameters: the times of the signature. *)
Timely(m) ==
    /\ now - MaximumAge <= m.created
    /\ m.created <= now + FutureSkew
    /\ m.created < m.expires
    /\ now < m.expires
    /\ m.expires <= m.created + MaximumLifetime

(* Body, decoding and the stateless part of the verification, up to the     *)
(* resolution of the key. *)
CheckSignature(h) ==
    /\ At(h, "admitted")
    /\ \/ /\ Timely(handlers[h].msg)
          /\ handlers' = [handlers EXCEPT ![h].pc = "checked", ![h].checked = now]
       \/ Answer(h, "refused")
    /\ Untouched

(* Mutant: the nonce is kept for as long as the signature says. *)
ResolveKeyUntilExpiry(h) ==
    /\ At(h, "checked")
    /\ \/ handlers' = [handlers EXCEPT ![h].pc = "reserving",
                                       ![h].expiresAt = handlers[h].msg.expires,
                                       ![h].storeNow = now]
       \/ Answer(h, "refused")
    /\ Untouched

(* The key is resolved, over the network or from the cache, the signature   *)
(* verified and the actor bound; then the two times of the reservation are  *)
(* read, before it queues for the lease.                                    *)
ResolveKey(h) ==
    /\ At(h, "checked")
    /\ \/ handlers' = [handlers EXCEPT ![h].pc = "reserving",
                                       ![h].expiresAt = now + ReplayTTL,
                                       ![h].storeNow = now]
       \/ Answer(h, "refused")
    /\ Untouched

-----------------------------------------------------------------------------
(* The replay store. *)

Reserved(k) == reservations[k] # Never

Expired(t) == {k \in ReplayKeys : Reserved(k) /\ reservations[k] <= t}

(* The keys that one bounded cleanup may remove, the earliest to expire     *)
(* first.                                                                   *)
Cleanups(t) ==
    {E \in SUBSET Expired(t) :
        /\ Cardinality(E) <= CleanupBatch
        /\ Cardinality(E) < CleanupBatch => E = Expired(t)
        /\ \A e \in E, k \in Expired(t) \ E : reservations[e] <= reservations[k]}

(* ReserveRFC9421Replay, in one transaction: the key itself is cleared when *)
(* expired, a batch of expired keys is removed, and the key is inserted     *)
(* unless it is there.                                                      *)
Reserve(h) ==
    LET r    == handlers[h]
        k    == r.msg.key
        own  == Expired(r.storeNow) \cap {k}
    IN  /\ At(h, "reserving")
        /\ \E E \in Cleanups(r.storeNow) :
              LET kept == [j \in ReplayKeys |->
                             IF j \in E \cup own THEN Never ELSE reservations[j]]
              IN  IF kept[k] = Never
                  THEN /\ reservations' = [kept EXCEPT ![k] = r.expiresAt]
                       /\ passed' = [passed EXCEPT ![r.msg] = @ + 1]
                       /\ handlers' = [handlers EXCEPT ![h] =
                             [IdleHandler EXCEPT !.pc = "reserved", !.msg = r.msg,
                                                 !.permit = r.permit]]
                  ELSE /\ reservations' = kept
                       /\ Answer(h, "refused")
                       /\ UNCHANGED passed
        /\ UNCHANGED <<vars, profileVars, now>>

(* The write admission refuses the reservation, or the store fails: the     *)
(* verifier reports either as a failed store.                               *)
ReserveFails(h) ==
    /\ At(h, "reserving")
    /\ Answer(h, "internal")
    /\ Untouched

(* The maintenance schedule: a cleanup as of a second read before it        *)
(* queued.                                                                  *)
CleanupExpired(t) ==
    /\ t <= now
    /\ \E E \in Cleanups(t) :
          /\ E # {}
          /\ reservations' = [j \in ReplayKeys |->
                                 IF j \in E THEN Never ELSE reservations[j]]
    /\ UNCHANGED <<vars, profileVars, now, handlers, passed>>

-----------------------------------------------------------------------------
(* The lifecycle transition. *)

(* Mutant: a refused actor is served all the same. *)
AdmitActorAnyway(h) ==
    /\ At(h, "reserved")
    /\ \E answer \in {"none", "refused"} :
          handlers' = [handlers EXCEPT ![h].pc = "accepted", ![h].acceptedAt = now,
                                       ![h].answer = answer]
    /\ Untouched

(* The actor bucket is asked once, and the acceptance time captured. *)
AdmitActor(h) ==
    /\ At(h, "reserved")
    /\ \/ handlers' = [handlers EXCEPT ![h].pc = "accepted", ![h].acceptedAt = now]
       \/ \E answer \in {"refused", "internal"} : Answer(h, answer)
    /\ Untouched

Transition(m, t) ==
    CASE m.operation = "register"   -> Register(m.actor, t)
      [] m.operation = "heartbeat"  -> Heartbeat(m.actor, t)
      [] m.operation = "unregister" -> Unregister(m.actor, t)

(* What the client is told when the repository refuses the transition. *)
Refusal(m, t) ==
    LET a == m.actor IN
    IF \/ m.operation = "heartbeat" /\ relays[a].lifecycle # "registered"
       \/ m.operation # "unregister" /\ ~Admitted(a)
       \/ m.operation = "register" /\ ~HasRelay(a) /\ ~policy.open
    THEN "refused"
    ELSE IF ~MonotonicTime(a, t) \/ ~EvidenceTime(a, t) THEN "internal"
    ELSE "none"

(* What is left of a request after its lifecycle transaction. *)
AfterTransition(m) ==
    IF m.version > 1 /\ m.operation = "register" THEN "profile"
    ELSE IF m.version > 1 /\ m.count # Never THEN "telemetry"
    ELSE "done"

AfterProfile(m) == IF m.count # Never THEN "telemetry" ELSE "done"

Persist(h) ==
    LET r == handlers[h] IN
    /\ At(h, "accepted")
    /\ WithTriggers(Transition(r.msg, r.acceptedAt))
    /\ Goto(h, "lifecycle", AfterTransition(r.msg))
    /\ UNCHANGED <<now, reservations, passed>>

PersistRefused(h) ==
    LET answer == Refusal(handlers[h].msg, handlers[h].acceptedAt) IN
    /\ At(h, "accepted")
    /\ answer # "none"
    /\ Answer(h, answer)
    /\ Untouched

(* The lease is refused at hard, or the transaction fails. *)
WriteFails(h) ==
    /\ handlers[h].pc \in {"accepted", "profile"}
    /\ \E answer \in {"unavailable", "internal"} : Answer(h, answer)
    /\ Untouched

(* Versions 2 and 3: the profile and the count, in transactions of their    *)
(* own after the lifecycle transition has committed.                        *)
WriteProfile(h) ==
    LET r == handlers[h] IN
    /\ At(h, "profile")
    /\ ReplaceProfileSource(r.msg.actor, "relay", NoLabel, r.msg.profile, r.acceptedAt)
    /\ Goto(h, "profile", AfterProfile(r.msg))
    /\ UNCHANGED <<now, reservations, passed>>

(* What the client is told when the profile transaction refuses: the actor  *)
(* is gone, a later registration has written its profile, or a value is too *)
(* large, which is an invalid request although the relay is registered.     *)
ProfileRefusal(m, t) ==
    IF \/ ~RetainedIdentity(m.actor)
       \/ ~MonotonicProfileTime(m.actor, "relay", t)
       \/ \E f \in Fields : ~RevisionCurrent(m.actor, "relay", f)
    THEN "internal"
    ELSE IF ~Storable(m.profile) THEN "refused"
    ELSE "none"

ProfileRefused(h) ==
    LET answer == ProfileRefusal(handlers[h].msg, handlers[h].acceptedAt) IN
    /\ At(h, "profile")
    /\ answer # "none"
    /\ Answer(h, answer)
    /\ Untouched

WriteTelemetry(h) ==
    LET r == handlers[h] IN
    /\ At(h, "telemetry")
    /\ IF r.msg.version = 2
       THEN ReplaceRelayTelemetry(r.msg.actor, r.msg.count, r.acceptedAt)
       ELSE ReplaceRelayParticipatingTelemetry(r.msg.actor, r.msg.count, r.acceptedAt)
    /\ Goto(h, "telemetry", "done")
    /\ UNCHANGED <<now, reservations, passed>>

(* The trigger, the database or the client's departure stops the write. *)
TelemetryFails(h) ==
    /\ At(h, "telemetry")
    /\ Answer(h, "internal")
    /\ Untouched

Respond(h) ==
    /\ At(h, "done")
    /\ Answer(h, "ok")
    /\ Untouched

HandlerStep(h) ==
    \/ CheckSignature(h)
    \/ ResolveKey(h)
    \/ Reserve(h)
    \/ ReserveFails(h)
    \/ AdmitActor(h)
    \/ Persist(h)
    \/ PersistRefused(h)
    \/ WriteFails(h)
    \/ WriteProfile(h)
    \/ ProfileRefused(h)
    \/ WriteTelemetry(h)
    \/ TelemetryFails(h)
    \/ Respond(h)

-----------------------------------------------------------------------------
(* The rest of the world. *)

Waiting(h) == handlers[h].pc \in {"checked", "reserving"}

Tick ==
    /\ now < MaxTime
    /\ \A h \in Handlers : Waiting(h) => now < handlers[h].checked + Delay
    /\ now' = now + 1
    /\ UNCHANGED <<vars, profileVars, reservations, handlers, passed>>

(* The process dies and starts again: requests and permits are lost, the    *)
(* database is not.                                                         *)
Restart ==
    /\ handlers' = [h \in Handlers |-> IdleHandler]
    /\ UNCHANGED <<vars, profileVars, now, reservations, passed>>

(* Moderation, pruning, hard retention, discovery, and profiles that an     *)
(* import or an operator writes.                                            *)
Elsewhere(step) ==
    /\ WithTriggers(step)
    /\ UNCHANGED requestVars

OtherProfile(a, kind, label, profile, t) ==
    /\ kind # "relay"
    /\ ReplaceProfileSource(a, kind, label, profile, t)
    /\ UNCHANGED requestVars

RequestNext ==
    \/ \E h \in Handlers :
          \/ \E m \in Messages : Arrive(h, m)
          \/ HandlerStep(h)
    \/ \E t \in Instants : CleanupExpired(t)
    \/ Tick
    \/ Restart
    \/ Elsewhere(Next)
    \/ \E a \in Actors, kind \in SourceKinds, label \in Labels, p \in Profile, t \in Instants :
          OtherProfile(a, kind, label, p, t)

(* A request being served gets its turn: every wait of the code ends, with  *)
(* a timeout where it waits for the network.                                *)
RequestSpec ==
    /\ Init /\ ProfileInit /\ RequestInit
    /\ [][RequestNext]_allVars
    /\ \A h \in Handlers : WF_allVars(HandlerStep(h))

-----------------------------------------------------------------------------
(* Properties.                                                              *)

(* A signed message gets past the replay store at most once, however many   *)
(* copies arrive, whichever handlers they meet, whatever cleanup removes in *)
(* between and however often the process restarts: the reservation outlives *)
(* every moment at which a copy could still be waiting with a signature     *)
(* that was timely when it was checked.                                     *)
AtMostOnce == \A m \in Messages : passed[m] <= 1

(* What a request asks for. *)
Parts(m) ==
    {"lifecycle"}
    \cup {part \in {"profile"} : m.version > 1 /\ m.operation = "register"}
    \cup {part \in {"telemetry"} : m.version > 1 /\ m.count # Never}

(* The answer agrees with what was committed, although the parts of a       *)
(* request commit one by one and each may fail.  A request whose client is  *)
(* told that it was malformed, not authentic, a replay, rate limited or     *)
(* refused by the directory has changed nothing, with one exception: a      *)
(* registration with a profile value that the column cannot hold, which is  *)
(* answered as invalid after the relay has been registered; then neither    *)
(* its profile nor its count is written.  A request that is answered with   *)
(* success has done all it asks for.                                        *)
AnswerMatchesWork ==
    \A h \in Handlers :
        LET r == handlers[h] IN
        /\ r.answer = "refused" /\ r.did # {} =>
              /\ "profile" \in Parts(r.msg)
              /\ ~Storable(r.msg.profile)
              /\ r.did = {"lifecycle"}
        /\ r.answer = "ok" => r.did = Parts(r.msg)

(* Every permit taken from the limiter is given back. *)
PermitsReturned == \A h \in Handlers : handlers[h].permit ~> ~handlers[h].permit
==============================================================================
