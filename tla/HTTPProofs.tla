----------------------------- MODULE HTTPProofs -----------------------------
(***************************************************************************)
(* What the HTTP interface promises.  Signed requests, for every set of    *)
(* handlers and messages and every choice of the windows that              *)
(* WindowAssumption allows: requests implement the repository, no message  *)
(* passes the replay store twice, the answer agrees with what was          *)
(* committed, and profile claims stay in step with their history.  Reads   *)
(* of the directory, for every finite set of actors, every                 *)
(* page size and scan budget and every interleaving with transactions: the *)
(* views agree with each other, and no relay that did not change meanwhile *)
(* is missed, shown twice or shown out of place.                           *)
(***************************************************************************)
EXTENDS LifecycleRequests, DirectoryPages, RelayRepositoryProofs

LEMMA MessageType ==
    ASSUME NEW m \in Messages
    PROVE  /\ m.key \in ReplayKeys /\ m.actor \in Actors
           /\ m.created \in Nat /\ m.expires \in Nat
           /\ m.operation \in {"register", "heartbeat", "unregister"}
           /\ m.profile \in Profile
BY MessageAssumption DEF MessageShape

-----------------------------------------------------------------------------
(* What a handler knows at each place of the code, when the clock shows n.  *)

HandlerFields == {"pc", "msg", "checked", "expiresAt", "storeNow", "acceptedAt",
                  "permit", "did", "answer"}

(* The signature was timely when it was checked, and that is not long ago. *)
Vouched(r, n) ==
    /\ r.checked \in Nat
    /\ r.checked <= n
    /\ n <= r.checked + Delay
    /\ r.msg.created - FutureSkew <= r.checked
    /\ r.checked < r.msg.created + MaximumLifetime

(* What has been done for a request whose transition has committed. *)
Progress(r) ==
    /\ r.pc = "profile" => "profile" \in Parts(r.msg) /\ r.did = {"lifecycle"}
    /\ r.pc = "telemetry" =>
          "telemetry" \in Parts(r.msg) /\ r.did = Parts(r.msg) \ {"telemetry"}
    /\ r.pc = "done" => r.did = Parts(r.msg)

(* AnswerMatchesWork, of one handler. *)
Truthful(r) ==
    /\ r.answer = "refused" /\ r.did # {} =>
          /\ "profile" \in Parts(r.msg)
          /\ ~Storable(r.msg.profile)
          /\ r.did = {"lifecycle"}
    /\ r.answer = "ok" => r.did = Parts(r.msg)

HandlerInv(r, n) ==
    /\ DOMAIN r = HandlerFields
    /\ r.pc # "idle" => r.msg \in Messages /\ r.answer = "none"
    /\ r.pc \in {"checked", "reserving"} => Vouched(r, n)
    /\ r.pc = "reserving" =>
          /\ r.storeNow \in Nat
          /\ r.checked <= r.storeNow
          /\ r.storeNow <= n
          /\ r.expiresAt = r.storeNow + ReplayTTL
    /\ r.pc \in {"accepted", "profile", "telemetry"} => r.acceptedAt \in Instants
    /\ r.pc \in {"admitted", "checked", "reserving", "reserved", "accepted"} => r.did = {}
    /\ Progress(r)
    /\ Truthful(r)

HandlersInv ==
    /\ now \in Instants
    /\ DOMAIN handlers = Handlers
    /\ \A h \in Handlers : HandlerInv(handlers[h], now)

(* One handler moves on, and the clock does not. *)
Moves(h) ==
    /\ now' = now
    /\ DOMAIN handlers' = Handlers
    /\ \A g \in Handlers \ {h} : handlers'[g] = handlers[g]
    /\ HandlerInv(handlers'[h], now)

LEMMA MoveKeeps ==
    ASSUME HandlersInv, NEW h \in Handlers, Moves(h)
    PROVE  HandlersInv'
BY DEF HandlersInv, Moves

LEMMA IdleInv == \A n : HandlerInv(IdleHandler, n)
BY DEF HandlerInv, IdleHandler, HandlerFields, Progress, Truthful

LEMMA TurnedAwayInv ==
    ASSUME NEW n, NEW answer, answer # "ok"
    PROVE  HandlerInv([IdleHandler EXCEPT !.answer = answer], n)
BY DEF HandlerInv, IdleHandler, HandlerFields, Progress, Truthful

(* An answer that agrees with what the handler has done. *)
Agreed(r, answer) ==
    /\ answer = "refused" =>
          \/ r.did = {}
          \/ r.pc = "profile" /\ ~Storable(r.msg.profile)
    /\ answer = "ok" => r.pc = "done"

LEMMA EndedInv ==
    ASSUME NEW n, NEW r, HandlerInv(r, n), NEW answer, Agreed(r, answer)
    PROVE  HandlerInv(Ended(r, answer), n)
<1> DEFINE s == Ended(r, answer)
<1>1. /\ DOMAIN s = HandlerFields /\ s.pc = "idle" /\ s.answer = answer /\ s.did = r.did
      /\ r.did # {} => s.msg = r.msg
  BY DEF Ended, IdleHandler, HandlerFields
<1>2. Progress(r)
  BY DEF HandlerInv
<1>3. \A m : Parts(m) # {}
  BY DEF Parts
<1> HIDE DEF s
<1>4. Truthful(s)
  BY <1>1, <1>2, <1>3 DEF Truthful, Progress, Agreed
<1>5. HandlerInv(s, n)
  BY <1>1, <1>4 DEF HandlerInv, Progress
<1> QED BY <1>5 DEF s

LEMMA AnswerMoves ==
    ASSUME HandlersInv, NEW h \in Handlers, NEW answer, Answer(h, answer), now' = now,
           Agreed(handlers[h], answer)
    PROVE  Moves(h)
BY EndedInv DEF HandlersInv, Moves, Answer

-----------------------------------------------------------------------------
(* The steps of a handler. *)

LEMMA ArriveMoves ==
    ASSUME HandlersInv, NEW h \in Handlers, NEW m \in Messages, Arrive(h, m)
    PROVE  Moves(h)
<1> USE DEF HandlersInv, Moves
<1>1. now' = now
  BY DEF Arrive, Untouched
<1>2. CASE handlers' = [handlers EXCEPT ![h] =
             [IdleHandler EXCEPT !.pc = "admitted", !.msg = m, !.permit = TRUE]]
  <2>1. HandlerInv([IdleHandler EXCEPT !.pc = "admitted", !.msg = m, !.permit = TRUE], now)
    BY DEF HandlerInv, IdleHandler, HandlerFields, Progress, Truthful
  <2> QED BY <1>1, <1>2, <2>1
<1>3. ASSUME NEW answer, answer # "ok",
             handlers' = [handlers EXCEPT ![h] = [IdleHandler EXCEPT !.answer = answer]]
      PROVE  Moves(h)
  BY <1>1, <1>3, TurnedAwayInv
<1> QED BY <1>2, <1>3 DEF Arrive

LEMMA CheckSignatureMoves ==
    ASSUME HandlersInv, NEW h \in Handlers, CheckSignature(h)
    PROVE  Moves(h)
<1> DEFINE r == handlers[h]
           s == handlers'[h]
<1>1. /\ now' = now /\ now \in Nat /\ HandlerInv(r, now) /\ r.pc = "admitted" /\ r.msg \in Messages
  BY BoundsAssumption DEF CheckSignature, Untouched, At, HandlersInv, HandlerInv, Instants
<1>2. CASE /\ Timely(r.msg)
           /\ handlers' = [handlers EXCEPT ![h].pc = "checked", ![h].checked = now]
  <2>1. /\ DOMAIN handlers' = Handlers
        /\ \A g \in Handlers \ {h} : handlers'[g] = handlers[g]
    BY <1>2 DEF HandlersInv
  <2>2. /\ DOMAIN s = HandlerFields /\ s.pc = "checked" /\ s.checked = now
        /\ s.msg = r.msg /\ s.did = r.did /\ s.answer = r.answer
    BY <1>1, <1>2 DEF HandlersInv, HandlerInv, HandlerFields
  <2>3. Vouched(s, now)
    <3>1. /\ r.msg.created <= now + FutureSkew /\ now < r.msg.expires
          /\ r.msg.expires <= r.msg.created + MaximumLifetime
      BY <1>2 DEF Timely
    <3> QED BY <1>1, <2>2, <3>1, MessageType, WindowAssumption DEF Vouched
  <2> HIDE DEF s
  <2>4. HandlerInv(s, now)
    BY <1>1, <2>2, <2>3 DEF HandlerInv, Progress, Truthful
  <2> QED BY <1>1, <2>1, <2>4 DEF Moves, s
<1>3. CASE Answer(h, "refused")
  BY <1>1, <1>3, AnswerMoves DEF HandlerInv, Agreed
<1> QED BY <1>2, <1>3 DEF CheckSignature

LEMMA ResolveKeyMoves ==
    ASSUME HandlersInv, NEW h \in Handlers, ResolveKey(h)
    PROVE  Moves(h)
<1> DEFINE r == handlers[h]
           s == handlers'[h]
<1>1. /\ now' = now /\ now \in Nat /\ HandlerInv(r, now) /\ r.pc = "checked" /\ r.msg \in Messages
  BY BoundsAssumption DEF ResolveKey, Untouched, At, HandlersInv, HandlerInv, Instants
<1>2. CASE handlers' = [handlers EXCEPT ![h].pc = "reserving",
                                        ![h].expiresAt = now + ReplayTTL,
                                        ![h].storeNow = now]
  <2>1. /\ DOMAIN handlers' = Handlers
        /\ \A g \in Handlers \ {h} : handlers'[g] = handlers[g]
    BY <1>2 DEF HandlersInv
  <2>2. /\ DOMAIN s = HandlerFields /\ s.pc = "reserving" /\ s.checked = r.checked
        /\ s.storeNow = now /\ s.expiresAt = now + ReplayTTL
        /\ s.msg = r.msg /\ s.did = r.did /\ s.answer = r.answer
    BY <1>1, <1>2 DEF HandlersInv, HandlerInv, HandlerFields
  <2>3. Vouched(r, now)
    BY <1>1 DEF HandlerInv
  <2> HIDE DEF s, r
  <2>4. HandlerInv(s, now)
    BY <1>1, <2>2, <2>3 DEF HandlerInv, Vouched, Progress, Truthful
  <2> QED BY <1>1, <2>1, <2>4 DEF Moves, s
<1>3. CASE Answer(h, "refused")
  BY <1>1, <1>3, AnswerMoves DEF HandlerInv, Agreed
<1> QED BY <1>2, <1>3 DEF ResolveKey

LEMMA ReserveMoves ==
    ASSUME HandlersInv, NEW h \in Handlers, Reserve(h)
    PROVE  Moves(h)
<1> DEFINE r == handlers[h]
           done == [IdleHandler EXCEPT !.pc = "reserved", !.msg = r.msg, !.permit = r.permit]
<1>1. /\ now' = now /\ HandlerInv(r, now) /\ r.pc = "reserving" /\ r.msg \in Messages
  BY DEF Reserve, At, HandlersInv, HandlerInv
<1>2. CASE handlers' = [handlers EXCEPT ![h] = done]
  <2>1. HandlerInv(done, now)
    BY <1>1 DEF HandlerInv, IdleHandler, HandlerFields, Progress, Truthful
  <2> QED BY <1>1, <1>2, <2>1 DEF Moves, HandlersInv
<1>3. CASE Answer(h, "refused")
  BY <1>1, <1>3, AnswerMoves DEF HandlerInv, Agreed
<1> QED BY <1>2, <1>3 DEF Reserve

LEMMA AdmitActorMoves ==
    ASSUME HandlersInv, NEW h \in Handlers, AdmitActor(h)
    PROVE  Moves(h)
<1> DEFINE r == handlers[h]
           s == handlers'[h]
<1>1. /\ now' = now /\ now \in Instants /\ HandlerInv(r, now) /\ r.pc = "reserved"
      /\ r.msg \in Messages
  BY DEF AdmitActor, Untouched, At, HandlersInv, HandlerInv
<1>2. CASE handlers' = [handlers EXCEPT ![h].pc = "accepted", ![h].acceptedAt = now]
  <2>1. /\ DOMAIN handlers' = Handlers
        /\ \A g \in Handlers \ {h} : handlers'[g] = handlers[g]
    BY <1>2 DEF HandlersInv
  <2>2. /\ DOMAIN s = HandlerFields /\ s.pc = "accepted" /\ s.acceptedAt = now
        /\ s.msg = r.msg /\ s.did = r.did /\ s.answer = r.answer
    BY <1>1, <1>2 DEF HandlersInv, HandlerInv, HandlerFields
  <2> HIDE DEF s, r
  <2>3. HandlerInv(s, now)
    BY <1>1, <2>2 DEF HandlerInv, Progress, Truthful
  <2> QED BY <1>1, <2>1, <2>3 DEF Moves, s
<1>3. ASSUME NEW answer, answer # "ok", Answer(h, answer)
      PROVE  Moves(h)
  BY <1>1, <1>3, AnswerMoves DEF HandlerInv, Agreed
<1> QED BY <1>2, <1>3 DEF AdmitActor

(* A part of the request has committed, and the next one is right. *)
LEMMA GotoMoves ==
    ASSUME HandlersInv, NEW h \in Handlers, NEW part, NEW pc, Goto(h, part, pc), now' = now,
           handlers[h].pc \in {"accepted", "profile", "telemetry"},
           pc \in {"profile", "telemetry", "done"},
           \A s : s.pc = pc /\ s.msg = handlers[h].msg /\ s.did = handlers[h].did \cup {part}
                  => Progress(s)
    PROVE  Moves(h)
<1> DEFINE r == handlers[h]
           s == handlers'[h]
<1>1. HandlerInv(r, now) /\ r.msg \in Messages /\ r.acceptedAt \in Instants /\ r.answer = "none"
  BY DEF HandlersInv, HandlerInv
<1>2. /\ DOMAIN handlers' = Handlers
      /\ \A g \in Handlers \ {h} : handlers'[g] = handlers[g]
  BY DEF HandlersInv, Goto
<1>3. /\ DOMAIN s = HandlerFields /\ s.pc = pc /\ s.did = r.did \cup {part}
      /\ s.acceptedAt = r.acceptedAt /\ s.msg = r.msg /\ s.answer = r.answer
  BY <1>1 DEF HandlersInv, HandlerInv, HandlerFields, Goto
<1>4. Progress(s)
  BY <1>3
<1> HIDE DEF s, r
<1>5. HandlerInv(s, now)
  BY <1>1, <1>3, <1>4 DEF HandlerInv, Truthful, r
<1> QED BY <1>2, <1>5 DEF Moves, s

LEMMA PersistMoves ==
    ASSUME HandlersInv, NEW h \in Handlers, Persist(h)
    PROVE  Moves(h)
<1> DEFINE m == handlers[h].msg
           pc == AfterTransition(m)
<1>1. /\ now' = now /\ handlers[h].pc = "accepted" /\ handlers[h].did = {}
      /\ Goto(h, "lifecycle", pc)
  BY DEF Persist, At, HandlersInv, HandlerInv
<1>2. /\ pc \in {"profile", "telemetry", "done"}
      /\ pc = "profile" => "profile" \in Parts(m)
      /\ pc = "telemetry" => Parts(m) = {"lifecycle", "telemetry"}
      /\ pc = "done" => Parts(m) = {"lifecycle"}
  BY DEF AfterTransition, Parts
<1> HIDE DEF pc
<1>3. \A s : s.pc = pc /\ s.msg = m /\ s.did = {} \cup {"lifecycle"} => Progress(s)
  BY <1>2 DEF Progress
<1> QED BY <1>1, <1>2, <1>3, GotoMoves

LEMMA WriteProfileMoves ==
    ASSUME HandlersInv, NEW h \in Handlers, WriteProfile(h)
    PROVE  Moves(h)
<1> DEFINE m == handlers[h].msg
           pc == AfterProfile(m)
<1>1. /\ now' = now /\ handlers[h].pc = "profile" /\ handlers[h].did = {"lifecycle"}
      /\ "profile" \in Parts(m) /\ Goto(h, "profile", pc)
  BY DEF WriteProfile, At, HandlersInv, HandlerInv, Progress
<1>2. /\ pc \in {"telemetry", "done"}
      /\ pc = "telemetry" => Parts(m) = {"lifecycle", "profile", "telemetry"}
      /\ pc = "done" => Parts(m) = {"lifecycle", "profile"}
  BY <1>1 DEF AfterProfile, Parts
<1> HIDE DEF pc
<1>3. \A s : s.pc = pc /\ s.msg = m /\ s.did = {"lifecycle"} \cup {"profile"} => Progress(s)
  BY <1>2 DEF Progress
<1> QED BY <1>1, <1>2, <1>3, GotoMoves

LEMMA WriteTelemetryMoves ==
    ASSUME HandlersInv, NEW h \in Handlers, WriteTelemetry(h)
    PROVE  Moves(h)
<1> DEFINE m == handlers[h].msg
           did == handlers[h].did
<1>1. /\ now' = now /\ handlers[h].pc = "telemetry" /\ did = Parts(m) \ {"telemetry"}
      /\ "telemetry" \in Parts(m) /\ Goto(h, "telemetry", "done")
  BY DEF WriteTelemetry, At, HandlersInv, HandlerInv, Progress
<1>2. did \cup {"telemetry"} = Parts(m)
  BY <1>1
<1>3. \A s : s.pc = "done" /\ s.msg = m /\ s.did = did \cup {"telemetry"} => Progress(s)
  BY <1>2 DEF Progress
<1> QED BY <1>1, <1>3, GotoMoves

LEMMA HandlerStepMoves ==
    ASSUME HandlersInv, NEW h \in Handlers, HandlerStep(h)
    PROVE  Moves(h)
<1>1. ASSUME NEW answer, answer \notin {"ok", "refused"}, Answer(h, answer), now' = now
      PROVE  Moves(h)
  BY <1>1, AnswerMoves DEF Agreed
<1>2. ASSUME ReserveFails(h) \/ WriteFails(h) \/ TelemetryFails(h)
      PROVE  Moves(h)
  BY <1>1, <1>2 DEF ReserveFails, WriteFails, TelemetryFails, Untouched
<1>3. ASSUME PersistRefused(h) PROVE Moves(h)
  <2>1. Refusal(handlers[h].msg, handlers[h].acceptedAt) # "ok" /\ handlers[h].did = {}
    BY <1>3 DEF PersistRefused, Refusal, At, HandlersInv, HandlerInv
  <2> QED BY <1>3, <2>1, AnswerMoves DEF PersistRefused, Untouched, Agreed
<1>4. ASSUME ProfileRefused(h) PROVE Moves(h)
  <2>1. LET answer == ProfileRefusal(handlers[h].msg, handlers[h].acceptedAt) IN
        /\ answer # "ok"
        /\ answer = "refused" => ~Storable(handlers[h].msg.profile)
    BY DEF ProfileRefusal
  <2> QED BY <1>4, <2>1, AnswerMoves DEF ProfileRefused, Untouched, Agreed, At
<1>5. ASSUME Respond(h) PROVE Moves(h)
  BY <1>5, AnswerMoves DEF Respond, Untouched, Agreed, At
<1> QED
  BY <1>2, <1>3, <1>4, <1>5, CheckSignatureMoves, ResolveKeyMoves, ReserveMoves,
     AdmitActorMoves, PersistMoves, WriteProfileMoves, WriteTelemetryMoves DEF HandlerStep

LEMMA TickKeeps ==
    ASSUME HandlersInv, Tick
    PROVE  HandlersInv'
<1>1. now' = now + 1 /\ now' \in Instants /\ now \in Nat /\ handlers' = handlers
  BY BoundsAssumption DEF Tick, HandlersInv, Instants
<1>2. ASSUME NEW h \in Handlers PROVE HandlerInv(handlers[h], now + 1)
  <2> DEFINE r == handlers[h]
  <2>1. HandlerInv(r, now)
    BY DEF HandlersInv
  <2>2. r.pc \in {"checked", "reserving"} => now < r.checked + Delay
    BY DEF Tick, Waiting
  <2> HIDE DEF r
  <2>3. r.pc \in {"checked", "reserving"} => Vouched(r, now + 1)
    BY <1>1, <2>1, <2>2, WindowAssumption DEF HandlerInv, Vouched
  <2> HIDE DEF Vouched
  <2>4. HandlerInv(r, now + 1)
    BY <1>1, <2>1, <2>3 DEF HandlerInv
  <2> QED BY <2>4 DEF r
<1> QED BY <1>1, <1>2 DEF HandlersInv

LEMMA HandlersInit == RequestInit => HandlersInv
<1> SUFFICES ASSUME RequestInit PROVE HandlersInv
  OBVIOUS
<1>1. now \in Instants
  BY BoundsAssumption DEF RequestInit, Instants
<1>2. HandlerInv(IdleHandler, now)
  BY IdleInv
<1> QED BY <1>1, <1>2 DEF RequestInit, HandlersInv

LEMMA HandlersStep ==
    ASSUME HandlersInv, [RequestNext]_allVars
    PROVE  HandlersInv'
<1>1. ASSUME NEW h \in Handlers, NEW m \in Messages, Arrive(h, m) PROVE HandlersInv'
  BY <1>1, ArriveMoves, MoveKeeps
<1>2. ASSUME NEW h \in Handlers, HandlerStep(h) PROVE HandlersInv'
  BY <1>2, HandlerStepMoves, MoveKeeps
<1>3. CASE Tick
  BY <1>3, TickKeeps
<1>4. CASE Restart
  BY <1>4, IdleInv DEF Restart, HandlersInv
<1>5. CASE UNCHANGED <<now, handlers>>
  BY <1>5 DEF HandlersInv
<1> QED
  BY <1>1, <1>2, <1>3, <1>4, <1>5
     DEF RequestNext, CleanupExpired, Elsewhere, OtherProfile, requestVars, allVars

-----------------------------------------------------------------------------
(* Requests and everything around them act on the tables as the repository  *)
(* does. *)

LEMMA TransitionStep ==
    ASSUME NEW m \in Messages, NEW t \in Instants, Transition(m, t)
    PROVE  Next
<1>1. m.actor \in Actors /\ m.operation \in {"register", "heartbeat", "unregister"}
  BY MessageType
<1>2. Register(m.actor, t) \/ Heartbeat(m.actor, t) \/ Unregister(m.actor, t)
  BY <1>1 DEF Transition
<1>3. ActorStep(m.actor, t)
  BY <1>2 DEF ActorStep, ServiceStep
<1> QED BY <1>1, <1>3 DEF Next

(* A step changes no table, or it is a repository transaction with the      *)
(* triggers it fires.                                                       *)
LEMMA StepWithTriggers ==
    ASSUME HandlersInv, RequestNext
    PROVE  UNCHANGED vars \/ (Next /\ WithTriggers(TRUE))
<1>1. ASSUME NEW h \in Handlers, Persist(h)
      PROVE  Next /\ WithTriggers(TRUE)
  <2>1. handlers[h].msg \in Messages /\ handlers[h].acceptedAt \in Instants
    BY <1>1 DEF Persist, At, HandlersInv, HandlerInv
  <2>2. /\ Transition(handlers[h].msg, handlers[h].acceptedAt)
        /\ WithTriggers(TRUE)
    BY <1>1 DEF Persist, WithTriggers
  <2> QED BY <2>1, <2>2, TransitionStep
<1>2. ASSUME Elsewhere(Next)
      PROVE  Next /\ WithTriggers(TRUE)
  BY <1>2 DEF Elsewhere, WithTriggers
<1>3. ASSUME NEW h \in Handlers, HandlerStep(h), ~Persist(h)
      PROVE  UNCHANGED vars
  BY <1>3 DEF HandlerStep, CheckSignature, ResolveKey, Reserve, ReserveFails, AdmitActor,
              PersistRefused, WriteFails, WriteProfile, ProfileRefused, WriteTelemetry,
              TelemetryFails, Respond, Untouched, ReplaceProfileSource,
              ReplaceRelayTelemetry, ReplaceRelayParticipatingTelemetry
<1>4. ASSUME NEW h \in Handlers, NEW m \in Messages, Arrive(h, m)
      PROVE  UNCHANGED vars
  BY <1>4 DEF Arrive, Untouched
<1>5. ASSUME NEW t, CleanupExpired(t) PROVE UNCHANGED vars
  BY <1>5 DEF CleanupExpired
<1>6. ASSUME Tick \/ Restart PROVE UNCHANGED vars
  BY <1>6 DEF Tick, Restart
<1>7. ASSUME NEW a, NEW kind, NEW label, NEW p, NEW t, OtherProfile(a, kind, label, p, t)
      PROVE  UNCHANGED vars
  BY <1>7 DEF OtherProfile, ReplaceProfileSource
<1> QED BY <1>1, <1>2, <1>3, <1>4, <1>5, <1>6, <1>7 DEF RequestNext

(* Handlers of lifecycle.go, interrupted anywhere, cut off by a restart and *)
(* interleaved with everything else, never make the tables take a step of   *)
(* their own.                                                               *)
THEOREM RequestsImplementRepository == RequestSpec => Spec
<1>1. ASSUME HandlersInv, [RequestNext]_allVars
      PROVE  [Next]_vars
  BY <1>1, StepWithTriggers DEF allVars
<1> QED BY <1>1, HandlersInit, HandlersStep, PTL DEF RequestSpec, Spec

(* The answer agrees with what was committed: a refusal follows a commit    *)
(* only when the profile of a registration does not fit its columns, with   *)
(* nothing but the transition done; success is told only of a request that  *)
(* has done all it asks for.                                                *)
THEOREM AnswersMatchWork == RequestSpec => []AnswerMatchesWork
<1>1. HandlersInv => AnswerMatchesWork
  BY DEF HandlersInv, HandlerInv, Truthful, AnswerMatchesWork
<1> QED BY <1>1, HandlersInit, HandlersStep, PTL DEF RequestSpec

-----------------------------------------------------------------------------
(* The replay store.  A message that got past it has left a reservation     *)
(* that outlives every copy: until Until(m) no copy of m can still be       *)
(* waiting with a signature that was timely when it was checked.            *)

Until(m) == m.created - FutureSkew + ReplayTTL

Barred(m) == reservations[m.key] >= Until(m) \/ now >= Until(m)

ReplayInv ==
    /\ reservations \in [ReplayKeys -> Stamp]
    /\ passed \in [Messages -> {0, 1}]
    /\ \A m \in Messages : passed[m] = 1 => Barred(m)

LEMMA UntilType ==
    ASSUME NEW m \in Messages
    PROVE  Until(m) \in Nat /\ m.created + MaximumLifetime + Delay <= Until(m)
BY MessageType, WindowAssumption DEF Until

(* What may be left of the table when rows expired by a past second go.     *)
Pruning(kept) ==
    /\ kept \in [ReplayKeys -> Stamp]
    /\ \A k \in ReplayKeys :
          kept[k] = reservations[k] \/ (kept[k] = Never /\ reservations[k] <= now)

LEMMA CleanupPrunes ==
    ASSUME ReplayInv, HandlersInv, NEW t, t \in Int, t <= now, NEW E, E \subseteq Expired(t)
    PROVE  Pruning([j \in ReplayKeys |-> IF j \in E THEN Never ELSE reservations[j]])
<1>1. now \in Int
  BY BoundsAssumption DEF HandlersInv, Instants
<1>2. \A k \in E : k \in ReplayKeys /\ reservations[k] <= t
  BY DEF Expired
<1>3. \A k \in ReplayKeys : reservations[k] \in Int
  BY DEF ReplayInv, Stamp, Never
<1>4. \A k \in E : reservations[k] <= now
  BY <1>1, <1>2, <1>3
<1>5. Never \in Stamp /\ \A k \in ReplayKeys : reservations[k] \in Stamp
  BY NeverType DEF ReplayInv
<1> QED BY <1>4, <1>5 DEF Pruning

LEMMA PruningKeepsBarred ==
    ASSUME ReplayInv, HandlersInv, NEW kept, Pruning(kept), NEW m \in Messages, Barred(m)
    PROVE  kept[m.key] >= Until(m) \/ now >= Until(m)
<1>1. m.key \in ReplayKeys /\ Until(m) \in Nat
  BY MessageType, UntilType
<1>2. now \in Int /\ reservations[m.key] \in Int
  BY <1>1, BoundsAssumption DEF HandlersInv, Instants, ReplayInv, Stamp, Never
<1>3. CASE kept[m.key] = reservations[m.key]
  BY <1>3 DEF Barred
<1>4. CASE reservations[m.key] <= now
  BY <1>1, <1>2, <1>4 DEF Barred
<1> QED BY <1>1, <1>3, <1>4 DEF Pruning

(* A copy that waits for its reservation finds the first one in force. *)
LEMMA CopyIsBarred ==
    ASSUME ReplayInv, HandlersInv, NEW h \in Handlers, At(h, "reserving")
    PROVE  LET r == handlers[h] IN
           /\ r.msg \in Messages
           /\ r.storeNow \in Nat
           /\ r.storeNow <= now
           /\ now < Until(r.msg)
           /\ Until(r.msg) <= r.expiresAt
           /\ r.expiresAt \in Nat
<1> DEFINE r == handlers[h]
<1>1. HandlerInv(r, now) /\ r.pc = "reserving" /\ now \in Int
  BY BoundsAssumption DEF At, HandlersInv, Instants
<1>2. /\ r.msg \in Messages /\ Vouched(r, now)
      /\ r.storeNow \in Nat /\ r.checked <= r.storeNow /\ r.storeNow <= now
      /\ r.expiresAt = r.storeNow + ReplayTTL
  BY <1>1 DEF HandlerInv
<1> HIDE DEF r
<1>3. r.msg.created \in Nat /\ Until(r.msg) \in Nat
  BY <1>2, MessageType, UntilType
<1>4. now < Until(r.msg)
  BY <1>1, <1>2, <1>3, UntilType, WindowAssumption DEF Vouched
<1>5. Until(r.msg) <= r.expiresAt /\ r.expiresAt \in Nat
  BY <1>2, <1>3, WindowAssumption DEF Vouched, Until
<1> QED BY <1>2, <1>4, <1>5 DEF r

LEMMA ReserveKeepsReplay ==
    ASSUME ReplayInv, HandlersInv, NEW h \in Handlers, Reserve(h)
    PROVE  ReplayInv'
<1> DEFINE r == handlers[h]
           k == r.msg.key
<1>1. /\ r.msg \in Messages /\ r.storeNow \in Int /\ r.storeNow <= now
      /\ now < Until(r.msg) /\ Until(r.msg) <= r.expiresAt /\ r.expiresAt \in Nat
      /\ k \in ReplayKeys /\ Until(r.msg) \in Nat
  BY CopyIsBarred, MessageType, UntilType DEF Reserve
<1>2. now' = now /\ now \in Int
  BY BoundsAssumption DEF Reserve, HandlersInv, Instants
<1>3. PICK E \in Cleanups(r.storeNow) :
        LET kept == [j \in ReplayKeys |->
                       IF j \in E \cup (Expired(r.storeNow) \cap {k}) THEN Never
                                                                     ELSE reservations[j]]
        IN  IF kept[k] = Never
            THEN /\ reservations' = [kept EXCEPT ![k] = r.expiresAt]
                 /\ passed' = [passed EXCEPT ![r.msg] = @ + 1]
            ELSE /\ reservations' = kept
                 /\ UNCHANGED passed
  BY DEF Reserve
<1> DEFINE gone == E \cup (Expired(r.storeNow) \cap {k})
           kept == [j \in ReplayKeys |-> IF j \in gone THEN Never ELSE reservations[j]]
<1>4. gone \subseteq Expired(r.storeNow)
  BY DEF Cleanups
<1>5. Pruning(kept)
  <2> HIDE DEF gone, r
  <2> QED BY <1>1, <1>4, CleanupPrunes
<1>6. \A m \in Messages : passed[m] = 1 => kept[m.key] >= Until(m) \/ now >= Until(m)
  <2> HIDE DEF kept
  <2> QED BY <1>5, PruningKeepsBarred DEF ReplayInv
<1>7. kept \in [ReplayKeys -> Stamp] /\ passed \in [Messages -> {0, 1}]
  BY <1>5 DEF Pruning, ReplayInv
<1>8. CASE kept[k] # Never
  <2>1. reservations' = kept /\ passed' = passed
    BY <1>3, <1>8
  <2> HIDE DEF kept, r, k
  <2> QED BY <1>2, <1>6, <1>7, <2>1 DEF ReplayInv, Barred, Until
<1>9. CASE kept[k] = Never
  <2>1. /\ reservations' = [kept EXCEPT ![k] = r.expiresAt]
        /\ passed' = [passed EXCEPT ![r.msg] = @ + 1]
    BY <1>3, <1>9
  <2> HIDE DEF kept
  <2>2. ASSUME NEW m \in Messages, m.key = k, passed[m] = 1
        PROVE  now >= Until(m)
    BY <1>2, <1>6, <1>9, <2>2, UntilType DEF Never
  <2>3. passed[r.msg] = 0
    <3>1. passed[r.msg] \in {0, 1}
      BY <1>1, <1>7
    <3> QED BY <1>1, <1>2, <2>2, <3>1
  <2>4. passed' \in [Messages -> {0, 1}] /\ \A m \in Messages : m # r.msg => passed'[m] = passed[m]
    BY <1>1, <1>7, <2>1, <2>3
  <2>5. reservations' \in [ReplayKeys -> Stamp]
    <3>1. r.expiresAt \in Stamp
      BY <1>1 DEF Stamp
    <3> HIDE DEF r
    <3> QED BY <1>1, <1>7, <2>1, <3>1
  <2>6. reservations'[k] = r.expiresAt
    BY <1>1, <1>7, <2>1
  <2>7. \A j \in ReplayKeys \ {k} : reservations'[j] = kept[j]
    BY <1>7, <2>1
  <2>8. ASSUME NEW m \in Messages, passed'[m] = 1
        PROVE  reservations'[m.key] >= Until(m) \/ now' >= Until(m)
    <3>1. CASE m = r.msg
      BY <1>1, <2>6, <3>1
    <3>2. CASE m # r.msg /\ m.key = k
      BY <1>2, <2>2, <2>4, <2>8, <3>2
    <3>3. CASE m # r.msg /\ m.key # k
      BY <1>2, <1>6, <2>4, <2>7, <2>8, <3>3, MessageType
    <3> QED BY <3>1, <3>2, <3>3
  <2> QED BY <2>4, <2>5, <2>8 DEF ReplayInv, Barred, Until
<1> QED BY <1>8, <1>9

LEMMA CleanupKeepsReplay ==
    ASSUME ReplayInv, HandlersInv, NEW t \in Instants, CleanupExpired(t)
    PROVE  ReplayInv'
<1>1. now' = now /\ passed' = passed /\ t <= now /\ t \in Int
  BY BoundsAssumption DEF CleanupExpired, Instants
<1>2. PICK E \in Cleanups(t) :
        reservations' = [j \in ReplayKeys |-> IF j \in E THEN Never ELSE reservations[j]]
  BY DEF CleanupExpired
<1>3. Pruning(reservations')
  BY <1>1, <1>2, CleanupPrunes DEF Cleanups
<1>4. \A m \in Messages : passed[m] = 1 => reservations'[m.key] >= Until(m) \/ now >= Until(m)
  BY <1>3, PruningKeepsBarred DEF ReplayInv
<1> QED BY <1>1, <1>3, <1>4 DEF ReplayInv, Barred, Until, Pruning

LEMMA ReplayInit == RequestInit => ReplayInv
BY NeverType DEF RequestInit, ReplayInv

LEMMA ReplayStep ==
    ASSUME ReplayInv, HandlersInv, [RequestNext]_allVars
    PROVE  ReplayInv'
<1>1. ASSUME NEW h \in Handlers, Reserve(h) PROVE ReplayInv'
  BY <1>1, ReserveKeepsReplay
<1>2. ASSUME NEW t \in Instants, CleanupExpired(t) PROVE ReplayInv'
  BY <1>2, CleanupKeepsReplay
<1>3. CASE Tick
  <2>1. now' = now + 1 /\ now \in Int /\ reservations' = reservations /\ passed' = passed
    BY <1>3, BoundsAssumption DEF Tick, HandlersInv, Instants
  <2>2. ASSUME NEW m \in Messages, Barred(m) PROVE reservations[m.key] >= Until(m) \/ now + 1 >= Until(m)
    BY <2>1, <2>2, UntilType DEF Barred
  <2> QED BY <2>1, <2>2 DEF ReplayInv, Barred, Until
<1>4. CASE UNCHANGED <<now, reservations, passed>>
  BY <1>4 DEF ReplayInv, Barred, Until
<1>5. ASSUME NEW h \in Handlers, HandlerStep(h), ~Reserve(h)
      PROVE  UNCHANGED <<now, reservations, passed>>
  BY <1>5 DEF HandlerStep, CheckSignature, ResolveKey, ReserveFails, AdmitActor, Persist,
              PersistRefused, WriteFails, WriteProfile, ProfileRefused, WriteTelemetry,
              TelemetryFails, Respond, Untouched
<1>6. ASSUME NEW h \in Handlers, NEW m \in Messages, Arrive(h, m)
      PROVE  UNCHANGED <<now, reservations, passed>>
  BY <1>6 DEF Arrive, Untouched
<1> QED
  BY <1>1, <1>2, <1>3, <1>4, <1>5, <1>6
     DEF RequestNext, Restart, Elsewhere, OtherProfile, requestVars, allVars

(* Whatever copies arrive, whatever cleanup removes and however often the   *)
(* process restarts, ReserveRFC9421Replay lets a signed message through at  *)
(* most once, provided that the TTL of a reservation covers the window of a *)
(* signature, the skew of the clocks and the wait for the lease.            *)
THEOREM ReplaySafe == RequestSpec => []AtMostOnce
<1>1. ReplayInv => AtMostOnce
  BY DEF ReplayInv, AtMostOnce
<1> QED BY <1>1, HandlersInit, HandlersStep, ReplayInit, ReplayStep, PTL DEF RequestSpec

-----------------------------------------------------------------------------
(* Profiles and telemetry. *)

ProfileInv == ProfileTypeOK /\ ProfilesConsistent

History == [revision : [Fields -> Nat], latest : Stamp]

(* A claim that agrees with the history of its source. *)
Agrees(claim, history, f) ==
    claim.value # NoValue =>
        /\ claim.revision = history.revision[f]
        /\ claim.revision >= 1
        /\ claim.accepted <= history.latest
        /\ claim.value \notin Oversized

LEMMA ConsistentRows ==
    ProfilesConsistent <=>
        \A a \in Actors :
            /\ \A kind \in SourceKinds, f \in Fields :
                  /\ Agrees(profileValues[a][kind][f], profileEvents[a][kind], f)
                  /\ HasClaim(a, kind, f) => RetainedIdentity(a)
            /\ HasTelemetry(a) => HasRelay(a)
BY DEF ProfilesConsistent, Agrees, HasClaim, RevisionCurrent

LEMMA NoClaimType ==
    /\ NoClaim \in ClaimRow
    /\ NoClaims \in [SourceKinds -> [Fields -> ClaimRow]]
    /\ NoTelemetry \in TelemetryRow
BY NeverType DEF NoClaim, ClaimRow, NoClaims, NoTelemetry, TelemetryRow

LEMMA ProfileInitInv == ProfileInit => ProfileInv
<1> SUFFICES ASSUME ProfileInit PROVE ProfileInv
  OBVIOUS
<1>1. NoHistory \in [SourceKinds -> History]
  BY NeverType DEF NoHistory, History
<1>2. ProfileTypeOK
  BY <1>1, NoClaimType DEF ProfileInit, ProfileTypeOK, History
<1>3. \A a \in Actors, kind \in SourceKinds, f \in Fields : ~HasClaim(a, kind, f)
  BY DEF ProfileInit, HasClaim, NoClaims, NoClaim
<1>4. \A a \in Actors : ~HasTelemetry(a)
  BY DEF ProfileInit, HasTelemetry, NoTelemetry
<1> QED BY <1>2, <1>3, <1>4 DEF ProfileInv, ProfilesConsistent

LEMMA ReplaceKeepsProfiles ==
    ASSUME ProfileInv, NEW a \in Actors, NEW kind \in SourceKinds,
           NEW label \in Labels \cup {NoLabel}, NEW profile \in Profile, NEW t \in Instants,
           ReplaceProfileSource(a, kind, label, profile, t)
    PROVE  ProfileInv'
<1> DEFINE changed == Replaced(a, kind, label, profile)
           old == profileValues[a][kind]
           hist == profileEvents[a][kind]
           row == [f \in Fields |-> IF f \in changed
                                    THEN ClaimOf(a, kind, label, profile, f, t) ELSE old[f]]
           rev == [f \in Fields |-> IF f \in changed
                                    THEN Later(hist.revision[f], hist.revision[f] + 1)
                                    ELSE hist.revision[f]]
           event == [revision |-> rev, latest |-> IF changed = {} THEN hist.latest ELSE t]
<1>1. /\ profileValues \in [Actors -> [SourceKinds -> [Fields -> ClaimRow]]]
      /\ profileEvents \in [Actors -> [SourceKinds -> History]]
      /\ telemetry \in [Actors -> TelemetryRow]
  BY DEF ProfileInv, ProfileTypeOK, History
<1>2. old \in [Fields -> ClaimRow] /\ hist \in History
  BY <1>1
<1>3. /\ \A f \in Fields : hist.revision[f] \in Nat
      /\ hist.latest \in Stamp
      /\ t \in Stamp /\ t >= hist.latest
  BY <1>2, InstantType DEF History, ReplaceProfileSource, MonotonicProfileTime
<1>4. /\ profileValues' = [profileValues EXCEPT ![a][kind] = row]
      /\ profileEvents' = [profileEvents EXCEPT ![a][kind] = event]
      /\ UNCHANGED <<telemetry, relays, discoveries>>
  BY DEF ReplaceProfileSource, NextRevision, vars
<1>5. ASSUME NEW f \in Fields
      PROVE  /\ ClaimOf(a, kind, label, profile, f, t) \in ClaimRow
             /\ ClaimOf(a, kind, label, profile, f, t).value # NoValue =>
                   /\ ClaimOf(a, kind, label, profile, f, t).revision = hist.revision[f] + 1
                   /\ ClaimOf(a, kind, label, profile, f, t).accepted = t
                   /\ ClaimOf(a, kind, label, profile, f, t).value \notin Oversized
  <2>1. /\ profile[f] \in Values \cup {NoValue} /\ profile[f] \notin Oversized
        /\ hist.revision[f] + 1 \in Nat
    BY <1>3 DEF Profile, ReplaceProfileSource, Storable
  <2>2. CASE profile[f] = NoValue
    BY <2>2, NoClaimType DEF ClaimOf, NoClaim
  <2>3. CASE profile[f] # NoValue
    <3>1. ClaimOf(a, kind, label, profile, f, t) =
             [value |-> profile[f], label |-> label, accepted |-> t,
              revision |-> hist.revision[f] + 1]
      BY <2>3 DEF ClaimOf, NextRevision
    <3> HIDE DEF hist
    <3> QED BY <1>3, <2>1, <3>1 DEF ClaimRow
  <2> QED BY <2>2, <2>3
<1>6. row \in [Fields -> ClaimRow]
  BY <1>2, <1>5
<1>7. \A f \in Fields : Later(hist.revision[f], hist.revision[f] + 1) = hist.revision[f] + 1
  BY <1>3 DEF Later
<1>8. rev \in [Fields -> Nat]
  <2> HIDE DEF hist, changed
  <2> QED BY <1>3, <1>7
<1>9. event \in History
  <2> HIDE DEF rev, hist, changed
  <2> QED BY <1>3, <1>8 DEF History
<1>10. ASSUME NEW f \in Fields PROVE Agrees(row[f], event, f)
  <2>1. Agrees(old[f], hist, f)
    BY ConsistentRows DEF ProfileInv
  <2>2. CASE f \in changed
    <3>1. /\ row[f] = ClaimOf(a, kind, label, profile, f, t)
          /\ event.revision[f] = hist.revision[f] + 1
          /\ event.latest = t
      BY <1>7, <2>2
    <3> HIDE DEF row, event, hist
    <3> QED BY <1>3, <1>5, <3>1 DEF Agrees, Stamp, Never
  <2>3. CASE f \notin changed
    <3>1. /\ row[f] = old[f]
          /\ event.revision[f] = hist.revision[f]
          /\ event.latest \in {hist.latest, t}
      BY <2>3
    <3>2. old[f].accepted \in Stamp
      BY <1>2 DEF ClaimRow
    <3> HIDE DEF row, event, hist, old
    <3> QED BY <1>3, <2>1, <3>1, <3>2 DEF Agrees, Stamp, Never
  <2> QED BY <2>2, <2>3
<1> HIDE DEF row, event, changed
<1>11. ProfileTypeOK'
  BY <1>1, <1>4, <1>6, <1>9 DEF ProfileTypeOK, History
<1>12. \A b \in Actors : HasRelay(b)' = HasRelay(b) /\ RetainedIdentity(b)' = RetainedIdentity(b)
  BY <1>4 DEF HasRelay, RetainedIdentity, HasDiscovery
<1>13. ASSUME NEW b \in Actors, NEW k \in SourceKinds, NEW f \in Fields
       PROVE  /\ Agrees(profileValues'[b][k][f], profileEvents'[b][k], f)
              /\ profileValues'[b][k][f].value # NoValue => RetainedIdentity(b)
  <2>1. CASE b = a /\ k = kind
    <3>1. profileValues'[b][k] = row /\ profileEvents'[b][k] = event
      BY <1>1, <1>4, <2>1
    <3> QED BY <1>10, <2>1, <3>1 DEF ReplaceProfileSource
  <2>2. CASE ~(b = a /\ k = kind)
    <3>1. profileValues'[b][k] = profileValues[b][k] /\ profileEvents'[b][k] = profileEvents[b][k]
      BY <1>1, <1>4, <2>2
    <3> QED BY <3>1, ConsistentRows DEF ProfileInv, HasClaim
  <2> QED BY <2>1, <2>2
<1>14. ASSUME NEW b \in Actors PROVE HasTelemetry(b)' => HasRelay(b)
  BY <1>4 DEF HasTelemetry, ProfileInv, ProfilesConsistent
<1>15. ProfilesConsistent'
  BY <1>12, <1>13, <1>14 DEF ProfilesConsistent, Agrees, HasClaim, RevisionCurrent
<1> QED BY <1>11, <1>15 DEF ProfileInv

(* The triggers take claims and telemetry away with their owner. *)
LEMMA TriggersKeepProfiles ==
    ASSUME ProfileInv, WithTriggers(TRUE)
    PROVE  ProfileInv'
<1>1. /\ profileValues \in [Actors -> [SourceKinds -> [Fields -> ClaimRow]]]
      /\ profileEvents \in [Actors -> [SourceKinds -> History]]
      /\ telemetry \in [Actors -> TelemetryRow]
      /\ profileEvents' = profileEvents
  BY DEF ProfileInv, ProfileTypeOK, History, WithTriggers
<1>2. ProfileTypeOK'
  BY <1>1, NoClaimType DEF WithTriggers, ProfileTypeOK, History
<1>3. ASSUME NEW a \in Actors, NEW kind \in SourceKinds, NEW f \in Fields
      PROVE  /\ Agrees(profileValues'[a][kind][f], profileEvents'[a][kind], f)
             /\ profileValues'[a][kind][f].value # NoValue => RetainedIdentity(a)'
  <2>1. CASE OwnersLost(a)
    <3>1. profileValues'[a][kind][f] = NoClaim
      BY <2>1 DEF WithTriggers, NoClaims
    <3> QED BY <3>1 DEF Agrees, NoClaim
  <2>2. CASE ~OwnersLost(a)
    <3>1. profileValues'[a] = profileValues[a]
      BY <2>2 DEF WithTriggers
    <3>2. Agrees(profileValues[a][kind][f], profileEvents[a][kind], f)
      BY ConsistentRows DEF ProfileInv
    <3>3. profileValues[a][kind][f].value # NoValue => RetainedIdentity(a)
      BY DEF ProfileInv, ProfilesConsistent, HasClaim
    <3> QED BY <1>1, <2>2, <3>1, <3>2, <3>3 DEF OwnersLost
  <2> QED BY <2>1, <2>2
<1>4. ASSUME NEW a \in Actors, HasTelemetry(a)' PROVE HasRelay(a)'
  <2>1. CASE HasRelay(a) /\ ~HasRelay(a)'
    <3>1. telemetry'[a] = NoTelemetry
      BY <2>1 DEF WithTriggers
    <3> QED BY <1>4, <3>1 DEF HasTelemetry, NoTelemetry
  <2>2. CASE ~(HasRelay(a) /\ ~HasRelay(a)')
    <3>1. telemetry'[a] = telemetry[a]
      BY <2>2 DEF WithTriggers
    <3>2. HasTelemetry(a) => HasRelay(a)
      BY DEF ProfileInv, ProfilesConsistent
    <3> QED BY <1>4, <2>2, <3>1, <3>2 DEF HasTelemetry
  <2> QED BY <2>1, <2>2
<1>5. ProfilesConsistent'
  BY <1>3, <1>4 DEF ProfilesConsistent, Agrees, HasClaim, RevisionCurrent
<1> QED BY <1>2, <1>5 DEF ProfileInv

LEMMA TelemetryKeepsProfiles ==
    ASSUME ProfileInv, NEW a \in Actors, NEW n \in Stamp, NEW t \in Instants,
           \/ ReplaceRelayTelemetry(a, n, t)
           \/ ReplaceRelayParticipatingTelemetry(a, n, t)
    PROVE  ProfileInv'
<1>1. /\ telemetry \in [Actors -> TelemetryRow] /\ HasRelay(a)
      /\ UNCHANGED <<profileValues, profileEvents, relays, discoveries>>
  BY DEF ProfileInv, ProfileTypeOK, ReplaceRelayTelemetry, ReplaceRelayParticipatingTelemetry,
         vars
<1>2. t \in Stamp /\ 0 \in Stamp
  BY InstantType DEF Stamp
<1>3. \E row \in TelemetryRow : telemetry' = [telemetry EXCEPT ![a] = row]
  <2>1. telemetry[a] \in TelemetryRow
    BY <1>1
  <2>2. CASE telemetry' = telemetry
    <3>1. telemetry' = [telemetry EXCEPT ![a] = telemetry[a]]
      BY <1>1, <2>2
    <3> QED BY <2>1, <3>1
  <2>3. CASE telemetry' = [telemetry EXCEPT ![a].receiving = n, ![a].receivingAt = t]
    <3> DEFINE first == [telemetry[a] EXCEPT !.receiving = n]
               row == [first EXCEPT !.receivingAt = t]
    <3>1. first \in TelemetryRow
      BY <2>1 DEF TelemetryRow
    <3>2. row \in TelemetryRow
      <4> HIDE DEF first
      <4> QED BY <1>2, <3>1 DEF TelemetryRow
    <3>3. telemetry' = [telemetry EXCEPT ![a] = row]
      BY <1>1, <2>3
    <3> QED BY <3>2, <3>3
  <2>4. CASE telemetry' = [telemetry EXCEPT ![a].participating = n, ![a].participatingAt = t]
    <3> DEFINE first == [telemetry[a] EXCEPT !.participating = n]
               row == [first EXCEPT !.participatingAt = t]
    <3>1. first \in TelemetryRow
      BY <2>1 DEF TelemetryRow
    <3>2. row \in TelemetryRow
      <4> HIDE DEF first
      <4> QED BY <1>2, <3>1 DEF TelemetryRow
    <3>3. telemetry' = [telemetry EXCEPT ![a] = row]
      BY <1>1, <2>4
    <3> QED BY <3>2, <3>3
  <2>5. CASE telemetry' = [telemetry EXCEPT ![a] =
                [receiving |-> 0, receivingAt |-> 0, participating |-> n, participatingAt |-> t]]
    BY <1>2, <2>5 DEF TelemetryRow
  <2> QED
    BY <2>2, <2>3, <2>4, <2>5 DEF ReplaceRelayTelemetry, ReplaceRelayParticipatingTelemetry
<1>4. ProfileTypeOK'
  BY <1>1, <1>3 DEF ProfileInv, ProfileTypeOK
<1>5. ASSUME NEW b \in Actors, HasTelemetry(b)' PROVE HasRelay(b)
  <2>1. b # a => telemetry'[b] = telemetry[b]
    BY <1>1, <1>3
  <2> QED BY <1>1, <1>5, <2>1 DEF HasTelemetry, ProfileInv, ProfilesConsistent
<1>6. ProfilesConsistent'
  BY <1>1, <1>5
     DEF ProfileInv, ProfilesConsistent, HasClaim, RevisionCurrent, RetainedIdentity, HasRelay,
         HasDiscovery
<1> QED BY <1>4, <1>6 DEF ProfileInv

LEMMA ProfileStep ==
    ASSUME ProfileInv, HandlersInv, [RequestNext]_allVars
    PROVE  ProfileInv'
<1>1. ASSUME NEW h \in Handlers, WriteProfile(h) PROVE ProfileInv'
  <2>1. handlers[h].msg \in Messages /\ handlers[h].acceptedAt \in Instants
    BY <1>1 DEF WriteProfile, At, HandlersInv, HandlerInv
  <2>2. handlers[h].msg.actor \in Actors /\ handlers[h].msg.profile \in Profile
    BY <2>1, MessageType
  <2>3. "relay" \in SourceKinds /\ NoLabel \in Labels \cup {NoLabel}
    BY DEF SourceKinds
  <2> QED BY <1>1, <2>1, <2>2, <2>3, ReplaceKeepsProfiles DEF WriteProfile
<1>2. ASSUME NEW h \in Handlers, WriteTelemetry(h) PROVE ProfileInv'
  <2>1. handlers[h].msg \in Messages /\ handlers[h].acceptedAt \in Instants
    BY <1>2 DEF WriteTelemetry, At, HandlersInv, HandlerInv
  <2>2. handlers[h].msg.actor \in Actors /\ handlers[h].msg.count \in Stamp
    BY <2>1, MessageAssumption DEF MessageShape, Stamp
  <2> QED BY <1>2, <2>1, <2>2, TelemetryKeepsProfiles DEF WriteTelemetry
<1>3. ASSUME NEW a \in Actors, NEW kind \in SourceKinds, NEW label \in Labels,
             NEW p \in Profile, NEW t \in Instants, OtherProfile(a, kind, label, p, t)
      PROVE  ProfileInv'
  BY <1>3, ReplaceKeepsProfiles DEF OtherProfile
<1>4. ASSUME WithTriggers(TRUE) PROVE ProfileInv'
  BY <1>4, TriggersKeepProfiles
<1>5. ASSUME NEW h \in Handlers, Persist(h) PROVE WithTriggers(TRUE)
  BY <1>5 DEF Persist, WithTriggers
<1>6. ASSUME Elsewhere(Next) PROVE WithTriggers(TRUE)
  BY <1>6 DEF Elsewhere, WithTriggers
<1>7. CASE UNCHANGED <<vars, profileVars>>
  BY <1>7 DEF ProfileInv, ProfileTypeOK, ProfilesConsistent, HasClaim, HasTelemetry,
              RevisionCurrent, RetainedIdentity, HasRelay, HasDiscovery, vars, profileVars
<1>8. ASSUME NEW h \in Handlers, HandlerStep(h), ~Persist(h), ~WriteProfile(h),
             ~WriteTelemetry(h)
      PROVE  UNCHANGED <<vars, profileVars>>
  BY <1>8 DEF HandlerStep, CheckSignature, ResolveKey, Reserve, ReserveFails, AdmitActor,
              PersistRefused, WriteFails, ProfileRefused, TelemetryFails, Respond, Untouched
<1>9. ASSUME NEW h \in Handlers, NEW m \in Messages, Arrive(h, m)
      PROVE  UNCHANGED <<vars, profileVars>>
  BY <1>9 DEF Arrive, Untouched
<1>10. ASSUME NEW t, CleanupExpired(t) PROVE UNCHANGED <<vars, profileVars>>
  BY <1>10 DEF CleanupExpired
<1>11. ASSUME Tick \/ Restart PROVE UNCHANGED <<vars, profileVars>>
  BY <1>11 DEF Tick, Restart
<1>12. ASSUME UNCHANGED allVars PROVE UNCHANGED <<vars, profileVars>>
  BY <1>12 DEF allVars
<1> QED
  BY <1>1, <1>2, <1>3, <1>4, <1>5, <1>6, <1>7, <1>8, <1>9, <1>10, <1>11, <1>12
     DEF RequestNext

(* No history of registrations, imports, clears and hard retention, with a  *)
(* request cut off between its transactions or its relay purged meanwhile,  *)
(* leaves a claim that ReplaceProfileSource would refuse to go on from, or  *)
(* a claim or count without its owner.                                      *)
THEOREM ProfilesSafe == RequestSpec => []ProfilesConsistent
<1>1. ProfileInv => ProfilesConsistent
  BY DEF ProfileInv
<1> QED BY <1>1, HandlersInit, HandlersStep, ProfileInitInv, ProfileStep, PTL DEF RequestSpec

-----------------------------------------------------------------------------
(* Finite sets in a strict total order R, a set of pairs. *)

Ordered(R, S) ==
    /\ \A x \in S : <<x, x>> \notin R
    /\ \A x, y, z \in S : <<x, y>> \in R /\ <<y, z>> \in R => <<x, z>> \in R
    /\ \A x, y \in S : x = y \/ <<x, y>> \in R \/ <<y, x>> \in R

Below(R, S, x) == {y \in S : <<y, x>> \in R}

Place(R, S, x) == Cardinality(Below(R, S, x))

Leading(R, S, n) == {x \in S : Place(R, S, x) < n}

LEMMA PlaceType ==
    ASSUME NEW R, NEW S, IsFiniteSet(S), NEW x
    PROVE  IsFiniteSet(Below(R, S, x)) /\ Place(R, S, x) \in Nat
<1>1. Below(R, S, x) \in SUBSET S
  BY DEF Below
<1> QED BY <1>1, FS_Subset, FS_CardinalityType DEF Place

LEMMA PlaceGrows ==
    ASSUME NEW R, NEW S, IsFiniteSet(S), Ordered(R, S), NEW x \in S, NEW y \in S,
           <<x, y>> \in R
    PROVE  Place(R, S, x) < Place(R, S, y)
<1>1. Below(R, S, x) \in SUBSET Below(R, S, y) /\ x \in Below(R, S, y) /\ x \notin Below(R, S, x)
  BY DEF Below, Ordered
<1> DEFINE B == Below(R, S, x)
           D == Below(R, S, y)
<1>2. IsFiniteSet(B) /\ IsFiniteSet(D) /\ Cardinality(B) \in Nat /\ Cardinality(D) \in Nat
  BY PlaceType DEF Place
<1> HIDE DEF B, D
<1>3. B \in SUBSET D /\ B # D
  BY <1>1 DEF B, D
<1>4. Cardinality(B) <= Cardinality(D) /\ (Cardinality(D) = Cardinality(B) => D = B)
  BY <1>2, <1>3, FS_Subset
<1>5. Cardinality(B) < Cardinality(D)
  BY <1>2, <1>3, <1>4
<1> QED BY <1>5 DEF Place, B, D

(* There is a first element and a last one. *)
LEMMA Extremes ==
    ASSUME NEW R, NEW S, IsFiniteSet(S), Ordered(R, S), S # {}
    PROVE  /\ \E x \in S : \A y \in S : x = y \/ <<x, y>> \in R
           /\ \E x \in S : \A y \in S : x = y \/ <<y, x>> \in R
<1> DEFINE P == {Place(R, S, x) : x \in S}
           n == Cardinality(S)
           Q == {n - Place(R, S, x) : x \in S}
<1>1. \A x \in S : Place(R, S, x) \in Nat
  BY PlaceType
<1>2. \A x \in S : Place(R, S, x) <= n /\ n \in Nat
  <2> TAKE x \in S
  <2>1. Below(R, S, x) \in SUBSET S
    BY DEF Below
  <2> QED BY <2>1, FS_Subset, FS_CardinalityType DEF Place
<1>3. PICK x \in S : \A y \in S : Place(R, S, x) <= Place(R, S, y)
  <2>1. P \subseteq Nat /\ P # {}
    BY <1>1
  <2>2. PICK p \in P : \A q \in P : p <= q
    BY <2>1, NatMin
  <2> QED BY <2>2
<1>4. PICK z \in S : \A y \in S : n - Place(R, S, z) <= n - Place(R, S, y)
  <2>1. Q \subseteq Nat /\ Q # {}
    BY <1>1, <1>2
  <2>2. PICK p \in Q : \A q \in Q : p <= q
    BY <2>1, NatMin
  <2> QED BY <2>2
<1>5. ASSUME NEW y \in S PROVE x = y \/ <<x, y>> \in R
  <2>1. ~ (Place(R, S, y) < Place(R, S, x))
    BY <1>1, <1>3
  <2>2. <<y, x>> \notin R
    BY <2>1, PlaceGrows
  <2> QED BY <2>2 DEF Ordered
<1>6. ASSUME NEW y \in S PROVE z = y \/ <<y, z>> \in R
  <2> HIDE DEF n
  <2>1. ~ (Place(R, S, z) < Place(R, S, y))
    BY <1>1, <1>2, <1>4
  <2>2. <<z, y>> \notin R
    BY <2>1, PlaceGrows
  <2> QED BY <2>2 DEF Ordered
<1> QED BY <1>5, <1>6

(* The first n elements are at most n. *)
LEMMA LeadingBounded ==
    ASSUME NEW R, NEW S, IsFiniteSet(S), Ordered(R, S), NEW n \in Nat
    PROVE  IsFiniteSet(Leading(R, S, n)) /\ Cardinality(Leading(R, S, n)) <= n
<1> DEFINE H == Leading(R, S, n)
           f == [x \in H |-> Place(R, S, x)]
           T == 0..(n - 1)
<1>1. ASSUME NEW x \in H PROVE x \in S /\ f[x] \in T
  <2>1. x \in S /\ Place(R, S, x) < n /\ Place(R, S, x) \in Nat
    BY PlaceType DEF Leading
  <2> QED BY <2>1
<1>2. ASSUME NEW x \in H, NEW y \in H, f[x] = f[y] PROVE x = y
  <2>1. x \in S /\ y \in S /\ Place(R, S, x) = Place(R, S, y) /\ Place(R, S, x) \in Nat
    BY <1>1, <1>2, PlaceType
  <2>2. <<x, y>> \notin R /\ <<y, x>> \notin R
    BY <2>1, PlaceGrows
  <2> QED BY <2>1, <2>2 DEF Ordered
<1>3. f \in [H -> T]
  BY <1>1
<1>4. f \in Injection(H, T)
  BY <1>2, <1>3 DEF Injection, IsInjective
<1>5. IsFiniteSet(T) /\ Cardinality(T) = IF 0 > n - 1 THEN 0 ELSE n - 1 - 0 + 1
  <2>1. 0 \in Int /\ n - 1 \in Int
    OBVIOUS
  <2> QED BY <2>1, FS_Interval
<1>6. Cardinality(T) = n
  BY <1>5
<1> HIDE DEF H, f, T
<1>7. IsFiniteSet(H) /\ Cardinality(H) <= Cardinality(T)
  BY <1>4, <1>5, FS_Injection
<1> QED BY <1>6, <1>7 DEF H

(* An element that is not among them comes after n of them. *)
LEMMA LeadingFull ==
    ASSUME NEW R, NEW S, IsFiniteSet(S), Ordered(R, S), NEW n \in Nat,
           NEW x \in S, x \notin Leading(R, S, n)
    PROVE  /\ Cardinality(Leading(R, S, n)) >= n
           /\ \A y \in Leading(R, S, n) : <<y, x>> \in R
<1> DEFINE H == Leading(R, S, n)
           P == {Place(R, S, y) : y \in S \ H}
<1>1. \A y \in S : Place(R, S, y) \in Nat
  BY PlaceType
<1>2. P \subseteq Nat /\ P # {}
  BY <1>1
<1>3. PICK p \in P : \A q \in P : p <= q
  BY <1>2, NatMin
<1>4. PICK m \in S \ H : p = Place(R, S, m)
  OBVIOUS
<1>5. ~ (Place(R, S, m) < n)
  BY <1>4 DEF Leading
<1>6. Below(R, S, m) \subseteq H
  <2> SUFFICES ASSUME NEW y \in S, <<y, m>> \in R, y \notin H
               PROVE  FALSE
    BY DEF Below
  <2>1. Place(R, S, m) <= Place(R, S, y)
    BY <1>3, <1>4
  <2>2. Place(R, S, y) < Place(R, S, m)
    BY <1>4, PlaceGrows
  <2> QED BY <1>1, <1>4, <2>1, <2>2
<1>7. Place(R, S, m) <= Cardinality(H) /\ Cardinality(H) \in Nat
  <2>1. IsFiniteSet(H)
    BY LeadingBounded
  <2> QED BY <1>6, <2>1, FS_Subset, FS_CardinalityType DEF Place
<1>8. Cardinality(H) >= n
  <2> HIDE DEF H
  <2> QED BY <1>1, <1>4, <1>5, <1>7
<1>9. ASSUME NEW y \in H PROVE <<y, x>> \in R
  <2>1. y \in S /\ Place(R, S, y) < n /\ ~ (Place(R, S, x) < n)
    BY DEF Leading
  <2>2. y # x /\ ~ (Place(R, S, x) < Place(R, S, y))
    BY <1>1, <2>1
  <2> QED BY <2>1, <2>2, PlaceGrows DEF Ordered
<1> QED BY <1>8, <1>9

(* When n elements come before x, so do the first n. *)
LEMMA LeadingBefore ==
    ASSUME NEW R, NEW U, NEW S, S \subseteq U, IsFiniteSet(S), Ordered(R, U), NEW n \in Nat,
           NEW T, T \subseteq S, Cardinality(T) >= n, NEW x \in U, \A y \in T : <<y, x>> \in R
    PROVE  /\ Cardinality(Leading(R, S, n)) >= n
           /\ \A y \in Leading(R, S, n) : <<y, x>> \in R
<1>0. Ordered(R, S)
  BY DEF Ordered
<1>1. IsFiniteSet(T) /\ Cardinality(T) \in Nat
  BY FS_Subset, FS_CardinalityType
<1>2. ASSUME NEW y \in Leading(R, S, n), <<y, x>> \notin R PROVE FALSE
  <2>1. y \in S /\ Place(R, S, y) < n
    BY DEF Leading
  <2>2. T \subseteq Below(R, S, y)
    BY <1>2, <2>1 DEF Below, Ordered
  <2>3. Cardinality(T) <= Place(R, S, y) /\ Place(R, S, y) \in Nat
    BY <2>2, PlaceType, FS_Subset DEF Place
  <2> QED BY <1>1, <2>1, <2>3
<1>3. Cardinality(Leading(R, S, n)) >= n
  <2>1. CASE \E y \in S : y \notin Leading(R, S, n)
    BY <1>0, <2>1, LeadingFull
  <2>2. CASE \A y \in S : y \in Leading(R, S, n)
    <3>1. Leading(R, S, n) = S
      BY <2>2 DEF Leading
    <3>2. Cardinality(T) <= Cardinality(S) /\ Cardinality(S) \in Nat
      BY FS_Subset, FS_CardinalityType
    <3> QED BY <1>1, <3>1, <3>2
  <2> QED BY <2>1, <2>2
<1> QED BY <1>2, <1>3

-----------------------------------------------------------------------------
(* The two directions of a scan. *)

Directions == {1, -1}

Lt(dir, x, y) == IF dir = 1 THEN x < y ELSE y < x

LEMMA Signed ==
    ASSUME NEW dir \in Directions, NEW x \in Int, NEW y \in Int
    PROVE  /\ dir * x < dir * y <=> Lt(dir, x, y)
           /\ dir * x <= dir * y <=> ~Lt(dir, y, x)
<1>1. CASE dir = 1
  BY <1>1 DEF Lt
<1>2. CASE dir = -1
  BY <1>2 DEF Lt
<1> QED BY <1>1, <1>2 DEF Directions

LEMMA AheadIs ==
    ASSUME NEW dir \in Directions, NEW k \in Int \X Int, NEW l \in Int \X Int
    PROVE  Ahead(dir, k, l) <=> \/ Lt(dir, k[1], l[1])
                                \/ k[1] = l[1] /\ Lt(dir, k[2], l[2])
<1>1. k[1] \in Int /\ k[2] \in Int /\ l[1] \in Int /\ l[2] \in Int
  OBVIOUS
<1>2. Ahead(dir, k, l) <=> \/ dir * k[1] < dir * l[1]
                           \/ dir * k[1] = dir * l[1] /\ dir * k[2] < dir * l[2]
  BY BeforePair DEF Ahead
<1>3. dir * k[1] = dir * l[1] <=> k[1] = l[1]
  <2>1. CASE dir = 1
    BY <1>1, <2>1
  <2>2. CASE dir = -1
    BY <1>1, <2>2
  <2> QED BY <2>1, <2>2 DEF Directions
<1>4. /\ dir * k[1] < dir * l[1] <=> Lt(dir, k[1], l[1])
      /\ dir * k[2] < dir * l[2] <=> Lt(dir, k[2], l[2])
  BY <1>1, Signed
<1> QED BY <1>2, <1>3, <1>4

Earlier(dir, a, b) == Lt(dir, Rank[a], Rank[b])

RankOrder(dir) == {p \in Actors \X Actors : Earlier(dir, p[1], p[2])}

LEMMA RankOrdered ==
    ASSUME NEW dir \in Directions
    PROVE  /\ Ordered(RankOrder(dir), Actors)
           /\ \A a, b \in Actors : <<a, b>> \in RankOrder(dir) <=> Earlier(dir, a, b)
<1>1. \A a, b \in Actors : <<a, b>> \in RankOrder(dir) <=> Earlier(dir, a, b)
  BY DEF RankOrder
<1>2. \A a \in Actors : Rank[a] \in Int
  BY PagesAssumption
<1>3. \A a, b \in Actors : Rank[a] = Rank[b] => a = b
  BY PagesAssumption
<1>4. \A a \in Actors : ~Earlier(dir, a, a)
  BY <1>2 DEF Earlier, Lt
<1>5. \A a, b, c \in Actors : Earlier(dir, a, b) /\ Earlier(dir, b, c) => Earlier(dir, a, c)
  BY <1>2 DEF Earlier, Lt
<1>6. \A a, b \in Actors : a = b \/ Earlier(dir, a, b) \/ Earlier(dir, b, a)
  BY <1>2, <1>3 DEF Earlier, Lt
<1> QED BY <1>1, <1>4, <1>5, <1>6 DEF Ordered

LEMMA SubsetOrdered ==
    ASSUME NEW R, NEW U, Ordered(R, U), NEW S, S \subseteq U
    PROVE  Ordered(R, S)
BY DEF Ordered

LEMMA FirstOfLeads ==
    ASSUME NEW dir \in Directions, NEW S \in SUBSET Actors, NEW n
    PROVE  FirstOf(S, n, dir) = Leading(RankOrder(dir), S, n)
<1>1. ASSUME NEW a \in S
      PROVE  {b \in S : dir * Rank[b] < dir * Rank[a]} = Below(RankOrder(dir), S, a)
  <2>1. ASSUME NEW b \in S
        PROVE  dir * Rank[b] < dir * Rank[a] <=> <<b, a>> \in RankOrder(dir)
    <3>1. a \in Actors /\ b \in Actors /\ Rank[a] \in Int /\ Rank[b] \in Int
      BY PagesAssumption
    <3>2. dir * Rank[b] < dir * Rank[a] <=> Earlier(dir, b, a)
      BY <3>1, Signed DEF Earlier
    <3> QED BY <3>1, <3>2, RankOrdered
  <2> QED BY <2>1 DEF Below
<1> QED BY <1>1 DEF FirstOf, Leading, Place

(* The first n of a set of actors. *)
LEMMA FirstOfFacts ==
    ASSUME NEW dir \in Directions, NEW S \in SUBSET Actors, NEW n \in Nat
    PROVE  /\ FirstOf(S, n, dir) \subseteq S
           /\ IsFiniteSet(FirstOf(S, n, dir))
           /\ Cardinality(FirstOf(S, n, dir)) \in Nat
           /\ Cardinality(FirstOf(S, n, dir)) <= n
           /\ \A a \in S \ FirstOf(S, n, dir) :
                /\ Cardinality(FirstOf(S, n, dir)) >= n
                /\ \A b \in FirstOf(S, n, dir) : Earlier(dir, b, a)
<1> DEFINE R == RankOrder(dir)
           F == FirstOf(S, n, dir)
<1>1. F = Leading(R, S, n) /\ F \subseteq S
  BY FirstOfLeads DEF Leading
<1>2. IsFiniteSet(S) /\ Ordered(R, S)
  BY RankOrdered, SubsetOrdered, PagesAssumption, FS_Subset
<1>3. \A a, b \in Actors : <<a, b>> \in R <=> Earlier(dir, a, b)
  BY RankOrdered
<1> HIDE DEF R, F
<1>4. IsFiniteSet(F) /\ Cardinality(F) <= n
  BY <1>1, <1>2, LeadingBounded
<1>5. ASSUME NEW a \in S \ F
      PROVE  Cardinality(F) >= n /\ \A b \in F : Earlier(dir, b, a)
  BY <1>1, <1>2, <1>3, LeadingFull
<1>6. Cardinality(F) \in Nat
  BY <1>4, FS_CardinalityType
<1> QED BY <1>1, <1>4, <1>5, <1>6 DEF F

LEMMA FirstOfBefore ==
    ASSUME NEW dir \in Directions, NEW S \in SUBSET Actors, NEW n \in Nat,
           NEW T, T \subseteq S, Cardinality(T) >= n, NEW a \in Actors,
           \A b \in T : Earlier(dir, b, a)
    PROVE  /\ Cardinality(FirstOf(S, n, dir)) >= n
           /\ \A b \in FirstOf(S, n, dir) : Earlier(dir, b, a)
<1> DEFINE R == RankOrder(dir)
           F == FirstOf(S, n, dir)
<1>1. F = Leading(R, S, n) /\ F \subseteq S
  BY FirstOfLeads DEF Leading
<1>2. IsFiniteSet(S) /\ Ordered(R, Actors)
  BY RankOrdered, PagesAssumption, FS_Subset
<1>3. \A b, c \in Actors : <<b, c>> \in R <=> Earlier(dir, b, c)
  BY RankOrdered
<1> HIDE DEF R, F
<1>4. \A b \in T : <<b, a>> \in R
  BY <1>3
<1>5. Cardinality(F) >= n /\ \A b \in F : <<b, a>> \in R
  BY <1>1, <1>2, <1>4, LeadingBefore
<1> QED BY <1>1, <1>3, <1>5 DEF F

LEMMA LastRankFacts ==
    ASSUME NEW dir \in Directions, NEW S \in SUBSET Actors, S # {}
    PROVE  \E c \in S : /\ LastRank(S, dir) = Rank[c]
                        /\ \A b \in S : ~Earlier(dir, c, b)
<1> DEFINE R == RankOrder(dir)
<1>1. IsFiniteSet(S) /\ Ordered(R, S)
  BY RankOrdered, SubsetOrdered, PagesAssumption, FS_Subset
<1>2. PICK x \in S : \A y \in S : x = y \/ <<y, x>> \in R
  BY <1>1, Extremes
<1>3. \A a \in S : Rank[a] \in Int
  BY PagesAssumption
<1>4. \A y \in S : dir * Rank[y] <= dir * Rank[x]
  <2> TAKE y \in S
  <2>1. x = y \/ Earlier(dir, y, x)
    BY <1>2, RankOrdered
  <2>2. ~Earlier(dir, x, y)
    BY <1>3, <2>1 DEF Earlier, Lt
  <2> QED BY <1>3, <2>2, Signed DEF Earlier
<1> DEFINE c == CHOOSE a \in S : \A b \in S : dir * Rank[b] <= dir * Rank[a]
<1>5. c \in S /\ \A b \in S : dir * Rank[b] <= dir * Rank[c]
  BY <1>4
<1>6. LastRank(S, dir) = Rank[c]
  BY DEF LastRank
<1> HIDE DEF c
<1>7. \A b \in S : ~Earlier(dir, c, b)
  BY <1>3, <1>5, Signed DEF Earlier
<1> QED BY <1>5, <1>6, <1>7

(* The two ends of a page. *)
LEMMA KeyEnds ==
    ASSUME NEW keys \in SUBSET (Nat \X Nat), IsFiniteSet(keys), keys # {}
    PROVE  /\ FirstKey(keys) \in keys /\ \A l \in keys : ~Less(l, FirstKey(keys))
           /\ FinalKey(keys) \in keys /\ \A l \in keys : ~Less(FinalKey(keys), l)
<1> DEFINE R == {p \in keys \X keys : Less(p[1], p[2])}
<1>0. \A k \in keys : k \in Int \X Int /\ k = <<k[1], k[2]>> /\ k[1] \in Int /\ k[2] \in Int
  OBVIOUS
<1>1. \A k, l \in keys : <<k, l>> \in R <=> Less(k, l)
  OBVIOUS
<1>2. \A k, l \in keys : Less(k, l) <=> k[1] < l[1] \/ (k[1] = l[1] /\ k[2] < l[2])
  BY <1>0, AheadIs DEF Less, Lt, Directions
<1>3. Ordered(R, keys)
  <2>1. \A k \in keys : <<k, k>> \notin R
    BY <1>0, <1>1, <1>2
  <2>2. \A k, l, m \in keys : <<k, l>> \in R /\ <<l, m>> \in R => <<k, m>> \in R
    <3> TAKE k, l, m \in keys
    <3>1. Less(k, l) /\ Less(l, m) => Less(k, m)
      BY <1>0, <1>2
    <3> QED BY <1>1, <3>1
  <2>3. \A k, l \in keys : k = l \/ <<k, l>> \in R \/ <<l, k>> \in R
    <3> TAKE k, l \in keys
    <3>1. k[1] = l[1] /\ k[2] = l[2] => k = l
      BY <1>0
    <3>2. k = l \/ Less(k, l) \/ Less(l, k)
      BY <1>0, <1>2, <3>1
    <3> QED BY <1>1, <3>2
  <2> QED BY <2>1, <2>2, <2>3 DEF Ordered
<1>4. /\ \E x \in keys : \A y \in keys : x = y \/ <<x, y>> \in R
      /\ \E x \in keys : \A y \in keys : x = y \/ <<y, x>> \in R
  BY <1>3, Extremes
<1>5. \A x, y \in keys : (x = y \/ <<x, y>> \in R) => ~Less(y, x)
  BY <1>1, <1>3 DEF Ordered
<1> HIDE DEF R
<1>6. /\ \E k \in keys : \A l \in keys : ~Less(l, k)
      /\ \E k \in keys : \A l \in keys : ~Less(k, l)
  BY <1>4, <1>5
<1> QED BY <1>6 DEF FirstKey, FinalKey

LEMMA AheadTotal ==
    ASSUME NEW dir \in Directions, NEW k \in Nat \X Nat, NEW l \in Nat \X Nat,
           ~Ahead(dir, k, l), ~Ahead(dir, l, k)
    PROVE  k = l
<1>1. /\ k \in Int \X Int /\ l \in Int \X Int /\ k = <<k[1], k[2]>> /\ l = <<l[1], l[2]>>
      /\ k[1] \in Int /\ k[2] \in Int /\ l[1] \in Int /\ l[2] \in Int
  OBVIOUS
<1>2. k[1] = l[1] /\ k[2] = l[2]
  BY <1>1, AheadIs DEF Lt
<1> QED BY <1>1, <1>2

LEMMA ReverseAhead ==
    ASSUME NEW k \in Nat \X Nat, NEW l \in Nat \X Nat
    PROVE  Ahead(-1, k, l) <=> Ahead(1, l, k)
<1>1. /\ k \in Int \X Int /\ l \in Int \X Int
      /\ k[1] \in Int /\ k[2] \in Int /\ l[1] \in Int /\ l[2] \in Int
  OBVIOUS
<1> QED BY <1>1, AheadIs DEF Lt, Directions

LEMMA LessStrict ==
    ASSUME NEW k \in Nat \X Nat, NEW l \in Nat \X Nat
    PROVE  /\ ~Less(k, k)
           /\ Less(k, l) => ~Less(l, k)
<1>1. /\ k \in Int \X Int /\ l \in Int \X Int
      /\ k[1] \in Int /\ k[2] \in Int /\ l[1] \in Int /\ l[2] \in Int
  OBVIOUS
<1> QED BY <1>1, AheadIs DEF Less, Lt, Directions

-----------------------------------------------------------------------------
(* The invariant of a read.  S are the actors whose rows did not change     *)
(* since it began, L those known from their lifecycle, P the public ones, T *)
(* their tiers, W those of a walk and V their last-seen times.              *)

ScanPhases == {"lifecycle", "discovery", "details"}
PageKinds  == {"page", "export"}
WalkKinds  == {"listing", "health"}

ReaderRow ==
    [kind : PageKinds \cup WalkKinds,
     phase : {"idle", "page", "query", "between"} \cup ScanPhases \cup ReadEnded,
     dir : Directions, observed : Instants, probing : BOOLEAN, from : Nat \X Nat,
     tier : Tiers, boundary : Nat, scanned : Nat, actors : SUBSET Actors,
     listed : SUBSET (Tiers \X Nat), continuation : Nat \X Nat, stop : Nat \X Nat,
     seen : SUBSET Actors, pages : Nat, scope : Scopes, kept : SUBSET Actors]

KeyIn(T, a) == <<T[a], Rank[a]>>

(* What the scan has left behind of the order, and what of its tier it has  *)
(* before it.                                                               *)
Behind(r, k) ==
    \/ Lt(r.dir, k[1], r.tier)
    \/ k[1] = r.tier /\ r.boundary # 0 /\ ~Lt(r.dir, r.boundary, k[2])

BeyondBoundary(r, a) == r.boundary = 0 \/ Lt(r.dir, r.boundary, Rank[a])

(* The last relay of a page in the direction of its scan. *)
EndKey(r) == IF r.dir = 1 THEN FinalKey(r.listed) ELSE FirstKey(r.listed)

Own(r, S, P, T) ==
    \A a \in S, k \in r.listed : k[2] = Rank[a] => a \in P /\ k = KeyIn(T, a)

Within(r) == \A k \in r.listed : Ahead(r.dir, r.from, k)

Filling(r, S, P, T) ==
    /\ Cardinality(r.listed) < PageLimit
    /\ \A k \in r.listed : Behind(r, k)
    /\ \A a \in S \cap P :
          Ahead(r.dir, r.from, KeyIn(T, a)) /\ Behind(r, KeyIn(T, a)) => KeyIn(T, a) \in r.listed

(* Once a page is full nothing was found behind the scan that follows it.   *)
Probed(r, S, P, T) ==
    /\ r.listed # {}
    /\ \A a \in S \cap P :
          /\ Ahead(r.dir, r.from, KeyIn(T, a)) /\ ~Ahead(r.dir, EndKey(r), KeyIn(T, a)) =>
               KeyIn(T, a) \in r.listed
          /\ Ahead(r.dir, EndKey(r), KeyIn(T, a)) => ~Behind(r, KeyIn(T, a))

(* The candidates gathered are all that may be examined, or every known     *)
(* actor that did not change is among them or beyond them.                  *)
Gathered(r, S, X) ==
    /\ \A b \in r.actors : BeyondBoundary(r, b)
    /\ \A a \in S \cap X : BeyondBoundary(r, a) =>
          \/ a \in r.actors
          \/ /\ Cardinality(r.actors) > ScanLimit - r.scanned
             /\ \A b \in r.actors : Earlier(r.dir, b, a)

ScanInv(r, S, P, T) ==
    /\ r.scanned < ScanLimit
    /\ Behind(r, r.from)
    /\ ~r.probing => Filling(r, S, P, T)
    /\ r.probing => Probed(r, S, P, T)

ClosedPage(r, S, P, T) ==
    /\ r.continuation # NoCursor =>
         /\ Ahead(r.dir, r.from, r.continuation)
         /\ \A k \in r.listed : ~Ahead(r.dir, r.continuation, k)
    /\ r.stop # NoCursor => Ahead(r.dir, r.from, r.stop) /\ r.continuation \in {NoCursor, r.stop}
    /\ \A a \in S \cap P : Covered(r, KeyIn(T, a)) => KeyIn(T, a) \in r.listed

PageInv(r, S, L, P, T) ==
    /\ IsFiniteSet(r.listed)
    /\ r.dir = -1 => r.from # NoCursor
    /\ Own(r, S, P, T)
    /\ Within(r)
    /\ r.phase \in ScanPhases => ScanInv(r, S, P, T)
    /\ r.phase = "discovery" => Gathered(r, S, L)
    /\ r.phase = "details" => Gathered(r, S, P)
    /\ r.phase = "page" \/ r.phase = "done" => ClosedPage(r, S, P, T)

(* Two states of a read in the same place. *)
SamePlace(r, q) ==
    /\ q.kind = r.kind /\ q.dir = r.dir /\ q.from = r.from /\ q.tier = r.tier
    /\ q.boundary = r.boundary /\ q.scanned = r.scanned /\ q.listed = r.listed
    /\ q.probing = r.probing /\ q.continuation = r.continuation /\ q.stop = r.stop

(* Nothing changes of what a read is about. *)
SameRead(r, q) ==
    /\ q.kind = r.kind /\ q.dir = r.dir /\ q.from = r.from /\ q.observed = r.observed
    /\ q.seen = r.seen /\ q.kept = r.kept /\ q.scope = r.scope

LEMMA PlaceKept ==
    ASSUME NEW r, NEW q, SamePlace(r, q), NEW S, NEW P, NEW T
    PROVE  /\ Own(q, S, P, T) <=> Own(r, S, P, T)
           /\ Within(q) <=> Within(r)
           /\ ScanInv(q, S, P, T) <=> ScanInv(r, S, P, T)
           /\ ClosedPage(q, S, P, T) <=> ClosedPage(r, S, P, T)
           /\ \A a : BeyondBoundary(q, a) <=> BeyondBoundary(r, a)
<1>1. \A k : Behind(q, k) <=> Behind(r, k)
  BY DEF SamePlace, Behind
<1>2. EndKey(q) = EndKey(r)
  BY DEF SamePlace, EndKey
<1>3. Own(q, S, P, T) <=> Own(r, S, P, T)
  BY DEF SamePlace, Own
<1>4. Within(q) <=> Within(r)
  BY DEF SamePlace, Within
<1>5. Filling(q, S, P, T) <=> Filling(r, S, P, T)
  BY <1>1 DEF SamePlace, Filling
<1>6. Probed(q, S, P, T) <=> Probed(r, S, P, T)
  BY <1>1, <1>2 DEF SamePlace, Probed
<1>7. ScanInv(q, S, P, T) <=> ScanInv(r, S, P, T)
  BY <1>1, <1>5, <1>6 DEF SamePlace, ScanInv
<1>8. ClosedPage(q, S, P, T) <=> ClosedPage(r, S, P, T)
  BY DEF SamePlace, ClosedPage, Covered
<1>9. \A a : BeyondBoundary(q, a) <=> BeyondBoundary(r, a)
  BY DEF SamePlace, BeyondBoundary
<1> QED BY <1>3, <1>4, <1>7, <1>8, <1>9

(* The state of the store a read is measured against. *)
LifecycleSet == {a \in Actors : LifecycleKnown(a)}
PublicSet    == {a \in Actors : PublicRelay(a)}
TierMap(t)   == [a \in Actors |-> ClassifyDirectoryTier(a, t)]

LEMMA TierOnline ==
    ASSUME NEW a, NEW t
    PROVE  /\ ClassifyDirectoryTier(a, t) \in Tiers
           /\ ClassifyDirectoryTier(a, t) <= 2 <=> FreshReachability(a, t) \/ CurrentHeartbeat(a, t)
<1> DEFINE online == Later(FirstKnown(a), Later(relays[a].seen, observations[a].success))
           dead   == online <= t - GraveyardAfter
           f      == FreshReachability(a, t)
           h      == CurrentHeartbeat(a, t)
           tier   == IF f /\ h THEN 1 ELSE IF f \/ h THEN 2 ELSE IF dead THEN 4 ELSE 3
<1>1. ClassifyDirectoryTier(a, t) = tier
  BY DEF ClassifyDirectoryTier
<1>2. tier \in Tiers /\ (tier <= 2 <=> f \/ h)
  <2> HIDE DEF f, h, dead
  <2>1. CASE f /\ h
    <3>1. tier = 1
      BY <2>1
    <3> QED BY <2>1, <3>1 DEF Tiers
  <2>2. CASE ~(f /\ h) /\ (f \/ h)
    <3>1. tier = 2
      BY <2>2
    <3> QED BY <2>2, <3>1 DEF Tiers
  <2>3. CASE ~(f \/ h)
    <3>1. tier \in {3, 4}
      BY <2>3
    <3> QED BY <2>3, <3>1 DEF Tiers
  <2> QED BY <2>1, <2>2, <2>3
<1> QED BY <1>1, <1>2

LEMMA TierType ==
    ASSUME NEW t
    PROVE  TierMap(t) \in [Actors -> Tiers]
BY TierOnline DEF TierMap

LEMMA BeyondIs ==
    ASSUME reader \in ReaderRow, NEW a \in Actors
    PROVE  Beyond(a) <=> BeyondBoundary(reader, a)
<1>1. reader.dir \in Directions /\ reader.boundary \in Int /\ Rank[a] \in Int
  BY PagesAssumption DEF ReaderRow
<1> QED BY <1>1, Signed DEF Beyond, BeyondBoundary

LEMMA LifecycleCandidatesKeep ==
    ASSUME reader \in ReaderRow, NEW S, NEW T, ReadLifecycleCandidates,
           PageInv(reader, S, LifecycleSet, PublicSet, T)
    PROVE  /\ reader' \in ReaderRow
           /\ SameRead(reader, reader')
           /\ reader'.phase = "discovery"
           /\ PageInv(reader', S, LifecycleSet, PublicSet, T)
<1> DEFINE n == Remaining + 1
           X == {a \in Actors : LifecycleKnown(a) /\ Beyond(a)}
           F == FirstOf(X, n, reader.dir)
<1>1. /\ reader.phase = "lifecycle"
      /\ reader' = [reader EXCEPT !.phase = "discovery", !.actors = F]
  BY DEF ReadLifecycleCandidates
<1>2. ScanInv(reader, S, PublicSet, T)
  BY <1>1 DEF PageInv, ScanPhases
<1>3. reader.dir \in Directions /\ reader.scanned \in Nat /\ reader.scanned < ScanLimit
  BY <1>2 DEF ReaderRow, ScanInv
<1>4. n \in Nat /\ n > ScanLimit - reader.scanned
  BY <1>3, PagesAssumption DEF Remaining
<1>5. X \in SUBSET Actors
  OBVIOUS
<1> HIDE DEF n, F
<1>6. /\ F \subseteq X
      /\ Cardinality(F) \in Nat
      /\ \A a \in X \ F : Cardinality(F) >= n /\ \A b \in F : Earlier(reader.dir, b, a)
  BY <1>3, <1>4, <1>5, FirstOfFacts DEF F
<1>7. \A a \in Actors : a \in X <=> a \in LifecycleSet /\ BeyondBoundary(reader, a)
  BY BeyondIs DEF LifecycleSet
<1> HIDE DEF X
<1>8. /\ reader' \in ReaderRow /\ SameRead(reader, reader') /\ SamePlace(reader, reader')
      /\ reader'.phase = "discovery" /\ reader'.actors = F
  BY <1>1, <1>5, <1>6 DEF ReaderRow, SameRead, SamePlace, ScanPhases
<1>9. Gathered(reader', S, LifecycleSet)
  <2>1. \A b \in F : BeyondBoundary(reader', b)
    BY <1>5, <1>6, <1>7, <1>8, PlaceKept
  <2>2. ASSUME NEW a \in S \cap LifecycleSet, BeyondBoundary(reader', a), a \notin F
        PROVE  /\ Cardinality(F) > ScanLimit - reader'.scanned
               /\ \A b \in F : Earlier(reader'.dir, b, a)
    <3>1. a \in X \ F
      BY <1>7, <1>8, <2>2, PlaceKept DEF LifecycleSet
    <3>2. reader'.scanned = reader.scanned /\ reader'.dir = reader.dir
      BY <1>8 DEF SamePlace
    <3> QED BY <1>3, <1>4, <1>6, <3>1, <3>2, PagesAssumption
  <2> QED BY <1>8, <2>1, <2>2 DEF Gathered
<1>10. PageInv(reader', S, LifecycleSet, PublicSet, T)
  BY <1>1, <1>2, <1>8, <1>9, PlaceKept DEF PageInv, SamePlace, ScanPhases
<1> QED BY <1>8, <1>10

LEMMA DiscoveryCandidatesKeep ==
    ASSUME reader \in ReaderRow, NEW S, NEW T, ReadDiscoveryCandidates,
           PageInv(reader, S, LifecycleSet, PublicSet, T)
    PROVE  /\ reader' \in ReaderRow
           /\ SameRead(reader, reader')
           /\ reader'.phase = "details"
           /\ PageInv(reader', S, LifecycleSet, PublicSet, T)
<1> DEFINE n == Remaining + 1
           X == {a \in Actors : DiscoveryKnown(a) /\ Beyond(a)}
           D == FirstOf(X, n, reader.dir)
           A == reader.actors
           U == A \cup D
           F == FirstOf(U, n, reader.dir)
<1>1. /\ reader.phase = "discovery"
      /\ reader' = [reader EXCEPT !.phase = "details", !.actors = F]
  BY DEF ReadDiscoveryCandidates
<1>2. ScanInv(reader, S, PublicSet, T) /\ Gathered(reader, S, LifecycleSet)
  BY <1>1 DEF PageInv, ScanPhases
<1>3. reader.dir \in Directions /\ reader.scanned \in Nat /\ reader.scanned < ScanLimit
  BY <1>2 DEF ReaderRow, ScanInv
<1>4. n \in Nat /\ n = ScanLimit - reader.scanned + 1
  BY <1>3, PagesAssumption DEF Remaining
<1>5. X \in SUBSET Actors /\ A \in SUBSET Actors
  BY DEF ReaderRow
<1> HIDE DEF n, D, F, U, A
<1>6. /\ D \subseteq X
      /\ Cardinality(D) \in Nat
      /\ \A a \in X \ D : Cardinality(D) >= n /\ \A b \in D : Earlier(reader.dir, b, a)
  BY <1>3, <1>4, <1>5, FirstOfFacts DEF D
<1>7. U \in SUBSET Actors /\ A \subseteq U /\ D \subseteq U
  BY <1>5, <1>6 DEF U
<1>8. /\ F \subseteq U
      /\ Cardinality(F) \in Nat
      /\ \A a \in U \ F : Cardinality(F) >= n /\ \A b \in F : Earlier(reader.dir, b, a)
  BY <1>3, <1>4, <1>7, FirstOfFacts DEF F
<1>9. \A a \in Actors : a \in X <=> DiscoveryKnown(a) /\ BeyondBoundary(reader, a)
  BY BeyondIs
<1> HIDE DEF X
<1>10. /\ reader' \in ReaderRow /\ SameRead(reader, reader') /\ SamePlace(reader, reader')
       /\ reader'.phase = "details" /\ reader'.actors = F
  BY <1>1, <1>7, <1>8 DEF ReaderRow, SameRead, SamePlace, ScanPhases
<1>11. \A b \in F : BeyondBoundary(reader', b)
  <2>1. \A b \in A : BeyondBoundary(reader, b)
    BY <1>2 DEF Gathered, A
  <2>2. \A b \in D : BeyondBoundary(reader, b)
    BY <1>5, <1>6, <1>9
  <2> QED BY <1>8, <1>10, <2>1, <2>2, PlaceKept DEF U
<1>12. ASSUME NEW a \in S \cap PublicSet, BeyondBoundary(reader', a), a \notin F
       PROVE  Cardinality(F) >= n /\ \A b \in F : Earlier(reader.dir, b, a)
  <2>1. a \in Actors /\ (a \in LifecycleSet \/ DiscoveryKnown(a)) /\ BeyondBoundary(reader, a)
    BY <1>10, <1>12, PlaceKept DEF PublicSet, LifecycleSet, PublicRelay
  <2>2. CASE a \in U
    BY <1>8, <1>12, <2>2
  <2>3. CASE a \notin U /\ a \in LifecycleSet
    <3>1. a \in S \cap LifecycleSet /\ a \notin reader.actors
      BY <1>7, <1>12, <2>3 DEF A
    <3>2. Cardinality(A) > ScanLimit - reader.scanned /\ \A b \in A : Earlier(reader.dir, b, a)
      BY <1>2, <2>1, <3>1 DEF Gathered, A
    <3>3. IsFiniteSet(A) /\ Cardinality(A) \in Nat
      BY <1>5, PagesAssumption, FS_Subset, FS_CardinalityType
    <3>4. Cardinality(A) >= n
      BY <1>3, <1>4, <3>2, <3>3, PagesAssumption
    <3> QED BY <1>3, <1>4, <1>7, <2>1, <3>2, <3>4, FirstOfBefore DEF F
  <2>4. CASE a \notin U /\ DiscoveryKnown(a)
    <3>1. a \in X \ D
      BY <1>7, <1>9, <2>1, <2>4
    <3>2. Cardinality(D) >= n /\ \A b \in D : Earlier(reader.dir, b, a)
      BY <1>6, <3>1
    <3> QED BY <1>3, <1>4, <1>7, <2>1, <3>2, FirstOfBefore DEF F
  <2> QED BY <2>1, <2>2, <2>3, <2>4
<1>13. Gathered(reader', S, PublicSet)
  <2>1. reader'.scanned = reader.scanned /\ reader'.dir = reader.dir
    BY <1>10 DEF SamePlace
  <2>2. n > ScanLimit - reader'.scanned
    BY <1>3, <1>4, <2>1, PagesAssumption
  <2>3. \A c \in Nat : c >= n => c > ScanLimit - reader'.scanned
    BY <1>3, <1>4, <2>1, PagesAssumption
  <2> QED BY <1>8, <1>10, <1>11, <1>12, <2>1, <2>3 DEF Gathered
<1>14. PageInv(reader', S, LifecycleSet, PublicSet, T)
  BY <1>1, <1>2, <1>10, <1>13, PlaceKept DEF PageInv, SamePlace, ScanPhases
<1> QED BY <1>10, <1>14

-----------------------------------------------------------------------------
(* The details of the candidates. *)

LEMMA SeedFacts ==
    ASSUME reader \in ReaderRow, reader.phase = "details", NEW S, NEW L, NEW P, NEW T,
           PageInv(reader, S, L, P, T)
    PROVE  /\ Seeds \in SUBSET reader.actors /\ Seeds \in SUBSET Actors
           /\ IsFiniteSet(Seeds)
           /\ Scanned \in Nat /\ Scanned <= ScanLimit
           /\ Seeds = {} => ~TierHasMore /\ Scanned = reader.scanned
           /\ \A a \in Seeds : BeyondBoundary(reader, a)
           /\ \A a \in S \cap P : a \in Actors /\ BeyondBoundary(reader, a) =>
                \/ a \in Seeds
                \/ TierHasMore /\ \A b \in Seeds : Earlier(reader.dir, b, a)
<1> DEFINE n == Remaining
           A == reader.actors
<1>1. ScanInv(reader, S, P, T) /\ Gathered(reader, S, P)
  BY DEF PageInv, ScanPhases
<1>2. /\ reader.dir \in Directions /\ reader.scanned \in Nat /\ reader.scanned < ScanLimit
      /\ A \in SUBSET Actors
  BY <1>1 DEF ReaderRow, ScanInv
<1>3. n \in Nat /\ n # 0 /\ n = ScanLimit - reader.scanned
  BY <1>2, PagesAssumption DEF Remaining
<1>4. /\ IsFiniteSet(A) /\ Cardinality(A) \in Nat
  BY <1>2, PagesAssumption, FS_Subset, FS_CardinalityType
<1> HIDE DEF n
<1>5. /\ Seeds \subseteq A
      /\ IsFiniteSet(Seeds)
      /\ Cardinality(Seeds) \in Nat
      /\ Cardinality(Seeds) <= n
      /\ \A a \in A \ Seeds : /\ Cardinality(Seeds) >= n
                              /\ \A b \in Seeds : Earlier(reader.dir, b, a)
  BY <1>2, <1>3, FirstOfFacts DEF Seeds, n
<1>6. Scanned \in Nat /\ Scanned <= ScanLimit
  BY <1>2, <1>3, <1>5, PagesAssumption DEF Scanned
<1>7. ASSUME Seeds = {} PROVE ~TierHasMore /\ Scanned = reader.scanned
  <2>1. Cardinality(Seeds) = 0
    BY <1>7, FS_EmptySet
  <2>2. A = {}
    BY <1>3, <1>5, <1>7, <2>1
  <2>3. Cardinality(A) = 0
    BY <2>2, FS_EmptySet
  <2> QED BY <1>2, <2>1, <2>3 DEF TierHasMore, Scanned
<1>8. \A a \in Seeds : BeyondBoundary(reader, a)
  BY <1>1, <1>5 DEF Gathered
<1>9. ASSUME NEW a \in S \cap P, a \in Actors, BeyondBoundary(reader, a), a \notin Seeds
      PROVE  TierHasMore /\ \A b \in Seeds : Earlier(reader.dir, b, a)
  <2>1. CASE a \in A
    <3>1. Cardinality(Seeds) < Cardinality(A)
      BY <1>4, <1>5, <1>9, <2>1, FS_Subset
    <3> QED BY <1>4, <1>5, <1>9, <2>1, <3>1 DEF TierHasMore
  <2>2. CASE a \notin A
    <3>1. /\ Cardinality(A) > ScanLimit - reader.scanned
          /\ \A b \in A : Earlier(reader.dir, b, a)
      BY <1>1, <1>9, <2>2 DEF Gathered
    <3>2. Cardinality(A) > Cardinality(Seeds)
      BY <1>3, <1>4, <1>5, <3>1
    <3> QED BY <1>5, <3>1, <3>2 DEF TierHasMore
  <2> QED BY <2>1, <2>2
<1> QED BY <1>2, <1>5, <1>6, <1>7, <1>8, <1>9

LEMMA HitsAre ==
    ASSUME NEW a \in Actors
    PROVE  a \in Hits <=> /\ a \in Seeds
                          /\ a \in PublicSet
                          /\ TierMap(reader.observed)[a] = reader.tier
BY DEF Hits, PublicSet, TierMap

(* A relay beyond the boundary, and a key the scan has left behind. *)
LEMMA BehindAhead ==
    ASSUME NEW r \in ReaderRow, NEW c \in Actors, BeyondBoundary(r, c), NEW k \in Nat \X Nat,
           Behind(r, k)
    PROVE  Ahead(r.dir, k, <<r.tier, Rank[c]>>) /\ ~Ahead(r.dir, <<r.tier, Rank[c]>>, k)
<1> DEFINE l == <<r.tier, Rank[c]>>
<1>1. /\ r.dir \in Directions /\ r.tier \in Int /\ r.boundary \in Int /\ Rank[c] \in Int
      /\ k \in Int \X Int /\ k[1] \in Int /\ k[2] \in Int
  BY PagesAssumption DEF ReaderRow, Tiers
<1>2. l \in Int \X Int /\ l[1] = r.tier /\ l[2] = Rank[c]
  BY <1>1
<1> HIDE DEF l
<1>3. /\ Ahead(r.dir, k, l) <=> Lt(r.dir, k[1], l[1]) \/ (k[1] = l[1] /\ Lt(r.dir, k[2], l[2]))
      /\ Ahead(r.dir, l, k) <=> Lt(r.dir, l[1], k[1]) \/ (l[1] = k[1] /\ Lt(r.dir, l[2], k[2]))
  BY <1>1, <1>2, AheadIs
<1>4. Ahead(r.dir, k, l) /\ ~Ahead(r.dir, l, k)
  BY <1>1, <1>2, <1>3 DEF Behind, BeyondBoundary, Lt
<1> QED BY <1>4 DEF l

(* A key that is not left behind is one of the tier beyond the boundary, or *)
(* of a later tier.                                                         *)
LEMMA NotBehind ==
    ASSUME NEW r \in ReaderRow, NEW a \in Actors, NEW T \in [Actors -> Tiers],
           ~Behind(r, KeyIn(T, a))
    PROVE  Lt(r.dir, r.tier, T[a]) \/ (T[a] = r.tier /\ BeyondBoundary(r, a))
<1>1. /\ r.dir \in Directions /\ r.tier \in Int /\ r.boundary \in Int /\ Rank[a] \in Int
      /\ T[a] \in Int
  BY PagesAssumption DEF ReaderRow, Tiers
<1>2. KeyIn(T, a)[1] = T[a] /\ KeyIn(T, a)[2] = Rank[a]
  BY DEF KeyIn
<1> QED BY <1>1, <1>2 DEF Behind, BeyondBoundary, Lt

(* The listed relays with some of the hits. *)
ListedPlus(H) == reader.listed \cup {Key(a) : a \in H}

LEMMA ListedWith ==
    ASSUME reader \in ReaderRow, reader.phase = "details", NEW S, S \subseteq Actors, NEW L,
           NEW P, P = PublicSet, NEW T, T = TierMap(reader.observed), PageInv(reader, S, L, P, T),
           NEW H \in SUBSET Hits
    PROVE  /\ ListedPlus(H) \in SUBSET (Tiers \X Nat)
           /\ IsFiniteSet(ListedPlus(H)) /\ Cardinality(ListedPlus(H)) \in Nat
           /\ IsFiniteSet(H) /\ Cardinality(H) \in Nat
           /\ Cardinality(ListedPlus(H)) <= Cardinality(reader.listed) + Cardinality(H)
           /\ \A a \in S, k \in ListedPlus(H) : k[2] = Rank[a] => a \in P /\ k = KeyIn(T, a)
           /\ \A k \in ListedPlus(H) : Ahead(reader.dir, reader.from, k)
<1> DEFINE keys == ListedPlus(H)
           K    == {Key(a) : a \in H}
<1>0. keys = reader.listed \cup K
  BY DEF ListedPlus
<1> HIDE DEF keys
<1>1. H \in SUBSET Seeds /\ Seeds \in SUBSET Actors /\ IsFiniteSet(Seeds)
  BY SeedFacts DEF Hits
<1>2. IsFiniteSet(H) /\ Cardinality(H) \in Nat
  BY <1>1, FS_Subset, FS_CardinalityType
<1>3. IsFiniteSet(K) /\ Cardinality(K) <= Cardinality(H)
  <2> DEFINE f == [a \in H |-> Key(a)]
  <2>1. f \in Surjection(H, K)
    BY DEF Surjection
  <2> HIDE DEF f, K
  <2> QED BY <1>2, <2>1, FS_Surjection
<1>4. IsFiniteSet(reader.listed) /\ Cardinality(reader.listed) \in Nat /\ Cardinality(K) \in Nat
  BY <1>3, FS_CardinalityType DEF PageInv
<1>5. IsFiniteSet(keys) /\ Cardinality(keys) \in Nat
  BY <1>0, <1>3, <1>4, FS_Union, FS_CardinalityType
<1>6. Cardinality(keys) <= Cardinality(reader.listed) + Cardinality(H)
  <2> DEFINE I == reader.listed \cap K
  <2>1. /\ IsFiniteSet(I)
        /\ Cardinality(keys) = Cardinality(reader.listed) + Cardinality(K) - Cardinality(I)
    BY <1>0, <1>3, <1>4, FS_Union, FS_Intersection
  <2>2. Cardinality(I) \in Nat
    BY <2>1, FS_CardinalityType
  <2> HIDE DEF I, K
  <2> QED BY <1>2, <1>3, <1>4, <2>1, <2>2
<1>7. \A a \in H : /\ a \in Actors /\ a \in P /\ T[a] = reader.tier
                   /\ Key(a) = KeyIn(T, a) /\ Key(a) \in Tiers \X Nat /\ Key(a)[2] = Rank[a]
                   /\ BeyondBoundary(reader, a)
  <2> TAKE a \in H
  <2>1. a \in Actors /\ a \in Hits /\ a \in Seeds
    BY <1>1
  <2>2. a \in P /\ T[a] = reader.tier
    BY <2>1, HitsAre
  <2>3. reader.tier \in Tiers /\ Rank[a] \in Nat
    BY <2>1, PagesAssumption DEF ReaderRow
  <2>4. Key(a) = KeyIn(T, a)
    BY <2>2 DEF Key, KeyIn
  <2>5. Key(a) \in Tiers \X Nat /\ Key(a)[2] = Rank[a]
    BY <2>3 DEF Key
  <2> QED BY <2>1, <2>2, <2>4, <2>5, SeedFacts
<1>8. keys \in SUBSET (Tiers \X Nat)
  <2>1. reader.listed \in SUBSET (Tiers \X Nat)
    BY DEF ReaderRow
  <2> QED BY <1>0, <1>7, <2>1
<1>9. \A a \in H : Ahead(reader.dir, reader.from, Key(a))
  <2> TAKE a \in H
  <2>1. Behind(reader, reader.from) /\ reader.from \in Nat \X Nat
    BY DEF PageInv, ScanInv, ScanPhases, ReaderRow
  <2>2. a \in Actors /\ BeyondBoundary(reader, a)
    BY <1>7
  <2> QED BY <2>1, <2>2, BehindAhead DEF Key
<1>10. Own(reader, S, P, T) /\ Within(reader)
  BY DEF PageInv
<1>11. ASSUME NEW a \in S, NEW k \in keys, k[2] = Rank[a]
       PROVE  a \in P /\ k = KeyIn(T, a)
  <2>1. CASE k \in reader.listed
    BY <1>10, <1>11, <2>1 DEF Own
  <2>2. CASE k \in K
    <3>1. PICK b \in H : k = Key(b)
      BY <2>2
    <3>2. Rank[b] = Rank[a] /\ b \in Actors /\ a \in Actors
      BY <1>7, <1>11, <3>1
    <3>3. b = a
      BY <3>2, PagesAssumption
    <3> QED BY <1>7, <3>1, <3>3
  <2> QED BY <1>0, <2>1, <2>2
<1>12. \A k \in keys : Ahead(reader.dir, reader.from, k)
  BY <1>0, <1>9, <1>10 DEF Within
<1> QED BY <1>2, <1>5, <1>6, <1>8, <1>11, <1>12 DEF keys

(* No relay of the tier is left out up to the last seed, and none at all    *)
(* when the tier has no more.                                               *)
LEMMA TierListed ==
    ASSUME reader \in ReaderRow, reader.phase = "details", NEW S, S \subseteq Actors, NEW L,
           PageInv(reader, S, L, PublicSet, TierMap(reader.observed)), ~reader.probing,
           NEW a \in S \cap PublicSet,
           Ahead(reader.dir, reader.from, KeyIn(TierMap(reader.observed), a)),
           ~Lt(reader.dir, reader.tier, TierMap(reader.observed)[a]),
           ~TierHasMore \/ \E b \in Seeds : /\ TierMap(reader.observed)[a] = reader.tier =>
                                                   ~Earlier(reader.dir, b, a)
    PROVE  KeyIn(TierMap(reader.observed), a) \in reader.listed \cup {Key(b) : b \in Hits}
<1> DEFINE T == TierMap(reader.observed)
           P == PublicSet
<1>1. T \in [Actors -> Tiers] /\ a \in Actors
  BY TierType
<1>2. Filling(reader, S, P, T)
  BY DEF PageInv, ScanInv, ScanPhases
<1>3. CASE Behind(reader, KeyIn(T, a))
  BY <1>2, <1>3 DEF Filling
<1>4. CASE ~Behind(reader, KeyIn(T, a))
  <2>1. T[a] = reader.tier /\ BeyondBoundary(reader, a)
    BY <1>1, <1>4, NotBehind
  <2>2. a \in Seeds \/ (TierHasMore /\ \A b \in Seeds : Earlier(reader.dir, b, a))
    BY <1>1, <2>1, SeedFacts
  <2>3. a \in Seeds
    BY <2>1, <2>2
  <2>4. a \in Hits
    BY <1>1, <2>1, <2>3, HitsAre
  <2>5. KeyIn(T, a) = Key(a)
    BY <2>1 DEF KeyIn, Key
  <2> QED BY <2>4, <2>5
<1> QED BY <1>3, <1>4

(* Where the scan stands after the seeds: ahead of where the page began,    *)
(* and not before anything listed.                                          *)
LEMMA PositionFacts ==
    ASSUME reader \in ReaderRow, reader.phase = "details", NEW S, NEW L, NEW P, NEW T,
           PageInv(reader, S, L, P, T), ~reader.probing, Seeds # {}
    PROVE  /\ Position \in Nat \X Nat
           /\ Ahead(reader.dir, reader.from, Position)
           /\ \A k \in reader.listed \cup {Key(a) : a \in Hits} : ~Ahead(reader.dir, Position, k)
           /\ \E c \in Seeds : Position = <<reader.tier, Rank[c]>>
<1>0. reader.dir \in Directions /\ reader.tier \in Tiers /\ Seeds \in SUBSET Actors
  BY SeedFacts DEF ReaderRow
<1>1. PICK c \in Seeds : /\ LastRank(Seeds, reader.dir) = Rank[c]
                         /\ \A b \in Seeds : ~Earlier(reader.dir, c, b)
  BY <1>0, LastRankFacts
<1>2. Position = <<reader.tier, Rank[c]>>
  BY <1>1 DEF Position
<1>3. c \in Actors /\ Rank[c] \in Nat /\ reader.tier \in Nat /\ BeyondBoundary(reader, c)
  BY <1>0, SeedFacts, PagesAssumption DEF Tiers
<1>4. Position \in Nat \X Nat
  BY <1>2, <1>3
<1>5. ScanInv(reader, S, P, T) /\ reader.from \in Nat \X Nat
  BY DEF PageInv, ScanPhases, ReaderRow
<1>6. Ahead(reader.dir, reader.from, Position)
  BY <1>2, <1>3, <1>5, BehindAhead DEF ScanInv
<1>7. ASSUME NEW k \in reader.listed PROVE ~Ahead(reader.dir, Position, k)
  <2>1. Behind(reader, k) /\ k \in Nat \X Nat
    BY <1>5 DEF ScanInv, Filling, ReaderRow, Tiers
  <2> QED BY <1>2, <1>3, <2>1, BehindAhead
<1>8. ASSUME NEW a \in Hits PROVE ~Ahead(reader.dir, Position, Key(a))
  <2>1. a \in Seeds /\ a \in Actors /\ Rank[a] \in Nat
    BY <1>0, PagesAssumption DEF Hits
  <2>2. ~Lt(reader.dir, Rank[c], Rank[a])
    BY <1>1, <2>1 DEF Earlier
  <2>3. Key(a) \in Int \X Int /\ Key(a)[1] = reader.tier /\ Key(a)[2] = Rank[a]
    BY <1>3, <2>1 DEF Key
  <2>4. Position \in Int \X Int /\ Position[1] = reader.tier /\ Position[2] = Rank[c]
    BY <1>2, <1>3
  <2>5. ~Lt(reader.dir, reader.tier, reader.tier)
    BY <1>3 DEF Lt
  <2> QED BY <1>0, <2>2, <2>3, <2>4, <2>5, AheadIs
<1> QED BY <1>2, <1>4, <1>6, <1>7, <1>8

LEMMA TierScannedKeeps ==
    ASSUME reader \in ReaderRow, NEW S, S \subseteq Actors, NEW L, TierScanned,
           NEW P, P = PublicSet, NEW T, T = TierMap(reader.observed), PageInv(reader, S, L, P, T)
    PROVE  /\ reader' \in ReaderRow
           /\ SameRead(reader, reader')
           /\ reader'.phase \in {"page", "lifecycle"}
           /\ PageInv(reader', S, L, P, T)
<1> DEFINE keys == reader.listed \cup {Key(a) : a \in Hits}
           room == PageLimit - Cardinality(reader.listed)
<1>1. /\ reader.phase = "details" /\ ~reader.probing
      /\ Cardinality(Hits) < room
      /\ reader' = IF TierHasMore THEN Closed(reader, keys, Position, Position)
                   ELSE IF Scanned = ScanLimit
                   THEN Closed(reader, keys, IF Final THEN NoCursor ELSE Position, Position)
                   ELSE IF Final THEN Closed(reader, keys, NoCursor, NoCursor)
                   ELSE [NextTier(reader) EXCEPT !.listed = keys]
  BY DEF TierScanned
<1>0. keys = reader.listed \cup {Key(a) : a \in Hits} /\ keys = ListedPlus(Hits)
  BY DEF ListedPlus
<1> HIDE DEF keys
<1>2. /\ keys \in SUBSET (Tiers \X Nat)
      /\ IsFiniteSet(keys) /\ Cardinality(keys) \in Nat
      /\ Cardinality(Hits) \in Nat
      /\ Cardinality(keys) <= Cardinality(reader.listed) + Cardinality(Hits)
      /\ \A a \in S, k \in keys : k[2] = Rank[a] => a \in P /\ k = KeyIn(T, a)
      /\ \A k \in keys : Ahead(reader.dir, reader.from, k)
  <2>1. reader.phase = "details" /\ Hits \in SUBSET Hits
    BY <1>1
  <2>2. /\ keys \in SUBSET (Tiers \X Nat)
        /\ IsFiniteSet(keys) /\ Cardinality(keys) \in Nat
        /\ Cardinality(Hits) \in Nat
        /\ Cardinality(keys) <= Cardinality(reader.listed) + Cardinality(Hits)
    BY <1>0, <2>1, ListedWith
  <2>3. \A a \in S, k \in keys : k[2] = Rank[a] => a \in P /\ k = KeyIn(T, a)
    BY <1>0, <2>1, ListedWith
  <2>4. \A k \in keys : Ahead(reader.dir, reader.from, k)
    BY <1>0, <2>1, ListedWith
  <2> QED BY <2>2, <2>3, <2>4
<1>3. ScanInv(reader, S, P, T) /\ Filling(reader, S, P, T)
  BY <1>1 DEF PageInv, ScanInv, ScanPhases
<1>4. /\ reader.dir \in Directions /\ reader.tier \in Tiers /\ reader.from \in Nat \X Nat
      /\ reader.scanned \in Nat /\ reader.scanned < ScanLimit
      /\ IsFiniteSet(reader.listed)
  BY <1>3 DEF ReaderRow, ScanInv, PageInv
<1>5. Cardinality(keys) < PageLimit
  <2>1. Cardinality(reader.listed) \in Nat
    BY <1>4, FS_CardinalityType
  <2> QED BY <1>1, <1>2, <2>1, PagesAssumption
<1>6. Scanned \in Nat /\ Scanned <= ScanLimit
  BY <1>1, SeedFacts
<1>7. T \in [Actors -> Tiers]
  BY TierType
<1>8. NoCursor \in Nat \X Nat
  BY DEF NoCursor
<1>9. reader.dir = -1 => reader.from # NoCursor
  BY DEF PageInv
<1>10. ASSUME NEW c \in Nat \X Nat, NEW s \in Nat \X Nat, reader' = Closed(reader, keys, c, s),
              c # NoCursor => /\ Ahead(reader.dir, reader.from, c)
                              /\ \A k \in keys : ~Ahead(reader.dir, c, k),
              s # NoCursor => Ahead(reader.dir, reader.from, s) /\ c \in {NoCursor, s},
              \A a \in S \cap P : /\ Ahead(reader.dir, reader.from, KeyIn(T, a))
                                  /\ c = NoCursor \/ ~Ahead(reader.dir, c, KeyIn(T, a))
                                  => KeyIn(T, a) \in keys
       PROVE  /\ reader' \in ReaderRow
              /\ SameRead(reader, reader')
              /\ reader'.phase = "page"
              /\ PageInv(reader', S, L, P, T)
  <2>1. /\ reader' \in ReaderRow
        /\ SameRead(reader, reader')
        /\ reader'.phase = "page" /\ reader'.listed = keys
        /\ reader'.continuation = c /\ reader'.stop = s
        /\ reader'.dir = reader.dir /\ reader'.from = reader.from
    BY <1>2, <1>10 DEF Closed, ReaderRow, SameRead
  <2>2. Own(reader', S, P, T) /\ Within(reader')
    BY <1>2, <2>1 DEF Own, Within
  <2>3. ClosedPage(reader', S, P, T)
    BY <1>10, <2>1 DEF ClosedPage, Covered
  <2> QED BY <1>2, <1>9, <2>1, <2>2, <2>3 DEF PageInv, ScanPhases
<1>11. ASSUME NEW a \in S \cap P, Ahead(reader.dir, reader.from, KeyIn(T, a)),
              ~Lt(reader.dir, reader.tier, T[a]),
              ~TierHasMore \/ \E b \in Seeds : T[a] = reader.tier => ~Earlier(reader.dir, b, a)
       PROVE  KeyIn(T, a) \in keys
  BY <1>0, <1>1, <1>11, TierListed
<1>12. CASE TierHasMore \/ (Scanned = ScanLimit /\ ~Final)
  <2>1. reader' = Closed(reader, keys, Position, Position)
    BY <1>1, <1>12
  <2>2. Seeds # {}
    BY <1>1, <1>4, <1>6, <1>12, SeedFacts
  <2>3. /\ Position \in Nat \X Nat
        /\ Ahead(reader.dir, reader.from, Position)
        /\ \A k \in keys : ~Ahead(reader.dir, Position, k)
    BY <1>1, <2>2, PositionFacts DEF keys
  <2>4. PICK c \in Seeds : Position = <<reader.tier, Rank[c]>>
    BY <1>1, <2>2, PositionFacts
  <2>5. ASSUME NEW a \in S \cap P, Ahead(reader.dir, reader.from, KeyIn(T, a)),
               ~Ahead(reader.dir, Position, KeyIn(T, a))
        PROVE  KeyIn(T, a) \in keys
    <3>1. /\ c \in Actors /\ a \in Actors /\ Rank[c] \in Int /\ Rank[a] \in Int
          /\ T[a] \in Int /\ reader.tier \in Int
      BY <1>1, <1>4, <1>7, SeedFacts, PagesAssumption DEF Tiers
    <3>2. KeyIn(T, a) \in Int \X Int /\ KeyIn(T, a)[1] = T[a] /\ KeyIn(T, a)[2] = Rank[a]
      BY <3>1 DEF KeyIn
    <3>3. Position \in Int \X Int /\ Position[1] = reader.tier /\ Position[2] = Rank[c]
      BY <2>4, <3>1
    <3>4. /\ ~Lt(reader.dir, reader.tier, T[a])
          /\ T[a] = reader.tier => ~Earlier(reader.dir, c, a)
      BY <1>4, <2>5, <3>2, <3>3, AheadIs DEF Earlier
    <3> QED BY <1>11, <2>5, <3>4
  <2>6. NoCursor # Position
    BY <2>3, <2>4, <1>4 DEF NoCursor, Tiers
  <2> QED BY <1>10, <2>1, <2>3, <2>5, <2>6
<1>13. ASSUME ~TierHasMore, Final
       PROVE  \A a \in S \cap P : Ahead(reader.dir, reader.from, KeyIn(T, a)) =>
                 KeyIn(T, a) \in keys
  <2> TAKE a \in S \cap P
  <2>1. a \in Actors /\ T[a] \in Tiers
    BY <1>7
  <2>2. ~Lt(reader.dir, reader.tier, T[a])
    BY <1>4, <1>13, <2>1 DEF Final, LastTier, Lt, Tiers, Directions
  <2> QED BY <1>11, <1>13, <2>2
<1>14. CASE ~TierHasMore /\ Scanned = ScanLimit /\ Final
  <2>1. reader' = Closed(reader, keys, NoCursor, Position)
    BY <1>1, <1>14
  <2>2. Seeds # {}
    BY <1>1, <1>4, <1>6, <1>14, SeedFacts
  <2>3. Position \in Nat \X Nat /\ Ahead(reader.dir, reader.from, Position)
    BY <1>1, <2>2, PositionFacts
  <2> QED BY <1>8, <1>10, <1>13, <1>14, <2>1, <2>3
<1>15. CASE ~TierHasMore /\ Scanned # ScanLimit /\ Final
  <2>1. reader' = Closed(reader, keys, NoCursor, NoCursor)
    BY <1>1, <1>15
  <2> QED BY <1>8, <1>10, <1>13, <1>15, <2>1
<1>16. CASE ~TierHasMore /\ Scanned # ScanLimit /\ ~Final
  <2> DEFINE next == reader.tier + reader.dir
  <2>1. reader' = [NextTier(reader) EXCEPT !.listed = keys]
    BY <1>1, <1>16
  <2>2. next \in Tiers /\ \A x \in Int : Lt(reader.dir, x, next) <=> ~Lt(reader.dir, reader.tier, x)
    BY <1>4, <1>16 DEF Final, LastTier, Tiers, Directions, Lt
  <2>3. Scanned < ScanLimit
    BY <1>6, <1>16, PagesAssumption
  <2> HIDE DEF next
  <2>4. /\ reader' \in ReaderRow
        /\ SameRead(reader, reader')
        /\ reader'.phase = "lifecycle" /\ reader'.listed = keys /\ reader'.tier = next
        /\ reader'.boundary = 0 /\ reader'.scanned = Scanned
        /\ reader'.dir = reader.dir /\ reader'.from = reader.from
        /\ reader'.probing = reader.probing
    BY <1>2, <1>6, <2>1, <2>2 DEF NextTier, ReaderRow, SameRead, ScanPhases, next
  <2>5. Own(reader', S, P, T) /\ Within(reader')
    BY <1>2, <2>4 DEF Own, Within
  <2>6. \A k \in Nat \X Nat : Behind(reader', k) <=> ~Lt(reader.dir, reader.tier, k[1])
    BY <2>2, <2>4 DEF Behind
  <2>7. \A k \in Nat \X Nat : Behind(reader, k) => ~Lt(reader.dir, reader.tier, k[1])
    BY <1>4 DEF Behind, Lt, Tiers
  <2>8. \A k \in keys : Behind(reader', k)
    <3>1. \A k \in reader.listed : k \in Nat \X Nat /\ Behind(reader, k)
      BY <1>3 DEF Filling, ReaderRow, Tiers
    <3>2. \A a \in Hits : Key(a) \in Nat \X Nat /\ Key(a)[1] = reader.tier
      <4> TAKE a \in Hits
      <4>1. a \in Actors /\ Rank[a] \in Nat /\ reader.tier \in Nat
        BY <1>1, <1>4, SeedFacts, PagesAssumption DEF Hits, Tiers
      <4> QED BY <4>1 DEF Key
    <3>3. ~Lt(reader.dir, reader.tier, reader.tier)
      BY <1>4 DEF Lt, Tiers
    <3> QED BY <2>6, <2>7, <3>1, <3>2, <3>3 DEF keys
  <2>9. ASSUME NEW a \in S \cap P, Ahead(reader.dir, reader.from, KeyIn(T, a)),
               Behind(reader', KeyIn(T, a))
        PROVE  KeyIn(T, a) \in keys
    <3>1. a \in Actors /\ Rank[a] \in Nat /\ T[a] \in Nat
      BY <1>7, PagesAssumption DEF Tiers
    <3>2. KeyIn(T, a) \in Nat \X Nat /\ KeyIn(T, a)[1] = T[a]
      BY <3>1 DEF KeyIn
    <3> QED BY <1>11, <1>16, <2>6, <2>9, <3>2
  <2>10. Filling(reader', S, P, T)
    BY <1>5, <2>4, <2>8, <2>9 DEF Filling
  <2>11. Behind(reader', reader'.from)
    BY <1>3, <1>4, <2>4, <2>6, <2>7 DEF ScanInv
  <2>12. ScanInv(reader', S, P, T)
    BY <1>1, <2>3, <2>4, <2>10, <2>11 DEF ScanInv
  <2> QED BY <1>2, <1>9, <2>4, <2>5, <2>12 DEF PageInv, ScanPhases
<1> QED BY <1>12, <1>14, <1>15, <1>16

LEMMA EndKeyFacts ==
    ASSUME NEW r \in ReaderRow, IsFiniteSet(r.listed), r.listed # {}
    PROVE  /\ EndKey(r) \in r.listed
           /\ \A k \in r.listed : ~Ahead(r.dir, EndKey(r), k)
<1>1. r.listed \in SUBSET (Nat \X Nat) /\ r.dir \in Directions
  BY DEF ReaderRow, Tiers
<1>2. CASE r.dir = 1
  <2>1. EndKey(r) = FinalKey(r.listed)
    BY <1>2 DEF EndKey
  <2> QED BY <1>1, <1>2, <2>1, KeyEnds DEF Less
<1>3. CASE r.dir = -1
  <2>1. EndKey(r) = FirstKey(r.listed)
    BY <1>3 DEF EndKey
  <2>2. EndKey(r) \in r.listed /\ \A k \in r.listed : ~Ahead(1, k, EndKey(r))
    BY <1>1, <2>1, KeyEnds DEF Less
  <2>3. \A k, l \in r.listed : Ahead(-1, k, l) <=> Ahead(1, l, k)
    BY <1>1, ReverseAhead
  <2> QED BY <1>3, <2>2, <2>3
<1> QED BY <1>1, <1>2, <1>3 DEF Directions

LEMMA PageFillsKeeps ==
    ASSUME reader \in ReaderRow, NEW S, S \subseteq Actors, NEW L, PageFills,
           NEW P, P = PublicSet, NEW T, T = TierMap(reader.observed), PageInv(reader, S, L, P, T)
    PROVE  /\ reader' \in ReaderRow
           /\ SameRead(reader, reader')
           /\ reader'.phase = "lifecycle"
           /\ PageInv(reader', S, L, P, T)
<1> DEFINE room  == PageLimit - Cardinality(reader.listed)
           taken == FirstOf(Hits, room, reader.dir)
           keys  == ListedPlus(taken)
           last  == LastRank(taken, reader.dir)
<1>1. /\ reader.phase = "details" /\ ~reader.probing
      /\ Cardinality(taken) = room
      /\ reader' = [reader EXCEPT !.phase = "lifecycle", !.probing = TRUE, !.listed = keys,
                                  !.boundary = last, !.scanned = 0]
  BY DEF PageFills, ListedPlus
<1>2. ScanInv(reader, S, P, T) /\ Filling(reader, S, P, T)
  BY <1>1 DEF PageInv, ScanInv, ScanPhases
<1>3. /\ reader.dir \in Directions /\ reader.tier \in Tiers /\ reader.from \in Nat \X Nat
      /\ IsFiniteSet(reader.listed) /\ Cardinality(reader.listed) \in Nat
      /\ reader.tier \in Nat
  BY <1>2, FS_CardinalityType DEF ReaderRow, PageInv, Tiers
<1>4. room \in Nat /\ room # 0
  BY <1>2, <1>3, PagesAssumption DEF Filling
<1>5. Hits \in SUBSET Actors /\ Seeds \in SUBSET Actors /\ Hits \subseteq Seeds
  BY <1>1, SeedFacts DEF Hits
<1> HIDE DEF room
<1>6. /\ taken \in SUBSET Hits /\ taken \in SUBSET Actors
      /\ \A a \in Hits \ taken : \A b \in taken : Earlier(reader.dir, b, a)
  BY <1>3, <1>4, <1>5, FirstOfFacts
<1> HIDE DEF taken
<1>7. taken # {}
  BY <1>1, <1>4, FS_EmptySet
<1>8. PICK c \in taken : /\ last = Rank[c]
                         /\ \A b \in taken : ~Earlier(reader.dir, c, b)
  BY <1>3, <1>6, <1>7, LastRankFacts
<1> HIDE DEF keys, last
<1>9. /\ keys \in SUBSET (Tiers \X Nat)
      /\ IsFiniteSet(keys)
  BY <1>1, <1>6, ListedWith DEF keys
<1>10. \A a \in S, k \in keys : k[2] = Rank[a] => a \in P /\ k = KeyIn(T, a)
  BY <1>1, <1>6, ListedWith DEF keys
<1>11. \A k \in keys : Ahead(reader.dir, reader.from, k)
  BY <1>1, <1>6, ListedWith DEF keys
<1>12. /\ c \in Actors /\ c \in Seeds /\ last \in Nat /\ last # 0 /\ BeyondBoundary(reader, c)
  BY <1>1, <1>5, <1>6, <1>8, SeedFacts, PagesAssumption
<1>13. /\ reader' \in ReaderRow
       /\ SameRead(reader, reader')
       /\ reader'.phase = "lifecycle" /\ reader'.listed = keys /\ reader'.tier = reader.tier
       /\ reader'.boundary = last /\ reader'.scanned = 0
       /\ reader'.dir = reader.dir /\ reader'.from = reader.from
       /\ reader'.probing = TRUE
  BY <1>1, <1>9, <1>12 DEF ReaderRow, SameRead, ScanPhases
<1>14. Own(reader', S, P, T) /\ Within(reader')
  BY <1>10, <1>11, <1>13 DEF Own, Within
<1> DEFINE e == <<reader.tier, last>>
<1>15. e \in Nat \X Nat /\ e \in Int \X Int /\ e[1] = reader.tier /\ e[2] = last
  BY <1>3, <1>12
<1>16. e \in keys
  <2>1. e = Key(c)
    BY <1>8 DEF Key
  <2> QED BY <2>1 DEF keys, ListedPlus
<1>17. \A k \in keys : ~Ahead(reader.dir, e, k)
  <2>1. ASSUME NEW k \in reader.listed PROVE ~Ahead(reader.dir, e, k)
    <3>1. Behind(reader, k) /\ k \in Nat \X Nat
      BY <1>2 DEF Filling, ReaderRow, Tiers
    <3> QED BY <1>8, <1>12, <3>1, BehindAhead
  <2>2. ASSUME NEW a \in taken PROVE ~Ahead(reader.dir, e, Key(a))
    <3>1. a \in Actors /\ Rank[a] \in Nat /\ ~Lt(reader.dir, last, Rank[a])
      BY <1>6, <1>8, PagesAssumption DEF Earlier
    <3>2. Key(a) \in Int \X Int /\ Key(a)[1] = reader.tier /\ Key(a)[2] = Rank[a]
      BY <1>3, <3>1 DEF Key
    <3>3. ~Lt(reader.dir, reader.tier, reader.tier)
      BY <1>3 DEF Lt
    <3> HIDE DEF e
    <3> QED BY <1>3, <1>15, <3>1, <3>2, <3>3, AheadIs
  <2> QED BY <2>1, <2>2 DEF keys, ListedPlus
<1> HIDE DEF e
<1>18. EndKey(reader') = e
  <2>1. EndKey(reader') \in keys /\ ~Ahead(reader.dir, EndKey(reader'), e)
    BY <1>9, <1>13, <1>16, EndKeyFacts
  <2>2. ~Ahead(reader.dir, e, EndKey(reader'))
    BY <1>17, <2>1
  <2>3. EndKey(reader') \in Nat \X Nat
    BY <1>9, <2>1 DEF Tiers
  <2> QED BY <1>3, <1>15, <2>1, <2>2, <2>3, AheadTotal
<1>19. ASSUME NEW a \in S \cap P
       PROVE  /\ Ahead(reader.dir, e, KeyIn(T, a)) <=>
                   \/ Lt(reader.dir, reader.tier, T[a])
                   \/ reader.tier = T[a] /\ Lt(reader.dir, last, Rank[a])
              /\ a \in Actors /\ T[a] \in Int /\ Rank[a] \in Int
              /\ KeyIn(T, a)[1] = T[a] /\ KeyIn(T, a)[2] = Rank[a]
  <2>1. a \in Actors /\ T[a] \in Int /\ Rank[a] \in Int
    BY TierType, PagesAssumption DEF Tiers
  <2>2. KeyIn(T, a) \in Int \X Int /\ KeyIn(T, a)[1] = T[a] /\ KeyIn(T, a)[2] = Rank[a]
    BY <2>1 DEF KeyIn
  <2> QED BY <1>3, <1>15, <2>1, <2>2, AheadIs
<1>20. ASSUME NEW a \in S \cap P, Ahead(reader.dir, reader.from, KeyIn(T, a)),
              ~Ahead(reader.dir, e, KeyIn(T, a))
       PROVE  KeyIn(T, a) \in keys
  <2>1. CASE Behind(reader, KeyIn(T, a))
    BY <1>2, <1>20, <2>1 DEF Filling, keys, ListedPlus
  <2>2. CASE ~Behind(reader, KeyIn(T, a))
    <3>1. T[a] = reader.tier /\ BeyondBoundary(reader, a) /\ ~Lt(reader.dir, last, Rank[a])
      BY <1>19, <1>20, <2>2, NotBehind, TierType
    <3>2. ~Earlier(reader.dir, c, a)
      BY <1>8, <3>1 DEF Earlier
    <3>3. a \in Seeds
      BY <1>1, <1>12, <1>19, <3>1, <3>2, SeedFacts
    <3>4. a \in Hits
      BY <1>19, <3>1, <3>3, HitsAre
    <3>5. a \in taken
      BY <1>6, <3>2, <3>4
    <3>6. KeyIn(T, a) = Key(a)
      BY <3>1 DEF KeyIn, Key
    <3> QED BY <3>5, <3>6 DEF keys, ListedPlus
  <2> QED BY <2>1, <2>2
<1>21. ASSUME NEW a \in S \cap P, Ahead(reader.dir, e, KeyIn(T, a))
       PROVE  ~Behind(reader', KeyIn(T, a))
  BY <1>3, <1>12, <1>13, <1>19, <1>21 DEF Behind, Lt
<1>22. Probed(reader', S, P, T)
  BY <1>13, <1>16, <1>18, <1>20, <1>21 DEF Probed
<1>23. Behind(reader', reader'.from)
  <2>1. Behind(reader, reader.from)
    BY <1>2 DEF ScanInv
  <2>2. ~Ahead(reader.dir, e, reader.from)
    BY <1>3, <1>8, <1>12, <2>1, BehindAhead DEF e
  <2>3. reader.from \in Int \X Int /\ reader.from[1] \in Int /\ reader.from[2] \in Int
    BY <1>3
  <2>4. ~(\/ Lt(reader.dir, reader.tier, reader.from[1])
          \/ reader.tier = reader.from[1] /\ Lt(reader.dir, last, reader.from[2]))
    BY <1>3, <1>15, <2>2, <2>3, AheadIs
  <2> QED BY <1>3, <1>12, <1>13, <2>3, <2>4 DEF Behind, Lt
<1>24. ScanInv(reader', S, P, T)
  BY <1>13, <1>22, <1>23, PagesAssumption DEF ScanInv
<1>25. reader.dir = -1 => reader.from # NoCursor
  BY DEF PageInv
<1> QED BY <1>9, <1>13, <1>14, <1>24, <1>25 DEF PageInv, ScanPhases

LEMMA MoreProbedKeeps ==
    ASSUME reader \in ReaderRow, NEW S, S \subseteq Actors, NEW L, MoreProbed,
           NEW P, P = PublicSet, NEW T, T = TierMap(reader.observed), PageInv(reader, S, L, P, T)
    PROVE  /\ reader' \in ReaderRow
           /\ SameRead(reader, reader')
           /\ reader'.phase \in {"page", "lifecycle"}
           /\ PageInv(reader', S, L, P, T)
<1> DEFINE more == Hits # {} \/ TierHasMore \/ (Exhausted /\ ~Final)
           last == EndKey(reader)
           keys == reader.listed
<1>1. /\ reader.phase = "details" /\ reader.probing
      /\ reader' = IF more THEN Closed(reader, keys, last, NoCursor)
                   ELSE IF Final THEN Closed(reader, keys, NoCursor, NoCursor)
                   ELSE NextTier(reader)
  BY DEF MoreProbed, EndKey
<1>2. ScanInv(reader, S, P, T) /\ Probed(reader, S, P, T)
  BY <1>1 DEF PageInv, ScanInv, ScanPhases
<1>3. /\ reader.dir \in Directions /\ reader.tier \in Tiers /\ reader.from \in Nat \X Nat
      /\ keys \in SUBSET (Tiers \X Nat) /\ IsFiniteSet(keys)
      /\ reader.dir = -1 => reader.from # NoCursor
      /\ Own(reader, S, P, T) /\ Within(reader)
  BY DEF ReaderRow, PageInv
<1>4. last \in keys /\ \A k \in keys : ~Ahead(reader.dir, last, k)
  BY <1>2, <1>3, EndKeyFacts DEF Probed
<1>5. last \in Nat \X Nat /\ NoCursor \in Nat \X Nat
  BY <1>3, <1>4 DEF NoCursor, Tiers
<1>6. T \in [Actors -> Tiers]
  BY TierType
<1>7. Scanned \in Nat /\ Scanned <= ScanLimit
  BY <1>1, SeedFacts
<1> HIDE DEF last, keys
<1>8. ASSUME NEW c \in Nat \X Nat, reader' = Closed(reader, keys, c, NoCursor),
             c # NoCursor => /\ Ahead(reader.dir, reader.from, c)
                             /\ \A k \in keys : ~Ahead(reader.dir, c, k),
             \A a \in S \cap P : /\ Ahead(reader.dir, reader.from, KeyIn(T, a))
                                 /\ c = NoCursor \/ ~Ahead(reader.dir, c, KeyIn(T, a))
                                 => KeyIn(T, a) \in keys
      PROVE  /\ reader' \in ReaderRow
             /\ SameRead(reader, reader')
             /\ reader'.phase = "page"
             /\ PageInv(reader', S, L, P, T)
  <2>1. /\ reader' \in ReaderRow
        /\ SameRead(reader, reader')
        /\ reader'.phase = "page" /\ reader'.listed = keys
        /\ reader'.continuation = c /\ reader'.stop = NoCursor
        /\ reader'.dir = reader.dir /\ reader'.from = reader.from
    BY <1>3, <1>5, <1>8 DEF Closed, ReaderRow, SameRead
  <2>2. Own(reader', S, P, T) /\ Within(reader')
    BY <1>3, <2>1 DEF Own, Within, keys
  <2>3. ClosedPage(reader', S, P, T)
    BY <1>8, <2>1 DEF ClosedPage, Covered
  <2> QED BY <1>3, <2>1, <2>2, <2>3 DEF PageInv, ScanPhases
<1>9. ASSUME NEW a \in S \cap P, Ahead(reader.dir, reader.from, KeyIn(T, a)),
             ~Ahead(reader.dir, last, KeyIn(T, a))
      PROVE  KeyIn(T, a) \in keys
  BY <1>2, <1>9 DEF Probed, last, keys
<1>10. ASSUME ~more, NEW a \in S \cap P, Ahead(reader.dir, last, KeyIn(T, a))
       PROVE  a \in Actors /\ T[a] \in Tiers /\ Lt(reader.dir, reader.tier, T[a])
  <2>1. a \in Actors /\ T[a] \in Tiers /\ ~Behind(reader, KeyIn(T, a))
    BY <1>2, <1>6, <1>10 DEF Probed, last
  <2>2. ASSUME T[a] = reader.tier, BeyondBoundary(reader, a) PROVE FALSE
    <3>1. a \in Seeds
      BY <1>1, <1>10, <2>1, <2>2, SeedFacts
    <3>2. a \in Hits
      BY <2>1, <2>2, <3>1, HitsAre
    <3> QED BY <1>10, <3>2
  <2> QED BY <1>6, <2>1, <2>2, NotBehind
<1>11. CASE more
  <2>1. reader' = Closed(reader, keys, last, NoCursor)
    BY <1>1, <1>11
  <2>2. Ahead(reader.dir, reader.from, last)
    BY <1>3, <1>4 DEF Within, keys
  <2>3. last # NoCursor
    BY <1>3, <1>4 DEF NoCursor, Tiers
  <2> HIDE DEF more
  <2> QED BY <1>4, <1>5, <1>8, <1>9, <2>1, <2>2, <2>3
<1>12. CASE ~more /\ Final
  <2>1. reader' = Closed(reader, keys, NoCursor, NoCursor)
    BY <1>1, <1>12
  <2>2. ASSUME NEW a \in S \cap P, Ahead(reader.dir, reader.from, KeyIn(T, a))
        PROVE  KeyIn(T, a) \in keys
    <3>1. CASE Ahead(reader.dir, last, KeyIn(T, a))
      <4>1. T[a] \in Tiers /\ Lt(reader.dir, reader.tier, T[a])
        BY <1>10, <1>12, <3>1
      <4> QED BY <1>3, <1>12, <4>1 DEF Final, LastTier, Lt, Tiers, Directions
    <3>2. CASE ~Ahead(reader.dir, last, KeyIn(T, a))
      BY <1>9, <2>2, <3>2
    <3> QED BY <3>1, <3>2
  <2> HIDE DEF more
  <2> QED BY <1>5, <1>8, <2>1, <2>2
<1>13. CASE ~more /\ ~Final
  <2> DEFINE next == reader.tier + reader.dir
  <2>1. reader' = NextTier(reader)
    BY <1>1, <1>13
  <2>2. next \in Tiers /\ \A x \in Int : Lt(reader.dir, x, next) <=> ~Lt(reader.dir, reader.tier, x)
    BY <1>3, <1>13 DEF Final, LastTier, Tiers, Directions, Lt
  <2>3. Scanned < ScanLimit
    BY <1>7, <1>13, PagesAssumption DEF Exhausted
  <2> HIDE DEF next
  <2>4. /\ reader' \in ReaderRow
        /\ SameRead(reader, reader')
        /\ reader'.phase = "lifecycle" /\ reader'.listed = keys /\ reader'.tier = next
        /\ reader'.boundary = 0 /\ reader'.scanned = Scanned
        /\ reader'.dir = reader.dir /\ reader'.from = reader.from
        /\ reader'.probing = reader.probing
    BY <1>3, <1>7, <2>1, <2>2 DEF NextTier, ReaderRow, SameRead, ScanPhases, next, keys
  <2>5. Own(reader', S, P, T) /\ Within(reader')
    BY <1>3, <2>4 DEF Own, Within, keys
  <2>6. \A k \in Nat \X Nat : Behind(reader', k) <=> ~Lt(reader.dir, reader.tier, k[1])
    BY <2>2, <2>4 DEF Behind
  <2>7. Behind(reader', reader'.from)
    <3>1. Behind(reader, reader.from)
      BY <1>2 DEF ScanInv
    <3>2. ~Lt(reader.dir, reader.tier, reader.from[1])
      BY <1>3, <3>1 DEF Behind, Lt, Tiers
    <3> QED BY <1>3, <2>4, <2>6, <3>2
  <2>8. EndKey(reader') = last
    BY <2>4 DEF EndKey, last, keys
  <2>9. ASSUME NEW a \in S \cap P, Ahead(reader.dir, last, KeyIn(T, a))
        PROVE  ~Behind(reader', KeyIn(T, a))
    <3>1. a \in Actors /\ T[a] \in Tiers /\ Lt(reader.dir, reader.tier, T[a])
      BY <1>10, <1>13, <2>9
    <3>2. KeyIn(T, a) \in Nat \X Nat /\ KeyIn(T, a)[1] = T[a]
      BY <3>1, PagesAssumption DEF KeyIn, Tiers
    <3> QED BY <2>6, <3>1, <3>2
  <2>10. Probed(reader', S, P, T)
    BY <1>4, <1>9, <2>4, <2>8, <2>9 DEF Probed
  <2>11. ScanInv(reader', S, P, T)
    BY <1>1, <2>3, <2>4, <2>7, <2>10 DEF ScanInv
  <2> QED BY <1>3, <2>4, <2>5, <2>11 DEF PageInv, ScanPhases
<1> QED BY <1>11, <1>12, <1>13

(* A read that is cut short. *)
LEMMA CutShortKeeps ==
    ASSUME NEW r \in ReaderRow, NEW S, NEW L, NEW P, NEW T, PageInv(r, S, L, P, T),
           NEW phase \in {"failed", "refused", "limit", "timeout", "expired"},
           NEW q, q = [r EXCEPT !.phase = phase]
    PROVE  /\ q \in ReaderRow /\ SameRead(r, q) /\ q.phase = phase
           /\ PageInv(q, S, L, P, T)
<1>1. /\ q \in ReaderRow /\ SameRead(r, q) /\ SamePlace(r, q) /\ q.phase = phase
  BY DEF ReaderRow, SameRead, SamePlace, ReadEnded
<1>2. Own(q, S, P, T) /\ Within(q)
  BY <1>1, PlaceKept DEF PageInv
<1> QED BY <1>1, <1>2 DEF PageInv, ScanPhases, SamePlace

-----------------------------------------------------------------------------
(* What becomes of a page. *)

LEMMA PagePresentable ==
    ASSUME NEW r \in ReaderRow, NEW S, NEW L, NEW P, NEW T, PageInv(r, S, L, P, T),
           r.phase = "page"
    PROVE  Presentable(r)
<1> DEFINE previous == PreviousLink(r)
           next     == NextLink(r)
           keys     == r.listed
           from     == r.from
           cont     == r.continuation
<1>1. /\ r.dir \in Directions /\ from \in Nat \X Nat /\ keys \in SUBSET (Nat \X Nat)
      /\ cont \in Nat \X Nat /\ r.stop \in Nat \X Nat
  BY DEF ReaderRow, Tiers
<1>2. /\ IsFiniteSet(keys)
      /\ r.dir = -1 => from # NoCursor
      /\ \A k \in keys : Ahead(r.dir, from, k)
      /\ cont # NoCursor => Ahead(r.dir, from, cont) /\ \A k \in keys : ~Ahead(r.dir, cont, k)
      /\ r.stop # NoCursor => Ahead(r.dir, from, r.stop) /\ cont \in {NoCursor, r.stop}
  BY DEF PageInv, Within, ClosedPage
<1>3. keys # {} => /\ FirstKey(keys) \in keys /\ FinalKey(keys) \in keys
  BY <1>1, <1>2, KeyEnds
<1>4. \A k, l \in Nat \X Nat : /\ ~Less(k, k)
                               /\ Less(k, l) => ~Less(l, k)
  BY LessStrict
<1>5. CASE r.dir = 1
  <2>1. /\ \A k \in keys : Less(from, k)
        /\ cont # NoCursor => Less(from, cont) /\ \A k \in keys : ~Less(cont, k)
    BY <1>2, <1>5 DEF Less
  <2>2. next = cont
    BY <1>5 DEF NextLink
  <2>3. previous = IF from = NoCursor THEN NoCursor ELSE IF keys = {} THEN from ELSE FirstKey(keys)
    BY <1>5 DEF PreviousLink
  <2> HIDE DEF previous, next, keys, from, cont
  <2>4. previous # NoCursor =>
          /\ from # NoCursor
          /\ ~Less(previous, from)
          /\ keys # {} => ~Less(FirstKey(keys), previous)
    BY <1>1, <1>3, <1>4, <2>1, <2>3
  <2>5. next # NoCursor =>
          /\ Less(from, next)
          /\ keys # {} => ~Less(next, FinalKey(keys))
          /\ previous # NoCursor => ~Less(next, previous)
    BY <1>1, <1>3, <1>4, <2>1, <2>2, <2>3
  <2> QED BY <1>5, <2>1, <2>4, <2>5 DEF Presentable, previous, next, keys, from, cont
<1>6. CASE r.dir = -1
  <2>1. /\ \A k \in keys : Less(k, from)
        /\ cont # NoCursor => Less(cont, from) /\ \A k \in keys : ~Less(k, cont)
        /\ r.stop # NoCursor => Less(r.stop, from) /\ cont \in {NoCursor, r.stop}
    BY <1>1, <1>2, <1>6, ReverseAhead DEF Less
  <2>2. previous = cont
    BY <1>6 DEF PreviousLink
  <2>3. next = IF keys = {} THEN r.stop ELSE FinalKey(keys)
    BY <1>6 DEF NextLink
  <2> HIDE DEF previous, next, keys, from, cont
  <2>4. previous # NoCursor =>
          /\ from # NoCursor
          /\ Less(previous, from)
          /\ keys # {} => ~Less(FirstKey(keys), previous)
    BY <1>2, <1>3, <1>6, <2>1, <2>2
  <2>5. next # NoCursor =>
          /\ Less(next, from)
          /\ keys # {} => ~Less(next, FinalKey(keys))
          /\ previous # NoCursor => ~Less(next, previous)
    BY <1>1, <1>3, <1>4, <2>1, <2>2, <2>3
  <2> QED BY <1>6, <2>1, <2>4, <2>5 DEF Presentable, previous, next, keys, from, cont
<1> QED BY <1>1, <1>5, <1>6 DEF Directions

-----------------------------------------------------------------------------
(* The public views of one relay, at a time not before what was recorded.   *)

LEMMA FirstKnownTime ==
    ASSUME IInv, NEW a \in Actors, NEW t \in Instants, RecordedBy(a, t), PublicRelay(a)
    PROVE  FirstKnown(a) \in 0..t
<1> DEFINE r == relays[a]
           d == discoveries[a]
<1>1. r \in RelayRow /\ d \in DiscoveryRow /\ RelayInv(r) /\ DiscoveryInv(d) /\ t \in Nat
  BY InstantType DEF IInv, TypeOK, ActorInv
<1>2. r.lifecycle # "absent" \/ d.state # "absent"
  BY DEF PublicRelay, LifecycleKnown, DiscoveryKnown
<1>3. r.updated <= t /\ d.updated <= t
  BY DEF RecordedBy
<1>4. FirstKnown(a) = CASE r.first = Never -> d.first
                        [] d.first = Never -> r.first
                        [] OTHER -> IF r.first <= d.first THEN r.first ELSE d.first
  BY DEF FirstKnown
<1> HIDE DEF r, d
<1>5. r.first <= t /\ d.first <= t /\ r.first \in Stamp /\ d.first \in Stamp
  BY <1>1, <1>3 DEF RelayInv, RelayChecks, DiscoveryInv, DiscoveryChecks, RelayRow, DiscoveryRow,
                    Stamp, Never, NoRelay, NoDiscovery
<1>6. r.first # Never \/ d.first # Never
  BY <1>1, <1>2 DEF RelayInv, RelayChecks, DiscoveryInv, DiscoveryChecks, Never
<1> QED BY <1>1, <1>4, <1>5, <1>6 DEF Stamp, Never

LEMMA HealthClass ==
    ASSUME NEW s, NEW t
    PROVE  /\ (ClassifyHealth(s, t) = "invalid") = (s > t)
           /\ ~(s > t) /\ t - s < DeadBefore =>
                ClassifyHealth(s, t) \in {"healthy", "stale", "dead"}
           /\ ClassifyHealth(s, t) = "healthy" => t - s <= HealthyThrough
<1> DEFINE p == s > t
           q == t - s <= HealthyThrough
           u == t - s < StaleBefore
           v == t - s < DeadBefore
<1>1. ClassifyHealth(s, t) = IF p THEN "invalid" ELSE IF q THEN "healthy"
                             ELSE IF u THEN "stale" ELSE IF v THEN "dead" ELSE "prune"
  BY DEF ClassifyHealth
<1> HIDE DEF p, q, u, v
<1>2. /\ (ClassifyHealth(s, t) = "invalid") <=> p
      /\ ~p /\ v => ClassifyHealth(s, t) \in {"healthy", "stale", "dead"}
      /\ ClassifyHealth(s, t) = "healthy" => q
  BY <1>1
<1> QED BY <1>2 DEF p, q, v

(* The evidence of a public relay passes the validation of a read. *)
LEMMA EvidenceIsValid ==
    ASSUME IInv, NEW a \in Actors, NEW t \in Instants, RecordedBy(a, t), PublicRelay(a)
    PROVE  ValidEvidence(a, t)
<1> DEFINE r == relays[a]
           o == observations[a]
           g == diagnostics[a]
<1>1. /\ r \in RelayRow /\ o \in ObservationRow /\ g \in DiagnosticRow /\ t \in Nat
      /\ RelayInv(r) /\ ObservationInv(o) /\ DiagnosticInv(g)
      /\ g.updated <= o.checked
  BY InstantType DEF IInv, TypeOK, ActorInv, OwnerInv
<1>2. r.updated <= t /\ o.updated <= t
  BY DEF RecordedBy
<1>3. FirstKnown(a) \in 0..t
  BY FirstKnownTime
<1>4. LifecycleKnown(a) => r.lifecycle # "absent"
  BY DEF LifecycleKnown
<1>5. ClassifyPublicHeartbeat(r.seen, t) # "invalid" <=> r.seen = Never \/ ~(r.seen > t)
  BY HealthClass DEF ClassifyPublicHeartbeat
<1> HIDE DEF r, o, g
<1>6. r.seen <= t /\ r.seen \in Stamp /\ (r.lifecycle # "absent" => r.seen # Never)
  BY <1>1, <1>2 DEF RelayInv, RelayChecks, RelayRow, Stamp, Never, NoRelay
<1>7. ClassifyPublicHeartbeat(r.seen, t) # "invalid"
  BY <1>1, <1>5, <1>6 DEF Stamp, Never
<1>8. /\ o.checked <= t /\ o.success <= t /\ o.declared <= t /\ o.inboxChecked <= t
      /\ o.rfc9421 <= t
  BY <1>1, <1>2 DEF ObservationInv, ObservationChecks, ObservationRow, Stamp, Never,
                    NoObservation
<1>9. /\ o.state \in {"none", "unknown"} => o.checked = Never /\ o.success = Never
      /\ o.state = "reachable" => o.checked # Never /\ o.checked = o.success
      /\ o.state = "unreachable" => o.checked # Never /\ o.success <= o.checked
      /\ (o.inbox = NoInbox) = (o.declared = Never)
      /\ o.declared # Never /\ o.inboxChecked # Never => o.declared <= o.inboxChecked
  BY <1>1 DEF ObservationInv, ObservationChecks, ObservationRow, NoObservation
<1>10. g.next <= t + UnreachableRetry
  <2>1. CASE g.updated = Never
    BY <1>1, <2>1, DurationAssumption DEF DiagnosticInv, NoDiagnostic, Never
  <2>2. CASE g.updated # Never
    <3>1. PICK w \in Delays : g.next = g.updated + w
      BY <1>1, <2>2 DEF DiagnosticInv
    <3>2. w \in Nat /\ w <= UnreachableRetry
      BY <3>1, DurationAssumption, DirectoryAssumption DEF Delays
    <3>3. g.updated \in Nat /\ g.updated <= t
      BY <1>1, <1>8, <2>2 DEF DiagnosticRow, ObservationRow, Stamp, Never
    <3> QED BY <1>1, <3>1, <3>2, <3>3, DurationAssumption
  <2> QED BY <2>1, <2>2
<1>11. \A s \in EvidenceTimes(o) : s <= t
  BY <1>8 DEF EvidenceTimes
<1> QED BY <1>3, <1>4, <1>6, <1>7, <1>9, <1>10, <1>11 DEF ValidEvidence, r, o, g

(* The counts of the human page and the tiers tell the same relays online. *)
LEMMA OnlineIsTiered ==
    ASSUME IInv, NEW a \in Actors, NEW t \in Instants, PublicRelay(a)
    PROVE  SummaryOnline(a, t) <=> ClassifyDirectoryTier(a, t) <= 2
<1>1. ClassifyDirectoryTier(a, t) <= 2 <=> FreshReachability(a, t) \/ CurrentHeartbeat(a, t)
  BY TierOnline
<1>2. relays[a].lifecycle = "registered" => relays[a].admin = "active"
  BY DEF PublicRelay, LifecycleKnown, DiscoveryKnown, IInv, TypeOK, RelayRow
<1>3. SummaryOnline(a, t) <=> FreshReachability(a, t) \/ CurrentHeartbeat(a, t)
  BY <1>2 DEF SummaryOnline, FreshReachability, CurrentHeartbeat, ActivelyRegistered
<1> QED BY <1>1, <1>3

LEMMA ListingAgrees ==
    ASSUME IInv, NEW a \in Actors, NEW t \in Instants, RecordedBy(a, t), PublicListed(a, t)
    PROVE  /\ PublicRelay(a)
           /\ ClassifyHealth(relays[a].seen, t) \in {"healthy", "stale", "dead"}
           /\ ClassifyHealth(relays[a].seen, t) = "healthy" => ClassifyDirectoryTier(a, t) <= 2
<1> DEFINE s == relays[a].seen
<1>1. ActivelyRegistered(a) /\ s > t - DeadBefore /\ t \in Nat
  BY InstantType DEF PublicListed
<1>2. relays[a].lifecycle = "registered" /\ relays[a].admin = "active"
  BY <1>1 DEF ActivelyRegistered
<1>3. PublicRelay(a)
  BY <1>2 DEF PublicRelay, LifecycleKnown
<1>4. s \in Nat /\ s <= t
  <2> DEFINE r == relays[a]
  <2>1. r \in RelayRow /\ RelayInv(r) /\ r.updated <= t /\ r.lifecycle = "registered"
    BY <1>2 DEF IInv, TypeOK, ActorInv, RecordedBy
  <2> HIDE DEF r
  <2>2. r.seen \in Nat /\ r.seen <= t
    BY <1>1, <2>1 DEF RelayInv, RelayChecks, RelayRow, Stamp, Never
  <2> QED BY <2>2 DEF r
<1>5. CurrentHeartbeat(a, t) <=> s \in (t - HealthyThrough)..t
  BY <1>1 DEF CurrentHeartbeat
<1> HIDE DEF s
<1>6. ~(s > t) /\ t - s < DeadBefore
  BY <1>1, <1>4, DurationAssumption
<1>7. /\ ClassifyHealth(s, t) \in {"healthy", "stale", "dead"}
      /\ ClassifyHealth(s, t) = "healthy" => t - s <= HealthyThrough
  BY <1>6, HealthClass
<1>8. ClassifyHealth(s, t) = "healthy" => CurrentHeartbeat(a, t)
  BY <1>1, <1>4, <1>5, <1>7, DirectoryAssumption
<1>9. CurrentHeartbeat(a, t) => ClassifyDirectoryTier(a, t) <= 2
  BY TierOnline
<1> QED BY <1>3, <1>7, <1>8, <1>9 DEF s

LEMMA ViewsAgree == IInv => DirectoryAgrees
<1> SUFFICES ASSUME IInv, NEW t \in Instants, \A a \in Actors : RecordedBy(a, t)
             PROVE  LET public == {a \in Actors : PublicRelay(a)} IN
                    /\ \A a \in public : ValidEvidence(a, t)
                    /\ DirectorySummary(t) =
                         [known  |-> Cardinality(public),
                          online |-> Cardinality({a \in public :
                                                    ClassifyDirectoryTier(a, t) <= 2})]
                    /\ \A a \in Actors : PublicListed(a, t) =>
                         /\ a \in public
                         /\ ClassifyHealth(relays[a].seen, t) \in {"healthy", "stale", "dead"}
                         /\ ClassifyHealth(relays[a].seen, t) = "healthy" =>
                              ClassifyDirectoryTier(a, t) <= 2
  BY DEF DirectoryAgrees
<1> DEFINE public == {a \in Actors : PublicRelay(a)}
           online == {a \in public : ClassifyDirectoryTier(a, t) <= 2}
<1>1. \A a \in public : ValidEvidence(a, t)
  BY EvidenceIsValid
<1>2. {a \in Actors : LifecycleKnown(a) \/ DiscoveryKnown(a)} = public
  BY DEF PublicRelay
<1>3. {a \in public : SummaryOnline(a, t)} = online
  BY OnlineIsTiered
<1>4. DirectorySummary(t) = [known |-> Cardinality(public), online |-> Cardinality(online)]
  BY <1>2, <1>3 DEF DirectorySummary
<1>5. \A a \in Actors : PublicListed(a, t) =>
         /\ a \in public
         /\ ClassifyHealth(relays[a].seen, t) \in {"healthy", "stale", "dead"}
         /\ ClassifyHealth(relays[a].seen, t) = "healthy" => ClassifyDirectoryTier(a, t) <= 2
  BY ListingAgrees
<1> QED BY <1>1, <1>4, <1>5

(* Whatever order transactions were committed in, the evidence of every     *)
(* public relay validates, the summary counts what the tiers say and the    *)
(* compatibility listing is part of the projection.                         *)
THEOREM ViewsAgreeAlways == Spec => []DirectoryAgrees
BY Inductive, ViewsAgree, PTL

-----------------------------------------------------------------------------
(* The whole read. *)

WalkSet(kind, t) == {a \in Actors : WalkRow(kind, a, t)}
SeenMap          == [a \in Actors |-> relays[a].seen]

(* Every listed key is that of an actor, and so is where a page is continued. *)
Ranked(r) == r.listed \subseteq Cursors /\ r.continuation \in Cursors \cup {NoCursor}

(* An export has seen what comes before its page, and kept what of it is in *)
(* its scope.                                                               *)
ExportInv(r, S, P, T) ==
    /\ r.dir = 1
    /\ r.phase \in ScanPhases \cup {"page"} => \A a \in S :
         /\ a \in r.seen <=> a \in P /\ ~Ahead(1, r.from, KeyIn(T, a))
         /\ a \in r.kept <=> a \in r.seen /\ ScopeIncludes(r.scope, T[a])
    /\ r.phase = "done" => \A a \in S : a \in r.kept <=> a \in P /\ ScopeIncludes(r.scope, T[a])

WalkInv(r, S, W, V) ==
    /\ r.phase \in {"query", "between"} => \A a \in S :
         a \in r.seen <=> a \in W /\ ~Before(r.from, <<V[a], Rank[a]>>)
    /\ r.phase = "done" => \A a \in S : a \in r.seen <=> a \in W

Outcome(r, S) ==
    /\ r.phase # "refused"
    /\ r.phase = "failed" => S # Actors

ReadInv(r, S, L, P, T, W, V) ==
    /\ r \in ReaderRow
    /\ Outcome(r, S)
    /\ r.kind \in PageKinds =>
         /\ r.phase \notin {"query", "between"}
         /\ Ranked(r)
         /\ PageInv(r, S, L, P, T)
    /\ r.kind = "export" => ExportInv(r, S, P, T)
    /\ r.kind \in WalkKinds => r.phase \notin ScanPhases \cup {"page"} /\ WalkInv(r, S, W, V)

CurrentRead ==
    \E t \in Instants, kind \in PageKinds \cup WalkKinds :
        /\ reader.observed = t /\ reader.kind = kind
        /\ ReadInv(reader, steady, LifecycleSet, PublicSet, TierMap(t), WalkSet(kind, t), SeenMap)
        /\ \A a \in steady : RecordedBy(a, t)

(* The inductive invariant of a read beside the transactions of the store.  *)
PagesInv ==
    /\ IInv
    /\ steady \in SUBSET Actors
    /\ reader = Idle \/ CurrentRead

(* A page that begins: nothing has been read of it. *)
LEMMA PageBegins ==
    ASSUME NEW r \in ReaderRow, NEW cursor,
           cursor \in Tiers \X (Nat \ {0}) \/ (cursor = NoCursor /\ r.dir = 1),
           NEW S, S \subseteq Actors, NEW L, NEW P, NEW T \in [Actors -> Tiers],
           NEW q, q = PageFrom(r, cursor)
    PROVE  /\ q \in ReaderRow
           /\ q.phase = "lifecycle" /\ q.from = cursor
           /\ q.kind = r.kind /\ q.dir = r.dir /\ q.observed = r.observed
           /\ q.seen = r.seen /\ q.kept = r.kept /\ q.scope = r.scope
           /\ Ranked(q)
           /\ PageInv(q, S, L, P, T)
<1>1. /\ cursor \in Nat \X Nat /\ NoCursor \in Nat \X Nat /\ cursor[1] \in Nat /\ cursor[2] \in Nat
      /\ cursor = NoCursor => cursor[1] = 0 /\ cursor[2] = 0
      /\ cursor # NoCursor => cursor[1] \in Tiers /\ cursor[2] # 0
  BY DEF NoCursor, Tiers
<1> DEFINE tier == IF cursor = NoCursor THEN 1 ELSE cursor[1]
<1>2. tier \in Tiers
  BY <1>1 DEF Tiers
<1>3. /\ q \in ReaderRow
      /\ q.phase = "lifecycle" /\ q.probing = FALSE /\ q.from = cursor /\ q.tier = tier
      /\ q.boundary = cursor[2] /\ q.scanned = 0 /\ q.listed = {} /\ q.continuation = NoCursor
      /\ q.kind = r.kind /\ q.dir = r.dir /\ q.observed = r.observed
      /\ q.seen = r.seen /\ q.kept = r.kept /\ q.scope = r.scope
  <2> DEFINE b == cursor[2]
  <2>1. q = [r EXCEPT !.phase = "lifecycle", !.probing = FALSE, !.from = cursor, !.tier = tier,
                      !.boundary = b, !.scanned = 0, !.actors = {}, !.listed = {},
                      !.continuation = NoCursor, !.stop = NoCursor]
    BY DEF PageFrom
  <2>2. b \in Nat /\ cursor \in Nat \X Nat /\ NoCursor \in Nat \X Nat /\ tier \in Tiers
    BY <1>1, <1>2
  <2>3. {} \in SUBSET Actors /\ {} \in SUBSET (Tiers \X Nat) /\ 0 \in Nat
    OBVIOUS
  <2> HIDE DEF b, tier
  <2>4. q \in ReaderRow
    <3> DEFINE p == [r EXCEPT !.phase = "lifecycle", !.probing = FALSE, !.from = cursor,
                              !.tier = tier]
               o == [p EXCEPT !.boundary = b, !.scanned = 0, !.actors = {}]
    <3>1. p \in ReaderRow
      BY <2>2 DEF ReaderRow, ScanPhases
    <3>2. q = [o EXCEPT !.listed = {}, !.continuation = NoCursor, !.stop = NoCursor]
      BY <2>1
    <3> HIDE DEF p
    <3>3. o \in ReaderRow
      BY <2>2, <2>3, <3>1 DEF ReaderRow
    <3> HIDE DEF o
    <3> QED BY <2>2, <2>3, <3>2, <3>3 DEF ReaderRow
  <2>5. /\ q.phase = "lifecycle" /\ q.probing = FALSE /\ q.from = cursor /\ q.tier = tier
        /\ q.boundary = b /\ q.scanned = 0 /\ q.listed = {} /\ q.continuation = NoCursor
    BY <2>1 DEF ReaderRow
  <2>6. /\ q.kind = r.kind /\ q.dir = r.dir /\ q.observed = r.observed
        /\ q.seen = r.seen /\ q.kept = r.kept /\ q.scope = r.scope
    BY <2>1 DEF ReaderRow
  <2> QED BY <2>4, <2>5, <2>6 DEF b
<1>4. q.dir \in Directions
  BY <1>3 DEF ReaderRow
<1>5. cursor = NoCursor => q.dir = 1
  BY <1>1, <1>3 DEF NoCursor, Tiers
<1>6. Behind(q, q.from)
  BY <1>1, <1>3, <1>5 DEF Behind, Lt, Tiers
<1>7. ASSUME NEW a \in S \cap P, Behind(q, KeyIn(T, a))
      PROVE  ~Ahead(q.dir, q.from, KeyIn(T, a))
  <2>1. a \in Actors /\ T[a] \in Int /\ Rank[a] \in Int /\ T[a] \in Tiers
    BY PagesAssumption DEF Tiers
  <2>2. /\ KeyIn(T, a) \in Int \X Int
        /\ KeyIn(T, a)[1] = T[a] /\ KeyIn(T, a)[2] = Rank[a]
    BY <2>1 DEF KeyIn
  <2>3. q.from \in Int \X Int
    BY <1>1, <1>3
  <2>4. Ahead(q.dir, q.from, KeyIn(T, a)) <=>
          Lt(q.dir, cursor[1], T[a]) \/ (cursor[1] = T[a] /\ Lt(q.dir, cursor[2], Rank[a]))
    BY <1>3, <1>4, <2>2, <2>3, AheadIs
  <2>5. \/ Lt(q.dir, T[a], tier)
        \/ T[a] = tier /\ cursor[2] # 0 /\ ~Lt(q.dir, cursor[2], Rank[a])
    BY <1>3, <1>7, <2>2 DEF Behind
  <2>6. CASE cursor = NoCursor
    BY <1>1, <1>5, <2>1, <2>5, <2>6 DEF Lt, Tiers
  <2>7. CASE cursor # NoCursor
    BY <1>1, <2>1, <2>4, <2>5, <2>7 DEF Lt, Tiers
  <2> QED BY <2>6, <2>7
<1>8. IsFiniteSet(q.listed) /\ Cardinality(q.listed) < PageLimit
  BY <1>3, FS_EmptySet, PagesAssumption
<1>9. Filling(q, S, P, T)
  BY <1>3, <1>7, <1>8 DEF Filling
<1>10. ScanInv(q, S, P, T)
  BY <1>3, <1>6, <1>9, PagesAssumption DEF ScanInv
<1>11. Own(q, S, P, T) /\ Within(q) /\ Ranked(q)
  BY <1>3 DEF Own, Within, Ranked
<1>12. q.dir = -1 => q.from # NoCursor
  BY <1>3, <1>5
<1>13. PageInv(q, S, L, P, T)
  BY <1>3, <1>8, <1>10, <1>11, <1>12 DEF PageInv, ScanPhases
<1> QED BY <1>3, <1>11, <1>13

(* A listed key and the place of a continuation are an actor's. *)
LEMMA RankedKept ==
    ASSUME reader \in ReaderRow, Ranked(reader), NEW S, NEW L, NEW P, NEW T,
           PageInv(reader, S, L, P, T),
           \/ ReadLifecycleCandidates \/ ReadDiscoveryCandidates \/ PageFills \/ TierScanned
           \/ MoreProbed
    PROVE  Ranked(reader')
<1>1. Hits \subseteq Actors /\ reader.tier \in Tiers
  BY DEF Hits, Seeds, FirstOf, ReaderRow
<1>2. \A a \in Hits : Key(a) \in Cursors
  BY <1>1 DEF Key, Cursors
<1>3. reader.listed \subseteq Cursors /\ reader.continuation \in Cursors \cup {NoCursor}
  BY DEF Ranked
<1>4. ASSUME NEW keys \in SUBSET Cursors, NEW c \in Cursors \cup {NoCursor}, NEW s,
             reader' = Closed(reader, keys, c, s)
      PROVE  Ranked(reader')
  BY <1>4 DEF Closed, ReaderRow, Ranked
<1>5. CASE ReadLifecycleCandidates
  BY <1>3, <1>5 DEF ReadLifecycleCandidates, ReaderRow, Ranked
<1>6. CASE ReadDiscoveryCandidates
  BY <1>3, <1>6 DEF ReadDiscoveryCandidates, ReaderRow, Ranked
<1>7. CASE PageFills
  <2>1. FirstOf(Hits, PageLimit - Cardinality(reader.listed), reader.dir) \subseteq Hits
    BY DEF FirstOf
  <2>2. reader'.continuation = reader.continuation /\ reader'.listed \subseteq Cursors
    BY <1>2, <1>3, <1>7, <2>1 DEF PageFills, ReaderRow
  <2> QED BY <1>3, <2>2 DEF Ranked
<1>8. CASE TierScanned
  <2> DEFINE keys == reader.listed \cup {Key(a) : a \in Hits}
  <2>1. keys \in SUBSET Cursors
    BY <1>2, <1>3
  <2>2. /\ reader.phase = "details" /\ ~reader.probing
        /\ \/ TierHasMore /\ reader' = Closed(reader, keys, Position, Position)
           \/ Scanned = ScanLimit /\ reader' = Closed(reader, keys, Position, Position)
           \/ reader' = Closed(reader, keys, NoCursor, Position)
           \/ reader' = Closed(reader, keys, NoCursor, NoCursor)
           \/ reader' = [NextTier(reader) EXCEPT !.listed = keys]
    BY <1>8 DEF TierScanned
  <2>3. ASSUME TierHasMore \/ Scanned = ScanLimit PROVE Position \in Cursors
    <3>1. reader.scanned < ScanLimit /\ reader.scanned \in Nat
      BY <2>2 DEF PageInv, ScanInv, ScanPhases, ReaderRow
    <3>2. Seeds # {}
      <4> SUFFICES ASSUME Seeds = {} PROVE FALSE
        OBVIOUS
      <4>1. ~TierHasMore /\ Scanned = reader.scanned
        BY <2>2, SeedFacts
      <4> QED BY <2>3, <3>1, <4>1, PagesAssumption
    <3>3. \E c \in Seeds : Position = <<reader.tier, Rank[c]>>
      BY <2>2, <3>2, PositionFacts
    <3>4. Seeds \subseteq Actors
      BY DEF Seeds, FirstOf, ReaderRow
    <3> QED BY <1>1, <3>3, <3>4 DEF Cursors
  <2> HIDE DEF keys
  <2>4. ASSUME reader' = [NextTier(reader) EXCEPT !.listed = keys] PROVE Ranked(reader')
    BY <1>3, <2>1, <2>4 DEF NextTier, ReaderRow, Ranked
  <2> QED BY <1>4, <2>1, <2>2, <2>3, <2>4
<1>9. CASE MoreProbed
  <2>1. /\ reader.phase = "details" /\ reader.probing
        /\ \/ reader' = Closed(reader, reader.listed, EndKey(reader), NoCursor)
           \/ reader' = Closed(reader, reader.listed, NoCursor, NoCursor)
           \/ reader' = NextTier(reader)
    BY <1>9 DEF MoreProbed, EndKey
  <2>2. IsFiniteSet(reader.listed) /\ reader.listed # {}
    BY <2>1 DEF PageInv, ScanInv, Probed, ScanPhases
  <2>3. EndKey(reader) \in Cursors
    BY <1>3, <2>2, EndKeyFacts
  <2>4. ASSUME reader' = NextTier(reader) PROVE Ranked(reader')
    BY <1>3, <2>4 DEF NextTier, ReaderRow, Ranked
  <2> QED BY <1>3, <1>4, <2>1, <2>3, <2>4
<1> QED BY <1>5, <1>6, <1>7, <1>8, <1>9

(* What a read is about, in the present state of the store. *)
AgainstStore(S, L, P, T, W, V) ==
    /\ S = steady /\ L = LifecycleSet /\ P = PublicSet /\ T = TierMap(reader.observed)
    /\ W = WalkSet(reader.kind, reader.observed) /\ V = SeenMap

(* The statements of a scan. *)
LEMMA ScanStepKeeps ==
    ASSUME NEW S, NEW L, NEW P, NEW T, NEW W, NEW V, AgainstStore(S, L, P, T, W, V),
           steady \in SUBSET Actors, ReadInv(reader, S, L, P, T, W, V),
           \/ ReadLifecycleCandidates \/ ReadDiscoveryCandidates \/ PageFills \/ TierScanned
           \/ MoreProbed
    PROVE  /\ ReadInv(reader', S, L, P, T, W, V)
           /\ reader'.kind = reader.kind /\ reader'.observed = reader.observed
<1>1. /\ S \subseteq Actors /\ L = LifecycleSet /\ P = PublicSet /\ T = TierMap(reader.observed)
  BY DEF AgainstStore
<1>2. /\ reader.phase \in ScanPhases
  BY DEF ReadLifecycleCandidates, ReadDiscoveryCandidates, PageFills, TierScanned, MoreProbed,
         ScanPhases
<1>3. reader \in ReaderRow /\ reader.kind \in PageKinds /\ Ranked(reader)
  BY <1>2 DEF ReadInv, ReaderRow
<1>4. PageInv(reader, S, L, P, T)
  BY <1>3 DEF ReadInv
<1>5. /\ reader' \in ReaderRow
      /\ SameRead(reader, reader')
      /\ reader'.phase \in ScanPhases \cup {"page"}
      /\ PageInv(reader', S, L, P, T)
  <2>1. CASE ReadLifecycleCandidates
    BY <1>1, <1>3, <1>4, <2>1, LifecycleCandidatesKeep DEF ScanPhases
  <2>2. CASE ReadDiscoveryCandidates
    BY <1>1, <1>3, <1>4, <2>2, DiscoveryCandidatesKeep DEF ScanPhases
  <2>3. CASE PageFills
    BY <1>1, <1>3, <1>4, <2>3, PageFillsKeeps DEF ScanPhases
  <2>4. CASE TierScanned
    BY <1>1, <1>3, <1>4, <2>4, TierScannedKeeps DEF ScanPhases
  <2>5. CASE MoreProbed
    BY <1>1, <1>3, <1>4, <2>5, MoreProbedKeeps DEF ScanPhases
  <2> QED BY <2>1, <2>2, <2>3, <2>4, <2>5
<1>6. /\ reader'.kind = reader.kind /\ reader'.observed = reader.observed
      /\ reader'.dir = reader.dir /\ reader'.from = reader.from
      /\ reader'.seen = reader.seen /\ reader'.kept = reader.kept /\ reader'.scope = reader.scope
  BY <1>5 DEF SameRead
<1>7. Ranked(reader')
  BY <1>3, <1>4, RankedKept
<1>8. Outcome(reader', S) /\ reader'.phase \notin {"query", "between"}
  BY <1>5 DEF Outcome, ScanPhases
<1>9. ASSUME reader.kind = "export" PROVE ExportInv(reader', S, P, T)
  <2>1. ExportInv(reader, S, P, T)
    BY <1>9 DEF ReadInv
  <2>2. reader'.phase # "done"
    BY <1>5 DEF ScanPhases
  <2> QED BY <1>2, <1>5, <1>6, <2>1, <2>2 DEF ExportInv
<1>10. reader'.kind \notin WalkKinds
  BY <1>3, <1>6 DEF PageKinds, WalkKinds
<1> QED BY <1>5, <1>6, <1>7, <1>8, <1>9, <1>10 DEF ReadInv

(* A read that is cut short, by what it read or by its deadline. *)
LEMMA CutShortRead ==
    ASSUME NEW r, NEW S, NEW L, NEW P, NEW T, NEW W, NEW V, ReadInv(r, S, L, P, T, W, V),
           NEW phase \in {"failed", "limit", "timeout", "expired"},
           phase = "failed" => S # Actors,
           NEW q, q = [r EXCEPT !.phase = phase]
    PROVE  /\ ReadInv(q, S, L, P, T, W, V)
           /\ q.kind = r.kind /\ q.observed = r.observed
<1>1. r \in ReaderRow
  BY DEF ReadInv
<1>2. /\ q \in ReaderRow /\ q.phase = phase
      /\ q.kind = r.kind /\ q.observed = r.observed /\ q.dir = r.dir /\ q.listed = r.listed
      /\ q.continuation = r.continuation
  BY <1>1 DEF ReaderRow, ReadEnded
<1>3. phase \notin ScanPhases \cup {"page", "query", "between", "done", "refused"}
  BY DEF ScanPhases
<1>4. r.kind \in PageKinds => PageInv(q, S, L, P, T) /\ Ranked(q)
  <2> SUFFICES ASSUME r.kind \in PageKinds
               PROVE  PageInv(q, S, L, P, T) /\ Ranked(q)
    OBVIOUS
  <2>1. PageInv(r, S, L, P, T) /\ Ranked(r)
    BY DEF ReadInv
  <2> QED BY <1>1, <1>2, <2>1, CutShortKeeps DEF Ranked
<1>5. r.kind = "export" => ExportInv(q, S, P, T)
  BY <1>2, <1>3 DEF ReadInv, ExportInv
<1>6. Outcome(q, S) /\ WalkInv(q, S, W, V)
  BY <1>2, <1>3 DEF Outcome, WalkInv
<1> QED BY <1>2, <1>3, <1>4, <1>5, <1>6 DEF ReadInv

LEMMA DetailsFailKeeps ==
    ASSUME IInv, NEW S, NEW L, NEW P, NEW T, NEW W, NEW V, AgainstStore(S, L, P, T, W, V),
           steady \in SUBSET Actors, ReadInv(reader, S, L, P, T, W, V),
           \A a \in S : RecordedBy(a, reader.observed), DetailsFail
    PROVE  /\ ReadInv(reader', S, L, P, T, W, V)
           /\ reader'.kind = reader.kind /\ reader'.observed = reader.observed
<1>1. Invalid /\ reader' = [reader EXCEPT !.phase = "failed"]
  BY DEF DetailsFail
<1>2. reader \in ReaderRow /\ reader.observed \in Instants /\ reader.actors \subseteq Actors
  BY DEF ReadInv, ReaderRow
<1>3. PICK a \in Seeds : PublicRelay(a) /\ ~ValidEvidence(a, reader.observed)
  BY <1>1 DEF Invalid
<1>4. a \in Actors
  BY <1>2 DEF Seeds, FirstOf
<1>5. a \notin S
  BY <1>2, <1>3, <1>4, EvidenceIsValid
<1> QED BY <1>1, <1>4, <1>5, CutShortRead

LEMMA PresentKeeps ==
    ASSUME NEW S, NEW L, NEW P, NEW T, NEW W, NEW V,
           ReadInv(reader, S, L, P, T, W, V), Present
    PROVE  /\ ReadInv(reader', S, L, P, T, W, V)
           /\ reader'.kind = reader.kind /\ reader'.observed = reader.observed
<1>1. reader \in ReaderRow /\ reader.phase = "page" /\ reader.kind = "page"
  BY DEF ReadInv, Present
<1>2. PageInv(reader, S, L, P, T) /\ Ranked(reader)
  BY <1>1 DEF ReadInv, PageKinds
<1>3. Presentable(reader)
  BY <1>1, <1>2, PagePresentable
<1>4. reader' = [reader EXCEPT !.phase = "done"]
  BY <1>3 DEF Present
<1>5. /\ reader' \in ReaderRow /\ reader'.phase = "done" /\ SamePlace(reader, reader')
      /\ reader'.kind = reader.kind /\ reader'.observed = reader.observed
  BY <1>1, <1>4 DEF ReaderRow, ReadEnded, SamePlace
<1>6. PageInv(reader', S, L, P, T)
  <2>1. Own(reader', S, P, T) /\ Within(reader') /\ ClosedPage(reader', S, P, T)
    BY <1>1, <1>2, <1>5, PlaceKept DEF PageInv
  <2> QED BY <1>2, <1>5, <2>1 DEF PageInv, SamePlace, ScanPhases
<1>7. Ranked(reader')
  BY <1>2, <1>5 DEF Ranked, SamePlace
<1> QED BY <1>1, <1>5, <1>6, <1>7 DEF ReadInv, Outcome, PageKinds, WalkKinds

-----------------------------------------------------------------------------
(* The export, from page to page. *)

LEMMA AheadTransitive ==
    ASSUME NEW k \in Nat \X Nat, NEW l \in Nat \X Nat, NEW m \in Nat \X Nat,
           Ahead(1, k, l), Ahead(1, l, m)
    PROVE  Ahead(1, k, m)
<1>1. /\ k \in Int \X Int /\ l \in Int \X Int /\ m \in Int \X Int
      /\ k[1] \in Int /\ k[2] \in Int /\ l[1] \in Int /\ l[2] \in Int /\ m[1] \in Int /\ m[2] \in Int
  OBVIOUS
<1> QED BY <1>1, AheadIs DEF Lt, Directions

(* Only a change under the export makes a relay come twice. *)
LEMMA NoDuplicates ==
    ASSUME NEW r \in ReaderRow, NEW L, NEW P, NEW T, Ranked(r), r.phase = "page",
           PageInv(r, Actors, L, P, T), ExportInv(r, Actors, P, T)
    PROVE  ~Duplicates(r)
<1> DEFINE A == ActorsOf(r.listed)
<1>1. Own(r, Actors, P, T) /\ Within(r) /\ IsFiniteSet(r.listed) /\ r.dir = 1
  BY DEF PageInv, ExportInv
<1>2. \A a \in A : a \in Actors /\ KeyIn(T, a) \in r.listed
  BY <1>1 DEF Own, ActorsOf
<1>3. A \cap r.seen = {}
  BY <1>1, <1>2 DEF ExportInv, Within
<1>4. Cardinality(r.listed) <= Cardinality(A)
  <2> DEFINE f == [a \in A |-> KeyIn(T, a)]
  <2>1. A \in SUBSET Actors
    BY DEF ActorsOf
  <2>2. IsFiniteSet(A)
    BY <2>1, PagesAssumption, FS_Subset
  <2>3. \A k \in r.listed : \E a \in A : f[a] = k
    <3> TAKE k \in r.listed
    <3>1. PICK a \in Actors : k[2] = Rank[a]
      BY DEF Ranked, Cursors
    <3>2. a \in A /\ k = KeyIn(T, a)
      BY <1>1, <3>1 DEF Own, ActorsOf
    <3> QED BY <3>2
  <2>4. f \in Surjection(A, r.listed)
    BY <1>2, <2>3 DEF Surjection
  <2> HIDE DEF f, A
  <2> QED BY <2>2, <2>4, FS_Surjection
<1>5. Cardinality(A) \in Nat /\ Cardinality(r.listed) \in Nat
  <2>1. A \in SUBSET Actors
    BY DEF ActorsOf
  <2> HIDE DEF A
  <2> QED BY <1>1, <2>1, PagesAssumption, FS_Subset, FS_CardinalityType
<1> QED BY <1>3, <1>4, <1>5 DEF Duplicates

LEMMA ExportPageKeeps ==
    ASSUME NEW S, NEW L, NEW P, NEW T, T \in [Actors -> Tiers], NEW W, NEW V,
           S \subseteq Actors, ReadInv(reader, S, L, P, T, W, V), ExportPage
    PROVE  /\ ReadInv(reader', S, L, P, T, W, V)
           /\ reader'.kind = reader.kind /\ reader'.observed = reader.observed
<1> DEFINE included == {k \in reader.listed : ScopeIncludes(reader.scope, k[1])}
           r == [reader EXCEPT !.seen = @ \cup ActorsOf(reader.listed),
                               !.kept = @ \cup ActorsOf(included), !.pages = @ + 1]
           cont == reader.continuation
<1>1. /\ reader \in ReaderRow /\ reader.phase = "page" /\ reader.kind = "export"
      /\ reader.kind \in PageKinds
  BY DEF ReadInv, ExportPage, PageKinds
<1>2. PageInv(reader, S, L, P, T) /\ Ranked(reader) /\ ExportInv(reader, S, P, T)
  BY <1>1 DEF ReadInv
<1>3. \/ Duplicates(reader) /\ reader' = [reader EXCEPT !.phase = "failed"]
      \/ reader' = [r EXCEPT !.phase = "limit"]
      \/ cont = NoCursor /\ reader' = [r EXCEPT !.phase = "done"]
      \/ cont # NoCursor /\ ~Less(reader.from, cont)
      \/ cont # NoCursor /\ reader' = PageFrom(r, cont)
  BY DEF ExportPage
<1>4. /\ reader.dir = 1 /\ reader.from \in Nat \X Nat /\ cont \in Nat \X Nat
      /\ reader.listed \in SUBSET (Tiers \X Nat)
  BY <1>1, <1>2 DEF ReaderRow, ExportInv
<1>5. /\ Own(reader, S, P, T) /\ Within(reader) /\ ClosedPage(reader, S, P, T)
  BY <1>1, <1>2 DEF PageInv
<1>6. ActorsOf(reader.listed) \in SUBSET Actors /\ ActorsOf(included) \in SUBSET Actors
  BY DEF ActorsOf
<1>7. /\ r \in ReaderRow /\ SamePlace(reader, r) /\ r.phase = "page"
      /\ r.observed = reader.observed /\ r.scope = reader.scope
      /\ r.seen = reader.seen \cup ActorsOf(reader.listed)
      /\ r.kept = reader.kept \cup ActorsOf(included)
  <2> DEFINE s == reader.seen \cup ActorsOf(reader.listed)
             m == reader.kept \cup ActorsOf(included)
             n == reader.pages + 1
  <2>1. r = [reader EXCEPT !.seen = s, !.kept = m, !.pages = n]
    OBVIOUS
  <2>2. s \in SUBSET Actors /\ m \in SUBSET Actors /\ n \in Nat
    BY <1>1, <1>6 DEF ReaderRow
  <2> HIDE DEF s, m, n, r
  <2>3. r \in ReaderRow
    BY <1>1, <2>1, <2>2 DEF ReaderRow
  <2>4. SamePlace(reader, r)
    BY <1>1, <2>1 DEF ReaderRow, SamePlace
  <2>5. /\ r.phase = "page" /\ r.observed = reader.observed /\ r.scope = reader.scope
        /\ r.seen = s /\ r.kept = m
    BY <1>1, <2>1 DEF ReaderRow
  <2> QED BY <2>3, <2>4, <2>5 DEF s, m
<1>8. ASSUME NEW a \in S
      PROVE  /\ a \in reader.seen <=> a \in P /\ ~Ahead(1, reader.from, KeyIn(T, a))
             /\ a \in reader.kept <=> a \in reader.seen /\ ScopeIncludes(reader.scope, T[a])
  BY <1>1, <1>2 DEF ExportInv
<1>9. ASSUME NEW a \in S
      PROVE  /\ a \in ActorsOf(reader.listed) <=> KeyIn(T, a) \in reader.listed
             /\ a \in ActorsOf(included) <=>
                  KeyIn(T, a) \in reader.listed /\ ScopeIncludes(reader.scope, T[a])
             /\ KeyIn(T, a) \in reader.listed => a \in P
             /\ KeyIn(T, a) \in Nat \X Nat
  <2>1. a \in Actors /\ KeyIn(T, a)[1] = T[a] /\ KeyIn(T, a)[2] = Rank[a]
    BY DEF KeyIn
  <2>2. \A k \in reader.listed : k[2] = Rank[a] => a \in P /\ k = KeyIn(T, a)
    BY <1>5 DEF Own
  <2>3. T[a] \in Nat /\ Rank[a] \in Nat
    BY <2>1, PagesAssumption DEF Tiers
  <2>4. KeyIn(T, a) \in Nat \X Nat
    BY <2>3 DEF KeyIn
  <2> QED BY <2>1, <2>2, <2>4 DEF ActorsOf
<1> HIDE DEF r, included
<1>10. ASSUME NEW a \in S
       PROVE  a \in r.kept <=> a \in r.seen /\ ScopeIncludes(r.scope, T[a])
  BY <1>7, <1>8, <1>9
<1>11. ASSUME NEW a \in S, cont = NoCursor
       PROVE  a \in r.seen <=> a \in P
  <2>1. a \in P /\ Ahead(1, reader.from, KeyIn(T, a)) => KeyIn(T, a) \in reader.listed
    BY <1>4, <1>5, <1>11 DEF ClosedPage, Covered
  <2> QED BY <1>7, <1>8, <1>9, <2>1
<1>12. ASSUME NEW a \in S, cont # NoCursor
       PROVE  a \in r.seen <=> a \in P /\ ~Ahead(1, cont, KeyIn(T, a))
  <2>1. /\ Ahead(1, reader.from, cont)
        /\ KeyIn(T, a) \in reader.listed => ~Ahead(1, cont, KeyIn(T, a))
        /\ a \in P /\ Ahead(1, reader.from, KeyIn(T, a)) /\ ~Ahead(1, cont, KeyIn(T, a))
             => KeyIn(T, a) \in reader.listed
    BY <1>4, <1>5, <1>12 DEF ClosedPage, Covered
  <2>2. Ahead(1, cont, KeyIn(T, a)) => Ahead(1, reader.from, KeyIn(T, a))
    BY <1>4, <1>9, <2>1, AheadTransitive
  <2> QED BY <1>7, <1>8, <1>9, <2>1, <2>2
<1>13. Own(r, S, P, T) /\ Within(r) /\ ClosedPage(r, S, P, T)
  BY <1>5, <1>7, PlaceKept
<1>14. PageInv(r, S, L, P, T) /\ Ranked(r) /\ r.kind = "export" /\ r.dir = 1
  <2>1. r.kind = "export" /\ r.dir = 1 /\ r.listed = reader.listed
        /\ r.continuation = cont
    BY <1>1, <1>4, <1>7 DEF SamePlace
  <2> QED BY <1>2, <1>7, <1>13, <2>1 DEF PageInv, Ranked, ScanPhases
<1>15. CASE Duplicates(reader) /\ reader' = [reader EXCEPT !.phase = "failed"]
  <2>1. S # Actors
    BY <1>1, <1>2, <1>15, NoDuplicates
  <2> QED BY <1>15, <2>1, CutShortRead
<1>16. ASSUME NEW phase \in {"limit", "done"}, reader' = [r EXCEPT !.phase = phase],
              phase = "done" => cont = NoCursor
       PROVE  /\ ReadInv(reader', S, L, P, T, W, V)
              /\ reader'.kind = reader.kind /\ reader'.observed = reader.observed
  <2>1. /\ reader' \in ReaderRow /\ reader'.phase = phase /\ SamePlace(r, reader')
        /\ reader'.kind = "export" /\ reader'.observed = reader.observed
        /\ reader'.kept = r.kept /\ reader'.scope = r.scope
    BY <1>7, <1>14, <1>16 DEF ReaderRow, ReadEnded, SamePlace
  <2>2. Own(reader', S, P, T) /\ Within(reader') /\ ClosedPage(reader', S, P, T)
    BY <1>13, <2>1, PlaceKept
  <2>3. PageInv(reader', S, L, P, T) /\ Ranked(reader') /\ reader'.dir = 1
    <3>1. reader'.dir = 1 /\ reader'.listed = r.listed /\ reader'.from = r.from
          /\ reader'.continuation = r.continuation
      BY <1>14, <2>1 DEF SamePlace
    <3> QED BY <1>14, <1>16, <2>1, <2>2, <3>1 DEF PageInv, Ranked, ScanPhases
  <2>4. ExportInv(reader', S, P, T)
    BY <1>10, <1>11, <1>16, <2>1, <2>3 DEF ExportInv, ScanPhases
  <2>5. Outcome(reader', S)
    BY <1>16, <2>1 DEF Outcome
  <2> QED BY <1>1, <1>16, <2>1, <2>3, <2>4, <2>5 DEF ReadInv, PageKinds, WalkKinds
<1>17. ASSUME cont # NoCursor PROVE Less(reader.from, cont)
  BY <1>4, <1>5, <1>17 DEF ClosedPage, Less
<1>18. CASE cont # NoCursor /\ reader' = PageFrom(r, cont)
  <2>1. cont \in Tiers \X (Nat \ {0})
    BY <1>2, <1>18, PagesAssumption DEF Ranked, Cursors
  <2>2. /\ reader' \in ReaderRow
        /\ reader'.phase = "lifecycle" /\ reader'.from = cont
        /\ reader'.kind = r.kind /\ reader'.dir = r.dir /\ reader'.observed = r.observed
        /\ reader'.seen = r.seen /\ reader'.kept = r.kept /\ reader'.scope = r.scope
        /\ Ranked(reader')
        /\ PageInv(reader', S, L, P, T)
    BY <1>7, <1>18, <2>1, PageBegins
  <2>3. ExportInv(reader', S, P, T)
    BY <1>10, <1>12, <1>14, <1>18, <2>2 DEF ExportInv, ScanPhases
  <2>4. Outcome(reader', S)
    BY <2>2 DEF Outcome
  <2> QED BY <1>1, <1>7, <1>14, <2>2, <2>3, <2>4 DEF ReadInv, PageKinds, WalkKinds
<1> QED BY <1>3, <1>15, <1>16, <1>17, <1>18

-----------------------------------------------------------------------------
(* The walks, from page to page. *)

(* What a walk reads is registered, and last seen no later than recorded. *)
LEMMA WalkEvidence ==
    ASSUME IInv, NEW kind \in WalkKinds, NEW t \in Instants, NEW a \in WalkSet(kind, t)
    PROVE  /\ a \in Actors /\ SeenMap[a] \in Nat
           /\ RecordedBy(a, t) =>
                /\ ClassifyHealth(SeenMap[a], t) # "invalid"
                /\ kind = "listing" => ClassifyHealth(SeenMap[a], t) # "prune"
<1>1. a \in Actors /\ SeenMap[a] = relays[a].seen /\ ActivelyRegistered(a)
      /\ (kind = "listing" => PublicListed(a, t))
  BY DEF WalkSet, WalkRow, PublicListed, SeenMap
<1> DEFINE r == relays[a]
<1>2. r \in RelayRow /\ RelayInv(r) /\ r.lifecycle = "registered" /\ t \in Nat
  BY <1>1, InstantType DEF IInv, TypeOK, ActorInv, ActivelyRegistered
<1>3. RecordedBy(a, t) => r.updated <= t
  BY DEF RecordedBy
<1> HIDE DEF r
<1>4. r.seen \in Nat /\ (r.updated <= t => r.seen <= t)
  BY <1>2 DEF RelayInv, RelayChecks, RelayRow, Stamp, Never
<1>5. RecordedBy(a, t) => ClassifyHealth(relays[a].seen, t) # "invalid"
  BY <1>2, <1>3, <1>4, HealthClass DEF r
<1>6. RecordedBy(a, t) /\ kind = "listing" => ClassifyHealth(relays[a].seen, t) # "prune"
  BY <1>1, ListingAgrees
<1> QED BY <1>1, <1>4, <1>5, <1>6 DEF r

(* The rows a page of a walk is taken from. *)
LEMMA WalkRowsAre ==
    ASSUME IInv, reader \in ReaderRow, reader.kind \in WalkKinds, NEW W, NEW V,
           W = WalkSet(reader.kind, reader.observed), V = SeenMap
    PROVE  /\ IsFiniteSet(WalkRows) /\ Chain(WalkRows)
           /\ \A c \in WalkRows : /\ c.actor \in W /\ c.key = <<V[c.actor], Rank[c.actor]>>
                                  /\ c = [actor |-> c.actor, key |-> c.key]
                                  /\ Before(reader.from, c.key)
           /\ \A a \in W : Before(reader.from, <<V[a], Rank[a]>>) =>
                [actor |-> a, key |-> <<V[a], Rank[a]>>] \in WalkRows
<1> DEFINE row == [a \in W |-> [actor |-> a, key |-> <<V[a], Rank[a]>>]]
           all == {row[a] : a \in W}
<1>1. \A a \in W : a \in Actors /\ V[a] \in Nat /\ Rank[a] \in Nat /\ V[a] = relays[a].seen
  BY WalkEvidence, PagesAssumption DEF ReaderRow, SeenMap
<1>2. WalkRows = {c \in all : Before(reader.from, c.key)}
  <2>1. {b \in Actors : WalkRow(reader.kind, b, reader.observed)} = W
    BY DEF WalkSet
  <2>2. {[actor |-> a, key |-> <<relays[a].seen, Rank[a]>>] : a \in W} = all
    BY <1>1
  <2> QED BY <2>1, <2>2 DEF WalkRows, AfterCursor
<1>3. IsFiniteSet(all)
  <2>1. W \in SUBSET Actors
    BY DEF WalkSet
  <2>2. IsFiniteSet(W)
    BY <2>1, PagesAssumption, FS_Subset
  <2>3. row \in Surjection(W, all)
    BY DEF Surjection
  <2> HIDE DEF row, all
  <2> QED BY <2>2, <2>3, FS_Surjection
<1>4. \A c \in all : /\ c.actor \in W /\ c.key = <<V[c.actor], Rank[c.actor]>>
                     /\ c = [actor |-> c.actor, key |-> c.key]
  OBVIOUS
<1>5. \A a \in W : [actor |-> a, key |-> <<V[a], Rank[a]>>] \in all
  OBVIOUS
<1> HIDE DEF all
<1>6. WalkRows \in SUBSET all
  BY <1>2
<1>7. IsFiniteSet(WalkRows)
  BY <1>3, <1>6, FS_Subset
<1>8. Chain(WalkRows)
  <2>1. ASSUME NEW c \in WalkRows PROVE \E x, y \in Int : c.key = <<x, y>>
    BY <1>1, <1>4, <1>6
  <2>2. ASSUME NEW c \in WalkRows, NEW d \in WalkRows, c.key = d.key PROVE c = d
    <3>1. Rank[c.actor] = Rank[d.actor] /\ c.actor \in Actors /\ d.actor \in Actors
      BY <1>1, <1>4, <1>6, <2>2
    <3>2. c.actor = d.actor
      BY <3>1, PagesAssumption
    <3> QED BY <1>4, <1>6, <2>2, <3>2
  <2> QED BY <2>1, <2>2, PairChain
<1>9. \A c \in WalkRows : /\ c.actor \in W /\ c.key = <<V[c.actor], Rank[c.actor]>>
                          /\ c = [actor |-> c.actor, key |-> c.key]
                          /\ Before(reader.from, c.key)
  BY <1>2, <1>4
<1>10. \A a \in W : Before(reader.from, <<V[a], Rank[a]>>) =>
          [actor |-> a, key |-> <<V[a], Rank[a]>>] \in WalkRows
  BY <1>2, <1>5
<1> QED BY <1>7, <1>8, <1>9, <1>10

LEMMA WalkPageKeeps ==
    ASSUME IInv, NEW S, NEW L, NEW P, NEW T, NEW W, NEW V, AgainstStore(S, L, P, T, W, V),
           steady \in SUBSET Actors, ReadInv(reader, S, L, P, T, W, V),
           \A a \in S : RecordedBy(a, reader.observed), WalkPage
    PROVE  /\ ReadInv(reader', S, L, P, T, W, V)
           /\ reader'.kind = reader.kind /\ reader'.observed = reader.observed
<1> DEFINE rows == WalkRows
           page == PageOf(rows, PageLimit)
           more == Cardinality(rows) > PageLimit
           last == IF page = {} THEN NoCursor ELSE LastKey(page)
           here == {c.actor : c \in page}
           next == IF more THEN "between" ELSE "done"
<1>1. /\ reader.phase = "query"
      /\ reader' = IF WalkFails THEN [reader EXCEPT !.phase = "failed"]
                   ELSE [reader EXCEPT !.phase = next, !.seen = @ \cup here, !.from = last]
  BY DEF WalkPage
<1>2. /\ reader \in ReaderRow /\ reader.kind \in WalkKinds /\ reader.observed \in Instants
      /\ reader.from \in Nat \X Nat
  BY <1>1 DEF ReadInv, ReaderRow, PageKinds
<1>3. WalkInv(reader, S, W, V)
  BY <1>2 DEF ReadInv
<1>4. /\ S \subseteq Actors /\ W = WalkSet(reader.kind, reader.observed) /\ V = SeenMap
  BY DEF AgainstStore
<1>5. /\ IsFiniteSet(rows) /\ Chain(rows)
      /\ \A c \in rows : /\ c.actor \in W /\ c.key = <<V[c.actor], Rank[c.actor]>>
                         /\ c = [actor |-> c.actor, key |-> c.key]
                         /\ Before(reader.from, c.key)
      /\ \A a \in W : Before(reader.from, <<V[a], Rank[a]>>) =>
           [actor |-> a, key |-> <<V[a], Rank[a]>>] \in rows
  BY <1>2, <1>4, WalkRowsAre
<1>6. \A a \in W : a \in Actors /\ V[a] \in Nat /\ Rank[a] \in Nat
  BY <1>2, <1>4, WalkEvidence, PagesAssumption
<1>7. CASE WalkFails
  <2>1. PICK c \in PageOf(rows, PageLimit + 1) :
          ClassifyHealth(c.key[1], reader.observed) \in
            {"invalid"} \cup (IF reader.kind = "listing" THEN {"prune"} ELSE {})
    BY <1>7 DEF WalkFails
  <2>2. c \in rows
    BY DEF PageOf
  <2>3. c.actor \in W /\ c.key[1] = SeenMap[c.actor]
    BY <1>4, <1>5, <2>2
  <2>4. c.actor \in Actors /\ ~RecordedBy(c.actor, reader.observed)
    BY <1>2, <1>4, <2>1, <2>3, WalkEvidence
  <2>5. S # Actors
    BY <2>4
  <2>6. reader' = [reader EXCEPT !.phase = "failed"]
    BY <1>1, <1>7
  <2> HIDE DEF rows, page, more, last, here, next
  <2> QED BY <2>5, <2>6, CutShortRead
<1>8. CASE ~WalkFails
  <2>1. reader' = [reader EXCEPT !.phase = next, !.seen = @ \cup here, !.from = last]
    BY <1>1, <1>8
  <2>2. page \subseteq rows
    BY DEF PageOf
  <2>3. here \in SUBSET Actors
    BY <1>5, <1>6, <2>2
  <2>4. last \in Nat \X Nat
    <3>1. CASE page = {}
      BY <3>1 DEF NoCursor
    <3>2. CASE page # {}
      <4>1. PICK c \in page : LastKey(page) = c.key
        BY <1>5, <3>2, LastRow, PagesAssumption
      <4> QED BY <1>5, <1>6, <2>2, <3>2, <4>1
    <3> QED BY <3>1, <3>2
  <2>5. next \in {"between", "done"}
    OBVIOUS
  <2>6. \A a \in W : a \in here <=> [actor |-> a, key |-> <<V[a], Rank[a]>>] \in page
    BY <1>5, <2>2
  <2>7. \A a \in here : a \in W /\ Before(reader.from, <<V[a], Rank[a]>>)
    BY <1>5, <2>2
  <2> HIDE DEF rows, here, next, last, page
  <2>8. /\ reader' \in ReaderRow /\ reader'.phase = next
        /\ reader'.kind = reader.kind /\ reader'.observed = reader.observed
        /\ reader'.from = last /\ reader'.seen = reader.seen \cup here
    BY <1>2, <2>1, <2>3, <2>4, <2>5 DEF ReaderRow, ReadEnded
  <2>9. ASSUME NEW a \in S
        PROVE  a \in reader.seen <=> a \in W /\ ~Before(reader.from, <<V[a], Rank[a]>>)
    BY <1>1, <1>3 DEF WalkInv
  <2>10. CASE more
    <3>1. page # {}
      <4>1. Cardinality(rows) \in Nat /\ PageLimit \in Nat
        BY <1>5, FS_CardinalityType, PagesAssumption
      <4>2. rows # {}
        BY <2>10, <4>1, FS_EmptySet, PagesAssumption
      <4> QED BY <1>5, <4>2, PageProgress, PagesAssumption DEF page
    <3>2. PICK c \in page : /\ LastKey(page) = c.key
                            /\ \A d \in page : d = c \/ Before(d.key, c.key)
      BY <1>5, <3>1, LastRow, PagesAssumption DEF page
    <3>3. last = c.key /\ c \in rows
      BY <2>2, <3>1, <3>2 DEF last
    <3>4. last = <<V[c.actor], Rank[c.actor]>> /\ c.actor \in W /\ Before(reader.from, last)
      BY <1>5, <3>3
    <3>5. ASSUME NEW d \in rows PROVE d \in page <=> ~Before(last, d.key)
      <4>1. d \in page => ~Before(last, d.key)
        BY <1>5, <3>2, <3>3 DEF Chain
      <4>2. d \notin page => Before(last, d.key)
        <5> SUFFICES ASSUME d \notin page PROVE Before(last, d.key)
          OBVIOUS
        <5>1. NextCursor(rows, PageLimit) = last
          BY <2>10, <3>1 DEF NextCursor, last, page
        <5> QED BY <1>5, <5>1, NextCovers, PagesAssumption DEF page
      <4> QED BY <4>1, <4>2
    <3>6. ASSUME NEW a \in S
          PROVE  a \in reader'.seen <=> a \in W /\ ~Before(last, <<V[a], Rank[a]>>)
      <4>1. CASE a \notin W
        BY <2>7, <2>8, <2>9, <4>1
      <4>2. CASE a \in W /\ Before(reader.from, <<V[a], Rank[a]>>)
        <5> DEFINE d == [actor |-> a, key |-> <<V[a], Rank[a]>>]
        <5>1. d \in rows /\ d.key = <<V[a], Rank[a]>>
          BY <1>5, <4>2
        <5>2. a \in here <=> ~Before(last, <<V[a], Rank[a]>>)
          BY <2>6, <3>5, <4>2, <5>1
        <5> QED BY <2>8, <2>9, <4>2, <5>2
      <4>3. CASE a \in W /\ ~Before(reader.from, <<V[a], Rank[a]>>)
        <5>1. a \in reader.seen
          BY <2>9, <4>3
        <5>2. ~Before(last, <<V[a], Rank[a]>>)
          <6> DEFINE f1 == reader.from[1]
                     f2 == reader.from[2]
                     v  == V[c.actor]
                     w  == Rank[c.actor]
          <6>1. reader.from = <<f1, f2>> /\ f1 \in Nat /\ f2 \in Nat
            BY <1>2
          <6>2. v \in Nat /\ w \in Nat /\ V[a] \in Nat /\ Rank[a] \in Nat /\ last = <<v, w>>
            BY <1>6, <3>4, <4>3
          <6> HIDE DEF f1, f2, v, w
          <6>3. f1 < v \/ (f1 = v /\ f2 < w)
            BY <3>4, <6>1, <6>2, BeforePair
          <6>4. ~(f1 < V[a] \/ (f1 = V[a] /\ f2 < Rank[a]))
            BY <4>3, <6>1, BeforePair
          <6>5. ~(v < V[a] \/ (v = V[a] /\ w < Rank[a]))
            BY <6>1, <6>2, <6>3, <6>4
          <6> QED BY <6>2, <6>5, BeforePair
        <5> QED BY <2>8, <4>3, <5>1, <5>2
      <4> QED BY <4>1, <4>2, <4>3
    <3>7. next = "between"
      BY <2>10 DEF next
    <3>8. WalkInv(reader', S, W, V)
      BY <2>8, <3>6, <3>7 DEF WalkInv
    <3> HIDE DEF more
    <3> QED BY <1>2, <2>8, <3>7, <3>8 DEF ReadInv, Outcome, PageKinds, WalkKinds, ScanPhases
  <2>11. CASE ~more
    <3>1. page = rows
      <4>1. Cardinality(rows) \in Nat /\ PageLimit \in Nat
        BY <1>5, FS_CardinalityType, PagesAssumption
      <4>2. Cardinality(rows) <= PageLimit
        BY <2>11, <4>1
      <4> QED BY <1>5, <4>1, <4>2, PageWhole DEF page
    <3>2. ASSUME NEW a \in S PROVE a \in reader'.seen <=> a \in W
      BY <1>5, <2>6, <2>7, <2>8, <2>9, <3>1
    <3>3. next = "done"
      BY <2>11 DEF next
    <3>4. WalkInv(reader', S, W, V)
      BY <2>8, <3>2, <3>3 DEF WalkInv
    <3> HIDE DEF more
    <3> QED BY <1>2, <2>8, <3>3, <3>4 DEF ReadInv, Outcome, PageKinds, WalkKinds, ScanPhases
  <2> QED BY <2>10, <2>11
<1> QED BY <1>7, <1>8

LEMMA NextWalkPageKeeps ==
    ASSUME NEW S, NEW L, NEW P, NEW T, NEW W, NEW V, ReadInv(reader, S, L, P, T, W, V),
           NextWalkPage
    PROVE  /\ ReadInv(reader', S, L, P, T, W, V)
           /\ reader'.kind = reader.kind /\ reader'.observed = reader.observed
<1>1. /\ reader \in ReaderRow /\ reader.phase = "between" /\ reader.kind \in WalkKinds
      /\ WalkInv(reader, S, W, V)
  BY DEF ReadInv, NextWalkPage, ReaderRow
<1>2. CASE reader' = [reader EXCEPT !.phase = "expired"]
  BY <1>2, CutShortRead
<1>3. CASE reader' = [reader EXCEPT !.phase = "query"]
  <2>1. /\ reader' \in ReaderRow /\ reader'.phase = "query"
        /\ reader'.kind = reader.kind /\ reader'.observed = reader.observed
        /\ reader'.from = reader.from /\ reader'.seen = reader.seen
    BY <1>1, <1>3 DEF ReaderRow
  <2>2. WalkInv(reader', S, W, V)
    BY <1>1, <2>1 DEF WalkInv
  <2> QED BY <1>1, <2>1, <2>2 DEF ReadInv, Outcome, PageKinds, WalkKinds, ScanPhases
<1> QED BY <1>2, <1>3 DEF NextWalkPage

-----------------------------------------------------------------------------
(* A read that begins, and a transaction beside it. *)

LEMMA ReadBegins ==
    ASSUME IInv, NEW t \in Instants, RequestPage(t) \/ RequestExport(t) \/ RequestWalk(t)
    PROVE  \E kind \in PageKinds \cup WalkKinds :
             /\ reader'.observed = t /\ reader'.kind = kind
             /\ ReadInv(reader', Actors, LifecycleSet, PublicSet, TierMap(t),
                        WalkSet(kind, t), SeenMap)
<1> DEFINE L == LifecycleSet
           P == PublicSet
           T == TierMap(t)
           V == SeenMap
<1>1. T \in [Actors -> Tiers]
  BY TierType
<1>2. ASSUME NEW kind \in PageKinds \cup WalkKinds, NEW dir \in Directions
      PROVE  Reading(kind, dir, t) \in ReaderRow
  BY <1>2 DEF Reading, ReaderRow, NoCursor, Tiers, Scopes
<1> HIDE DEF L, P, T, V
<1>3. ASSUME NEW dir \in Directions, NEW cursor \in Cursors \cup {NoCursor},
             cursor = NoCursor => dir = 1, reader' = PageFrom(Reading("page", dir, t), cursor)
      PROVE  /\ reader'.observed = t /\ reader'.kind = "page"
             /\ ReadInv(reader', Actors, L, P, T, WalkSet("page", t), V)
  <2> DEFINE r == Reading("page", dir, t)
  <2>1. r \in ReaderRow /\ r.kind = "page" /\ r.dir = dir /\ r.observed = t
    BY <1>2 DEF Reading, PageKinds
  <2>2. cursor \in Tiers \X (Nat \ {0}) \/ (cursor = NoCursor /\ r.dir = 1)
    BY <1>3, <2>1, PagesAssumption DEF Cursors
  <2> HIDE DEF r
  <2>3. /\ reader' \in ReaderRow /\ reader'.phase = "lifecycle"
        /\ reader'.kind = r.kind /\ reader'.observed = r.observed
        /\ Ranked(reader') /\ PageInv(reader', Actors, L, P, T)
    BY <1>1, <1>3, <2>1, <2>2, PageBegins DEF r
  <2> QED BY <2>1, <2>3 DEF ReadInv, Outcome, PageKinds, WalkKinds
<1>4. ASSUME NEW scope \in Scopes,
             reader' = PageFrom([Reading("export", 1, t) EXCEPT !.scope = scope], NoCursor)
      PROVE  /\ reader'.observed = t /\ reader'.kind = "export"
             /\ ReadInv(reader', Actors, L, P, T, WalkSet("export", t), V)
  <2> DEFINE r == [Reading("export", 1, t) EXCEPT !.scope = scope]
  <2>1. Reading("export", 1, t) \in ReaderRow
    BY <1>2 DEF PageKinds, Directions
  <2>2. r \in ReaderRow
    <3> DEFINE q == Reading("export", 1, t)
    <3>1. q \in ReaderRow /\ r = [q EXCEPT !.scope = scope]
      BY <2>1
    <3> HIDE DEF q, r
    <3> QED BY <3>1 DEF ReaderRow
  <2>3. /\ r.kind = "export" /\ r.dir = 1 /\ r.observed = t
        /\ r.seen = {} /\ r.kept = {}
    BY DEF Reading
  <2> HIDE DEF r
  <2>4. /\ reader' \in ReaderRow /\ reader'.phase = "lifecycle" /\ reader'.from = NoCursor
        /\ reader'.kind = r.kind /\ reader'.dir = r.dir /\ reader'.observed = r.observed
        /\ reader'.seen = r.seen /\ reader'.kept = r.kept
        /\ Ranked(reader') /\ PageInv(reader', Actors, L, P, T)
    <3>1. reader' = PageFrom(r, NoCursor)
      BY <1>4 DEF r
    <3> QED BY <1>1, <2>2, <2>3, <3>1, PageBegins
  <2>5. ASSUME NEW a \in Actors PROVE Ahead(1, NoCursor, KeyIn(T, a))
    <3>1. T[a] \in Int /\ T[a] > 0 /\ Rank[a] \in Int
      BY <1>1, PagesAssumption DEF Tiers
    <3>2. KeyIn(T, a) \in Int \X Int /\ KeyIn(T, a)[1] = T[a]
      BY <3>1 DEF KeyIn
    <3>3. NoCursor \in Int \X Int /\ NoCursor[1] = 0 /\ 1 \in Directions
      BY DEF NoCursor, Directions
    <3> QED BY <3>1, <3>2, <3>3, AheadIs DEF Lt
  <2>6. ExportInv(reader', Actors, P, T)
    BY <2>3, <2>4, <2>5 DEF ExportInv, ScanPhases
  <2> QED BY <2>3, <2>4, <2>6 DEF ReadInv, Outcome, PageKinds, WalkKinds
<1>5. ASSUME NEW kind \in WalkKinds, reader' = [Reading(kind, 1, t) EXCEPT !.phase = "query"]
      PROVE  /\ reader'.observed = t /\ reader'.kind = kind
             /\ ReadInv(reader', Actors, L, P, T, WalkSet(kind, t), V)
  <2>1. Reading(kind, 1, t) \in ReaderRow
    BY <1>2 DEF Directions
  <2>2. reader' \in ReaderRow
    <3> DEFINE r == Reading(kind, 1, t)
    <3>1. r \in ReaderRow /\ reader' = [r EXCEPT !.phase = "query"]
      BY <1>5, <2>1
    <3> HIDE DEF r
    <3> QED BY <3>1 DEF ReaderRow
  <2>3. /\ reader'.kind = kind /\ reader'.observed = t /\ reader'.phase = "query"
        /\ reader'.seen = {} /\ reader'.from = NoCursor
    BY <1>5 DEF Reading
  <2>4. ASSUME NEW a \in WalkSet(kind, t) PROVE Before(NoCursor, <<V[a], Rank[a]>>)
    <3>1. V[a] \in Nat /\ a \in Actors
      BY WalkEvidence DEF V
    <3>2. Rank[a] \in Nat \ {0}
      BY <3>1, PagesAssumption
    <3> QED BY <3>1, <3>2, BeforePair DEF NoCursor
  <2>5. WalkInv(reader', Actors, WalkSet(kind, t), V)
    BY <2>3, <2>4 DEF WalkInv
  <2> QED BY <2>2, <2>3, <2>5 DEF ReadInv, Outcome, PageKinds, WalkKinds, ScanPhases
<1>6. CASE RequestPage(t)
  <2>1. \/ \E cursor \in Cursors \cup {NoCursor} : reader' = PageFrom(Reading("page", 1, t), cursor)
        \/ \E cursor \in Cursors : reader' = PageFrom(Reading("page", -1, t), cursor)
    BY <1>6 DEF RequestPage
  <2>2. NoCursor \notin Cursors /\ 1 \in Directions /\ -1 \in Directions
    BY PagesAssumption DEF Cursors, NoCursor, Tiers, Directions
  <2>3. /\ reader'.observed = t /\ reader'.kind = "page"
        /\ ReadInv(reader', Actors, L, P, T, WalkSet("page", t), V)
    BY <1>3, <2>1, <2>2
  <2> QED BY <2>3 DEF PageKinds, L, P, T, V
<1>7. CASE RequestExport(t)
  BY <1>4, <1>7 DEF RequestExport, PageKinds, L, P, T, V
<1>8. CASE RequestWalk(t)
  BY <1>5, <1>8 DEF RequestWalk, WalkKinds, L, P, T, V
<1> QED BY <1>6, <1>7, <1>8

(* What holds of the actors that did not change holds of fewer of them. *)
LEMMA ReadShrinks ==
    ASSUME NEW r, NEW S, NEW L, NEW P, NEW T, NEW W, NEW V, ReadInv(r, S, L, P, T, W, V),
           S \subseteq Actors, NEW S2, NEW L2, NEW P2, NEW T2, NEW W2, NEW V2, S2 \subseteq S,
           \A a \in S2 : /\ a \in L2 <=> a \in L
                         /\ a \in P2 <=> a \in P
                         /\ T2[a] = T[a]
                         /\ a \in W2 <=> a \in W
                         /\ V2[a] = V[a]
    PROVE  ReadInv(r, S2, L2, P2, T2, W2, V2)
<1>1. \A a \in S2 : KeyIn(T2, a) = KeyIn(T, a)
  BY DEF KeyIn
<1>2. Outcome(r, S2)
  BY DEF ReadInv, Outcome
<1>3. ASSUME PageInv(r, S, L, P, T) PROVE PageInv(r, S2, L2, P2, T2)
  <2>1. Own(r, S2, P2, T2)
    BY <1>1, <1>3 DEF PageInv, Own
  <2>2. r.phase \in ScanPhases => ScanInv(r, S2, P2, T2)
    <3>1. Filling(r, S, P, T) => Filling(r, S2, P2, T2)
      BY <1>1 DEF Filling
    <3>2. Probed(r, S, P, T) => Probed(r, S2, P2, T2)
      BY <1>1 DEF Probed
    <3> QED BY <1>3, <3>1, <3>2 DEF PageInv, ScanInv
  <2>3. r.phase = "discovery" => Gathered(r, S2, L2)
    BY <1>3 DEF PageInv, Gathered
  <2>4. r.phase = "details" => Gathered(r, S2, P2)
    BY <1>3 DEF PageInv, Gathered
  <2>5. ClosedPage(r, S, P, T) => ClosedPage(r, S2, P2, T2)
    BY <1>1 DEF ClosedPage
  <2> QED BY <1>3, <2>1, <2>2, <2>3, <2>4, <2>5 DEF PageInv
<1>4. ExportInv(r, S, P, T) => ExportInv(r, S2, P2, T2)
  BY <1>1 DEF ExportInv
<1>5. WalkInv(r, S, W, V) => WalkInv(r, S2, W2, V2)
  BY DEF WalkInv
<1> QED BY <1>2, <1>3, <1>4, <1>5 DEF ReadInv

LEMMA DisturbedKeeps ==
    ASSUME IInv, steady \in SUBSET Actors, CurrentRead, Disturbed
    PROVE  CurrentRead'
<1>1. PICK t \in Instants, kind \in PageKinds \cup WalkKinds :
        /\ reader.observed = t /\ reader.kind = kind
        /\ ReadInv(reader, steady, LifecycleSet, PublicSet, TierMap(t), WalkSet(kind, t), SeenMap)
        /\ \A a \in steady : RecordedBy(a, t)
  BY DEF CurrentRead
<1>2. reader' = reader /\ steady' \subseteq steady /\ \A a \in steady' : Unchanged(a)
  BY DEF Disturbed
<1>3. ASSUME NEW a \in steady'
      PROVE  /\ a \in LifecycleSet' <=> a \in LifecycleSet
             /\ a \in PublicSet' <=> a \in PublicSet
             /\ TierMap(t)'[a] = TierMap(t)[a]
             /\ a \in WalkSet(kind, t)' <=> a \in WalkSet(kind, t)
             /\ SeenMap'[a] = SeenMap[a]
             /\ RecordedBy(a, t)'
  <2>1. /\ a \in Actors /\ RecordedBy(a, t)
        /\ relays'[a] = relays[a] /\ discoveries'[a] = discoveries[a]
        /\ observations'[a] = observations[a]
    BY <1>1, <1>2 DEF Unchanged
  <2>2. LifecycleKnown(a)' <=> LifecycleKnown(a)
    BY <2>1 DEF LifecycleKnown
  <2>3. PublicRelay(a)' <=> PublicRelay(a)
    BY <2>1, <2>2 DEF PublicRelay, DiscoveryKnown
  <2>4. ActivelyRegistered(a)' <=> ActivelyRegistered(a)
    BY <2>1 DEF ActivelyRegistered
  <2>5. ClassifyDirectoryTier(a, t)' = ClassifyDirectoryTier(a, t)
    <3>1. FirstKnown(a)' = FirstKnown(a)
      BY <2>1 DEF FirstKnown
    <3>2. FreshReachability(a, t)' <=> FreshReachability(a, t)
      BY <2>1 DEF FreshReachability
    <3>3. CurrentHeartbeat(a, t)' <=> CurrentHeartbeat(a, t)
      BY <2>1, <2>4 DEF CurrentHeartbeat
    <3> QED BY <2>1, <3>1, <3>2, <3>3 DEF ClassifyDirectoryTier
  <2>6. WalkRow(kind, a, t)' <=> WalkRow(kind, a, t)
    BY <2>1, <2>4 DEF WalkRow, PublicListed
  <2>7. RecordedBy(a, t)'
    BY <2>1 DEF RecordedBy
  <2> QED BY <2>1, <2>2, <2>3, <2>5, <2>6, <2>7
        DEF LifecycleSet, PublicSet, TierMap, WalkSet, SeenMap
<1>4. ReadInv(reader', steady', LifecycleSet', PublicSet', TierMap(t)', WalkSet(kind, t)', SeenMap')
  BY <1>1, <1>2, <1>3, ReadShrinks
<1> QED BY <1>1, <1>2, <1>3, <1>4 DEF CurrentRead

-----------------------------------------------------------------------------
(* Every step. *)

LEMMA ReaderStepKeeps ==
    ASSUME PagesInv, ReaderStep
    PROVE  PagesInv'
<1>1. UNCHANGED vars
  BY DEF ReaderStep, RequestPage, RequestExport, RequestWalk, Arrives, ReadLifecycleCandidates,
         ReadDiscoveryCandidates, DetailsFail, PageFills, TierScanned, MoreProbed, Present,
         ExportPage, WalkPage, NextWalkPage, TimesOut, Answered
<1>2. IInv /\ IInv'
  BY <1>1, NextInv DEF PagesInv
<1>3. /\ LifecycleSet' = LifecycleSet /\ PublicSet' = PublicSet /\ SeenMap' = SeenMap
      /\ \A t : TierMap(t)' = TierMap(t)
      /\ \A kind, t : WalkSet(kind, t)' = WalkSet(kind, t)
      /\ \A a, t : RecordedBy(a, t)' <=> RecordedBy(a, t)
  BY <1>1 DEF LifecycleSet, PublicSet, SeenMap, TierMap, WalkSet, RecordedBy, LifecycleKnown,
              DiscoveryKnown, PublicRelay, ClassifyDirectoryTier, FirstKnown, FreshReachability,
              CurrentHeartbeat, ActivelyRegistered, WalkRow, PublicListed, vars
<1>4. ASSUME NEW t \in Instants, RequestPage(t) \/ RequestExport(t) \/ RequestWalk(t)
      PROVE  PagesInv'
  <2>1. steady' = Actors /\ \A a \in Actors : RecordedBy(a, t)
    BY <1>4 DEF RequestPage, RequestExport, RequestWalk, Arrives
  <2>2. PICK kind \in PageKinds \cup WalkKinds :
          /\ reader'.observed = t /\ reader'.kind = kind
          /\ ReadInv(reader', Actors, LifecycleSet, PublicSet, TierMap(t),
                     WalkSet(kind, t), SeenMap)
    BY <1>2, <1>4, ReadBegins
  <2>3. CurrentRead'
    BY <1>3, <2>1, <2>2 DEF CurrentRead
  <2> QED BY <1>2, <2>1, <2>3 DEF PagesInv
<1>5. CASE Answered
  BY <1>2, <1>5 DEF Answered, PagesInv
<1>6. ASSUME reader.phase # "idle", steady' = steady,
             \A S, L, P, T, W, V :
               /\ AgainstStore(S, L, P, T, W, V)
               /\ ReadInv(reader, S, L, P, T, W, V)
               /\ \A a \in S : RecordedBy(a, reader.observed)
               => /\ ReadInv(reader', S, L, P, T, W, V)
                  /\ reader'.kind = reader.kind /\ reader'.observed = reader.observed
      PROVE  PagesInv'
  <2>1. CurrentRead
    BY <1>6 DEF PagesInv, Idle
  <2>2. PICK t \in Instants, kind \in PageKinds \cup WalkKinds :
          /\ reader.observed = t /\ reader.kind = kind
          /\ ReadInv(reader, steady, LifecycleSet, PublicSet, TierMap(t), WalkSet(kind, t), SeenMap)
          /\ \A a \in steady : RecordedBy(a, t)
    BY <2>1 DEF CurrentRead
  <2>3. AgainstStore(steady, LifecycleSet, PublicSet, TierMap(t), WalkSet(kind, t), SeenMap)
    BY <2>2 DEF AgainstStore
  <2>4. /\ ReadInv(reader', steady, LifecycleSet, PublicSet, TierMap(t), WalkSet(kind, t), SeenMap)
        /\ reader'.kind = kind /\ reader'.observed = t
    BY <1>6, <2>2, <2>3
  <2>5. CurrentRead'
    BY <1>3, <1>6, <2>2, <2>4 DEF CurrentRead
  <2> QED BY <1>2, <1>6, <2>5 DEF PagesInv
<1>7. steady \in SUBSET Actors
  BY DEF PagesInv
<1>8. CASE \/ ReadLifecycleCandidates \/ ReadDiscoveryCandidates \/ PageFills \/ TierScanned
           \/ MoreProbed
  <2>1. steady' = steady /\ reader.phase # "idle"
    BY <1>8 DEF ReadLifecycleCandidates, ReadDiscoveryCandidates, PageFills, TierScanned, MoreProbed
  <2> QED BY <1>6, <1>7, <1>8, <2>1, ScanStepKeeps
<1>9. CASE DetailsFail
  <2>1. steady' = steady /\ reader.phase # "idle"
    BY <1>9 DEF DetailsFail
  <2> QED BY <1>2, <1>6, <1>7, <1>9, <2>1, DetailsFailKeeps
<1>10. CASE Present
  <2>1. steady' = steady /\ reader.phase # "idle"
    BY <1>10 DEF Present
  <2> QED BY <1>6, <1>10, <2>1, PresentKeeps
<1>11. CASE ExportPage
  <2>1. steady' = steady /\ reader.phase # "idle"
    BY <1>11 DEF ExportPage
  <2>2. \A S, L, P, T, W, V : AgainstStore(S, L, P, T, W, V) =>
          S \subseteq Actors /\ T \in [Actors -> Tiers]
    BY <1>7, TierType DEF AgainstStore
  <2> QED BY <1>6, <1>11, <2>1, <2>2, ExportPageKeeps
<1>12. CASE WalkPage
  <2>1. steady' = steady /\ reader.phase # "idle"
    BY <1>12 DEF WalkPage
  <2> QED BY <1>2, <1>6, <1>7, <1>12, <2>1, WalkPageKeeps
<1>13. CASE NextWalkPage
  <2>1. steady' = steady /\ reader.phase # "idle"
    BY <1>13 DEF NextWalkPage
  <2> QED BY <1>6, <1>13, <2>1, NextWalkPageKeeps
<1>14. CASE TimesOut
  <2>1. /\ steady' = steady /\ reader.phase # "idle"
        /\ reader' = [reader EXCEPT !.phase = "timeout"]
    BY <1>14 DEF TimesOut
  <2> QED BY <1>6, <2>1, CutShortRead
<1> QED BY <1>4, <1>5, <1>8, <1>9, <1>10, <1>11, <1>12, <1>13, <1>14 DEF ReaderStep

LEMMA PagesStep == PagesInv /\ [PagesNext]_pageVars => PagesInv'
<1> SUFFICES ASSUME PagesInv, [PagesNext]_pageVars PROVE PagesInv'
  OBVIOUS
<1>1. CASE ReaderStep
  BY <1>1, ReaderStepKeeps
<1>2. ASSUME [Next]_vars, Disturbed PROVE PagesInv'
  <2>1. IInv /\ IInv' /\ steady \in SUBSET Actors /\ (reader = Idle \/ CurrentRead)
    BY <1>2, NextInv DEF PagesInv
  <2>2. reader' = reader /\ steady' \in SUBSET Actors
    BY <1>2, <2>1 DEF Disturbed
  <2>3. CurrentRead => CurrentRead'
    BY <1>2, <2>1, DisturbedKeeps
  <2> QED BY <2>1, <2>2, <2>3 DEF PagesInv
<1>3. CASE UNCHANGED pageVars
  <2>1. UNCHANGED vars /\ Disturbed
    BY <1>3 DEF pageVars, Disturbed, Unchanged, vars
  <2> QED BY <1>2, <2>1
<1> QED BY <1>1, <1>2, <1>3 DEF PagesNext

LEMMA ExactPages == PagesInv => PageIsExact
<1> SUFFICES ASSUME PagesInv PROVE PageIsExact
  OBVIOUS
<1>1. CASE reader = Idle
  <2>1. reader.phase = "idle"
    BY <1>1 DEF Idle
  <2> QED BY <2>1 DEF PageIsExact
<1>2. CASE CurrentRead
  <2>1. PICK t \in Instants, kind \in PageKinds \cup WalkKinds :
          /\ reader.observed = t /\ reader.kind = kind
          /\ ReadInv(reader, steady, LifecycleSet, PublicSet, TierMap(t), WalkSet(kind, t), SeenMap)
    BY <1>2 DEF CurrentRead
  <2> DEFINE P == PublicSet
             T == TierMap(t)
             W == WalkSet(kind, t)
  <2>2. Outcome(reader, steady) /\ reader \in ReaderRow
    BY <2>1 DEF ReadInv
  <2>3. ASSUME NEW a \in steady
        PROVE  /\ a \in Actors /\ KeyAt(a) = KeyIn(T, a) /\ KeyAt(a)[1] = T[a]
               /\ KeyAt(a)[2] = Rank[a]
               /\ a \in P <=> PublicRelay(a)
               /\ a \in W <=> WalkRow(kind, a, t)
    BY <2>1 DEF PagesInv, KeyAt, KeyIn, TierMap, PublicSet, WalkSet
  <2>4. ASSUME reader.phase = "done", kind = "page", NEW a \in steady
        PROVE  {k \in reader.listed : k[2] = Rank[a]} =
                 {k \in {KeyAt(a)} : PublicRelay(a) /\ Covered(reader, k)}
    <3>1. PageInv(reader, steady, LifecycleSet, P, T)
      BY <2>1, <2>4 DEF ReadInv, PageKinds
    <3>2. Own(reader, steady, P, T) /\ Within(reader) /\ ClosedPage(reader, steady, P, T)
      BY <2>4, <3>1 DEF PageInv
    <3> HIDE DEF P, T, W
    <3>3. \A k \in reader.listed : k[2] = Rank[a] => PublicRelay(a) /\ k = KeyAt(a)
      BY <2>3, <3>2 DEF Own
    <3>4. \A k \in reader.listed : Covered(reader, k)
      BY <3>2 DEF Within, ClosedPage, Covered
    <3>5. PublicRelay(a) /\ Covered(reader, KeyAt(a)) => KeyAt(a) \in reader.listed
      BY <2>3, <3>2 DEF ClosedPage
    <3> QED BY <2>3, <3>3, <3>4, <3>5
  <2>5. ASSUME reader.phase = "done", kind = "export", NEW a \in steady
        PROVE  (a \in reader.kept) = (PublicRelay(a) /\ ScopeIncludes(reader.scope, KeyAt(a)[1]))
    <3>1. ExportInv(reader, steady, P, T)
      BY <2>1, <2>5 DEF ReadInv
    <3>2. a \in reader.kept <=> a \in P /\ ScopeIncludes(reader.scope, T[a])
      BY <2>5, <3>1 DEF ExportInv
    <3> QED BY <2>3, <3>2
  <2>6. ASSUME reader.phase = "done", kind \notin PageKinds, NEW a \in steady
        PROVE  (a \in reader.seen) = WalkRow(kind, a, t)
    <3>1. WalkInv(reader, steady, W, SeenMap)
      BY <2>1, <2>6 DEF ReadInv
    <3>2. a \in reader.seen <=> a \in W
      BY <2>6, <3>1 DEF WalkInv
    <3> QED BY <2>3, <3>2 DEF WalkRow, PublicListed, ActivelyRegistered
  <2> HIDE DEF P, T, W
  <2> QED BY <2>1, <2>2, <2>4, <2>5, <2>6 DEF PageIsExact, Outcome, PageKinds
<1> QED BY <1>1, <1>2 DEF PagesInv

(* Whatever transactions run between its statements, a finished read shows  *)
(* every relay that did not change exactly where it belongs, a read fails   *)
(* only when something changed, and presentation never refuses a page.      *)
THEOREM PagesExact == PagesSpec => []PageIsExact
<1>1. PagesInit => PagesInv
  BY InitInv DEF PagesInit, PagesInv
<1> QED BY <1>1, PagesStep, ExactPages, PTL DEF PagesSpec
=============================================================================
