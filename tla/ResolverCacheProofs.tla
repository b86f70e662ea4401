------------------------- MODULE ResolverCacheProofs -------------------------
(***************************************************************************)
(* Proofs about the resolver and its cache, for any number of callers,     *)
(* keys and rotations and any limits: a key that a caller is given was     *)
(* published at most a TTL and one fetch ago, and no connection leaves the *)
(* network policy nor does a failure misreport one.                        *)
(***************************************************************************)
EXTENDS ResolverCache, TLAPS

Stages   == {"lookup", "dial", "connected", "store"}
Purposes == {"key", "actor", "inbox"}

CallRecords ==
    [stage : Stages, purpose : Purposes, subject : Keys \cup Targets, hops : Nat,
     left : SUBSET Addresses, address : Addresses \cup {NoAddress}, started : Nat,
     material : Generations \cup {-1}]

EntryRecords == [material : Generations \cup {-1}, expires : Nat]

(* The material of generation g of the key k was current at the instant t   *)
(* or at some later one.                                                    *)
CurrentSince(k, g, t) ==
    /\ g \in 0..published[k]
    /\ g = published[k] \/ t <= rotated[k][g + 1]

(* An entry does not outlive by more than a TTL and one fetch the key it    *)
(* holds, and no entry expires later than a TTL from now.                   *)
EntryInv(k) ==
    entries[k] # NoEntry =>
        /\ entries[k].material \in 0..published[k]
        /\ entries[k].expires <= now + TTL
        /\ \/ entries[k].material = published[k]
           \/ entries[k].expires
                 <= rotated[k][entries[k].material + 1] + FetchTimeout + TTL

(* A call is younger than the timeout, dials approved addresses only, and   *)
(* carries to the cache a key that was current after the call began.        *)
CallInv(c) ==
    calls[c] # NoCall =>
        /\ calls[c] \in CallRecords
        /\ calls[c].started <= now
        /\ now <= calls[c].started + FetchTimeout
        /\ calls[c].purpose = "key" => calls[c].subject \in Keys
        /\ calls[c].stage = "dial" => calls[c].left \subseteq Public
        /\ calls[c].stage = "connected" => calls[c].address \in Public
        /\ calls[c].stage = "store" =>
              /\ calls[c].purpose = "key"
              /\ CurrentSince(calls[c].subject, calls[c].material, calls[c].started)

CacheInv ==
    /\ now \in Nat
    /\ published \in [Keys -> Generations]
    /\ rotated \in [Keys -> [Generations -> Nat]]
    /\ entries \in [Keys -> EntryRecords]
    /\ DOMAIN calls = Callers
    /\ \A k \in Keys : EntryInv(k)
    /\ \A c \in Callers : CallInv(c)

-----------------------------------------------------------------------------
LEMMA InitCacheInv == ResolverInit => CacheInv
  <1> SUFFICES ASSUME ResolverInit PROVE CacheInv
    OBVIOUS
  <1>1. now \in Nat /\ DOMAIN calls = Callers
    BY DEF ResolverInit
  <1>2. published \in [Keys -> Generations] /\ rotated \in [Keys -> [Generations -> Nat]]
    BY CacheAssumption DEF ResolverInit, Generations
  <1>3. entries \in [Keys -> EntryRecords]
    BY DEF ResolverInit, EntryRecords, NoEntry
  <1>4. ASSUME NEW k \in Keys PROVE EntryInv(k)
    BY DEF ResolverInit, EntryInv
  <1>5. ASSUME NEW c \in Callers PROVE CallInv(c)
    BY DEF ResolverInit, CallInv
  <1> QED
    BY <1>1, <1>2, <1>3, <1>4, <1>5 DEF CacheInv

-----------------------------------------------------------------------------
(* The cache. *)

LEMMA EntriesUnchanged ==
    ASSUME CacheInv, UNCHANGED <<now, published, rotated, entries>>
    PROVE  entries' \in [Keys -> EntryRecords] /\ \A k \in Keys : EntryInv(k)'
  BY DEF CacheInv, EntryInv

LEMMA EntryRemoved ==
    ASSUME CacheInv, NEW k \in Keys, Removed(k), UNCHANGED <<now, published, rotated>>
    PROVE  entries' \in [Keys -> EntryRecords] /\ \A j \in Keys : EntryInv(j)'
  <1>1. NoEntry \in EntryRecords
    BY DEF NoEntry, EntryRecords
  <1>2. entries' \in [Keys -> EntryRecords]
    BY <1>1 DEF Removed, CacheInv
  <1>3. ASSUME NEW j \in Keys PROVE entries'[j] = NoEntry \/ entries'[j] = entries[j]
    BY DEF Removed, CacheInv
  <1> QED
    BY <1>2, <1>3 DEF EntryInv, CacheInv

(* A key that is stored was current after the fetch began, a timeout ago at *)
(* most; an evicted entry is gone.                                          *)
LEMMA EntryStored ==
    ASSUME CacheInv, NEW k \in Keys, NEW g, NEW t \in Nat,
           Stored(k, g), UNCHANGED <<now, published, rotated>>,
           CurrentSince(k, g, t), now <= t + FetchTimeout
    PROVE  entries' \in [Keys -> EntryRecords] /\ \A j \in Keys : EntryInv(j)'
  <1> DEFINE new == [material |-> g, expires |-> now + TTL]
  <1>1. now \in Nat /\ TTL \in Nat /\ FetchTimeout \in Nat /\ MaxRotations \in Nat
    BY CacheAssumption DEF CacheInv
  <1>2. published[k] \in Generations /\ g \in Generations
    BY <1>1 DEF CacheInv, CurrentSince, Generations
  <1>3. new \in EntryRecords
    BY <1>1, <1>2 DEF EntryRecords
  <1>4. NoEntry \in EntryRecords
    BY DEF NoEntry, EntryRecords
  <1>5. entries' = [j \in Keys |-> IF j = k THEN new
                                   ELSE IF j \in Evicted(k) THEN NoEntry ELSE entries[j]]
    BY DEF Stored
  <1> HIDE DEF new
  <1>6. entries' \in [Keys -> EntryRecords]
    BY <1>3, <1>4, <1>5 DEF CacheInv
  <1>7. ASSUME NEW j \in Keys, j # k PROVE EntryInv(j)'
    <2>1. entries'[j] = NoEntry \/ entries'[j] = entries[j]
      BY <1>5, <1>7
    <2> QED
      BY <2>1 DEF EntryInv, CacheInv
  <1>8. EntryInv(k)'
    <2>1. entries'[k] = new
      BY <1>5
    <2>2. g \in 0..published[k] /\ (g = published[k] \/ t <= rotated[k][g + 1])
      BY DEF CurrentSince
    <2>3. g # published[k] => rotated[k][g + 1] \in Nat
      BY <2>2, <1>1, <1>2 DEF CacheInv, Generations
    <2>4. g # published[k] => now + TTL <= rotated[k][g + 1] + FetchTimeout + TTL
      BY <2>2, <2>3, <1>1
    <2> QED
      BY <2>1, <2>2, <2>4, <1>1 DEF EntryInv, new
  <1> QED
    BY <1>6, <1>7, <1>8

-----------------------------------------------------------------------------
(* The calls. *)

LEMMA OtherCalls ==
    ASSUME CacheInv, NEW c \in Callers, NEW call, NEW d \in Callers,
           calls' = [calls EXCEPT ![c] = call], UNCHANGED <<now, published, rotated>>
    PROVE  /\ DOMAIN calls' = Callers
           /\ calls'[c] = call
           /\ d # c => CallInv(d)'
  <1>1. DOMAIN calls' = Callers /\ calls'[c] = call /\ (d # c => calls'[d] = calls[d])
    BY DEF CacheInv
  <1>2. CallInv(d)
    BY DEF CacheInv
  <1>3. d # c => CallInv(d)'
    BY <1>1, <1>2 DEF CallInv, CurrentSince
  <1> QED
    BY <1>1, <1>3

LEMMA EndKeeps ==
    ASSUME CacheInv, NEW c \in Callers, NEW result, End(c, result),
           entries' \in [Keys -> EntryRecords], \A k \in Keys : EntryInv(k)'
    PROVE  CacheInv'
  <1>1. calls' = [calls EXCEPT ![c] = NoCall] /\ UNCHANGED <<now, published, rotated>>
    BY DEF End
  <1>2. ASSUME NEW d \in Callers PROVE DOMAIN calls' = Callers /\ CallInv(d)'
    <2>1. DOMAIN calls' = Callers /\ calls'[c] = NoCall /\ (d # c => CallInv(d)')
      BY <1>1, OtherCalls
    <2> QED
      BY <2>1 DEF CallInv
  <1> QED
    BY <1>1, <1>2 DEF CacheInv

LEMMA ContinueKeeps ==
    ASSUME CacheInv, NEW c \in Callers, NEW call, Continue(c, call),
           entries' \in [Keys -> EntryRecords], \A k \in Keys : EntryInv(k)',
           call \in CallRecords, call.started <= now, now <= call.started + FetchTimeout,
           call.purpose = "key" => call.subject \in Keys,
           call.stage = "dial" => call.left \subseteq Public,
           call.stage = "connected" => call.address \in Public,
           call.stage = "store" => /\ call.purpose = "key"
                                   /\ CurrentSince(call.subject, call.material, call.started)
    PROVE  CacheInv'
  <1>1. calls' = [calls EXCEPT ![c] = call] /\ UNCHANGED <<now, published, rotated>>
    BY DEF Continue
  <1>2. ASSUME NEW d \in Callers PROVE DOMAIN calls' = Callers /\ CallInv(d)'
    <2>1. DOMAIN calls' = Callers /\ calls'[c] = call /\ (d # c => CallInv(d)')
      BY <1>1, OtherCalls
    <2>2. CallInv(c)'
      BY <2>1, <1>1 DEF CallInv, CurrentSince
    <2> QED
      BY <2>1, <2>2
  <1> QED
    BY <1>1, <1>2 DEF CacheInv

-----------------------------------------------------------------------------
(* The results. *)

(* What PolicyHonest says of the result of a call. *)
HonestResult(r) ==
    /\ r.diagnosis \in Diagnostics
    /\ r.diagnosis \in Policy => r.met
    /\ r.met => r.diagnosis \in Policy \cup {<<"actor", "invalid_document">>}
    /\ ~r.ok => ("network_target" \in r.sentinels <=> r.met)
    /\ ~r.ok /\ "canceled" \notin r.sentinels => r.diagnosis # Undiagnosed

(* What KeyFresh says of it. *)
GivesNoKey(r) == ~ (r.purpose = "key" /\ r.ok)

LEMMA AnswerKeyless ==
    ASSUME ~answer'.ended \/ (HonestResult(answer') /\ GivesNoKey(answer'))
    PROVE  KeyFresh' /\ (answer'.ended => HonestResult(answer'))
  BY DEF KeyFresh, GivesNoKey

LEMMA RefusedHonest ==
    ASSUME NEW call, NEW sentinels, NEW diagnosis \in Diagnostics, NEW met \in BOOLEAN,
           diagnosis \in Policy => met,
           met => diagnosis \in Policy \cup {<<"actor", "invalid_document">>},
           "network_target" \in sentinels <=> met,
           "canceled" \notin sentinels => diagnosis # Undiagnosed
    PROVE  HonestResult(Refused(call, sentinels, diagnosis, met))
           /\ GivesNoKey(Refused(call, sentinels, diagnosis, met))
  BY DEF HonestResult, GivesNoKey, Refused, Done

LEMMA NetworkFailedHonest ==
    ASSUME NEW call, NEW err, NEW met \in BOOLEAN,
           ClassifyNetworkFailure(err) \in Diagnostics \ {Undiagnosed},
           ClassifyNetworkFailure(err) \in Policy <=> met,
           "network_target" \in err.is <=> met
    PROVE  HonestResult(NetworkFailed(call, err, met)) /\ GivesNoKey(NetworkFailed(call, err, met))
  <1> DEFINE diagnosis == ClassifyNetworkFailure(err)
             sentinels == RedactedActorFetchError(err)
  <1>1. CASE call.purpose = "inbox"
    <2>1. NetworkFailed(call, err, met)
            = [Done(call.purpose, call.subject) EXCEPT
                  !.met = met, !.diagnosis = diagnosis, !.inbox = "unreachable"]
      BY <1>1 DEF NetworkFailed
    <2> HIDE DEF diagnosis
    <2>2. diagnosis \in Diagnostics /\ (diagnosis \in Policy <=> met)
      BY DEF diagnosis
    <2> QED
      BY <1>1, <2>1, <2>2 DEF HonestResult, GivesNoKey, Done
  <1>2. CASE call.purpose # "inbox"
    <2>1. "network_target" \in sentinels <=> met
      BY DEF RedactedActorFetchError
    <2>2. NetworkFailed(call, err, met) = Refused(call, sentinels, diagnosis, met)
      BY <1>2 DEF NetworkFailed
    <2> HIDE DEF diagnosis, sentinels
    <2>3. diagnosis \in Diagnostics /\ diagnosis # Undiagnosed /\ (diagnosis \in Policy <=> met)
      BY DEF diagnosis
    <2> QED
      BY <2>1, <2>2, <2>3, RefusedHonest
  <1> QED
    BY <1>1, <1>2

(* The failures of a fetch. *)

LEMMA LookupFailureHonest ==
    ASSUME NEW call, NEW kind \in DnsKinds
    PROVE  LET r == NetworkFailed(call, SafeFailure(<<"dns", kind>>), FALSE)
           IN  HonestResult(r) /\ GivesNoKey(r)
  <1> DEFINE err == SafeFailure(<<"dns", kind>>)
  <1>1. ClassifyNetworkFailure(err) = <<"dns", kind>> /\ err.is = {}
    BY DEF SafeFailure, ClassifyNetworkFailure, Undiagnosed, DnsKinds
  <1>2. <<"dns", kind>> \in Diagnostics \ {Undiagnosed} /\ <<"dns", kind>> \notin Policy
    BY DEF Diagnostics, Undiagnosed, Policy, DnsKinds
  <1> HIDE DEF err
  <1>3. HonestResult(NetworkFailed(call, err, FALSE)) /\ GivesNoKey(NetworkFailed(call, err, FALSE))
    BY <1>1, <1>2, NetworkFailedHonest
  <1> QED
    BY <1>3 DEF err

LEMMA DialFailureHonest ==
    ASSUME NEW call, NEW kind \in DialKinds
    PROVE  LET r == NetworkFailed(call, SafeFailure(<<"connect", kind>>), FALSE)
           IN  HonestResult(r) /\ GivesNoKey(r)
  <1> DEFINE err == SafeFailure(<<"connect", kind>>)
  <1>1. ClassifyNetworkFailure(err) = <<"connect", kind>> /\ err.is = {}
    BY DEF SafeFailure, ClassifyNetworkFailure, Undiagnosed, DialKinds
  <1>2. <<"connect", kind>> \in Diagnostics \ {Undiagnosed} /\ <<"connect", kind>> \notin Policy
    BY DEF Diagnostics, Undiagnosed, Policy, DialKinds
  <1> HIDE DEF err
  <1>3. HonestResult(NetworkFailed(call, err, FALSE)) /\ GivesNoKey(NetworkFailed(call, err, FALSE))
    BY <1>1, <1>2, NetworkFailedHonest
  <1> QED
    BY <1>3 DEF err

LEMMA TlsFailureHonest ==
    ASSUME NEW call, NEW kind \in TlsKinds
    PROVE  LET r == NetworkFailed(call, SafeFailure(<<"tls", kind>>), FALSE)
           IN  HonestResult(r) /\ GivesNoKey(r)
  <1> DEFINE err == SafeFailure(<<"tls", kind>>)
  <1>1. ClassifyNetworkFailure(err) = <<"tls", kind>> /\ err.is = {}
    BY DEF SafeFailure, ClassifyNetworkFailure, Undiagnosed, TlsKinds
  <1>2. <<"tls", kind>> \in Diagnostics \ {Undiagnosed} /\ <<"tls", kind>> \notin Policy
    BY DEF Diagnostics, Undiagnosed, Policy, TlsKinds
  <1> HIDE DEF err
  <1>3. HonestResult(NetworkFailed(call, err, FALSE)) /\ GivesNoKey(NetworkFailed(call, err, FALSE))
    BY <1>1, <1>2, NetworkFailedHonest
  <1> QED
    BY <1>3 DEF err

LEMMA PlainFailureHonest ==
    ASSUME NEW call, NEW is \in {{}, {"deadline"}}
    PROVE  LET r == NetworkFailed(call, Failure(is), FALSE)
           IN  HonestResult(r) /\ GivesNoKey(r)
  <1> DEFINE err == Failure(is)
  <1>1. ClassifyNetworkFailure(err) \in {<<"network", "timeout">>, <<"network", "error">>}
    BY DEF Failure, ClassifyNetworkFailure
  <1>2. "network_target" \notin err.is
    BY DEF Failure
  <1>3. \A k \in {"timeout", "error"} : /\ <<"network", k>> \in Diagnostics \ {Undiagnosed}
                                        /\ <<"network", k>> \notin Policy
    BY DEF Diagnostics, Undiagnosed, Policy
  <1> HIDE DEF err
  <1>4. /\ ClassifyNetworkFailure(err) \in Diagnostics \ {Undiagnosed}
        /\ ClassifyNetworkFailure(err) \notin Policy
    BY <1>1, <1>3
  <1>5. HonestResult(NetworkFailed(call, err, FALSE)) /\ GivesNoKey(NetworkFailed(call, err, FALSE))
    BY <1>2, <1>4, NetworkFailedHonest
  <1> QED
    BY <1>5 DEF err

LEMMA RedirectFailureHonest ==
    ASSUME NEW call
    PROVE  LET r == NetworkFailed(call, Failure({"network_target", "redirect_rejected"}), TRUE)
           IN  HonestResult(r) /\ GivesNoKey(r)
  <1> DEFINE err == Failure({"network_target", "redirect_rejected"})
  <1>1. ClassifyNetworkFailure(err) = <<"redirect", "rejected">> /\ "network_target" \in err.is
    BY DEF Failure, ClassifyNetworkFailure
  <1>2. <<"redirect", "rejected">> \in Diagnostics \ {Undiagnosed}
        /\ <<"redirect", "rejected">> \in Policy
    BY DEF Diagnostics, Undiagnosed, Policy
  <1> HIDE DEF err
  <1>3. HonestResult(NetworkFailed(call, err, TRUE)) /\ GivesNoKey(NetworkFailed(call, err, TRUE))
    BY <1>1, <1>2, NetworkFailedHonest
  <1> QED
    BY <1>3 DEF err

LEMMA AnswerFailureHonest ==
    ASSUME NEW call, NEW addresses, ~Usable(addresses)
    PROVE  LET r == NetworkFailed(call, AnswerFailure(addresses), addresses # <<>>)
           IN  HonestResult(r) /\ GivesNoKey(r)
  <1> DEFINE err == AnswerFailure(addresses)
             met == addresses # <<>>
  <1>1. CASE addresses = <<>>
    <2>1. err = SafeFailure(<<"dns", "no_address">>)
      BY <1>1 DEF AnswerFailure
    <2>2. ClassifyNetworkFailure(err) = <<"dns", "no_address">> /\ err.is = {}
      BY <2>1 DEF SafeFailure, ClassifyNetworkFailure, Undiagnosed
    <2>3. <<"dns", "no_address">> \in Diagnostics \ {Undiagnosed}
          /\ <<"dns", "no_address">> \notin Policy
      BY DEF Diagnostics, Undiagnosed, Policy
    <2> HIDE DEF err
    <2>4. HonestResult(NetworkFailed(call, err, FALSE)) /\ GivesNoKey(NetworkFailed(call, err, FALSE))
      BY <2>2, <2>3, NetworkFailedHonest
    <2>5. met = FALSE
      BY <1>1
    <2> QED
      BY <2>4, <2>5 DEF err
  <1>2. CASE addresses # <<>>
    <2>1. err = Failure({"network_target", "dns_policy"}) \/ err = SafeFailure(<<"dns", "policy">>)
      BY <1>2 DEF AnswerFailure
    <2> HIDE DEF err
    <2>a. ASSUME err = Failure({"network_target", "dns_policy"})
          PROVE  ClassifyNetworkFailure(err) = <<"dns", "policy">> /\ "network_target" \in err.is
      <3>1. err.is = {"network_target", "dns_policy"} /\ err.diagnosis = Undiagnosed
        BY <2>a DEF Failure
      <3> QED
        BY <3>1 DEF ClassifyNetworkFailure
    <2>b. ASSUME err = SafeFailure(<<"dns", "policy">>)
          PROVE  ClassifyNetworkFailure(err) = <<"dns", "policy">> /\ "network_target" \in err.is
      <3>1. err.is = {"network_target"} /\ err.diagnosis = <<"dns", "policy">>
        BY <2>b DEF SafeFailure
      <3>2. <<"dns", "policy">> # Undiagnosed
        BY DEF Undiagnosed
      <3> QED
        BY <3>1, <3>2 DEF ClassifyNetworkFailure
    <2>2. ClassifyNetworkFailure(err) = <<"dns", "policy">> /\ "network_target" \in err.is
      BY <2>1, <2>a, <2>b
    <2>3. <<"dns", "policy">> \in Diagnostics \ {Undiagnosed} /\ <<"dns", "policy">> \in Policy
      BY DEF Diagnostics, Undiagnosed, Policy
    <2> HIDE DEF err
    <2>4. HonestResult(NetworkFailed(call, err, TRUE)) /\ GivesNoKey(NetworkFailed(call, err, TRUE))
      BY <2>2, <2>3, NetworkFailedHonest
    <2>5. met = TRUE
      BY <1>2
    <2> QED
      BY <2>4, <2>5 DEF err
  <1> QED
    BY <1>1, <1>2

-----------------------------------------------------------------------------
(* The steps of a call.  Each keeps CacheInv, and leaves a result that is   *)
(* honest, and fresh when it gives a key.                                   *)

StepSound == CacheInv' /\ KeyFresh' /\ (answer'.ended => HonestResult(answer'))

LEMMA EndSound ==
    ASSUME CacheInv, NEW c \in Callers, NEW r, End(c, r), UNCHANGED cacheVars,
           HonestResult(r), GivesNoKey(r)
    PROVE  StepSound
  <1>1. UNCHANGED <<now, published, rotated, entries>> /\ answer' = r
    BY DEF End, cacheVars
  <1>2. CacheInv'
    BY <1>1, EntriesUnchanged, EndKeeps
  <1> QED
    BY <1>1, <1>2, AnswerKeyless DEF StepSound

LEMMA ContinueSound ==
    ASSUME CacheInv, NEW c \in Callers, NEW call, Continue(c, call), CacheInv'
    PROVE  StepSound
  BY AnswerKeyless DEF Continue, StepSound, Unanswered

LEMMA Active ==
    ASSUME CacheInv, NEW c \in Callers, calls[c].stage \in Stages
    PROVE  /\ calls[c] \in CallRecords
           /\ calls[c].started <= now
           /\ now <= calls[c].started + FetchTimeout
           /\ calls[c].purpose = "key" => calls[c].subject \in Keys
           /\ calls[c].stage = "dial" => calls[c].left \subseteq Public
           /\ calls[c].stage = "connected" => calls[c].address \in Public
           /\ calls[c].stage = "store" =>
                 /\ calls[c].purpose = "key"
                 /\ CurrentSince(calls[c].subject, calls[c].material, calls[c].started)
  <1>1. calls[c] # NoCall
    BY DEF NoCall, Stages
  <1> QED
    BY <1>1 DEF CacheInv, CallInv

LEMMA FetchingCall ==
    ASSUME CacheInv, NEW purpose \in Purposes, NEW subject \in Keys \cup Targets
    PROVE  /\ Fetching(purpose, subject) \in CallRecords
           /\ Fetching(purpose, subject).started = now
           /\ Fetching(purpose, subject).stage = "lookup"
           /\ Fetching(purpose, subject).purpose = purpose
           /\ Fetching(purpose, subject).subject = subject
           /\ now <= now + FetchTimeout
  <1>1. now \in Nat /\ FetchTimeout \in Nat
    BY CacheAssumption DEF CacheInv
  <1> QED
    BY <1>1 DEF Fetching, CallRecords, Stages

(* An entry that is hit is fresh: it expires later than now. *)
LEMMA HitFresh ==
    ASSUME CacheInv, NEW k \in Keys, Fresh(k)
    PROVE  \/ entries[k].material = published[k]
           \/ now < rotated[k][entries[k].material + 1] + FetchTimeout + TTL
  <1>1. entries[k] # NoEntry /\ now < entries[k].expires
    BY DEF Fresh, Held
  <1>2. /\ entries[k].material \in 0..published[k]
        /\ \/ entries[k].material = published[k]
           \/ entries[k].expires <= rotated[k][entries[k].material + 1] + FetchTimeout + TTL
    BY <1>1 DEF CacheInv, EntryInv
  <1>3. now \in Nat /\ entries[k].expires \in Nat /\ FetchTimeout \in Nat /\ TTL \in Nat
        /\ published[k] \in Generations /\ MaxRotations \in Nat
    BY CacheAssumption DEF CacheInv, EntryRecords
  <1>4. entries[k].material # published[k] => rotated[k][entries[k].material + 1] \in Nat
    BY <1>2, <1>3 DEF CacheInv, Generations
  <1> QED
    BY <1>1, <1>2, <1>3, <1>4

(* The result that gives a key. *)
LEMMA KeySound ==
    ASSUME CacheInv, NEW c \in Callers, NEW k \in Keys, NEW g,
           End(c, [Done("key", k) EXCEPT !.material = g]),
           entries' \in [Keys -> EntryRecords], \A j \in Keys : EntryInv(j)',
           g = published[k] \/ now < rotated[k][g + 1] + FetchTimeout + TTL
    PROVE  StepSound
  <1> DEFINE r == [Done("key", k) EXCEPT !.material = g]
  <1>1. CacheInv'
    BY EndKeeps
  <1>2. r.ended /\ r.ok /\ ~r.met /\ r.subject = k /\ r.material = g /\ r.diagnosis = Undiagnosed
    BY DEF Done
  <1>3. answer' = r /\ UNCHANGED <<now, published, rotated>>
    BY DEF End
  <1> HIDE DEF r
  <1>4. KeyFresh'
    BY <1>2, <1>3 DEF KeyFresh
  <1>5. HonestResult(r)
    <2>1. Undiagnosed \in Diagnostics /\ Undiagnosed \notin Policy
      BY DEF Diagnostics, Undiagnosed, Policy
    <2> QED
      BY <2>1, <1>2 DEF HonestResult
  <1> QED
    BY <1>1, <1>3, <1>4, <1>5 DEF StepSound

LEMMA ResolveKeySound ==
    ASSUME CacheInv, NEW c \in Callers, NEW k \in Keys, ResolveKey(c, k)
    PROVE  StepSound
  <1>1. CASE Fresh(k) /\ Hit(k) /\ End(c, [Done("key", k) EXCEPT !.material = entries[k].material])
    <2>1. UNCHANGED <<now, published, rotated, entries>>
      BY <1>1 DEF End, Hit
    <2>2. entries' \in [Keys -> EntryRecords] /\ \A j \in Keys : EntryInv(j)'
      BY <2>1, EntriesUnchanged
    <2> DEFINE g == entries[k].material
    <2>3. g = published[k] \/ now < rotated[k][g + 1] + FetchTimeout + TTL
      BY <1>1, HitFresh
    <2>4. End(c, [Done("key", k) EXCEPT !.material = g])
      BY <1>1
    <2> HIDE DEF g
    <2> QED
      BY <2>2, <2>3, <2>4, KeySound
  <1>2. CASE /\ IF k \in Held THEN Removed(k) ELSE UNCHANGED cacheVars
             /\ Continue(c, Fetching("key", k))
    <2>1. UNCHANGED <<now, published, rotated>>
      BY <1>2 DEF Continue
    <2>2. entries' \in [Keys -> EntryRecords] /\ \A j \in Keys : EntryInv(j)'
      BY <1>2, <2>1, EntriesUnchanged, EntryRemoved DEF cacheVars
    <2> DEFINE call == Fetching("key", k)
    <2>3. /\ call \in CallRecords /\ call.started = now /\ call.stage = "lookup"
          /\ call.purpose = "key" /\ call.subject = k /\ now <= now + FetchTimeout
      BY FetchingCall DEF Purposes
    <2>4. now <= now
      BY DEF CacheInv
    <2> HIDE DEF call
    <2>5. Continue(c, call)
      BY <1>2 DEF call
    <2>6. CacheInv'
      BY <2>2, <2>3, <2>4, <2>5, ContinueKeeps
    <2> QED
      BY <2>5, <2>6, ContinueSound
  <1> QED
    BY <1>1, <1>2 DEF ResolveKey

LEMMA ProbeSound ==
    ASSUME CacheInv, NEW c \in Callers, NEW purpose \in {"actor", "inbox"},
           NEW target \in Targets, Probe(c, purpose, target)
    PROVE  StepSound
  <1> UNCHANGED cacheVars
    BY DEF Probe
  <1>1. CASE Continue(c, Fetching(purpose, target))
    <2>1. UNCHANGED <<now, published, rotated, entries>>
      BY <1>1 DEF Continue, cacheVars
    <2>2. entries' \in [Keys -> EntryRecords] /\ \A j \in Keys : EntryInv(j)'
      BY <2>1, EntriesUnchanged
    <2> DEFINE call == Fetching(purpose, target)
    <2>3. /\ call \in CallRecords /\ call.started = now /\ call.stage = "lookup"
          /\ call.purpose = purpose /\ call.subject = target /\ now <= now + FetchTimeout
      BY FetchingCall DEF Purposes
    <2>4. now <= now
      BY DEF CacheInv
    <2> HIDE DEF call
    <2>5. Continue(c, call)
      BY <1>1 DEF call
    <2>6. CacheInv'
      BY <2>2, <2>3, <2>4, <2>5, ContinueKeeps
    <2> QED
      BY <2>5, <2>6, ContinueSound
  <1> DEFINE r(sentinel, diagnosis, met) ==
               [Done(purpose, target) EXCEPT !.ok = FALSE, !.met = met,
                   !.sentinels = {sentinel}, !.diagnosis = diagnosis]
  <1>2. ASSUME End(c, r("network_target", <<"policy", "prohibited_target">>, TRUE))
        PROVE  StepSound
    <2> DEFINE s == r("network_target", <<"policy", "prohibited_target">>, TRUE)
    <2>1. /\ s.diagnosis = <<"policy", "prohibited_target">> /\ s.met = TRUE /\ s.ok = FALSE
          /\ s.sentinels = {"network_target"}
      BY DEF Done
    <2>2. /\ <<"policy", "prohibited_target">> \in Diagnostics
          /\ <<"policy", "prohibited_target">> \in Policy
          /\ <<"policy", "prohibited_target">> # Undiagnosed
      BY DEF Diagnostics, Policy, Undiagnosed
    <2> HIDE DEF s
    <2>3. HonestResult(s) /\ GivesNoKey(s)
      BY <2>1, <2>2 DEF HonestResult, GivesNoKey
    <2>4. End(c, s)
      BY <1>2 DEF s
    <2> QED
      BY <2>3, <2>4, EndSound
  <1>3. ASSUME End(c, r("actor_document", Noncanonical(purpose), FALSE))
        PROVE  StepSound
    <2> DEFINE s == r("actor_document", Noncanonical(purpose), FALSE)
    <2>1. /\ s.diagnosis = Noncanonical(purpose) /\ s.met = FALSE /\ s.ok = FALSE
          /\ s.sentinels = {"actor_document"}
      BY DEF Done
    <2>2. /\ Noncanonical(purpose) \in Diagnostics
          /\ Noncanonical(purpose) \notin Policy
          /\ Noncanonical(purpose) # Undiagnosed
      BY DEF Diagnostics, Policy, Undiagnosed, Noncanonical
    <2> HIDE DEF s
    <2>3. HonestResult(s) /\ GivesNoKey(s)
      BY <2>1, <2>2 DEF HonestResult, GivesNoKey
    <2>4. End(c, s)
      BY <1>3 DEF s
    <2> QED
      BY <2>3, <2>4, EndSound
  <1> QED
    BY <1>1, <1>2, <1>3 DEF Probe

(* A call under way that goes on with other fields, its purpose, subject    *)
(* and beginning kept.                                                      *)
LEMMA CallGoesOn ==
    ASSUME CacheInv, NEW c \in Callers, calls[c].stage \in Stages, NEW call \in CallRecords,
           call.started = calls[c].started, call.purpose = calls[c].purpose,
           call.subject = calls[c].subject,
           call.stage = "dial" => call.left \subseteq Public,
           call.stage = "connected" => call.address \in Public,
           call.stage = "store" => /\ call.purpose = "key"
                                   /\ CurrentSince(call.subject, call.material, call.started),
           Continue(c, call), UNCHANGED cacheVars
    PROVE  StepSound
  <1>1. UNCHANGED <<now, published, rotated, entries>>
    BY DEF Continue, cacheVars
  <1>2. entries' \in [Keys -> EntryRecords] /\ \A j \in Keys : EntryInv(j)'
    BY <1>1, EntriesUnchanged
  <1>3. /\ call.started <= now
        /\ now <= call.started + FetchTimeout
        /\ call.purpose = "key" => call.subject \in Keys
    BY Active
  <1>4. CacheInv'
    BY <1>2, <1>3, ContinueKeeps
  <1> QED
    BY <1>4, ContinueSound

LEMMA LookupSound ==
    ASSUME CacheInv, NEW c \in Callers, NEW addresses \in Answers, Lookup(c, addresses)
    PROVE  StepSound
  <1>1. calls[c].stage \in Stages /\ UNCHANGED cacheVars
    BY DEF Lookup, Stages
  <1>2. CASE Usable(addresses)
    <2> DEFINE left == Approved(addresses)
               call == [calls[c] EXCEPT !.stage = "dial", !.left = left]
    <2>1. left \subseteq Public /\ left \subseteq Addresses
      BY <1>2, NetworkAssumption DEF Usable, Prohibited, Approved, ToSet
    <2>2. Continue(c, call)
      BY <1>2 DEF Lookup
    <2>3. calls[c] \in CallRecords
      BY <1>1, Active
    <2> HIDE DEF left
    <2>4. /\ call \in CallRecords /\ call.stage = "dial" /\ call.left = left
          /\ call.started = calls[c].started /\ call.purpose = calls[c].purpose
          /\ call.subject = calls[c].subject
      BY <2>1, <2>3 DEF CallRecords, Stages
    <2> HIDE DEF call
    <2> QED
      BY <1>1, <2>1, <2>2, <2>4, CallGoesOn
  <1>3. CASE ~Usable(addresses)
    <2> DEFINE r == NetworkFailed(calls[c], AnswerFailure(addresses), addresses # <<>>)
    <2>1. End(c, r)
      BY <1>3 DEF Lookup
    <2>2. HonestResult(r) /\ GivesNoKey(r)
      BY <1>3, AnswerFailureHonest
    <2> HIDE DEF r
    <2> QED
      BY <1>1, <2>1, <2>2, EndSound
  <1> QED
    BY <1>2, <1>3

LEMMA LookupFailsSound ==
    ASSUME CacheInv, NEW c \in Callers, NEW kind \in DnsKinds, LookupFails(c, kind)
    PROVE  StepSound
  <1> DEFINE r == NetworkFailed(calls[c], SafeFailure(<<"dns", kind>>), FALSE)
  <1>1. End(c, r) /\ UNCHANGED cacheVars
    BY DEF LookupFails
  <1>2. HonestResult(r) /\ GivesNoKey(r)
    BY LookupFailureHonest
  <1> HIDE DEF r
  <1> QED
    BY <1>1, <1>2, EndSound

LEMMA DialSound ==
    ASSUME CacheInv, NEW c \in Callers, NEW a \in Addresses, Dial(c, a)
    PROVE  StepSound
  <1> DEFINE call == [calls[c] EXCEPT !.stage = "connected", !.left = {}, !.address = a]
  <1>1. calls[c].stage \in Stages /\ UNCHANGED cacheVars /\ Continue(c, call)
    BY DEF Dial, Stages
  <1>2. calls[c] \in CallRecords /\ a \in Public
    BY <1>1, Active DEF Dial
  <1>3. /\ call \in CallRecords /\ call.stage = "connected" /\ call.address = a
        /\ call.started = calls[c].started /\ call.purpose = calls[c].purpose
        /\ call.subject = calls[c].subject
    BY <1>2 DEF CallRecords, Stages
  <1> HIDE DEF call
  <1> QED
    BY <1>1, <1>2, <1>3, CallGoesOn

LEMMA DialFailsSound ==
    ASSUME CacheInv, NEW c \in Callers, NEW a \in Addresses, NEW kind \in DialKinds,
           DialFails(c, a, kind)
    PROVE  StepSound
  <1>1. calls[c].stage = "dial" /\ calls[c].stage \in Stages /\ UNCHANGED cacheVars
    BY DEF DialFails, Stages
  <1>2. CASE calls[c].left = {a}
    <2> DEFINE r == NetworkFailed(calls[c], SafeFailure(<<"connect", kind>>), FALSE)
    <2>1. End(c, r)
      BY <1>2 DEF DialFails
    <2>2. HonestResult(r) /\ GivesNoKey(r)
      BY DialFailureHonest
    <2> HIDE DEF r
    <2> QED
      BY <1>1, <2>1, <2>2, EndSound
  <1>3. CASE calls[c].left # {a}
    <2> DEFINE call == [calls[c] EXCEPT !.left = @ \ {a}]
    <2>1. Continue(c, call)
      BY <1>3 DEF DialFails
    <2>2. calls[c] \in CallRecords /\ calls[c].left \subseteq Public
      BY <1>1, Active
    <2>3. /\ call \in CallRecords /\ call.stage = "dial" /\ call.left \subseteq Public
          /\ call.started = calls[c].started /\ call.purpose = calls[c].purpose
          /\ call.subject = calls[c].subject
      BY <1>1, <2>2 DEF CallRecords, Stages
    <2> HIDE DEF call
    <2> QED
      BY <1>1, <2>1, <2>3, CallGoesOn
  <1> QED
    BY <1>2, <1>3

LEMMA ExchangeFailsSound ==
    ASSUME CacheInv, NEW c \in Callers,
           \/ \E kind \in TlsKinds : ExchangeFails(c, SafeFailure(<<"tls", kind>>))
           \/ ExchangeFails(c, Failure({}))
    PROVE  StepSound
  <1>1. ASSUME NEW kind \in TlsKinds, ExchangeFails(c, SafeFailure(<<"tls", kind>>))
        PROVE  StepSound
    <2> DEFINE r == NetworkFailed(calls[c], SafeFailure(<<"tls", kind>>), FALSE)
    <2>1. End(c, r) /\ UNCHANGED cacheVars
      BY <1>1 DEF ExchangeFails
    <2>2. HonestResult(r) /\ GivesNoKey(r)
      BY TlsFailureHonest
    <2> HIDE DEF r
    <2> QED
      BY <2>1, <2>2, EndSound
  <1>2. ASSUME ExchangeFails(c, Failure({})) PROVE StepSound
    <2> DEFINE r == NetworkFailed(calls[c], Failure({}), FALSE)
    <2>1. End(c, r) /\ UNCHANGED cacheVars
      BY <1>2 DEF ExchangeFails
    <2>a. {} \in {{}, {"deadline"}}
      OBVIOUS
    <2>2. HonestResult(r) /\ GivesNoKey(r)
      BY <2>a, PlainFailureHonest
    <2> HIDE DEF r
    <2> QED
      BY <2>1, <2>2, EndSound
  <1> QED
    BY <1>1, <1>2

LEMMA RedirectSound ==
    ASSUME CacheInv, NEW c \in Callers, NEW target \in Targets, Redirect(c, target)
    PROVE  StepSound
  <1>1. calls[c].stage \in Stages /\ UNCHANGED cacheVars
    BY DEF Redirect, Stages
  <1>2. CASE RedirectAllowed(target, calls[c].hops)
    <2> DEFINE hops == calls[c].hops + 1
               call == [calls[c] EXCEPT !.stage = "lookup", !.hops = hops, !.address = NoAddress]
    <2>1. Continue(c, call)
      BY <1>2 DEF Redirect
    <2>2. calls[c] \in CallRecords
      BY <1>1, Active
    <2>a. hops \in Nat
      BY <2>2 DEF CallRecords
    <2> HIDE DEF hops
    <2>3. /\ call \in CallRecords /\ call.stage = "lookup"
          /\ call.started = calls[c].started /\ call.purpose = calls[c].purpose
          /\ call.subject = calls[c].subject
      BY <2>2, <2>a DEF CallRecords, Stages
    <2> HIDE DEF call
    <2> QED
      BY <1>1, <2>1, <2>3, CallGoesOn
  <1>3. CASE ~RedirectAllowed(target, calls[c].hops)
    <2> DEFINE r == NetworkFailed(calls[c], Failure({"network_target", "redirect_rejected"}), TRUE)
    <2>1. End(c, r)
      BY <1>3 DEF Redirect
    <2>2. HonestResult(r) /\ GivesNoKey(r)
      BY RedirectFailureHonest
    <2> HIDE DEF r
    <2> QED
      BY <1>1, <2>1, <2>2, EndSound
  <1> QED
    BY <1>2, <1>3

LEMMA UnusableSound ==
    ASSUME CacheInv, NEW c \in Callers, NEW fault \in Faults, Unusable(c, fault)
    PROVE  StepSound
  <1>1. UNCHANGED cacheVars
    BY DEF Unusable
  <1>2. CASE calls[c].purpose = "inbox"
    <2> DEFINE r == [Done("inbox", calls[c].subject) EXCEPT
                       !.inbox = InboxState(fault), !.diagnosis = InboxDiagnostic(fault)]
    <2>1. End(c, r)
      BY <1>2 DEF Unusable
    <2>2. r.ok = TRUE /\ r.met = FALSE /\ r.purpose = "inbox" /\ r.diagnosis = InboxDiagnostic(fault)
      BY DEF Done
    <2>3. InboxDiagnostic(fault) \in Diagnostics /\ InboxDiagnostic(fault) \notin Policy
      BY DEF InboxDiagnostic, Diagnostics, Policy
    <2> HIDE DEF r
    <2>4. HonestResult(r) /\ GivesNoKey(r)
      BY <2>2, <2>3 DEF HonestResult, GivesNoKey
    <2> QED
      BY <1>1, <2>1, <2>4, EndSound
  <1>3. CASE calls[c].purpose # "inbox"
    <2> DEFINE d == ActorDiagnostic(fault)
               r == Refused(calls[c], {"actor_fetch"}, d, FALSE)
    <2>1. End(c, r)
      BY <1>3 DEF Unusable
    <2>2. d \in {"actor"} \X {"http_status", "content_type", "invalid_document", "invalid_response"}
      BY DEF ActorDiagnostic, Faults
    <2> HIDE DEF d
    <2>3. d \in Diagnostics /\ d \notin Policy /\ d # Undiagnosed
      <3>1. \A k \in {"http_status", "content_type", "invalid_document", "invalid_response"} :
                 /\ <<"actor", k>> \in Diagnostics
                 /\ <<"actor", k>> \notin Policy
                 /\ <<"actor", k>> # Undiagnosed
        BY DEF Diagnostics, Policy, Undiagnosed
      <3>2. \E k \in {"http_status", "content_type", "invalid_document", "invalid_response"} :
                 d = <<"actor", k>>
        BY <2>2
      <3> QED
        BY <3>1, <3>2
    <2>4. "network_target" \notin {"actor_fetch"}
      OBVIOUS
    <2>5. HonestResult(r) /\ GivesNoKey(r)
      BY <2>3, <2>4, RefusedHonest
    <2> HIDE DEF r
    <2> QED
      BY <1>1, <2>1, <2>5, EndSound
  <1> QED
    BY <1>2, <1>3

LEMMA ReceiveSound ==
    ASSUME CacheInv, NEW c \in Callers, NEW d \in Documents, Receive(c, d)
    PROVE  StepSound
  <1>1. calls[c].stage \in Stages /\ UNCHANGED cacheVars
    BY DEF Receive, Stages
  <1>2. calls[c] \in CallRecords /\ (calls[c].purpose = "key" => calls[c].subject \in Keys)
    BY <1>1, Active
  <1>3. ASSUME End(c, [Done("inbox", calls[c].subject) EXCEPT
                          !.inbox = "responsive", !.diagnosis = <<"inbox", "http_status">>])
        PROVE  StepSound
    <2> DEFINE r == [Done("inbox", calls[c].subject) EXCEPT
                       !.inbox = "responsive", !.diagnosis = <<"inbox", "http_status">>]
    <2>1. r.ok = TRUE /\ r.met = FALSE /\ r.purpose = "inbox"
          /\ r.diagnosis = <<"inbox", "http_status">>
      BY DEF Done
    <2>2. <<"inbox", "http_status">> \in Diagnostics /\ <<"inbox", "http_status">> \notin Policy
      BY DEF Diagnostics, Policy
    <2> HIDE DEF r
    <2>3. HonestResult(r) /\ GivesNoKey(r)
      BY <2>1, <2>2 DEF HonestResult, GivesNoKey
    <2>4. End(c, r)
      BY <1>3 DEF r
    <2> QED
      BY <1>1, <2>3, <2>4, EndSound
  <1>4. ASSUME End(c, Done("actor", calls[c].subject)) PROVE StepSound
    <2> DEFINE r == Done("actor", calls[c].subject)
    <2>1. r.ok = TRUE /\ r.met = FALSE /\ r.purpose = "actor" /\ r.diagnosis = Undiagnosed
      BY DEF Done
    <2>2. Undiagnosed \in Diagnostics /\ Undiagnosed \notin Policy
      BY DEF Diagnostics, Policy, Undiagnosed
    <2> HIDE DEF r
    <2>3. HonestResult(r) /\ GivesNoKey(r)
      BY <2>1, <2>2 DEF HonestResult, GivesNoKey
    <2>4. End(c, r)
      BY <1>4 DEF r
    <2> QED
      BY <1>1, <2>3, <2>4, EndSound
  <1>5. /\ <<"actor", "invalid_document">> \in Diagnostics
        /\ <<"actor", "invalid_document">> \notin Policy
        /\ <<"actor", "invalid_document">> # Undiagnosed
    BY DEF Diagnostics, Policy, Undiagnosed
  <1>6. ASSUME End(c, Refused(calls[c], {"network_target"}, <<"actor", "invalid_document">>, TRUE))
        PROVE  StepSound
    <2> DEFINE r == Refused(calls[c], {"network_target"}, <<"actor", "invalid_document">>, TRUE)
    <2>1. "network_target" \in {"network_target"}
      OBVIOUS
    <2>2. HonestResult(r) /\ GivesNoKey(r)
      BY <1>5, <2>1, RefusedHonest
    <2> HIDE DEF r
    <2>3. End(c, r)
      BY <1>6 DEF r
    <2> QED
      BY <1>1, <2>2, <2>3, EndSound
  <1>7. ASSUME End(c, Refused(calls[c], {"actor_document"}, <<"actor", "invalid_document">>, FALSE))
        PROVE  StepSound
    <2> DEFINE r == Refused(calls[c], {"actor_document"}, <<"actor", "invalid_document">>, FALSE)
    <2>1. "network_target" \notin {"actor_document"}
      OBVIOUS
    <2>2. HonestResult(r) /\ GivesNoKey(r)
      BY <1>5, <2>1, RefusedHonest
    <2> HIDE DEF r
    <2>3. End(c, r)
      BY <1>7 DEF r
    <2> QED
      BY <1>1, <2>2, <2>3, EndSound
  <1>8. ASSUME calls[c].purpose = "key",
               Continue(c, [calls[c] EXCEPT !.stage = "store", !.address = NoAddress,
                                            !.material = published[calls[c].subject]])
        PROVE  StepSound
    <2> DEFINE g == published[calls[c].subject]
               call == [calls[c] EXCEPT !.stage = "store", !.address = NoAddress, !.material = g]
    <2>1. g \in Generations
      BY <1>2, <1>8 DEF CacheInv
    <2>2. CurrentSince(calls[c].subject, g, calls[c].started)
      BY <2>1, CacheAssumption DEF CurrentSince, Generations
    <2>3. Continue(c, call)
      BY <1>8
    <2> HIDE DEF g
    <2>4. /\ call \in CallRecords /\ call.stage = "store" /\ call.material = g
          /\ call.started = calls[c].started /\ call.purpose = calls[c].purpose
          /\ call.subject = calls[c].subject
      BY <1>2, <2>1 DEF CallRecords, Stages
    <2> HIDE DEF call
    <2> QED
      BY <1>1, <1>8, <2>2, <2>3, <2>4, CallGoesOn
  <1> QED
    BY <1>3, <1>4, <1>6, <1>7, <1>8 DEF Receive

LEMMA StoreSound ==
    ASSUME CacheInv, NEW c \in Callers, Store(c)
    PROVE  StepSound
  <1> DEFINE k == calls[c].subject
  <1>1. calls[c].stage = "store" /\ calls[c].stage \in Stages
    BY DEF Store, Stages
  <1>2. /\ calls[c] \in CallRecords /\ now <= calls[c].started + FetchTimeout
        /\ k \in Keys /\ calls[c].purpose = "key"
        /\ CurrentSince(k, calls[c].material, calls[c].started)
    BY <1>1, Active
  <1>3. ASSUME NEW g, End(c, Succeeded(calls[c], g))
        PROVE  End(c, [Done("key", k) EXCEPT !.material = g])
    BY <1>2, <1>3 DEF Succeeded
  <1>4. CASE Fresh(k) /\ Hit(k) /\ End(c, Succeeded(calls[c], entries[k].material))
    <2> DEFINE g == entries[k].material
    <2>1. End(c, [Done("key", k) EXCEPT !.material = g])
      BY <1>3, <1>4
    <2>2. UNCHANGED <<now, published, rotated, entries>>
      BY <1>4 DEF End, Hit
    <2>3. entries' \in [Keys -> EntryRecords] /\ \A j \in Keys : EntryInv(j)'
      BY <2>2, EntriesUnchanged
    <2>4. g = published[k] \/ now < rotated[k][g + 1] + FetchTimeout + TTL
      BY <1>2, <1>4, HitFresh
    <2> HIDE DEF g, k
    <2> QED
      BY <1>2, <2>1, <2>3, <2>4, KeySound
  <1>5. CASE Stored(k, calls[c].material) /\ End(c, Succeeded(calls[c], calls[c].material))
    <2> DEFINE g == calls[c].material
               t == calls[c].started
    <2>1. End(c, [Done("key", k) EXCEPT !.material = g])
      BY <1>3, <1>5
    <2>2. UNCHANGED <<now, published, rotated>> /\ Stored(k, g)
      BY <1>5 DEF End
    <2>3. t \in Nat /\ now <= t + FetchTimeout /\ CurrentSince(k, g, t)
      BY <1>2 DEF CallRecords
    <2> HIDE DEF g, t, k
    <2>4. entries' \in [Keys -> EntryRecords] /\ \A j \in Keys : EntryInv(j)'
      BY <1>2, <2>2, <2>3, EntryStored
    <2>5. g = published[k] \/ now < rotated[k][g + 1] + FetchTimeout + TTL
      <3>1. g \in 0..published[k] /\ (g = published[k] \/ t <= rotated[k][g + 1])
        BY <2>3 DEF CurrentSince
      <3>2. /\ published[k] \in Generations /\ MaxRotations \in Nat
            /\ now \in Nat /\ TTL \in Nat \ {0} /\ FetchTimeout \in Nat
        BY <1>2, CacheAssumption DEF CacheInv
      <3>3. g # published[k] => rotated[k][g + 1] \in Nat
        BY <1>2, <3>1, <3>2 DEF CacheInv, Generations
      <3> QED
        BY <2>3, <3>1, <3>2, <3>3
    <2> QED
      BY <1>2, <2>1, <2>4, <2>5, KeySound
  <1> QED
    BY <1>4, <1>5 DEF Store

LEMMA TimesOutSound ==
    ASSUME CacheInv, NEW c \in Callers, TimesOut(c)
    PROVE  StepSound
  <1> DEFINE r == NetworkFailed(calls[c], Failure({"deadline"}), FALSE)
  <1>1. End(c, r) /\ UNCHANGED cacheVars
    BY DEF TimesOut
  <1>2. {"deadline"} \in {{}, {"deadline"}}
    OBVIOUS
  <1>3. HonestResult(r) /\ GivesNoKey(r)
    BY <1>2, PlainFailureHonest
  <1> HIDE DEF r
  <1> QED
    BY <1>1, <1>3, EndSound

LEMMA CancelSound ==
    ASSUME CacheInv, NEW c \in Callers, Cancel(c)
    PROVE  StepSound
  <1> DEFINE is == {"actor_fetch", "canceled"}
             r == Refused(calls[c], is, Undiagnosed, FALSE)
  <1>1. End(c, r) /\ UNCHANGED cacheVars
    BY DEF Cancel
  <1>2. "network_target" \notin is /\ "canceled" \in is
    OBVIOUS
  <1>3. Undiagnosed \in Diagnostics /\ Undiagnosed \notin Policy
    BY DEF Diagnostics, Policy, Undiagnosed
  <1> HIDE DEF is
  <1>4. HonestResult(r) /\ GivesNoKey(r)
    BY <1>2, <1>3, RefusedHonest
  <1> HIDE DEF r
  <1> QED
    BY <1>1, <1>4, EndSound

-----------------------------------------------------------------------------
(* The steps of the environment. *)

(* A new key: what was current until this step was current now. *)
LEMMA RotateSound ==
    ASSUME CacheInv, NEW k \in Keys, Rotate(k)
    PROVE  StepSound
  <1>1. /\ now \in Nat /\ TTL \in Nat /\ FetchTimeout \in Nat /\ MaxRotations \in Nat
        /\ published[k] \in Generations /\ published[k] + 1 \in Generations
    BY CacheAssumption DEF CacheInv, Generations, Rotate
  <1>2. /\ UNCHANGED <<now, entries, calls>>
        /\ published' = [published EXCEPT ![k] = published[k] + 1]
        /\ rotated' = [rotated EXCEPT ![k] = [rotated[k] EXCEPT ![published[k] + 1] = now]]
        /\ answer' = Unanswered
    BY DEF Rotate, cacheVars
  <1>3. published' \in [Keys -> Generations] /\ rotated' \in [Keys -> [Generations -> Nat]]
    BY <1>1, <1>2 DEF CacheInv
  <1>4. /\ published'[k] = published[k] + 1
        /\ rotated'[k][published[k] + 1] = now
        /\ \A g \in 0..published[k] : g # published[k] => rotated'[k][g + 1] = rotated[k][g + 1]
    <2>1. rotated[k] \in [Generations -> Nat] /\ k \in DOMAIN rotated
      BY DEF CacheInv
    <2>2. rotated'[k] = [rotated[k] EXCEPT ![published[k] + 1] = now]
      BY <1>2, <2>1
    <2>3. \A g \in 0..published[k] :
              g # published[k] => g + 1 \in Generations /\ g + 1 # published[k] + 1
      BY <1>1 DEF Generations
    <2> QED
      BY <1>1, <1>2, <2>1, <2>2, <2>3 DEF CacheInv
  <1>5. ASSUME NEW j \in Keys, j # k
        PROVE  published'[j] = published[j] /\ rotated'[j] = rotated[j]
    BY <1>2, <1>5 DEF CacheInv
  <1>6. ASSUME NEW j \in Keys, NEW g, NEW t \in Nat, t <= now, CurrentSince(j, g, t)
        PROVE  CurrentSince(j, g, t)'
    <2>1. CASE j # k
      BY <1>5, <1>6, <2>1 DEF CurrentSince
    <2>2. CASE j = k
      BY <1>1, <1>4, <1>6, <2>2 DEF CurrentSince, Generations
    <2> QED
      BY <2>1, <2>2
  <1>7. ASSUME NEW j \in Keys PROVE EntryInv(j)'
    <2>1. EntryInv(j) /\ entries'[j] = entries[j] /\ now' = now
      BY <1>2 DEF CacheInv
    <2>2. CASE j # k
      BY <1>5, <2>1, <2>2 DEF EntryInv
    <2>3. CASE j = k /\ entries[k] # NoEntry
      <3>1. entries[k].material \in 0..published[k] /\ entries[k].expires <= now + TTL
            /\ entries[k].expires \in Nat
        BY <2>1, <2>3 DEF EntryInv, CacheInv, EntryRecords
      <3>2. CASE entries[k].material = published[k]
        BY <1>1, <1>4, <2>1, <2>3, <3>1, <3>2 DEF EntryInv, Generations
      <3>3. CASE entries[k].material # published[k]
        BY <1>1, <1>4, <2>1, <2>3, <3>1, <3>3 DEF EntryInv, Generations
      <3> QED
        BY <3>2, <3>3
    <2> QED
      BY <2>1, <2>2, <2>3 DEF EntryInv
  <1>8. ASSUME NEW c \in Callers PROVE CallInv(c)'
    <2>1. CallInv(c) /\ calls'[c] = calls[c] /\ now' = now
      BY <1>2 DEF CacheInv
    <2>2. CASE calls[c] # NoCall /\ calls[c].stage = "store"
      <3>1. /\ calls[c].subject \in Keys /\ calls[c].started \in Nat /\ calls[c].started <= now
            /\ CurrentSince(calls[c].subject, calls[c].material, calls[c].started)
        BY <2>1, <2>2 DEF CallInv, CallRecords
      <3> DEFINE s == calls[c].subject
                 g == calls[c].material
                 t == calls[c].started
      <3>2. CurrentSince(s, g, t)'
        <4> HIDE DEF s, g, t
        <4>1. s \in Keys /\ t \in Nat /\ t <= now /\ CurrentSince(s, g, t)
          BY <3>1 DEF s, g, t
        <4>2. s' = s /\ g' = g /\ t' = t
          BY <2>1 DEF s, g, t
        <4>3. g \in 0..published'[s] /\ (g = published'[s] \/ t <= rotated'[s][g + 1])
          BY <4>1, <1>6 DEF CurrentSince
        <4> QED
          BY <4>2, <4>3 DEF CurrentSince
      <3> QED
        BY <2>1, <2>2, <3>2 DEF CallInv
    <2>3. CASE ~ (calls[c] # NoCall /\ calls[c].stage = "store")
      BY <2>1, <2>3 DEF CallInv
    <2> QED
      BY <2>2, <2>3
  <1>9. CacheInv'
    BY <1>2, <1>3, <1>7, <1>8 DEF CacheInv
  <1> QED
    BY <1>2, <1>9, AnswerKeyless DEF StepSound, Unanswered

LEMMA TickSound ==
    ASSUME CacheInv, Tick
    PROVE  StepSound
  <1>1. /\ now \in Nat /\ TTL \in Nat /\ FetchTimeout \in Nat
        /\ now' = now + 1 /\ answer' = Unanswered
        /\ UNCHANGED <<published, rotated, entries, calls>>
    BY CacheAssumption DEF CacheInv, Tick, cacheVars
  <1>2. ASSUME NEW k \in Keys PROVE EntryInv(k)'
    <2>1. entries[k].expires \in Nat /\ EntryInv(k)
      BY DEF CacheInv, EntryRecords
    <2> QED
      BY <1>1, <2>1 DEF EntryInv
  <1>3. ASSUME NEW c \in Callers PROVE CallInv(c)'
    <2>1. CallInv(c) /\ calls'[c] = calls[c]
      BY <1>1 DEF CacheInv
    <2>2. CASE calls[c] # NoCall
      <3>1. calls[c].started \in Nat /\ now < calls[c].started + FetchTimeout
        BY <2>1, <2>2 DEF CallInv, CallRecords, Tick, Free
      <3>2. calls[c].started <= now' /\ now' <= calls[c].started + FetchTimeout
        BY <1>1, <2>1, <2>2, <3>1 DEF CallInv
      <3> QED
        BY <1>1, <2>1, <2>2, <3>2 DEF CallInv, CurrentSince
    <2> QED
      BY <2>1, <2>2 DEF CallInv
  <1>4. CacheInv'
    BY <1>1, <1>2, <1>3 DEF CacheInv
  <1> QED
    BY <1>1, <1>4, AnswerKeyless DEF StepSound, Unanswered

-----------------------------------------------------------------------------
(* The theorems. *)

ResolverInv == CacheInv /\ KeyFresh /\ (answer.ended => HonestResult(answer))

LEMMA ResolverStep == ResolverInv /\ [ResolverNext]_resolverVars => ResolverInv'
  <1> SUFFICES ASSUME ResolverInv, [ResolverNext]_resolverVars PROVE ResolverInv'
    OBVIOUS
  <1>1. CacheInv
    BY DEF ResolverInv
  <1>2. ASSUME NEW c \in Callers, CallStep(c) PROVE StepSound
    <2>1. CASE \E k \in Keys : ResolveKey(c, k)
      BY <1>1, <2>1, ResolveKeySound
    <2>2. CASE \E purpose \in {"actor", "inbox"}, target \in Targets : Probe(c, purpose, target)
      BY <1>1, <2>2, ProbeSound
    <2>3. CASE \E addresses \in Answers : Lookup(c, addresses)
      BY <1>1, <2>3, LookupSound
    <2>4. CASE \E kind \in DnsKinds : LookupFails(c, kind)
      BY <1>1, <2>4, LookupFailsSound
    <2>5. CASE \E a \in Addresses : Dial(c, a) \/ \E kind \in DialKinds : DialFails(c, a, kind)
      BY <1>1, <2>5, DialSound, DialFailsSound
    <2>6. CASE \/ \E kind \in TlsKinds : ExchangeFails(c, SafeFailure(<<"tls", kind>>))
               \/ ExchangeFails(c, Failure({}))
      BY <1>1, <2>6, ExchangeFailsSound
    <2>7. CASE \E target \in Targets : Redirect(c, target)
      BY <1>1, <2>7, RedirectSound
    <2>8. CASE \E fault \in Faults : Unusable(c, fault)
      BY <1>1, <2>8, UnusableSound
    <2>9. CASE \E d \in Documents : Receive(c, d)
      BY <1>1, <2>9, ReceiveSound
    <2>10. CASE Store(c) \/ TimesOut(c) \/ Cancel(c)
      BY <1>1, <2>10, StoreSound, TimesOutSound, CancelSound
    <2> QED
      BY <1>2, <2>1, <2>2, <2>3, <2>4, <2>5, <2>6, <2>7, <2>8, <2>9, <2>10 DEF CallStep
  <1>3. ASSUME NEW k \in Rotating, Rotate(k) PROVE StepSound
    <2>1. k \in Keys
      BY CacheAssumption
    <2> QED
      BY <1>1, <1>3, <2>1, RotateSound
  <1>4. CASE ResolverNext
    <2>1. StepSound
      BY <1>1, <1>2, <1>3, <1>4, TickSound DEF ResolverNext
    <2> QED
      BY <2>1 DEF StepSound, ResolverInv
  <1>5. CASE UNCHANGED resolverVars
    <2>1. UNCHANGED <<now, published, rotated, entries, calls, answer>>
      BY <1>5 DEF resolverVars, cacheVars
    <2>2. \A k \in Keys : EntryInv(k)'
      BY <1>1, <2>1 DEF CacheInv, EntryInv
    <2>3. \A c \in Callers : CallInv(c)'
      BY <1>1, <2>1 DEF CacheInv, CallInv, CurrentSince
    <2>4. CacheInv'
      BY <1>1, <2>1, <2>2, <2>3 DEF CacheInv
    <2>5. KeyFresh'
      BY <2>1 DEF ResolverInv, KeyFresh
    <2> QED
      BY <2>1, <2>4, <2>5 DEF ResolverInv
  <1> QED
    BY <1>4, <1>5

LEMMA ResolverInvariant == ResolverSpec => []ResolverInv
  <1>1. ResolverInit => ResolverInv
    <2> SUFFICES ASSUME ResolverInit PROVE ResolverInv
      OBVIOUS
    <2>1. ~answer.ended
      BY DEF ResolverInit, Unanswered
    <2> QED
      BY <2>1, InitCacheInv DEF ResolverInv, KeyFresh
  <1> QED
    BY <1>1, ResolverStep, PTL DEF ResolverSpec

(* However calls for the same key overlap and however often an entry is     *)
(* hit, a caller that the cache gives a key gets one that the relay still   *)
(* published at most a TTL and the time of one fetch ago.                   *)
THEOREM KeysAreFresh == ResolverSpec => []KeyFresh
  <1>1. ResolverInv => KeyFresh
    BY DEF ResolverInv
  <1> QED
    BY <1>1, ResolverInvariant, PTL

(* Only approved addresses are connected to, and every result reports a     *)
(* prohibited target exactly when the fetch met one.                        *)
THEOREM PolicyIsHonest == ResolverSpec => []PolicyHonest
  <1>1. ResolverInv => PolicyHonest
    <2> SUFFICES ASSUME ResolverInv PROVE PolicyHonest
      OBVIOUS
    <2>1. ASSUME NEW c \in Callers, calls[c].stage = "connected"
          PROVE  calls[c].address \in Public
      BY <2>1, Active DEF ResolverInv, Stages
    <2> QED
      BY <2>1 DEF ResolverInv, HonestResult, PolicyHonest
  <1> QED
    BY <1>1, ResolverInvariant, PTL
=============================================================================
