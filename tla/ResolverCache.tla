---------------------------- MODULE ResolverCache ----------------------------
(***************************************************************************)
(* The actor resolver at work: concurrent calls for signing keys through   *)
(* the cache of successful results (internal/actorresolver/cache.go), and  *)
(* probes of actors and inboxes that go to the network directly.  The      *)
(* cache is looked up and written under its mutex and not locked while a   *)
(* fetch is under way, so calls for the same key fetch side by side.       *)
(*                                                                         *)
(* A relay may publish a new key under an old key id at any time.  The     *)
(* clock is a process's own: time.Now's monotonic reading, and             *)
(* currentTimeLocked beneath it, keep it from going back.                  *)
(***************************************************************************)
EXTENDS ActorFetch

CONSTANTS
    Requests,       \* callers that resolve keys: signed requests
    Probers,        \* callers that probe: the workers and commands
    Keys,           \* key ids
    ActorOf,        \* the actor URL of a key id
    Documents,      \* the documents actors may send
    MaxEntries, TTL,
    FetchTimeout,   \* requestTimeout, of the whole fetch
    Rotating,       \* bound: the key ids that come to have a new key
    MaxRotations,   \* bound: new keys under one key id
    MaxTime         \* bound: last instant of the instance

ASSUME CacheAssumption ==
    /\ ActorOf \in [Keys -> Permitted]
    /\ Rotating \subseteq Keys
    /\ MaxEntries \in Nat \ {0}
    /\ TTL \in Nat \ {0}
    /\ FetchTimeout \in Nat
    /\ MaxRotations \in Nat
    /\ MaxTime \in Nat

Callers == Requests \cup Probers

VARIABLES
    now,
    published,  \* the key material published under each key id, by generation
    rotated,    \* history: when each generation was published
    entries,    \* the map of the cache
    order,      \* its list, least recently used first
    calls,      \* the calls under way
    answer      \* the result of the call that the last step has ended

cacheVars    == <<entries, order>>
resolverVars == <<now, published, rotated, cacheVars, calls, answer>>

Generations == 0..MaxRotations
NoEntry     == [material |-> -1, expires |-> 0]
NoCall      == [stage |-> "idle"]
NoAddress   == "none"
Unanswered  == [ended |-> FALSE]

ResolverInit ==
    /\ now = 0
    /\ published = [k \in Keys |-> 0]
    /\ rotated = [k \in Keys |-> [g \in Generations |-> 0]]
    /\ entries = [k \in Keys |-> NoEntry]
    /\ order = <<>>
    /\ calls = [c \in Callers |-> NoCall]
    /\ answer = Unanswered

-----------------------------------------------------------------------------
(* The cache. *)

Held == {k \in Keys : entries[k] # NoEntry}

(* Mutant: an entry is good for its last instant too. *)
FreshAtExpiry(k) == k \in Held /\ now <= entries[k].expires

Fresh(k) == k \in Held /\ now < entries[k].expires

(* Mutant: a hit lengthens the life of an entry. *)
HitSlides(k) ==
    /\ order' = Append(Remove(order, k), k)
    /\ entries' = [entries EXCEPT ![k].expires = now + TTL]

Hit(k) ==
    /\ order' = Append(Remove(order, k), k)
    /\ UNCHANGED entries

Removed(k) ==
    /\ entries' = [entries EXCEPT ![k] = NoEntry]
    /\ order' = Remove(order, k)

(* The entry that makes room for a new one: the head of the list when, with *)
(* the key's own expired entry gone, the map is full.                       *)
Evicted(k) ==
    LET rest == Remove(order, k)
    IN  IF Cardinality(Held \ {k}) >= MaxEntries THEN {Head(rest)} ELSE {}

Stored(k, material) ==
    /\ entries' = [j \in Keys |->
                      IF j = k THEN [material |-> material, expires |-> now + TTL]
                      ELSE IF j \in Evicted(k) THEN NoEntry ELSE entries[j]]
    /\ order' = Append(SelectSeq(order, LAMBDA j : j \notin Evicted(k) \cup {k}), k)

-----------------------------------------------------------------------------
(* A call.  It ends with a result; a failed one has the sentinels of its    *)
(* error and a diagnosis.                                                   *)

(* hops counts the requests; where a redirect has led to plays no part in   *)
(* what follows it.                                                         *)
Fetching(purpose, subject) ==
    [stage |-> "lookup", purpose |-> purpose, subject |-> subject, hops |-> 1,
     left |-> {}, address |-> NoAddress, started |-> now, material |-> -1]

(* met: history, the fetch came upon a prohibited target or address. *)
Done(purpose, subject) ==
    [ended |-> TRUE, purpose |-> purpose, subject |-> subject, met |-> FALSE,
     ok |-> TRUE, sentinels |-> {}, diagnosis |-> Undiagnosed, material |-> -1,
     inbox |-> "not_checked"]

Succeeded(call, material) ==
    [Done(call.purpose, call.subject) EXCEPT !.material = material]

Refused(call, sentinels, diagnosis, met) ==
    [Done(call.purpose, call.subject) EXCEPT
        !.met = met, !.ok = FALSE, !.sentinels = sentinels, !.diagnosis = diagnosis]

(* A fetch that fails on the network: an error for the key resolver and the *)
(* actor probe, a result for the inbox probe.                               *)
NetworkFailed(call, err, met) ==
    IF call.purpose = "inbox"
    THEN [Done(call.purpose, call.subject) EXCEPT
             !.met = met, !.diagnosis = ClassifyNetworkFailure(err), !.inbox = "unreachable"]
    ELSE Refused(call, RedactedActorFetchError(err), ClassifyNetworkFailure(err), met)

Free(c) == calls[c] = NoCall

(* A step of the call of c: it goes on, or it ends with a result. *)
Continue(c, call) ==
    /\ calls' = [calls EXCEPT ![c] = call]
    /\ answer' = Unanswered
    /\ UNCHANGED <<now, published, rotated>>

End(c, result) ==
    /\ calls' = [calls EXCEPT ![c] = NoCall]
    /\ answer' = result
    /\ UNCHANGED <<now, published, rotated>>

(* CachedResolver.ResolveRFC9421Key up to the fetch. *)
ResolveKey(c, k) ==
    /\ Free(c)
    /\ \/ /\ Fresh(k)
          /\ Hit(k)
          /\ End(c, [Done("key", k) EXCEPT !.material = entries[k].material])
       \/ /\ ~Fresh(k)
          /\ IF k \in Held THEN Removed(k) ELSE UNCHANGED cacheVars
          /\ Continue(c, Fetching("key", k))

(* ProbeActorDetailed and ProbeInboxDetailed up to the request. *)
Probe(c, purpose, target) ==
    /\ Free(c)
    /\ LET refused(sentinel, diagnosis, met) ==
              End(c, [Done(purpose, target) EXCEPT !.ok = FALSE, !.met = met,
                         !.sentinels = {sentinel}, !.diagnosis = diagnosis])
       IN  \/ /\ target \in Permitted
              /\ Continue(c, Fetching(purpose, target))
           \/ /\ target \in Canonical \ Permitted
              /\ refused("network_target", <<"policy", "prohibited_target">>, TRUE)
           \/ /\ target \notin Canonical
              /\ refused("actor_document", Noncanonical(purpose), FALSE)
    /\ UNCHANGED cacheVars

(* approvedAddresses: the host is looked up, and a failed lookup or a bad   *)
(* answer ends the fetch.                                                   *)
Lookup(c, addresses) ==
    /\ calls[c].stage = "lookup"
    /\ IF Usable(addresses)
       THEN Continue(c, [calls[c] EXCEPT !.stage = "dial", !.left = Approved(addresses)])
       ELSE End(c, NetworkFailed(calls[c], AnswerFailure(addresses), addresses # <<>>))
    /\ UNCHANGED cacheVars

LookupFails(c, kind) ==
    /\ calls[c].stage = "lookup"
    /\ End(c, NetworkFailed(calls[c], SafeFailure(<<"dns", kind>>), FALSE))
    /\ UNCHANGED cacheVars

(* DialContext: the approved addresses are tried until one answers; the     *)
(* failure of the last one is the failure of the fetch.                     *)
Dial(c, a) ==
    /\ calls[c].stage = "dial"
    /\ a \in calls[c].left
    /\ Continue(c, [calls[c] EXCEPT !.stage = "connected", !.left = {}, !.address = a])
    /\ UNCHANGED cacheVars

DialFails(c, a, kind) ==
    /\ calls[c].stage = "dial"
    /\ a \in calls[c].left
    /\ IF calls[c].left = {a}
       THEN End(c, NetworkFailed(calls[c], SafeFailure(<<"connect", kind>>), FALSE))
       ELSE Continue(c, [calls[c] EXCEPT !.left = @ \ {a}])
    /\ UNCHANGED cacheVars

(* A failure between the connection and the response. *)
ExchangeFails(c, err) ==
    /\ calls[c].stage = "connected"
    /\ End(c, NetworkFailed(calls[c], err, FALSE))
    /\ UNCHANGED cacheVars

Redirect(c, target) ==
    /\ calls[c].stage = "connected"
    /\ IF RedirectAllowed(target, calls[c].hops)
       THEN Continue(c, [calls[c] EXCEPT !.stage = "lookup",
                                         !.hops = @ + 1, !.address = NoAddress])
       ELSE End(c, NetworkFailed(calls[c],
                                 Failure({"network_target", "redirect_rejected"}), TRUE))
    /\ UNCHANGED cacheVars

(* A response that is not a document the caller can use. *)
Unusable(c, fault) ==
    /\ calls[c].stage = "connected"
    /\ End(c, IF calls[c].purpose = "inbox"
              THEN [Done("inbox", calls[c].subject) EXCEPT
                       !.inbox = InboxState(fault), !.diagnosis = InboxDiagnostic(fault)]
              ELSE Refused(calls[c], {"actor_fetch"}, ActorDiagnostic(fault), FALSE))
    /\ UNCHANGED cacheVars

(* A document.  The key of an id is the one published at this moment.  The  *)
(* key resolver goes on to the cache.                                       *)
Receive(c, d) ==
    LET call == calls[c] IN
    /\ call.stage = "connected"
    /\ CASE call.purpose = "inbox" ->
              End(c, [Done("inbox", call.subject) EXCEPT
                         !.inbox = "responsive", !.diagnosis = <<"inbox", "http_status">>])
         [] call.purpose = "actor" /\ ActorProbed(d, call.subject) ->
              End(c, Done("actor", call.subject))
         [] call.purpose = "actor" /\ InboxProhibited(d, call.subject) ->
              End(c, Refused(call, {"network_target"}, <<"actor", "invalid_document">>, TRUE))
         [] call.purpose = "key" /\ KeyResolved(d, ActorOf[call.subject], call.subject) ->
              Continue(c, [call EXCEPT !.stage = "store", !.address = NoAddress,
                                       !.material = published[call.subject]])
         [] OTHER ->
              End(c, Refused(call, {"actor_document"}, <<"actor", "invalid_document">>, FALSE))
    /\ UNCHANGED cacheVars

(* ResolveRFC9421Key after the fetch: the entry that another call has       *)
(* stored meanwhile wins, and is what the caller gets.                      *)
Store(c) ==
    LET call == calls[c] IN
    /\ call.stage = "store"
    /\ \/ /\ Fresh(call.subject)
          /\ Hit(call.subject)
          /\ End(c, Succeeded(call, entries[call.subject].material))
       \/ /\ ~Fresh(call.subject)
          /\ Stored(call.subject, call.material)
          /\ End(c, Succeeded(call, call.material))

(* The client gives up at its timeout, or the caller's context is           *)
(* cancelled, which leaves no diagnosis.                                    *)
TimesOut(c) ==
    /\ calls[c].stage \in {"lookup", "dial", "connected"}
    /\ now = calls[c].started + FetchTimeout
    /\ End(c, NetworkFailed(calls[c], Failure({"deadline"}), FALSE))
    /\ UNCHANGED cacheVars

Cancel(c) ==
    /\ calls[c].stage \in {"lookup", "dial", "connected", "store"}
    /\ End(c, Refused(calls[c], {"actor_fetch", "canceled"}, Undiagnosed, FALSE))
    /\ UNCHANGED cacheVars

-----------------------------------------------------------------------------
(* The relay publishes another key under the same key id. *)
Rotate(k) ==
    /\ published[k] < MaxRotations
    /\ published' = [published EXCEPT ![k] = @ + 1]
    /\ rotated' = [rotated EXCEPT ![k][published[k] + 1] = now]
    /\ answer' = Unanswered
    /\ UNCHANGED <<now, cacheVars, calls>>

(* A fetch ends within its timeout, and what follows it takes no time. *)
Tick ==
    /\ now < MaxTime
    /\ \A c \in Callers : ~Free(c) => now < calls[c].started + FetchTimeout
    /\ now' = now + 1
    /\ answer' = Unanswered
    /\ UNCHANGED <<published, rotated, cacheVars, calls>>

CallStep(c) ==
    \/ c \in Requests /\ \E k \in Keys : ResolveKey(c, k)
    \/ c \in Probers /\ \E purpose \in {"actor", "inbox"}, target \in Targets :
                            Probe(c, purpose, target)
    \/ \E addresses \in Answers : Lookup(c, addresses)
    \/ \E kind \in DnsKinds : LookupFails(c, kind)
    \/ \E a \in Addresses : Dial(c, a) \/ \E kind \in DialKinds : DialFails(c, a, kind)
    \/ \E kind \in TlsKinds : ExchangeFails(c, SafeFailure(<<"tls", kind>>))
    \/ ExchangeFails(c, Failure({}))
    \/ \E target \in Targets : Redirect(c, target)
    \/ \E fault \in Faults : Unusable(c, fault)
    \/ \E d \in Documents : Receive(c, d)
    \/ Store(c)
    \/ TimesOut(c)
    \/ Cancel(c)

ResolverNext ==
    \/ \E c \in Callers : CallStep(c)
    \/ \E k \in Rotating : Rotate(k)
    \/ Tick

ResolverSpec == ResolverInit /\ [][ResolverNext]_resolverVars

-----------------------------------------------------------------------------
(* Properties.                                                              *)

(* A caller that is given a key gets one that the relay still published at  *)
(* most a TTL and the time of one fetch ago, however fetches for the same   *)
(* key overlap, however old the result is that one of them stores, and      *)
(* however often an entry is hit.                                           *)
KeyFresh ==
    answer.ended /\ answer.purpose = "key" /\ answer.ok =>
        \/ answer.material = published[answer.subject]
        \/ now < rotated[answer.subject][answer.material + 1] + FetchTimeout + TTL

Policy == {<<"dns", "policy">>, <<"policy", "prohibited_target">>, <<"redirect", "rejected">>}

(* No connection is made to an address outside the policy, even when the    *)
(* name server changes its answer between two lookups and the actor         *)
(* redirects.  The sentinel that the discovery import tests is there        *)
(* exactly when the fetch met a prohibited target, so an outage never looks *)
(* like one; so is a policy diagnosis, but for a document with a prohibited *)
(* inbox, which is diagnosed as invalid.  And unless it was cancelled, a    *)
(* failed probe has a diagnosis: reachability.Run ends a whole pass on one  *)
(* that has none.                                                           *)
PolicyHonest ==
    /\ \A c \in Callers : calls[c].stage = "connected" => calls[c].address \in Public
    /\ answer.ended =>
          /\ answer.diagnosis \in Diagnostics
          /\ answer.diagnosis \in Policy => answer.met
          /\ answer.met => answer.diagnosis \in Policy \cup {<<"actor", "invalid_document">>}
          /\ ~answer.ok => ("network_target" \in answer.sentinels <=> answer.met)
          /\ ~answer.ok /\ "canceled" \notin answer.sentinels
                => answer.diagnosis # Undiagnosed
=============================================================================
