------------------------------ MODULE ActorFetch ------------------------------
(***************************************************************************)
(* One retrieval of a relay actor (internal/actorresolver): the target is  *)
(* checked, its host is looked up, every address of the answer is held     *)
(* against the network policy, one of them is dialled, and the response is *)
(* read; a redirect starts again with another target.  The three callers   *)
(* are the key resolver, the actor probe and the inbox probe.              *)
(*                                                                         *)
(* The module has the operators the steps are made of; ResolverCache has   *)
(* the steps themselves.  A name server may answer each lookup as it       *)
(* likes, and the actor may send any response.                             *)
(***************************************************************************)
EXTENDS Integers, Sequences, SequencesExt, FiniteSets

CONSTANTS
    Targets,        \* URLs that are asked for or redirected to
    Canonical,      \* the targets that NormalizeRelayActorURL leaves as they are
    Permitted,      \* the canonical targets that are not a prohibited literal
    Addresses,      \* network addresses
    Public,         \* the addresses that isPublicNetworkAddress accepts
    Answers,        \* what a name server may answer: sequences of addresses
    MaxAddresses,   \* maximumDNSAddresses
    MaxRedirects    \* maximumRedirects

ASSUME NetworkAssumption ==
    /\ Permitted \subseteq Canonical
    /\ Canonical \subseteq Targets
    /\ Public \subseteq Addresses
    /\ Answers \subseteq Seq(Addresses)
    /\ MaxAddresses \in Nat \ {0}
    /\ MaxRedirects \in Nat

-----------------------------------------------------------------------------
(* Errors: the sentinels that errors.Is and errors.As find in one, and the  *)
(* diagnosis a safeNetworkFailure carries.                                  *)

Undiagnosed == <<"", "">>

DnsKinds  == {"nxdomain", "timeout", "temporary", "error"}
DialKinds == {"refused", "timeout", "failed"}
TlsKinds  == {"certificate", "handshake"}

(* The diagnoses that ProbeDiagnostic.Valid accepts, less the status code. *)
Diagnostics ==
    {Undiagnosed}
    \cup ({"dns"} \X (DnsKinds \cup {"no_address", "policy"}))
    \cup ({"connect"} \X DialKinds)
    \cup ({"tls"} \X TlsKinds)
    \cup {<<"policy", "prohibited_target">>, <<"redirect", "rejected">>}
    \cup ({"actor"} \X {"http_status", "content_type", "invalid_document", "invalid_response"})
    \cup ({"inbox"} \X {"http_status", "invalid_response"})
    \cup ({"network"} \X {"timeout", "error"})

Failure(sentinels) == [is |-> sentinels, diagnosis |-> Undiagnosed]

(* safeNetworkFailure, with the sentinel its Unwrap gives. *)
SafeFailure(diagnosis) ==
    [is |-> IF diagnosis \in {<<"dns", "policy">>, <<"policy", "prohibited_target">>}
            THEN {"network_target"} ELSE {},
     diagnosis |-> diagnosis]

ClassifyNetworkFailure(err) ==
    IF "redirect_rejected" \in err.is THEN <<"redirect", "rejected">>
    ELSE IF err.diagnosis # Undiagnosed THEN err.diagnosis
    ELSE IF "dns_policy" \in err.is THEN <<"dns", "policy">>
    ELSE IF "deadline" \in err.is THEN <<"network", "timeout">>
    ELSE IF "network_target" \in err.is THEN <<"policy", "prohibited_target">>
    ELSE <<"network", "error">>

(* The sentinels a caller may see of a failed fetch. *)
RedactedActorFetchError(err) ==
    {"actor_fetch"} \cup
        (err.is \cap {"network_target", "redirect_rejected", "canceled", "deadline"})

-----------------------------------------------------------------------------
(* The network boundary. *)

(* Mutant: an answer is good when one of its addresses is. *)
ProhibitedAll(answer) == \A i \in DOMAIN answer : answer[i] \notin Public

Prohibited(answer) == \E i \in DOMAIN answer : answer[i] \notin Public

(* approvedAddresses: why an answer cannot be used, and else the addresses  *)
(* to dial, each once.  Their order is left open.                           *)
AnswerFailure(answer) ==
    IF answer = <<>> THEN SafeFailure(<<"dns", "no_address">>)
    ELSE IF Len(answer) > MaxAddresses THEN Failure({"network_target", "dns_policy"})
    ELSE SafeFailure(<<"dns", "policy">>)

Usable(answer) ==
    /\ answer # <<>>
    /\ Len(answer) <= MaxAddresses
    /\ ~ Prohibited(answer)

Approved(answer) == ToSet(answer)

(* checkActorRedirect; hops counts the requests already made. *)
RedirectAllowed(target, hops) == target \in Permitted /\ hops <= MaxRedirects

-----------------------------------------------------------------------------
(* The response: the class of its status, and for a status of 200 what is   *)
(* wrong with it or that it has a document.  A document has the facts that  *)
(* the checks on it tell apart: whether it is one bounded JSON value        *)
(* without duplicate members (validateJSONDocument), its id, whether its    *)
(* type is a relay's, its inbox, and its public keys, each with its id, its *)
(* owner and whether it is a usable RSA key (parseRSAPublicKey).            *)

NoInbox == "none"

Faults == {"bad_status", "other_success", "rejected", "http_status",
           "content_type", "oversized"}

GoodDocument(d, actor) == d.wellFormed /\ d.id = actor /\ d.relayType

(* fetchActorBodyDetailed, from the status to the body. *)
ActorDiagnostic(fault) ==
    CASE fault \in {"other_success", "rejected", "http_status"} -> <<"actor", "http_status">>
      [] fault = "bad_status" -> <<"actor", "invalid_response">>
      [] fault = "content_type" -> <<"actor", "content_type">>
      [] fault = "oversized" -> <<"actor", "invalid_document">>

(* resolveActorDocument: the requested key is there once, the actor's own   *)
(* and usable.                                                              *)
KeyResolved(d, actor, key) ==
    LET selected == {i \in DOMAIN d.keys : d.keys[i].id = key} IN
    /\ GoodDocument(d, actor)
    /\ Cardinality(selected) = 1
    /\ \A i \in selected : d.keys[i].owner = actor /\ d.keys[i].rsa

(* probeActorDocument: the document will do, or it names an inbox that may  *)
(* not be fetched.                                                          *)
ActorProbed(d, actor) == GoodDocument(d, actor) /\ d.inbox \in Permitted \cup {NoInbox}

InboxProhibited(d, actor) == GoodDocument(d, actor) /\ d.inbox \in Canonical \ Permitted

(* The diagnosis of a probe that is asked for a target in no canonical form. *)
Noncanonical(purpose) ==
    IF purpose = "inbox" THEN <<"inbox", "invalid_response">> ELSE <<"actor", "invalid_document">>

(* ProbeInboxDetailed: any response below 400 will do. *)
InboxState(fault) ==
    CASE fault \in {"other_success", "content_type", "oversized"} -> "responsive"
      [] fault = "rejected" -> "method_rejected"
      [] fault \in {"http_status", "bad_status"} -> "unreachable"

InboxDiagnostic(fault) ==
    IF fault = "bad_status" THEN <<"inbox", "invalid_response">> ELSE <<"inbox", "http_status">>
=============================================================================
