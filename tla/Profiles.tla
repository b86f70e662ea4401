------------------------------ MODULE Profiles ------------------------------
(***************************************************************************)
(* Descriptive relay profiles and self-reported telemetry                  *)
(* (internal/storage/sqlite: profile.go, telemetry.go; migrations 0010 to  *)
(* 0012).  A profile claim belongs to an actor, a source and a field; its  *)
(* revisions are numbered by an append-only event table that outlives the  *)
(* claim, and the retained identity.  Text and list values are abstracted  *)
(* to Values, what the normalisation in front of every transaction lets    *)
(* through.  It bounds the text; the bound on the stored JSON, which is    *)
(* longer, is only checked inside the transaction.                         *)
(***************************************************************************)
EXTENDS RelayRepository

CONSTANTS
    Fields,       \* storage.ProfileFields()
    Values,       \* normalised values of a field
    Oversized,    \* those whose JSON exceeds MaximumProfileStoredValueBytes
    NoValue,      \* the field makes no assertion
    Labels,       \* provenance (label and URL) of csv and override sources
    NoLabel,      \* the relay source carries none
    MaxClaims     \* bound: revision of a claim

ASSUME ProfileAssumption ==
    NoValue \notin Values /\ Oversized \subseteq Values /\ MaxClaims \in Nat

VARIABLES
    profileValues,  \* table relay_profile_values
    profileEvents,  \* table relay_profile_events: MAX(revision) per field, MAX(recorded_at_unix)
    telemetry       \* table relay_telemetry

profileVars == <<profileValues, profileEvents, telemetry>>

SourceKinds == {"csv", "relay", "override"}

Priority(kind) ==
    CASE kind = "override" -> 3
      [] kind = "relay"    -> 2
      [] kind = "csv"      -> 1

Profile == [Fields -> Values \cup {NoValue}]

ClaimRow == [value : Values \cup {NoValue}, label : Labels \cup {NoLabel},
             accepted : Stamp, revision : Nat]

NoClaim == [value |-> NoValue, label |-> NoLabel, accepted |-> Never, revision |-> 0]

NoClaims == [kind \in SourceKinds |-> [f \in Fields |-> NoClaim]]

NoHistory == [kind \in SourceKinds |->
                 [revision |-> [f \in Fields |-> 0], latest |-> Never]]

TelemetryRow == [receiving : Stamp, receivingAt : Stamp,
                 participating : Stamp, participatingAt : Stamp]

(* A NULL column is Never. *)
NoTelemetry == [receiving |-> Never, receivingAt |-> Never,
                participating |-> Never, participatingAt |-> Never]

ProfileInit ==
    /\ profileValues = [a \in Actors |-> NoClaims]
    /\ profileEvents = [a \in Actors |-> NoHistory]
    /\ telemetry = [a \in Actors |-> NoTelemetry]

HasClaim(a, kind, f) == profileValues[a][kind][f].value # NoValue
HasTelemetry(a)      == telemetry[a].receivingAt # Never

-----------------------------------------------------------------------------
(* What the guards of ReplaceProfileSource refuse with. *)

MonotonicProfileTime(a, kind, t) == t >= profileEvents[a][kind].latest

(* The claim of a field has the revision its history ends with. *)
RevisionCurrent(a, kind, f) ==
    HasClaim(a, kind, f) =>
        profileValues[a][kind][f].revision = profileEvents[a][kind].revision[f]

(* The JSON of every value fits its column. *)
Storable(profile) == \A f \in Fields : profile[f] \notin Oversized

(* The fields whose claim a complete replacement sets or clears. *)
Replaced(a, kind, label, profile) ==
    {f \in Fields :
        \/ profile[f] = NoValue /\ HasClaim(a, kind, f)
        \/ /\ profile[f] # NoValue
           /\ profileValues[a][kind][f].value # profile[f]
              \/ profileValues[a][kind][f].label # label}

(* Mutant: the numbering follows the current claim, not its history. *)
NextRevisionOfClaim(a, kind, f) == profileValues[a][kind][f].revision + 1

NextRevision(a, kind, f) == profileEvents[a][kind].revision[f] + 1

ClaimOf(a, kind, label, profile, f, t) ==
    IF profile[f] = NoValue
    THEN NoClaim
    ELSE [value |-> profile[f], label |-> label, accepted |-> t,
          revision |-> NextRevision(a, kind, f)]

ReplaceProfileSource(a, kind, label, profile, t) ==
    LET changed == Replaced(a, kind, label, profile) IN
    /\ RetainedIdentity(a)
    /\ MonotonicProfileTime(a, kind, t)
    /\ \A f \in Fields : RevisionCurrent(a, kind, f)
    /\ Storable(profile)
    /\ \A f \in changed : profileEvents[a][kind].revision[f] < MaxClaims
    /\ profileValues' = [profileValues EXCEPT ![a][kind] =
          [f \in Fields |-> IF f \in changed THEN ClaimOf(a, kind, label, profile, f, t)
                                             ELSE @[f]]]
    /\ profileEvents' = [profileEvents EXCEPT ![a][kind] =
          [revision |-> [f \in Fields |->
                            IF f \in changed THEN Later(@.revision[f], NextRevision(a, kind, f))
                                             ELSE @.revision[f]],
           latest   |-> IF changed = {} THEN @.latest ELSE t]]
    /\ UNCHANGED <<telemetry, vars>>

(* The precedence of EffectiveProfile, field by field. *)
EffectiveProfile(a) ==
    [f \in Fields |->
        LET kinds == {kind \in SourceKinds : HasClaim(a, kind, f)} IN
        IF kinds = {} THEN NoValue
        ELSE profileValues[a][CHOOSE kind \in kinds :
                \A other \in kinds : Priority(other) <= Priority(kind)][f].value]

(* ReplaceRelayTelemetry and ReplaceRelayParticipatingTelemetry.  Neither   *)
(* takes the write lease.  The insert trigger wants a lifecycle identity;   *)
(* a report older than the stored one is dropped without an error.          *)
ReplaceRelayTelemetry(a, n, t) ==
    /\ HasRelay(a)
    /\ telemetry' = IF t < telemetry[a].receivingAt THEN telemetry
                    ELSE [telemetry EXCEPT ![a].receiving = n, ![a].receivingAt = t]
    /\ UNCHANGED <<profileValues, profileEvents, vars>>

ReplaceRelayParticipatingTelemetry(a, n, t) ==
    /\ HasRelay(a)
    /\ telemetry' =
          IF ~HasTelemetry(a)
          THEN [telemetry EXCEPT ![a] = [receiving |-> 0, receivingAt |-> 0,
                                         participating |-> n, participatingAt |-> t]]
          ELSE IF t < telemetry[a].participatingAt THEN telemetry
          ELSE [telemetry EXCEPT ![a].participating = n, ![a].participatingAt = t]
    /\ UNCHANGED <<profileValues, profileEvents, vars>>

(* Mutant: claims are never removed. *)
OwnersLostNever(a) == FALSE

(* The cleanup triggers: the claims go with the last owner of the actor. *)
OwnersLost(a) == RetainedIdentity(a) /\ ~RetainedIdentity(a)'

(* Any transaction of the repository, with the triggers it fires. *)
WithTriggers(step) ==
    /\ step
    /\ profileValues' = [a \in Actors |-> IF OwnersLost(a) THEN NoClaims ELSE profileValues[a]]
    /\ telemetry' = [a \in Actors |->
          IF HasRelay(a) /\ ~HasRelay(a)' THEN NoTelemetry ELSE telemetry[a]]
    /\ UNCHANGED profileEvents

-----------------------------------------------------------------------------
(* Properties.                                                              *)

ProfileTypeOK ==
    /\ profileValues \in [Actors -> [SourceKinds -> [Fields -> ClaimRow]]]
    /\ profileEvents \in [Actors -> [SourceKinds ->
                             [revision : [Fields -> Nat], latest : Stamp]]]
    /\ telemetry \in [Actors -> TelemetryRow]

(* No history of replacements, clears and hard retention leaves a claim     *)
(* whose revision differs from the end of its append-only history:          *)
(* ReplaceProfileSource refuses such a source, so one would block every     *)
(* later profile of the relay.  No claim is younger than its history, none  *)
(* has a value that decodeProfileField refuses, which would fail the page   *)
(* that shows it, and none outlives the last row that retains its actor,    *)
(* nor telemetry the relay row.                                             *)
ProfilesConsistent ==
    \A a \in Actors :
        /\ \A kind \in SourceKinds, f \in Fields : HasClaim(a, kind, f) =>
              /\ RevisionCurrent(a, kind, f)
              /\ profileValues[a][kind][f].revision >= 1
              /\ profileValues[a][kind][f].accepted <= profileEvents[a][kind].latest
              /\ profileValues[a][kind][f].value \notin Oversized
              /\ RetainedIdentity(a)
        /\ HasTelemetry(a) => HasRelay(a)
=============================================================================
