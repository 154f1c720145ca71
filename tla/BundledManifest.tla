--------------------------- MODULE BundledManifest ---------------------------
(***************************************************************************)
(* The manifest of the models that come with the program                   *)
(* (bundled_ai_assets.rs).  It is read by verified_asset, which looks for  *)
(* one asset and checks that one alone, and by inspect, whose snapshot of  *)
(* all assets is what the status and the live transcript go by.  The       *)
(* manifest grows record by record; what is checked is that its readers    *)
(* agree.                                                                  *)
(***************************************************************************)
EXTENDS Naturals, FiniteSets, Sequences

CONSTANTS
    BundleRecords,      \* the records a manifest may hold
    MaxRecords, MaxDamaged      \* bounds (MAX_ASSETS is 64)

\* "any" stands for no id where a model is asked for without one.
ASSUME BundleConstants ==
    /\ MaxRecords \in Nat /\ MaxDamaged \in Nat
    /\ \A r \in BundleRecords : r.model # "any"

VARIABLES
    records,        \* the assets of the manifest
    releaseReady,   \* the manifest's flag
    intact          \* ids of the files that have their size and digest

bundleVars == <<records, releaseReady, intact>>

\* record_is_valid, with the ids before it.
Valid(i) == records[i].valid /\ \A j \in 1..(i - 1) : records[j].id # records[i].id

OnHost(i) == records[i].host

\* The name under which an asset is looked up.
Selector(r) ==
    <<r.capability, r.kind,
      CASE r.kind = "model" -> r.model
        [] r.kind = "library" -> r.id
        [] OTHER -> "">>

\* Ids are unique among all records, selectors among those for this host.
ManifestValid ==
    /\ \A i \in DOMAIN records : Valid(i)
    /\ \A i, j \in DOMAIN records :
        i < j /\ OnHost(i) /\ OnHost(j) => Selector(records[i]) # Selector(records[j])

\* inspect_asset
Verifies(i) == records[i].id \in intact

None == [state |-> "none", id |-> ""]
FailedAsset == [state |-> "failed", id |-> ""]

\* Mutant of VerifiedAsset: the records of other hosts are candidates too.
VerifiedAssetAnyHost(capability, kind, model) ==
    LET matching == {i \in DOMAIN records :
                        /\ records[i].capability = capability /\ records[i].kind = kind
                        /\ model = "any" \/ records[i].model = model}
    IN IF ~ManifestValid \/ matching = {} THEN None
       ELSE LET i == CHOOSE i \in matching : \A j \in matching : j <= i
            IN IF Verifies(i) THEN [state |-> "verified", id |-> records[i].id] ELSE FailedAsset

\* verified_asset: the last that matches.
VerifiedAsset(capability, kind, model) ==
    LET matching == {i \in DOMAIN records :
                        /\ OnHost(i) /\ records[i].capability = capability /\ records[i].kind = kind
                        /\ model = "any" \/ records[i].model = model}
    IN IF ~ManifestValid \/ matching = {} THEN None
       ELSE LET i == CHOOSE i \in matching : \A j \in matching : j <= i
            IN IF Verifies(i) THEN [state |-> "verified", id |-> records[i].id] ELSE FailedAsset

\* inspect: the places of the assets for this host, unless the manifest is refused.
BundleSnapshot == IF ManifestValid THEN {i \in DOMAIN records : OnHost(i)} ELSE {}

\* cached_speech_model and cached_language_config: the first that verified.
CachedAsset(capability, kind, model) ==
    LET found == {i \in BundleSnapshot :
                    /\ records[i].capability = capability /\ records[i].kind = kind
                    /\ model = "any" \/ records[i].model = model
                    /\ Verifies(i)}
    IN IF found = {} THEN None
       ELSE [state |-> "verified", id |-> records[CHOOSE i \in found : \A j \in found : i <= j].id]

\* language_config: both parts, or neither.
LanguageConfig ==
    LET runtime == VerifiedAsset("language", "runtime", "any")
        model == VerifiedAsset("language", "model", "any")
    IN IF {runtime.state, model.state} = {"verified"} THEN "config"
       ELSE IF {runtime.state, model.state} = {"none"} THEN "none" ELSE "error"

\* Mutant of CapabilityReady: the optional assets are left out.
ReadyWithoutOptional(capability) ==
    LET mine == {i \in BundleSnapshot : records[i].capability = capability}
    IN /\ \E i \in mine : records[i].required
       /\ \A i \in mine : records[i].required => Verifies(i)

\* capability_status
CapabilityReady(capability) ==
    LET mine == {i \in BundleSnapshot : records[i].capability = capability}
    IN /\ \E i \in mine : records[i].required
       /\ \A i \in mine : Verifies(i)

\* status_from_snapshot: a release needs its terminology too.
BundleReady ==
    /\ CapabilityReady("speech") /\ CapabilityReady("language")
    /\ releaseReady => CapabilityReady("terminology")

\* Not one definition of a manifest, but every manifest of up to MaxRecords.
AddRecord(r) ==
    /\ Len(records) < MaxRecords
    /\ records' = Append(records, r)
    /\ UNCHANGED <<releaseReady, intact>>

BundleInit ==
    /\ records = <<>> /\ releaseReady \in BOOLEAN
    /\ \E damaged \in SUBSET {r.id : r \in BundleRecords} :
        Cardinality(damaged) <= MaxDamaged /\ intact = {r.id : r \in BundleRecords} \ damaged

BundleNext == \E r \in BundleRecords : AddRecord(r)

---------------------------------------------------------------------------
(* Properties.                                                             *)

\* One record answers to the name on this host.
Single(capability, kind) ==
    \A i, j \in DOMAIN records :
        OnHost(i) /\ OnHost(j) /\ {records[i].capability, records[j].capability} = {capability}
        /\ {records[i].kind, records[j].kind} = {kind} => i = j

Agree(capability, kind, model) ==
    LET job == VerifiedAsset(capability, kind, model)
        live == CachedAsset(capability, kind, model)
    IN job.state = "verified" \/ live.state = "verified" => job = live

\* A job and a live transcript that ask for a speech model by its id get the
\* same file, or neither gets one: the search of one asset and the snapshot of
\* all agree.  So they do on the language model, which is looked up without an
\* id, as long as the manifest has one of it (verified_asset,
\* cached_speech_model, language_config, cached_language_config).
ReadersAgree ==
    /\ \A m \in {r.model : r \in BundleRecords} : Agree("speech", "model", m)
    /\ Single("language", "model") => Agree("language", "model", "any")

\* A bundle that the status calls ready has no damaged asset that a job would
\* then fail on: neither a speech model nor the language tools end in an
\* error, as long as the manifest lists a runtime and a model for them.
ReadyIsUsable ==
    BundleReady =>
        /\ \A m \in {r.model : r \in BundleRecords} : VerifiedAsset("speech", "model", m) # FailedAsset
        /\ VerifiedAsset("language", "runtime", "any").state # "none"
           /\ VerifiedAsset("language", "model", "any").state # "none" => LanguageConfig = "config"
=============================================================================
