---------------------------- MODULE Preferences ----------------------------
(***************************************************************************)
(* Choices that are made at one time and used at another, when the machine *)
(* may have changed: the preferred microphone, saved from a device list    *)
(* and used after devices came and went (capture_service.rs), behind the   *)
(* recording consent (consent_store.rs); and the transcription quality,    *)
(* earned by a benchmark of a model that an upgrade may replace            *)
(* (transcription_quality.rs).                                             *)
(***************************************************************************)
EXTENDS Naturals, Sequences, FiniteSets

CONSTANTS
    DeviceLists,    \* the lists of input devices the system may report
    Memory,         \* total memory, in GiB
    Factors,        \* the real-time factors a benchmark may measure, in percent
    MaxPlugs, MaxBenchmarks \* bounds on device changes and on benchmarks

ASSUME PreferenceConstants ==
    {Memory, MaxPlugs, MaxBenchmarks} \subseteq Nat /\ Factors \subseteq Nat

VARIABLES
    devices,    \* the input devices: their fingerprints, in order; the first is the default
    listed,     \* the list the window shows
    preferred,  \* the saved microphone
    chosen,     \* the row of the list the user saved
    opened,     \* the microphone of the last capture
    consented,  \* the acknowledged consent items
    plugs

micVars == <<devices, listed, preferred, chosen, opened, consented, plugs>>

VARIABLES
    policy,     \* the stored quality policy
    trusted,    \* the release of the model each tier uses
    measured,   \* the last benchmark of each tier
    granted,    \* the tier the user was told
    ran,        \* the last transcription: its tier, what decided it, its measurement
    benchmarks

qualityVars == <<policy, trusted, measured, granted, ran, benchmarks>>

Unset == [ordinal |-> 0]

---------------------------------------------------------------------------
(* Consent.                                                                *)

ConsentItems == {"storage", "microphone", "system"}
RequiredFor(kind) ==
    {"storage"} \cup (IF kind = "system" THEN {} ELSE {"microphone"})
                \cup (IF kind = "mic" THEN {} ELSE {"system"})
Consented(kind) == RequiredFor(kind) \subseteq consented

AcknowledgeItems(items) ==
    /\ consented' = consented \cup items
    /\ UNCHANGED <<devices, listed, preferred, chosen, opened, plugs>>

---------------------------------------------------------------------------
(* The microphone.                                                         *)

PlugDevices(list) ==
    /\ plugs < MaxPlugs /\ plugs' = plugs + 1 /\ devices' = list
    /\ UNCHANGED <<listed, preferred, chosen, opened, consented>>

\* capture.devices: ids are positions; a fingerprint is made of the name
\* and the format of a device, so two may share one.
ListDevices ==
    /\ listed' = devices
    /\ UNCHANGED <<devices, preferred, chosen, opened, consented, plugs>>

\* Mutant of SavePreferred: the row is not compared with the device.
SaveUnchecked(n) ==
    /\ n \in DOMAIN listed /\ n \in DOMAIN devices
    /\ preferred' = [ordinal |-> n, print |-> devices[n]] /\ chosen' = listed[n]
    /\ UNCHANGED <<devices, listed, opened, consented, plugs>>

\* set_preferred_microphone with the id, fingerprint and position shown.
SavePreferred(n) ==
    /\ n \in DOMAIN listed /\ n \in DOMAIN devices /\ devices[n] = listed[n]
    /\ preferred' = [ordinal |-> n, print |-> devices[n]] /\ chosen' = listed[n]
    /\ UNCHANGED <<devices, listed, opened, consented, plugs>>

PreferDefault ==
    /\ preferred' = Unset /\ chosen' = "default"
    /\ UNCHANGED <<devices, listed, opened, consented, plugs>>

\* microphone_device_selection: a capture may name the default, nothing, or
\* the position that was saved; any other position is refused.
Requests == {"default", "none", "saved"}
Selection(request) ==
    IF request = "default" \/ preferred = Unset THEN "default" ELSE "preferred"
AcceptedRequest(request) ==
    request = "saved" => preferred # Unset

Matching == {n \in DOMAIN devices : devices[n] = preferred.print}

DefaultDevice(resolution, reselect) ==
    [device |-> devices[1], resolution |-> resolution, reselect |-> reselect]

\* Mutant of SelectedDevice: the saved position is opened.
SelectedByPosition(request) ==
    IF Selection(request) = "default" THEN DefaultDevice("default", FALSE)
    ELSE IF preferred.ordinal \in DOMAIN devices
         THEN [device |-> devices[preferred.ordinal], resolution |-> "fingerprint",
               reselect |-> FALSE]
         ELSE DefaultDevice("default-fallback", TRUE)

\* select_input_device: the one device with the saved fingerprint.
SelectedDevice(request) ==
    IF Selection(request) = "default" THEN DefaultDevice("default", FALSE)
    ELSE IF Cardinality(Matching) = 1
         THEN [device |-> devices[CHOOSE n \in Matching : TRUE], resolution |-> "fingerprint",
               reselect |-> FALSE]
         ELSE DefaultDevice(IF Matching = {} THEN "default-fallback" ELSE "ambiguous-fingerprint", TRUE)

OpenMicrophone(kind, request) ==
    /\ Consented(kind) /\ AcceptedRequest(request) /\ devices # <<>>
    /\ opened' = [got |-> SelectedDevice(request), asked |-> IF request = "default" THEN "default" ELSE chosen,
                  kind |-> kind]
    /\ UNCHANGED <<devices, listed, preferred, chosen, consented, plugs>>

\* resolve_microphone_preference: what the settings page says.
ShownResolution ==
    IF preferred = Unset THEN [resolution |-> "default", reselect |-> FALSE]
    ELSE IF Cardinality(Matching) = 1 THEN [resolution |-> "fingerprint", reselect |-> FALSE]
    ELSE [resolution |-> IF Matching = {} THEN "default-fallback" ELSE "ambiguous-fingerprint",
          reselect |-> TRUE]

---------------------------------------------------------------------------
(* Transcription quality.                                                  *)

Tiers == {"fast", "balanced", "maximum"}
MeasuredTiers == {"balanced", "maximum"}
Unmeasured == [release |-> 0, factor |-> 0]
Limit(tier) == IF tier = "balanced" THEN 50 ELSE 100
NeededMemory(tier) == IF tier = "balanced" THEN 8 ELSE 16

\* evaluate_tier
Available(tier) ==
    \/ tier = "fast"
    \/ /\ Memory >= NeededMemory(tier)
       /\ policy.passed[tier]
       /\ policy.release[tier] = trusted[tier]

\* recommended_tier on a policy p: the maximum is never recommended.
AvailableIn(p, tier) ==
    Memory >= NeededMemory(tier) /\ p.passed[tier] /\ p.release[tier] = trusted[tier]
Recommended(p) == IF AvailableIn(p, "balanced") THEN "balanced" ELSE "fast"

\* resolve_policy
Resolved == IF Available(policy.tier) THEN policy.tier ELSE Recommended(policy)

ChooseTier(tier) ==
    LET use == IF Available(tier) THEN tier ELSE Recommended(policy) IN
    /\ policy' = [policy EXCEPT !.tier = use, !.explicit = TRUE]
    /\ granted' = use
    /\ UNCHANGED <<trusted, measured, ran, benchmarks>>

\* Mutant of RecordBenchmark: a slower run does not take the tier back.
RecordBenchmarkKeepsPass(tier, factor) ==
    LET p == [policy EXCEPT !.passed[tier] = @ \/ factor <= Limit(tier),
                            !.release[tier] = trusted[tier], !.state = "measured"] IN
    /\ benchmarks < MaxBenchmarks /\ benchmarks' = benchmarks + 1
    /\ policy' = [p EXCEPT !.tier = IF factor <= Limit(tier) /\ ~p.explicit THEN Recommended(p) ELSE @]
    /\ measured' = [measured EXCEPT ![tier] = [release |-> trusted[tier], factor |-> factor]]
    /\ UNCHANGED <<trusted, granted, ran>>

\* Mutant of RecordBenchmark: every passing run moves the preferred tier.
RecordBenchmarkPromotes(tier, factor) ==
    LET p == [policy EXCEPT !.passed[tier] = factor <= Limit(tier),
                            !.release[tier] = trusted[tier], !.state = "measured"] IN
    /\ benchmarks < MaxBenchmarks /\ benchmarks' = benchmarks + 1
    /\ policy' = [p EXCEPT !.tier = IF factor <= Limit(tier) THEN Recommended(p) ELSE @]
    /\ measured' = [measured EXCEPT ![tier] = [release |-> trusted[tier], factor |-> factor]]
    /\ UNCHANGED <<trusted, granted, ran>>

\* record_benchmark: accepted only for the trusted release of the model.
RecordBenchmark(tier, factor) ==
    LET p == [policy EXCEPT !.passed[tier] = factor <= Limit(tier),
                            !.release[tier] = trusted[tier], !.state = "measured"] IN
    /\ benchmarks < MaxBenchmarks /\ benchmarks' = benchmarks + 1
    /\ policy' = [p EXCEPT !.tier = IF factor <= Limit(tier) /\ ~p.explicit THEN Recommended(p) ELSE @]
    /\ measured' = [measured EXCEPT ![tier] = [release |-> trusted[tier], factor |-> factor]]
    /\ UNCHANGED <<trusted, granted, ran>>

\* record_benchmark_failure
RecordBenchmarkFailure ==
    /\ policy' = [policy EXCEPT !.state = IF \A t \in MeasuredTiers : ~policy.passed[t]
                                          THEN "failed" ELSE @]
    /\ UNCHANGED <<trusted, measured, granted, ran, benchmarks>>

\* A new version of the application trusts another release of the model.
UpgradeModel(tier) ==
    /\ benchmarks < MaxBenchmarks /\ benchmarks' = benchmarks + 1
    /\ trusted' = [trusted EXCEPT ![tier] = @ + 1]
    /\ UNCHANGED <<policy, measured, granted, ran>>

\* execute_local_inner: a model that the request names comes first, then the
\* model of the profile the capture was bound to, and the policy decides for a
\* recording without a profile only.
Transcribe(named, bound) ==
    LET tier == IF named # "none" THEN named ELSE IF bound # "none" THEN bound ELSE Resolved IN
    /\ ran' = [by |-> IF named # "none" THEN "request" ELSE IF bound # "none" THEN "profile" ELSE "policy",
               tier |-> tier,
               on |-> IF tier = "fast" THEN 0 ELSE trusted[tier],
               measured |-> IF tier = "fast" THEN Unmeasured ELSE measured[tier]]
    /\ UNCHANGED <<policy, trusted, measured, granted, benchmarks>>

---------------------------------------------------------------------------
MicInit ==
    /\ devices \in DeviceLists /\ listed = <<>> /\ preferred = Unset /\ chosen = "default"
    /\ opened = [got |-> Unset] /\ consented = {} /\ plugs = 0

MicNext ==
    \/ \E items \in SUBSET ConsentItems : AcknowledgeItems(items)
    \/ \E list \in DeviceLists : PlugDevices(list)
    \/ ListDevices \/ PreferDefault
    \/ \E n \in DOMAIN listed : SavePreferred(n)
    \/ \E kind \in {"mic", "both"}, request \in Requests : OpenMicrophone(kind, request)

QualityInit ==
    /\ policy = [tier |-> "fast", explicit |-> FALSE, state |-> "not-run",
                 passed |-> [t \in MeasuredTiers |-> FALSE],
                 release |-> [t \in MeasuredTiers |-> 0]]
    /\ trusted = [t \in MeasuredTiers |-> 1]
    /\ measured = [t \in MeasuredTiers |-> Unmeasured]
    /\ granted = "fast" /\ benchmarks = 0
    /\ ran = [by |-> "nothing", tier |-> "fast", on |-> 0, measured |-> Unmeasured]

QualityNext ==
    \/ \E tier \in Tiers : ChooseTier(tier)
    \/ \E tier \in MeasuredTiers, factor \in Factors : RecordBenchmark(tier, factor)
    \/ RecordBenchmarkFailure
    \/ \E tier \in MeasuredTiers : UpgradeModel(tier)
    \/ \E named, bound \in Tiers \cup {"none"} : Transcribe(named, bound)

\* The two choices, side by side.
PreferenceNext == (MicNext /\ UNCHANGED qualityVars) \/ (QualityNext /\ UNCHANGED micVars)
PreferenceSpec == MicInit /\ QualityInit /\ [][PreferenceNext]_<<micVars, qualityVars>>

---------------------------------------------------------------------------
(* Properties.                                                             *)

\* A microphone that is opened without asking for a new selection is the
\* default, or has the name and format of the row the user saved, however
\* the devices changed since the list was shown and since it was saved.
MicrophoneAsChosen ==
    LET got == opened.got IN
    opened # [got |-> Unset] /\ ~got.reselect => got.resolution = "default" \/ got.device = opened.asked

\* The settings page and the capture agree on the microphone: the page says
\* "fingerprint" exactly when a capture without a named device would open
\* the saved one.
PageAgrees ==
    devices # <<>> =>
        LET got == SelectedDevice("none")
        IN got.resolution = ShownResolution.resolution /\ got.reselect = ShownResolution.reselect

\* A transcription for which the policy decided (no model is named and no
\* profile is bound, as for imported media) ran on a tier above "fast" only
\* when the last benchmark of that tier was of the model in use and fast
\* enough, whatever was chosen, measured or upgraded before.
TierEarned ==
    ran.by = "policy" /\ ran.tier # "fast" =>
        /\ ran.measured.release = ran.on
        /\ ran.measured.factor <= Limit(ran.tier)
        /\ Memory >= NeededMemory(ran.tier)

\* A benchmark never replaces the tier the user chose.
ChoiceKept == policy.explicit => policy.tier = granted

\* A choice still means what the user chose when it is used: the microphone
\* after devices came and went, the tier after benchmarks and upgrades.
ChoicesSound == MicrophoneAsChosen /\ PageAgrees /\ TierEarned /\ ChoiceKept
=============================================================================
