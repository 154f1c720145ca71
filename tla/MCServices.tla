---------------------------- MODULE MCServices ----------------------------
(* The services around the recordings, one per behaviour, each with its own *)
(* variables: the import of a media file, the settings files, the meeting   *)
(* profiles, the microphone and the transcription quality; the jobs that    *)
(* use a local model, the model files and their verification, the           *)
(* dictionaries, and the vault with its key.                                *)
EXTENDS MediaImport, SettingsFile, MeetingProfiles, Preferences, AiJobs, Vault, ModelFiles,
        ModelAssets, Terminology

CONSTANTS MaxPackageChanges, MaxPackageFaults

VARIABLE part

Fmt == [id |-> "fmt", len |-> 16]
Data(n) == [id |-> "data", len |-> n]
Other == [id |-> "LIST", len |-> 3]

Wav(channels, table, tail) ==
    LET f == [riff |-> 0, channels |-> channels, table |-> table, tail |-> tail]
    IN [path |-> "local", kind |-> "wav", magic |-> TRUE, size |-> FileSize(f),
        body |-> [f EXCEPT !.riff = FileSize(f) - 8]]

Stream(channels, packets) ==
    [path |-> "local", kind |-> "mp3", magic |-> TRUE, size |-> 9,
     body |-> [header |-> TRUE, channels |-> channels, packets |-> packets, intact |-> Len(packets)]]

Good == Wav(1, <<Fmt, Data(10), Other, Data(4)>>, 0)

MCSources ==
    {Good, Wav(1, <<Fmt, Data(4), Other, Data(10)>>, 0), Wav(2, <<Fmt, Data(6), Data(8)>>, 0),
     Wav(1, <<Fmt, Data(14)>>, 3), Wav(1, <<Data(14), Fmt, Fmt>>, 0), Wav(1, <<Fmt, Data(40)>>, 0), Wav(1, <<Fmt, Data(90)>>, 0),
     [Good EXCEPT !.body.riff = 1], [Good EXCEPT !.magic = FALSE], [Good EXCEPT !.path = "link"],
     [Good EXCEPT !.path = "network"], [Good EXCEPT !.path = "placeholder"],
     [Good EXCEPT !.path = "directory"],
     Stream(1, <<3, 1, 5>>), Stream(2, <<2, 2>>), Stream(1, <<>>), Stream(9, <<1>>),
     Stream(1, <<9, 9, 9>>), [Stream(1, <<3, 3>>) EXCEPT !.body.intact = 1],
     [Stream(1, <<3>>) EXCEPT !.body.header = FALSE]}

MCMixed == [Good EXCEPT !.path = "mixed"]

Draft(src, tier, language, speech, rules) ==
    [form |-> "good", source |-> src, tier |-> tier, language |-> language,
     speech |-> speech, rules |-> rules]

MCDrafts ==
    {Draft("mic", "fast", "en", "unset", "none"), Draft("mic", "fast", "padded-en", "unset", "r1"),
     Draft("mic", "fast", "padded-en", "small", "none"),
     Draft("system", "balanced", "auto", "parakeet", "r1"),
     Draft("mic", "maximum", "en", "large-v3", "none"),
     Draft("mic", "balanced", "en", "small", "none"),
     [Draft("mic", "fast", "en", "unset", "none") EXCEPT !.form = "bad"]}
MCRuleBodies ==
    {[form |-> "good", out |-> "x", protected |-> FALSE],
     [form |-> "good", out |-> "y", protected |-> TRUE],
     [form |-> "bad", out |-> "y", protected |-> FALSE]}

MCDeviceLists ==
    {<<"a">>, <<"a", "b">>, <<"b", "a">>, <<"a", "b", "b">>, <<"c", "a">>, <<>>}

Record(id, capability, kind, model, required) ==
    [id |-> id, capability |-> capability, kind |-> kind, model |-> model,
     required |-> required, host |-> TRUE, valid |-> TRUE]

MCBundleRecords ==
    {Record("s1", "speech", "model", "small", TRUE),
     [Record("s2", "speech", "model", "small", TRUE) EXCEPT !.host = FALSE],
     Record("s3", "speech", "model", "small", FALSE),
     Record("lr", "language", "runtime", "none", TRUE), Record("lm", "language", "model", "llm", TRUE),
     Record("l2", "language", "model", "llm2", FALSE), Record("td", "terminology", "data", "none", TRUE),
     [Record("bad", "speech", "data", "none", TRUE) EXCEPT !.valid = FALSE]}

modelVars == <<fileVars, uploadVars>>

\* A model is verified while it is replaced and imported ...
VerifiedModelNext ==
    \/ VerifyNext(Threads, {"job"}) \/ BundledFileNext \/ ReplaceNext
    \/ ImportStart("whisper", TRUE, TRUE) \/ ImportChunk(TRUE)

\* ... and uploaded, installed and replaced.
InstalledModelNext == VerifyNext({"request"}, {"request"}) \/ ReplaceNext \/ UploadNext

\* Packages are staged, imported and withdrawn with fewer changes and faults
\* than the document has by itself, and no recording is deleted meanwhile.
PackageTermNext ==
    /\ TermNext /\ deletedRecs' = {}
    /\ termChanges' <= MaxPackageChanges /\ termFaults' <= MaxPackageFaults

serviceVars == <<importVars, settingVars, profileVars, micVars, qualityVars>>
workVars == <<aiVars, vaultVars, keyVars, termVars>>

MCInit ==
    /\ part \in {"import", "validation", "settings", "profiles", "microphone", "quality",
                "jobs", "vault", "key", "verify", "install", "instruct", "extract", "package",
                "bundle", "terms", "packages"}
    \* the choices of another part's initial state do not matter
    /\ ImportInit /\ (part # "import" => source = Good /\ expected = Good)
    /\ SettingInit /\ (part # "settings" => store = ProfileStore /\ files.target = Missing)
    /\ MicInit /\ (part # "microphone" => devices = <<>>)
    /\ VaultInit /\ (part # "vault" => vault.schema = 0)
    /\ BundleInit /\ (part # "bundle" => releaseReady /\ intact = {r.id : r \in BundleRecords})
    /\ ModelInit
    /\ CASE part = "verify" -> everInstalled \subseteq {"whisper"}
         [] part = "install" -> file["bundled"] = NoFile /\ file["managed"].content # "other"
         [] OTHER -> file["bundled"] = NoFile /\ everInstalled = {}
    /\ KeyInit /\ (part # "key" => backend = "dpapi" /\ key = NoKey)
    /\ ProfileInit /\ QualityInit /\ AiInit /\ InstructInit
    /\ ExtractInit /\ PackageInit /\ TermInit

MCNext ==
    \/ /\ part = "import" /\ ImportNext
       /\ UNCHANGED <<part, settingVars, profileVars, micVars, qualityVars, workVars, modelVars, assetVars>>
    \/ /\ part = "validation" /\ ValidationNext
       /\ UNCHANGED <<part, settingVars, profileVars, micVars, qualityVars, workVars, modelVars, assetVars>>
    \/ /\ part = "settings" /\ SettingNext
       /\ UNCHANGED <<part, importVars, profileVars, micVars, qualityVars, workVars, modelVars, assetVars>>
    \/ /\ part = "profiles" /\ ProfileNext
       /\ UNCHANGED <<part, importVars, settingVars, micVars, qualityVars, workVars, modelVars, assetVars>>
    \/ /\ part = "microphone" /\ MicNext
       /\ UNCHANGED <<part, importVars, settingVars, profileVars, qualityVars, workVars, modelVars, assetVars>>
    \/ /\ part = "quality" /\ QualityNext
       /\ UNCHANGED <<part, importVars, settingVars, profileVars, micVars, workVars, modelVars, assetVars>>
    \/ /\ part = "jobs" /\ AiNext
       /\ UNCHANGED <<part, vaultVars, keyVars, termVars, serviceVars, modelVars, assetVars>>
    \/ /\ part = "vault" /\ VaultNext
       /\ UNCHANGED <<part, aiVars, keyVars, termVars, serviceVars, modelVars, assetVars>>
    \/ /\ part = "key" /\ KeyNext
       /\ UNCHANGED <<part, aiVars, vaultVars, termVars, serviceVars, modelVars, assetVars>>
    \/ /\ part = "verify" /\ VerifiedModelNext
       /\ UNCHANGED <<part, instructVars, extractVars, packageVars, bundleVars, serviceVars, workVars>>
    \/ /\ part = "install" /\ InstalledModelNext
       /\ UNCHANGED <<part, instructVars, extractVars, packageVars, bundleVars, serviceVars, workVars>>
    \/ /\ part = "instruct" /\ InstructNext
       /\ UNCHANGED <<part, modelVars, extractVars, packageVars, bundleVars, serviceVars, workVars>>
    \/ /\ part = "extract" /\ ExtractNext
       /\ UNCHANGED <<part, modelVars, instructVars, packageVars, bundleVars, serviceVars, workVars>>
    \/ /\ part = "package" /\ PackageNext
       /\ UNCHANGED <<part, modelVars, instructVars, extractVars, bundleVars, serviceVars, workVars>>
    \/ /\ part = "bundle" /\ BundleNext
       /\ UNCHANGED <<part, modelVars, instructVars, extractVars, packageVars, serviceVars, workVars>>
    \/ /\ part = "terms" /\ TermNext /\ UNCHANGED stageVars
       /\ UNCHANGED <<part, aiVars, vaultVars, keyVars, serviceVars, modelVars, assetVars>>
    \/ /\ part = "packages" /\ PackageTermNext
       /\ UNCHANGED <<part, aiVars, vaultVars, keyVars, serviceVars, modelVars, assetVars>>

MCSpec == MCInit /\ [][MCNext]_<<part, serviceVars, workVars, modelVars, assetVars>>
=============================================================================
