SPECIFICATION MCSpec
CONSTANTS
    PieceBytes = 5
    MaxTable = 4
    MaxDuration = 80
    Rate = 3
    Second = 10
    MediaSources <- MCSources
    Mixed <- MCMixed
    MaxBytes = 100
    MaxRewrites = 1
    MaxImportFaults = 2
    MaxValidations = 3
    Settings = {"a", "b", "c"}
    DefaultSetting = "a"
    Stores <- AllStores
    MaxSettingFaults = 2
    MaxUpdates = 3
    Windows = {w1, w2}
    ProfileIds = {"p1"}
    RuleIds = {"r1"}
    BuiltIn = "general"
    Drafts <- MCDrafts
    RuleBodies <- MCRuleBodies
    ProfileLimit = 1
    RuleSetLimit = 1
    MaxProfileEdits = 3
    DeviceLists <- MCDeviceLists
    Memory = 16
    Factors = {40, 80, 120}
    MaxPlugs = 2
    MaxBenchmarks = 4
    MaxBatches = 2
    MaxRevisions = 3
    MaxSubmissions = 2
    MaxStoreFaults = 1
    MaxEvents = 2
    Ids = {"r1", "r2"}
    Callers = {c1, c2}
    MaxRepairRows = 1
    MaxVaultCalls = 4
    MaxVaultFaults = 1
    MaxLaunches = 3
    Pieces = 2
    MaxStamps = 2
    MaxModelFaults = 1
    MaxUploads = 1
    Importers = {w1, w2}
    MaxAssetImports = 3
    MaxAssetFaults = 2
    MaxEntries = 4
    MaxEntryReads = 5
    MaxTouches = 3
    BundleRecords <- MCBundleRecords
    MaxRecords = 4
    MaxDamaged = 1
    TermPackages = {"general", "k1"}
    TermRecordings = {"m1"}
    DictionaryLimit = 2
    StoreLimit = 2
    MaxStages = 2
    MaxTermChanges = 4
    MaxTermFaults = 2
    MaxPackageChanges = 2
    MaxPackageFaults = 1
INVARIANTS ImportSound ProfilesSound ChoicesSound TranscriptsTruthful JobsLeaveNothing
    VaultSound ModelsSound  
PROPERTIES SettingIsRegister
CHECK_DEADLOCK FALSE
