---------------------------- MODULE SettingsFile ----------------------------
(***************************************************************************)
(* How the small settings files are replaced: the preferred microphone     *)
(* (capture_service.rs), the meeting profiles, the replacement rules, the  *)
(* Local AI fallback preference, the transcription quality and the consent *)
(* document.  All but the last write a temporary file, move the live file  *)
(* to a backup and the temporary file into its place; they differ in what  *)
(* a missing live file means.  Updates of one file are serialized by its   *)
(* lock.  Any call may fail and the process may die between two calls.     *)
(***************************************************************************)
EXTENDS Naturals

CONSTANTS
    Settings,       \* the values a document can have
    DefaultSetting, \* what is used when no file exists
    Stores,         \* the stores under study
    MaxSettingFaults,
    MaxUpdates      \* bounds on failing calls and on updates

ASSUME SettingConstants ==
    DefaultSetting \in Settings /\ {MaxSettingFaults, MaxUpdates} \subseteq Nat

VARIABLES
    store,      \* the store of this behaviour
    files,      \* its target, backup and temporary files
    saving,     \* the update in progress
    settingFaults, updates

settingVars == <<store, files, saving, settingFaults, updates>>

Missing == "missing"    \* no file
Torn == "torn"          \* a file that was being written when the process died
Refusing == "refusing"  \* a load that reports an error

\* restores: a backup without a target is moved back by a load; reads: an
\* update loads the document first; tidy: a failed update removes its
\* temporary file; staged: the update goes through that file.
MicrophoneStore == [restores |-> TRUE, reads |-> FALSE, tidy |-> FALSE, staged |-> TRUE]
ProfileStore == [restores |-> TRUE, reads |-> TRUE, tidy |-> TRUE, staged |-> TRUE]
RuleStore == [restores |-> TRUE, reads |-> TRUE, tidy |-> TRUE, staged |-> TRUE]
FallbackStore == [restores |-> FALSE, reads |-> FALSE, tidy |-> FALSE, staged |-> TRUE]
QualityStore == [restores |-> FALSE, reads |-> TRUE, tidy |-> FALSE, staged |-> TRUE]
ConsentDocument == [restores |-> FALSE, reads |-> TRUE, tidy |-> FALSE, staged |-> FALSE]

AllStores == {MicrophoneStore, ProfileStore, RuleStore, FallbackStore, QualityStore, ConsentDocument}
SafeStores == {s \in AllStores : s.restores /\ s.reads}
ForgetfulStores == {s \in AllStores : s.staged /\ ~s.restores}

ASSUME StoreChoice == Stores \subseteq AllStores

\* No document reads like one of the marks.
ASSUME MarksAreNoSettings == {Missing, Torn, Refusing} \cap Settings = {}

\* What a load by this store returns.
Loaded(s, f) ==
    IF f.target \in Settings THEN f.target
    ELSE IF f.target = Missing
         THEN IF f.backup \in Settings /\ s.restores THEN f.backup ELSE DefaultSetting
         ELSE IF f.backup \in Settings THEN f.backup ELSE Refusing

Quiet == [pc |-> "idle"]
Step(from, to) == saving.pc = from /\ saving' = [saving EXCEPT !.pc = to]
SettingFault == settingFaults < MaxSettingFaults /\ settingFaults' = settingFaults + 1
NoFault == UNCHANGED settingFaults

---------------------------------------------------------------------------
(* An update: read, modify, write, under the lock of the store.            *)

\* The backup is moved back when the live file is missing.
Restored(s, f) ==
    IF s.restores /\ f.target = Missing /\ f.backup \in Settings
    THEN [f EXCEPT !.target = f.backup, !.backup = Missing] ELSE f

LoadSetting ==
    /\ saving = Quiet
    /\ files' = Restored(store, files)
    /\ UNCHANGED <<store, saving, settingFaults, updates>>

BeginUpdate(v) ==
    /\ saving = Quiet /\ updates < MaxUpdates
    /\ store.reads => Loaded(store, files) # Refusing
    /\ files' = IF store.reads THEN Restored(store, files) ELSE files
    /\ saving' = [pc |-> IF store.staged THEN "clear" ELSE "rewrite",
                  new |-> v, old |-> Loaded(store, files), had |-> FALSE]
    /\ updates' = updates + 1
    /\ UNCHANGED <<store, settingFaults>>

\* The update ends with an error.
Failed(tmp) ==
    /\ SettingFault
    /\ files' = [files EXCEPT !.tmp = IF store.tidy THEN Missing ELSE tmp]
    /\ saving' = Quiet
    /\ UNCHANGED <<store, updates>>

ClearTemporary ==
    /\ \/ Step("clear", "stage") /\ files' = [files EXCEPT !.tmp = Missing] /\ NoFault
          /\ UNCHANGED <<store, updates>>
       \/ saving.pc = "clear" /\ Failed(files.tmp)

StageSetting ==
    /\ \/ Step("stage", "unback") /\ files' = [files EXCEPT !.tmp = saving.new] /\ NoFault
          /\ UNCHANGED <<store, updates>>
       \/ saving.pc = "stage" /\ Failed(Torn)

\* A stale backup is in the way of the next one.
RemoveBackup ==
    /\ \/ Step("unback", "aside") /\ files' = [files EXCEPT !.backup = Missing] /\ NoFault
          /\ UNCHANGED <<store, updates>>
       \/ saving.pc = "unback" /\ Failed(files.tmp)

TargetAside ==
    /\ \/ /\ saving.pc = "aside"
          /\ saving' = [saving EXCEPT !.pc = "promote", !.had = files.target # Missing]
          /\ files' = [files EXCEPT !.backup = files.target, !.target = Missing]
          /\ NoFault /\ UNCHANGED <<store, updates>>
       \/ saving.pc = "aside" /\ Failed(files.tmp)

\* Mutant of PromoteSetting: the backup is dropped before the promotion.
PromoteWithoutBackup ==
    /\ saving.pc = "promote"
    /\ \/ /\ saving' = [saving EXCEPT !.pc = "drop"]
          /\ files' = [files EXCEPT !.target = files.tmp, !.tmp = Missing, !.backup = Missing]
          /\ NoFault /\ UNCHANGED <<store, updates>>
       \/ /\ saving' = [saving EXCEPT !.pc = "undo"]
          /\ files' = [files EXCEPT !.backup = Missing]
          /\ SettingFault /\ UNCHANGED <<store, updates>>

PromoteSetting ==
    /\ saving.pc = "promote"
    /\ \/ /\ saving' = [saving EXCEPT !.pc = "drop"]
          /\ files' = [files EXCEPT !.target = files.tmp, !.tmp = Missing]
          /\ NoFault /\ UNCHANGED <<store, updates>>
       \/ /\ saving' = [saving EXCEPT !.pc = "undo"]
          /\ SettingFault /\ UNCHANGED <<store, files, updates>>

\* The old file is moved back, best effort, and the error reported.
UndoPromotion ==
    LET tmp == IF store.tidy THEN Missing ELSE files.tmp IN
    /\ saving.pc = "undo" /\ saving' = Quiet
    /\ \/ /\ files' = IF saving.had
                      THEN [target |-> files.backup, backup |-> Missing, tmp |-> tmp]
                      ELSE [files EXCEPT !.tmp = tmp]
          /\ NoFault
       \/ saving.had /\ files' = [files EXCEPT !.tmp = tmp] /\ SettingFault
    /\ UNCHANGED <<store, updates>>

\* The backup is removed, best effort, and the update acknowledged.
FinishUpdate ==
    /\ saving.pc = "drop" /\ saving' = Quiet
    /\ \/ files' = [files EXCEPT !.backup = Missing] /\ NoFault
       \/ files.backup # Missing /\ UNCHANGED files /\ SettingFault
    /\ UNCHANGED <<store, updates>>

\* The consent document is written in place.
RewriteDocument ==
    /\ \/ Step("rewrite", "rewriting") /\ files' = [files EXCEPT !.target = Torn]
       \/ /\ saving.pc = "rewriting" /\ saving' = Quiet
          /\ files' = [files EXCEPT !.target = saving.new]
    /\ UNCHANGED <<store, settingFaults, updates>>

\* The process dies; a temporary file that was being written is torn.
Interrupted ==
    /\ saving # Quiet /\ saving' = Quiet
    /\ files' \in {files, IF saving.pc = "stage" THEN [files EXCEPT !.tmp = Torn] ELSE files}
    /\ UNCHANGED <<store, settingFaults, updates>>

---------------------------------------------------------------------------
SettingInit ==
    /\ store \in Stores
    /\ files \in [target : Settings \cup {Missing}, backup : {Missing}, tmp : {Missing}]
    /\ saving = Quiet /\ settingFaults = 0 /\ updates = 0

SettingNext ==
    \/ LoadSetting
    \/ \E v \in Settings : BeginUpdate(v)
    \/ ClearTemporary \/ StageSetting \/ RemoveBackup \/ TargetAside \/ PromoteSetting
    \/ UndoPromotion \/ FinishUpdate \/ RewriteDocument
    \/ Interrupted

SettingSpec == SettingInit /\ [][SettingNext]_settingVars

---------------------------------------------------------------------------
(* Properties.                                                             *)

Update == IF saving = Quiet THEN Quiet ELSE [new |-> saving.new, old |-> saving.old]

SafeRegister == INSTANCE SettingRegister WITH
    Idle <- Quiet,
    value <- IF store \in SafeStores THEN Loaded(store, files) ELSE DefaultSetting,
    update <- IF store \in SafeStores THEN Update ELSE Quiet

\* Meeting profiles and replacement rules: whatever call fails and wherever
\* the process dies, a restart finds the setting of a register: the last
\* acknowledged one, or the interrupted one.
SettingIsRegister == SafeRegister!RegisterSpec

EveryRegister == INSTANCE SettingRegister WITH
    Idle <- Quiet, value <- Loaded(store, files), update <- Update

\* The same of every store of the run.
PreferenceIsRegister == EveryRegister!RegisterSpec
=============================================================================
