# TLA+ models of Candor

Candor records and transcribes meetings on the user's own machine. A React
renderer talks to an Electron main process, which talks JSON lines over standard
input and output to one Rust process, `candor-core`. This directory models the
core: its background work, the stores it keeps on disk, the capture of audio and
the services around them. TLC checks the models on small instances; TLAPS proves
their safety properties for every instance. Paths
below are relative to `crates/candor-core/src/` unless they start elsewhere; `JM`
is `job_manager.rs`. `PROJECT.json` maps every definition to the lines it models.

## 1. The system

| Component | State it keeps | Operations | What must hold |
|---|---|---|---|
| Job manager (`job_manager.rs`, handlers in `main.rs`) | jobs map, one worker thread per job, `inference_gate`, `recording_active`, `shutdown_requested`, `deleting_recordings` | submit, cancel, pauseAll, retry, acknowledge, retention, recording priority, deletion gate, follow-ups, restart | one inference at a time; a recording excludes imports; a cancellation sticks; every job settles |
| Job store file (`job_manager.rs`) | target, backup, migration backup, temporary and recovery files | save, purge, load with recovery, migrate, roll back | a saved job survives any kill; a purged job leaves no copy |
| Recording store (`recording_store.rs`) | per recording: chunk files, manifest with backup and temporary file, transcript revisions, receipts | start, write chunks, finish, abort, mark for recovery, recover, attempts, commit, select | nothing stored is lost; uncommitted text is shown nowhere; the life cycle is one-way |
| Library deletion, search index (`recording_store.rs`, `main.rs`) | deletion intents, tombstones, index generations, derived stores | delete, recover, rebuild, query | a confirmed deletion completes and leaves nothing; a query never shows old text |
| Capture (`capture_service.rs`) | active session, callback queue, writer, microphone test, live tap | start, stop, test, callbacks | a capture reported verified is complete; one owner per device; stop returns |
| Live transcript (`live_transcript_service.rs`, `live_asr_producer.rs`, `live_transcription.rs`) | sessions, bounded event queue, producer threads, mixer lanes | enable, start, stop, drain, reconcile, windows | no event of a session that ended; text in time order; producers end |
| Media import (`media_import_service.rs`, `media_import.rs`, `media_decoder.rs`) | private stage file, unfinished recording, validation slot | validate, inspect, import | the imported audio is that of the inspected file; a failure leaves nothing or says so |
| Background jobs on a local model (`background_jobs.rs`, `transcription_service.rs`, `local_instruct_model.rs`, `ai_fallback_preference.rs`) | prompt file, child process, attempts | transcribe, clean up, recap, ask | lineage and model named truly; no heuristic where forbidden; nothing stored after a cancellation |
| Models and packages (`model_manager.rs`, `parakeet_package.rs`, `local_instruct_assets.rs`, `bundled_ai_assets.rs`) | installed files, part file, manifests, remembered digests | upload, verify, install, replace, extract | only verified content is used; a replacement never leaves neither file |
| Dictionaries (`terminology_dictionary.rs`, `dictionary_staging.rs`) | encrypted document, stage files by token | stage, import, assign, decide, remove | what was reported saved stays; removed notes are in no copy |
| Vault and key (`vault_store.rs`, `os_key_store.rs`) | schema, rows, receipt, backup; the key | open, migrate, index, delete, get key | rows kept, deleted rows in no copy, one key |
| Settings, profiles, preferences (`meeting_profiles.rs`, `replacement_rules.rs`, `transcription_quality.rs`, `consent_store.rs`, `capture_service.rs`) | small documents | edit, select, snapshot, benchmark | a document is a register; no edit is lost; a choice made earlier still means the same |
| Text and audio algorithms, exports | none | | exact functions of their input |
| Electron shell (`electron/`) | child process, pending requests, close guard, downloads | call, close, quit | no quit with an unfinished recording |
| Renderer, CLI and MCP tools, scripts | views | | environment of the above |

How they interact. All RPCs are handled one at a time on the core's main thread,
so requests never interleave with each other; they interleave with the worker
threads, capture threads, producers, index rebuilds, the hourly maintenance thread
and process death. The jobs map is shared under one mutex, `recording_active` and
`shutdown_requested` are atomics read outside it, the inference slot is a second
mutex, the worker registry a third. `capture.start*` asks the job manager for
recording priority before it opens a device; `capture.stop` releases it and
submits a transcription, whose worker submits the recap;
`recording.durable.delete` closes the job manager's gate, deletes the recording,
cleans the derived stores, purges its jobs and opens the gate; a restart replays
unfinished deletions, then starts the saved jobs. Jobs call the recording store,
which serialises its operations with `manifest_mutation_lock`; each committed
change of text invalidates the search index.

What is hard: decisions taken under one lock and applied under the next; a barrier
with a deadline against an import that is cleaning up; a settlement racing cancel,
preemption and shutdown; multi-file writes cut short anywhere; threads detached
after a time-out; files that change between their check and their use; two writers
where one forgot the lock. `PROJECT.json` lists these as hazards, each at its line.

## 2. Modules

| Module | Role |
|---|---|
| `JobLedger` | abstract specification: an atomic register of jobs with accepted and erased sets |
| `JobStoreFile` | the job store's files, one action per file-system call; implements `JobLedger` |
| `JobEntries`, `JobManager` | a job entry and its updates; the manager, its threads, crash and restart |
| `ManifestFile` | how the manifest of a recording is replaced and read back |
| `RecordingStore` | one recording directory and every operation on it; extends `ManifestFile` |
| `RecordingReader` | a reader that probes the manifest names beside the writers; composes with `RecordingStore` |
| `TrustSearch` | the search index: generations, rebuilds, queries |
| `Deletion` | deletion, its recovery and the derived stores; extends and composes `TrustSearch` |
| `Capture` | capture session, callbacks, queues, writer, microphone test |
| `LiveTranscript`, `LiveMixer` | provisional transcription; the alignment of two sources into windows |
| `MediaFile`, `MediaImport` | what is made of a media file (pure operators); the import job and the validation request |
| `SettingRegister` | abstract specification: a register |
| `SettingsFile` | the settings files, one action per call; implements `SettingRegister` |
| `MeetingProfiles`, `Preferences` | profiles and rules under several windows; microphone and quality choices |
| `AiJobs` | transcription, clean-up, recap and questions on one recording |
| `ModelFiles` | model files: verification, upload, replacement |
| `ParakeetPackage`, `InstructAssets`, `BundledManifest`, `ModelAssets` | extraction, imported runner and model, readers of the bundled manifest; the last puts the three side by side |
| `Terminology` | the dictionaries' document and the staged packages |
| `Vault` | the vault with its migration, and the key |
| `JobStoreFileProofs`, `JobManagerProofs`, `RecordingStoreProofs`, `DeletionProofs` | the theorems about these modules |
| `CaptureProofs` | the theorems about `Capture`, `LiveMixer` and `LiveTranscript` |
| `SettingsProofs` | the theorems about `SettingsFile`, `MeetingProfiles` and `Preferences` |
| `ModelProofs` | the theorems about `ModelFiles`, `AiJobs` and `ModelAssets` |
| `DocumentProofs` | the theorems about `Vault`, `Terminology` and `MediaImport` |
| `MCJobStoreFile`, `MCJobManager`, `MCRecordingStore`, `MCCapture`, `MCServices` | instances for TLC; the last two run several independent components, one per behaviour, chosen by `part` |

### JobStoreFile

`fs` maps the five files of the store directory to absent, torn, or a document
(schema number and set of jobs). `pc` is the next call of the one writer
(`persistence_lock` serialises them), or `"down"`. `Submit`, `Save`,
`Acknowledge` and `Purge` begin a write; `StageTemp`, `SyncTemp`, `BackupTarget`,
`CommitTemp` and `CleanBackup` are the calls of `write_job_document`; `WriteDone`
and `WriteFailed` are what each caller does with the answer; `RemoveArtifacts` is
the purge of older copies; `Start`, `CopyBackup`, `RemoveUnread`, `PromoteCopy`,
`PrepareCurrent`, `BackupForMigration`, `MigrateDescriptors`, `VerifyMigration`,
`RollbackMigration` and `Install` are `JobManager::build`. Every call can fail
and `Crash` can follow any of them. `StartupReliable` says that no call fails
while the store is loaded; it separates what holds in general from what holds
only after a load that worked. A load goes through target, migration backup and backup
in that order (`TriedBefore`); when it passes over an intact one because its read failed, `misread`
remembers that, and the target is removed for the older copy. Renames are atomic and synced data is durable.

### JobManager

`jobs` is the map, `worker[j]` the next step of job `j`'s thread (`"none"`: not
registered), `slot` the holder of `inference_gate`, `main` the position of the
main thread in a multi-step request, `disk` the last saved snapshot.

| Action | Code |
|---|---|
| `Submit`, `EndSubmit` | `submit`, `submit_descriptor` with `Insert` and `SaveInserted` of `insert_job`, and the guards of the RPC arms |
| `ReadGate`, `ApplyGate` | `wait_for_priority`: decide under the lock, apply under the next |
| `EnterSlot`, `CheckRecording`, `StartTask`, `EndTask`, `PanicTask` | `spawn_once`, `spawn_descriptor` around the task, `set_running` |
| `Decide`, `Settle` | the flags read after the task, and `finish_*` or `set_paused` |
| `SubmitFollowUp`, `SaveFollowUp`, `MarkFollowUp` | `submit_follow_up`, `mark_follow_up_queued` |
| `Release` | `release_worker` |
| `CancelJob`, `CancelAll`, `PauseAll`, `Retry`, `Acknowledge`, `ApplyRetention` | the methods of those names |
| `RecoverLibrary` | `recording.durable.recover`: `reconcile_recovered_deletions`, then `resolve_media_import_cleanup_after_recovery` |
| `BeginRecording`, `SignalRecording`, `PassBarrier`, `FailBarrier`, `EndRecording` | `begin_recording_priority` and `set_recording_active(false)` in the capture arms |
| `BeginDeletion`, `FinishDeletion` | `begin_recording_deletion`, the recording store, `finalize_deletion_result` |
| `Crash`, `Restart` | process death; `build`, `reconcile_recovered_deletions`, `recover` |

Abstractions. An update of the map and the save that follows it are one step in
which the save may be lost; that also stands for a kill between the two, and
`JobStoreFile` models the save itself. The flags a worker reads after its task
(up to three separate reads) are one `Decide` step; the settlement is a second
step, so a request can still fall between. An insertion and its save are two steps
(`inserting` has the entries of the one not yet saved): in between the job is shown
and can be asked to stop, and a failing save takes it back (`TakeBack`). Descriptors, results, progress and messages are dropped; an error is its
code. A restart's follow-up submission is done by the parent's worker position,
which no other thread uses. A restart begins with no gate closed. `Reconcile` is what a
recovery of the recording store, at a start or on request, does about journalled deletions: some
have their data removed; these are gated, whatever their jobs do, and completed if their other
cleanups work. What a task does is in `AiJobs`, `MediaImport` and
`Terminology`; here it executes, polls its flag and ends.

### RecordingStore and ManifestFile

`slots` are `manifest.json`, its backup and its temporary file, `files` the chunk
files, `writer` the operation each of two writers performs and its next call.
`WriteStep` is `write_manifest` call by call (`ManifestFile`); every public
operation of the store is an action that reads the manifest as the code does, main
file, backup, then temporary file, and begins a write. `Recover` is start-up
recovery with its scan of file names; `Crash` falls between any two calls and a
call may fail within `MaxFaults`. A chunk is its kind, the marker in its name and
whether its descriptor still carries format and hash. `writer` has a second member
only for `record_recap_receipt`, which does not take the lock; the history variable
`overlapped` remembers whether it was written beside another operation (`Meet`). Such a receipt may be
built on any of the three names. `Readable` is what a holder of the guard reads; the list, the
pages, search and export take no guard, and `RecordingReader` lets a writer move the names between
the probes of such a read. `Found` is what any read can end with. `ContentSurfaces` are the places where
text is shown, `ComparisonView` the one that shows raw text, beside the revision made from it.

### Deletion and TrustSearch

`place`, `text` and the two generations describe the library and its index;
`backfill` is the rebuild thread, `editor` a thread that commits text, `query` a
search. `Deletion` adds the intent markers, the derived stores and the request
thread: `Prepare`, `StoreIntent`, rename, removal, invalidation, `CleanStage` for
each derived store, and the end. `Kill` and `Quit` end the process, `Start` is
start-up recovery. `remove_dir_all` may stop half way (`torn`). A request that finds a
rebuild holding the search lock (`SearchBusy`) waits five seconds for it and may give up each time.

### Capture, LiveTranscript, LiveMixer

`Capture`: `loop` is the request thread in a capture request, `thr` a native thread
per source, the callback queue and the serialised writer follow. Audio is counted
in blocks; a full queue drops a block, as the code does. `LiveTranscript`: `lts`
are the coordinator's sessions, `events` the queue to the renderer, `tap` the
bounded tap of the capture, `workers` the producer threads, detached ones
included; `Retain` is what `retain` does to the queue, by places rather than by
recursion, so that it can be reasoned about. `LiveMixer` is the mixer alone: each sample is named by its instant, so
that a misplaced one is seen.

### Services

`MediaImport` follows one job through validation, open, stage, copy, inspection,
writing, finish and abort, while anyone rewrites the file; the pieces of each file
kind are computed by `MediaFile`. A WAV file is parsed before the recording exists, any other is
decoded into it, so that what cannot be decoded turns up half way (`Inspected`, `Importable`). `SettingsFile` has six stores that differ in what
a missing live file means; consent is rewritten in place. `MeetingProfiles` and
`Preferences` treat a document replacement as one step (`SettingsFile` shows it). An id may be
given by the caller and so come back after a deletion (`reused`). `Transcribe` is the choice of a model: one
the request names, else that of the bound profile, else the quality policy's.
`AiJobs` has one model job at a time, as the scheduler allows, with requests that
commit, review and select revisions in between; a call of the recording store is
one step that may fail; the worker's `Settle` writes the end of the job down afterwards. `ModelFiles` and its companions name content by `trusted`
and `other` and give a file a new stamp at each change; hashing is two steps, so a
change can fall inside it. Chunks and aborts of an upload arrive while its finish runs on
a worker, as the main thread does not wait for it (`disturbed`). Two importers of assets may run at once
(`together`, and `shared` for those of one kind). `Vault` makes a transaction one step and lets the
process stop between any two; its initial vaults include those an earlier version migrated and
deleted rows of. `Terminology` writes its document call by call; the job
that imports a package removes it (`Unstage`) and returns (`FinishPackage`) in two steps,
between which the process may be killed. The main thread's `jobs.cancel`, `jobs.cancelAll` and
`jobs.acknowledge` delete packages one by one and then drop the descriptors (`withdrawn`), beside the
jobs and the hourly clean-up. A snapshot of the bundled manifest is the set of
places of its assets, since only the first or the last of them is ever asked for.

## 3. Runs

| Run | Instance | Shows |
|---|---|---|
| `store_file` | 3 jobs, any write call fails, any crash, loads work | `AcceptedDurable`, `PurgedErased`, and that the files implement `JobLedger` |
| `store_migration` | 2 jobs, one in a schema-1 store, any call fails, any crash | `LoadPreserves`: no step of loading, migrating or rolling back changes what a restart finds, unless the read of an intact copy failed (`PurgedErased` is proved for this instance too) |
| `jobs_recording` | transcription, media import, one recording that starts, one that is deleted, one shutdown, one panic, one crash | `RecordingExcludesImport`, `RecordingStartsClean`, `PreemptionReaches`, `CommittedImportReported` |
| `jobs_follow_up` | transcription, two possible recaps, one retry, one recording, one lost save, one crash | `FollowUpUnique`, `VisibleIsDurable`, `CancelSticks` |
| `jobs_deletion` | transcription, its recap, media import, one recording that starts, one deletion; fair threads | `DeletionGateQuiet`, `TerminalAfterTask`, and `EveryJobSettles` |
| `recording_store` | from no recording or a finished one; 3 chunks, 2 revisions, 3 operations, one fault, a reader without the guard, a recap receipt without the guard | `HistorySound`, `ReadsKeepUp`, `ChunkBytesKept`, `UncommittedInvisible`, `LifeCycle` |
| `library_deletion` | 2 recordings, one deletable, one edit, one query, one fault | `SearchSound`, `DeletionLeavesNothing`; `NoLostChange`, `WholeDeletionCompletes` |
| `capture` | a session of up to 2 sources and a microphone test with queues of 1 and 3 blocks; 2 recordings, 2 producers, queues of 1 and 2; a mixer of windows of 2 and lanes of 3 samples | `CaptureSafe`, `DeviceOwned`, `LiveSafe`, `WindowsFaithful`; `ThreadsEnd` |
| `services` | the 17 parts of `MCServices`, each with its bounds in `Services.cfg` | one or two invariants per service, below; `SettingIsRegister`: the settings files that restore a backup implement `SettingRegister` |
| `jobs_preempt` | refuted, see below | `PreemptionOnlyPauses` |
| `recording_orphan` | refuted, see below | `TracksKept` |
| `deletion_torn` | refuted, see below | `DeletionCompletes` |

The properties of the newer modules are conjunctions of named parts, each stated
with its comment where it is defined:

| Property | Parts |
|---|---|
| `HistorySound` | `TypeOK`, `HistoryKept` (what was reported stored is there for the next holder of the guard), `AuditTrail` (receipts account for revisions) |
| `SearchSound` | `DelTypeOK`, `SearchIsFresh`, `DeletedTextUnsearchable` |
| `DeletionLeavesNothing` | `NothingLeftBehind`, `TombstoneHasIntent` |
| `CaptureSafe`, `DeviceOwned` | `CapTypeOK`, `VerifiedIsComplete`, `ChunksDisjoint`; `DeviceExclusive`, `TestAudioCleared` |
| `LiveSafe`, `WindowsFaithful` | `LiveTypeOK`, `EventsOwned`, `ConsumerLive`, `ActiveIsHonest`, `TextInOrder`; `MixTypeOK`, `MixAligned`, `WindowsDisjoint` |
| `ThreadsEnd` | `StopCompletes`, `CancelledEnds` |
| `ImportSound` | `ImportTypeOK`, `ImportedIsInspected`, `PiecesAligned`, `NoSilentLeftover`, `StageDropped` |
| `ProfilesSound` | `ActiveResolves`, `VersionNamesContent`, `NoLostEdit`, `StoredProfilesUsable`, `SnapshotAsSelected`, `AppliedAsPreviewed` |
| `ChoicesSound` | `MicrophoneAsChosen`, `PageAgrees`, `TierEarned`, `ChoiceKept` |
| `TranscriptsTruthful`, `JobsLeaveNothing` | `LineageTrue`, `WholeTranscripts`, `RecapNamesModel`, `FallbackMarked`, `NeverHeuristic`; `CancelledStoresNothing`, `ChildOwned`, `PromptsGone` |
| `VaultSound` | `IndexKept`, `ForgottenEverywhere`, `MigrationUndoable`, `RetiredLater`, `NeverLockedOut`, `OneKey` |
| `ModelsSound` | `UsedIsTrusted`, `RememberedIsTrue`, `ReplacementAtHand` |
| `AssetsSound` | `RunsVerified`, `ImportedStaysUsable`, `ExtractedIsWhole`, `AcceptedIsWhole`, `ReadersAgree`, `ReadyIsUsable` |
| `DictionariesSound` | `PackageOnce`, `PromisesKept`, `RemovedEverywhere`, `StageKept` |

Deadlock is checked in the job manager's and the job store's runs: while the process
is up a request is always possible, and when it is down it can restart. The other
runs bound the number of requests and faults, and a behaviour that has used them
up really stops; they say `CHECK_DEADLOCK FALSE`.

Bounds. `JobStoreFile` needs none beyond the set of jobs: its state is finite,
and two jobs already distinguish "this job" from "another job in the same
document"; the third makes the one-shot and the descriptor path differ. In
`JobManager` the constant `Limit` bounds each kind of fault and request and
`FollowUp` the identifiers a follow-up may draw. One of each is enough for the
races considered: every one is a pair of actors (worker and main thread) and one
event, and the runs combine the events that meet in the code. `MaxRetained` is
above the number of jobs, so the capacity refusal is never taken by itself.
In `RecordingStore` three operations are an attempt, its chunk and its commit, or a
chunk, a finish and what follows; the instance also starts from a finished recording
with a revision, so that those three are not spent on getting there. One fault in
it is any kill or failing call anywhere, recovery included. Its constraint `LastAlone` leaves the last
operation without a reader beside it and without an overlapped receipt before it, and no fault
follows an overlap; `ChunkBytesKept` and `UncommittedInvisible`, which speak of such behaviours,
are proved for them. In `Deletion` one
recording is deleted and the other shows that nothing else is. In `Capture`
three blocks with queues of one and chunks of two make a full queue, a full chunk
and a remainder. Two producers are the timed-out one and its successor. The
mixer's seven instants give three windows and every offset between lanes. The
services' bounds are two or three of whatever must meet: two windows that edit,
two callers of a key, three launches of a migration (before, during, after), two importers and three
imports of assets, two faults of the dictionaries' document. `MaxRepairRows = 1` and `StoreLimit = 2`
are below what the runs reach, so that the refusals at the limit happen. The packages of the dictionaries are
a part of their own with one fault and two changes of the document.

Fairness. `FairSpec` (`JobManager`) asks weak fairness of each worker's next step
and of the main thread's pending request: workers are operating-system threads
whose tasks poll the cancellation flag and end, a handler that started runs to its
end, and the barrier has a deadline. Nothing is asked of the user, of recordings
(`EndRecording`), of faults or of `Restart`; `PanicTask` is not under fairness.
Waiting is by a condition variable with a time-out, so a missed wake-up only
delays. `CapFairness` asks it of the capture threads, the writer and the request
loop, and so assumes that a native device call returns; `LiveFairness` of every
producer thread, detached ones included. `DelFairness` asks it of the request
thread, the editor and the rebuild thread, and that a process that ended is
started again: a deletion left pending is completed by the next start, and the
application tells the user to restart. It asks nothing of kills or failures, which
are bounded, nor of the search lock: a rebuild may hold it at every start, so
`WholeDeletionCompletes` is stated for a request that does not find it busy for ever
(`\/ []<>SearchBusy`).

Refuted, each against a sentence of the repository (quoted under `findings`):

| Run | What happens |
|---|---|
| `jobs_preempt` | A restartable job between its two recording checks ends failed with `RECORDING_PRIORITY`; one that completes while it is preempted ends cancelled and its result is dropped. |
| `recording_orphan` | A kill between a chunk file and its manifest makes recovery rebuild the list of chunks from file names, which carry no audio format: the replay tracks of everything stored before are gone. |
| `deletion_torn` | A removal of a tombstone interrupted after its manifest was removed is never resumed, since the resumed deletion reads that manifest first. |

### Known disagreements

Behaviours that the models have and the code has, that contradict a sentence of the
repository or a reasonable reading of the property, and that no run of this project
repeats. Each is found by TLC within three minutes when the passing run is changed as
the second column says. Where the column says "without" a condition, the property of the
run has that condition because of what the row tells.

| Property | Change | What happens |
|---|---|---|
| `AcceptedDurable` | `JobStoreFile.cfg`: 2 jobs, `StartupReliable = FALSE` | A load fails, the manager runs on with an empty map, and its next best-effort save replaces the store it could not read (JM:699; `docs/…/claude-core-review.md:128` describes it). |
| `AcceptedDurable` | the same with `LegacyJobs = {j1}`, `StartupReliable = TRUE` | After a migration its backup stays and outranks the newer backup when a later write is cut between its two renames (JM:2929). |
| `TerminalAfterTask` | `JobManagerRecording.cfg`: `Job = {t}`, `Shutdowns = 1` | `jobs.pauseAll` turns `cancelling` into `cancelled` while the task executes (JM:1174). |
| `EveryJobSettles` | `JobManagerDeletion.cfg`: `Job = {t}`, `Retries = 1` | A retry between the settlement and `release_worker` leaves the job queued with no worker (JM:2449). |
| `DeletedHasNoJobs` | `JobManagerDeletion.cfg`: `Job = {t, c1}` | A deletion completes between a transcription's completion and its recap's insertion (JM:2054). |
| `LoadPreserves` | without `~misread` | A read of an intact store fails, the load falls through to an older copy (JM:2919-2934), and the store is removed for it (JM:3035-3043). |
| `DeletionGateQuiet` | `JobManagerDeletion.cfg`: `Job = {t}`, one crash | `deleting_recordings` is empty after a restart (JM:705), the saved job waits again, and a recovery that removed the recording's data closes the gate without looking (JM:1009, `main.rs:3186`). |
| `DeletionGateQuiet`, `PreemptionReaches` | one retry in their runs | `retry` does not consult the gate (JM:1239), and it clears the flags of a worker already past its recording check (JM:1248). |
| `HistoryKept` | without `~overlapped` | `record_recap_receipt` takes no lock and overwrites a revision committed meanwhile (`recording_store.rs:3344`; the comment at 175–181 says that all mutations take it). |
| `ReadsFind` | `RecordingStore.cfg`, as an invariant | A reader probes manifest, backup and temporary file while a writer renames them the other way round, and finds none: a stored recording is reported as missing (`recording_store.rs:6857-6926`). |
| `WholeDeletionCompletes` | without `\/ []<>SearchBusy` | The index is being rebuilt at every recovery and the deletion gives up after five seconds each time (`recording_store.rs:820-841`). |
| `NoSilentLeftover` | without its second alternative | `store.start` fails after it made the directory or staged the first manifest; the import returns without a clean-up and does not say that anything is left (`media_import_service.rs:263-267`). |
| `VersionNamesContent` | without `reused` | A caller may give the id of a deleted profile or rule set to a new one, which begins again at version 1 (`meeting_profiles.rs:446-450`, `replacement_rules.rs:280-283`). |
| `TierEarned` | without `ran.by = "policy"` | A capture binds a profile, and its model runs whatever the benchmarks say (`transcription_service.rs:808-826`). |
| `CancelledStoresNothing` | without `~late` | A job that is cancelled after its last look (`background_jobs.rs:465`) stores its result and is listed as cancelled (JM:2025-2028). |
| `PreferenceIsRegister` | `Services.cfg`, as a `PROPERTY` | After a kill between the two renames the fallback preference and the quality policy read as their defaults although the backup holds the choice (`ai_fallback_preference.rs:166`). |
| `CleanupNamesModel` | `Services.cfg`, as an invariant | A clean-up names the model found at its start; the one imported before its run is used (`background_jobs.rs:281`). A recap compares the two. |
| `LiveUsesVerified` | `Services.cfg`, as an invariant | The bundled model of a live transcript is taken from a snapshot without a second look at its stamp (`model_manager.rs:1069`, against `bundled_ai_assets.rs:338`). |
| `NeverLockedOut` | as `call.error # "lost-records"` | A vault that an earlier version migrated and deleted rows of is refused when the repair does not apply: another recording was deleted before the vault was opened, two rows are missing, a row is not in the backup, or the receipt counts more than 100,000 rows (`vault_store.rs:1234-1238`, `1372-1415`). |
| `OneKey` | without its condition | On a keyring, which has no lock, two callers that find no key each make one (`os_key_store.rs:346`). |
| `AbortLeavesAVersion` | `Services.cfg`, as an invariant | An abort between the removal of the old model and the rename of the new one (`model_manager.rs:802-812`) removes the part file, and neither version is left. The shell aborts when a finish is not answered (`electron/ipc/models-ipc.ts:96`). |
| `UsedIsTrusted` | without `"late-import"` | A chunk that arrives between the hash (`model_manager.rs:774`) and the rename (812) is installed unverified. |
| `ReplacementAtHand` | without `package.cut` | A kill, or a failed restore, while the old package is set aside: nothing looks for it at the next start (`model_manager.rs:875`). |
| `RunsVerified` | without `shared` | Two imports of one kind at once (`main.rs:1772-1802`): the digest of one is recorded with the stamp of the other (`local_instruct_assets.rs:321`). |
| `ImportedStaysUsable` | without `halfway`, or without `~together` | `set_asset_permissions` fails and leaves the new file with the old record (`local_instruct_assets.rs:320`); two imports at once, of which one puts back a manifest without the other's record. |
| `PromisesKept` | without `~cut` | After a kill between the renames the next write removes the backup, then the only copy, before it promotes (`terminology_dictionary.rs:1367`; comment at 779–781). |
| `PromisesReadable` | `Services.cfg`, as an invariant | No write has a bound, and every read refuses a document above 32 MiB (`terminology_dictionary.rs:1209`): what was reported saved cannot be read. |
| `StageKept` | without `withdrawn` | `jobs.cancelAll` or `jobs.acknowledge` deletes packages and fails, or the process ends, before the descriptors are dropped (`main.rs:2945-2986`, `3007-3027`): a job that is retried has no package. |
| `ProducerKeepsSession` | `Capture.cfg`, as an action property | A second `liveTranscript.start` is refused and marks the session of the running producer inactive (`main.rs:2081`). |

Not refuted, since nothing promises otherwise: a kill while the verification cache of a package is written
leaves its temporary file among the members (`parakeet_package.rs:762-795`), and the package is refused
for it from then on (605-640).

Two more restrictions are stated inside the properties. Two invariants of
`JobManager` hold outside a shutdown (`~shutdown`): after `jobs.pauseAll` a
cancelled import may still execute and the barrier no longer sees it. After a panic
in an exclusive task the slot is poisoned and every later exclusive job fails until
the application restarts.

Every property of a passing run has a mutant, and most parts of a conjunction one
of their own: the definition that `PROJECT.json` names is preceded by an operator
with a plausible slip, marked `Fault` or `Mutant of`, under which TLC finds the
property violated.

## 4. Proofs

The theorems hold for every value of the constants: every set of jobs, recordings
and settings, every ranking, capacity and length, and every bound on requests,
failures and kills. They rest on the named assumptions of the modules they are
about (`StoreAssumption`, `NoJobAssumption`, `JobAssumption`, `SearchConstants`,
`DeletionConstants`, `CaptureAssumption`, `MixerAssumption`, `LiveAssumption`, `ModelConstants`,
`SettingConstants`, `StoreChoice`, `MarksAreNoSettings`, `StoreConstants`, `EarlierStored`,
`MarksAreNoManifests`, `ProfileConstants`, `PreferenceConstants`, `AiConstants`, `VaultConstants`,
`TermConstants`, `InstructConstants`, `PackageConstants`, `BundleConstants`, `ImportConstants`,
`MediaConstants`). These give the constants
their types, and say besides that media imports are exclusive one-shot jobs and a
one-shot job has no recording (its `recording_id` comes from a descriptor), that
queues, limits and windows are not empty, that recordings are finitely many, that a profile draft names one of
the three tiers, and that no setting, manifest, recording or model id is one of the marks
for a missing, torn or refused file or for none. `EarlierStored` says that a recording of an earlier
session is valid by `validate_manifest_structure` and has its chunk files, that its raw
chunks are owned and its revisions accounted for by receipts, as every operation leaves them.

`JobStoreFileProofs`
- `TypeCorrect`: `TypeOK`. Strengthened by `RestoreHasSource`, because the
  restore step reads a file that must still exist.
- `PurgeErases`: `PurgedErased`, with all failures and crashes. `PurgeInv` adds
  that a purged job is in neither the map nor the document being written, and
  that the temporary file (before the promote) or the target (after it) holds
  exactly that document: otherwise a later write could bring the job back.
- `AcceptedIsDurable`: `AcceptedDurable`, given `StartupReliable` and no legacy
  store; the first two known disagreements show that each of the two
  assumptions is needed. `DurableInv` says which file holds the accepted jobs at
  each call: there is never a moment with neither target nor backup readable.
- `LoadingPreserves`: the action property `LoadPreserves`, for every schema-1 store and with
  every failure and crash, as long as the load did not pass over an intact copy (`misread`, whose
  row above shows that it is needed). `LoadInv`: target and backup are never torn, a restore
  still has its source, which is the first intact copy unless a read failed, and while a migration is under way the rollback backup lists the
  same jobs as whatever document is there, so that it does not matter which of them a
  restart finds.
- `StoreImplementsLedger`: the assumptions of `AcceptedIsDurable` give the refinement. Each step
  keeps the ledger's variables or is one `Write`, `Accept`, `Release` or `Erase`;
  only the promote and the restore change what is recoverable.

`JobManagerProofs`
- `TypeCorrect`: `TypeOK`. Strengthened by `ResultInv`, since an entry's error is
  taken from the result the worker holds.
- `RecordingIsExclusive` and `RecordingIsClean`: `RecordingExcludesImport` and
  `RecordingStartsClean`. `BarrierInv` says that while the recording flag is set
  every suspect import (it writes, it has passed its recording check and may
  still run, or its cleanup is unresolved) is held by the barrier: the targets are
  not collected yet, or it is one of them. Its second conjunct, a writing import
  is running or cancelling, is what makes the collection find it.
- `ShownIsDurable`, `FollowUpIsUnique`: `VisibleIsDurable` and `FollowUpUnique`, for the code's two
  steps of an insertion. `InsertInv` says that an entry is being inserted only while the main thread,
  or the worker of its parent, is about to save it, so that none is left unsaved by the way.
  `LifeInv` says of the map and of the snapshot on disk alike that a parent names
  at most one child and a child without its parent has none beside it; a lost
  save leaves the disk behind the map, so neither half is inductive alone. Its
  `UsedInv` keeps identifiers from being drawn twice.
- `CancellationSticks`: the action property `CancelSticks`, from `CancelInv` (a job
  being cancelled has its request set, and a request is never saved).
- `CommitIsReported`, `EndedAfterTask`, `SignalReaches`: `CommittedImportReported`,
  `TerminalAfterTask` and `PreemptionReaches`. `WorkInv` ties the place of each worker
  to the entry it works for. `EndedAfterTask` is stated for a core that is not
  closing and `SignalReaches` as long as nothing was retried: the known
  disagreements show that both are needed.
- `GateIsQuiet`: `DeletionGateQuiet` in the process that closed the gate (`FirstLife`: no crash, no
  retry; the rows above show that both are needed), with any lost saves and panics. `GateInv`
  adds that a deletion still journalled is gated, which is what a later recovery relies on.

`DeletionProofs`: `DelInv` has one part for each actor and each resource.
- `DeletionIsComplete`: `DeletionLeavesNothing`. `RequestInv` says what is true at each
  step of a deletion: the intent is stored before the rename, and it is dropped
  only when the last derived store is clean.
- `SearchIsSound`: `SearchSound`. `RebuildInv` says that the rows a rebuild has read so
  far, and the file it has written, are the library's text as long as its
  generation is the last; `LockInv` and `GenInv` (one thread has the flag, the lock
  is held where the code holds it) keep a second rebuild from replacing them.
- `NoChangeIsLost`: `NoLostChange`. `ChangeInv` says that a change the index lacks is
  attended by a thread, or its failure is shown.

`CaptureProofs`: `CapInv`, over `CapSpec`, for the first two.
- `CaptureIsSafe`: `CaptureSafe`. `ThreadInv` is the account of each source: blocks
  counted, pending and queued add up to the blocks delivered, or a failure is
  noted somewhere that the session's end will look at. `OrderInv` puts the stored
  chunks before the queued ones before the blocks still pending. `CoverInv` says
  that each counted block is in a stored or queued chunk unless an error is noted. When
  a session ends verified the queues are empty, so chunks in order that hold every
  block have no gap (`NoGap`).
- `DeviceHasOneOwner`: `DeviceOwned`. `SessionInv` says where threads may run and
  `ProbeInv` who owns the test's thread.
- `WindowsAreFaithful`: `WindowsFaithful`. `MixerInv` says that every sample of a lane
  was captured as far behind the start of the window as it stands in the lane, and that
  the window being filled begins where the last one ended or later.
  One lemma for each operation on a lane says how it moves that start.
- `LiveIsSafe`: `LiveSafe`. `SessionsInv` (the limits and the order of the text),
  `WaitingInv` (the events that wait are bounded and of a session that exists),
  `ProducersInv` (a slot names a thread of its recording) and `TapInv` (the sender is the
  consumer that attached last). The hazard is a thread that a time-out left
  behind and that still runs: each of its steps is shown to keep these.
  That what `Retain` keeps is in order, and was there, is an induction over the queue; it
  is done with the least place at which it could fail (`LeastNumber`, from `WFMin`).

`RecordingStoreProofs`: `StoreInv`. Every manifest, in one of the three names or in the
memory of a writer, is `Fine`: its revisions hold text of committed attempts or dictated
text (`Committed`), and unless the recording was aborted each of its chunks but raw transcripts is a whole file,
or the one the writer is about to create (`WholeOn`). No step loses a whole file that is not a
raw transcript (`Keeps`), so a manifest once fine stays fine, whoever replaces it.
- `UncommittedIsInvisible`: `UncommittedInvisible`. For recovery, `ScanFits` shows
  that a scan that succeeds finds exactly one file for each index, so that a
  descriptor made of a file name belongs to the same attempt as the one it replaces.
- `StoredBytesStay`: `ChunkBytesKept`.
- `RevisionsAreAccounted`: `TypeOK` and `AuditTrail`, two of the three parts of
  `HistorySound`. `SoundInv` says of every manifest, wherever it is, that its raw chunks
  are owned by revisions, each revision has one receipt, and no receipt names a revision to come:
  without the last the next commit would give a revision two.

These three hold with any number of faults and also when the unguarded writer overlaps the
guarded one, beyond the bounds of the run.
- `HistoryIsSound`: `HistorySound`, whose third part `HistoryKept` speaks of at most one
  fault and says nothing once a recap receipt was written beside another operation (`overlapped`; the
  known disagreements show that it could not), though behaviours where that happens are among those the
  theorem is about. `HistoryInv`, as long as it has not happened: at most one writer is busy; `Place` says
  where the manifest it writes is at each call of the replacement, and that its chunks
  are on disk or about to be; `Holds` says that it extends what was reported, and which
  name holds a manifest that already does and has its files (`Leads`). Until the fault it is
  the live one, or the one taking its place while there is none; after the fault it may
  be the backup, and while a write removes that backup it is the staged manifest. The
  chunk a failing call removes belongs to no manifest that leads, so `Leads` survives it.
  `HistoryReadable` shows that the read picks a manifest that leads.
- `LifeCycleIsOneWay`: `LifeCycle`, with any number of faults, until writers overlapped. The
  hazard is a read that falls back on an older manifest. `LifeInv` (for a recording not
  aborted): the live manifest is `Settled`, that is, no file that comes or goes later makes it
  readable, and so is the backup when the live one cannot be read (`Steady`); a write goes on
  from the manifest that a read finds, and the file it adds is none of that one's chunks
  (`Follows`). A manifest rebuilt by recovery may be unreadable, but lists only files that
  recovery has seen (`RecoverDoc`), so it is settled too.

`ModelProofs`
- `ModelsAreSound`: `ModelsSound`. `StampInv` and `CheckInv`: a stamp is never used again, so
  a verification that looked before a change remembers a digest no file has any
  more. `InstallInv`, `WhisperInv` and `ParakeetInv` say where the model is at each step of its
  replacement, with chunks and aborts at any moment: what is installed is the part that was hashed
  unless a chunk came late, and an undisturbed replacement has the old or the new version.
- `TranscriptsAreTruthful`, `JobsAreTidy`: `TranscriptsTruthful` and `JobsLeaveNothing`.
  `AiInv`: the selected revision is no cleaned one and each names an earlier one
  (`RevisionInv`), a job keeps at each step the input, the model and the mode it
  will name (`JobInv`), and the prompt file and the process are where its step says
  (`PromptInv`). `ListInv`: a job cancelled before its last look at the flag is kept from every step
  that stores, also when its worker writes its end down later. Requests commit and select revisions
  between any two steps.
- `AssetsAreSound`: `AssetsSound`, for any number of importers. `KindInv`: every record of a kind that two
  imports never shared has the digest of the file with its stamp, since the import that makes one finds
  its own file under the name. `AloneInv`: until two imports met there is at most one, and at
  each of its steps the files and records it would restore are those the user counts on
  (`InstructInv`). `ExtractInv`: a required member was seen
  exactly when it was written whole. `PackageInv`: a stamp that was noted is of a member as it
  was hashed, or of none that there still is. For the manifest, unique selectors leave one
  place that answers to a model's id, so that the first and the last are the same.

`SettingsProofs`
- `SettingImplementsRegister`: `SettingIsRegister`. `RegisterInv` says where the old
  and the new document are at each step of a save; in particular the removal of a stale backup
  never removes the only copy, because the save began with a load that
  moves a backup back. Then every step is a stutter or one step of
  `SettingRegister`, and only the promotion changes the setting.
- `ProfilesAreSound`: `ProfilesSound`. `ProfileInv` speaks of every version ever stored:
  a version of an id that was not created anew has one content, what a window has seen was stored, and
  the stored documents are the latest. Two windows then cannot both pass the comparison of versions.
- `ChoicesAreSound`: `ChoicesSound`. `MicInv`: the saved microphone is the row the user
  chose. `QualityInv`: a tier that passed was measured on the release the policy names. Transcriptions
  with a bound profile or a named model are among the steps; `TierEarned` speaks of the others.

`DocumentProofs`
- `VaultIsSound`: `VaultSound`, for both key backends and from every vault an earlier version can have
  left. `CallInv` and `RetireInv` say what a call knows at each of its steps, `SchemaInv` and
  `ReceiptInv` what the backup is for each schema and each state of the receipt, over
  launches too, and that rows are missing only from a vault of an earlier version (`Unrepaired`);
  `GhostInv` what was deleted and what was promised; `LockInv` what a refusal means. `KeyInv`: on
  DPAPI one thread at a time between the look and the write, elsewhere a key that was there stays.
- `DictionariesAreSound`: `DictionariesSound`, with any number of faults. `PromiseInv`: the
  change being written keeps all that was promised, and so does what a reader finds, except while
  the change is the only copy (`Bare`); given up there it loses the document (`cut`). `StageInv`: the
  package of a job that was not withdrawn stays on disk until it is imported, whoever deletes
  packages; `RemovedInv`: removed notes are in no file and in no change under way.
- `ImportIsAtomic`: `ImportTypeOK`, `NoSilentLeftover`, `StageDropped`, and that what was
  written is the beginning of the pieces of the inspected file, all of them once the recording is
  finished. `JobInv` says at which steps the private copy is the inspected file. A start that fails, and
  packets that turn out undecodable once the recording exists, are among the steps.
- `ImportIsSound`: `ImportSound`, for files that are `CutWell`: their pieces are a sequence,
  each aligned, and hold the whole audio. That is what the recursion over chunks, ranges and
  packets computes; it speaks of constants alone, and `ImportSound` at the end of an import
  that nobody disturbs checks it for each file of the run.

Only model-checked:
- liveness under fairness, beyond the prover: `EveryJobSettles`,
  `WholeDeletionCompletes`, `ThreadsEnd`;
- what a definition by recursion or a fold computes for every input: the pieces of a media
  file (`CutWell`).

## 5. Plan

1. `CoreClient`: supervision of the core process in
   `electron/core/core-client.ts` with `request-registry.ts` and
   `capture-recovery-store.ts`: time-outs, late answers, exit, handshake, recovery
   record. Abstract specification: a capture is ended only by the user, a stop or
   the death of the core. Then `CloseGuard` (`capture-close-guard.ts`,
   `desktop-quit-lifecycle.ts`) composed with it.
2. A composition of `Capture` with `JobManager`'s recording priority, and of `AiJobs`
   with `RecordingStore`; today each has the other's calls as single steps.
3. Pure algorithms as operators checked against reference definitions:
   replacement rules, diarization merge.

## 6. Not modelled

Encryption and SQLCipher (a file is readable or not); audio devices and codecs
(a device call returns or fails); the inference engines (a task ends with a result
or a code); schemas and input validation, which are stateless; report and
transcript exports, licence and update policy, the legacy importer; the Electron
shell, which the plan has next; the renderer, the read-only tools and the build
scripts.
