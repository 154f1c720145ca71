----------------------------- MODULE JobManager -----------------------------
(***************************************************************************)
(* JobManager of candor-core (job_manager.rs) with the RPC handlers that    *)
(* drive it (main.rs): submission, worker threads, the single inference     *)
(* slot, recording priority and its media-import barrier, cancellation,     *)
(* pausing for shutdown, retry, follow-ups, the recording deletion gate,    *)
(* and restart from the persisted snapshot.                                 *)
(*                                                                          *)
(* A critical section of the jobs lock together with the snapshot it saves  *)
(* is one step; a save may be lost, which also stands for a kill between    *)
(* the update and its save.  JobStoreFile models what a save does on disk.  *)
(* Requests are handled one at a time by the main thread; every worker is a *)
(* thread of its own.                                                       *)
(***************************************************************************)
EXTENDS JobEntries, Naturals, FiniteSets

CONSTANTS
    OneShot,        \* jobs submitted as a closure: no descriptor to restart
    MediaImport,    \* the one-shot jobs of type media-import
    Exclusive,      \* jobs that need the inference slot
    Rank,           \* scheduling order: type priority, then creation time
    FollowUp,       \* the identifiers a job's follow-up may be given
    Recording,      \* recordings that may be deleted
    RecordingOf,    \* the recordings (none or one) a job works on
    MaxRetained,    \* MAX_RETAINED_JOBS
    Limit           \* bound on each kind of request and fault

Faults == {"crash", "lostSave", "panic"}
Requests == {"retry", "recording", "shutdown"}

ASSUME JobAssumption ==
    /\ OneShot \subseteq Job
    /\ MediaImport \subseteq OneShot \cap Exclusive
    /\ Exclusive \subseteq Job
    /\ Rank \in [Job -> Nat]
    /\ FollowUp \in [Job -> SUBSET (Job \ OneShot)]
    /\ RecordingOf \in [Job -> SUBSET Recording]
    /\ \A j \in OneShot : RecordingOf[j] = {}   \* recording_id: of a descriptor
    /\ MaxRetained \in Nat
    /\ Limit \in [Faults \cup Requests -> Nat]

VARIABLES
    jobs,               \* the jobs map
    worker,             \* what the worker thread of each job does next
    result,             \* what the task of a job returned
    slot,               \* holder of inference_gate, "free" or "poisoned"
    recordingActive,    \* recording_active
    shutdown,           \* shutdown_requested
    main,               \* what the main thread does next
    targets,            \* media imports the recording barrier waits for
    deleting,           \* deleting_recordings
    pending,            \* recordings with a stored, unfinished deletion
    removing,           \* the recording whose deletion is being handled
    deleted,            \* recordings whose deletion completed
    disk,               \* the saved snapshot
    storeError,         \* persistence_error is set
    used,               \* identifiers drawn so far
    inserting,          \* by parent: the job insert_job has not saved yet
    faults, requests    \* how often each bounded event happened

workerVars == <<worker, result, slot>>
mainVars == <<recordingActive, shutdown, main, targets>>
deletionVars == <<deleting, pending, removing, deleted>>
insertVars == <<used, inserting>>
vars == <<jobs, workerVars, mainVars, deletionVars, disk, storeError, insertVars,
          faults, requests>>

WorkerSteps == {"none", "gate", "yield", "queue", "admit", "ready", "locked",
                "cleared", "task", "settle", "followUp", "insert", "mark",
                "spawn", "exit", "dead"}
Decisions == {"cancel", "pauseForClose", "pauseForRecording", "complete",
              "commit", "fail", "failAfterPreemption"}

TypeOK ==
    /\ jobs \in [Job -> Entry]
    /\ worker \in [Job -> WorkerSteps \cup Decisions]
    /\ result \in [Job -> Successes \cup ErrorCodes \cup {"none"}]
    /\ slot \in Job \cup {"free", "poisoned"}
    /\ recordingActive \in BOOLEAN
    /\ shutdown \in BOOLEAN
    /\ main \in {"down", "idle", "insert", "signal", "barrier", "purge", "resume"}
    /\ targets \in SUBSET MediaImport
    /\ deleting \in SUBSET Recording
    /\ pending \in SUBSET Recording
    /\ removing \in SUBSET Recording
    /\ deleted \in SUBSET Recording
    /\ disk \in [Job -> Entry]
    /\ storeError \in BOOLEAN
    /\ used \in SUBSET Job
    /\ inserting \in [Job \cup {NoJob} -> SUBSET Job]
    /\ faults \in [Faults -> Nat]
    /\ requests \in [Requests -> Nat]

Init ==
    /\ jobs = [j \in Job |-> NoEntry]
    /\ worker = [j \in Job |-> "none"]
    /\ result = [j \in Job |-> "none"]
    /\ slot = "free"
    /\ recordingActive = FALSE
    /\ shutdown = FALSE
    /\ main = "idle"
    /\ targets = {}
    /\ deleting = {} /\ pending = {} /\ removing = {} /\ deleted = {}
    /\ disk = [j \in Job |-> NoEntry]
    /\ storeError = FALSE
    /\ used = {}
    /\ inserting = [p \in Job \cup {NoJob} |-> {}]
    /\ faults = [f \in Faults |-> 0]
    /\ requests = [q \in Requests |-> 0]

-----------------------------------------------------------------------------
(* Saving, and other helpers *)

Present(j) == jobs[j].state # "absent"
Registered(j) == worker[j] # "none"
Unresolved(j, e) == j \in MediaImport /\ e.state = "failed" /\ RequiresRecovery(e.error)
UnresolvedImport(j) == Unresolved(j, jobs[j])

Snapshot(js) == [j \in Job |-> Persisted(js[j])]

Fault(f) == faults[f] < Limit[f] /\ faults' = [faults EXCEPT ![f] = @ + 1]
Request(q) == requests[q] < Limit[q] /\ requests' = [requests EXCEPT ![q] = @ + 1]

LoseSave == Fault("lostSave") /\ UNCHANGED disk

(* persist_best_effort: remember whether the save worked. *)
SaveBestEffort ==
    \/ disk' = Snapshot(jobs') /\ storeError' = FALSE /\ UNCHANGED faults
    \/ LoseSave /\ storeError' = TRUE

(* persist()? after the update: an error is returned, the update stays. *)
SaveOrReport ==
    /\ \/ disk' = Snapshot(jobs') /\ UNCHANGED faults
       \/ LoseSave
    /\ UNCHANGED storeError

(* mutate: nothing happens, and nothing is saved, when the job is gone. *)
Mutate(j, e) ==
    IF Present(j)
    THEN jobs' = [jobs EXCEPT ![j] = e] /\ SaveBestEffort
    ELSE UNCHANGED <<jobs, disk, storeError, faults>>

storeVars == <<jobs, disk, storeError, faults>>
requestVars == <<mainVars, deletionVars, insertVars, requests>>

Goto(j, step) == worker' = [worker EXCEPT ![j] = step]
Return(j, r) == result' = [result EXCEPT ![j] = r]
LeaveSlot(j) == slot' = IF slot = j THEN "free" ELSE slot
-----------------------------------------------------------------------------
(* Submission *)

(* Fault: the deletion gate is not consulted. *)
MayInsertUngated(j) ==
    /\ ~shutdown
    /\ j \in OneShot \/ ~storeError
    /\ Cardinality({k \in Job : Present(k)}) < MaxRetained

(* insert_job refuses new work. *)
MayInsert(j) ==
    /\ ~shutdown
    /\ j \in OneShot \/ ~storeError
    /\ RecordingOf[j] \cap deleting = {}
    /\ Cardinality({k \in Job : Present(k)}) < MaxRetained

(* insert_job puts the entry in the map and releases the lock ... *)
Insert(j, parent) ==
    /\ MayInsert(j)
    /\ jobs' = [jobs EXCEPT ![j] = NewEntry(parent)]
    /\ used' = used \cup {j}
    /\ inserting' = [inserting EXCEPT ![parent] = {j}]
    /\ UNCHANGED <<disk, storeError, faults>>

(* ... then saves the map, *)
SaveInserted(parent) ==
    /\ inserting' = [inserting EXCEPT ![parent] = {}]
    /\ disk' = Snapshot(jobs)
    /\ UNCHANGED <<jobs, storeError, faults, used>>

(* Fault: the entry is not taken back. *)
TakeBackNothing(parent) ==
    /\ inserting' = [inserting EXCEPT ![parent] = {}]
    /\ LoseSave
    /\ storeError' \in {TRUE, storeError}
    /\ UNCHANGED <<jobs, used>>

(* ... or takes the entry back; a store too large is not remembered. *)
TakeBack(parent) ==
    /\ inserting' = [inserting EXCEPT ![parent] = {}]
    /\ LoseSave
    /\ storeError' \in {TRUE, storeError}
    /\ jobs' = [j \in Job |-> IF j \in inserting[parent] THEN NoEntry ELSE jobs[j]]
    /\ UNCHANGED used

(* claim_worker and the thread it allows to start. *)
SpawnAlso(j) == IF Registered(j) THEN worker ELSE [worker EXCEPT ![j] = "gate"]

(* submit and submit_descriptor.  main.rs refuses a media import while a   *)
(* capture is active, and the interface only offers existing recordings.   *)
Submit(j) ==
    /\ main = "idle"
    /\ j \notin used /\ \A k \in Job : j \notin FollowUp[k]
    /\ j \in MediaImport => ~recordingActive
    /\ RecordingOf[j] \cap deleted = {}
    /\ Insert(j, NoJob)
    /\ main' = "insert"
    /\ UNCHANGED <<workerVars, recordingActive, shutdown, targets, deletionVars, requests>>

(* The answer to the request; a saved job has its worker started. *)
EndSubmit ==
    /\ main = "insert" /\ main' = "idle"
    /\ \/ /\ SaveInserted(NoJob)
          /\ worker' = [j \in Job |-> IF j \in inserting[NoJob] /\ ~Registered(j)
                                     THEN "gate" ELSE worker[j]]
       \/ TakeBack(NoJob) /\ UNCHANGED worker
    /\ UNCHANGED <<result, slot, recordingActive, shutdown, targets, deletionVars,
                   requests>>

-----------------------------------------------------------------------------
(* wait_for_priority *)

(* Fault: settled jobs still hold the queue. *)
BlockedBySettled(j) ==
    \E k \in Exclusive \ {j} : Present(k) /\ Rank[k] > Rank[j]

(* Another job goes first: it needs the slot, is wanted, and ranks higher. *)
Blocked(j) ==
    \E k \in Exclusive \ {j} :
        /\ Active(jobs[k]) /\ ~jobs[k].cancelRequested /\ ~jobs[k].shutdownPause
        /\ Rank[k] > Rank[j]

GateAnswer(j) ==
    IF ~Present(j) \/ jobs[j].cancelRequested THEN "cancel"
    ELSE IF jobs[j].shutdownPause \/ shutdown THEN "exit"
    ELSE IF j \in Exclusive /\ recordingActive THEN "yield"
    ELSE IF j \in Exclusive /\ Blocked(j) THEN "queue"
    ELSE "admit"

(* The decision is taken under the jobs lock ... *)
ReadGate(j) ==
    /\ worker[j] = "gate"
    /\ Goto(j, GateAnswer(j))
    /\ UNCHANGED <<result, slot, storeVars, requestVars>>

(* ... and applied under the lock again, after it was released. *)
ApplyGate(j) ==
    /\ \/ /\ worker[j] = "yield"
          /\ Mutate(j, SetPaused(jobs[j])) /\ Goto(j, "gate")
       \/ /\ worker[j] = "queue"
          /\ Mutate(j, SetQueued(jobs[j])) /\ Goto(j, "gate")
       \/ /\ worker[j] = "admit"
          /\ Mutate(j, Admit(jobs[j])) /\ Goto(j, "ready")
    /\ UNCHANGED <<result, slot, requestVars>>

-----------------------------------------------------------------------------
(* Running the task *)

(* context(), then inference_gate.lock() for exclusive work. *)
EnterSlot(j) ==
    /\ worker[j] = "ready"
    /\ \/ /\ ~Present(j)
          /\ Goto(j, "exit") /\ UNCHANGED <<slot, result>>
       \/ /\ Present(j) /\ j \notin Exclusive
          /\ Goto(j, "cleared") /\ UNCHANGED <<slot, result>>
       \/ /\ Present(j) /\ j \in Exclusive /\ slot = "free"
          /\ slot' = j
          /\ Goto(j, "locked") /\ UNCHANGED result
       \/ /\ Present(j) /\ j \in Exclusive /\ slot = "poisoned"
          /\ Return(j, "SCHEDULER_UNAVAILABLE")
          /\ Goto(j, "settle") /\ UNCHANGED slot
    /\ UNCHANGED <<storeVars, requestVars>>

(* The recording_active check inside the slot. *)
CheckRecording(j) ==
    /\ worker[j] = "locked"
    /\ \/ /\ recordingActive
          /\ Return(j, "RECORDING_PRIORITY") /\ LeaveSlot(j)
          /\ Goto(j, "settle")
       \/ /\ ~recordingActive
          /\ Goto(j, "cleared") /\ UNCHANGED <<slot, result>>
    /\ UNCHANGED <<storeVars, requestVars>>

(* set_running, which refuses a settled, cancelled or closing job. *)
StartTask(j) ==
    /\ worker[j] = "cleared"
    /\ \/ /\ MayRun(jobs[j])
          /\ jobs' = [jobs EXCEPT ![j] = SetRunning(@)] /\ SaveBestEffort
          /\ Goto(j, "task") /\ UNCHANGED <<slot, result>>
       \/ /\ ~MayRun(jobs[j])
          /\ Return(j, "JOB_CANCELLED") /\ LeaveSlot(j)
          /\ Goto(j, "settle") /\ UNCHANGED storeVars
    /\ UNCHANGED requestVars

(* What a task can return; a cancelled task may still return success. *)
TaskOutcome(j) ==
    IF j \in MediaImport
    THEN {"committed", "JOB_CANCELLED", "CLEANUP_FAILED", "TASK_FAILED"}
    ELSE {"ok", "TASK_FAILED"}

EndTask(j) ==
    /\ worker[j] = "task"
    /\ \E r \in TaskOutcome(j) : Return(j, r)
    /\ LeaveSlot(j)
    /\ Goto(j, "settle")
    /\ UNCHANGED <<storeVars, requestVars>>

(* A panic poisons the slot; only spawn_once catches it, the thread of a   *)
(* descriptor dies with its worker registration in place.                  *)
PanicTask(j) ==
    /\ worker[j] = "task"
    /\ Fault("panic")
    /\ slot' = IF slot = j THEN "poisoned" ELSE slot
    /\ Return(j, "WORKER_PANIC")
    /\ Goto(j, IF j \notin OneShot THEN "dead"
               ELSE IF j \in MediaImport THEN "failAfterPreemption" ELSE "fail")
    /\ UNCHANGED <<jobs, disk, storeError, requestVars>>

-----------------------------------------------------------------------------
(* Settling a job after its task *)

(* The flags spawn_descriptor reads before it settles. *)
DescriptorDecision(j) ==
    IF jobs[j].cancelRequested THEN "cancel"
    ELSE IF jobs[j].shutdownPause THEN "pauseForClose"
    ELSE IF result[j] \in Successes THEN "complete"
    ELSE IF jobs[j].preemptRequested THEN "pauseForRecording"
    ELSE "fail"

(* Fault: a request to stop is looked at before the commit. *)
OneShotDecisionStopFirst(j) ==
    IF jobs[j].cancelRequested \/ jobs[j].cancellation THEN "cancel"
    ELSE IF result[j] = "committed" THEN "commit"
    ELSE IF j \in MediaImport /\ RequiresRecovery(result[j])
         THEN "failAfterPreemption"
    ELSE IF result[j] \in Successes THEN "complete" ELSE "fail"

(* The flags spawn_once reads before it settles. *)
OneShotDecision(j) ==
    IF result[j] = "committed" THEN "commit"
    ELSE IF j \in MediaImport /\ RequiresRecovery(result[j])
         THEN "failAfterPreemption"
    ELSE IF j \in MediaImport /\ jobs[j].preemptRequested
         THEN IF result[j] \in {"JOB_CANCELLED", "RECORDING_PRIORITY"}
              THEN "cancel" ELSE "failAfterPreemption"
    ELSE IF jobs[j].cancelRequested \/ jobs[j].cancellation
         THEN IF jobs[j].preemptRequested THEN "fail" ELSE "cancel"
    ELSE IF result[j] \in Successes THEN "complete" ELSE "fail"

Decide(j) ==
    /\ worker[j] = "settle"
    /\ LET d == IF j \in OneShot THEN OneShotDecision(j) ELSE DescriptorDecision(j)
           yielded == d = "fail" /\ j \in OneShot /\ jobs[j].preemptRequested
       IN  /\ Goto(j, d)
           /\ IF yielded THEN Return(j, "RECORDING_PRIORITY") ELSE UNCHANGED result
    /\ UNCHANGED <<slot, storeVars, requestVars>>

Settled(j) ==
    CASE worker[j] = "cancel" -> FinishCancelled(jobs[j])
      [] worker[j] \in {"pauseForClose", "pauseForRecording"} -> SetPaused(jobs[j])
      [] worker[j] = "complete" -> FinishCompleted(jobs[j])
      [] worker[j] = "commit" -> FinishCommitted(jobs[j])
      [] worker[j] = "fail" -> FinishFailed(jobs[j], result[j])
      [] worker[j] = "failAfterPreemption" ->
            FinishFailedAfterPreemption(jobs[j], result[j])

(* Apply the decision.  A job that yielded to a recording waits again;     *)
(* a completed one goes on to its follow-up.                               *)
Settle(j) ==
    /\ worker[j] \in Decisions
    /\ Mutate(j, Settled(j))
    /\ Goto(j, IF worker[j] = "pauseForRecording" THEN "gate"
               ELSE IF /\ worker[j] = "complete" /\ j \notin OneShot
                       /\ Present(j) /\ ~CancellationWins(jobs[j])
                       /\ FollowUp[j] # {}
                    THEN "followUp" ELSE "exit")
    /\ UNCHANGED <<result, slot, requestVars>>

(* Fault: an existing follow-up is not looked for. *)
SubmitFollowUpAgain(j) ==
    /\ worker[j] = "followUp"
    /\ \E k \in FollowUp[j] \ used : Insert(k, j) /\ Goto(j, "insert")
    /\ UNCHANGED <<result, slot, mainVars, deletionVars, requests>>

(* submit_follow_up: reuse the follow-up a previous run left, or insert.   *)
SubmitFollowUp(j) ==
    /\ worker[j] = "followUp"
    /\ \/ /\ \E k \in Job : Present(k) /\ jobs[k].parent = j
          /\ Goto(j, "mark") /\ UNCHANGED <<storeVars, insertVars>>
       \/ /\ \A k \in Job : Present(k) => jobs[k].parent # j
          /\ \E k \in FollowUp[j] \ used :
                \/ Insert(k, j) /\ Goto(j, "insert")
                \/ /\ ~MayInsert(k)
                   /\ Goto(j, "exit") /\ UNCHANGED <<storeVars, insertVars>>
    /\ UNCHANGED <<result, slot, mainVars, deletionVars, requests>>

(* The follow-up is shown and may be cancelled before this save. *)
SaveFollowUp(j) ==
    /\ worker[j] = "insert"
    /\ \/ SaveInserted(j) /\ Goto(j, "spawn")
       \/ TakeBack(j) /\ Goto(j, "exit")
    /\ UNCHANGED <<result, slot, mainVars, deletionVars, requests>>

(* mark_follow_up_queued on the parent ... *)
MarkFollowUp(j) ==
    /\ worker[j] \in {"mark", "spawn"}
    /\ Mutate(j, [jobs[j] EXCEPT !.followUpQueued = TRUE])
    /\ LET child == {k \in FollowUp[j] : worker[j] = "spawn" /\ jobs[k].parent = j}
       IN  worker' = [k \in Job |->
                        IF k = j THEN "exit"
                        ELSE IF k \in child /\ ~Registered(k) THEN "gate"
                        ELSE worker[k]]
    /\ UNCHANGED <<result, slot, requestVars>>

(* release_worker, explicitly or when WorkerRegistration is dropped. *)
Release(j) ==
    /\ worker[j] = "exit"
    /\ Goto(j, "none") /\ Return(j, "none")
    /\ UNCHANGED <<slot, storeVars, requestVars>>

-----------------------------------------------------------------------------
(* Requests about jobs *)

CancelJob(j) ==
    /\ main = "idle" /\ Active(jobs[j])
    /\ jobs' = [jobs EXCEPT ![j] = Cancel(@)]
    /\ SaveBestEffort
    /\ UNCHANGED <<workerVars, requestVars>>

CancelAll ==
    /\ main = "idle"
    /\ jobs' = [j \in Job |-> IF jobs[j].state \in {"queued", "running", "paused"}
                              THEN CancelFromAll(jobs[j], Registered(j))
                              ELSE jobs[j]]
    /\ SaveOrReport
    /\ UNCHANGED <<workerVars, requestVars>>

(* pause_all_for_shutdown; nothing is saved when no job is active. *)
PauseAll ==
    /\ main = "idle" /\ Request("shutdown")
    /\ shutdown' = TRUE
    /\ jobs' = [j \in Job |-> IF Active(jobs[j])
                              THEN PauseForShutdown(jobs[j], j \in OneShot)
                              ELSE jobs[j]]
    /\ IF \E j \in Job : Active(jobs[j])
       THEN SaveOrReport ELSE UNCHANGED <<disk, storeError, faults>>
    /\ UNCHANGED <<workerVars, recordingActive, main, targets, deletionVars, insertVars>>

(* retry: the entry is reset and saved, then a worker started unless the   *)
(* previous one is still registered.                                       *)
Retry(j) ==
    /\ main = "idle" /\ ~storeError
    /\ Request("retry")
    /\ jobs[j].state \in {"failed", "cancelled", "paused"}
    /\ j \notin OneShot
    /\ jobs' = [jobs EXCEPT ![j] = RetryEntry(@)]
    /\ \/ disk' = Snapshot(jobs') /\ UNCHANGED faults /\ worker' = SpawnAlso(j)
       \/ LoseSave /\ UNCHANGED worker
    /\ UNCHANGED <<result, slot, storeError, mainVars, deletionVars, insertVars>>

Removable(j) == Terminal(jobs[j]) /\ ~UnresolvedImport(j)

Acknowledge(j) ==
    /\ main = "idle" /\ Removable(j)
    /\ jobs' = [jobs EXCEPT ![j] = NoEntry]
    /\ SaveBestEffort
    /\ UNCHANGED <<workerVars, requestVars>>

(* apply_retention, on the maintenance thread: a job settled long ago. *)
ApplyRetention(j) ==
    /\ main # "down" /\ Removable(j) /\ worker[j] = "none" /\ j \notin targets
    /\ jobs' = [jobs EXCEPT ![j] = NoEntry]
    /\ SaveOrReport
    /\ UNCHANGED <<workerVars, requestVars>>

-----------------------------------------------------------------------------
(* Recording priority: the capture.start* and capture.stop handlers *)

(* The compare-exchange that opens begin_recording_priority. *)
BeginRecording ==
    /\ main = "idle" /\ ~recordingActive
    /\ Request("recording")
    /\ recordingActive' = TRUE
    /\ main' = "signal"
    /\ UNCHANGED <<jobs, workerVars, shutdown, targets, deletionVars, disk,
                   storeError, faults, insertVars>>

(* Fault: every job that needs the slot is waited for. *)
BarrierTargetsAll == {j \in Exclusive : Active(jobs[j])}

(* Fault: an import that is already being cancelled is not waited for. *)
BarrierTargetsCancellable ==
    {j \in MediaImport : jobs[j].state \in {"queued", "running", "paused"}
                             \/ UnresolvedImport(j)}

(* media_import_barrier_targets *)
BarrierTargets == {j \in MediaImport : Active(jobs[j]) \/ UnresolvedImport(j)}

(* media_import_barrier_targets, then signal_recording_priority. *)
SignalRecording ==
    /\ main = "signal"
    /\ targets' = BarrierTargets
    /\ jobs' = [j \in Job |-> IF j \in Exclusive /\ Active(jobs[j])
                              THEN YieldToRecording(jobs[j], j \in MediaImport)
                              ELSE jobs[j]]
    /\ SaveBestEffort
    /\ main' = "barrier"
    /\ UNCHANGED <<workerVars, recordingActive, shutdown, deletionVars, insertVars, requests>>

(* Fault: any settled import counts as cleaned up. *)
BarrierVerifiedLoosely == \A j \in targets : Terminal(jobs[j])

(* verify_media_import_barrier_targets *)
BarrierVerified ==
    \A j \in targets : jobs[j].state \in {"completed", "cancelled"}

(* Every target's worker returned and its outcome is verified. *)
PassBarrier ==
    /\ main = "barrier"
    /\ \A j \in targets : ~Registered(j)
    /\ BarrierVerified
    /\ main' = "idle" /\ targets' = {}
    /\ UNCHANGED <<jobs, workerVars, recordingActive, shutdown, deletionVars,
                   disk, storeError, insertVars, faults, requests>>

(* set_recording_active(false) *)
EndPriority ==
    /\ recordingActive' = FALSE
    /\ UNCHANGED jobs
    /\ SaveBestEffort

(* The deadline passed, or an outcome could not be verified. *)
FailBarrier ==
    /\ main = "barrier"
    /\ (\E j \in targets : Registered(j)) \/ ~BarrierVerified
    /\ EndPriority
    /\ main' = "idle" /\ targets' = {}
    /\ UNCHANGED <<workerVars, shutdown, deletionVars, insertVars, requests>>

(* capture.stop saved the recording, or capture.start failed. *)
EndRecording ==
    /\ main = "idle" /\ recordingActive
    /\ EndPriority
    /\ UNCHANGED <<workerVars, shutdown, main, targets, deletionVars, insertVars, requests>>

-----------------------------------------------------------------------------
(* Deletion of a recording: recording.durable.delete *)

(* begin_recording_deletion: refused while work for it is active, unless   *)
(* the gate is already held by an attempt that did not complete.  The      *)
(* gate's lock is held by insert_job until it has saved.                   *)
BeginDeletion(r) ==
    /\ main = "idle" /\ r \notin deleted
    /\ \A p \in Job \cup {NoJob} : \A j \in inserting[p] : r \notin RecordingOf[j]
    /\ \/ r \in deleting
       \/ \A j \in Job : r \in RecordingOf[j] => ~Active(jobs[j])
    /\ deleting' = deleting \cup {r}
    /\ removing' = {r}
    /\ main' = IF r \in deleting THEN "resume" ELSE "purge"
    /\ UNCHANGED <<jobs, workerVars, recordingActive, shutdown, targets, pending,
                   deleted, disk, storeError, insertVars, faults, requests>>

Purged == [j \in Job |-> IF RecordingOf[j] \cap removing # {} THEN NoEntry
                         ELSE jobs[j]]

(* delete_finished and finalize_deletion_result: refused by the recording  *)
(* store, complete, or stopped half-way with the gate held.                *)
FinishDeletion ==
    /\ main \in {"purge", "resume"}
    /\ main' = "idle" /\ removing' = {}
    /\ \/ /\ main = "purge" /\ deleting' = deleting \ removing
          /\ UNCHANGED <<jobs, disk, faults, pending, deleted>>
       \/ /\ pending' = pending \cup removing
          /\ UNCHANGED <<jobs, disk, faults, deleting, deleted>>
       \/ /\ jobs' = Purged
          /\ \/ /\ disk' = Snapshot(jobs') /\ UNCHANGED faults
                /\ \/ /\ deleting' = deleting \ removing
                      /\ pending' = pending \ removing
                      /\ deleted' = deleted \cup removing
                   \/ pending' = pending \cup removing /\ UNCHANGED <<deleting, deleted>>
             \/ LoseSave /\ pending' = pending \cup removing /\ UNCHANGED <<deleting, deleted>>
    /\ UNCHANGED <<workerVars, recordingActive, shutdown, targets, storeError, insertVars,
                   requests>>

(* The jobs of cleaned recordings are purged; resolve_media_import_cleanup_ *)
(* after_recovery settles failed imports.                                   *)
Recovered(js, cleaned, resolved) ==
    [j \in Job |-> IF RecordingOf[j] \cap cleaned # {} THEN NoEntry
                   ELSE IF resolved /\ Unresolved(j, js[j])
                   THEN [js[j] EXCEPT !.error = "RESOLVED"] ELSE js[j]]

(* A recovery of the recording store, of a manager with the map js.  It has *)
(* removed the data of some pending deletions: reconcile_recovered_         *)
(* deletions gates these, whatever their jobs do, purges the jobs, and      *)
(* completes those whose other cleanups worked.  Imports are resolved when  *)
(* nothing stays pending.                                                   *)
Reconcile(js, done, resolved) ==
    \E gated \in SUBSET pending : \E cleaned \in SUBSET gated :
        /\ done \subseteq cleaned
        /\ deleting' = (deleting \cup gated) \ done
        /\ pending' = pending \ done
        /\ deleted' = deleted \cup done
        /\ resolved => pending' = {}
        /\ jobs' = Recovered(js, cleaned, resolved)

(* recording.durable.recover *)
RecoverLibrary ==
    /\ main = "idle" /\ ~recordingActive
    /\ \A j \in MediaImport : ~Active(jobs[j])
    /\ pending # {} \/ \E j \in MediaImport : UnresolvedImport(j)
    /\ \/ \E done \in SUBSET pending, resolved \in BOOLEAN :
            /\ Reconcile(jobs, done, resolved)
            /\ disk' = Snapshot(jobs') /\ UNCHANGED faults
            /\ storeError' = IF resolved /\ \E j \in MediaImport : UnresolvedImport(j)
                             THEN FALSE ELSE storeError
       \/ /\ Reconcile(jobs, {}, FALSE)
          /\ LoseSave /\ storeError' \in {TRUE, storeError}
    /\ UNCHANGED <<workerVars, mainVars, removing, insertVars, requests>>

-----------------------------------------------------------------------------
(* The process ends, by a kill or after core.shutdown, and starts again *)

Crash ==
    /\ main # "down"
    /\ Fault("crash")
    /\ main' = "down"
    /\ jobs' = [j \in Job |-> NoEntry]
    /\ worker' = [j \in Job |-> "none"]
    /\ result' = [j \in Job |-> "none"]
    /\ slot' = "free"
    /\ recordingActive' = FALSE /\ shutdown' = FALSE
    /\ targets' = {}
    /\ deleting' = {} /\ removing' = {}
    /\ storeError' = FALSE
    /\ inserting' = [p \in Job \cup {NoJob} |-> {}]
    /\ pending' \in {pending, pending \cup removing}   \* was the intent stored?
    /\ UNCHANGED <<deleted, disk, used, requests>>

(* build, the recovery of the recording store, and recover. *)
Restart ==
    /\ main = "down"
    /\ main' = "idle"
    /\ \E done \in SUBSET pending, resolved \in BOOLEAN :
        /\ Reconcile([j \in Job |-> FromPersisted(disk[j], j \in OneShot)], done, resolved)
        /\ SaveBestEffort
        /\ storeError' => done = {} /\ ~resolved
    /\ worker' = [j \in Job |->
                    IF j \in OneShot THEN "none"
                    ELSE IF Active(jobs'[j]) THEN "gate"
                    ELSE IF /\ jobs'[j].state = "completed"
                            /\ ~jobs'[j].followUpQueued /\ FollowUp[j] # {}
                         THEN "followUp" ELSE "none"]
    /\ UNCHANGED <<result, slot, recordingActive, shutdown, targets, removing,
                   insertVars, requests>>

-----------------------------------------------------------------------------
WorkerStep(j) ==
    \/ ReadGate(j) \/ ApplyGate(j)
    \/ EnterSlot(j) \/ CheckRecording(j) \/ StartTask(j) \/ EndTask(j)
    \/ Decide(j) \/ Settle(j)
    \/ SubmitFollowUp(j) \/ SaveFollowUp(j) \/ MarkFollowUp(j)
    \/ Release(j)

MainStep == EndSubmit \/ SignalRecording \/ PassBarrier \/ FailBarrier \/ FinishDeletion

Next ==
    \/ \E j \in Job : WorkerStep(j) \/ PanicTask(j)
    \/ \E j \in Job : Submit(j) \/ CancelJob(j) \/ Retry(j) \/ Acknowledge(j)
                        \/ ApplyRetention(j)
    \/ CancelAll \/ PauseAll \/ RecoverLibrary
    \/ BeginRecording \/ EndRecording
    \/ \E r \in Recording : BeginDeletion(r)
    \/ MainStep
    \/ Crash \/ Restart

Spec == Init /\ [][Next]_vars

(* Threads keep running and tasks end; a started request is answered.  The *)
(* user, recordings, faults and restarts are under no obligation.          *)
FairSpec ==
    /\ Spec
    /\ \A j \in Job : WF_vars(WorkerStep(j))
    /\ WF_vars(MainStep)

-----------------------------------------------------------------------------
(* Properties *)

(* begin_recording_priority has returned Ok and capture may be running. *)
RecordingGranted == recordingActive /\ main \notin {"signal", "barrier"}

(***************************************************************************)
(* Once begin_recording_priority has granted the recording, no media       *)
(* import is decoding or writing, however its worker's own check of        *)
(* recording_active was interleaved with the request.                      *)
(***************************************************************************)
RecordingExcludesImport ==
    RecordingGranted /\ ~shutdown => \A j \in MediaImport : worker[j] # "task"

(***************************************************************************)
(* A recording never runs while an import that failed its own cleanup is   *)
(* unresolved: the barrier refuses to start over recording data of unknown *)
(* state, also after that failure was followed by a restart.               *)
(***************************************************************************)
RecordingStartsClean ==
    RecordingGranted /\ ~shutdown => \A j \in MediaImport : ~UnresolvedImport(j)

(***************************************************************************)
(* An exclusive task that still executes during a recording has its        *)
(* cancellation flag set: signal_recording_priority reaches a worker at    *)
(* whatever point between the priority check and set_running it is.        *)
(***************************************************************************)
PreemptionReaches ==
    recordingActive /\ main # "signal" =>
        \A j \in Exclusive : worker[j] = "task" /\ Present(j) => jobs[j].cancellation

(***************************************************************************)
(* When the import's recording was committed, the worker leaves its job    *)
(* completed, whatever cancellation, preemption or shutdown came in        *)
(* between the commit and the settlement.                                  *)
(***************************************************************************)
CommittedImportReported ==
    \A j \in MediaImport : worker[j] = "exit" /\ result[j] = "committed" =>
        jobs[j].state \in {"completed", "absent"}

(***************************************************************************)
(* A completed job gets at most one follow-up, also when the process dies  *)
(* between inserting it and marking the parent.                            *)
(***************************************************************************)
FollowUpUnique ==
    \A j, k \in Job : /\ Present(j) /\ Present(k)
                      /\ jobs[j].parent = jobs[k].parent /\ jobs[j].parent # NoJob
                      => j = k

(***************************************************************************)
(* Every job the manager shows would be found by a restart, though later   *)
(* updates of it may not have been saved, unless insert_job has not yet    *)
(* returned for it: an entry whose save failed does not stay in the map,   *)
(* whatever was requested of it between the insertion and the save.        *)
(***************************************************************************)
VisibleIsDurable ==
    \A j \in Job : Present(j) =>
        disk[j].state # "absent" \/ \E p \in Job \cup {NoJob} : j \in inserting[p]

(***************************************************************************)
(* A job the user cancelled is never completed, failed, paused or resumed  *)
(* by its worker, a recording or a shutdown, as long as the process lives. *)
(* A committed import is the one exception.                                *)
(***************************************************************************)
CancelSticks ==
    [][\A j \in Job \ MediaImport :
        Active(jobs[j]) /\ jobs[j].cancelRequested =>
            main' = "down" \/ jobs'[j].state \in {"cancelling", "cancelled", "absent"}]_vars

(***************************************************************************)
(* While the deletion gate of a recording is held, none of its jobs is     *)
(* waiting or running, in the process that closed the gate: a restart      *)
(* forgets the gate and a later recovery closes it without looking.        *)
(***************************************************************************)
DeletionGateQuiet ==
    \A j \in Job : RecordingOf[j] \cap deleting # {} => ~Active(jobs[j])

(***************************************************************************)
(* After the deletion of a recording completed, the manager lists no job   *)
(* that works on it.                                                       *)
(***************************************************************************)
DeletedHasNoJobs ==
    \A j \in Job : RecordingOf[j] \cap deleted # {} => ~Present(j)

(***************************************************************************)
(* A job is not reported as ended while its task still executes.           *)
(***************************************************************************)
TerminalAfterTask ==
    \A j \in Job : worker[j] = "task" => ~Terminal(jobs[j])

(* Restartable inference whose worker is alive and which the user did not  *)
(* cancel.                                                                 *)
Wanted(j) ==
    /\ j \in Exclusive \ OneShot
    /\ Active(jobs[j]) /\ ~jobs[j].cancelRequested /\ Registered(j)

(***************************************************************************)
(* A recording that takes priority only pauses restartable work: it never  *)
(* makes the job fail, and only the user's request ends it as cancelled.   *)
(***************************************************************************)
PreemptionOnlyPauses ==
    [][\A j \in Job : Wanted(j) => /\ jobs'[j].error # "RECORDING_PRIORITY"
                                   /\ jobs'[j].state # "cancelled"]_vars

(***************************************************************************)
(* Every job is eventually settled, unless a recording keeps the slot, the *)
(* core is closing, or it is not running.                                  *)
(***************************************************************************)
EveryJobSettles ==
    \A j \in Job : Active(jobs[j]) ~>
        (~Active(jobs[j]) \/ recordingActive \/ shutdown \/ main = "down")
==============================================================================
