----------------------------- MODULE JobEntries -----------------------------
(***************************************************************************)
(* JobEntry of job_manager.rs and the updates the manager applies to one    *)
(* entry under the jobs lock.  Times, stages, progress and results are left *)
(* out; an error keeps its code.  An identifier that is not in the jobs map *)
(* has state "absent".                                                      *)
(***************************************************************************)
CONSTANTS
    Job,            \* job identifiers
    NoJob           \* parent_job_id of a job that is not a follow-up

ASSUME NoJobAssumption == NoJob \notin Job

ActiveStates == {"queued", "running", "paused", "cancelling"}
TerminalStates == {"completed", "failed", "cancelled"}

(* Results of a task: success, a committed import, or an error code. *)
Successes == {"ok", "committed"}
ErrorCodes == {"RECORDING_PRIORITY", "JOB_CANCELLED", "JOB_INTERRUPTED",
               "SCHEDULER_UNAVAILABLE", "CLEANUP_FAILED", "WORKER_PANIC",
               "TASK_FAILED"}

Entry == [state : ActiveStates \cup TerminalStates \cup {"absent"},
          cancelRequested : BOOLEAN,
          preemptRequested : BOOLEAN,
          shutdownPause : BOOLEAN,
          cancellation : BOOLEAN,       \* the AtomicBool the task polls
          error : ErrorCodes \cup {"none", "RESOLVED"},
          parent : Job \cup {NoJob},
          followUpQueued : BOOLEAN]

Terminal(e) == e.state \in TerminalStates
Active(e) == e.state \in ActiveStates

NewEntry(parent) ==
    [state |-> "queued", cancelRequested |-> FALSE, preemptRequested |-> FALSE,
     shutdownPause |-> FALSE, cancellation |-> FALSE, error |-> "none",
     parent |-> parent, followUpQueued |-> FALSE]

NoEntry == [NewEntry(NoJob) EXCEPT !.state = "absent"]

(* A failed import that may have left recording data behind. *)
RequiresRecovery(code) == code \in {"CLEANUP_FAILED", "WORKER_PANIC"}

-----------------------------------------------------------------------------
(* Settling an entry *)

FinishCancelled(e) ==
    [e EXCEPT !.state = "cancelled", !.error = "none",
              !.cancelRequested = TRUE, !.preemptRequested = FALSE,
              !.shutdownPause = FALSE]

(* finish_completed and finish_failed let a cancellation win. *)
CancellationWins(e) ==
    e.cancelRequested \/ e.state \in {"cancelling", "cancelled"}

FinishCompleted(e) ==
    IF CancellationWins(e) THEN FinishCancelled(e)
    ELSE [e EXCEPT !.state = "completed", !.error = "none",
                   !.cancelRequested = FALSE, !.preemptRequested = FALSE]

FinishFailed(e, code) ==
    IF CancellationWins(e) THEN FinishCancelled(e)
    ELSE [e EXCEPT !.state = "failed", !.error = code,
                   !.cancelRequested = FALSE, !.preemptRequested = FALSE]

(* A committed import is completed whatever was requested meanwhile. *)
FinishCommitted(e) ==
    IF e.state = "completed" THEN e
    ELSE [e EXCEPT !.state = "completed", !.error = "none",
                   !.cancelRequested = FALSE, !.preemptRequested = FALSE,
                   !.shutdownPause = FALSE]

FinishFailedAfterPreemption(e, code) ==
    IF e.state = "completed" THEN e
    ELSE [e EXCEPT !.state = "failed", !.error = code,
                   !.cancelRequested = FALSE, !.preemptRequested = FALSE,
                   !.shutdownPause = FALSE]

-----------------------------------------------------------------------------
(* Scheduling an entry *)

(* Fault: a pause may overwrite a cancellation. *)
SetPausedUnguarded(e) == [e EXCEPT !.state = "paused", !.cancelRequested = FALSE]
SetPaused(e) ==
    IF Terminal(e) \/ e.cancelRequested THEN e ELSE [e EXCEPT !.state = "paused"]

SetQueued(e) ==
    IF Terminal(e) \/ e.cancelRequested THEN e ELSE [e EXCEPT !.state = "queued"]

(* The update wait_for_priority makes when nothing blocks the job. *)
Admit(e) ==
    IF Terminal(e) \/ e.cancelRequested \/ e.shutdownPause THEN e
    ELSE [e EXCEPT !.state = IF @ = "paused" THEN "queued" ELSE @,
                   !.preemptRequested = FALSE, !.cancellation = FALSE]

MayRun(e) == Active(e) /\ ~e.cancelRequested /\ ~e.shutdownPause

SetRunning(e) == [e EXCEPT !.state = "running"]

-----------------------------------------------------------------------------
(* Requests of the user, of a recording, of the shutdown *)

Cancel(e) ==
    [e EXCEPT !.cancelRequested = TRUE, !.preemptRequested = FALSE,
              !.state = "cancelling", !.cancellation = TRUE]

(* Fault: the worker is not asked before the job is reported cancelled. *)
CancelFromAllAtOnce(e, registered) ==
    [e EXCEPT !.cancelRequested = TRUE, !.preemptRequested = FALSE,
              !.shutdownPause = FALSE, !.cancellation = TRUE,
              !.state = "cancelled"]
CancelFromAll(e, registered) ==
    [e EXCEPT !.cancelRequested = TRUE, !.preemptRequested = FALSE,
              !.shutdownPause = FALSE, !.cancellation = TRUE,
              !.state = IF registered THEN "cancelling" ELSE "cancelled"]

(* Fault: only work that already runs is told to stop. *)
YieldRunningOnly(e, mediaImport) ==
    IF e.state \in {"running", "cancelling"} /\ ~e.cancelRequested
    THEN [e EXCEPT !.preemptRequested = TRUE, !.cancellation = TRUE,
                   !.state = "cancelling"]
    ELSE IF e.cancelRequested THEN e
    ELSE IF mediaImport THEN FinishCancelled(e) ELSE [e EXCEPT !.state = "paused"]
YieldToRecording(e, mediaImport) ==
    LET signalled == [e EXCEPT !.preemptRequested = TRUE, !.cancellation = TRUE]
    IN  IF e.cancelRequested THEN e
        ELSE IF e.state \in {"running", "cancelling"}
             THEN [signalled EXCEPT !.state = "cancelling"]
        ELSE IF mediaImport THEN FinishCancelled(signalled)
        ELSE [signalled EXCEPT !.state = "paused"]

PauseForShutdown(e, oneShot) ==
    IF e.cancelRequested \/ e.state = "cancelling"
    THEN [e EXCEPT !.cancellation = TRUE, !.state = "cancelled"]
    ELSE IF ~oneShot
    THEN [e EXCEPT !.shutdownPause = TRUE, !.preemptRequested = TRUE,
                   !.cancellation = TRUE, !.state = "paused"]
    ELSE [e EXCEPT !.cancelRequested = TRUE, !.cancellation = TRUE,
                   !.state = "cancelling"]

RetryEntry(e) ==
    [e EXCEPT !.state = "queued", !.error = "none",
              !.cancelRequested = FALSE, !.preemptRequested = FALSE,
              !.shutdownPause = FALSE, !.cancellation = FALSE]

-----------------------------------------------------------------------------
(* What is written to disk, and what a restart makes of it *)

Persisted(e) ==
    [e EXCEPT !.cancelRequested = FALSE, !.preemptRequested = FALSE,
              !.shutdownPause = FALSE, !.cancellation = FALSE]

FromPersisted(e, oneShot) ==
    IF ~Active(e) THEN [e EXCEPT !.cancelRequested = (e.state = "cancelled")]
    ELSE IF oneShot THEN [e EXCEPT !.state = "failed", !.error = "JOB_INTERRUPTED"]
    ELSE [e EXCEPT !.state = "paused", !.error = "none"]
==============================================================================
