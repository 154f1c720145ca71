------------------------------- MODULE AiJobs -------------------------------
(***************************************************************************)
(* What the background jobs do with one finished recording                 *)
(* (background_jobs.rs, transcription_service.rs, local_instruct_model.rs):*)
(* transcription, cleanup, recap and questions.  Jobs that use a model run *)
(* one at a time; meanwhile requests commit, review and select transcript  *)
(* revisions, the managed model files are imported, the bundled ones may   *)
(* break, the preference changes and the user cancels.  A call of the      *)
(* recording store is one step.                                            *)
(***************************************************************************)
EXTENDS Naturals, Sequences

CONSTANTS
    MaxBatches,     \* batches of a transcript
    MaxRevisions,   \* MAX_TRANSCRIPT_REVISIONS
    MaxSubmissions, MaxStoreFaults, \* bounds on jobs and on failing store calls
    MaxEvents       \* bound on what happens meanwhile

ASSUME AiConstants ==
    {MaxBatches, MaxRevisions, MaxSubmissions, MaxStoreFaults, MaxEvents} \subseteq Nat

VARIABLES
    revisions,  \* the committed revisions, in order
    current,    \* current_transcript_revision_id: a position
    cleaned,    \* current_cleaned_revision_id: a position, or 0
    receipts,   \* the recap receipts
    managed,    \* managed model files: "none", "model" only, or "both"
    bundled,    \* the bundled files: "sound" or "broken"
    preference, \* the Local AI fallback preference
    job,        \* the running job
    cancelFlag, \* its cancellation flag
    outcome,    \* what the job list says of it once it has ended
    late,       \* it was cancelled after its last look at the flag
    child,      \* a llama process is alive
    reviewing,  \* the protected-term review: shown, then being applied
    submissions, storeFaults, events

aiVars == <<revisions, current, cleaned, receipts, managed, bundled, preference, job, cancelFlag,
            outcome, late, child, reviewing, submissions, storeFaults, events>>
storeVars == <<revisions, current, cleaned, receipts>>
listVars == <<outcome, late>>
environment == <<managed, bundled, preference, reviewing, submissions, events, listVars>>

---------------------------------------------------------------------------
(* The recording store, as the jobs see it.                                *)

\* A revision: of is the revision its text was made from, parent the one it
\* names, base the current one when it was committed (0: the audio), whole
\* that it holds every segment of its run.
Revision(kind, of, parent) ==
    [kind |-> kind, of |-> of, parent |-> parent, base |-> current, whole |-> TRUE]

\* transcript_for_local_ai: the cleaned revision while its parent is selected.
UsesCleaned == cleaned # 0 /\ revisions[cleaned].parent = current
InputForAi == IF UsesCleaned THEN cleaned ELSE current

CanCommit == Len(revisions) < MaxRevisions
CommitTranscript(r) ==
    /\ revisions' = Append(revisions, r) /\ current' = Len(revisions) + 1
    /\ UNCHANGED <<cleaned, receipts>>

StoreFault == storeFaults < MaxStoreFaults /\ storeFaults' = storeFaults + 1

---------------------------------------------------------------------------
(* The model files.  Managed files win over bundled ones, part by part.    *)

Source ==
    CASE managed = "both" -> "managed-local-assets"
      [] managed = "model" -> "mixed"
      [] OTHER -> "bundled-package"
Generator == IF managed = "none" THEN "bundled" ELSE "managed"

\* status_for_config: the fingerprint of a bundled file is cached, so a
\* broken one is noticed when it runs, if it runs.
Ready == TRUE \in {managed = "both", bundled = "sound"}

\* required_local_llm_identity
Identified == Source = "bundled-package"

---------------------------------------------------------------------------
(* The policy.                                                             *)

Intents == {"default", "strict", "heuristic"}

\* resolve_intent
Refused(intent) == intent = "heuristic" /\ preference = "never"
Mode(intent) == IF intent = "heuristic" THEN "heuristic" ELSE "llm"
Allows(intent) ==
    \/ intent = "heuristic"
    \/ intent = "default" /\ preference = "automatic"

\* allowed_fallback_reason: an answer that is not grounded, a stale input or
\* a busy model is never replaced by a heuristic one.
FallbackCodes == {"unavailable", "runtime"}

\* Mutant of Disclosed: the policy of the job is not asked.
DisclosedAnyPolicy(code) == ~cancelFlag /\ code \in FallbackCodes

\* disclosed_fallback_reason
Disclosed(code) == ~cancelFlag /\ job.allowed /\ code \in FallbackCodes

---------------------------------------------------------------------------
(* A job.                                                                  *)

JobKinds == {"transcription", "cleanup", "recap", "ask"}
NoJob == [kind |-> "none", pc |-> "idle"]

Goto(pc) == job' = [job EXCEPT !.pc = pc]
End(why) == job' = [job EXCEPT !.pc = IF why = "done" THEN "done" ELSE "failed", !.why = why]

Start(kind, intent) ==
    job' = [kind |-> kind, mode |-> Mode(intent), allowed |-> Allows(intent), why |-> "none",
            pc |-> CASE kind = "transcription" -> "attempt"
                     [] kind = "cleanup" -> "select"
                     [] OTHER -> IF Mode(intent) = "heuristic" THEN "heuristic" ELSE "status",
            parent |-> 0, input |-> 0, model |-> "none", batches |-> 0, prompts |-> 0,
            fallback |-> FALSE, wrote |-> FALSE, result |-> "none"]

\* ai.recap.start and its like, and the retry of a job that ended.
Submit(kind, intent) ==
    /\ job.pc = "idle" \/ outcome # "none"
    /\ submissions < MaxSubmissions
    /\ kind \in {"recap", "ask"} => ~Refused(intent)
    /\ Start(kind, IF kind \in {"recap", "ask"} THEN intent ELSE "default")
    /\ cancelFlag' = FALSE /\ outcome' = "none" /\ late' = FALSE /\ submissions' = submissions + 1
    /\ UNCHANGED <<storeVars, managed, bundled, preference, child, reviewing, storeFaults, events>>

\* What an error of the model does to the job.  A cleanup falls back to the
\* transcript as it is (fallback_to_raw) and records the failure.
ModelError(code) ==
    \/ /\ job.kind = "cleanup"
       /\ IF cancelFlag \/ code \in {"cancelled", "busy"}
          THEN End(IF code = "cancelled" THEN "cancelled" ELSE "error")
          ELSE job' = [job EXCEPT !.pc = "done", !.why = "done", !.result = "raw"]
    \/ /\ job.kind \in {"recap", "ask"}
       /\ IF Disclosed(code) THEN Goto("heuristic")
          ELSE End(IF code = "cancelled" THEN "cancelled" ELSE "error")

\* Between two steps the job looks at its flag.
Checked(pc, code) ==
    IF cancelFlag THEN IF job.kind = "transcription" THEN End("cancelled") ELSE ModelError(code)
    ELSE Goto(pc)

\* run_local_inner: an attempt of its own, then the engine of the model.
Attempt ==
    /\ job.pc = "attempt"
    /\ \/ Checked("whisper", "cancelled") /\ UNCHANGED storeFaults
       \/ Checked("parakeet", "cancelled") /\ UNCHANGED storeFaults
       \/ End("error") /\ StoreFault
    /\ UNCHANGED <<storeVars, environment, cancelFlag, child>>

Segment == job' = [job EXCEPT !.batches = @ + 1]

\* Mutant of WhisperTrack: a segment that cannot be written is left out.
WhisperSkipsFailedWrite ==
    /\ job.pc = "whisper"
    /\ \/ job.batches < MaxBatches /\ ~cancelFlag /\ Segment /\ UNCHANGED storeFaults
       \/ (cancelFlag \/ job.batches = MaxBatches) /\ Checked("finalize", "cancelled") /\ UNCHANGED storeFaults
       \/ Checked("finalize", "cancelled") /\ StoreFault
    /\ UNCHANGED <<storeVars, environment, cancelFlag, child>>

\* run_whisper_track: the flag aborts the run and is looked at before each
\* segment, which is written to the attempt.
WhisperTrack ==
    /\ job.pc = "whisper"
    /\ \/ job.batches < MaxBatches /\ ~cancelFlag /\ Segment /\ UNCHANGED storeFaults
       \/ (cancelFlag \/ job.batches = MaxBatches) /\ Checked("finalize", "cancelled") /\ UNCHANGED storeFaults
       \/ End("error") /\ StoreFault
    /\ UNCHANGED <<storeVars, environment, cancelFlag, child>>

\* run_parakeet_track: the flag is looked at around the run, and what it
\* says is one segment.
ParakeetTrack ==
    /\ job.pc = "parakeet"
    /\ \/ /\ IF cancelFlag THEN End("cancelled")
             ELSE job' = [job EXCEPT !.pc = "finalize", !.batches = MaxBatches]
          /\ UNCHANGED storeFaults
       \/ End("error") /\ StoreFault
    /\ UNCHANGED <<storeVars, environment, cancelFlag, child>>

\* A last look before the attempt becomes the transcript.
Finalize ==
    /\ job.pc = "finalize" /\ Checked("commit", "cancelled")
    /\ UNCHANGED <<storeVars, environment, cancelFlag, child, storeFaults>>

\* complete_transcription_attempt
Commit ==
    /\ job.pc = "commit"
    /\ \/ /\ CanCommit
          /\ CommitTranscript([Revision("raw", 0, 0) EXCEPT !.whole = (job.batches = MaxBatches)])
          /\ job' = [job EXCEPT !.pc = "fact", !.wrote = TRUE, !.result = "raw"]
          /\ UNCHANGED storeFaults
       \/ ~CanCommit /\ End("error") /\ UNCHANGED <<storeVars, storeFaults>>
       \/ End("error") /\ StoreFault /\ UNCHANGED storeVars
    /\ UNCHANGED <<environment, cancelFlag, child>>

\* record_processing_fact: the last step of every job; when it fails the
\* job fails although its result is stored, and a retry runs it all again.
Fact ==
    /\ job.pc = "fact"
    /\ \/ End("done") /\ UNCHANGED storeFaults
       \/ End("error") /\ StoreFault
    /\ UNCHANGED <<storeVars, environment, cancelFlag, child>>

\* cleanup: a valid cleaned revision is used again.
SelectInput ==
    /\ job.pc = "select"
    /\ job' = IF UsesCleaned
              THEN [job EXCEPT !.pc = "done", !.why = "done", !.result = "reused"]
              ELSE [job EXCEPT !.pc = "status", !.parent = current]
    /\ UNCHANGED <<storeVars, environment, cancelFlag, child, storeFaults>>

\* The identity of the model, before it is used.
Status ==
    /\ job.pc = "status"
    /\ IF ~Ready THEN ModelError("unavailable")
       ELSE IF ~Identified THEN End("error")
       ELSE job' = [job EXCEPT !.pc = "read", !.model = "bundled"]
    /\ UNCHANGED <<storeVars, environment, cancelFlag, child, storeFaults>>

\* The transcript and the revision it is, in one read.
ReadInput ==
    /\ job.pc = "read"
    /\ IF cancelFlag THEN ModelError("cancelled")
       ELSE IF job.kind = "cleanup"
       THEN job' = [job EXCEPT !.pc = "config", !.input = current, !.parent = current]
       ELSE job' = [job EXCEPT !.pc = "config", !.input = InputForAi, !.fallback = ~UsesCleaned]
    /\ UNCHANGED <<storeVars, environment, cancelFlag, child, storeFaults>>

\* The files are looked up again for the run.
Configure ==
    /\ job.pc = "config"
    /\ IF ~Ready THEN ModelError("unavailable")
       ELSE job' = [job EXCEPT !.pc = "batch", !.result = Generator, !.batches = 0]
    /\ UNCHANGED <<storeVars, environment, cancelFlag, child, storeFaults>>

\* run_prompt_with_config: the prompt goes through a file.
WritePrompt ==
    /\ job.pc = "batch" /\ job.batches < MaxBatches
    /\ IF cancelFlag THEN ModelError("cancelled") /\ UNCHANGED child
       ELSE job' = [job EXCEPT !.pc = "running", !.prompts = @ + 1] /\ child' = TRUE
    /\ UNCHANGED <<storeVars, environment, cancelFlag, storeFaults>>

Stopped(code) == child' = FALSE /\ job' = [job EXCEPT !.pc = "delete", !.why = code]

\* Mutant of RunEnds: a process that takes too long is left alone.
RunAbandoned ==
    /\ job.pc = "running"
    /\ \/ (bundled = "sound" \/ job.result = "managed") /\ Stopped("none")
       \/ Stopped("runtime")
       \/ cancelFlag /\ Stopped("cancelled")
       \/ UNCHANGED child /\ job' = [job EXCEPT !.pc = "delete", !.why = "runtime"]
    /\ UNCHANGED <<storeVars, environment, cancelFlag, storeFaults>>

\* run_llama_command: the process ends, is killed when cancelled, or is
\* killed after its time.  It is waited for in every case.
RunEnds ==
    /\ job.pc = "running"
    /\ \/ (bundled = "sound" \/ job.result = "managed") /\ Stopped("none")
       \/ Stopped("runtime")
       \/ cancelFlag /\ Stopped("cancelled")
    /\ UNCHANGED <<storeVars, environment, cancelFlag, storeFaults>>

\* Mutant of DeletePrompt: a file that cannot be deleted is ignored.
DeletePromptIgnored ==
    /\ job.pc = "delete"
    /\ LET clear == [job EXCEPT !.why = "none"] IN
       \/ /\ IF job.why # "none" THEN ModelError(job.why)
             ELSE job' = [clear EXCEPT !.prompts = @ - 1, !.pc = "validate"]
          /\ UNCHANGED storeFaults
       \/ job.why = "none" /\ job' = [clear EXCEPT !.pc = "validate"] /\ StoreFault
    /\ UNCHANGED <<storeVars, environment, cancelFlag, child>>

\* The prompt file is deleted whatever the run did; failing to is an error.
DeletePrompt ==
    /\ job.pc = "delete"
    /\ LET gone == [job EXCEPT !.prompts = @ - 1, !.why = "none"] IN
       \/ /\ IF job.why = "none" THEN job' = [gone EXCEPT !.pc = "validate"]
             ELSE job' = [gone EXCEPT !.pc = "error", !.why = job.why]
          /\ UNCHANGED storeFaults
       \/ job' = [job EXCEPT !.pc = "error", !.why = "invalid"] /\ StoreFault
    /\ UNCHANGED <<storeVars, environment, cancelFlag, child>>

RunFailed ==
    /\ job.pc = "error" /\ ModelError(job.why)
    /\ UNCHANGED <<storeVars, environment, cancelFlag, child, storeFaults>>

\* validate_grounded_batch, validate_cleanup_output
Validate ==
    /\ job.pc = "validate"
    /\ \/ job' = [job EXCEPT !.batches = @ + 1,
                    !.pc = IF job.batches + 1 < MaxBatches THEN "batch"
                           ELSE IF job.kind = "cleanup" THEN "write" ELSE "identity"]
       \/ ModelError("invalid")
    /\ UNCHANGED <<storeVars, environment, cancelFlag, child, storeFaults>>

\* The cleanup attempt is written; then a last look at the flag.
WriteCleanup ==
    /\ job.pc = "write"
    /\ IF cancelFlag THEN ModelError("cancelled") ELSE Goto("complete")
    /\ UNCHANGED <<storeVars, environment, cancelFlag, child, storeFaults>>

\* Mutant of CompleteCleanup: a stale cleanup is stored.
CompleteStaleCleanup ==
    /\ job.pc = "complete" /\ CanCommit
    /\ revisions' = Append(revisions, Revision("cleaned", job.input, job.parent))
    /\ cleaned' = Len(revisions) + 1 /\ UNCHANGED <<current, receipts>>
    /\ job' = [job EXCEPT !.pc = "fact", !.wrote = TRUE]
    /\ UNCHANGED <<environment, cancelFlag, child, storeFaults>>

\* complete_cleanup_attempt: unless the transcript the cleanup was made from is
\* no longer current.
CompleteCleanup ==
    /\ job.pc = "complete"
    /\ IF current = job.parent /\ CanCommit
       THEN /\ revisions' = Append(revisions, Revision("cleaned", job.input, job.parent))
            /\ cleaned' = Len(revisions) + 1 /\ UNCHANGED <<current, receipts>>
            /\ job' = [job EXCEPT !.pc = "fact", !.wrote = TRUE]
       ELSE ModelError("invalid") /\ UNCHANGED storeVars
    /\ UNCHANGED <<environment, cancelFlag, child, storeFaults>>

\* Mutant of SameIdentity: the model is not looked at again.
IdentityAssumed ==
    /\ job.pc = "identity" /\ Goto("save")
    /\ UNCHANGED <<storeVars, environment, cancelFlag, child, storeFaults>>

\* The identity is asked again after the run.
SameIdentity ==
    /\ job.pc = "identity"
    /\ IF Ready /\ Identified THEN Goto("save") ELSE End("error")
    /\ UNCHANGED <<storeVars, environment, cancelFlag, child, storeFaults>>

\* Mutant of Heuristic: the mark stays what it was.
HeuristicUnmarked ==
    /\ job.pc = "heuristic"
    /\ job' = [job EXCEPT !.pc = "save", !.result = "heuristic", !.model = "none",
                          !.input = InputForAi]
    /\ UNCHANGED <<storeVars, environment, cancelFlag, child, storeFaults>>

\* heuristic_recap, heuristic_ask: disclosed as a fallback.
Heuristic ==
    /\ job.pc = "heuristic"
    /\ job' = [job EXCEPT !.pc = "save", !.result = "heuristic", !.model = "none",
                          !.input = InputForAi, !.fallback = TRUE]
    /\ UNCHANGED <<storeVars, environment, cancelFlag, child, storeFaults>>

\* Mutant of Save: the flag is not looked at.
SaveUnlooked ==
    /\ job.pc = "save" /\ job.kind = "recap" /\ Goto("receipt")
    /\ UNCHANGED <<storeVars, environment, cancelFlag, child, storeFaults>>

\* A last look at the flag ...
Save ==
    /\ job.pc = "save" /\ job.kind = "recap"
    /\ IF cancelFlag THEN End("cancelled") ELSE Goto("receipt")
    /\ UNCHANGED <<storeVars, environment, cancelFlag, child, storeFaults>>

\* ... then record_recap_receipt.
RecordReceipt ==
    /\ job.pc = "receipt"
    /\ \/ /\ receipts' = receipts \cup {[input |-> job.input, model |-> job.model,
                                          by |-> job.result, fallback |-> job.fallback]}
          /\ job' = [job EXCEPT !.pc = "fact", !.wrote = TRUE]
          /\ UNCHANGED <<revisions, current, cleaned, storeFaults>>
       \/ End("error") /\ StoreFault /\ UNCHANGED storeVars
    /\ UNCHANGED <<environment, cancelFlag, child>>

\* An answer is returned, not stored; only the fact is.
SaveAnswer ==
    /\ job.pc = "save" /\ job.kind = "ask"
    /\ IF cancelFlag THEN End("cancelled") ELSE Goto("fact")
    /\ UNCHANGED <<storeVars, environment, cancelFlag, child, storeFaults>>

\* The worker writes the end of the job down: a job whose flag is set is listed
\* as cancelled whatever its task returned and stored.
Settle ==
    /\ job.pc \in {"done", "failed"} /\ outcome = "none"
    /\ outcome' = IF cancelFlag THEN "cancelled" ELSE IF job.pc = "done" THEN "completed" ELSE "failed"
    /\ UNCHANGED <<storeVars, managed, bundled, preference, reviewing, submissions, events, late, job,
                   cancelFlag, child, storeFaults>>

AiJobStep ==
    \/ Attempt \/ WhisperTrack \/ ParakeetTrack \/ Finalize \/ Commit \/ Fact
    \/ SelectInput \/ Status \/ ReadInput \/ Configure
    \/ WritePrompt \/ RunEnds \/ DeletePrompt \/ RunFailed \/ Validate
    \/ WriteCleanup \/ CompleteCleanup \/ SameIdentity \/ Heuristic \/ Save \/ RecordReceipt \/ SaveAnswer \/ Settle

---------------------------------------------------------------------------
(* Meanwhile.                                                              *)

Happens == events < MaxEvents /\ events' = events + 1

\* The steps of a job after its last look at the flag.
LateSteps == {"commit", "complete", "receipt", "fact", "done", "failed"}

Cancel ==
    /\ job.pc # "idle" /\ outcome = "none" /\ ~cancelFlag
    /\ cancelFlag' = TRUE /\ late' = (job.pc \in LateSteps)
    /\ UNCHANGED <<storeVars, managed, bundled, preference, reviewing, submissions, events, outcome, job,
                   child, storeFaults>>

SetPreference(p) ==
    /\ Happens /\ preference' = p
    /\ UNCHANGED <<storeVars, managed, bundled, job, listVars, cancelFlag, child, reviewing, submissions,
                   storeFaults>>

\* An import of model files is not an exclusive job.
ImportManaged(parts) ==
    /\ Happens /\ managed = "none" /\ managed' = parts
    /\ UNCHANGED <<storeVars, bundled, preference, job, listVars, cancelFlag, child, reviewing, submissions,
                   storeFaults>>

BreakBundled ==
    /\ Happens /\ bundled' = "broken"
    /\ UNCHANGED <<storeVars, managed, preference, job, listVars, cancelFlag, child, reviewing, submissions,
                   storeFaults>>

\* transcription.runLocal in the request thread.
RequestTranscript ==
    /\ Happens /\ CanCommit /\ CommitTranscript(Revision("raw", 0, 0))
    /\ UNCHANGED <<managed, bundled, preference, reviewing, submissions, job, listVars, cancelFlag, child, storeFaults>>

\* recording.selectTranscriptRevision: never a cleaned one.
SelectRevision(i) ==
    /\ Happens /\ revisions[i].kind # "cleaned" /\ current' = i
    /\ UNCHANGED <<revisions, cleaned, receipts, managed, bundled, preference, reviewing,
                   submissions, job, listVars, cancelFlag, child, storeFaults>>

\* transcription.protectedTermReview shows the changes to the revision.
ShowReview ==
    /\ Happens /\ reviewing' = [pc |-> "shown", revision |-> current]
    /\ UNCHANGED <<storeVars, managed, bundled, preference, submissions, job, listVars, cancelFlag, child,
                   storeFaults>>

\* Approved: the preview is prepared again and must be the one shown.
ApplyReview ==
    /\ reviewing.pc = "shown" /\ reviewing.revision = current
    /\ reviewing' = [reviewing EXCEPT !.pc = "apply"]
    /\ UNCHANGED <<storeVars, managed, bundled, preference, submissions, job, listVars, cancelFlag, child,
                   storeFaults, events>>

\* complete_protected_term_review_attempt, or its refusal.
CompleteReview ==
    /\ reviewing.pc = "apply" /\ reviewing' = [reviewing EXCEPT !.pc = "none"]
    /\ IF reviewing.revision = current /\ CanCommit
       THEN CommitTranscript(Revision("reviewed", reviewing.revision, reviewing.revision))
       ELSE UNCHANGED storeVars
    /\ UNCHANGED <<managed, bundled, preference, submissions, job, listVars, cancelFlag, child, storeFaults, events>>

---------------------------------------------------------------------------
AiInit ==
    /\ revisions = <<[kind |-> "raw", of |-> 0, parent |-> 0, base |-> 0, whole |-> TRUE]>>
    /\ current = 1 /\ cleaned = 0 /\ receipts = {}
    /\ managed = "none" /\ bundled = "sound" /\ preference = "ask-first"
    /\ outcome = "none" /\ late = FALSE
    /\ job = NoJob /\ cancelFlag = FALSE /\ child = FALSE
    /\ reviewing = [pc |-> "none", revision |-> 0]
    /\ submissions = 0 /\ storeFaults = 0 /\ events = 0

AiNext ==
    \/ \E kind \in JobKinds, intent \in Intents : Submit(kind, intent)
    \/ AiJobStep
    \/ Cancel
    \/ \E p \in {"ask-first", "automatic", "never"} : SetPreference(p)
    \/ \E parts \in {"model", "both"} : ImportManaged(parts)
    \/ BreakBundled
    \/ RequestTranscript
    \/ \E i \in DOMAIN revisions : SelectRevision(i)
    \/ ShowReview \/ ApplyReview \/ CompleteReview

AiSpec == AiInit /\ [][AiNext]_aiVars

---------------------------------------------------------------------------
(* Properties.                                                             *)

\* A cleaned or reviewed transcript was made from the text of the revision
\* it names, and that revision was current when it was stored: nothing that
\* was committed or selected while the model ran is overlooked.
LineageTrue ==
    \A i \in DOMAIN revisions :
        LET r == revisions[i] IN
        r.kind # "raw" => r.of = r.parent /\ r.parent = r.base /\ revisions[r.parent].kind # "cleaned"

\* A transcript holds every segment its engine made: a failed write or a
\* cancellation never commits the part written so far.
WholeTranscripts == \A i \in DOMAIN revisions : revisions[i].whole

\* A recap receipt names the model that wrote the recap, though model files
\* may be imported while it runs.
RecapNamesModel ==
    \A r \in receipts : r.by # "heuristic" => r.model = r.by

\* A recap without a fallback mark was written by the model from a cleaned
\* transcript.
FallbackMarked ==
    \A r \in receipts : ~r.fallback => r.by # "heuristic" /\ revisions[r.input].kind = "cleaned"

\* A job submitted when heuristic answers were not allowed never gives one.
NeverHeuristic ==
    job # NoJob => (job.result = "heuristic" => job.allowed)

\* A job that is listed as cancelled stored neither a revision nor a receipt,
\* unless it was cancelled after its last look at the flag: its result is then
\* stored and the job list says cancelled.
CancelledStoresNothing ==
    job # NoJob => (outcome = "cancelled" /\ ~late => ~job.wrote)

\* The model process is alive only while the job waits for it.
ChildOwned == child => job.pc = "running"

\* A job that returns the model's work has deleted every prompt file it
\* wrote.  (A cleanup that falls back may leave one behind.)
PromptsGone ==
    job # NoJob => (job.pc = "done" /\ job.result \in {"bundled", "managed"} => job.prompts = 0)

\* The cleaned transcript names the model that made it as well.
CleanupNamesModel ==
    job # NoJob => (job.kind = "cleanup" /\ job.wrote => job.model = job.result)

\* A transcript, recap or answer says truly what it was made from and by what:
\* its source revision, whole; for a recap the model that ran; a fallback where
\* there was one, and none where the policy forbids it.
TranscriptsTruthful ==
    LineageTrue /\ WholeTranscripts /\ RecapNamesModel /\ FallbackMarked /\ NeverHeuristic

\* A job that is cancelled in time stores nothing, and a job that ended leaves
\* neither its child process nor its prompt file.
JobsLeaveNothing == CancelledStoresNothing /\ ChildOwned /\ PromptsGone
=============================================================================
