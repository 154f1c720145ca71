-------------------------- MODULE JobManagerProofs --------------------------
(***************************************************************************)
(* Proofs about JobManager, for every set of jobs, every ranking and every  *)
(* number of requests and faults: type correctness, the two promises of the *)
(* recording barrier about media imports, what is shown and saved of a job, *)
(* its one follow-up, cancellation, preemption and the deletion gate.       *)
(***************************************************************************)
EXTENDS JobManager, TLAPS

-----------------------------------------------------------------------------
(* Inductive invariants *)

(* What a worker is about to settle with: an import never returns a plain   *)
(* success, and only an error is recorded as a failure.                     *)
ResultInv ==
    \A j \in Job :
        /\ worker[j] = "settle" => result[j] # "none"
        /\ j \in MediaImport => result[j] # "ok"
        /\ worker[j] \in {"fail", "failAfterPreemption"} => result[j] \in ErrorCodes

TypeInv == TypeOK /\ ResultInv

(* The import holds recording data, or is about to settle as one that may   *)
(* have left some behind.                                                   *)
Writing(j) ==
    \/ worker[j] = "task"
    \/ /\ worker[j] \in {"settle", "fail", "failAfterPreemption"}
       /\ RequiresRecovery(result[j])

(* The import may still put a recording at risk. *)
Suspect(j) ==
    \/ Writing(j)
    \/ worker[j] = "cleared" /\ MayRun(jobs[j])
    \/ UnresolvedImport(j)

(* begin_recording_priority has not returned, and will not without j. *)
HeldByBarrier(j) == main = "signal" \/ (main = "barrier" /\ j \in targets)

(***************************************************************************)
(* Why the barrier works.  A worker's check of recording_active and the     *)
(* collection of the barrier's targets are not atomic.  The first conjunct  *)
(* says that an import which got past the check before the flag was set is  *)
(* seen by the barrier; that holds because an import that can still start   *)
(* or that writes (the second conjunct) is active when the targets are      *)
(* collected.                                                               *)
(***************************************************************************)
BarrierJob(j) ==
    /\ recordingActive /\ ~shutdown /\ Suspect(j) => HeldByBarrier(j)
    /\ Writing(j) => shutdown \/ jobs[j].state \in {"running", "cancelling"}
    /\ worker[j] # "none" => j \in used

BarrierInv ==
    /\ main = "down" => ~recordingActive
    /\ \A j \in MediaImport : BarrierJob(j)

-----------------------------------------------------------------------------
(* Updates of one entry *)

LEMMA NewEntryType ==
    /\ NoEntry \in Entry /\ NoEntry.state = "absent"
    /\ \A p \in Job \cup {NoJob} :
          NewEntry(p) \in Entry /\ NewEntry(p).state = "queued"
BY DEF NoEntry, NewEntry, Entry, ActiveStates, TerminalStates, ErrorCodes

LEMMA UpdateType ==
    ASSUME NEW e \in Entry, NEW b \in BOOLEAN
    PROVE  /\ FinishCancelled(e) \in Entry
           /\ FinishCompleted(e) \in Entry
           /\ FinishCommitted(e) \in Entry
           /\ SetPaused(e) \in Entry
           /\ SetQueued(e) \in Entry
           /\ Admit(e) \in Entry
           /\ SetRunning(e) \in Entry
           /\ Cancel(e) \in Entry
           /\ CancelFromAll(e, b) \in Entry
           /\ YieldToRecording(e, b) \in Entry
           /\ PauseForShutdown(e, b) \in Entry
           /\ RetryEntry(e) \in Entry
           /\ Persisted(e) \in Entry
           /\ FromPersisted(e, b) \in Entry
<1> USE DEF Entry, ActiveStates, TerminalStates, ErrorCodes
<1>1. FinishCancelled(e) \in Entry
  BY DEF FinishCancelled
<1>2. FinishCompleted(e) \in Entry
  <2>1. [e EXCEPT !.state = "completed", !.error = "none", !.cancelRequested = FALSE,
                  !.preemptRequested = FALSE] \in Entry
    OBVIOUS
  <2> HIDE DEF Entry
  <2>2. QED
    BY <1>1, <2>1, Zenon DEF FinishCompleted
<1>3. FinishCommitted(e) \in Entry
  BY DEF FinishCommitted
<1>4. SetPaused(e) \in Entry /\ SetQueued(e) \in Entry
  BY DEF SetPaused, SetQueued
<1>5. Admit(e) \in Entry
  <2>1. \A s \in {"queued", e.state} :
          [e EXCEPT !.state = s, !.preemptRequested = FALSE, !.cancellation = FALSE]
            \in Entry
    OBVIOUS
  <2>2. [e EXCEPT !.state = IF @ = "paused" THEN "queued" ELSE @,
                  !.preemptRequested = FALSE, !.cancellation = FALSE] \in Entry
    BY <2>1
  <2> HIDE DEF Entry
  <2>3. QED
    BY <2>2, Zenon DEF Admit
<1>6. SetRunning(e) \in Entry
  BY DEF SetRunning
<1>7. Cancel(e) \in Entry
  BY DEF Cancel
<1>8. CancelFromAll(e, b) \in Entry
  BY DEF CancelFromAll
<1>9. YieldToRecording(e, b) \in Entry
  <2> DEFINE s == [e EXCEPT !.preemptRequested = TRUE, !.cancellation = TRUE]
  <2>1. s \in Entry
    OBVIOUS
  <2>2. FinishCancelled(s) \in Entry
    BY <2>1 DEF FinishCancelled
  <2>3. [s EXCEPT !.state = "cancelling"] \in Entry /\ [s EXCEPT !.state = "paused"] \in Entry
    BY <2>1
  <2> HIDE DEF s
  <2>4. QED
    BY <2>2, <2>3 DEF YieldToRecording, s
<1>10. PauseForShutdown(e, b) \in Entry
  BY DEF PauseForShutdown
<1>11. RetryEntry(e) \in Entry
  BY DEF RetryEntry
<1>12. Persisted(e) \in Entry
  BY DEF Persisted
<1>13. FromPersisted(e, b) \in Entry
  BY DEF FromPersisted
<1>14. QED
  BY <1>1, <1>2, <1>3, <1>4, <1>5, <1>6, <1>7, <1>8, <1>9, <1>10, <1>11, <1>12,
     <1>13

LEMMA FailureType ==
    ASSUME NEW e \in Entry, NEW code \in ErrorCodes
    PROVE  FinishFailed(e, code) \in Entry /\ FinishFailedAfterPreemption(e, code) \in Entry
<1>1. FinishFailedAfterPreemption(e, code) \in Entry
  BY DEF FinishFailedAfterPreemption, Entry, TerminalStates
<1>2. FinishFailed(e, code) \in Entry
  <2>1. [e EXCEPT !.state = "failed", !.error = code, !.cancelRequested = FALSE,
                  !.preemptRequested = FALSE] \in Entry
    BY DEF Entry, TerminalStates
  <2>2. FinishCancelled(e) \in Entry
    BY UpdateType
  <2>3. QED
    BY <2>1, <2>2, Zenon DEF FinishFailed
<1>3. QED
  BY <1>1, <1>2

-----------------------------------------------------------------------------
(* Saves *)

LEMMA SnapshotType ==
    ASSUME NEW js \in [Job -> Entry]
    PROVE  Snapshot(js) \in [Job -> Entry]
BY UpdateType DEF Snapshot

StoreTyped == /\ disk' \in [Job -> Entry]
              /\ storeError' \in BOOLEAN
              /\ faults' \in [Faults -> Nat]

LEMMA SaveType ==
    ASSUME TypeOK, jobs' \in [Job -> Entry],
           SaveBestEffort \/ SaveOrReport \/ UNCHANGED <<disk, storeError, faults>>
    PROVE  StoreTyped
<1>1. Snapshot(jobs') \in [Job -> Entry]
  BY SnapshotType
<1>2. "lostSave" \in Faults
  BY DEF Faults
<1>3. Fault("lostSave") => faults' \in [Faults -> Nat]
  BY <1>2 DEF Fault, TypeOK
<1>4. QED
  BY <1>1, <1>3 DEF StoreTyped, TypeOK, SaveBestEffort, SaveOrReport, LoseSave

LEMMA MutateType ==
    ASSUME TypeOK, NEW j \in Job, NEW e \in Entry, Mutate(j, e)
    PROVE  jobs' \in [Job -> Entry] /\ StoreTyped
<1>1. jobs' \in [Job -> Entry]
  BY DEF Mutate, TypeOK
<1>2. QED
  BY <1>1, SaveType DEF Mutate

InsertTyped == /\ used' \in SUBSET Job
               /\ inserting' \in [Job \cup {NoJob} -> SUBSET Job]

LEMMA InsertType ==
    ASSUME TypeOK, NEW k \in Job, NEW p \in Job \cup {NoJob}, Insert(k, p)
    PROVE  jobs' \in [Job -> Entry] /\ StoreTyped /\ InsertTyped
<1>1. NewEntry(p) \in Entry
  BY NewEntryType
<1>2. QED
  BY <1>1 DEF Insert, StoreTyped, InsertTyped, TypeOK

LEMMA InsertedType ==
    ASSUME TypeOK, NEW p \in Job \cup {NoJob}, SaveInserted(p) \/ TakeBack(p)
    PROVE  jobs' \in [Job -> Entry] /\ StoreTyped /\ InsertTyped
<1>1. jobs' \in [Job -> Entry]
  BY NewEntryType DEF SaveInserted, TakeBack, TypeOK
<1>2. Snapshot(jobs) \in [Job -> Entry]
  BY SnapshotType DEF TypeOK
<1>3. LoseSave => faults' \in [Faults -> Nat]
  BY DEF LoseSave, Fault, Faults, TypeOK
<1>4. StoreTyped
  BY <1>2, <1>3 DEF SaveInserted, TakeBack, LoseSave, StoreTyped, TypeOK
<1>5. InsertTyped
  BY DEF SaveInserted, TakeBack, InsertTyped, TypeOK
<1>6. QED
  BY <1>1, <1>4, <1>5

Reconciled(e, f) ==
    \/ f = e \/ f = NoEntry
    \/ e.state = "failed" /\ f = [e EXCEPT !.error = "RESOLVED"]

(* What a recovery of the recording store makes of the map. *)
LEMMA RecoveredFacts ==
    ASSUME NEW js \in [Job -> Entry], NEW cleaned, NEW resolved \in BOOLEAN
    PROVE  LET f == Recovered(js, cleaned, resolved)
           IN  /\ f \in [Job -> Entry]
               /\ \A j \in Job : Reconciled(js[j], f[j])
               /\ \A j \in MediaImport : f[j] # NoEntry \/ f[j] = js[j]
<1> DEFINE f == Recovered(js, cleaned, resolved)
<1>1. f = [j \in Job |->
             IF RecordingOf[j] \cap cleaned # {} THEN NoEntry
             ELSE IF resolved /\ Unresolved(j, js[j])
             THEN [js[j] EXCEPT !.error = "RESOLVED"] ELSE js[j]]
  BY DEF Recovered
<1>2. \A e \in Entry : [e EXCEPT !.error = "RESOLVED"] \in Entry
  BY DEF Entry
<1>3. NoEntry \in Entry
  BY NewEntryType
<1>4. \A j \in MediaImport : j \in Job /\ RecordingOf[j] = {}
  BY JobAssumption
<1> HIDE DEF f
<1>5. f \in [Job -> Entry]
  BY <1>1, <1>2, <1>3
<1>6. \A j \in Job : Reconciled(js[j], f[j])
  BY <1>1 DEF Unresolved, Reconciled
<1>7. \A j \in MediaImport : f[j] # NoEntry \/ f[j] = js[j]
  <2>1. \A e \in Entry : e.state = "failed" => [e EXCEPT !.error = "RESOLVED"] # NoEntry
    BY DEF Entry, NoEntry, NewEntry
  <2>2. QED
    BY <1>1, <1>4, <2>1 DEF Unresolved
<1>8. QED
  BY <1>5, <1>6, <1>7 DEF f

-----------------------------------------------------------------------------
(* Type correctness *)

LEMMA InitType == Init => TypeInv
<1> SUFFICES ASSUME Init PROVE TypeInv
  OBVIOUS
<1>1. jobs \in [Job -> Entry] /\ disk \in [Job -> Entry]
  BY NewEntryType DEF Init
<1>2. ResultInv
  BY JobAssumption DEF Init, ResultInv
<1>3. QED
  BY <1>1, <1>2 DEF Init, TypeInv, TypeOK, WorkerSteps

LEMMA GotoType ==
    ASSUME TypeOK, NEW j \in Job, NEW w \in WorkerSteps \cup Decisions, Goto(j, w)
    PROVE  /\ worker' \in [Job -> WorkerSteps \cup Decisions]
           /\ worker'[j] = w
           /\ \A k \in Job : k # j => worker'[k] = worker[k]
BY DEF Goto, TypeOK

LEMMA WorkerSettleType ==
    ASSUME TypeInv, NEW j \in Job,
           Decide(j) \/ Settle(j) \/ SubmitFollowUp(j) \/ SaveFollowUp(j)
             \/ MarkFollowUp(j) \/ Release(j)
    PROVE  TypeInv'
<1>0. TypeOK /\ ResultInv
  BY DEF TypeInv
<1> USE <1>0
<1>1. CASE Decide(j)
  <2> DEFINE d == IF j \in OneShot THEN OneShotDecision(j) ELSE DescriptorDecision(j)
             yielded == d = "fail" /\ j \in OneShot /\ jobs[j].preemptRequested
  <2>1. d \in Decisions /\ d \notin {"settle"}
    BY DEF Decisions, OneShotDecision, DescriptorDecision
  <2>2. result[j] # "none" /\ (j \in MediaImport => result[j] # "ok")
    BY <1>1 DEF Decide, ResultInv
  <2>3. d = "failAfterPreemption" => result[j] \in ErrorCodes
    BY <2>2 DEF OneShotDecision, DescriptorDecision, TypeOK, Successes, RequiresRecovery,
                ErrorCodes
  <2>4. d = "fail" /\ ~yielded => result[j] \in ErrorCodes
    BY <2>2 DEF OneShotDecision, DescriptorDecision, TypeOK, Successes
  <2>5. /\ Goto(j, d)
        /\ IF yielded THEN Return(j, "RECORDING_PRIORITY") ELSE UNCHANGED result
    BY <1>1 DEF Decide
  <2> HIDE DEF d, yielded
  <2>6. /\ worker' \in [Job -> WorkerSteps \cup Decisions]
        /\ worker'[j] = d
        /\ \A k \in Job : k # j => worker'[k] = worker[k]
    BY <2>1, <2>5, GotoType
  <2>7. result' \in [Job -> Successes \cup ErrorCodes \cup {"none"}]
    BY <2>5 DEF Return, TypeOK, ErrorCodes
  <2>8. /\ \A k \in Job : k # j => result'[k] = result[k]
        /\ result'[j] = IF yielded THEN "RECORDING_PRIORITY" ELSE result[j]
    BY <2>5 DEF Return, TypeOK
  <2>9. ResultInv'
    BY <2>1, <2>2, <2>3, <2>4, <2>6, <2>8 DEF ResultInv, ErrorCodes
  <2>10. TypeOK'
    BY <1>1, <2>6, <2>7 DEF TypeOK, Decide, storeVars, requestVars, insertVars, mainVars,
                            deletionVars
  <2>11. QED
    BY <2>9, <2>10 DEF TypeInv
<1>2. CASE Settle(j)
  <2> DEFINE w == IF worker[j] = "pauseForRecording" THEN "gate"
                  ELSE IF /\ worker[j] = "complete" /\ j \notin OneShot
                          /\ Present(j) /\ ~CancellationWins(jobs[j])
                          /\ FollowUp[j] # {}
                       THEN "followUp" ELSE "exit"
  <2>1. jobs[j] \in Entry
    BY DEF TypeOK
  <2>2. worker[j] \in {"fail", "failAfterPreemption"} => result[j] \in ErrorCodes
    BY DEF ResultInv
  <2>3. Settled(j) \in Entry
    BY <1>2, <2>1, <2>2, UpdateType, FailureType DEF Settle, Settled, Decisions
  <2>4. jobs' \in [Job -> Entry] /\ StoreTyped
    BY <1>2, <2>3, MutateType DEF Settle
  <2>5. w \in {"gate", "followUp", "exit"} /\ Goto(j, w)
    BY <1>2 DEF Settle
  <2> HIDE DEF w
  <2>6. /\ worker' \in [Job -> WorkerSteps \cup Decisions]
        /\ worker'[j] = w
        /\ \A k \in Job : k # j => worker'[k] = worker[k]
    BY <2>5, GotoType DEF WorkerSteps
  <2>7. ResultInv'
    BY <1>2, <2>5, <2>6 DEF ResultInv, Settle
  <2>8. TypeOK'
    BY <1>2, <2>4, <2>6 DEF TypeOK, StoreTyped, Settle, requestVars, insertVars, mainVars,
                            deletionVars
  <2>9. QED
    BY <2>7, <2>8 DEF TypeInv
<1>3. CASE SubmitFollowUp(j) \/ SaveFollowUp(j)
  <2>1. PICK w \in {"mark", "insert", "spawn", "exit"} : Goto(j, w)
    BY <1>3 DEF SubmitFollowUp, SaveFollowUp
  <2>2. /\ worker' \in [Job -> WorkerSteps \cup Decisions]
        /\ worker'[j] = w
        /\ \A k \in Job : k # j => worker'[k] = worker[k]
    BY <2>1, GotoType DEF WorkerSteps
  <2>3. \A k \in FollowUp[j] : k \in Job
    BY JobAssumption
  <2>4. jobs' \in [Job -> Entry] /\ StoreTyped /\ InsertTyped
    <3>1. CASE UNCHANGED <<storeVars, insertVars>>
      BY <3>1 DEF storeVars, insertVars, StoreTyped, InsertTyped, TypeOK
    <3>2. CASE \E k \in FollowUp[j] : Insert(k, j)
      BY <2>3, <3>2, InsertType
    <3>3. CASE SaveInserted(j) \/ TakeBack(j)
      BY <3>3, InsertedType
    <3>4. QED
      BY <1>3, <3>1, <3>2, <3>3 DEF SubmitFollowUp, SaveFollowUp
  <2>5. UNCHANGED <<result, slot, mainVars, deletionVars, requests>>
    BY <1>3 DEF SubmitFollowUp, SaveFollowUp
  <2>7. ResultInv'
    BY <2>1, <2>2, <2>5 DEF ResultInv
  <2>8. TypeOK'
    BY <2>2, <2>4, <2>5 DEF TypeOK, StoreTyped, InsertTyped, mainVars, deletionVars
  <2>9. QED
    BY <2>7, <2>8 DEF TypeInv
<1>4. CASE MarkFollowUp(j)
  <2>1. [jobs[j] EXCEPT !.followUpQueued = TRUE] \in Entry
    <3>1. jobs[j] \in Entry
      BY DEF TypeOK
    <3>2. \A e \in Entry : [e EXCEPT !.followUpQueued = TRUE] \in Entry
      BY DEF Entry
    <3>3. QED
      BY <3>1, <3>2
  <2>2. jobs' \in [Job -> Entry] /\ StoreTyped
    BY <1>4, <2>1, MutateType DEF MarkFollowUp
  <2>3. /\ worker' \in [Job -> WorkerSteps \cup Decisions]
        /\ \A k \in Job : worker'[k] \in {"exit", "gate"} \/ worker'[k] = worker[k]
    BY <1>4 DEF MarkFollowUp, TypeOK, WorkerSteps
  <2>4. ResultInv'
    BY <1>4, <2>3 DEF ResultInv, MarkFollowUp
  <2>5. TypeOK'
    BY <1>4, <2>2, <2>3 DEF TypeOK, StoreTyped, MarkFollowUp, requestVars, insertVars, mainVars,
                            deletionVars
  <2>6. QED
    BY <2>4, <2>5 DEF TypeInv
<1>5. CASE Release(j)
  <2>1. /\ worker' = [worker EXCEPT ![j] = "none"]
        /\ result' = [result EXCEPT ![j] = "none"]
    BY <1>5 DEF Release, Goto, Return
  <2>2. ResultInv'
    BY <2>1 DEF ResultInv, TypeOK
  <2>3. TypeOK'
    BY <1>5, <2>1 DEF TypeOK, Release, storeVars, requestVars, insertVars, mainVars, deletionVars,
                      WorkerSteps
  <2>4. QED
    BY <2>2, <2>3 DEF TypeInv
<1>6. QED
  BY <1>1, <1>2, <1>3, <1>4, <1>5

LEMMA WorkerRunType ==
    ASSUME TypeInv, NEW j \in Job,
           ReadGate(j) \/ ApplyGate(j) \/ EnterSlot(j) \/ CheckRecording(j)
             \/ StartTask(j) \/ EndTask(j) \/ PanicTask(j)
    PROVE  TypeInv'
<1>0. TypeOK /\ ResultInv /\ jobs[j] \in Entry
  BY DEF TypeInv, TypeOK
<1> USE <1>0
<1>1. CASE ReadGate(j)
  <2>1. GateAnswer(j) \in WorkerSteps \cup Decisions
        /\ GateAnswer(j) \notin {"settle", "fail", "failAfterPreemption"}
    BY DEF GateAnswer, WorkerSteps, Decisions
  <2>2. worker' = [worker EXCEPT ![j] = GateAnswer(j)]
    BY <1>1 DEF ReadGate, Goto
  <2>3. ResultInv'
    BY <1>1, <2>1, <2>2 DEF ResultInv, TypeOK, ReadGate
  <2>4. TypeOK'
    BY <1>1, <2>1, <2>2 DEF TypeOK, ReadGate, storeVars, requestVars, insertVars, mainVars,
                            deletionVars
  <2>5. QED
    BY <2>3, <2>4 DEF TypeInv
<1>2. CASE ApplyGate(j)
  <2>1. PICK e \in Entry, w \in {"gate", "ready"} : Mutate(j, e) /\ Goto(j, w)
    BY <1>2, UpdateType DEF ApplyGate
  <2>2. jobs' \in [Job -> Entry] /\ StoreTyped
    BY <2>1, MutateType
  <2>3. worker' = [worker EXCEPT ![j] = w]
    BY <2>1 DEF Goto
  <2>4. ResultInv'
    BY <1>2, <2>3 DEF ResultInv, TypeOK, ApplyGate
  <2>5. TypeOK'
    BY <1>2, <2>2, <2>3 DEF TypeOK, StoreTyped, ApplyGate, requestVars, insertVars, mainVars,
                            deletionVars, WorkerSteps
  <2>6. QED
    BY <2>4, <2>5 DEF TypeInv
<1>3. CASE EnterSlot(j) \/ CheckRecording(j) \/ EndTask(j) \/ PanicTask(j)
  <2>1. PICK w \in {"exit", "cleared", "locked", "settle", "failAfterPreemption", "fail",
                    "dead"} : worker' = [worker EXCEPT ![j] = w]
    BY <1>3 DEF EnterSlot, CheckRecording, EndTask, PanicTask, Goto
  <2>2. /\ result' \in [Job -> Successes \cup ErrorCodes \cup {"none"}]
        /\ \A k \in Job : k # j => result'[k] = result[k]
        /\ j \in MediaImport => result'[j] # "ok"
        /\ w = "settle" => result'[j] # "none"
        /\ w \in {"fail", "failAfterPreemption"} => result'[j] \in ErrorCodes
    <3>1. CASE EnterSlot(j)
      BY <3>1, <2>1 DEF EnterSlot, Return, Goto, TypeOK, ResultInv, ErrorCodes
    <3>2. CASE CheckRecording(j)
      BY <3>2, <2>1 DEF CheckRecording, Return, Goto, TypeOK, ResultInv, ErrorCodes
    <3>3. CASE EndTask(j)
      <4>1. PICK r \in TaskOutcome(j) : result' = [result EXCEPT ![j] = r]
        BY <3>3 DEF EndTask, Return
      <4>2. /\ r \in Successes \cup ErrorCodes
            /\ j \in MediaImport => r # "ok"
            /\ r # "none"
        BY DEF TaskOutcome, Successes, ErrorCodes
      <4>3. w = "settle"
        BY <3>3, <2>1 DEF EndTask, Goto, TypeOK
      <4>4. QED
        BY <4>1, <4>2, <4>3 DEF TypeOK
    <3>4. CASE PanicTask(j)
      BY <3>4 DEF PanicTask, Return, TypeOK, ErrorCodes
    <3>5. QED
      BY <1>3, <3>1, <3>2, <3>3, <3>4
  <2>3. ResultInv'
    BY <2>1, <2>2 DEF ResultInv, TypeOK
  <2>4. slot' \in Job \cup {"free", "poisoned"}
    BY <1>3 DEF EnterSlot, CheckRecording, EndTask, PanicTask, LeaveSlot, TypeOK
  <2>5. faults' \in [Faults -> Nat] /\ UNCHANGED <<jobs, disk, storeError>>
    BY <1>3 DEF EnterSlot, CheckRecording, EndTask, PanicTask, Fault, Faults, TypeOK,
                storeVars
  <2>6. UNCHANGED requestVars
    BY <1>3 DEF EnterSlot, CheckRecording, EndTask, PanicTask
  <2>7. worker' \in [Job -> WorkerSteps \cup Decisions]
    BY <2>1 DEF TypeOK, WorkerSteps, Decisions
  <2>8. TypeOK'
    BY <2>2, <2>4, <2>5, <2>6, <2>7 DEF TypeOK, requestVars, insertVars, mainVars, deletionVars
  <2>9. QED
    BY <2>3, <2>8 DEF TypeInv
<1>4. CASE StartTask(j)
  <2>1. PICK w \in {"task", "settle"} : worker' = [worker EXCEPT ![j] = w]
    BY <1>4 DEF StartTask, Goto
  <2>2. /\ result' \in [Job -> Successes \cup ErrorCodes \cup {"none"}]
        /\ \A k \in Job : k # j => result'[k] = result[k]
        /\ j \in MediaImport => result'[j] # "ok"
        /\ w = "settle" => result'[j] # "none"
    BY <1>4, <2>1 DEF StartTask, Return, Goto, TypeOK, ResultInv, ErrorCodes
  <2>3. ResultInv'
    BY <2>1, <2>2 DEF ResultInv, TypeOK
  <2>4. jobs' \in [Job -> Entry]
    BY <1>4, UpdateType DEF StartTask, storeVars, TypeOK
  <2>5. StoreTyped
    BY <1>4, <2>4, SaveType DEF StartTask, storeVars
  <2>6. slot' \in Job \cup {"free", "poisoned"}
    BY <1>4 DEF StartTask, LeaveSlot, TypeOK
  <2>7. worker' \in [Job -> WorkerSteps \cup Decisions]
    BY <2>1 DEF TypeOK, WorkerSteps
  <2>8. TypeOK'
    BY <1>4, <2>2, <2>4, <2>5, <2>6, <2>7 DEF TypeOK, StoreTyped, StartTask, requestVars, insertVars,
                                              mainVars, deletionVars
  <2>9. QED
    BY <2>3, <2>8 DEF TypeInv
<1>5. QED
  BY <1>1, <1>2, <1>3, <1>4

LEMMA RequestType ==
    ASSUME TypeInv, NEW j \in Job,
           Submit(j) \/ CancelJob(j) \/ Retry(j) \/ Acknowledge(j) \/ ApplyRetention(j)
    PROVE  TypeInv'
<1>0. TypeOK /\ ResultInv /\ jobs[j] \in Entry
  BY DEF TypeInv, TypeOK
<1> USE <1>0
<1>1. /\ worker' \in [Job -> WorkerSteps \cup Decisions]
      /\ \A k \in Job : worker'[k] = "gate" \/ worker'[k] = worker[k]
  BY DEF Submit, CancelJob, Retry, Acknowledge, ApplyRetention, SpawnAlso, workerVars,
         WorkerSteps, TypeOK
<1>2. /\ UNCHANGED <<result, slot, recordingActive, shutdown, targets, deletionVars>>
      /\ main' \in {main, "insert"}
  BY DEF Submit, CancelJob, Retry, Acknowledge, ApplyRetention, workerVars, requestVars,
         mainVars
<1>3. jobs' \in [Job -> Entry]
  <2>1. PICK e \in Entry : jobs' = [jobs EXCEPT ![j] = e]
    <3>1. NoEntry \in Entry /\ NewEntry(NoJob) \in Entry
      BY NewEntryType
    <3>2. Cancel(jobs[j]) \in Entry /\ RetryEntry(jobs[j]) \in Entry
      BY UpdateType
    <3>3. QED
      BY <3>1, <3>2 DEF Submit, Insert, CancelJob, Retry, Acknowledge,
                        ApplyRetention
  <2>2. QED
    BY <2>1 DEF TypeOK
<1>4. StoreTyped
  <2>1. CASE Submit(j) \/ Retry(j)
    <3>1. Snapshot(jobs') \in [Job -> Entry]
      BY <1>3, SnapshotType
    <3>2. LoseSave => faults' \in [Faults -> Nat]
      BY DEF LoseSave, Fault, Faults, TypeOK
    <3>3. QED
      BY <2>1, <3>1, <3>2 DEF Submit, Retry, Insert, LoseSave, StoreTyped, TypeOK
  <2>2. CASE ~(Submit(j) \/ Retry(j))
    BY <1>3, <2>2, SaveType DEF CancelJob, Acknowledge, ApplyRetention
  <2>3. QED
    BY <2>1, <2>2
<1>5. InsertTyped
  <2>1. CASE Submit(j)
    BY <2>1, InsertType DEF Submit
  <2>2. CASE ~Submit(j)
    BY <2>2 DEF CancelJob, Retry, Acknowledge, ApplyRetention, requestVars, insertVars,
       InsertTyped, TypeOK
  <2>3. QED
    BY <2>1, <2>2
<1>6. requests' \in [Requests -> Nat]
  BY DEF Submit, CancelJob, Retry, Acknowledge, ApplyRetention, requestVars, insertVars, Request,
         Requests, TypeOK
<1>7. ResultInv'
  BY <1>1, <1>2 DEF ResultInv
<1>8. TypeOK'
  BY <1>1, <1>2, <1>3, <1>4, <1>5, <1>6 DEF TypeOK, StoreTyped, InsertTyped, deletionVars
<1>9. QED
  BY <1>7, <1>8 DEF TypeInv

LEMMA RecoverFacts ==
    ASSUME TypeOK, RecoverLibrary
    PROVE  /\ jobs' \in [Job -> Entry]
           /\ deleting' \in SUBSET Recording /\ deleted' \in SUBSET Recording
           /\ pending' \in SUBSET Recording /\ pending' \subseteq pending
           /\ deleting' \subseteq deleting \cup pending
           /\ deleting \cap pending' \subseteq deleting'
           /\ \A j \in Job : Reconciled(jobs[j], jobs'[j])
           /\ \A j \in MediaImport : jobs'[j] # NoEntry \/ jobs'[j] = jobs[j]
<1>1. PICK done \in SUBSET pending, resolved \in BOOLEAN, gated \in SUBSET pending :
        /\ deleting' = (deleting \cup gated) \ done
        /\ pending' = pending \ done
        /\ deleted' = deleted \cup done
        /\ \E cleaned \in SUBSET gated : jobs' = Recovered(jobs, cleaned, resolved)
  BY DEF RecoverLibrary, Reconcile
<1>2. jobs \in [Job -> Entry]
  BY DEF TypeOK
<1>3. /\ jobs' \in [Job -> Entry]
      /\ \A j \in Job : Reconciled(jobs[j], jobs'[j])
      /\ \A j \in MediaImport : jobs'[j] # NoEntry \/ jobs'[j] = jobs[j]
  BY <1>1, <1>2, RecoveredFacts
<1>4. QED
  BY <1>1, <1>3 DEF TypeOK

LEMMA EndSubmitType ==
    ASSUME TypeInv, EndSubmit
    PROVE  TypeInv'
<1>0. TypeOK /\ ResultInv
  BY DEF TypeInv
<1>1. jobs' \in [Job -> Entry] /\ StoreTyped /\ InsertTyped
  BY <1>0, InsertedType DEF EndSubmit
<1>2. /\ worker' \in [Job -> WorkerSteps \cup Decisions]
      /\ \A j \in Job : worker'[j] = worker[j] \/ worker'[j] = "gate"
  BY <1>0 DEF EndSubmit, WorkerSteps, TypeOK
<1>3. /\ UNCHANGED <<result, slot, recordingActive, shutdown, targets, deletionVars, requests>>
      /\ main' = "idle"
  BY DEF EndSubmit
<1>4. ResultInv'
  BY <1>0, <1>2, <1>3 DEF ResultInv
<1>5. TypeOK'
  BY <1>0, <1>1, <1>2, <1>3 DEF TypeOK, StoreTyped, InsertTyped, deletionVars
<1>6. QED
  BY <1>4, <1>5 DEF TypeInv

LEMMA MainType ==
    ASSUME TypeInv,
           \/ CancelAll \/ PauseAll \/ RecoverLibrary
           \/ BeginRecording \/ SignalRecording \/ PassBarrier \/ FailBarrier \/ EndRecording
           \/ (\E r \in Recording : BeginDeletion(r)) \/ FinishDeletion
    PROVE  TypeInv'
<1>0. TypeOK /\ ResultInv
  BY DEF TypeInv
<1> USE <1>0
<1>1. UNCHANGED <<workerVars, insertVars>>
  BY DEF CancelAll, PauseAll, RecoverLibrary, BeginRecording, SignalRecording,
         PassBarrier, FailBarrier, EndRecording, BeginDeletion, FinishDeletion, requestVars
<1>2. ResultInv'
  BY <1>1 DEF ResultInv, workerVars
<1>3. jobs' \in [Job -> Entry]
  <2>1. CASE CancelAll
    BY <2>1, UpdateType DEF CancelAll, Registered, TypeOK
  <2>2. CASE PauseAll
    <3>1. \A j \in Job : PauseForShutdown(jobs[j], j \in OneShot) \in Entry
      <4> SUFFICES ASSUME NEW j \in Job
                   PROVE  PauseForShutdown(jobs[j], j \in OneShot) \in Entry
        OBVIOUS
      <4>1. jobs[j] \in Entry /\ (j \in OneShot) \in BOOLEAN
        BY DEF TypeOK
      <4>2. QED
        BY <4>1, UpdateType
    <3>2. QED
      BY <2>2, <3>1 DEF PauseAll, TypeOK
  <2>3. CASE RecoverLibrary
    BY <2>3, RecoverFacts
  <2>4. CASE SignalRecording
    <3>1. \A j \in Job : YieldToRecording(jobs[j], j \in MediaImport) \in Entry
      <4> SUFFICES ASSUME NEW j \in Job
                   PROVE  YieldToRecording(jobs[j], j \in MediaImport) \in Entry
        OBVIOUS
      <4>1. jobs[j] \in Entry /\ (j \in MediaImport) \in BOOLEAN
        BY DEF TypeOK
      <4>2. QED
        BY <4>1, UpdateType
    <3>2. QED
      BY <2>4, <3>1 DEF SignalRecording, TypeOK
  <2>5. CASE FinishDeletion
    BY <2>5, NewEntryType DEF FinishDeletion, Purged, TypeOK
  <2>6. CASE BeginRecording \/ PassBarrier \/ FailBarrier \/ EndRecording
               \/ \E r \in Recording : BeginDeletion(r)
    BY <2>6 DEF BeginRecording, PassBarrier, FailBarrier, EndRecording, BeginDeletion,
                EndPriority, TypeOK
  <2>7. QED
    BY <2>1, <2>2, <2>3, <2>4, <2>5, <2>6
<1>4. StoreTyped
  <2>1. CASE RecoverLibrary \/ FinishDeletion
    <3>1. Snapshot(jobs') \in [Job -> Entry]
      BY <1>3, SnapshotType
    <3>2. LoseSave => faults' \in [Faults -> Nat]
      BY DEF LoseSave, Fault, Faults, TypeOK
    <3>3. QED
      BY <2>1, <3>1, <3>2 DEF RecoverLibrary, FinishDeletion, LoseSave, StoreTyped,
                              TypeOK
  <2>2. CASE ~(RecoverLibrary \/ FinishDeletion)
    BY <1>3, <2>2, SaveType DEF CancelAll, PauseAll, BeginRecording, SignalRecording,
       PassBarrier, FailBarrier, EndRecording, EndPriority, BeginDeletion
  <2>3. QED
    BY <2>1, <2>2
<1>5. targets' \in SUBSET MediaImport
  BY DEF CancelAll, PauseAll, RecoverLibrary, BeginRecording, SignalRecording,
         BarrierTargets, PassBarrier, FailBarrier, EndRecording, BeginDeletion,
         FinishDeletion, requestVars, insertVars, mainVars, TypeOK
<1>6. /\ recordingActive' \in BOOLEAN /\ shutdown' \in BOOLEAN
      /\ main' \in {"down", "idle", "insert", "signal", "barrier", "purge", "resume"}
  BY DEF CancelAll, PauseAll, RecoverLibrary, BeginRecording, SignalRecording,
         PassBarrier, FailBarrier, EndRecording, EndPriority, BeginDeletion,
         FinishDeletion, requestVars, insertVars, mainVars, TypeOK
<1>7. deleting' \in SUBSET Recording /\ pending' \in SUBSET Recording
      /\ removing' \in SUBSET Recording /\ deleted' \in SUBSET Recording
  BY RecoverFacts DEF CancelAll, PauseAll, RecoverLibrary, BeginRecording, SignalRecording,
         PassBarrier, FailBarrier, EndRecording, BeginDeletion, FinishDeletion,
         requestVars, insertVars, deletionVars, TypeOK
<1>8. requests' \in [Requests -> Nat]
  <2>1. requests' = requests \/ \E q \in Requests : Request(q)
    BY DEF CancelAll, PauseAll, RecoverLibrary, BeginRecording, SignalRecording, PassBarrier,
       FailBarrier, EndRecording, BeginDeletion, FinishDeletion, requestVars, Requests
  <2>2. QED
    BY <2>1 DEF Request, TypeOK
<1>9. TypeOK'
  BY <1>1, <1>3, <1>4, <1>5, <1>6, <1>7, <1>8 DEF TypeOK, StoreTyped, workerVars, insertVars
<1>10. QED
  BY <1>2, <1>9 DEF TypeInv

LEMMA RestartType ==
    ASSUME TypeInv, Crash \/ Restart
    PROVE  TypeInv'
<1>0. TypeOK /\ ResultInv
  BY DEF TypeInv
<1> USE <1>0
<1>1. CASE Crash
  <2>1. jobs' \in [Job -> Entry]
    BY <1>1, NewEntryType DEF Crash
  <2>2. faults' \in [Faults -> Nat]
    BY <1>1 DEF Crash, Fault, Faults, TypeOK
  <2>3. ResultInv'
    BY <1>1, JobAssumption DEF Crash, ResultInv
  <2>4. TypeOK'
    BY <1>1, <2>1, <2>2 DEF Crash, TypeOK, WorkerSteps
  <2>5. QED
    BY <2>3, <2>4 DEF TypeInv
<1>2. CASE Restart
  <2> DEFINE js == [j \in Job |-> FromPersisted(disk[j], j \in OneShot)]
  <2>1. SaveBestEffort /\ \E done \in SUBSET pending, resolved \in BOOLEAN :
          \E gated \in SUBSET pending : \E cleaned \in SUBSET gated :
            /\ deleting' = (deleting \cup gated) \ done
            /\ pending' = pending \ done
            /\ deleted' = deleted \cup done
            /\ jobs' = Recovered(js, cleaned, resolved)
    BY <1>2 DEF Restart, Reconcile
  <2>2. /\ jobs' \in [Job -> Entry]
        /\ deleting' \in SUBSET Recording /\ deleted' \in SUBSET Recording
        /\ pending' \in SUBSET Recording
    <3>1. \A j \in Job : FromPersisted(disk[j], j \in OneShot) \in Entry
      <4> SUFFICES ASSUME NEW j \in Job
                   PROVE  FromPersisted(disk[j], j \in OneShot) \in Entry
        OBVIOUS
      <4>1. disk[j] \in Entry /\ (j \in OneShot) \in BOOLEAN
        BY DEF TypeOK
      <4>2. QED
        BY <4>1, UpdateType
    <3>2. js \in [Job -> Entry]
      BY <3>1
    <3> HIDE DEF js
    <3>3. jobs' \in [Job -> Entry]
      BY <2>1, <3>2, RecoveredFacts
    <3>4. QED
      BY <2>1, <3>3 DEF TypeOK
  <2>3. StoreTyped
    BY <2>1, <2>2, SaveType
  <2>4. worker' \in [Job -> {"none", "gate", "followUp"}]
    BY <1>2 DEF Restart
  <2>5. UNCHANGED <<result, slot, recordingActive, shutdown, targets, removing, insertVars,
                    requests>> /\ main' = "idle"
    BY <1>2 DEF Restart
  <2>6. ResultInv'
    BY <2>4, <2>5 DEF ResultInv
  <2>7. TypeOK'
    BY <2>1, <2>2, <2>3, <2>4, <2>5 DEF TypeOK, StoreTyped, WorkerSteps, insertVars
  <2>8. QED
    BY <2>6, <2>7 DEF TypeInv
<1>3. QED
  BY <1>1, <1>2

LEMMA NextType == TypeInv /\ [Next]_vars => TypeInv'
<1> SUFFICES ASSUME TypeInv, [Next]_vars PROVE TypeInv'
  OBVIOUS
<1>1. CASE UNCHANGED vars
  BY <1>1 DEF TypeInv, TypeOK, ResultInv, vars, workerVars, mainVars, deletionVars, insertVars
<1>2. CASE Next
  BY <1>2, WorkerSettleType, WorkerRunType, RequestType, MainType, EndSubmitType, RestartType
     DEF Next, WorkerStep, MainStep
<1>3. QED
  BY <1>1, <1>2

LEMMA TypeInvariant == Spec => []TypeInv
BY InitType, NextType, PTL DEF Spec

(***************************************************************************)
(* The manager's state has its type.  In particular an entry only ever      *)
(* fails with an error code: no path of spawn_once or spawn_descriptor      *)
(* records a task that returned a value as failed.                          *)
(***************************************************************************)
THEOREM TypeCorrect == Spec => []TypeOK
<1>1. TypeInv => TypeOK
  BY DEF TypeInv
<1>2. QED
  BY <1>1, TypeInvariant, PTL

-----------------------------------------------------------------------------
(* What is being inserted *)

(***************************************************************************)
(* insert_job is left by the thread that entered it: an entry is being      *)
(* inserted only while the main thread, or the worker of its parent, is     *)
(* about to save.  A submitted import has no worker before that save.       *)
(***************************************************************************)
InsertInv ==
    /\ \A p \in Job \cup {NoJob} : inserting[p] \subseteq used
    /\ main # "insert" => inserting[NoJob] = {}
    /\ \A j \in Job : /\ worker[j] # "insert" => inserting[j] = {}
                      /\ inserting[j] \subseteq FollowUp[j]
                      /\ main = "down" => worker[j] = "none"
    /\ \A j \in MediaImport : /\ worker[j] # "none" => j \in used
                              /\ j \in inserting[NoJob] => worker[j] = "none"

(* A step that inserts nothing and saves nothing inserted. *)
LEMMA NothingInserted ==
    ASSUME TypeOK, InsertInv, UNCHANGED <<used, inserting>>,
           main' = main \/ (main # "insert" /\ main' # "down"),
           \A j \in Job : \/ worker'[j] = worker[j]
                         \/ /\ worker[j] # "insert" /\ main' # "down"
                            /\ j \in MediaImport => worker[j] # "none"
    PROVE  InsertInv'
<1>1. MediaImport \subseteq Job
  BY JobAssumption
<1>2. QED
  BY <1>1 DEF InsertInv, TypeOK

LEMMA WorkerInsert ==
    ASSUME TypeInv, InsertInv, NEW k \in Job, WorkerStep(k) \/ PanicTask(k)
    PROVE  InsertInv'
<1>0. TypeOK
  BY DEF TypeInv
<1>1. worker[k] # "none" /\ main' = main
  BY DEF WorkerStep, PanicTask, ReadGate, ApplyGate, EnterSlot, CheckRecording, StartTask,
         EndTask, Decide, Settle, SubmitFollowUp, SaveFollowUp, MarkFollowUp, Release,
         Decisions, requestVars, mainVars
<1>2. main # "down" /\ MediaImport \subseteq Job /\ \A j \in MediaImport : j \notin FollowUp[k]
  BY <1>1, JobAssumption DEF InsertInv
<1>3. CASE SubmitFollowUp(k) \/ SaveFollowUp(k)
  <2>1. \A j \in Job : j # k => worker'[j] = worker[j]
    BY <1>0, <1>3 DEF SubmitFollowUp, SaveFollowUp, Goto, TypeOK
  <2>2. \/ UNCHANGED insertVars /\ worker'[k] # "insert" /\ inserting[k] = {}
        \/ \E q \in FollowUp[k] : /\ used' = used \cup {q} /\ worker'[k] = "insert"
                                  /\ inserting' = [inserting EXCEPT ![k] = {q}]
        \/ used' = used /\ inserting' = [inserting EXCEPT ![k] = {}]
    BY <1>0, <1>3 DEF SubmitFollowUp, SaveFollowUp, Insert, SaveInserted, TakeBack, Goto,
       InsertInv, TypeOK
  <2>3. k # NoJob /\ k \in Job \cup {NoJob}
    BY NoJobAssumption
  <2>4. CASE UNCHANGED insertVars /\ worker'[k] # "insert" /\ inserting[k] = {}
    BY <1>1, <1>2, <2>1, <2>4 DEF InsertInv, insertVars
  <2>5. CASE \E q \in FollowUp[k] : /\ used' = used \cup {q} /\ worker'[k] = "insert"
                                    /\ inserting' = [inserting EXCEPT ![k] = {q}]
    <3>1. PICK q \in FollowUp[k] : /\ used' = used \cup {q} /\ worker'[k] = "insert"
                                   /\ inserting' = [inserting EXCEPT ![k] = {q}]
      BY <2>5
    <3>2. \A p \in Job \cup {NoJob} : inserting'[p] = IF p = k THEN {q} ELSE inserting[p]
      BY <1>0, <3>1 DEF TypeOK
    <3>3. QED
      BY <1>1, <1>2, <2>1, <2>3, <3>1, <3>2 DEF InsertInv
  <2>6. CASE used' = used /\ inserting' = [inserting EXCEPT ![k] = {}]
    <3>1. \A p \in Job \cup {NoJob} : inserting'[p] = IF p = k THEN {} ELSE inserting[p]
      BY <1>0, <2>6 DEF TypeOK
    <3>2. QED
      BY <1>1, <1>2, <2>1, <2>3, <2>6, <3>1 DEF InsertInv
  <2>7. QED
    BY <2>2, <2>4, <2>5, <2>6
<1>4. CASE MarkFollowUp(k)
  <2>1. UNCHANGED <<used, inserting>> /\ worker[k] # "insert"
    BY <1>4 DEF MarkFollowUp, requestVars, insertVars
  <2>2. \A j \in Job : j # k =>
           worker'[j] = worker[j] \/ (worker[j] = "none" /\ j \in FollowUp[k])
    BY <1>4 DEF MarkFollowUp, Registered
  <2>3. QED
    BY <1>0, <1>1, <1>2, <2>1, <2>2, NothingInserted
<1>5. CASE ~SubmitFollowUp(k) /\ ~SaveFollowUp(k) /\ ~MarkFollowUp(k)
  <2>1. UNCHANGED <<used, inserting>> /\ worker[k] # "insert"
    BY <1>5 DEF WorkerStep, PanicTask, ReadGate, ApplyGate, EnterSlot, CheckRecording,
       StartTask, EndTask, Decide, Settle, Release, Decisions, requestVars, insertVars
  <2>2. \A j \in Job : j # k => worker'[j] = worker[j]
    BY <1>0, <1>5 DEF WorkerStep, PanicTask, ReadGate, ApplyGate, EnterSlot, CheckRecording,
       StartTask, EndTask, Decide, Settle, Release, Goto, TypeOK
  <2>3. QED
    BY <1>0, <1>1, <1>2, <2>1, <2>2, NothingInserted
<1>6. QED
  BY <1>3, <1>4, <1>5

LEMMA MainInsert ==
    ASSUME TypeInv, InsertInv,
           \/ \E k \in Job : Submit(k) \/ CancelJob(k) \/ Retry(k) \/ Acknowledge(k)
                              \/ ApplyRetention(k)
           \/ CancelAll \/ PauseAll \/ RecoverLibrary \/ BeginRecording \/ EndRecording
           \/ (\E r \in Recording : BeginDeletion(r)) \/ MainStep
    PROVE  InsertInv'
<1>0. TypeOK /\ MediaImport \subseteq OneShot /\ MediaImport \subseteq Job
  BY JobAssumption DEF TypeInv
<1>1. ASSUME NEW k \in Job, Submit(k) PROVE InsertInv'
  <2>1. /\ main = "idle" /\ main' = "insert" /\ worker' = worker /\ k \notin used
        /\ used' = used \cup {k}
        /\ \A p \in Job \cup {NoJob} : inserting'[p] = IF p = NoJob THEN {k} ELSE inserting[p]
    BY <1>0, <1>1 DEF Submit, Insert, workerVars, TypeOK
  <2>2. QED
    BY <1>0, <2>1, NoJobAssumption DEF InsertInv
<1>2. CASE EndSubmit
  <2>1. /\ main' = "idle" /\ used' = used
        /\ \A p \in Job \cup {NoJob} : inserting'[p] = IF p = NoJob THEN {} ELSE inserting[p]
        /\ \A j \in Job : \/ worker'[j] = worker[j]
                          \/ worker[j] = "none" /\ worker'[j] = "gate" /\ j \in inserting[NoJob]
    BY <1>0, <1>2 DEF EndSubmit, SaveInserted, TakeBack, Registered, TypeOK
  <2>2. QED
    BY <1>0, <2>1, NoJobAssumption DEF InsertInv
<1>3. ASSUME NEW k \in Job, Retry(k) PROVE InsertInv'
  <2>1. /\ UNCHANGED <<used, inserting>> /\ main' = main /\ main = "idle" /\ k \notin MediaImport
        /\ \A j \in Job : worker'[j] = worker[j] \/ (j = k /\ worker[j] = "none")
    BY <1>0, <1>3 DEF Retry, SpawnAlso, Registered, mainVars, insertVars, TypeOK
  <2>2. QED
    BY <1>0, <2>1, NothingInserted
<1>4. ASSUME \/ \E k \in Job : CancelJob(k) \/ Acknowledge(k) \/ ApplyRetention(k)
             \/ CancelAll \/ PauseAll \/ RecoverLibrary \/ BeginRecording \/ EndRecording
             \/ (\E r \in Recording : BeginDeletion(r)) \/ SignalRecording \/ PassBarrier
             \/ FailBarrier \/ FinishDeletion
      PROVE  InsertInv'
  <2>1. UNCHANGED <<used, inserting, worker>>
    BY <1>4 DEF CancelJob, Acknowledge, ApplyRetention, CancelAll, PauseAll, RecoverLibrary,
       BeginRecording, EndRecording, BeginDeletion, SignalRecording, PassBarrier, FailBarrier,
       FinishDeletion, requestVars, insertVars, workerVars
  <2>2. main' = main \/ (main # "insert" /\ main' # "down")
    BY <1>4 DEF CancelJob, Acknowledge, ApplyRetention, CancelAll, PauseAll, RecoverLibrary,
       BeginRecording, EndRecording, BeginDeletion, SignalRecording, PassBarrier, FailBarrier,
       FinishDeletion, requestVars, mainVars
  <2>3. QED
    BY <1>0, <2>1, <2>2, NothingInserted
<1>5. QED
  BY <1>1, <1>2, <1>3, <1>4 DEF MainStep

LEMMA NextInsert == TypeInv /\ InsertInv /\ [Next]_vars => InsertInv'
<1> SUFFICES ASSUME TypeInv, InsertInv, [Next]_vars PROVE InsertInv'
  OBVIOUS
<1>0. TypeOK /\ MediaImport \subseteq OneShot /\ MediaImport \subseteq Job
  BY JobAssumption DEF TypeInv
<1>1. ASSUME NEW k \in Job, WorkerStep(k) \/ PanicTask(k) PROVE InsertInv'
  BY <1>1, WorkerInsert
<1>2. CASE Crash
  <2>1. /\ \A p \in Job \cup {NoJob} : inserting'[p] = {}
        /\ \A j \in Job : worker'[j] = "none"
    BY <1>2 DEF Crash
  <2>2. QED
    BY <1>0, <2>1 DEF InsertInv
<1>3. CASE Restart
  <2>1. /\ main = "down" /\ main' = "idle" /\ UNCHANGED <<used, inserting>>
        /\ \A j \in OneShot : j \in Job => worker'[j] = "none"
    BY <1>3 DEF Restart, insertVars
  <2>2. \A p \in Job \cup {NoJob} : inserting[p] = {}
    BY <2>1 DEF InsertInv
  <2>3. QED
    BY <1>0, <2>1, <2>2 DEF InsertInv
<1>4. CASE UNCHANGED vars
  BY <1>0, <1>4, NothingInserted DEF vars, insertVars, workerVars, mainVars
<1>5. QED
  BY <1>1, <1>2, <1>3, <1>4, MainInsert DEF Next

LEMMA InsertInvariant == Spec => []InsertInv
<1>1. Init => InsertInv
  BY JobAssumption DEF Init, InsertInv
<1>2. QED
  BY <1>1, NextInsert, TypeInvariant, PTL DEF Spec

-----------------------------------------------------------------------------
(* The recording barrier *)

(* A step that makes no import suspect and leaves the main thread alone. *)
LEMMA NotMoreSuspect ==
    ASSUME NEW j \in MediaImport, BarrierJob(j), UNCHANGED mainVars,
           Suspect(j)' => Suspect(j),
           Writing(j)' => shutdown \/ jobs'[j].state \in {"running", "cancelling"},
           worker'[j] # "none" => j \in used'
    PROVE  BarrierJob(j)'
BY DEF BarrierJob, HeldByBarrier, mainVars

(* A step that does not touch the import. *)
LEMMA ImportUntouched ==
    ASSUME NEW j \in MediaImport, BarrierJob(j), UNCHANGED mainVars,
           jobs'[j] = jobs[j], worker'[j] = worker[j], result'[j] = result[j],
           used \subseteq used'
    PROVE  BarrierJob(j)'
<1>1. (Suspect(j)' <=> Suspect(j)) /\ (Writing(j)' <=> Writing(j))
  BY DEF Suspect, Writing, UnresolvedImport, Unresolved, MayRun
<1>2. QED
  BY <1>1, NotMoreSuspect DEF BarrierJob

(* An import is a one-shot, exclusive job without follow-up or recording. *)
LEMMA ImportFacts ==
    ASSUME NEW j \in MediaImport
    PROVE  /\ j \in Job /\ j \in OneShot /\ j \in Exclusive
           /\ RecordingOf[j] = {}
           /\ \A k \in Job : j \notin FollowUp[k]
BY JobAssumption

LEMMA OtherWorkerBarrier ==
    ASSUME TypeInv, InsertInv, NEW j \in MediaImport, BarrierJob(j), NEW k \in Job, k # j,
           WorkerStep(k) \/ PanicTask(k)
    PROVE  BarrierJob(j)'
<1>0. TypeOK
  BY DEF TypeInv
<1>1. UNCHANGED mainVars
  BY DEF WorkerStep, PanicTask, ReadGate, ApplyGate, EnterSlot, CheckRecording, StartTask,
         EndTask, Decide, Settle, SubmitFollowUp, SaveFollowUp, MarkFollowUp, Release, requestVars, insertVars
<1>2. worker'[j] = worker[j]
  BY <1>0, ImportFacts
     DEF WorkerStep, PanicTask, ReadGate, ApplyGate, EnterSlot, CheckRecording, StartTask,
         EndTask, Decide, Settle, SubmitFollowUp, SaveFollowUp, MarkFollowUp, Release, Goto, TypeOK
<1>3. result'[j] = result[j]
  BY <1>0, ImportFacts
     DEF WorkerStep, PanicTask, ReadGate, ApplyGate, EnterSlot, CheckRecording, StartTask,
         EndTask, Decide, Settle, SubmitFollowUp, SaveFollowUp, MarkFollowUp, Release, Return, TypeOK
<1>4. jobs'[j] = jobs[j]
  <2>1. CASE SubmitFollowUp(k) \/ SaveFollowUp(k)
    <3>1. j \notin inserting[k] /\ j \in Job /\ j \notin FollowUp[k]
      BY ImportFacts DEF InsertInv
    <3>2. SaveFollowUp(k) => jobs'[j] = jobs[j]
      BY <3>1 DEF SaveFollowUp, SaveInserted, TakeBack
    <3>3. jobs' = jobs \/ (\E q \in FollowUp[k] : jobs' = [jobs EXCEPT ![q] = NewEntry(k)])
            \/ SaveFollowUp(k)
      BY <2>1 DEF SubmitFollowUp, Insert, storeVars
    <3>4. QED
      BY <1>0, <3>1, <3>2, <3>3 DEF TypeOK
  <2>2. CASE ~(SubmitFollowUp(k) \/ SaveFollowUp(k))
    BY <1>0, <2>2, ImportFacts
       DEF WorkerStep, PanicTask, ReadGate, ApplyGate, EnterSlot, CheckRecording, StartTask,
           EndTask, Decide, Settle, MarkFollowUp, Release, Mutate, storeVars, TypeOK
  <2>3. QED
    BY <2>1, <2>2
<1>5. used \subseteq used'
  BY DEF WorkerStep, PanicTask, ReadGate, ApplyGate, EnterSlot, CheckRecording, StartTask,
         EndTask, Decide, Settle, SubmitFollowUp, SaveFollowUp, MarkFollowUp, Release, requestVars, insertVars, Insert, SaveInserted, TakeBack
<1>6. QED
  BY <1>1, <1>2, <1>3, <1>4, <1>5, ImportUntouched

LEMMA OwnWorkerBarrier ==
    ASSUME TypeInv, NEW j \in MediaImport, BarrierJob(j), WorkerStep(j) \/ PanicTask(j)
    PROVE  BarrierJob(j)'
<1>0. TypeOK /\ j \in Job /\ j \in OneShot /\ j \in Exclusive /\ j \notin FollowUp[j]
  BY ImportFacts DEF TypeInv
<1>1. UNCHANGED mainVars
  BY DEF WorkerStep, PanicTask, ReadGate, ApplyGate, EnterSlot, CheckRecording, StartTask,
         EndTask, Decide, Settle, SubmitFollowUp, SaveFollowUp, MarkFollowUp, Release, requestVars, insertVars
<1>2. j \in used /\ used \subseteq used'
  <2>1. worker[j] # "none"
    BY DEF WorkerStep, PanicTask, ReadGate, ApplyGate, EnterSlot, CheckRecording,
           StartTask, EndTask, Decide, Settle, SubmitFollowUp, SaveFollowUp, MarkFollowUp, Release,
           Decisions
  <2>2. used \subseteq used'
    BY DEF WorkerStep, PanicTask, ReadGate, ApplyGate, EnterSlot, CheckRecording,
           StartTask, EndTask, Decide, Settle, SubmitFollowUp, SaveFollowUp, MarkFollowUp, Release,
           requestVars, insertVars, Insert, SaveInserted, TakeBack
  <2>3. QED
    BY <2>1, <2>2 DEF BarrierJob
<1> USE <1>0
<1>3. CASE ReadGate(j) \/ ApplyGate(j) \/ Release(j)
  <2>1. worker'[j] \in {"cancel", "exit", "yield", "queue", "admit", "gate", "ready",
                        "none"}
    BY <1>3 DEF ReadGate, GateAnswer, ApplyGate, Release, Goto, TypeOK
  <2>2. UnresolvedImport(j)' => UnresolvedImport(j)
    <3>1. \/ jobs'[j] = jobs[j]
          \/ jobs'[j] \in {SetPaused(jobs[j]), SetQueued(jobs[j]), Admit(jobs[j])}
      BY <1>3 DEF ReadGate, ApplyGate, Release, Mutate, storeVars, TypeOK
    <3>2. jobs[j] \in Entry
      BY DEF TypeOK
    <3>3. \A e \in {SetPaused(jobs[j]), SetQueued(jobs[j]), Admit(jobs[j])} :
            e.state = "failed" => e = jobs[j]
      BY <3>2 DEF SetPaused, SetQueued, Admit, Entry, Terminal, TerminalStates
    <3>4. QED
      BY <3>1, <3>3 DEF UnresolvedImport, Unresolved
  <2>3. QED
    BY <1>1, <1>2, <2>1, <2>2, NotMoreSuspect DEF Suspect, Writing
<1>4. CASE EnterSlot(j)
  <2>1. /\ worker'[j] \in {"exit", "locked", "settle"}
        /\ worker'[j] = "settle" => result'[j] = "SCHEDULER_UNAVAILABLE"
    BY <1>4 DEF EnterSlot, Goto, Return, TypeOK
  <2>2. UnresolvedImport(j)' <=> UnresolvedImport(j)
    BY <1>4 DEF EnterSlot, UnresolvedImport, Unresolved, storeVars
  <2>3. QED
    BY <1>1, <1>2, <2>1, <2>2, NotMoreSuspect DEF Suspect, Writing, RequiresRecovery
<1>5. CASE CheckRecording(j)
  <2>1. \/ worker'[j] = "settle" /\ result'[j] = "RECORDING_PRIORITY"
        \/ worker'[j] = "cleared" /\ ~recordingActive
    BY <1>5 DEF CheckRecording, Goto, Return, TypeOK
  <2>2. UnresolvedImport(j)' <=> UnresolvedImport(j)
    BY <1>5 DEF CheckRecording, UnresolvedImport, Unresolved, storeVars
  <2>3. ~Writing(j)'
    BY <2>1 DEF Writing, RequiresRecovery
  <2>4. QED
    BY <1>1, <1>2, <2>1, <2>2, <2>3 DEF BarrierJob, Suspect, HeldByBarrier, mainVars
<1>6. CASE StartTask(j)
  <2>1. \/ /\ worker[j] = "cleared" /\ MayRun(jobs[j])
           /\ worker'[j] = "task" /\ jobs'[j].state = "running"
        \/ /\ worker'[j] = "settle" /\ result'[j] = "JOB_CANCELLED"
           /\ jobs'[j] = jobs[j]
    BY <1>6 DEF StartTask, Goto, Return, SetRunning, storeVars, TypeOK, Entry
  <2>2. Suspect(j)' => Suspect(j)
    BY <2>1 DEF Suspect, Writing, RequiresRecovery, UnresolvedImport, Unresolved
  <2>3. Writing(j)' => jobs'[j].state = "running"
    BY <2>1 DEF Writing, RequiresRecovery
  <2>4. QED
    BY <1>1, <1>2, <2>2, <2>3, NotMoreSuspect
<1>7. CASE EndTask(j) \/ PanicTask(j)
  <2>1. worker[j] = "task" /\ jobs'[j] = jobs[j] /\ worker'[j] # "cleared"
    BY <1>7 DEF EndTask, PanicTask, Goto, storeVars, TypeOK
  <2>2. QED
    BY <1>1, <1>2, <2>1, NotMoreSuspect DEF Suspect, Writing, BarrierJob
<1>8. CASE Decide(j)
  <2>1. /\ worker[j] = "settle" /\ jobs'[j] = jobs[j]
        /\ result'[j] \in {result[j], "RECORDING_PRIORITY"}
        /\ worker'[j] \in Decisions
    BY <1>8 DEF Decide, Goto, Return, OneShotDecision, storeVars, TypeOK, Decisions
  <2>2. Writing(j)' => Writing(j)
    BY <2>1 DEF Writing, RequiresRecovery, Decisions
  <2>3. Suspect(j)' => Suspect(j)
    BY <2>1, <2>2 DEF Suspect, UnresolvedImport, Unresolved, Decisions
  <2>4. QED
    BY <1>1, <1>2, <2>1, <2>2, <2>3, NotMoreSuspect DEF BarrierJob
<1>9. CASE Settle(j)
  <2>1. worker'[j] \in {"gate", "followUp", "exit"}
    BY <1>9 DEF Settle, Goto, TypeOK
  <2>2. worker[j] \in Decisions /\ jobs'[j] \in {jobs[j], Settled(j)}
    BY <1>9 DEF Settle, Mutate, TypeOK
  <2>3. jobs[j] \in Entry
    BY DEF TypeOK
  <2>4. Settled(j).state = "failed" =>
           \/ Settled(j) = jobs[j]
           \/ /\ worker[j] \in {"fail", "failAfterPreemption"}
              /\ Settled(j).error = result[j]
    <3>1. /\ FinishCancelled(jobs[j]).state = "cancelled"
          /\ FinishCompleted(jobs[j]).state # "failed"
          /\ FinishCommitted(jobs[j]).state # "failed"
          /\ SetPaused(jobs[j]).state = "failed" => SetPaused(jobs[j]) = jobs[j]
      BY <2>3 DEF FinishCancelled, FinishCompleted, FinishCommitted, SetPaused, Entry
    <3>2. FinishFailed(jobs[j], result[j]).state = "failed" =>
             FinishFailed(jobs[j], result[j]).error = result[j]
      BY <2>3 DEF FinishCancelled, FinishFailed, Entry
    <3>3. LET e == FinishFailedAfterPreemption(jobs[j], result[j])
          IN  e.state = "failed" => e.error = result[j]
      BY <2>3 DEF FinishFailedAfterPreemption, Entry
    <3>4. QED
      BY <2>2, <3>1, <3>2, <3>3 DEF Settled, Decisions
  <2>5. UnresolvedImport(j)' => UnresolvedImport(j) \/ Writing(j)
    BY <2>2, <2>4 DEF UnresolvedImport, Unresolved, Writing
  <2>6. QED
    BY <1>1, <1>2, <2>1, <2>5, NotMoreSuspect DEF Suspect, Writing
<1>10. CASE SubmitFollowUp(j) \/ SaveFollowUp(j)
  <2>1. worker'[j] \in {"mark", "insert", "spawn", "exit"}
    BY <1>10 DEF SubmitFollowUp, SaveFollowUp, Goto, TypeOK
  <2>2. jobs'[j] = jobs[j] \/ jobs'[j] = NoEntry
    BY <1>10 DEF SubmitFollowUp, SaveFollowUp, Insert, SaveInserted, TakeBack, storeVars, TypeOK
  <2>3. QED
    BY <1>1, <1>2, <2>1, <2>2, NotMoreSuspect, NewEntryType
       DEF Suspect, Writing, UnresolvedImport, Unresolved
<1>11. CASE MarkFollowUp(j)
  <2>1. worker'[j] = "exit"
    BY <1>11 DEF MarkFollowUp
  <2>2. jobs'[j].state = jobs[j].state /\ jobs'[j].error = jobs[j].error
    BY <1>11 DEF MarkFollowUp, Mutate, TypeOK, Entry
  <2>3. QED
    BY <1>1, <1>2, <2>1, <2>2, NotMoreSuspect DEF Suspect, Writing, UnresolvedImport, Unresolved
<1>12. QED
  BY <1>3, <1>4, <1>5, <1>6, <1>7, <1>8, <1>9, <1>10, <1>11 DEF WorkerStep

LEMMA RequestBarrier ==
    ASSUME TypeInv, NEW j \in MediaImport, BarrierJob(j), NEW k \in Job,
           Submit(k) \/ CancelJob(k) \/ Retry(k) \/ Acknowledge(k) \/ ApplyRetention(k)
    PROVE  BarrierJob(j)'
<1>0. TypeOK /\ j \in Job /\ j \in OneShot
  BY ImportFacts DEF TypeInv
<1>1. /\ UNCHANGED mainVars \/ Submit(k)
      /\ result' = result /\ used \subseteq used'
  BY DEF Submit, Insert, CancelJob, Retry, Acknowledge, ApplyRetention, requestVars, insertVars,
         workerVars
<1>2. CASE k # j /\ ~Submit(k)
  BY <1>0, <1>1, <1>2, ImportUntouched
     DEF CancelJob, Retry, Acknowledge, ApplyRetention, SpawnAlso, workerVars, TypeOK
<1>3. CASE Submit(k)
  <2>1. /\ main = "idle" /\ main' = "insert" /\ worker' = worker
        /\ UNCHANGED <<recordingActive, shutdown>>
        /\ k \notin used /\ used' = used \cup {k}
        /\ jobs'[j] = IF j = k THEN NewEntry(NoJob) ELSE jobs[j]
    BY <1>0, <1>3 DEF Submit, Insert, workerVars, TypeOK
  <2>2. CASE j = k
    <3>1. worker[j] = "none" /\ jobs'[j].state = "queued"
      BY <2>1, <2>2, NewEntryType DEF BarrierJob
    <3>2. QED
      BY <2>1, <2>2, <3>1 DEF BarrierJob, Suspect, Writing, UnresolvedImport, Unresolved
  <2>3. CASE j # k
    <3>1. (Suspect(j)' <=> Suspect(j)) /\ (Writing(j)' <=> Writing(j))
      BY <1>1, <2>1, <2>3 DEF Suspect, Writing, UnresolvedImport, Unresolved, MayRun
    <3>2. QED
      BY <2>1, <2>3, <3>1 DEF BarrierJob, HeldByBarrier
  <2>4. QED
    BY <2>2, <2>3
<1>4. CASE k = j /\ CancelJob(k)
  <2>1. /\ worker' = worker /\ UNCHANGED mainVars
        /\ jobs'[j].state = "cancelling" /\ jobs'[j].cancelRequested
    BY <1>0, <1>4 DEF CancelJob, Cancel, workerVars, requestVars, TypeOK, Entry
  <2>2. QED
    BY <1>1, <2>1, NotMoreSuspect
       DEF Suspect, Writing, UnresolvedImport, Unresolved, MayRun, BarrierJob
<1>5. CASE k = j /\ (Acknowledge(k) \/ ApplyRetention(k))
  <2>1. /\ worker' = worker /\ UNCHANGED mainVars /\ jobs'[j] = NoEntry
        /\ jobs[j].state \in TerminalStates
    BY <1>0, <1>5 DEF Acknowledge, ApplyRetention, Removable, Terminal, workerVars, requestVars,
       TypeOK
  <2>2. ~MayRun(NoEntry) /\ NoEntry.state = "absent"
    BY NewEntryType DEF MayRun, Active, ActiveStates
  <2>3. Writing(j)' => shutdown
    BY <1>1, <2>1 DEF Writing, BarrierJob, TerminalStates
  <2>4. QED
    BY <1>1, <2>1, <2>2, <2>3, NotMoreSuspect
       DEF Suspect, Writing, UnresolvedImport, Unresolved, BarrierJob
<1>6. CASE k = j /\ Retry(k)
  BY <1>0, <1>6 DEF Retry
<1>7. QED
  BY <1>2, <1>3, <1>4, <1>5, <1>6

LEMMA MainBarrier ==
    ASSUME TypeInv, BarrierInv, NEW j \in MediaImport,
           \/ CancelAll \/ PauseAll \/ RecoverLibrary
           \/ BeginRecording \/ SignalRecording \/ PassBarrier \/ FailBarrier \/ EndRecording
           \/ (\E r \in Recording : BeginDeletion(r)) \/ FinishDeletion
    PROVE  BarrierJob(j)'
<1>0. /\ TypeOK /\ BarrierJob(j) /\ jobs[j] \in Entry
      /\ j \in Job /\ j \in OneShot /\ j \in Exclusive /\ RecordingOf[j] = {}
  BY ImportFacts DEF TypeInv, TypeOK, BarrierInv
<1>1. worker' = worker /\ result' = result /\ used' = used
  BY DEF CancelAll, PauseAll, RecoverLibrary, BeginRecording, SignalRecording,
         PassBarrier, FailBarrier, EndRecording, BeginDeletion, FinishDeletion,
         requestVars, insertVars, workerVars
<1> USE <1>0, <1>1
<1>2. CASE CancelAll
  <2>1. /\ UNCHANGED mainVars
        /\ jobs'[j] = IF jobs[j].state \in {"queued", "running", "paused"}
                      THEN CancelFromAll(jobs[j], Registered(j)) ELSE jobs[j]
    BY <1>2 DEF CancelAll, requestVars, insertVars
  <2>2. LET e == CancelFromAll(jobs[j], Registered(j))
        IN  /\ e.cancelRequested /\ e.state # "failed"
            /\ Registered(j) => e.state = "cancelling"
    BY DEF CancelFromAll, Entry
  <2>3. Writing(j) => Registered(j)
    BY DEF Writing, Registered
  <2>4. QED
    BY <2>1, <2>2, <2>3, NotMoreSuspect
       DEF Suspect, Writing, UnresolvedImport, Unresolved, MayRun, BarrierJob
<1>3. CASE PauseAll
  BY <1>3 DEF PauseAll, BarrierJob
<1>4. CASE RecoverLibrary
  <2>1. UNCHANGED mainVars /\ Reconciled(jobs[j], jobs'[j])
        /\ (jobs'[j] # NoEntry \/ jobs'[j] = jobs[j])
    BY <1>4, RecoverFacts DEF RecoverLibrary
  <2>2. CASE jobs'[j] = jobs[j]
    BY <2>1, <2>2, ImportUntouched
  <2>3. CASE jobs[j].state = "failed" /\ jobs'[j] = [jobs[j] EXCEPT !.error = "RESOLVED"]
    <3>1. jobs'[j].state = "failed" /\ jobs'[j].error = "RESOLVED"
      BY <2>3 DEF Entry
    <3>2. QED
      BY <2>1, <2>3, <3>1, NotMoreSuspect
         DEF Suspect, Writing, UnresolvedImport, Unresolved, RequiresRecovery, MayRun, Active,
             ActiveStates, BarrierJob
  <2>4. QED
    BY <2>1, <2>2, <2>3 DEF Reconciled
<1>5. CASE BeginRecording
  BY <1>5 DEF BeginRecording, BarrierJob, HeldByBarrier, Writing
<1>6. CASE SignalRecording
  <2>1. /\ main' = "barrier" /\ targets' = BarrierTargets
        /\ UNCHANGED <<recordingActive, shutdown>>
        /\ jobs'[j] = IF Active(jobs[j]) THEN YieldToRecording(jobs[j], j \in MediaImport)
                      ELSE jobs[j]
    BY <1>6 DEF SignalRecording
  <2>2. Active(jobs[j]) \/ UnresolvedImport(j) => j \in targets'
    BY <2>1 DEF BarrierTargets
  <2>3. jobs[j].state \in {"running", "cancelling"} =>
           jobs'[j].state \in {"running", "cancelling"}
    BY <2>1 DEF YieldToRecording, Active, ActiveStates, Entry
  <2>4. Writing(j)' => shutdown \/ Active(jobs[j])
    BY DEF Writing, BarrierJob, Active, ActiveStates
  <2>5. Suspect(j)' => shutdown \/ Active(jobs[j]) \/ UnresolvedImport(j)
    BY <2>1, <2>4 DEF Suspect, UnresolvedImport, Unresolved, MayRun
  <2>6. QED
    BY <2>1, <2>2, <2>3, <2>5 DEF BarrierJob, HeldByBarrier, Writing
<1>7. CASE PassBarrier
  <2>1. main = "barrier" /\ jobs' = jobs /\ UNCHANGED <<recordingActive, shutdown>>
    BY <1>7 DEF PassBarrier
  <2>2. j \in targets => ~Suspect(j)
    BY <1>7 DEF PassBarrier, BarrierVerified, Registered, Suspect, Writing,
                UnresolvedImport, Unresolved
  <2>3. recordingActive /\ ~shutdown => ~Suspect(j)
    BY <2>1, <2>2 DEF BarrierJob, HeldByBarrier
  <2>4. (Suspect(j)' <=> Suspect(j)) /\ (Writing(j)' <=> Writing(j))
    BY <2>1 DEF Suspect, Writing, UnresolvedImport, Unresolved
  <2>5. QED
    BY <2>1, <2>3, <2>4 DEF BarrierJob
<1>8. CASE FailBarrier \/ EndRecording
  BY <1>8 DEF FailBarrier, EndRecording, EndPriority, BarrierJob, Writing
<1>9. CASE (\E r \in Recording : BeginDeletion(r)) \/ FinishDeletion
  <2>1. /\ main \in {"idle", "purge", "resume"}
        /\ UNCHANGED <<recordingActive, shutdown>> /\ jobs'[j] = jobs[j]
    BY <1>9 DEF BeginDeletion, FinishDeletion, Purged
  <2>2. (Suspect(j)' <=> Suspect(j)) /\ (Writing(j)' <=> Writing(j))
    BY <2>1 DEF Suspect, Writing, UnresolvedImport, Unresolved
  <2>3. QED
    BY <2>1, <2>2 DEF BarrierJob, HeldByBarrier
<1>10. QED
  BY <1>2, <1>3, <1>4, <1>5, <1>6, <1>7, <1>8, <1>9

LEMMA EndSubmitBarrier ==
    ASSUME TypeInv, InsertInv, NEW j \in MediaImport, BarrierJob(j), EndSubmit
    PROVE  BarrierJob(j)'
<1>0. TypeOK /\ j \in Job
  BY ImportFacts DEF TypeInv
<1>1. /\ main = "insert" /\ main' = "idle"
      /\ UNCHANGED <<result, recordingActive, shutdown, used>>
  BY DEF EndSubmit, SaveInserted, TakeBack
<1>2. CASE j \in inserting[NoJob]
  <2>1. worker[j] = "none" /\ j \in used
    BY <1>2 DEF InsertInv
  <2>2. worker'[j] \in {"none", "gate"} /\ (jobs'[j] = jobs[j] \/ jobs'[j] = NoEntry)
    BY <1>0, <2>1 DEF EndSubmit, SaveInserted, TakeBack, TypeOK
  <2>3. ~Writing(j)' /\ (Suspect(j)' => Suspect(j))
    BY <2>1, <2>2, NewEntryType DEF Suspect, Writing, UnresolvedImport, Unresolved
  <2>4. QED
    BY <1>1, <2>1, <2>3 DEF BarrierJob, HeldByBarrier
<1>3. CASE j \notin inserting[NoJob]
  <2>1. worker'[j] = worker[j] /\ jobs'[j] = jobs[j]
    BY <1>0, <1>3 DEF EndSubmit, SaveInserted, TakeBack, TypeOK
  <2>2. (Suspect(j)' <=> Suspect(j)) /\ (Writing(j)' <=> Writing(j))
    BY <1>1, <2>1 DEF Suspect, Writing, UnresolvedImport, Unresolved, MayRun
  <2>3. QED
    BY <1>1, <2>1, <2>2 DEF BarrierJob, HeldByBarrier
<1>4. QED
  BY <1>2, <1>3

LEMMA RestartBarrier ==
    ASSUME TypeInv, BarrierInv, NEW j \in MediaImport, Crash \/ Restart
    PROVE  BarrierJob(j)'
<1>0. j \in Job /\ j \in OneShot
  BY ImportFacts
<1>1. worker'[j] = "none" /\ ~recordingActive'
  BY <1>0 DEF Crash, Restart, BarrierInv
<1>2. QED
  BY <1>1 DEF BarrierJob, Writing

LEMMA InitBarrier == Init => BarrierInv
BY JobAssumption DEF Init, BarrierInv, BarrierJob, Writing

LEMMA NextBarrier == TypeInv /\ InsertInv /\ BarrierInv /\ [Next]_vars => BarrierInv'
<1> SUFFICES ASSUME TypeInv, InsertInv, BarrierInv, [Next]_vars PROVE BarrierInv'
  OBVIOUS
<1>1. (main = "down" => ~recordingActive)'
  <2>1. ASSUME NEW k \in Job, WorkerStep(k) \/ PanicTask(k) PROVE UNCHANGED mainVars
    BY <2>1 DEF WorkerStep, PanicTask, ReadGate, ApplyGate, EnterSlot, CheckRecording, StartTask,
       EndTask, Decide, Settle, SubmitFollowUp, SaveFollowUp, MarkFollowUp, Release, requestVars
  <2>2. ASSUME NEW k \in Job,
               Submit(k) \/ CancelJob(k) \/ Retry(k) \/ Acknowledge(k) \/ ApplyRetention(k)
        PROVE  UNCHANGED mainVars \/ main' = "insert"
    BY <2>2 DEF Submit, CancelJob, Retry, Acknowledge, ApplyRetention, requestVars
  <2>3. CASE \/ CancelAll \/ PauseAll \/ RecoverLibrary \/ BeginRecording \/ EndRecording
             \/ (\E r \in Recording : BeginDeletion(r)) \/ MainStep \/ Crash \/ Restart
    BY <2>3 DEF BarrierInv, MainStep, CancelAll, PauseAll, RecoverLibrary, BeginRecording,
       SignalRecording, PassBarrier, FailBarrier, EndRecording, EndPriority, BeginDeletion,
       EndSubmit, FinishDeletion, Crash, Restart, requestVars, mainVars
  <2>4. QED
    BY <2>1, <2>2, <2>3 DEF BarrierInv, Next, vars, mainVars
<1>2. ASSUME NEW j \in MediaImport PROVE BarrierJob(j)'
  <2>0. BarrierJob(j) /\ j \in Job
    BY ImportFacts DEF BarrierInv
  <2>1. ASSUME NEW k \in Job, WorkerStep(k) \/ PanicTask(k) PROVE BarrierJob(j)'
    BY <2>0, <2>1, OwnWorkerBarrier, OtherWorkerBarrier
  <2>2. ASSUME NEW k \in Job,
               Submit(k) \/ CancelJob(k) \/ Retry(k) \/ Acknowledge(k) \/ ApplyRetention(k)
        PROVE  BarrierJob(j)'
    BY <2>0, <2>2, RequestBarrier
  <2>3. CASE \/ CancelAll \/ PauseAll \/ RecoverLibrary
             \/ BeginRecording \/ SignalRecording \/ PassBarrier \/ FailBarrier
             \/ EndRecording \/ (\E r \in Recording : BeginDeletion(r)) \/ FinishDeletion
    BY <2>3, MainBarrier
  <2>4. CASE Crash \/ Restart \/ EndSubmit
    BY <2>0, <2>4, RestartBarrier, EndSubmitBarrier
  <2>5. CASE UNCHANGED vars
    BY <2>0, <2>5, ImportUntouched DEF vars, insertVars, workerVars
  <2>6. QED
    BY <2>1, <2>2, <2>3, <2>4, <2>5 DEF Next, MainStep
<1>3. QED
  BY <1>1, <1>2 DEF BarrierInv

LEMMA BarrierInvariant == Spec => []BarrierInv
BY InitBarrier, NextBarrier, InsertInvariant, TypeInvariant, PTL DEF Spec

(***************************************************************************)
(* For any number of imports, other jobs, recordings and faults: once       *)
(* begin_recording_priority has granted the recording, no media import is   *)
(* decoding or writing.                                                     *)
(***************************************************************************)
THEOREM RecordingIsExclusive == Spec => []RecordingExcludesImport
<1>1. BarrierInv => RecordingExcludesImport
  BY DEF BarrierInv, BarrierJob, HeldByBarrier, Suspect, Writing, RecordingGranted,
         RecordingExcludesImport
<1>2. QED
  BY <1>1, BarrierInvariant, PTL

(***************************************************************************)
(* For any number of imports, other jobs, recordings and faults: a granted  *)
(* recording never runs beside an import whose cleanup failed and has not   *)
(* been resolved by recording recovery.                                     *)
(***************************************************************************)
THEOREM RecordingIsClean == Spec => []RecordingStartsClean
<1>1. BarrierInv => RecordingStartsClean
  BY DEF BarrierInv, BarrierJob, HeldByBarrier, Suspect, RecordingGranted,
         RecordingStartsClean
<1>2. QED
  BY <1>1, BarrierInvariant, PTL

-----------------------------------------------------------------------------
(* Entries over their life: what every update of an entry respects *)

(* A requested cancellation has reached the task, and shows. *)
CancelSound(e) ==
    Active(e) /\ e.cancelRequested => e.state = "cancelling" /\ e.cancellation

(* From e to f without a submission: nothing appears, and a follow-up keeps
   its parent. *)
Kept(e, f) ==
    /\ f \in Entry
    /\ f.state # "absent" => e.state # "absent" /\ f.parent = e.parent
    /\ f.state = "absent" => f.parent = NoJob \/ (e.state = "absent" /\ f.parent = e.parent)
    /\ CancelSound(e) => CancelSound(f)

(* Without a retry either: what ended does not become active again. *)
Tame(e, f) == Kept(e, f) /\ (Active(f) => Active(e))

(* The state a cancelled job may be in next. *)
Sticks(e, f) ==
    Active(e) /\ e.cancelRequested /\ CancelSound(e) =>
        f.state \in {"cancelling", "cancelled", "absent"}

LEMMA UpdateTame ==
    ASSUME NEW e \in Entry, NEW b \in BOOLEAN, e.state # "absent"
    PROVE  /\ \A f \in {FinishCancelled(e), FinishCompleted(e), SetPaused(e), SetQueued(e),
                        Admit(e)} : Tame(e, f) /\ Sticks(e, f)
           /\ Tame(e, FinishCommitted(e))
           /\ MayRun(e) => Tame(e, SetRunning(e)) /\ Sticks(e, SetRunning(e))
           /\ Active(e) => \A f \in {Cancel(e), CancelFromAll(e, b), YieldToRecording(e, b),
                                     PauseForShutdown(e, b)} : Tame(e, f) /\ Sticks(e, f)
<1> USE DEF Tame, Kept, Sticks, CancelSound, Active, ActiveStates
<1>1. \A f \in {FinishCancelled(e), FinishCompleted(e), SetPaused(e), SetQueued(e), Admit(e),
                FinishCommitted(e), SetRunning(e), Cancel(e), CancelFromAll(e, b),
                YieldToRecording(e, b), PauseForShutdown(e, b)} : f \in Entry
  BY UpdateType
<1>2. Tame(e, FinishCancelled(e)) /\ Sticks(e, FinishCancelled(e))
  BY <1>1 DEF FinishCancelled, Entry
<1>3. Tame(e, FinishCompleted(e)) /\ Sticks(e, FinishCompleted(e))
  BY <1>1 DEF FinishCompleted, FinishCancelled, CancellationWins, Entry
<1>4. Tame(e, SetPaused(e)) /\ Sticks(e, SetPaused(e))
  BY <1>1 DEF SetPaused, Terminal, TerminalStates, Entry
<1>5. Tame(e, SetQueued(e)) /\ Sticks(e, SetQueued(e))
  BY <1>1 DEF SetQueued, Terminal, TerminalStates, Entry
<1>6. Tame(e, Admit(e)) /\ Sticks(e, Admit(e))
  BY <1>1 DEF Admit, Terminal, TerminalStates, Entry
<1>7. Tame(e, FinishCommitted(e))
  BY <1>1 DEF FinishCommitted, Entry
<1>8. MayRun(e) => Tame(e, SetRunning(e)) /\ Sticks(e, SetRunning(e))
  BY <1>1 DEF SetRunning, MayRun, Entry
<1>9. Active(e) => Tame(e, Cancel(e)) /\ Sticks(e, Cancel(e))
  BY <1>1 DEF Cancel, Entry
<1>10. Active(e) => Tame(e, CancelFromAll(e, b)) /\ Sticks(e, CancelFromAll(e, b))
  BY <1>1 DEF CancelFromAll, Entry
<1>11. Active(e) => Tame(e, YieldToRecording(e, b)) /\ Sticks(e, YieldToRecording(e, b))
  BY <1>1 DEF YieldToRecording, FinishCancelled, Entry
<1>12. Active(e) => Tame(e, PauseForShutdown(e, b)) /\ Sticks(e, PauseForShutdown(e, b))
  BY <1>1 DEF PauseForShutdown, Entry
<1> HIDE DEF Tame, Kept, Sticks, Active
<1>13. QED
  BY <1>2, <1>3, <1>4, <1>5, <1>6, <1>7, <1>8, <1>9, <1>10, <1>11, <1>12

LEMMA FailureTame ==
    ASSUME NEW e \in Entry, NEW code \in ErrorCodes, e.state # "absent"
    PROVE  /\ Tame(e, FinishFailed(e, code)) /\ Sticks(e, FinishFailed(e, code))
           /\ Tame(e, FinishFailedAfterPreemption(e, code))
<1> USE DEF Tame, Kept, Sticks, CancelSound, Active, ActiveStates
<1>1. FinishFailed(e, code) \in Entry /\ FinishFailedAfterPreemption(e, code) \in Entry
  BY FailureType
<1>2. Tame(e, FinishFailed(e, code)) /\ Sticks(e, FinishFailed(e, code))
  BY <1>1 DEF FinishFailed, FinishCancelled, CancellationWins, Entry
<1>3. Tame(e, FinishFailedAfterPreemption(e, code))
  BY <1>1 DEF FinishFailedAfterPreemption, Entry
<1>4. QED
  BY <1>2, <1>3

LEMMA SameTame ==
    ASSUME NEW e \in Entry
    PROVE  /\ Tame(e, e) /\ Sticks(e, e)
           /\ Tame(e, NoEntry) /\ Sticks(e, NoEntry)
<1>1. NoEntry \in Entry /\ NoEntry.state = "absent" /\ ~Active(NoEntry)
  BY NewEntryType DEF Active, ActiveStates
<1>2. NoEntry.parent = NoJob
  BY DEF NoEntry, NewEntry
<1>3. QED
  BY <1>1, <1>2 DEF Tame, Kept, Sticks, CancelSound

LEMMA SnapshotFacts ==
    ASSUME NEW js \in [Job -> Entry], NEW j \in Job
    PROVE  /\ Snapshot(js)[j].state = js[j].state
           /\ Snapshot(js)[j].parent = js[j].parent
           /\ ~Snapshot(js)[j].cancelRequested
<1>1. Snapshot(js)[j] = Persisted(js[j]) /\ js[j] \in Entry
  BY DEF Snapshot
<1>2. QED
  BY <1>1 DEF Persisted, Entry

(* What a step does to the disk. *)
Saved == disk' = disk \/ disk' = Snapshot(jobs')

LEMMA SaveSaves ==
    ASSUME SaveBestEffort \/ SaveOrReport \/ UNCHANGED <<disk, storeError, faults>>
    PROVE  Saved
BY DEF SaveBestEffort, SaveOrReport, LoseSave, Saved

LEMMA WorkerTame ==
    ASSUME TypeInv, NEW k \in Job, WorkerStep(k) \/ PanicTask(k), ~SubmitFollowUp(k)
    PROVE  /\ Saved
           /\ \A j \in Job : /\ Tame(jobs[j], jobs'[j])
                             /\ \/ Sticks(jobs[j], jobs'[j])
                                \/ j = k /\ worker[k] \in {"commit", "failAfterPreemption"}
<1>0. TypeOK /\ ResultInv /\ \A j \in Job : jobs[j] \in Entry
  BY DEF TypeInv, TypeOK
<1>1. ASSUME UNCHANGED <<jobs, disk>>
      PROVE  Saved /\ \A j \in Job : Tame(jobs[j], jobs'[j]) /\ Sticks(jobs[j], jobs'[j])
  BY <1>0, <1>1, SameTame DEF Saved
<1>2. ASSUME NEW e, jobs' = [jobs EXCEPT ![k] = e], Saved,
             Tame(jobs[k], e),
             Sticks(jobs[k], e) \/ worker[k] \in {"commit", "failAfterPreemption"}
      PROVE  Saved /\ \A j \in Job : /\ Tame(jobs[j], jobs'[j])
                                     /\ \/ Sticks(jobs[j], jobs'[j])
                                        \/ j = k /\ worker[k] \in {"commit", "failAfterPreemption"}
  BY <1>0, <1>2, SameTame DEF TypeOK
<1>3. CASE ReadGate(k) \/ EnterSlot(k) \/ CheckRecording(k) \/ EndTask(k) \/ PanicTask(k)
           \/ Decide(k) \/ Release(k)
  <2>1. UNCHANGED <<jobs, disk>>
    BY <1>3 DEF ReadGate, EnterSlot, CheckRecording, EndTask, PanicTask, Decide, Release, storeVars
  <2>2. QED
    BY <1>1, <2>1
<1>4. ASSUME NEW e, Mutate(k, e), Present(k) => Tame(jobs[k], e),
             Present(k) => Sticks(jobs[k], e) \/ worker[k] \in {"commit", "failAfterPreemption"}
      PROVE  Saved /\ \A j \in Job : /\ Tame(jobs[j], jobs'[j])
                                     /\ \/ Sticks(jobs[j], jobs'[j])
                                        \/ j = k /\ worker[k] \in {"commit", "failAfterPreemption"}
  <2>1. CASE Present(k)
    BY <1>2, <1>4, <2>1, SaveSaves DEF Mutate
  <2>2. CASE ~Present(k)
    BY <1>1, <1>4, <2>2 DEF Mutate
  <2>3. QED
    BY <2>1, <2>2
<1>5. CASE ApplyGate(k)
  <2>1. PICK e \in {SetPaused(jobs[k]), SetQueued(jobs[k]), Admit(jobs[k])} : Mutate(k, e)
    BY <1>5 DEF ApplyGate
  <2>2. Present(k) => Tame(jobs[k], e) /\ Sticks(jobs[k], e)
    BY <1>0, UpdateTame DEF Present
  <2>3. QED
    BY <1>4, <2>1, <2>2
<1>6. CASE StartTask(k)
  <2>1. CASE MayRun(jobs[k])
    <3>1. jobs' = [jobs EXCEPT ![k] = SetRunning(jobs[k])] /\ SaveBestEffort
      BY <1>6, <2>1 DEF StartTask
    <3>2. jobs[k].state # "absent"
      BY <2>1 DEF MayRun, Active, ActiveStates
    <3>3. Tame(jobs[k], SetRunning(jobs[k])) /\ Sticks(jobs[k], SetRunning(jobs[k]))
      BY <1>0, <2>1, <3>2, UpdateTame
    <3>4. QED
      BY <1>2, <3>1, <3>3, SaveSaves
  <2>2. CASE ~MayRun(jobs[k])
    BY <1>1, <1>6, <2>2 DEF StartTask, storeVars
  <2>3. QED
    BY <2>1, <2>2
<1>7. CASE Settle(k)
  <2>1. worker[k] \in Decisions /\ Mutate(k, Settled(k))
    BY <1>7 DEF Settle
  <2>2. worker[k] \in {"fail", "failAfterPreemption"} => result[k] \in ErrorCodes
    BY <1>0 DEF ResultInv
  <2>3. ASSUME Present(k)
        PROVE  /\ Tame(jobs[k], Settled(k))
               /\ Sticks(jobs[k], Settled(k)) \/ worker[k] \in {"commit", "failAfterPreemption"}
    BY <1>0, <2>1, <2>2, <2>3, UpdateTame, FailureTame DEF Present, Settled, Decisions
  <2>4. QED
    BY <1>4, <2>1, <2>3
<1>8. CASE MarkFollowUp(k)
  <2> DEFINE e == [jobs[k] EXCEPT !.followUpQueued = TRUE]
  <2>1. /\ e \in Entry /\ e.state = jobs[k].state /\ e.parent = jobs[k].parent
        /\ e.cancelRequested = jobs[k].cancelRequested /\ e.cancellation = jobs[k].cancellation
    BY <1>0 DEF Entry
  <2>2. Mutate(k, e)
    BY <1>8 DEF MarkFollowUp
  <2> HIDE DEF e
  <2>3. Tame(jobs[k], e) /\ Sticks(jobs[k], e)
    BY <2>1 DEF Tame, Kept, Sticks, CancelSound, Active
  <2>4. QED
    BY <1>4, <2>2, <2>3
<1>9. CASE SaveFollowUp(k)
  <2>1. Saved /\ \A j \in Job : jobs'[j] = jobs[j] \/ jobs'[j] = NoEntry
    BY <1>9 DEF SaveFollowUp, SaveInserted, TakeBack, LoseSave, Saved
  <2>2. QED
    BY <1>0, <2>1, SameTame
<1>10. QED
  BY <1>3, <1>5, <1>6, <1>7, <1>8, <1>9 DEF WorkerStep

LEMMA RequestTame ==
    ASSUME TypeInv,
           \/ \E k \in Job : CancelJob(k) \/ Acknowledge(k) \/ ApplyRetention(k)
           \/ CancelAll \/ PauseAll \/ RecoverLibrary
           \/ BeginRecording \/ EndRecording \/ (\E r \in Recording : BeginDeletion(r))
           \/ MainStep \/ Crash
    PROVE  Saved /\ \A j \in Job : Tame(jobs[j], jobs'[j]) /\ Sticks(jobs[j], jobs'[j])
<1>0. TypeOK /\ \A j \in Job : jobs[j] \in Entry
  BY DEF TypeInv, TypeOK
<1>1. ASSUME Saved, \A j \in Job : jobs'[j] = jobs[j] \/ jobs'[j] = NoEntry
                                     \/ (Tame(jobs[j], jobs'[j]) /\ Sticks(jobs[j], jobs'[j]))
      PROVE  Saved /\ \A j \in Job : Tame(jobs[j], jobs'[j]) /\ Sticks(jobs[j], jobs'[j])
  BY <1>0, <1>1, SameTame
<1>2. \A j \in Job : \A b \in BOOLEAN : Active(jobs[j]) =>
         \A f \in {Cancel(jobs[j]), CancelFromAll(jobs[j], b), YieldToRecording(jobs[j], b),
                   PauseForShutdown(jobs[j], b)} : Tame(jobs[j], f) /\ Sticks(jobs[j], f)
  BY <1>0, UpdateTame DEF Active, ActiveStates
<1>3. ASSUME NEW k \in Job, CancelJob(k) \/ Acknowledge(k) \/ ApplyRetention(k)
      PROVE  Saved /\ \A j \in Job : Tame(jobs[j], jobs'[j]) /\ Sticks(jobs[j], jobs'[j])
  <2>1. Saved
    BY <1>3, SaveSaves DEF CancelJob, Acknowledge, ApplyRetention
  <2>2. \A j \in Job : \/ jobs'[j] = jobs[j] \/ jobs'[j] = NoEntry
                       \/ Active(jobs[j]) /\ jobs'[j] = Cancel(jobs[j])
    BY <1>0, <1>3 DEF CancelJob, Acknowledge, ApplyRetention, TypeOK
  <2>3. QED
    BY <1>1, <1>2, <2>1, <2>2
<1>4. CASE CancelAll
  <2>1. Saved
    BY <1>4, SaveSaves DEF CancelAll
  <2>2. \A j \in Job : \/ jobs'[j] = jobs[j]
                       \/ Active(jobs[j]) /\ jobs'[j] = CancelFromAll(jobs[j], Registered(j))
    BY <1>4 DEF CancelAll, Active, ActiveStates
  <2>3. \A j \in Job : Registered(j) \in BOOLEAN
    BY DEF Registered
  <2>4. QED
    BY <1>1, <1>2, <2>1, <2>2, <2>3
<1>5. CASE PauseAll
  <2>1. Saved
    BY <1>5, SaveSaves DEF PauseAll
  <2>2. \A j \in Job : \/ jobs'[j] = jobs[j]
                       \/ Active(jobs[j]) /\ jobs'[j] = PauseForShutdown(jobs[j], j \in OneShot)
    BY <1>5 DEF PauseAll
  <2>3. \A j \in Job : (j \in OneShot) \in BOOLEAN
    OBVIOUS
  <2>4. QED
    BY <1>1, <1>2, <2>1, <2>2, <2>3
<1>6. CASE RecoverLibrary
  <2>1. Saved
    BY <1>6 DEF RecoverLibrary, Saved, LoseSave
  <2>2. \A j \in Job : Reconciled(jobs[j], jobs'[j])
    BY <1>0, <1>6, RecoverFacts
  <2>3. ASSUME NEW j \in Job, jobs[j].state = "failed"
        PROVE  LET f == [jobs[j] EXCEPT !.error = "RESOLVED"]
               IN  Tame(jobs[j], f) /\ Sticks(jobs[j], f)
    <3>1. jobs[j] \in Entry
      BY <1>0
    <3>2. QED
      BY <2>3, <3>1 DEF Tame, Kept, Sticks, CancelSound, Active, ActiveStates, Entry
  <2>4. QED
    BY <1>1, <2>1, <2>2, <2>3 DEF Reconciled
<1>7. CASE BeginRecording \/ EndRecording \/ (\E r \in Recording : BeginDeletion(r))
           \/ PassBarrier \/ FailBarrier
  <2>1. Saved /\ jobs' = jobs
    BY <1>7, SaveSaves DEF BeginRecording, EndRecording, EndPriority, BeginDeletion, PassBarrier,
       FailBarrier, Saved
  <2>2. QED
    BY <1>1, <2>1
<1>8. CASE SignalRecording
  <2>1. Saved
    BY <1>8, SaveSaves DEF SignalRecording
  <2>2. \A j \in Job : \/ jobs'[j] = jobs[j]
                       \/ Active(jobs[j]) /\ jobs'[j] = YieldToRecording(jobs[j], j \in MediaImport)
    BY <1>8 DEF SignalRecording
  <2>3. \A j \in Job : (j \in MediaImport) \in BOOLEAN
    OBVIOUS
  <2>4. QED
    BY <1>1, <1>2, <2>1, <2>2, <2>3
<1>9. CASE FinishDeletion
  <2>1. Saved
    BY <1>9 DEF FinishDeletion, LoseSave, Saved
  <2>2. \A j \in Job : jobs'[j] = jobs[j] \/ jobs'[j] = NoEntry
    BY <1>9 DEF FinishDeletion, Purged
  <2>3. QED
    BY <1>1, <2>1, <2>2
<1>10. CASE Crash
  <2>1. Saved /\ \A j \in Job : jobs'[j] = NoEntry
    BY <1>10 DEF Crash, Saved
  <2>2. QED
    BY <1>1, <2>1
<1>11. CASE EndSubmit
  <2>1. Saved /\ \A j \in Job : jobs'[j] = jobs[j] \/ jobs'[j] = NoEntry
    BY <1>11 DEF EndSubmit, SaveInserted, TakeBack, LoseSave, Saved
  <2>2. QED
    BY <1>1, <2>1
<1>12. QED
  BY <1>3, <1>4, <1>5, <1>6, <1>7, <1>8, <1>9, <1>10, <1>11 DEF MainStep

-----------------------------------------------------------------------------
(* The jobs map and the saved snapshot *)

OneChild(js) ==
    \A j, k \in Job : /\ js[j].state # "absent" /\ js[k].state # "absent"
                      /\ js[j].parent = js[k].parent /\ js[j].parent # NoJob
                      => j = k

Orphans(js) == \A j \in Job : js[j].state = "absent" => js[j].parent = NoJob

(***************************************************************************)
(* A restart takes its jobs from disk, so what holds of the map must hold   *)
(* of the snapshot as well, though the two differ once a save was lost.     *)
(***************************************************************************)
MapInv ==
    /\ VisibleIsDurable
    /\ OneChild(jobs) /\ OneChild(disk)
    /\ Orphans(jobs) /\ Orphans(disk)

CancelInv == \A j \in Job : CancelSound(jobs[j]) /\ ~disk[j].cancelRequested

(* An identifier is drawn once. *)
UsedInv ==
    \A j \in Job : Present(j) \/ disk[j].state # "absent" \/ worker[j] # "none" => j \in used

DownInv == main = "down" => \A j \in Job : ~Present(j) /\ worker[j] = "none"

LifeInv == MapInv /\ CancelInv /\ UsedInv /\ DownInv

(* A job leaves insert_job when it is saved, or taken back. *)
InsertionEnds ==
    \A j \in Job : \A p \in Job \cup {NoJob} :
        j \in inserting[p] /\ jobs'[j].state # "absent" =>
            disk' = Snapshot(jobs') \/ j \in inserting'[p]

LEMMA KeptKeeps ==
    ASSUME TypeOK, TypeOK', MapInv, CancelInv, Saved, InsertionEnds,
           \A j \in Job : Kept(jobs[j], jobs'[j])
    PROVE  /\ MapInv' /\ CancelInv'
           /\ \A j \in Job : /\ Present(j)' => Present(j)
                             /\ disk'[j].state # "absent" => Present(j) \/ disk[j].state # "absent"
<1>1. \A j \in Job : jobs'[j].state # "absent" =>
         jobs[j].state # "absent" /\ jobs'[j].parent = jobs[j].parent
  BY DEF Kept
<1>2. OneChild(jobs')
  BY <1>1 DEF MapInv, OneChild
<1>3. Orphans(jobs')
  BY DEF Kept, MapInv, Orphans
<1>4. \A j \in Job : CancelSound(jobs'[j])
  BY DEF Kept, CancelInv
<1>5. CASE disk' = disk /\ disk' # Snapshot(jobs')
  <2>1. VisibleIsDurable'
    BY <1>1, <1>5 DEF MapInv, VisibleIsDurable, Present, InsertionEnds
  <2>2. QED
    BY <1>1, <1>2, <1>3, <1>4, <1>5, <2>1 DEF MapInv, Present, OneChild, Orphans, CancelInv
<1>6. CASE disk' = Snapshot(jobs')
  <2>1. \A j \in Job : /\ disk'[j].state = jobs'[j].state /\ disk'[j].parent = jobs'[j].parent
                       /\ ~disk'[j].cancelRequested
    BY <1>6, SnapshotFacts DEF TypeOK
  <2>2. OneChild(disk') /\ Orphans(disk') /\ VisibleIsDurable'
    BY <1>2, <1>3, <2>1 DEF OneChild, Orphans, VisibleIsDurable, Present
  <2>3. QED
    BY <1>1, <1>2, <1>3, <1>4, <2>1, <2>2 DEF MapInv, OneChild, Orphans, CancelInv, Present
<1>7. QED
  BY <1>5, <1>6 DEF Saved

(* insert_job: the entry is the only one with its parent. *)
LEMMA InsertKeeps ==
    ASSUME TypeOK, TypeOK', MapInv, CancelInv, NEW k \in Job, NEW p \in Job \cup {NoJob},
           Insert(k, p), inserting[p] = {},
           p # NoJob => \A j \in Job : Present(j) => jobs[j].parent # p
    PROVE  /\ MapInv' /\ CancelInv'
           /\ \A j \in Job : j # k => (Present(j)' => Present(j))
<1>1. /\ \A j \in Job : jobs'[j] = IF j = k THEN NewEntry(p) ELSE jobs[j]
      /\ \A q \in Job \cup {NoJob} : inserting'[q] = IF q = p THEN {k} ELSE inserting[q]
      /\ disk' = disk
  BY DEF Insert, TypeOK
<1>2. NewEntry(p).state = "queued" /\ NewEntry(p).parent = p /\ ~NewEntry(p).cancelRequested
  BY DEF NewEntry
<1>3. OneChild(jobs') /\ Orphans(jobs')
  BY <1>1, <1>2 DEF MapInv, OneChild, Orphans, Present
<1>4. VisibleIsDurable'
  BY <1>1 DEF MapInv, VisibleIsDurable, Present
<1>5. \A j \in Job : CancelSound(jobs'[j])
  BY <1>1, <1>2 DEF CancelInv, CancelSound
<1>6. QED
  BY <1>1, <1>3, <1>4, <1>5 DEF MapInv, CancelInv, Present

LEMMA SubmitLife ==
    ASSUME TypeOK, TypeOK', InsertInv, LifeInv, NEW k \in Job, Submit(k) \/ SubmitFollowUp(k)
    PROVE  LifeInv'
<1> USE DEF LifeInv
<1>1. CASE Submit(k)
  <2>1. /\ inserting[NoJob] = {} /\ main' = "insert" /\ worker' = worker
        /\ disk' = disk /\ used' = used \cup {k} /\ Insert(k, NoJob)
    BY <1>1 DEF Submit, Insert, InsertInv, workerVars
  <2>2. MapInv' /\ CancelInv' /\ \A j \in Job : j # k => (Present(j)' => Present(j))
    BY <2>1, InsertKeeps
  <2>3. UsedInv' /\ DownInv'
    BY <2>1, <2>2 DEF UsedInv, DownInv, Present
  <2>4. QED
    BY <2>2, <2>3
<1>2. CASE SubmitFollowUp(k)
  <2>1. worker[k] = "followUp" /\ main' = main /\ main # "down" /\ inserting[k] = {}
    BY <1>2 DEF SubmitFollowUp, DownInv, mainVars, InsertInv
  <2>2. \A j \in Job : worker'[j] # "none" => worker[j] # "none"
    BY <1>2, <2>1 DEF SubmitFollowUp, Goto, TypeOK
  <2>3. CASE /\ \A j \in Job : Present(j) => jobs[j].parent # k
             /\ \E q \in FollowUp[k] : Insert(q, k)
    <3>1. PICK q \in FollowUp[k] : Insert(q, k)
      BY <2>3
    <3>2. q \in Job
      BY JobAssumption
    <3>3. MapInv' /\ CancelInv' /\ \A j \in Job : j # q => (Present(j)' => Present(j))
      BY <2>1, <2>3, <3>1, <3>2, InsertKeeps
    <3>4. disk' = disk /\ used' = used \cup {q}
      BY <3>1 DEF Insert
    <3>5. UsedInv'
      BY <2>2, <3>3, <3>4 DEF UsedInv, Present
    <3>6. QED
      BY <2>1, <3>3, <3>5 DEF DownInv
  <2>4. CASE UNCHANGED <<storeVars, insertVars>>
    <3>1. UNCHANGED <<jobs, disk, used, inserting>>
      BY <2>4 DEF storeVars, insertVars
    <3>2. MapInv' /\ CancelInv'
      BY <3>1 DEF MapInv, VisibleIsDurable, Present, OneChild, Orphans, CancelInv
    <3>3. UsedInv'
      BY <2>2, <3>1 DEF UsedInv, Present
    <3>4. QED
      BY <2>1, <3>2, <3>3 DEF DownInv
  <2>5. QED
    BY <1>2, <2>3, <2>4 DEF SubmitFollowUp
<1>3. QED
  BY <1>1, <1>2

LEMMA RetryLife ==
    ASSUME TypeOK, TypeOK', LifeInv, NEW k \in Job, Retry(k)
    PROVE  LifeInv'
<1> USE DEF LifeInv
<1>1. /\ \A j \in Job : jobs'[j] = IF j = k THEN RetryEntry(jobs[k]) ELSE jobs[j]
      /\ jobs[k].state # "absent" /\ Saved /\ main' = main /\ main # "down"
      /\ used' = used /\ inserting' = inserting
      /\ \A j \in Job : worker'[j] # "none" => worker[j] # "none" \/ j = k
  BY DEF Retry, LoseSave, SpawnAlso, Saved, mainVars, insertVars, TypeOK
<1>2. \A j \in Job : Kept(jobs[j], jobs'[j])
  <2>1. \A j \in Job : jobs[j] \in Entry /\ jobs'[j] \in Entry
    BY DEF TypeOK
  <2>2. /\ RetryEntry(jobs[k]).state = "queued" /\ RetryEntry(jobs[k]).parent = jobs[k].parent
        /\ ~RetryEntry(jobs[k]).cancelRequested
    BY <2>1 DEF RetryEntry, Entry
  <2>3. QED
    BY <1>1, <2>1, <2>2 DEF Kept, CancelSound
<1>3. /\ MapInv' /\ CancelInv'
      /\ \A j \in Job : /\ Present(j)' => Present(j)
                        /\ disk'[j].state # "absent" => Present(j) \/ disk[j].state # "absent"
  BY <1>1, <1>2, KeptKeeps DEF InsertionEnds
<1>4. UsedInv' /\ DownInv'
  BY <1>1, <1>3 DEF UsedInv, DownInv, Present
<1>5. QED
  BY <1>3, <1>4

(* What a restart makes of a saved entry. *)
LEMMA RestoredEntry ==
    ASSUME NEW e \in Entry, NEW b \in BOOLEAN, ~e.cancelRequested
    PROVE  /\ FromPersisted(e, b).state # "absent" <=> e.state # "absent"
           /\ FromPersisted(e, b).parent = e.parent
           /\ CancelSound(FromPersisted(e, b))
           /\ Active(FromPersisted(e, b)) => Active(e) /\ ~b
BY DEF FromPersisted, CancelSound, Active, ActiveStates, Entry

LEMMA RestartFacts ==
    ASSUME TypeOK, Restart
    PROVE  \A j \in Job : Reconciled(FromPersisted(disk[j], j \in OneShot), jobs'[j])
<1> DEFINE js == [j \in Job |-> FromPersisted(disk[j], j \in OneShot)]
<1>1. \E cleaned : \E resolved \in BOOLEAN : jobs' = Recovered(js, cleaned, resolved)
  BY DEF Restart, Reconcile
<1>2. \A j \in Job : FromPersisted(disk[j], j \in OneShot) \in Entry
  <2> SUFFICES ASSUME NEW j \in Job PROVE FromPersisted(disk[j], j \in OneShot) \in Entry
    OBVIOUS
  <2>1. disk[j] \in Entry /\ (j \in OneShot) \in BOOLEAN
    BY DEF TypeOK
  <2>2. QED
    BY <2>1, UpdateType
<1>3. js \in [Job -> Entry] /\ \A j \in Job : js[j] = FromPersisted(disk[j], j \in OneShot)
  BY <1>2
<1> HIDE DEF js
<1>4. \A j \in Job : Reconciled(js[j], jobs'[j])
  BY <1>1, <1>3, RecoveredFacts
<1>5. QED
  BY <1>3, <1>4

LEMMA RestartLife ==
    ASSUME TypeOK, TypeOK', LifeInv, Restart
    PROVE  LifeInv'
<1> USE DEF LifeInv
<1>1. /\ \A j \in Job : Reconciled(FromPersisted(disk[j], j \in OneShot), jobs'[j])
      /\ Saved /\ main' = "idle" /\ UNCHANGED <<used, inserting>>
      /\ \A j \in Job : worker'[j] # "none" => jobs'[j].state # "absent"
  <2>1. Saved
    BY SaveSaves DEF Restart
  <2>2. \A j \in Job : Reconciled(FromPersisted(disk[j], j \in OneShot), jobs'[j])
    BY RestartFacts
  <2>3. /\ main' = "idle" /\ UNCHANGED <<used, inserting>>
        /\ \A j \in Job : worker'[j] # "none" => jobs'[j].state # "absent"
    BY DEF Restart, Active, ActiveStates, insertVars
  <2>4. QED
    BY <2>1, <2>2, <2>3
<1>2. \A j \in Job : /\ jobs'[j].state # "absent" =>
                          disk[j].state # "absent" /\ jobs'[j].parent = disk[j].parent
                     /\ jobs'[j].state = "absent" => jobs'[j].parent = NoJob
                     /\ CancelSound(jobs'[j])
  <2> SUFFICES ASSUME NEW j \in Job
               PROVE  /\ jobs'[j].state # "absent" =>
                           disk[j].state # "absent" /\ jobs'[j].parent = disk[j].parent
                      /\ jobs'[j].state = "absent" => jobs'[j].parent = NoJob
                      /\ CancelSound(jobs'[j])
    OBVIOUS
  <2>1. CASE jobs'[j] = NoEntry
    BY <2>1 DEF NoEntry, NewEntry, CancelSound, Active, ActiveStates
  <2>2. CASE jobs'[j] # NoEntry
    <3>1. disk[j] \in Entry /\ ~disk[j].cancelRequested /\ (j \in OneShot) \in BOOLEAN
      BY DEF TypeOK, CancelInv
    <3> DEFINE f == FromPersisted(disk[j], j \in OneShot)
    <3>2. /\ f.state # "absent" <=> disk[j].state # "absent"
          /\ f.parent = disk[j].parent /\ CancelSound(f)
      BY <3>1, RestoredEntry, Zenon
    <3> HIDE DEF f
    <3>3. disk[j].state = "absent" => disk[j].parent = NoJob
      BY DEF MapInv, Orphans
    <3>4. f \in Entry
      BY <3>1, UpdateType, Zenon DEF f
    <3>5. jobs'[j] = f \/ (f.state = "failed" /\ jobs'[j] = [f EXCEPT !.error = "RESOLVED"])
      BY <1>1, <2>2 DEF Reconciled, f
    <3>6. f.state = "failed" => LET g == [f EXCEPT !.error = "RESOLVED"]
                                IN  g.state = "failed" /\ g.parent = f.parent /\ CancelSound(g)
      BY <3>4 DEF Entry, CancelSound, Active, ActiveStates
    <3>7. QED
      BY <3>2, <3>3, <3>5, <3>6
  <2>3. QED
    BY <2>1, <2>2
<1>3. OneChild(jobs') /\ Orphans(jobs')
  BY <1>2 DEF MapInv, OneChild, Orphans
<1>4. CASE disk' = disk
  <2>1. MapInv' /\ CancelInv'
    BY <1>2, <1>3, <1>4 DEF MapInv, CancelInv, VisibleIsDurable, Present, OneChild, Orphans
  <2>2. UsedInv' /\ DownInv'
    BY <1>1, <1>2, <1>4 DEF UsedInv, DownInv, Present
  <2>3. QED
    BY <2>1, <2>2
<1>5. CASE disk' = Snapshot(jobs')
  <2>1. \A j \in Job : /\ disk'[j].state = jobs'[j].state /\ disk'[j].parent = jobs'[j].parent
                       /\ ~disk'[j].cancelRequested
    BY <1>5, SnapshotFacts DEF TypeOK
  <2>2. OneChild(disk') /\ Orphans(disk')
    BY <1>3, <2>1 DEF OneChild, Orphans
  <2>3. MapInv' /\ CancelInv'
    BY <1>2, <1>3, <2>1, <2>2 DEF MapInv, CancelInv, VisibleIsDurable, Present, OneChild, Orphans
  <2>4. UsedInv' /\ DownInv'
    BY <1>1, <1>2, <2>1 DEF UsedInv, DownInv, Present
  <2>5. QED
    BY <2>3, <2>4
<1>6. QED
  BY <1>1, <1>4, <1>5 DEF Saved

LEMMA InsertedEnds ==
    ASSUME TypeOK, TypeOK', NEW p \in Job \cup {NoJob}, SaveInserted(p) \/ TakeBack(p)
    PROVE  InsertionEnds
<1>1. CASE SaveInserted(p)
  BY <1>1 DEF SaveInserted, InsertionEnds
<1>2. CASE TakeBack(p)
  <2>1. /\ \A q \in Job \cup {NoJob} : q # p => inserting'[q] = inserting[q]
        /\ \A j \in inserting[p] : jobs'[j].state = "absent"
    BY <1>2, NewEntryType DEF TakeBack, TypeOK
  <2>2. QED
    BY <2>1 DEF InsertionEnds
<1>3. QED
  BY <1>1, <1>2

LEMMA NextLife == TypeInv /\ InsertInv /\ LifeInv /\ [Next]_vars => LifeInv'
<1> SUFFICES ASSUME TypeInv, InsertInv, LifeInv, [Next]_vars PROVE LifeInv'
  OBVIOUS
<1>0. TypeOK /\ TypeOK'
  BY NextType DEF TypeInv
<1>1. ASSUME Saved, \A j \in Job : Tame(jobs[j], jobs'[j]), used' = used, InsertionEnds,
             \A j \in Job : worker'[j] # "none" => worker[j] # "none" \/ j \in used,
             main' = "down" => \A j \in Job : jobs'[j].state = "absent" /\ worker'[j] = "none"
      PROVE  LifeInv'
  <2>1. /\ MapInv' /\ CancelInv'
        /\ \A j \in Job : /\ Present(j)' => Present(j)
                          /\ disk'[j].state # "absent" => Present(j) \/ disk[j].state # "absent"
    BY <1>0, <1>1, KeptKeeps DEF LifeInv, Tame
  <2>2. UsedInv' /\ DownInv'
    BY <1>1, <2>1 DEF LifeInv, UsedInv, DownInv, Present
  <2>3. QED
    BY <2>1, <2>2 DEF LifeInv
<1>2. ASSUME NEW k \in Job, WorkerStep(k) \/ PanicTask(k) PROVE LifeInv'
  <2>1. CASE SubmitFollowUp(k)
    BY <1>0, <2>1, SubmitLife
  <2>2. CASE ~SubmitFollowUp(k)
    <3>1. Saved /\ \A j \in Job : Tame(jobs[j], jobs'[j])
      BY <1>2, <2>2, WorkerTame
    <3>2. worker[k] # "none" /\ main' = main /\ used' = used
      BY <1>2, <2>2 DEF WorkerStep, ReadGate, ApplyGate, EnterSlot, CheckRecording, StartTask, EndTask,
         PanicTask, Decide, Settle, SaveFollowUp, SaveInserted, TakeBack, MarkFollowUp, Release,
         requestVars, insertVars, mainVars, Decisions
    <3>3. \A j \in Job : worker'[j] # "none" => worker[j] # "none" \/ j \in used
      <4>1. CASE MarkFollowUp(k)
        <5>1. \A j \in Job : jobs[j].parent = k => j \in used
          BY NoJobAssumption DEF LifeInv, MapInv, Orphans, UsedInv, Present
        <5>2. QED
          BY <4>1, <5>1, <3>2 DEF MarkFollowUp
      <4>2. CASE ~MarkFollowUp(k)
        <5>1. \A j \in Job : j # k => worker'[j] = worker[j]
          BY <1>0, <1>2, <2>2, <4>2
             DEF WorkerStep, ReadGate, ApplyGate, EnterSlot, CheckRecording, StartTask, EndTask, PanicTask,
                 Decide, Settle, SaveFollowUp, Release, Goto, TypeOK
        <5>2. QED
          BY <3>2, <5>1
      <4>3. QED
        BY <4>1, <4>2
    <3>4. main # "down"
      BY <3>2 DEF LifeInv, DownInv
    <3>5. InsertionEnds
      <4>1. CASE SaveFollowUp(k)
        BY <1>0, <4>1, InsertedEnds DEF SaveFollowUp
      <4>2. CASE ~SaveFollowUp(k)
        BY <1>2, <2>2, <4>2 DEF WorkerStep, ReadGate, ApplyGate, EnterSlot, CheckRecording, StartTask,
           EndTask, PanicTask, Decide, Settle, MarkFollowUp, Release, requestVars, insertVars,
           InsertionEnds
      <4>3. QED
        BY <4>1, <4>2
    <3>6. QED
      BY <1>1, <3>1, <3>2, <3>3, <3>4, <3>5
  <2>3. QED
    BY <2>1, <2>2
<1>3. ASSUME NEW k \in Job, Submit(k) \/ Retry(k) PROVE LifeInv'
  BY <1>0, <1>3, SubmitLife, RetryLife
<1>4. ASSUME \/ \E k \in Job : CancelJob(k) \/ Acknowledge(k) \/ ApplyRetention(k)
             \/ CancelAll \/ PauseAll \/ RecoverLibrary
             \/ BeginRecording \/ EndRecording \/ (\E r \in Recording : BeginDeletion(r))
             \/ MainStep \/ Crash
      PROVE  LifeInv'
  <2>1. Saved /\ \A j \in Job : Tame(jobs[j], jobs'[j])
    BY <1>4, RequestTame
  <2>2. used' = used
    BY <1>4 DEF CancelJob, Acknowledge, ApplyRetention, CancelAll, PauseAll, RecoverLibrary,
       BeginRecording, EndRecording, BeginDeletion, MainStep, SignalRecording, PassBarrier, FailBarrier,
       FinishDeletion, EndSubmit, SaveInserted, TakeBack, Crash, requestVars, insertVars
  <2>3. CASE Crash
    <3>1. \A j \in Job : jobs'[j].state = "absent" /\ worker'[j] = "none"
      BY <2>3, NewEntryType DEF Crash
    <3>2. QED
      BY <1>1, <2>1, <2>2, <3>1 DEF InsertionEnds
  <2>4. CASE EndSubmit
    <3>1. InsertionEnds
      BY <1>0, <2>4, InsertedEnds DEF EndSubmit
    <3>2. /\ main' # "down"
          /\ \A j \in Job : worker'[j] # "none" => worker[j] # "none" \/ j \in inserting[NoJob]
      BY <2>4 DEF EndSubmit
    <3>3. QED
      BY <1>1, <2>1, <2>2, <3>1, <3>2 DEF InsertInv
  <2>5. CASE ~Crash /\ ~EndSubmit
    <3>1. worker' = worker /\ main' # "down" /\ inserting' = inserting
      BY <1>4, <2>5 DEF CancelJob, Acknowledge, ApplyRetention, CancelAll, PauseAll, RecoverLibrary,
         BeginRecording, EndRecording, BeginDeletion, MainStep, SignalRecording, PassBarrier, FailBarrier,
         FinishDeletion, requestVars, insertVars, workerVars, mainVars
    <3>2. QED
      BY <1>1, <2>1, <2>2, <3>1 DEF InsertionEnds
  <2>6. QED
    BY <2>3, <2>4, <2>5
<1>5. CASE Restart
  BY <1>0, <1>5, RestartLife
<1>6. CASE UNCHANGED vars
  BY <1>6 DEF vars, insertVars, workerVars, mainVars, LifeInv, MapInv, VisibleIsDurable, OneChild, Orphans, CancelInv, UsedInv,
     DownInv, Present
<1>7. QED
  BY <1>2, <1>3, <1>4, <1>5, <1>6 DEF Next

LEMMA LifeInvariant == Spec => []LifeInv
<1>1. Init => LifeInv
  <2>1. NoEntry.state = "absent" /\ NoEntry.parent = NoJob /\ ~NoEntry.cancelRequested
    BY DEF NoEntry, NewEntry
  <2>2. QED
    BY <2>1 DEF Init, LifeInv, MapInv, VisibleIsDurable, OneChild, Orphans, CancelInv, CancelSound, UsedInv,
       DownInv, Present, Active, ActiveStates
<1>2. QED
  BY <1>1, NextLife, InsertInvariant, TypeInvariant, PTL DEF Spec

(***************************************************************************)
(* Every job the manager shows would be found by a restart, or insert_job   *)
(* has not returned for it (it shows an entry before it saves the map, and  *)
(* takes the entry back when the save fails), for any number of jobs,       *)
(* requests for the unsaved entry, retries, lost saves and crashes.         *)
(***************************************************************************)
THEOREM ShownIsDurable == Spec => []VisibleIsDurable
<1>1. LifeInv => VisibleIsDurable
  BY DEF LifeInv, MapInv
<1>2. QED
  BY <1>1, LifeInvariant, PTL

(***************************************************************************)
(* A completed job gets at most one follow-up (submit_follow_up), for any  *)
(* number of jobs, retries, lost saves and crashes at any point.           *)
(***************************************************************************)
THEOREM FollowUpIsUnique == Spec => []FollowUpUnique
<1>1. LifeInv => FollowUpUnique
  BY DEF LifeInv, MapInv, OneChild, FollowUpUnique, Present
<1>2. QED
  BY <1>1, LifeInvariant, PTL

-----------------------------------------------------------------------------
(* A worker and its entry *)

(* Only an import commits, and what it committed is settled as completed. *)
CommitJob(j) ==
    /\ result[j] = "committed" => j \in MediaImport /\ worker[j] \in {"settle", "commit", "exit"}
    /\ worker[j] = "commit" => result[j] = "committed"
    /\ worker[j] = "failAfterPreemption" => j \in MediaImport
    /\ worker[j] = "exit" /\ result[j] = "committed" => jobs[j].state \in {"completed", "absent"}

TaskJob(j) ==
    worker[j] = "task" => shutdown \/ jobs[j].state \in {"running", "cancelling", "absent"}

(***************************************************************************)
(* The flag reaches the task of a job that passed the recording check       *)
(* before the recording began: it was set while the worker was still on its *)
(* way to set_running, and set_running keeps it.                            *)
(***************************************************************************)
SignalJob(j) ==
    /\ worker[j] = "task" /\ Terminal(jobs[j]) => jobs[j].cancellation
    /\ /\ recordingActive /\ main # "signal" /\ j \in Exclusive
       /\ \/ worker[j] = "task" /\ Present(j)
          \/ worker[j] = "cleared" /\ MayRun(jobs[j])
       => jobs[j].cancellation

WorkJob(j) == CommitJob(j) /\ TaskJob(j) /\ (requests["retry"] = 0 => SignalJob(j))

WorkInv == \A j \in Job : WorkJob(j)

LEMMA OtherWork ==
    ASSUME NEW j \in Job, WorkJob(j), UNCHANGED <<recordingActive, shutdown>>,
           main' # "signal" => main # "signal",
           requests'["retry"] = requests["retry"], result'[j] = result[j],
           worker'[j] = worker[j] \/ (worker[j] = "none" /\ worker'[j] = "gate"),
           jobs'[j] = jobs[j] \/ worker[j] = "none"
    PROVE  WorkJob(j)'
<1>1. CommitJob(j)'
  BY DEF WorkJob, CommitJob
<1>2. TaskJob(j)'
  BY DEF WorkJob, TaskJob
<1>3. SignalJob(j) => SignalJob(j)'
  BY DEF SignalJob, Present
<1>4. QED
  BY <1>1, <1>2, <1>3 DEF WorkJob

(* A request changes an entry and leaves the worker where it is. *)
LEMMA EntryWork ==
    ASSUME NEW j \in Job, WorkJob(j), worker'[j] = worker[j], result'[j] = result[j],
           requests'["retry"] = requests["retry"],
           shutdown => shutdown',
           recordingActive' /\ main' # "signal" => recordingActive /\ main # "signal",
           \/ jobs'[j] = jobs[j]
           \/ jobs'[j] = NoEntry
           \/ /\ Active(jobs[j]) /\ jobs'[j].cancellation
              /\ Registered(j) => jobs'[j].state = "cancelling" \/ shutdown'
           \/ /\ jobs[j].state = "failed" /\ jobs'[j].state = "failed"
              /\ jobs'[j].cancellation = jobs[j].cancellation
    PROVE  WorkJob(j)'
<1>0. NoEntry.state = "absent"
  BY NewEntryType
<1> USE <1>0
<1>1. CommitJob(j)'
  BY DEF WorkJob, CommitJob, Active, ActiveStates
<1>2. TaskJob(j)'
  BY DEF WorkJob, TaskJob, Registered
<1>3. SignalJob(j) => SignalJob(j)'
  BY DEF SignalJob, Present, Terminal, TerminalStates, MayRun, Active, ActiveStates
<1>4. QED
  BY <1>1, <1>2, <1>3 DEF WorkJob

LEMMA WorkerWork ==
    ASSUME TypeInv, LifeInv, NEW j \in Job, WorkJob(j), NEW k \in Job, k # j,
           WorkerStep(k) \/ PanicTask(k)
    PROVE  WorkJob(j)'
<1>0. TypeOK
  BY DEF TypeInv
<1>1. UNCHANGED <<recordingActive, shutdown, main, requests>>
  BY DEF WorkerStep, ReadGate, ApplyGate, EnterSlot, CheckRecording, StartTask, EndTask, PanicTask,
     Decide, Settle, SubmitFollowUp, SaveFollowUp, MarkFollowUp, Release, requestVars, insertVars, mainVars
<1>2. result'[j] = result[j]
  BY <1>0 DEF WorkerStep, ReadGate, ApplyGate, EnterSlot, CheckRecording, StartTask, EndTask, PanicTask,
     Decide, Settle, SubmitFollowUp, SaveFollowUp, MarkFollowUp, Release, Return, TypeOK
<1>3. worker'[j] = worker[j] \/ (worker[j] = "none" /\ worker'[j] = "gate")
  <2>1. CASE MarkFollowUp(k)
    BY <1>0, <2>1 DEF MarkFollowUp, Registered, TypeOK
  <2>2. CASE ~MarkFollowUp(k)
    BY <1>0, <2>2 DEF WorkerStep, ReadGate, ApplyGate, EnterSlot, CheckRecording, StartTask, EndTask,
       PanicTask, Decide, Settle, SubmitFollowUp, SaveFollowUp, Release, Goto, TypeOK
  <2>3. QED
    BY <2>1, <2>2
<1>4. CASE SaveFollowUp(k)
  <2>1. worker'[j] = worker[j] /\ (jobs'[j] = jobs[j] \/ jobs'[j] = NoEntry)
    BY <1>0, <1>4 DEF SaveFollowUp, SaveInserted, TakeBack, Goto, TypeOK
  <2>2. QED
    BY <1>1, <1>2, <2>1, EntryWork
<1>5. CASE ~SaveFollowUp(k)
  <2>1. jobs'[j] = jobs[j] \/ worker[j] = "none"
    <3>1. CASE SubmitFollowUp(k)
      <4>1. jobs' = jobs \/ \E q \in FollowUp[k] \ used : Insert(q, k)
        BY <3>1 DEF SubmitFollowUp, storeVars
      <4>2. jobs'[j] = jobs[j] \/ j \notin used
        BY <1>0, <4>1 DEF Insert, TypeOK
      <4>3. QED
        BY <4>2 DEF LifeInv, UsedInv
    <3>2. CASE ~SubmitFollowUp(k)
      BY <1>0, <1>5, <3>2 DEF WorkerStep, ReadGate, ApplyGate, EnterSlot, CheckRecording, StartTask,
         EndTask, PanicTask, Decide, Settle, MarkFollowUp, Release, Mutate, storeVars, TypeOK
    <3>3. QED
      BY <3>1, <3>2
  <2>2. QED
    BY <1>1, <1>2, <1>3, <2>1, OtherWork
<1>6. QED
  BY <1>4, <1>5

LEMMA OwnWork ==
    ASSUME TypeInv, NEW j \in Job, WorkJob(j), WorkerStep(j) \/ PanicTask(j)
    PROVE  WorkJob(j)'
<1>0. TypeOK /\ CommitJob(j) /\ TaskJob(j) /\ jobs[j] \in Entry /\ MediaImport \subseteq OneShot
  BY JobAssumption DEF TypeInv, TypeOK, WorkJob
<1>1. UNCHANGED <<recordingActive, shutdown, main, requests>>
  BY DEF WorkerStep, ReadGate, ApplyGate, EnterSlot, CheckRecording, StartTask, EndTask, PanicTask,
     Decide, Settle, SubmitFollowUp, SaveFollowUp, MarkFollowUp, Release, requestVars, insertVars, mainVars
<1>2. ASSUME worker'[j] \notin {"task", "cleared", "commit", "failAfterPreemption"}, result'[j] # "committed"
      PROVE  WorkJob(j)'
  BY <1>2 DEF WorkJob, CommitJob, TaskJob, SignalJob
<1>3. CASE ReadGate(j) \/ ApplyGate(j) \/ Release(j)
  <2>1. /\ worker'[j] \in {"cancel", "exit", "yield", "queue", "admit", "gate", "ready", "none"}
        /\ result'[j] # "committed"
    BY <1>0, <1>3 DEF ReadGate, GateAnswer, ApplyGate, Release, Goto, Return, CommitJob, TypeOK
  <2>2. QED
    BY <1>2, <2>1
<1>4. CASE EnterSlot(j)
  <2>1. /\ worker'[j] \in {"exit", "locked", "settle"} \/ (worker'[j] = "cleared" /\ j \notin Exclusive)
        /\ result'[j] # "committed"
    BY <1>0, <1>4 DEF EnterSlot, Goto, Return, CommitJob, TypeOK
  <2>2. QED
    BY <1>2, <2>1 DEF WorkJob, CommitJob, TaskJob, SignalJob
<1>5. CASE CheckRecording(j)
  <2>1. /\ worker'[j] = "settle" \/ (worker'[j] = "cleared" /\ ~recordingActive)
        /\ result'[j] # "committed"
    BY <1>0, <1>5 DEF CheckRecording, Goto, Return, CommitJob, TypeOK
  <2>2. QED
    BY <1>1, <1>2, <2>1 DEF WorkJob, CommitJob, TaskJob, SignalJob
<1>6. CASE StartTask(j)
  <2>1. worker[j] = "cleared" /\ result'[j] # "committed"
    BY <1>0, <1>6 DEF StartTask, Return, CommitJob, TypeOK
  <2>2. CASE MayRun(jobs[j])
    <3>1. /\ worker'[j] = "task" /\ jobs'[j].state = "running"
          /\ jobs'[j].cancellation = jobs[j].cancellation
      BY <1>0, <1>6, <2>2 DEF StartTask, Goto, SetRunning, TypeOK, Entry
    <3>2. CommitJob(j)' /\ TaskJob(j)'
      BY <2>1, <3>1 DEF CommitJob, TaskJob
    <3>3. SignalJob(j) => SignalJob(j)'
      BY <1>1, <2>1, <2>2, <3>1 DEF SignalJob, Terminal, TerminalStates
    <3>4. QED
      BY <1>1, <3>2, <3>3 DEF WorkJob
  <2>3. CASE ~MayRun(jobs[j])
    <3>1. worker'[j] = "settle"
      BY <1>0, <1>6, <2>3 DEF StartTask, Goto, TypeOK
    <3>2. QED
      BY <1>2, <2>1, <3>1
  <2>4. QED
    BY <2>2, <2>3
<1>7. CASE EndTask(j) \/ PanicTask(j)
  <2>1. /\ worker'[j] \in {"settle", "dead", "fail", "failAfterPreemption"}
        /\ worker'[j] = "failAfterPreemption" => j \in MediaImport
        /\ result'[j] = "committed" => j \in MediaImport /\ worker'[j] = "settle"
    BY <1>0, <1>7 DEF EndTask, PanicTask, TaskOutcome, Goto, Return, TypeOK
  <2>2. QED
    BY <2>1 DEF WorkJob, CommitJob, TaskJob, SignalJob
<1>8. CASE Decide(j)
  <2> DEFINE d == IF j \in OneShot THEN OneShotDecision(j) ELSE DescriptorDecision(j)
             yielded == d = "fail" /\ j \in OneShot /\ jobs[j].preemptRequested
  <2>1. worker'[j] = d /\ result'[j] = IF yielded THEN "RECORDING_PRIORITY" ELSE result[j]
    BY <1>0, <1>8 DEF Decide, Goto, Return, TypeOK
  <2>2. /\ d \in Decisions
        /\ d = "failAfterPreemption" => j \in MediaImport
        /\ d = "commit" => result[j] = "committed"
        /\ result[j] = "committed" => d = "commit" /\ j \in MediaImport
    BY <1>0 DEF OneShotDecision, DescriptorDecision, Decisions, CommitJob
  <2> HIDE DEF d
  <2>3. QED
    BY <2>1, <2>2 DEF WorkJob, CommitJob, TaskJob, SignalJob, Decisions
<1>9. CASE Settle(j)
  <2>1. worker'[j] \in {"gate", "followUp", "exit"} /\ result'[j] = result[j]
    BY <1>0, <1>9 DEF Settle, Goto, TypeOK
  <2>2. ASSUME result[j] = "committed" PROVE worker'[j] = "exit" /\ jobs'[j].state \in {"completed", "absent"}
    <3>1. worker[j] = "commit"
      BY <1>0, <1>9, <2>2 DEF Settle, Decisions, CommitJob
    <3>2. worker'[j] = "exit"
      BY <1>0, <1>9, <3>1 DEF Settle, Goto, TypeOK
    <3>3. Settled(j) = FinishCommitted(jobs[j]) /\ FinishCommitted(jobs[j]).state = "completed"
      BY <1>0, <3>1 DEF Settled, FinishCommitted, Entry
    <3>4. QED
      BY <1>0, <1>9, <3>2, <3>3 DEF Settle, Mutate, Present, TypeOK
  <2>3. QED
    BY <1>0, <2>1, <2>2 DEF WorkJob, CommitJob, TaskJob, SignalJob
<1>10. CASE SubmitFollowUp(j) \/ SaveFollowUp(j) \/ MarkFollowUp(j)
  <2>1. worker'[j] \in {"mark", "insert", "spawn", "exit"} /\ result'[j] # "committed"
    BY <1>0, <1>10 DEF SubmitFollowUp, SaveFollowUp, MarkFollowUp, Goto, CommitJob, TypeOK
  <2>2. QED
    BY <1>2, <2>1
<1>11. QED
  BY <1>3, <1>4, <1>5, <1>6, <1>7, <1>8, <1>9, <1>10 DEF WorkerStep

LEMMA RequestWork ==
    ASSUME TypeInv, LifeInv, NEW j \in Job, WorkJob(j),
           \/ \E k \in Job : CancelJob(k) \/ Acknowledge(k) \/ ApplyRetention(k)
           \/ CancelAll \/ PauseAll \/ RecoverLibrary
           \/ BeginRecording \/ EndRecording \/ (\E r \in Recording : BeginDeletion(r))
           \/ PassBarrier \/ FailBarrier \/ FinishDeletion
    PROVE  WorkJob(j)'
<1>0. TypeOK /\ jobs[j] \in Entry
  BY DEF TypeInv, TypeOK
<1>1. worker' = worker /\ result' = result
  BY DEF CancelJob, Acknowledge, ApplyRetention, CancelAll, PauseAll, RecoverLibrary,
     BeginRecording, EndRecording, BeginDeletion, PassBarrier, FailBarrier, FinishDeletion,
     workerVars
<1>2. requests'["retry"] = requests["retry"]
  BY <1>0 DEF CancelJob, Acknowledge, ApplyRetention, CancelAll, PauseAll, RecoverLibrary,
     BeginRecording, EndRecording, BeginDeletion, PassBarrier, FailBarrier, FinishDeletion,
     requestVars, insertVars, Request, Requests, TypeOK
<1>3. /\ shutdown => shutdown'
      /\ recordingActive' /\ main' # "signal" => recordingActive /\ main # "signal"
  <2>1. CASE RecoverLibrary \/ CancelAll
    <3>1. UNCHANGED mainVars
      BY <2>1 DEF CancelAll, RecoverLibrary, requestVars
    <3>2. QED
      BY <3>1 DEF mainVars
  <2>2. CASE PauseAll
    BY <2>2 DEF PauseAll
  <2>3. CASE ~(RecoverLibrary \/ CancelAll \/ PauseAll)
    BY <2>3 DEF CancelJob, Acknowledge, ApplyRetention, BeginRecording, EndRecording, EndPriority,
       BeginDeletion, PassBarrier, FailBarrier, FinishDeletion, requestVars, mainVars
  <2>4. QED
    BY <2>1, <2>2, <2>3
<1> USE <1>1, <1>2, <1>3
<1>4. ASSUME NEW k \in Job, CancelJob(k) \/ Acknowledge(k) \/ ApplyRetention(k)
      PROVE  WorkJob(j)'
  <2>1. \/ jobs'[j] = jobs[j] \/ jobs'[j] = NoEntry
        \/ Active(jobs[j]) /\ jobs'[j] = Cancel(jobs[j])
    BY <1>0, <1>4 DEF CancelJob, Acknowledge, ApplyRetention, TypeOK
  <2>2. Cancel(jobs[j]).state = "cancelling" /\ Cancel(jobs[j]).cancellation
    BY <1>0 DEF Cancel, Entry
  <2>3. QED
    BY <2>1, <2>2, EntryWork
<1>5. CASE CancelAll
  <2> DEFINE e == CancelFromAll(jobs[j], Registered(j))
  <2>1. jobs'[j] = jobs[j] \/ (Active(jobs[j]) /\ jobs'[j] = e)
    BY <1>5 DEF CancelAll, Active, ActiveStates
  <2>2. e.cancellation /\ (Registered(j) => e.state = "cancelling")
    BY <1>0 DEF CancelFromAll, Entry
  <2> HIDE DEF e
  <2>3. QED
    BY <2>1, <2>2, EntryWork
<1>6. CASE PauseAll
  <2> DEFINE e == PauseForShutdown(jobs[j], j \in OneShot)
  <2>1. shutdown' /\ (jobs'[j] = jobs[j] \/ (Active(jobs[j]) /\ jobs'[j] = e))
    BY <1>6 DEF PauseAll
  <2>2. e.cancellation
    BY <1>0 DEF PauseForShutdown, Entry
  <2> HIDE DEF e
  <2>3. QED
    BY <2>1, <2>2, EntryWork
<1>7. CASE RecoverLibrary
  <2>1. Reconciled(jobs[j], jobs'[j])
    BY <1>0, <1>7, RecoverFacts
  <2>2. LET e == [jobs[j] EXCEPT !.error = "RESOLVED"]
        IN  e.state = jobs[j].state /\ e.cancellation = jobs[j].cancellation
    BY <1>0 DEF Entry
  <2>3. QED
    BY <2>1, <2>2, EntryWork DEF Reconciled
<1>8. CASE \/ BeginRecording \/ EndRecording \/ (\E r \in Recording : BeginDeletion(r))
           \/ PassBarrier \/ FailBarrier \/ FinishDeletion
  <2>1. jobs'[j] = jobs[j] \/ jobs'[j] = NoEntry
    BY <1>8 DEF BeginRecording, EndRecording, EndPriority, BeginDeletion, PassBarrier, FailBarrier,
       FinishDeletion, Purged
  <2>2. QED
    BY <2>1, EntryWork
<1>9. QED
  BY <1>4, <1>5, <1>6, <1>7, <1>8

(* signal_recording_priority reaches every task that executes and every      *)
(* worker that may still start one.                                          *)
LEMMA SignalWork ==
    ASSUME TypeInv, LifeInv, NEW j \in Job, WorkJob(j), SignalRecording
    PROVE  WorkJob(j)'
<1>0. TypeOK /\ jobs[j] \in Entry /\ CancelSound(jobs[j])
  BY DEF TypeInv, TypeOK, LifeInv, CancelInv
<1>1. /\ UNCHANGED <<worker, result, shutdown, requests>>
      /\ jobs'[j] = IF j \in Exclusive /\ Active(jobs[j])
                    THEN YieldToRecording(jobs[j], j \in MediaImport) ELSE jobs[j]
  BY DEF SignalRecording, workerVars
<1> DEFINE f == YieldToRecording(jobs[j], j \in MediaImport)
<1>2. /\ Active(jobs[j]) => f.cancellation
      /\ jobs[j].state \in {"running", "cancelling"} => f.state \in {"running", "cancelling"}
  BY <1>0 DEF YieldToRecording, FinishCancelled, CancelSound, Entry
<1> HIDE DEF f
<1>3. jobs'[j] = jobs[j] \/ (Active(jobs[j]) /\ jobs'[j] = f)
  BY <1>1 DEF f
<1>4. CommitJob(j)'
  BY <1>1, <1>3 DEF WorkJob, CommitJob, Active, ActiveStates
<1>5. TaskJob(j)'
  BY <1>1, <1>2, <1>3 DEF WorkJob, TaskJob, Active, ActiveStates
<1>6. SignalJob(j) => SignalJob(j)'
  <2>1. CASE j \in Exclusive /\ Active(jobs[j])
    BY <1>1, <1>2, <2>1 DEF SignalJob, f
  <2>2. CASE ~(j \in Exclusive /\ Active(jobs[j]))
    <3>1. jobs'[j] = jobs[j]
      BY <1>1, <2>2
    <3>2. j \in Exclusive /\ Present(j) => Terminal(jobs[j])
      BY <1>0, <2>2 DEF Present, Terminal, Active, Entry
    <3>3. QED
      BY <1>1, <2>2, <3>1, <3>2 DEF SignalJob, Present, MayRun
  <2>3. QED
    BY <2>1, <2>2
<1>7. QED
  BY <1>1, <1>4, <1>5, <1>6 DEF WorkJob

LEMMA NextWork == TypeInv /\ LifeInv /\ WorkInv /\ [Next]_vars => WorkInv'
<1> SUFFICES ASSUME TypeInv, LifeInv, WorkInv, [Next]_vars, NEW j \in Job PROVE WorkJob(j)'
  BY DEF WorkInv
<1>0. TypeOK /\ WorkJob(j)
  BY DEF TypeInv, WorkInv
<1>1. ASSUME NEW k \in Job, WorkerStep(k) \/ PanicTask(k) PROVE WorkJob(j)'
  BY <1>0, <1>1, OwnWork, WorkerWork
<1>2. ASSUME NEW k \in Job, Submit(k) PROVE WorkJob(j)'
  <2>1. /\ UNCHANGED <<recordingActive, shutdown, requests, worker, result>>
        /\ main = "idle" /\ k \notin used
        /\ k # j => jobs'[j] = jobs[j]
    BY <1>0, <1>2 DEF Submit, Insert, workerVars, TypeOK
  <2>2. worker[k] = "none"
    BY <2>1 DEF LifeInv, UsedInv
  <2>3. QED
    BY <1>0, <2>1, <2>2, OtherWork
<1>3. ASSUME NEW k \in Job, Retry(k) PROVE WorkJob(j)'
  <2>1. /\ UNCHANGED <<recordingActive, shutdown, main>> /\ result' = result
        /\ worker'[j] = worker[j] \/ (worker[j] = "none" /\ worker'[j] = "gate")
        /\ jobs'[j] = jobs[j] \/ jobs[j].state \in {"failed", "cancelled", "paused"}
    BY <1>0, <1>3 DEF Retry, SpawnAlso, Registered, mainVars, TypeOK
  <2>2. requests'["retry"] # 0
    <3>1. requests'["retry"] = requests["retry"] + 1 /\ requests["retry"] \in Nat
      BY <1>0, <1>3 DEF Retry, Request, Requests, TypeOK
    <3>2. QED
      BY <3>1
  <2>3. QED
    BY <1>0, <2>1, <2>2 DEF WorkJob, CommitJob, TaskJob
<1>4. ASSUME \/ \E k \in Job : CancelJob(k) \/ Acknowledge(k) \/ ApplyRetention(k)
             \/ CancelAll \/ PauseAll \/ RecoverLibrary
             \/ BeginRecording \/ EndRecording \/ (\E r \in Recording : BeginDeletion(r))
             \/ PassBarrier \/ FailBarrier \/ FinishDeletion
      PROVE  WorkJob(j)'
  BY <1>0, <1>4, RequestWork
<1>5. CASE SignalRecording \/ EndSubmit
  <2>1. CASE SignalRecording
    BY <1>0, <2>1, SignalWork
  <2>2. CASE EndSubmit
    <3>1. /\ UNCHANGED <<recordingActive, shutdown, requests, result>> /\ main = "insert"
          /\ worker'[j] = worker[j] \/ (worker[j] = "none" /\ worker'[j] = "gate")
          /\ jobs'[j] = jobs[j] \/ (jobs'[j] = NoEntry /\ worker'[j] = worker[j])
      BY <1>0, <2>2 DEF EndSubmit, SaveInserted, TakeBack, Registered
    <3>2. QED
      BY <1>0, <3>1, OtherWork, EntryWork
  <2>3. QED
    BY <1>5, <2>1, <2>2
<1>6. CASE Crash \/ Restart
  <2>1. worker'[j] \in {"none", "gate", "followUp"} /\ result'[j] # "committed"
    <3>1. CASE Crash
      BY <3>1 DEF Crash
    <3>2. CASE Restart
      <4>1. worker[j] = "none" /\ result' = result
        BY <3>2 DEF Restart, LifeInv, DownInv
      <4>2. result[j] # "committed"
        BY <1>0, <4>1 DEF WorkJob, CommitJob
      <4>3. worker'[j] \in {"none", "gate", "followUp"}
        BY <3>2 DEF Restart
      <4>4. QED
        BY <4>1, <4>2, <4>3
    <3>3. QED
      BY <1>6, <3>1, <3>2
  <2>2. QED
    BY <2>1 DEF WorkJob, CommitJob, TaskJob, SignalJob
<1>7. CASE UNCHANGED vars
  BY <1>0, <1>7, OtherWork DEF vars, insertVars, workerVars, mainVars
<1>8. QED
  BY <1>1, <1>2, <1>3, <1>4, <1>5, <1>6, <1>7 DEF Next, MainStep

LEMMA WorkInvariant == Spec => []WorkInv
<1>1. Init => WorkInv
  BY DEF Init, WorkInv, WorkJob, CommitJob, TaskJob, SignalJob
<1>2. QED
  BY <1>1, NextWork, LifeInvariant, TypeInvariant, PTL DEF Spec

(***************************************************************************)
(* A committed import is reported as completed (spawn_once looks at the     *)
(* commit before it looks at any request), for any number of imports,       *)
(* cancellations, recordings, shutdowns and crashes.                        *)
(***************************************************************************)
THEOREM CommitIsReported == Spec => []CommittedImportReported
<1>1. WorkInv => CommittedImportReported
  BY JobAssumption DEF WorkInv, WorkJob, CommitJob, CommittedImportReported
<1>2. QED
  BY <1>1, WorkInvariant, PTL

(***************************************************************************)
(* Until jobs.pauseAll closes the core, a job whose task executes is not    *)
(* shown as ended: cancellation, a recording, a retry and a failed save     *)
(* leave it running or cancelling.  (pause_all_for_shutdown itself turns    *)
(* cancelling into cancelled without asking the worker.)                    *)
(***************************************************************************)
THEOREM EndedAfterTask == Spec => [](shutdown \/ TerminalAfterTask)
<1>1. WorkInv => shutdown \/ TerminalAfterTask
  BY DEF WorkInv, WorkJob, TaskJob, TerminalAfterTask, Terminal, TerminalStates
<1>2. QED
  BY <1>1, WorkInvariant, PTL

(***************************************************************************)
(* As long as no job was retried, signal_recording_priority reaches every   *)
(* exclusive task that executes during a recording, at whatever point       *)
(* between the priority check and set_running its worker was.  (retry       *)
(* clears the flag of a worker that is still registered.)                   *)
(***************************************************************************)
THEOREM SignalReaches == Spec => [](requests["retry"] = 0 => PreemptionReaches)
<1>1. WorkInv => (requests["retry"] = 0 => PreemptionReaches)
  BY JobAssumption DEF WorkInv, WorkJob, SignalJob, PreemptionReaches
<1>2. QED
  BY <1>1, WorkInvariant, PTL

(***************************************************************************)
(* A cancellation of the user sticks, for every job but an import (whose    *)
(* commit wins): no step of its worker, of a recording, of a shutdown or    *)
(* of another request takes a job that is being cancelled anywhere else.    *)
(***************************************************************************)
THEOREM CancellationSticks == Spec => CancelSticks
<1>1. TypeInv /\ LifeInv /\ WorkInv /\ [Next]_vars =>
        [\A j \in Job \ MediaImport :
            Active(jobs[j]) /\ jobs[j].cancelRequested =>
                main' = "down" \/ jobs'[j].state \in {"cancelling", "cancelled", "absent"}]_vars
  <2> SUFFICES ASSUME TypeInv, LifeInv, WorkInv, Next, NEW j \in Job \ MediaImport,
                      Active(jobs[j]), jobs[j].cancelRequested
               PROVE  jobs'[j].state \in {"cancelling", "cancelled", "absent"}
    OBVIOUS
  <2>0. /\ TypeOK /\ CancelSound(jobs[j]) /\ jobs[j].state = "cancelling" /\ j \in used /\ main # "down"
    BY DEF TypeInv, LifeInv, CancelInv, CancelSound, UsedInv, DownInv, Present
  <2>1. ASSUME NEW k \in Job, WorkerStep(k) \/ PanicTask(k)
        PROVE  jobs'[j].state \in {"cancelling", "cancelled", "absent"}
    <3>1. CASE SubmitFollowUp(k)
      <4>1. jobs' = jobs \/ \E q \in FollowUp[k] \ used : Insert(q, k)
        BY <3>1 DEF SubmitFollowUp, storeVars
      <4>2. jobs'[j] = jobs[j]
        BY <2>0, <4>1 DEF Insert, TypeOK
      <4>3. QED
        BY <2>0, <4>2
    <3>2. CASE ~SubmitFollowUp(k)
      <4>1. \/ Sticks(jobs[j], jobs'[j])
            \/ j = k /\ worker[k] \in {"commit", "failAfterPreemption"}
        BY <2>1, <3>2, WorkerTame
      <4>2. worker[j] \notin {"commit", "failAfterPreemption"}
        BY DEF WorkInv, WorkJob, CommitJob
      <4>3. QED
        BY <2>0, <4>1, <4>2 DEF Sticks
    <3>3. QED
      BY <3>1, <3>2
  <2>2. ASSUME NEW k \in Job, Submit(k) \/ Retry(k)
        PROVE  jobs'[j].state \in {"cancelling", "cancelled", "absent"}
    <3>1. jobs'[j] = jobs[j]
      BY <2>0, <2>2 DEF Submit, Insert, Retry, TypeOK
    <3>2. QED
      BY <2>0, <3>1
  <2>3. CASE \/ \E k \in Job : CancelJob(k) \/ Acknowledge(k) \/ ApplyRetention(k)
             \/ CancelAll \/ PauseAll \/ RecoverLibrary
             \/ BeginRecording \/ EndRecording \/ (\E r \in Recording : BeginDeletion(r))
             \/ MainStep \/ Crash
    <3>1. Sticks(jobs[j], jobs'[j])
      BY <2>3, RequestTame
    <3>2. QED
      BY <2>0, <3>1 DEF Sticks
  <2>4. CASE Restart
    BY <2>0, <2>4 DEF Restart
  <2>5. QED
    BY <2>1, <2>2, <2>3, <2>4 DEF Next
<1>2. QED
  BY <1>1, TypeInvariant, LifeInvariant, WorkInvariant, PTL DEF Spec, CancelSticks

-----------------------------------------------------------------------------
(* The deletion gate *)

(* Nothing was retried, and the process has not been restarted. *)
FirstLife == requests["retry"] = 0 /\ faults["crash"] = 0

Quiet(js) == \A j \in Job : RecordingOf[j] \cap deleting # {} => ~Active(js[j])

(***************************************************************************)
(* A recovery gates the recordings with a pending deletion without looking  *)
(* at their jobs.  In the process that closed the gates this changes        *)
(* nothing: every pending deletion has kept its gate.                       *)
(***************************************************************************)
GateInv ==
    FirstLife =>
        /\ Quiet(jobs) /\ main # "down"
        /\ pending \subseteq deleting
        /\ main \in {"purge", "resume"} => removing \subseteq deleting
        /\ main = "purge" => removing \cap pending = {}

LEMMA CountersGrow ==
    ASSUME TypeOK, Next, FirstLife' PROVE FirstLife
<1>1. requests["retry"] \in Nat /\ faults["crash"] \in Nat
  BY DEF TypeOK, Requests, Faults
<1>2. \A f \in Faults : Fault(f) => faults'["crash"] \in {faults["crash"], faults["crash"] + 1}
  BY DEF Fault, TypeOK, Faults
<1>3. \A q \in Requests : Request(q) => requests'["retry"] \in {requests["retry"], requests["retry"] + 1}
  BY DEF Request, TypeOK, Requests
<1>4. faults' = faults \/ \E f \in Faults : Fault(f)
  <2>1. SaveBestEffort \/ SaveOrReport \/ LoseSave => faults' = faults \/ \E f \in Faults : Fault(f)
    BY DEF SaveBestEffort, SaveOrReport, LoseSave, Faults
  <2>2. ASSUME NEW k \in Job, WorkerStep(k) \/ PanicTask(k)
        PROVE  faults' = faults \/ \E f \in Faults : Fault(f)
    BY <2>1, <2>2 DEF WorkerStep, PanicTask, ReadGate, ApplyGate, EnterSlot, CheckRecording, StartTask,
       EndTask, Decide, Settle, SubmitFollowUp, SaveFollowUp, MarkFollowUp, Release, Insert,
       SaveInserted, TakeBack, storeVars, Mutate, Faults
  <2>3. ASSUME NEW k \in Job,
               Submit(k) \/ CancelJob(k) \/ Retry(k) \/ Acknowledge(k) \/ ApplyRetention(k)
        PROVE  faults' = faults \/ \E f \in Faults : Fault(f)
    BY <2>1, <2>3 DEF Submit, Insert, CancelJob, Retry, Acknowledge, ApplyRetention
  <2>4. CASE MainStep \/ BeginRecording \/ EndRecording \/ \E r \in Recording : BeginDeletion(r)
    BY <2>1, <2>4 DEF MainStep, EndSubmit, SaveInserted, TakeBack, SignalRecording, PassBarrier,
       FailBarrier, EndPriority, FinishDeletion, BeginRecording, EndRecording, BeginDeletion
  <2>5. CASE CancelAll \/ PauseAll \/ RecoverLibrary \/ Crash \/ Restart
    BY <2>1, <2>5 DEF CancelAll, PauseAll, RecoverLibrary, Crash, Restart, Faults
  <2>6. QED
    BY <2>2, <2>3, <2>4, <2>5 DEF Next
<1>5. requests' = requests \/ \E q \in Requests : Request(q)
  <2>1. ASSUME NEW k \in Job, WorkerStep(k) \/ PanicTask(k) PROVE requests' = requests
    BY <2>1 DEF WorkerStep, PanicTask, ReadGate, ApplyGate, EnterSlot, CheckRecording, StartTask,
       EndTask, Decide, Settle, SubmitFollowUp, SaveFollowUp, MarkFollowUp, Release, requestVars
  <2>2. ASSUME NEW k \in Job,
               Submit(k) \/ CancelJob(k) \/ Retry(k) \/ Acknowledge(k) \/ ApplyRetention(k)
        PROVE  requests' = requests \/ \E q \in Requests : Request(q)
    BY <2>2 DEF Submit, CancelJob, Retry, Acknowledge, ApplyRetention, requestVars, Requests
  <2>3. CASE MainStep \/ BeginRecording \/ EndRecording \/ \E r \in Recording : BeginDeletion(r)
    BY <2>3 DEF MainStep, EndSubmit, SignalRecording, PassBarrier, FailBarrier, FinishDeletion,
       BeginRecording, EndRecording, BeginDeletion, Requests
  <2>4. CASE CancelAll \/ PauseAll \/ RecoverLibrary \/ Crash \/ Restart
    BY <2>4 DEF CancelAll, PauseAll, RecoverLibrary, Crash, Restart, requestVars, Requests
  <2>5. QED
    BY <2>1, <2>2, <2>3, <2>4 DEF Next
<1>6. faults["crash"] = 0
  BY <1>1, <1>2, <1>4 DEF FirstLife
<1>7. requests["retry"] = 0
  BY <1>1, <1>3, <1>5 DEF FirstLife
<1>8. QED
  BY <1>6, <1>7 DEF FirstLife

LEMMA NextGate == TypeInv /\ GateInv /\ [Next]_vars => GateInv'
<1> DEFINE Sound == /\ Quiet(jobs) /\ main # "down"
                    /\ pending \subseteq deleting
                    /\ main \in {"purge", "resume"} => removing \subseteq deleting
                    /\ main = "purge" => removing \cap pending = {}
<1> SUFFICES ASSUME TypeInv, GateInv, Next, FirstLife' PROVE Sound'
  BY DEF GateInv, FirstLife, Quiet, vars, deletionVars, mainVars
<1>0. TypeOK /\ Sound
  BY CountersGrow DEF TypeInv, GateInv
<1>1. ASSUME \A j \in Job : Active(jobs'[j]) => Active(jobs[j]),
             UNCHANGED deletionVars, main' = main \/ main' \in {"idle", "insert", "signal", "barrier"}
      PROVE  Sound'
  BY <1>0, <1>1 DEF Quiet, deletionVars
<1>2. ASSUME NEW q \in Job, NEW p \in Job \cup {NoJob}, Insert(q, p), UNCHANGED deletionVars,
             main' = main \/ main' = "insert"
      PROVE  Sound'
  <2>1. RecordingOf[q] \cap deleting = {} /\ \A j \in Job : j # q => jobs'[j] = jobs[j]
    BY <1>0, <1>2 DEF Insert, MayInsert, TypeOK
  <2>2. QED
    BY <1>0, <1>2, <2>1 DEF Quiet, deletionVars
<1>3. ASSUME NEW k \in Job, Submit(k) PROVE Sound'
  BY <1>2, <1>3 DEF Submit
<1>4. ASSUME NEW k \in Job, SubmitFollowUp(k) PROVE Sound'
  <2>1. UNCHANGED deletionVars /\ main' = main
    BY <1>4 DEF SubmitFollowUp, mainVars
  <2>2. jobs' = jobs \/ \E q \in FollowUp[k] : q \in Job /\ Insert(q, k)
    BY <1>4, JobAssumption DEF SubmitFollowUp, storeVars
  <2>3. QED
    BY <1>1, <1>2, <2>1, <2>2
<1>5. ASSUME NEW k \in Job, WorkerStep(k) \/ PanicTask(k), ~SubmitFollowUp(k) PROVE Sound'
  <2>1. \A j \in Job : Active(jobs'[j]) => Active(jobs[j])
    BY <1>5, WorkerTame DEF Tame
  <2>2. UNCHANGED deletionVars /\ main' = main
    BY <1>5 DEF WorkerStep, ReadGate, ApplyGate, EnterSlot, CheckRecording, StartTask, EndTask,
       PanicTask, Decide, Settle, SaveFollowUp, MarkFollowUp, Release, requestVars, mainVars
  <2>3. QED
    BY <1>1, <2>1, <2>2
<1>6. ASSUME NEW k \in Job, Retry(k) PROVE FALSE
  <2>1. requests'["retry"] = requests["retry"] + 1 /\ requests["retry"] \in Nat
    BY <1>0, <1>6 DEF Retry, Request, Requests, TypeOK
  <2>2. QED
    BY <2>1 DEF FirstLife
<1>7. CASE Crash \/ Restart
  <2>1. ~Restart
    BY <1>0 DEF Restart
  <2>2. faults'["crash"] = faults["crash"] + 1 /\ faults["crash"] \in Nat
    BY <1>0, <1>7, <2>1 DEF Crash, Fault, Faults, TypeOK
  <2>3. QED
    BY <2>2 DEF FirstLife
<1>8. ASSUME \/ \E k \in Job : CancelJob(k) \/ Acknowledge(k) \/ ApplyRetention(k)
             \/ CancelAll \/ PauseAll \/ RecoverLibrary
             \/ BeginRecording \/ EndRecording \/ (\E r \in Recording : BeginDeletion(r))
             \/ MainStep
      PROVE  Sound'
  <2>1. \A j \in Job : Active(jobs'[j]) => Active(jobs[j])
    BY <1>8, RequestTame DEF Tame
  <2>2. ASSUME NEW r \in Recording, BeginDeletion(r) PROVE Sound'
    <3>1. /\ jobs' = jobs /\ pending' = pending /\ deleting' = deleting \cup {r} /\ removing' = {r}
          /\ r \in deleting \/ \A j \in Job : r \in RecordingOf[j] => ~Active(jobs[j])
          /\ main' = IF r \in deleting THEN "resume" ELSE "purge"
      BY <2>2 DEF BeginDeletion
    <3>2. QED
      BY <1>0, <3>1 DEF Quiet
  <2>3. CASE FinishDeletion
    <3>1. /\ main' = "idle" /\ deleting' \subseteq deleting
          /\ \/ pending' = pending /\ deleting' = deleting \ removing /\ main = "purge"
             \/ pending' = pending \cup removing /\ deleting' = deleting
                   /\ main \in {"purge", "resume"}
             \/ pending' = pending \ removing /\ deleting' = deleting \ removing
      BY <2>3 DEF FinishDeletion
    <3>2. QED
      BY <1>0, <2>1, <3>1 DEF Quiet
  <2>4. CASE RecoverLibrary
    <3>1. main' = main /\ main = "idle"
      BY <2>4 DEF RecoverLibrary, mainVars
    <3>2. deleting' \subseteq deleting \cup pending /\ pending' \subseteq pending
          /\ deleting \cap pending' \subseteq deleting'
      BY <1>0, <2>4, RecoverFacts
    <3>3. QED
      BY <1>0, <2>1, <3>1, <3>2 DEF Quiet
  <2>5. CASE ~FinishDeletion /\ ~RecoverLibrary /\ ~\E r \in Recording : BeginDeletion(r)
    <3>1. /\ UNCHANGED deletionVars
          /\ main' = main \/ main' \in {"idle", "insert", "signal", "barrier"}
      BY <1>8, <2>5 DEF CancelJob, Acknowledge, ApplyRetention, CancelAll, PauseAll, BeginRecording,
         EndRecording, MainStep, EndSubmit, SignalRecording, PassBarrier, FailBarrier, requestVars,
         mainVars
    <3>2. QED
      BY <1>1, <2>1, <3>1
  <2>6. QED
    BY <1>8, <2>2, <2>3, <2>4, <2>5
<1>9. QED
  BY <1>3, <1>4, <1>5, <1>6, <1>7, <1>8 DEF Next, WorkerStep

(***************************************************************************)
(* While the deletion gate of a recording is held (begin_recording_deletion *)
(* until complete_recording_deletion), none of its jobs is waiting or       *)
(* running, for any number of jobs, recordings, deletions, recoveries and   *)
(* lost saves, in the process that closed the gate and as long as nothing   *)
(* was retried.  Both limits are the code's: retry does not consult the     *)
(* gate, a restart begins with no gate held, and the recovery that closes   *)
(* one for a pending deletion does not look at the recording's jobs.        *)
(***************************************************************************)
THEOREM GateIsQuiet == Spec => [](FirstLife => DeletionGateQuiet)
<1>1. Init => GateInv
  BY DEF Init, GateInv, Quiet
<1>2. GateInv => (FirstLife => DeletionGateQuiet)
  BY DEF GateInv, Quiet, DeletionGateQuiet
<1>3. QED
  BY <1>1, <1>2, NextGate, TypeInvariant, PTL DEF Spec

==============================================================================
