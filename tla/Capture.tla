------------------------------ MODULE Capture ------------------------------
(* The capture service (capture_service.rs): one CaptureManager driven by   *)
(* the core's request loop, the native capture threads of a session, the    *)
(* serialized writer of a combined session, and the microphone test, which  *)
(* competes with a session for the native device.  Audio is counted in      *)
(* blocks: one block is what one device callback delivers.                  *)
EXTENDS Integers, Sequences, FiniteSets

CONSTANTS
    CallbackCapacity,    \* CAPTURE_CALLBACK_QUEUE_CAPACITY
    WriterCapacity,      \* the sync_channel between capture threads and writer
    TargetBlocks,        \* blocks in one full chunk (target_bytes)
    MaxBlocks,           \* bound: callbacks per source and session
    MaxSessions,         \* bound: sessions started
    MaxTests,            \* bound: microphone tests started
    MaxCaptureFaults     \* bound: store writes that fail, stream errors

ASSUME CaptureAssumption ==
    /\ CallbackCapacity \in Nat \ {0} /\ WriterCapacity \in Nat \ {0}
    /\ TargetBlocks \in Nat \ {0} /\ MaxBlocks \in Nat
    /\ MaxSessions \in Nat /\ MaxTests \in Nat /\ MaxCaptureFaults \in Nat

VARIABLES
    loop,       \* where the request loop stands in a capture request
    session,    \* the sources and the recording of the current session
    thr,        \* one capture thread per source
    writer,     \* "off", "running" or "done"
    writerq,    \* the chunks between the capture threads and the writer
    durable,    \* the chunks in the recording store, per source
    probe,      \* the microphone test: its thread, flags and buffer
    spent       \* what has been used of the bounds

capVars == <<loop, session, thr, writer, writerq, durable, probe, spent>>

Sources == {"mic", "system"}
Live == {"running", "flushing"}                 \* the native stream is playing
ProbeHolds == {"built", "playing", "listening", "expired", "closing"} \* the test has a native stream

IdleThread ==
    [pc |-> "off", announced |-> "none", queue |-> 0, pending |-> 0,
     failure |-> FALSE, delivered |-> 0, frames |-> 0, error |-> FALSE]
NoSession ==
    [sources |-> {}, recording |-> "none", stop |-> FALSE, lastError |-> FALSE,
     verdict |-> "none"]
NoProbe ==
    [owned |-> FALSE, runtime |-> FALSE, thread |-> "none", announced |-> "none",
     stop |-> "no", error |-> FALSE, samples |-> 0, signal |-> FALSE,
     complete |-> FALSE, callback |-> "out"]

\* MicrophoneProbeState: zero_audio_state, and zero_and_reset.
ZeroAudio(p) == [p EXCEPT !.samples = 0, !.signal = FALSE, !.complete = FALSE]
ZeroAndReset(p) == [ZeroAudio(p) EXCEPT !.error = FALSE]

Queued == Cardinality(session.sources) > 1      \* CaptureSink::Queue
Joined == \A s \in session.sources : thr[s].pc = "done"

CapInit ==
    /\ loop = "idle"
    /\ session = NoSession
    /\ thr = [s \in Sources |-> IdleThread]
    /\ writer = "off"
    /\ writerq = <<>>
    /\ durable = [s \in Sources |-> <<>>]
    /\ probe = NoProbe
    /\ spent = [sessions |-> 0, tests |-> 0, faults |-> 0]

----------------------------------------------------------------------------
(* Starting a session.  The request loop stops and joins a running test    *)
(* first; then the recording is created and the threads are spawned.        *)

\* The guards of the three start requests: no session is active.  A test in
\* progress is told to stop and cleared before the request waits for it.
StartCapture(srcs) ==
    /\ loop = "idle" /\ session.verdict # "active"
    /\ spent.sessions < MaxSessions
    /\ spent' = [spent EXCEPT !.sessions = @ + 1]
    /\ session' = [NoSession EXCEPT !.sources = srcs]
    /\ loop' = "stop_test_for_capture"
    /\ probe' = IF probe.owned THEN ZeroAndReset([probe EXCEPT !.stop = "manager"]) ELSE probe
    /\ UNCHANGED <<thr, writer, writerq, durable>>

StartMic == StartCapture({"mic"})
StartSystem == StartCapture({"system"})
StartMicAndSystem == StartCapture(Sources)

\* stop_microphone_probe_for_capture succeeded.
TestStoppedForCapture ==
    /\ loop = "stop_test_for_capture"
    /\ ~probe.owned \/ probe.thread = "gone"
    /\ loop' = "starting" /\ probe' = IF probe.owned THEN NoProbe ELSE probe
    /\ session' = [session EXCEPT !.recording = "recording"]
    /\ thr' = [s \in Sources |->
                 IF s \in session.sources THEN [IdleThread EXCEPT !.pc = "opening"] ELSE IdleThread]
    /\ writer' = IF Queued THEN "running" ELSE "off"
    /\ writerq' = <<>>
    /\ durable' = [s \in Sources |-> <<>>]
    /\ UNCHANGED spent

\* The test thread did not end in time: the request fails, the stopped test
\* stays owned by the manager and no recording is created.
CaptureRefused ==
    /\ loop = "stop_test_for_capture"
    /\ probe.owned /\ probe.thread # "gone"
    /\ loop' = "idle" /\ session' = NoSession
    /\ UNCHANGED <<thr, writer, writerq, durable, probe, spent>>

\* The native stream opens and plays; the thread announces its runtime.
OpenStream(s) ==
    /\ thr[s].pc = "opening"
    /\ thr' = [thr EXCEPT ![s].pc = "running", ![s].announced = "ok"]
    /\ UNCHANGED <<loop, session, writer, writerq, durable, probe, spent>>

\* Device selection, stream creation or play fails: the error is announced,
\* the thread raises the session's stop flag and records the error.
OpenFails(s) ==
    /\ thr[s].pc = "opening" /\ spent.faults < MaxCaptureFaults
    /\ thr' = [thr EXCEPT ![s].pc = "done", ![s].announced = "error"]
    /\ session' = [session EXCEPT !.stop = TRUE, !.lastError = TRUE]
    /\ spent' = [spent EXCEPT !.faults = @ + 1]
    /\ UNCHANGED <<loop, writer, writerq, durable, probe>>

\* Every thread announced a runtime; the session becomes the active one.
CaptureReady ==
    /\ loop = "starting"
    /\ \A s \in session.sources : thr[s].announced = "ok"
    /\ loop' = "idle" /\ session' = [session EXCEPT !.verdict = "active"]
    /\ UNCHANGED <<thr, writer, writerq, durable, probe, spent>>

\* An error was announced, or the deadline passed with a thread still silent:
\* the stop flag goes up and the threads are joined, however long that takes.
AbortCaptureStart ==
    /\ loop = "starting"
    /\ \E s \in session.sources : thr[s].announced # "ok"
    /\ loop' = "aborting" /\ session' = [session EXCEPT !.stop = TRUE]
    /\ UNCHANGED <<thr, writer, writerq, durable, probe, spent>>

\* Every thread is joined; the recording is finished whatever it holds.
AbortDone ==
    /\ loop = "aborting" /\ Joined /\ writer # "running"
    /\ loop' = "idle"
    /\ session' = [session EXCEPT !.recording = "finished", !.verdict = "aborted"]
    /\ UNCHANGED <<thr, writer, writerq, durable, probe, spent>>

----------------------------------------------------------------------------
(* The native callbacks and the capture threads (run_cpal_capture).        *)

\* Mutants: a full queue drops the block without a word; the queue has no bound.
SilentOverflow(s) ==
    /\ thr[s].pc \in Live /\ thr[s].delivered < MaxBlocks
    /\ thr' = [thr EXCEPT ![s].delivered = @ + 1,
                          ![s].queue = IF @ < CallbackCapacity THEN @ + 1 ELSE @]
    /\ UNCHANGED <<loop, session, writer, writerq, durable, probe, spent>>
UnboundedCallback(s) ==
    /\ thr[s].pc \in Live /\ thr[s].delivered < MaxBlocks
    /\ thr' = [thr EXCEPT ![s].delivered = @ + 1, ![s].queue = @ + 1]
    /\ UNCHANGED <<loop, session, writer, writerq, durable, probe, spent>>

\* send_capture_callback_audio: try_send never blocks the audio callback; a
\* full queue drops the block and records a failure.
Callback(s) ==
    /\ thr[s].pc \in Live /\ thr[s].delivered < MaxBlocks
    /\ thr' = [thr EXCEPT ![s].delivered = @ + 1,
                          ![s].queue = IF @ < CallbackCapacity THEN @ + 1 ELSE @,
                          ![s].failure = @ \/ thr[s].queue = CallbackCapacity]
    /\ UNCHANGED <<loop, session, writer, writerq, durable, probe, spent>>

\* The stream's error callback.
StreamError(s) ==
    /\ thr[s].pc \in Live /\ spent.faults < MaxCaptureFaults
    /\ thr' = [thr EXCEPT ![s].failure = TRUE]
    /\ spent' = [spent EXCEPT !.faults = @ + 1]
    /\ UNCHANGED <<loop, session, writer, writerq, durable, probe>>

\* One iteration of the loop receives a block.
Receive(s) ==
    /\ thr[s].pc = "running" /\ ~session.stop /\ ~thr[s].failure /\ thr[s].queue > 0
    /\ thr' = [thr EXCEPT ![s].pc = "flushing", ![s].queue = @ - 1, ![s].pending = @ + 1]
    /\ UNCHANGED <<loop, session, writer, writerq, durable, probe, spent>>

\* take_capture_callback_failure ends the loop with an error.
CallbackFailureSeen(s) ==
    /\ thr[s].pc \in Live /\ thr[s].failure
    /\ thr[s].pc = "running" => ~session.stop
    /\ thr' = [thr EXCEPT ![s].pc = "draining", ![s].failure = FALSE, ![s].error = TRUE]
    /\ UNCHANGED <<loop, session, writer, writerq, durable, probe, spent>>

StopSeen(s) ==
    /\ thr[s].pc = "running" /\ session.stop
    /\ thr' = [thr EXCEPT ![s].pc = "draining"]
    /\ UNCHANGED <<loop, session, writer, writerq, durable, probe, spent>>

\* A chunk of n blocks leaves the thread: written to the store at once by a
\* single source, queued for the writer by a combined session.  A full writer
\* queue blocks the thread, a writer that is gone is an error.
Chunk(s, n) == [source |-> s, start |-> thr[s].frames, len |-> n]
SinkReady == Queued => writer = "done" \/ Len(writerq) < WriterCapacity
SinkFails == Queued /\ writer = "done"
Send(s, n) ==
    IF Queued
      THEN /\ writerq' = IF SinkFails THEN writerq ELSE Append(writerq, Chunk(s, n))
           /\ UNCHANGED durable
      ELSE /\ durable' = [durable EXCEPT ![s] = Append(@, Chunk(s, n))]
           /\ UNCHANGED writerq

\* A store write of a single source fails: the drained blocks are lost.
StoreFails == ~Queued /\ spent.faults < MaxCaptureFaults

\* Mutant: the frames of a written chunk are not counted.
FlushUncounted(s) ==
    /\ thr[s].pc = "flushing"
    /\ IF thr[s].pending < TargetBlocks
         THEN /\ thr' = [thr EXCEPT ![s].pc = "running"]
              /\ UNCHANGED <<writerq, durable>>
         ELSE /\ SinkReady
              /\ Send(s, TargetBlocks)
              /\ thr' = [thr EXCEPT ![s].pc = IF SinkFails THEN "draining" ELSE "running",
                                    ![s].pending = @ - TargetBlocks,
                                    ![s].error = @ \/ SinkFails]
    /\ UNCHANGED <<loop, session, writer, probe, spent>>

\* flush_pending_audio: a full chunk is drained and its frames are counted
\* before it is written; with less than a full chunk there is nothing to do.
FlushPending(s) ==
    /\ thr[s].pc = "flushing"
    /\ IF thr[s].pending < TargetBlocks
         THEN /\ thr' = [thr EXCEPT ![s].pc = "running"]
              /\ UNCHANGED <<writerq, durable>>
         ELSE /\ SinkReady
              /\ Send(s, TargetBlocks)
              /\ thr' = [thr EXCEPT ![s].pc = IF SinkFails THEN "draining" ELSE "running",
                                    ![s].pending = @ - TargetBlocks,
                                    ![s].frames = @ + TargetBlocks,
                                    ![s].error = @ \/ SinkFails]
    /\ UNCHANGED <<loop, session, writer, probe, spent>>

FlushPendingFails(s) ==
    /\ thr[s].pc = "flushing" /\ thr[s].pending >= TargetBlocks /\ StoreFails
    /\ thr' = [thr EXCEPT ![s].pc = "draining", ![s].pending = @ - TargetBlocks,
                          ![s].frames = @ + TargetBlocks, ![s].error = TRUE]
    /\ spent' = [spent EXCEPT !.faults = @ + 1]
    /\ UNCHANGED <<loop, session, writer, writerq, durable, probe>>

\* The stream is dropped, so no callback runs any more; what they left in the
\* queue is taken and a last failure is collected.
Drain(s) ==
    /\ thr[s].pc = "draining"
    /\ thr' = [thr EXCEPT ![s].pc = "last_flush", ![s].pending = @ + thr[s].queue,
                          ![s].queue = 0, ![s].failure = FALSE,
                          ![s].error = @ \/ thr[s].failure]
    /\ UNCHANGED <<loop, session, writer, writerq, durable, probe, spent>>

\* flush_all_audio writes everything that is pending, then the thread ends;
\* an error raises the stop flag for the other threads and is recorded.
ThreadEnds(s, failed) ==
    session' = [session EXCEPT !.stop = @ \/ failed, !.lastError = @ \/ failed]

FlushAll(s) ==
    /\ thr[s].pc = "last_flush"
    /\ IF thr[s].pending = 0
         THEN /\ ThreadEnds(s, thr[s].error)
              /\ UNCHANGED <<writerq, durable>>
         ELSE /\ SinkReady
              /\ Send(s, thr[s].pending)
              /\ ThreadEnds(s, thr[s].error \/ SinkFails)
    /\ thr' = [thr EXCEPT ![s].pc = "done", ![s].pending = 0,
                          ![s].frames = @ + thr[s].pending]
    /\ UNCHANGED <<loop, writer, probe, spent>>

FlushAllFails(s) ==
    /\ thr[s].pc = "last_flush" /\ thr[s].pending > 0 /\ StoreFails
    /\ ThreadEnds(s, TRUE)
    /\ thr' = [thr EXCEPT ![s].pc = "done", ![s].pending = 0,
                          ![s].frames = @ + thr[s].pending]
    /\ spent' = [spent EXCEPT !.faults = @ + 1]
    /\ UNCHANGED <<loop, writer, writerq, durable, probe>>

----------------------------------------------------------------------------
(* run_serialized_writer                                                    *)

WriteQueued ==
    /\ writer = "running" /\ writerq # <<>>
    /\ writerq' = Tail(writerq)
    /\ durable' = [durable EXCEPT ![Head(writerq).source] = Append(@, Head(writerq))]
    /\ UNCHANGED <<loop, session, thr, writer, probe, spent>>

\* A failed write ends the writer; what is queued behind it is dropped.
WriteQueuedFails ==
    /\ writer = "running" /\ writerq # <<>> /\ spent.faults < MaxCaptureFaults
    /\ writer' = "done" /\ writerq' = <<>>
    /\ session' = [session EXCEPT !.lastError = TRUE]
    /\ spent' = [spent EXCEPT !.faults = @ + 1]
    /\ UNCHANGED <<loop, thr, durable, probe>>

\* Mutant: the starting request keeps its own sender until it has returned.
WriterEndsWithRequest ==
    /\ writer = "running" /\ writerq = <<>> /\ Joined /\ loop = "idle"
    /\ writer' = "done"
    /\ UNCHANGED <<loop, session, thr, writerq, durable, probe, spent>>

\* recv fails once every sender is dropped and the queue is empty.
WriterEnds ==
    /\ writer = "running" /\ writerq = <<>> /\ Joined
    /\ writer' = "done"
    /\ UNCHANGED <<loop, session, thr, writerq, durable, probe, spent>>

----------------------------------------------------------------------------
(* Stopping a session                                                       *)

\* request_stop and the first half of stop.
StopCapture ==
    /\ loop = "idle" /\ session.verdict = "active"
    /\ loop' = "stopping" /\ session' = [session EXCEPT !.stop = TRUE]
    /\ UNCHANGED <<thr, writer, writerq, durable, probe, spent>>

\* Every thread is joined; the recording is finished, or kept for recovery
\* when any of them recorded an error.
StopDone ==
    /\ loop = "stopping" /\ Joined /\ writer # "running"
    /\ loop' = "idle"
    /\ session' =
         IF session.lastError
           THEN [session EXCEPT !.recording = "needs_recovery", !.verdict = "failed"]
           ELSE [session EXCEPT !.recording = "finished", !.verdict = "verified"]
    /\ UNCHANGED <<thr, writer, writerq, durable, probe, spent>>

\* The store refuses the last manifest change: the session is gone and the
\* recording still says recording, for the next startup to recover.
StopFails ==
    /\ loop = "stopping" /\ Joined /\ writer # "running"
    /\ spent.faults < MaxCaptureFaults
    /\ loop' = "idle" /\ session' = [session EXCEPT !.verdict = "unfinished"]
    /\ spent' = [spent EXCEPT !.faults = @ + 1]
    /\ UNCHANGED <<thr, writer, writerq, durable, probe>>

----------------------------------------------------------------------------
(* The microphone test                                                      *)

MicTestStart ==
    /\ loop = "idle" /\ session.verdict # "active" /\ ~probe.owned
    /\ spent.tests < MaxTests
    /\ spent' = [spent EXCEPT !.tests = @ + 1]
    /\ loop' = "testing"
    /\ probe' = [NoProbe EXCEPT !.thread = "selecting"]
    /\ UNCHANGED <<session, thr, writer, writerq, durable>>

\* The thread finds a device, builds the stream, plays it and announces; it
\* looks at the stop flag after each of these steps.
Stopped == probe.stop # "no"
Gone(p) == [ZeroAudio(p) EXCEPT !.thread = "gone"]
ProbeStep(from, to) ==
    /\ probe.thread = from
    /\ probe' = IF Stopped /\ from # "building" THEN Gone(probe)
                ELSE [probe EXCEPT !.thread = to,
                                   !.announced = IF to = "listening" THEN "ok" ELSE @]
    /\ UNCHANGED <<loop, session, thr, writer, writerq, durable, spent>>

ProbeSelect == ProbeStep("selecting", "building")
ProbeBuild == ProbeStep("building", "built")
ProbePlay == ProbeStep("built", "playing")
ProbeReady == ProbeStep("playing", "listening")

ProbeFails ==
    /\ probe.thread \in {"selecting", "building", "built"}
    /\ probe' = [Gone(probe) EXCEPT !.announced = "error", !.error = TRUE,
                                    !.stop = IF Stopped THEN @ ELSE "thread"]
    /\ UNCHANGED <<loop, session, thr, writer, writerq, durable, spent>>

\* The device disappears: the error callback raises the stop flag itself.
ProbeDisconnected ==
    /\ probe.thread \in {"playing", "listening"}
    /\ probe' = [probe EXCEPT !.stop = IF Stopped THEN @ ELSE "thread", !.error = TRUE]
    /\ UNCHANGED <<loop, session, thr, writer, writerq, durable, spent>>

\* The thread leaves its wait because it was stopped, or at the deadline: it
\* marks the buffer complete, drops the stream and reads the flag once more.
ProbeEnds ==
    /\ probe.thread = "listening"
    /\ probe' = [probe EXCEPT !.thread = IF Stopped THEN "closing" ELSE "expired"]
    /\ UNCHANGED <<loop, session, thr, writer, writerq, durable, spent>>

ProbeExpires ==
    /\ probe.thread = "expired"
    /\ probe' = [probe EXCEPT !.thread = "closing", !.complete = TRUE]
    /\ UNCHANGED <<loop, session, thr, writer, writerq, durable, spent>>

ProbeCloses ==
    /\ probe.thread = "closing"
    /\ probe' = IF Stopped THEN Gone(probe) ELSE [probe EXCEPT !.thread = "gone"]
    /\ UNCHANGED <<loop, session, thr, writer, writerq, durable, spent>>

\* Mutant: the flag is not read again under the lock.
ProbeCallbackUnchecked ==
    /\ probe.callback = "in"
    /\ probe' = [probe EXCEPT !.callback = "out", !.samples = 1, !.signal = TRUE]
    /\ UNCHANGED <<loop, session, thr, writer, writerq, durable, spent>>

\* process_probe_callback: the stop flag is read, then the state is locked and
\* the flag is read again.
ProbeCallbackEnters ==
    /\ probe.thread \in {"playing", "listening"} /\ probe.callback = "out" /\ ~Stopped
    /\ probe' = [probe EXCEPT !.callback = "in"]
    /\ UNCHANGED <<loop, session, thr, writer, writerq, durable, spent>>

ProbeCallback ==
    /\ probe.callback = "in"
    /\ probe' = IF ~Stopped /\ ~probe.complete
                THEN [probe EXCEPT !.callback = "out", !.samples = 1, !.signal = TRUE]
                ELSE [probe EXCEPT !.callback = "out"]
    /\ UNCHANGED <<loop, session, thr, writer, writerq, durable, spent>>

MicTestReady ==
    /\ loop = "testing" /\ probe.announced = "ok"
    /\ loop' = "idle" /\ probe' = [probe EXCEPT !.owned = TRUE, !.runtime = TRUE]
    /\ UNCHANGED <<session, thr, writer, writerq, durable, spent>>

MicTestFailed ==
    /\ loop = "testing" /\ probe.announced = "error" /\ probe.thread = "gone"
    /\ loop' = "idle" /\ probe' = NoProbe
    /\ UNCHANGED <<session, thr, writer, writerq, durable, spent>>

\* Mutant: a test that did not answer in time is forgotten.
MicTestForgotten ==
    /\ loop = "testing" /\ probe.announced = "none"
    /\ loop' = "idle"
    /\ probe' = ZeroAndReset([probe EXCEPT !.stop = "manager"])
    /\ UNCHANGED <<session, thr, writer, writerq, durable, spent>>

\* The deadline passed: the thread is told to stop and the manager keeps it.
MicTestTimeout ==
    /\ loop = "testing" /\ probe.announced = "none"
    /\ loop' = "idle"
    /\ probe' = ZeroAndReset([probe EXCEPT !.owned = TRUE, !.stop = "manager"])
    /\ UNCHANGED <<session, thr, writer, writerq, durable, spent>>

\* mic_test_sample hands the buffer out and clears it.
MicTestSample ==
    /\ loop = "idle" /\ probe.owned /\ probe.runtime /\ probe.samples > 0
    /\ probe' = [probe EXCEPT !.samples = 0]
    /\ UNCHANGED <<loop, session, thr, writer, writerq, durable, spent>>

\* mic_test_stop, also the first step of set_preferred_microphone and of
\* core.shutdown: stop, clear, then a bounded join.
MicTestStop ==
    /\ loop = "idle" /\ probe.owned
    /\ loop' = "stop_test"
    /\ probe' = ZeroAndReset([probe EXCEPT !.stop = "manager"])
    /\ UNCHANGED <<session, thr, writer, writerq, durable, spent>>

\* The state mic_test_status reports.
MicTestState ==
    CASE probe.error -> "device-disconnected"
      [] ~probe.error /\ probe.complete /\ probe.signal -> "playback-ready"
      [] ~probe.error /\ probe.complete /\ ~probe.signal -> "no-signal"
      [] OTHER -> IF Stopped \/ probe.thread \in {"none", "gone"} THEN "idle"
                  ELSE IF probe.signal THEN "signal-detected" ELSE "listening"

\* join_microphone_probe_bounded: the thread ended, or it stays owned.
MicTestJoin ==
    /\ loop = "stop_test" /\ loop' = "idle"
    /\ \/ probe.thread = "gone" /\ probe' = NoProbe
       \/ probe.thread # "gone" /\ UNCHANGED probe
    /\ UNCHANGED <<session, thr, writer, writerq, durable, spent>>

----------------------------------------------------------------------------
ThreadStep(s) ==
    \/ OpenStream(s) \/ Receive(s) \/ CallbackFailureSeen(s) \/ StopSeen(s)
    \/ FlushPending(s) \/ Drain(s) \/ FlushAll(s)
WriterStep == WriteQueued \/ WriterEnds
SessionStep == TestStoppedForCapture \/ CaptureReady \/ AbortDone \/ StopDone
TestStep ==
    \/ ProbeSelect \/ ProbeBuild \/ ProbePlay \/ ProbeReady \/ ProbeEnds
    \/ ProbeExpires \/ ProbeCloses \/ ProbeFails \/ ProbeDisconnected \/ ProbeCallbackEnters \/ ProbeCallback
    \/ MicTestStart \/ MicTestReady \/ MicTestFailed \/ MicTestTimeout
    \/ MicTestSample \/ MicTestStop \/ MicTestJoin

CapNext ==
    \/ StartMic \/ StartSystem \/ StartMicAndSystem \/ CaptureRefused
    \/ SessionStep \/ AbortCaptureStart \/ StopCapture \/ StopFails
    \/ \E s \in Sources : \/ ThreadStep(s) \/ Callback(s) \/ StreamError(s)
                          \/ OpenFails(s) \/ FlushPendingFails(s) \/ FlushAllFails(s)
    \/ WriterStep \/ WriteQueuedFails
    \/ TestStep

CapSpec == CapInit /\ [][CapNext]_capVars

\* The operating system schedules the threads the process started, a native
\* backend that was asked to open answers, and the request loop goes on.
CapFairness ==
    /\ \A s \in Sources : WF_capVars(ThreadStep(s))
    /\ WF_capVars(WriterStep) /\ WF_capVars(SessionStep)

----------------------------------------------------------------------------
(* Properties                                                               *)

\* Every variable has its type.
CapTypeOK ==
    /\ loop \in {"idle", "stop_test_for_capture", "starting", "aborting", "stopping",
                 "testing", "stop_test"}
    /\ session \in [sources : SUBSET Sources, stop : BOOLEAN, lastError : BOOLEAN,
                    recording : {"none", "recording", "finished", "needs_recovery"},
                    verdict : {"none", "active", "aborted", "verified", "failed", "unfinished"}]
    /\ \A s \in Sources :
         /\ thr[s].pc \in {"off", "opening", "running", "flushing", "draining",
                           "last_flush", "done"}
         /\ thr[s].queue \in 0..CallbackCapacity
         /\ thr[s].pending + thr[s].frames <= thr[s].delivered
    /\ writer \in {"off", "running", "done"}
    /\ Len(writerq) <= WriterCapacity
    /\ probe.thread \in {"none", "selecting", "building", "built", "playing",
                         "listening", "expired", "closing", "gone"}

\* Where the stored audio of a source ends; its number of blocks when the
\* chunks before it have no gap.
Blocks(s) ==
    IF durable[s] = <<>> THEN 0
    ELSE durable[s][Len(durable[s])].start + durable[s][Len(durable[s])].len

\* A stop that reports "verified" has stored every block the device callbacks
\* delivered, in gapless chunks: no callback drop, lost chunk or failed write
\* is silent ("silentCallbackDropsAllowed": false, "flushBufferedAudioOnStop").
VerifiedIsComplete ==
    session.verdict = "verified" =>
        \A s \in session.sources :
            /\ Blocks(s) = thr[s].delivered
            /\ \A i \in 1..Len(durable[s]) :
                 durable[s][i].start =
                   (IF i = 1 THEN 0 ELSE durable[s][i-1].start + durable[s][i-1].len)

\* A chunk never overlaps an earlier one of its source, also after failures:
\* replay places stored audio where it was captured.
ChunksDisjoint ==
    \A s \in Sources : \A i \in 2..Len(durable[s]) :
        durable[s][i].start >= durable[s][i-1].start + durable[s][i-1].len

\* The microphone test and a capture session never hold the native device
\* together, however late the test's backend answers.
DeviceExclusive ==
    probe.thread \in ProbeHolds =>
        \A s \in Sources : thr[s].pc \notin {"opening"} \cup Live

\* Once the manager stopped a test, no sample of it stays or comes back, and
\* the status of a test whose thread is still stuck offers no playback.
TestAudioCleared ==
    probe.stop = "manager" => probe.samples = 0 /\ MicTestState # "playback-ready"

\* A session that was asked to stop, or whose start failed, is over at last:
\* the threads, the writer and the request loop never wait for each other.
StopCompletes == loop \in {"stopping", "aborting"} ~> loop = "idle"

\* The promise of a capture session: its bounded queues keep their types, a
\* session reported verified lost no block that a device delivered, and the
\* chunks it stored cover each block once.
CaptureSafe == CapTypeOK /\ VerifiedIsComplete /\ ChunksDisjoint

\* A device has one owner, session or microphone test, also after a time-out;
\* a test that the manager ended keeps no audio.
DeviceOwned == DeviceExclusive /\ TestAudioCleared
=============================================================================
