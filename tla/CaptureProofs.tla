--------------------------- MODULE CaptureProofs ----------------------------
(***************************************************************************)
(* Proofs about live capture. The capture service, for every queue         *)
(* capacity, chunk size and number of sessions, tests, callbacks and       *)
(* failures: a session that is reported verified lost no block, stored     *)
(* chunks do not overlap, and the native device has one owner. The window  *)
(* mixer, for every window length, lane length and capture time: samples   *)
(* stand at their instant in every window, and no instant is in two        *)
(* windows. Provisional transcription, for every limit and any number of   *)
(* producers.                                                              *)
(***************************************************************************)
EXTENDS Capture, LiveMixer, LiveTranscript, FiniteSetTheorems, WellFoundedInduction, TLAPS

-----------------------------------------------------------------------------
(* Types *)

Thread ==
    [pc : {"off", "opening", "running", "flushing", "draining", "last_flush", "done"},
     announced : {"none", "ok", "error"}, queue : 0..CallbackCapacity, pending : Nat,
     failure : BOOLEAN, delivered : Nat, frames : Nat, error : BOOLEAN]
Session ==
    [sources : SUBSET Sources, stop : BOOLEAN, lastError : BOOLEAN,
     recording : {"none", "recording", "finished", "needs_recovery"},
     verdict : {"none", "active", "aborted", "verified", "failed", "unfinished"}]
Loops == {"idle", "stop_test_for_capture", "starting", "aborting", "stopping", "testing", "stop_test"}
ChunkRec == [source : Sources, start : Nat, len : Nat \ {0}]
ProbeThreads == {"none", "selecting", "building", "built", "playing", "listening", "expired",
                 "closing", "gone"}
Probe ==
    [owned : BOOLEAN, runtime : BOOLEAN, thread : ProbeThreads, announced : {"none", "ok", "error"},
     stop : {"no", "thread", "manager"}, error : BOOLEAN, samples : {0, 1}, signal : BOOLEAN,
     complete : BOOLEAN, callback : {"in", "out"}]

CapType ==
    /\ loop \in Loops
    /\ session \in Session
    /\ thr \in [Sources -> Thread]
    /\ writer \in {"off", "running", "done"}
    /\ writerq \in Seq(ChunkRec)
    /\ Len(writerq) <= WriterCapacity
    /\ durable \in [Sources -> Seq(ChunkRec)]
    /\ probe \in Probe

-----------------------------------------------------------------------------
(* The request loop, the threads and the writer *)

Asleep(s) == thr[s].pc \in {"off", "done"}
AllAsleep == \A s \in Sources : Asleep(s)

\* Threads run only for the sources of a session that was created and is not
\* over, and the writer runs only beside them.
SessionInv ==
    /\ loop = "stop_test_for_capture" => session.recording = "none"
    /\ loop \in {"stop_test_for_capture", "starting", "aborting"} => session.verdict = "none"
    /\ loop \in {"starting", "aborting"} => session.recording # "none"
    /\ loop = "stopping" => session.verdict = "active"
    /\ session.verdict # "none" => session.recording # "none"
    /\ session.verdict = "verified" =>
         ~session.lastError /\ \A s \in session.sources : thr[s].pc = "done"
    /\ session.recording = "none" => AllAsleep
    /\ loop \in {"idle", "testing", "stop_test", "stop_test_for_capture"} /\ session.verdict # "active" =>
         AllAsleep /\ writer # "running"
    /\ \A s \in Sources : ~Asleep(s) => s \in session.sources
    /\ writer # "running" => writerq = <<>>
    /\ ~AllAsleep => (Queued <=> writer # "off")

-----------------------------------------------------------------------------
(* Accounting: where the blocks of a source are *)

\* Blocks are in the store or on their way to it, in the thread's buffer or in
\* the callback queue, unless a failure is recorded.
ThreadInv(s) ==
    /\ thr[s].frames + thr[s].pending + thr[s].queue <= thr[s].delivered
    /\ session.recording # "none" =>
         \/ thr[s].failure \/ thr[s].error \/ session.lastError
         \/ thr[s].frames + thr[s].pending + thr[s].queue = thr[s].delivered
    /\ thr[s].pc \in {"last_flush", "done"} /\ session.recording # "none" =>
         session.lastError \/ (thr[s].queue = 0 /\ ~thr[s].failure)
    /\ thr[s].pc = "done" /\ session.recording # "none" =>
         session.lastError \/ (thr[s].pending = 0 /\ ~thr[s].error)

End(c) == c.start + c.len
Holds(c, b) == c.start <= b /\ b < End(c)

\* Chunks of a source are stored, and queued behind the stored ones, in the
\* order of capture, up to the frames the thread has counted.
OrderInv(s) ==
    /\ \A i, j \in 1..Len(durable[s]) : i < j => End(durable[s][i]) <= durable[s][j].start
    /\ \A i, j \in 1..Len(writerq) :
         i < j /\ writerq[i].source = s /\ writerq[j].source = s => End(writerq[i]) <= writerq[j].start
    /\ \A i \in 1..Len(durable[s]), j \in 1..Len(writerq) :
         writerq[j].source = s => End(durable[s][i]) <= writerq[j].start
    /\ \A i \in 1..Len(durable[s]) : End(durable[s][i]) <= thr[s].frames
    /\ \A i \in 1..Len(writerq) : writerq[i].source = s => End(writerq[i]) <= thr[s].frames

Kept(s, b) ==
    \/ \E i \in 1..Len(durable[s]) : Holds(durable[s][i], b)
    \/ \E i \in 1..Len(writerq) : writerq[i].source = s /\ Holds(writerq[i], b)

\* Every counted block is in a chunk, unless an error was recorded.
CoverInv(s) ==
    session.recording # "none" /\ ~thr[s].error /\ ~session.lastError =>
        \A b \in 0..(thr[s].frames - 1) : Kept(s, b)

-----------------------------------------------------------------------------
(* The microphone test *)

\* The manager owns the test's thread, or waits for its answer; it lets a
\* session start threads only when that thread is gone.
ProbeInv ==
    /\ probe.owned => loop # "testing"
    /\ ~probe.owned /\ loop # "testing" => probe.thread = "none"
    /\ ~AllAsleep => probe.thread \in {"none", "gone"}
    /\ probe.stop = "manager" => probe.samples = 0 /\ ~probe.signal

CapInv ==
    /\ CapType /\ SessionInv /\ ProbeInv
    /\ \A s \in Sources : ThreadInv(s) /\ OrderInv(s) /\ CoverInv(s)

-----------------------------------------------------------------------------
(* Steps of one thread *)

LEMMA ThreadFrame ==
    ASSUME CapInv, NEW s \in Sources, ~Asleep(s),
           thr' \in [Sources -> Thread],
           \A o \in Sources : o # s => thr'[o] = thr[o],
           UNCHANGED <<loop, writer, probe>>,
           session' \in Session,
           session'.sources = session.sources, session'.recording = session.recording,
           session'.verdict = session.verdict,
           writer # "running" => writerq' = writerq
    PROVE  /\ SessionInv' /\ ProbeInv'
           /\ s \in session.sources /\ session.recording # "none"
           /\ Queued <=> writer # "off"
<1>1. SessionInv /\ ProbeInv
  BY DEF CapInv
<1>2. ~AllAsleep
  BY DEF AllAsleep
<1>3. /\ s \in session.sources /\ session.recording # "none"
      /\ Queued <=> writer # "off"
  BY <1>1, <1>2 DEF SessionInv
<1>4. thr[s].pc # "done"
  BY DEF Asleep
<1>5. session.verdict # "verified"
  BY <1>1, <1>3, <1>4 DEF SessionInv
<1>6. \A o \in Sources : ~Asleep(o)' => o \in session'.sources
  BY <1>1, <1>3 DEF SessionInv, Asleep
<1>7. Queued' <=> Queued
  BY DEF Queued
<1>8. SessionInv'
  BY <1>1, <1>2, <1>3, <1>5, <1>6, <1>7 DEF SessionInv
<1>9. ProbeInv'
  BY <1>1, <1>2 DEF ProbeInv
<1>10. QED
  BY <1>3, <1>8, <1>9

\* The threads that do not move keep their accounts.
LEMMA OtherThread ==
    ASSUME NEW o \in Sources, ThreadInv(o), thr'[o] = thr[o],
           session'.recording = session.recording, session.lastError => session'.lastError
    PROVE  ThreadInv(o)'
BY DEF ThreadInv

\* No chunk is written.
LEMMA NoChunk ==
    ASSUME NEW o \in Sources, OrderInv(o), CoverInv(o), UNCHANGED <<writerq, durable>>,
           thr[o].frames \in Nat, thr'[o].frames \in Nat, thr[o].frames <= thr'[o].frames,
           durable[o] \in Seq(ChunkRec), writerq \in Seq(ChunkRec),
           session'.recording # "none" /\ ~thr'[o].error /\ ~session'.lastError =>
             /\ session.recording # "none" /\ ~thr[o].error /\ ~session.lastError
             /\ thr'[o].frames = thr[o].frames
    PROVE  OrderInv(o)' /\ CoverInv(o)'
<1>1. OrderInv(o)'
  <2>1. /\ \A i \in 1..Len(durable[o]) : End(durable[o][i]) \in Nat
        /\ \A i \in 1..Len(writerq) : End(writerq[i]) \in Nat
    <3>1. /\ \A i \in 1..Len(durable[o]) : durable[o][i] \in ChunkRec
          /\ \A i \in 1..Len(writerq) : writerq[i] \in ChunkRec
      OBVIOUS
    <3>2. \A c \in ChunkRec : End(c) \in Nat
      BY DEF End, ChunkRec
    <3>3. QED
      BY <3>1, <3>2
  <2>2. /\ \A i \in 1..Len(durable[o]) : End(durable[o][i]) <= thr'[o].frames
        /\ \A i \in 1..Len(writerq) : writerq[i].source = o => End(writerq[i]) <= thr'[o].frames
    BY <2>1 DEF OrderInv
  <2>3. QED
    BY <2>2 DEF OrderInv
<1>2. CoverInv(o)'
  BY DEF CoverInv, Kept
<1>3. QED
  BY <1>1, <1>2

\* What a thread does apart from handing on a chunk.
QuietThreadStep(s) ==
    \/ OpenStream(s) \/ OpenFails(s) \/ Callback(s) \/ StreamError(s) \/ Receive(s)
    \/ CallbackFailureSeen(s) \/ StopSeen(s) \/ Drain(s) \/ FlushPendingFails(s) \/ FlushAllFails(s)
    \/ FlushPending(s) /\ thr[s].pending < TargetBlocks
    \/ FlushAll(s) /\ thr[s].pending = 0

LEMMA QuietThread ==
    ASSUME CapInv, NEW s \in Sources, QuietThreadStep(s)
    PROVE  CapInv'
<1> USE CaptureAssumption
<1>0. /\ CapType /\ thr[s] \in Thread /\ session \in Session
      /\ \A o \in Sources : ThreadInv(o) /\ OrderInv(o) /\ CoverInv(o)
  BY DEF CapInv, CapType
<1>1. UNCHANGED <<loop, writer, writerq, durable, probe>> /\ ~Asleep(s)
  BY DEF QuietThreadStep, OpenStream, OpenFails, Callback, StreamError, Receive, CallbackFailureSeen,
     StopSeen, Drain, FlushPendingFails, FlushAllFails, FlushPending, FlushAll, Asleep, Live
<1>2. /\ session' \in Session /\ session'.sources = session.sources
      /\ session'.recording = session.recording /\ session'.verdict = session.verdict
      /\ session.lastError => session'.lastError
  <2>1. \/ session' = session
        \/ session' = [session EXCEPT !.stop = TRUE, !.lastError = TRUE]
        \/ \E b \in BOOLEAN : ThreadEnds(s, b)
    BY <1>0 DEF QuietThreadStep, OpenStream, OpenFails, Callback, StreamError, Receive, CallbackFailureSeen,
       StopSeen, Drain, FlushPendingFails, FlushAllFails, FlushPending, FlushAll, Thread
  <2>2. QED
    BY <1>0, <2>1 DEF ThreadEnds, Session
<1>3. /\ thr' \in [Sources -> Thread]
      /\ \A o \in Sources : o # s => thr'[o] = thr[o]
  <2>0. thr \in [Sources -> Thread]
    BY <1>0 DEF CapType
  <2>13. /\ thr[s].queue \in 0..CallbackCapacity /\ thr[s].pending \in Nat /\ thr[s].frames \in Nat
        /\ thr[s].delivered \in Nat /\ thr[s].failure \in BOOLEAN /\ thr[s].error \in BOOLEAN
        /\ CallbackCapacity \in Nat /\ TargetBlocks \in Nat
    BY <1>0 DEF Thread
  <2>1. CASE OpenStream(s)
    <3>1. thr' = [thr EXCEPT ![s] = [thr[s] EXCEPT !.pc = "running", !.announced = "ok"]]
      BY <2>0, <2>1 DEF OpenStream
    <3>2. [thr[s] EXCEPT !.pc = "running", !.announced = "ok"] \in Thread
      BY <1>0, <2>1 DEF OpenStream, Thread
    <3>3. QED
      BY <2>0, <3>1, <3>2
  <2>2. CASE OpenFails(s)
    <3>1. thr' = [thr EXCEPT ![s] = [thr[s] EXCEPT !.pc = "done", !.announced = "error"]]
      BY <2>0, <2>2 DEF OpenFails
    <3>2. [thr[s] EXCEPT !.pc = "done", !.announced = "error"] \in Thread
      BY <1>0, <2>2 DEF OpenFails, Thread
    <3>3. QED
      BY <2>0, <3>1, <3>2
  <2>3. CASE Callback(s)
    <3>1. thr' = [thr EXCEPT ![s] = [thr[s] EXCEPT !.delivered = @ + 1, !.queue = IF @ < CallbackCapacity THEN @ + 1 ELSE @,
                                !.failure = @ \/ thr[s].queue = CallbackCapacity]]
      BY <2>0, <2>3 DEF Callback
    <3>2. /\ thr[s].delivered + 1 \in Nat
          /\ (IF thr[s].queue < CallbackCapacity THEN thr[s].queue + 1 ELSE thr[s].queue) \in 0..CallbackCapacity
          /\ (thr[s].failure \/ thr[s].queue = CallbackCapacity) \in BOOLEAN
      BY <2>13, <2>3 DEF Callback
    <3>4. [thr[s] EXCEPT !.delivered = @ + 1, !.queue = IF @ < CallbackCapacity THEN @ + 1 ELSE @,
                                !.failure = @ \/ thr[s].queue = CallbackCapacity] \in Thread
      BY <1>0, <3>2 DEF Thread
    <3>5. QED
      BY <2>0, <3>1, <3>4
  <2>4. CASE StreamError(s)
    <3>1. thr' = [thr EXCEPT ![s] = [thr[s] EXCEPT !.failure = TRUE]]
      BY <2>0, <2>4 DEF StreamError
    <3>2. [thr[s] EXCEPT !.failure = TRUE] \in Thread
      BY <1>0, <2>4 DEF StreamError, Thread
    <3>3. QED
      BY <2>0, <3>1, <3>2
  <2>5. CASE Receive(s)
    <3>1. thr' = [thr EXCEPT ![s] = [thr[s] EXCEPT !.pc = "flushing", !.queue = @ - 1, !.pending = @ + 1]]
      BY <2>0, <2>5 DEF Receive
    <3>2. /\ thr[s].queue - 1 \in 0..CallbackCapacity /\ thr[s].pending + 1 \in Nat
      BY <2>13, <2>5 DEF Receive
    <3>4. [thr[s] EXCEPT !.pc = "flushing", !.queue = @ - 1, !.pending = @ + 1] \in Thread
      BY <1>0, <3>2 DEF Thread
    <3>5. QED
      BY <2>0, <3>1, <3>4
  <2>6. CASE CallbackFailureSeen(s)
    <3>1. thr' = [thr EXCEPT ![s] = [thr[s] EXCEPT !.pc = "draining", !.failure = FALSE, !.error = TRUE]]
      BY <2>0, <2>6 DEF CallbackFailureSeen
    <3>2. [thr[s] EXCEPT !.pc = "draining", !.failure = FALSE, !.error = TRUE] \in Thread
      BY <1>0, <2>6 DEF CallbackFailureSeen, Thread
    <3>3. QED
      BY <2>0, <3>1, <3>2
  <2>7. CASE StopSeen(s)
    <3>1. thr' = [thr EXCEPT ![s] = [thr[s] EXCEPT !.pc = "draining"]]
      BY <2>0, <2>7 DEF StopSeen
    <3>2. [thr[s] EXCEPT !.pc = "draining"] \in Thread
      BY <1>0, <2>7 DEF StopSeen, Thread
    <3>3. QED
      BY <2>0, <3>1, <3>2
  <2>8. CASE FlushPending(s) /\ thr[s].pending < TargetBlocks
    <3>1. thr' = [thr EXCEPT ![s] = [thr[s] EXCEPT !.pc = "running"]]
      BY <2>0, <2>8 DEF FlushPending
    <3>2. [thr[s] EXCEPT !.pc = "running"] \in Thread
      BY <1>0, <2>8 DEF FlushPending, Thread
    <3>3. QED
      BY <2>0, <3>1, <3>2
  <2>9. CASE FlushPendingFails(s)
    <3>1. thr' = [thr EXCEPT ![s] = [thr[s] EXCEPT !.pc = "draining", !.pending = @ - TargetBlocks,
                                !.frames = @ + TargetBlocks, !.error = TRUE]]
      BY <2>0, <2>9 DEF FlushPendingFails
    <3>2. /\ thr[s].pending - TargetBlocks \in Nat /\ thr[s].frames + TargetBlocks \in Nat
      BY <2>13, <2>9 DEF FlushPendingFails
    <3>4. [thr[s] EXCEPT !.pc = "draining", !.pending = @ - TargetBlocks,
                                !.frames = @ + TargetBlocks, !.error = TRUE] \in Thread
      BY <1>0, <3>2 DEF Thread
    <3>5. QED
      BY <2>0, <3>1, <3>4
  <2>10. CASE Drain(s)
    <3>1. thr' = [thr EXCEPT ![s] = [thr[s] EXCEPT !.pc = "last_flush", !.pending = @ + thr[s].queue, !.queue = 0, !.failure = FALSE,
                                !.error = @ \/ thr[s].failure]]
      BY <2>0, <2>10 DEF Drain
    <3>2. /\ thr[s].pending + thr[s].queue \in Nat /\ 0 \in 0..CallbackCapacity
          /\ (thr[s].error \/ thr[s].failure) \in BOOLEAN
      BY <2>13, <2>10 DEF Drain
    <3>4. [thr[s] EXCEPT !.pc = "last_flush", !.pending = @ + thr[s].queue, !.queue = 0, !.failure = FALSE,
                                !.error = @ \/ thr[s].failure] \in Thread
      BY <1>0, <3>2 DEF Thread
    <3>5. QED
      BY <2>0, <3>1, <3>4
  <2>11. CASE FlushAll(s) /\ thr[s].pending = 0
    <3>1. thr' = [thr EXCEPT ![s] = [thr[s] EXCEPT !.pc = "done", !.pending = 0, !.frames = @ + thr[s].pending]]
      BY <2>0, <2>11 DEF FlushAll
    <3>2. /\ thr[s].frames + thr[s].pending \in Nat
      BY <2>13, <2>11 DEF FlushAll
    <3>4. [thr[s] EXCEPT !.pc = "done", !.pending = 0, !.frames = @ + thr[s].pending] \in Thread
      BY <1>0, <3>2 DEF Thread
    <3>5. QED
      BY <2>0, <3>1, <3>4
  <2>12. CASE FlushAllFails(s)
    <3>1. thr' = [thr EXCEPT ![s] = [thr[s] EXCEPT !.pc = "done", !.pending = 0, !.frames = @ + thr[s].pending]]
      BY <2>0, <2>12 DEF FlushAllFails
    <3>2. /\ thr[s].frames + thr[s].pending \in Nat
      BY <2>13, <2>12 DEF FlushAllFails
    <3>4. [thr[s] EXCEPT !.pc = "done", !.pending = 0, !.frames = @ + thr[s].pending] \in Thread
      BY <1>0, <3>2 DEF Thread
    <3>5. QED
      BY <2>0, <3>1, <3>4
  <2>14. QED
    BY <2>1, <2>2, <2>3, <2>4, <2>5, <2>6, <2>7, <2>8, <2>9, <2>10, <2>11, <2>12 DEF QuietThreadStep
<1>4. SessionInv' /\ ProbeInv' /\ session.recording # "none"
  BY <1>1, <1>2, <1>3, ThreadFrame
<1>5. ThreadInv(s)'
  <2>1. thr' \in [Sources -> Thread] /\ thr \in [Sources -> Thread] /\ thr'[s] \in Thread
    BY <1>0, <1>3 DEF CapType
  <2>2. CASE OpenStream(s) \/ StreamError(s) \/ StopSeen(s)
             \/ (FlushPending(s) /\ thr[s].pending < TargetBlocks)
    BY <1>0, <2>1, <2>2 DEF OpenStream, StreamError, StopSeen, FlushPending, ThreadInv, Thread, Live
  <2>3. CASE OpenFails(s) \/ FlushAllFails(s)
    <3>1. session'.lastError
      BY <1>0, <2>3 DEF OpenFails, FlushAllFails, ThreadEnds, Session
    <3>2. thr'[s].frames + thr'[s].pending + thr'[s].queue <= thr'[s].delivered
      <4>1. /\ thr[s].queue \in Nat /\ thr[s].pending \in Nat /\ thr[s].frames \in Nat
            /\ thr[s].delivered \in Nat
        BY <1>0 DEF Thread
      <4>2. /\ thr'[s].queue = thr[s].queue /\ thr'[s].delivered = thr[s].delivered
            /\ thr'[s].frames + thr'[s].pending = thr[s].frames + thr[s].pending
        <5>1. CASE OpenFails(s)
          BY <2>1, <4>1, <5>1 DEF OpenFails
        <5>2. CASE FlushAllFails(s)
          <6>1. /\ thr'[s].queue = thr[s].queue /\ thr'[s].delivered = thr[s].delivered
                /\ thr'[s].pending = 0 /\ thr'[s].frames = thr[s].frames + thr[s].pending
            BY <2>1, <5>2 DEF FlushAllFails
          <6>2. QED
            BY <4>1, <6>1
        <5>3. QED
          BY <2>3, <5>1, <5>2
      <4>3. QED
        BY <1>0, <4>1, <4>2 DEF ThreadInv
    <3>3. QED
      BY <3>1, <3>2 DEF ThreadInv
  <2>4. CASE Callback(s)
    BY <1>0, <2>1, <2>4 DEF Callback, ThreadInv, Thread, Live
  <2>5. CASE Receive(s)
    BY <1>0, <2>1, <2>5 DEF Receive, ThreadInv, Thread
  <2>6. CASE CallbackFailureSeen(s) \/ FlushPendingFails(s)
    BY <1>0, <2>1, <2>6 DEF CallbackFailureSeen, FlushPendingFails, ThreadInv, Thread
  <2>7. CASE Drain(s)
    BY <1>0, <2>1, <2>7 DEF Drain, ThreadInv, Thread
  <2>8. CASE FlushAll(s) /\ thr[s].pending = 0
    <3>1. /\ thr'[s].pc = "done" /\ thr'[s].pending = 0 /\ thr'[s].frames = thr[s].frames
          /\ thr'[s].queue = thr[s].queue /\ thr'[s].delivered = thr[s].delivered
          /\ (thr'[s].failure <=> thr[s].failure) /\ (thr'[s].error <=> thr[s].error)
      BY <1>0, <2>1, <2>8 DEF FlushAll, Thread
    <3>2. thr[s].error => session'.lastError
      BY <1>0, <2>8 DEF FlushAll, ThreadEnds, Session
    <3>3. thr[s].pc = "last_flush"
      BY <2>8 DEF FlushAll
    <3>4. QED
      BY <1>0, <1>2, <1>4, <2>8, <3>1, <3>2, <3>3 DEF ThreadInv
  <2>9. QED
    BY <2>2, <2>3, <2>4, <2>5, <2>6, <2>7, <2>8 DEF QuietThreadStep
<1>6. /\ thr[s].frames \in Nat /\ thr'[s].frames \in Nat /\ thr[s].frames <= thr'[s].frames
      /\ ~thr'[s].error /\ ~session'.lastError => ~thr[s].error /\ thr'[s].frames = thr[s].frames
  <2>1. thr' \in [Sources -> Thread] /\ thr \in [Sources -> Thread] /\ thr'[s] \in Thread
    BY <1>0, <1>3 DEF CapType
  <2>2. CASE FlushAllFails(s)
    <3>1. session'.lastError
      BY <1>0, <2>2 DEF FlushAllFails, ThreadEnds, Session
    <3>2. QED
      BY <1>0, <2>1, <2>2, <3>1 DEF FlushAllFails, Thread
  <2>3. CASE FlushPendingFails(s)
    BY <1>0, <2>1, <2>3 DEF FlushPendingFails, Thread
  <2>4. CASE FlushAll(s) /\ thr[s].pending = 0
    BY <1>0, <2>1, <2>4 DEF FlushAll, Thread
  <2>5. CASE Drain(s)
    BY <1>0, <2>1, <2>5 DEF Drain, Thread
  <2>6. CASE OpenStream(s) \/ OpenFails(s) \/ Callback(s) \/ StreamError(s) \/ Receive(s)
             \/ CallbackFailureSeen(s) \/ StopSeen(s) \/ (FlushPending(s) /\ thr[s].pending < TargetBlocks)
    BY <1>0, <2>1, <2>6 DEF OpenStream, OpenFails, Callback, StreamError, Receive, CallbackFailureSeen,
       StopSeen, FlushPending, Thread
  <2>7. QED
    BY <2>2, <2>3, <2>4, <2>5, <2>6 DEF QuietThreadStep
<1>7. ASSUME NEW o \in Sources PROVE ThreadInv(o)' /\ OrderInv(o)' /\ CoverInv(o)'
  <2>1. ThreadInv(o)'
    BY <1>0, <1>2, <1>3, <1>5, OtherThread
  <2>2. /\ thr[o].frames \in Nat /\ thr'[o].frames \in Nat /\ thr[o].frames <= thr'[o].frames
        /\ ~thr'[o].error /\ ~session'.lastError => ~thr[o].error /\ thr'[o].frames = thr[o].frames
    <3>1. CASE o = s
      BY <1>6, <3>1
    <3>2. CASE o # s
      <4>1. thr'[o] = thr[o] /\ thr[o].frames \in Nat
        BY <1>0, <1>3, <3>2 DEF CapType, Thread
      <4>2. QED
        BY <4>1
    <3>3. QED
      BY <3>1, <3>2
  <2>3. durable[o] \in Seq(ChunkRec) /\ writerq \in Seq(ChunkRec)
    BY <1>0 DEF CapType
  <2>4. QED
    BY <1>0, <1>1, <1>2, <2>1, <2>2, <2>3, NoChunk
<1>8. CapType'
  BY <1>0, <1>1, <1>2, <1>3 DEF CapType
<1>9. QED
  BY <1>4, <1>7, <1>8 DEF CapInv


-----------------------------------------------------------------------------
(* Chunks *)

\* A single source writes its chunk behind the stored ones.
LEMMA StoredChunk ==
    ASSUME NEW s \in Sources, NEW c \in ChunkRec, OrderInv(s), CoverInv(s),
           thr[s].frames \in Nat, durable \in [Sources -> Seq(ChunkRec)],
           writerq = <<>>, writerq' = writerq,
           durable' = [durable EXCEPT ![s] = Append(@, c)],
           c.start = thr[s].frames, thr'[s].frames = End(c),
           session'.recording = session.recording,
           ~thr'[s].error /\ ~session'.lastError => ~thr[s].error /\ ~session.lastError
    PROVE  OrderInv(s)' /\ CoverInv(s)'
<1> DEFINE D == durable[s]
<1>1. /\ durable'[s] = Append(D, c) /\ D \in Seq(ChunkRec) /\ Len(D) \in Nat
      /\ Len(durable'[s]) = Len(D) + 1
      /\ \A i \in 1..Len(D) : durable'[s][i] = D[i] /\ D[i] \in ChunkRec
      /\ durable'[s][Len(D) + 1] = c
  OBVIOUS
<1>2. /\ \A d \in ChunkRec : d.start \in Nat /\ End(d) \in Nat /\ d.start < End(d)
      /\ c.start \in Nat /\ End(c) \in Nat /\ c.start < End(c)
  BY DEF End, ChunkRec
<1>3. \A i \in 1..Len(D) : End(D[i]) <= thr[s].frames
  BY DEF OrderInv
<1>4. \A i \in 1..Len(durable'[s]) : i \in 1..Len(D) \/ i = Len(D) + 1
  BY <1>1
<1>5. OrderInv(s)'
  <2>1. \A i, j \in 1..Len(durable'[s]) : i < j => End(durable'[s][i]) <= durable'[s][j].start
    <3>1. SUFFICES ASSUME NEW i \in 1..Len(durable'[s]), NEW j \in 1..Len(durable'[s]), i < j
                   PROVE  End(durable'[s][i]) <= durable'[s][j].start
      OBVIOUS
    <3>2. i \in 1..Len(D)
      BY <1>1, <3>1
    <3>3. CASE j \in 1..Len(D)
      BY <1>1, <3>1, <3>2, <3>3 DEF OrderInv
    <3>4. CASE j = Len(D) + 1
      BY <1>1, <1>3, <3>2, <3>4
    <3>5. QED
      BY <1>4, <3>3, <3>4
  <2>2. \A i \in 1..Len(durable'[s]) : End(durable'[s][i]) <= thr'[s].frames
    <3>1. SUFFICES ASSUME NEW i \in 1..Len(durable'[s])
                   PROVE  End(durable'[s][i]) <= thr'[s].frames
      OBVIOUS
    <3>2. CASE i \in 1..Len(D)
      <4>1. /\ End(D[i]) <= thr[s].frames /\ thr[s].frames <= End(c)
            /\ End(D[i]) \in Nat /\ durable'[s][i] = D[i]
        BY <1>1, <1>2, <1>3, <3>2
      <4>2. QED
        BY <1>2, <4>1
    <3>3. CASE i = Len(D) + 1
      BY <1>1, <1>2, <3>3
    <3>4. QED
      BY <1>4, <3>2, <3>3
  <2>3. 1..Len(writerq') = {}
    BY SMT
  <2>4. QED
    BY <2>1, <2>2, <2>3 DEF OrderInv
<1>6. CoverInv(s)'
  <2>1. SUFFICES ASSUME session'.recording # "none", ~thr'[s].error, ~session'.lastError,
                        NEW b \in 0..(thr'[s].frames - 1)
                 PROVE  \E i \in 1..Len(durable'[s]) : Holds(durable'[s][i], b)
    BY DEF CoverInv, Kept
  <2>2. CASE b \in 0..(thr[s].frames - 1)
    <3>1. PICK i \in 1..Len(D) : Holds(D[i], b)
      BY <2>1, <2>2 DEF CoverInv, Kept
    <3>2. i \in 1..Len(durable'[s]) /\ durable'[s][i] = D[i]
      BY <1>1
    <3>3. QED
      BY <3>1, <3>2
  <2>3. CASE ~(b \in 0..(thr[s].frames - 1))
    <3>1. Holds(c, b)
      BY <1>2, <2>3 DEF Holds
    <3>2. Len(D) + 1 \in 1..Len(durable'[s])
      BY <1>1
    <3>3. QED
      BY <1>1, <3>1, <3>2
  <2>4. QED
    BY <2>2, <2>3
<1>7. QED
  BY <1>5, <1>6

\* A source of a combined session queues its chunk for the writer.
LEMMA QueuedChunk ==
    ASSUME NEW o \in Sources, NEW c \in ChunkRec, OrderInv(o), CoverInv(o),
           thr[o].frames \in Nat, durable \in [Sources -> Seq(ChunkRec)], writerq \in Seq(ChunkRec),
           durable' = durable, writerq' = Append(writerq, c),
           c.source = o => c.start = thr[o].frames /\ thr'[o].frames = End(c),
           c.source # o => thr'[o].frames = thr[o].frames,
           session'.recording = session.recording,
           ~thr'[o].error /\ ~session'.lastError => ~thr[o].error /\ ~session.lastError
    PROVE  OrderInv(o)' /\ CoverInv(o)'
<1> DEFINE D == durable[o]
<1> DEFINE n == Len(writerq)
<1>1. /\ D \in Seq(ChunkRec) /\ n \in Nat /\ Len(writerq') = n + 1
      /\ \A i \in 1..n : writerq'[i] = writerq[i] /\ writerq[i] \in ChunkRec
      /\ \A i \in 1..Len(D) : D[i] \in ChunkRec
      /\ writerq'[n + 1] = c
  OBVIOUS
<1>2. /\ \A d \in ChunkRec : d.start \in Nat /\ End(d) \in Nat /\ d.start < End(d)
      /\ c.start \in Nat /\ End(c) \in Nat /\ c.start < End(c)
  BY DEF End, ChunkRec
<1>3. \A i \in 1..Len(writerq') : i \in 1..n \/ i = n + 1
  BY <1>1
<1>4. thr'[o].frames \in Nat /\ thr[o].frames <= thr'[o].frames
  BY <1>2
<1>5. OrderInv(o)'
  <2>1. \A i, j \in 1..Len(writerq') :
           i < j /\ writerq'[i].source = o /\ writerq'[j].source = o =>
             End(writerq'[i]) <= writerq'[j].start
    <3>1. SUFFICES ASSUME NEW i \in 1..Len(writerq'), NEW j \in 1..Len(writerq'), i < j,
                          writerq'[i].source = o, writerq'[j].source = o
                   PROVE  End(writerq'[i]) <= writerq'[j].start
      OBVIOUS
    <3>2. i \in 1..n
      BY <1>1, <3>1
    <3>3. CASE j \in 1..n
      BY <1>1, <3>1, <3>2, <3>3 DEF OrderInv
    <3>4. CASE j = n + 1
      BY <1>1, <3>1, <3>2, <3>4 DEF OrderInv
    <3>5. QED
      BY <1>3, <3>3, <3>4
  <2>2. \A i \in 1..Len(D), j \in 1..Len(writerq') :
           writerq'[j].source = o => End(D[i]) <= writerq'[j].start
    <3>1. SUFFICES ASSUME NEW i \in 1..Len(D), NEW j \in 1..Len(writerq'), writerq'[j].source = o
                   PROVE  End(D[i]) <= writerq'[j].start
      OBVIOUS
    <3>2. CASE j \in 1..n
      BY <1>1, <3>1, <3>2 DEF OrderInv
    <3>3. CASE j = n + 1
      BY <1>1, <3>1, <3>3 DEF OrderInv
    <3>4. QED
      BY <1>3, <3>2, <3>3
  <2>3. \A i \in 1..Len(D) : End(D[i]) <= thr'[o].frames
    <3>1. \A i \in 1..Len(D) : End(D[i]) <= thr[o].frames /\ End(D[i]) \in Nat
      BY <1>1, <1>2 DEF OrderInv
    <3>2. QED
      BY <1>4, <3>1
  <2>4. \A i \in 1..Len(writerq') : writerq'[i].source = o => End(writerq'[i]) <= thr'[o].frames
    <3>1. SUFFICES ASSUME NEW i \in 1..Len(writerq'), writerq'[i].source = o
                   PROVE  End(writerq'[i]) <= thr'[o].frames
      OBVIOUS
    <3>2. CASE i \in 1..n
      <4>1. End(writerq'[i]) <= thr[o].frames /\ End(writerq'[i]) \in Nat
        BY <1>1, <1>2, <3>1, <3>2 DEF OrderInv
      <4>2. QED
        BY <1>4, <4>1
    <3>3. CASE i = n + 1
      BY <1>1, <1>2, <3>1, <3>3
    <3>4. QED
      BY <1>3, <3>2, <3>3
  <2>5. QED
    BY <2>1, <2>2, <2>3, <2>4 DEF OrderInv
<1>6. CoverInv(o)'
  <2>1. SUFFICES ASSUME session'.recording # "none", ~thr'[o].error, ~session'.lastError,
                        NEW b \in 0..(thr'[o].frames - 1)
                 PROVE  \/ \E i \in 1..Len(D) : Holds(D[i], b)
                        \/ \E i \in 1..Len(writerq') : writerq'[i].source = o /\ Holds(writerq'[i], b)
    BY DEF CoverInv, Kept
  <2>2. CASE b \in 0..(thr[o].frames - 1)
    <3>1. \/ \E i \in 1..Len(D) : Holds(D[i], b)
          \/ \E i \in 1..n : writerq[i].source = o /\ Holds(writerq[i], b)
      BY <2>1, <2>2 DEF CoverInv, Kept
    <3>2. 1..n \subseteq 1..Len(writerq')
      BY <1>1
    <3>3. QED
      BY <1>1, <3>1, <3>2
  <2>3. CASE ~(b \in 0..(thr[o].frames - 1))
    <3>1. c.source = o /\ Holds(c, b)
      BY <1>2, <2>3 DEF Holds
    <3>2. n + 1 \in 1..Len(writerq')
      BY <1>1
    <3>3. QED
      BY <1>1, <3>1, <3>2
  <2>4. QED
    BY <2>2, <2>3
<1>7. QED
  BY <1>5, <1>6

\* A thread hands on n blocks.
LEMMA ChunkThread ==
    ASSUME CapInv, NEW s \in Sources, NEW n \in Nat \ {0},
           thr[s].pc \in {"flushing", "last_flush"}, SinkReady, Send(s, n),
           thr' \in [Sources -> Thread],
           \A o \in Sources : o # s => thr'[o] = thr[o],
           UNCHANGED <<loop, writer, probe>>,
           session' \in Session,
           session'.sources = session.sources, session'.recording = session.recording,
           session'.verdict = session.verdict, session.lastError => session'.lastError,
           thr'[s].frames = thr[s].frames + n, thr'[s].pending = thr[s].pending - n,
           thr'[s].queue = thr[s].queue, thr'[s].delivered = thr[s].delivered,
           thr'[s].failure <=> thr[s].failure,
           thr[s].error => thr'[s].error,
           SinkFails => thr'[s].error \/ session'.lastError,
           thr'[s].pc \in {"last_flush", "done"} =>
             /\ thr[s].pc = "last_flush" /\ thr'[s].pc = "done" /\ thr'[s].pending = 0
             /\ thr'[s].error => session'.lastError
    PROVE  CapInv'
<1> USE CaptureAssumption
<1>0. /\ CapType /\ SessionInv
      /\ \A o \in Sources : ThreadInv(o) /\ OrderInv(o) /\ CoverInv(o)
  BY DEF CapInv
<1>1. /\ \A o \in Sources : /\ thr[o].frames \in Nat /\ thr[o].pending \in Nat
                            /\ thr[o].queue \in Nat /\ thr[o].delivered \in Nat
      /\ writerq \in Seq(ChunkRec) /\ durable \in [Sources -> Seq(ChunkRec)]
      /\ Len(writerq) <= WriterCapacity
  BY <1>0 DEF CapType, Thread
<1>2. ~Asleep(s)
  BY DEF Asleep
<1>3. PICK c : c = Chunk(s, n)
  OBVIOUS
<1>4. c \in ChunkRec /\ c.source = s /\ c.start = thr[s].frames /\ End(c) = thr[s].frames + n
  BY <1>1, <1>3 DEF Chunk, ChunkRec, End
<1>5. writer # "running" => writerq = <<>>
  BY <1>0 DEF SessionInv
<1>6. Queued <=> writer # "off"
  BY <1>0, <1>2 DEF SessionInv, AllAsleep
<1>7. writer \in {"off", "running", "done"}
  BY <1>0 DEF CapType
<1>8. \/ /\ SinkFails /\ UNCHANGED <<writerq, durable>>
      \/ /\ ~SinkFails /\ writer = "running" /\ Len(writerq) < WriterCapacity
         /\ writerq' = Append(writerq, c) /\ durable' = durable
      \/ /\ ~SinkFails /\ writerq = <<>> /\ writerq' = writerq
         /\ durable' = [durable EXCEPT ![s] = Append(@, c)]
  BY <1>3, <1>5, <1>6, <1>7 DEF Send, SinkFails, SinkReady
<1>9. SessionInv' /\ ProbeInv' /\ session.recording # "none"
  BY <1>2, <1>8, ThreadFrame
<1>10. ThreadInv(s)'
  <2>1. ThreadInv(s)
    BY <1>0
  <2>2. thr'[s].frames + thr'[s].pending = thr[s].frames + thr[s].pending
    BY <1>1
  <2>3. thr'[s].pc \in {"last_flush", "done"} =>
          session'.lastError \/ (thr'[s].queue = 0 /\ ~thr'[s].failure)
    BY <1>9, <2>1 DEF ThreadInv
  <2>4. QED
    BY <1>9, <2>1, <2>2, <2>3 DEF ThreadInv
<1>11. ASSUME NEW o \in Sources PROVE ThreadInv(o)' /\ OrderInv(o)' /\ CoverInv(o)'
  <2>1. ThreadInv(o)'
    BY <1>0, <1>10, OtherThread
  <2>2. /\ thr'[o].frames \in Nat /\ thr[o].frames <= thr'[o].frames
        /\ thr[o].error => thr'[o].error
        /\ o # s => thr'[o].frames = thr[o].frames
    BY <1>1
  <2>3. CASE SinkFails /\ UNCHANGED <<writerq, durable>>
    <3>1. /\ durable[o] \in Seq(ChunkRec)
          /\ ~thr'[o].error /\ ~session'.lastError => thr'[o].frames = thr[o].frames
      BY <1>1, <2>2, <2>3
    <3>2. OrderInv(o)' /\ CoverInv(o)'
      BY <1>0, <1>1, <2>2, <2>3, <3>1, NoChunk
    <3>3. QED
      BY <2>1, <3>2
  <2>4. CASE writerq' = Append(writerq, c) /\ durable' = durable
    <3>1. OrderInv(o)' /\ CoverInv(o)'
      BY <1>0, <1>1, <1>4, <2>2, <2>4, QueuedChunk
    <3>2. QED
      BY <2>1, <3>1
  <2>5. CASE writerq = <<>> /\ writerq' = writerq /\ durable' = [durable EXCEPT ![s] = Append(@, c)]
    <3>1. CASE o = s
      <4>1. OrderInv(s)' /\ CoverInv(s)'
        BY <1>0, <1>1, <1>4, <2>2, <2>5, <3>1, StoredChunk
      <4>2. QED
        BY <2>1, <3>1, <4>1
    <3>2. CASE o # s
      <4>1. durable'[o] = durable[o] /\ thr'[o] = thr[o] /\ writerq' = writerq
        BY <1>1, <2>5, <3>2
      <4>2. OrderInv(o)'
        BY <1>0, <4>1 DEF OrderInv
      <4>3. CoverInv(o)'
        BY <1>0, <4>1 DEF CoverInv, Kept
      <4>4. QED
        BY <2>1, <4>2, <4>3
    <3>3. QED
      BY <3>1, <3>2
  <2>6. QED
    BY <1>8, <2>3, <2>4, <2>5
<1>12. CapType'
  <2>1. /\ writerq' \in Seq(ChunkRec) /\ Len(writerq') <= WriterCapacity
        /\ durable' \in [Sources -> Seq(ChunkRec)]
    <3>1. CASE UNCHANGED <<writerq, durable>>
      BY <1>1, <3>1
    <3>2. CASE Len(writerq) < WriterCapacity /\ writerq' = Append(writerq, c) /\ durable' = durable
      BY <1>1, <1>4, <3>2
    <3>3. CASE writerq' = writerq /\ durable' = [durable EXCEPT ![s] = Append(@, c)]
      BY <1>1, <1>4, <3>3
    <3>4. QED
      BY <1>8, <3>1, <3>2, <3>3
  <2>2. QED
    BY <1>0, <2>1 DEF CapType
<1>13. QED
  BY <1>9, <1>11, <1>12 DEF CapInv

LEMMA FullChunk ==
    ASSUME CapInv, NEW s \in Sources, FlushPending(s), ~(thr[s].pending < TargetBlocks)
    PROVE  CapInv'
<1> USE CaptureAssumption
<1>0. thr \in [Sources -> Thread] /\ session \in Session
  BY DEF CapInv, CapType
<1>1. /\ thr[s].pending \in Nat /\ thr[s].frames \in Nat /\ thr[s].error \in BOOLEAN
      /\ TargetBlocks \in Nat \ {0} /\ SinkFails \in BOOLEAN
  BY <1>0 DEF Thread, SinkFails
<1>2. PICK p : p = IF SinkFails THEN "draining" ELSE "running"
  OBVIOUS
<1>3. PICK e \in BOOLEAN : e <=> (thr[s].error \/ SinkFails)
  BY <1>1
<1>4. e = (thr[s].error \/ SinkFails)
  BY <1>1, <1>3
<1>5. thr' = [thr EXCEPT ![s] = [thr[s] EXCEPT !.pc = p, !.pending = @ - TargetBlocks,
                                               !.frames = @ + TargetBlocks, !.error = e]]
  BY <1>0, <1>2, <1>4 DEF FlushPending
<1>6. p \in {"draining", "running"} /\ thr[s].pending - TargetBlocks \in Nat /\ thr[s].frames + TargetBlocks \in Nat
  BY <1>1, <1>2
<1>7. [thr[s] EXCEPT !.pc = p, !.pending = @ - TargetBlocks,
                     !.frames = @ + TargetBlocks, !.error = e] \in Thread
  BY <1>0, <1>3, <1>6 DEF Thread
<1>8. /\ thr' \in [Sources -> Thread] /\ \A o \in Sources : o # s => thr'[o] = thr[o]
      /\ thr'[s].pc = p /\ thr'[s].pending = thr[s].pending - TargetBlocks
      /\ thr'[s].frames = thr[s].frames + TargetBlocks
      /\ thr'[s].queue = thr[s].queue /\ thr'[s].delivered = thr[s].delivered
  BY <1>0, <1>5, <1>7 DEF Thread
<1>9. (thr'[s].failure <=> thr[s].failure) /\ (thr'[s].error <=> e)
  BY <1>0, <1>5 DEF Thread
<1>10. /\ thr[s].pc = "flushing" /\ SinkReady /\ Send(s, TargetBlocks)
       /\ UNCHANGED <<loop, session, writer, probe>>
  BY DEF FlushPending
<1>11. QED
  BY <1>0, <1>1, <1>3, <1>6, <1>8, <1>9, <1>10, ChunkThread

LEMMA LastChunk ==
    ASSUME CapInv, NEW s \in Sources, FlushAll(s), ~(thr[s].pending = 0)
    PROVE  CapInv'
<1> USE CaptureAssumption
<1>0. thr \in [Sources -> Thread] /\ session \in Session
  BY DEF CapInv, CapType
<1>1. /\ thr[s].pending \in Nat \ {0} /\ thr[s].frames \in Nat /\ thr[s].error \in BOOLEAN
      /\ SinkFails \in BOOLEAN
  BY <1>0 DEF Thread, SinkFails
<1>2. thr' = [thr EXCEPT ![s] = [thr[s] EXCEPT !.pc = "done", !.pending = 0,
                                               !.frames = @ + thr[s].pending]]
  BY <1>0 DEF FlushAll
<1>3. thr[s].frames + thr[s].pending \in Nat
  BY <1>1
<1>4. [thr[s] EXCEPT !.pc = "done", !.pending = 0, !.frames = @ + thr[s].pending] \in Thread
  BY <1>0, <1>3 DEF Thread
<1>5. /\ thr' \in [Sources -> Thread] /\ \A o \in Sources : o # s => thr'[o] = thr[o]
      /\ thr'[s].pc = "done" /\ thr'[s].pending = 0
      /\ thr'[s].frames = thr[s].frames + thr[s].pending
      /\ thr'[s].queue = thr[s].queue /\ thr'[s].delivered = thr[s].delivered
  BY <1>0, <1>2, <1>4 DEF Thread
<1>6. (thr'[s].failure <=> thr[s].failure) /\ (thr'[s].error <=> thr[s].error)
  BY <1>0, <1>2 DEF Thread
<1>7. /\ thr[s].pc = "last_flush" /\ SinkReady /\ Send(s, thr[s].pending)
      /\ UNCHANGED <<loop, writer, probe>> /\ ThreadEnds(s, thr[s].error \/ SinkFails)
  BY <1>1 DEF FlushAll
<1>8. /\ session' \in Session
      /\ session'.sources = session.sources /\ session'.recording = session.recording
      /\ session'.verdict = session.verdict
  BY <1>0, <1>1, <1>7 DEF ThreadEnds, Session
<1>9. session'.lastError <=> (session.lastError \/ thr[s].error \/ SinkFails)
  BY <1>0, <1>1, <1>7 DEF ThreadEnds, Session
<1>10. thr'[s].pending = thr[s].pending - thr[s].pending
  BY <1>1, <1>5
<1>11. QED
  BY <1>0, <1>1, <1>5, <1>6, <1>7, <1>8, <1>9, <1>10, ChunkThread

LEMMA ThreadSteps ==
    ASSUME CapInv, NEW s \in Sources,
           \/ ThreadStep(s) \/ Callback(s) \/ StreamError(s)
           \/ OpenFails(s) \/ FlushPendingFails(s) \/ FlushAllFails(s)
    PROVE  CapInv'
<1>1. CASE FlushPending(s) /\ ~(thr[s].pending < TargetBlocks)
  BY <1>1, FullChunk
<1>2. CASE FlushAll(s) /\ ~(thr[s].pending = 0)
  BY <1>2, LastChunk
<1>3. CASE QuietThreadStep(s)
  BY <1>3, QuietThread
<1>4. QED
  BY <1>1, <1>2, <1>3 DEF ThreadStep, QuietThreadStep

-----------------------------------------------------------------------------
(* The writer *)

LEMMA Written ==
    ASSUME CapInv, WriteQueued
    PROVE  CapInv'
<1> USE CaptureAssumption
<1>0. /\ CapType /\ SessionInv /\ ProbeInv
      /\ \A o \in Sources : ThreadInv(o) /\ OrderInv(o) /\ CoverInv(o)
  BY DEF CapInv
<1>1. /\ writerq \in Seq(ChunkRec) /\ durable \in [Sources -> Seq(ChunkRec)]
      /\ Len(writerq) <= WriterCapacity
      /\ UNCHANGED <<loop, session, thr, writer, probe>> /\ writer = "running"
  BY <1>0 DEF CapType, WriteQueued
<1>2. PICK c : c = writerq[1]
  OBVIOUS
<1>3. PICK n : n = Len(writerq) - 1
  OBVIOUS
<1>4. /\ c \in ChunkRec /\ n \in Nat /\ Len(writerq) = n + 1 /\ writerq' = Tail(writerq)
      /\ durable' = [durable EXCEPT ![c.source] = Append(@, c)]
  <2>1. Head(writerq) = c /\ c \in ChunkRec /\ Len(writerq) \in Nat \ {0}
    BY <1>1, <1>2 DEF WriteQueued
  <2>2. n \in Nat /\ Len(writerq) = n + 1
    BY <1>3, <2>1
  <2>3. durable' = [durable EXCEPT ![c.source] = Append(@, c)] /\ writerq' = Tail(writerq)
    BY <2>1, Zenon DEF WriteQueued
  <2>4. QED
    BY <2>1, <2>2, <2>3
<1>5. /\ Len(writerq') = n /\ writerq' \in Seq(ChunkRec)
      /\ \A i \in 1..n : writerq'[i] = writerq[i + 1] /\ i + 1 \in 1..Len(writerq)
  BY <1>1, <1>4
<1>6. c.source \in Sources
  BY <1>4 DEF ChunkRec
<1>7. CapType'
  <2>1. durable' \in [Sources -> Seq(ChunkRec)]
    BY <1>1, <1>4, <1>6
  <2>2. Len(writerq') <= WriterCapacity
    BY <1>1, <1>4, <1>5
  <2>3. QED
    BY <1>0, <1>1, <1>5, <2>1, <2>2 DEF CapType
<1>8. SessionInv'
  BY <1>0, <1>1 DEF SessionInv, AllAsleep, Asleep, Queued
<1>9. ProbeInv'
  BY <1>0, <1>1 DEF ProbeInv, AllAsleep, Asleep
<1>10. ASSUME NEW o \in Sources PROVE ThreadInv(o)' /\ OrderInv(o)' /\ CoverInv(o)'
  <2>1. ThreadInv(o)'
    BY <1>0, <1>1 DEF ThreadInv
  <2>2. OrderInv(o) /\ CoverInv(o)
    BY <1>0
  <2>3. CASE c.source # o
    <3>1. durable'[o] = durable[o]
      BY <1>1, <1>4, <2>3
    <3>2. OrderInv(o)'
      <4>1. \A i, j \in 1..Len(writerq') :
               i < j /\ writerq'[i].source = o /\ writerq'[j].source = o =>
                 End(writerq'[i]) <= writerq'[j].start
        <5>1. SUFFICES ASSUME NEW i \in 1..n, NEW j \in 1..n, i < j,
                              writerq[i + 1].source = o, writerq[j + 1].source = o
                       PROVE  End(writerq[i + 1]) <= writerq[j + 1].start
          BY <1>5
        <5>2. i + 1 \in 1..Len(writerq) /\ j + 1 \in 1..Len(writerq) /\ i + 1 < j + 1
          BY <1>4, <1>5, <5>1
        <5>3. QED
          BY <2>2, <5>1, <5>2 DEF OrderInv
      <4>2. \A i \in 1..Len(durable[o]), j \in 1..Len(writerq') :
               writerq'[j].source = o => End(durable[o][i]) <= writerq'[j].start
        BY <1>5, <2>2 DEF OrderInv
      <4>3. \A i \in 1..Len(writerq') : writerq'[i].source = o => End(writerq'[i]) <= thr[o].frames
        BY <1>5, <2>2 DEF OrderInv
      <4>4. QED
        BY <1>1, <2>2, <3>1, <4>1, <4>2, <4>3 DEF OrderInv
    <3>3. CoverInv(o)'
      <4>1. SUFFICES ASSUME session.recording # "none", ~thr[o].error, ~session.lastError,
                            NEW b \in 0..(thr[o].frames - 1)
                     PROVE  \/ \E i \in 1..Len(durable[o]) : Holds(durable[o][i], b)
                            \/ \E i \in 1..n : writerq'[i].source = o /\ Holds(writerq'[i], b)
        BY <1>1, <1>5, <3>1 DEF CoverInv, Kept
      <4>2. CASE \E i \in 1..Len(durable[o]) : Holds(durable[o][i], b)
        BY <4>2
      <4>3. CASE \E i \in 1..Len(writerq) : writerq[i].source = o /\ Holds(writerq[i], b)
        <5>1. PICK i \in 1..Len(writerq) : writerq[i].source = o /\ Holds(writerq[i], b)
          BY <4>3
        <5>2. i # 1
          BY <1>2, <2>3, <5>1
        <5>3. i - 1 \in 1..n /\ (i - 1) + 1 = i
          BY <1>4, <5>2
        <5>4. writerq'[i - 1] = writerq[i]
          BY <1>5, <5>3
        <5>5. QED
          BY <5>1, <5>3, <5>4
      <4>4. QED
        BY <2>2, <4>1, <4>2, <4>3 DEF CoverInv, Kept
    <3>4. QED
      BY <2>1, <3>2, <3>3
  <2>4. CASE c.source = o
    <3> DEFINE D == durable[o]
    <3>1. /\ D \in Seq(ChunkRec) /\ Len(D) \in Nat /\ durable'[o] = Append(D, c)
          /\ Len(durable'[o]) = Len(D) + 1
          /\ \A i \in 1..Len(D) : durable'[o][i] = D[i]
          /\ durable'[o][Len(D) + 1] = c
      BY <1>1, <1>4, <2>4
    <3>2. \A i \in 1..Len(durable'[o]) : i \in 1..Len(D) \/ i = Len(D) + 1
      BY <3>1
    <3>3. 1 \in 1..Len(writerq) /\ writerq[1] = c
      BY <1>2, <1>4
    <3>4. \A j \in 1..n : /\ j + 1 \in 1..Len(writerq) /\ 1 < j + 1 /\ writerq'[j] = writerq[j + 1]
      BY <1>4, <1>5
    <3> HIDE DEF D
    <3>5. OrderInv(o)'
      <4>1. \A i, j \in 1..Len(durable'[o]) : i < j => End(durable'[o][i]) <= durable'[o][j].start
        <5>1. SUFFICES ASSUME NEW i \in 1..Len(durable'[o]), NEW j \in 1..Len(durable'[o]), i < j
                       PROVE  End(durable'[o][i]) <= durable'[o][j].start
          OBVIOUS
        <5>2. i \in 1..Len(D)
          BY <3>1, <5>1
        <5>3. CASE j \in 1..Len(D)
          BY <2>2, <3>1, <5>1, <5>2, <5>3 DEF OrderInv, D
        <5>4. CASE j = Len(D) + 1
          BY <2>2, <2>4, <3>1, <3>3, <5>2, <5>4 DEF OrderInv, D
        <5>5. QED
          BY <3>2, <5>3, <5>4
      <4>2. \A i, j \in 1..Len(writerq') :
               i < j /\ writerq'[i].source = o /\ writerq'[j].source = o =>
                 End(writerq'[i]) <= writerq'[j].start
        <5>1. SUFFICES ASSUME NEW i \in 1..n, NEW j \in 1..n, i < j,
                              writerq[i + 1].source = o, writerq[j + 1].source = o
                       PROVE  End(writerq[i + 1]) <= writerq[j + 1].start
          BY <1>5
        <5>2. i + 1 \in 1..Len(writerq) /\ j + 1 \in 1..Len(writerq) /\ i + 1 < j + 1
          BY <1>4, <1>5, <5>1
        <5>3. QED
          BY <2>2, <5>1, <5>2 DEF OrderInv
      <4>3. \A i \in 1..Len(durable'[o]), j \in 1..Len(writerq') :
               writerq'[j].source = o => End(durable'[o][i]) <= writerq'[j].start
        <5>1. SUFFICES ASSUME NEW i \in 1..Len(durable'[o]), NEW j \in 1..n, writerq[j + 1].source = o
                       PROVE  End(durable'[o][i]) <= writerq[j + 1].start
          BY <1>5
        <5>2. CASE i \in 1..Len(D)
          BY <2>2, <3>1, <3>4, <5>1, <5>2 DEF OrderInv, D
        <5>3. CASE i = Len(D) + 1
          BY <2>2, <2>4, <3>1, <3>3, <3>4, <5>1, <5>3 DEF OrderInv
        <5>4. QED
          BY <3>2, <5>2, <5>3
      <4>4. \A i \in 1..Len(durable'[o]) : End(durable'[o][i]) <= thr[o].frames
        BY <2>2, <2>4, <3>1, <3>2, <3>3 DEF OrderInv, D
      <4>5. \A i \in 1..Len(writerq') : writerq'[i].source = o => End(writerq'[i]) <= thr[o].frames
        BY <1>5, <2>2 DEF OrderInv
      <4>6. QED
        BY <1>1, <4>1, <4>2, <4>3, <4>4, <4>5 DEF OrderInv
    <3>6. CoverInv(o)'
      <4>1. SUFFICES ASSUME session.recording # "none", ~thr[o].error, ~session.lastError,
                            NEW b \in 0..(thr[o].frames - 1)
                     PROVE  \/ \E i \in 1..Len(durable'[o]) : Holds(durable'[o][i], b)
                            \/ \E i \in 1..n : writerq'[i].source = o /\ Holds(writerq'[i], b)
        BY <1>1, <1>5 DEF CoverInv, Kept
      <4>2. CASE \E i \in 1..Len(D) : Holds(D[i], b)
        <5>1. PICK i \in 1..Len(D) : Holds(D[i], b)
          BY <4>2
        <5>2. i \in 1..Len(durable'[o]) /\ durable'[o][i] = D[i]
          BY <3>1
        <5>3. QED
          BY <5>1, <5>2
      <4>3. CASE \E i \in 1..Len(writerq) : writerq[i].source = o /\ Holds(writerq[i], b)
        <5>1. PICK i \in 1..Len(writerq) : writerq[i].source = o /\ Holds(writerq[i], b)
          BY <4>3
        <5>2. CASE i = 1
          <6>1. Len(D) + 1 \in 1..Len(durable'[o])
            BY <3>1
          <6>2. QED
            BY <3>1, <3>3, <5>1, <5>2, <6>1
        <5>3. CASE i # 1
          <6>1. i - 1 \in 1..n /\ (i - 1) + 1 = i
            BY <1>4, <5>3
          <6>2. writerq'[i - 1] = writerq[i]
            BY <1>5, <6>1
          <6>3. QED
            BY <5>1, <6>1, <6>2
        <5>4. QED
          BY <5>2, <5>3
      <4>4. QED
        BY <2>2, <4>1, <4>2, <4>3 DEF CoverInv, Kept, D
    <3>7. QED
      BY <2>1, <3>5, <3>6
  <2>5. QED
    BY <2>3, <2>4
<1>11. QED
  BY <1>7, <1>8, <1>9, <1>10 DEF CapInv

\* The writer gives up, or ends when there is nothing left to write.
LEMMA WriterStops ==
    ASSUME CapInv, WriteQueuedFails \/ WriterEnds
    PROVE  CapInv'
<1>0. /\ CapType /\ SessionInv /\ ProbeInv /\ session \in Session
      /\ \A o \in Sources : ThreadInv(o) /\ OrderInv(o) /\ CoverInv(o)
  BY DEF CapInv, CapType
<1>1. /\ UNCHANGED <<loop, thr, durable, probe>> /\ writer = "running"
      /\ writer' = "done" /\ writerq' = <<>>
      /\ \/ session' = [session EXCEPT !.lastError = TRUE]
         \/ session' = session /\ writerq = <<>>
  BY DEF WriteQueuedFails, WriterEnds
<1>2. /\ session' \in Session /\ session'.sources = session.sources
      /\ session'.recording = session.recording /\ session'.verdict = session.verdict
      /\ session'.lastError \/ (session' = session /\ writerq = <<>>)
      /\ session.lastError => session'.lastError
  BY <1>0, <1>1 DEF Session
<1>3. CapType'
  <2>1. writerq' \in Seq(ChunkRec) /\ Len(writerq') <= WriterCapacity
    BY <1>1, CaptureAssumption
  <2>2. QED
    BY <1>0, <1>1, <1>2, <2>1 DEF CapType
<1>4. session.verdict # "verified" \/ session'.lastError \/ session' = session
  BY <1>2
<1>5. SessionInv'
  <2>1. (AllAsleep' <=> AllAsleep) /\ \A s \in Sources : Asleep(s)' <=> Asleep(s)
    BY <1>1 DEF AllAsleep, Asleep
  <2>2. Queued' <=> Queued
    BY <1>2 DEF Queued
  <2>3. session'.verdict = "verified" => loop \in {"starting", "aborting", "stopping"}
    BY <1>0, <1>1, <1>2 DEF SessionInv, CapType, Loops
  <2>4. session'.verdict # "verified"
    BY <1>0, <1>1, <1>2, <2>3 DEF SessionInv
  <2>5. QED
    BY <1>0, <1>1, <1>2, <2>1, <2>2, <2>4 DEF SessionInv
<1>6. ProbeInv'
  BY <1>0, <1>1 DEF ProbeInv, AllAsleep, Asleep
<1>7. ASSUME NEW o \in Sources PROVE ThreadInv(o)' /\ OrderInv(o)' /\ CoverInv(o)'
  <2>1. ThreadInv(o)'
    BY <1>0, <1>1, <1>2, OtherThread
  <2>2. 1..Len(writerq') = {}
    BY <1>1, SMT
  <2>3. OrderInv(o)'
    BY <1>0, <1>1, <2>2 DEF OrderInv
  <2>4. CoverInv(o)'
    BY <1>0, <1>1, <1>2 DEF CoverInv, Kept
  <2>5. QED
    BY <2>1, <2>3, <2>4
<1>8. QED
  BY <1>3, <1>5, <1>6, <1>7 DEF CapInv

-----------------------------------------------------------------------------
(* The request loop *)

\* A request that only decides about the session.
LEMMA SessionFrame ==
    ASSUME CapInv, UNCHANGED <<thr, writer, writerq, durable, probe>>,
           loop # "testing", loop' \in Loops \ {"testing"},
           session' \in Session, session'.sources = session.sources,
           session.recording # "none", session'.recording # "none",
           session'.lastError <=> session.lastError,
           SessionInv'
    PROVE  CapInv'
<1>0. /\ CapType /\ ProbeInv
      /\ \A o \in Sources : ThreadInv(o) /\ OrderInv(o) /\ CoverInv(o)
  BY DEF CapInv
<1>1. CapType'
  BY <1>0 DEF CapType
<1>2. ProbeInv'
  BY <1>0 DEF ProbeInv, AllAsleep, Asleep
<1>3. ASSUME NEW o \in Sources PROVE ThreadInv(o)' /\ OrderInv(o)' /\ CoverInv(o)'
  <2>1. ThreadInv(o)'
    BY <1>0 DEF ThreadInv
  <2>2. OrderInv(o)'
    BY <1>0 DEF OrderInv
  <2>3. CoverInv(o)'
    BY <1>0 DEF CoverInv, Kept
  <2>4. QED
    BY <2>1, <2>2, <2>3
<1>4. QED
  BY <1>1, <1>2, <1>3 DEF CapInv

LEMMA SessionDecisions ==
    ASSUME CapInv,
           CaptureReady \/ AbortCaptureStart \/ AbortDone \/ StopCapture \/ StopDone \/ StopFails
    PROVE  CapInv'
<1>0. SessionInv /\ session \in Session /\ loop \in Loops
  BY DEF CapInv, CapType
<1>1. /\ UNCHANGED <<thr, writer, writerq, durable, probe>>
      /\ loop \in {"starting", "aborting", "idle", "stopping"}
      /\ loop' \in {"aborting", "idle", "stopping"}
  BY DEF CaptureReady, AbortCaptureStart, AbortDone, StopCapture, StopDone, StopFails
<1>2. session.recording # "none"
  BY <1>0 DEF SessionInv, CaptureReady, AbortCaptureStart, AbortDone, StopCapture, StopDone, StopFails
<1>3. (AllAsleep' <=> AllAsleep) /\ \A s \in Sources : Asleep(s)' <=> Asleep(s)
  BY <1>1 DEF AllAsleep, Asleep
<1>4. Joined /\ writer # "running" => AllAsleep
  BY <1>0 DEF SessionInv, Joined, AllAsleep, Asleep
<1>5. /\ session' \in Session /\ session'.sources = session.sources
      /\ session'.recording # "none"
      /\ session'.lastError <=> session.lastError
  <2>1. CASE CaptureReady
    BY <1>0, <1>2, <2>1 DEF CaptureReady, Session
  <2>2. CASE AbortCaptureStart \/ StopCapture
    BY <1>0, <1>2, <2>2 DEF AbortCaptureStart, StopCapture, Session
  <2>3. CASE AbortDone
    BY <1>0, <1>2, <2>3 DEF AbortDone, Session
  <2>4. CASE StopDone
    BY <1>0, <1>2, <2>4 DEF StopDone, Session
  <2>5. CASE StopFails
    BY <1>0, <1>2, <2>5 DEF StopFails, Session
  <2>6. QED
    BY <2>1, <2>2, <2>3, <2>4, <2>5
<1>6. Queued' <=> Queued
  BY <1>5 DEF Queued
<1>7. SessionInv'
  <2>1. CASE CaptureReady
    <3>1. session'.verdict = "active" /\ loop' = "idle"
      BY <1>0, <2>1 DEF CaptureReady, Session
    <3>2. QED
      BY <1>0, <1>1, <1>2, <1>3, <1>5, <1>6, <3>1 DEF SessionInv
  <2>2. CASE AbortCaptureStart
    <3>1. session'.verdict = session.verdict /\ loop = "starting" /\ loop' = "aborting"
      BY <1>0, <2>2 DEF AbortCaptureStart, Session
    <3>2. QED
      BY <1>0, <1>1, <1>2, <1>3, <1>5, <1>6, <3>1 DEF SessionInv
  <2>3. CASE StopCapture
    <3>1. session'.verdict = session.verdict /\ session.verdict = "active" /\ loop' = "stopping"
      BY <1>0, <2>3 DEF StopCapture, Session
    <3>2. QED
      BY <1>0, <1>1, <1>2, <1>3, <1>5, <1>6, <3>1 DEF SessionInv
  <2>4. CASE AbortDone \/ StopDone \/ StopFails
    <3>1. Joined /\ writer # "running" /\ loop' = "idle"
      BY <2>4 DEF AbortDone, StopDone, StopFails
    <3>2. AllAsleep
      BY <1>4, <3>1
    <3>3. session'.verdict = "verified" => ~session'.lastError
      <4>1. CASE AbortDone
        BY <1>0, <4>1 DEF AbortDone, Session
      <4>2. CASE StopFails
        BY <1>0, <4>2 DEF StopFails, Session
      <4>3. CASE StopDone
        BY <1>0, <4>3 DEF StopDone, Session
      <4>4. QED
        BY <2>4, <4>1, <4>2, <4>3
    <3>4. \A s \in session'.sources : thr'[s].pc = "done"
      BY <1>1, <1>5, <3>1 DEF Joined
    <3>5. QED
      BY <1>0, <1>1, <1>2, <1>3, <1>5, <1>6, <3>1, <3>2, <3>3, <3>4 DEF SessionInv
  <2>5. QED
    BY <2>1, <2>2, <2>3, <2>4
<1>8. loop # "testing" /\ loop' \in Loops \ {"testing"}
  BY <1>1 DEF Loops
<1>9. QED
  BY <1>1, <1>2, <1>5, <1>7, <1>8, SessionFrame

LEMMA Sleeping ==
    ASSUME CapInv, loop \in {"idle", "stop_test_for_capture"}, session.verdict # "active",
           UNCHANGED <<thr, writer, writerq, durable>>,
           loop' \in {"idle", "stop_test_for_capture"},
           session' \in Session, session'.recording = "none", session'.verdict = "none",
           probe' \in Probe, ProbeInv'
    PROVE  CapInv'
<1>0. /\ CapType /\ SessionInv
      /\ \A o \in Sources : ThreadInv(o) /\ OrderInv(o) /\ CoverInv(o)
  BY DEF CapInv
<1>1. AllAsleep /\ writer # "running" /\ writerq = <<>>
  BY <1>0 DEF SessionInv
<1>2. AllAsleep' /\ \A s \in Sources : Asleep(s)'
  BY <1>1 DEF AllAsleep, Asleep
<1>3. SessionInv'
  BY <1>1, <1>2 DEF SessionInv
<1>4. CapType'
  BY <1>0 DEF CapType, Loops
<1>5. ASSUME NEW o \in Sources PROVE ThreadInv(o)' /\ OrderInv(o)' /\ CoverInv(o)'
  <2>1. ThreadInv(o)'
    BY <1>0 DEF ThreadInv
  <2>2. OrderInv(o)'
    BY <1>0 DEF OrderInv
  <2>3. CoverInv(o)'
    BY DEF CoverInv
  <2>4. QED
    BY <2>1, <2>2, <2>3
<1>6. QED
  BY <1>3, <1>4, <1>5 DEF CapInv

LEMMA Starts ==
    ASSUME CapInv, NEW srcs \in SUBSET Sources, StartCapture(srcs)
    PROVE  CapInv'
<1>0. ProbeInv /\ probe \in Probe
  BY DEF CapInv, CapType
<1>1. /\ loop = "idle" /\ session.verdict # "active" /\ loop' = "stop_test_for_capture"
      /\ UNCHANGED <<thr, writer, writerq, durable>>
  BY DEF StartCapture
<1>2. session' \in Session /\ session'.recording = "none" /\ session'.verdict = "none"
  BY DEF StartCapture, NoSession, Session
<1>3. /\ probe' \in Probe
      /\ (probe'.owned <=> probe.owned) /\ probe'.thread = probe.thread
      /\ probe'.stop = "manager" => probe'.samples = 0 /\ ~probe'.signal
  <2>1. CASE probe.owned
    <3>1. probe' = [probe EXCEPT !.stop = "manager", !.samples = 0, !.signal = FALSE,
                                 !.complete = FALSE, !.error = FALSE]
      BY <1>0, <2>1 DEF StartCapture, ZeroAndReset, ZeroAudio, Probe
    <3>2. QED
      BY <1>0, <3>1 DEF Probe
  <2>2. CASE ~probe.owned
    BY <1>0, <2>2 DEF StartCapture, ProbeInv
  <2>3. QED
    BY <2>1, <2>2
<1>4. AllAsleep' <=> AllAsleep
  BY <1>1 DEF AllAsleep, Asleep
<1>5. ProbeInv'
  BY <1>0, <1>1, <1>3, <1>4 DEF ProbeInv
<1>6. QED
  BY <1>1, <1>2, <1>3, <1>5, Sleeping

LEMMA RefusedStart ==
    ASSUME CapInv, CaptureRefused
    PROVE  CapInv'
<1>0. SessionInv /\ ProbeInv /\ probe \in Probe
  BY DEF CapInv, CapType
<1>1. /\ loop = "stop_test_for_capture" /\ session.verdict # "active" /\ loop' = "idle"
      /\ UNCHANGED <<thr, writer, writerq, durable, probe>>
  BY <1>0 DEF CaptureRefused, SessionInv
<1>2. session' \in Session /\ session'.recording = "none" /\ session'.verdict = "none"
  BY DEF CaptureRefused, NoSession, Session
<1>3. ProbeInv'
  BY <1>0, <1>1 DEF ProbeInv, AllAsleep, Asleep
<1>4. QED
  BY <1>0, <1>1, <1>2, <1>3, Sleeping

LEMMA Opens ==
    ASSUME CapInv, TestStoppedForCapture
    PROVE  CapInv'
<1> USE CaptureAssumption
<1>0. SessionInv /\ ProbeInv /\ probe \in Probe /\ session \in Session
  BY DEF CapInv, CapType
<1>1. /\ loop = "stop_test_for_capture" /\ loop' = "starting"
      /\ writerq' = <<>> /\ durable' = [s \in Sources |-> <<>>]
      /\ writer' = IF Queued THEN "running" ELSE "off"
  BY DEF TestStoppedForCapture
<1>2. /\ session' \in Session /\ session'.sources = session.sources
      /\ session'.recording = "recording" /\ session'.verdict = "none"
  BY <1>0 DEF TestStoppedForCapture, Session, SessionInv
<1>3. probe' \in Probe /\ ~probe'.owned /\ probe'.thread = "none" /\ (probe'.stop = "manager" => probe'.samples = 0 /\ ~probe'.signal)
  <2>1. CASE probe.owned
    BY <2>1 DEF TestStoppedForCapture, NoProbe, Probe, ProbeThreads
  <2>2. CASE ~probe.owned
    BY <1>0, <1>1, <2>2 DEF TestStoppedForCapture, ProbeInv
  <2>3. QED
    BY <2>1, <2>2
<1>4. ProbeInv'
  BY <1>1, <1>3 DEF ProbeInv
<1>5. /\ IdleThread \in Thread /\ [IdleThread EXCEPT !.pc = "opening"] \in Thread
      /\ IdleThread.pc = "off"
  <2>1. 0 \in 0..CallbackCapacity
    OBVIOUS
  <2>2. IdleThread \in Thread
    BY <2>1 DEF IdleThread, Thread
  <2>3. [IdleThread EXCEPT !.pc = "opening"] \in Thread
    BY <2>2 DEF Thread
  <2>4. QED
    BY <2>2, <2>3 DEF IdleThread
<1>6. /\ thr' \in [Sources -> Thread]
      /\ \A s \in Sources : /\ thr'[s].frames = 0 /\ thr'[s].pending = 0 /\ thr'[s].queue = 0
                            /\ thr'[s].delivered = 0 /\ thr'[s].pc \in {"off", "opening"}
                            /\ thr'[s].pc # "off" => s \in session.sources
  BY <1>5 DEF TestStoppedForCapture, IdleThread
<1>7. CapType'
  <2>1. /\ writerq' \in Seq(ChunkRec) /\ Len(writerq') <= WriterCapacity
        /\ durable' \in [Sources -> Seq(ChunkRec)]
    BY <1>1
  <2>2. QED
    BY <1>1, <1>2, <1>3, <1>6, <2>1 DEF CapType, Loops
<1>8. SessionInv'
  <2>1. Queued' <=> Queued
    BY <1>2 DEF Queued
  <2>2. \A s \in Sources : ~Asleep(s)' => s \in session'.sources
    BY <1>2, <1>6 DEF Asleep
  <2>3. QED
    BY <1>1, <1>2, <2>1, <2>2 DEF SessionInv
<1>9. ASSUME NEW o \in Sources PROVE ThreadInv(o)' /\ OrderInv(o)' /\ CoverInv(o)'
  <2>1. ThreadInv(o)'
    BY <1>6 DEF ThreadInv
  <2>2. 1..Len(writerq') = {} /\ 1..Len(durable'[o]) = {}
    BY <1>1, SMT
  <2>3. OrderInv(o)'
    BY <2>2 DEF OrderInv
  <2>4. 0..(thr'[o].frames - 1) = {}
    BY <1>6
  <2>5. CoverInv(o)'
    BY <2>4 DEF CoverInv
  <2>6. QED
    BY <2>1, <2>3, <2>5
<1>10. QED
  BY <1>4, <1>7, <1>8, <1>9 DEF CapInv

-----------------------------------------------------------------------------
(* The microphone test *)

LEMMA TestFrame ==
    ASSUME CapInv, UNCHANGED <<session, thr, writer, writerq, durable>>,
           \/ loop' = loop
           \/ loop \in {"idle", "testing", "stop_test"} /\ loop' \in {"idle", "testing", "stop_test"},
           probe' \in Probe,
           probe'.owned => loop' # "testing",
           ~probe'.owned /\ loop' # "testing" => probe'.thread = "none",
           ~AllAsleep => probe'.thread \in {"none", "gone"},
           probe'.stop = "manager" => probe'.samples = 0 /\ ~probe'.signal
    PROVE  CapInv'
<1>0. /\ CapType /\ SessionInv
      /\ \A o \in Sources : ThreadInv(o) /\ OrderInv(o) /\ CoverInv(o)
  BY DEF CapInv
<1>1. AllAsleep' <=> AllAsleep
  BY DEF AllAsleep, Asleep
<1>2. ProbeInv'
  BY <1>1 DEF ProbeInv
<1>3. SessionInv'
  BY <1>0, <1>1 DEF SessionInv, Asleep, Queued
<1>4. CapType'
  BY <1>0 DEF CapType, Loops
<1>5. ASSUME NEW o \in Sources PROVE ThreadInv(o)' /\ OrderInv(o)' /\ CoverInv(o)'
  <2>1. ThreadInv(o)'
    BY <1>0 DEF ThreadInv
  <2>2. OrderInv(o)'
    BY <1>0 DEF OrderInv
  <2>3. CoverInv(o)'
    BY <1>0 DEF CoverInv, Kept
  <2>4. QED
    BY <2>1, <2>2, <2>3
<1>6. QED
  BY <1>2, <1>3, <1>4, <1>5 DEF CapInv

\* What the test's thread and its callbacks do.
ProbeOnly ==
    \/ ProbeSelect \/ ProbeBuild \/ ProbePlay \/ ProbeReady \/ ProbeEnds
    \/ ProbeExpires \/ ProbeCloses \/ ProbeFails \/ ProbeDisconnected \/ ProbeCallbackEnters \/ ProbeCallback
    \/ MicTestSample

LEMMA ProbeMoves ==
    ASSUME CapInv, ProbeOnly
    PROVE  CapInv'
<1>0. ProbeInv /\ probe \in Probe
  BY DEF CapInv, CapType
<1>1. UNCHANGED <<loop, session, thr, writer, writerq, durable>>
  BY DEF ProbeOnly, ProbeSelect, ProbeBuild, ProbePlay, ProbeReady, ProbeStep, ProbeEnds, ProbeExpires,
     ProbeCloses, ProbeFails, ProbeDisconnected, ProbeCallbackEnters, ProbeCallback, MicTestSample
<1> DEFINE Moved ==
      /\ probe' \in Probe /\ (probe'.owned <=> probe.owned)
      /\ probe'.thread = probe.thread \/ (probe.thread \notin {"none", "gone"} /\ probe'.thread # "none")
      /\ probe'.stop = probe.stop \/ probe'.stop = "thread"
      /\ \/ probe'.samples = 0 /\ ~probe'.signal
         \/ (probe'.samples = probe.samples \/ probe'.samples = 0) /\ (probe'.signal <=> probe.signal)
         \/ probe'.stop = "no"
<1>2. Moved
  <2>1. ASSUME NEW from \in ProbeThreads \ {"none", "gone"}, NEW to \in ProbeThreads \ {"none", "gone"},
               ProbeStep(from, to)
        PROVE  Moved
    <3>1. CASE Stopped /\ from # "building"
      <4>1. probe' = [probe EXCEPT !.samples = 0, !.signal = FALSE, !.complete = FALSE, !.thread = "gone"]
        BY <2>1, <3>1 DEF ProbeStep, Gone, ZeroAudio
      <4>2. QED
        BY <1>0, <2>1, <4>1 DEF Probe, ProbeThreads, ProbeStep
    <3>2. CASE ~(Stopped /\ from # "building")
      <4>1. PICK a : a = IF to = "listening" THEN "ok" ELSE probe.announced
        OBVIOUS
      <4>2. probe' = [probe EXCEPT !.thread = to, !.announced = a]
        BY <1>0, <2>1, <3>2, <4>1 DEF ProbeStep
      <4>3. a \in {"none", "ok", "error"}
        BY <1>0, <4>1 DEF Probe
      <4>4. QED
        BY <1>0, <2>1, <4>2, <4>3 DEF Probe, ProbeStep
    <3>3. QED
      BY <3>1, <3>2
  <2>2. CASE ProbeSelect \/ ProbeBuild \/ ProbePlay \/ ProbeReady
    BY <2>1, <2>2 DEF ProbeSelect, ProbeBuild, ProbePlay, ProbeReady, ProbeThreads
  <2>3. CASE ProbeEnds
    BY <1>0, <2>3 DEF ProbeEnds, Probe, ProbeThreads
  <2>4. CASE ProbeExpires
    BY <1>0, <2>4 DEF ProbeExpires, Probe, ProbeThreads
  <2>5. CASE ProbeCloses
    <3>1. CASE Stopped
      <4>1. probe' = [probe EXCEPT !.samples = 0, !.signal = FALSE, !.complete = FALSE, !.thread = "gone"]
        BY <2>5, <3>1 DEF ProbeCloses, Gone, ZeroAudio
      <4>2. QED
        BY <1>0, <2>5, <4>1 DEF Probe, ProbeThreads, ProbeCloses
    <3>2. CASE ~Stopped
      BY <1>0, <2>5, <3>2 DEF ProbeCloses, Probe, ProbeThreads
    <3>3. QED
      BY <3>1, <3>2
  <2>6. CASE ProbeFails
    <3>1. PICK f : f = IF Stopped THEN probe.stop ELSE "thread"
      OBVIOUS
    <3>2. probe' = [probe EXCEPT !.samples = 0, !.signal = FALSE, !.complete = FALSE, !.thread = "gone",
                                 !.announced = "error", !.error = TRUE, !.stop = f]
      BY <1>0, <2>6, <3>1 DEF ProbeFails, Gone, ZeroAudio, Probe
    <3>3. f \in {"no", "thread", "manager"} /\ (f = probe.stop \/ f = "thread")
      BY <1>0, <3>1 DEF Probe
    <3>4. QED
      BY <1>0, <2>6, <3>2, <3>3 DEF Probe, ProbeThreads, ProbeFails
  <2>7. CASE ProbeDisconnected
    <3>1. PICK f : f = IF Stopped THEN probe.stop ELSE "thread"
      OBVIOUS
    <3>2. probe' = [probe EXCEPT !.stop = f, !.error = TRUE]
      BY <1>0, <2>7, <3>1 DEF ProbeDisconnected
    <3>3. f \in {"no", "thread", "manager"} /\ (f = probe.stop \/ f = "thread")
      BY <1>0, <3>1 DEF Probe
    <3>4. QED
      BY <1>0, <3>2, <3>3 DEF Probe
  <2>8. CASE ProbeCallbackEnters
    BY <1>0, <2>8 DEF ProbeCallbackEnters, Probe
  <2>9. CASE ProbeCallback
    <3>1. CASE ~Stopped /\ ~probe.complete
      BY <1>0, <2>9, <3>1 DEF ProbeCallback, Probe, Stopped
    <3>2. CASE ~(~Stopped /\ ~probe.complete)
      BY <1>0, <2>9, <3>2 DEF ProbeCallback, Probe
    <3>3. QED
      BY <3>1, <3>2
  <2>10. CASE MicTestSample
    BY <1>0, <2>10 DEF MicTestSample, Probe
  <2>11. QED
    BY <2>2, <2>3, <2>4, <2>5, <2>6, <2>7, <2>8, <2>9, <2>10 DEF ProbeOnly
<1>3. probe'.stop = "manager" => probe'.samples = 0 /\ ~probe'.signal
  BY <1>0, <1>2 DEF ProbeInv
<1>4. QED
  BY <1>0, <1>1, <1>2, <1>3, TestFrame DEF ProbeInv

LEMMA TestRequests ==
    ASSUME CapInv,
           MicTestStart \/ MicTestReady \/ MicTestFailed \/ MicTestTimeout \/ MicTestStop \/ MicTestJoin
    PROVE  CapInv'
<1>0. ProbeInv /\ probe \in Probe /\ SessionInv
  BY DEF CapInv, CapType
<1>1. /\ UNCHANGED <<session, thr, writer, writerq, durable>>
      /\ loop \in {"idle", "testing", "stop_test"} /\ loop' \in {"idle", "testing", "stop_test"}
  BY DEF MicTestStart, MicTestReady, MicTestFailed, MicTestTimeout, MicTestStop, MicTestJoin
<1>2. /\ NoProbe \in Probe /\ ~NoProbe.owned /\ NoProbe.thread = "none" /\ NoProbe.stop = "no"
  BY DEF NoProbe, Probe, ProbeThreads
<1>3. CASE MicTestStart
  <2>1. loop' = "testing" /\ probe' \in Probe /\ ~probe'.owned /\ probe'.stop = "no"
    BY <1>2, <1>3 DEF MicTestStart, NoProbe, Probe, ProbeThreads
  <2>2. AllAsleep
    BY <1>0, <1>3 DEF MicTestStart, SessionInv
  <2>3. QED
    BY <1>1, <2>1, <2>2, TestFrame
<1>4. CASE MicTestReady
  <2>1. /\ loop' = "idle" /\ probe' \in Probe /\ probe'.owned /\ probe'.thread = probe.thread
        /\ probe'.stop = probe.stop /\ probe'.samples = probe.samples /\ (probe'.signal <=> probe.signal)
    BY <1>0, <1>4 DEF MicTestReady, Probe
  <2>2. QED
    BY <1>0, <1>1, <2>1, TestFrame DEF ProbeInv
<1>5. CASE MicTestFailed
  <2>1. probe' = NoProbe
    BY <1>5 DEF MicTestFailed
  <2>2. loop' = "idle"
    BY <1>5 DEF MicTestFailed
  <2>3. QED
    BY <1>1, <1>2, <2>1, <2>2, TestFrame
<1>6. CASE MicTestTimeout \/ MicTestStop
  <2>1. /\ loop' \in {"idle", "stop_test"} /\ probe' \in Probe /\ probe'.owned
        /\ probe'.thread = probe.thread /\ probe'.samples = 0 /\ ~probe'.signal
    <3>1. CASE MicTestTimeout
      <4>1. probe' = [probe EXCEPT !.owned = TRUE, !.stop = "manager", !.samples = 0, !.signal = FALSE,
                                   !.complete = FALSE, !.error = FALSE]
        BY <1>0, <3>1 DEF MicTestTimeout, ZeroAndReset, ZeroAudio, Probe
      <4>2. QED
        BY <1>0, <3>1, <4>1 DEF Probe, MicTestTimeout
    <3>2. CASE MicTestStop
      <4>1. probe' = [probe EXCEPT !.stop = "manager", !.samples = 0, !.signal = FALSE,
                                   !.complete = FALSE, !.error = FALSE]
        BY <1>0, <3>2 DEF MicTestStop, ZeroAndReset, ZeroAudio, Probe
      <4>2. QED
        BY <1>0, <3>2, <4>1 DEF Probe, MicTestStop
    <3>3. QED
      BY <1>6, <3>1, <3>2
  <2>2. QED
    BY <1>0, <1>1, <2>1, TestFrame DEF ProbeInv
<1>7. CASE MicTestJoin
  <2>1. loop = "stop_test" /\ loop' = "idle"
    BY <1>7 DEF MicTestJoin
  <2>2. CASE probe' = NoProbe
    BY <1>1, <1>2, <2>1, <2>2, TestFrame
  <2>3. CASE probe' = probe
    BY <1>0, <1>1, <2>1, <2>3, TestFrame DEF ProbeInv
  <2>4. QED
    BY <1>7, <2>2, <2>3 DEF MicTestJoin
<1>8. QED
  BY <1>3, <1>4, <1>5, <1>6, <1>7

-----------------------------------------------------------------------------
(* Theorems *)

LEMMA CapInvInit ==
    ASSUME CapInit PROVE CapInv
<1> USE CaptureAssumption
<1>1. IdleThread \in Thread
  <2>1. 0 \in 0..CallbackCapacity
    OBVIOUS
  <2>2. QED
    BY <2>1 DEF IdleThread, Thread
<1>2. NoSession \in Session
  BY DEF NoSession, Session
<1>3. NoProbe \in Probe
  BY DEF NoProbe, Probe, ProbeThreads
<1>4. thr \in [Sources -> Thread] /\ \A s \in Sources : thr[s] = IdleThread
  BY <1>1 DEF CapInit
<1>5. /\ writerq \in Seq(ChunkRec) /\ Len(writerq) <= WriterCapacity
      /\ durable \in [Sources -> Seq(ChunkRec)]
  BY DEF CapInit
<1>6. CapType
  BY <1>2, <1>3, <1>4, <1>5 DEF CapType, CapInit, Loops
<1>7. AllAsleep /\ \A s \in Sources : Asleep(s)
  BY <1>4 DEF AllAsleep, Asleep, IdleThread
<1>8. SessionInv
  BY <1>7 DEF SessionInv, CapInit, NoSession
<1>9. ProbeInv
  BY <1>7 DEF ProbeInv, CapInit, NoProbe
<1>10. ASSUME NEW o \in Sources PROVE ThreadInv(o) /\ OrderInv(o) /\ CoverInv(o)
  <2>1. session.recording = "none"
    BY DEF CapInit, NoSession
  <2>2. ThreadInv(o)
    BY <1>4, <2>1 DEF ThreadInv, IdleThread
  <2>3. 1..Len(writerq) = {} /\ 1..Len(durable[o]) = {}
    BY SMT DEF CapInit
  <2>4. OrderInv(o)
    BY <2>3 DEF OrderInv
  <2>5. CoverInv(o)
    BY <2>1 DEF CoverInv
  <2>6. QED
    BY <2>2, <2>4, <2>5
<1>11. QED
  BY <1>6, <1>8, <1>9, <1>10 DEF CapInv

LEMMA CapInvStep ==
    ASSUME CapInv, [CapNext]_capVars PROVE CapInv'
<1>1. CASE UNCHANGED capVars
  <2>1. SessionInv' /\ ProbeInv' /\ CapType'
    BY <1>1 DEF capVars, CapInv, CapType, SessionInv, ProbeInv, AllAsleep, Asleep, Queued
  <2>2. ASSUME NEW o \in Sources PROVE ThreadInv(o)' /\ OrderInv(o)' /\ CoverInv(o)'
    BY <1>1 DEF capVars, CapInv, ThreadInv, OrderInv, CoverInv, Kept
  <2>3. QED
    BY <2>1, <2>2 DEF CapInv
<1>2. CASE StartMic \/ StartSystem \/ StartMicAndSystem
  BY <1>2, Starts DEF StartMic, StartSystem, StartMicAndSystem, Sources
<1>3. CASE CaptureRefused
  BY <1>3, RefusedStart
<1>4. CASE TestStoppedForCapture
  BY <1>4, Opens
<1>5. CASE CaptureReady \/ AbortCaptureStart \/ AbortDone \/ StopCapture \/ StopDone \/ StopFails
  BY <1>5, SessionDecisions
<1>6. CASE \E s \in Sources : \/ ThreadStep(s) \/ Callback(s) \/ StreamError(s)
                              \/ OpenFails(s) \/ FlushPendingFails(s) \/ FlushAllFails(s)
  BY <1>6, ThreadSteps
<1>7. CASE WriteQueued
  BY <1>7, Written
<1>8. CASE WriteQueuedFails \/ WriterEnds
  BY <1>8, WriterStops
<1>9. CASE TestStep
  BY <1>9, ProbeMoves, TestRequests DEF TestStep, ProbeOnly
<1>10. QED
  BY <1>1, <1>2, <1>3, <1>4, <1>5, <1>6, <1>7, <1>8, <1>9 DEF CapNext, SessionStep, WriterStep

\* Everything the capture service keeps agrees with where its blocks are.
THEOREM CaptureInvariant == CapSpec => []CapInv
BY CapInvInit, CapInvStep, PTL DEF CapSpec

\* Chunks that hold every block up to the last one have no gap.
LEMMA NoGap ==
    ASSUME NEW D \in Seq(ChunkRec), NEW f \in Nat,
           \A i, j \in 1..Len(D) : i < j => End(D[i]) <= D[j].start,
           \A i \in 1..Len(D) : End(D[i]) <= f,
           \A b \in 0..(f - 1) : \E i \in 1..Len(D) : Holds(D[i], b)
    PROVE  /\ D = <<>> => f = 0
           /\ D # <<>> => End(D[Len(D)]) = f
           /\ \A i \in 1..Len(D) : D[i].start = IF i = 1 THEN 0 ELSE End(D[i - 1])
<1>1. /\ Len(D) \in Nat
      /\ \A i \in 1..Len(D) : D[i].start \in Nat /\ End(D[i]) \in Nat /\ D[i].start < End(D[i])
  <2>1. \A c \in ChunkRec : c.start \in Nat /\ End(c) \in Nat /\ c.start < End(c)
    BY DEF End, ChunkRec
  <2>2. Len(D) \in Nat /\ \A i \in 1..Len(D) : D[i] \in ChunkRec
    OBVIOUS
  <2>3. QED
    BY <2>1, <2>2
<1>2. ASSUME D = <<>> PROVE f = 0
  <2>1. 1..Len(D) = {}
    BY <1>2, SMT
  <2>2. f > 0 => 0 \in 0..(f - 1)
    OBVIOUS
  <2>3. QED
    BY <2>1, <2>2
<1>3. ASSUME D # <<>> PROVE End(D[Len(D)]) = f
  <2>1. Len(D) \in 1..Len(D)
    BY <1>1, <1>3
  <2>2. f > 0
    BY <1>1, <2>1
  <2>3. f - 1 \in 0..(f - 1)
    BY <2>2
  <2>4. PICK i \in 1..Len(D) : Holds(D[i], f - 1)
    BY <2>3
  <2>5. f <= End(D[i])
    BY <1>1, <2>4 DEF Holds
  <2>6. End(D[i]) <= End(D[Len(D)])
    <3>1. CASE i = Len(D)
      BY <1>1, <2>1, <3>1
    <3>2. CASE i < Len(D)
      <4>1. End(D[i]) <= D[Len(D)].start
        BY <2>1, <3>2
      <4>2. QED
        BY <1>1, <2>1, <4>1
    <3>3. QED
      BY <1>1, <3>1, <3>2
  <2>7. QED
    BY <1>1, <2>1, <2>5, <2>6
<1>4. ASSUME NEW i \in 1..Len(D), NEW p \in Nat, p < D[i].start,
             \A j \in 1..Len(D) : j < i => End(D[j]) <= p
      PROVE  FALSE
  <2>1. D[i].start - 1 \in 0..(f - 1) /\ p <= D[i].start - 1
    <3>1. PICK a : a = D[i].start
      OBVIOUS
    <3>2. PICK e : e = End(D[i])
      OBVIOUS
    <3>3. a \in Nat /\ e \in Nat /\ a < e /\ e <= f /\ p < a
      BY <1>1, <1>4, <3>1, <3>2
    <3>4. a - 1 \in 0..(f - 1) /\ p <= a - 1
      BY <3>3
    <3>5. QED
      BY <3>1, <3>4
  <2>2. PICK j \in 1..Len(D) : Holds(D[j], D[i].start - 1)
    BY <2>1
  <2>3. D[j].start <= D[i].start - 1 /\ D[i].start - 1 < End(D[j])
    BY <2>2 DEF Holds
  <2>4. CASE j < i
    <3>1. End(D[j]) <= p /\ End(D[j]) \in Nat /\ D[i].start \in Nat
      BY <1>1, <1>4, <2>4
    <3>2. QED
      BY <2>1, <2>3, <3>1
  <2>5. CASE j = i
    BY <1>1, <2>3, <2>5
  <2>6. CASE i < j
    <3>1. End(D[i]) <= D[j].start
      BY <2>6
    <3>2. QED
      BY <1>1, <2>3, <3>1
  <2>7. QED
    BY <1>1, <2>4, <2>5, <2>6
<1>5. ASSUME NEW i \in 1..Len(D) PROVE D[i].start = IF i = 1 THEN 0 ELSE End(D[i - 1])
  <2>1. CASE i = 1
    <3>1. \A j \in 1..Len(D) : j < i => End(D[j]) <= 0
      BY <1>1, <2>1
    <3>2. ~(0 < D[i].start)
      BY <1>4, <3>1
    <3>3. QED
      BY <1>1, <2>1, <3>2
  <2>2. CASE i # 1
    <3>1. i - 1 \in 1..Len(D) /\ i - 1 < i
      BY <1>1, <2>2
    <3>2. End(D[i - 1]) <= D[i].start /\ End(D[i - 1]) \in Nat
      BY <1>1, <3>1
    <3>3. \A j \in 1..Len(D) : j < i => End(D[j]) <= End(D[i - 1])
      <4>1. SUFFICES ASSUME NEW j \in 1..Len(D), j < i PROVE End(D[j]) <= End(D[i - 1])
        OBVIOUS
      <4>2. CASE j = i - 1
        BY <3>2, <4>2
      <4>3. CASE j < i - 1
        <5>1. End(D[j]) <= D[i - 1].start
          BY <3>1, <4>3
        <5>2. QED
          BY <1>1, <3>1, <5>1
      <4>4. QED
        BY <1>1, <4>1, <4>2, <4>3
    <3>4. ~(End(D[i - 1]) < D[i].start)
      BY <1>4, <3>2, <3>3
    <3>5. QED
      BY <1>1, <2>2, <3>2, <3>4
  <2>3. QED
    BY <2>1, <2>2
<1>6. QED
  BY <1>2, <1>3, <1>5

LEMMA CapInvSafe ==
    ASSUME CapInv PROVE CaptureSafe
<1>0. /\ CapType /\ SessionInv
      /\ \A o \in Sources : ThreadInv(o) /\ OrderInv(o) /\ CoverInv(o)
  BY DEF CapInv
<1>1. \A s \in Sources : /\ thr[s] \in Thread /\ durable[s] \in Seq(ChunkRec)
                         /\ thr[s].frames \in Nat /\ thr[s].pending \in Nat
                         /\ thr[s].queue \in Nat /\ thr[s].delivered \in Nat
  BY <1>0 DEF CapType, Thread
<1>2. CapTypeOK
  <2>1. ASSUME NEW s \in Sources
        PROVE  /\ thr[s].pc \in {"off", "opening", "running", "flushing", "draining", "last_flush", "done"}
               /\ thr[s].queue \in 0..CallbackCapacity
    BY <1>1 DEF Thread
  <2>2. ASSUME NEW s \in Sources PROVE thr[s].pending + thr[s].frames <= thr[s].delivered
    BY <1>0, <1>1 DEF ThreadInv
  <2>3. probe.thread \in ProbeThreads
    BY <1>0 DEF CapType, Probe
  <2>4. QED
    BY <1>0, <2>1, <2>2, <2>3 DEF CapTypeOK, CapType, Loops, Session, ProbeThreads
<1>3. ChunksDisjoint
  <2>1. SUFFICES ASSUME NEW s \in Sources, NEW i \in 2..Len(durable[s])
                 PROVE  durable[s][i].start >= durable[s][i - 1].start + durable[s][i - 1].len
    BY DEF ChunksDisjoint
  <2>2. i \in 1..Len(durable[s]) /\ i - 1 \in 1..Len(durable[s]) /\ i - 1 < i
    BY <1>1, <2>1
  <2>3. durable[s][i] \in ChunkRec /\ durable[s][i - 1] \in ChunkRec
    BY <1>1, <2>2
  <2>4. durable[s][i].start \in Nat /\ durable[s][i - 1].start + durable[s][i - 1].len \in Nat
    BY <2>3 DEF ChunkRec
  <2>5. durable[s][i - 1].start + durable[s][i - 1].len <= durable[s][i].start
    BY <1>0, <2>2 DEF OrderInv, End
  <2>6. QED
    BY <2>4, <2>5
<1>4. VerifiedIsComplete
  <2>1. SUFFICES ASSUME session.verdict = "verified", NEW s \in session.sources
                 PROVE  /\ Blocks(s) = thr[s].delivered
                        /\ \A i \in 1..Len(durable[s]) :
                             durable[s][i].start =
                               (IF i = 1 THEN 0 ELSE durable[s][i-1].start + durable[s][i-1].len)
    BY DEF VerifiedIsComplete
  <2>2. s \in Sources
    BY <1>0, <2>1 DEF CapType, Session
  <2>3. /\ thr[s].pc = "done" /\ ~session.lastError /\ session.recording # "none"
    BY <1>0, <2>1 DEF SessionInv
  <2>4. writerq = <<>>
    BY <1>0, <2>1 DEF SessionInv, CapType, Loops
  <2>5. /\ thr[s].queue = 0 /\ thr[s].pending = 0 /\ ~thr[s].error /\ ~thr[s].failure
        /\ thr[s].frames + thr[s].pending + thr[s].queue = thr[s].delivered
    BY <1>0, <2>2, <2>3 DEF ThreadInv
  <2>6. thr[s].frames = thr[s].delivered
    BY <1>1, <2>2, <2>5
  <2>7. 1..Len(writerq) = {}
    BY <2>4, SMT
  <2>8. \A b \in 0..(thr[s].frames - 1) : \E i \in 1..Len(durable[s]) : Holds(durable[s][i], b)
    BY <1>0, <2>2, <2>3, <2>5, <2>7 DEF CoverInv, Kept
  <2>9. /\ \A i, j \in 1..Len(durable[s]) : i < j => End(durable[s][i]) <= durable[s][j].start
        /\ \A i \in 1..Len(durable[s]) : End(durable[s][i]) <= thr[s].frames
    BY <1>0, <2>2 DEF OrderInv
  <2>10. /\ durable[s] = <<>> => thr[s].frames = 0
         /\ durable[s] # <<>> => End(durable[s][Len(durable[s])]) = thr[s].frames
         /\ \A i \in 1..Len(durable[s]) :
              durable[s][i].start = IF i = 1 THEN 0 ELSE End(durable[s][i - 1])
    BY <1>1, <2>2, <2>8, <2>9, NoGap
  <2>11. QED
    BY <2>6, <2>10 DEF Blocks, End
<1>5. QED
  BY <1>2, <1>3, <1>4 DEF CaptureSafe

\* CaptureSafe for every bound: the queues keep within their capacities, a
\* session that stop_capture reports verified has stored every block the device
\* callbacks delivered, in chunks without a gap, and no two stored chunks of a
\* source overlap, whatever failed.
THEOREM CaptureIsSafe == CapSpec => []CaptureSafe
<1>1. CapInv => CaptureSafe
  BY CapInvSafe
<1>2. QED
  BY <1>1, CaptureInvariant, PTL

\* DeviceOwned for every bound: the microphone test and a session never hold
\* the native device together, and a test that the manager stopped shows and
\* keeps no audio, however late its thread answers.
THEOREM DeviceHasOneOwner == CapSpec => []DeviceOwned
<1>1. ASSUME CapInv PROVE DeviceOwned
  <2>1. ProbeInv /\ probe \in Probe
    BY <1>1 DEF CapInv, CapType
  <2>2. DeviceExclusive
    BY <2>1 DEF DeviceExclusive, ProbeInv, ProbeHolds, AllAsleep, Asleep, Live
  <2>3. TestAudioCleared
    <3>1. SUFFICES ASSUME probe.stop = "manager"
                   PROVE  probe.samples = 0 /\ MicTestState # "playback-ready"
      BY DEF TestAudioCleared
    <3>2. probe.samples = 0 /\ ~probe.signal
      BY <2>1, <3>1 DEF ProbeInv
    <3>3. MicTestState # "playback-ready"
      BY <3>2 DEF MicTestState
    <3>4. QED
      BY <3>2, <3>3
  <2>4. QED
    BY <2>2, <2>3 DEF DeviceOwned
<1>2. QED
  BY <1>1, CaptureInvariant, PTL

-----------------------------------------------------------------------------
(* The window mixer                                                        *)

Lane == [at : [Positions -> Int], watermark : 0..LaneSamples]

\* Every sample of the lane was captured as far behind first as it stands.
LaneFrom(lane, first) == \A i \in Positions : lane.at[i] \in {NoSample, first + i}

MixerType ==
    /\ mixer \in [start : Int, lanes : [Lanes -> Lane], emitted : BOOLEAN]
    /\ mixer.start >= NoSample
    /\ windowEnd \in Int

\* Before the first chunk the lanes are empty; afterwards they are aligned to
\* the start of the window being filled, which begins where the last one ended
\* or later.
MixerInv ==
    /\ mixer.start = NoSample => mixer.lanes = Cleared /\ ~mixer.emitted
    /\ mixer.start # NoSample => \A l \in Lanes : LaneFrom(mixer.lanes[l], mixer.start)
    /\ window # <<>> => /\ mixer.emitted
                        /\ window.start \in Int
                        /\ mixer.start >= window.start + WindowSamples

MixInv == MixerType /\ MixerInv /\ MixAligned /\ WindowsDisjoint

-----------------------------------------------------------------------------
(* What the operations do to one lane                                      *)

LEMMA EmptyLaneFits == EmptyLane \in Lane /\ \A first \in Int : LaneFrom(EmptyLane, first)
BY MixerAssumption DEF EmptyLane, Lane, LaneFrom, NoSample, Positions

\* Moving the lane right by n moves its first instant back by n.
LEMMA ShiftRightFits ==
    ASSUME NEW lane \in Lane, NEW n \in Nat, n > 0, NEW first \in Int
    PROVE  /\ ShiftRight(lane, n) \in Lane
           /\ LaneFrom(lane, first) => LaneFrom(ShiftRight(lane, n), first - n)
<1>1. CASE n >= LaneSamples
  BY <1>1, EmptyLaneFits DEF ShiftRight
<1>2. CASE n < LaneSamples
  <2> DEFINE at == [i \in Positions |-> IF i < n THEN NoSample ELSE lane.at[i - n]]
  <2>1. ShiftRight(lane, n) = [at |-> at, watermark |-> AtMost(lane.watermark + n, LaneSamples)]
    BY <1>2, MixerAssumption DEF ShiftRight
  <2>2. \A i \in Positions : i >= n => i - n \in Positions
    BY MixerAssumption DEF Positions
  <2>3. at \in [Positions -> Int]
    <3>1. \A i \in Positions : i \in Int /\ lane.at[i] \in Int
      BY MixerAssumption DEF Lane, Positions
    <3> QED
      BY <2>2, <3>1 DEF NoSample
  <2>4. AtMost(lane.watermark + n, LaneSamples) \in 0..LaneSamples
    BY MixerAssumption DEF AtMost, Lane
  <2>5. ASSUME LaneFrom(lane, first), NEW i \in Positions
        PROVE  at[i] \in {NoSample, first - n + i}
    <3>1. CASE i < n
      BY <3>1
    <3>2. CASE ~(i < n)
      <4>1. i - n \in Positions /\ at[i] = lane.at[i - n]
        BY <2>2, <3>2 DEF Positions
      <4>2. lane.at[i - n] \in {NoSample, first + (i - n)}
        BY <2>5, <4>1 DEF LaneFrom
      <4> QED
        BY <4>1, <4>2 DEF Positions
    <3> QED
      BY <3>1, <3>2
  <2> HIDE DEF at
  <2> QED
    BY <2>1, <2>3, <2>4, <2>5 DEF Lane, LaneFrom
<1> QED
  BY <1>1, <1>2, MixerAssumption

\* A chunk is written as far behind first as it was captured.
LEMMA WriteLaneFits ==
    ASSUME NEW lane \in Lane, NEW first \in Int, NEW start \in Int, NEW len \in Nat,
           len > 0 => start - first \in 0..LaneSamples - 1
    PROVE  /\ WriteLane(lane, start - first, start, len) \in Lane
           /\ LaneFrom(lane, first) => LaneFrom(WriteLane(lane, start - first, start, len), first)
<1>1. CASE len = 0
  BY <1>1 DEF WriteLane
<1>2. CASE len > 0
  <2> DEFINE offset == start - first
             end == AtMost(offset + len, LaneSamples)
             at == [i \in Positions |->
                       IF i >= offset /\ i < end THEN start + i - offset ELSE lane.at[i]]
  <2>1. WriteLane(lane, offset, start, len)
            = [at |-> at, watermark |-> AtLeast(lane.watermark, end)]
    BY <1>2 DEF WriteLane
  <2>2. end \in 0..LaneSamples /\ AtLeast(lane.watermark, end) \in 0..LaneSamples
    BY <1>2, MixerAssumption DEF AtMost, AtLeast, Lane
  <2>3. at \in [Positions -> Int]
    <3>1. \A i \in Positions : i \in Int /\ lane.at[i] \in Int
      BY MixerAssumption DEF Lane, Positions
    <3>2. offset \in Int
      OBVIOUS
    <3> HIDE DEF end, offset
    <3> QED
      BY <3>1, <3>2
  <2>4. ASSUME LaneFrom(lane, first), NEW i \in Positions
        PROVE  at[i] \in {NoSample, first + i}
    <3>1. i \in Int /\ start + i - offset = first + i
      BY DEF Positions
    <3>2. lane.at[i] \in {NoSample, first + i}
      BY <2>4 DEF LaneFrom
    <3> HIDE DEF end, offset
    <3> QED
      BY <3>1, <3>2
  <2> HIDE DEF at
  <2> QED
    BY <2>1, <2>2, <2>3, <2>4 DEF Lane, LaneFrom
<1> QED
  BY <1>1, <1>2

\* The next window begins one window later.
LEMMA AdvanceWindowFits ==
    ASSUME NEW lane \in Lane, NEW first \in Int
    PROVE  /\ AdvanceWindow(lane) \in Lane
           /\ LaneFrom(lane, first) => LaneFrom(AdvanceWindow(lane), first + WindowSamples)
<1> DEFINE at == [i \in Positions |-> IF i + WindowSamples < LaneSamples
                                        THEN lane.at[i + WindowSamples] ELSE NoSample]
<1>1. AdvanceWindow(lane) = [at |-> at, watermark |-> AtLeast(lane.watermark - WindowSamples, 0)]
  BY DEF AdvanceWindow
<1>2. AtLeast(lane.watermark - WindowSamples, 0) \in 0..LaneSamples
  BY MixerAssumption DEF AtLeast, Lane
<1>3. \A i \in Positions : i + WindowSamples < LaneSamples => i + WindowSamples \in Positions
  BY MixerAssumption DEF Positions
<1>4. at \in [Positions -> Int]
  BY <1>3 DEF Lane, NoSample
<1>5. ASSUME LaneFrom(lane, first), NEW i \in Positions
      PROVE  at[i] \in {NoSample, first + WindowSamples + i}
  <2>1. CASE i + WindowSamples < LaneSamples
    <3>1. lane.at[i + WindowSamples] \in {NoSample, first + (i + WindowSamples)}
      BY <1>3, <1>5, <2>1 DEF LaneFrom
    <3> QED
      BY <2>1, <3>1, MixerAssumption DEF Positions
  <2>2. CASE ~(i + WindowSamples < LaneSamples)
    BY <2>2
  <2> QED
    BY <2>1, <2>2
<1> HIDE DEF at
<1> QED
  BY <1>1, <1>2, <1>4, <1>5 DEF Lane, LaneFrom

-----------------------------------------------------------------------------
(* Where a chunk is put                                                    *)

Placement == [lanes : [Lanes -> Lane], first : Int, start : Int, len : Nat]

\* Lanes aligned to an instant of the recording, never before a window that
\* was emitted; a chunk that is not cut away does not begin before them.
PlacedWell(p) ==
    /\ p \in Placement
    /\ p.first >= 0
    /\ \A l \in Lanes : LaneFrom(p.lanes[l], p.first)
    /\ mixer.emitted => p.first >= mixer.start
    /\ p.len > 0 => p.start >= p.first

LEMMA ClearedFits == Cleared \in [Lanes -> Lane] /\ \A l \in Lanes : Cleared[l] = EmptyLane
BY EmptyLaneFits DEF Cleared

LEMMA PlacedFits ==
    ASSUME MixerType, MixerInv, NEW start \in Nat, NEW len \in Nat, len > 0
    PROVE  PlacedWell(Placed(start, len))
<1> DEFINE first == IF mixer.start = NoSample THEN start ELSE mixer.start
           early == first - start
           trim == AtMost(early, len)
<1>1. /\ mixer.start \in Int /\ mixer.start >= NoSample /\ mixer.lanes \in [Lanes -> Lane]
      /\ mixer.emitted \in BOOLEAN /\ NoSample = -1
  BY DEF MixerType, NoSample
<1>2. first \in Int /\ first >= 0 /\ early \in Int /\ (mixer.emitted => first = mixer.start)
  BY <1>1 DEF MixerInv
<1>3. \A l \in Lanes : mixer.lanes[l] \in Lane /\ LaneFrom(mixer.lanes[l], first)
  <2>1. CASE mixer.start = NoSample
    BY <2>1, <1>1, ClearedFits, EmptyLaneFits DEF MixerInv
  <2>2. CASE mixer.start # NoSample
    BY <2>2, <1>1 DEF MixerInv
  <2> QED
    BY <2>1, <2>2
<1>4. CASE early > 0 /\ ~mixer.emitted
  <2> DEFINE lanes == [l \in Lanes |-> ShiftRight(mixer.lanes[l], early)]
  <2>1. Placed(start, len) = [lanes |-> lanes, first |-> start, start |-> start, len |-> len]
    BY <1>4 DEF Placed
  <2>2. \A l \in Lanes : lanes[l] \in Lane /\ LaneFrom(lanes[l], start)
    <3> TAKE l \in Lanes
    <3>1. early \in Nat /\ early > 0 /\ first - early = start
      BY <1>2, <1>4
    <3> HIDE DEF early, first
    <3>2. /\ ShiftRight(mixer.lanes[l], early) \in Lane
          /\ LaneFrom(ShiftRight(mixer.lanes[l], early), first - early)
      BY <1>2, <1>3, <3>1, ShiftRightFits
    <3> QED
      BY <3>1, <3>2
  <2>3. lanes \in [Lanes -> Lane]
    BY <2>2
  <2> HIDE DEF lanes
  <2> QED
    BY <2>1, <2>2, <2>3, <1>4 DEF PlacedWell, Placement
<1>5. CASE early > 0 /\ mixer.emitted
  <2>1. Placed(start, len) = [lanes |-> mixer.lanes, first |-> first,
                              start |-> start + trim, len |-> len - trim]
    BY <1>5 DEF Placed
  <2>2. /\ start + trim \in Int /\ len - trim \in Nat
        /\ len - trim > 0 => start + trim >= first
    BY <1>2, <1>5 DEF AtMost
  <2> HIDE DEF trim, early, first
  <2> QED
    BY <2>1, <2>2, <1>1, <1>2, <1>3, <1>5 DEF PlacedWell, Placement
<1>6. CASE ~(early > 0)
  <2>1. Placed(start, len) = [lanes |-> mixer.lanes, first |-> first, start |-> start, len |-> len]
    BY <1>6 DEF Placed
  <2>2. start >= first
    BY <1>2, <1>6
  <2> HIDE DEF early, first
  <2> QED
    BY <2>1, <2>2, <1>1, <1>2, <1>3 DEF PlacedWell, Placement
<1> QED
  BY <1>4, <1>5, <1>6

LEMMA RestartedFits ==
    ASSUME MixerType, NEW p, PlacedWell(p)
    PROVE  /\ PlacedWell(Restarted(p))
           /\ Restarted(p).len > 0 => Restarted(p).start - Restarted(p).first \in 0..LaneSamples - 1
<1>1. p \in Placement /\ mixer.start \in Int
  BY DEF PlacedWell, MixerType
<1>2. CASE p.len > 0 /\ p.start - p.first >= LaneSamples
  <2>1. Restarted(p) = [p EXCEPT !.lanes = Cleared, !.first = p.start]
    BY <1>2 DEF Restarted
  <2>2. /\ Restarted(p) \in Placement
        /\ Restarted(p).lanes = Cleared /\ Restarted(p).first = p.start
        /\ Restarted(p).start = p.start /\ Restarted(p).len = p.len
    BY <2>1, <1>1, ClearedFits DEF Placement
  <2>3. p.start >= p.first /\ p.first >= 0 /\ p.start \in Int /\ p.first \in Int
    BY <1>1, <1>2 DEF PlacedWell, Placement
  <2>4. \A l \in Lanes : LaneFrom(Restarted(p).lanes[l], p.start)
    BY <2>2, <2>3, ClearedFits, EmptyLaneFits
  <2>5. mixer.emitted => p.start >= mixer.start
    BY <1>1, <2>3 DEF PlacedWell
  <2> QED
    BY <2>2, <2>3, <2>4, <2>5, MixerAssumption DEF PlacedWell
<1>3. CASE ~(p.len > 0 /\ p.start - p.first >= LaneSamples)
  <2>1. Restarted(p) = p
    BY <1>3 DEF Restarted
  <2>2. p.len > 0 => p.start - p.first \in 0..LaneSamples - 1
    BY <1>1, <1>3, MixerAssumption DEF PlacedWell, Placement
  <2> QED
    BY <2>1, <2>2
<1> QED
  BY <1>2, <1>3

-----------------------------------------------------------------------------
(* Every chunk keeps the invariant                                         *)

LEMMA PushKeepsInv ==
    ASSUME MixInv, NEW l \in Lanes, NEW start \in Nat, NEW len \in Nat, len > 0,
           Push(l, start, len)
    PROVE  MixInv'
<1> DEFINE p == Restarted(Placed(start, len))
           lanes == [p.lanes EXCEPT ![l] = WriteLane(@, p.start - p.first, p.start, p.len)]
           full == p.len > 0 /\ \A k \in Lanes : lanes[k].watermark >= WindowSamples
<1>1. MixerType /\ MixerInv /\ MixAligned /\ WindowsDisjoint
  BY DEF MixInv
<1>2. PlacedWell(p) /\ (p.len > 0 => p.start - p.first \in 0..LaneSamples - 1)
  BY <1>1, PlacedFits, RestartedFits
<1>3. /\ IF full
           THEN /\ window' = [start |-> p.first, lanes |-> [k \in Lanes |-> lanes[k].at]]
                /\ windowEnd' = IF window = <<>> THEN 0 ELSE window.start + WindowSamples
                /\ mixer' = [start |-> p.first + WindowSamples, emitted |-> TRUE,
                             lanes |-> [k \in Lanes |-> AdvanceWindow(lanes[k])]]
           ELSE /\ mixer' = [start |-> p.first, emitted |-> mixer.emitted, lanes |-> lanes]
                /\ UNCHANGED <<window, windowEnd>>
  BY DEF Push
<1> HIDE DEF p
<1>4. p \in Placement /\ p.first >= 0 /\ (mixer.emitted => p.first >= mixer.start)
  BY <1>2 DEF PlacedWell
<1>5. /\ p.lanes \in [Lanes -> Lane] /\ p.first \in Int /\ p.start \in Int /\ p.len \in Nat
      /\ \A k \in Lanes : LaneFrom(p.lanes[k], p.first)
  BY <1>2, <1>4 DEF PlacedWell, Placement
<1>6. /\ WriteLane(p.lanes[l], p.start - p.first, p.start, p.len) \in Lane
      /\ LaneFrom(WriteLane(p.lanes[l], p.start - p.first, p.start, p.len), p.first)
  BY <1>2, <1>5, WriteLaneFits
<1>7. lanes \in [Lanes -> Lane] /\ \A k \in Lanes : lanes[k] \in Lane /\ LaneFrom(lanes[k], p.first)
  BY <1>5, <1>6
<1> HIDE DEF lanes, full
<1>8. mixer.start \in Int /\ mixer.emitted \in BOOLEAN /\ windowEnd \in Int
  BY <1>1 DEF MixerType
<1>9. CASE full
  <2> DEFINE next == [k \in Lanes |-> AdvanceWindow(lanes[k])]
  <2>1. \A k \in Lanes : next[k] \in Lane /\ LaneFrom(next[k], p.first + WindowSamples)
    BY <1>5, <1>7, AdvanceWindowFits
  <2>2. next \in [Lanes -> Lane]
    BY <2>1
  <2>3. mixer' = [start |-> p.first + WindowSamples, emitted |-> TRUE, lanes |-> next]
    BY <1>3, <1>9
  <2> HIDE DEF next
  <2>4. window' = [start |-> p.first, lanes |-> [k \in Lanes |-> lanes[k].at]]
    BY <1>3, <1>9
  <2>5. windowEnd' = IF window = <<>> THEN 0 ELSE window.start + WindowSamples
    BY <1>3, <1>9
  <2>6. windowEnd' \in Int /\ p.first >= windowEnd'
    BY <2>5, <1>1, <1>4, <1>5, <1>8, MixerAssumption DEF MixerInv
  <2>7. MixerType'
    BY <2>2, <2>3, <2>6, <1>4, <1>5, MixerAssumption DEF MixerType, NoSample
  <2>8. MixerInv'
    BY <2>1, <2>3, <2>4, <1>4, <1>5, MixerAssumption DEF MixerInv, NoSample
  <2>9. MixAligned'
    <3>1. \A k \in Lanes, i \in 0..WindowSamples - 1 :
              lanes[k].at[i] \in {NoSample, p.first + i}
      <4>1. 0..WindowSamples - 1 \subseteq Positions
        BY MixerAssumption DEF Positions
      <4> QED
        BY <4>1, <1>7 DEF LaneFrom
    <3>2. window'.start = p.first /\ \A k \in Lanes : window'.lanes[k] = lanes[k].at
      BY <2>4
    <3> QED
      BY <3>1, <3>2 DEF MixAligned
  <2>10. WindowsDisjoint'
    BY <2>4, <2>6 DEF WindowsDisjoint
  <2> QED
    BY <2>7, <2>8, <2>9, <2>10 DEF MixInv
<1>10. CASE ~full
  <2>1. mixer' = [start |-> p.first, emitted |-> mixer.emitted, lanes |-> lanes]
    BY <1>3, <1>10
  <2>2. window' = window /\ windowEnd' = windowEnd
    BY <1>3, <1>10
  <2>3. /\ mixer'.start = p.first /\ mixer'.lanes = lanes
        /\ (mixer'.emitted <=> mixer.emitted)
    BY <2>1
  <2>4. mixer' \in [start : Int, lanes : [Lanes -> Lane], emitted : BOOLEAN]
    BY <2>1, <1>5, <1>7, <1>8
  <2>5. MixerType'
    BY <2>2, <2>3, <2>4, <1>4, <1>5, <1>8 DEF MixerType, NoSample
  <2>6. window # <<>> => /\ mixer.emitted /\ window.start \in Int
                         /\ mixer.start >= window.start + WindowSamples
    BY <1>1 DEF MixerInv
  <2>7. MixerInv'
    BY <2>2, <2>3, <2>6, <1>4, <1>5, <1>7, <1>8, MixerAssumption DEF MixerInv, NoSample
  <2> QED
    BY <2>2, <2>5, <2>7, <1>1 DEF MixInv, MixAligned, WindowsDisjoint
<1> QED
  BY <1>9, <1>10

LEMMA MixInitial == MixInit => MixInv
<1> SUFFICES ASSUME MixInit PROVE MixInv
  OBVIOUS
<1>1. MixerType
  BY ClearedFits DEF MixInit, MixerType, NoSample
<1>2. window = <<>> /\ mixer.start = NoSample /\ mixer.lanes = Cleared /\ ~mixer.emitted
  BY DEF MixInit
<1> QED
  BY <1>1, <1>2 DEF MixInv, MixerInv, MixAligned, WindowsDisjoint

LEMMA MixStep == MixInv /\ [MixNext]_mixVars => MixInv'
<1> SUFFICES ASSUME MixInv, [MixNext]_mixVars PROVE MixInv'
  OBVIOUS
<1>1. CASE MixNext
  <2> PICK l \in Lanes, start \in 0..MaxInstant, len \in 1..LaneSamples : Push(l, start, len)
    BY <1>1 DEF MixNext
  <2>1. start \in Nat /\ len \in Nat /\ len > 0
    BY MixerAssumption
  <2> QED
    BY <2>1, PushKeepsInv
<1>2. CASE UNCHANGED mixVars
  BY <1>2 DEF mixVars, MixInv, MixerType, MixerInv, MixAligned, WindowsDisjoint
<1> QED
  BY <1>1, <1>2

\* The window mixer of combined live transcription (CombinedLivePcmWindowMixer,
\* its push above all) keeps both lanes within their length, puts
\* every sample of a window at the instant it was captured, and never emits an
\* instant twice, for every window and lane length and every arrival of chunks.
THEOREM WindowsAreFaithful == MixSpec => []WindowsFaithful
<1>1. MixInv => WindowsFaithful
  <2> SUFFICES ASSUME MixInv PROVE MixTypeOK
    BY DEF MixInv, WindowsFaithful
  <2>1. \A l \in Lanes : mixer.lanes[l] \in Lane
    BY DEF MixInv, MixerType
  <2> QED
    BY <2>1 DEF MixTypeOK, Lane
<1> QED
  BY <1>1, MixInitial, MixStep, PTL DEF MixSpec

-----------------------------------------------------------------------------
(* Provisional transcription                                               *)

\* The induction the provers can use: a set of numbers has a least one.
LEMMA LeastNumber ==
    ASSUME NEW T \in SUBSET Nat, T # {}
    PROVE  \E n \in T : \A m \in T : n <= m
<1> DEFINE Less == {ss \in Nat \X Nat : ss[1] < ss[2]}
<1>1. IsWellFoundedOn(Less, Nat)
  BY NatLessThanWellFounded, Zenon DEF OpToRel
<1>2. \E n \in T : \A m \in T : <<m, n>> \notin Less
  <2> HIDE DEF Less
  <2> QED
    BY <1>1, WFMin
<1>3. ASSUME NEW n \in T, NEW m \in T, <<m, n>> \notin Less
      PROVE  n <= m
  <2>1. n \in Nat /\ m \in Nat
    OBVIOUS
  <2> QED
    BY <1>3, <2>1
<1> QED
  BY <1>2, <1>3

\* A place of the k-th element that is kept.
LEMMA KthPlace ==
    ASSUME NEW n \in Nat, NEW keep \in SUBSET (1..n), NEW k \in 1..Cardinality(keep)
    PROVE  \E i \in keep : Cardinality({j \in keep : j <= i}) = k
<1> DEFINE Upto(m) == {j \in keep : j <= m}
           T == {m \in Nat : k <= Cardinality(Upto(m))}
<1>1. IsFiniteSet(keep) /\ keep \subseteq Nat /\ \A j \in keep : 1 <= j /\ j <= n
  <2>1. IsFiniteSet(1..n)
    BY FS_Interval
  <2>2. IsFiniteSet(keep)
    BY <2>1, FS_Subset
  <2> QED
    BY <2>2
<1>2. ASSUME NEW m \in Nat
      PROVE  IsFiniteSet(Upto(m)) /\ Cardinality(Upto(m)) \in Nat
  <2>1. IsFiniteSet(Upto(m))
    BY <1>1, FS_Subset
  <2> QED
    BY <2>1, FS_CardinalityType
<1>3. Upto(n) = keep
  BY <1>1
<1>4. n \in T
  <2>1. Cardinality(keep) \in Nat /\ k <= Cardinality(keep)
    BY <1>1, FS_CardinalityType
  <2>2. k <= Cardinality(Upto(n))
    BY <1>3, <2>1
  <2> HIDE DEF Upto
  <2> QED
    BY <2>2
<1>5. PICK i \in T : \A m \in T : i <= m
  <2> HIDE DEF T
  <2>1. T \in SUBSET Nat /\ T # {}
    BY <1>4 DEF T
  <2> QED
    BY <2>1, LeastNumber
<1>6. i # 0
  <2>0. \A j \in keep : ~(j <= 0)
    BY <1>1
  <2>1. Upto(0) = {}
    BY <2>0
  <2>2. Cardinality(Upto(0)) = 0
    BY <2>1, FS_EmptySet
  <2>3. 0 \notin T
    BY <2>2
  <2> QED
    BY <1>5, <2>3
<1>12. PICK h \in Nat : i = h + 1
  <2>1. i - 1 \in Nat /\ i = (i - 1) + 1
    BY <1>5, <1>6
  <2> QED
    BY <2>1
<1>7. Cardinality(Upto(h)) < k
  <2>1. ~(i <= h)
    BY <1>12
  <2>2. h \notin T
    BY <1>5, <2>1
  <2>3. Cardinality(Upto(h)) \in Nat
    BY <1>2
  <2> QED
    BY <2>2, <2>3
<1>13. \A j \in keep : (j <= i) <=> (j <= h \/ j = i)
  BY <1>1, <1>12
<1>8. i \in keep
  <2>1. i \notin keep => Upto(i) = Upto(h)
    BY <1>13
  <2>2. k <= Cardinality(Upto(i)) /\ Cardinality(Upto(h)) \in Nat
    BY <1>2, <1>5
  <2> HIDE DEF Upto
  <2> QED
    BY <1>7, <2>1, <2>2
<1>9. Upto(i) = Upto(h) \cup {i} /\ i \notin Upto(h)
  <2>1. ~(i <= h)
    BY <1>12
  <2> QED
    BY <1>8, <1>13, <2>1
<1>10. Cardinality(Upto(i)) = Cardinality(Upto(h)) + 1
  <2>1. IsFiniteSet(Upto(h))
    BY <1>2
  <2> HIDE DEF Upto
  <2> QED
    BY <1>9, <2>1, FS_AddElement
<1>11. Cardinality(Upto(i)) = k
  <2>1. k <= Cardinality(Upto(i)) /\ Cardinality(Upto(h)) \in Nat
    BY <1>2, <1>5
  <2> HIDE DEF Upto
  <2> QED
    BY <1>7, <1>10, <2>1
<1> QED
  BY <1>8, <1>11

LEMMA RetainIs ==
    ASSUME NEW S, NEW s \in Seq(S), NEW keep \in SUBSET (1..Len(s))
    PROVE  /\ Retain(s, keep) \in Seq(S) /\ Len(Retain(s, keep)) <= Len(s)
           /\ \A k \in 1..Len(Retain(s, keep)) : \E i \in keep : Retain(s, keep)[k] = s[i]
<1>1. Len(s) \in Nat
  OBVIOUS
<1>2. Cardinality(keep) \in Nat /\ Cardinality(keep) <= Len(s)
  <2>1. IsFiniteSet(1..Len(s)) /\ Cardinality(1..Len(s)) = Len(s)
    BY <1>1, FS_Interval
  <2>2. IsFiniteSet(keep) /\ Cardinality(keep) <= Cardinality(1..Len(s))
    BY <2>1, FS_Subset
  <2> QED
    BY <2>1, <2>2, FS_CardinalityType
<1>3. ASSUME NEW k \in 1..Cardinality(keep)
      PROVE  \E i \in keep : Retain(s, keep)[k] = s[i]
  <2>1. \E i \in keep : Cardinality({j \in keep : j <= i}) = k
    BY <1>1, KthPlace
  <2>2. (CHOOSE i \in keep : Cardinality({j \in keep : j <= i}) = k) \in keep
    BY <2>1
  <2> QED
    BY <2>2 DEF Retain
<1>4. Retain(s, keep) = [k \in 1..Cardinality(keep) |-> Retain(s, keep)[k]]
  BY DEF Retain
<1>5. \A k \in 1..Cardinality(keep) : Retain(s, keep)[k] \in S
  BY <1>3
<1>6. Retain(s, keep) \in Seq(S) /\ Len(Retain(s, keep)) = Cardinality(keep)
  BY <1>2, <1>4, <1>5
<1> QED
  BY <1>2, <1>3, <1>6

----------------------------------------------------------------------------
(* The inductive invariant of provisional transcription                     *)

Segment == [start : Nat, end : Nat, by : Nat]
TextSession == [present : BOOLEAN, active : BOOLEAN, enabled : Nat, segs : Seq(Segment)]
Producer ==
    [rec : Recordings, pc : Running \cup {"unwinding", "done"}, cancelled : BOOLEAN,
     queue : Seq(Nat), dropped : Nat, lastEnd : Nat, window : Nat]
Waiting == [rec : Recordings, seg : Segment]

\* The coordinator's sessions keep their limits and their text its order.
SessionsInv ==
    /\ lts \in [Recordings -> TextSession]
    /\ Cardinality(Present) <= SessionLimit
    /\ \A r \in Recordings : Len(lts[r].segs) <= SegmentLimit
    /\ TextInOrder

\* The undelivered events are bounded and belong to a session.
WaitingInv ==
    /\ events \in Seq(Waiting)
    /\ Len(events) <= EventLimit
    /\ EventsOwned

\* The threads, and who owns them: a slot names a thread of its recording.
ProducersInv ==
    /\ workers \in Seq(Producer)
    /\ \A w \in Ids : Len(workers[w].queue) <= TapCapacity
    /\ slots \in [Recordings -> Nat]
    /\ \A r \in Recordings : slots[r] # 0 => slots[r] \in Ids /\ workers[slots[r]].rec = r

\* The tap: the sender is the consumer that attached last, or none.
TapInv ==
    /\ captured \in Recordings \cup {"none"}
    /\ tap \in [last : Nat, sender : Nat] /\ tap.last \in 0..Len(workers)
    /\ tap.sender \in {0, tap.last}
    /\ publisher \in 0..Len(workers)
    /\ ConsumerLive

LiveInv ==
    /\ SessionsInv /\ WaitingInv /\ ProducersInv /\ TapInv /\ ActiveIsHonest
    /\ tick \in Nat /\ order \in Nat

LEMMA LiveInvIsSafe == LiveInv => LiveSafe
BY DEF LiveInv, LiveSafe, LiveTypeOK, SessionsInv, WaitingInv, ProducersInv, TapInv

LEMMA LiveInitInv == LiveInit => LiveInv
<1> SUFFICES ASSUME LiveInit PROVE LiveInv
  OBVIOUS
<1> USE LiveAssumption DEF LiveInit, NoTranscript, NoTap, Ids
<1>1. SessionsInv
  <2>1. lts \in [Recordings -> TextSession]
    BY DEF TextSession
  <2>2. Present = {}
    BY DEF Present
  <2>3. Cardinality(Present) = 0
    BY <2>2, FS_EmptySet
  <2> QED
    BY <2>1, <2>3 DEF SessionsInv, TextInOrder
<1>2. WaitingInv
  BY DEF WaitingInv, EventsOwned
<1>3. ProducersInv
  BY DEF ProducersInv
<1>4. TapInv
  BY DEF TapInv, ConsumerLive
<1> QED
  BY <1>1, <1>2, <1>3, <1>4 DEF LiveInv, ActiveIsHonest

----------------------------------------------------------------------------
(* What a step may do to each part                                          *)

InOrder(s) == \A i \in 1..Len(s) - 1 : s[i].end <= s[i + 1].start

\* Sessions that only go away keep their limit.
LEMMA FewerSessions ==
    ASSUME SessionsInv, Present' \subseteq Present
    PROVE  Cardinality(Present') <= SessionLimit
<1>1. IsFiniteSet(Recordings)
  BY LiveAssumption
<1>2. Present \subseteq Recordings
  BY DEF Present
<1>3. IsFiniteSet(Present)
  BY <1>1, <1>2, FS_Subset
<1>4. IsFiniteSet(Present') /\ Cardinality(Present') <= Cardinality(Present)
  BY <1>3, FS_Subset
<1>5. Cardinality(Present) \in Nat /\ Cardinality(Present') \in Nat
  BY <1>3, <1>4, FS_CardinalityType
<1> QED
  BY <1>4, <1>5, LiveAssumption DEF SessionsInv

\* One session is replaced by one in order.
LEMMA SessionReplaced ==
    ASSUME SessionsInv, NEW r \in Recordings, NEW x \in TextSession,
           lts' = [lts EXCEPT ![r] = x], x.present => lts[r].present,
           Len(x.segs) <= SegmentLimit, InOrder(x.segs)
    PROVE  /\ SessionsInv'
           /\ lts'[r] = x
           /\ \A q \in Recordings : q # r => lts'[q] = lts[q]
<1>1. lts \in [Recordings -> TextSession]
  BY DEF SessionsInv
<1>2. lts' \in [Recordings -> TextSession]
  BY <1>1
<1>3. lts'[r] = x /\ \A q \in Recordings : q # r => lts'[q] = lts[q]
  BY <1>1
<1>4. Present' \subseteq Present
  BY <1>3 DEF Present
<1>5. Cardinality(Present') <= SessionLimit
  BY <1>4, FewerSessions
<1>6. \A q \in Recordings : Len(lts'[q].segs) <= SegmentLimit
  BY <1>3 DEF SessionsInv
<1>7. TextInOrder'
  <2> SUFFICES ASSUME NEW q \in Recordings
               PROVE  \A i \in 1..Len(lts'[q].segs) - 1 :
                          lts'[q].segs[i].end <= lts'[q].segs[i + 1].start
    BY DEF TextInOrder
  <2>1. CASE q = r
    BY <1>3, <2>1 DEF InOrder
  <2>2. CASE q # r
    BY <1>3, <2>2 DEF SessionsInv, TextInOrder
  <2> QED
    BY <2>1, <2>2
<1> QED
  BY <1>2, <1>3, <1>5, <1>6, <1>7 DEF SessionsInv

\* A session that loses its flag or is dropped is a session.
LEMMA SessionForms ==
    ASSUME SessionsInv, NEW r \in Recordings
    PROVE  /\ NoTranscript \in TextSession /\ NoTranscript.segs = <<>>
           /\ ~NoTranscript.present /\ ~NoTranscript.active
           /\ lts[r] \in TextSession /\ InOrder(lts[r].segs) /\ InOrder(<<>>)
           /\ \A b \in BOOLEAN : /\ [lts[r] EXCEPT !.active = b] \in TextSession
                                 /\ [lts[r] EXCEPT !.active = b].segs = lts[r].segs
                                 /\ [lts[r] EXCEPT !.active = b].present = lts[r].present
                                 /\ [lts[r] EXCEPT !.active = b].active = b
           /\ Len(<<>>) <= SegmentLimit
<1>1. lts[r] \in TextSession
  BY DEF SessionsInv
<1>2. NoTranscript \in TextSession /\ NoTranscript.segs = <<>> /\ ~NoTranscript.present /\ ~NoTranscript.active
  BY DEF NoTranscript, TextSession
<1>3. InOrder(lts[r].segs)
  BY DEF SessionsInv, TextInOrder, InOrder
<1>4. InOrder(<<>>) /\ Len(<<>>) <= SegmentLimit
  BY LiveAssumption DEF InOrder
<1> QED
  BY <1>1, <1>2, <1>3, <1>4 DEF TextSession

\* The events of the recordings in gone are dropped, in whichever way the
\* others' sessions stay.
LEMMA EventsRetained ==
    ASSUME WaitingInv, NEW gone,
           events' = Retain(events, {i \in DOMAIN events : events[i].rec \notin gone}),
           \A q \in Recordings : q \notin gone /\ lts[q].present => lts'[q].present
    PROVE  WaitingInv'
<1> DEFINE keep == {i \in DOMAIN events : events[i].rec \notin gone}
<1>1. events \in Seq(Waiting) /\ Len(events) \in Nat /\ DOMAIN events = 1..Len(events)
  BY DEF WaitingInv
<1>2. keep \in SUBSET (1..Len(events))
  BY <1>1
<1>3. /\ events' \in Seq(Waiting) /\ Len(events') <= Len(events)
      /\ \A k \in 1..Len(events') : \E i \in keep : events'[k] = events[i]
  <2> HIDE DEF keep
  <2>1. events' = Retain(events, keep)
    BY DEF keep
  <2>2. /\ Retain(events, keep) \in Seq(Waiting) /\ Len(Retain(events, keep)) <= Len(events)
        /\ \A k \in 1..Len(Retain(events, keep)) : \E i \in keep : Retain(events, keep)[k] = events[i]
    BY <1>1, <1>2, RetainIs, Zenon
  <2> QED
    BY <2>1, <2>2
<1>4. ASSUME NEW k \in 1..Len(events')
      PROVE  lts'[events'[k].rec].present
  <2>1. PICK i \in keep : events'[k] = events[i]
    BY <1>3
  <2>4. i \in 1..Len(events) /\ events[i].rec \notin gone
    BY <1>1
  <2>5. events[i] \in Waiting
    BY <1>1, <2>4
  <2>2. i \in 1..Len(events) /\ events[i].rec \notin gone /\ events[i].rec \in Recordings
    BY <2>4, <2>5 DEF Waiting
  <2>3. lts[events[i].rec].present
    BY <2>2 DEF WaitingInv, EventsOwned
  <2> QED
    BY <2>1, <2>2, <2>3
<1>5. Len(events') <= EventLimit
  BY <1>1, <1>3, LiveAssumption DEF WaitingInv
<1> QED
  BY <1>3, <1>4, <1>5 DEF WaitingInv, EventsOwned

LEMMA OthersRetained ==
    ASSUME WaitingInv, NEW r \in Recordings, events' = OtherEvents(r),
           \A q \in Recordings : q # r => lts'[q] = lts[q]
    PROVE  WaitingInv'
<1>1. {i \in DOMAIN events : events[i].rec # r} = {i \in DOMAIN events : events[i].rec \notin {r}}
  OBVIOUS
<1>2. events' = Retain(events, {i \in DOMAIN events : events[i].rec \notin {r}})
  BY <1>1 DEF OtherEvents
<1> QED
  BY <1>2, EventsRetained

LEMMA EventsStay ==
    ASSUME WaitingInv, UNCHANGED events,
           \A q \in Recordings : lts[q].present => lts'[q].present
    PROVE  WaitingInv'
<1>2. \A i \in 1..Len(events) : events[i] \in Waiting
  BY DEF WaitingInv
<1>1. \A i \in 1..Len(events) : events[i].rec \in Recordings
  BY <1>2 DEF Waiting
<1> QED
  BY <1>1 DEF WaitingInv, EventsOwned

\* Slots lose their thread or keep it; one thread changes, never its recording.
LEMMA ProducerReplaced ==
    ASSUME ProducersInv, NEW w \in Ids, NEW x \in Producer,
           x.rec = workers[w].rec, Len(x.queue) <= TapCapacity,
           workers' = [workers EXCEPT ![w] = x],
           slots' \in [Recordings -> Nat],
           \A r \in Recordings : slots'[r] = 0 \/ slots'[r] = slots[r]
    PROVE  /\ ProducersInv'
           /\ Len(workers') = Len(workers) /\ Ids' = Ids
           /\ workers'[w] = x
           /\ \A v \in Ids : v # w => workers'[v] = workers[v]
<1>1. workers \in Seq(Producer) /\ Len(workers) \in Nat /\ DOMAIN workers = 1..Len(workers)
  BY DEF ProducersInv
<1>2. workers' \in Seq(Producer) /\ Len(workers') = Len(workers)
  BY <1>1 DEF Ids
<1>3. Ids' = Ids
  BY <1>2 DEF Ids
<1>4. workers'[w] = x /\ \A v \in Ids : v # w => workers'[v] = workers[v]
  BY <1>1 DEF Ids
<1>5. \A v \in Ids' : Len(workers'[v].queue) <= TapCapacity
  BY <1>3, <1>4 DEF ProducersInv
<1>6. \A r \in Recordings : slots'[r] # 0 => slots'[r] \in Ids' /\ workers'[slots'[r]].rec = r
  <2> SUFFICES ASSUME NEW r \in Recordings, slots'[r] # 0
               PROVE  slots'[r] \in Ids' /\ workers'[slots'[r]].rec = r
    OBVIOUS
  <2>1. slots'[r] = slots[r] /\ slots[r] \in Ids /\ workers[slots[r]].rec = r
    BY DEF ProducersInv
  <2> QED
    BY <1>3, <1>4, <2>1
<1> QED
  BY <1>2, <1>3, <1>4, <1>5, <1>6 DEF ProducersInv

\* A thread that goes on, or whose recording is not said to be active any
\* more, keeps the flag honest.
LEMMA HonestStays ==
    ASSUME ActiveIsHonest, NEW w \in Ids, NEW x,
           Ids' = Ids, workers'[w] = x, x.rec = workers[w].rec,
           \A v \in Ids : v # w => workers'[v] = workers[v],
           \A r \in Recordings : lts'[r].active => lts[r].active,
           \/ (x.cancelled => workers[w].cancelled) /\ x.pc # "done"
           \/ ~lts'[workers[w].rec].active
    PROVE  ActiveIsHonest'
<1> SUFFICES ASSUME NEW r \in Recordings, lts'[r].active
             PROVE  \E v \in Ids : /\ workers'[v].rec = r /\ ~workers'[v].cancelled
                                   /\ workers'[v].pc # "done"
  BY DEF ActiveIsHonest
<1>1. PICK v \in Ids : workers[v].rec = r /\ ~workers[v].cancelled /\ workers[v].pc # "done"
  BY DEF ActiveIsHonest
<1>2. CASE v = w
  BY <1>1, <1>2
<1>3. CASE v # w
  BY <1>1, <1>3
<1> QED
  BY <1>2, <1>3

LEMMA HonestUntouched ==
    ASSUME ActiveIsHonest, UNCHANGED workers,
           \A r \in Recordings : lts'[r].active => lts[r].active
    PROVE  ActiveIsHonest'
BY DEF ActiveIsHonest, Ids

\* The tap keeps its consumer, unless it is the thread that stops reading.
LEMMA TapStays ==
    ASSUME TapInv, NEW w \in Ids, NEW x,
           Ids' = Ids, Len(workers') = Len(workers), workers'[w] = x, x.rec = workers[w].rec,
           \A v \in Ids : v # w => workers'[v] = workers[v],
           UNCHANGED captured, publisher' \in {0, publisher},
           \/ tap' = tap /\ (tap.sender = w => ~x.cancelled /\ x.pc \in Running)
           \/ tap' = Detached(tap, w)
           \/ tap' = [tap EXCEPT !.sender = 0]
    PROVE  TapInv'
<1>1. /\ tap \in [last : Nat, sender : Nat] /\ tap.last \in 0..Len(workers)
      /\ tap.sender \in {0, tap.last} /\ publisher \in 0..Len(workers)
      /\ captured \in Recordings \cup {"none"}
  BY DEF TapInv
<1>2. tap.sender # 0 => tap.sender \in Ids
  BY <1>1 DEF Ids
<1>3. /\ tap' \in [last : Nat, sender : Nat] /\ tap'.last = tap.last
      /\ tap'.sender \in {0, tap.sender}
      /\ tap'.sender = w => tap' = tap /\ (w # 0 => ~x.cancelled /\ x.pc \in Running)
  <2>1. w # 0
    BY DEF Ids
  <2>2. CASE tap' = tap /\ (tap.sender = w => ~x.cancelled /\ x.pc \in Running)
    BY <1>1, <2>2
  <2>3. CASE tap' = Detached(tap, w) /\ tap.last = w
    BY <1>1, <2>1, <2>3 DEF Detached
  <2>4. CASE tap' = Detached(tap, w) /\ tap.last # w
    BY <1>1, <2>1, <2>4 DEF Detached
  <2>5. CASE tap' = [tap EXCEPT !.sender = 0]
    BY <1>1, <2>1, <2>5
  <2> QED
    BY <2>2, <2>3, <2>4, <2>5
<1>4. ConsumerLive'
  <2> SUFFICES ASSUME tap'.sender # 0
               PROVE  /\ captured = workers'[tap'.sender].rec
                      /\ ~workers'[tap'.sender].cancelled
                      /\ workers'[tap'.sender].pc \in Running
    BY DEF ConsumerLive
  <2>1. tap'.sender = tap.sender /\ tap.sender \in Ids
    BY <1>2, <1>3
  <2>2. /\ captured = workers[tap.sender].rec /\ ~workers[tap.sender].cancelled
        /\ workers[tap.sender].pc \in Running
    BY <2>1 DEF TapInv, ConsumerLive
  <2>3. CASE tap.sender = w
    BY <1>3, <2>1, <2>2, <2>3
  <2>4. CASE tap.sender # w
    BY <2>1, <2>2, <2>4
  <2> QED
    BY <2>3, <2>4
<1>5. publisher' \in 0..Len(workers')
  BY <1>1
<1> QED
  BY <1>1, <1>3, <1>4, <1>5 DEF TapInv

\* The same when no thread changes.
LEMMA TapUntouched ==
    ASSUME TapInv, UNCHANGED <<workers, captured>>, publisher' \in 0..Len(workers),
           tap' = tap \/ tap' = [tap EXCEPT !.sender = 0]
    PROVE  TapInv'
<1>1. tap \in [last : Nat, sender : Nat] /\ tap.last \in 0..Len(workers) /\ tap.sender \in {0, tap.last}
  BY DEF TapInv
<1>2. tap' \in [last : Nat, sender : Nat] /\ tap'.last = tap.last /\ tap'.sender \in {0, tap.sender}
  BY <1>1
<1> QED
  BY <1>1, <1>2 DEF TapInv, ConsumerLive

LEMMA SlotsShrink ==
    ASSUME ProducersInv, UNCHANGED workers, slots' \in [Recordings -> Nat],
           \A r \in Recordings : slots'[r] = 0 \/ slots'[r] = slots[r]
    PROVE  ProducersInv'
BY DEF ProducersInv, Ids

LEMMA ReapedIs ==
    ASSUME ProducersInv
    PROVE  /\ Reaped \in [Recordings -> Nat]
           /\ \A r \in Recordings : Reaped[r] = 0 \/ Reaped[r] = slots[r]
BY DEF ProducersInv, Reaped

----------------------------------------------------------------------------
(* One lemma per operation                                                  *)

\* A session is dropped with its events and nothing else moves.
LEMMA SessionDropped ==
    ASSUME LiveInv, NEW r \in Recordings,
           lts' = [lts EXCEPT ![r] = NoTranscript], events' = OtherEvents(r),
           UNCHANGED <<captured, tap, publisher, workers, slots, tick, order>>
    PROVE  LiveInv'
<1> USE DEF LiveInv
<1>1. /\ SessionsInv' /\ lts'[r] = NoTranscript
      /\ \A q \in Recordings : q # r => lts'[q] = lts[q]
  <2>1. /\ NoTranscript \in TextSession /\ ~NoTranscript.present
        /\ Len(NoTranscript.segs) <= SegmentLimit /\ InOrder(NoTranscript.segs)
    BY SessionForms
  <2> QED
    BY <2>1, SessionReplaced
<1>2. WaitingInv'
  BY <1>1, OthersRetained
<1>3. ProducersInv'
  BY DEF ProducersInv, Ids
<1>4. TapInv'
  BY DEF TapInv, ConsumerLive
<1>5. ActiveIsHonest'
  <2>1. \A q \in Recordings : lts'[q].active => lts[q].active
    BY <1>1, SessionForms
  <2> QED
    BY <2>1, HonestUntouched
<1> QED
  BY <1>1, <1>2, <1>3, <1>4, <1>5

LEMMA ReconcileInv ==
    ASSUME LiveInv, NEW r \in Recordings, ReconcileCommitted(r)
    PROVE  LiveInv'
BY SessionDropped DEF ReconcileCommitted

LEMMA RemoveInv ==
    ASSUME LiveInv, NEW r \in Recordings, RemoveForDeletion(r)
    PROVE  LiveInv'
BY SessionDropped DEF RemoveForDeletion

LEMMA ClearInv ==
    ASSUME LiveInv, NEW r \in Recordings, Clear(r)
    PROVE  LiveInv'
<1> USE DEF LiveInv
<1> DEFINE x == [lts[r] EXCEPT !.segs = <<>>]
<1>0. lts \in [Recordings -> TextSession] /\ lts[r] \in TextSession
  BY DEF SessionsInv
<1>6. x \in TextSession /\ x.segs = <<>> /\ x.present = lts[r].present /\ x.active = lts[r].active
  <2>1. <<>> \in Seq(Segment)
    OBVIOUS
  <2> QED
    BY <1>0, <2>1 DEF TextSession
<1>7. lts' = [lts EXCEPT ![r] = x]
  BY <1>0 DEF Clear
<1> HIDE DEF x
<1>1. /\ SessionsInv' /\ lts'[r] = x
      /\ \A q \in Recordings : q # r => lts'[q] = lts[q]
  <2>1. InOrder(x.segs) /\ Len(x.segs) <= SegmentLimit
    BY <1>6, SessionForms
  <2> QED
    BY <1>6, <1>7, <2>1, SessionReplaced
<1>2. WaitingInv'
  BY <1>1, OthersRetained DEF Clear
<1>3. ProducersInv'
  BY DEF ProducersInv, Ids, Clear
<1>4. TapInv'
  BY DEF TapInv, ConsumerLive, Clear
<1>5. ActiveIsHonest'
  <2>1. \A q \in Recordings : lts'[q].active => lts[q].active
    BY <1>1, <1>6
  <2> QED
    BY <2>1, HonestUntouched DEF Clear
<1> QED
  BY <1>1, <1>2, <1>3, <1>4, <1>5 DEF Clear

LEMMA StartRefusedInv ==
    ASSUME LiveInv, NEW r \in Recordings, StartRefused(r)
    PROVE  LiveInv'
<1> USE DEF LiveInv
<1> DEFINE x == [lts[r] EXCEPT !.active = FALSE]
<1>0. lts \in [Recordings -> TextSession]
  BY DEF SessionsInv
<1>6. /\ x \in TextSession /\ x.segs = lts[r].segs /\ x.present = lts[r].present /\ ~x.active
      /\ InOrder(lts[r].segs)
  BY SessionForms
<1>7. lts' = [lts EXCEPT ![r] = x]
  BY <1>0 DEF StartRefused
<1> HIDE DEF x
<1>1. /\ SessionsInv' /\ lts'[r] = x
      /\ \A q \in Recordings : q # r => lts'[q] = lts[q]
  <2>1. InOrder(x.segs) /\ Len(x.segs) <= SegmentLimit
    BY <1>6 DEF SessionsInv
  <2> QED
    BY <1>6, <1>7, <2>1, SessionReplaced
<1>2. WaitingInv'
  <2>1. \A q \in Recordings : lts[q].present => lts'[q].present
    BY <1>1, <1>6
  <2> QED
    BY <2>1, EventsStay DEF StartRefused
<1>3. ProducersInv'
  BY ReapedIs, SlotsShrink DEF StartRefused
<1>4. TapInv'
  BY DEF TapInv, ConsumerLive, StartRefused
<1>5. ActiveIsHonest'
  <2>1. \A q \in Recordings : lts'[q].active => lts[q].active
    BY <1>1, <1>6
  <2> QED
    BY <2>1, HonestUntouched DEF StartRefused
<1> QED
  BY <1>1, <1>2, <1>3, <1>4, <1>5 DEF StartRefused

LEMMA DrainInv ==
    ASSUME LiveInv, DrainEvents
    PROVE  LiveInv'
<1> USE DEF LiveInv
<1>1. events \in Seq(Waiting) /\ Len(events) \in Nat /\ DrainLimit \in Nat \ {0}
  BY LiveAssumption DEF WaitingInv
<1>2. /\ events' \in Seq(Waiting) /\ Len(events') <= Len(events)
      /\ \A k \in 1..Len(events') : \E i \in 1..Len(events) : events'[k] = events[i]
  <2>1. CASE Len(events) <= DrainLimit
    <3>1. events' = <<>>
      BY <2>1 DEF DrainEvents
    <3> QED
      BY <1>1, <3>1
  <2>2. CASE ~(Len(events) <= DrainLimit)
    <3>1. events' = SubSeq(events, DrainLimit + 1, Len(events))
      BY <2>2 DEF DrainEvents
    <3>2. events' \in Seq(Waiting) /\ Len(events') = Len(events) - DrainLimit
      BY <1>1, <2>2, <3>1
    <3>3. \A k \in 1..Len(events') : events'[k] = events[k + DrainLimit] /\ k + DrainLimit \in 1..Len(events)
      BY <1>1, <2>2, <3>1, <3>2
    <3> QED
      BY <1>1, <3>2, <3>3
  <2> QED
    BY <2>1, <2>2
<1>3. EventsOwned'
  BY <1>2 DEF WaitingInv, EventsOwned, DrainEvents
<1>4. Len(events') <= EventLimit
  BY <1>1, <1>2, LiveAssumption DEF WaitingInv
<1>5. WaitingInv'
  BY <1>2, <1>3, <1>4 DEF WaitingInv
<1>6. SessionsInv' /\ ActiveIsHonest'
  BY DEF SessionsInv, Present, TextInOrder, ActiveIsHonest, Ids, DrainEvents
<1>7. ProducersInv' /\ TapInv'
  BY DEF ProducersInv, TapInv, Ids, ConsumerLive, DrainEvents
<1> QED
  BY <1>5, <1>6, <1>7 DEF DrainEvents

LEMMA EnableInv ==
    ASSUME LiveInv, NEW r \in Recordings, Enable(r)
    PROVE  LiveInv'
<1> USE DEF LiveInv
<1> DEFINE new == [NoTranscript EXCEPT !.present = TRUE, !.enabled = order]
<1>1. PICK out \in {{}} \cup {{q} : q \in Evictable} :
         /\ Cardinality(Present) >= SessionLimit <=> out # {}
         /\ lts' = [q \in Recordings |->
                      IF q = r THEN new
                      ELSE IF q \in out THEN NoTranscript ELSE lts[q]]
         /\ events' = Retain(events, {i \in DOMAIN events : events[i].rec \notin out})
  BY DEF Enable
<1>2. lts \in [Recordings -> TextSession] /\ order \in Nat /\ ~lts[r].present
  BY DEF SessionsInv, Enable
<1>3. /\ new \in TextSession /\ new.present /\ ~new.active /\ new.segs = <<>>
      /\ NoTranscript \in TextSession /\ ~NoTranscript.present /\ ~NoTranscript.active
      /\ NoTranscript.segs = <<>>
  <2>1. <<>> \in Seq(Segment)
    OBVIOUS
  <2> QED
    BY <1>2, <2>1 DEF NoTranscript, TextSession
<1> HIDE DEF new
<1>4. /\ lts' \in [Recordings -> TextSession] /\ lts'[r] = new
      /\ \A q \in Recordings : q # r /\ q \in out => lts'[q] = NoTranscript
      /\ \A q \in Recordings : q # r /\ q \notin out => lts'[q] = lts[q]
  BY <1>1, <1>2, <1>3
<1>5. \A q \in Recordings : /\ InOrder(lts'[q].segs) /\ Len(lts'[q].segs) <= SegmentLimit
                            /\ lts'[q].active => lts[q].active
  <2> SUFFICES ASSUME NEW q \in Recordings
               PROVE  /\ InOrder(lts'[q].segs) /\ Len(lts'[q].segs) <= SegmentLimit
                      /\ lts'[q].active => lts[q].active
    OBVIOUS
  <2>1. /\ InOrder(<<>>) /\ Len(<<>>) <= SegmentLimit
        /\ InOrder(lts[q].segs) /\ Len(lts[q].segs) <= SegmentLimit
    BY SessionForms DEF SessionsInv
  <2>2. CASE q = r
    BY <1>3, <1>4, <2>1, <2>2
  <2>3. CASE q # r /\ q \in out
    BY <1>3, <1>4, <2>1, <2>3
  <2>4. CASE q # r /\ q \notin out
    BY <1>4, <2>1, <2>4
  <2> QED
    BY <2>2, <2>3, <2>4
<1>6. Cardinality(Present') <= SessionLimit
  <2>1. Present \subseteq Recordings /\ r \notin Present
    BY <1>2 DEF Present
  <2>2. IsFiniteSet(Present)
    BY <2>1, LiveAssumption, FS_Subset
  <2>3. Cardinality(Present) \in Nat /\ SessionLimit \in Nat \ {0} /\ Cardinality(Present) <= SessionLimit
    BY <2>2, FS_CardinalityType, LiveAssumption DEF SessionsInv
  <2>4. CASE out = {}
    <3>1. Present' = Present \cup {r}
      BY <1>3, <1>4, <2>4 DEF Present
    <3>2. Cardinality(Present') = Cardinality(Present) + 1
      BY <2>1, <2>2, <3>1, FS_AddElement
    <3>3. ~(Cardinality(Present) >= SessionLimit)
      BY <1>1, <2>4
    <3> QED
      BY <2>3, <3>2, <3>3
  <2>5. CASE out # {}
    <3>1. PICK q \in Evictable : out = {q}
      BY <1>1, <2>5
    <3>2. q \in Present /\ q # r
      BY <2>1, <3>1 DEF Evictable
    <3>3. Present' = (Present \ {q}) \cup {r}
      BY <1>3, <1>4, <3>1, <3>2 DEF Present
    <3>4. IsFiniteSet(Present \ {q}) /\ Cardinality(Present \ {q}) = Cardinality(Present) - 1
      BY <2>2, <3>2, FS_RemoveElement
    <3>5. Cardinality(Present') = Cardinality(Present \ {q}) + 1
      BY <2>1, <3>3, <3>4, FS_AddElement
    <3> QED
      BY <2>3, <3>4, <3>5
  <2> QED
    BY <2>4, <2>5
<1>7. TextInOrder'
  BY <1>5 DEF InOrder, TextInOrder
<1>8. SessionsInv'
  BY <1>4, <1>5, <1>6, <1>7 DEF SessionsInv
<1>9. WaitingInv'
  <2>1. \A q \in Recordings : q \notin out /\ lts[q].present => lts'[q].present
    BY <1>3, <1>4
  <2> QED
    BY <1>1, <2>1, EventsRetained
<1>10. ActiveIsHonest'
  BY <1>5, HonestUntouched DEF Enable
<1>11. ProducersInv' /\ TapInv'
  BY DEF ProducersInv, TapInv, Ids, ConsumerLive, Enable
<1> QED
  BY <1>2, <1>8, <1>9, <1>10, <1>11 DEF Enable

LEMMA CaptureBeginsInv ==
    ASSUME LiveInv, NEW r \in Recordings, CaptureBegins(r)
    PROVE  LiveInv'
<1> USE DEF LiveInv
<1>1. SessionsInv' /\ WaitingInv' /\ ActiveIsHonest'
  BY DEF SessionsInv, Present, TextInOrder, WaitingInv, EventsOwned, ActiveIsHonest, Ids, CaptureBegins
<1>2. ProducersInv'
  BY DEF ProducersInv, Ids, CaptureBegins
<1>3. TapInv'
  <2>1. Len(workers) \in Nat
    BY DEF ProducersInv
  <2> QED
    BY <2>1 DEF TapInv, ConsumerLive, CaptureBegins, NoTap
<1> QED
  BY <1>1, <1>2, <1>3 DEF CaptureBegins

LEMMA LiveStartInv ==
    ASSUME LiveInv, NEW r \in Recordings, LiveStart(r)
    PROVE  LiveInv'
<1> USE DEF LiveInv
<1> DEFINE x == [lts[r] EXCEPT !.active = TRUE]
           n == Len(workers) + 1
<1>0. lts \in [Recordings -> TextSession]
  BY DEF SessionsInv
<1>1. /\ x \in TextSession /\ x.segs = lts[r].segs /\ x.present = lts[r].present
      /\ InOrder(lts[r].segs)
  BY SessionForms
<1>2. lts' = [lts EXCEPT ![r] = x]
  BY <1>0 DEF LiveStart
<1> HIDE DEF x
<1>3. /\ SessionsInv' /\ lts'[r] = x
      /\ \A q \in Recordings : q # r => lts'[q] = lts[q]
  <2>1. InOrder(x.segs) /\ Len(x.segs) <= SegmentLimit
    BY <1>1 DEF SessionsInv
  <2> QED
    BY <1>1, <1>2, <2>1, SessionReplaced
<1>4. WaitingInv'
  <2>1. \A q \in Recordings : lts[q].present => lts'[q].present
    BY <1>1, <1>3
  <2> QED
    BY <2>1, EventsStay DEF LiveStart
<1>5. /\ NewWorker(r) \in Producer /\ NewWorker(r).rec = r /\ ~NewWorker(r).cancelled
      /\ NewWorker(r).pc \in Running /\ NewWorker(r).pc # "done" /\ NewWorker(r).queue = <<>>
  BY DEF NewWorker, Producer, Running
<1>6. workers \in Seq(Producer) /\ Len(workers) \in Nat
  BY DEF ProducersInv
<1>7. workers' = Append(workers, NewWorker(r))
  BY DEF LiveStart
<1>8. /\ workers' \in Seq(Producer) /\ Len(workers') = n /\ workers'[n] = NewWorker(r)
      /\ \A v \in Ids : workers'[v] = workers[v] /\ v \in Ids'
      /\ n \in Ids' /\ n \in Nat /\ n # 0
      /\ \A v \in Ids' : v \in Ids \/ v = n
  BY <1>5, <1>6, <1>7 DEF Ids
<1> HIDE DEF n
<1>9. ProducersInv'
  <2>1. \A v \in Ids' : Len(workers'[v].queue) <= TapCapacity
    BY <1>5, <1>8, LiveAssumption DEF ProducersInv
  <2>2. slots' = [Reaped EXCEPT ![r] = n]
    BY DEF LiveStart, n
  <2>3. slots' \in [Recordings -> Nat] /\ slots'[r] = n
    BY <1>8, <2>2, ReapedIs
  <2>4. \A q \in Recordings : slots'[q] # 0 => slots'[q] \in Ids' /\ workers'[slots'[q]].rec = q
    <3> SUFFICES ASSUME NEW q \in Recordings, slots'[q] # 0
                 PROVE  slots'[q] \in Ids' /\ workers'[slots'[q]].rec = q
      OBVIOUS
    <3>1. CASE q = r
      BY <1>5, <1>8, <2>3, <3>1
    <3>2. CASE q # r
      <4>1. slots'[q] = slots[q]
        BY <2>2, <3>2, ReapedIs
      <4> QED
        BY <1>8, <4>1 DEF ProducersInv
    <3> QED
      BY <3>1, <3>2
  <2> QED
    BY <1>8, <2>1, <2>3, <2>4 DEF ProducersInv
<1>10. TapInv'
  <2>1. /\ tap' = [last |-> n, sender |-> n] /\ captured' = r /\ publisher' = publisher
        /\ captured' = captured
    BY DEF LiveStart, n
  <2>2. tap'.sender = n /\ tap'.last = n /\ tap' \in [last : Nat, sender : Nat]
    BY <1>8, <2>1
  <2>3. ConsumerLive'
    BY <1>5, <1>8, <2>1, <2>2 DEF ConsumerLive
  <2>4. publisher' \in 0..Len(workers') /\ tap'.last \in 0..Len(workers')
    BY <1>6, <1>8, <2>1, <2>2 DEF TapInv, n
  <2> QED
    BY <2>1, <2>2, <2>3, <2>4 DEF TapInv
<1>11. ActiveIsHonest'
  <2> SUFFICES ASSUME NEW q \in Recordings, lts'[q].active
               PROVE  \E v \in Ids' : /\ workers'[v].rec = q /\ ~workers'[v].cancelled
                                      /\ workers'[v].pc # "done"
    BY DEF ActiveIsHonest
  <2>1. CASE q = r
    BY <1>5, <1>8, <2>1
  <2>2. CASE q # r
    <3>1. PICK v \in Ids : workers[v].rec = q /\ ~workers[v].cancelled /\ workers[v].pc # "done"
      BY <1>3, <2>2 DEF ActiveIsHonest
    <3> QED
      BY <1>8, <3>1
  <2> QED
    BY <2>1, <2>2
<1> QED
  BY <1>3, <1>4, <1>9, <1>10, <1>11 DEF LiveStart

\* The forms a thread takes.
LEMMA ProducerForms ==
    ASSUME ProducersInv, NEW w \in Ids
    PROVE  /\ workers[w] \in Producer /\ Len(workers[w].queue) <= TapCapacity
           /\ w \in Nat /\ w # 0
           /\ [workers EXCEPT ![w].cancelled = TRUE] =
                [workers EXCEPT ![w] = [workers[w] EXCEPT !.cancelled = TRUE]]
           /\ \A p : [workers EXCEPT ![w].pc = p] =
                [workers EXCEPT ![w] = [workers[w] EXCEPT !.pc = p]]
           /\ [workers EXCEPT ![w].pc = "unwinding", ![w].queue = <<>>] =
                [workers EXCEPT ![w] = [workers[w] EXCEPT !.pc = "unwinding", !.queue = <<>>]]
<1>1. workers \in Seq(Producer) /\ Len(workers) \in Nat /\ DOMAIN workers = 1..Len(workers)
  BY DEF ProducersInv
<1>2. workers[w] \in Producer /\ w \in DOMAIN workers
  BY <1>1 DEF Ids
<1>3. Len(workers[w].queue) <= TapCapacity
  BY DEF ProducersInv
<1>4. w \in Nat /\ w # 0
  BY <1>1 DEF Ids
<1>5. /\ [workers EXCEPT ![w].cancelled = TRUE] =
           [workers EXCEPT ![w] = [workers[w] EXCEPT !.cancelled = TRUE]]
      /\ \A p : [workers EXCEPT ![w].pc = p] =
           [workers EXCEPT ![w] = [workers[w] EXCEPT !.pc = p]]
  OBVIOUS
<1>6. [workers EXCEPT ![w].pc = "unwinding", ![w].queue = <<>>] =
        [workers EXCEPT ![w] = [workers[w] EXCEPT !.pc = "unwinding", !.queue = <<>>]]
  BY <1>1, <1>2
<1> QED
  BY <1>2, <1>3, <1>4, <1>5, <1>6

\* A step of one thread that is not told to stop, reports no end and touches
\* neither sessions nor events.
LEMMA ProducerSteps ==
    ASSUME LiveInv, NEW w \in Ids, NEW x \in Producer,
           x.rec = workers[w].rec, Len(x.queue) <= TapCapacity,
           workers' = [workers EXCEPT ![w] = x],
           x.cancelled = workers[w].cancelled, x.pc # "done",
           \/ tap' = tap /\ (tap.sender = w => x.pc \in Running)
           \/ tap' = Detached(tap, w)
           \/ tap' = [tap EXCEPT !.sender = 0],
           publisher' \in {0, publisher}, UNCHANGED <<captured, slots, tick, order>>
    PROVE  /\ ProducersInv' /\ TapInv' /\ tick' \in Nat /\ order' \in Nat
           /\ UNCHANGED lts => SessionsInv' /\ ActiveIsHonest'
           /\ UNCHANGED <<lts, events>> => LiveInv'
<1> USE DEF LiveInv
<1>1. /\ ProducersInv' /\ Len(workers') = Len(workers) /\ Ids' = Ids /\ workers'[w] = x
      /\ \A v \in Ids : v # w => workers'[v] = workers[v]
  <2>1. slots' \in [Recordings -> Nat] /\ \A r \in Recordings : slots'[r] = 0 \/ slots'[r] = slots[r]
    BY DEF ProducersInv
  <2> QED
    BY <2>1, ProducerReplaced
<1>2. TapInv'
  <2>1. w # 0
    BY DEF Ids
  <2>2. tap.sender = w => ~x.cancelled
    BY <2>1 DEF TapInv, ConsumerLive
  <2>3. \/ tap' = tap /\ (tap.sender = w => ~x.cancelled /\ x.pc \in Running)
        \/ tap' = Detached(tap, w)
        \/ tap' = [tap EXCEPT !.sender = 0]
    BY <2>2
  <2> QED
    BY <1>1, <2>3, TapStays
<1>3. ASSUME UNCHANGED lts PROVE SessionsInv' /\ ActiveIsHonest'
  <2>1. SessionsInv'
    BY <1>3 DEF SessionsInv, Present, TextInOrder
  <2>2. ActiveIsHonest'
    BY <1>1, <1>3, HonestStays
  <2> QED
    BY <2>1, <2>2
<1>4. ASSUME UNCHANGED <<lts, events>> PROVE LiveInv'
  <2>1. WaitingInv'
    BY <1>4 DEF WaitingInv, EventsOwned
  <2> QED
    BY <1>1, <1>2, <1>3, <1>4, <2>1
<1> QED
  BY <1>1, <1>2, <1>3, <1>4

LEMMA PublishBeginsInv ==
    ASSUME LiveInv, PublishBegins
    PROVE  LiveInv'
<1> USE DEF LiveInv
<1>1. SessionsInv' /\ WaitingInv' /\ ActiveIsHonest'
  BY DEF SessionsInv, Present, TextInOrder, WaitingInv, EventsOwned, ActiveIsHonest, Ids, PublishBegins
<1>2. ProducersInv'
  BY DEF ProducersInv, Ids, PublishBegins
<1>3. TapInv'
  <2>1. publisher' \in 0..Len(workers)
    BY DEF TapInv, PublishBegins
  <2> QED
    BY <2>1, TapUntouched DEF PublishBegins
<1> QED
  BY <1>1, <1>2, <1>3 DEF PublishBegins

LEMMA PublishEndsInv ==
    ASSUME LiveInv, PublishEnds
    PROVE  LiveInv'
<1> USE DEF LiveInv
<1>1. publisher \in Ids
  BY DEF TapInv, PublishEnds, Ids
<1> DEFINE w == publisher
<1>2. /\ workers \in Seq(Producer) /\ workers[w] \in Producer /\ w \in DOMAIN workers
      /\ Len(workers[w].queue) <= TapCapacity /\ TapCapacity \in Nat
  <2>1. workers \in Seq(Producer) /\ w \in DOMAIN workers
    BY <1>1 DEF ProducersInv, Ids
  <2>2. workers[w] \in Producer /\ Len(workers[w].queue) <= TapCapacity
    BY <1>1, ProducerForms
  <2> QED
    BY <2>1, <2>2, LiveAssumption
<1>3. CASE workers[w].pc \notin Running
  <2>1. /\ tap' = [tap EXCEPT !.sender = 0] /\ publisher' = 0
        /\ UNCHANGED <<workers, lts, events, captured, slots, tick, order>>
    BY <1>3 DEF PublishEnds
  <2>2. publisher' \in 0..Len(workers)
    BY <2>1 DEF ProducersInv
  <2>3. TapInv'
    BY <2>1, <2>2, TapUntouched
  <2>4. SessionsInv' /\ WaitingInv' /\ ActiveIsHonest'
    BY <2>1 DEF SessionsInv, Present, TextInOrder, WaitingInv, EventsOwned, ActiveIsHonest, Ids
  <2>5. ProducersInv'
    BY <2>1 DEF ProducersInv, Ids
  <2> QED
    BY <2>1, <2>3, <2>4, <2>5
<1>4. CASE workers[w].pc \in Running
  <2>1. /\ publisher' = 0 /\ tap' = tap
        /\ UNCHANGED <<lts, events, captured, slots, tick, order>>
    BY <1>4 DEF PublishEnds
  <2>2. CASE Len(workers[w].queue) < TapCapacity
    <3> DEFINE x == [workers[w] EXCEPT !.queue = Append(workers[w].queue, tick)]
    <3>1. workers' = [workers EXCEPT ![w] = x]
      BY <1>2, <1>4, <2>2 DEF PublishEnds
    <3>2. workers[w].queue \in Seq(Nat)
      BY <1>2 DEF Producer
    <3>3. Append(workers[w].queue, tick) \in Seq(Nat) /\ Len(Append(workers[w].queue, tick)) <= TapCapacity
      BY <1>2, <2>2, <3>2
    <3>4. /\ x \in Producer /\ x.rec = workers[w].rec /\ x.cancelled = workers[w].cancelled
          /\ x.pc = workers[w].pc /\ x.queue = Append(workers[w].queue, tick)
      BY <1>2, <3>3 DEF Producer
    <3>5. x.pc # "done" /\ Len(x.queue) <= TapCapacity /\ x.pc \in Running
      BY <1>4, <3>3, <3>4 DEF Running
    <3> HIDE DEF x, w
    <3> QED
      BY <1>1, <2>1, <3>1, <3>4, <3>5, ProducerSteps DEF w
  <2>3. CASE ~(Len(workers[w].queue) < TapCapacity)
    <3> DEFINE x == [workers[w] EXCEPT !.dropped = workers[w].dropped + 1]
    <3>1. workers' = [workers EXCEPT ![w] = x]
      BY <1>2, <1>4, <2>3 DEF PublishEnds
    <3>2. workers[w].dropped + 1 \in Nat
      BY <1>2 DEF Producer
    <3>4. /\ x \in Producer /\ x.rec = workers[w].rec /\ x.cancelled = workers[w].cancelled
          /\ x.pc = workers[w].pc /\ x.queue = workers[w].queue
      BY <1>2, <3>2 DEF Producer
    <3>5. x.pc # "done" /\ Len(x.queue) <= TapCapacity /\ x.pc \in Running
      BY <1>2, <1>4, <3>4 DEF Running
    <3> HIDE DEF x, w
    <3> QED
      BY <1>1, <2>1, <3>1, <3>4, <3>5, ProducerSteps DEF w
  <2> QED
    BY <2>2, <2>3
<1> QED
  BY <1>3, <1>4

\* The end of a worker's run.
LEMMA UnwindInv ==
    ASSUME LiveInv, NEW w \in Ids, Unwind(w),
           UNCHANGED <<lts, events, captured, publisher, slots, tick, order>>
    PROVE  LiveInv'
<1> DEFINE x == [workers[w] EXCEPT !.pc = "unwinding", !.queue = <<>>]
<1>1. workers[w] \in Producer /\ TapCapacity \in Nat
  BY ProducerForms, LiveAssumption DEF LiveInv
<1>2. workers' = [workers EXCEPT ![w] = x] /\ tap' = Detached(tap, w)
  BY ProducerForms DEF Unwind, LiveInv
<1>3. <<>> \in Seq(Nat) /\ Len(<<>>) <= TapCapacity
  BY <1>1
<1>4. /\ x \in Producer /\ x.rec = workers[w].rec /\ x.cancelled = workers[w].cancelled
      /\ x.pc # "done" /\ x.queue = <<>>
  BY <1>1, <1>3 DEF Producer
<1> HIDE DEF x
<1> QED
  BY <1>2, <1>3, <1>4, ProducerSteps

\* A worker that goes on in another state of its loop.
LEMMA GoesOnInv ==
    ASSUME LiveInv, NEW w \in Ids, NEW p \in Running,
           workers' = [workers EXCEPT ![w].pc = p],
           UNCHANGED <<lts, events, captured, tap, publisher, slots, tick, order>>
    PROVE  LiveInv'
<1> DEFINE x == [workers[w] EXCEPT !.pc = p]
<1>1. workers[w] \in Producer /\ Len(workers[w].queue) <= TapCapacity
  BY ProducerForms DEF LiveInv
<1>2. workers' = [workers EXCEPT ![w] = x]
  BY ProducerForms DEF LiveInv
<1>3. /\ x \in Producer /\ x.rec = workers[w].rec /\ x.cancelled = workers[w].cancelled
      /\ x.pc = p /\ x.queue = workers[w].queue /\ p # "done"
  BY <1>1 DEF Producer, Running
<1> HIDE DEF x
<1> QED
  BY <1>1, <1>2, <1>3, ProducerSteps

LEMMA ModelLoadsInv ==
    ASSUME LiveInv, NEW w \in Ids, ModelLoads(w)
    PROVE  LiveInv'
<1>1. CASE workers' = [workers EXCEPT ![w].pc = "listening"] /\ UNCHANGED tap
  <2>1. "listening" \in Running
    BY DEF Running
  <2> QED
    BY <1>1, <2>1, GoesOnInv DEF ModelLoads
<1>2. CASE Unwind(w)
  BY <1>2, UnwindInv DEF ModelLoads
<1> QED
  BY <1>1, <1>2 DEF ModelLoads

LEMMA WorkerReceivesInv ==
    ASSUME LiveInv, NEW w \in Ids, WorkerReceives(w)
    PROVE  LiveInv'
<1>1. CASE Unwind(w)
  BY <1>1, UnwindInv DEF WorkerReceives
<1>2. CASE /\ workers[w].queue # <<>> /\ UNCHANGED tap
           /\ workers' = [workers EXCEPT ![w].pc = "window",
                            ![w].window = Head(workers[w].queue),
                            ![w].queue = Tail(@)]
  <2> DEFINE x == [workers[w] EXCEPT !.pc = "window", !.window = Head(workers[w].queue),
                                     !.queue = Tail(workers[w].queue)]
  <2>1. /\ workers \in Seq(Producer) /\ workers[w] \in Producer /\ w \in DOMAIN workers
        /\ Len(workers[w].queue) <= TapCapacity /\ TapCapacity \in Nat
    <3>1. workers \in Seq(Producer) /\ w \in DOMAIN workers
      BY DEF LiveInv, ProducersInv, Ids
    <3>2. workers[w] \in Producer /\ Len(workers[w].queue) <= TapCapacity
      BY ProducerForms DEF LiveInv
    <3> QED
      BY <3>1, <3>2, LiveAssumption
  <2>2. workers' = [workers EXCEPT ![w] = x]
    BY <1>2, <2>1
  <2>3. workers[w].queue \in Seq(Nat)
    BY <2>1 DEF Producer
  <2>4. /\ Tail(workers[w].queue) \in Seq(Nat) /\ Head(workers[w].queue) \in Nat
        /\ Len(Tail(workers[w].queue)) <= TapCapacity
    BY <1>2, <2>1, <2>3
  <2>5. /\ x \in Producer /\ x.rec = workers[w].rec /\ x.cancelled = workers[w].cancelled
        /\ x.pc = "window" /\ x.queue = Tail(workers[w].queue)
    BY <2>1, <2>4 DEF Producer, Running
  <2>6. "window" \in Running
    BY DEF Running
  <2>7. UNCHANGED <<lts, events, captured, tap, publisher, slots, tick, order>>
    BY <1>2 DEF WorkerReceives
  <2> HIDE DEF x
  <2> QED
    BY <2>2, <2>4, <2>5, <2>6, <2>7, ProducerSteps
<1> QED
  BY <1>1, <1>2 DEF WorkerReceives

LEMMA TranscribeWindowInv ==
    ASSUME LiveInv, NEW w \in Ids, TranscribeWindow(w)
    PROVE  LiveInv'
<1>1. "listening" \in Running /\ "push" \in Running
  BY DEF Running
<1>2. CASE workers' = [workers EXCEPT ![w].pc = "listening"] /\ UNCHANGED tap
  BY <1>1, <1>2, GoesOnInv DEF TranscribeWindow
<1>3. CASE workers' = [workers EXCEPT ![w].pc = "push"] /\ UNCHANGED tap
  BY <1>1, <1>3, GoesOnInv DEF TranscribeWindow
<1>4. CASE Unwind(w)
  BY <1>4, UnwindInv DEF TranscribeWindow
<1> QED
  BY <1>2, <1>3, <1>4 DEF TranscribeWindow

\* Text appended at or after the end of the last stays in order, also when the
\* oldest piece is dropped for it.
LEMMA AppendInOrder ==
    ASSUME NEW s \in Seq(Segment), NEW seg \in Segment, InOrder(s), Len(s) <= SegmentLimit,
           (IF s = <<>> THEN 0 ELSE Last(s).end) <= seg.start,
           NEW kept, kept = IF Len(s) >= SegmentLimit THEN Tail(s) ELSE s
    PROVE  /\ Append(kept, seg) \in Seq(Segment) /\ InOrder(Append(kept, seg))
           /\ Len(Append(kept, seg)) <= SegmentLimit
<1>1. Len(s) \in Nat /\ SegmentLimit \in Nat \ {0}
  BY LiveAssumption
<1>2. /\ kept \in Seq(Segment) /\ Len(kept) < SegmentLimit /\ InOrder(kept)
      /\ kept # <<>> => s # <<>> /\ kept[Len(kept)] = s[Len(s)]
  <2>1. CASE Len(s) >= SegmentLimit
    <3>1. s # <<>> /\ kept = Tail(s)
      BY <1>1, <2>1
    <3>2. /\ kept \in Seq(Segment) /\ Len(kept) = Len(s) - 1
          /\ \A i \in 1..Len(kept) : kept[i] = s[i + 1]
      BY <3>1
    <3>3. InOrder(kept)
      <4> SUFFICES ASSUME NEW i \in 1..Len(kept) - 1
                   PROVE  kept[i].end <= kept[i + 1].start
        BY DEF InOrder
      <4>1. i \in 1..Len(kept) /\ i + 1 \in 1..Len(kept) /\ i + 1 \in 1..Len(s) - 1
        BY <1>1, <3>2
      <4>2. s[i + 1].end <= s[(i + 1) + 1].start
        BY <4>1 DEF InOrder
      <4> QED
        BY <3>2, <4>1, <4>2
    <3>4. kept # <<>> => kept[Len(kept)] = s[Len(s)]
      <4> SUFFICES ASSUME kept # <<>> PROVE kept[Len(kept)] = s[Len(s)]
        OBVIOUS
      <4>1. Len(kept) \in 1..Len(kept)
        BY <3>2
      <4>2. kept[Len(kept)] = s[Len(kept) + 1]
        BY <3>2, <4>1
      <4>3. Len(kept) + 1 = Len(s)
        BY <1>1, <3>2
      <4> QED
        BY <4>2, <4>3
    <3>5. Len(kept) < SegmentLimit
      BY <1>1, <3>2
    <3> QED
      BY <3>1, <3>2, <3>3, <3>4, <3>5
  <2>2. CASE ~(Len(s) >= SegmentLimit)
    BY <1>1, <2>2
  <2> QED
    BY <2>1, <2>2
<1>3. /\ Append(kept, seg) \in Seq(Segment) /\ Len(Append(kept, seg)) = Len(kept) + 1
      /\ Append(kept, seg)[Len(kept) + 1] = seg /\ Len(kept) \in Nat
      /\ \A i \in 1..Len(kept) : Append(kept, seg)[i] = kept[i]
  BY <1>2
<1>4. InOrder(Append(kept, seg))
  <2> SUFFICES ASSUME NEW i \in 1..Len(Append(kept, seg)) - 1
               PROVE  Append(kept, seg)[i].end <= Append(kept, seg)[i + 1].start
    BY DEF InOrder
  <2>1. i \in 1..Len(kept)
    BY <1>3
  <2>2. CASE i = Len(kept)
    <3>1. kept # <<>>
      BY <1>2, <2>1
    <3>2. kept[i].end <= seg.start
      BY <1>2, <2>2, <3>1 DEF Last
    <3> QED
      BY <1>3, <2>1, <2>2, <3>2
  <2>3. CASE i # Len(kept)
    <3>1. i \in 1..Len(kept) - 1 /\ i + 1 \in 1..Len(kept)
      BY <1>3, <2>1, <2>3
    <3>2. kept[i].end <= kept[i + 1].start
      BY <1>2, <3>1 DEF InOrder
    <3> QED
      BY <1>3, <2>1, <3>1, <3>2
  <2> QED
    BY <2>2, <2>3
<1>5. Len(Append(kept, seg)) <= SegmentLimit
  BY <1>1, <1>2, <1>3
<1> QED
  BY <1>3, <1>4, <1>5

LEMMA PushInv ==
    ASSUME LiveInv, NEW w \in Ids, PushInternal(w)
    PROVE  LiveInv'
<1> DEFINE r == workers[w].rec
           seg == [start |-> workers[w].window, end |-> workers[w].window + 1, by |-> w]
           kept == IF Len(lts[r].segs) >= SegmentLimit THEN Tail(lts[r].segs) ELSE lts[r].segs
<1>1. workers[w] \in Producer /\ Len(workers[w].queue) <= TapCapacity /\ w \in Nat
  BY ProducerForms DEF LiveInv
<1>2. r \in Recordings /\ workers[w].window \in Nat
  BY <1>1 DEF Producer
<1>3. UNCHANGED <<captured, publisher, slots, tick, order>>
  BY DEF PushInternal
<1>4. CASE workers' = [workers EXCEPT ![w].pc = "listening"] /\ UNCHANGED <<lts, events, tap>>
  <2>1. "listening" \in Running
    BY DEF Running
  <2> QED
    BY <1>3, <1>4, <2>1, GoesOnInv
<1>5. CASE Unwind(w) /\ UNCHANGED <<lts, events>>
  BY <1>3, <1>5, UnwindInv
<1>6. CASE /\ ~(Len(events) >= EventLimit) /\ ~Refused(w)
           /\ lts' = [lts EXCEPT ![r].segs = Append(kept, seg)]
           /\ events' = Append(events, [rec |-> r, seg |-> seg])
           /\ workers' = [workers EXCEPT ![w].pc = "listening", ![w].lastEnd = seg.end]
           /\ UNCHANGED tap
  <2>1. seg \in Segment /\ seg.start = workers[w].window /\ seg.end \in Nat
    BY <1>1, <1>2 DEF Segment
  <2>2. /\ lts \in [Recordings -> TextSession] /\ lts[r] \in TextSession
        /\ Len(lts[r].segs) <= SegmentLimit
    BY <1>2 DEF LiveInv, SessionsInv
  <2>3. lts[r].segs \in Seq(Segment) /\ lts[r].present
    BY <1>6, <2>2 DEF TextSession, Refused
  <2>4. (IF lts[r].segs = <<>> THEN 0 ELSE Last(lts[r].segs).end) <= workers[w].window
    <3>1. ~(workers[w].window < LastEnd(r))
      BY <1>6 DEF Refused
    <3>2. lts[r].segs # <<>> => Last(lts[r].segs) \in Segment
      BY <2>3 DEF Last
    <3>3. lts[r].segs # <<>> => Last(lts[r].segs).end \in Nat
      BY <3>2 DEF Segment
    <3> QED
      BY <1>2, <3>1, <3>3 DEF LastEnd
  <2>5. InOrder(lts[r].segs)
    BY <1>2, SessionForms DEF LiveInv
  <2>6. /\ Append(kept, seg) \in Seq(Segment) /\ InOrder(Append(kept, seg))
        /\ Len(Append(kept, seg)) <= SegmentLimit
    <3> HIDE DEF seg, r
    <3> QED
      BY <2>1, <2>2, <2>3, <2>4, <2>5, AppendInOrder
  <2> DEFINE x == [lts[r] EXCEPT !.segs = Append(kept, seg)]
             y == [workers[w] EXCEPT !.pc = "listening", !.lastEnd = seg.end]
  <2>7. /\ x \in TextSession /\ x.segs = Append(kept, seg) /\ x.present = lts[r].present
        /\ x.active = lts[r].active
    <3> HIDE DEF kept, seg
    <3> QED
      BY <2>2, <2>6 DEF TextSession
  <2>8. lts' = [lts EXCEPT ![r] = x]
    BY <1>6
  <2>9. /\ SessionsInv' /\ lts'[r] = x
        /\ \A q \in Recordings : q # r => lts'[q] = lts[q]
    <3>1. InOrder(x.segs) /\ Len(x.segs) <= SegmentLimit
      <4> HIDE DEF x, kept, seg
      <4> QED
        BY <2>6, <2>7
    <3>2. SessionsInv
      BY DEF LiveInv
    <3> HIDE DEF x, kept, seg, r
    <3> QED
      BY <1>2, <2>7, <2>8, <3>1, <3>2, SessionReplaced
  <2>10. /\ y \in Producer /\ y.rec = workers[w].rec /\ y.cancelled = workers[w].cancelled
         /\ y.pc = "listening" /\ y.queue = workers[w].queue
    <3> HIDE DEF seg
    <3> QED
      BY <1>1, <2>1 DEF Producer, Running
  <2>11. workers' = [workers EXCEPT ![w] = y]
    <3>1. workers \in Seq(Producer) /\ w \in DOMAIN workers
      BY DEF LiveInv, ProducersInv, Ids
    <3> QED
      BY <1>1, <1>6, <3>1
  <2>12. ProducersInv' /\ TapInv' /\ tick' \in Nat /\ order' \in Nat
    <3>1. "listening" \in Running
      BY DEF Running
    <3> HIDE DEF y
    <3> QED
      BY <1>1, <1>3, <1>6, <2>10, <2>11, <3>1, ProducerSteps
  <2>13. ActiveIsHonest'
    <3>1. /\ Ids' = Ids /\ workers'[w] = y
          /\ \A v \in Ids : v # w => workers'[v] = workers[v]
      <4>1. slots' \in [Recordings -> Nat] /\ \A q \in Recordings : slots'[q] = 0 \/ slots'[q] = slots[q]
        BY <1>3 DEF LiveInv, ProducersInv
      <4> HIDE DEF y
      <4> QED
        BY <1>1, <2>10, <2>11, <4>1, ProducerReplaced DEF LiveInv
    <3>2. \A q \in Recordings : lts'[q].active => lts[q].active
      <4> HIDE DEF x, r
      <4> QED
        BY <2>7, <2>9
    <3> HIDE DEF y
    <3> QED
      BY <2>10, <3>1, <3>2, HonestStays DEF LiveInv
  <2>14. WaitingInv'
    <3> DEFINE e == [rec |-> r, seg |-> seg]
    <3>1. e \in Waiting /\ e.rec = r
      <4> HIDE DEF r, seg
      <4> QED
        BY <1>2, <2>1 DEF Waiting
    <3> HIDE DEF e
    <3>2. events \in Seq(Waiting) /\ Len(events) \in Nat
      BY DEF LiveInv, WaitingInv
    <3>3. events' = Append(events, e)
      BY <1>6 DEF e
    <3>4. /\ events' \in Seq(Waiting) /\ Len(events') = Len(events) + 1
          /\ events'[Len(events) + 1] = e
          /\ \A i \in 1..Len(events) : events'[i] = events[i]
      BY <3>1, <3>2, <3>3
    <3>5. \A q \in Recordings : lts'[q].present = lts[q].present
      <4> HIDE DEF x, r
      <4> QED
        BY <2>7, <2>9
    <3>6. \A i \in 1..Len(events) : events[i] \in Waiting
      BY <3>2
    <3>7. \A i \in 1..Len(events) : events[i].rec \in Recordings
      BY <3>6 DEF Waiting
    <3>8. EventsOwned'
      <4> SUFFICES ASSUME NEW i \in 1..Len(events') PROVE lts'[events'[i].rec].present
        BY DEF EventsOwned
      <4>1. CASE i \in 1..Len(events)
        BY <3>4, <3>5, <3>7, <4>1 DEF LiveInv, WaitingInv, EventsOwned
      <4>2. CASE i = Len(events) + 1
        BY <1>2, <2>3, <3>1, <3>4, <3>5, <4>2
      <4> QED
        BY <3>2, <3>4, <4>1, <4>2
    <3>9. Len(events') <= EventLimit
      BY <1>6, <3>2, <3>4, LiveAssumption
    <3> QED
      BY <3>4, <3>8, <3>9 DEF WaitingInv
  <2> QED
    BY <2>9, <2>12, <2>13, <2>14 DEF LiveInv
<1> QED
  BY <1>4, <1>5, <1>6 DEF PushInternal

LEMMA ProducerStoppedInv ==
    ASSUME LiveInv, NEW w \in Ids, ProducerStopped(w)
    PROVE  LiveInv'
<1> DEFINE r == workers[w].rec
           x == [lts[r] EXCEPT !.active = FALSE]
           y == [workers[w] EXCEPT !.pc = "done"]
<1>1. workers[w] \in Producer /\ Len(workers[w].queue) <= TapCapacity /\ w # 0
  BY ProducerForms DEF LiveInv
<1>2. r \in Recordings
  BY <1>1 DEF Producer
<1>3. /\ x \in TextSession /\ x.segs = lts[r].segs /\ x.present = lts[r].present /\ ~x.active
      /\ InOrder(lts[r].segs)
  BY <1>2, SessionForms DEF LiveInv
<1>4. lts' = [lts EXCEPT ![r] = x]
  BY DEF ProducerStopped
<1>5. /\ SessionsInv' /\ lts'[r] = x
      /\ \A q \in Recordings : q # r => lts'[q] = lts[q]
  <2>1. InOrder(x.segs) /\ Len(x.segs) <= SegmentLimit
    BY <1>2, <1>3 DEF LiveInv, SessionsInv
  <2> HIDE DEF x, r
  <2> QED
    BY <1>2, <1>3, <1>4, <2>1, SessionReplaced DEF LiveInv
<1>6. \A q \in Recordings : /\ lts'[q].active => lts[q].active
                            /\ lts[q].present => lts'[q].present
  <2> HIDE DEF x, r
  <2> QED
    BY <1>3, <1>5
<1>7. WaitingInv'
  BY <1>6, EventsStay DEF LiveInv, ProducerStopped
<1>8. /\ y \in Producer /\ y.rec = workers[w].rec /\ y.cancelled = workers[w].cancelled
      /\ y.queue = workers[w].queue
  BY <1>1 DEF Producer
<1>9. workers' = [workers EXCEPT ![w] = y]
  BY ProducerForms DEF LiveInv, ProducerStopped
<1> HIDE DEF y
<1>10. /\ ProducersInv' /\ Len(workers') = Len(workers) /\ Ids' = Ids /\ workers'[w] = y
       /\ \A v \in Ids : v # w => workers'[v] = workers[v]
  <2>1. slots' \in [Recordings -> Nat] /\ \A q \in Recordings : slots'[q] = 0 \/ slots'[q] = slots[q]
    BY DEF LiveInv, ProducersInv, ProducerStopped
  <2> QED
    BY <1>1, <1>8, <1>9, <2>1, ProducerReplaced DEF LiveInv
<1>11. tap.sender # w
  <2>1. "unwinding" \notin Running
    BY DEF Running
  <2> QED
    BY <1>1, <2>1 DEF LiveInv, TapInv, ConsumerLive, ProducerStopped
<1>12. TapInv'
  BY <1>8, <1>10, <1>11, TapStays DEF LiveInv, ProducerStopped
<1>13. ActiveIsHonest'
  <2>1. ~lts'[workers[w].rec].active
    BY <1>3, <1>5
  <2> QED
    BY <1>6, <1>8, <1>10, <2>1, HonestStays DEF LiveInv
<1> QED
  BY <1>5, <1>7, <1>10, <1>12, <1>13 DEF LiveInv, ProducerStopped

\* The owned thread of a recording is told to stop.
LEMMA ThreadIsCancelled ==
    ASSUME ProducersInv, NEW w \in Ids, NEW y, y = [workers[w] EXCEPT !.cancelled = TRUE],
           workers' = [workers EXCEPT ![w] = y],
           slots' \in [Recordings -> Nat],
           \A q \in Recordings : slots'[q] = 0 \/ slots'[q] = slots[q]
    PROVE  /\ ProducersInv' /\ Len(workers') = Len(workers) /\ Ids' = Ids
           /\ workers'[w].rec = workers[w].rec
           /\ \A v \in Ids : v # w => workers'[v] = workers[v]
<1>1. workers[w] \in Producer /\ Len(workers[w].queue) <= TapCapacity
  BY ProducerForms
<1>2. y \in Producer /\ y.rec = workers[w].rec /\ y.queue = workers[w].queue
  BY <1>1 DEF Producer
<1> QED
  BY <1>1, <1>2, ProducerReplaced

LEMMA OwnedIsCancelled ==
    ASSUME LiveInv, NEW r \in Recordings, slots[r] # 0
    PROVE  /\ slots[r] \in Ids /\ workers[slots[r]].rec = r
           /\ (/\ workers' = [workers EXCEPT ![slots[r]].cancelled = TRUE]
               /\ slots' = [slots EXCEPT ![r] = 0])
              => /\ ProducersInv' /\ Len(workers') = Len(workers) /\ Ids' = Ids
                 /\ workers'[slots[r]].rec = r
                 /\ \A v \in Ids : v # slots[r] => workers'[v] = workers[v]
<1>1. slots[r] \in Ids /\ workers[slots[r]].rec = r
  BY DEF LiveInv, ProducersInv
<1>2. PICK w \in Ids : w = slots[r]
  BY <1>1
<1>3. ASSUME workers' = [workers EXCEPT ![slots[r]].cancelled = TRUE],
             slots' = [slots EXCEPT ![r] = 0]
      PROVE  /\ ProducersInv' /\ Len(workers') = Len(workers) /\ Ids' = Ids
             /\ workers'[w].rec = r
             /\ \A v \in Ids : v # w => workers'[v] = workers[v]
  <2>1. workers' = [workers EXCEPT ![w].cancelled = TRUE]
    BY <1>2, <1>3, Zenon
  <2>2. workers' = [workers EXCEPT ![w] = [workers[w] EXCEPT !.cancelled = TRUE]]
    BY <2>1
  <2>3. PICK y : y = [workers[w] EXCEPT !.cancelled = TRUE]
    OBVIOUS
  <2>4. workers' = [workers EXCEPT ![w] = y]
    BY <2>2, <2>3
  <2>5. slots' \in [Recordings -> Nat] /\ \A q \in Recordings : slots'[q] = 0 \/ slots'[q] = slots[q]
    BY <1>3 DEF LiveInv, ProducersInv
  <2>6. workers[w].rec = r
    BY <1>1, <1>2
  <2> QED
    BY <2>3, <2>4, <2>5, <2>6, ThreadIsCancelled, Zenon DEF LiveInv
<1> QED
  BY <1>1, <1>2, <1>3, Zenon

LEMMA LiveStopInv ==
    ASSUME LiveInv, NEW r \in Recordings, LiveStop(r)
    PROVE  LiveInv'
<1>1. UNCHANGED <<captured, publisher, tick, order>> /\ CancelAndReap(r)
  BY DEF LiveStop
<1>2. lts' = [lts EXCEPT ![r] = NoTranscript] /\ events' = OtherEvents(r)
  BY DEF LiveStop
<1>3. CASE slots[r] = 0
  BY <1>1, <1>2, <1>3, SessionDropped DEF CancelAndReap
<1>4. CASE slots[r] # 0
  <2>1. /\ SessionsInv' /\ lts'[r] = NoTranscript
        /\ \A q \in Recordings : q # r => lts'[q] = lts[q]
    <3>1. /\ NoTranscript \in TextSession /\ ~NoTranscript.present
          /\ Len(NoTranscript.segs) <= SegmentLimit /\ InOrder(NoTranscript.segs)
      BY SessionForms DEF LiveInv
    <3> QED
      BY <1>2, <3>1, SessionReplaced DEF LiveInv
  <2>2. WaitingInv'
    BY <1>2, <2>1, OthersRetained DEF LiveInv
  <2>3. /\ workers' = [workers EXCEPT ![slots[r]].cancelled = TRUE]
        /\ tap' = Detached(tap, slots[r]) /\ slots' = [slots EXCEPT ![r] = 0]
    BY <1>1, <1>4 DEF CancelAndReap
  <2>4. /\ ProducersInv' /\ slots[r] \in Ids /\ workers[slots[r]].rec = r
        /\ Len(workers') = Len(workers) /\ Ids' = Ids
        /\ workers'[slots[r]].rec = r
        /\ \A v \in Ids : v # slots[r] => workers'[v] = workers[v]
    BY <1>4, <2>3, OwnedIsCancelled
  <2>5. TapInv'
    BY <1>1, <2>3, <2>4, TapStays DEF LiveInv
  <2>6. ActiveIsHonest'
    <3>1. ~lts'[r].active /\ \A q \in Recordings : lts'[q].active => lts[q].active
      BY <2>1, SessionForms DEF LiveInv
    <3> QED
      BY <2>4, <3>1, HonestStays DEF LiveInv
  <2> QED
    BY <1>1, <2>1, <2>2, <2>4, <2>5, <2>6 DEF LiveInv
<1> QED
  BY <1>3, <1>4

LEMMA CaptureStopsInv ==
    ASSUME LiveInv, CaptureStops
    PROVE  LiveInv'
<1> DEFINE r == captured
           x == [lts[r] EXCEPT !.active = FALSE]
<1>1. r \in Recordings
  BY DEF LiveInv, TapInv, CaptureStops
<1>2. /\ captured' = "none" /\ tap' = [tap EXCEPT !.sender = 0]
      /\ UNCHANGED <<events, publisher, tick, order>>
  BY DEF CaptureStops
<1>3. /\ x \in TextSession /\ x.segs = lts[r].segs /\ x.present = lts[r].present /\ ~x.active
      /\ InOrder(lts[r].segs)
  BY <1>1, SessionForms DEF LiveInv
<1>4. lts' = [lts EXCEPT ![r] = x]
  BY DEF CaptureStops
<1>5. /\ SessionsInv' /\ lts'[r] = x
      /\ \A q \in Recordings : q # r => lts'[q] = lts[q]
  <2>1. InOrder(x.segs) /\ Len(x.segs) <= SegmentLimit
    BY <1>1, <1>3 DEF LiveInv, SessionsInv
  <2> HIDE DEF x, r
  <2> QED
    BY <1>1, <1>3, <1>4, <2>1, SessionReplaced DEF LiveInv
<1>6. /\ ~lts'[r].active
      /\ \A q \in Recordings : /\ lts'[q].active => lts[q].active
                               /\ lts[q].present => lts'[q].present
  <2> HIDE DEF x, r
  <2> QED
    BY <1>3, <1>5
<1>7. WaitingInv'
  BY <1>2, <1>6, EventsStay DEF LiveInv
<1>8. ASSUME Len(workers') = Len(workers) PROVE TapInv'
  <2>1. /\ tap \in [last : Nat, sender : Nat] /\ tap.last \in 0..Len(workers)
        /\ publisher \in 0..Len(workers)
    BY DEF LiveInv, TapInv
  <2>2. tap' \in [last : Nat, sender : Nat] /\ tap'.last = tap.last /\ tap'.sender = 0
    BY <1>2, <2>1
  <2> QED
    BY <1>2, <1>8, <2>1, <2>2 DEF TapInv, ConsumerLive
<1>9. ProducersInv' /\ ActiveIsHonest' /\ Len(workers') = Len(workers)
  <2>1. CASE slots[r] = 0
    <3>1. UNCHANGED <<workers, slots>>
      BY <2>1 DEF CaptureStops
    <3> QED
      BY <1>6, <3>1, HonestUntouched DEF LiveInv, ProducersInv, Ids
  <2>2. CASE slots[r] # 0
    <3>1. /\ workers' = [workers EXCEPT ![slots[r]].cancelled = TRUE]
          /\ slots' = [slots EXCEPT ![r] = 0]
      BY <2>2 DEF CaptureStops
    <3> HIDE DEF r, x
    <3>2. /\ ProducersInv' /\ slots[r] \in Ids /\ workers[slots[r]].rec = r
          /\ Len(workers') = Len(workers) /\ Ids' = Ids
          /\ workers'[slots[r]].rec = r
          /\ \A v \in Ids : v # slots[r] => workers'[v] = workers[v]
      BY <1>1, <2>2, <3>1, OwnedIsCancelled
    <3>3. ActiveIsHonest'
      BY <1>6, <3>2, HonestStays DEF LiveInv
    <3> QED
      BY <3>2, <3>3
  <2> QED
    BY <2>1, <2>2
<1> QED
  BY <1>2, <1>5, <1>7, <1>8, <1>9 DEF LiveInv

LEMMA LiveNextInv ==
    ASSUME LiveInv, [LiveNext]_liveVars
    PROVE  LiveInv'
<1>1. CASE UNCHANGED liveVars
  <2>1. SessionsInv' /\ WaitingInv' /\ ActiveIsHonest'
    BY <1>1 DEF liveVars, LiveInv, SessionsInv, Present, TextInOrder, WaitingInv, EventsOwned, ActiveIsHonest, Ids
  <2>2. ProducersInv' /\ TapInv'
    BY <1>1 DEF liveVars, LiveInv, ProducersInv, TapInv, Ids, ConsumerLive
  <2> QED
    BY <1>1, <2>1, <2>2 DEF liveVars, LiveInv
<1>2. ASSUME NEW r \in Recordings,
             \/ Enable(r) \/ Clear(r) \/ ReconcileCommitted(r) \/ RemoveForDeletion(r)
             \/ StartRefused(r) \/ LiveStart(r) \/ LiveStop(r) \/ CaptureBegins(r)
      PROVE  LiveInv'
  BY <1>2, EnableInv, ClearInv, ReconcileInv, RemoveInv, StartRefusedInv, LiveStartInv,
     LiveStopInv, CaptureBeginsInv
<1>3. CASE CaptureStops \/ DrainEvents \/ PublishBegins \/ PublishEnds
  BY <1>3, CaptureStopsInv, DrainInv, PublishBeginsInv, PublishEndsInv
<1>4. ASSUME NEW w \in Ids, WorkerStep(w)
      PROVE  LiveInv'
  BY <1>4, ModelLoadsInv, WorkerReceivesInv, TranscribeWindowInv, PushInv, ProducerStoppedInv
     DEF WorkerStep
<1> QED
  BY <1>1, <1>2, <1>3, <1>4 DEF LiveNext

\* LiveSafe for every set of recordings, every limit and any number of
\* producers: whatever thread a time-out left behind, the queues and sessions
\* keep their limits, no undelivered event belongs to a session that was
\* stopped, evicted, reconciled or deleted, the tap feeds a thread of the
\* captured recording that still reads, a session that says it is active has
\* such a thread, and text is in time order (live_transcript_service.rs,
\* live_asr_producer.rs).
THEOREM LiveIsSafe == LiveSpec => []LiveSafe
<1>1. LiveInit => LiveInv
  BY LiveInitInv
<1>2. LiveInv /\ [LiveNext]_liveVars => LiveInv'
  BY LiveNextInv
<1>3. LiveInv => LiveSafe
  BY LiveInvIsSafe
<1> QED
  BY <1>1, <1>2, <1>3, PTL DEF LiveSpec
=============================================================================
