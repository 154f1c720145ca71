--------------------------- MODULE LiveTranscript ---------------------------
(* Provisional transcription while a recording runs: the bounded PCM tap of *)
(* the capture session (capture_service.rs), the live ASR workers and their *)
(* manager (live_asr_producer.rs), the coordinator that keeps provisional   *)
(* text (live_transcript_service.rs, live_transcription.rs) and the request *)
(* handlers that drive them (main.rs).  The capture session itself is       *)
(* module Capture; here it only publishes chunks, one per clock tick.       *)
EXTENDS Integers, Sequences, FiniteSets, SequencesExt

CONSTANTS
    Recordings,
    SessionLimit,     \* MAX_LIVE_TRANSCRIPT_SESSIONS
    EventLimit,       \* MAX_PENDING_LIVE_TRANSCRIPT_EVENTS
    DrainLimit,       \* MAX_LIVE_TRANSCRIPT_EVENTS_PER_DRAIN
    SegmentLimit,     \* MAX_PARTIAL_SEGMENTS
    TapCapacity,      \* LIVE_PCM_QUEUE_CAPACITY
    MaxTicks,         \* bound: chunks published
    MaxWorkers        \* bound: producers started

ASSUME LiveAssumption ==
    /\ IsFiniteSet(Recordings) /\ "none" \notin Recordings
    /\ SessionLimit \in Nat \ {0} /\ EventLimit \in Nat \ {0}
    /\ DrainLimit \in Nat \ {0} /\ SegmentLimit \in Nat \ {0}
    /\ TapCapacity \in Nat \ {0} /\ MaxTicks \in Nat /\ MaxWorkers \in Nat

VARIABLES
    lts,        \* the coordinator's session of each recording
    events,     \* pending_events: what the renderer has not drained
    captured,   \* the recording of the active capture session, or "none"
    tap,        \* the session's tap: the consumer attached last, and the sender
    publisher,  \* the sender a capture thread cloned and has not used yet
    workers,    \* every producer ever started, in the order they attached
    slots,      \* LiveAsrProducerManager.workers: the owned one per recording
    tick,       \* chunks published so far
    order       \* next_session_sequence

liveVars == <<lts, events, captured, tap, publisher, workers, slots, tick, order>>

NoTranscript == [present |-> FALSE, active |-> FALSE, enabled |-> 0, segs |-> <<>>]
NoTap == [last |-> 0, sender |-> 0]
Running == {"loading", "listening", "window", "push"}
Ids == 1..Len(workers)

LiveInit ==
    /\ lts = [r \in Recordings |-> NoTranscript]
    /\ events = <<>>
    /\ captured = "none"
    /\ tap = NoTap /\ publisher = 0
    /\ workers = <<>> /\ slots = [r \in Recordings |-> 0]
    /\ tick = 0 /\ order = 1

----------------------------------------------------------------------------
(* The coordinator                                                          *)

\* The elements of s at the places in keep, in their order (retain).
Retain(s, keep) ==
    [k \in 1..Cardinality(keep) |->
        s[CHOOSE i \in keep : Cardinality({j \in keep : j <= i}) = k]]

OtherEvents(r) == Retain(events, {i \in DOMAIN events : events[i].rec # r})
LastEnd(r) == IF lts[r].segs = <<>> THEN 0 ELSE Last(lts[r].segs).end

Present == {r \in Recordings : lts[r].present}
Evictable ==
    {r \in Present : /\ ~lts[r].active
                     /\ \A q \in Present : ~lts[q].active => lts[r].enabled <= lts[q].enabled}

\* Mutant: the limit is not looked at.
EnableUnbounded(r) ==
    /\ ~lts[r].present /\ order <= 2 * MaxWorkers + Cardinality(Recordings)
    /\ lts' = [lts EXCEPT ![r] = [NoTranscript EXCEPT !.present = TRUE, !.enabled = order]]
    /\ order' = order + 1
    /\ UNCHANGED <<events, captured, tap, publisher, workers, slots, tick>>

\* enable: at the limit the oldest inactive session is dropped with its
\* undelivered events; when every session is active the request is refused.
Enable(r) ==
    /\ ~lts[r].present /\ order <= 2 * MaxWorkers + Cardinality(Recordings)
    /\ \E out \in {{}} \cup {{q} : q \in Evictable} :
         /\ Cardinality(Present) >= SessionLimit <=> out # {}
         /\ lts' = [q \in Recordings |->
                      IF q = r THEN [NoTranscript EXCEPT !.present = TRUE, !.enabled = order]
                      ELSE IF q \in out THEN NoTranscript ELSE lts[q]]
         /\ events' = Retain(events, {i \in DOMAIN events : events[i].rec \notin out})
    /\ order' = order + 1
    /\ UNCHANGED <<captured, tap, publisher, workers, slots, tick>>

\* clear drops the text and the undelivered events, the session goes on.
Clear(r) ==
    /\ lts[r].present
    /\ lts' = [lts EXCEPT ![r].segs = <<>>]
    /\ events' = OtherEvents(r)
    /\ UNCHANGED <<captured, tap, publisher, workers, slots, tick, order>>

DrainEvents ==
    /\ events # <<>>
    /\ events' = IF Len(events) <= DrainLimit THEN <<>>
                 ELSE SubSeq(events, DrainLimit + 1, Len(events))
    /\ UNCHANGED <<lts, captured, tap, publisher, workers, slots, tick, order>>

\* reconcile_committed: the final revision of a recording that is no longer
\* captured is durable; the session and its events go.
ReconcileCommitted(r) ==
    /\ lts[r].present /\ captured # r
    /\ lts' = [lts EXCEPT ![r] = NoTranscript]
    /\ events' = OtherEvents(r)
    /\ UNCHANGED <<captured, tap, publisher, workers, slots, tick, order>>

\* remove_for_deletion: the same for a recording that is being deleted,
\* whether or not it has a session.
RemoveForDeletion(r) ==
    /\ captured # r
    /\ lts' = [lts EXCEPT ![r] = NoTranscript]
    /\ events' = OtherEvents(r)
    /\ UNCHANGED <<captured, tap, publisher, workers, slots, tick, order>>

----------------------------------------------------------------------------
(* The producers                                                            *)

NewWorker(r) ==
    [rec |-> r, pc |-> "loading", cancelled |-> FALSE, queue |-> <<>>,
     dropped |-> 0, lastEnd |-> 0, window |-> 0]

\* reap_completed forgets the owned workers that have signalled their end.
Reaped == [r \in Recordings |->
             IF slots[r] # 0 /\ workers[slots[r]].pc = "done" THEN 0 ELSE slots[r]]

\* Mutant: a refused producer leaves the session active.
StartRefusedActive(r) ==
    /\ lts[r].present
    /\ slots' = Reaped
    /\ lts' = [lts EXCEPT ![r].active = TRUE]
    /\ UNCHANGED <<events, captured, tap, publisher, workers, tick, order>>

\* liveTranscript.start: the session becomes active, then the producer is
\* started; whatever refuses the producer makes the session inactive again,
\* also when the reason is a producer that is running already.
StartRefused(r) ==
    /\ lts[r].present
    /\ slots' = Reaped
    /\ lts' = [lts EXCEPT ![r].active = FALSE]
    /\ UNCHANGED <<events, captured, tap, publisher, workers, tick, order>>

LiveStart(r) ==
    /\ lts[r].present /\ Len(workers) < MaxWorkers
    /\ Reaped[r] = 0 /\ captured = r /\ tap.sender = 0
    /\ lts' = [lts EXCEPT ![r].active = TRUE]
    /\ workers' = Append(workers, NewWorker(r))
    /\ slots' = [Reaped EXCEPT ![r] = Len(workers) + 1]
    /\ tap' = [last |-> Len(workers) + 1, sender |-> Len(workers) + 1]
    /\ UNCHANGED <<events, captured, publisher, tick, order>>

Detached(t, w) == IF t.last = w THEN [t EXCEPT !.sender = 0] ELSE t

\* Mutant: the cancelled worker keeps its feed.
CancelOnly(r) ==
    /\ IF slots[r] = 0 THEN UNCHANGED <<workers, slots>>
       ELSE /\ workers' = [workers EXCEPT ![slots[r]].cancelled = TRUE]
            /\ slots' = [slots EXCEPT ![r] = 0]
    /\ UNCHANGED tap

\* cancel_and_reap: the worker is told to stop and loses its feed; a worker
\* that does not end in time goes on unwinding without an owner.
CancelAndReap(r) ==
    IF slots[r] = 0 THEN UNCHANGED <<workers, tap, slots>>
    ELSE /\ workers' = [workers EXCEPT ![slots[r]].cancelled = TRUE]
         /\ tap' = Detached(tap, slots[r])
         /\ slots' = [slots EXCEPT ![r] = 0]

\* Mutant: the undelivered events stay.
LiveStopKeepsEvents(r) ==
    /\ lts[r].present \/ slots[r] # 0
    /\ CancelAndReap(r)
    /\ lts' = [lts EXCEPT ![r] = NoTranscript]
    /\ UNCHANGED <<events, captured, publisher, tick, order>>

LiveStop(r) ==
    /\ lts[r].present \/ slots[r] # 0
    /\ CancelAndReap(r)
    /\ lts' = [lts EXCEPT ![r] = NoTranscript]
    /\ events' = OtherEvents(r)
    /\ UNCHANGED <<captured, publisher, tick, order>>

CaptureBegins(r) ==
    /\ captured = "none" /\ tick < MaxTicks
    /\ captured' = r /\ tap' = NoTap
    /\ UNCHANGED <<lts, events, publisher, workers, slots, tick, order>>

\* capture.stop: request_stop detaches the tap, the producer is cancelled and
\* the session becomes inactive but keeps its text for the reconciliation.
CaptureStops ==
    /\ captured # "none"
    /\ captured' = "none"
    /\ IF slots[captured] = 0
         THEN /\ tap' = [tap EXCEPT !.sender = 0]
              /\ UNCHANGED <<workers, slots>>
         ELSE /\ workers' = [workers EXCEPT ![slots[captured]].cancelled = TRUE]
              /\ slots' = [slots EXCEPT ![captured] = 0]
              /\ tap' = [tap EXCEPT !.sender = 0]
    /\ lts' = [lts EXCEPT ![captured].active = FALSE]
    /\ UNCHANGED <<events, publisher, tick, order>>

\* LivePcmTap::publish clones the sender under the lock and uses it later.
PublishBegins ==
    /\ captured # "none" /\ publisher = 0 /\ tap.sender # 0 /\ tick < MaxTicks
    /\ publisher' = tap.sender /\ tick' = tick + 1
    /\ UNCHANGED <<lts, events, captured, tap, workers, slots, order>>

\* A full queue drops the newest chunk; a receiver that is gone detaches
\* whichever consumer the tap has by then.
PublishEnds ==
    /\ publisher # 0
    /\ IF workers[publisher].pc \notin Running
         THEN /\ tap' = [tap EXCEPT !.sender = 0]
              /\ UNCHANGED workers
         ELSE /\ workers' =
                   IF Len(workers[publisher].queue) < TapCapacity
                     THEN [workers EXCEPT ![publisher].queue = Append(@, tick)]
                     ELSE [workers EXCEPT ![publisher].dropped = @ + 1]
              /\ UNCHANGED tap
    /\ publisher' = 0
    /\ UNCHANGED <<lts, events, captured, slots, tick, order>>

\* The end of run_live_asr_worker drops the subscription, which detaches it.
Unwind(w) ==
    /\ workers' = [workers EXCEPT ![w].pc = "unwinding", ![w].queue = <<>>]
    /\ tap' = Detached(tap, w)

ModelLoads(w) ==
    /\ workers[w].pc = "loading"
    /\ \/ /\ ~workers[w].cancelled
          /\ workers' = [workers EXCEPT ![w].pc = "listening"]
          /\ UNCHANGED tap
       \/ Unwind(w)
    /\ UNCHANGED <<lts, events, captured, publisher, slots, tick, order>>

\* The receive loop: cancelled, a chunk that completes a window, or a feed
\* that is gone.  The window starts no earlier than the last emitted text.
WorkerReceives(w) ==
    /\ workers[w].pc = "listening"
    /\ \/ /\ workers[w].cancelled \/ (workers[w].queue = <<>> /\ w \notin {tap.sender, publisher})
          /\ Unwind(w)
       \/ /\ ~workers[w].cancelled /\ workers[w].queue # <<>>
          /\ workers' = [workers EXCEPT ![w].pc = "window",
                           ![w].window = Head(workers[w].queue),
                           ![w].queue = Tail(@)]
          /\ UNCHANGED tap
    /\ UNCHANGED <<lts, events, captured, publisher, slots, tick, order>>

\* transcribe_window: a silent window or a cancelled worker says nothing, an
\* engine failure ends the worker, else a segment is ready to be pushed.
TranscribeWindow(w) ==
    /\ workers[w].pc = "window"
    /\ \/ workers' = [workers EXCEPT ![w].pc = "listening"] /\ UNCHANGED tap
       \/ ~workers[w].cancelled /\ Unwind(w)
       \/ /\ ~workers[w].cancelled
          /\ workers' = [workers EXCEPT ![w].pc = "push"]
          /\ UNCHANGED tap
    /\ UNCHANGED <<lts, events, captured, publisher, slots, tick, order>>

\* Mutant: timestamps may go back.
RefusedInactive(w) == ~lts[workers[w].rec].present \/ ~lts[workers[w].rec].active

\* push_internal: a full event queue drops the segment and the worker goes
\* on; a session that is missing, inactive or further on ends the worker.
Refused(w) ==
    LET r == workers[w].rec
    IN ~lts[r].present \/ ~lts[r].active \/ workers[w].window < LastEnd(r)

PushInternal(w) ==
    LET r == workers[w].rec
        seg == [start |-> workers[w].window, end |-> workers[w].window + 1, by |-> w]
        kept == IF Len(lts[r].segs) >= SegmentLimit THEN Tail(lts[r].segs) ELSE lts[r].segs
    IN /\ workers[w].pc = "push"
       /\ IF Len(events) >= EventLimit
            THEN /\ workers' = [workers EXCEPT ![w].pc = "listening"]
                 /\ UNCHANGED <<lts, events, tap>>
          ELSE IF Refused(w) THEN Unwind(w) /\ UNCHANGED <<lts, events>>
          ELSE /\ lts' = [lts EXCEPT ![r].segs = Append(kept, seg)]
               /\ events' = Append(events, [rec |-> r, seg |-> seg])
               /\ workers' = [workers EXCEPT ![w].pc = "listening", ![w].lastEnd = seg.end]
               /\ UNCHANGED tap
       /\ UNCHANGED <<captured, publisher, slots, tick, order>>

\* Mutant: the thread gives up when the session is gone.
ProducerStoppedStrict(w) ==
    /\ workers[w].pc = "unwinding" /\ lts[workers[w].rec].present
    /\ workers' = [workers EXCEPT ![w].pc = "done"]
    /\ lts' = [lts EXCEPT ![workers[w].rec].active = FALSE]
    /\ UNCHANGED <<events, captured, tap, publisher, slots, tick, order>>

\* The worker thread reports producer_stopped for its recording, then ends.
ProducerStopped(w) ==
    /\ workers[w].pc = "unwinding"
    /\ workers' = [workers EXCEPT ![w].pc = "done"]
    /\ lts' = [lts EXCEPT ![workers[w].rec].active = FALSE]
    /\ UNCHANGED <<events, captured, tap, publisher, slots, tick, order>>

WorkerStep(w) ==
    \/ ModelLoads(w) \/ WorkerReceives(w) \/ TranscribeWindow(w)
    \/ PushInternal(w) \/ ProducerStopped(w)

LiveNext ==
    \/ \E r \in Recordings :
         \/ Enable(r) \/ Clear(r) \/ ReconcileCommitted(r) \/ RemoveForDeletion(r)
         \/ StartRefused(r) \/ LiveStart(r) \/ LiveStop(r) \/ CaptureBegins(r)
    \/ CaptureStops \/ DrainEvents \/ PublishBegins \/ PublishEnds
    \/ \E w \in Ids : WorkerStep(w)

LiveSpec == LiveInit /\ [][LiveNext]_liveVars

\* The worker threads are scheduled and inference returns.
LiveFairness ==
    \A w \in 1..MaxWorkers : WF_liveVars(w \in Ids /\ WorkerStep(w))

----------------------------------------------------------------------------
(* Properties                                                               *)

\* Every variable has its type and every queue keeps its bound.
LiveTypeOK ==
    /\ Cardinality(Present) <= SessionLimit
    /\ Len(events) <= EventLimit
    /\ captured \in Recordings \cup {"none"}
    /\ tap.sender \in {0, tap.last} /\ publisher \in 0..Len(workers)
    /\ \A r \in Recordings : Len(lts[r].segs) <= SegmentLimit
    /\ \A w \in Ids : Len(workers[w].queue) <= TapCapacity

\* No provisional text waits for the renderer once its session was stopped,
\* reconciled, evicted or deleted, also while a cancelled producer unwinds.
EventsOwned == \A i \in 1..Len(events) : lts[events[i].rec].present

\* The tap feeds at most one consumer, and never one that was cancelled, has
\* ended or belongs to another recording than the one being captured.
ConsumerLive ==
    tap.sender # 0 => /\ captured = workers[tap.sender].rec
                      /\ ~workers[tap.sender].cancelled
                      /\ workers[tap.sender].pc \in Running

\* A session that says it is active has a producer thread that was not
\* cancelled and has yet to report its end.
ActiveIsHonest ==
    \A r \in Recordings : lts[r].active =>
        \E w \in Ids : /\ workers[w].rec = r /\ ~workers[w].cancelled
                       /\ workers[w].pc # "done"

\* A session's text is in time order, whichever producers wrote it.
TextInOrder ==
    \A r \in Recordings : \A i \in 1..Len(lts[r].segs) - 1 :
        lts[r].segs[i].end <= lts[r].segs[i+1].start

\* A cancelled producer ends, although nobody waits for it any more.
CancelledEnds ==
    \A w \in 1..MaxWorkers :
        (w \in Ids /\ workers[w].cancelled) ~> (w \in Ids /\ workers[w].pc = "done")

\* "a local live transcript producer is already active for this recording" is
\* what a second start is told: the producer that runs keeps a session that
\* accepts its text.
ProducerKeepsSession ==
    \A w \in Ids :
        (workers[w].pc \in Running /\ ~workers[w].cancelled) => lts[workers[w].rec].active

\* The promise of provisional transcription: queues and sessions keep their
\* limits, no event belongs to a session that ended, the tap feeds a thread
\* that reads it, "active" is true when it is said, and text is in time order,
\* whichever threads a time-out left behind.
LiveSafe == LiveTypeOK /\ EventsOwned /\ ConsumerLive /\ ActiveIsHonest /\ TextInOrder
=============================================================================
