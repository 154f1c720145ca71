------------------------- MODULE MCRecordingStore -------------------------
(* An instance of RecordingStore that starts from no recording, or from a  *)
(* finished one with an audio chunk and one transcribed revision.          *)
EXTENDS RecordingReader

CONSTANTS a0, a1

MCAttempts == {a0, a1}

MCEarlier ==
    {[EmptyManifest("finished") EXCEPT
        !.chunks = <<Descriptor("audio", "plain", TRUE), Descriptor("segment", a0, TRUE)>>,
        !.revs = <<Revision("raw-asr", "initial", 0, {1}, {})>>,
        !.current = 1,
        !.receipts = <<Receipt("transcription", "succeeded", 1, 0)>>]}

\* Bounds of the run.  The last operation is explored without a recap receipt
\* that met another writer, and no fault follows such a meeting.
Overlap == overlapped => ops < MaxOps /\ faults = 0 /\ reader.pc = "idle"

\* A read begins while something is written, of a recording that was stored,
\* and not beside the last operation.  Once it has ended the store goes on as
\* without it.
Read ==
    /\ reader.pc = "idle" => reader = NoRead
    /\ reader.pc # "idle" => ops < MaxOps /\ reader.since # Absent /\ ~rebuilt /\ ~dropped
    /\ reader.pc = "main" => \E t \in Writers : ~Free(t)
===========================================================================
