----------------------------- MODULE MCCapture -----------------------------
(* The parts of live capture, one per behaviour: the session with its       *)
(* threads and the microphone test, provisional transcription, and the      *)
(* window mixer.  Each keeps its own variables.                             *)
EXTENDS Capture, LiveTranscript, LiveMixer

VARIABLE part

MCInit ==
    /\ part \in {"session", "live", "mixer"}
    /\ CapInit /\ LiveInit /\ MixInit

MCNext ==
    \/ part = "session" /\ CapNext /\ UNCHANGED <<part, liveVars, mixVars>>
    \/ part = "live" /\ LiveNext /\ UNCHANGED <<part, capVars, mixVars>>
    \/ part = "mixer" /\ MixNext /\ UNCHANGED <<part, capVars, liveVars>>

MCSpec == MCInit /\ [][MCNext]_<<part, capVars, liveVars, mixVars>> /\ CapFairness /\ LiveFairness

\* A capture that was asked to stop is over at last, and so is every producer
\* thread that was cancelled, the ones detached after a time-out included.
ThreadsEnd == StopCompletes /\ CancelledEnds
=============================================================================
