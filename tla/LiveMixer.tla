----------------------------- MODULE LiveMixer -----------------------------
(* The window mixer of combined live transcription: tagged microphone and   *)
(* system lanes, aligned by capture time, cut into windows of fixed length  *)
(* (CombinedLivePcmWindowMixer, live_asr_producer.rs).  A sample is named   *)
(* by the instant it was captured at; one sample is one millisecond.        *)
EXTENDS Integers, Sequences, FiniteSets

CONSTANTS
    WindowSamples,   \* LIVE_ASR_WINDOW_SAMPLES
    LaneSamples,     \* LIVE_ASR_MAX_WINDOW_SAMPLES
    MaxInstant       \* bound: capture time

ASSUME MixerAssumption ==
    WindowSamples \in Nat \ {0} /\ LaneSamples \in Nat /\ LaneSamples > WindowSamples

VARIABLES
    mixer,       \* window_start_ms, both lanes, emitted_any
    captureTime, \* per source, the end of the last chunk it delivered
    window,      \* the window emitted last, or <<>>
    windowEnd    \* where the windows before it ended

mixVars == <<mixer, captureTime, window, windowEnd>>

Lanes == {"microphone", "system"}
Positions == 0..LaneSamples - 1
NoSample == -1
EmptyLane == [at |-> [i \in Positions |-> NoSample], watermark |-> 0]
Cleared == [l \in Lanes |-> EmptyLane]
AtMost(a, b) == IF a < b THEN a ELSE b
AtLeast(a, b) == IF a > b THEN a ELSE b

MixInit ==
    /\ mixer = [start |-> NoSample, lanes |-> Cleared, emitted |-> FALSE]
    /\ captureTime = [l \in Lanes |-> 0]
    /\ window = <<>> /\ windowEnd = 0

\* Mutant: the watermark is not cut at the end of the lane.
ShiftPastEnd(lane, n) ==
    IF n >= LaneSamples THEN EmptyLane
    ELSE [at |-> [i \in Positions |-> IF i < n THEN NoSample ELSE lane.at[i - n]],
          watermark |-> lane.watermark + n]

ShiftRight(lane, n) ==
    IF n >= LaneSamples THEN EmptyLane
    ELSE [at |-> [i \in Positions |-> IF i < n THEN NoSample ELSE lane.at[i - n]],
          watermark |-> AtMost(lane.watermark + n, LaneSamples)]

WriteLane(lane, offset, start, len) ==
    LET end == AtMost(offset + len, LaneSamples)
    IN IF len = 0 THEN lane
       ELSE [at |-> [i \in Positions |->
                       IF i >= offset /\ i < end THEN start + i - offset ELSE lane.at[i]],
             watermark |-> AtLeast(lane.watermark, end)]

AdvanceWindow(lane) ==
    [at |-> [i \in Positions |-> IF i + WindowSamples < LaneSamples
                                   THEN lane.at[i + WindowSamples] ELSE NoSample],
     watermark |-> AtLeast(lane.watermark - WindowSamples, 0)]

\* Mutants: the window moves to an early chunk but the lanes do not; an early
\* chunk moves the window back although it was emitted.
PlacedUnshifted(start, len) ==
    [lanes |-> mixer.lanes, start |-> start, len |-> len,
     first |-> IF mixer.start = NoSample \/ start < mixer.start THEN start ELSE mixer.start]
PlacedUntrimmed(start, len) ==
    LET first == IF mixer.start = NoSample THEN start ELSE mixer.start
        early == AtLeast(first - start, 0)
    IN [lanes |-> [l \in Lanes |-> ShiftRight(mixer.lanes[l], early)],
        first |-> first - early, start |-> start, len |-> len]

\* A chunk from before the window: the lanes move right while nothing was
\* emitted yet, afterwards the early samples are cut off.
Placed(start, len) ==
    LET first == IF mixer.start = NoSample THEN start ELSE mixer.start
        early == first - start
        trim == AtMost(early, len)
    IN CASE early > 0 /\ ~mixer.emitted ->
              [lanes |-> [l \in Lanes |-> ShiftRight(mixer.lanes[l], early)],
               first |-> start, start |-> start, len |-> len]
         [] early > 0 /\ mixer.emitted ->
              [lanes |-> mixer.lanes, first |-> first, start |-> start + trim, len |-> len - trim]
         [] OTHER ->
              [lanes |-> mixer.lanes, first |-> first, start |-> start, len |-> len]

\* A chunk past the end of the lanes starts over from its own time.
Restarted(p) ==
    IF p.len > 0 /\ p.start - p.first >= LaneSamples
      THEN [p EXCEPT !.lanes = Cleared, !.first = p.start] ELSE p

Push(l, start, len) ==
    LET p == Restarted(Placed(start, len))
        lanes == [p.lanes EXCEPT ![l] = WriteLane(@, p.start - p.first, p.start, p.len)]
        full == p.len > 0 /\ \A k \in Lanes : lanes[k].watermark >= WindowSamples
    IN /\ captureTime' = [captureTime EXCEPT ![l] = start + len]
       /\ IF full
            THEN /\ window' = [start |-> p.first, lanes |-> [k \in Lanes |-> lanes[k].at]]
                 /\ windowEnd' = IF window = <<>> THEN 0 ELSE window.start + WindowSamples
                 /\ mixer' = [start |-> p.first + WindowSamples, emitted |-> TRUE,
                              lanes |-> [k \in Lanes |-> AdvanceWindow(lanes[k])]]
            ELSE /\ mixer' = [start |-> p.first, emitted |-> mixer.emitted, lanes |-> lanes]
                 /\ UNCHANGED <<window, windowEnd>>

\* Each source delivers its chunks in time order; dropped chunks leave gaps.
MixNext ==
    \E l \in Lanes, start \in 0..MaxInstant, len \in 1..LaneSamples :
        /\ start >= captureTime[l] /\ start + len <= MaxInstant
        /\ Push(l, start, len)

MixSpec == MixInit /\ [][MixNext]_mixVars

\* The lanes keep their length and no watermark passes it.
MixTypeOK ==
    \A l \in Lanes : /\ mixer.lanes[l].watermark \in 0..LaneSamples
                     /\ DOMAIN mixer.lanes[l].at = Positions

\* What a window holds at a position was captured by that source at exactly
\* that instant: the two sources are never mixed out of step.
MixAligned ==
    window # <<>> =>
        \A l \in Lanes, i \in 0..WindowSamples - 1 :
            window.lanes[l][i] \in {NoSample, window.start + i}

\* "emits non-overlapping five-second 16 kHz mono windows": no instant is
\* transcribed twice.
WindowsDisjoint == window # <<>> => window.start >= windowEnd

\* The mixer puts every sample at its instant and no instant in two windows,
\* however the two sources' chunks arrive.
WindowsFaithful == MixTypeOK /\ MixAligned /\ WindowsDisjoint
=============================================================================
