---------------------------- MODULE MCJobManager ----------------------------
(***************************************************************************)
(* Model-checking instances of JobManager.  t is a transcription whose     *)
(* follow-up is a recap (c1, or c2 should a second one be inserted), m and *)
(* n are media imports, e is an export; t, the recaps and e work on one    *)
(* recording.  A configuration picks the jobs and the limits.              *)
(***************************************************************************)
EXTENDS JobManager, TLC

CONSTANTS t, c1, c2, m, n, e, r
CONSTANTS Crashes, LostSaves, Panics, Retries, Recordings, Shutdowns

MCOneShot == Job \cap {m, n}
MCExclusive == Job \ {e}
MCRank == [j \in Job |-> CASE j = t -> 60 [] j = c1 -> 50 [] j = c2 -> 49
                           [] j = e -> 40 [] j = m -> 31 [] j = n -> 30]
MCFollowUp == [j \in Job |-> IF j = t THEN Job \cap {c1, c2} ELSE {}]
MCRecordingOf == [j \in Job |-> IF j \in {m, n} THEN {} ELSE Recording]
MCLimit ==
    [crash |-> Crashes, lostSave |-> LostSaves, panic |-> Panics,
     retry |-> Retries, recording |-> Recordings, shutdown |-> Shutdowns]
==============================================================================
