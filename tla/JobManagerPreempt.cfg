\* A transcription meets a recording.
SPECIFICATION Spec
CONSTANTS
    t = t
    c1 = c1
    c2 = c2
    m = m
    n = n
    e = e
    r = r
    NoJob = NoJob
    Job = {t}
    Recording = {}
    OneShot <- MCOneShot
    MediaImport <- MCOneShot
    Exclusive <- MCExclusive
    Rank <- MCRank
    FollowUp <- MCFollowUp
    RecordingOf <- MCRecordingOf
    MaxRetained = 4
    Crashes = 0
    LostSaves = 0
    Panics = 0
    Retries = 0
    Recordings = 1
    Shutdowns = 0
    Limit <- MCLimit
PROPERTIES PreemptionOnlyPauses
