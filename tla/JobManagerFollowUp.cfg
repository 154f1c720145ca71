\* A transcription and its recap, retried, with a lost save and a crash.
SPECIFICATION Spec
CONSTANTS
    t = t
    c1 = c1
    c2 = c2
    m = m
    n = n
    e = e
    r = r
    NoJob = NoJob
    Job = {t, c1, c2}
    Recording = {}
    OneShot <- MCOneShot
    MediaImport <- MCOneShot
    Exclusive <- MCExclusive
    Rank <- MCRank
    FollowUp <- MCFollowUp
    RecordingOf <- MCRecordingOf
    MaxRetained = 4
    Crashes = 1
    LostSaves = 1
    Panics = 0
    Retries = 1
    Recordings = 1
    Shutdowns = 0
    Limit <- MCLimit
INVARIANTS FollowUpUnique VisibleIsDurable
PROPERTIES CancelSticks
