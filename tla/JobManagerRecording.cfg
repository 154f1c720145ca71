\* A transcription, its recording deleted, and a media import against recordings, shutdown, a panic and a crash.
SPECIFICATION Spec
CONSTANTS
    t = t
    c1 = c1
    c2 = c2
    m = m
    n = n
    e = e
    r = r
    NoJob = NoJob
    Job = {t, m}
    Recording = {r}
    OneShot <- MCOneShot
    MediaImport <- MCOneShot
    Exclusive <- MCExclusive
    Rank <- MCRank
    FollowUp <- MCFollowUp
    RecordingOf <- MCRecordingOf
    MaxRetained = 4
    Crashes = 1
    LostSaves = 0
    Panics = 1
    Retries = 0
    Recordings = 1
    Shutdowns = 1
    Limit <- MCLimit
INVARIANTS TypeOK RecordingExcludesImport RecordingStartsClean PreemptionReaches CommittedImportReported
