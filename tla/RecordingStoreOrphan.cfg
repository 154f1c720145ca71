SPECIFICATION ReaderSpec
CONSTANTS
    Absent = Absent
    Torn = Torn
    a0 = a0
    a1 = a1
    Attempts <- MCAttempts
    Earlier <- MCEarlier
    MaxChunks = 3
    MaxRevisions = 2
    MaxReceipts = 2
    MaxOps = 3
    MaxFaults = 1
INVARIANT TracksKept
CHECK_DEADLOCK FALSE
