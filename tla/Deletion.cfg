SPECIFICATION DelSpec
CONSTANTS
    Recs = {"a", "b"}
    Deletable = {"a"}
    NoFile = NoFile
    MaxEdits = 1
    MaxQueries = 1
    MaxFaults = 1
    MaxRequests = 1
INVARIANTS SearchSound DeletionLeavesNothing NoLostChange
PROPERTIES WholeDeletionCompletes
CHECK_DEADLOCK FALSE
