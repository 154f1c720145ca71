SPECIFICATION DelSpec
CONSTANTS
    Recs = {"a", "b"}
    Deletable = {"a"}
    NoFile = NoFile
    MaxEdits = 0
    MaxQueries = 0
    MaxFaults = 1
    MaxRequests = 1
PROPERTY DeletionCompletes
CHECK_DEADLOCK FALSE
