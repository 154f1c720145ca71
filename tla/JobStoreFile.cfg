\* A store created by this version: any write call may fail, any crash.
SPECIFICATION Spec
CONSTANTS
    j1 = j1
    j2 = j2
    j3 = j3
    Job = {j1, j2, j3}
    LegacyJobs = {}
    OneShotJobs = {j3}
    StartupReliable = TRUE
INVARIANTS TypeOK AcceptedDurable PurgedErased
PROPERTIES ImplementsLedger
