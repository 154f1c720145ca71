\* A schema-1 store is found; any call may fail, any crash.
SPECIFICATION Spec
CONSTANTS
    j1 = j1
    j2 = j2
    j3 = j3
    Job = {j1, j2}
    LegacyJobs = {j1}
    OneShotJobs = {j2}
    StartupReliable = FALSE
PROPERTIES LoadPreserves
