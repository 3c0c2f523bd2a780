SPECIFICATION FairSpec
CONSTANTS
    t1 = t1
    t2 = t2
    t3 = t3
    Threads = {t1, t2, t3}
    EntryPoints = {"complete_with_tools", "complete_stream"}
    Threshold = 3
    MaxRetries = 1
    FailureBound = 3
INVARIANTS
    TypeOK
    CountDecidesState
PROPERTIES
    FailureReopens
    RecoversUnderLoad
