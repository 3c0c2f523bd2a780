SPECIFICATION Spec
CONSTANTS
    t1 = t1
    t2 = t2
    t3 = t3
    Threads = {t1, t2}
    EntryPoints = {"complete", "complete_with_tools", "complete_stream"}
    Threshold = 2
    MaxRetries = 2
    FailureBound = 3
PROPERTY
    FollowsDiagram
