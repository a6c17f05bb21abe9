SPECIFICATION FairGpuSpec
CONSTANTS
    t1 = t1
    t2 = t2
    None = None
    Threads = {t1, t2}
    Memory = 2
    Hunk = 1
    Threshold = 2
    Defragmentation = TRUE
    UseGpu = TRUE
    NumStreams = 2
    WaitLimit = 1
    MaxQueue = 2
INVARIANTS NotReusedInFlight DeferredOnce
PROPERTIES MutexReleased
