\* Two finishers, which may or may not overlap, and any number of submitters.
SPECIFICATION FairSpec
CONSTANTS
    Finishers = {f1, f2}
    MaxJobs = 3
    MaxFinish = 3
INVARIANTS NoLostJob
PROPERTIES Refinement FinishReturnsAlone DestroyReturns
