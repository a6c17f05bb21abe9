\* Two concurrent finishers: one of them may sleep for ever.
SPECIFICATION FairSpec
CONSTANTS
    Finishers = {f1, f2}
    MaxJobs = 1
    MaxFinish = 2
PROPERTY FinishReturns
