\* Crashes and restarts, with one or two refined levels after each restart.
SPECIFICATION CheckpointSpec
CONSTANTS
    MaxLevel = 2
    RegridInt <- MCRegridInt
    Dts = {4}
    NewDtOnRegrid = FALSE
    Efficient = FALSE
    PostStep = FALSE
    HandlesPostStep = FALSE
    Inputs <- MCInputs
    MaxTime = 6
    None = None
    RegridOnRestart = {FALSE, TRUE}
    MaxCrashes = 2
    MaxSteps = 1
INVARIANTS WholeCheckpoints Synced
PROPERTY NothingLost
