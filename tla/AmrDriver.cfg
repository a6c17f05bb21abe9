\* Three levels; regrids before and after a level's advance, in an application whose
\* init methods are made for both.
SPECIFICATION FairSpec
CONSTANTS
    MaxLevel = 2
    RegridInt <- MCRegridInt
    Dts = {4, 8}
    NewDtOnRegrid = TRUE
    Efficient = TRUE
    PostStep = TRUE
    HandlesPostStep = TRUE
    Inputs <- MCInputs
    MaxTime = 9
    None = None
INVARIANTS TypeOK StepTime RegridInTime
PROPERTIES Contract StepEnds
