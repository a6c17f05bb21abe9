SPECIFICATION Spec
CHECK_DEADLOCK FALSE
CONSTANTS
    NProcs = 3
    NWrites = 2
    Files <- MCFiles
    Layouts <- MCLayouts
INVARIANTS InOrder ReadTrue
PROPERTIES AllRead
