\* The ranks end: the run may stop.
SPECIFICATION Spec
CHECK_DEADLOCK FALSE
CONSTANTS
    NProcs = 3
    NFabs = 5
    FilesOf <- MCFilesOf
    Streams = {1, 2}
INVARIANTS TypeOK OpensLimited
PROPERTY AllRead
