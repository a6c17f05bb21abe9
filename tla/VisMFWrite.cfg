SPECIFICATION Spec
CHECK_DEADLOCK FALSE
CONSTANTS
    NProcs = 4
    Old = Old
    Layouts <- MCLayouts
INVARIANTS OneWriter HeaderTrue NoStrayMessages
PROPERTY AllLeave
