\* Three ranks, three particles, two or three calls; four tags, the fewest that are enough.
SPECIFICATION Spec
CONSTANTS
    NumProcs = 3
    NumTiles = 4
    Particles = {1, 2, 3}
    Align = 2
    MinTag = 0
    MaxTag = 3
    Programs <- MCPrograms
    None = None
INVARIANTS
    Conserved
    Placed
PROPERTIES
    AllDone
CHECK_DEADLOCK FALSE
