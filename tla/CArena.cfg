\* Two threads in a GPU build, whose behaviours include those of a CPU build:
\* there no thread runs in the window in which the freeAsync buffer is cleared.
SPECIFICATION Spec
CONSTANTS
    t1 = t1
    t2 = t2
    None = None
    Threads = {t1, t2}
    Memory = 5
    Hunk = 2
    Threshold = 6
    Defragmentation = TRUE
    UseGpu = TRUE
SYMMETRY ThreadSymmetry
INVARIANTS TypeOK Tiled Coalesced
PROPERTIES ReleasesAll Refinement
