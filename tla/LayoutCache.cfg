\* Two arrays, four addresses, two layouts that differ in the ranks only.
CONSTANTS
    a1 = a1  a2 = a2
    r1 = r1  r2 = r2  r3 = r3  r4 = r4
    NoSpace = NoSpace
    Arrays = {a1, a2}
    Refs = {r1, r2, r3, r4}
    Layouts <- MCLayouts
    Views <- MCViews
    Spaces = {NoSpace}
    NoRef = NoRef
    NoFB = NoFB
    Freed = Freed
SYMMETRY Symmetry
CONSTRAINT SmallCaches
SPECIFICATION Spec
INVARIANTS TypeOK Counted HitsRight InFlight
