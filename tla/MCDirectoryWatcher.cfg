CONSTANTS
    Dirs = {d1, d2}
    Names = {n1, n2}
    MaxDepth = 2
    MaxChanges = 4
    Top = Top
    Gone = Gone
SPECIFICATION Spec
SYMMETRY Symmetry
INVARIANTS
    WatchesFollowTree
PROPERTIES
    ReportsAreTrue
