CONSTANTS
    QueueSize = 2
    IndexMod = 8
    MaxProduced = 10
SPECIFICATION MCSpec
INVARIANTS
    NoDataRace
    QueueInv
    SessionsInOrder
PROPERTIES
    RefusalsAreReal
    SizesAreReal
    ClearDrains
    ImplementsFifo
    FinalizeIsSynchronous
    JoinReturnsUnlessTrapped
\* The process may end, and a bounded client may stop calling.
CHECK_DEADLOCK FALSE
