CONSTANTS
    Clients = {c1, c2}
    Tasks = {t1, t2}
    NULL = NULL
    TASK_THREAD_COUNT = 2
    MaxThreads = 3
    MaxInits = 2
    MaxChain = 2
SPECIFICATION Spec
INVARIANTS
    ListIsPending
    CallbacksOnce
SYMMETRY Symmetry
CHECK_DEADLOCK FALSE
