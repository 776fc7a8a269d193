CONSTANTS
    Threads = {t1, t2}
    Timeouts = {1}
    DelayTimeouts = {}
    s_checker_limit = 2
    MaxTime = 3
    MaxProcesses = 2
    MaxWatchdogs = 2
    MaxIndex = 3
SPECIFICATION Spec
SYMMETRY Symmetry
INVARIANTS
    RecordsAreOwned
PROPERTIES
    KilledForLateAction
CHECK_DEADLOCK FALSE
