CONSTANTS
    Threads = {t1, t2}
    Timeouts = {1}
    DelayTimeouts = {1}
    s_checker_limit = 1
    MaxTime = 3
    MaxProcesses = 2
    MaxWatchdogs = 1
    MaxIndex = 2
SPECIFICATION Spec
PROPERTIES
    KilledForLateStream
    StuckIsKilled
CHECK_DEADLOCK FALSE
