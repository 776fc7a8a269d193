CONSTANTS
    Clients = {c1, c2}
    Tasks = {t1, t2}
    NULL = NULL
    TASK_THREAD_COUNT = 2
    MaxThreads = 2
    MaxInits = 1
    MaxChain = 2
    Daemons = {d1, d2}
    Servers = {s1, s2}
    MaxStops = 1
SPECIFICATION MCSpec
PROPERTIES
    AddedTasksComplete
    StopLeavesNewcomers
    DaemonKeepsServer
\* Tasks are bounded, and a daemon may be killed.
CHECK_DEADLOCK FALSE
