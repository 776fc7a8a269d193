\* Both calls return, and then nothing is left to do.
CHECK_DEADLOCK FALSE
CONSTANT
    Checks <- MCChecks
    Pids = {1, 2}
    Vacant = Vacant
    Outsider = Outsider
SPECIFICATION MCSpec
INVARIANTS
    ResultIsTrue
    KillsOnlyOwn
PROPERTIES
    ReturnsUnlessHeldUp
