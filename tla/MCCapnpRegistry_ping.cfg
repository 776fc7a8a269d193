CONSTANTS
    Exts = {e1, e2}
    Ids = {n1, n2}
    NoExt = NoExt
    MaxCores = 1
SPECIFICATION Spec
PROPERTIES
    OnlyQuitEnds
CHECK_DEADLOCK FALSE
