CONSTANTS
    Exts = {e1, e2}
    Ids = {n1}
    NoExt = NoExt
    MaxCores = 1
SPECIFICATION Spec
PROPERTIES
    NoRegistrationInForceIsReplaced
CHECK_DEADLOCK FALSE
