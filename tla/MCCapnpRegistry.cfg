CONSTANTS
    Exts = {e1, e2}
    Ids = {n1, n2}
    NoExt = NoExt
    MaxCores = 2
SPECIFICATION Spec
INVARIANTS
    RegistrationsAreTrue
PROPERTIES
    EntriesGivenUp
    ConsoleReturns
    RegistrationAnswered
CHECK_DEADLOCK FALSE
