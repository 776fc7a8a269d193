CONSTANTS
    Values = {v1, v2}
    NoValue = NoValue
    MaxConns = 2
SPECIFICATION SqliteSpec
SYMMETRY Symmetry
INVARIANTS
    ExitFreesTheFile
    StatementsBelong
    PromisesKept
