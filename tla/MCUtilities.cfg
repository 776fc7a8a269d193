\* Expressions are bounded, so their construction ends, and so does a loop; children end.
CHECK_DEADLOCK FALSE
CONSTANTS
    Inputs <- MCInputs
    Keys <- MCPatterns
    Malformed <- MCMalformed
    Matching <- MCMatching
    Exploding <- MCExploding
    Values <- MCValues
    Families <- MCFamilies
    Capacities = {0, 2, 3}
    NoValue = NoValue
    MIN_UID = 8
    MAX_UID = 14
    WordBits = 3
    UintMod = 16
    MaxNumbers = 6
    Paths <- MCPaths
    Files = {1, 3, 5}
    SubFolders = {2, 4}
    PageSize = 2
    MaxChanges = 3
    Calls = {1, 2, 3}
    Numbers = {n1, n2}
    NoNumber = NoNumber
    Nobody = Nobody
    Stranger = Stranger
SPECIFICATION MCSpec
INVARIANTS
    KeepsMostRecent
    AnswersAreMatches
    EvaluatesMeaning
    CountExact
    ListsWhatIsThere
    NumbersNameTheChild
PROPERTIES
    ImplementsPool
    ShowsEveryChoice
    CreateKeepsContent
    ClosedPipeEndsChild
