SPECIFICATION FairSpec
CONSTANTS
    Runs = {r1, r2}
    Files = {1, 2, 3, 4}
    Ids = {"010", "2"}
    NoId = NoId
    Id <- FileIds
    Number <- FileNumbers
    MaxInt = 9
    Texts = {a, b}
    First = a
    None = None
    NoHash = NoHash
    MaxFaults = 1
    MaxEdits = 1
    Panics = TRUE
INVARIANTS
    ExactlyOnce
    NumericOrder
    SuccessIsComplete
    ColumnRaceHarmless
    DriftReported
PROPERTIES
    RunEnds
\* After the last Run nothing has to happen.
CHECK_DEADLOCK FALSE
