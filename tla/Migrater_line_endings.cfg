SPECIFICATION Spec
CONSTANTS
    Runs = {r1, r2}
    Files = {1, 2, 3}
    Ids = {"010", "2"}
    NoId = NoId
    Id <- PlainIds
    Number <- PlainNumbers
    MaxInt = 100
    Texts = {a, b}
    First = a
    None = None
    NoHash = NoHash
    MaxFaults = 0
    MaxEdits = 1
    Panics = FALSE
INVARIANTS
    RawBytesDrift
\* After the last Run nothing has to happen.
CHECK_DEADLOCK FALSE
