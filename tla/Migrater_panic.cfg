SPECIFICATION Spec
CONSTANTS
    Runs = {r1}
    Files = {1, 2, 3}
    Ids = {"010", "2"}
    NoId = NoId
    Id <- PlainIds
    Number <- PlainNumbers
    MaxInt = 100
    Texts = {a, b}
    First = a
    None = None
    NoHash = NoHash
    MaxFaults = 1
    MaxEdits = 0
    Panics = TRUE
INVARIANTS
    NoOpenTransaction
\* After the last Run nothing has to happen.
CHECK_DEADLOCK FALSE
