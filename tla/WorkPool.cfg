SPECIFICATION FairSpec
CONSTANTS
    Tasks = {1, 2, 3, 4}
    Runners = {r1, r2}
    WorkersArg = 2
    BufferArgs <- SmallBuffers
    Submitter <- Nested
    NoTask = NoTask
INVARIANTS
    IndInv
    CountersExact
    RunWaitsForOwed
    DisciplineSuffices
PROPERTIES
    RunEnds
    AcceptedResolved
\* The pool is single-use: after Run and the last Do it stops.
CHECK_DEADLOCK FALSE
