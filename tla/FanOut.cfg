SPECIFICATION FairSpec
CONSTANTS
    Funcs = {"a", "b", "c"}
    Dos <- Launches
    By <- Launchers
    Main = "main"
    Eager = {"eager"}
    Prog <- Programs
    Values = {1, 2, 3}
    Nil = Nil
INVARIANTS
    EverythingSeen
    SnapshotsFrozen
PROPERTIES
    WaitEnds
\* The fan-out ends.
CHECK_DEADLOCK FALSE
