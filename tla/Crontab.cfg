SPECIFICATION FairSpec
CONSTANTS
    every = every
    odd = odd
    Jobs = {every, odd}
    Stops = {s1, s2}
    JobStops = {s2}
    Clock <- Readings
    Label <- Labels
    Due <- Schedules
INVARIANTS
    AtMostOncePerMinute
    SlotSound
    DrainComplete
PROPERTIES
    NoAddUnderWaiter
    NoDispatchAfterStop
    ShutdownEnds
\* After Shutdown, and at the clock's bound, the scheduler stops.
CHECK_DEADLOCK FALSE
