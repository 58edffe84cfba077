SPECIFICATION FairSpec
CONSTANTS
    Specs <- AllSpecs
    Moments <- AllMoments
    MaxInt = 1000
INVARIANTS
    AcceptsExactly
    FiresExactly
PROPERTIES
    ParseEnds
\* parse ends.
CHECK_DEADLOCK FALSE
