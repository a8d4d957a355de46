CONSTANTS
    Jobs = {1, 2, 3}
    Kickoffs = {k1, k2}
    MayReset = TRUE
SPECIFICATION FairSpec
CHECK_DEADLOCK FALSE
INVARIANTS
    TypeOK
    OneRebuild
PROPERTIES
    JobsEnd
