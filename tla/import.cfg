CONSTANTS
    Chunks = {1}
    Sources = {"native", "legacy"}
    SlowHandlers = FALSE
    MaxJobs = 2
    MaxFaults = 2
    Convs = {"c1", "c2"}
    OldConvs = {"c2"}
    Listing <- MCListing
    Generations = 2
    Remembers = FALSE
    Pool = 2
    RowsMove = FALSE
    ParserPanics = FALSE
    MaxEdits = 1
SPECIFICATION FairSpec
CHECK_DEADLOCK FALSE
INVARIANTS
    TypeOK
    LiveReachable
    StagedForRun
    NoDuplicate
    RestoredReadable
    Placed
    ReportedThere
PROPERTIES
    StagingReclaimed
    ImportsEnd
