CONSTANTS
    Chunks = {1, 2}
    Sources = {"legacy"}
    SlowHandlers = TRUE
    MaxJobs = 2
    MaxFaults = 2
    Convs = {"c1", "c2"}
    OldConvs = {"c2"}
    Listing <- MCListing
    Generations = 2
    Pool = 2
    RowsMove = FALSE
    ParserPanics = FALSE
    MaxEdits = 1
SPECIFICATION FairSpec
CHECK_DEADLOCK FALSE
PROPERTY
    StagingReclaimed
