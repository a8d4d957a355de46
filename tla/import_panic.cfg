CONSTANTS
    Chunks = {1, 2}
    Sources = {"legacy"}
    SlowHandlers = FALSE
    MaxJobs = 2
    MaxFaults = 2
    Convs = {"c1", "c2"}
    OldConvs = {"c2"}
    Listing <- MCListing
    Generations = 2
    Remembers = FALSE
    Pool = 2
    RowsMove = FALSE
    ParserPanics = TRUE
    MaxEdits = 1
SPECIFICATION Spec
CHECK_DEADLOCK FALSE
INVARIANT
    NoWorkerOutlivesRun
