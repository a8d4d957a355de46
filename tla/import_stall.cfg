CONSTANTS
    Chunks = {1}
    Sources = {"native"}
    SlowHandlers = FALSE
    MaxJobs = 1
    MaxFaults = 1
    Convs = {"c1", "c2"}
    OldConvs = {}
    Listing <- MCListing
    Generations = 1
    Remembers = FALSE
    Pool = 2
    RowsMove = FALSE
    ParserPanics = FALSE
    MaxEdits = 0
SPECIFICATION Spec
CHECK_DEADLOCK FALSE
INVARIANT
    StallReported
