CONSTANTS
    Chunks = {1}
    Sources = {"native"}
    SlowHandlers = FALSE
    MaxJobs = 2
    MaxFaults = 0
    Convs = {"c1", "c2"}
    OldConvs = {}
    Listing <- MCListing
    Generations = 2
    Remembers = FALSE
    Pool = 2
    RowsMove = FALSE
    ParserPanics = FALSE
    MaxEdits = 1
SPECIFICATION Spec
CHECK_DEADLOCK FALSE
INVARIANT
    NoSecondCopy
