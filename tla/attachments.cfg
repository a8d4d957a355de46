SPECIFICATION FairSpec
CONSTANTS
    Images = {i1}
    Olds = {o1}
    Workers = {w1, w2}
    RacingUploads = FALSE
    ReplayRefused = FALSE
    MaxUploads = 2
    MaxForks = 2
    MaxPushes = 1
    MaxDrops = 1
    MaxFaults = 1
INVARIANTS
    TypeOK
    RefsReadable
    Accounted
PROPERTIES
    Reclaimed
CHECK_DEADLOCK FALSE
