SPECIFICATION Spec
CONSTANTS
    Images = {i1}
    Olds = {}
    Workers = {w1}
    RacingUploads = FALSE
    ReplayRefused = TRUE
    MaxUploads = 1
    MaxForks = 2
    MaxPushes = 1
    MaxDrops = 0
    MaxFaults = 2
INVARIANT RefsReadable
CHECK_DEADLOCK FALSE
