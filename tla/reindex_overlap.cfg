CONSTANTS
    Jobs = {1, 2, 3}
    Kickoffs = {k1, k2}
    MayReset = FALSE
SPECIFICATION Spec
CHECK_DEADLOCK FALSE
INVARIANT
    RebuildsApart
