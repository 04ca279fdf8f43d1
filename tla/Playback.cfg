SPECIFICATION Spec
CONSTANTS
    DEFAULT_CACHE = 2
    CACHE_TLV = 1
    PollGap = 100000
    Burst = 2
    Steps <- Tenth
    Starts <- Phases
    MaxSec = 3
    MaxBlocks = 4
INVARIANTS TypeOK KeepsCache PlaysOn
PROPERTIES NeverPlays PlaysApart
CHECK_DEADLOCK FALSE
