CONSTANTS
    Conn = {c1, c2}
    RingSize = 2
    MaxChunk = 3
    Clear = Clear
SPECIFICATION FairSpec
INVARIANTS
    LiveFollowsReplay
    NothingSkipped
    FinalOutputSent
PROPERTIES
    NeverFrozen
    AllLeave
CHECK_DEADLOCK FALSE
