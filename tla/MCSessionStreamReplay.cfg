CONSTANTS
    Conn = {c1}
    RingSize = 2
    MaxChunk = 2
    Clear = Clear
SPECIFICATION Spec
SYMMETRY Symmetry
INVARIANTS
    ReplayBeforeLive
CHECK_DEADLOCK FALSE
