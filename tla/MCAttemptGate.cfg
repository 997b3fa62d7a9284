CONSTANTS
    Attempt = {a1, a2}
    Lock = {l1, l2}
    Key = {k1, k2}
    NoAttempt = NoAttempt
    NoLock = NoLock
    NoKey = NoKey
    Slots = 1
    Threshold = 2
    Base = 1
    MaxBackoff = 5
    MaxFailures = 7
SPECIFICATION FairSpec
INVARIANTS
    MutualExclusion
    LockoutHonoured
PROPERTIES
    NeverCutShort
    ImplementsThrottle
    FailureLocks
    Answered
