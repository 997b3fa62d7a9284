CONSTANTS
    Name = {s1, s2}
    Home = home
    MaxSessions = 2
    MaxDrops = 1
    MaxChains = 1
SPECIFICATION FairSpec
INVARIANTS
    LockedOutWaits
    RetryIsReal
PROPERTIES
    NoStrayShell
    ComesBack
CHECK_DEADLOCK FALSE
