CONSTANTS
    Request = {r1, r2}
    Sid = {s1, s2}
    Hash = {h1, h2}
    TTL = 2
    Refresh = 1
    MaxLife = 3
    Reauth = 3
    MaxNow = 4
SPECIFICATION Spec
SYMMETRY Symmetry
INVARIANTS
    RevokedIsDead
    SessionCapped
    IdleIsOver
    ActiveStaysUnlocked
    PasswordIsRecent
CHECK_DEADLOCK FALSE
