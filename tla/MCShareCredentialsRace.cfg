CONSTANTS
    u1 = u1
    u2 = u2
    Request = {r1}
    User = {u1, u2}
    Password = {p1, p2}
    DefaultUser = u1
    NoUser = NoUser
    NoPassword = NoPassword
    Typed = {u2}
    Env <- Unpinned
    Idle = 2
    MaxCached = 2
SPECIFICATION Spec
INVARIANTS
    HitPassesGate
CHECK_DEADLOCK FALSE
