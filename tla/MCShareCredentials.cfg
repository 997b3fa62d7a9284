CONSTANTS
    u1 = u1
    u2 = u2
    Request = {r1, r2}
    User = {u1, u2}
    Password = {p1, p2}
    DefaultUser = u1
    NoUser = NoUser
    NoPassword = NoPassword
    Typed = {u2}
    Env <- Pinned
    Idle = 2
    MaxCached = 1
SPECIFICATION Spec
SYMMETRY Symmetry
INVARIANTS
    OnlyOvertakenIsStale
PROPERTIES
    OwnerStaysIn
CHECK_DEADLOCK FALSE
