CONSTANTS
    Name = {n1}
    Session = {s1}
    Client = {c1}
    Admin = {a1}
    Reaper = reaper
    IdleTimeout = 1
    NoSession = NoSession
    NoName = NoName
SPECIFICATION Spec
SYMMETRY Symmetry
INVARIANTS
    ReapedIsIdle
