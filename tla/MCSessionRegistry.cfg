CONSTANTS
    Name = {n1, n2}
    Session = {s1, s2}
    Client = {c1}
    Admin = {a1}
    Reaper = reaper
    IdleTimeout = 1
    NoSession = NoSession
    NoName = NoName
SPECIFICATION Spec
SYMMETRY Symmetry
INVARIANTS
    KeyIsName
    NoOrphan
    DoomedIsUnlisted
PROPERTIES
    NeverRelisted
