CONSTANTS
    Name = {n1, n2}
    Session = {s1}
    Client = {c1}
    Admin = {a1}
    Reaper = reaper
    IdleTimeout = 1
    NoSession = NoSession
    NoName = NoName
SPECIFICATION FairSpec
PROPERTIES
    ImplementsFairDirectory
    EndedIsForgotten
    ShellIsReaped
    IdleIsCollected
