CONSTANTS
    Capacity = {0, 1, 2, 3, 4}
    MaxWrite = 6
    MaxByte = 14
    None = None
    MaxCalls = 2
    MaxAsks = 2
    MaxStarts = 2
    MaxJobs = 2
    MaxOwnJobs = 1
    MaxActs = 2
    Reads = {"read"}
    Changes = {}
    Polls = {"poll"}
    Clicks = {"click"}
    Letter = {"a", "b"}
    Phrase <- Phrases
    MaxField = 3
    MaxLine = 3
    PanelId = {"p1", "p2"}
    Slot = {"term1", "term2"}
    FirstSlot = "term1"
    Thing = {"A", "V"}
    Home = "home"
    Title <- TitleOf
    MaxReports = 1
    Tab = {"supervisor", "terminal", "projects", "vnc"}
    HomeTab = "supervisor"
    Vnc = "vnc"
    Carry = {"terminal", "projects"}
    Posted = {"terminal"}
    Gated = {"terminal"}
    Value = {"a", "b"}
    MaxBacks = 2
    MaxStored = 0
    Tool = {"go", "node"}
    MaxVisits = 2
    Dir = {"root", "home"}
    Root = "root"
    HomeDir = "home"
    Name = {"x", "y"}
    FirstNames = {"x"}
    MaxOps = 2
    MaxLooks = 1
    Text = {"a", "b"}
    Empty = "empty"
    MaxSaves = 2
    MaxWrites = 2
    Item = {"i", "j", "k"}
    FirstItems = {"i", "j"}
    MaxClicks = 2
    MaxOthers = 1
    App = {"all", "a"}
    All = "all"
    MaxPages = 3
    Project = {"p", "q"}
    Clone = "q"
    Gate <- Gates
    Handler = {"r", "s"}
    Threshold = 2
    MaxLines = 4
    MaxParams = 5
    MaxPrefix = 3
    MaxSequences = 2
SPECIFICATION PanelsSpec
INVARIANTS
    PanelsTypeOK
    SnapshotIsRecent
    NothingStuck
    TextIsMeant
    ShownIsTrue
    NothingLeftBehind
    OnlyAsked
PROPERTY
    NewestShown
CHECK_DEADLOCK FALSE
