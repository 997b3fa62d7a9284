----------------------------- MODULE BackendPanels -----------------------------
(***************************************************************************)
(* The parts that follow what the backend runs or keeps for them: jobs,     *)
(* login sessions, clones, log lines, files of settings and of logs, the    *)
(* ceremonies of a gate.  They share no state: each keeps its own in the    *)
(* variables declared here, and MCPanels checks them one at a time with the *)
(* rest of the parts.                                                       *)
(***************************************************************************)
EXTENDS Naturals, FiniteSets

CONSTANTS
    None,
    \* Bounds that several parts have: requests on their way, requests of one
    \* kind, starts, jobs of the backend and of the tab alone, what a page asks for.
    MaxCalls, MaxAsks, MaxStarts, MaxJobs, MaxOwnJobs, MaxActs,
    MaxStored,                \* MiseJobs
    MaxVisits,                \* ClaudePanel
    App, All, MaxPages,       \* LogView
    Project, Clone,           \* ProjectList
    Gate, Handler, Threshold, \* FingerprintUnlock
    Text, Empty,              \* EditedFiles, with bounds on what is saved
    MaxSaves, MaxWrites,      \* and on what others write
    MaxLines                  \* LogPurge

\* None is no value of the code's, and what bounds is a number.
ASSUME NoneAssumption ==
    /\ None \notin Nat /\ None \notin BOOLEAN
    /\ None \notin {"again", "ok", "failed", "404", "running"} /\ None \notin [installed : BOOLEAN, hide : BOOLEAN]
ASSUME BoundAssumption ==
    MaxCalls \in Nat /\ MaxAsks \in Nat \ {0} /\ MaxStarts \in Nat \ {0} /\ MaxJobs \in Nat /\ MaxOwnJobs \in Nat /\ MaxActs \in Nat
ASSUME MiseAssumption == MaxStored \in Nat /\ None \notin [id : Nat, status : {"starting", "running", "ok", "failed"}]
ASSUME FingerprintAssumption ==
    /\ IsFiniteSet(Handler) /\ Handler # {} /\ Threshold \in Nat
    /\ \A g \in Gate : g.room \in Nat \ {0}
ASSUME LogsAssumption == MaxPages \in Nat \ {0} /\ All \in App
ASSUME ProjectsAssumption == Clone \in Project
ASSUME EditorAssumption == None \notin Text \cup {Empty}

VARIABLES part, x1, x2, x3, x4, x5, x6, x7, x8, x9, x10, x11, x12, x13, x14, x15, x16

-----------------------------------------------------------------------------
Dialog == INSTANCE LoginDialog
    WITH phase <- x1, refs <- x2, gen <- x3, ws <- x4, timers <- x5, asked <- x6, starts <- x7, probes <- x8, polls <- x9, cancels <- x10, server <- x11
Mise == INSTANCE MiseJobs
    WITH page <- x1, calls <- x2, server <- x3
Claude == INSTANCE ClaudePanel
    WITH tab <- x1, stored <- x2, calls <- x3, server <- x4, MaxJobs <- MaxOwnJobs
Login == INSTANCE ClaudeLogin
    WITH panel <- x1, logout <- x2, calls <- x3, server <- x4, lost <- x5
Logs == INSTANCE LogView
    WITH page <- x1, calls <- x2, MaxAsks <- MaxPages
Projects == INSTANCE ProjectList
    WITH page <- x1, calls <- x2, server <- x3, disk <- x4, acts <- x5

\* The fingerprint unlock of a gate with its hosts and passwords, its room for
\* ceremonies and how many are begun.
Fingerprint(g) == INSTANCE FingerprintUnlock
    WITH Host <- g.host, Hash <- g.hash, MaxCeremonies <- g.room, MaxBegun <- g.begun, Request <- Handler,
         hash <- x1, store <- x2, ceremonies <- x3, backoff <- x4, handlers <- x5, asked <- x6, wins <- x7, deleted <- x8, overrun <- x9
Editor == INSTANCE EditedFiles
    WITH ed <- x1, calls <- x2, file <- x3, lost <- x4
Purge == INSTANCE LogPurge
    WITH file <- x1, vector <- x2, purge <- x3, lines <- x4, asked <- x5, risk <- x6
================================================================================
