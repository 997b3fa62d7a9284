-------------------------------- MODULE MCPanels --------------------------------
(***************************************************************************)
(* The parts of the web frontend, of the extension and of the backend that  *)
(* share no state, checked together: a behaviour is one of one part, which  *)
(* TLC takes from its initial states.  The variables are what the part at   *)
(* hand keeps in them.                                                      *)
(***************************************************************************)
EXTENDS RingBuffer, BackendPanels

CONSTANTS
    Reads, Changes, Polls, Clicks,                      \* UnlockPrompt
    Letter, Phrase, MaxField, MaxLine,                  \* TerminalInput
    PanelId, Slot, FirstSlot, Thing, Home, Title, MaxReports, \* ExtensionHost
    Tab, HomeTab, Vnc, Carry, Posted, Gated, Value, MaxBacks, \* AppShell
    Tool,                                               \* ToolSearch
    Dir, Root, HomeDir, Name, FirstNames, MaxOps, MaxLooks, \* FileBrowser
    Item, FirstItems, MaxClicks, MaxOthers,             \* ResourceLists
    MaxParams, MaxPrefix, MaxSequences                  \* OutputParsers

\* None is no value of the code's, a folder has its first files, home and VNC
\* take nothing from other tabs, and the extension's views are tabs or slots.
ASSUME SearchAssumption == None \notin Tool
ASSUME FilesAssumption ==
    /\ Root \in Dir /\ HomeDir \in Dir /\ FirstNames \subseteq Name
    /\ None \notin {"rename", "mkdir", "delete", "upload", "bulk", "move", "copy"}

ASSUME ShellAssumption ==
    /\ HomeTab \in Tab /\ Vnc \in Tab \ {HomeTab} /\ Carry \subseteq Tab \ {HomeTab, Vnc} /\ None \notin Value
ASSUME ExtensionAssumption ==
    /\ FirstSlot \in Slot /\ PanelId \cap Slot = {} /\ None \notin PanelId \cup Slot
    /\ Home \notin Thing /\ None \notin Thing \cup {Home}

panels == <<part, vars, x1, x2, x3, x4, x5, x6, x7, x8, x9, x10, x11, x12, x13, x14, x15, x16>>

-----------------------------------------------------------------------------
\* What the configuration cannot write: the two things in the extension's
\* panels have one title; a composition of one word, of one letter more, and
\* of a word and a space; a gate on two hosts with two passwords that has room
\* for one ceremony, and one of each where two are finished beside each other.
TitleOf == [s \in {"A", "B", "V", "home"} |-> IF s \in {"A", "V"} THEN "a" ELSE IF s = "B" THEN "b" ELSE s]
Phrases == {<<"a">>, <<"a", "b">>, <<"b", " ">>}
Gates == {[host |-> {"h", "i"}, hash |-> {"p", "q"}, room |-> 1, begun |-> 2],
          [host |-> {"h"}, hash |-> {"p"}, room |-> 2, begun |-> 3]}

Prompt == INSTANCE UnlockPrompt
    WITH unlocked <- x1, declined <- x2, pc <- x3, waiters <- x4, open <- x5, handedOff <- x6, recheck <- x7, checks <- x8, post <- x9, mounted <- x10, known <- x11, loadError <- x12, asks <- x13, cardPost <- x14, news <- x15, unsure <- x16,
         Read <- Reads, Change <- Changes, Poll <- Polls, Click <- Clicks
Typing == INSTANCE TerminalInput
    WITH mode <- x1, live <- x2, refocusOnWord <- x3, pad <- x4, region <- x5, meant <- x6, base <- x7
Extension == INSTANCE ExtensionHost
    WITH host <- x1, page <- x2, reports <- x3, closed <- x4, binding <- x5, titles <- x6, tab <- x7, overtaken <- x8,
         First <- FirstSlot, Panel <- PanelId
Shell == INSTANCE AppShell
    WITH embed <- x1, entries <- x2, pos <- x3, going <- x4, active <- x5, pending <- x6, locked <- x7, visited <- x8, target <- x9,
         Home <- HomeTab
Banner == INSTANCE RestartBanner
    WITH banner <- x1, calls <- x2, server <- x3, MaxJobs <- MaxOwnJobs
Search == INSTANCE ToolSearch
    WITH dialog <- x1, calls <- x2, handed <- x3
Files == INSTANCE FileBrowser
    WITH fm <- x1, calls <- x2, disk <- x3, unasked <- x4, First <- FirstNames
Lists == INSTANCE ResourceLists
    WITH view <- x1, calls <- x2, server <- x3, wrong <- x4, spent <- x5,
         First <- FirstItems, MaxActs <- MaxClicks
Output == INSTANCE OutputParsers
    WITH doing <- x1, modes <- x2, clip <- x3, ring <- x4, kept <- x5, meant <- x6, sent <- x7

-----------------------------------------------------------------------------
\* What the part at hand does not use.
NoRing == size = 0 /\ buf = <<>> /\ writePos = 0 /\ filled = 0 /\ total = 0
None12 == x12 = None /\ x13 = None /\ x14 = None /\ x15 = None /\ x16 = None
None11 == x11 = None /\ None12
None10 == x10 = None /\ None11
None9 == x9 = None /\ None10
None8 == x8 = None /\ None9
None7 == x7 = None /\ None8
None6 == x6 = None /\ None7
None5 == x5 = None /\ None6
None4 == x4 = None /\ None5
None3 == x3 = None /\ None4
None1 == x1 = None /\ x2 = None /\ None3
Rest12 == <<x12, x13, x14, x15, x16>>
Rest10 == <<x10, x11, x12, x13, x14, x15, x16>>
Rest9 == <<x9, x10, x11, x12, x13, x14, x15, x16>>
Rest8 == <<x8, x9, x10, x11, x12, x13, x14, x15, x16>>
Rest7 == <<x7, x8, x9, x10, x11, x12, x13, x14, x15, x16>>
Rest6 == <<x6, x7, x8, x9, x10, x11, x12, x13, x14, x15, x16>>
Rest5 == <<x5, x6, x7, x8, x9, x10, x11, x12, x13, x14, x15, x16>>
Rest4 == <<x4, x5, x6, x7, x8, x9, x10, x11, x12, x13, x14, x15, x16>>
Rest3 == <<x3, x4, x5, x6, x7, x8, x9, x10, x11, x12, x13, x14, x15, x16>>
Rest1 == <<x1, x2, x3, x4, x5, x6, x7, x8, x9, x10, x11, x12, x13, x14, x15, x16>>

PanelsInit ==
    \/ part = "Ring" /\ Init /\ None1
    \/ part = "Prompt" /\ Prompt!Init /\ NoRing
    \/ part = "Typing" /\ Typing!Init /\ NoRing /\ None8
    \/ part = "Extension" /\ Extension!Init /\ NoRing /\ None9
    \/ part = "Shell" /\ Shell!Init /\ NoRing /\ None10
    \/ part = "Dialog" /\ Dialog!Init /\ NoRing /\ None12
    \/ part = "Mise" /\ Mise!Init /\ NoRing /\ None4
    \/ part = "Banner" /\ Banner!Init /\ NoRing /\ None4
    \/ part = "Search" /\ Search!Init /\ NoRing /\ None4
    \/ part = "Claude" /\ Claude!Init /\ NoRing /\ None5
    \/ part = "Login" /\ Login!Init /\ NoRing /\ None6
    \/ part = "Files" /\ Files!Init /\ NoRing /\ None5
    \/ part = "Editor" /\ Editor!Init /\ NoRing /\ None5
    \/ part = "Lists" /\ Lists!Init /\ NoRing /\ None6
    \/ part = "Logs" /\ Logs!Init /\ NoRing /\ None3
    \/ part = "Projects" /\ Projects!Init /\ NoRing /\ None6
    \/ part = "Fingerprint" /\ NoRing /\ None11 /\ \E g \in Gate : x10 = g /\ Fingerprint(g)!Init
    \/ part = "Purge" /\ Purge!Init /\ NoRing /\ None7
    \/ part = "Output" /\ Output!Init /\ NoRing /\ None8

PanelsNext ==
    \/ part = "Ring" /\ Next /\ UNCHANGED <<part, Rest1>>
    \/ part = "Prompt" /\ Prompt!Next /\ UNCHANGED <<part, vars>>
    \/ part = "Typing" /\ Typing!Next /\ UNCHANGED <<part, vars, Rest8>>
    \/ part = "Extension" /\ Extension!Next /\ UNCHANGED <<part, vars, Rest9>>
    \/ part = "Shell" /\ Shell!Next /\ UNCHANGED <<part, vars, Rest10>>
    \/ part = "Dialog" /\ Dialog!Next /\ UNCHANGED <<part, vars, Rest12>>
    \/ part = "Mise" /\ Mise!Next /\ UNCHANGED <<part, vars, Rest4>>
    \/ part = "Banner" /\ Banner!Next /\ UNCHANGED <<part, vars, Rest4>>
    \/ part = "Search" /\ Search!Next /\ UNCHANGED <<part, vars, Rest4>>
    \/ part = "Claude" /\ Claude!Next /\ UNCHANGED <<part, vars, Rest5>>
    \/ part = "Login" /\ Login!Next /\ UNCHANGED <<part, vars, Rest6>>
    \/ part = "Files" /\ Files!Next /\ UNCHANGED <<part, vars, Rest5>>
    \/ part = "Editor" /\ Editor!Next /\ UNCHANGED <<part, vars, Rest5>>
    \/ part = "Lists" /\ Lists!Next /\ UNCHANGED <<part, vars, Rest6>>
    \/ part = "Logs" /\ Logs!Next /\ UNCHANGED <<part, vars, Rest3>>
    \/ part = "Projects" /\ Projects!Next /\ UNCHANGED <<part, vars, Rest6>>
    \/ /\ part = "Fingerprint" /\ UNCHANGED <<part, vars, Rest10>>
       /\ \E g \in Gate : x10 = g /\ Fingerprint(g)!Next
    \/ part = "Purge" /\ Purge!Next /\ UNCHANGED <<part, vars, Rest7>>
    \/ part = "Output" /\ Output!Next /\ UNCHANGED <<part, vars, Rest8>>

PanelsSpec == PanelsInit /\ [][PanelsNext]_panels

-----------------------------------------------------------------------------
\* Types of the variables of whatever part it is.
PanelsTypeOK ==
    CASE part = "Prompt" -> Prompt!TypeOK
      [] part = "Typing" -> Typing!TypeOK
      [] part = "Extension" -> Extension!TypeOK
      [] part = "Shell" -> Shell!TypeOK
      [] part = "Dialog" -> Dialog!TypeOK
      [] part = "Mise" -> Mise!TypeOK
      [] part = "Banner" -> Banner!TypeOK
      [] part = "Search" -> Search!TypeOK
      [] part = "Claude" -> Claude!TypeOK
      [] part = "Login" -> Login!TypeOK
      [] part = "Files" -> Files!TypeOK
      [] part = "Editor" -> Editor!TypeOK
      [] part = "Lists" -> Lists!TypeOK
      [] part = "Logs" -> Logs!TypeOK
      [] part = "Projects" -> Projects!TypeOK
      [] part = "Fingerprint" -> \A g \in Gate : x10 = g => Fingerprint(g)!TypeOK
      [] part = "Purge" -> Purge!TypeOK
      [] part = "Output" -> Output!TypeOK
      [] part = "Ring" -> TypeOK

\* Whatever a page waits for, a prompt, a request, a timer or a lock it holds,
\* is under way: no button stays off and no spinner on, in whatever order
\* answers arrive or fail and whatever is closed meanwhile.
NothingStuck ==
    CASE part = "Prompt" -> Prompt!NoSilentWait
      [] part = "Dialog" -> Dialog!NeverStuck
      [] part = "Mise" -> Mise!NothingStuck
      [] part = "Banner" -> Banner!NothingStuck
      [] part = "Search" -> Search!NothingStuck
      [] part = "Claude" -> Claude!NothingStuck
      [] part = "Login" -> Login!NothingStuck
      [] part = "Files" -> Files!NothingStuck
      [] part = "Editor" -> Editor!NothingStuck
      [] part = "Lists" -> Lists!NothingStuck
      [] part = "Logs" -> Logs!NothingStuck
      [] part = "Projects" -> Projects!NothingStuck
      [] OTHER -> TRUE

\* What the shell's line is after a phone's keyboard composed, rewrote and
\* lost text is what was typed; what a terminal is replayed is its output, in
\* the modes that were set, without clipboard writes.
TextIsMeant ==
    /\ part = "Typing" => Typing!LineIsMeant
    /\ part = "Output" => Output!RingIsOutput /\ Output!Restored

\* What is shown is so: a session or VNC target once per window of the editor,
\* in the slot bound to it, unless a command overtook a page's report or gave a
\* new session the name that another view was for; in the shell, what its address
\* names, or home while a way back is on its way, over a history of home and one
\* tab at most; in place of a locked page a card, only while something about the
\* gate is on its way or came in the other order; of the logs whatever vector
\* writes, unless it opened an old file under a purge.
ShownIsTrue ==
    /\ part = "Extension" => Extension!ShownOnce /\ Extension!BindingIsShown
    /\ part = "Shell" => Shell!HistoryIsFlat /\ Shell!AddressIsShown
    /\ part = "Prompt" => Prompt!LockedCardIsRight
    /\ part = "Purge" => Purge!VectorIsSeen

\* What was started is followed to its end: no login is left running behind a
\* panel that is gone or that calls it ended, unless the answer to its start was
\* lost or its cancel failed; a job's id is kept for the next visit, a job that
\* runs is in a store of bounded size, a clone that is there is listed, a purged
\* line is in no file.
NothingLeftBehind ==
    CASE part = "Dialog" -> Dialog!NothingLeftRunning
      [] part = "Mise" -> Mise!StoreIsSound
      [] part = "Login" -> Login!NothingLeftRunning /\ Login!EndIsTrue
      [] part = "Claude" -> Claude!JobIsKept
      [] part = "Projects" -> Projects!ClonedIsListed
      [] part = "Purge" -> Purge!PurgedIsGone
      [] OTHER -> TRUE

\* What is replaced, overwritten, installed, purged or removed is what the user
\* was shown and asked about, once; excepted are a file that was made after a
\* request had found its place free, and one in another folder than an upload was
\* agreed to for.  And what is unlocked or enrolled by a
\* fingerprint is what was begun, once, by assertions in the backoff's number.
OnlyAsked ==
    CASE part = "Files" -> Files!OnlyNamedIsReplaced
      [] part = "Editor" -> Editor!OthersAreKept /\ Editor!SavedWasStored
      [] part = "Lists" -> Lists!ActedIsConfirmed /\ Lists!OnceAtATime
      [] part = "Search" -> Search!VersionsAreOfTool
      [] part = "Projects" -> Projects!OnceAtATime
      [] part = "Fingerprint" -> \A g \in Gate : x10 = g => Fingerprint(g)!CeremonyWinsOnce /\ Fingerprint(g)!OverrunIsBounded
      [] part = "Purge" -> Purge!OthersSurvive
      [] OTHER -> TRUE

\* No answer that was overtaken, no save and no restart undoes what a newer one
\* has shown, stored or removed.
NewestStep ==
    CASE part = "Mise" -> Mise!NewestStep
      [] part = "Banner" -> Banner!NewestStep
      [] part = "Logs" -> Logs!NewestStep
      [] part = "Claude" -> Claude!KeepsStart
      [] part = "Projects" -> Projects!NothingComesBack
      [] part = "Fingerprint" -> \A g \in Gate : x10 = g => Fingerprint(g)!DeletedStaysDeleted
      [] OTHER -> TRUE
NewestShown == [][NewestStep]_panels
================================================================================
