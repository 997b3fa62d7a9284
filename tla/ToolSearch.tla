------------------------------ MODULE ToolSearch ------------------------------
(***************************************************************************)
(* The dialog that finds a mise tool and a version of it                    *)
(* (components/Mise/ToolSearchDialog.tsx).  It stays mounted while it is    *)
(* closed, so what was asked before may be answered after it is opened      *)
(* again; searchRequestIdRef and versionsRequestIdRef tell the answers      *)
(* apart.                                                                   *)
(***************************************************************************)
EXTENDS Naturals

CONSTANTS Tool, MaxAsks, None  \* MaxAsks: a bound on the searches, and on the version lists asked for

VARIABLES
    dialog,  \* open, the search and the selected tool with its versions
    calls,   \* requests on their way
    handed   \* the version lists that onInstall was called from, and the tools they were taken for
vars == <<dialog, calls, handed>>

Init ==
    /\ dialog = [open |-> FALSE, hint |-> FALSE, searching |-> FALSE, results |-> 0, searchId |-> 0,
                 selected |-> None, loading |-> FALSE, versions |-> None, versionsId |-> 0]
    /\ calls = {} /\ handed = {}

Ask(k, n, t) == [kind |-> k, id |-> n, tool |-> t, reply |-> "none"]

-----------------------------------------------------------------------------
\* Opened: what it showed is reset, what it asked is not called off.
Open ==
    /\ ~dialog.open
    /\ dialog' = [dialog EXCEPT !.open = TRUE, !.hint = FALSE, !.results = 0, !.selected = None, !.versions = None]
    /\ UNCHANGED <<calls, handed>>

Close ==
    /\ dialog.open
    /\ dialog' = [dialog EXCEPT !.open = FALSE]
    /\ UNCHANGED <<calls, handed>>

\* runSearch with too few letters: a hint, and no results.
SearchShort ==
    /\ dialog.open /\ dialog.selected = None /\ ~dialog.searching
    /\ dialog' = [dialog EXCEPT !.hint = TRUE, !.results = 0]
    /\ UNCHANGED <<calls, handed>>

Search ==
    /\ dialog.open /\ dialog.selected = None /\ ~dialog.searching /\ dialog.searchId < MaxAsks
    /\ dialog' = [dialog EXCEPT !.hint = FALSE, !.searching = TRUE, !.searchId = @ + 1]
    /\ calls' = calls \cup {Ask("search", dialog.searchId + 1, None)}
    /\ UNCHANGED handed

\* Fault: the answer is taken, but not the end of the search.
SearchedOnly(c) ==
    /\ c.kind = "search" /\ c.reply # "none" /\ calls' = calls \ {c} /\ UNCHANGED handed
    /\ dialog' = IF c.id # dialog.searchId THEN dialog
                 ELSE [dialog EXCEPT !.results = IF c.reply = "ok" THEN c.id ELSE 0, !.searching = @ /\ c.reply = "ok"]

Searched(c) ==
    /\ c.kind = "search" /\ c.reply # "none" /\ calls' = calls \ {c} /\ UNCHANGED handed
    /\ dialog' = IF c.id # dialog.searchId THEN dialog
                 ELSE [dialog EXCEPT !.results = IF c.reply = "ok" THEN c.id ELSE 0, !.searching = FALSE]

\* openVersions, of a result.
OpenVersions(t) ==
    /\ dialog.open /\ dialog.selected = None /\ dialog.results # 0 /\ dialog.versionsId < MaxAsks
    /\ dialog' = [dialog EXCEPT !.selected = t, !.versions = None, !.loading = TRUE, !.versionsId = @ + 1]
    /\ calls' = calls \cup {Ask("versions", dialog.versionsId + 1, t)}
    /\ UNCHANGED handed

\* Fault: any answer is taken.
VersionsReadAny(c) ==
    /\ c.kind = "versions" /\ c.reply # "none" /\ calls' = calls \ {c} /\ UNCHANGED handed
    /\ dialog' = [dialog EXCEPT !.versions = IF c.reply = "ok" THEN c.tool ELSE @, !.loading = FALSE]

VersionsRead(c) ==
    /\ c.kind = "versions" /\ c.reply # "none" /\ calls' = calls \ {c} /\ UNCHANGED handed
    /\ dialog' = IF c.id # dialog.versionsId THEN dialog
                 ELSE [dialog EXCEPT !.versions = IF c.reply = "ok" THEN c.tool ELSE @, !.loading = FALSE]

BackToSearch ==
    /\ dialog.open /\ dialog.selected # None
    /\ dialog' = [dialog EXCEPT !.selected = None, !.versions = None]
    /\ UNCHANGED <<calls, handed>>

\* handleQuickInstall and handleInstallVersion hand over and close.
QuickInstall ==
    /\ dialog.open /\ dialog.selected = None /\ dialog.results # 0
    /\ dialog' = [dialog EXCEPT !.open = FALSE]
    /\ UNCHANGED <<calls, handed>>

InstallVersion ==
    /\ dialog.open /\ dialog.selected # None /\ ~dialog.loading /\ dialog.versions # None
    /\ dialog' = [dialog EXCEPT !.open = FALSE]
    /\ handed' = handed \cup {<<dialog.versions, dialog.selected>>}
    /\ UNCHANGED calls

Serve(c) ==
    /\ c.reply = "none"
    /\ \E r \in {"ok", "failed"} : calls' = (calls \ {c}) \cup {[c EXCEPT !.reply = r]}
    /\ UNCHANGED <<dialog, handed>>

Next ==
    \/ Open \/ Close \/ SearchShort \/ Search \/ BackToSearch \/ QuickInstall \/ InstallVersion
    \/ \E t \in Tool : OpenVersions(t)
    \/ \E c \in calls : Searched(c) \/ VersionsRead(c) \/ Serve(c)

Spec == Init /\ [][Next]_vars

-----------------------------------------------------------------------------
\* Types of the variables.
Dialogs == [open : BOOLEAN, hint : BOOLEAN, searching : BOOLEAN, results : 0 .. MaxAsks, searchId : 0 .. MaxAsks,
            selected : Tool \cup {None}, loading : BOOLEAN, versions : Tool \cup {None}, versionsId : 0 .. MaxAsks]
Requests == [kind : {"search", "versions"}, id : 1 .. MaxAsks, tool : Tool \cup {None}, reply : {"none", "ok", "failed"}]
TypeOK == dialog \in Dialogs /\ calls \subseteq Requests /\ handed \subseteq Tool \X Tool

\* The dialog waits for a search or a version list only while the newest
\* request is on its way, however often it was closed in between.
NothingStuck ==
    /\ dialog.searching => \E c \in calls : c.kind = "search" /\ c.id = dialog.searchId
    /\ dialog.loading => \E c \in calls : c.kind = "versions" /\ c.id = dialog.versionsId

\* The guard's comment: a stale answer is not shown for a newer request.  A
\* version is installed of the tool it is a version of.
VersionsAreOfTool ==
    /\ dialog.selected # None => dialog.versions \in {None, dialog.selected}
    /\ \A h \in handed : h[1] = h[2]

\* Inductive: the request of the newest number is for the tool that is selected.
NewestIsSelected ==
    \A c \in calls : c.kind = "versions" =>
        /\ c.id <= dialog.versionsId
        /\ c.id = dialog.versionsId /\ dialog.selected # None => c.tool = dialog.selected

IndInv == TypeOK /\ NothingStuck /\ VersionsAreOfTool /\ NewestIsSelected
===============================================================================
